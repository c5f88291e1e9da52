---------------------------- MODULE MCFunctionFS ----------------------------
\* Instance of FunctionFS for TLC.  Two reports show an overwritten mailbox, a
\* third one a report that arrives while another is being written.
EXTENDS FunctionFS
=============================================================================
