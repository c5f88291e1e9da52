---------------------------- MODULE MCTransport ----------------------------
\* Instance of Transport for TLC.  Two claim attempts show a retry and giving
\* up; three reports overrun a socket pair that holds two.
EXTENDS Transport
=============================================================================
