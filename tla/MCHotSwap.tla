----------------------------- MODULE MCHotSwap -----------------------------
\* Instance of HotSwap for TLC.  Eight events allow a hot-swap, a command in the
\* middle of it, the loss of the cable and another connection.
EXTENDS HotSwap
=============================================================================
