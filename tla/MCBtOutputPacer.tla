-------------------------- MODULE MCBtOutputPacer --------------------------
\* Instance of BtOutputPacer for TLC: three distinct reports are enough for a
\* write, a report held behind it and a newer one that replaces it.
EXTENDS BtOutputPacer
=============================================================================
