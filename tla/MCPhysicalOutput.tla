-------------------------- MODULE MCPhysicalOutput --------------------------
\* Instances of PhysicalOutput for TLC.  One connection descriptor is enough:
\* it is closed and opened again.
EXTENDS PhysicalOutput

CONSTANTS c1, d1, off, on, blue, red

MCReports == (PhyFds \cup DupFds \cup {NoFd}) \X [motor : Motors, led : Leds]
=============================================================================
