------------------------------ MODULE MCPacer -------------------------------
\* Rates between 5 and 10 bytes a tick, packets of 7 bytes, a burst of 9.
EXTENDS Pacer
=============================================================================
