------------------------------ MODULE MCBench -------------------------------
\* A one-second benchmark on a path with up to 200 ms of delay.
EXTENDS Bench
=============================================================================
