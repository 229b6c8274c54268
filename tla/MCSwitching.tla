---------------------------- MODULE MCSwitching -----------------------------
(* Switching as it is: its state space is finite. *)
EXTENDS Switching
=============================================================================
