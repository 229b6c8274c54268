----------------------------- MODULE MCBacklog ------------------------------
(* Backlog with a cap of two and room for four. *)
EXTENDS Backlog
=============================================================================
