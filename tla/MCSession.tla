----------------------------- MODULE MCSession ------------------------------
(* Session with three connections. *)
EXTENDS Session
=============================================================================
