----------------------------- MODULE MCFraming ------------------------------
(* Framing with binary digits: lengths up to three fit a header. *)
EXTENDS Framing
=============================================================================
