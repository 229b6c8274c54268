--------------------------- MODULE MCClientRoutes ---------------------------
(* ClientRoutes with a few runs of the client. *)
EXTENDS ClientRoutes, TLC

Symmetry == Permutations(Procs)
=============================================================================
