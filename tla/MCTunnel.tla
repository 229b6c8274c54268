------------------------------ MODULE MCTunnel ------------------------------
(* Tunnel for every pair of transports, and for stream mode alone. *)
EXTENDS Tunnel

MCAllModes == [Sides -> Transports]
MCStreamOnly == {[s \in Sides |-> "stream"]}
=============================================================================
