------------------------------- MODULE Tunnel -------------------------------
(***************************************************************************)
(* One authenticated VPN session seen from both ends: how client and server *)
(* bring the packet pumps up over DATAGRAMs or over two unidirectional     *)
(* streams, carry packets, and notice that the other end is gone.          *)
(*                                                                         *)
(* External (quinn): opening a stream is local; the peer's accept_uni       *)
(* returns only once data of that stream has arrived.  Datagrams may be    *)
(* lost, stream data may not.  Keep-alives keep a connection of two running *)
(* ends open; it times out when one end dies silently.                     *)
(***************************************************************************)
EXTENDS Naturals

CONSTANTS Modes,       \* the transport pairs [side -> transport] considered
          MaxPackets   \* bound: packets the operating system hands to each TUN

Sides == {"client", "server"}
Transports == {"datagram", "stream"}

ASSUME ModesAssumption == Modes \subseteq [Sides -> Transports]
ASSUME MaxPacketsAssumption == MaxPackets \in Nat

VARIABLES mode,        \* vpn_transport of each side's configuration
          pc,          \* where each side is
          conn,        \* the QUIC connection between them
          announced,   \* the side's stream has been seen by its peer
          offered,     \* packets handed to the side's TUN so far
          read,        \* packets its pump has taken from there
          inbox,       \* packets that arrived for the side, by transport
          got          \* packets its pump has written to its TUN

vars == <<mode, pc, conn, announced, offered, read, inbox, got>>
packets == <<offered, read, inbox, got>>

Peer(s) == IF s = "client" THEN "server" ELSE "client"

Init ==
  /\ mode \in Modes
  /\ pc = [s \in Sides |-> "ready"]
  /\ conn = "open"
  /\ announced = [s \in Sides |-> FALSE]
  /\ offered = [s \in Sides |-> 0]
  /\ read = [s \in Sides |-> 0]
  /\ inbox = [s \in Sides |-> [t \in Transports |-> 0]]
  /\ got = [s \in Sides |-> 0]

Goto(s, to) == pc' = [pc EXCEPT ![s] = to]

\* After authentication: match vpn_transport.
Enter(s) ==
  /\ pc[s] = "ready" /\ conn = "open"
  /\ Goto(s, IF mode[s] = "datagram" THEN "pump" ELSE "open")
  /\ UNCHANGED <<mode, conn, announced, packets>>

\* open_uni: takes a stream of the peer's allowance, sends nothing.
OpenUni(s) ==
  /\ pc[s] = "open" /\ conn = "open"
  /\ Goto(s, "accept")
  /\ UNCHANGED <<mode, conn, announced, packets>>

\* A mistake: the pumps start without the peer's stream.
AcceptUniEager(s) ==
  /\ pc[s] = "accept"
  /\ Goto(s, "pump")
  /\ UNCHANGED <<mode, conn, announced, packets>>

\* accept_uni: returns the peer's stream, once there is something on it.
AcceptUni(s) ==
  /\ pc[s] = "accept"
  /\ announced[Peer(s)] \/ conn = "closed"
  /\ Goto(s, IF announced[Peer(s)] THEN "pump" ELSE "ended")
  /\ UNCHANGED <<mode, conn, announced, packets>>

\* The operating system routes a packet to the side's TUN.
Offer(s) ==
  /\ pc[s] \notin {"ended", "gone"} /\ offered[s] < MaxPackets
  /\ offered' = [offered EXCEPT ![s] = @ + 1]
  /\ UNCHANGED <<mode, pc, conn, announced, read, inbox, got>>

\* A mistake: the pump waits for a packet of its peer before it sends.
SendAfterReceive(s) ==
  /\ pc[s] = "pump" /\ conn = "open" /\ read[s] < offered[s] /\ got[s] > 0
  /\ read' = [read EXCEPT ![s] = @ + 1]
  /\ inbox' = [inbox EXCEPT ![Peer(s)][mode[s]] = @ + 1]
  /\ announced' = [announced EXCEPT ![s] = @ \/ mode[s] = "stream"]
  /\ UNCHANGED <<mode, pc, conn, offered, got>>

\* One turn of pump_tun_to_quic or pump_tun_to_stream.  A packet larger than a
\* datagram can be at the moment is dropped, and the pump goes on.
Send(s) ==
  /\ pc[s] = "pump" /\ conn = "open" /\ read[s] < offered[s]
  /\ read' = [read EXCEPT ![s] = @ + 1]
  /\ \/ inbox' = [inbox EXCEPT ![Peer(s)][mode[s]] = @ + 1]
     \/ mode[s] = "datagram" /\ UNCHANGED inbox
  /\ announced' = [announced EXCEPT ![s] = @ \/ mode[s] = "stream"]
  /\ UNCHANGED <<mode, pc, conn, offered, got>>

\* External: a datagram is lost.
Lose(s) ==
  /\ inbox[s]["datagram"] > 0
  /\ inbox' = [inbox EXCEPT ![s]["datagram"] = @ - 1]
  /\ UNCHANGED <<mode, pc, conn, announced, offered, read, got>>

\* A mistake: a packet is written to the TUN and stays in the queue.
ReceiveKeeps(s) ==
  /\ pc[s] = "pump" /\ inbox[s][mode[s]] > 0
  /\ got' = [got EXCEPT ![s] = @ + 1]
  /\ UNCHANGED <<mode, pc, conn, announced, offered, read, inbox>>

\* One turn of pump_quic_to_tun or pump_stream_to_tun.  What arrived before the
\* connection closed can still be read.
Receive(s) ==
  /\ pc[s] = "pump" /\ inbox[s][mode[s]] > 0
  /\ inbox' = [inbox EXCEPT ![s][mode[s]] = @ - 1]
  /\ got' = [got EXCEPT ![s] = @ + 1]
  /\ UNCHANGED <<mode, pc, conn, announced, offered, read>>

\* A mistake: the side that fails keeps its connection.
SideFailsOpen(s) ==
  /\ pc[s] = "pump" /\ conn = "open"
  /\ Goto(s, "ended")
  /\ UNCHANGED <<mode, conn, announced, packets>>

\* A pump fails, or the client's shutdown_signal resolves: select! returns, and
\* the side closes its connection.
SideFails(s) ==
  /\ pc[s] = "pump" /\ conn = "open"
  /\ Goto(s, "ended")
  /\ conn' = "closed"
  /\ UNCHANGED <<mode, announced, packets>>

\* The side's pending await fails on a closed connection.
SideNotices(s) ==
  /\ pc[s] \in {"ready", "open", "pump"} /\ conn = "closed"
  /\ Goto(s, "ended")
  /\ UNCHANGED <<mode, conn, announced, packets>>

\* External: the process is killed.  For the client any signal does that until
\* the pumps run, because shutdown_signal is polled only next to them.
Killed(s) ==
  /\ pc[s] \notin {"ended", "gone"}
  /\ Goto(s, "gone")
  /\ UNCHANGED <<mode, conn, announced, packets>>

\* External: the idle timeout, when an end is dead or the path is.
TimesOut ==
  /\ conn = "open"
  /\ conn' = "closed"
  /\ UNCHANGED <<mode, pc, announced, packets>>

Next ==
  \/ \E s \in Sides :
       \/ Enter(s) \/ OpenUni(s) \/ AcceptUni(s)
       \/ Offer(s) \/ Send(s) \/ Lose(s) \/ Receive(s)
       \/ SideFails(s) \/ SideNotices(s) \/ Killed(s)
  \/ TimesOut

\* Tasks are polled, pumps turn, a dead end is noticed by the idle timeout.
Fairness ==
  /\ \A s \in Sides :
       /\ WF_vars(Enter(s)) /\ WF_vars(OpenUni(s)) /\ WF_vars(AcceptUni(s))
       /\ WF_vars(Send(s)) /\ WF_vars(Receive(s)) /\ WF_vars(SideNotices(s))
  /\ WF_vars(TimesOut /\ \E s \in Sides : pc[s] = "gone")

Spec == Init /\ [][Next]_vars /\ Fairness

-----------------------------------------------------------------------------
TypeOK ==
  /\ mode \in [Sides -> Transports]
  /\ pc \in [Sides -> {"ready", "open", "accept", "pump", "ended", "gone"}]
  /\ conn \in {"open", "closed"}
  /\ announced \in [Sides -> BOOLEAN]
  /\ offered \in [Sides -> 0..MaxPackets]
  /\ read \in [Sides -> 0..MaxPackets]
  /\ inbox \in [Sides -> [Transports -> 0..MaxPackets]]
  /\ got \in [Sides -> 0..MaxPackets]

Both(t) == \A s \in Sides : mode[s] = t
Over == conn = "closed" \/ \E s \in Sides : pc[s] = "gone"

\* With the same transport configured on both sides, a packet handed to one
\* TUN sets the tunnel in motion: it is taken from there by a pump, unless the
\* session ends first.  `Carries(t)` states it for transport t.
Carries(t) ==
  \A s \in Sides : (Both(t) /\ offered[s] > 0) ~> (read[s] > 0 \/ Over)

\* Datagram mode (server main.rs:219-235, client main.rs:245-262): both ends
\* reach their pumps and each starts to carry packets without waiting for the
\* other's.
DatagramCarries == Carries("datagram")

\* Stream mode (server main.rs:236-260, client main.rs:263-288), which the
\* README offers as "the experimental reliable QUIC stream packet mode".
StreamCarries == Carries("stream")

\* When one end is gone the other does not stay behind, holding the server's
\* slot or the client's routes: closing, or else the idle timeout, ends its
\* pending await wherever it is (server main.rs:232-244, client main.rs:257-288).
NobodyLeftBehind ==
  \A s \in Sides : (pc[s] \in {"ended", "gone"}) ~> (pc[Peer(s)] \in {"ended", "gone"})

\* Ends configured for different transports exchange nothing at all while the
\* session looks up: the stream end never gets past accept_uni, and what the
\* datagram end sends is never read (README: "Switch the client and server
\* transport mode together").
MismatchIsDark ==
  mode["client"] # mode["server"] =>
    \A s \in Sides : got[s] = 0 /\ (mode[s] = "stream" => pc[s] # "pump")
=============================================================================
