---------------------------- MODULE TunnelProofs ----------------------------
(***************************************************************************)
(* Proofs about Tunnel, for any set of transport pairs and any number of   *)
(* packets.                                                                *)
(***************************************************************************)
EXTENDS Tunnel, TLAPS

-----------------------------------------------------------------------------
(* The inductive invariant. *)

\* No stream is ever announced, since an end writes to its stream only after it
\* was handed the other's.
StreamSilent ==
  \A s \in Sides : ~announced[s] /\ (mode[s] = "stream" => pc[s] # "pump")

\* Packets travel in the sender's transport.
SentAs == \A s \in Sides, t \in Transports : mode[Peer(s)] # t => inbox[s][t] = 0

\* Each packet an end has or had was read from the other end's TUN.
Accounted ==
  \A s \in Sides :
    /\ read[s] <= offered[s]
    /\ got[s] + inbox[s]["datagram"] + inbox[s]["stream"] <= read[Peer(s)]

\* What is written to a TUN came in datagrams, the mode of both ends.
GotByBoth == \A s \in Sides : got[s] # 0 => mode[s] = "datagram" /\ mode[Peer(s)] = "datagram"

IInv ==
  /\ TypeOK
  /\ StreamSilent
  /\ SentAs
  /\ Accounted
  /\ GotByBoth

-----------------------------------------------------------------------------
LEMMA PeerProperties ==
  ASSUME NEW s \in Sides
  PROVE  Peer(s) \in Sides /\ Peer(s) # s /\ Peer(Peer(s)) = s
         /\ \A r \in Sides : r = s \/ r = Peer(s)
BY DEF Sides, Peer

\* An end has taken no more packets than there are, and none arrived unsent.
LEMMA Bounded ==
  ASSUME IInv, NEW s \in Sides
  PROVE  /\ got[s] + inbox[s]["datagram"] + inbox[s]["stream"] <= MaxPackets
         /\ read[s] <= MaxPackets
BY PeerProperties, MaxPacketsAssumption DEF IInv, TypeOK, Accounted, Transports

LEMMA InitIInv == Init => IInv
BY PeerProperties, ModesAssumption, MaxPacketsAssumption
DEF Init, IInv, TypeOK, StreamSilent, SentAs, Accounted, GotByBoth, Sides, Transports, Peer

\* Steps of an end that move no packet.
LEMMA ControlIInv ==
  ASSUME IInv, NEW s \in Sides,
         \/ Enter(s) \/ OpenUni(s) \/ AcceptUni(s)
         \/ SideFails(s) \/ SideNotices(s) \/ Killed(s) \/ TimesOut
  PROVE  IInv'
<1> USE DEF IInv, packets, Goto
<1>1. UNCHANGED <<mode, announced, packets>>
  BY DEF Enter, OpenUni, AcceptUni, SideFails, SideNotices, Killed, TimesOut
<1>2. TypeOK'
  BY <1>1 DEF TypeOK, Enter, OpenUni, AcceptUni, SideFails, SideNotices, Killed, TimesOut
<1>3. StreamSilent'
  BY <1>1, PeerProperties
  DEF TypeOK, StreamSilent, Enter, OpenUni, AcceptUni, SideFails, SideNotices, Killed, TimesOut
<1>4. SentAs' /\ Accounted' /\ GotByBoth'
  BY <1>1 DEF SentAs, Accounted, GotByBoth
<1> QED
  BY <1>2, <1>3, <1>4

LEMMA OfferIInv ==
  ASSUME IInv, NEW s \in Sides, Offer(s)
  PROVE  IInv'
<1> USE DEF IInv, Offer
<1>1. TypeOK'
  BY MaxPacketsAssumption DEF TypeOK
<1>2. Accounted'
  BY MaxPacketsAssumption, PeerProperties DEF TypeOK, Accounted
<1> QED
  BY <1>1, <1>2 DEF StreamSilent, SentAs, GotByBoth

\* Only an end in datagram mode sends.
LEMMA SendIInv ==
  ASSUME IInv, NEW s \in Sides, Send(s)
  PROVE  IInv'
<1> USE DEF IInv, Send
<1>1. mode[s] = "datagram" /\ announced' = announced
  BY DEF TypeOK, StreamSilent, Transports
<1>2. /\ read' = [read EXCEPT ![s] = @ + 1]
      /\ read[s] < offered[s] /\ offered[s] <= MaxPackets
      /\ inbox' \in {inbox, [inbox EXCEPT ![Peer(s)]["datagram"] = @ + 1]}
  BY <1>1, MaxPacketsAssumption DEF TypeOK
<1>3. inbox[Peer(s)]["datagram"] + 1 <= MaxPackets
  BY <1>2, PeerProperties, MaxPacketsAssumption DEF TypeOK, Accounted, Transports
<1>4. TypeOK'
  BY <1>1, <1>2, <1>3, PeerProperties, MaxPacketsAssumption DEF TypeOK, Transports
<1>5. StreamSilent' /\ GotByBoth'
  BY <1>1 DEF StreamSilent, GotByBoth
<1>6. SentAs'
  BY <1>1, <1>2, PeerProperties DEF TypeOK, SentAs, Transports
<1>7. Accounted'
  BY <1>1, <1>2, PeerProperties, MaxPacketsAssumption, SMTT(30) DEF TypeOK, Accounted, Transports
<1> QED
  BY <1>4, <1>5, <1>6, <1>7

LEMMA LoseIInv ==
  ASSUME IInv, NEW s \in Sides, Lose(s)
  PROVE  IInv'
<1> USE DEF IInv, Lose
<1>1. TypeOK'
  BY MaxPacketsAssumption DEF TypeOK, Transports
<1>2. SentAs'
  BY PeerProperties DEF TypeOK, SentAs, Transports
<1>3. Accounted'
  BY PeerProperties, MaxPacketsAssumption DEF TypeOK, Accounted, Transports
<1> QED
  BY <1>1, <1>2, <1>3 DEF StreamSilent, GotByBoth

LEMMA ReceiveIInv ==
  ASSUME IInv, NEW s \in Sides, Receive(s)
  PROVE  IInv'
<1> USE DEF IInv, Receive
<1>1. mode[s] = "datagram"
  BY DEF TypeOK, StreamSilent, Transports
<1>2. inbox[s]["datagram"] > 0 /\ mode[Peer(s)] = "datagram"
  BY <1>1, PeerProperties DEF TypeOK, SentAs, Transports
<1>3. got[s] + 1 <= MaxPackets
  BY <1>2, Bounded, MaxPacketsAssumption DEF TypeOK, Transports
<1>4. TypeOK'
  BY <1>1, <1>2, <1>3, MaxPacketsAssumption DEF TypeOK, Transports
<1>5. SentAs'
  BY <1>1, <1>2, PeerProperties DEF TypeOK, SentAs, Transports
<1>6. Accounted'
  BY <1>1, <1>2, PeerProperties, MaxPacketsAssumption DEF TypeOK, Accounted, Transports
<1>7. StreamSilent' /\ GotByBoth'
  BY <1>1, <1>2, PeerProperties DEF TypeOK, StreamSilent, GotByBoth
<1> QED
  BY <1>4, <1>5, <1>6, <1>7

LEMMA NextIInv == IInv /\ [Next]_vars => IInv'
<1> SUFFICES ASSUME IInv, [Next]_vars
             PROVE  IInv'
  OBVIOUS
<1>1. CASE UNCHANGED vars
  BY <1>1 DEF vars, IInv, TypeOK, StreamSilent, SentAs, Accounted, GotByBoth
<1>2. CASE TimesOut
  BY <1>2, ControlIInv DEF Sides
<1>3. ASSUME NEW s \in Sides,
             \/ Enter(s) \/ OpenUni(s) \/ AcceptUni(s)
             \/ Offer(s) \/ Send(s) \/ Lose(s) \/ Receive(s)
             \/ SideFails(s) \/ SideNotices(s) \/ Killed(s)
      PROVE  IInv'
  BY <1>3, ControlIInv, OfferIInv, SendIInv, LoseIInv, ReceiveIInv
<1> QED
  BY <1>1, <1>2, <1>3 DEF Next

LEMMA Inductive == Spec => []IInv
BY InitIInv, NextIInv, PTL DEF Spec

-----------------------------------------------------------------------------
\* The counters of both ends stay within what the operating system offered, for
\* any number of packets (quic.rs:274-383).
THEOREM TypeCorrect == Spec => []TypeOK
<1>1. IInv => TypeOK
  BY DEF IInv
<1> QED
  BY <1>1, Inductive, PTL

\* Ends in different transports exchange nothing, however many packets are offered
\* and however long the session looks up (client main.rs:243-289, server
\* main.rs:218-261).
THEOREM Dark == Spec => []MismatchIsDark
<1>1. IInv => MismatchIsDark
  BY DEF IInv, StreamSilent, GotByBoth, MismatchIsDark, Sides, Peer
<1> QED
  BY <1>1, Inductive, PTL

\* An end in stream mode never reaches its pumps, whatever the other end's mode: each
\* waits in accept_uni for a stream the other announces only from its pumps (client
\* main.rs:264-271, server main.rs:237-244).
THEOREM StreamNeverStarts ==
  Spec => [](\A s \in Sides : mode[s] = "stream" => pc[s] # "pump" /\ got[s] = 0)
<1>1. IInv => \A s \in Sides : mode[s] = "stream" => pc[s] # "pump" /\ got[s] = 0
  BY DEF IInv, StreamSilent, GotByBoth
<1> QED
  BY <1>1, Inductive, PTL

\* No packet is delivered twice or made up: an end has written at most the packets
\* the other end read from its own TUN (quic.rs:274-383).
THEOREM NothingMadeUp ==
  Spec => [](\A s \in Sides : got[s] <= read[Peer(s)] /\ read[s] <= offered[s])
<1>1. IInv => \A s \in Sides : got[s] <= read[Peer(s)] /\ read[s] <= offered[s]
  BY PeerProperties, MaxPacketsAssumption DEF IInv, TypeOK, Accounted, Transports
<1> QED
  BY <1>1, Inductive, PTL
-----------------------------------------------------------------------------
(* What the liveness properties rest on. *)

\* An end leaves only over a closed connection, or without a word.
EndedIsClosed == \A s \in Sides : pc[s] = "ended" => conn = "closed"

\* Whichever way an end is left alone, and wherever in the set-up or in its pumps it
\* is, there is a step that lets it notice: its pending await fails on the closed
\* connection, or the idle timeout closes it (server main.rs:232-259, client
\* main.rs:257-288).
NobodyStuck ==
  \A s \in Sides :
    pc[Peer(s)] \in {"ended", "gone"} /\ pc[s] \notin {"ended", "gone"} =>
      \/ conn = "closed" /\ pc[s] \in {"ready", "open", "accept", "pump"}
      \/ conn = "open" /\ pc[Peer(s)] = "gone"

\* An end in datagram mode waits for nobody: as long as the session is not over it is
\* at its pumps, or enters them with its next step.
DatagramReady ==
  \A s \in Sides : mode[s] = "datagram" /\ ~Over => pc[s] \in {"ready", "pump"}

\* Both hold in every session: an end closes the connection in the step it leaves by.
LEMMA EndedInductive == Spec => [](EndedIsClosed /\ DatagramReady)
<1>1. Init => EndedIsClosed /\ DatagramReady
  BY DEF Init, EndedIsClosed, DatagramReady
<1>2. ASSUME TypeOK, EndedIsClosed, DatagramReady, [Next]_vars
      PROVE  EndedIsClosed' /\ DatagramReady'
  <2>1. CASE UNCHANGED vars
    BY <1>2, <2>1 DEF vars, EndedIsClosed, DatagramReady, Over
  <2>2. CASE TimesOut
    BY <1>2, <2>2 DEF TimesOut, EndedIsClosed, DatagramReady, Over
  <2>3. ASSUME NEW s \in Sides, Offer(s) \/ Send(s) \/ Lose(s) \/ Receive(s)
        PROVE  EndedIsClosed' /\ DatagramReady'
    BY <1>2, <2>3 DEF Offer, Send, Lose, Receive, EndedIsClosed, DatagramReady, Over
  <2>4. ASSUME NEW s \in Sides, SideFails(s) \/ SideNotices(s)
        PROVE  EndedIsClosed' /\ DatagramReady'
    BY <1>2, <2>4 DEF SideFails, SideNotices, EndedIsClosed, DatagramReady, Over
  <2>5. ASSUME NEW s \in Sides, Enter(s) \/ OpenUni(s) \/ AcceptUni(s) \/ Killed(s)
        PROVE  EndedIsClosed' /\ DatagramReady'
    BY <1>2, <2>5
    DEF Enter, OpenUni, AcceptUni, Killed, Goto, TypeOK, EndedIsClosed, DatagramReady, Over
  <2> QED
    BY <1>2, <2>1, <2>2, <2>3, <2>4, <2>5 DEF Next
<1> QED
  BY <1>1, <1>2, TypeCorrect, PTL DEF Spec

\* No end can be left behind for good, for any transports and any number of packets:
\* what NobodyLeftBehind rests on.
THEOREM CanNotice == Spec => []NobodyStuck
<1>1. TypeOK /\ EndedIsClosed => NobodyStuck
  BY PeerProperties DEF TypeOK, EndedIsClosed, NobodyStuck
<1> QED
  BY <1>1, TypeCorrect, EndedInductive, PTL

\* In datagram mode an end's pumps never wait for the other end to come up, unlike in
\* stream mode (StreamNeverStarts): what DatagramCarries rests on (server
\* main.rs:219-235, client main.rs:245-262).
THEOREM DatagramWaitsForNobody == Spec => []DatagramReady
BY EndedInductive, PTL
=============================================================================
