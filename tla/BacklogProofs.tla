--------------------------- MODULE BacklogProofs ----------------------------
(***************************************************************************)
(* The backlog cap, for every cap, buffer size, number of packets and      *)
(* number of discarded datagrams.                                          *)
(***************************************************************************)
EXTENDS Backlog, TLAPS

\* Every datagram the loop handed over is counted once, or about to be, and is
\* in the buffer, transmitted or discarded.
Accounted == sent + buffer + discarded = queued + (IF pc = "count" THEN 1 ELSE 0)

\* The loop's copy of the transmit counter may be old, never too high.
CounterLags == transmitted <= sent

\* The estimate is within the cap, but for the packet that made the loop wait.
EstimateCapped ==
  MaxBacklog > 0 =>
    queued <= transmitted + MaxBacklog + (IF pc \in {"wait", "ended"} THEN 1 ELSE 0)

IInv == TypeOK /\ Accounted /\ CounterLags /\ EstimateCapped

-----------------------------------------------------------------------------
\* A new backlog has nothing queued.
LEMMA InitIInv == Init => IInv
BY BacklogAssumption DEF Init, IInv, TypeOK, Accounted, CounterLags, EstimateCapped

\* The steps of the loop itself.
LEMMA LoopIInv ==
  ASSUME IInv, Recv \/ Queue \/ TooLarge \/ Count \/ Refresh \/ Pace \/ Stop
  PROVE  IInv'
<1> USE BacklogAssumption DEF IInv, TypeOK, Accounted, CounterLags, EstimateCapped
<1>1. CASE Recv
  BY <1>1 DEF Recv
<1>2. CASE Queue
  BY <1>2 DEF Queue
<1>3. CASE Count
  BY <1>3 DEF Count, WithinCap, EstimatedBacklog
<1>4. CASE Refresh
  <2>1. pc' \in {"pace", "ended", "wait"} /\ (pc' = "pace" => WithinCap(queued, sent))
    BY <1>4 DEF Refresh
  <2> QED
    BY <1>4, <2>1 DEF Refresh, WithinCap, EstimatedBacklog
<1>5. CASE Pace
  BY <1>5 DEF Pace
<1>6. CASE Stop \/ TooLarge
  BY <1>6 DEF Stop, TooLarge
<1> QED
  BY <1>1, <1>2, <1>3, <1>4, <1>5, <1>6

\* What quinn, the network and the clock do meanwhile.
LEMMA EnvironmentIInv ==
  ASSUME IInv, Transmit \/ Discard \/ ConnectionLost \/ DeadlinePasses
  PROVE  IInv'
<1> USE BacklogAssumption DEF IInv, TypeOK, Accounted, CounterLags, EstimateCapped
<1>1. CASE Transmit
  BY <1>1 DEF Transmit
<1>2. CASE Discard
  BY <1>2 DEF Discard
<1>3. CASE ConnectionLost \/ DeadlinePasses
  BY <1>3 DEF ConnectionLost, DeadlinePasses
<1> QED
  BY <1>1, <1>2, <1>3

\* Every action and every stuttering step.
LEMMA NextIInv == IInv /\ [Next]_vars => IInv'
<1> SUFFICES ASSUME IInv, [Next]_vars PROVE IInv'
  OBVIOUS
<1>1. CASE UNCHANGED vars
  BY <1>1 DEF vars, IInv, TypeOK, Accounted, CounterLags, EstimateCapped
<1> QED
  BY <1>1, LoopIInv, EnvironmentIInv DEF Next

\* The counters stay natural numbers: no subtraction of the estimate wraps.
THEOREM TypeCorrect == Spec => []TypeOK
<1>1. IInv => TypeOK
  BY DEF IInv
<1> QED
  BY <1>1, InitIInv, NextIInv, PTL DEF Spec

\* Between packets, at most datagram_backlog_packets datagrams are unsent, for
\* every interleaving of the loop with quinn's transmissions (quic.rs:148-211).
THEOREM Capped == Spec => []BacklogCapped
<1>1. ASSUME IInv PROVE BacklogCapped
  BY <1>1, BacklogAssumption
  DEF IInv, TypeOK, Accounted, CounterLags, EstimateCapped, BacklogCapped, InHand
<1> QED
  BY <1>1, InitIInv, NextIInv, PTL DEF Spec
-----------------------------------------------------------------------------
(* Why the wait ends, and when it does not. *)

\* The loop has to wait for more transmissions, however often it looks.
Over == ~WithinCap(queued, sent)

\* Nothing but the end of the connection gets the loop of a VPN session out of its
\* wait: more datagrams were discarded than the cap, and none of them is ever counted
\* as transmitted.
Stuck == pc = "wait" /\ MaxBacklog > 0 /\ discarded > MaxBacklog /\ deadline = "none"

\* A loop that has to wait is waiting for something: as long as no more datagrams
\* were discarded than the cap, one that can be transmitted is still in the buffer, so
\* that no interleaving of the loop, quinn and the discards leaves it waiting for
\* nothing (quic.rs:174-206).  It is what WaitEnds rests on.
THEOREM WaitsForSomething ==
  Spec => [](pc = "wait" /\ Over /\ discarded <= MaxBacklog => buffer > 0)
<1>1. ASSUME IInv, pc = "wait", Over, discarded <= MaxBacklog PROVE buffer > 0
  <2>1. sent + buffer + discarded = queued
    BY <1>1 DEF IInv, TypeOK, Accounted
  <2>2. queued - sent > MaxBacklog
    BY <1>1, BacklogAssumption DEF IInv, TypeOK, Over, WithinCap, EstimatedBacklog
  <2> QED
    BY <1>1, <2>1, <2>2, BacklogAssumption DEF IInv, TypeOK
<1> QED
  BY <1>1, InitIInv, NextIInv, PTL DEF Spec

\* The bound in WaitEnds is exact: with one datagram more discarded, whichever they
\* were and whenever, a VPN session that waits for its backlog waits until its
\* connection is lost (quic.rs:157-160, :174-206: the estimate only ever falls with
\* quinn's transmit counter).
THEOREM DiscardsStall ==
  Spec => [](Stuck => [](Stuck \/ conn = "closed"))
<1> DEFINE Stalled == Stuck \/ conn = "closed"
<1>1. ASSUME IInv, Stuck, conn = "open", [Next]_vars PROVE Stalled'
  <2>1. ~WithinCap(queued, sent)
    BY <1>1, BacklogAssumption
    DEF IInv, TypeOK, Accounted, Stuck, WithinCap, EstimatedBacklog
  <2>2. CASE Refresh
    BY <1>1, <2>1, <2>2 DEF Refresh, Stuck
  <2>3. CASE Discard
    BY <1>1, <2>3, BacklogAssumption DEF Discard, Stuck, IInv, TypeOK
  <2>4. CASE ConnectionLost
    BY <2>4 DEF ConnectionLost
  <2> QED
    BY <1>1, <2>2, <2>3, <2>4
    DEF Next, vars, Stuck, Recv, Queue, TooLarge, Count, Pace, Stop, Transmit, DeadlinePasses
<1>2. ASSUME IInv, conn = "closed", [Next]_vars PROVE conn' = "closed"
  BY <1>2
  DEF Next, vars, Recv, Queue, TooLarge, Count, Refresh, Pace, Stop, Transmit, Discard, ConnectionLost,
      DeadlinePasses
<1>3. IInv /\ Stalled /\ [Next]_vars => Stalled'
  BY <1>1, <1>2 DEF IInv, TypeOK
<1>4. Stuck => Stalled
  OBVIOUS
<1> QED
  BY <1>3, <1>4, InitIInv, NextIInv, PTL DEF Spec
=============================================================================
