------------------------------ MODULE Backlog -------------------------------
(***************************************************************************)
(* DatagramBacklog, and the send loops that use it: pump_tun_to_quic in a  *)
(* VPN session (no deadline) and the datagram benchmarks (with one).       *)
(*                                                                         *)
(* The loop counts what it queues and estimates what is still unsent from  *)
(* quinn's transmit counter, which moves under it and is read only now and *)
(* then.  External (quinn): buffered datagrams are transmitted, or, when   *)
(* the path MTU shrinks, discarded without being counted as transmitted.   *)
(***************************************************************************)
EXTENDS Naturals

CONSTANTS MaxBacklog,    \* datagram_backlog_packets; 0 disables the cap
          BufferSize,    \* datagrams that fit quinn's send buffer
          MaxPackets,    \* bound: packets the loop sends
          MaxDiscards    \* bound: datagrams discarded after an MTU drop

ASSUME BacklogAssumption ==
  /\ MaxBacklog \in Nat /\ BufferSize \in Nat /\ MaxPackets \in Nat /\ MaxDiscards \in Nat

VARIABLES pc,            \* where the loop is
          queued,        \* queued_datagrams
          transmitted,   \* transmitted_datagrams: quinn's counter when last read
          sent,          \* quinn's frame_tx.datagram less baseline_tx_datagrams
          buffer,        \* datagrams in quinn's send buffer
          discarded,     \* datagrams quinn gave up
          deadline,      \* none in a VPN session, or ahead, or passed
          conn           \* the connection

vars == <<pc, queued, transmitted, sent, buffer, discarded, deadline, conn>>

Init ==
  /\ pc = "recv"
  /\ queued = 0 /\ transmitted = 0 /\ sent = 0
  /\ buffer = 0 /\ discarded = 0
  /\ deadline \in {"none", "ahead"}
  /\ conn = "open"

\* estimated_backlog, a saturating subtraction.
EstimatedBacklog(q, t) == IF q > t THEN q - t ELSE 0

\* A mistake: the cap is compared with one packet too many.
WithinCapOffByOne(q, t) == MaxBacklog = 0 \/ EstimatedBacklog(q, t) <= MaxBacklog + 1

WithinCap(q, t) == MaxBacklog = 0 \/ EstimatedBacklog(q, t) <= MaxBacklog

\* A packet comes from the TUN device (or is the benchmark's next).  One that
\* exceeds max_datagram_size is dropped and the loop goes on: no step.
Recv ==
  /\ pc = "recv" /\ conn = "open" /\ queued < MaxPackets
  /\ pc' = "queue"
  /\ UNCHANGED <<queued, transmitted, sent, buffer, discarded, deadline, conn>>

\* send_datagram_wait: waits for room in quinn's buffer.
Queue ==
  /\ pc = "queue" /\ conn = "open" /\ buffer < BufferSize
  /\ buffer' = buffer + 1
  /\ pc' = "count"
  /\ UNCHANGED <<queued, transmitted, sent, discarded, deadline, conn>>

\* The path MTU fell between the loop's own check and quinn's, or the benchmark makes
\* none: send_datagram_wait's error ends the loop.
TooLarge ==
  /\ pc = "queue"
  /\ pc' = "ended"
  /\ UNCHANGED <<queued, transmitted, sent, buffer, discarded, deadline, conn>>

\* queued / queued_until: count it, and go on if the old estimate allows it.
Count ==
  /\ pc = "count"
  /\ queued' = queued + 1
  /\ pc' = IF WithinCap(queued', transmitted) THEN "pace" ELSE "wait"
  /\ UNCHANGED <<transmitted, sent, buffer, discarded, deadline, conn>>

\* Mistakes: a baseline taken one datagram too late, subtracted without
\* saturation; or the transmit counter is not read again.
RefreshUnderflows ==
  /\ pc = "wait"
  /\ transmitted' = sent - 1
  /\ pc' = IF WithinCap(queued, sent - 1) THEN "pace" ELSE "wait"
  /\ UNCHANGED <<queued, sent, buffer, discarded, deadline, conn>>

RefreshStale ==
  /\ pc = "wait"
  /\ pc' = CASE WithinCap(queued, transmitted) -> "pace"
             [] ~WithinCap(queued, transmitted) /\ deadline = "passed" -> "ended"
             [] OTHER -> "wait"
  /\ UNCHANGED <<queued, transmitted, sent, buffer, discarded, deadline, conn>>

\* One turn of the loop in wait_until: every 2 ms, and at the deadline.
Refresh ==
  /\ pc = "wait"
  /\ transmitted' = sent
  /\ pc' = CASE WithinCap(queued, sent) -> "pace"
             [] ~WithinCap(queued, sent) /\ deadline = "passed" -> "ended"
             [] OTHER -> "wait"
  /\ UNCHANGED <<queued, sent, buffer, discarded, deadline, conn>>

\* EgressPacer::record_and_wait: some time passes.
Pace ==
  /\ pc = "pace"
  /\ pc' = "recv"
  /\ UNCHANGED <<queued, transmitted, sent, buffer, discarded, deadline, conn>>

\* A select! of the loop takes the branch of the closed connection or of the
\* benchmark's deadline.
Stop ==
  /\ pc \in {"recv", "queue", "wait"}
  /\ conn = "closed" \/ deadline = "passed"
  /\ pc' = "ended"
  /\ UNCHANGED <<queued, transmitted, sent, buffer, discarded, deadline, conn>>

\* External: quinn.
Transmit ==
  /\ buffer > 0 /\ conn = "open"
  /\ buffer' = buffer - 1
  /\ sent' = sent + 1
  /\ UNCHANGED <<pc, queued, transmitted, discarded, deadline, conn>>

Discard ==
  /\ buffer > 0 /\ discarded < MaxDiscards
  /\ buffer' = buffer - 1
  /\ discarded' = discarded + 1
  /\ UNCHANGED <<pc, queued, transmitted, sent, deadline, conn>>

ConnectionLost ==
  /\ conn = "open"
  /\ conn' = "closed"
  /\ UNCHANGED <<pc, queued, transmitted, sent, buffer, discarded, deadline>>

DeadlinePasses ==
  /\ deadline = "ahead"
  /\ deadline' = "passed"
  /\ UNCHANGED <<pc, queued, transmitted, sent, buffer, discarded, conn>>

Next ==
  \/ Recv \/ Queue \/ TooLarge \/ Count \/ Refresh \/ Pace \/ Stop
  \/ Transmit \/ Discard \/ ConnectionLost \/ DeadlinePasses

\* The task is polled, and a live connection keeps transmitting.
Fairness ==
  /\ WF_vars(Queue) /\ WF_vars(Count) /\ WF_vars(Refresh) /\ WF_vars(Pace)
  /\ WF_vars(Stop) /\ WF_vars(Transmit)

Spec == Init /\ [][Next]_vars /\ Fairness

-----------------------------------------------------------------------------
TypeOK ==
  /\ pc \in {"recv", "queue", "count", "wait", "pace", "ended"}
  /\ queued \in Nat /\ transmitted \in Nat /\ sent \in Nat
  /\ buffer \in 0..BufferSize
  /\ discarded \in 0..MaxDiscards
  /\ deadline \in {"none", "ahead", "passed"}
  /\ conn \in {"open", "closed"}

\* The packet the loop is busy with may exceed the cap; none is added to it.
InHand == IF pc \in {"count", "wait", "ended"} THEN 1 ELSE 0

\* Whatever the counter it trusts has missed, the loop never leaves more than
\* datagram_backlog_packets unsent datagrams behind it when it goes for the next
\* packet (quic.rs:148-206; README: "caps queued QUIC DATAGRAMs that have not
\* reached Quinn's transmit stats yet").
BacklogCapped == MaxBacklog > 0 => buffer <= MaxBacklog + InHand

\* The wait for the backlog ends, though no deadline bounds it in a VPN session,
\* as long as no more than datagram_backlog_packets datagrams were discarded in
\* the session; each discarded one stays in the estimate (quic.rs:174-206).
WaitEnds == (pc = "wait" /\ discarded <= MaxBacklog) ~> (pc # "wait" \/ discarded > MaxBacklog)
=============================================================================
