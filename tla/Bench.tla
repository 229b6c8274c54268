------------------------------- MODULE Bench --------------------------------
(***************************************************************************)
(* One benchmark run between client and server: packets in one direction   *)
(* for a while, then the server's summary on a stream of its own.  The two *)
(* sides only agree through timers: the client's and the server's          *)
(* deadlines, five-second waits, and the 300 ms the server stays around    *)
(* after its summary.                                                      *)
(*                                                                         *)
(* Time is in ticks of 100 ms from the moment the server has sent AUTH_OK. *)
(* A task that has something to do does it before the next tick; time      *)
(* passes in between.  A packet, and with it whatever QUIC has to          *)
(* retransmit to get it there, takes at most MaxDelay ticks; a write is    *)
(* held up by flow control, congestion or the backlog for at most that     *)
(* long.  Pacing is a pause of any length between two packets.  When the   *)
(* path dies nothing arrives any more, and each side of the connection     *)
(* finds out for itself, IdleTimeout later at the latest.                  *)
(*                                                                         *)
(* What is counted are packets in the directions that send packets, as     *)
(* datagrams or framed, and bytes (the code's `bytes`) in the two unframed *)
(* stream directions, where a write takes and a read returns any number    *)
(* of them.  The `packets` those two print are numbers of calls, which     *)
(* nothing relates to each other; they are left out.                       *)
(***************************************************************************)
EXTENDS Naturals, Sequences

CONSTANTS Duration,     \* duration_secs, in ticks
          MaxDelay,     \* one way, retransmissions included
          IdleTimeout,  \* until quinn reports a dead path: max_idle_timeout, which the
                        \* first keep-alive after the last packet starts anew
          MaxUnits,     \* bound: packets, or bytes, sent
          MaxTime       \* bound: the time looked at, past every timer

ASSUME BenchAssumption ==
  /\ Duration \in Nat \ {0} /\ MaxDelay \in Nat /\ IdleTimeout \in Nat
  /\ MaxUnits \in Nat /\ MaxTime \in Nat

Second == 10
Directions == {"upload", "download", "stream-upload", "stream-download",
               "stream-packet-upload", "stream-packet-download"}
Uploads == {"upload", "stream-upload", "stream-packet-upload"}
Datagrams == {"upload", "download"}
Framed == {"stream-packet-upload", "stream-packet-download"}
Roles == {"client", "server"}

\* A mistake: the server stops reading when the client stops sending.
NoGrace(r) == Duration + (IF r = "server" THEN 0 ELSE 5 * Second)

\* How long a receiver reads: the server a second longer than the run, the
\* client five.
ReadFor(r) == Duration + (IF r = "server" THEN Second ELSE 5 * Second)

\* A mistake: the server does not wait for its summary to get there.
NoLinger == 0

\* After the summary the server keeps the connection for 300 ms.
Linger == 3
SummaryWait == 5 * Second
AckWait == 5 * Second
Rest == 1

VARIABLES dir,          \* BenchDirection
          now,
          pc,           \* where each side is
          timer,        \* each side's next deadline
          count,        \* what each side has counted
          blocked,      \* when the sender's write or backlog wait began
          queued,       \* what the sender has given to QUIC
          flight,       \* when what is on its way was sent
          dropped,      \* what was lost on the way
          inbox,        \* what arrived and was not read
          mail,         \* other messages on their way
          arrived,      \* other messages that have arrived
          report,       \* the count in the server's summary
          path,         \* "up", "narrow" (a datagram was too large for it) or "dead"
          lostAt        \* when the path died

vars == <<dir, now, pc, timer, count, blocked, queued, flight, dropped, inbox, mail,
          arrived, report, path, lostAt>>
link == <<path, lostAt>>
sending == <<blocked, queued, flight, dropped>>

Sender == IF dir \in Uploads THEN "client" ELSE "server"
Receiver == IF dir \in Uploads THEN "server" ELSE "client"
Busy == {"auth", "accept", "read", "loop", "write", "backlog", "ack", "summary", "linger", "rest"}
Timed == {"read", "loop", "backlog", "ack", "summary", "linger", "rest"}

\* The server has authenticated the client and enters run_bench.
Init ==
  /\ dir \in Directions
  /\ now = 0
  /\ pc = [r \in Roles |-> IF r = "client" THEN "auth"
                          ELSE IF dir = "upload" THEN "read"
                          ELSE IF dir \in Uploads THEN "accept" ELSE "loop"]
  /\ timer = [r \in Roles |-> IF r = "client" THEN 0
                             ELSE IF dir \in Uploads THEN ReadFor("server") ELSE Duration]
  /\ count = [r \in Roles |-> 0]
  /\ blocked = 0 /\ queued = 0 /\ flight = <<>> /\ dropped = 0 /\ inbox = 0
  /\ mail = {[msg |-> "ok", at |-> 0]}
  /\ arrived = {}
  /\ report = 0
  /\ path = "up" /\ lostAt = 0

\* The peer's close, and a side's idle timeout at its latest.
PeerClosed(r) == (IF r = "client" THEN "close" ELSE "bye") \in arrived
TimedOut == path = "dead" /\ now >= lostAt + IdleTimeout

\* A mistake: only a close that the peer sends is noticed, not its silence.
ClosedByPeer(r) == PeerClosed(r)

\* What the connection may report to a side: a dead path sooner or later.
Closed(r) == PeerClosed(r) \/ path = "dead"

Goto(r, to, until) ==
  /\ pc' = [pc EXCEPT ![r] = to]
  /\ timer' = [timer EXCEPT ![r] = until]

\* What one write or read carries, of n there is room for, or that are there: a packet,
\* or any number of an unframed stream's bytes.
Portions(n) == IF dir \in Datagrams \cup Framed THEN 1..n \cap {1} ELSE 1..n

Post(m) == mail' = IF path = "dead" THEN mail ELSE mail \cup {[msg |-> m, at |-> now]}

\* An error ends a side's part, and closes its end of the connection.
GiveUp(r) ==
  /\ Goto(r, "failed", 0)
  /\ Post(IF r = "client" THEN "bye" ELSE "close")

-----------------------------------------------------------------------------
(* The network (external: quinn and the path). *)

PacketArrives(i) ==
  /\ path # "dead" /\ (dir \notin Datagrams => i = 1)
  /\ flight' = SubSeq(flight, 1, i - 1) \o SubSeq(flight, i + 1, Len(flight))
  /\ inbox' = inbox + 1
  /\ UNCHANGED <<dir, now, pc, timer, count, blocked, queued, dropped, mail, arrived, report, link>>

DatagramLost(i) ==
  /\ dir \in Datagrams
  /\ flight' = SubSeq(flight, 1, i - 1) \o SubSeq(flight, i + 1, Len(flight))
  /\ dropped' = dropped + 1
  /\ UNCHANGED <<dir, now, pc, timer, count, blocked, queued, inbox, mail, arrived, report, link>>

\* The end of a stream arrives after its data, and is acknowledged.
MessageArrives(m) ==
  /\ path # "dead" /\ (m.msg = "fin" => flight = <<>>)
  /\ mail' = IF m.msg = "fin" THEN (mail \ {m}) \cup {[msg |-> "ack", at |-> now]} ELSE mail \ {m}
  /\ arrived' = arrived \cup {m.msg}
  /\ UNCHANGED <<dir, now, pc, timer, count, sending, inbox, report, link>>

\* What is on its way is gone, and nothing arrives any more.
ConnectionLost ==
  /\ path # "dead" /\ \E r \in Roles : pc[r] \in Busy
  /\ path' = "dead" /\ lostAt' = now
  /\ flight' = <<>> /\ dropped' = dropped + Len(flight) /\ mail' = {}
  /\ UNCHANGED <<dir, now, pc, timer, count, blocked, queued, inbox, arrived, report>>

-----------------------------------------------------------------------------
(* Starting. *)

\* The client has AUTH_OK and enters run_bench.
ClientStarts ==
  /\ pc["client"] = "auth" /\ "ok" \in arrived
  /\ CASE dir \in Uploads -> Goto("client", "loop", now + Duration)
       [] dir = "download" -> Goto("client", "read", now + ReadFor("client"))
       [] OTHER -> Goto("client", "accept", 0)
  /\ UNCHANGED <<dir, now, count, sending, inbox, mail, arrived, report, link>>

\* accept_uni returns when the stream's first bytes, or its end, are there.
AcceptStream ==
  /\ pc[Receiver] = "accept" /\ (inbox > 0 \/ "fin" \in arrived)
  /\ Goto(Receiver, "read", now + ReadFor(Receiver))
  /\ UNCHANGED <<dir, now, count, sending, inbox, mail, arrived, report, link>>

-----------------------------------------------------------------------------
(* The summary. *)

\* send_bench_summary
SendSummary(n) ==
  /\ Post("summary")
  /\ report' = n
  /\ Goto("server", "linger", now + Linger)

\* What follows the loop of a side: the server's summary, the client's wait for it.
EndOfLoop(r) ==
  IF r = "server" THEN SendSummary(count["server"])
  ELSE Goto("client", "summary", now + SummaryWait) /\ UNCHANGED <<mail, report>>

\* The 300 ms are over, or the client has closed the connection: the server's
\* task drops it.
LingerEnds ==
  /\ pc["server"] = "linger" /\ (now >= timer["server"] \/ Closed("server"))
  /\ Goto("server", "ended", 0)
  /\ Post("close")
  /\ UNCHANGED <<dir, now, count, sending, inbox, arrived, report, link>>

\* The client closes the connection whatever the result.
ClientDone ==
  /\ Goto("client", "done", 0)
  /\ Post("bye")

\* read_bench_summary_stream: in the download benchmark a task of its own, that
\* wins over datagrams not yet read.
SummaryDue ==
  /\ "summary" \in arrived
  /\ \/ pc["client"] = "summary"
     \/ dir = "download" /\ pc["client"] = "read"

SummaryRead ==
  /\ SummaryDue
  /\ IF dir \in Uploads
       THEN Goto("client", "rest", now + Rest) /\ UNCHANGED mail
       ELSE ClientDone
  /\ UNCHANGED <<dir, now, count, sending, inbox, arrived, report, link>>

RestEnds ==
  /\ pc["client"] = "rest" /\ now >= timer["client"]
  /\ ClientDone
  /\ UNCHANGED <<dir, now, count, sending, inbox, arrived, report, link>>

-----------------------------------------------------------------------------
(* The sender. *)

\* The streams look at the clock before each write; the datagrams' select takes
\* either branch when both are ready.
BeginWrite ==
  /\ pc[Sender] = "loop" /\ queued < MaxUnits
  /\ dir \in Datagrams \/ now < timer[Sender]
  /\ pc' = [pc EXCEPT ![Sender] = "write"]
  /\ blocked' = now
  /\ UNCHANGED <<dir, now, timer, count, queued, flight, dropped, inbox, mail, arrived, report, link>>

\* A datagram is counted once the backlog has drained, a stream write at once.
WriteDone(n) ==
  /\ pc[Sender] = "write"
  /\ queued' = queued + n
  /\ IF path = "dead"
       THEN dropped' = dropped + n /\ UNCHANGED flight
       ELSE flight' = flight \o [i \in 1..n |-> now] /\ UNCHANGED dropped
  /\ pc' = [pc EXCEPT ![Sender] = IF dir \in Datagrams THEN "backlog" ELSE "loop"]
  /\ count' = IF dir \in Datagrams THEN count ELSE [count EXCEPT ![Sender] = @ + n]
  /\ blocked' = IF dir \in Datagrams THEN now ELSE 0
  /\ UNCHANGED <<dir, now, timer, inbox, mail, arrived, report, link>>

\* send_datagram_wait finds that the path takes no datagram of this size (any more):
\* the error ends the benchmark on a connection that is up.
TooLarge ==
  /\ pc[Sender] = "write" /\ dir \in Datagrams
  /\ path' = IF path = "dead" THEN path ELSE "narrow"
  /\ GiveUp(Sender)
  /\ UNCHANGED <<dir, now, count, sending, inbox, arrived, report, lostAt>>

\* queued_until returned true.
BacklogDrained ==
  /\ pc[Sender] = "backlog"
  /\ pc' = [pc EXCEPT ![Sender] = "loop"]
  /\ count' = [count EXCEPT ![Sender] = @ + 1]
  /\ blocked' = 0
  /\ UNCHANGED <<dir, now, timer, queued, flight, dropped, inbox, mail, arrived, report, link>>

\* The deadline ends the loop, a write of the unframed stream or of a datagram, or
\* the wait for the backlog; nothing interrupts write_stream_packet.  A stream is
\* finished before the summary.
SenderStops ==
  /\ pc[Sender] \in {"loop", "backlog"} \/ (pc[Sender] = "write" /\ dir \notin Framed)
  /\ now >= timer[Sender]
  /\ IF dir \in Datagrams
       THEN EndOfLoop(Sender)
       ELSE /\ Post("fin")
            /\ Goto(Sender, "ack", now + AckWait)
            /\ UNCHANGED report
  /\ UNCHANGED <<dir, now, count, sending, inbox, arrived, link>>

\* finish_stream_with_ack: acknowledged, or after five seconds with a warning.
AckOver ==
  /\ pc[Sender] = "ack" /\ ("ack" \in arrived \/ now >= timer[Sender])
  /\ EndOfLoop(Sender)
  /\ UNCHANGED <<dir, now, count, sending, inbox, arrived, link>>

-----------------------------------------------------------------------------
(* The receiver. *)

\* A mistake: what was read is counted and left where it is.
ReadKeeps(n) ==
  /\ pc[Receiver] = "read"
  /\ count' = [count EXCEPT ![Receiver] = @ + n]
  /\ UNCHANGED <<dir, now, pc, timer, sending, inbox, mail, arrived, report, link>>

ReadPacket(n) ==
  /\ pc[Receiver] = "read"
  /\ inbox' = inbox - n
  /\ count' = [count EXCEPT ![Receiver] = @ + n]
  /\ UNCHANGED <<dir, now, pc, timer, sending, mail, arrived, report, link>>

ReadEnd ==
  /\ pc[Receiver] = "read" /\ inbox = 0 /\ "fin" \in arrived
  /\ EndOfLoop(Receiver)
  /\ UNCHANGED <<dir, now, count, sending, inbox, arrived, link>>

\* The server's reading deadline: it reports what it has.
ReadOver ==
  /\ dir \in Uploads /\ pc["server"] = "read" /\ inbox = 0 /\ now >= timer["server"]
  /\ EndOfLoop("server")
  /\ UNCHANGED <<dir, now, count, sending, inbox, arrived, link>>

-----------------------------------------------------------------------------
(* Errors. *)

\* A side that waits for the connection finds it closed, or the client has waited
\* too long.
Fail(r) ==
  /\ pc[r] \in Busy \ {"linger", "rest"}
  /\ \/ Closed(r) /\ ~(pc[r] = "summary" /\ "summary" \in arrived)
     \/ r = "client" /\ pc[r] \in {"read", "summary"} /\ now >= timer[r]
  /\ GiveUp(r)
  /\ UNCHANGED <<dir, now, count, sending, inbox, arrived, report, link>>

-----------------------------------------------------------------------------
\* Something has to be done before time can pass.
Urgent ==
  \/ path # "dead" /\ \E m \in mail : now >= m.at + MaxDelay
  \/ path # "dead" /\ \E i \in 1..Len(flight) : now >= flight[i] + MaxDelay
  \/ pc["client"] = "auth" /\ "ok" \in arrived
  \/ pc[Receiver] = "accept" /\ (inbox > 0 \/ "fin" \in arrived)
  \/ pc[Receiver] = "read" /\ (inbox > 0 \/ "fin" \in arrived)
  \/ path # "dead" /\ pc[Sender] \in {"write", "backlog"} /\ now >= blocked + MaxDelay
  \/ pc[Sender] = "write" /\ dir \notin Framed /\ now >= timer[Sender]
  \/ pc[Sender] = "ack" /\ "ack" \in arrived
  \/ SummaryDue
  \/ \E r \in Roles : pc[r] \in Timed /\ now >= timer[r]
  \/ \E r \in Roles : pc[r] \in Busy \ {"rest"} /\ (PeerClosed(r) \/ TimedOut)

Tick ==
  /\ ~Urgent /\ now < MaxTime
  /\ \E r \in Roles : pc[r] \in Busy
  /\ now' = now + 1
  /\ UNCHANGED <<dir, pc, timer, count, sending, inbox, mail, arrived, report, link>>

Progress ==
  \/ \E i \in 1..Len(flight) : PacketArrives(i)
  \/ \E m \in mail : MessageArrives(m)
  \/ ClientStarts \/ AcceptStream
  \/ LingerEnds \/ SummaryRead \/ RestEnds
  \/ \E n \in Portions(MaxUnits - queued) : WriteDone(n)
  \/ BacklogDrained \/ SenderStops \/ AckOver
  \/ \E n \in Portions(inbox) : ReadPacket(n)
  \/ ReadEnd \/ ReadOver
  \/ \E r \in Roles : Fail(r)
  \/ Tick

Next ==
  \/ Progress
  \/ BeginWrite \/ TooLarge
  \/ \E i \in 1..Len(flight) : DatagramLost(i)
  \/ ConnectionLost

\* Timers fire, tasks are polled, and what QUIC carries gets there.
Spec == Init /\ [][Next]_vars /\ WF_vars(Progress)

-----------------------------------------------------------------------------
TypeOK ==
  /\ dir \in Directions
  /\ now \in 0..MaxTime /\ blocked \in Nat /\ report \in 0..MaxUnits
  /\ pc \in [Roles -> Busy \cup {"ended", "done", "failed"}]
  /\ timer \in [Roles -> Nat]
  /\ count \in [Roles -> 0..MaxUnits]
  /\ queued \in 0..MaxUnits /\ dropped \in 0..MaxUnits /\ inbox \in 0..MaxUnits
  /\ \A i \in 1..Len(flight) : flight[i] \in Nat
  /\ \A m \in mail : m.msg \in {"ok", "fin", "ack", "summary", "close", "bye"} /\ m.at \in Nat
  /\ path \in {"up", "narrow", "dead"} /\ lostAt \in Nat

\* On a path whose delays stay below the 300 ms of send_bench_summary, a benchmark fails
\* only when the path dies or has become too narrow for its datagrams: in no direction
\* do the two sides' deadlines cut off the summary (server main.rs:331, :450, :625-628,
\* client main.rs:625, :657, :750, :785, :822).
SummaryReceived == (\E r \in Roles : pc[r] = "failed") => path # "up"

\* What a finished benchmark reports adds up.  Over a stream, both sides counted the
\* same: packets where they are framed, bytes where they are not (OPTIMIZATION_LOG.md:129,
\* "byte gap 0").  Datagrams the server reports as uploaded are all those that were not
\* lost on the way; the sender's count leaves out at most the one it was queueing at the
\* deadline.
CountsAddUp ==
  pc["client"] = "done" /\ path # "dead" =>
    /\ queued - count[Sender] \in (IF dir \in Datagrams THEN 0..1 ELSE {0})
    /\ dir \notin Datagrams => count["client"] = report
    /\ dir = "upload" => report + dropped = queued
    /\ dir = "download" => count["client"] + dropped <= queued

\* Both sides come to an end, also when the path dies at any point; the waits without a
\* timeout (accept_uni, write_stream_packet) included.
BothEnd == <>(\A r \in Roles : pc[r] \in {"ended", "done", "failed"})
=============================================================================
