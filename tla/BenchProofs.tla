---------------------------- MODULE BenchProofs -----------------------------
(***************************************************************************)
(* Proofs about Bench, for every duration, everything sent and, where a    *)
(* theorem is about timers, every delay below the 300 ms the server        *)
(* lingers.                                                                *)
(***************************************************************************)
EXTENDS Bench, TLAPS

Messages == {"ok", "fin", "ack", "summary", "close", "bye"}

Numbers ==
  /\ dir \in Directions
  /\ now \in 0..MaxTime /\ blocked \in Nat /\ report \in 0..MaxUnits
  /\ queued \in 0..MaxUnits /\ dropped \in 0..MaxUnits /\ inbox \in 0..MaxUnits

PerSide ==
  /\ pc \in [Roles -> Busy \cup {"ended", "done", "failed"}]
  /\ timer \in [Roles -> Nat]
  /\ count \in [Roles -> 0..MaxUnits]

Linked == path \in {"up", "narrow", "dead"} /\ lostAt \in Nat

Underway ==
  /\ flight \in Seq(Nat)
  /\ mail \subseteq [msg : Messages, at : Nat]
  /\ arrived \subseteq Messages

\* Which of the places each side can be in.
Places ==
  /\ pc["client"] \notin {"linger", "ended"}
  /\ pc["server"] \notin {"auth", "summary", "rest", "done"}
  /\ pc[Receiver] \notin {"loop", "write", "backlog", "ack"}
  /\ pc[Sender] \notin {"accept", "read"}
  /\ dir \in Datagrams => pc[Receiver] # "accept" /\ pc[Sender] # "ack"
  /\ dir \notin Datagrams => pc[Sender] # "backlog"

\* Everything given to QUIC is somewhere; the sender's count is behind by the
\* datagram that waits for the backlog, or waited when the sender stopped.
Counted ==
  /\ queued = Len(flight) + dropped + inbox + count[Receiver]
  /\ dir \notin Datagrams => count[Sender] = queued /\ (path # "dead" => dropped = 0)
  /\ count[Sender] <= queued /\ queued <= count[Sender] + 1
  /\ pc[Sender] \in {"auth", "loop", "write"} => count[Sender] = queued
  /\ pc[Sender] = "backlog" => queued = count[Sender] + 1
  /\ pc[Sender] = "write" => queued < MaxUnits

-----------------------------------------------------------------------------
(* What the timers see to while the connection is there.                   *)

OnItsWay(m) == \E x \in mail : x.msg = m
Posted(m) == m \in arrived \/ OnItsWay(m)

\* Nothing is on its way for longer than MaxDelay.
Fresh ==
  /\ \A m \in mail : m.at <= now /\ now <= m.at + MaxDelay
  /\ \A i \in 1..Len(flight) :
       /\ flight[i] <= now /\ now <= flight[i] + MaxDelay
       /\ flight[i] <= Duration + 2 * MaxDelay

\* The client starts when AUTH_OK arrives.
Starts ==
  /\ pc["client"] = "auth" => now <= MaxDelay /\ Posted("ok")
  /\ \A m \in mail : m.msg = "ok" => m.at = 0

\* The sender stops at its deadline, or when the framed write that was begun
\* before it is done.
SendsInTime ==
  pc[Sender] \in {"loop", "write", "backlog"} =>
    /\ Duration <= timer[Sender] /\ timer[Sender] <= Duration + MaxDelay
    /\ now <= Duration + 2 * MaxDelay
    /\ pc[Sender] = "write" =>
         /\ now <= blocked + MaxDelay
         /\ dir \in Framed => blocked < timer[Sender]
         /\ dir \notin Framed => now <= timer[Sender]
    /\ pc[Sender] = "backlog" \/ (pc[Sender] = "loop" /\ dir \notin Framed) => now <= timer[Sender]

\* The end of a stream follows its data, once, and its acknowledgement follows it.
StreamEnds ==
  /\ Posted("fin") =>
       /\ pc[Sender] \notin {"auth", "loop", "write", "backlog"}
       /\ dir \notin Datagrams /\ Duration <= now
  /\ "fin" \in arrived => flight = <<>> /\ ~OnItsWay("fin")
  /\ Posted("ack") => "fin" \in arrived
  /\ \A m, x \in mail : m.msg = "fin" /\ x.msg = "fin" => m = x
  /\ \A m \in mail :
       /\ m.msg = "fin" => m.at <= Duration + 2 * MaxDelay
       /\ m.msg = "ack" => m.at <= Duration + 3 * MaxDelay
  /\ pc[Sender] = "ack" =>
       /\ Duration + AckWait <= timer[Sender] /\ now <= Duration + 4 * MaxDelay
       /\ OnItsWay("fin") \/ Posted("ack")
  /\ dir \notin Datagrams /\ pc[Sender] \in {"summary", "linger", "rest", "done", "ended"} =>
       "ack" \in arrived

\* A receiver reads until the end of the stream, the server of datagrams until its
\* deadline.
ReadsInTime ==
  /\ pc[Receiver] \in {"accept", "read"} /\ "fin" \in arrived => now <= Duration + 3 * MaxDelay
  /\ pc["client"] = "read" => Duration + 5 * Second <= timer["client"]
  /\ pc["server"] = "read" => Duration + Second <= timer["server"]
  /\ dir = "upload" /\ pc["server"] = "read" => timer["server"] = Duration + Second /\ now <= timer["server"]
  /\ pc["client"] = "summary" =>
       /\ dir # "download" /\ Duration + SummaryWait <= timer["client"]
       /\ dir \notin Datagrams => "fin" \in arrived
  /\ dir \notin Datagrams \cup Uploads /\ pc["client"] \in {"summary", "rest", "done"} => inbox = 0

\* The summary is there, and read, before the server stops waiting.
Lingers ==
  /\ Posted("summary") => pc["server"] \in {"linger", "ended"}
  /\ pc["server"] = "linger" =>
       LET p == timer["server"] - Linger IN
       /\ Linger <= timer["server"] /\ now <= timer["server"] /\ p <= now
       /\ p <= Duration + Second
       /\ dir = "upload" => p = Duration + Second
       /\ Posted("summary")
       /\ \A m \in mail : m.msg \in {"summary", "ack"} => m.at <= p
       /\ dir \notin Datagrams => "fin" \in arrived
       /\ p + MaxDelay < now => pc["client"] \in {"rest", "done"}
  /\ pc["server"] = "ended" => pc["client"] \in {"rest", "done"}
  /\ pc["client"] \in {"rest", "done"} => "summary" \in arrived
  /\ Posted("bye") => pc["client"] = "done"
  /\ Posted("close") => pc["server"] = "ended"

\* What is reported is what was counted when nothing was left to count.
Reported ==
  pc["server"] \in {"linger", "ended"} =>
    /\ report = count["server"]
    /\ dir \in Uploads => flight = <<>> /\ inbox = 0

Timely ==
  /\ \A r \in Roles : pc[r] # "failed"
  /\ Fresh /\ Starts /\ SendsInTime /\ StreamEnds /\ ReadsInTime /\ Lingers /\ Reported

IInv == Linked /\ Numbers /\ PerSide /\ Underway /\ Places /\ Counted

\* What follows when the path takes no datagram of the sender's size: the other side
\* learns of it before any of its own deadlines.
Word == IF Sender = "client" THEN "bye" ELSE "close"

Refused ==
  /\ dir \in Datagrams /\ pc[Sender] = "failed" /\ pc[Receiver] \in {"auth", "read", "failed"}
  /\ pc[Receiver] # "failed" =>
       /\ Posted(Word)
       /\ Word \in arrived => now <= Duration + 2 * MaxDelay
       /\ dir = "upload" /\ pc["server"] = "read" => Duration + Second <= timer["server"]
       /\ dir = "download" /\ pc["client"] = "read" => Duration + 5 * Second <= timer["client"]
  /\ \A m \in mail : m.msg = Word => m.at <= Duration + MaxDelay /\ now <= m.at + MaxDelay
  /\ ~Posted("summary") /\ ~Posted("fin")

TInv == IInv /\ (path = "up" => Timely) /\ (path = "narrow" => Refused)

-----------------------------------------------------------------------------
(* Sequences of send times.                                                *)

Without(f, i) == SubSeq(f, 1, i - 1) \o SubSeq(f, i + 1, Len(f))

LEMMA Joined ==
  ASSUME NEW a \in Seq(Nat), NEW b \in Seq(Nat)
  PROVE  /\ a \o b \in Seq(Nat) /\ Len(a \o b) = Len(a) + Len(b)
         /\ \A j \in 1..(Len(a) + Len(b)) : (a \o b)[j] = IF j <= Len(a) THEN a[j] ELSE b[j - Len(a)]
OBVIOUS

LEMMA Cuts ==
  ASSUME NEW f \in Seq(Nat), NEW i \in 1..Len(f)
  PROVE  /\ SubSeq(f, 1, i - 1) \in Seq(Nat) /\ Len(SubSeq(f, 1, i - 1)) = i - 1
         /\ \A j \in 1..(i - 1) : SubSeq(f, 1, i - 1)[j] = f[j]
         /\ SubSeq(f, i + 1, Len(f)) \in Seq(Nat) /\ Len(SubSeq(f, i + 1, Len(f))) = Len(f) - i
         /\ \A j \in 1..(Len(f) - i) : SubSeq(f, i + 1, Len(f))[j] = f[i + j]
OBVIOUS

\* Taking one packet out of those on their way leaves the others.
LEMMA Removed ==
  ASSUME NEW f \in Seq(Nat), NEW i \in 1..Len(f)
  PROVE  /\ Without(f, i) \in Seq(Nat) /\ Len(Without(f, i)) + 1 = Len(f)
         /\ \A j \in 1..Len(Without(f, i)) : \E k \in 1..Len(f) : Without(f, i)[j] = f[k]
<1> DEFINE g == Without(f, i)
           a == SubSeq(f, 1, i - 1)
           b == SubSeq(f, i + 1, Len(f))
           n == Len(f)
<1>1. n \in Nat /\ i \in Nat /\ 1 <= i /\ i <= n
  OBVIOUS
<1>2. /\ a \in Seq(Nat) /\ Len(a) = i - 1 /\ \A j \in 1..(i - 1) : a[j] = f[j]
      /\ b \in Seq(Nat) /\ Len(b) = n - i /\ \A j \in 1..(n - i) : b[j] = f[i + j]
  BY Cuts
<1>3. g = a \o b
  BY DEF Without
<1> HIDE DEF a, b, g, n
<1>4. /\ g \in Seq(Nat) /\ Len(g) = Len(a) + Len(b)
      /\ \A j \in 1..(Len(a) + Len(b)) : g[j] = IF j <= Len(a) THEN a[j] ELSE b[j - Len(a)]
  BY <1>2, <1>3, Joined
<1>5. Len(g) = n - 1
  BY <1>1, <1>2, <1>4
<1>6. ASSUME NEW j \in 1..(n - 1) PROVE \E k \in 1..n : g[j] = f[k]
  <2>1. CASE j <= i - 1
    <3>1. j \in 1..(i - 1) /\ j \in 1..n /\ j \in 1..(Len(a) + Len(b)) /\ j <= Len(a)
      BY <1>1, <1>2, <2>1
    <3>2. g[j] = a[j]
      BY <1>4, <3>1
    <3>3. a[j] = f[j]
      BY <1>2, <3>1
    <3> QED BY <3>1, <3>2, <3>3
  <2>2. CASE ~(j <= i - 1)
    <3>1. j - (i - 1) \in 1..(n - i) /\ j + 1 \in 1..n /\ i + (j - (i - 1)) = j + 1
      BY <1>1, <2>2
    <3>2. g[j] = b[j - (i - 1)]
      BY <1>1, <1>2, <1>4, <2>2
    <3>3. b[j - (i - 1)] = f[i + (j - (i - 1))]
      BY <1>2, <3>1
    <3> QED BY <3>1, <3>2, <3>3
  <2> QED BY <2>1, <2>2
<1>7. Len(g) + 1 = n /\ \A j \in 1..Len(g) : \E k \in 1..n : g[j] = f[k]
  BY <1>1, <1>5, <1>6
<1> QED BY <1>4, <1>7, Zenon DEF g, n

\* More on its way.
LEMMA Sent ==
  ASSUME NEW f \in Seq(Nat), NEW t \in Nat, NEW n \in Nat, NEW g, g = f \o [i \in 1..n |-> t]
  PROVE  /\ g \in Seq(Nat) /\ Len(g) = Len(f) + n
         /\ \A j \in 1..Len(g) : g[j] = t \/ \E k \in 1..Len(f) : g[j] = f[k]
<1> DEFINE b == [i \in 1..n |-> t]
<1>1. b \in Seq(Nat) /\ Len(b) = n /\ \A j \in 1..n : b[j] = t
  OBVIOUS
<1>2. g = f \o b
  OBVIOUS
<1> HIDE DEF b
<1>3. /\ g \in Seq(Nat) /\ Len(g) = Len(f) + Len(b)
      /\ \A j \in 1..(Len(f) + Len(b)) : g[j] = IF j <= Len(f) THEN f[j] ELSE b[j - Len(f)]
  BY <1>1, <1>2, Joined
<1>4. ASSUME NEW j \in 1..(Len(f) + n) PROVE g[j] = t \/ \E k \in 1..Len(f) : g[j] = f[k]
  <2>1. CASE j <= Len(f)
    BY <1>1, <1>3, <2>1
  <2>2. CASE ~(j <= Len(f))
    <3>1. j - Len(f) \in 1..n
      BY <2>2
    <3> QED BY <1>1, <1>3, <2>2, <3>1
  <2> QED BY <2>1, <2>2
<1> QED BY <1>1, <1>3, <1>4

\* What is written fits, what is read is there.
LEMMA PortionOf ==
  ASSUME NEW k, NEW n \in Portions(k)
  PROVE  n \in 1..k /\ (dir \in Datagrams \cup Framed => n = 1)
BY DEF Portions

-----------------------------------------------------------------------------
(* Types, places and counts, whatever the delays.                          *)

LEMMA Constants ==
  /\ Duration \in Nat /\ MaxDelay \in Nat /\ MaxUnits \in Nat /\ MaxTime \in Nat
  /\ IdleTimeout \in Nat
  /\ Second = 10 /\ Linger = 3 /\ SummaryWait = 50 /\ AckWait = 50 /\ Rest = 1
  /\ ReadFor("server") = Duration + 10 /\ ReadFor("client") = Duration + 50
  /\ \A r \in Roles : ReadFor(r) \in Nat
BY BenchAssumption DEF Second, Linger, SummaryWait, AckWait, Rest, ReadFor, Roles

LEMMA Sides ==
  /\ Sender \in Roles /\ Receiver \in Roles /\ Sender # Receiver
  /\ dir \in Uploads => Sender = "client" /\ Receiver = "server"
  /\ dir \notin Uploads => Sender = "server" /\ Receiver = "client"
BY DEF Sender, Receiver, Roles

LEMMA SidesStay == ASSUME dir' = dir PROVE Sender' = Sender /\ Receiver' = Receiver
BY DEF Sender, Receiver

LEMMA Begins == Init => IInv
<1> SUFFICES ASSUME Init PROVE IInv
  OBVIOUS
<1>1. Numbers /\ PerSide
  BY Constants DEF Init, Numbers, PerSide, Busy
<1>2. Underway
  BY DEF Init, Underway, Messages
<1>3. Places
  BY DEF Init, Places, Directions, Uploads, Datagrams, Sender, Receiver, Roles
<1>4. Counted
  BY Sides DEF Init, Counted, Directions, Uploads, Roles
<1>5. Linked
  BY DEF Init, Linked
<1> QED BY <1>1, <1>2, <1>3, <1>4, <1>5 DEF IInv

\* The inductive invariant gives the types.
LEMMA TypesHold == IInv => TypeOK
<1> SUFFICES ASSUME IInv PROVE TypeOK
  OBVIOUS
<1>1. \A i \in 1..Len(flight) : flight[i] \in Nat
  BY DEF IInv, Underway
<1>2. \A m \in mail : m.msg \in {"ok", "fin", "ack", "summary", "close", "bye"} /\ m.at \in Nat
  BY DEF IInv, Underway, Messages
<1> QED BY <1>1, <1>2 DEF IInv, Numbers, PerSide, Linked, TypeOK

-----------------------------------------------------------------------------
(* What an action does to the two sides.                                   *)

Stages == Busy \cup {"ended", "done", "failed"}

Moves(r, to, until) ==
  /\ pc' \in [Roles -> Stages] /\ timer' \in [Roles -> Nat]
  /\ pc'[r] = to /\ timer'[r] = until
  /\ \A q \in Roles : q # r => pc'[q] = pc[q] /\ timer'[q] = timer[q]

LEMMA GotoMoves ==
  ASSUME PerSide, NEW r \in Roles, NEW to \in Stages, NEW until \in Nat, Goto(r, to, until)
  PROVE  Moves(r, to, until)
BY DEF PerSide, Goto, Moves, Stages

Ends(r) ==
  \/ /\ r = "server" /\ Moves("server", "linger", now + 3)
     /\ Post("summary") /\ report' = count["server"]
  \/ /\ r = "client" /\ Moves("client", "summary", now + 50)
     /\ mail' = mail /\ report' = report

LEMMA EndMoves ==
  ASSUME IInv, NEW r \in Roles, EndOfLoop(r)
  PROVE  Ends(r)
<1>1. now + 3 \in Nat /\ now + 50 \in Nat /\ PerSide
  BY Constants DEF IInv, Numbers
<1>2. "linger" \in Stages /\ "summary" \in Stages /\ "client" \in Roles /\ "server" \in Roles
  BY DEF Stages, Busy, Roles
<1>3. CASE r = "server"
  <2>1. Goto("server", "linger", now + 3)
    BY <1>3, Constants DEF EndOfLoop, SendSummary
  <2>2. Post("summary") /\ report' = count["server"]
    BY <1>3 DEF EndOfLoop, SendSummary
  <2> QED BY <1>1, <1>2, <1>3, <2>1, <2>2, GotoMoves DEF Ends
<1>4. CASE r = "client"
  <2>1. Goto("client", "summary", now + 50)
    BY <1>4, Constants DEF EndOfLoop
  <2>2. mail' = mail /\ report' = report
    BY <1>4 DEF EndOfLoop
  <2> QED BY <1>1, <1>2, <1>4, <2>1, <2>2, GotoMoves DEF Ends
<1> QED BY <1>3, <1>4 DEF Roles

\* ClientStarts, by direction.
LEMMA StartMoves ==
  ASSUME IInv, ClientStarts
  PROVE  /\ dir \in Uploads => Moves("client", "loop", now + Duration)
         /\ dir = "download" => Moves("client", "read", now + Duration + 50)
         /\ dir \notin Uploads /\ dir # "download" => Moves("client", "accept", 0)
<1>1. now + Duration \in Nat /\ now + ReadFor("client") \in Nat /\ 0 \in Nat /\ PerSide
      /\ now + ReadFor("client") = now + Duration + 50
  BY Constants DEF IInv, Numbers, Roles
<1>2. {"loop", "read", "accept"} \subseteq Stages /\ "client" \in Roles
  BY DEF Stages, Busy, Roles
<1>3. /\ dir \in Uploads => Goto("client", "loop", now + Duration)
      /\ dir = "download" => Goto("client", "read", now + ReadFor("client"))
      /\ dir \notin Uploads /\ dir # "download" => Goto("client", "accept", 0)
  <2>1. CASE dir \in Uploads
    BY <2>1, Zenon DEF ClientStarts, Uploads
  <2>2. CASE dir \notin Uploads /\ dir = "download"
    BY <2>2, Zenon DEF ClientStarts, Uploads
  <2>3. CASE dir \notin Uploads /\ dir # "download"
    BY <2>3, Zenon DEF ClientStarts
  <2> QED BY <2>1, <2>2, <2>3
<1> QED BY <1>1, <1>2, <1>3, GotoMoves

LEMMA StartKeeps ==
  ASSUME ClientStarts
  PROVE  /\ pc["client"] = "auth" /\ "ok" \in arrived
         /\ UNCHANGED <<dir, now, count, blocked, queued, flight, dropped, inbox, mail, arrived, report, path, lostAt>>
<1>1. /\ pc["client"] = "auth" /\ "ok" \in arrived
      /\ UNCHANGED <<dir, now, count, sending, inbox, mail, arrived, report, link>>
  BY Zenon DEF ClientStarts
<1> QED BY <1>1 DEF sending, link

\* The moves of the other actions.
LEMMA OtherMoves ==
  ASSUME IInv
  PROVE  /\ AcceptStream => Moves(Receiver, "read", now + ReadFor(Receiver))
         /\ LingerEnds => Moves("server", "ended", 0)
         /\ SummaryRead => IF dir \in Uploads THEN Moves("client", "rest", now + 1)
                                              ELSE Moves("client", "done", 0)
         /\ RestEnds => Moves("client", "done", 0)
         /\ SenderStops => IF dir \in Datagrams THEN Ends(Sender) ELSE Moves(Sender, "ack", now + 50)
         /\ AckOver => Ends(Sender)
         /\ ReadEnd => Ends(Receiver)
         /\ ReadOver => Ends("server")
         /\ \A r \in Roles : Fail(r) => Moves(r, "failed", 0)
         /\ BeginWrite => Moves(Sender, "write", timer[Sender])
         /\ TooLarge => Moves(Sender, "failed", 0)
         /\ \A n : WriteDone(n) => Moves(Sender, IF dir \in Datagrams THEN "backlog" ELSE "loop", timer[Sender])
         /\ BacklogDrained => Moves(Sender, "loop", timer[Sender])
<1>1. /\ PerSide /\ Sender \in Roles /\ Receiver \in Roles /\ "client" \in Roles /\ "server" \in Roles
      /\ now + 1 \in Nat /\ now + 50 \in Nat /\ now + ReadFor(Receiver) \in Nat /\ 0 \in Nat
  BY Constants, Sides DEF IInv, Numbers, Roles
<1>2. {"read", "ended", "rest", "done", "ack", "failed", "write", "backlog", "loop"} \subseteq Stages
  BY DEF Stages, Busy
<1>3. ASSUME AcceptStream PROVE Moves(Receiver, "read", now + ReadFor(Receiver))
  BY <1>1, <1>2, <1>3, GotoMoves DEF AcceptStream
<1>4. ASSUME LingerEnds PROVE Moves("server", "ended", 0)
  BY <1>1, <1>2, <1>4, GotoMoves DEF LingerEnds
<1>5. ASSUME SummaryRead
      PROVE  IF dir \in Uploads THEN Moves("client", "rest", now + 1) ELSE Moves("client", "done", 0)
  BY <1>1, <1>2, <1>5, GotoMoves, Constants DEF SummaryRead, ClientDone
<1>6. ASSUME RestEnds PROVE Moves("client", "done", 0)
  BY <1>1, <1>2, <1>6, GotoMoves DEF RestEnds, ClientDone
<1>7. ASSUME SenderStops
      PROVE  IF dir \in Datagrams THEN Ends(Sender) ELSE Moves(Sender, "ack", now + 50)
  BY <1>1, <1>2, <1>7, GotoMoves, EndMoves, Constants DEF SenderStops
<1>8. ASSUME AckOver PROVE Ends(Sender)
  BY <1>1, <1>8, EndMoves DEF AckOver
<1>9. ASSUME ReadEnd PROVE Ends(Receiver)
  BY <1>1, <1>9, EndMoves DEF ReadEnd
<1>10. ASSUME ReadOver PROVE Ends("server")
  BY <1>1, <1>10, EndMoves DEF ReadOver
<1>11. ASSUME NEW r \in Roles, Fail(r) PROVE Moves(r, "failed", 0)
  BY <1>1, <1>2, <1>11, GotoMoves DEF Fail, GiveUp
<1>12. ASSUME BeginWrite PROVE Moves(Sender, "write", timer[Sender])
  BY <1>1, <1>2, <1>12 DEF BeginWrite, Moves, PerSide, Stages
<1>13. ASSUME NEW n, WriteDone(n)
       PROVE  Moves(Sender, IF dir \in Datagrams THEN "backlog" ELSE "loop", timer[Sender])
  BY <1>1, <1>2, <1>13 DEF WriteDone, Moves, PerSide, Stages
<1>14. ASSUME BacklogDrained PROVE Moves(Sender, "loop", timer[Sender])
  BY <1>1, <1>2, <1>14 DEF BacklogDrained, Moves, PerSide, Stages
<1>15. ASSUME TooLarge PROVE Moves(Sender, "failed", 0)
  BY <1>1, <1>2, <1>15, GotoMoves DEF TooLarge, GiveUp
<1> QED BY <1>3, <1>4, <1>5, <1>6, <1>7, <1>8, <1>9, <1>10, <1>11, <1>12, <1>13, <1>14, <1>15

\* The places follow from the moves.
LEMMA PlacesStep == ASSUME IInv, Next PROVE Places' /\ pc' \in [Roles -> Stages] /\ timer' \in [Roles -> Nat]
<1> DEFINE Goal == Places' /\ pc' \in [Roles -> Stages] /\ timer' \in [Roles -> Nat]
<1> USE Sides, SidesStay, OtherMoves, StartMoves DEF IInv, PerSide, Places, Moves, Ends, Roles
<1>1. ASSUME NEW i \in 1..Len(flight), PacketArrives(i) \/ DatagramLost(i) PROVE Goal
  BY <1>1 DEF PacketArrives, DatagramLost, Stages
<1>2. ASSUME NEW m \in mail, MessageArrives(m) PROVE Goal
  BY <1>2 DEF MessageArrives, Stages, sending
<1>3. ASSUME ConnectionLost \/ Tick \/ (\E n \in Portions(inbox) : ReadPacket(n)) PROVE Goal
  BY <1>3 DEF ConnectionLost, Tick, ReadPacket, Stages, sending
<1>4. ASSUME ClientStarts PROVE Goal
  <2>1. dir' = dir
    BY <1>4, StartKeeps
  <2> QED BY <1>4, <2>1 DEF Uploads, Datagrams
<1>5. ASSUME AcceptStream PROVE Goal
  BY <1>5 DEF AcceptStream
<1>6. ASSUME LingerEnds PROVE Goal
  BY <1>6 DEF LingerEnds
<1>7. ASSUME SummaryRead PROVE Goal
  BY <1>7 DEF SummaryRead
<1>8. ASSUME RestEnds PROVE Goal
  BY <1>8 DEF RestEnds
<1>9. ASSUME BeginWrite PROVE Goal
  BY <1>9 DEF BeginWrite
<1>10. ASSUME NEW n \in Portions(MaxUnits - queued), WriteDone(n) PROVE Goal
  BY <1>10 DEF WriteDone
<1>11. ASSUME BacklogDrained PROVE Goal
  BY <1>11 DEF BacklogDrained
<1>12. ASSUME SenderStops PROVE Goal
  BY <1>12 DEF SenderStops
<1>13. ASSUME AckOver PROVE Goal
  BY <1>13 DEF AckOver
<1>14. ASSUME ReadEnd PROVE Goal
  BY <1>14 DEF ReadEnd
<1>15. ASSUME ReadOver PROVE Goal
  BY <1>15 DEF ReadOver
<1>16. ASSUME NEW r \in Roles, Fail(r) PROVE Goal
  BY <1>16 DEF Fail
<1>17. ASSUME TooLarge PROVE Goal
  BY <1>17 DEF TooLarge
<1> QED
  BY <1>1, <1>2, <1>3, <1>4, <1>5, <1>6, <1>7, <1>8, <1>9, <1>10, <1>11, <1>12, <1>13, <1>14, <1>15,
     <1>16, <1>17 DEF Next, Progress

\* So do the messages.
LEMMA Mailed ==
  ASSUME Underway, now \in Nat, NEW m \in Messages, Post(m)
  PROVE  mail' \subseteq [msg : Messages, at : Nat]
BY DEF Underway, Post

LEMMA UnderwayStep == ASSUME IInv, Next PROVE Underway'
<1>1. /\ now \in Nat /\ {"ok", "fin", "ack", "summary", "close", "bye"} \subseteq Messages
      /\ flight \in Seq(Nat) /\ mail \subseteq [msg : Messages, at : Nat] /\ arrived \subseteq Messages
  BY DEF IInv, Numbers, Underway, Messages
<1>2. ASSUME NEW i \in 1..Len(flight), PacketArrives(i) \/ DatagramLost(i) PROVE Underway'
  <2>1. flight' = Without(flight, i) /\ mail' = mail /\ arrived' = arrived
    BY <1>2 DEF PacketArrives, DatagramLost, Without
  <2> QED BY <1>1, <2>1, Removed DEF Underway
<1>3. ASSUME NEW m \in mail, MessageArrives(m) PROVE Underway'
  <2>1. flight' = flight /\ arrived' = arrived \cup {m.msg} /\ m.msg \in Messages
    BY <1>1, <1>3 DEF MessageArrives, sending
  <2>2. CASE m.msg = "fin"
    <3>1. mail' = (mail \ {m}) \cup {[msg |-> "ack", at |-> now]}
      BY <1>3, <2>2 DEF MessageArrives
    <3> QED BY <1>1, <2>1, <3>1 DEF Underway
  <2>3. CASE m.msg # "fin"
    BY <1>1, <1>3, <2>1, <2>3 DEF MessageArrives, Underway
  <2> QED BY <2>2, <2>3
<1>4. ASSUME \/ ConnectionLost \/ Tick \/ (\E n \in Portions(inbox) : ReadPacket(n)) \/ AcceptStream
             \/ BeginWrite \/ BacklogDrained
      PROVE  Underway'
  <2>1. CASE ConnectionLost
    <3>1. flight' = <<>> /\ mail' = {} /\ arrived' = arrived
      BY <2>1 DEF ConnectionLost
    <3> QED BY <1>1, <3>1 DEF Underway
  <2>2. CASE ~ConnectionLost
    <3>1. UNCHANGED <<flight, mail, arrived>>
      BY <1>4, <2>2 DEF Tick, ReadPacket, AcceptStream, BeginWrite, BacklogDrained, sending
    <3> QED BY <1>1, <3>1 DEF Underway
  <2> QED BY <2>1, <2>2
<1>5. ASSUME ClientStarts PROVE Underway'
  BY <1>1, <1>5, StartKeeps DEF Underway
<1>6. ASSUME NEW n \in Portions(MaxUnits - queued), WriteDone(n) PROVE Underway'
  <2>1. /\ mail' = mail /\ arrived' = arrived
        /\ flight' = flight \/ flight' = flight \o [i \in 1..n |-> now]
    BY <1>6 DEF WriteDone
  <2>2. n \in Nat
    BY <1>6, PortionOf
  <2> QED BY <1>1, <2>1, <2>2, Sent DEF Underway
<1>7. ASSUME SummaryRead \/ RestEnds \/ LingerEnds PROVE Underway'
  <2>1. flight' = flight /\ arrived' = arrived
    BY <1>7 DEF SummaryRead, RestEnds, LingerEnds, sending
  <2>2. mail' = mail \/ Post("bye") \/ Post("close")
    BY <1>7 DEF SummaryRead, RestEnds, LingerEnds, ClientDone
  <2> QED BY <1>1, <2>1, <2>2, Mailed DEF Underway
<1>8. ASSUME SenderStops \/ AckOver \/ ReadEnd \/ ReadOver PROVE Underway'
  <2>1. flight' = flight /\ arrived' = arrived
    BY <1>8 DEF SenderStops, AckOver, ReadEnd, ReadOver, sending
  <2>2. mail' = mail \/ Post("fin") \/ Post("summary")
    BY <1>8, OtherMoves DEF SenderStops, Ends
  <2> QED BY <1>1, <2>1, <2>2, Mailed DEF Underway
<1>9. ASSUME TooLarge \/ (\E r \in Roles : Fail(r)) PROVE Underway'
  <2>1. flight' = flight /\ arrived' = arrived
    BY <1>9 DEF Fail, TooLarge, sending
  <2>2. Post("bye") \/ Post("close")
    BY <1>9 DEF Fail, TooLarge, GiveUp
  <2> QED BY <1>1, <2>1, <2>2, Mailed DEF Underway
<1> QED
  BY <1>2, <1>3, <1>4, <1>5, <1>6, <1>7, <1>8, <1>9 DEF Next, Progress

\* And the counts.
LEMMA CountedStep ==
  ASSUME IInv, Next
  PROVE  Counted' /\ Numbers' /\ count' \in [Roles -> 0..MaxUnits]
<1> DEFINE Goal == Counted' /\ Numbers' /\ count' \in [Roles -> 0..MaxUnits]
<1>1. /\ Len(flight) \in Nat /\ now \in Nat /\ now \in 0..MaxTime
      /\ queued \in 0..MaxUnits /\ dropped \in 0..MaxUnits /\ inbox \in 0..MaxUnits
      /\ count \in [Roles -> 0..MaxUnits] /\ report \in 0..MaxUnits /\ blocked \in Nat
      /\ count[Sender] \in Nat /\ count[Receiver] \in Nat
  BY Sides, Constants DEF IInv, Numbers, PerSide, Underway
<1>2. Counted /\ Places /\ dir \in Directions
  BY DEF IInv, Numbers
<1>3. ASSUME NEW i \in 1..Len(flight), PacketArrives(i) PROVE Goal
  <2>1. flight' = Without(flight, i)
    BY <1>3 DEF PacketArrives, Without
  <2>2. Len(flight') + 1 = Len(flight) /\ Len(flight') \in Nat
    BY <2>1, Removed DEF IInv, Underway
  <2>3. inbox' = inbox + 1 /\ UNCHANGED <<dir, now, pc, count, blocked, queued, dropped, report, path>>
    BY <1>3 DEF PacketArrives, link
  <2>4. Sender' = Sender /\ Receiver' = Receiver
    BY <2>3, SidesStay
  <2>5. queued' = Len(flight') + dropped' + inbox' + count'[Receiver] /\ inbox' \in 0..MaxUnits
    <3>1. queued = Len(flight) + dropped + inbox + count[Receiver] /\ queued <= MaxUnits
      BY <1>1, <1>2 DEF Counted
    <3>2. \A n, k, d, x, c, q, max \in Nat :
            q = n + d + x + c /\ k + 1 = n /\ q <= max =>
              q = k + d + (x + 1) + c /\ x + 1 <= max
      OBVIOUS
    <3>3. queued = Len(flight') + dropped + (inbox + 1) + count[Receiver] /\ inbox + 1 <= MaxUnits
      BY <1>1, <2>2, <3>1, <3>2, Constants, SMTT(30)
    <3> QED BY <1>1, <2>3, <3>3, Constants
  <2>6. Counted'
    BY <1>1, <1>2, <2>3, <2>4, <2>5 DEF Counted
  <2> QED BY <1>1, <1>2, <2>3, <2>5, <2>6 DEF Numbers
<1>4. ASSUME NEW i \in 1..Len(flight), DatagramLost(i) PROVE Goal
  <2>1. flight' = Without(flight, i)
    BY <1>4 DEF DatagramLost, Without
  <2>2. Len(flight') + 1 = Len(flight) /\ Len(flight') \in Nat
    BY <2>1, Removed DEF IInv, Underway
  <2>3. /\ dir \in Datagrams /\ dropped' = dropped + 1
        /\ UNCHANGED <<dir, now, pc, count, blocked, queued, inbox, report, path>>
    BY <1>4 DEF DatagramLost, link
  <2>4. Sender' = Sender /\ Receiver' = Receiver
    BY <2>3, SidesStay
  <2>5. queued' = Len(flight') + dropped' + inbox' + count'[Receiver] /\ dropped' \in 0..MaxUnits
    <3>1. queued = Len(flight) + dropped + inbox + count[Receiver] /\ queued <= MaxUnits
      BY <1>1, <1>2 DEF Counted
    <3>2. \A n, k, d, x, c, q, max \in Nat :
            q = n + d + x + c /\ k + 1 = n /\ q <= max =>
              q = k + (d + 1) + x + c /\ d + 1 <= max
      OBVIOUS
    <3>3. queued = Len(flight') + (dropped + 1) + inbox + count[Receiver] /\ dropped + 1 <= MaxUnits
      BY <1>1, <2>2, <3>1, <3>2, Constants, SMTT(30)
    <3> QED BY <1>1, <2>3, <3>3, Constants
  <2>6. Counted'
    BY <1>1, <1>2, <2>3, <2>4, <2>5 DEF Counted
  <2> QED BY <1>1, <1>2, <2>3, <2>5, <2>6 DEF Numbers
<1>5. ASSUME \/ Tick \/ (\E m \in mail : MessageArrives(m))
      PROVE  Goal
  <2>1. UNCHANGED <<dir, pc, count, blocked, queued, flight, dropped, inbox, report, path>>
    BY <1>5 DEF Tick, MessageArrives, sending, link
  <2>2. now' \in 0..MaxTime
    BY <1>1, <1>5, Constants DEF Tick, MessageArrives
  <2> QED BY <1>1, <1>2, <2>1, <2>2, SidesStay DEF Counted, Numbers
<1>6. ASSUME NEW n \in Portions(inbox), ReadPacket(n) PROVE Goal
  <2>1. n \in Nat /\ n <= inbox
    BY <1>1, <1>6, PortionOf
  <2>2. count'[Receiver] = count[Receiver] + n /\ count'[Sender] = count[Sender]
    BY <1>1, <1>6, Sides DEF ReadPacket
  <2>3. count[Receiver] + n \in 0..MaxUnits
    <3>1. queued = Len(flight) + dropped + inbox + count[Receiver] /\ queued <= MaxUnits
      BY <1>1, <1>2 DEF Counted
    <3>2. \A a, d, x, c, q, k, max \in Nat :
            q = a + d + x + c /\ k <= x /\ q <= max => c + k <= max
      OBVIOUS
    <3>3. count[Receiver] + n <= MaxUnits
      BY <1>1, <2>1, <3>1, <3>2, Constants, SMTT(30)
    <3> QED BY <1>1, <2>1, <3>3, Constants
  <2>4. count' \in [Roles -> 0..MaxUnits]
    BY <1>1, <1>6, <2>3, Sides DEF ReadPacket
  <2>5. /\ inbox' = inbox - n /\ inbox' \in 0..MaxUnits
        /\ UNCHANGED <<dir, now, pc, blocked, queued, flight, dropped, report, path>>
    BY <1>1, <1>6, <2>1, Constants DEF ReadPacket, sending, link
  <2>6. Sender' = Sender /\ Receiver' = Receiver /\ Numbers'
    BY <1>1, <1>2, <2>5, SidesStay, Constants DEF Numbers
  <2>7. queued' = Len(flight') + dropped' + inbox' + count'[Receiver]
    BY <1>1, <1>2, <2>1, <2>2, <2>5 DEF Counted
  <2>8. Counted'
    BY <1>1, <1>2, <2>2, <2>5, <2>6, <2>7 DEF Counted
  <2> QED BY <2>4, <2>6, <2>8
<1>7. ASSUME NEW n \in Portions(MaxUnits - queued), WriteDone(n) PROVE Goal
  <2>1. n \in Nat /\ n >= 1 /\ n <= MaxUnits - queued /\ (dir \in Datagrams => n = 1)
    BY <1>1, <1>7, PortionOf, Constants
  <2>2. /\ \/ path = "dead" /\ dropped' = dropped + n /\ Len(flight') = Len(flight)
           \/ path # "dead" /\ dropped' = dropped /\ Len(flight') = Len(flight) + n
        /\ Len(flight') \in Nat
    BY <1>1, <1>7, <2>1, Sent DEF WriteDone, IInv, Underway
  <2>3. count[Sender] = queued /\ queued + n \in 0..MaxUnits
    BY <1>1, <1>2, <1>7, <2>1, Constants DEF WriteDone, Counted
  <2>4. /\ count' \in [Roles -> 0..MaxUnits] /\ count'[Receiver] = count[Receiver]
        /\ count'[Sender] = IF dir \in Datagrams THEN count[Sender] ELSE count[Sender] + n
    BY <1>1, <1>7, <2>3, Sides DEF WriteDone
  <2>5. pc'[Sender] = IF dir \in Datagrams THEN "backlog" ELSE "loop"
    BY <1>7, OtherMoves DEF Moves
  <2>6. /\ queued' = queued + n /\ blocked' \in Nat
        /\ UNCHANGED <<dir, now, inbox, report, path>>
    BY <1>1, <1>7 DEF WriteDone, link
  <2>7. queued' = Len(flight') + dropped' + inbox' + count'[Receiver] /\ dropped' \in 0..MaxUnits
    <3>1. queued = Len(flight) + dropped + inbox + count[Receiver]
      BY <1>1, <1>2 DEF Counted
    <3>2. \A a, d, x, c, q, k, max \in Nat :
            q = a + d + x + c /\ q + k <= max =>
              /\ q + k = (a + k) + d + x + c /\ q + k = a + (d + k) + x + c
              /\ d + k <= max
      OBVIOUS
    <3>3. /\ queued + n = (Len(flight) + n) + dropped + inbox + count[Receiver]
          /\ queued + n = Len(flight) + (dropped + n) + inbox + count[Receiver]
          /\ dropped + n <= MaxUnits
      BY <1>1, <2>1, <2>3, <3>1, <3>2, Constants, SMTT(30)
    <3>4. dropped \in 0..MaxUnits /\ dropped + n \in 0..MaxUnits
      BY <1>1, <1>2, <2>1, <3>3, Constants DEF Numbers
    <3>5. inbox' = inbox /\ count'[Receiver] = count[Receiver] /\ queued' = queued + n
      BY <2>4, <2>6
    <3>6. CASE dropped' = dropped + n /\ Len(flight') = Len(flight)
      BY <3>3, <3>4, <3>5, <3>6
    <3>7. CASE dropped' = dropped /\ Len(flight') = Len(flight) + n
      BY <3>3, <3>4, <3>5, <3>7
    <3> QED BY <2>2, <3>6, <3>7
  <2>8. Numbers'
    BY <1>1, <1>2, <2>3, <2>6, <2>7 DEF Numbers
  <2>9. Counted'
    <3>1. Sender' = Sender /\ Receiver' = Receiver
      BY <2>6, SidesStay
    <3>2. dir \notin Datagrams => count'[Sender] = queued' /\ (path # "dead" => dropped' = 0)
      BY <1>2, <2>2, <2>3, <2>4, <2>6 DEF Counted
    <3>3. dir \in Datagrams => queued' = count'[Sender] + 1
      BY <2>1, <2>3, <2>4, <2>6
    <3>4. queued' \in Nat /\ count'[Sender] \in Nat
      BY <1>1, <2>3, <2>4, <2>6
    <3>5. dir' = dir /\ path' = path
      BY <2>6
    <3>6. dir \notin Datagrams => pc'[Sender] \notin {"write", "backlog"}
      BY <2>5
    <3>7. dir \in Datagrams => pc'[Sender] \notin {"auth", "loop", "write"}
      BY <2>5
    <3> QED BY <2>7, <3>1, <3>2, <3>3, <3>4, <3>5, <3>6, <3>7 DEF Counted
  <2> QED BY <2>4, <2>8, <2>9
<1>8. ASSUME BacklogDrained PROVE Goal
  <2>1. count[Sender] + 1 = queued
    BY <1>1, <1>2, <1>8 DEF BacklogDrained, Counted
  <2>2. /\ count' \in [Roles -> 0..MaxUnits] /\ count'[Receiver] = count[Receiver]
        /\ count'[Sender] = count[Sender] + 1
    BY <1>1, <1>8, <2>1, Sides DEF BacklogDrained
  <2>3. pc'[Sender] = "loop"
    BY <1>8, OtherMoves DEF Moves
  <2>4. dir \in Datagrams
    BY <1>2, <1>8 DEF BacklogDrained, Places
  <2> QED BY <1>1, <1>2, <1>8, <2>1, <2>2, <2>3, <2>4, SidesStay, Constants, SMTT(30) DEF BacklogDrained, Counted, Numbers, link
<1>9. ASSUME BeginWrite PROVE Goal
  <2>1. pc'[Sender] = "write"
    BY <1>9, OtherMoves DEF Moves
  <2> QED BY <1>1, <1>2, <1>9, <2>1, SidesStay, Constants DEF BeginWrite, Counted, Numbers, link
<1>10. ASSUME \/ pc'[Sender] = pc[Sender]
              \/ pc[Sender] = "auth" /\ pc'[Sender] = "loop"
              \/ pc'[Sender] \notin {"auth", "loop", "write", "backlog"},
              report' \in 0..MaxUnits,
              path' = path \/ (path' = "narrow" /\ path # "dead"),
              UNCHANGED <<dir, now, count, blocked, queued, flight, dropped, inbox>>
       PROVE  Goal
  BY <1>1, <1>2, <1>10, SidesStay DEF Counted, Numbers
<1>11. ASSUME ClientStarts PROVE Goal
  <2>1. \/ pc'[Sender] = pc[Sender]
        \/ pc[Sender] = "auth" /\ pc'[Sender] = "loop"
        \/ pc'[Sender] \notin {"auth", "loop", "write", "backlog"}
    BY <1>11, StartMoves, StartKeeps, Sides DEF Moves
  <2> QED BY <1>1, <1>10, <1>11, <2>1, StartKeeps
<1>12. ASSUME AcceptStream \/ LingerEnds \/ SummaryRead \/ RestEnds PROVE Goal
  <2>1. \/ pc'[Sender] = pc[Sender]
        \/ pc'[Sender] \notin {"auth", "loop", "write", "backlog"}
    BY <1>12, OtherMoves, Sides DEF Moves, Roles
  <2>2. UNCHANGED <<dir, now, count, blocked, queued, flight, dropped, inbox, report, path>>
    BY <1>12 DEF AcceptStream, LingerEnds, SummaryRead, RestEnds, sending, link
  <2> QED BY <1>1, <1>10, <2>1, <2>2
<1>13. ASSUME SenderStops \/ AckOver \/ ReadEnd \/ ReadOver PROVE Goal
  <2>1. \/ pc'[Sender] = pc[Sender]
        \/ pc'[Sender] \notin {"auth", "loop", "write", "backlog"}
    BY <1>13, OtherMoves, Sides DEF Moves, Roles, Ends
  <2>2. UNCHANGED <<dir, now, count, blocked, queued, flight, dropped, inbox, path>>
    BY <1>13 DEF SenderStops, AckOver, ReadEnd, ReadOver, sending, link
  <2>3. report' = report \/ report' = count["server"]
    BY <1>13, OtherMoves DEF SenderStops, Ends
  <2>4. report' \in 0..MaxUnits
    BY <1>1, <2>3 DEF Roles
  <2> QED BY <1>10, <2>1, <2>2, <2>4
<1>14. ASSUME NEW r \in Roles, Fail(r) \/ (r = Sender /\ TooLarge) PROVE Goal
  <2>1. \/ pc'[Sender] = pc[Sender]
        \/ pc'[Sender] \notin {"auth", "loop", "write", "backlog"}
    BY <1>14, OtherMoves, Sides DEF Moves, Roles
  <2>2. /\ UNCHANGED <<dir, now, count, blocked, queued, flight, dropped, inbox, report>>
        /\ path' = path \/ (path' = "narrow" /\ path # "dead")
    BY <1>14 DEF Fail, TooLarge, sending, link
  <2> QED BY <1>1, <1>10, <2>1, <2>2
<1>15. ASSUME ConnectionLost PROVE Goal
  <2>1. /\ path' = "dead" /\ Len(flight') = 0 /\ dropped' = dropped + Len(flight)
        /\ UNCHANGED <<dir, now, pc, count, blocked, queued, inbox, report>>
    BY <1>15 DEF ConnectionLost
  <2>2. queued' = Len(flight') + dropped' + inbox' + count'[Receiver] /\ dropped' \in 0..MaxUnits
    <3>1. queued = Len(flight) + dropped + inbox + count[Receiver] /\ queued <= MaxUnits
      BY <1>1, <1>2 DEF Counted
    <3>2. \A a, d, x, c, q, max \in Nat :
            q = a + d + x + c /\ q <= max => q = 0 + (d + a) + x + c /\ d + a <= max
      OBVIOUS
    <3>3. queued = 0 + (dropped + Len(flight)) + inbox + count[Receiver] /\ dropped + Len(flight) <= MaxUnits
      BY <1>1, <3>1, <3>2, Constants, SMTT(30)
    <3> QED BY <1>1, <2>1, <3>3, Constants
  <2>3. Counted'
    BY <1>1, <1>2, <2>1, <2>2, SidesStay DEF Counted
  <2> QED BY <1>1, <1>2, <2>1, <2>2, <2>3 DEF Numbers
<1> HIDE DEF Goal
<1>16. Goal
  BY <1>3, <1>4, <1>5, <1>6, <1>7, <1>8, <1>9, <1>11, <1>12, <1>13, <1>14, <1>15, Sides DEF Next, Progress
<1> QED BY <1>16 DEF Goal

\* A path only gets worse.
LEMMA PathStep ==
  ASSUME Next
  PROVE  \/ path' = path /\ lostAt' = lostAt
         \/ path # "dead" /\ path' = "narrow" /\ lostAt' = lostAt /\ TooLarge
         \/ path # "dead" /\ path' = "dead" /\ lostAt' = now /\ ConnectionLost
<1> USE DEF link
<1>1. ASSUME NEW i \in 1..Len(flight), PacketArrives(i) \/ DatagramLost(i) PROVE UNCHANGED link
  BY <1>1 DEF PacketArrives, DatagramLost
<1>2. ASSUME NEW m \in mail, MessageArrives(m) PROVE UNCHANGED link
  BY <1>2 DEF MessageArrives
<1>3. ASSUME NEW r \in Roles, Fail(r) PROVE UNCHANGED link
  BY <1>3 DEF Fail
<1>4. ASSUME \/ ClientStarts \/ AcceptStream \/ LingerEnds \/ SummaryRead \/ RestEnds
             \/ BeginWrite \/ BacklogDrained
      PROVE  UNCHANGED link
  BY <1>4, StartKeeps DEF AcceptStream, LingerEnds, SummaryRead, RestEnds, BeginWrite, BacklogDrained
<1>5. ASSUME SenderStops \/ AckOver \/ ReadEnd \/ ReadOver \/ Tick
      PROVE  UNCHANGED link
  BY <1>5 DEF SenderStops, AckOver, ReadEnd, ReadOver, Tick
<1>6. ASSUME NEW n, WriteDone(n) \/ ReadPacket(n) PROVE UNCHANGED link
  BY <1>6 DEF WriteDone, ReadPacket
<1>7. ASSUME TooLarge PROVE lostAt' = lostAt /\ (path' = path \/ (path # "dead" /\ path' = "narrow"))
  BY <1>7 DEF TooLarge
<1>8. ASSUME ConnectionLost PROVE path # "dead" /\ path' = "dead" /\ lostAt' = now
  BY <1>8 DEF ConnectionLost
<1> QED BY <1>1, <1>2, <1>3, <1>4, <1>5, <1>6, <1>7, <1>8 DEF Next, Progress

\* The invariant of the states.
LEMMA Step == ASSUME IInv, [Next]_vars PROVE IInv'
<1>1. CASE Next
  <2>1. Linked'
    BY <1>1, PathStep DEF IInv, Linked, Numbers
  <2> QED BY <1>1, <2>1, PlacesStep, UnderwayStep, CountedStep DEF IInv, PerSide, Stages
<1>2. CASE UNCHANGED vars
  <2>1. UNCHANGED <<dir, now, pc, timer, count, blocked, queued, flight, dropped, inbox, mail, arrived,
                    report, path, lostAt>>
    BY <1>2 DEF vars
  <2> QED BY <2>1, SidesStay DEF IInv, Linked, Numbers, PerSide, Underway, Places, Counted
<1> QED BY <1>1, <1>2

\* The benchmark's state keeps its types: whatever the delays and the state of the path, no
\* counter of packets (framed, datagrams) or of bytes (unframed) passes what was sent, and
\* every side's clock stays a time (client main.rs:580-872, server main.rs:300-630).
THEOREM TypeCorrect == Spec => []TypeOK
<1>1. Init => IInv
  BY Begins
<1>2. IInv /\ [Next]_vars => IInv'
  BY Step
<1>3. IInv => TypeOK
  BY TypesHold
<1> QED BY <1>1, <1>2, <1>3, PTL DEF Spec

LEMMA PathWasUp == ASSUME [Next]_vars, path' = "up" PROVE path = "up"
<1>1. CASE Next
  BY <1>1, PathStep
<1>2. CASE UNCHANGED vars
  BY <1>2 DEF vars
<1> QED BY <1>1, <1>2

-----------------------------------------------------------------------------
(* Messages.                                                                *)

\* What Timely is about has these types.
LEMMA Facts ==
  ASSUME IInv
  PROVE  /\ now \in Nat /\ blocked \in Nat /\ inbox \in Nat /\ report \in Nat
         /\ queued \in Nat /\ dropped \in Nat /\ Len(flight) \in Nat
         /\ \A r \in Roles : timer[r] \in Nat /\ count[r] \in Nat /\ pc[r] \in Stages
         /\ \A m \in mail : m.at \in Nat /\ m.msg \in Messages
         /\ \A i \in 1..Len(flight) : flight[i] \in Nat
         /\ Duration \in Nat /\ Duration # 0 /\ MaxDelay \in Nat
BY BenchAssumption DEF IInv, Numbers, PerSide, Underway, Stages

LEMMA MailGrows ==
  ASSUME NEW x \in Messages, mail' = mail \cup {[msg |-> x, at |-> now]}, arrived' = arrived
  PROVE  /\ \A m \in mail' : m \in mail \/ (m.msg = x /\ m.at = now)
         /\ \A m, y \in mail' : m \in mail \/ y \in mail \/ m = y
         /\ \A y \in Messages : (OnItsWay(y)' <=> OnItsWay(y) \/ y = x)
                                  /\ (Posted(y)' <=> Posted(y) \/ y = x)
<1> DEFINE e == [msg |-> x, at |-> now]
<1>1. e.msg = x /\ e.at = now
  OBVIOUS
<1>2. \A m : m \in mail' <=> m \in mail \/ m = e
  OBVIOUS
<1> HIDE DEF e
<1>3. \A y \in Messages : OnItsWay(y)' <=> OnItsWay(y) \/ y = x
  BY <1>1, <1>2 DEF OnItsWay
<1> QED BY <1>1, <1>2, <1>3 DEF Posted

LEMMA MailShrinks ==
  ASSUME IInv, NEW m \in mail, m.msg # "fin", MessageArrives(m)
  PROVE  /\ mail' \subseteq mail /\ arrived' = arrived \cup {m.msg}
         /\ \A y \in Messages : OnItsWay(y)' => OnItsWay(y)
         /\ \A y \in Messages : Posted(y)' <=> Posted(y)
<1>1. mail' = mail \ {m} /\ arrived' = arrived \cup {m.msg}
  BY DEF MessageArrives
<1>2. \A y \in Messages : OnItsWay(y)' => OnItsWay(y)
  BY <1>1 DEF OnItsWay
<1>3. \A y \in Messages : Posted(y)' <=> Posted(y)
  BY <1>1 DEF OnItsWay, Posted
<1> QED BY <1>1, <1>2, <1>3

LEMMA FinArrives ==
  ASSUME IInv, NEW m \in mail, m.msg = "fin", MessageArrives(m),
         \A x \in mail : x.msg = "fin" => x = m
  PROVE  /\ \A x \in mail' : x \in mail \/ (x.msg = "ack" /\ x.at = now)
         /\ arrived' = arrived \cup {"fin"} /\ flight = <<>>
         /\ ~OnItsWay("fin")' /\ OnItsWay("ack")'
         /\ \A y \in Messages : y # "ack" => (Posted(y)' <=> Posted(y))
<1> DEFINE e == [msg |-> "ack", at |-> now]
<1>1. e.msg = "ack" /\ e.at = now
  OBVIOUS
<1>2. mail' = (mail \ {m}) \cup {e} /\ arrived' = arrived \cup {"fin"} /\ flight = <<>>
  BY DEF MessageArrives
<1>3. \A x : x \in mail' <=> (x \in mail /\ x # m) \/ x = e
  BY <1>2
<1> HIDE DEF e
<1>4. ~OnItsWay("fin")' /\ OnItsWay("ack")'
  BY <1>1, <1>3 DEF OnItsWay
<1>5. \A y \in Messages : y # "ack" => (Posted(y)' <=> Posted(y))
  BY <1>1, <1>2, <1>3 DEF OnItsWay, Posted
<1> QED BY <1>1, <1>2, <1>3, <1>4, <1>5

-----------------------------------------------------------------------------
(* The timers, step by step.  MaxDelay < Linger is the assumption on the    *)
(* path.                                                                    *)

Live == IInv /\ path = "up" /\ Timely

Same(y) == (OnItsWay(y)' <=> OnItsWay(y)) /\ (Posted(y)' <=> Posted(y))

LEMMA TimelyBegins == Init => Timely
<1> SUFFICES ASSUME Init PROVE Timely
  OBVIOUS
<1> USE Facts, Constants, Sides, Begins DEF Init
<1>1. mail = {[msg |-> "ok", at |-> 0]} /\ arrived = {} /\ flight = <<>> /\ now = 0 /\ inbox = 0
  OBVIOUS
<1>2. /\ \A m \in mail : m.msg = "ok" /\ m.at = 0
      /\ \A y \in Messages : (OnItsWay(y) <=> y = "ok") /\ (Posted(y) <=> y = "ok")
  BY <1>1 DEF OnItsWay, Posted
<1>3. /\ pc["client"] = "auth"
      /\ dir = "upload" => pc["server"] = "read" /\ timer["server"] = Duration + 10
      /\ dir \in Uploads /\ dir # "upload" => pc["server"] = "accept"
      /\ dir \notin Uploads => pc["server"] = "loop" /\ timer["server"] = Duration
  BY DEF Uploads, Roles
<1> HIDE DEF Init
<1>4. Fresh
  BY <1>1, <1>2 DEF Fresh
<1>5. Starts
  BY <1>1, <1>2 DEF Starts, Messages
<1>6. SendsInTime
  BY <1>1, <1>3 DEF SendsInTime
<1>7. StreamEnds
  BY <1>1, <1>2, <1>3 DEF StreamEnds, Messages
<1>8. ReadsInTime
  BY <1>1, <1>2, <1>3 DEF ReadsInTime, Uploads
<1>9. Lingers
  BY <1>1, <1>2, <1>3 DEF Lingers, Messages
<1>10. Reported
  BY <1>3 DEF Reported
<1> QED BY <1>3, <1>4, <1>5, <1>6, <1>7, <1>8, <1>9, <1>10 DEF Timely, Roles

\* A packet arrives or is lost.
LEMMA PacketMoves ==
  ASSUME Live, NEW i \in 1..Len(flight), PacketArrives(i) \/ DatagramLost(i)
  PROVE  Timely'
<1> USE Facts, Constants, Sides DEF Live, Timely, Messages
<1>1. /\ UNCHANGED <<dir, now, pc, timer, count, blocked, queued, mail, arrived, report>>
      /\ inbox' = inbox \/ inbox' = inbox + 1
  BY DEF PacketArrives, DatagramLost
<1>2. flight' = Without(flight, i) /\ flight # <<>>
  <2>1. flight' = Without(flight, i)
    BY Zenon DEF PacketArrives, DatagramLost, Without
  <2>2. flight # <<>>
    <3>1. Len(flight) # 0
      OBVIOUS
    <3> QED BY <3>1
  <2> QED BY <2>1, <2>2
<1>3. Sender' = Sender /\ Receiver' = Receiver
  BY <1>1, SidesStay
<1>4. \A y \in Messages : OnItsWay(y)' = OnItsWay(y) /\ Posted(y)' = Posted(y)
  BY <1>1 DEF OnItsWay, Posted
<1>5. "fin" \notin arrived /\ ~Posted("ack")
  BY <1>2 DEF StreamEnds, Posted
<1>6. Fresh'
  <2>1. flight \in Seq(Nat)
    BY DEF IInv, Underway
  <2>2. \A j \in 1..Len(flight') : \E k \in 1..Len(flight) : flight'[j] = flight[k]
    BY <1>2, <2>1, Removed
  <2> QED BY <1>1, <2>2 DEF Fresh
<1>7. Starts' /\ SendsInTime'
  BY <1>1, <1>3, <1>4 DEF Starts, SendsInTime
<1>8. StreamEnds'
  BY <1>1, <1>3, <1>4, <1>5 DEF StreamEnds
<1>9. ReadsInTime'
  BY <1>1, <1>3, <1>5 DEF ReadsInTime, StreamEnds, Lingers, Posted, Datagrams
<1>10. Lingers'
  BY <1>1, <1>4 DEF Lingers
<1>11. Reported'
  BY <1>1, <1>2 DEF Reported
<1> QED BY <1>1, <1>6, <1>7, <1>8, <1>9, <1>10, <1>11

LEMMA OtherArrives ==
  ASSUME Live, NEW m \in mail, m.msg # "fin", MessageArrives(m)
  PROVE  Timely'
<1> USE Facts, Constants, Sides DEF Live, Timely, Messages
<1>1. /\ UNCHANGED <<dir, now, pc, timer, count, blocked, queued, flight, dropped, inbox, report>>
  BY DEF MessageArrives, sending
<1>2. /\ mail' \subseteq mail /\ arrived' = arrived \cup {m.msg}
      /\ \A y \in Messages : OnItsWay(y)' => OnItsWay(y)
      /\ \A y \in Messages : Posted(y)' <=> Posted(y)
  BY MailShrinks
<1>3. Sender' = Sender /\ Receiver' = Receiver
  BY <1>1, SidesStay
<1>6. Fresh'
  BY <1>1, <1>2 DEF Fresh
<1>7. Starts' /\ SendsInTime'
  BY <1>1, <1>2, <1>3 DEF Starts, SendsInTime
<1>8. StreamEnds'
  BY <1>1, <1>2, <1>3 DEF StreamEnds, Posted
<1>9. ReadsInTime'
  BY <1>1, <1>2, <1>3 DEF ReadsInTime
<1>10. Lingers'
  BY <1>1, <1>2 DEF Lingers
<1>11. Reported'
  BY <1>1 DEF Reported
<1> QED BY <1>1, <1>6, <1>7, <1>8, <1>9, <1>10, <1>11

LEMMA StreamEndArrives ==
  ASSUME Live, NEW m \in mail, m.msg = "fin", MessageArrives(m)
  PROVE  Timely'
<1> USE Facts, Constants, Sides DEF Live, Timely, Messages
<1>1. /\ UNCHANGED <<dir, now, pc, timer, count, blocked, queued, flight, dropped, inbox, report>>
  BY DEF MessageArrives, sending
<1>2. /\ \A x \in mail' : x \in mail \/ (x.msg = "ack" /\ x.at = now)
      /\ arrived' = arrived \cup {"fin"} /\ flight = <<>>
      /\ ~OnItsWay("fin")' /\ OnItsWay("ack")'
      /\ \A y \in Messages : y # "ack" => (Posted(y)' <=> Posted(y))
  BY FinArrives DEF StreamEnds
<1>3. Sender' = Sender /\ Receiver' = Receiver
  BY <1>1, SidesStay
<1>4. /\ OnItsWay("fin") /\ Posted("fin") /\ "fin" \notin arrived
      /\ m.at <= Duration + 2 * MaxDelay /\ now <= m.at + MaxDelay
  BY DEF OnItsWay, Posted, StreamEnds, Fresh
<1>6. Fresh'
  BY <1>1, <1>2 DEF Fresh
<1>7. Starts' /\ SendsInTime'
  BY <1>1, <1>2, <1>3 DEF Starts, SendsInTime
<1>8. StreamEnds'
  BY <1>1, <1>2, <1>3, <1>4, SMTT(30) DEF StreamEnds, Posted
<1>9. ReadsInTime'
  BY <1>1, <1>2, <1>3, <1>4 DEF ReadsInTime
<1>10. Lingers'
  BY <1>1, <1>2, <1>4 DEF Lingers, StreamEnds
<1>11. Reported'
  BY <1>1 DEF Reported
<1> QED BY <1>1, <1>6, <1>7, <1>8, <1>9, <1>10, <1>11

LEMMA StartInTime ==
  ASSUME Live, ClientStarts
  PROVE  Timely'
<1> USE Facts, Constants, Sides DEF Live, Timely, Messages
<1>1. /\ pc["client"] = "auth" /\ "ok" \in arrived
      /\ UNCHANGED <<dir, now, count, blocked, queued, flight, dropped, inbox, mail, arrived, report>>
  BY StartKeeps
<1>2. /\ pc'["server"] = pc["server"] /\ timer'["server"] = timer["server"]
      /\ dir \in Uploads => pc'["client"] = "loop" /\ timer'["client"] = now + Duration
      /\ dir = "download" => pc'["client"] = "read" /\ timer'["client"] = now + Duration + 50
      /\ dir \notin Uploads /\ dir # "download" => pc'["client"] = "accept"
  BY StartMoves DEF Moves, Roles
<1>3. Sender' = Sender /\ Receiver' = Receiver
  BY <1>1, SidesStay
<1>4. \A y \in Messages : (OnItsWay(y)' <=> OnItsWay(y)) /\ (Posted(y)' <=> Posted(y))
  BY <1>1 DEF OnItsWay, Posted
<1>5. now <= MaxDelay /\ pc["server"] # "ended"
  BY <1>1 DEF Starts, Lingers
<1>6. Fresh'
  BY <1>1 DEF Fresh
<1>7. Starts' /\ SendsInTime'
  <2>1. CASE dir \in Uploads
    <3>1. /\ Duration <= now + Duration /\ now + Duration <= Duration + MaxDelay
          /\ now <= Duration + 2 * MaxDelay /\ now <= now + Duration
      BY <1>5
    <3>2. Sender' = "client" /\ pc'["client"] = "loop" /\ timer'["client"] = now + Duration
      BY <1>2, <1>3, <2>1
    <3> QED BY <1>1, <3>1, <3>2 DEF Starts, SendsInTime
  <2>2. CASE dir \notin Uploads
    <3>1. Sender' = "server" /\ Sender = "server" /\ pc'["client"] # "auth"
      BY <1>2, <1>3, <2>2
    <3> QED BY <1>1, <1>2, <3>1 DEF Starts, SendsInTime
  <2> QED BY <2>1, <2>2
<1>8. StreamEnds'
  BY <1>1, <1>2, <1>3, <1>4 DEF StreamEnds
<1>9. ReadsInTime'
  BY <1>1, <1>2, <1>3, <1>4, <1>5, SMTT(30) DEF ReadsInTime
<1>10. Lingers'
  BY <1>1, <1>2, <1>4, <1>5 DEF Lingers
<1>11. Reported'
  BY <1>1, <1>2 DEF Reported
<1> QED BY <1>2, <1>6, <1>7, <1>8, <1>9, <1>10, <1>11 DEF Roles

LEMMA AcceptInTime ==
  ASSUME Live, AcceptStream
  PROVE  Timely'
<1> USE Facts, Constants, Sides DEF Live, Timely, Messages
<1>1. /\ pc[Receiver] = "accept"
      /\ UNCHANGED <<dir, now, count, blocked, queued, flight, dropped, inbox, mail, arrived, report>>
  BY DEF AcceptStream, sending
<1>2. /\ pc'[Receiver] = "read" /\ timer'[Receiver] = now + ReadFor(Receiver)
      /\ pc'[Sender] = pc[Sender] /\ timer'[Sender] = timer[Sender]
  BY OtherMoves DEF Moves
<1>3. Sender' = Sender /\ Receiver' = Receiver
  BY <1>1, SidesStay
<1>4. \A y \in Messages : (OnItsWay(y)' <=> OnItsWay(y)) /\ (Posted(y)' <=> Posted(y))
  BY <1>1 DEF OnItsWay, Posted
<1>5. dir \notin Datagrams
  BY <1>1 DEF IInv, Places
<1>6. Fresh'
  BY <1>1 DEF Fresh
<1>7. Starts' /\ SendsInTime'
  BY <1>1, <1>2, <1>3, <1>4 DEF Starts, SendsInTime
<1>8. StreamEnds'
  BY <1>1, <1>2, <1>3, <1>4 DEF StreamEnds
<1>9. ReadsInTime'
  BY <1>1, <1>2, <1>3, <1>5 DEF ReadsInTime, Datagrams
<1>10. Lingers'
  BY <1>1, <1>2, <1>4 DEF Lingers
<1>11. Reported'
  BY <1>1, <1>2 DEF Reported
<1> QED BY <1>2, <1>6, <1>7, <1>8, <1>9, <1>10, <1>11 DEF Roles

LEMMA WriteBegins ==
  ASSUME Live, BeginWrite
  PROVE  Timely'
<1> USE Facts, Constants, Sides DEF Live, Timely, Messages
<1>1. /\ pc[Sender] = "loop" /\ blocked' = now
      /\ dir \in Datagrams \/ now < timer[Sender]
      /\ UNCHANGED <<dir, now, count, queued, flight, dropped, inbox, mail, arrived, report>>
  BY DEF BeginWrite
<1>2. /\ pc'[Sender] = "write" /\ timer'[Sender] = timer[Sender]
      /\ pc'[Receiver] = pc[Receiver] /\ timer'[Receiver] = timer[Receiver]
  BY OtherMoves DEF Moves
<1>3. Sender' = Sender /\ Receiver' = Receiver
  BY <1>1, SidesStay
<1>4. \A y \in Messages : (OnItsWay(y)' <=> OnItsWay(y)) /\ (Posted(y)' <=> Posted(y))
  BY <1>1 DEF OnItsWay, Posted
<1>6. Fresh'
  BY <1>1 DEF Fresh
<1>7. Starts' /\ SendsInTime'
  BY <1>1, <1>2, <1>3, <1>4, SMTT(30) DEF Starts, SendsInTime, Framed, Datagrams
<1>8. StreamEnds'
  BY <1>1, <1>2, <1>3, <1>4 DEF StreamEnds
<1>9. ReadsInTime'
  BY <1>1, <1>2, <1>3 DEF ReadsInTime
<1>10. Lingers'
  BY <1>1, <1>2, <1>4 DEF Lingers
<1>11. Reported'
  BY <1>1, <1>2 DEF Reported
<1> QED BY <1>2, <1>6, <1>7, <1>8, <1>9, <1>10, <1>11 DEF Roles

LEMMA BacklogInTime ==
  ASSUME Live, BacklogDrained
  PROVE  Timely'
<1> USE Facts, Constants, Sides DEF Live, Timely, Messages
<1>1. /\ pc[Sender] = "backlog" /\ dir \in Datagrams
      /\ UNCHANGED <<dir, now, queued, flight, dropped, inbox, mail, arrived, report>>
  BY DEF BacklogDrained, IInv, Places
<1>2. /\ pc'[Sender] = "loop" /\ timer'[Sender] = timer[Sender]
      /\ pc'[Receiver] = pc[Receiver] /\ timer'[Receiver] = timer[Receiver]
  BY OtherMoves DEF Moves
<1>3. Sender' = Sender /\ Receiver' = Receiver
  BY <1>1, SidesStay
<1>4. \A y \in Messages : (OnItsWay(y)' <=> OnItsWay(y)) /\ (Posted(y)' <=> Posted(y))
  BY <1>1 DEF OnItsWay, Posted
<1>5. count'[Receiver] = count[Receiver]
  BY DEF BacklogDrained, IInv, PerSide
<1>6. Fresh'
  BY <1>1 DEF Fresh
<1>7. Starts' /\ SendsInTime'
  BY <1>1, <1>2, <1>3, <1>4 DEF Starts, SendsInTime
<1>8. StreamEnds'
  BY <1>1, <1>2, <1>3, <1>4 DEF StreamEnds
<1>9. ReadsInTime'
  BY <1>1, <1>2, <1>3 DEF ReadsInTime
<1>10. Lingers'
  BY <1>1, <1>2, <1>4 DEF Lingers
<1>11. Reported'
  BY <1>1, <1>2, <1>5 DEF Reported
<1> QED BY <1>2, <1>6, <1>7, <1>8, <1>9, <1>10, <1>11 DEF Roles

\* The server sends its summary once nothing more is to come, and in time.
LEMMA SummarySent ==
  ASSUME Live, Moves("server", "linger", now + 3),
         mail' = mail \cup {[msg |-> "summary", at |-> now]}, report' = count["server"],
         UNCHANGED <<dir, now, count, blocked, queued, flight, dropped, inbox, arrived>>,
         pc["server"] \notin {"linger", "ended"}, now <= Duration + 10,
         dir = "upload" => now = Duration + 10,
         dir \notin Datagrams => "fin" \in arrived,
         dir \notin Datagrams \cup Uploads => "ack" \in arrived,
         dir \in Uploads => flight = <<>> /\ inbox = 0
  PROVE  Timely'
<1> USE Facts, Constants, Sides DEF Live, Timely, Messages
<1>1. /\ pc'["server"] = "linger" /\ timer'["server"] = now + 3
      /\ pc'["client"] = pc["client"] /\ timer'["client"] = timer["client"]
  BY DEF Moves, Roles
<1>2. /\ \A m \in mail' : m \in mail \/ (m.msg = "summary" /\ m.at = now)
      /\ Same("ok") /\ Same("fin") /\ Same("ack") /\ Same("bye") /\ Same("close")
      /\ Posted("summary")'
  <2>1. "summary" \in Messages
    OBVIOUS
  <2>2. /\ \A m \in mail' : m \in mail \/ (m.msg = "summary" /\ m.at = now)
        /\ \A m, y \in mail' : m \in mail \/ y \in mail \/ m = y
        /\ \A y \in Messages : (OnItsWay(y)' <=> OnItsWay(y) \/ y = "summary")
                                 /\ (Posted(y)' <=> Posted(y) \/ y = "summary")
    BY <2>1, MailGrows
  <2> QED BY <2>2 DEF Same
<1>3. Sender' = Sender /\ Receiver' = Receiver
  BY SidesStay
<1>4. Fresh'
  BY <1>2 DEF Fresh
<1>5. Starts' /\ SendsInTime'
  BY <1>1, <1>2, <1>3 DEF Starts, SendsInTime, Same
<1>6. StreamEnds'
  BY <1>1, <1>2, <1>3, SMTT(30) DEF StreamEnds, Same
<1>7. ReadsInTime'
  BY <1>1, <1>3 DEF ReadsInTime
<1>8. Lingers'
  BY <1>1, <1>2, SMTT(30) DEF Lingers, Fresh, Same
<1>9. Reported'
  BY <1>1 DEF Reported
<1> QED BY <1>1, <1>4, <1>5, <1>6, <1>7, <1>8, <1>9 DEF Roles

\* The client waits for the summary.
LEMMA SummaryAwaited ==
  ASSUME Live, Moves("client", "summary", now + 50),
         UNCHANGED <<dir, now, count, blocked, queued, flight, dropped, inbox, mail, arrived, report>>,
         pc["client"] \notin {"rest", "done"}, dir # "download", Duration <= now,
         dir \notin Datagrams => "fin" \in arrived,
         dir \in Uploads \ Datagrams => "ack" \in arrived,
         dir \notin Uploads => inbox = 0
  PROVE  Timely'
<1> USE Facts, Constants, Sides DEF Live, Timely, Messages
<1>1. /\ pc'["client"] = "summary" /\ timer'["client"] = now + 50
      /\ pc'["server"] = pc["server"] /\ timer'["server"] = timer["server"]
  BY DEF Moves, Roles
<1>2. \A y \in Messages : (OnItsWay(y)' <=> OnItsWay(y)) /\ (Posted(y)' <=> Posted(y))
  BY DEF OnItsWay, Posted
<1>3. Sender' = Sender /\ Receiver' = Receiver
  BY SidesStay
<1>4. Fresh'
  BY DEF Fresh
<1>5. Starts' /\ SendsInTime'
  BY <1>1, <1>2, <1>3 DEF Starts, SendsInTime
<1>6. StreamEnds'
  BY <1>1, <1>2, <1>3 DEF StreamEnds
<1>7. ReadsInTime'
  BY <1>1, <1>3 DEF ReadsInTime
<1>8. Lingers'
  BY <1>1, <1>2 DEF Lingers
<1>9. Reported'
  BY <1>1 DEF Reported
<1> QED BY <1>1, <1>4, <1>5, <1>6, <1>7, <1>8, <1>9 DEF Roles

\* The end of a stream is on its way.
LEMMA EndPosted ==
  ASSUME Live, Moves(Sender, "ack", now + 50), dir \notin Datagrams,
         pc[Sender] \in {"loop", "write", "backlog"}, timer[Sender] <= now,
         mail' = mail \cup {[msg |-> "fin", at |-> now]},
         UNCHANGED <<dir, now, count, blocked, queued, flight, dropped, inbox, arrived, report>>
  PROVE  Timely'
<1> USE Facts, Constants, Sides DEF Live, Timely, Messages
<1>1. /\ pc'[Sender] = "ack" /\ timer'[Sender] = now + 50
      /\ pc'[Receiver] = pc[Receiver] /\ timer'[Receiver] = timer[Receiver]
  BY DEF Moves, Roles
<1>2. /\ \A m \in mail' : m \in mail \/ (m.msg = "fin" /\ m.at = now)
      /\ \A m, x \in mail' : m \in mail \/ x \in mail \/ m = x
      /\ Same("ok") /\ Same("ack") /\ Same("summary") /\ Same("bye") /\ Same("close")
      /\ Posted("fin")' /\ OnItsWay("fin")'
  <2>1. "fin" \in Messages
    OBVIOUS
  <2>2. /\ \A m \in mail' : m \in mail \/ (m.msg = "fin" /\ m.at = now)
        /\ \A m, y \in mail' : m \in mail \/ y \in mail \/ m = y
        /\ \A y \in Messages : (OnItsWay(y)' <=> OnItsWay(y) \/ y = "fin")
                                 /\ (Posted(y)' <=> Posted(y) \/ y = "fin")
    BY <2>1, MailGrows
  <2> QED BY <2>2 DEF Same
<1>3. Sender' = Sender /\ Receiver' = Receiver
  BY SidesStay
<1>4. ~Posted("fin") /\ ~OnItsWay("fin") /\ "fin" \notin arrived /\ Duration <= now /\ now <= Duration + 2 * MaxDelay
  BY SMTT(30) DEF StreamEnds, Posted, SendsInTime
<1>5. \A m \in mail : m.msg # "fin"
  BY <1>4 DEF OnItsWay
<1>6. Fresh'
  BY <1>2 DEF Fresh
<1>7. Starts' /\ SendsInTime'
  BY <1>1, <1>2, <1>3 DEF Starts, SendsInTime, Same
<1>8. StreamEnds'
  BY <1>1, <1>2, <1>3, <1>4, <1>5, SMTT(30) DEF StreamEnds, Same
<1>9. ReadsInTime'
  BY <1>1, <1>3, <1>4 DEF ReadsInTime
<1>10. Lingers'
  BY <1>1, <1>2 DEF Lingers, Same
<1>11. Reported'
  BY <1>1 DEF Reported
<1> QED BY <1>1, <1>6, <1>7, <1>8, <1>9, <1>10, <1>11 DEF Roles

\* The client is done, or rests before it is.
LEMMA ClientLeaves ==
  ASSUME Live, "summary" \in arrived, pc["client"] \in {"summary", "read", "rest"},
         pc["client"] = "read" => dir = "download",
         UNCHANGED <<dir, now, count, blocked, queued, flight, dropped, inbox, arrived, report>>,
         \/ Moves("client", "rest", now + 1) /\ dir \in Uploads /\ mail' = mail
         \/ Moves("client", "done", 0) /\ mail' = mail \cup {[msg |-> "bye", at |-> now]}
  PROVE  Timely'
<1> USE Facts, Constants, Sides DEF Live, Timely, Messages
<1>1. /\ pc'["client"] \in {"rest", "done"}
      /\ pc'["server"] = pc["server"] /\ timer'["server"] = timer["server"]
      /\ dir \notin Uploads => pc'["client"] = "done"
  BY DEF Moves, Roles
<1>2. /\ \A m \in mail' : m \in mail \/ (m.msg = "bye" /\ m.at = now)
      /\ Same("ok") /\ Same("fin") /\ Same("ack") /\ Same("summary") /\ Same("close")
      /\ Posted("bye")' => Posted("bye") \/ pc'["client"] = "done"
  <2>1. CASE mail' = mail
    BY <2>1 DEF OnItsWay, Posted, Same
  <2>2. CASE Moves("client", "done", 0) /\ mail' = mail \cup {[msg |-> "bye", at |-> now]}
    <3>1. "bye" \in Messages
      OBVIOUS
    <3>2. /\ \A m \in mail' : m \in mail \/ (m.msg = "bye" /\ m.at = now)
          /\ \A m, y \in mail' : m \in mail \/ y \in mail \/ m = y
          /\ \A y \in Messages : (OnItsWay(y)' <=> OnItsWay(y) \/ y = "bye")
                                   /\ (Posted(y)' <=> Posted(y) \/ y = "bye")
      BY <2>2, <3>1, MailGrows
    <3> QED BY <2>2, <3>2 DEF Same, Moves
  <2> QED BY <2>1, <2>2
<1>3. Sender' = Sender /\ Receiver' = Receiver
  BY SidesStay
<1>4. Fresh'
  BY <1>2 DEF Fresh
<1>5. Starts' /\ SendsInTime'
  BY <1>1, <1>2, <1>3 DEF Starts, SendsInTime, Same
<1>6. StreamEnds'
  <2>1. dir \in Uploads \ Datagrams => "ack" \in arrived
    BY DEF StreamEnds, IInv, Places
  <2> QED BY <1>1, <1>2, <1>3, <2>1 DEF StreamEnds, Same
<1>7. ReadsInTime'
  <2>1. dir \notin Datagrams \cup Uploads => inbox = 0
    BY DEF ReadsInTime, Datagrams
  <2> QED BY <1>1, <1>3, <2>1 DEF ReadsInTime
<1>8. Lingers'
  BY <1>1, <1>2 DEF Lingers, Same
<1>9. Reported'
  BY <1>1 DEF Reported
<1> QED BY <1>1, <1>4, <1>5, <1>6, <1>7, <1>8, <1>9 DEF Roles

LEMMA StopInTime ==
  ASSUME Live, MaxDelay < Linger, SenderStops
  PROVE  Timely'
<1> USE Facts, Constants, Sides DEF Live, Timely
<1>1. /\ pc[Sender] \in {"loop", "write", "backlog"} /\ timer[Sender] <= now
      /\ UNCHANGED <<dir, now, count, blocked, queued, flight, dropped, inbox, arrived>>
  BY DEF SenderStops, sending
<1>2. Duration <= timer[Sender] /\ now <= Duration + 2 * MaxDelay
  BY <1>1 DEF SendsInTime
<1>3. Duration <= now /\ now <= Duration + 10
  BY <1>1, <1>2
<1>4. CASE dir = "download"
  <2>1. dir \in Datagrams /\ dir \notin Uploads /\ Sender = "server"
    BY <1>4 DEF Datagrams, Uploads
  <2>2. /\ Moves("server", "linger", now + 3) /\ report' = count["server"]
        /\ mail' = mail \cup {[msg |-> "summary", at |-> now]}
    BY <2>1, OtherMoves DEF Ends, Post
  <2> QED BY <1>1, <1>3, <1>4, <2>1, <2>2, SummarySent
<1>5. CASE dir = "upload"
  <2>1. dir \in Datagrams /\ dir \in Uploads /\ Sender = "client"
    BY <1>5 DEF Datagrams, Uploads
  <2>2. Moves("client", "summary", now + 50) /\ report' = report /\ mail' = mail
    BY <2>1, OtherMoves DEF Ends, Post
  <2> QED BY <1>1, <1>3, <1>5, <2>1, <2>2, SummaryAwaited
<1>6. CASE dir \notin Datagrams
  <2>1. /\ Moves(Sender, "ack", now + 50) /\ report' = report
        /\ mail' = mail \cup {[msg |-> "fin", at |-> now]}
    BY <1>6, OtherMoves DEF SenderStops, Post
  <2> QED BY <1>1, <1>6, <2>1, EndPosted
<1> QED BY <1>4, <1>5, <1>6 DEF Datagrams

LEMMA AckInTime ==
  ASSUME Live, MaxDelay < Linger, AckOver
  PROVE  Timely'
<1> USE Facts, Constants, Sides DEF Live, Timely
<1>1. /\ pc[Sender] = "ack" /\ dir \notin Datagrams
      /\ UNCHANGED <<dir, now, count, blocked, queued, flight, dropped, inbox, arrived>>
  BY DEF AckOver, sending, IInv, Places
<1>2. Duration + 50 <= timer[Sender] /\ now <= Duration + 4 * MaxDelay
  BY <1>1 DEF StreamEnds
<1>3. "ack" \in arrived
  BY <1>2 DEF AckOver
<1>4. "fin" \in arrived /\ Duration <= now /\ now <= Duration + 10
  BY <1>2, <1>3 DEF StreamEnds, Posted
<1>5. CASE dir \in Uploads
  <2>1. Moves("client", "summary", now + 50) /\ report' = report /\ mail' = mail
    BY <1>5, OtherMoves DEF Ends, Post
  <2> QED BY <1>1, <1>3, <1>4, <1>5, <2>1, SummaryAwaited DEF Uploads
<1>6. CASE dir \notin Uploads
  <2>1. /\ Moves("server", "linger", now + 3) /\ report' = count["server"]
        /\ mail' = mail \cup {[msg |-> "summary", at |-> now]}
    BY <1>6, OtherMoves DEF Ends, Post
  <2> QED BY <1>1, <1>3, <1>4, <1>6, <2>1, SummarySent DEF Uploads
<1> QED BY <1>5, <1>6

LEMMA ReadEndInTime ==
  ASSUME Live, MaxDelay < Linger, ReadEnd
  PROVE  Timely'
<1> USE Facts, Constants, Sides DEF Live, Timely
<1>1. /\ pc[Receiver] = "read" /\ inbox = 0 /\ "fin" \in arrived
      /\ UNCHANGED <<dir, now, count, blocked, queued, flight, dropped, inbox, arrived>>
  BY DEF ReadEnd, sending
<1>2. dir \notin Datagrams /\ Duration <= now /\ flight = <<>>
  BY <1>1 DEF StreamEnds, Posted
<1>3. now <= Duration + 3 * MaxDelay
  BY <1>1 DEF ReadsInTime
<1>4. now <= Duration + 10
  BY <1>3
<1>5. CASE dir \in Uploads
  <2>1. /\ Moves("server", "linger", now + 3) /\ report' = count["server"]
        /\ mail' = mail \cup {[msg |-> "summary", at |-> now]}
    BY <1>5, OtherMoves DEF Ends, Post
  <2> QED BY <1>1, <1>2, <1>4, <1>5, <2>1, SummarySent DEF Datagrams
<1>6. CASE dir \notin Uploads
  <2>1. Moves("client", "summary", now + 50) /\ report' = report /\ mail' = mail
    BY <1>6, OtherMoves DEF Ends, Post
  <2> QED BY <1>1, <1>2, <1>6, <2>1, SummaryAwaited DEF Datagrams
<1> QED BY <1>5, <1>6

LEMMA ReadOverInTime ==
  ASSUME Live, MaxDelay < Linger, ReadOver
  PROVE  Timely'
<1> USE Facts, Constants, Sides DEF Live, Timely
<1>1. /\ dir \in Uploads /\ pc["server"] = "read" /\ inbox = 0 /\ timer["server"] <= now
      /\ Sender = "client" /\ Receiver = "server"
      /\ UNCHANGED <<dir, now, count, blocked, queued, flight, dropped, inbox, arrived>>
  BY DEF ReadOver, sending
<1>2. Duration + 10 <= now
  BY <1>1 DEF ReadsInTime
<1>3. flight = <<>>
  <2>1. \A i \in 1..Len(flight) : FALSE
    BY <1>2 DEF Fresh
  <2>2. Len(flight) = 0
    BY <2>1
  <2> QED BY <2>2 DEF IInv, Underway
<1>4. dir \in Datagrams
  <2> SUFFICES ASSUME dir \notin Datagrams PROVE FALSE
    OBVIOUS
  <2>1. "fin" \notin arrived
    BY <1>1, <1>2 DEF ReadsInTime
  <2>2. pc["client"] \notin {"summary", "rest", "done"}
    BY <1>1, <2>1 DEF StreamEnds, Posted
  <2>3. pc["client"] \notin {"auth", "loop", "write", "backlog"}
    BY <1>1, <1>2 DEF Starts, SendsInTime
  <2>4. pc["client"] # "ack"
    BY <1>1, <1>2 DEF StreamEnds
  <2>5. pc["client"] \notin {"accept", "read", "linger", "ended", "failed"}
    BY <1>1 DEF IInv, Places, Roles
  <2> QED BY <2>2, <2>3, <2>4, <2>5 DEF Stages, Busy, Roles
<1>5. dir = "upload"
  BY <1>1, <1>4 DEF Uploads, Datagrams
<1>6. now = Duration + 10
  BY <1>1, <1>5 DEF ReadsInTime
<1>7. /\ Moves("server", "linger", now + 3) /\ report' = count["server"]
      /\ mail' = mail \cup {[msg |-> "summary", at |-> now]}
  BY OtherMoves DEF Ends, Post
<1> QED BY <1>1, <1>3, <1>4, <1>5, <1>6, <1>7, SummarySent

LEMMA LeavingInTime ==
  ASSUME Live, SummaryRead \/ RestEnds
  PROVE  Timely'
<1> USE Facts, Constants, Sides DEF Live, Timely
<1>1. UNCHANGED <<dir, now, count, blocked, queued, flight, dropped, inbox, arrived, report>>
  BY DEF SummaryRead, RestEnds, sending
<1>2. /\ pc["client"] \in {"summary", "read", "rest"} /\ "summary" \in arrived
      /\ pc["client"] = "read" => dir = "download"
  BY DEF SummaryRead, SummaryDue, RestEnds, Lingers
<1>3. \/ Moves("client", "rest", now + 1) /\ dir \in Uploads /\ mail' = mail
      \/ Moves("client", "done", 0) /\ mail' = mail \cup {[msg |-> "bye", at |-> now]}
  <2>1. CASE SummaryRead
    BY <2>1, OtherMoves DEF SummaryRead, ClientDone, Post
  <2>2. CASE RestEnds
    BY <2>2, OtherMoves DEF RestEnds, ClientDone, Post
  <2> QED BY <2>1, <2>2
<1> QED BY <1>1, <1>2, <1>3, ClientLeaves

LEMMA LingerInTime ==
  ASSUME Live, MaxDelay < Linger, LingerEnds
  PROVE  Timely'
<1> USE Facts, Constants, Sides DEF Live, Timely, Messages
<1>1. /\ pc["server"] = "linger" /\ mail' = mail \cup {[msg |-> "close", at |-> now]}
      /\ timer["server"] <= now \/ "bye" \in arrived
      /\ UNCHANGED <<dir, now, count, blocked, queued, flight, dropped, inbox, arrived, report>>
  BY DEF LingerEnds, Closed, PeerClosed, Post, sending
<1>2. /\ pc'["server"] = "ended"
      /\ pc'["client"] = pc["client"] /\ timer'["client"] = timer["client"]
  BY OtherMoves DEF Moves, Roles
<1>3. pc["client"] \in {"rest", "done"}
  BY <1>1 DEF Lingers, Posted, Roles
<1>4. /\ \A m \in mail' : m \in mail \/ (m.msg = "close" /\ m.at = now)
      /\ Same("ok") /\ Same("fin") /\ Same("ack") /\ Same("bye") /\ Same("summary")
  <2>1. "close" \in Messages
    OBVIOUS
  <2>2. /\ \A m \in mail' : m \in mail \/ (m.msg = "close" /\ m.at = now)
        /\ \A y \in Messages : (OnItsWay(y)' <=> OnItsWay(y) \/ y = "close")
                               /\ (Posted(y)' <=> Posted(y) \/ y = "close")
    BY <1>1, <2>1, MailGrows
  <2> QED BY <2>2 DEF Same
<1>5. Sender' = Sender /\ Receiver' = Receiver
  BY <1>1, SidesStay
<1>6. Fresh'
  BY <1>1, <1>4 DEF Fresh
<1>7. Starts' /\ SendsInTime'
  BY <1>1, <1>2, <1>3, <1>4, <1>5 DEF Starts, SendsInTime, Same
<1>8. StreamEnds'
  BY <1>1, <1>2, <1>3, <1>4, <1>5 DEF StreamEnds, Same
<1>9. ReadsInTime'
  BY <1>1, <1>2, <1>3, <1>5 DEF ReadsInTime
<1>10. Lingers'
  BY <1>1, <1>2, <1>3, <1>4 DEF Lingers, Same
<1>11. Reported'
  BY <1>1, <1>2 DEF Reported
<1> QED BY <1>2, <1>3, <1>6, <1>7, <1>8, <1>9, <1>10, <1>11 DEF Roles

LEMMA WriteInTime ==
  ASSUME Live, MaxDelay < Linger, NEW n \in Portions(MaxUnits - queued), WriteDone(n)
  PROVE  Timely'
<1> USE Facts, Constants, Sides DEF Live, Timely, Messages
<1>1. /\ pc[Sender] = "write" /\ flight' = flight \o [i \in 1..n |-> now] /\ n \in Nat
      /\ UNCHANGED <<dir, now, dropped, inbox, mail, arrived, report>>
  <2>1. n \in Nat
    BY PortionOf
  <2> QED BY <2>1 DEF WriteDone
<1>2. /\ pc'[Sender] = IF dir \in Datagrams THEN "backlog" ELSE "loop"
      /\ timer'[Sender] = timer[Sender]
      /\ pc'[Receiver] = pc[Receiver] /\ timer'[Receiver] = timer[Receiver]
  BY OtherMoves DEF Moves
<1>3. Sender' = Sender /\ Receiver' = Receiver
  BY <1>1, SidesStay
<1>4. \A y \in Messages : (OnItsWay(y)' <=> OnItsWay(y)) /\ (Posted(y)' <=> Posted(y))
  BY <1>1 DEF OnItsWay, Posted
<1>5. /\ Duration <= timer[Sender] /\ timer[Sender] <= Duration + MaxDelay
      /\ now <= Duration + 2 * MaxDelay /\ (dir \notin Framed => now <= timer[Sender])
  BY <1>1 DEF SendsInTime
<1>6. ~Posted("fin") /\ "fin" \notin arrived /\ ~Posted("ack")
  BY <1>1 DEF StreamEnds, Posted
<1>7. Fresh'
  <2>1. flight \in Seq(Nat)
    BY DEF IInv, Underway
  <2>2. \A j \in 1..Len(flight') : flight'[j] = now \/ \E k \in 1..Len(flight) : flight'[j] = flight[k]
    BY <1>1, <2>1, Sent
  <2>3. ASSUME NEW j \in 1..Len(flight')
        PROVE  /\ flight'[j] <= now /\ now <= flight'[j] + MaxDelay
               /\ flight'[j] <= Duration + 2 * MaxDelay
    <3>1. CASE flight'[j] = now
      BY <1>5, <3>1
    <3>2. CASE \E k \in 1..Len(flight) : flight'[j] = flight[k]
      BY <3>2 DEF Fresh
    <3> QED BY <2>2, <3>1, <3>2
  <2> QED BY <1>1, <2>3 DEF Fresh
<1>8. Starts' /\ SendsInTime'
  BY <1>1, <1>2, <1>3, <1>4, <1>5 DEF Starts, SendsInTime, Framed, Datagrams
<1>9. StreamEnds'
  BY <1>1, <1>2, <1>3, <1>4, <1>6 DEF StreamEnds
<1>10. ReadsInTime'
  BY <1>1, <1>2, <1>3 DEF ReadsInTime
<1>11. Lingers'
  BY <1>1, <1>2, <1>4 DEF Lingers
<1>12. Reported'
  <2>1. CASE dir \in Uploads
    <3>1. pc["client"] = "write" /\ pc["server"] # "ended"
      BY <1>1, <2>1 DEF Lingers
    <3>2. pc["server"] # "linger"
      BY <1>5, <1>6, <2>1 DEF Lingers, Uploads, Datagrams
    <3>3. pc'["server"] = pc["server"]
      BY <1>2, <2>1
    <3> QED BY <3>1, <3>2, <3>3 DEF Reported
  <2>2. CASE dir \notin Uploads
    BY <1>2, <2>2 DEF Reported
  <2> QED BY <2>1, <2>2
<1> QED BY <1>2, <1>7, <1>8, <1>9, <1>10, <1>11, <1>12 DEF Roles

LEMMA ReadInTime ==
  ASSUME Live, NEW n \in Portions(inbox), ReadPacket(n)
  PROVE  Timely'
<1> USE Facts, Constants, Sides DEF Live, Timely, Messages
<1>1. /\ pc[Receiver] = "read"
      /\ UNCHANGED <<dir, now, pc, timer, blocked, queued, flight, dropped, mail, arrived, report>>
  BY DEF ReadPacket, sending
<1>2. count'[Sender] = count[Sender]
  BY DEF ReadPacket, IInv, PerSide
<1>3. Sender' = Sender /\ Receiver' = Receiver
  BY <1>1, SidesStay
<1>4. \A y \in Messages : (OnItsWay(y)' <=> OnItsWay(y)) /\ (Posted(y)' <=> Posted(y))
  BY <1>1 DEF OnItsWay, Posted
<1>6. Fresh'
  BY <1>1 DEF Fresh
<1>7. Starts' /\ SendsInTime'
  BY <1>1, <1>3, <1>4 DEF Starts, SendsInTime
<1>8. StreamEnds'
  BY <1>1, <1>3, <1>4 DEF StreamEnds
<1>9. ReadsInTime'
  BY <1>1, <1>3 DEF ReadsInTime
<1>10. Lingers'
  BY <1>1, <1>4 DEF Lingers
<1>11. Reported'
  BY <1>1, <1>2, <1>3 DEF Reported
<1> QED BY <1>1, <1>6, <1>7, <1>8, <1>9, <1>10, <1>11

\* While the connection is there, neither side gives up on it.
LEMMA NoFailure ==
  ASSUME Live, MaxDelay < Linger, NEW r \in Roles
  PROVE  ~Fail(r)
<1> USE Facts, Constants, Sides DEF Live, Timely, Messages
<1> SUFFICES ASSUME Fail(r) PROVE FALSE
  OBVIOUS
<1>1. /\ pc[r] \in Busy /\ pc[r] \notin {"linger", "rest"}
      /\ Closed(r) \/ (r = "client" /\ pc[r] \in {"read", "summary"} /\ now >= timer[r])
  BY DEF Fail
<1>2. ~Closed(r)
  <2>1. CASE r = "client"
    <3>1. "close" \notin arrived
      BY <1>1, <2>1 DEF Lingers, Posted, Busy
    <3> QED BY <2>1, <3>1 DEF Closed, PeerClosed
  <2>2. CASE r = "server"
    <3>1. "bye" \notin arrived
      BY <1>1, <2>2 DEF Lingers, Posted, Busy
    <3> QED BY <2>2, <3>1 DEF Closed, PeerClosed
  <2> QED BY <2>1, <2>2 DEF Roles
<1>3. /\ r = "client" /\ pc["client"] \in {"read", "summary"} /\ timer["client"] <= now
      /\ Duration + 50 <= now
  BY <1>1, <1>2 DEF ReadsInTime, Roles
<1>4. pc["server"] \notin {"linger", "ended"}
  BY <1>3, SMTT(30) DEF Lingers
<1>5. CASE dir \in Uploads
  <2>1. pc["client"] = "summary" /\ pc["server"] \in {"accept", "read"}
    BY <1>3, <1>4, <1>5 DEF IInv, Places, Stages, Busy, Roles
  <2>2. dir \notin Datagrams => "fin" \in arrived
    BY <2>1 DEF ReadsInTime
  <2>3. dir \in Datagrams => dir = "upload"
    BY <1>5 DEF Datagrams, Uploads
  <2> QED BY <1>3, <1>5, <2>1, <2>2, <2>3 DEF ReadsInTime, IInv, Places
<1>6. CASE dir \notin Uploads
  <2>1. pc["server"] \in {"loop", "write", "backlog", "ack"}
    BY <1>4, <1>6 DEF IInv, Places, Stages, Busy, Roles
  <2> QED BY <1>3, <1>6, <2>1 DEF SendsInTime, StreamEnds
<1> QED BY <1>5, <1>6

LEMMA TimePasses ==
  ASSUME Live, MaxDelay < Linger, Tick
  PROVE  Timely'
<1> USE Facts, Constants, Sides DEF Live, Timely, Messages
<1>1. /\ now' = now + 1 /\ ~Urgent
      /\ UNCHANGED <<dir, pc, timer, count, blocked, queued, flight, dropped, inbox, mail, arrived, report>>
  BY DEF Tick, sending
<1>2. Sender' = Sender /\ Receiver' = Receiver
  BY <1>1, SidesStay
<1>3. \A y \in Messages : (OnItsWay(y)' <=> OnItsWay(y)) /\ (Posted(y)' <=> Posted(y))
  BY <1>1 DEF OnItsWay, Posted
<1>4. /\ \A m \in mail : now + 1 <= m.at + MaxDelay
      /\ \A i \in 1..Len(flight) : now + 1 <= flight[i] + MaxDelay
  <2>1. /\ \A m \in mail : ~(now >= m.at + MaxDelay)
        /\ \A i \in 1..Len(flight) : ~(now >= flight[i] + MaxDelay)
    BY <1>1, Zenon DEF Urgent
  <2>2. \A m \in mail : now + 1 <= m.at + MaxDelay
    BY <2>1
  <2>3. \A i \in 1..Len(flight) : now + 1 <= flight[i] + MaxDelay
    BY <2>1
  <2> QED BY <2>2, <2>3
<1>5. /\ ~(pc["client"] = "auth" /\ "ok" \in arrived)
      /\ ~(pc[Receiver] \in {"accept", "read"} /\ "fin" \in arrived)
      /\ ~(pc[Sender] = "ack" /\ "ack" \in arrived)
      /\ ~(pc["client"] \in {"read", "summary"} /\ "summary" \in arrived)
  <2>1. /\ ~(pc["client"] = "auth" /\ "ok" \in arrived)
        /\ ~(pc[Receiver] \in {"accept", "read"} /\ "fin" \in arrived)
        /\ ~(pc[Sender] = "ack" /\ "ack" \in arrived)
        /\ ~SummaryDue
    BY <1>1 DEF Urgent
  <2>2. ~(pc["client"] = "read" /\ dir # "download" /\ "summary" \in arrived)
    <3> SUFFICES ASSUME pc["client"] = "read", dir # "download", "summary" \in arrived PROVE FALSE
      OBVIOUS
    <3>1. Receiver = "client" /\ dir \notin Datagrams
      BY DEF IInv, Places, Uploads, Datagrams
    <3>2. pc["server"] = "linger"
      BY DEF Lingers, Posted
    <3>3. "fin" \in arrived
      BY <3>1, <3>2 DEF Lingers
    <3> QED BY <2>1, <3>1, <3>3
  <2> QED BY <2>1, <2>2 DEF SummaryDue
<1>6. /\ pc[Sender] \in {"write", "backlog"} => now + 1 <= blocked + MaxDelay
      /\ pc[Sender] = "write" /\ dir \notin Framed => now + 1 <= timer[Sender]
      /\ \A r \in Roles : pc[r] \in Timed => now + 1 <= timer[r]
  BY <1>1 DEF Urgent
<1>7. Fresh'
  BY <1>1, <1>4, SMTT(30) DEF Fresh
<1>8. Starts'
  <2> SUFFICES ASSUME pc["client"] = "auth" PROVE now + 1 <= MaxDelay /\ Posted("ok")
    BY <1>1, <1>3 DEF Starts
  <2>1. Posted("ok") /\ "ok" \notin arrived
    BY <1>5 DEF Starts
  <2>2. PICK m \in mail : m.msg = "ok"
    BY <2>1 DEF Posted, OnItsWay
  <2>3. m.at = 0
    BY <2>2 DEF Starts
  <2> QED BY <1>4, <2>1, <2>2, <2>3
<1>9. SendsInTime'
  <2>1. CASE pc[Sender] \in {"loop", "backlog"}
    <3>1. now + 1 <= timer[Sender] /\ timer[Sender] <= Duration + MaxDelay /\ timer[Sender] \in Nat
      BY <1>6, <2>1 DEF SendsInTime, Timed
    <3>2. now + 1 <= Duration + 2 * MaxDelay
      BY <3>1
    <3> QED BY <1>1, <1>2, <2>1, <3>1, <3>2 DEF SendsInTime
  <2>2. CASE pc[Sender] = "write"
    <3>1. /\ now + 1 <= blocked + MaxDelay /\ timer[Sender] <= Duration + MaxDelay /\ timer[Sender] \in Nat
          /\ dir \in Framed => blocked < timer[Sender]
          /\ dir \notin Framed => now + 1 <= timer[Sender]
      BY <1>6, <2>2 DEF SendsInTime
    <3>2. now + 1 <= Duration + 2 * MaxDelay
      BY <3>1
    <3> QED BY <1>1, <1>2, <2>2, <3>1, <3>2 DEF SendsInTime
  <2>3. CASE pc[Sender] \notin {"loop", "write", "backlog"}
    BY <1>1, <1>2, <2>3 DEF SendsInTime
  <2> QED BY <2>1, <2>2, <2>3
<1>10. StreamEnds'
  <2>1. pc[Sender] = "ack" => now + 1 <= Duration + 4 * MaxDelay
    <3> SUFFICES ASSUME pc[Sender] = "ack" PROVE now + 1 <= Duration + 4 * MaxDelay
      OBVIOUS
    <3>1. PICK m \in mail : m.msg \in {"fin", "ack"}
      BY <1>5 DEF StreamEnds, Posted, OnItsWay
    <3>2. m.at <= Duration + 3 * MaxDelay
      BY <3>1 DEF StreamEnds
    <3> QED BY <1>4, <3>1, <3>2
  <2> QED BY <1>1, <1>2, <1>3, <2>1 DEF StreamEnds
<1>11. ReadsInTime'
  BY <1>1, <1>2, <1>5, <1>6 DEF ReadsInTime, Timed, Roles
<1>12. Lingers'
  <2> DEFINE p == timer["server"] - Linger
  <2>1. ASSUME pc["server"] = "linger", p + MaxDelay < now + 1 PROVE pc["client"] \in {"rest", "done"}
    <3> SUFFICES ASSUME pc["client"] \notin {"rest", "done"} PROVE FALSE
      OBVIOUS
    <3>1. p \in Nat /\ p <= now /\ now = p + MaxDelay
      <4>1. timer["server"] \in Nat /\ Linger <= timer["server"] /\ p <= now /\ ~(p + MaxDelay < now)
        BY <2>1 DEF Lingers, Roles
      <4>2. p \in Nat
        BY <4>1, SMTT(30)
      <4>3. p + MaxDelay < now + 1
        BY <2>1
      <4>4. \A a, b, c \in Nat : ~(a + b < c) /\ a + b < c + 1 => c = a + b
        OBVIOUS
      <4> HIDE DEF p
      <4> QED BY <4>1, <4>2, <4>3, <4>4
    <3>2. \A m \in mail : m.msg \notin {"summary", "ack"}
      <4>1. \A m \in mail : m.msg \in {"summary", "ack"} => m.at <= p
        BY <2>1 DEF Lingers
      <4> HIDE DEF p
      <4> QED BY <1>4, <3>1, <4>1
    <3>3. "summary" \in arrived
      BY <2>1, <3>2 DEF Lingers, Posted, OnItsWay
    <3>4. pc["client"] \notin {"read", "summary"}
      BY <1>5, <3>3
    <3>5. pc["client"] # "auth"
      <4> HIDE DEF p
      <4> QED BY <1>8, <3>1, <1>1 DEF Starts
    <3>6. pc["client"] \notin {"loop", "write", "backlog", "ack"} \/ dir \in Uploads
      BY DEF IInv, Places
    <3>7. pc["client"] # "accept" \/ dir \notin Datagrams \cup Uploads
      BY DEF IInv, Places
    <3>8. pc["client"] # "accept"
      BY <1>5, <2>1, <3>7 DEF Lingers
    <3>9. pc["client"] \notin {"loop", "write", "backlog"}
      <4>1. CASE dir = "upload"
        BY <2>1, <3>1, <3>6, <4>1, SMTT(30) DEF Lingers, SendsInTime, Uploads
      <4>2. CASE dir # "upload"
        BY <2>1, <3>6, <4>2 DEF Lingers, StreamEnds, Posted, Uploads, Datagrams
      <4> QED BY <4>1, <4>2
    <3>10. pc["client"] # "ack"
      <4> SUFFICES ASSUME pc["client"] = "ack" PROVE FALSE
        OBVIOUS
      <4>1. dir \in Uploads /\ dir \notin Datagrams /\ Sender = "client"
        BY <3>6 DEF IInv, Places
      <4>2. "fin" \in arrived /\ ~OnItsWay("fin")
        BY <2>1, <4>1 DEF Lingers, StreamEnds
      <4>3. Posted("ack") /\ "ack" \notin arrived
        BY <1>5, <4>1, <4>2 DEF StreamEnds
      <4> QED BY <3>2, <4>3 DEF Posted, OnItsWay
    <3>11. pc["client"] \notin {"linger", "ended", "failed"} /\ pc["client"] \in Stages
      BY DEF IInv, Places, Roles
    <3> QED BY <3>4, <3>5, <3>8, <3>9, <3>10, <3>11 DEF Stages, Busy
  <2>2. pc["server"] = "linger" => now + 1 <= timer["server"]
    BY <1>6 DEF Timed, Roles
  <2> QED BY <1>1, <1>3, <2>1, <2>2, SMTT(30) DEF Lingers
<1>13. Reported'
  BY <1>1 DEF Reported
<1> QED BY <1>1, <1>7, <1>8, <1>9, <1>10, <1>11, <1>12, <1>13

LEMMA TimelyStays ==
  ASSUME Live, UNCHANGED vars
  PROVE  Timely'
<1>1. UNCHANGED <<dir, now, pc, timer, count, blocked, queued, flight, dropped, inbox, mail, arrived, report>>
  BY DEF vars
<1>2. Sender' = Sender /\ Receiver' = Receiver
  BY <1>1, SidesStay
<1>3. Fresh' /\ Starts' /\ SendsInTime' /\ Reported'
  BY <1>1, <1>2 DEF Live, Timely, Fresh, Starts, SendsInTime, Reported, Posted, OnItsWay
<1>4. StreamEnds' /\ ReadsInTime' /\ Lingers'
  BY <1>1, <1>2 DEF Live, Timely, StreamEnds, ReadsInTime, Lingers, Posted, OnItsWay
<1> QED BY <1>1, <1>3, <1>4 DEF Live, Timely

\* A datagram that is too large ends the sender's part before its deadline is long over.
LEMMA RefusedBegins ==
  ASSUME Live, MaxDelay < Linger, TooLarge
  PROVE  Refused'
<1> USE Facts, Constants, Sides DEF Live, Timely
<1>1. /\ dir \in Datagrams /\ pc[Sender] = "write"
      /\ Post(IF Sender = "client" THEN "bye" ELSE "close")
      /\ UNCHANGED <<dir, now, count, blocked, queued, flight, dropped, inbox, arrived, report>>
  BY DEF TooLarge, GiveUp, sending
<1>2. /\ pc'[Sender] = "failed" /\ pc'[Receiver] = pc[Receiver] /\ timer'[Receiver] = timer[Receiver]
  BY OtherMoves DEF Moves
<1>3. Sender' = Sender /\ Receiver' = Receiver /\ Word' = Word /\ Word \in Messages
  BY <1>1, SidesStay DEF Word, Messages
<1>4. now <= Duration + MaxDelay
  <2>1. now <= timer[Sender] /\ timer[Sender] <= Duration + MaxDelay
    BY <1>1 DEF SendsInTime, Datagrams, Framed
  <2> QED BY <2>1
<1>5. ~Posted("summary") /\ ~Posted("fin") /\ ~Posted(Word)
  <2>1. ~Posted("fin")
    BY <1>1 DEF StreamEnds
  <2>2. CASE dir = "upload"
    <3>1. Sender = "client" /\ pc["client"] = "write" /\ Word = "bye"
      BY <1>1, <2>2 DEF Uploads, Word
    <3>2. pc["server"] \notin {"linger", "ended"}
      <4>1. pc["server"] # "ended"
        BY <3>1 DEF Lingers
      <4>2. ASSUME pc["server"] = "linger" PROVE FALSE
        <5>1. timer["server"] - 3 = Duration + 10 /\ timer["server"] - 3 <= now /\ timer["server"] \in Nat
          BY <2>2, <4>2 DEF Lingers, Roles
        <5> QED BY <1>4, <5>1
      <4> QED BY <4>1, <4>2
    <3> QED BY <2>1, <3>1, <3>2 DEF Lingers
  <2>3. CASE dir = "download"
    <3>1. Sender = "server" /\ pc["server"] = "write" /\ Word = "close"
      BY <1>1, <2>3 DEF Uploads, Word
    <3> QED BY <2>1, <3>1 DEF Lingers
  <2> QED BY <1>1, <2>2, <2>3 DEF Datagrams
<1>6. mail' = mail \cup {[msg |-> Word, at |-> now]}
  BY <1>1 DEF Post, Word
<1>7. /\ \A m \in mail' : m \in mail \/ (m.msg = Word /\ m.at = now)
      /\ \A y \in Messages : Posted(y)' <=> Posted(y) \/ y = Word
  BY <1>1, <1>3, <1>6, MailGrows
<1>8. pc[Receiver] \in {"auth", "read"}
  <2>1. pc["client"] \notin {"rest", "done"}
    BY <1>1, <1>5 DEF Lingers, Posted, Uploads, Datagrams
  <2>2. CASE dir = "upload"
    <3>1. Receiver = "server" /\ Sender = "client" /\ pc["server"] \notin {"linger", "ended", "failed"}
      <4>1. Receiver = "server" /\ Sender = "client" /\ pc["server"] \notin {"ended", "failed"}
        BY <2>1, <2>2 DEF Uploads, Lingers, Roles
      <4>2. pc["server"] # "linger"
        BY <1>5 DEF Lingers
      <4> QED BY <4>1, <4>2
    <3> QED BY <1>1, <3>1 DEF IInv, Places, Stages, Busy, Roles
  <2>3. CASE dir = "download"
    <3>1. Receiver = "client" /\ Sender = "server" /\ pc["client"] \notin {"summary", "failed"}
      BY <2>3 DEF Uploads, ReadsInTime, Roles
    <3> QED BY <1>1, <2>1, <3>1 DEF IInv, Places, Stages, Busy, Roles
  <2> QED BY <1>1, <2>2, <2>3 DEF Datagrams
<1>9. /\ dir = "upload" /\ pc["server"] = "read" => Duration + 10 <= timer["server"] /\ Receiver = "server"
      /\ dir = "download" /\ pc["client"] = "read" => Duration + 50 <= timer["client"] /\ Receiver = "client"
  BY DEF ReadsInTime, Uploads
<1>10. Posted(Word)' /\ ~Posted("summary")' /\ ~Posted("fin")'
  BY <1>3, <1>5, <1>7 DEF Messages, Word
<1>11. \A m \in mail' : m.msg = Word => m.at <= Duration + MaxDelay /\ now <= m.at + MaxDelay
  <2>1. \A m \in mail : m.msg # Word
    BY <1>5 DEF Posted, OnItsWay
  <2> QED BY <1>4, <1>7, <2>1
<1>12. Word \notin arrived
  BY <1>5 DEF Posted
<1> QED
  BY <1>1, <1>2, <1>3, <1>8, <1>9, <1>10, <1>11, <1>12, SMTT(30) DEF Refused, Uploads, Datagrams

\* The other side hears of it in time.
LEMMA RefusedSoon ==
  ASSUME IInv, Refused, pc[Receiver] # "failed"
  PROVE  now <= Duration + 2 * MaxDelay
<1> USE Facts
<1>1. CASE Word \in arrived
  BY <1>1 DEF Refused
<1>2. CASE Word \notin arrived
  <2>1. PICK m \in mail : m.msg = Word
    BY <1>2 DEF Refused, Posted, OnItsWay
  <2>2. m.at <= Duration + MaxDelay /\ now <= m.at + MaxDelay
    BY <2>1 DEF Refused
  <2> QED BY <2>1, <2>2
<1> QED BY <1>1, <1>2

LEMMA RefusedStep ==
  ASSUME IInv, Refused, path = "narrow", MaxDelay < Linger, [Next]_vars, path' = "narrow"
  PROVE  Refused'
<1> USE Facts, Constants, Sides
<1>1. /\ dir \in Datagrams /\ pc[Sender] = "failed" /\ pc[Receiver] \in {"auth", "read", "failed"}
      /\ "summary" \notin arrived /\ "fin" \notin arrived /\ Word \in Messages
      /\ \A m \in mail : m.msg # "fin"
  BY DEF Refused, Posted, OnItsWay, Word, Messages
<1>2. ASSUME dir' = dir PROVE Sender' = Sender /\ Receiver' = Receiver /\ Word' = Word
  BY <1>2, SidesStay DEF Word
<1>3. ASSUME UNCHANGED <<dir, now, pc, timer, mail, arrived>> PROVE Refused'
  BY <1>2, <1>3 DEF Refused, Posted, OnItsWay
<1>4. ASSUME NEW i \in 1..Len(flight), PacketArrives(i) \/ DatagramLost(i) PROVE Refused'
  BY <1>3, <1>4 DEF PacketArrives, DatagramLost
<1>5. ASSUME NEW n, ReadPacket(n) PROVE Refused'
  BY <1>3, <1>5 DEF ReadPacket
<1>6. ASSUME NEW m \in mail, MessageArrives(m) PROVE Refused'
  <2>1. /\ mail' \subseteq mail /\ arrived' = arrived \cup {m.msg}
        /\ \A y \in Messages : Posted(y)' <=> Posted(y)
    BY <1>1, <1>6, MailShrinks
  <2>2. UNCHANGED <<dir, now, pc, timer>>
    BY <1>6 DEF MessageArrives
  <2>3. m.msg = Word => now <= Duration + 2 * MaxDelay
    <3>1. m.msg = Word => m.at <= Duration + MaxDelay /\ now <= m.at + MaxDelay
      BY DEF Refused
    <3> QED BY <3>1
  <2> QED BY <1>1, <1>2, <2>1, <2>2, <2>3 DEF Refused, Messages
<1>7. ASSUME ClientStarts PROVE Refused'
  <2>1. /\ pc["client"] = "auth"
        /\ UNCHANGED <<dir, now, mail, arrived>>
    BY <1>7, StartKeeps
  <2>2. dir = "download" /\ Receiver = "client" /\ Sender = "server"
    BY <1>1, <2>1 DEF Datagrams, Uploads
  <2>3. /\ pc'["client"] = "read" /\ timer'["client"] = now + Duration + 50
        /\ pc'["server"] = pc["server"] /\ timer'["server"] = timer["server"]
    BY <1>7, <2>2, StartMoves DEF Moves, Roles, Uploads
  <2> QED BY <1>1, <1>2, <2>1, <2>2, <2>3 DEF Refused, Posted, OnItsWay
<1>8. ASSUME NEW r \in Roles, Fail(r) PROVE Refused'
  <2>1. r = Receiver
    BY <1>1, <1>8 DEF Fail, Busy, Roles
  <2>2. /\ pc'[Receiver] = "failed" /\ pc'[Sender] = pc[Sender]
        /\ UNCHANGED <<dir, now, arrived>>
    BY <1>8, <2>1, OtherMoves DEF Moves, Fail
  <2>3. PICK x \in {"bye", "close"} : x # Word /\ mail' = mail \cup {[msg |-> x, at |-> now]}
    BY <1>8, <2>1 DEF Fail, GiveUp, Post, Word
  <2>4. x \in Messages /\ "summary" \in Messages /\ "fin" \in Messages
    BY DEF Messages
  <2>5. /\ \A m \in mail' : m \in mail \/ (m.msg = x /\ m.at = now)
        /\ \A y \in Messages : Posted(y)' <=> Posted(y) \/ y = x
    BY <2>2, <2>3, <2>4, MailGrows
  <2> QED BY <1>1, <1>2, <2>2, <2>3, <2>4, <2>5 DEF Refused
<1>9. ASSUME Tick PROVE Refused'
  <2>1. now' = now + 1 /\ ~Urgent /\ UNCHANGED <<dir, pc, timer, mail, arrived>>
    BY <1>9 DEF Tick
  <2>2. \A m \in mail : now + 1 <= m.at + MaxDelay
    <3>1. \A m \in mail : ~(now >= m.at + MaxDelay)
      BY <2>1 DEF Urgent
    <3> QED BY <3>1
  <2>3. pc[Receiver] # "failed" => Word \notin arrived
    <3> SUFFICES ASSUME pc[Receiver] # "failed", Word \in arrived PROVE FALSE
      OBVIOUS
    <3>1. PeerClosed(Receiver) /\ pc[Receiver] \in Busy \ {"rest"}
      BY <1>1 DEF PeerClosed, Word, Busy, Roles
    <3> QED BY <2>1, <3>1 DEF Urgent
  <2> QED BY <1>1, <1>2, <2>1, <2>2, <2>3 DEF Refused, Posted, OnItsWay
<1>10. ~ReadOver
  <2> SUFFICES ASSUME ReadOver PROVE FALSE
    OBVIOUS
  <2>1. pc["server"] = "read" /\ dir = "upload" /\ Receiver = "server" /\ timer["server"] <= now
    BY <1>1 DEF ReadOver, Uploads, Datagrams
  <2>2. Duration + 10 <= timer["server"] /\ timer["server"] \in Nat
    BY <2>1 DEF Refused, Roles
  <2>3. now <= Duration + 2 * MaxDelay
    BY <2>1, RefusedSoon
  <2> QED BY <2>1, <2>2, <2>3
<1>11. ~(AcceptStream \/ LingerEnds \/ RestEnds \/ SummaryRead \/ ReadEnd)
  BY <1>1 DEF AcceptStream, LingerEnds, RestEnds, SummaryRead, SummaryDue, ReadEnd, Roles
<1>12. ~(BeginWrite \/ TooLarge \/ BacklogDrained \/ SenderStops \/ AckOver \/ \E n : WriteDone(n))
  BY <1>1 DEF BeginWrite, TooLarge, BacklogDrained, SenderStops, AckOver, WriteDone
<1>13. ~ConnectionLost
  BY DEF ConnectionLost
<1>14. ASSUME UNCHANGED vars PROVE Refused'
  BY <1>3, <1>14 DEF vars
<1> QED BY <1>4, <1>5, <1>6, <1>7, <1>8, <1>9, <1>10, <1>11, <1>12, <1>13, <1>14 DEF Next, Progress

\* While the path is up every step keeps the two sides in time.
LEMMA TimelyStep ==
  ASSUME TInv, MaxDelay < Linger, [Next]_vars
  PROVE  TInv'
<1>1. IInv'
  BY Step DEF TInv
<1>2. ASSUME path' = "up" PROVE Timely'
  <2>1. path = "up"
    BY <1>2, PathWasUp
  <2>2. Live
    BY <2>1 DEF TInv, Live
  <2>3. CASE UNCHANGED vars
    BY <2>2, <2>3, TimelyStays DEF vars
  <2>4. ASSUME NEW i \in 1..Len(flight), PacketArrives(i) \/ DatagramLost(i) PROVE Timely'
    BY <2>2, <2>4, PacketMoves
  <2>5. ASSUME NEW m \in mail, MessageArrives(m) PROVE Timely'
    BY <2>2, <2>5, OtherArrives, StreamEndArrives
  <2>6. ASSUME NEW r \in Roles, Fail(r) PROVE Timely'
    BY <2>2, <2>6, NoFailure
  <2>7. ~ConnectionLost /\ ~TooLarge
    BY <1>2, <2>1 DEF ConnectionLost, TooLarge
  <2>8. ASSUME NEW n \in Portions(MaxUnits - queued), WriteDone(n) PROVE Timely'
    BY <2>2, <2>8, WriteInTime
  <2>9. ASSUME NEW n \in Portions(inbox), ReadPacket(n) PROVE Timely'
    BY <2>2, <2>9, ReadInTime
  <2> QED
    BY <2>2, <2>3, <2>4, <2>5, <2>6, <2>7, <2>8, <2>9, StartInTime, AcceptInTime, LingerInTime,
       LeavingInTime, WriteBegins, BacklogInTime, StopInTime, AckInTime,
       ReadEndInTime, ReadOverInTime, TimePasses DEF Next, Progress
<1>3. ASSUME path' = "narrow" PROVE Refused'
  <2>1. CASE path = "narrow"
    BY <1>3, <2>1, RefusedStep DEF TInv
  <2>2. CASE path # "narrow"
    <3>1. Next
      BY <1>3, <2>2 DEF vars
    <3>2. TooLarge /\ path # "dead"
      BY <1>3, <2>2, <3>1, PathStep
    <3>3. Live
      BY <2>2, <3>2 DEF TInv, Live, IInv, Linked
    <3> QED BY <3>2, <3>3, RefusedBegins
  <2> QED BY <2>1, <2>2
<1> QED BY <1>1, <1>2, <1>3 DEF TInv

LEMMA TimelyInvariant ==
  ASSUME MaxDelay < Linger
  PROVE  Spec => []TInv
<1>1. Init => TInv
  <2>1. Init => path # "narrow"
    BY DEF Init
  <2> QED BY <2>1, Begins, TimelyBegins DEF TInv
<1>2. TInv /\ [Next]_vars => TInv'
  BY TimelyStep
<1> QED BY <1>1, <1>2, PTL DEF Spec

\* On a path whose delays stay below the 300 ms of send_bench_summary (server
\* main.rs:625-628), a benchmark fails only when the path dies or a datagram is too
\* large for it (server main.rs:402, client main.rs:610), for every duration and every
\* number of packets or bytes: none of the deadlines of either side cuts off the other.
THEOREM SummaryGetsThere ==
  ASSUME MaxDelay < Linger
  PROVE  Spec => []SummaryReceived
<1>1. TInv => SummaryReceived
  BY DEF TInv, Timely, SummaryReceived
<1> QED BY <1>1, TimelyInvariant, PTL

\* Under the same assumption what a finished benchmark reports adds up: the two sides
\* of a stream counted the same, framed packets or an unframed stream's bytes in
\* whatever portions they were written and read, and the server's summary of an upload
\* covers every datagram that was not lost (server main.rs:300-630, client
\* main.rs:580-872).
THEOREM ReportsAddUp ==
  ASSUME MaxDelay < Linger
  PROVE  Spec => []CountsAddUp
<1>1. ASSUME TInv PROVE CountsAddUp
  <2> SUFFICES ASSUME pc["client"] = "done", path # "dead"
               PROVE  /\ queued - count[Sender] \in (IF dir \in Datagrams THEN 0..1 ELSE {0})
                      /\ dir \notin Datagrams => count["client"] = report
                      /\ dir = "upload" => report + dropped = queued
                      /\ dir = "download" => count["client"] + dropped <= queued
    BY DEF CountsAddUp
  <2> USE Sides
  <2>0. path = "up"
    <3>1. path \in {"up", "narrow"}
      BY <1>1 DEF TInv, IInv, Linked
    <3>2. path # "narrow"
      BY <1>1 DEF TInv, Refused, Roles
    <3> QED BY <3>1, <3>2
  <2>1. /\ IInv /\ Timely /\ Counted
        /\ Len(flight) \in Nat /\ queued \in Nat /\ dropped \in Nat /\ inbox \in Nat
        /\ count["client"] \in Nat /\ count["server"] \in Nat
    BY <1>1, <2>0, Facts DEF TInv, IInv, Roles
  <2>2. "summary" \in arrived /\ pc["server"] \in {"linger", "ended"} /\ report = count["server"]
    BY <2>1 DEF Timely, Lingers, Posted, Reported
  <2>3. queued - count[Sender] \in (IF dir \in Datagrams THEN 0..1 ELSE {0})
    BY <2>1 DEF Counted
  <2>4. ASSUME dir \in Uploads PROVE count["server"] + dropped = queued
    <3>1. Len(flight) = 0 /\ inbox = 0 /\ Receiver = "server"
      BY <2>1, <2>2, <2>4 DEF Timely, Reported
    <3> QED BY <2>1, <3>1 DEF Counted
  <2>5. ASSUME dir \notin Uploads, dir \notin Datagrams PROVE count["client"] = queued /\ count["server"] = queued
    <3>1. inbox = 0 /\ Receiver = "client" /\ Sender = "server"
      BY <2>1, <2>5 DEF Timely, ReadsInTime
    <3>2. "fin" \in arrived
      BY <2>1, <2>2, <2>5, <3>1 DEF Timely, StreamEnds, Posted
    <3>3. Len(flight) = 0
      BY <2>1, <3>2 DEF Timely, StreamEnds
    <3> QED BY <2>0, <2>1, <2>5, <3>1, <3>3 DEF Counted
  <2>6. ASSUME dir \notin Datagrams PROVE count["client"] = report
    <3>1. CASE dir \in Uploads
      BY <2>0, <2>1, <2>2, <2>4, <2>6, <3>1 DEF Counted
    <3>2. CASE dir \notin Uploads
      BY <2>2, <2>5, <2>6, <3>2
    <3> QED BY <3>1, <3>2
  <2>7. ASSUME dir = "upload" PROVE report + dropped = queued
    BY <2>2, <2>4, <2>7 DEF Uploads
  <2>8. ASSUME dir = "download" PROVE count["client"] + dropped <= queued
    BY <2>1, <2>8 DEF Counted, Uploads
  <2> QED BY <2>3, <2>6, <2>7, <2>8
<1>2. TInv => CountsAddUp
  BY <1>1
<1> QED BY <1>2, TimelyInvariant, PTL

-----------------------------------------------------------------------------
(* Nothing gets stuck.                                                      *)

\* Some action other than the passing of time can be taken: the guards of Progress.
CanAct ==
  \/ path # "dead" /\ flight # <<>>
  \/ path # "dead" /\ \E m \in mail : m.msg # "fin" \/ flight = <<>>
  \/ pc["client"] = "auth" /\ "ok" \in arrived
  \/ pc[Receiver] \in {"accept", "read"} /\ (inbox > 0 \/ "fin" \in arrived)
  \/ dir \in Uploads /\ pc["server"] = "read" /\ inbox = 0 /\ now >= timer["server"]
  \/ pc["server"] = "linger" /\ (now >= timer["server"] \/ Closed("server"))
  \/ SummaryDue
  \/ pc["client"] = "rest" /\ now >= timer["client"]
  \/ pc[Sender] = "write" /\ queued < MaxUnits
  \/ pc[Sender] = "backlog"
  \/ pc[Sender] = "loop" /\ now >= timer[Sender]
  \/ pc[Sender] = "ack" /\ ("ack" \in arrived \/ now >= timer[Sender])
  \/ \E r \in Roles :
       /\ pc[r] \in Busy \ {"linger", "rest"}
       /\ \/ Closed(r) /\ ~(pc[r] = "summary" /\ "summary" \in arrived)
          \/ r = "client" /\ pc[r] \in {"read", "summary"} /\ now >= timer[r]

\* What must be done before time can pass can be done.
NoTimeLock == Urgent => CanAct

\* The benchmark's timers never block each other, whatever the delays and also when the
\* connection is lost: whenever one of the waits is over (client main.rs:586-872, server
\* main.rs:324-630), some side or the network has a step to take.  Part of what BothEnd
\* rests on.
THEOREM TimeCanPass == Spec => []NoTimeLock
<1>1. ASSUME IInv PROVE NoTimeLock
  <2> USE <1>1, Sides, Facts
  <2> SUFFICES ASSUME Urgent PROVE CanAct
    BY DEF NoTimeLock
  <2>1. ASSUME path # "dead", mail # {} \/ flight # <<>> PROVE CanAct
    BY <2>1 DEF CanAct
  <2>2. \A i \in 1..Len(flight) : flight # <<>>
    BY DEF IInv, Underway
  <2>3. ASSUME NEW r \in Roles, pc[r] \in Timed, now >= timer[r] PROVE CanAct
    <3>1. CASE pc[r] = "read" /\ r = "client"
      BY <2>3, <3>1 DEF CanAct, Busy
    <3>2. CASE pc[r] = "read" /\ r = "server"
      <4>1. dir \in Uploads /\ Receiver = "server"
        BY <3>2 DEF IInv, Places
      <4>2. inbox = 0 \/ inbox > 0
        OBVIOUS
      <4> QED BY <2>3, <3>2, <4>1, <4>2 DEF CanAct
    <3>3. CASE pc[r] \in {"loop", "backlog", "ack"}
      <4>1. r = Sender
        BY <3>3 DEF IInv, Places, Roles
      <4> QED BY <2>3, <3>3, <4>1 DEF CanAct
    <3>4. CASE pc[r] = "summary"
      <4>1. r = "client"
        BY <3>4 DEF IInv, Places, Roles
      <4> QED BY <2>3, <3>4, <4>1 DEF CanAct, Busy
    <3>5. CASE pc[r] = "linger"
      <4>1. r = "server"
        BY <3>5 DEF IInv, Places, Roles
      <4> QED BY <2>3, <3>5, <4>1 DEF CanAct
    <3>6. CASE pc[r] = "rest"
      <4>1. r = "client"
        BY <3>6 DEF IInv, Places, Roles
      <4> QED BY <2>3, <3>6, <4>1 DEF CanAct
    <3> QED BY <2>3, <3>1, <3>2, <3>3, <3>4, <3>5, <3>6 DEF Timed, Roles
  <2>4. ASSUME NEW r \in Roles, pc[r] \in Busy \ {"rest"}, PeerClosed(r) \/ TimedOut PROVE CanAct
    <3>0. Closed(r)
      BY <2>4 DEF Closed, TimedOut
    <3>1. CASE pc[r] = "linger"
      <4>1. r = "server"
        BY <3>1 DEF IInv, Places, Roles
      <4> QED BY <3>0, <3>1, <4>1 DEF CanAct
    <3>2. CASE pc[r] = "summary" /\ "summary" \in arrived
      <4>1. r = "client"
        BY <3>2 DEF IInv, Places, Roles
      <4> QED BY <3>2, <4>1 DEF CanAct, SummaryDue
    <3>3. CASE pc[r] # "linger" /\ ~(pc[r] = "summary" /\ "summary" \in arrived)
      BY <2>4, <3>0, <3>3 DEF CanAct
    <3> QED BY <3>1, <3>2, <3>3
  <2>5. ASSUME \/ pc["client"] = "auth" /\ "ok" \in arrived
               \/ pc[Receiver] \in {"accept", "read"} /\ (inbox > 0 \/ "fin" \in arrived)
               \/ pc[Sender] \in {"write", "backlog"}
               \/ pc[Sender] = "ack" /\ "ack" \in arrived
               \/ SummaryDue
        PROVE  CanAct
    BY <2>5 DEF CanAct, IInv, Counted
  <2>6. pc[Receiver] = "accept" \/ pc[Receiver] = "read" => pc[Receiver] \in {"accept", "read"}
    OBVIOUS
  <2>7. pc[Sender] = "write" => pc[Sender] \in {"write", "backlog"}
    OBVIOUS
  <2>8. \A m \in mail : mail # {}
    OBVIOUS
  <2> QED BY <2>1, <2>2, <2>3, <2>4, <2>5, <2>6, <2>7, <2>8, Zenon DEF Urgent
<1>2. Init => IInv
  BY Begins
<1>3. IInv /\ [Next]_vars => IInv'
  BY Step
<1> QED BY <1>1, <1>2, <1>3, PTL DEF Spec

-----------------------------------------------------------------------------
(* How long a benchmark takes.                                              *)

\* The server's reading deadline and its wait after the summary.
Longest == Duration + Second + Linger

\* On a dead path a side waits for its idle timeout.
Limit == IF path = "dead" THEN Longest + IdleTimeout + Rest ELSE Longest

\* No side is busy for longer.
OverInTime == (\E r \in Roles : pc[r] \in Busy) => now <= Limit

\* A path that dies does so during the benchmark, and no side outlives its idle timeout
\* but for the rest.
Closing ==
  /\ path = "dead" =>
       /\ lostAt <= Longest
       /\ \A r \in Roles : pc[r] \in Busy \ {"rest"} => now <= lostAt + IdleTimeout
  /\ pc["client"] = "rest" => timer["client"] <= Limit

\* A side that is busy, but for the rest at its end, is within the time of its waits.
LEMMA BusyInTime ==
  ASSUME Live, MaxDelay < Linger, NEW r \in Roles, pc[r] \in Busy \ {"rest"}
  PROVE  now <= Longest
<1> USE Facts, Constants, Sides DEF Live, Timely, Longest
<1>1. ASSUME NEW m \in mail, m.msg = "fin" PROVE now <= Longest
  <2>1. now <= m.at + MaxDelay
    BY DEF Fresh
  <2>2. m.at <= Duration + 2 * MaxDelay
    BY <1>1 DEF StreamEnds
  <2> QED BY <2>1, <2>2
<1>2. ASSUME pc[Sender] \in {"auth", "loop", "write", "backlog", "ack"} PROVE now <= Longest
  <2>1. now <= MaxDelay \/ now <= Duration + 2 * MaxDelay \/ now <= Duration + 4 * MaxDelay
    <3>1. CASE pc[Sender] = "auth"
      <4>1. Sender = "client"
        BY <3>1 DEF IInv, Places, Roles
      <4> QED BY <3>1, <4>1 DEF Starts
    <3>2. CASE pc[Sender] \in {"loop", "write", "backlog"}
      BY <3>2, Zenon DEF SendsInTime
    <3>3. CASE pc[Sender] = "ack"
      BY <3>3, Zenon DEF StreamEnds
    <3> QED BY <1>2, <3>1, <3>2, <3>3
  <2> QED BY <2>1
<1>3. ASSUME pc["server"] \in Busy PROVE now <= Longest
  <2>1. CASE pc["server"] = "linger"
    BY <2>1 DEF Lingers
  <2>2. CASE dir = "upload" /\ pc["server"] = "read"
    BY <2>2 DEF ReadsInTime
  <2>3. CASE dir \in Uploads \ {"upload"} /\ pc["server"] \in {"accept", "read"}
    <3>1. Receiver = "server" /\ Sender = "client" /\ dir \notin Datagrams
      BY <2>3 DEF Uploads, Datagrams
    <3>2. CASE "fin" \in arrived
      BY <2>3, <3>1, <3>2 DEF ReadsInTime
    <3>3. CASE OnItsWay("fin")
      BY <1>1, <3>3 DEF OnItsWay
    <3>4. CASE ~Posted("fin")
      <4>1. pc["client"] \notin {"ack", "summary", "rest", "done"}
        BY <3>1, <3>4 DEF StreamEnds, Posted
      <4>2. pc["client"] \in {"auth", "loop", "write", "backlog"}
        BY <3>1, <4>1 DEF IInv, Places, Stages, Busy, Roles
      <4> QED BY <1>2, <3>1, <4>2
    <3> QED BY <3>2, <3>3, <3>4 DEF Posted
  <2>4. CASE pc["server"] \notin {"linger", "accept", "read"}
    <3>1. Sender = "server" /\ pc["server"] \in {"loop", "write", "backlog", "ack"}
      BY <1>3, <2>4 DEF IInv, Places, Busy, Roles
    <3> QED BY <1>2, <3>1
  <2>5. pc["server"] \in {"accept", "read"} => dir \in Uploads
    BY DEF IInv, Places
  <2>6. dir = "upload" => pc["server"] # "accept"
    BY DEF IInv, Places, Uploads, Datagrams
  <2> QED BY <2>1, <2>2, <2>3, <2>4, <2>5, <2>6
<1>4. pc["server"] \in Busy
  <2>1. CASE r = "server"
    BY <2>1
  <2>2. CASE r = "client"
    BY <2>2 DEF Lingers, IInv, Places, Stages, Busy, Roles
  <2> QED BY <2>1, <2>2 DEF Roles
<1> QED BY <1>3, <1>4

\* The summary is there MaxDelay after it was sent, before the server has waited.
LEMMA SummaryInTime ==
  ASSUME Live, MaxDelay < Linger, "summary" \in arrived, pc["client"] \in Busy \ {"rest"}
  PROVE  now < Longest
<1> USE Facts, Constants DEF Live, Timely
<1> DEFINE p == timer["server"] - Linger
<1>1. pc["server"] = "linger"
  BY DEF Lingers, Posted, Busy
<1>2. Linger <= timer["server"] /\ p <= Duration + Second /\ ~(p + MaxDelay < now)
  BY <1>1 DEF Lingers, Busy
<1>3. timer["server"] \in Nat
  BY DEF Roles
<1> QED BY <1>2, <1>3 DEF Longest

\* Without the passing of time nobody gets busy, and only the summary brings the client
\* to its rest.
LEMMA Winding ==
  ASSUME IInv, Next, ~Tick
  PROVE  /\ now' = now
         /\ \A r \in Roles : pc'[r] \in Busy \ {"rest"} => pc[r] \in Busy \ {"rest"}
         /\ pc'["client"] = "rest" =>
              \/ pc["client"] = "rest" /\ timer'["client"] = timer["client"]
              \/ SummaryDue /\ timer'["client"] = now + 1
         /\ pc'["server"] # "rest"
<1> DEFINE Goal == /\ now' = now
                   /\ \A r \in Roles : pc'[r] \in Busy \ {"rest"} => pc[r] \in Busy \ {"rest"}
                   /\ pc'["client"] = "rest" =>
                        \/ pc["client"] = "rest" /\ timer'["client"] = timer["client"]
                        \/ SummaryDue /\ timer'["client"] = now + 1
<1>1. pc'["server"] # "rest"
  BY PlacesStep DEF Places
<1>2. ASSUME NEW q \in Roles, NEW to, NEW until, Moves(q, to, until), to # "rest",
             to \in Busy => pc[q] \in Busy \ {"rest"},
             now' = now
      PROVE  Goal
  BY <1>2 DEF Moves, Roles
<1>3. ASSUME UNCHANGED <<now, pc, timer>> PROVE Goal
  BY <1>3
<1>4. ASSUME NEW i \in 1..Len(flight), PacketArrives(i) \/ DatagramLost(i) PROVE Goal
  BY <1>3, <1>4 DEF PacketArrives, DatagramLost
<1>5. ASSUME NEW m \in mail, MessageArrives(m) PROVE Goal
  BY <1>3, <1>5 DEF MessageArrives
<1>6. ASSUME ConnectionLost \/ \E n : ReadPacket(n) PROVE Goal
  BY <1>3, <1>6 DEF ConnectionLost, ReadPacket
<1>7. ASSUME ClientStarts PROVE Goal
  <2>1. now' = now /\ pc["client"] \in Busy \ {"rest"}
    BY <1>7, StartKeeps DEF Busy
  <2> QED BY <1>2, <1>7, <2>1, StartMoves DEF Roles
<1>8. ASSUME NEW q \in Roles, Ends(q), pc[q] \in Busy \ {"rest"}, now' = now
      PROVE  Goal
  BY <1>2, <1>8 DEF Ends
<1>9. ASSUME SenderStops \/ AckOver PROVE Goal
  <2>1. /\ now' = now
        /\ Sender \in Roles /\ pc[Sender] \in Busy \ {"rest"}
    BY <1>9, Sides DEF SenderStops, AckOver, Busy
  <2>2. Ends(Sender) \/ Moves(Sender, "ack", now + 50)
    BY <1>9, OtherMoves
  <2> QED BY <1>2, <1>8, <2>1, <2>2
<1>10. ASSUME ReadEnd \/ ReadOver PROVE Goal
  <2>1. /\ now' = now
    BY <1>10 DEF ReadEnd, ReadOver
  <2>2. PICK q \in Roles : Ends(q) /\ pc[q] \in Busy \ {"rest"}
    BY <1>10, Sides, OtherMoves DEF ReadEnd, ReadOver, Busy, Roles
  <2> QED BY <1>8, <2>1, <2>2
<1>11. ASSUME BeginWrite \/ (\E n : WriteDone(n)) \/ BacklogDrained PROVE Goal
  <2>1. /\ now' = now
        /\ Sender \in Roles /\ pc[Sender] \in Busy \ {"rest"}
    BY <1>11, Sides DEF BeginWrite, WriteDone, BacklogDrained, sending, Busy
  <2>2. PICK to \in {"write", "backlog", "loop"} : Moves(Sender, to, timer[Sender])
    BY <1>11, OtherMoves
  <2> QED BY <1>2, <2>1, <2>2
<1>12. ASSUME AcceptStream PROVE Goal
  <2>1. /\ now' = now
        /\ Receiver \in Roles /\ pc[Receiver] \in Busy \ {"rest"}
    BY <1>12, Sides DEF AcceptStream, Busy
  <2> QED BY <1>2, <1>12, <2>1, OtherMoves
<1>13. ASSUME LingerEnds \/ RestEnds PROVE Goal
  <2>1. /\ now' = now
    BY <1>13 DEF LingerEnds, RestEnds
  <2>2. Moves("server", "ended", 0) \/ Moves("client", "done", 0)
    BY <1>13, OtherMoves
  <2>3. "ended" \notin Busy /\ "done" \notin Busy
    BY DEF Busy
  <2> QED BY <1>2, <2>1, <2>2, <2>3 DEF Roles
<1>14. ASSUME NEW r \in Roles, Fail(r) PROVE Goal
  <2>1. /\ now' = now /\ "failed" \notin Busy
    BY <1>14 DEF Fail, Busy
  <2> QED BY <1>2, <1>14, <2>1, OtherMoves
<1>15. ASSUME TooLarge PROVE Goal
  <2>1. now' = now /\ "failed" \notin Busy /\ Sender \in Roles
    BY <1>15, Sides DEF TooLarge, Busy
  <2> QED BY <1>2, <1>15, <2>1, OtherMoves
<1>16. ASSUME SummaryRead PROVE Goal
  <2>1. /\ now' = now /\ SummaryDue /\ "done" \notin Busy
    BY <1>16 DEF SummaryRead, Busy
  <2>2. CASE dir \in Uploads
    <3>1. Moves("client", "rest", now + 1)
      BY <1>16, <2>2, OtherMoves
    <3> QED BY <2>1, <3>1 DEF Moves, Roles
  <2>3. CASE dir \notin Uploads
    BY <1>2, <1>16, <2>1, <2>3, OtherMoves DEF Roles
  <2> QED BY <2>2, <2>3
<1>17. Goal
  BY <1>4, <1>5, <1>6, <1>7, <1>9, <1>10, <1>11, <1>12, <1>13, <1>14, <1>16, <1>15 DEF Next, Progress
<1> QED BY <1>1, <1>17

\* While the path is there, the waits of both sides are short.
Prompt ==
  path # "dead" =>
    /\ \A r \in Roles : pc[r] \in Busy \ {"rest"} => now <= Longest
    /\ SummaryDue => now < Longest

LEMMA PromptHolds ==
  ASSUME TInv, MaxDelay < Linger
  PROVE  Prompt
<1> USE Facts, Constants, Sides
<1>1. IInv /\ path \in {"up", "narrow", "dead"}
  BY DEF TInv, IInv, Linked
<1>2. CASE path = "up"
  <2>1. Live
    BY <1>2 DEF TInv, Live
  <2>2. SummaryDue => "summary" \in arrived /\ pc["client"] \in Busy \ {"rest"}
    BY DEF SummaryDue, Busy
  <2> QED BY <2>1, <2>2, BusyInTime, SummaryInTime DEF Prompt
<1>3. CASE path = "narrow"
  <2>1. Refused
    BY <1>3 DEF TInv
  <2>2. ~SummaryDue
    BY <2>1 DEF Refused, Posted, SummaryDue
  <2>3. ASSUME NEW r \in Roles, pc[r] \in Busy PROVE r = Receiver /\ pc[Receiver] # "failed"
    BY <2>1, <2>3 DEF Refused, Busy, Roles
  <2>4. ASSUME NEW r \in Roles, pc[r] \in Busy PROVE now <= Longest
    <3>1. now <= Duration + 2 * MaxDelay
      BY <1>1, <2>1, <2>3, <2>4, RefusedSoon
    <3> QED BY <1>1, <3>1 DEF Longest
  <2> QED BY <2>2, <2>4 DEF Prompt
<1> QED BY <1>1, <1>2, <1>3 DEF Prompt

\* A dead path is noticed after IdleTimeout, and the rest is the last wait of all.
LEMMA BoundKept ==
  ASSUME IInv, Prompt, Prompt', OverInTime, Closing, [Next]_vars
  PROVE  OverInTime' /\ Closing'
<1> USE Facts, Constants
<1>1. /\ Longest \in Nat /\ now \in Nat /\ pc["server"] # "rest" /\ timer["client"] \in Nat
      /\ IdleTimeout \in Nat /\ lostAt \in Nat /\ Longest' = Longest
      /\ Longest <= Limit /\ Limit \in Nat
  BY DEF Longest, Limit, IInv, Places, Roles, Linked
<1>2. CASE UNCHANGED vars
  <2>1. UNCHANGED <<now, pc, timer, path, lostAt>>
    BY <1>2 DEF vars
  <2> QED BY <2>1 DEF OverInTime, Closing, Limit, Longest
<1>3. CASE Next /\ ~Tick
  <2>1. /\ now' = now /\ pc'["server"] # "rest"
        /\ \A r \in Roles : pc'[r] \in Busy \ {"rest"} => pc[r] \in Busy \ {"rest"}
        /\ pc'["client"] = "rest" =>
             \/ pc["client"] = "rest" /\ timer'["client"] = timer["client"]
             \/ SummaryDue /\ timer'["client"] = now + 1
    BY <1>3, Winding
  <2>2. \/ path' = path /\ lostAt' = lostAt
        \/ path # "dead" /\ path' = "narrow" /\ lostAt' = lostAt
        \/ path # "dead" /\ path' = "dead" /\ lostAt' = now /\ ConnectionLost
    BY <1>3, PathStep
  <2>3. Limit <= Limit'
    BY <1>1, <2>2 DEF Limit
  <2>4. SummaryDue => now + 1 <= Limit /\ pc["client"] \in Busy \ {"rest"}
    <3>1. SummaryDue => pc["client"] \in Busy \ {"rest"}
      BY DEF SummaryDue, Busy
    <3>2. CASE path # "dead"
      BY <1>1, <3>1, <3>2 DEF Prompt
    <3>3. CASE path = "dead"
      BY <1>1, <3>1, <3>3 DEF Closing, Limit, Roles
    <3> QED BY <3>1, <3>2, <3>3
  <2>5. OverInTime'
    <3> SUFFICES ASSUME NEW r \in Roles, pc'[r] \in Busy PROVE now' <= Limit'
      BY DEF OverInTime
    <3>1. \E q \in Roles : pc[q] \in Busy
      BY <2>1, <2>4 DEF Roles, Busy
    <3>2. now <= Limit
      BY <3>1 DEF OverInTime
    <3>3. Limit' \in Nat
      BY <1>1 DEF Limit
    <3> QED BY <1>1, <2>1, <2>3, <3>2, <3>3
  <2>6. pc'["client"] = "rest" => timer'["client"] <= Limit'
    <3>1. Limit' \in Nat
      BY <1>1 DEF Limit
    <3> QED BY <1>1, <2>1, <2>3, <2>4, <3>1 DEF Closing
  <2>7. ASSUME path' = "dead"
        PROVE  /\ lostAt' <= Longest
               /\ \A r \in Roles : pc'[r] \in Busy \ {"rest"} => now' <= lostAt' + IdleTimeout
    <3>1. CASE path = "dead"
      BY <2>1, <2>2, <3>1 DEF Closing
    <3>2. CASE path # "dead"
      <4>1. lostAt' = now /\ now <= Longest
        BY <2>2, <2>7, <3>2 DEF ConnectionLost, OverInTime, Limit
      <4> QED BY <1>1, <2>1, <4>1
    <3> QED BY <3>1, <3>2
  <2> QED BY <1>1, <2>5, <2>6, <2>7 DEF Closing
<1>4. CASE Tick
  <2>1. /\ now' = now + 1 /\ ~Urgent /\ UNCHANGED <<pc, timer, path, lostAt>>
    BY <1>4 DEF Tick, link
  <2>2. Limit' = Limit
    BY <1>1, <2>1 DEF Limit
  <2>3. ASSUME NEW r \in Roles, pc[r] \in Busy \ {"rest"}, path = "dead"
        PROVE  now + 1 <= lostAt + IdleTimeout
    <3>1. ~TimedOut
      BY <2>1, <2>3 DEF Urgent
    <3> QED BY <1>1, <2>3, <3>1 DEF TimedOut
  <2>4. ASSUME pc["client"] = "rest" PROVE now + 1 <= Limit
    <3>1. ~(now >= timer["client"])
      BY <2>1, <2>4 DEF Urgent, Timed, Roles
    <3>2. timer["client"] <= Limit
      BY <2>4 DEF Closing
    <3> QED BY <1>1, <3>1, <3>2
  <2>5. OverInTime'
    <3> SUFFICES ASSUME NEW r \in Roles, pc[r] \in Busy PROVE now + 1 <= Limit
      BY <2>1, <2>2 DEF OverInTime
    <3>1. CASE pc[r] = "rest"
      BY <1>1, <2>4, <3>1 DEF Roles
    <3>2. CASE pc[r] # "rest" /\ path # "dead"
      BY <1>1, <2>1, <3>2 DEF Prompt
    <3>3. CASE pc[r] # "rest" /\ path = "dead"
      <4>1. now + 1 <= lostAt + IdleTimeout /\ lostAt <= Longest
        BY <2>3, <3>3 DEF Closing
      <4> QED BY <1>1, <3>3, <4>1 DEF Limit
    <3> QED BY <3>1, <3>2, <3>3
  <2>6. Closing'
    BY <1>1, <2>1, <2>2, <2>3 DEF Closing
  <2> QED BY <2>5, <2>6
<1> QED BY <1>2, <1>3, <1>4

\* On a path whose delays stay below the 300 ms of send_bench_summary a benchmark in any
\* direction is over 1.3 s after its duration, one that fails over a datagram too large
\* included: the five-second waits for acknowledgement and summary (quic.rs:443, client
\* main.rs:624-630, :656-657) are never needed in full.  When the path dies, at any point
\* of it, the last side is done IdleTimeout (crypto.rs:121-131) and the client's 100 ms
\* rest later.
THEOREM EndsInTime ==
  ASSUME MaxDelay < Linger
  PROVE  Spec => []OverInTime
<1>1. TInv => IInv /\ Prompt
  BY PromptHolds DEF TInv
<1>2. Init => OverInTime /\ Closing
  <2> SUFFICES ASSUME Init PROVE OverInTime /\ Closing
    OBVIOUS
  <2>1. now = 0 /\ path = "up" /\ pc["client"] = "auth"
    BY DEF Init, Roles
  <2>2. 0 <= Limit
    BY <2>1, Constants DEF Longest, Limit
  <2> QED BY <2>1, <2>2 DEF OverInTime, Closing
<1>3. IInv /\ Prompt /\ Prompt' /\ OverInTime /\ Closing /\ [Next]_vars => OverInTime' /\ Closing'
  BY BoundKept
<1> QED BY <1>1, <1>2, <1>3, TimelyInvariant, PTL DEF Spec

\* A side that is not done has something to do, or time passes.
NeverStuck ==
  (\E r \in Roles : pc[r] \in Busy) => CanAct \/ (~Urgent /\ now < MaxTime)

\* No benchmark gets stuck, and a bound on time above all its waits, as in the run that
\* checks BothEnd, cuts nothing off: with fairness, which TLC adds, both sides end.
THEOREM AlwaysMoving ==
  ASSUME MaxDelay < Linger, Longest + IdleTimeout + Rest < MaxTime
  PROVE  Spec => []NeverStuck
<1>1. OverInTime /\ NoTimeLock /\ TypeOK => NeverStuck
  <2> SUFFICES ASSUME OverInTime, NoTimeLock, TypeOK PROVE NeverStuck
    OBVIOUS
  <2>1. now \in Nat /\ MaxTime \in Nat /\ Longest \in Nat /\ IdleTimeout \in Nat /\ Rest = 1
    BY Constants DEF TypeOK, Longest
  <2>2. Limit < MaxTime /\ Limit \in Nat
    BY <2>1 DEF Limit
  <2> QED BY <2>1, <2>2 DEF OverInTime, NoTimeLock, NeverStuck
<1> QED BY <1>1, EndsInTime, TimeCanPass, TypeCorrect, PTL
=============================================================================
