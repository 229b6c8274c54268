--------------------------- MODULE FramingProofs ----------------------------
(***************************************************************************)
(* Proofs about Framing, for any base of the bytes, any lengths of the      *)
(* buffers and any number of packets.                                       *)
(***************************************************************************)
EXTENDS Framing, SequenceTheorems, TLAPS

-----------------------------------------------------------------------------
(* The inductive invariant.                                                 *)

Frame(p) == Header(Len(p)) \o p

\* The bytes between what the reader has used and what the sender has accepted.
Stream == acc \o (wire \o pending)

\* The packets that are on the stream, whole or in part.
Written == IF pending = <<>> THEN sent ELSE Append(sent, current)

\* tails[j] is what the stream carries from the frame of packet j on.
Suffixes(tails, packets) ==
  /\ tails \in [1..(Len(packets) + 1) -> Seq(Byte)]
  /\ tails[Len(packets) + 1] = <<>>
  /\ \A j \in 1..Len(packets) : tails[j] = Frame(packets[j]) \o tails[j + 1]
  /\ \A i, j \in 1..(Len(packets) + 1) : i < j => Len(tails[j]) < Len(tails[i])

\* The reader is at the frame of the packet it delivers next, or at its body.
InStep(tails) ==
  /\ reader = "header" => need = 2 /\ Stream = tails[Len(out) + 1]
  /\ reader = "body" =>
       /\ Len(out) < Len(Written) /\ need = Len(Written[Len(out) + 1])
       /\ Stream = Written[Len(out) + 1] \o tails[Len(out) + 2]

Framed ==
  reader \in {"header", "body"} =>
    \E tails \in [1..(Len(Written) + 1) -> Seq(Byte)] :
      Suffixes(tails, Written) /\ InStep(tails)

Types ==
  /\ writer \in {"idle", "writing", "stopped"}
  /\ reader \in {"header", "body", "eof", "failed"}
  /\ pending \in Seq(Byte) /\ wire \in Seq(Byte) /\ acc \in Seq(Byte)
  /\ sent \in Seq(Packets) /\ out \in Seq(Packets)
  /\ current = <<>> \/ current \in Packets
  /\ need \in Nat /\ Len(acc) < need

\* What a writer has left to do is a part of one frame, of a packet that fits it.
WriterState ==
  /\ writer = "idle" => pending = <<>>
  /\ writer = "writing" => pending # <<>>
  /\ pending # <<>> =>
       current \in Packets /\ Len(current) <= MaxLen /\ Len(pending) <= Len(Frame(current))
  /\ \A j \in 1..Len(sent) : Len(sent[j]) <= MaxLen

\* The packets delivered are the first packets sent.
Delivered == Len(out) <= Len(sent) /\ \A j \in 1..Len(out) : out[j] = sent[j]

EndReached == reader = "eof" => writer = "stopped" /\ CleanEndIsComplete

IInv == Types /\ WriterState /\ Delivered /\ EndReached /\ Framed

-----------------------------------------------------------------------------
(* Headers, packets and sequences.                                          *)

\* Every length that fits two bytes is read back as it was written.
LEMMA HeaderReadBack ==
  ASSUME NEW len \in Nat, len <= MaxLen
  PROVE  /\ Header(len) \in Seq(Byte) /\ Len(Header(len)) = 2
         /\ Length(Header(len)) = len
<1> DEFINE q == len \div Base
           r == len % Base
<1>1. Base \in Nat /\ Base # 0 /\ len < Base * Base
  BY FramingAssumption DEF MaxLen
<1>2. q \in Nat /\ r \in 0..(Base - 1) /\ len = Base * q + r
  BY <1>1
<1>3. Base * q = q * Base /\ q * Base \in Nat
  BY <1>1, <1>2
<1>4. q < Base
  <2> SUFFICES ASSUME q >= Base PROVE FALSE
    BY <1>1, <1>2
  <2>1. q * Base >= Base * Base
    BY <1>1, <1>2
  <2> QED
    BY <1>1, <1>2, <1>3, <2>1
<1>5. q \in Byte /\ r \in Byte
  BY <1>1, <1>2, <1>4 DEF Byte
<1> HIDE DEF q, r
<1>6. <<q, r>> \in Seq(Byte) /\ Len(<<q, r>>) = 2 /\ <<q, r>>[1] = q /\ <<q, r>>[2] = r
  BY <1>5
<1>7. Length(<<q, r>>) = len
  BY <1>2, <1>3, <1>6 DEF Length
<1>8. Header(len) = <<q, r>>
  BY DEF Header, q, r
<1> QED
  BY <1>6, <1>7, <1>8

LEMMA PacketIsSeq ==
  ASSUME NEW p \in Packets
  PROVE  p \in Seq(Byte) /\ Len(p) \in Nat \ {0}
<1>1. PICK n \in 1..MaxSend : p \in [1..n -> Byte]
  BY DEF Packets
<1>2. n \in Nat \ {0}
  BY FramingAssumption
<1>3. p \in Seq(Byte)
  BY <1>1, <1>2
<1> QED
  BY <1>1, <1>2, <1>3, LenProperties

LEMMA FrameIsSeq ==
  ASSUME NEW p \in Packets, Len(p) <= MaxLen
  PROVE  Frame(p) \in Seq(Byte) /\ Len(Frame(p)) = 2 + Len(p)
<1>1. p \in Seq(Byte) /\ Len(p) \in Nat
  BY PacketIsSeq
<1>2. Header(Len(p)) \in Seq(Byte) /\ Len(Header(Len(p))) = 2
  BY <1>1, HeaderReadBack
<1>3. Frame(p) \in Seq(Byte) /\ Len(Frame(p)) = Len(Header(Len(p))) + Len(p)
  BY <1>1, <1>2, ConcatProperties, Zenon DEF Frame
<1> QED
  BY <1>2, <1>3

LEMMA Assoc ==
  ASSUME NEW s \in Seq(Byte), NEW t \in Seq(Byte), NEW u \in Seq(Byte)
  PROVE  (s \o t) \o u = s \o (t \o u)
BY ConcatAssociative

\* Two ways to cut a sequence at the same place are the same.
LEMMA SameCut ==
  ASSUME NEW s \in Seq(Byte), NEW t \in Seq(Byte), NEW u \in Seq(Byte), NEW v \in Seq(Byte),
         Len(s) = Len(u), s \o t = u \o v
  PROVE  s = u /\ t = v
<1>1. \A i \in 1..Len(s) : s[i] = u[i]
  <2> TAKE i \in 1..Len(s)
  <2>1. i \in 1..(Len(s) + Len(t)) /\ i \in 1..(Len(u) + Len(v)) /\ i <= Len(s)
    BY LenProperties
  <2> QED
    BY <2>1, ConcatProperties
<1>2. s = u
  BY <1>1, SeqEqual
<1> QED
  BY <1>2, ConcatSimplifications

\* A sequence is its first n elements and the others.
LEMMA Cut ==
  ASSUME NEW S, NEW s \in Seq(S), NEW n \in 0..Len(s)
  PROVE  /\ SubSeq(s, 1, n) \in Seq(S) /\ Len(SubSeq(s, 1, n)) = n
         /\ SubSeq(s, n + 1, Len(s)) \in Seq(S) /\ Len(SubSeq(s, n + 1, Len(s))) = Len(s) - n
         /\ SubSeq(s, 1, n) \o SubSeq(s, n + 1, Len(s)) = s
<1>1. Len(s) \in Nat /\ n \in Nat
  BY LenProperties
<1>2. \A i \in 1..Len(s) : s[i] \in S
  BY ElementOfSeq
<1>3. SubSeq(s, 1, n) \in Seq(S) /\ Len(SubSeq(s, 1, n)) = n
  BY <1>1, <1>2, SubSeqProperties
<1>4. SubSeq(s, n + 1, Len(s)) \in Seq(S) /\ Len(SubSeq(s, n + 1, Len(s))) = Len(s) - n
  BY <1>1, <1>2, SubSeqProperties
<1>5. SubSeq(s, 1, n) \o SubSeq(s, n + 1, Len(s)) = SubSeq(s, 1, Len(s))
  <2>1. 1 \in 1..(Len(s) + 1) /\ n \in (1 - 1)..Len(s) /\ Len(s) \in n..Len(s)
    BY <1>1
  <2> QED
    BY <2>1, ConcatAdjacentSubSeq
<1> QED
  BY <1>3, <1>4, <1>5, SubSeqFull

\* What is to come, when a frame is added at its end.
LEMMA Extended ==
  ASSUME NEW ps \in Seq(Packets), \A j \in 1..Len(ps) : Len(ps[j]) <= MaxLen,
         NEW p \in Packets, Len(p) <= MaxLen,
         NEW tails, Suffixes(tails, ps)
  PROVE  \E longer \in [1..(Len(ps) + 2) -> Seq(Byte)] :
           /\ Suffixes(longer, Append(ps, p))
           /\ \A j \in 1..(Len(ps) + 1) : longer[j] = tails[j] \o Frame(p)
<1> DEFINE N == Len(ps)
           more == Append(ps, p)
           longer == [j \in 1..(N + 2) |-> IF j = N + 2 THEN <<>> ELSE tails[j] \o Frame(p)]
<1>1. N \in Nat
  BY LenProperties
<1>2. Frame(p) \in Seq(Byte) /\ Len(Frame(p)) \in Nat \ {0}
  BY FrameIsSeq, PacketIsSeq
<1>3. /\ Len(more) = N + 1 /\ \A j \in 1..N : more[j] = ps[j]
      /\ more[N + 1] = p
  BY AppendProperties
<1>4. /\ tails \in [1..(N + 1) -> Seq(Byte)] /\ tails[N + 1] = <<>>
      /\ \A j \in 1..N : tails[j] = Frame(ps[j]) \o tails[j + 1]
      /\ \A i, j \in 1..(N + 1) : i < j => Len(tails[j]) < Len(tails[i])
  BY DEF Suffixes
<1>5. ASSUME NEW j \in 1..(N + 1)
      PROVE  /\ longer[j] = tails[j] \o Frame(p) /\ longer[j] \in Seq(Byte)
             /\ Len(longer[j]) = Len(tails[j]) + Len(Frame(p))
             /\ Len(tails[j]) \in Nat
  <2>1. j \in 1..(N + 2) /\ j # N + 2
    BY <1>1
  <2>2. longer[j] = tails[j] \o Frame(p)
    BY <2>1
  <2>3. tails[j] \in Seq(Byte) /\ Len(tails[j]) \in Nat
    BY <1>4, LenProperties
  <2>4. /\ tails[j] \o Frame(p) \in Seq(Byte)
        /\ Len(tails[j] \o Frame(p)) = Len(tails[j]) + Len(Frame(p))
    BY <1>2, <2>3, ConcatProperties, Zenon
  <2> QED
    BY <2>2, <2>3, <2>4
<1>6. longer[N + 2] = <<>> /\ longer \in [1..(N + 2) -> Seq(Byte)]
  <2>1. \A j \in 1..(N + 2) : j \in 1..(N + 1) \/ j = N + 2
    BY <1>1
  <2>2. N + 2 \in 1..(N + 2) /\ <<>> \in Seq(Byte)
    BY <1>1, EmptySeq
  <2>3. longer[N + 2] = <<>>
    BY <2>2
  <2>4. \A j \in 1..(N + 2) : longer[j] \in Seq(Byte)
    BY <1>5, <2>1, <2>2, <2>3
  <2> QED
    BY <2>3, <2>4
<1> HIDE DEF longer, N, more
<1>7. ASSUME NEW j \in 1..(N + 1) PROVE longer[j] = Frame(more[j]) \o longer[j + 1]
  <2>1. CASE j = N + 1
    <3>1. N + 1 \in 1..(N + 1) /\ (N + 1) + 1 = N + 2
      BY <1>1
    <3>2. longer[j] = <<>> \o Frame(p) /\ longer[j + 1] = <<>>
      BY <1>4, <1>5, <1>6, <2>1, <3>1
    <3>3. more[j] = p
      BY <1>3, <2>1
    <3> QED
      BY <1>2, <3>2, <3>3, ConcatEmptySeq
  <2>2. CASE j # N + 1
    <3>1. j \in 1..N /\ j + 1 \in 1..(N + 1)
      BY <1>1, <2>2
    <3>2. ps[j] \in Packets /\ Len(ps[j]) <= MaxLen
      BY <3>1, ElementOfSeq DEF N
    <3>3. Frame(ps[j]) \in Seq(Byte) /\ tails[j + 1] \in Seq(Byte)
      BY <1>4, <3>1, <3>2, FrameIsSeq
    <3>4. (Frame(ps[j]) \o tails[j + 1]) \o Frame(p) = Frame(ps[j]) \o (tails[j + 1] \o Frame(p))
      BY <1>2, <3>3, Assoc
    <3>5. longer[j] = tails[j] \o Frame(p) /\ longer[j + 1] = tails[j + 1] \o Frame(p)
      BY <1>5, <3>1
    <3>6. tails[j] = Frame(ps[j]) \o tails[j + 1] /\ more[j] = ps[j]
      BY <1>3, <1>4, <3>1
    <3> QED
      BY <3>4, <3>5, <3>6
  <2> QED
    BY <2>1, <2>2
<1>8. ASSUME NEW i \in 1..(N + 2), NEW j \in 1..(N + 2), i < j
      PROVE  Len(longer[j]) < Len(longer[i])
  <2>1. i \in 1..(N + 1)
    BY <1>1, <1>8
  <2>2. Len(longer[i]) = Len(tails[i]) + Len(Frame(p)) /\ Len(tails[i]) \in Nat
    BY <1>5, <2>1
  <2>3. CASE j = N + 2
    <3>1. Len(longer[j]) = 0
      BY <1>6, <2>3, EmptySeq
    <3> QED
      BY <1>2, <2>2, <3>1
  <2>4. CASE j # N + 2
    <3>1. j \in 1..(N + 1)
      BY <1>1, <2>4
    <3>2. Len(longer[j]) = Len(tails[j]) + Len(Frame(p)) /\ Len(tails[j]) \in Nat
      BY <1>5, <3>1
    <3>3. Len(tails[j]) < Len(tails[i])
      BY <1>4, <1>8, <2>1, <3>1
    <3>4. \A a, b, c \in Nat : a < b => a + c < b + c
      OBVIOUS
    <3> QED
      BY <1>2, <2>2, <3>2, <3>3, <3>4
  <2> QED
    BY <2>3, <2>4
<1>9. Suffixes(longer, more)
  <2>1. (N + 1) + 1 = N + 2
    BY <1>1
  <2> QED
    BY <1>3, <1>6, <1>7, <1>8, <2>1 DEF Suffixes
<1> QED
  BY <1>5, <1>6, <1>9 DEF N, more

-----------------------------------------------------------------------------
(* Steps.                                                                   *)

LEMMA WrittenType ==
  ASSUME Types, WriterState
  PROVE  /\ Written \in Seq(Packets) /\ Len(Written) \in Nat /\ Len(sent) \in Nat
         /\ Len(Written) = IF pending = <<>> THEN Len(sent) ELSE Len(sent) + 1
         /\ \A j \in 1..Len(Written) : Written[j] \in Packets /\ Len(Written[j]) <= MaxLen
         /\ \A j \in 1..Len(sent) : Written[j] = sent[j]
         /\ pending # <<>> => Written[Len(sent) + 1] = current
<1>1. Len(sent) \in Nat /\ \A j \in 1..Len(sent) : sent[j] \in Packets
  BY LenProperties, ElementOfSeq DEF Types
<1>2. CASE pending = <<>>
  BY <1>1, <1>2 DEF Types, WriterState, Written
<1>3. CASE pending # <<>>
  <2>1. current \in Packets /\ Len(current) <= MaxLen /\ Written = Append(sent, current)
    BY <1>3 DEF WriterState, Written
  <2>2. /\ Written \in Seq(Packets) /\ Len(Written) = Len(sent) + 1
        /\ \A j \in 1..Len(sent) : Written[j] = sent[j]
        /\ Written[Len(sent) + 1] = current
    BY <2>1, AppendProperties DEF Types
  <2>3. \A j \in 1..(Len(sent) + 1) : j \in 1..Len(sent) \/ j = Len(sent) + 1
    BY <1>1
  <2> QED
    BY <1>1, <1>3, <2>1, <2>2, <2>3 DEF WriterState
<1> QED
  BY <1>2, <1>3

\* Bytes that only move along the stream leave the reader where it is.
LEMMA FramedSame ==
  ASSUME Framed, Stream' = Stream, Written' = Written, UNCHANGED <<reader, need, out>>
  PROVE  Framed'
BY DEF Framed, Suffixes, InStep

LEMMA StreamType ==
  ASSUME Types
  PROVE  /\ wire \o pending \in Seq(Byte) /\ Stream \in Seq(Byte)
         /\ Len(wire \o pending) = Len(wire) + Len(pending)
         /\ Len(Stream) = Len(acc) + (Len(wire) + Len(pending))
         /\ Len(acc) \in Nat /\ Len(wire) \in Nat /\ Len(pending) \in Nat
<1>1. wire \o pending \in Seq(Byte) /\ Len(wire \o pending) = Len(wire) + Len(pending)
  BY ConcatProperties, Zenon DEF Types
<1>2. Stream \in Seq(Byte) /\ Len(Stream) = Len(acc) + Len(wire \o pending)
  BY <1>1, ConcatProperties, Zenon DEF Types, Stream
<1>3. Len(acc) \in Nat /\ Len(wire) \in Nat /\ Len(pending) \in Nat
  BY LenProperties DEF Types
<1> QED
  BY <1>1, <1>2, <1>3

\* A piece of the frame goes onto the stream; with the last piece the packet is sent.
LEMMA WriteSomePreserves ==
  ASSUME IInv, NEW k \in 1..Len(pending), WriteSome(k)
  PROVE  IInv'
<1> USE DEF IInv
<1> DEFINE first == SubSeq(pending, 1, k)
           rest == SubSeq(pending, k + 1, Len(pending))
<1>1. Len(pending) \in Nat /\ k \in Nat /\ k \in 0..Len(pending) /\ pending # <<>>
  BY LenProperties, EmptySeq DEF Types
<1>2. /\ first \in Seq(Byte) /\ rest \in Seq(Byte) /\ Len(rest) = Len(pending) - k
      /\ first \o rest = pending
  BY <1>1, Cut DEF Types
<1> HIDE DEF first, rest
<1>3. /\ pending' = rest /\ wire' = wire \o first /\ current' = current
      /\ UNCHANGED <<acc, reader, need, out>>
      /\ writer = "writing" /\ writer' = (IF k = Len(pending) THEN "idle" ELSE "writing")
      /\ sent' = IF k = Len(pending) THEN Append(sent, current) ELSE sent
  BY DEF WriteSome, first, rest, reading
<1>4. current \in Packets /\ Len(current) <= MaxLen /\ Len(pending) <= Len(Frame(current))
  BY <1>1 DEF WriterState
<1>5. (rest = <<>> <=> k = Len(pending)) /\ Len(rest) \in Nat
  BY <1>1, <1>2, EmptySeq
<1>6. Stream' = Stream
  <2>1. (wire \o first) \o rest = wire \o (first \o rest)
    BY <1>2, Assoc DEF Types
  <2> QED
    BY <1>2, <1>3, <2>1 DEF Stream
<1>7. Written' = Written
  BY <1>1, <1>3, <1>5 DEF Written
<1>8. /\ sent' \in Seq(Packets) /\ Len(sent) \in Nat /\ Len(sent') >= Len(sent)
      /\ \A j \in 1..Len(sent) : sent'[j] = sent[j]
      /\ \A j \in 1..Len(sent') : Len(sent'[j]) <= MaxLen
  <2>1. Len(sent) \in Nat
    BY LenProperties DEF Types
  <2>2. CASE k = Len(pending)
    <3>1. /\ sent' \in Seq(Packets) /\ Len(sent') = Len(sent) + 1
          /\ \A j \in 1..Len(sent) : sent'[j] = sent[j]
          /\ sent'[Len(sent) + 1] = current
      BY <1>3, <1>4, <2>2, AppendProperties DEF Types
    <3>2. \A j \in 1..(Len(sent) + 1) : j \in 1..Len(sent) \/ j = Len(sent) + 1
      BY <2>1
    <3> QED
      BY <1>4, <2>1, <3>1, <3>2 DEF WriterState
  <2>3. CASE k # Len(pending)
    BY <1>3, <2>1, <2>3 DEF Types, WriterState
  <2> QED
    BY <2>2, <2>3
<1>9. Types'
  <2>1. wire' \in Seq(Byte)
    BY <1>2, <1>3, ConcatProperties, Zenon DEF Types
  <2> QED
    BY <1>2, <1>3, <1>8, <2>1 DEF Types
<1>10. WriterState'
  <2>1. Frame(current)' = Frame(current) /\ Len(Frame(current)) \in Nat
    BY <1>3, <1>4, FrameIsSeq, LenProperties DEF Frame, Header
  <2>2. Len(rest) <= Len(Frame(current))
    BY <1>1, <1>2, <1>4, <2>1
  <2> QED
    BY <1>3, <1>4, <1>5, <1>8, <2>1, <2>2 DEF WriterState
<1>11. Delivered'
  <2>1. Len(out) \in Nat
    BY LenProperties DEF Types
  <2>2. Len(sent') \in Nat
    BY <1>8, LenProperties
  <2> QED
    BY <1>3, <1>8, <2>1, <2>2 DEF Delivered
<1>12. EndReached'
  BY <1>3 DEF EndReached
<1>13. Framed'
  BY <1>3, <1>6, <1>7, FramedSame
<1> QED
  BY <1>9, <1>10, <1>11, <1>12, <1>13

\* A new frame is added at the end of what is to come.
LEMMA WritePacketPreserves ==
  ASSUME IInv, NEW p \in Packets, WritePacket(p)
  PROVE  IInv'
<1> USE DEF IInv
<1>1. /\ writer = "idle" /\ pending = <<>>
      /\ UNCHANGED <<sent, wire, reader, acc, need, out>>
  BY DEF WritePacket, WriterState, reading
<1>2. CASE Len(p) > MaxLen
  <2>1. writer' = "stopped" /\ UNCHANGED <<pending, current>>
    BY <1>2 DEF WritePacket
  <2>2. Stream' = Stream /\ Written' = Written
    BY <1>1, <2>1 DEF Stream, Written
  <2>3. Framed'
    BY <1>1, <2>2, FramedSame
  <2>4. Types' /\ WriterState' /\ Delivered' /\ EndReached'
    BY <1>1, <2>1 DEF Types, WriterState, Delivered, EndReached, CleanEndIsComplete, Frame, Header
  <2> QED
    BY <2>3, <2>4
<1>3. CASE ~(Len(p) > MaxLen)
  <2>1. writer' = "writing" /\ pending' = Frame(p) /\ current' = p
    BY <1>3 DEF WritePacket, Frame
  <2>2. Len(p) \in Nat /\ Len(p) <= MaxLen
    BY <1>3, PacketIsSeq, FramingAssumption DEF MaxLen
  <2>3. Frame(p) \in Seq(Byte) /\ Len(Frame(p)) = 2 + Len(p) /\ Frame(p) # <<>>
    BY <2>2, FrameIsSeq, EmptySeq
  <2>4. Types'
    BY <1>1, <2>1, <2>3 DEF Types
  <2>5. WriterState'
    <3>1. Frame(current)' = Frame(p)
      BY <2>1 DEF Frame, Header
    <3> QED
      BY <1>1, <2>1, <2>2, <2>3, <3>1 DEF WriterState
  <2>6. Delivered' /\ EndReached'
    BY <1>1, <2>1 DEF Delivered, EndReached
  <2>7. Framed'
    <3> SUFFICES ASSUME reader \in {"header", "body"}
                 PROVE  \E longer \in [1..(Len(Written') + 1) -> Seq(Byte)] :
                          Suffixes(longer, Written') /\ InStep(longer)'
      BY <1>1 DEF Framed, InStep, Suffixes
    <3>1. PICK tails : Suffixes(tails, sent) /\ InStep(tails) /\ Written = sent
      BY <1>1 DEF Framed, Written
    <3>2. Written' = Append(sent, p) /\ Len(sent) \in Nat
      BY <1>1, <2>1, <2>3, LenProperties DEF Types, Written
    <3>3. PICK longer \in [1..(Len(sent) + 2) -> Seq(Byte)] :
            /\ Suffixes(longer, Written')
            /\ \A j \in 1..(Len(sent) + 1) : longer[j] = tails[j] \o Frame(p)
      BY <2>2, <3>1, <3>2, Extended DEF Types, WriterState
    <3>4. Stream' = Stream \o Frame(p)
      <4>1. pending' = pending \o Frame(p)
        BY <1>1, <2>1, <2>3, ConcatEmptySeq
      <4>2. wire \o (pending \o Frame(p)) = (wire \o pending) \o Frame(p)
        BY <2>3, Assoc DEF Types
      <4>3. acc \o ((wire \o pending) \o Frame(p)) = (acc \o (wire \o pending)) \o Frame(p)
        BY <2>3, StreamType, Assoc DEF Types
      <4> QED
        BY <1>1, <4>1, <4>2, <4>3 DEF Stream
    <3>5. /\ Len(out) \in Nat /\ Len(out) <= Len(sent) /\ Len(Written') = Len(sent) + 1
          /\ \A j \in 1..Len(sent) : Written'[j] = sent[j]
      BY <3>2, LenProperties, AppendProperties DEF Types, Delivered
    <3>6. CASE reader = "header"
      <4>1. Len(out) + 1 \in 1..(Len(sent) + 1)
        BY <3>2, <3>5
      <4>2. longer[Len(out) + 1] = Stream' /\ need' = 2
        BY <1>1, <3>1, <3>3, <3>4, <3>6, <4>1 DEF InStep
      <4> QED
        BY <1>1, <3>3, <3>6, <4>2 DEF InStep, Suffixes
    <3>7. CASE reader = "body"
      <4> DEFINE body == sent[Len(out) + 1]
      <4>1. /\ Len(out) < Len(sent) /\ need = Len(body)
            /\ Stream = body \o tails[Len(out) + 2]
        BY <3>1, <3>7 DEF InStep
      <4>2. Len(out) + 1 \in 1..Len(sent) /\ Len(out) + 2 \in 1..(Len(sent) + 1)
        BY <3>2, <3>5, <4>1
      <4>3. body \in Seq(Byte) /\ tails[Len(out) + 2] \in Seq(Byte)
        BY <3>1, <4>2, ElementOfSeq, PacketIsSeq DEF Types, Suffixes
      <4>4. Stream' = body \o longer[Len(out) + 2]
        <5>1. (body \o tails[Len(out) + 2]) \o Frame(p) = body \o (tails[Len(out) + 2] \o Frame(p))
          BY <2>3, <4>3, Assoc
        <5>2. longer[Len(out) + 2] = tails[Len(out) + 2] \o Frame(p)
          BY <3>3, <4>2
        <5> QED
          BY <3>4, <4>1, <5>1, <5>2
      <4>5. Written'[Len(out) + 1] = body /\ Len(out) < Len(Written')
        BY <3>2, <3>5, <4>1, <4>2
      <4> QED
        BY <1>1, <3>3, <3>7, <4>1, <4>4, <4>5 DEF InStep, Suffixes
    <3> QED
      BY <3>6, <3>7
  <2> QED
    BY <2>4, <2>5, <2>6, <2>7
<1> QED
  BY <1>2, <1>3

\* What a read takes from the stream, and what it leaves.
LEMMA ReadTakes ==
  ASSUME IInv, NEW n \in 1..Len(wire), Read(n)
  PROVE  LET got == acc \o SubSeq(wire, 1, n)
             rest == SubSeq(wire, n + 1, Len(wire))
         IN  /\ got \in Seq(Byte) /\ Len(got) \in Nat /\ Len(got) <= need
             /\ rest \in Seq(Byte) /\ wire' = rest
             /\ Stream = got \o (rest \o pending)
<1> DEFINE piece == SubSeq(wire, 1, n)
           got == acc \o piece
           rest == SubSeq(wire, n + 1, Len(wire))
<1>1. /\ wire \in Seq(Byte) /\ acc \in Seq(Byte) /\ pending \in Seq(Byte) /\ need \in Nat
      /\ Len(wire) \in Nat /\ Len(acc) \in Nat /\ n \in 0..Len(wire) /\ n \in Nat
      /\ n <= need - Len(acc) /\ wire' = rest
  BY LenProperties DEF IInv, Types, Read, Consume
<1>2. piece \in Seq(Byte) /\ rest \in Seq(Byte) /\ Len(piece) = n /\ piece \o rest = wire
  BY <1>1, Cut
<1> HIDE DEF piece, rest
<1>3. got \in Seq(Byte) /\ Len(got) = Len(acc) + Len(piece)
  BY <1>1, <1>2, ConcatProperties, Zenon
<1>4. Len(got) \in Nat /\ Len(got) <= need
  BY <1>1, <1>2, <1>3
<1>5. rest \o pending \in Seq(Byte)
  BY <1>1, <1>2, ConcatProperties, Zenon
<1>6. (piece \o rest) \o pending = piece \o (rest \o pending)
  BY <1>1, <1>2, Assoc, ZenonT(60)
<1>7. got \o (rest \o pending) = acc \o (piece \o (rest \o pending))
  BY <1>1, <1>2, <1>5, Assoc, ZenonT(60)
<1>8. Stream = got \o (rest \o pending)
  BY <1>2, <1>6, <1>7 DEF Stream
<1> QED
  BY <1>1, <1>2, <1>3, <1>4, <1>8 DEF piece, rest

\* A read that does not complete what is read only moves bytes; a complete header
\* leads to the body of the packet it announces, or to an error; a complete body is
\* the next packet sent.
LEMMA ReadPreserves ==
  ASSUME IInv, NEW n \in 1..Len(wire), Read(n)
  PROVE  IInv'
<1> DEFINE got == acc \o SubSeq(wire, 1, n)
           rest == SubSeq(wire, n + 1, Len(wire))
<1>1. /\ got \in Seq(Byte) /\ Len(got) \in Nat /\ Len(got) <= need
      /\ rest \in Seq(Byte) /\ wire' = rest
      /\ Stream = got \o (rest \o pending)
  BY ReadTakes
<1>2. /\ UNCHANGED <<writer, pending, current, sent>> /\ reader \in {"header", "body"}
      /\ IF Len(got) < need THEN acc' = got /\ UNCHANGED <<reader, need, out>>
         ELSE /\ acc' = <<>>
              /\ IF reader = "header" THEN GotHeader(Length(got)) ELSE GotBody(got)
  BY DEF Read, Consume, writing
<1> HIDE DEF got, rest
<1> USE DEF IInv
<1>3. Written' = Written
  BY <1>2 DEF Written
<1>4. WriterState'
  BY <1>2 DEF WriterState, Frame, Header
<1>5. /\ need \in Nat /\ Len(out) \in Nat /\ Len(sent) \in Nat /\ Len(pending) \in Nat
      /\ rest \o pending \in Seq(Byte)
  <2>1. rest \o pending \in Seq(Byte)
    BY <1>1, ConcatProperties, Zenon DEF Types
  <2> QED
    BY <2>1, LenProperties DEF Types
<1>6. CASE Len(got) < need
  <2>1. acc' = got /\ UNCHANGED <<reader, need, out>>
    BY <1>2, <1>6
  <2>2. Stream' = Stream
    BY <1>1, <1>2, <2>1 DEF Stream
  <2>3. Types' /\ Delivered' /\ EndReached'
    BY <1>1, <1>2, <1>6, <2>1 DEF Types, Delivered, EndReached
  <2>4. Framed'
    BY <1>3, <2>1, <2>2, FramedSame
  <2> QED
    BY <1>4, <2>3, <2>4
<1>7. CASE ~(Len(got) < need)
  <2>1. Len(got) = need /\ acc' = <<>>
    BY <1>1, <1>2, <1>5, <1>7
  <2>2. Stream' = rest \o pending
    <3>1. <<>> \o (rest \o pending) = rest \o pending
      BY <1>5, ConcatEmptySeq
    <3> QED
      BY <1>1, <1>2, <2>1, <3>1 DEF Stream
  <2>3. PICK tails : Suffixes(tails, Written) /\ InStep(tails)
    BY <1>2 DEF Framed
  <2>4. /\ Written \in Seq(Packets) /\ Len(Written) \in Nat
        /\ Len(Written) = IF pending = <<>> THEN Len(sent) ELSE Len(sent) + 1
        /\ \A j \in 1..Len(Written) : Written[j] \in Packets /\ Len(Written[j]) <= MaxLen
        /\ \A j \in 1..Len(sent) : Written[j] = sent[j]
    BY WrittenType
  <2> DEFINE k == Len(out) + 1
  <2>5. /\ tails \in [1..(Len(Written) + 1) -> Seq(Byte)] /\ tails[Len(Written) + 1] = <<>>
        /\ \A j \in 1..Len(Written) : tails[j] = Frame(Written[j]) \o tails[j + 1]
    BY <2>3 DEF Suffixes
  <2>6. k \in 1..(Len(Written) + 1)
    BY <1>5, <2>4 DEF Delivered
  <2>7. CASE reader = "header"
    <3>1. need = 2 /\ Stream = tails[k] /\ GotHeader(Length(got))
      BY <1>2, <1>7, <2>3, <2>7 DEF InStep
    <3>2. k \in 1..Len(Written)
      <4> SUFFICES ASSUME k = Len(Written) + 1 PROVE FALSE
        BY <1>5, <2>4, <2>6
      <4>1. Stream = <<>>
        BY <2>5, <3>1
      <4>2. got = <<>>
        BY <1>1, <1>5, <4>1, ConcatSimplifications
      <4> QED
        BY <2>1, <3>1, <4>2, EmptySeq
    <3> DEFINE body == Written[k]
               header == Header(Len(body))
    <3>3. /\ body \in Seq(Byte) /\ Len(body) \in Nat \ {0} /\ Len(body) <= MaxLen
          /\ tails[k + 1] \in Seq(Byte)
      <4>1. k + 1 \in 1..(Len(Written) + 1)
        BY <1>5, <2>4, <3>2
      <4> QED
        BY <2>4, <2>5, <3>2, <4>1, PacketIsSeq
    <3>4. header \in Seq(Byte) /\ Len(header) = 2 /\ Length(header) = Len(body)
      BY <3>3, HeaderReadBack
    <3>5. tails[k] = (header \o body) \o tails[k + 1]
      BY <2>5, <3>2 DEF Frame
    <3> HIDE DEF body, header, k
    <3>6. body \o tails[k + 1] \in Seq(Byte)
      BY <3>3, ConcatProperties, Zenon
    <3>7. got \o (rest \o pending) = header \o (body \o tails[k + 1])
      BY <1>1, <3>1, <3>3, <3>4, <3>5, Assoc
    <3>8. got = header /\ rest \o pending = body \o tails[k + 1]
      <4>1. Len(got) = Len(header)
        BY <2>1, <3>1, <3>4
      <4> QED
        BY <1>1, <1>5, <3>4, <3>6, <3>7, <4>1, SameCut
    <3>9. /\ reader' = (IF Len(body) > MaxRecv THEN "failed" ELSE "body")
          /\ need' = Len(body) /\ out' = out
      BY <3>1, <3>3, <3>4, <3>8 DEF GotHeader
    <3>10. Types'
      BY <1>1, <1>2, <2>1, <3>3, <3>9, EmptySeq DEF Types
    <3>11. Delivered' /\ EndReached'
      BY <1>2, <3>9 DEF Delivered, EndReached
    <3>12. Framed'
      <4> SUFFICES ASSUME reader' = "body" PROVE Framed'
        BY <3>9 DEF Framed
      <4>1. /\ Len(out) < Len(Written) /\ need' = Len(Written[Len(out) + 1])
            /\ Stream' = Written[Len(out) + 1] \o tails[Len(out) + 2]
        <5>1. Len(out) + 2 = k + 1
          BY <1>5 DEF k
        <5> QED
          BY <1>5, <2>2, <2>4, <3>2, <3>8, <3>9, <5>1 DEF k, body
      <4>2. InStep(tails)'
        BY <1>3, <3>9, <4>1 DEF InStep
      <4> QED
        BY <1>3, <2>3, <2>5, <4>2 DEF Framed
    <3> QED
      BY <1>4, <3>10, <3>11, <3>12
  <2>8. CASE reader = "body"
    <3> DEFINE body == Written[k]
    <3>1. /\ Len(out) < Len(Written) /\ need = Len(body) /\ GotBody(got)
          /\ Stream = body \o tails[Len(out) + 2]
      BY <1>2, <1>7, <2>3, <2>8 DEF InStep
    <3>2. k \in 1..Len(Written) /\ k + 1 = Len(out) + 2 /\ k + 1 \in 1..(Len(Written) + 1)
      BY <1>5, <2>4, <3>1
    <3>3. /\ body \in Packets /\ body \in Seq(Byte) /\ Len(body) \in Nat \ {0}
          /\ tails[k + 1] \in Seq(Byte)
      BY <2>4, <2>5, <3>2, PacketIsSeq
    <3>4. got = body /\ rest \o pending = tails[k + 1]
      <4>1. Len(got) = Len(body) /\ got \o (rest \o pending) = body \o tails[k + 1]
        BY <1>1, <2>1, <3>1, <3>2
      <4> HIDE DEF body, k
      <4> QED
        BY <1>1, <1>5, <3>3, <4>1, SameCut
    <3>5. out' = Append(out, body) /\ reader' = "header" /\ need' = 2
      BY <3>1, <3>4 DEF GotBody
    <3>6. k <= Len(sent)
      <4> SUFFICES ASSUME ~(k <= Len(sent)) PROVE FALSE
        OBVIOUS
      <4>1. pending # <<>> /\ k = Len(Written)
        <5> HIDE DEF k
        <5>1. CASE pending = <<>>
          BY <1>5, <2>4, <3>2, <5>1
        <5>2. CASE pending # <<>>
          BY <1>5, <2>4, <3>2, <5>2
        <5> QED
          BY <5>1, <5>2
      <4>2. rest \o pending = <<>>
        BY <2>5, <3>4, <4>1
      <4> QED
        BY <1>1, <4>1, <4>2, ConcatEqualIffEmpty DEF Types
    <3>7. /\ out' \in Seq(Packets) /\ Len(out') = k
          /\ \A j \in 1..Len(out) : out'[j] = out[j]
          /\ out'[k] = body
      BY <3>3, <3>5, AppendProperties DEF Types
    <3>8. Types'
      BY <1>1, <1>2, <2>1, <3>5, <3>7, EmptySeq DEF Types
    <3>9. Delivered'
      <4>1. body = sent[k]
        BY <1>5, <2>4, <3>2, <3>6
      <4>2. \A j \in 1..k : j \in 1..Len(out) \/ j = k
        BY <1>5
      <4> QED
        BY <1>2, <3>6, <3>7, <4>1, <4>2 DEF Delivered
    <3>10. EndReached'
      BY <3>5 DEF EndReached
    <3>11. Framed'
      <4>1. Stream' = tails[Len(out') + 1]
        BY <2>2, <3>4, <3>7
      <4>2. InStep(tails)'
        BY <3>5, <4>1 DEF InStep
      <4> QED
        BY <1>3, <2>3, <2>5, <4>2 DEF Framed
    <3> QED
      BY <1>4, <3>8, <3>9, <3>10, <3>11
  <2> QED
    BY <1>2, <2>7, <2>8
<1> QED
  BY <1>6, <1>7

\* At a clean end nothing is left between the frames delivered and the end.
LEMMA ReadEofPreserves ==
  ASSUME IInv, ReadEof
  PROVE  IInv'
<1> USE DEF IInv
<1>1. /\ UNCHANGED <<writer, pending, current, sent, wire, acc, need, out>>
      /\ reader \in {"header", "body"} /\ writer = "stopped" /\ wire = <<>>
      /\ reader' = IF reader = "header" /\ acc = <<>> THEN "eof" ELSE "failed"
  BY DEF ReadEof, writing
<1>2. Types' /\ WriterState' /\ Delivered' /\ Framed'
  BY <1>1 DEF Types, WriterState, Delivered, Framed, Frame, Header
<1>3. EndReached'
  <2> SUFFICES ASSUME reader = "header", acc = <<>> PROVE EndReached'
    BY <1>1 DEF EndReached
  <2>1. PICK tails : Suffixes(tails, Written) /\ InStep(tails)
    BY DEF Framed
  <2>2. Stream = pending
    <3>1. wire \o pending = pending
      BY <1>1, ConcatEmptySeq DEF Types
    <3>2. <<>> \o pending = pending
      BY ConcatEmptySeq DEF Types
    <3> QED
      BY <3>1, <3>2 DEF Stream
  <2> DEFINE k == Len(out) + 1
  <2>3. pending = tails[k]
    BY <2>1, <2>2 DEF InStep
  <2>4. /\ tails \in [1..(Len(Written) + 1) -> Seq(Byte)] /\ tails[Len(Written) + 1] = <<>>
        /\ \A j \in 1..Len(Written) : tails[j] = Frame(Written[j]) \o tails[j + 1]
        /\ \A i, j \in 1..(Len(Written) + 1) : i < j => Len(tails[j]) < Len(tails[i])
    BY <2>1 DEF Suffixes
  <2>5. /\ Len(Written) \in Nat /\ Len(sent) \in Nat /\ Len(out) \in Nat /\ Len(out) <= Len(sent)
        /\ Len(Written) = (IF pending = <<>> THEN Len(sent) ELSE Len(sent) + 1)
        /\ pending # <<>> => Written[Len(sent) + 1] = current
    BY WrittenType, LenProperties DEF Types, Delivered
  <2>6. k \in 1..(Len(Written) + 1) /\ Len(tails[k]) \in Nat
    <3>1. k \in 1..(Len(Written) + 1)
      BY <2>5
    <3> QED
      BY <2>4, <3>1, LenProperties
  <2>7. Len(out) = Len(sent) => out = sent
    BY SeqEqual DEF Types, Delivered
  <2>8. CASE pending = <<>>
    <3>1. Len(tails[k]) = 0
      BY <2>3, <2>8, EmptySeq
    <3>2. k = Len(Written) + 1
      <4> SUFFICES ASSUME k < Len(Written) + 1 PROVE FALSE
        BY <2>5, <2>6
      <4>1. Len(Written) + 1 \in 1..(Len(Written) + 1)
        BY <2>5
      <4>2. Len(tails[Len(Written) + 1]) < Len(tails[k])
        BY <2>4, <2>6, <4>1
      <4> QED
        BY <2>4, <3>1, <4>2, EmptySeq
    <3>3. Len(out) = Len(sent)
      BY <2>5, <2>8, <3>2
    <3> QED
      BY <1>1, <2>7, <2>8, <3>3 DEF EndReached, CleanEndIsComplete
  <2>9. CASE pending # <<>>
    <3> DEFINE last == Len(sent) + 1
    <3>1. last \in 1..(Len(Written) + 1) /\ last \in 1..Len(Written) /\ last + 1 = Len(Written) + 1
      BY <2>5, <2>9
    <3>2. /\ current \in Packets /\ Len(current) <= MaxLen
          /\ Len(pending) <= Len(Frame(current))
      BY <2>9 DEF WriterState
    <3>3. Frame(current) \in Seq(Byte) /\ Len(Frame(current)) \in Nat
      BY <3>2, FrameIsSeq, LenProperties
    <3>4. tails[last] = Frame(current)
      <4>1. tails[last] = Frame(current) \o <<>>
        BY <2>4, <2>5, <2>9, <3>1
      <4> QED
        BY <3>3, <4>1, ConcatEmptySeq
    <3>5. k = last
      <4> SUFFICES ASSUME k < last PROVE FALSE
        BY <2>5
      <4>1. Len(tails[last]) < Len(tails[k])
        BY <2>4, <2>6, <3>1
      <4> QED
        BY <2>3, <2>6, <3>2, <3>3, <3>4, <4>1
    <3>6. pending = Frame(current) /\ Len(out) = Len(sent)
      BY <2>3, <2>5, <3>4, <3>5
    <3> QED
      BY <1>1, <2>7, <3>6 DEF EndReached, CleanEndIsComplete, Frame, Header
  <2> QED
    BY <2>8, <2>9
<1> QED
  BY <1>2, <1>3

\* Either side stops where it is.
LEMMA StopPreserves ==
  ASSUME IInv, StopWriting \/ ReaderFails
  PROVE  IInv'
<1> USE DEF IInv
<1>1. CASE StopWriting
  <2>1. writer' = "stopped" /\ UNCHANGED <<pending, current, sent, wire, reader, acc, need, out>>
    BY <1>1 DEF StopWriting, reading
  <2>2. Types' /\ WriterState' /\ Delivered'
    BY <2>1 DEF Types, WriterState, Delivered, Frame, Header
  <2>3. EndReached'
    BY <2>1 DEF EndReached, CleanEndIsComplete, Header
  <2>4. Framed'
    BY <2>1, FramedSame DEF Stream, Written
  <2> QED
    BY <2>2, <2>3, <2>4
<1>2. CASE ReaderFails
  <2>1. reader' = "failed" /\ UNCHANGED <<writer, pending, current, sent, wire, acc, need, out>>
    BY <1>2 DEF ReaderFails, writing
  <2> QED
    BY <2>1 DEF Types, WriterState, Delivered, EndReached, Framed, Frame, Header
<1> QED
  BY <1>1, <1>2

LEMMA InitIInv == Init => IInv
<1> SUFFICES ASSUME Init PROVE IInv
  OBVIOUS
<1> USE DEF Init
<1>1. Types /\ WriterState /\ Delivered /\ EndReached
  BY EmptySeq DEF Types, WriterState, Delivered, EndReached
<1>2. Framed
  <2> DEFINE tails == [j \in 1..1 |-> <<>>]
  <2>1. Written = <<>> /\ Len(Written) = 0
    BY DEF Written
  <2>2. Stream = <<>>
    <3>1. <<>> \o <<>> = <<>>
      BY EmptySeq, ConcatEmptySeq
    <3> QED
      BY <3>1 DEF Stream
  <2>3. tails \in [1..(Len(Written) + 1) -> Seq(Byte)] /\ tails[1] = <<>>
    BY <2>1, EmptySeq
  <2>4. Suffixes(tails, Written)
    BY <2>1, <2>3 DEF Suffixes
  <2>5. InStep(tails)
    BY <2>2, <2>3 DEF InStep
  <2> HIDE DEF tails
  <2> QED
    BY <2>3, <2>4, <2>5 DEF Framed
<1> QED
  BY <1>1, <1>2 DEF IInv

\* One step per action of Next.
LEMMA NextIInv == IInv /\ [Next]_vars => IInv'
<1> SUFFICES ASSUME IInv, [Next]_vars PROVE IInv'
  OBVIOUS
<1>1. CASE UNCHANGED vars
  <2>1. Types' /\ WriterState' /\ Delivered' /\ EndReached'
    BY <1>1 DEF vars, IInv, Types, WriterState, Delivered, EndReached, CleanEndIsComplete, Frame, Header
  <2>2. Framed'
    BY <1>1, FramedSame DEF vars, IInv, Stream, Written
  <2> QED
    BY <2>1, <2>2 DEF IInv
<1>2. CASE Next
  BY <1>2, WritePacketPreserves, WriteSomePreserves, ReadPreserves, ReadEofPreserves,
     StopPreserves DEF Next
<1> QED
  BY <1>1, <1>2

\* The inductive invariant holds in every behaviour of the stream.
THEOREM Inductive == Spec => []IInv
BY InitIInv, NextIInv, PTL DEF Spec

\* Bytes, packets and what is missing of the current read keep their types.
THEOREM TypeCorrect == Spec => []TypeOK
<1>1. ASSUME IInv PROVE TypeOK
  <2> USE <1>1 DEF IInv, Types
  <2>1. /\ \A i \in 1..Len(pending) : pending[i] \in Byte
        /\ \A i \in 1..Len(wire) : wire[i] \in Byte
        /\ \A i \in 1..Len(acc) : acc[i] \in Byte
    BY ElementOfSeq
  <2>2. /\ \A i \in 1..Len(sent) : sent[i] \in Packets
        /\ \A i \in 1..Len(out) : out[i] \in Packets
    BY ElementOfSeq
  <2> QED
    BY <2>1, <2>2 DEF TypeOK
<1> QED
  BY <1>1, Inductive, PTL

\* For every base of the bytes (256 in the code), every size of the two buffers and
\* every way in which the stream is cut into pieces, the packets delivered are the
\* packets sent, byte for byte and in order (quic.rs:385-436, :457-472).
THEOREM Intact == Spec => []PacketsIntact
<1>1. ASSUME IInv PROVE PacketsIntact
  <2> DEFINE first == SubSeq(sent, 1, Len(out))
  <2>1. /\ sent \in Seq(Packets) /\ out \in Seq(Packets) /\ Len(out) <= Len(sent)
        /\ \A j \in 1..Len(out) : out[j] = sent[j]
    BY <1>1 DEF IInv, Types, Delivered
  <2>2. Len(out) \in Nat /\ Len(sent) \in Nat
    BY <2>1, LenProperties
  <2>3. Len(out) \in 0..Len(sent)
    BY <2>1, <2>2
  <2>4. first \in Seq(Packets) /\ Len(first) = Len(out)
    BY <2>1, <2>3, Cut
  <2>5. \A j \in 1..Len(out) : first[j] = sent[j]
    <3>1. \A i \in 1..Len(out) : sent[i] \in Packets
      BY <2>1, <2>2, ElementOfSeq
    <3>2. \A i \in 1..(Len(out) - 1 + 1) : first[i] = sent[1 + i - 1]
      BY <2>2, <3>1, SubSeqProperties
    <3> QED
      BY <2>2, <3>2
  <2>6. out = first
    BY <2>1, <2>4, <2>5, SeqEqual
  <2> QED
    BY <2>1, <2>6 DEF PacketsIntact
<1> QED
  BY <1>1, Inductive, PTL

\* A stream that ends inside a frame is never taken for one that was read to its
\* end (quic.rs:417-419, :433, :466-467).
THEOREM CleanEnd == Spec => []CleanEndIsComplete
<1>1. IInv => CleanEndIsComplete
  BY DEF IInv, EndReached, CleanEndIsComplete
<1> QED
  BY <1>1, Inductive, PTL

-----------------------------------------------------------------------------
(* What the delivery of every packet rests on.                              *)

\* While a packet that was written completely is not delivered, what is missing of the
\* header or body being read is on the stream already.
NoPacketStranded ==
  reader \in {"header", "body"} /\ Len(out) < Len(sent) => need - Len(acc) <= Len(wire)

\* No complete packet waits for bytes of a later one, wherever the writer stands in
\* its next frame: a read in progress can be finished with what was written, for every
\* base and every size of the buffers (quic.rs:362-383, :457-472).
THEOREM NeverStarved == Spec => []NoPacketStranded
<1>1. ASSUME IInv PROVE NoPacketStranded
  <2> SUFFICES ASSUME reader \in {"header", "body"}, Len(out) < Len(sent)
               PROVE  need - Len(acc) <= Len(wire)
    BY DEF NoPacketStranded
  <2> DEFINE k == Len(out) + 1
             w == Len(Written)
  <2>1. PICK tails \in [1..(w + 1) -> Seq(Byte)] : Suffixes(tails, Written) /\ InStep(tails)
    BY <1>1 DEF IInv, Framed
  <2>2. /\ Written \in Seq(Packets) /\ w \in Nat /\ need \in Nat
        /\ k \in 1..Len(sent) /\ Len(sent) \in Nat /\ Len(out) \in Nat
        /\ Len(acc) \in Nat /\ Len(wire) \in Nat /\ Len(pending) \in Nat
        /\ pending = <<>> => w = Len(sent) /\ Len(pending) = 0
        /\ pending # <<>> => w = Len(sent) + 1 /\ Written[w] = current
    BY <1>1, WrittenType, StreamType, LenProperties DEF IInv, Types
  <2>3. k \in 1..w /\ Written[k] \in Packets /\ Written[k] = sent[k] /\ Len(Written[k]) <= MaxLen
    BY <1>1, <2>2, WrittenType DEF IInv
  <2>4. tails[k + 1] \in Seq(Byte) /\ Len(tails[k + 1]) \in Nat
    BY <2>1, <2>2, <2>3, LenProperties
  <2>5. Len(tails[k + 1]) >= Len(pending)
    <3>1. CASE pending = <<>>
      BY <2>2, <2>4, <3>1
    <3>2. CASE pending # <<>>
      <4>1. current \in Packets /\ Len(current) <= MaxLen /\ Len(pending) <= Len(Frame(current))
        BY <1>1, <3>2 DEF IInv, WriterState
      <4>2. Frame(current) \in Seq(Byte) /\ Len(Frame(current)) \in Nat
        BY <4>1, FrameIsSeq, LenProperties
      <4>3. tails[w] = Frame(current) \o tails[w + 1] /\ tails[w + 1] = <<>>
        <5>1. w \in 1..w /\ Written[w] = current
          BY <2>2, <2>3, <3>2
        <5> QED
          BY <2>1, <5>1 DEF Suffixes
      <4>4. Len(tails[w]) = Len(Frame(current))
        BY <4>2, <4>3
      <4>5. k + 1 \in 1..w
        BY <2>2, <3>2
      <4>6. tails[w] \in Seq(Byte) /\ Len(tails[w]) \in Nat
        BY <2>1, <2>2, <2>3, LenProperties
      <4>7. Len(tails[w]) <= Len(tails[k + 1])
        <5>1. CASE k + 1 = w
          BY <2>4, <5>1
        <5>2. CASE k + 1 < w
          BY <2>1, <2>2, <2>4, <4>5, <4>6, <5>2 DEF Suffixes
        <5> QED
          BY <2>2, <4>5, <5>1, <5>2
      <4> QED
        BY <2>2, <2>4, <4>1, <4>2, <4>4, <4>6, <4>7
    <3> QED
      BY <3>1, <3>2
  <2>6. Len(Stream) = Len(acc) + Len(wire) + Len(pending)
    BY <1>1, <2>2, StreamType DEF IInv
  <2>7. Written[k] \in Seq(Byte) /\ Len(Written[k]) \in Nat
    BY <2>3, PacketIsSeq
  <2>8. ASSUME NEW m \in Nat, need <= m, Len(Stream) = m + Len(tails[k + 1])
        PROVE  need - Len(acc) <= Len(wire)
    <3>1. \A a, b, p, t, n \in Nat : n <= m /\ a + b + p = m + t /\ t >= p => n - a <= b
      OBVIOUS
    <3> HIDE DEF k
    <3> QED
      BY <2>2, <2>4, <2>5, <2>6, <2>8, <3>1
  <2>9. CASE reader = "header"
    <3>1. need = 2 /\ Stream = Frame(Written[k]) \o tails[k + 1]
      BY <2>1, <2>3, <2>9 DEF InStep, Suffixes
    <3>2. Frame(Written[k]) \in Seq(Byte) /\ Len(Frame(Written[k])) = 2 + Len(Written[k])
      BY <2>3, FrameIsSeq
    <3>3. Len(Stream) = Len(Frame(Written[k])) + Len(tails[k + 1])
      BY <2>4, <3>1, <3>2, ConcatProperties
    <3>4. Len(Frame(Written[k])) \in Nat /\ need <= Len(Frame(Written[k]))
      BY <2>7, <3>1, <3>2
    <3> QED
      BY <2>8, <3>3, <3>4
  <2>10. CASE reader = "body"
    <3>1. need = Len(Written[k]) /\ Stream = Written[k] \o tails[k + 1]
      <4>1. k + 1 = Len(out) + 2
        BY <2>2
      <4> QED
        BY <2>1, <2>10, <4>1 DEF InStep
    <3>2. Len(Stream) = Len(Written[k]) + Len(tails[k + 1])
      BY <2>4, <2>7, <3>1, ConcatProperties
    <3>3. need <= Len(Written[k])
      BY <2>2, <3>1
    <3> QED
      BY <2>7, <2>8, <3>2, <3>3
  <2> QED
    BY <2>9, <2>10
<1> QED
  BY <1>1, Inductive, PTL
=============================================================================
