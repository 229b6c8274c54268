------------------------------ MODULE Framing -------------------------------
(***************************************************************************)
(* Packets over a QUIC stream: write_stream_packet puts a two-byte big-     *)
(* endian length before each packet, read_stream_packet takes the stream   *)
(* apart again.  Used by the stream transport's pumps and by the           *)
(* stream-packet benchmarks.                                               *)
(*                                                                         *)
(* External (quinn): a stream is a reliable sequence of bytes that the     *)
(* reader gets in pieces of any size.  A sender that stops, even in the    *)
(* middle of a packet, drops its stream, which finishes it.                *)
(*                                                                         *)
(* A byte is a digit of base Base, 256 in the code.  Packets are made of   *)
(* the same digits as headers, so a reader that loses its place goes wrong *)
(* quietly.                                                                *)
(***************************************************************************)
EXTENDS Naturals, Sequences

CONSTANTS Base,         \* values of a byte
          MaxSend,      \* longest packet the sender's TUN buffer holds
          MaxRecv,      \* longest packet the receiver's buffer holds
          MaxPackets    \* bound: packets sent

ASSUME FramingAssumption ==
  /\ Base \in Nat \ {0, 1} /\ MaxSend \in Nat \ {0} /\ MaxRecv \in Nat \ {0}
  /\ MaxPackets \in Nat

Byte == 0..(Base - 1)
MaxLen == Base * Base - 1                      \* u16::MAX
Packets == UNION {[1..n -> Byte] : n \in 1..MaxSend}

VARIABLES writer,       \* the sending pump
          pending,      \* bytes of its current frame that are not on the stream
          current,      \* the packet it is writing
          sent,         \* packets written completely
          wire,         \* bytes on their way
          reader,       \* what the receiving pump reads: a header or a body
          acc,          \* the part of it that has arrived
          need,         \* its length
          out           \* packets handed to the receiver's TUN

vars == <<writer, pending, current, sent, wire, reader, acc, need, out>>
writing == <<writer, pending, current, sent>>
reading == <<reader, acc, need, out>>

Init ==
  /\ writer = "idle" /\ pending = <<>> /\ current = <<>> /\ sent = <<>>
  /\ wire = <<>>
  /\ reader = "header" /\ acc = <<>> /\ need = 2 /\ out = <<>>

\* A mistake: the length in the host's byte order.
HeaderLittleEndian(len) == <<len % Base, len \div Base>>

\* A mistake: the length does not fit the byte it is put in.
HeaderOneByte(len) == <<0, len>>

\* (packet_len as u16).to_be_bytes()
Header(len) == <<len \div Base, len % Base>>

\* u16::from_be_bytes(header)
Length(h) == h[1] * Base + h[2]

\* write_stream_packet is called with a packet from the TUN; an empty read is
\* skipped by the pump.
WritePacket(p) ==
  /\ writer = "idle" /\ Len(sent) < MaxPackets
  /\ IF Len(p) > MaxLen
       THEN writer' = "stopped" /\ UNCHANGED <<pending, current>>
       ELSE writer' = "writing" /\ pending' = Header(Len(p)) \o p /\ current' = p
  /\ UNCHANGED <<sent, wire, reading>>

\* write_all_chunks makes progress as flow control allows.
WriteSome(k) ==
  /\ writer = "writing"
  /\ wire' = wire \o SubSeq(pending, 1, k)
  /\ pending' = SubSeq(pending, k + 1, Len(pending))
  /\ writer' = IF k = Len(pending) THEN "idle" ELSE "writing"
  /\ sent' = IF k = Len(pending) THEN Append(sent, current) ELSE sent
  /\ UNCHANGED <<current, reading>>

\* The pump's future is dropped, in the middle of a packet perhaps.
StopWriting ==
  /\ writer \in {"idle", "writing"}
  /\ writer' = "stopped"
  /\ UNCHANGED <<pending, current, sent, wire, reading>>

\* A complete header: an empty frame is skipped, one that is too long is an
\* error, otherwise the body follows.
GotHeader(len) ==
  /\ reader' = IF len = 0 THEN "header" ELSE IF len > MaxRecv THEN "failed" ELSE "body"
  /\ need' = IF len = 0 THEN 2 ELSE len
  /\ UNCHANGED out

\* A complete body goes to the TUN.
GotBody(p) ==
  /\ out' = Append(out, p)
  /\ reader' = "header"
  /\ need' = 2

\* n more bytes of the header or body; a part of it waits for the rest.
Consume(n) ==
  /\ wire' = SubSeq(wire, n + 1, Len(wire))
  /\ LET got == acc \o SubSeq(wire, 1, n)
     IN  IF Len(got) < need
           THEN acc' = got /\ UNCHANGED <<reader, need, out>>
           ELSE /\ acc' = <<>>
                /\ IF reader = "header" THEN GotHeader(Length(got)) ELSE GotBody(got)
  /\ UNCHANGED writing

\* A mistake: a read waits until there is more than it needs.
ReadWaitsForMore(n) ==
  /\ reader \in {"header", "body"}
  /\ n <= need - Len(acc) /\ n < Len(wire)
  /\ Consume(n)

\* One read of read_stream_exact_or_eof returns n bytes, no more than are missing.
Read(n) ==
  /\ reader \in {"header", "body"}
  /\ n <= need - Len(acc)
  /\ Consume(n)

\* A mistake: the end of the stream in a body ends the session quietly.
ReadEofQuiet ==
  /\ reader \in {"header", "body"} /\ writer = "stopped" /\ wire = <<>>
  /\ reader' = "eof"
  /\ UNCHANGED <<writing, wire, acc, need, out>>

\* The end of the stream: clean between frames, an error inside one.
ReadEof ==
  /\ reader \in {"header", "body"} /\ writer = "stopped" /\ wire = <<>>
  /\ reader' = IF reader = "header" /\ acc = <<>> THEN "eof" ELSE "failed"
  /\ UNCHANGED <<writing, wire, acc, need, out>>

\* External: the connection is lost, or the TUN takes only part of a packet.
ReaderFails ==
  /\ reader \in {"header", "body"}
  /\ reader' = "failed"
  /\ UNCHANGED <<writing, wire, acc, need, out>>

Next ==
  \/ \E p \in Packets : WritePacket(p)
  \/ \E k \in 1..Len(pending) : WriteSome(k)
  \/ StopWriting
  \/ \E n \in 1..Len(wire) : Read(n)
  \/ ReadEof
  \/ ReaderFails

\* Both tasks are polled, and QUIC delivers what was written.
Fairness ==
  /\ WF_vars(\E k \in 1..Len(pending) : WriteSome(k))
  /\ WF_vars(\E n \in 1..Len(wire) : Read(n))
  /\ WF_vars(ReadEof)

Spec == Init /\ [][Next]_vars /\ Fairness

-----------------------------------------------------------------------------
TypeOK ==
  /\ writer \in {"idle", "writing", "stopped"}
  /\ \A i \in 1..Len(pending) : pending[i] \in Byte
  /\ current = <<>> \/ current \in Packets
  /\ \A i \in 1..Len(sent) : sent[i] \in Packets
  /\ \A i \in 1..Len(wire) : wire[i] \in Byte
  /\ reader \in {"header", "body", "eof", "failed"}
  /\ \A i \in 1..Len(acc) : acc[i] \in Byte
  /\ Len(acc) < need
  /\ \A i \in 1..Len(out) : out[i] \in Packets

\* Whatever the pieces the stream arrives in, and wherever the sender stops,
\* the packets written to the TUN are exactly the packets sent, byte for byte,
\* in order, from the first on: none cut, merged, repeated or made up
\* (quic.rs:385-436, :457-472).
PacketsIntact == Len(out) <= Len(sent) /\ out = SubSeq(sent, 1, Len(out))

\* The reader reports a clean end of the stream only when it has delivered every
\* packet that was written and no part of another is on the stream: a packet cut
\* off by the sender is an error instead (quic.rs:417-419, :433, :466-467).
CleanEndIsComplete ==
  reader = "eof" => out = sent /\ (pending = <<>> \/ pending = Header(Len(current)) \o current)

\* A reader that does not fail hands over every packet, whatever follows on the
\* stream: no complete packet waits for more data to come (quic.rs:362-383).
EveryPacketArrives == \A i \in 1..MaxPackets : (Len(sent) >= i) ~> (Len(out) >= i \/ reader = "failed")
=============================================================================
