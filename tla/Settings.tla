------------------------------ MODULE Settings ------------------------------
(***************************************************************************)
(* What the two programs accept before they talk to each other - the       *)
(* configuration files, the token file, the client's command line - and    *)
(* the authentication request the client makes of it and the server reads. *)
(*                                                                         *)
(* A line of a request is the sequence of its words; numbers are words.    *)
(* Names and addresses are left out, except that some must not be blank.   *)
(***************************************************************************)
EXTENDS Integers, Sequences

MaxMtu == 1400
MinBuffer == 64 * 1024
MaxAuthBytes == 1024
MinTokenBytes == 32

Directions == {"upload", "download", "stream-upload", "stream-download",
               "stream-packet-upload", "stream-packet-download"}
Datagrams == {"upload", "download"}
NameBytes == [d \in Directions |->
  CASE d = "upload" -> 6 [] d = "download" -> 8 [] d = "stream-upload" -> 13
    [] d = "stream-download" -> 15 [] d = "stream-packet-upload" -> 20 [] OTHER -> 22]

-----------------------------------------------------------------------------
(* Configuration: a record of the fields that are checked.  `named` says   *)
(* that the names the program needs are not blank.                         *)

ValidateCommon(c) ==
  /\ 576 <= c.mtu /\ c.mtu <= MaxMtu
  /\ c.prefix <= 32
  /\ MinBuffer <= c.datagramBuffer

ValidateUdpSocketBuffers(c) ==
  /\ c.recvBuffer = 0 \/ MinBuffer <= c.recvBuffer
  /\ c.sendBuffer = 0 \/ MinBuffer <= c.sendBuffer

ValidateEgressTarget(c) == c.egress <= 10000
ValidateDatagramBacklog(c) == c.backlog <= 100000

\* ServerConfig::validate and ClientConfig::validate.
Validate(c) ==
  /\ ValidateCommon(c) /\ ValidateUdpSocketBuffers(c)
  /\ ValidateEgressTarget(c) /\ ValidateDatagramBacklog(c)
  /\ c.named

\* What a file leaves out.
ServerDefaults ==
  [mtu |-> 1300, prefix |-> 24, datagramBuffer |-> 4 * 1024 * 1024, recvBuffer |-> 0,
   sendBuffer |-> 0, egress |-> 36, backlog |-> 64, named |-> TRUE]
ClientDefaults == [ServerDefaults EXCEPT !.egress = 13]

\* A token file after `trim`: its lines and its size.
LoadToken(file) == file.bytes >= MinTokenBytes

\* What litevpn-keygen writes for --token-bytes n: one line of hexadecimal digits.
Generated(word, n) == [lines |-> << <<word>> >>, bytes |-> 2 * n]

-----------------------------------------------------------------------------
(* The client's command line. *)

ConnectRetries(o) == o.retries \in 1..100
ConnectRetryDelay(o) == o.delay <= 60000
BenchTarget(o) == o.target <= 10000
BenchRuns(o) == o.bench = "none" \/ o.runs \in 1..100

\* Everything main checks before it connects.
ArgsAccepted(o) ==
  BenchTarget(o) /\ ConnectRetries(o) /\ ConnectRetryDelay(o) /\ BenchRuns(o)

\* The largest payload, given what a datagram can carry now.
PayloadLimit(o, capacity, mtu) ==
  IF o.bench \in Datagrams /\ capacity < mtu THEN capacity ELSE mtu

\* bench_payload_bytes: whether there is a payload, and which.
PayloadAccepted(o, capacity, mtu) ==
  /\ 64 <= PayloadLimit(o, capacity, mtu)
  /\ o.payload = 0 \/ (64 <= o.payload /\ o.payload <= PayloadLimit(o, capacity, mtu))

BenchPayload(o, capacity, mtu) ==
  IF o.payload = 0 THEN PayloadLimit(o, capacity, mtu) ELSE o.payload

-----------------------------------------------------------------------------
(* The request. *)

Vpn == [kind |-> "vpn", direction |-> "none", duration |-> 0, payload |-> 0, target |-> 0]
BadRequest == [Vpn EXCEPT !.kind = "bad"]

Bench(o, payload) ==
  [kind |-> "bench", direction |-> o.bench, duration |-> o.duration,
   payload |-> payload, target |-> o.target]

\* The mode the client asks for; a probe asks for the tunnel.
AuthMode(o, payload) == IF o.bench = "none" THEN Vpn ELSE Bench(o, payload)

ModeLine(mode) == <<"bench", mode.direction, mode.duration, mode.payload, mode.target>>

\* Decimal digits of n.
Digits(n) == CHOOSE d \in 1..20 : n < 10^d /\ \A e \in 1..(d - 1) : 10^e <= n

ModeBytes(mode) ==
  6 + NameBytes[mode.direction] + 1 + Digits(mode.duration) + 1 + Digits(mode.payload)
    + 1 + Digits(mode.target) + 1

\* client_authenticate_with_mode: magic, token, and a line for a benchmark.
Request(token, mode) ==
  IF mode.kind = "vpn"
    THEN [lines |-> token.lines, bytes |-> 6 + token.bytes + 1]
    ELSE [lines |-> Append(token.lines, ModeLine(mode)),
          bytes |-> 6 + token.bytes + 1 + ModeBytes(mode)]

\* A mistake: the payload may not be as large as the MTU may be.
ParseModeTight(line) ==
  IF /\ Len(line) \in {4, 5}
     /\ line[1] = "bench" /\ line[2] \in Directions
     /\ line[3] # 0 /\ 64 <= line[4] /\ line[4] < 1400
    THEN [kind |-> "bench", direction |-> line[2], duration |-> line[3], payload |-> line[4],
          target |-> IF Len(line) = 5 THEN line[5] ELSE 0]
    ELSE BadRequest

\* parse_mode: the target may be left out, and 0 stands for none.
ParseMode(line) ==
  IF /\ Len(line) \in {4, 5}
     /\ line[1] = "bench" /\ line[2] \in Directions
     /\ line[3] # 0 /\ 64 <= line[4] /\ line[4] <= 1452
    THEN [kind |-> "bench", direction |-> line[2], duration |-> line[3], payload |-> line[4],
          target |-> IF Len(line) = 5 THEN line[5] ELSE 0]
    ELSE BadRequest

\* parse_request, on what read_to_end accepted.
ParseRequest(request) ==
  IF request.bytes > MaxAuthBytes THEN BadRequest
  ELSE CASE Len(request.lines) = 1 -> Vpn
         [] Len(request.lines) = 2 -> ParseMode(request.lines[2])
         [] OTHER -> BadRequest

\* A mistake: the token is read and not compared.
AnyToken(request, expected) == Len(request.lines) >= 1

\* The request's first line is compared with the whole expected token.
TokenMatches(request, expected) == expected.lines = <<request.lines[1]>>

\* ensure_datagram_capacity; a connection without a limit counts as one that can
\* carry the MTU.
EnsureDatagramCapacity(capacity, mtu) == capacity >= mtu
=============================================================================
