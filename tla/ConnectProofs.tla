--------------------------- MODULE ConnectProofs ----------------------------
(***************************************************************************)
(* Proofs about Connect, for any number of client processes and             *)
(* connections, any starts and any capacity of the path.                    *)
(***************************************************************************)
EXTENDS Connect, TLAPS

-----------------------------------------------------------------------------
(* The inductive invariant.                                                 *)

\* The connections of a process are dialed in order, and the server has a task
\* only for what was dialed.
DialedInOrder ==
  \A t \in Conns :
    /\ end[t] # "none" <=> t[2] <= dialed[Owner(t)]
    /\ pc[t] # "idle" \/ t \in sent => end[t] # "none"

\* Only a process whose start was accepted gets to dial, and it has dialed the
\* connection it works on.
StartChecked ==
  \A c \in Clients :
    /\ cpc[c] = "off" => dialed[c] = 0 /\ run[c] = 1 /\ attempt[c] = 1
    /\ cpc[c] \in Live \/ dialed[c] > 0 => Accepted(how[c])
    /\ cpc[c] \in Live \ {"dial"} => dialed[c] > 0
    /\ cpc[c] = "bench" => Args(c).bench # "none"

\* What the process asks for is what its arguments say, with a payload that the
\* server's limits allow.
ModeMeant(c) ==
  IF Args(c).bench = "none" THEN mode[c] = Vpn
  ELSE \E p \in 64..MaxMtu : mode[c] = Bench(Args(c), p)

ModeSettled ==
  \A c \in Clients :
    /\ mode[c] = BadRequest \/ ModeMeant(c)
    /\ run[c] > 1 \/ cpc[c] \in {"await", "up", "hold", "bench"} => ModeMeant(c)
    /\ \A t \in sent : Owner(t) = c => ModeMeant(c)

\* Once it has asked for the tunnel a process never dials again.
AskedOnce ==
  \A t \in sent : Args(Owner(t)).bench = "none" =>
    t = Cur(Owner(t)) /\ cpc[Owner(t)] \notin {"off", "dial", "connect", "auth"}

\* What the server has admitted has asked for the tunnel and shown the token.
AdmittedAsked ==
  \A t \in Conns : Admitted(t) =>
    /\ t \in sent
    /\ how[Owner(t)].token = ServerToken /\ Args(Owner(t)).bench = "none"

\* From fetch_add to the slot a task has an id that is not None's.
LockHasId == \A t \in Conns : pc[t] = "lock" => clientId[t] # 0

Numbers ==
  /\ dialed \in [Clients -> Nat] /\ attempt \in [Clients -> Nat \ {0}]
  /\ run \in [Clients -> Nat \ {0}] /\ DOMAIN mode = Clients

IInv ==
  /\ TypeOK
  /\ Numbers
  /\ LockHasId
  /\ DialedInOrder
  /\ StartChecked
  /\ ModeSettled
  /\ AskedOnce
  /\ AdmittedAsked

-----------------------------------------------------------------------------
(* Connections.                                                             *)

\* A connection is its process and its number.
LEMMA ConnParts ==
  ASSUME NEW t \in Conns
  PROVE  /\ Owner(t) \in Clients /\ t[2] \in 1..MaxConns[Owner(t)]
         /\ t = <<Owner(t), t[2]>>
<1>1. PICK c \in Clients : t \in {c} \X (1..MaxConns[c])
  BY DEF Conns
<1> QED
  BY <1>1 DEF Owner

LEMMA ConnMade ==
  ASSUME NEW c \in Clients, NEW n \in 1..MaxConns[c]
  PROVE  <<c, n>> \in Conns /\ Owner(<<c, n>>) = c /\ <<c, n>>[2] = n
BY DEF Conns, Owner

\* The connection a process works on is one of its own.
LEMMA CurMade ==
  ASSUME IInv, NEW c \in Clients, dialed[c] > 0
  PROVE  Cur(c) \in Conns /\ Owner(Cur(c)) = c /\ Cur(c)[2] = dialed[c]
BY ConnMade, MaxConnsAssumption DEF IInv, TypeOK, Numbers, Cur

-----------------------------------------------------------------------------
(* Requests: what the server reads is what the client meant.               *)

LEMMA ParseCases ==
  ASSUME NEW request
  PROVE  /\ request.bytes > MaxAuthBytes => ParseRequest(request) = BadRequest
         /\ ~(request.bytes > MaxAuthBytes) /\ Len(request.lines) = 1
              => ParseRequest(request) = Vpn
         /\ ~(request.bytes > MaxAuthBytes) /\ Len(request.lines) = 2
              => ParseRequest(request) = ParseMode(request.lines[2])
         /\ ~(request.bytes > MaxAuthBytes) /\ Len(request.lines) \notin {1, 2}
              => ParseRequest(request) = BadRequest
BY DEF ParseRequest

\* The line of a benchmark is read back as it was written, unless it has no duration.
LEMMA ModeReadBack ==
  ASSUME NEW o, o.bench \in Directions, o.duration \in Nat, NEW p \in 64..MaxMtu
  PROVE  ParseMode(ModeLine(Bench(o, p)))
           = IF o.duration = 0 THEN BadRequest ELSE Bench(o, p)
BY DEF ParseMode, ModeLine, Bench, MaxMtu

\* A process's request is understood exactly when it has none of the defects.
LEMMA UnderstoodUnlessDefective ==
  ASSUME IInv, NEW c \in Clients, ModeMeant(c)
  PROVE  ParseRequest(Request(how[c].token, mode[c])) = mode[c] <=> ~Defective(c)
<1> DEFINE token == how[c].token
           request == Request(token, mode[c])
           words == {token.lines[i] : i \in DOMAIN token.lines}
<1>1. /\ token.lines # <<>> /\ token.lines \in Seq(words)
      /\ Args(c).bench \in Directions \cup {"none"} /\ Args(c).duration \in Nat
  <2>1. how \in Scenarios
    BY DEF IInv, TypeOK
  <2>2. "duration" \in {"retries", "delay", "target", "runs", "duration", "payload"}
    OBVIOUS
  <2>3. Args(c)["duration"] \in Nat
    BY <2>1, <2>2, ScenariosAssumption DEF Args
  <2> QED
    BY <2>1, <2>3, ScenariosAssumption DEF Args
<1>2. Len(token.lines) \in Nat /\ (Len(token.lines) = 1 \/ Len(token.lines) > 1)
  <2>1. Len(token.lines) \in Nat /\ Len(token.lines) # 0
    BY <1>1
  <2>2. \A n \in Nat : n # 0 => n = 1 \/ n > 1
    OBVIOUS
  <2> QED
    BY <2>1, <2>2
<1>3. CASE Args(c).bench = "none"
  <2>1. mode[c] = Vpn /\ request.lines = token.lines
    BY <1>3 DEF ModeMeant, Request, Vpn
  <2>2. Defective(c) <=> Len(token.lines) > 1 \/ request.bytes > MaxAuthBytes
    BY <2>1 DEF Defective, Vpn
  <2>3. CASE request.bytes > MaxAuthBytes
    BY <2>1, <2>2, <2>3, ParseCases DEF Vpn, BadRequest
  <2>4. CASE ~(request.bytes > MaxAuthBytes) /\ Len(token.lines) = 1
    BY <2>1, <2>2, <2>4, ParseCases
  <2>5. CASE ~(request.bytes > MaxAuthBytes) /\ Len(token.lines) > 1
    <3>1. ParseMode(request.lines[2]) # Vpn
      BY DEF ParseMode, Vpn, BadRequest
    <3>2. BadRequest # Vpn
      BY DEF BadRequest, Vpn
    <3> QED
      BY <2>1, <2>2, <2>5, <3>1, <3>2, ParseCases
  <2> QED
    BY <1>2, <2>3, <2>4, <2>5
<1>4. CASE Args(c).bench # "none"
  <2>1. PICK p \in 64..MaxMtu : mode[c] = Bench(Args(c), p)
    BY <1>4 DEF ModeMeant
  <2>2. mode[c].kind = "bench" /\ mode[c].duration = Args(c).duration
    BY <2>1 DEF Bench
  <2>3. request.lines = Append(token.lines, ModeLine(mode[c]))
    BY <2>2 DEF Request
  <2>4. /\ Len(request.lines) = Len(token.lines) + 1
        /\ Len(token.lines) = 1 => request.lines[2] = ModeLine(mode[c])
    BY <1>1, <2>3
  <2>5. ParseMode(ModeLine(mode[c])) = IF mode[c].duration = 0 THEN BadRequest ELSE mode[c]
    BY <1>1, <1>4, <2>1, <2>2, ModeReadBack
  <2>6. mode[c] # BadRequest
    BY <2>2 DEF BadRequest, Vpn
  <2>7. Defective(c) <=> \/ mode[c].duration = 0 \/ Len(token.lines) > 1
                         \/ request.bytes > MaxAuthBytes
    BY <2>2 DEF Defective
  <2>8. CASE request.bytes > MaxAuthBytes
    BY <2>6, <2>7, <2>8, ParseCases
  <2>9. CASE ~(request.bytes > MaxAuthBytes) /\ Len(token.lines) = 1
    BY <2>4, <2>5, <2>6, <2>7, <2>9, ParseCases
  <2>10. CASE ~(request.bytes > MaxAuthBytes) /\ Len(token.lines) > 1
    <3>1. Len(request.lines) \notin {1, 2}
      BY <1>2, <2>4, <2>10
    <3> QED
      BY <2>6, <2>7, <2>10, <3>1, ParseCases
  <2> QED
    BY <1>2, <2>8, <2>9, <2>10
<1> QED
  BY <1>3, <1>4

-----------------------------------------------------------------------------
(* The server's part of the system is the session table.                   *)

\* Every step of the system is one of the table or leaves the table alone.
LEMMA TableStep == [Next]_vars => [Server!Next]_svars
<1> SUFFICES ASSUME Next PROVE Server!Next \/ UNCHANGED svars
  BY DEF vars
<1>1. ASSUME NEW c \in Clients, ClientActs(c) PROVE UNCHANGED svars
  BY <1>1 DEF ClientActs
<1>2. ASSUME NEW t \in Conns, ServerAccepts(t) \/ ServerPumps(t) \/ ServerLosesPeer(t)
      PROVE  Server!Next
  BY <1>2 DEF ServerAccepts, ServerPumps, ServerLosesPeer, Server!Next
<1>3. ASSUME NEW t \in Conns, ServerStep(t) PROVE Server!Next
  <2>1. Server!Progress(t)
    BY <1>3 DEF ServerStep, ServerAdmits, ServerRefuses, ServerGivesUp,
                ServerFindsPathSmall, ServerContinues, Server!Progress
  <2> QED
    BY <2>1 DEF Server!Next
<1>4. ASSUME NEW t \in Conns, EndCloses(t) PROVE UNCHANGED svars
  BY <1>4 DEF EndCloses
<1>5. ServerRestarts => Server!Next
  BY DEF ServerRestarts, Server!Next
<1> QED
  BY <1>1, <1>2, <1>3, <1>4, <1>5 DEF Next

\* Whatever the clients do, the server is the session table of Session: the
\* safety that SessionProofs proves of any run of the table holds here.
THEOREM ServerIsTable == Spec => Server!Init /\ [][Server!Next]_svars
<1>1. Init => Server!Init
  BY DEF Init
<1> QED
  BY <1>1, TableStep, PTL DEF Spec

\* The session table once more, with what is proved of it.
Table == INSTANCE SessionProofs

\* The two names of the session table, with and without its proofs, are one.
LEMMA SameTable ==
  /\ Server!Init => Table!Init
  /\ [Server!Next]_svars => [Table!Next]_(Table!vars)
<1>1. Server!Init => Table!Init
  BY DEF Server!Init, Table!Init, Server!Transports, Table!Transports,
     Server!NoClient, Table!NoClient
<1>2. ASSUME NEW t \in Conns, Server!Return(t) PROVE Table!Return(t)
  BY <1>2 DEF Server!Return, Table!Return, Server!Goto, Table!Goto, Server!DropUnreferenced,
     Table!DropUnreferenced, Server!Referenced, Table!Referenced, Server!Running, Table!Running
<1>3. ASSUME NEW t \in Conns, Server!Cleanup(t) PROVE Table!Cleanup(t)
  BY <1>3 DEF Server!Cleanup, Table!Cleanup, Server!Goto, Table!Goto, Server!DropUnreferenced,
     Table!DropUnreferenced, Server!Referenced, Table!Referenced, Server!Running, Table!Running,
     Server!NoClient, Table!NoClient
<1>4. ASSUME NEW t \in Conns, Server!Progress(t) PROVE Table!Progress(t)
  BY <1>2, <1>3, <1>4 DEF Server!Progress, Table!Progress, Server!HandshakeDone,
     Table!HandshakeDone, Server!HandshakeFailed, Table!HandshakeFailed, Server!AuthVpn,
     Table!AuthVpn, Server!AuthBench, Table!AuthBench, Server!AuthAs, Table!AuthAs,
     Server!AuthFailed, Table!AuthFailed, Server!BenchEnd, Table!BenchEnd,
     Server!CapacityTooSmall, Table!CapacityTooSmall, Server!TakeId, Table!TakeId,
     Server!Replace, Table!Replace, Server!ClosePrevious, Table!ClosePrevious,
     Server!SessionLost, Table!SessionLost, Server!Goto, Table!Goto, Server!PumpPhase,
     Table!PumpPhase, Server!NoClient, Table!NoClient
<1>5. ASSUME NEW t \in Conns,
             Server!Accept(t) \/ Server!StreamsReady(t) \/ Server!PumpError(t) \/ Server!PeerGone(t)
      PROVE  Table!Accept(t) \/ Table!StreamsReady(t) \/ Table!PumpError(t) \/ Table!PeerGone(t)
  BY <1>2, <1>5 DEF Server!Accept, Table!Accept, Server!StreamsReady, Table!StreamsReady,
     Server!PumpError, Table!PumpError, Server!PeerGone, Table!PeerGone, Server!Goto, Table!Goto
<1>6. Server!Restart => Table!Restart
  BY DEF Server!Restart, Table!Restart, Server!Transports, Table!Transports,
     Server!NoClient, Table!NoClient
<1>7. UNCHANGED svars => UNCHANGED Table!vars
  BY DEF svars, Table!vars
<1>8. Server!Next => Table!Next
  BY <1>4, <1>5, <1>6 DEF Server!Next, Table!Next
<1> QED
  BY <1>1, <1>7, <1>8

\* Clients of any number and kind, and a path that loses either side, see the tunnel
\* SingleClient promises: it has one owner, a new client takes it over, and who was
\* displaced or turned away never gets it back (server main.rs:116-265).
THEOREM OneTunnel == Spec => Table!Abstract!Safety
<1>1. NoConn \notin Conns
  BY ConnAssumption
<1>2. Init => Server!Init
  BY DEF Init
<1> QED
  BY <1>1, <1>2, Table!TableRefines, SameTable, TableStep, PTL DEF Spec

\* The invariant that SessionProofs finds for the table alone holds in the system.
LEMMA TableInv == Spec => []Table!IInv
<1>1. NoConn \notin Conns
  BY ConnAssumption
<1>2. Init => Server!Init
  BY DEF Init
<1> QED
  BY <1>1, <1>2, Table!Inductive, SameTable, TableStep, PTL DEF Spec

-----------------------------------------------------------------------------
(* Steps of the server.                                                     *)

\* The table keeps its types, and a task that takes the slot has an id.
LEMMA TableType ==
  ASSUME Server!TypeOK, LockHasId, Server!Next
  PROVE  Server!TypeOK' /\ LockHasId'
<1> USE DEF Server!Goto, Server!PumpPhase, Server!Phases, Server!Transports
<1>1. ASSUME NEW t \in Conns, Server!Return(t) PROVE Server!TypeOK' /\ LockHasId'
  <2>1. conn' \in [Conns -> {"none", "open", "closed"}]
    BY <1>1 DEF Server!Return, Server!DropUnreferenced, Server!TypeOK
  <2> QED
    BY <1>1, <2>1 DEF Server!Return, Server!TypeOK, LockHasId
<1>2. ASSUME NEW t \in Conns,
             \/ Server!Accept(t) \/ Server!AuthVpn(t) \/ Server!AuthBench(t)
             \/ Server!StreamsReady(t) \/ Server!HandshakeDone(t) \/ Server!PeerGone(t)
      PROVE  Server!TypeOK' /\ LockHasId'
  BY <1>2 DEF Server!Accept, Server!AuthVpn, Server!AuthBench, Server!AuthAs,
     Server!StreamsReady, Server!HandshakeDone, Server!PeerGone, Server!TypeOK, LockHasId
<1>3. ASSUME NEW t \in Conns, Server!TakeId(t) PROVE Server!TypeOK' /\ LockHasId'
  BY <1>3 DEF Server!TakeId, Server!TypeOK, LockHasId
<1>4. ASSUME NEW t \in Conns, Server!Replace(t) PROVE Server!TypeOK' /\ LockHasId'
  BY <1>4 DEF Server!Replace, Server!TypeOK, Server!ActiveClient, Server!NoClient, LockHasId
<1>5. ASSUME NEW t \in Conns, Server!ClosePrevious(t) PROVE Server!TypeOK' /\ LockHasId'
  BY <1>5 DEF Server!ClosePrevious, Server!TypeOK, LockHasId
<1>6. ASSUME NEW t \in Conns, Server!Cleanup(t) PROVE Server!TypeOK' /\ LockHasId'
  <2>1. conn' \in [Conns -> {"none", "open", "closed"}]
    BY <1>6 DEF Server!Cleanup, Server!DropUnreferenced, Server!TypeOK
  <2>2. active' = Server!NoClient \/ active' = active
    BY <1>6 DEF Server!Cleanup
  <2> QED
    BY <1>6, <2>1, <2>2 DEF Server!Cleanup, Server!TypeOK, LockHasId
<1>7. CASE Server!Restart
  BY <1>7 DEF Server!Restart, Server!TypeOK, LockHasId
<1>8. ASSUME NEW t \in Conns, Server!Progress(t) PROVE Server!TypeOK' /\ LockHasId'
  BY <1>1, <1>2, <1>3, <1>4, <1>5, <1>6, <1>8 DEF Server!Progress, Server!HandshakeFailed,
     Server!AuthFailed, Server!BenchEnd, Server!CapacityTooSmall, Server!SessionLost
<1> QED
  BY <1>1, <1>2, <1>7, <1>8 DEF Server!Next, Server!PumpError

\* The only way to be admitted is server_authenticate's Ok with the VPN mode.
LEMMA AdmittedByAuth ==
  ASSUME Server!TypeOK, Server!Next, NEW t \in Conns, Admitted(t)', ~Admitted(t)
  PROVE  pc[t] = "auth" /\ pc'[t] = "register"
<1> USE DEF Server!Goto, Server!PumpPhase, Server!Transports, Admitted, Server!TypeOK
<1>1. ASSUME NEW u \in Conns, Server!Return(u) PROVE FALSE
  BY <1>1 DEF Server!Return
<1>2. ASSUME NEW u \in Conns,
             \/ Server!Accept(u) \/ Server!AuthBench(u) \/ Server!StreamsReady(u)
             \/ Server!HandshakeDone(u) \/ Server!PeerGone(u) \/ Server!TakeId(u)
             \/ Server!Replace(u) \/ Server!ClosePrevious(u)
      PROVE  FALSE
  BY <1>2 DEF Server!Accept, Server!AuthBench, Server!AuthAs, Server!TakeId, Server!Replace,
     Server!ClosePrevious, Server!StreamsReady, Server!HandshakeDone, Server!PeerGone
<1>3. ASSUME NEW u \in Conns, Server!Cleanup(u) PROVE FALSE
  BY <1>3, ConnAssumption DEF Server!Cleanup, Server!NoClient
<1>4. CASE Server!Restart
  BY <1>4, ConnAssumption DEF Server!Restart, Server!NoClient
<1>5. ASSUME NEW u \in Conns, Server!AuthVpn(u) PROVE pc[t] = "auth" /\ pc'[t] = "register"
  BY <1>5 DEF Server!AuthVpn, Server!AuthAs
<1>6. ASSUME NEW u \in Conns, Server!Progress(u) PROVE pc[t] = "auth" /\ pc'[t] = "register"
  BY <1>1, <1>2, <1>3, <1>5, <1>6 DEF Server!Progress, Server!HandshakeFailed,
     Server!AuthFailed, Server!BenchEnd, Server!CapacityTooSmall, Server!SessionLost
<1> QED
  BY <1>1, <1>2, <1>4, <1>6 DEF Server!Next, Server!PumpError

\* A task moves only itself, is not idle, and gets past authentication as a VPN
\* client by AuthVpn alone.
LEMMA TaskMoves ==
  ASSUME Server!TypeOK, NEW u \in Conns,
         Server!Progress(u) \/ Server!StreamsReady(u) \/ Server!PumpError(u)
  PROVE  /\ pc[u] # "idle"
         /\ \A t \in Conns : t # u => pc'[t] = pc[t]
         /\ pc'[u] = "register" => Server!AuthVpn(u)
<1> USE DEF Server!Goto, Server!PumpPhase, Server!Transports, Server!TypeOK
<1>1. CASE Server!Return(u) /\ pc[u] # "idle"
  BY <1>1 DEF Server!Return
<1>2. CASE Server!Progress(u)
  BY <1>1, <1>2 DEF Server!Progress, Server!HandshakeDone, Server!HandshakeFailed,
     Server!AuthVpn, Server!AuthBench, Server!AuthAs, Server!AuthFailed, Server!BenchEnd,
     Server!CapacityTooSmall, Server!TakeId, Server!Replace, Server!ClosePrevious,
     Server!SessionLost, Server!Cleanup
<1> QED
  BY <1>1, <1>2 DEF Server!StreamsReady, Server!PumpError

\* A request read as one for the tunnel, with the server's token on its first line,
\* comes from a process that holds this token and was not started as a benchmark.
LEMMA AdmissionEarned ==
  ASSUME IInv, NEW t \in Conns, t \in sent,
         ParseRequest(RequestOn(t)).kind = "vpn", TokenMatches(RequestOn(t), ServerToken)
  PROVE  how[Owner(t)].token = ServerToken /\ Args(Owner(t)).bench = "none"
<1> DEFINE c == Owner(t)
           token == how[c].token
           request == RequestOn(t)
           words == {token.lines[i] : i \in DOMAIN token.lines}
<1>1. c \in Clients /\ ModeMeant(c) /\ how \in Scenarios
  BY ConnParts DEF IInv, TypeOK, ModeSettled
<1>2. /\ token.lines # <<>> /\ token.lines \in Seq(words)
      /\ token.lines = ServerToken.lines => token = ServerToken
  BY <1>1, ScenariosAssumption
<1>3. Len(request.lines) = 1
  <2>1. BadRequest.kind # "vpn"
    BY DEF BadRequest, Vpn
  <2>2. ParseMode(request.lines[2]).kind # "vpn"
    BY <2>1 DEF ParseMode
  <2> QED
    BY <2>1, <2>2, ParseCases
<1>4. Args(c).bench = "none"
  <2> SUFFICES ASSUME Args(c).bench # "none" PROVE FALSE
    OBVIOUS
  <2>1. mode[c].kind = "bench"
    <3>1. PICK p \in 64..MaxMtu : mode[c] = Bench(Args(c), p)
      BY <1>1 DEF ModeMeant
    <3> QED
      BY <3>1 DEF Bench
  <2>2. request.lines = Append(token.lines, ModeLine(mode[c]))
    BY <2>1 DEF RequestOn, Request
  <2>3. Len(request.lines) = Len(token.lines) + 1 /\ Len(token.lines) \in Nat /\ Len(token.lines) # 0
    BY <1>2, <2>2
  <2>4. \A n \in Nat : n # 0 => n + 1 # 1
    OBVIOUS
  <2> QED
    BY <1>3, <2>3, <2>4
<1>5. request.lines = token.lines
  BY <1>1, <1>4 DEF ModeMeant, Vpn, RequestOn, Request
<1>6. token.lines = <<token.lines[1]>>
  BY <1>2, <1>3, <1>5
<1> QED
  BY <1>2, <1>4, <1>5, <1>6 DEF TokenMatches

\* A step of the table that the clients do not notice, or only by the answer.
LEMMA ServerPreserves ==
  ASSUME IInv, Server!Next, UNCHANGED <<how, mode, cpc, dialed, attempt, run, end, sent>>,
         answer' \in [Conns -> {"none", "OK", "ERR"}],
         \A t \in Conns : pc[t] = "idle" /\ pc'[t] # "idle" => end[t] # "none",
         \A t \in Conns : pc[t] = "auth" /\ pc'[t] = "register" =>
           t \in sent /\ how[Owner(t)].token = ServerToken /\ Args(Owner(t)).bench = "none"
  PROVE  IInv'
<1> USE DEF IInv
<1>1. Server!TypeOK' /\ LockHasId'
  BY TableType DEF TypeOK
<1>2. TypeOK' /\ Numbers'
  BY <1>1 DEF TypeOK, Numbers, Args
<1>3. DialedInOrder'
  BY DEF DialedInOrder
<1>4. StartChecked' /\ ModeSettled' /\ AskedOnce'
  BY DEF StartChecked, ModeSettled, ModeMeant, AskedOnce, Args, Cur
<1>5. AdmittedAsked'
  <2> SUFFICES ASSUME NEW t \in Conns, Admitted(t)'
               PROVE  /\ t \in sent'
                      /\ how'[Owner(t)].token = ServerToken /\ Args(Owner(t))'.bench = "none"
    BY DEF AdmittedAsked
  <2>1. CASE Admitted(t)
    BY <2>1 DEF AdmittedAsked, Args
  <2>2. CASE ~Admitted(t)
    BY <2>2, AdmittedByAuth DEF TypeOK, Args
  <2> QED
    BY <2>1, <2>2
<1> QED
  BY <1>1, <1>2, <1>3, <1>4, <1>5

\* One step per action of the server and of the path.
LEMMA ServerActsPreserves ==
  ASSUME IInv,
         \/ ServerRestarts
         \/ \E t \in Conns : \/ ServerAccepts(t) \/ ServerStep(t) \/ ServerPumps(t)
                             \/ ServerLosesPeer(t)
  PROVE  IInv'
<1>1. Server!TypeOK /\ answer \in [Conns -> {"none", "OK", "ERR"}]
  BY DEF IInv, TypeOK
<1>2. Server!Next
  BY DEF ServerRestarts, ServerAccepts, ServerStep, ServerPumps, ServerLosesPeer, ServerAdmits,
     ServerRefuses, ServerGivesUp, ServerFindsPathSmall, ServerContinues, Server!Next, Server!Progress
<1>3. /\ UNCHANGED <<how, mode, cpc, dialed, attempt, run, end, sent>>
      /\ answer' \in [Conns -> {"none", "OK", "ERR"}]
  BY <1>1 DEF ServerRestarts, ServerAccepts, ServerStep, ServerPumps, ServerLosesPeer,
     ServerAdmits, ServerRefuses, ServerGivesUp, ServerFindsPathSmall, ServerContinues, cvars
<1>4. ASSUME NEW u \in Conns, ServerStep(u) \/ ServerPumps(u)
      PROVE  Server!Progress(u) \/ Server!StreamsReady(u) \/ Server!PumpError(u)
  BY <1>4 DEF ServerStep, ServerPumps, ServerAdmits, ServerRefuses, ServerGivesUp,
     ServerFindsPathSmall, ServerContinues, Server!Progress
<1>5. ASSUME NEW t \in Conns, pc[t] = "idle", pc'[t] # "idle" PROVE end[t] # "none"
  <2>1. ASSUME NEW u \in Conns, ServerAccepts(u) PROVE end[t] # "none"
    BY <1>1, <1>5, <2>1 DEF ServerAccepts, Server!Accept, Server!Goto, Server!TypeOK
  <2>2. ASSUME NEW u \in Conns, ServerLosesPeer(u) PROVE FALSE
    BY <1>5, <2>2 DEF ServerLosesPeer, Server!PeerGone
  <2>3. ~ServerRestarts
    BY <1>5 DEF ServerRestarts, Server!Restart
  <2> QED
    BY <1>1, <1>4, <1>5, <2>1, <2>2, <2>3, TaskMoves
<1>6. ASSUME NEW t \in Conns, pc[t] = "auth", pc'[t] = "register"
      PROVE  t \in sent /\ how[Owner(t)].token = ServerToken /\ Args(Owner(t)).bench = "none"
  <2>1. ASSUME NEW u \in Conns, ServerAccepts(u) \/ ServerLosesPeer(u) PROVE FALSE
    BY <1>1, <1>6, <2>1 DEF ServerAccepts, ServerLosesPeer, Server!Accept, Server!PeerGone,
       Server!Goto, Server!TypeOK
  <2>2. ~ServerRestarts
    BY <1>6 DEF ServerRestarts, Server!Restart
  <2>3. PICK u \in Conns : ServerStep(u) \/ ServerPumps(u)
    BY <2>1, <2>2
  <2>4. u = t /\ Server!AuthVpn(t)
    BY <1>1, <1>4, <1>6, <2>3, TaskMoves
  <2>5. ServerAdmits(t) /\ ParseRequest(RequestOn(t)).kind = "vpn"
    <3>1. Server!TypeOK /\ pc'[t] = "register"
      BY <1>1, <1>6
    <3>2. ~Server!Return(t) /\ ~Server!AuthBench(t)
      BY <3>1 DEF Server!Return, Server!AuthBench, Server!AuthAs, Server!Goto, Server!TypeOK
    <3>3. ~ServerContinues(t)
      BY <1>6, <3>1, <3>2 DEF ServerContinues, Server!HandshakeDone, Server!HandshakeFailed,
         Server!BenchEnd, Server!TakeId, Server!Replace, Server!ClosePrevious,
         Server!SessionLost, Server!Cleanup
    <3>4. ServerAdmits(t)
      BY <1>6, <2>3, <2>4, <3>2, <3>3 DEF ServerStep, ServerPumps, ServerRefuses, ServerGivesUp,
         ServerFindsPathSmall, Server!AuthFailed, Server!CapacityTooSmall,
         Server!StreamsReady, Server!PumpError
    <3> QED
      BY <3>2, <3>4 DEF ServerAdmits
  <2> QED
    BY <2>5, AdmissionEarned DEF ServerAdmits, Understood
<1> QED
  BY <1>2, <1>3, <1>5, <1>6, ServerPreserves

-----------------------------------------------------------------------------
(* Steps of a client process.                                               *)

\* A client leaves the table, and what the table knows of it, alone.
LEMMA ClientFrame ==
  ASSUME IInv, UNCHANGED svars, how' = how, answer' = answer, sent \subseteq sent'
  PROVE  Server!TypeOK' /\ LockHasId' /\ AdmittedAsked'
<1>1. Server!TypeOK'
  BY DEF IInv, TypeOK, Server!TypeOK, svars
<1>2. LockHasId'
  BY DEF IInv, LockHasId, svars
<1>3. AdmittedAsked'
  BY DEF IInv, AdmittedAsked, Admitted, Args, svars
<1> QED
  BY <1>1, <1>2, <1>3

\* What an accepted start allows.
LEMMA AcceptedBounds ==
  ASSUME IInv, NEW c \in Clients, Accepted(how[c])
  PROVE  /\ Args(c).retries \in 1..100 /\ Runs(Args(c)) \in 1..100
         /\ how[c].config.mtu \in Nat /\ how[c].config.mtu <= MaxMtu
<1>1. how \in Scenarios
  BY DEF IInv, TypeOK
<1>2. how[c].config.mtu \in Nat
  BY <1>1, ScenariosAssumption
<1> QED
  BY <1>2 DEF Accepted, Args, Runs, ArgsAccepted, ConnectRetries, BenchRuns, Validate, ValidateCommon

LEMMA StartPreserves ==
  ASSUME IInv, NEW c \in Clients, Start(c), UNCHANGED svars
  PROVE  IInv'
<1> USE DEF IInv, Start, Become
<1>1. Server!TypeOK' /\ LockHasId' /\ AdmittedAsked'
  BY ClientFrame
<1>2. TypeOK' /\ Numbers'
  <2>1. Accepted(how[c]) => attempt[c] \in 1..Args(c).retries /\ run[c] \in 1..Runs(Args(c))
    BY AcceptedBounds DEF StartChecked
  <2>2. /\ cpc' \in [Clients -> ClientPhases] /\ (cpc'[c] \in Live => Accepted(how[c]))
        /\ \A d \in Clients : d # c => cpc'[d] = cpc[d]
    BY DEF TypeOK, ClientPhases, Live, Starting
  <2> QED
    BY <1>1, <2>1, <2>2 DEF TypeOK, Numbers, Args
<1>3. DialedInOrder' /\ ModeSettled'
  BY DEF DialedInOrder, ModeSettled, ModeMeant, Args, svars
<1>4. StartChecked'
  BY DEF StartChecked, TypeOK, Live, Starting, Args
<1>5. AskedOnce'
  BY ConnParts DEF AskedOnce, TypeOK, Args, Cur
<1> QED
  BY <1>1, <1>2, <1>3, <1>4, <1>5

\* The attempt is over: another one, or the end.
LEMMA AttemptPreserves ==
  ASSUME IInv, NEW c \in Clients, SocketFails(c) \/ ConnectFails(c), UNCHANGED svars
  PROVE  IInv'
<1> USE DEF IInv, SocketFails, ConnectFails, AttemptOver, Become, CloseEnd
<1>1. Server!TypeOK' /\ LockHasId' /\ AdmittedAsked'
  BY ClientFrame
<1>2. cpc[c] \in {"dial", "connect"} /\ Accepted(how[c])
  BY DEF StartChecked, Live, Starting
<1>3. attempt[c] \in 1..Args(c).retries /\ run[c] \in 1..Runs(Args(c)) /\ Args(c).retries \in Nat
  BY <1>2, AcceptedBounds DEF TypeOK, Live, Starting
<1>4. end' \in [Conns -> {"none", "dialing", "open", "closed"}]
      /\ \A t \in Conns : end'[t] = "none" <=> end[t] = "none"
  BY CurMade DEF TypeOK, DialedInOrder, StartChecked, Live, Starting, Numbers
<1>5. /\ cpc' \in [Clients -> ClientPhases] /\ attempt' \in [Clients -> Nat \ {0}]
      /\ cpc'[c] \in {"dial", "failed"} /\ (cpc'[c] = "dial" => attempt'[c] \in 1..Args(c).retries)
      /\ \A d \in Clients : d # c => cpc'[d] = cpc[d] /\ attempt'[d] = attempt[d]
  BY <1>3 DEF TypeOK, Numbers, ClientPhases, Live, Starting
<1>6. TypeOK' /\ Numbers'
  BY <1>1, <1>3, <1>4, <1>5 DEF TypeOK, Numbers, Args, Live
<1>7. DialedInOrder'
  BY <1>4 DEF DialedInOrder, svars
<1>8. StartChecked' /\ ModeSettled'
  BY <1>2, <1>5 DEF StartChecked, ModeSettled, ModeMeant, Args, Live, Starting
<1>9. AskedOnce'
  <2>1. ASSUME NEW t \in sent, Args(Owner(t)).bench = "none" PROVE Owner(t) # c
    BY <1>2, <2>1 DEF AskedOnce
  <2> QED
    BY <1>5, <2>1, ConnParts DEF AskedOnce, TypeOK, Args, Cur
<1> QED
  BY <1>1, <1>6, <1>7, <1>8, <1>9

\* A new connection, the next of the process.
LEMMA DialPreserves ==
  ASSUME IInv, NEW c \in Clients, Dial(c), UNCHANGED svars
  PROVE  IInv'
<1> USE DEF IInv, Dial, Become
<1> DEFINE new == <<c, dialed[c] + 1>>
<1>1. Server!TypeOK' /\ LockHasId' /\ AdmittedAsked'
  BY ClientFrame
<1>2. dialed[c] \in Nat /\ dialed[c] + 1 \in 1..MaxConns[c]
  <2>1. dialed[c] \in Nat /\ MaxConns[c] \in Nat
    BY MaxConnsAssumption DEF Numbers
  <2> QED
    BY <2>1
<1>3. new \in Conns /\ Owner(new) = c /\ new[2] = dialed[c] + 1
  BY <1>2, ConnMade
<1>4. TypeOK' /\ Numbers'
  BY <1>1, <1>2, <1>3 DEF TypeOK, Numbers, Args, ClientPhases, Live, Starting
<1>5. DialedInOrder'
  <2> SUFFICES ASSUME NEW t \in Conns
               PROVE  /\ end'[t] # "none" <=> t[2] <= dialed'[Owner(t)]
                      /\ pc'[t] # "idle" \/ t \in sent' => end'[t] # "none"
    BY DEF DialedInOrder
  <2>1. /\ t = <<Owner(t), t[2]>> /\ Owner(t) \in Clients /\ t[2] \in Nat
        /\ end[t] # "none" <=> t[2] <= dialed[Owner(t)]
        /\ pc[t] # "idle" \/ t \in sent => end[t] # "none"
    BY ConnParts, MaxConnsAssumption DEF DialedInOrder
  <2>2. CASE t = new
    BY <1>2, <1>3, <2>2 DEF Numbers, TypeOK, svars
  <2>3. CASE t # new /\ Owner(t) = c
    BY <1>2, <1>3, <2>1, <2>3 DEF Numbers, TypeOK, svars
  <2>4. CASE t # new /\ Owner(t) # c
    BY <2>1, <2>4 DEF Numbers, TypeOK, svars
  <2> QED
    BY <2>2, <2>3, <2>4
<1>6. StartChecked' /\ ModeSettled'
  BY <1>2 DEF StartChecked, ModeSettled, ModeMeant, Args, Live, Starting, TypeOK, Numbers
<1>7. AskedOnce'
  <2>1. ASSUME NEW t \in sent, Args(Owner(t)).bench = "none" PROVE Owner(t) # c
    BY <2>1 DEF AskedOnce
  <2> QED
    BY <2>1, ConnParts DEF AskedOnce, TypeOK, Args, Cur, Numbers
<1> QED
  BY <1>1, <1>4, <1>5, <1>6, <1>7

\* Steps that only move the process on, or end it and its connection.
LEMMA MovePreserves ==
  ASSUME IInv, NEW c \in Clients, UNCHANGED svars,
         UNCHANGED <<how, mode, dialed, attempt, run, sent, answer>>,
         NEW phase \in ClientPhases, Become(c, phase), cpc[c] \in Live,
         phase \in Live => cpc[c] # "dial",
         phase \notin {"off", "dial", "connect"},
         phase = "auth" => cpc[c] = "connect",
         phase \in {"await", "up", "hold", "bench"} => cpc[c] = "await",
         phase = "bench" => Args(c).bench # "none",
         end' \in [Conns -> {"none", "dialing", "open", "closed"}],
         \A t \in Conns : end'[t] = "none" <=> end[t] = "none"
  PROVE  IInv'
<1> USE DEF IInv, Become
<1>1. Server!TypeOK' /\ LockHasId' /\ AdmittedAsked'
  BY ClientFrame
<1>2. TypeOK' /\ Numbers'
  BY <1>1 DEF TypeOK, Numbers, Args
<1>3. DialedInOrder' /\ ModeSettled'
  BY DEF DialedInOrder, ModeSettled, ModeMeant, Args, svars
<1>4. StartChecked'
  BY DEF StartChecked, TypeOK, Args
<1>5. AskedOnce'
  BY ConnParts DEF AskedOnce, TypeOK, Args, Cur, Live, Starting
<1> QED
  BY <1>1, <1>2, <1>3, <1>4, <1>5

\* One step per way to go on or to end; each closes at most the process's own
\* connections.
LEMMA EndsPreserves ==
  ASSUME IInv, NEW c \in Clients, UNCHANGED svars,
         \/ Connected(c) \/ PayloadRefused(c) \/ AuthLost(c) \/ Rejected(c) \/ Answered(c)
         \/ UpEnds(c) \/ UpLost(c) \/ HoldEnds(c) \/ BenchFails(c) \/ Killed(c)
  PROVE  IInv'
<1> USE DEF Live, Starting, ClientPhases
<1>1. /\ end \in [Conns -> {"none", "dialing", "open", "closed"}]
      /\ cpc[c] \in Live \ {"dial"} => Cur(c) \in Conns /\ end[Cur(c)] # "none"
  BY CurMade DEF IInv, TypeOK, DialedInOrder, StartChecked, Numbers
<1>2. cpc[c] \in Live \ {"dial"} /\ CloseEnd(c) =>
        /\ end' \in [Conns -> {"none", "dialing", "open", "closed"}]
        /\ \A t \in Conns : end'[t] = "none" <=> end[t] = "none"
  BY <1>1 DEF CloseEnd
<1>3. CASE Connected(c)
  BY <1>1, <1>3, MovePreserves DEF Connected
<1>4. CASE PayloadRefused(c) \/ AuthLost(c) \/ Rejected(c) \/ BenchFails(c)
  BY <1>2, <1>4, MovePreserves DEF PayloadRefused, AuthLost, Rejected, BenchFails, GiveUp
<1>5. CASE UpEnds(c) \/ UpLost(c)
  BY <1>2, <1>5, MovePreserves DEF UpEnds, UpLost, Become
<1>6. CASE HoldEnds(c)
  BY <1>2, <1>6, MovePreserves DEF HoldEnds
<1>7. CASE Answered(c)
  <2> DEFINE phase == IF Args(c).bench # "none" THEN "bench"
                      ELSE IF Args(c).probe THEN "hold" ELSE "up"
  <2>1. phase \in {"bench", "hold", "up"} /\ (phase = "bench" => Args(c).bench # "none")
    OBVIOUS
  <2>2. /\ Become(c, phase) /\ cpc[c] = "await"
        /\ UNCHANGED <<how, mode, dialed, attempt, run, end, sent, answer>>
    BY <1>7 DEF Answered
  <2> HIDE DEF phase
  <2> QED
    BY <1>1, <2>1, <2>2, MovePreserves
<1>8. CASE Killed(c)
  <2>1. end' \in [Conns -> {"none", "dialing", "open", "closed"}]
        /\ \A t \in Conns : end'[t] = "none" <=> end[t] = "none"
    BY <1>1, <1>8 DEF Killed
  <2> QED
    BY <1>8, <2>1, MovePreserves DEF Killed
<1> QED
  BY <1>3, <1>4, <1>5, <1>6, <1>7, <1>8

\* The mode is settled: by the arguments, and a payload within the MTU.
LEMMA ModeChosen ==
  ASSUME IInv, NEW c \in Clients, ChooseMode(c), Accepted(how[c]), how' = how
  PROVE  /\ DOMAIN mode' = Clients /\ ModeMeant(c)'
         /\ \A d \in Clients : d # c => mode'[d] = mode[d]
<1>1. CASE run[c] > 1
  BY <1>1 DEF IInv, Numbers, ChooseMode, ModeSettled, ModeMeant, Args
<1>2. CASE ~(run[c] > 1)
  <2> DEFINE o == Args(c)
             mtu == how[c].config.mtu
  <2>1. PICK capacity \in Capacities :
          /\ o.bench = "none" \/ PayloadAccepted(o, capacity, mtu)
          /\ mode' = [mode EXCEPT ![c] = AuthMode(o, BenchPayload(o, capacity, mtu))]
    BY <1>2 DEF ChooseMode
  <2>2. DOMAIN mode' = Clients /\ \A d \in Clients : d # c => mode'[d] = mode[d]
    BY <2>1 DEF IInv, Numbers
  <2>3. mode'[c] = AuthMode(o, BenchPayload(o, capacity, mtu))
    BY <2>1 DEF IInv, Numbers
  <2>4. CASE o.bench = "none"
    BY <2>2, <2>3, <2>4 DEF AuthMode, ModeMeant, Args
  <2>5. CASE o.bench # "none"
    <3> DEFINE p == BenchPayload(o, capacity, mtu)
    <3>1. mtu \in Nat /\ mtu <= MaxMtu /\ capacity \in Nat
      BY AcceptedBounds, ConnAssumption
    <3>2. how \in Scenarios /\ "payload" \in {"retries", "delay", "target", "runs", "duration", "payload"}
      BY DEF IInv, TypeOK
    <3>3. o.payload \in Nat
      <4>1. o["payload"] \in Nat
        BY <3>2, ScenariosAssumption DEF Args
      <4> QED
        BY <4>1, Zenon
    <3>4. p \in 64..MaxMtu
      <4> DEFINE limit == PayloadLimit(o, capacity, mtu)
      <4>1. limit \in {capacity, mtu} /\ limit <= mtu
        BY <3>1 DEF PayloadLimit
      <4>2. 64 <= limit /\ (o.payload = 0 \/ (64 <= o.payload /\ o.payload <= limit))
        BY <2>1, <2>5 DEF PayloadAccepted
      <4>3. p = IF o.payload = 0 THEN limit ELSE o.payload
        BY DEF BenchPayload
      <4>4. limit \in 64..MaxMtu
        <5>1. limit \in Nat /\ limit <= mtu /\ 64 <= limit
          BY <3>1, <4>1, <4>2
        <5>2. \A x, y, z \in Nat : 64 <= x /\ x <= y /\ y <= z => x \in 64..z
          OBVIOUS
        <5>3. MaxMtu \in Nat
          BY DEF MaxMtu
        <5> HIDE DEF limit
        <5> QED BY <3>1, <5>1, <5>2, <5>3
      <4>5. CASE o.payload = 0
        BY <4>3, <4>4, <4>5
      <4>6. CASE o.payload # 0
        <5>1. \A l \in 64..MaxMtu, n \in Nat : 64 <= n /\ n <= l => n \in 64..MaxMtu
          BY DEF MaxMtu
        <5> QED
          BY <3>3, <4>2, <4>3, <4>4, <4>6, <5>1
      <4> QED
        BY <4>5, <4>6
    <3>5. mode'[c] = Bench(o, p)
      BY <2>3, <2>5 DEF AuthMode
    <3> QED
      BY <2>2, <2>5, <3>4, <3>5 DEF ModeMeant, Args
  <2> QED
    BY <2>2, <2>4, <2>5
<1> QED
  BY <1>1, <1>2

\* The request is sent on the connection the process works on.
LEMMA SendPreserves ==
  ASSUME IInv, NEW c \in Clients, SendRequest(c), UNCHANGED svars
  PROVE  IInv'
<1> USE DEF IInv, SendRequest, Become
<1>1. Server!TypeOK' /\ LockHasId' /\ AdmittedAsked'
  BY ClientFrame
<1>2. /\ Accepted(how[c]) /\ dialed[c] > 0 /\ Cur(c) \in Conns
      /\ Owner(Cur(c)) = c /\ end[Cur(c)] # "none"
  BY CurMade DEF StartChecked, Live, Starting
<1>3. /\ DOMAIN mode' = Clients /\ ModeMeant(c)'
      /\ \A d \in Clients : d # c => mode'[d] = mode[d]
  BY <1>2, ModeChosen
<1>4. mode'[c].kind \in {"vpn", "bench", "bad"}
  BY <1>3 DEF ModeMeant, Vpn, Bench
<1>5. TypeOK' /\ Numbers'
  BY <1>1, <1>2, <1>3, <1>4 DEF TypeOK, Numbers, Args, ClientPhases, Live, Starting
<1>6. DialedInOrder'
  BY <1>2 DEF DialedInOrder, svars
<1>7. StartChecked'
  BY DEF StartChecked, TypeOK, Args, Live, Starting
<1>8. ModeSettled'
  <2> SUFFICES ASSUME NEW d \in Clients
               PROVE  /\ mode'[d] = BadRequest \/ ModeMeant(d)'
                      /\ \/ run'[d] > 1 \/ cpc'[d] \in {"await", "up", "hold", "bench"}
                         => ModeMeant(d)'
                      /\ \A t \in sent' : Owner(t) = d => ModeMeant(d)'
    BY DEF ModeSettled
  <2>1. CASE d = c
    BY <1>3, <2>1
  <2>2. CASE d # c
    BY <1>2, <1>3, <2>2 DEF ModeSettled, ModeMeant, Args
  <2> QED
    BY <2>1, <2>2
<1>9. AskedOnce'
  <2> SUFFICES ASSUME NEW t \in sent', Args(Owner(t))'.bench = "none"
               PROVE  t = Cur(Owner(t))' /\ cpc'[Owner(t)] \notin {"off", "dial", "connect", "auth"}
    BY DEF AskedOnce
  <2>1. CASE t = Cur(c)
    BY <1>2, <2>1 DEF TypeOK, Cur
  <2>2. CASE t \in sent /\ t # Cur(c)
    BY <2>2, ConnParts DEF AskedOnce, TypeOK, Args, Cur
  <2> QED
    BY <2>1, <2>2
<1> QED
  BY <1>1, <1>5, <1>6, <1>7, <1>8, <1>9

\* Only a benchmark dials again after it was answered.
LEMMA BenchPreserves ==
  ASSUME IInv, NEW c \in Clients, BenchDone(c), UNCHANGED svars
  PROVE  IInv'
<1> USE DEF IInv, BenchDone, Become, CloseEnd
<1>1. Server!TypeOK' /\ LockHasId' /\ AdmittedAsked'
  BY ClientFrame
<1>2. /\ Accepted(how[c]) /\ dialed[c] > 0 /\ Cur(c) \in Conns /\ Owner(Cur(c)) = c
      /\ Args(c).bench # "none" /\ end[Cur(c)] # "none"
  BY CurMade DEF StartChecked, Live, Starting, DialedInOrder, Numbers
<1>3. Args(c).retries \in 1..100 /\ run[c] \in 1..Runs(Args(c)) /\ Runs(Args(c)) \in 1..100
  BY <1>2, AcceptedBounds DEF TypeOK, Live, Starting
<1>4. /\ end' \in [Conns -> {"none", "dialing", "open", "closed"}]
      /\ \A t \in Conns : end'[t] = "none" <=> end[t] = "none"
  BY <1>2 DEF TypeOK
<1>5. /\ cpc' \in [Clients -> ClientPhases] /\ attempt' \in [Clients -> Nat \ {0}]
      /\ run' \in [Clients -> Nat \ {0}]
      /\ cpc'[c] \in {"dial", "ok"}
      /\ cpc'[c] = "dial" => attempt'[c] \in 1..Args(c).retries /\ run'[c] \in 1..Runs(Args(c))
      /\ \A d \in Clients : d # c =>
           cpc'[d] = cpc[d] /\ attempt'[d] = attempt[d] /\ run'[d] = run[d]
  BY <1>3 DEF TypeOK, Numbers, ClientPhases, Live, Starting
<1>6. TypeOK' /\ Numbers'
  BY <1>1, <1>4, <1>5 DEF TypeOK, Numbers, Args, Live, Starting
<1>7. DialedInOrder'
  BY <1>4 DEF DialedInOrder, svars
<1>8. StartChecked'
  BY <1>2, <1>5 DEF StartChecked, Args, Live, Starting
<1>9. ModeSettled'
  BY <1>5 DEF ModeSettled, ModeMeant, Args
<1>10. AskedOnce'
  BY <1>2, <1>5, ConnParts DEF AskedOnce, TypeOK, Args, Cur
<1> QED
  BY <1>1, <1>6, <1>7, <1>8, <1>9, <1>10

\* The client's end of a connection is lost.
LEMMA EndClosesPreserves ==
  ASSUME IInv, NEW t \in Conns, EndCloses(t)
  PROVE  IInv'
<1> USE DEF IInv, EndCloses
<1>1. Server!TypeOK' /\ LockHasId' /\ AdmittedAsked'
  BY ClientFrame
<1>2. TypeOK' /\ Numbers'
  BY <1>1 DEF TypeOK, Numbers, Args
<1>3. DialedInOrder'
  BY DEF DialedInOrder, TypeOK, svars
<1>4. StartChecked' /\ ModeSettled' /\ AskedOnce'
  BY DEF StartChecked, ModeSettled, ModeMeant, AskedOnce, Args, Cur
<1> QED
  BY <1>1, <1>2, <1>3, <1>4

-----------------------------------------------------------------------------
LEMMA InitIInv == Init => IInv
<1> SUFFICES ASSUME Init PROVE IInv
  OBVIOUS
<1> USE DEF Init, Server!Init
<1>1. Server!TypeOK /\ LockHasId
  BY DEF Server!TypeOK, Server!Phases, Server!NoClient, LockHasId
<1>2. TypeOK /\ Numbers
  <2>1. BadRequest.kind = "bad"
    BY DEF BadRequest, Vpn
  <2> QED
    BY <1>1, <2>1, MaxConnsAssumption DEF TypeOK, Numbers, ClientPhases, Live, Starting
<1>3. DialedInOrder
  BY ConnParts, MaxConnsAssumption DEF DialedInOrder
<1>4. StartChecked /\ ModeSettled /\ AskedOnce
  BY DEF StartChecked, ModeSettled, AskedOnce, Live, Starting
<1>5. AdmittedAsked
  BY ConnAssumption DEF AdmittedAsked, Admitted, Server!NoClient
<1> QED
  BY <1>1, <1>2, <1>3, <1>4, <1>5 DEF IInv

\* One step per action of Next.
LEMMA NextIInv == IInv /\ [Next]_vars => IInv'
<1> SUFFICES ASSUME IInv, [Next]_vars PROVE IInv'
  OBVIOUS
<1>1. CASE UNCHANGED vars
  BY <1>1 DEF vars, cvars, svars, IInv, TypeOK, Server!TypeOK, Numbers, LockHasId, DialedInOrder,
     StartChecked, ModeSettled, ModeMeant, AskedOnce, AdmittedAsked, Admitted, Args, Cur
<1>2. ASSUME NEW c \in Clients, ClientActs(c) PROVE IInv'
  <2>1. UNCHANGED svars
    BY <1>2 DEF ClientActs
  <2>2. CASE Start(c)
    BY <2>1, <2>2, StartPreserves
  <2>3. CASE SocketFails(c) \/ ConnectFails(c)
    BY <2>1, <2>3, AttemptPreserves
  <2>4. CASE Dial(c)
    BY <2>1, <2>4, DialPreserves
  <2>5. CASE SendRequest(c)
    BY <2>1, <2>5, SendPreserves
  <2>6. CASE BenchDone(c)
    BY <2>1, <2>6, BenchPreserves
  <2>7. CASE \/ Connected(c) \/ PayloadRefused(c) \/ AuthLost(c) \/ Rejected(c) \/ Answered(c)
             \/ UpEnds(c) \/ UpLost(c) \/ HoldEnds(c) \/ BenchFails(c) \/ Killed(c)
    BY <2>1, <2>7, EndsPreserves
  <2> QED
    BY <1>2, <2>2, <2>3, <2>4, <2>5, <2>6, <2>7 DEF ClientActs, ClientStep
<1>3. ASSUME NEW t \in Conns, EndCloses(t) PROVE IInv'
  BY <1>3, EndClosesPreserves
<1> QED
  BY <1>1, <1>2, <1>3, ServerActsPreserves DEF Next

\* The inductive invariant holds in every behaviour of the system.
THEOREM Inductive == Spec => []IInv
BY InitIInv, NextIInv, PTL DEF Spec

\* Every variable keeps its type; attempts and runs stay within what the arguments
\* of an accepted start say (client main.rs:321-347, :457-500).
THEOREM TypeCorrect == Spec => []TypeOK
<1>1. IInv => TypeOK
  BY DEF IInv
<1> QED
  BY <1>1, Inductive, PTL

\* However many processes of whatever kind there are, only those with the server's
\* token that asked for the tunnel get near the slot (auth.rs:112-121, server
\* main.rs:175-192).
THEOREM OnlyInvited == Spec => []OnlyInvitedServed
<1>1. ASSUME IInv PROVE OnlyInvitedServed
  <2> SUFFICES ASSUME NEW t \in Conns, Admitted(t)
               PROVE  /\ Accepted(how[Owner(t)]) /\ how[Owner(t)].token = ServerToken
                      /\ how[Owner(t)].args.bench = "none"
    BY DEF OnlyInvitedServed
  <2>1. /\ t \in sent /\ how[Owner(t)].token = ServerToken
        /\ how[Owner(t)].args.bench = "none"
    BY <1>1 DEF IInv, AdmittedAsked, Args
  <2>2. Owner(t) \in Clients /\ t[2] \in Nat /\ t[2] > 0 /\ t[2] <= dialed[Owner(t)]
    BY <1>1, <2>1, ConnParts, MaxConnsAssumption DEF IInv, DialedInOrder
  <2>3. dialed[Owner(t)] > 0
    BY <1>1, <2>2 DEF IInv, Numbers
  <2>4. Accepted(how[Owner(t)])
    BY <1>1, <2>2, <2>3 DEF IInv, StartChecked
  <2> QED
    BY <2>1, <2>4
<1> QED
  BY <1>1, Inductive, PTL

\* However often a process retries, and however late the server finishes the
\* handshake of an abandoned attempt (client main.rs:374-377), what the server admits
\* is the last connection the process dials: it never displaces itself.
THEOREM LastConnection == Spec => []LastConnectionServed
<1>1. ASSUME IInv PROVE LastConnectionServed
  BY <1>1 DEF IInv, LastConnectionServed, AdmittedAsked, AskedOnce
<1> QED
  BY <1>1, Inductive, PTL

\* For every MTU, payload, duration and target that the client's checks accept, and
\* every token, the server reads the mode that was meant exactly when the request is
\* within its limits (client main.rs:395-455, auth.rs:125-196).
THEOREM Understanding == Spec => []RequestUnderstood
<1>1. ASSUME IInv PROVE RequestUnderstood
  <2> SUFFICES ASSUME NEW t \in sent
               PROVE  ParseRequest(RequestOn(t)) = mode[Owner(t)] <=> ~Defective(Owner(t))
    BY DEF RequestUnderstood
  <2>1. Owner(t) \in Clients /\ ModeMeant(Owner(t))
    BY <1>1, ConnParts DEF IInv, TypeOK, ModeSettled
  <2> QED
    BY <1>1, <2>1, UnderstoodUnlessDefective DEF RequestOn
<1> QED
  BY <1>1, Inductive, PTL

-----------------------------------------------------------------------------
(* Both sides of a connection: what the liveness of a start and of a tunnel *)
(* rests on.                                                                *)

\* The server has let t past authentication and still has a task, an id or a handle
\* for it.
Involved(t) ==
  \/ clientId[t] # 0
  \/ pc[t] \in {"bench", "register", "lock", "close", "setup", "pump"}
  \/ active.conn = t
  \/ \E u \in Conns : previous[u] = t

\* It does so only after it wrote AUTH_OK.
AnsweredFirst == \A t \in Conns : Involved(t) => answer[t] = "OK"

\* The answer is the last thing authentication does.
AnswerLast == \A t \in Conns : answer[t] # "none" => pc[t] \notin {"idle", "handshake", "auth"}

\* A process is past its handshake only if the server has a task for it, and past the
\* answer only if there was one; only without a benchmark does it become a tunnel.
Heard ==
  \A c \in Clients :
    /\ cpc[c] \in {"auth", "await", "up", "hold", "bench"} => pc[Cur(c)] # "idle"
    /\ cpc[c] \in {"up", "hold", "bench"} => answer[Cur(c)] = "OK"
    /\ cpc[c] = "up" => Args(c).bench = "none"

\* The server runs a benchmark for a process that asked for one, or whose token has a
\* second line that reads like it.
BenchMeant ==
  \A t \in Conns : pc[t] = "bench" =>
    Args(Owner(t)).bench # "none" \/ Len(how[Owner(t)].token.lines) > 1

\* A task past the handshake has a connection, open or closed.
Shaken ==
  \A t \in Conns : conn[t] = "none" => pc[t] \in {"idle", "handshake", "exit", "done"}

Ties == AnsweredFirst /\ AnswerLast /\ Heard /\ BenchMeant /\ Shaken

\* The table gets involved with a connection by an Ok of server_authenticate only.
LEMMA InvolvedByAuth ==
  ASSUME Server!TypeOK, Server!Next, NEW t \in Conns, Involved(t)', ~Involved(t)
  PROVE  pc[t] = "auth" /\ pc'[t] \in {"register", "bench"}
<1> USE DEF Server!Goto, Server!PumpPhase, Server!Transports, Involved, Server!TypeOK
<1>1. ASSUME NEW u \in Conns, Server!Return(u) PROVE FALSE
  BY <1>1 DEF Server!Return
<1>2. ASSUME NEW u \in Conns,
             \/ Server!Accept(u) \/ Server!StreamsReady(u) \/ Server!HandshakeDone(u)
             \/ Server!PeerGone(u) \/ Server!TakeId(u)
      PROVE  FALSE
  BY <1>2 DEF Server!Accept, Server!TakeId, Server!StreamsReady, Server!HandshakeDone,
     Server!PeerGone
<1>3. ASSUME NEW u \in Conns, Server!Replace(u) \/ Server!ClosePrevious(u) PROVE FALSE
  BY <1>3, ConnAssumption DEF Server!Replace, Server!ClosePrevious
<1>4. ASSUME NEW u \in Conns, Server!Cleanup(u) PROVE FALSE
  BY <1>4, ConnAssumption DEF Server!Cleanup, Server!NoClient
<1>5. CASE Server!Restart
  BY <1>5, ConnAssumption DEF Server!Restart, Server!NoClient
<1>6. ASSUME NEW u \in Conns, Server!AuthVpn(u) \/ Server!AuthBench(u)
      PROVE  pc[t] = "auth" /\ pc'[t] \in {"register", "bench"}
  BY <1>6 DEF Server!AuthVpn, Server!AuthBench, Server!AuthAs
<1>7. ASSUME NEW u \in Conns, Server!Progress(u)
      PROVE  pc[t] = "auth" /\ pc'[t] \in {"register", "bench"}
  BY <1>1, <1>2, <1>3, <1>4, <1>6, <1>7 DEF Server!Progress, Server!HandshakeFailed,
     Server!AuthFailed, Server!BenchEnd, Server!CapacityTooSmall, Server!SessionLost
<1> QED
  BY <1>1, <1>2, <1>5, <1>7 DEF Server!Next, Server!PumpError

\* No task goes back to before its authentication.
LEMMA NeverBack ==
  ASSUME Server!TypeOK, Server!Next, NEW t \in Conns
  PROVE  /\ pc[t] # "idle" => pc'[t] # "idle"
         /\ pc[t] \notin {"idle", "handshake", "auth"} =>
              pc'[t] \notin {"idle", "handshake", "auth"}
         /\ pc[t] # "bench" /\ pc'[t] = "bench" => pc[t] = "auth"
<1> USE DEF Server!Goto, Server!PumpPhase, Server!Transports, Server!TypeOK
<1> DEFINE Goal == /\ pc[t] # "idle" => pc'[t] # "idle"
                   /\ pc[t] \notin {"idle", "handshake", "auth"} =>
                        pc'[t] \notin {"idle", "handshake", "auth"}
                   /\ pc[t] # "bench" /\ pc'[t] = "bench" => pc[t] = "auth"
<1>1. ASSUME NEW u \in Conns, Server!Return(u) PROVE Goal
  BY <1>1 DEF Server!Return
<1>2. ASSUME NEW u \in Conns,
             \/ Server!Accept(u) \/ Server!StreamsReady(u) \/ Server!HandshakeDone(u)
             \/ Server!PeerGone(u) \/ Server!TakeId(u) \/ Server!Replace(u)
             \/ Server!ClosePrevious(u) \/ Server!Cleanup(u) \/ Server!AuthVpn(u)
             \/ Server!AuthBench(u)
      PROVE  Goal
  BY <1>2 DEF Server!Accept, Server!TakeId, Server!StreamsReady, Server!HandshakeDone,
     Server!PeerGone, Server!Replace, Server!ClosePrevious, Server!Cleanup, Server!AuthVpn,
     Server!AuthBench, Server!AuthAs
<1>3. CASE Server!Restart
  BY <1>3 DEF Server!Restart
<1>4. ASSUME NEW u \in Conns, Server!Progress(u) PROVE Goal
  BY <1>1, <1>2, <1>4 DEF Server!Progress, Server!HandshakeFailed,
     Server!AuthFailed, Server!BenchEnd, Server!CapacityTooSmall, Server!SessionLost
<1> QED
  BY <1>1, <1>2, <1>3, <1>4 DEF Server!Next, Server!PumpError

LEMMA ShakenKept ==
  ASSUME Server!TypeOK, Server!Next, Shaken
  PROVE  Shaken'
<1> USE DEF Server!Goto, Server!PumpPhase, Server!Transports, Server!TypeOK, Shaken
<1>1. ASSUME NEW u \in Conns, Server!Return(u) PROVE Shaken'
  BY <1>1 DEF Server!Return, Server!DropUnreferenced
<1>2. ASSUME NEW u \in Conns,
             \/ Server!Accept(u) \/ Server!StreamsReady(u) \/ Server!HandshakeDone(u)
             \/ Server!PeerGone(u) \/ Server!TakeId(u) \/ Server!Replace(u)
             \/ Server!AuthVpn(u) \/ Server!AuthBench(u)
      PROVE  Shaken'
  BY <1>2 DEF Server!Accept, Server!TakeId, Server!StreamsReady, Server!HandshakeDone,
     Server!PeerGone, Server!Replace, Server!AuthVpn, Server!AuthBench, Server!AuthAs
<1>3. ASSUME NEW u \in Conns, Server!ClosePrevious(u) PROVE Shaken'
  BY <1>3 DEF Server!ClosePrevious
<1>4. ASSUME NEW u \in Conns, Server!Cleanup(u) PROVE Shaken'
  BY <1>4 DEF Server!Cleanup, Server!DropUnreferenced
<1>5. CASE Server!Restart
  BY <1>5 DEF Server!Restart
<1>6. ASSUME NEW u \in Conns, Server!Progress(u) PROVE Shaken'
  BY <1>1, <1>2, <1>3, <1>4, <1>6 DEF Server!Progress, Server!HandshakeFailed,
     Server!AuthFailed, Server!BenchEnd, Server!CapacityTooSmall, Server!SessionLost
<1> QED
  BY <1>1, <1>2, <1>5, <1>6 DEF Server!Next, Server!PumpError

\* Past server_authenticate is only who was answered OK by it.
LEMMA AdmittedByAnswer ==
  ASSUME IInv,
         \/ ServerRestarts
         \/ \E u \in Conns : \/ ServerAccepts(u) \/ ServerStep(u) \/ ServerPumps(u)
                             \/ ServerLosesPeer(u),
         NEW t \in Conns, pc[t] = "auth", pc'[t] \in {"register", "bench"}
  PROVE  ServerAdmits(t)
<1>1. Server!TypeOK
  BY DEF IInv, TypeOK
<1>2. ASSUME NEW u \in Conns, ServerAccepts(u) \/ ServerLosesPeer(u) PROVE FALSE
  BY <1>1, <1>2 DEF ServerAccepts, ServerLosesPeer, Server!Accept, Server!PeerGone,
     Server!Goto, Server!TypeOK
<1>3. ~ServerRestarts
  BY DEF ServerRestarts, Server!Restart
<1>4. PICK u \in Conns : ServerStep(u) \/ ServerPumps(u)
  BY <1>2, <1>3
<1>5. Server!Progress(u) \/ Server!StreamsReady(u) \/ Server!PumpError(u)
  BY <1>4 DEF ServerStep, ServerPumps, ServerAdmits, ServerRefuses, ServerGivesUp,
     ServerFindsPathSmall, ServerContinues, Server!Progress
<1>6. u = t
  BY <1>1, <1>5, TaskMoves
<1>7. ~Server!Return(t)
  BY <1>1 DEF Server!Return, Server!Goto, Server!TypeOK
<1>8. ~ServerContinues(t)
  BY <1>1, <1>7 DEF ServerContinues, Server!HandshakeDone, Server!HandshakeFailed,
     Server!BenchEnd, Server!TakeId, Server!Replace, Server!ClosePrevious,
     Server!SessionLost, Server!Cleanup
<1> QED
  BY <1>4, <1>6, <1>7, <1>8 DEF ServerStep, ServerPumps, ServerRefuses, ServerGivesUp,
     ServerFindsPathSmall, Server!AuthFailed, Server!CapacityTooSmall,
     Server!StreamsReady, Server!PumpError

\* A process that asks for the tunnel with a token of one line is not taken for a
\* benchmark.
LEMMA BenchAsked ==
  ASSUME IInv, NEW t \in Conns, t \in sent,
         ParseRequest(RequestOn(t)).kind \notin {"vpn", "bad"}
  PROVE  Args(Owner(t)).bench # "none" \/ Len(how[Owner(t)].token.lines) > 1
<1> SUFFICES ASSUME Args(Owner(t)).bench = "none" PROVE Len(how[Owner(t)].token.lines) > 1
  OBVIOUS
<1> DEFINE lines == how[Owner(t)].token.lines
<1>1. Owner(t) \in Clients /\ ModeMeant(Owner(t)) /\ how \in Scenarios
  BY ConnParts DEF IInv, TypeOK, ModeSettled
<1>2. lines # <<>> /\ lines \in Seq({lines[i] : i \in DOMAIN lines})
  BY <1>1, ScenariosAssumption
<1>3. RequestOn(t).lines = lines
  BY <1>1 DEF ModeMeant, Vpn, RequestOn, Request
<1>4. Len(lines) \in Nat /\ Len(lines) # 0
  BY <1>2
<1>5. BadRequest.kind = "bad" /\ Vpn.kind = "vpn"
  BY DEF BadRequest, Vpn
<1>6. Len(lines) # 1
  BY <1>3, <1>5, ParseCases
<1>7. \A n \in Nat : n # 0 /\ n # 1 => n > 1
  OBVIOUS
<1> QED
  BY <1>4, <1>6, <1>7

\* A step of the server, its answer to a client included.
LEMMA ServerTies ==
  ASSUME IInv, Ties,
         \/ ServerRestarts
         \/ \E t \in Conns : \/ ServerAccepts(t) \/ ServerStep(t) \/ ServerPumps(t)
                             \/ ServerLosesPeer(t)
  PROVE  Ties'
<1>1. Server!TypeOK /\ answer \in [Conns -> {"none", "OK", "ERR"}]
  BY DEF IInv, TypeOK
<1>2. Server!Next
  BY DEF ServerRestarts, ServerAccepts, ServerStep, ServerPumps, ServerLosesPeer, ServerAdmits,
     ServerRefuses, ServerGivesUp, ServerFindsPathSmall, ServerContinues, Server!Next, Server!Progress
<1>3. UNCHANGED <<how, mode, cpc, dialed, attempt, run, end, sent>>
  BY DEF ServerRestarts, ServerAccepts, ServerStep, ServerPumps, ServerLosesPeer,
     ServerAdmits, ServerRefuses, ServerGivesUp, ServerFindsPathSmall, ServerContinues, cvars
<1>4. \/ UNCHANGED answer
      \/ \E t \in Conns : ServerAdmits(t) \/ ServerRefuses(t)
  BY DEF ServerRestarts, ServerAccepts, ServerStep, ServerPumps, ServerLosesPeer,
     ServerGivesUp, ServerFindsPathSmall, ServerContinues, cvars
<1>5. ASSUME NEW t \in Conns, answer'[t] # answer[t]
      PROVE  answer[t] = "none" /\ pc'[t] \notin {"idle", "handshake", "auth"}
  <2>1. PICK u \in Conns : ServerAdmits(u) \/ ServerRefuses(u)
    BY <1>4, <1>5
  <2>2. u = t
    BY <1>1, <1>5, <2>1 DEF ServerAdmits, ServerRefuses
  <2>3. pc[t] = "auth" /\ answer[t] = "none"
    BY <2>1, <2>2 DEF ServerAdmits, ServerRefuses, Understood, Ties, AnswerLast
  <2>4. pc'[t] \in {"bench", "register", "exit"}
    BY <1>1, <2>1, <2>2 DEF ServerAdmits, ServerRefuses, Server!AuthVpn, Server!AuthBench,
       Server!AuthAs, Server!AuthFailed, Server!Return, Server!Goto, Server!TypeOK
  <2> QED
    BY <2>3, <2>4
<1>6. AnswerLast'
  BY <1>1, <1>2, <1>5, NeverBack DEF Ties, AnswerLast
<1>7. AnsweredFirst'
  <2> SUFFICES ASSUME NEW t \in Conns, Involved(t)' PROVE answer'[t] = "OK"
    BY DEF AnsweredFirst
  <2>1. CASE Involved(t)
    BY <1>5, <2>1 DEF Ties, AnsweredFirst
  <2>2. CASE ~Involved(t)
    <3>1. ServerAdmits(t)
      BY <1>1, <1>2, <2>2, InvolvedByAuth, AdmittedByAnswer
    <3> QED
      BY <1>1, <3>1 DEF ServerAdmits
  <2> QED
    BY <2>1, <2>2
<1>8. Heard'
  <2> SUFFICES ASSUME NEW c \in Clients, cpc[c] \in {"auth", "await", "up", "hold", "bench"}
               PROVE  /\ pc'[Cur(c)] # "idle"
                      /\ cpc[c] \in {"up", "hold", "bench"} => answer'[Cur(c)] = "OK"
                      /\ cpc[c] = "up" => Args(c).bench = "none"
    BY <1>3 DEF Heard, Cur, Args
  <2>1. Cur(c) \in Conns
    BY CurMade DEF IInv, StartChecked, Live, Starting
  <2> QED
    BY <1>1, <1>2, <1>5, <2>1, NeverBack DEF Ties, Heard
<1>9. BenchMeant'
  <2> SUFFICES ASSUME NEW t \in Conns, pc'[t] = "bench"
               PROVE  Args(Owner(t)).bench # "none" \/ Len(how[Owner(t)].token.lines) > 1
    BY <1>3 DEF BenchMeant, Args
  <2>1. CASE pc[t] = "bench"
    BY <2>1 DEF Ties, BenchMeant
  <2>2. CASE pc[t] # "bench"
    <3>1. pc[t] = "auth"
      BY <1>1, <1>2, <2>2, NeverBack
    <3>2. ServerAdmits(t)
      BY <3>1, AdmittedByAnswer
    <3>3. ~Server!AuthVpn(t)
      BY <1>1 DEF Server!AuthVpn, Server!AuthAs, Server!Goto, Server!TypeOK
    <3> QED
      BY <3>2, <3>3, BenchAsked DEF ServerAdmits, Understood
  <2> QED
    BY <2>1, <2>2
<1>10. Shaken'
  BY <1>1, <1>2, ShakenKept DEF Ties
<1> QED
  BY <1>6, <1>7, <1>8, <1>9, <1>10 DEF Ties

\* A client's step can disturb only what the client knows.
LEMMA ClientTies ==
  ASSUME IInv, Ties, UNCHANGED svars, UNCHANGED <<how, answer>>, Heard'
  PROVE  Ties'
<1>1. AnsweredFirst' /\ AnswerLast' /\ BenchMeant' /\ Shaken'
  BY DEF Ties, AnsweredFirst, AnswerLast, BenchMeant, Shaken, Involved, svars, Args
<1> QED
  BY <1>1 DEF Ties

\* What a process gets to know of its connection: one step per kind of action.
LEMMA ClientHears ==
  ASSUME IInv, Ties, NEW c \in Clients, ClientActs(c)
  PROVE  Ties'
<1>1. UNCHANGED svars
  BY DEF ClientActs
<1>2. ASSUME UNCHANGED <<how, answer>>,
             \A d \in Clients : d # c => cpc'[d] = cpc[d] /\ dialed'[d] = dialed[d],
             \/ cpc'[c] \notin {"auth", "await", "up", "hold", "bench"}
             \/ /\ dialed' = dialed /\ pc[Cur(c)] # "idle"
                /\ cpc'[c] \in {"auth", "await"}
             \/ /\ dialed' = dialed /\ pc[Cur(c)] # "idle" /\ answer[Cur(c)] = "OK"
                /\ cpc'[c] = "up" => Args(c).bench = "none"
      PROVE  Ties'
  <2>1. Heard'
    BY <1>1, <1>2 DEF Ties, Heard, Cur, Args, svars
  <2> QED
    BY <1>1, <1>2, <2>1, ClientTies
<1> USE DEF IInv, TypeOK, Numbers, Become
<1>3. CASE Start(c)
  BY <1>2, <1>3 DEF Start
<1>4. CASE SocketFails(c) \/ ConnectFails(c)
  BY <1>2, <1>4 DEF SocketFails, ConnectFails, AttemptOver
<1>5. CASE Dial(c)
  BY <1>2, <1>5 DEF Dial
<1>6. CASE Connected(c)
  BY <1>2, <1>6 DEF Connected
<1>7. CASE SendRequest(c)
  BY <1>2, <1>7 DEF SendRequest, Ties, Heard
<1>8. CASE Answered(c)
  BY <1>2, <1>8 DEF Answered, Ties, Heard
<1>9. CASE BenchDone(c)
  BY <1>2, <1>9 DEF BenchDone
<1>10. CASE \/ PayloadRefused(c) \/ AuthLost(c) \/ Rejected(c) \/ BenchFails(c)
            \/ UpEnds(c) \/ UpLost(c) \/ HoldEnds(c) \/ Killed(c)
  BY <1>2, <1>10 DEF PayloadRefused, AuthLost, Rejected, BenchFails, GiveUp, UpEnds, UpLost,
     HoldEnds, Killed
<1> QED
  BY <1>3, <1>4, <1>5, <1>6, <1>7, <1>8, <1>9, <1>10 DEF ClientActs, ClientStep

LEMMA NextTies == IInv /\ Ties /\ [Next]_vars => Ties'
<1> SUFFICES ASSUME IInv, Ties, [Next]_vars PROVE Ties'
  OBVIOUS
<1>1. CASE UNCHANGED vars
  BY <1>1 DEF vars, cvars, svars, Ties, AnsweredFirst, AnswerLast, Heard, BenchMeant, Shaken,
     Involved, Args, Cur
<1>2. ASSUME NEW t \in Conns, EndCloses(t) PROVE Ties'
  <2>1. Heard'
    BY <1>2 DEF EndCloses, Ties, Heard, Cur, Args, svars
  <2> QED
    BY <1>2, <2>1, ClientTies DEF EndCloses
<1> QED
  BY <1>1, <1>2, ClientHears, ServerTies DEF Next

LEMMA Tied == Spec => [](IInv /\ Ties)
<1>1. Init => Ties
  <2> SUFFICES ASSUME Init PROVE Ties
    OBVIOUS
  <2> QED
    BY ConnAssumption DEF Init, Server!Init, Server!NoClient, Ties, AnsweredFirst, AnswerLast,
       Heard, BenchMeant, Shaken, Involved
<1> QED
  BY <1>1, NextTies, Inductive, PTL DEF Spec

\* A process that waits for its answer, without a timeout of its own (auth.rs:88-91), has
\* it, or waits for a task that is bound to answer or to time out, or on a connection
\* the server has left, which its own idle timeout ends.
AwaitsSomebody ==
  \A c \in Clients : cpc[c] = "await" =>
    \/ answer[Cur(c)] # "none"
    \/ pc[Cur(c)] \in {"handshake", "auth"}
    \/ ServerLeft(Cur(c))

\* A process that believes its tunnel is up owns the slot, or is on the way to it, or
\* some task is about to close its connection, or the server has left it already; or its
\* token of several lines made the server run a benchmark, which ends by itself.
UpIsServedSoon ==
  \A c \in Clients : cpc[c] = "up" =>
    \/ active.conn = Cur(c)
    \/ pc[Cur(c)] \in {"register", "lock"}
    \/ pc[Cur(c)] = "bench" /\ Len(how[c].token.lines) > 1
    \/ \E u \in Conns : pc[u] = "close" /\ previous[u] = Cur(c)
    \/ ServerLeft(Cur(c))

\* What StartupEnds rests on, for any number of processes, retries and restarts: there
\* is no state in which the server's side of the connection is open with nobody left
\* to answer on it (auth.rs:88-91, server main.rs:133-147, :170-192).
THEOREM NeverWaitsInVain == Spec => []AwaitsSomebody
<1>1. ASSUME IInv, Ties, Table!IInv PROVE AwaitsSomebody
  <2> SUFFICES ASSUME NEW c \in Clients, cpc[c] = "await", answer[Cur(c)] = "none",
                      pc[Cur(c)] \notin {"handshake", "auth"}
               PROVE  ServerLeft(Cur(c))
    BY DEF AwaitsSomebody
  <2> DEFINE t == Cur(c)
  <2>1. t \in Conns
    BY <1>1, CurMade DEF IInv, StartChecked, Live, Starting
  <2>2. ~Involved(t) /\ pc[t] # "idle"
    BY <1>1, <2>1 DEF Ties, AnsweredFirst, Heard
  <2>3. pc[t] \in {"exit", "done"}
    BY <1>1, <2>1, <2>2 DEF Involved, IInv, TypeOK, Server!TypeOK, Server!Phases
  <2>4. conn[t] # "open"
    BY <1>1, <2>1, <2>2, <2>3 DEF Involved, Table!IInv, Table!HandleKept, Table!Referenced,
       Table!Running
  <2> QED
    BY <1>1, <2>1, <2>3, <2>4 DEF ServerLeft, IInv, TypeOK, Server!TypeOK
<1> QED
  BY <1>1, Tied, TableInv, PTL

\* What UpIsServedOrEnds rests on: a client displaced, refused after AUTH_OK or left by a
\* restarted server is never up on an open connection that nobody will close (server
\* main.rs:133-147, :194-216).
THEOREM NeverUpUnserved == Spec => []UpIsServedSoon
<1>1. ASSUME IInv, Ties, Table!IInv PROVE UpIsServedSoon
  <2> SUFFICES ASSUME NEW c \in Clients, cpc[c] = "up", active.conn # Cur(c),
                      pc[Cur(c)] \notin {"register", "lock"}, ~ServerLeft(Cur(c)),
                      pc[Cur(c)] # "bench" \/ ~(Len(how[c].token.lines) > 1)
               PROVE  \E u \in Conns : pc[u] = "close" /\ previous[u] = Cur(c)
    BY DEF UpIsServedSoon
  <2> DEFINE t == Cur(c)
  <2>1. t \in Conns /\ Owner(t) = c
    BY <1>1, CurMade DEF IInv, StartChecked, Live, Starting
  <2>2. pc[t] \notin {"idle", "handshake", "auth", "bench"}
    BY <1>1, <2>1 DEF Ties, AnswerLast, Heard, BenchMeant
  <2>3. pc[t] \in {"close", "setup", "pump", "exit", "done"}
    BY <1>1, <2>1, <2>2 DEF IInv, TypeOK, Server!TypeOK, Server!Phases
  <2>4. conn[t] = "open"
    BY <1>1, <2>1, <2>3 DEF ServerLeft, IInv, TypeOK, Server!TypeOK, Ties, Shaken
  <2>5. CASE pc[t] \in {"close", "setup", "pump"}
    BY <1>1, <2>1, <2>4, <2>5 DEF Table!IInv, Table!DisplacedIsBeingClosed, Table!Serving
  <2>6. CASE pc[t] \in {"exit", "done"}
    <3>1. \E u \in Conns : previous[u] = t
      BY <1>1, <2>1, <2>4, <2>6 DEF Table!IInv, Table!HandleKept, Table!Referenced, Table!Running
    <3> QED
      BY <1>1, <2>1, <3>1, ConnAssumption DEF Table!IInv, Table!PreviousHeld
  <2> QED
    BY <2>3, <2>5, <2>6
<1> QED
  BY <1>1, Tied, TableInv, PTL
=============================================================================
