------------------------------ MODULE Connect -------------------------------
(***************************************************************************)
(* Client processes and the server together: each process reads its        *)
(* configuration and arguments, dials (with retries), authenticates, and   *)
(* uses the connection as a tunnel, a probe or a series of benchmarks,     *)
(* while the server admits, refuses and displaces the connections.         *)
(*                                                                         *)
(* The server's steps are those of Session, taken when what the client     *)
(* sent allows them.  Each side has its own view of a connection, and      *)
(* learns late, by a close or by the idle timeout, that the other left.    *)
(***************************************************************************)
EXTENDS Settings

CONSTANTS Clients,       \* client processes
          Scenarios,     \* how they are started: config, token and args of each
          ServerConfig,  \* the server's configuration
          ServerToken,   \* and token file
          Capacities,    \* what a datagram may be able to carry, at some moment
          MaxConns,      \* connections each process can dial
          NoConn

VARIABLES how,      \* each process's invocation
          mode,     \* its auth_mode
          cpc,      \* where it is
          dialed,   \* connections it has dialed
          attempt,  \* connect_client's loop counter
          run,      \* run_bench_iterations' loop counter
          end,      \* the client's view of each connection
          sent,     \* connections on which the request was sent
          answer    \* what the server wrote on each

VARIABLES transport, pc, clientId, previous, conn, active, nextId

Conns == UNION {{c} \X (1..MaxConns[c]) : c \in Clients}
Server == INSTANCE Session

cvars == <<how, mode, cpc, dialed, attempt, run, end, sent, answer>>
svars == <<transport, pc, clientId, previous, conn, active, nextId>>
vars == <<cvars, svars>>

Starting == {"dial", "connect", "auth", "await"}
Live == Starting \cup {"up", "hold", "bench"}
ClientPhases == Live \cup {"off", "ok", "failed", "killed"}

Accepted(i) == Validate(i.config) /\ LoadToken(i.token) /\ ArgsAccepted(i.args)

\* The server's main passed its checks.
ASSUME ServerAssumption == Validate(ServerConfig) /\ LoadToken(ServerToken)

\* Without a benchmark the number of runs, whatever it says, is not looked at.
Runs(o) == IF o.bench = "none" THEN 1 ELSE o.runs

\* Every start that is accepted has connections enough.
ASSUME MaxConnsAssumption ==
  /\ MaxConns \in [Clients -> Nat]
  /\ \A s \in Scenarios, c \in Clients :
       Accepted(s[c]) => Runs(s[c].args) * s[c].args.retries <= MaxConns[c]

\* What a process is started with: any numbers the fields can hold, and a token
\* file that was read and trimmed, which has a line and a size of its own.
ASSUME ScenariosAssumption ==
  \A s \in Scenarios, c \in Clients :
    /\ s[c].config.mtu \in Nat
    /\ s[c].args.bench \in Directions \cup {"none"} /\ s[c].args.probe \in BOOLEAN
    /\ \A n \in {"retries", "delay", "target", "runs", "duration", "payload"} :
         s[c].args[n] \in Nat
    /\ LET lines == s[c].token.lines
       IN  /\ lines # <<>> /\ lines \in Seq({lines[i] : i \in DOMAIN lines})
           /\ lines = ServerToken.lines => s[c].token = ServerToken

ASSUME ConnAssumption == NoConn \notin Conns /\ Capacities \subseteq Nat

Owner(t) == t[1]
Cur(c) == <<c, dialed[c]>>
Args(c) == how[c].args
Become(c, phase) == cpc' = [cpc EXCEPT ![c] = phase]
CloseEnd(c) == end' = [end EXCEPT ![Cur(c)] = "closed"]

\* The request the server reads on t.
RequestOn(t) == Request(how[Owner(t)].token, mode[Owner(t)])

Init ==
  /\ Server!Init
  /\ how \in Scenarios
  /\ mode = [c \in Clients |-> BadRequest]
  /\ cpc = [c \in Clients |-> "off"]
  /\ dialed = [c \in Clients |-> 0]
  /\ attempt = [c \in Clients |-> 1]
  /\ run = [c \in Clients |-> 1]
  /\ end = [t \in Conns |-> "none"]
  /\ sent = {}
  /\ answer = [t \in Conns |-> "none"]

-----------------------------------------------------------------------------
(* A client process. *)

\* main up to connect_client: an invocation that is not accepted ends here.
Start(c) ==
  /\ cpc[c] = "off"
  /\ Become(c, IF Accepted(how[c]) THEN "dial" ELSE "failed")
  /\ UNCHANGED <<how, mode, dialed, attempt, run, end, sent, answer>>

\* Mistakes: one attempt too many, or the attempts are not counted.
AttemptOneMore(c) ==
  IF attempt[c] <= Args(c).retries
    THEN Become(c, "dial") /\ attempt' = [attempt EXCEPT ![c] = @ + 1]
    ELSE Become(c, "failed") /\ UNCHANGED attempt

AttemptUncounted(c) ==
  /\ Become(c, "dial")
  /\ UNCHANGED attempt

\* connect_client after a failed attempt: wait and dial again, or give up.
AttemptOver(c) ==
  IF attempt[c] < Args(c).retries
    THEN Become(c, "dial") /\ attempt' = [attempt EXCEPT ![c] = @ + 1]
    ELSE Become(c, "failed") /\ UNCHANGED attempt

\* connect_once: a fresh socket and endpoint for every attempt.
Dial(c) ==
  /\ cpc[c] = "dial" /\ dialed[c] < MaxConns[c]
  /\ dialed' = [dialed EXCEPT ![c] = @ + 1]
  /\ end' = [end EXCEPT ![<<c, dialed[c] + 1>>] = "dialing"]
  /\ Become(c, "connect")
  /\ UNCHANGED <<how, mode, attempt, run, sent, answer>>

SocketFails(c) ==
  /\ cpc[c] = "dial"
  /\ AttemptOver(c)
  /\ UNCHANGED <<how, mode, dialed, run, end, sent, answer>>

\* The handshake is done for the client once the server has answered it.
Connected(c) ==
  /\ cpc[c] = "connect" /\ pc[Cur(c)] # "idle"
  /\ end' = [end EXCEPT ![Cur(c)] = "open"]
  /\ Become(c, "auth")
  /\ UNCHANGED <<how, mode, dialed, attempt, run, sent, answer>>

\* The timeout, or a refused handshake: the attempt's connection is dropped,
\* while the server may still finish its side of the handshake.
ConnectFails(c) ==
  /\ cpc[c] = "connect"
  /\ CloseEnd(c)
  /\ AttemptOver(c)
  /\ UNCHANGED <<how, mode, dialed, run, sent, answer>>

\* The mode is settled on the first connection and kept for all runs.
ChooseMode(c) ==
  IF run[c] > 1 THEN UNCHANGED mode
  ELSE \E capacity \in Capacities :
         LET config == how[c].config IN
         /\ Args(c).bench = "none" \/ PayloadAccepted(Args(c), capacity, config.mtu)
         /\ mode' = [mode EXCEPT ![c] =
                       AuthMode(Args(c), BenchPayload(Args(c), capacity, config.mtu))]

\* client_authenticate_with_mode up to the wait for the answer.
SendRequest(c) ==
  /\ cpc[c] = "auth" /\ end[Cur(c)] = "open"
  /\ ChooseMode(c)
  /\ sent' = sent \cup {Cur(c)}
  /\ Become(c, "await")
  /\ UNCHANGED <<how, dialed, attempt, run, end, answer>>

\* The process returns an error; its connection is dropped.
GiveUp(c) ==
  /\ CloseEnd(c)
  /\ Become(c, "failed")
  /\ UNCHANGED <<how, mode, dialed, attempt, run, sent, answer>>

PayloadRefused(c) ==
  /\ cpc[c] = "auth" /\ run[c] = 1 /\ Args(c).bench # "none"
  /\ \E capacity \in Capacities : ~PayloadAccepted(Args(c), capacity, how[c].config.mtu)
  /\ GiveUp(c)

\* A mistake: a failed authentication is retried like a failed connect.
AuthLostRetried(c) ==
  /\ cpc[c] \in {"auth", "await"} /\ end[Cur(c)] = "closed"
  /\ AttemptOver(c)
  /\ UNCHANGED <<how, mode, dialed, run, end, sent, answer>>

\* The connection ends before the answer is there.
AuthLost(c) ==
  /\ cpc[c] \in {"auth", "await"} /\ end[Cur(c)] = "closed"
  /\ GiveUp(c)

Rejected(c) == cpc[c] = "await" /\ answer[Cur(c)] = "ERR" /\ GiveUp(c)

\* AUTH_OK; it can be read even when the close arrived right behind it.
Answered(c) ==
  /\ cpc[c] = "await" /\ answer[Cur(c)] = "OK"
  /\ Become(c, IF Args(c).bench # "none" THEN "bench"
               ELSE IF Args(c).probe THEN "hold" ELSE "up")
  /\ UNCHANGED <<how, mode, dialed, attempt, run, end, sent, answer>>

\* The tunnel is set up and pumped until something fails or a signal arrives;
\* Tunnel and ClientRoutes model what happens in between.
UpEnds(c) ==
  /\ cpc[c] = "up"
  /\ CloseEnd(c)
  /\ cpc' \in {[cpc EXCEPT ![c] = "failed"], [cpc EXCEPT ![c] = "ok"]}
  /\ UNCHANGED <<how, mode, dialed, attempt, run, sent, answer>>

\* The connection is closed under it, so a pump must end.
UpLost(c) == cpc[c] = "up" /\ end[Cur(c)] = "closed" /\ UpEnds(c)

\* --probe: the hold is over, or the connection was closed during it.
HoldEnds(c) ==
  /\ cpc[c] = "hold"
  /\ CloseEnd(c)
  /\ Become(c, "ok")
  /\ UNCHANGED <<how, mode, dialed, attempt, run, sent, answer>>

\* A benchmark run has a result (Bench models it): the next run, after the gap,
\* has a connection of its own.
BenchDone(c) ==
  /\ cpc[c] = "bench"
  /\ CloseEnd(c)
  /\ IF run[c] < Runs(Args(c))
       THEN /\ Become(c, "dial")
            /\ run' = [run EXCEPT ![c] = @ + 1]
            /\ attempt' = [attempt EXCEPT ![c] = 1]
       ELSE Become(c, "ok") /\ UNCHANGED <<run, attempt>>
  /\ UNCHANGED <<how, mode, dialed, sent, answer>>

\* A run failed: the error is returned and the other runs are not made.
BenchFails(c) == cpc[c] = "bench" /\ GiveUp(c)

\* External: the process is killed, or gets a signal nothing waits for yet.
Killed(c) ==
  /\ cpc[c] \in Live
  /\ end' = [t \in Conns |-> IF Owner(t) = c /\ end[t] # "none" THEN "closed" ELSE end[t]]
  /\ Become(c, "killed")
  /\ UNCHANGED <<how, mode, dialed, attempt, run, sent, answer>>

\* What a process does without waiting for anyone's decision.
ClientStep(c) ==
  \/ Dial(c) \/ SocketFails(c) \/ Connected(c) \/ ConnectFails(c)
  \/ SendRequest(c) \/ PayloadRefused(c) \/ AuthLost(c) \/ Rejected(c) \/ Answered(c)
  \/ HoldEnds(c) \/ BenchDone(c) \/ BenchFails(c)
  \/ UpLost(c)

-----------------------------------------------------------------------------
(* The server, driven by what the clients sent. *)

ServerAccepts(t) == end[t] # "none" /\ Server!Accept(t) /\ UNCHANGED cvars

\* server_authenticate read a well-formed request.
Understood(t) == pc[t] = "auth" /\ t \in sent /\ ParseRequest(RequestOn(t)).kind # "bad"

ServerAdmits(t) ==
  /\ Understood(t) /\ TokenMatches(RequestOn(t), ServerToken)
  /\ IF ParseRequest(RequestOn(t)).kind = "vpn" THEN Server!AuthVpn(t) ELSE Server!AuthBench(t)
  /\ answer' = [answer EXCEPT ![t] = "OK"]
  /\ UNCHANGED <<how, mode, cpc, dialed, attempt, run, end, sent>>

\* AUTH_ERR is written and the task returns, which closes the connection.
ServerRefuses(t) ==
  /\ Understood(t) /\ ~TokenMatches(RequestOn(t), ServerToken) /\ conn[t] = "open"
  /\ Server!AuthFailed(t)
  /\ answer' = [answer EXCEPT ![t] = "ERR"]
  /\ UNCHANGED <<how, mode, cpc, dialed, attempt, run, end, sent>>

\* A malformed request, the timeout or a lost connection: no answer at all.
ServerGivesUp(t) == Server!AuthFailed(t) /\ UNCHANGED cvars

\* After AUTH_OK, the path turns out too small for the server's MTU.
ServerFindsPathSmall(t) ==
  /\ \E capacity \in Capacities : ~EnsureDatagramCapacity(capacity, ServerConfig.mtu)
  /\ Server!CapacityTooSmall(t)
  /\ UNCHANGED cvars

ServerContinues(t) ==
  /\ \/ Server!HandshakeDone(t) \/ Server!HandshakeFailed(t) \/ Server!BenchEnd(t)
     \/ Server!TakeId(t) \/ Server!Replace(t) \/ Server!ClosePrevious(t)
     \/ Server!SessionLost(t) \/ Server!Cleanup(t)
  /\ UNCHANGED cvars

ServerStep(t) ==
  \/ ServerAdmits(t) \/ ServerRefuses(t) \/ ServerGivesUp(t)
  \/ ServerFindsPathSmall(t) \/ ServerContinues(t)

\* A probe opens no packet stream.
ServerPumps(t) ==
  /\ \/ Server!StreamsReady(t) /\ ~Args(Owner(t)).probe
     \/ Server!PumpError(t)
  /\ UNCHANGED cvars

ServerRestarts == Server!Restart /\ UNCHANGED cvars

-----------------------------------------------------------------------------
(* External: the path.  Either side may lose the other by a timeout. *)

EndCloses(t) ==
  /\ end[t] = "open"
  /\ end' = [end EXCEPT ![t] = "closed"]
  /\ UNCHANGED <<how, mode, cpc, dialed, attempt, run, sent, answer>>
  /\ UNCHANGED svars

ServerLosesPeer(t) == Server!PeerGone(t) /\ UNCHANGED cvars

\* The server has no live end of t any more.
ServerLeft(t) == conn[t] = "closed" \/ (conn[t] = "none" /\ pc[t] \in {"exit", "done"})

\* The idle timeout, or the close that was sent, ends a half of t left alone.
OtherSideLeft(t) ==
  \/ ServerLeft(t) /\ EndCloses(t)
  \/ end[t] = "closed" /\ ServerLosesPeer(t)

ClientActs(c) ==
  /\ ClientStep(c) \/ Start(c) \/ UpEnds(c) \/ Killed(c)
  /\ UNCHANGED svars

Next ==
  \/ \E c \in Clients : ClientActs(c)
  \/ \E t \in Conns : \/ ServerAccepts(t) \/ ServerStep(t) \/ ServerPumps(t)
                      \/ EndCloses(t) \/ ServerLosesPeer(t)
  \/ ServerRestarts

\* Waits of a process are bounded by timeouts or by the life of its connection,
\* server tasks run as in Session, and the idle timeout of either side ends a
\* connection that the other side has left.
Fairness ==
  /\ \A c \in Clients : WF_vars(ClientStep(c) /\ UNCHANGED svars)
  /\ \A t \in Conns :
       WF_vars(ServerStep(t)) /\ WF_vars(OtherSideLeft(t))

Spec == Init /\ [][Next]_vars /\ Fairness

-----------------------------------------------------------------------------
TypeOK ==
  /\ Server!TypeOK
  /\ how \in Scenarios
  /\ cpc \in [Clients -> ClientPhases]
  /\ \A c \in Clients : dialed[c] \in 0..MaxConns[c]
  /\ \A c \in Clients : mode[c].kind \in {"vpn", "bench", "bad"}
  /\ \A c \in Clients : cpc[c] \in Live =>
       attempt[c] \in 1..Args(c).retries /\ run[c] \in 1..Runs(Args(c))
  /\ end \in [Conns -> {"none", "dialing", "open", "closed"}]
  /\ sent \subseteq Conns
  /\ answer \in [Conns -> {"none", "OK", "ERR"}]

\* The server has admitted t to the tunnel, or is about to.
Admitted(t) ==
  active.conn = t \/ pc[t] \in {"register", "lock", "close", "setup", "pump"}

\* The tunnel is only for processes that were accepted at their start, hold the
\* server's token and asked for it: neither a wrong token (auth.rs:112-121) nor a
\* benchmark of any outcome (server main.rs:175-192) ever comes near the slot, so
\* a benchmark cannot displace the client being served.
OnlyInvitedServed ==
  \A t \in Conns : Admitted(t) =>
    LET i == how[Owner(t)] IN
    Accepted(i) /\ i.token = ServerToken /\ i.args.bench = "none"

\* A process never competes with itself: the server may finish the handshake of
\* an attempt the client abandoned (client main.rs:374-377), and may have admitted a
\* client that never saw the answer (auth.rs:88-91), but what it admits is the last
\* connection the process dials, so no process displaces its own session.
LastConnectionServed ==
  \A t \in Conns : Admitted(t) => t = Cur(Owner(t))

\* What the client's checks let through and the server's do not: a benchmark of no
\* duration, a token of several lines, a request above the server's limit.
Defective(c) ==
  \/ mode[c].kind = "bench" /\ mode[c].duration = 0
  \/ Len(how[c].token.lines) > 1
  \/ Request(how[c].token, mode[c]).bytes > MaxAuthBytes

\* Any other request the client sends is read by the server as the mode the client
\* meant, for every MTU, payload and target its own checks accept
\* (client main.rs:395-455, auth.rs:125-196).  A defective one is never read as it was
\* meant: it is not understood at all, unless the second line of the token happens
\* to ask for a benchmark.
RequestUnderstood ==
  \A t \in sent :
    LET c == Owner(t) IN
    ParseRequest(RequestOn(t)) = mode[c] <=> ~Defective(c)

\* The three properties below say that something is so again and again.  A process
\* comes to each phase a bounded number of times, so this is to say that no process
\* and no connection stays for ever in the state excluded.

\* No process hangs before its tunnel, probe or benchmark begins, although it waits
\* for the answer without a timeout (auth.rs:88-91): attempts are bounded
\* (client main.rs:321-347), and a server that refuses, times out, restarts or is
\* lost ends the connection the process waits on.
StartupEnds ==
  []<>(\A c \in Clients : cpc[c] \notin Starting)

\* A process that believes its tunnel is up is served or ends: displaced by another
\* client or by a probe (client main.rs:192-205, server main.rs:207-216), refused after
\* AUTH_OK (server main.rs:194-196) or left by a restarted server, it does not stay up
\* on a connection nobody serves.
UpIsServedOrEnds ==
  []<>(\A c \in Clients : cpc[c] = "up" => active.conn = Cur(c))

\* A client that is gone, killed without a word or timed out, does not keep the
\* slot: the server notices and clears it (server main.rs:133-147).
SlotIsFreed ==
  []<>(active # Server!NoClient => end[active.conn] # "closed")
=============================================================================
