------------------------------ MODULE Session -------------------------------
(***************************************************************************)
(* The server's session table: one task per incoming QUIC connection       *)
(* (handle_connection and the task that wraps it), all of them competing   *)
(* for one slot, `active`, that names the client the TUN device serves.    *)
(*                                                                         *)
(* The runtime is multi-threaded, so tasks interleave at every access to   *)
(* shared state: the id counter, the slot (its mutex is never held across  *)
(* an await, so a critical section is one step) and connections, which     *)
(* one task may close under another.                                       *)
(***************************************************************************)
EXTENDS Naturals

CONSTANTS Conns,      \* the connections that ever arrive, one task for each
          NoConn      \* no connection

ASSUME NoConnAssumption == NoConn \notin Conns

VARIABLES transport,  \* vpn_transport of the running server's configuration
          pc,         \* where each task is
          clientId,   \* the task's client_id, 0 for None
          previous,   \* the connection a task took out of the slot
          conn,       \* the server's view of each QUIC connection
          active,     \* Mutex<Option<ActiveClient>>
          nextId      \* next_client_id

vars == <<transport, pc, clientId, previous, conn, active, nextId>>

Transports == {"datagram", "stream"}
Phases == {"idle", "handshake", "auth", "bench", "register", "lock", "close",
           "setup", "pump", "exit", "done"}

NoClient == [id |-> 0, conn |-> NoConn]
ActiveClient == [id : Nat \ {0}, conn : Conns]

\* Where a task of handle_connection owns a clone of its own connection.
Running == {"auth", "bench", "register", "lock", "close", "setup", "pump"}

\* Some handle keeps connection c alive: its task's own clone, the one in
\* the slot, or one a task took out of the slot and has not closed yet.
Referenced(c) ==
  \/ pc[c] \in Running
  \/ active.conn = c
  \/ \E t \in Conns : previous[t] = c

\* quinn closes a connection when the last handle to it is dropped.
DropUnreferenced(cs) ==
  [c \in Conns |-> IF cs[c] = "open" /\ ~Referenced(c)' THEN "closed" ELSE cs[c]]

Goto(t, to) == pc' = [pc EXCEPT ![t] = to]

\* handle_connection returns: the task's locals are dropped.
Return(t) ==
  /\ Goto(t, "exit")
  /\ UNCHANGED <<transport, clientId, previous, active, nextId>>
  /\ conn' = DropUnreferenced(conn)

\* The step after the slot is taken: the pumps, or the streams they need.
PumpPhase == IF transport = "datagram" THEN "pump" ELSE "setup"

-----------------------------------------------------------------------------
Init ==
  /\ transport \in Transports
  /\ pc = [t \in Conns |-> "idle"]
  /\ clientId = [t \in Conns |-> 0]
  /\ previous = [t \in Conns |-> NoConn]
  /\ conn = [t \in Conns |-> "none"]
  /\ active = NoClient
  /\ nextId = 1

\* The accept loop takes an incoming connection and spawns its task.
Accept(t) ==
  /\ pc[t] = "idle"
  /\ Goto(t, "handshake")
  /\ UNCHANGED <<transport, clientId, previous, conn, active, nextId>>

HandshakeDone(t) ==
  /\ pc[t] = "handshake"
  /\ Goto(t, "auth")
  /\ conn' = [conn EXCEPT ![t] = "open"]
  /\ UNCHANGED <<transport, clientId, previous, active, nextId>>

HandshakeFailed(t) == pc[t] = "handshake" /\ Return(t)

\* server_authenticate succeeded: it wrote its answer on an open connection.
AuthAs(t, to) ==
  /\ pc[t] = "auth" /\ conn[t] = "open"
  /\ Goto(t, to)
  /\ UNCHANGED <<transport, clientId, previous, conn, active, nextId>>

AuthVpn(t) == AuthAs(t, "register")
AuthBench(t) == AuthAs(t, "bench")

\* A bad token or request, a lost connection, or the 10 s timeout.
AuthFailed(t) == pc[t] = "auth" /\ Return(t)

\* run_bench ends, with a result or an error; it never looks at the slot.
BenchEnd(t) == pc[t] = "bench" /\ Return(t)

\* ensure_datagram_capacity finds the path too small for the TUN MTU.
CapacityTooSmall(t) ==
  /\ pc[t] = "register" /\ transport = "datagram"
  /\ Return(t)

\* A mistake: the counter is read, not advanced: `load` for `fetch_add`.
TakeIdLoads(t) ==
  /\ pc[t] = "register"
  /\ clientId' = [clientId EXCEPT ![t] = nextId]
  /\ Goto(t, "lock")
  /\ UNCHANGED <<transport, previous, conn, active, nextId>>

\* fetch_add outside the lock: tasks may reach the slot in another order.
TakeId(t) ==
  /\ pc[t] = "register"
  /\ clientId' = [clientId EXCEPT ![t] = nextId]
  /\ nextId' = nextId + 1
  /\ Goto(t, "lock")
  /\ UNCHANGED <<transport, previous, conn, active>>

\* A mistake: the id is read back from the counter instead of fetch_add's.
ReplaceRereadsCounter(t) ==
  /\ pc[t] = "lock"
  /\ active' = [id |-> nextId - 1, conn |-> t]
  /\ previous' = [previous EXCEPT ![t] = active.conn]
  /\ Goto(t, IF active = NoClient THEN PumpPhase ELSE "close")
  /\ UNCHANGED <<transport, clientId, conn, nextId>>

\* active.replace(..) under the lock.
Replace(t) ==
  /\ pc[t] = "lock"
  /\ active' = [id |-> clientId[t], conn |-> t]
  /\ previous' = [previous EXCEPT ![t] = active.conn]
  /\ Goto(t, IF active = NoClient THEN PumpPhase ELSE "close")
  /\ UNCHANGED <<transport, clientId, conn, nextId>>

\* A mistake: the displaced client is dropped from the slot but not closed.
ForgetPrevious(t) ==
  /\ pc[t] = "close"
  /\ previous' = [previous EXCEPT ![t] = NoConn]
  /\ Goto(t, PumpPhase)
  /\ UNCHANGED <<transport, clientId, conn, active, nextId>>

\* previous.connection.close(..), after the lock was released.
ClosePrevious(t) ==
  /\ pc[t] = "close"
  /\ conn' = [conn EXCEPT ![previous[t]] = "closed"]
  /\ previous' = [previous EXCEPT ![t] = NoConn]
  /\ Goto(t, PumpPhase)
  /\ UNCHANGED <<transport, clientId, active, nextId>>

\* Stream transport: both unidirectional streams are there.  A stream that
\* arrived before the connection was closed can still be accepted.
StreamsReady(t) ==
  /\ pc[t] = "setup"
  /\ Goto(t, "pump")
  /\ UNCHANGED <<transport, clientId, previous, conn, active, nextId>>

\* open_uni, accept_uni or a pump sees that the connection is closed.
SessionLost(t) ==
  /\ pc[t] \in {"setup", "pump"} /\ conn[t] = "closed"
  /\ Return(t)

\* A pump ends while the connection is up: a TUN error, a bad stream frame,
\* or the end of the client's stream.
PumpError(t) == pc[t] = "pump" /\ Return(t)

\* Mistakes: the slot is cleared whoever owns it, or is not cleared at all.
CleanupAnyOwner(t) ==
  /\ pc[t] = "exit"
  /\ active' = IF clientId[t] # 0 THEN NoClient ELSE active
  /\ Goto(t, "done")
  /\ UNCHANGED <<transport, clientId, previous, nextId>>
  /\ conn' = DropUnreferenced(conn)

CleanupKeepsSlot(t) ==
  /\ pc[t] = "exit"
  /\ Goto(t, "done")
  /\ UNCHANGED <<transport, clientId, previous, active, nextId>>
  /\ conn' = DropUnreferenced(conn)

\* The rest of the spawned task: clear the slot if it still is this task's.
Cleanup(t) ==
  /\ pc[t] = "exit"
  /\ active' = IF clientId[t] # 0 /\ active.id = clientId[t] THEN NoClient ELSE active
  /\ Goto(t, "done")
  /\ UNCHANGED <<transport, clientId, previous, nextId>>
  /\ conn' = DropUnreferenced(conn)

\* External: the peer closes the connection, or it times out.
PeerGone(t) ==
  /\ conn[t] = "open"
  /\ conn' = [conn EXCEPT ![t] = "closed"]
  /\ UNCHANGED <<transport, pc, clientId, previous, active, nextId>>

\* External: the process dies or is restarted by systemd, perhaps with the
\* other transport configured.  Tasks and connections are gone, ids restart.
Restart ==
  /\ transport' \in Transports
  /\ pc' = [t \in Conns |-> IF pc[t] = "idle" THEN "idle" ELSE "done"]
  /\ clientId' = [t \in Conns |-> 0]
  /\ previous' = [t \in Conns |-> NoConn]
  /\ conn' = [t \in Conns |-> IF conn[t] = "open" THEN "closed" ELSE conn[t]]
  /\ active' = NoClient
  /\ nextId' = 1

\* What the task itself does next, whatever its client does.
Progress(t) ==
  \/ HandshakeDone(t) \/ HandshakeFailed(t)
  \/ AuthVpn(t) \/ AuthBench(t) \/ AuthFailed(t) \/ BenchEnd(t)
  \/ CapacityTooSmall(t) \/ TakeId(t) \/ Replace(t) \/ ClosePrevious(t)
  \/ SessionLost(t) \/ Cleanup(t)

Next ==
  \/ \E t \in Conns : Progress(t)
  \/ \E t \in Conns : Accept(t) \/ StreamsReady(t) \/ PumpError(t) \/ PeerGone(t)
  \/ Restart

\* Handshake, authentication and benchmark are bounded by timeouts, the
\* mutex is fair, and a closed connection fails the await of its task.
Fairness == \A t \in Conns : WF_vars(Progress(t))

Spec == Init /\ [][Next]_vars /\ Fairness

-----------------------------------------------------------------------------
\* The types.  An id a task has is one the counter handed out and will not hand out
\* again (:198-199).
TypeOK ==
  /\ transport \in Transports
  /\ pc \in [Conns -> Phases]
  /\ clientId \in [Conns -> Nat] /\ \A t \in Conns : clientId[t] < nextId
  /\ previous \in [Conns -> Conns \cup {NoConn}]
  /\ conn \in [Conns -> {"none", "open", "closed"}]
  /\ active \in ActiveClient \cup {NoClient}
  /\ nextId \in Nat \ {0}

\* A task that took the slot and has not returned.
Serving(t) == pc[t] \in {"close", "setup", "pump"}

\* Of all sessions with an open connection that pump the one TUN device, or
\* are about to, only the owner of the slot is there to stay: for any other,
\* the task that displaced it is on its way to close its connection (:200-216).
\* In particular no pumping session is left with an empty slot by another
\* task's clean-up (:133-141).
DisplacedIsBeingClosed ==
  \A t \in Conns :
    Serving(t) /\ conn[t] = "open" =>
      \/ active.conn = t
      \/ \E u \in Conns : pc[u] = "close" /\ previous[u] = t

\* The slot never outlives its task: it names a session whose task still runs
\* and will clear the slot itself, under the id the task took (:133-141).
SlotHasLiveOwner ==
  active # NoClient =>
    /\ pc[active.conn] \in {"close", "setup", "pump", "exit"}
    /\ clientId[active.conn] = active.id

\* A task that is gone leaves no open connection behind, so no client waits on
\* a tunnel nobody serves: the slot's clone and a displaced clone are dropped
\* by whoever holds them (:133-141, :207-216).
NoOrphanConnection ==
  \A t \in Conns : pc[t] = "done" /\ conn[t] = "open" =>
    \E u \in Conns : pc[u] = "close" /\ previous[u] = t

\* Every displaced session ends, and with it its use of the TUN device: its
\* connection is closed and its pumps return (:207-216, :232-235, :256-259).
DisplacedEnds ==
  \A t \in Conns : (Serving(t) /\ active.conn # t) ~> pc[t] = "done"

\* Refinement mapping.  The admitted sessions with an open connection are
\* attached to the tunnel; a task past the point where it could take the slot
\* is spent.
Attached == {t \in Conns : clientId[t] # 0 /\ pc[t] # "lock" /\ conn[t] = "open"}
Spent == {t \in Conns : pc[t] \in {"bench", "close", "setup", "pump", "exit", "done"}}

Abstract ==
  INSTANCE SingleClient WITH served <- active.conn, connected <- Attached, spent <- Spent

\* The server implements the one-owner tunnel of SingleClient: every access to
\* the slot by every task (:133-141, :198-216) is an admission, a release or
\* invisible, and a displaced session is always disconnected.
ImplementsSingleClient == Abstract!Spec
=============================================================================
