---------------------------- MODULE ClientRoutes ----------------------------
(***************************************************************************)
(* The macOS client and the routing table: successive or concurrent runs of *)
(* litevpn-client with route_all set, each of which removes stale routes,  *)
(* connects, installs three routes through RouteGuard, serves, and removes *)
(* them.  A run can be killed between any two `route` commands, and any    *)
(* command can fail.  The table outlives the runs.                         *)
(***************************************************************************)
EXTENDS Naturals

CONSTANTS Procs,       \* the runs of litevpn-client
          NoProc,      \* no run yet
          Concurrent   \* whether a run may start while another is alive

ASSUME NoProcAssumption == NoProc \notin Procs
ASSUME ConcurrentAssumption == Concurrent \in BOOLEAN

VARIABLES pc,          \* where each run is
          kind,        \* what it was started for
          purpose,     \* why it is deleting routes
          step,        \* which route of the list is next
          failed,      \* one of its clean-up commands failed
          table,       \* LiteVPN's routes in the system's table
          latest       \* the run that was started last

vars == <<pc, kind, purpose, step, failed, table, latest>>

\* The host route to the server and the two halves of the default route.
Routes == {"host", "low", "high"}
Halves == {"low", "high"}
AddOrder == <<"host", "low", "high">>

\* A mistake: undo in the order of installation.
DeleteHostFirst == <<"host", "low", "high">>
DeleteOrder == <<"low", "high", "host">>

\* A VPN run by its transport, a probe or benchmark, --cleanup-routes.
Kinds == {"datagram", "stream", "probe", "cleanup"}
Phases == {"off", "stale", "delete", "connect", "auth", "gateway", "add", "setup",
           "pump", "close", "ended", "killed", "refused"}
Purposes == {"none", "stale", "install", "rollback", "shutdown", "drop"}

Alive(p) == pc[p] \notin {"off", "ended", "killed", "refused"}

Init ==
  /\ pc = [p \in Procs |-> "off"]
  /\ kind \in [Procs -> Kinds]
  /\ purpose = [p \in Procs |-> "none"]
  /\ step = [p \in Procs |-> 1]
  /\ failed = [p \in Procs |-> FALSE]
  /\ table = {}
  /\ latest = NoProc

Goto(p, to) == pc' = [pc EXCEPT ![p] = to]

Move(p, from, to) ==
  /\ pc[p] = from
  /\ Goto(p, to)
  /\ UNCHANGED <<kind, purpose, step, failed, table, latest>>

\* cleanup_routes: three deletions, for one of several reasons.
BeginDelete(p, why) ==
  /\ Goto(p, "delete")
  /\ purpose' = [purpose EXCEPT ![p] = why]
  /\ step' = [step EXCEPT ![p] = 1]
  /\ UNCHANGED <<kind, failed, table, latest>>

AfterStale(p) == IF kind[p] = "cleanup" THEN "ended" ELSE "connect"

\* Where the run goes when cleanup_routes returns.  Only cleanup_stale looks at
\* the result.
AfterDelete(p, bad) ==
  CASE purpose[p] = "stale" -> IF bad THEN "ended" ELSE AfterStale(p)
    [] purpose[p] = "install" -> "add"
    [] purpose[p] = "shutdown" -> "close"
    [] OTHER -> "ended"

\* A mistake: one deletion too many.
AdvanceTooFar(p, bad) ==
  /\ step' = [step EXCEPT ![p] = IF step[p] <= 3 THEN step[p] + 1 ELSE 1]
  /\ Goto(p, IF step[p] <= 3 THEN "delete" ELSE AfterDelete(p, bad))
  /\ failed' = [failed EXCEPT ![p] = bad]
  /\ UNCHANGED <<kind, purpose, latest>>

\* The next deletion, or the end of the list.
AdvanceDelete(p, bad) ==
  /\ step' = [step EXCEPT ![p] = IF step[p] < 3 THEN step[p] + 1 ELSE 1]
  /\ Goto(p, IF step[p] < 3 THEN "delete" ELSE AfterDelete(p, bad))
  /\ failed' = [failed EXCEPT ![p] = bad]
  /\ UNCHANGED <<kind, purpose, latest>>

-----------------------------------------------------------------------------
Start(p) ==
  /\ pc[p] = "off"
  /\ Concurrent \/ \A q \in Procs : ~Alive(q)
  /\ Goto(p, "stale")
  /\ latest' = p
  /\ UNCHANGED <<kind, purpose, step, failed, table>>

\* main returns before it has looked at the table: the configuration cannot be read or
\* is not valid, the server's address is none or is not IPv4.
Refuse(p) == Move(p, "stale", "refused")

\* A mistake: stale routes are looked for, but only removed on request.
IgnoreStale(p) ==
  /\ pc[p] = "stale"
  /\ IF table # {} /\ kind[p] = "cleanup"
       THEN BeginDelete(p, "stale")
       ELSE Move(p, "stale", AfterStale(p))

\* cleanup_stale: netstat shows routes of LiteVPN, whoever installed them.
FindStale(p) ==
  /\ pc[p] = "stale"
  /\ IF table # {}
       THEN BeginDelete(p, "stale")
       ELSE Move(p, "stale", AfterStale(p))

NetstatFails(p) ==
  /\ pc[p] = "stale"
  /\ Goto(p, "ended")
  /\ failed' = [failed EXCEPT ![p] = TRUE]
  /\ UNCHANGED <<kind, purpose, step, table, latest>>

\* delete_route: deleted, or "not in table".
DeleteRoute(p) ==
  /\ pc[p] = "delete"
  /\ table' = table \ {DeleteOrder[step[p]]}
  /\ AdvanceDelete(p, failed[p])

DeleteFails(p) ==
  /\ pc[p] = "delete"
  /\ table' = table
  /\ AdvanceDelete(p, TRUE)

Connected(p) == Move(p, "connect", "auth")

\* The server's answer; a VPN run then has a TUN device and installs routes.
Authenticated(p) == Move(p, "auth", IF kind[p] = "probe" THEN "ended" ELSE "gateway")

\* connect_client ran out of retries, authentication or a benchmark failed, the
\* TUN device or the default gateway is not to be had.
GiveUp(p) ==
  /\ pc[p] \in {"connect", "auth", "gateway"}
  /\ Move(p, pc[p], "ended")

\* RouteGuard::install: gateway first, then whatever was left is deleted.
GatewayFound(p) == pc[p] = "gateway" /\ BeginDelete(p, "install")

\* run_route: added, or "File exists".
AddRoute(p) ==
  /\ pc[p] = "add"
  /\ table' = table \cup {AddOrder[step[p]]}
  /\ step' = [step EXCEPT ![p] = IF step[p] < 3 THEN step[p] + 1 ELSE 1]
  /\ Goto(p, IF step[p] < 3 THEN "add" ELSE IF kind[p] = "stream" THEN "setup" ELSE "pump")
  /\ UNCHANGED <<kind, purpose, failed, latest>>

\* A mistake: a route that could not be added is skipped.
AddSkipped(p) ==
  /\ pc[p] = "add"
  /\ step' = [step EXCEPT ![p] = IF step[p] < 3 THEN step[p] + 1 ELSE 1]
  /\ Goto(p, IF step[p] < 3 THEN "add" ELSE "pump")
  /\ UNCHANGED <<kind, purpose, failed, table, latest>>

AddFails(p) == pc[p] = "add" /\ BeginDelete(p, "rollback")

StreamsReady(p) == Move(p, "setup", "pump")

\* A mistake: `?` returns from main and no guard cleans up.
StreamsFailNoDrop(p) == Move(p, "setup", "ended")

\* `?` returns from main and the RouteGuard is dropped.
StreamsFail(p) == pc[p] = "setup" /\ BeginDelete(p, "drop")

\* A pump ended or the shutdown signal came: RouteGuard::cleanup.
PumpsEnd(p) == pc[p] = "pump" /\ BeginDelete(p, "shutdown")

\* connection.close and wait_idle; the guard's own drop finds nothing to do.
CloseConnection(p) == Move(p, "close", "ended")

\* External: killed, or a signal where shutdown_signal is not polled.
Killed(p) == Alive(p) /\ Move(p, pc[p], "killed")

Next ==
  \E p \in Procs :
    \/ Start(p) \/ Refuse(p) \/ FindStale(p) \/ NetstatFails(p) \/ DeleteRoute(p) \/ DeleteFails(p)
    \/ Connected(p) \/ Authenticated(p) \/ GiveUp(p) \/ GatewayFound(p)
    \/ AddRoute(p) \/ AddFails(p) \/ StreamsReady(p) \/ StreamsFail(p)
    \/ PumpsEnd(p) \/ CloseConnection(p) \/ Killed(p)

Spec == Init /\ [][Next]_vars

-----------------------------------------------------------------------------
TypeOK ==
  /\ pc \in [Procs -> Phases]
  /\ kind \in [Procs -> Kinds]
  /\ purpose \in [Procs -> Purposes]
  /\ step \in [Procs -> 1..3]
  /\ failed \in [Procs -> BOOLEAN]
  /\ table \subseteq Routes
  /\ latest \in Procs \cup {NoProc}

\* However earlier runs ended - killed half-way, or with deletions that failed -
\* a run that gets as far as connecting does so outside any old tunnel route
\* (main.rs:102-110, macos_routes.rs:14-30; OPTIMIZATION_LOG.md:174).
ConnectsOutsideTunnel ==
  \A p \in Procs : pc[p] \in {"connect", "auth", "gateway"} => table = {}

\* The run uses its connection while routes change.
Routing(p) ==
  \/ pc[p] \in {"add", "setup", "pump", "close"}
  \/ pc[p] = "delete" /\ purpose[p] \in {"install", "rollback", "shutdown"}

\* While the tunnel is being set up, used or taken down, the server is never
\* behind a half of the default route without its host route, where the tunnel's
\* own packets would loop into the tunnel (macos_routes.rs:40-52, :88-94), as
\* long as deletions work.
ServerStaysReachable ==
  \A p \in Procs :
    Routing(p) /\ ~failed[p] /\ table \cap Halves # {} => "host" \in table

\* No packet pump starts with part of the traffic outside the tunnel: a failed
\* addition rolls back instead (macos_routes.rs:40-57).
PumpsFullyRouted ==
  \A p \in Procs : pc[p] \in {"setup", "pump"} => table = Routes

\* A run that got as far as looking for stale routes and was not killed leaves no route
\* behind, its own or an earlier run's, whichever way it ends: refused connection,
\* rollback, failed stream set-up, pump error, shutdown; unless a clean-up command failed
\* (macos_routes.rs:54-57, :67-86, main.rs:264-294).  A run with a configuration it
\* refuses ends before that, and leaves what a killed run left.
LeavesNoRoutes ==
  \A p \in Procs : p = latest /\ pc[p] = "ended" /\ ~failed[p] => table = {}

\* "On macOS the client removes stale LiteVPN split-default routes before
\* connecting" (README.md:68): no other run takes a route away from a run whose
\* tunnel is up.
LiveRoutesKept ==
  [][\A p \in Procs : pc[p] = "pump" /\ pc'[p] = "pump" => table \subseteq table']_vars
=============================================================================
