------------------------- MODULE ClientRoutesProofs -------------------------
(***************************************************************************)
(* What RouteGuard guarantees when runs of the client follow one another,  *)
(* for any number of runs, each killed or failing anywhere.                *)
(***************************************************************************)
EXTENDS ClientRoutes, TLAPS

\* Runs follow one another: only the last one started can be alive.
OnlyLatest ==
  /\ \A p \in Procs : Alive(p) => p = latest
  /\ \A p \in Procs : pc[p] = "off" => step[p] = 1 /\ ~failed[p]

\* What the table looks like at each point of a run p.
Stepped(p) == pc[p] \notin {"delete", "add", "killed"} => step[p] = 1

Outside(p) ==
  /\ pc[p] \in {"connect", "auth", "gateway"} => table = {}
  /\ pc[p] = "delete" /\ purpose[p] = "install" => table = {}

Deleting(p) ==
  pc[p] = "delete" /\ ~failed[p] =>
    /\ step[p] > 1 => "low" \notin table
    /\ step[p] > 2 => "high" \notin table
    /\ purpose[p] # "stale" /\ table \cap Halves # {} => "host" \in table

Adding(p) ==
  pc[p] = "add" =>
    /\ step[p] = 1 => table = {}
    /\ step[p] = 2 => table = {"host"}
    /\ step[p] = 3 => table = {"host", "low"}

Settled(p) ==
  /\ pc[p] \in {"setup", "pump"} => table = Routes
  /\ pc[p] \in {"close", "ended"} /\ ~failed[p] => table = {}

RunInv(p) == Stepped(p) /\ Outside(p) /\ Deleting(p) /\ Adding(p) /\ Settled(p)

IInv ==
  /\ TypeOK
  /\ OnlyLatest
  /\ \A p \in Procs : p = latest => RunInv(p)

-----------------------------------------------------------------------------
\* Before the first run there are no routes.
LEMMA InitIInv == Init => IInv
BY NoProcAssumption
DEF Init, IInv, TypeOK, OnlyLatest, Alive, Phases, Purposes, Kinds, Routes

\* A new run may find any table, and knows nothing of it yet.
LEMMA StartIInv ==
  ASSUME IInv, ~Concurrent, NEW p \in Procs, Start(p)
  PROVE  IInv'
<1> USE DEF IInv, Start, Goto
<1>1. TypeOK'
  BY DEF TypeOK, Phases
<1>2. OnlyLatest'
  BY DEF TypeOK, OnlyLatest, Alive
<1>3. RunInv(p)'
  BY DEF TypeOK, OnlyLatest, RunInv, Stepped, Outside, Deleting, Adding, Settled
<1> QED
  BY <1>1, <1>2, <1>3

\* A step of a live run is a step of the latest one, and leaves the others as
\* they are, dead or not started.
LEMMA RunStep ==
  ASSUME IInv, NEW p \in Procs, Alive(p), TypeOK', RunInv(p)', latest' = latest,
         pc'[p] # "off",
         \A q \in Procs \ {p} : pc'[q] = pc[q] /\ step'[q] = step[q] /\ failed'[q] = failed[q]
  PROVE  IInv'
<1>1. p = latest
  BY DEF IInv, OnlyLatest
<1>2. OnlyLatest'
  BY <1>1 DEF IInv, OnlyLatest, Alive
<1> QED
  BY <1>1, <1>2 DEF IInv

\* Beginning cleanup_routes, from any table the purpose allows.
LEMMA BeginDeleteIInv ==
  ASSUME IInv, NEW p \in Procs, Alive(p), NEW why \in Purposes \ {"none"},
         BeginDelete(p, why),
         why = "install" => table = {},
         why # "stale" /\ table \cap Halves # {} => "host" \in table
  PROVE  IInv'
<1> USE DEF BeginDelete, Goto
<1>1. TypeOK'
  BY DEF IInv, TypeOK, Phases, Purposes
<1>2. RunInv(p)'
  BY DEF IInv, TypeOK, RunInv, Stepped, Outside, Deleting, Adding, Settled
<1>3. \A q \in Procs \ {p} : pc'[q] = pc[q] /\ step'[q] = step[q] /\ failed'[q] = failed[q]
  BY DEF IInv, TypeOK
<1>4. latest' = latest /\ pc'[p] = "delete"
  BY DEF IInv, TypeOK
<1> QED
  BY <1>1, <1>2, <1>3, <1>4, RunStep

\* Moving on without touching the table.
LEMMA MoveIInv ==
  ASSUME IInv, NEW p \in Procs, NEW from \in Phases, NEW to \in Phases \ {"off", "delete", "add"},
         Alive(p), Move(p, from, to),
         from \notin {"delete", "add"} \/ to = "killed",
         to \in {"connect", "auth", "gateway"} => table = {},
         to \in {"setup", "pump"} => table = Routes,
         to \in {"close", "ended"} /\ ~failed[p] => table = {}
  PROVE  IInv'
<1> USE DEF Move, Goto
<1>1. TypeOK'
  BY DEF IInv, TypeOK
<1>2. p = latest
  BY DEF IInv, OnlyLatest
<1>3. pc'[p] = to /\ step'[p] = step[p] /\ failed'[p] = failed[p]
  BY DEF IInv, TypeOK
<1>4. RunInv(p)'
  BY <1>2, <1>3 DEF IInv, Alive, RunInv, Stepped, Outside, Deleting, Adding, Settled
<1>5. \A q \in Procs \ {p} : pc'[q] = pc[q] /\ step'[q] = step[q] /\ failed'[q] = failed[q]
  BY DEF IInv, TypeOK
<1> QED
  BY <1>1, <1>3, <1>4, <1>5, RunStep

\* The routes at each place of the two lists.
LEMMA Orders ==
  /\ AddOrder[1] = "host" /\ AddOrder[2] = "low" /\ AddOrder[3] = "high"
  /\ DeleteOrder[1] = "low" /\ DeleteOrder[2] = "high" /\ DeleteOrder[3] = "host"
BY DEF AddOrder, DeleteOrder

\* Both lists name LiteVPN's routes, and the steps through them stay inside.
LEMMA DeleteType ==
  ASSUME TypeOK, NEW p \in Procs, DeleteRoute(p) \/ DeleteFails(p)
  PROVE  TypeOK'
<1> DEFINE bad == failed'[p]
<1>1. AdvanceDelete(p, bad) /\ bad \in BOOLEAN /\ table' \subseteq table /\ step[p] \in 1..3
  BY DEF DeleteRoute, DeleteFails, AdvanceDelete, TypeOK
<1>2. AfterDelete(p, bad) \in {"ended", "connect", "add", "close"}
  BY DEF AfterDelete, AfterStale
<1> QED
  BY <1>1, <1>2 DEF AdvanceDelete, Goto, TypeOK, Phases

LEMMA AddType ==
  ASSUME TypeOK, NEW p \in Procs, AddRoute(p)
  PROVE  TypeOK'
<1>1. step[p] \in 1..3
  BY DEF TypeOK
<1>2. AddOrder[step[p]] \in Routes
  BY <1>1, Orders DEF Routes
<1>3. table' \subseteq Routes
  BY <1>2 DEF AddRoute, TypeOK
<1>4. step' \in [Procs -> 1..3] /\ pc' \in [Procs -> Phases]
  BY <1>1 DEF AddRoute, Goto, TypeOK, Phases
<1> QED
  BY <1>3, <1>4 DEF AddRoute, TypeOK

\* One deletion, done or failed, in the order of cleanup_routes.
LEMMA DeleteIInv ==
  ASSUME IInv, NEW p \in Procs, DeleteRoute(p) \/ DeleteFails(p)
  PROVE  IInv'
<1> DEFINE bad == failed'[p]
<1>1. pc[p] = "delete" /\ Alive(p) /\ step[p] \in 1..3
  BY DEF DeleteRoute, DeleteFails, Alive, IInv, TypeOK
<1>2. p = latest
  BY <1>1 DEF IInv, OnlyLatest
<1>3. AdvanceDelete(p, bad) /\ bad \in BOOLEAN /\ (~bad => ~failed[p])
  BY DEF DeleteRoute, DeleteFails, AdvanceDelete, IInv, TypeOK
<1>4. /\ table' = table \/ table' = table \ {DeleteOrder[step[p]]}
      /\ ~bad => table' = table \ {DeleteOrder[step[p]]}
  BY DEF DeleteRoute, DeleteFails, AdvanceDelete, IInv, TypeOK
<1>5. /\ pc'[p] = IF step[p] < 3 THEN "delete" ELSE AfterDelete(p, bad)
      /\ step'[p] = IF step[p] < 3 THEN step[p] + 1 ELSE 1
      /\ purpose'[p] = purpose[p] /\ latest' = latest
  BY <1>3 DEF AdvanceDelete, Goto, IInv, TypeOK
<1>6. AfterDelete(p, bad) \in {"ended", "connect", "add", "close"}
  BY DEF AfterDelete, AfterStale
<1>7. TypeOK'
  BY DeleteType DEF IInv
<1>8. \A q \in Procs \ {p} : pc'[q] = pc[q] /\ step'[q] = step[q] /\ failed'[q] = failed[q]
  BY <1>3 DEF AdvanceDelete, Goto, IInv, TypeOK
<1>9. /\ Outside(p) /\ Deleting(p)
      /\ purpose[p] = "install" => table = {} /\ table' = {}
  BY <1>1, <1>2, <1>4 DEF IInv, RunInv, Outside
<1>10. CASE step[p] < 3
  <2>1. pc'[p] = "delete" /\ step'[p] = step[p] + 1
    BY <1>5, <1>10
  <2>2. Deleting(p)'
    BY <1>1, <1>3, <1>4, <1>5, <1>9, <1>10, <2>1, Orders DEF Deleting, Halves
  <2>3. RunInv(p)'
    BY <1>5, <1>9, <2>1, <2>2 DEF RunInv, Stepped, Outside, Adding, Settled
  <2> QED
    BY <1>1, <1>5, <1>7, <1>8, <2>1, <2>3, RunStep
<1>11. CASE step[p] = 3
  <2>1. pc'[p] = AfterDelete(p, bad) /\ step'[p] = 1
    BY <1>5, <1>11
  <2>2. ASSUME ~bad PROVE table' = {}
    <3>1. "low" \notin table /\ "high" \notin table
      BY <1>1, <1>3, <1>9, <1>11, <2>2 DEF Deleting
    <3>2. table' = table \ {"host"}
      BY <1>4, <1>11, <2>2, Orders
    <3>3. \A r \in table : r \in {"host", "low", "high"}
      BY DEF IInv, TypeOK, Routes
    <3> QED
      BY <3>1, <3>2, <3>3
  <2>3. AfterDelete(p, bad) = "connect" => ~bad
    BY DEF AfterDelete
  <2>4. AfterDelete(p, bad) = "add" => purpose[p] = "install"
    BY DEF AfterDelete, AfterStale
  <2>5. RunInv(p)'
    BY <1>6, <1>9, <2>1, <2>2, <2>3, <2>4
    DEF RunInv, Stepped, Outside, Deleting, Adding, Settled
  <2> QED
    BY <1>1, <1>5, <1>6, <1>7, <1>8, <2>1, <2>5, RunStep
<1> QED
  BY <1>1, <1>10, <1>11

\* One addition, in the order of install.
LEMMA AddIInv ==
  ASSUME IInv, NEW p \in Procs, AddRoute(p)
  PROVE  IInv'
<1>1. pc[p] = "add" /\ Alive(p) /\ step[p] \in 1..3
  BY DEF AddRoute, Alive, IInv, TypeOK
<1>2. p = latest
  BY <1>1 DEF IInv, OnlyLatest
<1>3. TypeOK'
  BY AddType DEF IInv
<1>4. \A q \in Procs \ {p} : pc'[q] = pc[q] /\ step'[q] = step[q] /\ failed'[q] = failed[q]
  BY DEF AddRoute, Goto, IInv, TypeOK
<1>5. /\ table' = table \cup {AddOrder[step[p]]}
      /\ step'[p] = IF step[p] < 3 THEN step[p] + 1 ELSE 1
      /\ IF step[p] < 3 THEN pc'[p] = "add" ELSE pc'[p] \in {"setup", "pump"}
      /\ latest' = latest
  BY DEF AddRoute, Goto, IInv, TypeOK
<1>6. Adding(p)
  BY <1>2 DEF IInv, RunInv
<1>7. RunInv(p)'
  BY <1>1, <1>5, <1>6, Orders
  DEF RunInv, Stepped, Outside, Deleting, Adding, Settled, Routes
<1> QED
  BY <1>1, <1>3, <1>4, <1>5, <1>7, RunStep

\* netstat could not be run: the run gives up, and says so.
LEMMA NetstatIInv ==
  ASSUME IInv, NEW p \in Procs, NetstatFails(p)
  PROVE  IInv'
<1> USE DEF NetstatFails, Goto
<1>1. TypeOK'
  BY DEF IInv, TypeOK, Phases
<1>2. Alive(p) /\ p = latest
  BY DEF Alive, IInv, OnlyLatest
<1>3. pc'[p] = "ended" /\ failed'[p] /\ step'[p] = step[p] /\ latest' = latest
  BY DEF IInv, TypeOK
<1>4. RunInv(p)'
  BY <1>2, <1>3 DEF IInv, RunInv, Stepped, Outside, Deleting, Adding, Settled
<1>5. \A q \in Procs \ {p} : pc'[q] = pc[q] /\ step'[q] = step[q] /\ failed'[q] = failed[q]
  BY DEF IInv, TypeOK
<1> QED
  BY <1>1, <1>2, <1>3, <1>4, <1>5, RunStep

\* One step per action of Next.
LEMMA NextIInv ==
  ASSUME IInv, ~Concurrent, [Next]_vars
  PROVE  IInv'
<1>1. CASE UNCHANGED vars
  BY <1>1 DEF vars, IInv, TypeOK, OnlyLatest, Alive, RunInv, Stepped, Outside, Deleting,
              Adding, Settled
<1>2. ASSUME NEW p \in Procs, Start(p) PROVE IInv'
  BY <1>2, StartIInv
<1>3. ASSUME NEW p \in Procs, Alive(p),
             \/ Refuse(p) \/ FindStale(p) \/ Connected(p) \/ Authenticated(p) \/ GiveUp(p)
             \/ GatewayFound(p) \/ AddFails(p) \/ StreamsReady(p) \/ StreamsFail(p)
             \/ PumpsEnd(p) \/ CloseConnection(p) \/ Killed(p)
      PROVE  IInv'
  <2>1. RunInv(p) /\ p = latest /\ pc[p] \in Phases /\ kind[p] \in Kinds
    BY <1>3 DEF IInv, OnlyLatest, TypeOK
  <2>2. CASE FindStale(p)
    <3>1. CASE table # {}
      BY <1>3, <2>2, <3>1, BeginDeleteIInv DEF FindStale, Purposes
    <3>2. CASE table = {}
      <4>1. Move(p, "stale", AfterStale(p)) /\ AfterStale(p) \in {"ended", "connect"}
        BY <2>2, <3>2 DEF FindStale, AfterStale
      <4> QED
        BY <1>3, <3>2, <4>1, MoveIInv DEF Phases
    <3> QED
      BY <3>1, <3>2
  <2>3. CASE Connected(p)
    BY <1>3, <2>1, <2>3, MoveIInv DEF Connected, Move, RunInv, Outside, Phases
  <2>4. CASE Authenticated(p)
    <3> DEFINE to == IF kind[p] = "probe" THEN "ended" ELSE "gateway"
    <3>1. Move(p, "auth", to) /\ to \in {"ended", "gateway"} /\ table = {}
      BY <2>1, <2>4 DEF Authenticated, Move, RunInv, Outside
    <3> HIDE DEF to
    <3> QED
      BY <1>3, <3>1, MoveIInv DEF Phases
  <2>5. CASE GiveUp(p)
    BY <1>3, <2>1, <2>5, MoveIInv DEF GiveUp, RunInv, Outside, Phases
  <2>6. CASE GatewayFound(p)
    BY <1>3, <2>1, <2>6, BeginDeleteIInv DEF GatewayFound, RunInv, Outside, Purposes
  <2>7. CASE AddFails(p)
    <3>1. table \cap Halves # {} => "host" \in table
      BY <2>1, <2>7 DEF AddFails, RunInv, Adding, Halves, IInv, TypeOK
    <3> QED
      BY <1>3, <2>7, <3>1, BeginDeleteIInv DEF AddFails, Purposes
  <2>8. CASE StreamsReady(p)
    BY <1>3, <2>1, <2>8, MoveIInv DEF StreamsReady, Move, RunInv, Settled, Phases
  <2>9. CASE StreamsFail(p)
    BY <1>3, <2>1, <2>9, BeginDeleteIInv DEF StreamsFail, RunInv, Settled, Routes, Purposes
  <2>10. CASE PumpsEnd(p)
    BY <1>3, <2>1, <2>10, BeginDeleteIInv DEF PumpsEnd, RunInv, Settled, Routes, Purposes
  <2>11. CASE CloseConnection(p)
    BY <1>3, <2>1, <2>11, MoveIInv DEF CloseConnection, Move, RunInv, Settled, Phases
  <2>12. CASE Killed(p)
    BY <1>3, <2>1, <2>12, MoveIInv DEF Killed, Phases
  <2>13. CASE Refuse(p)
    BY <1>3, <2>1, <2>13, MoveIInv DEF Refuse, Phases
  <2> QED
    BY <1>3, <2>2, <2>3, <2>4, <2>5, <2>6, <2>7, <2>8, <2>9, <2>10, <2>11, <2>12, <2>13
<1>4. ASSUME NEW p \in Procs,
             \/ Refuse(p) \/ FindStale(p) \/ Connected(p) \/ Authenticated(p) \/ GiveUp(p)
             \/ GatewayFound(p) \/ AddFails(p) \/ StreamsReady(p) \/ StreamsFail(p)
             \/ PumpsEnd(p) \/ CloseConnection(p) \/ Killed(p)
      PROVE  Alive(p)
  BY <1>4
  DEF Alive, Refuse, FindStale, Connected, Authenticated, GiveUp, GatewayFound, AddFails, StreamsReady,
      StreamsFail, PumpsEnd, CloseConnection, Killed, Move
<1> QED
  BY <1>1, <1>2, <1>3, <1>4, NetstatIInv, DeleteIInv, AddIInv DEF Next

-----------------------------------------------------------------------------
\* The routing table holds nothing but LiteVPN's three routes, and a clean-up never
\* runs past its list, for any number of runs, concurrent ones included
\* (macos_routes.rs:40-52, :88-94).
THEOREM TypeCorrect == Spec => []TypeOK
<1>1. Init => TypeOK
  BY DEF Init, TypeOK, Phases, Purposes, Routes
<1>2. ASSUME TypeOK, NEW p \in Procs, NEW from \in Phases, NEW to \in Phases,
             Move(p, from, to)
      PROVE  TypeOK'
  BY <1>2 DEF Move, Goto, TypeOK
<1>3. ASSUME TypeOK, NEW p \in Procs, NEW why \in Purposes, BeginDelete(p, why)
      PROVE  TypeOK'
  BY <1>3 DEF BeginDelete, Goto, TypeOK, Phases
<1>4. ASSUME TypeOK, NEW p \in Procs, Start(p) \/ NetstatFails(p)
      PROVE  TypeOK'
  BY <1>4 DEF Start, NetstatFails, Goto, TypeOK, Phases
<1>5. ASSUME TypeOK, NEW p \in Procs,
             FindStale(p) \/ GatewayFound(p) \/ AddFails(p) \/ StreamsFail(p) \/ PumpsEnd(p)
      PROVE  TypeOK'
  BY <1>5, <1>2, <1>3
  DEF FindStale, GatewayFound, AddFails, StreamsFail, PumpsEnd, AfterStale, Phases, Purposes
<1>6. ASSUME TypeOK, NEW p \in Procs,
             \/ Connected(p) \/ Authenticated(p) \/ GiveUp(p) \/ StreamsReady(p)
             \/ CloseConnection(p) \/ Killed(p) \/ Refuse(p)
      PROVE  TypeOK'
  BY <1>6, <1>2
  DEF Refuse, Connected, Authenticated, GiveUp, StreamsReady, CloseConnection, Killed, TypeOK, Phases
<1>7. TypeOK /\ [Next]_vars => TypeOK'
  <2>1. CASE UNCHANGED vars
    BY <2>1 DEF vars, TypeOK
  <2> QED
    BY DeleteType, AddType, <1>4, <1>5, <1>6, <2>1 DEF Next
<1> QED
  BY <1>1, <1>7, PTL DEF Spec

-----------------------------------------------------------------------------
\* The invariant the four properties follow from.
THEOREM Inductive ==
  ASSUME ~Concurrent
  PROVE  Spec => []IInv
<1>1. IInv /\ [Next]_vars => IInv'
  BY NextIInv
<1> QED
  BY <1>1, InitIInv, PTL DEF Spec

\* A run that gets as far as connecting has removed whatever killed or failed
\* runs left in the table (macos_routes.rs:14-30).
THEOREM ConnectOutside ==
  ASSUME ~Concurrent
  PROVE  Spec => []ConnectsOutsideTunnel
<1>1. IInv => ConnectsOutsideTunnel
  BY DEF IInv, OnlyLatest, Alive, RunInv, Outside, ConnectsOutsideTunnel
<1> QED
  BY <1>1, Inductive, PTL

\* The order of additions and deletions keeps the server out of its own tunnel
\* at every step (macos_routes.rs:40-52, :88-94).
THEOREM Reachable ==
  ASSUME ~Concurrent
  PROVE  Spec => []ServerStaysReachable
<1>1. ASSUME IInv, NEW p \in Procs, Routing(p), ~failed[p], table \cap Halves # {}
      PROVE  "host" \in table
  <2>1. p = latest /\ RunInv(p) /\ step[p] \in 1..3
    BY <1>1 DEF IInv, OnlyLatest, Alive, Routing, TypeOK
  <2> QED
    BY <1>1, <2>1 DEF Routing, RunInv, Deleting, Adding, Settled, Routes, Halves
<1>2. IInv => ServerStaysReachable
  BY <1>1 DEF ServerStaysReachable
<1> QED
  BY <1>2, Inductive, PTL

\* Pumps only run with all three routes in place (macos_routes.rs:40-57).
THEOREM FullyRouted ==
  ASSUME ~Concurrent
  PROVE  Spec => []PumpsFullyRouted
<1>1. IInv => PumpsFullyRouted
  BY DEF IInv, OnlyLatest, Alive, RunInv, Settled, PumpsFullyRouted
<1> QED
  BY <1>1, Inductive, PTL

\* From cleanup_stale on, every way out of the program but being killed leaves a table
\* without LiteVPN's routes, unless a clean-up command fails (macos_routes.rs:14-30,
\* :54-86, main.rs:102-110, :264-294).  A run that ends before (main.rs:98-100,
\* macos_routes.rs:15-18) changes nothing, and the next one that does not finds it all.
THEOREM NothingLeft ==
  ASSUME ~Concurrent
  PROVE  Spec => []LeavesNoRoutes
<1>1. IInv => LeavesNoRoutes
  BY DEF IInv, RunInv, Settled, LeavesNoRoutes
<1> QED
  BY <1>1, Inductive, PTL

\* The README's promise to a tunnel that is up holds when runs follow one another: no
\* step of any run takes a route away while pumps run.  What routes_live finds needs
\* two runs at once (macos_routes.rs:14-30, README.md:68).
THEOREM RoutesKept ==
  ASSUME ~Concurrent
  PROVE  Spec => LiveRoutesKept
<1>1. ASSUME IInv, [Next]_vars, NEW p \in Procs, pc[p] = "pump", pc'[p] = "pump"
      PROVE  table \subseteq table'
  <2>1. p = latest /\ Alive(p)
    BY <1>1 DEF IInv, OnlyLatest, Alive
  <2>2. ASSUME NEW q \in Procs, DeleteRoute(q) PROVE FALSE
    <3>1. pc[q] = "delete" /\ Alive(q)
      BY <2>2 DEF DeleteRoute, Alive
    <3> QED
      BY <1>1, <2>1, <3>1 DEF IInv, OnlyLatest
  <2>3. ASSUME NEW q \in Procs, AddRoute(q) PROVE table \subseteq table'
    BY <2>3 DEF AddRoute
  <2>4. ASSUME NEW q \in Procs,
               \/ Start(q) \/ Refuse(q) \/ FindStale(q) \/ NetstatFails(q) \/ DeleteFails(q)
               \/ Connected(q) \/ Authenticated(q) \/ GiveUp(q) \/ GatewayFound(q)
               \/ AddFails(q) \/ StreamsReady(q) \/ StreamsFail(q)
               \/ PumpsEnd(q) \/ CloseConnection(q) \/ Killed(q)
        PROVE  table' = table
    BY <2>4
    DEF Start, Refuse, FindStale, NetstatFails, DeleteFails, Connected, Authenticated, GiveUp,
        GatewayFound, AddFails, StreamsReady, StreamsFail, PumpsEnd, CloseConnection, Killed,
        Move, BeginDelete
  <2>5. CASE UNCHANGED vars
    BY <2>5 DEF vars
  <2> QED
    BY <1>1, <2>2, <2>3, <2>4, <2>5 DEF Next
<1>2. IInv /\ [Next]_vars =>
        [\A p \in Procs : pc[p] = "pump" /\ pc'[p] = "pump" => table \subseteq table']_vars
  BY <1>1
<1> QED
  BY <1>2, Inductive, PTL DEF Spec, LiveRoutesKept
=============================================================================
