--------------------------- MODULE SessionProofs ----------------------------
(***************************************************************************)
(* Proofs about Session, for any number of connections.                    *)
(***************************************************************************)
EXTENDS Session, TLAPS

-----------------------------------------------------------------------------
(* The inductive invariant: what the safety properties rest on.            *)

\* Ids of the running process are distinct; a task has one from fetch_add on.
IdsDistinct == \A t, u \in Conns : clientId[t] # 0 /\ clientId[t] = clientId[u] => t = u

HasId ==
  \A t \in Conns :
    /\ pc[t] \in {"lock", "close", "setup", "pump"} => clientId[t] # 0
    /\ pc[t] \in {"idle", "handshake", "auth", "bench", "register"} => clientId[t] = 0

\* A task holds a displaced connection exactly while it has yet to close it.
PreviousHeld == \A t \in Conns : previous[t] # NoConn <=> pc[t] = "close"

\* What a task is about to close was admitted before it and is not the owner of
\* the slot any more.
DisplacedForGood ==
  \A t \in Conns : previous[t] # NoConn =>
    /\ previous[t] # active.conn
    /\ pc[previous[t]] \in {"close", "setup", "pump", "exit", "done"}

\* An open connection has a handle somewhere, so only the step that drops its
\* last handle closes it.
HandleKept == \A c \in Conns : conn[c] = "open" => Referenced(c)

IInv ==
  /\ TypeOK
  /\ IdsDistinct
  /\ HasId
  /\ PreviousHeld
  /\ DisplacedForGood
  /\ SlotHasLiveOwner
  /\ DisplacedIsBeingClosed
  /\ HandleKept

-----------------------------------------------------------------------------
\* Connections only ever go from open to closed when handles are dropped.
LEMMA DropType ==
  ASSUME TypeOK
  PROVE  /\ DropUnreferenced(conn) \in [Conns -> {"none", "open", "closed"}]
         /\ \A c \in Conns : DropUnreferenced(conn)[c] = "open" => conn[c] = "open"
         /\ \A c \in Conns : DropUnreferenced(conn)[c] = "open" => Referenced(c)'
BY DEF TypeOK, DropUnreferenced

\* Returning from handle_connection, from any point but between taking the slot
\* and closing the displaced connection, preserves the invariant.
LEMMA ReturnPreserves ==
  ASSUME IInv, NEW t \in Conns, Return(t),
         pc[t] \in {"handshake", "auth", "bench", "register", "setup", "pump"}
  PROVE  IInv'
<1> USE DEF IInv
<1>1. conn' \in [Conns -> {"none", "open", "closed"}]
      /\ \A c \in Conns : conn'[c] = "open" => conn[c] = "open"
  BY DropType DEF Return
<1>2. TypeOK'
  BY <1>1 DEF Return, Goto, TypeOK, Phases
<1>3. IdsDistinct' /\ HasId' /\ PreviousHeld' /\ DisplacedForGood'
  BY DEF Return, Goto, TypeOK, IdsDistinct, HasId, PreviousHeld, DisplacedForGood
<1>4. SlotHasLiveOwner'
  BY NoConnAssumption
  DEF Return, Goto, TypeOK, SlotHasLiveOwner, ActiveClient, NoClient
<1>5. DisplacedIsBeingClosed'
  BY <1>1 DEF Return, Goto, TypeOK, DisplacedIsBeingClosed, Serving
<1>6. HandleKept'
  BY DropType DEF Return, HandleKept
<1> QED
  BY <1>2, <1>3, <1>4, <1>5, <1>6

\* Steps that move a task forward without touching ids, slot or connections.
LEMMA AuthPreserves ==
  ASSUME IInv, NEW t \in Conns,
         Accept(t) \/ AuthVpn(t) \/ AuthBench(t) \/ StreamsReady(t)
  PROVE  IInv'
<1> USE DEF IInv, Accept, AuthVpn, AuthBench, AuthAs, StreamsReady, Goto
<1>1. TypeOK'
  BY DEF TypeOK, Phases
<1>2. IdsDistinct' /\ HasId' /\ PreviousHeld' /\ DisplacedForGood'
  BY DEF TypeOK, IdsDistinct, HasId, PreviousHeld, DisplacedForGood
<1>3. SlotHasLiveOwner'
  BY NoConnAssumption DEF TypeOK, SlotHasLiveOwner, ActiveClient, NoClient
<1>4. DisplacedIsBeingClosed'
  BY DEF TypeOK, DisplacedIsBeingClosed, Serving
<1>5. HandleKept'
  BY DEF TypeOK, HandleKept, Referenced, Running
<1> QED
  BY <1>1, <1>2, <1>3, <1>4, <1>5

\* The end of the handshake opens the task's connection.
LEMMA HandshakePreserves ==
  ASSUME IInv, NEW t \in Conns, HandshakeDone(t)
  PROVE  IInv'
<1> USE DEF IInv, HandshakeDone, Goto
<1>1. TypeOK'
  BY DEF TypeOK, Phases
<1>2. IdsDistinct' /\ HasId' /\ PreviousHeld' /\ DisplacedForGood'
  BY DEF TypeOK, IdsDistinct, HasId, PreviousHeld, DisplacedForGood
<1>3. SlotHasLiveOwner'
  BY NoConnAssumption DEF TypeOK, SlotHasLiveOwner, ActiveClient, NoClient
<1>4. DisplacedIsBeingClosed'
  BY DEF TypeOK, DisplacedIsBeingClosed, Serving
<1>5. HandleKept'
  BY DEF TypeOK, HandleKept, Referenced, Running
<1> QED
  BY <1>1, <1>2, <1>3, <1>4, <1>5

\* fetch_add hands out an id no other task of the process has.
LEMMA TakeIdPreserves ==
  ASSUME IInv, NEW t \in Conns, TakeId(t)
  PROVE  IInv'
<1> USE DEF IInv, TakeId, Goto
<1>1. TypeOK'
  BY DEF TypeOK, Phases
<1>2. IdsDistinct'
  BY DEF TypeOK, IdsDistinct
<1>3. HasId' /\ PreviousHeld' /\ DisplacedForGood'
  BY DEF TypeOK, HasId, PreviousHeld, DisplacedForGood
<1>4. SlotHasLiveOwner'
  BY NoConnAssumption DEF TypeOK, SlotHasLiveOwner, ActiveClient, NoClient
<1>5. DisplacedIsBeingClosed'
  BY DEF TypeOK, DisplacedIsBeingClosed, Serving
<1>6. HandleKept'
  BY DEF TypeOK, HandleKept, Referenced, Running
<1> QED
  BY <1>1, <1>2, <1>3, <1>4, <1>5, <1>6

\* Taking the slot: whoever was in it becomes a connection the task will close.
LEMMA ReplacePreserves ==
  ASSUME IInv, NEW t \in Conns, Replace(t)
  PROVE  IInv'
<1> USE DEF IInv, Replace, Goto, PumpPhase
<1>1. clientId[t] \in Nat \ {0}
  BY DEF TypeOK, HasId
<1>2. TypeOK'
  BY <1>1 DEF TypeOK, Phases, ActiveClient, NoClient, Transports
<1>3. IdsDistinct'
  BY DEF IdsDistinct
<1>4. HasId'
  BY DEF TypeOK, HasId, Transports
<1>5. PreviousHeld'
  BY NoConnAssumption DEF TypeOK, PreviousHeld, ActiveClient, NoClient, Transports
<1>6. SlotHasLiveOwner'
  BY DEF TypeOK, SlotHasLiveOwner, Transports
<1>7. DisplacedIsBeingClosed'
  <2> SUFFICES ASSUME NEW s \in Conns, Serving(s)', conn'[s] = "open"
               PROVE  \/ active'.conn = s
                      \/ \E u \in Conns : pc'[u] = "close" /\ previous'[u] = s
    BY DEF DisplacedIsBeingClosed
  <2>1. CASE s = t
    BY <2>1
  <2>2. CASE s # t /\ active.conn = s
    <3>1. active # NoClient
      BY <2>2, NoConnAssumption DEF NoClient
    <3>2. pc'[t] = "close" /\ previous'[t] = s
      BY <2>2, <3>1 DEF TypeOK
    <3> QED
      BY <3>2
  <2>3. CASE s # t /\ active.conn # s
    <3>1. Serving(s) /\ conn[s] = "open"
      BY <2>3 DEF TypeOK, Serving
    <3>2. PICK u \in Conns : pc[u] = "close" /\ previous[u] = s
      BY <2>3, <3>1 DEF DisplacedIsBeingClosed
    <3>3. pc'[u] = "close" /\ previous'[u] = s
      BY <3>2 DEF TypeOK
    <3> QED
      BY <3>3
  <2> QED
    BY <2>1, <2>2, <2>3
<1>8. HandleKept'
  <2> SUFFICES ASSUME NEW c \in Conns, conn'[c] = "open" PROVE Referenced(c)'
    BY DEF HandleKept
  <2>1. Referenced(c)
    BY DEF HandleKept
  <2>2. CASE pc[c] \in Running
    BY <2>2 DEF TypeOK, Referenced, Running, Transports
  <2>3. CASE active.conn = c
    BY <2>3 DEF TypeOK, Referenced
  <2>4. CASE \E u \in Conns : previous[u] = c
    <3>1. PICK u \in Conns : previous[u] = c
      BY <2>4
    <3>2. u # t
      BY <3>1, NoConnAssumption DEF PreviousHeld
    <3> QED
      BY <3>1, <3>2 DEF TypeOK, Referenced
  <2> QED
    BY <2>1, <2>2, <2>3, <2>4 DEF Referenced
<1>9. DisplacedForGood'
  <2> SUFFICES ASSUME NEW u \in Conns, previous'[u] # NoConn
               PROVE  /\ previous'[u] # t
                      /\ pc'[previous'[u]] \in {"close", "setup", "pump", "exit", "done"}
    BY DEF DisplacedForGood
  <2>1. /\ previous'[u] \in Conns
        /\ pc[previous'[u]] \in {"close", "setup", "pump", "exit", "done"}
    <3>1. CASE u = t
      BY <3>1 DEF TypeOK, SlotHasLiveOwner, ActiveClient, NoClient
    <3>2. CASE u # t
      BY <3>2 DEF TypeOK, DisplacedForGood
    <3> QED
      BY <3>1, <3>2
  <2> QED
    BY <2>1 DEF TypeOK
<1> QED
  BY <1>2, <1>3, <1>4, <1>5, <1>6, <1>7, <1>8, <1>9

\* Closing the displaced connection settles the obligation that went with it.
LEMMA ClosePreviousPreserves ==
  ASSUME IInv, NEW t \in Conns, ClosePrevious(t)
  PROVE  IInv'
<1> USE DEF IInv, ClosePrevious, Goto, PumpPhase
<1>1. previous[t] \in Conns
  BY DEF TypeOK, PreviousHeld
<1>2. TypeOK'
  BY <1>1 DEF TypeOK, Phases, Transports
<1>3. IdsDistinct' /\ HasId' /\ PreviousHeld' /\ DisplacedForGood'
  BY DEF TypeOK, IdsDistinct, HasId, PreviousHeld, DisplacedForGood, Transports
<1>4. SlotHasLiveOwner'
  BY NoConnAssumption DEF TypeOK, SlotHasLiveOwner, ActiveClient, NoClient, Transports
<1>5. DisplacedIsBeingClosed'
  BY <1>1 DEF TypeOK, DisplacedIsBeingClosed, Serving, Transports
<1>6. HandleKept'
  <2> SUFFICES ASSUME NEW c \in Conns, conn'[c] = "open" PROVE Referenced(c)'
    BY DEF HandleKept
  <2>1. c # previous[t] /\ Referenced(c)
    BY <1>1 DEF TypeOK, HandleKept
  <2> QED
    BY <2>1 DEF TypeOK, Referenced, Running, Transports
<1> QED
  BY <1>2, <1>3, <1>4, <1>5, <1>6

\* The clean-up of a task clears the slot only when the slot is its own: ids
\* are distinct, so a matching id means a matching connection.
LEMMA CleanupPreserves ==
  ASSUME IInv, NEW t \in Conns, Cleanup(t)
  PROVE  IInv'
<1> USE DEF IInv
<1>1. /\ conn' \in [Conns -> {"none", "open", "closed"}]
      /\ \A c \in Conns : conn'[c] = "open" => conn[c] = "open" /\ Referenced(c)'
  BY DropType DEF Cleanup
<1>2. active' = NoClient \/ active' = active
  BY DEF Cleanup
<1>3. TypeOK'
  BY <1>1, <1>2 DEF Cleanup, Goto, TypeOK, Phases
<1>4. active.conn = t => active' = NoClient
  BY NoConnAssumption
  DEF Cleanup, SlotHasLiveOwner, TypeOK, ActiveClient, NoClient
<1>5. active' # active => active.conn = t
  <2> SUFFICES ASSUME clientId[t] # 0, active.id = clientId[t]
               PROVE  active.conn = t
    BY DEF Cleanup
  <2>1. active # NoClient /\ active.conn \in Conns
    BY DEF TypeOK, ActiveClient, NoClient
  <2>2. clientId[active.conn] = clientId[t]
    BY <2>1 DEF SlotHasLiveOwner
  <2> QED
    BY <2>1, <2>2 DEF IdsDistinct
<1>6. IdsDistinct' /\ HasId' /\ PreviousHeld' /\ DisplacedForGood'
  BY <1>2 DEF Cleanup, Goto, TypeOK, IdsDistinct, HasId, PreviousHeld, DisplacedForGood, NoClient
<1>7. SlotHasLiveOwner'
  BY <1>2, <1>4, NoConnAssumption
  DEF Cleanup, Goto, SlotHasLiveOwner, TypeOK, ActiveClient, NoClient
<1>8. DisplacedIsBeingClosed'
  BY <1>1, <1>5 DEF Cleanup, Goto, DisplacedIsBeingClosed, TypeOK, Serving
<1>9. HandleKept'
  BY <1>1 DEF HandleKept
<1> QED
  BY <1>3, <1>6, <1>7, <1>8, <1>9

\* A connection the peer closed, and a server that lost everything at once.
LEMMA PeerGonePreserves ==
  ASSUME IInv, NEW t \in Conns, PeerGone(t)
  PROVE  IInv'
<1> USE DEF IInv, PeerGone
<1>1. TypeOK' /\ IdsDistinct' /\ HasId' /\ PreviousHeld' /\ DisplacedForGood'
  BY DEF TypeOK, IdsDistinct, HasId, PreviousHeld, DisplacedForGood
<1>2. SlotHasLiveOwner' /\ DisplacedIsBeingClosed' /\ HandleKept'
  BY DEF TypeOK, SlotHasLiveOwner, DisplacedIsBeingClosed, HandleKept, Referenced, Serving
<1> QED
  BY <1>1, <1>2

\* A restart empties the slot and ends every task, so nothing is left to relate.
LEMMA RestartPreserves ==
  ASSUME IInv, Restart
  PROVE  IInv'
<1> USE DEF IInv, Restart
<1>1. TypeOK'
  BY DEF TypeOK, Phases, NoClient
<1>2. IdsDistinct' /\ HasId' /\ PreviousHeld' /\ DisplacedForGood'
  BY DEF TypeOK, IdsDistinct, HasId, PreviousHeld, DisplacedForGood
<1>3. SlotHasLiveOwner' /\ DisplacedIsBeingClosed' /\ HandleKept'
  BY DEF TypeOK, SlotHasLiveOwner, DisplacedIsBeingClosed, HandleKept, Serving
<1> QED
  BY <1>1, <1>2, <1>3

-----------------------------------------------------------------------------
\* The server starts with an empty slot and ids from 1.
LEMMA InitIInv == Init => IInv
<1> SUFFICES ASSUME Init PROVE IInv
  OBVIOUS
<1> USE DEF Init
<1>1. TypeOK
  BY DEF TypeOK, Phases, NoClient
<1>2. IdsDistinct /\ HasId /\ PreviousHeld /\ DisplacedForGood
  BY DEF IdsDistinct, HasId, PreviousHeld, DisplacedForGood
<1>3. SlotHasLiveOwner /\ DisplacedIsBeingClosed /\ HandleKept
  BY DEF SlotHasLiveOwner, DisplacedIsBeingClosed, HandleKept, Serving
<1> QED
  BY <1>1, <1>2, <1>3 DEF IInv

\* One step per action of Next.
LEMMA NextIInv == IInv /\ [Next]_vars => IInv'
<1> SUFFICES ASSUME IInv, [Next]_vars PROVE IInv'
  OBVIOUS
<1>1. CASE UNCHANGED vars
  BY <1>1 DEF vars, IInv, TypeOK, IdsDistinct, HasId, PreviousHeld, DisplacedForGood, SlotHasLiveOwner,
              DisplacedIsBeingClosed, HandleKept, Referenced, Serving
<1>2. CASE Restart
  BY <1>2, RestartPreserves
<1>3. ASSUME NEW t \in Conns, Progress(t) PROVE IInv'
  <2>1. CASE HandshakeDone(t)
    BY <2>1, HandshakePreserves
  <2>2. CASE \/ HandshakeFailed(t) \/ AuthFailed(t) \/ BenchEnd(t)
             \/ CapacityTooSmall(t) \/ SessionLost(t)
    BY <2>2, ReturnPreserves
    DEF HandshakeFailed, AuthFailed, BenchEnd, CapacityTooSmall, SessionLost
  <2>3. CASE AuthVpn(t) \/ AuthBench(t)
    BY <2>3, AuthPreserves
  <2>4. CASE TakeId(t)
    BY <2>4, TakeIdPreserves
  <2>5. CASE Replace(t)
    BY <2>5, ReplacePreserves
  <2>6. CASE ClosePrevious(t)
    BY <2>6, ClosePreviousPreserves
  <2>7. CASE Cleanup(t)
    BY <2>7, CleanupPreserves
  <2> QED
    BY <1>3, <2>1, <2>2, <2>3, <2>4, <2>5, <2>6, <2>7 DEF Progress
<1>4. ASSUME NEW t \in Conns, Accept(t) \/ StreamsReady(t) \/ PumpError(t) \/ PeerGone(t)
      PROVE  IInv'
  <2>1. CASE Accept(t) \/ StreamsReady(t)
    BY <2>1, AuthPreserves
  <2>2. CASE PumpError(t)
    BY <2>2, ReturnPreserves DEF PumpError
  <2>3. CASE PeerGone(t)
    BY <2>3, PeerGonePreserves
  <2> QED
    BY <1>4, <2>1, <2>2, <2>3
<1> QED
  BY <1>1, <1>2, <1>3, <1>4 DEF Next

\* The inductive invariant holds in every run of the table, fair or not, and so
\* in the server as a part of a larger system.
THEOREM Inductive == Init /\ [][Next]_vars => []IInv
BY InitIInv, NextIInv, PTL

\* Every variable of the server keeps its type; ids never reach None's value.
THEOREM TypeCorrect == Spec => []TypeOK
<1>1. IInv => TypeOK
  BY DEF IInv
<1> QED
  BY <1>1, Inductive, PTL DEF Spec

\* However many clients authenticate at once, a session that pumps the TUN
\* device without owning the slot is about to be closed by the task that
\* displaced it (server main.rs:198-216 against :133-141).
THEOREM OneOwner == Spec => []DisplacedIsBeingClosed
<1>1. IInv => DisplacedIsBeingClosed
  BY DEF IInv
<1> QED
  BY <1>1, Inductive, PTL DEF Spec

\* The slot names a task that still runs and holds the slot's id, so every
\* occupied slot is cleared by its own task (server main.rs:133-141).
THEOREM SlotOwned == Spec => []SlotHasLiveOwner
<1>1. IInv => SlotHasLiveOwner
  BY DEF IInv
<1> QED
  BY <1>1, Inductive, PTL DEF Spec

\* No task ends and leaves its client connected, unless another task has just
\* taken the connection over to close it (server main.rs:133-141, :207-216).
THEOREM NoOrphans == Spec => []NoOrphanConnection
<1>1. ASSUME IInv PROVE NoOrphanConnection
  <2> SUFFICES ASSUME NEW t \in Conns, pc[t] = "done", conn[t] = "open"
               PROVE  \E u \in Conns : pc[u] = "close" /\ previous[u] = t
    BY DEF NoOrphanConnection
  <2>1. pc[t] \notin Running /\ active.conn # t
    BY <1>1, NoConnAssumption DEF IInv, SlotHasLiveOwner, NoClient, Running
  <2> QED
    BY <1>1, <2>1, NoConnAssumption DEF IInv, HandleKept, Referenced, PreviousHeld
<1> QED
  BY <1>1, Inductive, PTL DEF Spec

-----------------------------------------------------------------------------
(* Refinement: every step of a task is a step of SingleClient or invisible. *)

\* A task that returns without the slot is turned away; otherwise its return is
\* invisible, for the slot or the task that displaced it still holds a handle.
LEMMA ReturnRefines ==
  ASSUME IInv, NEW t \in Conns, Return(t),
         pc[t] \in {"handshake", "auth", "bench", "register", "setup", "pump"}
  PROVE  Abstract!Refuse(t) \/ UNCHANGED Abstract!vars
<1> USE DEF IInv
<1>1. \A c \in Conns : c # t => conn'[c] = conn[c]
  BY DEF Return, Goto, TypeOK, HandleKept, Referenced, DropUnreferenced
<1>2. clientId[t] # 0 => conn'[t] = conn[t]
  <2> SUFFICES ASSUME clientId[t] # 0, conn[t] = "open" PROVE Referenced(t)'
    BY DEF Return, DropUnreferenced, TypeOK
  <2>1. Serving(t)
    BY DEF HasId, Serving
  <2> QED
    BY <2>1 DEF Return, Goto, TypeOK, DisplacedIsBeingClosed, Referenced
<1>3. Attached' = Attached
  BY <1>1, <1>2 DEF Return, Goto, TypeOK, Attached
<1>4. Spent' = Spent \cup {t}
  BY DEF Return, Goto, TypeOK, Spent
<1>5. active' = active
  BY DEF Return
<1> QED
  BY <1>3, <1>4, <1>5 DEF Abstract!Refuse, Abstract!vars

\* The clean-up of the slot's owner releases the tunnel and disconnects it.
LEMMA CleanupRefines ==
  ASSUME IInv, NEW t \in Conns, Cleanup(t)
  PROVE  Abstract!Release \/ UNCHANGED Abstract!vars
<1> USE DEF IInv
<1>1. Spent' = Spent
  BY DEF Cleanup, Goto, TypeOK, Spent
<1>2. CASE active.conn = t
  <2>1. active' = NoClient
    BY <1>2, NoConnAssumption
    DEF Cleanup, SlotHasLiveOwner, TypeOK, ActiveClient, NoClient
  <2>2. \A c \in Conns : c # t => conn'[c] = conn[c]
    BY <1>2, <2>1 DEF Cleanup, Goto, TypeOK, HandleKept, Referenced, DropUnreferenced, Running
  <2>3. ~Referenced(t)'
    BY <1>2, <2>1, NoConnAssumption
    DEF Cleanup, Goto, TypeOK, Referenced, Running, DisplacedForGood, NoClient
  <2>4. conn'[t] # "open"
    BY <2>3 DEF Cleanup, DropUnreferenced
  <2>5. Attached' = Attached \ {t}
    BY <2>2, <2>4 DEF Cleanup, Goto, TypeOK, Attached
  <2> QED
    BY <1>1, <1>2, <2>1, <2>5, NoConnAssumption DEF Abstract!Release, NoClient
<1>3. CASE active.conn # t
  <2>1. active' = active
    BY <1>3, NoConnAssumption
    DEF Cleanup, SlotHasLiveOwner, TypeOK, ActiveClient, NoClient, IdsDistinct
  <2>2. conn' = conn
    BY <1>3, <2>1 DEF Cleanup, Goto, TypeOK, HandleKept, Referenced, DropUnreferenced, Running
  <2>3. Attached' = Attached
    BY <2>2 DEF Cleanup, Goto, TypeOK, Attached
  <2> QED
    BY <1>1, <2>1, <2>3 DEF Abstract!vars
<1> QED
  BY <1>2, <1>3

\* Every other action of a task or of its peer.
LEMMA TaskRefines ==
  ASSUME IInv, NEW t \in Conns
  PROVE  /\ Replace(t) => Abstract!Admit(t)
         /\ AuthBench(t) => Abstract!Refuse(t)
         /\ ClosePrevious(t) =>
              Abstract!Disconnect(previous[t]) \/ UNCHANGED Abstract!vars
         /\ PeerGone(t) => Abstract!Disconnect(t) \/ UNCHANGED Abstract!vars
         /\ Accept(t) \/ HandshakeDone(t) \/ AuthVpn(t) \/ TakeId(t) \/ StreamsReady(t) =>
              UNCHANGED Abstract!vars
<1> USE DEF IInv, Goto
<1>1. ASSUME Replace(t) PROVE Abstract!Admit(t)
  <2>1. /\ active'.conn = t
        /\ t \notin Spent
        /\ Spent' = Spent \cup {t}
    BY <1>1 DEF Replace, TypeOK, Spent, PumpPhase, Transports
  <2>2. Attached' = IF conn[t] = "open" THEN Attached \cup {t} ELSE Attached
    BY <1>1 DEF Replace, TypeOK, Attached, PumpPhase, Transports, HasId
  <2> QED
    BY <2>1, <2>2 DEF Abstract!Admit
<1>2. ASSUME AuthBench(t) PROVE Abstract!Refuse(t)
  <2>1. active' = active /\ t \notin Spent /\ Spent' = Spent \cup {t}
    BY <1>2 DEF AuthBench, AuthAs, TypeOK, Spent
  <2>2. Attached' = Attached
    BY <1>2 DEF AuthBench, AuthAs, TypeOK, Attached
  <2> QED
    BY <2>1, <2>2 DEF Abstract!Refuse
<1>3. ASSUME ClosePrevious(t)
      PROVE  Abstract!Disconnect(previous[t]) \/ UNCHANGED Abstract!vars
  <2>1. active' = active /\ Spent' = Spent
    BY <1>3 DEF ClosePrevious, TypeOK, Spent, PumpPhase, Transports
  <2>2. Attached' = Attached \ {previous[t]}
    BY <1>3 DEF ClosePrevious, TypeOK, Attached, PumpPhase, Transports, PreviousHeld
  <2> QED
    BY <2>1, <2>2 DEF Abstract!Disconnect, Abstract!vars
<1>4. ASSUME PeerGone(t) PROVE Abstract!Disconnect(t) \/ UNCHANGED Abstract!vars
  <2>1. active' = active /\ Spent' = Spent /\ Attached' = Attached \ {t}
    BY <1>4 DEF PeerGone, TypeOK, Spent, Attached
  <2> QED
    BY <2>1 DEF Abstract!Disconnect, Abstract!vars
<1>5. ASSUME Accept(t) \/ HandshakeDone(t) \/ AuthVpn(t) \/ TakeId(t) \/ StreamsReady(t)
      PROVE  UNCHANGED Abstract!vars
  <2>1. active' = active /\ Spent' = Spent
    BY <1>5 DEF Accept, HandshakeDone, AuthVpn, AuthAs, TakeId, StreamsReady, TypeOK, Spent
  <2>2. Attached' = Attached
    BY <1>5
    DEF Accept, HandshakeDone, AuthVpn, AuthAs, TakeId, StreamsReady, TypeOK, Attached, HasId
  <2> QED
    BY <2>1, <2>2 DEF Abstract!vars
<1> QED
  BY <1>1, <1>2, <1>3, <1>4, <1>5

\* A restart of the server is a restart of the tunnel.
LEMMA RestartRefines ==
  ASSUME IInv, Restart
  PROVE  Abstract!Restart
<1>1. active'.conn = NoConn
  BY DEF Restart, NoClient
<1>2. Attached' = {}
  BY DEF Restart, Attached
<1>3. Spent \subseteq Spent' /\ Spent' \subseteq Conns
  BY DEF IInv, TypeOK, Restart, Spent
<1> QED
  BY <1>1, <1>2, <1>3 DEF Abstract!Restart

\* Every step of the server is a step of the one-owner tunnel, or invisible.
LEMMA NextRefines == IInv /\ [Next]_vars => [Abstract!Next]_(Abstract!vars)
<1> SUFFICES ASSUME IInv, [Next]_vars
             PROVE  Abstract!Next \/ UNCHANGED Abstract!vars
  OBVIOUS
<1>1. CASE UNCHANGED vars
  BY <1>1 DEF vars, Abstract!vars, Attached, Spent
<1>2. CASE Restart
  BY <1>2, RestartRefines DEF Abstract!Next
<1>3. ASSUME NEW t \in Conns, Progress(t)
      PROVE  Abstract!Next \/ UNCHANGED Abstract!vars
  <2>1. CASE \/ HandshakeFailed(t) \/ AuthFailed(t) \/ BenchEnd(t)
             \/ CapacityTooSmall(t) \/ SessionLost(t)
    BY <2>1, ReturnRefines
    DEF HandshakeFailed, AuthFailed, BenchEnd, CapacityTooSmall, SessionLost, Abstract!Next
  <2>2. CASE Replace(t) \/ AuthBench(t) \/ HandshakeDone(t) \/ AuthVpn(t) \/ TakeId(t)
    BY <2>2, TaskRefines DEF Abstract!Next
  <2>3. CASE ClosePrevious(t)
    <3>1. previous[t] \in Conns
      BY <2>3 DEF IInv, TypeOK, PreviousHeld, ClosePrevious
    <3> QED
      BY <2>3, <3>1, TaskRefines DEF Abstract!Next
  <2>4. CASE Cleanup(t)
    BY <2>4, CleanupRefines DEF Abstract!Next
  <2> QED
    BY <1>3, <2>1, <2>2, <2>3, <2>4 DEF Progress
<1>4. ASSUME NEW t \in Conns, Accept(t) \/ StreamsReady(t) \/ PumpError(t) \/ PeerGone(t)
      PROVE  Abstract!Next \/ UNCHANGED Abstract!vars
  <2>1. CASE PumpError(t)
    BY <2>1, ReturnRefines DEF PumpError, Abstract!Next
  <2>2. CASE Accept(t) \/ StreamsReady(t) \/ PeerGone(t)
    BY <2>2, TaskRefines DEF Abstract!Next
  <2> QED
    BY <1>4, <2>1, <2>2
<1> QED
  BY <1>1, <1>2, <1>3, <1>4 DEF Next

\* The server's steps, fair or not, implement the tunnel's.
LEMMA TableRefines == Init /\ [][Next]_vars => Abstract!Safety
<1>1. Init => Abstract!Init
  BY DEF Init, Abstract!Init, NoClient, Attached, Spent
<1> QED
  BY <1>1, Inductive, NextRefines, PTL DEF Abstract!Safety

\* For any number of connections, the server's steps are steps of the one-owner
\* tunnel: the tunnel changes hands only by an admission, and a session that was
\* displaced or turned away never owns it again (server main.rs:116-265).
THEOREM Refinement == Spec => Abstract!Safety
BY TableRefines, PTL DEF Spec

-----------------------------------------------------------------------------
(* What a step may never do. *)

\* A session that was displaced, has ended or was a benchmark does not get the slot,
\* in whatever order tasks that took their ids outside the lock reach it.
NeverAgain == \A t \in Conns : t \in Spent /\ active.conn # t => active'.conn # t

\* Nobody takes the slot from its owner but a task that enters it, the owner's own
\* clean-up and a restart; and no task closes the owner's connection: the close of a
\* displaced session, done after the lock was released, never hits the session that
\* has the slot by then.
OwnerUndisturbed ==
  \A t \in Conns : active.conn = t =>
    /\ active'.conn # t => (\E u \in Conns : u # t /\ Replace(u)) \/ Cleanup(t) \/ Restart
    /\ conn[t] = "open" /\ conn'[t] # "open" => PeerGone(t) \/ Cleanup(t) \/ Restart

\* Losing the tunnel is final, for any number of sessions and restarts
\* (server main.rs:198-216 against :133-141).
THEOREM LostForGood == Spec => [][NeverAgain]_vars
<1>1. ASSUME IInv, [Next]_vars PROVE NeverAgain
  <2> SUFFICES ASSUME NEW t \in Conns, t \in Spent, active.conn # t
               PROVE  active'.conn # t
    BY DEF NeverAgain
  <2>1. Abstract!Next \/ UNCHANGED Abstract!vars
    BY <1>1, NextRefines
  <2>2. CASE UNCHANGED Abstract!vars
    BY <2>2 DEF Abstract!vars
  <2>3. CASE Abstract!Release \/ Abstract!Restart
    BY <2>3, NoConnAssumption DEF Abstract!Release, Abstract!Restart
  <2>4. ASSUME NEW c \in Conns, Abstract!Admit(c) \/ Abstract!Refuse(c) \/ Abstract!Disconnect(c)
        PROVE  active'.conn # t
    BY <2>4 DEF Abstract!Admit, Abstract!Refuse, Abstract!Disconnect
  <2> QED
    BY <2>1, <2>2, <2>3, <2>4 DEF Abstract!Next
<1>2. IInv /\ [Next]_vars => [NeverAgain]_vars
  BY <1>1
<1> QED
  BY <1>2, Inductive, PTL DEF Spec

\* The owner of the tunnel is disturbed by nobody's late clean-up and nobody's late
\* close, for any number of tasks (server main.rs:133-141, :198-216).
THEOREM Undisturbed == Spec => [][OwnerUndisturbed]_vars
<1>1. ASSUME IInv, Next, NEW t \in Conns, active.conn = t
      PROVE  /\ active'.conn # t =>
                  (\E u \in Conns : u # t /\ Replace(u)) \/ Cleanup(t) \/ Restart
             /\ conn[t] = "open" /\ conn'[t] # "open" => PeerGone(t) \/ Cleanup(t) \/ Restart
  <2> DEFINE Goal ==
        /\ active'.conn # t =>
             (\E u \in Conns : u # t /\ Replace(u)) \/ Cleanup(t) \/ Restart
        /\ conn[t] = "open" /\ conn'[t] # "open" => PeerGone(t) \/ Cleanup(t) \/ Restart
  <2> USE DEF IInv
  <2>1. ASSUME NEW u \in Conns, Return(u) PROVE Goal
    <3>1. active' = active
      BY <2>1 DEF Return
    <3>2. Referenced(t)'
      BY <1>1, <3>1 DEF Referenced
    <3>3. conn'[t] = conn[t]
      BY <2>1, <3>2 DEF Return, DropUnreferenced
    <3> QED
      BY <1>1, <3>1, <3>3
  <2>2. ASSUME NEW u \in Conns, Cleanup(u) PROVE Goal
    <3>1. CASE u = t
      BY <2>2, <3>1
    <3>2. CASE u # t
      <4>1. active' = active
        BY <1>1, <2>2, <3>2, NoConnAssumption
        DEF Cleanup, SlotHasLiveOwner, TypeOK, ActiveClient, NoClient, IdsDistinct
      <4>2. Referenced(t)'
        BY <1>1, <4>1 DEF Referenced
      <4>3. conn'[t] = conn[t]
        BY <2>2, <4>2 DEF Cleanup, DropUnreferenced
      <4> QED
        BY <1>1, <4>1, <4>3
    <3> QED
      BY <3>1, <3>2
  <2>3. ASSUME NEW u \in Conns, ClosePrevious(u) PROVE Goal
    <3>1. previous[u] # t /\ active' = active
      BY <1>1, <2>3, NoConnAssumption DEF ClosePrevious, PreviousHeld, DisplacedForGood
    <3>2. conn'[t] = conn[t]
      BY <2>3, <3>1 DEF ClosePrevious, TypeOK
    <3> QED
      BY <1>1, <3>1, <3>2
  <2>4. ASSUME NEW u \in Conns, Replace(u) PROVE Goal
    <3>1. u # t
      BY <1>1, <2>4, NoConnAssumption DEF Replace, SlotHasLiveOwner, NoClient
    <3> QED
      BY <2>4, <3>1 DEF Replace
  <2>5. ASSUME NEW u \in Conns,
               \/ Accept(u) \/ HandshakeDone(u) \/ AuthVpn(u) \/ AuthBench(u)
               \/ TakeId(u) \/ StreamsReady(u) \/ PeerGone(u)
        PROVE  Goal
    BY <1>1, <2>5
    DEF Accept, HandshakeDone, AuthVpn, AuthBench, AuthAs, TakeId, StreamsReady, PeerGone,
        TypeOK
  <2>6. CASE Restart
    BY <2>6
  <2>7. ASSUME NEW u \in Conns, Progress(u) PROVE Goal
    BY <2>1, <2>2, <2>3, <2>4, <2>5, <2>7
    DEF Progress, HandshakeFailed, AuthFailed, BenchEnd, CapacityTooSmall, SessionLost
  <2> QED
    BY <1>1, <2>1, <2>5, <2>6, <2>7 DEF Next, PumpError
<1>2. IInv /\ [Next]_vars => [OwnerUndisturbed]_vars
  BY <1>1 DEF OwnerUndisturbed
<1> QED
  BY <1>2, Inductive, PTL DEF Spec
=============================================================================
