------------------------- MODULE XrpRuntimeRefines --------------------------
(* XrpRuntime implements RefCounted and XrpEvents, for any number of       *)
(* clients, queues and commands.  The first rests on IInv of XrpRuntimeInv *)
(* twice: an object is live exactly while it is held (HeldIsLive), and its *)
(* memory moves through its life one stage at a time (MemMoves).  The      *)
(* second needs an invariant more: an event has a status exactly when it   *)
(* has been allocated (StatusSet).                                         *)
EXTENDS XrpRuntimeProofs

HeldIsLive == \A o \in Objects : mem[o] = "live" <=> Holders(o) # {}

LEMMA InvHeldIsLive == IInv => HeldIsLive
<1> SUFFICES ASSUME IInv, NEW o \in Objects PROVE mem[o] = "live" <=> Holders(o) # {}
  BY DEF HeldIsLive
<1>1. ASSUME Holders(o) = {} PROVE mem[o] # "live"
  <2>1. ref[o] = 0
    BY <1>1, FS_EmptySet DEF IInv, RefExact
  <2> QED
    BY <2>1 DEF IInv, LiveHeld
<1> QED
  BY <1>1, Held

(* The stages of an object: nothing skips one, goes back, or revives.      *)
Moves(o) ==
  \/ mem'[o] = mem[o]
  \/ mem[o] = "none" /\ mem'[o] = "live"
  \/ mem[o] = "live" /\ mem'[o] \in {"closing", "freed"}
  \/ mem[o] = "closing" /\ mem'[o] = "shut"
  \/ mem[o] = "shut" /\ mem'[o] = "freed"
AllMove == \A o \in Objects : Moves(o)
NoBirth == \A o \in Objects : mem[o] = "none" => mem'[o] = "none"

LEMMA CallMoves ==
  ASSUME IInv, NEW t \in Clients, Call(t)
  PROVE  AllMove
<1> USE Disjoint DEF AllMove, Moves
<1>m. mem \in [Objects -> MemStates]
  BY DEF IInv, TypeOK
<1>1. ASSUME NEW u \in Clients, NEW o \in Objects, Share(t, u, o) PROVE AllMove
  BY <1>1 DEF Share
<1>2. ASSUME NEW q \in Queues, CreateQueue(t, q) PROVE AllMove
  BY <1>2, <1>m DEF CreateQueue
<1>3. ASSUME NEW q \in Queues, ReleaseQueue(t, q) PROVE AllMove
  <2>1. mem[q] = "live"
    BY <1>3, OwnedLive DEF ReleaseQueue
  <2> QED
    BY <1>3, <1>m, <2>1 DEF ReleaseQueue
<1>4. ASSUME NEW q \in Queues, NEW c \in Cmds, NEW kind \in {"event", "sync", "noevent"},
             Enqueue(t, q, c, kind)
      PROVE  AllMove
  <2>1. mem[c] = "none"
    BY <1>4 DEF Enqueue, IInv, PendingRequests, Pending
  <2> QED
    BY <1>4, <1>m, <2>1 DEF Enqueue, objVars
<1>5. ASSUME NEW c \in Cmds, CallWait(t, c) PROVE AllMove
  BY <1>5 DEF CallWait, objVars
<1>6. ASSUME NEW c \in Cmds, ReleaseEvent(t, c) PROVE AllMove
  <2>1. c \in own[t]
    BY <1>6 DEF ReleaseEvent, IInv, OwnsWhatItUses, UsesOwned
  <2>2. mem[c] = "live"
    BY <2>1, OwnedLive
  <2> QED
    BY <1>6, <1>m, <2>2 DEF ReleaseEvent
<1>7. CASE ReleaseDevice(t)
  <2>1. mem[Device] = "live"
    BY <1>7, OwnedLive DEF ReleaseDevice
  <2> QED
    BY <1>7, <1>m, <2>1 DEF ReleaseDevice
<1> QED
  BY <1>1, <1>2, <1>3, <1>4, <1>5, <1>6, <1>7 DEF Call

LEMMA DestructorMoves ==
  ASSUME IInv, NEW t \in Threads, Destructor(t)
  PROVE  AllMove /\ NoBirth
<1> USE Disjoint DEF AllMove, Moves, NoBirth
<1>m. mem \in [Objects -> MemStates] /\ EventDtor(t) /\ QueueDtorOf(t) /\ qu[t] \in Queues
  BY DEF IInv, TypeOK, Destruction
<1>1. CASE EvDrop(t)
  <2>1. cmd[t] \in Cmds /\ mem[cmd[t]] = "closing"
    BY <1>m, <1>1 DEF EvDrop, EventDtor, DestroysEvent
  <2>2. parent[cmd[t]] \in Queues /\ mem[parent[cmd[t]]] = "live"
    BY <2>1, EventKeepsQueue DEF HoldsParent
  <2> QED
    BY <1>m, <1>1, <2>1, <2>2 DEF EvDrop
<1>2. CASE QExit(t) \/ QJoin(t) \/ QSync(t)
  BY <1>2 DEF QExit, QJoin, QSync, objVars
<1>3. CASE QClose(t)
  <2>1. mem[qu[t]] = "closing"
    BY <1>m, <1>3 DEF QClose, QueueDtorOf, DestroysQueue, QueueDtor
  <2>2. mem[Device] = "live"
    BY <1>m, <2>1, QueueKeepsDevice DEF HoldsParent
  <2> QED
    BY <1>m, <1>3, <2>1, <2>2 DEF QClose
<1>4. CASE QFree(t)
  <2>1. mem[qu[t]] = "shut"
    BY <1>m, <1>4 DEF QFree, QueueDtorOf, DestroysQueue, QueueDtor
  <2> QED
    BY <1>m, <1>4, <2>1 DEF QFree
<1>5. CASE EvFree(t)
  <2>1. cmd[t] \in Cmds /\ mem[cmd[t]] = "shut"
    BY <1>m, <1>5 DEF EvFree, EventDtor, DestroysEvent
  <2> QED
    BY <1>m, <1>5, <2>1 DEF EvFree
<1> QED
  BY <1>1, <1>2, <1>3, <1>4, <1>5 DEF Destructor

LEMMA WorkerMoves ==
  ASSUME IInv, NEW q \in Queues, Worker(q)
  PROVE  AllMove /\ NoBirth
<1>1. CASE WorkerLoop(q) \/ WorkerDequeue(q) \/ WorkerIdle(q) \/ WorkerComplete(q)
  BY <1>1 DEF WorkerLoop, WorkerDequeue, WorkerIdle, WorkerComplete, objVars, AllMove, Moves, NoBirth
<1>2. CASE WorkerDrop(q)
  <2>1. cmd[q] \in Cmds /\ RequestOwnsEvent(cmd[q])
    BY <1>2 DEF WorkerDrop, IInv, RunningRequests, Running, RequestOwnsEvent
  <2>2. mem[cmd[q]] = "live"
    BY <2>1, RequestKeepsEvent
  <2> QED
    BY <1>2, <2>1, <2>2, Disjoint DEF WorkerDrop, AllMove, Moves, NoBirth, IInv, TypeOK
<1>3. CASE Destructor(q)
  BY <1>3, DestructorMoves DEF Threads
<1> QED
  BY <1>1, <1>2, <1>3 DEF Worker

LEMMA MemMoves ==
  ASSUME IInv, [Next]_vars
  PROVE  AllMove
<1>1. ASSUME NEW t \in Clients, Continue(t) PROVE AllMove
  <2>1. CASE Push(t) \/ WaitCheck(t)
    BY <2>1 DEF Push, WaitCheck, objVars, AllMove, Moves
  <2>2. ASSUME NEW c \in Cmds, pc[t] = "unref", ReleaseEvent(t, c) PROVE AllMove
    <3>1. c \in own[t]
      BY <2>2 DEF ReleaseEvent, IInv, OwnsWhatItUses, UsesOwned
    <3>2. mem[c] = "live"
      BY <3>1, OwnedLive
    <3> QED
      BY <2>2, <3>2, Disjoint DEF ReleaseEvent, AllMove, Moves, IInv, TypeOK
  <2>3. CASE Destructor(t)
    BY <2>3, DestructorMoves DEF Threads
  <2> QED
    BY <1>1, <2>1, <2>2, <2>3 DEF Continue
<1>2. ASSUME NEW t \in Threads, SpuriousWakeup(t) PROVE AllMove
  BY <1>2 DEF SpuriousWakeup, objVars, AllMove, Moves
<1>3. CASE UNCHANGED vars
  BY <1>3 DEF vars, AllMove, Moves
<1> QED
  BY <1>1, <1>2, <1>3, CallMoves, WorkerMoves DEF Next

(* Devices, queues and events live exactly as long as somebody holds them; *)
(* each dies at the release of its last reference and is freed once.       *)
THEOREM ImplementsRefCounted == Spec => IsRefCounted
<1>1. ASSUME Init PROVE Lives!Init
  <2>1. HeldIsLive
    BY <1>1, InitIInv, InvHeldIsLive
  <2>2. \A o \in Objects : mem[o] \in {"none", "live"}
    BY <1>1 DEF Init
  <2> QED
    BY <2>1, <2>2 DEF HeldIsLive, Lives!Init
<1>2. ASSUME IInv, IInv', [Next]_vars PROVE Lives!Next
  <2> SUFFICES ASSUME NEW o \in Objects PROVE Lives!Step(o)
    BY DEF Lives!Next
  <2>1. HeldIsLive'
    BY <1>2, InvHeldIsLive, PTL
  <2>2. Moves(o)
    BY <1>2, MemMoves DEF AllMove
  <2>3. mem[o] \in MemStates
    BY <1>2 DEF IInv, TypeOK
  <2> QED
    BY <2>1, <2>2, <2>3 DEF HeldIsLive, Moves, MemStates, Lives!Step, Lives!Kept, Lives!Gone,
       Lives!Born, Lives!Dies, Lives!Freed, Lives!Unheld
<1> QED
  BY <1>1, <1>2, Invariance, PTL DEF Spec, IsRefCounted, Lives!Spec

(* An event is pending from the moment it is allocated, so a thread that   *)
(* finds it not pending finds it completed.                                *)
StatusSet == \A c \in Cmds : mem[c] = "none" <=> status[c] = "none"

(* The steps that only pass through the status and the waiting threads.    *)
Quiet ==
  /\ status' = status
  /\ \A t \in Clients :
       IF pc[t] \in {"wait", "asleep"}
       THEN pc'[t] \in {"wait", "asleep"} /\ cmd'[t] = cmd[t]
       ELSE pc'[t] \notin {"wait", "asleep"}

LEMMA QuietStutters ==
  ASSUME StatusSet, Quiet, AllMove, \A c \in Cmds : mem[c] = "none" => mem'[c] = "none"
  PROVE  [Waits!Next]_(Waits!vars) /\ StatusSet'
<1>1. UNCHANGED Waits!vars
  BY DEF Quiet, Waits!vars
<1>2. StatusSet'
  BY Disjoint DEF Quiet, AllMove, Moves, StatusSet
<1> QED
  BY <1>1, <1>2

LEMMA DestructorQuiet ==
  ASSUME IInv, NEW t \in Threads, Destructor(t)
  PROVE  Quiet
<1> USE Disjoint DEF Quiet, Goto, evVars, thVars, Threads, IInv, TypeOK
<1>1. CASE EvDrop(t)
  BY <1>1 DEF EvDrop
<1>2. CASE QExit(t)
  BY <1>2 DEF QExit, Woken
<1>3. CASE QJoin(t) \/ QSync(t) \/ QClose(t)
  BY <1>3 DEF QJoin, QSync, QClose
<1>4. CASE QFree(t) \/ EvFree(t)
  BY <1>4 DEF QFree, EvFree, Return
<1> QED
  BY <1>1, <1>2, <1>3, <1>4 DEF Destructor

LEMMA CallEvents ==
  ASSUME IInv, StatusSet, NEW t \in Clients, Call(t)
  PROVE  [Waits!Next]_(Waits!vars) /\ StatusSet'
<1> USE Disjoint DEF Goto, evVars, thVars, Threads
<1>m. /\ mem \in [Objects -> MemStates] /\ \A c \in Cmds : c \in Objects
      /\ pc \in [Threads -> ClientPCs \cup WorkerPCs] /\ cmd \in [Threads -> Cmds \cup {NoCmd}]
      /\ status \in [Cmds -> {"none", "pending", "success", "failure"}]
  BY DEF IInv, TypeOK
<1>1. ASSUME NEW c \in Cmds, CallWait(t, c)
      PROVE  [Waits!Next]_(Waits!vars) /\ StatusSet'
  <2>1. Waits!Wait(t, {c})
    BY <1>1, <1>m DEF CallWait, Waits!Wait
  <2> QED
    BY <1>1, <2>1 DEF CallWait, objVars, StatusSet, Waits!Next
<1>2. ASSUME NEW q \in Queues, NEW c \in Cmds, NEW kind \in {"event", "sync", "noevent"},
             Enqueue(t, q, c, kind)
      PROVE  [Waits!Next]_(Waits!vars) /\ StatusSet'
  <2>1. mem[c] = "none" /\ status[c] = "none"
    BY <1>2 DEF Enqueue, IInv, PendingRequests, Pending, StatusSet
  <2>2. StatusSet'
    <3>1. CASE UNCHANGED <<mem, status>>
      BY <3>1 DEF StatusSet
    <3>2. CASE mem' = [mem EXCEPT ![c] = "live"] /\ status' = [status EXCEPT ![c] = "pending"]
      BY <1>m, <3>2 DEF StatusSet
    <3> QED
      BY <1>2, <3>1, <3>2 DEF Enqueue, objVars
  <2>3. \A d \in Cmds : status'[d] \in {"success", "failure"} <=> status[d] \in {"success", "failure"}
    BY <1>2, <1>m, <2>1 DEF Enqueue, objVars
  <2>4. \A u \in Clients : pc[u] \in {"wait", "asleep"} => pc'[u] = pc[u] /\ cmd'[u] = cmd[u]
    BY <1>2, <1>m DEF Enqueue
  <2>5. \A u \in Clients : pc'[u] \in {"wait", "asleep"} => pc'[u] = pc[u]
    BY <1>2, <1>m DEF Enqueue
  <2>6. UNCHANGED Waits!vars
    BY <2>3, <2>4, <2>5 DEF Waits!vars
  <2> QED
    BY <2>2, <2>6
<1>3. ASSUME NEW u \in Clients, NEW o \in Objects, Share(t, u, o)
      PROVE  [Waits!Next]_(Waits!vars) /\ StatusSet'
  BY QuietStutters, <1>3, CallMoves DEF Share, Quiet
<1>4. ASSUME NEW q \in Queues, CreateQueue(t, q)
      PROVE  [Waits!Next]_(Waits!vars) /\ StatusSet'
  <2>1. Quiet
    BY <1>4, <1>m DEF CreateQueue, Quiet
  <2>2. \A c \in Cmds : mem'[c] = mem[c]
    BY <1>4, <1>m DEF CreateQueue
  <2> QED
    BY QuietStutters, <2>1, <2>2, CallMoves
<1>5. ASSUME NEW q \in Queues, ReleaseQueue(t, q)
      PROVE  [Waits!Next]_(Waits!vars) /\ StatusSet'
  <2>1. Quiet
    BY <1>5, <1>m DEF ReleaseQueue, Quiet
  <2>2. \A c \in Cmds : mem'[c] = mem[c]
    BY <1>5, <1>m DEF ReleaseQueue
  <2> QED
    BY QuietStutters, <2>1, <2>2, CallMoves
<1>6. ASSUME NEW c \in Cmds, pc[t] = "idle", ReleaseEvent(t, c)
      PROVE  [Waits!Next]_(Waits!vars) /\ StatusSet'
  <2>1. Quiet
    BY <1>6, <1>m DEF ReleaseEvent, Quiet
  <2>2. mem[c] = "live"
    BY <1>6, OwnedLive DEF ReleaseEvent
  <2>3. \A d \in Cmds : mem[d] = "none" => mem'[d] = "none"
    BY <1>6, <1>m, <2>2 DEF ReleaseEvent
  <2> QED
    BY QuietStutters, <2>1, <2>3, CallMoves
<1>7. CASE ReleaseDevice(t)
  BY QuietStutters, <1>7, CallMoves DEF ReleaseDevice, Quiet
<1> QED
  BY <1>1, <1>2, <1>3, <1>4, <1>5, <1>6, <1>7 DEF Call

LEMMA ContinueEvents ==
  ASSUME IInv, StatusSet, NEW t \in Clients, Continue(t)
  PROVE  [Waits!Next]_(Waits!vars) /\ StatusSet'
<1> USE Disjoint DEF Goto, evVars, thVars, Threads
<1>m. /\ mem \in [Objects -> MemStates] /\ \A c \in Cmds : c \in Objects
      /\ pc \in [Threads -> ClientPCs \cup WorkerPCs] /\ cmd \in [Threads -> Cmds \cup {NoCmd}]
      /\ qu \in [Threads -> Queues]
      /\ status \in [Cmds -> {"none", "pending", "success", "failure"}]
  BY DEF IInv, TypeOK
<1>1. CASE Push(t)
  <2>1. StatusSet'
    BY <1>1 DEF Push, objVars, StatusSet
  <2>2. CASE sync[t]
    <3>1. PICK c \in Cmds : c = cmd[t]
      BY <1>1 DEF Push, IInv, PushedRequests, Pushing
    <3>2. Waits!Wait(t, {c})
      BY <1>1, <1>m, <2>2, <3>1 DEF Push, Waits!Wait
    <3> QED
      BY <2>1, <3>2 DEF Waits!Next
  <2>3. CASE ~sync[t]
    <3>1. Quiet
      BY <1>1, <1>m, <2>3 DEF Push, Quiet
    <3> QED
      BY <2>1, <3>1 DEF Quiet, Waits!vars
  <2> QED
    BY <2>2, <2>3
<1>2. CASE WaitCheck(t)
  <2>1. StatusSet'
    BY <1>2 DEF WaitCheck, objVars, StatusSet
  <2>2. cmd[t] \in own[t] \cap Cmds
    BY <1>2 DEF WaitCheck, IInv, OwnsWhatItUses, UsesOwned
  <2>3. status[cmd[t]] # "none"
    BY <2>2, OwnedLive DEF StatusSet
  <2>4. CASE status[cmd[t]] = "pending"
    <3>1. Quiet
      BY <1>2, <1>m, <2>4 DEF WaitCheck, Quiet
    <3> QED
      BY <2>1, <3>1 DEF Quiet, Waits!vars
  <2>5. CASE status[cmd[t]] # "pending"
    <3>1. status[cmd[t]] \in {"success", "failure"}
      BY <1>m, <2>2, <2>3, <2>5
    <3>2. Waits!Return(t)
      BY <1>2, <1>m, <2>2, <2>5, <3>1 DEF WaitCheck, Waits!Return
    <3> QED
      BY <2>1, <3>2 DEF Waits!Next
  <2> QED
    BY <2>4, <2>5
<1>3. ASSUME NEW c \in Cmds, pc[t] = "unref", ReleaseEvent(t, c)
      PROVE  [Waits!Next]_(Waits!vars) /\ StatusSet'
  <2>1. Quiet
    BY <1>3, <1>m DEF ReleaseEvent, Quiet
  <2>2. mem[c] = "live"
    BY <1>3, OwnedLive DEF ReleaseEvent, IInv, OwnsWhatItUses, UsesOwned
  <2>3. \A d \in Cmds : mem[d] = "none" => mem'[d] = "none"
    BY <1>3, <1>m, <2>2 DEF ReleaseEvent
  <2>4. [Next]_vars
    BY DEF Next
  <2> QED
    BY QuietStutters, MemMoves, <2>1, <2>3, <2>4
<1>4. CASE Destructor(t)
  BY <1>4, DestructorQuiet, DestructorMoves, QuietStutters DEF NoBirth
<1> QED
  BY <1>1, <1>2, <1>3, <1>4 DEF Continue

LEMMA WorkerEvents ==
  ASSUME IInv, StatusSet, NEW q \in Queues, Worker(q)
  PROVE  [Waits!Next]_(Waits!vars) /\ StatusSet'
<1> USE Disjoint DEF Goto, evVars, thVars, Threads
<1>m. /\ pc \in [Threads -> ClientPCs \cup WorkerPCs] /\ cmd \in [Threads -> Cmds \cup {NoCmd}]
      /\ status \in [Cmds -> {"none", "pending", "success", "failure"}]
  BY DEF IInv, TypeOK
<1>q. ASSUME Quiet PROVE [Waits!Next]_(Waits!vars) /\ StatusSet'
  BY <1>q, WorkerMoves, QuietStutters DEF NoBirth
<1>1. CASE WorkerLoop(q)
  BY <1>1, <1>m, <1>q DEF WorkerLoop, Quiet
<1>2. CASE WorkerDequeue(q)
  BY <1>2, <1>m, <1>q DEF WorkerDequeue, Quiet
<1>3. CASE WorkerIdle(q)
  BY <1>3, <1>m, <1>q DEF WorkerIdle, Quiet
<1>4. CASE WorkerComplete(q)
  <2>1. CASE mem[cmd[q]] = "none"
    BY <1>4, <1>m, <1>q, <2>1 DEF WorkerComplete, Quiet
  <2>2. CASE mem[cmd[q]] # "none"
    <3>1. PICK c \in Cmds : c = cmd[q]
      BY <1>4 DEF WorkerComplete, IInv, RunningRequests, Running
    <3>2. PICK s \in {"success", "failure"} : status' = [status EXCEPT ![c] = s]
      BY <1>4, <2>2, <3>1 DEF WorkerComplete
    <3>3. UNCHANGED <<mem, cmd>>
      BY <1>4 DEF WorkerComplete, objVars
    <3>4. StatusSet'
      BY <1>m, <2>2, <3>1, <3>2, <3>3 DEF StatusSet
    <3>5. \A t \in Clients : pc'[t] \in {"wait", "asleep"} <=> pc[t] \in {"wait", "asleep"}
      BY <1>4, <1>m, <2>2 DEF WorkerComplete
    <3> DEFINE Done == {d \in Cmds : status[d] \in {"success", "failure"}}
    <3>6. Done' = Done \cup {c}
      BY <1>m, <3>1, <3>2
    <3>7. c \in Done \/ Waits!Complete(c)
      BY <3>3, <3>5, <3>6 DEF Waits!Complete
    <3>8. c \in Done => UNCHANGED Waits!vars
      BY <3>3, <3>5, <3>6 DEF Waits!vars
    <3> QED
      BY <3>4, <3>7, <3>8 DEF Waits!Next
  <2> QED
    BY <2>1, <2>2
<1>5. CASE WorkerDrop(q)
  BY <1>5, <1>m, <1>q DEF WorkerDrop, Quiet
<1>6. CASE Destructor(q)
  BY <1>6, <1>q, DestructorQuiet
<1> QED
  BY <1>1, <1>2, <1>3, <1>4, <1>5, <1>6 DEF Worker

(* xrp_wait never returns before the event has been completed, although    *)
(* the condition variable may wake it earlier, and no event is completed   *)
(* twice or taken back.  (That xrp_wait does return is liveness.)          *)
THEOREM ImplementsEvents == Spec => IsEvents
<1>1. ASSUME Init PROVE Waits!Init /\ StatusSet
  BY <1>1, Disjoint DEF Init, Waits!Init, StatusSet, Threads
<1>2. ASSUME IInv, StatusSet, [Next]_vars PROVE [Waits!Next]_(Waits!vars) /\ StatusSet'
  <2>1. ASSUME NEW t \in Threads, SpuriousWakeup(t)
        PROVE  [Waits!Next]_(Waits!vars) /\ StatusSet'
    <3>1. Quiet
      BY <1>2, <2>1, Disjoint DEF SpuriousWakeup, Goto, Quiet, evVars, thVars, IInv, TypeOK, Threads
    <3> QED
      BY <1>2, <2>1, <3>1 DEF SpuriousWakeup, objVars, StatusSet, Quiet, Waits!vars
  <2>2. CASE UNCHANGED vars
    BY <1>2, <2>2 DEF vars, StatusSet, Waits!vars
  <2> QED
    BY <1>2, <2>1, <2>2, CallEvents, ContinueEvents, WorkerEvents DEF Next
<1> QED
  BY <1>1, <1>2, Invariance, PTL DEF Spec, IsEvents, Waits!Spec
=============================================================================
