-------------------------- MODULE XrpRuntimeProofs --------------------------
(* Proofs about XrpRuntime, for any number of clients, queues and commands.*)
(* IInv of XrpRuntimeInv is inductive (Invariance); the properties follow. *)
(*                                                                         *)
(* In the lemma of an action, <1>u says what it leaves unchanged, <1>g is  *)
(* its guard, <1>e what it assigns, and <1>f1, <1>f2 ... what the          *)
(* invariant says of the objects it works on.                              *)
EXTENDS XrpRuntimeInv, FiniteSetTheorems, SequenceTheorems, TLAPS

(* Threads, queues, commands and the device are told apart.                *)
LEMMA Disjoint ==
  /\ \A t \in Clients : t \notin Queues /\ t \notin Cmds /\ t # Device
  /\ \A q \in Queues : q \notin Clients /\ q \notin Cmds /\ q # Device
  /\ \A c \in Cmds : c \notin Clients /\ c \notin Queues /\ c # Device /\ c # NoCmd
  /\ Objects = Queues \cup Cmds \cup {Device}
BY ConstantsAssumption DEF Objects

(* An object has finitely many holders.                                    *)
LEMMA HoldersFinite ==
  ASSUME NEW o \in Objects
  PROVE  IsFiniteSet(Holders(o)) /\ Cardinality(Holders(o)) \in Nat
<1>1. Holders(o) \subseteq Clients \cup Cmds \cup Queues
  BY DEF Holders, Owners
<1>2. IsFiniteSet(Clients \cup Cmds \cup Queues)
  BY ConstantsAssumption, FS_Union
<1> QED
  BY <1>1, <1>2, FS_Subset, FS_CardinalityType

(* Whatever has a holder has a positive count and has not been destroyed.  *)
LEMMA Held ==
  ASSUME IInv, NEW o \in Objects, Holders(o) # {}
  PROVE  ref[o] \in Nat /\ ref[o] > 0 /\ mem[o] = "live"
<1>1. Cardinality(Holders(o)) # 0
  BY HoldersFinite, FS_EmptySet
<1>2. ref[o] = Cardinality(Holders(o)) /\ ref[o] \in Nat
  BY HoldersFinite DEF IInv, RefExact
<1> QED
  BY <1>1, <1>2 DEF IInv, LiveHeld

(* Whatever is not live has no holder.                                     *)
LEMMA Unheld ==
  ASSUME IInv, NEW o \in Objects, mem[o] # "live"
  PROVE  ref[o] = 0 /\ Holders(o) = {}
BY Held, HoldersFinite, FS_EmptySet DEF IInv, RefExact

(* The application may use what it owns a reference to.                    *)
LEMMA OwnedLive ==
  ASSUME IInv, NEW t \in Clients, NEW o \in own[t]
  PROVE  o \in Objects /\ ref[o] \in Nat /\ ref[o] > 0 /\ mem[o] = "live" /\ t \in Holders(o)
<1>1. o \in Objects
  BY DEF IInv, TypeOK
<1>2. t \in Holders(o)
  BY <1>1 DEF Holders, Owners
<1> QED
  BY <1>1, <1>2, Held

(* An unprocessed request keeps its event (xrp_retain_event).              *)
LEMMA RequestKeepsEvent ==
  ASSUME IInv, NEW c \in Cmds, RequestOwnsEvent(c)
  PROVE  ref[c] \in Nat /\ ref[c] > 0 /\ mem[c] = "live" /\ c \in Holders(c)
<1>1. c \in Holders(c)
  BY Disjoint DEF Holders
<1> QED
  BY <1>1, Held, Disjoint

(* An event keeps its queue (xrp_retain_queue in xrp_enqueue_command).     *)
LEMMA EventKeepsQueue ==
  ASSUME IInv, NEW c \in Cmds, mem[c] \in HoldsParent
  PROVE  /\ parent[c] \in Queues /\ c \in Holders(parent[c])
         /\ ref[parent[c]] \in Nat /\ ref[parent[c]] > 0 /\ mem[parent[c]] = "live"
<1>1. parent[c] \in Queues
  BY DEF IInv, TypeOK
<1>2. c \in Holders(parent[c])
  BY <1>1 DEF Holders
<1> QED
  BY <1>1, <1>2, Held, Disjoint

(* A queue keeps its device (xrp_retain_device in xrp_create_nsp_queue).   *)
LEMMA QueueKeepsDevice ==
  ASSUME IInv, NEW q \in Queues, mem[q] \in HoldsParent
  PROVE  ref[Device] \in Nat /\ ref[Device] > 0 /\ mem[Device] = "live" /\ q \in Holders(Device)
<1>1. q \in Holders(Device)
  BY Disjoint DEF Holders
<1> QED
  BY <1>1, Held, Disjoint

(* A retain by a new holder keeps the counts exact.                        *)
LEMMA AddHolder ==
  ASSUME IInv, NEW X \in Objects, NEW h, h \notin Holders(X),
         ref' = [ref EXCEPT ![X] = @ + 1],
         \A o \in Objects : Holders(o)' = IF o = X THEN Holders(o) \cup {h} ELSE Holders(o)
  PROVE  RefExact'
<1> SUFFICES ASSUME NEW o \in Objects PROVE ref'[o] = Cardinality(Holders(o)')
  BY DEF RefExact
<1>1. ref \in [Objects -> Nat] /\ ref[o] = Cardinality(Holders(o))
  BY DEF IInv, RefExact, TypeOK
<1>2. CASE o = X
  BY <1>1, <1>2, HoldersFinite, FS_AddElement
<1>3. CASE o # X
  BY <1>1, <1>3
<1> QED
  BY <1>2, <1>3

(* So does a release by a holder.                                          *)
LEMMA RemoveHolder ==
  ASSUME IInv, NEW X \in Objects, NEW h \in Holders(X),
         ref' = [ref EXCEPT ![X] = @ - 1],
         \A o \in Objects : Holders(o)' = IF o = X THEN Holders(o) \ {h} ELSE Holders(o)
  PROVE  RefExact'
<1> SUFFICES ASSUME NEW o \in Objects PROVE ref'[o] = Cardinality(Holders(o)')
  BY DEF RefExact
<1>1. ref \in [Objects -> Nat] /\ ref[o] = Cardinality(Holders(o))
  BY DEF IInv, RefExact, TypeOK
<1>2. CASE o = X
  BY <1>1, <1>2, HoldersFinite, FS_RemoveElement
<1>3. CASE o # X
  BY <1>1, <1>3
<1> QED
  BY <1>2, <1>3

(* So does a step that changes neither counts nor holders.                 *)
LEMMA SameHolders ==
  ASSUME IInv, ref' = ref, \A o \in Objects : Holders(o)' = Holders(o)
  PROVE  RefExact'
BY DEF IInv, RefExact

(* The same, said of the memory states and the requests.                   *)
LEMMA HoldersFrame ==
  ASSUME IInv, UNCHANGED <<ref, own, parent>>,
         \A x \in Objects : mem'[x] \in HoldsParent <=> mem[x] \in HoldsParent,
         \A x \in Cmds : RequestOwnsEvent(x)' <=> RequestOwnsEvent(x)
  PROVE  RefExact'
<1>1. ASSUME NEW o \in Objects PROVE Holders(o)' = Holders(o)
  BY Disjoint DEF Holders, Owners
<1> QED
  BY <1>1, SameHolders

(* A step that touches none of the variables the counts depend on.         *)
LEMMA RefFrame ==
  ASSUME IInv, UNCHANGED <<ref, mem, own, parent, req>>
  PROVE  RefExact' /\ LiveHeld'
<1>1. ASSUME NEW o \in Objects PROVE Holders(o)' = Holders(o)
  BY DEF Holders, Owners, RequestOwnsEvent
<1> QED
  BY <1>1, SameHolders DEF IInv, LiveHeld

(* The other threads keep their objects, and none enters or leaves a       *)
(* destructor.                                                             *)
OthersKeep(t) ==
  \A x \in Threads \ {t} :
    /\ cmd'[x] = cmd[x] /\ qu'[x] = qu[x]
    /\ pc'[x] = pc[x] \/ (pc[x] \notin DestructorPCs /\ pc'[x] \notin DestructorPCs)

(* A step of thread t keeps Destruction if the others stay where they are, *)
(* the objects they destroy do too, and t does not join them.              *)
LEMMA DestructionKept ==
  ASSUME IInv, NEW t \in Threads, OthersKeep(t),
         \A o \in Objects : mem[o] \in {"closing", "shut"} =>
            \/ mem'[o] = mem[o]
            \/ \A x \in Threads \ {t} : (DestroysEvent(x) => cmd[x] # o) /\ (DestroysQueue(x) => qu[x] # o),
         EventDtor(t)', QueueDtorOf(t)',
         \A u \in Threads \ {t} : Exclusive(t, u)'
  PROVE  Destruction'
<1> USE DEF EventDtor, QueueDtorOf, DestroysEvent, DestroysQueue, QueueDtor, DestructorPCs
<1>1. ASSUME NEW x \in Threads \ {t}
      PROVE  EventDtor(x)' /\ QueueDtorOf(x)'
  <2>1. EventDtor(x) /\ QueueDtorOf(x) /\ qu[x] \in Objects /\ (cmd[x] \in Cmds => cmd[x] \in Objects)
    BY Disjoint DEF IInv, Destruction, TypeOK
  <2>2. cmd'[x] = cmd[x] /\ qu'[x] = qu[x]
    BY DEF OthersKeep
  <2>3. pc'[x] = pc[x] \/ (pc[x] \notin DestructorPCs /\ pc'[x] \notin DestructorPCs)
    BY DEF OthersKeep
  <2> QED
    BY <2>1, <2>2, <2>3
<1>2. ASSUME NEW x \in Threads \ {t}, NEW y \in Threads \ {t}, x # y
      PROVE  Exclusive(x, y)'
  <2>1. Exclusive(x, y)
    BY <1>2 DEF IInv, Destruction
  <2>2. cmd'[x] = cmd[x] /\ qu'[x] = qu[x] /\ cmd'[y] = cmd[y] /\ qu'[y] = qu[y]
    BY DEF OthersKeep
  <2>3. /\ pc'[x] = pc[x] \/ (pc[x] \notin DestructorPCs /\ pc'[x] \notin DestructorPCs)
        /\ pc'[y] = pc[y] \/ (pc[y] \notin DestructorPCs /\ pc'[y] \notin DestructorPCs)
    BY DEF OthersKeep
  <2> QED
    BY <2>1, <2>2, <2>3 DEF Exclusive
<1>3. ASSUME NEW x \in Threads \ {t}
      PROVE  Exclusive(x, t)'
  <2>1. Exclusive(t, x)'
    OBVIOUS
  <2> QED
    BY <2>1 DEF Exclusive
<1> QED
  BY <1>1, <1>2, <1>3 DEF Destruction

-----------------------------------------------------------------------------
(* Every action preserves the invariant.                                   *)

(* A thread that moves to a place of its own keeps the program counters    *)
(* typed.                                                                  *)
LEMMA TypedPC ==
  ASSUME TypeOK, NEW t \in Threads, NEW l, pc' = [pc EXCEPT ![t] = l],
         t \in Clients => l \in ClientPCs, t \in Queues => l \in WorkerPCs
  PROVE  /\ pc' \in [Threads -> ClientPCs \cup WorkerPCs]
         /\ \A x \in Clients : pc'[x] \in ClientPCs
         /\ \A x \in Queues : pc'[x] \in WorkerPCs
<1>1. /\ pc \in [Threads -> ClientPCs \cup WorkerPCs]
      /\ \A x \in Clients : pc[x] \in ClientPCs
      /\ \A x \in Queues : pc[x] \in WorkerPCs
  BY DEF TypeOK
<1>2. l \in ClientPCs \cup WorkerPCs
  BY DEF Threads
<1> QED
  BY <1>1, <1>2 DEF Threads

(* What a worker relies on survives a step of another thread that leaves   *)
(* its locals and its variable exit alone and at most starts to destroy    *)
(* its queue.                                                              *)
LEMMA WorkerUsesFrame ==
  ASSUME NEW x \in Queues, WorkerUses(x),
         pc'[x] = pc[x], qu'[x] = qu[x], cmd'[x] = cmd[x], parent' = parent,
         localExit' = localExit, syncExit' = syncExit,
         mem'[x] \in HoldsParent <=> mem[x] \in HoldsParent,
         mem'[x] = "none" <=> mem[x] = "none"
  PROVE  WorkerUses(x)'
BY DEF WorkerUses, DestroysQueue

(* xrp_retain_*: u becomes a holder of o.                                  *)
LEMMA ShareStep ==
  ASSUME IInv, NEW t \in Clients, NEW u \in Clients, NEW o \in Objects, Share(t, u, o)
  PROVE  IInv'
<1>u. UNCHANGED <<mem, pc, cmd, qu, sync, parent, status, req, items, exit, syncExit, localExit>>
  BY DEF Share, objVars, evVars, thVars, qVars
<1>f1. mem[o] = "live" /\ ref[o] \in Nat /\ ref[o] > 0
  BY OwnedLive DEF Share
<1>g. t # u /\ u \in Clients /\ o \in own[t] /\ o \notin own[u]
  BY Disjoint, <1>f1 DEF IInv, TypeOK, Share
<1>1. TypeOK'
  <2>1. ref' \in [Objects -> Nat]
    <3>1. ref[o] + 1 \in Nat
      BY <1>f1
    <3> QED
      BY <3>1 DEF IInv, TypeOK, Share
  <2>2. own' \in [Clients -> SUBSET Objects]
    <3>1. own[u] \cup {o} \in SUBSET Objects /\ u \in Clients
      BY <1>g, Disjoint DEF IInv, TypeOK
    <3> QED
      BY <3>1 DEF IInv, TypeOK, Share
  <2> QED
    BY <1>u, <2>1, <2>2 DEF IInv, TypeOK
<1>2. RefExact'
  <2>1. ASSUME NEW x \in Objects
        PROVE  Holders(x)' = IF x = o THEN Holders(x) \cup {u} ELSE Holders(x)
    <3>1. Owners(x)' = IF x = o THEN Owners(x) \cup {u} ELSE Owners(x)
      BY <1>g DEF Owners, IInv, TypeOK, Share
    <3> QED
      BY <3>1, <1>u, Disjoint DEF Holders, RequestOwnsEvent
  <2>2. u \notin Holders(o)
    BY <1>g, Disjoint DEF Holders, Owners
  <2> QED
    BY <2>1, <2>2, AddHolder DEF Share
<1>3. LiveHeld'
  <2> SUFFICES ASSUME NEW x \in Objects PROVE (mem[x] = "live" <=> ref[x] > 0)'
    BY DEF LiveHeld
  <2>1. mem[x] = "live" <=> ref[x] > 0
    BY DEF IInv, LiveHeld
  <2> QED
    BY <2>1, Disjoint, <1>f1, <1>g, <1>u DEF IInv, TypeOK, Share
<1>4. OwnsWhatItUses'
  <2> SUFFICES ASSUME NEW x \in Clients PROVE UsesOwned(x)'
    BY DEF OwnsWhatItUses
  <2>1. UsesOwned(x)
    BY DEF IInv, OwnsWhatItUses
  <2> QED
    BY <2>1, Disjoint, <1>f1, <1>g, <1>u DEF IInv, TypeOK, Threads, UsesOwned,
       Share
<1>5. PushedRequests' /\ QueuedRequests' /\ RunningRequests' /\ PendingRequests' /\ Destruction' /\ Workers' /\ Shutdown'
  BY <1>u DEF IInv, PushedRequests, Pushing, QueuedRequests, Listed,
     RunningRequests, Running, PendingRequests, Pending, Unprocessed, Destruction, EventDtor, QueueDtorOf, Exclusive, DestroysEvent, DestroysQueue, QueueDtor, Workers, WorkerUses, DestroysQueue, QueueDtor, HoldsParent, Shutdown, ExitStage, DestroyStage
<1> QED
  BY <1>1, <1>2, <1>3, <1>4, <1>5 DEF IInv

(* xrp_create_nsp_queue: t holds the queue, the queue holds the device.    *)
LEMMA CreateQueueStep ==
  ASSUME IInv, NEW t \in Clients, NEW q \in Queues, CreateQueue(t, q)
  PROVE  IInv'
<1>u. UNCHANGED <<cmd, qu, sync, parent, status, req, items, exit, syncExit, localExit>>
  BY DEF CreateQueue, Goto, objVars, evVars, thVars, qVars
<1>f1. mem[q] = "none" /\ ref[q] = 0 /\ Holders(q) = {}
  BY Unheld, Disjoint DEF CreateQueue
<1>f2. mem[Device] = "live" /\ ref[Device] \in Nat /\ ref[Device] > 0
  BY OwnedLive DEF CreateQueue
<1>f3. pc[q] = "none"
  BY DEF IInv, Workers, WorkerUses, CreateQueue
<1>g. pc[t] = "idle" /\ Device \in own[t] /\ q # Device /\ q \in Objects /\ Device \in Objects
  BY Disjoint, <1>f1, <1>f2, <1>f3 DEF IInv, TypeOK, CreateQueue, Goto
<1>e. /\ ref' = [ref EXCEPT ![Device] = @ + 1, ![q] = 1]
      /\ mem' = [mem EXCEPT ![q] = "live"]
      /\ own' = [own EXCEPT ![t] = @ \cup {q}]
      /\ pc' = [pc EXCEPT ![q] = "loop"] \/ (ThreadCreateMayFail /\ pc' = pc)
  BY <1>f1, <1>f2, <1>f3, <1>g, Zenon DEF CreateQueue, Goto
<1>1. TypeOK'
  <2>1. ref' \in [Objects -> Nat]
    BY <1>f1, <1>f2, <1>f3, <1>g, <1>e, Disjoint, SMTT(20) DEF IInv, TypeOK, Threads,
       objVars
  <2>2. mem' \in [Objects -> MemStates]
    BY <1>f1, <1>f2, <1>f3, <1>g, <1>e, Disjoint DEF IInv, TypeOK, Threads,
       MemStates, objVars
  <2>3. own' \in [Clients -> SUBSET Objects]
    <3>1. own[t] \cup {q} \in SUBSET Objects /\ t \in Clients
      BY <1>g, Disjoint DEF IInv, TypeOK
    <3> QED
      BY <3>1, <1>e DEF IInv, TypeOK
  <2>4. /\ pc' \in [Threads -> ClientPCs \cup WorkerPCs]
        /\ \A x \in Clients : pc'[x] \in ClientPCs
        /\ \A x \in Queues : pc'[x] \in WorkerPCs
    BY <1>f1, <1>f2, <1>f3, <1>g, <1>e, <1>u, Disjoint DEF IInv, TypeOK,
       Threads, DestructorPCs, ClientPCs, WorkerPCs, objVars
  <2> QED
    BY <1>u, <2>1, <2>2, <2>3, <2>4 DEF IInv, TypeOK
<1>2. RefExact'
  <2> SUFFICES ASSUME NEW x \in Objects PROVE (ref[x] = Cardinality(Holders(x)))'
    BY DEF RefExact
  <2>1. ref[x] = Cardinality(Holders(x))
    BY DEF IInv, RefExact
  <2>2. \A y \in Cmds : (mem'[y] \in HoldsParent <=> mem[y] \in HoldsParent) /\ (RequestOwnsEvent(y)' <=> RequestOwnsEvent(y))
    BY <1>e, <1>u, Disjoint DEF RequestOwnsEvent, IInv, TypeOK
  <2>3. \A y \in Queues : mem'[y] \in HoldsParent <=> (mem[y] \in HoldsParent \/ y = q)
    BY <1>e, <1>g, Disjoint DEF HoldsParent, IInv, TypeOK
  <2>4. Owners(x)' = IF x = q THEN Owners(x) \cup {t} ELSE Owners(x)
    BY <1>e, <1>g DEF Owners, IInv, TypeOK
  <2>5. CASE x = q
    <3>1. Holders(x)' = {t}
      BY <2>2, <2>4, <2>5, <1>u, <1>f1, Disjoint DEF Holders
    <3>2. Cardinality(Holders(x)') = 1
      BY <3>1, FS_Singleton
    <3> QED
      BY <3>2, <2>5, <1>e, <1>g DEF IInv, TypeOK
  <2>6. CASE x = Device
    <3>1. Holders(x)' = Holders(x) \cup {q} /\ q \notin Holders(x)
      BY <2>3, <2>4, <2>6, <1>u, <1>f1, <1>e, <1>g, Disjoint DEF Holders,
         Owners, HoldsParent
    <3>2. Cardinality(Holders(x)') = Cardinality(Holders(x)) + 1
      BY <3>1, HoldersFinite, FS_AddElement
    <3> QED
      BY <3>2, <2>1, <2>6, <1>e, <1>g DEF IInv, TypeOK
  <2>7. CASE x # q /\ x # Device
    <3>1. Holders(x)' = Holders(x)
      BY <1>e, <2>2, <2>4, <2>7, <1>u, Disjoint DEF Holders
    <3> QED
      BY <3>1, <2>1, <2>7, <1>e DEF IInv, TypeOK
  <2> QED
    BY <2>5, <2>6, <2>7
<1>3. LiveHeld'
  <2> SUFFICES ASSUME NEW x \in Objects PROVE (mem[x] = "live" <=> ref[x] > 0)'
    BY DEF LiveHeld
  <2>1. mem[x] = "live" <=> ref[x] > 0
    BY DEF IInv, LiveHeld
  <2> QED
    BY <2>1, Disjoint, <1>f1, <1>f2, <1>f3, <1>g, <1>e, <1>u DEF IInv, TypeOK,
       objVars
<1>4. OwnsWhatItUses'
  <2> SUFFICES ASSUME NEW x \in Clients PROVE UsesOwned(x)'
    BY DEF OwnsWhatItUses
  <2>1. UsesOwned(x)
    BY DEF IInv, OwnsWhatItUses
  <2>2. pc'[x] = pc[x]
    <3>1. x \in Threads /\ x # q /\ pc \in [Threads -> ClientPCs \cup WorkerPCs]
      <4>1. x \in Threads /\ x # q
        BY Disjoint DEF Threads
      <4> QED
        BY <4>1 DEF IInv, TypeOK
    <3>2. CASE pc' = [pc EXCEPT ![q] = "loop"]
      BY <3>1, <3>2
    <3>3. CASE pc' = pc
      BY <3>3
    <3> QED
      BY <1>e, <3>2, <3>3
  <2>3. own[x] \subseteq own'[x]
    BY <1>e DEF IInv, TypeOK
  <2> QED
    BY <1>u, <2>1, <2>2, <2>3 DEF UsesOwned
<1>5. PushedRequests'
  <2> SUFFICES ASSUME NEW x \in Clients PROVE Pushing(x)'
    BY DEF PushedRequests
  <2>1. Pushing(x)
    BY DEF IInv, PushedRequests
  <2>2. \A y \in Clients : pc'[y] = pc[y]
    <3>1. q \notin Clients /\ Clients \subseteq Threads
      BY Disjoint DEF Threads
    <3>2. pc \in [Threads -> ClientPCs \cup WorkerPCs]
      BY DEF IInv, TypeOK
    <3> QED
      BY <3>1, <3>2, <1>e
  <2> QED
    BY <2>1, <2>2, <1>u DEF Pushing
<1>6. RunningRequests'
  <2> SUFFICES ASSUME NEW x \in Queues PROVE Running(x)'
    BY DEF RunningRequests
  <2>1. Running(x)
    BY DEF IInv, RunningRequests
  <2> QED
    BY <2>1, Disjoint, <1>f1, <1>f2, <1>f3, <1>g, <1>e, <1>u DEF IInv, TypeOK,
       Threads, Running, DestructorPCs, objVars
<1>7. PendingRequests'
  <2> SUFFICES ASSUME NEW x \in Cmds PROVE Pending(x)'
    BY DEF PendingRequests
  <2>1. Pending(x)
    BY DEF IInv, PendingRequests
  <2>2. mem'[x] = mem[x]
    BY <1>e, Disjoint DEF IInv, TypeOK
  <2> QED
    BY <2>1, <2>2, Disjoint, <1>f1, <1>f2, <1>f3, <1>g, <1>e, <1>u DEF IInv,
       TypeOK, Threads, Pending, Unprocessed, objVars
<1>8. Destruction'
  <2>1. OthersKeep(t)
    BY <1>f1, <1>f2, <1>f3, <1>g, <1>e, <1>u, Disjoint DEF IInv, TypeOK,
       Threads, OthersKeep, DestructorPCs, objVars
  <2>2. \A o \in Objects : mem[o] \in {"closing", "shut"} => mem'[o] = mem[o]
    BY <1>f1, <1>f2, <1>f3, <1>g, <1>e, <1>u, Disjoint DEF IInv, TypeOK,
       objVars
  <2>3. EventDtor(t)' /\ QueueDtorOf(t)'
    BY <1>f1, <1>f2, <1>f3, <1>g, <1>e, <1>u, Disjoint, ZenonT(40) DEF IInv, TypeOK,
       Threads, Destruction, EventDtor, QueueDtorOf, DestroysEvent, DestroysQueue, QueueDtor, objVars
  <2>4. ASSUME NEW u \in Threads \ {t} PROVE Exclusive(t, u)'
    <3>1. Exclusive(t, u) /\ EventDtor(u) /\ QueueDtorOf(u)
      BY DEF IInv, Destruction, Threads
    <3> QED
      BY <3>1, <1>f1, <1>f2, <1>f3, <1>g, <1>e, <1>u, Disjoint DEF IInv,
         TypeOK, Threads, Exclusive, EventDtor, QueueDtorOf, DestroysEvent,
         DestroysQueue, QueueDtor, objVars
  <2> QED
    BY <2>1, <2>2, <2>3, <2>4, DestructionKept, Disjoint DEF Threads
<1>9. Workers'
  <2> SUFFICES ASSUME NEW x \in Queues PROVE WorkerUses(x)'
    BY DEF Workers
  <2>1. WorkerUses(x)
    BY DEF IInv, Workers
  <2>2. CASE x = q
    <3>1. mem'[x] = "live" /\ (pc'[x] = "loop" \/ (ThreadCreateMayFail /\ pc'[x] = "none"))
      BY <2>2, <1>e, <1>f3, <1>g DEF IInv, TypeOK, Threads
    <3> QED
      BY <2>1, <2>2, <3>1, <1>u, <1>f3 DEF WorkerUses, DestroysQueue,
         QueueDtor, HoldsParent
  <2>3. CASE x # q
    <3>1. mem'[x] = mem[x] /\ pc'[x] = pc[x]
      BY <2>3, <1>e, Disjoint DEF IInv, TypeOK, Threads
    <3> QED
      BY <2>1, <3>1, <1>u DEF WorkerUses, DestroysQueue
  <2> QED
    BY <2>2, <2>3
<1>10. Shutdown'
  <2>1. ASSUME NEW x \in Queues PROVE ExitStage(x)'
    <3>1. ExitStage(x) /\ WorkerUses(x)
      BY DEF IInv, Shutdown, Workers
    <3> QED
      BY <3>1, Disjoint, <1>f1, <1>f2, <1>f3, <1>g, <1>e, <1>u DEF IInv,
         TypeOK, Threads, ExitStage, WorkerUses, HoldsParent, objVars
  <2>2. ASSUME NEW x \in Threads PROVE DestroyStage(x)'
    <3>1. DestroyStage(x)
      BY DEF IInv, Shutdown
    <3>2. QueueDtorOf(x) /\ qu[x] \in Queues
      BY DEF IInv, Destruction, TypeOK
    <3> QED
      BY <3>1, <3>2, Disjoint, <1>f1, <1>f2, <1>f3, <1>g, <1>e, <1>u DEF IInv,
         TypeOK, Threads, DestroyStage, QueueDtorOf, DestroysQueue, QueueDtor,
         objVars
  <2> QED
    BY <2>1, <2>2 DEF Shutdown
<1>11. QueuedRequests'
  BY <1>u DEF IInv, QueuedRequests, Listed
<1> QED
  BY <1>1, <1>2, <1>3, <1>4, <1>5, <1>6, <1>7, <1>8, <1>9, <1>10,
     <1>11 DEF IInv

(* xrp_enqueue_command with an event: the caller and the request hold it,  *)
(* and it holds the queue.                                                 *)
LEMMA EnqueueStep ==
  ASSUME IInv, NEW t \in Clients, NEW q \in Queues, NEW c \in Cmds, NEW kind \in {"event", "sync", "noevent"}, Enqueue(t, q, c, kind), kind # "noevent"
  PROVE  IInv'
<1>u. UNCHANGED <<items, exit, syncExit, localExit>>
  BY DEF Enqueue, Goto, objVars, evVars, thVars, qVars
<1>f1. mem[c] = "none" /\ ref[c] = 0 /\ Holders(c) = {}
  BY Unheld, Disjoint DEF IInv, PendingRequests, Pending, Enqueue
<1>f2. mem[q] = "live" /\ ref[q] \in Nat /\ ref[q] > 0
  BY OwnedLive DEF Enqueue
<1>g. pc[t] = "idle" /\ q \in own[t] /\ req[c] = "none"
  BY Disjoint, <1>f1, <1>f2 DEF IInv, TypeOK, Enqueue, Goto
<1>e. /\ pc' = [pc EXCEPT ![t] = "push"]
      /\ cmd' = [cmd EXCEPT ![t] = c]
      /\ qu' = [qu EXCEPT ![t] = q]
      /\ req' = [req EXCEPT ![c] = "made"]
      /\ parent' = [parent EXCEPT ![c] = q]
      /\ sync' = [sync EXCEPT ![t] = (kind = "sync")]
      /\ mem' = [mem EXCEPT ![c] = "live"]
      /\ ref' = [ref EXCEPT ![c] = 2, ![q] = @ + 1]
      /\ own' = [own EXCEPT ![t] = @ \cup {c}]
      /\ status' = [status EXCEPT ![c] = "pending"]
  BY <1>f1, <1>f2, <1>g DEF Enqueue, Goto
<1>1. TypeOK'
  <2>1. ref' \in [Objects -> Nat]
    <3>1. ref[q] + 1 \in Nat /\ 2 \in Nat
      BY <1>f2
    <3> QED
      BY <3>1, <1>e, Disjoint DEF IInv, TypeOK
  <2>2. mem' \in [Objects -> MemStates]
    BY <1>f1, <1>f2, <1>g, <1>e, Disjoint DEF IInv, TypeOK, Threads,
       MemStates, objVars
  <2>3. own' \in [Clients -> SUBSET Objects]
    <3>1. own[t] \cup {c} \in SUBSET Objects /\ t \in Clients
      BY <1>g, Disjoint DEF IInv, TypeOK
    <3> QED
      BY <3>1, <1>e DEF IInv, TypeOK
  <2>4. /\ pc' \in [Threads -> ClientPCs \cup WorkerPCs]
        /\ \A x \in Clients : pc'[x] \in ClientPCs
        /\ \A x \in Queues : pc'[x] \in WorkerPCs
    BY <1>f1, <1>f2, <1>g, <1>e, <1>u, Disjoint DEF IInv, TypeOK, Threads,
       DestructorPCs, ClientPCs, WorkerPCs, objVars
  <2>5. cmd' \in [Threads -> Cmds \cup {NoCmd}]
    BY <1>f1, <1>f2, <1>g, <1>e, Disjoint DEF IInv, TypeOK, Threads, objVars
  <2>6. qu' \in [Threads -> Queues]
    BY <1>f1, <1>f2, <1>g, <1>e, Disjoint DEF IInv, TypeOK, Threads, objVars
  <2>7. sync' \in [Clients -> BOOLEAN]
    BY <1>f1, <1>f2, <1>g, <1>e, Disjoint DEF IInv, TypeOK, Threads, objVars
  <2>8. parent' \in [Cmds -> Queues]
    BY <1>f1, <1>f2, <1>g, <1>e, Disjoint DEF IInv, TypeOK, Threads, objVars
  <2>9. status' \in [Cmds -> {"none", "pending", "success", "failure"}]
    BY <1>f1, <1>f2, <1>g, <1>e, Disjoint DEF IInv, TypeOK, Threads, objVars
  <2>10. req' \in [Cmds -> {"none", "made", "queued", "running", "freed"}]
    BY <1>f1, <1>f2, <1>g, <1>e, Disjoint DEF IInv, TypeOK, Threads, objVars
  <2> QED
    BY <1>u, <2>1, <2>2, <2>3, <2>4, <2>5, <2>6, <2>7, <2>8, <2>9,
       <2>10 DEF IInv, TypeOK
<1>2. RefExact'
  <2> SUFFICES ASSUME NEW x \in Objects PROVE (ref[x] = Cardinality(Holders(x)))'
    BY DEF RefExact
  <2>1. ref[x] = Cardinality(Holders(x))
    BY DEF IInv, RefExact
  <2>2. \A y \in Queues : mem'[y] \in HoldsParent <=> mem[y] \in HoldsParent
    BY <1>e, <1>g, Disjoint DEF IInv, TypeOK
  <2>3. \A y \in Cmds : mem'[y] \in HoldsParent <=> (mem[y] \in HoldsParent \/ y = c)
    BY <1>e, <1>g, Disjoint DEF HoldsParent, IInv, TypeOK
  <2>4. \A y \in Cmds \ {c} : (RequestOwnsEvent(y)' <=> RequestOwnsEvent(y)) /\ parent'[y] = parent[y]
    BY <1>e, <1>g, Disjoint DEF RequestOwnsEvent, IInv, TypeOK
  <2>5. RequestOwnsEvent(c)' /\ parent'[c] = q
    BY <1>e, <1>g, Disjoint DEF RequestOwnsEvent, IInv, TypeOK
  <2>6. Owners(x)' = IF x = c THEN Owners(x) \cup {t} ELSE Owners(x)
    BY <1>e, <1>g DEF Owners, IInv, TypeOK
  <2>7. CASE x = c
    <3>1. Holders(x)' = {t} \cup {c} /\ c \notin {t}
      BY <2>5, <2>6, <2>7, <1>f1, Disjoint DEF Holders
    <3>2. IsFiniteSet({t}) /\ Cardinality({t}) = 1
      BY FS_Singleton
    <3>3. Cardinality({t} \cup {c}) = Cardinality({t}) + 1
      BY <3>1, <3>2, FS_AddElement
    <3>4. Cardinality(Holders(x)') = 2
      BY <3>1, <3>2, <3>3
    <3> QED
      BY <3>4, <2>7, <1>e, <1>g, Disjoint DEF IInv, TypeOK
  <2>8. CASE x = q
    <3>1. Holders(x)' = Holders(x) \cup {c} /\ c \notin Holders(x)
      BY <2>3, <2>4, <2>5, <2>6, <2>8, <1>f1, <1>e, <1>g,
         Disjoint DEF Holders, Owners, HoldsParent
    <3>2. Cardinality(Holders(x)') = Cardinality(Holders(x)) + 1
      BY <3>1, HoldersFinite, FS_AddElement
    <3> QED
      BY <3>2, <2>1, <2>8, <1>e, <1>g, Disjoint DEF IInv, TypeOK
  <2>9. CASE x # c /\ x # q
    <3>1. Owners(x)' = Owners(x)
      BY <2>6, <2>9
    <3>2. \A y \in Cmds : (mem'[y] \in HoldsParent /\ parent'[y] = x) <=> (mem[y] \in HoldsParent /\ parent[y] = x)
      BY <2>3, <2>4, <2>5, <2>9, <1>f1 DEF HoldsParent
    <3>3. Holders(x)' = Holders(x)
      <4>1. CASE x \in Queues
        BY <4>1, <3>1, <3>2, Disjoint DEF Holders
      <4>2. CASE x \in Cmds
        BY <4>2, <2>4, <2>9, <3>1, Disjoint DEF Holders
      <4>3. CASE x = Device
        BY <4>3, <2>2, <3>1, Disjoint DEF Holders
      <4> QED
        BY <4>1, <4>2, <4>3, Disjoint
    <3> QED
      BY <3>3, <2>1, <2>9, <1>e, <1>g DEF IInv, TypeOK
  <2> QED
    BY <2>7, <2>8, <2>9
<1>3. LiveHeld'
  <2> SUFFICES ASSUME NEW x \in Objects PROVE (mem[x] = "live" <=> ref[x] > 0)'
    BY DEF LiveHeld
  <2>1. mem[x] = "live" <=> ref[x] > 0
    BY DEF IInv, LiveHeld
  <2> QED
    BY <2>1, Disjoint, <1>f1, <1>f2, <1>g, <1>e, <1>u DEF IInv, TypeOK, objVars
<1>4. OwnsWhatItUses'
  <2> SUFFICES ASSUME NEW x \in Clients PROVE UsesOwned(x)'
    BY DEF OwnsWhatItUses
  <2>1. UsesOwned(x)
    BY DEF IInv, OwnsWhatItUses
  <2> QED
    BY <2>1, Disjoint, <1>f1, <1>f2, <1>g, <1>e, <1>u DEF IInv, TypeOK,
       Threads, UsesOwned, DestructorPCs, objVars
<1>5. PushedRequests'
  <2> SUFFICES ASSUME NEW x \in Clients PROVE Pushing(x)'
    BY DEF PushedRequests
  <2>1. Pushing(x)
    BY DEF IInv, PushedRequests
  <2>2. \A u \in Clients : pc[u] = "push" => cmd[u] \in Cmds /\ req[cmd[u]] = "made"
    BY DEF IInv, PushedRequests, Pushing
  <2> QED
    BY <2>1, <2>2, Disjoint, <1>f1, <1>f2, <1>g, <1>e, <1>u, ZenonT(40) DEF IInv, TypeOK,
       Threads, Pushing, DestructorPCs, objVars
<1>6. QueuedRequests'
  <2> SUFFICES ASSUME NEW x \in Queues PROVE Listed(x)'
    BY DEF QueuedRequests
  <2>1. Listed(x)
    BY DEF IInv, QueuedRequests
  <2>2. \A i \in 1 .. Len(items[x]) : items[x][i] \in Cmds
    BY DEF IInv, TypeOK
  <2>3. \A i \in 1 .. Len(items[x]) : req'[items[x][i]] = "queued" /\ parent'[items[x][i]] = x
    BY <2>1, <2>2, <1>e, <1>g, <1>u DEF Listed, IInv, TypeOK
  <2> QED
    BY <2>1, <2>3, <1>u DEF Listed
<1>7. RunningRequests'
  <2> SUFFICES ASSUME NEW x \in Queues PROVE Running(x)'
    BY DEF RunningRequests
  <2>1. Running(x)
    BY DEF IInv, RunningRequests
  <2> QED
    BY <2>1, Disjoint, <1>f1, <1>f2, <1>g, <1>e, <1>u DEF IInv, TypeOK,
       Threads, Running, DestructorPCs, objVars
<1>8. PendingRequests'
  <2> SUFFICES ASSUME NEW x \in Cmds PROVE Pending(x)'
    BY DEF PendingRequests
  <2>1. Pending(x)
    BY DEF IInv, PendingRequests
  <2> QED
    BY <2>1, Disjoint, <1>f1, <1>f2, <1>g, <1>e, <1>u DEF IInv, TypeOK,
       Threads, Pending, Unprocessed, objVars
<1>9. Destruction'
  <2>1. OthersKeep(t)
    BY <1>f1, <1>f2, <1>g, <1>e, <1>u, Disjoint DEF IInv, TypeOK, Threads,
       OthersKeep, DestructorPCs, objVars
  <2>2. \A o \in Objects : mem[o] \in {"closing", "shut"} => mem'[o] = mem[o]
    BY <1>f1, <1>f2, <1>g, <1>e, <1>u, Disjoint DEF IInv, TypeOK, objVars
  <2>3. EventDtor(t)' /\ QueueDtorOf(t)'
    BY <1>f1, <1>f2, <1>g, <1>e, <1>u, Disjoint DEF IInv, TypeOK, Threads,
       Destruction, EventDtor, QueueDtorOf, DestroysEvent, DestroysQueue, QueueDtor, objVars
  <2>4. ASSUME NEW u \in Threads \ {t} PROVE Exclusive(t, u)'
    <3>1. Exclusive(t, u) /\ EventDtor(u) /\ QueueDtorOf(u)
      BY DEF IInv, Destruction, Threads
    <3> QED
      BY <3>1, <1>f1, <1>f2, <1>g, <1>e, <1>u, Disjoint DEF IInv, TypeOK,
         Threads, Exclusive, EventDtor, QueueDtorOf, DestroysEvent,
         DestroysQueue, QueueDtor, objVars
  <2> QED
    BY <2>1, <2>2, <2>3, <2>4, DestructionKept, Disjoint DEF Threads
<1>10. Workers'
  <2> SUFFICES ASSUME NEW x \in Queues PROVE WorkerUses(x)'
    BY DEF Workers
  <2>1. WorkerUses(x)
    BY DEF IInv, Workers
  <2>2. pc[x] = "evDrop" => cmd[x] # c
    BY <1>f1 DEF IInv, Destruction, EventDtor, DestroysEvent, Threads
  <2>3. /\ pc'[x] = pc[x] /\ qu'[x] = qu[x] /\ cmd'[x] = cmd[x] /\ mem'[x] = mem[x]
        /\ localExit'[x] = localExit[x] /\ syncExit'[x] = syncExit[x]
    <3>1. x \in Threads /\ x # t /\ x \in Objects /\ x # c
      BY Disjoint DEF Threads
    <3>2. /\ pc \in [Threads -> ClientPCs \cup WorkerPCs] /\ qu \in [Threads -> Queues]
         /\ cmd \in [Threads -> Cmds \cup {NoCmd}] /\ mem \in [Objects -> MemStates]
      BY DEF IInv, TypeOK
    <3> QED
      BY <3>1, <3>2, <1>e, <1>u
  <2>4. pc[x] = "evDrop" => cmd[x] \in Cmds /\ parent'[cmd[x]] = parent[cmd[x]]
    BY <2>2, <1>e DEF IInv, TypeOK, Destruction, EventDtor, DestroysEvent,
       Threads
  <2> QED
    BY <2>1, <2>3, <2>4 DEF WorkerUses, DestroysQueue
<1>11. Shutdown'
  <2>1. ASSUME NEW x \in Queues PROVE ExitStage(x)'
    <3>1. ExitStage(x) /\ WorkerUses(x)
      BY DEF IInv, Shutdown, Workers
    <3> QED
      BY <3>1, Disjoint, <1>f1, <1>f2, <1>g, <1>e, <1>u DEF IInv, TypeOK,
         Threads, ExitStage, WorkerUses, objVars
  <2>2. ASSUME NEW x \in Threads PROVE DestroyStage(x)'
    <3>1. DestroyStage(x)
      BY DEF IInv, Shutdown
    <3> QED
      BY <3>1, Disjoint, <1>f1, <1>f2, <1>g, <1>e, <1>u DEF IInv, TypeOK,
         Threads, DestroyStage, objVars
  <2> QED
    BY <2>1, <2>2 DEF Shutdown
<1> QED
  BY <1>1, <1>2, <1>3, <1>4, <1>5, <1>6, <1>7, <1>8, <1>9, <1>10,
     <1>11 DEF IInv

(* xrp_enqueue_command without an event: no count changes.                 *)
LEMMA EnqueueNoEventStep ==
  ASSUME IInv, NEW t \in Clients, NEW q \in Queues, NEW c \in Cmds, NEW kind \in {"event", "sync", "noevent"}, Enqueue(t, q, c, kind), kind = "noevent"
  PROVE  IInv'
<1>u. UNCHANGED <<ref, mem, own, status, items, exit, syncExit, localExit>>
  BY DEF Enqueue, Goto, objVars, evVars, thVars, qVars
<1>f1. mem[c] = "none" /\ ref[c] = 0 /\ Holders(c) = {}
  BY Unheld, Disjoint DEF IInv, PendingRequests, Pending, Enqueue
<1>f2. mem[q] = "live" /\ ref[q] \in Nat /\ ref[q] > 0
  BY OwnedLive DEF Enqueue
<1>g. pc[t] = "idle" /\ q \in own[t] /\ req[c] = "none"
  BY Disjoint, <1>f1, <1>f2 DEF IInv, TypeOK, Enqueue, Goto
<1>e. /\ pc' = [pc EXCEPT ![t] = "push"]
      /\ cmd' = [cmd EXCEPT ![t] = c]
      /\ qu' = [qu EXCEPT ![t] = q]
      /\ req' = [req EXCEPT ![c] = "made"]
      /\ parent' = [parent EXCEPT ![c] = q]
      /\ sync' = [sync EXCEPT ![t] = (kind = "sync")]
  BY <1>f1, <1>f2, <1>g DEF Enqueue, Goto
<1>1. TypeOK'
  <2>1. /\ pc' \in [Threads -> ClientPCs \cup WorkerPCs]
        /\ \A x \in Clients : pc'[x] \in ClientPCs
        /\ \A x \in Queues : pc'[x] \in WorkerPCs
    BY <1>f1, <1>f2, <1>g, <1>e, <1>u, Disjoint DEF IInv, TypeOK, Threads,
       DestructorPCs, ClientPCs, WorkerPCs, objVars
  <2>2. cmd' \in [Threads -> Cmds \cup {NoCmd}]
    BY <1>f1, <1>f2, <1>g, <1>e, Disjoint DEF IInv, TypeOK, Threads, objVars
  <2>3. qu' \in [Threads -> Queues]
    BY <1>f1, <1>f2, <1>g, <1>e, Disjoint DEF IInv, TypeOK, Threads, objVars
  <2>4. sync' \in [Clients -> BOOLEAN]
    BY <1>f1, <1>f2, <1>g, <1>e, Disjoint DEF IInv, TypeOK, Threads, objVars
  <2>5. parent' \in [Cmds -> Queues]
    BY <1>f1, <1>f2, <1>g, <1>e, Disjoint DEF IInv, TypeOK, Threads, objVars
  <2>6. req' \in [Cmds -> {"none", "made", "queued", "running", "freed"}]
    BY <1>f1, <1>f2, <1>g, <1>e, Disjoint DEF IInv, TypeOK, Threads, objVars
  <2> QED
    BY <1>u, <2>1, <2>2, <2>3, <2>4, <2>5, <2>6 DEF IInv, TypeOK
<1>2. RefExact'
  <2>1. ASSUME NEW x \in Objects PROVE Holders(x)' = Holders(x)
    <3>1. \A y \in Cmds \ {c} : parent'[y] = parent[y] /\ req'[y] = req[y]
      BY <1>e DEF IInv, TypeOK
    <3>2. Owners(x)' = Owners(x)
      BY <1>u DEF Owners
    <3>3. \A y \in Cmds : RequestOwnsEvent(y)' <=> RequestOwnsEvent(y)
      BY <3>1, <1>u, <1>f1 DEF RequestOwnsEvent
    <3>4. \A y \in Cmds : (mem'[y] \in HoldsParent /\ parent'[y] = x)
                           <=> (mem[y] \in HoldsParent /\ parent[y] = x)
      BY <3>1, <1>u, <1>f1 DEF HoldsParent
    <3> QED
      BY <3>2, <3>3, <3>4, <1>u, Disjoint DEF Holders
  <2> QED
    BY <2>1, <1>u, SameHolders
<1>3. OwnsWhatItUses'
  <2> SUFFICES ASSUME NEW x \in Clients PROVE UsesOwned(x)'
    BY DEF OwnsWhatItUses
  <2>1. UsesOwned(x)
    BY DEF IInv, OwnsWhatItUses
  <2> QED
    BY <2>1, Disjoint, <1>f1, <1>f2, <1>g, <1>e, <1>u DEF IInv, TypeOK,
       Threads, UsesOwned, DestructorPCs, objVars
<1>4. PushedRequests'
  <2> SUFFICES ASSUME NEW x \in Clients PROVE Pushing(x)'
    BY DEF PushedRequests
  <2>1. Pushing(x)
    BY DEF IInv, PushedRequests
  <2>2. \A u \in Clients : pc[u] = "push" => cmd[u] \in Cmds /\ req[cmd[u]] = "made"
    BY DEF IInv, PushedRequests, Pushing
  <2> QED
    BY <2>1, <2>2, Disjoint, <1>f1, <1>f2, <1>g, <1>e, <1>u, ZenonT(40) DEF IInv, TypeOK,
       Threads, Pushing, DestructorPCs, objVars
<1>5. QueuedRequests'
  <2> SUFFICES ASSUME NEW x \in Queues PROVE Listed(x)'
    BY DEF QueuedRequests
  <2>1. Listed(x)
    BY DEF IInv, QueuedRequests
  <2>2. \A i \in 1 .. Len(items[x]) : items[x][i] \in Cmds
    BY DEF IInv, TypeOK
  <2>3. \A i \in 1 .. Len(items[x]) : req'[items[x][i]] = "queued" /\ parent'[items[x][i]] = x
    BY <2>1, <2>2, <1>e, <1>g, <1>u DEF Listed, IInv, TypeOK
  <2> QED
    BY <2>1, <2>3, <1>u DEF Listed
<1>6. RunningRequests'
  <2> SUFFICES ASSUME NEW x \in Queues PROVE Running(x)'
    BY DEF RunningRequests
  <2>1. Running(x)
    BY DEF IInv, RunningRequests
  <2> QED
    BY <2>1, Disjoint, <1>f1, <1>f2, <1>g, <1>e, <1>u DEF IInv, TypeOK,
       Threads, Running, DestructorPCs, objVars
<1>7. PendingRequests'
  <2> SUFFICES ASSUME NEW x \in Cmds PROVE Pending(x)'
    BY DEF PendingRequests
  <2>1. Pending(x)
    BY DEF IInv, PendingRequests
  <2> QED
    BY <2>1, Disjoint, <1>f1, <1>f2, <1>g, <1>e, <1>u DEF IInv, TypeOK,
       Threads, Pending, Unprocessed, objVars
<1>8. Destruction'
  <2>1. OthersKeep(t)
    BY <1>f1, <1>f2, <1>g, <1>e, <1>u, Disjoint DEF IInv, TypeOK, Threads,
       OthersKeep, DestructorPCs, objVars
  <2>2. \A o \in Objects : mem[o] \in {"closing", "shut"} => mem'[o] = mem[o]
    BY <1>f1, <1>f2, <1>g, <1>e, <1>u, Disjoint DEF IInv, TypeOK, objVars
  <2>3. EventDtor(t)' /\ QueueDtorOf(t)'
    BY <1>f1, <1>f2, <1>g, <1>e, <1>u, Disjoint DEF IInv, TypeOK, Threads,
       Destruction, EventDtor, QueueDtorOf, DestroysEvent, DestroysQueue, QueueDtor, objVars
  <2>4. ASSUME NEW u \in Threads \ {t} PROVE Exclusive(t, u)'
    <3>1. Exclusive(t, u) /\ EventDtor(u) /\ QueueDtorOf(u)
      BY DEF IInv, Destruction, Threads
    <3> QED
      BY <3>1, <1>f1, <1>f2, <1>g, <1>e, <1>u, Disjoint DEF IInv, TypeOK,
         Threads, Exclusive, EventDtor, QueueDtorOf, DestroysEvent,
         DestroysQueue, QueueDtor, objVars
  <2> QED
    BY <2>1, <2>2, <2>3, <2>4, DestructionKept, Disjoint DEF Threads
<1>9. Workers'
  <2> SUFFICES ASSUME NEW x \in Queues PROVE WorkerUses(x)'
    BY DEF Workers
  <2>1. WorkerUses(x)
    BY DEF IInv, Workers
  <2>2. pc[x] = "evDrop" => cmd[x] # c
    BY <1>f1 DEF IInv, Destruction, EventDtor, DestroysEvent, Threads
  <2>3. /\ pc'[x] = pc[x] /\ qu'[x] = qu[x] /\ cmd'[x] = cmd[x] /\ mem'[x] = mem[x]
        /\ localExit'[x] = localExit[x] /\ syncExit'[x] = syncExit[x]
    BY <1>e, <1>u, Disjoint DEF IInv, TypeOK, Threads
  <2>4. pc[x] = "evDrop" => cmd[x] \in Cmds /\ parent'[cmd[x]] = parent[cmd[x]]
    BY <2>2, <1>e DEF IInv, TypeOK, Destruction, EventDtor, DestroysEvent,
       Threads
  <2> QED
    BY <2>1, <2>3, <2>4 DEF WorkerUses, DestroysQueue
<1>10. Shutdown'
  <2>1. ASSUME NEW x \in Queues PROVE ExitStage(x)'
    <3>1. ExitStage(x) /\ WorkerUses(x)
      BY DEF IInv, Shutdown, Workers
    <3> QED
      BY <3>1, Disjoint, <1>f1, <1>f2, <1>g, <1>e, <1>u DEF IInv, TypeOK,
         Threads, ExitStage, WorkerUses, objVars
  <2>2. ASSUME NEW x \in Threads PROVE DestroyStage(x)'
    <3>1. DestroyStage(x)
      BY DEF IInv, Shutdown
    <3> QED
      BY <3>1, Disjoint, <1>f1, <1>f2, <1>g, <1>e, <1>u DEF IInv, TypeOK,
         Threads, DestroyStage, objVars
  <2> QED
    BY <2>1, <2>2 DEF Shutdown
<1>11. LiveHeld'
  BY <1>u DEF IInv, LiveHeld
<1> QED
  BY <1>1, <1>2, <1>3, <1>4, <1>5, <1>6, <1>7, <1>8, <1>9, <1>10,
     <1>11 DEF IInv

(* xrp_queue_push: the request moves from its caller into the list.        *)
LEMMA PushStep ==
  ASSUME IInv, NEW t \in Clients, Push(t)
  PROVE  IInv'
<1>u. UNCHANGED <<ref, mem, own, cmd, qu, sync, parent, status, exit, syncExit, localExit>>
  BY DEF Push, Woken, objVars, evVars, thVars, qVars
<1>f1. cmd[t] \in Cmds /\ qu[t] \in Queues /\ req[cmd[t]] = "made" /\ parent[cmd[t]] = qu[t]
  BY DEF IInv, TypeOK, PushedRequests, Pushing, Push, Threads
<1>g. pc[t] = "push"
  BY Disjoint, <1>f1 DEF IInv, TypeOK, Push, Woken
<1>1. TypeOK'
  <2>1. /\ pc' \in [Threads -> ClientPCs \cup WorkerPCs]
        /\ \A x \in Clients : pc'[x] \in ClientPCs
        /\ \A x \in Queues : pc'[x] \in WorkerPCs
    <3>1. pc \in [Threads -> ClientPCs \cup WorkerPCs] /\ t \in Threads /\ qu[t] \in Threads
      BY <1>f1 DEF IInv, TypeOK, Threads
    <3>2. PICK l \in {"wait", "idle"}, w \in {pc[qu[t]], "check"} :
            pc' = [pc EXCEPT ![t] = l, ![qu[t]] = w]
      <4>1. Woken(qu[t]) \in {pc[qu[t]], "check"}
        BY DEF Woken
      <4> QED
        BY <4>1, <3>1, <1>f1, Disjoint DEF Push
    <3>3. (\A x \in Clients : pc[x] \in ClientPCs) /\ (\A x \in Queues : pc[x] \in WorkerPCs)
      BY DEF IInv, TypeOK
    <3>4. l \in ClientPCs /\ w \in WorkerPCs
      BY <3>2, <3>3, <1>f1 DEF ClientPCs, WorkerPCs
    <3> QED
      BY <3>1, <3>2, <3>3, <3>4, <1>f1, Disjoint DEF Threads
  <2>2. req' \in [Cmds -> {"none", "made", "queued", "running", "freed"}]
    BY <1>f1, <1>g, Disjoint DEF IInv, TypeOK, Threads, Push
  <2>3. items' \in [Queues -> Seq(Cmds)]
    BY <1>f1, <1>g, Disjoint DEF IInv, TypeOK, Threads, Push
  <2> QED
    BY <1>u, <2>1, <2>2, <2>3 DEF IInv, TypeOK
<1>2. RefExact'
  <2>1. \A x \in Objects : mem'[x] \in HoldsParent <=> mem[x] \in HoldsParent
    BY <1>f1, <1>g, <1>u, Disjoint DEF IInv, TypeOK, HoldsParent, Push, Woken
  <2>2. \A x \in Cmds : RequestOwnsEvent(x)' <=> RequestOwnsEvent(x)
    BY <1>f1, <1>g, <1>u, Disjoint DEF IInv, TypeOK, RequestOwnsEvent, Push,
       Woken
  <2> QED
    BY <2>1, <2>2, <1>u, HoldersFrame
<1>3. OwnsWhatItUses'
  <2> SUFFICES ASSUME NEW x \in Clients PROVE UsesOwned(x)'
    BY DEF OwnsWhatItUses
  <2>1. UsesOwned(x)
    BY DEF IInv, OwnsWhatItUses
  <2> QED
    BY <2>1, Disjoint, <1>f1, <1>g, <1>u DEF IInv, TypeOK, Threads, UsesOwned,
       DestructorPCs, Push, Woken
<1>4. PushedRequests'
  <2> SUFFICES ASSUME NEW x \in Clients PROVE Pushing(x)'
    BY DEF PushedRequests
  <2>1. Pushing(x)
    BY DEF IInv, PushedRequests
  <2> QED
    BY <2>1, Disjoint, <1>f1, <1>g, <1>u, ZenonT(40) DEF IInv, TypeOK, Threads, Pushing,
       DestructorPCs, Push, Woken
<1>5. QueuedRequests'
  <2> SUFFICES ASSUME NEW x \in Queues PROVE Listed(x)'
    BY DEF QueuedRequests
  <2>1. Listed(x)
    BY DEF IInv, QueuedRequests
  <2>2. items[x] \in Seq(Cmds) /\ Len(items[x]) \in Nat /\ (\A i \in 1 .. Len(items[x]) : items[x][i] \in Cmds)
    BY DEF IInv, TypeOK
  <2>3. \A i \in 1 .. Len(items[x]) : items[x][i] # cmd[t] /\ req'[items[x][i]] = "queued"
    BY <2>1, <2>2, <1>f1 DEF Listed, IInv, TypeOK, Push
  <2>4. req'[cmd[t]] = "queued"
    BY <1>f1 DEF IInv, TypeOK, Push
  <2>5. CASE x = qu[t]
    <3>1. items'[x] = Append(items[x], cmd[t])
      BY <2>5, <1>f1 DEF IInv, TypeOK, Push
    <3>2. Len(items'[x]) = Len(items[x]) + 1
      BY <3>1, <2>2, <1>f1
    <3>3. \A i \in 1 .. Len(items'[x]) :
            items'[x][i] = IF i = Len(items[x]) + 1 THEN cmd[t] ELSE items[x][i]
      BY <3>1, <2>2, <1>f1
    <3>4. \A i \in 1 .. Len(items'[x]) : i \in 1 .. Len(items[x]) \/ i = Len(items[x]) + 1
      BY <2>2, <3>2
    <3>5. ASSUME NEW i \in 1 .. Len(items'[x]), NEW j \in 1 .. Len(items'[x]), i # j
          PROVE  items'[x][i] # items'[x][j]
      BY <2>1, <2>2, <2>3, <3>3, <3>4, <3>5 DEF Listed
    <3>6. ASSUME NEW i \in 1 .. Len(items'[x])
          PROVE  req'[items'[x][i]] = "queued" /\ parent'[items'[x][i]] = x
      BY <2>1, <2>2, <2>3, <2>4, <2>5, <3>3, <3>4, <1>f1, <1>u DEF Listed
    <3> QED
      BY <3>5, <3>6 DEF Listed
  <2>6. CASE x # qu[t]
    <3>1. items'[x] = items[x]
      BY <2>6 DEF IInv, TypeOK, Push
    <3> QED
      BY <2>1, <2>3, <3>1, <1>u DEF Listed
  <2> QED
    BY <2>5, <2>6
<1>6. RunningRequests'
  <2> SUFFICES ASSUME NEW x \in Queues PROVE Running(x)'
    BY DEF RunningRequests
  <2>1. Running(x)
    BY DEF IInv, RunningRequests
  <2> QED
    BY <2>1, Disjoint, <1>f1, <1>g, <1>u DEF IInv, TypeOK, Threads, Running,
       DestructorPCs, Push, Woken
<1>7. PendingRequests'
  <2> SUFFICES ASSUME NEW x \in Cmds PROVE Pending(x)'
    BY DEF PendingRequests
  <2>1. Pending(x)
    BY DEF IInv, PendingRequests
  <2> QED
    BY <2>1, Disjoint, <1>f1, <1>g, <1>u DEF IInv, TypeOK, Threads, Pending,
       Unprocessed, Push, Woken
<1>8. Destruction'
  <2>1. OthersKeep(t)
    BY <1>f1, <1>g, <1>u, Disjoint DEF IInv, TypeOK, Threads, OthersKeep,
       DestructorPCs, Push, Woken
  <2>2. \A o \in Objects : mem[o] \in {"closing", "shut"} => mem'[o] = mem[o]
    BY <1>f1, <1>g, <1>u, Disjoint DEF IInv, TypeOK, Push, Woken
  <2>3. EventDtor(t)' /\ QueueDtorOf(t)'
    BY <1>f1, <1>g, <1>u, Disjoint DEF IInv, TypeOK, Threads, Destruction,
       EventDtor, QueueDtorOf, DestroysEvent, DestroysQueue, QueueDtor, Push, Woken
  <2>4. ASSUME NEW u \in Threads \ {t} PROVE Exclusive(t, u)'
    <3>1. Exclusive(t, u) /\ EventDtor(u) /\ QueueDtorOf(u)
      BY DEF IInv, Destruction, Threads
    <3> QED
      BY <3>1, <1>f1, <1>g, <1>u, Disjoint DEF IInv, TypeOK, Threads,
         Exclusive, EventDtor, QueueDtorOf, DestroysEvent, DestroysQueue,
         QueueDtor, Push, Woken
  <2> QED
    BY <2>1, <2>2, <2>3, <2>4, DestructionKept, Disjoint DEF Threads
<1>9. Workers'
  <2> SUFFICES ASSUME NEW x \in Queues PROVE WorkerUses(x)'
    BY DEF Workers
  <2>1. WorkerUses(x)
    BY DEF IInv, Workers
  <2> QED
    BY <2>1, Disjoint, <1>f1, <1>g, <1>u, ZenonT(40) DEF IInv, TypeOK, Threads,
       WorkerUses, DestroysQueue, QueueDtor, HoldsParent, DestructorPCs, Push, Woken
<1>10. Shutdown'
  <2>1. ASSUME NEW x \in Queues PROVE ExitStage(x)'
    <3>1. ExitStage(x) /\ WorkerUses(x)
      BY DEF IInv, Shutdown, Workers
    <3> QED
      BY <3>1, Disjoint, <1>f1, <1>g, <1>u DEF IInv, TypeOK, Threads,
         ExitStage, WorkerUses, Push, Woken
  <2>2. ASSUME NEW x \in Threads PROVE DestroyStage(x)'
    <3>1. DestroyStage(x)
      BY DEF IInv, Shutdown
    <3> QED
      BY <3>1, Disjoint, <1>f1, <1>g, <1>u DEF IInv, TypeOK, Threads,
         DestroyStage, Push, Woken
  <2> QED
    BY <2>1, <2>2 DEF Shutdown
<1>11. LiveHeld'
  BY <1>u DEF IInv, LiveHeld
<1> QED
  BY <1>1, <1>2, <1>3, <1>4, <1>5, <1>6, <1>7, <1>8, <1>9, <1>10,
     <1>11 DEF IInv

(* xrp_wait is called.                                                     *)
LEMMA CallWaitStep ==
  ASSUME IInv, NEW t \in Clients, NEW c \in Cmds, CallWait(t, c)
  PROVE  IInv'
<1>u. UNCHANGED <<ref, mem, own, qu, sync, parent, status, req, items, exit, syncExit, localExit>>
  BY DEF CallWait, Goto, objVars, evVars, thVars, qVars
<1>g. pc[t] = "idle" /\ c \in own[t] /\ c \in Cmds
  BY Disjoint DEF IInv, TypeOK, CallWait, Goto
<1>1. TypeOK'
  <2>1. /\ pc' \in [Threads -> ClientPCs \cup WorkerPCs]
        /\ \A x \in Clients : pc'[x] \in ClientPCs
        /\ \A x \in Queues : pc'[x] \in WorkerPCs
    BY <1>g, <1>u, Disjoint DEF IInv, TypeOK, Threads, DestructorPCs,
       ClientPCs, WorkerPCs, CallWait, Goto
  <2>2. cmd' \in [Threads -> Cmds \cup {NoCmd}]
    BY <1>g, Disjoint DEF IInv, TypeOK, Threads, CallWait, Goto
  <2> QED
    BY <1>u, <2>1, <2>2 DEF IInv, TypeOK
<1>2. OwnsWhatItUses'
  <2> SUFFICES ASSUME NEW x \in Clients PROVE UsesOwned(x)'
    BY DEF OwnsWhatItUses
  <2>1. UsesOwned(x)
    BY DEF IInv, OwnsWhatItUses
  <2> QED
    BY <2>1, Disjoint, <1>g, <1>u DEF IInv, TypeOK, Threads, UsesOwned,
       DestructorPCs, CallWait, Goto
<1>3. PushedRequests'
  <2> SUFFICES ASSUME NEW x \in Clients PROVE Pushing(x)'
    BY DEF PushedRequests
  <2>1. Pushing(x)
    BY DEF IInv, PushedRequests
  <2> QED
    BY <2>1, Disjoint, <1>g, <1>u DEF IInv, TypeOK, Threads, Pushing,
       DestructorPCs, CallWait, Goto
<1>4. RunningRequests'
  <2> SUFFICES ASSUME NEW x \in Queues PROVE Running(x)'
    BY DEF RunningRequests
  <2>1. Running(x)
    BY DEF IInv, RunningRequests
  <2> QED
    BY <2>1, Disjoint, <1>g, <1>u DEF IInv, TypeOK, Threads, Running,
       DestructorPCs, CallWait, Goto
<1>5. Destruction'
  <2>1. OthersKeep(t)
    BY <1>g, <1>u, Disjoint DEF IInv, TypeOK, Threads, OthersKeep,
       DestructorPCs, CallWait, Goto
  <2>2. \A o \in Objects : mem[o] \in {"closing", "shut"} => mem'[o] = mem[o]
    BY <1>g, <1>u, Disjoint DEF IInv, TypeOK, CallWait, Goto
  <2>3. EventDtor(t)' /\ QueueDtorOf(t)'
    BY <1>g, <1>u, Disjoint DEF IInv, TypeOK, Threads, Destruction, EventDtor,
       QueueDtorOf, DestroysEvent, DestroysQueue, QueueDtor, CallWait, Goto
  <2>4. ASSUME NEW u \in Threads \ {t} PROVE Exclusive(t, u)'
    <3>1. Exclusive(t, u) /\ EventDtor(u) /\ QueueDtorOf(u)
      BY DEF IInv, Destruction, Threads
    <3> QED
      BY <3>1, <1>g, <1>u, Disjoint DEF IInv, TypeOK, Threads, Exclusive,
         EventDtor, QueueDtorOf, DestroysEvent, DestroysQueue, QueueDtor,
         CallWait, Goto
  <2> QED
    BY <2>1, <2>2, <2>3, <2>4, DestructionKept, Disjoint DEF Threads
<1>6. Workers'
  <2> SUFFICES ASSUME NEW x \in Queues PROVE WorkerUses(x)'
    BY DEF Workers
  <2>1. WorkerUses(x)
    BY DEF IInv, Workers
  <2> QED
    BY <2>1, Disjoint, <1>g, <1>u DEF IInv, TypeOK, Threads, WorkerUses,
       DestroysQueue, QueueDtor, HoldsParent, DestructorPCs, CallWait, Goto
<1>7. Shutdown'
  <2>1. ASSUME NEW x \in Queues PROVE ExitStage(x)'
    <3>1. ExitStage(x) /\ WorkerUses(x)
      BY DEF IInv, Shutdown, Workers
    <3> QED
      BY <3>1, Disjoint, <1>g, <1>u DEF IInv, TypeOK, Threads, ExitStage,
         WorkerUses, CallWait, Goto
  <2>2. ASSUME NEW x \in Threads PROVE DestroyStage(x)'
    <3>1. DestroyStage(x)
      BY DEF IInv, Shutdown
    <3> QED
      BY <3>1, Disjoint, <1>g, <1>u DEF IInv, TypeOK, Threads, DestroyStage,
         CallWait, Goto
  <2> QED
    BY <2>1, <2>2 DEF Shutdown
<1>8. RefExact' /\ LiveHeld'
  BY <1>u, RefFrame
<1>9. QueuedRequests' /\ PendingRequests'
  BY <1>u DEF IInv, QueuedRequests, Listed, PendingRequests, Pending,
     Unprocessed
<1> QED
  BY <1>1, <1>2, <1>3, <1>4, <1>5, <1>6, <1>7, <1>8, <1>9 DEF IInv

(* xrp_wait looks at the status.                                           *)
LEMMA WaitCheckStep ==
  ASSUME IInv, NEW t \in Clients, WaitCheck(t)
  PROVE  IInv'
<1>u. UNCHANGED <<ref, mem, own, cmd, qu, sync, parent, status, req, items, exit, syncExit, localExit>>
  BY DEF WaitCheck, Goto, objVars, evVars, thVars, qVars
<1>g. pc[t] = "wait"
  BY Disjoint DEF IInv, TypeOK, WaitCheck, Goto
<1>1. TypeOK'
  <2>1. /\ pc' \in [Threads -> ClientPCs \cup WorkerPCs]
        /\ \A x \in Clients : pc'[x] \in ClientPCs
        /\ \A x \in Queues : pc'[x] \in WorkerPCs
    BY <1>g, <1>u, Disjoint DEF IInv, TypeOK, Threads, DestructorPCs,
       ClientPCs, WorkerPCs, WaitCheck, Goto
  <2> QED
    BY <1>u, <2>1 DEF IInv, TypeOK
<1>2. OwnsWhatItUses'
  <2> SUFFICES ASSUME NEW x \in Clients PROVE UsesOwned(x)'
    BY DEF OwnsWhatItUses
  <2>1. UsesOwned(x)
    BY DEF IInv, OwnsWhatItUses
  <2> QED
    BY <2>1, Disjoint, <1>g, <1>u DEF IInv, TypeOK, Threads, UsesOwned,
       DestructorPCs, WaitCheck, Goto
<1>3. PushedRequests'
  <2> SUFFICES ASSUME NEW x \in Clients PROVE Pushing(x)'
    BY DEF PushedRequests
  <2>1. Pushing(x)
    BY DEF IInv, PushedRequests
  <2> QED
    BY <2>1, Disjoint, <1>g, <1>u DEF IInv, TypeOK, Threads, Pushing,
       DestructorPCs, WaitCheck, Goto
<1>4. RunningRequests'
  <2> SUFFICES ASSUME NEW x \in Queues PROVE Running(x)'
    BY DEF RunningRequests
  <2>1. Running(x)
    BY DEF IInv, RunningRequests
  <2> QED
    BY <2>1, Disjoint, <1>g, <1>u DEF IInv, TypeOK, Threads, Running,
       DestructorPCs, WaitCheck, Goto
<1>5. Destruction'
  <2>1. OthersKeep(t)
    BY <1>g, <1>u, Disjoint DEF IInv, TypeOK, Threads, OthersKeep,
       DestructorPCs, WaitCheck, Goto
  <2>2. \A o \in Objects : mem[o] \in {"closing", "shut"} => mem'[o] = mem[o]
    BY <1>g, <1>u, Disjoint DEF IInv, TypeOK, WaitCheck, Goto
  <2>3. EventDtor(t)' /\ QueueDtorOf(t)'
    BY <1>g, <1>u, Disjoint DEF IInv, TypeOK, Threads, Destruction, EventDtor,
       QueueDtorOf, DestroysEvent, DestroysQueue, QueueDtor, WaitCheck, Goto
  <2>4. ASSUME NEW u \in Threads \ {t} PROVE Exclusive(t, u)'
    <3>1. Exclusive(t, u) /\ EventDtor(u) /\ QueueDtorOf(u)
      BY DEF IInv, Destruction, Threads
    <3> QED
      BY <3>1, <1>g, <1>u, Disjoint DEF IInv, TypeOK, Threads, Exclusive,
         EventDtor, QueueDtorOf, DestroysEvent, DestroysQueue, QueueDtor,
         WaitCheck, Goto
  <2> QED
    BY <2>1, <2>2, <2>3, <2>4, DestructionKept, Disjoint DEF Threads
<1>6. Workers'
  <2> SUFFICES ASSUME NEW x \in Queues PROVE WorkerUses(x)'
    BY DEF Workers
  <2>1. WorkerUses(x)
    BY DEF IInv, Workers
  <2> QED
    BY <2>1, Disjoint, <1>g, <1>u DEF IInv, TypeOK, Threads, WorkerUses,
       DestroysQueue, QueueDtor, HoldsParent, DestructorPCs, WaitCheck, Goto
<1>7. Shutdown'
  <2>1. ASSUME NEW x \in Queues PROVE ExitStage(x)'
    <3>1. ExitStage(x) /\ WorkerUses(x)
      BY DEF IInv, Shutdown, Workers
    <3> QED
      BY <3>1, Disjoint, <1>g, <1>u DEF IInv, TypeOK, Threads, ExitStage,
         WorkerUses, WaitCheck, Goto
  <2>2. ASSUME NEW x \in Threads PROVE DestroyStage(x)'
    <3>1. DestroyStage(x)
      BY DEF IInv, Shutdown
    <3> QED
      BY <3>1, Disjoint, <1>g, <1>u DEF IInv, TypeOK, Threads, DestroyStage,
         WaitCheck, Goto
  <2> QED
    BY <2>1, <2>2 DEF Shutdown
<1>8. RefExact' /\ LiveHeld'
  BY <1>u, RefFrame
<1>9. QueuedRequests' /\ PendingRequests'
  BY <1>u DEF IInv, QueuedRequests, Listed, PendingRequests, Pending,
     Unprocessed
<1> QED
  BY <1>1, <1>2, <1>3, <1>4, <1>5, <1>6, <1>7, <1>8, <1>9 DEF IInv

(* xrp_release_event: t stops holding c, and destroys it if it was the last.*)
LEMMA ReleaseEventStep ==
  ASSUME IInv, NEW t \in Clients, NEW c \in Cmds, ReleaseEvent(t, c)
  PROVE  IInv'
<1>u. UNCHANGED <<qu, parent, status, req, items, exit, syncExit, localExit>>
  BY DEF ReleaseEvent, Goto, Dec, LastRef, objVars, evVars, thVars, qVars
<1>f1. c \in own[t]
  BY DEF IInv, OwnsWhatItUses, UsesOwned, ReleaseEvent
<1>f2. t \in Holders(c) /\ mem[c] = "live" /\ c \in Objects /\ ref[c] \in Nat /\ ref[c] > 0
  BY <1>f1, OwnedLive
<1>g. pc[t] \in {"idle", "unref"}
  BY Disjoint, <1>f1, <1>f2 DEF IInv, TypeOK, ReleaseEvent, Goto, Dec, LastRef
<1>1. TypeOK'
  <2>1. ref' \in [Objects -> Nat]
    BY <1>f1, <1>f2, <1>g, Disjoint DEF IInv, TypeOK, Threads, ReleaseEvent,
       Goto, Dec, LastRef
  <2>2. mem' \in [Objects -> MemStates]
    BY <1>f1, <1>f2, <1>g, Disjoint DEF IInv, TypeOK, Threads, MemStates,
       ReleaseEvent, Goto, Dec, LastRef
  <2>3. own' \in [Clients -> SUBSET Objects]
    BY <1>f1, <1>f2, <1>g, <1>u, Disjoint DEF IInv, TypeOK, Threads,
       ReleaseEvent, Goto, Dec, LastRef
  <2>4. /\ pc' \in [Threads -> ClientPCs \cup WorkerPCs]
        /\ \A x \in Clients : pc'[x] \in ClientPCs
        /\ \A x \in Queues : pc'[x] \in WorkerPCs
    BY <1>f1, <1>f2, <1>g, <1>u, Disjoint DEF IInv, TypeOK, Threads,
       DestructorPCs, ClientPCs, WorkerPCs, ReleaseEvent, Goto, Dec, LastRef
  <2>5. cmd' \in [Threads -> Cmds \cup {NoCmd}]
    BY <1>f1, <1>f2, <1>g, Disjoint DEF IInv, TypeOK, Threads, ReleaseEvent,
       Goto, Dec, LastRef
  <2>6. sync' \in [Clients -> BOOLEAN]
    BY <1>f1, <1>f2, <1>g, Disjoint DEF IInv, TypeOK, Threads, ReleaseEvent,
       Goto, Dec, LastRef
  <2> QED
    BY <1>u, <2>1, <2>2, <2>3, <2>4, <2>5, <2>6 DEF IInv, TypeOK
<1>2. RefExact'
  <2>1. ASSUME NEW x \in Objects
        PROVE  Holders(x)' = IF x = c THEN Holders(x) \ {t} ELSE Holders(x)
    <3>1. Owners(x)' = IF x = c THEN Owners(x) \ {t} ELSE Owners(x)
      BY <1>f1 DEF Owners, IInv, TypeOK, ReleaseEvent, Dec, LastRef
    <3>2. \A y \in Objects : mem'[y] \in HoldsParent <=> mem[y] \in HoldsParent
      BY <1>f2 DEF HoldsParent, IInv, TypeOK, ReleaseEvent, Dec, LastRef
    <3>3. \A y \in Cmds : RequestOwnsEvent(y)' <=> RequestOwnsEvent(y)
      BY <1>f2 DEF RequestOwnsEvent, IInv, TypeOK, ReleaseEvent, Dec, LastRef
    <3> QED
      BY <3>1, <3>2, <3>3, Disjoint DEF Holders, evVars, ReleaseEvent, Dec,
         LastRef
  <2> QED
    BY <1>f2, <2>1, RemoveHolder DEF ReleaseEvent, Dec, LastRef
<1>3. LiveHeld'
  <2> SUFFICES ASSUME NEW x \in Objects PROVE (mem[x] = "live" <=> ref[x] > 0)'
    BY DEF LiveHeld
  <2>1. mem[x] = "live" <=> ref[x] > 0
    BY DEF IInv, LiveHeld
  <2> QED
    BY <2>1, Disjoint, <1>f1, <1>f2, <1>g, <1>u DEF IInv, TypeOK,
       ReleaseEvent, Goto, Dec, LastRef
<1>4. OwnsWhatItUses'
  <2> SUFFICES ASSUME NEW x \in Clients PROVE UsesOwned(x)'
    BY DEF OwnsWhatItUses
  <2>1. UsesOwned(x)
    BY DEF IInv, OwnsWhatItUses
  <2> QED
    BY <2>1, Disjoint, <1>f1, <1>f2, <1>g, <1>u DEF IInv, TypeOK, Threads,
       UsesOwned, DestructorPCs, ReleaseEvent, Goto, Dec, LastRef
<1>5. PushedRequests'
  <2> SUFFICES ASSUME NEW x \in Clients PROVE Pushing(x)'
    BY DEF PushedRequests
  <2>1. Pushing(x)
    BY DEF IInv, PushedRequests
  <2> QED
    BY <2>1, Disjoint, <1>f1, <1>f2, <1>g, <1>u DEF IInv, TypeOK, Threads,
       Pushing, DestructorPCs, ReleaseEvent, Goto, Dec, LastRef
<1>6. RunningRequests'
  <2> SUFFICES ASSUME NEW x \in Queues PROVE Running(x)'
    BY DEF RunningRequests
  <2>1. Running(x)
    BY DEF IInv, RunningRequests
  <2> QED
    BY <2>1, Disjoint, <1>f1, <1>f2, <1>g, <1>u DEF IInv, TypeOK, Threads,
       Running, DestructorPCs, ReleaseEvent, Goto, Dec, LastRef
<1>7. PendingRequests'
  <2> SUFFICES ASSUME NEW x \in Cmds PROVE Pending(x)'
    BY DEF PendingRequests
  <2>1. Pending(x)
    BY DEF IInv, PendingRequests
  <2> QED
    BY <2>1, Disjoint, <1>f1, <1>f2, <1>g, <1>u DEF IInv, TypeOK, Threads,
       Pending, Unprocessed, ReleaseEvent, Goto, Dec, LastRef
<1>8. Destruction'
  <2>1. OthersKeep(t)
    BY <1>f1, <1>f2, <1>g, <1>u, Disjoint DEF IInv, TypeOK, Threads,
       OthersKeep, DestructorPCs, ReleaseEvent, Goto, Dec, LastRef
  <2>2. \A o \in Objects : mem[o] \in {"closing", "shut"} => mem'[o] = mem[o]
    BY <1>f1, <1>f2, <1>g, <1>u, Disjoint DEF IInv, TypeOK, ReleaseEvent,
       Goto, Dec, LastRef
  <2>3. EventDtor(t)' /\ QueueDtorOf(t)'
    BY <1>f1, <1>f2, <1>g, <1>u, Disjoint DEF IInv, TypeOK, Threads,
       Destruction, EventDtor, QueueDtorOf, DestroysEvent, DestroysQueue, QueueDtor, ReleaseEvent, Goto, Dec, LastRef
  <2>4. ASSUME NEW u \in Threads \ {t} PROVE Exclusive(t, u)'
    <3>1. Exclusive(t, u) /\ EventDtor(u) /\ QueueDtorOf(u)
      BY DEF IInv, Destruction, Threads
    <3> QED
      BY <3>1, <1>f1, <1>f2, <1>g, <1>u, Disjoint DEF IInv, TypeOK, Threads,
         Exclusive, EventDtor, QueueDtorOf, DestroysEvent, DestroysQueue,
         QueueDtor, ReleaseEvent, Goto, Dec, LastRef
  <2> QED
    BY <2>1, <2>2, <2>3, <2>4, DestructionKept, Disjoint DEF Threads
<1>9. Workers'
  <2> SUFFICES ASSUME NEW x \in Queues PROVE WorkerUses(x)'
    BY DEF Workers
  <2>1. WorkerUses(x)
    BY DEF IInv, Workers
  <2>2. /\ x \in Threads /\ t \in Threads /\ x # t /\ x \in Objects
    BY Disjoint DEF Threads
  <2>3. /\ pc \in [Threads -> ClientPCs \cup WorkerPCs] /\ qu \in [Threads -> Queues]
        /\ cmd \in [Threads -> Cmds \cup {NoCmd}] /\ mem \in [Objects -> MemStates]
    BY DEF IInv, TypeOK
  <2>4. pc'[x] = pc[x] /\ qu'[x] = qu[x] /\ cmd'[x] = cmd[x]
    BY <2>2, <2>3, <1>u DEF ReleaseEvent, Goto
  <2>5. mem'[x] = mem[x] \/ (mem[x] = "live" /\ mem'[x] = "closing")
    BY <2>2, <2>3, <1>f2 DEF ReleaseEvent
  <2> QED
    BY <2>1, <2>4, <2>5, <1>u, WorkerUsesFrame DEF HoldsParent
<1>10. Shutdown'
  <2>1. ASSUME NEW x \in Queues PROVE ExitStage(x)'
    <3>1. ExitStage(x) /\ WorkerUses(x)
      BY DEF IInv, Shutdown, Workers
    <3> QED
      BY <3>1, Disjoint, <1>f1, <1>f2, <1>g, <1>u DEF IInv, TypeOK, Threads,
         ExitStage, WorkerUses, ReleaseEvent, Goto, Dec, LastRef
  <2>2. ASSUME NEW x \in Threads PROVE DestroyStage(x)'
    <3>1. DestroyStage(x)
      BY DEF IInv, Shutdown
    <3> QED
      BY <3>1, Disjoint, <1>f1, <1>f2, <1>g, <1>u DEF IInv, TypeOK, Threads,
         DestroyStage, ReleaseEvent, Goto, Dec, LastRef
  <2> QED
    BY <2>1, <2>2 DEF Shutdown
<1>11. QueuedRequests'
  BY <1>u DEF IInv, QueuedRequests, Listed
<1> QED
  BY <1>1, <1>2, <1>3, <1>4, <1>5, <1>6, <1>7, <1>8, <1>9, <1>10,
     <1>11 DEF IInv

(* xrp_release_queue: t stops holding q, and destroys it if it was the last.*)
LEMMA ReleaseQueueStep ==
  ASSUME IInv, NEW t \in Clients, NEW q \in Queues, ReleaseQueue(t, q)
  PROVE  IInv'
<1>u. UNCHANGED <<sync, parent, status, req, items, exit, syncExit, localExit>>
  BY DEF ReleaseQueue, Goto, Dec, LastRef, objVars, evVars, thVars, qVars
<1>f1. q \in own[t]
  BY DEF ReleaseQueue
<1>f2. t \in Holders(q) /\ mem[q] = "live" /\ q \in Objects /\ ref[q] \in Nat /\ ref[q] > 0
  BY <1>f1, OwnedLive
<1>g. pc[t] = "idle"
  BY Disjoint, <1>f1, <1>f2 DEF IInv, TypeOK, ReleaseQueue, Goto, Dec, LastRef
<1>1. TypeOK'
  <2>1. ref' \in [Objects -> Nat]
    BY <1>f1, <1>f2, <1>g, Disjoint, SMTT(20) DEF IInv, TypeOK, Threads, ReleaseQueue,
       Goto, Dec, LastRef
  <2>2. mem' \in [Objects -> MemStates]
    BY <1>f1, <1>f2, <1>g, Disjoint DEF IInv, TypeOK, Threads, MemStates,
       ReleaseQueue, Goto, Dec, LastRef
  <2>3. own' \in [Clients -> SUBSET Objects]
    BY <1>f1, <1>f2, <1>g, <1>u, Disjoint DEF IInv, TypeOK, Threads,
       ReleaseQueue, Goto, Dec, LastRef
  <2>4. /\ pc' \in [Threads -> ClientPCs \cup WorkerPCs]
        /\ \A x \in Clients : pc'[x] \in ClientPCs
        /\ \A x \in Queues : pc'[x] \in WorkerPCs
    BY <1>f1, <1>f2, <1>g, <1>u, Disjoint DEF IInv, TypeOK, Threads,
       DestructorPCs, ClientPCs, WorkerPCs, ReleaseQueue, Goto, Dec, LastRef
  <2>5. cmd' \in [Threads -> Cmds \cup {NoCmd}]
    BY <1>f1, <1>f2, <1>g, Disjoint DEF IInv, TypeOK, Threads, ReleaseQueue,
       Goto, Dec, LastRef
  <2>6. qu' \in [Threads -> Queues]
    BY <1>f1, <1>f2, <1>g, Disjoint DEF IInv, TypeOK, Threads, ReleaseQueue,
       Goto, Dec, LastRef
  <2> QED
    BY <1>u, <2>1, <2>2, <2>3, <2>4, <2>5, <2>6 DEF IInv, TypeOK
<1>2. RefExact'
  <2>1. ASSUME NEW x \in Objects
        PROVE  Holders(x)' = IF x = q THEN Holders(x) \ {t} ELSE Holders(x)
    <3>1. Owners(x)' = IF x = q THEN Owners(x) \ {t} ELSE Owners(x)
      BY <1>f1 DEF Owners, IInv, TypeOK, ReleaseQueue, Dec, LastRef
    <3>2. \A y \in Objects : mem'[y] \in HoldsParent <=> mem[y] \in HoldsParent
      BY <1>f2 DEF HoldsParent, IInv, TypeOK, ReleaseQueue, Dec, LastRef
    <3>3. \A y \in Cmds : RequestOwnsEvent(y)' <=> RequestOwnsEvent(y)
      BY <1>f2 DEF RequestOwnsEvent, IInv, TypeOK, ReleaseQueue, Dec, LastRef
    <3> QED
      BY <3>1, <3>2, <3>3, Disjoint DEF Holders, evVars, ReleaseQueue, Dec,
         LastRef
  <2> QED
    BY <1>f2, <2>1, RemoveHolder DEF ReleaseQueue, Dec, LastRef
<1>3. LiveHeld'
  <2> SUFFICES ASSUME NEW x \in Objects PROVE (mem[x] = "live" <=> ref[x] > 0)'
    BY DEF LiveHeld
  <2>1. mem[x] = "live" <=> ref[x] > 0
    BY DEF IInv, LiveHeld
  <2> QED
    BY <2>1, Disjoint, <1>f1, <1>f2, <1>g, <1>u DEF IInv, TypeOK,
       ReleaseQueue, Goto, Dec, LastRef
<1>4. OwnsWhatItUses'
  <2> SUFFICES ASSUME NEW x \in Clients PROVE UsesOwned(x)'
    BY DEF OwnsWhatItUses
  <2>1. UsesOwned(x)
    BY DEF IInv, OwnsWhatItUses
  <2> QED
    BY <2>1, Disjoint, <1>f1, <1>f2, <1>g, <1>u DEF IInv, TypeOK, Threads,
       UsesOwned, DestructorPCs, ReleaseQueue, Goto, Dec, LastRef
<1>5. PushedRequests'
  <2> SUFFICES ASSUME NEW x \in Clients PROVE Pushing(x)'
    BY DEF PushedRequests
  <2>1. Pushing(x)
    BY DEF IInv, PushedRequests
  <2> QED
    BY <2>1, Disjoint, <1>f1, <1>f2, <1>g, <1>u DEF IInv, TypeOK, Threads,
       Pushing, DestructorPCs, ReleaseQueue, Goto, Dec, LastRef
<1>6. RunningRequests'
  <2> SUFFICES ASSUME NEW x \in Queues PROVE Running(x)'
    BY DEF RunningRequests
  <2>1. Running(x)
    BY DEF IInv, RunningRequests
  <2> QED
    BY <2>1, Disjoint, <1>f1, <1>f2, <1>g, <1>u DEF IInv, TypeOK, Threads,
       Running, DestructorPCs, ReleaseQueue, Goto, Dec, LastRef
<1>7. PendingRequests'
  <2> SUFFICES ASSUME NEW x \in Cmds PROVE Pending(x)'
    BY DEF PendingRequests
  <2>1. Pending(x)
    BY DEF IInv, PendingRequests
  <2> QED
    BY <2>1, Disjoint, <1>f1, <1>f2, <1>g, <1>u DEF IInv, TypeOK, Threads,
       Pending, Unprocessed, ReleaseQueue, Goto, Dec, LastRef
<1>8. Destruction'
  <2>1. OthersKeep(t)
    BY <1>f1, <1>f2, <1>g, <1>u, Disjoint DEF IInv, TypeOK, Threads,
       OthersKeep, DestructorPCs, ReleaseQueue, Goto, Dec, LastRef
  <2>2. \A o \in Objects : mem[o] \in {"closing", "shut"} => mem'[o] = mem[o]
    BY <1>f1, <1>f2, <1>g, <1>u, Disjoint DEF IInv, TypeOK, ReleaseQueue,
       Goto, Dec, LastRef
  <2>3. EventDtor(t)' /\ QueueDtorOf(t)'
    BY <1>f1, <1>f2, <1>g, <1>u, Disjoint DEF IInv, TypeOK, Threads,
       Destruction, EventDtor, QueueDtorOf, DestroysEvent, DestroysQueue, QueueDtor, ReleaseQueue, Goto, Dec, LastRef
  <2>4. ASSUME NEW u \in Threads \ {t} PROVE Exclusive(t, u)'
    <3>1. Exclusive(t, u) /\ EventDtor(u) /\ QueueDtorOf(u)
      BY DEF IInv, Destruction, Threads
    <3> QED
      BY <3>1, <1>f1, <1>f2, <1>g, <1>u, Disjoint DEF IInv, TypeOK, Threads,
         Exclusive, EventDtor, QueueDtorOf, DestroysEvent, DestroysQueue,
         QueueDtor, ReleaseQueue, Goto, Dec, LastRef
  <2> QED
    BY <2>1, <2>2, <2>3, <2>4, DestructionKept, Disjoint DEF Threads
<1>9. Workers'
  <2> SUFFICES ASSUME NEW x \in Queues PROVE WorkerUses(x)'
    BY DEF Workers
  <2>1. WorkerUses(x)
    BY DEF IInv, Workers
  <2>2. /\ x \in Threads /\ t \in Threads /\ x # t /\ x \in Objects
    BY Disjoint DEF Threads
  <2>3. /\ pc \in [Threads -> ClientPCs \cup WorkerPCs] /\ qu \in [Threads -> Queues]
        /\ cmd \in [Threads -> Cmds \cup {NoCmd}] /\ mem \in [Objects -> MemStates]
    BY DEF IInv, TypeOK
  <2>4. pc'[x] = pc[x] /\ qu'[x] = qu[x] /\ cmd'[x] = cmd[x]
    BY <2>2, <2>3, <1>u DEF ReleaseQueue, Goto
  <2>5. mem'[x] = mem[x] \/ (mem[x] = "live" /\ mem'[x] = "closing")
    BY <2>2, <2>3, <1>f2 DEF ReleaseQueue
  <2> QED
    BY <2>1, <2>4, <2>5, <1>u, WorkerUsesFrame DEF HoldsParent
<1>10. Shutdown'
  <2>1. ASSUME NEW x \in Queues PROVE ExitStage(x)'
    <3>1. ExitStage(x) /\ WorkerUses(x)
      BY DEF IInv, Shutdown, Workers
    <3> QED
      BY <3>1, Disjoint, <1>f1, <1>f2, <1>g, <1>u DEF IInv, TypeOK, Threads,
         ExitStage, WorkerUses, ReleaseQueue, Goto, Dec, LastRef
  <2>2. ASSUME NEW x \in Threads PROVE DestroyStage(x)'
    <3>1. DestroyStage(x)
      BY DEF IInv, Shutdown
    <3> QED
      BY <3>1, Disjoint, <1>f1, <1>f2, <1>g, <1>u DEF IInv, TypeOK, Threads,
         DestroyStage, ReleaseQueue, Goto, Dec, LastRef
  <2> QED
    BY <2>1, <2>2 DEF Shutdown
<1>11. QueuedRequests'
  BY <1>u DEF IInv, QueuedRequests, Listed
<1> QED
  BY <1>1, <1>2, <1>3, <1>4, <1>5, <1>6, <1>7, <1>8, <1>9, <1>10,
     <1>11 DEF IInv

(* xrp_release_device: t stops holding the device.                         *)
LEMMA ReleaseDeviceStep ==
  ASSUME IInv, NEW t \in Clients, ReleaseDevice(t)
  PROVE  IInv'
<1>u. UNCHANGED <<pc, cmd, qu, sync, parent, status, req, items, exit, syncExit, localExit>>
  BY DEF ReleaseDevice, Dec, LastRef, objVars, evVars, thVars, qVars
<1>f1. Device \in own[t]
  BY DEF ReleaseDevice
<1>f2. t \in Holders(Device) /\ mem[Device] = "live" /\ Device \in Objects /\ ref[Device] \in Nat /\ ref[Device] > 0
  BY <1>f1, OwnedLive
<1>g. pc[t] = "idle"
  BY Disjoint, <1>f1, <1>f2 DEF IInv, TypeOK, ReleaseDevice, Dec, LastRef
<1>1. TypeOK'
  <2>1. ref' \in [Objects -> Nat]
    BY <1>f1, <1>f2, <1>g, Disjoint DEF IInv, TypeOK, Threads, ReleaseDevice,
       Dec, LastRef
  <2>2. mem' \in [Objects -> MemStates]
    BY <1>f1, <1>f2, <1>g, Disjoint DEF IInv, TypeOK, Threads, MemStates,
       ReleaseDevice, Dec, LastRef
  <2>3. own' \in [Clients -> SUBSET Objects]
    BY <1>f1, <1>f2, <1>g, <1>u, Disjoint DEF IInv, TypeOK, Threads,
       ReleaseDevice, Dec, LastRef
  <2> QED
    BY <1>u, <2>1, <2>2, <2>3 DEF IInv, TypeOK
<1>2. RefExact'
  <2>1. ASSUME NEW x \in Objects
        PROVE  Holders(x)' = IF x = Device THEN Holders(x) \ {t} ELSE Holders(x)
    <3>1. Owners(x)' = IF x = Device THEN Owners(x) \ {t} ELSE Owners(x)
      BY <1>f1 DEF Owners, IInv, TypeOK, ReleaseDevice, Dec, LastRef
    <3>2. \A y \in Objects \ {Device} : mem'[y] \in HoldsParent <=> mem[y] \in HoldsParent
      BY <1>f2 DEF HoldsParent, IInv, TypeOK, ReleaseDevice, Dec, LastRef
    <3>3. \A y \in Cmds : RequestOwnsEvent(y)' <=> RequestOwnsEvent(y)
      BY <1>f2 DEF RequestOwnsEvent, IInv, TypeOK, ReleaseDevice, Dec, LastRef
    <3> QED
      BY <3>1, <3>2, <3>3, Disjoint DEF Holders, evVars, ReleaseDevice, Dec,
         LastRef
  <2> QED
    BY <1>f2, <2>1, RemoveHolder DEF ReleaseDevice, Dec, LastRef
<1>3. LiveHeld'
  <2> SUFFICES ASSUME NEW x \in Objects PROVE (mem[x] = "live" <=> ref[x] > 0)'
    BY DEF LiveHeld
  <2>1. mem[x] = "live" <=> ref[x] > 0
    BY DEF IInv, LiveHeld
  <2> QED
    BY <2>1, Disjoint, <1>f1, <1>f2, <1>g, <1>u DEF IInv, TypeOK,
       ReleaseDevice, Dec, LastRef
<1>4. OwnsWhatItUses'
  <2> SUFFICES ASSUME NEW x \in Clients PROVE UsesOwned(x)'
    BY DEF OwnsWhatItUses
  <2>1. UsesOwned(x)
    BY DEF IInv, OwnsWhatItUses
  <2> QED
    BY <2>1, Disjoint, <1>f1, <1>f2, <1>g, <1>u DEF IInv, TypeOK, Threads,
       UsesOwned, ReleaseDevice, Dec, LastRef
<1>5. RunningRequests'
  <2> SUFFICES ASSUME NEW x \in Queues PROVE Running(x)'
    BY DEF RunningRequests
  <2>1. Running(x)
    BY DEF IInv, RunningRequests
  <2> QED
    BY <2>1, Disjoint, <1>f1, <1>f2, <1>g, <1>u DEF IInv, TypeOK, Threads,
       Running, ReleaseDevice, Dec, LastRef
<1>6. PendingRequests'
  <2> SUFFICES ASSUME NEW x \in Cmds PROVE Pending(x)'
    BY DEF PendingRequests
  <2>1. Pending(x)
    BY DEF IInv, PendingRequests
  <2> QED
    BY <2>1, Disjoint, <1>f1, <1>f2, <1>g, <1>u DEF IInv, TypeOK, Threads,
       Pending, Unprocessed, ReleaseDevice, Dec, LastRef
<1>7. Destruction'
  <2>1. OthersKeep(t)
    BY <1>f1, <1>f2, <1>g, <1>u, Disjoint DEF IInv, TypeOK, Threads,
       OthersKeep, DestructorPCs, ReleaseDevice, Dec, LastRef
  <2>2. \A o \in Objects : mem[o] \in {"closing", "shut"} => mem'[o] = mem[o]
    BY <1>f1, <1>f2, <1>g, <1>u, Disjoint DEF IInv, TypeOK, ReleaseDevice,
       Dec, LastRef
  <2>3. EventDtor(t)' /\ QueueDtorOf(t)'
    BY <1>f1, <1>f2, <1>g, <1>u, Disjoint DEF IInv, TypeOK, Threads,
       Destruction, EventDtor, QueueDtorOf, DestroysEvent, DestroysQueue, QueueDtor, ReleaseDevice, Dec, LastRef
  <2>4. ASSUME NEW u \in Threads \ {t} PROVE Exclusive(t, u)'
    <3>1. Exclusive(t, u) /\ EventDtor(u) /\ QueueDtorOf(u)
      BY DEF IInv, Destruction, Threads
    <3> QED
      BY <3>1, <1>f1, <1>f2, <1>g, <1>u, Disjoint DEF IInv, TypeOK, Threads,
         Exclusive, EventDtor, QueueDtorOf, DestroysEvent, DestroysQueue,
         QueueDtor, ReleaseDevice, Dec, LastRef
  <2> QED
    BY <2>1, <2>2, <2>3, <2>4, DestructionKept, Disjoint DEF Threads
<1>8. Workers'
  <2> SUFFICES ASSUME NEW x \in Queues PROVE WorkerUses(x)'
    BY DEF Workers
  <2>1. WorkerUses(x)
    BY DEF IInv, Workers
  <2> QED
    BY <2>1, Disjoint, <1>f1, <1>f2, <1>g, <1>u DEF IInv, TypeOK, Threads,
       WorkerUses, DestroysQueue, QueueDtor, HoldsParent, ReleaseDevice, Dec, LastRef
<1>9. Shutdown'
  <2>1. ASSUME NEW x \in Queues PROVE ExitStage(x)'
    <3>1. ExitStage(x) /\ WorkerUses(x)
      BY DEF IInv, Shutdown, Workers
    <3> QED
      BY <3>1, Disjoint, <1>f1, <1>f2, <1>g, <1>u DEF IInv, TypeOK, Threads,
         ExitStage, WorkerUses, ReleaseDevice, Dec, LastRef
  <2>2. ASSUME NEW x \in Threads PROVE DestroyStage(x)'
    <3>1. DestroyStage(x)
      BY DEF IInv, Shutdown
    <3> QED
      BY <3>1, Disjoint, <1>f1, <1>f2, <1>g, <1>u DEF IInv, TypeOK, Threads,
         DestroyStage, ReleaseDevice, Dec, LastRef
  <2> QED
    BY <2>1, <2>2 DEF Shutdown
<1>10. PushedRequests' /\ QueuedRequests'
  BY <1>u DEF IInv, PushedRequests, Pushing, QueuedRequests, Listed
<1> QED
  BY <1>1, <1>2, <1>3, <1>4, <1>5, <1>6, <1>7, <1>8, <1>9, <1>10 DEF IInv

(* The destroyed event releases its queue.                                 *)
LEMMA EvDropStep ==
  ASSUME IInv, NEW t \in Threads, EvDrop(t)
  PROVE  IInv'
<1>u. UNCHANGED <<own, cmd, sync, parent, status, req, items, exit, syncExit, localExit>>
  BY DEF EvDrop, Goto, Dec, LastRef, objVars, evVars, thVars, qVars
<1>f1. cmd[t] \in Cmds /\ mem[cmd[t]] = "closing"
  BY DEF IInv, Destruction, EventDtor, DestroysEvent, EvDrop
<1>f2. /\ parent[cmd[t]] \in Queues /\ cmd[t] \in Holders(parent[cmd[t]])
       /\ mem[parent[cmd[t]]] = "live"
       /\ ref[parent[cmd[t]]] \in Nat /\ ref[parent[cmd[t]]] > 0
  BY <1>f1, EventKeepsQueue DEF HoldsParent
<1>g. pc[t] = "evDrop"
  BY Disjoint, <1>f1, <1>f2 DEF IInv, TypeOK, EvDrop, Goto, Dec, LastRef
<1>1. TypeOK'
  <2>1. ref' \in [Objects -> Nat]
    BY <1>f1, <1>f2, <1>g, Disjoint, SMTT(20) DEF IInv, TypeOK, Threads, EvDrop, Goto,
       Dec, LastRef
  <2>2. mem' \in [Objects -> MemStates]
    BY <1>f1, <1>f2, <1>g, Disjoint DEF IInv, TypeOK, Threads, MemStates,
       EvDrop, Goto, Dec, LastRef
  <2>3. /\ pc' \in [Threads -> ClientPCs \cup WorkerPCs]
        /\ \A x \in Clients : pc'[x] \in ClientPCs
        /\ \A x \in Queues : pc'[x] \in WorkerPCs
    BY <1>f1, <1>f2, <1>g, <1>u, Disjoint DEF IInv, TypeOK, Threads,
       DestructorPCs, ClientPCs, WorkerPCs, EvDrop, Goto, Dec, LastRef
  <2>4. qu' \in [Threads -> Queues]
    BY <1>f1, <1>f2, <1>g, Disjoint DEF IInv, TypeOK, Threads, EvDrop, Goto,
       Dec, LastRef
  <2> QED
    BY <1>u, <2>1, <2>2, <2>3, <2>4 DEF IInv, TypeOK
<1>2. RefExact'
  <2> DEFINE p == parent[cmd[t]]
  <2>1. ASSUME NEW x \in Objects
        PROVE  Holders(x)' = IF x = p THEN Holders(x) \ {cmd[t]} ELSE Holders(x)
    <3>1. \A y \in Cmds : mem'[y] \in HoldsParent <=> (mem[y] \in HoldsParent /\ y # cmd[t])
      BY <1>f1, <1>f2, Disjoint DEF HoldsParent, IInv, TypeOK, EvDrop
    <3>2. \A y \in Queues : mem'[y] \in HoldsParent <=> mem[y] \in HoldsParent
      BY <1>f1, <1>f2, Disjoint DEF HoldsParent, IInv, TypeOK, EvDrop
    <3>3. \A y \in Cmds : RequestOwnsEvent(y)' <=> RequestOwnsEvent(y)
      BY <1>f1, <1>f2, <1>u, Disjoint DEF RequestOwnsEvent, IInv, TypeOK,
         EvDrop
    <3>4. Owners(x)' = Owners(x) /\ parent' = parent
      BY <1>u DEF Owners
    <3> QED
      BY <1>f1, <1>f2, <3>1, <3>2, <3>3, <3>4, Disjoint, ZenonT(40) DEF Holders, Owners
  <2> QED
    BY <1>f2, <2>1, RemoveHolder, Disjoint DEF EvDrop, Dec
<1>3. LiveHeld'
  <2> SUFFICES ASSUME NEW x \in Objects PROVE (mem[x] = "live" <=> ref[x] > 0)'
    BY DEF LiveHeld
  <2>1. mem[x] = "live" <=> ref[x] > 0
    BY DEF IInv, LiveHeld
  <2> QED
    BY <2>1, Disjoint, <1>f1, <1>f2, <1>g, <1>u DEF IInv, TypeOK, EvDrop,
       Goto, Dec, LastRef
<1>4. OwnsWhatItUses'
  <2> SUFFICES ASSUME NEW x \in Clients PROVE UsesOwned(x)'
    BY DEF OwnsWhatItUses
  <2>1. UsesOwned(x)
    BY DEF IInv, OwnsWhatItUses
  <2> QED
    BY <2>1, Disjoint, <1>f1, <1>f2, <1>g, <1>u DEF IInv, TypeOK, Threads,
       UsesOwned, DestructorPCs, EvDrop, Goto, Dec, LastRef
<1>5. PushedRequests'
  <2> SUFFICES ASSUME NEW x \in Clients PROVE Pushing(x)'
    BY DEF PushedRequests
  <2>1. Pushing(x)
    BY DEF IInv, PushedRequests
  <2> QED
    BY <2>1, Disjoint, <1>f1, <1>f2, <1>g, <1>u DEF IInv, TypeOK, Threads,
       Pushing, DestructorPCs, EvDrop, Goto, Dec, LastRef
<1>6. RunningRequests'
  <2> SUFFICES ASSUME NEW x \in Queues PROVE Running(x)'
    BY DEF RunningRequests
  <2>1. Running(x)
    BY DEF IInv, RunningRequests
  <2> QED
    BY <2>1, Disjoint, <1>f1, <1>f2, <1>g, <1>u DEF IInv, TypeOK, Threads,
       Running, DestructorPCs, EvDrop, Goto, Dec, LastRef
<1>7. PendingRequests'
  <2> SUFFICES ASSUME NEW x \in Cmds PROVE Pending(x)'
    BY DEF PendingRequests
  <2>1. Pending(x)
    BY DEF IInv, PendingRequests
  <2> QED
    BY <2>1, Disjoint, <1>f1, <1>f2, <1>g, <1>u DEF IInv, TypeOK, Threads,
       Pending, Unprocessed, EvDrop, Goto, Dec, LastRef
<1>8. Destruction'
  <2>1. OthersKeep(t)
    BY <1>f1, <1>f2, <1>g, <1>u, Disjoint DEF IInv, TypeOK, Threads,
       OthersKeep, DestructorPCs, EvDrop, Goto, Dec, LastRef
  <2>5. \A o \in Objects : mem[o] \in {"closing", "shut"} /\ o # cmd[t] => mem'[o] = mem[o]
    BY <1>f1, <1>f2, Disjoint DEF IInv, TypeOK, EvDrop, LastRef
  <2>6. ASSUME NEW x \in Threads \ {t}
        PROVE  (DestroysEvent(x) => cmd[x] # cmd[t]) /\ (DestroysQueue(x) => qu[x] # cmd[t])
    <3>1. Exclusive(t, x) /\ EventDtor(x) /\ QueueDtorOf(x) /\ qu[x] \in Queues
      BY DEF IInv, Destruction, TypeOK
    <3> QED
      BY <3>1, <1>f1, <1>g, Disjoint DEF Exclusive, EventDtor, DestroysEvent,
         DestroysQueue, QueueDtor
  <2>2. \A o \in Objects : mem[o] \in {"closing", "shut"} =>
          \/ mem'[o] = mem[o]
          \/ \A x \in Threads \ {t} : (DestroysEvent(x) => cmd[x] # o) /\ (DestroysQueue(x) => qu[x] # o)
    BY <2>5, <2>6
  <2>3. EventDtor(t)' /\ QueueDtorOf(t)'
    BY <1>f1, <1>f2, <1>g, <1>u, Disjoint DEF IInv, TypeOK, Threads,
       Destruction, EventDtor, QueueDtorOf, DestroysEvent, DestroysQueue, QueueDtor, EvDrop, Goto, Dec, LastRef
  <2>4. ASSUME NEW u \in Threads \ {t} PROVE Exclusive(t, u)'
    <3>1. Exclusive(t, u) /\ EventDtor(u) /\ QueueDtorOf(u)
      BY DEF IInv, Destruction, Threads
    <3> QED
      BY <3>1, <1>f1, <1>f2, <1>g, <1>u, Disjoint DEF IInv, TypeOK, Threads,
         Exclusive, EventDtor, QueueDtorOf, DestroysEvent, DestroysQueue,
         QueueDtor, EvDrop, Goto, Dec, LastRef
  <2> QED
    BY <2>1, <2>2, <2>3, <2>4, DestructionKept, Disjoint DEF Threads
<1>9. Workers'
  <2> SUFFICES ASSUME NEW x \in Queues PROVE WorkerUses(x)'
    BY DEF Workers
  <2>1. WorkerUses(x)
    BY DEF IInv, Workers
  <2>2. (mem'[x] \in HoldsParent <=> mem[x] \in HoldsParent) /\ (mem'[x] = "none" <=> mem[x] = "none")
    BY <1>f1, <1>f2, Disjoint DEF HoldsParent, IInv, TypeOK, EvDrop, LastRef
  <2> QED
    BY <2>1, <2>2, Disjoint, <1>f1, <1>f2, <1>g, <1>u DEF IInv, TypeOK,
       Threads, WorkerUses, DestroysQueue, QueueDtor, HoldsParent, DestructorPCs, EvDrop, Goto, Dec, LastRef
<1>10. Shutdown'
  <2>1. ASSUME NEW x \in Queues PROVE ExitStage(x)'
    <3>1. ExitStage(x) /\ WorkerUses(x)
      BY DEF IInv, Shutdown, Workers
    <3> QED
      BY <3>1, Disjoint, <1>f1, <1>f2, <1>g, <1>u DEF IInv, TypeOK, Threads,
         ExitStage, WorkerUses, EvDrop, Goto, Dec, LastRef
  <2>2. ASSUME NEW x \in Threads PROVE DestroyStage(x)'
    <3>1. DestroyStage(x)
      BY DEF IInv, Shutdown
    <3> QED
      BY <3>1, Disjoint, <1>f1, <1>f2, <1>g, <1>u DEF IInv, TypeOK, Threads,
         DestroyStage, EvDrop, Goto, Dec, LastRef
  <2> QED
    BY <2>1, <2>2 DEF Shutdown
<1>11. QueuedRequests'
  BY <1>u DEF IInv, QueuedRequests, Listed
<1> QED
  BY <1>1, <1>2, <1>3, <1>4, <1>5, <1>6, <1>7, <1>8, <1>9, <1>10,
     <1>11 DEF IInv

(* xrp_queue_destroy asks the worker to exit.                              *)
LEMMA QExitStep ==
  ASSUME IInv, NEW t \in Threads, QExit(t)
  PROVE  IInv'
<1>u. UNCHANGED <<ref, mem, own, cmd, qu, sync, parent, status, req, items, syncExit, localExit>>
  BY DEF QExit, Woken, objVars, evVars, thVars, qVars
<1>f1. qu[t] \in Queues /\ mem[qu[t]] = IF pc[t] = "qFree" THEN "shut" ELSE "closing"
  BY DEF IInv, TypeOK, Destruction, QueueDtorOf, DestroysQueue, QueueDtor,
     QExit
<1>g. pc[t] = "qExit"
  BY Disjoint, <1>f1 DEF IInv, TypeOK, QExit, Woken
<1>1. TypeOK'
  <2>1. /\ pc' \in [Threads -> ClientPCs \cup WorkerPCs]
        /\ \A x \in Clients : pc'[x] \in ClientPCs
        /\ \A x \in Queues : pc'[x] \in WorkerPCs
    BY <1>f1, <1>g, <1>u, Disjoint, ZenonT(40) DEF IInv, TypeOK, Threads, DestructorPCs,
       ClientPCs, WorkerPCs, QExit, Woken
  <2>2. exit' \in [Queues -> BOOLEAN]
    BY <1>f1, <1>g, Disjoint DEF IInv, TypeOK, Threads, QExit
  <2> QED
    BY <1>u, <2>1, <2>2 DEF IInv, TypeOK
<1>2. OwnsWhatItUses'
  <2> SUFFICES ASSUME NEW x \in Clients PROVE UsesOwned(x)'
    BY DEF OwnsWhatItUses
  <2>1. UsesOwned(x)
    BY DEF IInv, OwnsWhatItUses
  <2> QED
    BY <2>1, Disjoint, <1>f1, <1>g, <1>u DEF IInv, TypeOK, Threads, UsesOwned,
       DestructorPCs, QExit, Woken
<1>3. PushedRequests'
  <2> SUFFICES ASSUME NEW x \in Clients PROVE Pushing(x)'
    BY DEF PushedRequests
  <2>1. Pushing(x)
    BY DEF IInv, PushedRequests
  <2> QED
    BY <2>1, Disjoint, <1>f1, <1>g, <1>u DEF IInv, TypeOK, Threads, Pushing,
       DestructorPCs, QExit, Woken
<1>4. RunningRequests'
  <2> SUFFICES ASSUME NEW x \in Queues PROVE Running(x)'
    BY DEF RunningRequests
  <2>1. Running(x)
    BY DEF IInv, RunningRequests
  <2> QED
    BY <2>1, Disjoint, <1>f1, <1>g, <1>u DEF IInv, TypeOK, Threads, Running,
       DestructorPCs, QExit, Woken
<1>5. Destruction'
  <2>1. OthersKeep(t)
    BY <1>f1, <1>g, <1>u, Disjoint DEF IInv, TypeOK, Threads, OthersKeep,
       DestructorPCs, QExit, Woken
  <2>2. \A o \in Objects : mem[o] \in {"closing", "shut"} => mem'[o] = mem[o]
    BY <1>f1, <1>g, <1>u, Disjoint DEF IInv, TypeOK, QExit, Woken
  <2>3. EventDtor(t)' /\ QueueDtorOf(t)'
    BY <1>f1, <1>g, <1>u, Disjoint DEF IInv, TypeOK, Threads, Destruction,
       EventDtor, QueueDtorOf, DestroysEvent, DestroysQueue, QueueDtor, QExit, Woken
  <2>4. ASSUME NEW u \in Threads \ {t} PROVE Exclusive(t, u)'
    <3>1. Exclusive(t, u) /\ EventDtor(u) /\ QueueDtorOf(u)
      BY DEF IInv, Destruction, Threads
    <3> QED
      BY <3>1, <1>f1, <1>g, <1>u, Disjoint DEF IInv, TypeOK, Threads,
         Exclusive, EventDtor, QueueDtorOf, DestroysEvent, DestroysQueue,
         QueueDtor, QExit, Woken
  <2> QED
    BY <2>1, <2>2, <2>3, <2>4, DestructionKept, Disjoint DEF Threads
<1>6. Workers'
  <2> SUFFICES ASSUME NEW x \in Queues PROVE WorkerUses(x)'
    BY DEF Workers
  <2>1. WorkerUses(x)
    BY DEF IInv, Workers
  <2> QED
    BY <2>1, Disjoint, <1>f1, <1>g, <1>u DEF IInv, TypeOK, Threads,
       WorkerUses, DestroysQueue, QueueDtor, HoldsParent, DestructorPCs, QExit, Woken
<1>7. Shutdown'
  <2>1. ASSUME NEW x \in Queues PROVE ExitStage(x)'
    <3>1. ExitStage(x) /\ WorkerUses(x)
      BY DEF IInv, Shutdown, Workers
    <3> QED
      BY <3>1, Disjoint, <1>f1, <1>g, <1>u, SMTT(20) DEF IInv, TypeOK, Threads,
         ExitStage, WorkerUses, QExit, Woken
  <2>2. ASSUME NEW x \in Threads PROVE DestroyStage(x)'
    <3>1. DestroyStage(x)
      BY DEF IInv, Shutdown
    <3> QED
      BY <3>1, Disjoint, <1>f1, <1>g, <1>u DEF IInv, TypeOK, Threads,
         DestroyStage, QExit, Woken
  <2> QED
    BY <2>1, <2>2 DEF Shutdown
<1>8. RefExact' /\ LiveHeld'
  BY <1>u, RefFrame
<1>9. QueuedRequests' /\ PendingRequests'
  BY <1>u DEF IInv, QueuedRequests, Listed, PendingRequests, Pending,
     Unprocessed
<1> QED
  BY <1>1, <1>2, <1>3, <1>4, <1>5, <1>6, <1>7, <1>8, <1>9 DEF IInv

(* xrp_queue_destroy joins the worker, or finds that it cannot.            *)
LEMMA QJoinStep ==
  ASSUME IInv, NEW t \in Threads, QJoin(t)
  PROVE  IInv'
<1>u. UNCHANGED <<ref, mem, own, cmd, qu, sync, parent, status, req, items, exit, syncExit, localExit>>
  BY DEF QJoin, Goto, objVars, evVars, thVars, qVars
<1>f1. qu[t] \in Queues /\ mem[qu[t]] = IF pc[t] = "qFree" THEN "shut" ELSE "closing"
  BY DEF IInv, TypeOK, Destruction, QueueDtorOf, DestroysQueue, QueueDtor,
     QJoin
<1>g. pc[t] = "qJoin"
  BY Disjoint, <1>f1 DEF IInv, TypeOK, QJoin, Goto
<1>1. TypeOK'
  <2>1. /\ pc' \in [Threads -> ClientPCs \cup WorkerPCs]
        /\ \A x \in Clients : pc'[x] \in ClientPCs
        /\ \A x \in Queues : pc'[x] \in WorkerPCs
    <3>1. PICK l \in {"qClose", "qSync"} : pc' = [pc EXCEPT ![t] = l]
      BY DEF QJoin, Goto
    <3>2. l \in ClientPCs /\ l \in WorkerPCs
      BY <3>1 DEF ClientPCs, WorkerPCs, DestructorPCs
    <3> QED
      BY <3>1, <3>2, TypedPC DEF IInv
  <2> QED
    BY <1>u, <2>1 DEF IInv, TypeOK
<1>2. OwnsWhatItUses'
  <2> SUFFICES ASSUME NEW x \in Clients PROVE UsesOwned(x)'
    BY DEF OwnsWhatItUses
  <2>1. UsesOwned(x)
    BY DEF IInv, OwnsWhatItUses
  <2> QED
    BY <2>1, Disjoint, <1>f1, <1>g, <1>u DEF IInv, TypeOK, Threads, UsesOwned,
       DestructorPCs, QJoin, Goto
<1>3. PushedRequests'
  <2> SUFFICES ASSUME NEW x \in Clients PROVE Pushing(x)'
    BY DEF PushedRequests
  <2>1. Pushing(x)
    BY DEF IInv, PushedRequests
  <2> QED
    BY <2>1, Disjoint, <1>f1, <1>g, <1>u DEF IInv, TypeOK, Threads, Pushing,
       DestructorPCs, QJoin, Goto
<1>4. RunningRequests'
  <2> SUFFICES ASSUME NEW x \in Queues PROVE Running(x)'
    BY DEF RunningRequests
  <2>1. Running(x)
    BY DEF IInv, RunningRequests
  <2> QED
    BY <2>1, Disjoint, <1>f1, <1>g, <1>u DEF IInv, TypeOK, Threads, Running,
       DestructorPCs, QJoin, Goto
<1>5. Destruction'
  <2>1. OthersKeep(t)
    BY <1>f1, <1>g, <1>u, Disjoint DEF IInv, TypeOK, Threads, OthersKeep,
       DestructorPCs, QJoin, Goto
  <2>2. \A o \in Objects : mem[o] \in {"closing", "shut"} => mem'[o] = mem[o]
    BY <1>f1, <1>g, <1>u, Disjoint DEF IInv, TypeOK, QJoin, Goto
  <2>3. EventDtor(t)' /\ QueueDtorOf(t)'
    BY <1>f1, <1>g, <1>u, Disjoint DEF IInv, TypeOK, Threads, Destruction,
       EventDtor, QueueDtorOf, DestroysEvent, DestroysQueue, QueueDtor, QJoin, Goto
  <2>4. ASSUME NEW u \in Threads \ {t} PROVE Exclusive(t, u)'
    <3>1. Exclusive(t, u) /\ EventDtor(u) /\ QueueDtorOf(u)
      BY DEF IInv, Destruction, Threads
    <3> QED
      BY <3>1, <1>f1, <1>g, <1>u, Disjoint DEF IInv, TypeOK, Threads,
         Exclusive, EventDtor, QueueDtorOf, DestroysEvent, DestroysQueue,
         QueueDtor, QJoin, Goto
  <2> QED
    BY <2>1, <2>2, <2>3, <2>4, DestructionKept, Disjoint DEF Threads
<1>6. Workers'
  <2> SUFFICES ASSUME NEW x \in Queues PROVE WorkerUses(x)'
    BY DEF Workers
  <2>1. WorkerUses(x)
    BY DEF IInv, Workers
  <2> QED
    BY <2>1, Disjoint, <1>f1, <1>g, <1>u, SMTT(20) DEF IInv, TypeOK, Threads,
       WorkerUses, DestroysQueue, QueueDtor, HoldsParent, DestructorPCs, QJoin, Goto
<1>7. Shutdown'
  <2>1. ASSUME NEW x \in Queues PROVE ExitStage(x)'
    <3>1. ExitStage(x) /\ WorkerUses(x)
      BY DEF IInv, Shutdown, Workers
    <3> QED
      BY <3>1, Disjoint, <1>f1, <1>g, <1>u DEF IInv, TypeOK, Threads,
         ExitStage, WorkerUses, QJoin, Goto
  <2>2. ASSUME NEW x \in Threads PROVE DestroyStage(x)'
    <3>1. DestroyStage(x)
      BY DEF IInv, Shutdown
    <3>2. CASE x = t
      <4>1. /\ qu'[t] = qu[t] /\ exit' = exit /\ localExit' = localExit
            /\ pc'[t] \in {"qClose", "qSync"} /\ qu[t] \in Threads
            /\ pc'[t] = "qClose" => t # qu[t] /\ pc[qu[t]] = "done"
            /\ pc'[t] = "qSync" => t = qu[t] \/ pc[qu[t]] = "none"
            /\ t # qu[t] => pc'[qu[t]] = pc[qu[t]]
        BY <1>f1, <1>g, <1>u DEF IInv, TypeOK, QJoin, Goto, Threads
      <4> QED
        BY <3>1, <3>2, <4>1, <1>g DEF DestroyStage
    <3>3. CASE x # t
      <4>1. pc'[x] = pc[x] /\ pc[t] = "qJoin" /\ (qu[x] # t => pc'[qu[x]] = pc[qu[x]])
        BY <3>3 DEF IInv, TypeOK, Threads, QJoin, Goto
      <4> QED
        BY <3>1, <3>3, <4>1, <1>u DEF DestroyStage
    <3> QED
      BY <3>1, <3>2, <3>3, Disjoint, <1>f1, <1>g, <1>u DEF IInv, TypeOK,
         Threads, DestroyStage, QJoin, Goto
  <2> QED
    BY <2>1, <2>2 DEF Shutdown
<1>8. RefExact' /\ LiveHeld'
  BY <1>u, RefFrame
<1>9. QueuedRequests' /\ PendingRequests'
  BY <1>u DEF IInv, QueuedRequests, Listed, PendingRequests, Pending,
     Unprocessed
<1> QED
  BY <1>1, <1>2, <1>3, <1>4, <1>5, <1>6, <1>7, <1>8, <1>9 DEF IInv

(* xrp_queue_destroy, run by the worker itself, ends its loop.             *)
LEMMA QSyncStep ==
  ASSUME IInv, NEW t \in Threads, QSync(t)
  PROVE  IInv'
<1>u. UNCHANGED <<ref, mem, own, cmd, qu, sync, parent, status, req, items, exit, syncExit>>
  BY DEF QSync, Goto, objVars, evVars, thVars, qVars
<1>f1. qu[t] \in Queues /\ mem[qu[t]] = IF pc[t] = "qFree" THEN "shut" ELSE "closing"
  BY DEF IInv, TypeOK, Destruction, QueueDtorOf, DestroysQueue, QueueDtor,
     QSync
<1>g. pc[t] = "qSync" /\ syncExit[qu[t]]
  BY Disjoint, <1>f1 DEF IInv, TypeOK, QSync, Goto
<1>1. TypeOK'
  <2>1. /\ pc' \in [Threads -> ClientPCs \cup WorkerPCs]
        /\ \A x \in Clients : pc'[x] \in ClientPCs
        /\ \A x \in Queues : pc'[x] \in WorkerPCs
    BY <1>f1, <1>g, <1>u, Disjoint DEF IInv, TypeOK, Threads, DestructorPCs,
       ClientPCs, WorkerPCs, QSync, Goto
  <2>2. localExit' \in [Queues -> BOOLEAN]
    BY <1>f1, <1>g, Disjoint DEF IInv, TypeOK, Threads, QSync, Goto
  <2> QED
    BY <1>u, <2>1, <2>2 DEF IInv, TypeOK
<1>2. OwnsWhatItUses'
  <2> SUFFICES ASSUME NEW x \in Clients PROVE UsesOwned(x)'
    BY DEF OwnsWhatItUses
  <2>1. UsesOwned(x)
    BY DEF IInv, OwnsWhatItUses
  <2> QED
    BY <2>1, Disjoint, <1>f1, <1>g, <1>u DEF IInv, TypeOK, Threads, UsesOwned,
       DestructorPCs, QSync, Goto
<1>3. PushedRequests'
  <2> SUFFICES ASSUME NEW x \in Clients PROVE Pushing(x)'
    BY DEF PushedRequests
  <2>1. Pushing(x)
    BY DEF IInv, PushedRequests
  <2> QED
    BY <2>1, Disjoint, <1>f1, <1>g, <1>u DEF IInv, TypeOK, Threads, Pushing,
       DestructorPCs, QSync, Goto
<1>4. RunningRequests'
  <2> SUFFICES ASSUME NEW x \in Queues PROVE Running(x)'
    BY DEF RunningRequests
  <2>1. Running(x)
    BY DEF IInv, RunningRequests
  <2> QED
    BY <2>1, Disjoint, <1>f1, <1>g, <1>u DEF IInv, TypeOK, Threads, Running,
       DestructorPCs, QSync, Goto
<1>5. Destruction'
  <2>1. OthersKeep(t)
    BY <1>f1, <1>g, <1>u, Disjoint DEF IInv, TypeOK, Threads, OthersKeep,
       DestructorPCs, QSync, Goto
  <2>2. \A o \in Objects : mem[o] \in {"closing", "shut"} => mem'[o] = mem[o]
    BY <1>f1, <1>g, <1>u, Disjoint DEF IInv, TypeOK, QSync, Goto
  <2>3. EventDtor(t)' /\ QueueDtorOf(t)'
    BY <1>f1, <1>g, <1>u, Disjoint DEF IInv, TypeOK, Threads, Destruction,
       EventDtor, QueueDtorOf, DestroysEvent, DestroysQueue, QueueDtor, QSync, Goto
  <2>4. ASSUME NEW u \in Threads \ {t} PROVE Exclusive(t, u)'
    <3>1. Exclusive(t, u) /\ EventDtor(u) /\ QueueDtorOf(u)
      BY DEF IInv, Destruction, Threads
    <3> QED
      BY <3>1, <1>f1, <1>g, <1>u, Disjoint DEF IInv, TypeOK, Threads,
         Exclusive, EventDtor, QueueDtorOf, DestroysEvent, DestroysQueue,
         QueueDtor, QSync, Goto
  <2> QED
    BY <2>1, <2>2, <2>3, <2>4, DestructionKept, Disjoint DEF Threads
<1>6. Workers'
  <2> SUFFICES ASSUME NEW x \in Queues PROVE WorkerUses(x)'
    BY DEF Workers
  <2>1. WorkerUses(x)
    BY DEF IInv, Workers
  <2>2. DestroyStage(t) /\ WorkerUses(qu[t])
    BY <1>f1 DEF IInv, Shutdown, Workers
  <2> QED
    BY <2>1, <2>2, Disjoint, <1>f1, <1>g, <1>u DEF IInv, TypeOK, Threads,
       WorkerUses, DestroysQueue, QueueDtor, HoldsParent, DestructorPCs, DestroyStage, QSync, Goto
<1>7. Shutdown'
  <2>1. ASSUME NEW x \in Queues PROVE ExitStage(x)'
    <3>1. ExitStage(x) /\ DestroyStage(t)
      BY DEF IInv, Shutdown
    <3> QED
      BY <3>1, Disjoint, <1>f1, <1>g, <1>u DEF IInv, TypeOK, Threads,
         ExitStage, DestroyStage, QSync, Goto
  <2>2. ASSUME NEW x \in Threads PROVE DestroyStage(x)'
    <3>1. DestroyStage(x)
      BY DEF IInv, Shutdown
    <3>2. pc'[t] = "qClose" /\ qu'[t] = qu[t] /\ localExit'[qu[t]]
      BY <1>f1, <1>u DEF IInv, TypeOK, QSync, Goto
    <3>3. x # t => pc'[x] = pc[x] /\ qu'[x] = qu[x]
      BY <1>u DEF IInv, TypeOK, QSync, Goto
    <3>4. \A y \in Queues : localExit[y] => localExit'[y]
      BY DEF IInv, TypeOK, QSync
    <3>5. qu[x] \in Queues /\ qu[x] \in Threads /\ (pc[qu[x]] \in {"done", "none"} => pc'[qu[x]] = pc[qu[x]])
      BY <1>g DEF IInv, TypeOK, QSync, Goto, Threads
    <3>6. exit[qu[t]] /\ exit' = exit
      BY <1>g, <1>u DEF IInv, Shutdown, DestroyStage
    <3>7. CASE x = t
      BY <3>2, <3>6, <3>7 DEF DestroyStage
    <3>8. CASE x # t
      BY <3>1, <3>3, <3>4, <3>5, <3>6, <3>8 DEF DestroyStage
    <3> QED
      BY <3>7, <3>8
  <2> QED
    BY <2>1, <2>2 DEF Shutdown
<1>8. RefExact' /\ LiveHeld'
  BY <1>u, RefFrame
<1>9. QueuedRequests' /\ PendingRequests'
  BY <1>u DEF IInv, QueuedRequests, Listed, PendingRequests, Pending,
     Unprocessed
<1> QED
  BY <1>1, <1>2, <1>3, <1>4, <1>5, <1>6, <1>7, <1>8, <1>9 DEF IInv

(* The destroyed queue releases the device.                                *)
LEMMA QCloseStep ==
  ASSUME IInv, NEW t \in Threads, QClose(t)
  PROVE  IInv'
<1>u. UNCHANGED <<own, cmd, qu, sync, parent, status, req, items, exit, syncExit, localExit>>
  BY DEF QClose, Goto, Dec, LastRef, objVars, evVars, thVars, qVars
<1>f1. qu[t] \in Queues /\ mem[qu[t]] = IF pc[t] = "qFree" THEN "shut" ELSE "closing"
  BY DEF IInv, TypeOK, Destruction, QueueDtorOf, DestroysQueue, QueueDtor,
     QClose
<1>f2. ref[Device] \in Nat /\ ref[Device] > 0 /\ mem[Device] = "live" /\ qu[t] \in Holders(Device)
  BY <1>f1, QueueKeepsDevice DEF QClose, HoldsParent
<1>g. pc[t] = "qClose"
  BY Disjoint, <1>f1, <1>f2 DEF IInv, TypeOK, QClose, Goto, Dec, LastRef
<1>1. TypeOK'
  <2>1. ref' \in [Objects -> Nat]
    BY <1>f1, <1>f2, <1>g, Disjoint DEF IInv, TypeOK, Threads, QClose, Goto,
       Dec, LastRef
  <2>2. mem' \in [Objects -> MemStates]
    BY <1>f1, <1>f2, <1>g, Disjoint DEF IInv, TypeOK, Threads, MemStates,
       QClose, Goto, Dec, LastRef
  <2>3. /\ pc' \in [Threads -> ClientPCs \cup WorkerPCs]
        /\ \A x \in Clients : pc'[x] \in ClientPCs
        /\ \A x \in Queues : pc'[x] \in WorkerPCs
    BY <1>f1, <1>f2, <1>g, <1>u, Disjoint DEF IInv, TypeOK, Threads,
       DestructorPCs, ClientPCs, WorkerPCs, QClose, Goto, Dec, LastRef
  <2> QED
    BY <1>u, <2>1, <2>2, <2>3 DEF IInv, TypeOK
<1>2. RefExact'
  <2>1. ASSUME NEW x \in Objects
        PROVE  Holders(x)' = IF x = Device THEN Holders(x) \ {qu[t]} ELSE Holders(x)
    <3>1. \A y \in Queues : mem'[y] \in HoldsParent <=> (mem[y] \in HoldsParent /\ y # qu[t])
      BY <1>f1, <1>f2, Disjoint DEF HoldsParent, IInv, TypeOK, QClose
    <3>2. \A y \in Cmds : mem'[y] \in HoldsParent <=> mem[y] \in HoldsParent
      BY <1>f1, <1>f2, Disjoint DEF HoldsParent, IInv, TypeOK, QClose
    <3>3. \A y \in Cmds : RequestOwnsEvent(y)' <=> RequestOwnsEvent(y)
      BY <1>f1, <1>f2, <1>u, Disjoint DEF RequestOwnsEvent, IInv, TypeOK,
         QClose
    <3>4. Owners(x)' = Owners(x) /\ parent' = parent
      BY <1>u DEF Owners
    <3> QED
      BY <1>f1, <1>f2, <3>1, <3>2, <3>3, <3>4, Disjoint DEF Holders, Owners
  <2> QED
    BY <1>f2, <2>1, RemoveHolder, Disjoint DEF QClose, Dec
<1>3. LiveHeld'
  <2> SUFFICES ASSUME NEW x \in Objects PROVE (mem[x] = "live" <=> ref[x] > 0)'
    BY DEF LiveHeld
  <2>1. mem[x] = "live" <=> ref[x] > 0
    BY DEF IInv, LiveHeld
  <2> QED
    BY <2>1, Disjoint, <1>f1, <1>f2, <1>g, <1>u DEF IInv, TypeOK, QClose,
       Goto, Dec, LastRef
<1>4. OwnsWhatItUses'
  <2> SUFFICES ASSUME NEW x \in Clients PROVE UsesOwned(x)'
    BY DEF OwnsWhatItUses
  <2>1. UsesOwned(x)
    BY DEF IInv, OwnsWhatItUses
  <2> QED
    BY <2>1, Disjoint, <1>f1, <1>f2, <1>g, <1>u DEF IInv, TypeOK, Threads,
       UsesOwned, DestructorPCs, QClose, Goto, Dec, LastRef
<1>5. PushedRequests'
  <2> SUFFICES ASSUME NEW x \in Clients PROVE Pushing(x)'
    BY DEF PushedRequests
  <2>1. Pushing(x)
    BY DEF IInv, PushedRequests
  <2> QED
    BY <2>1, Disjoint, <1>f1, <1>f2, <1>g, <1>u DEF IInv, TypeOK, Threads,
       Pushing, DestructorPCs, QClose, Goto, Dec, LastRef
<1>6. RunningRequests'
  <2> SUFFICES ASSUME NEW x \in Queues PROVE Running(x)'
    BY DEF RunningRequests
  <2>1. Running(x)
    BY DEF IInv, RunningRequests
  <2> QED
    BY <2>1, Disjoint, <1>f1, <1>f2, <1>g, <1>u DEF IInv, TypeOK, Threads,
       Running, DestructorPCs, QClose, Goto, Dec, LastRef
<1>7. PendingRequests'
  <2> SUFFICES ASSUME NEW x \in Cmds PROVE Pending(x)'
    BY DEF PendingRequests
  <2>1. Pending(x)
    BY DEF IInv, PendingRequests
  <2> QED
    BY <2>1, Disjoint, <1>f1, <1>f2, <1>g, <1>u DEF IInv, TypeOK, Threads,
       Pending, Unprocessed, QClose, Goto, Dec, LastRef
<1>8. Destruction'
  <2>1. OthersKeep(t)
    BY <1>f1, <1>f2, <1>g, <1>u, Disjoint DEF IInv, TypeOK, Threads,
       OthersKeep, DestructorPCs, QClose, Goto, Dec, LastRef
  <2>5. \A o \in Objects : mem[o] \in {"closing", "shut"} /\ o # qu[t] => mem'[o] = mem[o]
    BY <1>f1, <1>f2, Disjoint DEF IInv, TypeOK, QClose, LastRef
  <2>6. ASSUME NEW x \in Threads \ {t}
        PROVE  (DestroysEvent(x) => cmd[x] # qu[t]) /\ (DestroysQueue(x) => qu[x] # qu[t])
    <3>1. Exclusive(t, x) /\ EventDtor(x) /\ QueueDtorOf(x) /\ qu[x] \in Queues
      BY DEF IInv, Destruction, TypeOK
    <3> QED
      BY <3>1, <1>f1, <1>g, Disjoint DEF Exclusive, EventDtor, DestroysEvent,
         DestroysQueue, QueueDtor
  <2>2. \A o \in Objects : mem[o] \in {"closing", "shut"} =>
          \/ mem'[o] = mem[o]
          \/ \A x \in Threads \ {t} : (DestroysEvent(x) => cmd[x] # o) /\ (DestroysQueue(x) => qu[x] # o)
    BY <2>5, <2>6
  <2>3. EventDtor(t)' /\ QueueDtorOf(t)'
    BY <1>f1, <1>f2, <1>g, <1>u, Disjoint DEF IInv, TypeOK, Threads,
       Destruction, EventDtor, QueueDtorOf, DestroysEvent, DestroysQueue, QueueDtor, QClose, Goto, Dec, LastRef
  <2>4. ASSUME NEW u \in Threads \ {t} PROVE Exclusive(t, u)'
    <3>1. Exclusive(t, u) /\ EventDtor(u) /\ QueueDtorOf(u)
      BY DEF IInv, Destruction, Threads
    <3> QED
      BY <3>1, <1>f1, <1>f2, <1>g, <1>u, Disjoint DEF IInv, TypeOK, Threads,
         Exclusive, EventDtor, QueueDtorOf, DestroysEvent, DestroysQueue,
         QueueDtor, QClose, Goto, Dec, LastRef
  <2> QED
    BY <2>1, <2>2, <2>3, <2>4, DestructionKept, Disjoint DEF Threads
<1>9. Workers'
  <2> SUFFICES ASSUME NEW x \in Queues PROVE WorkerUses(x)'
    BY DEF Workers
  <2>1. WorkerUses(x)
    BY DEF IInv, Workers
  <2>2. DestroyStage(t)
    BY DEF IInv, Shutdown
  <2> QED
    BY <2>1, <2>2, Disjoint, <1>f1, <1>f2, <1>g, <1>u DEF IInv, TypeOK,
       Threads, WorkerUses, DestroysQueue, QueueDtor, HoldsParent, DestructorPCs, DestroyStage, QClose, Goto, Dec, LastRef
<1>10. Shutdown'
  <2>1. ASSUME NEW x \in Queues PROVE ExitStage(x)'
    <3>1. ExitStage(x) /\ WorkerUses(x)
      BY DEF IInv, Shutdown, Workers
    <3> QED
      BY <3>1, Disjoint, <1>f1, <1>f2, <1>g, <1>u DEF IInv, TypeOK, Threads,
         ExitStage, WorkerUses, QClose, Goto, Dec, LastRef
  <2>2. ASSUME NEW x \in Threads PROVE DestroyStage(x)'
    <3>1. DestroyStage(x)
      BY DEF IInv, Shutdown
    <3> QED
      BY <3>1, Disjoint, <1>f1, <1>f2, <1>g, <1>u DEF IInv, TypeOK, Threads,
         DestroyStage, QClose, Goto, Dec, LastRef
  <2> QED
    BY <2>1, <2>2 DEF Shutdown
<1>11. QueuedRequests'
  BY <1>u DEF IInv, QueuedRequests, Listed
<1> QED
  BY <1>1, <1>2, <1>3, <1>4, <1>5, <1>6, <1>7, <1>8, <1>9, <1>10,
     <1>11 DEF IInv

(* The queue is freed: nobody else was destroying it.                      *)
LEMMA QFreeStep ==
  ASSUME IInv, NEW t \in Threads, QFree(t)
  PROVE  IInv'
<1>u. UNCHANGED <<ref, own, cmd, qu, sync, parent, status, req, items, exit, syncExit, localExit>>
  BY DEF QFree, Goto, Return, objVars, evVars, thVars, qVars
<1>f1. qu[t] \in Queues /\ mem[qu[t]] = IF pc[t] = "qFree" THEN "shut" ELSE "closing"
  BY DEF IInv, TypeOK, Destruction, QueueDtorOf, DestroysQueue, QueueDtor,
     QFree
<1>g. pc[t] = "qFree"
  BY Disjoint, <1>f1 DEF IInv, TypeOK, QFree, Goto, Return
<1>1. TypeOK'
  <2>1. mem' \in [Objects -> MemStates]
    BY <1>f1, <1>g, Disjoint DEF IInv, TypeOK, Threads, MemStates, QFree,
       Goto, Return
  <2>2. /\ pc' \in [Threads -> ClientPCs \cup WorkerPCs]
        /\ \A x \in Clients : pc'[x] \in ClientPCs
        /\ \A x \in Queues : pc'[x] \in WorkerPCs
    <3> DEFINE l == IF cmd[t] # NoCmd THEN "evFree" ELSE Return(t)
    <3>1. pc' = [pc EXCEPT ![t] = l]
      BY DEF QFree, Goto
    <3>2. (t \in Clients => l \in ClientPCs) /\ (t \in Queues => l \in WorkerPCs)
      BY Disjoint DEF Return, ClientPCs, WorkerPCs, DestructorPCs
    <3> HIDE DEF l
    <3> QED
      BY <3>1, <3>2, TypedPC DEF IInv
  <2> QED
    BY <1>u, <2>1, <2>2 DEF IInv, TypeOK
<1>2. RefExact'
  <2>1. \A x \in Objects : mem'[x] \in HoldsParent <=> mem[x] \in HoldsParent
    BY <1>f1, <1>g, <1>u, Disjoint DEF IInv, TypeOK, HoldsParent, QFree, Goto,
       Return
  <2>2. \A x \in Cmds : RequestOwnsEvent(x)' <=> RequestOwnsEvent(x)
    BY <1>f1, <1>g, <1>u, Disjoint DEF IInv, TypeOK, RequestOwnsEvent, QFree,
       Goto, Return
  <2> QED
    BY <2>1, <2>2, <1>u, HoldersFrame
<1>3. LiveHeld'
  <2> SUFFICES ASSUME NEW x \in Objects PROVE (mem[x] = "live" <=> ref[x] > 0)'
    BY DEF LiveHeld
  <2>1. mem[x] = "live" <=> ref[x] > 0
    BY DEF IInv, LiveHeld
  <2> QED
    BY <2>1, Disjoint, <1>f1, <1>g, <1>u DEF IInv, TypeOK, QFree, Goto, Return
<1>4. OwnsWhatItUses'
  <2> SUFFICES ASSUME NEW x \in Clients PROVE UsesOwned(x)'
    BY DEF OwnsWhatItUses
  <2>1. UsesOwned(x)
    BY DEF IInv, OwnsWhatItUses
  <2> QED
    BY <2>1, Disjoint, <1>f1, <1>g, <1>u DEF IInv, TypeOK, Threads, UsesOwned,
       DestructorPCs, QFree, Goto, Return
<1>5. PushedRequests'
  <2> SUFFICES ASSUME NEW x \in Clients PROVE Pushing(x)'
    BY DEF PushedRequests
  <2>1. Pushing(x)
    BY DEF IInv, PushedRequests
  <2> QED
    BY <2>1, Disjoint, <1>f1, <1>g, <1>u DEF IInv, TypeOK, Threads, Pushing,
       DestructorPCs, QFree, Goto, Return
<1>6. RunningRequests'
  <2> SUFFICES ASSUME NEW x \in Queues PROVE Running(x)'
    BY DEF RunningRequests
  <2>1. Running(x)
    BY DEF IInv, RunningRequests
  <2> QED
    BY <2>1, Disjoint, <1>f1, <1>g, <1>u DEF IInv, TypeOK, Threads, Running,
       DestructorPCs, QFree, Goto, Return
<1>7. PendingRequests'
  <2> SUFFICES ASSUME NEW x \in Cmds PROVE Pending(x)'
    BY DEF PendingRequests
  <2>1. Pending(x)
    BY DEF IInv, PendingRequests
  <2> QED
    BY <2>1, Disjoint, <1>f1, <1>g, <1>u DEF IInv, TypeOK, Threads, Pending,
       Unprocessed, QFree, Goto, Return
<1>8. Destruction'
  <2>1. OthersKeep(t)
    BY <1>f1, <1>g, <1>u, Disjoint DEF IInv, TypeOK, Threads, OthersKeep,
       DestructorPCs, QFree, Goto, Return
  <2>5. \A o \in Objects : mem[o] \in {"closing", "shut"} /\ o # qu[t] => mem'[o] = mem[o]
    BY <1>f1, Disjoint DEF IInv, TypeOK, QFree
  <2>6. ASSUME NEW x \in Threads \ {t}
        PROVE  (DestroysEvent(x) => cmd[x] # qu[t]) /\ (DestroysQueue(x) => qu[x] # qu[t])
    <3>1. Exclusive(t, x) /\ EventDtor(x) /\ QueueDtorOf(x) /\ qu[x] \in Queues
      BY DEF IInv, Destruction, TypeOK
    <3> QED
      BY <3>1, <1>f1, <1>g, Disjoint DEF Exclusive, EventDtor, DestroysEvent,
         DestroysQueue, QueueDtor
  <2>2. \A o \in Objects : mem[o] \in {"closing", "shut"} =>
          \/ mem'[o] = mem[o]
          \/ \A x \in Threads \ {t} : (DestroysEvent(x) => cmd[x] # o) /\ (DestroysQueue(x) => qu[x] # o)
    BY <2>5, <2>6
  <2>3. EventDtor(t)' /\ QueueDtorOf(t)'
    BY <1>f1, <1>g, <1>u, Disjoint DEF IInv, TypeOK, Threads, Destruction,
       EventDtor, QueueDtorOf, DestroysEvent, DestroysQueue, QueueDtor, QFree, Goto, Return
  <2>4. ASSUME NEW u \in Threads \ {t} PROVE Exclusive(t, u)'
    <3>1. Exclusive(t, u) /\ EventDtor(u) /\ QueueDtorOf(u)
      BY DEF IInv, Destruction, Threads
    <3> QED
      BY <3>1, <1>f1, <1>g, <1>u, Disjoint DEF IInv, TypeOK, Threads,
         Exclusive, EventDtor, QueueDtorOf, DestroysEvent, DestroysQueue,
         QueueDtor, QFree, Goto, Return
  <2> QED
    BY <2>1, <2>2, <2>3, <2>4, DestructionKept, Disjoint DEF Threads
<1>9. Workers'
  <2> SUFFICES ASSUME NEW x \in Queues PROVE WorkerUses(x)'
    BY DEF Workers
  <2>1. WorkerUses(x)
    BY DEF IInv, Workers
  <2> QED
    BY <2>1, Disjoint, <1>f1, <1>g, <1>u, ZenonT(40) DEF IInv, TypeOK, Threads,
       WorkerUses, DestroysQueue, QueueDtor, HoldsParent, DestructorPCs, QFree, Goto, Return
<1>10. Shutdown'
  <2>1. ASSUME NEW x \in Queues PROVE ExitStage(x)'
    <3>1. ExitStage(x) /\ WorkerUses(x)
      BY DEF IInv, Shutdown, Workers
    <3> QED
      BY <3>1, Disjoint, <1>f1, <1>g, <1>u DEF IInv, TypeOK, Threads,
         ExitStage, WorkerUses, QFree, Goto, Return
  <2>2. ASSUME NEW x \in Threads PROVE DestroyStage(x)'
    <3>1. DestroyStage(x)
      BY DEF IInv, Shutdown
    <3> QED
      BY <3>1, Disjoint, <1>f1, <1>g, <1>u DEF IInv, TypeOK, Threads,
         DestroyStage, QFree, Goto, Return
  <2> QED
    BY <2>1, <2>2 DEF Shutdown
<1>11. QueuedRequests'
  BY <1>u DEF IInv, QueuedRequests, Listed
<1> QED
  BY <1>1, <1>2, <1>3, <1>4, <1>5, <1>6, <1>7, <1>8, <1>9, <1>10,
     <1>11 DEF IInv

(* The event is freed: nobody else was destroying it.                      *)
LEMMA EvFreeStep ==
  ASSUME IInv, NEW t \in Threads, EvFree(t)
  PROVE  IInv'
<1>u. UNCHANGED <<ref, own, cmd, qu, sync, parent, status, req, items, exit, syncExit, localExit>>
  BY DEF EvFree, Goto, Return, objVars, evVars, thVars, qVars
<1>f1. cmd[t] \in Cmds /\ mem[cmd[t]] = "shut"
  BY DEF IInv, Destruction, EventDtor, DestroysEvent, EvFree
<1>g. pc[t] = "evFree"
  BY Disjoint, <1>f1 DEF IInv, TypeOK, EvFree, Goto, Return
<1>1. TypeOK'
  <2>1. mem' \in [Objects -> MemStates]
    BY <1>f1, <1>g, Disjoint DEF IInv, TypeOK, Threads, MemStates, EvFree,
       Goto, Return
  <2>2. /\ pc' \in [Threads -> ClientPCs \cup WorkerPCs]
        /\ \A x \in Clients : pc'[x] \in ClientPCs
        /\ \A x \in Queues : pc'[x] \in WorkerPCs
    <3> DEFINE l == Return(t)
    <3>1. pc' = [pc EXCEPT ![t] = l]
      BY DEF EvFree, Goto
    <3>2. (t \in Clients => l \in ClientPCs) /\ (t \in Queues => l \in WorkerPCs)
      BY Disjoint DEF Return, ClientPCs, WorkerPCs, DestructorPCs
    <3> HIDE DEF l
    <3> QED
      BY <3>1, <3>2, TypedPC DEF IInv
  <2> QED
    BY <1>u, <2>1, <2>2 DEF IInv, TypeOK
<1>2. RefExact'
  <2>1. \A x \in Objects : mem'[x] \in HoldsParent <=> mem[x] \in HoldsParent
    BY <1>f1, <1>g, <1>u, Disjoint DEF IInv, TypeOK, HoldsParent, EvFree,
       Goto, Return
  <2>2. \A x \in Cmds : RequestOwnsEvent(x)' <=> RequestOwnsEvent(x)
    BY <1>f1, <1>g, <1>u, Disjoint DEF IInv, TypeOK, RequestOwnsEvent, EvFree,
       Goto, Return
  <2> QED
    BY <2>1, <2>2, <1>u, HoldersFrame
<1>3. LiveHeld'
  <2> SUFFICES ASSUME NEW x \in Objects PROVE (mem[x] = "live" <=> ref[x] > 0)'
    BY DEF LiveHeld
  <2>1. mem[x] = "live" <=> ref[x] > 0
    BY DEF IInv, LiveHeld
  <2> QED
    BY <2>1, Disjoint, <1>f1, <1>g, <1>u DEF IInv, TypeOK, EvFree, Goto, Return
<1>4. OwnsWhatItUses'
  <2> SUFFICES ASSUME NEW x \in Clients PROVE UsesOwned(x)'
    BY DEF OwnsWhatItUses
  <2>1. UsesOwned(x)
    BY DEF IInv, OwnsWhatItUses
  <2> QED
    BY <2>1, Disjoint, <1>f1, <1>g, <1>u DEF IInv, TypeOK, Threads, UsesOwned,
       DestructorPCs, EvFree, Goto, Return
<1>5. PushedRequests'
  <2> SUFFICES ASSUME NEW x \in Clients PROVE Pushing(x)'
    BY DEF PushedRequests
  <2>1. Pushing(x)
    BY DEF IInv, PushedRequests
  <2> QED
    BY <2>1, Disjoint, <1>f1, <1>g, <1>u DEF IInv, TypeOK, Threads, Pushing,
       DestructorPCs, EvFree, Goto, Return
<1>6. RunningRequests'
  <2> SUFFICES ASSUME NEW x \in Queues PROVE Running(x)'
    BY DEF RunningRequests
  <2>1. Running(x)
    BY DEF IInv, RunningRequests
  <2> QED
    BY <2>1, Disjoint, <1>f1, <1>g, <1>u DEF IInv, TypeOK, Threads, Running,
       DestructorPCs, EvFree, Goto, Return
<1>7. PendingRequests'
  <2> SUFFICES ASSUME NEW x \in Cmds PROVE Pending(x)'
    BY DEF PendingRequests
  <2>1. Pending(x)
    BY DEF IInv, PendingRequests
  <2> QED
    BY <2>1, Disjoint, <1>f1, <1>g, <1>u DEF IInv, TypeOK, Threads, Pending,
       Unprocessed, EvFree, Goto, Return
<1>8. Destruction'
  <2>1. OthersKeep(t)
    BY <1>f1, <1>g, <1>u, Disjoint DEF IInv, TypeOK, Threads, OthersKeep,
       DestructorPCs, EvFree, Goto, Return
  <2>5. \A o \in Objects : mem[o] \in {"closing", "shut"} /\ o # cmd[t] => mem'[o] = mem[o]
    BY <1>f1, Disjoint DEF IInv, TypeOK, EvFree
  <2>6. ASSUME NEW x \in Threads \ {t}
        PROVE  (DestroysEvent(x) => cmd[x] # cmd[t]) /\ (DestroysQueue(x) => qu[x] # cmd[t])
    <3>1. Exclusive(t, x) /\ EventDtor(x) /\ QueueDtorOf(x) /\ qu[x] \in Queues
      BY DEF IInv, Destruction, TypeOK
    <3> QED
      BY <3>1, <1>f1, <1>g, Disjoint DEF Exclusive, EventDtor, DestroysEvent,
         DestroysQueue, QueueDtor
  <2>2. \A o \in Objects : mem[o] \in {"closing", "shut"} =>
          \/ mem'[o] = mem[o]
          \/ \A x \in Threads \ {t} : (DestroysEvent(x) => cmd[x] # o) /\ (DestroysQueue(x) => qu[x] # o)
    BY <2>5, <2>6
  <2>3. EventDtor(t)' /\ QueueDtorOf(t)'
    BY <1>f1, <1>g, <1>u, Disjoint DEF IInv, TypeOK, Threads, Destruction,
       EventDtor, QueueDtorOf, DestroysEvent, DestroysQueue, QueueDtor, EvFree, Goto, Return
  <2>4. ASSUME NEW u \in Threads \ {t} PROVE Exclusive(t, u)'
    <3>1. Exclusive(t, u) /\ EventDtor(u) /\ QueueDtorOf(u)
      BY DEF IInv, Destruction, Threads
    <3> QED
      BY <3>1, <1>f1, <1>g, <1>u, Disjoint DEF IInv, TypeOK, Threads,
         Exclusive, EventDtor, QueueDtorOf, DestroysEvent, DestroysQueue,
         QueueDtor, EvFree, Goto, Return
  <2> QED
    BY <2>1, <2>2, <2>3, <2>4, DestructionKept, Disjoint DEF Threads
<1>9. Workers'
  <2> SUFFICES ASSUME NEW x \in Queues PROVE WorkerUses(x)'
    BY DEF Workers
  <2>1. WorkerUses(x)
    BY DEF IInv, Workers
  <2> QED
    BY <2>1, Disjoint, <1>f1, <1>g, <1>u, ZenonT(40) DEF IInv, TypeOK, Threads,
       WorkerUses, DestroysQueue, QueueDtor, HoldsParent, DestructorPCs, EvFree, Goto, Return
<1>10. Shutdown'
  <2>1. ASSUME NEW x \in Queues PROVE ExitStage(x)'
    <3>1. ExitStage(x) /\ WorkerUses(x)
      BY DEF IInv, Shutdown, Workers
    <3> QED
      BY <3>1, Disjoint, <1>f1, <1>g, <1>u DEF IInv, TypeOK, Threads,
         ExitStage, WorkerUses, EvFree, Goto, Return
  <2>2. ASSUME NEW x \in Threads PROVE DestroyStage(x)'
    <3>1. DestroyStage(x)
      BY DEF IInv, Shutdown
    <3> QED
      BY <3>1, Disjoint, <1>f1, <1>g, <1>u DEF IInv, TypeOK, Threads,
         DestroyStage, EvFree, Goto, Return
  <2> QED
    BY <2>1, <2>2 DEF Shutdown
<1>11. QueuedRequests'
  BY <1>u DEF IInv, QueuedRequests, Listed
<1> QED
  BY <1>1, <1>2, <1>3, <1>4, <1>5, <1>6, <1>7, <1>8, <1>9, <1>10,
     <1>11 DEF IInv

(* The worker starts another xrp_queue_process, or returns.                *)
LEMMA WorkerLoopStep ==
  ASSUME IInv, NEW q \in Queues, WorkerLoop(q)
  PROVE  IInv'
<1>u. UNCHANGED <<ref, mem, own, cmd, qu, sync, parent, status, req, items, exit, localExit>>
  BY DEF WorkerLoop, Goto, objVars, evVars, thVars, qVars
<1>g. pc[q] = "loop"
  BY Disjoint DEF IInv, TypeOK, WorkerLoop, Goto
<1>1. TypeOK'
  <2>1. /\ pc' \in [Threads -> ClientPCs \cup WorkerPCs]
        /\ \A x \in Clients : pc'[x] \in ClientPCs
        /\ \A x \in Queues : pc'[x] \in WorkerPCs
    BY <1>g, <1>u, Disjoint DEF IInv, TypeOK, Threads, DestructorPCs,
       ClientPCs, WorkerPCs, WorkerLoop, Goto
  <2>2. syncExit' \in [Queues -> BOOLEAN]
    BY <1>g, Disjoint DEF IInv, TypeOK, Threads, WorkerLoop, Goto
  <2> QED
    BY <1>u, <2>1, <2>2 DEF IInv, TypeOK
<1>2. OwnsWhatItUses'
  <2> SUFFICES ASSUME NEW x \in Clients PROVE UsesOwned(x)'
    BY DEF OwnsWhatItUses
  <2>1. UsesOwned(x)
    BY DEF IInv, OwnsWhatItUses
  <2> QED
    BY <2>1, Disjoint, <1>g, <1>u DEF IInv, TypeOK, Threads, UsesOwned,
       DestructorPCs, WorkerLoop, Goto
<1>3. PushedRequests'
  <2> SUFFICES ASSUME NEW x \in Clients PROVE Pushing(x)'
    BY DEF PushedRequests
  <2>1. Pushing(x)
    BY DEF IInv, PushedRequests
  <2> QED
    BY <2>1, Disjoint, <1>g, <1>u DEF IInv, TypeOK, Threads, Pushing,
       DestructorPCs, WorkerLoop, Goto
<1>4. RunningRequests'
  <2> SUFFICES ASSUME NEW x \in Queues PROVE Running(x)'
    BY DEF RunningRequests
  <2>1. Running(x)
    BY DEF IInv, RunningRequests
  <2> QED
    BY <2>1, Disjoint, <1>g, <1>u DEF IInv, TypeOK, Threads, Running,
       DestructorPCs, WorkerLoop, Goto
<1>5. Destruction'
  <2>1. OthersKeep(q)
    BY <1>g, <1>u, Disjoint DEF IInv, TypeOK, Threads, OthersKeep,
       DestructorPCs, WorkerLoop, Goto
  <2>2. \A o \in Objects : mem[o] \in {"closing", "shut"} => mem'[o] = mem[o]
    BY <1>g, <1>u, Disjoint DEF IInv, TypeOK, WorkerLoop, Goto
  <2>3. EventDtor(q)' /\ QueueDtorOf(q)'
    BY <1>g, <1>u, Disjoint DEF IInv, TypeOK, Threads, Destruction, EventDtor,
       QueueDtorOf, DestroysEvent, DestroysQueue, QueueDtor, WorkerLoop, Goto
  <2>4. ASSUME NEW u \in Threads \ {q} PROVE Exclusive(q, u)'
    <3>1. Exclusive(q, u) /\ EventDtor(u) /\ QueueDtorOf(u)
      BY DEF IInv, Destruction, Threads
    <3> QED
      BY <3>1, <1>g, <1>u, Disjoint DEF IInv, TypeOK, Threads, Exclusive,
         EventDtor, QueueDtorOf, DestroysEvent, DestroysQueue, QueueDtor,
         WorkerLoop, Goto
  <2> QED
    BY <2>1, <2>2, <2>3, <2>4, DestructionKept, Disjoint DEF Threads
<1>6. Workers'
  <2> SUFFICES ASSUME NEW x \in Queues PROVE WorkerUses(x)'
    BY DEF Workers
  <2>1. WorkerUses(x)
    BY DEF IInv, Workers
  <2>2. x = q => syncExit'[q]
    BY <2>1, <1>g DEF IInv, TypeOK, WorkerLoop, WorkerUses
  <2>3. x # q => pc'[x] = pc[x] /\ syncExit'[x] = syncExit[x]
    BY DEF IInv, TypeOK, WorkerLoop, Goto
  <2>4. pc'[q] = IF localExit[q] THEN "done" ELSE "check"
    BY DEF IInv, TypeOK, WorkerLoop, Goto, Threads
  <2> QED
    BY <2>1, <2>2, <2>3, <2>4, Disjoint, <1>g, <1>u, SMTT(20) DEF IInv, TypeOK, Threads,
       WorkerUses, DestroysQueue, QueueDtor, HoldsParent, DestructorPCs, WorkerLoop, Goto
<1>7. Shutdown'
  <2>1. ASSUME NEW x \in Queues PROVE ExitStage(x)'
    <3>1. ExitStage(x) /\ WorkerUses(x)
      BY DEF IInv, Shutdown, Workers
    <3> QED
      BY <3>1, Disjoint, <1>g, <1>u DEF IInv, TypeOK, Threads, ExitStage,
         WorkerUses, WorkerLoop, Goto
  <2>2. ASSUME NEW x \in Threads PROVE DestroyStage(x)'
    <3>1. DestroyStage(x)
      BY DEF IInv, Shutdown
    <3> QED
      BY <3>1, Disjoint, <1>g, <1>u DEF IInv, TypeOK, Threads, DestroyStage,
         WorkerLoop, Goto
  <2> QED
    BY <2>1, <2>2 DEF Shutdown
<1>8. RefExact' /\ LiveHeld'
  BY <1>u, RefFrame
<1>9. QueuedRequests' /\ PendingRequests'
  BY <1>u DEF IInv, QueuedRequests, Listed, PendingRequests, Pending,
     Unprocessed
<1> QED
  BY <1>1, <1>2, <1>3, <1>4, <1>5, <1>6, <1>7, <1>8, <1>9 DEF IInv

(* The request moves from the list to the worker.                          *)
LEMMA WorkerDequeueStep ==
  ASSUME IInv, NEW q \in Queues, WorkerDequeue(q)
  PROVE  IInv'
<1>u. UNCHANGED <<ref, mem, own, qu, sync, parent, status, exit, syncExit, localExit>>
  BY DEF WorkerDequeue, Goto, objVars, evVars, thVars, qVars
<1>f1. /\ items[q] \in Seq(Cmds) /\ items[q] # <<>>
       /\ Head(items[q]) = items[q][1] /\ Head(items[q]) \in Cmds
       /\ Tail(items[q]) \in Seq(Cmds) /\ Len(Tail(items[q])) = Len(items[q]) - 1
       /\ \A i \in 1 .. Len(Tail(items[q])) : Tail(items[q])[i] = items[q][i + 1]
  BY DEF IInv, TypeOK, WorkerDequeue
<1>f2. req[Head(items[q])] = "queued" /\ parent[Head(items[q])] = q
  BY <1>f1 DEF IInv, QueuedRequests, Listed
<1>g. pc[q] = "check"
  BY Disjoint, <1>f1, <1>f2 DEF IInv, TypeOK, WorkerDequeue, Goto
<1>1. TypeOK'
  <2>1. /\ pc' \in [Threads -> ClientPCs \cup WorkerPCs]
        /\ \A x \in Clients : pc'[x] \in ClientPCs
        /\ \A x \in Queues : pc'[x] \in WorkerPCs
    BY <1>f1, <1>f2, <1>g, <1>u, Disjoint DEF IInv, TypeOK, Threads,
       DestructorPCs, ClientPCs, WorkerPCs, WorkerDequeue, Goto
  <2>2. cmd' \in [Threads -> Cmds \cup {NoCmd}]
    BY <1>f1, <1>f2, <1>g, Disjoint DEF IInv, TypeOK, Threads, WorkerDequeue,
       Goto
  <2>3. req' \in [Cmds -> {"none", "made", "queued", "running", "freed"}]
    BY <1>f1, <1>f2, <1>g, Disjoint DEF IInv, TypeOK, Threads, WorkerDequeue,
       Goto
  <2>4. items' \in [Queues -> Seq(Cmds)]
    BY <1>f1, <1>f2, <1>g, Disjoint DEF IInv, TypeOK, Threads, WorkerDequeue,
       Goto
  <2> QED
    BY <1>u, <2>1, <2>2, <2>3, <2>4 DEF IInv, TypeOK
<1>2. RefExact'
  <2>1. \A x \in Objects : mem'[x] \in HoldsParent <=> mem[x] \in HoldsParent
    BY <1>f1, <1>f2, <1>g, <1>u, Disjoint DEF IInv, TypeOK, HoldsParent,
       WorkerDequeue, Goto
  <2>2. \A x \in Cmds : RequestOwnsEvent(x)' <=> RequestOwnsEvent(x)
    BY <1>f1, <1>f2, <1>g, <1>u, Disjoint DEF IInv, TypeOK, RequestOwnsEvent,
       WorkerDequeue, Goto
  <2> QED
    BY <2>1, <2>2, <1>u, HoldersFrame
<1>3. OwnsWhatItUses'
  <2> SUFFICES ASSUME NEW x \in Clients PROVE UsesOwned(x)'
    BY DEF OwnsWhatItUses
  <2>1. UsesOwned(x)
    BY DEF IInv, OwnsWhatItUses
  <2> QED
    BY <2>1, Disjoint, <1>f1, <1>f2, <1>g, <1>u DEF IInv, TypeOK, Threads,
       UsesOwned, DestructorPCs, WorkerDequeue, Goto
<1>4. PushedRequests'
  <2> SUFFICES ASSUME NEW x \in Clients PROVE Pushing(x)'
    BY DEF PushedRequests
  <2>1. Pushing(x)
    BY DEF IInv, PushedRequests
  <2> QED
    BY <2>1, Disjoint, <1>f1, <1>f2, <1>g, <1>u DEF IInv, TypeOK, Threads,
       Pushing, DestructorPCs, WorkerDequeue, Goto
<1>5. QueuedRequests'
  <2> SUFFICES ASSUME NEW x \in Queues PROVE Listed(x)'
    BY DEF QueuedRequests
  <2>1. Listed(x)
    BY DEF IInv, QueuedRequests
  <2>2. CASE x = q
    <3>1. items'[x] = Tail(items[q]) /\ parent' = parent
      BY <2>2, <1>u DEF IInv, TypeOK, WorkerDequeue
    <3>2. \A i \in 1 .. Len(items'[x]) :
            /\ i + 1 \in 1 .. Len(items[q]) /\ items'[x][i] = items[q][i + 1]
            /\ items[q][i + 1] # items[q][1] /\ items[q][i + 1] \in Cmds
      BY <1>f1, <2>1, <2>2, <3>1 DEF Listed
    <3>3. \A i \in 1 .. Len(items'[x]) : req'[items[q][i + 1]] = req[items[q][i + 1]]
      BY <3>2, <1>f1 DEF IInv, TypeOK, WorkerDequeue
    <3>4. \A i, j \in 1 .. Len(items'[x]) : i # j => i + 1 # j + 1
      BY <3>1, <1>f1
    <3> QED
      BY <2>1, <2>2, <3>1, <3>2, <3>3, <3>4 DEF Listed
  <2>3. CASE x # q
    <3>1. items'[x] = items[x] /\ parent' = parent
      BY <2>3, <1>u DEF IInv, TypeOK, WorkerDequeue
    <3>2. \A i \in 1 .. Len(items[x]) : items[x][i] \in Cmds /\ items[x][i] # items[q][1]
      BY <1>f1, <1>f2, <2>1, <2>3 DEF Listed, IInv, TypeOK
    <3>3. \A i \in 1 .. Len(items[x]) : req'[items[x][i]] = req[items[x][i]]
      BY <3>2, <1>f1 DEF IInv, TypeOK, WorkerDequeue
    <3> QED
      BY <2>1, <3>1, <3>3 DEF Listed
  <2> QED
    BY <2>2, <2>3
<1>6. RunningRequests'
  <2> SUFFICES ASSUME NEW x \in Queues PROVE Running(x)'
    BY DEF RunningRequests
  <2>1. Running(x)
    BY DEF IInv, RunningRequests
  <2> QED
    BY <2>1, Disjoint, <1>f1, <1>f2, <1>g, <1>u DEF IInv, TypeOK, Threads,
       Running, DestructorPCs, WorkerDequeue, Goto
<1>7. PendingRequests'
  <2> SUFFICES ASSUME NEW x \in Cmds PROVE Pending(x)'
    BY DEF PendingRequests
  <2>1. Pending(x)
    BY DEF IInv, PendingRequests
  <2> QED
    BY <2>1, Disjoint, <1>f1, <1>f2, <1>g, <1>u DEF IInv, TypeOK, Threads,
       Pending, Unprocessed, WorkerDequeue, Goto
<1>8. Destruction'
  <2>1. OthersKeep(q)
    BY <1>f1, <1>f2, <1>g, <1>u, Disjoint DEF IInv, TypeOK, Threads,
       OthersKeep, DestructorPCs, WorkerDequeue, Goto
  <2>2. \A o \in Objects : mem[o] \in {"closing", "shut"} => mem'[o] = mem[o]
    BY <1>f1, <1>f2, <1>g, <1>u, Disjoint DEF IInv, TypeOK, WorkerDequeue, Goto
  <2>3. EventDtor(q)' /\ QueueDtorOf(q)'
    BY <1>f1, <1>f2, <1>g, <1>u, Disjoint DEF IInv, TypeOK, Threads,
       Destruction, EventDtor, QueueDtorOf, DestroysEvent, DestroysQueue, QueueDtor, WorkerDequeue, Goto
  <2>4. ASSUME NEW u \in Threads \ {q} PROVE Exclusive(q, u)'
    <3>1. Exclusive(q, u) /\ EventDtor(u) /\ QueueDtorOf(u)
      BY DEF IInv, Destruction, Threads
    <3> QED
      BY <3>1, <1>f1, <1>f2, <1>g, <1>u, Disjoint DEF IInv, TypeOK, Threads,
         Exclusive, EventDtor, QueueDtorOf, DestroysEvent, DestroysQueue,
         QueueDtor, WorkerDequeue, Goto
  <2> QED
    BY <2>1, <2>2, <2>3, <2>4, DestructionKept, Disjoint DEF Threads
<1>9. Workers'
  <2> SUFFICES ASSUME NEW x \in Queues PROVE WorkerUses(x)'
    BY DEF Workers
  <2>1. WorkerUses(x)
    BY DEF IInv, Workers
  <2> QED
    BY <2>1, Disjoint, <1>f1, <1>f2, <1>g, <1>u, ZenonT(40) DEF IInv, TypeOK, Threads,
       WorkerUses, DestroysQueue, QueueDtor, HoldsParent, DestructorPCs, WorkerDequeue, Goto
<1>10. Shutdown'
  <2>1. ASSUME NEW x \in Queues PROVE ExitStage(x)'
    <3>1. ExitStage(x) /\ WorkerUses(x)
      BY DEF IInv, Shutdown, Workers
    <3> QED
      BY <3>1, Disjoint, <1>f1, <1>f2, <1>g, <1>u DEF IInv, TypeOK, Threads,
         ExitStage, WorkerUses, WorkerDequeue, Goto
  <2>2. ASSUME NEW x \in Threads PROVE DestroyStage(x)'
    <3>1. DestroyStage(x)
      BY DEF IInv, Shutdown
    <3> QED
      BY <3>1, Disjoint, <1>f1, <1>f2, <1>g, <1>u DEF IInv, TypeOK, Threads,
         DestroyStage, WorkerDequeue, Goto
  <2> QED
    BY <2>1, <2>2 DEF Shutdown
<1>11. LiveHeld'
  BY <1>u DEF IInv, LiveHeld
<1> QED
  BY <1>1, <1>2, <1>3, <1>4, <1>5, <1>6, <1>7, <1>8, <1>9, <1>10,
     <1>11 DEF IInv

(* The worker exits or falls asleep.                                       *)
LEMMA WorkerIdleStep ==
  ASSUME IInv, NEW q \in Queues, WorkerIdle(q)
  PROVE  IInv'
<1>u. UNCHANGED <<ref, mem, own, cmd, qu, sync, parent, status, req, items, exit, syncExit, localExit>>
  BY DEF WorkerIdle, Goto, objVars, evVars, thVars, qVars
<1>g. pc[q] = "check"
  BY Disjoint DEF IInv, TypeOK, WorkerIdle, Goto
<1>1. TypeOK'
  <2>1. /\ pc' \in [Threads -> ClientPCs \cup WorkerPCs]
        /\ \A x \in Clients : pc'[x] \in ClientPCs
        /\ \A x \in Queues : pc'[x] \in WorkerPCs
    BY <1>g, <1>u, Disjoint DEF IInv, TypeOK, Threads, DestructorPCs,
       ClientPCs, WorkerPCs, WorkerIdle, Goto
  <2> QED
    BY <1>u, <2>1 DEF IInv, TypeOK
<1>2. OwnsWhatItUses'
  <2> SUFFICES ASSUME NEW x \in Clients PROVE UsesOwned(x)'
    BY DEF OwnsWhatItUses
  <2>1. UsesOwned(x)
    BY DEF IInv, OwnsWhatItUses
  <2> QED
    BY <2>1, Disjoint, <1>g, <1>u DEF IInv, TypeOK, Threads, UsesOwned,
       DestructorPCs, WorkerIdle, Goto
<1>3. PushedRequests'
  <2> SUFFICES ASSUME NEW x \in Clients PROVE Pushing(x)'
    BY DEF PushedRequests
  <2>1. Pushing(x)
    BY DEF IInv, PushedRequests
  <2> QED
    BY <2>1, Disjoint, <1>g, <1>u DEF IInv, TypeOK, Threads, Pushing,
       DestructorPCs, WorkerIdle, Goto
<1>4. RunningRequests'
  <2> SUFFICES ASSUME NEW x \in Queues PROVE Running(x)'
    BY DEF RunningRequests
  <2>1. Running(x)
    BY DEF IInv, RunningRequests
  <2> QED
    BY <2>1, Disjoint, <1>g, <1>u DEF IInv, TypeOK, Threads, Running,
       DestructorPCs, WorkerIdle, Goto
<1>5. Destruction'
  <2>1. OthersKeep(q)
    BY <1>g, <1>u, Disjoint DEF IInv, TypeOK, Threads, OthersKeep,
       DestructorPCs, WorkerIdle, Goto
  <2>2. \A o \in Objects : mem[o] \in {"closing", "shut"} => mem'[o] = mem[o]
    BY <1>g, <1>u, Disjoint DEF IInv, TypeOK, WorkerIdle, Goto
  <2>3. EventDtor(q)' /\ QueueDtorOf(q)'
    BY <1>g, <1>u, Disjoint DEF IInv, TypeOK, Threads, Destruction, EventDtor,
       QueueDtorOf, DestroysEvent, DestroysQueue, QueueDtor, WorkerIdle, Goto
  <2>4. ASSUME NEW u \in Threads \ {q} PROVE Exclusive(q, u)'
    <3>1. Exclusive(q, u) /\ EventDtor(u) /\ QueueDtorOf(u)
      BY DEF IInv, Destruction, Threads
    <3> QED
      BY <3>1, <1>g, <1>u, Disjoint DEF IInv, TypeOK, Threads, Exclusive,
         EventDtor, QueueDtorOf, DestroysEvent, DestroysQueue, QueueDtor,
         WorkerIdle, Goto
  <2> QED
    BY <2>1, <2>2, <2>3, <2>4, DestructionKept, Disjoint DEF Threads
<1>6. Workers'
  <2> SUFFICES ASSUME NEW x \in Queues PROVE WorkerUses(x)'
    BY DEF Workers
  <2>1. WorkerUses(x)
    BY DEF IInv, Workers
  <2> QED
    BY <2>1, Disjoint, <1>g, <1>u DEF IInv, TypeOK, Threads, WorkerUses,
       DestroysQueue, QueueDtor, HoldsParent, DestructorPCs, WorkerIdle, Goto
<1>7. Shutdown'
  <2>1. ASSUME NEW x \in Queues PROVE ExitStage(x)'
    <3>1. ExitStage(x) /\ WorkerUses(x)
      BY DEF IInv, Shutdown, Workers
    <3> QED
      BY <3>1, Disjoint, <1>g, <1>u DEF IInv, TypeOK, Threads, ExitStage,
         WorkerUses, WorkerIdle, Goto
  <2>2. ASSUME NEW x \in Threads PROVE DestroyStage(x)'
    <3>1. DestroyStage(x)
      BY DEF IInv, Shutdown
    <3> QED
      BY <3>1, Disjoint, <1>g, <1>u DEF IInv, TypeOK, Threads, DestroyStage,
         WorkerIdle, Goto
  <2> QED
    BY <2>1, <2>2 DEF Shutdown
<1>8. RefExact' /\ LiveHeld'
  BY <1>u, RefFrame
<1>9. QueuedRequests' /\ PendingRequests'
  BY <1>u DEF IInv, QueuedRequests, Listed, PendingRequests, Pending,
     Unprocessed
<1> QED
  BY <1>1, <1>2, <1>3, <1>4, <1>5, <1>6, <1>7, <1>8, <1>9 DEF IInv

(* The event of the command is signalled.                                  *)
LEMMA WorkerCompleteStep ==
  ASSUME IInv, NEW q \in Queues, WorkerComplete(q), mem[cmd[q]] # "none"
  PROVE  IInv'
<1>u. UNCHANGED <<ref, mem, own, cmd, qu, sync, parent, req, items, exit, syncExit, localExit>>
  BY DEF WorkerComplete, Goto, objVars, evVars, thVars, qVars
<1>f1. cmd[q] \in Cmds /\ req[cmd[q]] = "running" /\ parent[cmd[q]] = q
  BY DEF IInv, RunningRequests, Running, WorkerComplete
<1>g. pc[q] = "run" /\ mem[cmd[q]] # "none"
  BY Disjoint, <1>f1 DEF IInv, TypeOK, WorkerComplete, Goto
<1>e. /\ \E s \in {"success", "failure"} : status' = [status EXCEPT ![cmd[q]] = s]
      /\ pc' = [u \in Threads |->
                IF u = q THEN "drop"
                ELSE IF u \in Clients /\ pc[u] = "asleep" /\ cmd[u] = cmd[q]
                     THEN "wait" ELSE pc[u]]
  BY <1>f1, <1>g DEF WorkerComplete, Goto
<1>1. TypeOK'
  <2>1. /\ pc' \in [Threads -> ClientPCs \cup WorkerPCs]
        /\ \A x \in Clients : pc'[x] \in ClientPCs
        /\ \A x \in Queues : pc'[x] \in WorkerPCs
    BY <1>f1, <1>g, <1>e, <1>u, Disjoint DEF IInv, TypeOK, Threads,
       DestructorPCs, ClientPCs, WorkerPCs, objVars
  <2>2. status' \in [Cmds -> {"none", "pending", "success", "failure"}]
    BY <1>f1, <1>g, <1>e, Disjoint DEF IInv, TypeOK, Threads, objVars
  <2> QED
    BY <1>u, <2>1, <2>2 DEF IInv, TypeOK
<1>2. OwnsWhatItUses'
  <2> SUFFICES ASSUME NEW x \in Clients PROVE UsesOwned(x)'
    BY DEF OwnsWhatItUses
  <2>1. UsesOwned(x)
    BY DEF IInv, OwnsWhatItUses
  <2> QED
    BY <2>1, Disjoint, <1>f1, <1>g, <1>e, <1>u DEF IInv, TypeOK, Threads,
       UsesOwned, DestructorPCs, objVars
<1>3. PushedRequests'
  <2> SUFFICES ASSUME NEW x \in Clients PROVE Pushing(x)'
    BY DEF PushedRequests
  <2>1. Pushing(x)
    BY DEF IInv, PushedRequests
  <2>2. \A u \in Clients : pc[u] = "push" => cmd[u] \in Cmds /\ req[cmd[u]] = "made"
    BY DEF IInv, PushedRequests, Pushing
  <2> QED
    BY <2>1, <2>2, Disjoint, <1>f1, <1>g, <1>e, <1>u DEF IInv, TypeOK,
       Threads, Pushing, DestructorPCs, objVars
<1>4. RunningRequests'
  <2> SUFFICES ASSUME NEW x \in Queues PROVE Running(x)'
    BY DEF RunningRequests
  <2>1. Running(x)
    BY DEF IInv, RunningRequests
  <2> QED
    BY <2>1, Disjoint, <1>f1, <1>g, <1>e, <1>u DEF IInv, TypeOK, Threads,
       Running, DestructorPCs, objVars
<1>5. PendingRequests'
  <2> SUFFICES ASSUME NEW x \in Cmds PROVE Pending(x)'
    BY DEF PendingRequests
  <2>1. Pending(x)
    BY DEF IInv, PendingRequests
  <2> QED
    BY <2>1, Disjoint, <1>f1, <1>g, <1>e, <1>u DEF IInv, TypeOK, Threads,
       Pending, Unprocessed, objVars
<1>6. Destruction'
  <2>1. OthersKeep(q)
    BY <1>f1, <1>g, <1>e, <1>u, Disjoint DEF IInv, TypeOK, Threads,
       OthersKeep, DestructorPCs, objVars
  <2>2. \A o \in Objects : mem[o] \in {"closing", "shut"} => mem'[o] = mem[o]
    BY <1>f1, <1>g, <1>e, <1>u, Disjoint DEF IInv, TypeOK, objVars
  <2>3. EventDtor(q)' /\ QueueDtorOf(q)'
    BY <1>f1, <1>g, <1>e, <1>u, Disjoint DEF IInv, TypeOK, Threads,
       Destruction, EventDtor, QueueDtorOf, DestroysEvent, DestroysQueue, QueueDtor, objVars
  <2>4. ASSUME NEW u \in Threads \ {q} PROVE Exclusive(q, u)'
    <3>1. Exclusive(q, u) /\ EventDtor(u) /\ QueueDtorOf(u)
      BY DEF IInv, Destruction, Threads
    <3> QED
      BY <3>1, <1>f1, <1>g, <1>e, <1>u, Disjoint DEF IInv, TypeOK, Threads,
         Exclusive, EventDtor, QueueDtorOf, DestroysEvent, DestroysQueue,
         QueueDtor, objVars
  <2> QED
    BY <2>1, <2>2, <2>3, <2>4, DestructionKept, Disjoint DEF Threads
<1>7. Workers'
  <2> SUFFICES ASSUME NEW x \in Queues PROVE WorkerUses(x)'
    BY DEF Workers
  <2>1. WorkerUses(x)
    BY DEF IInv, Workers
  <2> QED
    BY <2>1, Disjoint, <1>f1, <1>g, <1>e, <1>u DEF IInv, TypeOK, Threads,
       WorkerUses, DestroysQueue, QueueDtor, HoldsParent, DestructorPCs, objVars
<1>8. Shutdown'
  <2>1. ASSUME NEW x \in Queues PROVE ExitStage(x)'
    <3>1. ExitStage(x) /\ WorkerUses(x)
      BY DEF IInv, Shutdown, Workers
    <3> QED
      BY <3>1, Disjoint, <1>f1, <1>g, <1>e, <1>u DEF IInv, TypeOK, Threads,
         ExitStage, WorkerUses, objVars
  <2>2. ASSUME NEW x \in Threads PROVE DestroyStage(x)'
    <3>1. DestroyStage(x)
      BY DEF IInv, Shutdown
    <3> QED
      BY <3>1, Disjoint, <1>f1, <1>g, <1>e, <1>u DEF IInv, TypeOK, Threads,
         DestroyStage, objVars
  <2> QED
    BY <2>1, <2>2 DEF Shutdown
<1>9. RefExact' /\ LiveHeld'
  BY <1>u, RefFrame
<1>10. QueuedRequests'
  BY <1>u DEF IInv, QueuedRequests, Listed
<1> QED
  BY <1>1, <1>2, <1>3, <1>4, <1>5, <1>6, <1>7, <1>8, <1>9, <1>10 DEF IInv

(* A request without an event is freed.                                    *)
LEMMA WorkerFreeStep ==
  ASSUME IInv, NEW q \in Queues, WorkerComplete(q), mem[cmd[q]] = "none"
  PROVE  IInv'
<1>u. UNCHANGED <<ref, mem, own, cmd, qu, sync, parent, status, items, exit, syncExit, localExit>>
  BY DEF WorkerComplete, Goto, objVars, evVars, thVars, qVars
<1>f1. cmd[q] \in Cmds /\ req[cmd[q]] = "running" /\ parent[cmd[q]] = q
  BY DEF IInv, RunningRequests, Running, WorkerComplete
<1>g. pc[q] = "run" /\ mem[cmd[q]] = "none"
  BY Disjoint, <1>f1 DEF IInv, TypeOK, WorkerComplete, Goto
<1>e. /\ req' = [req EXCEPT ![cmd[q]] = "freed"]
      /\ pc' = [pc EXCEPT ![q] = "loop"]
  BY <1>f1, <1>g DEF WorkerComplete, Goto
<1>1. TypeOK'
  <2>1. /\ pc' \in [Threads -> ClientPCs \cup WorkerPCs]
        /\ \A x \in Clients : pc'[x] \in ClientPCs
        /\ \A x \in Queues : pc'[x] \in WorkerPCs
    BY <1>f1, <1>g, <1>e, <1>u, Disjoint DEF IInv, TypeOK, Threads,
       DestructorPCs, ClientPCs, WorkerPCs, objVars
  <2>2. req' \in [Cmds -> {"none", "made", "queued", "running", "freed"}]
    BY <1>f1, <1>g, <1>e, Disjoint DEF IInv, TypeOK, Threads, objVars
  <2> QED
    BY <1>u, <2>1, <2>2 DEF IInv, TypeOK
<1>2. RefExact'
  <2>1. \A x \in Objects : mem'[x] \in HoldsParent <=> mem[x] \in HoldsParent
    BY <1>f1, <1>g, <1>e, <1>u, Disjoint DEF IInv, TypeOK, HoldsParent, objVars
  <2>2. \A x \in Cmds : RequestOwnsEvent(x)' <=> RequestOwnsEvent(x)
    BY <1>f1, <1>g, <1>e, <1>u, Disjoint DEF IInv, TypeOK, RequestOwnsEvent,
       objVars
  <2> QED
    BY <2>1, <2>2, <1>u, HoldersFrame
<1>3. OwnsWhatItUses'
  <2> SUFFICES ASSUME NEW x \in Clients PROVE UsesOwned(x)'
    BY DEF OwnsWhatItUses
  <2>1. UsesOwned(x)
    BY DEF IInv, OwnsWhatItUses
  <2> QED
    BY <2>1, Disjoint, <1>f1, <1>g, <1>e, <1>u DEF IInv, TypeOK, Threads,
       UsesOwned, DestructorPCs, objVars
<1>4. PushedRequests'
  <2> SUFFICES ASSUME NEW x \in Clients PROVE Pushing(x)'
    BY DEF PushedRequests
  <2>1. Pushing(x)
    BY DEF IInv, PushedRequests
  <2>2. \A u \in Clients : pc[u] = "push" => cmd[u] \in Cmds /\ req[cmd[u]] = "made"
    BY DEF IInv, PushedRequests, Pushing
  <2> QED
    BY <2>1, <2>2, Disjoint, <1>f1, <1>g, <1>e, <1>u DEF IInv, TypeOK,
       Threads, Pushing, DestructorPCs, objVars
<1>5. QueuedRequests'
  <2> SUFFICES ASSUME NEW x \in Queues PROVE Listed(x)'
    BY DEF QueuedRequests
  <2>1. Listed(x)
    BY DEF IInv, QueuedRequests
  <2>2. \A i \in 1 .. Len(items[x]) : items[x][i] \in Cmds
    BY DEF IInv, TypeOK
  <2>3. \A i \in 1 .. Len(items[x]) : req'[items[x][i]] = "queued" /\ parent'[items[x][i]] = x
    BY <2>1, <2>2, <1>f1, <1>e, <1>u DEF Listed, IInv, TypeOK
  <2> QED
    BY <2>1, <2>3, <1>u DEF Listed
<1>6. RunningRequests'
  <2> SUFFICES ASSUME NEW x \in Queues PROVE Running(x)'
    BY DEF RunningRequests
  <2>1. Running(x)
    BY DEF IInv, RunningRequests
  <2> QED
    BY <2>1, Disjoint, <1>f1, <1>g, <1>e, <1>u DEF IInv, TypeOK, Threads,
       Running, DestructorPCs, objVars
<1>7. PendingRequests'
  <2> SUFFICES ASSUME NEW x \in Cmds PROVE Pending(x)'
    BY DEF PendingRequests
  <2>1. Pending(x)
    BY DEF IInv, PendingRequests
  <2> QED
    BY <2>1, Disjoint, <1>f1, <1>g, <1>e, <1>u DEF IInv, TypeOK, Threads,
       Pending, Unprocessed, objVars
<1>8. Destruction'
  <2>1. OthersKeep(q)
    BY <1>f1, <1>g, <1>e, <1>u, Disjoint DEF IInv, TypeOK, Threads,
       OthersKeep, DestructorPCs, objVars
  <2>2. \A o \in Objects : mem[o] \in {"closing", "shut"} => mem'[o] = mem[o]
    BY <1>f1, <1>g, <1>e, <1>u, Disjoint DEF IInv, TypeOK, objVars
  <2>3. EventDtor(q)' /\ QueueDtorOf(q)'
    BY <1>f1, <1>g, <1>e, <1>u, Disjoint DEF IInv, TypeOK, Threads,
       Destruction, EventDtor, QueueDtorOf, DestroysEvent, DestroysQueue, QueueDtor, objVars
  <2>4. ASSUME NEW u \in Threads \ {q} PROVE Exclusive(q, u)'
    <3>1. Exclusive(q, u) /\ EventDtor(u) /\ QueueDtorOf(u)
      BY DEF IInv, Destruction, Threads
    <3> QED
      BY <3>1, <1>f1, <1>g, <1>e, <1>u, Disjoint DEF IInv, TypeOK, Threads,
         Exclusive, EventDtor, QueueDtorOf, DestroysEvent, DestroysQueue,
         QueueDtor, objVars
  <2> QED
    BY <2>1, <2>2, <2>3, <2>4, DestructionKept, Disjoint DEF Threads
<1>9. Workers'
  <2> SUFFICES ASSUME NEW x \in Queues PROVE WorkerUses(x)'
    BY DEF Workers
  <2>1. WorkerUses(x)
    BY DEF IInv, Workers
  <2> QED
    BY <2>1, Disjoint, <1>f1, <1>g, <1>e, <1>u DEF IInv, TypeOK, Threads,
       WorkerUses, DestroysQueue, QueueDtor, HoldsParent, DestructorPCs, objVars
<1>10. Shutdown'
  <2>1. ASSUME NEW x \in Queues PROVE ExitStage(x)'
    <3>1. ExitStage(x) /\ WorkerUses(x)
      BY DEF IInv, Shutdown, Workers
    <3> QED
      BY <3>1, Disjoint, <1>f1, <1>g, <1>e, <1>u DEF IInv, TypeOK, Threads,
         ExitStage, WorkerUses, objVars
  <2>2. ASSUME NEW x \in Threads PROVE DestroyStage(x)'
    <3>1. DestroyStage(x)
      BY DEF IInv, Shutdown
    <3> QED
      BY <3>1, Disjoint, <1>f1, <1>g, <1>e, <1>u DEF IInv, TypeOK, Threads,
         DestroyStage, objVars
  <2> QED
    BY <2>1, <2>2 DEF Shutdown
<1>11. LiveHeld'
  BY <1>u DEF IInv, LiveHeld
<1> QED
  BY <1>1, <1>2, <1>3, <1>4, <1>5, <1>6, <1>7, <1>8, <1>9, <1>10,
     <1>11 DEF IInv

(* The request stops holding the event, and the worker destroys it if it   *)
(* was the last.                                                           *)
LEMMA WorkerDropStep ==
  ASSUME IInv, NEW q \in Queues, WorkerDrop(q)
  PROVE  IInv'
<1>u. UNCHANGED <<own, cmd, qu, sync, parent, status, items, exit, syncExit, localExit>>
  BY DEF WorkerDrop, Goto, Dec, LastRef, objVars, evVars, thVars, qVars
<1>f1. /\ cmd[q] \in Cmds /\ req[cmd[q]] = "running" /\ parent[cmd[q]] = q
       /\ mem[cmd[q]] # "none" /\ status[cmd[q]] # "pending"
  BY DEF IInv, RunningRequests, Running, WorkerDrop
<1>f2. ref[cmd[q]] \in Nat /\ ref[cmd[q]] > 0 /\ mem[cmd[q]] = "live" /\ cmd[q] \in Holders(cmd[q])
  BY <1>f1, RequestKeepsEvent DEF RequestOwnsEvent
<1>g. pc[q] = "drop"
  BY Disjoint, <1>f1, <1>f2 DEF IInv, TypeOK, WorkerDrop, Goto, Dec, LastRef
<1>1. TypeOK'
  <2>1. ref' \in [Objects -> Nat]
    BY <1>f1, <1>f2, <1>g, Disjoint DEF IInv, TypeOK, Threads, WorkerDrop,
       Goto, Dec, LastRef
  <2>2. mem' \in [Objects -> MemStates]
    BY <1>f1, <1>f2, <1>g, Disjoint DEF IInv, TypeOK, Threads, MemStates,
       WorkerDrop, Goto, Dec, LastRef
  <2>3. /\ pc' \in [Threads -> ClientPCs \cup WorkerPCs]
        /\ \A x \in Clients : pc'[x] \in ClientPCs
        /\ \A x \in Queues : pc'[x] \in WorkerPCs
    BY <1>f1, <1>f2, <1>g, <1>u, Disjoint DEF IInv, TypeOK, Threads,
       DestructorPCs, ClientPCs, WorkerPCs, WorkerDrop, Goto, Dec, LastRef
  <2>4. req' \in [Cmds -> {"none", "made", "queued", "running", "freed"}]
    BY <1>f1, <1>f2, <1>g, Disjoint DEF IInv, TypeOK, Threads, WorkerDrop,
       Goto, Dec, LastRef
  <2> QED
    BY <1>u, <2>1, <2>2, <2>3, <2>4 DEF IInv, TypeOK
<1>2. RefExact'
  <2>1. ASSUME NEW x \in Objects
        PROVE  Holders(x)' = IF x = cmd[q] THEN Holders(x) \ {cmd[q]} ELSE Holders(x)
    <3>1. \A y \in Objects : mem'[y] \in HoldsParent <=> mem[y] \in HoldsParent
      BY <1>f1, <1>f2, Disjoint DEF HoldsParent, IInv, TypeOK, WorkerDrop
    <3>2. \A y \in Cmds : RequestOwnsEvent(y)' <=> (RequestOwnsEvent(y) /\ y # cmd[q])
      BY <1>f1, <1>f2, Disjoint DEF RequestOwnsEvent, IInv, TypeOK, WorkerDrop
    <3>3. Owners(x)' = Owners(x) /\ parent' = parent
      BY <1>u DEF Owners
    <3> QED
      BY <1>f1, <1>f2, <3>1, <3>2, <3>3, Disjoint, ZenonT(40) DEF Holders, Owners
  <2> QED
    BY <1>f1, <1>f2, <2>1, RemoveHolder, Disjoint DEF WorkerDrop, Dec
<1>3. LiveHeld'
  <2> SUFFICES ASSUME NEW x \in Objects PROVE (mem[x] = "live" <=> ref[x] > 0)'
    BY DEF LiveHeld
  <2>1. mem[x] = "live" <=> ref[x] > 0
    BY DEF IInv, LiveHeld
  <2> QED
    BY <2>1, Disjoint, <1>f1, <1>f2, <1>g, <1>u DEF IInv, TypeOK, WorkerDrop,
       Goto, Dec, LastRef
<1>4. OwnsWhatItUses'
  <2> SUFFICES ASSUME NEW x \in Clients PROVE UsesOwned(x)'
    BY DEF OwnsWhatItUses
  <2>1. UsesOwned(x)
    BY DEF IInv, OwnsWhatItUses
  <2> QED
    BY <2>1, Disjoint, <1>f1, <1>f2, <1>g, <1>u DEF IInv, TypeOK, Threads,
       UsesOwned, DestructorPCs, WorkerDrop, Goto, Dec, LastRef
<1>5. PushedRequests'
  <2> SUFFICES ASSUME NEW x \in Clients PROVE Pushing(x)'
    BY DEF PushedRequests
  <2>1. Pushing(x)
    BY DEF IInv, PushedRequests
  <2>2. \A u \in Clients : pc[u] = "push" => cmd[u] \in Cmds /\ req[cmd[u]] = "made"
    BY DEF IInv, PushedRequests, Pushing
  <2> QED
    BY <2>1, <2>2, Disjoint, <1>f1, <1>f2, <1>g, <1>u DEF IInv, TypeOK,
       Threads, Pushing, DestructorPCs, WorkerDrop, Goto, Dec, LastRef
<1>6. QueuedRequests'
  <2> SUFFICES ASSUME NEW x \in Queues PROVE Listed(x)'
    BY DEF QueuedRequests
  <2>1. Listed(x)
    BY DEF IInv, QueuedRequests
  <2>2. \A i \in 1 .. Len(items[x]) : items[x][i] \in Cmds
    BY DEF IInv, TypeOK
  <2>3. \A i \in 1 .. Len(items[x]) : req'[items[x][i]] = "queued" /\ parent'[items[x][i]] = x
    BY <2>1, <2>2, <1>f1, <1>u DEF Listed, IInv, TypeOK, WorkerDrop
  <2> QED
    BY <2>1, <2>3, <1>u DEF Listed
<1>7. RunningRequests'
  <2> SUFFICES ASSUME NEW x \in Queues PROVE Running(x)'
    BY DEF RunningRequests
  <2>1. Running(x)
    BY DEF IInv, RunningRequests
  <2> QED
    BY <2>1, Disjoint, <1>f1, <1>f2, <1>g, <1>u DEF IInv, TypeOK, Threads,
       Running, DestructorPCs, WorkerDrop, Goto, Dec, LastRef
<1>8. PendingRequests'
  <2> SUFFICES ASSUME NEW x \in Cmds PROVE Pending(x)'
    BY DEF PendingRequests
  <2>1. Pending(x)
    BY DEF IInv, PendingRequests
  <2> QED
    BY <2>1, Disjoint, <1>f1, <1>f2, <1>g, <1>u DEF IInv, TypeOK, Threads,
       Pending, Unprocessed, WorkerDrop, Goto, Dec, LastRef
<1>9. Destruction'
  <2>1. OthersKeep(q)
    BY <1>f1, <1>f2, <1>g, <1>u, Disjoint DEF IInv, TypeOK, Threads,
       OthersKeep, DestructorPCs, WorkerDrop, Goto, Dec, LastRef
  <2>2. \A o \in Objects : mem[o] \in {"closing", "shut"} => mem'[o] = mem[o]
    BY <1>f1, <1>f2, <1>g, <1>u, Disjoint DEF IInv, TypeOK, WorkerDrop, Goto,
       Dec, LastRef
  <2>3. EventDtor(q)' /\ QueueDtorOf(q)'
    BY <1>f1, <1>f2, <1>g, <1>u, Disjoint DEF IInv, TypeOK, Threads,
       Destruction, EventDtor, QueueDtorOf, DestroysEvent, DestroysQueue, QueueDtor, WorkerDrop, Goto, Dec, LastRef
  <2>4. ASSUME NEW u \in Threads \ {q} PROVE Exclusive(q, u)'
    <3>1. Exclusive(q, u) /\ EventDtor(u) /\ QueueDtorOf(u)
      BY DEF IInv, Destruction, Threads
    <3> QED
      BY <3>1, <1>f1, <1>f2, <1>g, <1>u, Disjoint DEF IInv, TypeOK, Threads,
         Exclusive, EventDtor, QueueDtorOf, DestroysEvent, DestroysQueue,
         QueueDtor, WorkerDrop, Goto, Dec, LastRef
  <2> QED
    BY <2>1, <2>2, <2>3, <2>4, DestructionKept, Disjoint DEF Threads
<1>10. Workers'
  <2> SUFFICES ASSUME NEW x \in Queues PROVE WorkerUses(x)'
    BY DEF Workers
  <2>1. WorkerUses(x)
    BY DEF IInv, Workers
  <2> QED
    BY <2>1, Disjoint, <1>f1, <1>f2, <1>g, <1>u DEF IInv, TypeOK, Threads,
       WorkerUses, DestroysQueue, QueueDtor, HoldsParent, DestructorPCs, WorkerDrop, Goto, Dec, LastRef
<1>11. Shutdown'
  <2>1. ASSUME NEW x \in Queues PROVE ExitStage(x)'
    <3>1. ExitStage(x) /\ WorkerUses(x)
      BY DEF IInv, Shutdown, Workers
    <3> QED
      BY <3>1, Disjoint, <1>f1, <1>f2, <1>g, <1>u DEF IInv, TypeOK, Threads,
         ExitStage, WorkerUses, WorkerDrop, Goto, Dec, LastRef
  <2>2. ASSUME NEW x \in Threads PROVE DestroyStage(x)'
    <3>1. DestroyStage(x)
      BY DEF IInv, Shutdown
    <3> QED
      BY <3>1, Disjoint, <1>f1, <1>f2, <1>g, <1>u DEF IInv, TypeOK, Threads,
         DestroyStage, WorkerDrop, Goto, Dec, LastRef
  <2> QED
    BY <2>1, <2>2 DEF Shutdown
<1> QED
  BY <1>1, <1>2, <1>3, <1>4, <1>5, <1>6, <1>7, <1>8, <1>9, <1>10,
     <1>11 DEF IInv

(* pthread_cond_wait returns for no reason.                                *)
LEMMA SpuriousWakeupStep ==
  ASSUME IInv, NEW t \in Threads, SpuriousWakeup(t)
  PROVE  IInv'
<1>u. UNCHANGED <<ref, mem, own, cmd, qu, sync, parent, status, req, items, exit, syncExit, localExit>>
  BY DEF SpuriousWakeup, Goto, objVars, evVars, thVars, qVars
<1>g. pc[t] = "asleep"
  BY Disjoint DEF IInv, TypeOK, SpuriousWakeup, Goto
<1>1. TypeOK'
  <2>1. /\ pc' \in [Threads -> ClientPCs \cup WorkerPCs]
        /\ \A x \in Clients : pc'[x] \in ClientPCs
        /\ \A x \in Queues : pc'[x] \in WorkerPCs
    <3> DEFINE l == IF t \in Queues THEN "check" ELSE "wait"
    <3>1. pc' = [pc EXCEPT ![t] = l]
      BY DEF SpuriousWakeup, Goto
    <3>2. (t \in Clients => l \in ClientPCs) /\ (t \in Queues => l \in WorkerPCs)
      BY Disjoint DEF ClientPCs, WorkerPCs
    <3> HIDE DEF l
    <3> QED
      BY <3>1, <3>2, TypedPC DEF IInv
  <2> QED
    BY <1>u, <2>1 DEF IInv, TypeOK
<1>2. OwnsWhatItUses'
  <2> SUFFICES ASSUME NEW x \in Clients PROVE UsesOwned(x)'
    BY DEF OwnsWhatItUses
  <2>1. UsesOwned(x)
    BY DEF IInv, OwnsWhatItUses
  <2> QED
    BY <2>1, Disjoint, <1>g, <1>u DEF IInv, TypeOK, Threads, UsesOwned,
       DestructorPCs, SpuriousWakeup, Goto
<1>3. PushedRequests'
  <2> SUFFICES ASSUME NEW x \in Clients PROVE Pushing(x)'
    BY DEF PushedRequests
  <2>1. Pushing(x)
    BY DEF IInv, PushedRequests
  <2> QED
    BY <2>1, Disjoint, <1>g, <1>u DEF IInv, TypeOK, Threads, Pushing,
       DestructorPCs, SpuriousWakeup, Goto
<1>4. RunningRequests'
  <2> SUFFICES ASSUME NEW x \in Queues PROVE Running(x)'
    BY DEF RunningRequests
  <2>1. Running(x)
    BY DEF IInv, RunningRequests
  <2> QED
    BY <2>1, Disjoint, <1>g, <1>u DEF IInv, TypeOK, Threads, Running,
       DestructorPCs, SpuriousWakeup, Goto
<1>5. Destruction'
  <2>1. OthersKeep(t)
    BY <1>g, <1>u, Disjoint DEF IInv, TypeOK, Threads, OthersKeep,
       DestructorPCs, SpuriousWakeup, Goto
  <2>2. \A o \in Objects : mem[o] \in {"closing", "shut"} => mem'[o] = mem[o]
    BY <1>g, <1>u, Disjoint DEF IInv, TypeOK, SpuriousWakeup, Goto
  <2>3. EventDtor(t)' /\ QueueDtorOf(t)'
    BY <1>g, <1>u, Disjoint DEF IInv, TypeOK, Threads, Destruction, EventDtor,
       QueueDtorOf, DestroysEvent, DestroysQueue, QueueDtor, SpuriousWakeup, Goto
  <2>4. ASSUME NEW u \in Threads \ {t} PROVE Exclusive(t, u)'
    <3>1. Exclusive(t, u) /\ EventDtor(u) /\ QueueDtorOf(u)
      BY DEF IInv, Destruction, Threads
    <3> QED
      BY <3>1, <1>g, <1>u, Disjoint DEF IInv, TypeOK, Threads, Exclusive,
         EventDtor, QueueDtorOf, DestroysEvent, DestroysQueue, QueueDtor,
         SpuriousWakeup, Goto
  <2> QED
    BY <2>1, <2>2, <2>3, <2>4, DestructionKept, Disjoint DEF Threads
<1>6. Workers'
  <2> SUFFICES ASSUME NEW x \in Queues PROVE WorkerUses(x)'
    BY DEF Workers
  <2>1. WorkerUses(x)
    BY DEF IInv, Workers
  <2> QED
    BY <2>1, Disjoint, <1>g, <1>u DEF IInv, TypeOK, Threads, WorkerUses,
       DestroysQueue, QueueDtor, HoldsParent, DestructorPCs, SpuriousWakeup, Goto
<1>7. Shutdown'
  <2>1. ASSUME NEW x \in Queues PROVE ExitStage(x)'
    <3>1. ExitStage(x) /\ WorkerUses(x)
      BY DEF IInv, Shutdown, Workers
    <3> QED
      BY <3>1, Disjoint, <1>g, <1>u DEF IInv, TypeOK, Threads, ExitStage,
         WorkerUses, SpuriousWakeup, Goto
  <2>2. ASSUME NEW x \in Threads PROVE DestroyStage(x)'
    <3>1. DestroyStage(x)
      BY DEF IInv, Shutdown
    <3> QED
      BY <3>1, Disjoint, <1>g, <1>u DEF IInv, TypeOK, Threads, DestroyStage,
         SpuriousWakeup, Goto
  <2> QED
    BY <2>1, <2>2 DEF Shutdown
<1>8. RefExact' /\ LiveHeld'
  BY <1>u, RefFrame
<1>9. QueuedRequests' /\ PendingRequests'
  BY <1>u DEF IInv, QueuedRequests, Listed, PendingRequests, Pending,
     Unprocessed
<1> QED
  BY <1>1, <1>2, <1>3, <1>4, <1>5, <1>6, <1>7, <1>8, <1>9 DEF IInv

-----------------------------------------------------------------------------
LEMMA InitIInv == Init => IInv
<1> SUFFICES ASSUME Init PROVE IInv
  OBVIOUS
<1> USE DEF Init
<1>1. TypeOK
  BY Disjoint DEF TypeOK, MemStates, ClientPCs, WorkerPCs, DestructorPCs, Threads
<1>2. RefExact
  <2> SUFFICES ASSUME NEW o \in Objects PROVE ref[o] = Cardinality(Holders(o))
    BY DEF RefExact
  <2>1. PICK t \in Clients : own = [u \in Clients |-> IF u = t THEN {Device} ELSE {}]
    OBVIOUS
  <2>2. \A q \in Queues : mem[q] \notin HoldsParent
    BY Disjoint DEF HoldsParent
  <2>3. \A c \in Cmds : mem[c] \notin HoldsParent /\ ~RequestOwnsEvent(c)
    BY Disjoint DEF HoldsParent, RequestOwnsEvent
  <2>4. Owners(o) = IF o = Device THEN {t} ELSE {}
    BY <2>1 DEF Owners
  <2>5. Holders(o) = IF o = Device THEN {t} ELSE {}
    BY <2>2, <2>3, <2>4, Disjoint DEF Holders
  <2> QED
    BY <2>5, FS_EmptySet, FS_Singleton
<1>3. LiveHeld
  BY DEF LiveHeld
<1>4. OwnsWhatItUses /\ PushedRequests
  BY Disjoint DEF OwnsWhatItUses, UsesOwned, PushedRequests, Pushing, Threads
<1>5. QueuedRequests
  BY DEF QueuedRequests, Listed
<1>6. RunningRequests /\ PendingRequests
  BY Disjoint DEF RunningRequests, Running, PendingRequests, Pending, Threads
<1>7. Destruction
  BY DEF Destruction, EventDtor, QueueDtorOf, Exclusive, DestroysEvent,
     DestroysQueue, QueueDtor
<1>8. Workers
  BY Disjoint DEF Workers, WorkerUses, DestroysQueue, QueueDtor, Threads
<1>9. Shutdown
  BY Disjoint DEF Shutdown, ExitStage, DestroyStage, Threads
<1> QED
  BY <1>1, <1>2, <1>3, <1>4, <1>5, <1>6, <1>7, <1>8, <1>9 DEF IInv

LEMMA NextIInv == IInv /\ [Next]_vars => IInv'
<1> SUFFICES ASSUME IInv, [Next]_vars PROVE IInv'
  OBVIOUS
<1>1. ASSUME NEW t \in Clients, Call(t) PROVE IInv'
  <2>1. ASSUME NEW u \in Clients, NEW o \in Objects, Share(t, u, o) PROVE IInv'
    BY <2>1, ShareStep
  <2>2. ASSUME NEW q \in Queues, CreateQueue(t, q) PROVE IInv'
    BY <2>2, CreateQueueStep
  <2>3. ASSUME NEW q \in Queues, ReleaseQueue(t, q) PROVE IInv'
    BY <2>3, ReleaseQueueStep
  <2>4. ASSUME NEW q \in Queues, NEW c \in Cmds,
               NEW kind \in {"event", "sync", "noevent"}, Enqueue(t, q, c, kind)
        PROVE  IInv'
    BY <2>4, EnqueueStep, EnqueueNoEventStep
  <2>5. ASSUME NEW c \in Cmds, CallWait(t, c) PROVE IInv'
    BY <2>5, CallWaitStep
  <2>6. ASSUME NEW c \in Cmds, ReleaseEvent(t, c) PROVE IInv'
    BY <2>6, ReleaseEventStep
  <2>7. CASE ReleaseDevice(t)
    BY <2>7, ReleaseDeviceStep
  <2> QED
    BY <1>1, <2>1, <2>2, <2>3, <2>4, <2>5, <2>6, <2>7 DEF Call
<1>2. ASSUME NEW t \in Threads, Destructor(t) PROVE IInv'
  BY <1>2, EvDropStep, QExitStep, QJoinStep, QSyncStep, QCloseStep, QFreeStep,
     EvFreeStep DEF Destructor
<1>3. ASSUME NEW t \in Clients, Continue(t) PROVE IInv'
  <2>1. t \in Threads
    BY DEF Threads
  <2> QED
    BY <1>2, <1>3, <2>1, PushStep, WaitCheckStep, ReleaseEventStep DEF Continue
<1>4. ASSUME NEW q \in Queues, Worker(q) PROVE IInv'
  <2>1. q \in Threads
    BY DEF Threads
  <2> QED
    BY <1>2, <1>4, <2>1, WorkerLoopStep, WorkerDequeueStep, WorkerIdleStep,
       WorkerCompleteStep, WorkerFreeStep, WorkerDropStep DEF Worker
<1>5. ASSUME NEW t \in Threads, SpuriousWakeup(t) PROVE IInv'
  BY <1>5, SpuriousWakeupStep
<1>6. CASE UNCHANGED vars
  <2>1. UNCHANGED <<ref, mem, own, pc, cmd, qu, sync, parent, status, req, items,
                    exit, syncExit, localExit>>
    BY <1>6 DEF vars
  <2>2. RefExact' /\ LiveHeld'
    BY <2>1, RefFrame
  <2>3. TypeOK' /\ OwnsWhatItUses' /\ PushedRequests' /\ QueuedRequests'
    BY <2>1 DEF IInv, TypeOK, OwnsWhatItUses, UsesOwned, PushedRequests, Pushing,
       QueuedRequests, Listed
  <2>4. RunningRequests' /\ PendingRequests' /\ Workers' /\ Shutdown'
    BY <2>1 DEF IInv, RunningRequests, Running, PendingRequests, Pending, Workers,
       WorkerUses, DestroysQueue, Shutdown, ExitStage, DestroyStage
  <2>5. Destruction'
    BY <2>1 DEF IInv, Destruction, EventDtor, QueueDtorOf, Exclusive,
       DestroysEvent, DestroysQueue
  <2> QED
    BY <2>2, <2>3, <2>4, <2>5 DEF IInv
<1> QED
  BY <1>1, <1>3, <1>4, <1>5, <1>6 DEF Next

(* The inductive invariant holds in every reachable state.                 *)
THEOREM Invariance == Spec => []IInv
BY InitIInv, NextIInv, PTL DEF Spec

(* The types of the variables, in particular that no count ever goes below *)
(* zero.                                                                   *)
THEOREM TypeCorrect == Spec => []TypeOK
<1>1. IInv => TypeOK
  BY DEF IInv
<1> QED
  BY <1>1, Invariance, PTL

(* The reference count of every device, queue and event is the number of   *)
(* its holders, whatever the application does and in whatever order.       *)
THEOREM RefCountsExact == Spec => []RefExact
<1>1. IInv => RefExact
  BY DEF IInv
<1> QED
  BY <1>1, Invariance, PTL

(* No thread, and no worker in particular, touches freed memory.           *)
LEMMA InvNoUseAfterFree == IInv => NoUseAfterFree
<1> SUFFICES ASSUME IInv, NEW t \in Threads, NEW o \in Touches(t)
             PROVE  mem[o] \in Allocated
  BY DEF NoUseAfterFree
<1>1. ASSUME NEW u \in Clients, NEW x \in own[u] PROVE mem[x] \in Allocated
  BY <1>1, OwnedLive DEF Allocated
<1>2. EventDtor(t) /\ QueueDtorOf(t) /\ (t \in Queues => WorkerUses(t) /\ Running(t))
  BY DEF IInv, Destruction, Workers, RunningRequests
<1>3. CASE t \in Clients /\ pc[t] \in {"push", "wait", "asleep", "unref"}
  <2>1. UsesOwned(t) /\ t \notin Queues
    BY <1>3, Disjoint DEF IInv, OwnsWhatItUses
  <2>2. o \in own[t]
    BY <1>3, <2>1 DEF Touches, UsesOwned
  <2> QED
    BY <1>1, <1>3, <2>2
<1>4. CASE t \in Queues /\ pc[t] \in {"loop", "check", "asleep"}
  BY <1>2, <1>4 DEF Touches, WorkerUses, HoldsParent, Allocated
<1>5. CASE t \in Queues /\ pc[t] \in {"run", "drop"}
  <2>1. /\ mem[t] \in HoldsParent /\ mem[Device] = "live"
        /\ cmd[t] \in Cmds /\ req[cmd[t]] = "running"
    BY <1>2, <1>5, QueueKeepsDevice DEF WorkerUses, Running
  <2>2. mem[cmd[t]] # "none" => mem[cmd[t]] = "live"
    BY <2>1, RequestKeepsEvent DEF RequestOwnsEvent
  <2>3. pc[t] = "drop" => mem[cmd[t]] # "none"
    BY <1>2, <1>5 DEF Running
  <2> QED
    BY <1>5, <2>1, <2>2, <2>3 DEF Touches, HoldsParent, Allocated
<1>6. CASE pc[t] = "evDrop"
  <2>1. mem[cmd[t]] = "closing" /\ cmd[t] \in Cmds
    BY <1>2, <1>6 DEF EventDtor, DestroysEvent
  <2>2. mem[parent[cmd[t]]] = "live"
    BY <2>1, EventKeepsQueue DEF HoldsParent
  <2> QED
    BY <1>6, <2>1, <2>2 DEF Touches, Allocated
<1>7. CASE pc[t] \in QueueDtor
  <2>1. mem[qu[t]] \in {"closing", "shut"} /\ qu[t] \in Queues
    BY <1>2, <1>7 DEF QueueDtorOf, DestroysQueue, IInv, TypeOK
  <2>2. pc[t] = "qClose" => mem[Device] = "live"
    BY <1>2, <2>1, <1>7, QueueKeepsDevice DEF QueueDtorOf, DestroysQueue, QueueDtor, HoldsParent
  <2> QED
    BY <1>7, <2>1, <2>2 DEF Touches, Allocated, QueueDtor
<1>8. CASE pc[t] = "evFree"
  BY <1>2, <1>8 DEF Touches, EventDtor, DestroysEvent, Allocated
<1>9. CASE pc[t] \in {"idle", "none", "done"}
  BY <1>9 DEF Touches
<1>10. t \in Clients => pc[t] \in ClientPCs
  BY DEF IInv, TypeOK
<1>11. t \in Queues => pc[t] \in WorkerPCs
  BY DEF IInv, TypeOK
<1> QED
  BY <1>3, <1>4, <1>5, <1>6, <1>7, <1>8, <1>9, <1>10, <1>11
     DEF Threads, ClientPCs, WorkerPCs, DestructorPCs, QueueDtor

(* Memory safety of the runtime, with or without failing pthread_create.   *)
THEOREM MemorySafe == Spec => []NoUseAfterFree
BY InvNoUseAfterFree, Invariance, PTL

(* A step of thread t that puts nobody to sleep and touches neither the    *)
(* list, nor exit, nor the status of an event.                             *)
LetsSleep(t) ==
  /\ items' = items /\ exit' = exit /\ status' = status
  /\ \A u \in Threads :
       /\ pc'[u] = "asleep" => pc[u] = "asleep" /\ u # t
       /\ u # t => cmd'[u] = cmd[u]

LEMMA SleepersKept ==
  ASSUME NoLostWakeup, NEW t \in Threads, LetsSleep(t)
  PROVE  NoLostWakeup'
<1>1. Clients \subseteq Threads /\ Queues \subseteq Threads
  BY DEF Threads
<1> QED
  BY <1>1 DEF LetsSleep, NoLostWakeup

LEMMA CallSleepers ==
  ASSUME TypeOK, OwnsWhatItUses, NoLostWakeup, NEW t \in Clients, Call(t)
  PROVE  NoLostWakeup'
<1>t. t \in Threads /\ t \notin Queues /\ Clients \subseteq Threads /\ Queues \subseteq Threads
  BY Disjoint DEF Threads
<1>1. CASE \E q \in Queues, c \in Cmds, k \in {"event", "sync", "noevent"} : Enqueue(t, q, c, k)
  <2>1. PICK q \in Queues, c \in Cmds, k \in {"event", "sync", "noevent"} : Enqueue(t, q, c, k)
    BY <1>1
  <2>2. /\ items' = items /\ exit' = exit
        /\ pc' = [pc EXCEPT ![t] = "push"] /\ cmd' = [cmd EXCEPT ![t] = c]
        /\ status' = status \/ status' = [status EXCEPT ![c] = "pending"]
    BY <2>1 DEF Enqueue, Goto, qVars
  <2>3. ASSUME NEW u \in Clients, pc'[u] = "asleep" PROVE status'[cmd'[u]] = "pending"
    <3>1. u # t /\ pc[u] = "asleep" /\ cmd'[u] = cmd[u]
      BY <1>t, <2>2, <2>3 DEF TypeOK
    <3>2. cmd[u] \in Cmds /\ status[cmd[u]] = "pending"
      BY <3>1 DEF OwnsWhatItUses, UsesOwned, NoLostWakeup
    <3>3. status'[cmd[u]] = "pending"
      BY <2>2, <3>2 DEF TypeOK
    <3> QED
      BY <3>1, <3>3
  <2>4. \A q2 \in Queues : pc'[q2] = pc[q2]
    BY <1>t, <2>2 DEF TypeOK
  <2> QED
    BY <2>2, <2>3, <2>4 DEF NoLostWakeup
<1>2. CASE \E u \in Clients, o \in Objects : Share(t, u, o)
  <2>1. LetsSleep(t)
    BY <1>2 DEF Share, LetsSleep, thVars, evVars, qVars
  <2> QED
    BY <1>t, <2>1, SleepersKept
<1>3. CASE \E q \in Queues : CreateQueue(t, q)
  <2>1. /\ pc[t] = "idle" /\ cmd' = cmd /\ items' = items /\ exit' = exit /\ status' = status
        /\ pc' = pc \/ \E q \in Queues : pc' = [pc EXCEPT ![q] = "loop"]
    BY <1>3 DEF CreateQueue, Goto, thVars, evVars, qVars
  <2>2. LetsSleep(t)
    BY <1>t, <2>1 DEF LetsSleep, TypeOK
  <2> QED
    BY <1>t, <2>2, SleepersKept
<1>4. CASE \/ \E q \in Queues : ReleaseQueue(t, q)
           \/ \E c \in Cmds : CallWait(t, c) \/ ReleaseEvent(t, c)
  <2>1. /\ items' = items /\ exit' = exit /\ status' = status
        /\ \E l \in {"qExit", "wait", "evDrop", "idle"} : pc' = [pc EXCEPT ![t] = l]
        /\ \E c \in Cmds \cup {NoCmd} : cmd' = [cmd EXCEPT ![t] = c]
    BY <1>4 DEF ReleaseQueue, CallWait, ReleaseEvent, Goto, evVars, qVars
  <2>2. LetsSleep(t)
    BY <1>t, <2>1 DEF LetsSleep, TypeOK
  <2> QED
    BY <1>t, <2>2, SleepersKept
<1>5. CASE ReleaseDevice(t)
  <2>1. LetsSleep(t)
    BY <1>5 DEF ReleaseDevice, LetsSleep, thVars, evVars, qVars
  <2> QED
    BY <1>t, <2>1, SleepersKept
<1> QED
  BY <1>1, <1>2, <1>3, <1>4, <1>5 DEF Call

LEMMA DestructorSleepers ==
  ASSUME TypeOK, NoLostWakeup, NEW t \in Threads, Destructor(t)
  PROVE  NoLostWakeup'
<1>1. CASE QExit(t)
  <2>1. PICK q : q = qu[t]
    OBVIOUS
  <2>2. /\ items' = items /\ cmd' = cmd /\ status' = status /\ q \in Queues
        /\ exit' = [exit EXCEPT ![q] = TRUE]
        /\ \A u \in Threads : pc'[u] = IF u = t THEN "qJoin"
                                      ELSE IF u = q THEN Woken(q) ELSE pc[u]
    BY <1>1, <2>1 DEF QExit, thVars, evVars, TypeOK
  <2>3. Woken(q) # "asleep"
    BY DEF Woken
  <2>4. \A u \in Threads : pc'[u] = "asleep" => u # q /\ pc[u] = "asleep"
    BY <2>2, <2>3
  <2>5. Clients \subseteq Threads /\ Queues \subseteq Threads
    BY DEF Threads
  <2>6. \A x \in Queues : x # q => exit'[x] = exit[x]
    BY <2>2 DEF TypeOK
  <2> QED
    BY <2>2, <2>4, <2>5, <2>6 DEF NoLostWakeup
<1>2. CASE ~QExit(t)
  <2>1. /\ items' = items /\ exit' = exit /\ status' = status /\ cmd' = cmd
        /\ \E l \in {"qExit", "evFree", "qClose", "qSync", "qFree", "loop", "idle"} :
             pc' = [pc EXCEPT ![t] = l]
    BY <1>2 DEF Destructor, EvDrop, QJoin, QSync, QClose, QFree, EvFree, Goto, Return,
       thVars, evVars, qVars
  <2>2. LetsSleep(t)
    BY <2>1 DEF LetsSleep, TypeOK
  <2> QED
    BY <2>2, SleepersKept
<1> QED
  BY <1>1, <1>2

LEMMA ContinueSleepers ==
  ASSUME TypeOK, NoLostWakeup, NEW t \in Clients, Continue(t)
  PROVE  NoLostWakeup'
<1>t. t \in Threads /\ t \notin Queues /\ Clients \subseteq Threads /\ Queues \subseteq Threads
      /\ \A q \in Queues : q \notin Clients
  BY Disjoint DEF Threads
<1>1. CASE Push(t)
  <2>1. PICK q : q = qu[t]
    OBVIOUS
  <2>2. /\ q \in Queues /\ exit' = exit /\ cmd' = cmd /\ status' = status
        /\ items' = [items EXCEPT ![q] = Append(@, cmd[t])]
        /\ pc' = [pc EXCEPT ![t] = IF sync[t] THEN "wait" ELSE "idle",
                            ![q] = IF items[q] = <<>> THEN Woken(q) ELSE @]
    BY <1>t, <1>1, <2>1 DEF Push, thVars, evVars, TypeOK
  <2>3. ASSUME NEW x \in Queues, pc'[x] = "asleep" PROVE items'[x] = <<>> /\ ~exit'[x]
    <3>1. CASE x # q
      <4>1. pc'[x] = pc[x] /\ items'[x] = items[x]
        BY <1>t, <2>2, <3>1 DEF TypeOK
      <4> QED
        BY <2>2, <2>3, <4>1 DEF NoLostWakeup
    <3>2. CASE x = q
      <4>1. pc'[q] = IF items[q] = <<>> THEN Woken(q) ELSE pc[q]
        BY <1>t, <2>2 DEF TypeOK
      <4>2. items[q] # <<>> /\ pc[q] = "asleep"
        BY <2>3, <3>2, <4>1 DEF Woken
      <4> QED
        BY <2>2, <4>2 DEF NoLostWakeup
    <3> QED
      BY <3>1, <3>2
  <2>4. \A u \in Clients : pc'[u] = "asleep" => pc[u] = "asleep"
    BY <1>t, <2>2 DEF TypeOK
  <2> QED
    BY <2>2, <2>3, <2>4 DEF NoLostWakeup
<1>2. CASE WaitCheck(t)
  <2>1. /\ items' = items /\ exit' = exit /\ cmd' = cmd /\ status' = status
        /\ pc' = [pc EXCEPT ![t] = IF status[cmd[t]] = "pending" THEN "asleep"
                                    ELSE IF sync[t] THEN "unref" ELSE "idle"]
    BY <1>2 DEF WaitCheck, Goto, thVars, evVars, qVars
  <2>2. \A u \in Threads : pc'[u] = "asleep" =>
          pc[u] = "asleep" \/ (u = t /\ status[cmd[t]] = "pending")
    BY <1>t, <2>1 DEF TypeOK
  <2> QED
    BY <1>t, <2>1, <2>2 DEF NoLostWakeup
<1>3. CASE \E c \in Cmds : ReleaseEvent(t, c)
  <2>1. /\ items' = items /\ exit' = exit /\ status' = status
        /\ \E l \in {"evDrop", "idle"} : pc' = [pc EXCEPT ![t] = l]
        /\ \E c \in Cmds : cmd' = [cmd EXCEPT ![t] = c]
    BY <1>3 DEF ReleaseEvent, Goto, evVars, qVars
  <2>2. LetsSleep(t)
    BY <1>t, <2>1 DEF LetsSleep, TypeOK
  <2> QED
    BY <1>t, <2>2, SleepersKept
<1>4. CASE Destructor(t)
  BY <1>t, <1>4, DestructorSleepers
<1> QED
  BY <1>1, <1>2, <1>3, <1>4 DEF Continue

LEMMA WorkerSleepers ==
  ASSUME TypeOK, OwnsWhatItUses, NoLostWakeup, NEW q \in Queues, Worker(q)
  PROVE  NoLostWakeup'
<1>t. q \in Threads /\ q \notin Clients /\ Clients \subseteq Threads /\ Queues \subseteq Threads
  BY Disjoint DEF Threads
<1>1. CASE WorkerLoop(q) \/ WorkerDrop(q)
  <2>1. /\ items' = items /\ exit' = exit /\ status' = status /\ cmd' = cmd
        /\ \E l \in {"done", "check", "evDrop", "loop"} : pc' = [pc EXCEPT ![q] = l]
    BY <1>1 DEF WorkerLoop, WorkerDrop, Goto, thVars, evVars, qVars
  <2>2. LetsSleep(q)
    BY <1>t, <2>1 DEF LetsSleep, TypeOK
  <2> QED
    BY <1>t, <2>2, SleepersKept
<1>2. CASE WorkerDequeue(q)
  <2>1. /\ exit' = exit /\ status' = status
        /\ pc' = [pc EXCEPT ![q] = "run"]
        /\ items' = [items EXCEPT ![q] = Tail(@)]
        /\ cmd' = [cmd EXCEPT ![q] = Head(items[q])]
    BY <1>2 DEF WorkerDequeue, Goto, evVars
  <2>2. \A u \in Threads : pc'[u] = "asleep" =>
          pc[u] = "asleep" /\ u # q /\ cmd'[u] = cmd[u]
    BY <1>t, <2>1 DEF TypeOK
  <2>3. \A x \in Queues : x # q => items'[x] = items[x]
    BY <2>1 DEF TypeOK
  <2> QED
    BY <1>t, <2>1, <2>2, <2>3 DEF NoLostWakeup
<1>3. CASE WorkerIdle(q)
  <2>1. /\ items' = items /\ exit' = exit /\ status' = status /\ cmd' = cmd
        /\ items[q] = <<>>
        /\ pc' = [pc EXCEPT ![q] = IF exit[q] THEN "done" ELSE "asleep"]
    BY <1>3 DEF WorkerIdle, Goto, thVars, evVars, qVars
  <2>2. \A u \in Threads : pc'[u] = "asleep" => pc[u] = "asleep" \/ (u = q /\ ~exit[q])
    BY <1>t, <2>1 DEF TypeOK
  <2> QED
    BY <1>t, <2>1, <2>2 DEF NoLostWakeup
<1>4. CASE WorkerComplete(q)
  <2>1. PICK c : c = cmd[q]
    OBVIOUS
  <2>2. items' = items /\ exit' = exit /\ cmd' = cmd
    BY <1>4 DEF WorkerComplete, thVars, qVars
  <2>3. CASE mem[c] = "none"
    <3>1. status' = status /\ pc' = [pc EXCEPT ![q] = "loop"]
      BY <1>4, <2>1, <2>3 DEF WorkerComplete, Goto
    <3>2. LetsSleep(q)
      BY <1>t, <2>2, <3>1 DEF LetsSleep, TypeOK
    <3> QED
      BY <1>t, <3>2, SleepersKept
  <2>4. CASE mem[c] # "none"
    <3>1. /\ \E s \in {"success", "failure"} : status' = [status EXCEPT ![c] = s]
          /\ \A u \in Threads : pc'[u] =
               IF u = q THEN "drop"
               ELSE IF u \in Clients /\ pc[u] = "asleep" /\ cmd[u] = c THEN "wait" ELSE pc[u]
      BY <1>4, <2>1, <2>4 DEF WorkerComplete
    <3>2. \A x \in Queues : pc'[x] = "asleep" => pc[x] = "asleep"
      BY <1>t, <3>1
    <3>3. \A u \in Clients : pc'[u] = "asleep" => pc[u] = "asleep" /\ cmd[u] # c
      BY <1>t, <3>1
    <3>4. \A u \in Clients : cmd[u] # c => status'[cmd[u]] = status[cmd[u]]
                                          \/ cmd[u] \notin Cmds
      BY <3>1 DEF TypeOK
    <3>5. \A u \in Clients : pc[u] = "asleep" => cmd[u] \in Cmds
      BY DEF OwnsWhatItUses, UsesOwned
    <3> QED
      BY <2>2, <3>2, <3>3, <3>4, <3>5 DEF NoLostWakeup
  <2> QED
    BY <2>3, <2>4
<1>5. CASE Destructor(q)
  BY <1>t, <1>5, DestructorSleepers
<1> QED
  BY <1>1, <1>2, <1>3, <1>4, <1>5 DEF Worker

(* No wake-up is lost, whatever clients push, release and wait for while   *)
(* workers go to sleep: a worker sleeps only over an empty list of a queue *)
(* that is not being destroyed, a client only on a pending event.          *)
THEOREM NoWakeupLost == Spec => []NoLostWakeup
<1>1. Init => NoLostWakeup
  BY Disjoint DEF Init, NoLostWakeup, Threads
<1>2. IInv /\ NoLostWakeup /\ [Next]_vars => NoLostWakeup'
  <2> SUFFICES ASSUME IInv, NoLostWakeup, [Next]_vars PROVE NoLostWakeup'
    OBVIOUS
  <2>t. TypeOK /\ OwnsWhatItUses
    BY DEF IInv
  <2>1. ASSUME NEW t \in Threads, SpuriousWakeup(t) PROVE NoLostWakeup'
    <3>1. /\ items' = items /\ exit' = exit /\ status' = status /\ cmd' = cmd
          /\ \E l \in {"check", "wait"} : pc' = [pc EXCEPT ![t] = l]
      BY <2>1 DEF SpuriousWakeup, Goto, thVars, evVars, qVars
    <3>2. LetsSleep(t)
      BY <2>t, <2>1, <3>1 DEF LetsSleep, TypeOK
    <3> QED
      BY <2>1, <3>2, SleepersKept
  <2>2. CASE UNCHANGED vars
    BY <2>2 DEF vars, NoLostWakeup
  <2> QED
    BY <2>t, <2>1, <2>2, CallSleepers, ContinueSleepers, WorkerSleepers DEF Next
<1> QED
  BY <1>1, <1>2, Invariance, PTL DEF Spec

(* A pending event always has a worker that will get to it, unless the     *)
(* queue never got a worker.                                               *)
THEOREM NobodyStranded == Spec => []PendingHasWorker
<1>1. IInv => PendingHasWorker
  <2> SUFFICES ASSUME IInv, NEW c \in Cmds, status[c] = "pending"
               PROVE  /\ mem[c] = "live" => req[c] \in {"made", "queued", "running"}
                      /\ mem[parent[c]] = "live" /\ ~exit[parent[c]]
                      /\ ~localExit[parent[c]]
                      /\ \/ Threadless(parent[c])
                         \/ pc[parent[c]] \notin {"none", "done"}
    BY DEF PendingHasWorker
  <2>1. mem[c] # "none" /\ req[c] \in Unprocessed
    BY DEF IInv, PendingRequests, Pending
  <2>2. mem[c] = "live"
    BY <2>1, RequestKeepsEvent DEF RequestOwnsEvent, Unprocessed
  <2>3. parent[c] \in Queues /\ mem[parent[c]] = "live"
    BY <2>2, EventKeepsQueue DEF HoldsParent
  <2>4. ExitStage(parent[c]) /\ WorkerUses(parent[c])
    BY <2>3 DEF IInv, Shutdown, Workers
  <2>5. ThreadCreateMayFail \in BOOLEAN
    BY ConstantsAssumption
  <2> QED
    BY <2>1, <2>2, <2>3, <2>4, <2>5 DEF ExitStage, WorkerUses, Unprocessed, Threadless
<1> QED
  BY <1>1, Invariance, PTL
=============================================================================
