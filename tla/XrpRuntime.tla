----------------------------- MODULE XrpRuntime -----------------------------
(***************************************************************************)
(* Lifetime and scheduling of the host side XRP objects built by           *)
(* xrp/CMakeLists.txt: the device, its command queues, the worker thread   *)
(* of every queue and the completion events (xrp_host_common.c,            *)
(* xrp_threaded_queue.c, hosted/xrp_linux.c).                              *)
(*                                                                         *)
(* Every object carries an atomic reference count.  A client thread may    *)
(* use an object while it owns a reference; the worker thread of a queue   *)
(* uses the queue WITHOUT owning one, and may itself drop the last         *)
(* reference to it (an event keeps its queue alive, and the worker owns a  *)
(* reference to the event it completes).                                   *)
(*                                                                         *)
(* The worker thread of queue q is named q.  A command c names both its    *)
(* struct xrp_request and, when the caller asked for one, its struct       *)
(* xrp_event.  Sections under one mutex, and single atomic operations, are *)
(* one step.  The linked list of requests is the sequence items[q]: its    *)
(* pointers are the subject of XrpRequestList.                             *)
(***************************************************************************)
EXTENDS Naturals, Sequences, FiniteSets

CONSTANTS
  Clients,              \* application threads
  Queues,               \* queues, and their worker threads
  Cmds,                 \* commands; each is enqueued at most once
  Device,               \* the one struct xrp_device
  NoCmd,                \* NULL
  ThreadCreateMayFail   \* may pthread_create fail in xrp_queue_init?

Objects == Queues \cup Cmds \cup {Device}
Threads == Clients \cup Queues

ASSUME ConstantsAssumption ==
  /\ IsFiniteSet(Clients) /\ IsFiniteSet(Queues) /\ IsFiniteSet(Cmds)
  /\ Clients \cap Objects = {} /\ Queues \cap Cmds = {}
  /\ Device \notin Queues \cup Cmds
  /\ NoCmd \notin Cmds
  /\ ThreadCreateMayFail \in BOOLEAN

VARIABLES
  ref,        \* ref[o]: struct xrp_refcounted.count
  mem,        \* mem[o]: see MemStates
  own,        \* own[t]: the objects client t owns a reference to
  pc,         \* pc[t]: where thread t is
  cmd,        \* cmd[t]: the request or event the thread works on
  qu,         \* qu[t]: the queue the thread works on
  sync,       \* sync[t]: is t inside xrp_run_command_sync?
  parent,     \* parent[c]: event->queue, and the queue a request went to
  status,     \* status[c]: event->status
  req,        \* req[c]: life of the struct xrp_request
  items,      \* items[q]: request_queue.head .. request_queue.tail
  exit,       \* exit[q]: request_queue.exit
  syncExit,   \* syncExit[q]: has request_queue.sync_exit been pointed at the worker's frame?
  localExit   \* localExit[q]: the worker's local variable exit

objVars == <<ref, mem, own>>
evVars  == <<parent, status>>
thVars  == <<cmd, qu, sync>>
qVars   == <<items, exit, syncExit, localExit>>
vars    == <<ref, mem, own, pc, cmd, qu, sync, parent, status, req,
             items, exit, syncExit, localExit>>

(* "closing": the count reached 0 and the destructor runs, still holding   *)
(* the reference to the parent object; "shut": that reference is released  *)
(* and free() has not run yet.                                             *)
MemStates == {"none", "live", "closing", "shut", "freed"}
Allocated == {"live", "closing", "shut"}
HoldsParent == {"live", "closing"}

DestructorPCs == {"evDrop", "qExit", "qJoin", "qSync", "qClose", "qFree", "evFree"}
ClientPCs == {"idle", "push", "wait", "asleep", "unref"} \cup DestructorPCs
WorkerPCs == {"none", "loop", "check", "asleep", "run", "drop", "done"} \cup DestructorPCs

TypeOK ==
  /\ ref \in [Objects -> Nat]
  /\ mem \in [Objects -> MemStates]
  /\ own \in [Clients -> SUBSET Objects]
  /\ pc \in [Threads -> ClientPCs \cup WorkerPCs]
  /\ \A t \in Clients : pc[t] \in ClientPCs
  /\ \A q \in Queues : pc[q] \in WorkerPCs
  /\ cmd \in [Threads -> Cmds \cup {NoCmd}]
  /\ qu \in [Threads -> Queues]
  /\ sync \in [Clients -> BOOLEAN]
  /\ parent \in [Cmds -> Queues]
  /\ status \in [Cmds -> {"none", "pending", "success", "failure"}]
  /\ req \in [Cmds -> {"none", "made", "queued", "running", "freed"}]
  /\ items \in [Queues -> Seq(Cmds)]
  /\ exit \in [Queues -> BOOLEAN]
  /\ syncExit \in [Queues -> BOOLEAN]
  /\ localExit \in [Queues -> BOOLEAN]

(* One client has just opened the device; no queue exists.                 *)
Init ==
  /\ ref = [o \in Objects |-> IF o = Device THEN 1 ELSE 0]
  /\ mem = [o \in Objects |-> IF o = Device THEN "live" ELSE "none"]
  /\ \E t \in Clients : own = [u \in Clients |-> IF u = t THEN {Device} ELSE {}]
  /\ pc = [t \in Threads |-> IF t \in Queues THEN "none" ELSE "idle"]
  /\ cmd = [t \in Threads |-> NoCmd]
  /\ qu \in {[t \in Threads |-> q] : q \in Queues}
  /\ sync = [t \in Clients |-> FALSE]
  /\ parent \in {[c \in Cmds |-> q] : q \in Queues}
  /\ status = [c \in Cmds |-> "none"]
  /\ req = [c \in Cmds |-> "none"]
  /\ items = [q \in Queues |-> <<>>]
  /\ exit = [q \in Queues |-> FALSE]
  /\ syncExit = [q \in Queues |-> FALSE]
  /\ localExit = [q \in Queues |-> FALSE]

-----------------------------------------------------------------------------
(* last_release_refcounted(o) is about to return true.                     *)
LastRefAfterDec(o) == ref[o] = 0      \* mutant: compared as if already decremented
LastRef(o) == ref[o] = 1
Dec(o) == ref' = [ref EXCEPT ![o] = @ - 1]
Goto(t, l) == pc' = [pc EXCEPT ![t] = l]

(* Where a thread continues when a destructor it ran returns.              *)
Return(t) == IF t \in Queues THEN "loop" ELSE "idle"

(* The pc of worker q after a broadcast on request_queue_cond.             *)
Woken(q) == IF pc[q] = "asleep" THEN "check" ELSE pc[q]

-----------------------------------------------------------------------------
(* Mutants: plausible bugs, each the body of the action it is named after  *)
(* with one step wrong.  They only serve to show that the properties bite. *)

CreateQueueNoRetain(t, q) ==          \* the queue does not retain its device
  /\ pc[t] = "idle"
  /\ Device \in own[t] /\ mem[q] = "none"
  /\ ref' = [ref EXCEPT ![q] = 1]
  /\ mem' = [mem EXCEPT ![q] = "live"]
  /\ own' = [own EXCEPT ![t] = @ \cup {q}]
  /\ Goto(q, "loop")
  /\ UNCHANGED <<thVars, evVars, req, qVars>>

EnqueueWith(t, q, c, kind, evRefs, qRefs) ==
  /\ pc[t] = "idle"
  /\ q \in own[t] /\ req[c] = "none" /\ kind = "event"
  /\ mem' = [mem EXCEPT ![c] = "live"]
  /\ ref' = [ref EXCEPT ![c] = evRefs, ![q] = @ + qRefs]
  /\ own' = [own EXCEPT ![t] = @ \cup {c}]
  /\ status' = [status EXCEPT ![c] = "pending"]
  /\ req' = [req EXCEPT ![c] = "made"]
  /\ parent' = [parent EXCEPT ![c] = q]
  /\ cmd' = [cmd EXCEPT ![t] = c]
  /\ qu' = [qu EXCEPT ![t] = q]
  /\ Goto(t, "push")
  /\ UNCHANGED <<sync, qVars>>
EnqueueOneRef(t, q, c, kind) == EnqueueWith(t, q, c, kind, 1, 1)
EnqueueNoRetain(t, q, c, kind) == EnqueueWith(t, q, c, kind, 2, 0)

PushNoBroadcast(t) ==                 \* the worker is not woken
  /\ pc[t] = "push"
  /\ items' = [items EXCEPT ![qu[t]] = Append(@, cmd[t])]
  /\ req' = [req EXCEPT ![cmd[t]] = "queued"]
  /\ Goto(t, IF sync[t] THEN "wait" ELSE "idle")
  /\ UNCHANGED <<objVars, thVars, evVars, exit, syncExit, localExit>>

QExitNoBroadcast(t) ==                \* nor is it woken to exit
  /\ pc[t] = "qExit"
  /\ exit' = [exit EXCEPT ![qu[t]] = TRUE]
  /\ Goto(t, "qJoin")
  /\ UNCHANGED <<objVars, thVars, evVars, req, items, syncExit, localExit>>

QJoinNoWait(t) ==                     \* the worker is not joined
  /\ pc[t] = "qJoin" /\ Goto(t, "qClose")
  /\ UNCHANGED <<objVars, thVars, evVars, req, qVars>>

WorkerCompleteNoBroadcast(q) ==       \* the waiters are not woken
  /\ pc[q] = "run" /\ mem[cmd[q]] # "none"
  /\ status' = [status EXCEPT ![cmd[q]] = "success"]
  /\ Goto(q, "drop")
  /\ UNCHANGED <<objVars, thVars, parent, req, qVars>>

SpuriousWakeupReturns(t) ==           \* if instead of while around pthread_cond_wait
  /\ pc[t] = "asleep"
  /\ Goto(t, IF t \in Queues THEN "check" ELSE IF sync[t] THEN "unref" ELSE "idle")
  /\ UNCHANGED <<objVars, thVars, evVars, req, qVars>>

-----------------------------------------------------------------------------
(* Calls of the application.  A failed allocation undoes what the call did *)
(* and leaves every variable unchanged, so it is a stuttering step.        *)

(* xrp_retain_*: t takes a reference and gives the pointer to thread u.    *)
Share(t, u, o) ==
  /\ pc[t] = "idle"
  /\ o \in own[t] /\ o \notin own[u]
  /\ ref' = [ref EXCEPT ![o] = @ + 1]
  /\ own' = [own EXCEPT ![u] = @ \cup {o}]
  /\ UNCHANGED <<mem, pc, thVars, evVars, req, qVars>>

CreateQueue(t, q) ==
  /\ pc[t] = "idle"
  /\ Device \in own[t] /\ mem[q] = "none"
  /\ ref' = [ref EXCEPT ![Device] = @ + 1, ![q] = 1]
  /\ mem' = [mem EXCEPT ![q] = "live"]
  /\ own' = [own EXCEPT ![t] = @ \cup {q}]
  /\ \/ Goto(q, "loop")
     \/ ThreadCreateMayFail /\ UNCHANGED pc
  /\ UNCHANGED <<thVars, evVars, req, qVars>>

(* xrp_enqueue_command up to xrp_queue_push.  kind: with an event, without *)
(* one, or on behalf of xrp_run_command_sync.                              *)
Enqueue(t, q, c, kind) ==
  /\ pc[t] = "idle"
  /\ q \in own[t] /\ req[c] = "none"
  /\ \/ /\ kind \in {"event", "sync"}
        /\ mem' = [mem EXCEPT ![c] = "live"]
        /\ ref' = [ref EXCEPT ![c] = 2, ![q] = @ + 1]
        /\ own' = [own EXCEPT ![t] = @ \cup {c}]
        /\ status' = [status EXCEPT ![c] = "pending"]
     \/ /\ kind = "noevent"
        /\ UNCHANGED <<objVars, status>>
  /\ req' = [req EXCEPT ![c] = "made"]
  /\ parent' = [parent EXCEPT ![c] = q]
  /\ cmd' = [cmd EXCEPT ![t] = c]
  /\ qu' = [qu EXCEPT ![t] = q]
  /\ sync' = [sync EXCEPT ![t] = (kind = "sync")]
  /\ Goto(t, "push")
  /\ UNCHANGED qVars

(* xrp_queue_push: only a push onto the empty list broadcasts.             *)
Push(t) ==
  LET q == qu[t]
      c == cmd[t]
  IN /\ pc[t] = "push"
     /\ items' = [items EXCEPT ![q] = Append(@, c)]
     /\ req' = [req EXCEPT ![c] = "queued"]
     /\ pc' = [pc EXCEPT ![t] = IF sync[t] THEN "wait" ELSE "idle",
                         ![q] = IF items[q] = <<>> THEN Woken(q) ELSE @]
     /\ UNCHANGED <<objVars, thVars, evVars, exit, syncExit, localExit>>

CallWait(t, c) ==
  /\ pc[t] = "idle" /\ c \in own[t] \cap Cmds
  /\ cmd' = [cmd EXCEPT ![t] = c]
  /\ Goto(t, "wait")
  /\ UNCHANGED <<objVars, qu, sync, evVars, req, qVars>>

(* The loop of xrp_wait, under the event's mutex.                          *)
WaitCheck(t) ==
  /\ pc[t] = "wait"
  /\ Goto(t, IF status[cmd[t]] = "pending" THEN "asleep"
             ELSE IF sync[t] THEN "unref" ELSE "idle")
  /\ UNCHANGED <<objVars, thVars, evVars, req, qVars>>

(* xrp_release_event, by the application or at the end of                  *)
(* xrp_run_command_sync.                                                   *)
ReleaseEvent(t, c) ==
  /\ \/ pc[t] = "idle" /\ c \in own[t] \cap Cmds
     \/ pc[t] = "unref" /\ c = cmd[t]
  /\ own' = [own EXCEPT ![t] = @ \ {c}]
  /\ Dec(c)
  /\ mem' = IF LastRef(c) THEN [mem EXCEPT ![c] = "closing"] ELSE mem
  /\ Goto(t, IF LastRef(c) THEN "evDrop" ELSE "idle")
  /\ cmd' = [cmd EXCEPT ![t] = c]
  /\ sync' = [sync EXCEPT ![t] = FALSE]
  /\ UNCHANGED <<qu, evVars, req, qVars>>

ReleaseQueue(t, q) ==
  /\ pc[t] = "idle" /\ q \in own[t] \cap Queues
  /\ own' = [own EXCEPT ![t] = @ \ {q}]
  /\ Dec(q)
  /\ mem' = IF LastRef(q) THEN [mem EXCEPT ![q] = "closing"] ELSE mem
  /\ Goto(t, IF LastRef(q) THEN "qExit" ELSE "idle")
  /\ cmd' = [cmd EXCEPT ![t] = NoCmd]
  /\ qu' = [qu EXCEPT ![t] = q]
  /\ UNCHANGED <<sync, evVars, req, qVars>>

ReleaseDevice(t) ==
  /\ pc[t] = "idle" /\ Device \in own[t]
  /\ own' = [own EXCEPT ![t] = @ \ {Device}]
  /\ Dec(Device)
  /\ mem' = IF LastRef(Device) THEN [mem EXCEPT ![Device] = "freed"] ELSE mem
  /\ UNCHANGED <<pc, thVars, evVars, req, qVars>>

-----------------------------------------------------------------------------
(* The destructors, run by whichever thread dropped the last reference.    *)

(* xrp_release_event: the event's mutex is destroyed and its queue         *)
(* released.                                                               *)
EvDrop(t) ==
  LET c == cmd[t]
      q == parent[c]
  IN /\ pc[t] = "evDrop"
     /\ Dec(q)
     /\ mem' = [mem EXCEPT ![c] = "shut",
                           ![q] = IF LastRef(q) THEN "closing" ELSE @]
     /\ Goto(t, IF LastRef(q) THEN "qExit" ELSE "evFree")
     /\ qu' = [qu EXCEPT ![t] = q]
     /\ UNCHANGED <<own, cmd, sync, evVars, req, qVars>>

(* xrp_queue_destroy sets exit under the mutex and broadcasts.             *)
QExit(t) ==
  LET q == qu[t]
  IN /\ pc[t] = "qExit"
     /\ exit' = [exit EXCEPT ![q] = TRUE]
     /\ pc' = [u \in Threads |-> IF u = t THEN "qJoin"
                                 ELSE IF u = q THEN Woken(q) ELSE pc[u]]
     /\ UNCHANGED <<objVars, thVars, evVars, req, items, syncExit, localExit>>

(* pthread_join waits for another thread, and fails at once when the       *)
(* caller is the worker itself (EDEADLK) or the thread was never created.  *)
QJoin(t) ==
  LET q == qu[t]
  IN /\ pc[t] = "qJoin"
     /\ \/ t # q /\ pc[q] = "done" /\ Goto(t, "qClose")
        \/ (t = q \/ pc[q] = "none") /\ Goto(t, "qSync")
     /\ UNCHANGED <<objVars, thVars, evVars, req, qVars>>

(* *queue->sync_exit = 1; a NULL sync_exit ends the process here.          *)
QSync(t) ==
  LET q == qu[t]
  IN /\ pc[t] = "qSync"
     /\ syncExit[q]
     /\ localExit' = [localExit EXCEPT ![q] = TRUE]
     /\ Goto(t, "qClose")
     /\ UNCHANGED <<objVars, thVars, evVars, req, items, exit, syncExit>>

(* The end of xrp_queue_destroy and xrp_release_device(queue->device).     *)
QClose(t) ==
  LET q == qu[t]
  IN /\ pc[t] = "qClose"
     /\ Dec(Device)
     /\ mem' = [mem EXCEPT ![q] = "shut",
                           ![Device] = IF LastRef(Device) THEN "freed" ELSE @]
     /\ Goto(t, "qFree")
     /\ UNCHANGED <<own, thVars, evVars, req, qVars>>

QFree(t) ==
  /\ pc[t] = "qFree"
  /\ mem' = [mem EXCEPT ![qu[t]] = "freed"]
  /\ Goto(t, IF cmd[t] # NoCmd THEN "evFree" ELSE Return(t))
  /\ UNCHANGED <<ref, own, thVars, evVars, req, qVars>>

EvFree(t) ==
  /\ pc[t] = "evFree"
  /\ mem' = [mem EXCEPT ![cmd[t]] = "freed"]
  /\ Goto(t, Return(t))
  /\ UNCHANGED <<ref, own, thVars, evVars, req, qVars>>

Destructor(t) ==
  EvDrop(t) \/ QExit(t) \/ QJoin(t) \/ QSync(t) \/ QClose(t) \/ QFree(t) \/ EvFree(t)

-----------------------------------------------------------------------------
(* The worker thread: xrp_queue_thread, xrp_queue_process and              *)
(* xrp_request_process.                                                    *)

(* while (xrp_queue_process(queue)), and the first statements of that      *)
(* function: a fresh exit = 0 whose address goes to queue->sync_exit.      *)
WorkerLoop(q) ==
  /\ pc[q] = "loop"
  /\ Goto(q, IF localExit[q] THEN "done" ELSE "check")
  /\ syncExit' = [syncExit EXCEPT ![q] = @ \/ ~localExit[q]]
  /\ UNCHANGED <<objVars, thVars, evVars, req, items, exit, localExit>>

WorkerDequeue(q) ==
  /\ pc[q] = "check" /\ items[q] # <<>>
  /\ cmd' = [cmd EXCEPT ![q] = Head(items[q])]
  /\ items' = [items EXCEPT ![q] = Tail(@)]
  /\ req' = [req EXCEPT ![Head(items[q])] = "running"]
  /\ Goto(q, "run")
  /\ UNCHANGED <<objVars, qu, sync, evVars, exit, syncExit, localExit>>

(* Nothing queued: xrp_queue_process returns 0, or waits for a broadcast.  *)
WorkerIdle(q) ==
  /\ pc[q] = "check" /\ items[q] = <<>>
  /\ Goto(q, IF exit[q] THEN "done" ELSE "asleep")
  /\ UNCHANGED <<objVars, thVars, evVars, req, qVars>>

(* The ioctl returns and xrp_impl_broadcast_event signals the event.  A    *)
(* request without an event is just freed.                                 *)
WorkerComplete(q) ==
  LET c == cmd[q]
  IN /\ pc[q] = "run"
     /\ \/ /\ mem[c] # "none"
           /\ \E s \in {"success", "failure"} : status' = [status EXCEPT ![c] = s]
           /\ pc' = [u \in Threads |->
                       IF u = q THEN "drop"
                       ELSE IF u \in Clients /\ pc[u] = "asleep" /\ cmd[u] = c
                            THEN "wait" ELSE pc[u]]
           /\ UNCHANGED req
        \/ /\ mem[c] = "none"
           /\ req' = [req EXCEPT ![c] = "freed"]
           /\ Goto(q, "loop")
           /\ UNCHANGED status
     /\ UNCHANGED <<objVars, thVars, parent, qVars>>

(* xrp_release_event(rq->event); the request is freed with it.             *)
WorkerDrop(q) ==
  LET c == cmd[q]
  IN /\ pc[q] = "drop"
     /\ req' = [req EXCEPT ![c] = "freed"]
     /\ Dec(c)
     /\ mem' = IF LastRef(c) THEN [mem EXCEPT ![c] = "closing"] ELSE mem
     /\ Goto(q, IF LastRef(c) THEN "evDrop" ELSE "loop")
     /\ UNCHANGED <<own, thVars, evVars, qVars>>

(* pthread_cond_wait may return without a broadcast.                       *)
SpuriousWakeup(t) ==
  /\ pc[t] = "asleep"
  /\ Goto(t, IF t \in Queues THEN "check" ELSE "wait")
  /\ UNCHANGED <<objVars, thVars, evVars, req, qVars>>

-----------------------------------------------------------------------------
Worker(q) ==
  \/ WorkerLoop(q) \/ WorkerDequeue(q) \/ WorkerIdle(q)
  \/ WorkerComplete(q) \/ WorkerDrop(q)
  \/ Destructor(q)

(* What the application chooses to do.                                     *)
Call(t) ==
  \/ \E u \in Clients, o \in Objects : Share(t, u, o)
  \/ \E q \in Queues : CreateQueue(t, q) \/ ReleaseQueue(t, q)
  \/ \E q \in Queues, c \in Cmds, kind \in {"event", "sync", "noevent"} :
       Enqueue(t, q, c, kind)
  \/ \E c \in Cmds : CallWait(t, c) \/ (pc[t] = "idle" /\ ReleaseEvent(t, c))
  \/ ReleaseDevice(t)

(* What a client thread does inside a call it has made.                    *)
Continue(t) ==
  \/ Push(t) \/ WaitCheck(t)
  \/ \E c \in Cmds : pc[t] = "unref" /\ ReleaseEvent(t, c)
  \/ Destructor(t)

Next ==
  \/ \E t \in Clients : Call(t) \/ Continue(t)
  \/ \E q \in Queues : Worker(q)
  \/ \E t \in Threads : SpuriousWakeup(t)

(* Threads are scheduled and the ioctl returns; the application need not   *)
(* make another call, and nobody is owed a spurious wakeup.                *)
Fairness ==
  /\ \A t \in Clients : WF_vars(Continue(t))
  /\ \A q \in Queues : WF_vars(Worker(q))

Spec == Init /\ [][Next]_vars
FairSpec == Spec /\ Fairness

-----------------------------------------------------------------------------
(* Who owns a reference to an object: client threads by its pointer, a     *)
(* queue by queue->device, an event by event->queue, and a request that    *)
(* has not been processed by rq->event.                                    *)
RequestOwnsEvent(c) == mem[c] # "none" /\ req[c] \in {"made", "queued", "running"}
Owners(o) == {t \in Clients : o \in own[t]}
Holders(o) ==
  IF o \in Queues
  THEN Owners(o) \cup {c \in Cmds : mem[c] \in HoldsParent /\ parent[c] = o}
  ELSE IF o \in Cmds
  THEN Owners(o) \cup {c \in {o} : RequestOwnsEvent(c)}
  ELSE Owners(o) \cup {q \in Queues : mem[q] \in HoldsParent}

(* Every retain is paired with exactly one release on every path, success, *)
(* failure or self-destruction: the count of an object is always the       *)
(* number of its holders (xrp_host_common.h retain/last_release_refcounted *)
(* and all their callers).                                                 *)
RefExact == \A o \in Objects : ref[o] = Cardinality(Holders(o))

(* What the next step of a thread dereferences.                            *)
Touches(t) ==
  CASE pc[t] = "push" -> {qu[t]}
    [] pc[t] = "loop" -> IF localExit[t] THEN {} ELSE {t}
    [] pc[t] = "check" -> {t}
    [] pc[t] = "asleep" -> IF t \in Queues THEN {t} ELSE {cmd[t]}
    [] pc[t] = "run" -> {t, Device} \cup {c \in {cmd[t]} : mem[c] # "none"}
    [] pc[t] \in {"drop", "wait", "unref", "evFree"} -> {cmd[t]}
    [] pc[t] = "evDrop" -> {cmd[t], parent[cmd[t]]}
    [] pc[t] \in {"qExit", "qJoin", "qSync", "qFree"} -> {qu[t]}
    [] pc[t] = "qClose" -> {qu[t], Device}
    [] OTHER -> {}

(* No thread uses an object after free().  The worker owns no reference to *)
(* its queue (xrp_queue_init passes a plain pointer, and the queue's       *)
(* context is a plain pointer too), so this rests on pthread_join when a   *)
(* client destroys the queue and on *sync_exit when the worker itself does *)
(* (xrp_queue_destroy).                                                    *)
NoUseAfterFree ==
  \A t \in Threads : \A o \in Touches(t) : mem[o] \in Allocated

(* A queue that xrp_queue_init left without a thread, because it ignores    *)
(* the result of pthread_create.                                           *)
Threadless(q) == ThreadCreateMayFail /\ pc[q] = "none"

(* An event nobody has signalled still has its request on a live queue     *)
(* that is not being destroyed and whose worker goes on working, unless it *)
(* never had one: no waiter is stranded by a destroyed queue.              *)
PendingHasWorker ==
  \A c \in Cmds : status[c] = "pending" =>
    /\ mem[c] = "live" => req[c] \in {"made", "queued", "running"}
    /\ mem[parent[c]] = "live" /\ ~exit[parent[c]] /\ ~localExit[parent[c]]
    /\ Threadless(parent[c]) \/ pc[parent[c]] \notin {"none", "done"}

(* No wake-up is lost: the worker sleeps only over an empty list of a      *)
(* queue that nobody destroys, and a client only on an event that is still *)
(* pending (and that, by PendingHasWorker, a worker will get to).  It is   *)
(* what the broadcasts of xrp_queue_push (on an empty list only),          *)
(* xrp_queue_destroy and xrp_impl_broadcast_event are for.                 *)
NoLostWakeup ==
  /\ \A q \in Queues : pc[q] = "asleep" => items[q] = <<>> /\ ~exit[q]
  /\ \A t \in Clients : pc[t] = "asleep" => status[cmd[t]] = "pending"

(* A command enqueued with an event is completed and its event signalled,  *)
(* whatever the application does with the queue meanwhile (xrp_api.h:      *)
(* "it is signaled when the command execution is complete").               *)
CommandCompletes ==
  \A c \in Cmds :
    status[c] = "pending" ~> status[c] \in {"success", "failure"}

(* Every call returns: xrp_wait and xrp_run_command_sync are woken up, and *)
(* the join in xrp_queue_destroy ends.                                     *)
CallsReturn == \A t \in Clients : pc[t] # "idle" ~> pc[t] = "idle"

(* Once the application has released everything it owned, whatever the     *)
(* order, everything is freed, the device is closed and every worker       *)
(* thread is gone.                                                         *)
EverythingFreed ==
  (\A t \in Clients : own[t] = {})
    ~> /\ \A o \in Objects : mem[o] \in {"none", "freed"}
       /\ \A q \in Queues : pc[q] \in {"none", "done"}

(* Devices, queues and events live exactly as long as somebody holds them: *)
(* the life cycle of RefCounted, in which each object dies at the release  *)
(* of its last reference, by whichever thread, and is freed once           *)
(* (xrp_release_device, xrp_release_queue, xrp_release_event).             *)
Lives == INSTANCE RefCounted WITH
  life <- [o \in Objects |-> IF mem[o] \in {"closing", "shut"} THEN "dying" ELSE mem[o]],
  holders <- [o \in Objects |-> Holders(o)]
IsRefCounted == Lives!Spec

(* xrp_wait is the waiting of XrpEvents for a single event: it returns     *)
(* after the event has been completed, although the condition variable     *)
(* may wake it earlier, and it does return then, also when the completion  *)
(* came between its look at the status and its sleep.                      *)
Waits == INSTANCE XrpEvents WITH
  Waiters <- Clients, Events <- Cmds,
  done <- {c \in Cmds : status[c] \in {"success", "failure"}},
  waiting <- [t \in Clients |-> IF pc[t] \in {"wait", "asleep"} THEN {cmd[t]} ELSE {}]
IsEvents == Waits!Spec
IsFairEvents == Waits!FairSpec

(* What xrp_api.h says of a command whether or not it has an event         *)
(* ("it queues a command to DSP"): the queue is not destroyed with the     *)
(* command still in it.                                                    *)
NothingAbandoned ==
  \A c \in Cmds : req[c] = "queued" => mem[parent[c]] # "freed"
=============================================================================
