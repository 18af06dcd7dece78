--------------------------- MODULE XrpRequestList ---------------------------
(***************************************************************************)
(* The request list of one queue and its worker, pointer by pointer        *)
(* (xrp_threaded_queue.c): head, tail and the next field of every request, *)
(* the mutex and condition variable of request_queue_cond, and             *)
(* xrp_queue_destroy.  Between taking and dropping the mutex a thread is   *)
(* in the middle of an update and the list is not well formed.             *)
(*                                                                         *)
(* A request is a block of memory: the worker frees it and malloc may hand *)
(* it out again, with whatever its next field happens to hold.             *)
(***************************************************************************)
EXTENDS Naturals, Sequences

CONSTANTS
  Producers,  \* threads that push requests
  Worker,     \* the thread of the queue
  Requests,   \* blocks of memory that hold a struct xrp_request
  NULL

Threads == Producers \cup {Worker}

ASSUME NamesDiffer == Worker \notin Producers /\ NULL \notin Requests \cup Threads

VARIABLES
  head, tail,  \* request_queue.head and .tail
  next,        \* next[r]: the next field of r, allocated or not
  free,        \* the blocks that are not allocated
  mutex,       \* the thread that holds request_queue_cond.mutex, or NULL
  exit,        \* request_queue.exit
  localExit,   \* the variable *sync_exit points at
  mode,        \* who is in xrp_queue_destroy: "open", "drain" or "abandon"
  destroyed,   \* has xrp_queue_destroy returned?
  pc,          \* pc[t]: where thread t is
  rq,          \* rq[t]: the request t pushes or handles, or NULL
  order        \* history: the requests in the list, as they were pushed

listVars == <<head, tail, next, order>>
endVars  == <<exit, localExit, mode, destroyed>>
vars     == <<head, tail, next, order, exit, localExit, mode, destroyed,
              free, mutex, pc, rq>>

Destroying == {"destroy", "exit", "join", "last"}
Locked     == {"link", "tail", "take", "advance", "exit"}
ProducerPCs == {"idle", "push", "link", "tail"} \cup Destroying
WorkerPCs   == {"lock", "take", "advance", "asleep", "run", "done"} \cup Destroying

TypeOK ==
  /\ head \in Requests \cup {NULL} /\ tail \in Requests \cup {NULL}
  /\ next \in [Requests -> Requests \cup {NULL}]
  /\ free \in SUBSET Requests
  /\ mutex \in Threads \cup {NULL}
  /\ exit \in BOOLEAN /\ localExit \in BOOLEAN /\ destroyed \in BOOLEAN
  /\ mode \in {"open", "drain", "abandon"}
  /\ pc \in [Threads -> ProducerPCs \cup WorkerPCs]
  /\ pc[Worker] \in WorkerPCs /\ \A p \in Producers : pc[p] \in ProducerPCs
  /\ rq \in [Threads -> Requests \cup {NULL}]
  /\ order \in Seq(Requests)

(* xrp_queue_init: the struct comes zeroed from alloc_refcounted.          *)
Init ==
  /\ head = NULL /\ tail = NULL
  /\ next \in [Requests -> Requests \cup {NULL}]
  /\ free = Requests
  /\ mutex = NULL
  /\ exit = FALSE /\ localExit = FALSE /\ destroyed = FALSE
  /\ mode = "open"
  /\ pc = [t \in Threads |-> IF t = Worker THEN "lock" ELSE "idle"]
  /\ rq = [t \in Threads |-> NULL]
  /\ order = <<>>

Goto(t, l) == pc' = [pc EXCEPT ![t] = l]

(* t continues at l, and a broadcast wakes the worker.                     *)
GotoAndWake(t, l) ==
  pc' = [u \in Threads |-> IF u = t THEN l
                           ELSE IF u = Worker /\ pc[u] = "asleep" THEN "lock"
                           ELSE pc[u]]

Lock(t, from, to) ==
  /\ pc[t] = from /\ mutex = NULL
  /\ mutex' = t
  /\ Goto(t, to)

-----------------------------------------------------------------------------
(* Mutants: plausible bugs in the action each is named after.              *)
LinkKeepsNext(p) ==                    \* rq->next = NULL forgotten
  /\ pc[p] = "link"
  /\ IF tail # NULL
     THEN /\ next' = [next EXCEPT ![tail] = rq[p]]
          /\ Goto(p, "tail")
          /\ UNCHANGED head
     ELSE /\ head' = rq[p]
          /\ GotoAndWake(p, "tail")
          /\ UNCHANGED next
  /\ order' = Append(order, rq[p])
  /\ UNCHANGED <<tail, endVars, free, mutex, rq>>

LinkNoBroadcast(p) ==                  \* the worker is not woken
  /\ pc[p] = "link"
  /\ IF tail # NULL
     THEN /\ next' = [next EXCEPT ![rq[p]] = NULL, ![tail] = rq[p]]
          /\ UNCHANGED head
     ELSE /\ next' = [next EXCEPT ![rq[p]] = NULL]
          /\ head' = rq[p]
  /\ Goto(p, "tail")
  /\ order' = Append(order, rq[p])
  /\ UNCHANGED <<tail, endVars, free, mutex, rq>>

TakeKeepsTail ==                       \* tail not reset by the last dequeue
  /\ pc[Worker] = "take" /\ head # NULL
  /\ rq' = [rq EXCEPT ![Worker] = head]
  /\ order' = IF order # <<>> THEN Tail(order) ELSE order
  /\ Goto(Worker, "advance")
  /\ UNCHANGED <<head, tail, next, endVars, free, mutex>>

JoinNoWait(t) ==                       \* the worker is not joined
  /\ pc[t] = "join"
  /\ Goto(t, "last")
  /\ UNCHANGED <<listVars, endVars, free, mutex, rq>>

ExitNoBroadcast(t) ==                  \* the worker is not told to exit
  /\ pc[t] = "exit"
  /\ exit' = TRUE
  /\ mutex' = NULL
  /\ Goto(t, "join")
  /\ UNCHANGED <<listVars, localExit, mode, destroyed, free, rq>>

-----------------------------------------------------------------------------
(* xrp_enqueue_command and xrp_queue_push.                                 *)

Alloc(p, r) ==
  /\ pc[p] = "idle" /\ mode = "open"
  /\ r \in free
  /\ free' = free \ {r}
  /\ next' \in {[next EXCEPT ![r] = n] : n \in Requests \cup {NULL}}
  /\ rq' = [rq EXCEPT ![p] = r]
  /\ Goto(p, "push")
  /\ UNCHANGED <<head, tail, order, endVars, mutex>>

PushLock(p) ==
  /\ Lock(p, "push", "link")
  /\ UNCHANGED <<listVars, endVars, free, rq>>

(* rq->next = NULL, then tail->next = rq, or head = rq and the broadcast.  *)
Link(p) ==
  /\ pc[p] = "link"
  /\ IF tail # NULL
     THEN /\ next' = [next EXCEPT ![rq[p]] = NULL, ![tail] = rq[p]]
          /\ Goto(p, "tail")
          /\ UNCHANGED head
     ELSE /\ next' = [next EXCEPT ![rq[p]] = NULL]
          /\ head' = rq[p]
          /\ GotoAndWake(p, "tail")
  /\ order' = Append(order, rq[p])
  /\ UNCHANGED <<tail, endVars, free, mutex, rq>>

SetTail(p) ==
  /\ pc[p] = "tail"
  /\ tail' = rq[p]
  /\ rq' = [rq EXCEPT ![p] = NULL]
  /\ mutex' = NULL
  /\ Goto(p, "idle")
  /\ UNCHANGED <<head, next, order, endVars, free>>

-----------------------------------------------------------------------------
(* xrp_queue_process and _xrp_dequeue_request.                             *)

WorkerLock ==
  /\ Lock(Worker, "lock", "take")
  /\ UNCHANGED <<listVars, endVars, free, rq>>

(* The list is not empty: rq = head, and tail = NULL if it is the last.    *)
Take ==
  /\ pc[Worker] = "take" /\ head # NULL
  /\ rq' = [rq EXCEPT ![Worker] = head]
  /\ tail' = IF head = tail THEN NULL ELSE tail
  /\ order' = IF order # <<>> THEN Tail(order) ELSE order
  /\ Goto(Worker, "advance")
  /\ UNCHANGED <<head, next, endVars, free, mutex>>

Advance ==
  /\ pc[Worker] = "advance"
  /\ head' = next[rq[Worker]]
  /\ mutex' = NULL
  /\ Goto(Worker, "run")
  /\ UNCHANGED <<tail, next, order, endVars, free, rq>>

(* The list is empty: leave for good, or wait, which drops the mutex.      *)
TakeNone ==
  /\ pc[Worker] = "take" /\ head = NULL
  /\ Goto(Worker, IF exit THEN "done" ELSE "asleep")
  /\ mutex' = NULL
  /\ UNCHANGED <<listVars, endVars, free, rq>>

(* queue->fn returns: the request has been freed.                          *)
Handled ==
  /\ pc[Worker] = "run"
  /\ free' = free \cup {rq[Worker]}
  /\ rq' = [rq EXCEPT ![Worker] = NULL]
  /\ Goto(Worker, IF localExit THEN "done" ELSE "lock")
  /\ UNCHANGED <<listVars, endVars, mutex>>

SpuriousWakeup ==
  /\ pc[Worker] = "asleep"
  /\ Goto(Worker, "lock")
  /\ UNCHANGED <<listVars, endVars, free, mutex, rq>>

-----------------------------------------------------------------------------
(* xrp_queue_destroy, once no producer uses the queue any more; the worker *)
(* may be the one that drops the last reference, inside queue->fn.         *)

Destroy(t) ==
  /\ mode = "open"
  /\ \A p \in Producers : pc[p] = "idle"
  /\ t = Worker => pc[t] = "run"
  /\ mode' = IF t = Worker THEN "abandon" ELSE "drain"
  /\ Goto(t, "destroy")
  /\ UNCHANGED <<listVars, exit, localExit, destroyed, free, mutex, rq>>

DestroyLock(t) ==
  /\ Lock(t, "destroy", "exit")
  /\ UNCHANGED <<listVars, endVars, free, rq>>

Exit(t) ==
  /\ pc[t] = "exit"
  /\ exit' = TRUE
  /\ mutex' = NULL
  /\ GotoAndWake(t, "join")
  /\ UNCHANGED <<listVars, localExit, mode, destroyed, free, rq>>

(* pthread_join of the worker by itself fails, and *sync_exit = 1.         *)
Join(t) ==
  /\ pc[t] = "join"
  /\ \/ t # Worker /\ pc[Worker] = "done" /\ UNCHANGED localExit
     \/ t = Worker /\ localExit' = TRUE
  /\ Goto(t, "last")
  /\ UNCHANGED <<listVars, exit, mode, destroyed, free, mutex, rq>>

(* The check for a non-empty queue, and xrp_cond_destroy.                  *)
DestroyCond(t) ==
  /\ pc[t] = "last" /\ mutex = NULL
  /\ destroyed' = TRUE
  /\ Goto(t, IF t = Worker THEN "run" ELSE "idle")
  /\ UNCHANGED <<listVars, exit, localExit, mode, free, mutex, rq>>

-----------------------------------------------------------------------------
Push(p) == PushLock(p) \/ Link(p) \/ SetTail(p)
Process == WorkerLock \/ Take \/ Advance \/ TakeNone \/ Handled
Destruct(t) == DestroyLock(t) \/ Exit(t) \/ Join(t) \/ DestroyCond(t)

Next ==
  \/ \E p \in Producers : (\E r \in Requests : Alloc(p, r)) \/ Push(p)
  \/ Process \/ SpuriousWakeup
  \/ \E t \in Threads : Destroy(t) \/ Destruct(t)

(* Threads are scheduled, and a thread that asks for the mutex gets it if  *)
(* it is released again and again (a worker that is woken for no reason    *)
(* takes and drops it over and over).                                      *)
Fairness ==
  /\ \A p \in Producers : WF_vars(Push(p)) /\ SF_vars(PushLock(p))
  /\ WF_vars(Process) /\ SF_vars(WorkerLock)
  /\ \A t \in Threads : WF_vars(Destruct(t)) /\ SF_vars(DestroyLock(t))

Spec == Init /\ [][Next]_vars
FairSpec == Spec /\ Fairness

-----------------------------------------------------------------------------
(* The refinement mapping: what is in the list, and what the worker has.   *)
Channel == INSTANCE XrpChannel WITH contents <- order, taken <- rq[Worker]

(* The list is an ordered channel: whatever the interleaving, and although *)
(* a request may be pushed again as soon as it is freed, the worker gets   *)
(* the requests in the order of the pushes, each once.                     *)
IsChannel == Channel!Spec

(* And it is a live one: no request is left in the list of a sleeping      *)
(* worker, although xrp_queue_push only wakes it for an empty list.        *)
IsLiveChannel == Channel!FairSpec

(* Outside the critical sections head, tail and the next fields spell out  *)
(* the history; inside them, as far as the section has come.               *)
HeadExact ==
  /\ pc[Worker] # "advance" => head = IF order = <<>> THEN NULL ELSE order[1]
  /\ pc[Worker] = "advance" =>
       /\ head = rq[Worker]
       /\ next[head] = IF order = <<>> THEN NULL ELSE order[1]
TailExact ==
  /\ (\A p \in Producers : pc[p] # "tail") =>
       tail = IF order = <<>> THEN NULL ELSE order[Len(order)]
  /\ \A p \in Producers : pc[p] = "tail" =>
       /\ order # <<>> /\ rq[p] = order[Len(order)]
       /\ tail = IF Len(order) = 1 THEN NULL ELSE order[Len(order) - 1]
NextExact ==
  \A i \in 1 .. Len(order) :
    next[order[i]] = IF i = Len(order) THEN NULL ELSE order[i + 1]
ListExact == HeadExact /\ TailExact /\ NextExact

(* xrp_cond_destroy: the mutex is free and nobody can ever take it again,  *)
(* neither a producer nor the worker.                                      *)
DestroyedQuiet ==
  destroyed =>
    /\ mutex = NULL
    /\ \A p \in Producers : pc[p] = "idle"
    /\ pc[Worker] = "done" \/ (pc[Worker] = "run" /\ localExit)

(* xrp_queue_destroy returns: the join is not left waiting for a worker    *)
(* that missed the broadcast.                                              *)
DestroyReturns == mode # "open" ~> destroyed

-----------------------------------------------------------------------------
(* The inductive invariant behind IsChannel, ListExact and DestroyedQuiet. *)

MutexHeld == \A t \in Threads : pc[t] \in Locked <=> mutex = t

(* A block is free, in the list, or with one thread.                       *)
Listed(r) == \E i \in 1 .. Len(order) : order[i] = r
HasRequest(t) ==
  IF t = Worker THEN pc[t] \in {"advance", "run"} \cup Destroying
                ELSE pc[t] \in {"push", "link", "tail"}
Owned ==
  /\ \A t \in Threads : rq[t] # NULL <=> HasRequest(t)
  /\ \A t \in Threads : rq[t] \notin free
  /\ \A t \in Threads : \A u \in Threads : rq[t] = rq[u] /\ t # u => rq[t] = NULL
  /\ \A t \in Threads : pc[t] # "tail" => ~Listed(rq[t])
  /\ \A i \in 1 .. Len(order) :
       /\ order[i] \notin free
       /\ \A j \in 1 .. Len(order) : i # j => order[i] # order[j]

(* There is one destroyer, it finds nobody else, and it outlives the       *)
(* worker or is the worker.                                                *)
Ending ==
  /\ mode = "open" =>
       ~destroyed /\ ~exit /\ ~localExit /\ \A t \in Threads : pc[t] \notin Destroying
  /\ mode # "open" => \A p \in Producers : pc[p] \notin {"push", "link", "tail"}
  /\ mode = "drain" => pc[Worker] \notin Destroying /\ ~localExit
  /\ mode = "abandon" =>
       /\ \A p \in Producers : pc[p] = "idle"
       /\ pc[Worker] \in Destroying \/ (destroyed /\ localExit /\ pc[Worker] \in {"run", "done"})
  /\ \A t \in Threads : pc[t] \in Destroying =>
       ~destroyed /\ \A u \in Threads : pc[u] \in Destroying => u = t
  /\ \A p \in Producers : pc[p] = "last" => pc[Worker] = "done"
  /\ pc[Worker] = "last" => localExit
  /\ mode = "drain" /\ destroyed => pc[Worker] = "done"

IInv == TypeOK /\ MutexHeld /\ Owned /\ ListExact /\ Ending
=============================================================================
