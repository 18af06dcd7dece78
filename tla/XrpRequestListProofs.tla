------------------------ MODULE XrpRequestListProofs ------------------------
(* Proofs about XrpRequestList for any number of producers and requests:   *)
(* its inductive invariant, and that it implements XrpChannel (safety).    *)
EXTENDS XrpRequestList, SequenceTheorems, TLAPS

USE NamesDiffer DEF Threads, ProducerPCs, WorkerPCs, Destroying, listVars, endVars

(* The list starts empty and well formed.                                  *)
LEMMA InitIInv == Init => IInv
<1> SUFFICES ASSUME Init PROVE IInv
  OBVIOUS
<1> USE DEF Init
<1>1. TypeOK
  <2>1. next \in [Requests -> Requests \cup {NULL}] /\ order \in Seq(Requests)
    OBVIOUS
  <2> QED BY <2>1 DEF TypeOK
<1>2. MutexHeld
  BY DEF MutexHeld, Locked
<1>3. Owned
  <2>1. Len(order) = 0 /\ \A i \in 1 .. Len(order) : FALSE
    OBVIOUS
  <2> QED BY <2>1 DEF Owned, HasRequest, Listed
<1>4. ListExact
  BY DEF ListExact, HeadExact, TailExact, NextExact
<1>5. Ending
  BY DEF Ending
<1> QED BY <1>1, <1>2, <1>3, <1>4, <1>5 DEF IInv

(* What is left of a sequence without its first element.                   *)
LEMMA TailOfSeq ==
  ASSUME NEW S, NEW s \in Seq(S), s # <<>>
  PROVE  /\ Len(Tail(s)) = Len(s) - 1 /\ Len(s) \in Nat /\ Len(s) > 0
         /\ Tail(s) = <<>> <=> Len(s) = 1
         /\ 1 \in 1 .. Len(s)
         /\ \A i \in 1 .. Len(Tail(s)) : Tail(s)[i] = s[i + 1] /\ i + 1 \in 1 .. Len(s)
         /\ Len(s) # 1 => Tail(s)[1] = s[1 + 1]
<1>1. Len(s) \in Nat /\ Len(s) > 0
  OBVIOUS
<1>2. Tail(s) \in Seq(S) /\ Len(Tail(s)) = Len(s) - 1
  OBVIOUS
<1>3. Tail(s) = <<>> <=> Len(Tail(s)) = 0
  BY <1>2, EmptySeq
<1>4. \A i \in 1 .. Len(Tail(s)) : Tail(s)[i] = s[i + 1] /\ i + 1 \in 1 .. Len(s)
  BY <1>1, <1>2
<1>5. Len(s) # 1 => 1 \in 1 .. Len(Tail(s))
  BY <1>1, <1>2
<1> QED BY <1>1, <1>2, <1>3, <1>4, <1>5

(* xrp_enqueue_command allocates a request.                                *)
LEMMA AllocStep ==
  ASSUME IInv, NEW p \in Producers, NEW r \in Requests, Alloc(p, r)
  PROVE  IInv' /\ [Channel!Next]_(Channel!vars)
<1> USE DEF IInv, Alloc, Goto
<1>1. TypeOK'
  BY DEF TypeOK
<1>2. MutexHeld'
  BY DEF TypeOK, MutexHeld, Locked
<1>3. Owned'
  BY DEF TypeOK, Owned, HasRequest, Listed
<1>4. ListExact'
  BY DEF TypeOK, MutexHeld, Locked, Owned, HasRequest, Listed, ListExact, HeadExact, TailExact, NextExact
<1>5. Ending'
  BY DEF TypeOK, Ending, Owned, HasRequest
<1>6. UNCHANGED Channel!vars
  BY DEF TypeOK, Channel!vars
<1> QED BY <1>1, <1>2, <1>3, <1>4, <1>5, <1>6

(* xrp_queue_push takes the mutex.                                         *)
LEMMA PushLockStep ==
  ASSUME IInv, NEW p \in Producers, PushLock(p)
  PROVE  IInv' /\ [Channel!Next]_(Channel!vars)
<1> USE DEF IInv, PushLock, Lock, Goto
<1>1. TypeOK'
  BY DEF TypeOK
<1>2. MutexHeld'
  BY DEF TypeOK, MutexHeld, Locked
<1>3. Owned'
  BY DEF TypeOK, Owned, HasRequest, Listed
<1>4. ListExact'
  BY DEF TypeOK, MutexHeld, Locked, Owned, HasRequest, Listed, ListExact, HeadExact, TailExact, NextExact
<1>5. Ending'
  BY DEF TypeOK, Ending, Owned, HasRequest
<1>6. UNCHANGED Channel!vars
  BY DEF TypeOK, Channel!vars
<1> QED BY <1>1, <1>2, <1>3, <1>4, <1>5, <1>6

(* xrp_queue_push links the request.                                       *)
LEMMA LinkStep ==
  ASSUME IInv, NEW p \in Producers, Link(p)
  PROVE  IInv' /\ [Channel!Next]_(Channel!vars)
<1> USE DEF IInv, Link, Goto, GotoAndWake
<1>r. rq[p] \in Requests /\ rq[p] # rq[Worker]
  BY DEF TypeOK, Owned, HasRequest
<1>1. TypeOK'
  BY <1>r DEF TypeOK
<1>2. MutexHeld'
  BY <1>r DEF TypeOK, MutexHeld, Locked
<1>3. Owned'
  BY <1>r DEF TypeOK, Owned, HasRequest, Listed
<1>a. /\ order \in Seq(Requests) /\ order' = Append(order, rq[p])
      /\ Len(order') = Len(order) + 1 /\ order'[Len(order')] = rq[p]
      /\ \A i \in 1 .. Len(order) : order'[i] = order[i] /\ order[i] \in Requests
  BY <1>r DEF TypeOK
<1>n. pc[Worker] # "advance" /\ \A q \in Producers : pc[q] # "tail"
  BY DEF TypeOK, MutexHeld, Locked
<1>l. tail = IF order = <<>> THEN NULL ELSE order[Len(order)]
  BY <1>n DEF ListExact, TailExact
<1>d. /\ \A i \in 1 .. Len(order) : order[i] # rq[p]
      /\ \A i \in 1 .. Len(order) : \A j \in 1 .. Len(order) : i # j => order[i] # order[j]
  BY <1>r DEF Owned, Listed
<1>4. ListExact'
  <2>1. HeadExact'
    BY <1>a, <1>n, <1>r, <1>l DEF TypeOK, ListExact, HeadExact
  <2>2. TailExact'
    BY <1>a, <1>n, <1>r, <1>l DEF TypeOK, TailExact, MutexHeld, Locked
  <2>3. NextExact'
    <3> SUFFICES ASSUME NEW i \in 1 .. Len(order')
                 PROVE  next'[order'[i]] = IF i = Len(order') THEN NULL ELSE order'[i + 1]
      BY DEF NextExact
    <3>1. CASE i = Len(order')
      BY <3>1, <1>a, <1>r, <1>l, <1>d DEF TypeOK
    <3>2. CASE i = Len(order)
      BY <3>2, <1>a, <1>r, <1>l, <1>d DEF TypeOK
    <3>3. CASE i \in 1 .. Len(order) /\ i # Len(order)
      BY <3>3, <1>a, <1>r, <1>l, <1>d DEF TypeOK, ListExact, NextExact
    <3> QED BY <3>1, <3>2, <3>3, <1>a
  <2> QED BY <2>1, <2>2, <2>3 DEF ListExact
<1>5. Ending'
  BY <1>r DEF TypeOK, Ending, Owned, HasRequest
<1>6. Channel!Push(rq[p])
  BY <1>r DEF TypeOK, Owned, HasRequest, Listed, Ending, Channel!Members, Channel!Push, Channel!HandOver, Channel!Finish, Channel!Close, Channel!CloseInHandler
<1> QED BY <1>1, <1>2, <1>3, <1>4, <1>5, <1>6, <1>r DEF Channel!Next

(* xrp_queue_push sets the tail and drops the mutex.                       *)
LEMMA SetTailStep ==
  ASSUME IInv, NEW p \in Producers, SetTail(p)
  PROVE  IInv' /\ [Channel!Next]_(Channel!vars)
<1> USE DEF IInv, SetTail, Goto
<1>1. TypeOK'
  BY DEF TypeOK
<1>2. MutexHeld'
  BY DEF TypeOK, MutexHeld, Locked
<1>3. Owned'
  BY DEF TypeOK, Owned, HasRequest, Listed
<1>4. ListExact'
  BY DEF TypeOK, MutexHeld, Locked, Owned, HasRequest, Listed, ListExact, HeadExact, TailExact, NextExact
<1>5. Ending'
  BY DEF TypeOK, Ending, Owned, HasRequest
<1>6. UNCHANGED Channel!vars
  BY DEF TypeOK, Channel!vars
<1> QED BY <1>1, <1>2, <1>3, <1>4, <1>5, <1>6

(* The worker takes the mutex.                                             *)
LEMMA WorkerLockStep ==
  ASSUME IInv, WorkerLock
  PROVE  IInv' /\ [Channel!Next]_(Channel!vars)
<1> USE DEF IInv, WorkerLock, Lock, Goto
<1>1. TypeOK'
  BY DEF TypeOK
<1>2. MutexHeld'
  BY DEF TypeOK, MutexHeld, Locked
<1>3. Owned'
  BY DEF TypeOK, Owned, HasRequest, Listed
<1>4. ListExact'
  BY DEF TypeOK, MutexHeld, Locked, Owned, HasRequest, Listed, ListExact, HeadExact, TailExact, NextExact
<1>5. Ending'
  BY DEF TypeOK, Ending, Owned, HasRequest
<1>6. UNCHANGED Channel!vars
  BY DEF TypeOK, Channel!vars
<1> QED BY <1>1, <1>2, <1>3, <1>4, <1>5, <1>6

(* _xrp_dequeue_request finds a request.                                   *)
LEMMA TakeStep ==
  ASSUME IInv, Take
  PROVE  IInv' /\ [Channel!Next]_(Channel!vars)
<1> USE DEF IInv, Take, Goto
<1>e. /\ order # <<>> /\ order \in Seq(Requests)
      /\ head = order[1] /\ head \in Requests
  BY DEF TypeOK, ListExact, HeadExact
<1>n. \A q \in Producers : pc[q] # "tail"
  BY DEF TypeOK, MutexHeld, Locked
<1>o. /\ order' = Tail(order) /\ Len(order') = Len(order) - 1 /\ Len(order) > 0
      /\ \A i \in 1 .. Len(order') : order'[i] = order[i + 1] /\ i + 1 \in 1 .. Len(order)
  BY <1>e, TailOfSeq
<1>f. /\ order' = <<>> <=> Len(order) = 1
      /\ 1 \in 1 .. Len(order)
      /\ Len(order) # 1 => order'[1] = order[1 + 1]
  BY <1>e, <1>o, TailOfSeq
<1>t. tail = order[Len(order)]
  BY <1>e, <1>n DEF ListExact, TailExact
<1>1. TypeOK'
  BY <1>e DEF TypeOK
<1>2. MutexHeld'
  BY DEF TypeOK, MutexHeld, Locked
<1>d. /\ \A i \in 1 .. Len(order) : \A j \in 1 .. Len(order) : i # j => order[i] # order[j]
      /\ \A i \in 1 .. Len(order) : order[i] \notin free
      /\ \A t \in Threads : pc[t] # "tail" => \A i \in 1 .. Len(order) : order[i] # rq[t]
  BY DEF Owned, Listed
<1>3. Owned'
  <2>1. \A t \in Threads : rq'[t] # NULL <=> HasRequest(t)'
    BY <1>e DEF TypeOK, Owned, HasRequest
  <2>2. \A t \in Threads : rq'[t] \notin free'
    BY <1>e, <1>d, <1>o DEF TypeOK, Owned
  <2>3. \A t, u \in Threads : rq'[t] = rq'[u] /\ t # u => rq'[t] = NULL
    BY <1>e, <1>d, <1>o, <1>n DEF TypeOK, Owned
  <2>4. \A t \in Threads : pc'[t] # "tail" => ~Listed(rq[t])'
    BY <1>e, <1>d, <1>o, <1>n DEF TypeOK, Listed
  <2>5. \A i \in 1 .. Len(order') :
          /\ order'[i] \notin free'
          /\ \A j \in 1 .. Len(order') : i # j => order'[i] # order'[j]
    <3> SUFFICES ASSUME NEW i \in 1 .. Len(order')
                 PROVE  /\ order'[i] \notin free'
                        /\ \A j \in 1 .. Len(order') : i # j => order'[i] # order'[j]
      OBVIOUS
    <3> QED BY <1>d, <1>o
  <2> QED BY <2>1, <2>2, <2>3, <2>4, <2>5 DEF Owned
<1>x. \A i \in 1 .. Len(order) :
        next[order[i]] = IF i = Len(order) THEN NULL ELSE order[i + 1]
  BY DEF ListExact, NextExact
<1>4. ListExact'
  <2>1. HeadExact'
    <3>1. next[head] = IF Len(order) = 1 THEN NULL ELSE order[2]
      <4>1. next[order[1]] = IF 1 = Len(order) THEN NULL ELSE order[1 + 1]
        BY <1>f, <1>x
      <4> QED BY <4>1, <1>e
    <3>2. pc'[Worker] = "advance" /\ rq'[Worker] = head /\ UNCHANGED <<head, next>>
      BY DEF TypeOK
    <3> QED BY <1>f, <3>1, <3>2 DEF HeadExact
  <2>2. TailExact'
    <3>2. Len(order) # 1 => order'[Len(order')] = order[Len(order)] /\ head # tail
      BY <1>e, <1>o, <1>t, <1>d
    <3>3. Len(order) = 1 => head = tail
      BY <1>e, <1>t
    <3>4. \A q \in Producers : pc'[q] # "tail"
      BY <1>n DEF TypeOK
    <3> QED BY <1>f, <3>2, <3>3, <3>4, <1>t DEF TailExact
  <2>3. NextExact'
    <3> SUFFICES ASSUME NEW i \in 1 .. Len(order')
                 PROVE  next'[order'[i]] = IF i = Len(order') THEN NULL ELSE order'[i + 1]
      BY DEF NextExact
    <3>1. next[order[i + 1]] = IF i + 1 = Len(order) THEN NULL ELSE order[i + 2]
      BY <1>x, <1>o
    <3>2. i # Len(order') => order'[i + 1] = order[i + 2]
      BY <1>o
    <3> QED BY <3>1, <3>2, <1>o
  <2> QED BY <2>1, <2>2, <2>3 DEF ListExact
<1>5. Ending'
  BY DEF TypeOK, Ending, Owned, HasRequest
<1>6. Channel!HandOver
  BY <1>e DEF TypeOK, Owned, HasRequest, Listed, Ending, Channel!Members, Channel!Push, Channel!HandOver, Channel!Finish, Channel!Close, Channel!CloseInHandler
<1> QED BY <1>1, <1>2, <1>3, <1>4, <1>5, <1>6 DEF Channel!Next

(* _xrp_dequeue_request moves head, and the worker drops the mutex.        *)
LEMMA AdvanceStep ==
  ASSUME IInv, Advance
  PROVE  IInv' /\ [Channel!Next]_(Channel!vars)
<1> USE DEF IInv, Advance, Goto
<1>r. rq[Worker] \in Requests
  BY DEF TypeOK, Owned, HasRequest
<1>1. TypeOK'
  BY <1>r DEF TypeOK
<1>2. MutexHeld'
  BY <1>r DEF TypeOK, MutexHeld, Locked
<1>3. Owned'
  BY <1>r DEF TypeOK, Owned, HasRequest, Listed
<1>4. ListExact'
  BY <1>r DEF TypeOK, MutexHeld, Locked, Owned, HasRequest, Listed, ListExact, HeadExact, TailExact, NextExact
<1>5. Ending'
  BY <1>r DEF TypeOK, Ending, Owned, HasRequest
<1>6. UNCHANGED Channel!vars
  BY DEF TypeOK, Channel!vars
<1> QED BY <1>1, <1>2, <1>3, <1>4, <1>5, <1>6

(* The worker finds nothing.                                               *)
LEMMA TakeNoneStep ==
  ASSUME IInv, TakeNone
  PROVE  IInv' /\ [Channel!Next]_(Channel!vars)
<1> USE DEF IInv, TakeNone, Goto
<1>1. TypeOK'
  BY DEF TypeOK
<1>2. MutexHeld'
  BY DEF TypeOK, MutexHeld, Locked
<1>3. Owned'
  BY DEF TypeOK, Owned, HasRequest, Listed
<1>4. ListExact'
  BY DEF TypeOK, MutexHeld, Locked, Owned, HasRequest, Listed, ListExact, HeadExact, TailExact, NextExact
<1>5. Ending'
  BY DEF TypeOK, Ending, Owned, HasRequest
<1>6. UNCHANGED Channel!vars
  BY DEF TypeOK, Channel!vars
<1> QED BY <1>1, <1>2, <1>3, <1>4, <1>5, <1>6

(* queue->fn returns.                                                      *)
LEMMA HandledStep ==
  ASSUME IInv, Handled
  PROVE  IInv' /\ [Channel!Next]_(Channel!vars)
<1> USE DEF IInv, Handled, Goto
<1>r. rq[Worker] \in Requests
  BY DEF TypeOK, Owned, HasRequest
<1>1. TypeOK'
  BY <1>r DEF TypeOK
<1>2. MutexHeld'
  BY <1>r DEF TypeOK, MutexHeld, Locked
<1>3. Owned'
  BY <1>r DEF TypeOK, Owned, HasRequest, Listed
<1>4. ListExact'
  BY <1>r DEF TypeOK, MutexHeld, Locked, Owned, HasRequest, Listed, ListExact, HeadExact, TailExact, NextExact
<1>5. Ending'
  BY <1>r DEF TypeOK, Ending, Owned, HasRequest
<1>6. Channel!Finish
  BY <1>r DEF TypeOK, Owned, HasRequest, Listed, Ending, Channel!Members, Channel!Push, Channel!HandOver, Channel!Finish, Channel!Close, Channel!CloseInHandler
<1> QED BY <1>1, <1>2, <1>3, <1>4, <1>5, <1>6 DEF Channel!Next

(* The worker wakes up for no reason.                                      *)
LEMMA SpuriousWakeupStep ==
  ASSUME IInv, SpuriousWakeup
  PROVE  IInv' /\ [Channel!Next]_(Channel!vars)
<1> USE DEF IInv, SpuriousWakeup, Goto
<1>1. TypeOK'
  BY DEF TypeOK
<1>2. MutexHeld'
  BY DEF TypeOK, MutexHeld, Locked
<1>3. Owned'
  BY DEF TypeOK, Owned, HasRequest, Listed
<1>4. ListExact'
  BY DEF TypeOK, MutexHeld, Locked, Owned, HasRequest, Listed, ListExact, HeadExact, TailExact, NextExact
<1>5. Ending'
  BY DEF TypeOK, Ending, Owned, HasRequest
<1>6. UNCHANGED Channel!vars
  BY DEF TypeOK, Channel!vars
<1> QED BY <1>1, <1>2, <1>3, <1>4, <1>5, <1>6

(* xrp_queue_destroy is called.                                            *)
LEMMA DestroyStep ==
  ASSUME IInv, NEW t \in Threads, Destroy(t)
  PROVE  IInv' /\ [Channel!Next]_(Channel!vars)
<1> USE DEF IInv, Destroy, Goto
<1>1. TypeOK'
  BY DEF TypeOK
<1>2. MutexHeld'
  BY DEF TypeOK, MutexHeld, Locked
<1>3. Owned'
  BY DEF TypeOK, Owned, HasRequest, Listed
<1>4. ListExact'
  BY DEF TypeOK, MutexHeld, Locked, Owned, HasRequest, Listed, ListExact, HeadExact, TailExact, NextExact
<1>5. Ending'
  BY DEF TypeOK, Ending, Owned, HasRequest
<1>6. Channel!Close \/ Channel!CloseInHandler
  BY DEF TypeOK, Owned, HasRequest, Listed, Ending, Channel!Members, Channel!Push, Channel!HandOver, Channel!Finish, Channel!Close, Channel!CloseInHandler
<1> QED BY <1>1, <1>2, <1>3, <1>4, <1>5, <1>6 DEF Channel!Next

(* xrp_queue_destroy takes the mutex.                                      *)
LEMMA DestroyLockStep ==
  ASSUME IInv, NEW t \in Threads, DestroyLock(t)
  PROVE  IInv' /\ [Channel!Next]_(Channel!vars)
<1> USE DEF IInv, DestroyLock, Lock, Goto
<1>1. TypeOK'
  BY DEF TypeOK
<1>2. MutexHeld'
  BY DEF TypeOK, MutexHeld, Locked
<1>3. Owned'
  BY DEF TypeOK, Owned, HasRequest, Listed
<1>4. ListExact'
  BY DEF TypeOK, MutexHeld, Locked, Owned, HasRequest, Listed, ListExact, HeadExact, TailExact, NextExact
<1>5. Ending'
  BY DEF TypeOK, Ending, Owned, HasRequest
<1>6. UNCHANGED Channel!vars
  BY DEF TypeOK, Channel!vars
<1> QED BY <1>1, <1>2, <1>3, <1>4, <1>5, <1>6

(* xrp_queue_destroy sets exit and broadcasts.                             *)
LEMMA ExitStep ==
  ASSUME IInv, NEW t \in Threads, Exit(t)
  PROVE  IInv' /\ [Channel!Next]_(Channel!vars)
<1> USE DEF IInv, Exit, GotoAndWake
<1>1. TypeOK'
  BY DEF TypeOK
<1>2. MutexHeld'
  BY DEF TypeOK, MutexHeld, Locked
<1>3. Owned'
  BY DEF TypeOK, Owned, HasRequest, Listed
<1>4. ListExact'
  BY DEF TypeOK, MutexHeld, Locked, Owned, HasRequest, Listed, ListExact, HeadExact, TailExact, NextExact
<1>5. Ending'
  BY DEF TypeOK, Ending, Owned, HasRequest
<1>6. UNCHANGED Channel!vars
  BY DEF TypeOK, Channel!vars
<1> QED BY <1>1, <1>2, <1>3, <1>4, <1>5, <1>6

(* xrp_queue_destroy joins the worker, or sets its exit variable.          *)
LEMMA JoinStep ==
  ASSUME IInv, NEW t \in Threads, Join(t)
  PROVE  IInv' /\ [Channel!Next]_(Channel!vars)
<1> USE DEF IInv, Join, Goto
<1>1. TypeOK'
  BY DEF TypeOK
<1>2. MutexHeld'
  BY DEF TypeOK, MutexHeld, Locked
<1>3. Owned'
  BY DEF TypeOK, Owned, HasRequest, Listed
<1>4. ListExact'
  BY DEF TypeOK, MutexHeld, Locked, Owned, HasRequest, Listed, ListExact, HeadExact, TailExact, NextExact
<1>5. Ending'
  BY DEF TypeOK, Ending, Owned, HasRequest
<1>6. UNCHANGED Channel!vars
  BY DEF TypeOK, Channel!vars
<1> QED BY <1>1, <1>2, <1>3, <1>4, <1>5, <1>6

(* xrp_queue_destroy destroys the mutex.                                   *)
LEMMA DestroyCondStep ==
  ASSUME IInv, NEW t \in Threads, DestroyCond(t)
  PROVE  IInv' /\ [Channel!Next]_(Channel!vars)
<1> USE DEF IInv, DestroyCond, Goto
<1>1. TypeOK'
  BY DEF TypeOK
<1>2. MutexHeld'
  BY DEF TypeOK, MutexHeld, Locked
<1>3. Owned'
  BY DEF TypeOK, Owned, HasRequest, Listed
<1>4. ListExact'
  BY DEF TypeOK, MutexHeld, Locked, Owned, HasRequest, Listed, ListExact, HeadExact, TailExact, NextExact
<1>5. Ending'
  BY DEF TypeOK, Ending, Owned, HasRequest
<1>6. UNCHANGED Channel!vars
  BY DEF TypeOK, Channel!vars
<1> QED BY <1>1, <1>2, <1>3, <1>4, <1>5, <1>6

(* Every step keeps the invariant and is a step of the channel or none.    *)
LEMMA NextStep ==
  ASSUME IInv, [Next]_vars
  PROVE  IInv' /\ [Channel!Next]_(Channel!vars)
<1>1. CASE UNCHANGED vars
  BY <1>1 DEF vars, IInv, TypeOK, MutexHeld, Owned, HasRequest, Listed, ListExact,
              HeadExact, TailExact, NextExact, Ending, Channel!vars
<1>2. CASE Next
  BY <1>2, AllocStep, PushLockStep, LinkStep, SetTailStep, WorkerLockStep, TakeStep,
     AdvanceStep, TakeNoneStep, HandledStep, SpuriousWakeupStep, DestroyStep,
     DestroyLockStep, ExitStep, JoinStep, DestroyCondStep
     DEF Next, Push, Process, Destruct
<1> QED BY <1>1, <1>2

(* The inductive invariant holds of every behaviour.                       *)
THEOREM ListInvariance == Spec => []IInv
<1>1. IInv /\ [Next]_vars => IInv'
  BY NextStep
<1> QED BY InitIInv, <1>1, PTL DEF Spec

(* xrp_queue_push and _xrp_dequeue_request keep head, tail and the next    *)
(* fields in step with the order of the pushes.                            *)
THEOREM ListStaysExact == Spec => []ListExact
<1>1. IInv => ListExact
  BY DEF IInv
<1> QED BY ListInvariance, <1>1, PTL

(* When xrp_queue_destroy destroys the mutex nobody holds it, and nobody   *)
(* ever asks for it again.                                                 *)
THEOREM DestroyIsQuiet == Spec => []DestroyedQuiet
<1>1. IInv => DestroyedQuiet
  BY DEF IInv, TypeOK, MutexHeld, Locked, Ending, DestroyedQuiet
<1> QED BY ListInvariance, <1>1, PTL

(* The pointer list implements the ordered channel of xrp_api.h.           *)
THEOREM ImplementsChannel == Spec => IsChannel
<1>1. Init => Channel!Init
  BY DEF Init, Channel!Init
<1>2. IInv /\ [Next]_vars => [Channel!Next]_(Channel!vars)
  BY NextStep
<1> QED BY <1>1, <1>2, ListInvariance, PTL DEF Spec, IsChannel, Channel!Spec
=============================================================================
