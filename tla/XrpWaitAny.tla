----------------------------- MODULE XrpWaitAny -----------------------------
(***************************************************************************)
(* xrp_wait_any and xrp_impl_broadcast_event (xrp_threaded_queue.c): how a *)
(* thread waits for the first of several events.                           *)
(*                                                                         *)
(* A waiter puts a link of its own into a doubly linked list at every      *)
(* event, and sleeps on a group event that lives on its stack.  A          *)
(* broadcaster walks the list of its event and signals the group of every  *)
(* link, holding the mutex of the event all the way.  The list of an event *)
(* is odd: event->group is the group of the link event->link, and          *)
(* link->group is the group of link->next.  Links and groups die when      *)
(* xrp_wait_any returns, so a list must never keep one longer than that.   *)
(*                                                                         *)
(* A section of a waiter under the mutex of an event is one step; the      *)
(* section of a broadcaster is many.  The group of waiter w is named w.    *)
(***************************************************************************)
EXTENDS Naturals, Sequences

CONSTANTS
  Waiters,    \* threads that call xrp_wait_any
  Events,     \* events, each completed once, by the worker of its queue
  Arrays,     \* the arrays of events they may be called with
  NULL

MaxLen == CHOOSE m \in {Len(a) : a \in Arrays} : \A a \in Arrays : Len(a) <= m

(* Link l is element l[2] of the array that waiter l[1] allocated.         *)
Links == Waiters \X (1 .. MaxLen)
Owner(l) == l[1]

(* n_events is a size_t, so some array is the longest.                     *)
ASSUME ConstantsAssumption ==
  /\ Arrays \subseteq Seq(Events) /\ <<>> \notin Arrays
  /\ \E b \in Arrays : \A a \in Arrays : Len(a) <= Len(b)
  /\ NULL \notin Waiters \cup Links /\ Waiters \cap Events = {}

VARIABLES
  status,     \* status[e]: has event e been completed?
  group,      \* group[e]: event->group
  link,       \* link[e]: event->link
  walker,     \* walker[e]: what the broadcaster of e is about to do
  at,         \* at[e]: its local variables, the group and the link it is at
  pc,         \* pc[w]: where waiter w is
  array,      \* array[w]: the events it waits for
  i, n,       \* i[w], n[w]: the loop counter and n_events
  rv,         \* rv[w]: the index it returns
  next, prev, \* next[l], prev[l]: the fields of link l
  lgroup,     \* lgroup[l]: l->group
  signaled,   \* signaled[w]: the status of the group is not pending
  known       \* history: was one of the events complete at the call?

evVars   == <<status, group, link>>
walkVars == <<walker, at>>
linkVars == <<next, prev, lgroup>>
waitVars == <<pc, array, i, n, rv, known>>
vars == <<status, group, link, walker, at, pc, array, i, n, rv, next, prev,
          lgroup, signaled, known>>

TypeOK ==
  /\ status \in [Events -> BOOLEAN]
  /\ group \in [Events -> Waiters \cup {NULL}]
  /\ link \in [Events -> Links \cup {NULL}]
  /\ walker \in [Events -> {"idle", "signal", "advance", "done"}]
  /\ at \in [Events -> [group : Waiters \cup {NULL}, link : Links \cup {NULL}]]
  /\ pc \in [Waiters -> {"idle", "link", "wait", "asleep", "unlink"}]
  /\ array \in [Waiters -> Arrays \cup {<<>>}]
  /\ i \in [Waiters -> 1 .. MaxLen + 1]
  /\ n \in [Waiters -> 0 .. MaxLen]
  /\ rv \in [Waiters -> 1 .. MaxLen + 1]
  /\ next \in [Links -> Links \cup {NULL}]
  /\ prev \in [Links -> Links \cup {NULL}]
  /\ lgroup \in [Links -> Waiters \cup {NULL}]
  /\ signaled \in [Waiters -> BOOLEAN]
  /\ known \in [Waiters -> BOOLEAN]

Init ==
  /\ status = [e \in Events |-> FALSE]
  /\ group = [e \in Events |-> NULL] /\ link = [e \in Events |-> NULL]
  /\ walker = [e \in Events |-> "idle"]
  /\ at = [e \in Events |-> [group |-> NULL, link |-> NULL]]
  /\ pc = [w \in Waiters |-> "idle"]
  /\ array = [w \in Waiters |-> <<>>]
  /\ i = [w \in Waiters |-> 1] /\ n = [w \in Waiters |-> 0]
  /\ rv = [w \in Waiters |-> 1]
  /\ next = [l \in Links |-> NULL] /\ prev = [l \in Links |-> NULL]
  /\ lgroup = [l \in Links |-> NULL]
  /\ signaled = [w \in Waiters |-> FALSE]
  /\ known = [w \in Waiters |-> FALSE]

(* The broadcaster of e holds the mutex of e from its first step on.       *)
Locked(e) == walker[e] \in {"signal", "advance"}
Here(w) == array[w][i[w]]
Mine(w) == <<w, i[w]>>

-----------------------------------------------------------------------------
(* Mutants: plausible bugs in the action each is named after.              *)
UnlinkWith(w, fixPrev, updateRv, locked) ==
  LET e == Here(w)  l == Mine(w)
  IN /\ pc[w] = "unlink" /\ i[w] <= n[w] /\ (locked => ~Locked(e))
     /\ group' = IF group[e] = w THEN [group EXCEPT ![e] = lgroup[l]] ELSE group
     /\ link' = IF group[e] = w THEN [link EXCEPT ![e] = next[l]] ELSE link
     /\ prev' = IF next[l] # NULL THEN [prev EXCEPT ![next[l]] = prev[l]] ELSE prev
     /\ IF fixPrev /\ prev[l] # NULL /\ lgroup[prev[l]] = w
        THEN /\ lgroup' = [lgroup EXCEPT ![prev[l]] = lgroup[l]]
             /\ next' = [next EXCEPT ![prev[l]] = next[l]]
        ELSE UNCHANGED <<lgroup, next>>
     /\ rv' = IF updateRv /\ status[e] THEN [rv EXCEPT ![w] = i[w]] ELSE rv
     /\ i' = [i EXCEPT ![w] = @ + 1]
     /\ UNCHANGED <<status, walkVars, pc, array, n, known, signaled>>
UnlinkNotFromPrev(w) == UnlinkWith(w, FALSE, TRUE, TRUE)  \* the previous link keeps it
UnlinkKeepsRv(w) == UnlinkWith(w, TRUE, FALSE, TRUE)      \* the event is not looked at
UnlinkUnlocked(w) == UnlinkWith(w, TRUE, TRUE, FALSE)     \* without the event's mutex

StopLinkingOneLess(w) ==                \* n_events = i - 1
  /\ pc[w] = "link" /\ i[w] <= n[w] /\ ~Locked(Here(w)) /\ status[Here(w)]
  /\ n' = [n EXCEPT ![w] = i[w] - 2]
  /\ rv' = [rv EXCEPT ![w] = i[w]]
  /\ i' = [i EXCEPT ![w] = 1]
  /\ pc' = [pc EXCEPT ![w] = "unlink"]
  /\ UNCHANGED <<evVars, walkVars, linkVars, array, known, signaled>>

LinkBlindly(w) ==                       \* event->status is not tested
  LET e == Here(w)  l == Mine(w)
  IN /\ pc[w] = "link" /\ i[w] <= n[w] /\ ~Locked(e)
     /\ lgroup' = [lgroup EXCEPT ![l] = group[e]]
     /\ next' = [next EXCEPT ![l] = link[e]]
     /\ prev' = IF link[e] # NULL THEN [prev EXCEPT ![link[e]] = l] ELSE prev
     /\ group' = [group EXCEPT ![e] = w]
     /\ link' = [link EXCEPT ![e] = l]
     /\ i' = [i EXCEPT ![w] = @ + 1]
     /\ UNCHANGED <<status, walkVars, pc, array, n, rv, known, signaled>>

AdvanceStops(e) ==                      \* only the first link is signalled
  /\ walker[e] = "advance"
  /\ at' = [at EXCEPT ![e] = [group |-> NULL, link |-> NULL]]
  /\ walker' = [walker EXCEPT ![e] = "done"]
  /\ UNCHANGED <<evVars, linkVars, waitVars, signaled>>

-----------------------------------------------------------------------------
(* xrp_wait_any, up to its first loop: a zeroed array of links and a group *)
(* that is pending.                                                        *)
Call(w, a) ==
  /\ pc[w] = "idle"
  /\ array' = [array EXCEPT ![w] = a]
  /\ n' = [n EXCEPT ![w] = Len(a)]
  /\ known' = [known EXCEPT ![w] = \E j \in 1 .. Len(a) : status[a[j]]]
  /\ pc' = [pc EXCEPT ![w] = "link"]
  /\ UNCHANGED <<evVars, walkVars, linkVars, i, rv, signaled>>

(* The event is pending: the link goes to the front of its list.           *)
Link(w) ==
  LET e == Here(w)  l == Mine(w)
  IN /\ pc[w] = "link" /\ i[w] <= n[w] /\ ~Locked(e) /\ ~status[e]
     /\ lgroup' = [lgroup EXCEPT ![l] = group[e]]
     /\ next' = [next EXCEPT ![l] = link[e]]
     /\ prev' = IF link[e] # NULL THEN [prev EXCEPT ![link[e]] = l] ELSE prev
     /\ group' = [group EXCEPT ![e] = w]
     /\ link' = [link EXCEPT ![e] = l]
     /\ i' = [i EXCEPT ![w] = @ + 1]
     /\ UNCHANGED <<status, walkVars, pc, array, n, rv, known, signaled>>

(* The event is complete: undo the links made so far.                      *)
StopLinking(w) ==
  /\ pc[w] = "link" /\ i[w] <= n[w] /\ ~Locked(Here(w)) /\ status[Here(w)]
  /\ n' = [n EXCEPT ![w] = i[w] - 1]
  /\ rv' = [rv EXCEPT ![w] = i[w]]
  /\ i' = [i EXCEPT ![w] = 1]
  /\ pc' = [pc EXCEPT ![w] = "unlink"]
  /\ UNCHANGED <<evVars, walkVars, linkVars, array, known, signaled>>

AllLinked(w) ==
  /\ pc[w] = "link" /\ i[w] > n[w]
  /\ rv' = [rv EXCEPT ![w] = i[w]]
  /\ pc' = [pc EXCEPT ![w] = "wait"]
  /\ UNCHANGED <<evVars, walkVars, linkVars, array, i, n, known, signaled>>

(* xrp_wait(&group).                                                       *)
WaitCheck(w) ==
  /\ pc[w] = "wait"
  /\ IF signaled[w]
     THEN /\ pc' = [pc EXCEPT ![w] = "unlink"]
          /\ i' = [i EXCEPT ![w] = 1]
     ELSE /\ pc' = [pc EXCEPT ![w] = "asleep"]
          /\ UNCHANGED i
  /\ UNCHANGED <<evVars, walkVars, linkVars, array, n, rv, known, signaled>>

(* One turn of the second loop.                                            *)
Unlink(w) ==
  LET e == Here(w)  l == Mine(w)
  IN /\ pc[w] = "unlink" /\ i[w] <= n[w] /\ ~Locked(e)
     /\ group' = IF group[e] = w THEN [group EXCEPT ![e] = lgroup[l]] ELSE group
     /\ link' = IF group[e] = w THEN [link EXCEPT ![e] = next[l]] ELSE link
     /\ prev' = IF next[l] # NULL THEN [prev EXCEPT ![next[l]] = prev[l]] ELSE prev
     /\ IF prev[l] # NULL /\ lgroup[prev[l]] = w
        THEN /\ lgroup' = [lgroup EXCEPT ![prev[l]] = lgroup[l]]
             /\ next' = [next EXCEPT ![prev[l]] = next[l]]
        ELSE UNCHANGED <<lgroup, next>>
     /\ rv' = IF status[e] THEN [rv EXCEPT ![w] = i[w]] ELSE rv
     /\ i' = [i EXCEPT ![w] = @ + 1]
     /\ UNCHANGED <<status, walkVars, pc, array, n, known, signaled>>

(* The group is destroyed and the links freed; the next call starts with   *)
(* fresh ones.                                                             *)
Return(w) ==
  /\ pc[w] = "unlink" /\ i[w] > n[w]
  /\ pc' = [pc EXCEPT ![w] = "idle"]
  /\ array' = [array EXCEPT ![w] = <<>>]
  /\ i' = [i EXCEPT ![w] = 1] /\ n' = [n EXCEPT ![w] = 0]
  /\ rv' = [rv EXCEPT ![w] = 1]
  /\ known' = [known EXCEPT ![w] = FALSE]
  /\ signaled' = [signaled EXCEPT ![w] = FALSE]
  /\ next' = [l \in Links |-> IF Owner(l) = w THEN NULL ELSE next[l]]
  /\ prev' = [l \in Links |-> IF Owner(l) = w THEN NULL ELSE prev[l]]
  /\ lgroup' = [l \in Links |-> IF Owner(l) = w THEN NULL ELSE lgroup[l]]
  /\ UNCHANGED <<evVars, walkVars>>

-----------------------------------------------------------------------------
(* xrp_impl_broadcast_event: take the mutex, set the status, start at the  *)
(* first link.                                                             *)
Complete(e) ==
  /\ walker[e] = "idle"
  /\ status' = [status EXCEPT ![e] = TRUE]
  /\ at' = [at EXCEPT ![e] = [group |-> group[e], link |-> link[e]]]
  /\ walker' = [walker EXCEPT ![e] = IF link[e] = NULL THEN "done" ELSE "signal"]
  /\ UNCHANGED <<group, link, linkVars, waitVars, signaled>>

(* Under the mutex of the group: its status, and a broadcast.              *)
Signal(e) ==
  LET g == at[e].group
  IN /\ walker[e] = "signal"
     /\ signaled' = [w \in Waiters |-> w = g \/ signaled[w]]
     /\ pc' = [w \in Waiters |-> IF w = g /\ pc[w] = "asleep" THEN "wait" ELSE pc[w]]
     /\ walker' = [walker EXCEPT ![e] = "advance"]
     /\ UNCHANGED <<evVars, at, linkVars, array, i, n, rv, known>>

(* group = link->group; link = link->next; at the end the mutex is dropped. *)
Advance(e) ==
  LET l == at[e].link
  IN /\ walker[e] = "advance"
     /\ at' = [at EXCEPT ![e] = [group |-> lgroup[l], link |-> next[l]]]
     /\ walker' = [walker EXCEPT ![e] = IF next[l] = NULL THEN "done" ELSE "signal"]
     /\ UNCHANGED <<evVars, linkVars, waitVars, signaled>>

SpuriousWakeup(w) ==
  /\ pc[w] = "asleep"
  /\ pc' = [pc EXCEPT ![w] = "wait"]
  /\ UNCHANGED <<evVars, walkVars, linkVars, array, i, n, rv, known, signaled>>

-----------------------------------------------------------------------------
Continue(w) ==
  Link(w) \/ StopLinking(w) \/ AllLinked(w) \/ WaitCheck(w) \/ Unlink(w) \/ Return(w)
Broadcast(e) == Complete(e) \/ Signal(e) \/ Advance(e)

Next ==
  \/ \E w \in Waiters : (\E a \in Arrays : Call(w, a)) \/ Continue(w) \/ SpuriousWakeup(w)
  \/ \E e \in Events : Broadcast(e)

(* Threads are scheduled; the device need not answer.                      *)
Fairness ==
  /\ \A w \in Waiters : WF_vars(Continue(w))
  /\ \A e \in Events : WF_vars(Signal(e) \/ Advance(e))

Spec == Init /\ [][Next]_vars
FairSpec == Spec /\ Fairness

-----------------------------------------------------------------------------
(* The links that are in the list of e: made, and not yet undone.          *)
Alive(w) == pc[w] # "idle"
Made(w) ==
  CASE pc[w] = "link" -> 1 .. i[w] - 1
    [] pc[w] \in {"wait", "asleep"} -> 1 .. n[w]
    [] pc[w] = "unlink" -> i[w] .. n[w]
    [] OTHER -> {}
Listed(e) == {l \in Links : l[2] \in Made(l[1]) /\ array[l[1]][l[2]] = e}

(* The list of an event holds the links of the waiters inside xrp_wait_any *)
(* and no other: forwards, backwards, and each with the group of the next, *)
(* so that xrp_wait_any never reports an "inconsistent link state".        *)
HeadOK(e) ==
  /\ link[e] = NULL <=> Listed(e) = {}
  /\ group[e] = IF link[e] = NULL THEN NULL ELSE Owner(link[e])
  /\ link[e] # NULL => link[e] \in Listed(e)
LinkOK(e, l) ==
  /\ next[l] # NULL => next[l] \in Listed(e) /\ prev[next[l]] = l
  /\ lgroup[l] = IF next[l] = NULL THEN NULL ELSE Owner(next[l])
  /\ IF l = link[e] THEN prev[l] = NULL
     ELSE prev[l] \in Listed(e) /\ next[prev[l]] = l
ListExact == \A e \in Events : HeadOK(e) /\ \A l \in Listed(e) : LinkOK(e, l)

(* No broadcaster looks at a link or a group after xrp_wait_any returned,  *)
(* and no waiter at the links of another one.                              *)
NoDanglingLink ==
  /\ \A e \in Events : Locked(e) =>
       Alive(at[e].group) /\ Alive(Owner(at[e].link)) /\ at[e].link \in Listed(e)
  /\ \A w \in Waiters : pc[w] = "unlink" /\ i[w] <= n[w] =>
       \A l \in {next[Mine(w)], prev[Mine(w)]} : l # NULL => Alive(Owner(l))

(* "index of a completed event in the event array" (xrp_wait_any).         *)
ReturnsCompleted ==
  [][\A w \in Waiters : Return(w) =>
       rv[w] <= Len(array[w]) /\ status[array[w][rv[w]]]]_vars

(* The broadcaster of e has still to signal the owner of link l: going     *)
(* along next from the link it signals next, it comes to l.                *)
ToCome(e, l) ==
  /\ Locked(e)
  /\ \A S \in SUBSET Listed(e) :
       (/\ walker[e] = "signal" => at[e].link \in S
        /\ walker[e] = "advance" /\ next[at[e].link] # NULL => next[at[e].link] \in S
        /\ \A k \in S : next[k] # NULL => next[k] \in S)
       => l \in S

(* No wake-up is lost: "waiting for a group with already signaled event    *)
(* completes immediately" (xrp_wait_any), and who does sleep has a pending *)
(* group, and at each of its events that was completed after the call the  *)
(* broadcaster is still on its way to the waiter's link, whatever links    *)
(* others make and cut out meanwhile (xrp_wait, xrp_impl_broadcast_event). *)
NoLostWakeup ==
  \A w \in Waiters : pc[w] = "asleep" =>
    /\ ~known[w] /\ ~signaled[w]
    /\ \A j \in 1 .. n[w] : status[array[w][j]] => ToCome(array[w][j], <<w, j>>)

(* xrp_wait_any is the waiting of XrpEvents: a waiter returns after one of *)
(* its events has been completed and does return then, whichever waiters   *)
(* come and go meanwhile and wherever they cut themselves out of the lists.*)
Waits == INSTANCE XrpEvents WITH
  done <- {e \in Events : status[e]},
  waiting <- [w \in Waiters |-> {array[w][j] : j \in DOMAIN array[w]}]
IsFairEvents == Waits!FairSpec

-----------------------------------------------------------------------------
(* The inductive invariant behind them, which XrpWaitAnyProofs proves of   *)
(* callers that name no event twice.                                       *)
DistinctArrays == \A a \in Arrays : \A j, k \in DOMAIN a : a[j] = a[k] => j = k

Completed(w, S) == \E j \in S : status[array[w][j]]

(* How far a waiter has come, and what it knows about its events: one that *)
(* was complete at the call is still ahead of the first loop, a signalled  *)
(* group has a link at a completed event, and the second loop has found a  *)
(* completed event or will find one.                                       *)
WaiterOK(w) ==
  /\ pc[w] = "idle" =>
       array[w] = <<>> /\ i[w] = 1 /\ n[w] = 0 /\ ~signaled[w] /\ ~known[w]
  /\ pc[w] # "idle" => array[w] \in Arrays /\ n[w] <= Len(array[w]) /\ i[w] <= n[w] + 1
  /\ pc[w] \in {"link", "wait", "asleep"} =>
       /\ n[w] = Len(array[w])
       /\ signaled[w] => Completed(w, Made(w))
  /\ pc[w] = "link" /\ known[w] => Completed(w, i[w] .. n[w])
  /\ pc[w] \in {"wait", "asleep"} => ~known[w]
  /\ pc[w] = "unlink" =>
       \/ rv[w] \in 1 .. Len(array[w]) /\ status[array[w][rv[w]]]
       \/ Completed(w, i[w] .. n[w])

(* A link that is yet to be made has the fields calloc gave it.            *)
FreshOK(l) == pc[Owner(l)] \in {"idle", "link"} /\ l[2] >= i[Owner(l)] => prev[l] = NULL

(* A broadcaster is at a link of its event, and knows whose it is.         *)
WalkerOK(e) ==
  /\ walker[e] = "idle" <=> ~status[e]
  /\ Locked(e) => at[e].link \in Listed(e) /\ at[e].group = Owner(at[e].link)

(* Whoever is not signalled and has linked to an event that is complete    *)
(* will be, whether it sleeps already or not.                              *)
WakeupOK(w) ==
  /\ pc[w] = "asleep" => ~signaled[w]
  /\ pc[w] \in {"link", "wait", "asleep"} /\ ~signaled[w] =>
       \A j \in Made(w) : status[array[w][j]] => ToCome(array[w][j], <<w, j>>)

(* No links go round in a ring apart from the list: a set that has the     *)
(* previous link of each of its members has the first of the list.         *)
Reached(e) ==
  \A S \in SUBSET Listed(e) :
    S # {} /\ (\A l \in S : prev[l] = NULL \/ prev[l] \in S) => link[e] \in S

IInv ==
  /\ TypeOK
  /\ \A w \in Waiters : WaiterOK(w) /\ WakeupOK(w)
  /\ \A l \in Links : FreshOK(l)
  /\ \A e \in Events : WalkerOK(e) /\ Reached(e)
  /\ ListExact
=============================================================================
