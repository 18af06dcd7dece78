-------------------------- MODULE XrpWaitAnyProofs --------------------------
(***************************************************************************)
(* Proofs about XrpWaitAny, for any number of waiters and events and for   *)
(* arrays of any length that name no event twice.                          *)
(***************************************************************************)
EXTENDS XrpWaitAny, TLAPS

-----------------------------------------------------------------------------
(* Arrays and links.                                                       *)

LEMMA MaxLenBounds ==
  /\ MaxLen \in Nat
  /\ \A a \in Arrays : Len(a) \in 1 .. MaxLen
<1>1. Arrays \subseteq Seq(Events) /\ <<>> \notin Arrays
  BY ConstantsAssumption
<1>2. PICK b \in Arrays : \A a \in Arrays : Len(a) <= Len(b)
  BY ConstantsAssumption
<1>3. \E m \in {Len(a) : a \in Arrays} : \A a \in Arrays : Len(a) <= m
  BY <1>2
<1>4. MaxLen \in {Len(a) : a \in Arrays} /\ \A a \in Arrays : Len(a) <= MaxLen
  BY <1>3 DEF MaxLen
<1>5. \A a \in Arrays : Len(a) \in Nat \ {0}
  BY <1>1
<1> QED
  BY <1>4, <1>5

LEMMA ArrayElements ==
  ASSUME NEW a \in Arrays
  PROVE  /\ a \in Seq(Events) /\ DOMAIN a = 1 .. Len(a) /\ a # <<>>
         /\ Len(a) \in Nat \ {0} /\ Len(a) <= MaxLen
         /\ \A j \in 1 .. Len(a) : a[j] \in Events
<1>1. a \in Seq(Events) /\ a # <<>>
  BY ConstantsAssumption
<1> QED
  BY <1>1, MaxLenBounds

LEMMA LinkFields ==
  ASSUME NEW l \in Links
  PROVE  /\ Owner(l) \in Waiters /\ l[2] \in 1 .. MaxLen /\ l # NULL /\ Owner(l) # NULL
         /\ \A k \in Links : Owner(k) = Owner(l) /\ k[2] = l[2] => k = l
<1>1. NULL \notin Waiters /\ NULL \notin Links
  BY ConstantsAssumption
<1> QED
  BY <1>1 DEF Links, Owner

LEMMA LinkMade ==
  ASSUME NEW w \in Waiters, NEW j \in 1 .. MaxLen
  PROVE  <<w, j>> \in Links /\ Owner(<<w, j>>) = w /\ <<w, j>>[2] = j
  BY DEF Links, Owner

-----------------------------------------------------------------------------
(* Which links are listed.                                                 *)

LEMMA ListedFields ==
  ASSUME NEW e, NEW l
  PROVE  l \in Listed(e) <=>
           l \in Links /\ l[2] \in Made(Owner(l)) /\ array[Owner(l)][l[2]] = e
  BY DEF Listed, Owner

\* The same in the next state.
LEMMA ListedFieldsNext ==
  ASSUME NEW e, NEW l
  PROVE  l \in Listed(e)' <=>
           l \in Links /\ l[2] \in Made(Owner(l))' /\ array'[Owner(l)][l[2]] = e
  BY DEF Listed, Owner

\* The links a waiter has made are the first of its array.
LEMMA MadeRange ==
  ASSUME TypeOK, NEW w \in Waiters, WaiterOK(w)
  PROVE  /\ Made(w) \subseteq 1 .. Len(array[w])
         /\ Made(w) # {} => pc[w] # "idle" /\ array[w] \in Arrays
<1>1. CASE pc[w] = "idle"
  BY <1>1 DEF Made
<1>2. CASE pc[w] # "idle"
  <2>1. array[w] \in Arrays /\ n[w] <= Len(array[w]) /\ i[w] <= n[w] + 1
    BY <1>2 DEF WaiterOK
  <2>2. i[w] \in Nat \ {0} /\ n[w] \in Nat /\ Len(array[w]) \in Nat
    BY <2>1, MaxLenBounds, ArrayElements DEF TypeOK
  <2>3. pc[w] \in {"link", "wait", "asleep", "unlink"}
    BY <1>2 DEF TypeOK
  <2>4. \/ Made(w) = 1 .. i[w] - 1
        \/ Made(w) = 1 .. n[w]
        \/ Made(w) = i[w] .. n[w]
    BY <2>3 DEF Made
  <2> QED
    BY <1>2, <2>1, <2>2, <2>4
<1> QED
  BY <1>1, <1>2

\* A waiter has at most one link in the list of an event.
LEMMA OneLinkEach ==
  ASSUME DistinctArrays, TypeOK, \A w \in Waiters : WaiterOK(w),
         NEW e, NEW k \in Listed(e), NEW l \in Listed(e), Owner(k) = Owner(l)
  PROVE  k = l
<1> DEFINE w == Owner(l)
<1>1. /\ k \in Links /\ k[2] \in Made(w) /\ array[w][k[2]] = e
      /\ l \in Links /\ l[2] \in Made(w) /\ array[w][l[2]] = e
  BY ListedFields
<1>2. w \in Waiters
  BY <1>1, LinkFields
<1>3. array[w] \in Arrays /\ Made(w) \subseteq 1 .. Len(array[w])
  BY <1>1, <1>2, MadeRange
<1>4. k[2] \in DOMAIN array[w] /\ l[2] \in DOMAIN array[w]
  BY <1>1, <1>3, ArrayElements
<1>5. k[2] = l[2]
  BY <1>1, <1>3, <1>4 DEF DistinctArrays
<1> QED
  BY <1>1, <1>5, LinkFields

\* A listed link is of one event, and its owner is inside xrp_wait_any.
LEMMA ListedOwner ==
  ASSUME TypeOK, \A w \in Waiters : WaiterOK(w), NEW e, NEW l \in Listed(e)
  PROVE  /\ l \in Links /\ Owner(l) \in Waiters /\ Alive(Owner(l))
         /\ l # NULL /\ Owner(l) # NULL
         /\ \A f : l \in Listed(f) => f = e
<1>1. l \in Links /\ l[2] \in Made(Owner(l)) /\ array[Owner(l)][l[2]] = e
  BY ListedFields
<1>2. Owner(l) \in Waiters /\ l # NULL /\ Owner(l) # NULL
  BY <1>1, LinkFields
<1>3. Alive(Owner(l))
  BY <1>1, <1>2, MadeRange DEF Alive
<1>4. \A f : l \in Listed(f) => f = e
  BY <1>1, ListedFields
<1> QED
  BY <1>1, <1>2, <1>3, <1>4

-----------------------------------------------------------------------------
(* What steps do to the lists: only linking and unlinking change them.     *)

Others(w) == \A u \in Waiters \ {w} :
  /\ pc'[u] = pc[u] /\ array'[u] = array[u] /\ i'[u] = i[u] /\ n'[u] = n[u]
  /\ rv'[u] = rv[u] /\ known'[u] = known[u] /\ signaled'[u] = signaled[u]

LEMMA MadeByOthers ==
  ASSUME NEW w \in Waiters, Others(w), NEW u \in Waiters \ {w}
  PROVE  Made(u)' = Made(u) /\ array'[u] = array[u]
  BY DEF Others, Made

LEMMA SameLists ==
  ASSUME \A u \in Waiters : Made(u)' = Made(u) /\ (Made(u) # {} => array'[u] = array[u])
  PROVE  \A e : Listed(e)' = Listed(e)
<1> SUFFICES ASSUME NEW e, NEW l PROVE l \in Listed(e)' <=> l \in Listed(e)
  OBVIOUS
<1>1. l \in Links => Owner(l) \in Waiters
  BY LinkFields
<1> QED
  BY <1>1, ListedFields, ListedFieldsNext

\* Steps of a waiter outside of the two loops' critical sections.
QuietStep(w) ==
  \/ \E a \in Arrays : Call(w, a)
  \/ StopLinking(w) \/ AllLinked(w) \/ WaitCheck(w) \/ Return(w) \/ SpuriousWakeup(w)

LEMMA WaiterSteps ==
  ASSUME TypeOK, NEW w \in Waiters,
         QuietStep(w) \/ Link(w) \/ Unlink(w)
  PROVE  Others(w) /\ UNCHANGED <<status, walkVars>>
<1>1. CASE QuietStep(w)
  BY <1>1 DEF QuietStep, Call, StopLinking, AllLinked, WaitCheck, Return, SpuriousWakeup, Others,
     TypeOK, evVars, walkVars
<1>2. CASE Link(w) \/ Unlink(w)
  BY <1>2 DEF Link, Unlink, Others, TypeOK, walkVars
<1> QED
  BY <1>1, <1>2

\* Such a step leaves the links the waiter has made.
LEMMA QuietMade ==
  ASSUME TypeOK, NEW w \in Waiters, WaiterOK(w), QuietStep(w)
  PROVE  Made(w)' = Made(w) /\ (Made(w) # {} => array'[w] = array[w])
<1>n. i[w] \in Nat \ {0} /\ n[w] \in Nat
  BY MaxLenBounds DEF TypeOK
<1>1. CASE \E a \in Arrays : Call(w, a)
  <2>1. pc[w] = "idle" /\ pc'[w] = "link" /\ i'[w] = i[w]
    BY <1>1 DEF Call, TypeOK
  <2>2. i[w] = 1
    BY <2>1 DEF WaiterOK
  <2>3. Made(w) = {} /\ Made(w)' = 1 .. 0
    BY <2>1, <2>2 DEF Made
  <2> QED
    BY <2>3
<1>2. CASE StopLinking(w)
  <2>1. /\ pc[w] = "link" /\ pc'[w] = "unlink" /\ i'[w] = 1 /\ n'[w] = i[w] - 1
        /\ array' = array
    BY <1>2 DEF StopLinking, TypeOK
  <2> QED
    BY <2>1 DEF Made
<1>3. CASE AllLinked(w)
  <2>1. pc[w] = "link" /\ pc'[w] = "wait" /\ n' = n /\ array' = array /\ i[w] > n[w]
    BY <1>3 DEF AllLinked, TypeOK
  <2>2. i[w] = n[w] + 1
    BY <1>n, <2>1 DEF WaiterOK
  <2>3. Made(w) = 1 .. n[w] /\ Made(w)' = 1 .. n[w]
    BY <1>n, <2>1, <2>2 DEF Made
  <2> QED
    BY <2>1, <2>3
<1>4. CASE WaitCheck(w)
  <2>1. /\ pc[w] = "wait" /\ n' = n /\ array' = array
        /\ \/ pc'[w] = "unlink" /\ i'[w] = 1
           \/ pc'[w] = "asleep"
    BY <1>4 DEF WaitCheck, TypeOK
  <2> QED
    BY <2>1 DEF Made
<1>5. CASE Return(w)
  <2>1. pc[w] = "unlink" /\ pc'[w] = "idle" /\ i[w] > n[w]
    BY <1>5 DEF Return, TypeOK
  <2>2. Made(w)' = {} /\ Made(w) = i[w] .. n[w]
    BY <2>1 DEF Made
  <2> QED
    BY <1>n, <2>1, <2>2
<1>6. CASE SpuriousWakeup(w)
  <2>1. pc[w] = "asleep" /\ pc'[w] = "wait" /\ n' = n /\ array' = array
    BY <1>6 DEF SpuriousWakeup, TypeOK
  <2> QED
    BY <2>1 DEF Made
<1> QED
  BY <1>1, <1>2, <1>3, <1>4, <1>5, <1>6 DEF QuietStep

LEMMA QuietLists ==
  ASSUME TypeOK, NEW w \in Waiters, WaiterOK(w), QuietStep(w)
  PROVE  \A e : Listed(e)' = Listed(e)
<1>1. Others(w)
  BY WaiterSteps
<1>2. \A u \in Waiters : Made(u)' = Made(u) /\ (Made(u) # {} => array'[u] = array[u])
  BY <1>1, QuietMade, MadeByOthers
<1> QED
  BY <1>2, SameLists

\* A broadcaster changes no list; whom it wakes stays in the same loop.
LEMMA BroadcastLists ==
  ASSUME TypeOK, NEW e \in Events, Broadcast(e)
  PROVE  /\ \A f : Listed(f)' = Listed(f)
         /\ UNCHANGED <<group, link, next, prev, lgroup, array, i, n, rv, known>>
         /\ \A u \in Waiters : Made(u)' = Made(u)
<1>1. UNCHANGED <<group, link, next, prev, lgroup, array, i, n, rv, known>>
  BY DEF Broadcast, Complete, Signal, Advance, linkVars, waitVars, evVars
<1>2. ASSUME NEW u \in Waiters
      PROVE  Made(u)' = Made(u)
  <2>1. pc'[u] = pc[u] \/ (pc[u] = "asleep" /\ pc'[u] = "wait")
    BY DEF Broadcast, Complete, Signal, Advance, waitVars, TypeOK
  <2> QED
    BY <1>1, <2>1 DEF Made
<1>3. \A f : Listed(f)' = Listed(f)
  BY <1>1, <1>2, SameLists
<1> QED
  BY <1>1, <1>2, <1>3

\* Linking puts one more link of the waiter in the list of one event.
LEMMA LinkLists ==
  ASSUME TypeOK, NEW w \in Waiters, WaiterOK(w), Link(w), NEW e, NEW l,
         e = Here(w), l = Mine(w)
  PROVE  /\ e \in Events /\ l \in Links /\ Owner(l) = w /\ l[2] = i[w]
         /\ \A f : l \notin Listed(f)
         /\ Listed(e)' = Listed(e) \cup {l}
         /\ \A f : f # e => Listed(f)' = Listed(f)
<1>1. /\ pc[w] = "link" /\ i[w] <= n[w] /\ pc' = pc /\ array' = array
      /\ i' = [i EXCEPT ![w] = @ + 1]
  BY DEF Link
<1>2. /\ array[w] \in Arrays /\ n[w] <= Len(array[w])
      /\ i[w] \in Nat \ {0} /\ n[w] \in Nat
  BY <1>1, MaxLenBounds DEF WaiterOK, TypeOK
<1>3. Len(array[w]) \in Nat /\ Len(array[w]) <= MaxLen /\ MaxLen \in Nat
  BY <1>2, ArrayElements, MaxLenBounds
<1>4. i[w] \in 1 .. Len(array[w]) /\ i[w] \in 1 .. MaxLen
  BY <1>1, <1>2, <1>3
<1>5. e \in Events /\ array[w][i[w]] = e
  BY <1>2, <1>4, ArrayElements DEF Here
<1>6. l \in Links /\ Owner(l) = w /\ l[2] = i[w]
  BY <1>4, LinkMade DEF Mine
<1>7. Made(w) = 1 .. i[w] - 1 /\ Made(w)' = 1 .. i'[w] - 1 /\ i'[w] = i[w] + 1
  BY <1>1 DEF Made, TypeOK
<1>8. i[w] \notin Made(w) /\ Made(w)' = Made(w) \cup {i[w]}
  BY <1>2, <1>7
<1>9. \A f : l \notin Listed(f)
  BY <1>6, <1>8, ListedFields
<1>10. \A u \in Waiters \ {w} : Made(u)' = Made(u)
  BY WaiterSteps, MadeByOthers
<1>11. ASSUME NEW f, NEW k
       PROVE  k \in Listed(f)' <=> k \in Listed(f) \/ (k = l /\ f = e)
  <2>1. CASE k \notin Links
    BY <1>6, <2>1, ListedFields, ListedFieldsNext
  <2>2. CASE k \in Links /\ Owner(k) # w
    BY <1>1, <1>6, <1>10, <2>2, ListedFields, ListedFieldsNext, LinkFields
  <2>3. CASE k \in Links /\ Owner(k) = w
    <3>1. k[2] = i[w] <=> k = l
      BY <1>6, <2>3, LinkFields
    <3> QED
      BY <1>1, <1>5, <1>6, <1>8, <2>3, <3>1, ListedFields, ListedFieldsNext
  <2> QED
    BY <2>1, <2>2, <2>3
<1>12. Listed(e)' = Listed(e) \cup {l} /\ \A f : f # e => Listed(f)' = Listed(f)
  BY <1>11
<1> QED
  BY <1>5, <1>6, <1>9, <1>12

\* Unlinking takes one away.
LEMMA UnlinkLists ==
  ASSUME TypeOK, NEW w \in Waiters, WaiterOK(w), Unlink(w), NEW e, NEW l,
         e = Here(w), l = Mine(w)
  PROVE  /\ e \in Events /\ l \in Listed(e) /\ l \in Links /\ Owner(l) = w
         /\ Listed(e)' = Listed(e) \ {l}
         /\ \A f : f # e => Listed(f)' = Listed(f)
<1>1. /\ pc[w] = "unlink" /\ i[w] <= n[w] /\ pc' = pc /\ array' = array /\ n' = n
      /\ i' = [i EXCEPT ![w] = @ + 1]
  BY DEF Unlink
<1>2. /\ array[w] \in Arrays /\ n[w] <= Len(array[w])
      /\ i[w] \in Nat \ {0} /\ n[w] \in Nat
  BY <1>1, MaxLenBounds DEF WaiterOK, TypeOK
<1>3. Len(array[w]) \in Nat /\ Len(array[w]) <= MaxLen /\ MaxLen \in Nat
  BY <1>2, ArrayElements, MaxLenBounds
<1>4. i[w] \in 1 .. Len(array[w]) /\ i[w] \in 1 .. MaxLen
  BY <1>1, <1>2, <1>3
<1>5. e \in Events /\ array[w][i[w]] = e
  BY <1>2, <1>4, ArrayElements DEF Here
<1>6. l \in Links /\ Owner(l) = w /\ l[2] = i[w]
  BY <1>4, LinkMade DEF Mine
<1>7. Made(w) = i[w] .. n[w] /\ Made(w)' = i'[w] .. n[w] /\ i'[w] = i[w] + 1
  BY <1>1 DEF Made, TypeOK
<1>8. i[w] \in Made(w) /\ Made(w)' = Made(w) \ {i[w]}
  BY <1>1, <1>2, <1>7
<1>9. l \in Listed(e)
  BY <1>5, <1>6, <1>8, ListedFields
<1>10. \A u \in Waiters \ {w} : Made(u)' = Made(u)
  BY WaiterSteps, MadeByOthers
<1>11. ASSUME NEW f, NEW k
       PROVE  k \in Listed(f)' <=> k \in Listed(f) /\ k # l
  <2>1. CASE k \notin Links
    BY <1>6, <2>1, ListedFields, ListedFieldsNext
  <2>2. CASE k \in Links /\ Owner(k) # w
    BY <1>1, <1>6, <1>10, <2>2, ListedFields, ListedFieldsNext, LinkFields
  <2>3. CASE k \in Links /\ Owner(k) = w
    <3>1. k[2] = i[w] <=> k = l
      BY <1>6, <2>3, LinkFields
    <3> QED
      BY <1>1, <1>8, <2>3, <3>1, ListedFields, ListedFieldsNext
  <2> QED
    BY <2>1, <2>2, <2>3
<1>12. \A f : f # e => l \notin Listed(f)
  BY <1>9, ListedFields
<1>13. Listed(e)' = Listed(e) \ {l} /\ \A f : f # e => Listed(f)' = Listed(f)
  BY <1>11, <1>12
<1> QED
  BY <1>5, <1>6, <1>9, <1>13

-----------------------------------------------------------------------------
(* Types.                                                                  *)

Step(w) == QuietStep(w) \/ Link(w) \/ Unlink(w)

LEMMA NextSteps ==
  ASSUME Next
  PROVE  (\E w \in Waiters : Step(w)) \/ (\E e \in Events : Broadcast(e))
  BY DEF Next, Continue, Step, QuietStep

LEMMA InitTyped == Init => TypeOK
<1>1. MaxLen \in Nat /\ MaxLen >= 1
  <2>1. PICK b \in Arrays : TRUE
    BY ConstantsAssumption
  <2> QED
    BY <2>1, MaxLenBounds
<1>2. 1 \in 1 .. MaxLen + 1 /\ 0 \in 0 .. MaxLen
  BY <1>1
<1> QED
  BY <1>2 DEF Init, TypeOK

LEMMA QuietTyped ==
  ASSUME TypeOK, NEW w \in Waiters, WaiterOK(w), QuietStep(w)
  PROVE  TypeOK'
<1>m. MaxLen \in Nat /\ MaxLen >= 1 /\ \A a \in Arrays : Len(a) \in 0 .. MaxLen
  <2>1. PICK b \in Arrays : TRUE
    BY ConstantsAssumption
  <2> QED
    BY <2>1, MaxLenBounds
<1>n. i[w] \in Nat \ {0} /\ i[w] <= MaxLen + 1 /\ n[w] \in Nat /\ n[w] <= MaxLen
  BY <1>m DEF TypeOK
<1>1. ASSUME NEW a \in Arrays, Call(w, a) PROVE TypeOK'
  <2>1. (\E j \in 1 .. Len(a) : status[a[j]]) \in BOOLEAN
    OBVIOUS
  <2>2. known' \in [Waiters -> BOOLEAN]
    BY <1>1, <2>1 DEF Call, TypeOK
  <2> QED
    BY <1>m, <1>1, <2>2 DEF Call, TypeOK, evVars, walkVars, linkVars
<1>2. CASE StopLinking(w)
  <2>1. i[w] - 1 \in 0 .. MaxLen /\ 1 \in 1 .. MaxLen + 1
    BY <1>m, <1>n, <1>2 DEF StopLinking
  <2> QED
    BY <1>n, <1>2, <2>1 DEF StopLinking, TypeOK, evVars, walkVars, linkVars
<1>3. CASE AllLinked(w)
  BY <1>n, <1>3 DEF AllLinked, TypeOK, evVars, walkVars, linkVars
<1>4. CASE WaitCheck(w)
  <2>1. 1 \in 1 .. MaxLen + 1
    BY <1>m
  <2>a. \/ pc' = [pc EXCEPT ![w] = "unlink"] /\ i' = [i EXCEPT ![w] = 1]
        \/ pc' = [pc EXCEPT ![w] = "asleep"] /\ i' = i
    BY <1>4 DEF WaitCheck
  <2>2. i' \in [Waiters -> 1 .. MaxLen + 1]
    BY <2>1, <2>a DEF TypeOK
  <2>3. pc' \in [Waiters -> {"idle", "link", "wait", "asleep", "unlink"}]
    BY <2>a DEF TypeOK
  <2> QED
    BY <1>4, <2>2, <2>3 DEF WaitCheck, TypeOK, evVars, walkVars, linkVars
<1>5. CASE Return(w)
  BY <1>m, <1>5 DEF Return, TypeOK, evVars, walkVars
<1>6. CASE SpuriousWakeup(w)
  BY <1>6 DEF SpuriousWakeup, TypeOK, evVars, walkVars, linkVars
<1> QED
  BY <1>1, <1>2, <1>3, <1>4, <1>5, <1>6 DEF QuietStep

LEMMA LinkTyped ==
  ASSUME TypeOK, NEW w \in Waiters, WaiterOK(w), Link(w)
  PROVE  TypeOK'
<1>0. PICK e, l : e = Here(w) /\ l = Mine(w)
  OBVIOUS
<1>1. e \in Events /\ l \in Links
  BY <1>0, LinkLists
<1>2. i[w] + 1 \in 1 .. MaxLen + 1
  BY MaxLenBounds DEF Link, TypeOK
<1>3. group[e] \in Waiters \cup {NULL} /\ link[e] \in Links \cup {NULL}
  BY <1>1 DEF TypeOK
<1>4. /\ lgroup' = [lgroup EXCEPT ![l] = group[e]]
      /\ next' = [next EXCEPT ![l] = link[e]]
      /\ prev' = IF link[e] # NULL THEN [prev EXCEPT ![link[e]] = l] ELSE prev
      /\ group' = [group EXCEPT ![e] = w] /\ link' = [link EXCEPT ![e] = l]
      /\ i' = [i EXCEPT ![w] = @ + 1]
      /\ UNCHANGED <<status, walker, at, pc, array, n, rv, known, signaled>>
  BY <1>0 DEF Link, walkVars
<1>5. /\ lgroup' \in [Links -> Waiters \cup {NULL}] /\ next' \in [Links -> Links \cup {NULL}]
      /\ prev' \in [Links -> Links \cup {NULL}]
  BY <1>1, <1>3, <1>4 DEF TypeOK
<1>6. /\ group' \in [Events -> Waiters \cup {NULL}] /\ link' \in [Events -> Links \cup {NULL}]
      /\ i' \in [Waiters -> 1 .. MaxLen + 1]
  BY <1>1, <1>2, <1>4 DEF TypeOK
<1> QED
  BY <1>4, <1>5, <1>6 DEF TypeOK

LEMMA UnlinkTyped ==
  ASSUME TypeOK, NEW w \in Waiters, WaiterOK(w), Unlink(w)
  PROVE  TypeOK'
<1>0. PICK e, l : e = Here(w) /\ l = Mine(w)
  OBVIOUS
<1>1. e \in Events /\ l \in Links
  BY <1>0, UnlinkLists
<1>2. i[w] + 1 \in 1 .. MaxLen + 1
  BY MaxLenBounds DEF Unlink, TypeOK
<1>3. /\ next[l] \in Links \cup {NULL} /\ prev[l] \in Links \cup {NULL}
      /\ lgroup[l] \in Waiters \cup {NULL}
  BY <1>1 DEF TypeOK
<1>4. /\ group' = IF group[e] = w THEN [group EXCEPT ![e] = lgroup[l]] ELSE group
      /\ link' = IF group[e] = w THEN [link EXCEPT ![e] = next[l]] ELSE link
      /\ prev' = IF next[l] # NULL THEN [prev EXCEPT ![next[l]] = prev[l]] ELSE prev
      /\ IF prev[l] # NULL /\ lgroup[prev[l]] = w
         THEN /\ lgroup' = [lgroup EXCEPT ![prev[l]] = lgroup[l]]
              /\ next' = [next EXCEPT ![prev[l]] = next[l]]
         ELSE UNCHANGED <<lgroup, next>>
      /\ rv' = IF status[e] THEN [rv EXCEPT ![w] = i[w]] ELSE rv
      /\ i' = [i EXCEPT ![w] = @ + 1]
      /\ UNCHANGED <<status, walker, at, pc, array, n, known, signaled>>
  BY <1>0 DEF Unlink, walkVars
<1>5. /\ lgroup' \in [Links -> Waiters \cup {NULL}] /\ next' \in [Links -> Links \cup {NULL}]
      /\ prev' \in [Links -> Links \cup {NULL}]
  BY <1>1, <1>3, <1>4 DEF TypeOK
<1>6. /\ group' \in [Events -> Waiters \cup {NULL}] /\ link' \in [Events -> Links \cup {NULL}]
      /\ i' \in [Waiters -> 1 .. MaxLen + 1] /\ rv' \in [Waiters -> 1 .. MaxLen + 1]
  BY <1>1, <1>2, <1>3, <1>4 DEF TypeOK
<1> QED
  BY <1>4, <1>5, <1>6 DEF TypeOK

LEMMA BroadcastTyped ==
  ASSUME TypeOK, NEW e \in Events, WalkerOK(e), Broadcast(e)
  PROVE  TypeOK'
<1> DEFINE At == [group : Waiters \cup {NULL}, link : Links \cup {NULL}]
<1>a. \A g \in Waiters \cup {NULL}, l \in Links \cup {NULL} : [group |-> g, link |-> l] \in At
  OBVIOUS
<1> HIDE DEF At
<1>1. CASE Complete(e)
  <2>1. [group |-> group[e], link |-> link[e]] \in At
    BY <1>a DEF TypeOK
  <2>2. at' \in [Events -> At]
    BY <1>1, <2>1 DEF Complete, TypeOK, At
  <2> QED
    BY <1>1, <2>2 DEF Complete, TypeOK, At, linkVars, waitVars
<1>2. CASE Signal(e)
  BY <1>2 DEF Signal, TypeOK, linkVars, evVars
<1>3. CASE Advance(e)
  <2>1. at[e].link \in Links
    BY <1>3, ListedFields DEF Advance, WalkerOK, Locked
  <2>2. [group |-> lgroup[at[e].link], link |-> next[at[e].link]] \in At
    BY <1>a, <2>1 DEF TypeOK
  <2>3. at' \in [Events -> At]
    BY <1>3, <2>2 DEF Advance, TypeOK, At
  <2> QED
    BY <1>3, <2>3 DEF Advance, TypeOK, At, linkVars, waitVars, evVars
<1> QED
  BY <1>1, <1>2, <1>3 DEF Broadcast

-----------------------------------------------------------------------------
(* Waiters know what they wait for.                                        *)

LEMMA WaiterKept ==
  ASSUME NEW u \in Waiters, WaiterOK(u), status' = status,
         pc'[u] = pc[u], array'[u] = array[u], i'[u] = i[u], n'[u] = n[u],
         rv'[u] = rv[u], known'[u] = known[u], signaled'[u] = signaled[u]
  PROVE  WaiterOK(u)'
<1>1. Made(u)' = Made(u)
  BY DEF Made
<1>2. \A S : Completed(u, S)' <=> Completed(u, S)
  BY DEF Completed
<1> QED
  BY <1>1, <1>2 DEF WaiterOK

LEMMA CallWaiter ==
  ASSUME TypeOK, NEW w \in Waiters, WaiterOK(w), NEW a \in Arrays, Call(w, a)
  PROVE  WaiterOK(w)'
<1>1. /\ pc[w] = "idle" /\ pc'[w] = "link" /\ array'[w] = a /\ n'[w] = Len(a)
      /\ i' = i /\ status' = status /\ signaled' = signaled
      /\ known'[w] = \E j \in 1 .. Len(a) : status[a[j]]
  BY DEF Call, TypeOK, evVars
<1>2. i'[w] = 1 /\ ~signaled'[w]
  BY <1>1 DEF WaiterOK
<1>3. known'[w] => Completed(w, i[w] .. n[w])'
  BY <1>1, <1>2 DEF Completed
<1>4. i'[w] <= n'[w] + 1 /\ n'[w] <= Len(array'[w]) /\ array'[w] \in Arrays
  BY <1>1, <1>2, ArrayElements
<1> QED
  BY <1>1, <1>2, <1>3, <1>4 DEF WaiterOK

LEMMA LinkWaiter ==
  ASSUME TypeOK, NEW w \in Waiters, WaiterOK(w), Link(w)
  PROVE  WaiterOK(w)'
<1>1. /\ pc[w] = "link" /\ i[w] <= n[w] /\ ~status[array[w][i[w]]]
      /\ pc' = pc /\ array' = array /\ n' = n /\ known' = known /\ status' = status
      /\ signaled' = signaled /\ i'[w] = i[w] + 1
  BY DEF Link, Here, TypeOK
<1>2. i[w] \in Nat \ {0} /\ n[w] \in Nat
  BY MaxLenBounds DEF TypeOK
<1>3. Made(w) = 1 .. i[w] - 1 /\ Made(w)' = 1 .. i[w]
  BY <1>1, <1>2 DEF Made
<1>4. Completed(w, Made(w)) => Completed(w, Made(w))'
  <2>1. Made(w) \subseteq Made(w)'
    BY <1>2, <1>3
  <2> QED
    BY <1>1, <2>1 DEF Completed
<1>5. Completed(w, i[w] .. n[w]) => Completed(w, i[w] .. n[w])'
  <2>1. \A j \in i[w] .. n[w] : j # i[w] => j \in i'[w] .. n'[w]
    BY <1>1, <1>2
  <2> QED
    BY <1>1, <2>1 DEF Completed
<1>6. /\ array'[w] \in Arrays /\ n'[w] = Len(array'[w]) /\ n'[w] <= Len(array'[w])
      /\ i'[w] <= n'[w] + 1
  <2>1. array[w] \in Arrays /\ n[w] = Len(array[w])
    BY <1>1 DEF WaiterOK
  <2> QED
    BY <1>1, <1>2, <2>1
<1> QED
  BY <1>1, <1>4, <1>5, <1>6 DEF WaiterOK

LEMMA UnlinkWaiter ==
  ASSUME TypeOK, NEW w \in Waiters, WaiterOK(w), Unlink(w)
  PROVE  WaiterOK(w)'
<1>1. /\ pc[w] = "unlink" /\ i[w] <= n[w]
      /\ pc' = pc /\ array' = array /\ n' = n /\ status' = status
      /\ i'[w] = i[w] + 1
      /\ \/ status[array[w][i[w]]] /\ rv'[w] = i[w]
         \/ ~status[array[w][i[w]]] /\ rv'[w] = rv[w]
  BY DEF Unlink, Here, TypeOK
<1>2. /\ i[w] \in Nat \ {0} /\ n[w] \in Nat /\ n[w] <= Len(array[w])
      /\ array[w] \in Arrays /\ Len(array[w]) \in Nat
  BY <1>1, MaxLenBounds DEF TypeOK, WaiterOK
<1>3. \/ rv'[w] \in 1 .. Len(array'[w]) /\ status'[array'[w][rv'[w]]]
      \/ Completed(w, i[w] .. n[w])'
  <2>1. CASE status[array[w][i[w]]]
    BY <1>1, <1>2, <2>1
  <2>2. CASE ~status[array[w][i[w]]] /\ rv[w] \in 1 .. Len(array[w]) /\ status[array[w][rv[w]]]
    BY <1>1, <2>2
  <2>3. CASE ~status[array[w][i[w]]] /\ Completed(w, i[w] .. n[w])
    <3>1. \A j \in i[w] .. n[w] : j # i[w] => j \in i'[w] .. n'[w]
      BY <1>1, <1>2
    <3> QED
      BY <1>1, <2>3, <3>1 DEF Completed
  <2> QED
    BY <1>1, <2>1, <2>2, <2>3 DEF WaiterOK
<1>4. /\ array'[w] \in Arrays /\ n'[w] <= Len(array'[w]) /\ i'[w] <= n'[w] + 1
  BY <1>1, <1>2
<1> QED
  BY <1>1, <1>3, <1>4 DEF WaiterOK

LEMMA QuietWaiter ==
  ASSUME TypeOK, NEW w \in Waiters, WaiterOK(w), QuietStep(w)
  PROVE  WaiterOK(w)'
<1>n. i[w] \in Nat \ {0} /\ n[w] \in Nat
  BY MaxLenBounds DEF TypeOK
<1>1. CASE \E a \in Arrays : Call(w, a)
  BY <1>1, CallWaiter
<1>2. CASE StopLinking(w)
  <2>1. /\ pc[w] = "link" /\ i[w] <= n[w] /\ status[array[w][i[w]]]
        /\ pc'[w] = "unlink" /\ array' = array /\ n'[w] = i[w] - 1 /\ status' = status
        /\ i'[w] = 1 /\ rv'[w] = i[w]
    BY <1>2 DEF StopLinking, Here, TypeOK, evVars
  <2>2. array[w] \in Arrays /\ n[w] = Len(array[w])
    BY <2>1 DEF WaiterOK
  <2>3. rv'[w] \in 1 .. Len(array'[w]) /\ n'[w] <= Len(array'[w]) /\ i'[w] <= n'[w] + 1
    BY <1>n, <2>1, <2>2
  <2> QED
    BY <2>1, <2>2, <2>3 DEF WaiterOK
<1>3. CASE AllLinked(w)
  <2>1. /\ pc[w] = "link" /\ i[w] > n[w] /\ pc'[w] = "wait"
        /\ UNCHANGED <<array, i, n, known, signaled, status>>
    BY <1>3 DEF AllLinked, TypeOK, evVars
  <2>2. ~Completed(w, i[w] .. n[w])
    BY <1>n, <2>1 DEF Completed
  <2>3. i[w] = n[w] + 1
    BY <1>n, <2>1 DEF WaiterOK
  <2>4. Made(w) = 1 .. n[w] /\ Made(w)' = 1 .. n[w]
    BY <1>n, <2>1, <2>3 DEF Made
  <2>5. Completed(w, Made(w))' <=> Completed(w, Made(w))
    BY <2>1, <2>4 DEF Completed
  <2> QED
    BY <2>1, <2>2, <2>5 DEF WaiterOK
<1>4. CASE WaitCheck(w)
  <2>1. /\ pc[w] = "wait" /\ UNCHANGED <<array, n, known, signaled, status>>
        /\ \/ signaled[w] /\ pc'[w] = "unlink" /\ i'[w] = 1
           \/ ~signaled[w] /\ pc'[w] = "asleep" /\ i' = i
    BY <1>4 DEF WaitCheck, TypeOK, evVars
  <2>2. Made(w) = 1 .. n[w] /\ 1 <= n[w] + 1
    BY <1>n, <2>1 DEF Made
  <2>3. signaled[w] => Completed(w, i[w] .. n[w])'
    <3>1. signaled[w] => Completed(w, 1 .. n[w])
      BY <2>1, <2>2 DEF WaiterOK
    <3> QED
      BY <2>1, <3>1 DEF Completed
  <2>4. array[w] \in Arrays /\ n[w] = Len(array[w]) /\ n[w] <= Len(array[w])
        /\ i[w] <= n[w] + 1 /\ ~known[w]
    BY <2>1 DEF WaiterOK
  <2>5. CASE signaled[w]
    BY <2>1, <2>2, <2>3, <2>4, <2>5 DEF WaiterOK
  <2>6. CASE ~signaled[w]
    BY <2>1, <2>4, <2>6 DEF WaiterOK
  <2> QED
    BY <2>5, <2>6
<1>5. CASE Return(w)
  BY <1>5 DEF Return, TypeOK, WaiterOK
<1>6. CASE SpuriousWakeup(w)
  <2>1. /\ pc[w] = "asleep" /\ pc'[w] = "wait"
        /\ UNCHANGED <<array, i, n, known, signaled, status>>
    BY <1>6 DEF SpuriousWakeup, TypeOK, evVars
  <2>2. Made(w)' = Made(w)
    BY <2>1 DEF Made
  <2>3. Completed(w, Made(w))' <=> Completed(w, Made(w))
    BY <2>1, <2>2 DEF Completed
  <2> QED
    BY <2>1, <2>3 DEF WaiterOK
<1> QED
  BY <1>1, <1>2, <1>3, <1>4, <1>5, <1>6 DEF QuietStep

\* A group is signalled for a link at an event that is complete by then.
LEMMA BroadcastWaiter ==
  ASSUME IInv, NEW e \in Events, Broadcast(e), NEW u \in Waiters
  PROVE  WaiterOK(u)'
<1>t. TypeOK /\ WaiterOK(u) /\ WalkerOK(e)
  BY DEF IInv
<1>1. /\ UNCHANGED <<array, i, n, rv, known>>
      /\ Made(u)' = Made(u)
  BY <1>t, BroadcastLists
<1>2. ASSUME pc[u] # "idle"
      PROVE  /\ Made(u) \subseteq 1 .. Len(array[u])
             /\ \A j \in 1 .. Len(array[u]) : array[u][j] \in Events
             /\ n[u] <= Len(array[u]) /\ i[u] \in Nat \ {0} /\ n[u] \in Nat
             /\ Len(array[u]) \in Nat
  BY <1>t, <1>2, MadeRange, ArrayElements, MaxLenBounds DEF WaiterOK, TypeOK
<1>3. CASE Complete(e)
  <2>1. pc' = pc /\ signaled' = signaled /\ status' = [status EXCEPT ![e] = TRUE]
    BY <1>3 DEF Complete, waitVars
  <2>2. \A f \in Events : status[f] => status'[f]
    BY <1>t, <2>1 DEF TypeOK
  <2>3. CASE pc[u] = "idle"
    BY <1>t, <1>1, <2>1, <2>3 DEF WaiterOK
  <2>4. CASE pc[u] # "idle"
    <3>1. ASSUME NEW S \in SUBSET (1 .. Len(array[u])), Completed(u, S)
          PROVE  Completed(u, S)'
      BY <1>1, <1>2, <2>2, <2>4, <3>1 DEF Completed
    <3>2. Completed(u, Made(u)) => Completed(u, Made(u))'
      BY <1>1, <1>2, <2>4, <3>1
    <3>3. Completed(u, i[u] .. n[u]) => Completed(u, i[u] .. n[u])'
      <4>1. i[u] .. n[u] \subseteq 1 .. Len(array[u])
        BY <1>2, <2>4
      <4> QED
        BY <1>1, <3>1, <4>1
    <3>4. rv[u] \in 1 .. Len(array[u]) /\ status[array[u][rv[u]]] =>
            rv'[u] \in 1 .. Len(array'[u]) /\ status'[array'[u][rv'[u]]]
      BY <1>1, <1>2, <2>2, <2>4
    <3> QED
      BY <1>t, <1>1, <2>1, <2>4, <3>2, <3>3, <3>4 DEF WaiterOK
  <2> QED
    BY <2>3, <2>4
<1>4. CASE Signal(e)
  <2>1. /\ status' = status
        /\ signaled'[u] <=> (u = at[e].group \/ signaled[u])
        /\ pc'[u] = IF u = at[e].group /\ pc[u] = "asleep" THEN "wait" ELSE pc[u]
    BY <1>4 DEF Signal, evVars
  <2>2. ASSUME u = at[e].group
        PROVE  pc[u] # "idle" /\ Completed(u, Made(u))
    <3>1. at[e].link \in Listed(e) /\ Owner(at[e].link) = u /\ status[e]
      BY <1>t, <1>4, <2>2 DEF Signal, WalkerOK, Locked, TypeOK
    <3>2. at[e].link[2] \in Made(u) /\ array[u][at[e].link[2]] = e
      BY <3>1, ListedFields
    <3> QED
      BY <1>t, <3>1, <3>2, MadeRange DEF Completed
  <2>3. \A S : Completed(u, S)' <=> Completed(u, S)
    BY <1>1, <2>1 DEF Completed
  <2>4. CASE u = at[e].group
    BY <1>t, <1>1, <2>1, <2>2, <2>3, <2>4 DEF WaiterOK
  <2>5. CASE u # at[e].group
    BY <1>t, <1>1, <2>1, <2>3, <2>5 DEF WaiterOK
  <2> QED
    BY <2>4, <2>5
<1>5. CASE Advance(e)
  <2>1. UNCHANGED <<status, pc, signaled>>
    BY <1>5 DEF Advance, evVars, waitVars
  <2> QED
    BY <1>t, <1>1, <2>1, WaiterKept
<1> QED
  BY <1>3, <1>4, <1>5 DEF Broadcast

LEMMA StepWaiters ==
  ASSUME IInv, NEW w \in Waiters, Step(w), NEW u \in Waiters
  PROVE  WaiterOK(u)'
<1>t. TypeOK /\ WaiterOK(u) /\ WaiterOK(w)
  BY DEF IInv
<1>1. CASE u = w
  BY <1>t, <1>1, QuietWaiter, LinkWaiter, UnlinkWaiter DEF Step
<1>2. CASE u # w
  <2>1. Others(w) /\ status' = status
    BY <1>t, WaiterSteps DEF Step
  <2> QED
    BY <1>t, <1>2, <2>1, WaiterKept DEF Others
<1> QED
  BY <1>1, <1>2

-----------------------------------------------------------------------------
(* Links that are yet to be made stay as calloc left them: nobody writes   *)
(* to a link that is in no list.                                           *)

LEMMA ListedNotFresh ==
  ASSUME TypeOK, NEW e, NEW l \in Listed(e), pc[Owner(l)] \in {"idle", "link"}
  PROVE  ~(l[2] >= i[Owner(l)])
<1> DEFINE u == Owner(l)
<1>1. l \in Links /\ l[2] \in Made(u)
  BY ListedFields
<1>2. u \in Waiters /\ l[2] \in Nat /\ i[u] \in Nat
  BY <1>1, LinkFields, MaxLenBounds DEF TypeOK
<1>3. Made(u) = {} \/ Made(u) = 1 .. i[u] - 1
  BY DEF Made
<1> HIDE DEF u
<1> QED
  BY <1>1, <1>2, <1>3 DEF u

LEMMA StepFresh ==
  ASSUME IInv, NEW w \in Waiters, Step(w), NEW k \in Links
  PROVE  FreshOK(k)'
<1> DEFINE u == Owner(k)
<1>t. TypeOK /\ WaiterOK(w) /\ FreshOK(k) /\ ListExact
  BY DEF IInv
<1>o. Others(w) /\ u \in Waiters /\ k[2] \in Nat
  BY <1>t, WaiterSteps, LinkFields, MaxLenBounds DEF Step
<1>1. CASE Return(w)
  <2>1. CASE u = w
    BY <1>1, <2>1 DEF Return, FreshOK
  <2>2. CASE u # w
    <3>1. prev'[k] = prev[k] /\ pc'[u] = pc[u] /\ i'[u] = i[u]
      BY <1>1, <1>o, <2>2 DEF Return, Others
    <3> QED
      BY <1>t, <3>1 DEF FreshOK
  <2> QED
    BY <2>1, <2>2
<1>2. CASE QuietStep(w) /\ ~Return(w)
  <2>1. prev' = prev
    BY <1>2 DEF QuietStep, Call, StopLinking, AllLinked, WaitCheck, SpuriousWakeup, linkVars
  <2>2. CASE u = w
    <3>1. \/ pc'[w] \in {"wait", "asleep", "unlink"}
          \/ pc[w] = "idle" /\ i'[w] = i[w]
      BY <1>t, <1>2 DEF QuietStep, Call, StopLinking, AllLinked, WaitCheck, SpuriousWakeup, TypeOK
    <3> QED
      BY <1>t, <2>1, <2>2, <3>1 DEF FreshOK
  <2>3. CASE u # w
    BY <1>t, <1>o, <2>1, <2>3 DEF FreshOK, Others
  <2> QED
    BY <2>2, <2>3
<1>3. CASE Link(w)
  <2>0. PICK e, l : e = Here(w) /\ l = Mine(w)
    OBVIOUS
  <2>1. e \in Events /\ l \in Links /\ Owner(l) = w /\ l[2] = i[w]
    BY <1>t, <1>3, <2>0, LinkLists
  <2>2. /\ prev' = IF link[e] # NULL THEN [prev EXCEPT ![link[e]] = l] ELSE prev
        /\ pc' = pc /\ i'[w] = i[w] + 1
    BY <1>t, <1>3, <2>0 DEF Link, TypeOK
  <2>3. CASE k = link[e]
    <3>1. k \in Listed(e)
      BY <1>t, <2>1, <2>3, LinkFields DEF ListExact, HeadOK
    <3>2. pc[u] \in {"idle", "link"} => ~(k[2] >= i[u])
      BY <1>t, <3>1, ListedNotFresh
    <3>3. i[u] \in Nat /\ i'[u] \in Nat /\ i'[u] >= i[u]
      <4>1. i[u] \in Nat
        BY <1>t, <1>o, MaxLenBounds DEF TypeOK
      <4> QED
        BY <1>o, <2>2, <4>1 DEF Others
    <3> QED
      BY <1>o, <2>2, <3>2, <3>3 DEF FreshOK
  <2>4. CASE k # link[e]
    <3>1. prev'[k] = prev[k]
      BY <1>t, <2>2, <2>4 DEF TypeOK
    <3>2. i[u] \in Nat /\ i'[u] \in Nat /\ i'[u] >= i[u]
      <4>1. i[u] \in Nat
        BY <1>t, <1>o, MaxLenBounds DEF TypeOK
      <4> QED
        BY <1>o, <2>2, <4>1 DEF Others
    <3> QED
      BY <1>t, <1>o, <2>2, <3>1, <3>2 DEF FreshOK
  <2> QED
    BY <2>3, <2>4
<1>4. CASE Unlink(w)
  <2>0. PICK e, l : e = Here(w) /\ l = Mine(w)
    OBVIOUS
  <2>1. e \in Events /\ l \in Listed(e)
    BY <1>t, <1>4, <2>0, UnlinkLists
  <2>2. /\ prev' = IF next[l] # NULL THEN [prev EXCEPT ![next[l]] = prev[l]] ELSE prev
        /\ pc' = pc /\ pc[w] = "unlink"
    BY <1>4, <2>0 DEF Unlink
  <2>3. CASE u = w
    BY <2>2, <2>3 DEF FreshOK
  <2>4. CASE u # w /\ k = next[l]
    <3>1. k \in Listed(e)
      BY <1>t, <2>1, <2>4, LinkFields DEF ListExact, LinkOK
    <3>2. pc[u] \in {"idle", "link"} => ~(k[2] >= i[u])
      BY <1>t, <3>1, ListedNotFresh
    <3> QED
      BY <1>o, <2>2, <2>4, <3>2 DEF FreshOK, Others
  <2>5. CASE u # w /\ k # next[l]
    <3>1. prev'[k] = prev[k]
      BY <1>t, <2>2, <2>5 DEF TypeOK
    <3> QED
      BY <1>t, <1>o, <2>5, <3>1 DEF FreshOK, Others
  <2> QED
    BY <2>3, <2>4, <2>5
<1> QED
  BY <1>1, <1>2, <1>3, <1>4 DEF Step

LEMMA BroadcastFresh ==
  ASSUME IInv, NEW e \in Events, Broadcast(e), NEW k \in Links
  PROVE  FreshOK(k)'
<1>t. TypeOK /\ FreshOK(k)
  BY DEF IInv
<1>1. Owner(k) \in Waiters
  BY LinkFields
<1>2. UNCHANGED <<prev, i>>
  BY <1>t, BroadcastLists
<1>3. pc'[Owner(k)] \in {"idle", "link"} => pc'[Owner(k)] = pc[Owner(k)]
  BY <1>1 DEF Broadcast, Complete, Signal, Advance, waitVars
<1> QED
  BY <1>t, <1>2, <1>3 DEF FreshOK

-----------------------------------------------------------------------------
(* A broadcaster stays on the list of its event.                           *)

LEMMA StepWalkers ==
  ASSUME IInv, NEW w \in Waiters, Step(w), NEW f \in Events
  PROVE  WalkerOK(f)'
<1>t. TypeOK /\ WaiterOK(w) /\ WalkerOK(f)
  BY DEF IInv
<1>1. UNCHANGED <<status, walker, at>>
  BY <1>t, WaiterSteps DEF Step, walkVars
<1>2. Locked(f) => Listed(f)' = Listed(f)
  <2>1. CASE QuietStep(w)
    BY <1>t, <2>1, QuietLists
  <2>2. CASE Link(w)
    <3>1. Here(w) # f => Listed(f)' = Listed(f)
      BY <1>t, <2>2, LinkLists
    <3> QED
      BY <2>2, <3>1 DEF Link
  <2>3. CASE Unlink(w)
    <3>1. Here(w) # f => Listed(f)' = Listed(f)
      BY <1>t, <2>3, UnlinkLists
    <3> QED
      BY <2>3, <3>1 DEF Unlink
  <2> QED
    BY <2>1, <2>2, <2>3 DEF Step
<1> QED
  BY <1>t, <1>1, <1>2 DEF WalkerOK, Locked

LEMMA BroadcastWalkers ==
  ASSUME IInv, NEW e \in Events, Broadcast(e), NEW f \in Events
  PROVE  WalkerOK(f)'
<1>t. TypeOK /\ WalkerOK(f) /\ WalkerOK(e) /\ ListExact
  BY DEF IInv
<1>l. Listed(f)' = Listed(f)
  BY <1>t, BroadcastLists
<1>1. CASE f # e
  <2>1. walker'[f] = walker[f] /\ at'[f] = at[f] /\ status'[f] = status[f]
    BY <1>t, <1>1 DEF Broadcast, Complete, Signal, Advance, TypeOK, evVars
  <2> QED
    BY <1>t, <1>l, <2>1 DEF WalkerOK, Locked
<1>2. CASE f = e /\ Complete(e)
  <2>1. /\ status'[e] /\ at'[e].group = group[e] /\ at'[e].link = link[e]
        /\ walker'[e] = IF link[e] = NULL THEN "done" ELSE "signal"
    BY <1>t, <1>2 DEF Complete, TypeOK
  <2>2. link[e] # NULL => link[e] \in Listed(e) /\ group[e] = Owner(link[e])
    BY <1>t DEF ListExact, HeadOK
  <2> QED
    BY <1>l, <1>2, <2>1, <2>2 DEF WalkerOK, Locked
<1>3. CASE f = e /\ Signal(e)
  <2>1. walker[e] = "signal" /\ walker'[e] = "advance" /\ at' = at /\ status' = status
    BY <1>t, <1>3 DEF Signal, TypeOK, evVars
  <2> QED
    BY <1>t, <1>l, <1>3, <2>1 DEF WalkerOK, Locked
<1>4. CASE f = e /\ Advance(e)
  <2>0. PICK l : l = at[e].link
    OBVIOUS
  <2>1. /\ walker[e] = "advance" /\ status' = status
        /\ at'[e].group = lgroup[l] /\ at'[e].link = next[l]
        /\ walker'[e] = IF next[l] = NULL THEN "done" ELSE "signal"
    BY <1>t, <1>4, <2>0 DEF Advance, TypeOK, evVars
  <2>2. l \in Listed(e)
    BY <1>t, <2>0, <2>1 DEF WalkerOK, Locked
  <2>3. next[l] # NULL => next[l] \in Listed(e) /\ lgroup[l] = Owner(next[l])
    BY <1>t, <2>2 DEF ListExact, LinkOK
  <2> QED
    BY <1>t, <1>l, <1>4, <2>1, <2>3 DEF WalkerOK, Locked
<1> QED
  BY <1>1, <1>2, <1>3, <1>4 DEF Broadcast

-----------------------------------------------------------------------------
(* The lists.                                                              *)

ListOK(e) == HeadOK(e) /\ (\A l \in Listed(e) : LinkOK(e, l)) /\ Reached(e)

\* A list is as good as before when nothing of it has changed.
LEMMA SameListOK ==
  ASSUME NEW f, ListOK(f), Listed(f)' = Listed(f), group'[f] = group[f], link'[f] = link[f],
         \A l \in Listed(f) : next'[l] = next[l] /\ prev'[l] = prev[l] /\ lgroup'[l] = lgroup[l]
  PROVE  ListOK(f)'
<1>1. HeadOK(f)'
  BY DEF ListOK, HeadOK
<1>2. ASSUME NEW l \in Listed(f)'
      PROVE  LinkOK(f, l)'
  BY DEF ListOK, LinkOK
<1>3. Reached(f)'
  BY DEF ListOK, Reached
<1> QED
  BY <1>1, <1>2, <1>3 DEF ListOK

LEMMA QuietListOK ==
  ASSUME TypeOK, NEW w \in Waiters, WaiterOK(w), QuietStep(w), NEW f \in Events, ListOK(f)
  PROVE  ListOK(f)'
<1>1. Listed(f)' = Listed(f) /\ UNCHANGED <<group, link>>
  <2>1. UNCHANGED <<group, link>>
    BY DEF QuietStep, Call, StopLinking, AllLinked, WaitCheck, Return, SpuriousWakeup, evVars
  <2> QED
    BY <2>1, QuietLists
<1>2. CASE Return(w)
  <2>1. Made(w) = {}
    <3>1. Made(w) = i[w] .. n[w] /\ i[w] > n[w]
      BY <1>2 DEF Return, Made
    <3>2. i[w] \in Nat /\ n[w] \in Nat
      BY MaxLenBounds DEF TypeOK
    <3> QED
      BY <3>1, <3>2
  <2>2. \A l \in Listed(f) : l \in Links /\ Owner(l) # w
    BY <2>1, ListedFields
  <2>3. \A l \in Listed(f) : next'[l] = next[l] /\ prev'[l] = prev[l] /\ lgroup'[l] = lgroup[l]
    BY <1>2, <2>2 DEF Return
  <2> QED
    BY <1>1, <2>3, SameListOK
<1>3. CASE ~Return(w)
  <2>1. UNCHANGED <<next, prev, lgroup>>
    BY <1>3 DEF QuietStep, Call, StopLinking, AllLinked, WaitCheck, SpuriousWakeup, linkVars
  <2> QED
    BY <1>1, <2>1, SameListOK
<1> QED
  BY <1>2, <1>3

\* The new link comes before the one that was first.
LEMMA LinkListOK ==
  ASSUME TypeOK, \A u \in Waiters : WaiterOK(u), \A l \in Links : FreshOK(l),
         \A e \in Events : ListOK(e),
         NEW w \in Waiters, Link(w), NEW f \in Events
  PROVE  ListOK(f)'
<1>0. PICK e, l, h : e = Here(w) /\ l = Mine(w) /\ h = link[e]
  OBVIOUS
<1>1. /\ e \in Events /\ l \in Links /\ Owner(l) = w /\ l[2] = i[w]
      /\ \A g : l \notin Listed(g)
      /\ Listed(e)' = Listed(e) \cup {l}
      /\ \A g : g # e => Listed(g)' = Listed(g)
  BY <1>0, LinkLists
<1>2. l # NULL /\ w # NULL /\ h \in Links \cup {NULL}
  BY <1>0, <1>1, LinkFields DEF TypeOK
<1>3. /\ lgroup'[l] = group[e] /\ \A k \in Links \ {l} : lgroup'[k] = lgroup[k]
      /\ next'[l] = h /\ \A k \in Links \ {l} : next'[k] = next[k]
      /\ h # NULL => prev'[h] = l
      /\ \A k \in Links \ {h} : prev'[k] = prev[k]
      /\ group'[e] = w /\ link'[e] = l
      /\ \A g \in Events \ {e} : group'[g] = group[g] /\ link'[g] = link[g]
  <2>1. /\ lgroup' = [lgroup EXCEPT ![l] = group[e]]
        /\ next' = [next EXCEPT ![l] = h]
        /\ prev' = IF h # NULL THEN [prev EXCEPT ![h] = l] ELSE prev
        /\ group' = [group EXCEPT ![e] = w] /\ link' = [link EXCEPT ![e] = l]
    BY <1>0 DEF Link
  <2>2. h # NULL => prev'[h] = l
    BY <1>2, <2>1 DEF TypeOK
  <2>3. \A k \in Links \ {h} : prev'[k] = prev[k]
    BY <2>1 DEF TypeOK
  <2> QED
    BY <1>1, <2>1, <2>2, <2>3 DEF TypeOK
<1>4. prev[l] = NULL
  BY <1>1 DEF FreshOK, Link, TypeOK
<1>5. /\ h = NULL <=> Listed(e) = {}
      /\ h # NULL => h \in Listed(e) /\ h # l /\ group[e] = Owner(h)
      /\ h = NULL => group[e] = NULL
      /\ Listed(e) \subseteq Links
  BY <1>0, <1>1, ListedFields DEF ListOK, HeadOK
<1>6. ASSUME f # e PROVE ListOK(f)'
  <2>1. \A k \in Listed(f) : k \in Links /\ k # l /\ k # h
    BY <1>1, <1>2, <1>5, <1>6, ListedFields, ListedOwner
  <2> QED
    BY <1>1, <1>3, <1>6, <2>1, SameListOK
<1>7. HeadOK(e)'
  BY <1>1, <1>2, <1>3 DEF HeadOK
<1>8. ASSUME NEW k \in Listed(e)' PROVE LinkOK(e, k)'
  <2>1. CASE k = l
    <3>1. prev'[l] = NULL
      BY <1>1, <1>2, <1>3, <1>4, <1>5
    <3> QED
      BY <1>1, <1>3, <1>5, <2>1, <3>1 DEF LinkOK
  <2>2. CASE k # l
    <3>1. k \in Listed(e) /\ k \in Links /\ LinkOK(e, k) /\ h # NULL /\ LinkOK(e, h) /\ k # NULL
      BY <1>1, <1>5, <1>8, <2>2, LinkFields DEF ListOK
    <3>2. next'[k] = next[k] /\ lgroup'[k] = lgroup[k]
      BY <1>3, <2>2, <3>1
    <3>3. next[k] # NULL => next[k] \in Listed(e)' /\ prev'[next[k]] = k
      <4>1. next[k] # NULL => next[k] \in Listed(e) /\ prev[next[k]] = k
        BY <3>1 DEF LinkOK
      <4>2. next[k] # NULL => next[k] # h
        BY <1>0, <3>1, <4>1 DEF LinkOK
      <4> QED
        BY <1>1, <1>3, <1>5, <4>1, <4>2
    <3>4. prev'[k] \in Listed(e)' /\ next'[prev'[k]] = k
      <4>1. CASE k = h
        BY <1>1, <1>3, <3>1, <4>1
      <4>2. CASE k # h
        <5>1. prev[k] \in Listed(e) /\ next[prev[k]] = k /\ prev'[k] = prev[k]
          BY <1>0, <1>3, <3>1, <4>2 DEF LinkOK
        <5> QED
          BY <1>1, <1>3, <1>5, <5>1
      <4> QED
        BY <4>1, <4>2
    <3>5. lgroup[k] = IF next[k] = NULL THEN NULL ELSE Owner(next[k])
      BY <3>1 DEF LinkOK
    <3> QED
      BY <1>3, <2>2, <3>2, <3>3, <3>4, <3>5 DEF LinkOK
  <2> QED
    BY <2>1, <2>2
<1>9. Reached(e)'
  <2> SUFFICES ASSUME NEW S \in SUBSET Listed(e)', S # {},
                      \A k \in S : prev'[k] = NULL \/ prev'[k] \in S
               PROVE  l \in S
    BY <1>3 DEF Reached
  <2> SUFFICES ASSUME l \notin S PROVE FALSE
    OBVIOUS
  <2>1. S \subseteq Listed(e) /\ h # NULL
    BY <1>1, <1>5
  <2>2. h \notin S
    BY <1>2, <1>3, <2>1
  <2>3. \A k \in S : prev[k] = NULL \/ prev[k] \in S
    BY <1>3, <1>5, <2>1, <2>2
  <2> QED
    BY <1>0, <1>1, <2>1, <2>2, <2>3 DEF ListOK, Reached
<1> QED
  BY <1>6, <1>7, <1>8, <1>9 DEF ListOK

\* A link is cut out between its neighbours, whoever made them.
LEMMA UnlinkListOK ==
  ASSUME DistinctArrays, TypeOK, \A u \in Waiters : WaiterOK(u), \A e \in Events : ListOK(e),
         NEW w \in Waiters, Unlink(w), NEW f \in Events
  PROVE  ListOK(f)'
<1>0. PICK e, l, p, q : e = Here(w) /\ l = Mine(w) /\ p = prev[l] /\ q = next[l]
  OBVIOUS
<1>1. /\ e \in Events /\ l \in Listed(e) /\ l \in Links /\ Owner(l) = w
      /\ Listed(e)' = Listed(e) \ {l}
      /\ \A g : g # e => Listed(g)' = Listed(g)
  BY <1>0, UnlinkLists
<1>2. /\ Listed(e) \subseteq Links /\ l # NULL
      /\ p \in Links \cup {NULL} /\ q \in Links \cup {NULL}
  BY <1>0, <1>1, LinkFields, ListedFields DEF TypeOK
<1>3. /\ HeadOK(e) /\ LinkOK(e, l) /\ link[e] # NULL /\ link[e] \in Listed(e)
      /\ q # NULL => q \in Listed(e) /\ prev[q] = l
      /\ lgroup[l] = IF q = NULL THEN NULL ELSE Owner(q)
      /\ l = link[e] => p = NULL
      /\ l # link[e] => p \in Listed(e) /\ next[p] = l
  BY <1>0, <1>1 DEF ListOK, HeadOK, LinkOK
<1>4. group[e] = w <=> link[e] = l
  <2>1. group[e] = Owner(link[e])
    BY <1>3 DEF HeadOK
  <2> QED
    BY <1>1, <1>3, <2>1, OneLinkEach
<1>5. l # link[e] => p # NULL /\ lgroup[p] = w
  <2>1. ASSUME l # link[e] PROVE p # NULL /\ lgroup[p] = w
    <3>1. p \in Listed(e) /\ next[p] = l /\ p # NULL /\ LinkOK(e, p)
      BY <1>1, <1>2, <1>3, <2>1, LinkFields DEF ListOK
    <3> QED
      BY <1>1, <1>2, <3>1 DEF LinkOK
  <2> QED
    BY <2>1
<1>6. /\ link'[e] = IF l = link[e] THEN q ELSE link[e]
      /\ group'[e] = IF l = link[e] THEN lgroup[l] ELSE group[e]
      /\ \A g \in Events \ {e} : group'[g] = group[g] /\ link'[g] = link[g]
      /\ q # NULL => prev'[q] = p
      /\ \A k \in Links \ {q} : prev'[k] = prev[k]
      /\ p # NULL => next'[p] = q /\ lgroup'[p] = lgroup[l]
      /\ \A k \in Links \ {p} : next'[k] = next[k] /\ lgroup'[k] = lgroup[k]
  <2>1. /\ group' = IF group[e] = w THEN [group EXCEPT ![e] = lgroup[l]] ELSE group
        /\ link' = IF group[e] = w THEN [link EXCEPT ![e] = q] ELSE link
        /\ prev' = IF q # NULL THEN [prev EXCEPT ![q] = p] ELSE prev
        /\ IF p # NULL /\ lgroup[p] = w
           THEN /\ lgroup' = [lgroup EXCEPT ![p] = lgroup[l]]
                /\ next' = [next EXCEPT ![p] = q]
           ELSE UNCHANGED <<lgroup, next>>
    BY <1>0 DEF Unlink
  <2>2. /\ link'[e] = IF l = link[e] THEN q ELSE link[e]
        /\ group'[e] = IF l = link[e] THEN lgroup[l] ELSE group[e]
        /\ \A g \in Events \ {e} : group'[g] = group[g] /\ link'[g] = link[g]
    BY <1>1, <1>4, <2>1 DEF TypeOK
  <2>3. (q # NULL => prev'[q] = p) /\ \A k \in Links \ {q} : prev'[k] = prev[k]
    BY <1>2, <2>1 DEF TypeOK
  <2>4. CASE p = NULL
    BY <2>1, <2>2, <2>3, <2>4
  <2>5. CASE p # NULL
    <3>1. l # link[e]
      BY <1>3, <2>5
    <3>2. /\ lgroup' = [lgroup EXCEPT ![p] = lgroup[l]]
          /\ next' = [next EXCEPT ![p] = q]
      BY <1>5, <2>1, <3>1
    <3>3. /\ next'[p] = q /\ lgroup'[p] = lgroup[l]
          /\ \A k \in Links \ {p} : next'[k] = next[k] /\ lgroup'[k] = lgroup[k]
      BY <1>2, <2>5, <3>2 DEF TypeOK
    <3> QED
      BY <2>2, <2>3, <3>3
  <2> QED
    BY <2>4, <2>5
<1>7. ASSUME f # e PROVE ListOK(f)'
  <2>1. \A k \in Listed(f) : k \in Links /\ k # p /\ k # q
    <3>1. \A k \in Listed(f) : k \in Links /\ k # NULL /\ k \notin Listed(e)
      BY <1>7, ListedOwner
    <3> QED
      BY <1>3, <3>1
  <2> QED
    BY <1>1, <1>6, <1>7, <2>1, SameListOK
<1>8. ASSUME NEW S \in SUBSET Listed(e)', S # {},
             \A k \in S : prev'[k] = NULL \/ prev'[k] \in S
      PROVE  link'[e] \in S
  <2>1. S \subseteq Listed(e) /\ l \notin S /\ S \subseteq Links
    BY <1>1, <1>2
  <2>2. CASE q \notin S
    <3>1. \A k \in S : prev[k] = NULL \/ prev[k] \in S
      BY <1>6, <1>8, <2>1, <2>2
    <3>2. link[e] \in S
      BY <1>1, <1>8, <2>1, <3>1 DEF ListOK, Reached
    <3> QED
      BY <1>6, <2>1, <3>2
  <2>3. CASE q \in S /\ l = link[e]
    BY <1>6, <2>3
  <2>4. CASE q \in S /\ l # link[e]
    <3>1. q # NULL /\ prev[q] = l /\ p # NULL /\ p \in S
      <4>1. q # NULL
        BY <1>2, <2>1, <2>4, LinkFields
      <4> QED
        BY <1>3, <1>5, <1>6, <1>8, <2>4, <4>1
    <3>2. \A k \in S \cup {l} : prev[k] = NULL \/ prev[k] \in S \cup {l}
      <4>1. ASSUME NEW k \in S, k # q
            PROVE  prev[k] = NULL \/ prev[k] \in S
        BY <1>6, <1>8, <2>1, <4>1
      <4> QED
        BY <1>0, <3>1, <4>1
    <3>3. link[e] \in S \cup {l}
      <4>1. S \cup {l} \in SUBSET Listed(e) /\ S \cup {l} # {}
        BY <1>1, <2>1
      <4> QED
        BY <1>1, <3>2, <4>1 DEF ListOK, Reached
    <3> QED
      BY <1>6, <2>4, <3>3
  <2> QED
    BY <2>2, <2>3, <2>4
<1>9. ASSUME NEW k \in Listed(e)' PROVE LinkOK(e, k)'
  <2>1. k \in Listed(e) /\ k # l /\ k \in Links /\ LinkOK(e, k) /\ k # NULL
    BY <1>1, <1>2, <1>9, LinkFields DEF ListOK
  <2>2. next'[k] # NULL => next'[k] \in Listed(e)' /\ prev'[next'[k]] = k
    <3>1. CASE k = p
      <4>1. l # link[e] /\ next'[k] = q
        BY <1>3, <1>6, <2>1, <3>1
      <4>2. q # NULL => q \in Listed(e) /\ prev'[q] = k /\ q # l
        BY <1>0, <1>3, <1>6, <2>1, <3>1
      <4> QED
        BY <1>1, <4>1, <4>2
    <3>2. CASE k # p
      <4>1. next'[k] = next[k]
        BY <1>6, <2>1, <3>2
      <4>2. next[k] # NULL => next[k] \in Listed(e) /\ prev[next[k]] = k
        BY <2>1 DEF LinkOK
      <4>3. next[k] # NULL => next[k] # l /\ next[k] # q
        BY <1>0, <1>3, <2>1, <3>2, <4>2
      <4> QED
        BY <1>1, <1>2, <1>6, <4>1, <4>2, <4>3
    <3> QED
      BY <3>1, <3>2
  <2>3. lgroup'[k] = IF next'[k] = NULL THEN NULL ELSE Owner(next'[k])
    <3>1. CASE k = p
      BY <1>3, <1>6, <2>1, <3>1
    <3>2. CASE k # p
      BY <1>6, <2>1, <3>2 DEF LinkOK
    <3> QED
      BY <3>1, <3>2
  <2>4. k = link'[e] => prev'[k] = NULL
    <3>1. CASE l = link[e]
      BY <1>3, <1>6, <2>1, <3>1
    <3>2. CASE l # link[e]
      <4>1. k = link[e] => prev[k] = NULL /\ k # q
        BY <1>2, <1>3, <2>1 DEF LinkOK
      <4> QED
        BY <1>6, <2>1, <3>2, <4>1
    <3> QED
      BY <3>1, <3>2
  <2>5. k # link'[e] => prev'[k] \in Listed(e)' /\ next'[prev'[k]] = k
    <3>1. CASE k = q
      <4>1. k # link'[e] => l # link[e] /\ p \in Listed(e) /\ p # NULL
        BY <1>3, <1>5, <1>6, <3>1
      <4>2. k # link'[e] => p # l
        BY <1>0, <1>3, <2>1, <3>1, <4>1
      <4> QED
        BY <1>1, <1>6, <2>1, <3>1, <4>1, <4>2
    <3>2. CASE k # q
      <4>1. prev'[k] = prev[k]
        BY <1>6, <2>1, <3>2
      <4>2. k # link[e] => prev[k] \in Listed(e) /\ next[prev[k]] = k
        BY <2>1 DEF LinkOK
      <4>3. k # link'[e] => k # link[e]
        BY <1>6, <2>1
      <4>4. k # link[e] => prev[k] # l /\ prev[k] # p
        <5>1. k # link[e] => prev[k] # l /\ prev[k] # NULL
          BY <1>0, <1>2, <2>1, <3>2, <4>2, LinkFields
        <5>2. k # link[e] => prev[k] # p
          BY <1>3, <2>1, <4>2, <5>1
        <5> QED
          BY <5>1, <5>2
      <4> QED
        BY <1>1, <1>2, <1>6, <4>1, <4>2, <4>3, <4>4
    <3> QED
      BY <3>1, <3>2
  <2> QED
    BY <2>2, <2>3, <2>4, <2>5 DEF LinkOK
<1>10. HeadOK(e)'
  <2>1. link'[e] # NULL => link'[e] \in Listed(e)'
    BY <1>0, <1>1, <1>3, <1>6 DEF LinkOK
  <2>2. link'[e] = NULL => Listed(e)' = {}
    <3>1. SUFFICES ASSUME link'[e] = NULL, Listed(e)' # {} PROVE FALSE
      OBVIOUS
    <3>2. \A k \in Listed(e)' : prev'[k] = NULL \/ prev'[k] \in Listed(e)'
      BY <1>9 DEF LinkOK
    <3>3. NULL \in Listed(e)'
      BY <1>8, <3>1, <3>2
    <3> QED
      BY <1>1, <1>2, <3>3, LinkFields
  <2>3. group'[e] = IF link'[e] = NULL THEN NULL ELSE Owner(link'[e])
    BY <1>3, <1>6 DEF HeadOK
  <2>4. Listed(e)' = {} => link'[e] = NULL
    BY <2>1
  <2> QED
    BY <2>1, <2>2, <2>3, <2>4 DEF HeadOK
<1>11. Reached(e)'
  BY <1>8 DEF Reached
<1> QED
  BY <1>7, <1>9, <1>10, <1>11 DEF ListOK

LEMMA StepLists ==
  ASSUME DistinctArrays, IInv, NEW w \in Waiters, Step(w), NEW f \in Events
  PROVE  ListOK(f)'
<1>1. /\ TypeOK /\ \A u \in Waiters : WaiterOK(u) /\ \A l \in Links : FreshOK(l)
      /\ \A e \in Events : ListOK(e)
  BY DEF IInv, ListExact, ListOK
<1> QED
  BY <1>1, QuietListOK, LinkListOK, UnlinkListOK DEF Step

LEMMA BroadcastListOK ==
  ASSUME IInv, NEW e \in Events, Broadcast(e), NEW f \in Events
  PROVE  ListOK(f)'
<1>1. TypeOK /\ ListOK(f)
  BY DEF IInv, ListExact, ListOK
<1>2. Listed(f)' = Listed(f) /\ UNCHANGED <<group, link, next, prev, lgroup>>
  BY <1>1, BroadcastLists
<1> QED
  BY <1>1, <1>2, SameListOK

-----------------------------------------------------------------------------
(* Wake-ups.                                                               *)

\* A broadcaster is on its way to a link as long as nobody changes its list.
LEMMA SameToCome ==
  ASSUME NEW f, NEW l, WalkerOK(f), ToCome(f, l), Listed(f)' = Listed(f),
         walker'[f] = walker[f], at'[f] = at[f],
         \A k \in Listed(f) : next'[k] = next[k]
  PROVE  ToCome(f, l)'
<1>1. Locked(f) /\ Locked(f)' /\ at[f].link \in Listed(f)
  BY DEF ToCome, WalkerOK, Locked
<1>2. SUFFICES ASSUME NEW S \in SUBSET Listed(f),
                      walker[f] = "signal" => at[f].link \in S,
                      walker[f] = "advance" /\ next[at[f].link] # NULL
                        => next[at[f].link] \in S,
                      \A k \in S : next'[k] # NULL => next'[k] \in S
               PROVE  l \in S
  BY <1>1 DEF ToCome
<1>3. \A k \in S : next[k] # NULL => next[k] \in S
  BY <1>2
<1> QED
  BY <1>2, <1>3 DEF ToCome

\* Waiters leave a list alone while its broadcaster has the mutex.
LEMMA LockedListKept ==
  ASSUME IInv, NEW w \in Waiters, Step(w), NEW f \in Events, Locked(f)
  PROVE  Listed(f)' = Listed(f) /\ \A k \in Listed(f) : next'[k] = next[k]
<1>t. TypeOK /\ (\A u \in Waiters : WaiterOK(u)) /\ ListExact
  BY DEF IInv
<1>l. \A k \in Listed(f) : k \in Links
  BY ListedFields
<1>1. CASE QuietStep(w)
  <2>1. Listed(f)' = Listed(f)
    BY <1>t, <1>1, QuietLists
  <2>2. CASE Return(w)
    <3>1. pc[w] = "unlink" /\ i[w] > n[w] /\ i[w] \in Nat /\ n[w] \in Nat
      BY <1>t, <2>2, MaxLenBounds DEF Return, TypeOK
    <3>2. Made(w) = {}
      BY <3>1 DEF Made
    <3>3. \A k \in Listed(f) : Owner(k) # w
      BY <3>2, ListedFields
    <3> QED
      BY <1>l, <2>1, <2>2, <3>3 DEF Return
  <2>3. CASE ~Return(w)
    <3>1. next' = next
      BY <1>1, <2>3
      DEF QuietStep, Call, StopLinking, AllLinked, WaitCheck, SpuriousWakeup, linkVars
    <3> QED
      BY <2>1, <3>1
  <2> QED
    BY <2>2, <2>3
<1>2. CASE Link(w)
  <2>1. Here(w) # f
    BY <1>2 DEF Link
  <2>2. Listed(f)' = Listed(f) /\ Mine(w) \notin Listed(f)
    BY <1>t, <1>2, <2>1, LinkLists
  <2>3. next' = [next EXCEPT ![Mine(w)] = link[Here(w)]]
    BY <1>2 DEF Link
  <2> QED
    BY <1>t, <1>l, <2>2, <2>3 DEF TypeOK
<1>3. CASE Unlink(w)
  <2>0. PICK e, l, p : e = Here(w) /\ l = Mine(w) /\ p = prev[l]
    OBVIOUS
  <2>1. e # f
    BY <1>3, <2>0 DEF Unlink
  <2>2. Listed(f)' = Listed(f) /\ l \in Listed(e) /\ e \in Events
    BY <1>t, <1>3, <2>0, <2>1, UnlinkLists
  <2>3. p = NULL \/ p \in Listed(e)
    BY <1>t, <2>0, <2>2 DEF ListExact, LinkOK
  <2>4. p = NULL \/ p \notin Listed(f)
    BY <1>t, <2>1, <2>3, ListedOwner
  <2>5. next' = next \/ (p # NULL /\ next' = [next EXCEPT ![p] = next[l]])
    BY <1>3, <2>0 DEF Unlink
  <2>6. CASE next' = next
    BY <2>2, <2>6
  <2>7. CASE p # NULL /\ next' = [next EXCEPT ![p] = next[l]]
    BY <1>t, <1>l, <2>2, <2>4, <2>7 DEF TypeOK
  <2> QED
    BY <2>5, <2>6, <2>7
<1> QED
  BY <1>1, <1>2, <1>3 DEF Step

LEMMA StepWakeups ==
  ASSUME IInv, NEW w \in Waiters, Step(w), NEW u \in Waiters
  PROVE  WakeupOK(u)'
<1>t. /\ TypeOK /\ (\A v \in Waiters : WaiterOK(v) /\ WakeupOK(v))
      /\ \A e \in Events : WalkerOK(e)
  BY DEF IInv
<1>o. Others(w) /\ UNCHANGED <<status, walker, at>>
  BY <1>t, WaiterSteps DEF Step, walkVars
<1>1. pc'[u] = "asleep" => ~signaled'[u]
  <2>1. CASE u # w
    BY <1>t, <1>o, <2>1 DEF Others, WakeupOK
  <2>2. CASE u = w /\ QuietStep(w)
    BY <1>t, <2>2 DEF WakeupOK, QuietStep, Call, StopLinking, AllLinked, WaitCheck, Return,
       SpuriousWakeup, TypeOK
  <2>3. CASE u = w /\ (Link(w) \/ Unlink(w))
    BY <1>t, <2>3 DEF WakeupOK, Link, Unlink, TypeOK
  <2> QED
    BY <2>1, <2>2, <2>3 DEF Step
<1>2. ASSUME pc'[u] \in {"link", "wait", "asleep"}, ~signaled'[u],
             NEW j \in Made(u)', NEW f, f = array'[u][j], status'[f]
      PROVE  ToCome(f, <<u, j>>)'
  <2>1. /\ j \in Made(u) /\ array'[u] = array[u]
        /\ pc[u] \in {"link", "wait", "asleep"} /\ ~signaled[u]
    <3>1. CASE u # w
      BY <1>o, <1>2, <3>1, MadeByOthers DEF Others
    <3>2. CASE u = w /\ QuietStep(w)
      <4>1. Made(w)' = Made(w) /\ (Made(w) # {} => array'[w] = array[w])
        BY <1>t, <3>2, QuietMade
      <4>2. Made(w) # {} => pc[w] # "idle"
        BY DEF Made
      <4>3. pc[w] \in {"idle", "link", "wait", "asleep"} /\ signaled'[w] = signaled[w]
        BY <1>t, <1>2, <3>2 DEF QuietStep, Call, StopLinking, AllLinked, WaitCheck, Return,
           SpuriousWakeup, TypeOK
      <4> QED
        BY <1>2, <3>2, <4>1, <4>2, <4>3
    <3>3. CASE u = w /\ Link(w)
      <4>1. /\ pc[w] = "link" /\ pc' = pc /\ array' = array /\ signaled' = signaled
            /\ ~status[array[w][i[w]]] /\ i'[w] = i[w] + 1 /\ i[w] \in Nat
        BY <1>t, <3>3, MaxLenBounds DEF Link, Here, TypeOK
      <4>2. Made(w) = 1 .. i[w] - 1 /\ Made(w)' = 1 .. i'[w] - 1
        BY <4>1 DEF Made
      <4>3. j # i[w]
        BY <1>o, <1>2, <3>3, <4>1
      <4>4. j \in Made(w)
        BY <1>2, <3>3, <4>1, <4>2, <4>3
      <4> QED
        BY <1>2, <3>3, <4>1, <4>4
    <3>4. CASE u = w /\ Unlink(w)
      BY <1>2, <3>4 DEF Unlink
    <3> QED
      BY <3>1, <3>2, <3>3, <3>4 DEF Step
  <2>2. f = array[u][j]
    BY <1>2, <2>1
  <2>3. f \in Events
    <3>1. Made(u) \subseteq 1 .. Len(array[u]) /\ array[u] \in Arrays
      BY <1>t, <2>1, MadeRange
    <3> QED
      BY <2>1, <2>2, <3>1, ArrayElements
  <2>4. ToCome(f, <<u, j>>)
    BY <1>t, <1>o, <1>2, <2>1, <2>2 DEF WakeupOK
  <2>5. Listed(f)' = Listed(f) /\ \A k \in Listed(f) : next'[k] = next[k]
    BY <2>3, <2>4, LockedListKept DEF ToCome
  <2> QED
    BY <1>t, <1>o, <2>3, <2>4, <2>5, SameToCome
<1> QED
  BY <1>1, <1>2 DEF WakeupOK

\* Going along next from the first link, one comes to every link of a list.
LEMMA AllReached ==
  ASSUME IInv, NEW e \in Events, NEW l \in Listed(e),
         NEW S \in SUBSET Listed(e), link[e] # NULL => link[e] \in S,
         \A k \in S : next[k] # NULL => next[k] \in S
  PROVE  l \in S
<1>t. HeadOK(e) /\ (\A k \in Listed(e) : LinkOK(e, k)) /\ Reached(e)
  BY DEF IInv, ListExact
<1>1. link[e] # NULL /\ link[e] \in S
  BY <1>t DEF HeadOK
<1> SUFFICES ASSUME l \notin S PROVE FALSE
  OBVIOUS
<1> DEFINE T == Listed(e) \ S
<1>2. ASSUME NEW k \in T PROVE prev[k] \in T
  <2>1. prev[k] \in Listed(e) /\ next[prev[k]] = k
    BY <1>t, <1>1, <1>2 DEF LinkOK
  <2>2. k # NULL
    BY <1>2, ListedFields, LinkFields
  <2> QED
    BY <1>2, <2>1, <2>2
<1>3. T \in SUBSET Listed(e) /\ T # {}
  OBVIOUS
<1>4. link[e] \in T
  BY <1>t, <1>2, <1>3 DEF Reached
<1> QED
  BY <1>1, <1>4

LEMMA BroadcastWakeups ==
  ASSUME IInv, NEW e \in Events, Broadcast(e), NEW u \in Waiters
  PROVE  WakeupOK(u)'
<1>t. /\ TypeOK /\ (\A v \in Waiters : WaiterOK(v)) /\ WakeupOK(u)
      /\ (\A f \in Events : WalkerOK(f)) /\ ListExact
  BY DEF IInv
<1>l. /\ \A f : Listed(f)' = Listed(f)
      /\ next' = next /\ array' = array /\ Made(u)' = Made(u)
  BY <1>t, BroadcastLists
<1>p. /\ pc'[u] = pc[u] \/ (pc[u] = "asleep" /\ pc'[u] = "wait")
      /\ signaled[u] => signaled'[u]
      /\ signaled'[u] /\ ~signaled[u] => pc'[u] # "asleep"
  BY <1>t DEF Broadcast, Complete, Signal, Advance, waitVars, TypeOK
<1>1. pc'[u] = "asleep" => ~signaled'[u]
  BY <1>t, <1>p DEF WakeupOK
<1>2. ASSUME pc'[u] \in {"link", "wait", "asleep"}, ~signaled'[u],
             NEW j \in Made(u), NEW f, f = array[u][j], status'[f]
      PROVE  ToCome(f, <<u, j>>)'
  <2>1. pc[u] \in {"link", "wait", "asleep"} /\ ~signaled[u]
    BY <1>p, <1>2
  <2>2. PICK l : l = <<u, j>>
    OBVIOUS
  <2>3. f \in Events /\ j \in 1 .. MaxLen
    <3>1. Made(u) \subseteq 1 .. Len(array[u]) /\ array[u] \in Arrays
      BY <1>t, <1>2, MadeRange
    <3>2. Len(array[u]) \in Nat /\ Len(array[u]) <= MaxLen /\ MaxLen \in Nat
      BY <3>1, ArrayElements, MaxLenBounds
    <3>3. j \in 1 .. Len(array[u])
      BY <1>2, <3>1
    <3> QED
      BY <1>2, <3>1, <3>2, <3>3, ArrayElements
  <2>4. l \in Listed(f) /\ Owner(l) = u
    BY <1>2, <2>2, <2>3, LinkMade, ListedFields
  <2>5. status[f] => ToCome(f, l)
    BY <1>t, <1>2, <2>1, <2>2 DEF WakeupOK
  <2>6. CASE f # e
    <3>1. walker'[f] = walker[f] /\ at'[f] = at[f] /\ status'[f] = status[f]
      BY <1>t, <2>3, <2>6 DEF Broadcast, Complete, Signal, Advance, TypeOK, evVars
    <3> QED
      BY <1>t, <1>l, <1>2, <2>2, <2>3, <2>5, <3>1, SameToCome
  <2>7. CASE f = e /\ Complete(e)
    <3>1. /\ at'[e].link = link[e]
          /\ walker'[e] = IF link[e] = NULL THEN "done" ELSE "signal"
      BY <1>t, <2>7 DEF Complete, TypeOK
    <3>2. link[e] # NULL
      BY <1>t, <2>4, <2>7 DEF ListExact, HeadOK
    <3>3. ASSUME NEW S \in SUBSET Listed(e), link[e] \in S,
                 \A k \in S : next[k] # NULL => next[k] \in S
          PROVE  l \in S
      BY <2>4, <2>7, <3>3, AllReached
    <3> QED
      BY <1>l, <2>2, <2>7, <3>1, <3>2, <3>3 DEF ToCome, Locked
  <2>8. CASE f = e /\ Signal(e)
    <3>1. /\ walker[e] = "signal" /\ walker'[e] = "advance" /\ at' = at /\ status' = status
          /\ signaled'[at[e].group] \/ at[e].group \notin Waiters
      BY <1>t, <2>8 DEF Signal, TypeOK, evVars
    <3>2. at[e].link \in Listed(e) /\ at[e].group = Owner(at[e].link)
      BY <1>t, <3>1 DEF WalkerOK, Locked
    <3>3. l # at[e].link
      BY <1>2, <2>4, <3>1, <3>2
    <3>4. ToCome(e, l)
      BY <1>2, <2>2, <2>5, <2>8, <3>1
    <3>5. ASSUME NEW S \in SUBSET Listed(e),
                 next[at[e].link] # NULL => next[at[e].link] \in S,
                 \A k \in S : next[k] # NULL => next[k] \in S
          PROVE  l \in S
      <4>1. PICK S2 : S2 = S \cup {at[e].link}
        OBVIOUS
      <4>2. S2 \in SUBSET Listed(e) /\ at[e].link \in S2
        BY <3>2, <4>1
      <4>3. \A k \in S2 : next[k] # NULL => next[k] \in S2
        BY <3>5, <4>1
      <4>4. l \in S2
        BY <3>1, <3>4, <4>2, <4>3 DEF ToCome
      <4> QED
        BY <3>3, <4>1, <4>4
    <3> QED
      BY <1>l, <2>2, <2>8, <3>1, <3>5 DEF ToCome, Locked
  <2>9. CASE f = e /\ Advance(e)
    <3>0. PICK h : h = at[e].link
      OBVIOUS
    <3>1. /\ walker[e] = "advance" /\ status' = status /\ at'[e].link = next[h]
          /\ walker'[e] = IF next[h] = NULL THEN "done" ELSE "signal"
      BY <1>t, <2>9, <3>0 DEF Advance, TypeOK, evVars
    <3>2. ToCome(e, l)
      BY <1>2, <2>2, <2>5, <2>9, <3>1
    <3>3. ASSUME NEW S \in SUBSET Listed(e), next[h] # NULL => next[h] \in S,
                 \A k \in S : next[k] # NULL => next[k] \in S
          PROVE  l \in S
      BY <3>0, <3>1, <3>2, <3>3 DEF ToCome
    <3>4. next[h] # NULL
      <4>1. PICK S : S = {}
        OBVIOUS
      <4>2. S \in SUBSET Listed(e) /\ (\A k \in S : next[k] # NULL => next[k] \in S)
        BY <4>1
      <4>3. next[h] = NULL => l \in S
        BY <3>3, <4>2
      <4> QED
        BY <4>1, <4>3
    <3> QED
      BY <1>l, <2>2, <2>9, <3>1, <3>3, <3>4 DEF ToCome, Locked
  <2> QED
    BY <2>6, <2>7, <2>8, <2>9 DEF Broadcast
<1> QED
  BY <1>l, <1>1, <1>2 DEF WakeupOK

-----------------------------------------------------------------------------
(* The invariant, and what follows from it.                                *)

LEMMA InitInv == Init => IInv
<1> SUFFICES ASSUME Init PROVE IInv
  OBVIOUS
<1>1. TypeOK
  BY InitTyped
<1>2. \A w \in Waiters : pc[w] = "idle" /\ Made(w) = {}
  BY DEF Init, Made
<1>3. \A e : Listed(e) = {}
  BY <1>2, ListedFields, LinkFields
<1>4. \A w \in Waiters : WaiterOK(w) /\ WakeupOK(w)
  BY DEF Init, WaiterOK, WakeupOK
<1>5. \A l \in Links : FreshOK(l)
  BY DEF Init, FreshOK
<1>6. \A e \in Events : WalkerOK(e) /\ Reached(e)
  BY <1>3 DEF Init, WalkerOK, Locked, Reached
<1>7. ListExact
  BY <1>3 DEF Init, ListExact, HeadOK
<1> QED
  BY <1>1, <1>4, <1>5, <1>6, <1>7 DEF IInv

LEMMA StepInv == DistinctArrays /\ IInv /\ [Next]_vars => IInv'
<1> SUFFICES ASSUME DistinctArrays, IInv, [Next]_vars PROVE IInv'
  OBVIOUS
<1>t. TypeOK /\ (\A w \in Waiters : WaiterOK(w)) /\ \A e \in Events : WalkerOK(e)
  BY DEF IInv
<1>i. TypeOK' /\ (\A u \in Waiters : WaiterOK(u)' /\ WakeupOK(u)') /\ (\A l \in Links : FreshOK(l)')
        /\ (\A f \in Events : WalkerOK(f)' /\ ListOK(f)') => IInv'
  BY DEF IInv, ListExact, ListOK
<1>1. ASSUME NEW w \in Waiters, Step(w) PROVE IInv'
  <2>1. TypeOK'
    BY <1>t, <1>1, QuietTyped, LinkTyped, UnlinkTyped DEF Step
  <2> QED
    BY <1>1, <1>i, <2>1, StepWaiters, StepWakeups, StepFresh, StepWalkers, StepLists
<1>2. ASSUME NEW e \in Events, Broadcast(e) PROVE IInv'
  <2>1. TypeOK'
    BY <1>t, <1>2, BroadcastTyped
  <2> QED
    BY <1>2, <1>i, <2>1, BroadcastWaiter, BroadcastWakeups, BroadcastFresh, BroadcastWalkers,
       BroadcastListOK
<1>3. CASE UNCHANGED vars
  <2>1. UNCHANGED <<status, group, link, walker, at, pc, array, i, n, rv, next, prev, lgroup,
                    signaled, known>>
    BY <1>3 DEF vars
  <2>2. (\A w \in Waiters : Made(w)' = Made(w)) /\ \A e : Listed(e)' = Listed(e)
    BY <2>1, SameLists DEF Made
  <2>3. TypeOK'
    BY <1>t, <2>1 DEF TypeOK
  <2>4. \A u \in Waiters : WaiterOK(u)'
    BY <1>t, <2>1, WaiterKept
  <2>5. \A l \in Links : FreshOK(l)'
    BY <2>1 DEF IInv, FreshOK
  <2>6. \A f \in Events : WalkerOK(f)'
    BY <1>t, <2>1, <2>2 DEF WalkerOK, Locked
  <2>7. \A f \in Events : ListOK(f)'
    BY <2>1, <2>2, SameListOK DEF IInv, ListExact, ListOK
  <2>8. \A u \in Waiters : WakeupOK(u)'
    BY <2>1, <2>2 DEF IInv, WakeupOK, ToCome, Locked
  <2> QED
    BY <1>i, <2>3, <2>4, <2>5, <2>6, <2>7, <2>8
<1> QED
  BY <1>1, <1>2, <1>3, NextSteps

\* The inductive invariant: what waiters and broadcasters know, and lists
\* that hold the links of the waiters inside xrp_wait_any and no other.
THEOREM WaitAnyInvariance ==
  ASSUME DistinctArrays
  PROVE  Spec => []IInv
<1> QED
  BY InitInv, StepInv, PTL DEF Spec

\* Whatever waiters come and go, and wherever in a list their links are,
\* xrp_wait_any finds no "inconsistent link state".
THEOREM ListsStayExact ==
  ASSUME DistinctArrays
  PROVE  Spec => []ListExact
<1>1. IInv => ListExact
  BY DEF IInv
<1> QED
  BY <1>1, WaitAnyInvariance, PTL

\* No broadcaster and no waiter looks at a link or a group that died when the
\* xrp_wait_any that had it on its stack returned.
THEOREM LinksOutliveTheirUse ==
  ASSUME DistinctArrays
  PROVE  Spec => []NoDanglingLink
<1>1. IInv => NoDanglingLink
  <2> SUFFICES ASSUME IInv PROVE NoDanglingLink
    OBVIOUS
  <2>t. TypeOK /\ (\A w \in Waiters : WaiterOK(w)) /\ ListExact
    BY DEF IInv
  <2>1. ASSUME NEW e \in Events, Locked(e)
        PROVE  Alive(at[e].group) /\ Alive(Owner(at[e].link)) /\ at[e].link \in Listed(e)
    <3>1. at[e].link \in Listed(e) /\ at[e].group = Owner(at[e].link)
      BY <2>1 DEF IInv, WalkerOK
    <3> QED
      BY <2>t, <3>1, ListedOwner
  <2>2. ASSUME NEW w \in Waiters, pc[w] = "unlink", i[w] <= n[w],
               NEW l \in {next[Mine(w)], prev[Mine(w)]}, l # NULL
        PROVE  Alive(Owner(l))
    <3>0. PICK k, e : k = Mine(w) /\ e = Here(w)
      OBVIOUS
    <3>1. /\ array[w] \in Arrays /\ n[w] <= Len(array[w])
          /\ i[w] \in Nat \ {0} /\ n[w] \in Nat
      BY <2>t, <2>2, MaxLenBounds DEF WaiterOK, TypeOK
    <3>2. i[w] \in 1 .. Len(array[w]) /\ i[w] \in 1 .. MaxLen
      BY <2>2, <3>1, ArrayElements, MaxLenBounds
    <3>3. k \in Links /\ Owner(k) = w /\ k[2] = i[w] /\ array[w][i[w]] = e /\ e \in Events
      BY <3>0, <3>1, <3>2, LinkMade, ArrayElements DEF Mine, Here
    <3>4. i[w] \in Made(w)
      BY <2>2, <3>1 DEF Made
    <3>5. k \in Listed(e)
      BY <3>3, <3>4, ListedFields
    <3>6. LinkOK(e, k) /\ HeadOK(e)
      BY <2>t, <3>3, <3>5 DEF ListExact
    <3>7. l \in Listed(e)
      BY <2>2, <3>0, <3>6 DEF LinkOK, HeadOK
    <3> QED
      BY <2>t, <3>7, ListedOwner
  <2> QED
    BY <2>1, <2>2 DEF NoDanglingLink
<1> QED
  BY <1>1, WaitAnyInvariance, PTL

\* No wake-up is lost: a waiter whose call found an event complete does not
\* sleep, and one that sleeps while an event of its array is complete has a
\* broadcaster on its way to its link.
THEOREM NoWakeupLost ==
  ASSUME DistinctArrays
  PROVE  Spec => []NoLostWakeup
<1>1. IInv => NoLostWakeup
  BY DEF IInv, NoLostWakeup, WaiterOK, WakeupOK, Made
<1> QED
  BY <1>1, WaitAnyInvariance, PTL

LEMMA ReturnFound ==
  ASSUME IInv, NEW w \in Waiters, Return(w)
  PROVE  /\ array[w] \in Arrays /\ rv[w] \in 1 .. Len(array[w])
         /\ status[array[w][rv[w]]]
<1>1. WaiterOK(w) /\ TypeOK /\ pc[w] = "unlink" /\ i[w] > n[w]
  BY DEF IInv, Return
<1>2. i[w] \in Nat /\ n[w] \in Nat
  BY <1>1, MaxLenBounds DEF TypeOK
<1>3. ~Completed(w, i[w] .. n[w])
  BY <1>1, <1>2 DEF Completed
<1> QED
  BY <1>1, <1>3 DEF WaiterOK

\* xrp_wait_any returns the index of an event that is complete.
THEOREM ReturnsAnEvent ==
  ASSUME DistinctArrays
  PROVE  Spec => ReturnsCompleted
<1>1. IInv /\ [Next]_vars =>
        [\A w \in Waiters : Return(w) => rv[w] <= Len(array[w]) /\ status[array[w][rv[w]]]]_vars
  BY ReturnFound, ArrayElements
<1> QED
  BY <1>1, WaitAnyInvariance, PTL DEF Spec, ReturnsCompleted

-----------------------------------------------------------------------------
(* The refinement of XrpEvents, without its fairness.                      *)

LEMMA EventsOf ==
  ASSUME NEW a \in Arrays
  PROVE  /\ {a[j] : j \in DOMAIN a} \in SUBSET Events
         /\ {a[j] : j \in DOMAIN a} # {}
  BY ArrayElements

LEMMA NoEvents == {<<>>[j] : j \in DOMAIN <<>>} = {}
  OBVIOUS

WaitedFor == [w \in Waiters |-> {array[w][j] : j \in DOMAIN array[w]}]
Done == {e \in Events : status[e]}

LEMMA OneWaitsFor ==
  ASSUME NEW w \in Waiters, Others(w), NEW S,
         {array'[w][j] : j \in DOMAIN array'[w]} = S
  PROVE  WaitedFor' = [WaitedFor EXCEPT ![w] = S]
<1>1. WaitedFor' = [u \in Waiters |-> WaitedFor'[u]]
  BY DEF WaitedFor
<1>2. WaitedFor'[w] = S
  BY DEF WaitedFor
<1>3. \A u \in Waiters \ {w} : WaitedFor'[u] = WaitedFor[u]
  BY DEF Others, WaitedFor
<1>4. WaitedFor = [u \in Waiters |-> WaitedFor[u]]
  BY DEF WaitedFor
<1> QED
  BY <1>1, <1>2, <1>3, <1>4

\* A call starts to wait for all its events at once; it stops when it returns.
LEMMA StepWaits ==
  ASSUME IInv, NEW w \in Waiters, Step(w)
  PROVE  [Waits!Next]_<<Done, WaitedFor>>
<1>t. TypeOK /\ WaiterOK(w)
  BY DEF IInv
<1>o. Others(w) /\ status' = status
  BY <1>t, WaiterSteps DEF Step
<1>d. Done' = Done
  BY <1>o DEF Done
<1>1. ASSUME NEW a \in Arrays, Call(w, a)
      PROVE  Waits!Wait(w, {a[j] : j \in DOMAIN a})
  <2>1. array[w] = <<>> /\ array'[w] = a
    BY <1>t, <1>1 DEF Call, WaiterOK, TypeOK
  <2>2. WaitedFor[w] = {}
    BY <2>1, NoEvents DEF WaitedFor
  <2>3. WaitedFor' = [WaitedFor EXCEPT ![w] = {a[j] : j \in DOMAIN a}]
    <3>1. {array'[w][j] : j \in DOMAIN array'[w]} = {a[j] : j \in DOMAIN a}
      BY <2>1
    <3>2. PICK S : S = {a[j] : j \in DOMAIN a}
      OBVIOUS
    <3> QED
      BY <1>o, <3>1, <3>2, OneWaitsFor
  <2> QED
    BY <1>d, <2>2, <2>3, EventsOf DEF Waits!Wait, WaitedFor, Done
<1>2. ASSUME Return(w)
      PROVE  Waits!Return(w)
  <2>1. array[w] \in Arrays /\ rv[w] \in 1 .. Len(array[w]) /\ status[array[w][rv[w]]]
    BY <1>2, ReturnFound
  <2>2. rv[w] \in DOMAIN array[w] /\ array[w][rv[w]] \in Events
    BY <2>1, ArrayElements
  <2>3. WaitedFor[w] \cap Done # {}
    BY <2>1, <2>2 DEF WaitedFor, Done
  <2>4. array'[w] = <<>>
    BY <1>t, <1>2 DEF Return, TypeOK
  <2>5. WaitedFor' = [WaitedFor EXCEPT ![w] = {}]
    <3>1. {array'[w][j] : j \in DOMAIN array'[w]} = {}
      BY <2>4, NoEvents
    <3> QED
      BY <1>o, <3>1, OneWaitsFor
  <2> QED
    BY <1>d, <2>3, <2>5 DEF Waits!Return, WaitedFor, Done
<1>3. CASE Step(w) /\ ~Return(w) /\ ~(\E a \in Arrays : Call(w, a))
  <2>1. array' = array
    BY <1>3 DEF Step, QuietStep, StopLinking, AllLinked, WaitCheck, SpuriousWakeup, Link, Unlink
  <2> QED
    BY <1>d, <2>1 DEF WaitedFor
<1> QED
  BY <1>1, <1>2, <1>3, EventsOf DEF Waits!Next

LEMMA BroadcastWaits ==
  ASSUME IInv, NEW e \in Events, Broadcast(e)
  PROVE  [Waits!Next]_<<Done, WaitedFor>>
<1>t. TypeOK /\ WalkerOK(e)
  BY DEF IInv
<1>a. WaitedFor' = WaitedFor
  BY <1>t, BroadcastLists DEF WaitedFor
<1>1. CASE Complete(e)
  <2>1. ~status[e] /\ status' = [status EXCEPT ![e] = TRUE]
    BY <1>t, <1>1 DEF Complete, WalkerOK
  <2>2. e \notin Done /\ Done' = Done \cup {e}
    BY <1>t, <2>1 DEF Done, TypeOK
  <2>3. Waits!Complete(e)
    BY <1>a, <2>2 DEF Waits!Complete, Done, WaitedFor
  <2> QED
    BY <2>3 DEF Waits!Next
<1>2. CASE Signal(e) \/ Advance(e)
  <2>1. status' = status
    BY <1>2 DEF Signal, Advance, evVars
  <2> QED
    BY <1>a, <2>1 DEF Done
<1> QED
  BY <1>1, <1>2 DEF Broadcast

\* xrp_wait_any is the waiting of XrpEvents: it returns after one of its
\* events has been completed and not before, and each is completed once.
THEOREM ImplementsEvents ==
  ASSUME DistinctArrays
  PROVE  Spec => Waits!Spec
<1>1. Init => Waits!Init
  BY NoEvents DEF Init, Waits!Init
<1>2. IInv /\ [Next]_vars => [Waits!Next]_(Waits!vars)
  <2> SUFFICES ASSUME IInv, [Next]_vars PROVE [Waits!Next]_<<Done, WaitedFor>>
    BY DEF Waits!vars, Done, WaitedFor
  <2>1. CASE UNCHANGED vars
    BY <2>1 DEF vars, Done, WaitedFor
  <2> QED
    BY <2>1, NextSteps, StepWaits, BroadcastWaits
<1> QED
  BY <1>1, <1>2, WaitAnyInvariance, PTL DEF Spec, Waits!Spec
=============================================================================
