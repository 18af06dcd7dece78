-------------------------- MODULE XrpBuffersRefines --------------------------
(***************************************************************************)
(* XrpBuffers implements RefCounted, for any number of clients, workers,   *)
(* buffers, groups and commands.  IInv says that an object is alive in a   *)
(* state if and only if somebody holds it; what is left to show of a step  *)
(* is which ways the memory of an object may go.                           *)
(***************************************************************************)
EXTENDS XrpBuffersProofs

Moved(o) ==
  \/ mem'[o] = mem[o]
  \/ mem[o] \in {"none", "made"} /\ mem'[o] \in {"none", "made", "live"}
  \/ mem[o] = "live" /\ mem'[o] \in {"closing", "freed"}
  \/ mem[o] = "closing" /\ mem'[o] = "freed"

\* The memory of X alone goes one of these ways.
LEMMA OneMoves ==
  ASSUME IInv, NEW X \in Objects, NEW l, mem' = [mem EXCEPT ![X] = l],
         \/ mem[X] \in {"none", "made"} /\ l \in {"none", "made", "live"}
         \/ mem[X] = "live" /\ l \in {"closing", "freed"}
         \/ mem[X] = "closing" /\ l = "freed"
  PROVE  \A o \in Objects : Moved(o)
BY Locals DEF Moved

LEMMA NoneMoves ==
  ASSUME UNCHANGED mem
  PROVE  \A o \in Objects : Moved(o)
BY DEF Moved

LEMMA ReleaseMoves ==
  ASSUME IInv, NEW X \in Objects, mem[X] = "live", NEW l \in {"closing", "freed"},
         mem' = IF LastRef(X) THEN [mem EXCEPT ![X] = l] ELSE mem
  PROVE  \A o \in Objects : Moved(o)
<1>1. CASE LastRef(X)
  BY <1>1, OneMoves
<1>2. CASE ~LastRef(X)
  BY <1>2, NoneMoves
<1> QED
  BY <1>1, <1>2

-----------------------------------------------------------------------------
(* The actions, by what they do to memory.                                 *)

LEMMA CallMoves ==
  ASSUME IInv, NEW t \in Clients, Call(t)
  PROVE  \A o \in Objects : Moved(o)
<1>1. ASSUME NEW u \in Clients, NEW x \in Objects, Share(t, u, x) PROVE UNCHANGED mem
  BY <1>1 DEF Share
<1>2. ASSUME NEW b \in Buffers,
             Sync(t, b) \/ (\E w \in Windows : Map(t, b, w[1], w[2]))
      PROVE  UNCHANGED mem
  BY <1>2 DEF Sync, Map, objVars
<1>3. ASSUME NEW g \in Groups, NEW b \in Buffers, NEW n \in 1 .. MaxSlots,
             GetBuffer(t, g, n) \/ SetBuffer(t, g, n, b)
      PROVE  UNCHANGED mem
  BY <1>3 DEF GetBuffer, SetBuffer
<1>4. ASSUME NEW g \in Groups, NEW n \in 1 .. MaxSlots, GetBuffer(t, g, n) PROVE UNCHANGED mem
  BY <1>4 DEF GetBuffer
<1>5. ASSUME NEW g \in Groups, NEW b \in Buffers, AddBuffer(t, g, b) PROVE UNCHANGED mem
  BY <1>5 DEF AddBuffer
<1>6. ASSUME NEW g \in Groups, RunIoctl(t, g) PROVE UNCHANGED mem
  BY <1>6 DEF RunIoctl, objVars
<1>7. ASSUME NEW c \in Cmds, NEW g \in Groups, Enqueue(t, c, g) PROVE UNCHANGED mem
  BY <1>7 DEF Enqueue
<1>8. ASSUME NEW b \in Buffers, CreateHostBuffer(t, b) PROVE \A o \in Objects : Moved(o)
  <2>1. mem[b] = "none" /\ mem' = [mem EXCEPT ![b] = "live"] /\ b \in Objects
    BY <1>8, Names DEF CreateHostBuffer
  <2> QED
    BY <2>1, OneMoves
<1>9. ASSUME NEW b \in Buffers, CreateDeviceBuffer(t, b) PROVE \A o \in Objects : Moved(o)
  <2>1. mem[b] = "none" /\ mem' = [mem EXCEPT ![b] = "made"] /\ b \in Objects
    BY <1>9, Names DEF CreateDeviceBuffer
  <2> QED
    BY <2>1, OneMoves
<1>10. ASSUME NEW g \in Groups, CreateGroup(t, g) PROVE \A o \in Objects : Moved(o)
  <2>1. mem[g] = "none" /\ mem' = [mem EXCEPT ![g] = "live"] /\ g \in Objects
    BY <1>10, Names DEF CreateGroup
  <2> QED
    BY <2>1, OneMoves
<1>11. ASSUME NEW b \in Buffers, ReleaseBuffer(t, b) PROVE \A o \in Objects : Moved(o)
  <2>1. mem[b] = "live" /\ b \in Objects
    BY <1>11, OwnedLive DEF ReleaseBuffer
  <2>2. mem' = IF LastRef(b) THEN [mem EXCEPT ![b] = "closing"] ELSE mem
    BY <1>11 DEF ReleaseBuffer, DropBuffer
  <2> QED
    BY <2>1, <2>2, ReleaseMoves
<1>12. ASSUME NEW m \in mapped[t], Unmap(t, m) PROVE \A o \in Objects : Moved(o)
  <2>1. PICK b : b = m[1]
    OBVIOUS
  <2>2. mem[b] = "live" /\ b \in Objects
    BY <2>1, MappedLive, Names DEF MappedBuffers
  <2>3. mem' = IF LastRef(b) THEN [mem EXCEPT ![b] = "closing"] ELSE mem
    BY <1>12, <2>1 DEF Unmap, DropBuffer
  <2> QED
    BY <2>2, <2>3, ReleaseMoves
<1>13. ASSUME NEW g \in Groups, ReleaseGroup(t, g) PROVE \A o \in Objects : Moved(o)
  <2>1. mem[g] = "live" /\ g \in Objects
    BY <1>13, OwnedLive DEF ReleaseGroup
  <2>2. mem' = IF LastRef(g) THEN [mem EXCEPT ![g] = "closing"] ELSE mem
    BY <1>13 DEF ReleaseGroup, DropGroup
  <2> QED
    BY <2>1, <2>2, ReleaseMoves
<1>14. ASSUME ReleaseDevice(t) PROVE \A o \in Objects : Moved(o)
  <2>1. mem[Device] = "live" /\ Device \in Objects
    BY <1>14, OwnedLive DEF ReleaseDevice
  <2>2. mem' = IF LastRef(Device) THEN [mem EXCEPT ![Device] = "freed"] ELSE mem
    BY <1>14 DEF ReleaseDevice
  <2> QED
    BY <2>1, <2>2, ReleaseMoves
<1>15. CASE UNCHANGED mem
  BY <1>15, NoneMoves
<1>16. CASE \E b \in Buffers :
              \/ CreateHostBuffer(t, b) \/ CreateDeviceBuffer(t, b)
              \/ Sync(t, b) \/ ReleaseBuffer(t, b)
              \/ \E w \in Windows : Map(t, b, w[1], w[2])
  BY <1>16, <1>2, <1>8, <1>9, <1>11, <1>15
<1>17. CASE \E g \in Groups : CreateGroup(t, g) \/ ReleaseGroup(t, g) \/ RunIoctl(t, g)
  BY <1>17, <1>6, <1>10, <1>13, <1>15
<1>18. CASE \E g \in Groups, n \in 1 .. MaxSlots :
              GetBuffer(t, g, n) \/ \E b \in Buffers : SetBuffer(t, g, n, b)
  BY <1>18, <1>3, <1>4, <1>15
<1> QED
  BY <1>1, <1>5, <1>7, <1>12, <1>14, <1>15, <1>16, <1>17, <1>18 DEF Call

LEMMA DestructorMoves ==
  ASSUME IInv, NEW t \in Threads, Destructor(t)
  PROVE  \A o \in Objects : Moved(o)
<1>1. CASE ReleaseSlot(t)
  <2>1. PICK g \in Groups : g = grp[t]
    BY <1>1, TheThreads DEF ReleaseSlot, GroupOK
  <2>2. slots[g] \in Seq(Buffers) /\ slots[g] # <<>>
    BY <1>1, <2>1 DEF ReleaseSlot, IInv, TypeOK
  <2>3. PICK b : b = Head(slots[g])
    OBVIOUS
  <2>4. 1 \in DOMAIN slots[g] /\ b = slots[g][1]
    BY <2>2, <2>3
  <2>5. b \in Objects /\ mem[b] = "live"
    BY <2>4, SlotLive, Names
  <2>6. mem' = IF LastRef(b) THEN [mem EXCEPT ![b] = "closing"] ELSE mem
    BY <1>1, <2>1, <2>3 DEF ReleaseSlot, DropBuffer
  <2> QED
    BY <2>5, <2>6, ReleaseMoves
<1>2. CASE FreeGroup(t)
  <2>1. PICK g \in Groups : g = grp[t] /\ mem[g] = "closing"
    BY <1>2, TheThreads DEF FreeGroup, GroupOK, DestroysGroup, Dtors
  <2>2. mem' = [mem EXCEPT ![g] = "freed"] /\ g \in Objects
    BY <1>2, <2>1, Names DEF FreeGroup
  <2> QED
    BY <2>1, <2>2, OneMoves
<1>3. CASE ReleaseStorage(t)
  <2>1. PICK b \in Buffers : /\ b = buf[t]
                             /\ storage[b] # NULL <=> pc[t] = "buffer" /\ b \notin HostBuffers
    BY <1>3, DestroysOne DEF ReleaseStorage, DestroysBuffer
  <2>2. CASE b \in HostBuffers
    <3>1. UNCHANGED mem
      BY <1>3, <2>1, <2>2 DEF ReleaseStorage
    <3> QED
      BY <3>1, NoneMoves
  <2>3. CASE b \notin HostBuffers
    <3>1. mem' = IF LastRef(Device) THEN [mem EXCEPT ![Device] = "freed"] ELSE mem
      BY <1>3, <2>1, <2>3 DEF ReleaseStorage
    <3>2. mem[Device] = "live" /\ Device \in Objects
      BY <1>3, <2>1, <2>3, StorageLive, Names DEF ReleaseStorage
    <3> QED
      BY <3>1, <3>2, ReleaseMoves
  <2> QED
    BY <2>2, <2>3
<1>4. CASE FreeBuffer(t)
  <2>1. PICK b \in Buffers : b = buf[t] /\ b \in Objects /\ mem[b] = "closing"
    BY <1>4, DestroysOne DEF FreeBuffer, DestroysBuffer
  <2>2. mem' = [mem EXCEPT ![b] = "freed"]
    BY <1>4, <2>1 DEF FreeBuffer
  <2> QED
    BY <2>1, <2>2, OneMoves
<1> QED
  BY <1>1, <1>2, <1>3, <1>4 DEF Destructor

LEMMA ContinueMoves ==
  ASSUME IInv, NEW t \in Clients, Continue(t)
  PROVE  \A o \in Objects : Moved(o)
<1>t. t \in Threads
  BY Names
<1>1. CASE Allocated(t) \/ AllocFailed(t)
  <2>1. PICK b \in Buffers : b = buf[t] /\ b \in Objects /\ mem[b] = "made"
    BY <1>1, Waiting DEF Allocated, AllocFailed
  <2>2. PICK l \in {"none", "live"} : mem' = [mem EXCEPT ![b] = l]
    BY <1>1, <2>1 DEF Allocated, AllocFailed
  <2> QED
    BY <2>1, <2>2, OneMoves
<1>2. CASE ReleaseOld(t)
  <2>1. PICK b : b = buf[t]
    OBVIOUS
  <2>2. b \in Objects /\ mem[b] = "live"
    BY <1>2, <2>1, CallLive, Names DEF ReleaseOld
  <2>3. mem' = IF LastRef(b) THEN [mem EXCEPT ![b] = "closing"] ELSE mem
    BY <1>2, <2>1 DEF ReleaseOld, DropBuffer
  <2> QED
    BY <2>2, <2>3, ReleaseMoves
<1>3. CASE Push(t) \/ Replace(t) \/ Snapshot(t) \/ Ioctl(t)
  BY <1>3, NoneMoves DEF Push, Replace, Snapshot, Ioctl, objVars
<1>4. CASE Destructor(t)
  BY <1>4, <1>t, DestructorMoves
<1> QED
  BY <1>1, <1>2, <1>3, <1>4 DEF Continue

LEMMA WorkerMoves ==
  ASSUME IInv, NEW w \in Workers, Worker(w)
  PROVE  \A o \in Objects : Moved(o)
<1>t. w \in Threads /\ w \notin Clients
  BY Names
<1>1. CASE (\E c \in Cmds : Take(w, c)) \/ Snapshot(w) \/ Ioctl(w) \/ Signal(w)
  BY <1>1, NoneMoves DEF Take, Snapshot, Ioctl, Signal, objVars
<1>2. CASE DropRequestGroup(w)
  <2>1. PICK g : g = grp[w]
    OBVIOUS
  <2>2. pc[w] = "drop" /\ g # NULL
    BY <1>2, <2>1, <1>t, TheThreads DEF DropRequestGroup, GroupOK
  <2>3. mem[g] = "live" /\ g \in Objects
    BY <2>1, <2>2, <1>t, GroupInUse, Names DEF AtGroup
  <2>4. mem' = IF LastRef(g) THEN [mem EXCEPT ![g] = "closing"] ELSE mem
    BY <1>2, <2>1 DEF DropRequestGroup, DropGroup
  <2> QED
    BY <2>3, <2>4, ReleaseMoves
<1>3. CASE Destructor(w)
  BY <1>3, <1>t, DestructorMoves
<1> QED
  BY <1>1, <1>2, <1>3 DEF Worker

-----------------------------------------------------------------------------
(* The refinement.                                                         *)

\* Held in the sense of RefCounted: what is being made does not count yet.
Life(o) == CASE mem[o] = "made" -> "none" [] mem[o] = "closing" -> "dying" [] OTHER -> mem[o]
HeldBy(o) == IF mem[o] = "made" THEN {} ELSE Holders(o)

LEMMA AliveIfHeld ==
  ASSUME IInv, NEW o \in Objects
  PROVE  /\ Life(o) = "live" <=> HeldBy(o) # {}
         /\ mem[o] \in MemStates
<1>1. mem[o] = "live" => ref[o] > 0
  BY DEF IInv, LifeOK
<1>2. mem[o] = "live" => Holders(o) # {}
  BY <1>1, FS_EmptySet DEF IInv, RefExact
<1>3. mem[o] \notin {"made", "live"} => Holders(o) = {}
  BY Unheld
<1>4. mem[o] \in MemStates
  BY Locals
<1> QED
  BY <1>2, <1>3, <1>4 DEF Life, HeldBy, MemStates

AliveHeld ==
  \A o \in Objects : /\ Life(o) = "live" <=> HeldBy(o) # {}
                    /\ mem[o] \in MemStates

LEMMA InvAliveHeld == IInv => AliveHeld
BY AliveIfHeld DEF AliveHeld

\* Buffers, groups and the device live exactly as long as somebody holds them,
\* and are destroyed and freed once.
THEOREM ImplementsRefCounted == Spec => IsRefCounted
<1>1. ASSUME Init PROVE Lives!Init
  <2>1. IInv
    BY <1>1, InitInv
  <2>2. ASSUME NEW o \in Objects PROVE mem[o] \in {"none", "live"}
    BY <1>1 DEF Init
  <2>3. ASSUME NEW o \in Objects
        PROVE  \/ Life(o) = "none" /\ HeldBy(o) = {}
               \/ Life(o) = "live" /\ HeldBy(o) # {}
    BY <2>1, <2>2, AliveIfHeld DEF Life
  <2> QED
    BY <2>3 DEF Lives!Init, Life, HeldBy
<1>2. ASSUME IInv, IInv', [Next]_vars PROVE [Lives!Next]_(Lives!vars)
  <2>1. ASSUME NEW o \in Objects PROVE Moved(o)
    BY <1>2, CallMoves, ContinueMoves, WorkerMoves, NoneMoves DEF Next, vars
  <2>h. AliveHeld /\ AliveHeld'
    BY <1>2, InvAliveHeld, PTL
  <2>2. ASSUME NEW o \in Objects PROVE Lives!Step(o)
    <3>1. /\ Life(o) = "live" <=> HeldBy(o) # {}
          /\ mem[o] \in MemStates
      BY <2>h DEF AliveHeld
    <3>2. (Life(o) = "live" <=> HeldBy(o) # {})' /\ mem'[o] \in MemStates
      BY <2>h DEF AliveHeld, HeldBy, Life, Holders
    <3>3. \/ Life(o)' = Life(o)
          \/ Life(o) = "none" /\ Life(o)' = "live"
          \/ Life(o) = "live" /\ Life(o)' \in {"dying", "freed"}
          \/ Life(o) = "dying" /\ Life(o)' = "freed"
      BY <2>1, <3>1, <3>2 DEF Moved, Life, MemStates
    <3> QED
      BY <3>1, <3>2, <3>3 DEF Life, HeldBy, Lives!Step, Lives!Kept, Lives!Gone, Lives!Born,
         Lives!Dies, Lives!Freed, Lives!Unheld
  <2> QED
    BY <2>2 DEF Lives!Next
<1> QED
  BY <1>1, <1>2, BuffersInvariance, PTL DEF Spec, IsRefCounted, Lives!Spec
=============================================================================
