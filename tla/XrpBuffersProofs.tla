-------------------------- MODULE XrpBuffersProofs --------------------------
(***************************************************************************)
(* Proofs about XrpBuffers, for any number of clients, workers, buffers,   *)
(* groups and commands: IInv of XrpBuffersInv is inductive, and the safety *)
(* properties follow.                                                      *)
(*                                                                         *)
(* First what holders are and how counts follow them, then what a step     *)
(* leaves to the threads that do not make it, then one lemma per action.   *)
(***************************************************************************)
EXTENDS XrpBuffersInv, FiniteSetTheorems, FunctionTheorems, SequenceTheorems, TLAPS

-----------------------------------------------------------------------------
(* Names and numbers.                                                      *)

LEMMA Names ==
  /\ \A b \in Buffers : b \notin Groups /\ b # Device /\ b # NULL /\ b \in Objects
  /\ \A g \in Groups : g \notin Buffers /\ g # Device /\ g # NULL /\ g \in Objects
  /\ Device \notin Buffers /\ Device \notin Groups /\ Device \in Objects
  /\ \A c \in Cmds : c # NULL
  /\ \A k \in Nat : k # NULL
  /\ \A t \in Clients : t \notin Workers /\ t \in Threads
  /\ \A t \in Workers : t \notin Clients /\ t \in Threads
  /\ \A t \in Threads : t \in Clients \/ t \in Workers
  /\ \A o \in Objects : o \in Buffers \/ o \in Groups \/ o = Device
BY NamesDiffer DEF Threads, Objects

LEMMA ModNat ==
  ASSUME NEW a \in Nat, NEW m \in Nat \ {0}
  PROVE  a % m \in Nat
OBVIOUS

\* What the driver is asked for is a number.
LEMMA StorageSize ==
  ASSUME NEW b \in Buffers
  PROVE  SizeOf[b] \in Nat /\ SizeOf[b] % U32Mod \in Nat /\ SizeOf[b] % U32Mod # NULL
<1>1. SizeOf[b] \in Nat /\ U32Mod \in Nat \ {0}
  BY NamesDiffer
<1>2. SizeOf[b] % U32Mod \in Nat
  BY <1>1, ModNat
<1> QED
  BY <1>1, <1>2, Names

-----------------------------------------------------------------------------
(* Holders.                                                                *)

LEMMA HoldersOf ==
  /\ \A b \in Buffers : Holders(b) = BufferHolders(b)
  /\ \A g \in Groups : Holders(g) = GroupHolders(g)
  /\ Holders(Device) = DeviceHolders
BY Names DEF Holders

LEMMA HolderKinds ==
  /\ \A o \in Objects : \A x : <<"own", x>> \in Holders(o) <=> x \in OwnersOf(o)
  /\ \A b \in Buffers : \A x :
       /\ <<"slot", x>> \in Holders(b) <=> x \in SlotsOf(b)
       /\ <<"map", x>> \in Holders(b) <=> x \in MappersOf(b)
       /\ <<"in", x>> \in Holders(b) <=> x \in CallsOn(b)
  /\ \A g \in Groups : \A x : <<"req", x>> \in Holders(g) <=> x \in RequestsOf(g)
  /\ \A x : <<"buf", x>> \in Holders(Device) <=> x \in WithStorage
  /\ \A x : <<"in", x>> \in Holders(Device) <=> x \in Allocating
<1>1. \A b \in Buffers : \A x :
       /\ <<"own", x>> \in Holders(b) <=> x \in OwnersOf(b)
       /\ <<"slot", x>> \in Holders(b) <=> x \in SlotsOf(b)
       /\ <<"map", x>> \in Holders(b) <=> x \in MappersOf(b)
       /\ <<"in", x>> \in Holders(b) <=> x \in CallsOn(b)
  BY HoldersOf DEF BufferHolders
<1>2. \A g \in Groups : \A x :
       /\ <<"own", x>> \in Holders(g) <=> x \in OwnersOf(g)
       /\ <<"req", x>> \in Holders(g) <=> x \in RequestsOf(g)
  BY HoldersOf DEF GroupHolders
<1>3. \A x :
       /\ <<"own", x>> \in Holders(Device) <=> x \in OwnersOf(Device)
       /\ <<"buf", x>> \in Holders(Device) <=> x \in WithStorage
       /\ <<"in", x>> \in Holders(Device) <=> x \in Allocating
  BY HoldersOf DEF DeviceHolders
<1> QED
  BY <1>1, <1>2, <1>3, Names

\* Sets of holders of one kind are finite.
LEMMA KindFinite ==
  ASSUME NEW k, NEW S, IsFiniteSet(S)
  PROVE  IsFiniteSet({k} \X S)
BY FS_Singleton, FS_Product

LEMMA UnionFinite ==
  ASSUME NEW S, NEW T, NEW U, IsFiniteSet(S), IsFiniteSet(T), IsFiniteSet(U)
  PROVE  IsFiniteSet(S \cup T) /\ IsFiniteSet(S \cup T \cup U)
<1>1. IsFiniteSet(S \cup T)
  BY FS_Union
<1> QED
  BY <1>1, FS_Union

LEMMA HoldersFinite ==
  ASSUME NEW o \in Objects
  PROVE  IsFiniteSet(Holders(o)) /\ Cardinality(Holders(o)) \in Nat
<1>1. IsFiniteSet(Clients) /\ IsFiniteSet(Cmds) /\ IsFiniteSet(Buffers)
  BY NamesFinite
<1>2. IsFiniteSet(Groups \X (1 .. MaxSlots))
  <2>1. MaxSlots \in Int /\ 1 \in Int
    BY NamesDiffer
  <2>2. IsFiniteSet(1 .. MaxSlots)
    BY <2>1, FS_Interval
  <2> QED
    BY <2>2, NamesFinite, FS_Product
<1>3. IsFiniteSet({"own"} \X OwnersOf(o))
  BY <1>1, FS_Subset, KindFinite DEF OwnersOf
<1>4. CASE o \in Buffers
  <2>1. IsFiniteSet({"slot"} \X SlotsOf(o))
    BY <1>2, FS_Subset, KindFinite DEF SlotsOf
  <2>2. IsFiniteSet({"map"} \X MappersOf(o))
    BY <1>1, FS_Subset, KindFinite DEF MappersOf
  <2>3. IsFiniteSet({"in"} \X CallsOn(o))
    BY <1>1, FS_Subset, KindFinite DEF CallsOn
  <2> QED
    <3>1. IsFiniteSet(({"own"} \X OwnersOf(o)) \cup ({"slot"} \X SlotsOf(o)))
      BY <1>3, <2>1, UnionFinite
    <3>2. IsFiniteSet(BufferHolders(o))
      BY <3>1, <2>2, <2>3, UnionFinite DEF BufferHolders
    <3> QED
      BY <1>4, <3>2, HoldersOf, FS_CardinalityType
<1>5. CASE o \in Groups
  <2>1. IsFiniteSet({"req"} \X RequestsOf(o))
    BY <1>1, FS_Subset, KindFinite DEF RequestsOf
  <2> QED
    <3>1. IsFiniteSet(GroupHolders(o))
      BY <1>3, <2>1, UnionFinite DEF GroupHolders
    <3> QED
      BY <1>5, <3>1, HoldersOf, FS_CardinalityType
<1>6. CASE o = Device
  <2>1. IsFiniteSet({"buf"} \X WithStorage)
    BY <1>1, FS_Subset, KindFinite DEF WithStorage
  <2>2. IsFiniteSet({"in"} \X Allocating)
    BY <1>1, FS_Subset, KindFinite DEF Allocating
  <2> QED
    <3>1. IsFiniteSet(DeviceHolders)
      BY <1>3, <1>6, <2>1, <2>2, UnionFinite DEF DeviceHolders
    <3> QED
      BY <1>6, <3>1, HoldersOf, FS_CardinalityType
<1> QED
  BY <1>4, <1>5, <1>6, Names

-----------------------------------------------------------------------------
(* Counting: a retain by a new holder, a release by a holder, and a        *)
(* reference that changes hands keep the count of an object exact.         *)

Counted(o) == ref[o] = Cardinality(Holders(o))

LEMMA SameCount ==
  ASSUME NEW o \in Objects, Counted(o), ref'[o] = ref[o], Holders(o)' = Holders(o)
  PROVE  Counted(o)'
BY DEF Counted

LEMMA AddHolder ==
  ASSUME NEW o \in Objects, Counted(o), NEW h, h \notin Holders(o),
         ref'[o] = ref[o] + 1, Holders(o)' = Holders(o) \cup {h}
  PROVE  Counted(o)'
<1> DEFINE S == Holders(o)
<1>1. Cardinality(S \cup {h}) = Cardinality(S) + 1
  BY HoldersFinite, FS_AddElement
<1> QED
  BY <1>1 DEF Counted

LEMMA RemoveHolder ==
  ASSUME NEW o \in Objects, Counted(o), NEW h \in Holders(o),
         ref'[o] = ref[o] - 1, Holders(o)' = Holders(o) \ {h}
  PROVE  Counted(o)'
<1> DEFINE S == Holders(o)
<1>1. Cardinality(S \ {h}) = Cardinality(S) - 1
  BY HoldersFinite, FS_RemoveElement
<1> QED
  BY <1>1 DEF Counted

LEMMA MoveHolder ==
  ASSUME NEW o \in Objects, Counted(o), NEW h \in Holders(o), NEW k, k \notin Holders(o),
         ref'[o] = ref[o], Holders(o)' = (Holders(o) \ {h}) \cup {k}
  PROVE  Counted(o)'
<1> DEFINE S == Holders(o)
<1>1. IsFiniteSet(S) /\ Cardinality(S) \in Nat
  BY HoldersFinite
<1>2. IsFiniteSet(S \ {h}) /\ Cardinality(S \ {h}) = Cardinality(S) - 1
  BY <1>1, FS_RemoveElement
<1>3. k \notin S \ {h}
  OBVIOUS
<1>4. Cardinality((S \ {h}) \cup {k}) = Cardinality(S \ {h}) + 1
  BY <1>2, <1>3, FS_AddElement
<1> QED
  BY <1>1, <1>2, <1>4 DEF Counted

\* The first holder of a new object.
LEMMA FirstHolder ==
  ASSUME NEW o \in Objects, NEW h, ref'[o] = 1, Holders(o)' = {h}
  PROVE  Counted(o)'
BY FS_Singleton DEF Counted

LEMMA NoHolder ==
  ASSUME NEW o \in Objects, ref'[o] = 0, Holders(o)' = {}
  PROVE  Counted(o)'
BY FS_EmptySet DEF Counted

-----------------------------------------------------------------------------
(* What has a holder is there.                                             *)

LEMMA Held ==
  ASSUME IInv, NEW o \in Objects, NEW h \in Holders(o)
  PROVE  ref[o] \in Nat \ {0} /\ mem[o] \in {"made", "live"}
<1>1. Cardinality(Holders(o)) # 0
  BY HoldersFinite, FS_EmptySet
<1>2. ref[o] = Cardinality(Holders(o)) /\ ref[o] \in Nat
  BY HoldersFinite DEF IInv, RefExact
<1> QED
  BY <1>1, <1>2 DEF IInv, LifeOK

LEMMA Unheld ==
  ASSUME IInv, NEW o \in Objects, mem[o] \notin {"made", "live"}
  PROVE  ref[o] = 0 /\ Holders(o) = {}
<1>1. Holders(o) = {}
  BY Held
<1> QED
  BY <1>1, FS_EmptySet DEF IInv, RefExact

\* The call that makes a buffer is the only holder it has.
LEMMA OnlyMaker ==
  ASSUME IInv, NEW b \in Objects, mem[b] = "made"
  PROVE  \E t \in Clients :
           /\ pc[t] = "alloc" /\ buf[t] = b /\ b \in Buffers
           /\ Holders(b) = {<<"in", t>>}
<1>1. PICK t \in Clients : pc[t] = "alloc" /\ buf[t] = b
  BY DEF IInv, LifeOK
<1>2. b \in Buffers /\ ref[b] = 1
  BY <1>1, Names DEF IInv, BufferOK
<1>3. <<"in", t>> \in Holders(b)
  BY <1>1, <1>2, HolderKinds DEF CallsOn
<1>4. Cardinality(Holders(b)) = 1
  BY <1>2, Names DEF IInv, RefExact
<1>5. \E x : Holders(b) = {x}
  BY <1>2, <1>4, Names, HoldersFinite, FS_Singleton
<1> QED
  BY <1>1, <1>2, <1>3, <1>5

LEMMA HeldLive ==
  ASSUME IInv, NEW o \in Objects, NEW h \in Holders(o),
         \A t \in Clients : pc[t] = "alloc" /\ buf[t] = o => h # <<"in", t>>
  PROVE  ref[o] \in Nat \ {0} /\ mem[o] = "live"
<1>1. ref[o] \in Nat \ {0} /\ mem[o] \in {"made", "live"}
  BY Held
<1>2. mem[o] # "made"
  BY OnlyMaker
<1> QED
  BY <1>1, <1>2

\* The application may use what it owns a reference to.
LEMMA OwnedLive ==
  ASSUME IInv, NEW t \in Clients, NEW o \in own[t]
  PROVE  /\ o \in Objects /\ ref[o] \in Nat \ {0} /\ mem[o] = "live"
         /\ t \in OwnersOf(o) /\ <<"own", t>> \in Holders(o)
<1>1. o \in Objects
  BY DEF IInv, TypeOK
<1>2. t \in OwnersOf(o)
  BY DEF OwnersOf
<1>3. <<"own", t>> \in Holders(o)
  BY <1>1, <1>2, HolderKinds
<1> QED
  BY <1>1, <1>2, <1>3, HeldLive

\* A group keeps its buffers, also while it is being destroyed.
LEMMA SlotLive ==
  ASSUME IInv, NEW g \in Groups, NEW n \in DOMAIN slots[g]
  PROVE  /\ slots[g][n] \in Buffers /\ mem[slots[g][n]] = "live"
         /\ ref[slots[g][n]] \in Nat \ {0}
         /\ n \in 1 .. MaxSlots /\ <<g, n>> \in SlotsOf(slots[g][n])
         /\ <<"slot", <<g, n>>>> \in Holders(slots[g][n])
<1>1. slots[g] \in Seq(Buffers) /\ Len(slots[g]) <= MaxSlots
  BY DEF IInv, TypeOK
<1>2. n \in 1 .. MaxSlots /\ slots[g][n] \in Buffers
  BY <1>1, NamesDiffer
<1>3. <<g, n>> \in SlotsOf(slots[g][n])
  BY <1>2 DEF SlotsOf
<1>4. <<"slot", <<g, n>>>> \in Holders(slots[g][n])
  BY <1>2, <1>3, HolderKinds
<1> QED
  BY <1>2, <1>3, <1>4, Names, HeldLive

\* A mapping keeps its buffer (xrp_map_buffer).
LEMMA MappedLive ==
  ASSUME IInv, NEW t \in Clients, NEW b \in MappedBuffers(t)
  PROVE  /\ b \in Buffers /\ ref[b] \in Nat \ {0} /\ mem[b] = "live"
         /\ t \in MappersOf(b) /\ <<"map", t>> \in Holders(b)
<1>1. b \in Buffers
  BY DEF IInv, TypeOK, MappedBuffers
<1>2. t \in MappersOf(b)
  BY DEF MappersOf
<1>3. <<"map", t>> \in Holders(b)
  BY <1>1, <1>2, HolderKinds
<1> QED
  BY <1>1, <1>2, <1>3, Names, HeldLive

\* xrp_set_buffer_in_group keeps the buffer it is about to store or release.
LEMMA CallLive ==
  ASSUME IInv, NEW t \in Clients, pc[t] \in {"set", "unref"}
  PROVE  /\ buf[t] \in Buffers /\ ref[buf[t]] \in Nat \ {0} /\ mem[buf[t]] = "live"
         /\ t \in CallsOn(buf[t]) /\ <<"in", t>> \in Holders(buf[t])
<1>1. buf[t] \in Buffers
  BY Names DEF IInv, BufferOK
<1>2. t \in CallsOn(buf[t])
  BY DEF CallsOn
<1>3. <<"in", t>> \in Holders(buf[t])
  BY <1>1, <1>2, HolderKinds
<1>4. \A u \in Clients : pc[u] = "alloc" => <<"in", t>> # <<"in", u>>
  OBVIOUS
<1> QED
  BY <1>1, <1>2, <1>3, <1>4, Names, HeldLive

\* A request keeps its group until the worker has dropped it.
LEMMA RequestLive ==
  ASSUME IInv, NEW c \in Cmds, NEW g, HoldsGroup(c, g), g # NULL
  PROVE  /\ g \in Groups /\ ref[g] \in Nat \ {0} /\ mem[g] = "live"
         /\ c \in RequestsOf(g) /\ <<"req", c>> \in Holders(g)
<1>1. g \in Groups
  BY DEF IInv, TypeOK, HoldsGroup
<1>2. c \in RequestsOf(g)
  BY DEF RequestsOf
<1>3. <<"req", c>> \in Holders(g)
  BY <1>1, <1>2, HolderKinds
<1> QED
  BY <1>1, <1>2, <1>3, Names, HeldLive

\* Storage keeps the device open.
LEMMA StorageLive ==
  ASSUME IInv, NEW b \in Buffers, storage[b] # NULL
  PROVE  ref[Device] \in Nat \ {0} /\ mem[Device] = "live" /\ <<"buf", b>> \in Holders(Device)
<1>1. <<"buf", b>> \in Holders(Device)
  BY HolderKinds DEF WithStorage
<1> QED
  BY <1>1, Names, Held DEF IInv, DeviceOK

-----------------------------------------------------------------------------
(* What changes holders of each kind, and what does not.                   *)

LEMMA OwnersAdd ==
  ASSUME TypeOK, NEW t \in Clients, NEW X, own' = [own EXCEPT ![t] = @ \cup {X}]
  PROVE  \A o : OwnersOf(o)' = IF o = X THEN OwnersOf(o) \cup {t} ELSE OwnersOf(o)
BY DEF OwnersOf, TypeOK

LEMMA OwnersRemove ==
  ASSUME TypeOK, NEW t \in Clients, NEW X, own' = [own EXCEPT ![t] = @ \ {X}]
  PROVE  \A o : OwnersOf(o)' = IF o = X THEN OwnersOf(o) \ {t} ELSE OwnersOf(o)
BY DEF OwnersOf, TypeOK

InCall == {"alloc", "set", "unref"}

\* No thread enters or leaves a call that holds a buffer of its own.
CallsKept ==
  \A u \in Clients :
    /\ pc[u] \in InCall => pc'[u] \in InCall /\ buf'[u] = buf[u]
    /\ pc'[u] \in InCall => pc[u] \in InCall
    /\ pc[u] = "alloc" <=> pc'[u] = "alloc"

LEMMA CallsSame ==
  ASSUME CallsKept
  PROVE  Allocating' = Allocating /\ \A b : CallsOn(b)' = CallsOn(b)
BY DEF CallsKept, InCall, CallsOn, Allocating

AtGroup == {"snapshot", "ioctl", "drop"}

RequestsKept ==
  /\ \A c \in Cmds : reqGroup'[c] = reqGroup[c]
  /\ \A c \in Cmds : req[c] \in {"made", "queued"} <=> req'[c] \in {"made", "queued"}
  /\ \A w \in Workers :
       \/ pc[w] \notin AtGroup /\ pc'[w] \notin AtGroup
       \/ (pc[w] \in AtGroup <=> pc'[w] \in AtGroup) /\ cmd'[w] = cmd[w]

LEMMA RequestsSame ==
  ASSUME RequestsKept
  PROVE  \A g : RequestsOf(g)' = RequestsOf(g)
<1>1. ASSUME NEW g, NEW c \in Cmds
      PROVE  HoldsGroup(c, g)' <=> HoldsGroup(c, g)
  BY DEF RequestsKept, HoldsGroup, AtGroup
<1> QED
  BY <1>1 DEF RequestsOf

\* The holders of o that are not its owners are the same.
OthersSame(o) ==
  /\ o \in Buffers => SlotsOf(o)' = SlotsOf(o) /\ MappersOf(o)' = MappersOf(o)
                       /\ CallsOn(o)' = CallsOn(o)
  /\ o \in Groups => RequestsOf(o)' = RequestsOf(o)
  /\ o = Device => WithStorage' = WithStorage /\ Allocating' = Allocating

LEMMA OthersFrame ==
  ASSUME UNCHANGED <<slots, mapped, storage>>, CallsKept, RequestsKept
  PROVE  \A o : OthersSame(o)
<1>1. \A o : SlotsOf(o)' = SlotsOf(o) /\ MappersOf(o)' = MappersOf(o)
  BY DEF SlotsOf, MappersOf, MappedBuffers
<1>2. WithStorage' = WithStorage
  BY DEF WithStorage
<1> QED
  BY <1>1, <1>2, CallsSame, RequestsSame DEF OthersSame

LEMMA HoldersSame ==
  ASSUME NEW o \in Objects, OwnersOf(o)' = OwnersOf(o), OthersSame(o)
  PROVE  Holders(o)' = Holders(o)
BY Names DEF Holders, BufferHolders, GroupHolders, DeviceHolders, OthersSame

\* A client that gets a pointer is a new holder.
LEMMA HoldersGain ==
  ASSUME NEW o \in Objects, NEW t, OwnersOf(o)' = OwnersOf(o) \cup {t}, OthersSame(o)
  PROVE  Holders(o)' = Holders(o) \cup {<<"own", t>>}
<1>1. {"own"} \X (OwnersOf(o) \cup {t}) = ({"own"} \X OwnersOf(o)) \cup {<<"own", t>>}
  OBVIOUS
<1> QED
  BY <1>1, Names DEF Holders, BufferHolders, GroupHolders, DeviceHolders, OthersSame

LEMMA HoldersLose ==
  ASSUME NEW o \in Objects, NEW t, OwnersOf(o)' = OwnersOf(o) \ {t}, OthersSame(o)
  PROVE  Holders(o)' = Holders(o) \ {<<"own", t>>}
<1>1. {"own"} \X (OwnersOf(o) \ {t}) = ({"own"} \X OwnersOf(o)) \ {<<"own", t>>}
  OBVIOUS
<1>2. CASE o \in Buffers
  BY <1>1, <1>2, HoldersOf, Names DEF Holders, BufferHolders, OthersSame
<1>3. CASE o \in Groups
  BY <1>1, <1>3, HoldersOf, Names DEF Holders, GroupHolders, OthersSame
<1>4. CASE o = Device
  BY <1>1, <1>4, HoldersOf, Names DEF Holders, DeviceHolders, OthersSame
<1> QED
  BY <1>2, <1>3, <1>4, Names

-----------------------------------------------------------------------------
(* What a step leaves to a thread that does not make it.                   *)

ThreadOK(t) == BufferOK(t) /\ GroupOK(t) /\ RequestOK(t) /\ SnapOK(t)

SameLocals(u) ==
  pc'[u] = pc[u] /\ buf'[u] = buf[u] /\ grp'[u] = grp[u] /\ cmd'[u] = cmd[u] /\ snap'[u] = snap[u]

Undisturbed(u) ==
  /\ SameLocals(u)
  /\ u \in Clients => own[u] \subseteq own'[u]
  /\ pc[u] = "alloc" \/ DestroysBuffer(u) =>
       mem'[buf[u]] = mem[buf[u]] /\ ref'[buf[u]] = ref[buf[u]] /\ storage'[buf[u]] = storage[buf[u]]
  /\ DestroysGroup(u) => mem'[grp[u]] = mem[grp[u]]
  /\ cmd[u] # NULL => req'[cmd[u]] = req[cmd[u]] /\ reqGroup'[cmd[u]] = reqGroup[cmd[u]]
  /\ pc[u] = "ioctl" /\ grp[u] # NULL => ReplaceInFlight \/ Contents(grp[u]) \subseteq Contents(grp[u])'

LEMMA ThreadStays ==
  ASSUME TypeOK, NEW u \in Threads, Undisturbed(u), ThreadOK(u)
  PROVE  ThreadOK(u)'
<1> USE DEF ThreadOK, Undisturbed, SameLocals
<1>1. BufferOK(u)'
  <2>1. u \in Clients \/ pc[u] # "alloc"
    BY Names DEF TypeOK, WorkerPCs, Dtors
  <2>2. pc[u] = "alloc" => Device \in own'[u]
    BY <2>1 DEF BufferOK
  <2>3. pc[u] = "alloc" =>
          /\ buf[u] \in Buffers \ HostBuffers
          /\ mem'[buf[u]] = "made" /\ ref'[buf[u]] = 1
    BY DEF BufferOK
  <2>4. DestroysBuffer(u) =>
          /\ buf[u] \in Buffers /\ mem'[buf[u]] = "closing"
          /\ storage'[buf[u]] # NULL <=> pc[u] = "buffer" /\ buf[u] \notin HostBuffers
    BY DEF BufferOK
  <2>5. pc[u] \in {"set", "unref"} => buf[u] \in Buffers
    BY DEF BufferOK
  <2> QED
    BY <2>2, <2>3, <2>4, <2>5 DEF BufferOK, DestroysBuffer
<1>2. GroupOK(u)'
  <2>1. u \in Workers /\ pc[u] \in AtGroup => reqGroup'[cmd[u]] = reqGroup[cmd[u]]
    BY Names DEF RequestOK, AtGroup
  <2>2. DestroysGroup(u) => mem'[grp[u]] = "closing"
    BY DEF GroupOK
  <2> QED
    BY <2>1, <2>2 DEF GroupOK, DestroysGroup, DestroysBuffer, AtGroup
<1>3. RequestOK(u)'
  BY DEF RequestOK
<1>4. SnapOK(u)'
  BY DEF SnapOK
<1> QED
  BY <1>1, <1>2, <1>3, <1>4

\* Two threads that keep their locals stay out of each other's way.
LEMMA ExclusiveStays ==
  ASSUME NEW t, NEW u, SameLocals(t), SameLocals(u), Exclusive(t, u)
  PROVE  Exclusive(t, u)'
BY DEF SameLocals, Exclusive, DestroysBuffer, DestroysGroup

LEMMA ExclusiveSymmetric ==
  ASSUME NEW t, NEW u, Exclusive(t, u)
  PROVE  Exclusive(u, t)
BY DEF Exclusive

\* No group comes into use or is changed that was not before.
LEMMA NotReplacedStays ==
  ASSUME NotReplaced,
         \A g \in Groups : InFlight(g)' => InFlight(g),
         \A g \in Groups : BeingChanged(g)' => BeingChanged(g)
  PROVE  NotReplaced'
BY DEF NotReplaced

\* What is being made or destroyed is left alone.
Settled ==
  \A o \in Objects : mem[o] \in {"made", "closing"} =>
    mem'[o] = mem[o] /\ ref'[o] = ref[o] /\ (o \in Buffers => storage'[o] = storage[o])

\* What t itself makes or destroys, and the same but for that.
MadeBy(t) == {o \in Objects : (pc[t] = "alloc" \/ DestroysBuffer(t)) /\ o = buf[t]}
DestroyedBy(t) == {o \in Objects : DestroysGroup(t) /\ o = grp[t]}

SettledBut(t) ==
  \A o \in Objects \ (MadeBy(t) \cup DestroyedBy(t)) : mem[o] \in {"made", "closing"} =>
    mem'[o] = mem[o] /\ ref'[o] = ref[o] /\ (o \in Buffers => storage'[o] = storage[o])

\* A step of t does not touch the locals of others nor what they own, nor
\* requests that others work with, nor a buffer in a group that is in use.
StepOf(t) ==
  /\ \A u \in Threads \ {t} : SameLocals(u)
  /\ \A u \in Clients \ {t} : own[u] \subseteq own'[u]
  /\ \A c \in Cmds :
       \/ req'[c] = req[c] /\ reqGroup'[c] = reqGroup[c]
       \/ req[c] \in {"none", "queued"} \/ c = cmd[t]
  /\ \A g \in Groups :
       \/ Contents(g) \subseteq Contents(g)'
       \/ mem[g] = "closing" \/ (t \in Clients /\ pc[t] = "set" /\ grp[t] = g)

LEMMA TheThreads ==
  ASSUME IInv, NEW t \in Threads
  PROVE  /\ BufferOK(t) /\ GroupOK(t) /\ RequestOK(t) /\ SnapOK(t) /\ ThreadOK(t)
         /\ buf[t] \in Buffers \cup {NULL} /\ grp[t] \in Groups \cup {NULL}
         /\ cmd[t] \in Cmds \cup {NULL}
         /\ \A u \in Threads \ {t} : Exclusive(t, u) /\ Exclusive(u, t)
         /\ t \in Clients => pc[t] \in ClientPCs
         /\ t \in Workers => pc[t] \in WorkerPCs
BY DEF IInv, ThreadOK, TypeOK

\* A group that is with a command or an ioctl is alive.
LEMMA GroupInUse ==
  ASSUME IInv, NEW u \in Threads, pc[u] \in AtGroup, grp[u] # NULL
  PROVE  grp[u] \in Groups /\ mem[grp[u]] = "live" /\ ref[grp[u]] \in Nat \ {0}
<1>1. grp[u] \in Groups
  BY TheThreads
<1>2. CASE u \in Clients
  <2>1. pc[u] \in {"snapshot", "ioctl"}
    BY <1>2, TheThreads DEF AtGroup, ClientPCs, Dtors
  <2>2. grp[u] \in own[u]
    BY <1>2, <2>1, TheThreads DEF GroupOK
  <2> QED
    BY <1>1, <1>2, <2>2, OwnedLive
<1>3. CASE u \in Workers
  <2>1. u \notin Clients /\ pc[u] # "idle"
    BY <1>3, Names DEF AtGroup
  <2>2. cmd[u] \in Cmds /\ grp[u] = reqGroup[cmd[u]]
    BY <1>3, <2>1, TheThreads DEF GroupOK, RequestOK, AtGroup
  <2>3. HoldsGroup(cmd[u], grp[u])
    BY <1>3, <2>2 DEF HoldsGroup, AtGroup
  <2> QED
    BY <1>1, <2>2, <2>3, RequestLive
<1> QED
  BY <1>2, <1>3, Names

\* What one thread makes or destroys no other does.
LEMMA MadeByOne ==
  ASSUME IInv, NEW t \in Threads, NEW u \in Threads \ {t}
  PROVE  MadeBy(t) \cap MadeBy(u) = {} /\ DestroyedBy(t) \cap DestroyedBy(u) = {}
<1>1. BufferOK(t) /\ BufferOK(u) /\ Exclusive(t, u)
  BY TheThreads
<1>2. ASSUME NEW o \in Objects, o \in MadeBy(t), o \in MadeBy(u) PROVE FALSE
  <2>1. /\ pc[t] = "alloc" => mem[o] = "made"
        /\ pc[u] = "alloc" => mem[o] = "made"
        /\ DestroysBuffer(t) => mem[o] = "closing"
        /\ DestroysBuffer(u) => mem[o] = "closing"
    BY <1>1, <1>2 DEF BufferOK, MadeBy
  <2>2. ~(DestroysBuffer(t) /\ DestroysBuffer(u))
    BY <1>1, <1>2 DEF Exclusive, MadeBy
  <2>3. CASE pc[t] = "alloc" /\ pc[u] = "alloc"
    <3>1. o \in Buffers /\ buf[t] = o /\ buf[u] = o /\ t \in Clients /\ u \in Clients
      BY <1>1, <1>2, <2>3, TheThreads, Names DEF BufferOK, MadeBy, WorkerPCs, Dtors
    <3>2. <<"in", t>> \in Holders(o) /\ <<"in", u>> \in Holders(o)
      BY <2>3, <3>1, HolderKinds DEF CallsOn
    <3> QED
      BY <2>1, <2>3, <3>2, OnlyMaker
  <2> QED
    BY <1>2, <2>1, <2>2, <2>3 DEF MadeBy
<1>3. ASSUME NEW o \in Objects, o \in DestroyedBy(t), o \in DestroyedBy(u) PROVE FALSE
  BY <1>1, <1>3 DEF DestroyedBy, Exclusive
<1> QED
  BY <1>2, <1>3 DEF MadeBy, DestroyedBy

LEMMA Bystanders ==
  ASSUME IInv, NEW t \in Threads, SettledBut(t), StepOf(t)
  PROVE  \A u \in Threads \ {t} :
           ThreadOK(u)' /\ \A v \in Threads \ {t} : u # v => Exclusive(u, v)'
<1>1. ASSUME NEW u \in Threads \ {t} PROVE ThreadOK(u)'
  <2>o. \A o \in Buffers \cup Groups : o \in Objects
    BY Names
  <2>1. SameLocals(u) /\ (u \in Clients => own[u] \subseteq own'[u])
    BY DEF StepOf
  <2>2. pc[u] = "alloc" \/ DestroysBuffer(u) =>
          /\ mem'[buf[u]] = mem[buf[u]] /\ ref'[buf[u]] = ref[buf[u]]
          /\ storage'[buf[u]] = storage[buf[u]]
    <3>1. BufferOK(u)
      BY TheThreads
    <3>2. pc[u] = "alloc" \/ DestroysBuffer(u) =>
            buf[u] \in Buffers /\ mem[buf[u]] \in {"made", "closing"}
      BY <3>1 DEF BufferOK
    <3>3. pc[u] = "alloc" \/ DestroysBuffer(u) => buf[u] \notin MadeBy(t) \cup DestroyedBy(t)
      <4> SUFFICES ASSUME pc[u] = "alloc" \/ DestroysBuffer(u)
                   PROVE  buf[u] \notin MadeBy(t) \cup DestroyedBy(t)
        OBVIOUS
      <4>1. buf[u] \in MadeBy(u)
        BY <2>o, <3>2 DEF MadeBy
      <4>2. buf[u] \notin DestroyedBy(t)
        BY <3>2, TheThreads, Names DEF DestroyedBy
      <4> QED
        BY <4>1, <4>2, MadeByOne
    <3> QED
      BY <2>o, <3>2, <3>3 DEF SettledBut
  <2>3. DestroysGroup(u) => mem'[grp[u]] = mem[grp[u]]
    <3>1. DestroysGroup(u) => grp[u] \in Groups /\ mem[grp[u]] = "closing"
      BY TheThreads DEF GroupOK, DestroysGroup
    <3>2. DestroysGroup(u) => grp[u] \notin MadeBy(t) \cup DestroyedBy(t)
      <4> SUFFICES ASSUME DestroysGroup(u) PROVE grp[u] \notin MadeBy(t) \cup DestroyedBy(t)
        OBVIOUS
      <4>1. grp[u] \in DestroyedBy(u)
        BY <2>o, <3>1 DEF DestroyedBy
      <4>2. grp[u] \notin MadeBy(t)
        BY <3>1, TheThreads, Names DEF MadeBy
      <4> QED
        BY <4>1, <4>2, MadeByOne
    <3> QED
      BY <2>o, <3>1, <3>2 DEF SettledBut
  <2>4. cmd[u] # NULL => req'[cmd[u]] = req[cmd[u]] /\ reqGroup'[cmd[u]] = reqGroup[cmd[u]]
    <3>1. RequestOK(u) /\ Exclusive(u, t) /\ cmd[u] \in Cmds \cup {NULL}
      BY TheThreads
    <3>2. cmd[u] # NULL => req[cmd[u]] \in {"made", "running"} /\ cmd[u] # cmd[t]
      BY <3>1 DEF RequestOK, Exclusive
    <3> QED
      BY <3>1, <3>2 DEF StepOf
  <2>5. pc[u] = "ioctl" /\ grp[u] # NULL =>
          ReplaceInFlight \/ Contents(grp[u]) \subseteq Contents(grp[u])'
    <3> SUFFICES ASSUME pc[u] = "ioctl", grp[u] # NULL, ~ReplaceInFlight
                 PROVE  Contents(grp[u]) \subseteq Contents(grp[u])'
      OBVIOUS
    <3>1. grp[u] \in Groups /\ mem[grp[u]] = "live"
      BY GroupInUse DEF AtGroup
    <3>2. InFlight(grp[u])
      BY DEF InFlight
    <3>3. ~BeingChanged(grp[u])
      BY <3>1, <3>2 DEF IInv, NotReplaced
    <3>4. ~(t \in Clients /\ pc[t] = "set" /\ grp[t] = grp[u])
      BY <3>3 DEF BeingChanged
    <3>5. PICK g \in Groups : g = grp[u]
      BY <3>1
    <3>6. Contents(g) \subseteq Contents(g)'
      BY <3>1, <3>4, <3>5 DEF StepOf
    <3>7. grp'[u] = g
      BY <3>5 DEF StepOf, SameLocals
    <3> QED
      BY <3>5, <3>6, <3>7 DEF Contents
  <2>6. Undisturbed(u)
    BY <2>1, <2>2, <2>3, <2>4, <2>5 DEF Undisturbed
  <2> QED
    BY <2>6, TheThreads, ThreadStays DEF IInv
<1>2. ASSUME NEW u \in Threads \ {t}, NEW v \in Threads \ {t}, u # v
      PROVE  Exclusive(u, v)'
  <2>1. SameLocals(u) /\ SameLocals(v) /\ Exclusive(u, v)
    BY <1>2, TheThreads DEF StepOf
  <2> QED
    BY <2>1, ExclusiveStays
<1> QED
  BY <1>1, <1>2

\* What t works with now it worked with before, or nobody did.
LEMMA Alone ==
  ASSUME IInv, NEW t \in Threads, StepOf(t),
         DestroysBuffer(t)' =>
           (DestroysBuffer(t) /\ buf'[t] = buf[t]) \/ mem[buf'[t]] # "closing",
         DestroysGroup(t)' =>
           (DestroysGroup(t) /\ grp'[t] = grp[t]) \/ mem[grp'[t]] # "closing",
         cmd'[t] \in {cmd[t], NULL} \/ req[cmd'[t]] \in {"none", "queued"}
  PROVE  \A u \in Threads \ {t} : Exclusive(t, u)' /\ Exclusive(u, t)'
<1> SUFFICES ASSUME NEW u \in Threads \ {t}
             PROVE  Exclusive(t, u)' /\ Exclusive(u, t)'
  OBVIOUS
<1>1. pc'[u] = pc[u] /\ buf'[u] = buf[u] /\ grp'[u] = grp[u] /\ cmd'[u] = cmd[u]
  BY DEF StepOf, SameLocals
<1>2. Exclusive(t, u) /\ BufferOK(u) /\ GroupOK(u) /\ RequestOK(u)
  BY TheThreads
<1>3. DestroysBuffer(t)' /\ DestroysBuffer(u)' => buf'[t] # buf'[u]
  BY <1>1, <1>2 DEF Exclusive, BufferOK, DestroysBuffer
<1>4. DestroysGroup(t)' /\ DestroysGroup(u)' => grp'[t] # grp'[u]
  BY <1>1, <1>2 DEF Exclusive, GroupOK, DestroysGroup
<1>5. cmd'[t] # NULL => cmd'[t] # cmd'[u]
  BY <1>1, <1>2 DEF Exclusive, RequestOK
<1> QED
  BY <1>3, <1>4, <1>5 DEF Exclusive

LEMMA AllThreadsBut ==
  ASSUME IInv, NEW t \in Threads, SettledBut(t), StepOf(t), ThreadOK(t)',
         \A u \in Threads \ {t} : Exclusive(t, u)' /\ Exclusive(u, t)'
  PROVE  /\ \A u \in Threads : (BufferOK(u) /\ GroupOK(u) /\ RequestOK(u) /\ SnapOK(u))'
         /\ \A u, v \in Threads : u # v => Exclusive(u, v)'
<1>1. \A u \in Threads : ThreadOK(u)'
  BY Bystanders
<1>2. \A u, v \in Threads : u # v => Exclusive(u, v)'
  BY Bystanders
<1> QED
  BY <1>1, <1>2 DEF ThreadOK

LEMMA AllThreads ==
  ASSUME IInv, NEW t \in Threads, Settled, StepOf(t), ThreadOK(t)',
         \A u \in Threads \ {t} : Exclusive(t, u)' /\ Exclusive(u, t)'
  PROVE  /\ \A u \in Threads : (BufferOK(u) /\ GroupOK(u) /\ RequestOK(u) /\ SnapOK(u))'
         /\ \A u, v \in Threads : u # v => Exclusive(u, v)'
<1>1. SettledBut(t)
  BY DEF Settled, SettledBut
<1> QED
  BY <1>1, AllThreadsBut

-----------------------------------------------------------------------------
(* Objects under a retain, under a release and under neither.              *)

ObjectsOK ==
  /\ \A o \in Objects : LifeOK(o)
  /\ DeviceOK
  /\ \A b \in Buffers : StorageOK(b)

AllocsKept == \A u \in Clients : pc[u] = "alloc" => pc'[u] = "alloc" /\ buf'[u] = buf[u]

LEMMA SameObjects ==
  ASSUME IInv, UNCHANGED <<ref, mem, storage>>, AllocsKept
  PROVE  ObjectsOK' /\ Settled
<1>1. \A o \in Objects : LifeOK(o)'
  BY DEF IInv, LifeOK, AllocsKept
<1>2. DeviceOK' /\ \A b \in Buffers : StorageOK(b)'
  BY DEF IInv, DeviceOK, StorageOK
<1> QED
  BY <1>1, <1>2 DEF ObjectsOK, Settled

LEMMA RetainObjects ==
  ASSUME IInv, NEW X \in Objects, mem[X] = "live", Inc(X), UNCHANGED <<mem, storage>>, AllocsKept
  PROVE  ObjectsOK' /\ Settled /\ ref' \in [Objects -> Nat]
<1>1. ref \in [Objects -> Nat] /\ ref' = [ref EXCEPT ![X] = @ + 1]
  BY DEF IInv, TypeOK, Inc
<1>2. ref' \in [Objects -> Nat]
  BY <1>1
<1>3. ASSUME NEW o \in Objects PROVE LifeOK(o)'
  <2>1. LifeOK(o) /\ ref[o] \in Nat
    BY <1>1 DEF IInv
  <2>2. ref'[o] = IF o = X THEN ref[o] + 1 ELSE ref[o]
    BY <1>1
  <2> QED
    BY <2>1, <2>2 DEF LifeOK, AllocsKept
<1>4. DeviceOK' /\ \A b \in Buffers : StorageOK(b)'
  BY DEF IInv, DeviceOK, StorageOK
<1>5. Settled
  BY <1>1 DEF Settled
<1> QED
  BY <1>2, <1>3, <1>4, <1>5 DEF ObjectsOK

\* last_release_refcounted of an object whose destructor takes steps.
LEMMA DropObjects ==
  ASSUME IInv, NEW X \in Objects, X # Device, mem[X] = "live", Dec(X), UNCHANGED storage,
         mem' = IF LastRef(X) THEN [mem EXCEPT ![X] = "closing"] ELSE mem, AllocsKept
  PROVE  /\ ObjectsOK' /\ Settled
         /\ ref' \in [Objects -> Nat] /\ mem' \in [Objects -> MemStates]
<1>1. /\ ref \in [Objects -> Nat] /\ ref' = [ref EXCEPT ![X] = @ - 1]
      /\ mem \in [Objects -> MemStates]
  BY DEF IInv, TypeOK, Dec
<1>2. ref[X] \in Nat \ {0}
  BY <1>1 DEF IInv, LifeOK
<1>3. ref' \in [Objects -> Nat]
  BY <1>1, <1>2
<1>4. mem' \in [Objects -> MemStates]
  BY <1>1 DEF MemStates
<1>5. \A o \in Objects : ref'[o] = IF o = X THEN ref[o] - 1 ELSE ref[o]
  BY <1>1
<1>6. \A o \in Objects : mem'[o] = IF o = X /\ ref[X] = 1 THEN "closing" ELSE mem[o]
  BY <1>1 DEF LastRef
<1>7. ASSUME NEW o \in Objects PROVE LifeOK(o)'
  <2>1. LifeOK(o) /\ ref[o] \in Nat
    BY <1>1 DEF IInv
  <2> QED
    BY <2>1, <1>2, <1>5, <1>6 DEF LifeOK, AllocsKept
<1>8. DeviceOK'
  BY <1>6, Names DEF IInv, DeviceOK
<1>9. ASSUME NEW b \in Buffers PROVE StorageOK(b)'
  BY <1>6, Names DEF IInv, StorageOK
<1>10. Settled
  BY <1>5, <1>6 DEF Settled
<1> QED
  BY <1>3, <1>4, <1>7, <1>8, <1>9, <1>10 DEF ObjectsOK

\* A release of the device, by a caller or by the destructor of a buffer
\* whose storage goes back to the driver, when nobody else uses it.
LEMMA DeviceReleased ==
  ASSUME IInv, mem[Device] = "live", Dec(Device),
         \A x \in Buffers : storage'[x] = storage[x] \/ (mem[x] = "closing" /\ storage'[x] = NULL),
         mem' = IF LastRef(Device) THEN [mem EXCEPT ![Device] = "freed"] ELSE mem, AllocsKept
  PROVE  /\ ObjectsOK'
         /\ ref' \in [Objects -> Nat] /\ mem' \in [Objects -> MemStates]
         /\ \A o \in Objects \ {Device} : mem'[o] = mem[o] /\ ref'[o] = ref[o]
<1>1. /\ ref \in [Objects -> Nat] /\ ref' = [ref EXCEPT ![Device] = @ - 1]
      /\ mem \in [Objects -> MemStates] /\ Device \in Objects
  BY Names DEF IInv, TypeOK, Dec
<1>2. ref[Device] \in Nat \ {0}
  BY <1>1 DEF IInv, LifeOK
<1>3. ref' \in [Objects -> Nat]
  BY <1>1, <1>2
<1>4. mem' \in [Objects -> MemStates]
  BY <1>1 DEF MemStates
<1>5. \A o \in Objects : ref'[o] = IF o = Device THEN ref[o] - 1 ELSE ref[o]
  BY <1>1
<1>6. \A o \in Objects : mem'[o] = IF o = Device /\ ref[Device] = 1 THEN "freed" ELSE mem[o]
  BY <1>1 DEF LastRef
<1>7. ASSUME NEW o \in Objects PROVE LifeOK(o)'
  <2>1. LifeOK(o) /\ ref[o] \in Nat
    BY <1>1 DEF IInv
  <2> QED
    BY <2>1, <1>2, <1>5, <1>6 DEF LifeOK, AllocsKept
<1>8. DeviceOK'
  BY <1>1, <1>6 DEF IInv, DeviceOK
<1>9. ASSUME NEW b \in Buffers PROVE StorageOK(b)'
  BY <1>6, Names DEF IInv, StorageOK
<1>10. \A o \in Objects \ {Device} : mem'[o] = mem[o] /\ ref'[o] = ref[o]
  BY <1>5, <1>6
<1> QED
  BY <1>1, <1>3, <1>4, <1>7, <1>8, <1>9, <1>10 DEF ObjectsOK

-----------------------------------------------------------------------------
(* Calls that are one step.                                                *)

ReqsOK == \A c \in Cmds : req[c] # "none" => reqGroup[c] # NULL

LEMMA InvParts ==
  ASSUME TypeOK', RefExact', ObjectsOK',
         \A t \in Threads : (BufferOK(t) /\ GroupOK(t) /\ RequestOK(t) /\ SnapOK(t))',
         \A t, u \in Threads : t # u => Exclusive(t, u)',
         ReqsOK', \A t \in Clients : MappingOK(t)', NotReplaced'
  PROVE  IInv'
BY DEF ObjectsOK, ReqsOK, IInv

\* They leave threads where they are.
LEMMA CallStep ==
  ASSUME IInv, NEW t \in Clients, pc[t] = "idle", UNCHANGED <<pc, locVars, reqVars>>, Settled,
         \A u \in Clients \ {t} : own[u] \subseteq own'[u],
         \A g \in Groups : Contents(g) \subseteq Contents(g)'
  PROVE  /\ \A u \in Threads : (BufferOK(u) /\ GroupOK(u) /\ RequestOK(u) /\ SnapOK(u))'
         /\ \A u, v \in Threads : u # v => Exclusive(u, v)'
         /\ ReqsOK' /\ NotReplaced'
<1>u. UNCHANGED <<pc, buf, grp, at, cmd, snap, req, reqGroup>>
  BY DEF locVars, reqVars
<1>t. t \in Threads
  BY Names
<1>1. \A u \in Threads : SameLocals(u)
  BY <1>u DEF SameLocals
<1>2. StepOf(t)
  BY <1>1, <1>u, <1>t DEF StepOf
<1>3. ThreadOK(t)'
  <2>1. /\ BufferOK(t) /\ GroupOK(t) /\ RequestOK(t) /\ SnapOK(t)
        /\ ~DestroysBuffer(t) /\ ~DestroysGroup(t)
    BY <1>t, TheThreads DEF DestroysBuffer, DestroysGroup, Dtors
  <2>2. BufferOK(t)' /\ GroupOK(t)' /\ SnapOK(t)'
    BY <2>1, <1>u DEF BufferOK, GroupOK, SnapOK, DestroysBuffer, DestroysGroup, Dtors
  <2>3. RequestOK(t)'
    BY <2>1, <1>u DEF RequestOK
  <2> QED
    BY <2>2, <2>3 DEF ThreadOK
<1>4. \A u \in Threads \ {t} : Exclusive(t, u)' /\ Exclusive(u, t)'
  BY <1>1, <1>t, TheThreads, ExclusiveStays
<1>5. ReqsOK'
  BY <1>u DEF IInv, ReqsOK
<1>6. NotReplaced'
  BY <1>u DEF IInv, NotReplaced, InFlight, BeingChanged
<1> QED
  BY <1>t, <1>2, <1>3, <1>4, <1>5, <1>6, AllThreads

LEMMA MappingsSame ==
  ASSUME IInv, UNCHANGED mapped
  PROVE  \A t \in Clients : MappingOK(t)'
BY DEF IInv, MappingOK

\* Threads stay where they are: so do the buffers and requests they hold.
LEMMA QuietKinds ==
  ASSUME UNCHANGED <<pc, locVars, reqVars>>
  PROVE  CallsKept /\ RequestsKept /\ AllocsKept
<1>1. UNCHANGED <<pc, buf, cmd, req, reqGroup>>
  BY DEF locVars, reqVars
<1>2. CallsKept
  BY <1>1 DEF CallsKept
<1>3. RequestsKept
  BY <1>1 DEF RequestsKept
<1>4. AllocsKept
  BY <1>1 DEF AllocsKept
<1> QED
  BY <1>2, <1>3, <1>4

\* A retain for a client, and a release by one.
LEMMA OwnerRetains ==
  ASSUME IInv, NEW t \in Clients, NEW X \in Objects, X \notin own[t], Inc(X),
         own' = [own EXCEPT ![t] = @ \cup {X}], \A o : OthersSame(o)
  PROVE  RefExact' /\ own' \in [Clients -> SUBSET Objects]
<1>1. TypeOK /\ ref \in [Objects -> Nat] /\ ref' = [ref EXCEPT ![X] = @ + 1]
  BY DEF IInv, TypeOK, Inc
<1>2. \A o : OwnersOf(o)' = IF o = X THEN OwnersOf(o) \cup {t} ELSE OwnersOf(o)
  BY <1>1, OwnersAdd
<1>3. ASSUME NEW o \in Objects PROVE Counted(o)'
  <2>1. Counted(o)
    BY DEF IInv, RefExact, Counted
  <2>2. CASE o = X
    <3>1. <<"own", t>> \notin Holders(o)
      BY <2>2, HolderKinds DEF OwnersOf
    <3>2. Holders(o)' = Holders(o) \cup {<<"own", t>>}
      BY <1>2, <2>2, HoldersGain
    <3>3. ref'[o] = ref[o] + 1
      BY <1>1, <2>2
    <3> QED
      BY <2>1, <3>1, <3>2, <3>3, AddHolder
  <2>3. CASE o # X
    <3>1. Holders(o)' = Holders(o) /\ ref'[o] = ref[o]
      BY <1>1, <1>2, <2>3, HoldersSame
    <3> QED
      BY <2>1, <3>1, SameCount
  <2> QED
    BY <2>2, <2>3
<1>4. own' \in [Clients -> SUBSET Objects]
  BY DEF IInv, TypeOK
<1> QED
  BY <1>3, <1>4 DEF RefExact, Counted

LEMMA OwnerReleases ==
  ASSUME IInv, NEW t \in Clients, NEW X \in own[t], Dec(X),
         own' = [own EXCEPT ![t] = @ \ {X}], \A o : OthersSame(o)
  PROVE  RefExact' /\ own' \in [Clients -> SUBSET Objects]
<1>1. TypeOK /\ ref \in [Objects -> Nat] /\ ref' = [ref EXCEPT ![X] = @ - 1]
  BY DEF IInv, TypeOK, Dec
<1>2. \A o : OwnersOf(o)' = IF o = X THEN OwnersOf(o) \ {t} ELSE OwnersOf(o)
  BY <1>1, OwnersRemove
<1>3. ASSUME NEW o \in Objects PROVE Counted(o)'
  <2>1. Counted(o)
    BY DEF IInv, RefExact, Counted
  <2>2. CASE o = X
    <3>1. <<"own", t>> \in Holders(o)
      BY <2>2, OwnedLive
    <3>2. Holders(o)' = Holders(o) \ {<<"own", t>>}
      BY <1>2, <2>2, HoldersLose
    <3>3. ref'[o] = ref[o] - 1
      BY <1>1, <2>2
    <3> QED
      BY <2>1, <3>1, <3>2, <3>3, RemoveHolder
  <2>3. CASE o # X
    <3>1. Holders(o)' = Holders(o) /\ ref'[o] = ref[o]
      BY <1>1, <1>2, <2>3, HoldersSame
    <3> QED
      BY <2>1, <3>1, SameCount
  <2> QED
    BY <2>2, <2>3
<1>4. own' \in [Clients -> SUBSET Objects]
  BY DEF IInv, TypeOK
<1> QED
  BY <1>3, <1>4 DEF RefExact, Counted

LEMMA ShareStep ==
  ASSUME IInv, NEW t \in Clients, NEW u \in Clients, NEW o \in Objects, Share(t, u, o)
  PROVE  IInv'
<1>u. UNCHANGED <<mem, mapped, storage, slots, pc, locVars, reqVars>>
  BY DEF Share
<1>g. pc[t] = "idle" /\ o \in own[t] /\ o \notin own[u] /\ mem[o] = "live"
  BY OwnedLive DEF Share
<1>e. Inc(o) /\ own' = [own EXCEPT ![u] = @ \cup {o}]
  BY DEF Share
<1>k. CallsKept /\ RequestsKept /\ AllocsKept /\ \A x : OthersSame(x)
  BY <1>u, QuietKinds, OthersFrame
<1>1. ObjectsOK' /\ Settled /\ ref' \in [Objects -> Nat]
  BY <1>u, <1>g, <1>e, <1>k, RetainObjects
<1>2. RefExact' /\ own' \in [Clients -> SUBSET Objects]
  BY <1>g, <1>e, <1>k, OwnerRetains
<1>3. TypeOK'
  BY <1>u, <1>1, <1>2 DEF IInv, TypeOK, locVars, reqVars
<1>4. /\ \A x \in Clients : own[x] \subseteq own'[x]
      /\ \A g \in Groups : Contents(g) \subseteq Contents(g)'
  BY <1>e, <1>u DEF IInv, TypeOK, Contents
<1>5. \A x \in Clients : MappingOK(x)'
  BY <1>u, MappingsSame
<1> QED
  BY <1>u, <1>g, <1>1, <1>2, <1>3, <1>4, <1>5, CallStep, InvParts

LEMMA GetBufferStep ==
  ASSUME IInv, NEW t \in Clients, NEW g \in Groups, NEW n, GetBuffer(t, g, n)
  PROVE  IInv'
<1>u. UNCHANGED <<mem, mapped, storage, slots, pc, locVars, reqVars>>
  BY DEF GetBuffer
<1>b. PICK b : b = slots[g][n]
  OBVIOUS
<1>g. pc[t] = "idle" /\ b \notin own[t] /\ b \in Buffers /\ b \in Objects /\ mem[b] = "live"
  BY <1>b, SlotLive, Names DEF GetBuffer
<1>e. Inc(b) /\ own' = [own EXCEPT ![t] = @ \cup {b}]
  BY <1>b DEF GetBuffer
<1>k. CallsKept /\ RequestsKept /\ AllocsKept /\ \A x : OthersSame(x)
  BY <1>u, QuietKinds, OthersFrame
<1>1. ObjectsOK' /\ Settled /\ ref' \in [Objects -> Nat]
  BY <1>u, <1>g, <1>e, <1>k, RetainObjects
<1>2. RefExact' /\ own' \in [Clients -> SUBSET Objects]
  BY <1>g, <1>e, <1>k, OwnerRetains
<1>3. TypeOK'
  BY <1>u, <1>1, <1>2 DEF IInv, TypeOK, locVars, reqVars
<1>4. /\ \A x \in Clients : own[x] \subseteq own'[x]
      /\ \A x \in Groups : Contents(x) \subseteq Contents(x)'
  BY <1>e, <1>u DEF IInv, TypeOK, Contents
<1>5. \A x \in Clients : MappingOK(x)'
  BY <1>u, MappingsSame
<1> QED
  BY <1>u, <1>g, <1>1, <1>2, <1>3, <1>4, <1>5, CallStep, InvParts

\* alloc_refcounted: the first holder is the client that made the object.
LEMMA Born ==
  ASSUME IInv, NEW t \in Clients, NEW X \in HostBuffers \cup Groups, mem[X] = "none",
         ref' = [ref EXCEPT ![X] = 1], mem' = [mem EXCEPT ![X] = "live"],
         own' = [own EXCEPT ![t] = @ \cup {X}], pc[t] = "idle",
         UNCHANGED <<mapped, storage, slots, pc, locVars, reqVars>>
  PROVE  IInv'
<1>k. CallsKept /\ RequestsKept /\ AllocsKept /\ \A x : OthersSame(x)
  BY QuietKinds, OthersFrame
<1>x. X \in Objects /\ X # Device /\ (X \in Buffers => X \in HostBuffers)
  BY NamesDiffer, Names
<1>h. ref[X] = 0 /\ Holders(X) = {}
  BY <1>x, Unheld
<1>t. /\ ref \in [Objects -> Nat] /\ mem \in [Objects -> MemStates]
      /\ own \in [Clients -> SUBSET Objects]
  BY DEF IInv, TypeOK
<1>1. ObjectsOK' /\ Settled /\ ref' \in [Objects -> Nat] /\ mem' \in [Objects -> MemStates]
  <2>1. ref' \in [Objects -> Nat] /\ mem' \in [Objects -> MemStates]
    BY <1>t DEF MemStates
  <2>2. \A o \in Objects : ref'[o] = IF o = X THEN 1 ELSE ref[o]
    BY <1>t
  <2>3. \A o \in Objects : mem'[o] = IF o = X THEN "live" ELSE mem[o]
    BY <1>t
  <2>4. ASSUME NEW o \in Objects PROVE LifeOK(o)'
    <3>1. LifeOK(o)
      BY DEF IInv
    <3> QED
      BY <2>2, <2>3, <3>1, <1>k DEF LifeOK, AllocsKept
  <2>5. DeviceOK'
    BY <2>3, <1>x, Names DEF IInv, DeviceOK
  <2>6. ASSUME NEW b \in Buffers PROVE StorageOK(b)'
    BY <2>3, <1>x, Names DEF IInv, StorageOK
  <2>7. Settled
    BY <2>2, <2>3 DEF Settled
  <2> QED
    BY <2>1, <2>4, <2>5, <2>6, <2>7 DEF ObjectsOK
<1>2. RefExact' /\ own' \in [Clients -> SUBSET Objects]
  <2>1. \A o : OwnersOf(o)' = IF o = X THEN OwnersOf(o) \cup {t} ELSE OwnersOf(o)
    BY OwnersAdd DEF IInv
  <2>2. ASSUME NEW o \in Objects PROVE Counted(o)'
    <3>1. CASE o = X
      <4>1. Holders(o)' = {<<"own", t>>}
        BY <1>h, <1>k, <2>1, <3>1, HoldersGain
      <4>2. ref'[o] = 1
        BY <1>t, <3>1
      <4> QED
        BY <4>1, <4>2, FirstHolder
    <3>2. CASE o # X
      <4>1. Counted(o)
        BY DEF IInv, RefExact, Counted
      <4>2. Holders(o)' = Holders(o) /\ ref'[o] = ref[o]
        BY <1>k, <1>t, <2>1, <3>2, HoldersSame
      <4> QED
        BY <4>1, <4>2, SameCount
    <3> QED
      BY <3>1, <3>2
  <2>3. own' \in [Clients -> SUBSET Objects]
    BY <1>t, <1>x
  <2> QED
    BY <2>2, <2>3 DEF RefExact, Counted
<1>3. TypeOK'
  BY <1>1, <1>2 DEF IInv, TypeOK, locVars, reqVars
<1>4. /\ \A x \in Clients : own[x] \subseteq own'[x]
      /\ \A g \in Groups : Contents(g) \subseteq Contents(g)'
  BY <1>t DEF Contents
<1>5. \A x \in Clients : MappingOK(x)'
  BY MappingsSame
<1> QED
  BY <1>1, <1>2, <1>3, <1>4, <1>5, CallStep, InvParts

LEMMA CreateHostBufferStep ==
  ASSUME IInv, NEW t \in Clients, NEW b \in Buffers, CreateHostBuffer(t, b)
  PROVE  IInv'
BY Born DEF CreateHostBuffer

LEMMA CreateGroupStep ==
  ASSUME IInv, NEW t \in Clients, NEW g \in Groups, CreateGroup(t, g)
  PROVE  IInv'
BY Born DEF CreateGroup

LEMMA FirstsAdd ==
  ASSUME NEW S, NEW m
  PROVE  {k[1] : k \in S \cup {m}} = {k[1] : k \in S} \cup {m[1]}
OBVIOUS

\* xrp_map_buffer: the mapping is a holder.
LEMMA MapStep ==
  ASSUME IInv, NEW t \in Clients, NEW b \in Buffers, NEW w \in Windows, Map(t, b, w[1], w[2])
  PROVE  IInv'
<1>u. UNCHANGED <<mem, own, storage, slots, pc, locVars, reqVars>>
  BY DEF Map
<1>m. PICK m : m = <<b, w[1], w[2]>>
  OBVIOUS
<1>w. w[1] \in Nat /\ w[2] \in Nat /\ m \in Buffers \X Nat \X Nat
  BY <1>m, NamesDiffer
<1>g. /\ pc[t] = "idle" /\ mem[b] = "live" /\ b \in Objects /\ b \notin MappedBuffers(t)
      /\ w[1] <= SizeOf[b] /\ w[2] <= SizeOf[b] - w[1]
  BY OwnedLive DEF Map, InBuffer
<1>e. Inc(b) /\ mapped' = [mapped EXCEPT ![t] = @ \cup {m}]
  BY <1>m DEF Map
<1>t. /\ mapped \in [Clients -> SUBSET (Buffers \X Nat \X Nat)]
      /\ ref \in [Objects -> Nat] /\ ref' = [ref EXCEPT ![b] = @ + 1]
  BY <1>e DEF IInv, TypeOK, Inc
<1>k. CallsKept /\ RequestsKept /\ AllocsKept
  BY <1>u, QuietKinds
<1>1. ObjectsOK' /\ Settled /\ ref' \in [Objects -> Nat]
  BY <1>u, <1>g, <1>e, <1>k, RetainObjects
<1>2. RefExact'
  <2>1. \A x : MappersOf(x)' = IF x = b THEN MappersOf(x) \cup {t} ELSE MappersOf(x)
    <3>1. \A c \in Clients : mapped'[c] = IF c = t THEN mapped[c] \cup {m} ELSE mapped[c]
      BY <1>e, <1>t
    <3>2. \A c \in Clients :
            MappedBuffers(c)' = IF c = t THEN MappedBuffers(c) \cup {b} ELSE MappedBuffers(c)
      <4> SUFFICES ASSUME NEW c \in Clients
                   PROVE  MappedBuffers(c)' = IF c = t THEN MappedBuffers(c) \cup {b}
                                                       ELSE MappedBuffers(c)
        OBVIOUS
      <4>1. CASE c = t
        <5>1. mapped'[c] = mapped[c] \cup {m} /\ m[1] = b
          BY <3>1, <4>1, <1>m
        <5> QED
          BY <5>1, <4>1, FirstsAdd DEF MappedBuffers
      <4>2. CASE c # t
        BY <3>1, <4>2 DEF MappedBuffers
      <4> QED
        BY <4>1, <4>2
    <3> QED
      BY <3>2 DEF MappersOf
  <2>2. \A x : OwnersOf(x)' = OwnersOf(x) /\ SlotsOf(x)' = SlotsOf(x)
    BY <1>u DEF OwnersOf, SlotsOf
  <2>3. WithStorage' = WithStorage /\ Allocating' = Allocating
    BY <1>u, <1>k, CallsSame DEF WithStorage
  <2>4. \A x : CallsOn(x)' = CallsOn(x) /\ RequestsOf(x)' = RequestsOf(x)
    BY <1>k, CallsSame, RequestsSame
  <2>5. ASSUME NEW o \in Objects PROVE Counted(o)'
    <3>1. Counted(o)
      BY DEF IInv, RefExact, Counted
    <3>2. CASE o = b
      <4>1. <<"map", t>> \notin Holders(o)
        BY <3>2, <1>g, HolderKinds DEF MappersOf
      <4>2. MappersOf(o)' = MappersOf(o) \cup {t}
        BY <2>1, <3>2
      <4>3. {"map"} \X (MappersOf(o) \cup {t}) = ({"map"} \X MappersOf(o)) \cup {<<"map", t>>}
        OBVIOUS
      <4>4. Holders(o)' = Holders(o) \cup {<<"map", t>>}
        BY <4>2, <4>3, <2>2, <2>4, <3>2 DEF Holders, BufferHolders
      <4>5. ref'[o] = ref[o] + 1
        BY <1>t, <3>2
      <4> QED
        BY <3>1, <4>1, <4>4, <4>5, AddHolder
    <3>3. CASE o # b
      <4>1. OthersSame(o)
        BY <2>1, <2>2, <2>3, <2>4, <3>3 DEF OthersSame
      <4>2. Holders(o)' = Holders(o) /\ ref'[o] = ref[o]
        BY <4>1, <2>2, <1>t, <3>3, HoldersSame
      <4> QED
        BY <3>1, <4>2, SameCount
    <3> QED
      BY <3>2, <3>3
  <2> QED
    BY <2>5 DEF RefExact, Counted
<1>3. TypeOK'
  <2>1. mapped' \in [Clients -> SUBSET (Buffers \X Nat \X Nat)]
    BY <1>t, <1>e, <1>w
  <2> QED
    BY <1>u, <1>1, <2>1 DEF IInv, TypeOK, locVars, reqVars
<1>4. /\ \A x \in Clients : own[x] \subseteq own'[x]
      /\ \A g \in Groups : Contents(g) \subseteq Contents(g)'
  BY <1>u DEF Contents
<1>5. ASSUME NEW x \in Clients PROVE MappingOK(x)'
  <2>1. MappingOK(x)
    BY DEF IInv
  <2>2. CASE x # t
    BY <2>1, <2>2, <1>t, <1>e DEF MappingOK
  <2>3. CASE x = t
    <3>1. mapped'[t] = mapped[t] \cup {m}
      BY <1>t, <1>e
    <3>2. m[1] = b /\ m[2] = w[1] /\ m[3] = w[2] /\ SizeOf[b] \in Nat
      BY <1>m, StorageSize
    <3>3. m[2] + m[3] <= SizeOf[m[1]]
      BY <3>2, <1>g, <1>w
    <3>4. \A k \in mapped[t] : k[1] # b
      BY <1>g DEF MappedBuffers
    <3> QED
      BY <2>1, <2>3, <3>1, <3>2, <3>3, <3>4 DEF MappingOK
  <2> QED
    BY <2>2, <2>3
<1> QED
  BY <1>u, <1>g, <1>1, <1>2, <1>3, <1>4, <1>5, CallStep, InvParts

\* xrp_add_buffer_to_group: the slot is a holder.
LEMMA AddBufferStep ==
  ASSUME IInv, NEW t \in Clients, NEW g \in Groups, NEW b \in Buffers, AddBuffer(t, g, b)
  PROVE  IInv'
<1>u. UNCHANGED <<mem, own, mapped, storage, pc, locVars, reqVars>>
  BY DEF AddBuffer, cliVars
<1>g. pc[t] = "idle" /\ mem[b] = "live" /\ b \in Objects /\ Len(slots[g]) < MaxSlots
  BY OwnedLive DEF AddBuffer
<1>e. Inc(b) /\ slots' = [slots EXCEPT ![g] = Append(@, b)]
  BY DEF AddBuffer
<1>t. /\ slots \in [Groups -> Seq(Buffers)] /\ \A x \in Groups : Len(slots[x]) <= MaxSlots
      /\ ref \in [Objects -> Nat] /\ ref' = [ref EXCEPT ![b] = @ + 1]
      /\ MaxSlots \in Nat
  BY <1>e, NamesDiffer DEF IInv, TypeOK, Inc
<1>n. PICK n : n = Len(slots[g]) + 1
  OBVIOUS
<1>s. /\ slots'[g] \in Seq(Buffers) /\ DOMAIN slots'[g] = 1 .. n /\ slots'[g][n] = b
      /\ DOMAIN slots[g] = 1 .. (n - 1) /\ n \in 1 .. MaxSlots /\ Len(slots'[g]) = n
      /\ \A k \in 1 .. (n - 1) : slots'[g][k] = slots[g][k]
      /\ \A x \in Groups \ {g} : slots'[x] = slots[x]
  <2>1. slots[g] \in Seq(Buffers) /\ slots'[g] = Append(slots[g], b)
    BY <1>t, <1>e
  <2>2. n \in 1 .. MaxSlots
    BY <2>1, <1>n, <1>g, <1>t
  <2>3. \A x \in Groups \ {g} : slots'[x] = slots[x]
    BY <1>t, <1>e
  <2> QED
    BY <2>1, <2>2, <2>3, <1>n
<1>k. CallsKept /\ RequestsKept /\ AllocsKept
  BY <1>u, QuietKinds
<1>1. ObjectsOK' /\ Settled /\ ref' \in [Objects -> Nat]
  BY <1>u, <1>g, <1>e, <1>k, RetainObjects
<1>2. RefExact'
  <2>1. \A x : SlotsOf(x)' = IF x = b THEN SlotsOf(x) \cup {<<g, n>>} ELSE SlotsOf(x)
    <3> SUFFICES ASSUME NEW x, NEW p \in Groups \X (1 .. MaxSlots)
                 PROVE  p \in SlotsOf(x)' <=> p \in SlotsOf(x) \/ (x = b /\ p = <<g, n>>)
      BY <1>s DEF SlotsOf
    <3>1. p[1] \in Groups /\ p[2] \in 1 .. MaxSlots /\ p = <<p[1], p[2]>>
      OBVIOUS
    <3>2. CASE p[1] # g
      BY <3>1, <3>2, <1>s DEF SlotsOf
    <3>3. CASE p[1] = g
      BY <3>1, <3>3, <1>s DEF SlotsOf
    <3> QED
      BY <3>2, <3>3
  <2>2. \A x : OwnersOf(x)' = OwnersOf(x) /\ MappersOf(x)' = MappersOf(x)
    BY <1>u DEF OwnersOf, MappersOf, MappedBuffers
  <2>3. WithStorage' = WithStorage /\ Allocating' = Allocating
    BY <1>u, <1>k, CallsSame DEF WithStorage
  <2>4. \A x : CallsOn(x)' = CallsOn(x) /\ RequestsOf(x)' = RequestsOf(x)
    BY <1>k, CallsSame, RequestsSame
  <2>5. ASSUME NEW o \in Objects PROVE Counted(o)'
    <3>1. Counted(o)
      BY DEF IInv, RefExact, Counted
    <3>2. CASE o = b
      <4>1. <<"slot", <<g, n>>>> \notin Holders(o)
        <5>1. n \notin DOMAIN slots[g]
          BY <1>s, <1>t
        <5>2. <<g, n>> \notin SlotsOf(o)
          BY <5>1 DEF SlotsOf
        <5> QED
          BY <5>2, <3>2, HolderKinds
      <4>2. SlotsOf(o)' = SlotsOf(o) \cup {<<g, n>>}
        BY <2>1, <3>2
      <4>3. {"slot"} \X (SlotsOf(o) \cup {<<g, n>>})
              = ({"slot"} \X SlotsOf(o)) \cup {<<"slot", <<g, n>>>>}
        OBVIOUS
      <4>4. Holders(o)' = Holders(o) \cup {<<"slot", <<g, n>>>>}
        BY <4>2, <4>3, <2>2, <2>4, <3>2 DEF Holders, BufferHolders
      <4>5. ref'[o] = ref[o] + 1
        BY <1>t, <3>2
      <4> QED
        BY <3>1, <4>1, <4>4, <4>5, AddHolder
    <3>3. CASE o # b
      <4>1. OthersSame(o)
        BY <2>1, <2>2, <2>3, <2>4, <3>3 DEF OthersSame
      <4>2. Holders(o)' = Holders(o) /\ ref'[o] = ref[o]
        BY <4>1, <2>2, <1>t, <3>3, HoldersSame
      <4> QED
        BY <3>1, <4>2, SameCount
    <3> QED
      BY <3>2, <3>3
  <2> QED
    BY <2>5 DEF RefExact, Counted
<1>3. TypeOK'
  <2>1. slots' \in [Groups -> Seq(Buffers)] /\ \A x \in Groups : Len(slots'[x]) <= MaxSlots
    BY <1>t, <1>s, <1>e
  <2> QED
    BY <1>u, <1>1, <2>1 DEF IInv, TypeOK, locVars, reqVars
<1>4. /\ \A x \in Clients : own[x] \subseteq own'[x]
      /\ \A x \in Groups : Contents(x) \subseteq Contents(x)'
  <2>1. Contents(g) \subseteq Contents(g)'
    BY <1>s DEF Contents
  <2>2. \A x \in Groups \ {g} : Contents(x)' = Contents(x)
    BY <1>s DEF Contents
  <2> QED
    BY <2>1, <2>2, <1>u
<1>5. \A x \in Clients : MappingOK(x)'
  BY <1>u, MappingsSame
<1> QED
  BY <1>u, <1>g, <1>1, <1>2, <1>3, <1>4, <1>5, CallStep, InvParts

LEMMA ReleaseDeviceStep ==
  ASSUME IInv, NEW t \in Clients, ReleaseDevice(t)
  PROVE  IInv'
<1>u. UNCHANGED <<mapped, storage, slots, pc, locVars, reqVars>>
  BY DEF ReleaseDevice
<1>g. /\ pc[t] = "idle" /\ Device \in own[t] /\ mem[Device] = "live"
      /\ ref[Device] \in Nat \ {0} /\ Device \in Objects
  BY OwnedLive DEF ReleaseDevice
<1>e. /\ Dec(Device) /\ own' = [own EXCEPT ![t] = @ \ {Device}]
      /\ mem' = IF LastRef(Device) THEN [mem EXCEPT ![Device] = "freed"] ELSE mem
  BY DEF ReleaseDevice
<1>k. CallsKept /\ RequestsKept /\ AllocsKept /\ \A x : OthersSame(x)
  BY <1>u, QuietKinds, OthersFrame
<1>1. /\ ObjectsOK' /\ Settled
      /\ ref' \in [Objects -> Nat] /\ mem' \in [Objects -> MemStates]
  <2>1. /\ ObjectsOK' /\ ref' \in [Objects -> Nat] /\ mem' \in [Objects -> MemStates]
        /\ \A o \in Objects \ {Device} : mem'[o] = mem[o] /\ ref'[o] = ref[o]
    BY <1>u, <1>g, <1>e, <1>k, DeviceReleased
  <2>2. Settled
    BY <2>1, <1>u, <1>g DEF Settled
  <2> QED
    BY <2>1, <2>2
<1>2. RefExact' /\ own' \in [Clients -> SUBSET Objects]
  BY <1>g, <1>e, <1>k, OwnerReleases
<1>3. TypeOK'
  BY <1>u, <1>1, <1>2 DEF IInv, TypeOK, locVars, reqVars
<1>4. /\ \A x \in Clients \ {t} : own[x] \subseteq own'[x]
      /\ \A g \in Groups : Contents(g) \subseteq Contents(g)'
  BY <1>e, <1>u DEF IInv, TypeOK, Contents
<1>5. \A x \in Clients : MappingOK(x)'
  BY <1>u, MappingsSame
<1> QED
  BY <1>u, <1>g, <1>1, <1>2, <1>3, <1>4, <1>5, CallStep, InvParts

-----------------------------------------------------------------------------
(* Calls of several steps, and workers.  First the steps that change       *)
(* neither objects nor holders.                                            *)

TypedPC ==
  /\ pc \in [Threads -> ClientPCs \cup WorkerPCs]
  /\ \A t \in Clients : pc[t] \in ClientPCs
  /\ \A w \in Workers : pc[w] \in WorkerPCs

LEMMA Moves ==
  ASSUME TypeOK, NEW t \in Threads, NEW l, Goto(t, l),
         t \in Clients => l \in ClientPCs, t \in Workers => l \in WorkerPCs
  PROVE  TypedPC' /\ pc'[t] = l /\ \A u \in Threads \ {t} : pc'[u] = pc[u]
<1>1. /\ pc \in [Threads -> ClientPCs \cup WorkerPCs]
      /\ \A x \in Clients : pc[x] \in ClientPCs
      /\ \A x \in Workers : pc[x] \in WorkerPCs
  BY DEF TypeOK
<1>2. l \in ClientPCs \cup WorkerPCs
  BY Names
<1>3. pc' = [pc EXCEPT ![t] = l]
  BY DEF Goto
<1> QED
  BY <1>1, <1>2, <1>3, Names DEF TypedPC

LEMMA Locals ==
  ASSUME IInv
  PROVE  /\ buf \in [Threads -> Buffers \cup {NULL}] /\ grp \in [Threads -> Groups \cup {NULL}]
         /\ at \in [Threads -> Nat] /\ cmd \in [Threads -> Cmds \cup {NULL}]
         /\ snap \in [Threads -> SUBSET Buffers]
         /\ req \in [Cmds -> {"none", "made", "queued", "running", "done"}]
         /\ reqGroup \in [Cmds -> Groups \cup {NULL}]
         /\ own \in [Clients -> SUBSET Objects]
         /\ ref \in [Objects -> Nat] /\ mem \in [Objects -> MemStates]
         /\ storage \in [Buffers -> Nat \cup {NULL}]
BY DEF IInv, TypeOK

LEMMA QuietObjects ==
  ASSUME IInv, UNCHANGED <<ref, mem, own, mapped, storage, slots>>, CallsKept,
         \A g : RequestsOf(g)' = RequestsOf(g)
  PROVE  RefExact' /\ ObjectsOK' /\ Settled /\ \A t \in Clients : MappingOK(t)'
<1>1. \A x : OwnersOf(x)' = OwnersOf(x) /\ SlotsOf(x)' = SlotsOf(x) /\ MappersOf(x)' = MappersOf(x)
  BY DEF OwnersOf, SlotsOf, MappersOf, MappedBuffers
<1>2. WithStorage' = WithStorage
  BY DEF WithStorage
<1>3. \A o : OthersSame(o)
  BY <1>1, <1>2, CallsSame DEF OthersSame
<1>4. \A o \in Objects : Holders(o)' = Holders(o)
  BY <1>1, <1>3, HoldersSame
<1>5. RefExact'
  BY <1>4 DEF IInv, RefExact
<1>6. ObjectsOK' /\ Settled
  BY SameObjects DEF CallsKept, InCall, AllocsKept
<1> QED
  BY <1>5, <1>6, MappingsSame

\* Neither does a step of t put a group into use nor start to change one.
LEMMA NoNewUse ==
  ASSUME IInv, NEW t \in Threads, \A u \in Threads \ {t} : SameLocals(u),
         \A c \in Cmds : req'[c] \in {"made", "queued", "running"} =>
           req[c] \in {"made", "queued", "running"} /\ reqGroup'[c] = reqGroup[c],
         pc'[t] \in {"snapshot", "ioctl"} => grp'[t] = NULL \/ InFlight(grp'[t]),
         pc'[t] = "set" => pc[t] = "set" /\ grp'[t] = grp[t]
  PROVE  NotReplaced'
<1>1. ASSUME NEW g \in Groups, InFlight(g)' PROVE InFlight(g)
  <2>1. CASE \E c \in Cmds : reqGroup'[c] = g /\ req'[c] \in {"made", "queued", "running"}
    BY <2>1 DEF InFlight
  <2>2. CASE \E u \in Threads : grp'[u] = g /\ pc'[u] \in {"snapshot", "ioctl"}
    <3>1. PICK u \in Threads : grp'[u] = g /\ pc'[u] \in {"snapshot", "ioctl"}
      BY <2>2
    <3>2. CASE u = t
      BY <3>1, <3>2, Names
    <3>3. CASE u # t
      BY <3>1, <3>3 DEF SameLocals, InFlight
    <3> QED
      BY <3>2, <3>3
  <2> QED
    BY <1>1, <2>1, <2>2 DEF InFlight
<1>2. ASSUME NEW g \in Groups, BeingChanged(g)' PROVE BeingChanged(g)
  <2>1. PICK u \in Clients : grp'[u] = g /\ pc'[u] = "set"
    BY <1>2 DEF BeingChanged
  <2>2. pc[u] = "set" /\ grp[u] = g
    BY <2>1, Names DEF SameLocals
  <2> QED
    BY <2>2 DEF BeingChanged
<1> QED
  BY <1>1, <1>2, NotReplacedStays DEF IInv

\* xrp_sync_device_buffer: the caller owns the buffer it takes to the driver.
LEMMA SyncStep ==
  ASSUME IInv, NEW t \in Clients, NEW b \in Buffers, Sync(t, b)
  PROVE  IInv'
<1>u. UNCHANGED <<ref, mem, own, mapped, storage, slots, buf, grp, at, cmd, req, reqGroup>>
  BY DEF Sync, objVars, cliVars, reqVars
<1>t. t \in Threads /\ TypeOK
  BY Names DEF IInv
<1>g. pc[t] = "idle" /\ b \in own[t] /\ grp[t] = NULL /\ cmd[t] = NULL
  BY <1>t, TheThreads DEF Sync, GroupOK, RequestOK
<1>e. Goto(t, "ioctl") /\ snap' = [snap EXCEPT ![t] = {b}]
  BY DEF Sync
<1>p. TypedPC' /\ pc'[t] = "ioctl" /\ \A u \in Threads \ {t} : pc'[u] = pc[u]
  BY <1>e, <1>t, Names, Moves DEF ClientPCs
<1>s. /\ snap' \in [Threads -> SUBSET Buffers] /\ snap'[t] = {b}
      /\ \A u \in Threads \ {t} : snap'[u] = snap[u]
  BY <1>e, <1>t, Locals
<1>1. TypeOK'
  BY <1>u, <1>p, <1>s DEF IInv, TypeOK, TypedPC
<1>2. CallsKept
  BY <1>u, <1>g, <1>p, Names DEF CallsKept, InCall
<1>3. RequestsKept
  BY <1>u, <1>p, <1>t, Names DEF RequestsKept
<1>4. RefExact' /\ ObjectsOK' /\ Settled /\ \A x \in Clients : MappingOK(x)'
  BY <1>u, <1>2, <1>3, RequestsSame, QuietObjects
<1>5. StepOf(t)
  BY <1>u, <1>p, <1>s DEF StepOf, SameLocals, Contents
<1>6. ThreadOK(t)'
  <2>1. BufferOK(t)' /\ GroupOK(t)'
    BY <1>u, <1>p, <1>g, Names DEF BufferOK, GroupOK, DestroysBuffer, DestroysGroup, Dtors
  <2>2. RequestOK(t)' /\ SnapOK(t)'
    BY <1>u, <1>p, <1>g, <1>s DEF RequestOK, SnapOK
  <2> QED
    BY <2>1, <2>2 DEF ThreadOK
<1>7. \A u \in Threads \ {t} : Exclusive(t, u)' /\ Exclusive(u, t)'
  BY <1>t, <1>5, <1>p, <1>u, Alone DEF DestroysBuffer, DestroysGroup, Dtors
<1>8. ReqsOK'
  BY <1>u DEF IInv, ReqsOK
<1>9. NotReplaced'
  BY <1>t, <1>5, <1>u, <1>p, <1>g, NoNewUse DEF StepOf
<1> QED
  BY <1>t, <1>1, <1>4, <1>5, <1>6, <1>7, <1>8, <1>9, AllThreads, InvParts

\* xrp_run_command_ioctl by the application: it owns the group.
LEMMA RunIoctlStep ==
  ASSUME IInv, NEW t \in Clients, NEW g \in Groups, RunIoctl(t, g)
  PROVE  IInv'
<1>u. UNCHANGED <<ref, mem, own, mapped, storage, slots, buf, at, cmd, snap, req, reqGroup>>
  BY DEF RunIoctl, objVars, cliVars, reqVars
<1>t. t \in Threads /\ TypeOK
  BY Names DEF IInv
<1>g. /\ pc[t] = "idle" /\ g \in own[t] /\ cmd[t] = NULL /\ snap[t] = {}
      /\ ReplaceInFlight \/ ~BeingChanged(g)
  BY <1>t, TheThreads DEF RunIoctl, RequestOK, SnapOK
<1>e. Goto(t, "snapshot") /\ grp' = [grp EXCEPT ![t] = g]
  BY DEF RunIoctl
<1>p. TypedPC' /\ pc'[t] = "snapshot" /\ \A u \in Threads \ {t} : pc'[u] = pc[u]
  BY <1>e, <1>t, Names, Moves DEF ClientPCs
<1>s. /\ grp' \in [Threads -> Groups \cup {NULL}] /\ grp'[t] = g
      /\ \A u \in Threads \ {t} : grp'[u] = grp[u]
  BY <1>e, <1>t, Locals
<1>1. TypeOK'
  BY <1>u, <1>p, <1>s DEF IInv, TypeOK, TypedPC
<1>2. CallsKept
  BY <1>u, <1>g, <1>p, Names DEF CallsKept, InCall
<1>3. RequestsKept
  BY <1>u, <1>p, <1>t, Names DEF RequestsKept
<1>4. RefExact' /\ ObjectsOK' /\ Settled /\ \A x \in Clients : MappingOK(x)'
  BY <1>u, <1>2, <1>3, RequestsSame, QuietObjects
<1>5. StepOf(t)
  BY <1>u, <1>p, <1>s DEF StepOf, SameLocals, Contents
<1>6. ThreadOK(t)'
  <2>1. BufferOK(t)' /\ GroupOK(t)'
    BY <1>u, <1>p, <1>g, <1>s, Names DEF BufferOK, GroupOK, DestroysBuffer, DestroysGroup, Dtors
  <2>2. RequestOK(t)' /\ SnapOK(t)'
    BY <1>u, <1>p, <1>g, <1>s DEF RequestOK, SnapOK
  <2> QED
    BY <2>1, <2>2 DEF ThreadOK
<1>7. \A u \in Threads \ {t} : Exclusive(t, u)' /\ Exclusive(u, t)'
  BY <1>t, <1>5, <1>p, <1>u, Alone DEF DestroysBuffer, DestroysGroup, Dtors
<1>8. ReqsOK'
  BY <1>u DEF IInv, ReqsOK
<1>9. NotReplaced'
  <2> SUFFICES ASSUME ~ReplaceInFlight, NEW x \in Groups, InFlight(x)', BeingChanged(x)'
               PROVE  FALSE
    BY DEF NotReplaced
  <2>1. BeingChanged(x)
    BY <1>p, <1>s, Names DEF BeingChanged
  <2>2. InFlight(x) \/ x = g
    <3>1. ASSUME NEW u \in Threads, grp'[u] = x, pc'[u] \in {"snapshot", "ioctl"}
          PROVE  InFlight(x) \/ x = g
      BY <3>1, <1>p, <1>s DEF InFlight
    <3> QED
      BY <3>1, <1>u DEF InFlight
  <2> QED
    BY <2>1, <2>2, <1>g DEF IInv, NotReplaced
<1> QED
  BY <1>t, <1>1, <1>4, <1>5, <1>6, <1>7, <1>8, <1>9, AllThreads, InvParts

\* The addresses are copied: the group keeps its buffers.
LEMMA SnapshotStep ==
  ASSUME IInv, NEW t \in Threads, Snapshot(t)
  PROVE  IInv'
<1>u. UNCHANGED <<ref, mem, own, mapped, storage, slots, buf, grp, at, cmd, req, reqGroup>>
  BY DEF Snapshot, objVars, cliVars, reqVars
<1>t. TypeOK
  BY DEF IInv
<1>g. /\ pc[t] = "snapshot" /\ grp[t] \in Groups
      /\ BufferOK(t) /\ GroupOK(t) /\ RequestOK(t)
  BY Names, TheThreads DEF Snapshot, GroupOK
<1>e. Goto(t, "ioctl") /\ snap' = [snap EXCEPT ![t] = Contents(grp[t])]
  BY DEF Snapshot
<1>p. TypedPC' /\ pc'[t] = "ioctl" /\ \A u \in Threads \ {t} : pc'[u] = pc[u]
  BY <1>e, <1>t, Moves DEF ClientPCs, WorkerPCs
<1>s. /\ snap' \in [Threads -> SUBSET Buffers] /\ snap'[t] = Contents(grp[t])
      /\ \A u \in Threads \ {t} : snap'[u] = snap[u]
  <2>1. Contents(grp[t]) \subseteq Buffers
    BY <1>g, SlotLive DEF Contents
  <2> QED
    BY <2>1, <1>e, Locals
<1>1. TypeOK'
  BY <1>u, <1>p, <1>s DEF IInv, TypeOK, TypedPC
<1>2. CallsKept
  BY <1>u, <1>g, <1>p, Names DEF CallsKept, InCall
<1>3. RequestsKept
  BY <1>u, <1>p, <1>g, Names DEF RequestsKept, AtGroup
<1>4. RefExact' /\ ObjectsOK' /\ Settled /\ \A x \in Clients : MappingOK(x)'
  BY <1>u, <1>2, <1>3, RequestsSame, QuietObjects
<1>5. StepOf(t)
  BY <1>u, <1>p, <1>s DEF StepOf, SameLocals, Contents
<1>6. ThreadOK(t)'
  <2>1. BufferOK(t)'
    BY <1>u, <1>p, <1>g DEF BufferOK, DestroysBuffer
  <2>2. GroupOK(t)'
    BY <1>u, <1>p, <1>g DEF GroupOK, DestroysBuffer, DestroysGroup, Dtors
  <2>3. RequestOK(t)'
    BY <1>u, <1>p, <1>g DEF RequestOK
  <2>4. SnapOK(t)'
    BY <1>u, <1>p, <1>g, <1>s, Names DEF SnapOK, Contents
  <2> QED
    BY <2>1, <2>2, <2>3, <2>4 DEF ThreadOK
<1>7. \A u \in Threads \ {t} : Exclusive(t, u)' /\ Exclusive(u, t)'
  BY <1>5, <1>p, <1>u, Alone DEF DestroysBuffer, DestroysGroup, Dtors
<1>8. ReqsOK'
  BY <1>u DEF IInv, ReqsOK
<1>9. NotReplaced'
  BY <1>5, <1>u, <1>p, <1>g, NoNewUse DEF StepOf, InFlight
<1> QED
  BY <1>1, <1>4, <1>5, <1>6, <1>7, <1>8, <1>9, AllThreads, InvParts

\* The ioctl returns.
LEMMA IoctlStep ==
  ASSUME IInv, NEW t \in Threads, Ioctl(t)
  PROVE  IInv'
<1>u. UNCHANGED <<ref, mem, own, mapped, storage, slots, buf, at, cmd, req, reqGroup>>
  BY DEF Ioctl, objVars, cliVars, reqVars
<1>t. TypeOK
  BY DEF IInv
<1>g. /\ pc[t] = "ioctl" /\ BufferOK(t) /\ GroupOK(t) /\ RequestOK(t)
      /\ t \in Workers => grp[t] # NULL
  BY Names, TheThreads DEF Ioctl, GroupOK
<1>e. /\ Goto(t, IF t \in Workers THEN "drop" ELSE "idle")
      /\ grp' = IF t \in Workers THEN grp ELSE [grp EXCEPT ![t] = NULL]
      /\ snap' = [snap EXCEPT ![t] = {}]
  BY DEF Ioctl
<1>p. /\ TypedPC' /\ \A u \in Threads \ {t} : pc'[u] = pc[u]
      /\ pc'[t] = IF t \in Workers THEN "drop" ELSE "idle"
  BY <1>e, <1>t, Names, Moves DEF ClientPCs, WorkerPCs
<1>s. /\ snap' \in [Threads -> SUBSET Buffers] /\ snap'[t] = {}
      /\ \A u \in Threads \ {t} : snap'[u] = snap[u]
      /\ grp' \in [Threads -> Groups \cup {NULL}]
      /\ grp'[t] = IF t \in Workers THEN grp[t] ELSE NULL
      /\ \A u \in Threads \ {t} : grp'[u] = grp[u]
  BY <1>e, Locals
<1>1. TypeOK'
  BY <1>u, <1>p, <1>s DEF IInv, TypeOK, TypedPC
<1>2. CallsKept
  BY <1>u, <1>g, <1>p, Names DEF CallsKept, InCall
<1>3. RequestsKept
  BY <1>u, <1>p, <1>g, Names DEF RequestsKept, AtGroup
<1>4. RefExact' /\ ObjectsOK' /\ Settled /\ \A x \in Clients : MappingOK(x)'
  BY <1>u, <1>2, <1>3, RequestsSame, QuietObjects
<1>5. StepOf(t)
  BY <1>u, <1>p, <1>s DEF StepOf, SameLocals, Contents
<1>6. ThreadOK(t)'
  <2>1. BufferOK(t)'
    BY <1>u, <1>p, <1>g DEF BufferOK, DestroysBuffer
  <2>2. GroupOK(t)'
    BY <1>u, <1>p, <1>g, <1>s, Names DEF GroupOK, DestroysBuffer, DestroysGroup, Dtors
  <2>3. RequestOK(t)'
    BY <1>u, <1>p, <1>g, Names DEF RequestOK
  <2>4. SnapOK(t)'
    BY <1>p, <1>s DEF SnapOK
  <2> QED
    BY <2>1, <2>2, <2>3, <2>4 DEF ThreadOK
<1>7. \A u \in Threads \ {t} : Exclusive(t, u)' /\ Exclusive(u, t)'
  BY <1>5, <1>p, <1>u, Alone DEF DestroysBuffer, DestroysGroup, Dtors
<1>8. ReqsOK'
  BY <1>u DEF IInv, ReqsOK
<1>9. NotReplaced'
  BY <1>5, <1>u, <1>p, NoNewUse DEF StepOf
<1> QED
  BY <1>1, <1>4, <1>5, <1>6, <1>7, <1>8, <1>9, AllThreads, InvParts

\* The request is in the queue.
LEMMA PushStep ==
  ASSUME IInv, NEW t \in Clients, Push(t)
  PROVE  IInv'
<1>u. UNCHANGED <<ref, mem, own, mapped, storage, slots, buf, grp, at, snap, reqGroup>>
  BY DEF Push, objVars, cliVars
<1>t. t \in Threads /\ TypeOK
  BY Names DEF IInv
<1>c. PICK c : c = cmd[t]
  OBVIOUS
<1>g. pc[t] = "push" /\ c \in Cmds /\ req[c] = "made" /\ grp[t] = NULL /\ snap[t] = {}
  BY <1>c, <1>t, TheThreads DEF Push, GroupOK, RequestOK, SnapOK
<1>e. Goto(t, "idle") /\ cmd' = [cmd EXCEPT ![t] = NULL] /\ req' = [req EXCEPT ![c] = "queued"]
  BY <1>c DEF Push
<1>p. TypedPC' /\ pc'[t] = "idle" /\ \A u \in Threads \ {t} : pc'[u] = pc[u]
  BY <1>e, <1>t, Names, Moves DEF ClientPCs
<1>s. /\ cmd' \in [Threads -> Cmds \cup {NULL}] /\ cmd'[t] = NULL
      /\ \A u \in Threads \ {t} : cmd'[u] = cmd[u]
      /\ req' \in [Cmds -> {"none", "made", "queued", "running", "done"}]
      /\ req'[c] = "queued" /\ \A d \in Cmds \ {c} : req'[d] = req[d]
  BY <1>e, <1>t, <1>g, Locals
<1>1. TypeOK'
  BY <1>u, <1>p, <1>s DEF IInv, TypeOK, TypedPC
<1>2. CallsKept
  BY <1>u, <1>g, <1>p, Names DEF CallsKept, InCall
<1>3. RequestsKept
  BY <1>u, <1>p, <1>s, <1>g, <1>t, Names DEF RequestsKept
<1>4. RefExact' /\ ObjectsOK' /\ Settled /\ \A x \in Clients : MappingOK(x)'
  BY <1>u, <1>2, <1>3, RequestsSame, QuietObjects
<1>5. StepOf(t)
  BY <1>u, <1>c, <1>p, <1>s DEF StepOf, SameLocals, Contents
<1>6. ThreadOK(t)'
  <2>1. BufferOK(t)' /\ GroupOK(t)'
    BY <1>u, <1>p, <1>g, Names DEF BufferOK, GroupOK, DestroysBuffer, DestroysGroup, Dtors
  <2>2. RequestOK(t)' /\ SnapOK(t)'
    BY <1>u, <1>p, <1>g, <1>s DEF RequestOK, SnapOK
  <2> QED
    BY <2>1, <2>2 DEF ThreadOK
<1>7. \A u \in Threads \ {t} : Exclusive(t, u)' /\ Exclusive(u, t)'
  BY <1>t, <1>5, <1>p, <1>s, Alone DEF DestroysBuffer, DestroysGroup, Dtors
<1>8. ReqsOK'
  BY <1>u, <1>s, <1>g DEF IInv, ReqsOK
<1>9. NotReplaced'
  BY <1>t, <1>5, <1>u, <1>p, <1>s, <1>g, NoNewUse DEF StepOf
<1> QED
  BY <1>t, <1>1, <1>4, <1>5, <1>6, <1>7, <1>8, <1>9, AllThreads, InvParts

\* xrp_request_process begins: the reference to the group is the worker's.
LEMMA TakeStep ==
  ASSUME IInv, NEW w \in Workers, NEW c \in Cmds, Take(w, c)
  PROVE  IInv'
<1>u. UNCHANGED <<ref, mem, own, mapped, storage, slots, buf, at, snap, reqGroup>>
  BY DEF Take, objVars, cliVars
<1>t. w \in Threads /\ w \notin Clients /\ TypeOK
  BY Names DEF IInv
<1>g. /\ pc[w] = "idle" /\ req[c] = "queued" /\ cmd[w] = NULL /\ snap[w] = {}
      /\ reqGroup[c] \in Groups
  BY <1>t, TheThreads DEF Take, RequestOK, SnapOK, IInv, TypeOK
<1>e. /\ Goto(w, "snapshot") /\ cmd' = [cmd EXCEPT ![w] = c]
      /\ req' = [req EXCEPT ![c] = "running"] /\ grp' = [grp EXCEPT ![w] = reqGroup[c]]
  BY DEF Take
<1>p. TypedPC' /\ pc'[w] = "snapshot" /\ \A u \in Threads \ {w} : pc'[u] = pc[u]
  BY <1>e, <1>t, Names, Moves DEF WorkerPCs
<1>s. /\ cmd' \in [Threads -> Cmds \cup {NULL}] /\ cmd'[w] = c
      /\ \A u \in Threads \ {w} : cmd'[u] = cmd[u]
      /\ grp' \in [Threads -> Groups \cup {NULL}] /\ grp'[w] = reqGroup[c]
      /\ \A u \in Threads \ {w} : grp'[u] = grp[u]
      /\ req' \in [Cmds -> {"none", "made", "queued", "running", "done"}]
      /\ req'[c] = "running" /\ \A d \in Cmds \ {c} : req'[d] = req[d]
  BY <1>e, <1>t, <1>g, Locals
<1>1. TypeOK'
  BY <1>u, <1>p, <1>s DEF IInv, TypeOK, TypedPC
<1>2. CallsKept
  BY <1>u, <1>t, <1>p, Names DEF CallsKept
<1>3. ASSUME NEW g PROVE RequestsOf(g)' = RequestsOf(g)
  <2> SUFFICES ASSUME NEW d \in Cmds PROVE HoldsGroup(d, g)' <=> HoldsGroup(d, g)
    BY DEF RequestsOf
  <2>1. CASE d = c
    BY <2>1, <1>u, <1>p, <1>s, <1>g DEF HoldsGroup
  <2>2. CASE d # c
    <3>1. \A v \in Workers : cmd'[v] = d <=> cmd[v] = d
      BY <2>2, <1>s, <1>g, Names
    <3>2. \A v \in Workers : cmd[v] = d => pc'[v] = pc[v]
      BY <1>p, <1>g, Names
    <3> QED
      BY <2>2, <3>1, <3>2, <1>u, <1>s DEF HoldsGroup
  <2> QED
    BY <2>1, <2>2
<1>4. RefExact' /\ ObjectsOK' /\ Settled /\ \A x \in Clients : MappingOK(x)'
  BY <1>u, <1>2, <1>3, QuietObjects
<1>5. StepOf(w)
  BY <1>u, <1>g, <1>p, <1>s, <1>t DEF StepOf, SameLocals, Contents
<1>6. ThreadOK(w)'
  <2>1. BufferOK(w)' /\ GroupOK(w)'
    BY <1>u, <1>p, <1>g, <1>s, <1>t, Names DEF BufferOK, GroupOK, DestroysBuffer, DestroysGroup, Dtors
  <2>2. RequestOK(w)' /\ SnapOK(w)'
    BY <1>u, <1>p, <1>g, <1>s, <1>t, Names DEF RequestOK, SnapOK
  <2> QED
    BY <2>1, <2>2 DEF ThreadOK
<1>7. \A u \in Threads \ {w} : Exclusive(w, u)' /\ Exclusive(u, w)'
  BY <1>t, <1>g, <1>5, <1>p, <1>s, Alone DEF DestroysBuffer, DestroysGroup, Dtors
<1>8. ReqsOK'
  BY <1>u, <1>s, <1>g DEF IInv, ReqsOK
<1>9. NotReplaced'
  <2>1. InFlight(grp'[w])
    BY <1>s, <1>g DEF InFlight
  <2> QED
    BY <2>1, <1>t, <1>5, <1>u, <1>p, <1>s, <1>g, NoNewUse DEF StepOf
<1> QED
  BY <1>t, <1>1, <1>4, <1>5, <1>6, <1>7, <1>8, <1>9, AllThreads, InvParts

\* xrp_request_process ends.
LEMMA SignalStep ==
  ASSUME IInv, NEW w \in Workers, Signal(w)
  PROVE  IInv'
<1>u. UNCHANGED <<ref, mem, own, mapped, storage, slots, buf, grp, at, snap, reqGroup>>
  BY DEF Signal, objVars, cliVars
<1>t. w \in Threads /\ w \notin Clients /\ TypeOK
  BY Names DEF IInv
<1>c. PICK c : c = cmd[w]
  OBVIOUS
<1>g. pc[w] = "signal" /\ c \in Cmds /\ req[c] = "running" /\ grp[w] = NULL /\ snap[w] = {}
  BY <1>c, <1>t, TheThreads DEF Signal, GroupOK, RequestOK, SnapOK
<1>e. Goto(w, "idle") /\ cmd' = [cmd EXCEPT ![w] = NULL] /\ req' = [req EXCEPT ![c] = "done"]
  BY <1>c DEF Signal
<1>p. TypedPC' /\ pc'[w] = "idle" /\ \A u \in Threads \ {w} : pc'[u] = pc[u]
  BY <1>e, <1>t, Names, Moves DEF WorkerPCs
<1>s. /\ cmd' \in [Threads -> Cmds \cup {NULL}] /\ cmd'[w] = NULL
      /\ \A u \in Threads \ {w} : cmd'[u] = cmd[u]
      /\ req' \in [Cmds -> {"none", "made", "queued", "running", "done"}]
      /\ req'[c] = "done" /\ \A d \in Cmds \ {c} : req'[d] = req[d]
  BY <1>e, <1>t, <1>g, Locals
<1>1. TypeOK'
  BY <1>u, <1>p, <1>s DEF IInv, TypeOK, TypedPC
<1>2. CallsKept
  BY <1>u, <1>t, <1>p, Names DEF CallsKept
<1>3. RequestsKept
  BY <1>u, <1>p, <1>s, <1>g, <1>t, Names DEF RequestsKept, AtGroup
<1>4. RefExact' /\ ObjectsOK' /\ Settled /\ \A x \in Clients : MappingOK(x)'
  BY <1>u, <1>2, <1>3, RequestsSame, QuietObjects
<1>5. StepOf(w)
  BY <1>u, <1>c, <1>p, <1>s, <1>t DEF StepOf, SameLocals, Contents
<1>6. ThreadOK(w)'
  <2>1. BufferOK(w)' /\ GroupOK(w)'
    BY <1>u, <1>p, <1>g, <1>t, Names DEF BufferOK, GroupOK, DestroysBuffer, DestroysGroup, Dtors
  <2>2. RequestOK(w)' /\ SnapOK(w)'
    BY <1>u, <1>p, <1>g, <1>s, <1>t DEF RequestOK, SnapOK
  <2> QED
    BY <2>1, <2>2 DEF ThreadOK
<1>7. \A u \in Threads \ {w} : Exclusive(w, u)' /\ Exclusive(u, w)'
  BY <1>t, <1>5, <1>p, <1>s, Alone DEF DestroysBuffer, DestroysGroup, Dtors
<1>8. ReqsOK'
  BY <1>u, <1>s, <1>g DEF IInv, ReqsOK
<1>9. NotReplaced'
  BY <1>t, <1>5, <1>u, <1>p, <1>s, <1>g, NoNewUse DEF StepOf
<1> QED
  BY <1>t, <1>1, <1>4, <1>5, <1>6, <1>7, <1>8, <1>9, AllThreads, InvParts

-----------------------------------------------------------------------------
(* A call that enters or leaves a place where it holds a buffer.           *)

LEMMA HoldersEnter ==
  ASSUME NEW b \in Buffers, NEW t, OwnersOf(b)' = OwnersOf(b), SlotsOf(b)' = SlotsOf(b),
         MappersOf(b)' = MappersOf(b), CallsOn(b)' = CallsOn(b) \cup {t}
  PROVE  Holders(b)' = Holders(b) \cup {<<"in", t>>}
<1>1. {"in"} \X (CallsOn(b) \cup {t}) = ({"in"} \X CallsOn(b)) \cup {<<"in", t>>}
  OBVIOUS
<1> QED
  BY <1>1 DEF Holders, BufferHolders

LEMMA HoldersLeave ==
  ASSUME NEW b \in Buffers, NEW t, OwnersOf(b)' = OwnersOf(b), SlotsOf(b)' = SlotsOf(b),
         MappersOf(b)' = MappersOf(b), CallsOn(b)' = CallsOn(b) \ {t}
  PROVE  Holders(b)' = Holders(b) \ {<<"in", t>>}
<1>1. {"in"} \X (CallsOn(b) \ {t}) = ({"in"} \X CallsOn(b)) \ {<<"in", t>>}
  OBVIOUS
<1> QED
  BY <1>1 DEF Holders, BufferHolders

\* xrp_enqueue_command: the request is a holder of its group.
LEMMA EnqueueStep ==
  ASSUME IInv, NEW t \in Clients, NEW c \in Cmds, NEW g \in Groups, Enqueue(t, c, g)
  PROVE  IInv'
<1>u. UNCHANGED <<mem, own, mapped, storage, slots, buf, grp, at, snap>>
  BY DEF Enqueue, cliVars
<1>t. t \in Threads /\ TypeOK
  BY Names DEF IInv
<1>g. /\ pc[t] = "idle" /\ req[c] = "none" /\ grp[t] = NULL /\ snap[t] = {}
      /\ mem[g] = "live" /\ g \in Objects
      /\ ReplaceInFlight \/ ~BeingChanged(g)
  BY <1>t, OwnedLive, TheThreads, Names DEF Enqueue, GroupOK, SnapOK
<1>e. /\ Goto(t, "push") /\ cmd' = [cmd EXCEPT ![t] = c] /\ Inc(g)
      /\ req' = [req EXCEPT ![c] = "made"] /\ reqGroup' = [reqGroup EXCEPT ![c] = g]
  BY DEF Enqueue
<1>r. ref \in [Objects -> Nat] /\ ref' = [ref EXCEPT ![g] = @ + 1]
  BY <1>e, Locals DEF Inc
<1>p. TypedPC' /\ pc'[t] = "push" /\ \A u \in Threads \ {t} : pc'[u] = pc[u]
  BY <1>e, <1>t, Names, Moves DEF ClientPCs
<1>s. /\ cmd' \in [Threads -> Cmds \cup {NULL}] /\ cmd'[t] = c
      /\ \A u \in Threads \ {t} : cmd'[u] = cmd[u]
      /\ req' \in [Cmds -> {"none", "made", "queued", "running", "done"}]
      /\ req'[c] = "made" /\ \A d \in Cmds \ {c} : req'[d] = req[d]
      /\ reqGroup' \in [Cmds -> Groups \cup {NULL}]
      /\ reqGroup'[c] = g /\ \A d \in Cmds \ {c} : reqGroup'[d] = reqGroup[d]
  BY <1>e, <1>t, Locals
<1>2. CallsKept /\ AllocsKept
  BY <1>u, <1>g, <1>p, Names DEF CallsKept, AllocsKept, InCall
<1>3. ObjectsOK' /\ Settled /\ ref' \in [Objects -> Nat]
  BY <1>u, <1>g, <1>e, <1>2, RetainObjects
<1>1. TypeOK'
  BY <1>u, <1>p, <1>s, <1>3 DEF IInv, TypeOK, TypedPC
<1>4. RefExact'
  <2>1. \A w \in Workers : cmd[w] # c
    BY <1>g, Names, TheThreads DEF RequestOK
  <2>2. \A w \in Workers : pc'[w] = pc[w] /\ cmd'[w] = cmd[w]
    BY <1>p, <1>s, Names
  <2>3. \A x : RequestsOf(x)' = IF x = g THEN RequestsOf(x) \cup {c} ELSE RequestsOf(x)
    <3>1. ASSUME NEW x, NEW d \in Cmds \ {c} PROVE HoldsGroup(d, x)' <=> HoldsGroup(d, x)
      BY <2>2, <1>s DEF HoldsGroup
    <3>2. ASSUME NEW x PROVE ~HoldsGroup(c, x) /\ (HoldsGroup(c, x)' <=> x = g)
      BY <2>1, <2>2, <1>s, <1>g DEF HoldsGroup
    <3> QED
      BY <3>1, <3>2 DEF RequestsOf
  <2>4. c \notin RequestsOf(g)
    BY <2>1, <1>g DEF RequestsOf, HoldsGroup
  <2>5. \A x : /\ OwnersOf(x)' = OwnersOf(x) /\ SlotsOf(x)' = SlotsOf(x)
               /\ MappersOf(x)' = MappersOf(x) /\ CallsOn(x)' = CallsOn(x)
    BY <1>u, <1>2, CallsSame DEF OwnersOf, SlotsOf, MappersOf, MappedBuffers
  <2>6. WithStorage' = WithStorage /\ Allocating' = Allocating
    BY <1>u, <1>2, CallsSame DEF WithStorage
  <2>7. ASSUME NEW o \in Objects PROVE Counted(o)'
    <3>1. Counted(o)
      BY DEF IInv, RefExact, Counted
    <3>2. CASE o = g
      <4>1. <<"req", c>> \notin Holders(o)
        BY <3>2, <2>4, HolderKinds
      <4>2. RequestsOf(o)' = RequestsOf(o) \cup {c}
        BY <2>3, <3>2
      <4>3. {"req"} \X (RequestsOf(o) \cup {c}) = ({"req"} \X RequestsOf(o)) \cup {<<"req", c>>}
        OBVIOUS
      <4>4. Holders(o)' = Holders(o) \cup {<<"req", c>>}
        BY <4>2, <4>3, <2>5, <3>2, Names DEF Holders, GroupHolders
      <4>5. ref'[o] = ref[o] + 1
        BY <1>r, <3>2
      <4> QED
        BY <3>1, <4>1, <4>4, <4>5, AddHolder
    <3>3. CASE o # g
      <4>1. OthersSame(o)
        BY <2>3, <2>5, <2>6, <3>3 DEF OthersSame
      <4>2. Holders(o)' = Holders(o) /\ ref'[o] = ref[o]
        BY <4>1, <2>5, <1>r, <3>3, HoldersSame
      <4> QED
        BY <3>1, <4>2, SameCount
    <3> QED
      BY <3>2, <3>3
  <2> QED
    BY <2>7 DEF RefExact, Counted
<1>5. StepOf(t)
  BY <1>u, <1>g, <1>p, <1>s DEF StepOf, SameLocals, Contents
<1>6. ThreadOK(t)'
  <2>1. BufferOK(t)' /\ GroupOK(t)'
    BY <1>u, <1>p, <1>g, Names DEF BufferOK, GroupOK, DestroysBuffer, DestroysGroup, Dtors
  <2>2. RequestOK(t)' /\ SnapOK(t)'
    BY <1>u, <1>p, <1>g, <1>s, Names DEF RequestOK, SnapOK
  <2> QED
    BY <2>1, <2>2 DEF ThreadOK
<1>7. \A u \in Threads \ {t} : Exclusive(t, u)' /\ Exclusive(u, t)'
  BY <1>t, <1>5, <1>p, <1>s, <1>g, Alone DEF DestroysBuffer, DestroysGroup, Dtors
<1>8. ReqsOK'
  BY <1>s, Names DEF IInv, ReqsOK
<1>9. NotReplaced'
  <2> SUFFICES ASSUME ~ReplaceInFlight, NEW x \in Groups, InFlight(x)', BeingChanged(x)'
               PROVE  FALSE
    BY DEF NotReplaced
  <2>1. BeingChanged(x)
    BY <1>u, <1>p, Names DEF BeingChanged
  <2>2. InFlight(x) \/ x = g
    <3>1. ASSUME NEW d \in Cmds, reqGroup'[d] = x, req'[d] \in {"made", "queued", "running"}
          PROVE  InFlight(x) \/ x = g
      BY <3>1, <1>s DEF InFlight
    <3>2. ASSUME NEW u \in Threads, grp'[u] = x, pc'[u] \in {"snapshot", "ioctl"}
          PROVE  InFlight(x)
      BY <3>2, <1>u, <1>p DEF InFlight
    <3> QED
      BY <3>1, <3>2 DEF InFlight
  <2> QED
    BY <2>1, <2>2, <1>g DEF IInv, NotReplaced
<1>10. \A x \in Clients : MappingOK(x)'
  BY <1>u, MappingsSame
<1> QED
  BY <1>t, <1>1, <1>3, <1>4, <1>5, <1>6, <1>7, <1>8, <1>9, <1>10, AllThreads, InvParts

\* xrp_set_buffer_in_group retains the new buffer.
LEMMA SetBufferStep ==
  ASSUME IInv, NEW t \in Clients, NEW g \in Groups, NEW n \in 1 .. MaxSlots, NEW b \in Buffers,
         SetBuffer(t, g, n, b)
  PROVE  IInv'
<1>u. UNCHANGED <<mem, own, mapped, storage, slots, cmd, snap, req, reqGroup>>
  BY DEF SetBuffer, cliVars, reqVars
<1>t. t \in Threads /\ TypeOK
  BY Names DEF IInv
<1>g. /\ pc[t] = "idle" /\ g \in own[t] /\ cmd[t] = NULL /\ snap[t] = {}
      /\ mem[b] = "live" /\ b \in Objects
      /\ ReplaceInFlight \/ ~InFlight(g)
  BY <1>t, OwnedLive, TheThreads DEF SetBuffer, RequestOK, SnapOK
<1>e. /\ Goto(t, "set") /\ buf' = [buf EXCEPT ![t] = b] /\ grp' = [grp EXCEPT ![t] = g]
      /\ at' = [at EXCEPT ![t] = n] /\ Inc(b)
  BY DEF SetBuffer
<1>r. ref \in [Objects -> Nat] /\ ref' = [ref EXCEPT ![b] = @ + 1]
  BY <1>e, Locals DEF Inc
<1>p. TypedPC' /\ pc'[t] = "set" /\ \A u \in Threads \ {t} : pc'[u] = pc[u]
  BY <1>e, <1>t, Names, Moves DEF ClientPCs
<1>s. /\ buf' \in [Threads -> Buffers \cup {NULL}] /\ buf'[t] = b
      /\ \A u \in Threads \ {t} : buf'[u] = buf[u]
      /\ grp' \in [Threads -> Groups \cup {NULL}] /\ grp'[t] = g
      /\ \A u \in Threads \ {t} : grp'[u] = grp[u]
      /\ at' \in [Threads -> Nat]
  BY <1>e, <1>t, Locals, NamesDiffer
<1>2. AllocsKept
  BY <1>s, <1>g, <1>p, Names DEF AllocsKept
<1>3. ObjectsOK' /\ Settled /\ ref' \in [Objects -> Nat]
  BY <1>u, <1>g, <1>e, <1>2, RetainObjects
<1>1. TypeOK'
  BY <1>u, <1>p, <1>s, <1>3 DEF IInv, TypeOK, TypedPC
<1>4. RefExact'
  <2>1. \A x : CallsOn(x)' = IF x = b THEN CallsOn(x) \cup {t} ELSE CallsOn(x)
    BY <1>p, <1>s, <1>g, Names DEF CallsOn
  <2>2. t \notin CallsOn(b)
    BY <1>g DEF CallsOn
  <2>3. \A x : RequestsOf(x)' = RequestsOf(x)
    BY <1>u, <1>p, <1>t, Names, RequestsSame DEF RequestsKept
  <2>5. \A x : /\ OwnersOf(x)' = OwnersOf(x) /\ SlotsOf(x)' = SlotsOf(x)
               /\ MappersOf(x)' = MappersOf(x)
    BY <1>u DEF OwnersOf, SlotsOf, MappersOf, MappedBuffers
  <2>6. WithStorage' = WithStorage /\ Allocating' = Allocating
    BY <1>u, <1>p, <1>g, Names DEF WithStorage, Allocating
  <2>7. ASSUME NEW o \in Objects PROVE Counted(o)'
    <3>1. Counted(o)
      BY DEF IInv, RefExact, Counted
    <3>2. CASE o = b
      <4>1. <<"in", t>> \notin Holders(o)
        BY <3>2, <2>2, HolderKinds
      <4>2. Holders(o)' = Holders(o) \cup {<<"in", t>>}
        BY <3>2, <2>1, <2>5, HoldersEnter
      <4>3. ref'[o] = ref[o] + 1
        BY <1>r, <3>2
      <4> QED
        BY <3>1, <4>1, <4>2, <4>3, AddHolder
    <3>3. CASE o # b
      <4>1. OthersSame(o)
        BY <2>1, <2>3, <2>5, <2>6, <3>3 DEF OthersSame
      <4>2. Holders(o)' = Holders(o) /\ ref'[o] = ref[o]
        BY <4>1, <2>5, <1>r, <3>3, HoldersSame
      <4> QED
        BY <3>1, <4>2, SameCount
    <3> QED
      BY <3>2, <3>3
  <2> QED
    BY <2>7 DEF RefExact, Counted
<1>5. StepOf(t)
  BY <1>u, <1>g, <1>p, <1>s DEF StepOf, SameLocals, Contents
<1>6. ThreadOK(t)'
  <2>1. BufferOK(t)' /\ GroupOK(t)'
    BY <1>u, <1>p, <1>g, <1>s, Names DEF BufferOK, GroupOK, DestroysBuffer, DestroysGroup, Dtors
  <2>2. RequestOK(t)' /\ SnapOK(t)'
    BY <1>u, <1>p, <1>g, <1>s, Names DEF RequestOK, SnapOK
  <2> QED
    BY <2>1, <2>2 DEF ThreadOK
<1>7. \A u \in Threads \ {t} : Exclusive(t, u)' /\ Exclusive(u, t)'
  BY <1>t, <1>5, <1>p, <1>u, <1>g, Alone DEF DestroysBuffer, DestroysGroup, Dtors
<1>8. ReqsOK'
  BY <1>u DEF IInv, ReqsOK
<1>9. NotReplaced'
  <2> SUFFICES ASSUME ~ReplaceInFlight, NEW x \in Groups, InFlight(x)', BeingChanged(x)'
               PROVE  FALSE
    BY DEF NotReplaced
  <2>1. InFlight(x)
    BY <1>u, <1>p, <1>s DEF InFlight
  <2>2. BeingChanged(x) \/ x = g
    BY <1>p, <1>s, Names DEF BeingChanged
  <2> QED
    BY <2>1, <2>2, <1>g DEF IInv, NotReplaced
<1>10. \A x \in Clients : MappingOK(x)'
  BY <1>u, MappingsSame
<1> QED
  BY <1>t, <1>1, <1>3, <1>4, <1>5, <1>6, <1>7, <1>8, <1>9, <1>10, AllThreads, InvParts

-----------------------------------------------------------------------------
(* Making a device buffer.                                                 *)

LEMMA DeviceEnter ==
  ASSUME NEW t, OwnersOf(Device)' = OwnersOf(Device), WithStorage' = WithStorage,
         Allocating' = Allocating \cup {t}
  PROVE  Holders(Device)' = Holders(Device) \cup {<<"in", t>>}
<1>1. {"in"} \X (Allocating \cup {t}) = ({"in"} \X Allocating) \cup {<<"in", t>>}
  OBVIOUS
<1> QED
  BY <1>1, Names DEF Holders, DeviceHolders

LEMMA DeviceLeave ==
  ASSUME NEW t, OwnersOf(Device)' = OwnersOf(Device), WithStorage' = WithStorage,
         Allocating' = Allocating \ {t}
  PROVE  Holders(Device)' = Holders(Device) \ {<<"in", t>>}
<1>1. {"in"} \X (Allocating \ {t}) = ({"in"} \X Allocating) \ {<<"in", t>>}
  OBVIOUS
<1> QED
  BY <1>1, Names DEF Holders, DeviceHolders

\* xrp_impl_create_device_buffer retains the device and asks the driver.
LEMMA CreateDeviceBufferStep ==
  ASSUME IInv, NEW t \in Clients, NEW b \in Buffers, CreateDeviceBuffer(t, b)
  PROVE  IInv'
<1>u. UNCHANGED <<own, mapped, storage, slots, grp, at, cmd, snap, req, reqGroup>>
  BY DEF CreateDeviceBuffer, cliVars, reqVars
<1>t. t \in Threads /\ TypeOK
  BY Names DEF IInv
<1>g. /\ pc[t] = "idle" /\ mem[b] = "none" /\ b \notin HostBuffers /\ Device \in own[t]
      /\ grp[t] = NULL /\ cmd[t] = NULL /\ snap[t] = {}
      /\ mem[Device] = "live" /\ b \in Objects /\ b # Device /\ Device \in Objects
  <2>1. pc[t] = "idle" /\ mem[b] = "none" /\ b \notin HostBuffers /\ Device \in own[t]
    BY DEF CreateDeviceBuffer
  <2>2. mem[Device] = "live"
    BY <2>1, OwnedLive
  <2>3. grp[t] = NULL /\ cmd[t] = NULL /\ snap[t] = {}
    BY <2>1, <1>t, TheThreads DEF GroupOK, RequestOK, SnapOK
  <2> QED
    BY <2>1, <2>2, <2>3, Names
<1>h. ref[b] = 0 /\ Holders(b) = {}
  BY <1>g, Unheld
<1>e. /\ Goto(t, "alloc") /\ buf' = [buf EXCEPT ![t] = b]
      /\ ref' = [ref EXCEPT ![b] = 1, ![Device] = @ + 1]
      /\ mem' = [mem EXCEPT ![b] = "made"]
  BY DEF CreateDeviceBuffer
<1>r. /\ ref \in [Objects -> Nat] /\ ref' \in [Objects -> Nat]
      /\ ref'[b] = 1 /\ ref'[Device] = ref[Device] + 1
      /\ \A o \in Objects \ {b, Device} : ref'[o] = ref[o]
      /\ mem \in [Objects -> MemStates] /\ mem' \in [Objects -> MemStates]
      /\ mem'[b] = "made" /\ \A o \in Objects \ {b} : mem'[o] = mem[o]
  BY <1>e, <1>g, Locals DEF MemStates
<1>p. TypedPC' /\ pc'[t] = "alloc" /\ \A u \in Threads \ {t} : pc'[u] = pc[u]
  BY <1>e, <1>t, Names, Moves DEF ClientPCs
<1>s. /\ buf' \in [Threads -> Buffers \cup {NULL}] /\ buf'[t] = b
      /\ \A u \in Threads \ {t} : buf'[u] = buf[u]
  BY <1>e, <1>t, Locals
<1>2. AllocsKept
  BY <1>s, <1>g, <1>p, Names DEF AllocsKept
<1>3. ObjectsOK' /\ Settled
  <2>1. ASSUME NEW o \in Objects PROVE LifeOK(o)'
    <3>1. LifeOK(o) /\ LifeOK(Device)
      BY <1>g DEF IInv
    <3>2. CASE o = b
      BY <3>2, <1>r, <1>p, <1>s DEF LifeOK
    <3>3. CASE o = Device
      BY <3>1, <3>3, <1>r, <1>g DEF LifeOK
    <3>4. CASE o \notin {b, Device}
      BY <3>1, <3>4, <1>r, <1>2 DEF LifeOK, AllocsKept
    <3> QED
      BY <3>2, <3>3, <3>4
  <2>2. DeviceOK'
    BY <1>r, <1>g DEF IInv, DeviceOK
  <2>3. ASSUME NEW x \in Buffers PROVE StorageOK(x)'
    <3>1. StorageOK(x) /\ x \in Objects
      BY Names DEF IInv
    <3> QED
      BY <3>1, <1>r, <1>u, <1>g DEF StorageOK
  <2>4. Settled
    BY <1>r, <1>u, <1>g DEF Settled
  <2> QED
    BY <2>1, <2>2, <2>3, <2>4 DEF ObjectsOK
<1>1. TypeOK'
  BY <1>u, <1>p, <1>s, <1>r DEF IInv, TypeOK, TypedPC
<1>4. RefExact'
  <2>1. \A x : CallsOn(x)' = IF x = b THEN CallsOn(x) \cup {t} ELSE CallsOn(x)
    BY <1>p, <1>s, <1>g, Names DEF CallsOn
  <2>2. Allocating' = Allocating \cup {t} /\ t \notin Allocating
    BY <1>p, <1>g, Names DEF Allocating
  <2>3. \A x : RequestsOf(x)' = RequestsOf(x)
    BY <1>u, <1>p, <1>t, Names, RequestsSame DEF RequestsKept
  <2>5. \A x : /\ OwnersOf(x)' = OwnersOf(x) /\ SlotsOf(x)' = SlotsOf(x)
               /\ MappersOf(x)' = MappersOf(x)
    BY <1>u DEF OwnersOf, SlotsOf, MappersOf, MappedBuffers
  <2>6. WithStorage' = WithStorage
    BY <1>u DEF WithStorage
  <2>7. ASSUME NEW o \in Objects PROVE Counted(o)'
    <3>1. Counted(o)
      BY DEF IInv, RefExact, Counted
    <3>2. CASE o = b
      <4>1. Holders(o)' = {<<"in", t>>}
        BY <1>h, <3>2, <2>1, <2>5, HoldersEnter
      <4> QED
        BY <4>1, <1>r, <3>2, FirstHolder
    <3>3. CASE o = Device
      <4>1. <<"in", t>> \notin Holders(o)
        BY <3>3, <2>2, HolderKinds
      <4>2. Holders(o)' = Holders(o) \cup {<<"in", t>>}
        BY <3>3, <2>2, <2>5, <2>6, DeviceEnter
      <4> QED
        BY <3>1, <3>3, <4>1, <4>2, <1>r, AddHolder
    <3>4. CASE o \notin {b, Device}
      <4>1. OthersSame(o)
        BY <2>1, <2>3, <2>5, <2>6, <3>4 DEF OthersSame
      <4>2. Holders(o)' = Holders(o) /\ ref'[o] = ref[o]
        BY <4>1, <2>5, <1>r, <3>4, HoldersSame
      <4> QED
        BY <3>1, <4>2, SameCount
    <3> QED
      BY <3>2, <3>3, <3>4
  <2> QED
    BY <2>7 DEF RefExact, Counted
<1>5. StepOf(t)
  BY <1>u, <1>g, <1>p, <1>s DEF StepOf, SameLocals, Contents
<1>6. ThreadOK(t)'
  <2>1. BufferOK(t)'
    BY <1>u, <1>p, <1>g, <1>s, <1>r DEF BufferOK, DestroysBuffer
  <2>2. GroupOK(t)'
    BY <1>u, <1>p, <1>g, <1>t, Names DEF GroupOK, DestroysBuffer, DestroysGroup, Dtors
  <2>3. RequestOK(t)' /\ SnapOK(t)'
    BY <1>u, <1>p, <1>g, <1>s, Names DEF RequestOK, SnapOK
  <2> QED
    BY <2>1, <2>2, <2>3 DEF ThreadOK
<1>7. \A u \in Threads \ {t} : Exclusive(t, u)' /\ Exclusive(u, t)'
  BY <1>t, <1>5, <1>p, <1>u, <1>g, Alone DEF DestroysBuffer, DestroysGroup, Dtors
<1>8. ReqsOK'
  BY <1>u DEF IInv, ReqsOK
<1>9. NotReplaced'
  BY <1>t, <1>5, <1>u, <1>p, <1>g, NoNewUse DEF StepOf
<1>10. \A x \in Clients : MappingOK(x)'
  BY <1>u, MappingsSame
<1> QED
  BY <1>t, <1>1, <1>3, <1>4, <1>5, <1>6, <1>7, <1>8, <1>9, <1>10, AllThreads, InvParts

\* What a thread knows that waits for storage.
LEMMA Waiting ==
  ASSUME IInv, NEW t \in Clients, pc[t] = "alloc"
  PROVE  \E b \in Buffers :
           /\ b = buf[t] /\ b \notin HostBuffers /\ b \in Objects /\ b # Device
           /\ mem[b] = "made" /\ ref[b] = 1 /\ storage[b] = NULL
           /\ Holders(b) = {<<"in", t>>}
           /\ <<"in", t>> \in Holders(Device) /\ Device \in own[t] /\ mem[Device] = "live"
           /\ grp[t] = NULL /\ cmd[t] = NULL /\ snap[t] = {}
           /\ \A u \in Clients \ {t} : pc[u] = "alloc" => buf[u] # b
<1>t. t \in Threads
  BY Names
<1>1. PICK b \in Buffers : b = buf[t] /\ b \notin HostBuffers /\ mem[b] = "made" /\ ref[b] = 1
  BY <1>t, TheThreads DEF BufferOK
<1>2. b \in Objects /\ b # Device /\ Device \in own[t]
  BY <1>t, Names, TheThreads DEF BufferOK
<1>3. storage[b] = NULL
  BY <1>1 DEF IInv, StorageOK
<1>4. grp[t] = NULL /\ cmd[t] = NULL /\ snap[t] = {}
  BY <1>t, TheThreads DEF GroupOK, RequestOK, SnapOK
<1>5. <<"in", t>> \in Holders(b) /\ <<"in", t>> \in Holders(Device)
  BY <1>1, HolderKinds DEF CallsOn, Allocating
<1>6. Holders(b) = {<<"in", t>>}
  BY <1>1, <1>2, <1>5, OnlyMaker
<1>7. mem[Device] = "live"
  BY <1>2, OwnedLive
<1>8. ASSUME NEW u \in Clients \ {t}, pc[u] = "alloc", buf[u] = b PROVE FALSE
  <2>1. <<"in", u>> \in Holders(b)
    BY <1>8, HolderKinds DEF CallsOn
  <2> QED
    BY <2>1, <1>6
<1> QED
  BY <1>1, <1>2, <1>3, <1>4, <1>5, <1>6, <1>7, <1>8

\* The storage is there: the buffer and the reference to the device it holds
\* are handed out.
LEMMA AllocatedStep ==
  ASSUME IInv, NEW t \in Clients, Allocated(t)
  PROVE  IInv'
<1>u. UNCHANGED <<ref, mapped, slots, grp, at, cmd, snap, req, reqGroup>>
  BY DEF Allocated, reqVars
<1>t. t \in Threads /\ TypeOK
  BY Names DEF IInv
<1>w. pc[t] = "alloc"
  BY DEF Allocated
<1>g. PICK b \in Buffers :
        /\ b = buf[t] /\ b \notin HostBuffers /\ b \in Objects /\ b # Device
        /\ mem[b] = "made" /\ ref[b] = 1 /\ storage[b] = NULL
        /\ Holders(b) = {<<"in", t>>}
        /\ <<"in", t>> \in Holders(Device) /\ Device \in own[t] /\ mem[Device] = "live"
        /\ grp[t] = NULL /\ cmd[t] = NULL /\ snap[t] = {}
        /\ \A u \in Clients \ {t} : pc[u] = "alloc" => buf[u] # b
  BY <1>w, Waiting
<1>e. /\ Goto(t, "idle") /\ buf' = [buf EXCEPT ![t] = NULL]
      /\ mem' = [mem EXCEPT ![b] = "live"] /\ own' = [own EXCEPT ![t] = @ \cup {b}]
      /\ storage' = [storage EXCEPT ![b] = SizeOf[b] % U32Mod]
  BY <1>g DEF Allocated
<1>r. /\ mem \in [Objects -> MemStates] /\ mem' \in [Objects -> MemStates]
      /\ mem'[b] = "live" /\ \A o \in Objects \ {b} : mem'[o] = mem[o]
      /\ storage' \in [Buffers -> Nat \cup {NULL}]
      /\ storage'[b] = SizeOf[b] % U32Mod /\ \A x \in Buffers \ {b} : storage'[x] = storage[x]
      /\ storage'[b] # NULL
  BY <1>e, <1>g, Locals, StorageSize DEF MemStates
<1>p. TypedPC' /\ pc'[t] = "idle" /\ \A u \in Threads \ {t} : pc'[u] = pc[u]
  BY <1>e, <1>t, Names, Moves DEF ClientPCs
<1>s. /\ buf' \in [Threads -> Buffers \cup {NULL}] /\ buf'[t] = NULL
      /\ \A u \in Threads \ {t} : buf'[u] = buf[u]
      /\ own' \in [Clients -> SUBSET Objects]
      /\ \A u \in Clients : own[u] \subseteq own'[u]
  BY <1>e, <1>t, <1>g, Locals
<1>3. ObjectsOK' /\ SettledBut(t)
  <2>1. ASSUME NEW o \in Objects PROVE LifeOK(o)'
    <3>1. LifeOK(o)
      BY DEF IInv
    <3>2. CASE o = b
      BY <3>2, <1>r, <1>u, <1>g DEF LifeOK
    <3>3. CASE o # b
      <4>1. \A u \in Clients : pc[u] = "alloc" /\ buf[u] = o => pc'[u] = "alloc" /\ buf'[u] = o
        BY <3>3, <1>p, <1>s, <1>g, Names
      <4> QED
        BY <3>1, <3>3, <4>1, <1>r, <1>u DEF LifeOK
    <3> QED
      BY <3>2, <3>3
  <2>2. DeviceOK'
    BY <1>r, <1>g, Names DEF IInv, DeviceOK
  <2>3. ASSUME NEW x \in Buffers PROVE StorageOK(x)'
    <3>1. StorageOK(x) /\ x \in Objects
      BY Names DEF IInv
    <3> QED
      BY <3>1, <1>r, <1>g DEF StorageOK
  <2>4. b \in MadeBy(t)
    BY <1>w, <1>g DEF MadeBy
  <2>5. SettledBut(t)
    BY <2>4, <1>r, <1>u DEF SettledBut
  <2> QED
    BY <2>1, <2>2, <2>3, <2>5 DEF ObjectsOK
<1>1. TypeOK'
  BY <1>u, <1>p, <1>s, <1>r DEF IInv, TypeOK, TypedPC
<1>4. RefExact'
  <2>1. \A x : CallsOn(x)' = IF x = b THEN CallsOn(x) \ {t} ELSE CallsOn(x)
    BY <1>p, <1>s, <1>g, Names DEF CallsOn
  <2>2. Allocating' = Allocating \ {t}
    BY <1>p, <1>w, Names DEF Allocating
  <2>3. \A x : RequestsOf(x)' = RequestsOf(x)
    BY <1>u, <1>p, <1>t, Names, RequestsSame DEF RequestsKept
  <2>4. \A x : OwnersOf(x)' = IF x = b THEN OwnersOf(x) \cup {t} ELSE OwnersOf(x)
    BY <1>e, <1>t, OwnersAdd
  <2>5. \A x : SlotsOf(x)' = SlotsOf(x) /\ MappersOf(x)' = MappersOf(x)
    BY <1>u DEF SlotsOf, MappersOf, MappedBuffers
  <2>6. WithStorage' = WithStorage \cup {b} /\ b \notin WithStorage
    BY <1>r, <1>g DEF WithStorage
  <2>7. ASSUME NEW o \in Objects PROVE Counted(o)'
    <3>1. Counted(o)
      BY DEF IInv, RefExact, Counted
    <3>2. CASE o = b
      <4>1. /\ \A x : x \notin OwnersOf(o) /\ x \notin SlotsOf(o) /\ x \notin MappersOf(o)
            /\ \A x : x \in CallsOn(o) => x = t
        <5>1. \A h : h \in Holders(o) => h = <<"in", t>>
          BY <1>g, <3>2
        <5>2. \A x : /\ <<"own", x>> \notin Holders(o) /\ <<"slot", x>> \notin Holders(o)
                     /\ <<"map", x>> \notin Holders(o)
                     /\ <<"in", x>> \in Holders(o) => x = t
          BY <5>1
        <5> QED
          BY <5>2, <3>2, Names, HolderKinds
      <4>2. /\ OwnersOf(o)' = {t} /\ SlotsOf(o)' = {} /\ MappersOf(o)' = {}
            /\ CallsOn(o)' = {}
        BY <4>1, <3>2, <2>1, <2>4, <2>5
      <4>3. {"own"} \X {t} = {<<"own", t>>} /\ \A k : {k} \X {} = {}
        OBVIOUS
      <4>4. Holders(o)' = {<<"own", t>>}
        BY <4>2, <4>3, <3>2 DEF Holders, BufferHolders
      <4> QED
        BY <4>4, <1>u, <1>g, <3>2, FirstHolder
    <3>3. CASE o = Device
      <4>1. <<"in", t>> \in Holders(o) /\ <<"buf", b>> \notin Holders(o)
        BY <3>3, <2>6, <1>g, HolderKinds
      <4>2. {"in"} \X (Allocating \ {t}) = ({"in"} \X Allocating) \ {<<"in", t>>}
        OBVIOUS
      <4>3. {"buf"} \X (WithStorage \cup {b}) = ({"buf"} \X WithStorage) \cup {<<"buf", b>>}
        OBVIOUS
      <4>4. OwnersOf(o)' = OwnersOf(o)
        BY <2>4, <3>3, <1>g
      <4>5. DeviceHolders' = (DeviceHolders \ {<<"in", t>>}) \cup {<<"buf", b>>}
        BY <4>2, <4>3, <4>4, <3>3, <2>2, <2>6 DEF DeviceHolders
      <4>6. Holders(o)' = (Holders(o) \ {<<"in", t>>}) \cup {<<"buf", b>>}
        BY <4>5, <3>3, Names DEF Holders
      <4> QED
        BY <3>1, <4>1, <4>6, <1>u, MoveHolder
    <3>4. CASE o \notin {b, Device}
      <4>1. OthersSame(o) /\ OwnersOf(o)' = OwnersOf(o)
        BY <2>1, <2>3, <2>4, <2>5, <3>4 DEF OthersSame
      <4>2. Holders(o)' = Holders(o) /\ ref'[o] = ref[o]
        BY <4>1, <1>u, HoldersSame
      <4> QED
        BY <3>1, <4>2, SameCount
    <3> QED
      BY <3>2, <3>3, <3>4
  <2> QED
    BY <2>7 DEF RefExact, Counted
<1>5. StepOf(t)
  BY <1>u, <1>p, <1>s DEF StepOf, SameLocals, Contents
<1>6. ThreadOK(t)'
  <2>1. BufferOK(t)' /\ GroupOK(t)'
    BY <1>u, <1>p, <1>g, Names DEF BufferOK, GroupOK, DestroysBuffer, DestroysGroup, Dtors
  <2>2. RequestOK(t)' /\ SnapOK(t)'
    BY <1>u, <1>p, <1>g DEF RequestOK, SnapOK
  <2> QED
    BY <2>1, <2>2 DEF ThreadOK
<1>7. \A u \in Threads \ {t} : Exclusive(t, u)' /\ Exclusive(u, t)'
  BY <1>t, <1>5, <1>p, <1>u, Alone DEF DestroysBuffer, DestroysGroup, Dtors
<1>8. ReqsOK'
  BY <1>u DEF IInv, ReqsOK
<1>9. NotReplaced'
  BY <1>t, <1>5, <1>u, <1>p, NoNewUse DEF StepOf
<1>10. \A x \in Clients : MappingOK(x)'
  BY <1>u, MappingsSame
<1> QED
  BY <1>t, <1>1, <1>3, <1>4, <1>5, <1>6, <1>7, <1>8, <1>9, <1>10, AllThreadsBut, InvParts

\* XRP_IOCTL_ALLOC fails: the only holder of the buffer lets go of it and of
\* the device, which the caller still owns.
LEMMA AllocFailedStep ==
  ASSUME IInv, NEW t \in Clients, AllocFailed(t)
  PROVE  IInv'
<1>u. UNCHANGED <<own, mapped, storage, slots, grp, at, cmd, snap, req, reqGroup>>
  BY DEF AllocFailed, cliVars, reqVars
<1>t. t \in Threads /\ TypeOK
  BY Names DEF IInv
<1>w. pc[t] = "alloc"
  BY DEF AllocFailed
<1>g. PICK b \in Buffers :
        /\ b = buf[t] /\ b \notin HostBuffers /\ b \in Objects /\ b # Device
        /\ mem[b] = "made" /\ ref[b] = 1 /\ storage[b] = NULL
        /\ Holders(b) = {<<"in", t>>}
        /\ <<"in", t>> \in Holders(Device) /\ Device \in own[t] /\ mem[Device] = "live"
        /\ grp[t] = NULL /\ cmd[t] = NULL /\ snap[t] = {}
        /\ \A u \in Clients \ {t} : pc[u] = "alloc" => buf[u] # b
  BY <1>w, Waiting
<1>e. /\ Goto(t, "idle") /\ buf' = [buf EXCEPT ![t] = NULL]
      /\ ref' = [ref EXCEPT ![b] = 0, ![Device] = @ - 1]
      /\ mem' = [mem EXCEPT ![b] = "none"]
  BY <1>g DEF AllocFailed
<1>d. Device \in Objects /\ ref[Device] \in Nat \ {0}
  BY <1>g, OwnedLive
<1>r. /\ mem \in [Objects -> MemStates] /\ mem' \in [Objects -> MemStates]
      /\ mem'[b] = "none" /\ \A o \in Objects \ {b} : mem'[o] = mem[o]
      /\ ref \in [Objects -> Nat] /\ ref' \in [Objects -> Nat]
      /\ ref'[b] = 0 /\ ref'[Device] = ref[Device] - 1
      /\ \A o \in Objects \ {b, Device} : ref'[o] = ref[o]
  <2>1. ref \in [Objects -> Nat] /\ mem \in [Objects -> MemStates]
    BY Locals
  <2>2. ref[Device] - 1 \in Nat
    BY <1>d
  <2>3. /\ ref'[b] = 0 /\ ref'[Device] = ref[Device] - 1
        /\ \A o \in Objects \ {b, Device} : ref'[o] = ref[o]
    BY <2>1, <1>e, <1>g, <1>d
  <2>4. ref' \in [Objects -> Nat]
    BY <2>1, <2>2, <1>e, <1>g, <1>d
  <2>5. /\ mem' \in [Objects -> MemStates]
        /\ mem'[b] = "none" /\ \A o \in Objects \ {b} : mem'[o] = mem[o]
    BY <2>1, <1>e, <1>g DEF MemStates
  <2> QED
    BY <2>1, <2>3, <2>4, <2>5
<1>p. TypedPC' /\ pc'[t] = "idle" /\ \A u \in Threads \ {t} : pc'[u] = pc[u]
  BY <1>e, <1>t, Names, Moves DEF ClientPCs
<1>s. /\ buf' \in [Threads -> Buffers \cup {NULL}] /\ buf'[t] = NULL
      /\ \A u \in Threads \ {t} : buf'[u] = buf[u]
  BY <1>e, <1>t, Locals
<1>1. TypeOK'
  BY <1>u, <1>p, <1>s, <1>r DEF IInv, TypeOK, TypedPC
<1>4. RefExact'
  <2>1. \A x : CallsOn(x)' = IF x = b THEN CallsOn(x) \ {t} ELSE CallsOn(x)
    BY <1>p, <1>s, <1>g, Names DEF CallsOn
  <2>2. Allocating' = Allocating \ {t}
    BY <1>p, <1>w, Names DEF Allocating
  <2>3. \A x : RequestsOf(x)' = RequestsOf(x)
    BY <1>u, <1>p, <1>t, Names, RequestsSame DEF RequestsKept
  <2>5. \A x : /\ OwnersOf(x)' = OwnersOf(x) /\ SlotsOf(x)' = SlotsOf(x)
               /\ MappersOf(x)' = MappersOf(x)
    BY <1>u DEF OwnersOf, SlotsOf, MappersOf, MappedBuffers
  <2>6. WithStorage' = WithStorage
    BY <1>u DEF WithStorage
  <2>d. Holders(Device)' = Holders(Device) \ {<<"in", t>>}
    BY <2>2, <2>5, <2>6, DeviceLeave
  <2>7. ASSUME NEW o \in Objects PROVE Counted(o)'
    <3>1. Counted(o)
      BY DEF IInv, RefExact, Counted
    <3>2. CASE o = b
      <4>1. Holders(o)' = {}
        BY <1>g, <3>2, <2>1, <2>5, HoldersLeave
      <4> QED
        BY <4>1, <1>r, <3>2, NoHolder
    <3>3. CASE o = Device
      BY <3>1, <3>3, <2>d, <1>g, <1>r, RemoveHolder
    <3>4. CASE o \notin {b, Device}
      <4>1. OthersSame(o)
        BY <2>1, <2>3, <2>5, <2>6, <3>4 DEF OthersSame
      <4>2. Holders(o)' = Holders(o) /\ ref'[o] = ref[o]
        BY <4>1, <2>5, <1>r, <3>4, HoldersSame
      <4> QED
        BY <3>1, <4>2, SameCount
    <3> QED
      BY <3>2, <3>3, <3>4
  <2> QED
    BY <2>7 DEF RefExact, Counted
<1>5. StepOf(t)
  BY <1>u, <1>p, <1>s DEF StepOf, SameLocals, Contents
<1>d1. ref'[Device] > 0
  <2> DEFINE S == Holders(Device)
  <2>1. S \ {<<"in", t>>} # {}
    BY <1>g, OwnedLive
  <2>2. IsFiniteSet(S) /\ Cardinality(S) = ref[Device]
    BY <1>d, HoldersFinite DEF IInv, RefExact
  <2>3. Cardinality(S \ {<<"in", t>>}) = Cardinality(S) - 1 /\ IsFiniteSet(S \ {<<"in", t>>})
    BY <2>2, <1>g, FS_RemoveElement
  <2>4. Cardinality(S \ {<<"in", t>>}) # 0
    BY <2>1, <2>3, FS_EmptySet
  <2> QED
    BY <2>2, <2>3, <2>4, <1>r, <1>d
<1>3. ObjectsOK' /\ SettledBut(t)
  <2>1. ASSUME NEW o \in Objects PROVE LifeOK(o)'
    <3>1. LifeOK(o)
      BY DEF IInv
    <3>2. CASE o = b
      BY <3>2, <1>r DEF LifeOK
    <3>3. CASE o = Device
      BY <3>3, <1>r, <1>g, <1>d1 DEF LifeOK
    <3>4. CASE o \notin {b, Device}
      <4>1. \A u \in Clients : pc[u] = "alloc" /\ buf[u] = o => pc'[u] = "alloc" /\ buf'[u] = o
        BY <3>4, <1>p, <1>s, <1>g, Names
      <4> QED
        BY <3>1, <3>4, <4>1, <1>r DEF LifeOK
    <3> QED
      BY <3>2, <3>3, <3>4
  <2>2. DeviceOK'
    BY <1>r, <1>g, <1>d DEF DeviceOK
  <2>3. ASSUME NEW x \in Buffers PROVE StorageOK(x)'
    <3>1. StorageOK(x) /\ x \in Objects
      BY Names DEF IInv
    <3> QED
      BY <3>1, <1>r, <1>u, <1>g DEF StorageOK
  <2>4. b \in MadeBy(t)
    BY <1>w, <1>g DEF MadeBy
  <2>5. SettledBut(t)
    BY <2>4, <1>r, <1>u, <1>g DEF SettledBut
  <2> QED
    BY <2>1, <2>2, <2>3, <2>5 DEF ObjectsOK
<1>6. ThreadOK(t)'
  <2>1. BufferOK(t)' /\ GroupOK(t)'
    BY <1>u, <1>p, <1>g, Names DEF BufferOK, GroupOK, DestroysBuffer, DestroysGroup, Dtors
  <2>2. RequestOK(t)' /\ SnapOK(t)'
    BY <1>u, <1>p, <1>g DEF RequestOK, SnapOK
  <2> QED
    BY <2>1, <2>2 DEF ThreadOK
<1>7. \A u \in Threads \ {t} : Exclusive(t, u)' /\ Exclusive(u, t)'
  BY <1>t, <1>5, <1>p, <1>u, Alone DEF DestroysBuffer, DestroysGroup, Dtors
<1>8. ReqsOK'
  BY <1>u DEF IInv, ReqsOK
<1>9. NotReplaced'
  BY <1>t, <1>5, <1>u, <1>p, NoNewUse DEF StepOf
<1>10. \A x \in Clients : MappingOK(x)'
  BY <1>u, MappingsSame
<1> QED
  BY <1>t, <1>1, <1>3, <1>4, <1>5, <1>6, <1>7, <1>8, <1>9, <1>10, AllThreadsBut, InvParts

-----------------------------------------------------------------------------
(* Replacing a buffer of a group.                                          *)

\* The reference of the call becomes that of the slot, and the other way round.
LEMMA IntoSlot ==
  ASSUME NEW b \in Buffers, NEW t, NEW s, OwnersOf(b)' = OwnersOf(b),
         MappersOf(b)' = MappersOf(b), SlotsOf(b)' = SlotsOf(b) \cup {s},
         CallsOn(b)' = CallsOn(b) \ {t}
  PROVE  Holders(b)' = (Holders(b) \ {<<"in", t>>}) \cup {<<"slot", s>>}
<1>1. {"in"} \X (CallsOn(b) \ {t}) = ({"in"} \X CallsOn(b)) \ {<<"in", t>>}
  OBVIOUS
<1>2. {"slot"} \X (SlotsOf(b) \cup {s}) = ({"slot"} \X SlotsOf(b)) \cup {<<"slot", s>>}
  OBVIOUS
<1> QED
  BY <1>1, <1>2 DEF Holders, BufferHolders

LEMMA OutOfSlot ==
  ASSUME NEW b \in Buffers, NEW t, NEW s, OwnersOf(b)' = OwnersOf(b),
         MappersOf(b)' = MappersOf(b), SlotsOf(b)' = SlotsOf(b) \ {s},
         CallsOn(b)' = CallsOn(b) \cup {t}
  PROVE  Holders(b)' = (Holders(b) \ {<<"slot", s>>}) \cup {<<"in", t>>}
<1>1. {"in"} \X (CallsOn(b) \cup {t}) = ({"in"} \X CallsOn(b)) \cup {<<"in", t>>}
  OBVIOUS
<1>2. {"slot"} \X (SlotsOf(b) \ {s}) = ({"slot"} \X SlotsOf(b)) \ {<<"slot", s>>}
  OBVIOUS
<1> QED
  BY <1>1, <1>2 DEF Holders, BufferHolders

LEMMA ReplaceCounts ==
  ASSUME IInv, NEW t \in Clients, Replace(t)
  PROVE  RefExact'
<1>u. UNCHANGED <<ref, mem, own, mapped, storage, cmd, snap, req, reqGroup>>
  BY DEF Replace, objVars, cliVars, reqVars
<1>t. t \in Threads /\ TypeOK
  BY Names DEF IInv
<1>g. pc[t] = "set"
  BY DEF Replace
<1>p. pc'[t] = "unref" /\ \A u \in Threads \ {t} : pc'[u] = pc[u]
  BY <1>t, Names, Moves DEF Replace, ClientPCs
<1>o. \A x : OwnersOf(x)' = OwnersOf(x) /\ MappersOf(x)' = MappersOf(x)
  BY <1>u DEF OwnersOf, MappersOf, MappedBuffers
<1>r. \A x : RequestsOf(x)' = RequestsOf(x)
  BY <1>u, <1>p, <1>t, Names, RequestsSame DEF RequestsKept
<1>d. WithStorage' = WithStorage /\ Allocating' = Allocating
  BY <1>u, <1>p, <1>g, Names DEF WithStorage, Allocating
<1>1. CASE slots' = slots /\ buf' = buf
  <2>1. \A x : SlotsOf(x)' = SlotsOf(x)
    BY <1>1 DEF SlotsOf
  <2>2. \A x : CallsOn(x)' = CallsOn(x)
    BY <1>1, <1>p, <1>g, Names DEF CallsOn
  <2>3. ASSUME NEW o \in Objects PROVE Counted(o)'
    <3>1. OthersSame(o)
      BY <2>1, <2>2, <1>o, <1>r, <1>d DEF OthersSame
    <3>2. Counted(o)
      BY DEF IInv, RefExact, Counted
    <3> QED
      BY <3>1, <3>2, <1>o, <1>u, HoldersSame, SameCount
  <2> QED
    BY <2>3 DEF RefExact, Counted
<1>2. CASE slots' # slots \/ buf' # buf
  <2>g. PICK g \in Groups : g = grp[t]
    BY <1>t, <1>g, TheThreads DEF GroupOK
  <2>b. PICK b \in Buffers : b = buf[t]
    BY <1>t, <1>g, TheThreads DEF BufferOK
  <2>n. PICK n : n = at[t]
    OBVIOUS
  <2>e. /\ n \in DOMAIN slots[g] /\ slots' = [slots EXCEPT ![g][n] = b]
        /\ buf' = [buf EXCEPT ![t] = slots[g][n]]
    BY <1>2, <2>g, <2>b, <2>n DEF Replace
  <2>a. PICK a \in Buffers : a = slots[g][n] /\ n \in 1 .. MaxSlots
    BY <2>e, SlotLive
  <2>s. /\ slots \in [Groups -> Seq(Buffers)] /\ buf \in [Threads -> Buffers \cup {NULL}]
    BY DEF IInv, TypeOK
  <2>1. /\ slots'[g][n] = b /\ DOMAIN slots'[g] = DOMAIN slots[g]
        /\ \A k \in DOMAIN slots[g] \ {n} : slots'[g][k] = slots[g][k]
        /\ \A x \in Groups \ {g} : slots'[x] = slots[x]
    BY <2>s, <2>e
  <2>2. buf'[t] = a /\ \A u \in Threads \ {t} : buf'[u] = buf[u]
    BY <2>s, <2>e, <2>a, <1>t
  <2>3. a # b
    <3> SUFFICES ASSUME a = b PROVE FALSE
      OBVIOUS
    <3>1. slots' = slots
      BY <2>s, <2>e, <2>a
    <3>2. buf' = buf
      BY <2>s, <2>e, <2>a, <2>b, <1>t
    <3> QED
      BY <3>1, <3>2, <1>2
  <2>4. \A x : SlotsOf(x)' = IF x = b THEN SlotsOf(x) \cup {<<g, n>>}
                             ELSE IF x = a THEN SlotsOf(x) \ {<<g, n>>} ELSE SlotsOf(x)
    <3> SUFFICES ASSUME NEW x, NEW p \in Groups \X (1 .. MaxSlots)
                 PROVE  p \in SlotsOf(x)'
                          <=> IF p = <<g, n>> THEN x = b ELSE p \in SlotsOf(x)
      <4>1. <<g, n>> \in SlotsOf(a) /\ \A x : <<g, n>> \in SlotsOf(x) => x = a
        BY <2>e, <2>a DEF SlotsOf
      <4>2. \A x : SlotsOf(x) \subseteq Groups \X (1 .. MaxSlots)
        BY DEF SlotsOf
      <4>3. \A x : SlotsOf(x)' \subseteq Groups \X (1 .. MaxSlots)
        BY DEF SlotsOf
      <4>4. <<g, n>> \in Groups \X (1 .. MaxSlots)
        BY <2>a
      <4> QED
        BY <4>1, <4>2, <4>3, <4>4, <2>3
    <3>1. p[1] \in Groups /\ p[2] \in 1 .. MaxSlots /\ p = <<p[1], p[2]>>
      OBVIOUS
    <3>2. CASE p[1] # g
      BY <3>1, <3>2, <2>1 DEF SlotsOf
    <3>3. CASE p[1] = g /\ p[2] # n
      BY <3>1, <3>3, <2>1 DEF SlotsOf
    <3>4. CASE p = <<g, n>>
      BY <3>1, <3>4, <2>1, <2>e DEF SlotsOf
    <3> QED
      BY <3>1, <3>2, <3>3, <3>4
  <2>5. \A x : CallsOn(x)' = IF x = b THEN CallsOn(x) \ {t}
                             ELSE IF x = a THEN CallsOn(x) \cup {t} ELSE CallsOn(x)
    BY <2>2, <2>3, <2>b, <1>p, <1>g, Names DEF CallsOn
  <2>6. ASSUME NEW o \in Objects PROVE Counted(o)'
    <3>1. Counted(o)
      BY DEF IInv, RefExact, Counted
    <3>2. CASE o = b
      <4>1. <<"in", t>> \in Holders(o)
        BY <3>2, <2>b, <1>g, HolderKinds DEF CallsOn
      <4>2. <<g, n>> \notin SlotsOf(b)
        BY <2>3, <2>a DEF SlotsOf
      <4>3. <<"slot", <<g, n>>>> \notin Holders(o)
        BY <4>2, <3>2, HolderKinds
      <4>4. Holders(o)' = (Holders(o) \ {<<"in", t>>}) \cup {<<"slot", <<g, n>>>>}
        <5>1. SlotsOf(b)' = SlotsOf(b) \cup {<<g, n>>} /\ CallsOn(b)' = CallsOn(b) \ {t}
          BY <2>4, <2>5
        <5>2. Holders(b)' = (Holders(b) \ {<<"in", t>>}) \cup {<<"slot", <<g, n>>>>}
          <6>1. PICK s : s = <<g, n>>
            OBVIOUS
          <6>2. OwnersOf(b)' = OwnersOf(b) /\ MappersOf(b)' = MappersOf(b)
            BY <1>o
          <6>3. Holders(b)' = (Holders(b) \ {<<"in", t>>}) \cup {<<"slot", s>>}
            BY <5>1, <6>1, <6>2, IntoSlot
          <6> QED
            BY <6>1, <6>3
        <5> QED
          BY <5>2, <3>2
      <4> QED
        BY <3>1, <4>1, <4>3, <4>4, <1>u, MoveHolder
    <3>3. CASE o = a
      <4>1. <<"slot", <<g, n>>>> \in Holders(o)
        BY <3>3, <2>a, <2>e, SlotLive
      <4>2. t \notin CallsOn(a)
        BY <2>3, <2>b DEF CallsOn
      <4>3. <<"in", t>> \notin Holders(o)
        BY <4>2, <3>3, HolderKinds
      <4>4. Holders(o)' = (Holders(o) \ {<<"slot", <<g, n>>>>}) \cup {<<"in", t>>}
        BY <3>3, <2>3, <2>4, <2>5, <1>o, OutOfSlot
      <4> QED
        BY <3>1, <4>1, <4>3, <4>4, <1>u, MoveHolder
    <3>4. CASE o \notin {a, b}
      <4>1. OthersSame(o)
        BY <2>4, <2>5, <3>4, <1>o, <1>r, <1>d DEF OthersSame
      <4> QED
        BY <4>1, <3>1, <1>o, <1>u, HoldersSame, SameCount
    <3> QED
      BY <3>2, <3>3, <3>4
  <2> QED
    BY <2>6 DEF RefExact, Counted
<1> QED
  BY <1>1, <1>2

\* xrp_set_buffer_in_group stores the buffer under the mutex.
LEMMA ReplaceStep ==
  ASSUME IInv, NEW t \in Clients, Replace(t)
  PROVE  IInv'
<1>u. UNCHANGED <<ref, mem, own, mapped, storage, cmd, snap, req, reqGroup>>
  BY DEF Replace, objVars, cliVars, reqVars
<1>t. t \in Threads /\ TypeOK
  BY Names DEF IInv
<1>g. PICK g \in Groups : g = grp[t] /\ pc[t] = "set" /\ cmd[t] = NULL /\ snap[t] = {}
  BY <1>t, TheThreads DEF Replace, GroupOK, RequestOK, SnapOK
<1>b. buf[t] \in Buffers
  BY <1>t, <1>g, TheThreads DEF BufferOK
<1>e. /\ Goto(t, "unref") /\ grp' = [grp EXCEPT ![t] = NULL] /\ at' = [at EXCEPT ![t] = 1]
  BY DEF Replace
<1>p. TypedPC' /\ pc'[t] = "unref" /\ \A u \in Threads \ {t} : pc'[u] = pc[u]
  BY <1>e, <1>t, Names, Moves DEF ClientPCs
<1>s. /\ grp' \in [Threads -> Groups \cup {NULL}] /\ grp'[t] = NULL
      /\ \A u \in Threads \ {t} : grp'[u] = grp[u]
      /\ at' \in [Threads -> Nat]
  BY <1>e, <1>t, Locals
<1>v. /\ buf' \in [Threads -> Buffers \cup {NULL}] /\ buf'[t] \in Buffers
      /\ \A u \in Threads \ {t} : buf'[u] = buf[u]
      /\ slots' \in [Groups -> Seq(Buffers)]
      /\ \A x \in Groups : Len(slots'[x]) <= MaxSlots
      /\ \A x \in Groups \ {g} : slots'[x] = slots[x]
  <2>s. /\ slots \in [Groups -> Seq(Buffers)] /\ \A x \in Groups : Len(slots[x]) <= MaxSlots
        /\ buf \in [Threads -> Buffers \cup {NULL}]
    BY DEF IInv, TypeOK
  <2>1. CASE UNCHANGED <<slots, buf>>
    BY <2>1, <2>s, <1>b
  <2>2. CASE ~UNCHANGED <<slots, buf>>
    <3>n. PICK n : n = at[t]
      OBVIOUS
    <3>1. /\ n \in DOMAIN slots[g] /\ slots' = [slots EXCEPT ![g][n] = buf[t]]
          /\ buf' = [buf EXCEPT ![t] = slots[g][n]]
      BY <2>2, <1>g, <3>n DEF Replace
    <3>2. slots[g][n] \in Buffers
      BY <3>1, SlotLive
    <3>3. slots'[g] = [slots[g] EXCEPT ![n] = buf[t]]
      BY <3>1, <2>s
    <3>4. slots'[g] \in Seq(Buffers) /\ Len(slots'[g]) = Len(slots[g])
      BY <3>3, <3>1, <2>s, <1>b, ExceptSeq
    <3>5. \A x \in Groups \ {g} : slots'[x] = slots[x]
      BY <3>1, <2>s
    <3>6. slots' \in [Groups -> Seq(Buffers)]
      BY <3>1, <3>3, <3>4, <2>s
    <3> QED
      BY <3>1, <3>2, <3>4, <3>5, <3>6, <2>s, <1>t
  <2> QED
    BY <2>1, <2>2
<1>1. TypeOK'
  BY <1>u, <1>p, <1>s, <1>v DEF IInv, TypeOK, TypedPC
<1>2. AllocsKept
  BY <1>g, <1>p, <1>v, Names DEF AllocsKept
<1>3. ObjectsOK' /\ Settled
  BY <1>u, <1>2, SameObjects
<1>4. RefExact'
  BY ReplaceCounts
<1>5. StepOf(t)
  BY <1>u, <1>g, <1>p, <1>s, <1>v DEF StepOf, SameLocals, Contents
<1>6. ThreadOK(t)'
  <2>1. BufferOK(t)' /\ GroupOK(t)'
    BY <1>u, <1>p, <1>v, <1>s, Names DEF BufferOK, GroupOK, DestroysBuffer, DestroysGroup, Dtors
  <2>2. RequestOK(t)' /\ SnapOK(t)'
    BY <1>u, <1>p, <1>g DEF RequestOK, SnapOK
  <2> QED
    BY <2>1, <2>2 DEF ThreadOK
<1>7. \A u \in Threads \ {t} : Exclusive(t, u)' /\ Exclusive(u, t)'
  BY <1>t, <1>5, <1>p, <1>u, Alone DEF DestroysBuffer, DestroysGroup, Dtors
<1>8. ReqsOK'
  BY <1>u DEF IInv, ReqsOK
<1>9. NotReplaced'
  BY <1>t, <1>5, <1>u, <1>p, NoNewUse DEF StepOf
<1>10. \A x \in Clients : MappingOK(x)'
  BY <1>u, MappingsSame
<1> QED
  BY <1>t, <1>1, <1>3, <1>4, <1>5, <1>6, <1>7, <1>8, <1>9, <1>10, AllThreads, InvParts

-----------------------------------------------------------------------------
(* Releases of buffers: unmapping, the end of a replacement, a release by  *)
(* an owner and the destructor of a group.                                 *)

\* What they have in common: the last release begins the destruction.
LEMMA DropBufferThreads ==
  ASSUME IInv, NEW t \in Threads, NEW b \in Buffers, NEW l, mem[b] = "live",
         DropBuffer(t, b, l), pc[t] \in {"idle", "unref", "group"},
         t \in Workers => pc[t] = "group",
         l = IF pc[t] = "group" THEN "group" ELSE "idle",
         UNCHANGED <<storage, grp, at, cmd, snap, req, reqGroup>>,
         \A u \in Clients \ {t} : own[u] \subseteq own'[u],
         \A g \in Groups : Contents(g) \subseteq Contents(g)' \/ mem[g] = "closing"
  PROVE  /\ ObjectsOK' /\ ReqsOK' /\ NotReplaced'
         /\ ref' \in [Objects -> Nat] /\ mem' \in [Objects -> MemStates] /\ TypedPC'
         /\ buf' \in [Threads -> Buffers \cup {NULL}]
         /\ \A u \in Threads : (BufferOK(u) /\ GroupOK(u) /\ RequestOK(u) /\ SnapOK(u))'
         /\ \A u, v \in Threads : u # v => Exclusive(u, v)'
<1>t. TypeOK /\ b \in Objects /\ b # Device
  BY Names DEF IInv
<1>g. /\ GroupOK(t) /\ RequestOK(t) /\ snap[t] = {} /\ grp[t] \in Groups \cup {NULL}
      /\ pc[t] # "group" => grp[t] = NULL
      /\ pc[t] = "group" => grp[t] # NULL /\ mem[grp[t]] = "closing"
  BY TheThreads DEF SnapOK, GroupOK, DestroysGroup, Dtors
<1>e. /\ Goto(t, IF LastRef(b) THEN "buffer" ELSE l)
      /\ buf' = [buf EXCEPT ![t] = IF LastRef(b) THEN b ELSE NULL]
      /\ Dec(b) /\ mem' = IF LastRef(b) THEN [mem EXCEPT ![b] = "closing"] ELSE mem
  BY DEF DropBuffer
<1>p. /\ TypedPC' /\ pc'[t] = (IF LastRef(b) THEN "buffer" ELSE l)
      /\ \A u \in Threads \ {t} : pc'[u] = pc[u]
  BY <1>e, <1>t, Moves DEF ClientPCs, WorkerPCs, Dtors
<1>s. /\ buf' \in [Threads -> Buffers \cup {NULL}]
      /\ buf'[t] = IF LastRef(b) THEN b ELSE NULL
      /\ \A u \in Threads \ {t} : buf'[u] = buf[u]
  BY <1>e, <1>t, Locals
<1>2. AllocsKept
  BY <1>s, <1>p, Names DEF AllocsKept
<1>3. /\ ObjectsOK' /\ Settled
      /\ ref' \in [Objects -> Nat] /\ mem' \in [Objects -> MemStates]
  BY <1>t, <1>e, <1>2, DropObjects
<1>m. /\ mem'[b] = IF LastRef(b) THEN "closing" ELSE "live"
      /\ \A o \in Objects \ {b} : mem'[o] = mem[o]
  BY <1>e, <1>t, Locals
<1>5. StepOf(t)
  BY <1>p, <1>s DEF StepOf, SameLocals
<1>6. ThreadOK(t)'
  <2>1. BufferOK(t)'
    <3>1. storage'[b] # NULL <=> b \notin HostBuffers
      BY StorageSize DEF IInv, StorageOK
    <3> QED
      BY <3>1, <1>p, <1>s, <1>m DEF BufferOK, DestroysBuffer
  <2>2. GroupOK(t)'
    <3>1. grp[t] # NULL => mem'[grp[t]] = "closing"
      BY <1>g, <1>m, Names
    <3> QED
      BY <3>1, <1>p, <1>g, Names DEF GroupOK, DestroysBuffer, DestroysGroup, Dtors
  <2>3. RequestOK(t)'
    BY <1>p, <1>g, Names DEF RequestOK
  <2>4. SnapOK(t)'
    BY <1>p, <1>g DEF SnapOK
  <2> QED
    BY <2>1, <2>2, <2>3, <2>4 DEF ThreadOK
<1>7. \A u \in Threads \ {t} : Exclusive(t, u)' /\ Exclusive(u, t)'
  <2>1. DestroysBuffer(t)' => mem[buf'[t]] # "closing"
    BY <1>p, <1>s DEF DestroysBuffer
  <2>2. DestroysGroup(t)' => DestroysGroup(t) /\ grp'[t] = grp[t]
    BY <1>p, <1>g DEF DestroysGroup, Dtors
  <2> QED
    BY <2>1, <2>2, <1>5, Alone
<1>8. ReqsOK'
  BY DEF IInv, ReqsOK
<1>9. NotReplaced'
  BY <1>5, <1>p, NoNewUse DEF StepOf
<1> QED
  BY <1>p, <1>s, <1>3, <1>5, <1>6, <1>7, <1>8, <1>9, AllThreads

\* Counting such a release; h is the holder that lets go.
LEMMA DropBufferCounts ==
  ASSUME IInv, NEW b \in Buffers, NEW h \in Holders(b), Dec(b),
         Holders(b)' = Holders(b) \ {h},
         \A o \in Objects \ {b} : Holders(o)' = Holders(o)
  PROVE  RefExact'
<1>1. ref \in [Objects -> Nat] /\ ref' = [ref EXCEPT ![b] = @ - 1] /\ b \in Objects
  BY Locals, Names DEF Dec
<1>2. ASSUME NEW o \in Objects PROVE Counted(o)'
  <2>1. Counted(o)
    BY DEF IInv, RefExact, Counted
  <2>2. CASE o = b
    BY <1>1, <2>1, <2>2, RemoveHolder
  <2>3. CASE o # b
    BY <1>1, <2>1, <2>3, SameCount
  <2> QED
    BY <2>2, <2>3
<1> QED
  BY <1>2 DEF RefExact, Counted

\* A thread that is not in a call with a buffer or a request and goes to none.
LEMMA OthersQuiet ==
  ASSUME NEW t \in Threads, pc[t] \in {"idle", "unref", "group"},
         pc'[t] \in {"idle", "buffer", "group"},
         \A u \in Threads \ {t} : pc'[u] = pc[u] /\ buf'[u] = buf[u],
         UNCHANGED <<cmd, req, reqGroup, storage>>
  PROVE  /\ \A x : RequestsOf(x)' = RequestsOf(x)
         /\ Allocating' = Allocating /\ WithStorage' = WithStorage
         /\ pc[t] # "unref" => \A x : CallsOn(x)' = CallsOn(x)
         /\ pc[t] = "unref" /\ t \in Clients =>
              \A x : CallsOn(x)' = IF x = buf[t] THEN CallsOn(x) \ {t} ELSE CallsOn(x)
<1>1. RequestsKept
  BY Names DEF RequestsKept, AtGroup
<1>2. Allocating' = Allocating /\ WithStorage' = WithStorage
  BY Names DEF Allocating, WithStorage
<1>3. ASSUME pc[t] # "unref" PROVE \A x : CallsOn(x)' = CallsOn(x)
  BY <1>3, Names DEF CallsOn
<1>4. ASSUME pc[t] = "unref", t \in Clients
      PROVE  \A x : CallsOn(x)' = IF x = buf[t] THEN CallsOn(x) \ {t} ELSE CallsOn(x)
  BY <1>4, Names DEF CallsOn
<1> QED
  BY <1>1, <1>2, <1>3, <1>4, RequestsSame

\* A thread that releases a buffer goes on, or destroys it.
LEMMA DropBufferMoves ==
  ASSUME IInv, NEW t \in Threads, NEW b, NEW l, DropBuffer(t, b, l), l \in {"idle", "group"}
  PROVE  /\ pc'[t] \in {"idle", "buffer", "group"}
         /\ \A u \in Threads \ {t} : pc'[u] = pc[u] /\ buf'[u] = buf[u]
<1>1. /\ pc' = [pc EXCEPT ![t] = IF LastRef(b) THEN "buffer" ELSE l]
      /\ buf' = [buf EXCEPT ![t] = IF LastRef(b) THEN b ELSE NULL]
      /\ pc \in [Threads -> ClientPCs \cup WorkerPCs]
      /\ buf \in [Threads -> Buffers \cup {NULL}]
  BY Locals DEF DropBuffer, Goto, IInv, TypeOK
<1> QED
  BY <1>1

LEMMA FirstsRemove ==
  ASSUME NEW S, NEW m \in S, \A k \in S : k[1] = m[1] => k = m
  PROVE  {k[1] : k \in S \ {m}} = {k[1] : k \in S} \ {m[1]}
OBVIOUS

\* xrp_unmap_buffer.
LEMMA UnmapStep ==
  ASSUME IInv, NEW t \in Clients, NEW m \in mapped[t], Unmap(t, m)
  PROVE  IInv'
<1>u. UNCHANGED <<own, storage, slots, grp, at, cmd, snap, req, reqGroup>>
  BY DEF Unmap, reqVars
<1>t. t \in Threads /\ t \notin Workers
  BY Names
<1>b. PICK b : b = m[1]
  OBVIOUS
<1>g. /\ pc[t] = "idle" /\ b \in MappedBuffers(t) /\ b \in Buffers /\ b \in Objects
      /\ mem[b] = "live" /\ <<"map", t>> \in Holders(b)
  BY <1>b, MappedLive, Names DEF Unmap, MappedBuffers
<1>e. DropBuffer(t, b, "idle") /\ mapped' = [mapped EXCEPT ![t] = @ \ {m}]
  BY <1>b DEF Unmap
<1>m. /\ mapped \in [Clients -> SUBSET (Buffers \X Nat \X Nat)]
      /\ mapped' \in [Clients -> SUBSET (Buffers \X Nat \X Nat)]
      /\ mapped'[t] = mapped[t] \ {m} /\ \A u \in Clients \ {t} : mapped'[u] = mapped[u]
  BY <1>e DEF IInv, TypeOK
<1>c. \A x \in Groups : Contents(x) \subseteq Contents(x)'
  BY <1>u DEF Contents
<1>1. /\ ObjectsOK' /\ ReqsOK' /\ NotReplaced'
      /\ ref' \in [Objects -> Nat] /\ mem' \in [Objects -> MemStates] /\ TypedPC'
      /\ buf' \in [Threads -> Buffers \cup {NULL}]
      /\ \A u \in Threads : (BufferOK(u) /\ GroupOK(u) /\ RequestOK(u) /\ SnapOK(u))'
      /\ \A u, v \in Threads : u # v => Exclusive(u, v)'
  BY <1>u, <1>t, <1>g, <1>e, <1>c, DropBufferThreads
<1>2. TypeOK'
  BY <1>u, <1>1, <1>m DEF IInv, TypeOK, TypedPC
<1>3. RefExact'
  <2>1. /\ \A x : RequestsOf(x)' = RequestsOf(x) /\ CallsOn(x)' = CallsOn(x)
        /\ Allocating' = Allocating /\ WithStorage' = WithStorage
    BY <1>u, <1>t, <1>g, <1>e, DropBufferMoves, OthersQuiet
  <2>2. \A x : OwnersOf(x)' = OwnersOf(x) /\ SlotsOf(x)' = SlotsOf(x)
    BY <1>u DEF OwnersOf, SlotsOf
  <2>3. MappedBuffers(t)' = MappedBuffers(t) \ {b}
    <3>1. \A k \in mapped[t] : k[1] = m[1] => k = m
      BY DEF IInv, MappingOK
    <3> QED
      BY <3>1, <1>m, <1>b, FirstsRemove DEF MappedBuffers
  <2>4. \A x : MappersOf(x)' = IF x = b THEN MappersOf(x) \ {t} ELSE MappersOf(x)
    <3>1. \A u \in Clients \ {t} : MappedBuffers(u)' = MappedBuffers(u)
      BY <1>m DEF MappedBuffers
    <3> QED
      BY <3>1, <2>3 DEF MappersOf
  <2>5. Holders(b)' = Holders(b) \ {<<"map", t>>}
    <3>1. {"map"} \X (MappersOf(b) \ {t}) = ({"map"} \X MappersOf(b)) \ {<<"map", t>>}
      OBVIOUS
    <3> QED
      BY <3>1, <2>1, <2>2, <2>4, <1>g DEF Holders, BufferHolders
  <2>6. \A o \in Objects \ {b} : Holders(o)' = Holders(o)
    BY <2>1, <2>2, <2>4, HoldersSame DEF OthersSame
  <2> QED
    BY <2>5, <2>6, <1>g, <1>e, DropBufferCounts DEF DropBuffer
<1>4. ASSUME NEW x \in Clients PROVE MappingOK(x)'
  <2>1. MappingOK(x) /\ mapped'[x] \subseteq mapped[x]
    BY <1>m DEF IInv
  <2> QED
    BY <2>1 DEF MappingOK
<1> QED
  BY <1>1, <1>2, <1>3, <1>4, InvParts

\* xrp_release_buffer by an owner.
LEMMA ReleaseBufferStep ==
  ASSUME IInv, NEW t \in Clients, NEW b \in Buffers, ReleaseBuffer(t, b)
  PROVE  IInv'
<1>u. UNCHANGED <<mapped, storage, slots, grp, at, cmd, snap, req, reqGroup>>
  BY DEF ReleaseBuffer, reqVars
<1>t. t \in Threads /\ t \notin Workers /\ TypeOK
  BY Names DEF IInv
<1>g. /\ pc[t] = "idle" /\ b \in own[t] /\ b \in Objects
      /\ mem[b] = "live" /\ <<"own", t>> \in Holders(b)
  BY OwnedLive, Names DEF ReleaseBuffer
<1>e. DropBuffer(t, b, "idle") /\ own' = [own EXCEPT ![t] = @ \ {b}]
  BY DEF ReleaseBuffer
<1>m. own' \in [Clients -> SUBSET Objects] /\ \A u \in Clients \ {t} : own'[u] = own[u]
  BY <1>e, Locals
<1>c. \A x \in Groups : Contents(x) \subseteq Contents(x)'
  BY <1>u DEF Contents
<1>1. /\ ObjectsOK' /\ ReqsOK' /\ NotReplaced'
      /\ ref' \in [Objects -> Nat] /\ mem' \in [Objects -> MemStates] /\ TypedPC'
      /\ buf' \in [Threads -> Buffers \cup {NULL}]
      /\ \A u \in Threads : (BufferOK(u) /\ GroupOK(u) /\ RequestOK(u) /\ SnapOK(u))'
      /\ \A u, v \in Threads : u # v => Exclusive(u, v)'
  BY <1>u, <1>t, <1>g, <1>e, <1>m, <1>c, DropBufferThreads
<1>2. TypeOK'
  BY <1>u, <1>1, <1>m DEF IInv, TypeOK, TypedPC
<1>3. RefExact'
  <2>1. /\ \A x : RequestsOf(x)' = RequestsOf(x) /\ CallsOn(x)' = CallsOn(x)
        /\ Allocating' = Allocating /\ WithStorage' = WithStorage
    BY <1>u, <1>t, <1>g, <1>e, DropBufferMoves, OthersQuiet
  <2>2. \A x : MappersOf(x)' = MappersOf(x) /\ SlotsOf(x)' = SlotsOf(x)
    BY <1>u DEF MappersOf, MappedBuffers, SlotsOf
  <2>3. \A x : OthersSame(x)
    BY <2>1, <2>2 DEF OthersSame
  <2> QED
    BY <2>3, <1>g, <1>e, OwnerReleases DEF DropBuffer
<1>4. \A x \in Clients : MappingOK(x)'
  BY <1>u, MappingsSame
<1> QED
  BY <1>1, <1>2, <1>3, <1>4, InvParts

\* The end of xrp_set_buffer_in_group.
LEMMA ReleaseOldStep ==
  ASSUME IInv, NEW t \in Clients, ReleaseOld(t)
  PROVE  IInv'
<1>u. UNCHANGED <<own, mapped, storage, slots, grp, at, cmd, snap, req, reqGroup>>
  BY DEF ReleaseOld, cliVars, reqVars
<1>t. t \in Threads /\ t \notin Workers
  BY Names
<1>b. PICK b : b = buf[t]
  OBVIOUS
<1>g. /\ pc[t] = "unref" /\ b \in Buffers /\ b \in Objects
      /\ mem[b] = "live" /\ <<"in", t>> \in Holders(b)
  BY <1>b, CallLive, Names DEF ReleaseOld
<1>e. DropBuffer(t, b, "idle")
  BY <1>b DEF ReleaseOld
<1>c. /\ \A x \in Groups : Contents(x) \subseteq Contents(x)'
      /\ \A x \in Clients : own[x] \subseteq own'[x]
  BY <1>u DEF Contents
<1>1. /\ ObjectsOK' /\ ReqsOK' /\ NotReplaced'
      /\ ref' \in [Objects -> Nat] /\ mem' \in [Objects -> MemStates] /\ TypedPC'
      /\ buf' \in [Threads -> Buffers \cup {NULL}]
      /\ \A u \in Threads : (BufferOK(u) /\ GroupOK(u) /\ RequestOK(u) /\ SnapOK(u))'
      /\ \A u, v \in Threads : u # v => Exclusive(u, v)'
  BY <1>u, <1>t, <1>g, <1>e, <1>c, DropBufferThreads
<1>2. TypeOK'
  BY <1>u, <1>1 DEF IInv, TypeOK, TypedPC
<1>3. RefExact'
  <2>1. /\ \A x : RequestsOf(x)' = RequestsOf(x)
        /\ \A x : CallsOn(x)' = IF x = b THEN CallsOn(x) \ {t} ELSE CallsOn(x)
        /\ Allocating' = Allocating /\ WithStorage' = WithStorage
    BY <1>u, <1>t, <1>b, <1>g, <1>e, DropBufferMoves, OthersQuiet
  <2>2. \A x : /\ OwnersOf(x)' = OwnersOf(x) /\ SlotsOf(x)' = SlotsOf(x)
               /\ MappersOf(x)' = MappersOf(x)
    BY <1>u DEF OwnersOf, SlotsOf, MappersOf, MappedBuffers
  <2>3. Holders(b)' = Holders(b) \ {<<"in", t>>}
    BY <2>1, <2>2, <1>g, HoldersLeave
  <2>4. \A o \in Objects \ {b} : Holders(o)' = Holders(o)
    BY <2>1, <2>2, HoldersSame DEF OthersSame
  <2> QED
    BY <2>3, <2>4, <1>g, <1>e, DropBufferCounts DEF DropBuffer
<1>4. \A x \in Clients : MappingOK(x)'
  BY <1>u, MappingsSame
<1> QED
  BY <1>1, <1>2, <1>3, <1>4, InvParts

\* The buffers that are still to be released move up by one: the references
\* are the same but for the first.
LEMMA ShiftedSlots ==
  ASSUME NEW g \in Groups, slots \in [Groups -> Seq(Buffers)], Len(slots[g]) <= MaxSlots,
         slots[g] # <<>>, slots' = [slots EXCEPT ![g] = Tail(@)],
         NEW x \in Buffers, OwnersOf(x)' = OwnersOf(x), MappersOf(x)' = MappersOf(x),
         CallsOn(x)' = CallsOn(x)
  PROVE  ExistsBijection(Holders(x) \ {<<"slot", <<g, 1>>>>}, Holders(x)')
<1> DEFINE A == Holders(x) \ {<<"slot", <<g, 1>>>>}
           B == ({"own"} \X OwnersOf(x)) \cup ({"slot"} \X SlotsOf(x)')
                  \cup ({"map"} \X MappersOf(x)) \cup ({"in"} \X CallsOn(x))
           Moved(h) == \E n \in 2 .. MaxSlots : h = <<"slot", <<g, n>>>>
           f == [h \in A |-> IF Moved(h) THEN <<"slot", <<g, h[2][2] - 1>>>> ELSE h]
<1>B. Holders(x)' = B
  BY DEF Holders, BufferHolders
<1>M. MaxSlots \in Nat
  BY NamesDiffer
<1>s. /\ slots'[g] \in Seq(Buffers) /\ Len(slots'[g]) = Len(slots[g]) - 1
      /\ \A n \in 1 .. (Len(slots[g]) - 1) : slots'[g][n] = slots[g][n + 1]
      /\ \A y \in Groups \ {g} : slots'[y] = slots[y]
      /\ slots[g] \in Seq(Buffers) /\ Len(slots[g]) \in Nat
  <2>1. slots'[g] = Tail(slots[g]) /\ \A y \in Groups \ {g} : slots'[y] = slots[y]
    OBVIOUS
  <2> QED
    BY <2>1, HeadTailProperties
<1>1. \A n \in 1 .. (MaxSlots - 1) : <<g, n>> \in SlotsOf(x)' <=> <<g, n + 1>> \in SlotsOf(x)
  BY <1>s, <1>M DEF SlotsOf
<1>2. \A p : p[1] # g => (p \in SlotsOf(x)' <=> p \in SlotsOf(x))
  BY <1>s DEF SlotsOf
<1>3. \A n : <<g, n>> \in SlotsOf(x)' => n \in 1 .. (MaxSlots - 1)
  BY <1>s, <1>M DEF SlotsOf
<1>4. \A p : p \in SlotsOf(x) \/ p \in SlotsOf(x)' =>
        p = <<p[1], p[2]>> /\ p[1] \in Groups /\ p[2] \in 1 .. MaxSlots
  BY DEF SlotsOf
<1>5. \A p : <<"slot", p>> \in B <=> p \in SlotsOf(x)'
  OBVIOUS
<1>6. \A p : <<"slot", p>> \in Holders(x) <=> p \in SlotsOf(x)
  BY HolderKinds
<1>7. \A h \in A : Moved(h) =>
        \E n \in 2 .. MaxSlots : h = <<"slot", <<g, n>>>> /\ f[h] = <<"slot", <<g, n - 1>>>>
  OBVIOUS
<1>8. \A h \in A : ~Moved(h) => f[h] = h
  OBVIOUS
<1>9. \A h : h \in Holders(x) =>
        \/ h \in ({"own"} \X OwnersOf(x)) \cup ({"map"} \X MappersOf(x)) \cup ({"in"} \X CallsOn(x))
        \/ \E p \in SlotsOf(x) : h = <<"slot", p>>
  BY DEF Holders, BufferHolders
<1>10. \A h : h \in B =>
        \/ h \in ({"own"} \X OwnersOf(x)) \cup ({"map"} \X MappersOf(x)) \cup ({"in"} \X CallsOn(x))
        \/ \E p \in SlotsOf(x)' : h = <<"slot", p>>
  OBVIOUS
<1>11. \A h : h \in ({"own"} \X OwnersOf(x)) \cup ({"map"} \X MappersOf(x)) \cup ({"in"} \X CallsOn(x))
         => h \in A /\ h \in B /\ ~Moved(h)
  BY DEF Holders, BufferHolders
<1>12. ASSUME NEW h \in A PROVE f[h] \in B
  <2>1. CASE Moved(h)
    <3>1. PICK n \in 2 .. MaxSlots : h = <<"slot", <<g, n>>>> /\ f[h] = <<"slot", <<g, n - 1>>>>
      BY <1>7, <2>1
    <3>2. <<g, n>> \in SlotsOf(x)
      BY <3>1, <1>6
    <3>3. n - 1 \in 1 .. (MaxSlots - 1) /\ (n - 1) + 1 = n
      BY <1>M
    <3>4. <<g, n - 1>> \in SlotsOf(x)'
      BY <3>2, <3>3, <1>1
    <3> QED
      BY <3>1, <3>4, <1>5
  <2>2. CASE ~Moved(h)
    <3>1. f[h] = h
      BY <1>8, <2>2
    <3>2. CASE h \in ({"own"} \X OwnersOf(x)) \cup ({"map"} \X MappersOf(x))
                       \cup ({"in"} \X CallsOn(x))
      BY <3>1, <3>2, <1>11
    <3>3. CASE \E p \in SlotsOf(x) : h = <<"slot", p>>
      <4>1. PICK p \in SlotsOf(x) : h = <<"slot", p>>
        BY <3>3
      <4>2. p = <<p[1], p[2]>> /\ p[2] \in 1 .. MaxSlots /\ h # <<"slot", <<g, 1>>>>
        BY <1>4
      <4>3. p[1] # g
        <5> SUFFICES ASSUME p[1] = g PROVE FALSE
          OBVIOUS
        <5>1. h = <<"slot", <<g, p[2]>>>>
          BY <4>1, <4>2
        <5>2. p[2] # 1
          BY <4>2, <5>1
        <5>3. p[2] \in 2 .. MaxSlots
          BY <4>2, <5>2, <1>M
        <5> QED
          BY <5>1, <5>3, <2>2
      <4>4. p \in SlotsOf(x)'
        BY <4>3, <1>2
      <4> QED
        BY <3>1, <4>1, <4>4, <1>5
    <3> QED
      BY <3>2, <3>3, <1>9
  <2> QED
    BY <2>1, <2>2
<1>13. ASSUME NEW h \in A, NEW k \in A, f[h] = f[k] PROVE h = k
  <2>1. ASSUME NEW y \in A, NEW z \in A, Moved(y), ~Moved(z), f[y] = f[z] PROVE FALSE
    <3>1. PICK n \in 2 .. MaxSlots : y = <<"slot", <<g, n>>>> /\ f[y] = <<"slot", <<g, n - 1>>>>
      BY <1>7, <2>1
    <3>2. z = <<"slot", <<g, n - 1>>>>
      BY <3>1, <2>1, <1>8
    <3>3. n - 1 # 1 /\ n - 1 \in 1 .. MaxSlots
      BY <3>2, <1>M
    <3>4. n - 1 \in 2 .. MaxSlots
      BY <3>3, <1>M
    <3> QED
      BY <3>2, <3>4, <2>1
  <2>2. CASE Moved(h) /\ Moved(k)
    <3>1. PICK n \in 2 .. MaxSlots : h = <<"slot", <<g, n>>>> /\ f[h] = <<"slot", <<g, n - 1>>>>
      BY <1>7, <2>2
    <3>2. PICK m \in 2 .. MaxSlots : k = <<"slot", <<g, m>>>> /\ f[k] = <<"slot", <<g, m - 1>>>>
      BY <1>7, <2>2
    <3>3. n - 1 = m - 1
      BY <3>1, <3>2, <1>13
    <3> QED
      BY <3>1, <3>2, <3>3, <1>M
  <2>3. CASE ~Moved(h) /\ ~Moved(k)
    BY <2>3, <1>8, <1>13
  <2> QED
    BY <1>13, <2>1, <2>2, <2>3
<1>14. ASSUME NEW k \in B PROVE \E h \in A : f[h] = k
  <2>1. CASE k \in ({"own"} \X OwnersOf(x)) \cup ({"map"} \X MappersOf(x)) \cup ({"in"} \X CallsOn(x))
    <3>1. k \in A /\ f[k] = k
      BY <2>1, <1>8, <1>11
    <3> QED
      BY <3>1
  <2>2. CASE \E p \in SlotsOf(x)' : k = <<"slot", p>>
    <3>1. PICK p \in SlotsOf(x)' : k = <<"slot", p>>
      BY <2>2
    <3>2. p = <<p[1], p[2]>>
      BY <1>4
    <3>3. CASE p[1] # g
      <4>1. p \in SlotsOf(x)
        BY <3>3, <1>2
      <4>2. k \in A /\ ~Moved(k)
        BY <3>1, <3>2, <3>3, <4>1, <1>6
      <4> QED
        BY <4>2, <1>8
    <3>4. CASE p[1] = g
      <4>1. PICK n \in 1 .. (MaxSlots - 1) : p = <<g, n>>
        BY <3>2, <3>4, <1>3
      <4>2. <<g, n + 1>> \in SlotsOf(x) /\ n + 1 \in 2 .. MaxSlots /\ n + 1 # 1
        BY <4>1, <1>1, <1>M
      <4>3. PICK h : h = <<"slot", <<g, n + 1>>>>
        OBVIOUS
      <4>4. h \in A /\ Moved(h)
        BY <4>2, <4>3, <1>6
      <4>5. f[h] = <<"slot", <<g, n>>>>
        <5>1. PICK m \in 2 .. MaxSlots : h = <<"slot", <<g, m>>>> /\ f[h] = <<"slot", <<g, m - 1>>>>
          BY <4>4, <1>7
        <5>2. m = n + 1
          BY <5>1, <4>3
        <5>3. m - 1 = n
          BY <5>2, <1>M
        <5> QED
          BY <5>1, <5>3
      <4> QED
        BY <3>1, <4>1, <4>4, <4>5
    <3> QED
      BY <3>3, <3>4
  <2> QED
    BY <2>1, <2>2, <1>10
<1>15. f \in Bijection(A, B)
  <2>1. f \in [A -> B]
    BY <1>12
  <2> HIDE DEF f, A, B
  <2> QED
    BY <2>1, <1>13, <1>14, Fun_IsBij
<1> HIDE DEF f, A, B
<1>16. ExistsBijection(A, B)
  BY <1>15 DEF ExistsBijection
<1> QED
  BY <1>16, <1>B DEF A

\* xrp_release_buffer_group releases the next buffer.
LEMMA ReleaseSlotStep ==
  ASSUME IInv, NEW t \in Threads, ReleaseSlot(t)
  PROVE  IInv'
<1>u. UNCHANGED <<own, mapped, storage, grp, at, cmd, snap, req, reqGroup>>
  BY DEF ReleaseSlot, cliVars, reqVars
<1>g. PICK g \in Groups : g = grp[t] /\ mem[g] = "closing" /\ pc[t] = "group"
  BY TheThreads DEF ReleaseSlot, GroupOK, DestroysGroup, Dtors
<1>t. /\ slots \in [Groups -> Seq(Buffers)] /\ slots[g] \in Seq(Buffers)
      /\ \A x \in Groups : Len(slots[x]) <= MaxSlots
  BY DEF IInv, TypeOK
<1>n. slots[g] # <<>> /\ 1 \in DOMAIN slots[g] /\ Head(slots[g]) = slots[g][1]
  <2>1. slots[g] # <<>>
    BY <1>g DEF ReleaseSlot
  <2> QED
    BY <2>1, <1>t
<1>b. PICK b \in Buffers :
        /\ b = slots[g][1] /\ b \in Objects /\ mem[b] = "live" /\ ref[b] \in Nat \ {0}
        /\ <<"slot", <<g, 1>>>> \in Holders(b)
  BY <1>n, SlotLive, Names
<1>e. DropBuffer(t, b, "group") /\ slots' = [slots EXCEPT ![g] = Tail(@)]
  BY <1>g, <1>n, <1>b DEF ReleaseSlot
<1>s. /\ slots' \in [Groups -> Seq(Buffers)] /\ \A x \in Groups : Len(slots'[x]) <= MaxSlots
      /\ \A x \in Groups \ {g} : slots'[x] = slots[x]
  <2>1. slots'[g] = Tail(slots[g]) /\ \A x \in Groups \ {g} : slots'[x] = slots[x]
    BY <1>e, <1>t
  <2>2. Tail(slots[g]) \in Seq(Buffers) /\ Len(Tail(slots[g])) = Len(slots[g]) - 1
    BY <1>t, <1>n, HeadTailProperties
  <2>3. Len(slots[g]) \in Nat /\ MaxSlots \in Nat
    BY <1>t, NamesDiffer
  <2>4. slots' \in [Groups -> Seq(Buffers)]
    BY <2>2, <1>e, <1>t
  <2> QED
    BY <2>1, <2>2, <2>3, <2>4, <1>t
<1>c. \A x \in Groups : Contents(x) \subseteq Contents(x)' \/ mem[x] = "closing"
  BY <1>s, <1>g DEF Contents
<1>1. /\ ObjectsOK' /\ ReqsOK' /\ NotReplaced'
      /\ ref' \in [Objects -> Nat] /\ mem' \in [Objects -> MemStates] /\ TypedPC'
      /\ buf' \in [Threads -> Buffers \cup {NULL}]
      /\ \A u \in Threads : (BufferOK(u) /\ GroupOK(u) /\ RequestOK(u) /\ SnapOK(u))'
      /\ \A u, v \in Threads : u # v => Exclusive(u, v)'
  BY <1>u, <1>g, <1>b, <1>e, <1>c, DropBufferThreads
<1>2. TypeOK'
  BY <1>u, <1>1, <1>s DEF IInv, TypeOK, TypedPC
<1>3. RefExact'
  <2>1. /\ \A x : RequestsOf(x)' = RequestsOf(x) /\ CallsOn(x)' = CallsOn(x)
        /\ Allocating' = Allocating /\ WithStorage' = WithStorage
    BY <1>u, <1>g, <1>e, DropBufferMoves, OthersQuiet
  <2>2. \A x : OwnersOf(x)' = OwnersOf(x) /\ MappersOf(x)' = MappersOf(x)
    BY <1>u DEF OwnersOf, MappersOf, MappedBuffers
  <2>3. ref' = [ref EXCEPT ![b] = @ - 1] /\ ref \in [Objects -> Nat]
    BY <1>e, Locals DEF DropBuffer, Dec
  <2>4. ASSUME NEW o \in Objects PROVE ref'[o] = Cardinality(Holders(o)')
    <3>1. ref[o] = Cardinality(Holders(o))
      BY DEF IInv, RefExact
    <3>2. CASE o \in Buffers
      <4> DEFINE S == Holders(o) \ {<<"slot", <<g, 1>>>>}
      <4>1. ExistsBijection(S, Holders(o)')
        BY <3>2, <2>1, <2>2, <1>t, <1>n, <1>e, ShiftedSlots
      <4>2. IsFiniteSet(Holders(o)) /\ IsFiniteSet(S)
        BY HoldersFinite, FS_Subset
      <4>3. Cardinality(Holders(o)') = Cardinality(S)
        BY <4>1, <4>2, FS_Bijection
      <4>4. CASE o = b
        <5>1. Cardinality(S) = Cardinality(Holders(o)) - 1
          BY <4>2, <4>4, <1>b, FS_RemoveElement
        <5> QED
          BY <5>1, <4>3, <4>4, <3>1, <2>3
      <4>5. CASE o # b
        <5>1. <<g, 1>> \notin SlotsOf(o)
          BY <4>5, <1>b DEF SlotsOf
        <5>2. <<"slot", <<g, 1>>>> \notin Holders(o)
          BY <5>1, <3>2, HolderKinds
        <5>3. S = Holders(o)
          BY <5>2
        <5> QED
          BY <5>3, <4>3, <4>5, <3>1, <2>3
      <4> QED
        BY <4>4, <4>5
    <3>3. CASE o \notin Buffers
      <4>1. Holders(o)' = Holders(o)
        BY <3>3, <2>1, <2>2, HoldersSame DEF OthersSame
      <4> QED
        BY <4>1, <3>1, <3>3, <2>3
    <3> QED
      BY <3>2, <3>3
  <2> QED
    BY <2>4 DEF RefExact
<1>4. \A x \in Clients : MappingOK(x)'
  BY <1>u, MappingsSame
<1> QED
  BY <1>1, <1>2, <1>3, <1>4, InvParts

-----------------------------------------------------------------------------
(* Releases of groups: by an owner and at the end of a request.            *)

LEMMA DropGroupThreads ==
  ASSUME IInv, NEW t \in Threads, NEW g \in Groups, NEW l, mem[g] = "live",
         DropGroup(t, g, l),
         \/ t \in Clients /\ pc[t] = "idle" /\ l = "idle"
         \/ t \in Workers /\ pc[t] = "drop" /\ l = "signal",
         UNCHANGED <<mapped, storage, slots, buf, at, cmd, snap, req, reqGroup>>,
         \A u \in Clients \ {t} : own[u] \subseteq own'[u],
         own' \in [Clients -> SUBSET Objects], RefExact'
  PROVE  IInv'
<1>t. TypeOK /\ g \in Objects /\ g # Device
  BY Names DEF IInv
<1>g. /\ RequestOK(t) /\ snap[t] = {} /\ pc[t] \in {"idle", "drop"} /\ l \in {"idle", "signal"}
      /\ t \in Clients => t \notin Workers
      /\ t \in Workers => t \notin Clients
  BY TheThreads, Names DEF SnapOK
<1>e. /\ Goto(t, IF LastRef(g) THEN "group" ELSE l)
      /\ grp' = [grp EXCEPT ![t] = IF LastRef(g) THEN g ELSE NULL]
      /\ Dec(g) /\ mem' = IF LastRef(g) THEN [mem EXCEPT ![g] = "closing"] ELSE mem
  BY DEF DropGroup
<1>p. /\ TypedPC' /\ pc'[t] = (IF LastRef(g) THEN "group" ELSE l)
      /\ \A u \in Threads \ {t} : pc'[u] = pc[u]
  BY <1>e, <1>t, <1>g, Moves DEF ClientPCs, WorkerPCs, Dtors
<1>s. /\ grp' \in [Threads -> Groups \cup {NULL}]
      /\ grp'[t] = IF LastRef(g) THEN g ELSE NULL
      /\ \A u \in Threads \ {t} : grp'[u] = grp[u]
  BY <1>e, <1>t, Locals
<1>2. AllocsKept
  BY <1>g, <1>p, Names DEF AllocsKept
<1>3. /\ ObjectsOK' /\ Settled
      /\ ref' \in [Objects -> Nat] /\ mem' \in [Objects -> MemStates]
  BY <1>t, <1>e, <1>2, DropObjects
<1>m. mem'[g] = IF LastRef(g) THEN "closing" ELSE "live"
  BY <1>e, <1>t, Locals
<1>1. TypeOK'
  BY <1>p, <1>s, <1>3 DEF IInv, TypeOK, TypedPC
<1>5. StepOf(t)
  BY <1>p, <1>s DEF StepOf, SameLocals, Contents
<1>6. ThreadOK(t)'
  <2>1. BufferOK(t)'
    BY <1>p, <1>g DEF BufferOK, DestroysBuffer
  <2>2. GroupOK(t)'
    BY <1>p, <1>s, <1>g, <1>m, Names DEF GroupOK, DestroysBuffer, DestroysGroup, Dtors
  <2>3. RequestOK(t)'
    BY <1>p, <1>g DEF RequestOK
  <2>4. SnapOK(t)'
    BY <1>p, <1>g DEF SnapOK
  <2> QED
    BY <2>1, <2>2, <2>3, <2>4 DEF ThreadOK
<1>7. \A u \in Threads \ {t} : Exclusive(t, u)' /\ Exclusive(u, t)'
  <2>1. ~DestroysBuffer(t)'
    BY <1>p, <1>g DEF DestroysBuffer
  <2>2. DestroysGroup(t)' => mem[grp'[t]] # "closing"
    BY <1>s DEF DestroysGroup
  <2> QED
    BY <2>1, <2>2, <1>5, Alone
<1>8. ReqsOK'
  BY DEF IInv, ReqsOK
<1>9. NotReplaced'
  BY <1>5, <1>p, <1>g, NoNewUse DEF StepOf
<1>10. \A x \in Clients : MappingOK(x)'
  BY MappingsSame
<1> QED
  BY <1>1, <1>3, <1>5, <1>6, <1>7, <1>8, <1>9, <1>10, AllThreads, InvParts

LEMMA DropGroupMoves ==
  ASSUME IInv, NEW t \in Threads, NEW g, NEW l, DropGroup(t, g, l)
  PROVE  /\ pc'[t] \in {"group", l}
         /\ \A u \in Threads \ {t} : pc'[u] = pc[u]
<1>1. /\ pc' = [pc EXCEPT ![t] = IF LastRef(g) THEN "group" ELSE l]
      /\ pc \in [Threads -> ClientPCs \cup WorkerPCs]
  BY DEF DropGroup, Goto, IInv, TypeOK
<1> QED
  BY <1>1

\* xrp_release_buffer_group by an owner.
LEMMA ReleaseGroupStep ==
  ASSUME IInv, NEW t \in Clients, NEW g \in Groups, ReleaseGroup(t, g)
  PROVE  IInv'
<1>u. UNCHANGED <<mapped, storage, slots, buf, at, cmd, snap, req, reqGroup>>
  BY DEF ReleaseGroup, reqVars
<1>t. t \in Threads /\ t \notin Workers
  BY Names
<1>g. pc[t] = "idle" /\ g \in own[t] /\ mem[g] = "live"
  BY OwnedLive DEF ReleaseGroup
<1>e. DropGroup(t, g, "idle") /\ own' = [own EXCEPT ![t] = @ \ {g}]
  BY DEF ReleaseGroup
<1>1. \A u \in Clients \ {t} : own[u] \subseteq own'[u]
  BY <1>e, Locals
<1>2. CallsKept /\ RequestsKept
  <2>1. pc'[t] \in {"idle", "group"} /\ \A u \in Threads \ {t} : pc'[u] = pc[u]
    BY <1>t, <1>e, DropGroupMoves
  <2>2. CallsKept
    BY <2>1, <1>u, <1>g, Names DEF CallsKept, InCall
  <2>3. RequestsKept
    BY <2>1, <1>u, <1>t, Names DEF RequestsKept
  <2> QED
    BY <2>2, <2>3
<1>3. \A x : OthersSame(x)
  BY <1>2, <1>u, OthersFrame
<1>4. RefExact' /\ own' \in [Clients -> SUBSET Objects]
  BY <1>3, <1>g, <1>e, OwnerReleases DEF DropGroup
<1> QED
  BY <1>u, <1>t, <1>g, <1>e, <1>1, <1>4, DropGroupThreads

\* xrp_request_process releases the group of the request.
LEMMA DropRequestGroupStep ==
  ASSUME IInv, NEW w \in Workers, DropRequestGroup(w)
  PROVE  IInv'
<1>u. UNCHANGED <<own, mapped, storage, slots, buf, at, cmd, snap, req, reqGroup>>
  BY DEF DropRequestGroup, cliVars, reqVars
<1>t. w \in Threads /\ w \notin Clients
  BY Names
<1>c. PICK c \in Cmds : c = cmd[w] /\ req[c] = "running"
  BY <1>t, TheThreads DEF DropRequestGroup, RequestOK
<1>g. PICK g \in Groups : g = grp[w] /\ g = reqGroup[c] /\ pc[w] = "drop"
  BY <1>t, <1>c, TheThreads DEF DropRequestGroup, GroupOK
<1>h. HoldsGroup(c, g) /\ mem[g] = "live" /\ <<"req", c>> \in Holders(g) /\ g \in Objects
  <2>1. HoldsGroup(c, g)
    BY <1>c, <1>g DEF HoldsGroup
  <2> QED
    BY <2>1, RequestLive, Names
<1>e. DropGroup(w, g, "signal")
  BY <1>g DEF DropRequestGroup
<1>p. pc'[w] \in {"group", "signal"} /\ \A u \in Threads \ {w} : pc'[u] = pc[u]
  BY <1>t, <1>e, DropGroupMoves
<1>r. \A x : RequestsOf(x)' = IF x = g THEN RequestsOf(x) \ {c} ELSE RequestsOf(x)
  <2>1. \A v \in Workers \ {w} : cmd[v] # c
    BY <1>t, <1>c, TheThreads, Names DEF Exclusive
  <2>2. ASSUME NEW x PROVE ~HoldsGroup(c, x)'
    BY <2>1, <1>u, <1>c, <1>p DEF HoldsGroup
  <2>3. ASSUME NEW x, NEW d \in Cmds \ {c} PROVE HoldsGroup(d, x)' <=> HoldsGroup(d, x)
    <3>1. \A v \in Workers : cmd[v] = d => pc'[v] = pc[v]
      BY <1>c, <1>p, Names
    <3> QED
      BY <3>1, <1>u DEF HoldsGroup
  <2>4. \A x : HoldsGroup(c, x) => x = g
    BY <1>g DEF HoldsGroup
  <2> QED
    BY <2>2, <2>3, <2>4 DEF RequestsOf
<1>k. CallsKept
  BY <1>u, <1>t, <1>p, Names DEF CallsKept
<1>o. /\ \A x : /\ OwnersOf(x)' = OwnersOf(x) /\ SlotsOf(x)' = SlotsOf(x)
                /\ MappersOf(x)' = MappersOf(x) /\ CallsOn(x)' = CallsOn(x)
      /\ WithStorage' = WithStorage /\ Allocating' = Allocating
  BY <1>u, <1>k, CallsSame DEF OwnersOf, SlotsOf, MappersOf, MappedBuffers, WithStorage
<1>4. RefExact'
  <2>1. ref' = [ref EXCEPT ![g] = @ - 1] /\ ref \in [Objects -> Nat]
    BY <1>e, Locals DEF DropGroup, Dec
  <2>2. ASSUME NEW o \in Objects PROVE Counted(o)'
    <3>1. Counted(o)
      BY DEF IInv, RefExact, Counted
    <3>2. CASE o = g
      <4>1. {"req"} \X (RequestsOf(o) \ {c}) = ({"req"} \X RequestsOf(o)) \ {<<"req", c>>}
        OBVIOUS
      <4>2. GroupHolders(o)' = GroupHolders(o) \ {<<"req", c>>}
        BY <4>1, <3>2, <1>r, <1>o DEF GroupHolders
      <4>3. Holders(o)' = Holders(o) \ {<<"req", c>>}
        BY <4>2, <3>2, Names DEF Holders
      <4> QED
        BY <4>3, <3>1, <3>2, <2>1, <1>h, RemoveHolder
    <3>3. CASE o # g
      <4>1. OthersSame(o) /\ OwnersOf(o)' = OwnersOf(o)
        BY <3>3, <1>r, <1>o DEF OthersSame
      <4>2. ref'[o] = ref[o]
        BY <3>3, <2>1
      <4> QED
        BY <4>1, <4>2, <3>1, HoldersSame, SameCount
    <3> QED
      BY <3>2, <3>3
  <2> QED
    BY <2>2 DEF RefExact, Counted
<1>5. own' \in [Clients -> SUBSET Objects] /\ \A u \in Clients : own[u] \subseteq own'[u]
  BY <1>u, Locals
<1> QED
  BY <1>u, <1>t, <1>g, <1>h, <1>e, <1>4, <1>5, DropGroupThreads

-----------------------------------------------------------------------------
(* The rest of the destructors: nobody else knows what they destroy.       *)

\* Holders when a step goes from one place to another where t holds nothing.
LEMMA DtorCounts ==
  ASSUME IInv, NEW t \in Threads, pc[t] \in Dtors, pc'[t] \in Dtors \cup {"idle", "signal"},
         \A u \in Threads \ {t} : pc'[u] = pc[u] /\ buf'[u] = buf[u],
         UNCHANGED <<own, mapped, slots, cmd, req, reqGroup>>
  PROVE  /\ \A x : /\ OwnersOf(x)' = OwnersOf(x) /\ SlotsOf(x)' = SlotsOf(x)
                   /\ MappersOf(x)' = MappersOf(x) /\ CallsOn(x)' = CallsOn(x)
                   /\ RequestsOf(x)' = RequestsOf(x)
         /\ Allocating' = Allocating
         /\ AllocsKept
         /\ \A o \in Objects \ {Device} : Holders(o)' = Holders(o)
<1>1. CallsKept /\ RequestsKept /\ AllocsKept
  BY Names DEF CallsKept, RequestsKept, AllocsKept, InCall, AtGroup, Dtors
<1>2. \A x : OwnersOf(x)' = OwnersOf(x) /\ SlotsOf(x)' = SlotsOf(x) /\ MappersOf(x)' = MappersOf(x)
  BY DEF OwnersOf, SlotsOf, MappersOf, MappedBuffers
<1>3. \A o \in Objects \ {Device} : Holders(o)' = Holders(o)
  BY <1>1, <1>2, CallsSame, RequestsSame, HoldersSame DEF OthersSame
<1> QED
  BY <1>1, <1>2, <1>3, CallsSame, RequestsSame

\* The object is freed; its count was 0 and nothing holds it.
LEMMA FreeObjects ==
  ASSUME IInv, NEW X \in Objects, X # Device, mem[X] = "closing",
         X \in Buffers => storage[X] = NULL,
         mem' = [mem EXCEPT ![X] = "freed"], UNCHANGED <<ref, storage>>, AllocsKept
  PROVE  /\ ObjectsOK' /\ mem' \in [Objects -> MemStates]
         /\ \A o \in Objects \ {X} : mem'[o] = mem[o]
<1>1. /\ mem \in [Objects -> MemStates] /\ mem' \in [Objects -> MemStates]
      /\ mem'[X] = "freed" /\ \A o \in Objects \ {X} : mem'[o] = mem[o]
  BY Locals DEF MemStates
<1>2. ASSUME NEW o \in Objects PROVE LifeOK(o)'
  <2>1. LifeOK(o)
    BY DEF IInv
  <2> QED
    BY <2>1, <1>1 DEF LifeOK, AllocsKept
<1>3. DeviceOK'
  BY <1>1, Names DEF IInv, DeviceOK
<1>4. ASSUME NEW b \in Buffers PROVE StorageOK(b)'
  <2>1. StorageOK(b) /\ b \in Objects
    BY Names DEF IInv
  <2> QED
    BY <2>1, <1>1 DEF StorageOK
<1> QED
  BY <1>1, <1>2, <1>3, <1>4 DEF ObjectsOK

LEMMA FreeGroupStep ==
  ASSUME IInv, NEW t \in Threads, FreeGroup(t)
  PROVE  IInv'
<1>u. UNCHANGED <<ref, own, mapped, storage, slots, buf, at, cmd, snap, req, reqGroup>>
  BY DEF FreeGroup, cliVars, reqVars
<1>t. TypeOK
  BY DEF IInv
<1>g. PICK g \in Groups :
        /\ g = grp[t] /\ g \in Objects /\ g # Device /\ g \notin Buffers
        /\ mem[g] = "closing" /\ pc[t] = "group" /\ snap[t] = {} /\ RequestOK(t)
        /\ g \in DestroyedBy(t)
  BY TheThreads, Names DEF FreeGroup, GroupOK, SnapOK, DestroysGroup, DestroyedBy, Dtors
<1>e. /\ Goto(t, IF t \in Workers THEN "signal" ELSE "idle")
      /\ mem' = [mem EXCEPT ![g] = "freed"] /\ grp' = [grp EXCEPT ![t] = NULL]
  BY <1>g DEF FreeGroup
<1>p. /\ TypedPC' /\ \A u \in Threads \ {t} : pc'[u] = pc[u]
      /\ pc'[t] = IF t \in Workers THEN "signal" ELSE "idle"
  BY <1>e, <1>t, Names, Moves DEF ClientPCs, WorkerPCs
<1>s. /\ grp' \in [Threads -> Groups \cup {NULL}] /\ grp'[t] = NULL
      /\ \A u \in Threads \ {t} : grp'[u] = grp[u]
  BY <1>e, Locals
<1>k. /\ Allocating' = Allocating /\ AllocsKept
      /\ \A x : OwnersOf(x)' = OwnersOf(x)
      /\ \A o \in Objects \ {Device} : Holders(o)' = Holders(o)
  BY <1>u, <1>g, <1>p, DtorCounts DEF Dtors
<1>3. /\ ObjectsOK' /\ mem' \in [Objects -> MemStates]
      /\ \A o \in Objects \ {g} : mem'[o] = mem[o]
  BY <1>u, <1>g, <1>e, <1>k, FreeObjects
<1>4. RefExact'
  <2>1. WithStorage' = WithStorage
    BY <1>u DEF WithStorage
  <2>2. Holders(Device)' = Holders(Device)
    BY <2>1, <1>k, Names, HoldersSame DEF OthersSame
  <2>3. \A o \in Objects : Holders(o)' = Holders(o)
    BY <2>2, <1>k
  <2> QED
    BY <2>3, <1>u DEF IInv, RefExact
<1>1. TypeOK'
  BY <1>u, <1>p, <1>s, <1>3 DEF IInv, TypeOK, TypedPC
<1>5. StepOf(t) /\ SettledBut(t)
  <2>1. StepOf(t)
    BY <1>u, <1>p, <1>s DEF StepOf, SameLocals, Contents
  <2>2. SettledBut(t)
    BY <1>3, <1>g, <1>u DEF SettledBut
  <2> QED
    BY <2>1, <2>2
<1>6. ThreadOK(t)'
  <2>1. BufferOK(t)' /\ GroupOK(t)'
    BY <1>u, <1>p, <1>s, Names DEF BufferOK, GroupOK, DestroysBuffer, DestroysGroup, Dtors
  <2>2. RequestOK(t)' /\ SnapOK(t)'
    BY <1>u, <1>p, <1>g, Names DEF RequestOK, SnapOK
  <2> QED
    BY <2>1, <2>2 DEF ThreadOK
<1>7. \A u \in Threads \ {t} : Exclusive(t, u)' /\ Exclusive(u, t)'
  BY <1>5, <1>p, <1>u, Alone DEF DestroysBuffer, DestroysGroup, Dtors
<1>8. ReqsOK'
  BY <1>u DEF IInv, ReqsOK
<1>9. NotReplaced'
  BY <1>5, <1>u, <1>p, NoNewUse DEF StepOf
<1>10. \A x \in Clients : MappingOK(x)'
  BY <1>u, MappingsSame
<1> QED
  BY <1>1, <1>3, <1>4, <1>5, <1>6, <1>7, <1>8, <1>9, <1>10, AllThreadsBut, InvParts

\* The destructor of a buffer knows it, and goes on with the group, if it was
\* called from the destructor of one.
LEMMA DestroysOne ==
  ASSUME IInv, NEW t \in Threads, DestroysBuffer(t)
  PROVE  \E b \in Buffers :
           /\ b = buf[t] /\ b \in Objects /\ b # Device /\ b \notin Groups
           /\ mem[b] = "closing" /\ b \in MadeBy(t)
           /\ storage[b] # NULL <=> pc[t] = "buffer" /\ b \notin HostBuffers
           /\ snap[t] = {} /\ RequestOK(t) /\ pc[t] \in Dtors
           /\ t \in Workers => grp[t] # NULL
           /\ grp[t] # NULL => mem[grp[t]] = "closing"
<1>1. /\ BufferOK(t) /\ GroupOK(t) /\ RequestOK(t) /\ SnapOK(t)
      /\ pc[t] \in {"buffer", "bufferFree"}
  BY TheThreads DEF DestroysBuffer
<1>2. PICK b \in Buffers : b = buf[t] /\ mem[b] = "closing"
  BY <1>1 DEF BufferOK, DestroysBuffer
<1>3. storage[b] # NULL <=> pc[t] = "buffer" /\ b \notin HostBuffers
  BY <1>1, <1>2 DEF BufferOK, DestroysBuffer
<1>4. /\ t \in Workers => grp[t] # NULL
      /\ grp[t] # NULL => mem[grp[t]] = "closing"
      /\ snap[t] = {} /\ pc[t] \in Dtors
  BY <1>1 DEF GroupOK, SnapOK, DestroysBuffer, DestroysGroup, Dtors
<1>5. b \in Objects /\ b # Device /\ b \notin Groups /\ b \in MadeBy(t)
  BY <1>2, Names DEF MadeBy
<1> QED
  BY <1>1, <1>2, <1>3, <1>4, <1>5

LEMMA FreeBufferStep ==
  ASSUME IInv, NEW t \in Threads, FreeBuffer(t)
  PROVE  IInv'
<1>u. UNCHANGED <<ref, own, mapped, storage, slots, grp, at, cmd, snap, req, reqGroup>>
  BY DEF FreeBuffer, cliVars, reqVars
<1>t. TypeOK
  BY DEF IInv
<1>w. pc[t] = "bufferFree"
  BY DEF FreeBuffer
<1>g. PICK b \in Buffers :
        /\ b = buf[t] /\ b \in Objects /\ b # Device /\ b \notin Groups
        /\ mem[b] = "closing" /\ b \in MadeBy(t)
        /\ storage[b] # NULL <=> pc[t] = "buffer" /\ b \notin HostBuffers
        /\ snap[t] = {} /\ RequestOK(t) /\ pc[t] \in Dtors
        /\ t \in Workers => grp[t] # NULL
        /\ grp[t] # NULL => mem[grp[t]] = "closing"
  BY <1>w, DestroysOne DEF DestroysBuffer
<1>e. /\ Goto(t, IF grp[t] = NULL THEN "idle" ELSE "group")
      /\ mem' = [mem EXCEPT ![b] = "freed"] /\ buf' = [buf EXCEPT ![t] = NULL]
  BY <1>g DEF FreeBuffer
<1>p. /\ TypedPC' /\ \A u \in Threads \ {t} : pc'[u] = pc[u]
      /\ pc'[t] = IF grp[t] = NULL THEN "idle" ELSE "group"
  BY <1>e, <1>t, <1>g, Moves DEF ClientPCs, WorkerPCs, Dtors
<1>s. /\ buf' \in [Threads -> Buffers \cup {NULL}] /\ buf'[t] = NULL
      /\ \A u \in Threads \ {t} : buf'[u] = buf[u]
  BY <1>e, Locals
<1>k. /\ Allocating' = Allocating /\ AllocsKept
      /\ \A x : OwnersOf(x)' = OwnersOf(x)
      /\ \A o \in Objects \ {Device} : Holders(o)' = Holders(o)
  BY <1>u, <1>g, <1>p, <1>s, DtorCounts DEF Dtors
<1>3. /\ ObjectsOK' /\ mem' \in [Objects -> MemStates]
      /\ \A o \in Objects \ {b} : mem'[o] = mem[o]
  BY <1>u, <1>w, <1>g, <1>e, <1>k, FreeObjects
<1>4. RefExact'
  <2>1. WithStorage' = WithStorage
    BY <1>u DEF WithStorage
  <2>2. Holders(Device)' = Holders(Device)
    BY <2>1, <1>k, Names, HoldersSame DEF OthersSame
  <2>3. \A o \in Objects : Holders(o)' = Holders(o)
    BY <2>2, <1>k
  <2> QED
    BY <2>3, <1>u DEF IInv, RefExact
<1>1. TypeOK'
  BY <1>u, <1>p, <1>s, <1>3 DEF IInv, TypeOK, TypedPC
<1>5. StepOf(t) /\ SettledBut(t)
  <2>1. StepOf(t)
    BY <1>u, <1>p, <1>s DEF StepOf, SameLocals, Contents
  <2>2. SettledBut(t)
    BY <1>3, <1>g, <1>u DEF SettledBut
  <2> QED
    BY <2>1, <2>2
<1>6. ThreadOK(t)'
  <2>1. BufferOK(t)'
    BY <1>p DEF BufferOK, DestroysBuffer
  <2>2. GroupOK(t)'
    <3>1. grp[t] # NULL => mem'[grp[t]] = "closing"
      <4> SUFFICES ASSUME grp[t] # NULL PROVE mem'[grp[t]] = "closing"
        OBVIOUS
      <4>1. PICK g \in Groups : g = grp[t]
        BY TheThreads
      <4>2. mem[g] = "closing" /\ g \in Objects /\ g # b
        BY <4>1, <1>g, Names
      <4> QED
        BY <4>1, <4>2, <1>3
    <3> QED
      BY <3>1, <1>p, <1>u, <1>g DEF GroupOK, DestroysBuffer, DestroysGroup, Dtors
  <2>3. RequestOK(t)'
    BY <1>p, <1>u, <1>g, Names DEF RequestOK, Dtors
  <2>4. SnapOK(t)'
    BY <1>p, <1>u, <1>g DEF SnapOK
  <2> QED
    BY <2>1, <2>2, <2>3, <2>4 DEF ThreadOK
<1>7. \A u \in Threads \ {t} : Exclusive(t, u)' /\ Exclusive(u, t)'
  <2>1. ~DestroysBuffer(t)'
    BY <1>p DEF DestroysBuffer
  <2>2. DestroysGroup(t)' => DestroysGroup(t) /\ grp'[t] = grp[t]
    BY <1>u, <1>g DEF DestroysGroup
  <2> QED
    BY <2>1, <2>2, <1>5, <1>u, Alone
<1>8. ReqsOK'
  BY <1>u DEF IInv, ReqsOK
<1>9. NotReplaced'
  BY <1>5, <1>u, <1>p, NoNewUse DEF StepOf
<1>10. \A x \in Clients : MappingOK(x)'
  BY <1>u, MappingsSame
<1> QED
  BY <1>1, <1>3, <1>4, <1>5, <1>6, <1>7, <1>8, <1>9, <1>10, AllThreadsBut, InvParts

\* xrp_impl_release_device_buffer: the storage and the reference to the device
\* that came with it.
LEMMA ReleaseStorageStep ==
  ASSUME IInv, NEW t \in Threads, ReleaseStorage(t)
  PROVE  IInv'
<1>u. UNCHANGED <<own, mapped, slots, buf, grp, at, cmd, snap, req, reqGroup>>
  BY DEF ReleaseStorage, cliVars, locVars, reqVars
<1>t. TypeOK /\ Device \in Objects
  BY Names DEF IInv
<1>w. pc[t] = "buffer"
  BY DEF ReleaseStorage
<1>g. PICK b \in Buffers :
        /\ b = buf[t] /\ b \in Objects /\ b # Device /\ b \notin Groups
        /\ mem[b] = "closing" /\ b \in MadeBy(t)
        /\ storage[b] # NULL <=> pc[t] = "buffer" /\ b \notin HostBuffers
        /\ snap[t] = {} /\ RequestOK(t) /\ pc[t] \in Dtors
        /\ t \in Workers => grp[t] # NULL
        /\ grp[t] # NULL => mem[grp[t]] = "closing"
  BY <1>w, DestroysOne DEF DestroysBuffer
<1>e. Goto(t, "bufferFree")
  BY DEF ReleaseStorage
<1>p. TypedPC' /\ pc'[t] = "bufferFree" /\ \A u \in Threads \ {t} : pc'[u] = pc[u]
  BY <1>e, <1>t, Moves DEF ClientPCs, WorkerPCs, Dtors
<1>k. /\ Allocating' = Allocating /\ AllocsKept
      /\ \A x : OwnersOf(x)' = OwnersOf(x)
      /\ \A o \in Objects \ {Device} : Holders(o)' = Holders(o)
  BY <1>u, <1>g, <1>p, DtorCounts DEF Dtors
<1>3. /\ ObjectsOK' /\ RefExact'
      /\ ref' \in [Objects -> Nat] /\ mem' \in [Objects -> MemStates]
      /\ \A o \in Objects \ {Device} : mem'[o] = mem[o] /\ ref'[o] = ref[o]
      /\ storage' \in [Buffers -> Nat \cup {NULL}]
      /\ storage'[b] = NULL /\ \A x \in Buffers \ {b} : storage'[x] = storage[x]
  <2>s. storage \in [Buffers -> Nat \cup {NULL}]
    BY Locals
  <2>1. CASE b \in HostBuffers
    <3>1. UNCHANGED <<storage, ref, mem>> /\ storage[b] = NULL
      BY <2>1, <1>g DEF ReleaseStorage
    <3>2. ObjectsOK'
      BY <3>1, <1>k, SameObjects
    <3>3. Holders(Device)' = Holders(Device)
      BY <3>1, <1>k, <1>t, Names, HoldersSame DEF OthersSame, WithStorage
    <3>4. \A o \in Objects : Holders(o)' = Holders(o)
      BY <3>3, <1>k
    <3>5. RefExact'
      BY <3>1, <3>4 DEF IInv, RefExact
    <3> QED
      BY <3>1, <3>2, <3>5, <2>s, Locals
  <2>2. CASE b \notin HostBuffers
    <3>1. /\ storage' = [storage EXCEPT ![b] = NULL] /\ Dec(Device)
          /\ mem' = IF LastRef(Device) THEN [mem EXCEPT ![Device] = "freed"] ELSE mem
      BY <2>2, <1>g DEF ReleaseStorage
    <3>2. storage[b] # NULL
      BY <2>2, <1>w, <1>g
    <3>3. mem[Device] = "live" /\ <<"buf", b>> \in Holders(Device)
      BY <3>2, StorageLive
    <3>4. /\ storage' \in [Buffers -> Nat \cup {NULL}]
          /\ storage'[b] = NULL /\ \A x \in Buffers \ {b} : storage'[x] = storage[x]
      BY <3>1, <2>s
    <3>5. \A x \in Buffers : storage'[x] = storage[x] \/ (mem[x] = "closing" /\ storage'[x] = NULL)
      BY <3>4, <1>g
    <3>6. /\ ObjectsOK' /\ ref' \in [Objects -> Nat] /\ mem' \in [Objects -> MemStates]
          /\ \A o \in Objects \ {Device} : mem'[o] = mem[o] /\ ref'[o] = ref[o]
      BY <3>1, <3>3, <3>5, <1>k, DeviceReleased
    <3>7. WithStorage' = WithStorage \ {b}
      BY <3>4 DEF WithStorage
    <3>8. {"buf"} \X (WithStorage \ {b}) = ({"buf"} \X WithStorage) \ {<<"buf", b>>}
      OBVIOUS
    <3>9. Holders(Device)' = Holders(Device) \ {<<"buf", b>>}
      BY <3>7, <3>8, <1>k, Names DEF Holders, DeviceHolders
    <3>10. ASSUME NEW o \in Objects PROVE Counted(o)'
      <4>1. Counted(o)
        BY DEF IInv, RefExact, Counted
      <4>2. CASE o = Device
        <5>1. ref'[o] = ref[o] - 1
          BY <4>2, <3>1, <1>t, Locals DEF Dec
        <5> QED
          BY <5>1, <4>1, <4>2, <3>3, <3>9, RemoveHolder
      <4>3. CASE o # Device
        BY <4>1, <4>3, <3>6, <1>k, SameCount
      <4> QED
        BY <4>2, <4>3
    <3> QED
      BY <3>4, <3>6, <3>10 DEF RefExact, Counted
  <2> QED
    BY <2>1, <2>2
<1>1. TypeOK'
  BY <1>u, <1>p, <1>3 DEF IInv, TypeOK, TypedPC
<1>5. StepOf(t) /\ SettledBut(t)
  <2>1. StepOf(t)
    BY <1>u, <1>p DEF StepOf, SameLocals, Contents
  <2>2. mem[Device] \notin {"made", "closing"}
    BY DEF IInv, DeviceOK
  <2>3. SettledBut(t)
    BY <2>2, <1>3, <1>g DEF SettledBut
  <2> QED
    BY <2>1, <2>3
<1>6. ThreadOK(t)'
  <2>1. BufferOK(t)'
    BY <1>p, <1>u, <1>g, <1>3 DEF BufferOK, DestroysBuffer
  <2>2. GroupOK(t)'
    <3>1. grp[t] # NULL => mem'[grp[t]] = "closing"
      <4> SUFFICES ASSUME grp[t] # NULL PROVE mem'[grp[t]] = "closing"
        OBVIOUS
      <4>1. PICK g \in Groups : g = grp[t]
        BY TheThreads
      <4>2. mem[g] = "closing" /\ g \in Objects /\ g # Device
        BY <4>1, <1>g, Names
      <4> QED
        BY <4>1, <4>2, <1>3
    <3> QED
      BY <3>1, <1>p, <1>u, <1>g DEF GroupOK, DestroysBuffer, DestroysGroup, Dtors
  <2>3. RequestOK(t)'
    BY <1>p, <1>u, <1>g, Names DEF RequestOK, Dtors
  <2>4. SnapOK(t)'
    BY <1>p, <1>u, <1>g DEF SnapOK
  <2> QED
    BY <2>1, <2>2, <2>3, <2>4 DEF ThreadOK
<1>7. \A u \in Threads \ {t} : Exclusive(t, u)' /\ Exclusive(u, t)'
  <2>1. DestroysBuffer(t) /\ buf'[t] = buf[t]
    BY <1>w, <1>u DEF DestroysBuffer
  <2>2. DestroysGroup(t)' => DestroysGroup(t) /\ grp'[t] = grp[t]
    BY <1>u, <1>g DEF DestroysGroup
  <2> QED
    BY <2>1, <2>2, <1>5, <1>u, Alone
<1>8. ReqsOK'
  BY <1>u DEF IInv, ReqsOK
<1>9. NotReplaced'
  BY <1>5, <1>u, <1>p, NoNewUse DEF StepOf
<1>10. \A x \in Clients : MappingOK(x)'
  BY <1>u, MappingsSame
<1> QED
  BY <1>1, <1>3, <1>5, <1>6, <1>7, <1>8, <1>9, <1>10, AllThreadsBut, InvParts

-----------------------------------------------------------------------------
(* The invariant is inductive.                                             *)

LEMMA DestructorStep ==
  ASSUME IInv, NEW t \in Threads, Destructor(t)
  PROVE  IInv'
BY ReleaseSlotStep, FreeGroupStep, ReleaseStorageStep, FreeBufferStep DEF Destructor

LEMMA NewCallStep ==
  ASSUME IInv, NEW t \in Clients, Call(t)
  PROVE  IInv'
<1>1. CASE \E u \in Clients, o \in Objects : Share(t, u, o)
  BY <1>1, ShareStep
<1>2. CASE \E b \in Buffers :
             \/ CreateHostBuffer(t, b) \/ CreateDeviceBuffer(t, b)
             \/ Sync(t, b) \/ ReleaseBuffer(t, b)
             \/ \E w \in Windows : Map(t, b, w[1], w[2])
  BY <1>2, CreateHostBufferStep, CreateDeviceBufferStep, SyncStep, ReleaseBufferStep, MapStep
<1>3. CASE \E m \in mapped[t] : Unmap(t, m)
  BY <1>3, UnmapStep
<1>4. CASE \E g \in Groups : CreateGroup(t, g) \/ ReleaseGroup(t, g) \/ RunIoctl(t, g)
  BY <1>4, CreateGroupStep, ReleaseGroupStep, RunIoctlStep
<1>5. CASE \E g \in Groups, b \in Buffers : AddBuffer(t, g, b)
  BY <1>5, AddBufferStep
<1>6. CASE \E g \in Groups, n \in 1 .. MaxSlots :
             GetBuffer(t, g, n) \/ \E b \in Buffers : SetBuffer(t, g, n, b)
  BY <1>6, GetBufferStep, SetBufferStep
<1>7. CASE \E c \in Cmds, g \in Groups : Enqueue(t, c, g)
  BY <1>7, EnqueueStep
<1>8. CASE ReleaseDevice(t)
  BY <1>8, ReleaseDeviceStep
<1> QED
  BY <1>1, <1>2, <1>3, <1>4, <1>5, <1>6, <1>7, <1>8 DEF Call

LEMMA ContinueStep ==
  ASSUME IInv, NEW t \in Clients, Continue(t)
  PROVE  IInv'
<1>1. t \in Threads
  BY Names
<1> QED
  BY <1>1, AllocatedStep, AllocFailedStep, PushStep, ReplaceStep, ReleaseOldStep, SnapshotStep,
     IoctlStep, DestructorStep DEF Continue

LEMMA WorkerStep ==
  ASSUME IInv, NEW w \in Workers, Worker(w)
  PROVE  IInv'
<1>1. w \in Threads
  BY Names
<1> QED
  BY <1>1, TakeStep, SnapshotStep, IoctlStep, DropRequestGroupStep, SignalStep, DestructorStep
     DEF Worker

LEMMA StutterStep ==
  ASSUME IInv, UNCHANGED vars
  PROVE  IInv'
<1>u. UNCHANGED <<ref, mem, own, mapped, storage, slots, pc, buf, grp, at, cmd, snap, req, reqGroup>>
  BY DEF vars
<1>1. TypeOK' /\ NotReplaced'
  BY <1>u DEF IInv, TypeOK, NotReplaced, InFlight, BeingChanged
<1>2. CallsKept /\ RequestsKept
  BY <1>u DEF CallsKept, RequestsKept
<1>3. RefExact' /\ ObjectsOK' /\ Settled /\ \A t \in Clients : MappingOK(t)'
  BY <1>u, <1>2, RequestsSame, QuietObjects
<1>4. ASSUME NEW t \in Threads PROVE (BufferOK(t) /\ GroupOK(t) /\ RequestOK(t) /\ SnapOK(t))'
  <2>1. BufferOK(t) /\ GroupOK(t) /\ RequestOK(t) /\ SnapOK(t)
    BY TheThreads
  <2>2. BufferOK(t)' /\ GroupOK(t)'
    BY <2>1, <1>u DEF BufferOK, GroupOK, DestroysBuffer, DestroysGroup
  <2>3. RequestOK(t)' /\ SnapOK(t)'
    BY <2>1, <1>u DEF RequestOK, SnapOK, Contents
  <2> QED
    BY <2>2, <2>3
<1>5. ASSUME NEW t \in Threads, NEW u \in Threads, t # u PROVE Exclusive(t, u)'
  <2>1. SameLocals(t) /\ SameLocals(u) /\ Exclusive(t, u)
    BY <1>u, <1>5 DEF IInv, SameLocals
  <2> QED
    BY <2>1, ExclusiveStays
<1>6. ReqsOK'
  BY <1>u DEF IInv, ReqsOK
<1> QED
  BY <1>1, <1>3, <1>4, <1>5, <1>6, InvParts

LEMMA InitInv ==
  ASSUME Init
  PROVE  IInv
<1>i. PICK c \in Clients : own = [u \in Clients |-> IF u = c THEN {Device} ELSE {}]
  BY DEF Init
<1>v. /\ ref = [o \in Objects |-> IF o = Device THEN 1 ELSE 0]
      /\ mem = [o \in Objects |-> IF o = Device THEN "live" ELSE "none"]
      /\ mapped = [t \in Clients |-> {}] /\ storage = [b \in Buffers |-> NULL]
      /\ slots = [g \in Groups |-> <<>>] /\ pc = [t \in Threads |-> "idle"]
      /\ buf = [t \in Threads |-> NULL] /\ grp = [t \in Threads |-> NULL]
      /\ at = [t \in Threads |-> 1] /\ cmd = [t \in Threads |-> NULL]
      /\ snap = [t \in Threads |-> {}] /\ req = [x \in Cmds |-> "none"]
      /\ reqGroup = [x \in Cmds |-> NULL]
  BY DEF Init
<1>1. TypeOK
  <2>1. /\ ref \in [Objects -> Nat] /\ mem \in [Objects -> MemStates]
        /\ own \in [Clients -> SUBSET Objects]
    BY <1>i, <1>v, Names DEF MemStates
  <2>2. /\ mapped \in [Clients -> SUBSET (Buffers \X Nat \X Nat)]
        /\ storage \in [Buffers -> Nat \cup {NULL}]
        /\ slots \in [Groups -> Seq(Buffers)] /\ \A g \in Groups : Len(slots[g]) <= MaxSlots
    BY <1>v, NamesDiffer
  <2>3. /\ pc \in [Threads -> ClientPCs \cup WorkerPCs]
        /\ \A t \in Clients : pc[t] \in ClientPCs
        /\ \A w \in Workers : pc[w] \in WorkerPCs
    BY <1>v, Names DEF ClientPCs, WorkerPCs
  <2>4. /\ buf \in [Threads -> Buffers \cup {NULL}] /\ grp \in [Threads -> Groups \cup {NULL}]
        /\ at \in [Threads -> Nat] /\ cmd \in [Threads -> Cmds \cup {NULL}]
        /\ snap \in [Threads -> SUBSET Buffers]
        /\ req \in [Cmds -> {"none", "made", "queued", "running", "done"}]
        /\ reqGroup \in [Cmds -> Groups \cup {NULL}]
    BY <1>v
  <2> QED
    BY <2>1, <2>2, <2>3, <2>4 DEF TypeOK
<1>2. RefExact
  <2>1. \A o : OwnersOf(o) = IF o = Device THEN {c} ELSE {}
    BY <1>i DEF OwnersOf
  <2>2. \A b : SlotsOf(b) = {} /\ MappersOf(b) = {} /\ RequestsOf(b) = {}
    BY <1>v, Names DEF SlotsOf, MappersOf, MappedBuffers, RequestsOf, HoldsGroup
  <2>3. \A b : CallsOn(b) = {}
    BY <1>v, Names DEF CallsOn
  <2>4. WithStorage = {} /\ Allocating = {}
    BY <1>v, Names DEF WithStorage, Allocating
  <2>5. \A k : {k} \X {} = {}
    OBVIOUS
  <2>6. {"own"} \X {c} = {<<"own", c>>}
    OBVIOUS
  <2>7. ASSUME NEW o \in Objects PROVE ref[o] = Cardinality(Holders(o))
    <3>1. CASE o = Device
      <4>1. Holders(o) = {<<"own", c>>}
        BY <3>1, <2>1, <2>4, <2>5, <2>6, Names DEF Holders, DeviceHolders
      <4> QED
        BY <3>1, <4>1, <1>v, FS_Singleton
    <3>2. CASE o # Device
      <4>1. Holders(o) = {}
        BY <3>2, <2>1, <2>2, <2>3, <2>5, Names DEF Holders, BufferHolders, GroupHolders
      <4> QED
        BY <3>2, <4>1, <1>v, FS_EmptySet
    <3> QED
      BY <3>1, <3>2
  <2> QED
    BY <2>7 DEF RefExact
<1>3. \A o \in Objects : LifeOK(o)
  BY <1>v DEF LifeOK
<1>4. DeviceOK /\ \A b \in Buffers : StorageOK(b)
  BY <1>v, Names DEF DeviceOK, StorageOK
<1>5. ASSUME NEW t \in Threads PROVE BufferOK(t) /\ GroupOK(t) /\ RequestOK(t) /\ SnapOK(t)
  BY <1>v DEF BufferOK, GroupOK, RequestOK, SnapOK, DestroysBuffer, DestroysGroup, Dtors
<1>6. \A t, u \in Threads : t # u => Exclusive(t, u)
  BY <1>v DEF Exclusive, DestroysBuffer, DestroysGroup, Dtors
<1>7. \A x \in Cmds : req[x] # "none" => reqGroup[x] # NULL
  BY <1>v
<1>8. \A t \in Clients : MappingOK(t)
  BY <1>v DEF MappingOK
<1>9. NotReplaced
  BY <1>v, Names DEF NotReplaced, BeingChanged
<1> QED
  BY <1>1, <1>2, <1>3, <1>4, <1>5, <1>6, <1>7, <1>8, <1>9 DEF IInv

LEMMA StepInv ==
  ASSUME IInv, [Next]_vars
  PROVE  IInv'
BY NewCallStep, ContinueStep, WorkerStep, StutterStep DEF Next

\* The invariant BuffersSafety checks holds for all instances.
THEOREM BuffersInvariance == Spec => []IInv
<1>1. Init => IInv
  BY InitInv
<1>2. IInv /\ [Next]_vars => IInv'
  BY StepInv
<1> QED
  BY <1>1, <1>2, PTL DEF Spec

-----------------------------------------------------------------------------
(* What follows from it.                                                   *)

\* The count of a buffer, a group or the device is the number of references
\* there are to it: retains and releases of xrp_host_common.c are paired.
THEOREM CountsAreExact == Spec => []RefExact
<1>1. IInv => RefExact
  BY DEF IInv
<1> QED
  BY <1>1, BuffersInvariance, PTL

\* What a thread touches next is there.
LEMMA TouchedThere ==
  ASSUME IInv, NEW t \in Threads, NEW o \in Touches(t)
  PROVE  mem[o] \in {"made", "live", "closing"}
<1>1. /\ BufferOK(t) /\ GroupOK(t) /\ RequestOK(t) /\ cmd[t] \in Cmds \cup {NULL}
      /\ t \in Clients => pc[t] \in ClientPCs
      /\ t \in Workers => pc[t] \in WorkerPCs
      /\ t \in Clients \/ t \in Workers
  BY TheThreads, Names
<1>g. ASSUME NEW g \in Groups, NEW b \in Contents(g) PROVE mem[b] = "live"
  BY SlotLive DEF Contents
<1>2. CASE pc[t] = "push"
  <2>1. t \in Clients
    BY <1>1, <1>2 DEF WorkerPCs, Dtors
  <2>2. cmd[t] \in Cmds /\ req[cmd[t]] = "made"
    BY <1>1, <1>2, <2>1, Names DEF RequestOK
  <2>3. reqGroup[cmd[t]] # NULL /\ o = reqGroup[cmd[t]]
    BY <1>2, <2>2 DEF IInv, Touches
  <2>4. HoldsGroup(cmd[t], o)
    BY <2>2, <2>3 DEF HoldsGroup
  <2> QED
    BY <2>2, <2>3, <2>4, RequestLive
<1>3. CASE pc[t] = "alloc"
  <2>1. t \in Clients /\ o \in {buf[t], Device}
    BY <1>1, <1>3 DEF WorkerPCs, Dtors, Touches
  <2>2. mem[buf[t]] = "made" /\ mem[Device] = "live"
    BY <1>3, <2>1, Waiting
  <2> QED
    BY <2>1, <2>2
<1>4. CASE pc[t] = "set"
  <2>1. t \in Clients /\ o \in {grp[t], buf[t]}
    BY <1>1, <1>4 DEF WorkerPCs, Dtors, Touches
  <2>2. grp[t] \in own[t]
    BY <1>1, <1>4, <2>1 DEF GroupOK
  <2> QED
    BY <1>4, <2>1, <2>2, OwnedLive, CallLive
<1>5. CASE pc[t] = "unref"
  <2>1. t \in Clients /\ o = buf[t]
    BY <1>1, <1>5 DEF WorkerPCs, Dtors, Touches
  <2> QED
    BY <1>5, <2>1, CallLive
<1>6. CASE pc[t] \in {"buffer", "bufferFree"}
  <2>1. PICK b \in Buffers : /\ b = buf[t] /\ mem[b] = "closing"
                             /\ storage[b] # NULL <=> pc[t] = "buffer" /\ b \notin HostBuffers
    BY <1>6, DestroysOne DEF DestroysBuffer
  <2>2. o = b \/ (o = Device /\ storage[b] # NULL)
    BY <1>6, <2>1 DEF Touches
  <2> QED
    BY <2>1, <2>2, StorageLive
<1>7. CASE pc[t] \in {"snapshot", "drop"}
  <2>1. grp[t] # NULL
    BY <1>1, <1>7, Names DEF GroupOK, ClientPCs, Dtors
  <2>2. grp[t] \in Groups /\ mem[grp[t]] = "live"
    BY <1>7, <2>1, GroupInUse DEF AtGroup
  <2>3. o = grp[t] \/ o \in Contents(grp[t])
    BY <1>7 DEF Touches
  <2> QED
    BY <2>2, <2>3, <1>g
<1>8. CASE pc[t] = "group"
  <2>1. grp[t] \in Groups /\ mem[grp[t]] = "closing"
    BY <1>1, <1>8, TheThreads DEF GroupOK, DestroysGroup, Dtors
  <2>2. o = grp[t] \/ o \in Contents(grp[t])
    BY <1>8 DEF Touches
  <2> QED
    BY <2>1, <2>2, <1>g
<1>9. CASE pc[t] \in {"idle", "ioctl", "signal"}
  BY <1>9 DEF Touches
<1> QED
  BY <1>1, <1>2, <1>3, <1>4, <1>5, <1>6, <1>7, <1>8, <1>9 DEF ClientPCs, WorkerPCs, Dtors

\* No thread uses a buffer, a group or the device after it was freed, and what
\* a client owns, has mapped or can get from a group is alive.
THEOREM NothingUsedAfterFree == Spec => []NoUseAfterFree
<1>1. ASSUME IInv PROVE NoUseAfterFree
  <2>1. \A t \in Threads : \A o \in Touches(t) : mem[o] \in {"made", "live", "closing"}
    BY <1>1, TouchedThere
  <2>2. \A t \in Clients : \A o \in own[t] \cup MappedBuffers(t) : mem[o] = "live"
    BY <1>1, OwnedLive, MappedLive
  <2>3. \A g \in Groups : mem[g] = "live" => \A b \in Contents(g) : mem[b] = "live"
    BY <1>1, SlotLive DEF Contents
  <2> QED
    BY <2>1, <2>2, <2>3 DEF NoUseAfterFree
<1> QED
  BY <1>1, BuffersInvariance, PTL

\* A live device buffer has its storage, and storage an open device.
LEMMA LiveStorage ==
  ASSUME IInv, NEW b \in Buffers \ HostBuffers, mem[b] = "live"
  PROVE  storage[b] = SizeOf[b] % U32Mod /\ storage[b] # NULL /\ mem[Device] = "live"
<1>1. storage[b] = SizeOf[b] % U32Mod /\ storage[b] # NULL
  BY StorageSize DEF IInv, StorageOK
<1> QED
  BY <1>1, StorageLive

\* An ioctl goes to the driver with storage that is still allocated, if callers
\* do not replace buffers of a group in use.
THEOREM CommandsKeepTheirStorage ==
  ASSUME ~ReplaceInFlight
  PROVE  Spec => []CommandStorageLive
<1>1. ASSUME IInv PROVE CommandStorageLive
  <2> SUFFICES ASSUME NEW t \in Threads, NEW b \in snap[t] \ HostBuffers
               PROVE  storage[b] # NULL /\ mem[Device] = "live"
    BY DEF CommandStorageLive
  <2>1. b \in Buffers /\ SnapOK(t)
    BY <1>1, TheThreads, Locals
  <2>2. pc[t] = "ioctl"
    BY <2>1 DEF SnapOK
  <2>3. mem[b] = "live"
    <3>1. CASE grp[t] = NULL
      BY <1>1, <2>1, <2>2, <3>1, OwnedLive DEF SnapOK
    <3>2. CASE grp[t] # NULL
      <4>1. grp[t] \in Groups /\ b \in Contents(grp[t])
        BY <1>1, <2>1, <2>2, <3>2, TheThreads DEF SnapOK
      <4> QED
        BY <1>1, <4>1, SlotLive DEF Contents
    <3> QED
      BY <3>1, <3>2
  <2> QED
    BY <1>1, <2>1, <2>3, LiveStorage
<1> QED
  BY <1>1, BuffersInvariance, PTL

\* No device buffer is larger than what the driver can be asked for: the
\* ioctl's size field has 32 bits.
SizesFit == \A b \in Buffers \ HostBuffers : SizeOf[b] < U32Mod

\* What xrp_map_buffer returned stays memory of the buffer, if no size is cut
\* when the storage is allocated.
THEOREM MappingsAreInside ==
  ASSUME SizesFit
  PROVE  Spec => []MappingsStayValid
<1>1. ASSUME IInv PROVE MappingsStayValid
  <2> SUFFICES ASSUME NEW t \in Clients, NEW m \in mapped[t]
               PROVE  LET capacity == IF m[1] \in HostBuffers THEN SizeOf[m[1]] ELSE storage[m[1]]
                      IN  capacity # NULL /\ m[2] + m[3] <= capacity
    BY DEF MappingsStayValid
  <2>1. m[1] \in Buffers /\ mem[m[1]] = "live"
    BY <1>1, MappedLive DEF MappedBuffers
  <2>2. m[2] + m[3] <= SizeOf[m[1]]
    BY <1>1 DEF IInv, MappingOK
  <2>3. CASE m[1] \in HostBuffers
    BY <2>1, <2>2, <2>3, StorageSize, Names
  <2>4. CASE m[1] \notin HostBuffers
    <3>1. storage[m[1]] = SizeOf[m[1]] % U32Mod /\ storage[m[1]] # NULL
      BY <1>1, <2>1, <2>4, LiveStorage
    <3>2. SizeOf[m[1]] \in Nat /\ SizeOf[m[1]] < U32Mod /\ U32Mod \in Nat
      BY <1>1, <2>1, <2>4, StorageSize, NamesDiffer DEF SizesFit
    <3>3. SizeOf[m[1]] % U32Mod = SizeOf[m[1]]
      BY <3>2
    <3> QED
      BY <3>1, <3>3, <2>2, <2>4
  <2> QED
    BY <2>3, <2>4
<1> QED
  BY <1>1, BuffersInvariance, PTL

=============================================================================
