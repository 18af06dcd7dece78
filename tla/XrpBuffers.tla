----------------------------- MODULE XrpBuffers -----------------------------
(***************************************************************************)
(* Buffers and buffer groups of the XRP library (xrp_host_common.c), the   *)
(* storage of device buffers, and the commands that carry a group to the   *)
(* device (hosted/xrp_linux.c).                                            *)
(*                                                                         *)
(* A group is an array of references to buffers, guarded by a mutex; every *)
(* section under that mutex is one step.  A queued request holds a         *)
(* reference to its group.  The command itself is made from a snapshot:    *)
(* xrp_run_command_ioctl copies the addresses of the group's buffers under *)
(* the mutex and goes to the driver with the copy after dropping it.       *)
(*                                                                         *)
(* The order of requests in a queue is the subject of XrpRequestList; here *)
(* a worker takes any of them.  map_count and map_flags are left out:      *)
(* nothing reads them.  A call that fails, the allocation of storage       *)
(* excepted, is a stuttering step.                                         *)
(*                                                                         *)
(* Offsets and sizes are size_t, numbers below SizeMod whose sums wrap;    *)
(* the size the driver is asked for is a __u32, cut at U32Mod.             *)
(***************************************************************************)
EXTENDS Naturals, Sequences, FiniteSets

CONSTANTS
  Clients,         \* application threads
  Workers,         \* worker threads of the queues
  Buffers, Groups, \* objects; each is created at most once
  HostBuffers,     \* the buffers that are created with a host_ptr
  Device,          \* the one struct xrp_device
  Cmds,            \* requests that are enqueued; each at most once
  MaxSlots,        \* bound on the buffers of a group
  ReplaceInFlight, \* may a client replace a buffer of a group in use?
  SizeOf,          \* SizeOf[b]: the size buffer b is created with
  Windows,         \* the <<offset, size>> xrp_map_buffer is called with
  SizeMod, U32Mod, \* 2 to the width of size_t and of __u32
  NULL

Threads == Clients \cup Workers
Objects == Buffers \cup Groups \cup {Device}

ASSUME NamesDiffer ==
  /\ Clients \cap Workers = {} /\ Buffers \cap Groups = {}
  /\ HostBuffers \subseteq Buffers
  /\ Device \notin Buffers \cup Groups
  /\ NULL \notin Threads \cup Objects \cup Cmds \cup Nat
  /\ MaxSlots \in Nat /\ ReplaceInFlight \in BOOLEAN
  /\ SizeMod \in Nat /\ U32Mod \in 1 .. SizeMod
  /\ SizeOf \in [Buffers -> 0 .. SizeMod - 1]
  /\ Windows \subseteq (0 .. SizeMod - 1) \X (0 .. SizeMod - 1)

ASSUME NamesFinite ==
  /\ IsFiniteSet(Clients) /\ IsFiniteSet(Workers) /\ IsFiniteSet(Cmds)
  /\ IsFiniteSet(Buffers) /\ IsFiniteSet(Groups)

VARIABLES
  ref,      \* ref[o]: struct xrp_refcounted.count
  mem,      \* mem[o]: see MemStates
  own,      \* own[t]: the objects client t owns a reference to
  mapped,   \* mapped[t]: <<buffer, offset, size>> client t has mapped
  storage,  \* storage[b]: the bytes the driver allocated for b, or NULL
  slots,    \* slots[g]: group->buffer[0 .. n_buffers - 1]
  pc,       \* pc[t]: where thread t is
  buf, grp, \* buf[t], grp[t]: the buffer and the group the thread works on
  at,       \* at[t]: the index argument of xrp_set_buffer_in_group
  cmd,      \* cmd[t]: the request it enqueues or handles, or NULL
  snap,     \* snap[t]: the buffers whose addresses are with an ioctl
  req,      \* req[c]: "none", "made", "queued", "running" or "done"
  reqGroup  \* reqGroup[c]: rq->buffer_group

objVars == <<ref, mem>>
cliVars == <<own, mapped>>
locVars == <<buf, grp, at, cmd, snap>>
reqVars == <<req, reqGroup>>
vars == <<ref, mem, own, mapped, storage, slots, pc, buf, grp, at, cmd,
          snap, req, reqGroup>>

(* "made": a buffer whose storage the driver has yet to allocate;          *)
(* "closing": the count reached 0 and the destructor runs.                 *)
MemStates == {"none", "made", "live", "closing", "freed"}

Dtors == {"group", "buffer", "bufferFree"}
ClientPCs == {"idle", "alloc", "push", "set", "unref", "snapshot", "ioctl"} \cup Dtors
WorkerPCs == {"idle", "snapshot", "ioctl", "drop", "signal"} \cup Dtors

TypeOK ==
  /\ ref \in [Objects -> Nat]
  /\ mem \in [Objects -> MemStates]
  /\ own \in [Clients -> SUBSET Objects]
  /\ mapped \in [Clients -> SUBSET (Buffers \X Nat \X Nat)]
  /\ storage \in [Buffers -> Nat \cup {NULL}]
  /\ slots \in [Groups -> Seq(Buffers)]
  /\ \A g \in Groups : Len(slots[g]) <= MaxSlots
  /\ pc \in [Threads -> ClientPCs \cup WorkerPCs]
  /\ \A t \in Clients : pc[t] \in ClientPCs
  /\ \A w \in Workers : pc[w] \in WorkerPCs
  /\ buf \in [Threads -> Buffers \cup {NULL}]
  /\ grp \in [Threads -> Groups \cup {NULL}]
  /\ at \in [Threads -> Nat]
  /\ cmd \in [Threads -> Cmds \cup {NULL}]
  /\ snap \in [Threads -> SUBSET Buffers]
  /\ req \in [Cmds -> {"none", "made", "queued", "running", "done"}]
  /\ reqGroup \in [Cmds -> Groups \cup {NULL}]

(* One client has just opened the device.                                  *)
Init ==
  /\ ref = [o \in Objects |-> IF o = Device THEN 1 ELSE 0]
  /\ mem = [o \in Objects |-> IF o = Device THEN "live" ELSE "none"]
  /\ \E t \in Clients : own = [u \in Clients |-> IF u = t THEN {Device} ELSE {}]
  /\ mapped = [t \in Clients |-> {}]
  /\ storage = [b \in Buffers |-> NULL]
  /\ slots = [g \in Groups |-> <<>>]
  /\ pc = [t \in Threads |-> "idle"]
  /\ buf = [t \in Threads |-> NULL] /\ grp = [t \in Threads |-> NULL]
  /\ at = [t \in Threads |-> 1]
  /\ cmd = [t \in Threads |-> NULL]
  /\ snap = [t \in Threads |-> {}]
  /\ req = [c \in Cmds |-> "none"]
  /\ reqGroup = [c \in Cmds |-> NULL]

Contents(g) == {slots[g][n] : n \in DOMAIN slots[g]}

LastRef(o) == ref[o] = 1
Dec(o) == ref' = [ref EXCEPT ![o] = @ - 1]
Inc(o) == ref' = [ref EXCEPT ![o] = @ + 1]
Goto(t, l) == pc' = [pc EXCEPT ![t] = l]

(* last_release_refcounted(b), and on to its destructor if it was the last.*)
DropBuffer(t, b, otherwise) ==
  /\ Dec(b)
  /\ mem' = IF LastRef(b) THEN [mem EXCEPT ![b] = "closing"] ELSE mem
  /\ buf' = [buf EXCEPT ![t] = IF LastRef(b) THEN b ELSE NULL]
  /\ Goto(t, IF LastRef(b) THEN "buffer" ELSE otherwise)

(* The same for a group.                                                   *)
DropGroup(t, g, otherwise) ==
  /\ Dec(g)
  /\ mem' = IF LastRef(g) THEN [mem EXCEPT ![g] = "closing"] ELSE mem
  /\ grp' = [grp EXCEPT ![t] = IF LastRef(g) THEN g ELSE NULL]
  /\ Goto(t, IF LastRef(g) THEN "group" ELSE otherwise)

(* Groups a command uses, and groups a client is replacing a buffer of:    *)
(* what callers keep apart unless ReplaceInFlight.                         *)
InFlight(g) ==
  \/ \E c \in Cmds : reqGroup[c] = g /\ req[c] \in {"made", "queued", "running"}
  \/ \E t \in Threads : grp[t] = g /\ pc[t] \in {"snapshot", "ioctl"}
BeingChanged(g) == \E t \in Clients : grp[t] = g /\ pc[t] = "set"
-----------------------------------------------------------------------------
(* Mutants: plausible bugs in the action each is named after.              *)
AddBufferNoRetain(t, g, b) ==          \* the group does not retain the buffer
  /\ pc[t] = "idle" /\ {g, b} \subseteq own[t]
  /\ Len(slots[g]) < MaxSlots
  /\ slots' = [slots EXCEPT ![g] = Append(@, b)]
  /\ UNCHANGED <<objVars, cliVars, storage, locVars, pc, reqVars>>

MapSumWraps(t, b, offset, size) ==    \* offset + size <= buffer->size
  /\ pc[t] = "idle" /\ b \in own[t] \ {m[1] : m \in mapped[t]}
  /\ (offset + size) % SizeMod <= SizeOf[b]
  /\ Inc(b)
  /\ mapped' = [mapped EXCEPT ![t] = @ \cup {<<b, offset, size>>}]
  /\ UNCHANGED <<mem, own, storage, slots, locVars, pc, reqVars>>

AllocFailedKeepsDevice(t) ==           \* the device is not released
  /\ pc[t] = "alloc"
  /\ ref' = [ref EXCEPT ![buf[t]] = 0]
  /\ mem' = [mem EXCEPT ![buf[t]] = "none"]
  /\ buf' = [buf EXCEPT ![t] = NULL]
  /\ Goto(t, "idle")
  /\ UNCHANGED <<cliVars, storage, slots, grp, at, cmd, snap, reqVars>>

ReplaceDropsNew(t) ==                  \* the new buffer is released, not the old one
  /\ pc[t] = "set"
  /\ slots' = IF at[t] \in DOMAIN slots[grp[t]]
              THEN [slots EXCEPT ![grp[t]][at[t]] = buf[t]] ELSE slots
  /\ grp' = [grp EXCEPT ![t] = NULL]
  /\ at' = [at EXCEPT ![t] = 1]
  /\ Goto(t, "unref")
  /\ UNCHANGED <<objVars, cliVars, storage, buf, cmd, snap, reqVars>>

GetUnretained(t, g, n) ==              \* the buffer is handed out without a reference
  /\ pc[t] = "idle" /\ g \in own[t] /\ n \in DOMAIN slots[g]
  /\ slots[g][n] \notin own[t]
  /\ own' = [own EXCEPT ![t] = @ \cup {slots[g][n]}]
  /\ UNCHANGED <<objVars, mapped, storage, slots, locVars, pc, reqVars>>

EnqueueNoRetain(t, c, g) ==            \* the request does not retain the group
  /\ pc[t] = "idle" /\ g \in own[t] /\ req[c] = "none"
  /\ ReplaceInFlight \/ ~BeingChanged(g)
  /\ reqGroup' = [reqGroup EXCEPT ![c] = g]
  /\ req' = [req EXCEPT ![c] = "made"]
  /\ cmd' = [cmd EXCEPT ![t] = c]
  /\ Goto(t, "push")
  /\ UNCHANGED <<objVars, cliVars, storage, slots, buf, grp, at, snap>>

ReleaseSlotStops(t) ==                 \* only the first buffer of a group is released
  LET g == grp[t]
  IN /\ pc[t] = "group" /\ slots[g] # <<>>
     /\ slots' = [slots EXCEPT ![g] = <<>>]
     /\ DropBuffer(t, Head(slots[g]), "group")
     /\ UNCHANGED <<cliVars, storage, grp, at, cmd, snap, reqVars>>

-----------------------------------------------------------------------------
(* Calls of the application.                                               *)

(* xrp_retain_*: t takes a reference and gives the pointer to client u.    *)
Share(t, u, o) ==
  /\ pc[t] = "idle" /\ o \in own[t] \ own[u]
  /\ Inc(o)
  /\ own' = [own EXCEPT ![u] = @ \cup {o}]
  /\ UNCHANGED <<mem, mapped, storage, slots, locVars, pc, reqVars>>

(* xrp_create_buffer with a host_ptr.                                      *)
CreateHostBuffer(t, b) ==
  /\ pc[t] = "idle" /\ mem[b] = "none" /\ b \in HostBuffers
  /\ ref' = [ref EXCEPT ![b] = 1]
  /\ mem' = [mem EXCEPT ![b] = "live"]
  /\ own' = [own EXCEPT ![t] = @ \cup {b}]
  /\ UNCHANGED <<mapped, storage, slots, locVars, pc, reqVars>>

(* Without one, the driver is asked for the storage: the new buffer first  *)
(* retains the device.                                                     *)
CreateDeviceBuffer(t, b) ==
  /\ pc[t] = "idle" /\ mem[b] = "none" /\ b \notin HostBuffers
  /\ Device \in own[t]
  /\ ref' = [ref EXCEPT ![b] = 1, ![Device] = @ + 1]
  /\ mem' = [mem EXCEPT ![b] = "made"]
  /\ buf' = [buf EXCEPT ![t] = b]
  /\ Goto(t, "alloc")
  /\ UNCHANGED <<cliVars, storage, slots, grp, at, cmd, snap, reqVars>>

Allocated(t) ==
  LET b == buf[t]
  IN /\ pc[t] = "alloc"
     /\ storage' = [storage EXCEPT ![b] = SizeOf[b] % U32Mod]
     /\ mem' = [mem EXCEPT ![b] = "live"]
     /\ own' = [own EXCEPT ![t] = @ \cup {b}]
     /\ buf' = [buf EXCEPT ![t] = NULL]
     /\ Goto(t, "idle")
     /\ UNCHANGED <<ref, mapped, slots, grp, at, cmd, snap, reqVars>>

(* XRP_IOCTL_ALLOC fails: the device is released and the buffer freed; its *)
(* name may be used again.  The caller still owns the device.              *)
AllocFailed(t) ==
  LET b == buf[t]
  IN /\ pc[t] = "alloc"
     /\ ref' = [ref EXCEPT ![b] = 0, ![Device] = @ - 1]
     /\ mem' = [mem EXCEPT ![b] = "none"]
     /\ buf' = [buf EXCEPT ![t] = NULL]
     /\ Goto(t, "idle")
     /\ UNCHANGED <<cliVars, storage, slots, grp, at, cmd, snap, reqVars>>

CreateGroup(t, g) ==
  /\ pc[t] = "idle" /\ mem[g] = "none"
  /\ ref' = [ref EXCEPT ![g] = 1]
  /\ mem' = [mem EXCEPT ![g] = "live"]
  /\ own' = [own EXCEPT ![t] = @ \cup {g}]
  /\ UNCHANGED <<mapped, storage, slots, locVars, pc, reqVars>>

(* A mapping holds a reference, which outlives the mapper's own.  The      *)
(* range is checked against buffer->size so that no sum can wrap.          *)
InBuffer(b, offset, size) == offset <= SizeOf[b] /\ size <= SizeOf[b] - offset

MappedBuffers(t) == {m[1] : m \in mapped[t]}

Map(t, b, offset, size) ==
  /\ pc[t] = "idle" /\ b \in own[t] \ MappedBuffers(t)
  /\ InBuffer(b, offset, size)
  /\ Inc(b)
  /\ mapped' = [mapped EXCEPT ![t] = @ \cup {<<b, offset, size>>}]
  /\ UNCHANGED <<mem, own, storage, slots, locVars, pc, reqVars>>

Unmap(t, m) ==
  /\ pc[t] = "idle" /\ m \in mapped[t]
  /\ mapped' = [mapped EXCEPT ![t] = @ \ {m}]
  /\ DropBuffer(t, m[1], "idle")
  /\ UNCHANGED <<own, storage, slots, grp, at, cmd, snap, reqVars>>

(* xrp_sync_device_buffer, up to its ioctl on the device of the buffer.    *)
Sync(t, b) ==
  /\ pc[t] = "idle" /\ b \in own[t] \cap (Buffers \ HostBuffers)
  /\ snap' = [snap EXCEPT ![t] = {b}]
  /\ Goto(t, "ioctl")
  /\ UNCHANGED <<objVars, cliVars, storage, slots, buf, grp, at, cmd, reqVars>>

AddBuffer(t, g, b) ==
  /\ pc[t] = "idle" /\ {g, b} \subseteq own[t]
  /\ Len(slots[g]) < MaxSlots
  /\ Inc(b)
  /\ slots' = [slots EXCEPT ![g] = Append(@, b)]
  /\ UNCHANGED <<mem, cliVars, storage, locVars, pc, reqVars>>

(* xrp_set_buffer_in_group retains the new buffer before it takes the      *)
(* mutex, and releases the old one, or the new one if the index is beyond  *)
(* the group, after dropping it.                                           *)
SetBuffer(t, g, n, b) ==
  /\ pc[t] = "idle" /\ {g, b} \subseteq own[t]
  /\ ReplaceInFlight \/ ~InFlight(g)
  /\ Inc(b)
  /\ buf' = [buf EXCEPT ![t] = b]
  /\ grp' = [grp EXCEPT ![t] = g]
  /\ at' = [at EXCEPT ![t] = n]
  /\ Goto(t, "set")
  /\ UNCHANGED <<mem, cliVars, storage, slots, cmd, snap, reqVars>>

Replace(t) ==
  LET g == grp[t]
      n == at[t]
  IN /\ pc[t] = "set"
     /\ \/ /\ n \in DOMAIN slots[g]
           /\ slots' = [slots EXCEPT ![g][n] = buf[t]]
           /\ buf' = [buf EXCEPT ![t] = slots[g][n]]
        \/ n \notin DOMAIN slots[g] /\ UNCHANGED <<slots, buf>>
     /\ grp' = [grp EXCEPT ![t] = NULL]
     /\ at' = [at EXCEPT ![t] = 1]
     /\ Goto(t, "unref")
     /\ UNCHANGED <<objVars, cliVars, storage, cmd, snap, reqVars>>

ReleaseOld(t) ==
  /\ pc[t] = "unref"
  /\ DropBuffer(t, buf[t], "idle")
  /\ UNCHANGED <<cliVars, storage, slots, grp, at, cmd, snap, reqVars>>

GetBuffer(t, g, n) ==
  /\ pc[t] = "idle" /\ g \in own[t] /\ n \in DOMAIN slots[g]
  /\ slots[g][n] \notin own[t]
  /\ Inc(slots[g][n])
  /\ own' = [own EXCEPT ![t] = @ \cup {slots[g][n]}]
  /\ UNCHANGED <<mem, mapped, storage, slots, locVars, pc, reqVars>>

ReleaseBuffer(t, b) ==
  /\ pc[t] = "idle" /\ b \in own[t] \cap Buffers
  /\ own' = [own EXCEPT ![t] = @ \ {b}]
  /\ DropBuffer(t, b, "idle")
  /\ UNCHANGED <<mapped, storage, slots, grp, at, cmd, snap, reqVars>>

ReleaseGroup(t, g) ==
  /\ pc[t] = "idle" /\ g \in own[t] \cap Groups
  /\ own' = [own EXCEPT ![t] = @ \ {g}]
  /\ DropGroup(t, g, "idle")
  /\ UNCHANGED <<mapped, storage, slots, buf, at, cmd, snap, reqVars>>

ReleaseDevice(t) ==
  /\ pc[t] = "idle" /\ Device \in own[t]
  /\ own' = [own EXCEPT ![t] = @ \ {Device}]
  /\ Dec(Device)
  /\ mem' = IF LastRef(Device) THEN [mem EXCEPT ![Device] = "freed"] ELSE mem
  /\ UNCHANGED <<mapped, storage, slots, locVars, pc, reqVars>>

(* xrp_enqueue_command with a group: the request retains it before it is   *)
(* pushed.                                                                 *)
Enqueue(t, c, g) ==
  /\ pc[t] = "idle" /\ g \in own[t] /\ req[c] = "none"
  /\ ReplaceInFlight \/ ~BeingChanged(g)
  /\ Inc(g)
  /\ reqGroup' = [reqGroup EXCEPT ![c] = g]
  /\ req' = [req EXCEPT ![c] = "made"]
  /\ cmd' = [cmd EXCEPT ![t] = c]
  /\ Goto(t, "push")
  /\ UNCHANGED <<mem, cliVars, storage, slots, buf, grp, at, snap>>

Push(t) ==
  /\ pc[t] = "push"
  /\ req' = [req EXCEPT ![cmd[t]] = "queued"]
  /\ cmd' = [cmd EXCEPT ![t] = NULL]
  /\ Goto(t, "idle")
  /\ UNCHANGED <<objVars, cliVars, storage, slots, buf, grp, at, snap, reqGroup>>

(* xrp_run_command_ioctl called by the application.                        *)
RunIoctl(t, g) ==
  /\ pc[t] = "idle" /\ g \in own[t] \cap Groups
  /\ ReplaceInFlight \/ ~BeingChanged(g)
  /\ grp' = [grp EXCEPT ![t] = g]
  /\ Goto(t, "snapshot")
  /\ UNCHANGED <<objVars, cliVars, storage, slots, buf, at, cmd, snap, reqVars>>

-----------------------------------------------------------------------------
(* A worker handles a request: xrp_request_process.                        *)
Take(w, c) ==
  /\ pc[w] = "idle" /\ req[c] = "queued"
  /\ req' = [req EXCEPT ![c] = "running"]
  /\ cmd' = [cmd EXCEPT ![w] = c]
  /\ grp' = [grp EXCEPT ![w] = reqGroup[c]]
  /\ Goto(w, "snapshot")
  /\ UNCHANGED <<objVars, cliVars, storage, slots, buf, at, snap, reqGroup>>

DropRequestGroup(w) ==
  /\ pc[w] = "drop"
  /\ DropGroup(w, grp[w], "signal")
  /\ UNCHANGED <<cliVars, storage, slots, buf, at, cmd, snap, reqVars>>

(* The event is signalled, if there is one, and the request is freed.      *)
Signal(w) ==
  /\ pc[w] = "signal"
  /\ req' = [req EXCEPT ![cmd[w]] = "done"]
  /\ cmd' = [cmd EXCEPT ![w] = NULL]
  /\ Goto(w, "idle")
  /\ UNCHANGED <<objVars, cliVars, storage, slots, buf, grp, at, snap, reqGroup>>

(* xrp_run_command_ioctl, up to the unlock of the group.                   *)
Snapshot(t) ==
  /\ pc[t] = "snapshot"
  /\ snap' = [snap EXCEPT ![t] = Contents(grp[t])]
  /\ Goto(t, "ioctl")
  /\ UNCHANGED <<objVars, cliVars, storage, slots, buf, grp, at, cmd, reqVars>>

(* The ioctl goes to the driver with the addresses, and returns: a command *)
(* or a synchronisation.                                                   *)
Ioctl(t) ==
  /\ pc[t] = "ioctl"
  /\ snap' = [snap EXCEPT ![t] = {}]
  /\ grp' = IF t \in Workers THEN grp ELSE [grp EXCEPT ![t] = NULL]
  /\ Goto(t, IF t \in Workers THEN "drop" ELSE "idle")
  /\ UNCHANGED <<objVars, cliVars, storage, slots, buf, at, cmd, reqVars>>

-----------------------------------------------------------------------------
(* The destructors, run by whichever thread dropped the last reference.    *)

(* xrp_release_buffer_group releases the buffers in order; slots holds the *)
(* ones still to be released.                                              *)
ReleaseSlot(t) ==
  LET g == grp[t]
  IN /\ pc[t] = "group" /\ slots[g] # <<>>
     /\ slots' = [slots EXCEPT ![g] = Tail(@)]
     /\ DropBuffer(t, Head(slots[g]), "group")
     /\ UNCHANGED <<cliVars, storage, grp, at, cmd, snap, reqVars>>

FreeGroup(t) ==
  /\ pc[t] = "group" /\ slots[grp[t]] = <<>>
  /\ mem' = [mem EXCEPT ![grp[t]] = "freed"]
  /\ grp' = [grp EXCEPT ![t] = NULL]
  /\ Goto(t, IF t \in Workers THEN "signal" ELSE "idle")
  /\ UNCHANGED <<ref, cliVars, storage, slots, buf, at, cmd, snap, reqVars>>

(* xrp_impl_release_device_buffer for a device buffer.                     *)
ReleaseStorage(t) ==
  LET b == buf[t]
  IN /\ pc[t] = "buffer"
     /\ IF b \notin HostBuffers
        THEN /\ storage' = [storage EXCEPT ![b] = NULL]
             /\ Dec(Device)
             /\ mem' = IF LastRef(Device) THEN [mem EXCEPT ![Device] = "freed"] ELSE mem
        ELSE UNCHANGED <<storage, ref, mem>>
     /\ Goto(t, "bufferFree")
     /\ UNCHANGED <<cliVars, slots, locVars, reqVars>>

FreeBuffer(t) ==
  /\ pc[t] = "bufferFree"
  /\ mem' = [mem EXCEPT ![buf[t]] = "freed"]
  /\ buf' = [buf EXCEPT ![t] = NULL]
  /\ Goto(t, IF grp[t] = NULL THEN "idle" ELSE "group")
  /\ UNCHANGED <<ref, cliVars, storage, slots, grp, at, cmd, snap, reqVars>>

-----------------------------------------------------------------------------
Destructor(t) == ReleaseSlot(t) \/ FreeGroup(t) \/ ReleaseStorage(t) \/ FreeBuffer(t)

Call(t) ==
  \/ \E u \in Clients, o \in Objects : Share(t, u, o)
  \/ \E b \in Buffers :
       \/ CreateHostBuffer(t, b) \/ CreateDeviceBuffer(t, b)
       \/ Sync(t, b) \/ ReleaseBuffer(t, b)
       \/ \E w \in Windows : Map(t, b, w[1], w[2])
  \/ \E m \in mapped[t] : Unmap(t, m)
  \/ \E g \in Groups : CreateGroup(t, g) \/ ReleaseGroup(t, g) \/ RunIoctl(t, g)
  \/ \E g \in Groups, b \in Buffers : AddBuffer(t, g, b)
  \/ \E g \in Groups, n \in 1 .. MaxSlots :
       GetBuffer(t, g, n) \/ \E b \in Buffers : SetBuffer(t, g, n, b)
  \/ \E c \in Cmds, g \in Groups : Enqueue(t, c, g)
  \/ ReleaseDevice(t)

Continue(t) ==
  \/ Allocated(t) \/ AllocFailed(t)
  \/ Push(t) \/ Replace(t) \/ ReleaseOld(t) \/ Snapshot(t) \/ Ioctl(t) \/ Destructor(t)

Worker(w) ==
  \/ \E c \in Cmds : Take(w, c)
  \/ Snapshot(w) \/ Ioctl(w) \/ DropRequestGroup(w) \/ Signal(w) \/ Destructor(w)

Next ==
  \/ \E t \in Clients : Call(t) \/ Continue(t)
  \/ \E w \in Workers : Worker(w)

(* Threads are scheduled and ioctls return; nobody owes another call.      *)
Fairness ==
  /\ \A t \in Clients : WF_vars(Continue(t))
  /\ \A w \in Workers : WF_vars(Worker(w))

Spec == Init /\ [][Next]_vars
FairSpec == Spec /\ Fairness

-----------------------------------------------------------------------------
(* Who holds a reference to an object: clients by its pointer, mappings    *)
(* and slots of groups a buffer, a call the buffer it is making, about to  *)
(* put in a group or about to release, requests their group, and device    *)
(* buffers the device.                                                     *)
OwnersOf(o) == {t \in Clients : o \in own[t]}
SlotsOf(b) ==
  {s \in Groups \X (1 .. MaxSlots) : s[2] \in DOMAIN slots[s[1]] /\ slots[s[1]][s[2]] = b}
MappersOf(b) == {t \in Clients : b \in MappedBuffers(t)}
CallsOn(b) == {t \in Clients : pc[t] \in {"alloc", "set", "unref"} /\ buf[t] = b}
HoldsGroup(c, g) ==
  /\ reqGroup[c] = g
  /\ \/ req[c] \in {"made", "queued"}
     \/ \E w \in Workers : cmd[w] = c /\ pc[w] \in {"snapshot", "ioctl", "drop"}
RequestsOf(g) == {c \in Cmds : HoldsGroup(c, g)}
WithStorage == {b \in Buffers : storage[b] # NULL}
Allocating == {t \in Clients : pc[t] = "alloc"}

BufferHolders(b) ==
  ({"own"} \X OwnersOf(b)) \cup ({"slot"} \X SlotsOf(b))
    \cup ({"map"} \X MappersOf(b)) \cup ({"in"} \X CallsOn(b))
GroupHolders(g) == ({"own"} \X OwnersOf(g)) \cup ({"req"} \X RequestsOf(g))
DeviceHolders ==
  ({"own"} \X OwnersOf(Device)) \cup ({"buf"} \X WithStorage) \cup ({"in"} \X Allocating)
Holders(o) ==
  IF o \in Buffers THEN BufferHolders(o)
  ELSE IF o \in Groups THEN GroupHolders(o) ELSE DeviceHolders

(* The count of an object is always the number of its holders: every       *)
(* retain is paired with one release, on every path through adding,        *)
(* replacing, getting, mapping and destroying (xrp_host_common.c), also    *)
(* when the same buffer sits in several slots.                             *)
RefExact == \A o \in Objects : ref[o] = Cardinality(Holders(o))

(* What the next step of a thread dereferences.                            *)
Touches(t) ==
  CASE pc[t] = "push" -> {reqGroup[cmd[t]]}
    [] pc[t] = "alloc" -> {buf[t], Device}
    [] pc[t] = "set" -> {grp[t], buf[t]}
    [] pc[t] \in {"unref", "bufferFree"} -> {buf[t]}
    [] pc[t] = "snapshot" -> {grp[t]} \cup Contents(grp[t])
    [] pc[t] = "drop" -> {grp[t]}
    [] pc[t] = "group" -> {grp[t]} \cup Contents(grp[t])
    [] pc[t] = "buffer" -> {buf[t]} \cup (IF buf[t] \in HostBuffers THEN {} ELSE {Device})
    [] OTHER -> {}

(* No thread uses a buffer, a group or the device after it was freed, and  *)
(* what a client owns, has mapped or can get from its group is alive, even *)
(* while other threads replace buffers of the group or destroy it.         *)
NoUseAfterFree ==
  /\ \A t \in Threads : \A o \in Touches(t) : mem[o] \in {"made", "live", "closing"}
  /\ \A t \in Clients : \A o \in own[t] \cup MappedBuffers(t) : mem[o] = "live"
  /\ \A g \in Groups : mem[g] = "live" =>
       \A b \in Contents(g) : mem[b] = "live"

(* An ioctl goes to the driver with addresses of storage that is still     *)
(* allocated and through a device that is still open, although the group's *)
(* mutex was dropped before it (xrp_run_command_ioctl) or was never taken  *)
(* (xrp_sync_device_buffer): the request keeps its group, the group its    *)
(* buffers and a buffer its device until the ioctl returns.                *)
CommandStorageLive ==
  \A t \in Threads : \A b \in snap[t] \ HostBuffers :
    storage[b] # NULL /\ mem[Device] = "live"

(* What xrp_map_buffer returned is memory of the buffer for as long as it  *)
(* is mapped: inside what the driver allocated, whatever offset and size   *)
(* were asked for, and still allocated when everybody else has let go of   *)
(* the buffer and the device.                                              *)
MappingsStayValid ==
  \A t \in Clients : \A m \in mapped[t] :
    LET capacity == IF m[1] \in HostBuffers THEN SizeOf[m[1]] ELSE storage[m[1]]
    IN capacity # NULL /\ m[2] + m[3] <= capacity

(* Buffers, groups and the device live exactly as long as somebody holds   *)
(* them: the life cycle of RefCounted.  A buffer whose storage the driver  *)
(* refused is never handed to anybody and does not count as born.          *)
Lives == INSTANCE RefCounted WITH
  life <- [o \in Objects |-> CASE mem[o] = "made" -> "none"
                               [] mem[o] = "closing" -> "dying"
                               [] OTHER -> mem[o]],
  holders <- [o \in Objects |-> IF mem[o] = "made" THEN {} ELSE Holders(o)]
IsRefCounted == Lives!Spec

Released == \A t \in Clients : own[t] = {} /\ mapped[t] = {}
AllFreed ==
  /\ \A o \in Objects : mem[o] \in {"none", "freed"}
  /\ \A b \in Buffers : storage[b] = NULL
  /\ \A c \in Cmds : req[c] \in {"none", "done"}

(* Once the clients have released and unmapped everything for good, in     *)
(* whatever order, everything is freed, the storage has gone back to the   *)
(* driver and the device is closed (xrp_release_*, xrp_unmap_buffer and    *)
(* the references xrp_request_process drops).                              *)
EverythingFreed == <>[]Released => <>[]AllFreed
=============================================================================
