--------------------------- MODULE XrpBuffersInv ---------------------------
(* The inductive invariant behind the safety properties of XrpBuffers.     *)
(* BuffersSafety checks it with TLC, XrpBuffersProofs proves it.           *)
EXTENDS XrpBuffers

DestroysBuffer(t) == pc[t] \in {"buffer", "bufferFree"}
DestroysGroup(t) == pc[t] \in Dtors /\ grp[t] # NULL

(* What is referred to is there.  Storage of a new buffer is the call's    *)
(* that makes it.                                                          *)
LifeOK(o) ==
  /\ ref[o] > 0 <=> mem[o] \in {"made", "live"}
  /\ mem[o] = "made" => \E t \in Clients : pc[t] = "alloc" /\ buf[t] = o
DeviceOK == mem[Device] \in {"live", "freed"}

(* The storage of a device buffer is there while the buffer lives; its     *)
(* destructor gives it back.                                               *)
StorageOK(b) ==
  /\ b \in HostBuffers \/ mem[b] \in {"none", "made", "freed"} => storage[b] = NULL
  /\ b \notin HostBuffers /\ mem[b] = "live" => storage[b] = SizeOf[b] % U32Mod

(* The buffer a thread works on.  It is the only one to know a buffer that *)
(* is being made.                                                          *)
BufferOK(t) ==
  /\ pc[t] = "alloc" =>
       /\ Device \in own[t] /\ buf[t] \in Buffers \ HostBuffers
       /\ mem[buf[t]] = "made" /\ ref[buf[t]] = 1
  /\ pc[t] \in {"set", "unref"} => buf[t] \in Buffers
  /\ DestroysBuffer(t) =>
       /\ buf[t] \in Buffers /\ mem[buf[t]] = "closing"
       /\ storage[buf[t]] # NULL <=> pc[t] = "buffer" /\ buf[t] \notin HostBuffers

(* The group it works on: a client's own one, that of the request it       *)
(* handles, or the one it destroys.                                        *)
GroupOK(t) ==
  /\ pc[t] \in {"idle", "alloc", "push", "unref", "signal"} => grp[t] = NULL
  /\ pc[t] = "group" => grp[t] # NULL
  /\ DestroysGroup(t) => mem[grp[t]] = "closing"
  /\ t \in Clients =>
       /\ pc[t] \in {"set", "snapshot"} => grp[t] \in own[t] \cap Groups
       /\ pc[t] = "ioctl" /\ grp[t] # NULL => grp[t] \in own[t]
  /\ t \in Workers =>
       /\ pc[t] \in {"snapshot", "ioctl", "drop"} => grp[t] = reqGroup[cmd[t]] /\ grp[t] # NULL
       /\ DestroysBuffer(t) => grp[t] # NULL

(* And the request.                                                        *)
RequestOK(t) ==
  IF t \in Clients
  THEN IF pc[t] = "push" THEN cmd[t] # NULL /\ req[cmd[t]] = "made" ELSE cmd[t] = NULL
  ELSE IF pc[t] = "idle" THEN cmd[t] = NULL ELSE cmd[t] # NULL /\ req[cmd[t]] = "running"

(* The buffers that are with an ioctl have an owner or are in the group.   *)
SnapOK(t) ==
  /\ pc[t] # "ioctl" => snap[t] = {}
  /\ pc[t] = "ioctl" /\ grp[t] = NULL => t \in Clients /\ snap[t] \subseteq own[t]
  /\ pc[t] = "ioctl" /\ grp[t] # NULL => ReplaceInFlight \/ snap[t] \subseteq Contents(grp[t])

(* Two threads destroy different objects and have different requests.      *)
Exclusive(t, u) ==
  /\ DestroysBuffer(t) /\ DestroysBuffer(u) => buf[t] # buf[u]
  /\ DestroysGroup(t) /\ DestroysGroup(u) => grp[t] # grp[u]
  /\ cmd[t] # NULL => cmd[t] # cmd[u]

(* What was checked before a window was mapped; nobody maps a buffer twice.*)
MappingOK(t) ==
  /\ \A m \in mapped[t] : m[2] + m[3] <= SizeOf[m[1]]
  /\ \A m, k \in mapped[t] : m[1] = k[1] => m = k

(* The rule for callers: no buffer of a group in use is replaced.          *)
NotReplaced == ReplaceInFlight \/ \A g \in Groups : ~InFlight(g) \/ ~BeingChanged(g)

IInv ==
  /\ TypeOK
  /\ RefExact
  /\ \A o \in Objects : LifeOK(o)
  /\ DeviceOK
  /\ \A b \in Buffers : StorageOK(b)
  /\ \A t \in Threads : BufferOK(t) /\ GroupOK(t) /\ RequestOK(t) /\ SnapOK(t)
  /\ \A t, u \in Threads : t # u => Exclusive(t, u)
  /\ \A c \in Cmds : req[c] # "none" => reqGroup[c] # NULL
  /\ \A t \in Clients : MappingOK(t)
  /\ NotReplaced
=============================================================================
