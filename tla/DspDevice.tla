------------------------------ MODULE DspDevice ------------------------------
(***************************************************************************)
(* The device and buffer calls of the imaging library: device.cpp,         *)
(* buffer.cpp, hailodsp_driver.cpp, and the way send_command and           *)
(* dsp_get_utilization use a device.  The library takes no lock: calls of  *)
(* several threads interleave between reading a device or a buffer header  *)
(* and the ioctl made with what was read.                                  *)
(*                                                                         *)
(* The heap, the table of file descriptors and the driver's allocations    *)
(* are the environment's.  A descriptor that was closed may be given out   *)
(* again, and so may a heap block and a buffer.  An open or an ioctl       *)
(* succeeds or fails as the environment likes.  A new that fails changes   *)
(* nothing and is left out.                                                *)
(*                                                                         *)
(* Callers keep the usual rules of an API of handles: a handle is used     *)
(* only between the return of the call that gave it and the call that      *)
(* releases it, and not released while another thread's call is using it.  *)
(* With BuffersFirst they also release a device's buffers before the       *)
(* device, which the header does not ask for.                              *)
(***************************************************************************)
EXTENDS Naturals, FiniteSets

CONSTANTS
  Threads,      \* the caller's threads
  Handles,      \* heap blocks for a _dsp_device
  Fds,          \* file descriptors
  Buffers,      \* buffers the driver can hand out
  Sizes,        \* sizes callers ask for
  HeaderSize,   \* sizeof(dsp_buffer_t)
  SizeMod,      \* 2 to the width of size_t
  U32Mod,       \* 2 to the width of __u32
  BuffersFirst, \* whether callers release buffers before their device
  NULL

ASSUME SizeAssumption ==
  /\ SizeMod \in Nat \ {0}
  /\ U32Mod \in 1..SizeMod
  /\ HeaderSize \in Nat
  /\ Sizes \subseteq 1..(SizeMod - 1)
  /\ BuffersFirst \in BOOLEAN
ASSUME NullAssumption == NULL \notin Handles \cup Buffers \cup Nat

VARIABLES
  heap,         \* the allocated _dsp_device blocks
  fdOf,         \* the fd field of each block; anything until it is stored
  file,         \* descriptor table: the device a descriptor was opened for
  memory,       \* the driver's allocation of each buffer, in bytes, or NULL
  header,       \* the metadata at the start of each buffer
  devices,      \* the devices callers hold
  buffers,      \* the buffers callers hold
  pc,           \* where each thread is
  arg           \* the arguments and locals of its call

vars == <<heap, fdOf, file, memory, header, devices, buffers, pc, arg>>

NoArg == [device |-> NULL, buffer |-> NULL, fd |-> NULL, size |-> 0]

Call(t, where, a) ==
  /\ pc' = [pc EXCEPT ![t] = where]
  /\ arg' = [arg EXCEPT ![t] = a]

Return(t) == Call(t, "idle", NoArg)

At(S) == {t \in Threads : pc[t] \in S}
DeviceAt(S) == {arg[t].device : t \in At(S)}
BufferAt(S) == {arg[t].buffer : t \in At(S)}

DeviceInUse(h) == \E t \in Threads : arg[t].device = h
BufferInUse(b) == \E t \in Threads : arg[t].buffer = b

(***************************************************************************)
(* dsp_create_device: the block is allocated, and freed again if the       *)
(* device file does not open.                                              *)
(***************************************************************************)
CreateDevice(t) ==
  /\ pc[t] = "idle"
  /\ \E h \in Handles \ heap :
       /\ heap' = heap \cup {h}
       /\ Call(t, "open", [NoArg EXCEPT !.device = h])
  /\ UNCHANGED <<fdOf, file, memory, header, devices, buffers>>

\* With one mistake: the block is deleted at l_exit after a success too.
OpenedDeletes(t) ==
  /\ pc[t] = "open"
  /\ \E f \in Fds :
       /\ file[f] = NULL
       /\ file' = [file EXCEPT ![f] = arg[t].device]
       /\ fdOf' = [fdOf EXCEPT ![arg[t].device] = f]
  /\ devices' = devices \cup {arg[t].device}
  /\ heap' = heap \ {arg[t].device}
  /\ Return(t)
  /\ UNCHANGED <<memory, header, buffers>>

\* With one mistake: the descriptor is not stored in the block.
OpenedNoFd(t) ==
  /\ pc[t] = "open"
  /\ \E f \in Fds :
       /\ file[f] = NULL
       /\ file' = [file EXCEPT ![f] = arg[t].device]
  /\ devices' = devices \cup {arg[t].device}
  /\ Return(t)
  /\ UNCHANGED <<heap, fdOf, memory, header, buffers>>

Opened(t) ==
  /\ pc[t] = "open"
  /\ \E f \in Fds :
       /\ file[f] = NULL
       /\ file' = [file EXCEPT ![f] = arg[t].device]
       /\ fdOf' = [fdOf EXCEPT ![arg[t].device] = f]
  /\ devices' = devices \cup {arg[t].device}
  /\ Return(t)
  /\ UNCHANGED <<heap, memory, header, buffers>>

\* With one mistake: the block is not freed.
OpenFailedKeepsBlock(t) ==
  /\ pc[t] = "open"
  /\ Return(t)
  /\ UNCHANGED <<heap, fdOf, file, memory, header, devices, buffers>>

\* With one mistake: the result of open is not looked at.
OpenFailedIgnored(t) ==
  /\ pc[t] = "open"
  /\ fdOf' = [fdOf EXCEPT ![arg[t].device] = NULL]
  /\ devices' = devices \cup {arg[t].device}
  /\ Return(t)
  /\ UNCHANGED <<heap, file, memory, header, buffers>>

OpenFailed(t) ==
  /\ pc[t] = "open"
  /\ heap' = heap \ {arg[t].device}
  /\ Return(t)
  /\ UNCHANGED <<fdOf, file, memory, header, devices, buffers>>

(***************************************************************************)
(* dsp_release_device: close, then delete.                                 *)
(***************************************************************************)
ReleaseDevice(t) ==
  /\ pc[t] = "idle"
  /\ \E h \in devices :
       /\ ~DeviceInUse(h)
       /\ BuffersFirst => \A b \in buffers \cup BufferAt({"release", "free"}) :
                            header[b].device # h
       /\ devices' = devices \ {h}
       /\ Call(t, "close", [NoArg EXCEPT !.device = h])
  /\ UNCHANGED <<heap, fdOf, file, memory, header, buffers>>

Close(t) ==
  /\ pc[t] = "close"
  /\ file' = [file EXCEPT ![fdOf[arg[t].device]] = NULL]
  /\ pc' = [pc EXCEPT ![t] = "delete"]
  /\ UNCHANGED <<heap, fdOf, memory, header, devices, buffers, arg>>

Delete(t) ==
  /\ pc[t] = "delete"
  /\ heap' = heap \ {arg[t].device}
  /\ Return(t)
  /\ UNCHANGED <<fdOf, file, memory, header, devices, buffers>>

(***************************************************************************)
(* A call on a device reads its descriptor first.                          *)
(***************************************************************************)
CallCreateBuffer(t) ==
  /\ pc[t] = "idle"
  /\ \E h \in devices, s \in Sizes :
       Call(t, "create", [NoArg EXCEPT !.device = h, !.size = s])
  /\ UNCHANGED <<heap, fdOf, file, memory, header, devices, buffers>>

CallSendCommand(t) ==
  /\ pc[t] = "idle"
  /\ \E h \in devices : Call(t, "send", [NoArg EXCEPT !.device = h])
  /\ UNCHANGED <<heap, fdOf, file, memory, header, devices, buffers>>

\* The device that releases a buffer need not be the one that made it.
CallReleaseBuffer(t) ==
  /\ pc[t] = "idle"
  /\ \E h \in devices, b \in buffers :
       /\ ~BufferInUse(b)
       /\ buffers' = buffers \ {b}
       /\ Call(t, "release", [NoArg EXCEPT !.device = h, !.buffer = b])
  /\ UNCHANGED <<heap, fdOf, file, memory, header, devices>>

CallSync(t) ==
  /\ pc[t] = "idle"
  /\ \E b \in buffers : Call(t, "sync", [NoArg EXCEPT !.buffer = b])
  /\ UNCHANGED <<heap, fdOf, file, memory, header, devices, buffers>>

\* With one mistake: the sum with the header is not taken.
ReadDeviceNoHeader(t) ==
  /\ pc[t] \in {"create", "send", "release"}
  /\ Call(t, [create |-> "alloc", send |-> "queue", release |-> "free"][pc[t]],
          [arg[t] EXCEPT !.fd = fdOf[arg[t].device],
             !.size = IF pc[t] = "release" THEN header[arg[t].buffer].size ELSE @])
  /\ UNCHANGED <<heap, fdOf, file, memory, header, devices, buffers>>

ReadDevice(t) ==
  /\ pc[t] \in {"create", "send", "release"}
  /\ Call(t, [create |-> "alloc", send |-> "queue", release |-> "free"][pc[t]],
          [arg[t] EXCEPT !.fd = fdOf[arg[t].device],
             !.size = CASE pc[t] = "create" -> (HeaderSize + @) % SizeMod
                        [] pc[t] = "release" -> header[arg[t].buffer].size
                        [] OTHER -> @])
  /\ UNCHANGED <<heap, fdOf, file, memory, header, devices, buffers>>

\* dsp_buffer_sync_start and dsp_buffer_sync_end find the device in the header.
ReadHeader(t) ==
  /\ pc[t] = "sync"
  /\ LET h == header[arg[t].buffer]
     IN  Call(t, "dma_sync", [arg[t] EXCEPT !.device = h.device, !.fd = fdOf[h.device],
                                            !.size = h.size])
  /\ UNCHANGED <<heap, fdOf, file, memory, header, devices, buffers>>

(***************************************************************************)
(* The ioctls.  An allocation is asked for in 32 bits; the buffer the      *)
(* driver gives may hold anything until the library writes its header.     *)
(***************************************************************************)
Allocated(t) ==
  /\ pc[t] = "alloc"
  /\ \E b \in Buffers :
       /\ memory[b] = NULL
       /\ memory' = [memory EXCEPT ![b] = arg[t].size % U32Mod]
       /\ Call(t, "header", [arg[t] EXCEPT !.buffer = b])
  /\ UNCHANGED <<heap, fdOf, file, header, devices, buffers>>

WriteHeader(t) ==
  /\ pc[t] = "header"
  /\ header' = [header EXCEPT ![arg[t].buffer] =
                  [device |-> arg[t].device, size |-> arg[t].size]]
  /\ buffers' = buffers \cup {arg[t].buffer}
  /\ Return(t)
  /\ UNCHANGED <<heap, fdOf, file, memory, devices>>

Freed(t) ==
  /\ pc[t] = "free"
  /\ memory' = [memory EXCEPT ![arg[t].buffer] = NULL]
  /\ Return(t)
  /\ UNCHANGED <<heap, fdOf, file, header, devices, buffers>>

\* The caller still has the buffer and can try again.
FreeFailed(t) ==
  /\ pc[t] = "free"
  /\ buffers' = buffers \cup {arg[t].buffer}
  /\ Return(t)
  /\ UNCHANGED <<heap, fdOf, file, memory, header, devices>>

\* An allocation that fails, and a sync or a command whatever it answers.
Answered(t) ==
  /\ pc[t] \in {"alloc", "dma_sync", "queue"}
  /\ Return(t)
  /\ UNCHANGED <<heap, fdOf, file, memory, header, devices, buffers>>

Init ==
  /\ heap = {} /\ devices = {} /\ buffers = {}
  /\ fdOf \in [Handles -> Fds]
  /\ file = [f \in Fds |-> NULL]
  /\ memory = [b \in Buffers |-> NULL]
  /\ header = [b \in Buffers |-> [device |-> NULL, size |-> 0]]
  /\ pc = [t \in Threads |-> "idle"]
  /\ arg = [t \in Threads |-> NoArg]

Next == \E t \in Threads :
  \/ CreateDevice(t) \/ Opened(t) \/ OpenFailed(t)
  \/ ReleaseDevice(t) \/ Close(t) \/ Delete(t)
  \/ CallCreateBuffer(t) \/ CallSendCommand(t) \/ CallReleaseBuffer(t) \/ CallSync(t)
  \/ ReadDevice(t) \/ ReadHeader(t)
  \/ Allocated(t) \/ WriteHeader(t) \/ Freed(t) \/ FreeFailed(t) \/ Answered(t)

Spec == Init /\ [][Next]_vars

(***************************************************************************)
(* Properties.                                                             *)
(***************************************************************************)
Places == {"idle", "open", "close", "delete", "create", "send", "release",
           "sync", "alloc", "header", "free", "dma_sync", "queue"}
Args == [device : Handles \cup {NULL}, buffer : Buffers \cup {NULL},
         fd : Fds \cup {NULL}, size : 0..(SizeMod - 1)]

\* Every variable has its type.
TypeOK ==
  /\ heap \subseteq Handles /\ devices \subseteq Handles /\ buffers \subseteq Buffers
  /\ fdOf \in [Handles -> Fds]
  /\ file \in [Fds -> Handles \cup {NULL}]
  /\ memory \in [Buffers -> (0..(U32Mod - 1)) \cup {NULL}]
  /\ header \in [Buffers -> [device : Handles \cup {NULL}, size : 0..(SizeMod - 1)]]
  /\ pc \in [Threads -> Places] /\ arg \in [Threads -> Args]

(***************************************************************************)
(* No call reads a device after its delete or a header after its buffer    *)
(* was freed: in particular not the device a buffer's header remembers,    *)
(* which dsp_buffer_sync_start and _end read without being given it.       *)
(***************************************************************************)
NoUseAfterRelease ==
  /\ DeviceAt({"close", "create", "send", "release"}) \subseteq heap
  /\ \A b \in BufferAt({"release", "sync"}) : memory[b] # NULL
  /\ \A b \in BufferAt({"sync"}) : header[b].device \in heap

(***************************************************************************)
(* The descriptor a call read is still that device's when its ioctl is     *)
(* made: not closed, and not given to another device since.                *)
(***************************************************************************)
IoctlReachesItsDevice ==
  \A t \in At({"alloc", "free", "dma_sync", "queue"}) : file[arg[t].fd] = arg[t].device

(***************************************************************************)
(* Every block, descriptor and buffer is held by a caller or by the call   *)
(* that is making or releasing it, on the error paths too: a failed open   *)
(* leaves no block, a release leaves neither block nor descriptor.         *)
(***************************************************************************)
NothingLeaks ==
  /\ heap = devices \cup DeviceAt({"open", "close", "delete"})
  /\ {file[f] : f \in Fds} \ {NULL} = devices \cup DeviceAt({"close"})
  /\ \A h \in devices : file[fdOf[h]] = h
  /\ {b \in Buffers : memory[b] # NULL} = buffers \cup BufferAt({"header", "release", "free"})

(***************************************************************************)
(* A buffer a caller holds has the size its header says, and so the size   *)
(* that was asked for after the header.                                    *)
(***************************************************************************)
BufferHoldsItsSize ==
  \A b \in buffers : memory[b] >= header[b].size /\ header[b].size > HeaderSize

(***************************************************************************)
(* What is synchronized is inside the buffer.  The ioctl is given the      *)
(* address after the header.                                               *)
(***************************************************************************)
SyncInsideBuffer ==
  \A t \in At({"dma_sync"}) : HeaderSize + arg[t].size <= memory[arg[t].buffer]

(***************************************************************************)
(* The inductive invariant behind them, which DspDeviceProofs proves: what *)
(* a call works with is held by its caller or by nobody else, and          *)
(* descriptors and open devices name each other.                           *)
(***************************************************************************)
Making == {"open"}
Closing == {"close"}
Leaving == {"close", "delete"}
OnDevice == {"create", "send", "release", "alloc", "header", "free", "queue"}
OwnsBuffer == {"header", "release", "free"}

CallOK(t) ==
  /\ pc[t] \in Making \cup Leaving => arg[t].device \in heap \ devices
  /\ pc[t] \in OnDevice => arg[t].device \in devices
  /\ pc[t] \in {"alloc", "free", "queue"} => arg[t].fd = fdOf[arg[t].device]
  /\ pc[t] \in {"sync", "dma_sync"} => arg[t].buffer \in buffers
  /\ pc[t] \in OwnsBuffer => arg[t].buffer \in Buffers \ buffers
  /\ pc[t] = "dma_sync" =>
       /\ arg[t].device = header[arg[t].buffer].device
       /\ BuffersFirst => arg[t].fd = fdOf[arg[t].device]

Exclusive(t, u) ==
  /\ pc[t] \in Making \cup Leaving /\ pc[u] \in Making \cup Leaving =>
       arg[t].device # arg[u].device
  /\ pc[t] \in OwnsBuffer /\ pc[u] \in OwnsBuffer => arg[t].buffer # arg[u].buffer

CallsOK == \A t \in Threads : CallOK(t) /\ \A u \in Threads \ {t} : Exclusive(t, u)

\* A block is held by a caller or by the call that makes or releases it.
HeapExact ==
  /\ devices \subseteq heap
  /\ heap \subseteq devices \cup DeviceAt(Making \cup Leaving)

FilesExact ==
  /\ \A f \in Fds : file[f] # NULL =>
       /\ fdOf[file[f]] = f
       /\ file[f] \in devices \cup DeviceAt(Closing)
  /\ \A h \in devices \cup DeviceAt(Closing) : file[fdOf[h]] = h

MemoryExact == \A b \in Buffers : memory[b] # NULL <=> b \in buffers \cup BufferAt(OwnsBuffer)

\* A buffer remembers a device, and with BuffersFirst one that callers hold.
HeadersOK == \A b \in buffers \cup BufferAt({"release", "free"}) :
  /\ header[b].device \in Handles
  /\ BuffersFirst => header[b].device \in devices

\* Sizes: neither the sum with the header nor the cast to __u32 loses anything.
SizesFit == \A s \in Sizes : HeaderSize + s < U32Mod

SizeOK(t) ==
  /\ pc[t] = "create" => arg[t].size \in Sizes
  /\ pc[t] \in {"alloc", "header"} => arg[t].size \in (HeaderSize + 1)..(U32Mod - 1)
  /\ pc[t] = "header" => memory[arg[t].buffer] = arg[t].size

HeaderSizeOK(b) == memory[b] = header[b].size /\ header[b].size > HeaderSize

SizesOK == SizesFit =>
  /\ \A t \in Threads : SizeOK(t)
  /\ \A b \in buffers \cup BufferAt({"release", "free"}) : HeaderSizeOK(b)

IInv ==
  /\ TypeOK /\ CallsOK /\ HeapExact /\ FilesExact /\ MemoryExact /\ HeadersOK /\ SizesOK
==============================================================================
