# A formal model of hailodsp

TLA+ models of the two libraries of this repository, checked with TLC, and
theorems about them checked with TLAPS:

- `src/libhailodsp/xrp`, a C runtime that shares a DSP between the threads of a
  host process: reference-counted devices, queues, buffers, buffer groups and
  events, and one worker thread per queue;
- `src/libhailodsp/libhailodsp`, the C++ imaging library (`hailodsp.h`): it
  validates images and parameters, makes one request per call and hands it to
  the driver with an ioctl.

The code is the reference for every definition. Paths below are relative to
`src/libhailodsp/`; `lib/` stands for `libhailodsp/src/`.

## 1. The system

### 1.1 Inventory

| Component | State | Operations | Talks to | What makes it correct |
|---|---|---|---|---|
| XRP objects (`xrp/xrp_host_common.c/.h`, `hosted/xrp_linux.c`) | reference counts, parent pointers (queue to device, event to queue, request to event and group, group to buffers, device buffer to device) | open, create, retain, release, enqueue, run synchronously | everything below | each count equals the number of holders; nothing is used after `free`; what is released is freed |
| Queue and worker (`xrp/xrp_threaded_queue.c`) | list of requests, `exit`, `sync_exit`, mutex and condition variable, thread | `xrp_queue_init`, `_push`, `_destroy`, `xrp_queue_thread` | the worker calls `xrp_request_process`, which may release the queue | requests in order, each once; no lost wake-up; destruction ends and leaves no thread behind |
| Events (`xrp/xrp_threaded_queue.c`) | status, mutex and condition variable, list of links of `xrp_wait_any` | `xrp_wait`, `xrp_wait_any`, `xrp_impl_broadcast_event`, `xrp_event_status` | signalled by workers | waiters return, with the index of a completed event; no list keeps a link of a call that returned |
| Buffers and groups (`xrp/xrp_host_common.c`, `hosted/xrp_linux.c`) | counts, storage in the driver, array of buffers under a mutex | create, map, unmap, sync, add, set, get, release; snapshot of a group for a command | requests hold groups | counts exact; what is mapped or with an ioctl is memory of the buffer and stays allocated |
| Imaging operations (`lib/image_utils.cpp`, `resize.cpp`, `blend.cpp`, `blur.cpp`, `convert_format.cpp`, `dewarp.cpp`, `send_command.cpp`, `buffer_list.hpp`) | none between calls | crop and resize, resize, multi crop and resize, blend, blur, convert format, dewarp | one ioctl per call | what is sent describes memory the caller gave, the DSP reads and writes inside it, and only outputs are writable |
| Device and buffer calls (`lib/device.cpp`, `buffer.cpp`, `hailodsp_driver.cpp`, `utilization.cpp`) | heap blocks of devices, descriptors, a header at the start of each buffer | create, release, sync, get utilisation, send a command | the driver | no use after release; an ioctl reaches the device it was meant for; error paths leak nothing; a buffer has its size |
| Kernel driver, DSP firmware | external | | | not in the repository |
| `xrp/xrp_sync_queue.c`, `lib/device_mgmt.cpp` | not built | | | not modelled |
| Logging, build files, headers | none | | | not modelled |

### 1.2 What is hard about it

- A worker uses its queue through a plain pointer, without a reference. A queue
  may be destroyed by a client, which joins the worker, or **by its own worker**:
  an event holds its queue, and the worker holds the event it completes. Then
  `pthread_join` fails, `*queue->sync_exit = 1` writes to a local variable of
  `xrp_queue_process` further up the same stack, and the queue is freed under
  that frame.
- `xrp_queue_push` broadcasts only when the list was empty, so a stale `tail`
  is a lost wake-up. Requests are freed by the worker and allocated again.
- `xrp_wait_any` puts links of a waiter's heap block, and a group that lives on
  its stack, into lists of events that other waiters and a broadcaster use. A
  broadcaster reads a link after it has woken the group the link belongs to.
- `xrp_run_command_ioctl` copies addresses under the mutex of a group and uses
  them after dropping it; `xrp_sync_device_buffer` takes no lock at all.
- A device buffer retains its device before it knows whether the driver will
  give it storage. A mapping outlives whoever made it: its end may be the last
  release of the buffer, and that the last of the device.
- The imaging library takes no lock: a descriptor or a header is read and used
  later. Descriptors and heap blocks are reused.
- Numbers arrive as `size_t` and leave as `__u32`; tables have computed sizes;
  indices into a list are the length the list had at some moment.

`PROJECT.json` lists these as hazards, each at its line with the properties that
would catch it.

### 1.3 Interaction

    application threads --- hailodsp.h ---> imaging library ----------- ioctl --> driver
          |                                                                        ^
          +--- xrp_api.h --> objects --push--> request list --> worker --- ioctl --+
                               ^                                  |
                               +--- release, broadcast -----------+

The two libraries do not call each other in this repository. `XrpRuntime`
composes objects, queues, workers and events. Its queue is a sequence;
`XrpRequestList` shows that the linked list is one (`XrpChannel`).
`XrpWaitAny` and `XrpBuffers` model the parts of the runtime that add state of
their own. Two promises are made in several places and stated once: `RefCounted`,
the life of an object with a reference count, is implemented by the devices,
queues and events of `XrpRuntime` and by the buffers and groups of `XrpBuffers`;
`XrpEvents`, the completion of events and waiting for them, by `xrp_wait` in
`XrpRuntime` and by `xrp_wait_any` in `XrpWaitAny`.

## 2. The modules

| Module | What it is |
|---|---|
| `XrpRuntime` | devices, queues, workers, events: lifetimes and scheduling |
| `XrpRuntimeInv`, `XrpRuntimeProofs` | its inductive invariant and the proofs |
| `RefCounted` | abstract specification of reference-counted objects |
| `XrpEvents` | abstract specification of events and of waiting for them |
| `XrpRuntimeRefines` | proofs that `XrpRuntime` implements both |
| `XrpChannel` | abstract specification of a queue: an ordered channel |
| `XrpRequestList`, `XrpRequestListProofs` | the list, pointer by pointer, its refinement of `XrpChannel`, the proofs |
| `XrpWaitAny`, `XrpWaitAnyProofs` | waiting for any of several events, and the proofs |
| `XrpBuffers` | buffers, groups, storage, and commands that carry a group |
| `XrpBuffersInv`, `XrpBuffersProofs` | its inductive invariant and the proofs |
| `XrpBuffersRefines` | proof that `XrpBuffers` implements `RefCounted` |
| `DspImage` | the layout and checks of images, regions, masks, overlays and meshes, and the buffer list, as operators |
| `DspOps`, `DspOpsProofs` | the imaging operations, and the proofs |
| `DspDevice`, `DspDeviceProofs` | devices and buffers of the imaging library, and the proofs |
| `MC*` | instances for TLC: symmetry sets and input sets |

The definitions named `...NoRetain`, `...NoBroadcast`, `...OneLess` and the like, in
the sections marked as mutants, are faulty variants of an action. No
specification uses them: each is there to show that a property notices when the
action is replaced by it.

### 2.1 XrpRuntime

`ref`, `mem` and `own` are the counts, the life of each object's memory and the
references client threads own. `pc`, `cmd`, `qu` and `sync` are the
control and locals of every thread; the worker of queue `q` is named `q`.
`parent` and `status` are fields of events, `req` the life of a request, and
`items`, `exit`, `syncExit`, `localExit` the request queue and the variable that
`sync_exit` points to.

A section under one mutex, or one atomic operation, is one step. Destructors
take a step per effect (`EvDrop`, `QExit`, `QJoin`, `QSync`, `QClose`,
`QFree`, `EvFree`) and are run by whichever thread dropped the last reference,
workers included. `xrp_wait` is a check under the event's mutex and a sleep;
`SpuriousWakeup` is the right of `pthread_cond_wait` to return early.
A call that fails for lack of memory undoes what it did and is a stuttering step.
`ThreadCreateMayFail` lets `pthread_create` fail, whose result
`xrp_queue_init` does not look at: such a queue accepts commands that nobody
processes, and who releases it goes past the join. The write through `sync_exit`
is `QSync`; it is not enabled where `sync_exit` is NULL, which is where the program
ends. Stack frames are not modelled.

Bounds: a command is enqueued once, so `Cmds` bounds the number of commands; a
client owns at most one reference to an object (`own` is a set), so counts are
bounded by the number of clients, commands and queues. Each object is created
at most once. Two clients are enough for each of them to be the last
holder while the other is inside a call; two commands for one to stay behind
while the other's completion destroys the queue.

`RefCounted` knows of each object whether it lives and who holds it. An object is
born with a holder, lives as long as it has one, dies in the step that
takes the last one away, and is freed once. The mapping is `life <- mem`, with
"closing" and "shut" both "dying", and `holders <- Holders(o)`: client threads,
queues and events that point to the object, and requests that are still to be
processed. The counts do not appear in it, so `RefCounted` says what they are
for. `XrpEvents` has the completed events and, for each thread, the events it
waits for; in `XrpRuntime` a thread waits for one, from the call to its
return, whether it is asleep or looking.

### 2.2 XrpRequestList and XrpChannel

Requests are blocks of memory that are allocated, pushed, taken, freed and
allocated again with any content in `next`. `head`, `tail` and `next` change
statement by statement under `mutex`. `order` is a history variable, the list
that the pointers should spell. The destroyer starts when no producer uses the
queue (that is what the counts of `XrpRuntime` provide) and may be the worker
inside `queue->fn`. `XrpChannel` is what `xrp_api.h` promises (an "ordered
device communication channel"): `Push`, `HandOver`, `Finish`, and two ways to
close, one which hands over what is left and one, from the handling of a
request, which does not. The mapping is `contents <- order, taken <- rq[Worker]`.

### 2.3 XrpWaitAny

`group`, `link` of events and `next`, `prev`, `lgroup` of links are the fields of
the C structures; the model keeps the code's odd layout, in which an event
stores the group of its first link and a link the group of the following one.
The section of a waiter under an event's mutex is a step. A broadcaster holds
the mutex of its event over many steps (`Complete`, `Signal`, `Advance`), and
meanwhile waiters can only touch other events. Three waiters are the least
number for a link with neighbours on both sides; two events let a waiter be in
two lists while each is walked. As an implementation of `XrpEvents` a call waits
for the set of events in its array.

### 2.4 XrpBuffers

Host buffers have no storage of their own and no reference to the device;
device buffers have both. `CreateDeviceBuffer` retains the device and goes to the
driver; `Allocated` and `AllocFailed` are the two ways `XRP_IOCTL_ALLOC` returns,
and between them and the call other threads run. The driver is asked for a
size cut to 32 bits (`U32Mod`), while the library keeps the `size_t`. `Map` has
the range check of `xrp_map_buffer` in arithmetic that wraps at `SizeMod`; a
mapping is the buffer with the window that was checked. `Unmap` ends one, and
passes its own check because the pointer is the one `xrp_map_buffer` returned.

`Replace` has the two outcomes of `xrp_set_buffer_in_group` (index in the group
or beyond it) and `ReleaseOld` releases the buffer each leaves. `Snapshot` and
`Ioctl` are the two halves of `xrp_run_command_ioctl`, run by workers for queued
requests and by clients that call it directly; `Sync` reads the buffer for
`xrp_sync_device_buffer` and shares `Ioctl`. `slots` of a group being destroyed
holds the buffers its destructor still has to release. `map_count` and
`map_flags` are left out: nothing reads them.

Holders of a buffer, group or device are pairs that say in which way it is held
(`"own"`, `"slot"`, `"map"`, `"in"`, `"req"`, `"buf"`), since a thread may hold one
buffer in several ways at once.

Bounds: two slots per group, so that one buffer can sit in both; a thread maps a
buffer at most once at a time. In the safety run the host buffer is too small for
every window, so only the device buffer is mapped; in the liveness run both are. The windows in the runs are one that fits, one
that begins behind the end, one that is a byte too long, and two whose end
wraps around `SizeMod`. The liveness run has two workers and two commands that
carry the same group, and one client: the roles of a second client, dropping
references while the first is inside a call, are the workers'.

`XrpBuffers` implements `RefCounted` too. A buffer whose storage the driver has
yet to give ("made") is not born: no other thread can name it.

### 2.5 DspImage and DspOps

An operation is a call with arguments from the constants, its checks in the
order of the code, and either an error or one command: images, planes,
regions, overlays, bitmask and mesh as the DSP sees them, after the conversion
of `size_t` to `__u32` and with the index of each plane's buffer in the list.
`SizeMod` and `U32Mod` stand for 2^64 and 2^32; sums and products that the code
computes in `size_t` wrap at `SizeMod`, and what is sent is cut at `U32Mod`.
`PlaneLayout` says how large a plane is for a pixel format. Colours,
interpolation and performance data do not affect any property and are left out.

Sizes pass through floating point in three places, and not in the same type.
`verify_privacy_mask_params` takes its limits from the source's sides as `float`
(`resize.cpp:112,119`); the size of the bitmask (`resize.cpp:361,363`) and the
subsampled sides in `verify_plane` are `double`. `Float` and `Double` round a number
to the nearest one with 24 or 53 significant bits, ties to even: `FloatExact` and
`DoubleExact` stand for 2^24 and 2^53, the number up to which every integer is
representable, and `Spacing` is the distance of representable numbers further
on. Dividing what was rounded by 2, 4 or 32 is exact in binary.

In the run, images have a few pixels and planes that are exactly large enough,
a byte or a line byte short, or larger; regions, counts and kernel sizes are on
and just past their limits, and the three limits on counts are 2 so that 3 is
beyond them. Floats are exact up to 64, so that the lines of two sources are
rounded before regions are compared with them: of 246 lines, where floats are 4
apart and the limit is still the right one, and of 268, where it is a line too far.
Regions end on the last line of these bitmasks and on the one after it.

### 2.6 DspDevice

Every call is split where it has read the device or the header and has not made
its ioctl. The descriptor table, the heap and the driver's allocations are the
environment's: descriptors, blocks and buffers are reused as soon as they are
free, and every ioctl may fail. Callers follow the rules of handles: use between
creation and release, and no release while a call is using the handle.

## 3. The runs

| Run | Instance | Question and result |
|---|---|---|
| `RuntimeSafety` | 2 clients, 1 queue, 2 commands; thread creation may fail | Whatever the order of releases: `RefExact` (counts are the number of holders), `NoUseAfterFree`, `NoLostWakeup` (a worker sleeps only over an empty list and without `exit`, a client only on a pending event), `PendingHasWorker` (a pending event keeps its queue and worker), `IsRefCounted` (refinement of `RefCounted`). Also checks `IInv`, the invariant the proof uses. Holds. |
| `RuntimeLiveness` | 2 clients, 1 queue, 1 command | `CommandCompletes`, `IsFairEvents` (`xrp_wait` refines `XrpEvents` with its fairness: it returns after the completion, not before, and does return), `CallsReturn` (waits and joins end), `EverythingFreed`. Holds. |
| `RuntimeAbandoned` | 1 client, 1 queue, 2 commands | `NothingAbandoned` is **violated**: a queue destroyed by its own worker is freed with an event-less command in it. |
| `RequestList` | 2 producers, 3 blocks | `ListExact`, `DestroyedQuiet` (nobody uses a destroyed condition variable), `IsLiveChannel` (refinement of `XrpChannel` with its fairness), `DestroyReturns`; and `IInv` of the proof. Holds. |
| `WaitAnySafety` | 3 waiters, 2 events, arrays of one or two events | `ListExact`, `NoDanglingLink`, `NoLostWakeup` (who sleeps has not been signalled, and every completed event of its array has a broadcaster still on its way to its link), `ReturnsCompleted`; and `IInv` of the proof. Holds. |
| `WaitAnyLiveness` | 2 waiters, 2 events | `IsFairEvents`: `xrp_wait_any` refines `XrpEvents` with its fairness. Holds. |
| `BuffersSafety` | 2 clients, 1 worker, a device buffer and a host buffer, 1 group, 1 command, 5 windows | `RefExact`, `NoUseAfterFree`, `CommandStorageLive` (what is with an ioctl is allocated and its device open), `MappingsStayValid` (what is mapped is inside the allocation); and `IInv` of the proof. Holds. |
| `BuffersLiveness` | 1 client, 2 workers, 2 commands, replacing allowed at any time | `EverythingFreed`: objects and storage; `IsRefCounted`. Holds. |
| `DspOps` | see 2.5 | `EveryPlaneHasItsBuffer`, `WritesOnlyOutputs`, `PixelsInside`, `CropOfCorrectSource`, `RegionsInImage`, `SideTablesFit` (for masked sources of fewer than 2^26 lines, see 3.2); `TypeOK` includes that counts fit the arrays of a request. Holds. |
| `DspCropSource` | as `DspOps` | `CropReadsInside` is **violated**: a source that was never checked as a whole is read outside its planes. |
| `DspDevice` | 3 threads, 2 blocks, 3 descriptors, 2 buffers | `NoUseAfterRelease`, `IoctlReachesItsDevice`, `NothingLeaks`, `BufferHoldsItsSize`, and `IInv`, the invariant the proof uses. Holds. |
| `DspSyncRange` | 2 threads | `SyncInsideBuffer` is **violated**: the range of a synchronisation ends a header's length behind the buffer. |

Symmetry is used in the safety runs only, over threads, commands, requests and
buffers that no definition tells apart. `DspOps` takes no symmetry: its input
sets are explicit. `CHECK_DEADLOCK FALSE` stands where the application may stop
making calls, or objects, each made once, are used up.

### 3.1 Three disagreements

- **Commands left in a queue** (`RuntimeAbandoned`). A client enqueues one command
  with an event and one without, releases its queue, and releases the event; the
  worker completes the first command, drops the last reference to the event and
  with it to the queue, and ends. `xrp_queue_destroy` notices ("releasing
  non-empty queue") and goes on: the second request is leaked and never sent,
  although `xrp_api.h:423` says it is queued to the DSP.
- **Crops of unchecked sources** (`DspCropSource`). `verify_crop_params` "assumes
  that "image" params is already checked for correctness" (`resize.cpp:36`), but
  it is called first, and afterwards only a copy of the source with the
  width and height of the crop is checked. Planes large enough for the crop's size
  and too small for its position pass.
- **Synchronising past the end** (`DspSyncRange`). `dsp_buffer_sync_start` and
  `_end` pass the caller's pointer, behind the header, with a size that includes
  the header. `dsp_release_buffer` goes back to the header first.

### 3.2 Assumptions about callers

Some properties hold for callers that keep a rule the headers do not state. The
rule is a constant or an input set, and with the other value TLC finds the
property violated in a few steps. The theorems that need a rule name it as their
hypothesis (in parentheses):

| Rule | Where | Without it |
|---|---|---|
| An array given to `xrp_wait_any` names no event twice (`DistinctArrays`) | `Arrays <- DifferentEvents`; the other set is `RepeatedEvents` | `NoDanglingLink` fails: the unlink loop stops at the first link of the same group, and a freed link stays in the event's list |
| `xrp_set_buffer_in_group` is not used on a group of a queued or running command (`~ReplaceInFlight`) | `ReplaceInFlight = FALSE` in `BuffersSafety` | `CommandStorageLive` fails: the replaced buffer's storage may be freed between the snapshot and the end of the ioctl |
| Buffers are released before the device they were created with (`BuffersFirst`) | `BuffersFirst = TRUE` | `NoUseAfterRelease` fails: `dsp_buffer_sync_*` reads the device from the header |
| Sizes of XRP device buffers fit in 32 bits (`SizesFit` of `XrpBuffersProofs`) | `SizeOf` below `U32Mod` | `MappingsStayValid` fails: `xrp_impl_create_device_buffer` asks the driver for the size cut to a `__u32`, and `xrp_map_buffer` checks against the `size_t` |
| `xrp_sync_device_buffer` is given device buffers | guard of `Sync` | `buffer->device` of a host buffer is NULL and is dereferenced |
| `xrp_unmap_buffer` is called once for each mapping | `Unmap` takes a mapping | a second call releases a reference of somebody else |
| Sizes of buffers fit in 32 bits with the header (`SizesFit` of `DspDevice`) | `Sizes = {1}` | with a size beyond `U32Mod`, `BufferHoldsItsSize` fails: `driver_allocate_buffer` casts to `__u32` |
| Bitmasks and meshes are smaller than 4 GiB (`TablesFit32`) | `MCSources`, `MCMeshes` | `SideTablesFit` fails: the size of the table's buffer is cut to a `__u32` |
| Sources of calls with a mask have fewer than 2^26 lines (`FloatHeights`, the premise of `SideTablesFit`) | `SideTablesFit`; the sources of the run include one beyond it | `SideTablesFit` fails: the limit computed in `float` is a line past the bitmask computed in `double`. At 2^27 + 10 lines the check allows regions up to line 33554436 of a bitmask of 33554435 lines |
| Sides, strides and sizes of images fit in 32 bits, and the products `verify_plane` takes do not wrap and fit a `double` (`Representable`) | premise of `PixelsInside`, `CropOfCorrectSource` and `SideTablesFit` | `PixelsInside` fails: the size of a plane is cut to a `__u32` in the request (the run has such a source) |
| A device is not released while another call uses it (`DeviceInUse`) | guard of `ReleaseDevice` | `IoctlReachesItsDevice` fails: the descriptor is closed between its reading and the ioctl, and may be another device's by then |
| Offsets of overlays do not wrap when the width is added (part of `SidesFit32`) | `OverlayLists <- MCOverlayLists`; the other set is `WrappingOverlayLists` | `RegionsInImage` fails |
| Threads can be created | `ThreadCreateMayFail = FALSE` in `RuntimeLiveness` | `CommandCompletes` fails: a queue without a worker accepts commands |

### 3.3 Fairness

Weak fairness per thread, on what a thread does inside a call or, for a worker,
in its loop: the scheduler runs threads, and ioctls return. Strong fairness on
taking the mutex in `XrpRequestList`, because a worker that is woken for no
reason takes and drops it again and again: a pthread mutex is not required to
be fair to a particular thread, but none of the implementations starves one
for ever. There is no fairness for calls of the application, for
spurious wake-ups, and, in `XrpWaitAny`, for the completion of an event: the
properties that need one are stated from the moment it happened.

## 4. The proofs

Theorems hold for every value of the constants that satisfies the named
assumptions (finite, disjoint sets of names; sizes that are numbers), so for any
number of clients, queues, commands, producers and requests.

**XrpRuntimeProofs.** `RefExact` and `NoUseAfterFree` are not inductive: that a count
is 1 says nothing about who else destroys the object. `IInv` adds that the live
objects are those with a positive count, that a thread inside a call still owns
what it was given, that a request is in exactly one place, that at most one
thread destroys an object and is where the object's memory says (`Destruction`),
what a worker relies on instead of a reference (`Workers`: it has not ended, so
its queue is not past its destructor, or `localExit` keeps it off the queue), and
how far a shutdown has come (`Shutdown`). One lemma per action shows that `IInv`
is kept; the lemmas on counting are `AddHolder`, `RemoveHolder`, `SameHolders`.
From it: `TypeCorrect`, `Invariance`, `RefCountsExact`, `MemorySafe`,
`NobodyStranded`, and `NoWakeupLost`, which needs of `IInv` that who waits for an event
owns it: every step that ends the reason of somebody's sleep wakes all who sleep for it.

**XrpRuntimeRefines.** `ImplementsRefCounted` is the refinement of `RefCounted`.
The specification of an object says two things, and each has a lemma: an object is
live exactly while it has a holder (`InvHeldIsLive`, from the exact counts), and
its memory passes through its stages in order (`MemMoves`, one lemma each for
calls, destructors and workers: who drops a reference finds the object live, who
runs a destructor finds it where `Destruction` says). `ImplementsEvents` is the
safety half of `IsFairEvents`, with one more invariant: an event has a status
from the moment it exists (`StatusSet`), so not pending means completed.

**XrpRequestListProofs.** `IInv` adds to `ListExact` who holds the mutex, that a block
is free, in the list or with one thread (`Owned`), and the stages of a
destruction (`Ending`). From it: `ListInvariance`, `ListStaysExact`,
`DestroyIsQuiet`, and `ImplementsChannel`: every step maps to a step of
`XrpChannel` or to a stutter.

**XrpWaitAnyProofs.** All theorems assume `DistinctArrays`. `ListExact` says that
pointers agree with each other, which does not keep a ring of links apart from the
list: a link in one would be left by a broadcaster that never reaches it. `IInv`
therefore adds `Reached`: every set of an event's links that is closed under `prev`
contains the head. It says "reachable" without a recursive definition and needs no
history variable; each pointer assignment keeps it because a closed set of the new
list gives a closed set of the old one. The other parts say which links a waiter has
put in which lists at each point of its call (`WaiterOK`), that links it has not
linked yet are in none (`FreshOK`), and that a broadcaster's current link is one of
its event (`WalkerOK`). `WakeupOK` is `NoLostWakeup` at every point of a call: a
link whose event has completed, of a waiter who was not signalled, is in the part
of the list the broadcaster has still to walk (`ToCome`). From it:
`WaitAnyInvariance`, `ListsStayExact`, `LinksOutliveTheirUse`, `NoWakeupLost`, `ReturnsAnEvent` (an action property:
the event whose index is returned has completed) and `ImplementsEvents`, the safety
half of `IsFairEvents`.

**XrpBuffersProofs.** `RefExact` alone says nothing of a thread between two steps.
`IInv` adds that what is referred to lives (`LifeOK`), that storage is there
exactly while a device buffer lives, its destructor's last steps and the driver's
answer apart (`StorageOK`), what a thread works on at each point (`BufferOK`,
`GroupOK`, `RequestOK`, `SnapOK`: a client still owns it, a worker holds it through
its request, a destructor has it alone), that two threads never destroy the same
object or handle the same request (`Exclusive`), what was checked before a window was
mapped (`MappingOK`), and the rule on replacing (`NotReplaced`). Counting works on
sets of holders; the one case where the set changes although nothing is retained or
released, the slots of a dying group moving up, is a bijection (`ShiftedSlots`).
The four destructor steps are proved once for clients and workers. From it:
`BuffersInvariance`, `CountsAreExact`, `NothingUsedAfterFree`,
`CommandsKeepTheirStorage` (with `~ReplaceInFlight`) and `MappingsAreInside` (for
device buffers below 2^32 bytes; offsets and sizes of windows are any `size_t`).

**XrpBuffersRefines.** `ImplementsRefCounted`, along the lines of the same theorem of
`XrpRuntimeRefines`: an object lives exactly while it is held (`AliveIfHeld`), and each
action takes its memory one stage further (`Moved`).

**DspDeviceProofs.** `IoctlReachesItsDevice` compares a descriptor read earlier with
the table now; what keeps it true is what other calls cannot do meanwhile.
`IInv` says what a call works with (`CallsOK`: a device that is being made or
released is its call's alone, any other one is still held by callers, and so for
buffers), that descriptors and open devices name each other (`FilesExact`), that
blocks and buffers have a holder (`HeapExact`, `MemoryExact`), and, if callers
release buffers first, that a header remembers a device that is held
(`HeadersOK`). One lemma for each part shows that every step keeps it; what the
calls at some places work with changes only when the moving thread enters or
leaves one (`Elsewhere`, `Stays`, `Enters`, `Leaves`). From it:
`DeviceInvariance` and `NothingIsLost`, for callers in any order, and, from
`BuffersFirst`, `NothingUsedAfterRelease` and `IoctlsReachTheirDevice`.
`BuffersHoldTheirSize` is `BufferHoldsItsSize` for sizes that fit in 32 bits with
the header, with one more invariant (`SizesOK`): what a call is about to ask the
driver for, and what a header says, is such a size.

**DspOpsProofs.** The library keeps nothing between calls, so the invariant is short:
a command is there only during the call that sent it and is the request that the
call's accepted arguments make (`SentOK`, `SentInvariant`). The rest is about what such
a request is, for lists of any length and for images of any size up to the
bounds that a theorem names.

- *The checks are enough.* A full-resolution plane that passes `verify_plane` holds every
  byte of every pixel (`FullPlaneHoldsPixels`), so does a subsampled one of an image
  with even sides (`ChromaPlaneHoldsPixels`), and a region that passes
  `verify_privacy_mask_params` lies in the bitmask (`MaskRegionInBitmask`), for any width
  that 32 bits hold and fewer than 2^26 lines, a bound that is sharp up to a few lines (3.2).
- *Rounding.* Representable numbers are the multiples of `Spacing`, a power of two
  (`SpacingLeast`), so rounding changes nothing up to `exact` (`RoundedSmall`) and never
  takes a number past a multiple of it (`RoundedWithin`). Below 2^26 the spacing
  divides 4, the lines of a block, so blocks are counted right (`FloatLines`). For any
  32-bit width it divides 256, the pixels of 8 bytes of a bitmask's line, and lines
  are padded to 8 bytes (`FloatColumns`): that is why a width needs no bound.
- *The layout of the buffer list.* `SentShaped` says which images a command holds, with
  which access, and where the buffers of a mesh and of a bitmask come; `Layout` that the
  indices which `convert_image` counts out name the buffers that were added, each once;
  `OutputsThere` that the outputs which are not NULL are all taken, once, in order.
- *The properties.* `TypeCorrect`, `PlanesHaveBuffers`, `OnlyOutputsAreWritten`,
  `PixelsStayInside`, `CropStaysInside`, `RegionsStayInImage` (from `SidesFit32`: the sides
  of images fit in 32 bits and no sum of an offset and a side wraps) and
  `TablesHoldWhatTheyDescribe` (from `TablesFit32`: bitmasks and meshes are smaller than
  4 GiB; the source of a masked call has fewer than 2^26 lines). `PixelsInside`,
  `CropOfCorrectSource` and `SideTablesFit` speak of images that are `Representable`: sizes fit the 32-bit fields, and the products of the code do not
  wrap and stay where a `double` is exact.

The list of buffers is a concatenation over all images (`FlattenSeq`, a recursive
function), so its layout needs induction on the number of images. The library's
induction theorems take a predicate, which the provers cannot instantiate, but the
existence of minimal elements (`WFMin`) takes a set: `Least` and `InductiveSet` say
that a set of numbers has a least element, and contains all numbers if it contains 0
and the successor of each of its members. The lemmas on `Joined` (the first k
sequences, one after the other) are inductions with it: where each element is
(`JoinedAt`), that there is no other (`JoinedCovers`), and that none is in two
places (`JoinedOnce`).

`InputAssumption` says that what callers pass are values of the types of the C
interface (a `size_t` where the header has one, arrays as long as they say), and
`NullAssumption` that a description in a command is not a null pointer. `WordAssumption`
and `FloatingAssumption` say of the widths what the proofs need: `SizeMod` is a power of
two, a `double` holds every 32-bit number, and a `float` falls short of them by at most
8 bits.

**Only model-checked.** Liveness under fairness, which needs `ENABLED` and which the
prover does not handle: `CommandCompletes`, `CallsReturn`, `EverythingFreed`,
`DestroyReturns`, and the fairness in `IsFairEvents` and `IsLiveChannel`, of which
the safety halves are proved. Every other property of a passing run is a theorem.
No module declares a `RECURSIVE` operator.

## 5. Not modelled

- The driver and the firmware. The models assume of an ioctl what the code does:
  it succeeds or fails, an allocation has the size asked for, a command uses the
  addresses it was given.
- `xrp_sync_queue.c` (an alternative queue) and `device_mgmt.cpp` (it refers to
  types that no longer exist): neither is built.
- The getters `xrp_buffer_get_info` and `xrp_buffer_group_get_info`: they copy a
  field that no other call changes, or one under the group's mutex. `map_count`
  and `map_flags`, which nothing reads.
- `in_data`, which is copied, and `out_data`, a pointer of the caller that must
  stay valid until the command completes: what the caller does with it is not
  the library's state.
- `calloc` failing in `xrp_wait_any`, whose result is not checked, and the leak of
  a descriptor in `xrp_open_device` when the allocation of the device fails.
- The union of `userptr` and `fd` in a plane.
- Logging, performance records, and the contents of images.

## 6. The plan

In order of importance; all of it is done.

1. `XrpRuntime` with its invariant and proofs: lifetimes are the core of the runtime.
2. `XrpChannel`, `XrpRequestList`: the queue under it, by refinement.
3. `XrpWaitAny`: the most intricate data structure.
4. `DspImage`, `DspOps`: all imaging operations.
5. `DspDevice`: devices and buffers of the imaging library.
6. `XrpBuffers`: buffers and groups carried by commands.
7. `RefCounted`, implemented by `XrpRuntime` and `XrpBuffers`, and `XrpEvents`,
   implemented by `XrpRuntime` and `XrpWaitAny`; the proofs for `XrpRuntime`.
8. Proofs for `DspDevice`: `NoUseAfterRelease`, `IoctlReachesItsDevice`, `NothingLeaks`.
9. Proofs for `XrpBuffers` (`RefExact`, `NoUseAfterFree`, `CommandStorageLive`,
   `MappingsStayValid`), and that it implements `RefCounted`.
10. Proofs for `XrpWaitAny` (`ListExact`, `NoDanglingLink`, `NoLostWakeup`), and
    that it implements the safety half of `XrpEvents`.
11. All properties of commands as theorems of `DspOps`.
12. `BufferHoldsItsSize`, for sizes that fit in 32 bits with the header.
