-------------------------- MODULE DspDeviceProofs --------------------------
(***************************************************************************)
(* Proofs about DspDevice, for any number of threads, devices, descriptors *)
(* and buffers.                                                            *)
(***************************************************************************)
EXTENDS DspDevice, TLAPS

-----------------------------------------------------------------------------
(* Calls and their arguments.                                              *)

LEMMA ModRange ==
  ASSUME NEW K \in Nat \ {0}, NEW n \in Nat
  PROVE  n % K \in 0..(K - 1)
  OBVIOUS

LEMMA SmallMod ==
  ASSUME NEW K \in Nat \ {0}, NEW n \in Nat, n < K
  PROVE  n % K = n
  OBVIOUS

LEMMA NoArgTyped == NoArg \in Args
  BY SizeAssumption DEF NoArg, Args

LEMMA ArgsFields ==
  ASSUME NEW a \in Args
  PROVE  /\ a.device \in Handles \cup {NULL} /\ a.buffer \in Buffers \cup {NULL}
         /\ a.fd \in Fds \cup {NULL} /\ a.size \in 0..(SizeMod - 1)
         /\ a.size \in Nat
  BY SizeAssumption DEF Args

LEMMA ArgsUpdated ==
  ASSUME NEW a \in Args, NEW n \in 0..(SizeMod - 1)
  PROVE  /\ \A h \in Handles : [a EXCEPT !.device = h] \in Args
         /\ \A h \in Handles : [a EXCEPT !.device = h, !.size = n] \in Args
         /\ \A h \in Handles, b \in Buffers : [a EXCEPT !.device = h, !.buffer = b] \in Args
         /\ \A b \in Buffers : [a EXCEPT !.buffer = b] \in Args
         /\ \A f \in Fds : [a EXCEPT !.fd = f, !.size = n] \in Args
         /\ \A h \in Handles, f \in Fds : [a EXCEPT !.device = h, !.fd = f, !.size = n] \in Args
  BY DEF Args

LEMMA FieldsUpdated ==
  ASSUME NEW a \in Args, NEW h, NEW b, NEW f, NEW n
  PROVE  /\ [a EXCEPT !.device = h].device = h
         /\ [a EXCEPT !.device = h, !.size = n].device = h
         /\ [a EXCEPT !.device = h, !.buffer = b].device = h
         /\ [a EXCEPT !.device = h, !.buffer = b].buffer = b
         /\ [a EXCEPT !.buffer = b].device = a.device
         /\ [a EXCEPT !.buffer = b].buffer = b
         /\ [a EXCEPT !.fd = f, !.size = n].device = a.device
         /\ [a EXCEPT !.fd = f, !.size = n].buffer = a.buffer
         /\ [a EXCEPT !.fd = f, !.size = n].fd = f
         /\ [a EXCEPT !.device = h, !.fd = f, !.size = n].device = h
         /\ [a EXCEPT !.device = h, !.fd = f, !.size = n].buffer = a.buffer
         /\ [a EXCEPT !.device = h, !.fd = f, !.size = n].fd = f
  BY DEF Args

LEMMA ArgsMade ==
  ASSUME NEW h \in Handles
  PROVE  /\ [NoArg EXCEPT !.device = h] \in Args
         /\ \A n \in Sizes : [NoArg EXCEPT !.device = h, !.size = n] \in Args
         /\ \A b \in Buffers : [NoArg EXCEPT !.device = h, !.buffer = b] \in Args
<1>1. 0 \in 0..(SizeMod - 1) /\ \A n \in Sizes : n \in 0..(SizeMod - 1)
  BY SizeAssumption
<1> QED
  BY <1>1, NoArgTyped, ArgsUpdated

LEMMA CallMoves ==
  ASSUME TypeOK, NEW t \in Threads, NEW w, NEW a, Call(t, w, a)
  PROVE  /\ pc'[t] = w /\ arg'[t] = a
         /\ \A u \in Threads \ {t} : pc'[u] = pc[u] /\ arg'[u] = arg[u]
  BY DEF TypeOK, Call

LEMMA CallTyped ==
  ASSUME TypeOK, NEW t \in Threads, NEW a \in Args,
         NEW w \in {"idle", "open", "close", "delete", "create", "send", "release",
                    "sync", "alloc", "header", "free", "dma_sync", "queue"},
         Call(t, w, a)
  PROVE  pc' \in [Threads -> Places] /\ arg' \in [Threads -> Args]
<1>1. w \in Places
  BY DEF Places
<1> QED
  BY <1>1 DEF TypeOK, Call

LEMMA ReturnTyped ==
  ASSUME TypeOK, NEW t \in Threads, Return(t)
  PROVE  pc' \in [Threads -> Places] /\ arg' \in [Threads -> Args]
  BY CallTyped, NoArgTyped DEF Return

-----------------------------------------------------------------------------
(* Every variable has its type: a call computes no size that a size_t      *)
(* cannot hold and uses no descriptor that is none.                        *)

LEMMA InitTyped == Init => TypeOK
  BY SizeAssumption, NoArgTyped DEF Init, TypeOK, Places

Step(t) ==
  \/ CreateDevice(t) \/ Opened(t) \/ OpenFailed(t)
  \/ ReleaseDevice(t) \/ Close(t) \/ Delete(t)
  \/ CallCreateBuffer(t) \/ CallSendCommand(t) \/ CallReleaseBuffer(t) \/ CallSync(t)
  \/ ReadDevice(t) \/ ReadHeader(t)
  \/ Allocated(t) \/ WriteHeader(t) \/ Freed(t) \/ FreeFailed(t) \/ Answered(t)

\* A call that begins changes only where its thread is, and what it holds.
LEMMA BeginTyped ==
  ASSUME TypeOK, NEW t \in Threads,
         \/ CallCreateBuffer(t) \/ CallSendCommand(t) \/ CallReleaseBuffer(t) \/ CallSync(t)
  PROVE  TypeOK'
<1>1. CASE CallCreateBuffer(t)
  <2>1. PICK h \in devices, s \in Sizes :
          Call(t, "create", [NoArg EXCEPT !.device = h, !.size = s])
    BY <1>1 DEF CallCreateBuffer
  <2>2. [NoArg EXCEPT !.device = h, !.size = s] \in Args
    BY ArgsMade DEF TypeOK
  <2>3. pc' \in [Threads -> Places] /\ arg' \in [Threads -> Args]
    BY <2>1, <2>2, CallTyped
  <2> QED
    BY <1>1, <2>3 DEF CallCreateBuffer, TypeOK
<1>2. CASE CallSendCommand(t)
  <2>1. PICK h \in devices : Call(t, "send", [NoArg EXCEPT !.device = h])
    BY <1>2 DEF CallSendCommand
  <2>2. [NoArg EXCEPT !.device = h] \in Args
    BY ArgsMade DEF TypeOK
  <2>3. pc' \in [Threads -> Places] /\ arg' \in [Threads -> Args]
    BY <2>1, <2>2, CallTyped
  <2> QED
    BY <1>2, <2>3 DEF CallSendCommand, TypeOK
<1>3. CASE CallReleaseBuffer(t)
  <2>1. PICK h \in devices, b \in buffers :
          /\ buffers' = buffers \ {b}
          /\ Call(t, "release", [NoArg EXCEPT !.device = h, !.buffer = b])
    BY <1>3 DEF CallReleaseBuffer
  <2>2. [NoArg EXCEPT !.device = h, !.buffer = b] \in Args
    BY ArgsMade DEF TypeOK
  <2>3. pc' \in [Threads -> Places] /\ arg' \in [Threads -> Args]
    BY <2>1, <2>2, CallTyped
  <2> QED
    BY <1>3, <2>1, <2>3 DEF CallReleaseBuffer, TypeOK
<1>4. CASE CallSync(t)
  <2>1. PICK b \in buffers : Call(t, "sync", [NoArg EXCEPT !.buffer = b])
    BY <1>4 DEF CallSync
  <2>2. [NoArg EXCEPT !.buffer = b] \in Args
    <3>1. 0 \in 0..(SizeMod - 1)
      BY SizeAssumption
    <3> QED
      BY <3>1, NoArgTyped, ArgsUpdated DEF TypeOK
  <2>3. pc' \in [Threads -> Places] /\ arg' \in [Threads -> Args]
    BY <2>1, <2>2, CallTyped
  <2> QED
    BY <1>4, <2>3 DEF CallSync, TypeOK
<1> QED
  BY <1>1, <1>2, <1>3, <1>4

\* What was read of a device has a type because the device is a caller's.
LEMMA ReadTyped ==
  ASSUME IInv, NEW t \in Threads, ReadDevice(t) \/ ReadHeader(t)
  PROVE  TypeOK'
<1>t. TypeOK /\ CallOK(t)
  BY DEF IInv, CallsOK
<1>a. arg[t] \in Args
  BY <1>t DEF TypeOK
<1>1. CASE ReadDevice(t)
  <2>1. arg[t].device \in Handles
    BY <1>1, <1>t DEF ReadDevice, CallOK, OnDevice, TypeOK
  <2>2. fdOf[arg[t].device] \in Fds
    BY <2>1, <1>t DEF TypeOK
  <2>3. (HeaderSize + arg[t].size) % SizeMod \in 0..(SizeMod - 1)
    <3>1. HeaderSize + arg[t].size \in Nat
      BY <1>a, ArgsFields, SizeAssumption
    <3> QED
      BY <3>1, SizeAssumption, ModRange
  <2>4. pc[t] = "release" => header[arg[t].buffer].size \in 0..(SizeMod - 1)
    <3>1. pc[t] = "release" => arg[t].buffer \in Buffers
      BY <1>t DEF CallOK, OwnsBuffer
    <3>2. \A b \in Buffers : header[b] \in [device : Handles \cup {NULL}, size : 0..(SizeMod - 1)]
      BY <1>t DEF TypeOK
    <3> QED
      BY <3>1, <3>2
  <2>5. ASSUME NEW w \in {"alloc", "queue", "free"}, NEW n \in 0..(SizeMod - 1),
               Call(t, w, [arg[t] EXCEPT !.fd = fdOf[arg[t].device], !.size = n])
        PROVE  TypeOK'
    <3>1. [arg[t] EXCEPT !.fd = fdOf[arg[t].device], !.size = n] \in Args
      BY <1>a, <2>2, ArgsUpdated
    <3>2. pc' \in [Threads -> Places] /\ arg' \in [Threads -> Args]
      BY <1>t, <2>5, <3>1, CallTyped
    <3> QED
      BY <1>t, <1>1, <3>2 DEF ReadDevice, TypeOK
  <2>6. CASE pc[t] = "create"
    <3>1. Call(t, "alloc", [arg[t] EXCEPT !.fd = fdOf[arg[t].device],
                                           !.size = (HeaderSize + arg[t].size) % SizeMod])
      BY <1>1, <2>6 DEF ReadDevice
    <3> QED
      BY <2>3, <2>5, <3>1
  <2>7. CASE pc[t] = "send"
    <3>1. Call(t, "queue", [arg[t] EXCEPT !.fd = fdOf[arg[t].device], !.size = arg[t].size])
      BY <1>1, <2>7 DEF ReadDevice
    <3> QED
      BY <1>a, ArgsFields, <2>5, <3>1
  <2>8. CASE pc[t] = "release"
    <3>1. Call(t, "free", [arg[t] EXCEPT !.fd = fdOf[arg[t].device],
                                          !.size = header[arg[t].buffer].size])
      BY <1>1, <2>8 DEF ReadDevice
    <3> QED
      BY <2>4, <2>5, <2>8, <3>1
  <2> QED
    BY <1>1, <2>6, <2>7, <2>8 DEF ReadDevice
<1>2. CASE ReadHeader(t)
  <2> DEFINE h == header[arg[t].buffer]
  <2>1. arg[t].buffer \in buffers
    BY <1>2, <1>t DEF ReadHeader, CallOK
  <2>2. h.device \in Handles /\ h.size \in 0..(SizeMod - 1)
    BY <2>1, <1>t DEF IInv, HeadersOK, TypeOK
  <2>3. fdOf[h.device] \in Fds
    BY <2>2, <1>t DEF TypeOK
  <2>4. [arg[t] EXCEPT !.device = h.device, !.fd = fdOf[h.device], !.size = h.size] \in Args
    BY <1>a, <2>2, <2>3, ArgsUpdated
  <2>5. Call(t, "dma_sync",
             [arg[t] EXCEPT !.device = h.device, !.fd = fdOf[h.device], !.size = h.size])
    BY <1>2 DEF ReadHeader
  <2>6. pc' \in [Threads -> Places] /\ arg' \in [Threads -> Args]
    BY <1>t, <2>4, <2>5, CallTyped
  <2> QED
    BY <1>t, <1>2, <2>6 DEF ReadHeader, TypeOK
<1> QED
  BY <1>1, <1>2

LEMMA StepTyped ==
  ASSUME IInv, NEW t \in Threads, Step(t)
  PROVE  TypeOK'
<1>t. TypeOK /\ CallOK(t)
  BY DEF IInv, CallsOK
<1>a. arg[t] \in Args
  BY <1>t DEF TypeOK
<1>1. CASE CreateDevice(t)
  <2>1. PICK h \in Handles : heap' = heap \cup {h} /\ Call(t, "open", [NoArg EXCEPT !.device = h])
    BY <1>1 DEF CreateDevice
  <2>2. pc' \in [Threads -> Places] /\ arg' \in [Threads -> Args]
    BY <1>t, <2>1, ArgsMade, CallTyped
  <2> QED
    BY <1>t, <1>1, <2>1, <2>2 DEF CreateDevice, TypeOK
<1>2. CASE Opened(t)
  <2>1. arg[t].device \in Handles
    BY <1>2, <1>t DEF Opened, CallOK, Making, TypeOK
  <2> QED
    BY <1>t, <1>2, <2>1, ReturnTyped DEF Opened, TypeOK
<1>3. CASE OpenFailed(t)
  BY <1>t, <1>3, ReturnTyped DEF OpenFailed, TypeOK
<1>4. CASE ReleaseDevice(t)
  <2>1. PICK h \in devices :
          devices' = devices \ {h} /\ Call(t, "close", [NoArg EXCEPT !.device = h])
    BY <1>4 DEF ReleaseDevice
  <2>2. [NoArg EXCEPT !.device = h] \in Args
    BY <1>t, ArgsMade DEF TypeOK
  <2>3. pc' \in [Threads -> Places] /\ arg' \in [Threads -> Args]
    BY <1>t, <2>1, <2>2, CallTyped
  <2> QED
    BY <1>t, <1>4, <2>1, <2>3 DEF ReleaseDevice, TypeOK
<1>5. CASE Close(t)
  <2>1. "delete" \in Places
    BY DEF Places
  <2> QED
    BY <1>t, <1>5, <2>1 DEF Close, TypeOK
<1>6. CASE Delete(t)
  BY <1>t, <1>6, ReturnTyped DEF Delete, TypeOK
<1>7. CASE CallCreateBuffer(t) \/ CallSendCommand(t) \/ CallReleaseBuffer(t) \/ CallSync(t)
  BY <1>t, <1>7, BeginTyped
<1>8. CASE ReadDevice(t) \/ ReadHeader(t)
  BY <1>8, ReadTyped
<1>9. CASE Allocated(t)
  <2>1. arg[t].size % U32Mod \in 0..(U32Mod - 1)
    BY <1>a, ArgsFields, SizeAssumption, ModRange
  <2>2. PICK b \in Buffers :
          /\ memory' = [memory EXCEPT ![b] = arg[t].size % U32Mod]
          /\ Call(t, "header", [arg[t] EXCEPT !.buffer = b])
    BY <1>9 DEF Allocated
  <2>3. [arg[t] EXCEPT !.buffer = b] \in Args
    BY <1>a, ArgsFields, ArgsUpdated
  <2>4. pc' \in [Threads -> Places] /\ arg' \in [Threads -> Args]
    BY <1>t, <2>2, <2>3, CallTyped
  <2> QED
    BY <1>t, <1>9, <2>1, <2>2, <2>4 DEF Allocated, TypeOK
<1>10. CASE WriteHeader(t)
  <2>1. arg[t].buffer \in Buffers
    BY <1>t, <1>10 DEF WriteHeader, CallOK, OwnsBuffer
  <2>2. [device |-> arg[t].device, size |-> arg[t].size]
          \in [device : Handles \cup {NULL}, size : 0..(SizeMod - 1)]
    BY <1>a, ArgsFields
  <2> QED
    BY <1>t, <1>10, <2>1, <2>2, ReturnTyped DEF WriteHeader, TypeOK
<1>11. CASE Freed(t)
  BY <1>t, <1>11, ReturnTyped DEF Freed, TypeOK
<1>12. CASE FreeFailed(t)
  <2>1. arg[t].buffer \in Buffers
    BY <1>t, <1>12 DEF FreeFailed, CallOK, OwnsBuffer
  <2> QED
    BY <1>t, <1>12, <2>1, ReturnTyped DEF FreeFailed, TypeOK
<1>13. CASE Answered(t)
  BY <1>t, <1>13, ReturnTyped DEF Answered, TypeOK
<1> QED
  BY <1>1, <1>2, <1>3, <1>4, <1>5, <1>6, <1>7, <1>8, <1>9, <1>10, <1>11, <1>12,
     <1>13 DEF Step

-----------------------------------------------------------------------------
(* What the steps of one call do to the thread that makes it.              *)

Others(t) == \A u \in Threads \ {t} : pc'[u] = pc[u] /\ arg'[u] = arg[u]

LEMMA Returns ==
  ASSUME TypeOK, NEW t \in Threads, Return(t)
  PROVE  Others(t) /\ pc'[t] = "idle"
  BY CallMoves DEF Return, Others

LEMMA Begins ==
  ASSUME TypeOK, NEW t \in Threads
  PROVE  /\ CreateDevice(t) => \E h \in Handles \ heap :
              /\ Others(t) /\ pc'[t] = "open" /\ arg'[t].device = h
              /\ heap' = heap \cup {h}
         /\ ReleaseDevice(t) => \E h \in devices :
              /\ Others(t) /\ pc'[t] = "close" /\ arg'[t].device = h
              /\ devices' = devices \ {h} /\ ~DeviceInUse(h)
              /\ BuffersFirst => \A b \in buffers \cup BufferAt({"release", "free"}) :
                                   header[b].device # h
         /\ CallCreateBuffer(t) =>
              Others(t) /\ pc'[t] = "create" /\ arg'[t].device \in devices
         /\ CallSendCommand(t) =>
              Others(t) /\ pc'[t] = "send" /\ arg'[t].device \in devices
         /\ CallReleaseBuffer(t) => \E b \in buffers :
              /\ Others(t) /\ pc'[t] = "release"
              /\ arg'[t].device \in devices /\ arg'[t].buffer = b
              /\ buffers' = buffers \ {b} /\ ~BufferInUse(b)
         /\ CallSync(t) =>
              Others(t) /\ pc'[t] = "sync" /\ arg'[t].buffer \in buffers
<1>n. NoArg \in Args
  BY NoArgTyped
<1>1. ASSUME CreateDevice(t)
      PROVE  \E h \in Handles \ heap :
               /\ Others(t) /\ pc'[t] = "open" /\ arg'[t].device = h
               /\ heap' = heap \cup {h}
  <2>1. PICK h \in Handles \ heap :
          heap' = heap \cup {h} /\ Call(t, "open", [NoArg EXCEPT !.device = h])
    BY <1>1 DEF CreateDevice
  <2> DEFINE r == [NoArg EXCEPT !.device = h]
  <2>2. r.device = h
    BY <1>n, FieldsUpdated
  <2>3. Others(t) /\ pc'[t] = "open" /\ arg'[t] = r
    BY <2>1, CallMoves DEF Others
  <2> HIDE DEF r
  <2> QED
    BY <2>1, <2>2, <2>3
<1>2. ASSUME ReleaseDevice(t)
      PROVE  \E h \in devices :
               /\ Others(t) /\ pc'[t] = "close" /\ arg'[t].device = h
               /\ devices' = devices \ {h} /\ ~DeviceInUse(h)
               /\ BuffersFirst => \A b \in buffers \cup BufferAt({"release", "free"}) :
                                    header[b].device # h
  <2>1. PICK h \in devices :
          /\ devices' = devices \ {h} /\ ~DeviceInUse(h)
          /\ BuffersFirst => \A b \in buffers \cup BufferAt({"release", "free"}) :
                               header[b].device # h
          /\ Call(t, "close", [NoArg EXCEPT !.device = h])
    BY <1>2 DEF ReleaseDevice
  <2> DEFINE r == [NoArg EXCEPT !.device = h]
  <2>2. r.device = h
    BY <1>n, FieldsUpdated
  <2>3. Others(t) /\ pc'[t] = "close" /\ arg'[t] = r
    BY <2>1, CallMoves DEF Others
  <2> HIDE DEF r
  <2> QED
    BY <2>1, <2>2, <2>3
<1>3. ASSUME CallCreateBuffer(t)
      PROVE  Others(t) /\ pc'[t] = "create" /\ arg'[t].device \in devices
  <2>1. PICK h \in devices, s \in Sizes :
          Call(t, "create", [NoArg EXCEPT !.device = h, !.size = s])
    BY <1>3 DEF CallCreateBuffer
  <2> DEFINE r == [NoArg EXCEPT !.device = h, !.size = s]
  <2>2. r.device = h
    BY <1>n, FieldsUpdated
  <2>3. Others(t) /\ pc'[t] = "create" /\ arg'[t] = r
    BY <2>1, CallMoves DEF Others
  <2> HIDE DEF r
  <2> QED
    BY <2>1, <2>2, <2>3
<1>4. ASSUME CallSendCommand(t)
      PROVE  Others(t) /\ pc'[t] = "send" /\ arg'[t].device \in devices
  <2>1. PICK h \in devices : Call(t, "send", [NoArg EXCEPT !.device = h])
    BY <1>4 DEF CallSendCommand
  <2> DEFINE r == [NoArg EXCEPT !.device = h]
  <2>2. r.device = h
    BY <1>n, FieldsUpdated
  <2>3. Others(t) /\ pc'[t] = "send" /\ arg'[t] = r
    BY <2>1, CallMoves DEF Others
  <2> HIDE DEF r
  <2> QED
    BY <2>1, <2>2, <2>3
<1>5. ASSUME CallReleaseBuffer(t)
      PROVE  \E b \in buffers :
               /\ Others(t) /\ pc'[t] = "release"
               /\ arg'[t].device \in devices /\ arg'[t].buffer = b
               /\ buffers' = buffers \ {b} /\ ~BufferInUse(b)
  <2>1. PICK h \in devices, b \in buffers :
          /\ ~BufferInUse(b) /\ buffers' = buffers \ {b}
          /\ Call(t, "release", [NoArg EXCEPT !.device = h, !.buffer = b])
    BY <1>5 DEF CallReleaseBuffer
  <2> DEFINE r == [NoArg EXCEPT !.device = h, !.buffer = b]
  <2>2. r.device = h /\ r.buffer = b
    BY <1>n, FieldsUpdated
  <2>3. Others(t) /\ pc'[t] = "release" /\ arg'[t] = r
    BY <2>1, CallMoves DEF Others
  <2> HIDE DEF r
  <2> QED
    BY <2>1, <2>2, <2>3
<1>6. ASSUME CallSync(t)
      PROVE  Others(t) /\ pc'[t] = "sync" /\ arg'[t].buffer \in buffers
  <2>1. PICK b \in buffers : Call(t, "sync", [NoArg EXCEPT !.buffer = b])
    BY <1>6 DEF CallSync
  <2> DEFINE r == [NoArg EXCEPT !.buffer = b]
  <2>2. r.buffer = b
    BY <1>n, FieldsUpdated
  <2>3. Others(t) /\ pc'[t] = "sync" /\ arg'[t] = r
    BY <2>1, CallMoves DEF Others
  <2> HIDE DEF r
  <2> QED
    BY <2>1, <2>2, <2>3
<1> QED
  BY <1>1, <1>2, <1>3, <1>4, <1>5, <1>6

LEMMA Continues ==
  ASSUME TypeOK, NEW t \in Threads
  PROVE  /\ Close(t) => Others(t) /\ pc'[t] = "delete" /\ arg'[t] = arg[t]
         /\ ReadDevice(t) =>
              /\ Others(t)
              /\ pc'[t] = [create |-> "alloc", send |-> "queue", release |-> "free"][pc[t]]
              /\ arg'[t].device = arg[t].device /\ arg'[t].buffer = arg[t].buffer
              /\ arg'[t].fd = fdOf[arg[t].device]
         /\ ReadHeader(t) =>
              /\ Others(t) /\ pc'[t] = "dma_sync"
              /\ arg'[t].device = header[arg[t].buffer].device
              /\ arg'[t].buffer = arg[t].buffer
              /\ arg'[t].fd = fdOf[header[arg[t].buffer].device]
         /\ Allocated(t) => \E b \in Buffers :
              /\ Others(t) /\ pc'[t] = "header"
              /\ arg'[t].device = arg[t].device /\ arg'[t].buffer = b
              /\ memory[b] = NULL
              /\ memory' = [memory EXCEPT ![b] = arg[t].size % U32Mod]
<1>n. arg[t] \in Args
  BY DEF TypeOK
<1>1. Close(t) => Others(t) /\ pc'[t] = "delete" /\ arg'[t] = arg[t]
  BY DEF Close, Others, TypeOK
<1>2. ASSUME ReadDevice(t)
      PROVE  /\ Others(t)
             /\ pc'[t] = [create |-> "alloc", send |-> "queue", release |-> "free"][pc[t]]
             /\ arg'[t].device = arg[t].device /\ arg'[t].buffer = arg[t].buffer
             /\ arg'[t].fd = fdOf[arg[t].device]
  <2> DEFINE n == CASE pc[t] = "create" -> (HeaderSize + arg[t].size) % SizeMod
                    [] pc[t] = "release" -> header[arg[t].buffer].size
                    [] OTHER -> arg[t].size
  <2>1. Call(t, [create |-> "alloc", send |-> "queue", release |-> "free"][pc[t]],
             [arg[t] EXCEPT !.fd = fdOf[arg[t].device], !.size = n])
    BY <1>2 DEF ReadDevice
  <2> HIDE DEF n
  <2> DEFINE r == [arg[t] EXCEPT !.fd = fdOf[arg[t].device], !.size = n]
  <2>2. r.device = arg[t].device /\ r.buffer = arg[t].buffer /\ r.fd = fdOf[arg[t].device]
    BY <1>n, FieldsUpdated
  <2>3. /\ Others(t) /\ arg'[t] = r
        /\ pc'[t] = [create |-> "alloc", send |-> "queue", release |-> "free"][pc[t]]
    BY <2>1, CallMoves DEF Others
  <2> HIDE DEF r
  <2> QED
    BY <2>1, <2>2, <2>3
<1>3. ASSUME ReadHeader(t)
      PROVE  /\ Others(t) /\ pc'[t] = "dma_sync"
             /\ arg'[t].device = header[arg[t].buffer].device
             /\ arg'[t].buffer = arg[t].buffer
             /\ arg'[t].fd = fdOf[header[arg[t].buffer].device]
  <2> DEFINE h == header[arg[t].buffer]
  <2>1. Call(t, "dma_sync",
             [arg[t] EXCEPT !.device = h.device, !.fd = fdOf[h.device], !.size = h.size])
    BY <1>3 DEF ReadHeader
  <2> DEFINE r == [arg[t] EXCEPT !.device = h.device, !.fd = fdOf[h.device], !.size = h.size]
  <2>2. r.device = h.device /\ r.buffer = arg[t].buffer /\ r.fd = fdOf[h.device]
    BY <1>n, FieldsUpdated
  <2>3. Others(t) /\ pc'[t] = "dma_sync" /\ arg'[t] = r
    BY <2>1, CallMoves DEF Others
  <2> HIDE DEF r
  <2> QED
    BY <2>1, <2>2, <2>3
<1>4. ASSUME Allocated(t)
      PROVE  \E b \in Buffers :
               /\ Others(t) /\ pc'[t] = "header"
               /\ arg'[t].device = arg[t].device /\ arg'[t].buffer = b
               /\ memory[b] = NULL
               /\ memory' = [memory EXCEPT ![b] = arg[t].size % U32Mod]
  <2>1. PICK b \in Buffers :
          /\ memory[b] = NULL
          /\ memory' = [memory EXCEPT ![b] = arg[t].size % U32Mod]
          /\ Call(t, "header", [arg[t] EXCEPT !.buffer = b])
    BY <1>4 DEF Allocated
  <2> DEFINE r == [arg[t] EXCEPT !.buffer = b]
  <2>2. r.device = arg[t].device /\ r.buffer = b
    BY <1>n, FieldsUpdated
  <2>3. Others(t) /\ pc'[t] = "header" /\ arg'[t] = r
    BY <2>1, CallMoves DEF Others
  <2> HIDE DEF r
  <2> QED
    BY <2>1, <2>2, <2>3
<1> QED
  BY <1>1, <1>2, <1>3, <1>4

-----------------------------------------------------------------------------
(* Calls keep what they work with.                                         *)

\* It is enough to look at the calls one by one, and at pairs with the one
\* that moved.
LEMMA CallsMoved ==
  ASSUME CallsOK, NEW t \in Threads, Others(t), CallOK(t)',
         \A u \in Threads \ {t} : CallOK(u)' /\ Exclusive(t, u)'
  PROVE  CallsOK'
  BY DEF CallsOK, Exclusive, Others

LEMMA CallsReturned ==
  ASSUME CallsOK, NEW t \in Threads, Others(t), pc'[t] = "idle",
         \A u \in Threads \ {t} : CallOK(u)'
  PROVE  CallsOK'
<1>1. CallOK(t)' /\ \A u \in Threads \ {t} : Exclusive(t, u)'
  BY DEF CallOK, Exclusive, Making, Leaving, OnDevice, OwnsBuffer
<1> QED
  BY <1>1, CallsMoved

LEMMA StepCalls ==
  ASSUME IInv, NEW t \in Threads, Step(t)
  PROVE  CallsOK'
<1>t. TypeOK /\ CallsOK /\ HeapExact /\ FilesExact /\ MemoryExact /\ HeadersOK
  BY DEF IInv
<1> USE DEF Making, Leaving, OnDevice, OwnsBuffer
<1>1. CASE CreateDevice(t)
  <2>1. PICK h \in Handles \ heap :
          /\ Others(t) /\ pc'[t] = "open" /\ arg'[t].device = h
          /\ heap' = heap \cup {h}
    BY <1>t, <1>1, Begins
  <2>2. UNCHANGED <<fdOf, file, memory, header, devices, buffers>> /\ pc[t] = "idle"
    BY <1>1 DEF CreateDevice
  <2>3. CallOK(t)'
    BY <1>t, <2>1, <2>2 DEF CallsOK, CallOK, HeadersOK, HeapExact, TypeOK
  <2>4. ASSUME NEW u \in Threads \ {t}
        PROVE  CallOK(u)' /\ Exclusive(t, u)'
    BY <1>t, <2>1, <2>2 DEF Others, CallsOK, CallOK, Exclusive, MemoryExact, BufferAt, At,
       DeviceInUse, BufferInUse, TypeOK
  <2> QED
    BY <1>t, <2>1, <2>3, <2>4, CallsMoved
<1>2. CASE Opened(t)
  <2>1. Others(t) /\ pc'[t] = "idle"
    BY <1>t, <1>2, Returns DEF Opened
  <2>2. ASSUME NEW u \in Threads \ {t}
        PROVE  CallOK(u)'
    BY <1>t, <1>2, <2>1 DEF Opened, Others, CallsOK, CallOK, Exclusive, HeadersOK,
       TypeOK
  <2> QED
    BY <1>t, <2>1, <2>2, CallsReturned
<1>3. CASE OpenFailed(t)
  <2>1. Others(t) /\ pc'[t] = "idle"
    BY <1>t, <1>3, Returns DEF OpenFailed
  <2>2. ASSUME NEW u \in Threads \ {t}
        PROVE  CallOK(u)'
    BY <1>t, <1>3, <2>1 DEF OpenFailed, Others, CallsOK, CallOK, Exclusive, TypeOK
  <2> QED
    BY <1>t, <2>1, <2>2, CallsReturned
<1>4. CASE ReleaseDevice(t)
  <2>1. PICK h \in devices :
          /\ Others(t) /\ pc'[t] = "close" /\ arg'[t].device = h
          /\ devices' = devices \ {h} /\ ~DeviceInUse(h)
          /\ BuffersFirst => \A b \in buffers \cup BufferAt({"release", "free"}) :
                               header[b].device # h
    BY <1>t, <1>4, Begins
  <2>2. UNCHANGED <<heap, fdOf, file, memory, header, buffers>>
    BY <1>4 DEF ReleaseDevice
  <2>3. CallOK(t)'
    BY <1>t, <2>1, <2>2 DEF CallsOK, CallOK, HeadersOK, HeapExact, TypeOK
  <2>4. ASSUME NEW u \in Threads \ {t}
        PROVE  CallOK(u)' /\ Exclusive(t, u)'
    BY <1>t, <2>1, <2>2 DEF Others, CallsOK, CallOK, Exclusive, MemoryExact, BufferAt, At,
       DeviceInUse, BufferInUse, TypeOK
  <2> QED
    BY <1>t, <2>1, <2>3, <2>4, CallsMoved
<1>5. CASE Close(t)
  <2>1. Others(t) /\ pc'[t] = "delete" /\ arg'[t] = arg[t]
    BY <1>t, <1>5, Continues
  <2>2. UNCHANGED <<heap, fdOf, memory, header, devices, buffers>> /\ pc[t] = "close"
    BY <1>5 DEF Close
  <2>3. CallOK(t)'
    BY <1>t, <2>1, <2>2 DEF CallsOK, CallOK, HeadersOK, HeapExact, TypeOK
  <2>4. ASSUME NEW u \in Threads \ {t}
        PROVE  CallOK(u)' /\ Exclusive(t, u)'
    BY <1>t, <2>1, <2>2 DEF Others, CallsOK, CallOK, Exclusive, MemoryExact, BufferAt, At,
       DeviceInUse, BufferInUse, TypeOK
  <2> QED
    BY <1>t, <2>1, <2>3, <2>4, CallsMoved
<1>6. CASE Delete(t)
  <2>1. Others(t) /\ pc'[t] = "idle"
    BY <1>t, <1>6, Returns DEF Delete
  <2>2. ASSUME NEW u \in Threads \ {t}
        PROVE  CallOK(u)'
    BY <1>t, <1>6, <2>1 DEF Delete, Others, CallsOK, CallOK, Exclusive, TypeOK
  <2> QED
    BY <1>t, <2>1, <2>2, CallsReturned
<1>7. CASE CallCreateBuffer(t)
  <2>1. Others(t) /\ pc'[t] = "create" /\ arg'[t].device \in devices
    BY <1>t, <1>7, Begins
  <2>2. UNCHANGED <<heap, fdOf, file, memory, header, devices, buffers>>
    BY <1>7 DEF CallCreateBuffer
  <2>3. CallOK(t)'
    BY <1>t, <2>1, <2>2 DEF CallsOK, CallOK, HeadersOK, HeapExact, TypeOK
  <2>4. ASSUME NEW u \in Threads \ {t}
        PROVE  CallOK(u)' /\ Exclusive(t, u)'
    BY <1>t, <2>1, <2>2 DEF Others, CallsOK, CallOK, Exclusive, MemoryExact, BufferAt, At,
       DeviceInUse, BufferInUse, TypeOK
  <2> QED
    BY <1>t, <2>1, <2>3, <2>4, CallsMoved
<1>8. CASE CallSendCommand(t)
  <2>1. Others(t) /\ pc'[t] = "send" /\ arg'[t].device \in devices
    BY <1>t, <1>8, Begins
  <2>2. UNCHANGED <<heap, fdOf, file, memory, header, devices, buffers>>
    BY <1>8 DEF CallSendCommand
  <2>3. CallOK(t)'
    BY <1>t, <2>1, <2>2 DEF CallsOK, CallOK, HeadersOK, HeapExact, TypeOK
  <2>4. ASSUME NEW u \in Threads \ {t}
        PROVE  CallOK(u)' /\ Exclusive(t, u)'
    BY <1>t, <2>1, <2>2 DEF Others, CallsOK, CallOK, Exclusive, MemoryExact, BufferAt, At,
       DeviceInUse, BufferInUse, TypeOK
  <2> QED
    BY <1>t, <2>1, <2>3, <2>4, CallsMoved
<1>9. CASE CallReleaseBuffer(t)
  <2>1. PICK b \in buffers :
          /\ Others(t) /\ pc'[t] = "release"
          /\ arg'[t].device \in devices /\ arg'[t].buffer = b
          /\ buffers' = buffers \ {b} /\ ~BufferInUse(b)
    BY <1>t, <1>9, Begins
  <2>2. UNCHANGED <<heap, fdOf, file, memory, header, devices>>
    BY <1>9 DEF CallReleaseBuffer
  <2>3. CallOK(t)'
    BY <1>t, <2>1, <2>2 DEF CallsOK, CallOK, HeadersOK, HeapExact, TypeOK
  <2>4. ASSUME NEW u \in Threads \ {t}
        PROVE  CallOK(u)' /\ Exclusive(t, u)'
    BY <1>t, <2>1, <2>2 DEF Others, CallsOK, CallOK, Exclusive, MemoryExact, BufferAt, At,
       DeviceInUse, BufferInUse, TypeOK
  <2> QED
    BY <1>t, <2>1, <2>3, <2>4, CallsMoved
<1>10. CASE CallSync(t)
  <2>1. Others(t) /\ pc'[t] = "sync" /\ arg'[t].buffer \in buffers
    BY <1>t, <1>10, Begins
  <2>2. UNCHANGED <<heap, fdOf, file, memory, header, devices, buffers>>
    BY <1>10 DEF CallSync
  <2>3. CallOK(t)'
    BY <1>t, <2>1, <2>2 DEF CallsOK, CallOK, HeadersOK, HeapExact, TypeOK
  <2>4. ASSUME NEW u \in Threads \ {t}
        PROVE  CallOK(u)' /\ Exclusive(t, u)'
    BY <1>t, <2>1, <2>2 DEF Others, CallsOK, CallOK, Exclusive, MemoryExact, BufferAt, At,
       DeviceInUse, BufferInUse, TypeOK
  <2> QED
    BY <1>t, <2>1, <2>3, <2>4, CallsMoved
<1>11. CASE ReadDevice(t)
  <2>1. /\ Others(t)
        /\ pc'[t] = [create |-> "alloc", send |-> "queue", release |-> "free"][pc[t]]
        /\ arg'[t].device = arg[t].device /\ arg'[t].buffer = arg[t].buffer
        /\ arg'[t].fd = fdOf[arg[t].device]
    BY <1>t, <1>11, Continues
  <2>2. /\ UNCHANGED <<heap, fdOf, file, memory, header, devices, buffers>>
        /\ pc[t] \in {"create", "send", "release"}
    BY <1>11 DEF ReadDevice
  <2>3. CallOK(t)'
    BY <1>t, <2>1, <2>2 DEF CallsOK, CallOK, HeadersOK, HeapExact, TypeOK
  <2>4. ASSUME NEW u \in Threads \ {t}
        PROVE  CallOK(u)' /\ Exclusive(t, u)'
    BY <1>t, <2>1, <2>2 DEF Others, CallsOK, CallOK, Exclusive, MemoryExact, BufferAt, At,
       DeviceInUse, BufferInUse, TypeOK
  <2> QED
    BY <1>t, <2>1, <2>3, <2>4, CallsMoved
<1>12. CASE ReadHeader(t)
  <2>1. /\ Others(t) /\ pc'[t] = "dma_sync"
        /\ arg'[t].device = header[arg[t].buffer].device
        /\ arg'[t].buffer = arg[t].buffer
        /\ arg'[t].fd = fdOf[header[arg[t].buffer].device]
    BY <1>t, <1>12, Continues
  <2>2. UNCHANGED <<heap, fdOf, file, memory, header, devices, buffers>> /\ pc[t] = "sync"
    BY <1>12 DEF ReadHeader
  <2>3. CallOK(t)'
    BY <1>t, <2>1, <2>2 DEF CallsOK, CallOK, HeadersOK, HeapExact, TypeOK
  <2>4. ASSUME NEW u \in Threads \ {t}
        PROVE  CallOK(u)' /\ Exclusive(t, u)'
    BY <1>t, <2>1, <2>2 DEF Others, CallsOK, CallOK, Exclusive, MemoryExact, BufferAt, At,
       DeviceInUse, BufferInUse, TypeOK
  <2> QED
    BY <1>t, <2>1, <2>3, <2>4, CallsMoved
<1>13. CASE Allocated(t)
  <2>1. PICK b \in Buffers :
          /\ Others(t) /\ pc'[t] = "header"
          /\ arg'[t].device = arg[t].device /\ arg'[t].buffer = b
          /\ memory[b] = NULL
          /\ memory' = [memory EXCEPT ![b] = arg[t].size % U32Mod]
    BY <1>t, <1>13, Continues
  <2>2. UNCHANGED <<heap, fdOf, file, header, devices, buffers>> /\ pc[t] = "alloc"
    BY <1>13 DEF Allocated
  <2>3. CallOK(t)'
    BY <1>t, <2>1, <2>2 DEF CallsOK, CallOK, MemoryExact, TypeOK
  <2>4. ASSUME NEW u \in Threads \ {t}
        PROVE  CallOK(u)' /\ Exclusive(t, u)'
    BY <1>t, <2>1, <2>2 DEF Others, CallsOK, CallOK, Exclusive, MemoryExact, BufferAt, At,
       DeviceInUse, BufferInUse, TypeOK
  <2> QED
    BY <1>t, <2>1, <2>3, <2>4, CallsMoved
<1>14. CASE WriteHeader(t)
  <2>1. Others(t) /\ pc'[t] = "idle"
    BY <1>t, <1>14, Returns DEF WriteHeader
  <2>2. ASSUME NEW u \in Threads \ {t}
        PROVE  CallOK(u)'
    BY <1>t, <1>14, <2>1 DEF WriteHeader, Others, CallsOK, CallOK, Exclusive, TypeOK
  <2> QED
    BY <1>t, <2>1, <2>2, CallsReturned
<1>15. CASE Freed(t)
  <2>1. Others(t) /\ pc'[t] = "idle"
    BY <1>t, <1>15, Returns DEF Freed
  <2>2. ASSUME NEW u \in Threads \ {t}
        PROVE  CallOK(u)'
    BY <1>t, <1>15, <2>1 DEF Freed, Others, CallsOK, CallOK, Exclusive, TypeOK
  <2> QED
    BY <1>t, <2>1, <2>2, CallsReturned
<1>16. CASE FreeFailed(t)
  <2>1. Others(t) /\ pc'[t] = "idle"
    BY <1>t, <1>16, Returns DEF FreeFailed
  <2>2. ASSUME NEW u \in Threads \ {t}
        PROVE  CallOK(u)'
    BY <1>t, <1>16, <2>1 DEF FreeFailed, Others, CallsOK, CallOK, Exclusive, TypeOK
  <2> QED
    BY <1>t, <2>1, <2>2, CallsReturned
<1>17. CASE Answered(t)
  <2>1. Others(t) /\ pc'[t] = "idle"
    BY <1>t, <1>17, Returns DEF Answered
  <2>2. ASSUME NEW u \in Threads \ {t}
        PROVE  CallOK(u)'
    BY <1>t, <1>17, <2>1 DEF Answered, Others, CallsOK, CallOK, Exclusive, TypeOK
  <2> QED
    BY <1>t, <2>1, <2>2, CallsReturned
<1> QED
  BY <1>1, <1>2, <1>3, <1>4, <1>5, <1>6, <1>7, <1>8, <1>9, <1>10, <1>11, <1>12,
     <1>13, <1>14, <1>15, <1>16, <1>17 DEF Step

-----------------------------------------------------------------------------
(* Blocks, descriptors, buffers and headers.  What the calls at some       *)
(* places work with changes only when the thread that moves enters or      *)
(* leaves one of them.                                                     *)

LEMMA Elsewhere ==
  ASSUME NEW t \in Threads, Others(t), NEW S, pc[t] \notin S, pc'[t] \notin S
  PROVE  DeviceAt(S)' = DeviceAt(S) /\ BufferAt(S)' = BufferAt(S)
  BY DEF Others, DeviceAt, BufferAt, At

LEMMA Stays ==
  ASSUME NEW t \in Threads, Others(t), NEW S, pc[t] \in S, pc'[t] \in S,
         arg'[t].device = arg[t].device, arg'[t].buffer = arg[t].buffer
  PROVE  DeviceAt(S)' = DeviceAt(S) /\ BufferAt(S)' = BufferAt(S)
  BY DEF Others, DeviceAt, BufferAt, At

LEMMA Enters ==
  ASSUME NEW t \in Threads, Others(t), NEW S, pc[t] \notin S, pc'[t] \in S
  PROVE  /\ DeviceAt(S)' = DeviceAt(S) \cup {arg'[t].device}
         /\ BufferAt(S)' = BufferAt(S) \cup {arg'[t].buffer}
  BY DEF Others, DeviceAt, BufferAt, At

LEMMA Leaves ==
  ASSUME NEW t \in Threads, Others(t), NEW S, pc[t] \in S, pc'[t] \notin S
  PROVE  /\ DeviceAt(S) = DeviceAt(S)' \cup {arg[t].device}
         /\ BufferAt(S) = BufferAt(S)' \cup {arg[t].buffer}
  BY DEF Others, DeviceAt, BufferAt, At

\* A step that neither begins nor ends at one of these places.
Quiet(P, t) == Others(t) /\ pc[t] \notin P /\ pc'[t] \notin P

DeviceStep(t) ==
  \/ CreateDevice(t) \/ Opened(t) \/ OpenFailed(t) \/ ReleaseDevice(t) \/ Close(t) \/ Delete(t)

BufferStep(t) == CallReleaseBuffer(t) \/ Allocated(t) \/ WriteHeader(t) \/ Freed(t) \/ FreeFailed(t)

OtherStep(t) ==
  \/ CallCreateBuffer(t) \/ CallSendCommand(t) \/ CallSync(t) \/ ReadHeader(t) \/ Answered(t)

LEMMA StepKinds ==
  ASSUME NEW t \in Threads, Step(t)
  PROVE  DeviceStep(t) \/ BufferStep(t) \/ OtherStep(t) \/ ReadDevice(t)
  BY DEF Step, DeviceStep, BufferStep, OtherStep

LEMMA BufferStepsQuiet ==
  ASSUME TypeOK, NEW t \in Threads, BufferStep(t) \/ OtherStep(t) \/ ReadDevice(t)
  PROVE  Quiet({"open", "close", "delete"}, t) /\ UNCHANGED <<heap, devices, file, fdOf>>
<1>1. CASE BufferStep(t)
  <2>1. Others(t) /\ pc'[t] \in {"release", "header", "idle"}
    BY <1>1, Begins, Continues, Returns DEF BufferStep, WriteHeader, Freed, FreeFailed
  <2>2. UNCHANGED <<heap, devices, file, fdOf>> /\ pc[t] \in {"idle", "alloc", "header", "free"}
    BY <1>1 DEF BufferStep, CallReleaseBuffer, Allocated, WriteHeader, Freed, FreeFailed
  <2> QED
    BY <2>1, <2>2 DEF Quiet
<1>2. CASE OtherStep(t)
  <2>1. Others(t) /\ pc'[t] \in {"create", "send", "sync", "dma_sync", "idle"}
    BY <1>2, Begins, Continues, Returns DEF OtherStep, Answered
  <2>2. /\ UNCHANGED <<heap, devices, file, fdOf>>
        /\ pc[t] \in {"idle", "sync", "alloc", "dma_sync", "queue"}
    BY <1>2 DEF OtherStep, CallCreateBuffer, CallSendCommand, CallSync, ReadHeader, Answered
  <2> QED
    BY <2>1, <2>2 DEF Quiet
<1>3. CASE ReadDevice(t)
  <2>1. UNCHANGED <<heap, devices, file, fdOf>> /\ pc[t] \in {"create", "send", "release"}
    BY <1>3 DEF ReadDevice
  <2>2. Others(t) /\ pc'[t] \in {"alloc", "queue", "free"}
    BY <1>3, <2>1, Continues
  <2> QED
    BY <2>1, <2>2 DEF Quiet
<1> QED
  BY <1>1, <1>2, <1>3

LEMMA DeviceStepsQuiet ==
  ASSUME TypeOK, NEW t \in Threads, DeviceStep(t) \/ OtherStep(t)
  PROVE  Quiet({"header", "release", "free"}, t) /\ UNCHANGED <<memory, header, buffers>>
<1>1. CASE DeviceStep(t)
  <2>1. Others(t) /\ pc'[t] \in {"open", "close", "delete", "idle"}
    BY <1>1, Begins, Continues, Returns DEF DeviceStep, Opened, OpenFailed, Delete
  <2>2. UNCHANGED <<memory, header, buffers>> /\ pc[t] \in {"idle", "open", "close", "delete"}
    BY <1>1 DEF DeviceStep, CreateDevice, Opened, OpenFailed, ReleaseDevice, Close, Delete
  <2> QED
    BY <2>1, <2>2 DEF Quiet
<1>2. CASE OtherStep(t)
  <2>1. Others(t) /\ pc'[t] \in {"create", "send", "sync", "dma_sync", "idle"}
    BY <1>2, Begins, Continues, Returns DEF OtherStep, Answered
  <2>2. /\ UNCHANGED <<memory, header, buffers>>
        /\ pc[t] \in {"idle", "sync", "alloc", "dma_sync", "queue"}
    BY <1>2 DEF OtherStep, CallCreateBuffer, CallSendCommand, CallSync, ReadHeader, Answered
  <2> QED
    BY <2>1, <2>2 DEF Quiet
<1> QED
  BY <1>1, <1>2

\* Nobody else makes or releases the device, or has the buffer, of a call.
LEMMA OnlyOne ==
  ASSUME CallsOK, NEW t \in Threads, NEW u \in Threads \ {t}
  PROVE  /\ pc[t] \in Making \cup Leaving /\ pc[u] \in Making \cup Leaving =>
              arg[u].device # arg[t].device
         /\ pc[t] \in OwnsBuffer /\ pc[u] \in OwnsBuffer => arg[u].buffer # arg[t].buffer
  BY DEF CallsOK, Exclusive

LEMMA LeavesAlone ==
  ASSUME CallsOK, NEW t \in Threads, Others(t)
  PROVE  /\ \A S \in SUBSET (Making \cup Leaving) :
              pc[t] \in Making \cup Leaving /\ pc'[t] \notin S =>
                arg[t].device \notin DeviceAt(S)'
         /\ \A S \in SUBSET OwnsBuffer :
              pc[t] \in OwnsBuffer /\ pc'[t] \notin S => arg[t].buffer \notin BufferAt(S)'
<1>1. ASSUME NEW S \in SUBSET (Making \cup Leaving), pc[t] \in Making \cup Leaving,
             pc'[t] \notin S
      PROVE  arg[t].device \notin DeviceAt(S)'
  BY <1>1, OnlyOne DEF Others, DeviceAt, At
<1>2. ASSUME NEW S \in SUBSET OwnsBuffer, pc[t] \in OwnsBuffer, pc'[t] \notin S
      PROVE  arg[t].buffer \notin BufferAt(S)'
  BY <1>2, OnlyOne DEF Others, BufferAt, At
<1> QED
  BY <1>1, <1>2

\* Blocks.
LEMMA StepHeap ==
  ASSUME IInv, NEW t \in Threads, Step(t)
  PROVE  HeapExact'
<1>t. TypeOK /\ CallsOK /\ HeapExact
  BY DEF IInv
<1> DEFINE S == Making \cup Leaving
<1>s. S = {"open", "close", "delete"}
  BY DEF Making, Leaving
<1>1. CASE CreateDevice(t)
  <2>1. PICK h \in Handles \ heap :
          /\ Others(t) /\ pc'[t] = "open" /\ arg'[t].device = h
          /\ heap' = heap \cup {h}
    BY <1>t, <1>1, Begins
  <2>2. UNCHANGED devices /\ pc[t] = "idle"
    BY <1>1 DEF CreateDevice
  <2>3. DeviceAt(S)' = DeviceAt(S) \cup {h}
    BY <1>s, <2>1, <2>2, Enters
  <2> QED
    BY <1>t, <2>1, <2>2, <2>3 DEF HeapExact
<1>2. CASE Opened(t)
  <2>1. Others(t) /\ pc'[t] = "idle"
    BY <1>t, <1>2, Returns DEF Opened
  <2>2. UNCHANGED heap /\ pc[t] = "open" /\ devices' = devices \cup {arg[t].device}
    BY <1>2 DEF Opened
  <2>3. DeviceAt(S) = DeviceAt(S)' \cup {arg[t].device}
    BY <1>s, <2>1, <2>2, Leaves
  <2>4. arg[t].device \in heap
    BY <1>t, <1>s, <2>2 DEF CallsOK, CallOK
  <2> QED
    BY <1>t, <2>2, <2>3, <2>4 DEF HeapExact
<1>3. CASE OpenFailed(t) \/ Delete(t)
  <2>1. Others(t) /\ pc'[t] = "idle"
    BY <1>t, <1>3, Returns DEF OpenFailed, Delete
  <2>2. UNCHANGED devices /\ pc[t] \in S /\ heap' = heap \ {arg[t].device}
    BY <1>3, <1>s DEF OpenFailed, Delete
  <2>3. DeviceAt(S) = DeviceAt(S)' \cup {arg[t].device}
    BY <1>s, <2>1, <2>2, Leaves
  <2>4. arg[t].device \notin devices
    BY <1>t, <2>2 DEF CallsOK, CallOK
  <2> QED
    BY <1>t, <2>2, <2>3, <2>4 DEF HeapExact
<1>4. CASE ReleaseDevice(t)
  <2>1. PICK h \in devices :
          /\ Others(t) /\ pc'[t] = "close" /\ arg'[t].device = h
          /\ devices' = devices \ {h}
    BY <1>t, <1>4, Begins
  <2>2. UNCHANGED heap /\ pc[t] = "idle"
    BY <1>4 DEF ReleaseDevice
  <2>3. DeviceAt(S)' = DeviceAt(S) \cup {h}
    BY <1>s, <2>1, <2>2, Enters
  <2> QED
    BY <1>t, <2>1, <2>2, <2>3 DEF HeapExact
<1>5. CASE Close(t)
  <2>1. Others(t) /\ pc'[t] = "delete" /\ arg'[t] = arg[t]
    BY <1>t, <1>5, Continues
  <2>2. UNCHANGED <<heap, devices>> /\ pc[t] = "close"
    BY <1>5 DEF Close
  <2>3. DeviceAt(S)' = DeviceAt(S)
    BY <1>s, <2>1, <2>2, Stays
  <2> QED
    BY <1>t, <2>2, <2>3 DEF HeapExact
<1>6. CASE BufferStep(t) \/ OtherStep(t) \/ ReadDevice(t)
  <2>1. Quiet({"open", "close", "delete"}, t) /\ UNCHANGED <<heap, devices>>
    BY <1>t, <1>6, BufferStepsQuiet
  <2>2. DeviceAt(S)' = DeviceAt(S)
    BY <1>s, <2>1, Elsewhere DEF Quiet
  <2> QED
    BY <1>t, <2>1, <2>2 DEF HeapExact
<1> QED
  BY <1>1, <1>2, <1>3, <1>4, <1>5, <1>6, StepKinds DEF DeviceStep


\* Descriptors.
LEMMA StepFiles ==
  ASSUME IInv, NEW t \in Threads, Step(t)
  PROVE  FilesExact'
<1>t. TypeOK /\ CallsOK /\ HeapExact /\ FilesExact
  BY DEF IInv
<1>s. Closing = {"close"} /\ Closing \subseteq Making \cup Leaving
  BY DEF Closing, Making, Leaving
<1>1. CASE Opened(t)
  <2> DEFINE d == arg[t].device
  <2>1. Others(t) /\ pc'[t] = "idle" /\ pc[t] = "open"
    BY <1>t, <1>1, Returns DEF Opened
  <2>2. PICK f \in Fds :
          /\ file[f] = NULL
          /\ file' = [file EXCEPT ![f] = d] /\ fdOf' = [fdOf EXCEPT ![d] = f]
          /\ devices' = devices \cup {d}
    BY <1>1 DEF Opened
  <2>3. DeviceAt(Closing)' = DeviceAt(Closing)
    BY <1>s, <2>1, Elsewhere
  <2>4. d \in Handles \ devices
    BY <1>t, <2>1 DEF CallsOK, CallOK, Making, TypeOK
  <2>5. d \notin DeviceAt(Closing)
    BY <1>t, <1>s, <2>1, <2>3, LeavesAlone DEF Making
  <2>6. d # NULL
    BY <2>4, NullAssumption
  <2>7. /\ file'[f] = d /\ \A g \in Fds \ {f} : file'[g] = file[g]
        /\ fdOf'[d] = f /\ \A h \in Handles \ {d} : fdOf'[h] = fdOf[h]
    BY <1>t, <2>2, <2>4 DEF TypeOK
  <2>8. devices \cup DeviceAt(Closing) \subseteq Handles \ {d}
    BY <1>t, <2>4, <2>5 DEF CallsOK, CallOK, Leaving, Closing, DeviceAt, At, TypeOK
  <2>9. ASSUME NEW h \in devices \cup DeviceAt(Closing)
        PROVE  file'[fdOf'[h]] = h
    <3>1. h \in Handles \ {d} /\ file[fdOf[h]] = h /\ fdOf[h] \in Fds
      BY <1>t, <2>8 DEF FilesExact, TypeOK
    <3>2. fdOf[h] # f
      BY <2>2, <3>1, NullAssumption
    <3> QED
      BY <2>7, <3>1, <3>2
  <2>10. ASSUME NEW g \in Fds \ {f}, file[g] # NULL
         PROVE  fdOf'[file[g]] = g /\ file[g] \in devices \cup DeviceAt(Closing)
    BY <1>t, <2>7, <2>8, <2>10 DEF FilesExact
  <2> HIDE DEF d
  <2> QED
    BY <2>2, <2>3, <2>6, <2>7, <2>9, <2>10 DEF FilesExact
<1>2. CASE ReleaseDevice(t)
  <2>1. PICK h \in devices :
          /\ Others(t) /\ pc'[t] = "close" /\ arg'[t].device = h
          /\ devices' = devices \ {h}
    BY <1>t, <1>2, Begins
  <2>2. UNCHANGED <<file, fdOf>> /\ pc[t] = "idle"
    BY <1>2 DEF ReleaseDevice
  <2>3. DeviceAt(Closing)' = DeviceAt(Closing) \cup {h}
    BY <1>s, <2>1, <2>2, Enters
  <2>4. (devices \cup DeviceAt(Closing))' = devices \cup DeviceAt(Closing)
    BY <2>1, <2>3
  <2> QED
    BY <1>t, <2>2, <2>4 DEF FilesExact
<1>3. CASE Close(t)
  <2> DEFINE d == arg[t].device
  <2>1. Others(t) /\ pc'[t] = "delete" /\ pc[t] = "close"
    BY <1>t, <1>3, Continues DEF Close
  <2>2. UNCHANGED <<fdOf, devices>> /\ file' = [file EXCEPT ![fdOf[d]] = NULL]
    BY <1>3 DEF Close
  <2>3. DeviceAt(Closing) = DeviceAt(Closing)' \cup {d}
    BY <1>s, <2>1, Leaves
  <2>4. d \notin DeviceAt(Closing)'
    BY <1>t, <1>s, <2>1, LeavesAlone DEF Leaving
  <2>5. d \in Handles \ devices
    BY <1>t, <2>1 DEF CallsOK, CallOK, Leaving, TypeOK
  <2>6. fdOf[d] \in Fds /\ file[fdOf[d]] = d
    BY <1>t, <2>3, <2>5 DEF FilesExact, TypeOK
  <2>7. file'[fdOf[d]] = NULL /\ \A g \in Fds \ {fdOf[d]} : file'[g] = file[g]
    BY <1>t, <2>2, <2>6 DEF TypeOK
  <2>8. (devices \cup DeviceAt(Closing))' = (devices \cup DeviceAt(Closing)) \ {d}
    BY <2>2, <2>3, <2>4, <2>5
  <2>9. ASSUME NEW h \in (devices \cup DeviceAt(Closing)) \ {d}
        PROVE  file'[fdOf[h]] = h
    <3>1. h \in Handles
      BY <1>t DEF CallsOK, CallOK, Leaving, Closing, DeviceAt, At, TypeOK
    <3>2. file[fdOf[h]] = h /\ fdOf[h] \in Fds
      BY <1>t, <3>1 DEF FilesExact, TypeOK
    <3> QED
      BY <2>6, <2>7, <3>2
  <2>10. ASSUME NEW g \in Fds, file'[g] # NULL
         PROVE  fdOf[file'[g]] = g /\ file'[g] \in (devices \cup DeviceAt(Closing)) \ {d}
    <3>1. g # fdOf[d] /\ file'[g] = file[g]
      BY <2>7, <2>10
    <3>2. fdOf[file[g]] = g /\ file[g] \in devices \cup DeviceAt(Closing)
      BY <1>t, <2>10, <3>1 DEF FilesExact
    <3> QED
      BY <3>1, <3>2
  <2> HIDE DEF d
  <2> QED
    BY <2>2, <2>8, <2>9, <2>10 DEF FilesExact
<1>4. CASE CreateDevice(t) \/ OpenFailed(t) \/ Delete(t)
  <2>1. Quiet(Closing, t) /\ UNCHANGED <<file, fdOf, devices>>
    <3>1. Others(t) /\ pc'[t] \in {"open", "idle"}
      BY <1>t, <1>4, Begins, Returns DEF OpenFailed, Delete
    <3>2. UNCHANGED <<file, fdOf, devices>> /\ pc[t] \in {"idle", "open", "delete"}
      BY <1>4 DEF CreateDevice, OpenFailed, Delete
    <3> QED
      BY <1>s, <3>1, <3>2 DEF Quiet
  <2>2. DeviceAt(Closing)' = DeviceAt(Closing)
    BY <2>1, Elsewhere DEF Quiet
  <2> QED
    BY <1>t, <2>1, <2>2 DEF FilesExact
<1>5. CASE BufferStep(t) \/ OtherStep(t) \/ ReadDevice(t)
  <2>1. Quiet(Closing, t) /\ UNCHANGED <<file, fdOf, devices>>
    BY <1>t, <1>s, <1>5, BufferStepsQuiet DEF Quiet
  <2>2. DeviceAt(Closing)' = DeviceAt(Closing)
    BY <2>1, Elsewhere DEF Quiet
  <2> QED
    BY <1>t, <2>1, <2>2 DEF FilesExact
<1> QED
  BY <1>1, <1>2, <1>3, <1>4, <1>5, StepKinds DEF DeviceStep

\* A call that goes on from reading its device keeps its buffer, or has none.
LEMMA ReadKeepsBuffers ==
  ASSUME TypeOK, NEW t \in Threads, ReadDevice(t)
  PROVE  /\ BufferAt({"header", "release", "free"})' = BufferAt({"header", "release", "free"})
         /\ BufferAt({"release", "free"})' = BufferAt({"release", "free"})
<1>1. /\ Others(t) /\ pc[t] \in {"create", "send", "release"}
      /\ pc'[t] = [create |-> "alloc", send |-> "queue", release |-> "free"][pc[t]]
      /\ arg'[t].device = arg[t].device /\ arg'[t].buffer = arg[t].buffer
  BY Continues DEF ReadDevice
<1>2. CASE pc[t] = "release"
  <2>1. pc'[t] = "free"
    BY <1>1, <1>2
  <2> QED
    BY <1>1, <1>2, <2>1, Stays
<1>3. CASE pc[t] \in {"create", "send"}
  <2>1. pc'[t] \in {"alloc", "queue"}
    BY <1>1, <1>3
  <2> QED
    BY <1>1, <1>3, <2>1, Elsewhere
<1> QED
  BY <1>1, <1>2, <1>3

\* Buffers.
LEMMA StepMemory ==
  ASSUME IInv, NEW t \in Threads, Step(t)
  PROVE  MemoryExact'
<1>t. TypeOK /\ CallsOK /\ MemoryExact
  BY DEF IInv
<1>s. OwnsBuffer = {"header", "release", "free"}
  BY DEF OwnsBuffer
<1>1. CASE CallReleaseBuffer(t)
  <2>1. PICK b \in buffers :
          /\ Others(t) /\ pc'[t] = "release" /\ arg'[t].buffer = b
          /\ buffers' = buffers \ {b}
    BY <1>t, <1>1, Begins
  <2>2. UNCHANGED memory /\ pc[t] = "idle"
    BY <1>1 DEF CallReleaseBuffer
  <2>3. BufferAt(OwnsBuffer)' = BufferAt(OwnsBuffer) \cup {b}
    BY <1>s, <2>1, <2>2, Enters
  <2> QED
    BY <1>t, <2>1, <2>2, <2>3 DEF MemoryExact
<1>2. CASE Allocated(t)
  <2>1. PICK b \in Buffers :
          /\ Others(t) /\ pc'[t] = "header" /\ arg'[t].buffer = b
          /\ memory' = [memory EXCEPT ![b] = arg[t].size % U32Mod]
    BY <1>t, <1>2, Continues
  <2>2. UNCHANGED buffers /\ pc[t] = "alloc"
    BY <1>2 DEF Allocated
  <2>3. BufferAt(OwnsBuffer)' = BufferAt(OwnsBuffer) \cup {b}
    BY <1>s, <2>1, <2>2, Enters
  <2>4. memory'[b] # NULL
    <3>1. arg[t].size \in Nat
      BY <1>t, ArgsFields DEF TypeOK
    <3>2. arg[t].size % U32Mod \in Nat
      BY <3>1, SizeAssumption, ModRange
    <3> QED
      BY <1>t, <2>1, <3>2, NullAssumption DEF TypeOK
  <2>5. \A c \in Buffers \ {b} : memory'[c] = memory[c]
    BY <1>t, <2>1 DEF TypeOK
  <2> QED
    BY <1>t, <2>2, <2>3, <2>4, <2>5 DEF MemoryExact
<1>3. CASE WriteHeader(t) \/ FreeFailed(t)
  <2>1. Others(t) /\ pc'[t] = "idle"
    BY <1>t, <1>3, Returns DEF WriteHeader, FreeFailed
  <2>2. UNCHANGED memory /\ pc[t] \in OwnsBuffer /\ buffers' = buffers \cup {arg[t].buffer}
    BY <1>3, <1>s DEF WriteHeader, FreeFailed
  <2>3. BufferAt(OwnsBuffer) = BufferAt(OwnsBuffer)' \cup {arg[t].buffer}
    BY <1>s, <2>1, <2>2, Leaves
  <2> QED
    BY <1>t, <2>2, <2>3 DEF MemoryExact
<1>4. CASE Freed(t)
  <2> DEFINE b == arg[t].buffer
  <2>1. Others(t) /\ pc'[t] = "idle"
    BY <1>t, <1>4, Returns DEF Freed
  <2>2. UNCHANGED buffers /\ pc[t] = "free" /\ memory' = [memory EXCEPT ![b] = NULL]
    BY <1>4 DEF Freed
  <2>3. BufferAt(OwnsBuffer) = BufferAt(OwnsBuffer)' \cup {b}
    BY <1>s, <2>1, <2>2, Leaves
  <2>4. b \notin BufferAt(OwnsBuffer)'
    BY <1>t, <1>s, <2>1, <2>2, LeavesAlone
  <2>5. b \in Buffers \ buffers
    BY <1>t, <1>s, <2>2 DEF CallsOK, CallOK
  <2>6. memory'[b] = NULL /\ \A c \in Buffers \ {b} : memory'[c] = memory[c]
    BY <1>t, <2>2, <2>5 DEF TypeOK
  <2> HIDE DEF b
  <2> QED
    BY <1>t, <2>2, <2>3, <2>4, <2>5, <2>6 DEF MemoryExact
<1>5. CASE DeviceStep(t) \/ OtherStep(t)
  <2>1. Quiet(OwnsBuffer, t) /\ UNCHANGED <<memory, buffers>>
    BY <1>t, <1>s, <1>5, DeviceStepsQuiet
  <2>2. BufferAt(OwnsBuffer)' = BufferAt(OwnsBuffer)
    BY <2>1, Elsewhere DEF Quiet
  <2> QED
    BY <1>t, <2>1, <2>2 DEF MemoryExact
<1>6. CASE ReadDevice(t)
  <2>1. UNCHANGED <<memory, buffers>> /\ BufferAt(OwnsBuffer)' = BufferAt(OwnsBuffer)
    BY <1>t, <1>s, <1>6, ReadKeepsBuffers DEF ReadDevice
  <2> QED
    BY <1>t, <2>1 DEF MemoryExact
<1> QED
  BY <1>1, <1>2, <1>3, <1>4, <1>5, <1>6, StepKinds DEF BufferStep

\* Headers.
LEMMA StepHeaders ==
  ASSUME IInv, NEW t \in Threads, Step(t)
  PROVE  HeadersOK'
<1> DEFINE S == {"release", "free"}
<1>t. TypeOK /\ CallsOK /\ HeadersOK
  BY DEF IInv
<1>o. S \subseteq OwnsBuffer
  BY DEF OwnsBuffer
<1>1. CASE CallReleaseBuffer(t)
  <2>1. PICK b \in buffers :
          /\ Others(t) /\ pc'[t] = "release" /\ arg'[t].buffer = b
          /\ buffers' = buffers \ {b}
    BY <1>t, <1>1, Begins
  <2>2. UNCHANGED <<header, devices>> /\ pc[t] = "idle"
    BY <1>1 DEF CallReleaseBuffer
  <2>3. BufferAt(S)' = BufferAt(S) \cup {b}
    BY <2>1, <2>2, Enters
  <2> QED
    BY <1>t, <2>1, <2>2, <2>3 DEF HeadersOK
<1>2. CASE Allocated(t)
  <2>1. Others(t) /\ pc'[t] = "header"
    BY <1>t, <1>2, Continues
  <2>2. UNCHANGED <<header, devices, buffers>> /\ pc[t] = "alloc"
    BY <1>2 DEF Allocated
  <2>3. BufferAt(S)' = BufferAt(S)
    BY <2>1, <2>2, Elsewhere
  <2> QED
    BY <1>t, <2>2, <2>3 DEF HeadersOK
<1>3. CASE WriteHeader(t)
  <2> DEFINE b == arg[t].buffer
  <2>1. Others(t) /\ pc'[t] = "idle"
    BY <1>t, <1>3, Returns DEF WriteHeader
  <2>2. /\ UNCHANGED devices /\ pc[t] = "header" /\ buffers' = buffers \cup {b}
        /\ header' = [header EXCEPT ![b] = [device |-> arg[t].device, size |-> arg[t].size]]
    BY <1>3 DEF WriteHeader
  <2>3. BufferAt(S)' = BufferAt(S)
    BY <2>1, <2>2, Elsewhere
  <2>4. b \in Buffers /\ arg[t].device \in devices /\ arg[t].device \in Handles
    BY <1>t, <2>2 DEF CallsOK, CallOK, OnDevice, OwnsBuffer, TypeOK
  <2>5. header'[b].device = arg[t].device /\ \A c \in Buffers \ {b} : header'[c] = header[c]
    BY <1>t, <2>2, <2>4 DEF TypeOK
  <2>6. buffers \cup BufferAt(S) \subseteq Buffers
    BY <1>t DEF CallsOK, CallOK, OwnsBuffer, BufferAt, At, TypeOK
  <2> HIDE DEF b
  <2> QED
    BY <1>t, <2>2, <2>3, <2>4, <2>5, <2>6 DEF HeadersOK
<1>4. CASE Freed(t) \/ FreeFailed(t)
  <2>1. Others(t) /\ pc'[t] = "idle"
    BY <1>t, <1>4, Returns DEF Freed, FreeFailed
  <2>2. /\ UNCHANGED <<header, devices>> /\ pc[t] = "free"
        /\ buffers' \subseteq buffers \cup {arg[t].buffer}
    BY <1>4 DEF Freed, FreeFailed
  <2>3. BufferAt(S) = BufferAt(S)' \cup {arg[t].buffer}
    BY <2>1, <2>2, Leaves
  <2> QED
    BY <1>t, <2>2, <2>3 DEF HeadersOK
<1>5. CASE ReleaseDevice(t)
  <2>1. Quiet({"header", "release", "free"}, t) /\ UNCHANGED <<header, buffers>>
    BY <1>t, <1>5, DeviceStepsQuiet DEF DeviceStep
  <2>2. BufferAt(S)' = BufferAt(S)
    BY <2>1, Elsewhere DEF Quiet
  <2>3. PICK h \in devices :
          /\ devices' = devices \ {h}
          /\ BuffersFirst => \A b \in buffers \cup BufferAt(S) : header[b].device # h
    BY <1>t, <1>5, Begins
  <2> QED
    BY <1>t, <2>1, <2>2, <2>3 DEF HeadersOK
<1>6. CASE (DeviceStep(t) /\ ~ReleaseDevice(t)) \/ OtherStep(t)
  <2>1. Quiet({"header", "release", "free"}, t) /\ UNCHANGED <<header, buffers>>
    BY <1>t, <1>6, DeviceStepsQuiet
  <2>2. BufferAt(S)' = BufferAt(S)
    BY <2>1, Elsewhere DEF Quiet
  <2>3. devices \subseteq devices'
    BY <1>6 DEF DeviceStep, OtherStep, CreateDevice, Opened, OpenFailed, Close, Delete,
       CallCreateBuffer, CallSendCommand, CallSync, ReadHeader, Answered
  <2> QED
    BY <1>t, <2>1, <2>2, <2>3 DEF HeadersOK
<1>7. CASE ReadDevice(t)
  <2>1. UNCHANGED <<header, devices, buffers>> /\ BufferAt(S)' = BufferAt(S)
    BY <1>t, <1>7, ReadKeepsBuffers DEF ReadDevice
  <2> QED
    BY <1>t, <2>1 DEF HeadersOK
<1> QED
  BY <1>1, <1>2, <1>3, <1>4, <1>5, <1>6, <1>7, StepKinds DEF BufferStep

-----------------------------------------------------------------------------
(* Sizes: the one that was asked for, with the header, is the size of the  *)
(* allocation and the size in the header.                                  *)

LEMMA SizesMove ==
  ASSUME TypeOK, NEW t \in Threads
  PROVE  /\ CallCreateBuffer(t) => arg'[t].size \in Sizes
         /\ ReadDevice(t) /\ pc[t] = "create" =>
              arg'[t].size = (HeaderSize + arg[t].size) % SizeMod
         /\ Allocated(t) => arg'[t].size = arg[t].size
<1>n. NoArg \in Args /\ arg[t] \in Args
  BY NoArgTyped DEF TypeOK
<1>f. ASSUME NEW a \in Args, NEW h, NEW b, NEW f, NEW n
      PROVE  /\ [a EXCEPT !.device = h, !.size = n].size = n
             /\ [a EXCEPT !.buffer = b].size = a.size
             /\ [a EXCEPT !.fd = f, !.size = n].size = n
  BY DEF Args
<1>1. ASSUME CallCreateBuffer(t) PROVE arg'[t].size \in Sizes
  <2>1. PICK h \in devices, s \in Sizes :
          Call(t, "create", [NoArg EXCEPT !.device = h, !.size = s])
    BY <1>1 DEF CallCreateBuffer
  <2> DEFINE r == [NoArg EXCEPT !.device = h, !.size = s]
  <2>2. r.size = s
    BY <1>n, <1>f
  <2>3. arg'[t] = r
    BY <2>1, CallMoves
  <2> HIDE DEF r
  <2> QED
    BY <2>2, <2>3
<1>2. ASSUME ReadDevice(t), pc[t] = "create"
      PROVE  arg'[t].size = (HeaderSize + arg[t].size) % SizeMod
  <2> DEFINE n == (HeaderSize + arg[t].size) % SizeMod
  <2>1. Call(t, "alloc", [arg[t] EXCEPT !.fd = fdOf[arg[t].device], !.size = n])
    BY <1>2 DEF ReadDevice
  <2> HIDE DEF n
  <2> DEFINE r == [arg[t] EXCEPT !.fd = fdOf[arg[t].device], !.size = n]
  <2>2. r.size = n
    BY <1>n, <1>f
  <2>3. arg'[t] = r
    BY <2>1, CallMoves
  <2> HIDE DEF r
  <2> QED
    BY <2>2, <2>3 DEF n
<1>3. ASSUME Allocated(t) PROVE arg'[t].size = arg[t].size
  <2>1. PICK b \in Buffers : Call(t, "header", [arg[t] EXCEPT !.buffer = b])
    BY <1>3 DEF Allocated
  <2> DEFINE r == [arg[t] EXCEPT !.buffer = b]
  <2>2. r.size = arg[t].size
    BY <1>n, <1>f
  <2>3. arg'[t] = r
    BY <2>1, CallMoves
  <2> HIDE DEF r
  <2> QED
    BY <2>2, <2>3
<1> QED
  BY <1>1, <1>2, <1>3

\* An allocation, with its header, is larger than the header and fits a __u32.
LEMMA StepThreadSizes ==
  ASSUME IInv, SizesFit, NEW t \in Threads, Step(t), NEW u \in Threads
  PROVE  SizeOK(u)'
<1>t. TypeOK /\ CallsOK /\ MemoryExact /\ SizeOK(u)
  BY DEF IInv, SizesOK
<1>1. CASE u # t
  <2>1. Others(t) => pc'[u] = pc[u] /\ arg'[u] = arg[u]
    BY <1>1 DEF Others
  <2>2. ASSUME pc[u] = "header"
        PROVE  /\ arg[u].buffer \in Buffers /\ memory[arg[u].buffer] # NULL
               /\ pc[t] \in OwnsBuffer => arg[t].buffer # arg[u].buffer
    <3>1. arg[u].buffer \in Buffers /\ arg[u].buffer \in BufferAt(OwnsBuffer)
      BY <1>t, <2>2 DEF CallsOK, CallOK, OwnsBuffer, BufferAt, At
    <3>2. pc[t] \in OwnsBuffer => arg[t].buffer # arg[u].buffer
      BY <1>t, <1>1, <2>2, OnlyOne DEF OwnsBuffer
    <3> QED
      BY <1>t, <3>1, <3>2 DEF MemoryExact
  <2>3. CASE Allocated(t)
    <3>1. PICK b \in Buffers :
            /\ Others(t) /\ memory[b] = NULL
            /\ memory' = [memory EXCEPT ![b] = arg[t].size % U32Mod]
      BY <1>t, <2>3, Continues
    <3>2. pc[u] = "header" => memory'[arg[u].buffer] = memory[arg[u].buffer]
      BY <1>t, <2>2, <3>1 DEF TypeOK
    <3> QED
      BY <1>t, <2>1, <3>1, <3>2 DEF SizeOK
  <2>4. CASE Freed(t)
    <3>1. Others(t) /\ pc[t] = "free" /\ memory' = [memory EXCEPT ![arg[t].buffer] = NULL]
      BY <1>t, <2>4, Returns DEF Freed
    <3>2. pc[u] = "header" => memory'[arg[u].buffer] = memory[arg[u].buffer]
      BY <1>t, <2>2, <3>1 DEF TypeOK, OwnsBuffer
    <3> QED
      BY <1>t, <2>1, <3>1, <3>2 DEF SizeOK
  <2>5. CASE CallReleaseBuffer(t) \/ WriteHeader(t) \/ FreeFailed(t)
    <3>1. Others(t)
      BY <1>t, <2>5, Begins, Returns DEF WriteHeader, FreeFailed
    <3>2. UNCHANGED memory
      BY <2>5 DEF CallReleaseBuffer, WriteHeader, FreeFailed
    <3> QED
      BY <1>t, <2>1, <3>1, <3>2 DEF SizeOK
  <2>6. CASE DeviceStep(t) \/ OtherStep(t)
    <3>1. Others(t) /\ UNCHANGED memory
      BY <1>t, <2>6, DeviceStepsQuiet DEF Quiet
    <3> QED
      BY <1>t, <2>1, <3>1 DEF SizeOK
  <2>7. CASE ReadDevice(t)
    <3>1. Others(t) /\ UNCHANGED memory
      BY <1>t, <2>7, Continues DEF ReadDevice
    <3> QED
      BY <1>t, <2>1, <3>1 DEF SizeOK
  <2> QED
    BY <2>3, <2>4, <2>5, <2>6, <2>7, StepKinds DEF BufferStep
<1>2. CASE u = t
  <2>1. CASE CallCreateBuffer(t)
    <3>1. pc'[t] = "create" /\ arg'[t].size \in Sizes
      BY <1>t, <2>1, Begins, SizesMove
    <3> QED
      BY <1>2, <3>1 DEF SizeOK
  <2>2. CASE ReadDevice(t) /\ pc[t] = "create"
    <3>1. pc'[t] = "alloc" /\ arg'[t].size = (HeaderSize + arg[t].size) % SizeMod
      BY <1>t, <2>2, Continues, SizesMove
    <3>2. /\ arg[t].size \in Nat /\ arg[t].size > 0
          /\ HeaderSize + arg[t].size < U32Mod /\ HeaderSize + arg[t].size \in Nat
      <4>1. arg[t].size \in Sizes
        BY <1>t, <1>2, <2>2 DEF SizeOK
      <4>2. arg[t].size \in 1..(SizeMod - 1) /\ HeaderSize \in Nat
        BY <4>1, SizeAssumption
      <4>3. HeaderSize + arg[t].size < U32Mod
        BY <4>1 DEF SizesFit
      <4> QED
        BY <4>2, <4>3
    <3>3. U32Mod \in Nat /\ U32Mod <= SizeMod /\ SizeMod \in Nat \ {0} /\ HeaderSize \in Nat
      BY SizeAssumption
    <3>4. arg'[t].size = HeaderSize + arg[t].size
      <4>1. HeaderSize + arg[t].size < SizeMod
        BY <3>2, <3>3
      <4> QED
        BY <3>1, <3>2, <3>3, <4>1, SmallMod
    <3>5. arg'[t].size \in (HeaderSize + 1)..(U32Mod - 1)
      BY <3>2, <3>3, <3>4
    <3> QED
      BY <1>2, <3>1, <3>5 DEF SizeOK
  <2>3. CASE Allocated(t)
    <3>1. PICK b \in Buffers :
            /\ pc'[t] = "header" /\ arg'[t].buffer = b
            /\ memory' = [memory EXCEPT ![b] = arg[t].size % U32Mod]
      BY <1>t, <2>3, Continues
    <3>2. arg'[t].size = arg[t].size /\ pc[t] = "alloc"
      BY <1>t, <2>3, SizesMove DEF Allocated
    <3>3. arg[t].size \in (HeaderSize + 1)..(U32Mod - 1)
      BY <1>t, <1>2, <3>2 DEF SizeOK
    <3>4. arg[t].size \in Nat /\ arg[t].size < U32Mod /\ U32Mod \in Nat \ {0}
      BY <3>3, SizeAssumption
    <3>5. memory'[b] = arg[t].size
      BY <1>t, <3>1, <3>4, SmallMod DEF TypeOK
    <3> QED
      BY <1>2, <3>1, <3>2, <3>3, <3>5 DEF SizeOK
  <2>4. CASE WriteHeader(t) \/ Freed(t) \/ FreeFailed(t)
    <3>1. pc'[t] = "idle"
      BY <1>t, <2>4, Returns DEF WriteHeader, Freed, FreeFailed
    <3> QED
      BY <1>2, <3>1 DEF SizeOK
  <2>5. CASE CallReleaseBuffer(t) \/ CallSendCommand(t) \/ CallSync(t)
    <3>1. pc'[t] \in {"release", "send", "sync"}
      BY <1>t, <2>5, Begins
    <3> QED
      BY <1>2, <3>1 DEF SizeOK
  <2>6. CASE DeviceStep(t)
    <3>1. pc'[t] \in {"open", "close", "delete", "idle"}
      BY <1>t, <2>6, Begins, Continues, Returns DEF DeviceStep, Opened, OpenFailed, Delete
    <3> QED
      BY <1>2, <3>1 DEF SizeOK
  <2>7. CASE (ReadDevice(t) /\ pc[t] # "create") \/ ReadHeader(t) \/ Answered(t)
    <3>1. pc'[t] \in {"queue", "free", "dma_sync", "idle"}
      <4>1. CASE ReadDevice(t) /\ pc[t] # "create"
        <5>1. pc[t] \in {"send", "release"}
          BY <4>1 DEF ReadDevice
        <5> QED
          BY <1>t, <4>1, <5>1, Continues
      <4>2. CASE ReadHeader(t) \/ Answered(t)
        BY <1>t, <4>2, Continues, Returns DEF Answered
      <4> QED
        BY <2>7, <4>1, <4>2
    <3> QED
      BY <1>2, <3>1 DEF SizeOK
  <2> QED
    BY <2>1, <2>2, <2>3, <2>4, <2>5, <2>6, <2>7, StepKinds DEF BufferStep, OtherStep
<1> QED
  BY <1>1, <1>2

LEMMA StepSizes ==
  ASSUME IInv, NEW t \in Threads, Step(t)
  PROVE  SizesOK'
<1> DEFINE S == {"release", "free"}
<1> SUFFICES ASSUME SizesFit PROVE SizesOK'
  BY DEF SizesOK, SizesFit
<1>t. TypeOK /\ CallsOK /\ MemoryExact
  BY DEF IInv
<1>h. /\ \A b \in buffers \cup BufferAt(S) : HeaderSizeOK(b)
      /\ \A u \in Threads : SizeOK(u)
  BY DEF IInv, SizesOK
<1>o. S \subseteq OwnsBuffer /\ BufferAt(S) \subseteq BufferAt(OwnsBuffer)
  BY DEF OwnsBuffer, BufferAt, At
<1>b. buffers \cup BufferAt(S) \subseteq Buffers
  BY <1>t, <1>o DEF CallsOK, CallOK, BufferAt, At, TypeOK
<1>0. ASSUME \A b \in buffers' \cup BufferAt(S)' : HeaderSizeOK(b)'
      PROVE  SizesOK'
  BY <1>0, StepThreadSizes DEF SizesOK
<1> HIDE DEF S
<1>1. CASE CallReleaseBuffer(t)
  <2>1. PICK b \in buffers :
          /\ Others(t) /\ pc'[t] = "release" /\ arg'[t].buffer = b
          /\ buffers' = buffers \ {b}
    BY <1>t, <1>1, Begins
  <2>2. UNCHANGED <<header, memory>> /\ pc[t] = "idle"
    BY <1>1 DEF CallReleaseBuffer
  <2>3. BufferAt(S)' = BufferAt(S) \cup {b}
    BY <2>1, <2>2, Enters DEF S
  <2> QED
    BY <1>h, <1>0, <2>1, <2>2, <2>3 DEF HeaderSizeOK
<1>2. CASE Allocated(t)
  <2>1. PICK b \in Buffers :
          /\ Others(t) /\ pc'[t] = "header" /\ memory[b] = NULL
          /\ memory' = [memory EXCEPT ![b] = arg[t].size % U32Mod]
    BY <1>t, <1>2, Continues
  <2>2. UNCHANGED <<header, buffers>> /\ pc[t] = "alloc"
    BY <1>2 DEF Allocated
  <2>3. BufferAt(S)' = BufferAt(S)
    BY <2>1, <2>2, Elsewhere DEF S
  <2>4. b \notin buffers \cup BufferAt(S)
    BY <1>t, <1>o, <2>1 DEF MemoryExact
  <2>5. \A c \in Buffers \ {b} : memory'[c] = memory[c]
    BY <1>t, <2>1 DEF TypeOK
  <2> QED
    BY <1>h, <1>b, <1>0, <2>2, <2>3, <2>4, <2>5 DEF HeaderSizeOK
<1>3. CASE WriteHeader(t)
  <2>0. PICK b : b = arg[t].buffer
    OBVIOUS
  <2>1. Others(t) /\ pc'[t] = "idle"
    BY <1>t, <1>3, Returns DEF WriteHeader
  <2>2. /\ UNCHANGED memory /\ pc[t] = "header" /\ buffers' = buffers \cup {b}
        /\ header' = [header EXCEPT ![b] = [device |-> arg[t].device, size |-> arg[t].size]]
    BY <1>3, <2>0 DEF WriteHeader
  <2>3. BufferAt(S)' = BufferAt(S)
    BY <2>1, <2>2, Elsewhere DEF S
  <2>4. b \in Buffers
    BY <1>t, <2>0, <2>2 DEF CallsOK, CallOK, OwnsBuffer
  <2>5. header'[b].size = arg[t].size /\ \A c \in Buffers \ {b} : header'[c] = header[c]
    BY <1>t, <2>2, <2>4 DEF TypeOK
  <2>6. memory[b] = arg[t].size /\ arg[t].size > HeaderSize
    BY <1>h, <2>0, <2>2, SizeAssumption DEF SizeOK
  <2>7. HeaderSizeOK(b)'
    BY <2>2, <2>5, <2>6 DEF HeaderSizeOK
  <2>8. \A c \in (buffers \cup BufferAt(S)) \ {b} : HeaderSizeOK(c)'
    BY <1>h, <1>b, <2>2, <2>5 DEF HeaderSizeOK
  <2> QED
    BY <1>0, <2>2, <2>3, <2>7, <2>8
<1>4. CASE Freed(t)
  <2> DEFINE b == arg[t].buffer
  <2>1. Others(t) /\ pc'[t] = "idle"
    BY <1>t, <1>4, Returns DEF Freed
  <2>2. UNCHANGED <<header, buffers>> /\ pc[t] = "free" /\ memory' = [memory EXCEPT ![b] = NULL]
    BY <1>4 DEF Freed
  <2>3. BufferAt(S) = BufferAt(S)' \cup {b}
    BY <2>1, <2>2, Leaves DEF S
  <2>4. b \notin BufferAt(S)'
    BY <1>t, <1>o, <2>1, <2>2, LeavesAlone DEF OwnsBuffer, S
  <2>5. b \in Buffers \ buffers
    BY <1>t, <2>2 DEF CallsOK, CallOK, OwnsBuffer
  <2>6. \A c \in Buffers \ {b} : memory'[c] = memory[c]
    BY <1>t, <2>2, <2>5 DEF TypeOK
  <2> HIDE DEF b
  <2> QED
    BY <1>h, <1>b, <1>0, <2>2, <2>3, <2>4, <2>5, <2>6 DEF HeaderSizeOK
<1>5. CASE FreeFailed(t)
  <2>1. Others(t) /\ pc'[t] = "idle"
    BY <1>t, <1>5, Returns DEF FreeFailed
  <2>2. /\ UNCHANGED <<header, memory>> /\ pc[t] = "free"
        /\ buffers' = buffers \cup {arg[t].buffer}
    BY <1>5 DEF FreeFailed
  <2>3. BufferAt(S) = BufferAt(S)' \cup {arg[t].buffer}
    BY <2>1, <2>2, Leaves DEF S
  <2> QED
    BY <1>h, <1>0, <2>2, <2>3 DEF HeaderSizeOK
<1>6. CASE DeviceStep(t) \/ OtherStep(t)
  <2>1. Quiet({"header", "release", "free"}, t) /\ UNCHANGED <<memory, header, buffers>>
    BY <1>t, <1>6, DeviceStepsQuiet
  <2>2. BufferAt(S)' = BufferAt(S)
    BY <2>1, Elsewhere DEF Quiet, S
  <2> QED
    BY <1>h, <1>0, <2>1, <2>2 DEF HeaderSizeOK
<1>7. CASE ReadDevice(t)
  <2>1. UNCHANGED <<memory, header, buffers>> /\ BufferAt(S)' = BufferAt(S)
    BY <1>t, <1>7, ReadKeepsBuffers DEF ReadDevice, S
  <2> QED
    BY <1>h, <1>0, <2>1 DEF HeaderSizeOK
<1> QED
  BY <1>1, <1>2, <1>3, <1>4, <1>5, <1>6, <1>7, StepKinds DEF BufferStep

-----------------------------------------------------------------------------
(* The invariant, and what follows from it.                                *)

LEMMA InitInv == Init => IInv
<1> SUFFICES ASSUME Init PROVE IInv
  OBVIOUS
<1>1. TypeOK
  BY InitTyped
<1>2. /\ heap = {} /\ devices = {} /\ buffers = {}
      /\ \A f \in Fds : file[f] = NULL
      /\ \A b \in Buffers : memory[b] = NULL
      /\ \A t \in Threads : pc[t] = "idle"
  BY DEF Init
<1>3. ASSUME NEW S, "idle" \notin S
      PROVE  DeviceAt(S) = {} /\ BufferAt(S) = {}
  BY <1>2, <1>3 DEF DeviceAt, BufferAt, At
<1>4. /\ DeviceAt(Closing) = {}
      /\ BufferAt(OwnsBuffer) = {} /\ BufferAt({"release", "free"}) = {}
  BY <1>3 DEF Closing, OwnsBuffer
<1>5. CallsOK
  BY <1>2 DEF CallsOK, CallOK, Exclusive, Making, Leaving, OnDevice, OwnsBuffer
<1>6. HeapExact /\ FilesExact /\ MemoryExact /\ HeadersOK
  BY <1>2, <1>4 DEF HeapExact, FilesExact, MemoryExact, HeadersOK
<1>7. SizesOK
  BY <1>2, <1>4 DEF SizesOK, SizeOK
<1> QED
  BY <1>1, <1>5, <1>6, <1>7 DEF IInv

LEMMA StepInv == IInv /\ [Next]_vars => IInv'
<1> SUFFICES ASSUME IInv, [Next]_vars PROVE IInv'
  OBVIOUS
<1>1. ASSUME NEW t \in Threads, Step(t) PROVE IInv'
  BY <1>1, StepTyped, StepCalls, StepHeap, StepFiles, StepMemory, StepHeaders, StepSizes DEF IInv
<1>2. CASE UNCHANGED vars
  BY <1>2 DEF vars, IInv, TypeOK, CallsOK, CallOK, Exclusive, HeapExact, FilesExact, MemoryExact,
     HeadersOK, SizesOK, SizeOK, HeaderSizeOK, SizesFit, DeviceAt, BufferAt, At
<1> QED
  BY <1>1, <1>2 DEF Next, Step

\* The inductive invariant: every call works with what its caller holds, and
\* descriptors, blocks, buffers and headers belong to each other.  It does
\* not depend on the order in which buffers and devices are released.
THEOREM DeviceInvariance == Spec => []IInv
<1> QED
  BY InitInv, StepInv, PTL DEF Spec

\* No block, descriptor or buffer is lost, on the error paths of
\* dsp_create_device, dsp_create_buffer and dsp_release_buffer either.
THEOREM NothingIsLost == Spec => []NothingLeaks
<1>1. IInv => NothingLeaks
  <2> SUFFICES ASSUME IInv PROVE NothingLeaks
    OBVIOUS
  <2>t. TypeOK /\ CallsOK /\ HeapExact /\ FilesExact /\ MemoryExact
    BY DEF IInv
  <2>s. /\ Making \cup Leaving = {"open", "close", "delete"} /\ Closing = {"close"}
        /\ OwnsBuffer = {"header", "release", "free"}
    BY DEF Making, Leaving, Closing, OwnsBuffer
  <2>1. heap = devices \cup DeviceAt({"open", "close", "delete"})
    <3>1. DeviceAt({"open", "close", "delete"}) \subseteq heap
      BY <2>t, <2>s DEF CallsOK, CallOK, DeviceAt, At
    <3> QED
      BY <2>t, <2>s, <3>1 DEF HeapExact
  <2>2. devices \cup DeviceAt({"close"}) \subseteq Handles
    BY <2>t, <2>1 DEF TypeOK, DeviceAt, At
  <2>3. {file[f] : f \in Fds} \ {NULL} = devices \cup DeviceAt({"close"})
    <3>1. ASSUME NEW h \in devices \cup DeviceAt({"close"})
          PROVE  h \in {file[f] : f \in Fds} \ {NULL}
      BY <2>t, <2>s, <2>2, NullAssumption DEF FilesExact, TypeOK
    <3> QED
      BY <2>t, <2>s, <3>1 DEF FilesExact
  <2>4. \A h \in devices : file[fdOf[h]] = h
    BY <2>t DEF FilesExact
  <2>5. {b \in Buffers : memory[b] # NULL} = buffers \cup BufferAt({"header", "release", "free"})
    <3>1. buffers \cup BufferAt({"header", "release", "free"}) \subseteq Buffers
      BY <2>t, <2>s DEF TypeOK, CallsOK, CallOK, BufferAt, At
    <3> QED
      BY <2>t, <2>s, <3>1 DEF MemoryExact
  <2> QED
    BY <2>1, <2>3, <2>4, <2>5 DEF NothingLeaks
<1> QED
  BY <1>1, DeviceInvariance, PTL

\* If the sizes callers ask for fit in 32 bits with the header, no sum and no
\* cast loses anything, and a buffer is as large as its header says.
THEOREM BuffersHoldTheirSize ==
  ASSUME SizesFit
  PROVE  Spec => []BufferHoldsItsSize
<1>1. IInv => BufferHoldsItsSize
  <2> SUFFICES ASSUME IInv, NEW b \in buffers
               PROVE  memory[b] >= header[b].size /\ header[b].size > HeaderSize
    BY DEF BufferHoldsItsSize
  <2>1. memory[b] = header[b].size /\ header[b].size > HeaderSize
    BY DEF IInv, SizesOK, HeaderSizeOK
  <2>2. header[b].size \in Nat
    <3>1. header[b] \in [device : Handles \cup {NULL}, size : 0..(SizeMod - 1)]
      BY DEF IInv, TypeOK
    <3> QED
      BY <3>1, SizeAssumption
  <2> QED
    BY <2>1, <2>2
<1> QED
  BY <1>1, DeviceInvariance, PTL

\* If callers release the buffers of a device before the device, no call
\* reads a device after its delete or a header after its buffer was freed,
\* and in particular dsp_buffer_sync_start and _end do not.
THEOREM NothingUsedAfterRelease ==
  ASSUME BuffersFirst
  PROVE  Spec => []NoUseAfterRelease
<1>1. IInv => NoUseAfterRelease
  <2> SUFFICES ASSUME IInv PROVE NoUseAfterRelease
    OBVIOUS
  <2>t. TypeOK /\ CallsOK /\ HeapExact /\ MemoryExact /\ HeadersOK
    BY DEF IInv
  <2>1. DeviceAt({"close", "create", "send", "release"}) \subseteq heap
    BY <2>t DEF CallsOK, CallOK, Leaving, OnDevice, HeapExact, DeviceAt, At
  <2>2. ASSUME NEW t \in At({"release", "sync"})
        PROVE  memory[arg[t].buffer] # NULL
    <3>1. t \in Threads /\ pc[t] \in {"release", "sync"}
      BY DEF At
    <3>2. pc[t] = "release" => arg[t].buffer \in Buffers /\ arg[t].buffer \in BufferAt(OwnsBuffer)
      BY <2>t, <3>1 DEF CallsOK, CallOK, OwnsBuffer, BufferAt, At
    <3>3. pc[t] = "sync" => arg[t].buffer \in Buffers /\ arg[t].buffer \in buffers
      BY <2>t, <3>1 DEF CallsOK, CallOK, TypeOK
    <3> QED
      BY <2>t, <3>1, <3>2, <3>3 DEF MemoryExact
  <2>3. ASSUME NEW t \in At({"sync"})
        PROVE  header[arg[t].buffer].device \in heap
    <3>1. arg[t].buffer \in buffers
      BY <2>t DEF CallsOK, CallOK, At
    <3> QED
      BY <2>t, <3>1 DEF HeadersOK, HeapExact
  <2> QED
    BY <2>1, <2>2, <2>3 DEF NoUseAfterRelease, BufferAt
<1> QED
  BY <1>1, DeviceInvariance, PTL

\* And no ioctl of a call reaches a descriptor that was closed, or that was
\* given to another device, since the call read it.
THEOREM IoctlsReachTheirDevice ==
  ASSUME BuffersFirst
  PROVE  Spec => []IoctlReachesItsDevice
<1>1. IInv => IoctlReachesItsDevice
  <2> SUFFICES ASSUME IInv, NEW t \in At({"alloc", "free", "dma_sync", "queue"})
               PROVE  file[arg[t].fd] = arg[t].device
    BY DEF IoctlReachesItsDevice
  <2>1. CallOK(t) /\ pc[t] \in {"alloc", "free", "dma_sync", "queue"}
    BY DEF IInv, CallsOK, At
  <2>2. arg[t].fd = fdOf[arg[t].device]
    BY <2>1 DEF CallOK
  <2>3. arg[t].device \in devices
    <3>1. CASE pc[t] = "dma_sync"
      <4>1. arg[t].buffer \in buffers /\ arg[t].device = header[arg[t].buffer].device
        BY <2>1, <3>1 DEF CallOK
      <4> QED
        BY <4>1 DEF IInv, HeadersOK
    <3>2. CASE pc[t] # "dma_sync"
      BY <2>1, <3>2 DEF CallOK, OnDevice
    <3> QED
      BY <3>1, <3>2
  <2> QED
    BY <2>2, <2>3 DEF IInv, FilesExact
<1> QED
  BY <1>1, DeviceInvariance, PTL
=============================================================================
