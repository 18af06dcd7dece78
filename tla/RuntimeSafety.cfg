SPECIFICATION Spec
CONSTANTS
  Clients = {t1, t2}
  Queues = {q1}
  Cmds = {c1, c2}
  Device = device
  NoCmd = NoCmd
  ThreadCreateMayFail = TRUE
SYMMETRY ClientSymmetry
INVARIANT IInv
INVARIANT RefExact
INVARIANT NoUseAfterFree
INVARIANT NoLostWakeup
INVARIANT PendingHasWorker
PROPERTY IsRefCounted
\* The application may stop making calls.
CHECK_DEADLOCK FALSE
