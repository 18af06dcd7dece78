SPECIFICATION Spec
CONSTANTS
  Clients = {t1}
  Queues = {q1}
  Cmds = {c1, c2}
  Device = device
  NoCmd = NoCmd
  ThreadCreateMayFail = FALSE
INVARIANT NothingAbandoned
\* The application may stop making calls.
CHECK_DEADLOCK FALSE
