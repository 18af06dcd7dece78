SPECIFICATION FairSpec
CONSTANTS
  Clients = {t1, t2}
  Queues = {q1}
  Cmds = {c1}
  Device = device
  NoCmd = NoCmd
  ThreadCreateMayFail = FALSE
PROPERTY CommandCompletes
PROPERTY IsFairEvents
PROPERTY CallsReturn
PROPERTY EverythingFreed
\* The application may stop making calls.
CHECK_DEADLOCK FALSE
