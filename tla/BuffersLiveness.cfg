SPECIFICATION FairSpec
CONSTANTS
  Clients = {t1}
  Workers = {w1, w2}
  Buffers = {b1, b2}
  HostBuffers = {b2}
  Groups = {g1}
  Device = dev
  Cmds = {c1, c2}
  MaxSlots = 2
  ReplaceInFlight = TRUE
  SizeOf <- MCSizeOf
  Windows <- MCWindows
  SizeMod = 8
  U32Mod = 4
  NULL = NULL
PROPERTY EverythingFreed
PROPERTY IsRefCounted
CHECK_DEADLOCK FALSE
