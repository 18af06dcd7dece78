SPECIFICATION Spec
CONSTANTS
  Clients = {t1, t2}
  Workers = {w1}
  Buffers = {b1, b2}
  HostBuffers = {b2}
  Groups = {g1}
  Device = dev
  Cmds = {c1}
  MaxSlots = 2
  ReplaceInFlight = FALSE
  SizeOf <- MCSmallHost
  Windows <- MCWindows
  SizeMod = 8
  U32Mod = 4
  NULL = NULL
SYMMETRY Symmetry
INVARIANT IInv
INVARIANT RefExact
INVARIANT NoUseAfterFree
INVARIANT CommandStorageLive
INVARIANT MappingsStayValid
CHECK_DEADLOCK FALSE
