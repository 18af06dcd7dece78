SPECIFICATION Spec
CONSTANTS
  NULL = NULL
  Threads = {t1, t2, t3}
  Handles = {h1, h2}
  Fds = {f1, f2, f3}
  Buffers = {b1, b2}
  Sizes = {1}
  HeaderSize = 2
  SizeMod = 16
  U32Mod = 8
  BuffersFirst = TRUE
SYMMETRY Symmetry
INVARIANT IInv
INVARIANT NoUseAfterRelease
INVARIANT IoctlReachesItsDevice
INVARIANT NothingLeaks
INVARIANT BufferHoldsItsSize
