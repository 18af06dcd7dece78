SPECIFICATION Spec
CONSTANTS
  NULL = NULL
  Threads = {t1, t2}
  Handles = {h1, h2}
  Fds = {f1, f2}
  Buffers = {b1, b2}
  Sizes = {1}
  HeaderSize = 2
  SizeMod = 16
  U32Mod = 8
  BuffersFirst = TRUE
SYMMETRY Symmetry
INVARIANT SyncInsideBuffer
