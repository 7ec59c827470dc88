\* Two processes read, overwrite, write behind and flush blocks of two sizes, and
\* close the device.
SPECIFICATION Spec
CONSTANTS
  b1 = b1
  b2 = b2
  b3 = b3
  p = p
  q = q
  x1 = x1
  x2 = x2
  x3 = x3
  Procs = {p, q}
  NoProc = NoProc
  Bufs = {b1, b2}
  NoBuf = NoBuf
  Blocks = {x1, x2, x3}
  NoBlock = NoBlock
  Vals = {0, 1}
  NoVal = NoVal
  bsize <- TwoSizes
  v_bufhwm = 2
  manyfree = 1
  Calls = {"bread", "getblk", "bflush", "blkflush", "close"}
  IoErrors = {}
  KmemSleeps = TRUE
SYMMETRY SymmetryTwo
INVARIANTS
  BuffersOK
  MemoryAccounted
  TransferOnce
  FlushedOnReturn
PROPERTIES
  ImplementsBioSpec
