\* Two processes read ahead while memory is short and the transfers of one block may fail.
SPECIFICATION Spec
CONSTANTS
  b1 = b1
  b2 = b2
  b3 = b3
  p = p
  q = q
  x1 = x1
  x2 = x2
  x3 = x3
  Procs = {p, q}
  NoProc = NoProc
  Bufs = {b1, b2, b3}
  NoBuf = NoBuf
  Blocks = {x1, x2, x3}
  NoBlock = NoBlock
  Vals = {0}
  NoVal = NoVal
  bsize <- OneSize
  v_bufhwm = 3
  manyfree = 4
  Calls = {"breada"}
  IoErrors = {x1}
  KmemSleeps = TRUE
SYMMETRY SymmetryTwo
INVARIANTS
  OneBufferPerBlock
  NobodyStuck
  AsyncWritesCounted
