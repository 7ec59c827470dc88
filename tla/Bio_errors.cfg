\* A read-ahead fails while another process is about to wait for it.
SPECIFICATION Spec
CONSTANTS
  b1 = b1
  b2 = b2
  b3 = b3
  p = p
  q = q
  x1 = x1
  x2 = x2
  x3 = x3
  Procs = {p, q}
  NoProc = NoProc
  Bufs = {b1, b2, b3}
  NoBuf = NoBuf
  Blocks = {x1, x2}
  NoBlock = NoBlock
  Vals = {0, 1}
  NoVal = NoVal
  bsize <- OneSize
  v_bufhwm = 2
  manyfree = 1
  Calls = {"breada"}
  IoErrors = {x1, x2}
  KmemSleeps = FALSE
SYMMETRY SymmetryAll
INVARIANTS
  ReadIsValid
