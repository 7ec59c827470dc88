\* copyin() may wait for a page between two operations.
SPECIFICATION PagedSpec
CONSTANTS
  p1 = p1
  p2 = p2
  NoProc = NoProc
  Procs = {p1, p2}
  Sets = {1}
  SeqMax = 1
  semmns = 2
  semvmx = 2
  semaem = 2
  semume = 2
  semmnu = 2
  semopm = 2
  NSems = {2}
  OpLists <- ListsTwo
  SemVals = {0, 1}
  Junk <- JunkOps
  CountMax = 1
SYMMETRY Symmetry
INVARIANTS
  HoldingAreaIsOwn
