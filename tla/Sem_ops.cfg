\* Two processes and two sets over one pair of semaphores, whose ids are used again
\* after every removal; one undo structure.
SPECIFICATION Spec
CONSTANTS
  p1 = p1
  p2 = p2
  NoProc = NoProc
  Procs = {p1, p2}
  Sets = {1, 2}
  SeqMax = 0
  semmns = 2
  semvmx = 2
  semaem = 1
  semume = 2
  semmnu = 1
  semopm = 2
  NSems = {2}
  OpLists <- Lists
  SemVals = {0, 2}
  Junk <- JunkOps
  CountMax = 1
SYMMETRY Symmetry
VIEW View
INVARIANTS
  TypeOK
  SemaphoresOK
  SleeperIsCounted
  AdjustmentsAreLive
  NoLostWakeup
PROPERTIES
  ImplementsSemSpec
