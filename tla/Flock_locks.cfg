\* Two processes lock, convert and unlock regions that overlap, and a lock manager
\* asks for a byte; records and memory for them run out.
SPECIFICATION Spec
CONSTANTS
  p = p
  q = q
  r = r
  vn = vn
  NULL = NULL
  Proc = {p, q}
  Remote = {r}
  File = {vn}
  MAXEND = 2
  t_flckrec = 4
  MemoryShort = TRUE
  Requests <- MCRequests
VIEW View
INVARIANTS
  RecordsOK
  ListsInOrder
  NoLostWakeup
  DeadlockRefused
PROPERTIES
  ImplementsFlockSpec
