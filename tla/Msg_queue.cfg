\* Three processes send to, receive from, limit and remove a queue whose id is used
\* again; two headers, three segments of text and a map that overflows.
SPECIFICATION Spec
CONSTANTS
  p = p
  q = q
  r = r
  NULL = NULL
  Proc = {p, q, r}
  Slot = {0}
  SeqMax = 0
  msgtql = 2
  msgseg = 3
  msgssz = 2
  msgmap = 3
  msgmnb = 5
  Calls <- MCCalls
SYMMETRY Symmetry
INVARIANTS
  TypeOK
  LockedQueueStays
  ResourcesAccounted
  NoLostWakeup
PROPERTIES
  ImplementsMsgSpec
