\* Two processes, one of which gets signals, on a queue that is full with one message.
SPECIFICATION FairSpec
CONSTANTS
  p1 = p1
  p2 = p2
  NoProc = NoProc
  Procs = {p1, p2}
  hiwat = 1
  lowat = 0
  Writes <- MCWrites
  Signalled = {p1}
  rmax = 2
  IocSize = 1
  Requests <- MCRequests
  IocIds = {1, 2}
  MaxIrqs = 2
  Unattended = FALSE
INVARIANTS
  StreamOK
  NoLostWakeup
  OutputMoves
PROPERTIES
  ImplementsLpSpec
  CallReturns
