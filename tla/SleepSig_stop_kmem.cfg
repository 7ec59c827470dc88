\* stop() may sleep for memory in sigcld() after it has set SSTOP: b catches
\* SIGCLD and memory is short.  setrun() takes it that a process in state SRUN
\* is on the dispatcher queue.
SPECIFICATION Spec
CONSTANTS
  a = a
  b = b
  NoProc = NoProc
  Procs = {a, b}
  Devs = {"d"}
  Sigs = {"KILL", "TSTP", "CONT", "CLD"}
  Buckets = {1}
  sqhash <- OneBucket
  Parent0 <- ParentIsB
  SysCalls <- JobCalls
  Disps = {"nwake"}
  KillSigs = {"TSTP", "CONT"}
  IntrSigs <- NoSignals
  MayHold = {}
  MayCatch = {"CLD"}
  MayIgnore = {}
  PrSigs = {}
  PrMasks = {}
  RunOptions = {}
  WaitFor = {"CLD_EXITED", "CLD_STOPPED"}
  KmemSleeps = TRUE
INVARIANTS
  RunnableIsQueued
CHECK_DEADLOCK FALSE
