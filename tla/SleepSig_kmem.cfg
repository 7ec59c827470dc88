\* A child that sleeps, holds signals and exits; a parent that signals it, waits
\* for it, may catch SIGCLD and ignore SIGTSTP, and may exit first. kmem_alloc()
\* may have to wait for memory.
SPECIFICATION Spec
CONSTANTS
  a = a
  b = b
  NoProc = NoProc
  Procs = {a, b}
  Devs = {"d"}
  Sigs = {"KILL", "TSTP", "CONT", "CLD"}
  Buckets = {1}
  sqhash <- OneBucket
  Parent0 <- ParentIsB
  SysCalls <- FamilyCalls
  Disps = {"nostop"}
  KillSigs = {"KILL", "TSTP", "CONT"}
  IntrSigs <- NoSignals
  MayHold = {"TSTP"}
  MayCatch = {"CLD"}
  MayIgnore = {"TSTP"}
  PrSigs = {}
  PrMasks = {}
  RunOptions = {}
  WaitFor = {"CLD_EXITED", "CLD_STOPPED"}
  KmemSleeps = TRUE
INVARIANTS
  ThreadsOK
  NoLostSignal
  NoMissedChild
CHECK_DEADLOCK FALSE
