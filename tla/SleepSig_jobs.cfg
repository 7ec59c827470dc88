\* A parent signals, stops and continues its child, and waits for it:
\* every signalled process dies and every zombie is reaped, under fairness.
SPECIFICATION FairSpec
CONSTANTS
  a = a
  b = b
  NoProc = NoProc
  Procs = {a, b}
  Devs = {"d"}
  Sigs = {"KILL", "TSTP", "CONT"}
  Buckets = {1}
  sqhash <- OneBucket
  Parent0 <- ParentIsB
  SysCalls <- LiveCalls
  Disps = {"int", "nwake"}
  KillSigs = {"KILL", "TSTP", "CONT"}
  IntrSigs <- NoSignals
  MayHold = {}
  MayCatch = {}
  MayIgnore = {}
  PrSigs = {}
  PrMasks = {}
  RunOptions = {}
  WaitFor = {"CLD_EXITED", "CLD_STOPPED"}
  KmemSleeps = FALSE
INVARIANTS
  QueuedIsPending
PROPERTIES
  KillIsFatal
  ZombieIsReaped
CHECK_DEADLOCK FALSE
