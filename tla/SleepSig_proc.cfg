\* b debugs a through /proc, while signals come from interrupts; PIOCSSIG may have
\* to wait for memory.
SPECIFICATION Spec
CONSTANTS
  a = a
  b = b
  NoProc = NoProc
  Procs = {a, b}
  Devs = {"d"}
  Sigs = {"KILL", "TSTP", "CONT"}
  Buckets = {1}
  sqhash <- OneBucket
  Parent0 <- NoParents
  SysCalls <- DebugCalls
  Disps = {"int", "nostop"}
  KillSigs = {}
  IntrSigs <- SignalsToA
  MayHold = {}
  MayCatch = {}
  MayIgnore = {}
  PrSigs = {"KILL", "TSTP", "none"}
  PrMasks = {{}, {"TSTP"}}
  RunOptions = {{}, {"PRCSIG"}, {"PRSTOP", "PRSABORT"}}
  WaitFor = {}
  KmemSleeps = TRUE
INVARIANTS
  QueuesOK
  NoLostSignal
  KillOverridesStop
  NoMissedStop
PROPERTIES
  StopHolds
CHECK_DEADLOCK FALSE
