---------------------------- MODULE MCSleepSig -----------------------------
(***************************************************************************)
(* Small instances of SleepSig.  Process a is the subject; b is its parent *)
(* or its debugger.  All channels hash to one bucket, so that a wakeup of  *)
(* one channel has to pass over the sleepers of others.                    *)
(***************************************************************************)
EXTENDS SleepSig

CONSTANTS a, b

OneBucket == [c \in Chans |-> 1]
NoParents == [p \in Procs |-> NoProc]
ParentIsB == [p \in Procs |-> IF p = a THEN b ELSE NoProc]

\* Signals posted from elsewhere at any moment: to nobody; to a debugged process.
NoSignals == [p \in Procs |-> {}]
SignalsToA == [p \in Procs |-> IF p = a THEN {"KILL", "TSTP", "CONT"} ELSE {}]

\* What the processes do in each family of runs.
JobCalls      == [p \in Procs |-> IF p = a THEN {"sleep", "exit"}
                                  ELSE {"wait", "kill", "sigaction", "exit"}]
FamilyCalls   == [p \in Procs |-> IF p = a THEN {"sleep", "sigprocmask", "exit"}
                                  ELSE {"wait", "kill", "sigaction", "exit"}]
DebugCalls    == [p \in Procs |-> IF p = a THEN {"sleep", "exit"} ELSE {"ioctl"}]
LiveCalls     == [p \in Procs |-> IF p = a THEN {"sleep", "exit"} ELSE {"wait", "kill"}]
=============================================================================
