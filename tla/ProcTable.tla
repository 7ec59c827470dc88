----------------------------- MODULE ProcTable -----------------------------
(***************************************************************************)
(* The process table of the kernel, its sleep queues and its dispatcher    *)
(* queue, and the routines of os/slp.c, os/sig.c and disp/disp.c that      *)
(* change them without giving up the processor.  A value K of the record   *)
(* type below is one state of those tables; every routine is an operator   *)
(* from the tables before the call to the tables after it, so a routine    *)
(* that calls another is a composition.  SleepSig adds the processes.      *)
(*                                                                         *)
(* Abstractions: every process is loaded in memory (no swapper), there is  *)
(* one priority level, siginfo contents are left out (a queue entry is     *)
(* the number of its signal), ptrace(2), vfork and event traps are absent. *)
(***************************************************************************)
EXTENDS Integers, SequencesExt

CONSTANTS Procs,      \* the processes
          NoProc,     \* the null process; as a parent, init
          Devs,       \* channels on which system calls sleep
          Sigs,       \* the signals in use, named without their SIG prefix
          Buckets,    \* the entries of sleepq[]
          sqhash      \* the bucket of every channel

\* Addresses used as sleep channels: a device's, a process's own (wait), the
\* p_trace of a process (/proc) and the word kmem_alloc() waits on.
NoChan   == <<"none", NoProc>>
KmemChan == <<"kmem", NoProc>>
Chans    == {<<"dev", d>> : d \in Devs} \cup {<<"proc", p>> : p \in Procs}
              \cup {<<"trace", p>> : p \in Procs} \cup {KmemChan}

SignalNumber  == [KILL |-> 9, TERM |-> 15, CLD |-> 18, TSTP |-> 24, CONT |-> 25]
stopdefault   == {"TSTP"} \cap Sigs
ignoredefault == {"CONT", "CLD"} \cap Sigs
cantmask      == {"KILL"}

ASSUME ProcTableAssumption ==
    /\ NoProc \notin Procs
    /\ Sigs \subseteq DOMAIN SignalNumber
    /\ sqhash \in [Chans -> Buckets]

Stats    == {"SRUN", "SONPROC", "SSLEEP", "SSTOP", "SZOMB", "FREE"}
Flags    == {"SNWAKE", "SNOSTOP", "SASLEEP", "SPSTART", "SXSTART", "SPRSTOP",
             "SPROCIO"}
StopWhys == {"none", "PR_REQUESTED", "PR_JOBCONTROL", "PR_SIGNALLED", "PR_SYSENTRY"}
Wcodes   == {"none", "CLD_EXITED", "CLD_STOPPED", "CLD_CONTINUED"}

ProcRecord ==
    [stat : Stats, flag : SUBSET Flags, wchan : Chans \cup {NoChan},
     whystop : StopWhys, wcode : Wcodes, parent : Procs \cup {NoProc},
     sig : SUBSET Sigs,              \* p_sig, pending
     sigq : SUBSET Sigs,             \* signals with an entry on p_sigqueue
     cursig : Sigs \cup {"none"},    \* p_cursig, current
     hold : SUBSET Sigs, ignore : SUBSET Sigs, caught : SUBSET Sigs,
     sigmask : SUBSET Sigs,          \* signals traced through /proc
     abort : BOOLEAN,                \* u_sysabort
     evpend : BOOLEAN,               \* u_sigevpend
     entrystop : BOOLEAN]            \* u_systrap: stop on system call entry

Tables == [proc : [Procs -> ProcRecord],
           sleepq : [Buckets -> Seq(Procs)],
           dispq : Seq(Procs),
           cur : Procs \cup {NoProc}]

tracing(K, p, s) == s \in K.proc[p].sigmask
OnQueue(q, p)    == p \in ToSet(q)

\* What is in S of a queue, in order (SelectSeq() as a recursive function).
Those(q, S) ==
    LET those[i \in 0 .. Len(q)] ==
          IF i = 0 THEN <<>>
          ELSE IF q[i] \in S THEN Append(those[i - 1], q[i]) ELSE those[i - 1]
    IN those[Len(q)]

-----------------------------------------------------------------------------
\* disp.c: the queue of runnable processes

setbackdq(K, p)  == [K EXCEPT !.dispq = Append(@, p)]
setfrontdq(K, p) == [K EXCEPT !.dispq = <<p>> \o @]
dispdeq(K, p)    == [K EXCEPT !.dispq = RemoveFirst(@, p)]

\* The part of pswtch() that leaves the old process: a process that is still
\* SONPROC becomes SRUN, whether or not it is on the dispatcher queue.
LeaveProcessor(K, p) ==
    [K EXCEPT !.cur = NoProc,
              !.proc[p].stat = IF @ = "SONPROC" THEN "SRUN" ELSE @]

\* The part that enters the chosen one, and returns at spl0.
EnterProcessor(K, p) ==
    [K EXCEPT !.cur = p, !.proc[p].stat = "SONPROC",
              !.dispq = RemoveFirst(@, p)]

-----------------------------------------------------------------------------
\* slp.c: sleep queues

\* The start of sleep(): last on the queue of the channel's bucket.
QueueSleeper(K, p, chan) ==
    [K EXCEPT !.proc[p].stat = "SSLEEP", !.proc[p].wchan = chan,
              !.sleepq[sqhash[chan]] = Append(@, p)]

unsleep(K, p) ==
    IF K.proc[p].wchan = NoChan THEN K
    ELSE [K EXCEPT !.sleepq[sqhash[K.proc[p].wchan]] = RemoveFirst(@, p),
                   !.proc[p].wchan = NoChan]

WakeRecord(r) == [r EXCEPT !.wchan = NoChan,
                           !.stat = IF @ = "SSLEEP" THEN "SRUN" ELSE @]

wakeprocs(K, chan) ==
    LET queue   == K.sleepq[sqhash[chan]]
        woken   == {p \in ToSet(queue) : K.proc[p].wchan = chan}
        started == {p \in woken : K.proc[p].stat = "SSLEEP"}
    IN [K EXCEPT
          !.sleepq[sqhash[chan]] = Those(@, Procs \ woken),
          !.dispq = @ \o Those(queue, started),
          !.proc = [p \in Procs |-> IF p \in woken THEN WakeRecord(@[p]) ELSE @[p]]]

\* Mutated form: the process is left on its sleep queue.
setrunLinked(K, p) ==
    IF K.proc[p].stat = "SRUN" THEN K
    ELSE setbackdq([K EXCEPT !.proc[p].stat = "SRUN"], p)

setrun(K, p) ==
    LET off   == unsleep(K, p)
        start == {"SXSTART", "SPSTART"} \subseteq K.proc[p].flag
    IN CASE K.proc[p].stat = "SRUN" -> K
         [] K.proc[p].stat = "SSTOP" /\ ~start ->
              IF "SPSTART" \in K.proc[p].flag /\ K.proc[p].whystop = "PR_SIGNALLED"
                 /\ K.proc[p].parent # NoProc
              THEN wakeprocs(off, <<"proc", K.proc[p].parent>>)
              ELSE off
         [] OTHER ->
              setbackdq([off EXCEPT !.proc[p].stat = "SRUN",
                                    !.proc[p].whystop = "none",
                                    !.proc[p].wcode = IF K.proc[p].stat = "SSTOP"
                                                      THEN "none" ELSE @], p)

-----------------------------------------------------------------------------
\* sig.c: posting signals

\* Mutated form: the queue entries of cancelled signals stay.
CancelOppositeBits(K, p, s) ==
    CASE s = "CONT" ->
           LET cleared == [K EXCEPT !.proc[p].sig = @ \ stopdefault]
           IN IF K.proc[p].stat = "SSTOP" /\ K.proc[p].whystop = "PR_JOBCONTROL"
              THEN setrun([cleared EXCEPT !.proc[p].flag = @ \cup {"SXSTART"}], p)
              ELSE cleared
      [] s \in stopdefault -> [K EXCEPT !.proc[p].sig = @ \ {"CONT"}]
      [] OTHER -> K

\* The effect of SIGCONT and of stop signals on each other's pending bits.
CancelOpposite(K, p, s) ==
    CASE s = "CONT" ->
           LET cleared == [K EXCEPT !.proc[p].sigq = @ \ (stopdefault \cap K.proc[p].sig),
                                    !.proc[p].sig  = @ \ stopdefault]
           IN IF K.proc[p].stat = "SSTOP" /\ K.proc[p].whystop = "PR_JOBCONTROL"
              THEN setrun([cleared EXCEPT !.proc[p].flag = @ \cup {"SXSTART"}], p)
              ELSE cleared
      [] s \in stopdefault ->
           [K EXCEPT !.proc[p].sigq = @ \ {"CONT"}, !.proc[p].sig = @ \ {"CONT"}]
      [] OTHER -> K

\* Mutated forms: nobody is woken for a signal; a stopped process is not
\* started by SIGKILL; it is started by any signal.
NotifyRunning(K, p, s) ==
    IF K.cur = p THEN [K EXCEPT !.proc[p].evpend = TRUE] ELSE K

NotifySleeper(K, p, s) ==
    IF K.proc[p].stat = "SSLEEP" /\ "SNWAKE" \notin K.proc[p].flag
       /\ s \notin K.proc[p].hold
    THEN setrun(K, p) ELSE NotifyRunning(K, p, s)

NotifyStopped(K, p, s) ==
    IF K.proc[p].stat = "SSTOP"
    THEN setrun([K EXCEPT !.proc[p].flag = @ \cup {"SXSTART", "SPSTART"}], p)
    ELSE NotifySleeper(K, p, s)

\* What a process does about a signal that has just become pending.
Notify(K, p, s) ==
    LET r == K.proc[p]
    IN CASE r.stat = "SSLEEP" ->
              IF "SNWAKE" \in r.flag \/ s \in r.hold THEN K ELSE setrun(K, p)
         [] r.stat = "SSTOP" ->
              IF s = "KILL"
              THEN setrun([K EXCEPT !.proc[p].flag = @ \cup {"SXSTART", "SPSTART"}], p)
              ELSE IF r.wchan # NoChan /\ "SNWAKE" \notin r.flag
                   THEN unsleep(K, p) ELSE K
         [] OTHER ->
              IF K.cur = p THEN [K EXCEPT !.proc[p].evpend = TRUE] ELSE K

sigtoproc(K, p, s) ==
    LET c == CancelOpposite(K, p, s)
    IN IF ~tracing(c, p, s) /\ s \in c.proc[p].ignore THEN c
       ELSE Notify([c EXCEPT !.proc[p].sig = @ \cup {s}], p, s)

\* sigaddq() once kmem_alloc() has returned an entry: a signal that already
\* has an entry is not posted again.
sigaddqInsert(K, p, s) ==
    IF s \in K.proc[p].sigq THEN K
    ELSE sigtoproc([K EXCEPT !.proc[p].sigq = @ \cup {s}], p, s)

\* Does sigaddq() allocate an entry, so that it may sleep?
sigaddqAllocates(K, p, s) == tracing(K, p, s) \/ s \notin K.proc[p].ignore

sigaddq(K, p, s) ==
    IF sigaddqAllocates(K, p, s) THEN sigaddqInsert(K, p, s) ELSE sigtoproc(K, p, s)

-----------------------------------------------------------------------------
\* sig.c: telling the parent, and stopping

\* Mutated form: only those who sleep on the child itself are woken.
sigcldWakeOwn(K, p) == wakeprocs(K, <<"proc", p>>)

\* sigcld() up to its sigaddq(): wake those who wait for this child.
sigcldWake(K, p) ==
    LET own == wakeprocs(K, <<"proc", p>>)
    IN IF K.proc[p].wcode = "none" THEN K
       ELSE IF K.proc[p].parent = NoProc THEN own
       ELSE wakeprocs(own, <<"proc", K.proc[p].parent>>)

\* Does sigcld() go on to post SIGCLD with an entry to be allocated?
sigcldAllocates(K, p) ==
    /\ K.proc[p].wcode # "none"
    /\ "CLD" \in Sigs
    /\ K.proc[p].parent # NoProc
    /\ sigaddqAllocates(K, K.proc[p].parent, "CLD")

\* Mutated form: only a current SIGKILL counts.
CanStopCurrent(K, p) == K.proc[p].cursig # "KILL"

CanStop(K, p) == "KILL" \notin K.proc[p].sig \cup {K.proc[p].cursig}

\* Mutated form: debuggers that wait for the stop are not woken.
stopSilently(K, p, why) ==
    [dispdeq(K, p) EXCEPT !.proc[p].stat = "SSTOP", !.proc[p].whystop = why,
        !.proc[p].flag = IF why = "PR_JOBCONTROL"
                         THEN (@ \ {"SXSTART"}) \cup {"SPSTART"}
                         ELSE (@ \ {"SPSTART", "SPRSTOP"}) \cup {"SXSTART"},
        !.proc[p].wcode = IF why = "PR_JOBCONTROL" THEN "CLD_STOPPED" ELSE @]

\* stop() of a process that can be stopped, up to the sigaddq() that sigcld()
\* makes for a job control stop.
stop(K, p, why) ==
    LET halted  == [dispdeq(K, p) EXCEPT !.proc[p].stat = "SSTOP",
                                         !.proc[p].whystop = why]
        kept    == K.proc[p].flag \ {"SPSTART", "SXSTART"}
    IN IF why = "PR_JOBCONTROL"
       THEN sigcldWake([halted EXCEPT !.proc[p].flag = kept \cup {"SPSTART"},
                                      !.proc[p].wcode = "CLD_STOPPED"], p)
       ELSE wakeprocs([halted EXCEPT
                         !.proc[p].flag = (kept \cup {"SXSTART"}) \ {"SPRSTOP"}],
                      <<"trace", p>>)

\* fsig(): SIGKILL first, then the lowest numbered signal that is not held.
fsig(K, p) ==
    LET temp == K.proc[p].sig \ K.proc[p].hold
    IN IF temp = {} THEN "none"
       ELSE IF "KILL" \in temp THEN "KILL"
       ELSE CHOOSE s \in temp : \A o \in temp : SignalNumber[s] <= SignalNumber[o]
=============================================================================
