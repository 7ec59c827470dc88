----------------------------- MODULE SleepSig ------------------------------
(***************************************************************************)
(* Processes that sleep, are woken, signalled, stopped, continued, traced  *)
(* through /proc, waited for and killed: sleep() of os/slp.c, issig(),     *)
(* psig() and stop() of os/sig.c, exit() and waitid() of os/exit.c, the    *)
(* /proc operations that stop and start a process, and the dispatcher.     *)
(*                                                                         *)
(* The kernel runs on one processor and a process in the kernel keeps it   *)
(* until it calls swtch() or preempt(); a step of the model is what a      *)
(* process does between two points where it can lose the processor or      *)
(* take an interrupt.  Interrupts post signals and wake sleepers whenever  *)
(* the running process is not at splhi.                                    *)
(***************************************************************************)
EXTENDS ProcTable

CONSTANTS Parent0,    \* the parent of each process at the start
          SysCalls,   \* what each process may do in the kernel
          Disps,      \* kinds of sleep: "int", "nostop", "nwake"
          KillSigs,   \* signals sent by kill(2) or PIOCKILL
          IntrSigs,   \* signals posted to each process from interrupt level
          MayHold, MayCatch, MayIgnore,  \* what a process does with its signals
          PrSigs,     \* signals of PIOCSSIG and PIOCUNKILL; "none" clears
          PrMasks,    \* signal sets of PIOCSTRACE
          RunOptions, \* option sets of PIOCRUN
          WaitFor,    \* the wcodes that waitid() is asked for
          KmemSleeps  \* may kmem_alloc(KM_SLEEP) find no memory?

VARIABLES k,          \* the tables of ProcTable
          thr,        \* where each process is in the kernel
          hi          \* is the running process at splhi?

vars == <<k, thr, hi>>

Threads == [pc : {"user", "trapret", "trapsig", "sysent", "kernel", "issig", "cursig", "fsig", "jobcont",
                  "asleep", "nwake", "kmem", "psig", "waitid", "wstop",
                  "exit0", "exit1", "exit2", "dead"},
            ctx : {"pre", "post", "trap"},      \* the caller of issig()
            ret : {"kernel", "waitid", "wstop", "exit2"},   \* of sleep()
            inner : {"kill", "stop", "cont", "exit", "ssig"},  \* of kmem_alloc(), in "kmem"
            tgt : Procs \cup {NoProc},          \* the process acted upon
            sg : Sigs \cup {"none"}]            \* the signal being sent

SleepSigAssumption ==
    /\ IsFiniteSet(Procs)
    /\ Parent0 \in [Procs -> Procs \cup {NoProc}]
    /\ KmemSleeps \in BOOLEAN
    /\ IntrSigs \in [Procs -> SUBSET Sigs]
    /\ KillSigs \cup MayHold \cup MayCatch \cup MayIgnore \subseteq Sigs
    /\ PrSigs \subseteq Sigs \cup {"none"} /\ PrMasks \subseteq SUBSET Sigs
    /\ WaitFor \subseteq Wcodes \ {"none"}
    /\ cantmask \cap (MayHold \cup MayCatch \cup MayIgnore) = {}
ASSUME SleepSigAssumption

TypeOK == k \in Tables /\ thr \in [Procs -> Threads] /\ hi \in BOOLEAN

Init ==
    /\ k = [proc |-> [p \in Procs |->
                [stat |-> "SRUN", flag |-> {}, wchan |-> NoChan, whystop |-> "none",
                 wcode |-> "none", parent |-> Parent0[p], sig |-> {}, sigq |-> {},
                 cursig |-> "none", hold |-> {}, ignore |-> ignoredefault,
                 caught |-> {}, sigmask |-> {}, abort |-> FALSE, evpend |-> FALSE,
                 entrystop |-> FALSE]],
            sleepq |-> [b \in Buckets |-> <<>>],
            dispq |-> SetToSeq(Procs),
            cur |-> NoProc]
    /\ thr = [p \in Procs |-> [pc |-> "trapsig", ctx |-> "trap", ret |-> "kernel",
                               inner |-> "kill", tgt |-> NoProc, sg |-> "none"]]
    /\ hi = FALSE

-----------------------------------------------------------------------------
At(p, pc)     == k.cur = p /\ thr[p].pc = pc
Rec(p)        == k.proc[p]
Goto(p, pc)   == thr' = [thr EXCEPT ![p].pc = pc]
InSysCall(p)  == At(p, "sysent") \/ At(p, "kernel")
Begins(p, call) == At(p, "sysent") /\ call \in SysCalls[p] /\ ~k.proc[p].abort
Does(p, call)   == InSysCall(p) /\ call \in SysCalls[p] /\ ~k.proc[p].abort
Live(p)       == Rec(p).stat \notin {"SZOMB", "FREE"}

\* The ISSIG() macro: is issig() worth calling?
WorthLooking(r) == r.cursig # "none" \/ r.sig # {} \/ "SPRSTOP" \in r.flag
Justlooking(p)  == thr[p].ctx # "trap" /\ "SNOSTOP" \in Rec(p).flag

\* Mutated form: sleep() does not look at signals before it waits.
SleepBlind(p, K, chan, disp, ret) ==
    /\ k' = LeaveProcessor([QueueSleeper(K, p, chan) EXCEPT
             !.proc[p].flag = @ \cup (IF disp = "nwake" THEN {"SNWAKE"} ELSE
                                      IF disp = "nostop" THEN {"SNOSTOP"} ELSE {})], p)
    /\ thr' = [thr EXCEPT ![p].pc = IF disp = "nwake" THEN "nwake" ELSE "asleep",
                          ![p].ret = ret]
    /\ hi' = FALSE

\* sleep(chan, disp), called with the tables K; ret is where it returns to.
Sleep(p, K, chan, disp, ret) ==
    LET queued == QueueSleeper(K, p, chan)
        looked == [queued EXCEPT
                     !.proc[p].flag = (@ \ {"SNWAKE", "SNOSTOP"}) \cup {"SASLEEP"}
                          \cup (IF disp = "nostop" THEN {"SNOSTOP"} ELSE {}),
                     !.proc[p].abort = FALSE]
    IN CASE disp = "nwake" ->
              /\ k' = LeaveProcessor([queued EXCEPT !.proc[p].flag = @ \cup {"SNWAKE"}], p)
              /\ thr' = [thr EXCEPT ![p].pc = "nwake", ![p].ret = ret]
              /\ hi' = FALSE
         [] disp # "nwake" /\ WorthLooking(looked.proc[p]) ->
              /\ k' = [looked EXCEPT !.proc[p].evpend = FALSE]
              /\ thr' = [thr EXCEPT ![p].pc = "issig", ![p].ctx = "pre", ![p].ret = ret]
              /\ hi' = TRUE
         [] OTHER ->
              /\ k' = LeaveProcessor([looked EXCEPT !.proc[p].flag = @ \ {"SASLEEP"}], p)
              /\ thr' = [thr EXCEPT ![p].pc = "asleep", ![p].ret = ret]
              /\ hi' = FALSE

\* The two ends of sleep(): the return of 0, and the return of 1 or longjmp.
SleepOut(p, K) ==
    /\ k' = [K EXCEPT !.proc[p].flag = @ \ {"SNWAKE", "SNOSTOP", "SASLEEP"}]
    /\ Goto(p, thr[p].ret)
    /\ hi' = FALSE

SleepPsig(p, K) ==
    /\ k' = [K EXCEPT !.proc[p].flag = @ \ {"SNOSTOP", "SASLEEP"}]
    /\ Goto(p, IF thr[p].ret = "exit2" THEN "exit2" ELSE "trapret")
    /\ hi' = FALSE

\* issig() returns to its caller: the two calls in sleep(), or trap return.
IssigReturn(p, K, found) ==
    LET r     == K.proc[p]
        clear == [K EXCEPT !.proc[p].abort = FALSE]
    IN CASE thr[p].ctx = "trap" ->
              k' = K /\ Goto(p, IF found THEN "psig" ELSE "user") /\ hi' = FALSE
         [] thr[p].ctx = "post" ->
              IF found \/ r.abort THEN SleepPsig(p, clear) ELSE SleepOut(p, K)
         [] thr[p].ctx = "pre" /\ (found \/ r.abort) ->
              SleepPsig(p, IF r.stat = "SSLEEP"
                           THEN [unsleep(clear, p) EXCEPT !.proc[p].stat = "SONPROC"]
                           ELSE clear)
         [] thr[p].ctx = "pre" /\ ~(found \/ r.abort) ->
              IF r.wchan = NoChan THEN SleepOut(p, K)
              ELSE /\ k' = LeaveProcessor([K EXCEPT !.proc[p].flag = @ \ {"SASLEEP"}], p)
                   /\ Goto(p, "asleep")
                   /\ hi' = FALSE

Step(p, K, pc)  == k' = K /\ Goto(p, pc) /\ UNCHANGED hi
Yield(p, K, pc) == k' = LeaveProcessor(K, p) /\ Goto(p, pc) /\ hi' = FALSE

\* The wait for memory inside sigaddq() or PIOCSSIG, at uninterruptible priority.
\* It is a call of sleep() wherever the process happens to be.
KmemSleep(p, K, inner, target, s) ==
    /\ KmemSleeps
    /\ k' = LeaveProcessor([QueueSleeper(K, p, KmemChan) EXCEPT
                              !.proc[p].flag = @ \cup {"SNWAKE"}], p)
    /\ thr' = [thr EXCEPT ![p].pc = "kmem", ![p].inner = inner,
                          ![p].tgt = target, ![p].sg = s]
    /\ hi' = FALSE

\* sigcld() when its sigaddq() does not sleep.
sigcldPost(K, p) ==
    IF sigcldAllocates(K, p) THEN sigaddqInsert(K, K.proc[p].parent, "CLD") ELSE K

-----------------------------------------------------------------------------
\* issig(), one turn of its loops at a time

StopRequested(p) ==
    /\ thr[p].pc = "issig"
    /\ ~Justlooking(p)
    /\ "SPRSTOP" \in Rec(p).flag
    /\ CanStop(k, p)

IssigRequested(p) ==
    /\ At(p, "issig")
    /\ StopRequested(p)
    /\ Yield(p, stop(k, p, "PR_REQUESTED"), "cursig")

AtCursig(p) == At(p, "cursig") \/ (At(p, "issig") /\ ~StopRequested(p))

IsJobStop(p, s) == s \in stopdefault /\ s \notin Rec(p).caught

\* A current signal: return it, drop it, or stop for it.
IssigCurrent(p) ==
    LET s     == Rec(p).cursig
        taken == [k EXCEPT !.proc[p].cursig = "none"]
    IN /\ AtCursig(p)
       /\ s # "none"
       /\ IF Justlooking(p) THEN IssigReturn(p, k, TRUE)
          ELSE IF s \in Rec(p).ignore THEN Step(p, taken, "issig")
          ELSE IF ~IsJobStop(p, s) THEN IssigReturn(p, k, TRUE)
          ELSE IF "CONT" \in Rec(p).sig
          THEN Step(p, [taken EXCEPT !.proc[p].sig = @ \ {"CONT"},
                                     !.proc[p].sigq = @ \ {"CONT"}], "issig")
          ELSE IF ~CanStop(taken, p) THEN Step(p, taken, "jobcont")
          ELSE LET halted == stop(taken, p, "PR_JOBCONTROL")
               IN \/ Yield(p, sigcldPost(halted, p), "jobcont")
                  \/ /\ sigcldAllocates(halted, p)
                     /\ KmemSleep(p, halted, "stop", Rec(p).parent, "CLD")

\* isjobstop() after the stop, or after stop() has refused.
JobContinued(p) ==
    LET told == sigcldWake([k EXCEPT !.proc[p].wcode = "CLD_CONTINUED"], p)
    IN /\ At(p, "jobcont")
       /\ \/ Step(p, sigcldPost(told, p), "issig")
          \/ /\ sigcldAllocates(told, p)
             /\ KmemSleep(p, told, "cont", Rec(p).parent, "CLD")

\* No current signal: look for a pending one and promote it.
IssigPending(p) ==
    LET s        == fsig(k, p)
        dropped  == [k EXCEPT !.proc[p].sig = @ \ {s}, !.proc[p].sigq = @ \ {s}]
        promoted == [dropped EXCEPT !.proc[p].cursig = s]
    IN /\ At(p, "fsig") \/ (AtCursig(p) /\ Rec(p).cursig = "none")
       /\ IF s = "none" THEN IssigReturn(p, k, FALSE)
          ELSE IF ~tracing(k, p, s) /\ s \in Rec(p).ignore
          THEN Step(p, dropped, "fsig")
          ELSE IF Justlooking(p) THEN IssigReturn(p, k, TRUE)
          ELSE IF tracing(k, p, s) /\ CanStop(promoted, p)
          THEN Yield(p, stop(promoted, p, "PR_SIGNALLED"), "issig")
          ELSE Step(p, promoted, "issig")

-----------------------------------------------------------------------------
\* The processor

\* A process that is locked through /proc is passed over (disp.c:272).
Dispatch(p) ==
    /\ k.cur = NoProc
    /\ OnQueue(k.dispq, p)
    /\ "SPROCIO" \notin Rec(p).flag
    /\ k' = EnterProcessor(k, p)
    /\ hi' = FALSE
    /\ UNCHANGED thr

\* preempt(), before the signals are looked at on the way to user mode, or
\* at a PREEMPT() point of a system call.
Preempt(p) ==
    /\ At(p, "trapret") \/ At(p, "kernel")
    /\ LET after == IF thr[p].pc = "trapret" THEN "trapsig" ELSE "kernel"
       IN \/ Yield(p, setbackdq(k, p), after)
          \/ Yield(p, setfrontdq(k, p), after)

\* An interrupt or a fault in user mode, taken when a signal was posted to
\* the process or the processor is wanted.
Trap(p) == At(p, "user") /\ Step(p, k, "trapret")

\* s_trap(), and the ends of trap() and systrap().
TrapReturn(p) ==
    /\ At(p, "trapret") \/ At(p, "trapsig")
    /\ k' = [k EXCEPT !.proc[p].evpend = FALSE]
    /\ thr' = IF WorthLooking(Rec(p))
              THEN [thr EXCEPT ![p].pc = "issig", ![p].ctx = "trap"]
              ELSE [thr EXCEPT ![p].pc = "user", ![p].ctx = "trap"]
    /\ UNCHANGED hi

\* Mutated form: p_cursig is not cleared.
psigKeeps(p) ==
    /\ At(p, "psig")
    /\ IF Rec(p).cursig \in Rec(p).caught
       THEN Step(p, [k EXCEPT !.proc[p].hold = @ \cup {Rec(p).cursig}], "user")
       ELSE Step(p, k, "exit0")

psig(p) ==
    LET s == IF "KILL" \in Rec(p).sig THEN "KILL" ELSE Rec(p).cursig
        K == [k EXCEPT !.proc[p].cursig = "none"]
    IN /\ At(p, "psig")
       /\ IF s \in Rec(p).caught
          THEN Step(p, [K EXCEPT !.proc[p].hold = @ \cup {s}], "user")
          ELSE Step(p, K, "exit0")

\* Entry to a system call, with the stop /proc may have asked for.
SysEntry(p) ==
    LET K == [k EXCEPT !.proc[p].abort = FALSE]
    IN /\ At(p, "user")
       /\ ~Rec(p).evpend
       /\ IF Rec(p).entrystop /\ CanStop(K, p)
          THEN Yield(p, stop(K, p, "PR_SYSENTRY"), "sysent")
          ELSE Step(p, K, "sysent")

\* A system call ends, or was aborted by the debugger before it began.
SysReturn(p) == InSysCall(p) /\ Step(p, [k EXCEPT !.proc[p].abort = FALSE], "trapret")

\* Back from swtch() in sleep(), interruptible and not.
Resume(p) ==
    LET r == [Rec(p) EXCEPT !.flag = @ \cup {"SASLEEP"}]
        K == [k EXCEPT !.proc[p] = r]
    IN /\ At(p, "asleep")
       /\ IF r.abort THEN SleepPsig(p, [K EXCEPT !.proc[p].abort = FALSE])
          ELSE IF WorthLooking(r)
          THEN /\ k' = [K EXCEPT !.proc[p].evpend = FALSE]
               /\ thr' = [thr EXCEPT ![p].pc = "issig", ![p].ctx = "post"]
               /\ UNCHANGED hi
          ELSE SleepOut(p, K)

ResumeNwake(p) == At(p, "nwake") /\ SleepOut(p, k)

\* The rest of PIOCSSIG: a process that has got a current signal is started, if it
\* sleeps or if it is stopped and the signal is SIGKILL.  Mutated form: only then.
PIOCSSIGStartStopped(K, t) ==
    LET r == K.proc[t]
    IN IF r.stat = "SSTOP" /\ r.cursig = "KILL"
       THEN setrun([K EXCEPT !.proc[t].flag = @ \cup {"SXSTART", "SPSTART"}], t)
       ELSE K

PIOCSSIGStart(K, t) ==
    LET r == K.proc[t]
    IN IF r.stat = "SSLEEP" /\ r.flag \cap {"SNWAKE", "SNOSTOP"} = {} THEN setrun(K, t)
       ELSE IF r.stat = "SSTOP" /\ r.cursig = "KILL"
       THEN setrun([K EXCEPT !.proc[t].flag = @ \cup {"SXSTART", "SPSTART"}], t)
       ELSE K

\* Back from the wait for memory: post, or start the process that PIOCSSIG has locked, and
\* go on as the caller does.
ResumeKmem(p) ==
    LET awake  == [k EXCEPT !.proc[p].flag = @ \ {"SNWAKE", "SNOSTOP", "SASLEEP"}]
        posted == sigaddqInsert(awake, thr[p].tgt, thr[p].sg)
        unlocked == [awake EXCEPT !.proc[thr[p].tgt].flag = @ \ {"SPROCIO"}]
    IN /\ At(p, "kmem")
       /\ CASE thr[p].inner = "kill" -> Step(p, posted, "kernel")
            [] thr[p].inner = "stop" -> Yield(p, posted, "jobcont")
            [] thr[p].inner = "cont" -> Step(p, posted, "issig")
            [] thr[p].inner = "exit" -> Yield(p, posted, "dead")
            [] thr[p].inner = "ssig" -> Step(p, PIOCSSIGStart(unlocked, thr[p].tgt), "kernel")

-----------------------------------------------------------------------------
\* System calls

SleepCall(p) ==
    /\ Does(p, "sleep")
    /\ \E d \in Devs, disp \in Disps : Sleep(p, k, <<"dev", d>>, disp, "kernel")

Kill(p) ==
    /\ Does(p, "kill")
    /\ \E t \in Procs, s \in KillSigs :
         /\ Rec(t).stat # "FREE"
         /\ \/ Step(p, sigaddq(k, t, s), "kernel")
            \/ sigaddqAllocates(k, t, s) /\ KmemSleep(p, k, "kill", t, s)

\* Signal s is ignored from now on, and dropped if it is pending.
Ignores(r, s) == [r EXCEPT !.caught = @ \ {s}, !.ignore = @ \cup {s},
                           !.sig = @ \ {s}, !.sigq = @ \ {s}]

\* setsigact(): catch, ignore, or restore the default.
SetSigact(p) ==
    /\ Does(p, "sigaction")
    /\ \/ \E s \in MayCatch :
            Step(p, [k EXCEPT !.proc[p].caught = @ \cup {s},
                              !.proc[p].ignore = @ \ {s}], "kernel")
       \/ \E s \in MayIgnore \cup (ignoredefault \cap Rec(p).caught) :
            Step(p, [k EXCEPT !.proc[p] = Ignores(@, s)], "kernel")
       \/ \E s \in (MayCatch \cup MayIgnore) \ ignoredefault :
            Step(p, [k EXCEPT !.proc[p].caught = @ \ {s},
                              !.proc[p].ignore = @ \ {s}], "kernel")

\* sigprocmask(2), and the mask restored when a handler returns.
SetHold(p) ==
    /\ Does(p, "sigprocmask")
    /\ \E held \in SUBSET MayHold : Step(p, [k EXCEPT !.proc[p].hold = held], "kernel")

StartWait(p) == Begins(p, "wait") /\ Step(p, k, "waitid")

Children(K, p) == {c \in Procs : K.proc[c].parent = p /\ K.proc[c].stat # "FREE"}

\* One turn of the loop of waitid(P_ALL).
Waitid(p) ==
    LET ready == {c \in Children(k, p) : Rec(c).wcode \in WaitFor}
    IN /\ At(p, "waitid")
       /\ IF Children(k, p) = {} THEN Step(p, k, "kernel")
          ELSE IF ready = {} THEN Sleep(p, k, <<"proc", p>>, "int", "waitid")
          ELSE \E c \in ready :
                 Step(p, [k EXCEPT !.proc[c].wcode = "none",
                                   !.proc[c].stat = IF Rec(c).wcode = "CLD_EXITED"
                                                    THEN "FREE" ELSE @], "kernel")

-----------------------------------------------------------------------------
\* exit()

StartExit(p) == Begins(p, "exit") /\ Step(p, k, "exit0")

\* Signals are turned off for good.
ExitSignals(p) ==
    /\ At(p, "exit0")
    /\ Step(p, [k EXCEPT !.proc[p].ignore = Sigs, !.proc[p].sig = {},
                         !.proc[p].sigq = {}, !.proc[p].sigmask = {}], "exit1")

\* closeall(), relvm(): the process may sleep, or be preempted, on its way out.
ExitRelease(p) ==
    /\ At(p, "exit1")
    /\ \/ \E d \in Devs, disp \in Disps \ {"nostop"} : Sleep(p, k, <<"dev", d>>, disp, "exit2")
       \/ Step(p, k, "exit2")
       \/ Yield(p, setbackdq(k, p), "exit2")

ExitZombie(p) ==
    LET orphaned == [k EXCEPT !.proc = [c \in Procs |->
                       IF Rec(c).parent = p THEN [Rec(c) EXCEPT !.parent = NoProc] ELSE Rec(c)]]
        zombie   == wakeprocs([orphaned EXCEPT !.proc[p].stat = "SZOMB",
                                               !.proc[p].wcode = "CLD_EXITED"],
                              <<"trace", p>>)
        told     == sigcldWake(zombie, p)
    IN /\ At(p, "exit2")
       /\ \/ Yield(p, sigcldPost(told, p), "dead")
          \/ /\ sigcldAllocates(told, p)
             /\ KmemSleep(p, told, "exit", Rec(p).parent, "CLD")

-----------------------------------------------------------------------------
\* /proc: ioctl()s of a debugger on a process that has not exited

Ioctl(d, t) == Does(d, "ioctl") /\ t # d /\ Live(t)

\* Every operation but PIOCSTOP and PIOCWSTOP takes the lock of /proc, with prlock(), and
\* SPROCIO keeps its process from running.  Only PIOCSSIG can sleep with the lock.
IoctlLocked(d, t) == Ioctl(d, t) /\ \A p \in Procs : "SPROCIO" \notin Rec(p).flag

PIOCSTOP(d, t) ==
    LET r == Rec(t)
        K == IF r.stat = "SSLEEP" /\ r.flag \cap {"SNWAKE", "SNOSTOP"} = {} /\ CanStop(k, t)
             THEN [stop(k, t, "PR_REQUESTED") EXCEPT !.proc[t].flag = @ \cup {"SASLEEP"}]
             ELSE IF r.stat # "SSTOP" \/ "SPSTART" \in r.flag
             THEN [k EXCEPT !.proc[t].flag = @ \cup {"SPRSTOP"}]
             ELSE k
    IN /\ Ioctl(d, t)
       /\ k' = K
       /\ thr' = [thr EXCEPT ![d].pc = "wstop", ![d].tgt = t]
       /\ UNCHANGED hi

\* PIOCWSTOP on its own, and one turn of its loop.
StartWstop(d, t) ==
    /\ Ioctl(d, t)
    /\ thr' = [thr EXCEPT ![d].pc = "wstop", ![d].tgt = t]
    /\ UNCHANGED <<k, hi>>

StoppedByProc(r) == r.stat = "SSTOP" /\ "SPSTART" \notin r.flag

PIOCWSTOP(d) ==
    /\ At(d, "wstop")
    /\ IF Live(thr[d].tgt) /\ ~StoppedByProc(Rec(thr[d].tgt))
       THEN Sleep(d, k, <<"trace", thr[d].tgt>>, "int", "wstop")
       ELSE Step(d, k, "kernel")

Continued(r, opts) ==
    [r EXCEPT !.abort  = @ \/ "PRSABORT" \in opts,
              !.cursig = IF "PRCSIG" \in opts /\ @ # "KILL" THEN "none" ELSE @,
              !.flag   = @ \cup {"SPSTART"} \cup
                         (IF "PRSTOP" \in opts THEN {"SPRSTOP"} ELSE {})]

PIOCRUN(d, t) ==
    /\ IoctlLocked(d, t)
    /\ StoppedByProc(Rec(t))
    /\ \E opts \in RunOptions :
         Step(d, setrun([k EXCEPT !.proc[t] = Continued(@, opts)], t), "kernel")

\* PIOCSSIG.  Whether there is a p_curinfo already is left open: only if there is none
\* does the debugger ask for memory, and sleep with the process locked.
PIOCSSIG(d, t) ==
    /\ IoctlLocked(d, t)
    /\ Rec(t).cursig # "KILL"
    /\ \E s \in PrSigs :
         LET set == [k EXCEPT !.proc[t].cursig = s]
         IN IF s = "none" THEN Step(d, set, "kernel")
            ELSE \/ Step(d, PIOCSSIGStart(set, t), "kernel")
                 \/ KmemSleep(d, [set EXCEPT !.proc[t].flag = @ \cup {"SPROCIO"}],
                              "ssig", t, s)

PIOCUNKILL(d, t) ==
    /\ IoctlLocked(d, t)
    /\ \E s \in PrSigs \ {"KILL", "none"} :
         Step(d, [k EXCEPT !.proc[t].sig = @ \ {s}, !.proc[t].sigq = @ \ {s}], "kernel")

PIOCSTRACE(d, t) ==
    /\ IoctlLocked(d, t)
    /\ \E mask \in PrMasks : Step(d, [k EXCEPT !.proc[t].sigmask = mask \ {"KILL"}], "kernel")

PIOCSENTRY(d, t) ==
    IoctlLocked(d, t) /\ \E b \in BOOLEAN : Step(d, [k EXCEPT !.proc[t].entrystop = b], "kernel")

\* The last close of a writable /proc descriptor, with run-on-last-close set.
prclose(d, t) ==
    LET K == [k EXCEPT !.proc[t].sigmask = {}, !.proc[t].entrystop = FALSE,
                       !.proc[t].flag = @ \ {"SPRSTOP"}]
    IN /\ IoctlLocked(d, t)
       /\ Step(d, IF StoppedByProc(Rec(t))
                  THEN setrun([K EXCEPT !.proc[t].flag = @ \cup {"SPSTART"}], t)
                  ELSE K, "kernel")

-----------------------------------------------------------------------------
\* Interrupts

InterruptsOn == k.cur = NoProc \/ ~hi

\* A device, or the return of memory, wakes the sleepers of a channel.
DevIntr(chan) ==
    /\ InterruptsOn
    /\ \E p \in Procs : Rec(p).wchan = chan
    /\ k' = wakeprocs(k, chan)
    /\ UNCHANGED <<thr, hi>>

SignalIntr(p, s) ==
    /\ InterruptsOn
    /\ Rec(p).stat # "FREE"
    /\ k' = sigtoproc(k, p, s)
    /\ UNCHANGED <<thr, hi>>

ProcOp(d, t) ==
    \/ PIOCSTOP(d, t) \/ StartWstop(d, t) \/ PIOCRUN(d, t) \/ PIOCSSIG(d, t)
    \/ PIOCUNKILL(d, t) \/ PIOCSTRACE(d, t) \/ PIOCSENTRY(d, t) \/ prclose(d, t)

\* What a process must do next, and what it may choose to do.
Forced(p) ==
    \/ IssigRequested(p) \/ IssigCurrent(p) \/ JobContinued(p) \/ IssigPending(p)
    \/ TrapReturn(p) \/ psig(p) \/ Resume(p) \/ ResumeNwake(p) \/ ResumeKmem(p)
    \/ Waitid(p) \/ PIOCWSTOP(p)
    \/ ExitSignals(p) \/ ExitRelease(p) \/ ExitZombie(p)
    \/ Trap(p) \/ SysReturn(p)

Chosen(p) ==
    \/ Preempt(p) \/ SysEntry(p) \/ SleepCall(p) \/ Kill(p) \/ SetSigact(p)
    \/ SetHold(p) \/ StartWait(p) \/ StartExit(p)
    \/ \E t \in Procs : ProcOp(p, t)

Interrupt ==
    \/ \E d \in Devs : DevIntr(<<"dev", d>>)
    \/ DevIntr(KmemChan)
    \/ \E p \in Procs : \E s \in IntrSigs[p] : SignalIntr(p, s)

Next ==
    \/ \E p \in Procs : Forced(p) \/ Chosen(p) \/ Dispatch(p)
    \/ Interrupt

Spec == Init /\ [][Next]_vars

-----------------------------------------------------------------------------
(***************************************************************************)
(* Safety.                                                                 *)
(***************************************************************************)

NoDuplicates(q) == \A i, j \in DOMAIN q : q[i] = q[j] => i = j

\* A process is on exactly one sleep queue, the one its p_wchan hashes to,
\* while p_wchan is set and on none otherwise; whoever is found on a sleep
\* queue is asleep or stopped, as wakeprocs() asserts (slp.c:290), and
\* unsleep() always finds the process it looks for (slp.c:235).
SleepQueuesOK ==
    /\ \A b \in Buckets : NoDuplicates(k.sleepq[b])
    /\ \A p \in Procs, b \in Buckets :
         OnQueue(k.sleepq[b], p) <=> Rec(p).wchan # NoChan /\ sqhash[Rec(p).wchan] = b
    /\ \A p \in Procs : Rec(p).wchan # NoChan => Rec(p).stat \in {"SSLEEP", "SSTOP"}

\* Every process in state SRUN is on the dispatcher queue, once, so that it
\* can be chosen: setrun() relies on it when it returns without doing
\* anything for such a process (slp.c:376-382).
RunnableIsQueued ==
    /\ NoDuplicates(k.dispq)
    /\ \A p \in Procs : Rec(p).stat = "SRUN" => OnQueue(k.dispq, p)

\* Whatever pswtch() takes from the dispatcher queue is in state SRUN, and
\* the running process is never queued behind itself (disp.c:271).
QueuedIsRunnable ==
    \A p \in Procs : OnQueue(k.dispq, p) => Rec(p).stat = "SRUN" /\ k.cur # p

\* The queues agree with the states of the processes and with p_wchan.  Not
\* so while stop() waits for memory: see sleepsig_stop_kmem.
QueuesOK == SleepQueuesOK /\ RunnableIsQueued /\ QueuedIsRunnable

\* No signal is lost between the look at the pending signals and the wait: a process
\* that waits at interruptible priority has no unheld signal pending and, unless it must
\* not be stopped, no current signal and no stop request (sigtoproc(), PIOCSTOP, PIOCSSIG
\* against sleep(), slp.c:140-177).  While PIOCSSIG has it locked (SPROCIO) it may have a
\* current signal already: the start is still to come (prioctl.c:325-349).
InterruptibleSleep(p) == thr[p].pc = "asleep" /\ Rec(p).stat = "SSLEEP"

NoLostSignal ==
    \A p \in Procs : InterruptibleSleep(p) =>
        /\ fsig(k, p) = "none"
        /\ {"SNOSTOP", "SPROCIO"} \cap Rec(p).flag = {} =>
             Rec(p).cursig = "none" /\ "SPRSTOP" \notin Rec(p).flag

\* A process with SIGKILL pending is not stopped and is not waiting at interruptible
\* priority: whatever it was doing it is on its way to exit() (stop(), sigtoproc();
\* sig.c:362-369).  So with SIGKILL current, as soon as PIOCSSIG has unlocked the process,
\* but for a sleep that must not be stopped, which PIOCSSIG lets go on (prioctl.c:349-360).
KillOverridesStop ==
    \A p \in Procs :
        /\ "KILL" \in Rec(p).sig => Rec(p).stat # "SSTOP" /\ ~InterruptibleSleep(p)
        /\ Rec(p).cursig = "KILL" /\ "SPROCIO" \notin Rec(p).flag =>
             /\ Rec(p).stat # "SSTOP"
             /\ InterruptibleSleep(p) => "SNOSTOP" \in Rec(p).flag

\* A debugger does not sleep in PIOCWSTOP for a stop or an exit that has
\* already happened (prioctl.c:221-228 against stop() and exit()).
NoMissedStop ==
    \A d \in Procs :
        InterruptibleSleep(d) /\ thr[d].ret = "wstop" =>
            Live(thr[d].tgt) /\ ~StoppedByProc(Rec(thr[d].tgt))

\* A parent does not sleep in waitid() while one of the children it could
\* report has a status, nor once it has no child left (exit.c:408-480
\* against sigcld(), setrun() and the re-parenting of exit()).
NoMissedChild ==
    \A p \in Procs :
        InterruptibleSleep(p) /\ thr[p].ret = "waitid" =>
            /\ Children(k, p) # {}
            /\ \A c \in Children(k, p) : Rec(c).wcode \notin WaitFor

\* exit() is entered with no current signal (exit.c:152).
ExitHasNoCursig ==
    \A p \in Procs : thr[p].pc = "exit0" => Rec(p).cursig = "none"

\* psig() finds a current signal, and one that is not ignored (sig.c:449-450).
PsigHasCursig ==
    \A p \in Procs : thr[p].pc = "psig" =>
        Rec(p).cursig # "none" /\ Rec(p).cursig \notin Rec(p).ignore

\* p_cursig is promoted once, acted upon once and then cleared, through every
\* way from issig() to the handler, the stop or the exit.
CurrentSignalOK == ExitHasNoCursig /\ PsigHasCursig

\* Processes have their types, and their current signals are in order (struct
\* proc, p_cursig).
ThreadsOK == TypeOK /\ CurrentSignalOK

\* An entry on the signal queue belongs to a pending signal.  sigaddq()
\* counts on it: it does not post a signal that has an entry (sig.c:1024-1028).
QueuedIsPending == \A p \in Procs : Rec(p).sigq \subseteq Rec(p).sig

\* A process that /proc has stopped stays stopped, whatever signals come and
\* whichever channels are woken, until a debugger runs it or it is killed;
\* one stopped by job control does until no stop signal is pending any more
\* or it is killed (setrun(), slp.c:387-414, and its callers).
StopHolds ==
    [][\A p \in Procs :
         k.proc[p].stat = "SSTOP" /\ k'.proc[p].stat # "SSTOP" =>
            \/ "KILL" \in k'.proc[p].sig \cup {k'.proc[p].cursig}
            \/ IF StoppedByProc(k.proc[p])
               THEN k.cur \notin {p, NoProc} /\ "ioctl" \in SysCalls[k.cur]
                    /\ InSysCall(k.cur)
               ELSE k'.proc[p].sig \cap stopdefault = {}]_vars

(***************************************************************************)
(* Liveness.  The clock preempts whoever computes for long and the classes *)
(* raise the priority of whoever waits for long, so every runnable process *)
(* is dispatched again and again; devices answer; a system call sleeps     *)
(* only so often before it returns.                                        *)
(***************************************************************************)
Fairness ==
    /\ \A p \in Procs : WF_vars(Forced(p)) /\ SF_vars(Preempt(p)) /\ SF_vars(SysReturn(p))
                          /\ SF_vars(Dispatch(p))
    /\ \A d \in Devs : WF_vars(DevIntr(<<"dev", d>>))
    /\ WF_vars(DevIntr(KmemChan))

FairSpec == Spec /\ Fairness

\* SIGKILL ends a process, wherever it sleeps, stops or runs.
KillIsFatal == \A p \in Procs : "KILL" \in Rec(p).sig ~> ~Live(p)

\* A parent that waits for a child does not wait for ever once the child has
\* exited, unless it is itself stopped (sigcld() against waitid()).
Waiting(p) ==
    \/ thr[p].pc = "waitid"
    \/ thr[p].pc = "asleep" /\ thr[p].ret = "waitid"
    \/ /\ thr[p].pc \in {"issig", "cursig", "fsig", "jobcont"}
       /\ thr[p].ctx # "trap"
       /\ thr[p].ret = "waitid"

ZombieIsReaped ==
    \A p, c \in Procs :
        (Waiting(p) /\ Rec(c).parent = p /\ Rec(c).stat = "SZOMB")
            ~> (~Waiting(p) \/ Rec(p).stat = "SSTOP")
=============================================================================
