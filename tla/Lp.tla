--------------------------------- MODULE Lp ---------------------------------
(***************************************************************************)
(* A stream to a line printer: the write side of the stream head           *)
(* (os/streamio.c, os/strsubr.c), the queue of the driver and the driver   *)
(* (arch/at io/lp.c), with the scheduling of service procedures.           *)
(*                                                                         *)
(* A process keeps the processor until it sleeps, so cur is the process    *)
(* in the middle of a call, and another enters the kernel only when there  *)
(* is none.  Interrupts and timeouts come between any two steps; a step is *)
(* what the code does at splstr or spltty.  While the driver runs          *)
(* lpgetoblk() nothing else does.                                          *)
(*                                                                         *)
(* Abstractions: one printer with no modules pushed, so that no M_STOP,    *)
(* M_START or M_DELAY comes down, no flushes, no bands, no poll().  A data *)
(* message is who wrote it and its length.  An open and the forks that     *)
(* share it are one step.  queuerun() runs one service procedure, that of  *)
(* the stream head; it is enabled when qrunflag is set.                    *)
(***************************************************************************)
EXTENDS Strq

CONSTANTS Procs, NoProc,
          Writes,       \* the write()s: how many characters, O_NDELAY or not
          Signalled,    \* the processes that signals are sent to
          rmax,         \* the largest data message (strmsgsz)
          IocSize,      \* what an M_IOCTL counts in a queue
          Requests,     \* the ioctl()s of each process: drain (TCSBRK, TCSETAW) or
                        \* set (TCSETA), with a timeout (I_STR) or without
          IocIds,       \* values of ioc_id, more than there are M_IOCTLs
          MaxIrqs,      \* interrupts the printer may still owe
          Unattended    \* may an interrupt be lost that no watchdog waits for?

ASSUME LpAssumption ==
    /\ IsFiniteSet(Procs) /\ NoProc \notin Procs /\ Signalled \subseteq Procs
    /\ Writes \subseteq Nat \X BOOLEAN
    /\ Requests \in [Procs -> SUBSET ({"drain", "set"} \X BOOLEAN)]
    /\ rmax \in Nat \ {0} /\ IocSize \in Nat \ {0}
    /\ MaxIrqs \in Nat \ {0}
    /\ Unattended \in BOOLEAN

VARIABLES users,    \* the processes that have the stream open
          q,        \* the write queue of the driver
          sd,       \* the stream head
          tp,       \* the driver
          dev,      \* the printer and the watchdog
          timers,   \* pending calls of str2time(), by process, and str3time()
          qenab,    \* QENAB of the write queue of the stream head
          serving,  \* queuerun() has taken it and is about to call strwsrv()
          looping,  \* the driver is in lpgetoblk()
          pr,       \* where each process is
          cur       \* the process in the middle of a call, or NoProc

vars == <<users, q, sd, tp, dev, timers, qenab, serving, looping, pr, cur>>

Cmds     == {c[1] : c \in UNION {Requests[p] : p \in Procs}}
Chans    == {"wrq", "oflag", "iocwait", "ioc"}
Messages == [type : {"data"} \cup Cmds, from : Procs, size : Nat, id : IocIds \cup {0}]
NoBlock  == [from |-> NoProc, left |-> 0]

HeadRecord == [WSLEEP : BOOLEAN, STRTIME : BOOLEAN, IOCWAIT : BOOLEAN, STR2TIME : BOOLEAN,
               STR3TIME : BOOLEAN, iocwait : Nat, iocid : IocIds \cup {0}, iocblk : BOOLEAN]
TtyRecord  == [ISOPEN : BOOLEAN, BUSY : BOOLEAN, TTIOW : BOOLEAN,
               bu_bp : [from : Procs \cup {NoProc}, left : Nat]]
DevRecord  == [irqs : 0..MaxIrqs, armed : BOOLEAN, lptmrun : BOOLEAN]
ProcRecord == [pc : {"user", "copy", "ioctl", "queue", "getblk", "run",
                     "asleep", "woken", "signalled"},
               chan : Chans, call : {"none", "write", "ioctl", "close"},
               n : Nat, nodelay : BOOLEAN, cmd : Cmds \cup {"none"}, timed : BOOLEAN]

NewHead == [WSLEEP |-> FALSE, STRTIME |-> FALSE, IOCWAIT |-> FALSE, STR2TIME |-> FALSE,
            STR3TIME |-> FALSE, iocwait |-> 0, iocid |-> 0, iocblk |-> FALSE]
Idle    == [pc |-> "user", chan |-> "wrq", call |-> "none", n |-> 0, nodelay |-> FALSE,
            cmd |-> "none", timed |-> FALSE]

Init ==
    /\ users = {}
    /\ q = NewQueue
    /\ sd = NewHead
    /\ tp = [ISOPEN |-> FALSE, BUSY |-> FALSE, TTIOW |-> FALSE, bu_bp |-> NoBlock]
    /\ dev = [irqs |-> 0, armed |-> FALSE, lptmrun |-> FALSE]
    /\ timers = [str2 |-> {}, str3 |-> FALSE]
    /\ qenab = FALSE /\ serving = FALSE /\ looping = FALSE
    /\ pr = [p \in Procs |-> Idle]
    /\ cur = NoProc

-----------------------------------------------------------------------------
\* When a process may enter the kernel or wake up in it, when one goes on, and
\* when an interrupt may come.
Free         == cur = NoProc /\ ~serving /\ ~looping
Doing(p, pc) == cur = p /\ pr[p].pc = pc /\ ~serving /\ ~looping
Unmasked     == ~looping

wakeprocs(f, c) ==
    [p \in Procs |-> IF f[p].pc = "asleep" /\ f[p].chan = c
                     THEN [f[p] EXCEPT !.pc = "woken"] ELSE f[p]]

\* p sleeps; p goes on at pc and keeps the processor; p returns to the user.
Sleep(p, r, c) == pr' = [pr EXCEPT ![p] = [r EXCEPT !.pc = "asleep", !.chan = c]] /\ cur' = NoProc
GoOn(p, r, pc) ==
    pr' = [pr EXCEPT ![p] = [r EXCEPT !.pc = pc, !.chan = Idle.chan]] /\ cur' = p
Returned(p)    == [pr EXCEPT ![p] = Idle]

-----------------------------------------------------------------------------
\* The driver.

\* A character to the printer: it owes an interrupt and the watchdog is set.
outb(d) == [d EXCEPT !.irqs = @ + 1, !.armed = TRUE]

\* qreply() of an M_IOCTL to the stream head, strrput(): the reply is dropped
\* unless it is the one that is waited for.
\* Mutated form: any reply will do.
WantedAny(m) == sd.IOCWAIT /\ ~sd.iocblk
Wanted(m) == sd.IOCWAIT /\ ~sd.iocblk /\ m.id = sd.iocid
Replied(m, f) ==
    IF Wanted(m) THEN /\ sd' = [sd EXCEPT !.iocblk = TRUE]
                      /\ pr' = wakeprocs(f, "ioc")
                 ELSE pr' = f /\ UNCHANGED sd

\* lpgetoblk() goes around its loop: it starts a data message or answers an M_IOCTL.
LpgetoblkNext ==
    LET m == Head(q.msgs)
    IN /\ looping /\ ~tp.BUSY /\ ~Empty(q)
       /\ q' = Left(q)
       /\ qenab' = (qenab \/ Backenables(q))
       /\ IF m.type = "data"
          THEN /\ tp' = [tp EXCEPT !.BUSY = TRUE,
                                   !.bu_bp = [from |-> m.from, left |-> m.size - 1]]
               /\ dev' = outb(dev)
               /\ UNCHANGED <<sd, pr>>
          ELSE Replied(m, pr) /\ UNCHANGED <<tp, dev>>
    /\ UNCHANGED <<users, timers, serving, looping, cur>>

\* Mutated form: whoever waits for the drain is not woken.
LpgetoblkQuiet ==
    /\ looping /\ (tp.BUSY \/ Empty(q))
    /\ looping' = FALSE
    /\ IF tp.BUSY THEN UNCHANGED <<q, qenab>>
       ELSE q' = Left(q) /\ qenab' = (qenab \/ Backenables(q))
    /\ UNCHANGED <<users, sd, tp, pr, dev, timers, serving, cur>>

LpgetoblkEnd ==
    /\ looping /\ (tp.BUSY \/ Empty(q))
    /\ looping' = FALSE
    /\ IF tp.BUSY THEN UNCHANGED <<q, qenab>>
       ELSE q' = Left(q) /\ qenab' = (qenab \/ Backenables(q))
    /\ IF tp.bu_bp = NoBlock /\ tp.TTIOW
       THEN /\ tp' = [tp EXCEPT !.TTIOW = FALSE]
            /\ pr' = wakeprocs(pr, "oflag")
       ELSE UNCHANGED <<tp, pr>>
    /\ UNCHANGED <<users, sd, dev, timers, serving, cur>>

\* lpxintr(), with d the state of the printer: the next character, or, after the
\* last, the next message.  lpgetoblk() returns at once when the stream is closed.
\* Mutated form: the next message is not looked for.
lpxintrStops(d) ==
    LET b == tp.bu_bp
    IN IF tp.BUSY /\ b.left > 0
       THEN /\ tp' = [tp EXCEPT !.bu_bp.left = @ - 1]
            /\ dev' = outb([d EXCEPT !.armed = FALSE])
            /\ UNCHANGED looping
       ELSE /\ tp' = IF tp.BUSY THEN [tp EXCEPT !.BUSY = FALSE, !.bu_bp = NoBlock] ELSE tp
            /\ dev' = [d EXCEPT !.armed = FALSE]
            /\ UNCHANGED looping

lpxintr(d) ==
    LET b == tp.bu_bp
    IN IF tp.BUSY /\ b.left > 0
       THEN /\ tp' = [tp EXCEPT !.bu_bp.left = @ - 1]
            /\ dev' = outb([d EXCEPT !.armed = FALSE])
            /\ UNCHANGED looping
       ELSE /\ tp' = IF tp.BUSY THEN [tp EXCEPT !.BUSY = FALSE, !.bu_bp = NoBlock] ELSE tp
            /\ dev' = [d EXCEPT !.armed = FALSE]
            /\ looping' = (tp.BUSY /\ tp.ISOPEN)

lpintr ==
    /\ Unmasked /\ dev.irqs > 0
    /\ lpxintr([dev EXCEPT !.irqs = @ - 1])
    /\ UNCHANGED <<users, q, sd, timers, qenab, serving, pr, cur>>

\* The printer loses an interrupt.
LoseInterrupt ==
    /\ Unmasked /\ dev.irqs > 0
    /\ Unattended \/ (dev.armed /\ dev.lptmrun)
    /\ dev' = [dev EXCEPT !.irqs = @ - 1]
    /\ UNCHANGED <<users, q, sd, tp, timers, qenab, serving, looping, pr, cur>>

\* The watchdog: no interrupt for MAXTIME, because it was lost or the printer is slow.
lptmout ==
    /\ Unmasked /\ dev.lptmrun /\ dev.armed /\ dev.irqs < MaxIrqs
    /\ lpxintr(dev)
    /\ UNCHANGED <<users, q, sd, timers, qenab, serving, pr, cur>>

-----------------------------------------------------------------------------
\* The service procedure of the stream head.

\* queuerun() takes the queue off the run list: in a process that has called
\* runqueues(), on the return to a user, or when there is nobody to run.
queuerun ==
    /\ qenab /\ ~serving /\ ~looping
    /\ cur # NoProc => pr[cur].pc = "run"
    /\ qenab' = FALSE
    /\ serving' = TRUE
    /\ UNCHANGED <<users, q, sd, tp, dev, timers, looping, pr, cur>>

\* Mutated form: WSLEEP is cleared but one writer only is woken.
strwsrvOne ==
    /\ serving /\ ~looping
    /\ serving' = FALSE
    /\ IF sd.WSLEEP
       THEN /\ sd' = [sd EXCEPT !.WSLEEP = FALSE]
            /\ LET S == {p \in Procs : pr[p].pc = "asleep" /\ pr[p].chan = "wrq"}
               IN IF S = {} THEN UNCHANGED pr
                  ELSE \E p \in S : pr' = [pr EXCEPT ![p].pc = "woken"]
       ELSE UNCHANGED <<sd, pr>>
    /\ UNCHANGED <<users, q, tp, dev, timers, qenab, looping, cur>>

strwsrv ==
    /\ serving /\ ~looping
    /\ serving' = FALSE
    /\ IF sd.WSLEEP
       THEN /\ sd' = [sd EXCEPT !.WSLEEP = FALSE]
            /\ pr' = wakeprocs(pr, "wrq")
       ELSE UNCHANGED <<sd, pr>>
    /\ UNCHANGED <<users, q, tp, dev, timers, qenab, looping, cur>>

-----------------------------------------------------------------------------
\* strwrite()

\* canput(), and strwaitq() when it fails.
Canput(p, r) ==
    /\ IF ~q.QFULL
       THEN /\ pr' = [pr EXCEPT ![p] = [r EXCEPT !.pc = "copy"]]
            /\ cur' = NoProc
            /\ UNCHANGED <<q, sd>>
       ELSE /\ q' = [q EXCEPT !.QWANTW = TRUE]
            /\ IF r.nodelay THEN /\ pr' = Returned(p)
                                 /\ cur' = NoProc
                                 /\ UNCHANGED sd
               ELSE /\ sd' = [sd EXCEPT !.WSLEEP = TRUE]
                    /\ Sleep(p, r, "wrq")
    /\ UNCHANGED <<users, tp, dev, timers, qenab, serving, looping>>

strwrite(p, n, nodelay) ==
    /\ Free /\ pr[p].pc = "user" /\ p \in users
    /\ Canput(p, [Idle EXCEPT !.call = "write", !.n = n, !.nodelay = nodelay])

\* strmakemsg() has copied the data, for which the process may have waited, and
\* lpoput() queues the message.  A message without data is freed.
Data(p, n) == [type |-> "data", from |-> p, size |-> n, id |-> 0]

PutData(p) ==
    LET r == pr[p]
        m == IF r.n < rmax THEN r.n ELSE rmax
    IN /\ Free /\ r.pc = "copy"
       /\ q' = IF m = 0 THEN q ELSE putq(q, Data(p, m))
       /\ GoOn(p, [r EXCEPT !.n = @ - m], "getblk")
       /\ UNCHANGED <<users, sd, tp, dev, timers, qenab, serving, looping>>

\* strmakemsg() fails.
CopyFails(p) ==
    /\ Free /\ pr[p].pc = "copy"
    /\ pr' = Returned(p)
    /\ UNCHANGED <<users, q, sd, tp, dev, timers, qenab, serving, looping, cur>>

\* lpoput() goes on to lpgetoblk(), if the message is still queued.
Lpoput(p) ==
    /\ Doing(p, "getblk")
    /\ looping' = ~Empty(q)
    /\ GoOn(p, pr[p], "run")
    /\ UNCHANGED <<users, q, sd, tp, dev, timers, qenab, serving>>

\* runqueues() is done: the next message of the write, or the end of it.
WriteOn(p) ==
    /\ Doing(p, "run") /\ ~qenab /\ pr[p].call = "write"
    /\ IF pr[p].n > 0 THEN Canput(p, pr[p])
       ELSE /\ pr' = Returned(p)
            /\ cur' = NoProc
            /\ UNCHANGED <<users, q, sd, tp, dev, timers, qenab, serving, looping>>

-----------------------------------------------------------------------------
\* strdoioctl()

InFlight == {m.id : m \in {q.msgs[i] : i \in DOMAIN q.msgs}}

\* Wait until no other ioctl is outstanding, h being the stream head and T the
\* pending calls of str2time(); then take the mechanism.  ioc_id is counted up in
\* 32 bits: a value that no queued message has.
IocWait(p, r, h, T) ==
    IF h.IOCWAIT
    THEN /\ sd' = [h EXCEPT !.iocwait = @ + 1]
         /\ timers' = [timers EXCEPT !.str2 = T]
         /\ Sleep(p, r, "iocwait")
    ELSE /\ IocIds \ InFlight # {}
         /\ sd' = [h EXCEPT !.IOCWAIT = TRUE, !.iocblk = FALSE,
                            !.STR2TIME = @ /\ h.iocwait # 0,
                            !.iocid = CHOOSE i \in IocIds \ InFlight : TRUE]
         /\ timers' = [timers EXCEPT !.str2 = T \ {p}]
         /\ GoOn(p, r, "ioctl")

strdoioctl(p, c, timed) ==
    /\ Free /\ pr[p].pc = "user" /\ p \in users
    /\ IocWait(p, [Idle EXCEPT !.call = "ioctl", !.cmd = c, !.timed = timed],
               [sd EXCEPT !.STR2TIME = TRUE], timers.str2 \cup {p})
    /\ UNCHANGED <<users, q, tp, dev, qenab, serving, looping>>

\* lpputioc(): answer at once, or decide to queue.  The tests are at spl0.
Ioctl(p)   == [type |-> pr[p].cmd, from |-> p, size |-> IocSize, id |-> sd.iocid]
Drained    == tp.bu_bp = NoBlock /\ Empty(q)
AtOnce(p)  == ~tp.BUSY /\ (pr[p].cmd = "drain" => Drained)

Lpputioc(p) ==
    /\ Doing(p, "ioctl")
    /\ IF AtOnce(p)
       THEN /\ Replied(Ioctl(p), [pr EXCEPT ![p].pc = "getblk"])
            /\ UNCHANGED cur
       ELSE /\ GoOn(p, pr[p], "queue")
            /\ UNCHANGED sd
    /\ UNCHANGED <<users, q, tp, dev, timers, qenab, serving, looping>>

QueueIoctl(p) ==
    /\ Doing(p, "queue")
    /\ q' = IF pr[p].cmd = "drain" THEN putq(q, Ioctl(p)) ELSE putbq(q, Ioctl(p))
    /\ GoOn(p, pr[p], "getblk")
    /\ UNCHANGED <<users, sd, tp, dev, timers, qenab, serving, looping>>

\* The ioctl ends, with a reply or without, and the next one may start.
IocEnd(p) ==
    /\ sd' = [sd EXCEPT !.STR3TIME = FALSE, !.IOCWAIT = FALSE, !.iocblk = FALSE]
    /\ timers' = [timers EXCEPT !.str3 = FALSE]
    /\ pr' = wakeprocs(Returned(p), "iocwait")
    /\ cur' = NoProc

\* The wait for the reply.
ReplyWait(p) ==
    IF sd.iocblk THEN IocEnd(p)
    ELSE /\ sd' = [sd EXCEPT !.STR3TIME = TRUE]
         /\ timers' = [timers EXCEPT !.str3 = @ \/ (pr[p].timed /\ ~sd.STR3TIME)]
         /\ Sleep(p, pr[p], "ioc")

IocOn(p) ==
    /\ Doing(p, "run") /\ ~qenab /\ pr[p].call = "ioctl"
    /\ ReplyWait(p)
    /\ UNCHANGED <<users, q, tp, dev, qenab, serving, looping>>

\* A waiter gives up; p's own timeout is cancelled.
IocLeave(p) ==
    /\ sd' = [sd EXCEPT !.iocwait = @ - 1, !.STR2TIME = @ /\ sd.iocwait # 1]
    /\ timers' = [timers EXCEPT !.str2 = @ \ {p}]
    /\ pr' = Returned(p)
    /\ UNCHANGED cur

str2time(p) ==
    /\ Unmasked /\ p \in timers.str2
    /\ timers' = [timers EXCEPT !.str2 = @ \ {p}]
    /\ sd' = [sd EXCEPT !.STR2TIME = FALSE]
    /\ pr' = IF sd.STR2TIME THEN wakeprocs(pr, "iocwait") ELSE pr
    /\ UNCHANGED <<users, q, tp, dev, qenab, serving, looping, cur>>

str3time ==
    /\ Unmasked /\ timers.str3
    /\ timers' = [timers EXCEPT !.str3 = FALSE]
    /\ sd' = [sd EXCEPT !.STR3TIME = FALSE]
    /\ pr' = IF sd.STR3TIME THEN wakeprocs(pr, "ioc") ELSE pr
    /\ UNCHANGED <<users, q, tp, dev, qenab, serving, looping, cur>>

-----------------------------------------------------------------------------
\* Open and close.

\* stropen(), lpopen(): new queues; the watchdog is started unless it runs.
stropen(S) ==
    /\ Free /\ users = {} /\ S # {}
    /\ users' = S
    /\ tp' = [tp EXCEPT !.ISOPEN = TRUE]
    /\ dev' = IF dev.lptmrun THEN dev ELSE [dev EXCEPT !.armed = FALSE, !.lptmrun = TRUE]
    /\ UNCHANGED <<q, sd, timers, qenab, serving, looping, pr, cur>>

\* The end of lpclose(), of qdetach() and of strclose(): the watchdog is stopped and
\* what is left in the queues is discarded, but not the message being printed.
Detach(p) ==
    /\ Unattended \/ ~(tp.BUSY /\ dev.irqs = 0)
    /\ users' = {}
    /\ q' = NewQueue
    /\ sd' = NewHead
    /\ tp' = [tp EXCEPT !.ISOPEN = FALSE, !.TTIOW = FALSE]
    /\ dev' = [dev EXCEPT !.lptmrun = FALSE]
    /\ qenab' = FALSE
    /\ pr' = Returned(p)
    /\ cur' = NoProc
    /\ UNCHANGED <<timers, serving, looping>>

\* lpclose() waits for the drain.
Lpclose(p) ==
    IF pr[p].nodelay \/ Drained THEN Detach(p)
    ELSE /\ tp' = [tp EXCEPT !.TTIOW = TRUE]
         /\ Sleep(p, pr[p], "oflag")
         /\ UNCHANGED <<users, q, sd, dev, timers, qenab, serving, looping>>

\* strclose() stops waiting and goes on to qdetach(), which calls runqueues().
CloseOn(p, r) ==
    /\ sd' = [sd EXCEPT !.STRTIME = FALSE, !.WSLEEP = FALSE]
    /\ GoOn(p, r, "run")
    /\ UNCHANGED <<users, q, tp, dev, timers, qenab, serving, looping>>

\* strclose() waits for the queue of the driver, until strtime().
CloseWait(p, r, timing) ==
    IF timing /\ q.count # 0
    THEN /\ sd' = [sd EXCEPT !.STRTIME = TRUE, !.WSLEEP = TRUE]
         /\ q' = [q EXCEPT !.QWANTW = TRUE]
         /\ Sleep(p, r, "wrq")
         /\ UNCHANGED <<users, tp, dev, timers, qenab, serving, looping>>
    ELSE CloseOn(p, r)

\* A close that is not the last one; the last one.
closef(p) ==
    /\ Free /\ pr[p].pc = "user" /\ p \in users /\ users # {p}
    /\ users' = users \ {p}
    /\ UNCHANGED <<q, sd, tp, dev, timers, qenab, serving, looping, pr, cur>>

strclose(p, nodelay) ==
    /\ Free /\ pr[p].pc = "user" /\ users = {p}
    /\ CloseWait(p, [Idle EXCEPT !.call = "close", !.nodelay = nodelay], ~nodelay)

CloseRun(p) ==
    /\ Doing(p, "run") /\ ~qenab /\ pr[p].call = "close"
    /\ Lpclose(p)

strtime ==
    /\ Unmasked /\ sd.STRTIME
    /\ sd' = [sd EXCEPT !.STRTIME = FALSE]
    /\ pr' = wakeprocs(pr, "wrq")
    /\ UNCHANGED <<users, q, tp, dev, timers, qenab, serving, looping, cur>>

-----------------------------------------------------------------------------
\* Sleepers.

Signal(p) ==
    /\ pr[p].pc = "asleep"
    /\ pr' = [pr EXCEPT ![p].pc = "signalled"]
    /\ UNCHANGED <<users, q, sd, tp, dev, timers, qenab, serving, looping, cur>>

At(p, call, chan) == Free /\ pr[p].call = call /\ pr[p].chan = chan
Interrupted(p)    == pr[p].pc = "signalled" \/ (pr[p].pc = "woken" /\ p \in Signalled)

\* sleep() returns 0.
ResumeWrite(p) == At(p, "write", "wrq") /\ pr[p].pc = "woken" /\ Canput(p, pr[p])

ResumeClose(p) ==
    /\ pr[p].pc = "woken"
    /\ \/ At(p, "close", "wrq") /\ CloseWait(p, pr[p], sd.STRTIME)
       \/ At(p, "close", "oflag") /\ Lpclose(p)

ResumeIoctl(p) ==
    /\ pr[p].pc = "woken"
    /\ \/ /\ At(p, "ioctl", "iocwait")
          /\ IF sd.STR2TIME
             THEN IocWait(p, pr[p], [sd EXCEPT !.iocwait = @ - 1], timers.str2)
             ELSE IocLeave(p)
       \/ /\ At(p, "ioctl", "ioc")
          /\ IF sd.STR3TIME THEN ReplyWait(p) ELSE IocEnd(p)
    /\ UNCHANGED <<users, q, tp, dev, qenab, serving, looping>>

\* sleep() returns 1, for a signal.
InterruptedWrite(p) ==
    /\ Interrupted(p) /\ At(p, "write", "wrq")
    /\ sd' = [sd EXCEPT !.WSLEEP = FALSE]
    /\ pr' = wakeprocs(Returned(p), "wrq")
    /\ UNCHANGED <<users, q, tp, dev, timers, qenab, serving, looping, cur>>

InterruptedClose(p) ==
    /\ Interrupted(p)
    /\ \/ At(p, "close", "wrq") /\ CloseOn(p, pr[p])
       \/ At(p, "close", "oflag") /\ Detach(p)

InterruptedIoctl(p) ==
    /\ Interrupted(p)
    /\ \/ At(p, "ioctl", "iocwait") /\ IocLeave(p)
       \/ At(p, "ioctl", "ioc") /\ IocEnd(p)
    /\ UNCHANGED <<users, q, tp, dev, qenab, serving, looping>>

-----------------------------------------------------------------------------
Driver == LpgetoblkNext \/ LpgetoblkEnd \/ queuerun \/ strwsrv
Device == lpintr \/ lptmout
Timers == (\E p \in Procs : str2time(p)) \/ str3time \/ strtime

Call(p) ==
    \/ \E w \in Writes : strwrite(p, w[1], w[2])
    \/ \E c \in Requests[p] : strdoioctl(p, c[1], c[2])
    \/ closef(p)
    \/ \E nodelay \in BOOLEAN : strclose(p, nodelay)

GoesOn(p) ==
    \/ PutData(p) \/ Lpoput(p) \/ WriteOn(p)
    \/ Lpputioc(p) \/ QueueIoctl(p) \/ IocOn(p) \/ CloseRun(p)
    \/ ResumeWrite(p) \/ ResumeClose(p) \/ ResumeIoctl(p)
    \/ InterruptedWrite(p) \/ InterruptedClose(p) \/ InterruptedIoctl(p)

Next ==
    \/ Driver \/ Device \/ LoseInterrupt \/ Timers
    \/ \E S \in SUBSET Procs : stropen(S)
    \/ \E p \in Procs : Call(p) \/ GoesOn(p) \/ CopyFails(p)
    \/ \E p \in Signalled : Signal(p)

Spec == Init /\ [][Next]_vars

\* The kernel runs what is enabled, the printer interrupts or its watchdog does, a
\* timeout comes, and the dispatcher lets no runnable process wait for ever.
FairSpec ==
    /\ Spec
    /\ WF_vars(Driver) /\ WF_vars(Device) /\ WF_vars(Timers)
    /\ \A p \in Procs : SF_vars(GoesOn(p))

-----------------------------------------------------------------------------
(***************************************************************************)
(* Properties.                                                             *)
(***************************************************************************)
TypeOK ==
    /\ users \subseteq Procs
    /\ q \in Queues(Messages)
    /\ sd \in HeadRecord
    /\ tp \in TtyRecord
    /\ dev \in DevRecord
    /\ timers \in [str2 : SUBSET Procs, str3 : BOOLEAN]
    /\ {qenab, serving, looping} \subseteq BOOLEAN
    /\ pr \in [Procs -> ProcRecord]
    /\ cur \in Procs \cup {NoProc}

In(p, chan)     == pr[p].pc \in {"asleep", "woken", "signalled"} /\ pr[p].chan = chan
Asleep(p, chan) == pr[p].pc = "asleep" /\ pr[p].chan = chan
Ioctls          == {i \in DOMAIN q.msgs : q.msgs[i].type # "data"}

\* The flow control of the queue follows from its messages (putq(), putbq() and
\* getq()), sd_iocwait counts those who wait for the ioctl mechanism
\* (streamio.c:4098-4130), and a full queue holds up writers except those
\* that had passed canput() and then slept in strmakemsg() (streamio.c:1598-1653).
CountsOK ==
    /\ CountOK(q)
    /\ sd.iocwait = Cardinality({p \in Procs : In(p, "iocwait")})
    /\ Bytes(q.msgs) < hiwat + rmax * Cardinality(Procs) + IocSize * Cardinality(Ioctls)

StreamOK == TypeOK /\ CountsOK

\* What each sleeper waits for is yet to come, and whoever brings it about will
\* find the flag that says that it sleeps.
NoLostWakeup ==
    ~looping =>
        \A p \in Procs :
            /\ Asleep(p, "wrq") =>
                 sd.WSLEEP /\ (qenab \/ serving \/ (q.QWANTW /\ ~Empty(q)))
            /\ Asleep(p, "oflag") => tp.TTIOW /\ ~Drained
            /\ Asleep(p, "iocwait") => sd.IOCWAIT
            /\ Asleep(p, "ioc") =>
                 /\ sd.IOCWAIT /\ ~sd.iocblk
                 /\ \E i \in Ioctls : q.msgs[i].id = sd.iocid /\ q.msgs[i].from = p

\* Output moves: what is queued is being printed, or about to be by the process
\* that queued it; and what is printed has an interrupt or the watchdog to come.
OutputMoves ==
    ~looping =>
        /\ ~Empty(q) => tp.BUSY \/ (cur # NoProc /\ pr[cur].pc = "getblk")
        /\ tp.BUSY <=> tp.bu_bp # NoBlock
        /\ tp.BUSY => dev.irqs > 0 \/ (dev.armed /\ dev.lptmrun)

\* A close and an ioctl() that waits for its reply return.
CallReturns ==
    \A p \in Procs : (pr[p].call = "close" \/ Asleep(p, "ioc")) ~> (pr[p].pc = "user")
=============================================================================
