-------------------------------- MODULE Sem ---------------------------------
(***************************************************************************)
(* System V semaphores, os/sem.c: the sets, the table of semaphores they   *)
(* are cut from, the undo structures, and the processes that sleep in      *)
(* semop() on the counts of a semaphore.                                   *)
(*                                                                         *)
(* A process keeps the processor in semop() until it sleeps, so cur is the *)
(* process in the middle of one and every other action needs it free.      *)
(* semop() itself takes a step per operation: it does the operations one   *)
(* by one and takes them back when it has to wait.                         *)
(*                                                                         *)
(* Abstractions: access is always granted, sempid and the times are left   *)
(* out, a semid is the pair of the set and its sequence number, rmalloc()  *)
(* finds any free run of semaphores, un_ent is the table of its non-zero   *)
(* adjustments.                                                            *)
(***************************************************************************)
EXTENDS Integers, Sequences, FiniteSets

CONSTANTS Procs, NoProc,
          Sets,         \* the entries of sema[]
          SeqMax,       \* the last sequence number whose semid fits 15 bits
          semmns,       \* the number of semaphores
          semvmx,       \* the largest value of a semaphore
          semaem,       \* the largest adjustment
          semume,       \* adjustments in an undo structure
          semmnu,       \* undo structures
          semopm,       \* operations in a semop()
          NSems,        \* sizes of sets that semget() is asked for
          OpLists,      \* the operations of the semop()s
          SemVals,      \* values for SETVAL and SETALL
          Junk,         \* other contents of the holding area, as operations
          CountMax      \* the count up to which a sleeper may be stopped

Addrs == 0..(semmns - 1)
Nums  == 0..(semmns - 1)
Ids   == Sets \X (0..SeqMax)
Keys  == Ids \X Nums
Kinds == {"n", "z"}              \* semncnt and semzcnt
Chans == Kinds \X Addrs
Ops   == [num : Nums, op : Int, undo : BOOLEAN, nowait : BOOLEAN]
Area  == [num : Nat, op : Int, undo : BOOLEAN, nowait : BOOLEAN]

ASSUME SemAssumption ==
    /\ semmns \in Nat \ {0} /\ SeqMax \in Nat
    /\ semvmx \in Nat /\ semaem \in Nat /\ semume \in Nat /\ semmnu \in Nat
    /\ semopm \in Nat
    /\ NoProc \notin Procs
    /\ Sets # {}
    /\ NSems \subseteq 1..semmns
    /\ SemVals \subseteq 0..semvmx
    /\ OpLists \subseteq Seq(Ops)
    /\ \A ops \in OpLists : Len(ops) <= semopm
    /\ Junk \subseteq Area /\ CountMax \in Nat

VARIABLES sema,    \* the sets
          sem,     \* the semaphores
          undo,    \* un_aoe of every process, 0 where it has no entry
          holds,   \* the processes that have an undo structure
          semtmp,  \* the holding area, as operations
          pr,      \* where each process is
          cur      \* the process in semop() or semexit(), or NoProc

vars == <<sema, sem, undo, holds, semtmp, pr, cur>>

SetRecord  == [alloc : BOOLEAN, seq : 0..SeqMax, base : Addrs, nsems : 0..semmns]
SemRecord  == [val : Int, ncnt : Nat, zcnt : Nat]
ProcRecord == [pc : {"user", "copyin", "ops", "undo", "asleep", "woken", "signalled", "exit"},
               id : Ids, ops : OpLists \cup {<<>>}, i : Nat,
               chan : Kinds \X Int, then : {"verify", "again", "fail", "n", "z"}]

TypeOK ==
    /\ sema \in [Sets -> SetRecord]
    /\ sem \in [Addrs -> SemRecord]
    /\ undo \in [Procs -> [Keys -> (-semaem)..semaem]]
    /\ holds \subseteq Procs
    /\ semtmp \in [1..semopm -> Area]
    /\ pr \in [Procs -> ProcRecord]
    /\ cur \in Procs \cup {NoProc}

\* A process outside the kernel, and an entry of the holding area before use.
Idle == [pc |-> "user", id |-> CHOOSE id \in Ids : TRUE, ops |-> <<>>, i |-> 0,
         chan |-> <<"n", 0>>, then |-> "fail"]
NoOp == [num |-> 0, op |-> 0, undo |-> FALSE, nowait |-> FALSE]

Init ==
    /\ sema = [s \in Sets |-> [alloc |-> FALSE, seq |-> 0, base |-> 0, nsems |-> 0]]
    /\ sem = [x \in Addrs |-> [val |-> 0, ncnt |-> 0, zcnt |-> 0]]
    /\ undo = [p \in Procs |-> [e \in Keys |-> 0]]
    /\ holds = {}
    /\ semtmp = [j \in 1..semopm |-> NoOp]
    /\ pr = [p \in Procs |-> Idle]
    /\ cur = NoProc

-----------------------------------------------------------------------------
semconv(id) == sema[id[1]].alloc /\ sema[id[1]].seq = id[2]
Span(s)    == sema[s].base .. (sema[s].base + sema[s].nsems - 1)
Addr(s, n)  == sema[s].base + n

\* A semaphore gets the value v, and the sleepers of the given kinds are
\* woken where their count says that there are any.
Count(x, c)   == IF c = "n" THEN sem[x].ncnt ELSE sem[x].zcnt
Put(x, v, K)  == [val |-> v, ncnt |-> IF "n" \in K THEN 0 ELSE sem[x].ncnt,
                             zcnt |-> IF "z" \in K THEN 0 ELSE sem[x].zcnt]
Called(x, K)  == {<<c, x>> : c \in {d \in K : Count(x, d) # 0}}
wakeprocs(f, C) ==
    [p \in Procs |-> IF f[p].pc = "asleep" /\ f[p].chan \in C
                     THEN [f[p] EXCEPT !.pc = "woken"] ELSE f[p]]

\* semunrm(): every process forgets its adjustments of semaphores N of id.
\* Mutated form: the search starts after the lowest semaphore.
semunrmNext(id, N) ==
    [p \in Procs |-> [e \in Keys |->
        IF e[1] = id /\ e[2] \in N \ {0} THEN 0 ELSE undo[p][e]]]
semunrm(id, N) ==
    [p \in Procs |-> [e \in Keys |-> IF e[1] = id /\ e[2] \in N THEN 0 ELSE undo[p][e]]]

\* semaoe(): is there an error, who has a structure after it, and the entry.
Entries(p)         == {e \in Keys : undo[p][e] # 0}
NoStructure(p)     == p \notin holds /\ Cardinality(holds) >= semmnu
AoeError(p, v, e)  ==
    /\ v # 0
    /\ \/ v > semaem \/ v < -semaem
       \/ NoStructure(p)
       \/ e \notin Entries(p) /\ Cardinality(Entries(p)) >= semume
       \/ undo[p][e] - v > semaem \/ undo[p][e] - v < -semaem
AoeHolds(p, v)     ==
    IF v = 0 \/ v > semaem \/ v < -semaem \/ NoStructure(p) THEN holds ELSE holds \cup {p}
AoeAdjust(p, v, e) ==
    IF AoeError(p, v, e) THEN undo ELSE [undo EXCEPT ![p][e] = @ - v]

-----------------------------------------------------------------------------
\* semget(), for a set that does not exist yet.  The values of the semaphores
\* are not touched.
semget(s) ==
    /\ cur = NoProc
    /\ ~sema[s].alloc
    /\ \E n \in NSems, b \in Addrs :
         /\ b + n <= semmns
         /\ \A t \in Sets : sema[t].alloc => Span(t) \cap (b .. (b + n - 1)) = {}
         /\ sema' = [sema EXCEPT ![s].alloc = TRUE, ![s].base = b, ![s].nsems = n]
    /\ UNCHANGED <<sem, undo, holds, semtmp, pr, cur>>

\* semctl(IPC_RMID)
semctlRMID(id) ==
    LET gone == Span(id[1])
    IN /\ cur = NoProc
       /\ semconv(id)
       /\ undo' = semunrm(id, Nums)
       /\ sem' = [x \in Addrs |-> IF x \in gone THEN Put(x, 0, Kinds) ELSE sem[x]]
       /\ pr' = wakeprocs(pr, UNION {Called(x, Kinds) : x \in gone})
       /\ sema' = [sema EXCEPT ![id[1]].alloc = FALSE,
                               ![id[1]].seq = IF @ = SeqMax THEN 0 ELSE @ + 1]
       /\ UNCHANGED <<holds, semtmp, cur>>

\* semctl(SETVAL) and semctl(SETALL): the semaphores N get the values f.
SetKinds(v) == IF v # 0 THEN {"n"} ELSE {"z"}

Assign(id, N, f) ==
    LET s == id[1]
        set == {Addr(s, n) : n \in N}
    IN /\ cur = NoProc
       /\ semconv(id)
       /\ sem' = [x \in Addrs |->
                    IF x \in set THEN LET v == f[x - sema[s].base] IN Put(x, v, SetKinds(v))
                    ELSE sem[x]]
       /\ pr' = wakeprocs(pr, UNION {Called(x, SetKinds(f[x - sema[s].base])) : x \in set})
       /\ undo' = semunrm(id, N)
       /\ UNCHANGED <<sema, holds, cur>>

Members(id) == {n \in Nums : n < sema[id[1]].nsems}

semctlSETVAL(id) ==
    /\ \E n \in Members(id), v \in SemVals : Assign(id, {n}, [m \in {n} |-> v])
    /\ UNCHANGED semtmp

\* The values of SETALL are copied into the union semtmp, where three of them lie
\* over the number, the operation and the flags of each struct sembuf.
SEM_UNDO   == 4096
IPC_NOWAIT == 2048
Bit(v, flag) == (v \div flag) % 2 = 1
Overlaid(f) ==
    [m \in 1..semopm |->
       LET k == 3 * (m - 1)
           o == semtmp[m]
       IN [num    |-> IF k \in DOMAIN f THEN f[k] ELSE o.num,
           op     |-> IF k + 1 \in DOMAIN f THEN f[k + 1] ELSE o.op,
           undo   |-> IF k + 2 \in DOMAIN f THEN Bit(f[k + 2], SEM_UNDO) ELSE o.undo,
           nowait |-> IF k + 2 \in DOMAIN f THEN Bit(f[k + 2], IPC_NOWAIT) ELSE o.nowait]]

semctlSETALL(id) ==
    \E f \in [Members(id) -> SemVals] :
        /\ Assign(id, Members(id), f)
        /\ semtmp' = Overlaid(f)

\* What else semctl() writes there: a semid_ds (IPC_SET, IPC_O_SET, IPC_O_STAT)
\* and the values of a SETALL that is refused.
semctlSET(id) ==
    /\ cur = NoProc
    /\ semconv(id)
    /\ semtmp' \in [1..semopm -> Junk]
    /\ UNCHANGED <<sema, sem, undo, holds, pr, cur>>

-----------------------------------------------------------------------------
\* semop()

\* copyin() of operations j + 1 to the last into the holding area.
Copied(ops, j) ==
    [m \in 1..semopm |-> IF j < m /\ m <= Len(ops) THEN ops[m] ELSE semtmp[m]]

InRange(id, ops, area) == \A j \in DOMAIN ops : area[j].num < sema[id[1]].nsems

InPass(pc, id, ops, i, then) ==
    [pc |-> pc, id |-> id, ops |-> ops, i |-> i, chan |-> Idle.chan, then |-> then]

\* The start of a pass over the operations: straight on.
Pass(p, id, ops, then) ==
    /\ then = "verify" => InRange(id, ops, Copied(ops, 0))
    /\ semtmp' = Copied(ops, 0)
    /\ pr' = [pr EXCEPT ![p] = InPass("ops", id, ops, 1, Idle.then)]
    /\ cur' = p

\* The copyin() takes the first j of them and then has to wait for a page of the user.
PassWaits(p, id, ops, then) ==
    \E j \in 1..Len(ops) :
        /\ semtmp' = [m \in 1..semopm |-> IF m <= j THEN ops[m] ELSE semtmp[m]]
        /\ pr' = [pr EXCEPT ![p] = InPass("copyin", id, ops, j, then)]
        /\ cur' = NoProc

Enters(p, id) == cur = NoProc /\ pr[p].pc = "user" /\ semconv(id)

semop(p, id, ops) ==
    /\ Enters(p, id)
    /\ Pass(p, id, ops, "verify")
    /\ UNCHANGED <<sema, sem, undo, holds>>

SemopWaits(p, id, ops) ==
    /\ Enters(p, id)
    /\ PassWaits(p, id, ops, "verify")
    /\ UNCHANGED <<sema, sem, undo, holds>>

\* The page has come.
Copyin(p) ==
    LET area == Copied(pr[p].ops, pr[p].i)
    IN /\ cur = NoProc
       /\ pr[p].pc = "copyin"
       /\ semtmp' = area
       /\ IF pr[p].then = "verify" /\ ~InRange(pr[p].id, pr[p].ops, area)
          THEN /\ pr' = [pr EXCEPT ![p] = Idle]
               /\ UNCHANGED cur
          ELSE /\ pr' = [pr EXCEPT ![p].pc = "ops", ![p].i = 1, ![p].then = Idle.then]
               /\ cur' = p
       /\ UNCHANGED <<sema, sem, undo, holds>>

\* The operation that a process is at, its semaphore and its undo entry.
Doing(p, pc)  == cur = p /\ pr[p].pc = pc
TheOp(p)      == semtmp[pr[p].i]
TheSem(p)     == Addr(pr[p].id[1], TheOp(p).num)
TheEntry(p)   == <<pr[p].id, TheOp(p).num>>
More(p)       == pr[p].i <= Len(pr[p].ops)

\* Can the operation be done now?  A positive one never waits.
Fits(o, v)    == IF o.op > 0 THEN o.op + v <= semvmx
                 ELSE IF o.op < 0 THEN v >= -o.op ELSE v = 0
Adjusts(o)    == o.undo /\ o.op # 0
\* Mutated form: those who wait for zero are not woken.
OpKindsUp(o, v) == IF o.op > 0 THEN {"n"} ELSE {}
OpKinds(o, v) == IF o.op > 0 THEN {"n"} ELSE IF o.op < 0 /\ v = 0 THEN {"z"} ELSE {}

\* Leave the pass, taking back what it has done.
Rollback(p, then) ==
    pr' = [pr EXCEPT ![p].pc = "undo", ![p].i = @ - 1, ![p].then = then]

SemopDo(p) ==
    LET o == TheOp(p)
        x == TheSem(p)
        v == sem[x].val + o.op
    IN /\ Doing(p, "ops") /\ More(p)
       /\ Fits(o, sem[x].val)
       /\ Adjusts(o) => ~AoeError(p, o.op, TheEntry(p))
       /\ sem' = [sem EXCEPT ![x] = Put(x, v, OpKinds(o, v))]
       /\ undo' = IF Adjusts(o) THEN AoeAdjust(p, o.op, TheEntry(p)) ELSE undo
       /\ holds' = IF Adjusts(o) THEN AoeHolds(p, o.op) ELSE holds
       /\ pr' = wakeprocs([pr EXCEPT ![p].i = @ + 1], Called(x, OpKinds(o, v)))
       /\ UNCHANGED <<sema, semtmp, cur>>

\* ERANGE, or an error of semaoe().
SemopError(p) ==
    LET o == TheOp(p)
        fits == Fits(o, sem[TheSem(p)].val)
    IN /\ Doing(p, "ops") /\ More(p)
       /\ \/ /\ o.op > 0 /\ ~fits
             /\ UNCHANGED holds
          \/ /\ fits /\ Adjusts(o) /\ AoeError(p, o.op, TheEntry(p))
             /\ holds' = AoeHolds(p, o.op)
       /\ Rollback(p, "fail")
       /\ UNCHANGED <<sema, sem, undo, semtmp, cur>>

SemopWait(p) ==
    LET o == TheOp(p)
        kind == IF o.op < 0 THEN "n" ELSE "z"
    IN /\ Doing(p, "ops") /\ More(p)
       /\ o.op <= 0 /\ ~Fits(o, sem[TheSem(p)].val)
       /\ IF o.nowait THEN Rollback(p, "fail")
          ELSE pr' = [pr EXCEPT ![p] = [InPass("undo", @.id, @.ops, @.i - 1, kind)
                                        EXCEPT !.chan = <<kind, TheSem(p)>>]]
       /\ UNCHANGED <<sema, sem, undo, holds, semtmp, cur>>

SemopDone(p) ==
    /\ Doing(p, "ops") /\ ~More(p)
    /\ pr' = [pr EXCEPT ![p] = Idle]
    /\ cur' = NoProc
    /\ UNCHANGED <<sema, sem, undo, holds, semtmp>>

\* Mutated form: the adjustments of the operations stay.
semundoValues(p) ==
    /\ Doing(p, "undo") /\ pr[p].i > 0
    /\ sem' = [sem EXCEPT ![TheSem(p)].val = @ - TheOp(p).op]
    /\ pr' = [pr EXCEPT ![p].i = @ - 1]
    /\ UNCHANGED <<sema, undo, holds, semtmp, cur>>

\* semundo(), one operation at a time from the last one done.
semundo(p) ==
    LET o == TheOp(p)
        x == TheSem(p)
    IN /\ Doing(p, "undo") /\ pr[p].i > 0
       /\ sem' = [sem EXCEPT ![x].val = @ - o.op]
       /\ undo' = IF Adjusts(o) THEN AoeAdjust(p, -o.op, TheEntry(p)) ELSE undo
       /\ holds' = IF Adjusts(o) THEN AoeHolds(p, -o.op) ELSE holds
       /\ pr' = [pr EXCEPT ![p].i = @ - 1]
       /\ UNCHANGED <<sema, semtmp, cur>>

\* All is taken back: return, or count the sleeper and sleep.
SemopLeave(p) ==
    LET x == pr[p].chan[2]
    IN /\ Doing(p, "undo") /\ pr[p].i = 0
       /\ cur' = NoProc
       /\ IF pr[p].then = "fail"
          THEN /\ pr' = [pr EXCEPT ![p] = Idle]
               /\ UNCHANGED sem
          ELSE /\ pr' = [pr EXCEPT ![p].pc = "asleep"]
               /\ sem' = IF pr[p].then = "n" THEN [sem EXCEPT ![x].ncnt = @ + 1]
                                             ELSE [sem EXCEPT ![x].zcnt = @ + 1]
       /\ UNCHANGED <<sema, undo, holds, semtmp>>

\* A signal ends the sleep.
Signal(p) ==
    /\ pr[p].pc = "asleep"
    /\ pr' = [pr EXCEPT ![p].pc = "signalled"]
    /\ UNCHANGED <<sema, sem, undo, holds, semtmp, cur>>

\* A sleeper is stopped and continued: sleep() returns 0, though nobody has called
\* wakeprocs() and the count stays as it is.
Continued(p) ==
    /\ pr[p].pc = "asleep"
    /\ Count(pr[p].chan[2], pr[p].chan[1]) <= CountMax
    /\ pr' = [pr EXCEPT ![p].pc = "woken"]
    /\ UNCHANGED <<sema, sem, undo, holds, semtmp, cur>>

\* sleep() returns 0: look at the set again and start another pass.
Resume(p) ==
    /\ cur = NoProc
    /\ pr[p].pc = "woken"
    /\ IF semconv(pr[p].id)
       THEN Pass(p, pr[p].id, pr[p].ops, "again")
       ELSE pr' = [pr EXCEPT ![p] = Idle] /\ UNCHANGED <<semtmp, cur>>
    /\ UNCHANGED <<sema, sem, undo, holds>>

ResumeWaits(p) ==
    /\ cur = NoProc
    /\ pr[p].pc = "woken"
    /\ semconv(pr[p].id)
    /\ PassWaits(p, pr[p].id, pr[p].ops, "again")
    /\ UNCHANGED <<sema, sem, undo, holds>>

\* Mutated forms: the count is not kept from going below zero; nobody is woken
\* when it gets to zero.
InterruptedBelow(p) ==
    LET x == pr[p].chan[2]
    IN /\ cur = NoProc
       /\ pr[p].pc \in {"woken", "signalled"}
       /\ sem' = IF pr[p].chan[1] = "n" THEN [sem EXCEPT ![x].ncnt = @ - 1]
                                        ELSE [sem EXCEPT ![x].zcnt = @ - 1]
       /\ pr' = [pr EXCEPT ![p] = Idle]
       /\ UNCHANGED <<sema, undo, holds, semtmp, cur>>

InterruptedQuiet(p) ==
    LET c == pr[p].chan[1]
        x == pr[p].chan[2]
    IN /\ cur = NoProc
       /\ pr[p].pc \in {"woken", "signalled"}
       /\ sem' = IF Count(x, c) <= 1 THEN [sem EXCEPT ![x] = Put(x, @.val, {c})]
                 ELSE IF c = "n" THEN [sem EXCEPT ![x].ncnt = @ - 1]
                                 ELSE [sem EXCEPT ![x].zcnt = @ - 1]
       /\ pr' = [pr EXCEPT ![p] = Idle]
       /\ UNCHANGED <<sema, undo, holds, semtmp, cur>>

\* sleep() returns 1: the count of the semaphore slept on goes down, and
\* whoever is left is woken when it gets to zero.
Interrupted(p) ==
    LET c == pr[p].chan[1]
        x == pr[p].chan[2]
        last == Count(x, c) <= 1
        left == [pr EXCEPT ![p] = Idle]
    IN /\ cur = NoProc
       /\ pr[p].pc \in {"woken", "signalled"}
       /\ sem' = IF last THEN [sem EXCEPT ![x] = Put(x, @.val, {c})]
                 ELSE IF c = "n" THEN [sem EXCEPT ![x].ncnt = @ - 1]
                                 ELSE [sem EXCEPT ![x].zcnt = @ - 1]
       /\ pr' = IF last THEN wakeprocs(left, {pr[p].chan}) ELSE left
       /\ UNCHANGED <<sema, undo, holds, semtmp, cur>>

-----------------------------------------------------------------------------
\* semexit(), one adjustment at a time, and the structure goes back.

semexit(p) ==
    /\ cur = NoProc
    /\ pr[p].pc = "user"
    /\ p \in holds
    /\ pr' = [pr EXCEPT ![p].pc = "exit"]
    /\ cur' = p
    /\ UNCHANGED <<sema, sem, undo, holds, semtmp>>

\* Mutated form: the adjusted value is not checked.
SemexitEntryAny(p) ==
    /\ Doing(p, "exit")
    /\ \E e \in Entries(p) :
         /\ undo' = [undo EXCEPT ![p][e] = 0]
         /\ sem' = [sem EXCEPT ![Addr(e[1][1], e[2])].val = @ + undo[p][e]]
    /\ UNCHANGED <<sema, holds, semtmp, pr, cur>>

SemexitEntry(p) ==
    /\ Doing(p, "exit")
    /\ \E e \in Entries(p) :
         LET x == Addr(e[1][1], e[2])
             v == sem[x].val + undo[p][e]
             K == (IF v = 0 THEN {"z"} ELSE {}) \cup (IF undo[p][e] > 0 THEN {"n"} ELSE {})
         IN /\ undo' = [undo EXCEPT ![p][e] = 0]
            /\ IF semconv(e[1]) /\ v >= 0 /\ v <= semvmx
               THEN /\ sem' = [sem EXCEPT ![x] = Put(x, v, K)]
                    /\ pr' = wakeprocs(pr, Called(x, K))
               ELSE UNCHANGED <<sem, pr>>
    /\ UNCHANGED <<sema, holds, semtmp, cur>>

SemexitDone(p) ==
    /\ Doing(p, "exit")
    /\ Entries(p) = {}
    /\ holds' = holds \ {p}
    /\ pr' = [pr EXCEPT ![p] = Idle]
    /\ cur' = NoProc
    /\ UNCHANGED <<sema, sem, undo, semtmp>>

-----------------------------------------------------------------------------
Next ==
    \/ \E s \in Sets : semget(s)
    \/ \E id \in Ids : semctlRMID(id) \/ semctlSETVAL(id) \/ semctlSETALL(id) \/ semctlSET(id)
    \/ \E p \in Procs, id \in Ids, ops \in OpLists : semop(p, id, ops)
    \/ \E p \in Procs :
         \/ SemopDo(p) \/ SemopError(p) \/ SemopWait(p) \/ SemopDone(p)
         \/ semundo(p) \/ SemopLeave(p) \/ Signal(p) \/ Continued(p)
         \/ Resume(p) \/ Interrupted(p)
         \/ semexit(p) \/ SemexitEntry(p) \/ SemexitDone(p)

Spec == Init /\ [][Next]_vars

\* copyin() may also find the user's page absent and wait for it.
PageWait(p) ==
    \/ \E id \in Ids, ops \in OpLists : SemopWaits(p, id, ops)
    \/ ResumeWaits(p) \/ Copyin(p)

PagedNext == Next \/ \E p \in Procs : PageWait(p)
PagedSpec == Init /\ [][PagedNext]_vars

-----------------------------------------------------------------------------
(***************************************************************************)
(* Properties.                                                             *)
(***************************************************************************)

\* Every list fits every set, so that the operations copied in again after a
\* sleep, which are not verified again, are in range even when the set was
\* removed and its id has come round.
ListsFit == \A ops \in OpLists, n \in NSems : \A j \in DOMAIN ops : ops[j].num < n

\* A semaphore never has a value that SETVAL would refuse, not even in the
\* middle of a list of operations or after an exit (sem.c:449, 518, 668).
ValuesInRange == \A x \in Addrs : sem[x].val \in 0..semvmx

\* A process that sleeps is on the count of the semaphore it sleeps on, so
\* that whoever changes the semaphore finds the count non-zero and wakes it.
\* The counts may fall short, because a woken process is still counted out
\* when a signal ends its sleep (sem.c:711-718), but never to zero; and they grow
\* too large when sleepers are stopped and continued.
SleeperIsCounted ==
    \A p \in Procs : pr[p].pc = "asleep" => Count(pr[p].chan[2], pr[p].chan[1]) > 0

\* No adjustment outlives the set it is for: otherwise the exit of a process
\* would adjust a later set of the same id (semunrm() in RMID, sem.c:298).
AdjustmentsAreLive ==
    \A p \in Procs : \A e \in Entries(p) :
        semconv(e[1]) /\ e[2] < sema[e[1][1]].nsems /\ p \in holds

\* A semaphore that belongs to no set is as semget() expects it, which sets
\* neither values nor counts: zero, with nobody counted (sem.c:299-309).
FreeIsClear ==
    \A x \in Addrs :
        (\A s \in Sets : sema[s].alloc => x \notin Span(s))
            => sem[x] = [val |-> 0, ncnt |-> 0, zcnt |-> 0]

\* What semaphores hold, those of sets and those of none (semctl(), semexit()).
SemaphoresOK == ValuesInRange /\ FreeIsClear

\* The holding area has the operations of the process that applies it.
HoldingAreaIsOwn ==
    \A p \in Procs : Doing(p, "ops") =>
        \A j \in DOMAIN pr[p].ops : semtmp[j] = pr[p].ops[j]
=============================================================================
