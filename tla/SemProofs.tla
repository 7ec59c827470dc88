----------------------------- MODULE SemProofs ------------------------------
(***************************************************************************)
(* Proofs about Sem, for every number of processes, sets and semaphores,   *)
(* every limit of seminfo and every collection of semop()s, as long as     *)
(* copyin() does not give up the processor: its types, and two invariants, *)
(* that a sleeper is counted and that an adjustment is for a set that      *)
(* exists.                                                                 *)
(***************************************************************************)
EXTENDS Sem, TLAPS

-----------------------------------------------------------------------------
(***************************************************************************)
(* Types.  What TypeOK needs to be inductive is that the index of a pass   *)
(* stays within the list it walks.                                         *)
(***************************************************************************)
InKernel == {"copyin", "ops", "undo", "asleep", "woken", "signalled"}

Indices ==
    \A p \in Procs :
        /\ pr[p].pc \in InKernel => pr[p].ops \in OpLists
        /\ pr[p].pc = "ops" => pr[p].i \in 1..(Len(pr[p].ops) + 1)
        /\ pr[p].pc = "undo" => pr[p].i <= Len(pr[p].ops)

TypeInv == TypeOK /\ Indices

\* The process in a pass has the processor, and its own list in the holding area,
\* whatever semctl() has left there before.
AreaInv ==
    \A p \in Procs : pr[p].pc \in {"ops", "undo"} =>
        cur = p /\ \A j \in DOMAIN pr[p].ops : semtmp[j] = pr[p].ops[j]

\* wakeprocs() changes the pc of sleepers, and nothing else.
LEMMA WakeprocsType ==
    ASSUME NEW f \in [Procs -> ProcRecord], NEW C
    PROVE  /\ wakeprocs(f, C) \in [Procs -> ProcRecord]
           /\ \A p \in Procs :
                /\ wakeprocs(f, C)[p].id = f[p].id
                /\ wakeprocs(f, C)[p].ops = f[p].ops
                /\ wakeprocs(f, C)[p].i = f[p].i
                /\ wakeprocs(f, C)[p].chan = f[p].chan
                /\ wakeprocs(f, C)[p].then = f[p].then
                /\ wakeprocs(f, C)[p].pc = IF f[p].pc = "asleep" /\ f[p].chan \in C
                                           THEN "woken" ELSE f[p].pc
BY SMTT(30) DEF wakeprocs, ProcRecord

\* A process outside the kernel has the type of one.
LEMMA IdleType == Idle \in ProcRecord
<1>1. Ids # {}
  <2>1. PICK s \in Sets : TRUE
    BY SemAssumption
  <2>2. 0 \in 0..SeqMax
    BY SemAssumption
  <2>3. <<s, 0>> \in Ids
    BY <2>1, <2>2 DEF Ids
  <2> QED
    BY <2>3
<1>2. (CHOOSE id \in Ids : TRUE) \in Ids
  BY <1>1
<1> QED
  BY <1>2, SemAssumption DEF Idle, ProcRecord, Kinds

\* The value and the counts that Put() leaves are those of a semaphore.
LEMMA PutType ==
    ASSUME TypeOK, NEW x \in Addrs, NEW v \in Int, NEW K
    PROVE  Put(x, v, K) \in SemRecord
BY DEF TypeOK, Put, SemRecord

\* semaoe() keeps the adjustments within semaem.
LEMMA AoeAdjustType ==
    ASSUME TypeOK, NEW p \in Procs, NEW v \in Int, NEW e \in Keys
    PROVE  /\ AoeAdjust(p, v, e) \in [Procs -> [Keys -> (-semaem)..semaem]]
           /\ AoeHolds(p, v) \subseteq Procs
<1>1. CASE AoeError(p, v, e)
  BY <1>1 DEF TypeOK, AoeAdjust, AoeHolds
<1>2. CASE ~AoeError(p, v, e)
  <2>1. undo[p][e] \in (-semaem)..semaem
    BY DEF TypeOK
  <2>2. undo[p][e] - v \in (-semaem)..semaem
    BY <1>2, <2>1, SemAssumption DEF AoeError
  <2> QED
    BY <1>2, <2>2 DEF TypeOK, AoeAdjust, AoeHolds
<1> QED
  BY <1>1, <1>2

\* So does semunrm().
LEMMA SemunrmType ==
    ASSUME TypeOK, NEW id, NEW N
    PROVE  semunrm(id, N) \in [Procs -> [Keys -> (-semaem)..semaem]]
BY SemAssumption DEF TypeOK, semunrm

\* copyin() leaves operations in the holding area.
LEMMA CopiedType ==
    ASSUME TypeOK, NEW ops \in OpLists, NEW j \in Nat
    PROVE  Copied(ops, j) \in [1..semopm -> Area]
<1>1. \A m \in 1..Len(ops) : ops[m] \in Area
  <2>1. ops \in Seq(Ops)
    BY SemAssumption
  <2>2. \A m \in 1..Len(ops) : ops[m] \in Ops
    BY <2>1
  <2>3. \A n \in Nums : n \in Nat
    BY SemAssumption DEF Nums
  <2> QED
    BY <2>2, <2>3 DEF Ops, Area
<1> QED
  BY <1>1, SemAssumption DEF TypeOK, Copied

-----------------------------------------------------------------------------
LEMMA TypeInit == Init => TypeInv
<1> SUFFICES ASSUME Init PROVE TypeInv
  OBVIOUS
<1>1. NoOp \in Area /\ 0 \in (-semaem)..semaem /\ 0 \in Addrs /\ 0 \in 0..SeqMax
  BY SemAssumption DEF NoOp, Area, Addrs
<1>2. sema \in [Sets -> SetRecord] /\ sem \in [Addrs -> SemRecord]
  BY <1>1, SemAssumption DEF Init, SetRecord, SemRecord
<1>3. undo \in [Procs -> [Keys -> (-semaem)..semaem]] /\ semtmp \in [1..semopm -> Area]
  BY <1>1 DEF Init
<1>4. pr \in [Procs -> ProcRecord]
  BY IdleType DEF Init
<1>5. Indices
  BY DEF Init, Idle, Indices, InKernel
<1> QED
  BY <1>2, <1>3, <1>4, <1>5 DEF Init, TypeInv, TypeOK

LEMMA TypeGet == ASSUME TypeInv, NEW s \in Sets, semget(s) PROVE TypeInv'
<1>1. PICK n \in NSems, b \in Addrs :
        sema' = [sema EXCEPT ![s].alloc = TRUE, ![s].base = b, ![s].nsems = n]
  BY DEF semget
<1>2. n \in 0..semmns
  BY SemAssumption
<1>3. sema' \in [Sets -> SetRecord]
  BY <1>1, <1>2 DEF TypeInv, TypeOK, SetRecord
<1> QED
  BY <1>3 DEF semget, TypeInv, TypeOK, Indices

\* The steps that only wake processes keep the indices.
LEMMA IndicesWoken ==
    ASSUME TypeOK, Indices, NEW C, pr' = wakeprocs(pr, C)
    PROVE  pr' \in [Procs -> ProcRecord] /\ Indices'
<1>1. pr \in [Procs -> ProcRecord]
  BY DEF TypeOK
<1> QED
  BY <1>1, WakeprocsType DEF Indices, InKernel

LEMMA TypeRemove == ASSUME TypeInv, NEW id \in Ids, semctlRMID(id) PROVE TypeInv'
<1>1. sem' \in [Addrs -> SemRecord]
  <2>1. \A x \in Addrs : Put(x, 0, Kinds) \in SemRecord
    BY PutType DEF TypeInv
  <2> QED
    BY <2>1 DEF semctlRMID, TypeInv, TypeOK
<1>2. sema' \in [Sets -> SetRecord]
  <2>1. id[1] \in Sets
    BY DEF Ids
  <2>2. sema[id[1]] \in SetRecord
    BY <2>1 DEF TypeInv, TypeOK
  <2>3. DEFINE q == IF sema[id[1]].seq = SeqMax THEN 0 ELSE sema[id[1]].seq + 1
  <2>4. q \in 0..SeqMax
    BY <2>2, SemAssumption DEF SetRecord
  <2>5. sema' = [sema EXCEPT ![id[1]].alloc = FALSE, ![id[1]].seq = q]
    BY DEF semctlRMID
  <2> HIDE DEF q
  <2>6. [[sema[id[1]] EXCEPT !.alloc = FALSE] EXCEPT !.seq = q] \in SetRecord
    BY <2>2, <2>4 DEF SetRecord
  <2> QED
    BY <2>1, <2>4, <2>5, <2>6 DEF TypeInv, TypeOK, SetRecord
<1>3. undo' \in [Procs -> [Keys -> (-semaem)..semaem]]
  BY SemunrmType DEF semctlRMID, TypeInv
<1>4. pr' \in [Procs -> ProcRecord] /\ Indices'
  BY IndicesWoken DEF semctlRMID, TypeInv
<1> QED
  BY <1>1, <1>2, <1>3, <1>4 DEF semctlRMID, TypeInv, TypeOK

LEMMA TypeAssign ==
    ASSUME TypeInv, NEW id \in Ids, NEW N \in SUBSET Nums, NEW f \in [N -> SemVals],
           Assign(id, N, f), semtmp' \in [1..semopm -> Area]
    PROVE  TypeInv'
<1>1. sem' \in [Addrs -> SemRecord]
  <2> SUFFICES ASSUME NEW x \in Addrs PROVE sem'[x] \in SemRecord
    BY DEF Assign
  <2>1. CASE x \in {Addr(id[1], n) : n \in N}
    <3>1. PICK n \in N : x = sema[id[1]].base + n
      BY <2>1 DEF Addr
    <3>2. sema[id[1]].base \in Int /\ n \in Int
      BY DEF TypeInv, TypeOK, SetRecord, Addrs, Nums, Ids
    <3>3. x - sema[id[1]].base = n
      BY <3>1, <3>2
    <3>4. f[n] \in SemVals /\ f[n] \in Int
      <4>1. f[n] \in SemVals
        BY <3>1
      <4>2. f[n] \in 0..semvmx /\ semvmx \in Nat
        BY <4>1, SemAssumption
      <4> QED
        BY <4>1, <4>2
    <3>5. Put(x, f[n], SetKinds(f[n])) \in SemRecord
      BY <3>4, PutType DEF TypeInv
    <3> QED
      BY <2>1, <3>3, <3>5 DEF Assign
  <2>2. CASE x \notin {Addr(id[1], n) : n \in N}
    BY <2>2 DEF Assign, TypeInv, TypeOK
  <2> QED
    BY <2>1, <2>2
<1>2. undo' \in [Procs -> [Keys -> (-semaem)..semaem]]
  BY SemunrmType DEF Assign, TypeInv
<1>3. pr' \in [Procs -> ProcRecord] /\ Indices'
  BY IndicesWoken DEF Assign, TypeInv
<1> QED
  BY <1>1, <1>2, <1>3 DEF Assign, TypeInv, TypeOK

\* The start of a pass, for semop() and after a sleep.
LEMMA TypePass ==
    ASSUME TypeInv, NEW p \in Procs, NEW id \in Ids, NEW ops \in OpLists,
           NEW then, Pass(p, id, ops, then)
    PROVE  /\ semtmp' \in [1..semopm -> Area]
           /\ pr' \in [Procs -> ProcRecord]
           /\ cur' \in Procs \cup {NoProc}
           /\ Indices'
<1>1. Len(ops) \in Nat /\ Len(ops) <= semopm /\ (\A m \in 1..Len(ops) : ops[m] \in Ops)
  BY SemAssumption
<1>2. semtmp' \in [1..semopm -> Area]
  BY CopiedType DEF Pass, TypeInv
<1>3. pr' \in [Procs -> ProcRecord]
  <2>1. InPass("ops", id, ops, 1, Idle.then) \in ProcRecord
    BY IdleType DEF InPass, ProcRecord
  <2> QED
    BY <2>1 DEF Pass, TypeInv, TypeOK
<1>4. Indices'
  BY <1>1 DEF Pass, TypeInv, TypeOK, Indices, InKernel, InPass
<1> QED
  BY <1>2, <1>3, <1>4 DEF Pass

LEMMA TypeSemop ==
    ASSUME TypeInv, NEW p \in Procs, NEW id \in Ids, NEW ops \in OpLists, semop(p, id, ops)
    PROVE  TypeInv'
BY TypePass DEF semop, TypeInv, TypeOK

LEMMA TypeResume == ASSUME TypeInv, NEW p \in Procs, Resume(p) PROVE TypeInv'
<1>1. pr[p].id \in Ids /\ pr[p].ops \in OpLists
  BY DEF Resume, TypeInv, TypeOK, Indices, InKernel, ProcRecord
<1>2. CASE Pass(p, pr[p].id, pr[p].ops, "again")
  BY <1>1, <1>2, TypePass DEF Resume, TypeInv, TypeOK
<1>3. CASE pr' = [pr EXCEPT ![p] = Idle] /\ UNCHANGED <<semtmp, cur>>
  BY <1>3, IdleType DEF Resume, TypeInv, TypeOK, Indices, InKernel, Idle
<1> QED
  BY <1>2, <1>3 DEF Resume

\* The operation that a pass is at, and where it applies.
LEMMA TheOpType ==
    ASSUME TypeInv, AreaInv, NEW p \in Procs, pr[p].pc \in {"ops", "undo"}, pr[p].i > 0,
           pr[p].pc = "ops" => More(p)
    PROVE  /\ TheOp(p) \in Ops
           /\ TheOp(p) = pr[p].ops[pr[p].i]
           /\ pr[p].i \in DOMAIN pr[p].ops
           /\ TheOp(p).op \in Int
           /\ TheSem(p) \in Int
           /\ TheEntry(p) \in Keys
           /\ pr[p].i \in 1..semopm
<1>1. pr[p] \in ProcRecord /\ pr[p].i \in Nat /\ pr[p].ops \in OpLists /\ pr[p].id \in Ids
  BY DEF TypeInv, TypeOK, Indices, InKernel, ProcRecord
<1>2. Len(pr[p].ops) \in Nat /\ Len(pr[p].ops) <= semopm /\ semopm \in Nat
  BY <1>1, SemAssumption
<1>3. pr[p].i \in 1..semopm
  BY <1>1, <1>2 DEF TypeInv, Indices, More
<1>8. pr[p].i \in DOMAIN pr[p].ops
  BY <1>1, <1>2, SemAssumption DEF TypeInv, Indices, More
<1>9. TheOp(p) = pr[p].ops[pr[p].i]
  BY <1>8 DEF AreaInv, TheOp
<1>4. TheOp(p) \in Ops
  BY <1>1, <1>8, <1>9, SemAssumption
<1>5. TheEntry(p) \in Keys
  BY <1>1, <1>4 DEF TheEntry, Keys, Ops
<1>6. pr[p].id[1] \in Sets
  BY <1>1 DEF Ids
<1>7. TheSem(p) \in Int
  BY <1>4, <1>6 DEF TheSem, Addr, TypeInv, TypeOK, SetRecord, Addrs, Ops, Nums
<1> QED
  BY <1>3, <1>4, <1>5, <1>7, <1>8, <1>9 DEF Ops

LEMMA TypeDo == ASSUME TypeInv, AreaInv, NEW p \in Procs, SemopDo(p) PROVE TypeInv'
<1> DEFINE o == TheOp(p)
           x == TheSem(p)
           v == sem[x].val + o.op
           f == [pr EXCEPT ![p].i = @ + 1]
<1>1. pr[p] \in ProcRecord /\ pr[p].i \in Nat /\ pr[p].ops \in OpLists
  BY DEF SemopDo, Doing, TypeInv, TypeOK, Indices, InKernel, ProcRecord
<1>2. pr[p].i > 0 /\ More(p) /\ pr[p].pc = "ops"
  BY <1>1 DEF SemopDo, Doing, TypeInv, Indices
<1>3. o \in Ops /\ o.op \in Int /\ x \in Int /\ TheEntry(p) \in Keys
  BY <1>2, TheOpType
<1>4. sem' \in [Addrs -> SemRecord]
  <2>1. CASE x \in Addrs
    <3>1. v \in Int
      BY <1>3, <2>1 DEF TypeInv, TypeOK, SemRecord
    <3>2. Put(x, v, OpKinds(o, v)) \in SemRecord
      BY <2>1, <3>1, PutType DEF TypeInv
    <3> QED
      BY <3>2 DEF SemopDo, TypeInv, TypeOK
  <2>2. CASE x \notin Addrs
    BY <2>2 DEF SemopDo, TypeInv, TypeOK
  <2> QED
    BY <2>1, <2>2
<1>5. undo' \in [Procs -> [Keys -> (-semaem)..semaem]] /\ holds' \subseteq Procs
  <2>1. /\ AoeAdjust(p, o.op, TheEntry(p)) \in [Procs -> [Keys -> (-semaem)..semaem]]
        /\ AoeHolds(p, o.op) \subseteq Procs
    BY <1>3, AoeAdjustType DEF TypeInv
  <2> QED
    BY <2>1 DEF SemopDo, TypeInv, TypeOK
<1>6. f \in [Procs -> ProcRecord]
  <2>1. [pr[p] EXCEPT !.i = @ + 1] \in ProcRecord
    BY <1>1 DEF ProcRecord
  <2> QED
    BY <2>1 DEF TypeInv, TypeOK
<1>7. pr' \in [Procs -> ProcRecord] /\ Indices'
  <2>1. pr' = wakeprocs(f, Called(x, OpKinds(o, v)))
    BY DEF SemopDo
  <2>2. Len(pr[p].ops) \in Nat
    BY <1>1, SemAssumption
  <2>3. /\ \A q \in Procs : f[q].pc = pr[q].pc /\ f[q].ops = pr[q].ops
        /\ \A q \in Procs \ {p} : f[q].i = pr[q].i
        /\ f[p].i = pr[p].i + 1
    BY <1>1 DEF TypeInv, TypeOK
  <2>4. f[p].i \in 1..(Len(f[p].ops) + 1)
    BY <1>1, <1>2, <2>2, <2>3 DEF More
  <2> HIDE DEF f
  <2>5. pr' \in [Procs -> ProcRecord]
    BY <1>6, <2>1, WakeprocsType
  <2>6. \A q \in Procs :
          /\ pr'[q].ops = f[q].ops
          /\ pr'[q].i = f[q].i
          /\ \/ pr'[q].pc = f[q].pc
             \/ f[q].pc = "asleep" /\ pr'[q].pc = "woken"
    BY <1>6, <2>1, WakeprocsType
  <2>7. Indices'
    <3> SUFFICES ASSUME NEW q \in Procs
                 PROVE  /\ pr'[q].pc \in InKernel => pr'[q].ops \in OpLists
                        /\ pr'[q].pc = "ops" => pr'[q].i \in 1..(Len(pr'[q].ops) + 1)
                        /\ pr'[q].pc = "undo" => pr'[q].i <= Len(pr'[q].ops)
      BY DEF Indices
    <3>1. CASE q = p
      BY <1>1, <1>2, <2>3, <2>4, <2>6, <3>1
    <3>2. CASE q # p
      <4>1. \/ pr'[q].pc = pr[q].pc
            \/ pr[q].pc = "asleep" /\ pr'[q].pc = "woken"
        BY <2>3, <2>6
      <4>2. pr'[q].ops = pr[q].ops /\ pr'[q].i = pr[q].i
        BY <2>3, <2>6, <3>2
      <4>3. /\ pr[q].pc \in InKernel => pr[q].ops \in OpLists
            /\ pr[q].pc = "ops" => pr[q].i \in 1..(Len(pr[q].ops) + 1)
            /\ pr[q].pc = "undo" => pr[q].i <= Len(pr[q].ops)
        BY DEF TypeInv, Indices
      <4>4. pr'[q].pc \in InKernel => pr[q].pc \in InKernel
        BY <4>1 DEF InKernel
      <4> QED
        BY <4>1, <4>2, <4>3, <4>4
    <3> QED
      BY <3>1, <3>2
  <2> QED
    BY <2>5, <2>7
<1> QED
  BY <1>4, <1>5, <1>7 DEF SemopDo, TypeInv, TypeOK

\* A pass that is left goes back to undo its operations.
LEMMA TypeRollback ==
    ASSUME TypeInv, NEW p \in Procs, pr[p].pc = "ops", More(p),
           NEW then \in {"fail", "n", "z"}, Rollback(p, then)
    PROVE  pr' \in [Procs -> ProcRecord] /\ Indices'
<1>1. pr[p] \in ProcRecord /\ pr[p].ops \in OpLists /\ pr[p].i \in Nat
  BY DEF TypeInv, TypeOK, Indices, InKernel, ProcRecord
<1>2. Len(pr[p].ops) \in Nat /\ pr[p].i - 1 \in Nat /\ pr[p].i - 1 <= Len(pr[p].ops)
  BY <1>1, SemAssumption DEF TypeInv, Indices
<1>3. [pr[p] EXCEPT !.pc = "undo", !.i = @ - 1, !.then = then] \in ProcRecord
  BY <1>1, <1>2 DEF ProcRecord
<1>4. pr' \in [Procs -> ProcRecord]
  BY <1>3 DEF Rollback, TypeInv, TypeOK
<1>5. Indices'
  BY <1>1, <1>2 DEF Rollback, TypeInv, TypeOK, Indices, InKernel
<1> QED
  BY <1>4, <1>5

LEMMA TypeError == ASSUME TypeInv, NEW p \in Procs, SemopError(p) PROVE TypeInv'
<1>1. pr[p].i > 0 /\ pr[p].i \in Nat /\ pr[p].pc = "ops" /\ More(p)
  BY DEF SemopError, Doing, TypeInv, TypeOK, Indices, ProcRecord
<1>2. pr' \in [Procs -> ProcRecord] /\ Indices'
  BY <1>1, TypeRollback DEF SemopError
<1>3. holds' \subseteq Procs
  BY DEF SemopError, AoeHolds, TypeInv, TypeOK
<1> QED
  BY <1>2, <1>3 DEF SemopError, TypeInv, TypeOK

LEMMA TypeWait == ASSUME TypeInv, AreaInv, NEW p \in Procs, SemopWait(p) PROVE TypeInv'
<1> DEFINE kind == IF TheOp(p).op < 0 THEN "n" ELSE "z"
<1>1. pr[p] \in ProcRecord /\ pr[p].ops \in OpLists /\ pr[p].i \in Nat
      /\ pr[p].pc = "ops" /\ More(p)
  BY DEF SemopWait, Doing, TypeInv, TypeOK, Indices, InKernel, ProcRecord
<1>2. Len(pr[p].ops) \in Nat /\ pr[p].i > 0 /\ pr[p].i - 1 \in Nat
      /\ pr[p].i - 1 <= Len(pr[p].ops)
  BY SMTT(30), <1>1, SemAssumption DEF TypeInv, Indices
<1>3. CASE Rollback(p, "fail")
  BY <1>1, <1>3, TypeRollback DEF SemopWait, TypeInv, TypeOK
<1>4. CASE pr' = [pr EXCEPT ![p] = [InPass("undo", @.id, @.ops, @.i - 1, kind)
                                    EXCEPT !.chan = <<kind, TheSem(p)>>]]
  <2> DEFINE r == [InPass("undo", pr[p].id, pr[p].ops, pr[p].i - 1, kind)
                   EXCEPT !.chan = <<kind, TheSem(p)>>]
  <2>1. r = [pc |-> "undo", id |-> pr[p].id, ops |-> pr[p].ops, i |-> pr[p].i - 1,
             chan |-> <<kind, TheSem(p)>>, then |-> kind]
    BY DEF InPass
  <2>2. TheSem(p) \in Int
    BY <1>1, <1>2, TheOpType
  <2>3. <<kind, TheSem(p)>> \in Kinds \X Int
    BY <2>2 DEF Kinds
  <2>4. pr' = [pr EXCEPT ![p] = r]
    BY <1>4
  <2>5. pr[p].id \in Ids
    BY <1>1 DEF ProcRecord
  <2>6. r.pc = "undo" /\ r.ops = pr[p].ops /\ r.i = pr[p].i - 1
    BY <2>1
  <2>7. r \in ProcRecord
    BY <1>1, <1>2, <2>1, <2>3, <2>5 DEF ProcRecord
  <2> HIDE DEF r, kind
  <2>8. pr' \in [Procs -> ProcRecord]
    BY <2>4, <2>7 DEF TypeInv, TypeOK
  <2>9. Indices'
    BY <1>1, <1>2, <2>4, <2>6 DEF TypeInv, TypeOK, Indices, InKernel
  <2> QED
    BY <2>8, <2>9 DEF SemopWait, TypeInv, TypeOK
<1> QED
  BY <1>3, <1>4 DEF SemopWait

\* A process that leaves the kernel.
LEMMA IndicesIdle ==
    ASSUME TypeInv, NEW p \in Procs, NEW f \in [Procs -> ProcRecord],
           f = [pr EXCEPT ![p] = Idle] \/ \E C : f = wakeprocs([pr EXCEPT ![p] = Idle], C),
           pr' = f
    PROVE  Indices'
<1> DEFINE left == [pr EXCEPT ![p] = Idle]
<1>1. left \in [Procs -> ProcRecord]
  BY IdleType DEF TypeInv, TypeOK
<1>2. \A q \in Procs :
        /\ left[q].pc \in InKernel => left[q].ops \in OpLists
        /\ left[q].pc = "ops" => left[q].i \in 1..(Len(left[q].ops) + 1)
        /\ left[q].pc = "undo" => left[q].i <= Len(left[q].ops)
  BY DEF TypeInv, TypeOK, Indices, InKernel, Idle
<1> HIDE DEF left
<1>3. CASE f = left
  BY <1>2, <1>3 DEF Indices
<1>4. CASE \E C : f = wakeprocs(left, C)
  <2>1. \A q \in Procs :
          /\ f[q].ops = left[q].ops
          /\ f[q].i = left[q].i
          /\ \/ f[q].pc = left[q].pc
             \/ left[q].pc = "asleep" /\ f[q].pc = "woken"
    BY <1>1, <1>4, WakeprocsType
  <2> QED
    BY <1>2, <2>1 DEF Indices, InKernel
<1> QED
  BY <1>3, <1>4 DEF left

LEMMA TypeDone == ASSUME TypeInv, NEW p \in Procs, SemopDone(p) PROVE TypeInv'
<1>1. pr' \in [Procs -> ProcRecord]
  BY IdleType DEF SemopDone, TypeInv, TypeOK
<1>2. Indices'
  BY <1>1, IndicesIdle DEF SemopDone
<1> QED
  BY <1>1, <1>2 DEF SemopDone, TypeInv, TypeOK

LEMMA TypeUndo == ASSUME TypeInv, AreaInv, NEW p \in Procs, semundo(p) PROVE TypeInv'
<1> DEFINE o == TheOp(p)
           x == TheSem(p)
<1>1. pr[p] \in ProcRecord /\ pr[p].i \in Nat /\ pr[p].i > 0 /\ pr[p].ops \in OpLists
      /\ pr[p].pc = "undo"
  BY DEF semundo, Doing, TypeInv, TypeOK, Indices, InKernel, ProcRecord
<1>2. o.op \in Int /\ x \in Int /\ TheEntry(p) \in Keys
  BY <1>1, TheOpType
<1>3. sem' \in [Addrs -> SemRecord]
  <2>1. CASE x \in Addrs
    <3>1. sem[x] \in SemRecord /\ sem[x].val - o.op \in Int
      BY <1>2, <2>1 DEF TypeInv, TypeOK, SemRecord
    <3> HIDE DEF x, o
    <3>2. [sem[x] EXCEPT !.val = @ - o.op] \in SemRecord
      BY <3>1 DEF SemRecord
    <3> QED
      BY <3>2 DEF semundo, TypeInv, TypeOK, x, o
  <2>2. CASE x \notin Addrs
    BY <2>2 DEF semundo, TypeInv, TypeOK
  <2> QED
    BY <2>1, <2>2
<1>4. undo' \in [Procs -> [Keys -> (-semaem)..semaem]] /\ holds' \subseteq Procs
  <2>1. /\ AoeAdjust(p, -o.op, TheEntry(p)) \in [Procs -> [Keys -> (-semaem)..semaem]]
        /\ AoeHolds(p, -o.op) \subseteq Procs
    BY <1>2, AoeAdjustType DEF TypeInv
  <2> QED
    BY <2>1 DEF semundo, TypeInv, TypeOK
<1>5. pr' \in [Procs -> ProcRecord]
  <2>1. [pr[p] EXCEPT !.i = @ - 1] \in ProcRecord
    BY <1>1 DEF ProcRecord
  <2> QED
    BY <2>1 DEF semundo, TypeInv, TypeOK
<1>6. Indices'
  <2>1. Len(pr[p].ops) \in Nat /\ pr[p].i <= Len(pr[p].ops)
    BY <1>1, SemAssumption DEF TypeInv, Indices
  <2>2. pr' = [pr EXCEPT ![p].i = @ - 1]
    BY DEF semundo
  <2> QED
    BY <1>1, <2>1, <2>2 DEF TypeInv, TypeOK, Indices, InKernel
<1> QED
  BY <1>3, <1>4, <1>5, <1>6 DEF semundo, TypeInv, TypeOK

\* One more sleeper in a count, or one less of at least two.
LEMMA CountType ==
    ASSUME TypeInv, NEW x \in Int, NEW k \in {1, -1}
    PROVE  /\ (x \in Addrs => sem[x].ncnt + k \in Nat)
              => [sem EXCEPT ![x].ncnt = @ + k] \in [Addrs -> SemRecord]
           /\ (x \in Addrs => sem[x].zcnt + k \in Nat)
              => [sem EXCEPT ![x].zcnt = @ + k] \in [Addrs -> SemRecord]
<1>1. CASE x \in Addrs
  <2>1. sem[x] \in SemRecord
    BY <1>1 DEF TypeInv, TypeOK
  <2>2. sem[x].ncnt + k \in Nat => [sem[x] EXCEPT !.ncnt = @ + k] \in SemRecord
    BY <2>1 DEF SemRecord
  <2>3. sem[x].zcnt + k \in Nat => [sem[x] EXCEPT !.zcnt = @ + k] \in SemRecord
    BY <2>1 DEF SemRecord
  <2> QED
    BY <1>1, <2>2, <2>3 DEF TypeInv, TypeOK
<1>2. CASE x \notin Addrs
  BY <1>2 DEF TypeInv, TypeOK
<1> QED
  BY <1>1, <1>2

LEMMA TypeLeave == ASSUME TypeInv, NEW p \in Procs, SemopLeave(p) PROVE TypeInv'
<1> DEFINE x == pr[p].chan[2]
<1>1. pr[p] \in ProcRecord /\ pr[p].ops \in OpLists /\ pr[p].pc = "undo"
  BY DEF SemopLeave, Doing, TypeInv, TypeOK, Indices, InKernel
<1>2. x \in Int
  BY <1>1 DEF ProcRecord
<1>3. CASE pr[p].then = "fail"
  <2>1. pr' = [pr EXCEPT ![p] = Idle] /\ UNCHANGED sem
    BY <1>3 DEF SemopLeave
  <2>2. pr' \in [Procs -> ProcRecord]
    BY <2>1, IdleType DEF TypeInv, TypeOK
  <2>3. Indices'
    BY <2>1, <2>2, IndicesIdle
  <2> QED
    BY <2>1, <2>2, <2>3 DEF SemopLeave, TypeInv, TypeOK
<1>4. CASE pr[p].then # "fail"
  <2>1. pr' = [pr EXCEPT ![p].pc = "asleep"]
    BY <1>4 DEF SemopLeave
  <2>2. [pr[p] EXCEPT !.pc = "asleep"] \in ProcRecord
    BY <1>1 DEF ProcRecord
  <2>3. pr' \in [Procs -> ProcRecord]
    BY <2>1, <2>2 DEF TypeInv, TypeOK
  <2>4. Indices'
    BY <1>1, <2>1 DEF TypeInv, TypeOK, Indices, InKernel
  <2>5. x \in Addrs => sem[x].ncnt + 1 \in Nat /\ sem[x].zcnt + 1 \in Nat
    BY DEF TypeInv, TypeOK, SemRecord
  <2>6. sem' = [sem EXCEPT ![x].ncnt = @ + 1] \/ sem' = [sem EXCEPT ![x].zcnt = @ + 1]
    BY <1>4 DEF SemopLeave
  <2>7. sem' \in [Addrs -> SemRecord]
    <3> HIDE DEF x
    <3>1. /\ [sem EXCEPT ![x].ncnt = @ + 1] \in [Addrs -> SemRecord]
          /\ [sem EXCEPT ![x].zcnt = @ + 1] \in [Addrs -> SemRecord]
      BY <1>2, <2>5, CountType
    <3> QED
      BY <2>6, <3>1
  <2> QED
    BY <2>3, <2>4, <2>7 DEF SemopLeave, TypeInv, TypeOK
<1> QED
  BY <1>3, <1>4

LEMMA TypeSignal == ASSUME TypeInv, NEW p \in Procs, Signal(p) PROVE TypeInv'
<1>1. pr[p] \in ProcRecord /\ pr[p].ops \in OpLists
  BY DEF Signal, TypeInv, TypeOK, Indices, InKernel
<1>2. [pr[p] EXCEPT !.pc = "signalled"] \in ProcRecord
  BY <1>1 DEF ProcRecord
<1>3. pr' \in [Procs -> ProcRecord]
  BY <1>2 DEF Signal, TypeInv, TypeOK
<1>4. Indices'
  BY <1>1 DEF Signal, TypeInv, TypeOK, Indices, InKernel
<1> QED
  BY <1>3, <1>4 DEF Signal, TypeInv, TypeOK

LEMMA TypeContinued == ASSUME TypeInv, NEW p \in Procs, Continued(p) PROVE TypeInv'
<1>1. pr[p] \in ProcRecord /\ pr[p].ops \in OpLists
  BY DEF Continued, TypeInv, TypeOK, Indices, InKernel
<1>2. [pr[p] EXCEPT !.pc = "woken"] \in ProcRecord
  BY <1>1 DEF ProcRecord
<1>3. pr' \in [Procs -> ProcRecord]
  BY <1>2 DEF Continued, TypeInv, TypeOK
<1>4. Indices'
  BY <1>1 DEF Continued, TypeInv, TypeOK, Indices, InKernel
<1> QED
  BY <1>3, <1>4 DEF Continued, TypeInv, TypeOK

LEMMA TypeInterrupted == ASSUME TypeInv, NEW p \in Procs, Interrupted(p) PROVE TypeInv'
<1> DEFINE c == pr[p].chan[1]
           x == pr[p].chan[2]
           left == [pr EXCEPT ![p] = Idle]
<1>1. pr[p].chan \in Kinds \X Int
  BY DEF TypeInv, TypeOK, ProcRecord
<1>2. c \in Kinds /\ x \in Int
  BY <1>1
<1>3. left \in [Procs -> ProcRecord]
  BY IdleType DEF TypeInv, TypeOK
<1>4. pr' \in [Procs -> ProcRecord] /\ Indices'
  <2>1. pr' = left \/ pr' = wakeprocs(left, {pr[p].chan})
    BY DEF Interrupted
  <2>2. wakeprocs(left, {pr[p].chan}) \in [Procs -> ProcRecord]
    BY <1>3, WakeprocsType
  <2>3. pr' \in [Procs -> ProcRecord]
    BY <1>3, <2>1, <2>2
  <2> QED
    BY <2>1, <2>3, IndicesIdle
<1>5. sem' \in [Addrs -> SemRecord]
  <2>1. CASE Count(x, c) <= 1
    <3>1. x \in Addrs => Put(x, sem[x].val, {c}) \in SemRecord
      BY PutType DEF TypeInv, TypeOK, SemRecord
    <3> QED
      BY <2>1, <3>1 DEF Interrupted, TypeInv, TypeOK
  <2>2. CASE ~(Count(x, c) <= 1)
    <3>1. CASE c = "n"
      <4>1. x \in Addrs => sem[x].ncnt + (-1) \in Nat
        BY <2>2, <3>1 DEF Count, TypeInv, TypeOK, SemRecord
      <4>2. sem' = [sem EXCEPT ![x].ncnt = @ - 1]
        BY <2>2, <3>1 DEF Interrupted
      <4>3. sem' = [sem EXCEPT ![x].ncnt = @ + (-1)]
        BY <4>2 DEF TypeInv, TypeOK, SemRecord
      <4> QED
        BY <1>2, <4>1, <4>3, CountType
    <3>2. CASE c # "n"
      <4>1. x \in Addrs => sem[x].zcnt + (-1) \in Nat
        BY <2>2, <3>2 DEF Count, TypeInv, TypeOK, SemRecord
      <4>2. sem' = [sem EXCEPT ![x].zcnt = @ - 1]
        BY <2>2, <3>2 DEF Interrupted
      <4>3. sem' = [sem EXCEPT ![x].zcnt = @ + (-1)]
        BY <4>2 DEF TypeInv, TypeOK, SemRecord
      <4> QED
        BY <1>2, <4>1, <4>3, CountType
    <3> QED
      BY <3>1, <3>2
  <2> QED
    BY <2>1, <2>2
<1> QED
  BY <1>4, <1>5 DEF Interrupted, TypeInv, TypeOK

LEMMA TypeExit == ASSUME TypeInv, NEW p \in Procs, semexit(p) PROVE TypeInv'
<1>1. pr[p] \in ProcRecord
  BY DEF TypeInv, TypeOK
<1>2. [pr[p] EXCEPT !.pc = "exit"] \in ProcRecord
  BY <1>1 DEF ProcRecord
<1>3. pr' \in [Procs -> ProcRecord]
  BY <1>2 DEF semexit, TypeInv, TypeOK
<1>4. Indices'
  BY DEF semexit, TypeInv, TypeOK, Indices, InKernel
<1> QED
  BY <1>3, <1>4 DEF semexit, TypeInv, TypeOK

LEMMA TypeExitEntry == ASSUME TypeInv, NEW p \in Procs, SemexitEntry(p) PROVE TypeInv'
<1>1. PICK e \in Entries(p) :
        LET x == Addr(e[1][1], e[2])
            v == sem[x].val + undo[p][e]
            K == (IF v = 0 THEN {"z"} ELSE {}) \cup (IF undo[p][e] > 0 THEN {"n"} ELSE {})
        IN /\ undo' = [undo EXCEPT ![p][e] = 0]
           /\ IF semconv(e[1]) /\ v >= 0 /\ v <= semvmx
              THEN /\ sem' = [sem EXCEPT ![x] = Put(x, v, K)]
                   /\ pr' = wakeprocs(pr, Called(x, K))
              ELSE UNCHANGED <<sem, pr>>
  BY DEF SemexitEntry
<1> DEFINE x == Addr(e[1][1], e[2])
           v == sem[x].val + undo[p][e]
           K == (IF v = 0 THEN {"z"} ELSE {}) \cup (IF undo[p][e] > 0 THEN {"n"} ELSE {})
<1>2. e \in Keys /\ undo[p][e] \in Int
  <2>1. e \in Keys /\ undo[p] \in [Keys -> (-semaem)..semaem]
    BY DEF Entries, TypeInv, TypeOK
  <2>2. undo[p][e] \in (-semaem)..semaem
    BY <2>1
  <2> QED
    BY <2>1, <2>2, SemAssumption
<1>3. undo' \in [Procs -> [Keys -> (-semaem)..semaem]]
  <2>1. undo' = [undo EXCEPT ![p][e] = 0] /\ 0 \in (-semaem)..semaem
    BY <1>1, SemAssumption
  <2> QED
    BY <1>2, <2>1 DEF TypeInv, TypeOK
<1>4. CASE UNCHANGED <<sem, pr>>
  BY <1>3, <1>4 DEF SemexitEntry, TypeInv, TypeOK, Indices
<1>5. CASE /\ sem' = [sem EXCEPT ![x] = Put(x, v, K)]
           /\ pr' = wakeprocs(pr, Called(x, K))
  <2>1. sem' \in [Addrs -> SemRecord]
    <3>1. x \in Addrs => v \in Int
      BY <1>2 DEF TypeInv, TypeOK, SemRecord
    <3>2. x \in Addrs => Put(x, v, K) \in SemRecord
      BY <3>1, PutType DEF TypeInv
    <3> QED
      BY <1>5, <3>2 DEF TypeInv, TypeOK
  <2>2. pr' \in [Procs -> ProcRecord] /\ Indices'
    BY <1>5, IndicesWoken DEF TypeInv
  <2> QED
    BY <1>3, <2>1, <2>2 DEF SemexitEntry, TypeInv, TypeOK
<1> QED
  BY <1>1, <1>4, <1>5

LEMMA TypeExitDone == ASSUME TypeInv, NEW p \in Procs, SemexitDone(p) PROVE TypeInv'
<1>1. pr' \in [Procs -> ProcRecord]
  BY IdleType DEF SemexitDone, TypeInv, TypeOK
<1>2. Indices'
  BY <1>1, IndicesIdle DEF SemexitDone
<1> QED
  BY <1>1, <1>2 DEF SemexitDone, TypeInv, TypeOK

LEMMA TypeSetval == ASSUME TypeInv, NEW id \in Ids, semctlSETVAL(id) PROVE TypeInv'
<1>1. PICK n \in Members(id), v \in SemVals : Assign(id, {n}, [m \in {n} |-> v])
  BY DEF semctlSETVAL
<1>2. {n} \in SUBSET Nums /\ [m \in {n} |-> v] \in [{n} -> SemVals]
  BY DEF Members
<1>3. semtmp' \in [1..semopm -> Area]
  BY DEF semctlSETVAL, TypeInv, TypeOK
<1> QED
  BY <1>1, <1>2, <1>3, TypeAssign

\* The values of SETALL, read as operations.
LEMMA OverlaidType ==
    ASSUME TypeInv, NEW N \in SUBSET Nums, NEW f \in [N -> SemVals]
    PROVE  Overlaid(f) \in [1..semopm -> Area]
<1> SUFFICES ASSUME NEW m \in 1..semopm PROVE Overlaid(f)[m] \in Area
  BY DEF Overlaid
<1> DEFINE k == 3 * (m - 1)
           o == semtmp[m]
<1>1. o \in Area
  BY DEF TypeInv, TypeOK
<1>2. \A i \in DOMAIN f : f[i] \in Nat
  <2>1. \A i \in DOMAIN f : f[i] \in SemVals
    OBVIOUS
  <2>2. \A v \in SemVals : v \in Nat
    BY SemAssumption
  <2> QED
    BY <2>1, <2>2
<1>3. \A v, flag : Bit(v, flag) \in BOOLEAN
  BY DEF Bit
<1>4. DEFINE num == IF k \in DOMAIN f THEN f[k] ELSE o.num
             op == IF k + 1 \in DOMAIN f THEN f[k + 1] ELSE o.op
             un == IF k + 2 \in DOMAIN f THEN Bit(f[k + 2], SEM_UNDO) ELSE o.undo
             now == IF k + 2 \in DOMAIN f THEN Bit(f[k + 2], IPC_NOWAIT) ELSE o.nowait
<1>5. num \in Nat /\ op \in Int
  BY <1>1, <1>2 DEF Area
<1>6. un \in BOOLEAN /\ now \in BOOLEAN
  BY <1>1, <1>3 DEF Area
<1>7. Overlaid(f)[m] = [num |-> num, op |-> op, undo |-> un, nowait |-> now]
  BY DEF Overlaid
<1> HIDE DEF num, op, un, now
<1> QED
  BY <1>5, <1>6, <1>7 DEF Area

LEMMA TypeSetall == ASSUME TypeInv, NEW id \in Ids, semctlSETALL(id) PROVE TypeInv'
<1>1. PICK f \in [Members(id) -> SemVals] : Assign(id, Members(id), f) /\ semtmp' = Overlaid(f)
  BY DEF semctlSETALL
<1>2. Members(id) \in SUBSET Nums
  BY DEF Members
<1>3. semtmp' \in [1..semopm -> Area]
  BY <1>1, <1>2, OverlaidType
<1> QED
  BY <1>1, <1>2, <1>3, TypeAssign

LEMMA TypeSet == ASSUME TypeInv, NEW id \in Ids, semctlSET(id) PROVE TypeInv'
<1>1. semtmp' \in [1..semopm -> Area]
  BY SemAssumption DEF semctlSET
<1> QED
  BY <1>1 DEF semctlSET, TypeInv, TypeOK, Indices

LEMMA TypeStep == TypeInv /\ AreaInv /\ [Next]_vars => TypeInv'
<1> SUFFICES ASSUME TypeInv, AreaInv, [Next]_vars PROVE TypeInv'
  OBVIOUS
<1>1. CASE \E s \in Sets : semget(s)
  BY <1>1, TypeGet
<1>2. CASE \E id \in Ids : semctlRMID(id) \/ semctlSETVAL(id) \/ semctlSETALL(id) \/ semctlSET(id)
  BY <1>2, TypeRemove, TypeSetval, TypeSetall, TypeSet
<1>3. CASE \E p \in Procs, id \in Ids, ops \in OpLists : semop(p, id, ops)
  BY <1>3, TypeSemop
<1>4. ASSUME NEW p \in Procs,
             \/ SemopDo(p) \/ SemopError(p) \/ SemopWait(p) \/ SemopDone(p)
             \/ semundo(p) \/ SemopLeave(p) \/ Signal(p) \/ Continued(p)
             \/ Resume(p) \/ Interrupted(p)
             \/ semexit(p) \/ SemexitEntry(p) \/ SemexitDone(p)
      PROVE  TypeInv'
  BY <1>4, TypeDo, TypeError, TypeWait, TypeDone, TypeUndo, TypeLeave, TypeSignal,
     TypeContinued, TypeResume, TypeInterrupted, TypeExit, TypeExitEntry, TypeExitDone
<1>5. CASE UNCHANGED vars
  BY <1>5 DEF vars, TypeInv, TypeOK, Indices
<1> QED
  BY <1>1, <1>2, <1>3, <1>4, <1>5 DEF Next

-----------------------------------------------------------------------------
(***************************************************************************)
(* The holding area belongs to the process in a pass: a pass begins with   *)
(* the copyin() of the whole list, and no other process runs before it     *)
(* ends.                                                                   *)
(***************************************************************************)
InPasses(f, p) == f[p].pc \in {"ops", "undo"}

\* The steps that start no pass, and leave the area alone or find nobody in one.
LEMMA AreaKept ==
    ASSUME AreaInv, UNCHANGED semtmp \/ cur = NoProc,
           \A q \in Procs : InPasses(pr', q) =>
              InPasses(pr, q) /\ pr'[q].ops = pr[q].ops /\ cur' = cur
    PROVE  AreaInv'
BY SemAssumption DEF AreaInv, InPasses

\* What wakeprocs() does to the processes of f.
LEMMA AreaWoken ==
    ASSUME NEW f \in [Procs -> ProcRecord], NEW C, pr' = wakeprocs(f, C)
    PROVE  \A q \in Procs : InPasses(pr', q) => InPasses(f, q) /\ pr'[q].ops = f[q].ops
BY WakeprocsType DEF InPasses

LEMMA AreaPass ==
    ASSUME TypeInv, AreaInv, NEW p \in Procs, NEW id, NEW ops \in OpLists, NEW then,
           cur = NoProc, Pass(p, id, ops, then)
    PROVE  AreaInv'
<1>1. /\ pr'[p].ops = ops /\ cur' = p
      /\ \A q \in Procs \ {p} : pr'[q] = pr[q]
  BY DEF Pass, InPass, TypeInv, TypeOK
<1>2. \A j \in DOMAIN ops : semtmp'[j] = ops[j]
  <2>1. Len(ops) \in Nat /\ DOMAIN ops = 1..Len(ops) /\ Len(ops) <= semopm
    BY SemAssumption
  <2> QED
    BY <2>1, SemAssumption DEF Pass, Copied
<1>3. \A q \in Procs \ {p} : pr'[q].pc \notin {"ops", "undo"}
  BY <1>1, SemAssumption DEF AreaInv
<1> QED
  BY <1>1, <1>2, <1>3 DEF AreaInv

LEMMA AreaStep == TypeInv /\ AreaInv /\ [Next]_vars => AreaInv'
<1> SUFFICES ASSUME TypeInv, AreaInv, [Next]_vars PROVE AreaInv'
  OBVIOUS
<1>0. pr \in [Procs -> ProcRecord] /\ \A p \in Procs : pr[p] \in ProcRecord
  BY DEF TypeInv, TypeOK
<1>1. CASE \E s \in Sets : semget(s)
  BY <1>1, AreaKept DEF semget
<1>2. ASSUME NEW id \in Ids,
             semctlRMID(id) \/ semctlSETVAL(id) \/ semctlSETALL(id) \/ semctlSET(id)
      PROVE  AreaInv'
  <2>1. cur = NoProc /\ UNCHANGED cur /\ (UNCHANGED pr \/ \E C : pr' = wakeprocs(pr, C))
    BY <1>2 DEF semctlRMID, semctlSETVAL, semctlSETALL, semctlSET, Assign
  <2> QED
    BY <1>0, <2>1, AreaWoken, AreaKept
<1>3. ASSUME NEW p \in Procs, NEW id \in Ids, NEW ops \in OpLists, semop(p, id, ops)
      PROVE  AreaInv'
  BY <1>3, AreaPass DEF semop, Enters
<1>4. ASSUME NEW p \in Procs, SemopDo(p) PROVE AreaInv'
  <2> DEFINE f == [pr EXCEPT ![p].i = @ + 1]
  <2>1. [pr[p] EXCEPT !.i = @ + 1] \in ProcRecord
    BY <1>0 DEF ProcRecord
  <2>2. f \in [Procs -> ProcRecord]
    BY <1>0, <2>1
  <2>3. \A q \in Procs : f[q].pc = pr[q].pc /\ f[q].ops = pr[q].ops
    BY <1>0
  <2>4. UNCHANGED <<cur, semtmp>> /\ \E C : pr' = wakeprocs(f, C)
    BY <1>4 DEF SemopDo
  <2> HIDE DEF f
  <2> QED
    BY <2>2, <2>3, <2>4, AreaWoken, AreaKept DEF InPasses
<1>5. ASSUME NEW p \in Procs, SemopError(p) \/ SemopWait(p) PROVE AreaInv'
  <2>1. pr[p] \in ProcRecord
    BY <1>0
  <2>2. /\ UNCHANGED <<cur, semtmp>> /\ pr[p].pc = "ops" /\ pr'[p].ops = pr[p].ops
        /\ \A q \in Procs \ {p} : pr'[q] = pr[q]
    BY <1>0, <1>5, <2>1 DEF SemopError, SemopWait, Rollback, InPass, Doing, ProcRecord
  <2> QED
    BY <2>2, AreaKept DEF InPasses
<1>6. ASSUME NEW p \in Procs, semundo(p) PROVE AreaInv'
  <2>1. pr[p] \in ProcRecord
    BY <1>0
  <2>2. /\ UNCHANGED <<cur, semtmp>> /\ pr[p].pc = "undo" /\ pr'[p].ops = pr[p].ops
        /\ \A q \in Procs \ {p} : pr'[q] = pr[q]
    BY <1>0, <1>6, <2>1 DEF semundo, Doing, ProcRecord
  <2> QED
    BY <2>2, AreaKept DEF InPasses
<1>7. ASSUME NEW p \in Procs, SemopDone(p) \/ SemopLeave(p) \/ SemexitDone(p) PROVE AreaInv'
  <2>1. pr[p] \in ProcRecord
    BY <1>0
  <2>2. /\ UNCHANGED semtmp /\ cur = p /\ pr'[p].pc \in {"user", "asleep"}
        /\ \A q \in Procs \ {p} : pr'[q] = pr[q]
    BY <1>0, <1>7, <2>1 DEF SemopDone, SemopLeave, SemexitDone, Doing, Idle, ProcRecord
  <2>3. \A q \in Procs : ~InPasses(pr', q)
    BY <2>2 DEF InPasses, AreaInv
  <2> QED
    BY <2>2, <2>3, AreaKept
<1>8. ASSUME NEW p \in Procs, Signal(p) \/ Continued(p) PROVE AreaInv'
  <2>1. pr[p] \in ProcRecord
    BY <1>0
  <2>2. /\ UNCHANGED <<cur, semtmp>> /\ pr'[p].pc \in {"signalled", "woken"}
        /\ \A q \in Procs \ {p} : pr'[q] = pr[q]
    BY <1>0, <1>8, <2>1 DEF Signal, Continued, ProcRecord
  <2> QED
    BY <2>2, AreaKept DEF InPasses
<1>9. ASSUME NEW p \in Procs, Resume(p) PROVE AreaInv'
  <2>1. pr[p].ops \in OpLists
    BY <1>9 DEF Resume, TypeInv, Indices, InKernel
  <2>2. CASE Pass(p, pr[p].id, pr[p].ops, "again")
    BY <1>9, <2>1, <2>2, AreaPass DEF Resume
  <2>3. CASE pr' = [pr EXCEPT ![p] = Idle] /\ UNCHANGED <<semtmp, cur>>
    BY <1>0, <2>3, AreaKept DEF InPasses, Idle
  <2> QED
    BY <1>9, <2>2, <2>3 DEF Resume
<1>10. ASSUME NEW p \in Procs, Interrupted(p) PROVE AreaInv'
  <2> DEFINE left == [pr EXCEPT ![p] = Idle]
  <2>1. left \in [Procs -> ProcRecord]
    BY <1>0, IdleType
  <2>2. \A q \in Procs : InPasses(left, q) => InPasses(pr, q) /\ left[q].ops = pr[q].ops
    BY <1>0 DEF InPasses, Idle
  <2>3. UNCHANGED <<cur, semtmp>> /\ (pr' = left \/ \E C : pr' = wakeprocs(left, C))
    BY <1>10 DEF Interrupted
  <2> HIDE DEF left
  <2> QED
    BY <2>1, <2>2, <2>3, AreaWoken, AreaKept
<1>11. ASSUME NEW p \in Procs, semexit(p) PROVE AreaInv'
  <2>1. pr[p] \in ProcRecord
    BY <1>0
  <2>2. /\ UNCHANGED semtmp /\ cur = NoProc /\ pr'[p].pc = "exit"
        /\ \A q \in Procs \ {p} : pr'[q] = pr[q]
    BY <1>0, <1>11, <2>1 DEF semexit, ProcRecord
  <2>3. \A q \in Procs : ~InPasses(pr', q)
    BY <2>2, SemAssumption DEF InPasses, AreaInv
  <2> QED
    BY <2>2, <2>3, AreaKept
<1>12. ASSUME NEW p \in Procs, SemexitEntry(p) PROVE AreaInv'
  <2>1. UNCHANGED <<cur, semtmp>> /\ (UNCHANGED pr \/ \E C : pr' = wakeprocs(pr, C))
    BY <1>12 DEF SemexitEntry
  <2> QED
    BY <1>0, <2>1, AreaWoken, AreaKept
<1>13. CASE UNCHANGED vars
  BY <1>13, AreaKept DEF vars
<1> QED
  BY <1>1, <1>2, <1>3, <1>4, <1>5, <1>6, <1>7, <1>8, <1>9, <1>10, <1>11, <1>12, <1>13 DEF Next

LEMMA AreaInit == Init => AreaInv
BY DEF Init, Idle, AreaInv

\* As long as copyin() finds its pages, every state has the types of TypeOK: the
\* number of an operation that is applied is one of a list, never what semctl() has
\* left in the holding area, and no adjustment goes beyond semaem.
THEOREM TypeCorrect == Spec => []TypeOK
<1>1. Init => TypeInv /\ AreaInv
  BY TypeInit, AreaInit
<1>2. TypeInv /\ AreaInv /\ [Next]_vars => (TypeInv /\ AreaInv)'
  BY TypeStep, AreaStep
<1> QED
  BY <1>1, <1>2, PTL DEF Spec, TypeInv

\* And the process in a pass applies its own list (semtmp, sem.c:633 and 659): what
\* the run with PagedSpec refutes holds where no copyin() waits.
THEOREM HoldingAreaOwn == Spec => []HoldingAreaIsOwn
<1>1. Init => TypeInv /\ AreaInv
  BY TypeInit, AreaInit
<1>2. TypeInv /\ AreaInv /\ [Next]_vars => (TypeInv /\ AreaInv)'
  BY TypeStep, AreaStep
<1>3. AreaInv => HoldingAreaIsOwn
  BY DEF AreaInv, HoldingAreaIsOwn, Doing
<1> QED
  BY <1>1, <1>2, <1>3, PTL DEF Spec

-----------------------------------------------------------------------------
(***************************************************************************)
(* Every access to sem[] is to a semaphore of the set of the semop(): the  *)
(* sets lie within sem[], and the operations, verified or not, are within  *)
(* the sets because the lists fit every set (ListsFit).                    *)
(***************************************************************************)
SetsFit ==
    \A s \in Sets : sema[s].alloc \/ sema[s].nsems # 0 =>
        sema[s].nsems \in NSems /\ sema[s].base + sema[s].nsems <= semmns

InSet == \A p \in Procs : pr[p].pc \in InKernel => sema[pr[p].id[1]].nsems # 0

Channels ==
    \A p \in Procs :
        /\ pr[p].pc = "asleep" => pr[p].chan[2] \in Addrs
        /\ pr[p].pc = "undo" /\ pr[p].then # "fail"
             => pr[p].chan[2] \in Addrs /\ pr[p].then = pr[p].chan[1]

Fit == SetsFit /\ InSet /\ Channels

FitInv == ListsFit /\ TypeInv /\ AreaInv /\ Fit

LEMMA FitInit == Init => Fit
<1> SUFFICES ASSUME Init PROVE Fit
  OBVIOUS
<1>1. SetsFit /\ InSet /\ Channels
  BY DEF Init, Idle, SetsFit, InSet, Channels, InKernel
<1> QED
  BY <1>1 DEF Fit

\* The semaphore that a pass is at is one of sem[].
LEMMA TheSemFits ==
    ASSUME FitInv, NEW p \in Procs, pr[p].pc \in {"ops", "undo"}, pr[p].i > 0,
           pr[p].pc = "ops" => More(p)
    PROVE  TheSem(p) \in Addrs /\ TheOp(p).num < sema[pr[p].id[1]].nsems
<1> DEFINE s == pr[p].id[1]
<1>1. TheOp(p) \in Ops /\ TheOp(p) = pr[p].ops[pr[p].i] /\ pr[p].i \in DOMAIN pr[p].ops
  BY TheOpType DEF FitInv
<1>0. pr[p].ops \in OpLists
  BY DEF FitInv, TypeInv, Indices, InKernel
<1>2. s \in Sets
  BY DEF FitInv, TypeInv, TypeOK, ProcRecord, Ids
<1>3. sema[s].nsems \in NSems /\ sema[s].base + sema[s].nsems <= semmns
  BY <1>2 DEF FitInv, Fit, InSet, SetsFit, InKernel
<1>4. sema[s].base \in Nat /\ sema[s].nsems \in Nat
  BY <1>2, SemAssumption DEF FitInv, TypeInv, TypeOK, SetRecord, Addrs
<1>5. TheOp(p).num < sema[s].nsems
  BY <1>0, <1>1, <1>3 DEF FitInv, ListsFit
<1>6. TheOp(p).num \in Nat
  BY <1>1, SemAssumption DEF Ops, Nums
<1>7. sema[s].base + TheOp(p).num \in 0..(semmns - 1)
  BY <1>3, <1>4, <1>5, <1>6, SemAssumption
<1> QED
  BY <1>5, <1>7 DEF TheSem, Addr, Addrs

\* No set is allocated, though one may be removed.
SetsStay ==
    \A s \in Sets : /\ sema'[s].base = sema[s].base
                    /\ sema'[s].nsems = sema[s].nsems
                    /\ sema'[s].alloc => sema[s].alloc

\* The steps that move no set and put nothing new in the holding area.
LEMMA FitKept ==
    ASSUME FitInv, SetsStay,
           \A q \in Procs :
              \/ pr'[q].pc \notin InKernel
              \/ /\ pr'[q].id = pr[q].id
                 /\ pr'[q].chan = pr[q].chan
                 /\ pr'[q].then = pr[q].then
                 /\ pr[q].pc \in InKernel
                 /\ pr'[q].pc \in {"asleep", "undo"} => pr'[q].pc = pr[q].pc
    PROVE  Fit'
<1>1. SetsFit'
  BY DEF SetsStay, FitInv, Fit, SetsFit
<1>2. InSet'
  <2> SUFFICES ASSUME NEW q \in Procs, pr'[q].pc \in InKernel
               PROVE  sema'[pr'[q].id[1]].nsems # 0
    BY DEF InSet
  <2>1. pr[q].id[1] \in Sets /\ pr'[q].id = pr[q].id
    BY DEF FitInv, TypeInv, TypeOK, ProcRecord, Ids
  <2> QED
    BY <2>1 DEF SetsStay, FitInv, Fit, InSet
<1>3. Channels'
  BY DEF FitInv, Fit, Channels, InKernel
<1> QED
  BY <1>1, <1>2, <1>3 DEF FitInv, Fit

\* Those of them that wake processes.
LEMMA FitWoken ==
    ASSUME FitInv, SetsStay,
           NEW f \in [Procs -> ProcRecord], NEW C, pr' = wakeprocs(f, C),
           \A q \in Procs : \/ f[q].pc \notin InKernel
                            \/ /\ f[q].id = pr[q].id
                               /\ f[q].chan = pr[q].chan
                               /\ f[q].then = pr[q].then
                               /\ f[q].pc = pr[q].pc
    PROVE  Fit'
<1>1. \A q \in Procs : /\ pr'[q].id = f[q].id
                       /\ pr'[q].chan = f[q].chan
                       /\ pr'[q].then = f[q].then
                       /\ \/ pr'[q].pc = f[q].pc
                          \/ f[q].pc = "asleep" /\ pr'[q].pc = "woken"
  BY WakeprocsType
<1>2. \A q \in Procs :
         \/ pr'[q].pc \notin InKernel
         \/ /\ pr'[q].id = pr[q].id
            /\ pr'[q].chan = pr[q].chan
            /\ pr'[q].then = pr[q].then
            /\ pr[q].pc \in InKernel
            /\ pr'[q].pc \in {"asleep", "undo"} => pr'[q].pc = pr[q].pc
  BY <1>1 DEF InKernel
<1> QED
  BY <1>2, FitKept

LEMMA FitGet == ASSUME FitInv, NEW s \in Sets, semget(s) PROVE Fit'
<1>1. PICK n \in NSems, b \in Addrs :
        /\ b + n <= semmns
        /\ sema' = [sema EXCEPT ![s].alloc = TRUE, ![s].base = b, ![s].nsems = n]
  BY DEF semget
<1>2. n # 0
  BY SemAssumption
<1>3. \A t \in Sets : IF t = s THEN sema'[t].nsems = n /\ sema'[t].base = b
                                ELSE sema'[t] = sema[t]
  BY <1>1 DEF FitInv, TypeInv, TypeOK, SetRecord
<1>4. SetsFit'
  BY <1>1, <1>3 DEF FitInv, Fit, SetsFit
<1>5. InSet'
  <2>1. \A q \in Procs : pr[q].id[1] \in Sets
    BY DEF FitInv, TypeInv, TypeOK, ProcRecord, Ids
  <2> QED
    BY <1>2, <1>3, <2>1 DEF semget, FitInv, Fit, InSet
<1> QED
  BY <1>4, <1>5 DEF semget, FitInv, Fit, Channels

LEMMA FitRemove == ASSUME FitInv, NEW id \in Ids, semctlRMID(id) PROVE Fit'
<1> DEFINE q == IF sema[id[1]].seq = SeqMax THEN 0 ELSE sema[id[1]].seq + 1
<1>1. sema' = [sema EXCEPT ![id[1]].alloc = FALSE, ![id[1]].seq = q]
  BY DEF semctlRMID
<1> HIDE DEF q
<1>2. SetsStay
  BY <1>1 DEF SetsStay, FitInv, TypeInv, TypeOK, SetRecord
<1>3. \E C : pr' = wakeprocs(pr, C)
  BY DEF semctlRMID
<1>4. pr \in [Procs -> ProcRecord]
  BY DEF FitInv, TypeInv, TypeOK
<1> QED
  BY <1>2, <1>3, <1>4, FitWoken

LEMMA FitAssign ==
    ASSUME FitInv, NEW id, NEW N, NEW f, Assign(id, N, f)
    PROVE  Fit'
<1>1. UNCHANGED sema /\ \E C : pr' = wakeprocs(pr, C)
  BY DEF Assign
<1>2. pr \in [Procs -> ProcRecord]
  BY DEF FitInv, TypeInv, TypeOK
<1>3. SetsStay
  BY <1>1 DEF SetsStay
<1> QED
  BY <1>1, <1>2, <1>3, FitWoken

LEMMA FitSet == ASSUME FitInv, NEW id, semctlSET(id) PROVE Fit'
BY DEF semctlSET, FitInv, Fit, SetsFit, InSet, Channels

LEMMA FitPass ==
    ASSUME FitInv, NEW p \in Procs, NEW id \in Ids, NEW ops \in OpLists,
           NEW then \in {"verify", "again"},
           Pass(p, id, ops, then), semconv(id), UNCHANGED sema
    PROVE  Fit'
<1>2. pr' = [pr EXCEPT ![p] = InPass("ops", id, ops, 1, Idle.then)]
  BY DEF Pass
<1>3. pr'[p].pc = "ops" /\ pr'[p].id = id
  BY <1>2 DEF InPass, FitInv, TypeInv, TypeOK
<1>4. \A q \in Procs \ {p} : pr'[q] = pr[q]
  BY <1>2 DEF FitInv, TypeInv, TypeOK
<1>6. sema[id[1]].nsems # 0
  BY SemAssumption DEF semconv, Ids, FitInv, Fit, SetsFit
<1>7. InSet' /\ Channels'
  BY <1>3, <1>4, <1>6 DEF FitInv, Fit, InSet, Channels, InKernel
<1> QED
  BY <1>7 DEF FitInv, Fit, SetsFit

LEMMA FitSemop ==
    ASSUME FitInv, NEW p \in Procs, NEW id \in Ids, NEW ops \in OpLists, semop(p, id, ops)
    PROVE  Fit'
BY FitPass DEF semop, Enters

LEMMA FitResume == ASSUME FitInv, NEW p \in Procs, Resume(p) PROVE Fit'
<1>1. pr[p].id \in Ids /\ pr[p].ops \in OpLists
  BY DEF Resume, FitInv, TypeInv, TypeOK, Indices, InKernel, ProcRecord
<1>2. CASE semconv(pr[p].id) /\ Pass(p, pr[p].id, pr[p].ops, "again")
  BY <1>1, <1>2, FitPass DEF Resume
<1>3. CASE pr' = [pr EXCEPT ![p] = Idle] /\ UNCHANGED <<semtmp, cur>>
  BY <1>3, IdleType DEF Resume, FitInv, TypeInv, TypeOK, Fit, SetsFit, InSet, Channels,
                        InKernel, Idle
<1> QED
  BY <1>2, <1>3 DEF Resume

LEMMA FitDo == ASSUME FitInv, NEW p \in Procs, SemopDo(p) PROVE Fit'
<1> DEFINE f == [pr EXCEPT ![p].i = @ + 1]
<1>1. pr[p] \in ProcRecord
  BY DEF FitInv, TypeInv, TypeOK
<1>2. [pr[p] EXCEPT !.i = @ + 1] \in ProcRecord
  BY <1>1 DEF ProcRecord
<1>3. f \in [Procs -> ProcRecord]
  BY <1>2 DEF FitInv, TypeInv, TypeOK
<1>4. \A q \in Procs : /\ f[q].id = pr[q].id
                       /\ f[q].chan = pr[q].chan
                       /\ f[q].then = pr[q].then
                       /\ f[q].pc = pr[q].pc
  BY <1>1 DEF FitInv, TypeInv, TypeOK
<1>5. SetsStay /\ UNCHANGED semtmp /\ \E C : pr' = wakeprocs(f, C)
  BY DEF SemopDo, SetsStay
<1> HIDE DEF f
<1> QED
  BY <1>3, <1>4, <1>5, FitWoken

\* A pass that fails.
LEMMA FitRollback ==
    ASSUME FitInv, NEW p \in Procs, pr[p].pc = "ops", Rollback(p, "fail"), UNCHANGED <<sema, semtmp>>
    PROVE  Fit'
<1>1. pr[p] \in ProcRecord
  BY DEF FitInv, TypeInv, TypeOK
<1>2. /\ pr'[p].pc = "undo" /\ pr'[p].id = pr[p].id /\ pr'[p].then = "fail"
      /\ \A q \in Procs \ {p} : pr'[q] = pr[q]
  BY <1>1 DEF Rollback, FitInv, TypeInv, TypeOK, ProcRecord
<1>3. InSet' /\ Channels'
  BY <1>2 DEF FitInv, Fit, InSet, Channels, InKernel
<1> QED
  BY <1>3 DEF FitInv, Fit, SetsFit

LEMMA FitError == ASSUME FitInv, NEW p \in Procs, SemopError(p) PROVE Fit'
BY FitRollback DEF SemopError, Doing

LEMMA FitWait == ASSUME FitInv, NEW p \in Procs, SemopWait(p) PROVE Fit'
<1> DEFINE kind == IF TheOp(p).op < 0 THEN "n" ELSE "z"
           r == [InPass("undo", pr[p].id, pr[p].ops, pr[p].i - 1, kind)
                 EXCEPT !.chan = <<kind, TheSem(p)>>]
<1>1. CASE Rollback(p, "fail")
  BY <1>1, FitRollback DEF SemopWait, Doing
<1>2. CASE pr' = [pr EXCEPT ![p] = r]
  <2>1. pr[p].pc = "ops" /\ More(p) /\ pr[p].i > 0
    BY DEF SemopWait, Doing, FitInv, TypeInv, Indices
  <2>2. TheSem(p) \in Addrs
    BY <2>1, TheSemFits
  <2>3. r.pc = "undo" /\ r.id = pr[p].id /\ r.then = kind /\ r.chan = <<kind, TheSem(p)>>
    BY DEF InPass
  <2> HIDE DEF r, kind
  <2>4. /\ pr'[p] = r
        /\ \A q \in Procs \ {p} : pr'[q] = pr[q]
    BY <1>2 DEF FitInv, TypeInv, TypeOK
  <2>5. InSet'
    BY <2>1, <2>3, <2>4 DEF SemopWait, FitInv, Fit, InSet, InKernel
  <2>6. Channels'
    BY <2>2, <2>3, <2>4 DEF FitInv, Fit, Channels
  <2> QED
    BY <2>5, <2>6 DEF SemopWait, FitInv, Fit, SetsFit
<1> QED
  BY <1>1, <1>2 DEF SemopWait

LEMMA FitUndo == ASSUME FitInv, NEW p \in Procs, semundo(p) PROVE Fit'
<1>1. pr[p] \in ProcRecord
  BY DEF FitInv, TypeInv, TypeOK
<1>2. pr' = [pr EXCEPT ![p].i = @ - 1]
  BY DEF semundo
<1>3. \A q \in Procs : /\ pr'[q].id = pr[q].id
                       /\ pr'[q].chan = pr[q].chan
                       /\ pr'[q].then = pr[q].then
                       /\ pr'[q].pc = pr[q].pc
  BY <1>1, <1>2 DEF FitInv, TypeInv, TypeOK
<1>4. SetsStay /\ UNCHANGED semtmp
  BY DEF semundo, SetsStay
<1> QED
  BY <1>3, <1>4, FitKept DEF InKernel

\* A process that leaves the kernel.
LEMMA FitIdle ==
    ASSUME FitInv, NEW p \in Procs, pr' = [pr EXCEPT ![p] = Idle], UNCHANGED <<sema, semtmp>>
    PROVE  Fit'
<1>1. /\ pr'[p].pc \notin InKernel
      /\ \A q \in Procs \ {p} : pr'[q] = pr[q]
  BY DEF Idle, InKernel, FitInv, TypeInv, TypeOK
<1>2. InSet' /\ Channels'
  BY <1>1 DEF FitInv, Fit, InSet, Channels, InKernel
<1> QED
  BY <1>2 DEF FitInv, Fit, SetsFit

LEMMA FitDone == ASSUME FitInv, NEW p \in Procs, SemopDone(p) PROVE Fit'
BY FitIdle DEF SemopDone

LEMMA FitLeave == ASSUME FitInv, NEW p \in Procs, SemopLeave(p) PROVE Fit'
<1>1. CASE pr' = [pr EXCEPT ![p] = Idle]
  BY <1>1, FitIdle DEF SemopLeave
<1>2. CASE pr[p].then # "fail" /\ pr' = [pr EXCEPT ![p].pc = "asleep"]
  <2>1. pr[p] \in ProcRecord
    BY DEF FitInv, TypeInv, TypeOK
  <2>2. /\ pr'[p].pc = "asleep" /\ pr'[p].id = pr[p].id /\ pr'[p].chan = pr[p].chan
        /\ pr[p].pc = "undo"
        /\ \A q \in Procs \ {p} : pr'[q] = pr[q]
    BY <1>2, <2>1 DEF SemopLeave, Doing, FitInv, TypeInv, TypeOK, ProcRecord
  <2>3. InSet' /\ Channels'
    BY <1>2, <2>2 DEF SemopLeave, FitInv, Fit, InSet, Channels, InKernel
  <2> QED
    BY <2>3 DEF SemopLeave, FitInv, Fit, SetsFit
<1> QED
  BY <1>1, <1>2 DEF SemopLeave

LEMMA FitSignal == ASSUME FitInv, NEW p \in Procs, Signal(p) PROVE Fit'
<1>1. pr[p] \in ProcRecord
  BY DEF FitInv, TypeInv, TypeOK
<1>2. /\ pr'[p].pc = "signalled" /\ pr'[p].id = pr[p].id /\ pr[p].pc = "asleep"
      /\ \A q \in Procs \ {p} : pr'[q] = pr[q]
  BY <1>1 DEF Signal, FitInv, TypeInv, TypeOK, ProcRecord
<1>3. InSet' /\ Channels'
  BY <1>2 DEF Signal, FitInv, Fit, InSet, Channels, InKernel
<1> QED
  BY <1>3 DEF Signal, FitInv, Fit, SetsFit

LEMMA FitContinued == ASSUME FitInv, NEW p \in Procs, Continued(p) PROVE Fit'
<1>1. pr[p] \in ProcRecord
  BY DEF FitInv, TypeInv, TypeOK
<1>2. /\ pr'[p].pc = "woken" /\ pr'[p].id = pr[p].id /\ pr[p].pc = "asleep"
      /\ \A q \in Procs \ {p} : pr'[q] = pr[q]
  BY <1>1 DEF Continued, FitInv, TypeInv, TypeOK, ProcRecord
<1>3. InSet' /\ Channels'
  BY <1>2 DEF Continued, FitInv, Fit, InSet, Channels, InKernel
<1> QED
  BY <1>3 DEF Continued, FitInv, Fit, SetsFit

LEMMA FitInterrupted == ASSUME FitInv, NEW p \in Procs, Interrupted(p) PROVE Fit'
<1> DEFINE left == [pr EXCEPT ![p] = Idle]
<1>1. left \in [Procs -> ProcRecord]
  BY IdleType DEF FitInv, TypeInv, TypeOK
<1>2. left[p].pc \notin InKernel /\ \A q \in Procs \ {p} : left[q] = pr[q]
  BY DEF Idle, InKernel, FitInv, TypeInv, TypeOK
<1>3. SetsStay /\ UNCHANGED <<sema, semtmp>>
  BY DEF Interrupted, SetsStay
<1>4. pr' = left \/ \E C : pr' = wakeprocs(left, C)
  BY DEF Interrupted
<1> HIDE DEF left
<1> QED
  BY <1>1, <1>2, <1>3, <1>4, FitWoken, FitIdle DEF left

LEMMA FitExit == ASSUME FitInv, NEW p \in Procs, semexit(p) PROVE Fit'
<1>1. /\ pr'[p].pc \notin InKernel
      /\ \A q \in Procs \ {p} : pr'[q] = pr[q]
  BY DEF semexit, FitInv, TypeInv, TypeOK, ProcRecord, InKernel
<1>2. InSet' /\ Channels'
  BY <1>1 DEF semexit, FitInv, Fit, InSet, Channels, InKernel
<1> QED
  BY <1>2 DEF semexit, FitInv, Fit, SetsFit

LEMMA FitExitEntry == ASSUME FitInv, NEW p \in Procs, SemexitEntry(p) PROVE Fit'
<1>1. UNCHANGED <<sema, semtmp>> /\ (UNCHANGED pr \/ \E C : pr' = wakeprocs(pr, C))
  BY DEF SemexitEntry
<1>2. pr \in [Procs -> ProcRecord]
  BY DEF FitInv, TypeInv, TypeOK
<1>3. SetsStay
  BY <1>1 DEF SetsStay
<1>4. CASE UNCHANGED pr
  BY <1>1, <1>4 DEF FitInv, Fit, SetsFit, InSet, Channels
<1> QED
  BY <1>1, <1>2, <1>3, <1>4, FitWoken

LEMMA FitExitDone == ASSUME FitInv, NEW p \in Procs, SemexitDone(p) PROVE Fit'
BY FitIdle DEF SemexitDone

LEMMA FitStep == FitInv /\ [Next]_vars => FitInv'
<1> SUFFICES ASSUME FitInv, [Next]_vars PROVE Fit'
  BY TypeStep, AreaStep DEF FitInv
<1>1. CASE \E s \in Sets : semget(s)
  BY <1>1, FitGet
<1>2. CASE \E id \in Ids : semctlRMID(id) \/ semctlSETVAL(id) \/ semctlSETALL(id) \/ semctlSET(id)
  BY <1>2, FitRemove, FitAssign, FitSet DEF semctlSETVAL, semctlSETALL
<1>3. CASE \E p \in Procs, id \in Ids, ops \in OpLists : semop(p, id, ops)
  BY <1>3, FitSemop
<1>4. ASSUME NEW p \in Procs,
             \/ SemopDo(p) \/ SemopError(p) \/ SemopWait(p) \/ SemopDone(p)
             \/ semundo(p) \/ SemopLeave(p) \/ Signal(p) \/ Continued(p)
             \/ Resume(p) \/ Interrupted(p)
             \/ semexit(p) \/ SemexitEntry(p) \/ SemexitDone(p)
      PROVE  Fit'
  BY <1>4, FitDo, FitError, FitWait, FitDone, FitUndo, FitLeave, FitSignal,
     FitContinued, FitResume, FitInterrupted, FitExit, FitExitEntry, FitExitDone
<1>5. CASE UNCHANGED vars
  BY <1>5 DEF vars, FitInv, Fit, SetsFit, InSet, Channels
<1> QED
  BY <1>1, <1>2, <1>3, <1>4, <1>5 DEF Next

-----------------------------------------------------------------------------
(***************************************************************************)
(* Sleepers are counted.  A count goes down in three ways: to zero, in a   *)
(* Put() that wakes all of its sleepers; by one from at least two; never   *)
(* otherwise.  So a process that is still asleep finds it above zero.      *)
(***************************************************************************)

\* What a step keeps that wakes the sleepers of every count it clears.
LEMMA CountedKept ==
    ASSUME FitInv, SleeperIsCounted, NEW C,
           \A q \in Procs : pr'[q].pc = "asleep" =>
              pr[q].pc = "asleep" /\ pr'[q].chan = pr[q].chan /\ pr[q].chan \notin C,
           \A x \in Addrs, c \in Kinds : <<c, x>> \notin C /\ Count(x, c) > 0 => (Count(x, c) > 0)'
    PROVE  SleeperIsCounted'
<1> SUFFICES ASSUME NEW q \in Procs, pr'[q].pc = "asleep"
             PROVE  Count(pr[q].chan[2], pr[q].chan[1])' > 0
  BY DEF SleeperIsCounted
<1>1. pr[q].pc = "asleep" /\ pr'[q].chan = pr[q].chan /\ pr[q].chan \notin C
  OBVIOUS
<1>2. pr[q].chan[2] \in Addrs /\ pr[q].chan[1] \in Kinds
      /\ pr[q].chan = <<pr[q].chan[1], pr[q].chan[2]>>
  BY <1>1 DEF FitInv, Fit, Channels, TypeInv, TypeOK, ProcRecord
<1>3. Count(pr[q].chan[2], pr[q].chan[1]) > 0
  BY <1>1 DEF SleeperIsCounted
<1> QED
  BY <1>1, <1>2, <1>3 DEF Count

\* The steps that put nobody to sleep and leave the counts alone.
LEMMA CountedStays ==
    ASSUME FitInv, SleeperIsCounted,
           \A q \in Procs : pr'[q].pc = "asleep" =>
              pr[q].pc = "asleep" /\ pr'[q].chan = pr[q].chan,
           \A x \in Addrs : sem'[x].ncnt = sem[x].ncnt /\ sem'[x].zcnt = sem[x].zcnt
    PROVE  SleeperIsCounted'
<1>1. \A x \in Addrs, c \in Kinds : Count(x, c)' = Count(x, c)
  BY DEF Count
<1>2. PICK C : C = {}
  OBVIOUS
<1>3. \A x \in Addrs, c \in Kinds : <<c, x>> \notin C /\ Count(x, c) > 0 => (Count(x, c) > 0)'
  BY <1>1
<1>4. \A q \in Procs : pr'[q].pc = "asleep" =>
        pr[q].pc = "asleep" /\ pr'[q].chan = pr[q].chan /\ pr[q].chan \notin C
  BY <1>2
<1> QED
  BY <1>3, <1>4, CountedKept

\* The steps that put values in semaphores and wake whom they are to.
LEMMA CountedPut ==
    ASSUME FitInv, SleeperIsCounted,
           NEW f \in [Procs -> ProcRecord], NEW C, pr' = wakeprocs(f, C),
           \A q \in Procs : f[q].pc = "asleep" => pr[q].pc = "asleep" /\ f[q].chan = pr[q].chan,
           \A x \in Addrs : \/ sem'[x] = sem[x]
                            \/ \E v, K : sem'[x] = Put(x, v, K) /\ Called(x, K) \subseteq C
    PROVE  SleeperIsCounted'
<1>1. \A q \in Procs : pr'[q].pc = "asleep" =>
        pr[q].pc = "asleep" /\ pr'[q].chan = pr[q].chan /\ pr[q].chan \notin C
  BY WakeprocsType
<1>2. ASSUME NEW x \in Addrs, NEW c \in Kinds, <<c, x>> \notin C, Count(x, c) > 0
      PROVE  (Count(x, c) > 0)'
  <2>1. CASE sem'[x] = sem[x]
    BY <1>2, <2>1 DEF Count
  <2>2. CASE \E v, K : sem'[x] = Put(x, v, K) /\ Called(x, K) \subseteq C
    <3>1. PICK v, K : sem'[x] = Put(x, v, K) /\ Called(x, K) \subseteq C
      BY <2>2
    <3>2. <<c, x>> \notin Called(x, K)
      BY <1>2, <3>1
    <3>3. c \notin K
      BY <1>2, <3>2 DEF Called
    <3>4. Count(x, c)' = Count(x, c)
      BY <3>1, <3>3 DEF Count, Put, Kinds
    <3> QED
      BY <1>2, <3>4
  <2> QED
    BY <2>1, <2>2
<1> QED
  BY <1>1, <1>2, CountedKept

LEMMA CountedRemove ==
    ASSUME FitInv, SleeperIsCounted, NEW id \in Ids, semctlRMID(id)
    PROVE  SleeperIsCounted'
<1> DEFINE C == UNION {Called(x, Kinds) : x \in Span(id[1])}
<1>1. pr' = wakeprocs(pr, C) /\ pr \in [Procs -> ProcRecord]
  BY DEF semctlRMID, FitInv, TypeInv, TypeOK
<1>2. \A x \in Addrs : \/ sem'[x] = sem[x]
                       \/ sem'[x] = Put(x, 0, Kinds) /\ Called(x, Kinds) \subseteq C
  BY DEF semctlRMID
<1> QED
  BY <1>1, <1>2, CountedPut

LEMMA CountedAssign ==
    ASSUME FitInv, SleeperIsCounted, NEW id, NEW N, NEW f, Assign(id, N, f)
    PROVE  SleeperIsCounted'
<1> DEFINE K(x) == SetKinds(f[x - sema[id[1]].base])
           C == UNION {Called(x, K(x)) : x \in {Addr(id[1], n) : n \in N}}
<1>1. pr' = wakeprocs(pr, C) /\ pr \in [Procs -> ProcRecord]
  BY DEF Assign, FitInv, TypeInv, TypeOK
<1>2. \A x \in Addrs :
        \/ sem'[x] = sem[x]
        \/ sem'[x] = Put(x, f[x - sema[id[1]].base], K(x)) /\ Called(x, K(x)) \subseteq C
  BY DEF Assign
<1> QED
  BY <1>1, <1>2, CountedPut

LEMMA CountedSet ==
    ASSUME SleeperIsCounted, NEW id, semctlSET(id) PROVE SleeperIsCounted'
BY DEF semctlSET, SleeperIsCounted, Count

LEMMA CountedDo ==
    ASSUME FitInv, SleeperIsCounted, NEW p \in Procs, SemopDo(p)
    PROVE  SleeperIsCounted'
<1> DEFINE o == TheOp(p)
           x == TheSem(p)
           v == sem[x].val + o.op
           f == [pr EXCEPT ![p].i = @ + 1]
<1>1. pr[p] \in ProcRecord
  BY DEF FitInv, TypeInv, TypeOK
<1>2. [pr[p] EXCEPT !.i = @ + 1] \in ProcRecord
  BY <1>1 DEF ProcRecord
<1>3. f \in [Procs -> ProcRecord]
  BY <1>2 DEF FitInv, TypeInv, TypeOK
<1>4. \A q \in Procs : f[q].pc = pr[q].pc /\ f[q].chan = pr[q].chan
  BY <1>1 DEF FitInv, TypeInv, TypeOK
<1>5. pr' = wakeprocs(f, Called(x, OpKinds(o, v))) /\ sem' = [sem EXCEPT ![x] = Put(x, v, OpKinds(o, v))]
  BY DEF SemopDo
<1> HIDE DEF f, v, x, o
<1>6. \A y \in Addrs : \/ sem'[y] = sem[y]
                       \/ sem'[y] = Put(y, v, OpKinds(o, v)) /\ y = x
  BY <1>5 DEF FitInv, TypeInv, TypeOK
<1>7. \A y \in Addrs : \/ sem'[y] = sem[y]
                       \/ \E w, K : sem'[y] = Put(y, w, K) /\ Called(y, K) \subseteq Called(x, OpKinds(o, v))
  BY <1>6
<1> QED
  BY <1>3, <1>4, <1>5, <1>7, CountedPut

LEMMA CountedExitEntry ==
    ASSUME FitInv, SleeperIsCounted, NEW p \in Procs, SemexitEntry(p)
    PROVE  SleeperIsCounted'
<1>1. CASE UNCHANGED <<sem, pr>>
  BY <1>1 DEF SleeperIsCounted, Count
<1>2. CASE \E x, v, K : sem' = [sem EXCEPT ![x] = Put(x, v, K)] /\ pr' = wakeprocs(pr, Called(x, K))
  <2>1. PICK x, v, K : sem' = [sem EXCEPT ![x] = Put(x, v, K)] /\ pr' = wakeprocs(pr, Called(x, K))
    BY <1>2
  <2>2. \A y \in Addrs : \/ sem'[y] = sem[y]
                         \/ sem'[y] = Put(y, v, K) /\ y = x
    BY <2>1 DEF FitInv, TypeInv, TypeOK
  <2>3. \A y \in Addrs : \/ sem'[y] = sem[y]
                         \/ \E w, L : sem'[y] = Put(y, w, L) /\ Called(y, L) \subseteq Called(x, K)
    BY <2>2
  <2> QED
    BY <2>1, <2>3, CountedPut DEF FitInv, TypeInv, TypeOK
<1> QED
  BY <1>1, <1>2 DEF SemexitEntry

LEMMA CountedLeave ==
    ASSUME FitInv, SleeperIsCounted, NEW p \in Procs, SemopLeave(p)
    PROVE  SleeperIsCounted'
<1>1. CASE pr' = [pr EXCEPT ![p] = Idle] /\ UNCHANGED sem
  <2>1. \A q \in Procs : pr'[q].pc = "asleep" => pr'[q] = pr[q]
    BY <1>1 DEF Idle, FitInv, TypeInv, TypeOK
  <2> QED
    BY <1>1, <2>1, CountedStays
<1>2. CASE pr[p].then # "fail"
  <2> DEFINE x == pr[p].chan[2]
             c == pr[p].chan[1]
  <2>1. pr[p] \in ProcRecord
    BY DEF FitInv, TypeInv, TypeOK
  <2>2. x \in Addrs /\ c \in Kinds /\ pr[p].then = c /\ sem[x] \in SemRecord
    BY <1>2, <2>1 DEF SemopLeave, Doing, FitInv, Fit, Channels, ProcRecord, TypeInv, TypeOK
  <2>3. pr'[p].chan = pr[p].chan /\ \A q \in Procs \ {p} : pr'[q] = pr[q]
    BY <1>2, <2>1 DEF SemopLeave, FitInv, TypeInv, TypeOK, ProcRecord
  <2>4. sem' = IF c = "n" THEN [sem EXCEPT ![x].ncnt = @ + 1] ELSE [sem EXCEPT ![x].zcnt = @ + 1]
    BY <1>2, <2>2 DEF SemopLeave
  <2> HIDE DEF x, c
  <2>5. \A y \in Addrs :
          /\ sem'[y].ncnt >= sem[y].ncnt /\ sem[y].ncnt \in Nat /\ sem'[y].ncnt \in Nat
          /\ sem'[y].zcnt >= sem[y].zcnt /\ sem[y].zcnt \in Nat /\ sem'[y].zcnt \in Nat
    BY <2>2, <2>4 DEF FitInv, TypeInv, TypeOK, SemRecord
  <2>6. IF c = "n" THEN sem'[x].ncnt > 0 ELSE sem'[x].zcnt > 0
    BY <2>2, <2>4 DEF FitInv, TypeInv, TypeOK, SemRecord
  <2> QED
    <3> SUFFICES ASSUME NEW q \in Procs, pr'[q].pc = "asleep"
                 PROVE  Count(pr[q].chan[2], pr[q].chan[1])' > 0
      BY DEF SleeperIsCounted
    <3>1. CASE q = p
      BY <2>3, <2>6, <3>1 DEF x, c, Count
    <3>2. CASE q # p
      <4>1. pr[q].pc = "asleep" /\ pr'[q].chan = pr[q].chan /\ pr[q].chan[2] \in Addrs
        BY <2>3, <3>2 DEF FitInv, Fit, Channels
      <4>2. Count(pr[q].chan[2], pr[q].chan[1]) > 0
        BY <4>1 DEF SleeperIsCounted
      <4>3. /\ sem'[pr[q].chan[2]].ncnt >= sem[pr[q].chan[2]].ncnt
            /\ sem'[pr[q].chan[2]].zcnt >= sem[pr[q].chan[2]].zcnt
            /\ sem[pr[q].chan[2]].ncnt \in Nat /\ sem[pr[q].chan[2]].zcnt \in Nat
            /\ sem'[pr[q].chan[2]].ncnt \in Nat /\ sem'[pr[q].chan[2]].zcnt \in Nat
        BY <2>5, <4>1
      <4> QED
        BY <4>1, <4>2, <4>3 DEF Count
    <3> QED
      BY <3>1, <3>2
<1> QED
  BY <1>1, <1>2 DEF SemopLeave

LEMMA CountedInterrupted ==
    ASSUME FitInv, SleeperIsCounted, NEW p \in Procs, Interrupted(p)
    PROVE  SleeperIsCounted'
<1> DEFINE c == pr[p].chan[1]
           x == pr[p].chan[2]
           left == [pr EXCEPT ![p] = Idle]
<1>1. left \in [Procs -> ProcRecord]
  BY IdleType DEF FitInv, TypeInv, TypeOK
<1>2. \A q \in Procs : left[q].pc = "asleep" => pr[q].pc = "asleep" /\ left[q].chan = pr[q].chan
  BY DEF Idle, FitInv, TypeInv, TypeOK
<1>3. CASE Count(x, c) <= 1
  <2>1. pr' = wakeprocs(left, {<<c, x>>})
    <3>1. pr[p].chan \in Kinds \X Int
      BY DEF FitInv, TypeInv, TypeOK, ProcRecord
    <3>2. pr[p].chan = <<c, x>>
      BY <3>1
    <3> QED
      BY <1>3, <3>2 DEF Interrupted
  <2>2. sem' = [sem EXCEPT ![x] = Put(x, sem[x].val, {c})]
    BY <1>3 DEF Interrupted
  <2>3. Called(x, {c}) \subseteq {<<c, x>>}
    BY DEF Called
  <2> HIDE DEF x, c, left
  <2>4. \A y \in Addrs : \/ sem'[y] = sem[y]
                         \/ \E v, K : sem'[y] = Put(y, v, K) /\ Called(y, K) \subseteq {<<c, x>>}
    BY <2>2, <2>3 DEF FitInv, TypeInv, TypeOK
  <2> QED
    BY <1>1, <1>2, <2>1, <2>4, CountedPut
<1>4. CASE ~(Count(x, c) <= 1)
  <2>1. pr' = left
    BY <1>4 DEF Interrupted
  <2>2. sem' = IF c = "n" THEN [sem EXCEPT ![x].ncnt = @ - 1] ELSE [sem EXCEPT ![x].zcnt = @ - 1]
    BY <1>4 DEF Interrupted
  <2> HIDE DEF x, c, left
  <2>3. ASSUME NEW y \in Addrs, NEW d \in Kinds, Count(y, d) > 0 PROVE (Count(y, d) > 0)'
    <3>1. sem[y] \in SemRecord
      BY DEF FitInv, TypeInv, TypeOK
    <3>2. CASE y = x
      BY <1>4, <2>2, <2>3, <3>1, <3>2 DEF Count, SemRecord, FitInv, TypeInv, TypeOK
    <3>3. CASE y # x
      BY <2>2, <2>3, <3>3 DEF Count, FitInv, TypeInv, TypeOK
    <3> QED
      BY <3>2, <3>3
  <2>4. PICK C : C = {}
    OBVIOUS
  <2>5. \A q \in Procs : pr'[q].pc = "asleep" =>
          pr[q].pc = "asleep" /\ pr'[q].chan = pr[q].chan /\ pr[q].chan \notin C
    BY <1>2, <2>1, <2>4
  <2> QED
    BY <2>3, <2>5, CountedKept
<1> QED
  BY <1>3, <1>4

\* The steps that leave semaphores alone, or only their values, and put nobody
\* to sleep.
LEMMA CountedQuiet ==
    ASSUME FitInv, SleeperIsCounted, NEW p \in Procs,
           \/ \E id \in Ids, ops \in OpLists : semop(p, id, ops)
           \/ SemopError(p) \/ SemopWait(p) \/ SemopDone(p) \/ semundo(p)
           \/ Signal(p) \/ Continued(p) \/ Resume(p) \/ semexit(p) \/ SemexitDone(p)
    PROVE  SleeperIsCounted'
<1>1. \A x \in Addrs : sem'[x].ncnt = sem[x].ncnt /\ sem'[x].zcnt = sem[x].zcnt
  <2>1. CASE UNCHANGED sem
    BY <2>1
  <2>2. CASE semundo(p)
    BY <2>2 DEF semundo, FitInv, TypeInv, TypeOK, SemRecord
  <2> QED
    BY <2>1, <2>2 DEF semop, SemopError, SemopWait, SemopDone,
                      Signal, Continued, Resume, semexit, SemexitDone
<1>2. \A q \in Procs \ {p} : pr'[q] = pr[q]
  BY DEF semop, SemopError, SemopWait, SemopDone, semundo,
         Signal, Continued, Resume, semexit, SemexitDone, Pass, Rollback, FitInv, TypeInv, TypeOK
<1>3. pr'[p].pc # "asleep"
  <2>1. pr[p] \in ProcRecord /\ pr \in [Procs -> ProcRecord]
    BY DEF FitInv, TypeInv, TypeOK
  <2>2. CASE (\E id \in Ids, ops \in OpLists : semop(p, id, ops)) \/ Resume(p)
    BY <2>1, <2>2 DEF semop, Resume, Pass, InPass, Idle, ProcRecord
  <2>3. CASE SemopError(p) \/ SemopWait(p)
    BY <2>1, <2>3 DEF SemopError, SemopWait, Rollback, InPass, ProcRecord
  <2>4. CASE SemopDone(p) \/ SemexitDone(p)
    BY <2>1, <2>4 DEF SemopDone, SemexitDone, Idle, ProcRecord
  <2>5. CASE semundo(p) \/ Signal(p) \/ Continued(p) \/ semexit(p)
    BY <2>1, <2>5 DEF semundo, Doing, Signal, Continued, semexit, ProcRecord
  <2> QED
    BY <2>2, <2>3, <2>4, <2>5
<1> QED
  BY <1>1, <1>2, <1>3, CountedStays

LEMMA CountedStep == FitInv /\ SleeperIsCounted /\ [Next]_vars => SleeperIsCounted'
<1> SUFFICES ASSUME FitInv, SleeperIsCounted, [Next]_vars PROVE SleeperIsCounted'
  OBVIOUS
<1>1. CASE \E s \in Sets : semget(s)
  BY <1>1 DEF semget, SleeperIsCounted, Count
<1>2. CASE \E id \in Ids : semctlRMID(id) \/ semctlSETVAL(id) \/ semctlSETALL(id) \/ semctlSET(id)
  BY <1>2, CountedRemove, CountedAssign, CountedSet DEF semctlSETVAL, semctlSETALL
<1>3. CASE \E p \in Procs, id \in Ids, ops \in OpLists : semop(p, id, ops)
  BY <1>3, CountedQuiet
<1>4. ASSUME NEW p \in Procs,
             \/ SemopDo(p) \/ SemopError(p) \/ SemopWait(p) \/ SemopDone(p)
             \/ semundo(p) \/ SemopLeave(p) \/ Signal(p) \/ Continued(p)
             \/ Resume(p) \/ Interrupted(p)
             \/ semexit(p) \/ SemexitEntry(p) \/ SemexitDone(p)
      PROVE  SleeperIsCounted'
  BY <1>4, CountedQuiet, CountedDo, CountedLeave, CountedInterrupted, CountedExitEntry
<1>5. CASE UNCHANGED vars
  BY <1>5 DEF vars, SleeperIsCounted, Count
<1> QED
  BY <1>1, <1>2, <1>3, <1>4, <1>5 DEF Next

\* Whoever sleeps in semop() is counted on the semaphore it sleeps on, so that
\* the SETVAL, semop() or exit that changes the semaphore does wake it,
\* whatever the other processes, signals, stops and removals do in between.
THEOREM SleepersCounted == ASSUME ListsFit PROVE Spec => []SleeperIsCounted
<1>1. Init => FitInv /\ SleeperIsCounted
  BY TypeInit, AreaInit, FitInit DEF FitInv, Init, Idle, SleeperIsCounted
<1>2. FitInv /\ SleeperIsCounted /\ [Next]_vars => (FitInv /\ SleeperIsCounted)'
  BY FitStep, CountedStep
<1> QED
  BY <1>1, <1>2, PTL DEF Spec

-----------------------------------------------------------------------------
(***************************************************************************)
(* Adjustments are for sets that exist.  The processor is not given up     *)
(* between semconv() and the adjustment, so the set that the pass is on    *)
(* cannot go.                                                              *)
(***************************************************************************)
Serial ==
    /\ \A p \in Procs : pr[p].pc \in {"ops", "undo", "exit"} <=> cur = p
    /\ \A p \in Procs : pr[p].pc # "copyin"
    /\ \A p \in Procs : pr[p].pc \in {"ops", "undo"} => semconv(pr[p].id)

\* The steps between two calls.
LEMMA SerialFree ==
    ASSUME Serial, cur = NoProc, UNCHANGED cur,
           \A q \in Procs : pr'[q].pc \in {pr[q].pc, "user", "woken"}
    PROVE  Serial'
BY SemAssumption DEF Serial

\* The steps of the process in the kernel.
LEMMA SerialCur ==
    ASSUME Serial, NEW p \in Procs, cur = p, UNCHANGED <<cur, sema>>,
           pr'[p].pc \in {"ops", "undo", "exit"},
           pr'[p].pc \in {"ops", "undo"} => pr[p].pc \in {"ops", "undo"},
           pr'[p].id = pr[p].id,
           \A q \in Procs \ {p} : pr'[q].pc \in {pr[q].pc, "woken"}
    PROVE  Serial'
<1>1. \A q \in Procs \ {p} : pr'[q].pc \notin {"ops", "undo", "exit", "copyin"}
  BY DEF Serial
<1> QED
  BY <1>1 DEF Serial, semconv

\* The steps that give the processor up.
LEMMA SerialLeft ==
    ASSUME Serial, NEW p \in Procs, cur = p, cur' = NoProc,
           pr'[p].pc \in {"user", "asleep"},
           \A q \in Procs \ {p} : pr'[q] = pr[q]
    PROVE  Serial'
<1>1. \A q \in Procs : pr'[q].pc \notin {"ops", "undo", "exit", "copyin"}
  BY DEF Serial
<1> QED
  BY <1>1, SemAssumption DEF Serial

\* The steps that start a pass.
LEMMA SerialPass ==
    ASSUME Serial, FitInv, NEW p \in Procs, cur = NoProc, NEW id, NEW ops,
           NEW then, semconv(id), Pass(p, id, ops, then), UNCHANGED sema
    PROVE  Serial'
<1>1. /\ pr'[p].pc = "ops" /\ pr'[p].id = id /\ cur' = p
      /\ \A q \in Procs \ {p} : pr'[q] = pr[q]
  BY DEF Pass, InPass, FitInv, TypeInv, TypeOK
<1>2. \A q \in Procs \ {p} : pr'[q].pc \notin {"ops", "undo", "exit", "copyin"}
  BY <1>1, SemAssumption DEF Serial
<1> QED
  BY <1>1, <1>2 DEF Serial, semconv

\* What waking does to the processes of f, and a change to those of pr.
LEMMA WokenPc ==
    ASSUME FitInv, NEW f \in [Procs -> ProcRecord], NEW C, pr' = wakeprocs(f, C)
    PROVE  \A q \in Procs : pr'[q].pc \in {f[q].pc, "woken"} /\ pr'[q].id = f[q].id
                            /\ (f[q].pc # "asleep" => pr'[q].pc = f[q].pc)
BY WakeprocsType

LEMMA SerialStep == ASSUME FitInv, Serial, [Next]_vars PROVE Serial'
<1> USE DEF FitInv, TypeInv, TypeOK
<1>1. CASE \E s \in Sets : semget(s)
  BY <1>1, SerialFree DEF semget
<1>2. ASSUME NEW id \in Ids, semctlRMID(id) \/ semctlSETVAL(id) \/ semctlSETALL(id)
      PROVE  Serial'
  <2>1. cur = NoProc /\ UNCHANGED cur /\ \E C : pr' = wakeprocs(pr, C)
    BY <1>2 DEF semctlRMID, semctlSETVAL, semctlSETALL, Assign
  <2> QED
    BY <2>1, WokenPc, SerialFree
<1>3. CASE \E p \in Procs, id \in Ids, ops \in OpLists : semop(p, id, ops)
  BY <1>3, SerialPass DEF semop, Enters
<1>5. ASSUME NEW p \in Procs, SemopDo(p) PROVE Serial'
  <2> DEFINE f == [pr EXCEPT ![p].i = @ + 1]
  <2>1. pr[p] \in ProcRecord /\ [pr[p] EXCEPT !.i = @ + 1] \in ProcRecord
    <3>1. pr[p] \in ProcRecord
      OBVIOUS
    <3> QED
      BY ONLY <3>1 DEF ProcRecord
  <2>2. f \in [Procs -> ProcRecord]
    BY <2>1
  <2>3. \A q \in Procs : f[q].pc = pr[q].pc /\ f[q].id = pr[q].id
    BY <2>1
  <2>4. cur = p /\ pr[p].pc = "ops" /\ UNCHANGED <<cur, sema>> /\ \E C : pr' = wakeprocs(f, C)
    BY <1>5 DEF SemopDo, Doing
  <2> HIDE DEF f
  <2>5. \A q \in Procs : pr'[q].pc \in {pr[q].pc, "woken"} /\ pr'[q].id = pr[q].id
                         /\ (pr[q].pc # "asleep" => pr'[q].pc = pr[q].pc)
    BY <2>2, <2>3, <2>4, WokenPc
  <2> QED
    BY <2>4, <2>5, SerialCur
<1>6. ASSUME NEW p \in Procs, SemopError(p) \/ SemopWait(p) PROVE Serial'
  <2>1. pr[p] \in ProcRecord
    OBVIOUS
  <2>2. /\ cur = p /\ pr[p].pc = "ops" /\ UNCHANGED <<cur, sema>>
        /\ pr'[p].pc = "undo" /\ pr'[p].id = pr[p].id
        /\ \A q \in Procs \ {p} : pr'[q] = pr[q]
    BY <1>6, <2>1 DEF SemopError, SemopWait, Rollback, InPass, Doing, ProcRecord
  <2> QED
    BY <2>2, SerialCur
<1>7. ASSUME NEW p \in Procs, semundo(p) PROVE Serial'
  <2>1. pr[p] \in ProcRecord
    OBVIOUS
  <2>2. /\ cur = p /\ pr[p].pc = "undo" /\ UNCHANGED <<cur, sema>>
        /\ pr'[p].pc = "undo" /\ pr'[p].id = pr[p].id
        /\ \A q \in Procs \ {p} : pr'[q] = pr[q]
    BY <1>7, <2>1 DEF semundo, Doing, ProcRecord
  <2> QED
    BY <2>2, SerialCur
<1>8. ASSUME NEW p \in Procs, SemopDone(p) \/ SemopLeave(p) \/ SemexitDone(p) PROVE Serial'
  <2>1. pr[p] \in ProcRecord
    OBVIOUS
  <2>2. /\ cur = p /\ cur' = NoProc /\ pr'[p].pc \in {"user", "asleep"}
        /\ \A q \in Procs \ {p} : pr'[q] = pr[q]
    BY <1>8, <2>1 DEF SemopDone, SemopLeave, SemexitDone, Doing, Idle, ProcRecord
  <2> QED
    BY <2>2, SerialLeft
<1>4. ASSUME NEW id \in Ids, semctlSET(id) PROVE Serial'
  BY <1>4, SerialFree DEF semctlSET
<1>9. ASSUME NEW p \in Procs, Signal(p) \/ Continued(p) PROVE Serial'
  <2>1. pr[p] \in ProcRecord
    OBVIOUS
  <2>2. /\ UNCHANGED <<cur, sema>> /\ pr[p].pc = "asleep" /\ pr'[p].pc \in {"signalled", "woken"}
        /\ \A q \in Procs \ {p} : pr'[q] = pr[q]
    BY <1>9, <2>1 DEF Signal, Continued, ProcRecord
  <2> QED
    BY <2>2 DEF Serial, semconv
<1>10. ASSUME NEW p \in Procs, Resume(p) PROVE Serial'
  <2>1. CASE semconv(pr[p].id)
    BY <1>10, <2>1, SerialPass DEF Resume
  <2>2. CASE ~semconv(pr[p].id)
    <3>1. cur = NoProc /\ UNCHANGED cur /\ pr' = [pr EXCEPT ![p] = Idle]
      BY <1>10, <2>2 DEF Resume
    <3>2. \A q \in Procs : pr'[q].pc \in {pr[q].pc, "user", "woken"}
      BY <3>1 DEF Idle
    <3> QED
      BY <3>1, <3>2, SerialFree
  <2> QED
    BY <2>1, <2>2
<1>11. ASSUME NEW p \in Procs, Interrupted(p) PROVE Serial'
  <2> DEFINE left == [pr EXCEPT ![p] = Idle]
  <2>1. left \in [Procs -> ProcRecord]
    BY IdleType
  <2>2. \A q \in Procs : left[q].pc \in {pr[q].pc, "user"}
    BY DEF Idle
  <2>3. cur = NoProc /\ UNCHANGED cur /\ (pr' = left \/ \E C : pr' = wakeprocs(left, C))
    BY <1>11 DEF Interrupted
  <2> HIDE DEF left
  <2>4. \A q \in Procs : pr'[q].pc \in {pr[q].pc, "user", "woken"}
    BY <2>1, <2>2, <2>3, WokenPc
  <2> QED
    BY <2>3, <2>4, SerialFree
<1>12. ASSUME NEW p \in Procs, semexit(p) PROVE Serial'
  <2>1. pr[p] \in ProcRecord
    OBVIOUS
  <2>2. /\ cur = NoProc /\ cur' = p /\ pr'[p].pc = "exit"
        /\ \A q \in Procs \ {p} : pr'[q] = pr[q]
    BY <1>12, <2>1 DEF semexit, ProcRecord
  <2>3. \A q \in Procs \ {p} : pr'[q].pc \notin {"ops", "undo", "exit", "copyin"}
    BY <2>2, SemAssumption DEF Serial
  <2> QED
    BY <2>2, <2>3 DEF Serial
<1>13. ASSUME NEW p \in Procs, SemexitEntry(p) PROVE Serial'
  <2>1. /\ cur = p /\ pr[p].pc = "exit" /\ UNCHANGED <<cur, sema>>
        /\ UNCHANGED pr \/ \E C : pr' = wakeprocs(pr, C)
    BY <1>13 DEF SemexitEntry, Doing
  <2>2. \A q \in Procs : pr'[q].pc \in {pr[q].pc, "woken"} /\ pr'[q].id = pr[q].id
                         /\ (pr[q].pc # "asleep" => pr'[q].pc = pr[q].pc)
    BY <2>1, WokenPc
  <2> QED
    BY <2>1, <2>2, SerialCur
<1>14. CASE UNCHANGED vars
  BY <1>14 DEF vars, Serial, semconv
<1> QED
  BY <1>1, <1>2, <1>3, <1>4, <1>5, <1>6, <1>7, <1>8, <1>9, <1>10, <1>11, <1>12, <1>13, <1>14
     DEF Next

\* The steps that make no adjustment, keep the sets and do not take back a
\* structure that is in use.
LEMMA LiveKept ==
    ASSUME AdjustmentsAreLive, UNCHANGED sema,
           \A p \in Procs : \A e \in Keys : undo'[p][e] # 0 =>
               undo[p][e] # 0 /\ (p \in holds => p \in holds')
    PROVE  AdjustmentsAreLive'
BY DEF AdjustmentsAreLive, Entries, semconv

LEMMA LiveGet ==
    ASSUME FitInv, AdjustmentsAreLive, NEW s \in Sets, semget(s)
    PROVE  AdjustmentsAreLive'
<1>1. \A t \in Sets \ {s} : sema'[t] = sema[t]
  BY DEF semget, FitInv, TypeInv, TypeOK
<1>2. \A p \in Procs : \A e \in Entries(p) : e[1][1] \in Sets /\ e[1][1] # s
  BY DEF semget, AdjustmentsAreLive, semconv, Entries, Keys, Ids
<1> QED
  BY <1>1, <1>2 DEF semget, AdjustmentsAreLive, Entries, semconv

LEMMA LiveRemove ==
    ASSUME FitInv, AdjustmentsAreLive, NEW id \in Ids, semctlRMID(id)
    PROVE  AdjustmentsAreLive'
<1>1. undo' = semunrm(id, Nums) /\ UNCHANGED holds /\ semconv(id)
  BY DEF semctlRMID
<1>2. \A t \in Sets \ {id[1]} : sema'[t] = sema[t]
  BY DEF semctlRMID, FitInv, TypeInv, TypeOK
<1> SUFFICES ASSUME NEW p \in Procs, NEW e \in Keys, undo'[p][e] # 0
             PROVE  semconv(e[1])' /\ e[2] < sema'[e[1][1]].nsems /\ p \in holds'
  BY DEF AdjustmentsAreLive, Entries
<1>3. e[1] # id /\ undo[p][e] # 0
  BY <1>1 DEF semunrm, Keys
<1>4. semconv(e[1]) /\ e[2] < sema[e[1][1]].nsems /\ p \in holds
  BY <1>3 DEF AdjustmentsAreLive, Entries
<1>5. e[1][1] # id[1]
  <2>1. /\ e[1] \in Sets \X (0..SeqMax) /\ id \in Sets \X (0..SeqMax)
    BY DEF Keys, Ids
  <2>2. e[1] = <<e[1][1], e[1][2]>> /\ id = <<id[1], id[2]>>
    BY <2>1
  <2> QED
    BY <1>1, <1>3, <1>4, <2>2 DEF semconv
<1>6. e[1][1] \in Sets
  BY DEF Keys, Ids
<1> QED
  BY <1>1, <1>2, <1>4, <1>5, <1>6 DEF semconv

\* semaoe() leaves a process with an entry a structure, and makes entries only
\* for the semaphore it is called for.
LEMMA LiveAdjust ==
    ASSUME FitInv, AdjustmentsAreLive, NEW p \in Procs, NEW v \in Int, NEW e \in Keys,
           semconv(e[1]), e[2] < sema[e[1][1]].nsems, UNCHANGED sema,
           undo' = AoeAdjust(p, v, e), holds' = AoeHolds(p, v), v # 0
    PROVE  AdjustmentsAreLive'
<1>1. holds \subseteq holds'
  BY DEF AoeHolds
<1>2. CASE AoeError(p, v, e)
  BY <1>1, <1>2, LiveKept DEF AoeAdjust
<1>3. CASE ~AoeError(p, v, e)
  <2>1. p \in holds'
    BY <1>3 DEF AoeError, AoeHolds
  <2>2. undo' = [undo EXCEPT ![p][e] = @ - v]
    BY <1>3 DEF AoeAdjust
  <2>3. \A q \in Procs, f \in Keys : <<q, f>> # <<p, e>> => undo'[q][f] = undo[q][f]
    BY <2>2 DEF FitInv, TypeInv, TypeOK
  <2> SUFFICES ASSUME NEW q \in Procs, NEW f \in Keys, undo'[q][f] # 0
               PROVE  semconv(f[1])' /\ f[2] < sema'[f[1][1]].nsems /\ q \in holds'
    BY DEF AdjustmentsAreLive, Entries
  <2>4. CASE q = p /\ f = e
    BY <2>1, <2>4 DEF semconv
  <2>5. CASE ~(q = p /\ f = e)
    <3>1. undo[q][f] # 0
      BY <2>3, <2>5
    <3>2. semconv(f[1]) /\ f[2] < sema[f[1][1]].nsems /\ q \in holds
      BY <3>1 DEF AdjustmentsAreLive, Entries
    <3> QED
      BY <1>1, <3>2 DEF semconv
  <2> QED
    BY <2>4, <2>5
<1> QED
  BY <1>2, <1>3

LEMMA LiveStep ==
    ASSUME FitInv, Serial, AdjustmentsAreLive, [Next]_vars PROVE AdjustmentsAreLive'
<1>1. CASE \E s \in Sets : semget(s)
  BY <1>1, LiveGet
<1>2. CASE \E id \in Ids : semctlRMID(id)
  BY <1>2, LiveRemove
<1>3. ASSUME NEW id, NEW N, NEW f, Assign(id, N, f) PROVE AdjustmentsAreLive'
  <2>1. \A p \in Procs, e \in Keys : undo'[p][e] \in {0, undo[p][e]}
    BY <1>3 DEF Assign, semunrm
  <2> QED
    BY <1>3, <2>1, LiveKept DEF Assign
<1>4. CASE UNCHANGED <<sema, undo, holds>>
  BY <1>4, LiveKept
<1>5. ASSUME NEW p \in Procs, SemopDo(p) PROVE AdjustmentsAreLive'
  <2>1. pr[p].pc = "ops" /\ More(p) /\ pr[p].i > 0
    BY <1>5 DEF SemopDo, Doing, FitInv, TypeInv, Indices
  <2>2. /\ TheOp(p).op \in Int /\ TheEntry(p) \in Keys /\ TheEntry(p) = <<pr[p].id, TheOp(p).num>>
        /\ TheOp(p).num < sema[pr[p].id[1]].nsems
    BY <2>1, TheOpType, TheSemFits DEF FitInv, TheEntry
  <2>3. semconv(pr[p].id)
    BY <2>1 DEF Serial
  <2>4. CASE Adjusts(TheOp(p))
    BY <1>5, <2>2, <2>3, <2>4, LiveAdjust DEF SemopDo, Adjusts
  <2>5. CASE ~Adjusts(TheOp(p))
    BY <1>5, <2>5, LiveKept DEF SemopDo
  <2> QED
    BY <2>4, <2>5
<1>6. ASSUME NEW p \in Procs, semundo(p) PROVE AdjustmentsAreLive'
  <2>1. pr[p].pc = "undo" /\ pr[p].i > 0
    BY <1>6 DEF semundo, Doing
  <2>2. /\ TheOp(p).op \in Int /\ TheEntry(p) \in Keys /\ TheEntry(p) = <<pr[p].id, TheOp(p).num>>
        /\ TheOp(p).num < sema[pr[p].id[1]].nsems
    BY <2>1, TheOpType, TheSemFits DEF FitInv, TheEntry
  <2>3. semconv(pr[p].id)
    BY <2>1 DEF Serial
  <2>4. CASE Adjusts(TheOp(p))
    <3>1. -TheOp(p).op \in Int /\ -TheOp(p).op # 0
      BY <2>2, <2>4 DEF Adjusts
    <3> QED
      BY <1>6, <2>2, <2>3, <2>4, <3>1, LiveAdjust DEF semundo
  <2>5. CASE ~Adjusts(TheOp(p))
    BY <1>6, <2>5, LiveKept DEF semundo
  <2> QED
    BY <2>4, <2>5
<1>7. ASSUME NEW p \in Procs, SemopError(p) PROVE AdjustmentsAreLive'
  BY <1>7, LiveKept DEF SemopError, AoeHolds
<1>8. ASSUME NEW p \in Procs, SemexitEntry(p) PROVE AdjustmentsAreLive'
  <2>1. \A q \in Procs, e \in Keys : undo'[q][e] \in {0, undo[q][e]}
    BY <1>8 DEF SemexitEntry, FitInv, TypeInv, TypeOK
  <2> QED
    BY <1>8, <2>1, LiveKept DEF SemexitEntry
<1>9. ASSUME NEW p \in Procs, SemexitDone(p) PROVE AdjustmentsAreLive'
  BY <1>9, LiveKept DEF SemexitDone, Entries
<1> QED
  BY <1>1, <1>2, <1>3, <1>4, <1>5, <1>6, <1>7, <1>8, <1>9
     DEF Next, vars, semctlSETVAL, semctlSETALL, semop, SemopWait, SemopDone, SemopLeave,
         semctlSET, Signal, Continued, Resume, Interrupted, semexit

\* When copyin() does not give the processor up, every adjustment is for
\* a semaphore of a set that exists, of a process that has a structure: IPC_RMID
\* leaves none behind for a later set of the same id, and exit finds them all.
THEOREM AdjustmentsLive ==
    ASSUME ListsFit PROVE Spec => []AdjustmentsAreLive
<1> DEFINE LiveInv == FitInv /\ Serial /\ AdjustmentsAreLive
<1>1. Init => LiveInv
  <2>1. Init => Serial
    BY SemAssumption DEF Init, Idle, Serial
  <2>2. Init => AdjustmentsAreLive
    BY DEF Init, AdjustmentsAreLive, Entries
  <2> QED
    BY <2>1, <2>2, TypeInit, AreaInit, FitInit DEF FitInv
<1>2. LiveInv /\ [Next]_vars => LiveInv'
  BY FitStep, SerialStep, LiveStep
<1> QED
  BY <1>1, <1>2, PTL DEF Spec
=============================================================================
