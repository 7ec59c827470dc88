---------------------------- MODULE SemRefProofs ----------------------------
(***************************************************************************)
(* Proofs of what semop() is for, when copyin() does not give up the       *)
(* processor: the values of semaphores stay in range and free ones are     *)
(* zero, nobody who could go on sleeps, and Sem implements SemSpec.        *)
(*                                                                         *)
(* A pass changes the semaphores step by step and takes the steps back     *)
(* when it has to wait, so the invariant needs the states it has been      *)
(* through.  Nothing in the kernel has them; they are bound by \E in       *)
(* PassInv: h[k] is what the semaphores were, and g[k] the adjustments of  *)
(* the process, after the first k operations.                              *)
(***************************************************************************)
EXTENDS SemRefinement, SemProofs, NatProofs, FiniteSetTheorems

-----------------------------------------------------------------------------
(* How many operations of its list the pass of p has done.                 *)
Done(p) == IF pr[p].pc = "ops" THEN pr[p].i - 1 ELSE pr[p].i

InPassing(p) == pr[p].pc \in {"ops", "undo"}
Waiting(p)   == pr[p].pc = "undo" /\ pr[p].then # "fail"
Values       == [x \in Addrs |-> sem[x].val]
Nonzero(f)   == {e \in Keys : f[e] # 0}
Place(p, j)  == Addr(pr[p].id[1], semtmp[j].num)
Entry(p, j)  == <<pr[p].id, semtmp[j].num>>

Trace(p, h, g) ==
    /\ h \in [0..Done(p) -> [Addrs -> 0..semvmx]]
    /\ g \in [0..Done(p) -> [Keys -> (-semaem)..semaem]]
    /\ h[Done(p)] = Values /\ g[Done(p)] = undo[p]
    /\ \A k \in 0..Done(p) : IsFiniteSet(Nonzero(g[k])) /\ Cardinality(Nonzero(g[k])) <= semume
    /\ \A j \in 1..Done(p) :
         /\ Fits(semtmp[j], h[j - 1][Place(p, j)])
         /\ h[j] = [h[j - 1] EXCEPT ![Place(p, j)] = @ + semtmp[j].op]
         /\ IF Adjusts(semtmp[j])
            THEN /\ g[j] = [g[j - 1] EXCEPT ![Entry(p, j)] = @ - semtmp[j].op]
                 /\ p \in holds /\ semtmp[j].op \in (-semaem)..semaem
            ELSE g[j] = g[j - 1]

(* The process waits for a semaphore that does not have, with the values f *)
(* in the semaphores, what its list needs.                                 *)
Blocked(q, f) ==
    \E j \in DOMAIN pr[q].ops :
        LET o == pr[q].ops[j]
            x == Addr(pr[q].id[1], o.num)
        IN /\ o.op <= 0
           /\ pr[q].chan = <<IF o.op < 0 THEN "n" ELSE "z", x>>
           /\ IF o.op < 0 THEN f[x] + Abs!Sum(pr[q].ops, o.num, j - 1, TRUE) < -o.op
                          ELSE f[x] # 0

WaitTrace(p, h) ==
    /\ \A q \in Procs, k \in 0..Done(p) : pr[q].pc = "asleep" => Blocked(q, h[k])
    /\ Waiting(p) => Blocked(p, h[0])

PassInv == \A p \in Procs : InPassing(p) => \E h, g : Trace(p, h, g)

WakePassInv ==
    \A p \in Procs : InPassing(p) => \E h, g : Trace(p, h, g) /\ WaitTrace(p, h)

SleepersBlocked == \A q \in Procs : pr[q].pc = "asleep" => Blocked(q, Values)

(* The holding area has the operations of the process in a pass.           *)
AreaOwn == \A p \in Procs : InPassing(p) => \A j \in DOMAIN pr[p].ops : semtmp[j] = pr[p].ops[j]

SetsApart ==
    \A s, t \in Sets : sema[s].alloc /\ sema[t].alloc /\ s # t => Span(s) \cap Span(t) = {}

(* Who sleeps, or is about to, does so on a semaphore of a set that exists. *)
ChansInSpan ==
    \A p \in Procs : pr[p].pc = "asleep" \/ Waiting(p) =>
        semconv(pr[p].id) /\ pr[p].chan[2] \in Span(pr[p].id[1])

EntriesFit ==
    \A p \in Procs : IsFiniteSet(Entries(p)) /\ Cardinality(Entries(p)) <= semume

(* What AdjustmentsLive is proved from.                                    *)
LiveInv == FitInv /\ Serial /\ AdjustmentsAreLive

OKInv == LiveInv /\ SleeperIsCounted /\ SemaphoresOK /\ PassInv /\ ChansInSpan /\ EntriesFit

-----------------------------------------------------------------------------
(***************************************************************************)
(* Sums of operations.                                                     *)
(***************************************************************************)

\* What an operation of a list adds to a sum.
Term(o, n, all) == IF o.num = n /\ (all \/ o.undo) THEN o.op ELSE 0

\* SemSpec's sums: nothing, and a term more.
LEMMA SumSteps ==
    ASSUME NEW len \in Nat, NEW ops, \A j \in 1..len : ops[j] \in Ops, NEW n, NEW all
    PROVE  /\ Abs!Sum(ops, n, 0, all) = 0
           /\ \A m \in 1..len :
                 Abs!Sum(ops, n, m, all) = Abs!Sum(ops, n, m - 1, all) + Term(ops[m], n, all)
           /\ \A m \in 0..len : Abs!Sum(ops, n, m, all) \in Int
<1> DEFINE d == [j \in 1..len |-> Term(ops[j], n, all)]
           s(m) == CHOOSE f : f = [j \in 0..m |->
                      IF j = 0 THEN 0
                      ELSE f[j - 1] + (IF ops[j].num = n /\ (all \/ ops[j].undo)
                                       THEN ops[j].op ELSE 0)]
<1>1. len \in Nat /\ \A j \in 1..len : ops[j] \in Ops
  OBVIOUS
<1>2. \A j \in 1..len : d[j] \in Int /\ d[j] = Term(ops[j], n, all)
  BY <1>1 DEF Term, Ops
<1>3. ASSUME NEW m \in 0..len
      PROVE  /\ s(m) \in [0..m -> Int] /\ s(m)[0] = 0
             /\ \A j \in 1..m : s(m)[j] = s(m)[j - 1] + d[j]
  <2> DEFINE e == [j \in 1..m |-> d[j]]
             P(f) == f = [j \in 0..m |->
                      IF j = 0 THEN 0
                      ELSE f[j - 1] + (IF ops[j].num = n /\ (all \/ ops[j].undo)
                                       THEN ops[j].op ELSE 0)]
  <2>1. m \in Nat /\ e \in [1..m -> Int] /\ \A j \in 1..m : e[j] = d[j]
    BY <1>1, <1>2
  <2>2. \A f : Sums(f, m, e) <=> P(f)
    <3> SUFFICES ASSUME NEW f PROVE Sums(f, m, e) <=> P(f)
      OBVIOUS
    <3>1. \A j \in 0..m : j # 0 => e[j] = IF ops[j].num = n /\ (all \/ ops[j].undo) THEN ops[j].op ELSE 0
      BY <1>1, <2>1 DEF Term
    <3>2. [j \in 0..m |-> IF j = 0 THEN 0 ELSE f[j - 1] + e[j]]
            = [j \in 0..m |-> IF j = 0 THEN 0
                              ELSE f[j - 1] + (IF ops[j].num = n /\ (all \/ ops[j].undo)
                                               THEN ops[j].op ELSE 0)]
      <4> HIDE DEF e
      <4> QED
        BY <3>1
    <3> QED
      BY <3>2 DEF Sums
  <2>3. \E f : P(f)
    <3> HIDE DEF P, e
    <3>1. PICK f : Sums(f, m, e)
      BY <2>1, SumExists
    <3> QED
      BY <3>1, <2>2
  <2>4. P(s(m))
    <3>1. s(m) = CHOOSE f : P(f)
      OBVIOUS
    <3> HIDE DEF P, s
    <3> QED
      BY <2>3, <3>1
  <2>5. Sums(s(m), m, e)
    BY <2>2, <2>4
  <2> HIDE DEF s, e
  <2>6. s(m) \in [0..m -> Int] /\ s(m)[0] = 0 /\ \A j \in 1..m : s(m)[j] = s(m)[j - 1] + e[j]
    BY <2>1, <2>5, SumFacts
  <2> QED
    BY <2>1, <2>6
<1>4. \A m \in 0..len : Abs!Sum(ops, n, m, all) = s(m)[m]
  BY DEF Abs!Sum
<1> HIDE DEF s, d
<1>5. ASSUME NEW m \in 1..len
      PROVE  s(m)[m - 1] = s(m - 1)[m - 1]
  <2>1. m \in 0..len /\ m - 1 \in 0..len /\ m - 1 \in Nat
    BY <1>1
  <2> DEFINE T == {j \in 0..(m - 1) : s(m)[j] = s(m - 1)[j]}
  <2>2. 0 \in T
    BY <1>3, <2>1
  <2>3. ASSUME NEW j \in 0..((m - 1) - 1), j \in T
        PROVE  j + 1 \in T
    <3>1. j + 1 \in 1..m /\ j + 1 \in 1..(m - 1) /\ (j + 1) - 1 = j
      BY <2>1
    <3>2. s(m)[j + 1] = s(m)[j] + d[j + 1] /\ s(m - 1)[j + 1] = s(m - 1)[j] + d[j + 1]
      BY <1>3, <2>1, <3>1
    <3> QED
      BY <2>3, <3>1, <3>2
  <2>4. 0..(m - 1) \subseteq T
    <3> HIDE DEF T
    <3> QED
      BY <2>1, <2>2, <2>3, Induction
  <2> QED
    BY <2>1, <2>4
<1>6. \A m \in 1..len : s(m)[m] = s(m)[m - 1] + d[m]
  BY <1>1, <1>3
<1>7. 0 \in 0..len
  BY <1>1
<1>8. \A m \in 0..len : s(m)[m] \in Int
  BY <1>1, <1>3
<1>9. Abs!Sum(ops, n, 0, all) = 0
  BY <1>3, <1>4, <1>7
<1>10. ASSUME NEW m \in 1..len
       PROVE  Abs!Sum(ops, n, m, all) = Abs!Sum(ops, n, m - 1, all) + Term(ops[m], n, all)
  <2>1. m \in 0..len /\ m - 1 \in 0..len
    BY <1>1
  <2>2. Abs!Sum(ops, n, m, all) = s(m)[m - 1] + d[m] /\ Abs!Sum(ops, n, m - 1, all) = s(m - 1)[m - 1]
    BY <1>4, <1>6, <2>1
  <2> QED
    BY <1>2, <1>5, <2>2
<1> QED
  BY <1>4, <1>8, <1>9, <1>10

-----------------------------------------------------------------------------
(***************************************************************************)
(* The states that a pass has been through.                                *)
(***************************************************************************)

\* Every operation of the list, in the holding area, is for a semaphore of the set.
LEMMA PlaceFits ==
    ASSUME FitInv, NEW p \in Procs, InPassing(p)
    PROVE  /\ Done(p) \in Nat /\ Done(p) <= Len(pr[p].ops) /\ Len(pr[p].ops) <= semopm
           /\ pr[p].ops \in OpLists /\ DOMAIN pr[p].ops = 1..Len(pr[p].ops)
           /\ pr[p].id \in Ids /\ pr[p].id[1] \in Sets
           /\ \A j \in 1..Len(pr[p].ops) :
                 /\ semtmp[j] \in Ops /\ semtmp[j].num < sema[pr[p].id[1]].nsems
                 /\ Place(p, j) \in Addrs /\ Place(p, j) \in Span(pr[p].id[1])
                 /\ Entry(p, j) \in Keys
<1> DEFINE s == pr[p].id[1]
<1>1. pr[p].ops \in OpLists /\ pr[p].i \in Nat
  BY DEF InPassing, FitInv, TypeInv, TypeOK, Indices, InKernel, ProcRecord
<1>2. Len(pr[p].ops) \in Nat /\ DOMAIN pr[p].ops = 1..Len(pr[p].ops) /\ Len(pr[p].ops) <= semopm
  BY <1>1, SemAssumption
<1>3. Done(p) \in Nat /\ Done(p) <= Len(pr[p].ops)
  BY <1>1, <1>2 DEF Done, InPassing, FitInv, TypeInv, Indices
<1>4. pr[p].id \in Ids /\ s \in Sets
  BY DEF FitInv, TypeInv, TypeOK, ProcRecord, Ids
<1>5. sema[s].nsems \in NSems /\ sema[s].base + sema[s].nsems <= semmns
  BY <1>4 DEF InPassing, FitInv, Fit, InSet, SetsFit, InKernel
<1>6. sema[s].base \in Nat /\ sema[s].nsems \in Nat
  BY <1>4, SemAssumption DEF FitInv, TypeInv, TypeOK, SetRecord, Addrs
<1>7. ASSUME NEW j \in 1..Len(pr[p].ops)
      PROVE  /\ semtmp[j] \in Ops /\ semtmp[j].num < sema[s].nsems
             /\ Place(p, j) \in Addrs /\ Place(p, j) \in Span(s)
             /\ Entry(p, j) \in Keys
  <2>0. j \in DOMAIN pr[p].ops /\ semtmp[j] = pr[p].ops[j]
    BY <1>2 DEF InPassing, FitInv, AreaInv
  <2>1. semtmp[j] \in Ops
    BY <1>1, <2>0, SemAssumption
  <2>2. semtmp[j].num < sema[s].nsems
    BY <1>1, <1>5, <2>0 DEF FitInv, ListsFit
  <2>3. semtmp[j].num \in Nat /\ semtmp[j].num \in Nums
    BY <2>1, SemAssumption DEF Ops, Nums
  <2>4. sema[s].base + semtmp[j].num \in 0..(semmns - 1)
    BY <1>5, <1>6, <2>2, <2>3, SemAssumption, SMTT(30)
  <2>5. sema[s].base + semtmp[j].num \in Span(s)
    BY <1>6, <2>2, <2>3 DEF Span
  <2> QED
    BY <1>4, <2>1, <2>2, <2>3, <2>4, <2>5 DEF Place, Addr, Addrs, Entry, Keys
<1> QED
  BY <1>1, <1>2, <1>3, <1>4, <1>7

\* The steps in which the pass neither does nor takes back an operation.
LEMMA TraceKept ==
    ASSUME NEW p \in Procs, NEW h, NEW g, Trace(p, h, g),
           Done(p)' = Done(p), pr'[p].id = pr[p].id, UNCHANGED <<sema, semtmp>>,
           holds \subseteq holds', Values' = Values, undo'[p] = undo[p]
    PROVE  Trace(p, h, g)'
<1>1. /\ \A j : Place(p, j)' = Place(p, j) /\ Entry(p, j)' = Entry(p, j)
      /\ semtmp' = semtmp
  BY DEF Place, Entry, Addr
<1>2. \A f : Nonzero(f)' = Nonzero(f)
  BY DEF Nonzero
<1> QED
  BY <1>1, ZenonT(30) DEF Trace

\* The start of a pass.
LEMMA TraceBegins ==
    ASSUME NEW p \in Procs, Done(p)' = 0, ValuesInRange', EntriesFit', TypeOK',
           NEW v, v = Values', NEW a, a = undo'[p]
    PROVE  Trace(p, [k \in 0..0 |-> v], [k \in 0..0 |-> a])'
<1>1. v \in [Addrs -> 0..semvmx]
  BY DEF Values, ValuesInRange
<1>2. a \in [Keys -> (-semaem)..semaem]
  BY DEF TypeOK
<1>3. IsFiniteSet(Nonzero(a)) /\ Cardinality(Nonzero(a)) <= semume
  BY DEF EntriesFit, Entries, Nonzero
<1> QED
  BY <1>1, <1>2, <1>3 DEF Trace

\* An operation more: the semaphore gets the value, and an operation with
\* SEM_UNDO leaves its opposite.
Longer(h, d, v) == [k \in 0..(d + 1) |-> IF k <= d THEN h[k] ELSE v]

LEMMA TraceLonger ==
    ASSUME NEW p \in Procs, NEW h, NEW g, Trace(p, h, g), NEW d \in Nat, d = Done(p),
           Done(p)' = d + 1, pr'[p].id = pr[p].id, UNCHANGED <<sema, semtmp>>,
           holds \subseteq holds',
           NEW v \in [Addrs -> 0..semvmx], NEW a \in [Keys -> (-semaem)..semaem],
           v = Values', a = undo'[p],
           IsFiniteSet(Nonzero(a)), Cardinality(Nonzero(a)) <= semume,
           Fits(semtmp[d + 1], Values[Place(p, d + 1)]),
           v = [Values EXCEPT ![Place(p, d + 1)] = @ + semtmp[d + 1].op],
           IF Adjusts(semtmp[d + 1])
           THEN /\ a = [undo[p] EXCEPT ![Entry(p, d + 1)] = @ - semtmp[d + 1].op]
                /\ p \in holds' /\ semtmp[d + 1].op \in (-semaem)..semaem
           ELSE a = undo[p]
    PROVE  Trace(p, Longer(h, d, v), Longer(g, d, a))'
<1>1. /\ \A j : Place(p, j)' = Place(p, j) /\ Entry(p, j)' = Entry(p, j)
      /\ semtmp' = semtmp
  BY DEF Place, Entry, Addr
<1>2. PICK H, G : H = Longer(h, d, v) /\ G = Longer(g, d, a)
  OBVIOUS
<1>3. \A k \in 0..(d + 1) : H[k] = (IF k <= d THEN h[k] ELSE v) /\ G[k] = (IF k <= d THEN g[k] ELSE a)
  BY <1>2 DEF Longer
<1>4. /\ \A k \in 0..d : h[k] \in [Addrs -> 0..semvmx] /\ g[k] \in [Keys -> (-semaem)..semaem]
                         /\ IsFiniteSet(Nonzero(g[k])) /\ Cardinality(Nonzero(g[k])) <= semume
      /\ h[d] = Values /\ g[d] = undo[p]
      /\ \A j \in 1..d :
           /\ Fits(semtmp[j], h[j - 1][Place(p, j)])
           /\ h[j] = [h[j - 1] EXCEPT ![Place(p, j)] = @ + semtmp[j].op]
           /\ IF Adjusts(semtmp[j])
              THEN /\ g[j] = [g[j - 1] EXCEPT ![Entry(p, j)] = @ - semtmp[j].op]
                   /\ p \in holds /\ semtmp[j].op \in (-semaem)..semaem
              ELSE g[j] = g[j - 1]
  BY DEF Trace
<1>5. \A k \in 0..(d + 1) : k <= d => k \in 0..d
  OBVIOUS
<1>6. H \in [0..(d + 1) -> [Addrs -> 0..semvmx]]
  BY <1>2, <1>4, <1>5 DEF Longer
<1>7. G \in [0..(d + 1) -> [Keys -> (-semaem)..semaem]]
  BY <1>2, <1>4, <1>5 DEF Longer
<1>8. H[d + 1] = v /\ G[d + 1] = a
  <2>1. d + 1 \in 0..(d + 1) /\ ~(d + 1 <= d)
    OBVIOUS
  <2> QED
    BY <1>3, <2>1
<1>9. \A k \in 0..(d + 1) : IsFiniteSet(Nonzero(G[k])) /\ Cardinality(Nonzero(G[k])) <= semume
  BY <1>3, <1>4, <1>5
<1>10. ASSUME NEW j \in 1..(d + 1)
      PROVE  /\ Fits(semtmp[j], H[j - 1][Place(p, j)])
             /\ H[j] = [H[j - 1] EXCEPT ![Place(p, j)] = @ + semtmp[j].op]
             /\ IF Adjusts(semtmp[j])
                THEN /\ G[j] = [G[j - 1] EXCEPT ![Entry(p, j)] = @ - semtmp[j].op]
                     /\ p \in holds' /\ semtmp[j].op \in (-semaem)..semaem
                ELSE G[j] = G[j - 1]
  <2>1. CASE j <= d
    <3>1. j \in 1..d /\ H[j] = h[j] /\ G[j] = g[j] /\ H[j - 1] = h[j - 1] /\ G[j - 1] = g[j - 1]
      BY <1>3, <2>1
    <3> QED
      BY <1>4, <3>1
  <2>2. CASE j = d + 1
    <3> d \in 0..(d + 1) /\ d <= d /\ j - 1 = d
      BY <2>2
    <3>1. H[j] = v /\ G[j] = a /\ H[j - 1] = Values /\ G[j - 1] = undo[p]
      BY <1>3, <1>4, <1>8, <2>2
    <3> QED
      BY <2>2, <3>1
  <2> QED
    BY <2>1, <2>2
<1>11. \A f : Nonzero(f)' = Nonzero(f)
  BY DEF Nonzero
<1>12. Trace(p, H, G)'
  <2>1. /\ \A k \in 0..Done(p)' : IsFiniteSet(Nonzero(G[k])') /\ Cardinality(Nonzero(G[k])') <= semume
        /\ H[Done(p)'] = Values' /\ G[Done(p)'] = undo'[p]
    BY <1>8, <1>9, <1>11
  <2>2. \A j \in 1..Done(p)' :
             /\ Fits(semtmp'[j], H[j - 1][Place(p, j)'])
             /\ H[j] = [H[j - 1] EXCEPT ![Place(p, j)'] = @ + semtmp'[j].op]
             /\ IF Adjusts(semtmp'[j])
                THEN /\ G[j] = [G[j - 1] EXCEPT ![Entry(p, j)'] = @ - semtmp'[j].op]
                     /\ p \in holds' /\ semtmp'[j].op \in (-semaem)..semaem
                ELSE G[j] = G[j - 1]
    BY <1>1, <1>10
  <2> QED
    BY <1>6, <1>7, <2>1, <2>2 DEF Trace
<1> QED
  BY <1>2, <1>12, SMTT(30)

LEMMA DoPr ==
    ASSUME FitInv, NEW p \in Procs, SemopDo(p)
    PROVE  /\ pr'[p].pc = "ops" /\ pr'[p].id = pr[p].id /\ pr'[p].ops = pr[p].ops
           /\ pr'[p].i = pr[p].i + 1
           /\ \A q \in Procs \ {p} :
                /\ pr'[q].id = pr[q].id /\ pr'[q].ops = pr[q].ops /\ pr'[q].chan = pr[q].chan
                /\ pr'[q].pc \in {pr[q].pc, "woken"}
<1> DEFINE f == [pr EXCEPT ![p].i = @ + 1]
<1>1. pr[p] \in ProcRecord
  BY DEF FitInv, TypeInv, TypeOK
<1>2. [pr[p] EXCEPT !.i = @ + 1] \in ProcRecord
  BY <1>1 DEF ProcRecord
<1>3. f \in [Procs -> ProcRecord] /\ \A q \in Procs \ {p} : f[q] = pr[q]
  BY <1>2 DEF FitInv, TypeInv, TypeOK
<1>4. f[p] = [pr[p] EXCEPT !.i = @ + 1] /\ pr[p].pc = "ops"
  BY DEF FitInv, TypeInv, TypeOK, SemopDo, Doing
<1>5. f[p].pc = "ops" /\ f[p].id = pr[p].id /\ f[p].ops = pr[p].ops /\ f[p].i = pr[p].i + 1
  BY <1>1, <1>4 DEF ProcRecord
<1>6. PICK C : pr' = wakeprocs(f, C)
  BY DEF SemopDo
<1> HIDE DEF f
<1>7. /\ \A q \in Procs : /\ pr'[q].id = f[q].id /\ pr'[q].ops = f[q].ops /\ pr'[q].i = f[q].i
                          /\ pr'[q].chan = f[q].chan
                          /\ pr'[q].pc = IF f[q].pc = "asleep" /\ f[q].chan \in C
                                         THEN "woken" ELSE f[q].pc
  BY <1>3, <1>6, WakeprocsType
<1>8. \A q \in Procs : pr'[q].pc = f[q].pc \/ (f[q].pc = "asleep" /\ pr'[q].pc = "woken")
  BY <1>7
<1> QED
  BY <1>3, <1>5, <1>7, <1>8

LEMMA TraceDo ==
    ASSUME FitInv, EntriesFit, NEW p \in Procs, SemopDo(p), NEW h, NEW g, Trace(p, h, g),
           NEW d, d = Done(p), NEW v, v = Values', NEW a, a = undo'[p]
    PROVE  /\ Trace(p, Longer(h, d, v), Longer(g, d, a))'
           /\ Done(p)' = d + 1
           /\ v = [Values EXCEPT ![TheSem(p)] = @ + TheOp(p).op]
           /\ Fits(TheOp(p), Values[TheSem(p)])
           /\ \A q \in Procs \ {p} : undo'[q] = undo[q]
           /\ IsFiniteSet(Nonzero(a)) /\ Cardinality(Nonzero(a)) <= semume
<1> DEFINE o == TheOp(p)
           x == TheSem(p)
           e == TheEntry(p)
<1>1. /\ InPassing(p) /\ pr[p].pc = "ops" /\ pr[p].i = d + 1 /\ d \in Nat /\ pr[p].i \in 1..Len(pr[p].ops)
      /\ o \in Ops /\ x \in Addrs /\ e \in Keys
      /\ o = semtmp[d + 1] /\ x = Place(p, d + 1) /\ e = Entry(p, d + 1)
  <2>1. pr[p].pc = "ops" /\ InPassing(p) /\ More(p) /\ pr[p].i \in Nat
    BY DEF SemopDo, Doing, InPassing, FitInv, TypeInv, TypeOK, ProcRecord
  <2>2. pr[p].i = d + 1 /\ d \in Nat
    BY <2>1, PlaceFits DEF Done
  <2>3. pr[p].i \in 1..Len(pr[p].ops)
    <3>1. Len(pr[p].ops) <= semopm /\ pr[p].i <= Len(pr[p].ops) /\ Len(pr[p].ops) \in Nat
      BY <2>1, PlaceFits, SemAssumption DEF More
    <3> QED
      BY <2>2, <3>1, SemAssumption
  <2> QED
    BY <2>1, <2>2, <2>3, PlaceFits DEF TheOp, TheSem, TheEntry, Place, Entry
<1>2. Done(p)' = d + 1 /\ pr'[p].id = pr[p].id /\ UNCHANGED <<sema, semtmp>>
  <2>6. pr'[p].pc = "ops" /\ pr'[p].id = pr[p].id /\ pr'[p].i = pr[p].i + 1
    BY DoPr
  <2>7. Done(p)' = pr'[p].i - 1
    BY <2>6 DEF Done
  <2> QED
    BY <1>1, <2>6, <2>7 DEF SemopDo
<1> HIDE DEF o, x, e
<1>3. /\ sem' = [sem EXCEPT ![x] = Put(x, sem[x].val + o.op, OpKinds(o, sem[x].val + o.op))]
      /\ Fits(o, sem[x].val)
      /\ undo' = IF Adjusts(o) THEN AoeAdjust(p, o.op, e) ELSE undo
      /\ holds' = IF Adjusts(o) THEN AoeHolds(p, o.op) ELSE holds
      /\ Adjusts(o) => ~AoeError(p, o.op, e)
  BY DEF SemopDo, o, x, e
<1>4. sem[x].val \in Int /\ o.op \in Int
  BY <1>1 DEF FitInv, TypeInv, TypeOK, SemRecord, Ops
<1>5. v = [Values EXCEPT ![x] = @ + o.op] /\ Values[x] = sem[x].val
  <2>1. \A y \in Addrs : sem'[y].val = IF y = x THEN sem[x].val + o.op ELSE sem[y].val
    BY <1>1, <1>3 DEF Put, FitInv, TypeInv, TypeOK
  <2> QED
    BY <1>1, <2>1 DEF Values
<1> DEFINE Left ==
      /\ IsFiniteSet(Nonzero(a)) /\ Cardinality(Nonzero(a)) <= semume
      /\ \A q \in Procs \ {p} : undo'[q] = undo[q]
      /\ a \in [Keys -> (-semaem)..semaem]
      /\ holds \subseteq holds'
      /\ IF Adjusts(o) THEN /\ a = [undo[p] EXCEPT ![e] = @ - o.op]
                            /\ p \in holds' /\ o.op \in (-semaem)..semaem
         ELSE a = undo[p]
<1>6. ASSUME Adjusts(o) PROVE Left
  <2>1. undo' = [undo EXCEPT ![p][e] = @ - o.op] /\ p \in holds' /\ holds \subseteq holds'
        /\ o.op \in (-semaem)..semaem /\ o.op # 0
        /\ undo[p][e] - o.op \in (-semaem)..semaem
        /\ (undo[p][e] # 0 \/ Cardinality(Entries(p)) < semume)
    <3>1. ~AoeError(p, o.op, e) /\ o.op # 0
      BY <1>3, <1>6 DEF Adjusts
    <3>2. IsFiniteSet(Entries(p)) /\ Cardinality(Entries(p)) \in Nat /\ semaem \in Nat /\ semume \in Nat
      BY FS_CardinalityType, SemAssumption DEF EntriesFit
    <3>3. undo[p][e] \in Int
      BY <1>1, SemAssumption DEF FitInv, TypeInv, TypeOK
    <3> QED
      BY <1>1, <1>3, <1>4, <1>6, <3>1, <3>2, <3>3 DEF AoeError, AoeAdjust, AoeHolds, Entries
  <2>2. a = [undo[p] EXCEPT ![e] = @ - o.op] /\ \A q \in Procs \ {p} : undo'[q] = undo[q]
    BY <2>1 DEF FitInv, TypeInv, TypeOK
  <2>3. IsFiniteSet(Nonzero(a)) /\ Cardinality(Nonzero(a)) <= semume
    <3>1. IsFiniteSet(Entries(p)) /\ Cardinality(Entries(p)) <= semume
      BY DEF EntriesFit
    <3>2. \A f \in Keys : a[f] = IF f = e THEN undo[p][e] - o.op ELSE undo[p][f]
      BY <2>2 DEF FitInv, TypeInv, TypeOK
    <3>3. CASE undo[p][e] # 0
      <4>1. Nonzero(a) \subseteq Entries(p)
        BY <1>1, <3>2, <3>3 DEF Nonzero, Entries
      <4> QED
        BY <3>1, <4>1, FS_Subset, FS_CardinalityType, SemAssumption
    <3>4. CASE undo[p][e] = 0
      <4>1. Nonzero(a) \subseteq Entries(p) \cup {e}
        BY <1>1, <3>2 DEF Nonzero, Entries
      <4>2. IsFiniteSet(Entries(p) \cup {e}) /\ Cardinality(Entries(p) \cup {e}) <= semume
        <5>1. e \notin Entries(p) /\ Cardinality(Entries(p)) < semume
          BY <2>1, <3>4 DEF Entries
        <5>2. Cardinality(Entries(p)) \in Nat
          BY <3>1, FS_CardinalityType
        <5>3. IsFiniteSet(Entries(p) \cup {e})
              /\ Cardinality(Entries(p) \cup {e}) = Cardinality(Entries(p)) + 1
          BY <3>1, <5>1, FS_AddElement
        <5> QED
          BY <5>1, <5>2, <5>3, SemAssumption
      <4> QED
        BY <4>1, <4>2, FS_Subset, FS_CardinalityType, SemAssumption
    <3> QED
      BY <3>3, <3>4
  <2>4. a \in [Keys -> (-semaem)..semaem]
    BY <1>1, <2>1, <2>2 DEF FitInv, TypeInv, TypeOK
  <2> QED
    BY <2>1, <2>2, <2>3, <2>4, <1>6
<1>7. ASSUME ~Adjusts(o) PROVE Left
  <2>1. UNCHANGED <<undo, holds>>
    BY <1>3, <1>7
  <2> QED
    BY <1>7, <2>1 DEF EntriesFit, Entries, Nonzero, FitInv, TypeInv, TypeOK
<1>8. Left
  BY <1>6, <1>7
<1>9. v \in [Addrs -> 0..semvmx]
  <2>1. Values \in [Addrs -> 0..semvmx]
    BY <1>1 DEF Trace
  <2>2. Values[x] + o.op \in 0..semvmx
    BY <1>1, <1>3, <1>4, <1>5, <2>1, SemAssumption DEF Fits
  <2> QED
    BY <1>1, <1>5, <2>1, <2>2
<1>10. Trace(p, Longer(h, d, v), Longer(g, d, a))'
  <2>1. Fits(semtmp[d + 1], Values[Place(p, d + 1)])
    BY <1>1, <1>3, <1>5
  <2>2. v = [Values EXCEPT ![Place(p, d + 1)] = @ + semtmp[d + 1].op]
    BY <1>1, <1>5
  <2>3. IF Adjusts(semtmp[d + 1])
        THEN /\ a = [undo[p] EXCEPT ![Entry(p, d + 1)] = @ - semtmp[d + 1].op]
             /\ p \in holds' /\ semtmp[d + 1].op \in (-semaem)..semaem
        ELSE a = undo[p]
    BY <1>1, <1>8
  <2> QED
    BY <1>1, <1>2, <1>8, <1>9, <2>1, <2>2, <2>3, TraceLonger
<1> QED
  BY <1>2, <1>3, <1>5, <1>8, <1>10 DEF o, x

\* Taking back the last operation restores what was before it: semaoe() cannot
\* refuse, because the entry was there or there was room for it.
Shorter(h, d) == [k \in 0..(d - 1) |-> h[k]]

LEMMA TraceBack ==
    ASSUME FitInv, NEW p \in Procs, semundo(p), NEW h, NEW g, Trace(p, h, g),
           NEW d, d = Done(p)
    PROVE  /\ Trace(p, Shorter(h, d), Shorter(g, d))'
           /\ d \in Nat /\ d > 0 /\ Done(p)' = d - 1 /\ pr'[p].pc = "undo"
           /\ Values' = h[d - 1] /\ undo'[p] = g[d - 1]
           /\ \A q \in Procs \ {p} : undo'[q] = undo[q] /\ pr'[q] = pr[q]
<1> DEFINE o == TheOp(p)
           x == TheSem(p)
           e == TheEntry(p)
<1>1. /\ InPassing(p) /\ pr[p].pc = "undo" /\ pr[p].i = d /\ d \in Nat /\ d > 0 /\ d \in 1..Len(pr[p].ops)
      /\ o \in Ops /\ x \in Addrs /\ e \in Keys
      /\ o = semtmp[d] /\ x = Place(p, d) /\ e = Entry(p, d)
  <2>1. pr[p].pc = "undo" /\ InPassing(p) /\ pr[p].i = d /\ d > 0
    BY DEF semundo, Doing, InPassing, Done
  <2>2. d \in Nat /\ d <= Len(pr[p].ops) /\ Len(pr[p].ops) \in Nat
    <3>1. pr[p].ops \in OpLists
      BY <2>1, PlaceFits
    <3> QED
      BY <2>1, <3>1, PlaceFits, SemAssumption
  <2>3. d \in 1..Len(pr[p].ops)
    BY <2>1, <2>2, SemAssumption
  <2> QED
    BY <2>1, <2>2, <2>3, PlaceFits DEF TheOp, TheSem, TheEntry, Place, Entry
<1>2. /\ Done(p)' = d - 1 /\ pr'[p].id = pr[p].id /\ pr'[p].pc = "undo" /\ UNCHANGED <<sema, semtmp>>
      /\ \A q \in Procs \ {p} : pr'[q] = pr[q]
  <2>1. pr[p] \in ProcRecord /\ pr' = [pr EXCEPT ![p].i = @ - 1]
    BY DEF FitInv, TypeInv, TypeOK, semundo
  <2>2. /\ pr'[p].pc = "undo" /\ pr'[p].id = pr[p].id /\ pr'[p].i = d - 1
        /\ \A q \in Procs \ {p} : pr'[q] = pr[q]
    BY <1>1, <2>1 DEF ProcRecord, FitInv, TypeInv, TypeOK
  <2>3. Done(p)' = pr'[p].i
    BY <2>2 DEF Done
  <2> QED
    BY <2>2, <2>3 DEF semundo
<1> HIDE DEF o, x, e
<1>3. /\ sem' = [sem EXCEPT ![x].val = @ - o.op]
      /\ undo' = IF Adjusts(o) THEN AoeAdjust(p, -o.op, e) ELSE undo
      /\ holds' = IF Adjusts(o) THEN AoeHolds(p, -o.op) ELSE holds
  BY DEF semundo, o, x, e
<1>4. /\ h \in [0..d -> [Addrs -> 0..semvmx]]
      /\ g \in [0..d -> [Keys -> (-semaem)..semaem]]
      /\ h[d] = Values /\ g[d] = undo[p]
      /\ \A k \in 0..d : IsFiniteSet(Nonzero(g[k])) /\ Cardinality(Nonzero(g[k])) <= semume
      /\ \A j \in 1..d :
         /\ Fits(semtmp[j], h[j - 1][Place(p, j)])
         /\ h[j] = [h[j - 1] EXCEPT ![Place(p, j)] = @ + semtmp[j].op]
         /\ IF Adjusts(semtmp[j])
            THEN /\ g[j] = [g[j - 1] EXCEPT ![Entry(p, j)] = @ - semtmp[j].op]
                 /\ p \in holds /\ semtmp[j].op \in (-semaem)..semaem
            ELSE g[j] = g[j - 1]
  BY DEF Trace
<1>5. /\ d - 1 \in 0..d /\ d \in 1..d
      /\ h[d - 1] \in [Addrs -> 0..semvmx] /\ g[d - 1] \in [Keys -> (-semaem)..semaem]
  <2>1. d - 1 \in 0..d /\ d \in 1..d
    BY <1>1
  <2> QED
    BY <1>4, <2>1
<1>6. o.op \in Int
  BY <1>1 DEF Ops
<1>7. Values' = h[d - 1]
  <2>1. Values = [h[d - 1] EXCEPT ![x] = @ + o.op]
    BY <1>1, <1>4, <1>5
  <2>2. \A y \in Addrs : Values[y] = sem[y].val
    BY DEF Values
  <2>3. \A y \in Addrs : sem'[y].val = IF y = x THEN sem[x].val - o.op ELSE sem[y].val
    BY <1>1, <1>3 DEF FitInv, TypeInv, TypeOK, SemRecord
  <2>4. \A y \in Addrs : h[d - 1][y] \in Int
    BY <1>5, SemAssumption
  <2>5. \A y \in Addrs : sem'[y].val = h[d - 1][y]
    BY <1>1, <1>5, <1>6, <2>1, <2>2, <2>3, <2>4
  <2>6. Values' = [y \in Addrs |-> h[d - 1][y]]
    BY <2>5 DEF Values
  <2> QED
    BY <1>5, <2>6
<1> DEFINE Left == /\ undo'[p] = g[d - 1] /\ UNCHANGED holds
                   /\ \A q \in Procs \ {p} : undo'[q] = undo[q]
<1>8. ASSUME Adjusts(o) PROVE Left
  <2>1. /\ undo[p] = [g[d - 1] EXCEPT ![e] = @ - o.op]
        /\ p \in holds /\ o.op \in (-semaem)..semaem /\ o.op # 0
    BY <1>1, <1>4, <1>5, <1>8 DEF Adjusts
  <2>2. g[d - 1][e] \in (-semaem)..semaem
    BY <1>1, <1>5
  <2>3. g[d - 1][e] \in Int /\ undo[p][e] = g[d - 1][e] - o.op /\ undo[p][e] - (-o.op) = g[d - 1][e]
    BY <1>1, <1>5, <1>6, <2>1, <2>2, SemAssumption
  <2>4. ~(e \notin Entries(p) /\ Cardinality(Entries(p)) >= semume)
    <3> SUFFICES ASSUME e \notin Entries(p), Cardinality(Entries(p)) >= semume
                 PROVE  FALSE
      OBVIOUS
    <3>1. g[d - 1][e] # 0
      BY <1>1, <1>6, <2>1, <2>3 DEF Entries
    <3>2. Entries(p) \cup {e} \subseteq Nonzero(g[d - 1])
      BY <1>1, <1>5, <2>1, <3>1 DEF Entries, Nonzero
    <3>3. IsFiniteSet(Entries(p)) /\ IsFiniteSet(Nonzero(g[d - 1]))
          /\ Cardinality(Nonzero(g[d - 1])) <= semume
      BY <1>4, <1>5, <3>2, FS_Subset
    <3>4. Cardinality(Entries(p)) \in Nat
          /\ Cardinality(Entries(p) \cup {e}) = Cardinality(Entries(p)) + 1
      BY <3>3, FS_AddElement, FS_CardinalityType
    <3>5. Cardinality(Entries(p) \cup {e}) <= Cardinality(Nonzero(g[d - 1]))
          /\ Cardinality(Nonzero(g[d - 1])) \in Nat
      BY <3>2, <3>3, FS_Subset, FS_CardinalityType
    <3> QED
      BY <3>3, <3>4, <3>5, SemAssumption
  <2>5. ~AoeError(p, -o.op, e)
    BY <1>6, <2>1, <2>2, <2>3, <2>4, SemAssumption DEF AoeError, NoStructure
  <2>6. undo' = [undo EXCEPT ![p][e] = @ - (-o.op)]
    BY <1>3, <1>8, <2>5 DEF AoeAdjust
  <2>7. UNCHANGED holds
    BY <1>3, <1>8, <2>1 DEF AoeHolds
  <2>8. undo'[p] = [undo[p] EXCEPT ![e] = g[d - 1][e]] /\ \A q \in Procs \ {p} : undo'[q] = undo[q]
    BY <1>1, <2>3, <2>6 DEF FitInv, TypeInv, TypeOK
  <2>9. undo'[p] = g[d - 1]
    BY <1>5, <2>1, <2>8
  <2> QED
    BY <2>7, <2>8, <2>9
<1>9. ASSUME ~Adjusts(o) PROVE Left
  BY <1>1, <1>3, <1>4, <1>5, <1>9
<1>10. Left
  BY <1>8, <1>9
<1>11. Trace(p, Shorter(h, d), Shorter(g, d))'
  <2>1. PICK H, G : H = Shorter(h, d) /\ G = Shorter(g, d)
    OBVIOUS
  <2>2. \A k \in 0..(d - 1) : H[k] = h[k] /\ G[k] = g[k] /\ k \in 0..d
    BY <1>1, <2>1 DEF Shorter
  <2>3. H \in [0..(d - 1) -> [Addrs -> 0..semvmx]] /\ G \in [0..(d - 1) -> [Keys -> (-semaem)..semaem]]
    BY <1>4, <2>1, <2>2 DEF Shorter
  <2>4. /\ \A j : Place(p, j)' = Place(p, j) /\ Entry(p, j)' = Entry(p, j)
        /\ semtmp' = semtmp /\ holds' = holds
    BY <1>2, <1>10 DEF Place, Entry, Addr
  <2>5. \A f : Nonzero(f)' = Nonzero(f)
    BY DEF Nonzero
  <2>6. \A j \in 1..(d - 1) : j \in 1..d /\ j - 1 \in 0..(d - 1) /\ j \in 0..(d - 1)
    BY <1>1
  <2>7. \A j \in 1..(d - 1) :
             /\ Fits(semtmp'[j], H[j - 1][Place(p, j)'])
             /\ H[j] = [H[j - 1] EXCEPT ![Place(p, j)'] = @ + semtmp'[j].op]
             /\ IF Adjusts(semtmp'[j])
                THEN /\ G[j] = [G[j - 1] EXCEPT ![Entry(p, j)'] = @ - semtmp'[j].op]
                     /\ p \in holds' /\ semtmp'[j].op \in (-semaem)..semaem
                ELSE G[j] = G[j - 1]
    <3> SUFFICES ASSUME NEW j \in 1..(d - 1)
                 PROVE  /\ Fits(semtmp'[j], H[j - 1][Place(p, j)'])
                        /\ H[j] = [H[j - 1] EXCEPT ![Place(p, j)'] = @ + semtmp'[j].op]
                        /\ IF Adjusts(semtmp'[j])
                           THEN /\ G[j] = [G[j - 1] EXCEPT ![Entry(p, j)'] = @ - semtmp'[j].op]
                                /\ p \in holds' /\ semtmp'[j].op \in (-semaem)..semaem
                           ELSE G[j] = G[j - 1]
      OBVIOUS
    <3>1. H[j] = h[j] /\ G[j] = g[j] /\ H[j - 1] = h[j - 1] /\ G[j - 1] = g[j - 1] /\ j \in 1..d
      BY <2>2, <2>6
    <3>2. /\ Fits(semtmp[j], h[j - 1][Place(p, j)])
          /\ h[j] = [h[j - 1] EXCEPT ![Place(p, j)] = @ + semtmp[j].op]
          /\ IF Adjusts(semtmp[j])
             THEN /\ g[j] = [g[j - 1] EXCEPT ![Entry(p, j)] = @ - semtmp[j].op]
                  /\ p \in holds /\ semtmp[j].op \in (-semaem)..semaem
             ELSE g[j] = g[j - 1]
      BY <1>4, <3>1
    <3> QED
      BY <2>4, <3>1, <3>2
  <2>8. d - 1 \in 0..(d - 1)
    BY <1>1
  <2>9. /\ \A k \in 0..Done(p)' : IsFiniteSet(Nonzero(G[k])') /\ Cardinality(Nonzero(G[k])') <= semume
        /\ H[Done(p)'] = Values' /\ G[Done(p)'] = undo'[p]
    BY <1>2, <1>4, <1>7, <1>10, <2>2, <2>5, <2>8
  <2>10. Trace(p, H, G)'
    BY <1>2, <2>3, <2>7, <2>9 DEF Trace
  <2> QED
    BY <2>1, <2>10
<1> QED
  BY <1>1, <1>2, <1>7, <1>10, <1>11

\* While a process is in a pass, only it runs, but for the signals that others
\* get.
LEMMA PassSteps ==
    ASSUME Serial, NEW p \in Procs, InPassing(p), [Next]_vars
    PROVE  /\ cur = p /\ \A q \in Procs : InPassing(q) => q = p
           /\ \/ SemopDo(p) \/ SemopError(p) \/ SemopWait(p) \/ SemopDone(p)
              \/ semundo(p) \/ SemopLeave(p)
              \/ \E q \in Procs : Signal(q) \/ Continued(q)
              \/ UNCHANGED vars
<1>1. cur = p /\ cur # NoProc /\ pr[p].pc # "exit" /\ \A q \in Procs : InPassing(q) => q = p
  BY SemAssumption DEF Serial, InPassing
<1>2. \A id, N, f : ~Assign(id, N, f)
  BY <1>1 DEF Assign
<1>3. /\ \A s : ~semget(s)
      /\ \A id : ~semctlRMID(id) /\ ~semctlSETVAL(id) /\ ~semctlSETALL(id) /\ ~semctlSET(id)
      /\ \A q, id, ops : ~semop(q, id, ops)
      /\ \A q : ~Resume(q) /\ ~Interrupted(q) /\ ~semexit(q) /\ ~SemexitEntry(q) /\ ~SemexitDone(q)
  BY <1>1, <1>2 DEF semget, semctlRMID, semctlSETVAL, semctlSETALL, semctlSET, semop, Enters, Resume, Interrupted,
     semexit, SemexitEntry, SemexitDone, Doing
<1>4. \A q : SemopDo(q) \/ SemopError(q) \/ SemopWait(q) \/ SemopDone(q)
             \/ semundo(q) \/ SemopLeave(q) => q = p
  BY <1>1 DEF SemopDo, SemopError, SemopWait, SemopDone, semundo, SemopLeave, Doing
<1> QED
  BY <1>1, <1>3, <1>4 DEF Next

\* The steps of no pass.
LEMMA OtherSteps ==
    ASSUME \A p \in Procs : ~InPassing(p), [Next]_vars
    PROVE  \/ \E s \in Sets : semget(s)
           \/ \E id \in Ids : semctlRMID(id) \/ semctlSETVAL(id) \/ semctlSETALL(id) \/ semctlSET(id)
           \/ \E p \in Procs, id \in Ids, ops \in OpLists : semop(p, id, ops)
           \/ \E p \in Procs : Signal(p) \/ Continued(p) \/ Resume(p) \/ Interrupted(p)
                               \/ semexit(p) \/ SemexitEntry(p) \/ SemexitDone(p)
           \/ UNCHANGED vars
<1>1. \A p \in Procs : ~(SemopDo(p) \/ SemopError(p) \/ SemopWait(p) \/ SemopDone(p)
                         \/ semundo(p) \/ SemopLeave(p))
  BY DEF SemopDo, SemopError, SemopWait, SemopDone, semundo, SemopLeave, Doing, InPassing
<1> QED
  BY <1>1 DEF Next

\* A pass starts with nothing done.
LEMMA PassStarts ==
    ASSUME FitInv, \A p \in Procs : ~InPassing(p), [Next]_vars, NEW p \in Procs, InPassing(p)'
    PROVE  /\ Done(p)' = 0 /\ cur' = p /\ pr'[p].pc = "ops" /\ UNCHANGED <<sema, sem, undo, holds>>
           /\ pr[p].pc \in {"user", "woken"} /\ cur = NoProc
           /\ \A q \in Procs \ {p} : pr'[q] = pr[q]
           /\ \A j \in DOMAIN pr'[p].ops : semtmp'[j] = pr'[p].ops[j]
<1> USE DEF FitInv, TypeInv, TypeOK
<1>1. ASSUME NEW q \in Procs, NEW id, NEW ops \in OpLists, NEW then, Pass(q, id, ops, then),
             cur = NoProc, UNCHANGED <<sema, sem, undo, holds>>, pr[q].pc \in {"user", "woken"}
      PROVE  /\ Done(p)' = 0 /\ cur' = p /\ pr'[p].pc = "ops" /\ UNCHANGED <<sema, sem, undo, holds>>
             /\ pr[p].pc \in {"user", "woken"} /\ cur = NoProc
             /\ \A r \in Procs \ {p} : pr'[r] = pr[r]
             /\ \A j \in DOMAIN pr'[p].ops : semtmp'[j] = pr'[p].ops[j]
  <2>1. \A r \in Procs \ {q} : pr'[r] = pr[r]
    BY <1>1 DEF Pass
  <2>2. q = p
    BY <2>1 DEF InPassing
  <2>3. pr'[p].pc = "ops" /\ pr'[p].i = 1 /\ pr'[p].ops = ops /\ cur' = p
    BY <1>1, <2>2 DEF Pass, InPass
  <2>4. Done(p)' = 0
    BY <2>3 DEF Done
  <2>5. DOMAIN ops = 1..Len(ops) /\ Len(ops) <= semopm /\ Len(ops) \in Nat
    BY SemAssumption
  <2>6. \A j \in DOMAIN ops : j \in 1..semopm /\ 0 < j /\ j <= Len(ops)
    BY <2>5, SemAssumption
  <2>7. \A j \in DOMAIN ops : semtmp'[j] = ops[j]
    BY <1>1, <2>6 DEF Pass, Copied
  <2> QED
    BY <1>1, <2>1, <2>2, <2>3, <2>4, <2>7
<1>2. ASSUME NEW f \in [Procs -> ProcRecord], \A q \in Procs : f[q].pc \notin {"ops", "undo"},
             pr' = f \/ \E C : pr' = wakeprocs(f, C)
      PROVE  FALSE
  <2>1. pr'[p].pc \in {"ops", "undo"}
    BY DEF InPassing
  <2>2. pr'[p].pc \in {f[p].pc, "woken"}
    <3> HIDE DEF FitInv, TypeInv, TypeOK
    <3> QED
      BY <1>2, WokenPc
  <2> QED
    BY <1>2, <2>1, <2>2
<1>3. ASSUME NEW q \in Procs, pr' = [pr EXCEPT ![q] = Idle]
                              \/ \E C : pr' = wakeprocs([pr EXCEPT ![q] = Idle], C)
      PROVE  FALSE
  <2> DEFINE f == [pr EXCEPT ![q] = Idle]
  <2>1. f \in [Procs -> ProcRecord]
    BY IdleType
  <2>2. \A r \in Procs : f[r].pc \notin {"ops", "undo"}
    BY DEF InPassing, Idle
  <2>3. pr' = f \/ \E C : pr' = wakeprocs(f, C)
    BY <1>3
  <2> HIDE DEF f
  <2> QED
    BY <2>1, <2>2, <2>3, <1>2
<1>4. ASSUME pr' = pr \/ \E C : pr' = wakeprocs(pr, C)
      PROVE  FALSE
  BY <1>2, <1>4 DEF InPassing
<1>5. CASE \E s \in Sets : semget(s)
  BY <1>4, <1>5 DEF semget
<1>6. CASE \E id \in Ids : semctlRMID(id) \/ semctlSETVAL(id) \/ semctlSETALL(id) \/ semctlSET(id)
  BY <1>4, <1>6 DEF semctlRMID, semctlSETVAL, semctlSETALL, semctlSET, Assign
<1>7. CASE \E q \in Procs, id \in Ids, ops \in OpLists : semop(q, id, ops)
  BY <1>1, <1>7 DEF semop, Enters
<1>8. CASE \E q \in Procs : Signal(q) \/ Continued(q) \/ semexit(q)
  BY <1>8, ZenonT(40) DEF Signal, Continued, semexit, InPassing, ProcRecord
<1>9. ASSUME NEW q \in Procs, Resume(q)
      PROVE  /\ Done(p)' = 0 /\ cur' = p /\ pr'[p].pc = "ops" /\ UNCHANGED <<sema, sem, undo, holds>>
             /\ pr[p].pc \in {"user", "woken"} /\ cur = NoProc
             /\ \A r \in Procs \ {p} : pr'[r] = pr[r]
             /\ \A j \in DOMAIN pr'[p].ops : semtmp'[j] = pr'[p].ops[j]
  <2>1. CASE semconv(pr[q].id)
    <3>1. pr[q].ops \in OpLists
      BY <1>9 DEF Resume, Indices, InKernel, ProcRecord
    <3> QED
      BY <1>1, <1>9, <2>1, <3>1 DEF Resume
  <2>2. CASE ~semconv(pr[q].id)
    BY <1>3, <1>9, <2>2 DEF Resume
  <2> QED
    BY <2>1, <2>2
<1>10. CASE \E q \in Procs : Interrupted(q)
  BY <1>3, <1>10 DEF Interrupted
<1>11. CASE \E q \in Procs : SemexitEntry(q)
  BY <1>4, <1>11 DEF SemexitEntry
<1>12. CASE \E q \in Procs : SemexitDone(q)
  BY <1>3, <1>12 DEF SemexitDone
<1>13. CASE UNCHANGED vars
  BY <1>4, <1>13 DEF vars
<1> HIDE DEF FitInv, TypeInv, TypeOK
<1> QED
  BY <1>5, <1>6, <1>7, <1>8, <1>9, <1>10, <1>11, <1>12, <1>13, OtherSteps

\* A step of a pass that goes on leaves the semaphores and the adjustments as
\* they were at its start.
LEMMA TraceStep ==
    ASSUME FitInv, EntriesFit, Serial, [Next]_vars, NEW p \in Procs, InPassing(p), InPassing(p)',
           NEW h, NEW g, Trace(p, h, g)
    PROVE  /\ UNCHANGED sema /\ \A q \in Procs \ {p} : undo'[q] = undo[q]
           /\ pr'[p].id = pr[p].id /\ pr'[p].ops = pr[p].ops /\ UNCHANGED semtmp
           /\ \E H, G : /\ Trace(p, H, G)' /\ H[0] = h[0] /\ G[0] = g[0]
                       /\ \A k \in 0..Done(p)' : \/ k \in 0..Done(p) /\ H[k] = h[k]
                                               \/ H[k] = Values'
           /\ Done(p)' \in Nat
<1> USE DEF FitInv, TypeInv, TypeOK
<1>1. SemopDo(p) \/ SemopError(p) \/ SemopWait(p) \/ SemopDone(p) \/ semundo(p) \/ SemopLeave(p)
      \/ (\E q \in Procs : Signal(q) \/ Continued(q)) \/ UNCHANGED vars
  BY PassSteps
<1>2. pr[p] \in ProcRecord
  OBVIOUS
<1>3. ASSUME SemopDo(p) PROVE pr'[p].id = pr[p].id /\ pr'[p].ops = pr[p].ops
  <2> HIDE DEF FitInv, TypeInv, TypeOK
  <2> QED
    BY <1>3, DoPr
<1>4. CASE SemopDo(p)
  <2>1. PICK d, v, a : d = Done(p) /\ v = Values' /\ a = undo'[p]
    OBVIOUS
  <2>2. Trace(p, Longer(h, d, v), Longer(g, d, a))' /\ \A q \in Procs \ {p} : undo'[q] = undo[q]
    BY <1>4, <2>1, TraceDo
  <2>3. Longer(h, d, v)[0] = h[0] /\ Longer(g, d, a)[0] = g[0]
    <3>1. d \in Nat /\ 0 \in 0..(d + 1) /\ 0 <= d
      BY <2>1, PlaceFits
    <3> QED
      BY <3>1 DEF Longer
  <2>4. PICK H, G : H = Longer(h, d, v) /\ G = Longer(g, d, a)
    OBVIOUS
  <2>5. Trace(p, H, G)' /\ H[0] = h[0] /\ G[0] = g[0]
    BY <2>2, <2>3, <2>4
  <2>6. Done(p) \in Nat /\ Done(p)' = Done(p) + 1 /\ Done(p)' \in Nat
    <3>1. Done(p) \in Nat /\ Done(p)' = Done(p) + 1
      BY <1>4, <2>1, PlaceFits, TraceDo
    <3> QED
      BY <3>1
  <2>7. \A k \in 0..Done(p)' : \/ k \in 0..Done(p) /\ H[k] = h[k]
                              \/ H[k] = Values'
    <3>1. \A k \in 0..(d + 1) : H[k] = IF k <= d THEN h[k] ELSE v
      BY <2>4 DEF Longer
    <3>2. \A k \in 0..(d + 1) : k <= d => k \in 0..d
      BY <2>1, <2>6
    <3> QED
      BY <2>1, <2>6, <3>1, <3>2
  <2> HIDE DEF FitInv, TypeInv, TypeOK
  <2> QED
    BY <1>3, <1>4, <2>2, <2>5, <2>6, <2>7 DEF SemopDo
<1>5. CASE semundo(p)
  <2>1. PICK d : d = Done(p)
    OBVIOUS
  <2>2. Trace(p, Shorter(h, d), Shorter(g, d))' /\ d \in Nat /\ d > 0
        /\ \A q \in Procs \ {p} : undo'[q] = undo[q]
    BY <1>5, <2>1, TraceBack
  <2>3. Shorter(h, d)[0] = h[0] /\ Shorter(g, d)[0] = g[0]
    <3>1. 0 \in 0..(d - 1)
      BY <2>2
    <3> QED
      BY <3>1 DEF Shorter
  <2>4. PICK H, G : H = Shorter(h, d) /\ G = Shorter(g, d)
    OBVIOUS
  <2>5. Trace(p, H, G)' /\ H[0] = h[0] /\ G[0] = g[0]
    BY <2>2, <2>3, <2>4
  <2>6. pr'[p].id = pr[p].id /\ pr'[p].ops = pr[p].ops
    BY <1>2, <1>5 DEF semundo, ProcRecord
  <2>7. Done(p)' \in Nat
    <3>1. Done(p)' = d - 1
      BY <1>5, <2>1, TraceBack
    <3> QED
      BY <2>2, <3>1
  <2>8. \A k \in 0..Done(p)' : k \in 0..Done(p) /\ H[k] = h[k]
    <3>1. Done(p)' = d - 1
      BY <1>5, <2>1, TraceBack
    <3>2. \A k \in 0..(d - 1) : H[k] = h[k] /\ k \in 0..d
      BY <2>2, <2>4 DEF Shorter
    <3> QED
      BY <2>1, <3>1, <3>2
  <2> HIDE DEF FitInv, TypeInv, TypeOK
  <2> QED
    BY <1>5, <2>2, <2>5, <2>6, <2>7, <2>8 DEF semundo
<1>6. ASSUME UNCHANGED <<sema, sem, undo, semtmp>>, holds \subseteq holds',
             pr'[p].id = pr[p].id, pr'[p].ops = pr[p].ops, Done(p)' = Done(p)
      PROVE  /\ UNCHANGED sema /\ \A q \in Procs \ {p} : undo'[q] = undo[q]
             /\ pr'[p].id = pr[p].id /\ pr'[p].ops = pr[p].ops /\ UNCHANGED semtmp
             /\ \E H, G : /\ Trace(p, H, G)' /\ H[0] = h[0] /\ G[0] = g[0]
                         /\ \A k \in 0..Done(p)' : \/ k \in 0..Done(p) /\ H[k] = h[k]
                                                 \/ H[k] = Values'
             /\ Done(p)' \in Nat
  <2>1. Values' = Values
    BY <1>6 DEF Values
  <2>2. Trace(p, h, g)'
    BY <1>6, <2>1, TraceKept
  <2>3. Done(p)' \in Nat
    BY <1>6, PlaceFits
  <2> QED
    BY <1>6, <2>2, <2>3
<1>7. CASE SemopError(p) \/ SemopWait(p)
  <2>1. pr[p].pc = "ops" /\ holds \subseteq holds' /\ UNCHANGED <<sema, sem, undo, semtmp>>
    BY <1>7 DEF SemopError, SemopWait, Doing, AoeHolds
  <2>2. pr'[p].id = pr[p].id /\ pr'[p].ops = pr[p].ops /\ pr'[p].pc = "undo" /\ pr'[p].i = pr[p].i - 1
    BY <1>2, <1>7 DEF SemopError, SemopWait, Rollback, InPass, ProcRecord
  <2>3. Done(p)' = Done(p)
    BY <2>1, <2>2 DEF Done
  <2> QED
    BY <1>6, <2>1, <2>2, <2>3
<1>8. CASE SemopDone(p) \/ SemopLeave(p)
  BY <1>2, <1>8 DEF SemopDone, SemopLeave, InPassing, Idle, ProcRecord
<1>9. CASE (\E q \in Procs : Signal(q) \/ Continued(q)) \/ UNCHANGED vars
  <2>1. pr'[p] = pr[p] /\ UNCHANGED <<sema, sem, undo, holds, semtmp>>
    BY <1>9 DEF Signal, Continued, vars, InPassing
  <2>2. Done(p)' = Done(p)
    BY <2>1 DEF Done
  <2> QED
    BY <1>6, <2>1, <2>2
<1> HIDE DEF FitInv, TypeInv, TypeOK
<1> QED
  BY <1>1, <1>4, <1>5, <1>7, <1>8, <1>9

\* The end of a pass.
LEMMA PassEnds ==
    ASSUME FitInv, Serial, NEW p \in Procs, InPassing(p), ~InPassing(p)', [Next]_vars
    PROVE  /\ \/ SemopDone(p) /\ pr'[p].pc = "user"
              \/ SemopLeave(p) /\ pr'[p].pc \in {"user", "asleep"}
           /\ UNCHANGED <<sema, undo, holds, semtmp>> /\ cur' = NoProc
           /\ \A x \in Addrs : sem'[x].val = sem[x].val
           /\ \A q \in Procs \ {p} : pr'[q] = pr[q]
<1>1. pr \in [Procs -> ProcRecord] /\ pr[p] \in ProcRecord
  BY DEF FitInv, TypeInv, TypeOK
<1>2. ~SemopDo(p)
  BY DoPr DEF InPassing
<1>3. ~SemopError(p) /\ ~SemopWait(p) /\ ~semundo(p)
  BY <1>1 DEF SemopError, SemopWait, Rollback, InPass, semundo, Doing, InPassing, ProcRecord
<1>4. ~(\E q \in Procs : Signal(q) \/ Continued(q)) /\ ~UNCHANGED vars
  BY <1>1 DEF Signal, Continued, vars, InPassing, ProcRecord
<1>5. SemopDone(p) \/ SemopLeave(p)
  BY <1>2, <1>3, <1>4, PassSteps
<1>6. CASE SemopDone(p)
  BY <1>1, <1>6 DEF SemopDone, Idle
<1>7. CASE SemopLeave(p)
  <2>1. pr[p].chan[2] \in Int
    BY <1>1 DEF ProcRecord
  <2>2. \A x \in Addrs : sem'[x].val = sem[x].val
    <3>1. sem \in [Addrs -> SemRecord]
      BY DEF FitInv, TypeInv, TypeOK
    <3>2. \/ UNCHANGED sem
          \/ sem' = [sem EXCEPT ![pr[p].chan[2]].ncnt = @ + 1]
          \/ sem' = [sem EXCEPT ![pr[p].chan[2]].zcnt = @ + 1]
      BY <1>7 DEF SemopLeave
    <3> QED
      BY <3>1, <3>2 DEF SemRecord
  <2> QED
    BY <1>1, <1>7, <2>2 DEF SemopLeave, Idle, ProcRecord
<1> QED
  BY <1>5, <1>6, <1>7

-----------------------------------------------------------------------------
(***************************************************************************)
(* The values of semaphores.                                               *)
(***************************************************************************)

\* SETVAL and SETALL.
LEMMA SetCases ==
    ASSUME NEW id \in Ids, semctlSETVAL(id) \/ semctlSETALL(id)
    PROVE  \E N \in {Members(id)} \cup {{n} : n \in Members(id)} :
              \E f \in [N -> SemVals] : Assign(id, N, f)
<1>1. CASE semctlSETVAL(id)
  <2>1. PICK n \in Members(id), v \in SemVals : Assign(id, {n}, [m \in {n} |-> v])
    BY <1>1 DEF semctlSETVAL
  <2>2. {n} \in {{m} : m \in Members(id)} /\ [m \in {n} |-> v] \in [{n} -> SemVals]
    OBVIOUS
  <2>3. \E f \in [{n} -> SemVals] : Assign(id, {n}, f)
    BY <2>1, <2>2
  <2> QED
    BY <2>2, <2>3
<1>2. CASE semctlSETALL(id)
  BY <1>2 DEF semctlSETALL
<1> QED
  BY <1>1, <1>2

\* An adjustment of semexit() is for a semaphore of a set that exists.
ExitAdjusts(p, e, x, v, K) ==
    /\ undo[p][e] # 0 /\ semconv(e[1]) /\ e[2] < sema[e[1][1]].nsems
    /\ x = Addr(e[1][1], e[2]) /\ x \in Span(e[1][1]) /\ v = sem[x].val + undo[p][e]
    /\ "z" \in K <=> v = 0
    /\ "n" \in K <=> undo[p][e] > 0
    /\ undo' = [undo EXCEPT ![p][e] = 0] /\ UNCHANGED <<sema, holds, semtmp, cur>>
    /\ IF v \in 0..semvmx
       THEN sem' = [sem EXCEPT ![x] = Put(x, v, K)] /\ pr' = wakeprocs(pr, Called(x, K))
       ELSE UNCHANGED <<sem, pr>>

LEMMA ExitCases ==
    ASSUME FitInv, AdjustmentsAreLive, NEW p \in Procs, SemexitEntry(p)
    PROVE  \E e \in Keys, x \in Addrs, v \in Int, K \in SUBSET Kinds : ExitAdjusts(p, e, x, v, K)
<1>1. PICK e : e \in Entries(p) /\
         LET x == Addr(e[1][1], e[2])
             v == sem[x].val + undo[p][e]
             K == (IF v = 0 THEN {"z"} ELSE {}) \cup (IF undo[p][e] > 0 THEN {"n"} ELSE {})
         IN /\ undo' = [undo EXCEPT ![p][e] = 0]
            /\ IF semconv(e[1]) /\ v >= 0 /\ v <= semvmx
               THEN /\ sem' = [sem EXCEPT ![x] = Put(x, v, K)]
                    /\ pr' = wakeprocs(pr, Called(x, K))
               ELSE UNCHANGED <<sem, pr>>
  BY DEF SemexitEntry
<1> DEFINE x == Addr(e[1][1], e[2])
           v == sem[x].val + undo[p][e]
           K == (IF v = 0 THEN {"z"} ELSE {}) \cup (IF undo[p][e] > 0 THEN {"n"} ELSE {})
<1>2. /\ e \in Keys /\ undo[p][e] # 0 /\ undo[p][e] \in Int
      /\ semconv(e[1]) /\ e[2] < sema[e[1][1]].nsems /\ e[1][1] \in Sets /\ e[2] \in Nat
  <2>1. e \in Keys /\ undo[p][e] # 0
    BY <1>1 DEF Entries
  <2>2. e[1][1] \in Sets /\ e[2] \in Nat
    BY <2>1, SemAssumption DEF Keys, Ids, Nums
  <2>3. undo[p][e] \in Int
    BY <2>1, SemAssumption DEF FitInv, TypeInv, TypeOK
  <2> QED
    BY <1>1, <2>1, <2>2, <2>3 DEF AdjustmentsAreLive
<1>3. x \in Addrs /\ x \in Span(e[1][1])
  <2>1. sema[e[1][1]] \in SetRecord /\ sema[e[1][1]].alloc
    BY <1>2 DEF FitInv, TypeInv, TypeOK, semconv
  <2>2. sema[e[1][1]].base \in Nat /\ sema[e[1][1]].nsems \in Nat
        /\ sema[e[1][1]].base + sema[e[1][1]].nsems <= semmns
    BY <1>2, <2>1, SemAssumption DEF SetRecord, Addrs, FitInv, Fit, SetsFit
  <2> QED
    <3>1. /\ sema[e[1][1]].base + e[2] \in 0..(semmns - 1)
          /\ sema[e[1][1]].base + e[2] \in Span(e[1][1])
      <4>1. e[2] \in Nat /\ e[2] < sema[e[1][1]].nsems /\ semmns \in Nat
        BY <1>2, SemAssumption
      <4> QED
        BY <2>2, <4>1, InBounds DEF Span
    <3> QED
      BY <3>1 DEF Addr, Addrs
<1>4. v \in Int /\ K \in SUBSET Kinds
  BY <1>2, <1>3 DEF FitInv, TypeInv, TypeOK, SemRecord, Kinds
<1>5. ("z" \in K <=> v = 0) /\ ("n" \in K <=> undo[p][e] > 0)
  OBVIOUS
<1>6. UNCHANGED <<sema, holds, semtmp, cur>>
  BY DEF SemexitEntry
<1>7. /\ undo' = [undo EXCEPT ![p][e] = 0]
      /\ IF v \in 0..semvmx
         THEN sem' = [sem EXCEPT ![x] = Put(x, v, K)] /\ pr' = wakeprocs(pr, Called(x, K))
         ELSE UNCHANGED <<sem, pr>>
  <2>1. v \in 0..semvmx <=> semconv(e[1]) /\ v >= 0 /\ v <= semvmx
    BY <1>2, <1>4, SemAssumption
  <2> QED
    BY <1>1, <2>1
<1>8. x = Addr(e[1][1], e[2]) /\ v = sem[x].val + undo[p][e]
  OBVIOUS
<1> HIDE DEF x, v, K
<1>9. ExitAdjusts(p, e, x, v, K)
  BY <1>2, <1>3, <1>5, <1>6, <1>7, <1>8 DEF ExitAdjusts
<1> QED
  BY <1>2, <1>3, <1>4, <1>9

\* Outside of passes, semaphores get values in range, and adjustments only go.
LEMMA OtherValues ==
    ASSUME FitInv, AdjustmentsAreLive, \A p \in Procs : ~InPassing(p), [Next]_vars
    PROVE  /\ \A x \in Addrs : sem'[x].val = sem[x].val \/ sem'[x].val \in 0..semvmx
           /\ \A q \in Procs, e \in Keys : undo'[q][e] \in {0, undo[q][e]}
<1> USE DEF FitInv, TypeInv, TypeOK
<1>1. CASE (\E s \in Sets : semget(s)) \/ UNCHANGED vars
           \/ (\E p \in Procs, id \in Ids, ops \in OpLists : semop(p, id, ops))
           \/ (\E id \in Ids : semctlSET(id))
           \/ (\E p \in Procs : Signal(p) \/ Continued(p) \/ Resume(p) \/ semexit(p) \/ SemexitDone(p))
  BY <1>1 DEF semget, vars, semop, semctlSET, Signal, Continued, Resume, semexit, SemexitDone
<1>2. CASE \E id \in Ids : semctlRMID(id)
  BY <1>2, SemAssumption DEF semctlRMID, Put, semunrm
<1>3. ASSUME NEW id \in Ids, NEW N \in SUBSET Nums, NEW f \in [N -> SemVals], Assign(id, N, f)
      PROVE  /\ \A x \in Addrs : sem'[x].val = sem[x].val \/ sem'[x].val \in 0..semvmx
             /\ \A q \in Procs, e \in Keys : undo'[q][e] \in {0, undo[q][e]}
  <2> DEFINE b == sema[id[1]].base
             set == {Addr(id[1], n) : n \in N}
  <2>1. b \in Nat
    BY SemAssumption DEF SetRecord, Addrs, Ids
  <2>2. ASSUME NEW x \in set PROVE x - b \in N
    <3>1. PICK n \in N : x = b + n
      BY DEF Addr
    <3>2. n \in Int /\ b + n - b = n
      BY <2>1, SemAssumption DEF Nums
    <3>3. x - b = n
      <4> HIDE DEF b, set, FitInv, TypeInv, TypeOK
      <4> QED
        BY <2>1, <3>1, <3>2
    <3> QED
      BY <3>3
  <2>3. \A x \in set : f[x - b] \in 0..semvmx
    BY <2>2, SemAssumption
  <2>4. \A x \in Addrs : sem'[x] = IF x \in set THEN Put(x, f[x - b], SetKinds(f[x - b])) ELSE sem[x]
    BY <1>3 DEF Assign
  <2> HIDE DEF b, set
  <2>5. \A x \in Addrs : sem'[x].val = sem[x].val \/ sem'[x].val \in 0..semvmx
    <3> HIDE DEF FitInv, TypeInv, TypeOK
    <3> SUFFICES ASSUME NEW x \in Addrs PROVE sem'[x].val = sem[x].val \/ sem'[x].val \in 0..semvmx
      OBVIOUS
    <3>1. CASE x \in set
      <4>1. sem'[x] = Put(x, f[x - b], SetKinds(f[x - b]))
        BY <2>4, <3>1
      <4>2. \A v, K : Put(x, v, K).val = v
        BY DEF Put
      <4> QED
        BY <2>3, <3>1, <4>1, <4>2
    <3>2. CASE x \notin set
      BY <2>4, <3>2
    <3> QED
      BY <3>1, <3>2
  <2> QED
    BY <1>3, <2>5 DEF Assign, semunrm
<1>4. CASE \E id \in Ids : semctlSETVAL(id) \/ semctlSETALL(id)
  <2>1. PICK id \in Ids : semctlSETVAL(id) \/ semctlSETALL(id)
    BY <1>4
  <2>2. PICK N \in {Members(id)} \cup {{n} : n \in Members(id)} :
          \E f \in [N -> SemVals] : Assign(id, N, f)
    BY <2>1, SetCases
  <2>3. N \in SUBSET Nums
    BY <2>2 DEF Members
  <2>4. PICK f \in [N -> SemVals] : Assign(id, N, f)
    BY <2>2
  <2> HIDE DEF FitInv
  <2> QED
    BY <1>3, <2>3, <2>4
<1>5. CASE \E p \in Procs : Interrupted(p)
  <2>1. PICK p \in Procs : Interrupted(p)
    BY <1>5
  <2> DEFINE x == pr[p].chan[2]
  <2>2. x \in Int /\ UNCHANGED undo
        /\ \/ \E K : sem' = [sem EXCEPT ![x] = Put(x, @.val, K)]
           \/ \E k : sem' = [sem EXCEPT ![x].ncnt = k]
           \/ \E k : sem' = [sem EXCEPT ![x].zcnt = k]
    <3>1. x \in Int
      BY DEF ProcRecord
    <3> QED
      BY <2>1, <3>1 DEF Interrupted
  <2> HIDE DEF x
  <2>3. \A y \in Addrs : sem'[y].val = sem[y].val
    <3>1. sem \in [Addrs -> SemRecord]
      OBVIOUS
    <3>2. ASSUME NEW K, sem' = [sem EXCEPT ![x] = Put(x, @.val, K)], NEW y \in Addrs
          PROVE  sem'[y].val = sem[y].val
      BY <3>1, <3>2 DEF Put
    <3>3. ASSUME NEW k, sem' = [sem EXCEPT ![x].ncnt = k], NEW y \in Addrs
          PROVE  sem'[y].val = sem[y].val
      BY <3>1, <3>3 DEF SemRecord
    <3>4. ASSUME NEW k, sem' = [sem EXCEPT ![x].zcnt = k], NEW y \in Addrs
          PROVE  sem'[y].val = sem[y].val
      BY <3>1, <3>4 DEF SemRecord
    <3> QED
      BY <2>2, <3>2, <3>3, <3>4
  <2> QED
    BY <2>2, <2>3
<1>6. CASE \E p \in Procs : SemexitEntry(p)
  <2>1. PICK p \in Procs : SemexitEntry(p)
    BY <1>6
  <2>2. PICK e \in Keys, x \in Addrs, v \in Int, K \in SUBSET Kinds : ExitAdjusts(p, e, x, v, K)
    BY <2>1, ExitCases
  <2> USE DEF ExitAdjusts
  <2>3. \A q \in Procs, f \in Keys : undo'[q][f] \in {0, undo[q][f]}
    BY <2>2
  <2>4. \A y \in Addrs : sem'[y].val = sem[y].val \/ sem'[y].val \in 0..semvmx
    <3>1. sem \in [Addrs -> SemRecord] /\ Put(x, v, K).val = v
      BY DEF Put
    <3>2. UNCHANGED sem \/ (sem' = [sem EXCEPT ![x] = Put(x, v, K)] /\ v \in 0..semvmx)
      BY <2>2
    <3> HIDE DEF ExitAdjusts, FitInv, TypeInv, TypeOK
    <3> QED
      BY <3>1, <3>2
  <2> QED
    BY <2>3, <2>4
<1> HIDE DEF FitInv, TypeInv, TypeOK
<1> QED
  BY <1>1, <1>2, <1>4, <1>5, <1>6, OtherSteps

LEMMA ValuesStep ==
    ASSUME FitInv, Serial, AdjustmentsAreLive, EntriesFit, PassInv, ValuesInRange, [Next]_vars
    PROVE  ValuesInRange' /\ EntriesFit'
<1>1. CASE \A p \in Procs : ~InPassing(p)
  <2>1. /\ \A x \in Addrs : sem'[x].val = sem[x].val \/ sem'[x].val \in 0..semvmx
        /\ \A q \in Procs, e \in Keys : undo'[q][e] \in {0, undo[q][e]}
    BY <1>1, OtherValues
  <2>2. \A q \in Procs : Entries(q)' \subseteq Entries(q)
    BY <2>1 DEF Entries
  <2>3. EntriesFit'
    <3> SUFFICES ASSUME NEW q \in Procs
                 PROVE  IsFiniteSet(Entries(q)') /\ Cardinality(Entries(q)') <= semume
      BY DEF EntriesFit
    <3>1. IsFiniteSet(Entries(q)) /\ Cardinality(Entries(q)) <= semume
      BY DEF EntriesFit
    <3> QED
      BY <2>2, <3>1, FS_Subset, FS_CardinalityType, SemAssumption
  <2>4. ValuesInRange'
    BY <2>1 DEF ValuesInRange
  <2> QED
    BY <2>3, <2>4
<1>2. ASSUME NEW p \in Procs, InPassing(p)
      PROVE  ValuesInRange' /\ EntriesFit'
  <2>1. PICK h, g : Trace(p, h, g)
    BY <1>2 DEF PassInv
  <2>2. CASE InPassing(p)'
    <3>1. PICK H, G : Trace(p, H, G)'
      BY <1>2, <2>1, <2>2, TraceStep
    <3>2. \A q \in Procs \ {p} : undo'[q] = undo[q]
      BY <1>2, <2>1, <2>2, TraceStep
    <3>3. Done(p)' \in Nat
      BY <1>2, <2>1, <2>2, TraceStep
    <3>4. Done(p)' \in 0..Done(p)'
      BY <3>3
    <3>5. /\ Values' \in [Addrs -> 0..semvmx]
          /\ IsFiniteSet(Nonzero(undo'[p])) /\ Cardinality(Nonzero(undo'[p])) <= semume
      BY <3>1, <3>4 DEF Trace, Nonzero
    <3>6. ValuesInRange'
      BY <3>5 DEF Values, ValuesInRange
    <3>7. \A q \in Procs : IsFiniteSet(Entries(q)') /\ Cardinality(Entries(q)') <= semume
      BY <3>2, <3>5 DEF EntriesFit, Entries, Nonzero
    <3> QED
      BY <3>6, <3>7 DEF EntriesFit
  <2>3. CASE ~InPassing(p)'
    <3>1. UNCHANGED undo /\ \A x \in Addrs : sem'[x].val = sem[x].val
      BY <1>2, <2>3, PassEnds
    <3> QED
      BY <3>1 DEF ValuesInRange, EntriesFit, Entries
  <2> QED
    BY <2>2, <2>3
<1> QED
  BY <1>1, <1>2

\* The semaphores of no set: those that a step changes belong to one.
LEMMA FreeKept ==
    ASSUME FreeIsClear, UNCHANGED sema,
           \A x \in Addrs : sem'[x] = sem[x] \/ \E s \in Sets : sema[s].alloc /\ x \in Span(s)
    PROVE  FreeIsClear'
BY DEF FreeIsClear, Span

LEMMA FreeStep ==
    ASSUME FitInv, Serial, AdjustmentsAreLive, ChansInSpan, FreeIsClear, [Next]_vars
    PROVE  FreeIsClear'
<1>1. pr \in [Procs -> ProcRecord] /\ sem \in [Addrs -> SemRecord] /\ sema \in [Sets -> SetRecord]
  BY DEF FitInv, TypeInv, TypeOK
<1>2. CASE UNCHANGED <<sema, sem>>
  BY <1>2, FreeKept
<1>3. ASSUME NEW s \in Sets, semget(s) PROVE FreeIsClear'
  <2>1. /\ UNCHANGED sem /\ ~sema[s].alloc
        /\ \A t \in Sets \ {s} : sema'[t] = sema[t]
    BY <1>1, <1>3 DEF semget
  <2> QED
    BY <2>1 DEF FreeIsClear, Span
<1>4. ASSUME NEW id \in Ids, semctlRMID(id) PROVE FreeIsClear'
  <2>1. id[1] \in Sets
    BY DEF Ids
  <2>2. \A t \in Sets : Span(t)' = Span(t) /\ (t # id[1] => sema'[t].alloc = sema[t].alloc)
    <3> DEFINE q == IF sema[id[1]].seq = SeqMax THEN 0 ELSE sema[id[1]].seq + 1
    <3>1. sema' = [sema EXCEPT ![id[1]].alloc = FALSE, ![id[1]].seq = q]
      BY <1>4 DEF semctlRMID
    <3> HIDE DEF q
    <3>2. \A t \in Sets : /\ sema'[t].base = sema[t].base /\ sema'[t].nsems = sema[t].nsems
                          /\ t # id[1] => sema'[t] = sema[t]
      BY <1>1, <3>1 DEF SetRecord
    <3> QED
      BY <3>2 DEF Span
  <2>3. \A x \in Addrs : sem'[x] = IF x \in Span(id[1]) THEN Put(x, 0, Kinds) ELSE sem[x]
    BY <1>4 DEF semctlRMID
  <2>4. \A x : Put(x, 0, Kinds) = [val |-> 0, ncnt |-> 0, zcnt |-> 0]
    BY DEF Put, Kinds
  <2> SUFFICES ASSUME NEW x \in Addrs, \A s \in Sets : sema'[s].alloc => x \notin Span(s)'
               PROVE  sem'[x] = [val |-> 0, ncnt |-> 0, zcnt |-> 0]
    BY DEF FreeIsClear
  <2>5. CASE x \in Span(id[1])
    BY <2>3, <2>4, <2>5
  <2>6. CASE x \notin Span(id[1])
    BY <2>2, <2>3, <2>6 DEF FreeIsClear
  <2> QED
    BY <2>5, <2>6
<1>5. ASSUME NEW id \in Ids, semctlSETVAL(id) \/ semctlSETALL(id) PROVE FreeIsClear'
  <2>1. PICK N \in {Members(id)} \cup {{n} : n \in Members(id)} :
          \E f \in [N -> SemVals] : Assign(id, N, f)
    BY <1>5, SetCases
  <2>2. PICK f \in [N -> SemVals] : Assign(id, N, f)
    BY <2>1
  <2>3. id[1] \in Sets /\ sema[id[1]].alloc /\ UNCHANGED sema
    BY <2>2 DEF Ids, Assign, semconv
  <2>4. \A n \in N : n \in Nat /\ n < sema[id[1]].nsems
    BY <2>1, SemAssumption DEF Members, Nums
  <2>5. \A n \in N : Addr(id[1], n) \in Span(id[1])
    <3>1. sema[id[1]].base \in Nat /\ sema[id[1]].nsems \in Nat
      BY <1>1, <2>3, SemAssumption DEF SetRecord, Addrs
    <3> QED
      BY <2>4, <3>1 DEF Addr, Span
  <2>6. \A x \in Addrs : x \notin {Addr(id[1], n) : n \in N} => sem'[x] = sem[x]
    BY <2>2 DEF Assign
  <2> QED
    BY <2>3, <2>5, <2>6, FreeKept
<1>6. ASSUME NEW p \in Procs, SemopDo(p) \/ semundo(p) PROVE FreeIsClear'
  <2>1. InPassing(p) /\ UNCHANGED sema /\ pr[p].i \in Nat
    BY <1>1, <1>6 DEF SemopDo, semundo, Doing, InPassing, ProcRecord
  <2>2. pr[p].i \in 1..Len(pr[p].ops)
    BY <1>6, TheOpType DEF SemopDo, semundo, Doing, FitInv, TypeInv, Indices
  <2>3. TheSem(p) \in Span(pr[p].id[1]) /\ pr[p].id[1] \in Sets
    BY <2>1, <2>2, PlaceFits DEF TheSem, TheOp, Place
  <2>4. sema[pr[p].id[1]].alloc
    BY <2>1 DEF Serial, InPassing, semconv
  <2>5. \A x \in Addrs : x # TheSem(p) => sem'[x] = sem[x]
    BY <1>1, <1>6 DEF SemopDo, semundo
  <2> QED
    BY <2>1, <2>3, <2>4, <2>5, FreeKept
<1>7. ASSUME NEW p \in Procs, SemopLeave(p) PROVE FreeIsClear'
  <2>1. pr[p].pc = "undo" /\ UNCHANGED sema
        /\ (UNCHANGED sem \/ (Waiting(p) /\ \A x \in Addrs : x # pr[p].chan[2] => sem'[x] = sem[x]))
    BY <1>1, <1>7 DEF SemopLeave, Doing, Waiting
  <2>2. Waiting(p) => pr[p].id[1] \in Sets /\ sema[pr[p].id[1]].alloc /\ pr[p].chan[2] \in Span(pr[p].id[1])
    BY <1>1 DEF ChansInSpan, semconv, ProcRecord, Ids
  <2> QED
    BY <2>1, <2>2, FreeKept
<1>8. ASSUME NEW p \in Procs, Interrupted(p) PROVE FreeIsClear'
  <2> DEFINE x == pr[p].chan[2]
             c == pr[p].chan[1]
  <2>1. x \in Int /\ c \in Kinds
    BY <1>1 DEF ProcRecord
  <2>2. /\ UNCHANGED sema /\ \A y \in Addrs : y # x => sem'[y] = sem[y]
        /\ x \in Addrs /\ Count(x, c) <= 1 => sem'[x] = Put(x, sem[x].val, {c})
    BY <1>1, <1>8 DEF Interrupted
  <2> HIDE DEF x, c
  <2>3. x \in Addrs /\ sem[x] = [val |-> 0, ncnt |-> 0, zcnt |-> 0] => sem'[x] = sem[x]
    <3> SUFFICES ASSUME x \in Addrs, sem[x] = [val |-> 0, ncnt |-> 0, zcnt |-> 0]
                 PROVE  sem'[x] = sem[x]
      OBVIOUS
    <3>1. Count(x, c) <= 1
      BY DEF Count
    <3>2. Put(x, 0, {c}) = [val |-> 0, ncnt |-> 0, zcnt |-> 0]
      BY DEF Put
    <3> QED
      BY <2>2, <3>1, <3>2
  <2> QED
    BY <2>2, <2>3 DEF FreeIsClear, Span
<1>9. ASSUME NEW p \in Procs, SemexitEntry(p) PROVE FreeIsClear'
  <2>1. PICK e \in Keys, x \in Addrs, v \in Int, K \in SUBSET Kinds : ExitAdjusts(p, e, x, v, K)
    BY <1>9, ExitCases
  <2>2. /\ UNCHANGED sema /\ x \in Span(e[1][1]) /\ e[1][1] \in Sets /\ sema[e[1][1]].alloc
        /\ UNCHANGED sem \/ sem' = [sem EXCEPT ![x] = Put(x, v, K)]
    BY <2>1 DEF ExitAdjusts, semconv, Keys, Ids
  <2>3. \A y \in Addrs : y # x => sem'[y] = sem[y]
    BY <1>1, <2>2
  <2> QED
    BY <2>2, <2>3, FreeKept
<1> QED
  BY <1>2, <1>3, <1>4, <1>5, <1>6, <1>7, <1>8, <1>9
     DEF Next, vars, semctlSET, semop, SemopError, SemopWait, SemopDone, Signal, Continued, Resume, semexit, SemexitDone

\* Who sleeps after a step slept before it, or has just gone to sleep.
LEMMA AsleepBefore ==
    ASSUME FitInv, [Next]_vars, NEW q \in Procs, pr'[q].pc = "asleep"
    PROVE  /\ pr[q].pc = "asleep" \/ (Waiting(q) /\ SemopLeave(q))
           /\ pr'[q].id = pr[q].id /\ pr'[q].ops = pr[q].ops /\ pr'[q].chan = pr[q].chan
<1>1. pr \in [Procs -> ProcRecord] /\ pr[q] \in ProcRecord
  BY DEF FitInv, TypeInv, TypeOK
<1> DEFINE Left == /\ pr[q].pc = "asleep" \/ (Waiting(q) /\ SemopLeave(q))
                   /\ pr'[q].id = pr[q].id /\ pr'[q].ops = pr[q].ops /\ pr'[q].chan = pr[q].chan
<1>2. ASSUME NEW f \in [Procs -> ProcRecord], NEW C, pr' = wakeprocs(f, C),
             f[q] = pr[q] \/ f[q] = Idle
      PROVE  Left
  <2>1. pr'[q].pc \in {f[q].pc, "woken"} /\ pr'[q].id = f[q].id /\ pr'[q].ops = f[q].ops
        /\ pr'[q].chan = f[q].chan
    BY <1>2, WakeprocsType
  <2>2. f[q] = pr[q] /\ pr[q].pc = "asleep"
    BY <1>2, <2>1 DEF Idle
  <2> QED
    BY <2>1, <2>2
<1>3. ASSUME pr'[q] = pr[q] \/ pr'[q].pc # "asleep" PROVE Left
  BY <1>3
<1>4. ASSUME NEW p \in Procs, pr' = [pr EXCEPT ![p] = Idle]
                              \/ \E C : pr' = wakeprocs([pr EXCEPT ![p] = Idle], C) PROVE Left
  <2> DEFINE f == [pr EXCEPT ![p] = Idle]
  <2>1. f \in [Procs -> ProcRecord] /\ (f[q] = pr[q] \/ f[q] = Idle)
    BY <1>1, IdleType
  <2>2. pr' = f \/ \E C : pr' = wakeprocs(f, C)
    BY <1>4
  <2> HIDE DEF f
  <2>3. CASE pr' = f
    BY <2>1, <2>3 DEF Idle
  <2> QED
    BY <1>2, <2>1, <2>2, <2>3
<1> HIDE DEF Left
<1>5. ASSUME UNCHANGED pr \/ \E C : pr' = wakeprocs(pr, C)
      PROVE  Left
  <2>1. ASSUME NEW C, pr' = wakeprocs(pr, C) PROVE Left
    BY <1>1, <1>2, <2>1
  <2>2. CASE UNCHANGED pr
    BY <1>3, <2>2
  <2> QED
    BY <1>5, <2>1, <2>2
<1>6. ASSUME NEW p \in Procs, SemopDo(p) PROVE Left
  <2>1. p # q
    BY <1>6, DoPr
  <2>2. pr'[q].id = pr[q].id /\ pr'[q].ops = pr[q].ops /\ pr'[q].chan = pr[q].chan /\ pr[q].pc = "asleep"
    BY <1>6, <2>1, DoPr
  <2> QED
    BY <2>2 DEF Left
<1>7. ASSUME NEW p \in Procs, SemopError(p) \/ SemopWait(p) \/ semundo(p) \/ Signal(p) \/ Continued(p) \/ semexit(p)
             \/ \E id, ops, then : Pass(p, id, ops, then)
      PROVE  Left
  <2>1. \A r \in Procs \ {p} : pr'[r] = pr[r]
    BY <1>1, <1>7 DEF SemopError, SemopWait, Rollback, semundo, Signal, Continued, semexit, Pass
  <2>2. pr'[p].pc \in {"undo", "signalled", "woken", "exit", "ops"}
    BY <1>1, <1>7 DEF SemopError, SemopWait, Rollback, semundo, Doing, Signal, Continued, semexit, Pass, InPass,
         ProcRecord
  <2> QED
    BY <1>3, <2>1, <2>2
<1>8. ASSUME NEW p \in Procs, SemopDone(p) \/ Interrupted(p) \/ SemexitDone(p)
      PROVE  Left
  BY <1>4, <1>8 DEF SemopDone, Interrupted, SemexitDone
<1>9. ASSUME NEW p \in Procs, Resume(p) PROVE Left
  BY <1>4, <1>7, <1>9 DEF Resume
<1>10. ASSUME NEW p \in Procs, SemopLeave(p) PROVE Left
  <2>1. CASE p # q
    BY <1>1, <1>3, <1>10, <2>1 DEF SemopLeave
  <2>2. CASE p = q
    <3>1. pr[q].then # "fail" /\ pr' = [pr EXCEPT ![q].pc = "asleep"] /\ pr[q].pc = "undo"
      BY <1>1, <1>10, <2>2 DEF SemopLeave, Doing, Idle
    <3> QED
      BY <1>1, <1>10, <2>2, <3>1 DEF Left, Waiting, ProcRecord
  <2> QED
    BY <2>1, <2>2
<1>11. ASSUME NEW p \in Procs, SemexitEntry(p) PROVE Left
  <2>1. UNCHANGED pr \/ \E C : pr' = wakeprocs(pr, C)
    BY <1>11 DEF SemexitEntry
  <2> QED
    BY <1>5, <2>1
<1>12. ASSUME NEW p \in Procs, NEW id, NEW ops, semop(p, id, ops) PROVE Left
  BY <1>7, <1>12 DEF semop
<1>13. ASSUME (\E s \in Sets : semget(s)) \/ UNCHANGED vars
              \/ (\E id \in Ids : semctlRMID(id) \/ semctlSETVAL(id) \/ semctlSETALL(id) \/ semctlSET(id))
       PROVE  Left
  <2>1. UNCHANGED pr \/ \E C : pr' = wakeprocs(pr, C)
    BY <1>13 DEF semget, vars, semctlRMID, semctlSETVAL, semctlSETALL, semctlSET, Assign
  <2> QED
    BY <1>5, <2>1, SMTT(30)
<1>14. Left
  BY <1>6, <1>7, <1>8, <1>9, <1>10, <1>11, <1>12, <1>13 DEF Next
<1> QED
  BY <1>14 DEF Left

\* Who is about to sleep has just found out, or knew.
LEMMA WaitingBefore ==
    ASSUME FitInv, Serial, [Next]_vars, NEW q \in Procs, Waiting(q)'
    PROVE  /\ InPassing(q) /\ pr'[q].id = pr[q].id /\ pr'[q].ops = pr[q].ops
           /\ \/ SemopWait(q)
              \/ Waiting(q) /\ pr'[q].chan = pr[q].chan /\ Done(q)' <= Done(q)
<1>1. pr \in [Procs -> ProcRecord] /\ InPassing(q)' /\ pr'[q].pc = "undo" /\ pr'[q].then # "fail"
  BY DEF FitInv, TypeInv, TypeOK, Waiting, InPassing
<1>2. CASE \A p \in Procs : ~InPassing(p)
  <2>1. pr'[q].pc = "ops"
    BY <1>1, <1>2, PassStarts
  <2> QED
    BY <1>1, <2>1
<1>3. ASSUME NEW p \in Procs, InPassing(p)
      PROVE  /\ InPassing(q) /\ pr'[q].id = pr[q].id /\ pr'[q].ops = pr[q].ops
             /\ \/ SemopWait(q)
                \/ Waiting(q) /\ pr'[q].chan = pr[q].chan /\ Done(q)' <= Done(q)
  <2>1. \/ SemopDo(p) \/ SemopError(p) \/ SemopWait(p) \/ SemopDone(p)
        \/ semundo(p) \/ SemopLeave(p)
        \/ \E r \in Procs : Signal(r) \/ Continued(r)
        \/ UNCHANGED vars
    BY <1>3, PassSteps
  <2>2. \A r \in Procs : InPassing(r) => r = p
    BY <1>3, PassSteps
  <2>3. CASE SemopDo(p)
    <3>1. pr'[q].pc \in {"ops", pr[q].pc, "woken"} /\ (q # p => ~InPassing(q))
      BY <2>2, <2>3, DoPr
    <3> QED
      BY <1>1, <2>3, <3>1, DoPr DEF InPassing
  <2>4. CASE SemopError(p)
    BY <1>1, <2>2, <2>4 DEF SemopError, Rollback, InPassing, ProcRecord
  <2>5. CASE SemopWait(p)
    <3>1. q = p
      BY <1>1, <2>2, <2>5 DEF SemopWait, Rollback, InPassing
    <3>2. pr'[p].id = pr[p].id /\ pr'[p].ops = pr[p].ops
      BY <1>1, <2>5 DEF SemopWait, Rollback, InPass, ProcRecord
    <3> QED
      BY <1>3, <2>5, <3>1, <3>2
  <2>6. CASE SemopDone(p) \/ SemopLeave(p)
    BY <1>1, <2>2, <2>6 DEF SemopDone, SemopLeave, InPassing, Idle, ProcRecord
  <2>7. CASE semundo(p)
    <3>1. q = p
      BY <1>1, <2>2, <2>7 DEF semundo, InPassing
    <3>2. pr[p].pc = "undo" /\ pr[p] \in ProcRecord /\ pr[p].i \in Nat
      BY <1>1, <2>7 DEF semundo, Doing, ProcRecord
    <3>3. /\ pr'[p].id = pr[p].id /\ pr'[p].ops = pr[p].ops /\ pr'[p].chan = pr[p].chan
          /\ pr'[p].then = pr[p].then /\ pr'[p].i = pr[p].i - 1
      BY <1>1, <2>7, <3>2 DEF semundo, ProcRecord
    <3>4. Done(q)' <= Done(q)
      BY <1>1, <3>1, <3>2, <3>3 DEF Done
    <3> QED
      BY <1>1, <1>3, <3>1, <3>2, <3>3, <3>4 DEF Waiting
  <2>8. CASE (\E r \in Procs : Signal(r) \/ Continued(r)) \/ UNCHANGED vars
    <3>1. pr'[q] = pr[q] /\ pr[q].i \in Nat
      BY <1>1, <2>8 DEF Signal, Continued, vars, ProcRecord
    <3>2. Done(q)' = Done(q) /\ Done(q) \in Int
      BY <3>1 DEF Done
    <3> QED
      BY <1>1, <3>1, <3>2 DEF Waiting, InPassing
  <2> QED
    BY <2>1, <2>3, <2>4, <2>5, <2>6, <2>7, <2>8
<1> QED
  BY <1>2, <1>3

LEMMA ChansStep ==
    ASSUME FitInv, Serial, SleeperIsCounted, ChansInSpan, [Next]_vars
    PROVE  ChansInSpan'
<1>1. pr \in [Procs -> ProcRecord] /\ sema \in [Sets -> SetRecord]
  BY DEF FitInv, TypeInv, TypeOK
<1> SUFFICES ASSUME NEW q \in Procs, pr'[q].pc = "asleep" \/ Waiting(q)'
             PROVE  semconv(pr[q].id)' /\ (pr[q].chan[2] \in Span(pr[q].id[1]))'
  BY DEF ChansInSpan
<1>2. pr[q].id \in Ids /\ pr[q].id[1] \in Sets /\ pr[q].chan \in Kinds \X Int
  BY <1>1 DEF ProcRecord, Ids
<1>3. CASE SemopWait(q)
  <2>1. InPassing(q) /\ UNCHANGED sema /\ pr[q].i \in 1..Len(pr[q].ops) /\ semconv(pr[q].id)
    <3>1. pr[q].pc = "ops" /\ pr[q].i > 0 /\ More(q)
      BY <1>3 DEF SemopWait, Doing, FitInv, TypeInv, Indices
    <3> QED
      BY <1>3, <3>1, TheOpType DEF SemopWait, FitInv, InPassing, Serial
  <2>2. TheSem(q) \in Span(pr[q].id[1])
    BY <2>1, PlaceFits DEF TheSem, TheOp, Place
  <2>3. pr'[q].chan[2] = TheSem(q) /\ pr'[q].id = pr[q].id
    <3>1. pr'[q].pc = "undo" /\ pr'[q].then # "fail"
      BY <1>1, <1>3 DEF SemopWait, Rollback, InPass, Waiting, ProcRecord
    <3>2. ~TheOp(q).nowait
      BY <1>1, <1>3, <3>1, SMTT(30) DEF SemopWait, Rollback, ProcRecord
    <3> QED
      BY <1>1, <1>3, <3>2 DEF SemopWait, InPass, ProcRecord
  <2> QED
    BY <2>1, <2>2, <2>3 DEF semconv, Span
<1>4. CASE ~SemopWait(q)
  <2>1. /\ pr[q].pc = "asleep" \/ Waiting(q)
        /\ pr'[q].id = pr[q].id /\ pr'[q].chan = pr[q].chan
    BY <1>4, AsleepBefore, WaitingBefore
  <2>2. semconv(pr[q].id) /\ pr[q].chan[2] \in Span(pr[q].id[1])
    BY <2>1 DEF ChansInSpan
  <2>3. CASE UNCHANGED sema
    BY <2>1, <2>2, <2>3 DEF semconv, Span
  <2>4. ASSUME NEW s \in Sets, semget(s)
        PROVE  semconv(pr[q].id)' /\ (pr[q].chan[2] \in Span(pr[q].id[1]))'
    <3>1. \A t \in Sets \ {s} : sema'[t] = sema[t]
      BY <1>1, <2>4 DEF semget
    <3>2. pr[q].id[1] # s
      BY <2>2, <2>4 DEF semget, semconv
    <3> QED
      BY <1>2, <2>1, <2>2, <3>1, <3>2 DEF semconv, Span
  <2>5. ASSUME NEW id \in Ids, semctlRMID(id)
        PROVE  semconv(pr[q].id)' /\ (pr[q].chan[2] \in Span(pr[q].id[1]))'
    <3>1. ~Waiting(q)
      BY <2>5, SemAssumption DEF semctlRMID, Waiting, Serial
    <3>2. pr[q].pc = "asleep"
      BY <2>1, <3>1
    <3>3. pr' = wakeprocs(pr, UNION {Called(x, Kinds) : x \in Span(id[1])}) /\ semconv(id)
      BY <2>5 DEF semctlRMID
    <3>4. pr'[q].pc = "asleep"
      <4>1. pr'[q].pc \in {"asleep", "woken"}
        BY <1>1, <3>2, <3>3, WokenPc
      <4> QED
        BY <4>1 DEF Waiting
    <3>5. pr[q].chan \notin UNION {Called(x, Kinds) : x \in Span(id[1])}
      <4> HIDE DEF Called
      <4>1. \E C : C = UNION {Called(x, Kinds) : x \in Span(id[1])}
        OBVIOUS
      <4> QED
        BY <1>1, <3>2, <3>3, <3>4, WakeprocsType
    <3>6. pr[q].id[1] # id[1]
      <4> SUFFICES ASSUME pr[q].id[1] = id[1] PROVE FALSE
        OBVIOUS
      <4>1. pr[q].chan[2] \in Span(id[1]) /\ pr[q].chan[1] \in Kinds
            /\ pr[q].chan = <<pr[q].chan[1], pr[q].chan[2]>>
        BY <1>2, <2>2
      <4>2. Count(pr[q].chan[2], pr[q].chan[1]) # 0
        BY <3>2 DEF SleeperIsCounted
      <4>3. pr[q].chan \in Called(pr[q].chan[2], Kinds)
        BY <4>1, <4>2 DEF Called
      <4> QED
        BY <3>5, <4>1, <4>3
    <3>7. \A t \in Sets \ {id[1]} : sema'[t] = sema[t]
      BY <1>1, <2>5 DEF semctlRMID
    <3> QED
      BY <1>2, <2>1, <2>2, <3>6, <3>7 DEF semconv, Span
  <2> QED
    BY <2>3, <2>4, <2>5 DEF Next, vars, semctlSETVAL, semctlSETALL, semctlSET, Assign, semop, SemopDo, SemopError,
       SemopWait, SemopDone, semundo, SemopLeave, Signal, Continued, Resume, Interrupted, semexit, SemexitEntry,
       SemexitDone
<1> QED
  BY <1>3, <1>4

\* Nobody else gets into a pass.
LEMMA OnlyPass ==
    ASSUME FitInv, Serial, [Next]_vars, NEW q \in Procs, InPassing(q), NEW p \in Procs, InPassing(p)'
    PROVE  p = q
<1> SUFFICES ASSUME p # q PROVE FALSE
  OBVIOUS
<1>1. Serial' /\ cur = q /\ cur' = p
  BY SerialStep DEF Serial, InPassing
<1>2. ~InPassing(q)'
  BY <1>1 DEF Serial, InPassing
<1> QED
  BY <1>1, <1>2, PassEnds, SemAssumption

LEMMA PassStep ==
    ASSUME ListsFit, FitInv, Serial, AdjustmentsAreLive, EntriesFit, ValuesInRange, PassInv, [Next]_vars
    PROVE  PassInv'
<1> SUFFICES ASSUME NEW p \in Procs, InPassing(p)'
             PROVE  (\E h, g : Trace(p, h, g))'
  BY DEF PassInv
<1>1. CASE \A q \in Procs : ~InPassing(q)
  <2>1. Done(p)' = 0
    BY <1>1, PassStarts
  <2>2. ValuesInRange' /\ EntriesFit'
    BY ValuesStep
  <2>3. TypeOK'
    BY FitStep DEF FitInv, TypeInv
  <2>4. PICK v, a : v = Values' /\ a = undo'[p]
    OBVIOUS
  <2>5. Trace(p, [k \in 0..0 |-> v], [k \in 0..0 |-> a])'
    BY <2>1, <2>2, <2>3, <2>4, TraceBegins
  <2>6. PICK H, G : H = [k \in 0..0 |-> v] /\ G = [k \in 0..0 |-> a]
    OBVIOUS
  <2>7. Trace(p, H, G)'
    BY <2>5, <2>6
  <2> QED
    BY <2>7
<1>2. ASSUME NEW q \in Procs, InPassing(q)
      PROVE  (\E h, g : Trace(p, h, g))'
  <2>1. p = q
    BY <1>2, OnlyPass
  <2>2. PICK h, g : Trace(p, h, g)
    BY <1>2, <2>1 DEF PassInv
  <2>3. PICK H, G : Trace(p, H, G)'
    BY <1>2, <2>1, <2>2, TraceStep
  <2> QED
    BY <2>3
<1> QED
  BY <1>1, <1>2

LEMMA OKInit == ASSUME ListsFit, Init PROVE OKInv
<1>1. FitInv
  BY TypeInit, AreaInit, FitInit DEF FitInv
<1>2. Serial
  BY SemAssumption DEF Init, Idle, Serial
<1>3. AdjustmentsAreLive /\ SleeperIsCounted
  BY DEF Init, Idle, AdjustmentsAreLive, Entries, SleeperIsCounted
<1>4. SemaphoresOK
  BY SemAssumption DEF Init, SemaphoresOK, ValuesInRange, FreeIsClear
<1>5. PassInv /\ ChansInSpan
  BY DEF Init, Idle, PassInv, ChansInSpan, InPassing, Waiting
<1>6. EntriesFit
  <2>1. \A p \in Procs : Entries(p) = {}
    BY DEF Init, Entries
  <2> QED
    <3>1. IsFiniteSet({}) /\ Cardinality({}) = 0 /\ 0 <= semume
      BY FS_EmptySet, SemAssumption
    <3> QED
      BY <2>1, <3>1 DEF EntriesFit
<1> QED
  BY <1>1, <1>2, <1>3, <1>4, <1>5, <1>6 DEF OKInv, LiveInv

LEMMA OKStep == ASSUME ListsFit, OKInv, [Next]_vars PROVE OKInv'
<1> USE DEF OKInv, LiveInv, SemaphoresOK
<1>2. FitInv' /\ Serial' /\ AdjustmentsAreLive' /\ SleeperIsCounted'
  BY FitStep, SerialStep, LiveStep, CountedStep
<1>3. ValuesInRange' /\ EntriesFit'
  BY ValuesStep
<1>4. FreeIsClear' /\ ChansInSpan'
  BY FreeStep, ChansStep
<1>5. PassInv'
  BY PassStep
<1> QED
  BY <1>2, <1>3, <1>4, <1>5

\* The values that semaphores take are in range, in the middle of a semop() and
\* in the course of taking one back as well, and what semget() gets to cut sets
\* from has no values and no sleepers.
THEOREM SemaphoresAlwaysOK ==
    ASSUME ListsFit PROVE Spec => []SemaphoresOK
<1>1. Init => OKInv
  BY OKInit
<1>2. OKInv /\ [Next]_vars => OKInv'
  BY OKStep
<1>3. OKInv => SemaphoresOK
  BY DEF OKInv
<1> QED
  BY <1>1, <1>2, <1>3, PTL DEF Spec

-----------------------------------------------------------------------------
(***************************************************************************)
(* What a pass adds up to.                                                 *)
(***************************************************************************)

\* A sum over operations on other semaphores.
LEMMA SumZero ==
    ASSUME NEW len \in Nat, NEW ops, \A j \in 1..len : ops[j] \in Ops, NEW n, NEW all,
           NEW m \in 0..len, \A j \in 1..m : ops[j].num # n
    PROVE  Abs!Sum(ops, n, m, all) = 0
<1>4. \A N, A : /\ Abs!Sum(ops, N, 0, A) = 0
                /\ \A i \in 1..len :
                     Abs!Sum(ops, N, i, A) = Abs!Sum(ops, N, i - 1, A) + Term(ops[i], N, A)
                /\ \A i \in 0..len : Abs!Sum(ops, N, i, A) \in Int
  BY SumSteps
<1> DEFINE T == {k \in 0..m : Abs!Sum(ops, n, k, all) = 0}
<1>1. 0 \in T
  BY <1>4
<1>2. ASSUME NEW k \in 0..(m - 1), k \in T PROVE k + 1 \in T
  <2>1. k + 1 \in 1..len /\ k + 1 \in 1..m /\ (k + 1) - 1 = k
    OBVIOUS
  <2>2. Abs!Sum(ops, n, k + 1, all) = Abs!Sum(ops, n, k, all) + Term(ops[k + 1], n, all)
    BY <1>4, <2>1
  <2>3. Term(ops[k + 1], n, all) = 0
    BY <2>1 DEF Term
  <2> QED
    BY <1>2, <2>1, <2>2, <2>3
<1>3. 0..m \subseteq T
  <2> HIDE DEF T
  <2> QED
    BY <1>1, <1>2, Induction
<1> QED
  BY <1>3

\* After k operations the semaphores have what they had and the sum of those
\* operations, the adjustments what they were less the sum of those with
\* SEM_UNDO.
Total(ops, n, m)  == Abs!Sum(ops, n, m, TRUE)
Undone(ops, n, m) == Abs!Sum(ops, n, m, FALSE)

AddsUp(p, h, g, ops, k) ==
    /\ \A n \in Nums : Addr(pr[p].id[1], n) \in Addrs =>
          h[k][Addr(pr[p].id[1], n)] = h[0][Addr(pr[p].id[1], n)] + Total(ops, n, k)
    /\ \A x \in Addrs : x \notin Span(pr[p].id[1]) => h[k][x] = h[0][x]
    /\ \A n \in Nums : g[k][<<pr[p].id, n>>] = g[0][<<pr[p].id, n>>] - Undone(ops, n, k)
    /\ \A e \in Keys : e[1] # pr[p].id => g[k][e] = g[0][e]

LEMMA TraceSums ==
    ASSUME FitInv, NEW p \in Procs, InPassing(p), NEW h, NEW g, Trace(p, h, g),
           NEW ops, \A j \in 1..Done(p) : ops[j] = semtmp[j],
           NEW k \in 0..Done(p)
    PROVE  AddsUp(p, h, g, ops, k)
<1>0. PICK yes, no : yes = TRUE /\ no = FALSE
  OBVIOUS
<1> DEFINE d == Done(p)
           s == pr[p].id[1]
           P(i) == /\ \A n \in Nums : Addr(s, n) \in Addrs =>
                        h[i][Addr(s, n)] = h[0][Addr(s, n)] + Abs!Sum(ops, n, i, yes)
                   /\ \A x \in Addrs : x \notin Span(s) => h[i][x] = h[0][x]
                   /\ \A n \in Nums : g[i][<<pr[p].id, n>>] = g[0][<<pr[p].id, n>>] - Abs!Sum(ops, n, i, no)
                   /\ \A e \in Keys : e[1] # pr[p].id => g[i][e] = g[0][e]
           T == {i \in 0..d : P(i)}
<1>1. /\ d \in Nat /\ s \in Sets /\ pr[p].id \in Ids
      /\ \A j \in 1..d : /\ ops[j] = semtmp[j] /\ ops[j] \in Ops /\ ops[j].op \in Int
                         /\ ops[j].num \in Nums
                         /\ Place(p, j) = Addr(s, ops[j].num) /\ Place(p, j) \in Addrs
                         /\ Place(p, j) \in Span(s)
                         /\ Entry(p, j) = <<pr[p].id, ops[j].num>> /\ Entry(p, j) \in Keys
  <2>1. d \in Nat /\ d <= Len(pr[p].ops) /\ Len(pr[p].ops) <= semopm /\ Len(pr[p].ops) \in Nat
        /\ s \in Sets /\ pr[p].id \in Ids
    <3>1. pr[p].ops \in OpLists
      BY PlaceFits
    <3>2. Len(pr[p].ops) \in Nat
      BY <3>1, SemAssumption
    <3> QED
      BY <3>2, PlaceFits
  <2>2. \A j \in 1..d : j \in 1..Len(pr[p].ops)
    BY <2>1
  <2> QED
    BY <2>1, <2>2, PlaceFits DEF Place, Entry, Ops
<1>2. /\ \A i \in 0..d : h[i] \in [Addrs -> 0..semvmx] /\ g[i] \in [Keys -> (-semaem)..semaem]
      /\ \A j \in 1..d :
         /\ h[j] = [h[j - 1] EXCEPT ![Place(p, j)] = @ + ops[j].op]
         /\ IF Adjusts(ops[j]) THEN g[j] = [g[j - 1] EXCEPT ![Entry(p, j)] = @ - ops[j].op]
            ELSE g[j] = g[j - 1]
  BY <1>1 DEF Trace
<1>3. /\ \A i \in 0..d, x \in Addrs : h[i][x] \in Int
      /\ \A i \in 0..d, e \in Keys : g[i][e] \in Int
  <2>1. \A v \in 0..semvmx : v \in Int
    OBVIOUS
  <2>2. \A v \in (-semaem)..semaem : v \in Int
    OBVIOUS
  <2> QED
    BY <1>2, <2>1, <2>2
<1>4. \A n \in Nums : <<pr[p].id, n>> \in Keys
  BY <1>1 DEF Keys
<1>5. \A n, all : /\ Abs!Sum(ops, n, 0, all) = 0
                  /\ \A m \in 1..d :
                       Abs!Sum(ops, n, m, all) = Abs!Sum(ops, n, m - 1, all) + Term(ops[m], n, all)
                  /\ \A m \in 0..d : Abs!Sum(ops, n, m, all) \in Int
  BY <1>1, SumSteps
<1>6. 0 \in T
  <2>1. 0 \in 0..d
    BY <1>1
  <2>2. P(0)
    <3>1. \A v \in Int : v = v + 0 /\ v = v - 0
      OBVIOUS
    <3>2. \A n : Abs!Sum(ops, n, 0, yes) = 0 /\ Abs!Sum(ops, n, 0, no) = 0
      BY <1>5
    <3> QED
      BY <1>3, <1>4, <2>1, <3>1, <3>2
  <2> QED
    BY <2>1, <2>2
<1>7. ASSUME NEW i \in 0..(d - 1), i \in T PROVE i + 1 \in T
  <2>1. i + 1 \in 1..d /\ (i + 1) - 1 = i /\ i \in 0..d /\ i + 1 \in 0..d /\ 0 \in 0..d
    BY <1>1
  <2> DEFINE o == ops[i + 1]
             x == Place(p, i + 1)
  <2>2. P(i)
    BY <1>7
  <2>3. /\ h[i + 1] = [h[i] EXCEPT ![x] = @ + o.op]
        /\ IF Adjusts(o) THEN g[i + 1] = [g[i] EXCEPT ![<<pr[p].id, o.num>>] = @ - o.op]
           ELSE g[i + 1] = g[i]
        /\ x = Addr(s, o.num) /\ x \in Addrs /\ x \in Span(s) /\ o.num \in Nums /\ o.op \in Int
    BY <1>1, <1>2, <2>1
  <2>4. \A n \in Nums : /\ Abs!Sum(ops, n, i + 1, yes) = Abs!Sum(ops, n, i, yes) + Term(o, n, yes)
                        /\ Abs!Sum(ops, n, i + 1, no) = Abs!Sum(ops, n, i, no) + Term(o, n, no)
                        /\ Abs!Sum(ops, n, i, yes) \in Int /\ Abs!Sum(ops, n, i, no) \in Int
    BY <1>5, <2>1
  <2> HIDE DEF o, x, s
  <2>10. /\ \A v, w, y \in Int : (v + w) + y = v + (w + y) /\ (v - w) - y = v - (w + y)
         /\ \A u \in Int : u + 0 = u
    OBVIOUS
  <2>5. ASSUME NEW n \in Nums, Addr(s, n) \in Addrs
        PROVE  h[i + 1][Addr(s, n)] = h[0][Addr(s, n)] + Abs!Sum(ops, n, i + 1, yes)
    <3>1. h[i][Addr(s, n)] = h[0][Addr(s, n)] + Abs!Sum(ops, n, i, yes)
      BY <2>2, <2>5
    <3>2. h[i][Addr(s, n)] \in Int /\ h[0][Addr(s, n)] \in Int /\ h[i] \in [Addrs -> 0..semvmx]
      BY <1>2, <1>3, <2>1, <2>5
    <3>3. CASE n = o.num
      <4>1. Term(o, n, yes) = o.op
        BY <1>0, <3>3 DEF Term
      <4>2. h[i + 1][Addr(s, n)] = h[i][Addr(s, n)] + o.op
        BY <2>3, <2>5, <3>2, <3>3
      <4>3. /\ Abs!Sum(ops, n, i + 1, yes) = Abs!Sum(ops, n, i, yes) + o.op
            /\ Abs!Sum(ops, n, i, yes) \in Int /\ o.op \in Int
        BY <2>3, <2>4, <4>1
      <4>4. (h[0][Addr(s, n)] + Abs!Sum(ops, n, i, yes)) + o.op
              = h[0][Addr(s, n)] + (Abs!Sum(ops, n, i, yes) + o.op)
        BY <2>10, <3>2, <4>3
      <4> QED
        BY <3>1, <4>2, <4>3, <4>4, Zenon
    <3>4. CASE n # o.num
      <4>1. Term(o, n, yes) = 0
        BY <3>4 DEF Term
      <4>2. Addr(s, n) # x
        <5>1. sema[s].base \in Nat /\ n \in Nat /\ o.num \in Nat
          BY <1>1, <2>3, SemAssumption DEF FitInv, TypeInv, TypeOK, SetRecord, Addrs, Nums
        <5> QED
          BY <2>3, <3>4, <5>1 DEF Addr
      <4>3. h[i + 1][Addr(s, n)] = h[i][Addr(s, n)]
        BY <2>3, <2>5, <3>2, <4>2
      <4>4. Abs!Sum(ops, n, i + 1, yes) = Abs!Sum(ops, n, i, yes)
        BY <2>4, <2>10, <4>1
      <4> QED
        BY <3>1, <4>3, <4>4
    <3> QED
      BY <3>3, <3>4
  <2>6. \A y \in Addrs : y \notin Span(s) => h[i + 1][y] = h[0][y]
    <3>1. h[i] \in [Addrs -> 0..semvmx]
      BY <1>2, <2>1
    <3> QED
      BY <2>2, <2>3, <3>1
  <2>7. ASSUME NEW n \in Nums
        PROVE  g[i + 1][<<pr[p].id, n>>] = g[0][<<pr[p].id, n>>] - Abs!Sum(ops, n, i + 1, no)
    <3> DEFINE e == <<pr[p].id, n>>
    <3>1. g[i][e] = g[0][e] - Abs!Sum(ops, n, i, no)
      BY <2>2
    <3>2. e \in Keys /\ g[i][e] \in Int /\ g[0][e] \in Int /\ g[i] \in [Keys -> (-semaem)..semaem]
      BY <1>2, <1>3, <1>4, <2>1
    <3>3. CASE n = o.num /\ Adjusts(o)
      <4>1. Term(o, n, no) = o.op
        BY <3>3 DEF Term, Adjusts
      <4>2. g[i + 1][e] = g[i][e] - o.op
        BY <2>3, <3>2, <3>3
      <4> HIDE DEF e
      <4>3. g[i + 1][e] = g[0][e] - Abs!Sum(ops, n, i + 1, no)
        <5>1. /\ Abs!Sum(ops, n, i + 1, no) = Abs!Sum(ops, n, i, no) + o.op
              /\ Abs!Sum(ops, n, i, no) \in Int /\ o.op \in Int
          BY <2>3, <2>4, <4>1
        <5> QED
          BY <2>10, <3>1, <3>2, <4>2, <5>1
      <4> QED
        BY <4>3 DEF e
    <3>4. CASE ~(n = o.num /\ Adjusts(o))
      <4>1. Term(o, n, no) = 0
        BY <1>0, <2>3, <3>4 DEF Term, Adjusts
      <4>2. g[i + 1][e] = g[i][e]
        <5>1. CASE Adjusts(o)
          <6>1. e # <<pr[p].id, o.num>>
            BY <3>4, <5>1
          <6> QED
            BY <2>3, <3>2, <5>1, <6>1
        <5>2. CASE ~Adjusts(o)
          BY <2>3, <5>2
        <5> QED
          BY <5>1, <5>2
      <4> HIDE DEF e
      <4>3. g[i + 1][e] = g[0][e] - Abs!Sum(ops, n, i + 1, no)
        <5>1. Abs!Sum(ops, n, i + 1, no) = Abs!Sum(ops, n, i, no)
          BY <2>4, <2>10, <4>1
        <5> QED
          BY <3>1, <4>2, <5>1
      <4> QED
        BY <4>3 DEF e
    <3> QED
      BY <3>3, <3>4
  <2>8. \A e \in Keys : e[1] # pr[p].id => g[i + 1][e] = g[0][e]
    <3> SUFFICES ASSUME NEW e \in Keys, e[1] # pr[p].id PROVE g[i + 1][e] = g[0][e]
      OBVIOUS
    <3>1. e # <<pr[p].id, o.num>> /\ g[i] \in [Keys -> (-semaem)..semaem] /\ g[i][e] = g[0][e]
      BY <1>2, <2>1, <2>2
    <3> QED
      BY <2>3, <3>1
  <2>9. P(i + 1)
    BY <2>5, <2>6, <2>7, <2>8
  <2> HIDE DEF P
  <2> QED
    BY <2>1, <2>9
<1>8. 0..d \subseteq T
  <2> HIDE DEF T
  <2> QED
    BY <1>1, <1>6, <1>7, Induction
<1>9. P(k)
  <2> HIDE DEF P
  <2> QED
    BY <1>8
<1>10. \A n : Total(ops, n, k) = Abs!Sum(ops, n, k, yes) /\ Undone(ops, n, k) = Abs!Sum(ops, n, k, no)
  BY <1>0, Zenon DEF Total, Undone
<1> QED
  BY <1>9, <1>10 DEF AddsUp

-----------------------------------------------------------------------------
(***************************************************************************)
(* Wakeups.  sem.c counts one sleeper of semop() on one semaphore, and     *)
(* wakes it when that semaphore is raised, or gets to zero.  A list that   *)
(* waits for zero after it has itself changed the semaphore waits for some *)
(* other value in effect, which nobody announces: ZerosFirst excludes it.  *)
(***************************************************************************)
ZerosFirst ==
    \A ops \in OpLists : \A j \in DOMAIN ops :
        ops[j].op = 0 => \A k \in 1..(j - 1) : ops[k].num # ops[j].num

\* A sleeper that is still asleep cannot proceed because of a semaphore that was
\* not raised, or is not zero.
LEMMA BlockedKept ==
    ASSUME NEW q \in Procs, pr[q].ops \in OpLists, NEW f, NEW F, Blocked(q, f),
           pr'[q].id = pr[q].id, pr'[q].ops = pr[q].ops, pr'[q].chan = pr[q].chan,
           sema'[pr[q].id[1]].base = sema[pr[q].id[1]].base,
           f[pr[q].chan[2]] \in Int, F[pr[q].chan[2]] \in Int,
           pr[q].chan[1] = "n" => F[pr[q].chan[2]] <= f[pr[q].chan[2]],
           pr[q].chan[1] = "z" /\ f[pr[q].chan[2]] # 0 => F[pr[q].chan[2]] # 0
    PROVE  Blocked(q, F)'
<1>1. Len(pr[q].ops) \in Nat /\ DOMAIN pr[q].ops = 1..Len(pr[q].ops)
      /\ \A j \in 1..Len(pr[q].ops) : pr[q].ops[j] \in Ops
  BY SemAssumption
<1>2. PICK j \in DOMAIN pr[q].ops :
        LET o == pr[q].ops[j]
            x == Addr(pr[q].id[1], o.num)
        IN /\ o.op <= 0
           /\ pr[q].chan = <<IF o.op < 0 THEN "n" ELSE "z", x>>
           /\ IF o.op < 0 THEN f[x] + Abs!Sum(pr[q].ops, o.num, j - 1, TRUE) < -o.op
                          ELSE f[x] # 0
  BY DEF Blocked
<1> DEFINE o == pr[q].ops[j]
           x == Addr(pr[q].id[1], o.num)
<1>3. PICK t : t = Abs!Sum(pr[q].ops, o.num, j - 1, TRUE)
  OBVIOUS
<1>4. t \in Int
  <2>1. j - 1 \in 0..Len(pr[q].ops)
    BY <1>1
  <2>2. \A n, all : \A m \in 0..Len(pr[q].ops) : Abs!Sum(pr[q].ops, n, m, all) \in Int
    BY <1>1, SumSteps
  <2> QED
    BY <1>3, <2>1, <2>2
<1>5. o.op \in Int /\ o.op <= 0 /\ pr[q].chan = <<IF o.op < 0 THEN "n" ELSE "z", x>>
      /\ IF o.op < 0 THEN f[x] + t < -o.op ELSE f[x] # 0
  BY <1>1, <1>2, <1>3 DEF Ops
<1>6. IF o.op < 0 THEN F[x] + t < -o.op ELSE F[x] # 0
  <2> HIDE DEF o, x
  <2>1. pr[q].chan[2] = x /\ pr[q].chan[1] = (IF o.op < 0 THEN "n" ELSE "z")
    BY <1>5
  <2> QED
    BY <1>4, <1>5, <2>1
<1>7. Addr(pr[q].id[1], o.num)' = x
  BY DEF Addr
<1> QED
  BY <1>2, <1>3, <1>5, <1>6, <1>7 DEF Blocked

\* Who still sleeps was not called.
LEMMA NotCalled ==
    ASSUME FitInv, SleeperIsCounted, NEW q \in Procs, pr[q].pc = "asleep", pr'[q].pc = "asleep",
           NEW f \in [Procs -> ProcRecord], f[q] = pr[q], NEW C, pr' = wakeprocs(f, C),
           NEW K, Called(pr[q].chan[2], K) \subseteq C
    PROVE  pr[q].chan[1] \notin K
<1> SUFFICES ASSUME pr[q].chan[1] \in K PROVE FALSE
  OBVIOUS
<1>1. pr[q].chan = <<pr[q].chan[1], pr[q].chan[2]>>
  BY DEF FitInv, TypeInv, TypeOK, ProcRecord
<1>2. Count(pr[q].chan[2], pr[q].chan[1]) # 0
  BY DEF SleeperIsCounted
<1>3. pr[q].chan \in C
  BY <1>1, <1>2 DEF Called
<1> QED
  BY <1>3, WakeprocsType

\* No step but the taking back of an operation lets a sleeper go on without
\* waking it.
LEMMA StillBlocked ==
    ASSUME FitInv, SleeperIsCounted, AdjustmentsAreLive, ValuesInRange, [Next]_vars,
           NEW q \in Procs, pr[q].pc = "asleep", pr'[q].pc = "asleep", \A p \in Procs : ~semundo(p),
           NEW y, y = pr[q].chan[2]
    PROVE  /\ pr[q].chan[1] = "n" => sem'[y].val <= sem[y].val
           /\ pr[q].chan[1] = "z" /\ sem[y].val # 0 => sem'[y].val # 0
<1> DEFINE c == pr[q].chan[1]
           Left == /\ c = "n" => sem'[y].val <= sem[y].val
                   /\ c = "z" /\ sem[y].val # 0 => sem'[y].val # 0
<1>1. pr \in [Procs -> ProcRecord] /\ pr[q] \in ProcRecord /\ sem \in [Addrs -> SemRecord]
  BY DEF FitInv, TypeInv, TypeOK
<1>2. y \in Addrs /\ c \in Kinds
  <2>1. y \in Addrs
    BY DEF FitInv, Fit, Channels
  <2> QED
    BY <1>1, <2>1 DEF ProcRecord
<1>3. sem[y].val \in Nat
  BY <1>2, SemAssumption DEF ValuesInRange
<1> HIDE DEF c
<1>4. ASSUME sem'[y].val = sem[y].val PROVE Left
  BY <1>3, <1>4
<1>5. ASSUME NEW v \in Int, NEW K, sem'[y] = Put(y, v, K), c \notin K,
             c = "n" /\ "n" \notin K => v <= sem[y].val,
             c = "z" /\ "z" \notin K /\ sem[y].val # 0 => v # 0
      PROVE  Left
  BY <1>3, <1>5 DEF Put
<1> HIDE DEF Left
<1>6. ASSUME NEW id \in Ids, semctlRMID(id) PROVE Left
  <2>1. PICK C : C = UNION {Called(x, Kinds) : x \in Span(id[1])}
    OBVIOUS
  <2>2. pr' = wakeprocs(pr, C) /\ (y \in Addrs => sem'[y] = IF y \in Span(id[1]) THEN Put(y, 0, Kinds) ELSE sem[y])
    BY <1>6, <2>1 DEF semctlRMID
  <2>3. y \notin Span(id[1])
    <3> SUFFICES ASSUME y \in Span(id[1]) PROVE FALSE
      OBVIOUS
    <3>1. Called(y, Kinds) \subseteq C
      BY <2>1
    <3> QED
      BY <1>1, <1>2, <2>2, <3>1, NotCalled DEF c
  <2> QED
    BY <1>2, <1>4, <2>2, <2>3
<1>7. ASSUME NEW id \in Ids, semctlSETVAL(id) \/ semctlSETALL(id) PROVE Left
  <2>1. PICK N \in {Members(id)} \cup {{n} : n \in Members(id)} :
          \E f \in [N -> SemVals] : Assign(id, N, f)
    BY <1>7, SetCases
  <2>2. PICK f \in [N -> SemVals] : Assign(id, N, f)
    BY <2>1
  <2>3. PICK set, b : set = {Addr(id[1], n) : n \in N} /\ b = sema[id[1]].base
    OBVIOUS
  <2>4. PICK C : C = UNION {Called(x, SetKinds(f[x - b])) : x \in set}
    OBVIOUS
  <2>5. pr' = wakeprocs(pr, C)
        /\ sem'[y] = IF y \in set THEN Put(y, f[y - b], SetKinds(f[y - b])) ELSE sem[y]
    BY <1>2, <2>2, <2>3, <2>4 DEF Assign
  <2>6. CASE y \in set
    <3>1. c \notin SetKinds(f[y - b])
      <4>1. Called(y, SetKinds(f[y - b])) \subseteq C
        BY <2>4, <2>6
      <4> QED
        BY <1>1, <2>5, <4>1, NotCalled DEF c
    <3>2. f[y - b] \in 0..semvmx
      <4>1. PICK n \in N : y = Addr(id[1], n)
        BY <2>3, <2>6
      <4>2. b \in Nat /\ n \in Nat
        BY <2>1, <2>3, <4>1, SemAssumption DEF FitInv, TypeInv, TypeOK, SetRecord, Addrs, Ids, Members, Nums
      <4>3. y - b = n
        BY <2>3, <4>1, <4>2 DEF Addr
      <4> QED
        BY <4>1, <4>3, SemAssumption
    <3>3. sem'[y] = Put(y, f[y - b], SetKinds(f[y - b]))
      BY <2>5, <2>6
    <3>4. PICK v \in Nat : v = f[y - b]
      BY <3>2
    <3>5. CASE v = 0
      BY <1>2, <1>3, <1>5, <3>1, <3>3, <3>4, <3>5 DEF SetKinds, Kinds
    <3>6. CASE v # 0
      BY <1>2, <1>3, <1>5, <3>1, <3>3, <3>4, <3>6 DEF SetKinds, Kinds
    <3> QED
      BY <3>5, <3>6
  <2>7. CASE y \notin set
    BY <1>4, <2>5, <2>7
  <2> QED
    BY <2>6, <2>7
<1>8. ASSUME NEW p \in Procs, SemopDo(p) PROVE Left
  <2> DEFINE o == TheOp(p)
             x == TheSem(p)
             w == sem[x].val + o.op
  <2>1. /\ sem' = [sem EXCEPT ![x] = Put(x, w, OpKinds(o, w))]
        /\ pr' = wakeprocs([pr EXCEPT ![p].i = @ + 1], Called(x, OpKinds(o, w)))
        /\ Fits(o, sem[x].val) /\ pr[p].pc = "ops"
    BY <1>8 DEF SemopDo, Doing
  <2>2. o.op \in Int /\ x \in Addrs
    <3>1. pr[p].pc = "ops" /\ More(p) /\ pr[p].i > 0
      BY <1>8 DEF SemopDo, Doing, FitInv, TypeInv, Indices
    <3> QED
      BY <3>1, TheOpType, TheSemFits DEF FitInv
  <2> DEFINE f == [pr EXCEPT ![p].i = @ + 1]
  <2>3. f \in [Procs -> ProcRecord] /\ f[q] = pr[q]
    <3>1. pr[p] \in ProcRecord
      BY <1>1
    <3>2. [pr[p] EXCEPT !.i = @ + 1] \in ProcRecord
      BY <3>1 DEF ProcRecord
    <3>3. q # p
      BY <2>1
    <3> QED
      BY <1>1, <3>2, <3>3
  <2> HIDE DEF o, x, w, f
  <2>4. CASE y = x
    <3>1. c \notin OpKinds(o, w)
      <4>1. pr' = wakeprocs(f, Called(y, OpKinds(o, w)))
        BY <2>1, <2>4 DEF f
      <4> QED
        BY <2>3, <4>1, NotCalled DEF c
    <3>2. w = sem[y].val + o.op
      BY <2>4 DEF w
    <3>3. sem'[y] = Put(y, w, OpKinds(o, w))
      BY <1>1, <1>2, <2>1, <2>4
    <3>4. w \in Int
      BY <1>3, <2>2, <3>2
    <3>5. c = "n" /\ "n" \notin OpKinds(o, w) => w <= sem[y].val
      BY <1>3, <2>2, <3>2 DEF OpKinds
    <3>6. c = "z" /\ "z" \notin OpKinds(o, w) /\ sem[y].val # 0 => w # 0
      BY <1>3, <2>2, <3>2 DEF OpKinds
    <3> QED
      BY <1>5, <3>1, <3>3, <3>4, <3>5, <3>6
  <2>5. CASE y # x
    <3>1. sem'[y] = sem[y]
      BY <1>1, <1>2, <2>1, <2>5
    <3> QED
      BY <1>4, <3>1
  <2> QED
    BY <2>4, <2>5
<1>9. ASSUME NEW p \in Procs, SemexitEntry(p) PROVE Left
  <2>1. PICK e \in Keys, x \in Addrs, v \in Int, K \in SUBSET Kinds : ExitAdjusts(p, e, x, v, K)
    BY <1>9, ExitCases
  <2>2. undo[p][e] \in Int
    BY SemAssumption DEF FitInv, TypeInv, TypeOK
  <2>3. CASE y = x /\ v \in 0..semvmx
    <3>1. /\ sem' = [sem EXCEPT ![y] = Put(y, v, K)] /\ pr' = wakeprocs(pr, Called(y, K))
          /\ v = sem[y].val + undo[p][e] /\ ("z" \in K <=> v = 0) /\ ("n" \in K <=> undo[p][e] > 0)
      BY <2>1, <2>3 DEF ExitAdjusts
    <3>2. c \notin K
      BY <1>1, <3>1, NotCalled DEF c
    <3>3. sem'[y] = Put(y, v, K)
      BY <1>1, <1>2, <3>1
    <3>4. c = "n" /\ "n" \notin K => v <= sem[y].val
      BY <1>3, <2>2, <3>1
    <3> QED
      BY <1>5, <3>1, <3>2, <3>3, <3>4
  <2>4. CASE ~(y = x /\ v \in 0..semvmx)
    <3>1. sem'[y] = sem[y]
      BY <1>1, <1>2, <2>1, <2>4 DEF ExitAdjusts
    <3> QED
      BY <1>4, <3>1
  <2> QED
    BY <2>3, <2>4
<1>10. ASSUME NEW p \in Procs, SemopLeave(p) \/ Interrupted(p) PROVE Left
  <2>1. \/ UNCHANGED sem
        \/ \E x \in Int : \/ sem' = [sem EXCEPT ![x].ncnt = @ + 1] \/ sem' = [sem EXCEPT ![x].zcnt = @ + 1]
                          \/ sem' = [sem EXCEPT ![x].ncnt = @ - 1] \/ sem' = [sem EXCEPT ![x].zcnt = @ - 1]
                          \/ \E K : sem' = [sem EXCEPT ![x] = Put(x, @.val, K)]
    <3>1. pr[p].chan[2] \in Int
      BY <1>1 DEF ProcRecord
    <3> QED
      BY <1>10, <3>1 DEF SemopLeave, Interrupted
  <2>2. sem'[y].val = sem[y].val
    <3>1. ASSUME NEW x \in Int, NEW K, sem' = [sem EXCEPT ![x] = Put(x, @.val, K)]
          PROVE  sem'[y].val = sem[y].val
      BY <1>1, <1>2, <3>1 DEF Put
    <3>2. ASSUME NEW x \in Int, \/ sem' = [sem EXCEPT ![x].ncnt = @ + 1] \/ sem' = [sem EXCEPT ![x].zcnt = @ + 1]
                                \/ sem' = [sem EXCEPT ![x].ncnt = @ - 1] \/ sem' = [sem EXCEPT ![x].zcnt = @ - 1]
          PROVE  sem'[y].val = sem[y].val
      BY <1>1, <1>2, <3>2 DEF SemRecord
    <3> QED
      BY <2>1, <3>1, <3>2
  <2> QED
    BY <1>4, <2>2
<1>11. ASSUME UNCHANGED sem PROVE Left
  BY <1>4, <1>11, SMTT(30)
<1>12. Left
  BY <1>6, <1>7, <1>8, <1>9, <1>10, <1>11, ZenonT(40)
     DEF Next, vars, semctlSET, semget, semop, SemopError, SemopWait, SemopDone, Signal, Continued, Resume, semexit, SemexitDone
<1> QED
  BY <1>12 DEF Left, c

\* A set that exists stays where it is.
LEMMA BaseKept ==
    ASSUME FitInv, [Next]_vars, NEW s \in Sets, sema[s].alloc
    PROVE  sema'[s].base = sema[s].base /\ sema'[s].nsems = sema[s].nsems
<1>1. sema \in [Sets -> SetRecord]
  BY DEF FitInv, TypeInv, TypeOK
<1>2. ASSUME NEW t \in Sets, semget(t) PROVE sema'[s] = sema[s]
  BY <1>1, <1>2 DEF semget
<1>3. ASSUME NEW id \in Ids, semctlRMID(id)
      PROVE  sema'[s].base = sema[s].base /\ sema'[s].nsems = sema[s].nsems
  BY <1>1, <1>3 DEF semctlRMID, SetRecord
<1>4. CASE UNCHANGED sema
  BY <1>4
<1> QED
  BY <1>2, <1>3, <1>4 DEF Next, vars, semctlSETVAL, semctlSETALL, semctlSET, Assign, semop, SemopDo, SemopError,
     SemopWait, SemopDone, semundo, SemopLeave, Signal, Continued, Resume, Interrupted, semexit, SemexitEntry,
     SemexitDone

\* The operation that has to wait is one that waits with what the semaphores
\* had at the start of the pass.
LEMMA WaitBlocks ==
    ASSUME ZerosFirst, FitInv, AreaOwn, NEW p \in Procs, SemopWait(p), Waiting(p)',
           NEW h, NEW g, Trace(p, h, g)
    PROVE  Blocked(p, h[0])'
<1> DEFINE ops == pr[p].ops
           d == Done(p)
           o == ops[d + 1]
           x == Addr(pr[p].id[1], o.num)
<1>1. pr[p] \in ProcRecord /\ pr \in [Procs -> ProcRecord]
  BY DEF FitInv, TypeInv, TypeOK
<1>2. InPassing(p) /\ pr[p].pc = "ops" /\ pr[p].i = d + 1 /\ More(p)
  BY <1>1 DEF SemopWait, Doing, InPassing, Done, ProcRecord
<1>3. /\ ops \in OpLists /\ DOMAIN ops = 1..Len(ops) /\ Len(ops) \in Nat /\ d \in Nat
      /\ d + 1 \in 1..Len(ops)
      /\ \A j \in 1..Len(ops) : ops[j] \in Ops /\ semtmp[j] = ops[j]
  <2>1. ops \in OpLists /\ DOMAIN ops = 1..Len(ops) /\ d \in Nat /\ Len(ops) <= semopm
    BY <1>2, PlaceFits
  <2>2. Len(ops) \in Nat /\ \A j \in 1..Len(ops) : ops[j] \in Ops
    BY <2>1, SemAssumption
  <2>3. \A j \in 1..Len(ops) : semtmp[j] = ops[j]
    BY <1>2, <2>1 DEF AreaOwn
  <2> QED
    BY <1>2, <2>1, <2>2, <2>3, SemAssumption DEF More
<1>4. o \in Ops /\ o.op \in Int /\ o.num \in Nums /\ o = TheOp(p) /\ x = TheSem(p)
  BY <1>2, <1>3 DEF Ops, TheOp, TheSem
<1>5. x \in Addrs
  BY <1>2, <1>3, <1>4, PlaceFits DEF Place
<1>6. /\ o.op <= 0 /\ ~Fits(o, sem[x].val)
      /\ pr'[p].ops = ops /\ pr'[p].id = pr[p].id
      /\ pr'[p].chan = <<IF o.op < 0 THEN "n" ELSE "z", x>> /\ UNCHANGED sema
  <2>1. ~TheOp(p).nowait
    BY <1>1 DEF SemopWait, Rollback, ProcRecord, Waiting
  <2>2. pr' = [pr EXCEPT ![p] = [InPass("undo", @.id, @.ops, @.i - 1, IF o.op < 0 THEN "n" ELSE "z")
                                 EXCEPT !.chan = <<IF o.op < 0 THEN "n" ELSE "z", x>>]]
    BY <1>4, <2>1 DEF SemopWait
  <2> HIDE DEF o, x, ops
  <2>3. pr'[p].id = pr[p].id /\ pr'[p].ops = pr[p].ops
        /\ pr'[p].chan = <<IF o.op < 0 THEN "n" ELSE "z", x>>
    BY <1>1, <2>2 DEF InPass
  <2> QED
    BY <1>4, <2>3 DEF SemopWait, ops
<1>7. PICK yes, no : yes = TRUE /\ no = FALSE
  OBVIOUS
<1>8. PICK t : t = Abs!Sum(ops, o.num, d, yes)
  OBVIOUS
<1>9. t \in Int /\ (o.op = 0 => t = 0)
  <2>1. \A n, all : \A m \in 0..Len(ops) : Abs!Sum(ops, n, m, all) \in Int
    BY <1>3, SumSteps
  <2>2. d \in 0..Len(ops)
    BY <1>3
  <2>3. o.op = 0 => \A j \in 1..d : ops[j].num # o.num
    <3>1. ops \in OpLists /\ d + 1 \in DOMAIN ops /\ (d + 1) - 1 = d
      BY <1>3
    <3> HIDE DEF ops, d
    <3> QED
      BY <3>1 DEF ZerosFirst
  <2> HIDE DEF o, ops, d
  <2>4. o.op = 0 => Abs!Sum(ops, o.num, d, yes) = 0
    BY <1>3, <2>2, <2>3, SumZero
  <2> QED
    BY <1>8, <2>1, <2>2, <2>4
<1>10. sem[x].val = h[0][x] + t /\ h[0][x] \in Int
  <2>1. \A j \in 1..Done(p) : ops[j] = semtmp[j]
    BY <1>3
  <2>2. d \in 0..Done(p) /\ 0 \in 0..Done(p)
    BY <1>3
  <2> HIDE DEF ops
  <2>3. \A n \in Nums : Addr(pr[p].id[1], n) \in Addrs =>
           h[d][Addr(pr[p].id[1], n)] = h[0][Addr(pr[p].id[1], n)] + Abs!Sum(ops, n, d, yes)
    <3>1. AddsUp(p, h, g, ops, d)
      BY <1>2, <2>1, <2>2, TraceSums
    <3>2. \A n : Total(ops, n, d) = Abs!Sum(ops, n, d, yes)
      BY <1>7, Zenon DEF Total
    <3> QED
      BY <3>1, <3>2 DEF AddsUp
  <2>5. h[d][x] = h[0][x] + Abs!Sum(ops, o.num, d, yes)
    BY <1>4, <1>5, <2>3
  <2>4. h[d] = Values /\ h[0] \in [Addrs -> 0..semvmx]
    BY <2>2 DEF Trace
  <2> QED
    BY <1>5, <1>8, <2>4, <2>5, SemAssumption DEF Values
<1>11. IF o.op < 0 THEN h[0][x] + t < -o.op ELSE h[0][x] # 0
  <2> HIDE DEF o, x
  <2> QED
    BY <1>4, <1>6, <1>9, <1>10 DEF Fits
<1>12. PICK j : j = d + 1
  OBVIOUS
<1>13. j \in DOMAIN ops /\ ops[j] = o /\ t = Abs!Sum(ops, o.num, j - 1, TRUE)
  <2>1. j - 1 = d
    BY <1>3, <1>12
  <2>2. Abs!Sum(ops, o.num, d, yes) = Abs!Sum(ops, o.num, j - 1, TRUE)
    BY <1>7, <2>1, Zenon
  <2>3. t = Abs!Sum(ops, o.num, j - 1, TRUE)
    BY <1>8, <2>2, Zenon
  <2>4. j \in DOMAIN ops /\ ops[j] = o
    BY <1>3, <1>12
  <2> QED
    BY <2>3, <2>4
<1>14. PICK L, O : L = ops /\ O = o
  OBVIOUS
<1>15. Addr(pr[p].id[1], O.num)' = x
  BY <1>6, <1>14 DEF Addr
<1>16. PICK X : X = x
  OBVIOUS
<1> HIDE DEF ops, o, x
<1>17. /\ j \in DOMAIN pr'[p].ops /\ pr'[p].ops = L /\ L[j] = O
       /\ O.op <= 0 /\ pr'[p].chan = <<IF O.op < 0 THEN "n" ELSE "z", X>>
       /\ IF O.op < 0 THEN h[0][X] + Abs!Sum(L, O.num, j - 1, TRUE) < -O.op ELSE h[0][X] # 0
       /\ Addr(pr[p].id[1], O.num)' = X
  BY <1>6, <1>11, <1>13, <1>14, <1>15, <1>16
<1> QED
  BY <1>17 DEF Blocked

\* Sleepers have to wait, with the values that there are.
LEMMA SleepersStep ==
    ASSUME ZerosFirst, OKInv, WakePassInv, SleepersBlocked, [Next]_vars
    PROVE  SleepersBlocked'
<1> USE DEF OKInv, LiveInv, SemaphoresOK
<1> SUFFICES ASSUME NEW q \in Procs, pr'[q].pc = "asleep", NEW F, F = Values'
             PROVE  Blocked(q, F)'
  BY DEF SleepersBlocked
<1>1. /\ pr[q].pc = "asleep" \/ (Waiting(q) /\ SemopLeave(q))
      /\ pr'[q].id = pr[q].id /\ pr'[q].ops = pr[q].ops /\ pr'[q].chan = pr[q].chan
  BY AsleepBefore
<1>2. pr[q].ops \in OpLists /\ pr[q].id[1] \in Sets /\ pr[q].chan[2] \in Addrs
      /\ semconv(pr[q].id)
  <2>1. pr[q].pc \in InKernel
    BY <1>1 DEF Waiting, InKernel
  <2>2. pr[q] \in ProcRecord
    BY DEF FitInv, TypeInv, TypeOK
  <2>3. pr[q].ops \in OpLists
    BY <2>1, <2>2 DEF FitInv, TypeInv, Indices
  <2>4. pr[q].chan[2] \in Addrs
    BY <1>1 DEF FitInv, Fit, Channels, Waiting
  <2> QED
    BY <1>1, <2>2, <2>3, <2>4 DEF ProcRecord, Ids, ChansInSpan
<1>3. sema'[pr[q].id[1]].base = sema[pr[q].id[1]].base
  BY <1>2, BaseKept DEF semconv
<1>4. PICK f : f = Values
  OBVIOUS
<1>5. \A y \in Addrs : f[y] = sem[y].val /\ F[y] = sem'[y].val /\ f[y] \in Int /\ F[y] \in Int
  <2>1. ValuesInRange'
    BY ValuesStep
  <2> QED
    BY <1>4, <2>1 DEF Values, ValuesInRange
<1>6. CASE pr[q].pc = "asleep" /\ \A p \in Procs : ~semundo(p)
  <2>1. Blocked(q, f)
    BY <1>4, <1>6 DEF SleepersBlocked
  <2>2. /\ pr[q].chan[1] = "n" => F[pr[q].chan[2]] <= f[pr[q].chan[2]]
        /\ pr[q].chan[1] = "z" /\ f[pr[q].chan[2]] # 0 => F[pr[q].chan[2]] # 0
    BY <1>2, <1>5, <1>6, StillBlocked
  <2> QED
    BY <1>1, <1>2, <1>3, <1>5, <2>1, <2>2, BlockedKept
<1>7. ASSUME pr[q].pc = "asleep", NEW p \in Procs, semundo(p)
      PROVE  Blocked(q, F)'
  <2>1. InPassing(p)
    BY <1>7 DEF semundo, Doing, InPassing
  <2>2. PICK h, g : Trace(p, h, g) /\ WaitTrace(p, h)
    BY <2>1 DEF WakePassInv
  <2>3. PICK d : d = Done(p)
    OBVIOUS
  <2>4. d \in Nat /\ d > 0 /\ F = h[d - 1]
    BY <1>7, <2>2, <2>3, TraceBack
  <2>5. Blocked(q, F)
    BY <1>7, <2>2, <2>3, <2>4 DEF WaitTrace
  <2> QED
    BY <1>1, <1>2, <1>3, <1>5, <2>5, BlockedKept
<1>8. CASE Waiting(q) /\ SemopLeave(q)
  <2>1. InPassing(q) /\ Done(q) = 0 /\ ~InPassing(q)'
    BY <1>8 DEF Waiting, InPassing, SemopLeave, Done
  <2>2. PICK h, g : Trace(q, h, g) /\ WaitTrace(q, h)
    BY <2>1 DEF WakePassInv
  <2>3. h[0] = Values /\ Blocked(q, h[0])
    BY <1>8, <2>1, <2>2 DEF Trace, WaitTrace
  <2>4. F = h[0]
    <3>1. \A x \in Addrs : sem'[x].val = sem[x].val
      BY <2>1, PassEnds
    <3> QED
      BY <2>3, <3>1 DEF Values
  <2> QED
    BY <1>1, <1>2, <1>3, <1>5, <2>3, <2>4, BlockedKept
<1> QED
  BY <1>1, <1>6, <1>7, <1>8

LEMMA WakePassStep ==
    ASSUME ListsFit, ZerosFirst, OKInv, AreaOwn, WakePassInv, SleepersBlocked, [Next]_vars
    PROVE  WakePassInv'
<1> USE DEF OKInv, LiveInv, SemaphoresOK
<1>1. SleepersBlocked'
  BY SleepersStep
<1> SUFFICES ASSUME NEW p \in Procs, InPassing(p)'
             PROVE  (\E h, g : Trace(p, h, g) /\ WaitTrace(p, h))'
  BY DEF WakePassInv
<1>2. CASE \A q \in Procs : ~InPassing(q)
  <2>1. Done(p)' = 0 /\ pr'[p].pc = "ops"
    BY <1>2, PassStarts
  <2>2. ValuesInRange' /\ EntriesFit'
    BY ValuesStep
  <2>3. TypeOK'
    BY FitStep DEF FitInv, TypeInv
  <2>4. PICK v, a : v = Values' /\ a = undo'[p]
    OBVIOUS
  <2>5. Trace(p, [k \in 0..0 |-> v], [k \in 0..0 |-> a])'
    BY <2>1, <2>2, <2>3, <2>4, TraceBegins
  <2>6. PICK H, G : H = [k \in 0..0 |-> v] /\ G = [k \in 0..0 |-> a]
    OBVIOUS
  <2>7. Trace(p, H, G)'
    BY <2>5, <2>6
  <2>8. \A k \in 0..Done(p)' : H[k] = v
    BY <2>1, <2>6
  <2>9. \A q \in Procs : pr'[q].pc = "asleep" => Blocked(q, v)'
    BY <1>1, <2>4 DEF SleepersBlocked
  <2>10. WaitTrace(p, H)'
    <3>1. ~Waiting(p)'
      BY <2>1 DEF Waiting
    <3> QED
      BY <2>8, <2>9, <3>1 DEF WaitTrace
  <2> QED
    BY <2>7, <2>10
<1>3. ASSUME NEW r \in Procs, InPassing(r)
      PROVE  (\E h, g : Trace(p, h, g) /\ WaitTrace(p, h))'
  <2>1. p = r /\ InPassing(p)
    BY <1>3, OnlyPass
  <2>2. PICK h, g : Trace(p, h, g) /\ WaitTrace(p, h)
    BY <2>1 DEF WakePassInv
  <2>3. PICK H, G : /\ Trace(p, H, G)' /\ H[0] = h[0]
                    /\ \A k \in 0..Done(p)' : \/ k \in 0..Done(p) /\ H[k] = h[k]
                                              \/ H[k] = Values'
    BY <2>1, <2>2, TraceStep
  <2>4. PICK v : v = Values'
    OBVIOUS
  <2>5. \A k \in 0..Done(p), x \in Addrs : h[k][x] \in Int
    <3>1. h \in [0..Done(p) -> [Addrs -> 0..semvmx]]
      BY <2>2 DEF Trace
    <3> QED
      BY <3>1, SemAssumption
  <2>6. UNCHANGED sema
    BY <2>1, <2>2, TraceStep
  <2>7. ASSUME NEW q \in Procs, pr[q].pc = "asleep" \/ Waiting(q)
        PROVE  pr[q].ops \in OpLists /\ pr[q].chan[2] \in Addrs
    <3>1. pr[q].pc \in InKernel
      BY <2>7 DEF Waiting, InKernel
    <3> QED
      BY <2>7, <3>1 DEF FitInv, TypeInv, TypeOK, ProcRecord, Indices, Fit, Channels, Waiting
  <2>8. ASSUME NEW q \in Procs, NEW k \in 0..Done(p)', pr'[q].pc = "asleep"
        PROVE  Blocked(q, H[k])'
    <3>1. /\ pr[q].pc = "asleep" \/ (Waiting(q) /\ SemopLeave(q))
          /\ pr'[q].id = pr[q].id /\ pr'[q].ops = pr[q].ops /\ pr'[q].chan = pr[q].chan
      BY <2>8, AsleepBefore
    <3>2. pr[q].pc = "asleep"
      <4> SUFFICES ASSUME Waiting(q) PROVE FALSE
        BY <3>1
      <4>1. InPassing(q)
        BY DEF Waiting, InPassing
      <4>2. q = p
        BY <2>1, <4>1, PassSteps
      <4> QED
        BY <2>8, <4>2 DEF InPassing
    <3>3. CASE H[k] = Values'
      <4>1. Blocked(q, v)'
        BY <1>1, <2>4, <2>8 DEF SleepersBlocked
      <4> QED
        BY <2>4, <3>3, <4>1
    <3>4. CASE k \in 0..Done(p) /\ H[k] = h[k]
      <4>1. PICK F : F = H[k]
        OBVIOUS
      <4>2. Blocked(q, F) /\ F[pr[q].chan[2]] \in Int
        BY <2>2, <2>5, <2>7, <3>2, <3>4, <4>1 DEF WaitTrace
      <4>3. Blocked(q, F)'
        BY <2>6, <2>7, <3>1, <3>2, <4>2, BlockedKept
      <4> QED
        BY <4>1, <4>3
    <3> QED
      BY <2>3, <3>3, <3>4
  <2>9. ASSUME Waiting(p)'
        PROVE  Blocked(p, H[0])'
    <3>1. /\ pr'[p].id = pr[p].id /\ pr'[p].ops = pr[p].ops
          /\ SemopWait(p) \/ (Waiting(p) /\ pr'[p].chan = pr[p].chan)
      BY <2>9, WaitingBefore
    <3>2. PICK F : F = h[0]
      OBVIOUS
    <3>3. Blocked(p, F)'
      <4>1. CASE SemopWait(p)
        BY <2>2, <2>9, <3>2, <4>1, WaitBlocks
      <4>2. CASE Waiting(p) /\ pr'[p].chan = pr[p].chan
        <5>1. 0 \in 0..Done(p)
          BY <2>1, PlaceFits
        <5>2. Blocked(p, F) /\ F[pr[p].chan[2]] \in Int
          BY <2>2, <2>5, <2>7, <3>2, <4>2, <5>1 DEF WaitTrace
        <5> QED
          BY <2>6, <2>7, <3>1, <4>2, <5>2, BlockedKept
      <4> QED
        BY <3>1, <4>1, <4>2
    <3> QED
      BY <2>3, <3>2, <3>3
  <2>10. WaitTrace(p, H)'
    BY <2>8, <2>9 DEF WaitTrace
  <2> QED
    BY <2>3, <2>10
<1> QED
  BY <1>2, <1>3

\* What the invariant says of a process that sleeps when no semop() is under way.
LEMMA BlockedWaits ==
    ASSUME ListsFit, ZerosFirst, FitInv, ValuesInRange, ChansInSpan, SleepersBlocked, cur = NoProc,
           NEW p \in Procs, pr[p].pc = "asleep"
    PROVE  semconv(pr[p].id) /\ ~Abs!CanProceed(AbsSets[pr[p].id].val, pr[p].ops)
<1> DEFINE id == pr[p].id
           ops == pr[p].ops
           s == id[1]
<1>1. semconv(id)
  BY DEF ChansInSpan
<1>2. ops \in OpLists /\ DOMAIN ops = 1..Len(ops) /\ Len(ops) \in Nat
      /\ \A j \in 1..Len(ops) : ops[j] \in Ops
  <2>1. pr[p].pc \in InKernel
    BY DEF InKernel
  <2>2. ops \in OpLists
    BY <2>1 DEF FitInv, TypeInv, TypeOK, ProcRecord, Indices
  <2> QED
    BY <2>2, SemAssumption
<1>3. id \in Ids /\ s \in Sets /\ sema[s].nsems \in NSems
      /\ sema[s].base \in Nat /\ sema[s].nsems \in Nat /\ sema[s].base + sema[s].nsems <= semmns
  <2>1. id \in Ids /\ s \in Sets
    BY DEF FitInv, TypeInv, TypeOK, ProcRecord, Ids
  <2>2. sema[s].nsems \in NSems /\ sema[s].base + sema[s].nsems <= semmns
    BY <1>1, <2>1 DEF semconv, FitInv, Fit, SetsFit
  <2>3. sema[s].base \in Nat /\ sema[s].nsems \in Nat
    BY <2>1, SemAssumption DEF FitInv, TypeInv, TypeOK, SetRecord, Addrs
  <2> QED
    BY <2>1, <2>2, <2>3
<1> DEFINE val == AbsSets[id].val
<1>4. \A n \in Nums : n < sema[s].nsems => val[n] = sem[Addr(s, n)].val
  <2>1. ~Passing(id)
    BY DEF Passing
  <2>2. ASSUME NEW n \in Nums, n < sema[s].nsems
        PROVE  AbsValue(id, n) = sem[Addr(s, n)].val
    <3>1. Addr(s, n) \in Addrs
      <4>1. n \in Nat /\ semmns \in Nat
        BY SemAssumption DEF Nums
      <4> QED
        BY <1>3, <2>2, <4>1, InBounds DEF Addr, Addrs
    <3>2. sem[Addr(s, n)].val \in Int
      BY <3>1 DEF ValuesInRange
    <3>3. AbsValue(id, n) = sem[Addr(s, n)].val - 0
      BY <1>3, <2>1, <2>2, SemAssumption DEF AbsValue, Nums
    <3> QED
      BY <3>2, <3>3
  <2> QED
    BY <1>1, <1>3, <2>2 DEF AbsSets
<1>5. PICK j \in DOMAIN ops :
        LET o == ops[j]
            x == Addr(id[1], o.num)
        IN /\ o.op <= 0
           /\ IF o.op < 0 THEN Values[x] + Abs!Sum(ops, o.num, j - 1, TRUE) < -o.op
                          ELSE Values[x] # 0
  BY DEF SleepersBlocked, Blocked
<1> DEFINE o == ops[j]
           x == Addr(s, o.num)
<1>6. o \in Ops /\ o.num \in Nums /\ o.num < sema[s].nsems /\ o.op \in Int /\ x \in Addrs
  <2>1. o \in Ops /\ o.num \in Nums /\ o.op \in Int
    BY <1>2 DEF Ops
  <2>2. o.num < sema[s].nsems
    BY <1>2, <1>3 DEF ListsFit
  <2>3. sema[s].base + o.num \in 0..(semmns - 1)
    <3>1. o.num \in Nat /\ semmns \in Nat
      BY <2>1, SemAssumption DEF Nums
    <3> HIDE DEF o
    <3> QED
      BY <1>3, <2>2, <3>1, InBounds
  <2> QED
    BY <2>1, <2>2, <2>3 DEF Addr, Addrs
<1>7. PICK v : v = sem[x].val
  OBVIOUS
<1>8. v \in Int /\ val[o.num] = v /\ Values[x] = v
  BY <1>4, <1>6, <1>7 DEF ValuesInRange, Values
<1>9. PICK t : t = Abs!Sum(ops, o.num, j - 1, TRUE)
  OBVIOUS
<1>10. t \in Int /\ (o.op = 0 => t = 0)
  <2>1. \A n, all : \A m \in 0..Len(ops) : Abs!Sum(ops, n, m, all) \in Int
    BY <1>2, SumSteps
  <2>2. j - 1 \in 0..Len(ops)
    BY <1>2
  <2>3. o.op = 0 => \A k \in 1..(j - 1) : ops[k].num # o.num
    BY <1>2 DEF ZerosFirst
  <2> HIDE DEF o, ops
  <2>4. o.op = 0 => Abs!Sum(ops, o.num, j - 1, TRUE) = 0
    BY <1>2, <2>2, <2>3, SumZero
  <2> QED
    BY <1>9, <2>1, <2>2, <2>4
<1>11. Abs!Waits(val, ops, j)
  <2>1. o.op <= 0 /\ IF o.op < 0 THEN v + t < -o.op ELSE v # 0
    BY <1>5, <1>8, <1>9
  <2>2. Abs!Waits(val, ops, j) <=> \/ o.op < 0 /\ val[o.num] + t < -o.op
                                   \/ o.op = 0 /\ val[o.num] + t # 0
    BY <1>9 DEF Abs!Waits
  <2> HIDE DEF val, o, x, ops
  <2>3. o.op < 0 => v + t < -o.op
    BY <2>1
  <2>4. o.op = 0 => v + t # 0
    BY <1>8, <1>10, <2>1
  <2> QED
    BY <1>6, <1>8, <2>1, <2>2, <2>3, <2>4
<1> HIDE DEF val
<1> QED
  BY <1>1, <1>11 DEF Abs!CanProceed, val

\* Who sleeps in semop() could not do its operations and its set still exists,
\* whenever nobody is in the middle of one.
THEOREM NobodySleepsOn ==
    ASSUME ListsFit, ZerosFirst PROVE Spec => []NoLostWakeup
<1> DEFINE Inv == OKInv /\ AreaOwn /\ WakePassInv /\ SleepersBlocked
<1>1. Init => Inv
  <2> SUFFICES ASSUME Init PROVE Inv
    OBVIOUS
  <2>1. OKInv
    BY OKInit
  <2>2. \A p \in Procs : pr[p].pc = "user"
    BY DEF Init, Idle
  <2>3. AreaOwn /\ WakePassInv /\ SleepersBlocked
    BY <2>2 DEF AreaOwn, WakePassInv, SleepersBlocked, InPassing
  <2> QED
    BY <2>1, <2>3
<1>2. Inv /\ [Next]_vars => Inv'
  <2> SUFFICES ASSUME Inv, [Next]_vars PROVE Inv'
    OBVIOUS
  <2>1. OKInv'
    BY OKStep
  <2>2. AreaOwn'
    BY <2>1 DEF OKInv, LiveInv, FitInv, AreaInv, AreaOwn, InPassing
  <2>3. WakePassInv' /\ SleepersBlocked'
    BY WakePassStep, SleepersStep
  <2> QED
    BY <2>1, <2>2, <2>3
<1>3. Inv => NoLostWakeup
  BY BlockedWaits, SMTT(30) DEF NoLostWakeup, OKInv, LiveInv, SemaphoresOK
<1> QED
  BY <1>1, <1>2, <1>3, PTL DEF Spec

-----------------------------------------------------------------------------
(***************************************************************************)
(* The implementation of SemSpec.  In the middle of a pass what SemSpec    *)
(* sees is the state at its start; otherwise the state itself.             *)
(***************************************************************************)
ValOf(f, id, n) == IF semconv(id) /\ n < sema[id[1]].nsems THEN f[Addr(id[1], n)] ELSE 0

SetsOf(f) ==
    [id \in Ids |-> [size |-> IF semconv(id) THEN sema[id[1]].nsems ELSE 0,
                     val |-> [n \in Nums |-> ValOf(f, id, n)]]]

Shows(f, a) == AbsSets = SetsOf(f) /\ AbsAdj = a

PassShows ==
    \A p \in Procs : \A h, g :
        InPassing(p) /\ Trace(p, h, g) => Shows(h[0], [undo EXCEPT ![p] = g[0]])

FreeShows == (\A p \in Procs : ~InPassing(p)) => Shows(Values, undo)

AbsInv == OKInv /\ AreaOwn /\ SetsApart

LEMMA ApartStep ==
    ASSUME FitInv, SetsApart, [Next]_vars PROVE SetsApart'
<1>1. sema \in [Sets -> SetRecord]
  BY DEF FitInv, TypeInv, TypeOK
<1>2. ASSUME NEW s \in Sets, semget(s) PROVE SetsApart'
  <2>1. PICK n \in NSems, b \in Addrs :
         /\ \A t \in Sets : sema[t].alloc => Span(t) \cap (b .. (b + n - 1)) = {}
         /\ sema' = [sema EXCEPT ![s].alloc = TRUE, ![s].base = b, ![s].nsems = n]
    BY <1>2 DEF semget
  <2>2. \A t \in Sets : t # s => sema'[t] = sema[t]
    BY <1>1, <2>1
  <2>3. sema'[s].base = b /\ sema'[s].nsems = n
    BY <1>1, <2>1 DEF SetRecord
  <2>4. Span(s)' = b .. (b + n - 1) /\ \A t \in Sets : t # s => Span(t)' = Span(t)
    BY <2>2, <2>3 DEF Span
  <2> QED
    BY <2>1, <2>2, <2>4 DEF SetsApart
<1>3. ASSUME NEW id \in Ids, semctlRMID(id) PROVE SetsApart'
  <2>1. \A t \in Sets : Span(t)' = Span(t) /\ (sema'[t].alloc => sema[t].alloc)
    BY <1>1, <1>3 DEF semctlRMID, SetRecord, Span
  <2> QED
    BY <2>1 DEF SetsApart
<1>4. CASE UNCHANGED sema
  BY <1>4 DEF SetsApart, Span
<1> QED
  BY <1>2, <1>3, <1>4 DEF Next, vars, semctlSETVAL, semctlSETALL, semctlSET, Assign, semop, SemopDo, SemopError,
     SemopWait, SemopDone, semundo, SemopLeave, Signal, Continued, Resume, Interrupted, semexit, SemexitEntry,
     SemexitDone

\* The semaphores of a set that exists.
LEMMA SetPlaces ==
    ASSUME FitInv, NEW id \in Ids, semconv(id)
    PROVE  /\ id[1] \in Sets /\ sema[id[1]].alloc /\ sema[id[1]].nsems \in NSems
           /\ sema[id[1]].base \in Nat /\ sema[id[1]].nsems \in Nat /\ sema[id[1]].nsems > 0
           /\ \A n \in Nums : n < sema[id[1]].nsems =>
                 Addr(id[1], n) \in Addrs /\ Addr(id[1], n) \in Span(id[1])
<1>1. id[1] \in Sets /\ sema[id[1]].alloc
  BY DEF Ids, semconv
<1>2. sema[id[1]].nsems \in NSems /\ sema[id[1]].base + sema[id[1]].nsems <= semmns
  BY <1>1 DEF FitInv, Fit, SetsFit
<1>3. sema[id[1]].base \in Nat /\ sema[id[1]].nsems \in Nat /\ sema[id[1]].nsems > 0
  BY <1>1, <1>2, SemAssumption DEF FitInv, TypeInv, TypeOK, SetRecord, Addrs
<1>4. ASSUME NEW n \in Nums, n < sema[id[1]].nsems
      PROVE  Addr(id[1], n) \in Addrs /\ Addr(id[1], n) \in Span(id[1])
  <2>1. n \in Nat
    BY SemAssumption DEF Nums
  <2>2. sema[id[1]].base + n \in 0..(semmns - 1)
    BY <1>2, <1>3, <1>4, <2>1, SemAssumption, InBounds
  <2>3. sema[id[1]].base + n \in Span(id[1])
    BY <1>3, <1>4, <2>1 DEF Span
  <2> QED
    BY <2>2, <2>3 DEF Addr, Addrs
<1> QED
  BY <1>1, <1>2, <1>3, <1>4

\* Sets that exist under different ids are apart.
LEMMA IdsApart ==
    ASSUME FitInv, SetsApart, NEW i \in Ids, NEW id \in Ids, semconv(i), semconv(id), i # id,
           NEW n \in Nums, n < sema[i[1]].nsems
    PROVE  i[1] # id[1] /\ Addr(i[1], n) \notin Span(id[1])
<1>1. i[1] # id[1]
  BY DEF Ids, semconv
<1> QED
  BY <1>1, SetPlaces DEF SetsApart

\* What the pass has done so far, and what SemSpec is shown, with the sums named.
DoneTo(n)   == Tentative(n, PassDone, TRUE)
UndoneTo(n) == Tentative(n, PassDone, FALSE)

LEMMA AbsForms ==
    /\ \A i, n : AbsValue(i, n) = IF n >= sema[i[1]].nsems THEN 0
                                  ELSE sem[Addr(i[1], n)].val - (IF Passing(i) THEN DoneTo(n) ELSE 0)
    /\ AbsAdj = [p \in Procs |-> [e \in Keys |->
                  undo[p][e] + (IF p = cur /\ Passing(e[1]) THEN UndoneTo(e[2]) ELSE 0)]]
BY Zenon DEF AbsValue, AbsAdj, DoneTo, UndoneTo

LEMMA Shown == AbsInv => PassShows /\ FreeShows
<1> SUFFICES ASSUME AbsInv PROVE PassShows /\ FreeShows
  OBVIOUS
<1> USE DEF AbsInv, OKInv, LiveInv, SemaphoresOK
<1>1. /\ undo \in [Procs -> [Keys -> (-semaem)..semaem]]
      /\ \A q \in Procs, e \in Keys : undo[q][e] \in Int
  BY SemAssumption DEF FitInv, TypeInv, TypeOK
<1>2. \A x \in Addrs : sem[x].val \in Int /\ Values[x] = sem[x].val
  BY SemAssumption DEF ValuesInRange, Values
<1>3. \A id \in Ids : sema[id[1]].nsems \in Int
  BY SemAssumption DEF FitInv, TypeInv, TypeOK, SetRecord, Ids
<1>4. Nums \subseteq Int
  BY SemAssumption DEF Nums
<1>5. PassShows
  <2> SUFFICES ASSUME NEW p \in Procs, NEW h, NEW g, InPassing(p), Trace(p, h, g)
               PROVE  Shows(h[0], [undo EXCEPT ![p] = g[0]])
    BY DEF PassShows
  <2> DEFINE d == Done(p)
             id == pr[p].id
  <2>1. cur = p /\ p # NoProc /\ semconv(id) /\ id \in Ids /\ d \in Nat
    BY PlaceFits, SemAssumption DEF InPassing, Serial
  <2>2. PassDone = d /\ \A i : Passing(i) <=> i = id
    BY <2>1 DEF PassDone, Done, Passing, InPassing
  <2>3. AddsUp(p, h, g, semtmp, d)
    <3>1. d \in 0..Done(p)
      BY <2>1
    <3> QED
      BY <3>1, TraceSums
  <2>4. h[d] = Values /\ g[d] = undo[p] /\ h[0] \in [Addrs -> 0..semvmx]
        /\ g[0] \in [Keys -> (-semaem)..semaem]
    <3>1. 0 \in 0..Done(p)
      BY <2>1
    <3> QED
      BY <3>1 DEF Trace
  <2>5. \A n : DoneTo(n) = Total(semtmp, n, d) /\ UndoneTo(n) = Undone(semtmp, n, d)
    <3>1. \A n : Tentative(n, d, TRUE) = Total(semtmp, n, d) /\ Tentative(n, d, FALSE) = Undone(semtmp, n, d)
      BY DEF Tentative, Total, Undone, Abs!Sum
    <3> HIDE DEF d
    <3> QED
      BY <2>2, <3>1, Zenon DEF DoneTo, UndoneTo
  <2>6. \A n : Total(semtmp, n, d) \in Int /\ Undone(semtmp, n, d) \in Int
    <3>1. \A j \in 1..d : semtmp[j] \in Ops
      <4>1. d <= Len(pr[p].ops) /\ Len(pr[p].ops) <= semopm /\ pr[p].ops \in OpLists
        BY PlaceFits
      <4>2. Len(pr[p].ops) \in Nat
        BY <4>1, SemAssumption
      <4>3. \A j \in 1..d : j \in 1..Len(pr[p].ops)
        BY <2>1, <4>1, <4>2
      <4> QED
        BY <4>3, PlaceFits
    <3>2. \A n, all : \A m \in 0..d : Abs!Sum(semtmp, n, m, all) \in Int
      BY <2>1, <3>1, SumSteps
    <3>3. d \in 0..d
      BY <2>1
    <3> QED
      BY <3>2, <3>3 DEF Total, Undone
  <2>7. ASSUME NEW i \in Ids, semconv(i), NEW n \in Nums
        PROVE  AbsValue(i, n) = ValOf(h[0], i, n)
    <3>1. CASE n >= sema[i[1]].nsems
      BY <1>3, <1>4, <3>1, AbsForms DEF ValOf
    <3>2. CASE n < sema[i[1]].nsems
      <4> DEFINE x == Addr(i[1], n)
      <4>1. x \in Addrs
        BY <2>7, <3>2, SetPlaces
      <4>2. AbsValue(i, n) = sem[x].val - (IF Passing(i) THEN DoneTo(n) ELSE 0)
        BY <1>3, <1>4, <3>2, AbsForms
      <4>3. ValOf(h[0], i, n) = h[0][x]
        BY <2>7, <3>2 DEF ValOf
      <4>4. h[0][x] \in Int /\ sem[x].val \in Int /\ sem[x].val = h[d][x]
        BY <1>2, <2>4, <4>1, SemAssumption
      <4>5. CASE i = id
        <5>1. h[d][x] = h[0][x] + Total(semtmp, n, d)
          BY <2>3, <4>1, <4>5 DEF AddsUp
        <5>2. AbsValue(i, n) = sem[x].val - Total(semtmp, n, d)
          BY <2>2, <2>5, <4>2, <4>5
        <5> HIDE DEF x, d
        <5> QED
          BY <2>6, <4>3, <4>4, <5>1, <5>2
      <4>6. CASE i # id
        <5>1. x \notin Span(id[1])
          BY <2>1, <2>7, <3>2, <4>6, IdsApart
        <5>2. h[d][x] = h[0][x]
          BY <2>3, <4>1, <5>1 DEF AddsUp
        <5> QED
          BY <2>2, <4>2, <4>3, <4>4, <4>6, <5>2
      <4> QED
        BY <4>5, <4>6
    <3> QED
      BY <1>3, <1>4, <3>1, <3>2
  <2>8. AbsSets = SetsOf(h[0])
    <3>1. \A i \in Ids, n \in Nums : (IF semconv(i) THEN AbsValue(i, n) ELSE 0) = ValOf(h[0], i, n)
      BY <2>7 DEF ValOf
    <3> QED
      BY <3>1 DEF AbsSets, SetsOf
  <2>9. ASSUME NEW q \in Procs, NEW e \in Keys
        PROVE  undo[q][e] + (IF q = cur /\ Passing(e[1]) THEN UndoneTo(e[2]) ELSE 0)
                 = [undo EXCEPT ![p] = g[0]][q][e]
    <3>1. CASE q = p /\ e[1] = id
      <4>1. e[2] \in Nums /\ e = <<id, e[2]>>
        BY <3>1 DEF Keys
      <4>2. g[d][e] = g[0][e] - Undone(semtmp, e[2], d)
        BY <2>3, <4>1 DEF AddsUp
      <4>3. g[0][e] \in Int
        BY <2>4, SemAssumption
      <4>4. undo[p][e] = g[d][e] /\ [undo EXCEPT ![p] = g[0]][p][e] = g[0][e]
        BY <1>1, <2>4
      <4>5. UndoneTo(e[2]) = Undone(semtmp, e[2], d)
        BY <2>5
      <4> HIDE DEF d
      <4> QED
        BY <2>1, <2>2, <2>6, <3>1, <4>2, <4>3, <4>4, <4>5
    <3>2. CASE q = p /\ e[1] # id
      <4>1. undo[p][e] = g[0][e]
        BY <2>3, <2>4, <3>2 DEF AddsUp
      <4> QED
        BY <1>1, <2>1, <2>2, <3>2, <4>1
    <3>3. CASE q # p
      BY <1>1, <2>1, <3>3
    <3> QED
      BY <3>1, <3>2, <3>3
  <2>10. AbsAdj = [undo EXCEPT ![p] = g[0]]
    <3>1. PICK U : U = [undo EXCEPT ![p] = g[0]]
      OBVIOUS
    <3>2. U = [q \in Procs |-> [e \in Keys |-> U[q][e]]]
      BY <1>1, <2>4, <3>1
    <3>3. AbsAdj = [q \in Procs |-> [e \in Keys |-> U[q][e]]]
      BY <2>9, <3>1, AbsForms
    <3> QED
      BY <3>1, <3>2, <3>3
  <2> QED
    BY <2>8, <2>10 DEF Shows
<1>6. FreeShows
  <2> SUFFICES ASSUME \A p \in Procs : ~InPassing(p) PROVE Shows(Values, undo)
    BY DEF FreeShows
  <2>1. \A i : ~Passing(i)
    BY DEF Passing, InPassing, FitInv, TypeInv, TypeOK
  <2>2. ASSUME NEW i \in Ids, semconv(i), NEW n \in Nums
        PROVE  AbsValue(i, n) = ValOf(Values, i, n)
    <3>1. CASE n >= sema[i[1]].nsems
      BY <1>3, <1>4, <3>1, AbsForms DEF ValOf
    <3>2. CASE n < sema[i[1]].nsems
      <4>1. Addr(i[1], n) \in Addrs
        BY <2>2, <3>2, SetPlaces
      <4>2. AbsValue(i, n) = sem[Addr(i[1], n)].val - 0
        BY <1>3, <1>4, <2>1, <3>2, AbsForms
      <4> QED
        BY <1>2, <2>2, <3>2, <4>1, <4>2 DEF ValOf
    <3> QED
      BY <1>3, <1>4, <3>1, <3>2
  <2>3. AbsSets = SetsOf(Values)
    <3>1. \A i \in Ids, n \in Nums : (IF semconv(i) THEN AbsValue(i, n) ELSE 0) = ValOf(Values, i, n)
      BY <2>2 DEF ValOf
    <3> QED
      BY <3>1 DEF AbsSets, SetsOf
  <2>4. \A q \in Procs, e \in Keys :
          undo[q][e] + (IF q = cur /\ Passing(e[1]) THEN UndoneTo(e[2]) ELSE 0)
            = undo[q][e]
    BY <1>1, <2>1
  <2>5. AbsAdj = undo
    <3>1. undo = [q \in Procs |-> [e \in Keys |-> undo[q][e]]]
      BY <1>1
    <3>2. AbsAdj = [q \in Procs |-> [e \in Keys |-> undo[q][e]]]
      BY <2>4, AbsForms
    <3> QED
      BY <3>1, <3>2
  <2> QED
    BY <2>3, <2>5 DEF Shows
<1> QED
  BY <1>5, <1>6

\* What SemSpec has for sets depends on nothing else than sema[].
LEMMA SetsOfSame == ASSUME UNCHANGED sema PROVE \A f : SetsOf(f)' = SetsOf(f)
BY DEF SetsOf, ValOf, semconv, Addr

\* Functions of ids that agree everywhere, and where they differ.
LEMMA SetChanges ==
    ASSUME NEW S, NEW T, S = [i \in Ids |-> S[i]], T = [i \in Ids |-> T[i]],
           NEW id \in Ids, \A i \in Ids : i # id => T[i] = S[i]
    PROVE  T = [S EXCEPT ![id] = T[id]]
<1>1. \A i \in Ids : T[i] = [S EXCEPT ![id] = T[id]][i]
  OBVIOUS
<1>2. [S EXCEPT ![id] = T[id]] = [i \in Ids |-> [S EXCEPT ![id] = T[id]][i]]
  OBVIOUS
<1> QED
  BY <1>1, <1>2

AbsStep == Abs!Next \/ UNCHANGED <<AbsSets, AbsAdj>>

\* The state of SemSpec with nobody in a pass, before and after a step.
LEMMA FreeStates ==
    ASSUME AbsInv, AbsInv', \A p \in Procs : ~InPassing(p), \A p \in Procs : ~InPassing(p)'
    PROVE  /\ AbsSets = SetsOf(Values) /\ AbsAdj = undo
           /\ AbsSets' = SetsOf(Values)' /\ AbsAdj' = undo'
<1>1. FreeShows
  BY Shown
<1>2. FreeShows'
  BY Shown, PTL
<1> QED
  BY <1>1, <1>2 DEF FreeShows, Shows

\* The steps of a pass, but for its successful end, are nothing to SemSpec.
LEMMA PassBegins ==
    ASSUME AbsInv, AbsInv', [Next]_vars, \A q \in Procs : ~InPassing(q), NEW p \in Procs, InPassing(p)'
    PROVE  UNCHANGED <<AbsSets, AbsAdj>>
<1> USE DEF AbsInv, OKInv, LiveInv, SemaphoresOK
<1>1. Done(p)' = 0 /\ UNCHANGED <<sema, sem, undo, holds>>
  BY PassStarts
<1>2. PICK v, a, u : v = Values' /\ a = undo'[p] /\ u = undo
  OBVIOUS
<1>3. PICK H, G : H = [k \in 0..0 |-> v] /\ G = [k \in 0..0 |-> a]
  OBVIOUS
<1>4. Trace(p, H, G)'
  <2>1. Trace(p, [k \in 0..0 |-> v], [k \in 0..0 |-> a])'
    BY <1>1, <1>2, TraceBegins DEF FitInv, TypeInv
  <2> QED
    BY <1>3, <2>1
<1>5. FreeShows
  BY Shown
<1>6. PassShows'
  BY Shown, PTL
<1>7. AbsSets = SetsOf(v) /\ AbsAdj = u
  <2>1. v = Values
    BY <1>1, <1>2 DEF Values
  <2> QED
    BY <1>2, <1>5, <2>1 DEF FreeShows, Shows
<1>8. AbsSets' = SetsOf(v)' /\ AbsAdj' = u
  <2>1. H[0] = v /\ G[0] = a
    BY <1>3
  <2>2. AbsSets' = SetsOf(H[0])' /\ AbsAdj' = [undo' EXCEPT ![p] = G[0]]
    BY <1>4, <1>6 DEF PassShows, Shows
  <2>3. [undo' EXCEPT ![p] = a] = u
    BY <1>1, <1>2 DEF FitInv, TypeInv, TypeOK
  <2> QED
    BY <2>1, <2>2, <2>3
<1> QED
  BY <1>1, <1>7, <1>8, SetsOfSame

LEMMA PassGoesOn ==
    ASSUME AbsInv, AbsInv', [Next]_vars, NEW p \in Procs, InPassing(p), InPassing(p)'
    PROVE  UNCHANGED <<AbsSets, AbsAdj>>
<1> USE DEF AbsInv, OKInv, LiveInv, SemaphoresOK
<1>1. PICK h, g : Trace(p, h, g)
  BY DEF PassInv
<1>2. UNCHANGED sema /\ \A q \in Procs \ {p} : undo'[q] = undo[q]
  BY <1>1, TraceStep
<1>3. PICK H, G : Trace(p, H, G)' /\ H[0] = h[0] /\ G[0] = g[0]
  BY <1>1, TraceStep
<1>4. PassShows
  BY Shown
<1>5. PassShows'
  BY Shown, PTL
<1>6. PICK f, a : f = h[0] /\ a = g[0]
  OBVIOUS
<1>7. AbsSets = SetsOf(f) /\ AbsAdj = [undo EXCEPT ![p] = a]
  BY <1>1, <1>4, <1>6 DEF PassShows, Shows
<1>8. AbsSets' = SetsOf(f)' /\ AbsAdj' = [undo' EXCEPT ![p] = a]
  <2>1. H[0] = f /\ G[0] = a
    BY <1>3, <1>6
  <2>2. AbsSets' = SetsOf(H[0])' /\ AbsAdj' = [undo' EXCEPT ![p] = G[0]]
    BY <1>3, <1>5 DEF PassShows, Shows
  <2> QED
    BY <2>1, <2>2
<1>9. [undo' EXCEPT ![p] = a] = [undo EXCEPT ![p] = a]
  <2>1. PICK U, W : U = [undo EXCEPT ![p] = a] /\ W = [undo' EXCEPT ![p] = a]
    OBVIOUS
  <2>2. U = [q \in Procs |-> IF q = p THEN a ELSE undo[q]]
        /\ W = [q \in Procs |-> IF q = p THEN a ELSE undo'[q]]
    BY <2>1 DEF FitInv, TypeInv, TypeOK
  <2> QED
    BY <1>2, <2>1, <2>2
<1> QED
  BY <1>2, <1>7, <1>8, <1>9, SetsOfSame

\* The end of a pass in which all is taken back.
LEMMA PassLeaves ==
    ASSUME AbsInv, AbsInv', [Next]_vars, NEW p \in Procs, InPassing(p), ~InPassing(p)', SemopLeave(p)
    PROVE  UNCHANGED <<AbsSets, AbsAdj>>
<1> USE DEF AbsInv, OKInv, LiveInv, SemaphoresOK
<1>1. PICK h, g : Trace(p, h, g)
  BY DEF PassInv
<1>2. PICK f, a, u : f = h[0] /\ a = g[0] /\ u = undo
  OBVIOUS
<1>3. f = Values /\ a = undo[p]
  <2>1. Done(p) = 0
    BY DEF SemopLeave, Doing, Done
  <2> QED
    BY <1>1, <1>2, <2>1 DEF Trace
<1>4. AbsSets = SetsOf(f) /\ AbsAdj = [undo EXCEPT ![p] = a]
  <2>1. PassShows
    BY Shown
  <2> QED
    BY <1>1, <1>2, <2>1 DEF PassShows, Shows
<1>5. UNCHANGED <<sema, undo>> /\ Values' = f
  BY <1>3, PassEnds DEF Values
<1>6. AbsSets' = SetsOf(f)' /\ AbsAdj' = u
  <2>1. FreeShows'
    BY Shown, PTL
  <2>2. \A q \in Procs : ~InPassing(q)'
    BY OnlyPass
  <2> QED
    BY <1>2, <1>5, <2>1, <2>2 DEF FreeShows, Shows
<1>7. [undo EXCEPT ![p] = a] = u
  BY <1>2, <1>3 DEF FitInv, TypeInv, TypeOK
<1> QED
  BY <1>4, <1>5, <1>6, <1>7, SetsOfSame

\* The end of a pass in which all is done.
LEMMA DoneOperates ==
    ASSUME AbsInv, AbsInv', [Next]_vars, NEW p \in Procs, InPassing(p), ~InPassing(p)', SemopDone(p)
    PROVE  Abs!Operate(p, pr[p].id, pr[p].ops)
<1> USE DEF AbsInv, OKInv, LiveInv, SemaphoresOK
<1> DEFINE id == pr[p].id
           ops == pr[p].ops
           d == Done(p)
<1>1. /\ id \in Ids /\ semconv(id) /\ ops \in OpLists /\ DOMAIN ops = 1..Len(ops)
      /\ Len(ops) \in Nat /\ d = Len(ops)
      /\ \A j \in 1..Len(ops) : /\ ops[j] \in Ops /\ semtmp[j] = ops[j]
                                /\ ops[j].num \in Nums /\ ops[j].num < sema[id[1]].nsems
                                /\ Place(p, j) = Addr(id[1], ops[j].num)
                                /\ Place(p, j) \in Addrs
  <2>1. ops \in OpLists /\ DOMAIN ops = 1..Len(ops) /\ d <= Len(ops) /\ d \in Nat /\ Len(ops) <= semopm
        /\ id \in Ids
    BY PlaceFits
  <2>2. Len(ops) \in Nat /\ \A j \in 1..Len(ops) : ops[j] \in Ops /\ ops[j].num \in Nums
    <3>1. Len(ops) \in Nat /\ \A j \in 1..Len(ops) : ops[j] \in Ops
      BY <2>1, SemAssumption
    <3> QED
      BY <3>1 DEF Ops
  <2>3. d = Len(ops)
    <3>1. pr[p].i \in Nat /\ ~(pr[p].i <= Len(ops)) /\ d = pr[p].i - 1
      BY DEF SemopDone, Doing, More, Done, FitInv, TypeInv, TypeOK, ProcRecord
    <3> QED
      BY <2>1, <2>2, <3>1
  <2>4. semconv(id)
    BY DEF InPassing, Serial
  <2>5. \A j \in 1..Len(ops) : semtmp[j] = ops[j]
    BY <2>1 DEF AreaOwn
  <2> QED
    BY <2>1, <2>2, <2>3, <2>4, <2>5, PlaceFits DEF Place
<1>2. PICK h, g : Trace(p, h, g)
  BY DEF PassInv
<1>3. PICK f, a, F, u : f = h[0] /\ a = g[0] /\ F = Values /\ u = undo
  OBVIOUS
<1>4. PICK S, T, A : S = SetsOf(f) /\ T = SetsOf(F) /\ A = [u EXCEPT ![p] = a]
  OBVIOUS
<1>5. AbsSets = S /\ AbsAdj = A
  <2>1. PassShows
    BY Shown
  <2> QED
    BY <1>2, <1>3, <1>4, <2>1 DEF PassShows, Shows
<1>6. AbsSets' = T /\ AbsAdj' = u
  <2>1. FreeShows'
    BY Shown, PTL
  <2>2. \A q \in Procs : ~InPassing(q)'
    BY OnlyPass
  <2>3. UNCHANGED <<sema, undo>> /\ Values' = F
    BY <1>3, PassEnds DEF Values
  <2>4. SetsOf(F)' = SetsOf(F)
    BY <2>3, SetsOfSame
  <2> QED
    BY <1>3, <1>4, <2>1, <2>2, <2>3, <2>4 DEF FreeShows, Shows
<1>7. /\ \A k \in 0..d : AddsUp(p, h, g, ops, k) /\ h[k] \in [Addrs -> 0..semvmx]
      /\ h[d] = F /\ g[d] = u[p] /\ F \in [Addrs -> 0..semvmx] /\ f \in [Addrs -> 0..semvmx]
      /\ a \in [Keys -> (-semaem)..semaem] /\ u \in [Procs -> [Keys -> (-semaem)..semaem]]
      /\ \A j \in 1..d : Fits(ops[j], h[j - 1][Place(p, j)])
  <2>1. \A j \in 1..Done(p) : ops[j] = semtmp[j]
    BY <1>1
  <2>2. \A k \in 0..d : AddsUp(p, h, g, ops, k)
    <3> HIDE DEF ops
    <3> QED
      BY <1>2, <2>1, TraceSums
  <2>3. 0 \in 0..d /\ d \in 0..d
    BY <1>1
  <2>4. u \in [Procs -> [Keys -> (-semaem)..semaem]]
    BY <1>3 DEF FitInv, TypeInv, TypeOK
  <2>5. \A j \in 1..d : Fits(ops[j], h[j - 1][Place(p, j)])
    BY <1>2, <2>1 DEF Trace
  <2>6. h[d] = F /\ g[d] = u[p] /\ \A k \in 0..d : h[k] \in [Addrs -> 0..semvmx] /\ g[k] \in [Keys -> (-semaem)..semaem]
    BY <1>2, <1>3 DEF Trace
  <2> QED
    BY <1>3, <2>2, <2>3, <2>4, <2>5, <2>6
<1>8. /\ \A n, all : Abs!Sum(ops, n, 0, all) = 0
      /\ \A n : \A m \in 0..d : Total(ops, n, m) \in Int /\ Undone(ops, n, m) \in Int
      /\ \A n : n >= sema[id[1]].nsems => Total(ops, n, d) = 0
  <2>1. /\ \A n, all : Abs!Sum(ops, n, 0, all) = 0
        /\ \A n, all : \A m \in 0..Len(ops) : Abs!Sum(ops, n, m, all) \in Int
    <3>1. Len(ops) \in Nat /\ \A j \in 1..Len(ops) : ops[j] \in Ops
      BY <1>1
    <3> HIDE DEF ops
    <3>2. \A n, all : Abs!Sum(ops, n, 0, all) = 0
      BY <3>1, SumSteps
    <3>3. \A n, all : \A m \in 0..Len(ops) : Abs!Sum(ops, n, m, all) \in Int
      BY <3>1, SumSteps
    <3> QED
      BY <3>2, <3>3
  <2>2. \A n : \A m \in 0..d : Total(ops, n, m) \in Int /\ Undone(ops, n, m) \in Int
    BY <1>1, <2>1 DEF Total, Undone
  <2>3. ASSUME NEW n, n >= sema[id[1]].nsems PROVE Total(ops, n, d) = 0
    <3>1. \A j \in 1..d : ops[j].num # n
      <4>1. sema[id[1]].nsems \in Nat
        BY <1>1, SetPlaces
      <4>2. \A j \in 1..d : ops[j].num \in Nat
        BY <1>1, SemAssumption DEF Nums
      <4> QED
        BY <1>1, <2>3, <4>1, <4>2
    <3>2. d \in 0..Len(ops)
      BY <1>1
    <3>3. \A all : Abs!Sum(ops, n, d, all) = 0
      BY <1>1, <3>1, <3>2, SumZero
    <3> QED
      BY <3>3 DEF Total
  <2> QED
    BY <2>1, <2>2, <2>3
<1>9. ASSUME NEW n \in Nums
      PROVE  /\ ValOf(F, id, n) = ValOf(f, id, n) + Total(ops, n, d)
             /\ ValOf(F, id, n) \in 0..semvmx
  <2>1. sema[id[1]].nsems \in Nat /\ n \in Nat
    BY <1>1, SetPlaces, SemAssumption DEF Nums
  <2>2. CASE n < sema[id[1]].nsems
    <3>1. Addr(id[1], n) \in Addrs
      BY <1>1, <2>2, SetPlaces
    <3>2. h[d][Addr(id[1], n)] = h[0][Addr(id[1], n)] + Total(ops, n, d)
      <4>1. AddsUp(p, h, g, ops, d)
        BY <1>1, <1>7
      <4> QED
        BY <3>1, <4>1 DEF AddsUp
    <3> QED
      BY <1>1, <1>3, <1>7, <2>2, <3>1, <3>2 DEF ValOf
  <2>3. CASE n >= sema[id[1]].nsems
    <3>1. ValOf(F, id, n) = 0 /\ ValOf(f, id, n) = 0
      BY <2>1, <2>3 DEF ValOf
    <3> QED
      BY <1>8, <2>3, <3>1, SemAssumption
  <2> QED
    BY <2>1, <2>2, <2>3
<1>10. ASSUME NEW i \in Ids, i # id PROVE T[i] = S[i]
  <2>1. ASSUME NEW n \in Nums PROVE ValOf(F, i, n) = ValOf(f, i, n)
    <3>1. CASE semconv(i) /\ n < sema[i[1]].nsems
      <4>1. Addr(i[1], n) \notin Span(id[1]) /\ Addr(i[1], n) \in Addrs
        BY <1>1, <1>10, <3>1, IdsApart, SetPlaces
      <4>2. AddsUp(p, h, g, ops, d)
        BY <1>1, <1>7
      <4>3. h[d][Addr(i[1], n)] = h[0][Addr(i[1], n)]
        BY <4>1, <4>2 DEF AddsUp
      <4> QED
        BY <1>3, <1>7, <4>3 DEF ValOf
    <3>2. CASE ~(semconv(i) /\ n < sema[i[1]].nsems)
      BY <3>2 DEF ValOf
    <3> QED
      BY <3>1, <3>2
  <2> QED
    BY <1>4, <2>1 DEF SetsOf
<1>11. /\ S[id] = [size |-> sema[id[1]].nsems, val |-> [n \in Nums |-> ValOf(f, id, n)]]
       /\ T[id] = [size |-> sema[id[1]].nsems, val |-> [n \in Nums |-> ValOf(F, id, n)]]
       /\ S = [i \in Ids |-> S[i]] /\ T = [i \in Ids |-> T[i]]
  BY <1>1, <1>4 DEF SetsOf
<1>12. \A j \in DOMAIN ops : ops[j].num \in Abs!Members(id)
  BY <1>1, <1>5, <1>11 DEF Abs!Members
<1>13. Abs!CanProceed(AbsSets[id].val, ops)
  <2> SUFFICES ASSUME NEW j \in DOMAIN ops PROVE ~Abs!Waits(AbsSets[id].val, ops, j)
    BY DEF Abs!CanProceed
  <2> DEFINE o == ops[j]
             x == Place(p, j)
  <2>1. j \in 1..d /\ j - 1 \in 0..d /\ o.num \in Nums /\ x \in Addrs /\ x = Addr(id[1], o.num)
        /\ o.num < sema[id[1]].nsems /\ o.op \in Int
    BY <1>1 DEF Ops
  <2>2. PICK t, v : t = Total(ops, o.num, j - 1) /\ v = AbsSets[id].val[o.num]
    OBVIOUS
  <2>3. v = f[x] /\ f[x] \in Int /\ t \in Int
    <3>1. v = ValOf(f, id, o.num)
      BY <1>5, <1>11, <2>1, <2>2
    <3>2. ValOf(f, id, o.num) = f[x]
      BY <1>1, <2>1 DEF ValOf
    <3>3. f[x] \in Int
      BY <1>7, <2>1, SemAssumption
    <3>4. t \in Int
      BY <1>8, <2>1, <2>2
    <3> QED
      BY <3>1, <3>2, <3>3, <3>4
  <2>4. h[j - 1][x] = v + t
    <3>1. AddsUp(p, h, g, ops, j - 1)
      BY <1>7, <2>1
    <3> QED
      BY <1>3, <2>1, <2>2, <2>3, <3>1 DEF AddsUp
  <2>5. Fits(o, v + t)
    BY <1>7, <2>1, <2>4
  <2>6. t = Abs!Sum(ops, ops[j].num, j - 1, TRUE)
    BY <2>2 DEF Total
  <2>7. Abs!Waits(AbsSets[id].val, ops, j) <=> (o.op < 0 /\ v + t < -o.op) \/ (o.op = 0 /\ v + t # 0)
    BY <2>2, <2>6 DEF Abs!Waits
  <2> HIDE DEF o, x
  <2> QED
    BY <2>1, <2>3, <2>5, <2>7 DEF Fits
<1>14. T = [S EXCEPT ![id].val = [n \in Nums |-> @[n] + Abs!Sum(ops, n, Len(ops), TRUE)]]
  <2>1. PICK w : w = [n \in Nums |-> ValOf(f, id, n) + Total(ops, n, d)]
    OBVIOUS
  <2>2. T = [S EXCEPT ![id] = T[id]]
    BY <1>1, <1>10, <1>11, SetChanges
  <2>3. T[id] = [S[id] EXCEPT !.val = w]
    <3>1. w = [n \in Nums |-> ValOf(F, id, n)]
      BY <1>9, <2>1
    <3> QED
      BY <1>11, <3>1
  <2>4. w = [n \in Nums |-> S[id].val[n] + Abs!Sum(ops, n, Len(ops), TRUE)]
    <3>1. \A n \in Nums : S[id].val[n] = ValOf(f, id, n)
      BY <1>11
    <3>2. \A n : Abs!Sum(ops, n, Len(ops), TRUE) = Total(ops, n, d)
      BY <1>1, Zenon DEF Total
    <3> QED
      BY <2>1, <3>1, <3>2
  <2>5. [S EXCEPT ![id] = [S[id] EXCEPT !.val = w]] = [S EXCEPT ![id].val = w]
    BY <1>1, <1>11
  <2>6. [S EXCEPT ![id].val = [n \in Nums |-> S[id].val[n] + Abs!Sum(ops, n, Len(ops), TRUE)]]
          = [S EXCEPT ![id].val = [n \in Nums |-> @[n] + Abs!Sum(ops, n, Len(ops), TRUE)]]
    OBVIOUS
  <2> QED
    BY <2>2, <2>3, <2>4, <2>5, <2>6
<1>15. \A n \in Nums : T[id].val[n] \in 0..semvmx
  BY <1>9, <1>11
<1>16. u = [A EXCEPT ![p] = [e \in Ids \X Nums |->
                IF e[1] = id THEN @[e] - Abs!Sum(ops, e[2], Len(ops), FALSE) ELSE @[e]]]
  <2>1. PICK w : w = [e \in Keys |-> IF e[1] = id THEN a[e] - Undone(ops, e[2], d) ELSE a[e]]
    OBVIOUS
  <2>2. \A e \in Keys : u[p][e] = w[e]
    <3> SUFFICES ASSUME NEW e \in Keys PROVE u[p][e] = w[e]
      OBVIOUS
    <3>1. AddsUp(p, h, g, ops, d)
      BY <1>1, <1>7
    <3>2. CASE e[1] = id
      <4>1. e[2] \in Nums /\ e = <<id, e[2]>>
        BY <3>2 DEF Keys
      <4>2. g[d][<<id, e[2]>>] = g[0][<<id, e[2]>>] - Undone(ops, e[2], d)
        BY <3>1, <4>1 DEF AddsUp
      <4> HIDE DEF d, id, ops
      <4> QED
        BY <1>3, <1>7, <2>1, <3>2, <4>1, <4>2
    <3>3. CASE e[1] # id
      BY <1>3, <1>7, <2>1, <3>1, <3>3 DEF AddsUp
    <3> QED
      BY <3>2, <3>3
  <2>3. u[p] = w
    <3>1. u[p] = [e \in Keys |-> u[p][e]] /\ w = [e \in Keys |-> w[e]]
      BY <1>7, <2>1
    <3> QED
      BY <2>2, <3>1
  <2>4. A[p] = a /\ [A EXCEPT ![p] = w] = u
    BY <1>4, <1>7, <2>3
  <2>5. w = [e \in Ids \X Nums |->
               IF e[1] = id THEN A[p][e] - Abs!Sum(ops, e[2], Len(ops), FALSE) ELSE A[p][e]]
    <3>1. \A n : Abs!Sum(ops, n, Len(ops), FALSE) = Undone(ops, n, d)
      BY <1>1, Zenon DEF Undone
    <3> HIDE DEF d, id, ops
    <3> QED
      BY <2>1, <2>4, <3>1 DEF Keys
  <2> QED
    BY <2>4, <2>5
<1> HIDE DEF id, ops, d
<1>17. Abs!Operate(p, id, ops)
  BY <1>5, <1>6, <1>12, <1>13, <1>14, <1>15, <1>16, Zenon DEF Abs!Operate
<1> QED
  BY <1>17 DEF id, ops

\* The steps that leave sets, values and adjustments alone.
LEMMA QuietStep ==
    ASSUME AbsInv, AbsInv', \A p \in Procs : ~InPassing(p), \A p \in Procs : ~InPassing(p)',
           UNCHANGED <<sema, undo>>, \A x \in Addrs : sem'[x].val = sem[x].val
    PROVE  UNCHANGED <<AbsSets, AbsAdj>>
<1>1. PICK f : f = Values
  OBVIOUS
<1>2. Values' = f
  BY <1>1 DEF Values
<1> QED
  BY <1>1, <1>2, FreeStates, SetsOfSame

\* What SemSpec is shown of a set.
Image(f, i) ==
    [size |-> IF semconv(i) THEN sema[i[1]].nsems ELSE 0,
     val |-> [n \in Nums |-> IF semconv(i) /\ n < sema[i[1]].nsems THEN f[sema[i[1]].base + n] ELSE 0]]

LEMMA Images ==
    \A f : /\ \A i \in Ids : SetsOf(f)[i] = Image(f, i)
           /\ SetsOf(f) = [j \in Ids |-> SetsOf(f)[j]]
BY DEF SetsOf, ValOf, Addr, Image

\* semget() finds values of zero.
LEMMA GetCreates ==
    ASSUME AbsInv, AbsInv', \A p \in Procs : ~InPassing(p), \A p \in Procs : ~InPassing(p)',
           NEW s \in Sets, semget(s)
    PROVE  \E id \in Ids : Abs!Create(id)
<1> USE DEF AbsInv, OKInv, LiveInv, SemaphoresOK
<1>1. PICK f, S, T : f = Values /\ S = SetsOf(f) /\ T = SetsOf(f)'
  OBVIOUS
<1>0. /\ \A i \in Ids : S[i] = Image(f, i) /\ T[i] = Image(f, i)'
      /\ S = [i \in Ids |-> S[i]] /\ T = [i \in Ids |-> T[i]]
  <2>1. \A i \in Ids : S[i] = Image(f, i)
    BY <1>1, Images
  <2>2. S = [i \in Ids |-> S[i]]
    BY <1>1, Images
  <2>3. /\ \A i \in Ids : SetsOf(f)'[i] = Image(f, i)'
        /\ SetsOf(f)' = [j \in Ids |-> SetsOf(f)'[j]]
    BY DEF SetsOf, ValOf, Addr, Image
  <2> QED
    BY <1>1, <2>1, <2>2, <2>3
<1>2. AbsSets = S /\ AbsSets' = T /\ UNCHANGED AbsAdj
  <2>1. UNCHANGED <<sem, undo>> /\ Values' = f
    BY <1>1 DEF semget, Values
  <2> QED
    BY <1>1, <2>1, FreeStates
<1>3. sema \in [Sets -> SetRecord]
  BY DEF FitInv, TypeInv, TypeOK
<1>4. PICK k \in NSems, b \in Addrs :
         /\ b + k <= semmns
         /\ \A t \in Sets : sema[t].alloc => Span(t) \cap (b .. (b + k - 1)) = {}
         /\ sema' = [sema EXCEPT ![s].alloc = TRUE, ![s].base = b, ![s].nsems = k]
  BY DEF semget
<1>5. /\ \A t \in Sets : t # s => sema'[t] = sema[t]
      /\ ~sema[s].alloc /\ sema'[s].alloc /\ sema'[s].base = b /\ sema'[s].nsems = k
      /\ sema'[s].seq = sema[s].seq
  BY <1>3, <1>4 DEF semget, SetRecord
<1>6. PICK id \in Ids : id[1] = s /\ id[2] = sema[s].seq
  <2>1. <<s, sema[s].seq>> \in Ids
    BY <1>3 DEF SetRecord, Ids
  <2> QED
    BY <2>1
<1>7. ~semconv(id) /\ semconv(id)'
  BY <1>5, <1>6 DEF semconv
<1>8. ASSUME NEW i \in Ids, i # id PROVE T[i] = S[i]
  <2>1. CASE i[1] = s
    <3>1. ~semconv(i) /\ ~semconv(i)'
      BY <1>5, <1>6, <1>8, <2>1 DEF semconv, Ids
    <3> QED
      BY <1>0, <3>1 DEF Image
  <2>2. CASE i[1] # s
    <3>1. sema'[i[1]] = sema[i[1]]
      BY <1>5, <2>2 DEF Ids
    <3>2. semconv(i)' <=> semconv(i)
      BY <3>1 DEF semconv
    <3>3. PICK z, a : z = sema[i[1]].nsems /\ a = sema[i[1]].base
      OBVIOUS
    <3>4. T[i] = [size |-> IF semconv(i) THEN z ELSE 0,
                  val |-> [n \in Nums |-> IF semconv(i) /\ n < z THEN f[a + n] ELSE 0]]
      BY <1>0, <3>1, <3>2, <3>3 DEF Image
    <3>5. S[i] = [size |-> IF semconv(i) THEN z ELSE 0,
                  val |-> [n \in Nums |-> IF semconv(i) /\ n < z THEN f[a + n] ELSE 0]]
      BY <1>0, <3>3 DEF Image
    <3> QED
      BY <3>4, <3>5
  <2> QED
    BY <2>1, <2>2
<1>9. S[id] = Abs!NoSet
  BY <1>0, <1>7 DEF Image, Abs!NoSet, Abs!Zeros
<1>10. T[id] = [S[id] EXCEPT !.size = k]
  <2>1. \A n \in Nums : n < k => f[b + n] = 0
    <3> SUFFICES ASSUME NEW n \in Nums, n < k PROVE f[b + n] = 0
      OBVIOUS
    <3>1. b \in Nat /\ n \in Nat /\ k \in Nat
      BY SemAssumption DEF Addrs, Nums
    <3>2. b + n \in Addrs /\ b + n \in b .. (b + k - 1)
      BY <1>4, <3>1, SemAssumption DEF Addrs
    <3>3. sem[b + n] = [val |-> 0, ncnt |-> 0, zcnt |-> 0]
      BY <1>4, <3>2 DEF FreeIsClear
    <3> QED
      BY <1>1, <3>2, <3>3 DEF Values
  <2>2. T[id] = [size |-> k, val |-> [n \in Nums |-> IF n < k THEN f[b + n] ELSE 0]]
    BY <1>0, <1>5, <1>6, <1>7 DEF Image
  <2>3. T[id] = [size |-> k, val |-> [n \in Nums |-> 0]]
    BY <2>1, <2>2
  <2> QED
    BY <1>9, <2>3 DEF Abs!NoSet, Abs!Zeros
<1>11. T = [S EXCEPT ![id].size = k]
  <2>1. S = [i \in Ids |-> S[i]] /\ T = [i \in Ids |-> T[i]]
    BY <1>0
  <2>2. T = [S EXCEPT ![id] = T[id]]
    BY <1>8, <2>1, SetChanges
  <2> QED
    BY <1>10, <2>1, <2>2
<1> QED
  BY <1>2, <1>9, <1>11 DEF Abs!Create

LEMMA RemoveRemoves ==
    ASSUME AbsInv, AbsInv', \A p \in Procs : ~InPassing(p), \A p \in Procs : ~InPassing(p)',
           NEW id \in Ids, semctlRMID(id)
    PROVE  Abs!Remove(id)
<1> USE DEF AbsInv, OKInv, LiveInv, SemaphoresOK
<1>1. PICK f, F, S, T : f = Values /\ F = Values' /\ S = SetsOf(f) /\ T = SetsOf(F)'
  OBVIOUS
<1>0. /\ \A i \in Ids : S[i] = Image(f, i) /\ T[i] = Image(F, i)'
      /\ S = [i \in Ids |-> S[i]] /\ T = [i \in Ids |-> T[i]]
  <2>1. \A i \in Ids : S[i] = Image(f, i)
    BY <1>1, Images
  <2>2. S = [i \in Ids |-> S[i]]
    BY <1>1, Images
  <2>3. /\ \A i \in Ids : SetsOf(F)'[i] = Image(F, i)'
        /\ SetsOf(F)' = [j \in Ids |-> SetsOf(F)'[j]]
    BY DEF SetsOf, ValOf, Addr, Image
  <2> QED
    BY <1>1, <2>1, <2>2, <2>3
<1>2. AbsSets = S /\ AbsSets' = T /\ AbsAdj = undo /\ AbsAdj' = undo'
  BY <1>1, FreeStates
<1>3. sema \in [Sets -> SetRecord] /\ semconv(id) /\ id[1] \in Sets
  BY DEF FitInv, TypeInv, TypeOK, Ids, semctlRMID
<1>4. /\ \A t \in Sets : t # id[1] => sema'[t] = sema[t]
      /\ ~sema'[id[1]].alloc
  BY <1>3 DEF semctlRMID, SetRecord
<1>5. S[id] # Abs!NoSet
  <2>1. S[id].size = sema[id[1]].nsems
    BY <1>0, <1>3 DEF Image
  <2> QED
    BY <1>3, <2>1, SetPlaces DEF Abs!NoSet
<1>6. T[id] = Abs!NoSet
  <2>1. ~semconv(id)'
    BY <1>4 DEF semconv
  <2> QED
    BY <1>0, <2>1 DEF Image, Abs!NoSet, Abs!Zeros
<1>7. ASSUME NEW i \in Ids, i # id PROVE T[i] = S[i]
  <2>1. CASE i[1] = id[1]
    <3>1. ~semconv(i) /\ ~semconv(i)'
      BY <1>3, <1>4, <1>7, <2>1 DEF semconv, Ids
    <3> QED
      BY <1>0, <3>1 DEF Image
  <2>2. CASE i[1] # id[1]
    <3>1. sema'[i[1]] = sema[i[1]]
      BY <1>4, <2>2 DEF Ids
    <3>2. semconv(i)' <=> semconv(i)
      BY <3>1 DEF semconv
    <3>3. ASSUME NEW n \in Nums, semconv(i), n < sema[i[1]].nsems
          PROVE  F[sema[i[1]].base + n] = f[sema[i[1]].base + n]
      <4>1. sema[i[1]].base + n \in Addrs /\ sema[i[1]].base + n \notin Span(id[1])
        BY <1>3, <1>7, <3>3, SetPlaces, IdsApart DEF Addr
      <4>2. sem'[sema[i[1]].base + n] = sem[sema[i[1]].base + n]
        BY <4>1 DEF semctlRMID
      <4> QED
        BY <1>1, <4>1, <4>2 DEF Values
    <3>4. PICK z, b : z = sema[i[1]].nsems /\ b = sema[i[1]].base
      OBVIOUS
    <3>5. \A n \in Nums : (IF semconv(i) /\ n < z THEN F[b + n] ELSE 0)
                           = (IF semconv(i) /\ n < z THEN f[b + n] ELSE 0)
      BY <3>3, <3>4
    <3>6. T[i] = [size |-> IF semconv(i) THEN z ELSE 0,
                  val |-> [n \in Nums |-> IF semconv(i) /\ n < z THEN F[b + n] ELSE 0]]
      BY <1>0, <3>1, <3>2, <3>4 DEF Image
    <3>7. S[i] = [size |-> IF semconv(i) THEN z ELSE 0,
                  val |-> [n \in Nums |-> IF semconv(i) /\ n < z THEN f[b + n] ELSE 0]]
      BY <1>0, <3>4 DEF Image
    <3> QED
      BY <3>5, <3>6, <3>7
  <2> QED
    BY <2>1, <2>2
<1>8. T = [S EXCEPT ![id] = Abs!NoSet]
  <2>1. S = [i \in Ids |-> S[i]] /\ T = [i \in Ids |-> T[i]]
    BY <1>0
  <2> QED
    BY <1>6, <1>7, <2>1, SetChanges
<1>9. undo' = Abs!Forget(id, Nums)
  BY <1>2 DEF semctlRMID, semunrm, Abs!Forget, Keys
<1> QED
  BY <1>2, <1>5, <1>8, <1>9 DEF Abs!Remove

\* SETVAL and SETALL.
LEMMA AssignAssigns ==
    ASSUME AbsInv, AbsInv', \A p \in Procs : ~InPassing(p), \A p \in Procs : ~InPassing(p)',
           NEW id \in Ids, NEW N \in {Members(id)} \cup {{n} : n \in Members(id)},
           NEW v \in [N -> SemVals], Assign(id, N, v)
    PROVE  Abs!Assign(id)
<1> USE DEF AbsInv, OKInv, LiveInv, SemaphoresOK
<1>1. PICK f, F, S, T : f = Values /\ F = Values' /\ S = SetsOf(f) /\ T = SetsOf(F)
  OBVIOUS
<1>0. /\ \A i \in Ids : S[i] = Image(f, i) /\ T[i] = Image(F, i)
      /\ S = [i \in Ids |-> S[i]] /\ T = [i \in Ids |-> T[i]]
  BY <1>1, Images
<1>2. AbsSets = S /\ AbsSets' = T /\ AbsAdj = undo /\ AbsAdj' = undo'
  <2>1. UNCHANGED sema
    BY DEF Assign
  <2> QED
    BY <1>1, <2>1, FreeStates, SetsOfSame
<1>3. semconv(id) /\ id[1] \in Sets
  BY DEF Ids, Assign
<1>4. PICK z, b : z = sema[id[1]].nsems /\ b = sema[id[1]].base
  OBVIOUS
<1>5. /\ z \in Nat /\ b \in Nat /\ z > 0 /\ N \subseteq Nums
      /\ \A n \in N : n < z /\ n \in Nat
      /\ \A n \in Nums : n \in Nat /\ (n < z => b + n \in Addrs /\ b + n \in Span(id[1]))
  <2>1. N \subseteq Members(id)
    OBVIOUS
  <2>2. \A n \in Nums : n \in Nat
    BY SemAssumption DEF Nums
  <2> QED
    BY <1>3, <1>4, <2>1, <2>2, SetPlaces DEF Members, Addr
<1>6. \A x \in Addrs : F[x] = IF x \in {b + n : n \in N} THEN v[x - b] ELSE f[x]
  <2>1. PICK X : X = {b + n : n \in N}
    OBVIOUS
  <2>2. X = {Addr(id[1], n) : n \in N}
    BY <1>4, <2>1 DEF Addr
  <2>3. sem' = [x \in Addrs |-> IF x \in X THEN Put(x, v[x - b], SetKinds(v[x - b])) ELSE sem[x]]
    BY <1>4, <2>2 DEF Assign
  <2> QED
    BY <1>1, <2>1, <2>3 DEF Values, Put
<1>7. ASSUME NEW i \in Ids, i # id PROVE T[i] = S[i]
  <2>1. PICK y, c : y = sema[i[1]].nsems /\ c = sema[i[1]].base
    OBVIOUS
  <2>2. ASSUME NEW n \in Nums, semconv(i), n < y PROVE F[c + n] = f[c + n]
    <3>1. c + n \in Addrs /\ c + n \notin Span(id[1])
      BY <1>3, <1>7, <2>1, <2>2, SetPlaces, IdsApart DEF Addr
    <3>2. c + n \notin {b + m : m \in N}
      BY <1>5, <3>1
    <3> QED
      BY <1>6, <3>1, <3>2
  <2>3. \A n \in Nums : (IF semconv(i) /\ n < y THEN F[c + n] ELSE 0)
                         = (IF semconv(i) /\ n < y THEN f[c + n] ELSE 0)
    BY <2>2
  <2> QED
    BY <1>0, <2>1, <2>3 DEF Image
<1>8. S[id] = [size |-> z, val |-> [n \in Nums |-> IF n < z THEN f[b + n] ELSE 0]]
      /\ T[id] = [size |-> z, val |-> [n \in Nums |-> IF n < z THEN F[b + n] ELSE 0]]
  BY <1>0, <1>3, <1>4 DEF Image
<1>9. \A n \in Nums : (IF n < z THEN F[b + n] ELSE 0)
                        = IF n \in N THEN v[n] ELSE IF n < z THEN f[b + n] ELSE 0
  <2> SUFFICES ASSUME NEW n \in Nums
               PROVE  (IF n < z THEN F[b + n] ELSE 0)
                        = IF n \in N THEN v[n] ELSE IF n < z THEN f[b + n] ELSE 0
    OBVIOUS
  <2>1. CASE n \in N
    <3>1. n < z /\ b + n \in Addrs /\ b + n \in {b + m : m \in N} /\ (b + n) - b = n
      BY <1>5, <2>1
    <3> QED
      BY <1>6, <2>1, <3>1
  <2>2. CASE n \notin N /\ n < z
    <3>1. b + n \notin {b + m : m \in N}
      BY <1>5, <2>2
    <3> QED
      BY <1>5, <1>6, <2>2, <3>1
  <2>3. CASE n \notin N /\ ~(n < z)
    BY <2>3
  <2> QED
    BY <2>1, <2>2, <2>3
<1>10. T = [S EXCEPT ![id].val = [n \in Nums |-> IF n \in N THEN v[n] ELSE @[n]]]
  <2>1. PICK w : w = [n \in Nums |-> IF n \in N THEN v[n] ELSE IF n < z THEN f[b + n] ELSE 0]
    OBVIOUS
  <2>2. T = [S EXCEPT ![id] = T[id]]
    BY <1>0, <1>7, SetChanges
  <2>3. T[id] = [S[id] EXCEPT !.val = w]
    BY <1>8, <1>9, <2>1
  <2>4. w = [n \in Nums |-> IF n \in N THEN v[n] ELSE S[id].val[n]]
    BY <1>8, <2>1
  <2>5. [S EXCEPT ![id] = [S[id] EXCEPT !.val = w]] = [S EXCEPT ![id].val = w]
    BY <1>0, <1>8
  <2> QED
    BY <2>2, <2>3, <2>4, <2>5
<1>11. S[id] # Abs!NoSet
  BY <1>5, <1>8 DEF Abs!NoSet
<1>12. Abs!Members(id) = Members(id)
  BY <1>2, <1>4, <1>8 DEF Abs!Members, Members
<1>13. undo' = Abs!Forget(id, N)
  BY <1>2 DEF Assign, semunrm, Abs!Forget, Keys
<1> QED
  BY <1>2, <1>10, <1>11, <1>12, <1>13 DEF Abs!Assign

\* An adjustment of semexit().
LEMMA EntryAdjusts ==
    ASSUME AbsInv, AbsInv', \A q \in Procs : ~InPassing(q), \A q \in Procs : ~InPassing(q)',
           NEW p \in Procs, SemexitEntry(p)
    PROVE  \E id \in Ids, n \in Nums : Abs!Adjust(p, id, n)
<1> USE DEF AbsInv, OKInv, LiveInv, SemaphoresOK
<1>1. PICK e \in Keys, x \in Addrs, v \in Int, K \in SUBSET Kinds : ExitAdjusts(p, e, x, v, K)
  BY ExitCases
<1>2. PICK id, n : id = e[1] /\ n = e[2] /\ e = <<id, n>>
  BY DEF Keys
<1>3. id \in Ids /\ n \in Nums /\ semconv(id) /\ n < sema[id[1]].nsems /\ x = sema[id[1]].base + n
      /\ x \in Span(id[1])
  BY <1>1, <1>2 DEF Keys, ExitAdjusts, Addr
<1>4. PICK f, F, S, T : f = Values /\ F = Values' /\ S = SetsOf(f) /\ T = SetsOf(F)
  OBVIOUS
<1>5. /\ \A i \in Ids : S[i] = Image(f, i) /\ T[i] = Image(F, i)
      /\ S = [i \in Ids |-> S[i]] /\ T = [i \in Ids |-> T[i]]
  BY <1>4, Images
<1>6. AbsSets = S /\ AbsSets' = T /\ AbsAdj = undo /\ AbsAdj' = undo'
  <2>1. UNCHANGED sema
    BY <1>1 DEF ExitAdjusts
  <2> QED
    BY <1>4, <2>1, FreeStates, SetsOfSame
<1>7. PICK z, b : z = sema[id[1]].nsems /\ b = sema[id[1]].base
  OBVIOUS
<1>8. /\ z \in Nat /\ b \in Nat /\ n < z /\ x = b + n /\ \A m \in Nums : m \in Nat
      /\ f \in [Addrs -> 0..semvmx] /\ F \in [Addrs -> 0..semvmx]
  <2>1. \A m \in Nums : m \in Nat
    BY SemAssumption DEF Nums
  <2>2. f \in [Addrs -> 0..semvmx] /\ F \in [Addrs -> 0..semvmx]
    BY <1>4 DEF Values, ValuesInRange
  <2> QED
    BY <1>3, <1>7, <2>1, <2>2, SetPlaces
<1>9. S[id] = [size |-> z, val |-> [m \in Nums |-> IF m < z THEN f[b + m] ELSE 0]]
      /\ T[id] = [size |-> z, val |-> [m \in Nums |-> IF m < z THEN F[b + m] ELSE 0]]
  BY <1>3, <1>5, <1>7 DEF Image
<1>10. /\ S[id].val[n] = f[x] /\ v = f[x] + undo[p][<<id, n>>] /\ undo[p][<<id, n>>] # 0
       /\ undo' = [undo EXCEPT ![p][<<id, n>>] = 0]
  <2>1. S[id].val[n] = f[x]
    BY <1>3, <1>8, <1>9
  <2> QED
    BY <1>1, <1>2, <1>4, <2>1 DEF ExitAdjusts, Values
<1>11. n \in Abs!Members(id)
  BY <1>3, <1>6, <1>8, <1>9 DEF Abs!Members
<1>12. T = IF v \in 0..semvmx THEN [S EXCEPT ![id].val[n] = v] ELSE S
  <2>1. CASE v \in 0..semvmx
    <3>1. \A y \in Addrs : F[y] = IF y = x THEN v ELSE f[y]
      <4>1. sem' = [sem EXCEPT ![x] = Put(x, v, K)]
        BY <1>1, <2>1 DEF ExitAdjusts
      <4>2. \A y \in Addrs : sem'[y].val = IF y = x THEN v ELSE sem[y].val
        BY <4>1 DEF Put, FitInv, TypeInv, TypeOK
      <4> QED
        BY <1>4, <4>2 DEF Values
    <3>2. ASSUME NEW i \in Ids, i # id PROVE T[i] = S[i]
      <4>1. PICK y, c : y = sema[i[1]].nsems /\ c = sema[i[1]].base
        OBVIOUS
      <4>2. ASSUME NEW m \in Nums, semconv(i), m < y PROVE F[c + m] = f[c + m]
        <5>1. c + m \in Addrs /\ c + m \notin Span(id[1])
          BY <1>3, <3>2, <4>1, <4>2, SetPlaces, IdsApart DEF Addr
        <5> QED
          BY <1>3, <3>1, <5>1
      <4>3. \A m \in Nums : (IF semconv(i) /\ m < y THEN F[c + m] ELSE 0)
                             = (IF semconv(i) /\ m < y THEN f[c + m] ELSE 0)
        BY <4>2
      <4> QED
        BY <1>5, <4>1, <4>3 DEF Image
    <3>3. T = [S EXCEPT ![id] = T[id]]
      BY <1>3, <1>5, <3>2, SetChanges
    <3>4. T[id] = [S[id] EXCEPT !.val[n] = v]
      <4>1. \A m \in Nums : m < z => b + m \in Addrs
        BY <1>3, <1>7, SetPlaces DEF Addr
      <4>2. \A m \in Nums : (IF m < z THEN F[b + m] ELSE 0)
                             = IF m = n THEN v ELSE IF m < z THEN f[b + m] ELSE 0
        BY <1>3, <1>8, <3>1, <4>1
      <4>3. PICK w : w = [m \in Nums |-> IF m < z THEN f[b + m] ELSE 0]
        OBVIOUS
      <4>4. [m \in Nums |-> IF m < z THEN F[b + m] ELSE 0] = [w EXCEPT ![n] = v]
        BY <1>3, <4>2, <4>3
      <4> QED
        BY <1>9, <4>3, <4>4
    <3> QED
      BY <1>3, <1>5, <1>9, <2>1, <3>3, <3>4
  <2>2. CASE v \notin 0..semvmx
    <3>1. F = f
      BY <1>1, <1>4, <2>2 DEF ExitAdjusts, Values
    <3> QED
      BY <1>4, <2>2, <3>1
  <2> QED
    BY <2>1, <2>2
<1>13. Abs!Adjust(p, id, n)
  <2>1. AbsSets[id].val[n] + AbsAdj[p][<<id, n>>] = v
    BY <1>6, <1>10
  <2>2. AbsAdj' = [AbsAdj EXCEPT ![p][<<id, n>>] = 0] /\ AbsAdj[p][<<id, n>>] # 0
    BY <1>6, <1>10
  <2>3. AbsSets' = IF v \in 0..semvmx THEN [AbsSets EXCEPT ![id].val[n] = v] ELSE AbsSets
    BY <1>6, <1>12
  <2> QED
    BY <1>11, <2>1, <2>2, <2>3 DEF Abs!Adjust
<1> QED
  BY <1>3, <1>13

\* A step with nobody in a pass before or after it.
LEMMA OtherAbs ==
    ASSUME AbsInv, AbsInv', [Next]_vars,
           \A p \in Procs : ~InPassing(p), \A p \in Procs : ~InPassing(p)'
    PROVE  AbsStep
<1> USE DEF AbsInv, OKInv, LiveInv, SemaphoresOK
<1>1. CASE \E s \in Sets : semget(s)
  BY <1>1, GetCreates DEF AbsStep, Abs!Next
<1>2. ASSUME NEW id \in Ids, semctlRMID(id) PROVE AbsStep
  BY <1>2, RemoveRemoves DEF AbsStep, Abs!Next
<1>3. ASSUME NEW id \in Ids, semctlSETVAL(id) \/ semctlSETALL(id) PROVE AbsStep
  <2>1. PICK N \in {Members(id)} \cup {{n} : n \in Members(id)} :
          \E f \in [N -> SemVals] : Assign(id, N, f)
    BY <1>3, SetCases
  <2>2. PICK f \in [N -> SemVals] : Assign(id, N, f)
    BY <2>1
  <2>3. Abs!Assign(id)
    BY <2>2, AssignAssigns
  <2> QED
    BY <2>3 DEF AbsStep, Abs!Next
<1>4. ASSUME NEW p \in Procs, SemexitEntry(p) PROVE AbsStep
  <2>1. \E id \in Ids, n \in Nums : Abs!Adjust(p, id, n)
    BY <1>4, EntryAdjusts
  <2> QED
    BY <2>1 DEF AbsStep, Abs!Next
<1>5. ASSUME UNCHANGED <<sema, sem, undo>> PROVE AbsStep
  BY <1>5, QuietStep DEF AbsStep
<1>6. ASSUME NEW p \in Procs, Interrupted(p) PROVE AbsStep
  <2>1. \A x \in Addrs : sem'[x].val = sem[x].val
    <3>1. pr[p].chan[2] \in Int /\ sem \in [Addrs -> SemRecord]
      BY SMTT(30) DEF FitInv, TypeInv, TypeOK, ProcRecord
    <3>2. \E x \in Int : \/ sem' = [sem EXCEPT ![x].ncnt = @ - 1] \/ sem' = [sem EXCEPT ![x].zcnt = @ - 1]
                         \/ \E K : sem' = [sem EXCEPT ![x] = Put(x, @.val, K)]
      BY <1>6, <3>1 DEF Interrupted
    <3>3. ASSUME NEW x \in Int, NEW K, sem' = [sem EXCEPT ![x] = Put(x, @.val, K)]
          PROVE  \A y \in Addrs : sem'[y].val = sem[y].val
      BY <3>1, <3>3 DEF Put
    <3>4. ASSUME NEW x \in Int, sem' = [sem EXCEPT ![x].ncnt = @ - 1] \/ sem' = [sem EXCEPT ![x].zcnt = @ - 1]
          PROVE  \A y \in Addrs : sem'[y].val = sem[y].val
      BY <3>1, <3>4 DEF SemRecord
    <3> QED
      BY <3>2, <3>3, <3>4
  <2>2. UNCHANGED <<sema, undo>>
    BY <1>6 DEF Interrupted
  <2> QED
    BY <2>1, <2>2, QuietStep DEF AbsStep
<1> QED
  BY <1>1, <1>2, <1>3, <1>4, <1>5, <1>6, OtherSteps 
     DEF vars, semctlSET, semop, Signal, Continued, Resume, semexit, SemexitDone

\* semop() is all or nothing whatever sets, lists, processes, limits of the undo
\* tables and orders of the calls there are: what a pass does to values and
\* adjustments appears at once, at its end, or not at all (semop(), semundo()).
THEOREM SemImplements ==
    ASSUME ListsFit PROVE Spec => ImplementsSemSpec
<1>1. Init => AbsInv /\ Abs!Init
  <2> SUFFICES ASSUME Init PROVE AbsInv /\ Abs!Init
    OBVIOUS
  <2>1. OKInv
    BY OKInit
  <2>2. \A p \in Procs : ~InPassing(p)
    BY DEF Init, Idle, InPassing
  <2>3. SetsApart
    BY DEF Init, SetsApart
  <2>4. AbsInv
    BY <2>1, <2>2, <2>3 DEF AbsInv, AreaOwn
  <2>5. AbsSets = SetsOf(Values) /\ AbsAdj = undo
    BY <2>2, <2>4, Shown DEF FreeShows, Shows
  <2>6. SetsOf(Values) = [id \in Ids |-> Abs!NoSet]
    <3>1. \A id \in Ids : ~semconv(id)
      BY DEF Init, semconv, Ids
    <3> QED
      BY <3>1 DEF SetsOf, ValOf, Abs!NoSet, Abs!Zeros
  <2>7. undo = [p \in Procs |-> [e \in Ids \X Nums |-> 0]]
    BY DEF Init, Keys
  <2> QED
    BY <2>4, <2>5, <2>6, <2>7 DEF Abs!Init
<1>2. AbsInv /\ [Next]_vars => AbsInv'
  <2> SUFFICES ASSUME AbsInv, [Next]_vars PROVE AbsInv'
    OBVIOUS
  <2>1. OKInv'
    BY OKStep DEF AbsInv
  <2>2. AreaOwn' /\ SetsApart'
    <3>1. AreaOwn'
      BY <2>1 DEF OKInv, LiveInv, FitInv, AreaInv, AreaOwn, InPassing
    <3> QED
      BY <3>1, ApartStep DEF AbsInv, OKInv, LiveInv
  <2> QED
    BY <2>1, <2>2 DEF AbsInv
<1>3. AbsInv /\ AbsInv' /\ [Next]_vars => [Abs!Next]_(Abs!vars)
  <2> SUFFICES ASSUME AbsInv, AbsInv', [Next]_vars PROVE AbsStep
    BY DEF AbsStep, Abs!vars
  <2>1. CASE \A q \in Procs : ~InPassing(q)
    <3>1. CASE \A q \in Procs : ~InPassing(q)'
      BY <2>1, <3>1, OtherAbs
    <3>2. ASSUME NEW p \in Procs, InPassing(p)' PROVE AbsStep
      BY <2>1, <3>2, PassBegins DEF AbsStep
    <3> QED
      BY <3>1, <3>2
  <2>2. ASSUME NEW p \in Procs, InPassing(p) PROVE AbsStep
    <3>1. CASE InPassing(p)'
      BY <2>2, <3>1, PassGoesOn DEF AbsStep
    <3>2. CASE ~InPassing(p)'
      <4>1. CASE SemopLeave(p)
        BY <2>2, <3>2, <4>1, PassLeaves DEF AbsStep
      <4>2. CASE SemopDone(p)
        <5>1. Abs!Operate(p, pr[p].id, pr[p].ops)
          BY <2>2, <3>2, <4>2, DoneOperates
        <5>2. pr[p].id \in Ids /\ pr[p].ops \in OpLists
          BY <2>2, PlaceFits DEF AbsInv, OKInv, LiveInv
        <5> QED
          BY <5>1, <5>2 DEF AbsStep, Abs!Next
      <4> QED
        BY <2>2, <3>2, <4>1, <4>2, PassEnds DEF AbsInv, OKInv, LiveInv
    <3> QED
      BY <3>1, <3>2
  <2> QED
    BY <2>1, <2>2
<1> QED
  BY <1>1, <1>2, <1>3, PTL DEF Spec, ImplementsSemSpec, Abs!Spec
=============================================================================
