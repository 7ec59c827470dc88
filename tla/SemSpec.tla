------------------------------ MODULE SemSpec -------------------------------
(***************************************************************************)
(* What semget(2), semctl(2), semop(2) and the exit of a process promise   *)
(* of System V semaphores: a set comes into being with values of zero and  *)
(* goes with all that refers to it, the operations of one semop() happen   *)
(* together or not at all, and every undo operation leaves its opposite    *)
(* among the adjustments that the exit of the process applies.  Sleeping,  *)
(* waking, signals and the tables of the kernel are absent.                *)
(***************************************************************************)
EXTENDS Integers, Sequences

CONSTANTS Procs, Ids, Nums, NSems, OpLists, SemVals, semvmx

VARIABLES sets,   \* what each id names: NoSet, or the values of a set
          adj     \* adj[p][<<id, n>>]: the adjustment when p exits

vars == <<sets, adj>>

Zeros   == [n \in Nums |-> 0]
NoSet   == [size |-> 0, val |-> Zeros]
Members(id) == {n \in Nums : n < sets[id].size}

Init == /\ sets = [id \in Ids |-> NoSet]
        /\ adj = [p \in Procs |-> [e \in Ids \X Nums |-> 0]]

\* The sum of the first m operations of a list on semaphore n, counting all
\* of them or only those that are to be undone.
Sum(ops, n, m, all) ==
    LET s[j \in 0..m] ==
          IF j = 0 THEN 0
          ELSE s[j - 1] + (IF ops[j].num = n /\ (all \/ ops[j].undo) THEN ops[j].op ELSE 0)
    IN s[m]

\* The j-th operation of a list would wait, the earlier ones being done.
Waits(val, ops, j) ==
    LET v == val[ops[j].num] + Sum(ops, ops[j].num, j - 1, TRUE)
    IN \/ ops[j].op < 0 /\ v < -ops[j].op
       \/ ops[j].op = 0 /\ v # 0

CanProceed(val, ops) == \A j \in DOMAIN ops : ~Waits(val, ops, j)

\* adj without the adjustments of the semaphores N of a set.
Forget(id, N) ==
    [p \in Procs |-> [e \in Ids \X Nums |->
        IF e[1] = id /\ e[2] \in N THEN 0 ELSE adj[p][e]]]

Create(id) ==
    /\ sets[id] = NoSet
    /\ \E size \in NSems : sets' = [sets EXCEPT ![id].size = size]
    /\ UNCHANGED adj

Remove(id) ==
    /\ sets[id] # NoSet
    /\ sets' = [sets EXCEPT ![id] = NoSet]
    /\ adj' = Forget(id, Nums)

Assign(id) ==
    /\ sets[id] # NoSet
    /\ \E N \in {Members(id)} \cup {{n} : n \in Members(id)} :
         /\ \E f \in [N -> SemVals] :
              sets' = [sets EXCEPT ![id].val =
                         [n \in Nums |-> IF n \in N THEN f[n] ELSE @[n]]]
         /\ adj' = Forget(id, N)

Operate(p, id, ops) ==
    /\ \A j \in DOMAIN ops : ops[j].num \in Members(id)
    /\ CanProceed(sets[id].val, ops)
    /\ sets' = [sets EXCEPT ![id].val =
                  [n \in Nums |-> @[n] + Sum(ops, n, Len(ops), TRUE)]]
    /\ \A n \in Nums : sets'[id].val[n] \in 0..semvmx
    /\ adj' = [adj EXCEPT ![p] = [e \in Ids \X Nums |->
                  IF e[1] = id THEN @[e] - Sum(ops, e[2], Len(ops), FALSE) ELSE @[e]]]

\* One adjustment of a process that exits, unless it would leave the range.
Adjust(p, id, n) ==
    LET v == sets[id].val[n] + adj[p][<<id, n>>]
    IN /\ adj[p][<<id, n>>] # 0
       /\ n \in Members(id)
       /\ sets' = IF v \in 0..semvmx THEN [sets EXCEPT ![id].val[n] = v] ELSE sets
       /\ adj' = [adj EXCEPT ![p][<<id, n>>] = 0]

Next ==
    \E id \in Ids :
        \/ Create(id) \/ Remove(id) \/ Assign(id)
        \/ \E p \in Procs, ops \in OpLists : Operate(p, id, ops)
        \/ \E p \in Procs, n \in Nums : Adjust(p, id, n)

Spec == Init /\ [][Next]_vars
=============================================================================
