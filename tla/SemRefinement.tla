--------------------------- MODULE SemRefinement ----------------------------
(***************************************************************************)
(* Sem implements SemSpec.  While a process is in the middle of a pass the *)
(* values and adjustments it sees are tentative: what SemSpec has is what  *)
(* they would be with the operations done so far taken back.               *)
(***************************************************************************)
EXTENDS Sem

\* The process whose pass works on the set, and how much of it is done.
Passing(id) == cur # NoProc /\ pr[cur].pc \in {"ops", "undo"} /\ pr[cur].id = id
PassDone    == IF pr[cur].pc = "ops" THEN pr[cur].i - 1 ELSE pr[cur].i

\* The sum of the first m operations of the holding area on semaphore n, or
\* of those with SEM_UNDO.
Tentative(n, m, all) ==
    LET s[j \in 0..m] ==
          IF j = 0 THEN 0
          ELSE s[j - 1] + (IF semtmp[j].num = n /\ (all \/ semtmp[j].undo)
                           THEN semtmp[j].op ELSE 0)
    IN s[m]

AbsValue(id, n) ==
    IF n >= sema[id[1]].nsems THEN 0
    ELSE sem[Addr(id[1], n)].val - (IF Passing(id) THEN Tentative(n, PassDone, TRUE) ELSE 0)

AbsSets ==
    [id \in Ids |->
        [size |-> IF semconv(id) THEN sema[id[1]].nsems ELSE 0,
         val |-> [n \in Nums |-> IF semconv(id) THEN AbsValue(id, n) ELSE 0]]]

AbsAdj ==
    [p \in Procs |-> [e \in Keys |->
        undo[p][e] + (IF p = cur /\ Passing(e[1]) THEN Tentative(e[2], PassDone, FALSE) ELSE 0)]]

Abs == INSTANCE SemSpec WITH sets <- AbsSets, adj <- AbsAdj

\* semop() is all or nothing, values and adjustments alike, whatever it has to
\* take back, and nothing else changes them but semctl() and exit().
ImplementsSemSpec == Abs!Spec

\* A process that sleeps in semop() could not do its operations now, and its
\* set is still there: no wakeup was lost and none was forgotten
\* (every change of semval in sem.c, against the sleeps at 711 and 727).
NoLostWakeup ==
    cur = NoProc =>
        \A p \in Procs : pr[p].pc = "asleep" =>
            /\ semconv(pr[p].id)
            /\ ~Abs!CanProceed(AbsSets[pr[p].id].val, pr[p].ops)
=============================================================================
