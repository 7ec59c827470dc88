------------------------------- MODULE MCSem --------------------------------
(***************************************************************************)
(* Small instances of SemRefinement.                                       *)
(***************************************************************************)
EXTENDS SemRefinement, TLC

CONSTANTS p1, p2

Op(n, v)     == [num |-> n, op |-> v, undo |-> FALSE, nowait |-> FALSE]
OpUndo(n, v) == [num |-> n, op |-> v, undo |-> TRUE, nowait |-> FALSE]
OpTry(n, v)  == [num |-> n, op |-> v, undo |-> FALSE, nowait |-> TRUE]

\* Wait for zero and take; give; take two at once; and what is refused.
Lists == {<<Op(0, 0), OpUndo(0, 1)>>, <<OpUndo(0, -1)>>, <<Op(1, 1)>>,
          <<OpUndo(1, -1), OpUndo(0, 1)>>, <<Op(0, 1), OpTry(1, -2)>>}

ListsTwo   == {<<Op(0, 1), Op(1, 1)>>, <<Op(1, 2), Op(0, 2)>>}

(* What lies in the holding area when a semid_ds was copied into it.        *)
JunkOps == {OpUndo(3, -1), Op(0, 0)}

(* A state of Spec without the part of the holding area that nobody reads   *)
(* any more: a pass begins with a copyin() of all it will read.             *)
View == <<sema, sem, undo, holds, pr, cur,
          [j \in DOMAIN semtmp |->
             IF cur # NoProc /\ j \in DOMAIN pr[cur].ops THEN semtmp[j] ELSE NoOp]>>

Symmetry == Permutations(Procs)
=============================================================================
