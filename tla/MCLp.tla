-------------------------------- MODULE MCLp --------------------------------
(***************************************************************************)
(* A small instance of LpRefinement.                                       *)
(***************************************************************************)
EXTENDS LpRefinement, TLC

CONSTANTS p1, p2

\* A write of two messages, and an empty one that does not wait.
MCWrites == {<<3, FALSE>>, <<0, TRUE>>}

\* One process drains, without a timeout; the other changes modes, with one.
MCRequests ==
    [p \in Procs |-> IF p = p1 THEN {<<"drain", FALSE>>} ELSE {<<"set", TRUE>>}]
=============================================================================
