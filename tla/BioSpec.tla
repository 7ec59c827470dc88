------------------------------ MODULE BioSpec -------------------------------
(***************************************************************************)
(* What the buffer cache promises: a block is used by one process at a     *)
(* time, who finds in it what was last written to it; where the contents   *)
(* are kept, and when they get to the disk, does not show.                 *)
(***************************************************************************)
EXTENDS Integers

CONSTANTS Procs, NoProc, Blocks, Vals, NoVal

VARIABLES store,   \* the contents of the blocks
          user,    \* who has the block
          view     \* what the process finds in it, if it asked for that

vars == <<store, user, view>>

Init ==
    /\ store = [x \in Blocks |-> CHOOSE v \in Vals : TRUE]
    /\ user = [x \in Blocks |-> NoProc]
    /\ view = [p \in Procs |-> NoVal]

\* To read the block, or to write all of it without a look at it.
Acquire(p, x) ==
    /\ user[x] = NoProc /\ user'[x] = p
    /\ user' = [user EXCEPT ![x] = p]
    /\ view' \in {view, [view EXCEPT ![p] = store[x]]}
    /\ UNCHANGED store

Release(p, x) ==
    /\ user[x] = p /\ user'[x] = NoProc
    /\ user' = [user EXCEPT ![x] = NoProc]
    /\ view' = [view EXCEPT ![p] = NoVal]
    /\ store' \in {store} \cup {[store EXCEPT ![x] = v] : v \in Vals}

Next == \E p \in Procs, x \in Blocks : Acquire(p, x) \/ Release(p, x)

Spec == Init /\ [][Next]_vars
=============================================================================
