------------------------------- MODULE LpSpec -------------------------------
(***************************************************************************)
(* What a stream to a printer promises: what is accepted is printed once   *)
(* and in order, a character at a time; a request to drain is answered     *)
(* when all that was accepted before it has been printed, and its sender   *)
(* gets that answer and no other; only a close discards, and never part of *)
(* the message that is being printed.                                      *)
(***************************************************************************)
EXTENDS Integers, Sequences

CONSTANTS Procs, Cmds, rmax

VARIABLES spool,  \* what is accepted: its kind, from whom, the characters to print,
                  \* and for a request if its sender still waits
          req     \* the request of each process

Entries  == [kind : {"data"} \cup Cmds, from : Procs, left : Nat, live : BOOLEAN]

SpecInit == spool = <<>> /\ req = [p \in Procs |-> "none"]

Chars(p, n)   == [kind |-> "data", from |-> p, left |-> n, live |-> FALSE]
Request(p, c) == [kind |-> c, from |-> p, left |-> 0, live |-> TRUE]

Accept(p, n) ==
    /\ spool' = Append(spool, Chars(p, n))
    /\ UNCHANGED req

\* A request to drain comes last, one to set the modes comes after the message that
\* is being printed; either is answered at once where nothing is before it.
Ask(p, c) ==
    /\ req[p] = "none"
    /\ \/ /\ req' = [req EXCEPT ![p] = "sent"]
          /\ \/ c = "drain" /\ spool' = Append(spool, Request(p, c))
             \/ c = "set" /\ \E n \in {0, 1} :
                  /\ n <= Len(spool)
                  /\ spool' = SubSeq(spool, 1, n) \o <<Request(p, c)>>
                                  \o SubSeq(spool, n + 1, Len(spool))
       \/ /\ c = "drain" => spool = <<>>
          /\ req' = [req EXCEPT ![p] = "answered"]
          /\ UNCHANGED spool

PrintChar ==
    /\ spool # <<>> /\ Head(spool).kind = "data" /\ Head(spool).left > 0
    /\ spool' = [spool EXCEPT ![1].left = @ - 1]
    /\ UNCHANGED req

Printed ==
    /\ spool # <<>> /\ Head(spool).kind = "data" /\ Head(spool).left = 0
    /\ spool' = Tail(spool)
    /\ UNCHANGED req

Answer ==
    /\ spool # <<>> /\ Head(spool).kind # "data"
    /\ spool' = Tail(spool)
    /\ req' = IF Head(spool).live THEN [req EXCEPT ![Head(spool).from] = "answered"] ELSE req

\* The sender has its answer, or gives up.
End(p) ==
    /\ req[p] # "none"
    /\ req' = [req EXCEPT ![p] = "none"]
    /\ spool' = [i \in DOMAIN spool |->
                   IF spool[i].from = p THEN [spool[i] EXCEPT !.live = FALSE] ELSE spool[i]]

Discard ==
    /\ \A p \in Procs : req[p] = "none"
    /\ spool' \in {<<>>} \cup (IF spool = <<>> THEN {} ELSE {<<Head(spool)>>})
    /\ UNCHANGED req

SpecNext ==
    \/ \E p \in Procs, n \in 1..rmax : Accept(p, n)
    \/ \E p \in Procs, c \in Cmds : Ask(p, c)
    \/ \E p \in Procs : End(p)
    \/ PrintChar \/ Printed \/ Answer \/ Discard

Spec == SpecInit /\ [][SpecNext]_<<spool, req>>
=============================================================================
