---------------------------- MODULE LpRefinement ----------------------------
(***************************************************************************)
(* Lp implements LpSpec: the spool is the message at the printer followed  *)
(* by the queue of the driver.  A request is live while the stream head    *)
(* waits for a reply with its id.                                          *)
(***************************************************************************)
EXTENDS Lp

AbsEntry(m) ==
    [kind |-> m.type, from |-> m.from, left |-> IF m.type = "data" THEN m.size ELSE 0,
     live |-> m.type # "data" /\ sd.IOCWAIT /\ m.id = sd.iocid]

AbsSpool ==
    (IF tp.bu_bp = NoBlock THEN <<>>
     ELSE <<[kind |-> "data", from |-> tp.bu_bp.from, left |-> tp.bu_bp.left, live |-> FALSE]>>)
    \o [i \in DOMAIN q.msgs |-> AbsEntry(q.msgs[i])]

\* p's M_IOCTL has gone to the driver.
Sent(p) == pr[p].call = "ioctl" /\ (pr[p].pc \in {"getblk", "run"} \/ In(p, "ioc"))

AbsReq ==
    [p \in Procs |-> IF ~Sent(p) THEN "none" ELSE IF sd.iocblk THEN "answered" ELSE "sent"]

Abs == INSTANCE LpSpec WITH spool <- AbsSpool, req <- AbsReq

\* Characters are printed in the order in which they were accepted, a drain is
\* answered when all before it is printed, and no reply goes to the wrong
\* process, whatever times out, is interrupted or comes late.
ImplementsLpSpec == Abs!Spec
=============================================================================
