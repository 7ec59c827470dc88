------------------------------- MODULE MCMsg -------------------------------
EXTENDS MsgRefinement, TLC

CONSTANTS p, q, r

Snd(type, ts, nowait) == [op |-> "msgsnd", type |-> type, ts |-> ts, nowait |-> nowait]
Rcv(typ, sz, noerror, nowait) ==
  [op |-> "msgrcv", typ |-> typ, sz |-> sz, noerror |-> noerror, nowait |-> nowait]
Rmid == [op |-> "IPC_RMID"]
Set(n) == [op |-> "IPC_SET", qbytes |-> n]

\* Texts of no, one and two segments of two bytes; the limit is lowered; one
\* receive truncates and does not wait, another refuses a long text.
MCCalls == {Snd(1, 2, FALSE), Snd(2, 3, FALSE), Snd(1, 0, TRUE),
            Rcv(1, 1, FALSE, FALSE), Rcv(-2, 2, TRUE, TRUE),
            Rmid, Set(3)}

Symmetry == Permutations(Proc)
=============================================================================
