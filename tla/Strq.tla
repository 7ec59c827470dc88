-------------------------------- MODULE Strq --------------------------------
(***************************************************************************)
(* A STREAMS queue, io/stream.c: its messages in order, the count of their *)
(* bytes, and the flags of flow control.  QFULL stops the writers; QWANTW  *)
(* says that one of them found the queue full, so that whoever brings the  *)
(* count down to the low water mark enables the queue behind, whose        *)
(* service procedure wakes them.                                           *)
(*                                                                         *)
(* All messages here are of the ordinary class and in band 0.              *)
(***************************************************************************)
EXTENDS Integers, Sequences, FiniteSets

CONSTANTS hiwat, lowat    \* q_hiwat and q_lowat

ASSUME MarksAssumption == hiwat \in Nat /\ lowat \in Nat /\ lowat < hiwat

Queues(M) == [msgs : Seq(M), count : Nat, QFULL : BOOLEAN, QWANTW : BOOLEAN]

NewQueue == [msgs |-> <<>>, count |-> 0, QFULL |-> FALSE, QWANTW |-> FALSE]

Empty(q) == q.msgs = <<>>

Bytes(s) ==
    LET sum[n \in 0..Len(s)] == IF n = 0 THEN 0 ELSE sum[n - 1] + s[n].size
    IN sum[Len(s)]

\* A message at the end, or back at the front.
Added(q, s, n) ==
    [q EXCEPT !.msgs = s, !.count = @ + n, !.QFULL = @ \/ q.count + n >= hiwat]
putq(q, m)  == Added(q, Append(q.msgs, m), m.size)
\* Mutated form: a message put back is not counted.
putbqUncounted(q, m) == [q EXCEPT !.msgs = <<m>> \o @]
putbq(q, m) == Added(q, <<m>> \o q.msgs, m.size)

\* Does getq() enable the queue behind?  It also does when there is nothing to get.
Backenables(q) == q.QWANTW /\ (Empty(q) \/ q.count - Head(q.msgs).size <= lowat)

\* What getq() leaves.
Left(q) ==
    LET n == IF Empty(q) THEN 0 ELSE Head(q.msgs).size
    IN [msgs |-> IF Empty(q) THEN <<>> ELSE Tail(q.msgs), count |-> q.count - n,
        QFULL |-> q.QFULL /\ (Empty(q) \/ q.count - n >= hiwat),
        QWANTW |-> q.QWANTW /\ ~Backenables(q)]

\* The count and QFULL follow from the messages.
CountOK(q) == q.count = Bytes(q.msgs) /\ q.QFULL = (q.count >= hiwat)
=============================================================================
