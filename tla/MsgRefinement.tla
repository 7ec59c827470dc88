--------------------------- MODULE MsgRefinement ---------------------------
(***************************************************************************)
(* os/msg.c implements MsgSpec: where the text of a message is, who sleeps *)
(* and who holds a lock is left out.                                       *)
(***************************************************************************)
EXTENDS Msg

Payload(m) == [type |-> m.type, ts |-> m.ts]

A == INSTANCE MsgSpec WITH
  Message <- {[type |-> c.type, ts |-> c.ts] : c \in {d \in Calls : d.op = "msgsnd"}},
  Select <- {c.typ : c \in {d \in Calls : d.op = "msgrcv"}},
  live <- {s \in Slot : que[s].alloc},
  q <- [s \in Slot |-> [i \in DOMAIN que[s].msgs |-> Payload(que[s].msgs[i])]],
  limit <- [s \in Slot |-> que[s].qbytes],
  asking <- [s \in Slot |-> {pr[p].call.typ : p \in
               {x \in Proc : pr[x].pc = "out" /\ pr[x].slot = s}}]

(* A message that is sent is received once, by a receiver whose type asks   *)
(* for it, in order, or discarded with its queue; a failed or interrupted   *)
(* call leaves the queues as they are.                                      *)
ImplementsMsgSpec == A!SpecSpec
=============================================================================
