------------------------------ MODULE MsgSpec ------------------------------
(***************************************************************************)
(* What os/msg.c promises: each queue keeps its messages in the order in   *)
(* which they were sent; msgsnd() adds one if the limit of the queue       *)
(* allows, msgrcv() takes the one that its type asks for, and removal of   *)
(* the queue discards them.                                                *)
(***************************************************************************)
EXTENDS Integers, Sequences, SequencesExt

CONSTANTS Slot, Message, Select, msgmnb

VARIABLES
  live,    \* the queues that exist
  q,       \* for each queue its messages, records with type and ts (bytes)
  limit,   \* for each queue how many bytes it may hold
  asking   \* for each queue the types that its receivers ask for

Bytes(s) ==
  LET sum[n \in 0 .. Len(s)] == IF n = 0 THEN 0 ELSE sum[n - 1] + s[n].ts
  IN  sum[Len(s)]

(* Which message: the first, the first of a type, or the first of the       *)
(* lowest type up to a bound.                                               *)
Selects(typ, s, i) ==
  CASE typ = 0 -> i = 1
    [] typ > 0 -> s[i].type = typ /\ \A j \in 1 .. i - 1 : s[j].type # typ
    [] OTHER   -> /\ s[i].type <= -typ
                  /\ \A j \in 1 .. i - 1 : s[j].type > s[i].type
                  /\ \A j \in i + 1 .. Len(s) : s[j].type >= s[i].type

SpecInit ==
  /\ live = {}
  /\ q = [s \in Slot |-> <<>>]
  /\ limit = [s \in Slot |-> 0]
  /\ asking \in [Slot -> SUBSET Select]

Create(s) ==
  /\ s \notin live
  /\ live' = live \union {s}
  /\ limit' = [limit EXCEPT ![s] = msgmnb]
  /\ UNCHANGED q

Destroy(s) ==
  /\ s \in live
  /\ live' = live \ {s}
  /\ q' = [q EXCEPT ![s] = <<>>]
  /\ UNCHANGED limit

Limit(s, n) ==
  /\ s \in live
  /\ limit' = [limit EXCEPT ![s] = n]
  /\ UNCHANGED <<live, q>>

Send(s, m) ==
  /\ s \in live
  /\ Bytes(q[s]) + m.ts <= limit[s]
  /\ q' = [q EXCEPT ![s] = Append(@, m)]
  /\ UNCHANGED <<live, limit>>

Receive(s, typ) ==
  /\ s \in live /\ typ \in asking[s]
  /\ \E i \in DOMAIN q[s] : Selects(typ, q[s], i) /\ q' = [q EXCEPT ![s] = RemoveAt(@, i)]
  /\ UNCHANGED <<live, limit>>

(* Receivers come and go at any step.                                       *)
SpecNext ==
  /\ asking' \in [Slot -> SUBSET Select]
  /\ \/ UNCHANGED <<live, q, limit>>
     \/ \E s \in Slot :
          \/ Create(s) \/ Destroy(s)
          \/ \E n \in 0 .. msgmnb : Limit(s, n)
          \/ \E m \in Message : Send(s, m)
          \/ \E typ \in Select : Receive(s, typ)

SpecSpec == SpecInit /\ [][SpecNext]_<<live, q, limit, asking>>
=============================================================================
