------------------------------ MODULE MsgProofs ------------------------------
(***************************************************************************)
(* That a message queue of Msg, os/msg.c, is used by one process at a time *)
(* (HeldQueue), and that its headers, text and bytes stay accounted for    *)
(* (Accounted), for every number of processes, queues, headers and         *)
(* segments. The invariant is IInv. A step of one process with one queue   *)
(* is a Step; what it does to headers and text is one of: nothing moves    *)
(* (Quiet), a sender takes (Take) or puts on the queue (Send), text goes   *)
(* back (Give, Receive), a queue is emptied (Clear). There is a lemma for  *)
(* each of these, and a lemma for each action says which of them it is.    *)
(* From it follow that no wakeup is lost (NoWakeupLost) and that Msg       *)
(* implements MsgSpec (MsgImplements).                                     *)
(***************************************************************************)
EXTENDS MsgRefinement, RmapProofs, FiniteSetTheorems

MsgType == {m \in [type: Nat \ {0}, ts: Nat, addr: Nat] : m.ts = 0 <=> m.addr = 0}
QueType == [alloc: BOOLEAN, seq: 0 .. SeqMax, msgs: Seq(MsgType), cbytes: Int,
            qbytes: 0 .. msgmnb, rwait: BOOLEAN, wwait: BOOLEAN]
PoolType == [hdrs: Nat, map: MapType, mapwant: BOOLEAN, lost: SUBSET Nat]
Chans == {NULL, Header, Text}
         \union {Locked(s) : s \in Slot} \union {Room(s) : s \in Slot} \union {Mail(s) : s \in Slot}
ProcType == [pc: {"idle", "asleep", "run", "signalled", "in", "text", "out"},
             call: Calls \union {NULL}, slot: Slot \union {NULL}, seq: Nat, again: BOOLEAN,
             chan: Chans, got: Nat]

(* What a process in a call has: the call that its place belongs to.       *)
CallOK(r) ==
  /\ r.pc # "idle" => r.call \in Calls /\ r.slot \in Slot
  /\ r.pc = "asleep" =>
       \/ r.chan = Locked(r.slot)
       \/ r.chan \in {Room(r.slot), Header, Text} /\ r.call.op = "msgsnd"
       \/ r.chan = Mail(r.slot) /\ r.call.op = "msgrcv"
  /\ r.pc = "in" => r.call.op \in {"msgsnd", "IPC_SET"}
  /\ r.pc = "text" => r.call.op = "msgsnd" /\ r.call.ts > 0 /\ r.got > 0
  /\ r.pc = "out" => r.call.op = "msgrcv" /\ r.got > 0

Types ==
  /\ que \in [Slot -> QueType]
  /\ msglock \in [Slot -> BOOLEAN]
  /\ pool \in PoolType
  /\ pr \in [Proc -> ProcType]
  /\ \A p \in Proc : CallOK(pr[p])

HoldsLock(p, s) == Holds(p) /\ pr[p].slot = s
HolderOK(p, s) ==
  /\ Valid(pr[p])
  /\ pr[p].pc = "out" => pr[p].got = smp(que[s].msgs, pr[p].call.typ)
  /\ pr[p].pc = "text" => ~Full(s, pr[p].call)

Locks == \A s \in Slot :
  /\ msglock[s] <=> \E p \in Proc : HoldsLock(p, s)
  /\ \A p, x \in Proc : HoldsLock(p, s) /\ HoldsLock(x, s) => p = x
  /\ \A p \in Proc : HoldsLock(p, s) => HolderOK(p, s)

-----------------------------------------------------------------------------
\* The segments of a text: none for no text.
LEMMA BtoqProperties ==
  ASSUME NEW ts \in Nat
  PROVE  btoq(ts) \in Nat /\ (btoq(ts) = 0 <=> ts = 0)
<1>1. msgssz \in Nat \ {0}
  BY MsgAssumption
<1>2. CASE ts = 0
  BY <1>1, <1>2 DEF btoq
<1>3. CASE ts > 0
  BY <1>1, <1>3 DEF btoq
<1> QED
  BY <1>2, <1>3

\* Locks is what LockedQueueStays says.
LEMMA LocksStay == Types /\ Locks => LockedQueueStays
<1> SUFFICES ASSUME Types, Locks, NEW s \in Slot
             PROVE  LET H == {p \in Proc : Holds(p) /\ pr[p].slot = s}
                    IN  /\ Cardinality(H) = IF msglock[s] THEN 1 ELSE 0
                        /\ \A p \in H :
                             /\ Valid(pr[p])
                             /\ pr[p].pc = "out" => pr[p].got = smp(que[s].msgs, pr[p].call.typ)
                             /\ pr[p].pc = "text" => ~Full(s, pr[p].call)
  BY DEF LockedQueueStays
<1> DEFINE H == {p \in Proc : Holds(p) /\ pr[p].slot = s}
<1>1. CASE msglock[s]
  <2>1. PICK p \in Proc : H = {p}
    BY <1>1 DEF Locks, HoldsLock
  <2>2. Cardinality({p}) = 1
    BY FS_Singleton
  <2> QED
    BY <1>1, <2>1, <2>2 DEF Locks, HoldsLock, HolderOK
<1>2. CASE ~msglock[s]
  <2>1. H = {}
    BY <1>2 DEF Locks, HoldsLock
  <2>2. Cardinality({}) = 0
    BY FS_EmptySet
  <2> QED
    BY <1>2, <2>1, <2>2
<1> QED
  BY <1>1, <1>2 DEF Types

-----------------------------------------------------------------------------
(* What most steps are: p takes the queue s to qr and its own record to v,  *)
(* and sets the lock to l; the sleepers on chans are woken.                 *)
Step(p, s, v, l, chans, qr) ==
  /\ que' = [que EXCEPT ![s] = qr]
  /\ msglock' = [msglock EXCEPT ![s] = l]
  /\ pr' = [wakeprocs(pr, chans) EXCEPT ![p] = v]

\* How a process is woken.
LEMMA WokenFacts ==
  ASSUME Types, NEW chans, NEW x \in Proc
  PROVE  LET w == wakeprocs(pr, chans)
         IN  /\ w[x] \in ProcType
             /\ w[x].call = pr[x].call /\ w[x].slot = pr[x].slot /\ w[x].seq = pr[x].seq
             /\ w[x].again = pr[x].again /\ w[x].chan = pr[x].chan /\ w[x].got = pr[x].got
             /\ w[x].pc = IF pr[x].pc = "asleep" /\ pr[x].chan \in chans THEN "run" ELSE pr[x].pc
<1>1. pr[x] \in ProcType
  BY DEF Types
<1>2. wakeprocs(pr, chans)[x] =
        IF pr[x].pc = "asleep" /\ pr[x].chan \in chans THEN [pr[x] EXCEPT !.pc = "run"] ELSE pr[x]
  BY DEF wakeprocs
<1> QED
  BY <1>1, <1>2 DEF ProcType

LEMMA StepFacts ==
  ASSUME Types, NEW p \in Proc, NEW s \in Slot, NEW v \in ProcType, CallOK(v),
         NEW l \in BOOLEAN, NEW chans, NEW qr \in QueType,
         Step(p, s, v, l, chans, qr)
  PROVE  /\ que' \in [Slot -> QueType] /\ msglock' \in [Slot -> BOOLEAN]
         /\ pr' \in [Proc -> ProcType] /\ \A x \in Proc : CallOK(pr'[x])
         /\ que'[s] = qr /\ \A t \in Slot \ {s} : que'[t] = que[t]
         /\ msglock'[s] = l /\ \A t \in Slot \ {s} : msglock'[t] = msglock[t]
         /\ pr'[p] = v
         /\ \A x \in Proc \ {p} :
              /\ pr'[x].call = pr[x].call /\ pr'[x].slot = pr[x].slot /\ pr'[x].seq = pr[x].seq
              /\ pr'[x].chan = pr[x].chan /\ pr'[x].got = pr[x].got
              /\ pr'[x].pc = IF pr[x].pc = "asleep" /\ pr[x].chan \in chans THEN "run" ELSE pr[x].pc
<1> DEFINE w == wakeprocs(pr, chans)
<1>1. \A x \in Proc :
        /\ w[x] \in ProcType
        /\ w[x].call = pr[x].call /\ w[x].slot = pr[x].slot /\ w[x].seq = pr[x].seq
        /\ w[x].again = pr[x].again /\ w[x].chan = pr[x].chan /\ w[x].got = pr[x].got
        /\ w[x].pc = IF pr[x].pc = "asleep" /\ pr[x].chan \in chans THEN "run" ELSE pr[x].pc
  BY WokenFacts
<1>2. w \in [Proc -> ProcType]
  <2>1. w = [x \in Proc |-> w[x]]
    BY DEF wakeprocs
  <2> HIDE DEF w
  <2> QED
    BY <1>1, <2>1
<1>3. \A x \in Proc : CallOK(pr[x])
  BY DEF Types
<1>4. \A x \in Proc : CallOK(w[x])
  <2> HIDE DEF w
  <2> QED
    BY <1>1, <1>3 DEF CallOK
<1>5. pr' = [w EXCEPT ![p] = v]
  BY DEF Step
<1> HIDE DEF w
<1>6. pr' \in [Proc -> ProcType] /\ pr'[p] = v /\ \A x \in Proc \ {p} : pr'[x] = w[x]
  BY <1>2, <1>5
<1>7. \A x \in Proc : CallOK(pr'[x])
  BY <1>4, <1>6
<1> QED
  BY <1>1, <1>6, <1>7 DEF Step, Types

\* Whoever does a step of this kind has the lock of s, or nobody has it: the holders
\* of the other locks find their queues as they were.
LEMMA LocksKept ==
  ASSUME Types, Locks, NEW p \in Proc, NEW s \in Slot, NEW v \in ProcType, CallOK(v),
         NEW l \in BOOLEAN, NEW chans, NEW qr \in QueType,
         Step(p, s, v, l, chans, qr),
         Holds(p) => pr[p].slot = s,
         ~Holds(p) => ~msglock[s],
         l <=> v.pc \in {"in", "text", "out"},
         l => v.slot = s /\ qr.alloc /\ qr.seq = v.seq,
         v.pc = "out" => v.got = smp(qr.msgs, v.call.typ),
         v.pc = "text" => ~(v.call.ts + qr.cbytes > qr.qbytes)
  PROVE  Locks'
<1>1. /\ que'[s] = qr /\ \A t \in Slot \ {s} : que'[t] = que[t]
      /\ msglock'[s] = l /\ \A t \in Slot \ {s} : msglock'[t] = msglock[t]
      /\ pr'[p] = v
      /\ \A x \in Proc \ {p} :
           /\ pr'[x].call = pr[x].call /\ pr'[x].slot = pr[x].slot /\ pr'[x].seq = pr[x].seq
           /\ pr'[x].chan = pr[x].chan /\ pr'[x].got = pr[x].got
           /\ pr'[x].pc = IF pr[x].pc = "asleep" /\ pr[x].chan \in chans THEN "run" ELSE pr[x].pc
  BY StepFacts
<1>2. \A x \in Proc \ {p} : /\ Holds(x)' <=> Holds(x)
                            /\ Holds(x) => pr'[x].pc = pr[x].pc
  BY <1>1 DEF Holds
<1>3. \A x \in Proc \ {p} : ~HoldsLock(x, s)
  BY DEF Locks, HoldsLock
<1>4. \A t \in Slot \ {s} : ~HoldsLock(p, t)
  BY DEF HoldsLock
<1>5. \A x \in Proc \ {p}, t \in Slot : HoldsLock(x, t)' <=> HoldsLock(x, t)
  BY <1>1, <1>2 DEF HoldsLock
<1>6. Holds(p)' <=> l
  BY <1>1 DEF Holds
<1>7. l => HoldsLock(p, s)'
  BY <1>1, <1>6 DEF HoldsLock
<1>8. \A t \in Slot : HoldsLock(p, t)' => t = s /\ l
  BY <1>1, <1>6 DEF HoldsLock
<1>9. l => HolderOK(p, s)'
  BY <1>1 DEF HolderOK, Valid, Full
<1>10. ASSUME NEW x \in Proc \ {p}, NEW t \in Slot \ {s}, HoldsLock(x, t), HolderOK(x, t)
       PROVE  HolderOK(x, t)'
  BY <1>1, <1>2, <1>10 DEF HolderOK, Valid, Full, HoldsLock
<1>11. ASSUME NEW t \in Slot
       PROVE  /\ msglock'[t] <=> \E x \in Proc : HoldsLock(x, t)'
              /\ \A x, y \in Proc : HoldsLock(x, t)' /\ HoldsLock(y, t)' => x = y
              /\ \A x \in Proc : HoldsLock(x, t)' => HolderOK(x, t)'
  <2>1. CASE t = s
    BY <2>1, <1>1, <1>3, <1>5, <1>7, <1>8, <1>9
  <2>2. CASE t # s
    <3>1. \A x \in Proc : HoldsLock(x, t)' => x # p /\ HoldsLock(x, t)
      BY <2>2, <1>5, <1>8
    <3>2. \A x \in Proc : HoldsLock(x, t) => x # p /\ HoldsLock(x, t)'
      BY <2>2, <1>4, <1>5
    <3> QED
      BY <2>2, <3>1, <3>2, <1>1, <1>10 DEF Locks
  <2> QED
    BY <2>1, <2>2
<1> QED
  BY <1>11 DEF Locks

-----------------------------------------------------------------------------
(* A family of sets that has each member of U in one of them only.         *)
Partition(F, U) ==
  /\ \A k \in DOMAIN F : F[k] \subseteq U
  /\ \A u \in U : \E k \in DOMAIN F : u \in F[k]
  /\ \A k, l \in DOMAIN F : k # l => F[k] \intersect F[l] = {}

(* A part P of the set of a is moved to the one of b.                      *)
Moves(F, G, a, b, P) ==
  /\ DOMAIN G = DOMAIN F /\ a \in DOMAIN F /\ b \in DOMAIN F /\ a # b
  /\ P \subseteq F[a] /\ G[a] = F[a] \ P /\ G[b] = F[b] \union P
  /\ \A k \in DOMAIN F \ {a, b} : G[k] = F[k]

\* A partition stays one.
LEMMA PartitionMove ==
  ASSUME NEW U, NEW F, NEW G, NEW a, NEW b, NEW P, Moves(F, G, a, b, P), Partition(F, U)
  PROVE  Partition(G, U)
<1> DEFINE K == DOMAIN F
<1>0. /\ DOMAIN G = K /\ a \in K /\ b \in K /\ a # b
      /\ P \subseteq F[a] /\ G[a] = F[a] \ P /\ G[b] = F[b] \union P
      /\ \A k \in K \ {a, b} : G[k] = F[k]
  BY DEF Moves
<1>1. \A k \in K : F[k] \subseteq U
  BY DEF Partition
<1>2. \A k \in K : G[k] \subseteq U
  BY <1>0, <1>1
<1>3. ASSUME NEW u \in U
      PROVE  \E k \in K : u \in G[k]
  <2>1. PICK k \in K : u \in F[k]
    BY DEF Partition
  <2> QED
    BY <1>0, <2>1
<1>4. ASSUME NEW k \in K, NEW l \in K, k # l
      PROVE  G[k] \intersect G[l] = {}
  <2>1. \A i, j \in K : \A u : i # j => ~(u \in F[i] /\ u \in F[j])
    BY DEF Partition
  <2>2. ASSUME NEW u, u \in G[k], u \in G[l]
        PROVE  FALSE
    <3>1. CASE k = a
      <4>1. u \in F[a] /\ u \notin P
        BY <1>0, <3>1, <2>2
      <4> QED
        BY <1>0, <4>1, <3>1, <2>1, <2>2, <1>4
    <3>2. CASE l = a
      <4>1. u \in F[a] /\ u \notin P
        BY <1>0, <3>2, <2>2
      <4> QED
        BY <1>0, <4>1, <3>2, <2>1, <2>2, <1>4
    <3>3. CASE k # a /\ l # a
      <4>1. ASSUME NEW i \in K, i # a, u \in G[i]
            PROVE  u \in F[i] \/ (i = b /\ u \in F[a])
        BY <1>0, <4>1
      <4> QED
        BY <1>0, <4>1, <3>3, <2>1, <2>2, <1>4
    <3> QED
      BY <3>1, <3>2, <3>3
  <2> QED
    BY <2>2
<1> QED
  BY <1>0, <1>2, <1>3, <1>4 DEF Partition

\* The sets D go to two others.
LEMMA PartitionGather ==
  ASSUME NEW K, NEW U, NEW F, NEW G, DOMAIN F = K, DOMAIN G = K, Partition(F, U),
         NEW a \in K, NEW b \in K, a # b, NEW D, D \subseteq K \ {a, b},
         \A k \in D : G[k] = {}, \A k \in K \ (D \union {a, b}) : G[k] = F[k],
         G[a] \intersect G[b] = {},
         \A u : u \in G[a] \/ u \in G[b] <=>
                  u \in F[a] \/ u \in F[b] \/ \E k \in D : u \in F[k]
  PROVE  Partition(G, U)
<1>1. \A k \in K : F[k] \subseteq U
  BY DEF Partition
<1>2. \A i, j \in K : \A u : i # j => ~(u \in F[i] /\ u \in F[j])
  BY DEF Partition
<1>3. \A k \in K : G[k] \subseteq U
  <2>1. G[a] \subseteq U /\ G[b] \subseteq U
    BY <1>1
  <2> QED
    BY <1>1, <2>1
<1>4. ASSUME NEW u \in U
      PROVE  \E k \in K : u \in G[k]
  <2>1. PICK k \in K : u \in F[k]
    BY DEF Partition
  <2>2. CASE k \in D \union {a, b}
    BY <2>1, <2>2
  <2>3. CASE k \notin D \union {a, b}
    BY <2>1, <2>3
  <2> QED
    BY <2>2, <2>3
<1>5. ASSUME NEW k \in K \ {a, b}, NEW l \in {a, b}, NEW u, u \in G[k]
      PROVE  u \notin G[l]
  <2>1. k \notin D /\ u \in F[k]
    BY <1>5
  <2>2. \A i \in D \union {a, b} : i \in K /\ i # k /\ u \notin F[i]
    BY <2>1, <1>2
  <2> QED
    BY <2>2
<1>6. ASSUME NEW k \in K, NEW l \in K, k # l
      PROVE  G[k] \intersect G[l] = {}
  <2>1. CASE k \in {a, b} /\ l \in {a, b}
    BY <2>1, <1>6
  <2>2. CASE k \in {a, b} /\ l \notin {a, b}
    BY <2>2, <1>5
  <2>3. CASE k \notin {a, b} /\ l \in {a, b}
    BY <2>3, <1>5
  <2>4. CASE k \notin {a, b} /\ l \notin {a, b}
    BY <2>4, <1>2, <1>6
  <2> QED
    BY <2>1, <2>2, <2>3, <2>4
<1> QED
  BY <1>3, <1>4, <1>6 DEF Partition

\* The sets are renamed.
LEMMA PartitionRename ==
  ASSUME NEW K, NEW U, NEW F, NEW G, DOMAIN F = K, DOMAIN G = K, Partition(F, U),
         NEW h \in [K -> K],
         \A k \in K : G[k] = {} \/ G[k] = F[h[k]],
         \A k, l \in K : h[k] = h[l] /\ G[k] # {} /\ G[l] # {} => k = l,
         \A k \in K : F[k] # {} => \E l \in K : G[l] = F[k]
  PROVE  Partition(G, U)
<1>1. \A k \in K : F[k] \subseteq U
  BY DEF Partition
<1>2. \A k \in K : G[k] \subseteq U
  BY <1>1
<1>3. ASSUME NEW u \in U
      PROVE  \E k \in K : u \in G[k]
  <2>1. PICK k \in K : u \in F[k]
    BY DEF Partition
  <2> QED
    BY <2>1
<1>4. ASSUME NEW k \in K, NEW l \in K, k # l
      PROVE  G[k] \intersect G[l] = {}
  <2>1. CASE G[k] = {} \/ G[l] = {}
    BY <2>1
  <2>2. CASE G[k] # {} /\ G[l] # {}
    <3>1. h[k] \in K /\ h[l] \in K /\ h[k] # h[l]
      BY <2>2, <1>4
    <3> QED
      BY <3>1, <2>2 DEF Partition
  <2> QED
    BY <2>1, <2>2
<1> QED
  BY <1>2, <1>3, <1>4 DEF Partition

-----------------------------------------------------------------------------
(* The owners of text that there may be, and what they own now.            *)
FreeO == <<"free", 0>>
LostO == <<"lost", 0>>
QueueO(s, i) == <<"queued", <<s, i>>>>
SendO(p) == <<"sending", p>>
Owners == {FreeO, LostO} \union {QueueO(s, i) : s \in Slot, i \in Nat \ {0}}
          \union {SendO(p) : p \in Proc}
OwnedAll == [o \in Owners |-> IF o \in Owner THEN Owned(o) ELSE {}]

\* Owners are told apart.
LEMMA OwnersDiffer ==
  ASSUME NEW s, NEW i, NEW t, NEW j, NEW p, NEW x
  PROVE  /\ FreeO # LostO /\ FreeO # QueueO(s, i) /\ FreeO # SendO(p)
         /\ LostO # QueueO(s, i) /\ LostO # SendO(p) /\ QueueO(s, i) # SendO(p)
         /\ QueueO(s, i) = QueueO(t, j) => s = t /\ i = j
         /\ SendO(p) = SendO(x) => p = x
BY DEF FreeO, LostO, QueueO, SendO

\* The messages of a queue.
LEMMA MsgsFacts ==
  ASSUME Types, NEW s \in Slot
  PROVE  /\ que[s] \in QueType /\ que[s].msgs \in Seq(MsgType)
         /\ Len(que[s].msgs) \in Nat /\ DOMAIN que[s].msgs = 1 .. Len(que[s].msgs)
         /\ \A i \in 1 .. Len(que[s].msgs) : que[s].msgs[i] \in MsgType
<1>1. que[s] \in QueType /\ que[s].msgs \in Seq(MsgType)
  BY DEF Types, QueType
<1> QED
  BY <1>1, LenProperties, ElementOfSeq

\* Owner, with the kinds of owner told apart.
LEMMA OwnerIs ==
  ASSUME Types
  PROVE  /\ FreeO \in Owner /\ LostO \in Owner
         /\ \A s \in Slot, i \in Nat \ {0} : QueueO(s, i) \in Owner <=> i <= Len(que[s].msgs)
         /\ \A p \in Proc : SendO(p) \in Owner <=> pr[p].pc = "text"
         /\ Owner \subseteq Owners
<1>1. FreeO \in Owner /\ LostO \in Owner
  BY DEF Owner, FreeO, LostO
<1>2. \A s \in Slot, i \in Nat \ {0} : <<s, i>> \in Queued <=> i <= Len(que[s].msgs)
  BY MsgsFacts DEF Queued
<1>3. \A s \in Slot, i \in Nat \ {0} : QueueO(s, i) \in Owner <=> i <= Len(que[s].msgs)
  BY <1>2 DEF Owner, QueueO
<1>4. \A p \in Proc : SendO(p) \in Owner <=> pr[p].pc = "text"
  BY DEF Owner, SendO, Sending
<1>5. ASSUME NEW x \in Queued
      PROVE  \E s \in Slot, i \in Nat \ {0} : x = <<s, i>>
  BY MsgsFacts DEF Queued
<1>6. ASSUME NEW o \in Owner
      PROVE  o \in Owners
  <2>1. CASE o \in {<<"free", 0>>, <<"lost", 0>>}
    BY <2>1 DEF Owners, FreeO, LostO
  <2>2. CASE o \in {"queued"} \X Queued
    <3>1. PICK x \in Queued : o = <<"queued", x>>
      BY <2>2
    <3> QED
      BY <3>1, <1>5 DEF Owners, QueueO
  <2>3. CASE o \in {"sending"} \X Sending
    <3>1. PICK p \in Sending : o = <<"sending", p>>
      BY <2>3
    <3> QED
      BY <3>1 DEF Owners, SendO, Sending
  <2> QED
    BY <2>1, <2>2, <2>3 DEF Owner
<1> QED
  BY <1>1, <1>3, <1>4, <1>6

\* What each of them owns.
OwnedShape ==
  /\ DOMAIN OwnedAll = Owners
  /\ OwnedAll[FreeO] = UnitsOf(pool.map) /\ OwnedAll[LostO] = pool.lost
  /\ \A s \in Slot, i \in Nat \ {0} :
       OwnedAll[QueueO(s, i)] = IF i <= Len(que[s].msgs)
                                THEN Segments(que[s].msgs[i].addr, que[s].msgs[i].ts) ELSE {}
  /\ \A p \in Proc : OwnedAll[SendO(p)] = IF pr[p].pc = "text"
                                           THEN Segments(pr[p].got, pr[p].call.ts) ELSE {}

\* Owned, as one function of all that may ever own text.
LEMMA OwnedIs == Types => OwnedShape
<1> SUFFICES ASSUME Types
             PROVE  OwnedShape
  OBVIOUS
<1>1. FreeO \in Owners /\ LostO \in Owners
  BY DEF Owners
<1>2. Owned(FreeO) = UnitsOf(pool.map) /\ Owned(LostO) = pool.lost
  BY DEF Owned, FreeO, LostO
<1>3. ASSUME NEW s \in Slot, NEW i \in Nat \ {0}
      PROVE  /\ QueueO(s, i) \in Owners
             /\ Owned(QueueO(s, i)) = Segments(que[s].msgs[i].addr, que[s].msgs[i].ts)
  BY DEF Owners, Owned, QueueO
<1>4. ASSUME NEW p \in Proc
      PROVE  /\ SendO(p) \in Owners
             /\ Owned(SendO(p)) = Segments(pr[p].got, pr[p].call.ts)
  BY DEF Owners, Owned, SendO
<1> QED
  BY <1>1, <1>2, <1>3, <1>4, OwnerIs DEF OwnedAll, OwnedShape

\* TextAccounted says that they own a part of the text each, and all of it.
TextParts == MapOK(pool.map) /\ Partition(OwnedAll, 1 .. msgseg)
\* TextAccounted, as the partition that this function is.
LEMMA TextIsPartition == Types => (TextAccounted <=> TextParts)
<1> SUFFICES ASSUME Types
             PROVE  TextAccounted <=> MapOK(pool.map) /\ Partition(OwnedAll, 1 .. msgseg)
  BY DEF TextParts
<1>1. Owner \subseteq Owners
  BY OwnerIs
<1>2. ASSUME TextAccounted
      PROVE  Partition(OwnedAll, 1 .. msgseg)
  <2>1. \A k \in Owners : OwnedAll[k] \subseteq 1 .. msgseg
    BY <1>2 DEF TextAccounted, OwnedAll
  <2>2. ASSUME NEW u \in 1 .. msgseg
        PROVE  \E k \in Owners : u \in OwnedAll[k]
    <3>1. PICK k \in Owner : u \in Owned(k)
      BY <1>2 DEF TextAccounted
    <3> QED
      BY <3>1, <1>1 DEF OwnedAll
  <2>3. \A k, l \in Owners : k # l => OwnedAll[k] \intersect OwnedAll[l] = {}
    BY <1>2 DEF TextAccounted, OwnedAll
  <2>4. DOMAIN OwnedAll = Owners
    BY DEF OwnedAll
  <2> QED
    BY <2>1, <2>2, <2>3, <2>4 DEF Partition
<1>3. ASSUME MapOK(pool.map), Partition(OwnedAll, 1 .. msgseg)
      PROVE  TextAccounted
  <2>0. DOMAIN OwnedAll = Owners
    BY DEF OwnedAll
  <2>1. \A k \in Owner : k \in Owners /\ OwnedAll[k] = Owned(k)
    BY <1>1 DEF OwnedAll
  <2>2. ASSUME NEW u \in 1 .. msgseg
        PROVE  \E k \in Owner : u \in Owned(k)
    <3>1. PICK k \in Owners : u \in OwnedAll[k]
      BY <1>3, <2>0 DEF Partition
    <3>2. k \in Owner
      BY <3>1 DEF OwnedAll
    <3> QED
      BY <3>1, <3>2, <2>1
  <2>3. \A k \in Owner : Owned(k) \subseteq 1 .. msgseg
    BY <1>3, <2>0, <2>1 DEF Partition
  <2>4. \A k \in Owner, l \in Owner : k # l => Owned(k) \intersect Owned(l) = {}
    BY <1>3, <2>0, <2>1 DEF Partition
  <2>5. UNION {Owned(k) : k \in Owner} = 1 .. msgseg
    BY <2>2, <2>3
  <2> QED
    BY <1>3, <2>4, <2>5 DEF TextAccounted
<1> QED
  BY <1>2, <1>3 DEF TextAccounted

-----------------------------------------------------------------------------
\* Bytes adds up the sizes.
LEMMA BytesIsSum ==
  ASSUME NEW m \in Seq(MsgType)
  PROVE  \E f \in [0 .. Len(m) -> Nat] :
           f[0] = 0 /\ (\A i \in 1 .. Len(m) : f[i] = f[i - 1] + m[i].ts) /\ Bytes(m) = f[Len(m)]
<1> DEFINE n == Len(m)
           step == [i \in 1 .. n |-> [x \in Nat |-> x + m[i].ts]]
           Totals(g) == g = [i \in 0 .. n |-> IF i = 0 THEN 0 ELSE g[i - 1] + m[i].ts]
           s == CHOOSE g : Totals(g)
<1>1. n \in Nat /\ \A i \in 1 .. n : m[i].ts \in Nat
  BY LenProperties, ElementOfSeq DEF MsgType
<1>2. step \in [1 .. n -> [Nat -> Nat]]
  BY <1>1
<1>3. \A i \in 1 .. n, x \in Nat : step[i][x] = x + m[i].ts
  OBVIOUS
<1>4. \E f : Totals(f)
  <2>1. PICK f \in [0 .. n -> Nat] : f[0] = 0 /\ \A i \in 1 .. n : f[i] = step[i][f[i - 1]]
    <3> HIDE DEF step, n
    <3>1. \E f \in [0 .. n -> Nat] : Recurs(f, n, 0, step)
      BY <1>1, <1>2, Recursion
    <3> QED
      BY <3>1 DEF Recurs
  <2>2. ASSUME NEW i \in 1 .. n
        PROVE  f[i] = f[i - 1] + m[i].ts
    <3> HIDE DEF step
    <3>1. f[i - 1] \in Nat
      <4>1. i - 1 \in 0 .. n
        BY <1>1
      <4> QED
        BY <2>1, <4>1
    <3> QED
      BY <3>1, <2>1, <1>3
  <2>3. \A i \in 0 .. n : f[i] = IF i = 0 THEN 0 ELSE f[i - 1] + m[i].ts
    BY <2>1, <2>2, <1>1
  <2>4. f = [i \in 0 .. n |-> f[i]]
    BY <2>1
  <2>5. [i \in 0 .. n |-> f[i]] = [i \in 0 .. n |-> IF i = 0 THEN 0 ELSE f[i - 1] + m[i].ts]
    BY <2>3
  <2> QED
    BY <2>4, <2>5
<1>5. Totals(s)
  <2> HIDE DEF Totals
  <2> QED
    BY <1>4
<1>6. Bytes(m) = s[n]
  BY DEF Bytes
<1> HIDE DEF s
<1>7. s[0] = 0 /\ (\A i \in 1 .. n : s[i] = s[i - 1] + m[i].ts) /\ s = [i \in 0 .. n |-> s[i]]
  <2>1. s[0] = 0
    BY <1>1, <1>5
  <2>2. \A i \in 1 .. n : s[i] = s[i - 1] + m[i].ts
    BY <1>1, <1>5
  <2>3. DOMAIN s = 0 .. n
    BY <1>5
  <2> QED
    BY <2>1, <2>2, <1>5
<1>8. 0 .. n \subseteq {i \in 0 .. n : s[i] \in Nat}
  <2> DEFINE T == {i \in 0 .. n : s[i] \in Nat}
  <2>1. 0 \in T
    BY <1>1, <1>7
  <2>2. ASSUME NEW i \in 0 .. n - 1, i \in T
        PROVE  i + 1 \in T
    <3>1. i + 1 \in 1 .. n /\ (i + 1) - 1 = i
      BY <1>1
    <3>2. s[i + 1] = s[i] + m[i + 1].ts
      BY <3>1, <1>7
    <3> QED
      BY <2>2, <3>1, <3>2, <1>1
  <2> HIDE DEF T
  <2>3. 0 .. n \subseteq T
    BY <1>1, <2>1, <2>2, Induction
  <2> QED
    BY <2>3 DEF T
<1>9. s \in [0 .. n -> Nat]
  BY <1>7, <1>8
<1> QED
  BY <1>6, <1>7, <1>9

\* A queue with no message has no bytes.
LEMMA BytesEmpty == Bytes(<<>>) = 0
<1>1. <<>> \in Seq(MsgType) /\ Len(<<>>) = 0
  OBVIOUS
<1>2. PICK f \in [0 .. 0 -> Nat] : f[0] = 0 /\ Bytes(<<>>) = f[0]
  BY <1>1, BytesIsSum
<1> QED
  BY <1>2

\* A message more.
LEMMA BytesAppend ==
  ASSUME NEW m \in Seq(MsgType), NEW x \in MsgType
  PROVE  Bytes(m) \in Nat /\ Bytes(Append(m, x)) = Bytes(m) + x.ts
<1> DEFINE n == Len(m)
           a == Append(m, x)
<1>1. n \in Nat
  BY LenProperties
<1>2. a \in Seq(MsgType) /\ Len(a) = n + 1 /\ a[n + 1] = x /\ \A i \in 1 .. n : a[i] = m[i]
  BY AppendProperties
<1> HIDE DEF a
<1>3. PICK f \in [0 .. n -> Nat] :
        f[0] = 0 /\ (\A i \in 1 .. n : f[i] = f[i - 1] + m[i].ts) /\ Bytes(m) = f[n]
  BY BytesIsSum
<1>4. PICK g \in [0 .. n + 1 -> Nat] :
        g[0] = 0 /\ (\A i \in 1 .. n + 1 : g[i] = g[i - 1] + a[i].ts) /\ Bytes(a) = g[n + 1]
  BY <1>2, BytesIsSum
<1>5. 0 .. n \subseteq {i \in 0 .. n : f[i] = g[i]}
  <2> DEFINE T == {i \in 0 .. n : f[i] = g[i]}
  <2>1. 0 \in T
    BY <1>1, <1>3, <1>4
  <2>2. ASSUME NEW i \in 0 .. n - 1, i \in T
        PROVE  i + 1 \in T
    <3>1. i + 1 \in 1 .. n /\ i + 1 \in 1 .. n + 1 /\ (i + 1) - 1 = i
      BY <1>1
    <3>2. f[i + 1] = f[i] + m[i + 1].ts /\ g[i + 1] = g[i] + m[i + 1].ts
      BY <3>1, <1>2, <1>3, <1>4
    <3> QED
      BY <2>2, <3>1, <3>2
  <2> HIDE DEF T
  <2>3. 0 .. n \subseteq T
    BY <1>1, <2>1, <2>2, Induction
  <2> QED
    BY <2>3 DEF T
<1>6. f[n] = g[n] /\ f[n] \in Nat
  BY <1>1, <1>3, <1>5
<1>7. n + 1 \in 1 .. n + 1 /\ (n + 1) - 1 = n
  BY <1>1
<1>8. g[n + 1] = g[n] + x.ts
  BY <1>2, <1>4, <1>7
<1> QED
  BY <1>3, <1>4, <1>6, <1>8 DEF a

\* A message less.
LEMMA BytesRemoveAt ==
  ASSUME NEW m \in Seq(MsgType), NEW k \in 1 .. Len(m)
  PROVE  Bytes(RemoveAt(m, k)) = Bytes(m) - m[k].ts
<1> DEFINE n == Len(m)
           a == RemoveAt(m, k)
<1>1. n \in Nat /\ \A i \in 1 .. n : m[i].ts \in Nat
  BY LenProperties, ElementOfSeq DEF MsgType
<1>2. a \in Seq(MsgType) /\ Len(a) = n - 1
      /\ \A i \in 1 .. n - 1 : a[i] = IF i < k THEN m[i] ELSE m[i + 1]
  BY RemoveAtProperties
<1> HIDE DEF a
<1>3. PICK f \in [0 .. n -> Nat] :
        f[0] = 0 /\ (\A i \in 1 .. n : f[i] = f[i - 1] + m[i].ts) /\ Bytes(m) = f[n]
  BY BytesIsSum
<1>4. PICK g \in [0 .. n - 1 -> Nat] :
        g[0] = 0 /\ (\A i \in 1 .. n - 1 : g[i] = g[i - 1] + a[i].ts) /\ Bytes(a) = g[n - 1]
  BY <1>2, BytesIsSum
<1> DEFINE T == {i \in 0 .. n - 1 : g[i] = IF i < k THEN f[i] ELSE f[i + 1] - m[k].ts}
<1>5. 0 .. n - 1 \subseteq T
  <2>1. 0 \in T
    BY <1>1, <1>3, <1>4
  <2>2. ASSUME NEW i \in 0 .. (n - 1) - 1, i \in T
        PROVE  i + 1 \in T
    <3>1. i + 1 \in 1 .. n - 1 /\ i + 1 \in 1 .. n /\ i + 2 \in 1 .. n /\ (i + 1) - 1 = i
          /\ (i + 2) - 1 = i + 1
      BY <1>1
    <3>2. g[i + 1] = g[i] + a[i + 1].ts /\ f[i + 1] = f[i] + m[i + 1].ts
          /\ f[i + 2] = f[i + 1] + m[i + 2].ts
      BY <3>1, <1>3, <1>4
    <3>3. a[i + 1] = IF i + 1 < k THEN m[i + 1] ELSE m[i + 2]
      BY <3>1, <1>2
    <3>4. f[i] \in Nat /\ f[i + 1] \in Nat /\ f[i + 2] \in Nat /\ g[i] \in Nat
          /\ m[i + 1].ts \in Nat /\ m[i + 2].ts \in Nat /\ m[k].ts \in Nat
      <4>1. i \in 0 .. n /\ i + 1 \in 0 .. n /\ i + 2 \in 0 .. n /\ i \in 0 .. n - 1
        BY <1>1
      <4> QED
        BY <4>1, <3>1, <1>1, <1>3, <1>4
    <3>5. CASE i + 1 < k
      BY <2>2, <3>1, <3>2, <3>3, <3>4, <3>5
    <3>6. CASE i + 1 = k
      BY SMTT(30), <2>2, <3>1, <3>2, <3>3, <3>4, <3>6
    <3>7. CASE i + 1 > k
      <4>1. ~(i + 1 < k) /\ ~(i < k) /\ (i + 1) + 1 = i + 2
        BY <3>7
      <4>2. g[i] = f[i + 1] - m[k].ts /\ a[i + 1] = m[i + 2]
        BY <2>2, <3>3, <4>1
      <4>3. g[i + 1] = f[i + 2] - m[k].ts
        <5> DEFINE x == f[i + 1]
                   y == m[k].ts
                   z == m[i + 2].ts
        <5>1. g[i + 1] = (x - y) + z /\ f[i + 2] = x + z
          BY <4>2, <3>2
        <5>2. x \in Nat /\ y \in Nat /\ z \in Nat
          BY <3>4
        <5> HIDE DEF x, z
        <5>3. (x - y) + z = (x + z) - y
          BY <5>2
        <5> QED
          BY <5>1, <5>3
      <4> QED
        BY <4>1, <4>3, <3>1
    <3> QED
      BY <3>5, <3>6, <3>7
  <2>3. n - 1 \in Nat
    BY <1>1
  <2> HIDE DEF T, n
  <2> QED
    BY <2>1, <2>2, <2>3, Induction
<1>6. n - 1 \in T
  BY <1>1, <1>5
<1>7. CASE k = n
  <2>1. n \in 1 .. n /\ f[n] = f[n - 1] + m[n].ts /\ g[n - 1] = f[n - 1]
    BY <1>1, <1>3, <1>6, <1>7
  <2>2. f[n - 1] \in Nat /\ m[n].ts \in Nat
    BY <1>1, <1>3, <2>1
  <2> QED
    BY <1>3, <1>4, <1>7, <2>1, <2>2 DEF a
<1>8. CASE k < n
  <2>1. g[n - 1] = f[(n - 1) + 1] - m[k].ts /\ (n - 1) + 1 = n
    BY <1>1, <1>6, <1>8
  <2> QED
    BY <1>3, <1>4, <2>1 DEF a
<1> QED
  BY <1>1, <1>7, <1>8

-----------------------------------------------------------------------------
(* What is freed in one step: the free list and the map, sound.            *)
WorkType == [hdrs: Nat, map: MapType, mapwant: BOOLEAN, lost: SUBSET Nat,
             woken: SUBSET {Header, Text}]
Has(w) == UnitsOf(w.map) \union w.lost
Sound(w) == w \in WorkType /\ MapOK(w.map) /\ UnitsOf(w.map) \intersect w.lost = {}

\* Text that is freed goes to the map, or is lost; who wants the map is told if it
\* changes.
LEMMA FreeTextFacts ==
  ASSUME NEW w, Sound(w), NEW ts \in Nat, NEW addr \in Nat, ts = 0 <=> addr = 0,
         Segments(addr, ts) \intersect Has(w) = {}
  PROVE  LET r == FreeText(w, ts, addr)
         IN  /\ Sound(r) /\ r.hdrs = w.hdrs /\ Has(r) = Has(w) \union Segments(addr, ts)
             /\ w.woken \subseteq r.woken /\ (Header \in r.woken => Header \in w.woken)
             /\ Text \in r.woken \/ (r.mapwant = w.mapwant /\ (w.mapwant => r.map = w.map))
<1> DEFINE n == btoq(ts)
           r == FreeText(w, ts, addr)
<1>1. n \in Nat /\ (n = 0 <=> ts = 0)
  BY BtoqProperties
<1>2. Segments(addr, ts) = addr .. addr + n - 1 /\ Piece(addr, n) = addr .. addr + n - 1
  BY DEF Segments, Piece
<1>3. w \in WorkType /\ w.map \in MapType /\ w.lost \in SUBSET Nat /\ w.woken \in SUBSET {Header, Text}
      /\ w.hdrs \in Nat /\ w.mapwant \in BOOLEAN
      /\ MapOK(w.map) /\ UnitsOf(w.map) \intersect w.lost = {}
  BY DEF Sound, WorkType
<1>4. UnitsOf(w.map) \subseteq Int
  BY <1>3, InUnits
<1>5. CASE ts = 0
  <2>1. r = w /\ Segments(addr, ts) = {}
    BY <1>1, <1>2, <1>5 DEF FreeText
  <2> QED
    BY <2>1
<1>6. CASE ts > 0 /\ Overflows(w.map, n, addr)
  <2> DEFINE l == w.lost \union addr .. addr + n - 1
  <2>1. r = [w EXCEPT !.lost = l]
    BY <1>6 DEF FreeText
  <2>2. l \in SUBSET Nat
    BY <1>1, <1>3
  <2> HIDE DEF l, r
  <2>3. /\ r \in WorkType /\ r.hdrs = w.hdrs /\ r.map = w.map /\ r.mapwant = w.mapwant
        /\ r.lost = l /\ r.woken = w.woken
    BY <1>3, <2>1, <2>2 DEF WorkType
  <2>4. UnitsOf(r.map) \intersect r.lost = {}
    BY <1>2, <1>3, <2>3 DEF Has, l
  <2>5. Has(r) = Has(w) \union Segments(addr, ts)
    BY <1>2, <2>3 DEF Has, l
  <2>6. Sound(r)
    BY <1>3, <2>3, <2>4 DEF Sound
  <2> QED
    BY <2>3, <2>5, <2>6 DEF r
<1>7. CASE ts > 0 /\ ~Overflows(w.map, n, addr)
  <2> DEFINE m == rmfree(w.map, n, addr)
             k == w.woken \union IF w.mapwant THEN {Text} ELSE {}
  <2>1. r = [w EXCEPT !.map = m, !.mapwant = FALSE, !.woken = k]
    BY <1>7 DEF FreeText
  <2>2. m \in MapType /\ MapOK(m) /\ UnitsOf(m) = UnitsOf(w.map) \union Piece(addr, n)
    <3>1. n \in Nat \ {0} /\ addr \in Nat \ {0}
      BY <1>1, <1>7
    <3>2. Piece(addr, n) \intersect UnitsOf(w.map) = {}
      BY <1>2 DEF Has
    <3> QED
      BY <1>3, <1>7, <3>1, <3>2, RmfreeReturns
  <2>3. k \in SUBSET {Header, Text}
    BY <1>3
  <2>4. w.woken \subseteq k /\ (w.mapwant => Text \in k) /\ (Header \in k => Header \in w.woken)
    BY DEF Header, Text
  <2> HIDE DEF m, k, r
  <2>5. /\ r \in WorkType /\ r.hdrs = w.hdrs /\ r.map = m /\ r.mapwant = FALSE
        /\ r.lost = w.lost /\ r.woken = k
    BY <1>3, <2>1, <2>2, <2>3 DEF WorkType
  <2>6. UnitsOf(r.map) \intersect r.lost = {}
    BY <1>2, <1>3, <2>2, <2>5 DEF Has
  <2>7. Has(r) = Has(w) \union Segments(addr, ts)
    BY <1>2, <2>2, <2>5 DEF Has
  <2>8. Sound(r)
    BY <2>2, <2>5, <2>6 DEF Sound
  <2>9. Text \in r.woken \/ (r.mapwant = w.mapwant /\ (w.mapwant => r.map = w.map))
    BY <1>3, <2>4, <2>5
  <2> QED
    BY <2>4, <2>5, <2>7, <2>8, <2>9 DEF r
<1> QED
  BY <1>1, <1>5, <1>6, <1>7

\* A header that is freed wakes who waits for one, if there was none.
LEMMA FreeHeaderFacts ==
  ASSUME NEW w, Sound(w)
  PROVE  LET r == FreeHeader(w)
         IN  /\ Sound(r) /\ r.hdrs = w.hdrs + 1 /\ Has(r) = Has(w)
             /\ r.map = w.map /\ r.mapwant = w.mapwant /\ r.lost = w.lost
             /\ w.woken \subseteq r.woken /\ (Text \in r.woken => Text \in w.woken)
             /\ w.hdrs = 0 => Header \in r.woken
<1> DEFINE k == w.woken \union IF w.hdrs = 0 THEN {Header} ELSE {}
           r == FreeHeader(w)
<1>1. w \in WorkType /\ w.hdrs \in Nat /\ w.woken \in SUBSET {Header, Text}
  BY DEF Sound, WorkType
<1> DEFINE h == w.hdrs + 1
<1>2. r = [w EXCEPT !.hdrs = h, !.woken = k] /\ h \in Nat
  BY <1>1 DEF FreeHeader
<1>3. k \in SUBSET {Header, Text} /\ w.woken \subseteq k /\ (w.hdrs = 0 => Header \in k)
      /\ (Text \in k => Text \in w.woken)
  BY <1>1 DEF Header, Text
<1> HIDE DEF k, r, h
<1>4. /\ r \in WorkType /\ r.hdrs = h /\ r.map = w.map /\ r.mapwant = w.mapwant
      /\ r.lost = w.lost /\ r.woken = k
  BY <1>1, <1>2, <1>3 DEF WorkType
<1> QED
  BY <1>3, <1>4 DEF Sound, Has, r, h

\* What n messages that are freed make of w.
Freed(w, msgs, n, r) ==
  /\ Sound(r) /\ r.hdrs = w.hdrs + n
  /\ \A u : u \in Has(r) <=>
       u \in Has(w) \/ \E j \in 1 .. n : u \in Segments(msgs[j].addr, msgs[j].ts)
  /\ w.woken \subseteq r.woken
  /\ w.hdrs = 0 /\ n > 0 => Header \in r.woken
  /\ Text \in r.woken \/ (r.mapwant = w.mapwant /\ (w.mapwant => r.map = w.map))

\* The texts of messages are no part of w, or of each other.
TextsApart(w, msgs) == \A i \in 1 .. Len(msgs) :
  /\ \A u : ~(u \in Segments(msgs[i].addr, msgs[i].ts) /\ u \in Has(w))
  /\ \A j \in 1 .. Len(msgs) : \A u :
       i # j => ~(u \in Segments(msgs[i].addr, msgs[i].ts) /\ u \in Segments(msgs[j].addr, msgs[j].ts))

\* One message more is freed.
LEMMA FreedNext ==
  ASSUME NEW w, Sound(w), NEW msgs \in Seq(MsgType), TextsApart(w, msgs),
         NEW n \in 1 .. Len(msgs), NEW x, Freed(w, msgs, n - 1, x)
  PROVE  Freed(w, msgs, n, msgfree(x, msgs[n]))
<1> DEFINE m == msgs[n]
           y == FreeText(x, m.ts, m.addr)
           r == FreeHeader(y)
<1>1. /\ Len(msgs) \in Nat /\ msgs[n] \in MsgType
      /\ m.ts \in Nat /\ m.addr \in Nat /\ (m.ts = 0 <=> m.addr = 0)
  BY LenProperties, ElementOfSeq DEF MsgType
<1>2. Segments(m.addr, m.ts) \intersect Has(x) = {}
  <2>1. ASSUME NEW u, u \in Segments(m.addr, m.ts), u \in Has(x)
        PROVE  FALSE
    <3>1. u \in Has(w) \/ \E j \in 1 .. n - 1 : u \in Segments(msgs[j].addr, msgs[j].ts)
      BY <2>1 DEF Freed
    <3>2. u \notin Has(w)
      BY <2>1 DEF TextsApart
    <3>3. PICK j \in 1 .. n - 1 : u \in Segments(msgs[j].addr, msgs[j].ts)
      BY <3>1, <3>2
    <3>4. j \in 1 .. Len(msgs) /\ n # j
      BY <1>1
    <3> QED
      BY <2>1, <3>3, <3>4 DEF TextsApart
  <2> QED
    BY <2>1
<1>3. /\ Sound(y) /\ y.hdrs = x.hdrs /\ Has(y) = Has(x) \union Segments(m.addr, m.ts)
      /\ x.woken \subseteq y.woken
      /\ Text \in y.woken \/ (y.mapwant = x.mapwant /\ (x.mapwant => y.map = x.map))
  <2>1. Sound(x)
    BY DEF Freed
  <2> QED
    BY <1>1, <1>2, <2>1, FreeTextFacts
<1> HIDE DEF y
<1>4. /\ Sound(r) /\ r.hdrs = y.hdrs + 1 /\ Has(r) = Has(y)
      /\ r.map = y.map /\ r.mapwant = y.mapwant
      /\ y.woken \subseteq r.woken /\ (y.hdrs = 0 => Header \in r.woken)
  BY <1>3, FreeHeaderFacts
<1> HIDE DEF r
<1>5. \A u : u \in Has(r) <=>
        u \in Has(w) \/ \E j \in 1 .. n : u \in Segments(msgs[j].addr, msgs[j].ts)
  <2>1. \A j \in 1 .. n : j \in 1 .. n - 1 \/ j = n
    BY <1>1
  <2>2. \A j \in 1 .. n - 1 : j \in 1 .. n
    BY <1>1
  <2> QED
    BY <2>1, <2>2, <1>3, <1>4 DEF Freed
<1>6. w.hdrs \in Nat /\ x.hdrs = w.hdrs + (n - 1)
  BY DEF Sound, Freed, WorkType
<1>7. r.hdrs = w.hdrs + n
  BY <1>3, <1>4, <1>6, <1>1
<1>8. w.hdrs = 0 => Header \in r.woken
  <2>1. n = 1 => x.hdrs = w.hdrs
    BY <1>6
  <2>2. w.hdrs = 0 /\ n > 1 => Header \in x.woken
    BY <1>1 DEF Freed
  <2> QED
    BY <2>1, <2>2, <1>1, <1>3, <1>4
<1>9. Text \in r.woken \/ (r.mapwant = w.mapwant /\ (w.mapwant => r.map = w.map))
  BY <1>3, <1>4 DEF Freed
<1>10. w.woken \subseteq r.woken
  BY <1>3, <1>4 DEF Freed
<1>11. Freed(w, msgs, n, r)
  BY <1>4, <1>5, <1>7, <1>8, <1>9, <1>10 DEF Freed
<1> QED
  BY <1>11 DEF r, y, msgfree

\* The messages of a queue are freed one by one.
LEMMA FreeAllFacts ==
  ASSUME NEW w, Sound(w), w.woken = {}, NEW msgs \in Seq(MsgType), TextsApart(w, msgs)
  PROVE  Freed(w, msgs, Len(msgs), FreeAll(w, msgs))
<1> DEFINE n == Len(msgs)
           Solves(g) == g = [i \in 0 .. n |-> IF i = 0 THEN w ELSE msgfree(g[i - 1], msgs[i])]
           f == CHOOSE g : Solves(g)
<1>1. n \in Nat
  BY LenProperties
<1>3. Freed(w, msgs, 0, w)
  <2>1. w.hdrs \in Nat
    BY DEF Sound, WorkType
  <2> QED
    BY <2>1 DEF Freed
<1>4. \E g : Solves(g)
  <2> DEFINE step == [i \in 1 .. n |-> [x \in WorkType |->
                        IF msgfree(x, msgs[i]) \in WorkType THEN msgfree(x, msgs[i]) ELSE w]]
  <2>1. w \in WorkType
    BY DEF Sound
  <2>2. step \in [1 .. n -> [WorkType -> WorkType]]
    BY <2>1
  <2>3. \A i \in 1 .. n, x \in WorkType :
          msgfree(x, msgs[i]) \in WorkType => step[i][x] = msgfree(x, msgs[i])
    OBVIOUS
  <2> HIDE DEF step, n
  <2>4. PICK g \in [0 .. n -> WorkType] : Recurs(g, n, w, step)
    BY <1>1, <2>1, <2>2, Recursion
  <2>5. g[0] = w /\ \A i \in 1 .. n : g[i] = step[i][g[i - 1]]
    BY <2>4 DEF Recurs
  <2> DEFINE T == {i \in 0 .. n : /\ Freed(w, msgs, i, g[i])
                                  /\ i > 0 => g[i] = msgfree(g[i - 1], msgs[i])}
  <2>6. 0 \in T
    BY <1>1, <1>3, <2>5
  <2>7. ASSUME NEW i \in 0 .. n - 1, i \in T
        PROVE  i + 1 \in T
    <3> DEFINE j == i + 1
    <3>1. j \in 1 .. n /\ j - 1 = i /\ j \in 0 .. n /\ i \in 0 .. n
      BY <1>1
    <3> HIDE DEF j
    <3>2. Freed(w, msgs, j - 1, g[i]) /\ g[i] \in WorkType
      BY <2>4, <2>7, <3>1
    <3>3. Freed(w, msgs, j, msgfree(g[i], msgs[j]))
      BY <3>1, <3>2, FreedNext DEF n
    <3>4. msgfree(g[i], msgs[j]) \in WorkType
      BY <3>3 DEF Freed, Sound
    <3>5. g[j] = msgfree(g[j - 1], msgs[j])
      BY <2>3, <2>5, <3>1, <3>2, <3>4
    <3> QED
      BY <3>1, <3>3, <3>5 DEF j
  <2>8. 0 .. n \subseteq T
    <3> HIDE DEF T
    <3> QED
      BY <1>1, <2>6, <2>7, Induction
  <2>9. \A i \in 0 .. n : g[i] = IF i = 0 THEN w ELSE msgfree(g[i - 1], msgs[i])
    BY <1>1, <2>5, <2>8
  <2>10. g = [i \in 0 .. n |-> g[i]]
    BY <2>4
  <2>11. [i \in 0 .. n |-> g[i]]
           = [i \in 0 .. n |-> IF i = 0 THEN w ELSE msgfree(g[i - 1], msgs[i])]
    BY <2>9
  <2> QED
    BY <2>10, <2>11
<1>5. Solves(f)
  <2> HIDE DEF Solves
  <2> QED
    BY <1>4
<1>6. FreeAll(w, msgs) = f[n]
  BY DEF FreeAll
<1> HIDE DEF f
<1>7. f[0] = w /\ \A i \in 1 .. n : f[i] = msgfree(f[i - 1], msgs[i])
  <2>1. f[0] = w
    BY <1>1, <1>5
  <2>2. ASSUME NEW i \in 1 .. n
        PROVE  f[i] = msgfree(f[i - 1], msgs[i])
    <3>1. i \in 0 .. n /\ i # 0
      BY <1>1
    <3> QED
      BY <3>1, <1>5
  <2> QED
    BY <2>1, <2>2
<1> DEFINE T == {i \in 0 .. n : Freed(w, msgs, i, f[i])}
<1>8. 0 \in T
  BY <1>1, <1>3, <1>7
<1>9. ASSUME NEW i \in 0 .. n - 1, i \in T
      PROVE  i + 1 \in T
  <2> DEFINE j == i + 1
  <2>1. j \in 1 .. n /\ j - 1 = i /\ j \in 0 .. n
    BY <1>1
  <2> HIDE DEF j
  <2>2. Freed(w, msgs, j - 1, f[i])
    BY <1>9, <2>1
  <2>3. Freed(w, msgs, j, msgfree(f[i], msgs[j]))
    BY <2>1, <2>2, FreedNext
  <2> QED
    BY <2>1, <2>3, <1>7 DEF j
<1>10. 0 .. n \subseteq T
  <2> HIDE DEF T, n
  <2> QED
    BY <1>1, <1>8, <1>9, Induction
<1>11. n \in T
  BY <1>1, <1>10
<1> QED
  BY <1>6, <1>11

-----------------------------------------------------------------------------
(* The headers in use are counted.                                         *)
HeadersCounted ==
  /\ IsFiniteSet(Queued) /\ IsFiniteSet(Sending)
  /\ msgtql = pool.hdrs + Cardinality(Queued) + Cardinality(Sending)

QueuedSet == {x \in Slot \X (Nat \ {0}) : x[2] <= Len(que[x[1]].msgs)}
\* Queued, as a set of pairs with numbers.
LEMMA QueuedIs == Types => Queued = QueuedSet
<1> SUFFICES ASSUME Types
             PROVE  Queued = {x \in Slot \X (Nat \ {0}) : x[2] <= Len(que[x[1]].msgs)}
  BY DEF QueuedSet
<1>1. \A s \in Slot : DOMAIN que[s].msgs = 1 .. Len(que[s].msgs) /\ Len(que[s].msgs) \in Nat
  BY MsgsFacts
<1>2. Queued = {<<s, i>> : s \in Slot, i \in Nat \ {0}} \intersect Queued
  BY <1>1 DEF Queued
<1>3. \A s \in Slot, i \in Nat \ {0} : <<s, i>> \in Queued <=> i <= Len(que[s].msgs)
  BY <1>1 DEF Queued
<1> QED
  BY <1>2, <1>3

\* The interval up to n, for one slot, has n members.
LEMMA RowCounts ==
  ASSUME NEW s, NEW n \in Nat
  PROVE  IsFiniteSet({s} \X (1 .. n)) /\ Cardinality({s} \X (1 .. n)) = n
<1> DEFINE T == {i \in 0 .. n : IsFiniteSet({s} \X (1 .. i)) /\ Cardinality({s} \X (1 .. i)) = i}
<1>1. 0 \in T
  <2>1. {s} \X (1 .. 0) = {}
    OBVIOUS
  <2> QED
    BY <2>1, FS_EmptySet
<1>2. ASSUME NEW i \in 0 .. n - 1, i \in T
      PROVE  i + 1 \in T
  <2> DEFINE R == {s} \X (1 .. i)
  <2>1. {s} \X (1 .. i + 1) = R \union {<<s, i + 1>>} /\ <<s, i + 1>> \notin R
    OBVIOUS
  <2>2. IsFiniteSet(R) /\ Cardinality(R) = i
    BY <1>2
  <2> HIDE DEF R
  <2>3. /\ IsFiniteSet(R \union {<<s, i + 1>>})
        /\ Cardinality(R \union {<<s, i + 1>>}) = i + 1
    BY <2>1, <2>2, FS_AddElement
  <2> QED
    BY <2>1, <2>3
<1>3. 0 .. n \subseteq T
  <2> HIDE DEF T
  <2> QED
    BY <1>1, <1>2, Induction
<1> QED
  BY <1>3

\* A queue has a message more, or less, or none.
LEMMA QueuedAdds ==
  ASSUME Types, Types', HeadersCounted, NEW s \in Slot,
         Len(que'[s].msgs) = Len(que[s].msgs) + 1,
         \A t \in Slot \ {s} : que'[t].msgs = que[t].msgs
  PROVE  IsFiniteSet(Queued') /\ Cardinality(Queued') = Cardinality(Queued) + 1
<1> DEFINE n == Len(que[s].msgs)
<1>1. Queued = {x \in Slot \X (Nat \ {0}) : x[2] <= Len(que[x[1]].msgs)}
  BY QueuedIs DEF QueuedSet
<1>2. Queued' = {x \in Slot \X (Nat \ {0}) : x[2] <= Len(que'[x[1]].msgs)}
  <2>1. (Queued = QueuedSet)'
    BY QueuedIs, PTL
  <2> QED
    BY <2>1 DEF QueuedSet
<1>3. n \in Nat
  BY MsgsFacts
<1>4. Queued' = Queued \union {<<s, n + 1>>} /\ <<s, n + 1>> \notin Queued
  BY <1>1, <1>2, <1>3
<1>5. IsFiniteSet(Queued)
  BY DEF HeadersCounted
<1> QED
  BY <1>4, <1>5, FS_AddElement

\* Messages of the queue when one is received.
LEMMA QueuedDrops ==
  ASSUME Types, Types', HeadersCounted, NEW s \in Slot, NEW k \in Nat,
         Len(que'[s].msgs) = Len(que[s].msgs) - k,
         \A t \in Slot \ {s} : que'[t].msgs = que[t].msgs
  PROVE  IsFiniteSet(Queued') /\ Cardinality(Queued') = Cardinality(Queued) - k
<1> DEFINE n == Len(que[s].msgs)
           m == n - k
           R == {s} \X (1 .. n)
           Q == {s} \X (1 .. m)
           B == Queued \ R
<1>1. Queued = {x \in Slot \X (Nat \ {0}) : x[2] <= Len(que[x[1]].msgs)}
  BY QueuedIs DEF QueuedSet
<1>2. Queued' = {x \in Slot \X (Nat \ {0}) : x[2] <= Len(que'[x[1]].msgs)}
  <2>1. (Queued = QueuedSet)'
    BY QueuedIs, PTL
  <2> QED
    BY <2>1 DEF QueuedSet
<1>3. n \in Nat /\ m \in Nat
  <2>1. Len(que'[s].msgs) \in Nat
    <3>1. que'[s].msgs \in Seq(MsgType)
      BY DEF Types, QueType
    <3> QED
      BY <3>1, LenProperties
  <2> QED
    BY <2>1, MsgsFacts
<1>4. Queued = B \union R /\ B \intersect R = {}
  BY <1>1, <1>3
<1>5. Queued' = B \union Q /\ B \intersect Q = {}
  BY SMTT(30), <1>1, <1>2, <1>3
<1>6. IsFiniteSet(B) /\ IsFiniteSet(R) /\ IsFiniteSet(Q) /\ Cardinality(R) = n /\ Cardinality(Q) = m
  <2>1. IsFiniteSet(Queued)
    BY DEF HeadersCounted
  <2>2. IsFiniteSet(B)
    BY <2>1, FS_Difference
  <2> QED
    BY <1>3, <2>2, RowCounts
<1> HIDE DEF B, R, Q, n, m
<1>7. /\ Cardinality(Queued) = Cardinality(B) + n - Cardinality({})
      /\ IsFiniteSet(Queued') /\ Cardinality(Queued') = Cardinality(B) + m - Cardinality({})
  <2>1. Cardinality(B \union R) = Cardinality(B) + Cardinality(R) - Cardinality(B \intersect R)
    BY <1>6, FS_Union
  <2>2. /\ IsFiniteSet(B \union Q)
        /\ Cardinality(B \union Q) = Cardinality(B) + Cardinality(Q) - Cardinality(B \intersect Q)
    BY <1>6, FS_Union
  <2> QED
    BY <1>4, <1>5, <1>6, <2>1, <2>2
<1>8. Cardinality({}) = 0 /\ Cardinality(B) \in Nat
  BY <1>6, FS_EmptySet, FS_CardinalityType
<1> QED
  BY <1>3, <1>7, <1>8 DEF m

\* Who copies text when one begins.
LEMMA SendingAdds ==
  ASSUME HeadersCounted, NEW p \in Proc, pr[p].pc # "text", pr'[p].pc = "text",
         \A x \in Proc \ {p} : pr'[x].pc = "text" <=> pr[x].pc = "text"
  PROVE  IsFiniteSet(Sending') /\ Cardinality(Sending') = Cardinality(Sending) + 1
<1>1. Sending' = Sending \union {p} /\ p \notin Sending /\ IsFiniteSet(Sending)
  BY DEF Sending, HeadersCounted
<1> QED
  BY <1>1, FS_AddElement

\* Who copies text when one ends.
LEMMA SendingDrops ==
  ASSUME HeadersCounted, NEW p \in Proc, pr[p].pc = "text", pr'[p].pc # "text",
         \A x \in Proc \ {p} : pr'[x].pc = "text" <=> pr[x].pc = "text"
  PROVE  IsFiniteSet(Sending') /\ Cardinality(Sending') = Cardinality(Sending) - 1
<1>1. Sending' = Sending \ {p} /\ p \in Sending /\ IsFiniteSet(Sending)
  BY DEF Sending, HeadersCounted
<1> QED
  BY <1>1, FS_RemoveElement

-----------------------------------------------------------------------------
\* What becomes of the parts of the text.
LEMMA OwnersCases ==
  ASSUME NEW k \in Owners
  PROVE  \/ k = FreeO
         \/ k = LostO
         \/ \E s \in Slot, i \in Nat \ {0} : k = QueueO(s, i)
         \/ \E p \in Proc : k = SendO(p)
BY DEF Owners

\* What is, or may become, an owner.
LEMMA AreOwners ==
  /\ FreeO \in Owners /\ LostO \in Owners
  /\ \A s \in Slot, i \in Nat \ {0} : QueueO(s, i) \in Owners
  /\ \A p \in Proc : SendO(p) \in Owners
BY DEF Owners

(* The parts of x, a process or none, stay as they are, and so do those of *)
(* the queue t.                                                            *)
SendStays(p) ==
  /\ pr'[p].pc = "text" <=> pr[p].pc = "text"
  /\ pr[p].pc = "text" => pr'[p].got = pr[p].got /\ pr'[p].call = pr[p].call

\* What owns the same before and after.
LEMMA StaysOwned ==
  ASSUME Types, Types'
  PROVE  /\ \A p \in Proc : SendStays(p) => OwnedAll'[SendO(p)] = OwnedAll[SendO(p)]
         /\ \A s \in Slot : que'[s].msgs = que[s].msgs =>
              \A i \in Nat \ {0} : OwnedAll'[QueueO(s, i)] = OwnedAll[QueueO(s, i)]
<1>1. OwnedShape /\ OwnedShape'
  <2>1. OwnedShape
    BY OwnedIs
  <2>2. OwnedShape'
    BY OwnedIs, PTL
  <2> QED
    BY <2>1, <2>2
<1>2. ASSUME NEW p \in Proc, SendStays(p)
      PROVE  OwnedAll'[SendO(p)] = OwnedAll[SendO(p)]
  BY <1>1, <1>2 DEF OwnedShape, SendStays
<1>3. ASSUME NEW s \in Slot, que'[s].msgs = que[s].msgs, NEW i \in Nat \ {0}
      PROVE  OwnedAll'[QueueO(s, i)] = OwnedAll[QueueO(s, i)]
  BY <1>1, <1>3 DEF OwnedShape
<1> QED
  BY <1>2, <1>3

\* Nothing changes.
LEMMA TextStays ==
  ASSUME Types, Types', TextAccounted,
         pool'.map = pool.map, pool'.lost = pool.lost,
         \A s \in Slot : que'[s].msgs = que[s].msgs, \A p \in Proc : SendStays(p)
  PROVE  TextAccounted'
<1>1. OwnedShape /\ OwnedShape' /\ TextParts
  <2>1. OwnedShape /\ TextParts
    BY OwnedIs, TextIsPartition
  <2>2. OwnedShape'
    BY OwnedIs, PTL
  <2> QED
    BY <2>1, <2>2
<1>2. ASSUME NEW k \in Owners
      PROVE  OwnedAll'[k] = OwnedAll[k]
  <2>1. OwnedAll'[FreeO] = OwnedAll[FreeO] /\ OwnedAll'[LostO] = OwnedAll[LostO]
    BY <1>1 DEF OwnedShape
  <2> QED
    BY <2>1, OwnersCases, StaysOwned
<1>3. TextParts'
  <2>1. DOMAIN OwnedAll = Owners /\ DOMAIN OwnedAll' = Owners
    BY <1>1 DEF OwnedShape
  <2>2. Partition(OwnedAll', 1 .. msgseg)
    BY <1>1, <1>2, <2>1 DEF TextParts, Partition
  <2> QED
    BY <1>1, <2>2 DEF TextParts
<1> QED
  BY <1>3, TextIsPartition, PTL

\* A sender takes text from the map.
LEMMA TextTaken ==
  ASSUME Types, Types', TextAccounted, NEW p \in Proc, NEW P,
         MapOK(pool'.map), P \subseteq UnitsOf(pool.map),
         UnitsOf(pool'.map) = UnitsOf(pool.map) \ P, pool'.lost = pool.lost,
         \A s \in Slot : que'[s].msgs = que[s].msgs,
         \A x \in Proc \ {p} : SendStays(x),
         pr[p].pc # "text", pr'[p].pc = "text", P = Segments(pr'[p].got, pr'[p].call.ts)
  PROVE  TextAccounted'
<1>1. OwnedShape /\ OwnedShape' /\ TextParts
  <2>1. OwnedShape /\ TextParts
    BY OwnedIs, TextIsPartition
  <2>2. OwnedShape'
    BY OwnedIs, PTL
  <2> QED
    BY <2>1, <2>2
<1>2. /\ OwnedAll'[FreeO] = OwnedAll[FreeO] \ P /\ P \subseteq OwnedAll[FreeO]
      /\ OwnedAll'[SendO(p)] = OwnedAll[SendO(p)] \union P
  BY <1>1 DEF OwnedShape
<1>3. ASSUME NEW k \in Owners \ {FreeO, SendO(p)}
      PROVE  OwnedAll'[k] = OwnedAll[k]
  <2>1. OwnedAll'[LostO] = OwnedAll[LostO]
    BY <1>1 DEF OwnedShape
  <2> QED
    BY <2>1, OwnersCases, StaysOwned
<1>4. DOMAIN OwnedAll = Owners /\ DOMAIN OwnedAll' = Owners
  BY <1>1 DEF OwnedShape
<1>5. FreeO \in Owners /\ SendO(p) \in Owners /\ FreeO # SendO(p)
  BY AreOwners, OwnersDiffer
<1>6. Partition(OwnedAll', 1 .. msgseg)
  <2>1. Partition(OwnedAll, 1 .. msgseg)
    BY <1>1 DEF TextParts
  <2>2. Moves(OwnedAll, OwnedAll', FreeO, SendO(p), P)
    BY <1>2, <1>3, <1>4, <1>5 DEF Moves
  <2> QED
    BY <2>1, <2>2, PartitionMove
<1>7. TextParts'
  BY <1>6 DEF TextParts
<1> QED
  BY <1>7, TextIsPartition, PTL

\* A message goes on a queue, with the text that its sender has, or none.
LEMMA TextQueued ==
  ASSUME Types, Types', TextAccounted, NEW p \in Proc, NEW s \in Slot, NEW m \in MsgType,
         pool'.map = pool.map, pool'.lost = pool.lost,
         \A t \in Slot \ {s} : que'[t].msgs = que[t].msgs,
         que'[s].msgs = Append(que[s].msgs, m),
         \A x \in Proc \ {p} : SendStays(x), pr'[p].pc # "text",
         Segments(m.addr, m.ts) =
           IF pr[p].pc = "text" THEN Segments(pr[p].got, pr[p].call.ts) ELSE {}
  PROVE  TextAccounted'
<1> DEFINE n == Len(que[s].msgs)
           P == Segments(m.addr, m.ts)
           o == QueueO(s, n + 1)
<1>1. OwnedShape /\ OwnedShape' /\ TextParts
  <2>1. OwnedShape /\ TextParts
    BY OwnedIs, TextIsPartition
  <2>2. OwnedShape'
    BY OwnedIs, PTL
  <2> QED
    BY <2>1, <2>2
<1>2. /\ n \in Nat /\ Len(que'[s].msgs) = n + 1 /\ que'[s].msgs[n + 1] = m
      /\ \A i \in 1 .. n : que'[s].msgs[i] = que[s].msgs[i]
  BY MsgsFacts, AppendProperties
<1>a. \A i \in Nat \ {0} :
        /\ OwnedAll[QueueO(s, i)] =
             IF i <= n THEN Segments(que[s].msgs[i].addr, que[s].msgs[i].ts) ELSE {}
        /\ OwnedAll'[QueueO(s, i)] =
             IF i <= n + 1 THEN Segments(que'[s].msgs[i].addr, que'[s].msgs[i].ts) ELSE {}
  BY <1>1, <1>2 DEF OwnedShape
<1>b. n + 1 \in Nat \ {0} /\ ~(n + 1 <= n)
  BY <1>2
<1>3. /\ OwnedAll'[SendO(p)] = OwnedAll[SendO(p)] \ P /\ P \subseteq OwnedAll[SendO(p)]
      /\ OwnedAll'[o] = OwnedAll[o] \union P
  <2>1. OwnedAll[SendO(p)] = P /\ OwnedAll'[SendO(p)] = {}
    BY <1>1 DEF OwnedShape
  <2>2. OwnedAll[QueueO(s, n + 1)] = {}
    BY <1>a, <1>b
  <2>3. OwnedAll'[QueueO(s, n + 1)] = P
    BY <1>a, <1>b, <1>2
  <2> QED
    BY <2>1, <2>2, <2>3
<1>4. ASSUME NEW k \in Owners \ {SendO(p), o}
      PROVE  OwnedAll'[k] = OwnedAll[k]
  <2>1. OwnedAll'[LostO] = OwnedAll[LostO] /\ OwnedAll'[FreeO] = OwnedAll[FreeO]
    BY <1>1 DEF OwnedShape
  <2>2. ASSUME NEW i \in Nat \ {0}, k = QueueO(s, i)
        PROVE  OwnedAll'[k] = OwnedAll[k]
    <3>1. i # n + 1
      BY <2>2
    <3>2. i <= n \/ (~(i <= n) /\ ~(i <= n + 1))
      BY <1>2, <3>1
    <3>3. CASE i <= n
      <4>1. i \in 1 .. n /\ i <= n + 1
        BY <1>2, <3>3
      <4> QED
        BY <1>a, <1>2, <2>2, <3>3, <4>1
    <3>4. CASE ~(i <= n) /\ ~(i <= n + 1)
      BY <1>a, <2>2, <3>4
    <3> QED
      BY <3>2, <3>3, <3>4
  <2>3. ASSUME NEW t \in Slot \ {s}, NEW i \in Nat \ {0}, k = QueueO(t, i)
        PROVE  OwnedAll'[k] = OwnedAll[k]
    BY <2>3, StaysOwned
  <2>4. ASSUME NEW x \in Proc \ {p}, k = SendO(x)
        PROVE  OwnedAll'[k] = OwnedAll[k]
    BY <2>4, StaysOwned
  <2> QED
    BY <2>1, <2>2, <2>3, <2>4, OwnersCases
<1>5. DOMAIN OwnedAll = Owners /\ DOMAIN OwnedAll' = Owners
  BY <1>1 DEF OwnedShape
<1>6. o \in Owners /\ SendO(p) \in Owners /\ SendO(p) # o
  BY <1>b, AreOwners, OwnersDiffer
<1>7. Partition(OwnedAll', 1 .. msgseg)
  <2>1. Partition(OwnedAll, 1 .. msgseg)
    BY <1>1 DEF TextParts
  <2>2. Moves(OwnedAll, OwnedAll', SendO(p), o, P)
    <3> HIDE DEF o, P, n
    <3> QED
      BY <1>3, <1>4, <1>5, <1>6 DEF Moves
  <2> QED
    BY <2>1, <2>2, PartitionMove
<1>8. TextParts'
  BY <1>1, <1>7 DEF TextParts
<1> QED
  BY <1>8, TextIsPartition, PTL

(* The map and what is lost after a step, from which D is given back.      *)
GivesBack(G) ==
  /\ MapOK(pool'.map) /\ UnitsOf(pool'.map) \intersect pool'.lost = {}
  /\ \A u : u \in UnitsOf(pool'.map) \/ u \in pool'.lost <=>
              u \in UnitsOf(pool.map) \/ u \in pool.lost \/ u \in G

\* A sender gives its text back.
LEMMA TextGivenBack ==
  ASSUME Types, Types', TextAccounted, NEW p \in Proc,
         pr[p].pc = "text", pr'[p].pc # "text", GivesBack(Segments(pr[p].got, pr[p].call.ts)),
         \A t \in Slot : que'[t].msgs = que[t].msgs,
         \A x \in Proc \ {p} : SendStays(x)
  PROVE  TextAccounted'
<1>1. OwnedShape /\ OwnedShape' /\ TextParts
  <2>1. OwnedShape /\ TextParts
    BY OwnedIs, TextIsPartition
  <2>2. OwnedShape'
    BY OwnedIs, PTL
  <2> QED
    BY <2>1, <2>2
<1> DEFINE D == {SendO(p)}
<1>2. /\ \A k \in D : OwnedAll'[k] = {} /\ OwnedAll[k] = Segments(pr[p].got, pr[p].call.ts)
      /\ OwnedAll'[FreeO] \intersect OwnedAll'[LostO] = {}
  BY <1>1 DEF OwnedShape, GivesBack
<1>3. \A u : u \in OwnedAll'[FreeO] \/ u \in OwnedAll'[LostO] <=>
               u \in OwnedAll[FreeO] \/ u \in OwnedAll[LostO] \/ \E k \in D : u \in OwnedAll[k]
  BY <1>1, <1>2 DEF OwnedShape, GivesBack
<1>4. ASSUME NEW k \in Owners \ (D \union {FreeO, LostO})
      PROVE  OwnedAll'[k] = OwnedAll[k]
  BY OwnersCases, StaysOwned
<1>5. DOMAIN OwnedAll = Owners /\ DOMAIN OwnedAll' = Owners
  BY <1>1 DEF OwnedShape
<1>6. FreeO \in Owners /\ LostO \in Owners /\ FreeO # LostO /\ D \subseteq Owners \ {FreeO, LostO}
  BY AreOwners, OwnersDiffer
<1>7. Partition(OwnedAll', 1 .. msgseg)
  <2>1. Partition(OwnedAll, 1 .. msgseg)
    BY <1>1 DEF TextParts
  <2> HIDE DEF D
  <2> QED
    BY <1>2, <1>3, <1>4, <1>5, <1>6, <2>1, PartitionGather
<1>8. TextParts'
  BY <1>7 DEF TextParts, GivesBack
<1> QED
  BY <1>8, TextIsPartition, PTL

\* A queue is removed: the texts of its messages are given back.
LEMMA TextCleared ==
  ASSUME Types, Types', TextAccounted, NEW s \in Slot, NEW G,
         \A u : u \in G <=> \E j \in 1 .. Len(que[s].msgs) :
                              u \in Segments(que[s].msgs[j].addr, que[s].msgs[j].ts),
         GivesBack(G), Len(que'[s].msgs) = 0,
         \A t \in Slot \ {s} : que'[t].msgs = que[t].msgs,
         \A x \in Proc : SendStays(x)
  PROVE  TextAccounted'
<1> DEFINE D == {QueueO(s, i) : i \in Nat \ {0}}
<1>1. OwnedShape /\ OwnedShape' /\ TextParts
  <2>1. OwnedShape /\ TextParts
    BY OwnedIs, TextIsPartition
  <2>2. OwnedShape'
    BY OwnedIs, PTL
  <2> QED
    BY <2>1, <2>2
<1>2. \A k \in D : OwnedAll'[k] = {}
  BY <1>1 DEF OwnedShape
<1>3. \A u : u \in G <=> \E k \in D : u \in OwnedAll[k]
  <2>0. Len(que[s].msgs) \in Nat
    BY MsgsFacts
  <2>1. \A i \in Nat \ {0} : QueueO(s, i) \in D
    OBVIOUS
  <2>2. ASSUME NEW u, NEW k \in D, u \in OwnedAll[k]
        PROVE  u \in G
    <3>1. PICK i \in Nat \ {0} : k = QueueO(s, i)
      OBVIOUS
    <3> HIDE DEF D
    <3>2. i <= Len(que[s].msgs) /\ u \in Segments(que[s].msgs[i].addr, que[s].msgs[i].ts)
      BY <1>1, <2>2, <3>1 DEF OwnedShape
    <3> QED
      BY <2>0, <3>2
  <2>3. ASSUME NEW u \in G
        PROVE  \E k \in D : u \in OwnedAll[k]
    <3>1. PICK j \in 1 .. Len(que[s].msgs) :
            u \in Segments(que[s].msgs[j].addr, que[s].msgs[j].ts)
      OBVIOUS
    <3>2. j \in Nat \ {0} /\ j <= Len(que[s].msgs)
      BY <2>0
    <3>3. u \in OwnedAll[QueueO(s, j)]
      BY <1>1, <3>1, <3>2 DEF OwnedShape
    <3> QED
      BY <2>1, <3>2, <3>3
  <2> QED
    BY <2>2, <2>3
<1>4. \A u : u \in OwnedAll'[FreeO] \/ u \in OwnedAll'[LostO] <=>
               u \in OwnedAll[FreeO] \/ u \in OwnedAll[LostO] \/ \E k \in D : u \in OwnedAll[k]
  BY <1>1, <1>3 DEF OwnedShape, GivesBack
<1>5. OwnedAll'[FreeO] \intersect OwnedAll'[LostO] = {}
  BY <1>1 DEF OwnedShape, GivesBack
<1>6. ASSUME NEW k \in Owners \ (D \union {FreeO, LostO})
      PROVE  OwnedAll'[k] = OwnedAll[k]
  BY OwnersCases, StaysOwned
<1>7. DOMAIN OwnedAll = Owners /\ DOMAIN OwnedAll' = Owners
  BY <1>1 DEF OwnedShape
<1>8. FreeO \in Owners /\ LostO \in Owners /\ FreeO # LostO /\ D \subseteq Owners \ {FreeO, LostO}
  BY AreOwners, OwnersDiffer
<1>9. Partition(OwnedAll', 1 .. msgseg)
  <2>1. Partition(OwnedAll, 1 .. msgseg)
    BY <1>1 DEF TextParts
  <2> HIDE DEF D
  <2> QED
    BY <1>2, <1>4, <1>5, <1>6, <1>7, <1>8, <2>1, PartitionGather
<1>10. TextParts'
  BY <1>9 DEF TextParts, GivesBack
<1> QED
  BY <1>10, TextIsPartition, PTL

\* A message is received: its text is given back, and those behind it move up.
LEMMA TextReceived ==
  ASSUME Types, Types', TextAccounted, NEW s \in Slot, NEW i \in 1 .. Len(que[s].msgs),
         GivesBack(Segments(que[s].msgs[i].addr, que[s].msgs[i].ts)),
         que'[s].msgs = RemoveAt(que[s].msgs, i),
         \A t \in Slot \ {s} : que'[t].msgs = que[t].msgs,
         \A x \in Proc : SendStays(x)
  PROVE  TextAccounted'
<1> DEFINE n == Len(que[s].msgs)
           o == QueueO(s, i)
           D == {o}
           H == [k \in Owners |-> IF k \in {FreeO, LostO} THEN OwnedAll'[k]
                                  ELSE IF k = o THEN {} ELSE OwnedAll[k]]
           h == [k \in Owners |->
                  IF \E j \in Nat \ {0} : k = QueueO(s, j) /\ j >= i
                  THEN QueueO(s, (CHOOSE j \in Nat \ {0} : k = QueueO(s, j)) + 1) ELSE k]
<1>1. OwnedShape /\ OwnedShape' /\ TextParts
  <2>1. OwnedShape /\ TextParts
    BY OwnedIs, TextIsPartition
  <2>2. OwnedShape'
    BY OwnedIs, PTL
  <2> QED
    BY <2>1, <2>2
<1>2. /\ n \in Nat /\ i \in Nat \ {0} /\ i <= n /\ Len(que'[s].msgs) = n - 1
      /\ \A j \in 1 .. n - 1 :
           que'[s].msgs[j] = IF j < i THEN que[s].msgs[j] ELSE que[s].msgs[j + 1]
  <2>1. que[s].msgs \in Seq(MsgType) /\ n \in Nat
    BY MsgsFacts
  <2> DEFINE q == que[s].msgs
             r == RemoveAt(q, i)
  <2>2. /\ Len(r) = Len(q) - 1
        /\ \A j \in 1 .. Len(q) - 1 : r[j] = IF j < i THEN q[j] ELSE q[j + 1]
    <3> HIDE DEF q
    <3>1. q \in Seq(MsgType) /\ i \in 1 .. Len(q)
      BY <2>1 DEF q
    <3> QED
      BY <3>1, RemoveAtProperties
  <2> QED
    BY <2>1, <2>2
<1>a. \A j \in Nat \ {0} :
        /\ OwnedAll[QueueO(s, j)] =
             IF j <= n THEN Segments(que[s].msgs[j].addr, que[s].msgs[j].ts) ELSE {}
        /\ OwnedAll'[QueueO(s, j)] =
             IF j <= n - 1 THEN Segments(que'[s].msgs[j].addr, que'[s].msgs[j].ts) ELSE {}
  BY <1>1, <1>2 DEF OwnedShape
\* The messages before i stay, those behind it come from the next place.
<1>b. /\ \A j \in 1 .. i - 1 : OwnedAll'[QueueO(s, j)] = OwnedAll[QueueO(s, j)]
      /\ \A j \in i .. n - 1 : OwnedAll'[QueueO(s, j)] = OwnedAll[QueueO(s, j + 1)]
      /\ \A j \in Nat \ {0} : j > n - 1 => OwnedAll'[QueueO(s, j)] = {}
  <2>1. ASSUME NEW j \in 1 .. i - 1
        PROVE  OwnedAll'[QueueO(s, j)] = OwnedAll[QueueO(s, j)]
    <3>1. j \in Nat \ {0} /\ j \in 1 .. n - 1 /\ j <= n /\ j <= n - 1 /\ j < i
      BY <1>2
    <3> QED
      BY <3>1, <1>2, <1>a
  <2>2. ASSUME NEW j \in i .. n - 1
        PROVE  OwnedAll'[QueueO(s, j)] = OwnedAll[QueueO(s, j + 1)]
    <3>1. /\ j \in Nat \ {0} /\ j + 1 \in Nat \ {0} /\ j \in 1 .. n - 1 /\ j + 1 <= n /\ j <= n - 1
          /\ ~(j < i)
      BY <1>2
    <3>2. que'[s].msgs[j] = que[s].msgs[j + 1]
      BY <3>1, <1>2
    <3>3. OwnedAll'[QueueO(s, j)] = Segments(que'[s].msgs[j].addr, que'[s].msgs[j].ts)
      BY <3>1, <1>a
    <3>4. OwnedAll[QueueO(s, j + 1)] = Segments(que[s].msgs[j + 1].addr, que[s].msgs[j + 1].ts)
      BY <3>1, <1>a
    <3> QED
      BY <3>2, <3>3, <3>4
  <2>3. ASSUME NEW j \in Nat \ {0}, j > n - 1
        PROVE  OwnedAll'[QueueO(s, j)] = {}
    <3>1. ~(j <= n - 1)
      BY <1>2, <2>3
    <3> QED
      BY <3>1, <1>a
  <2> QED
    BY <2>1, <2>2, <2>3
<1>3. FreeO \in Owners /\ LostO \in Owners /\ FreeO # LostO /\ o \in Owners
      /\ D \subseteq Owners \ {FreeO, LostO}
  <2>1. o \in Owners /\ o # FreeO /\ o # LostO
    BY <1>2, AreOwners, OwnersDiffer
  <2> QED
    BY <2>1, AreOwners, OwnersDiffer
<1>4. DOMAIN OwnedAll = Owners /\ DOMAIN OwnedAll' = Owners
  BY <1>1 DEF OwnedShape
<1>5. Partition(H, 1 .. msgseg)
  <2>1. Partition(OwnedAll, 1 .. msgseg)
    BY <1>1 DEF TextParts
  <2>2. OwnedAll[o] = Segments(que[s].msgs[i].addr, que[s].msgs[i].ts)
    BY <1>1, <1>2 DEF OwnedShape
  <2>3. H[FreeO] = OwnedAll'[FreeO] /\ H[LostO] = OwnedAll'[LostO] /\ H[o] = {}
    BY <1>3
  <2>4. \A k \in Owners \ (D \union {FreeO, LostO}) : H[k] = OwnedAll[k]
    OBVIOUS
  <2>5. DOMAIN H = Owners /\ \A k \in D : H[k] = {}
    BY <2>3
  <2> HIDE DEF H, o
  <2>6. H[FreeO] \intersect H[LostO] = {}
    BY <1>1, <2>3 DEF OwnedShape, GivesBack
  <2>7. \A u : u \in H[FreeO] \/ u \in H[LostO] <=>
                 u \in OwnedAll[FreeO] \/ u \in OwnedAll[LostO] \/ \E k \in D : u \in OwnedAll[k]
    BY <1>1, <2>2, <2>3 DEF OwnedShape, GivesBack
  <2> HIDE DEF D
  <2> QED
    BY <1>3, <1>4, <2>1, <2>4, <2>5, <2>6, <2>7, PartitionGather
\* h says from where each part comes.
<1>6. /\ \A j \in Nat \ {0} : h[QueueO(s, j)] = IF j >= i THEN QueueO(s, j + 1) ELSE QueueO(s, j)
      /\ \A k \in Owners : (\A j \in Nat \ {0} : k # QueueO(s, j)) => h[k] = k
  <2>1. ASSUME NEW j \in Nat \ {0}
        PROVE  (CHOOSE l \in Nat \ {0} : QueueO(s, j) = QueueO(s, l)) = j
    <3>1. \A l \in Nat \ {0} : QueueO(s, j) = QueueO(s, l) <=> l = j
      BY OwnersDiffer
    <3> QED
      BY <3>1
  <2>2. ASSUME NEW j \in Nat \ {0}
        PROVE  (\E l \in Nat \ {0} : QueueO(s, j) = QueueO(s, l) /\ l >= i) <=> j >= i
    <3>1. \A l \in Nat \ {0} : QueueO(s, j) = QueueO(s, l) <=> l = j
      BY OwnersDiffer
    <3> QED
      BY <3>1
  <2>3. ASSUME NEW j \in Nat \ {0}
        PROVE  h[QueueO(s, j)] = IF j >= i THEN QueueO(s, j + 1) ELSE QueueO(s, j)
    <3>1. QueueO(s, j) \in Owners
      BY AreOwners
    <3> DEFINE x == QueueO(s, j)
    <3>2. h[x] = IF \E l \in Nat \ {0} : x = QueueO(s, l) /\ l >= i
                 THEN QueueO(s, (CHOOSE l \in Nat \ {0} : x = QueueO(s, l)) + 1) ELSE x
      BY <3>1
    <3> HIDE DEF h
    <3> QED
      BY <2>1, <2>2, <3>2
  <2> QED
    BY <2>3
<1> HIDE DEF h
<1>7. h \in [Owners -> Owners]
  <2>1. \A k \in Owners : h[k] \in Owners
    <3>1. \A j \in Nat \ {0} : h[QueueO(s, j)] \in Owners
      <4>1. \A j \in Nat \ {0} : j + 1 \in Nat \ {0}
        OBVIOUS
      <4> QED
        BY <1>6, <4>1, AreOwners
    <3> QED
      BY <1>6, <3>1
  <2>2. h = [k \in Owners |-> h[k]]
    BY DEF h
  <2> QED
    BY <2>1, <2>2
<1> DEFINE g == OwnedAll'
<1>8. ASSUME NEW k \in Owners
      PROVE  g[k] = {} \/ g[k] = H[h[k]]
  <2>1. CASE \E j \in Nat \ {0} : k = QueueO(s, j)
    <3>1. PICK j \in Nat \ {0} : k = QueueO(s, j)
      BY <2>1
    <3>2. QueueO(s, j) \notin {FreeO, LostO} /\ QueueO(s, j + 1) \notin {FreeO, LostO}
      BY OwnersDiffer
    <3>3. CASE j < i
      <4>1. ~(j >= i) /\ j # i /\ j \in 1 .. i - 1
        BY <1>2, <3>3
      <4>2. h[k] = k /\ k # o
        <5>1. h[k] = k
          BY <1>6, <3>1, <4>1
        <5>2. k # o
          BY <3>1, <4>1, OwnersDiffer
        <5> QED
          BY <5>1, <5>2
      <4>3. H[k] = OwnedAll[k]
        BY <3>1, <3>2, <4>2
      <4> QED
        BY <1>b, <3>1, <4>1, <4>2, <4>3
    <3>4. CASE j >= i /\ j <= n - 1
      <4>1. j \in i .. n - 1 /\ j + 1 \in Nat \ {0} /\ j + 1 # i
        BY <1>2, <3>4
      <4>2. h[k] = QueueO(s, j + 1)
        BY <1>6, <3>1, <3>4
      <4>3. QueueO(s, j + 1) # o /\ QueueO(s, j + 1) \in Owners
        BY <4>1, OwnersDiffer, AreOwners
      <4>4. H[h[k]] = OwnedAll[QueueO(s, j + 1)]
        BY <3>2, <4>2, <4>3
      <4> QED
        BY <1>b, <3>1, <4>1, <4>4
    <3>5. CASE j > n - 1
      BY <1>b, <3>1, <3>5
    <3> QED
      BY <1>2, <3>3, <3>4, <3>5
  <2>2. CASE \A j \in Nat \ {0} : k # QueueO(s, j)
    <3>1. h[k] = k /\ k # o
      BY <1>2, <1>6, <2>2
    <3>2. k \in {FreeO, LostO} \/ g[k] = OwnedAll[k]
      BY <2>2, OwnersCases, StaysOwned
    <3> QED
      BY <3>1, <3>2
  <2> QED
    BY <2>1, <2>2
<1>9. ASSUME NEW k \in Owners, NEW l \in Owners, h[k] = h[l]
      PROVE  k = l
  <2>1. ASSUME NEW x \in Owners, NEW y \in Owners, h[x] = h[y],
               NEW j \in Nat \ {0}, x = QueueO(s, j)
        PROVE  x = y
    <3>1. h[x] = IF j >= i THEN QueueO(s, j + 1) ELSE QueueO(s, j)
      BY <1>6, <2>1
    <3>2. \E q \in Nat \ {0} : y = QueueO(s, q)
      <4>1. ASSUME \A q \in Nat \ {0} : y # QueueO(s, q)
            PROVE  FALSE
        <5>1. h[y] = y
          BY <1>6, <4>1
        <5>2. j + 1 \in Nat \ {0}
          OBVIOUS
        <5> QED
          BY <2>1, <3>1, <4>1, <5>1, <5>2
      <4> QED
        BY <4>1
    <3>3. PICK q \in Nat \ {0} : y = QueueO(s, q)
      BY <3>2
    <3>4. h[y] = IF q >= i THEN QueueO(s, q + 1) ELSE QueueO(s, q)
      BY <1>6, <3>3
    <3>5. (IF j >= i THEN j + 1 ELSE j) = (IF q >= i THEN q + 1 ELSE q)
      BY <2>1, <3>1, <3>4, OwnersDiffer
    <3>6. j = q
      BY <1>2, <3>5
    <3> QED
      BY <2>1, <3>3, <3>6
  <2>2. CASE \E j \in Nat \ {0} : k = QueueO(s, j)
    BY <1>9, <2>1, <2>2
  <2>3. CASE \E j \in Nat \ {0} : l = QueueO(s, j)
    BY <1>9, <2>1, <2>3
  <2>4. CASE (\A j \in Nat \ {0} : k # QueueO(s, j)) /\ (\A j \in Nat \ {0} : l # QueueO(s, j))
    BY <1>6, <1>9, <2>4
  <2> QED
    BY <2>2, <2>3, <2>4
<1>10. ASSUME NEW k \in Owners, H[k] # {}
       PROVE  \E l \in Owners : g[l] = H[k]
  <2>1. CASE \E j \in Nat \ {0} : k = QueueO(s, j)
    <3>1. PICK j \in Nat \ {0} : k = QueueO(s, j)
      BY <2>1
    <3>2. k \notin {FreeO, LostO} /\ k # o /\ H[k] = OwnedAll[k]
      BY <1>10, <3>1, OwnersDiffer
    <3>3. j # i /\ j <= n
      BY <1>1, <1>10, <3>1, <3>2 DEF OwnedShape
    <3>4. CASE j < i
      <4>1. j \in 1 .. i - 1
        BY <1>2, <3>4
      <4>2. g[k] = OwnedAll[k]
        BY <1>b, <3>1, <4>1
      <4> QED
        BY <3>2, <4>2
    <3>5. CASE j > i
      <4>1. j - 1 \in i .. n - 1 /\ j - 1 \in Nat \ {0} /\ (j - 1) + 1 = j
        BY <1>2, <3>3, <3>5
      <4>2. g[QueueO(s, j - 1)] = OwnedAll[k]
        BY <1>b, <3>1, <4>1
      <4> QED
        BY <3>2, <4>1, <4>2, AreOwners
    <3> QED
      BY <1>2, <3>3, <3>4, <3>5
  <2>2. CASE \A j \in Nat \ {0} : k # QueueO(s, j)
    <3>1. k # o
      BY <1>2, <2>2
    <3>2. k \in {FreeO, LostO} \/ g[k] = OwnedAll[k]
      BY <2>2, OwnersCases, StaysOwned
    <3> QED
      BY <3>1, <3>2
  <2> QED
    BY <2>1, <2>2
<1>11. Partition(OwnedAll', 1 .. msgseg)
  <2>1. DOMAIN H = Owners
    OBVIOUS
  <2> HIDE DEF H
  <2> QED
    BY <1>4, <1>5, <1>7, <1>8, <1>9, <1>10, <2>1, PartitionRename
<1>12. TextParts'
  BY <1>11 DEF TextParts, GivesBack
<1> QED
  BY <1>12, TextIsPartition, PTL

-----------------------------------------------------------------------------
(* The invariant: it is inductive.                                         *)
BytesCounted == \A s \in Slot : que[s].cbytes = Bytes(que[s].msgs)
FreeSlotIsEmpty == \A s \in Slot : ~que[s].alloc => que[s].msgs = <<>>
IInv == Types /\ Locks /\ FreeSlotIsEmpty /\ TextAccounted /\ HeadersCounted /\ BytesCounted

(* A step that p may do: the queue is free for it, or it is the holder.    *)
Allowed(p, s, v, l, qr) ==
  /\ p \in Proc /\ s \in Slot /\ v \in ProcType /\ CallOK(v) /\ l \in BOOLEAN /\ qr \in QueType
  /\ Holds(p) => pr[p].slot = s
  /\ ~Holds(p) => ~msglock[s]
  /\ l <=> v.pc \in {"in", "text", "out"}
  /\ l => v.slot = s /\ qr.alloc /\ qr.seq = v.seq
  /\ v.pc = "out" => v.got = smp(qr.msgs, v.call.typ)
  /\ v.pc = "text" => ~(v.call.ts + qr.cbytes > qr.qbytes)
  /\ ~qr.alloc => qr.msgs = <<>>

(* What is left to show of such a step.                                    *)
Stepped(p, s, v, qr) ==
  /\ p \in Proc /\ s \in Slot /\ Types' /\ Locks' /\ FreeSlotIsEmpty'
  /\ que'[s] = qr /\ \A t \in Slot \ {s} : que'[t] = que[t]
  /\ pr'[p] = v
  /\ \A x \in Proc \ {p} : SendStays(x) /\ (pr'[x].pc = "text" <=> pr[x].pc = "text")

\* Types, locks and empty queues stay right in every such step.
LEMMA AllowedSteps ==
  ASSUME IInv, NEW p, NEW s, NEW v, NEW l, NEW chans, NEW qr,
         Allowed(p, s, v, l, qr), Step(p, s, v, l, chans, qr), pool' \in PoolType
  PROVE  Stepped(p, s, v, qr)
<1>0. Types /\ Locks /\ FreeSlotIsEmpty
  BY DEF IInv
<1>1. p \in Proc /\ s \in Slot /\ v \in ProcType /\ CallOK(v) /\ l \in BOOLEAN /\ qr \in QueType
  BY DEF Allowed
<1>2. /\ que' \in [Slot -> QueType] /\ msglock' \in [Slot -> BOOLEAN]
      /\ pr' \in [Proc -> ProcType] /\ \A x \in Proc : CallOK(pr'[x])
      /\ que'[s] = qr /\ \A t \in Slot \ {s} : que'[t] = que[t]
      /\ pr'[p] = v
      /\ \A x \in Proc \ {p} :
           /\ pr'[x].call = pr[x].call /\ pr'[x].got = pr[x].got
           /\ pr'[x].pc = IF pr[x].pc = "asleep" /\ pr[x].chan \in chans THEN "run" ELSE pr[x].pc
  BY <1>0, <1>1, StepFacts
<1>3. Types'
  <2>1. \A x \in Proc : CallOK(pr[x])'
    BY <1>2 DEF CallOK
  <2> QED
    BY <1>2, <2>1 DEF Types
<1>4. Locks'
  BY <1>0, <1>1, LocksKept DEF Allowed
<1>5. FreeSlotIsEmpty'
  BY <1>0, <1>2 DEF FreeSlotIsEmpty, Allowed
<1>6. \A x \in Proc \ {p} : SendStays(x) /\ (pr'[x].pc = "text" <=> pr[x].pc = "text")
  BY <1>2 DEF SendStays
<1> QED
  BY <1>1, <1>2, <1>3, <1>4, <1>5, <1>6 DEF Stepped

\* What IInv and Stepped say, by parts.
LEMMA SteppedFacts ==
  ASSUME IInv, NEW p, NEW s, NEW v, NEW qr, Stepped(p, s, v, qr)
  PROVE  /\ p \in Proc /\ s \in Slot /\ Types /\ Types' /\ TextAccounted /\ HeadersCounted
         /\ \A t \in Slot \ {s} : que'[t].msgs = que[t].msgs
         /\ que'[s] = qr /\ pr'[p] = v
         /\ \A x \in Proc \ {p} : SendStays(x) /\ (pr'[x].pc = "text" <=> pr[x].pc = "text")
         /\ pr[p].pc # "text" /\ v.pc # "text" =>
              \A x \in Proc : SendStays(x) /\ (pr'[x].pc = "text" <=> pr[x].pc = "text")
         /\ (pr[p].pc # "text" /\ v.pc # "text" => Sending' = Sending)
         /\ (qr.msgs = que[s].msgs =>
               Queued' = Queued /\ \A t \in Slot : que'[t].msgs = que[t].msgs)
<1>1. /\ p \in Proc /\ s \in Slot /\ Types /\ Types' /\ TextAccounted /\ HeadersCounted
      /\ \A t \in Slot \ {s} : que'[t].msgs = que[t].msgs
      /\ que'[s] = qr /\ pr'[p] = v
      /\ \A x \in Proc \ {p} : SendStays(x) /\ (pr'[x].pc = "text" <=> pr[x].pc = "text")
  BY DEF IInv, Stepped
<1>2. pr[p].pc # "text" /\ v.pc # "text" =>
        \A x \in Proc : SendStays(x) /\ (pr'[x].pc = "text" <=> pr[x].pc = "text")
  BY <1>1 DEF SendStays
<1>3. pr[p].pc # "text" /\ v.pc # "text" => Sending' = Sending
  BY <1>2 DEF Sending
<1>4. qr.msgs = que[s].msgs => \A t \in Slot : que'[t].msgs = que[t].msgs
  BY <1>1
<1>5. qr.msgs = que[s].msgs => Queued' = Queued
  BY <1>4 DEF Queued
<1> QED
  BY <1>1, <1>2, <1>3, <1>4, <1>5

\* The bytes of the other queues are theirs still.
LEMMA BytesFollow ==
  ASSUME IInv, NEW p, NEW s, NEW v, NEW qr, Stepped(p, s, v, qr), qr.cbytes = Bytes(qr.msgs)
  PROVE  BytesCounted'
BY DEF IInv, Stepped, BytesCounted

\* No text, header or message moves.
LEMMA QuietKeeps ==
  ASSUME IInv, NEW p, NEW s, NEW v, NEW qr, Stepped(p, s, v, qr),
         pool'.hdrs = pool.hdrs, pool'.map = pool.map, pool'.lost = pool.lost,
         qr.msgs = que[s].msgs, qr.cbytes = que[s].cbytes,
         pr[p].pc # "text", v.pc # "text"
  PROVE  IInv'
<1>1. TextAccounted'
  BY SteppedFacts, TextStays
<1>2. HeadersCounted'
  BY SteppedFacts DEF HeadersCounted
<1>3. BytesCounted'
  <2>1. qr.cbytes = Bytes(qr.msgs)
    BY SteppedFacts DEF IInv, BytesCounted
  <2> QED
    BY <2>1, BytesFollow
<1> QED
  BY <1>1, <1>2, <1>3 DEF IInv, Stepped

\* A sender takes a header, and text.
LEMMA TakeKeeps ==
  ASSUME IInv, NEW p, NEW s, NEW v, NEW qr, Stepped(p, s, v, qr), NEW P,
         pool.hdrs > 0, pool'.hdrs = pool.hdrs - 1, pool'.lost = pool.lost, MapOK(pool'.map),
         P \subseteq UnitsOf(pool.map), UnitsOf(pool'.map) = UnitsOf(pool.map) \ P,
         P = Segments(v.got, v.call.ts),
         qr = que[s], pr[p].pc # "text", v.pc = "text"
  PROVE  IInv'
<1>1. TextAccounted'
  BY SteppedFacts, TextTaken
<1>2. HeadersCounted'
  <2>1. IsFiniteSet(Sending') /\ Cardinality(Sending') = Cardinality(Sending) + 1
    BY SteppedFacts, SendingAdds
  <2>2. Cardinality(Sending) \in Nat /\ Cardinality(Queued) \in Nat /\ pool.hdrs \in Nat
    BY SteppedFacts, FS_CardinalityType DEF HeadersCounted, Types, PoolType
  <2> QED
    BY <2>1, <2>2, SteppedFacts DEF HeadersCounted
<1>3. BytesCounted'
  <2>1. qr.cbytes = Bytes(qr.msgs)
    BY SteppedFacts DEF IInv, BytesCounted
  <2> QED
    BY <2>1, BytesFollow
<1> QED
  BY <1>1, <1>2, <1>3 DEF IInv, Stepped

\* A message goes on the queue, with the header that its sender has, or the first free one.
LEMMA SendKeeps ==
  ASSUME IInv, NEW p, NEW s, NEW v, NEW qr, Stepped(p, s, v, qr), NEW m \in MsgType,
         pool'.map = pool.map, pool'.lost = pool.lost,
         pool'.hdrs = IF pr[p].pc = "text" THEN pool.hdrs ELSE pool.hdrs - 1,
         qr.msgs = Append(que[s].msgs, m), qr.cbytes = que[s].cbytes + m.ts,
         v.pc # "text",
         Segments(m.addr, m.ts) =
           IF pr[p].pc = "text" THEN Segments(pr[p].got, pr[p].call.ts) ELSE {}
  PROVE  IInv'
<1>0. que[s].msgs \in Seq(MsgType)
  BY SteppedFacts, MsgsFacts
<1>1. TextAccounted'
  BY SteppedFacts, TextQueued
<1>2. HeadersCounted'
  <2>1. IsFiniteSet(Queued') /\ Cardinality(Queued') = Cardinality(Queued) + 1
    <3>1. Len(qr.msgs) = Len(que[s].msgs) + 1
      BY <1>0, AppendProperties
    <3> QED
      BY <3>1, SteppedFacts, QueuedAdds
  <2>2. /\ Cardinality(Sending) \in Nat /\ Cardinality(Queued) \in Nat /\ pool.hdrs \in Nat
        /\ msgtql = pool.hdrs + Cardinality(Queued) + Cardinality(Sending)
        /\ IsFiniteSet(Sending)
    BY SteppedFacts, FS_CardinalityType DEF HeadersCounted, Types, PoolType
  <2>3. CASE pr[p].pc = "text"
    <3>1. IsFiniteSet(Sending') /\ Cardinality(Sending') = Cardinality(Sending) - 1
      BY <2>3, SteppedFacts, SendingDrops
    <3>2. pool'.hdrs = pool.hdrs
      BY <2>3
    <3>3. msgtql = pool'.hdrs + Cardinality(Queued') + Cardinality(Sending')
      BY <2>1, <2>2, <3>1, <3>2
    <3> QED
      BY <2>1, <3>1, <3>3 DEF HeadersCounted
  <2>4. CASE pr[p].pc # "text"
    <3>1. Sending' = Sending
      BY <2>4, SteppedFacts
    <3> QED
      BY <2>1, <2>2, <2>4, <3>1 DEF HeadersCounted
  <2> QED
    BY <2>3, <2>4
<1>3. BytesCounted'
  <2>1. que[s].cbytes = Bytes(que[s].msgs)
    BY SteppedFacts DEF IInv, BytesCounted
  <2>2. qr.cbytes = Bytes(qr.msgs)
    BY <1>0, <2>1, BytesAppend
  <2> QED
    BY <2>2, BytesFollow
<1> QED
  BY <1>1, <1>2, <1>3 DEF IInv, Stepped

-----------------------------------------------------------------------------
\* What is freed is in no other place.
LEMMA WorkFacts ==
  ASSUME Types, TextAccounted
  PROVE  /\ Sound(Work) /\ Work.woken = {} /\ Work.hdrs = pool.hdrs
         /\ Work.mapwant = pool.mapwant /\ Work.map = pool.map
         /\ Has(Work) = UnitsOf(pool.map) \union pool.lost
<1>1. /\ pool.hdrs \in Nat /\ pool.map \in MapType /\ pool.mapwant \in BOOLEAN
      /\ pool.lost \in SUBSET Nat
  BY DEF Types, PoolType
<1>2. OwnedShape /\ TextParts
  BY OwnedIs, TextIsPartition
<1>3. MapOK(pool.map)
  BY <1>2 DEF TextParts
<1>4. UnitsOf(pool.map) \intersect pool.lost = {}
  BY <1>2, AreOwners, OwnersDiffer DEF TextParts, Partition, OwnedShape
<1>5. /\ Work.woken = {} /\ Work.hdrs = pool.hdrs /\ Work.map = pool.map
      /\ Work.mapwant = pool.mapwant /\ Work.lost = pool.lost
      /\ Work \in WorkType
  BY <1>1 DEF Work, WorkType
<1> QED
  BY <1>3, <1>4, <1>5 DEF Sound, Has

\* The text on a queue, and of a sender, is not free and not lost.
LEMMA PartsApart ==
  ASSUME Types, TextAccounted
  PROVE  /\ \A s \in Slot : TextsApart(Work, que[s].msgs)
         /\ \A s \in Slot : \A i \in 1 .. Len(que[s].msgs) :
              Segments(que[s].msgs[i].addr, que[s].msgs[i].ts) \intersect Has(Work) = {}
         /\ \A p \in Proc : pr[p].pc = "text" =>
              Segments(pr[p].got, pr[p].call.ts) \intersect Has(Work) = {}
<1>1. OwnedShape /\ TextParts
  BY OwnedIs, TextIsPartition
<1>2. Has(Work) = UnitsOf(pool.map) \union pool.lost
  BY WorkFacts
<1>3. \A k, l \in Owners : \A u : k # l => ~(u \in OwnedAll[k] /\ u \in OwnedAll[l])
  BY <1>1 DEF TextParts, Partition, OwnedShape
<1>4. \A k \in Owners \ {FreeO, LostO} : \A u : u \in OwnedAll[k] => u \notin Has(Work)
  BY <1>1, <1>2, <1>3, AreOwners DEF OwnedShape
<1>5. ASSUME NEW s \in Slot, NEW i \in 1 .. Len(que[s].msgs)
      PROVE  /\ QueueO(s, i) \in Owners \ {FreeO, LostO}
             /\ OwnedAll[QueueO(s, i)] = Segments(que[s].msgs[i].addr, que[s].msgs[i].ts)
  <2>1. i \in Nat \ {0} /\ i <= Len(que[s].msgs)
    BY MsgsFacts
  <2> QED
    BY <1>1, <2>1, AreOwners, OwnersDiffer DEF OwnedShape
<1>6. ASSUME NEW s \in Slot
      PROVE  TextsApart(Work, que[s].msgs)
  <2>1. ASSUME NEW i \in 1 .. Len(que[s].msgs), NEW j \in 1 .. Len(que[s].msgs), i # j
        PROVE  QueueO(s, i) # QueueO(s, j)
    BY <2>1, OwnersDiffer
  <2> QED
    BY <2>1, <1>3, <1>4, <1>5 DEF TextsApart
<1>7. ASSUME NEW p \in Proc, pr[p].pc = "text"
      PROVE  Segments(pr[p].got, pr[p].call.ts) \intersect Has(Work) = {}
  <2>1. SendO(p) \in Owners \ {FreeO, LostO}
    BY AreOwners, OwnersDiffer
  <2>2. OwnedAll[SendO(p)] = Segments(pr[p].got, pr[p].call.ts)
    BY <1>1, <1>7 DEF OwnedShape
  <2> QED
    BY <1>4, <2>1, <2>2
<1> QED
  BY <1>4, <1>5, <1>6, <1>7

\* The pool that a step leaves.
LEMMA StoredFacts ==
  ASSUME Types, TextAccounted, NEW w, Sound(w), Stored(w)
  PROVE  /\ pool' \in PoolType /\ pool'.hdrs = w.hdrs /\ pool'.mapwant = w.mapwant
         /\ pool'.map = w.map /\ pool'.lost = w.lost
         /\ \A G : (\A u : u \in Has(w) <=> u \in Has(Work) \/ u \in G) => GivesBack(G)
<1>1. /\ w.hdrs \in Nat /\ w.map \in MapType /\ w.mapwant \in BOOLEAN /\ w.lost \in SUBSET Nat
      /\ MapOK(w.map) /\ UnitsOf(w.map) \intersect w.lost = {}
  BY DEF Sound, WorkType
<1>2. pool' = [hdrs |-> w.hdrs, map |-> w.map, mapwant |-> w.mapwant, lost |-> w.lost]
  BY DEF Stored
<1>3. /\ pool' \in PoolType /\ pool'.hdrs = w.hdrs /\ pool'.mapwant = w.mapwant
      /\ pool'.map = w.map /\ pool'.lost = w.lost
  BY <1>1, <1>2 DEF PoolType
<1>4. ASSUME NEW G, \A u : u \in Has(w) <=> u \in Has(Work) \/ u \in G
      PROVE  GivesBack(G)
  <2>1. Has(Work) = UnitsOf(pool.map) \union pool.lost
    BY WorkFacts
  <2> QED
    BY <1>1, <1>3, <1>4, <2>1 DEF GivesBack, Has
<1> QED
  BY <1>3, <1>4

\* A sender gives back its header and text.
LEMMA GiveKeeps ==
  ASSUME IInv, NEW p, NEW s, NEW v, NEW qr, Stepped(p, s, v, qr),
         pool'.hdrs = pool.hdrs + 1, GivesBack(Segments(pr[p].got, pr[p].call.ts)),
         qr = que[s], pr[p].pc = "text", v.pc # "text"
  PROVE  IInv'
<1>1. TextAccounted'
  BY SteppedFacts, TextGivenBack
<1>2. HeadersCounted'
  <2>1. IsFiniteSet(Sending') /\ Cardinality(Sending') = Cardinality(Sending) - 1
    BY SteppedFacts, SendingDrops
  <2>2. /\ Cardinality(Sending) \in Nat /\ Cardinality(Queued) \in Nat /\ pool.hdrs \in Nat
        /\ msgtql = pool.hdrs + Cardinality(Queued) + Cardinality(Sending)
        /\ Queued' = Queued /\ IsFiniteSet(Queued)
    BY SteppedFacts, FS_CardinalityType DEF HeadersCounted, Types, PoolType
  <2>3. msgtql = pool'.hdrs + Cardinality(Queued') + Cardinality(Sending')
    BY <2>1, <2>2
  <2> QED
    BY <2>1, <2>2, <2>3 DEF HeadersCounted
<1>3. BytesCounted'
  <2>1. qr.cbytes = Bytes(qr.msgs)
    BY SteppedFacts DEF IInv, BytesCounted
  <2> QED
    BY <2>1, BytesFollow
<1> QED
  BY <1>1, <1>2, <1>3 DEF IInv, Stepped

\* A message is received.
LEMMA ReceiveKeeps ==
  ASSUME IInv, NEW p, NEW s, NEW v, NEW qr, Stepped(p, s, v, qr),
         NEW i \in 1 .. Len(que[s].msgs),
         pool'.hdrs = pool.hdrs + 1,
         GivesBack(Segments(que[s].msgs[i].addr, que[s].msgs[i].ts)),
         qr.msgs = RemoveAt(que[s].msgs, i), qr.cbytes = que[s].cbytes - que[s].msgs[i].ts,
         pr[p].pc # "text", v.pc # "text"
  PROVE  IInv'
<1>0. que[s].msgs \in Seq(MsgType) /\ Len(que[s].msgs) \in Nat
  BY SteppedFacts, MsgsFacts
<1>1. TextAccounted'
  BY SteppedFacts, TextReceived
<1>2. HeadersCounted'
  <2>0. Len(qr.msgs) = Len(que[s].msgs) - 1
    <3> DEFINE q == que[s].msgs
    <3>1. Len(RemoveAt(q, i)) = Len(q) - 1
      BY <1>0, RemoveAtProperties
    <3> QED
      BY <3>1
  <2>1. IsFiniteSet(Queued') /\ Cardinality(Queued') = Cardinality(Queued) - 1
    <3>1. /\ Types /\ Types' /\ HeadersCounted /\ s \in Slot /\ 1 \in Nat
          /\ Len(que'[s].msgs) = Len(que[s].msgs) - 1
          /\ \A t \in Slot \ {s} : que'[t].msgs = que[t].msgs
      BY <2>0, SteppedFacts
    <3> QED
      BY <3>1, QueuedDrops
  <2>2. /\ Cardinality(Sending) \in Nat /\ Cardinality(Queued) \in Nat /\ pool.hdrs \in Nat
        /\ msgtql = pool.hdrs + Cardinality(Queued) + Cardinality(Sending)
        /\ Sending' = Sending /\ IsFiniteSet(Sending)
    BY SteppedFacts, FS_CardinalityType DEF HeadersCounted, Types, PoolType
  <2>3. msgtql = pool'.hdrs + Cardinality(Queued') + Cardinality(Sending')
    BY <2>1, <2>2
  <2> QED
    BY <2>1, <2>2, <2>3 DEF HeadersCounted
<1>3. BytesCounted'
  <2>1. que[s].cbytes = Bytes(que[s].msgs)
    BY SteppedFacts DEF IInv, BytesCounted
  <2>2. qr.cbytes = Bytes(qr.msgs)
    BY <1>0, <2>1, BytesRemoveAt
  <2> QED
    BY <2>2, BytesFollow
<1> QED
  BY <1>1, <1>2, <1>3 DEF IInv, Stepped

\* A queue is removed.
LEMMA ClearKeeps ==
  ASSUME IInv, NEW p, NEW s, NEW v, NEW qr, Stepped(p, s, v, qr), NEW G,
         pool'.hdrs = pool.hdrs + Len(que[s].msgs),
         \A u : u \in G <=> \E j \in 1 .. Len(que[s].msgs) :
                              u \in Segments(que[s].msgs[j].addr, que[s].msgs[j].ts),
         GivesBack(G),
         qr.msgs = <<>>, qr.cbytes = 0,
         pr[p].pc # "text", v.pc # "text"
  PROVE  IInv'
<1>0. Len(que[s].msgs) \in Nat /\ Len(qr.msgs) = 0
  BY SteppedFacts, MsgsFacts
<1>1. TextAccounted'
  BY <1>0, SteppedFacts, TextCleared
<1>2. HeadersCounted'
  <2>0. Len(qr.msgs) = Len(que[s].msgs) - Len(que[s].msgs)
    BY <1>0
  <2>1. /\ IsFiniteSet(Queued')
        /\ Cardinality(Queued') = Cardinality(Queued) - Len(que[s].msgs)
    <3>1. /\ Types /\ Types' /\ HeadersCounted /\ s \in Slot
          /\ Len(que'[s].msgs) = Len(que[s].msgs) - Len(que[s].msgs)
          /\ \A t \in Slot \ {s} : que'[t].msgs = que[t].msgs
      BY <2>0, SteppedFacts
    <3> QED
      BY <1>0, <3>1, QueuedDrops
  <2>2. /\ Cardinality(Sending) \in Nat /\ Cardinality(Queued) \in Nat /\ pool.hdrs \in Nat
        /\ msgtql = pool.hdrs + Cardinality(Queued) + Cardinality(Sending)
        /\ Sending' = Sending /\ IsFiniteSet(Sending)
    BY SteppedFacts, FS_CardinalityType DEF HeadersCounted, Types, PoolType
  <2>3. msgtql = pool'.hdrs + Cardinality(Queued') + Cardinality(Sending')
    BY <1>0, <2>1, <2>2
  <2> QED
    BY <2>1, <2>2, <2>3 DEF HeadersCounted
<1>3. BytesCounted'
  <2>1. qr.cbytes = Bytes(qr.msgs)
    BY BytesEmpty
  <2> QED
    BY <2>1, BytesFollow
<1> QED
  BY <1>1, <1>2, <1>3 DEF IInv, Stepped

-----------------------------------------------------------------------------
(* The lock of s is for p to take, or p has it.                            *)
MayLock(p, s) ==
  /\ p \in Proc /\ s \in Slot
  /\ Holds(p) => pr[p].slot = s
  /\ ~Holds(p) => ~msglock[s]

(* A queue that the step may leave.                                        *)
MayLeave(qr) == qr \in QueType /\ (~qr.alloc => qr.msgs = <<>>)

\* What a call ends with.
LEMMA IdleFacts == Idle \in ProcType /\ CallOK(Idle) /\ Idle.pc = "idle"
BY DEF Idle, ProcType, CallOK, Chans

\* The ways to end a step: leave, sleep, copy.
LEMMA LeaveSteps ==
  ASSUME IInv, NEW p, NEW s, MayLock(p, s), NEW qr, MayLeave(qr), NEW chans,
         Leave(p, s, chans), que' = [que EXCEPT ![s] = qr], pool' \in PoolType
  PROVE  Stepped(p, s, Idle, qr)
<1>1. Step(p, s, Idle, FALSE, {Locked(s)} \union chans, qr)
  BY DEF Leave, Step, Others, Unlocked
<1>2. Allowed(p, s, Idle, FALSE, qr)
  BY IdleFacts DEF Allowed, MayLock, MayLeave
<1> QED
  BY <1>1, <1>2, AllowedSteps

\* Sleep is a step of the queue that it leaves.
LEMMA SleepSteps ==
  ASSUME IInv, NEW p, NEW s, MayLock(p, s), NEW qr, MayLeave(qr), NEW chans,
         NEW me \in ProcType, me.call \in Calls, me.slot = s,
         NEW chan \in Chans,
         \/ chan \in {Room(s), Header, Text} /\ me.call.op = "msgsnd"
         \/ chan = Mail(s) /\ me.call.op = "msgrcv",
         Sleep(p, me, s, chan, chans), que' = [que EXCEPT ![s] = qr], pool' \in PoolType
  PROVE  \E v : Stepped(p, s, v, qr) /\ v.pc = "asleep"
<1> DEFINE v == [me EXCEPT !.pc = "asleep", !.again = TRUE, !.chan = chan]
<1>1. Step(p, s, v, FALSE, {Locked(s)} \union chans, qr)
  BY DEF Sleep, Step, Others, Unlocked
<1>2. v \in ProcType /\ v.pc = "asleep" /\ v.chan = chan /\ v.call = me.call /\ v.slot = me.slot
  BY DEF ProcType
<1>3. CallOK(v)
  <2> HIDE DEF v
  <2> QED
    BY <1>2, s \in Slot DEF CallOK, MayLock
<1> HIDE DEF v
<1>4. Allowed(p, s, v, FALSE, qr)
  BY <1>2, <1>3 DEF Allowed, MayLock, MayLeave
<1> QED
  BY <1>1, <1>2, <1>4, AllowedSteps

(* What is copied, and when.                                               *)
MayCopy(me, qr, at, got) ==
  /\ me \in ProcType /\ me.call \in Calls /\ qr.alloc /\ qr.seq = me.seq /\ got \in Nat
  /\ \/ at = "in" /\ me.call.op \in {"msgsnd", "IPC_SET"}
     \/ /\ at = "text" /\ me.call.op = "msgsnd" /\ me.call.ts > 0 /\ got > 0
        /\ ~(me.call.ts + qr.cbytes > qr.qbytes)
     \/ at = "out" /\ me.call.op = "msgrcv" /\ got > 0 /\ got = smp(qr.msgs, me.call.typ)

(* The record of who copies.                                               *)
Copying(me, at, got) == [me EXCEPT !.pc = at, !.chan = NULL, !.got = got]

\* What a record is while it copies.
LEMMA CopyingFacts ==
  ASSUME NEW me, NEW qr, NEW at, NEW got, MayCopy(me, qr, at, got)
  PROVE  LET v == Copying(me, at, got)
         IN  v.pc = at /\ v.got = got /\ v.call = me.call
BY DEF MayCopy, Copying, ProcType

\* Copies is a step of the queue that it locks.
LEMMA CopiesSteps ==
  ASSUME IInv, NEW p, NEW s, MayLock(p, s), NEW qr, MayLeave(qr),
         NEW me, me.slot = s, NEW at, NEW got, MayCopy(me, qr, at, got),
         Copies(p, me, s, at, got), que' = [que EXCEPT ![s] = qr], pool' \in PoolType
  PROVE  Stepped(p, s, Copying(me, at, got), qr)
<1> DEFINE v == Copying(me, at, got)
<1>1. Step(p, s, v, TRUE, {Locked(s)} \union {}, qr)
  BY DEF Copies, Step, Others, Copying
<1>2. /\ v \in ProcType /\ v.pc = at /\ v.got = got /\ v.call = me.call /\ v.slot = me.slot
      /\ v.seq = me.seq
  BY DEF ProcType, Chans, MayCopy, Copying
<1>3. CallOK(v)
  <2> HIDE DEF v
  <2> QED
    BY <1>2 DEF CallOK, MayLock, MayCopy
<1> HIDE DEF v
<1>4. Allowed(p, s, v, TRUE, qr)
  BY <1>2, <1>3 DEF Allowed, MayLock, MayLeave, MayCopy
<1>5. Stepped(p, s, v, qr)
  BY <1>1, <1>2, <1>4, AllowedSteps
<1> QED
  BY <1>5 DEF v

-----------------------------------------------------------------------------
(* p is in its call with the queue there.                                  *)
Ready(p, me) ==
  /\ MayLock(p, me.slot) /\ me \in ProcType /\ me.call \in Calls /\ Valid(me)
  /\ pr[p].pc # "text"

\* A queue that stays as it is, but for what Append1 and the flags change.
LEMMA QueueFacts ==
  ASSUME IInv, NEW s \in Slot
  PROVE  /\ que[s] \in QueType /\ MayLeave(que[s]) /\ que = [que EXCEPT ![s] = que[s]]
         /\ pool \in PoolType
BY DEF IInv, Types, MayLeave, FreeSlotIsEmpty

\* What the calls have.
LEMMA CallFacts ==
  ASSUME NEW c \in Calls
  PROVE  /\ c.op \in {"msgsnd", "msgrcv", "IPC_RMID", "IPC_SET"}
         /\ c.op = "msgsnd" => c.type \in Nat \ {0} /\ c.ts \in Nat
         /\ c.op = "msgrcv" => c.typ \in Int
         /\ c.op = "IPC_SET" => c.qbytes \in 0 .. msgmnb
BY MsgAssumption

\* The three ways to end a step in which nothing moves: the queue's flags, limit or
\* sequence number may change.
LEMMA QuietLeave ==
  ASSUME IInv, NEW p, NEW s, MayLock(p, s), pr[p].pc # "text", NEW qr, MayLeave(qr),
         qr.msgs = que[s].msgs, qr.cbytes = que[s].cbytes, NEW chans, Leave(p, s, chans),
         que' = [que EXCEPT ![s] = qr], pool' \in PoolType,
         pool'.hdrs = pool.hdrs, pool'.map = pool.map, pool'.lost = pool.lost
  PROVE  IInv'
<1>1. Stepped(p, s, Idle, qr)
  BY LeaveSteps
<1> QED
  BY <1>1, IdleFacts, QuietKeeps

\* The same for a process that goes to sleep.
LEMMA QuietSleep ==
  ASSUME IInv, NEW p, NEW me, Ready(p, me), NEW qr, MayLeave(qr),
         qr.msgs = que[me.slot].msgs, qr.cbytes = que[me.slot].cbytes,
         NEW chan \in Chans,
         \/ chan \in {Room(me.slot), Header, Text} /\ me.call.op = "msgsnd"
         \/ chan = Mail(me.slot) /\ me.call.op = "msgrcv",
         NEW chans, Sleep(p, me, me.slot, chan, chans), que' = [que EXCEPT ![me.slot] = qr],
         pool' \in PoolType,
         pool'.hdrs = pool.hdrs, pool'.map = pool.map, pool'.lost = pool.lost
  PROVE  IInv'
<1>1. PICK v : Stepped(p, me.slot, v, qr) /\ v.pc = "asleep"
  BY SleepSteps DEF Ready
<1> QED
  BY <1>1, QuietKeeps DEF Ready

\* The same for a process that begins to copy.
LEMMA QuietCopies ==
  ASSUME IInv, NEW p, NEW me, Ready(p, me), NEW at, NEW got \in Nat,
         \/ at = "in" /\ me.call.op \in {"msgsnd", "IPC_SET"}
         \/ /\ at = "out" /\ me.call.op = "msgrcv" /\ got > 0
            /\ got = smp(que[me.slot].msgs, me.call.typ),
         Copies(p, me, me.slot, at, got), UNCHANGED <<que, pool>>
  PROVE  IInv'
<1>1. /\ me.slot \in Slot /\ MayLeave(que[me.slot]) /\ que[me.slot].alloc
      /\ que[me.slot].seq = me.seq /\ pool' \in PoolType
      /\ que' = [que EXCEPT ![me.slot] = que[me.slot]]
  BY QueueFacts DEF Ready, MayLock, Valid
<1>2. at \in {"in", "out"}
  OBVIOUS
<1>3. MayLock(p, me.slot) /\ me \in ProcType /\ me.call \in Calls /\ pr[p].pc # "text"
  BY DEF Ready
<1> DEFINE s == me.slot
           qr == que[s]
<1>4. /\ s \in Slot /\ MayLeave(qr) /\ MayLock(p, s) /\ pool' \in PoolType
      /\ Copies(p, me, s, at, got) /\ que' = [que EXCEPT ![s] = qr] /\ me.slot = s
      /\ MayCopy(me, qr, at, got)
  BY <1>1, <1>3 DEF MayCopy
<1> HIDE DEF s, qr
<1> DEFINE v == Copying(me, at, got)
<1>5. Stepped(p, s, v, qr)
  BY <1>4, CopiesSteps
<1>6. v.pc = at
  BY <1>4, CopyingFacts
<1> HIDE DEF v
<1> QED
  BY <1>2, <1>3, <1>5, <1>6, QuietKeeps DEF s, qr

\* The steps of msgsnd() and msgrcv() keep the invariant.
LEMMA GetresKeeps ==
  ASSUME IInv, NEW p, NEW me, Ready(p, me), me.call.op = "msgsnd", Getres(p, me)
  PROVE  IInv'
<1> DEFINE c == me.call
           s == me.slot
<1>0. /\ s \in Slot /\ c \in Calls /\ c.type \in Nat \ {0} /\ c.ts \in Nat
      /\ que[s] \in QueType /\ MayLeave(que[s]) /\ que = [que EXCEPT ![s] = que[s]]
      /\ pool \in PoolType /\ MayLock(p, s) /\ pr[p].pc # "text"
      /\ que[s].alloc /\ que[s].seq = me.seq
  BY QueueFacts, CallFacts DEF Ready, MayLock, Valid
<1>1. CASE /\ Full(s, c) \/ pool.hdrs = 0 \/ NoText(c)
           /\ c.nowait
           /\ Leave(p, s, IF Full(s, c) THEN {} ELSE PutBack)
           /\ UNCHANGED <<que, pool>>
  <2> DEFINE chans == IF Full(s, c) THEN {} ELSE PutBack
  <2>1. Leave(p, s, chans) /\ que' = [que EXCEPT ![s] = que[s]] /\ pool' = pool
    BY <1>0, <1>1
  <2> HIDE DEF chans, s, c
  <2> QED
    BY <1>0, <2>1, QuietLeave
<1>2. CASE /\ Full(s, c) /\ ~c.nowait
           /\ que' = [que EXCEPT ![s].wwait = TRUE]
           /\ Sleep(p, me, s, Room(s), {})
           /\ UNCHANGED pool
  <2> DEFINE qr == [que[s] EXCEPT !.wwait = TRUE]
  <2>1. que' = [que EXCEPT ![s] = qr] /\ pool' = pool
    BY <1>2
  <2>2. MayLeave(qr) /\ qr.msgs = que[s].msgs /\ qr.cbytes = que[s].cbytes
    BY <1>0 DEF MayLeave, QueType
  <2>3. Room(s) \in Chans
    BY <1>0 DEF Chans
  <2> HIDE DEF qr
  <2> QED
    BY <1>0, <1>2, <2>1, <2>2, <2>3, QuietSleep
<1>3. CASE /\ ~Full(s, c) /\ pool.hdrs = 0 /\ ~c.nowait
           /\ Sleep(p, me, s, Header, {})
           /\ UNCHANGED <<que, pool>>
  <2>1. Header \in Chans /\ que' = [que EXCEPT ![s] = que[s]] /\ pool' = pool
    BY <1>0, <1>3 DEF Chans
  <2> QED
    BY <1>0, <1>3, <2>1, QuietSleep
<1>4. CASE /\ ~Full(s, c) /\ pool.hdrs > 0 /\ NoText(c) /\ ~c.nowait
           /\ pool' = [pool EXCEPT !.mapwant = TRUE]
           /\ Sleep(p, me, s, Text, PutBack)
           /\ UNCHANGED que
  <2>1. Text \in Chans /\ que' = [que EXCEPT ![s] = que[s]]
    BY <1>0, <1>4 DEF Chans
  <2>2. /\ pool' \in PoolType /\ pool'.hdrs = pool.hdrs
        /\ pool'.map = pool.map /\ pool'.lost = pool.lost
    BY <1>0, <1>4 DEF PoolType
  <2> QED
    BY <1>0, <1>4, <2>1, <2>2, QuietSleep
<1>5. CASE /\ ~Full(s, c) /\ pool.hdrs > 0 /\ c.ts = 0
           /\ pool' = [pool EXCEPT !.hdrs = @ - 1]
           /\ Append1(s, c, 0)
           /\ Leave(p, s, Readers(s))
  <2> DEFINE m == [type |-> c.type, ts |-> c.ts, addr |-> 0]
             qr == [que[s] EXCEPT !.msgs = Append(@, m), !.cbytes = @ + c.ts, !.rwait = FALSE]
  <2>1. m \in MsgType
    BY <1>0, <1>5 DEF MsgType
  <2>2. que' = [que EXCEPT ![s] = qr]
    BY <1>0, <1>5 DEF Append1, QueType
  <2>3. /\ qr \in QueType /\ qr.alloc /\ qr.msgs = Append(que[s].msgs, m)
        /\ qr.cbytes = que[s].cbytes + m.ts
    <3>1. Append(que[s].msgs, m) \in Seq(MsgType)
      <4>1. que[s].msgs \in Seq(MsgType)
        BY <1>0 DEF QueType
      <4> HIDE DEF m
      <4> QED
        BY <2>1, <4>1, AppendProperties
    <3>2. que[s].cbytes + c.ts \in Int
      BY <1>0 DEF QueType
    <3>3. c.ts = m.ts
      OBVIOUS
    <3> HIDE DEF m
    <3> QED
      BY <1>0, <3>1, <3>2, <3>3 DEF QueType
  <2>4. /\ pool' \in PoolType /\ pool'.hdrs = pool.hdrs - 1
        /\ pool'.map = pool.map /\ pool'.lost = pool.lost
    BY <1>0, <1>5 DEF PoolType
  <2>5. Segments(m.addr, m.ts) = {}
    <3>1. btoq(0) = 0
      BY BtoqProperties
    <3> QED
      BY <1>5, <3>1 DEF Segments
  <2> HIDE DEF m, qr, s, c
  <2>6. Stepped(p, s, Idle, qr)
    BY <1>0, <1>5, <2>2, <2>3, <2>4, LeaveSteps DEF MayLeave
  <2>7. /\ pool'.hdrs = (IF pr[p].pc = "text" THEN pool.hdrs ELSE pool.hdrs - 1)
        /\ Segments(m.addr, m.ts) =
             (IF pr[p].pc = "text" THEN Segments(pr[p].got, pr[p].call.ts) ELSE {})
    BY <1>0, <2>4, <2>5
  <2>8. Idle.pc # "text"
    BY IdleFacts
  <2> QED
    BY <2>1, <2>3, <2>4, <2>6, <2>7, <2>8, SendKeeps
<1>6. CASE /\ ~Full(s, c) /\ pool.hdrs > 0 /\ c.ts > 0 /\ ~NoText(c)
           /\ pool' = [pool EXCEPT !.hdrs = @ - 1, !.map = TextOf(c).map]
           /\ Copies(p, me, s, "text", TextOf(c).addr)
           /\ UNCHANGED que
  <2> DEFINE r == TextOf(c)
             P == Segments(r.addr, c.ts)
  <2>1. /\ r.addr \in Nat /\ r.addr # 0 /\ r.map \in MapType /\ MapOK(r.map)
        /\ P \subseteq UnitsOf(pool.map) /\ UnitsOf(r.map) = UnitsOf(pool.map) \ P
    <3>1. pool.map \in MapType /\ MapOK(pool.map)
      BY <1>0 DEF PoolType, IInv, TextAccounted
    <3>2. btoq(c.ts) \in Nat
      BY <1>0, BtoqProperties
    <3>3. r.addr # 0
      BY <1>0, <1>6 DEF NoText
    <3> DEFINE n == btoq(c.ts)
    <3>4. r = rmalloc(pool.map, n) /\ P = Piece(r.addr, n)
      BY DEF TextOf, Segments, Piece
    <3> HIDE DEF n, r, P
    <3> QED
      BY <3>1, <3>2, <3>3, <3>4, RmallocTakes DEF n
  <2>2. que' = [que EXCEPT ![s] = que[s]]
    BY <1>0, <1>6
  <2>3. /\ pool' \in PoolType /\ pool'.hdrs = pool.hdrs - 1
        /\ pool'.map = r.map /\ pool'.lost = pool.lost
    <3> HIDE DEF r
    <3>1. pool' = [pool EXCEPT !.hdrs = @ - 1, !.map = r.map]
      BY <1>6 DEF r
    <3> QED
      <4>1. pool.hdrs - 1 \in Nat
        BY <1>0, <1>6 DEF PoolType
      <4> QED
        BY <1>0, <2>1, <3>1, <4>1 DEF PoolType
  <2>4. MayCopy(me, que[s], "text", r.addr)
    BY <1>0, <1>6, <2>1 DEF MayCopy, Ready, Full
  <2> DEFINE a == r.addr
             qr == que[s]
  <2>5. Copies(p, me, s, "text", a) /\ MayCopy(me, qr, "text", a) /\ me.slot = s
    BY <1>6, <2>4
  <2> HIDE DEF a, qr, s
  <2> DEFINE v == Copying(me, "text", a)
  <2>6. Stepped(p, s, v, qr)
    <3>1. MayLock(p, s) /\ MayLeave(qr) /\ que' = [que EXCEPT ![s] = qr] /\ pool' \in PoolType
      BY <1>0, <2>2, <2>3 DEF qr
    <3> QED
      BY <3>1, <2>5, CopiesSteps
  <2>7. v.pc = "text" /\ v.got = a /\ v.call = me.call
    BY <2>5, CopyingFacts
  <2> HIDE DEF v
  <2>8. P = Segments(v.got, v.call.ts) /\ pool.hdrs > 0 /\ qr = que[s]
    BY <1>6, <2>7 DEF a, qr
  <2> HIDE DEF r, P, c
  <2> QED
    BY <1>0, <2>1, <2>3, <2>6, <2>7, <2>8, TakeKeeps
<1> QED
  BY <1>1, <1>2, <1>3, <1>4, <1>5, <1>6 DEF Getres

(* What smp() chooses among: the first, or the first of the lowest type.   *)
LEMMA SmpChosen ==
  ASSUME NEW msgs \in Seq(MsgType), NEW typ \in Int, Eligible(msgs, typ) # {}
  PROVE  LET E == Eligible(msgs, typ)
             i == smp(msgs, typ)
         IN  /\ i \in E /\ E \subseteq 1 .. Len(msgs)
             /\ \A j \in E : \/ typ < 0 /\ msgs[i].type < msgs[j].type
                             \/ (typ >= 0 \/ msgs[i].type = msgs[j].type) /\ i <= j
<1> DEFINE E == Eligible(msgs, typ)
           prefers(i, j) == \/ typ < 0 /\ msgs[i].type < msgs[j].type
                            \/ (typ >= 0 \/ msgs[i].type = msgs[j].type) /\ i <= j
           i0 == smp(msgs, typ)
<1>0. Len(msgs) \in Nat
  BY LenProperties
<1>1. /\ E \subseteq 1 .. Len(msgs)
      /\ \A i \in E : i \in Nat \ {0} /\ msgs[i].type \in Nat
  <2>1. E \subseteq 1 .. Len(msgs)
    BY DEF Eligible
  <2>2. \A i \in 1 .. Len(msgs) : msgs[i].type \in Nat
    BY DEF MsgType
  <2> HIDE DEF E
  <2> QED
    BY <2>1, <2>2, <1>0
<1>2. \E i \in E : \A j \in E : prefers(i, j)
  <2>0. E # {}
    OBVIOUS
  <2> HIDE DEF E
  <2>1. CASE typ >= 0
    <3>1. E \in SUBSET Nat
      BY <1>1
    <3>2. PICK i \in E : \A j \in E : i <= j
      BY <2>0, <3>1, LeastNat
    <3> QED
      BY <2>1, <3>2
  <2>2. CASE typ < 0
    <3> DEFINE T == {msgs[i].type : i \in E}
    <3>1. T \in SUBSET Nat /\ T # {}
      BY <1>1, <2>0
    <3>2. PICK t \in T : \A y \in T : t <= y
      <4> HIDE DEF T
      <4> QED
        BY <3>1, LeastNat
    <3> DEFINE F == {i \in E : msgs[i].type = t}
    <3>3. F \in SUBSET Nat /\ F # {}
      BY <1>1, <3>2
    <3>4. PICK i \in F : \A j \in F : i <= j
      <4> HIDE DEF F
      <4> QED
        BY <3>3, LeastNat
    <3>5. ASSUME NEW j \in E
          PROVE  prefers(i, j)
      <4>1. t <= msgs[j].type /\ msgs[i].type = t /\ t \in Nat /\ msgs[j].type \in Nat
        BY <1>1, <3>2, <3>4
      <4>2. msgs[j].type = t => i <= j
        BY <3>4
      <4> QED
        BY <2>2, <4>1, <4>2
    <3> QED
      BY <3>4, <3>5
  <2> QED
    BY <2>1, <2>2
<1>3. i0 = CHOOSE i \in E : \A j \in E : prefers(i, j)
  BY DEF smp
<1>4. i0 \in E /\ \A j \in E : prefers(i0, j)
  <2> HIDE DEF E, prefers, i0
  <2> QED
    BY <1>2, <1>3
<1>5. i0 \in E /\ E \subseteq 1 .. Len(msgs)
  BY <1>1, <1>4
<1> QED
  BY <1>4, <1>5

\* The message that is received is one that the type admits.
LEMMA SmpFacts ==
  ASSUME NEW msgs \in Seq(MsgType), NEW typ \in Int
  PROVE  /\ smp(msgs, typ) \in 0 .. Len(msgs)
         /\ smp(msgs, typ) = 0 <=> Eligible(msgs, typ) = {}
<1> DEFINE E == Eligible(msgs, typ)
           i0 == smp(msgs, typ)
<1>1. Len(msgs) \in Nat
  BY LenProperties
<1>2. CASE E = {}
  <2>1. i0 = 0
    BY <1>2 DEF smp
  <2> QED
    BY <1>1, <1>2, <2>1
<1>3. CASE E # {}
  <2>1. i0 \in E /\ E \subseteq 1 .. Len(msgs)
    BY <1>3, SmpChosen
  <2> HIDE DEF E, i0
  <2>2. i0 \in 0 .. Len(msgs) /\ i0 # 0
    BY <1>1, <2>1
  <2> QED
    BY <1>3, <2>2 DEF E, i0
<1> QED
  BY <1>2, <1>3

\* msgrcv() from findmsg keeps the invariant.
LEMMA FindmsgKeeps ==
  ASSUME IInv, NEW p, NEW me, Ready(p, me), me.call.op = "msgrcv", Findmsg(p, me)
  PROVE  IInv'
<1> DEFINE c == me.call
           s == me.slot
           i == smp(que[s].msgs, c.typ)
<1>0. /\ s \in Slot /\ c \in Calls /\ c.typ \in Int
      /\ que[s] \in QueType /\ MayLeave(que[s]) /\ que = [que EXCEPT ![s] = que[s]]
      /\ pool \in PoolType /\ MayLock(p, s) /\ pr[p].pc # "text"
  BY QueueFacts, CallFacts DEF Ready, MayLock
<1>1. CASE Leave(p, s, {}) /\ UNCHANGED <<que, pool>>
  <2>1. que' = [que EXCEPT ![s] = que[s]] /\ pool' = pool
    BY <1>0, <1>1
  <2> HIDE DEF s
  <2> QED
    BY <1>0, <1>1, <2>1, QuietLeave
<1>2. CASE /\ que' = [que EXCEPT ![s].rwait = TRUE]
           /\ Sleep(p, me, s, Mail(s), {})
           /\ UNCHANGED pool
  <2> DEFINE qr == [que[s] EXCEPT !.rwait = TRUE]
  <2>1. que' = [que EXCEPT ![s] = qr] /\ pool' = pool
    BY <1>2
  <2>2. MayLeave(qr) /\ qr.msgs = que[s].msgs /\ qr.cbytes = que[s].cbytes
    BY <1>0 DEF MayLeave, QueType
  <2>3. Mail(s) \in Chans
    BY <1>0 DEF Chans
  <2> HIDE DEF qr
  <2> QED
    BY ZenonT(30), <1>0, <1>2, <2>1, <2>2, <2>3, QuietSleep
<1>3. CASE i # 0 /\ Copies(p, me, s, "out", i) /\ UNCHANGED <<que, pool>>
  <2>1. i \in Nat /\ i > 0
    <3>1. que[s].msgs \in Seq(MsgType)
      BY <1>0 DEF QueType
    <3>2. i \in 0 .. Len(que[s].msgs)
      BY <1>0, <3>1, SmpFacts
    <3> HIDE DEF i
    <3> QED
      BY <1>3, <3>2
  <2>2. i = smp(que[me.slot].msgs, me.call.typ)
    OBVIOUS
  <2> HIDE DEF i
  <2> QED
    BY <1>3, <2>1, <2>2, QuietCopies
<1> QED
  BY <1>1, <1>2, <1>3 DEF Findmsg

\* What is left of a queue that is removed.
LEMMA RemovedFacts ==
  ASSUME NEW s \in Slot, que[s] \in QueType
  PROVE  LET qr == [que[s] EXCEPT !.alloc = FALSE, !.msgs = <<>>, !.cbytes = 0,
                                  !.rwait = FALSE, !.wwait = FALSE, !.seq = NextSeq(@)]
         IN  MayLeave(qr) /\ ~qr.alloc /\ qr.msgs = <<>> /\ qr.cbytes = 0
<1> DEFINE qr == [que[s] EXCEPT !.alloc = FALSE, !.msgs = <<>>, !.cbytes = 0,
                                !.rwait = FALSE, !.wwait = FALSE, !.seq = NextSeq(@)]
<1>1. NextSeq(que[s].seq) \in 0 .. SeqMax
  BY MsgAssumption DEF NextSeq, QueType
<1> DEFINE q == [que[s] EXCEPT !.alloc = FALSE, !.msgs = <<>>, !.cbytes = 0]
<1>2. q \in QueType /\ ~q.alloc /\ q.msgs = <<>> /\ q.cbytes = 0 /\ q.seq = que[s].seq
  <2>1. <<>> \in Seq(MsgType) /\ 0 \in Int
    OBVIOUS
  <2> DEFINE e == <<>>
             b == que[s]
  <2>2. b \in QueType /\ e \in Seq(MsgType)
    BY <2>1
  <2> HIDE DEF b, e
  <2>3. /\ [b EXCEPT !.alloc = FALSE, !.msgs = e, !.cbytes = 0] \in QueType
        /\ [b EXCEPT !.alloc = FALSE, !.msgs = e, !.cbytes = 0].msgs = e
        /\ ~[b EXCEPT !.alloc = FALSE, !.msgs = e, !.cbytes = 0].alloc
        /\ [b EXCEPT !.alloc = FALSE, !.msgs = e, !.cbytes = 0].cbytes = 0
        /\ [b EXCEPT !.alloc = FALSE, !.msgs = e, !.cbytes = 0].seq = b.seq
    BY <2>1, <2>2 DEF QueType
  <2> QED
    BY <2>3 DEF b, e
<1>3. qr = [q EXCEPT !.rwait = FALSE, !.wwait = FALSE, !.seq = NextSeq(@)]
  OBVIOUS
<1> HIDE DEF q, qr
<1>4. qr \in QueType /\ ~qr.alloc /\ qr.msgs = <<>> /\ qr.cbytes = 0
  BY <1>1, <1>2, <1>3 DEF QueType
<1>5. MayLeave(qr)
  BY <1>4 DEF MayLeave
<1> QED
  BY <1>4, <1>5 DEF qr

\* A queue is removed, its messages freed.
LEMMA Remove1Keeps ==
  ASSUME IInv, NEW p, NEW me, Ready(p, me), Remove1(p, me)
  PROVE  IInv'
<1> DEFINE s == me.slot
           w == FreeAll(Work, que[s].msgs)
           n == Len(que[s].msgs)
           qr == [que[s] EXCEPT !.alloc = FALSE, !.msgs = <<>>, !.cbytes = 0,
                                !.rwait = FALSE, !.wwait = FALSE, !.seq = NextSeq(@)]
           sleepers == (IF que[s].rwait THEN {Mail(s)} ELSE {})
                       \union (IF que[s].wwait THEN {Room(s)} ELSE {})
           chans == w.woken \union sleepers
           G == UNION {Segments(que[s].msgs[j].addr, que[s].msgs[j].ts) : j \in 1 .. n}
<1>0. /\ s \in Slot /\ que[s] \in QueType /\ que \in [Slot -> QueType]
      /\ MayLock(p, s) /\ pr[p].pc # "text"
      /\ Types /\ TextAccounted
  BY QueueFacts DEF Ready, MayLock, IInv, Types
<1>1. Stored(w) /\ Leave(p, s, chans) /\ que' = [que EXCEPT ![s] = qr]
  <2>1. que' = [que EXCEPT ![s].alloc = FALSE, ![s].msgs = <<>>, ![s].cbytes = 0,
                           ![s].rwait = FALSE, ![s].wwait = FALSE, ![s].seq = NextSeq(@)]
    BY DEF Remove1
  <2>2. que' = [que EXCEPT ![s] = qr]
    BY <1>0, <2>1
  <2> QED
    BY <2>2 DEF Remove1
<1>2. MayLeave(qr) /\ qr.msgs = <<>> /\ qr.cbytes = 0
  BY <1>0, RemovedFacts
<1>3. Freed(Work, que[s].msgs, n, w)
  <2>1. /\ Sound(Work) /\ Work.woken = {} /\ que[s].msgs \in Seq(MsgType)
        /\ TextsApart(Work, que[s].msgs)
    BY <1>0, WorkFacts, PartsApart, MsgsFacts
  <2> DEFINE x == Work
             q == que[s].msgs
  <2>2. Sound(x) /\ x.woken = {} /\ q \in Seq(MsgType) /\ TextsApart(x, q)
    BY <2>1
  <2> HIDE DEF x, q
  <2>3. Freed(x, q, Len(q), FreeAll(x, q))
    BY <2>2, FreeAllFacts
  <2> QED
    BY <2>3 DEF x, q
<1> HIDE DEF w, qr, chans
<1>4. Sound(w) /\ w.hdrs = pool.hdrs + n /\ GivesBack(G) /\ pool' \in PoolType
      /\ pool'.hdrs = w.hdrs
  <2>1. Sound(w) /\ w.hdrs = pool.hdrs + n
    BY <1>0, <1>3, WorkFacts DEF Freed
  <2>2. \A u : u \in Has(w) <=> u \in Has(Work) \/ u \in G
    BY <1>3 DEF Freed
  <2> HIDE DEF G, n
  <2> QED
    BY <1>0, <1>1, <2>1, <2>2, StoredFacts
<1>5. \A u : u \in G <=> \E j \in 1 .. Len(que[s].msgs) :
                            u \in Segments(que[s].msgs[j].addr, que[s].msgs[j].ts)
  OBVIOUS
<1> HIDE DEF G, s
<1>6. Stepped(p, s, Idle, qr)
  BY <1>0, <1>1, <1>2, <1>4, LeaveSteps
<1>7. Idle.pc # "text" /\ pool'.hdrs = pool.hdrs + Len(que[s].msgs)
  BY <1>4, IdleFacts
<1> QED
  BY <1>0, <1>2, <1>4, <1>5, <1>6, <1>7, ClearKeeps

\* A process is in no step with a queue: only its own record changes, or others are woken.
LEMMA RecordsChange ==
  ASSUME IInv, NEW p \in Proc, ~Holds(p), NEW v \in ProcType, CallOK(v),
         v.pc \notin {"in", "text", "out"}, NEW chans,
         que' \in [Slot -> QueType],
         \A s \in Slot : /\ que'[s].alloc = que[s].alloc /\ que'[s].seq = que[s].seq
                         /\ que'[s].msgs = que[s].msgs /\ que'[s].cbytes = que[s].cbytes
                         /\ que'[s].qbytes = que[s].qbytes,
         UNCHANGED <<msglock, pool>>,
         pr' = [wakeprocs(pr, chans) EXCEPT ![p] = v]
  PROVE  IInv'
<1> DEFINE w == wakeprocs(pr, chans)
<1>0. Types /\ Locks /\ FreeSlotIsEmpty /\ TextAccounted /\ HeadersCounted /\ BytesCounted
  BY DEF IInv
<1>1. \A x \in Proc :
        /\ w[x] \in ProcType
        /\ w[x].call = pr[x].call /\ w[x].slot = pr[x].slot /\ w[x].seq = pr[x].seq
        /\ w[x].again = pr[x].again /\ w[x].chan = pr[x].chan /\ w[x].got = pr[x].got
        /\ w[x].pc = IF pr[x].pc = "asleep" /\ pr[x].chan \in chans THEN "run" ELSE pr[x].pc
  BY <1>0, WokenFacts
<1>2. w \in [Proc -> ProcType]
  <2>1. w = [x \in Proc |-> w[x]]
    BY DEF wakeprocs
  <2> HIDE DEF w
  <2> QED
    BY <1>1, <2>1
<1> HIDE DEF w
<1>3. pr' \in [Proc -> ProcType] /\ pr'[p] = v /\ \A x \in Proc \ {p} : pr'[x] = w[x]
  BY <1>2 DEF w
<1>4. \A x \in Proc : CallOK(pr'[x])
  <2>1. \A x \in Proc : CallOK(pr[x])
    BY <1>0 DEF Types
  <2>2. \A x \in Proc : CallOK(w[x])
    BY <1>1, <2>1 DEF CallOK
  <2> QED
    BY <1>3, <2>2
<1>5. Types'
  <2>1. \A x \in Proc : CallOK(pr[x])'
    BY <1>4 DEF CallOK
  <2> QED
    BY <1>0, <1>3, <2>1 DEF Types
<1>6. /\ \A x \in Proc : Holds(x)' <=> Holds(x)
      /\ \A x \in Proc : Holds(x) =>
           /\ pr'[x].pc = pr[x].pc /\ pr'[x].slot = pr[x].slot /\ pr'[x].seq = pr[x].seq
           /\ pr'[x].call = pr[x].call /\ pr'[x].got = pr[x].got
  BY <1>1, <1>3 DEF Holds
<1>7. Locks'
  <2>1. \A x \in Proc, s \in Slot : HoldsLock(x, s)' <=> HoldsLock(x, s)
    BY <1>6 DEF HoldsLock
  <2>2. ASSUME NEW x \in Proc, NEW s \in Slot, HoldsLock(x, s), HolderOK(x, s)
        PROVE  HolderOK(x, s)'
    BY <1>6, <2>2 DEF HolderOK, Valid, Full, HoldsLock
  <2>3. msglock' = msglock
    OBVIOUS
  <2> QED
    BY <1>0, <2>1, <2>2, <2>3 DEF Locks
<1>8. \A x \in Proc : SendStays(x) /\ (pr'[x].pc = "text" <=> pr[x].pc = "text")
  BY <1>1, <1>3 DEF SendStays, Holds
<1>9. TextAccounted'
  BY <1>0, <1>5, <1>8, TextStays
<1>10. HeadersCounted'
  <2>1. Queued' = Queued
    BY DEF Queued
  <2>2. Sending' = Sending
    BY <1>8 DEF Sending
  <2> QED
    BY <1>0, <2>1, <2>2 DEF HeadersCounted
<1>11. FreeSlotIsEmpty' /\ BytesCounted'
  BY <1>0 DEF FreeSlotIsEmpty, BytesCounted
<1> QED
  BY <1>5, <1>7, <1>9, <1>10, <1>11 DEF IInv

\* The record of p changes, and nobody is woken.
LEMMA RecordChanges ==
  ASSUME IInv, NEW p \in Proc, ~Holds(p), NEW v \in ProcType, CallOK(v),
         v.pc \notin {"in", "text", "out"},
         UNCHANGED <<que, msglock, pool>>, pr' = [pr EXCEPT ![p] = v]
  PROVE  IInv'
<1>1. wakeprocs(pr, {}) = pr /\ que' \in [Slot -> QueType]
  BY DEF wakeprocs, IInv, Types
<1> DEFINE f == wakeprocs(pr, {})
<1>2. pr' = [f EXCEPT ![p] = v]
  BY <1>1
<1>3. \A s \in Slot : /\ que'[s].alloc = que[s].alloc /\ que'[s].seq = que[s].seq
                      /\ que'[s].msgs = que[s].msgs /\ que'[s].cbytes = que[s].cbytes
                      /\ que'[s].qbytes = que[s].qbytes
  OBVIOUS
<1>4. UNCHANGED <<msglock, pool>>
  OBVIOUS
<1> QED
  BY <1>1, <1>2, <1>3, <1>4, RecordsChange

\* So does msgconv() with what follows it.
LEMMA MsgconvKeeps ==
  ASSUME IInv, NEW p \in Proc, ~Holds(p), NEW me \in ProcType, me.call \in Calls,
         me.slot \in Slot, msgconv(p, me)
  PROVE  IInv'
<1> DEFINE s == me.slot
<1>0. que[s] \in QueType /\ MayLeave(que[s]) /\ que = [que EXCEPT ![s] = que[s]] /\ pool \in PoolType
      /\ pr[p].pc # "text"
  BY QueueFacts DEF Holds
<1>1. CASE /\ Held(me)
           /\ pr' = [pr EXCEPT ![p] = [me EXCEPT !.pc = "asleep", !.chan = Locked(s)]]
           /\ UNCHANGED <<que, msglock, pool>>
  <2> DEFINE v == [me EXCEPT !.pc = "asleep", !.chan = Locked(s)]
  <2>1. Locked(s) \in Chans
    BY DEF Chans
  <2>2. /\ v \in ProcType /\ v.pc = "asleep" /\ v.chan = Locked(s) /\ v.call = me.call
        /\ v.slot = s
    BY <2>1 DEF ProcType
  <2>3. pr' = [pr EXCEPT ![p] = v]
    BY <1>1
  <2> HIDE DEF v
  <2>4. CallOK(v) /\ v.pc \notin {"in", "text", "out"}
    BY <2>2 DEF CallOK
  <2> QED
    BY <1>1, <2>2, <2>3, <2>4, RecordChanges
<1>2. CASE ~Held(me) /\ ~Valid(me) /\ Leave(p, s, {}) /\ UNCHANGED <<que, pool>>
  <2>1. que' = [que EXCEPT ![s] = que[s]] /\ pool' = pool /\ MayLock(p, s)
    BY <1>0, <1>2 DEF MayLock, Held
  <2> HIDE DEF s
  <2> QED
    BY <1>0, <1>2, <2>1, QuietLeave
<1>3. CASE ~Held(me) /\ Valid(me)
  <2>1. Ready(p, me)
    BY <1>0, <1>3 DEF Ready, MayLock, Held
  <2>2. CASE /\ me.call.op = "IPC_SET" \/ (me.call.op = "msgsnd" /\ ~me.again)
             /\ Copies(p, me, s, "in", 0)
             /\ UNCHANGED <<que, pool>>
    BY <2>1, <2>2, QuietCopies
  <2>3. CASE me.call.op = "msgsnd" /\ me.again /\ Getres(p, me)
    BY <2>1, <2>3, GetresKeeps
  <2>4. CASE me.call.op = "msgrcv" /\ Findmsg(p, me)
    BY <2>1, <2>4, FindmsgKeeps
  <2>5. CASE me.call.op = "IPC_RMID" /\ Remove1(p, me)
    BY <2>1, <2>5, Remove1Keeps
  <2> QED
    BY <1>1, <1>2, <1>3, <2>2, <2>3, <2>4, <2>5 DEF msgconv
<1> QED
  BY <1>1, <1>2, <1>3 DEF msgconv

\* What p is in its call, when it does a step.
LEMMA ProcFacts ==
  ASSUME IInv, NEW p \in Proc
  PROVE  /\ pr[p] \in ProcType /\ CallOK(pr[p])
         /\ Holds(p) => Valid(pr[p]) /\ MayLock(p, pr[p].slot) /\ pr[p].slot \in Slot
         /\ pr[p].pc = "text" => ~Full(pr[p].slot, pr[p].call)
         /\ pr[p].pc = "out" => pr[p].got = smp(que[pr[p].slot].msgs, pr[p].call.typ)
<1>1. pr[p] \in ProcType /\ CallOK(pr[p])
  BY DEF IInv, Types
<1>2. ASSUME Holds(p)
      PROVE  /\ pr[p].slot \in Slot /\ MayLock(p, pr[p].slot)
             /\ HolderOK(p, pr[p].slot)
  <2>1. pr[p].slot \in Slot
    BY <1>1, <1>2 DEF Holds, CallOK
  <2>2. HoldsLock(p, pr[p].slot)
    BY <1>2 DEF HoldsLock
  <2> QED
    BY <1>2, <2>1, <2>2 DEF IInv, Locks, MayLock
<1> QED
  BY <1>1, <1>2 DEF HolderOK, Holds

\* And so does every action: a call begins.
LEMMA CallKeeps ==
  ASSUME IInv, NEW p \in Proc, Call(p)
  PROVE  IInv'
<1>1. PICK c \in Calls, s \in Slot :
        msgconv(p, [Idle EXCEPT !.call = c, !.slot = s, !.seq = que[s].seq])
  BY DEF Call
<1> DEFINE me == [Idle EXCEPT !.call = c, !.slot = s, !.seq = que[s].seq]
<1>2. que[s].seq \in Nat
  <2>1. que[s].seq \in 0 .. SeqMax
    BY QueueFacts DEF QueType
  <2> QED
    BY <2>1
<1>3. me \in ProcType /\ me.call \in Calls /\ me.slot \in Slot
  BY <1>2 DEF Idle, ProcType, Chans
<1>4. ~Holds(p)
  BY DEF Call, Holds
<1>5. msgconv(p, me)
  BY <1>1
<1> HIDE DEF me
<1> QED
  BY <1>3, <1>4, <1>5, MsgconvKeeps

\* It goes on when it is woken.
LEMMA RunKeeps ==
  ASSUME IInv, NEW p \in Proc, Run(p)
  PROVE  IInv'
<1> DEFINE me == pr[p]
<1>1. /\ me \in ProcType /\ me.call \in Calls /\ me.slot \in Slot /\ ~Holds(p)
      /\ msgconv(p, me)
  BY ProcFacts DEF Run, CallOK, Holds
<1> HIDE DEF me
<1> QED
  BY <1>1, MsgconvKeeps

\* A signal takes it out of its sleep.
LEMMA SignalKeeps ==
  ASSUME IInv, NEW p \in Proc, Signal(p)
  PROVE  IInv'
<1> DEFINE r == pr[p]
           v == [r EXCEPT !.pc = "signalled"]
<1>1. r \in ProcType /\ CallOK(r) /\ r.pc \in {"asleep", "run"} /\ ~Holds(p)
  BY ProcFacts DEF Signal, Holds
<1>2. pr' = [pr EXCEPT ![p] = v] /\ UNCHANGED <<que, msglock, pool>>
  BY DEF Signal
<1> HIDE DEF r
<1>3. v \in ProcType /\ CallOK(v) /\ v.pc \notin {"in", "text", "out"}
  BY <1>1 DEF ProcType, CallOK
<1> HIDE DEF v
<1> QED
  BY <1>1, <1>2, <1>3, RecordChanges

\* It finds out and leaves.
LEMMA InterruptedKeeps ==
  ASSUME IInv, NEW p \in Proc, Interrupted(p)
  PROVE  IInv'
<1> DEFINE s == pr[p].slot
           looks == ~msglock[s] /\ Valid(pr[p]) /\ pr[p].chan = Room(s)
           chans == IF looks THEN {Room(s)} ELSE {}
<1>1. ~Holds(p) /\ s \in Slot /\ UNCHANGED <<msglock, pool>>
  BY ProcFacts DEF Interrupted, Holds, CallOK
<1>2. pr' = [wakeprocs(pr, chans) EXCEPT ![p] = Idle]
  BY DEF Interrupted
<1>3. /\ que' \in [Slot -> QueType]
      /\ \A t \in Slot : /\ que'[t].alloc = que[t].alloc /\ que'[t].seq = que[t].seq
                         /\ que'[t].msgs = que[t].msgs /\ que'[t].cbytes = que[t].cbytes
                         /\ que'[t].qbytes = que[t].qbytes
  <2>1. que' = (IF looks THEN [que EXCEPT ![s].wwait = FALSE] ELSE que)
    BY DEF Interrupted
  <2>2. que \in [Slot -> QueType]
    BY DEF IInv, Types
  <2> HIDE DEF looks, s
  <2>3. CASE looks
    <3>1. que' = [que EXCEPT ![s].wwait = FALSE]
      BY <2>1, <2>3
    <3> QED
      BY <1>1, <2>2, <3>1 DEF QueType
  <2> QED
    BY <2>1, <2>2, <2>3
<1>4. Idle \in ProcType /\ CallOK(Idle) /\ Idle.pc \notin {"in", "text", "out"}
  BY IdleFacts
<1> HIDE DEF chans, s
<1> QED
  BY <1>1, <1>2, <1>3, <1>4, RecordsChange

\* The type, or the arguments of IPC_SET, are in.
LEMMA CopiedInKeeps ==
  ASSUME IInv, NEW p \in Proc, CopiedIn(p)
  PROVE  IInv'
<1> DEFINE me == pr[p]
           c == me.call
           s == me.slot
<1>0. /\ pr[p].pc = "in" /\ Holds(p) /\ me \in ProcType /\ c \in Calls /\ s \in Slot
      /\ Valid(me) /\ MayLock(p, s) /\ que[s] \in QueType
  BY ProcFacts, QueueFacts DEF CopiedIn, Holds, CallOK
<1>1. CASE c.op = "msgsnd" /\ Getres(p, me)
  <2>1. Ready(p, me)
    BY <1>0 DEF Ready
  <2> HIDE DEF me
  <2> QED
    BY <1>1, <2>1, GetresKeeps
<1>2. CASE /\ c.op = "IPC_SET"
           /\ que' = [que EXCEPT ![s].qbytes = c.qbytes]
           /\ Leave(p, s, {})
           /\ UNCHANGED pool
  <2> DEFINE qr == [que[s] EXCEPT !.qbytes = c.qbytes]
  <2>1. que' = [que EXCEPT ![s] = qr] /\ pool' = pool
    BY <1>2
  <2>2. /\ MayLeave(qr) /\ qr.msgs = que[s].msgs /\ qr.cbytes = que[s].cbytes
        /\ pool \in PoolType
    <3>1. c.qbytes \in 0 .. msgmnb
      BY <1>0, <1>2, CallFacts
    <3>2. MayLeave(que[s]) /\ pool \in PoolType
      BY <1>0, QueueFacts
    <3> QED
      BY <1>0, <3>1, <3>2 DEF MayLeave, QueType
  <2> HIDE DEF qr, s
  <2>3. pr[p].pc # "text"
    BY <1>0
  <2> QED
    BY <1>0, <1>2, <2>1, <2>2, <2>3, QuietLeave
<1> QED
  BY <1>1, <1>2 DEF CopiedIn

\* The text is in: the message goes on the queue.
LEMMA CopiedTextKeeps ==
  ASSUME IInv, NEW p \in Proc, CopiedText(p)
  PROVE  IInv'
<1> DEFINE c == pr[p].call
           s == pr[p].slot
           a == pr[p].got
           m == [type |-> c.type, ts |-> c.ts, addr |-> a]
           q == que[s]
           qr == [q EXCEPT !.msgs = Append(@, m), !.cbytes = @ + c.ts, !.rwait = FALSE]
<1>0. /\ pr[p].pc = "text" /\ Holds(p) /\ s \in Slot /\ q \in QueType /\ MayLock(p, s)
      /\ c \in Calls /\ c.op = "msgsnd" /\ c.ts > 0 /\ a > 0 /\ a \in Nat
      /\ c.type \in Nat \ {0} /\ c.ts \in Nat
      /\ que[s].alloc /\ pool' = pool /\ pool \in PoolType
  BY ProcFacts, QueueFacts, CallFacts DEF CopiedText, Holds, CallOK, ProcType, Valid
<1>1. m \in MsgType /\ m.ts = c.ts
  BY <1>0 DEF MsgType
<1>2. que' = [que EXCEPT ![s] = qr] /\ Leave(p, s, Readers(s))
  BY <1>0 DEF CopiedText, Append1, QueType
<1>3. /\ qr \in QueType /\ qr.alloc /\ qr.msgs = Append(que[s].msgs, m)
      /\ qr.cbytes = que[s].cbytes + m.ts
  <2>1. Append(q.msgs, m) \in Seq(MsgType)
    <3>1. q.msgs \in Seq(MsgType)
      BY <1>0 DEF QueType
    <3> HIDE DEF m, q
    <3> QED
      BY <1>1, <3>1, AppendProperties
  <2>2. q.cbytes + c.ts \in Int
    BY <1>0 DEF QueType
  <2> HIDE DEF m
  <2> QED
    BY <1>0, <1>1, <2>1, <2>2 DEF QueType
<1>4. /\ pool'.hdrs = (IF pr[p].pc = "text" THEN pool.hdrs ELSE pool.hdrs - 1)
      /\ Segments(m.addr, m.ts) =
           (IF pr[p].pc = "text" THEN Segments(pr[p].got, pr[p].call.ts) ELSE {})
      /\ pool'.map = pool.map /\ pool'.lost = pool.lost
  BY <1>0
<1>5. Idle.pc # "text"
  BY IdleFacts
<1> HIDE DEF m, qr, s, c, q
<1>6. Stepped(p, s, Idle, qr)
  <2>1. MayLeave(qr) /\ pool' \in PoolType
    BY <1>0, <1>3 DEF MayLeave
  <2> QED
    BY <1>0, <1>2, <2>1, LeaveSteps
<1> QED
  BY <1>1, <1>3, <1>4, <1>5, <1>6, SendKeeps

\* The message is out: it is freed.
LEMMA CopiedOutKeeps ==
  ASSUME IInv, NEW p \in Proc, CopiedOut(p)
  PROVE  IInv'
<1> DEFINE s == pr[p].slot
           q == que[s]
           i == pr[p].got
           m == q.msgs[i]
           x == FreeText(Work, m.ts, m.addr)
           w == FreeHeader(x)
           qr == [q EXCEPT !.msgs = RemoveAt(@, i), !.cbytes = @ - m.ts, !.wwait = FALSE]
           chans == w.woken \union IF que[s].wwait THEN {Room(s)} ELSE {}
<1>0. /\ pr[p].pc = "out" /\ Holds(p) /\ s \in Slot /\ q \in QueType /\ MayLock(p, s)
      /\ i = smp(q.msgs, pr[p].call.typ) /\ pr[p].call \in Calls /\ pr[p].call.op = "msgrcv"
      /\ q.msgs \in Seq(MsgType) /\ Len(q.msgs) \in Nat /\ q.alloc
      /\ Types /\ TextAccounted /\ que \in [Slot -> QueType] /\ i \in Nat
  <2>1. Types /\ TextAccounted /\ que \in [Slot -> QueType]
    BY DEF IInv, Types
  <2>2. /\ pr[p].pc = "out" /\ Holds(p) /\ s \in Slot /\ q \in QueType /\ MayLock(p, s)
        /\ i = smp(q.msgs, pr[p].call.typ) /\ pr[p].call \in Calls /\ pr[p].call.op = "msgrcv"
        /\ q.alloc /\ i \in Nat
    BY ProcFacts, QueueFacts DEF CopiedOut, Holds, CallOK, ProcType, Valid
  <2>3. q.msgs \in Seq(MsgType) /\ Len(q.msgs) \in Nat
    BY <2>1, <2>2, MsgsFacts
  <2> QED
    BY <2>1, <2>2, <2>3
<1>1. i \in 1 .. Len(q.msgs)
  <2> DEFINE typ == pr[p].call.typ
             k == smp(q.msgs, typ)
  <2>1. typ \in Int /\ i > 0 /\ i = k
    BY <1>0, CallFacts, ProcFacts DEF CallOK
  <2>2. k \in 0 .. Len(q.msgs)
    <3> HIDE DEF typ
    <3> QED
      BY <1>0, <2>1, SmpFacts
  <2> HIDE DEF k
  <2> QED
    BY <1>0, <2>1, <2>2
<1>2. que' = [que EXCEPT ![s] = qr] /\ Leave(p, s, chans) /\ Stored(w)
  BY <1>0 DEF CopiedOut, msgfree
<1>3. m \in MsgType
  BY <1>0, <1>1
<1>4. /\ qr \in QueType /\ qr.alloc /\ qr.msgs = RemoveAt(que[s].msgs, i)
      /\ qr.cbytes = que[s].cbytes - m.ts
  <2>1. RemoveAt(q.msgs, i) \in Seq(MsgType)
    <3> DEFINE a == q.msgs
    <3>1. a \in Seq(MsgType) /\ i \in 1 .. Len(a)
      BY <1>0, <1>1
    <3> HIDE DEF a
    <3>2. RemoveAt(a, i) \in Seq(MsgType)
      BY <3>1, RemoveAtProperties
    <3> QED
      BY <3>2 DEF a
  <2>2. q.cbytes - m.ts \in Int
    BY SMTT(30), <1>0, <1>3 DEF QueType, MsgType
  <2> HIDE DEF m
  <2> QED
    BY <1>0, <2>1, <2>2 DEF QueType
<1>5. Sound(w) /\ w.hdrs = pool.hdrs + 1 /\ Has(w) = Has(Work) \union Segments(m.addr, m.ts)
  <2>1. Sound(Work) /\ Work.hdrs = pool.hdrs
    BY <1>0, WorkFacts
  <2>2. Segments(m.addr, m.ts) \intersect Has(Work) = {}
    BY <1>0, <1>1, PartsApart
  <2>3. m.ts \in Nat /\ m.addr \in Nat /\ (m.ts = 0 <=> m.addr = 0)
    BY <1>3 DEF MsgType
  <2> DEFINE ww == Work
             ts == m.ts
             addr == m.addr
  <2>4. /\ Sound(ww) /\ ts \in Nat /\ addr \in Nat /\ (ts = 0 <=> addr = 0)
        /\ Segments(addr, ts) \intersect Has(ww) = {}
    BY <2>1, <2>2, <2>3
  <2>5. x = FreeText(ww, ts, addr)
    OBVIOUS
  <2> HIDE DEF ww, ts, addr, x
  <2>6. Sound(x) /\ x.hdrs = ww.hdrs /\ Has(x) = Has(ww) \union Segments(addr, ts)
    BY <2>4, <2>5, FreeTextFacts
  <2>7. Sound(w) /\ w.hdrs = x.hdrs + 1 /\ Has(w) = Has(x)
    BY <2>6, FreeHeaderFacts
  <2> QED
    BY <2>1, <2>6, <2>7 DEF ww, ts, addr
<1> HIDE DEF w, x
<1>6. GivesBack(Segments(m.addr, m.ts)) /\ pool' \in PoolType /\ pool'.hdrs = pool.hdrs + 1
  <2> DEFINE G == Segments(m.addr, m.ts)
  <2>1. \A u : u \in Has(w) <=> u \in Has(Work) \/ u \in G
    BY <1>5
  <2> HIDE DEF G
  <2>2. GivesBack(G)
    BY <1>0, <1>2, <1>5, <2>1, StoredFacts
  <2>3. pool' \in PoolType /\ pool'.hdrs = w.hdrs
    BY <1>0, <1>2, <1>5, StoredFacts
  <2> QED
    BY <1>5, <2>2, <2>3 DEF G
<1>7. /\ i \in 1 .. Len(que[s].msgs)
      /\ GivesBack(Segments(que[s].msgs[i].addr, que[s].msgs[i].ts))
      /\ qr.msgs = RemoveAt(que[s].msgs, i) /\ qr.cbytes = que[s].cbytes - que[s].msgs[i].ts
      /\ pr[p].pc # "text" /\ Idle.pc # "text"
  BY <1>0, <1>1, <1>4, <1>6, IdleFacts
<1> HIDE DEF m, qr, chans, s, q, i
<1>8. Stepped(p, s, Idle, qr)
  <2>1. MayLeave(qr)
    BY <1>4 DEF MayLeave
  <2> QED
    BY <1>0, <1>2, <1>6, <2>1, LeaveSteps
<1> QED
  BY <1>6, <1>7, <1>8, ReceiveKeeps

\* A copy fails: text and header go back.
LEMMA CopyFailsKeeps ==
  ASSUME IInv, NEW p \in Proc, CopyFails(p)
  PROVE  IInv'
<1> DEFINE s == pr[p].slot
           ts == pr[p].call.ts
           addr == pr[p].got
           ww == Work
           x == FreeText(ww, ts, addr)
           w == IF pr[p].pc = "text" THEN FreeHeader(x) ELSE ww
<1>0. /\ Holds(p) /\ s \in Slot /\ MayLock(p, s) /\ Types /\ TextAccounted
      /\ MayLeave(que[s]) /\ que' = [que EXCEPT ![s] = que[s]]
      /\ Stored(w) /\ Leave(p, s, w.woken)
  <2>1. Types /\ TextAccounted
    BY DEF IInv
  <2>2. Holds(p) /\ Stored(w) /\ Leave(p, s, w.woken) /\ que' = que
    BY DEF CopyFails, Holds
  <2>3. s \in Slot /\ MayLock(p, s)
    BY <2>2, ProcFacts
  <2> HIDE DEF s, w
  <2> QED
    BY <2>1, <2>2, <2>3, QueueFacts
<1>1. Sound(ww) /\ ww.hdrs = pool.hdrs /\ ww.map = pool.map /\ ww.lost = pool.lost
  <2>1. Work.lost = pool.lost
    BY DEF Work
  <2> QED
    BY <1>0, <2>1, WorkFacts
<1>2. CASE pr[p].pc # "text"
  <2>1. w = ww
    BY <1>2
  <2> DEFINE chans == w.woken
             qr == que[s]
  <2>2. Leave(p, s, chans) /\ que' = [que EXCEPT ![s] = qr] /\ MayLeave(qr)
    BY <1>0
  <2> HIDE DEF w, ww, s
  <2>3. /\ pool' \in PoolType /\ pool'.hdrs = pool.hdrs
        /\ pool'.map = pool.map /\ pool'.lost = pool.lost
    BY <1>0, <1>1, <2>1, StoredFacts
  <2>4. qr.msgs = que[s].msgs /\ qr.cbytes = que[s].cbytes
    OBVIOUS
  <2> HIDE DEF chans, qr
  <2> QED
    BY <1>0, <1>2, <2>2, <2>3, <2>4, QuietLeave
<1>3. CASE pr[p].pc = "text"
  <2>1. /\ ts \in Nat /\ addr \in Nat /\ (ts = 0 <=> addr = 0)
        /\ Segments(addr, ts) \intersect Has(ww) = {}
    <3>1. pr[p].call \in Calls /\ pr[p].call.op = "msgsnd" /\ ts > 0 /\ addr > 0 /\ addr \in Nat
      BY <1>3, ProcFacts DEF CallOK, ProcType
    <3>2. ts \in Nat
      BY <3>1, CallFacts
    <3>3. Segments(addr, ts) \intersect Has(ww) = {}
      BY <1>0, <1>3, PartsApart
    <3> QED
      BY <3>1, <3>2, <3>3
  <2>2. w = FreeHeader(x)
    BY <1>3
  <2> DEFINE G == Segments(addr, ts)
             chans == w.woken
             qr == que[s]
  <2>3. Leave(p, s, chans) /\ que' = [que EXCEPT ![s] = qr] /\ MayLeave(qr)
    BY <1>0
  <2>4. Sound(w) /\ w.hdrs = pool.hdrs + 1 /\ Has(w) = Has(ww) \union G
    <3>1. x = FreeText(ww, ts, addr)
      OBVIOUS
    <3> HIDE DEF w, x, ww, ts, addr
    <3>2. Sound(x) /\ x.hdrs = ww.hdrs /\ Has(x) = Has(ww) \union Segments(addr, ts)
      BY <1>1, <2>1, <3>1, FreeTextFacts
    <3>3. Sound(w) /\ w.hdrs = x.hdrs + 1 /\ Has(w) = Has(x)
      BY <2>2, <3>2, FreeHeaderFacts
    <3> QED
      BY <1>1, <3>2, <3>3
  <2>5. GivesBack(G) /\ pool' \in PoolType /\ pool'.hdrs = w.hdrs
    <3>1. \A u : u \in Has(w) <=> u \in Has(Work) \/ u \in G
      BY <2>4
    <3> HIDE DEF w, G, s
    <3> QED
      BY <1>0, <2>4, <3>1, StoredFacts
  <2>6. GivesBack(Segments(pr[p].got, pr[p].call.ts)) /\ Idle.pc # "text"
    BY <2>5, IdleFacts
  <2> HIDE DEF w, G, s, chans, qr
  <2>7. Stepped(p, s, Idle, qr)
    BY <1>0, <2>3, <2>5, LeaveSteps
  <2> QED
    BY <1>3, <2>4, <2>5, <2>6, <2>7, GiveKeeps DEF qr
<1> QED
  BY <1>2, <1>3

\* A queue is made in a slot where nobody can be.
LEMMA MsggetKeeps ==
  ASSUME IInv, NEW p \in Proc, msgget(p)
  PROVE  IInv'
<1>0. Types /\ Locks /\ FreeSlotIsEmpty /\ TextAccounted /\ HeadersCounted /\ BytesCounted
  BY DEF IInv
<1>1. PICK s \in Slot :
        /\ ~que[s].alloc
        /\ que' = [que EXCEPT ![s].alloc = TRUE, ![s].msgs = <<>>, ![s].qbytes = msgmnb]
  BY DEF msgget
<1>2. UNCHANGED <<msglock, pool, pr>>
  BY DEF msgget
<1>3. que[s].msgs = <<>> /\ que[s] \in QueType /\ que \in [Slot -> QueType]
  BY <1>0, <1>1 DEF FreeSlotIsEmpty, Types
<1> DEFINE qr == [que[s] EXCEPT !.alloc = TRUE, !.msgs = <<>>, !.qbytes = msgmnb]
<1>4. que' = [que EXCEPT ![s] = qr]
  BY <1>1, <1>3
<1>5. /\ qr \in QueType /\ qr.alloc /\ qr.msgs = que[s].msgs /\ qr.cbytes = que[s].cbytes
  <2> DEFINE b == que[s]
             e == b.msgs
  <2>1. b \in QueType /\ e \in Seq(MsgType) /\ qr = [b EXCEPT !.alloc = TRUE, !.msgs = e, !.qbytes = msgmnb]
    BY <1>3 DEF QueType
  <2>2. msgmnb \in 0 .. msgmnb
    BY MsgAssumption
  <2> HIDE DEF qr, e
  <2>3. qr \in QueType /\ qr.alloc /\ qr.msgs = e /\ qr.cbytes = b.cbytes
    <3> HIDE DEF b
    <3> QED
      BY <2>1, <2>2 DEF QueType
  <2> QED
    BY <2>3 DEF e
<1> HIDE DEF qr
<1>6. /\ que' \in [Slot -> QueType] /\ que'[s] = qr /\ \A t \in Slot \ {s} : que'[t] = que[t]
      /\ \A t \in Slot : que'[t].msgs = que[t].msgs /\ que'[t].cbytes = que[t].cbytes
  BY <1>3, <1>4, <1>5
<1>7. Types'
  <2>1. \A x \in Proc : CallOK(pr[x])'
    BY <1>0, <1>2 DEF Types, CallOK
  <2> QED
    BY <1>0, <1>2, <1>6, <2>1 DEF Types
<1>8. Locks'
  <2>1. \A x \in Proc : ~HoldsLock(x, s)
    BY <1>0, <1>1 DEF Locks, HolderOK, Valid, HoldsLock
  <2>2. \A x \in Proc, t \in Slot : HoldsLock(x, t)' <=> HoldsLock(x, t)
    BY <1>2 DEF HoldsLock, Holds
  <2>3. ASSUME NEW x \in Proc, NEW t \in Slot \ {s}, HoldsLock(x, t), HolderOK(x, t)
        PROVE  HolderOK(x, t)'
    BY <1>2, <1>6, <2>3 DEF HolderOK, Valid, Full, HoldsLock
  <2>4. ASSUME NEW t \in Slot
        PROVE  /\ msglock'[t] <=> \E x \in Proc : HoldsLock(x, t)'
               /\ \A x, y \in Proc : HoldsLock(x, t)' /\ HoldsLock(y, t)' => x = y
               /\ \A x \in Proc : HoldsLock(x, t)' => HolderOK(x, t)'
    BY <1>0, <1>2, <2>1, <2>2, <2>3 DEF Locks
  <2> QED
    BY <2>4 DEF Locks
<1>9. TextAccounted'
  <2>1. \A x \in Proc : SendStays(x)
    BY <1>2 DEF SendStays
  <2> QED
    BY <1>0, <1>2, <1>6, <1>7, <2>1, TextStays
<1>10. HeadersCounted'
  <2>1. Queued' = Queued /\ Sending' = Sending
    BY <1>2, <1>6 DEF Queued, Sending
  <2> QED
    BY <1>0, <1>2, <2>1 DEF HeadersCounted
<1>11. FreeSlotIsEmpty' /\ BytesCounted'
  BY <1>0, <1>5, <1>6 DEF FreeSlotIsEmpty, BytesCounted
<1> QED
  BY <1>7, <1>8, <1>9, <1>10, <1>11 DEF IInv

-----------------------------------------------------------------------------
\* The first state satisfies the invariant.
LEMMA InitInv == Init => IInv
<1> SUFFICES ASSUME Init
             PROVE  IInv
  OBVIOUS
<1> DEFINE q0 == [alloc |-> FALSE, seq |-> 0, msgs |-> <<>>, cbytes |-> 0,
                  qbytes |-> 0, rwait |-> FALSE, wwait |-> FALSE]
           e == [addr |-> 1, size |-> msgseg]
           m == [ents |-> <<e>>, slots |-> msgmap - 3]
<1>1. /\ SeqMax \in Nat /\ msgtql \in Nat /\ msgmnb \in Nat /\ msgseg \in Nat \ {0}
      /\ msgmap - 3 \in Nat
  BY MsgAssumption
<1>2. /\ que = [s \in Slot |-> q0] /\ msglock = [s \in Slot |-> FALSE]
      /\ pool = [hdrs |-> msgtql, map |-> m, mapwant |-> FALSE, lost |-> {}]
      /\ pr = [p \in Proc |-> Idle]
  BY DEF Init
<1>3. m \in MapType /\ m.ents = <<e>> /\ e.addr = 1 /\ e.size = msgseg
  <2>1. e \in [addr: Nat, size: Nat] /\ e.addr = 1 /\ e.size = msgseg
    BY <1>1
  <2> HIDE DEF e
  <2> QED
    BY <1>1, <2>1 DEF MapType
<1>4. MapOK(m) /\ UnitsOf(m) = 1 .. msgseg
  <2>1. DOMAIN m.ents = {1} /\ m.ents[1] = e
    BY <1>3
  <2> HIDE DEF m, e
  <2>2. MapOK(m)
    BY <1>1, <1>3, <2>1 DEF MapOK
  <2>3. UnitsOf(m) = e.addr .. End(e) - 1
    BY <2>1 DEF UnitsOf
  <2> QED
    BY <1>1, <1>3, <2>2, <2>3 DEF End
<1> HIDE DEF m
<1>5. q0 \in QueType
  <2>1. <<>> \in Seq(MsgType) /\ 0 \in 0 .. SeqMax /\ 0 \in 0 .. msgmnb /\ 0 \in Int
    BY <1>1
  <2> QED
    BY <2>1 DEF QueType
<1>6. q0.msgs = <<>> /\ q0.cbytes = 0 /\ ~q0.alloc
  OBVIOUS
<1> HIDE DEF q0
<1>7. Types
  BY <1>1, <1>2, <1>3, <1>5, IdleFacts DEF Types, PoolType
<1>8. \A p \in Proc : pr[p].pc = "idle" /\ ~Holds(p)
  BY <1>2, IdleFacts DEF Holds
<1>9. Locks
  BY <1>2, <1>8 DEF Locks, HoldsLock
<1>10. \A s \in Slot : que[s].msgs = <<>> /\ que[s].cbytes = 0 /\ Len(que[s].msgs) = 0
  BY <1>2, <1>6
<1>11. TextAccounted
  <2>1. OwnedShape
    BY <1>7, OwnedIs
  <2>2. /\ OwnedAll[FreeO] = 1 .. msgseg
        /\ \A k \in Owners \ {FreeO} : OwnedAll[k] = {}
    <3>1. OwnedAll[FreeO] = 1 .. msgseg /\ OwnedAll[LostO] = {}
      BY <1>2, <1>4, <2>1 DEF OwnedShape
    <3>2. \A s \in Slot, i \in Nat \ {0} : OwnedAll[QueueO(s, i)] = {}
      BY <1>10, <2>1 DEF OwnedShape
    <3>3. \A p \in Proc : OwnedAll[SendO(p)] = {}
      BY <1>8, <2>1 DEF OwnedShape
    <3> QED
      BY <3>1, <3>2, <3>3, OwnersCases
  <2>3. FreeO \in Owners /\ DOMAIN OwnedAll = Owners
    BY <2>1, AreOwners DEF OwnedShape
  <2>4. Partition(OwnedAll, 1 .. msgseg)
    <3> DEFINE F == OwnedAll
               U == 1 .. msgseg
    <3>1. DOMAIN F = Owners /\ FreeO \in Owners /\ F[FreeO] = U
      BY <2>2, <2>3
    <3>2. \A k \in Owners \ {FreeO} : F[k] = {}
      BY <2>2
    <3> HIDE DEF F, U
    <3>3. \A k \in Owners : F[k] \subseteq U
      BY <3>1, <3>2
    <3>4. \A u \in U : \E k \in Owners : u \in F[k]
      BY <3>1
    <3>5. \A k, l \in Owners : k # l => F[k] \intersect F[l] = {}
      BY <3>2
    <3>6. Partition(F, U)
      BY <3>1, <3>3, <3>4, <3>5 DEF Partition
    <3> QED
      BY <3>6 DEF F, U
  <2>5. TextParts
    BY <1>2, <1>4, <2>4 DEF TextParts
  <2> QED
    BY <1>7, <2>5, TextIsPartition
<1>12. HeadersCounted
  <2>1. Queued = {}
    BY <1>10 DEF Queued
  <2>2. Sending = {}
    BY <1>8 DEF Sending
  <2> QED
    BY <1>1, <1>2, <2>1, <2>2, FS_EmptySet DEF HeadersCounted
<1>13. FreeSlotIsEmpty /\ BytesCounted
  BY <1>10, BytesEmpty DEF FreeSlotIsEmpty, BytesCounted
<1> QED
  BY <1>7, <1>9, <1>11, <1>12, <1>13 DEF IInv

\* Every step keeps it.
LEMMA NextInv == IInv /\ [Next]_vars => IInv'
<1> SUFFICES ASSUME IInv, [Next]_vars
             PROVE  IInv'
  OBVIOUS
<1>1. ASSUME NEW p \in Proc, Call(p)
      PROVE  IInv'
  BY <1>1, CallKeeps
<1>2. ASSUME NEW p \in Proc, Run(p)
      PROVE  IInv'
  BY <1>2, RunKeeps
<1>3. ASSUME NEW p \in Proc, Signal(p)
      PROVE  IInv'
  BY <1>3, SignalKeeps
<1>4. ASSUME NEW p \in Proc, Interrupted(p)
      PROVE  IInv'
  BY <1>4, InterruptedKeeps
<1>5. ASSUME NEW p \in Proc, CopiedIn(p)
      PROVE  IInv'
  BY <1>5, CopiedInKeeps
<1>6. ASSUME NEW p \in Proc, CopiedText(p)
      PROVE  IInv'
  BY <1>6, CopiedTextKeeps
<1>7. ASSUME NEW p \in Proc, CopiedOut(p)
      PROVE  IInv'
  BY <1>7, CopiedOutKeeps
<1>8. ASSUME NEW p \in Proc, CopyFails(p)
      PROVE  IInv'
  BY <1>8, CopyFailsKeeps
<1>9. ASSUME NEW p \in Proc, msgget(p)
      PROVE  IInv'
  BY <1>9, MsggetKeeps
<1>10. CASE UNCHANGED vars
  <2>1. UNCHANGED <<que, msglock, pool, pr>>
    BY <1>10 DEF vars
  <2>2. Types'
    <3>1. \A x \in Proc : CallOK(pr[x])'
      BY <2>1 DEF IInv, Types, CallOK
    <3> QED
      BY <2>1, <3>1 DEF IInv, Types
  <2>3. Locks'
    BY <2>1 DEF IInv, Locks, HoldsLock, HolderOK, Holds, Valid, Full
  <2>4. TextAccounted'
    <3>1. \A x \in Proc : SendStays(x)
      BY <2>1 DEF SendStays
    <3> QED
      BY <2>1, <2>2, <3>1, TextStays DEF IInv
  <2>5. HeadersCounted'
    BY <2>1 DEF IInv, HeadersCounted, Queued, Sending
  <2>6. FreeSlotIsEmpty' /\ BytesCounted'
    BY <2>1 DEF IInv, FreeSlotIsEmpty, BytesCounted
  <2> QED
    BY <2>2, <2>3, <2>4, <2>5, <2>6 DEF IInv
<1> QED
  BY <1>1, <1>2, <1>3, <1>4, <1>5, <1>6, <1>7, <1>8, <1>9, <1>10 DEF Next

(* The lock in msglock[], the messages on each msgque, the map msgmap, the *)
(* free headers msgfp and what msgsnd() and msgrcv() are doing with them   *)
(* agree in every state: the invariant that the properties follow from.    *)
THEOREM Invariant == Spec => []IInv
BY InitInv, NextInv, PTL DEF Spec

-----------------------------------------------------------------------------
\* What the invariant says of the properties.
LEMMA InvAccounts == IInv => ResourcesAccounted
BY DEF IInv, ResourcesAccounted, HeadersCounted, BytesCounted

\* The types of the model follow.
LEMMA InvTypes == IInv => TypeOK
<1> SUFFICES ASSUME IInv
             PROVE  TypeOK
  OBVIOUS
<1>0. Types /\ TextAccounted /\ HeadersCounted /\ BytesCounted
  BY DEF IInv
<1>1. OwnedShape /\ TextParts
  BY <1>0, OwnedIs, TextIsPartition
<1>2. \A k \in Owners : OwnedAll[k] \subseteq 1 .. msgseg
  BY <1>1 DEF TextParts, Partition, OwnedShape
<1>3. ASSUME NEW s \in Slot
      PROVE  que[s].msgs \in Seq(Message)
  <2> DEFINE q == que[s].msgs
  <2>1. q \in Seq(MsgType) /\ Len(q) \in Nat /\ \A i \in 1 .. Len(q) : q[i] \in MsgType
    BY <1>0, MsgsFacts
  <2>2. ASSUME NEW i \in 1 .. Len(q)
        PROVE  q[i] \in Message
    <3>1. i \in Nat \ {0} /\ i <= Len(q) /\ q[i] \in MsgType
      BY <2>1
    <3>2. Segments(q[i].addr, q[i].ts) \subseteq 1 .. msgseg
      BY <1>1, <1>2, <3>1, AreOwners DEF OwnedShape
    <3> DEFINE m == q[i]
    <3>3. m \in MsgType /\ Segments(m.addr, m.ts) \subseteq 1 .. msgseg
      BY <3>1, <3>2
    <3> HIDE DEF q, m
    <3>4. m.addr \in 0 .. msgseg
      <4>1. m.ts \in Nat /\ m.addr \in Nat /\ msgseg \in Nat /\ (m.ts = 0 <=> m.addr = 0)
        BY <3>3, MsgAssumption DEF MsgType
      <4>2. CASE m.ts = 0
        BY <4>1, <4>2
      <4>3. CASE m.ts # 0
        <5>1. btoq(m.ts) \in Nat /\ btoq(m.ts) # 0
          BY <4>1, <4>3, BtoqProperties
        <5> DEFINE b == btoq(m.ts)
        <5>2. m.addr \in m.addr .. m.addr + b - 1
          <6> HIDE DEF b
          <6> QED
            BY <4>1, <5>1 DEF b
        <5>3. m.addr \in 1 .. msgseg
          BY <3>3, <5>2 DEF Segments
        <5> QED
          BY <5>3
      <4> QED
        BY <4>2, <4>3
    <3>5. m \in Message
      BY <3>3, <3>4 DEF MsgType, Message
    <3> QED
      BY <3>5 DEF m
  <2> HIDE DEF q
  <2>3. q \in Seq(Message)
    <3>1. q = [i \in 1 .. Len(q) |-> q[i]]
      BY <2>1
    <3> QED
      BY <2>1, <2>2, <3>1
  <2> QED
    BY <2>3 DEF q
<1>4. ASSUME NEW s \in Slot
      PROVE  /\ que[s].alloc \in BOOLEAN /\ que[s].rwait \in BOOLEAN /\ que[s].wwait \in BOOLEAN
             /\ que[s].seq \in 0 .. SeqMax /\ que[s].qbytes \in 0 .. msgmnb
             /\ que[s].cbytes \in Nat
  <2>1. que[s] \in QueType /\ que[s].msgs \in Seq(MsgType) /\ que[s].cbytes = Bytes(que[s].msgs)
    BY <1>0, MsgsFacts DEF BytesCounted
  <2>2. Bytes(que[s].msgs) \in Nat
    <3> DEFINE q == que[s].msgs
    <3>1. q \in Seq(MsgType)
      BY <2>1
    <3> HIDE DEF q
    <3>2. PICK f \in [0 .. Len(q) -> Nat] : Bytes(q) = f[Len(q)]
      BY <3>1, BytesIsSum
    <3>3. Len(q) \in 0 .. Len(q)
      BY <3>1, LenProperties
    <3>4. Bytes(q) \in Nat
      BY <3>2, <3>3
    <3> QED
      BY <3>4 DEF q
  <2> QED
    BY <2>1, <2>2 DEF QueType
<1>5. /\ pool.hdrs \in 0 .. msgtql /\ pool.map \in MapType /\ pool.mapwant \in BOOLEAN
      /\ pool.lost \subseteq 1 .. msgseg
  <2>1. Cardinality(Queued) \in Nat /\ Cardinality(Sending) \in Nat
    BY <1>0, FS_CardinalityType DEF HeadersCounted
  <2>2. pool \in PoolType /\ msgtql = pool.hdrs + Cardinality(Queued) + Cardinality(Sending)
    BY <1>0 DEF HeadersCounted, Types
  <2>3. pool.hdrs \in Nat
    BY <2>2 DEF PoolType
  <2>4. pool.hdrs \in 0 .. msgtql
    BY <2>1, <2>2, <2>3
  <2>5. pool.lost \subseteq 1 .. msgseg
    BY <1>1, <1>2, AreOwners DEF OwnedShape
  <2> QED
    BY <2>2, <2>4, <2>5 DEF PoolType
<1>6. \A p \in Proc :
        /\ pr[p].pc \in {"idle", "asleep", "run", "signalled", "in", "text", "out"}
        /\ pr[p].pc # "idle" => pr[p].call \in Calls /\ pr[p].slot \in Slot
  BY <1>0 DEF Types, ProcType, CallOK
<1>7. msglock \in [Slot -> BOOLEAN]
  BY <1>0 DEF Types
<1> QED
  BY <1>3, <1>4, <1>5, <1>6, <1>7 DEF TypeOK

(* Every variable of Msg is of its type: msg_cbytes is never negative, the *)
(* free headers are at most msginfo.msgtql, and every text lies in the     *)
(* segments that msginit() gave to msgmap.                                 *)
THEOREM TypeCorrect == Spec => []TypeOK
BY Invariant, InvTypes, PTL

(* msglock[] is held by one process; while it copies, the queue is there,  *)
(* the message it sends still has room, and the message that msgrcv()      *)
(* chose as smp is still the one it would choose.                          *)
THEOREM HeldQueue == Spec => []LockedQueueStays
<1>1. IInv => LockedQueueStays
  BY LocksStay DEF IInv
<1> QED
  BY <1>1, Invariant, PTL

(* Each segment of text and each header is free, in one message, or with   *)
(* one msgsnd() that copies, or was lost to an overflow in rmfree(); and   *)
(* msg_cbytes is the sum of msg_ts on the queue.                           *)
THEOREM Accounted == Spec => []ResourcesAccounted
BY Invariant, InvAccounts, PTL

-----------------------------------------------------------------------------
(***************************************************************************)
(* No wakeup is lost, if msg_qbytes is never raised while a queue is in    *)
(* use: IPC_SET knows one value of it only. The invariant, WInv, is the    *)
(* property told of the records that are asleep; a step keeps it if the    *)
(* queue and the pool that it leaves behind are QueueKept and PoolKept for *)
(* the channels that it wakes.                                             *)
(***************************************************************************)
OneLimit == \A c, d \in Calls : c.op = "IPC_SET" /\ d.op = "IPC_SET" => c.qbytes = d.qbytes

(* What a record asleep waits for.                                         *)
Waits(r) ==
  /\ r.chan = Locked(r.slot) => msglock[r.slot]
  /\ r.chan = Room(r.slot) => Valid(r) /\ que[r.slot].wwait /\ Full(r.slot, r.call)
  /\ r.chan = Mail(r.slot) =>
       Valid(r) /\ que[r.slot].rwait /\ smp(que[r.slot].msgs, r.call.typ) = 0
  /\ r.chan = Header => pool.hdrs = 0
  /\ r.chan = Text => pool.mapwant /\ NoText(r.call)

LimitIsLeast == \A s \in Slot, c \in Calls :
  c.op = "IPC_SET" /\ que[s].alloc => c.qbytes <= que[s].qbytes

WInv == LimitIsLeast /\ \A p \in Proc : pr[p].pc = "asleep" => Waits(pr[p])

\* It is what the property says.
LEMMA WaitsIs == IInv /\ WInv => NoLostWakeup
<1> SUFFICES ASSUME IInv, WInv, NEW p \in Proc, pr[p].pc = "asleep"
             PROVE  LET c == pr[p].call
                        s == pr[p].slot
                    IN  CASE pr[p].chan = Locked(s) -> msglock[s]
                          [] pr[p].chan = Room(s)   -> Valid(pr[p]) /\ que[s].wwait /\ Full(s, c)
                          [] pr[p].chan = Mail(s)   -> Valid(pr[p]) /\ que[s].rwait
                                                       /\ smp(que[s].msgs, c.typ) = 0
                          [] pr[p].chan = Header    -> pool.hdrs = 0
                          [] pr[p].chan = Text      -> pool.mapwant /\ NoText(c)
  BY DEF NoLostWakeup
<1> DEFINE r == pr[p]
<1>1. Waits(r)
  BY DEF WInv
<1>2. r.chan \in {Locked(r.slot), Room(r.slot), Mail(r.slot), Header, Text}
  BY ProcFacts DEF CallOK
<1>3. \A s, t : /\ Locked(s) # Room(t) /\ Locked(s) # Mail(t) /\ Locked(s) # Header
                /\ Locked(s) # Text /\ Room(s) # Mail(t) /\ Room(s) # Header /\ Room(s) # Text
                /\ Mail(s) # Header /\ Mail(s) # Text /\ Header # Text
  BY DEF Locked, Room, Mail, Header, Text
<1> HIDE DEF r
<1>4. CASE r.chan = Locked(r.slot)
  BY <1>1, <1>3, <1>4 DEF Waits, r
<1>5. CASE r.chan = Room(r.slot)
  BY <1>1, <1>3, <1>5 DEF Waits, r
<1>6. CASE r.chan = Mail(r.slot)
  BY <1>1, <1>3, <1>6 DEF Waits, r
<1>7. CASE r.chan = Header
  BY <1>1, <1>3, <1>7 DEF Waits, r
<1>8. CASE r.chan = Text
  BY <1>1, <1>3, <1>8 DEF Waits, r
<1> QED
  BY <1>2, <1>4, <1>5, <1>6, <1>7, <1>8

-----------------------------------------------------------------------------
(* The sleepers for the queue, and those for headers and text, are woken,  *)
(* or have what they wait for still to wait for.                           *)
QueueKept(s, chans, qr) ==
  /\ \/ Room(s) \in chans
     \/ ~que[s].wwait
     \/ /\ qr.wwait /\ (qr.alloc <=> que[s].alloc) /\ qr.seq = que[s].seq
        /\ qr.cbytes >= que[s].cbytes /\ qr.qbytes <= que[s].qbytes
  /\ \/ Mail(s) \in chans
     \/ ~que[s].rwait
     \/ /\ qr.rwait /\ (qr.alloc <=> que[s].alloc) /\ qr.seq = que[s].seq
        /\ \A typ \in Int : smp(que[s].msgs, typ) = 0 => smp(qr.msgs, typ) = 0
  /\ qr.alloc => \A c \in Calls : c.op = "IPC_SET" => c.qbytes <= qr.qbytes

PoolKept(chans) ==
  /\ Header \in chans \/ (pool.hdrs = 0 => pool'.hdrs = 0)
  /\ \/ Text \in chans
     \/ ~pool.mapwant
     \/ /\ pool'.mapwant
        /\ \A n \in Nat : rmalloc(pool.map, n).addr = 0 => rmalloc(pool'.map, n).addr = 0

\* Such a step keeps the invariant, if its own process sleeps with reason.
LEMMA WakeKeeps ==
  ASSUME IInv, WInv, NEW p \in Proc, NEW s \in Slot, NEW v \in ProcType, CallOK(v),
         NEW l \in BOOLEAN, NEW chans, NEW qr \in QueType,
         Step(p, s, v, l, chans, qr), Locked(s) \in chans,
         QueueKept(s, chans, qr), PoolKept(chans),
         pr'[p].pc = "asleep" => Waits(pr[p])'
  PROVE  WInv'
<1>0. Types
  BY DEF IInv
<1>1. /\ que'[s] = qr /\ \A t \in Slot \ {s} : que'[t] = que[t]
      /\ \A t \in Slot \ {s} : msglock'[t] = msglock[t]
      /\ \A x \in Proc \ {p} :
           /\ pr'[x].call = pr[x].call /\ pr'[x].slot = pr[x].slot /\ pr'[x].seq = pr[x].seq
           /\ pr'[x].chan = pr[x].chan
           /\ pr'[x].pc = IF pr[x].pc = "asleep" /\ pr[x].chan \in chans THEN "run" ELSE pr[x].pc
  BY <1>0, StepFacts
<1>2. LimitIsLeast'
  BY <1>1 DEF LimitIsLeast, WInv, QueueKept
<1>3. ASSUME NEW x \in Proc \ {p}, pr'[x].pc = "asleep"
      PROVE  Waits(pr[x])'
  <2> DEFINE r == pr[x]
             t == r.slot
             c == r.call
  <2>1. r.pc = "asleep" /\ r.chan \notin chans
    BY <1>1, <1>3
  <2>2. Waits(r) /\ t \in Slot /\ c \in Calls /\ que[t] \in QueType
    BY <2>1, ProcFacts, QueueFacts DEF WInv, CallOK
  <2>3. pr'[x].call = c /\ pr'[x].slot = t /\ pr'[x].seq = r.seq /\ pr'[x].chan = r.chan
    BY <1>1
  <2>4. r.chan = Locked(t) => msglock'[t]
    BY <1>1, <2>1, <2>2 DEF Waits
  <2>5. r.chan = Room(t) =>
          que'[t].alloc /\ que'[t].seq = r.seq /\ que'[t].wwait /\ c.ts + que'[t].cbytes > que'[t].qbytes
    <3> SUFFICES ASSUME r.chan = Room(t)
                 PROVE  /\ que'[t].alloc /\ que'[t].seq = r.seq /\ que'[t].wwait
                        /\ c.ts + que'[t].cbytes > que'[t].qbytes
      OBVIOUS
    <3>1. /\ que[t].alloc /\ que[t].seq = r.seq /\ que[t].wwait
          /\ c.ts + que[t].cbytes > que[t].qbytes
      BY <2>2 DEF Waits, Valid, Full
    <3>2. CASE t = s
      <4>1. c.ts \in Int
        <5>1. c.op = "msgsnd"
          BY <2>1, ProcFacts DEF CallOK, Room, Locked, Mail
        <5> QED
          BY <2>2, <5>1, CallFacts
      <4>2. /\ qr.wwait /\ (qr.alloc <=> que[s].alloc) /\ qr.seq = que[s].seq
            /\ qr.cbytes >= que[s].cbytes /\ qr.qbytes <= que[s].qbytes
        BY <2>1, <3>1, <3>2 DEF QueueKept
      <4>3. /\ que[s].cbytes \in Int /\ qr.cbytes \in Int /\ que[s].qbytes \in Int /\ qr.qbytes \in Int
        BY QueueFacts DEF QueType
      <4>4. c.ts + qr.cbytes > qr.qbytes
        BY <3>1, <3>2, <4>1, <4>2, <4>3
      <4> QED
        BY <1>1, <3>1, <3>2, <4>2, <4>4
    <3>3. CASE t # s
      BY <1>1, <2>2, <3>1, <3>3
    <3> QED
      BY <3>2, <3>3
  <2>6. r.chan = Mail(t) =>
          /\ que'[t].alloc /\ que'[t].seq = r.seq /\ que'[t].rwait
          /\ smp(que'[t].msgs, c.typ) = 0
    <3> SUFFICES ASSUME r.chan = Mail(t)
                 PROVE  /\ que'[t].alloc /\ que'[t].seq = r.seq /\ que'[t].rwait
                        /\ smp(que'[t].msgs, c.typ) = 0
      OBVIOUS
    <3>1. /\ que[t].alloc /\ que[t].seq = r.seq /\ que[t].rwait /\ smp(que[t].msgs, c.typ) = 0
      BY <2>2 DEF Waits, Valid
    <3>2. CASE t = s
      <4>1. c.typ \in Int
        <5>1. c.op = "msgrcv"
          BY <2>1, ProcFacts DEF CallOK, Room, Locked, Mail, Header, Text
        <5> QED
          BY <2>2, <5>1, CallFacts
      <4> QED
        BY <1>1, <2>1, <3>1, <3>2, <4>1 DEF QueueKept
    <3>3. CASE t # s
      BY <1>1, <2>2, <3>1, <3>3
    <3> QED
      BY <3>2, <3>3
  <2>7. r.chan = Header => pool'.hdrs = 0
    BY <2>1, <2>2 DEF Waits, PoolKept
  <2>8. r.chan = Text => pool'.mapwant /\ c.ts > 0 /\ rmalloc(pool'.map, btoq(c.ts)).addr = 0
    <3> SUFFICES ASSUME r.chan = Text
                 PROVE  pool'.mapwant /\ c.ts > 0 /\ rmalloc(pool'.map, btoq(c.ts)).addr = 0
      OBVIOUS
    <3>1. pool.mapwant /\ c.ts > 0 /\ rmalloc(pool.map, btoq(c.ts)).addr = 0
      BY <2>2 DEF Waits, NoText, TextOf
    <3>2. c.op = "msgsnd"
      BY <2>1, ProcFacts DEF CallOK, Room, Locked, Mail, Header, Text
    <3>3. btoq(c.ts) \in Nat
      BY <2>2, <3>2, CallFacts, BtoqProperties
    <3> DEFINE n == btoq(c.ts)
    <3> HIDE DEF n
    <3>4. pool'.mapwant /\ (rmalloc(pool.map, n).addr = 0 => rmalloc(pool'.map, n).addr = 0)
      BY <2>1, <3>1, <3>3 DEF PoolKept, n
    <3> QED
      BY <3>1, <3>4 DEF n
  <2> HIDE DEF t, c, r
  <2> QED
    BY <2>3, <2>4, <2>5, <2>6, <2>7, <2>8 DEF Waits, Valid, Full, NoText, TextOf
<1>4. \A x \in Proc : pr'[x].pc = "asleep" => Waits(pr[x])'
  BY <1>3
<1> QED
  BY <1>2, <1>4 DEF WInv

(* A step of p with the queue s, which it leaves as qr: it wakes chans, and *)
(* whoever sleeps on the lock.                                             *)
Keeps(p, s, qr, chans) ==
  /\ MayLock(p, s) /\ MayLeave(qr) /\ que' = [que EXCEPT ![s] = qr]
  /\ pool' \in PoolType /\ QueueKept(s, chans, qr) /\ PoolKept(chans)

\* Waking more does no harm.
LEMMA MoreWoken ==
  ASSUME NEW s, NEW qr, NEW chans, NEW more, QueueKept(s, chans, qr), PoolKept(chans)
  PROVE  QueueKept(s, more \union chans, qr) /\ PoolKept(more \union chans)
BY DEF QueueKept, PoolKept

\* A call that ends wakes who waits for the lock.
LEMMA LeaveWakes ==
  ASSUME IInv, WInv, NEW p, NEW s, NEW qr, NEW chans, Keeps(p, s, qr, chans),
         Leave(p, s, chans)
  PROVE  WInv'
<1> DEFINE k == {Locked(s)} \union chans
<1>1. Step(p, s, Idle, FALSE, k, qr)
  BY DEF Leave, Step, Others, Unlocked, Keeps
<1>2. QueueKept(s, k, qr) /\ PoolKept(k) /\ Locked(s) \in k
  BY MoreWoken DEF Keeps
<1>3. p \in Proc /\ s \in Slot /\ qr \in QueType
  BY DEF Keeps, MayLock, MayLeave
<1> HIDE DEF k
<1>4. pr'[p].pc = "idle"
  <2>1. pr'[p] = Idle
    BY <1>1, <1>3 DEF Step, wakeprocs
  <2> QED
    BY <2>1, IdleFacts
<1> QED
  BY <1>1, <1>2, <1>3, <1>4, IdleFacts, WakeKeeps

\* So does one that takes the lock again, which it holds over the copy.
LEMMA CopiesWakes ==
  ASSUME IInv, WInv, NEW p, NEW s, NEW qr, Keeps(p, s, qr, {}),
         NEW me, me.slot = s, NEW at, NEW got, MayCopy(me, qr, at, got),
         Copies(p, me, s, at, got)
  PROVE  WInv'
<1> DEFINE k == {Locked(s)} \union {}
           v == Copying(me, at, got)
<1>1. Step(p, s, v, TRUE, k, qr)
  BY DEF Copies, Step, Others, Copying, Keeps
<1>2. QueueKept(s, k, qr) /\ PoolKept(k) /\ Locked(s) \in k
  BY MoreWoken DEF Keeps
<1>3. p \in Proc /\ s \in Slot /\ qr \in QueType
  BY DEF Keeps, MayLock, MayLeave
<1>4. /\ v \in ProcType /\ v.pc = at /\ v.got = got /\ v.call = me.call /\ v.slot = me.slot
  BY DEF ProcType, Chans, MayCopy, Copying
<1> HIDE DEF k, v
<1>5. CallOK(v) /\ v.pc # "asleep"
  BY <1>3, <1>4 DEF CallOK, MayCopy
<1>6. pr'[p] = v
  BY <1>1, <1>3 DEF Step, wakeprocs
<1> QED
  BY <1>1, <1>2, <1>3, <1>4, <1>5, <1>6, WakeKeeps

(* What p finds when it goes to sleep on chan.                             *)
HasReason(me, qr, chan) ==
  LET s == me.slot
      c == me.call
  IN  \/ /\ chan = Room(s) /\ c.op = "msgsnd"
         /\ qr.alloc /\ qr.seq = me.seq /\ qr.wwait /\ c.ts + qr.cbytes > qr.qbytes
      \/ /\ chan = Mail(s) /\ c.op = "msgrcv"
         /\ qr.alloc /\ qr.seq = me.seq /\ qr.rwait /\ smp(qr.msgs, c.typ) = 0
      \/ chan = Header /\ c.op = "msgsnd" /\ pool'.hdrs = 0
      \/ /\ chan = Text /\ c.op = "msgsnd" /\ pool'.mapwant /\ c.ts > 0
         /\ rmalloc(pool'.map, btoq(c.ts)).addr = 0

\* A call that goes to sleep does so with its reason and its flag.
LEMMA SleepWakes ==
  ASSUME IInv, WInv, NEW p, NEW s, NEW qr, NEW chans, Keeps(p, s, qr, chans),
         NEW me, me \in ProcType, me.call \in Calls, me.slot = s,
         NEW chan, HasReason(me, qr, chan),
         Sleep(p, me, s, chan, chans)
  PROVE  WInv'
<1> DEFINE k == {Locked(s)} \union chans
           v == [me EXCEPT !.pc = "asleep", !.again = TRUE, !.chan = chan]
<1>1. Step(p, s, v, FALSE, k, qr)
  BY DEF Sleep, Step, Others, Unlocked, Keeps
<1>2. QueueKept(s, k, qr) /\ PoolKept(k) /\ Locked(s) \in k
  BY MoreWoken DEF Keeps
<1>3. p \in Proc /\ s \in Slot /\ qr \in QueType
  BY DEF Keeps, MayLock, MayLeave
<1>4. chan \in Chans /\ chan # Locked(s)
  BY <1>3 DEF HasReason, Chans, Room, Mail, Header, Text, Locked
<1>5. /\ v \in ProcType /\ v.pc = "asleep" /\ v.chan = chan /\ v.call = me.call
      /\ v.slot = s /\ v.seq = me.seq
  BY <1>4 DEF ProcType
<1> HIDE DEF k, v
<1>6. CallOK(v)
  BY <1>3, <1>5 DEF CallOK, HasReason
<1>7. pr'[p] = v /\ que'[s] = qr
  BY <1>1, <1>3 DEF Step, wakeprocs, IInv, Types
<1>8. Waits(pr[p])'
  <2>1. /\ pr'[p].chan = chan /\ pr'[p].call = me.call /\ pr'[p].slot = s
        /\ pr'[p].seq = me.seq
    BY <1>5, <1>7
  <2>2. /\ Room(s) # Mail(s) /\ Room(s) # Header /\ Room(s) # Text
        /\ Mail(s) # Header /\ Mail(s) # Text /\ Header # Text
    BY DEF Room, Mail, Header, Text
  <2>3. CASE chan = Room(s)
    BY <1>4, <1>7, <2>1, <2>2, <2>3 DEF Waits, Valid, Full, HasReason
  <2>4. CASE chan = Mail(s)
    BY <1>4, <1>7, <2>1, <2>2, <2>4 DEF Waits, Valid, Full, HasReason
  <2>5. CASE chan = Header
    BY <1>4, <1>7, <2>1, <2>2, <2>5 DEF Waits, HasReason
  <2>6. CASE chan = Text
    BY <1>4, <1>7, <2>1, <2>2, <2>6 DEF Waits, NoText, TextOf, HasReason
  <2> QED
    BY <2>3, <2>4, <2>5, <2>6 DEF HasReason
<1> QED
  BY <1>1, <1>2, <1>3, <1>5, <1>6, <1>8, WakeKeeps

-----------------------------------------------------------------------------
\* A map has no room for n after something else is taken from it, if it has none before.
LEMMA RmallocStaysFull ==
  ASSUME NEW m \in MapType, MapOK(m), NEW size \in Nat, NEW n \in Nat, rmalloc(m, n).addr = 0
  PROVE  rmalloc(rmalloc(m, size).map, n).addr = 0
<1> DEFINE k == rmalloc(m, size).map
<1>0. /\ m.ents \in Seq(Ent) /\ Len(m.ents) \in Nat /\ DOMAIN m.ents = 1 .. Len(m.ents)
      /\ \A i \in 1 .. Len(m.ents) : m.ents[i] \in Ent
  BY MapFacts
<1>1. ASSUME NEW x, n # 0, Fitting(x, n) = {}
      PROVE  rmalloc(x, n).addr = 0
  BY <1>1 DEF rmalloc
<1>2. CASE n = 0
  BY <1>2 DEF rmalloc
<1>3. CASE n # 0
  <2>1. Fitting(m, n) = {}
    <3> SUFFICES ASSUME Fitting(m, n) # {}
                 PROVE  FALSE
      OBVIOUS
    <3> DEFINE E == Fitting(m, n)
               i == CHOOSE x \in E : \A y \in E : x <= y
    <3>1. E \in SUBSET Nat /\ E \subseteq 1 .. Len(m.ents)
      BY <1>0 DEF Fitting
    <3>2. rmalloc(m, n).addr = m.ents[i].addr
      BY <1>3 DEF rmalloc
    <3> HIDE DEF E
    <3>3. \E x \in E : \A y \in E : x <= y
      BY <3>1, LeastNat DEF E
    <3>4. i \in E
      BY <3>3
    <3> HIDE DEF i
    <3>5. m.ents[i].addr > 0
      BY <1>0, <3>1, <3>4 DEF MapOK
    <3> QED
      BY <3>2, <3>5
  <2>2. \A i \in 1 .. Len(m.ents) : m.ents[i].size < n
    BY <1>0, <2>1 DEF Fitting, Ent
  <2>3. CASE size = 0 \/ Fitting(m, size) = {}
    <3>1. k = m
      BY <2>3 DEF rmalloc
    <3> QED
      BY <3>1
  <2>4. CASE ~(size = 0 \/ Fitting(m, size) = {})
    <3> DEFINE E == Fitting(m, size)
               i == CHOOSE x \in E : \A y \in E : x <= y
               e == m.ents[i]
    <3>1. E \in SUBSET Nat /\ E \subseteq 1 .. Len(m.ents) /\ E # {}
      BY <1>0, <2>4 DEF Fitting
    <3>2. k = IF e.size = size
              THEN [ents |-> RemoveAt(m.ents, i), slots |-> m.slots + 1]
              ELSE [m EXCEPT !.ents[i] = [addr |-> e.addr + size, size |-> e.size - size]]
      BY <2>4 DEF rmalloc
    <3>3. i \in E
      <4> HIDE DEF E
      <4>1. \E x \in E : \A y \in E : x <= y
        BY <3>1, LeastNat
      <4> QED
        BY <4>1
    <3> HIDE DEF i, E
    <3>4. i \in 1 .. Len(m.ents) /\ e \in Ent /\ e.size < n
      BY <1>0, <2>2, <3>1, <3>3
    <3>5. CASE e.size = size
      <4> DEFINE r == RemoveAt(m.ents, i)
      <4>1. k.ents = r
        BY <3>2, <3>5
      <4>2. /\ r \in Seq(Ent) /\ Len(r) = Len(m.ents) - 1
            /\ \A j \in 1 .. Len(m.ents) - 1 :
                 r[j] = IF j < i THEN m.ents[j] ELSE m.ents[j + 1]
        <5> DEFINE a == m.ents
        <5>1. a \in Seq(Ent) /\ i \in 1 .. Len(a)
          BY <1>0, <3>4
        <5> HIDE DEF a
        <5>2. /\ RemoveAt(a, i) \in Seq(Ent) /\ Len(RemoveAt(a, i)) = Len(a) - 1
              /\ \A j \in 1 .. Len(a) - 1 :
                   RemoveAt(a, i)[j] = IF j < i THEN a[j] ELSE a[j + 1]
          BY <5>1, RemoveAtProperties
        <5> QED
          BY <5>2 DEF a
      <4> HIDE DEF r, k, e
      <4>3. \A j \in DOMAIN k.ents : k.ents[j].size < n /\ k.ents[j].size \in Nat
        <5>1. DOMAIN r = 1 .. Len(m.ents) - 1
          BY <4>2
        <5>2. ASSUME NEW j \in 1 .. Len(m.ents) - 1
              PROVE  r[j].size < n /\ r[j].size \in Nat
          <6>1. j \in 1 .. Len(m.ents) /\ j + 1 \in 1 .. Len(m.ents)
            BY <1>0
          <6> QED
            BY <1>0, <2>2, <4>2, <6>1 DEF Ent
        <5> QED
          BY <4>1, <5>1, <5>2
      <4>4. Fitting(k, n) = {}
        BY <4>3 DEF Fitting
      <4> QED
        BY <1>1, <1>3, <4>4 DEF k
    <3>6. CASE e.size # size
      <4> DEFINE f == [addr |-> e.addr + size, size |-> e.size - size]
                 r == [m.ents EXCEPT ![i] = f]
      <4>1. k.ents = r
        <5>1. k = [m EXCEPT !.ents = r]
          BY <3>2, <3>6
        <5> HIDE DEF r, k
        <5> QED
          BY <5>1 DEF MapType
      <4>2. f.size < n /\ f.size \in Int
        BY <3>4 DEF Ent
      <4> HIDE DEF f
      <4>3. DOMAIN r = 1 .. Len(m.ents) /\ \A j \in 1 .. Len(m.ents) : r[j].size < n
                                        /\ r[j].size \in Int
        BY SMTT(30), <1>0, <2>2, <3>4, <4>2 DEF Ent
      <4> HIDE DEF r, k
      <4>4. Fitting(k, n) = {}
        BY <4>1, <4>3 DEF Fitting
      <4> QED
        BY <1>1, <1>3, <4>4 DEF k
    <3> QED
      BY <3>5, <3>6
  <2> QED
    BY <2>3, <2>4
<1> QED
  BY <1>2, <1>3

\* A type that no message has, none has when one is removed.
LEMMA SmpStaysNone ==
  ASSUME NEW msgs \in Seq(MsgType), NEW i \in 1 .. Len(msgs), NEW typ \in Int,
         smp(msgs, typ) = 0
  PROVE  smp(RemoveAt(msgs, i), typ) = 0
<1> DEFINE r == RemoveAt(msgs, i)
<1>1. /\ r \in Seq(MsgType) /\ Len(r) = Len(msgs) - 1 /\ Len(msgs) \in Nat
      /\ \A j \in 1 .. Len(msgs) - 1 : r[j] = IF j < i THEN msgs[j] ELSE msgs[j + 1]
  BY RemoveAtProperties
<1>2. Eligible(msgs, typ) = {}
  BY SmpFacts
<1> HIDE DEF r
<1>3. Eligible(r, typ) = {}
  <2>1. ASSUME NEW j \in 1 .. Len(msgs) - 1
        PROVE  j \notin Eligible(r, typ)
    <3>1. PICK x \in 1 .. Len(msgs) : r[j] = msgs[x]
      <4>1. j \in 1 .. Len(msgs) /\ j + 1 \in 1 .. Len(msgs)
        BY <1>1
      <4> QED
        BY <1>1, <4>1
    <3>2. x \notin Eligible(msgs, typ)
      BY <1>2
    <3>3. x \in DOMAIN msgs
      BY <1>1
    <3> QED
      BY <3>1, <3>2, <3>3 DEF Eligible
  <2>2. Eligible(r, typ) \subseteq 1 .. Len(msgs) - 1
    BY <1>1 DEF Eligible
  <2> QED
    BY <2>1, <2>2
<1>4. smp(r, typ) = 0
  BY <1>3 DEF smp
<1> QED
  BY <1>4 DEF r

-----------------------------------------------------------------------------
\* What a step with the queue or the pool as they are keeps.
LEMMA SameKept ==
  ASSUME IInv, WInv, NEW s \in Slot, NEW chans
  PROVE  /\ QueueKept(s, chans, que[s])
         /\ pool' = pool => PoolKept(chans) /\ pool' \in PoolType
<1>1. QueueKept(s, chans, que[s])
  BY QueueFacts DEF QueueKept, WInv, LimitIsLeast, QueType
<1>2. pool' = pool => PoolKept(chans) /\ pool' \in PoolType
  BY QueueFacts DEF PoolKept
<1> QED
  BY <1>1, <1>2

\* A message goes on a queue: the readers are told, and there is no more room.
LEMMA AppendKept ==
  ASSUME IInv, WInv, NEW s \in Slot, que[s].alloc, NEW m \in MsgType
  PROVE  LET qr == [que[s] EXCEPT !.msgs = Append(@, m), !.cbytes = @ + m.ts, !.rwait = FALSE]
         IN  QueueKept(s, Readers(s), qr) /\ MayLeave(qr)
<1> DEFINE q == que[s]
           ms == Append(q.msgs, m)
           qr == [q EXCEPT !.msgs = ms, !.cbytes = @ + m.ts, !.rwait = FALSE]
<1>1. q \in QueType /\ m.ts \in Nat /\ q.alloc
  BY QueueFacts DEF MsgType
<1>2. ms \in Seq(MsgType)
  <2>1. q.msgs \in Seq(MsgType)
    BY <1>1 DEF QueType
  <2> HIDE DEF q
  <2> QED
    BY <2>1, AppendProperties
<1> HIDE DEF ms
<1>3. /\ qr \in QueType /\ qr.alloc /\ qr.seq = q.seq /\ qr.wwait = q.wwait
      /\ qr.cbytes = q.cbytes + m.ts /\ qr.qbytes = q.qbytes
  <2>1. q.cbytes + m.ts \in Int
    BY <1>1 DEF QueType
  <2> HIDE DEF q
  <2> QED
    BY <1>1, <1>2, <2>1 DEF QueType
<1>4. q.cbytes \in Int /\ q.qbytes \in Int
  BY <1>1 DEF QueType
<1>5. MayLeave(qr)
  BY <1>3 DEF MayLeave
<1>6. QueueKept(s, Readers(s), qr)
  <2>1. \A d \in Calls : d.op = "IPC_SET" => d.qbytes <= q.qbytes
    BY <1>1 DEF WInv, LimitIsLeast
  <2> HIDE DEF qr
  <2> QED
    BY <1>1, <1>3, <1>4, <2>1 DEF QueueKept, Readers
<1> QED
  BY <1>5, <1>6 DEF ms

\* The steps of msgsnd() and msgrcv() lose no wakeup.
LEMMA GetresWakes ==
  ASSUME IInv, WInv, NEW p, NEW me, Ready(p, me), me.call.op = "msgsnd", Getres(p, me)
  PROVE  WInv'
<1> DEFINE c == me.call
           s == me.slot
           q == que[s]
<1>0. /\ s \in Slot /\ c \in Calls /\ c.type \in Nat \ {0} /\ c.ts \in Nat
      /\ q \in QueType /\ MayLeave(q) /\ que = [que EXCEPT ![s] = q]
      /\ pool \in PoolType /\ MayLock(p, s) /\ me \in ProcType
      /\ q.alloc /\ q.seq = me.seq
      /\ \A k : QueueKept(s, k, q)
      /\ pool' = pool => \A k : PoolKept(k)
  BY QueueFacts, CallFacts, SameKept DEF Ready, MayLock, Valid
<1> HIDE DEF q
<1>1. CASE /\ Full(s, c) \/ pool.hdrs = 0 \/ NoText(c)
           /\ c.nowait
           /\ Leave(p, s, IF Full(s, c) THEN {} ELSE PutBack)
           /\ UNCHANGED <<que, pool>>
  <2> DEFINE chans == IF Full(s, c) THEN {} ELSE PutBack
  <2>1. Leave(p, s, chans) /\ que' = [que EXCEPT ![s] = q] /\ pool' = pool
    BY <1>0, <1>1
  <2> HIDE DEF chans, s, c
  <2>2. Keeps(p, s, q, chans)
    BY <1>0, <2>1 DEF Keeps
  <2> QED
    BY <2>1, <2>2, LeaveWakes
<1>2. CASE /\ Full(s, c) /\ ~c.nowait
           /\ que' = [que EXCEPT ![s].wwait = TRUE]
           /\ Sleep(p, me, s, Room(s), {})
           /\ UNCHANGED pool
  <2> DEFINE qr == [q EXCEPT !.wwait = TRUE]
  <2>1. que' = [que EXCEPT ![s] = qr] /\ pool' = pool
    BY <1>2 DEF q
  <2>2. /\ MayLeave(qr) /\ qr.msgs = q.msgs /\ qr.cbytes = q.cbytes /\ qr.qbytes = q.qbytes
        /\ qr.alloc = q.alloc /\ qr.seq = q.seq /\ qr.rwait = q.rwait /\ qr.wwait
    BY <1>0 DEF MayLeave, QueType
  <2> HIDE DEF qr
  <2>3. QueueKept(s, {}, qr)
    <3>1. QueueKept(s, {}, q)
      BY <1>0
    <3>2. q.cbytes \in Int /\ q.qbytes \in Int
      BY <1>0 DEF QueType
    <3> QED
      BY <2>2, <3>1, <3>2 DEF QueueKept, q
  <2>4. HasReason(me, qr, Room(s))
    BY <1>0, <1>2, <2>2 DEF HasReason, Full, q
  <2>5. Keeps(p, s, qr, {})
    BY <1>0, <2>1, <2>2, <2>3 DEF Keeps
  <2> DEFINE chan == Room(s)
  <2>6. HasReason(me, qr, chan) /\ Sleep(p, me, s, chan, {}) /\ me.slot = s /\ c \in Calls
    BY <1>0, <1>2, <2>4
  <2> HIDE DEF s, chan
  <2> QED
    BY <1>0, <2>5, <2>6, SleepWakes
<1>3. CASE /\ ~Full(s, c) /\ pool.hdrs = 0 /\ ~c.nowait
           /\ Sleep(p, me, s, Header, {})
           /\ UNCHANGED <<que, pool>>
  <2>1. que' = [que EXCEPT ![s] = q] /\ pool' = pool
    BY <1>0, <1>3
  <2>2. HasReason(me, q, Header)
    BY <1>3 DEF HasReason
  <2>3. Keeps(p, s, q, {})
    BY <1>0, <2>1 DEF Keeps
  <2>4. Sleep(p, me, s, Header, {}) /\ me.slot = s /\ c \in Calls
    BY <1>0, <1>3
  <2> HIDE DEF s
  <2> QED
    BY <1>0, <2>2, <2>3, <2>4, SleepWakes
<1>4. CASE /\ ~Full(s, c) /\ pool.hdrs > 0 /\ NoText(c) /\ ~c.nowait
           /\ pool' = [pool EXCEPT !.mapwant = TRUE]
           /\ Sleep(p, me, s, Text, PutBack)
           /\ UNCHANGED que
  <2>1. que' = [que EXCEPT ![s] = q]
    BY <1>0, <1>4
  <2>2. /\ pool' \in PoolType /\ pool'.hdrs = pool.hdrs /\ pool'.mapwant
        /\ pool'.map = pool.map
    BY <1>0, <1>4 DEF PoolType
  <2>3. \A k : PoolKept(k)
    BY <2>2 DEF PoolKept
  <2>4. HasReason(me, q, Text)
    BY <1>4, <2>2 DEF HasReason, NoText, TextOf
  <2>5. Keeps(p, s, q, PutBack)
    BY <1>0, <2>1, <2>2, <2>3 DEF Keeps
  <2>6. Sleep(p, me, s, Text, PutBack) /\ me.slot = s /\ c \in Calls
    BY <1>0, <1>4
  <2> HIDE DEF s
  <2> QED
    BY <1>0, <2>4, <2>5, <2>6, SleepWakes
<1>5. CASE /\ ~Full(s, c) /\ pool.hdrs > 0 /\ c.ts = 0
           /\ pool' = [pool EXCEPT !.hdrs = @ - 1]
           /\ Append1(s, c, 0)
           /\ Leave(p, s, Readers(s))
  <2> DEFINE m == [type |-> c.type, ts |-> c.ts, addr |-> 0]
             qr == [q EXCEPT !.msgs = Append(@, m), !.cbytes = @ + c.ts, !.rwait = FALSE]
  <2>1. m \in MsgType
    BY <1>0, <1>5 DEF MsgType
  <2>2. que' = [que EXCEPT ![s] = qr]
    BY <1>0, <1>5 DEF Append1, QueType, q
  <2>3. QueueKept(s, Readers(s), qr) /\ MayLeave(qr)
    BY <1>0, <2>1, AppendKept DEF q
  <2>4. pool' \in PoolType /\ PoolKept(Readers(s))
    BY <1>0, <1>5 DEF PoolType, PoolKept
  <2> HIDE DEF qr, s, c
  <2>5. Keeps(p, s, qr, Readers(s))
    BY <1>0, <2>2, <2>3, <2>4 DEF Keeps
  <2> QED
    BY <1>5, <2>5, LeaveWakes
<1>6. CASE /\ ~Full(s, c) /\ pool.hdrs > 0 /\ c.ts > 0 /\ ~NoText(c)
           /\ pool' = [pool EXCEPT !.hdrs = @ - 1, !.map = TextOf(c).map]
           /\ Copies(p, me, s, "text", TextOf(c).addr)
           /\ UNCHANGED que
  <2> DEFINE n == btoq(c.ts)
             r == rmalloc(pool.map, n)
             a == r.addr
  <2>1. n \in Nat /\ pool.map \in MapType /\ MapOK(pool.map) /\ TextOf(c) = r
    BY <1>0, BtoqProperties DEF PoolType, IInv, TextAccounted, TextOf
  <2> HIDE DEF n
  <2>2. r.addr \in Nat /\ r.map \in MapType /\ MapOK(r.map)
    BY <2>1, RmallocTakes
  <2>3. /\ pool' \in PoolType /\ pool'.mapwant = pool.mapwant /\ pool'.map = r.map
    <3> HIDE DEF r
    <3>1. pool' = [pool EXCEPT !.hdrs = @ - 1, !.map = r.map]
      BY <1>6, <2>1
    <3>2. pool.hdrs - 1 \in Nat
      BY <1>0, <1>6 DEF PoolType
    <3> QED
      BY <1>0, <2>2, <3>1, <3>2 DEF PoolType
  <2>4. PoolKept({})
    <3>1. \A k \in Nat : rmalloc(pool.map, k).addr = 0 => rmalloc(pool'.map, k).addr = 0
      BY <2>1, <2>3, RmallocStaysFull
    <3> QED
      BY <1>6, <2>3, <3>1 DEF PoolKept
  <2>5. MayCopy(me, q, "text", a)
    BY <1>0, <1>6, <2>1, <2>2 DEF MayCopy, Ready, Full, NoText, q
  <2>6. Keeps(p, s, q, {})
    BY <1>0, <1>6, <2>3, <2>4 DEF Keeps
  <2>7. Copies(p, me, s, "text", a) /\ me.slot = s
    BY <1>6, <2>1
  <2> HIDE DEF a, r, s
  <2> QED
    BY <2>5, <2>6, <2>7, CopiesWakes
<1> QED
  BY <1>1, <1>2, <1>3, <1>4, <1>5, <1>6 DEF Getres

\* A receiver sleeps when no message has its type, with MSG_RWAIT set.
LEMMA FindmsgWakes ==
  ASSUME IInv, WInv, NEW p, NEW me, Ready(p, me), me.call.op = "msgrcv", Findmsg(p, me)
  PROVE  WInv'
<1> DEFINE c == me.call
           s == me.slot
           q == que[s]
           i == smp(q.msgs, c.typ)
<1>0. /\ s \in Slot /\ c \in Calls /\ c.typ \in Int
      /\ q \in QueType /\ MayLeave(q) /\ que = [que EXCEPT ![s] = q]
      /\ pool \in PoolType /\ MayLock(p, s) /\ me \in ProcType
      /\ q.alloc /\ q.seq = me.seq /\ q.msgs \in Seq(MsgType)
      /\ \A k : QueueKept(s, k, q)
      /\ pool' = pool => \A k : PoolKept(k)
  BY QueueFacts, CallFacts, SameKept DEF Ready, MayLock, Valid, QueType
<1>1. CASE Leave(p, s, {}) /\ UNCHANGED <<que, pool>>
  <2>1. Keeps(p, s, q, {})
    BY <1>0, <1>1 DEF Keeps
  <2> HIDE DEF s, q
  <2> QED
    BY <1>1, <2>1, LeaveWakes
<1>2. CASE /\ i = 0
           /\ que' = [que EXCEPT ![s].rwait = TRUE]
           /\ Sleep(p, me, s, Mail(s), {})
           /\ UNCHANGED pool
  <2> DEFINE qr == [q EXCEPT !.rwait = TRUE]
  <2>1. que' = [que EXCEPT ![s] = qr] /\ pool' = pool
    BY <1>2
  <2>2. /\ MayLeave(qr) /\ qr.msgs = q.msgs /\ qr.cbytes = q.cbytes /\ qr.qbytes = q.qbytes
        /\ qr.alloc = q.alloc /\ qr.seq = q.seq /\ qr.wwait = q.wwait /\ qr.rwait
    BY <1>0 DEF MayLeave, QueType
  <2> HIDE DEF qr
  <2>3. QueueKept(s, {}, qr)
    <3>1. QueueKept(s, {}, q)
      BY <1>0
    <3>2. q.cbytes \in Int /\ q.qbytes \in Int
      BY <1>0 DEF QueType
    <3> QED
      BY <2>2, <3>1, <3>2 DEF QueueKept
  <2> DEFINE chan == Mail(s)
  <2>4. HasReason(me, qr, chan)
    BY <1>0, <1>2, <2>2 DEF HasReason
  <2>5. Keeps(p, s, qr, {})
    BY <1>0, <2>1, <2>2, <2>3 DEF Keeps
  <2>6. Sleep(p, me, s, chan, {}) /\ me.slot = s /\ c \in Calls
    BY <1>0, <1>2
  <2> HIDE DEF s, chan
  <2> QED
    BY <1>0, <2>4, <2>5, <2>6, SleepWakes
<1>3. CASE i # 0 /\ Copies(p, me, s, "out", i) /\ UNCHANGED <<que, pool>>
  <2>1. i \in 0 .. Len(q.msgs)
    <3> HIDE DEF q
    <3> QED
      BY <1>0, SmpFacts
  <2>2. i \in Nat /\ i > 0
    <3> HIDE DEF i
    <3> QED
      BY <1>3, <2>1
  <2>3. MayCopy(me, q, "out", i)
    BY <1>0, <2>2 DEF MayCopy, Ready
  <2>4. Keeps(p, s, q, {})
    BY <1>0, <1>3 DEF Keeps
  <2>5. Copies(p, me, s, "out", i) /\ me.slot = s
    BY <1>3
  <2> HIDE DEF i, q, s
  <2> QED
    BY <2>3, <2>4, <2>5, CopiesWakes
<1> QED
  BY <1>1, <1>2, <1>3 DEF Findmsg

\* What is freed is told.
LEMMA FreedKept ==
  ASSUME Types, TextAccounted, NEW w, Sound(w), Stored(w), w.hdrs >= pool.hdrs, NEW more,
         pool.hdrs = 0 => w.hdrs = 0 \/ Header \in w.woken,
         Text \in w.woken \/ (w.mapwant = pool.mapwant /\ (w.mapwant => w.map = pool.map))
  PROVE  PoolKept(w.woken \union more) /\ pool' \in PoolType
<1>1. /\ pool' \in PoolType /\ pool'.hdrs = w.hdrs /\ pool'.mapwant = w.mapwant
      /\ pool'.map = w.map
  BY StoredFacts
<1> QED
  BY <1>1 DEF PoolKept

\* A removal wakes every sleeper of the queue and of what it frees.
LEMMA Remove1Wakes ==
  ASSUME IInv, WInv, NEW p, NEW me, Ready(p, me), Remove1(p, me)
  PROVE  WInv'
<1> DEFINE s == me.slot
           w == FreeAll(Work, que[s].msgs)
           n == Len(que[s].msgs)
           qr == [que[s] EXCEPT !.alloc = FALSE, !.msgs = <<>>, !.cbytes = 0,
                                !.rwait = FALSE, !.wwait = FALSE, !.seq = NextSeq(@)]
           sleepers == (IF que[s].rwait THEN {Mail(s)} ELSE {})
                       \union (IF que[s].wwait THEN {Room(s)} ELSE {})
           chans == w.woken \union sleepers
<1>0. /\ s \in Slot /\ que[s] \in QueType /\ que \in [Slot -> QueType]
      /\ MayLock(p, s) /\ pr[p].pc # "text"
      /\ Types /\ TextAccounted /\ pool.hdrs \in Nat /\ n \in Nat
  BY QueueFacts, MsgsFacts DEF Ready, MayLock, IInv, Types, PoolType
<1>1. Stored(w) /\ Leave(p, s, chans) /\ que' = [que EXCEPT ![s] = qr]
  <2>1. que' = [que EXCEPT ![s].alloc = FALSE, ![s].msgs = <<>>, ![s].cbytes = 0,
                           ![s].rwait = FALSE, ![s].wwait = FALSE, ![s].seq = NextSeq(@)]
    BY DEF Remove1
  <2>2. que' = [que EXCEPT ![s] = qr]
    BY <1>0, <2>1
  <2> QED
    BY <2>2 DEF Remove1
<1>2. MayLeave(qr) /\ ~qr.alloc
  BY <1>0, RemovedFacts
<1>3. Freed(Work, que[s].msgs, n, w)
  <2>1. /\ Sound(Work) /\ Work.woken = {} /\ que[s].msgs \in Seq(MsgType)
        /\ TextsApart(Work, que[s].msgs)
    BY <1>0, WorkFacts, PartsApart, MsgsFacts
  <2> DEFINE x == Work
             q == que[s].msgs
  <2>2. Sound(x) /\ x.woken = {} /\ q \in Seq(MsgType) /\ TextsApart(x, q)
    BY <2>1
  <2> HIDE DEF x, q
  <2>3. Freed(x, q, Len(q), FreeAll(x, q))
    BY <2>2, FreeAllFacts
  <2> QED
    BY <2>3 DEF x, q
<1> HIDE DEF w, qr, n
<1>4. /\ Sound(w) /\ w.hdrs = pool.hdrs + n
      /\ pool.hdrs = 0 => w.hdrs = 0 \/ Header \in w.woken
      /\ Text \in w.woken \/ (w.mapwant = pool.mapwant /\ (w.mapwant => w.map = pool.map))
  BY <1>0, <1>3, WorkFacts DEF Freed
<1>5. PoolKept(chans) /\ pool' \in PoolType
  <2>1. w.hdrs >= pool.hdrs
    BY <1>0, <1>4
  <2> HIDE DEF sleepers
  <2> QED
    BY <1>0, <1>1, <1>4, <2>1, FreedKept
<1>6. QueueKept(s, chans, qr)
  BY <1>0, <1>2 DEF QueueKept, QueType
<1> HIDE DEF chans, s
<1>7. Keeps(p, s, qr, chans)
  BY <1>0, <1>1, <1>2, <1>5, <1>6 DEF Keeps
<1> QED
  BY <1>1, <1>7, LeaveWakes

\* The record of p changes, the queues stay but for their flags.
LEMMA RecordWakes ==
  ASSUME IInv, WInv, NEW p \in Proc, NEW v \in ProcType, NEW chans,
         que' \in [Slot -> QueType],
         \A s \in Slot :
           /\ que'[s].alloc = que[s].alloc /\ que'[s].seq = que[s].seq
           /\ que'[s].msgs = que[s].msgs /\ que'[s].cbytes = que[s].cbytes
           /\ que'[s].qbytes = que[s].qbytes /\ que'[s].rwait = que[s].rwait
           /\ Room(s) \in chans \/ que'[s].wwait = que[s].wwait,
         UNCHANGED <<msglock, pool>>,
         pr' = [wakeprocs(pr, chans) EXCEPT ![p] = v],
         pr'[p].pc = "asleep" => Waits(pr[p])'
  PROVE  WInv'
<1>1. LimitIsLeast'
  BY DEF WInv, LimitIsLeast
<1>2. ASSUME NEW x \in Proc \ {p}, pr'[x].pc = "asleep"
      PROVE  Waits(pr[x])'
  <2> DEFINE r == pr[x]
             w == wakeprocs(pr, chans)
  <2>1. /\ w[x].call = r.call /\ w[x].slot = r.slot /\ w[x].seq = r.seq /\ w[x].chan = r.chan
        /\ w[x].pc = IF r.pc = "asleep" /\ r.chan \in chans THEN "run" ELSE r.pc
    BY WokenFacts DEF IInv
  <2>2. pr'[x] = w[x]
    BY DEF wakeprocs
  <2> HIDE DEF w
  <2>3. r.pc = "asleep" /\ r.chan \notin chans
    BY <1>2, <2>1, <2>2
  <2>4. Waits(r) /\ r.slot \in Slot
    BY <2>3, ProcFacts DEF WInv, CallOK
  <2>5. /\ pr'[x].call = r.call /\ pr'[x].slot = r.slot /\ pr'[x].seq = r.seq
        /\ pr'[x].chan = r.chan
    BY <2>1, <2>2
  <2> HIDE DEF r
  <2> QED
    BY <2>3, <2>4, <2>5 DEF Waits, Valid, Full, NoText, TextOf
<1>3. \A x \in Proc : pr'[x].pc = "asleep" => Waits(pr[x])'
  BY <1>2
<1> QED
  BY <1>1, <1>3 DEF WInv

\* What is done with the lock, and the sleep for the lock.
LEMMA MsgconvWakes ==
  ASSUME IInv, WInv, NEW p \in Proc, ~Holds(p), NEW me \in ProcType, me.call \in Calls,
         me.slot \in Slot, msgconv(p, me)
  PROVE  WInv'
<1> DEFINE s == me.slot
           q == que[s]
<1>0. /\ q \in QueType /\ MayLeave(q) /\ que = [que EXCEPT ![s] = q] /\ pool \in PoolType
      /\ pr[p].pc # "text" /\ \A k : QueueKept(s, k, q)
      /\ pool' = pool => \A k : PoolKept(k)
  BY QueueFacts, SameKept DEF Holds
<1>1. CASE /\ Held(me)
           /\ pr' = [pr EXCEPT ![p] = [me EXCEPT !.pc = "asleep", !.chan = Locked(s)]]
           /\ UNCHANGED <<que, msglock, pool>>
  <2> DEFINE v == [me EXCEPT !.pc = "asleep", !.chan = Locked(s)]
  <2>1. Locked(s) \in Chans
    BY DEF Chans
  <2>2. /\ v \in ProcType /\ v.pc = "asleep" /\ v.chan = Locked(s) /\ v.call = me.call
        /\ v.slot = s
    BY <2>1 DEF ProcType
  <2>3. pr' = [pr EXCEPT ![p] = v] /\ wakeprocs(pr, {}) = pr /\ que' \in [Slot -> QueType]
        /\ pr'[p] = v
    BY <1>1 DEF wakeprocs, IInv, Types
  <2> DEFINE f == wakeprocs(pr, {})
  <2>4. pr' = [f EXCEPT ![p] = v]
    BY <2>3
  <2>5. Waits(pr[p])'
    <3>1. /\ Locked(s) # Room(s) /\ Locked(s) # Mail(s) /\ Locked(s) # Header /\ Locked(s) # Text
      BY DEF Locked, Room, Mail, Header, Text
    <3>2. msglock'[s]
      BY <1>1 DEF Held
    <3> HIDE DEF v
    <3> QED
      BY <2>2, <2>3, <3>1, <3>2 DEF Waits
  <2>6. \A t \in Slot :
           /\ que'[t].alloc = que[t].alloc /\ que'[t].seq = que[t].seq
           /\ que'[t].msgs = que[t].msgs /\ que'[t].cbytes = que[t].cbytes
           /\ que'[t].qbytes = que[t].qbytes /\ que'[t].rwait = que[t].rwait
           /\ Room(t) \in {} \/ que'[t].wwait = que[t].wwait
    BY <1>1
  <2> HIDE DEF v
  <2> QED
    BY <1>1, <2>2, <2>3, <2>4, <2>5, <2>6, RecordWakes
<1>2. CASE ~Held(me) /\ ~Valid(me) /\ Leave(p, s, {}) /\ UNCHANGED <<que, pool>>
  <2>1. que' = [que EXCEPT ![s] = q] /\ pool' = pool /\ MayLock(p, s)
    BY <1>0, <1>2 DEF MayLock, Held
  <2>2. Keeps(p, s, q, {})
    BY <1>0, <2>1 DEF Keeps
  <2> HIDE DEF s, q
  <2> QED
    BY <1>2, <2>2, LeaveWakes
<1>3. CASE ~Held(me) /\ Valid(me)
  <2>1. Ready(p, me) /\ MayLock(p, s)
    BY <1>0, <1>3 DEF Ready, MayLock, Held
  <2>2. CASE /\ me.call.op = "IPC_SET" \/ (me.call.op = "msgsnd" /\ ~me.again)
             /\ Copies(p, me, s, "in", 0)
             /\ UNCHANGED <<que, pool>>
    <3>1. Keeps(p, s, q, {})
      BY <1>0, <2>1, <2>2 DEF Keeps
    <3>2. MayCopy(me, q, "in", 0)
      BY <1>3, <2>2 DEF MayCopy, Valid
    <3>3. Copies(p, me, s, "in", 0) /\ me.slot = s
      BY <2>2
    <3> HIDE DEF s, q
    <3> QED
      BY <3>1, <3>2, <3>3, CopiesWakes
  <2>3. CASE me.call.op = "msgsnd" /\ me.again /\ Getres(p, me)
    BY <2>1, <2>3, GetresWakes
  <2>4. CASE me.call.op = "msgrcv" /\ Findmsg(p, me)
    BY <2>1, <2>4, FindmsgWakes
  <2>5. CASE me.call.op = "IPC_RMID" /\ Remove1(p, me)
    BY <2>1, <2>5, Remove1Wakes
  <2> QED
    BY <1>3, <2>2, <2>3, <2>4, <2>5 DEF msgconv
<1> QED
  BY <1>1, <1>2, <1>3 DEF msgconv

\* A step of each kind loses no wakeup.
LEMMA CallWakes ==
  ASSUME IInv, WInv, NEW p \in Proc, Call(p)
  PROVE  WInv'
<1>1. PICK c \in Calls, s \in Slot :
        msgconv(p, [Idle EXCEPT !.call = c, !.slot = s, !.seq = que[s].seq])
  BY DEF Call
<1> DEFINE me == [Idle EXCEPT !.call = c, !.slot = s, !.seq = que[s].seq]
<1>2. que[s].seq \in Nat
  <2>1. que[s].seq \in 0 .. SeqMax
    <3>1. que[s] \in QueType
      BY QueueFacts
    <3> QED
      BY <3>1 DEF QueType
  <2> QED
    BY <2>1
<1>3. me \in ProcType /\ me.call \in Calls /\ me.slot \in Slot
  BY <1>2 DEF Idle, ProcType, Chans
<1>4. ~Holds(p)
  BY DEF Call, Holds
<1>5. msgconv(p, me)
  BY <1>1
<1> HIDE DEF me
<1> QED
  BY <1>3, <1>4, <1>5, MsgconvWakes

\* The call goes on.
LEMMA RunWakes ==
  ASSUME IInv, WInv, NEW p \in Proc, Run(p)
  PROVE  WInv'
<1> DEFINE me == pr[p]
<1>1. /\ me \in ProcType /\ me.call \in Calls /\ me.slot \in Slot /\ ~Holds(p)
      /\ msgconv(p, me)
  BY ProcFacts DEF Run, CallOK, Holds
<1> HIDE DEF me
<1> QED
  BY <1>1, MsgconvWakes

\* A sleeper that is interrupted no longer sleeps.
LEMMA SignalWakes ==
  ASSUME IInv, WInv, NEW p \in Proc, Signal(p)
  PROVE  WInv'
<1> DEFINE v == [pr[p] EXCEPT !.pc = "signalled"]
           f == wakeprocs(pr, {})
<1>1. /\ pr[p] \in ProcType /\ pr' = [pr EXCEPT ![p] = v] /\ UNCHANGED <<que, msglock, pool>>
      /\ f = pr /\ que' \in [Slot -> QueType] /\ p \in DOMAIN pr
  BY ProcFacts DEF Signal, wakeprocs, IInv, Types
<1>2. v \in ProcType /\ v.pc = "signalled"
  BY <1>1 DEF ProcType
<1> HIDE DEF v
<1>3. pr' = [f EXCEPT ![p] = v] /\ pr'[p].pc # "asleep"
  BY <1>1, <1>2
<1> HIDE DEF f
<1>4. \A s \in Slot :
           /\ que'[s].alloc = que[s].alloc /\ que'[s].seq = que[s].seq
           /\ que'[s].msgs = que[s].msgs /\ que'[s].cbytes = que[s].cbytes
           /\ que'[s].qbytes = que[s].qbytes /\ que'[s].rwait = que[s].rwait
           /\ Room(s) \in {} \/ que'[s].wwait = que[s].wwait
  BY <1>1
<1> QED
  BY <1>1, <1>2, <1>3, <1>4, RecordWakes DEF f

\* When it clears MSG_WWAIT it wakes the others.
LEMMA InterruptedWakes ==
  ASSUME IInv, WInv, NEW p \in Proc, Interrupted(p)
  PROVE  WInv'
<1> DEFINE s == pr[p].slot
           looks == ~msglock[s] /\ Valid(pr[p]) /\ pr[p].chan = Room(s)
           chans == IF looks THEN {Room(s)} ELSE {}
<1>1. s \in Slot /\ UNCHANGED <<msglock, pool>>
  BY ProcFacts DEF Interrupted, CallOK
<1>2. pr' = [wakeprocs(pr, chans) EXCEPT ![p] = Idle]
  BY DEF Interrupted
<1>3. /\ que' \in [Slot -> QueType]
      /\ \A t \in Slot : /\ que'[t].alloc = que[t].alloc /\ que'[t].seq = que[t].seq
                         /\ que'[t].msgs = que[t].msgs /\ que'[t].cbytes = que[t].cbytes
                         /\ que'[t].qbytes = que[t].qbytes /\ que'[t].rwait = que[t].rwait
                         /\ Room(t) \in chans \/ que'[t].wwait = que[t].wwait
  <2>1. que' = (IF looks THEN [que EXCEPT ![s].wwait = FALSE] ELSE que)
    BY DEF Interrupted
  <2>2. que \in [Slot -> QueType]
    BY DEF IInv, Types
  <2> HIDE DEF looks, s
  <2>3. CASE looks
    <3>1. que' = [que EXCEPT ![s].wwait = FALSE] /\ Room(s) \in chans
      BY <2>1, <2>3
    <3> QED
      BY <1>1, <2>2, <3>1 DEF QueType
  <2> QED
    BY <2>1, <2>2, <2>3
<1>4. Idle \in ProcType /\ pr'[p].pc # "asleep"
  <2>1. pr'[p] = Idle
    BY <1>2 DEF wakeprocs
  <2> QED
    BY <2>1, IdleFacts
<1> HIDE DEF chans, s
<1> QED
  BY <1>1, <1>2, <1>3, <1>4, RecordWakes

\* The type is in, or the new limit, which is the old one.
LEMMA CopiedInWakes ==
  ASSUME OneLimit, IInv, WInv, NEW p \in Proc, CopiedIn(p)
  PROVE  WInv'
<1> DEFINE me == pr[p]
           c == me.call
           s == me.slot
<1>0. /\ pr[p].pc = "in" /\ Holds(p) /\ me \in ProcType /\ c \in Calls /\ s \in Slot
      /\ Valid(me) /\ MayLock(p, s) /\ que[s] \in QueType
  BY ProcFacts, QueueFacts DEF CopiedIn, Holds, CallOK
<1>1. CASE c.op = "msgsnd" /\ Getres(p, me)
  <2>1. Ready(p, me)
    BY <1>0 DEF Ready
  <2> HIDE DEF me
  <2> QED
    BY <1>1, <2>1, GetresWakes
<1>2. CASE /\ c.op = "IPC_SET"
           /\ que' = [que EXCEPT ![s].qbytes = c.qbytes]
           /\ Leave(p, s, {})
           /\ UNCHANGED pool
  <2> DEFINE q == que[s]
             qr == [q EXCEPT !.qbytes = c.qbytes]
  <2>1. que' = [que EXCEPT ![s] = qr] /\ pool' = pool
    BY <1>2
  <2>2. /\ MayLeave(qr) /\ qr.cbytes = q.cbytes /\ qr.msgs = q.msgs /\ qr.qbytes = c.qbytes
        /\ qr.alloc = q.alloc /\ qr.seq = q.seq /\ qr.rwait = q.rwait /\ qr.wwait = q.wwait
    <3>1. c.qbytes \in 0 .. msgmnb
      BY <1>0, <1>2, CallFacts
    <3>2. MayLeave(q)
      BY <1>0, QueueFacts
    <3> QED
      BY <1>0, <3>1, <3>2 DEF MayLeave, QueType
  <2>3. q.alloc /\ c.qbytes <= q.qbytes
    BY <1>0, <1>2 DEF Valid, WInv, LimitIsLeast
  <2>4. \A d \in Calls : d.op = "IPC_SET" => d.qbytes <= qr.qbytes
    <3>1. c.qbytes \in Int
      BY <1>0, <1>2, CallFacts
    <3> QED
      BY <1>0, <1>2, <2>2, <3>1 DEF OneLimit
  <2>5. QueueKept(s, {}, qr)
    <3>1. q.cbytes \in Int
      BY <1>0 DEF QueType
    <3> HIDE DEF qr
    <3> QED
      BY <2>2, <2>3, <2>4, <3>1 DEF QueueKept
  <2>6. PoolKept({}) /\ pool' \in PoolType
    BY <1>0, <2>1, SameKept
  <2> HIDE DEF qr, s
  <2>7. Keeps(p, s, qr, {})
    BY <1>0, <2>1, <2>2, <2>5, <2>6 DEF Keeps
  <2> QED
    BY <1>2, <2>7, LeaveWakes
<1> QED
  BY <1>1, <1>2 DEF CopiedIn

\* The message is on its queue.
LEMMA CopiedTextWakes ==
  ASSUME IInv, WInv, NEW p \in Proc, CopiedText(p)
  PROVE  WInv'
<1> DEFINE c == pr[p].call
           s == pr[p].slot
           a == pr[p].got
           m == [type |-> c.type, ts |-> c.ts, addr |-> a]
           q == que[s]
           qr == [q EXCEPT !.msgs = Append(@, m), !.cbytes = @ + m.ts, !.rwait = FALSE]
<1>0. /\ pr[p].pc = "text" /\ Holds(p) /\ s \in Slot /\ q \in QueType /\ MayLock(p, s)
      /\ c \in Calls /\ c.op = "msgsnd" /\ c.ts > 0 /\ a > 0 /\ a \in Nat
      /\ c.type \in Nat \ {0} /\ c.ts \in Nat
      /\ que[s].alloc /\ pool' = pool
  BY ProcFacts, QueueFacts, CallFacts DEF CopiedText, Holds, CallOK, ProcType, Valid
<1>1. m \in MsgType /\ m.ts = c.ts
  BY <1>0 DEF MsgType
<1>2. que' = [que EXCEPT ![s] = qr] /\ Leave(p, s, Readers(s))
  BY <1>0 DEF CopiedText, Append1, QueType
<1>3. QueueKept(s, Readers(s), qr) /\ MayLeave(qr)
  <2> HIDE DEF m, s
  <2> QED
    BY <1>0, <1>1, AppendKept
<1> HIDE DEF m, qr, s, c, q
<1>4. PoolKept(Readers(s)) /\ pool' \in PoolType
  BY <1>0, SameKept
<1>5. Keeps(p, s, qr, Readers(s))
  BY <1>0, <1>2, <1>3, <1>4 DEF Keeps
<1> QED
  BY <1>2, <1>5, LeaveWakes

\* The message is off its queue: room, a header and text are free.
LEMMA CopiedOutWakes ==
  ASSUME IInv, WInv, NEW p \in Proc, CopiedOut(p)
  PROVE  WInv'
<1> DEFINE s == pr[p].slot
           q == que[s]
           i == pr[p].got
           m == q.msgs[i]
           x == FreeText(Work, m.ts, m.addr)
           w == FreeHeader(x)
           qr == [q EXCEPT !.msgs = RemoveAt(@, i), !.cbytes = @ - m.ts, !.wwait = FALSE]
           chans == w.woken \union IF que[s].wwait THEN {Room(s)} ELSE {}
<1>0. /\ pr[p].pc = "out" /\ Holds(p) /\ s \in Slot /\ q \in QueType /\ MayLock(p, s)
      /\ i = smp(q.msgs, pr[p].call.typ) /\ pr[p].call \in Calls /\ pr[p].call.op = "msgrcv"
      /\ q.msgs \in Seq(MsgType) /\ Len(q.msgs) \in Nat /\ q.alloc
      /\ Types /\ TextAccounted /\ que \in [Slot -> QueType] /\ i \in Nat
  <2>1. Types /\ TextAccounted /\ que \in [Slot -> QueType]
    BY DEF IInv, Types
  <2>2. /\ pr[p].pc = "out" /\ Holds(p) /\ s \in Slot /\ q \in QueType /\ MayLock(p, s)
        /\ i = smp(q.msgs, pr[p].call.typ) /\ pr[p].call \in Calls /\ pr[p].call.op = "msgrcv"
        /\ q.alloc /\ i \in Nat
    BY ProcFacts, QueueFacts DEF CopiedOut, Holds, CallOK, ProcType, Valid
  <2>3. q.msgs \in Seq(MsgType) /\ Len(q.msgs) \in Nat
    BY <2>1, <2>2, MsgsFacts
  <2> QED
    BY <2>1, <2>2, <2>3
<1>1. i \in 1 .. Len(q.msgs)
  <2> DEFINE typ == pr[p].call.typ
             k == smp(q.msgs, typ)
  <2>1. typ \in Int /\ i > 0 /\ i = k
    BY <1>0, CallFacts, ProcFacts DEF CallOK
  <2>2. k \in 0 .. Len(q.msgs)
    <3> HIDE DEF typ
    <3> QED
      BY <1>0, <2>1, SmpFacts
  <2> HIDE DEF k
  <2> QED
    BY <1>0, <2>1, <2>2
<1>2. que' = [que EXCEPT ![s] = qr] /\ Leave(p, s, chans) /\ Stored(w)
  BY <1>0 DEF CopiedOut, msgfree
<1>3. m \in MsgType
  BY <1>0, <1>1
<1>4. /\ qr \in QueType /\ qr.alloc /\ qr.msgs = RemoveAt(que[s].msgs, i)
      /\ qr.seq = q.seq /\ qr.rwait = q.rwait /\ qr.qbytes = q.qbytes
  <2>1. RemoveAt(q.msgs, i) \in Seq(MsgType)
    <3> DEFINE a == q.msgs
    <3>1. a \in Seq(MsgType) /\ i \in 1 .. Len(a)
      BY <1>0, <1>1
    <3> HIDE DEF a
    <3>2. RemoveAt(a, i) \in Seq(MsgType)
      BY <3>1, RemoveAtProperties
    <3> QED
      BY <3>2 DEF a
  <2>2. q.cbytes - m.ts \in Int
    BY SMTT(30), <1>0, <1>3 DEF QueType, MsgType
  <2> HIDE DEF m
  <2> QED
    BY <1>0, <2>1, <2>2 DEF QueType
<1>5. /\ Sound(w) /\ w.hdrs >= pool.hdrs
      /\ pool.hdrs = 0 => w.hdrs = 0 \/ Header \in w.woken
      /\ Text \in w.woken \/ (w.mapwant = pool.mapwant /\ (w.mapwant => w.map = pool.map))
  <2> DEFINE ww == Work
             ts == m.ts
             addr == m.addr
  <2>1. /\ Sound(ww) /\ ww.hdrs = pool.hdrs /\ pool.hdrs \in Nat
        /\ ww.mapwant = pool.mapwant /\ ww.map = pool.map
    BY <1>0, WorkFacts DEF Types, PoolType
  <2>2. Segments(addr, ts) \intersect Has(ww) = {}
    BY <1>0, <1>1, PartsApart
  <2>3. ts \in Nat /\ addr \in Nat /\ (ts = 0 <=> addr = 0) /\ x = FreeText(ww, ts, addr)
    BY <1>3 DEF MsgType
  <2> HIDE DEF ww, ts, addr
  <2>4. /\ Sound(x) /\ x.hdrs = ww.hdrs
        /\ Text \in x.woken \/ (x.mapwant = ww.mapwant /\ (ww.mapwant => x.map = ww.map))
    <3> HIDE DEF x
    <3> QED
      BY <2>1, <2>2, <2>3, FreeTextFacts
  <2> HIDE DEF x
  <2> QED
    BY <2>1, <2>4, FreeHeaderFacts
<1> HIDE DEF w, x
<1>6. PoolKept(chans) /\ pool' \in PoolType
  <2> DEFINE more == IF que[s].wwait THEN {Room(s)} ELSE {}
  <2> HIDE DEF more
  <2>1. PoolKept(w.woken \union more) /\ pool' \in PoolType
    BY <1>0, <1>2, <1>5, FreedKept
  <2> QED
    BY <2>1 DEF more
<1>7. QueueKept(s, chans, qr)
  <2>1. Room(s) \in chans \/ ~q.wwait
    OBVIOUS
  <2>2. ASSUME NEW typ \in Int, smp(q.msgs, typ) = 0
        PROVE  smp(qr.msgs, typ) = 0
    <3> DEFINE a == q.msgs
    <3>1. a \in Seq(MsgType) /\ i \in 1 .. Len(a) /\ smp(a, typ) = 0 /\ qr.msgs = RemoveAt(a, i)
      BY <1>0, <1>1, <1>4, <2>2
    <3> HIDE DEF a, i, qr
    <3> QED
      BY <3>1, SmpStaysNone
  <2>3. \A d \in Calls : d.op = "IPC_SET" => d.qbytes <= qr.qbytes
    BY <1>0, <1>4 DEF WInv, LimitIsLeast
  <2> HIDE DEF qr, chans, i, m
  <2> QED
    BY <1>0, <1>4, <2>1, <2>2, <2>3 DEF QueueKept
<1> HIDE DEF m, qr, chans, s, i
<1>8. Keeps(p, s, qr, chans)
  BY <1>0, <1>2, <1>4, <1>6, <1>7 DEF Keeps, MayLeave
<1> QED
  BY <1>2, <1>8, LeaveWakes

\* What a sender had is free again.
LEMMA CopyFailsWakes ==
  ASSUME IInv, WInv, NEW p \in Proc, CopyFails(p)
  PROVE  WInv'
<1> DEFINE s == pr[p].slot
           ts == pr[p].call.ts
           addr == pr[p].got
           ww == Work
           x == FreeText(ww, ts, addr)
           w == IF pr[p].pc = "text" THEN FreeHeader(x) ELSE ww
<1>0. /\ Holds(p) /\ s \in Slot /\ MayLock(p, s) /\ Types /\ TextAccounted
      /\ MayLeave(que[s]) /\ que' = [que EXCEPT ![s] = que[s]]
      /\ Stored(w) /\ Leave(p, s, w.woken)
  <2>1. Types /\ TextAccounted
    BY DEF IInv
  <2>2. Holds(p) /\ Stored(w) /\ Leave(p, s, w.woken) /\ que' = que
    BY DEF CopyFails, Holds
  <2>3. s \in Slot /\ MayLock(p, s)
    BY <2>2, ProcFacts
  <2> HIDE DEF s, w
  <2> QED
    BY <2>1, <2>2, <2>3, QueueFacts
<1>1. /\ Sound(ww) /\ ww.hdrs = pool.hdrs /\ ww.map = pool.map /\ ww.mapwant = pool.mapwant
      /\ pool.hdrs \in Nat
  BY <1>0, WorkFacts DEF Types, PoolType
<1>2. /\ Sound(w) /\ w.hdrs >= pool.hdrs
      /\ pool.hdrs = 0 => w.hdrs = 0 \/ Header \in w.woken
      /\ Text \in w.woken \/ (w.mapwant = pool.mapwant /\ (w.mapwant => w.map = pool.map))
  <2>1. CASE pr[p].pc # "text"
    <3>1. w = ww
      BY <2>1
    <3> HIDE DEF w, ww
    <3> QED
      BY <1>1, <3>1
  <2>2. CASE pr[p].pc = "text"
    <3>1. /\ ts \in Nat /\ addr \in Nat /\ (ts = 0 <=> addr = 0)
          /\ Segments(addr, ts) \intersect Has(ww) = {}
      <4>1. pr[p].call \in Calls /\ pr[p].call.op = "msgsnd" /\ ts > 0 /\ addr > 0 /\ addr \in Nat
        BY <2>2, ProcFacts DEF CallOK, ProcType
      <4>2. ts \in Nat
        BY <4>1, CallFacts
      <4>3. Segments(addr, ts) \intersect Has(ww) = {}
        BY <1>0, <2>2, PartsApart
      <4> QED
        BY <4>1, <4>2, <4>3
    <3>2. w = FreeHeader(x) /\ x = FreeText(ww, ts, addr)
      BY <2>2
    <3> HIDE DEF w, x, ww, ts, addr
    <3>3. /\ Sound(x) /\ x.hdrs = ww.hdrs
          /\ Text \in x.woken \/ (x.mapwant = ww.mapwant /\ (ww.mapwant => x.map = ww.map))
      BY <1>1, <3>1, <3>2, FreeTextFacts
    <3> QED
      BY <1>1, <3>2, <3>3, FreeHeaderFacts
  <2> QED
    BY <2>1, <2>2
<1> DEFINE chans == w.woken
           qr == que[s]
<1> HIDE DEF w
<1>3. PoolKept(chans) /\ pool' \in PoolType
  <2>1. PoolKept(w.woken \union {}) /\ pool' \in PoolType
    BY <1>0, <1>2, FreedKept
  <2>2. w.woken \union {} = w.woken
    OBVIOUS
  <2> QED
    BY <2>1, <2>2
<1>4. QueueKept(s, chans, qr)
  <2> HIDE DEF s, chans
  <2> QED
    BY <1>0, SameKept DEF qr
<1>5. Leave(p, s, chans) /\ que' = [que EXCEPT ![s] = qr] /\ MayLeave(qr)
  BY <1>0
<1> HIDE DEF chans, qr, s
<1>6. Keeps(p, s, qr, chans)
  BY <1>0, <1>3, <1>4, <1>5 DEF Keeps
<1> QED
  BY <1>5, <1>6, LeaveWakes

\* A new queue has no sleepers.
LEMMA MsggetWakes ==
  ASSUME IInv, WInv, NEW p \in Proc, msgget(p)
  PROVE  WInv'
<1>1. PICK s \in Slot :
        /\ ~que[s].alloc
        /\ que' = [que EXCEPT ![s].alloc = TRUE, ![s].msgs = <<>>, ![s].qbytes = msgmnb]
  BY DEF msgget
<1>2. UNCHANGED <<msglock, pool, pr>>
  BY DEF msgget
<1>3. \A t \in Slot \ {s} : que'[t] = que[t]
  BY <1>1 DEF IInv, Types
<1>4. que'[s].qbytes = msgmnb
  <2>1. que[s] \in QueType /\ que \in [Slot -> QueType]
    BY QueueFacts DEF IInv, Types
  <2> DEFINE b == que[s]
             qr == [b EXCEPT !.alloc = TRUE, !.msgs = <<>>, !.qbytes = msgmnb]
  <2>2. que' = [que EXCEPT ![s] = qr]
    BY <1>1, <2>1
  <2>3. qr.qbytes = msgmnb
    <3>1. b \in QueType
      BY <2>1
    <3> HIDE DEF b
    <3> QED
      BY <3>1 DEF QueType
  <2> HIDE DEF qr
  <2> QED
    BY <2>1, <2>2, <2>3
<1>5. LimitIsLeast'
  <2>1. \A c \in Calls : c.op = "IPC_SET" => c.qbytes <= msgmnb
    BY MsgAssumption
  <2> QED
    BY <1>3, <1>4, <2>1 DEF WInv, LimitIsLeast
<1>6. ASSUME NEW x \in Proc, pr'[x].pc = "asleep"
      PROVE  Waits(pr[x])'
  <2> DEFINE r == pr[x]
  <2>1. pr'[x] = r /\ Waits(r) /\ r.slot \in Slot
    BY <1>2, <1>6, ProcFacts DEF WInv, CallOK
  <2> HIDE DEF r
  <2>2. CASE r.slot = s
    BY <1>1, <1>2, <2>1, <2>2 DEF Waits, Valid, NoText, TextOf
  <2>3. CASE r.slot # s
    BY <1>2, <1>3, <2>1, <2>3 DEF Waits, Valid, Full, NoText, TextOf
  <2> QED
    BY <2>2, <2>3
<1> QED
  BY <1>5, <1>6 DEF WInv

-----------------------------------------------------------------------------
\* Nobody sleeps at first.
LEMMA InitWakes == Init => WInv
<1> SUFFICES ASSUME Init
             PROVE  WInv
  OBVIOUS
<1>1. LimitIsLeast
  BY DEF Init, LimitIsLeast
<1>2. \A p \in Proc : pr[p].pc = "idle"
  BY IdleFacts DEF Init
<1> QED
  BY <1>1, <1>2 DEF WInv

\* With one value of msg_qbytes every step keeps it.
LEMMA NextWakes ==
  ASSUME OneLimit, IInv, WInv, [Next]_vars
  PROVE  WInv'
<1>1. CASE Next
  <2>1. PICK p \in Proc :
          \/ Call(p) \/ Run(p) \/ Signal(p) \/ Interrupted(p)
          \/ CopiedIn(p) \/ CopiedText(p) \/ CopiedOut(p) \/ CopyFails(p) \/ msgget(p)
    BY <1>1 DEF Next
  <2> QED
    BY <2>1, CallWakes, RunWakes, SignalWakes, InterruptedWakes, CopiedInWakes, CopiedTextWakes,
       CopiedOutWakes, CopyFailsWakes, MsggetWakes
<1>2. CASE UNCHANGED vars
  <2>1. UNCHANGED <<que, msglock, pool, pr>>
    BY <1>2 DEF vars
  <2>2. LimitIsLeast'
    BY <2>1 DEF WInv, LimitIsLeast
  <2>3. \A x \in Proc : pr'[x].pc = "asleep" => Waits(pr[x])'
    BY <2>1 DEF WInv, Waits, Valid, Full, NoText, TextOf
  <2> QED
    BY <2>2, <2>3 DEF WInv
<1> QED
  BY <1>1, <1>2

(* When all that IPC_SET gives for msg_qbytes is one value, whoever sleeps *)
(* in msgsnd() or msgrcv() waits for what is still to come, and whoever    *)
(* brings it finds the flag that makes it call wakeprocs().                *)
THEOREM NoWakeupLost ==
  ASSUME OneLimit
  PROVE  Spec => []NoLostWakeup
<1>1. IInv /\ WInv /\ [Next]_vars => WInv'
  BY NextWakes
<1> QED
  BY <1>1, InitWakes, Invariant, WaitsIs, PTL DEF Spec

-----------------------------------------------------------------------------
(***************************************************************************)
(* Msg implements MsgSpec by the mapping of MsgRefinement. Under the       *)
(* invariant IInv each step of Msg leaves every queue as it is for its     *)
(* callers, or does to one of them what one action of MsgSpec does         *)
(* (QueueStep).                                                            *)
(***************************************************************************)
PayloadsOf(msgs) == [i \in DOMAIN msgs |-> Payload(msgs[i])]
PayloadType == [type: Nat, ts: Nat]

\* Messages without their addresses.
LEMMA PayloadFacts ==
  ASSUME NEW m \in Seq(MsgType)
  PROVE  /\ PayloadsOf(m) \in Seq(PayloadType) /\ Len(PayloadsOf(m)) = Len(m) /\ Len(m) \in Nat
         /\ DOMAIN PayloadsOf(m) = 1 .. Len(m) /\ DOMAIN m = 1 .. Len(m)
         /\ \A i \in 1 .. Len(m) :
              PayloadsOf(m)[i] = Payload(m[i]) /\ m[i] \in MsgType /\ Payload(m[i]) \in PayloadType
<1>1. Len(m) \in Nat /\ DOMAIN m = 1 .. Len(m) /\ \A i \in 1 .. Len(m) : m[i] \in MsgType
  BY LenProperties, ElementOfSeq
<1>2. \A i \in 1 .. Len(m) : Payload(m[i]) \in PayloadType
  BY <1>1 DEF Payload, PayloadType, MsgType
<1>3. PayloadsOf(m) = [i \in 1 .. Len(m) |-> Payload(m[i])]
  BY <1>1 DEF PayloadsOf
<1>4. PayloadsOf(m) \in [1 .. Len(m) -> PayloadType]
  BY <1>2, <1>3
<1>5. PayloadsOf(m) \in Seq(PayloadType)
  BY <1>1, <1>4, SeqDef
<1>6. Len(PayloadsOf(m)) = Len(m)
  BY <1>1, <1>4, <1>5, LenProperties
<1> QED
  BY <1>1, <1>2, <1>3, <1>5, <1>6

\* An empty queue.
LEMMA PayloadEmpty == PayloadsOf(<<>>) = <<>>
<1>1. <<>> \in Seq(MsgType) /\ Len(<<>>) = 0
  OBVIOUS
<1>2. PayloadsOf(<<>>) \in Seq(PayloadType) /\ Len(PayloadsOf(<<>>)) = 0
  BY <1>1, PayloadFacts
<1> QED
  BY <1>2, EmptySeq

\* One more message.
LEMMA PayloadAppend ==
  ASSUME NEW m \in Seq(MsgType), NEW x \in MsgType
  PROVE  PayloadsOf(Append(m, x)) = Append(PayloadsOf(m), Payload(x))
<1> DEFINE a == Append(m, x)
           y == Payload(x)
           b == PayloadsOf(m)
           d == Append(b, y)
<1>1. a \in Seq(MsgType) /\ Len(a) = Len(m) + 1 /\ a[Len(m) + 1] = x /\ \A i \in 1 .. Len(m) : a[i] = m[i]
  BY AppendProperties
<1>2. y \in PayloadType
  BY DEF Payload, PayloadType, MsgType
<1>3. /\ b \in Seq(PayloadType) /\ Len(b) = Len(m) /\ Len(m) \in Nat
      /\ \A i \in 1 .. Len(m) : b[i] = Payload(m[i])
  BY PayloadFacts
<1> HIDE DEF a, b, y
<1>4. /\ d \in Seq(PayloadType) /\ Len(d) = Len(b) + 1 /\ d[Len(b) + 1] = y
      /\ \A i \in 1 .. Len(b) : d[i] = b[i]
  BY <1>2, <1>3, AppendProperties
<1>5. /\ PayloadsOf(a) \in Seq(PayloadType) /\ Len(PayloadsOf(a)) = Len(a)
      /\ \A i \in 1 .. Len(a) : PayloadsOf(a)[i] = Payload(a[i])
  BY <1>1, PayloadFacts
<1> DEFINE e == PayloadsOf(a)
<1> HIDE DEF d, e
<1>6. \A i \in 1 .. Len(d) : e[i] = d[i]
  <2>1. ASSUME NEW i \in 1 .. Len(m) + 1
        PROVE  e[i] = d[i]
    <3>1. CASE i = Len(m) + 1
      BY <1>1, <1>3, <1>4, <1>5, <3>1 DEF e, y
    <3>2. CASE i \in 1 .. Len(m)
      BY <1>1, <1>3, <1>4, <1>5, <3>2 DEF e
    <3> QED
      BY <1>3, <3>1, <3>2
  <2> QED
    BY <1>3, <1>4, <2>1
<1>7. e = d
  BY <1>1, <1>3, <1>4, <1>5, <1>6, SeqEqual DEF e
<1> QED
  BY <1>7 DEF e, d, a, b, y

\* One less.
LEMMA PayloadRemove ==
  ASSUME NEW m \in Seq(MsgType), NEW i \in 1 .. Len(m)
  PROVE  PayloadsOf(RemoveAt(m, i)) = RemoveAt(PayloadsOf(m), i)
<1> DEFINE a == RemoveAt(m, i)
           b == PayloadsOf(m)
           d == RemoveAt(b, i)
           e == PayloadsOf(a)
<1>1. /\ a \in Seq(MsgType) /\ Len(a) = Len(m) - 1
      /\ \A j \in 1 .. Len(m) - 1 : a[j] = IF j < i THEN m[j] ELSE m[j + 1]
  BY RemoveAtProperties
<1>2. /\ b \in Seq(PayloadType) /\ Len(b) = Len(m) /\ Len(m) \in Nat
      /\ \A j \in 1 .. Len(m) : b[j] = Payload(m[j])
  BY PayloadFacts
<1> HIDE DEF a, b
<1>3. /\ d \in Seq(PayloadType) /\ Len(d) = Len(b) - 1
      /\ \A j \in 1 .. Len(b) - 1 : d[j] = IF j < i THEN b[j] ELSE b[j + 1]
  BY <1>2, RemoveAtProperties
<1>4. /\ e \in Seq(PayloadType) /\ Len(e) = Len(a)
      /\ \A j \in 1 .. Len(a) : e[j] = Payload(a[j])
  BY <1>1, PayloadFacts
<1> HIDE DEF d, e
<1>5. ASSUME NEW j \in 1 .. Len(m) - 1
      PROVE  e[j] = d[j]
  <2>1. j \in 1 .. Len(m) /\ j + 1 \in 1 .. Len(m) /\ j \in 1 .. Len(a) /\ j \in 1 .. Len(b) - 1
    BY <1>1, <1>2
  <2> QED
    BY <1>1, <1>2, <1>3, <1>4, <2>1
<1>6. Len(e) = Len(m) - 1 /\ Len(d) = Len(m) - 1
  BY <1>1, <1>2, <1>3, <1>4
<1>7. \A j \in 1 .. Len(e) : e[j] = d[j]
  BY <1>5, <1>6
<1>8. e = d
  BY <1>3, <1>4, <1>6, <1>7, SeqEqual
<1> QED
  BY <1>8 DEF e, d, a, b

-----------------------------------------------------------------------------
\* The bytes of a queue are those that MsgSpec counts.
LEMMA BytesSame ==
  ASSUME NEW m \in Seq(MsgType)
  PROVE  A!Bytes(PayloadsOf(m)) = Bytes(m)
<1> DEFINE n == Len(m)
           b == PayloadsOf(m)
           Totals(g) == g = [i \in 0 .. Len(b) |-> IF i = 0 THEN 0 ELSE g[i - 1] + b[i].ts]
           s == CHOOSE g : Totals(g)
<1>1. /\ n \in Nat /\ Len(b) = n
      /\ \A i \in 1 .. n : b[i].ts = m[i].ts /\ m[i].ts \in Nat
  <2>1. /\ n \in Nat /\ Len(b) = n
        /\ \A i \in 1 .. n : b[i] = Payload(m[i]) /\ m[i] \in MsgType
    BY PayloadFacts
  <2> HIDE DEF b, n
  <2> QED
    BY <2>1 DEF Payload, MsgType
<1>2. PICK f \in [0 .. n -> Nat] :
        f[0] = 0 /\ (\A i \in 1 .. n : f[i] = f[i - 1] + m[i].ts) /\ Bytes(m) = f[n]
  BY BytesIsSum
<1>3. A!Bytes(b) = s[n]
  BY <1>1 DEF A!Bytes
<1> HIDE DEF b
<1>4. Totals(f)
  <2>1. \A i \in 0 .. n : f[i] = IF i = 0 THEN 0 ELSE f[i - 1] + b[i].ts
    BY <1>1, <1>2
  <2>2. f = [i \in 0 .. n |-> f[i]]
    OBVIOUS
  <2>3. [i \in 0 .. n |-> f[i]] = [i \in 0 .. n |-> IF i = 0 THEN 0 ELSE f[i - 1] + b[i].ts]
    BY <2>1
  <2> HIDE DEF n
  <2> QED
    BY <1>1, <2>2, <2>3
<1>5. Totals(s)
  <2> HIDE DEF Totals
  <2> QED
    BY <1>4
<1> HIDE DEF s
<1>6. s[0] = 0 /\ \A i \in 1 .. n : s[i] = s[i - 1] + m[i].ts
  <2> HIDE DEF n
  <2>1. s[0] = 0
    BY <1>1, <1>5
  <2>2. \A i \in 1 .. n : s[i] = s[i - 1] + m[i].ts
    BY <1>1, <1>5
  <2> QED
    BY <2>1, <2>2
<1>7. 0 .. n \subseteq {i \in 0 .. n : s[i] = f[i]}
  <2> DEFINE T == {i \in 0 .. n : s[i] = f[i]}
  <2>1. 0 \in T
    BY <1>1, <1>2, <1>6
  <2>2. ASSUME NEW i \in 0 .. n - 1, i \in T
        PROVE  i + 1 \in T
    <3>1. i + 1 \in 1 .. n /\ (i + 1) - 1 = i
      BY <1>1
    <3>2. s[i + 1] = s[i] + m[i + 1].ts /\ f[i + 1] = f[i] + m[i + 1].ts
      BY <3>1, <1>2, <1>6
    <3> QED
      BY <2>2, <3>1, <3>2
  <2> HIDE DEF T
  <2>3. 0 .. n \subseteq T
    BY <1>1, <2>1, <2>2, Induction
  <2> QED
    BY <2>3 DEF T
<1>8. s[n] = f[n]
  BY <1>1, <1>7
<1> QED
  BY <1>2, <1>3, <1>8 DEF b

\* The message that msgrcv() chooses is the one that MsgSpec selects.
LEMMA SmpSelects ==
  ASSUME NEW m \in Seq(MsgType), NEW typ \in Int, smp(m, typ) # 0
  PROVE  /\ smp(m, typ) \in 1 .. Len(m)
         /\ A!Selects(typ, PayloadsOf(m), smp(m, typ))
<1> DEFINE b == PayloadsOf(m)
           E == Eligible(m, typ)
           i == smp(m, typ)
<1>1. /\ Len(m) \in Nat /\ Len(b) = Len(m) /\ DOMAIN m = 1 .. Len(m)
      /\ \A j \in 1 .. Len(m) : b[j].type = m[j].type /\ m[j].type \in Nat
  <2>1. /\ Len(m) \in Nat /\ Len(b) = Len(m) /\ DOMAIN m = 1 .. Len(m)
        /\ \A j \in 1 .. Len(m) : b[j] = Payload(m[j]) /\ m[j] \in MsgType
    BY PayloadFacts
  <2>2. \A x \in MsgType : Payload(x).type = x.type /\ x.type \in Nat
    BY DEF Payload, MsgType
  <2> HIDE DEF b
  <2> QED
    BY <2>1, <2>2
<1>2. E # {}
  BY SmpFacts
<1>3. /\ i \in E /\ E \subseteq 1 .. Len(m)
      /\ \A j \in E : \/ typ < 0 /\ m[i].type < m[j].type
                      \/ (typ >= 0 \/ m[i].type = m[j].type) /\ i <= j
  BY <1>2, SmpChosen
<1> HIDE DEF b, i
<1>4. i \in 1 .. Len(m) /\ \A j \in 1 .. Len(m) : j \in E <=>
        CASE typ = 0 -> TRUE [] typ > 0 -> m[j].type = typ [] OTHER -> m[j].type <= -typ
  BY <1>1, <1>3 DEF Eligible
<1> HIDE DEF E
<1>5. CASE typ = 0
  <2>1. i = 1
    <3>1. 1 \in E
      BY <1>1, <1>4, <1>5
    <3> QED
      BY <1>3, <1>4, <1>5, <3>1
  <2> QED
    BY <1>4, <1>5, <2>1 DEF A!Selects, b, i
<1>6. CASE typ > 0
  <2>1. b[i].type = typ
    BY <1>1, <1>3, <1>4, <1>6
  <2>2. ASSUME NEW j \in 1 .. i - 1
        PROVE  b[j].type # typ
    <3>1. j \in 1 .. Len(m) /\ ~(i <= j)
      BY <1>1, <1>4
    <3>2. j \notin E
      BY <1>3, <1>6, <3>1
    <3> QED
      BY <1>1, <1>4, <1>6, <3>1, <3>2
  <2> QED
    BY <1>4, <1>6, <2>1, <2>2 DEF A!Selects, b, i
<1>7. CASE typ < 0
  <2>1. b[i].type <= -typ
    BY <1>1, <1>3, <1>4, <1>7
  <2>2. ASSUME NEW j \in 1 .. i - 1
        PROVE  b[j].type > b[i].type
    <3>1. j \in 1 .. Len(m) /\ ~(i <= j)
      BY <1>1, <1>4
    <3>2. CASE j \in E
      BY <1>1, <1>3, <1>4, <1>7, <3>1, <3>2
    <3>3. CASE j \notin E
      BY <1>1, <1>4, <1>7, <2>1, <3>1, <3>3
    <3> QED
      BY <3>2, <3>3
  <2>3. ASSUME NEW j \in i + 1 .. Len(b)
        PROVE  b[j].type >= b[i].type
    <3>1. j \in 1 .. Len(m)
      BY <1>1, <1>4
    <3>2. CASE j \in E
      BY <1>1, <1>3, <1>4, <1>7, <3>1, <3>2
    <3>3. CASE j \notin E
      BY <1>1, <1>4, <1>7, <2>1, <3>1, <3>3
    <3> QED
      BY <3>2, <3>3
  <2> QED
    BY <1>4, <1>7, <2>1, <2>2, <2>3 DEF A!Selects, b, i
<1> QED
  BY <1>5, <1>6, <1>7

-----------------------------------------------------------------------------
(* What MsgSpec sees of a state.                                           *)
Texts == {[type |-> c.type, ts |-> c.ts] : c \in {d \in Calls : d.op = "msgsnd"}}
Asked == {c.typ : c \in {d \in Calls : d.op = "msgrcv"}}
Live == {s \in Slot : que[s].alloc}
Queues == [s \in Slot |-> PayloadsOf(que[s].msgs)]
Limits == [s \in Slot |-> que[s].qbytes]
Asking == [s \in Slot |-> {pr[p].call.typ : p \in
             {x \in Proc : pr[x].pc = "out" /\ pr[x].slot = s}}]

(* What a step may do to a queue s that it leaves as qr.                   *)
Stays(q, qr) == qr.alloc = q.alloc /\ qr.msgs = q.msgs /\ qr.qbytes = q.qbytes
Created(q, qr) == ~q.alloc /\ qr.alloc /\ qr.msgs = q.msgs /\ qr.qbytes = msgmnb
Destroyed(q, qr) == q.alloc /\ ~qr.alloc /\ qr.msgs = <<>> /\ qr.qbytes = q.qbytes
Limited(q, qr) == q.alloc /\ qr.alloc /\ qr.msgs = q.msgs
Sent(q, qr) == \E c \in Calls, m \in MsgType :
  /\ c.op = "msgsnd" /\ m.type = c.type /\ m.ts = c.ts /\ c.ts + q.cbytes <= q.qbytes
  /\ q.alloc /\ qr.alloc /\ qr.msgs = Append(q.msgs, m) /\ qr.qbytes = q.qbytes
Received(s, q, qr) == \E p \in Proc :
  LET i == smp(q.msgs, pr[p].call.typ)
  IN  /\ pr[p].pc = "out" /\ pr[p].slot = s /\ i # 0
      /\ q.alloc /\ qr.alloc /\ qr.msgs = RemoveAt(q.msgs, i) /\ qr.qbytes = q.qbytes

QueueStep(s, qr) ==
  LET q == que[s]
  IN  \/ Stays(q, qr) \/ Created(q, qr) \/ Destroyed(q, qr) \/ Limited(q, qr)
      \/ Sent(q, qr) \/ Received(s, q, qr)

\* Whoever receives asks for a type that a call may name.
LEMMA AskingType == IInv => Asking \in [Slot -> SUBSET Asked]
<1> SUFFICES ASSUME IInv, NEW s \in Slot, NEW p \in Proc, pr[p].pc = "out"
             PROVE  pr[p].call.typ \in Asked
  BY DEF Asking
<1> QED
  BY ProcFacts DEF CallOK, Asked

\* A step that changes one queue so is a step of MsgSpec.
LEMMA StepImplements ==
  ASSUME IInv, IInv', NEW s \in Slot, NEW qr \in QueType, que' = [que EXCEPT ![s] = qr],
         QueueStep(s, qr)
  PROVE  A!SpecNext
<1> DEFINE q == que[s]
<1>0. /\ q \in QueType /\ q.msgs \in Seq(MsgType) /\ que \in [Slot -> QueType]
      /\ qr.msgs \in Seq(MsgType) /\ que'[s] = qr /\ \A t \in Slot \ {s} : que'[t] = que[t]
  BY QueueFacts DEF IInv, Types, QueType
<1>1. Asking' \in [Slot -> SUBSET Asked]
  <2>1. (Asking \in [Slot -> SUBSET Asked])'
    BY AskingType, PTL
  <2> QED
    BY <2>1
<1>2. /\ Limits' = [Limits EXCEPT ![s] = qr.qbytes]
      /\ Queues' = [Queues EXCEPT ![s] = PayloadsOf(qr.msgs)]
      /\ Live' = (Live \ {s}) \union (IF qr.alloc THEN {s} ELSE {})
      /\ s \in Live <=> q.alloc
  <2>1. Limits' = [Limits EXCEPT ![s] = qr.qbytes]
    BY <1>0 DEF Limits
  <2>2. Queues' = [Queues EXCEPT ![s] = PayloadsOf(qr.msgs)]
    BY <1>0 DEF Queues
  <2>3. Live' = (Live \ {s}) \union (IF qr.alloc THEN {s} ELSE {})
    BY <1>0 DEF Live
  <2>4. s \in Live <=> q.alloc
    BY DEF Live
  <2> QED
    BY <2>1, <2>2, <2>3, <2>4
<1>3. Queues[s] = PayloadsOf(q.msgs) /\ Limits[s] = q.qbytes
      /\ Queues = [Queues EXCEPT ![s] = PayloadsOf(q.msgs)]
      /\ Limits = [Limits EXCEPT ![s] = q.qbytes]
  BY DEF Queues, Limits
<1> HIDE DEF q
<1>4. CASE Stays(q, qr)
  <2>1. UNCHANGED <<Live, Queues, Limits>>
    BY <1>0, <1>2, <1>3, <1>4 DEF Stays, QueType
  <2> QED
    BY <1>1, <2>1 DEF A!SpecNext, Live, Queues, Limits, Asking, Asked, PayloadsOf
<1>5. CASE Created(q, qr)
  <2>1. s \notin Live /\ Live' = Live \union {s} /\ Limits' = [Limits EXCEPT ![s] = msgmnb]
        /\ Queues' = Queues
    BY <1>2, <1>3, <1>5 DEF Created
  <2>2. A!Create(s)
    BY <2>1 DEF A!Create, Live, Queues, Limits, PayloadsOf
  <2> QED
    BY <1>1, <2>2 DEF A!SpecNext, Asking, Asked
<1>6. CASE Destroyed(q, qr)
  <2>1. s \in Live /\ Live' = Live \ {s} /\ Limits' = Limits
        /\ Queues' = [Queues EXCEPT ![s] = <<>>]
    BY <1>2, <1>3, <1>6, PayloadEmpty DEF Destroyed
  <2>2. A!Destroy(s)
    BY <2>1 DEF A!Destroy, Live, Queues, Limits, PayloadsOf
  <2> QED
    BY <1>1, <2>2 DEF A!SpecNext, Asking, Asked
<1>7. CASE Limited(q, qr)
  <2> DEFINE n == qr.qbytes
  <2>1. s \in Live /\ Live' = Live /\ Limits' = [Limits EXCEPT ![s] = n] /\ Queues' = Queues
        /\ n \in 0 .. msgmnb
    BY <1>2, <1>3, <1>7 DEF Limited, QueType
  <2> HIDE DEF n
  <2>2. A!Limit(s, n)
    BY <2>1 DEF A!Limit, Live, Queues, Limits, PayloadsOf
  <2> QED
    BY <1>1, <2>1, <2>2 DEF A!SpecNext, Asking, Asked
<1>8. CASE Sent(q, qr)
  <2>1. PICK c \in Calls, m \in MsgType :
          /\ c.op = "msgsnd" /\ m.type = c.type /\ m.ts = c.ts /\ c.ts + q.cbytes <= q.qbytes
          /\ q.alloc /\ qr.alloc /\ qr.msgs = Append(q.msgs, m) /\ qr.qbytes = q.qbytes
    BY <1>8 DEF Sent
  <2> DEFINE x == Payload(m)
  <2>2. x \in Texts /\ x.ts = m.ts
    BY <2>1 DEF Texts, Payload
  <2>3. s \in Live /\ Live' = Live /\ Limits' = Limits
        /\ Queues' = [Queues EXCEPT ![s] = Append(Queues[s], x)]
    <3> DEFINE b == q.msgs
    <3>1. b \in Seq(MsgType) /\ m \in MsgType /\ Queues[s] = PayloadsOf(b)
          /\ qr.msgs = Append(b, m)
      BY <1>0, <1>3, <2>1
    <3> HIDE DEF b, x
    <3>2. PayloadsOf(Append(b, m)) = Append(PayloadsOf(b), x)
      BY <3>1, PayloadAppend DEF x
    <3>3. s \in Live /\ Live' = Live /\ Limits' = Limits
      BY <1>2, <1>3, <2>1
    <3> QED
      BY <1>2, <3>1, <3>2, <3>3
  <2>4. A!Bytes(Queues[s]) + x.ts <= Limits[s]
    <3>1. A!Bytes(Queues[s]) = q.cbytes
      BY <1>0, <1>3, BytesSame DEF IInv, BytesCounted, q
    <3>2. q.cbytes \in Int /\ m.ts \in Int
      BY <1>0 DEF QueType, MsgType
    <3> QED
      BY <1>3, <2>1, <2>2, <3>1, <3>2
  <2> HIDE DEF x
  <2>5. A!Send(s, x)
    <3> DEFINE b == A!Bytes(Queues[s])
    <3>1. b = A!Bytes([i \in DOMAIN que[s].msgs |-> Payload(que[s].msgs[i])])
      BY DEF Queues, PayloadsOf
    <3> QED
      BY <2>3, <2>4 DEF A!Send, Live, Queues, Limits, PayloadsOf
  <2> QED
    BY <1>1, <2>2, <2>5 DEF A!SpecNext, Asking, Asked, Texts
<1>9. CASE Received(s, q, qr)
  <2>1. PICK p \in Proc :
          LET k == smp(q.msgs, pr[p].call.typ)
          IN  /\ pr[p].pc = "out" /\ pr[p].slot = s /\ k # 0
              /\ q.alloc /\ qr.alloc /\ qr.msgs = RemoveAt(q.msgs, k) /\ qr.qbytes = q.qbytes
    BY <1>9 DEF Received
  <2>2. PICK typ \in Asked :
          typ = pr[p].call.typ /\ typ \in Int /\ typ \in Asking[s]
    <3>1. pr[p].call \in Calls /\ pr[p].call.op = "msgrcv"
      BY <2>1, ProcFacts DEF CallOK
    <3> QED
      BY <2>1, <3>1, CallFacts DEF Asked, Asking
  <2> DEFINE i == smp(q.msgs, typ)
  <2>3. i \in 1 .. Len(q.msgs) /\ A!Selects(typ, Queues[s], i)
    <3> DEFINE m == q.msgs
    <3>1. m \in Seq(MsgType) /\ smp(m, typ) # 0 /\ Queues[s] = PayloadsOf(m)
      BY <1>0, <1>3, <2>1, <2>2
    <3> HIDE DEF m
    <3>2. smp(m, typ) \in 1 .. Len(m) /\ A!Selects(typ, PayloadsOf(m), smp(m, typ))
      BY <2>2, <3>1, SmpSelects
    <3> QED
      BY <3>1, <3>2 DEF m
  <2>4. s \in Live /\ Live' = Live /\ Limits' = Limits
    BY <1>2, <1>3, <2>1
  <2>5. Queues' = [Queues EXCEPT ![s] = RemoveAt(Queues[s], i)] /\ i \in DOMAIN Queues[s]
    <3> DEFINE m == q.msgs
    <3>1. m \in Seq(MsgType) /\ i \in 1 .. Len(m) /\ Queues[s] = PayloadsOf(m)
          /\ qr.msgs = RemoveAt(m, i)
      BY <1>0, <1>3, <2>1, <2>2, <2>3
    <3> HIDE DEF m, i
    <3>2. PayloadsOf(RemoveAt(m, i)) = RemoveAt(PayloadsOf(m), i) /\ i \in DOMAIN PayloadsOf(m)
      BY <3>1, PayloadRemove, PayloadFacts
    <3> QED
      BY <1>2, <3>1, <3>2
  <2> HIDE DEF i
  <2>6. A!Receive(s, typ)
    <3>1. \E j \in DOMAIN Queues[s] :
            A!Selects(typ, Queues[s], j) /\ Queues' = [Queues EXCEPT ![s] = A!RemoveAt(@, j)]
      BY <2>3, <2>5 DEF RemoveAt, A!RemoveAt
    <3>2. s \in Live /\ typ \in Asking[s] /\ UNCHANGED <<Live, Limits>>
      BY <2>2, <2>4
    <3> QED
      BY <3>1, <3>2 DEF A!Receive, Live, Queues, Limits, Asking, PayloadsOf
  <2>7. \E t \in Asked : A!Receive(s, t)
    BY <2>2, <2>6
  <2> QED
    BY <1>1, <2>7 DEF A!SpecNext, Asking, Asked
<1> QED
  BY <1>4, <1>5, <1>6, <1>7, <1>8, <1>9 DEF QueueStep, q

-----------------------------------------------------------------------------
\* The same, of any record.
LEMMA OneChanges ==
  ASSUME IInv, IInv', NEW s \in Slot, NEW qr, que' = [que EXCEPT ![s] = qr], QueueStep(s, qr)
  PROVE  A!SpecNext
<1>1. que \in [Slot -> QueType] /\ que' \in [Slot -> QueType]
  BY DEF IInv, Types
<1>2. qr \in QueType
  BY <1>1
<1> QED
  BY <1>2, StepImplements

\* One that changes none.
LEMMA NoneChanges ==
  ASSUME IInv, IInv', \A s \in Slot : Stays(que[s], que'[s])
  PROVE  A!SpecNext
<1>1. Asking' \in [Slot -> SUBSET Asked]
  <2>1. (Asking \in [Slot -> SUBSET Asked])'
    BY AskingType, PTL
  <2> QED
    BY <2>1
<1>2. Live' = Live /\ Limits' = Limits
  BY DEF Stays, Live, Limits
<1>3. Queues' = Queues
  BY DEF Stays, Queues
<1> QED
  BY <1>1, <1>2, <1>3 DEF A!SpecNext, Live, Queues, Limits, Asking, Asked, PayloadsOf

\* The queues are as they were.
LEMMA SameQueues ==
  ASSUME IInv, IInv', que' = que
  PROVE  A!SpecNext
BY NoneChanges DEF Stays

\* Flags may change.
LEMMA FlagChanges ==
  ASSUME IInv, IInv', NEW s \in Slot, NEW qr, que' = [que EXCEPT ![s] = qr],
         Stays(que[s], qr)
  PROVE  A!SpecNext
BY OneChanges DEF QueueStep

\* A message is added.
LEMMA AppendSends ==
  ASSUME IInv, IInv', NEW s \in Slot, NEW c \in Calls, c.op = "msgsnd", NEW a \in Nat,
         c.ts = 0 <=> a = 0, que[s].alloc, ~Full(s, c), Append1(s, c, a)
  PROVE  A!SpecNext
<1> DEFINE m == [type |-> c.type, ts |-> c.ts, addr |-> a]
           q == que[s]
           qr == [q EXCEPT !.msgs = Append(@, m), !.cbytes = @ + c.ts, !.rwait = FALSE]
<1>1. q \in QueType /\ c.type \in Nat \ {0} /\ c.ts \in Nat
  BY QueueFacts, CallFacts
<1>2. m \in MsgType /\ m.type = c.type /\ m.ts = c.ts
  BY <1>1 DEF MsgType
<1>3. que' = [que EXCEPT ![s] = qr]
  BY <1>1 DEF Append1, QueType
<1>4. c.ts + q.cbytes <= q.qbytes
  BY <1>1 DEF Full, QueType
<1>5. qr.alloc /\ qr.msgs = Append(q.msgs, m) /\ qr.qbytes = q.qbytes
  BY <1>1 DEF QueType
<1> HIDE DEF m, qr
<1>6. Sent(q, qr)
  BY <1>2, <1>4, <1>5 DEF Sent
<1> QED
  BY <1>3, <1>6, OneChanges DEF QueueStep

-----------------------------------------------------------------------------
\* msgsnd() and msgrcv() from where they look for what they need.
LEMMA GetresImplements ==
  ASSUME IInv, IInv', NEW p, NEW me, Ready(p, me), me.call.op = "msgsnd", Getres(p, me)
  PROVE  A!SpecNext
<1> DEFINE c == me.call
           s == me.slot
<1>0. /\ s \in Slot /\ c \in Calls /\ c.op = "msgsnd" /\ c.ts \in Nat
      /\ que[s] \in QueType /\ que[s].alloc
  BY QueueFacts, CallFacts DEF Ready, MayLock, Valid
<1>1. CASE que' = que
  BY <1>1, SameQueues
<1>2. CASE que' = [que EXCEPT ![s].wwait = TRUE]
  <2> DEFINE qr == [que[s] EXCEPT !.wwait = TRUE]
  <2>1. que' = [que EXCEPT ![s] = qr]
    BY <1>2
  <2>2. Stays(que[s], qr)
    BY <1>0 DEF Stays, QueType
  <2> HIDE DEF qr, s
  <2> QED
    BY <1>0, <2>1, <2>2, FlagChanges
<1>3. CASE ~Full(s, c) /\ c.ts = 0 /\ Append1(s, c, 0)
  <2> HIDE DEF c, s
  <2> QED
    BY <1>0, <1>3, AppendSends
<1> QED
  BY <1>1, <1>2, <1>3 DEF Getres

\* A receiver only looks.
LEMMA FindmsgImplements ==
  ASSUME IInv, IInv', NEW p, NEW me, Ready(p, me), Findmsg(p, me)
  PROVE  A!SpecNext
<1> DEFINE s == me.slot
<1>0. s \in Slot /\ que[s] \in QueType
  BY QueueFacts DEF Ready, MayLock
<1>1. CASE que' = que
  BY <1>1, SameQueues
<1>2. CASE que' = [que EXCEPT ![s].rwait = TRUE]
  <2> DEFINE qr == [que[s] EXCEPT !.rwait = TRUE]
  <2>1. que' = [que EXCEPT ![s] = qr]
    BY <1>2
  <2>2. Stays(que[s], qr)
    BY <1>0 DEF Stays, QueType
  <2> HIDE DEF qr, s
  <2> QED
    BY <1>0, <2>1, <2>2, FlagChanges
<1> QED
  BY <1>1, <1>2 DEF Findmsg

\* IPC_RMID discards the messages.
LEMMA Remove1Implements ==
  ASSUME IInv, IInv', NEW p, NEW me, Ready(p, me), Remove1(p, me)
  PROVE  A!SpecNext
<1> DEFINE s == me.slot
           q == que[s]
           qr == [q EXCEPT !.alloc = FALSE, !.msgs = <<>>, !.cbytes = 0,
                           !.rwait = FALSE, !.wwait = FALSE, !.seq = NextSeq(@)]
<1>0. s \in Slot /\ q \in QueType /\ q.alloc
  BY QueueFacts DEF Ready, MayLock, Valid
<1>1. que' = [que EXCEPT ![s] = qr]
  BY <1>0 DEF Remove1, QueType
<1>2. Destroyed(q, qr)
  BY <1>0 DEF Destroyed, QueType
<1> HIDE DEF qr, s
<1> QED
  BY <1>0, <1>1, <1>2, OneChanges DEF QueueStep

\* What is done with the lock.
LEMMA MsgconvImplements ==
  ASSUME IInv, IInv', NEW p \in Proc, ~Holds(p), NEW me \in ProcType, me.call \in Calls,
         me.slot \in Slot, msgconv(p, me)
  PROVE  A!SpecNext
<1>1. CASE UNCHANGED que
  BY <1>1, SameQueues
<1>2. CASE ~Held(me) /\ Valid(me)
  <2>1. Ready(p, me)
    BY <1>2 DEF Ready, MayLock, Held, Holds
  <2>2. CASE UNCHANGED que
    BY <2>2, SameQueues
  <2>3. CASE me.call.op = "msgsnd" /\ Getres(p, me)
    BY <2>1, <2>3, GetresImplements
  <2>4. CASE Findmsg(p, me)
    BY <2>1, <2>4, FindmsgImplements
  <2>5. CASE Remove1(p, me)
    BY <2>1, <2>5, Remove1Implements
  <2> QED
    BY <1>2, <2>2, <2>3, <2>4, <2>5 DEF msgconv
<1> QED
  BY <1>1, <1>2 DEF msgconv

-----------------------------------------------------------------------------
\* The actions: a call begins, goes on, is interrupted.
LEMMA CallImplements ==
  ASSUME IInv, IInv', NEW p \in Proc, Call(p)
  PROVE  A!SpecNext
<1>1. PICK c \in Calls, s \in Slot :
        msgconv(p, [Idle EXCEPT !.call = c, !.slot = s, !.seq = que[s].seq])
  BY DEF Call
<1> DEFINE me == [Idle EXCEPT !.call = c, !.slot = s, !.seq = que[s].seq]
<1>2. que[s].seq \in Nat
  <2>1. que[s].seq \in 0 .. SeqMax
    BY QueueFacts DEF QueType
  <2> QED
    BY <2>1
<1>3. me \in ProcType /\ me.call \in Calls /\ me.slot \in Slot
  BY <1>2 DEF Idle, ProcType, Chans
<1>4. ~Holds(p)
  BY DEF Call, Holds
<1>5. msgconv(p, me)
  BY <1>1
<1> HIDE DEF me
<1> QED
  BY <1>3, <1>4, <1>5, MsgconvImplements

\* It goes on.
LEMMA RunImplements ==
  ASSUME IInv, IInv', NEW p \in Proc, Run(p)
  PROVE  A!SpecNext
<1> DEFINE me == pr[p]
<1>1. /\ me \in ProcType /\ me.call \in Calls /\ me.slot \in Slot /\ ~Holds(p)
      /\ msgconv(p, me)
  BY ProcFacts DEF Run, CallOK, Holds
<1> HIDE DEF me
<1> QED
  BY <1>1, MsgconvImplements

\* It gives up, and clears a flag.
LEMMA InterruptedImplements ==
  ASSUME IInv, IInv', NEW p \in Proc, Interrupted(p)
  PROVE  A!SpecNext
<1> DEFINE s == pr[p].slot
           qr == [que[s] EXCEPT !.wwait = FALSE]
<1>1. s \in Slot /\ que[s] \in QueType
  BY ProcFacts, QueueFacts DEF Interrupted, CallOK
<1>2. que' = que \/ que' = [que EXCEPT ![s] = qr]
  BY DEF Interrupted
<1>3. Stays(que[s], qr)
  BY <1>1 DEF Stays, QueType
<1> HIDE DEF qr, s
<1> QED
  BY <1>1, <1>2, <1>3, SameQueues, FlagChanges

\* A copy is done.
LEMMA CopiedInImplements ==
  ASSUME IInv, IInv', NEW p \in Proc, CopiedIn(p)
  PROVE  A!SpecNext
<1> DEFINE me == pr[p]
           c == me.call
           s == me.slot
<1>0. Ready(p, me) /\ s \in Slot /\ que[s] \in QueType /\ que[s].alloc
  BY ProcFacts, QueueFacts DEF CopiedIn, Holds, CallOK, Ready, Valid
<1>1. CASE c.op = "msgsnd" /\ Getres(p, me)
  <2> HIDE DEF me
  <2> QED
    BY <1>0, <1>1, GetresImplements
<1>2. CASE que' = [que EXCEPT ![s].qbytes = c.qbytes]
  <2> DEFINE q == que[s]
             qr == [q EXCEPT !.qbytes = c.qbytes]
  <2>1. que' = [que EXCEPT ![s] = qr]
    BY <1>2
  <2>2. Limited(q, qr)
    BY <1>0 DEF Limited, QueType
  <2> HIDE DEF qr, s
  <2> QED
    BY <1>0, <2>1, <2>2, OneChanges DEF QueueStep
<1> QED
  BY <1>1, <1>2 DEF CopiedIn

\* The message goes on the queue, which still has room for it.
LEMMA CopiedTextImplements ==
  ASSUME IInv, IInv', NEW p \in Proc, CopiedText(p)
  PROVE  A!SpecNext
<1> DEFINE c == pr[p].call
           s == pr[p].slot
           a == pr[p].got
<1>1. /\ s \in Slot /\ c \in Calls /\ c.op = "msgsnd" /\ a \in Nat
      /\ que[s].alloc /\ ~Full(s, c) /\ Append1(s, c, a)
  BY ProcFacts DEF CopiedText, Holds, CallOK, ProcType, Valid
<1>2. c.ts = 0 <=> a = 0
  <2>1. c.ts > 0 /\ a > 0
    BY ProcFacts DEF CopiedText, CallOK
  <2> QED
    BY <2>1
<1> HIDE DEF c, s, a
<1> QED
  BY <1>1, <1>2, AppendSends

\* The message leaves the queue, and is still the one that was selected.
LEMMA CopiedOutImplements ==
  ASSUME IInv, IInv', NEW p \in Proc, CopiedOut(p)
  PROVE  A!SpecNext
<1> DEFINE s == pr[p].slot
           q == que[s]
           i == pr[p].got
           n == q.msgs[i].ts
           qr == [q EXCEPT !.msgs = RemoveAt(@, i), !.cbytes = @ - n, !.wwait = FALSE]
<1>1. /\ pr[p].pc = "out" /\ s \in Slot /\ q \in QueType /\ q.alloc /\ i # 0
      /\ i = smp(q.msgs, pr[p].call.typ)
  <2>1. pr[p].got > 0 /\ pr[p].got \in Nat
    BY ProcFacts DEF CopiedOut, CallOK, ProcType
  <2>2. pr[p].pc = "out" /\ Holds(p)
    BY DEF CopiedOut, Holds
  <2>3. s \in Slot /\ Valid(pr[p]) /\ i = smp(q.msgs, pr[p].call.typ)
    BY <2>2, ProcFacts
  <2> QED
    BY <2>1, <2>2, <2>3, QueueFacts DEF Valid
<1>2. que' = [que EXCEPT ![s] = qr]
  BY <1>1 DEF CopiedOut, QueType
<1>3. qr.alloc /\ qr.msgs = RemoveAt(q.msgs, i) /\ qr.qbytes = q.qbytes
  BY <1>1 DEF QueType
<1> HIDE DEF qr
<1>4. Received(s, q, qr)
  BY <1>1, <1>3 DEF Received
<1> HIDE DEF s
<1> QED
  BY <1>1, <1>2, <1>4, OneChanges DEF QueueStep

\* A queue is made.
LEMMA MsggetImplements ==
  ASSUME IInv, IInv', NEW p \in Proc, msgget(p)
  PROVE  A!SpecNext
<1>1. PICK s \in Slot :
        /\ ~que[s].alloc
        /\ que' = [que EXCEPT ![s].alloc = TRUE, ![s].msgs = <<>>, ![s].qbytes = msgmnb]
  BY DEF msgget
<1> DEFINE q == que[s]
           qr == [q EXCEPT !.alloc = TRUE, !.msgs = <<>>, !.qbytes = msgmnb]
<1>2. q \in QueType /\ q.msgs = <<>>
  BY <1>1, QueueFacts DEF IInv, FreeSlotIsEmpty
<1>3. que' = [que EXCEPT ![s] = qr]
  BY <1>1, <1>2 DEF QueType
<1>4. Created(q, qr)
  BY <1>1, <1>2 DEF Created, QueType
<1> HIDE DEF qr
<1> QED
  BY <1>3, <1>4, OneChanges DEF QueueStep

\* Every step of Msg is one of MsgSpec, and it begins where MsgSpec does.
LEMMA NextImplements ==
  ASSUME IInv, IInv', [Next]_vars
  PROVE  A!SpecNext
<1>1. ASSUME NEW p \in Proc, Call(p)
      PROVE  A!SpecNext
  BY <1>1, CallImplements
<1>2. ASSUME NEW p \in Proc, Run(p)
      PROVE  A!SpecNext
  BY <1>2, RunImplements
<1>3. ASSUME NEW p \in Proc, Interrupted(p)
      PROVE  A!SpecNext
  BY <1>3, InterruptedImplements
<1>4. ASSUME NEW p \in Proc, CopiedIn(p)
      PROVE  A!SpecNext
  BY <1>4, CopiedInImplements
<1>5. ASSUME NEW p \in Proc, CopiedText(p)
      PROVE  A!SpecNext
  BY <1>5, CopiedTextImplements
<1>6. ASSUME NEW p \in Proc, CopiedOut(p)
      PROVE  A!SpecNext
  BY <1>6, CopiedOutImplements
<1>7. ASSUME NEW p \in Proc, msgget(p)
      PROVE  A!SpecNext
  BY <1>7, MsggetImplements
<1>8. ASSUME NEW p \in Proc, Signal(p) \/ CopyFails(p)
      PROVE  que' = que
  BY <1>8 DEF Signal, CopyFails
<1>9. CASE UNCHANGED vars
  BY <1>9, SameQueues DEF vars
<1> QED
  BY <1>1, <1>2, <1>3, <1>4, <1>5, <1>6, <1>7, <1>8, <1>9, SameQueues DEF Next

\* No queue exists at first.
LEMMA InitImplements == Init => A!SpecInit
<1> SUFFICES ASSUME Init
             PROVE  A!SpecInit
  OBVIOUS
<1>1. Live = {} /\ Limits = [s \in Slot |-> 0]
  BY DEF Init, Live, Limits
<1>2. Queues = [s \in Slot |-> <<>>]
  BY PayloadEmpty DEF Init, Queues
<1>3. Asking \in [Slot -> SUBSET Asked]
  BY InitInv, AskingType
<1> QED
  BY <1>1, <1>2, <1>3 DEF A!SpecInit, Live, Queues, Limits, Asking, Asked, PayloadsOf

(* os/msg.c keeps what MsgSpec promises: whatever msgsnd(), msgrcv(),      *)
(* msgctl() and msgget() do, the copies with the lock held and the failed  *)
(* and interrupted calls included, a queue only ever gets a message that   *)
(* its limit has room for at its end and gives the one that smp() selects  *)
(* to a receiver.                                                          *)
THEOREM MsgImplements == Spec => ImplementsMsgSpec
<1>1. IInv /\ IInv' /\ [Next]_vars =>
        [A!SpecNext]_<<Live, Queues, Limits, Asking>>
  BY NextImplements
<1>2. Spec => []IInv
  BY Invariant
<1> QED
  BY <1>1, <1>2, InitImplements, PTL
     DEF Spec, ImplementsMsgSpec, A!SpecSpec, Live, Queues, Limits, Asking, PayloadsOf
=============================================================================
