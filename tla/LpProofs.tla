------------------------------ MODULE LpProofs ------------------------------
(***************************************************************************)
(* Proofs about Lp, for every number of processes, every pair of water     *)
(* marks and every size of messages: its flow control keeps count, nobody  *)
(* sleeps for what has happened, output moves, and it implements LpSpec.   *)
(***************************************************************************)
EXTENDS LpRefinement, NatProofs, FiniteSetTheorems, SequenceTheorems

-----------------------------------------------------------------------------
(***************************************************************************)
(* The invariant.  Only cur runs, and what a process is doing fits the     *)
(* call that it is in; the one that closes is the last user.               *)
(***************************************************************************)
Running == {"ioctl", "queue", "getblk", "run"}
Waiting == {"asleep", "woken", "signalled"}

CurOK ==
  /\ cur # NoProc => pr[cur].pc \in Running
  /\ \A p \in Procs : pr[p].pc \in Running => cur = p

CallOK(r) ==
  /\ r.pc = "copy" => r.call = "write"
  /\ r.pc \in {"ioctl", "queue"} => r.call = "ioctl"
  /\ r.pc = "getblk" => r.call \in {"write", "ioctl"}
  /\ r.pc \in Waiting /\ r.chan = "wrq" => r.call \in {"write", "close"}
  /\ r.pc \in Waiting /\ r.chan = "oflag" => r.call = "close"
  /\ r.pc \in Waiting /\ r.chan \in {"iocwait", "ioc"} => r.call = "ioctl"
  /\ r.pc # "user" /\ r.call = "ioctl" => r.cmd \in Cmds

UsersOK ==
  /\ \A p \in Procs : pr[p].pc # "user" => p \in users
  /\ \A p \in Procs : pr[p].pc # "user" /\ pr[p].call = "close" => users = {p}
  /\ users # {} => tp.ISOPEN
  /\ users = {} => Empty(q)

ProcOK == CurOK /\ (\A p \in Procs : CallOK(pr[p])) /\ UsersOK

(* One process at most has the ioctl mechanism.  Until it has sent its     *)
(* M_IOCTL no message has the id; then either the reply is there or the    *)
(* message is queued.                                                      *)
Members(s) == {s[i] : i \in DOMAIN s}

Holder(p) == pr[p].call = "ioctl" /\ (pr[p].pc \in Running \/ In(p, "ioc"))

Queued   == Members(q.msgs)
Asked(m) == m.type # "data" /\ m.id = sd.iocid

IoctlOK ==
  /\ \A p \in Procs : Holder(p) => sd.IOCWAIT
  /\ \A a, b \in Procs : Holder(a) /\ Holder(b) => a = b
  /\ \A p \in Procs : Holder(p) =>
       IF pr[p].pc \in {"ioctl", "queue"} THEN ~sd.iocblk /\ \A m \in Queued : m.id # sd.iocid
       ELSE sd.iocblk \/ \E m \in Queued : Asked(m) /\ m.from = p
  /\ \A m \in Queued : sd.IOCWAIT /\ Asked(m) => Sent(m.from)

(* The messages: what they count, and how many there may be.               *)
Kept(s) == {i \in DOMAIN s : s[i].type # "data"}

IsRequest(m) == IF m.type # "data" THEN 1 ELSE 0

Size(m) == IF m.type = "data" THEN m.size \in 1 .. rmax ELSE m.size = IocSize

Copying == {p \in Procs : pr[p].pc = "copy"}
Queuing == {p \in Procs : In(p, "iocwait")}

RoomOK == Bytes(q.msgs) + rmax * Cardinality(Copying)
            < hiwat + rmax * Cardinality(Procs) + IocSize * Cardinality(Kept(q.msgs))

QueueOK ==
  /\ CountOK(q)
  /\ \A m \in Queued : Size(m)
  /\ sd.iocwait = Cardinality(Queuing)
  /\ RoomOK

(* The printer is busy with a message, and it owes an interrupt or the     *)
(* watchdog is set; it owes fewer than MaxIrqs when it is not busy.        *)
PrinterOK ==
  /\ tp.BUSY => tp.bu_bp.from \in Procs
  /\ ~tp.BUSY => tp.bu_bp = NoBlock /\ dev.irqs < MaxIrqs
  /\ tp.BUSY => Unattended \/ dev.irqs > 0 \/ (dev.armed /\ dev.lptmrun)
  /\ ~looping /\ ~Empty(q) => tp.BUSY \/ (cur # NoProc /\ pr[cur].pc = "getblk")

(* Sleepers will be found.                                                 *)
SleepOK == \A p \in Procs :
  /\ Asleep(p, "wrq") => sd.WSLEEP /\ (qenab \/ serving \/ (q.QWANTW /\ ~Empty(q)))
  /\ Asleep(p, "oflag") => tp.TTIOW /\ (looping \/ ~Drained)
  /\ Asleep(p, "iocwait") => sd.IOCWAIT
  /\ Asleep(p, "ioc") => ~sd.iocblk

LpInv == TypeOK /\ ProcOK /\ IoctlOK /\ QueueOK /\ PrinterOK /\ SleepOK

-----------------------------------------------------------------------------
(***************************************************************************)
(* Queues.                                                                 *)
(***************************************************************************)
\* Bytes() adds up the sizes.
LEMMA BytesIsSum ==
  ASSUME NEW s \in Seq(Messages)
  PROVE  \E f \in [0 .. Len(s) -> Nat] :
           f[0] = 0 /\ (\A i \in 1 .. Len(s) : f[i] = f[i - 1] + s[i].size) /\ Bytes(s) = f[Len(s)]
<1> DEFINE n == Len(s)
           d == [i \in 1 .. n |-> s[i].size]
           Adds(g) == g = [i \in 0 .. n |-> IF i = 0 THEN 0 ELSE g[i - 1] + s[i].size]
           f == CHOOSE g : Adds(g)
<1>1. n \in Nat /\ d \in [1 .. n -> Int]
  <2>1. n \in Nat /\ \A i \in 1 .. n : s[i] \in Messages
    BY LenProperties, ElementOfSeq
  <2> QED
    BY <2>1 DEF Messages
<1>2. \A g : Sums(g, n, d) <=> Adds(g)
  <2> SUFFICES ASSUME NEW g
               PROVE  [i \in 0 .. n |-> IF i = 0 THEN 0 ELSE g[i - 1] + d[i]]
                        = [i \in 0 .. n |-> IF i = 0 THEN 0 ELSE g[i - 1] + s[i].size]
    BY DEF Sums
  <2>1. \A i \in 0 .. n : i # 0 => i \in 1 .. n
    BY <1>1
  <2> QED
    BY <2>1
<1> HIDE DEF d
<1>3. Adds(f)
  <2> HIDE DEF Adds
  <2>1. \E g : Sums(g, n, d)
    BY <1>1, SumExists
  <2> QED
    BY <2>1, <1>2
<1>4. Bytes(s) = f[n]
  BY DEF Bytes
<1> HIDE DEF f, Adds
<1>5. f \in [0 .. n -> Int] /\ f[0] = 0 /\ \A i \in 1 .. n : f[i] = f[i - 1] + d[i]
  <2>1. Sums(f, n, d)
    BY <1>2, <1>3
  <2> QED
    BY <1>1, <2>1, SumFacts
<1>6. \A i \in 1 .. n : d[i] = s[i].size /\ s[i].size \in Nat
  <2>1. \A i \in 1 .. n : s[i] \in Messages
    BY ElementOfSeq
  <2> QED
    BY <2>1 DEF d, Messages
<1> DEFINE T == {i \in 0 .. n : f[i] \in Nat}
<1>7. 0 \in T
  BY <1>1, <1>5
<1>8. ASSUME NEW i \in 0 .. n - 1, i \in T
      PROVE  i + 1 \in T
  <2>1. i + 1 \in 1 .. n /\ (i + 1) - 1 = i
    BY <1>1
  <2>2. f[i + 1] = f[i] + d[i + 1] /\ d[i + 1] \in Nat
    BY <1>5, <1>6, <2>1
  <2> QED
    BY <1>8, <2>1, <2>2
<1>9. f \in [0 .. n -> Nat]
  <2> HIDE DEF T
  <2>1. 0 .. n \subseteq T
    BY <1>1, <1>7, <1>8, Induction
  <2> QED
    BY <1>5, <2>1 DEF T
<1> QED
  BY <1>4, <1>5, <1>6, <1>9

\* The bytes of a stretch of the messages of s, those after the first j.
LEMMA BytesAgree ==
  ASSUME NEW s \in Seq(Messages), NEW t \in Seq(Messages), NEW j \in 0 .. Len(s),
         Len(t) + j <= Len(s), \A i \in 1 .. Len(t) : t[i] = s[i + j],
         NEW f \in [0 .. Len(s) -> Nat], \A i \in 1 .. Len(s) : f[i] = f[i - 1] + s[i].size
  PROVE  Bytes(t) = f[Len(t) + j] - f[j] /\ Bytes(t) \in Nat
<1> DEFINE n == Len(t)
<1>1. n \in Nat /\ Len(s) \in Nat /\ \A i \in 1 .. n : t[i] \in Messages
  BY LenProperties, ElementOfSeq
<1>2. PICK g \in [0 .. n -> Nat] :
        g[0] = 0 /\ (\A i \in 1 .. n : g[i] = g[i - 1] + t[i].size) /\ Bytes(t) = g[n]
  BY BytesIsSum
<1> DEFINE T == {i \in 0 .. n : g[i] = f[i + j] - f[j]}
<1>3. 0 \in T
  <2>1. j \in 0 .. Len(s) /\ 0 + j = j
    BY <1>1
  <2>2. f[j] \in Nat
    OBVIOUS
  <2> QED
    BY <1>1, <1>2, <2>1, <2>2
<1>4. ASSUME NEW i \in 0 .. n - 1, i \in T
      PROVE  i + 1 \in T
  <2>1. /\ i + 1 \in 1 .. n /\ (i + 1) - 1 = i /\ i + 1 + j \in 1 .. Len(s) /\ (i + 1 + j) - 1 = i + j
        /\ i + j \in 0 .. Len(s) /\ j \in 0 .. Len(s)
    BY SMTT(40), <1>1
  <2>2. g[i + 1] = g[i] + t[i + 1].size /\ f[i + 1 + j] = f[i + j] + s[i + 1 + j].size
    BY <2>1, <1>2
  <2>3. t[i + 1] = s[i + 1 + j] /\ t[i + 1].size \in Int
    BY SMTT(40), <2>1, <1>1 DEF Messages
  <2>4. g[i] = f[i + j] - f[j] /\ f[i + j] \in Int /\ f[j] \in Int
    BY SMTT(40), <1>4, <2>1
  <2>5. g[i + 1] = f[i + 1 + j] - f[j]
    BY SMTT(40), <2>2, <2>3, <2>4
  <2> QED
    BY <2>1, <2>5
<1>5. n \in T
  <2> HIDE DEF T
  <2>1. 0 .. n \subseteq T
    BY <1>1, <1>3, <1>4, Induction
  <2>2. n \in 0 .. n
    BY <1>1
  <2> QED
    BY <2>1, <2>2
<1> QED
  BY <1>2, <1>5

\* No message, no bytes.
LEMMA BytesEmpty == Bytes(<<>>) = 0
<1>1. <<>> \in Seq(Messages) /\ Len(<<>>) = 0
  OBVIOUS
<1>2. PICK f \in [0 .. 0 -> Nat] : f[0] = 0 /\ Bytes(<<>>) = f[0]
  BY <1>1, BytesIsSum
<1> QED
  BY <1>2

LEMMA KeptFinite ==
  ASSUME NEW s \in Seq(Messages)
  PROVE  IsFiniteSet(Kept(s)) /\ Cardinality(Kept(s)) \in Nat
<1>1. Len(s) \in Nat /\ Kept(s) \in SUBSET (1 .. Len(s))
  BY LenProperties DEF Kept
<1>2. IsFiniteSet(1 .. Len(s))
  BY <1>1, FS_Interval
<1>3. IsFiniteSet(Kept(s))
  BY <1>1, <1>2, FS_Subset
<1> QED
  BY <1>3, FS_CardinalityType

\* t is s without its first message.
LEMMA OneLess ==
  ASSUME NEW s \in Seq(Messages), NEW t \in Seq(Messages),
         Len(s) = Len(t) + 1, \A i \in 1 .. Len(t) : t[i] = s[i + 1]
  PROVE  /\ Bytes(s) = Bytes(t) + s[1].size /\ Bytes(s) \in Nat /\ Bytes(t) \in Nat
         /\ Cardinality(Kept(s)) = Cardinality(Kept(t)) + IsRequest(s[1])
<1> DEFINE n == Len(t)
<1>1. n \in Nat /\ Len(s) = n + 1 /\ 1 \in 1 .. Len(s) /\ 1 \in 0 .. Len(s) /\ s[1] \in Messages
  <2>1. n \in Nat
    BY LenProperties
  <2> QED
    BY <2>1, ElementOfSeq
<1>2. /\ Bytes(s) = Bytes(t) + s[1].size /\ Bytes(s) \in Nat /\ Bytes(t) \in Nat
  <2>1. PICK f \in [0 .. Len(s) -> Nat] :
          f[0] = 0 /\ (\A i \in 1 .. Len(s) : f[i] = f[i - 1] + s[i].size) /\ Bytes(s) = f[Len(s)]
    BY BytesIsSum
  <2>2. Bytes(t) = f[n + 1] - f[1] /\ Bytes(t) \in Nat
    <3>1. n + 1 <= Len(s)
      BY <1>1
    <3> QED
      BY <1>1, <2>1, <3>1, BytesAgree
  <2>3. f[1] = s[1].size
    <3>1. f[1] = f[1 - 1] + s[1].size
      BY <1>1, <2>1
    <3> QED
      BY <1>1, <2>1, <3>1 DEF Messages
  <2>4. f[n + 1] \in Nat /\ f[1] \in Nat
    BY <1>1, <2>1
  <2> QED
    BY <1>1, <2>1, <2>2, <2>3, <2>4
<1>3. Cardinality(Kept(s)) = Cardinality(Kept(t)) + IsRequest(s[1])
  <2> DEFINE U == Kept(s) \ {1}
             next == [i \in Kept(t) |-> i + 1]
  <2>1. DOMAIN s = 1 .. n + 1 /\ DOMAIN t = 1 .. n
    BY <1>1, LenProperties
  <2>2. \A i \in Kept(t) : i \in 1 .. n /\ i + 1 \in U
    <3> SUFFICES ASSUME NEW i \in Kept(t) PROVE i \in 1 .. n /\ i + 1 \in U
      OBVIOUS
    <3>1. i \in 1 .. n /\ t[i].type # "data"
      BY <2>1 DEF Kept
    <3>2. i + 1 \in 1 .. n + 1 /\ i + 1 # 1
      BY <1>1, <3>1
    <3> QED
      BY <2>1, <3>1, <3>2 DEF Kept
  <2>3. \A j \in U : \E i \in Kept(t) : j = i + 1
    <3> SUFFICES ASSUME NEW j \in U PROVE \E i \in Kept(t) : j = i + 1
      OBVIOUS
    <3>1. j \in 1 .. n + 1 /\ j # 1 /\ s[j].type # "data"
      BY <2>1 DEF Kept
    <3>2. j - 1 \in 1 .. n /\ j = (j - 1) + 1
      BY <1>1, <3>1
    <3>3. t[j - 1] = s[j]
      BY <3>2
    <3>4. j - 1 \in Kept(t)
      BY <2>1, <3>1, <3>2, <3>3 DEF Kept
    <3> QED
      BY <3>2, <3>4
  <2>4. ExistsBijection(Kept(t), U)
    <3>1. next \in [Kept(t) -> U]
      BY <2>2
    <3>2. \A a, b \in Kept(t) : next[a] = next[b] => a = b
      BY <2>2
    <3>3. \A j \in U : \E i \in Kept(t) : next[i] = j
      BY <2>3
    <3> HIDE DEF next, U
    <3>4. next \in Bijection(Kept(t), U)
      BY <3>1, <3>2, <3>3 DEF Bijection, Injection, Surjection, IsInjective
    <3> QED
      BY <3>4 DEF ExistsBijection
  <2> HIDE DEF U
  <2>5. Cardinality(U) = Cardinality(Kept(t))
    BY <2>4, KeptFinite, FS_Bijection
  <2>6. Cardinality(U) = IF 1 \in Kept(s) THEN Cardinality(Kept(s)) - 1 ELSE Cardinality(Kept(s))
    BY KeptFinite, FS_RemoveElement DEF U
  <2>7. 1 \in Kept(s) <=> s[1].type # "data"
    BY <1>1, <2>1 DEF Kept
  <2>8. Cardinality(Kept(s)) \in Nat /\ Cardinality(Kept(t)) \in Nat
    BY KeptFinite
  <2> QED
    BY <2>5, <2>6, <2>7, <2>8 DEF IsRequest
<1> QED
  BY <1>2, <1>3

\* s is t with a message at its end.
LEMMA OneMore ==
  ASSUME NEW t \in Seq(Messages), NEW m \in Messages
  PROVE  LET s == Append(t, m)
         IN  /\ Bytes(s) = Bytes(t) + m.size /\ Bytes(s) \in Nat /\ Bytes(t) \in Nat
             /\ Cardinality(Kept(s)) = Cardinality(Kept(t)) + IsRequest(m)
<1> DEFINE n == Len(t)
           s == Append(t, m)
<1>1. n \in Nat /\ DOMAIN t = 1 .. n
  BY LenProperties
<1>2. s \in Seq(Messages) /\ Len(s) = n + 1 /\ DOMAIN s = 1 .. n + 1
      /\ s[n + 1] = m /\ \A i \in 1 .. n : s[i] = t[i]
  BY AppendProperties, LenProperties
<1> HIDE DEF s
<1>3. Bytes(s) = Bytes(t) + m.size /\ Bytes(s) \in Nat /\ Bytes(t) \in Nat
  <2>1. PICK f \in [0 .. Len(s) -> Nat] :
          f[0] = 0 /\ (\A i \in 1 .. Len(s) : f[i] = f[i - 1] + s[i].size) /\ Bytes(s) = f[Len(s)]
    BY <1>2, BytesIsSum
  <2>2. 0 \in 0 .. Len(s) /\ n + 0 <= Len(s) /\ n + 0 = n /\ \A i \in 1 .. n : i + 0 = i
    BY <1>1, <1>2
  <2>3. Bytes(t) = f[n] - f[0] /\ Bytes(t) \in Nat
    <3>1. \A i \in 1 .. n : t[i] = s[i + 0]
      BY <1>2, <2>2
    <3>2. Bytes(t) = f[n + 0] - f[0] /\ Bytes(t) \in Nat
      BY <1>2, <2>1, <2>2, <3>1, BytesAgree
    <3> QED
      BY <2>2, <3>2
  <2>4. n + 1 \in 1 .. Len(s) /\ (n + 1) - 1 = n /\ n \in 0 .. Len(s) /\ n + 1 \in 0 .. Len(s)
    BY <1>1, <1>2
  <2>5. f[n + 1] = f[n] + m.size /\ f[n] \in Nat /\ f[n + 1] \in Nat
    BY <1>2, <2>1, <2>4
  <2> QED
    BY <1>2, <2>1, <2>3, <2>5 DEF Messages
<1>4. Cardinality(Kept(s)) = Cardinality(Kept(t)) + IsRequest(m)
  <2>1. \A i \in 1 .. n : i \in 1 .. n + 1 /\ i # n + 1
    BY <1>1
  <2>2. n + 1 \notin Kept(t) /\ n + 1 \in 1 .. n + 1
    BY <1>1 DEF Kept
  <2>3. CASE m.type = "data"
    <3>1. Kept(s) = Kept(t)
      <4>1. \A i \in 1 .. n + 1 : i = n + 1 \/ i \in 1 .. n
        BY <1>1
      <4> QED
        BY <1>1, <1>2, <2>1, <2>3, <4>1 DEF Kept
    <3> QED
      BY <2>3, <3>1, KeptFinite DEF IsRequest
  <2>4. CASE m.type # "data"
    <3>1. Kept(s) = Kept(t) \cup {n + 1}
      <4>1. \A i \in 1 .. n + 1 : i = n + 1 \/ i \in 1 .. n
        BY <1>1
      <4> QED
        BY <1>1, <1>2, <2>1, <2>2, <2>4, <4>1 DEF Kept
    <3>2. Cardinality(Kept(t) \cup {n + 1}) = Cardinality(Kept(t)) + 1
      BY <2>2, KeptFinite, FS_AddElement
    <3> QED
      BY <2>4, <3>1, <3>2 DEF IsRequest
  <2> QED
    BY <2>3, <2>4
<1> QED
  BY <1>3, <1>4 DEF s

\* putq() and putbq().
LEMMA PutFacts ==
  ASSUME NEW Q \in Queues(Messages), CountOK(Q), NEW m \in Messages,
         NEW R, R = putq(Q, m) \/ R = putbq(Q, m)
  PROVE  /\ R \in Queues(Messages) /\ CountOK(R) /\ ~Empty(R) /\ R.QWANTW = Q.QWANTW
         /\ Bytes(R.msgs) = Bytes(Q.msgs) + m.size /\ Bytes(Q.msgs) \in Nat
         /\ Cardinality(Kept(R.msgs)) = Cardinality(Kept(Q.msgs)) + IsRequest(m)
         /\ Members(R.msgs) = Members(Q.msgs) \cup {m}
<1> DEFINE s == Q.msgs
           n == Len(s)
<1>1. s \in Seq(Messages) /\ n \in Nat /\ DOMAIN s = 1 .. n
  BY LenProperties DEF Queues
<1>2. PICK t : t = R.msgs
  OBVIOUS
<1>3. R = [Q EXCEPT !.msgs = t, !.count = Q.count + m.size, !.QFULL = Q.QFULL \/ Q.count + m.size >= hiwat]
      /\ (t = Append(s, m) \/ t = <<m>> \o s)
  BY <1>2 DEF Queues, putq, putbq, Added
<1>4. /\ t \in Seq(Messages) /\ t # <<>> /\ Members(t) = Members(s) \cup {m}
      /\ Bytes(t) = Bytes(s) + m.size /\ Bytes(s) \in Nat /\ Bytes(t) \in Nat
      /\ Cardinality(Kept(t)) = Cardinality(Kept(s)) + IsRequest(m)
  <2>1. CASE t = Append(s, m)
    <3>1. /\ t \in Seq(Messages) /\ Len(t) = n + 1 /\ DOMAIN t = 1 .. n + 1
          /\ t[n + 1] = m /\ \A i \in 1 .. n : t[i] = s[i]
      BY <1>1, <2>1, AppendProperties, LenProperties
    <3>2. \A i : i \in 1 .. n + 1 <=> i \in 1 .. n \/ i = n + 1
      BY <1>1
    <3>3. Members(t) = Members(s) \cup {m}
      <4>1. \A i \in 1 .. n + 1 : t[i] \in Members(s) \cup {m}
        BY <1>1, <3>1, <3>2 DEF Members
      <4>2. \A i \in 1 .. n : s[i] \in Members(t)
        BY <3>1, <3>2 DEF Members
      <4>3. m \in Members(t)
        BY <3>1, <3>2 DEF Members
      <4> QED
        BY <1>1, <3>1, <4>1, <4>2, <4>3 DEF Members
    <3> QED
      BY <1>1, <2>1, <3>1, <3>3, OneMore
  <2>2. CASE t = <<m>> \o s
    <3>1. <<m>> \in Seq(Messages) /\ Len(<<m>>) = 1 /\ <<m>>[1] = m
      OBVIOUS
    <3>2. t \in Seq(Messages) /\ Len(t) = n + 1 /\ DOMAIN t = 1 .. n + 1
      <4>1. t \in Seq(Messages) /\ Len(t) = 1 + n
        BY <1>1, <2>2, <3>1, ConcatProperties
      <4>2. Len(t) = n + 1
        BY <1>1, <4>1
      <4> QED
        BY <4>1, <4>2, LenProperties
    <3>3. t[1] = m /\ \A i \in 1 .. n : t[i + 1] = s[i] /\ i + 1 \in 1 .. n + 1
      <4>1. \A i \in 1 .. 1 + n : t[i] = IF i <= 1 THEN <<m>>[i] ELSE s[i - 1]
        BY <1>1, <2>2, <3>1, ConcatProperties
      <4>2. 1 \in 1 .. 1 + n
        BY <1>1
      <4>3. \A i \in 1 .. n : i + 1 \in 1 .. 1 + n /\ i + 1 \in 1 .. n + 1 /\ ~(i + 1 <= 1) /\ (i + 1) - 1 = i
        BY <1>1
      <4> QED
        BY <3>1, <4>1, <4>2, <4>3
    <3>4. Members(t) = Members(s) \cup {m}
      <4>1. \A i \in 1 .. n + 1 : i = 1 \/ (i - 1 \in 1 .. n /\ (i - 1) + 1 = i)
        BY <1>1
      <4>2. ASSUME NEW i \in 1 .. n + 1 PROVE t[i] \in Members(s) \cup {m}
        <5>1. CASE i = 1
          BY <3>3, <5>1
        <5>2. CASE i # 1
          <6>1. PICK j \in 1 .. n : j + 1 = i
            BY <4>1, <5>2
          <6>2. t[i] = s[j]
            BY <3>3, <6>1
          <6> QED
            BY <1>1, <6>2 DEF Members
        <5> QED
          BY <5>1, <5>2
      <4>3. \A i \in 1 .. n : s[i] \in Members(t)
        BY <3>2, <3>3 DEF Members
      <4>4. m \in Members(t)
        <5>1. 1 \in 1 .. n + 1
          BY <1>1
        <5> QED
          BY <3>2, <3>3, <5>1 DEF Members
      <4> QED
        BY <1>1, <3>2, <4>2, <4>3, <4>4 DEF Members
    <3>5. t # <<>>
      BY <1>1, <3>2
    <3> HIDE DEF s
    <3>6. /\ Bytes(t) = Bytes(s) + t[1].size /\ Bytes(t) \in Nat /\ Bytes(s) \in Nat
          /\ Cardinality(Kept(t)) = Cardinality(Kept(s)) + IsRequest(t[1])
      BY <1>1, <3>2, <3>3, OneLess
    <3> QED
      BY <3>2, <3>3, <3>4, <3>5, <3>6
  <2> QED
    BY <1>3, <2>1, <2>2
<1> HIDE DEF s
<1>5. R.msgs = t /\ R.count = Q.count + m.size /\ R.QWANTW = Q.QWANTW
      /\ R.QFULL = (Q.QFULL \/ Q.count + m.size >= hiwat)
  BY <1>3 DEF Queues
<1>6. R \in Queues(Messages)
  <2>1. Q.count + m.size \in Nat
    BY DEF Queues, Messages
  <2>2. R = [msgs |-> t, count |-> Q.count + m.size, QFULL |-> Q.QFULL \/ Q.count + m.size >= hiwat,
             QWANTW |-> Q.QWANTW]
    BY <1>3 DEF Queues
  <2>3. (Q.QFULL \/ Q.count + m.size >= hiwat) \in BOOLEAN /\ Q.QWANTW \in BOOLEAN
    BY DEF Queues
  <2> QED
    BY <1>4, <2>1, <2>2, <2>3 DEF Queues
<1>7. CountOK(R)
  <2>1. Q.count = Bytes(s) /\ Q.QFULL = (Q.count >= hiwat) /\ m.size \in Nat
    BY DEF CountOK, Messages, s
  <2>2. Q.count + m.size = Bytes(t)
    BY <1>4, <2>1
  <2>3. (Q.count >= hiwat \/ Q.count + m.size >= hiwat) = (Q.count + m.size >= hiwat)
    BY <1>4, <2>1, MarksAssumption
  <2> QED
    BY <1>5, <2>1, <2>2, <2>3 DEF CountOK
<1> QED
  BY <1>4, <1>5, <1>6, <1>7 DEF s, Empty

\* getq(), when there is a message and when there is none.
LEMMA LeftFacts ==
  ASSUME NEW Q \in Queues(Messages), CountOK(Q)
  PROVE  /\ Left(Q) \in Queues(Messages) /\ CountOK(Left(Q)) /\ Bytes(Q.msgs) \in Nat
         /\ Q.QWANTW => Backenables(Q) \/ (Left(Q).QWANTW /\ ~Empty(Left(Q)))
         /\ ~Empty(Q) => /\ Bytes(Q.msgs) = Bytes(Left(Q).msgs) + Head(Q.msgs).size
                         /\ Bytes(Left(Q).msgs) \in Nat
                         /\ Cardinality(Kept(Q.msgs)) = Cardinality(Kept(Left(Q).msgs)) + IsRequest(Head(Q.msgs))
                         /\ Members(Q.msgs) = Members(Left(Q).msgs) \cup {Head(Q.msgs)}
                         /\ Left(Q).msgs = Tail(Q.msgs)
         /\ Empty(Q) => Left(Q).msgs = <<>>
<1> DEFINE s == Q.msgs
           t == Left(Q).msgs
<1>1. s \in Seq(Messages) /\ Q.count = Bytes(s) /\ Q.QFULL = (Q.count >= hiwat)
      /\ Q.QWANTW \in BOOLEAN /\ Q.count \in Nat
  BY DEF Queues, CountOK
<1>2. CASE Empty(Q)
  <2>1. s = <<>> /\ t = <<>> /\ Left(Q).count = Q.count - 0 /\ Left(Q).QFULL = (Q.QFULL /\ TRUE)
        /\ Left(Q).QWANTW = (Q.QWANTW /\ ~Q.QWANTW) /\ (Q.QWANTW => Backenables(Q))
    BY <1>2 DEF Empty, Left, Backenables
  <2>2. Q.count = 0 /\ Bytes(<<>>) = 0 /\ (0 >= hiwat) = FALSE
    BY <1>1, <2>1, BytesEmpty, MarksAssumption
  <2>3. Left(Q) = [msgs |-> <<>>, count |-> 0, QFULL |-> FALSE, QWANTW |-> FALSE]
    <3>1. Q.QFULL = FALSE
      BY <1>1, <2>2
    <3>2. Left(Q).QFULL = FALSE /\ Left(Q).QWANTW = FALSE
      BY <2>1, <3>1
    <3>3. Left(Q).count = 0 /\ Left(Q).msgs = <<>>
      BY <2>1, <2>2
    <3>4. Left(Q) = [msgs |-> Left(Q).msgs, count |-> Left(Q).count, QFULL |-> Left(Q).QFULL,
                     QWANTW |-> Left(Q).QWANTW]
      BY DEF Left
    <3> QED
      BY <3>2, <3>3, <3>4
  <2>4. Left(Q) \in Queues(Messages)
    BY <2>3 DEF Queues
  <2>5. CountOK(Left(Q))
    <3>1. Left(Q).count = 0 /\ Left(Q).msgs = <<>> /\ Left(Q).QFULL = FALSE
      BY <2>3
    <3> QED
      BY <2>2, <3>1 DEF CountOK
  <2> QED
    BY <1>2, <2>1, <2>2, <2>4, <2>5
<1>3. CASE ~Empty(Q)
  <2>1. s # <<>> /\ Left(Q) = [msgs |-> Tail(s), count |-> Q.count - Head(s).size,
          QFULL |-> Q.QFULL /\ (Q.count - Head(s).size >= hiwat), QWANTW |-> Q.QWANTW /\ ~Backenables(Q)]
        /\ Backenables(Q) = (Q.QWANTW /\ Q.count - Head(s).size <= lowat)
    BY <1>3 DEF Empty, Left, Backenables
  <2>2. t = Tail(s) /\ t \in Seq(Messages) /\ Len(s) = Len(t) + 1 /\ \A i \in 1 .. Len(t) : t[i] = s[i + 1]
    <3>1. t = Tail(s)
      BY <2>1
    <3>2. Tail(s) \in Seq(Messages) /\ Len(Tail(s)) = Len(s) - 1 /\ \A i \in 1 .. Len(Tail(s)) : Tail(s)[i] = s[i + 1]
      BY <1>1, <2>1, HeadTailProperties
    <3>3. Len(s) \in Nat /\ Len(Tail(s)) \in Nat
      BY <1>1, <3>2, LenProperties
    <3>4. Len(s) = Len(Tail(s)) + 1
      BY <3>2, <3>3
    <3> HIDE DEF t
    <3> QED
      BY <3>1, <3>2, <3>4
  <2> HIDE DEF t
  <2>3. Head(s) = s[1] /\ s[1] \in Messages
    BY <1>1, <2>1, HeadTailProperties
  <2> HIDE DEF s
  <2>4. /\ Bytes(s) = Bytes(t) + s[1].size /\ Bytes(s) \in Nat /\ Bytes(t) \in Nat
        /\ Cardinality(Kept(s)) = Cardinality(Kept(t)) + IsRequest(s[1])
    BY <1>1, <2>2, OneLess
  <2>5. Members(s) = Members(t) \cup {s[1]}
    <3>1. Len(t) \in Nat /\ DOMAIN t = 1 .. Len(t) /\ DOMAIN s = 1 .. Len(s)
      BY <1>1, <2>2, LenProperties
    <3>2. \A i \in 1 .. Len(s) : i = 1 \/ (i - 1 \in 1 .. Len(t) /\ (i - 1) + 1 = i)
      BY <2>2, <3>1
    <3>3. \A i \in 1 .. Len(t) : i + 1 \in 1 .. Len(s)
      BY <2>2, <3>1
    <3>4. ASSUME NEW i \in 1 .. Len(s) PROVE s[i] \in Members(t) \cup {s[1]}
      <4>1. CASE i = 1
        BY <4>1
      <4>2. CASE i # 1
        <5>1. PICK j \in 1 .. Len(t) : j + 1 = i
          BY <3>2, <4>2
        <5>2. s[i] = t[j]
          BY <2>2, <5>1
        <5> QED
          BY <3>1, <5>2 DEF Members
      <4> QED
        BY <4>1, <4>2
    <3>5. \A i \in 1 .. Len(t) : t[i] \in Members(s)
      BY <2>2, <3>1, <3>3 DEF Members
    <3>6. s[1] \in Members(s)
      <4>1. 1 \in 1 .. Len(s)
        BY <2>2, <3>1
      <4> QED
        BY <3>1, <4>1 DEF Members
    <3> QED
      BY <3>1, <3>4, <3>5, <3>6 DEF Members
  <2>6. Q.count - s[1].size = Bytes(t) /\ s[1].size \in Nat
    BY <1>1, <2>3, <2>4 DEF Messages
  <2>7. Left(Q) = [msgs |-> t, count |-> Bytes(t), QFULL |-> Q.QFULL /\ Bytes(t) >= hiwat,
                   QWANTW |-> Q.QWANTW /\ ~Backenables(Q)]
        /\ Backenables(Q) = (Q.QWANTW /\ Bytes(t) <= lowat)
    BY <2>1, <2>2, <2>3, <2>6
  <2>8. (Q.QFULL /\ Bytes(t) >= hiwat) = (Bytes(t) >= hiwat)
    <3>1. Bytes(t) >= hiwat => Q.count >= hiwat
      BY <1>1, <2>4, <2>6, MarksAssumption
    <3>2. (Bytes(t) >= hiwat) \in BOOLEAN
      OBVIOUS
    <3> QED
      BY <1>1, <3>1, <3>2
  <2>9. Left(Q) \in Queues(Messages) /\ CountOK(Left(Q))
    BY <1>1, <2>2, <2>4, <2>7, <2>8 DEF Queues, CountOK
  <2>10. t = <<>> => Bytes(t) <= lowat
    BY BytesEmpty, MarksAssumption
  <2>11. Q.QWANTW => Backenables(Q) \/ (Left(Q).QWANTW /\ ~Empty(Left(Q)))
    <3>1. Left(Q).QWANTW = (Q.QWANTW /\ ~Backenables(Q)) /\ Left(Q).msgs = t
      BY <2>7
    <3>2. Backenables(Q) = (Q.QWANTW /\ Bytes(t) <= lowat)
      BY <2>7
    <3> QED
      BY <2>10, <3>1, <3>2 DEF Empty
  <2>12. Left(Q).msgs = t
    BY <2>7
  <2> QED
    BY <1>3, <2>2, <2>3, <2>4, <2>5, <2>9, <2>11, <2>12 DEF s
<1> QED
  BY <1>2, <1>3

-----------------------------------------------------------------------------
(***************************************************************************)
(* Types.                                                                  *)
(***************************************************************************)
\* wakeprocs() changes the pc of sleepers, and nothing else.
LEMMA WakeFacts ==
  ASSUME NEW f \in [Procs -> ProcRecord], NEW c
  PROVE  /\ wakeprocs(f, c) \in [Procs -> ProcRecord]
         /\ \A p \in Procs :
              LET r == f[p]
                  w == wakeprocs(f, c)[p]
              IN /\ w.pc = IF r.pc = "asleep" /\ r.chan = c THEN "woken" ELSE r.pc
                 /\ w.chan = r.chan /\ w.call = r.call /\ w.n = r.n /\ w.nodelay = r.nodelay
                 /\ w.cmd = r.cmd /\ w.timed = r.timed
BY SMTT(30) DEF wakeprocs, ProcRecord

LEMMA IdleFacts == Idle \in ProcRecord /\ CallOK(Idle)
BY DEF Idle, ProcRecord, CallOK, Chans, Waiting

\* The processes that wait for the ioctl mechanism are finite in number.
LEMMA CountFacts ==
  ASSUME NEW S \in SUBSET Procs
  PROVE  /\ IsFiniteSet(S) /\ Cardinality(S) \in Nat /\ Cardinality(S) <= Cardinality(Procs)
         /\ Cardinality(Procs) \in Nat
         /\ \A p \in S : Cardinality(S) > 0 /\ Cardinality(S \ {p}) = Cardinality(S) - 1
         /\ \A p \in Procs \ S : Cardinality(S \cup {p}) = Cardinality(S) + 1
<1>1. IsFiniteSet(Procs)
  BY LpAssumption
<1>2. IsFiniteSet(S) /\ Cardinality(S) <= Cardinality(Procs)
  BY <1>1, FS_Subset
<1>3. Cardinality(S) \in Nat /\ Cardinality(Procs) \in Nat
  BY <1>1, <1>2, FS_CardinalityType
<1>4. ASSUME NEW p \in S PROVE Cardinality(S) > 0 /\ Cardinality(S \ {p}) = Cardinality(S) - 1
  <2>1. Cardinality(S) # 0
    BY <1>2, FS_EmptySet
  <2>2. Cardinality(S \ {p}) = Cardinality(S) - 1
    BY <1>2, FS_RemoveElement
  <2> QED
    BY <1>3, <2>1, <2>2
<1>5. ASSUME NEW p \in Procs \ S PROVE Cardinality(S \cup {p}) = Cardinality(S) + 1
  BY <1>2, FS_AddElement
<1> QED
  BY <1>2, <1>3, <1>4, <1>5

\* Who waits for the ioctl mechanism is counted.
LEMMA Waiters ==
  ASSUME LpInv, NEW p \in Procs, In(p, "iocwait")
  PROVE  sd.iocwait \in Nat /\ sd.iocwait > 0 /\ sd.iocwait - 1 \in Nat
<1>1. Queuing \in SUBSET Procs /\ p \in Queuing /\ sd.iocwait = Cardinality(Queuing)
  BY DEF LpInv, QueueOK, Queuing
<1>2. Cardinality(Queuing) \in Nat /\ Cardinality(Queuing) > 0
  BY <1>1, CountFacts
<1> QED
  BY <1>1, <1>2

\* The stream head.
LEMMA HeadStep ==
  ASSUME LpInv, Next PROVE sd' \in HeadRecord
<1> DEFINE T == sd' \in HeadRecord
<1>1. sd \in HeadRecord
  BY DEF LpInv, TypeOK
<1>2. NewHead \in HeadRecord
  BY DEF NewHead, HeadRecord
<1>3. \A p \in Procs : \A r : \A t : Canput(p, r) \/ CloseOn(p, r) \/ CloseWait(p, r, t) \/ Lpclose(p) \/ Detach(p) => T
  BY ZenonT(40), <1>1, <1>2 DEF Canput, CloseOn, CloseWait, Lpclose, Detach, HeadRecord
<1>4. \A m : \A f : Replied(m, f) => T
  BY <1>1 DEF Replied, HeadRecord
<1>5. \A p \in Procs : IocEnd(p) \/ ReplyWait(p) => T
  BY <1>1 DEF IocEnd, ReplyWait, HeadRecord
<1>6. \A h \in HeadRecord : \A p \in Procs : \A r : \A U : IocWait(p, r, h, U) => T
  <2> SUFFICES ASSUME NEW h \in HeadRecord, NEW p \in Procs, NEW r, NEW U, IocWait(p, r, h, U) PROVE T
    OBVIOUS
  <2>1. CASE h.IOCWAIT
    BY <2>1 DEF IocWait, HeadRecord
  <2>2. CASE ~h.IOCWAIT
    <3>1. (CHOOSE i \in IocIds \ InFlight : TRUE) \in IocIds
      BY <2>2 DEF IocWait
    <3> QED
      BY <2>2, <3>1 DEF IocWait, HeadRecord
  <2> QED
    BY <2>1, <2>2
<1>7. \A p \in Procs : In(p, "iocwait") => [sd EXCEPT !.iocwait = @ - 1] \in HeadRecord
  BY <1>1, Waiters DEF HeadRecord
<1>8. \A p \in Procs : In(p, "iocwait") /\ IocLeave(p) => T
  BY <1>1, Waiters DEF IocLeave, HeadRecord
<1> HIDE DEF T
<1>9. CASE Driver
  <2>1. CASE LpgetoblkNext
    BY <1>1, <1>4, <2>1 DEF LpgetoblkNext, T
  <2>2. CASE strwsrv
    BY <1>1, <2>2 DEF strwsrv, T, HeadRecord
  <2>3. CASE LpgetoblkEnd \/ queuerun
    BY <1>1, <2>3 DEF LpgetoblkEnd, queuerun, T
  <2> QED
    BY <1>9, <2>1, <2>2, <2>3 DEF Driver
<1>10. CASE Device \/ LoseInterrupt
  BY <1>1, <1>10 DEF Device, lpintr, lptmout, LoseInterrupt, T
<1>11. CASE Timers
  BY <1>1, <1>11 DEF Timers, str2time, str3time, strtime, T, HeadRecord
<1>12. CASE \E S \in SUBSET Procs : stropen(S)
  BY <1>1, <1>12 DEF stropen, T
<1>13. ASSUME NEW p \in Procs, Call(p) PROVE T
  <2>1. CASE \E w \in Writes : strwrite(p, w[1], w[2])
    BY <1>3, <2>1 DEF strwrite
  <2>2. CASE \E c \in Requests[p] : strdoioctl(p, c[1], c[2])
    <3>1. [sd EXCEPT !.STR2TIME = TRUE] \in HeadRecord
      BY <1>1 DEF HeadRecord
    <3> QED
      BY <1>6, <2>2, <3>1 DEF strdoioctl
  <2>3. CASE closef(p)
    BY <1>1, <2>3 DEF closef, T
  <2>4. CASE \E nodelay \in BOOLEAN : strclose(p, nodelay)
    BY <1>3, <2>4 DEF strclose
  <2> QED
    BY <1>13, <2>1, <2>2, <2>3, <2>4 DEF Call
<1>14. ASSUME NEW p \in Procs, GoesOn(p) PROVE T
  <2>1. CASE PutData(p) \/ Lpoput(p) \/ QueueIoctl(p)
    BY <1>1, <2>1 DEF PutData, Lpoput, QueueIoctl, T
  <2>2. CASE WriteOn(p)
    BY <1>1, <1>3, <2>2 DEF WriteOn, T
  <2>3. CASE Lpputioc(p)
    BY <1>1, <1>4, <2>3 DEF Lpputioc, T
  <2>4. CASE IocOn(p)
    BY <1>5, <2>4 DEF IocOn
  <2>5. CASE CloseRun(p) \/ ResumeWrite(p) \/ ResumeClose(p) \/ InterruptedClose(p)
    BY <1>3, <2>5 DEF CloseRun, ResumeWrite, ResumeClose, InterruptedClose
  <2>6. CASE ResumeIoctl(p)
    <3>1. At(p, "ioctl", "iocwait") => In(p, "iocwait")
      BY <2>6 DEF ResumeIoctl, At, In
    <3> QED
      BY <1>5, <1>6, <1>7, <1>8, <2>6, <3>1 DEF ResumeIoctl
  <2>7. CASE InterruptedWrite(p)
    BY <1>1, <2>7 DEF InterruptedWrite, T, HeadRecord
  <2>8. CASE InterruptedIoctl(p)
    <3>1. At(p, "ioctl", "iocwait") => In(p, "iocwait")
      BY <2>8 DEF InterruptedIoctl, Interrupted, At, In
    <3> QED
      BY <1>5, <1>8, <2>8, <3>1 DEF InterruptedIoctl
  <2> QED
    BY <1>14, <2>1, <2>2, <2>3, <2>4, <2>5, <2>6, <2>7, <2>8 DEF GoesOn
<1>15. CASE (\E p \in Procs : CopyFails(p)) \/ (\E p \in Signalled : Signal(p))
  BY <1>1, <1>15 DEF CopyFails, Signal, T
<1> QED
  BY <1>9, <1>10, <1>11, <1>12, <1>13, <1>14, <1>15 DEF Next, T

\* What a step leaves of the queue and of its messages.
QueueKept == q' \in Queues(Messages) /\ CountOK(q') /\ \A m \in Members(q'.msgs) : Size(m)

LEMMA QueueParts ==
  ASSUME LpInv
  PROVE  /\ q' = q \/ q' = [q EXCEPT !.QWANTW = TRUE] \/ q' = NewQueue \/ q' = Left(q) => QueueKept
         /\ \A m \in Messages : Size(m) /\ (q' = putq(q, m) \/ q' = putbq(q, m)) => QueueKept
<1>1. q \in Queues(Messages) /\ CountOK(q) /\ \A m \in Members(q.msgs) : Size(m)
  BY DEF LpInv, TypeOK, QueueOK, Queued
<1>2. CASE q' = q
  BY <1>1, <1>2 DEF QueueKept
<1>3. CASE q' = [q EXCEPT !.QWANTW = TRUE]
  <2>1. q' \in Queues(Messages) /\ q'.msgs = q.msgs /\ q'.count = q.count /\ q'.QFULL = q.QFULL
    BY <1>1, <1>3 DEF Queues
  <2> QED
    BY <1>1, <2>1 DEF QueueKept, CountOK
<1>4. CASE q' = NewQueue
  <2>1. q' \in Queues(Messages) /\ q'.msgs = <<>> /\ q'.count = 0 /\ q'.QFULL = FALSE
    BY <1>4 DEF Queues, NewQueue
  <2>2. (0 >= hiwat) = FALSE
    BY MarksAssumption
  <2> QED
    <3>1. CountOK(q')
      BY <2>1, <2>2, BytesEmpty DEF CountOK
    <3>2. Members(q'.msgs) = {}
      BY <2>1 DEF Members
    <3> QED
      BY <2>1, <3>1, <3>2 DEF QueueKept
<1>5. CASE q' = Left(q)
  <2>1. q' \in Queues(Messages) /\ CountOK(q')
    BY <1>1, <1>5, LeftFacts
  <2>2. Members(q'.msgs) \subseteq Members(q.msgs)
    <3>1. CASE Empty(q)
      BY <1>1, <1>5, <3>1, LeftFacts DEF Members
    <3>2. CASE ~Empty(q)
      BY <1>1, <1>5, <3>2, LeftFacts
    <3> QED
      BY <3>1, <3>2
  <2> QED
    BY <1>1, <2>1, <2>2 DEF QueueKept
<1>6. ASSUME NEW m \in Messages, Size(m), q' = putq(q, m) \/ q' = putbq(q, m) PROVE QueueKept
  BY <1>1, <1>6, PutFacts DEF QueueKept
<1> QED
  BY <1>2, <1>3, <1>4, <1>5, <1>6

\* The messages that are queued.
LEMMA MessageFacts ==
  ASSUME LpInv, NEW p \in Procs
  PROVE  /\ \A n \in 1 .. rmax : Data(p, n) \in Messages /\ Size(Data(p, n)) /\ IsRequest(Data(p, n)) = 0
         /\ pr[p].pc # "user" /\ pr[p].call = "ioctl" =>
              /\ Ioctl(p) \in Messages /\ Size(Ioctl(p)) /\ IsRequest(Ioctl(p)) = 1
              /\ Ioctl(p).type \in {"drain", "set"} /\ pr[p].cmd = Ioctl(p).type
<1>1. "data" \notin Cmds /\ Cmds \subseteq {"drain", "set"}
  BY LpAssumption DEF Cmds
<1>2. \A n \in 1 .. rmax : Data(p, n) \in Messages /\ Size(Data(p, n)) /\ IsRequest(Data(p, n)) = 0
  BY LpAssumption DEF Data, Messages, Size, IsRequest
<1>3. ASSUME pr[p].pc # "user", pr[p].call = "ioctl"
      PROVE  /\ Ioctl(p) \in Messages /\ Size(Ioctl(p)) /\ IsRequest(Ioctl(p)) = 1
             /\ Ioctl(p).type \in {"drain", "set"} /\ pr[p].cmd = Ioctl(p).type
  <2>1. pr[p].cmd \in Cmds
    BY <1>3 DEF LpInv, ProcOK, CallOK
  <2>2. sd.iocid \in IocIds \cup {0}
    BY DEF LpInv, TypeOK, HeadRecord
  <2> QED
    BY <1>1, <2>1, <2>2, LpAssumption DEF Ioctl, Messages, Size, IsRequest
<1> QED
  BY <1>2, <1>3

\* The data message that PutData() queues.
LEMMA DataFacts ==
  ASSUME LpInv, NEW p \in Procs
  PROVE  LET m == IF pr[p].n < rmax THEN pr[p].n ELSE rmax
         IN m \in 0 .. rmax /\ pr[p].n - m \in Nat /\ (m # 0 => m \in 1 .. rmax)
<1>1. pr[p].n \in Nat
  BY DEF LpInv, TypeOK, ProcRecord
<1> QED
  BY <1>1, LpAssumption

LEMMA QueueStep ==
  ASSUME LpInv, Next PROVE QueueKept
<1>1. q' = q \/ q' = [q EXCEPT !.QWANTW = TRUE] \/ q' = NewQueue \/ q' = Left(q) => QueueKept
  BY QueueParts
<1>2. \A m \in Messages : Size(m) /\ (q' = putq(q, m) \/ q' = putbq(q, m)) => QueueKept
  BY QueueParts
<1>3. \A p \in Procs : \A r : \A t : Canput(p, r) \/ CloseOn(p, r) \/ CloseWait(p, r, t) \/ Lpclose(p) \/ Detach(p)
        => QueueKept
  BY <1>1 DEF Canput, CloseOn, CloseWait, Lpclose, Detach
<1>4. CASE Driver
  BY <1>1, <1>4 DEF Driver, LpgetoblkNext, LpgetoblkEnd, queuerun, strwsrv
<1>5. CASE Device \/ LoseInterrupt \/ Timers
  BY <1>1, <1>5 DEF Device, lpintr, lptmout, LoseInterrupt, Timers, str2time, str3time, strtime
<1>6. CASE \E S \in SUBSET Procs : stropen(S)
  BY <1>1, <1>6 DEF stropen
<1>7. ASSUME NEW p \in Procs, Call(p) PROVE QueueKept
  BY <1>1, <1>3, <1>7 DEF Call, strwrite, strdoioctl, closef, strclose
<1>8. ASSUME NEW p \in Procs, GoesOn(p) PROVE QueueKept
  <2>1. CASE PutData(p)
    <3> DEFINE m == IF pr[p].n < rmax THEN pr[p].n ELSE rmax
    <3>1. q' = IF m = 0 THEN q ELSE putq(q, Data(p, m))
      BY <2>1 DEF PutData
    <3>2. m # 0 => Data(p, m) \in Messages /\ Size(Data(p, m))
      BY DataFacts, MessageFacts
    <3> QED
      BY <1>1, <1>2, <3>1, <3>2
  <2>2. CASE QueueIoctl(p)
    <3>1. pr[p].pc # "user" /\ pr[p].call = "ioctl"
      BY <2>2 DEF QueueIoctl, Doing, LpInv, ProcOK, CallOK
    <3> QED
      BY <1>2, <2>2, <3>1, MessageFacts DEF QueueIoctl
  <2>3. CASE Lpoput(p) \/ Lpputioc(p) \/ IocOn(p) \/ ResumeIoctl(p) \/ InterruptedWrite(p) \/ InterruptedIoctl(p)
    BY <1>1, <2>3 DEF Lpoput, Lpputioc, IocOn, ResumeIoctl, InterruptedWrite, InterruptedIoctl
  <2>4. CASE WriteOn(p) \/ CloseRun(p) \/ ResumeWrite(p) \/ ResumeClose(p) \/ InterruptedClose(p)
    BY <1>1, <1>3, <2>4 DEF WriteOn, CloseRun, ResumeWrite, ResumeClose, InterruptedClose
  <2> QED
    BY <1>8, <2>1, <2>2, <2>3, <2>4 DEF GoesOn
<1>9. CASE (\E p \in Procs : CopyFails(p)) \/ (\E p \in Signalled : Signal(p))
  BY <1>1, <1>9 DEF CopyFails, Signal
<1> QED
  BY <1>4, <1>5, <1>6, <1>7, <1>8, <1>9 DEF Next

\* The first message of the queue.
LEMMA FirstFacts ==
  ASSUME LpInv, ~Empty(q)
  PROVE  Head(q.msgs) \in Messages /\ Head(q.msgs) \in Queued /\ Size(Head(q.msgs))
<1>1. q.msgs \in Seq(Messages) /\ q.msgs # <<>>
  BY DEF LpInv, TypeOK, Queues, Empty
<1>2. Head(q.msgs) \in Messages /\ Head(q.msgs) = q.msgs[1] /\ 1 \in DOMAIN q.msgs
  <2>1. Head(q.msgs) \in Messages /\ Head(q.msgs) = q.msgs[1] /\ Len(q.msgs) \in Nat /\ Len(q.msgs) # 0
    BY <1>1, HeadTailProperties, LenProperties
  <2>2. 1 \in 1 .. Len(q.msgs)
    BY <2>1
  <2> QED
    BY <1>1, <2>1, <2>2, LenProperties
<1>3. Head(q.msgs) \in Queued
  BY <1>2 DEF Queued, Members
<1> QED
  BY <1>2, <1>3 DEF LpInv, QueueOK

\* The printer.
PrinterKept ==
  /\ tp' \in TtyRecord /\ dev' \in DevRecord
  /\ tp'.BUSY => tp'.bu_bp.from \in Procs
  /\ ~tp'.BUSY => tp'.bu_bp = NoBlock /\ dev'.irqs < MaxIrqs
  /\ tp'.BUSY => Unattended \/ dev'.irqs > 0 \/ (dev'.armed /\ dev'.lptmrun)

LEMMA OutbFacts ==
  ASSUME NEW d \in DevRecord, d.irqs < MaxIrqs
  PROVE  outb(d) \in DevRecord /\ outb(d).irqs > 0
<1>1. d.irqs \in 0 .. MaxIrqs /\ d.irqs + 1 \in 0 .. MaxIrqs /\ d.irqs + 1 > 0
  BY LpAssumption DEF DevRecord
<1>2. PICK n : n = d.irqs + 1
  OBVIOUS
<1>3. outb(d) = [d EXCEPT !.irqs = n, !.armed = TRUE]
  BY <1>2 DEF outb
<1>4. n \in 0 .. MaxIrqs /\ n > 0
  BY <1>1, <1>2
<1>5. [d EXCEPT !.irqs = n, !.armed = TRUE] \in DevRecord /\ [d EXCEPT !.irqs = n, !.armed = TRUE].irqs = n
  BY <1>4 DEF DevRecord
<1> QED
  BY <1>3, <1>4, <1>5

LEMMA PrinterStep ==
  ASSUME LpInv, Next PROVE PrinterKept
<1>1. /\ tp \in TtyRecord /\ dev \in DevRecord
      /\ tp.BUSY => tp.bu_bp.from \in Procs
      /\ ~tp.BUSY => tp.bu_bp = NoBlock /\ dev.irqs < MaxIrqs
      /\ tp.BUSY => Unattended \/ dev.irqs > 0 \/ (dev.armed /\ dev.lptmrun)
  BY DEF LpInv, TypeOK, PrinterOK
<1>2. MaxIrqs \in Nat \ {0} /\ NoProc \notin Procs
  BY LpAssumption
<1>3. NoBlock \in [from : Procs \cup {NoProc}, left : Nat]
  BY DEF NoBlock
<1>4. UNCHANGED <<tp, dev>> => PrinterKept
  BY <1>1 DEF PrinterKept
<1>5. \A b \in BOOLEAN : tp' = [tp EXCEPT !.TTIOW = b] /\ UNCHANGED dev => PrinterKept
  BY <1>1 DEF PrinterKept, TtyRecord
<1>6. \A p \in Procs : Detach(p) => PrinterKept
  <2> SUFFICES ASSUME NEW p \in Procs, Detach(p) PROVE PrinterKept
    OBVIOUS
  <2>1. tp' = [tp EXCEPT !.ISOPEN = FALSE, !.TTIOW = FALSE] /\ dev' = [dev EXCEPT !.lptmrun = FALSE]
        /\ (Unattended \/ ~(tp.BUSY /\ dev.irqs = 0))
    BY DEF Detach
  <2>2. tp' \in TtyRecord /\ tp'.BUSY = tp.BUSY /\ tp'.bu_bp = tp.bu_bp
    BY <1>1, <2>1 DEF TtyRecord
  <2>3. dev' \in DevRecord /\ dev'.irqs = dev.irqs /\ dev.irqs \in 0 .. MaxIrqs
    BY <1>1, <2>1 DEF DevRecord
  <2> QED
    BY <1>1, <1>2, <2>1, <2>2, <2>3 DEF PrinterKept
<1>7. \A p \in Procs : \A r : \A t : Canput(p, r) \/ CloseOn(p, r) \/ CloseWait(p, r, t) \/ Lpclose(p)
        => PrinterKept
  BY <1>4, <1>5, <1>6 DEF Canput, CloseOn, CloseWait, Lpclose
<1>8. ASSUME NEW d \in DevRecord, lpxintr(d), d.irqs < MaxIrqs \/ (~tp.BUSY /\ d.irqs < MaxIrqs)
      PROVE  PrinterKept
  <2>1. CASE tp.BUSY /\ tp.bu_bp.left > 0
    <3>1. tp' = [tp EXCEPT !.bu_bp.left = @ - 1] /\ dev' = outb([d EXCEPT !.armed = FALSE])
      BY <1>8, <2>1 DEF lpxintr
    <3>2. tp' \in TtyRecord /\ tp'.bu_bp.from = tp.bu_bp.from /\ tp'.BUSY
      BY <1>1, <2>1, <3>1 DEF TtyRecord
    <3>3. [d EXCEPT !.armed = FALSE] \in DevRecord /\ [d EXCEPT !.armed = FALSE].irqs = d.irqs
      BY <1>8 DEF DevRecord
    <3>4. dev' \in DevRecord /\ dev'.irqs > 0
      BY <1>8, <3>1, <3>3, OutbFacts
    <3> QED
      BY <3>4, <1>1, <1>2, <2>1, <3>2, <3>3 DEF PrinterKept
  <2>2. CASE ~(tp.BUSY /\ tp.bu_bp.left > 0)
    <3>1. tp' = (IF tp.BUSY THEN [tp EXCEPT !.BUSY = FALSE, !.bu_bp = NoBlock] ELSE tp)
          /\ dev' = [d EXCEPT !.armed = FALSE]
      BY <1>8, <2>2 DEF lpxintr
    <3>2. tp' \in TtyRecord /\ ~tp'.BUSY /\ tp'.bu_bp = NoBlock
      BY <1>1, <1>3, <3>1 DEF TtyRecord
    <3>3. dev' \in DevRecord /\ dev'.irqs = d.irqs
      BY <1>8, <3>1 DEF DevRecord
    <3> QED
      BY <1>8, <3>2, <3>3 DEF PrinterKept
  <2> QED
    BY <2>1, <2>2
<1>9. CASE Driver
  <2>1. CASE LpgetoblkNext
    <3> DEFINE m == Head(q.msgs)
    <3>1. CASE m.type = "data"
      <4>1. tp' = [tp EXCEPT !.BUSY = TRUE, !.bu_bp = [from |-> m.from, left |-> m.size - 1]]
            /\ dev' = outb(dev) /\ ~tp.BUSY
        BY <2>1, <3>1 DEF LpgetoblkNext
      <4>2. m.from \in Procs /\ m.size - 1 \in Nat
        <5>1. m \in Messages /\ Size(m)
          BY <2>1, FirstFacts DEF LpgetoblkNext
        <5>2. m.size \in 1 .. rmax
          BY <3>1, <5>1 DEF Size
        <5> QED
          BY <5>1, <5>2 DEF Messages
      <4> HIDE DEF m
      <4>3. [from |-> m.from, left |-> m.size - 1] \in [from : Procs \cup {NoProc}, left : Nat]
        BY <4>2
      <4>4. tp' \in TtyRecord /\ tp'.BUSY /\ tp'.bu_bp.from \in Procs
        BY <1>1, <4>1, <4>2, <4>3 DEF TtyRecord
      <4>5. dev' \in DevRecord /\ dev'.irqs > 0
        BY <1>1, <4>1, OutbFacts
      <4> QED
        BY <4>4, <4>5 DEF PrinterKept
    <3>2. CASE m.type # "data"
      BY <1>4, <2>1, <3>2 DEF LpgetoblkNext
    <3> QED
      BY <3>1, <3>2
  <2>2. CASE LpgetoblkEnd
    BY <1>4, <1>5, <2>2 DEF LpgetoblkEnd
  <2>3. CASE queuerun \/ strwsrv
    BY <1>4, <2>3 DEF queuerun, strwsrv
  <2> QED
    BY <1>9, <2>1, <2>2, <2>3 DEF Driver
<1>10. CASE lpintr
  <2>1. [dev EXCEPT !.irqs = @ - 1] \in DevRecord /\ [dev EXCEPT !.irqs = @ - 1].irqs < MaxIrqs
    BY <1>1, <1>2, <1>10 DEF lpintr, DevRecord
  <2> QED
    BY <1>8, <1>10, <2>1 DEF lpintr
<1>11. CASE lptmout
  BY <1>1, <1>8, <1>11 DEF lptmout
<1>12. CASE LoseInterrupt
  <2>1. dev' = [dev EXCEPT !.irqs = @ - 1] /\ dev.irqs > 0 /\ UNCHANGED tp
        /\ (Unattended \/ (dev.armed /\ dev.lptmrun))
    BY <1>12 DEF LoseInterrupt
  <2>2. dev' \in DevRecord /\ dev'.irqs < MaxIrqs /\ dev'.armed = dev.armed /\ dev'.lptmrun = dev.lptmrun
    BY <1>1, <1>2, <2>1 DEF DevRecord
  <2> QED
    BY <1>1, <2>1, <2>2 DEF PrinterKept
<1>13. CASE Timers
  BY <1>4, <1>13 DEF Timers, str2time, str3time, strtime
<1>14. ASSUME NEW S \in SUBSET Procs, stropen(S) PROVE PrinterKept
  <2>1. tp' = [tp EXCEPT !.ISOPEN = TRUE]
        /\ dev' = IF dev.lptmrun THEN dev ELSE [dev EXCEPT !.armed = FALSE, !.lptmrun = TRUE]
    BY <1>14 DEF stropen
  <2>2. tp' \in TtyRecord /\ tp'.BUSY = tp.BUSY /\ tp'.bu_bp = tp.bu_bp
    BY <1>1, <2>1 DEF TtyRecord
  <2>3. dev' \in DevRecord /\ dev'.irqs = dev.irqs /\ (dev.lptmrun => dev' = dev)
    BY <1>1, <2>1 DEF DevRecord
  <2> QED
    BY <1>1, <2>2, <2>3 DEF PrinterKept
<1>15. ASSUME NEW p \in Procs, Call(p) PROVE PrinterKept
  BY <1>4, <1>7, <1>15 DEF Call, strwrite, strdoioctl, closef, strclose
<1>16. ASSUME NEW p \in Procs, GoesOn(p) PROVE PrinterKept
  BY <1>4, <1>6, <1>7, <1>16 DEF GoesOn, PutData, Lpoput, WriteOn, Lpputioc, QueueIoctl, IocOn, CloseRun,
     ResumeWrite, ResumeClose, ResumeIoctl, InterruptedWrite, InterruptedClose, InterruptedIoctl
<1>17. CASE (\E p \in Procs : CopyFails(p)) \/ (\E p \in Signalled : Signal(p))
  BY <1>4, <1>17 DEF CopyFails, Signal
<1> QED
  BY <1>9, <1>10, <1>11, <1>12, <1>13, <1>14, <1>15, <1>16, <1>17 DEF Next, Device

-----------------------------------------------------------------------------
(***************************************************************************)
(* Processes: a step moves one of them, or signals it, and may wake others.*)
(***************************************************************************)
Woken(x, y) == y = x \/ (x.pc = "asleep" /\ y = [x EXCEPT !.pc = "woken"])

Others(p, r) ==
  /\ pr' \in [Procs -> ProcRecord] /\ r \in ProcRecord
  /\ \A a \in Procs : Woken(IF a = p THEN r ELSE pr[a], pr'[a])

May(p, r) == r.pc # "user" => p \in users /\ (r.call = "close" => users = {p})

Moved(p, r) ==
  /\ Others(p, r) /\ CallOK(r) /\ May(p, r)
  /\ cur \in {p, NoProc}
  /\ cur' = IF r.pc \in Running THEN p ELSE NoProc

Same == pr' \in [Procs -> ProcRecord] /\ (\A a \in Procs : Woken(pr[a], pr'[a])) /\ cur' = cur

LEMMA WokenFacts ==
  ASSUME NEW x \in ProcRecord, NEW y, Woken(x, y)
  PROVE  /\ y \in ProcRecord /\ (CallOK(x) => CallOK(y))
         /\ y.call = x.call /\ y.cmd = x.cmd /\ y.chan = x.chan
         /\ (y.pc \in Running) = (x.pc \in Running) /\ (y.pc \in Waiting) = (x.pc \in Waiting)
         /\ (y.pc \notin Waiting => y = x)
         /\ (y.pc = "user") = (x.pc = "user") /\ (y.pc = "copy") = (x.pc = "copy")
         /\ (y.pc \in {"ioctl", "queue"}) = (x.pc \in {"ioctl", "queue"})
         /\ (y.pc \in {"getblk", "run"}) = (x.pc \in {"getblk", "run"})
         /\ (y.pc = "asleep" => y = x)
BY DEF Woken, ProcRecord, CallOK, Running, Waiting

LEMMA WakeWakes ==
  ASSUME NEW f \in [Procs -> ProcRecord], NEW c, NEW p \in Procs
  PROVE  Woken(f[p], wakeprocs(f, c)[p])
BY DEF wakeprocs, Woken

LEMMA OthersFacts ==
  ASSUME LpInv, NEW p \in Procs, NEW r \in ProcRecord
  PROVE  /\ pr' = [pr EXCEPT ![p] = r] => Others(p, r)
         /\ \A c : pr' = wakeprocs([pr EXCEPT ![p] = r], c) => Others(p, r)
<1>1. pr \in [Procs -> ProcRecord]
  BY DEF LpInv, TypeOK
<1>2. /\ [pr EXCEPT ![p] = r] \in [Procs -> ProcRecord]
      /\ \A a \in Procs : [pr EXCEPT ![p] = r][a] = IF a = p THEN r ELSE pr[a]
  BY <1>1
<1>3. ASSUME pr' = [pr EXCEPT ![p] = r] PROVE Others(p, r)
  BY <1>2, <1>3 DEF Others, Woken
<1>4. ASSUME NEW c, pr' = wakeprocs([pr EXCEPT ![p] = r], c) PROVE Others(p, r)
  BY <1>2, <1>4, WakeFacts, WakeWakes DEF Others
<1> QED
  BY <1>3, <1>4

LEMMA SameFacts ==
  ASSUME LpInv, cur' = cur, pr' = pr \/ \E c : pr' = wakeprocs(pr, c)
  PROVE  Same
<1>1. pr \in [Procs -> ProcRecord]
  BY DEF LpInv, TypeOK
<1> QED
  BY <1>1, WakeFacts, WakeWakes DEF Same, Woken

(* What is kept of the processes.                                          *)
ProcKept ==
  /\ pr' \in [Procs -> ProcRecord] /\ cur' \in Procs \cup {NoProc}
  /\ CurOK' /\ \A p \in Procs : CallOK(pr'[p])
  /\ \A p \in Procs : pr'[p].pc # "user" => p \in users' /\ (pr'[p].call = "close" => users' = {p})

LEMMA SameKeeps ==
  ASSUME LpInv, Same, UNCHANGED users PROVE ProcKept
<1>1. pr \in [Procs -> ProcRecord] /\ cur \in Procs \cup {NoProc}
  BY DEF LpInv, TypeOK
<1>2. \A a \in Procs : /\ (pr'[a].pc \in Running) = (pr[a].pc \in Running)
                       /\ (pr'[a].pc = "user") = (pr[a].pc = "user") /\ pr'[a].call = pr[a].call
                       /\ CallOK(pr'[a])
  BY <1>1, WokenFacts DEF Same, LpInv, ProcOK
<1>3. CurOK'
  BY <1>1, <1>2 DEF Same, LpInv, ProcOK, CurOK
<1> QED
  BY <1>1, <1>2, <1>3 DEF Same, ProcKept, LpInv, ProcOK, UsersOK

LEMMA MovedKeeps ==
  ASSUME LpInv, NEW p \in Procs, NEW r, Moved(p, r), UNCHANGED users PROVE ProcKept
<1>1. pr \in [Procs -> ProcRecord] /\ cur \in Procs \cup {NoProc} /\ r \in ProcRecord /\ NoProc \notin Procs
  BY LpAssumption DEF LpInv, TypeOK, Moved, Others
<1>2. \A a \in Procs : LET x == IF a = p THEN r ELSE pr[a]
                       IN /\ (pr'[a].pc \in Running) = (x.pc \in Running)
                          /\ (pr'[a].pc = "user") = (x.pc = "user") /\ pr'[a].call = x.call
                          /\ CallOK(pr'[a])
  BY <1>1, WokenFacts DEF Moved, Others, LpInv, ProcOK
<1>3. CurOK'
  <2>1. \A a \in Procs : a # p => pr[a].pc \notin Running
    BY <1>1 DEF Moved, LpInv, ProcOK, CurOK
  <2> QED
    BY <1>1, <1>2, <2>1 DEF Moved, CurOK
<1>4. \A a \in Procs : pr'[a].pc # "user" => a \in users' /\ (pr'[a].call = "close" => users' = {a})
  BY <1>1, <1>2 DEF Moved, May, LpInv, ProcOK, UsersOK
<1> QED
  BY <1>1, <1>2, <1>3, <1>4 DEF Moved, Others, ProcKept

\* p moves to r.
LEMMA MovesTo ==
  ASSUME LpInv, NEW p \in Procs, NEW r \in ProcRecord, CallOK(r), May(p, r), cur \in {p, NoProc},
         cur' = IF r.pc \in Running THEN p ELSE NoProc,
         \/ pr' = [pr EXCEPT ![p] = r]
         \/ r.pc # "asleep" /\ \E c : pr' = wakeprocs([pr EXCEPT ![p] = r], c)
  PROVE  Moved(p, pr'[p]) /\ pr'[p] = r
<1>1. pr \in [Procs -> ProcRecord]
  BY DEF LpInv, TypeOK
<1>2. [pr EXCEPT ![p] = r] \in [Procs -> ProcRecord] /\ [pr EXCEPT ![p] = r][p] = r
  BY <1>1
<1>3. Others(p, r)
  BY OthersFacts
<1>4. pr'[p] = r
  <2>1. ASSUME NEW c, pr' = wakeprocs([pr EXCEPT ![p] = r], c), r.pc # "asleep" PROVE pr'[p] = r
    BY <1>2, <2>1 DEF wakeprocs
  <2> QED
    BY <1>2, <2>1
<1> QED
  BY <1>3, <1>4 DEF Moved

\* p sleeps, goes on, or returns to the user.
LEMMA SleepMoves ==
  ASSUME LpInv, NEW p \in Procs, NEW r \in ProcRecord, NEW c \in Chans, Sleep(p, r, c),
         CallOK([r EXCEPT !.pc = "asleep", !.chan = c]),
         p \in users, r.call = "close" => users = {p}, cur \in {p, NoProc}
  PROVE  Moved(p, pr'[p]) /\ pr'[p] = [r EXCEPT !.pc = "asleep", !.chan = c] /\ cur' = NoProc
         /\ pr'[p].pc = "asleep" /\ pr'[p].chan = c /\ pr'[p].call = r.call
<1> DEFINE s == [r EXCEPT !.pc = "asleep", !.chan = c]
<1>1. s \in ProcRecord /\ s.pc = "asleep" /\ s.chan = c /\ s.call = r.call
  BY DEF ProcRecord
<1>2. pr' = [pr EXCEPT ![p] = s] /\ cur' = NoProc /\ s.pc \notin Running
  BY <1>1 DEF Sleep, Running
<1> HIDE DEF s
<1>3. CallOK(s) /\ May(p, s)
  BY <1>1 DEF May, s
<1>4. Moved(p, pr'[p]) /\ pr'[p] = s
  BY <1>1, <1>2, <1>3, MovesTo
<1> QED
  BY <1>1, <1>2, <1>4 DEF s

LEMMA GoOnMoves ==
  ASSUME LpInv, NEW p \in Procs, NEW r \in ProcRecord, NEW pc \in Running, GoOn(p, r, pc),
         CallOK([r EXCEPT !.pc = pc, !.chan = Idle.chan]),
         p \in users, r.call = "close" => users = {p}, cur \in {p, NoProc}
  PROVE  Moved(p, pr'[p]) /\ pr'[p] = [r EXCEPT !.pc = pc, !.chan = Idle.chan] /\ cur' = p
         /\ pr'[p].pc = pc /\ pr'[p].call = r.call
<1> DEFINE s == [r EXCEPT !.pc = pc, !.chan = Idle.chan]
<1>1. s \in ProcRecord /\ s.pc = pc /\ s.call = r.call
  BY DEF ProcRecord, Running, Idle, Chans
<1>2. pr' = [pr EXCEPT ![p] = s] /\ cur' = p /\ s.pc \in Running
  BY <1>1 DEF GoOn
<1> HIDE DEF s
<1>3. CallOK(s) /\ May(p, s)
  BY <1>1 DEF May, s
<1>4. Moved(p, pr'[p]) /\ pr'[p] = s
  BY <1>1, <1>2, <1>3, MovesTo
<1> QED
  BY <1>1, <1>2, <1>4 DEF s

LEMMA ReturnMoves ==
  ASSUME LpInv, NEW p \in Procs, pr' = Returned(p) \/ \E c : pr' = wakeprocs(Returned(p), c),
         cur \in {p, NoProc}, cur' = NoProc
  PROVE  Moved(p, pr'[p]) /\ pr'[p] = Idle
<1>1. Idle.pc = "user" /\ Idle.pc \notin Running /\ May(p, Idle)
  BY DEF Idle, Running, May
<1> QED
  BY <1>1, IdleFacts, MovesTo DEF Returned

\* canput().
LEMMA CanputMoves ==
  ASSUME LpInv, NEW p \in Procs, NEW r \in ProcRecord, r.call = "write", p \in users,
         cur \in {p, NoProc}, Canput(p, r)
  PROVE  /\ Moved(p, pr'[p]) /\ cur' = NoProc
         /\ \/ pr'[p].pc = "copy" /\ pr'[p].call = "write" /\ ~q.QFULL /\ UNCHANGED <<q, sd>>
            \/ /\ pr'[p] = Idle /\ q.QFULL /\ q' = [q EXCEPT !.QWANTW = TRUE] /\ UNCHANGED sd
            \/ /\ pr'[p].pc = "asleep" /\ pr'[p].chan = "wrq" /\ pr'[p].call = "write" /\ q.QFULL
               /\ q' = [q EXCEPT !.QWANTW = TRUE] /\ sd' = [sd EXCEPT !.WSLEEP = TRUE]
<1>1. CASE ~q.QFULL
  <2> DEFINE s == [r EXCEPT !.pc = "copy"]
  <2>1. s \in ProcRecord /\ s.pc = "copy" /\ s.call = "write" /\ CallOK(s) /\ May(p, s)
    BY DEF ProcRecord, CallOK, May, Waiting
  <2>2. pr' = [pr EXCEPT ![p] = s] /\ cur' = NoProc /\ UNCHANGED <<q, sd>>
    BY <1>1 DEF Canput
  <2> HIDE DEF s
  <2>3. Moved(p, pr'[p]) /\ pr'[p] = s
    BY <2>1, <2>2, MovesTo DEF Running
  <2> QED
    BY <1>1, <2>1, <2>2, <2>3
<1>2. CASE q.QFULL /\ r.nodelay
  <2>1. pr' = Returned(p) /\ cur' = NoProc /\ q' = [q EXCEPT !.QWANTW = TRUE] /\ UNCHANGED sd
    BY <1>2 DEF Canput
  <2> QED
    BY <1>2, <2>1, ReturnMoves
<1>3. CASE q.QFULL /\ ~r.nodelay
  <2>1. Sleep(p, r, "wrq") /\ q' = [q EXCEPT !.QWANTW = TRUE] /\ sd' = [sd EXCEPT !.WSLEEP = TRUE]
    BY <1>3 DEF Canput
  <2>2. CallOK([r EXCEPT !.pc = "asleep", !.chan = "wrq"]) /\ "wrq" \in Chans
    BY DEF CallOK, ProcRecord, Waiting, Chans
  <2> QED
    BY <1>3, <2>1, <2>2, SleepMoves
<1> QED
  BY <1>1, <1>2, <1>3

\* The wait for the ioctl mechanism.
LEMMA IocWaitMoves ==
  ASSUME LpInv, NEW p \in Procs, NEW r \in ProcRecord, r.call = "ioctl", r.cmd \in Cmds, p \in users,
         cur \in {p, NoProc}, NEW h \in HeadRecord, NEW U, IocWait(p, r, h, U)
  PROVE  /\ Moved(p, pr'[p]) /\ pr'[p].call = "ioctl"
         /\ \/ /\ h.IOCWAIT /\ pr'[p].pc = "asleep" /\ pr'[p].chan = "iocwait"
               /\ sd' = [h EXCEPT !.iocwait = @ + 1]
            \/ /\ ~h.IOCWAIT /\ pr'[p].pc = "ioctl"
               /\ \E i \in IocIds \ InFlight :
                    sd' = [h EXCEPT !.IOCWAIT = TRUE, !.iocblk = FALSE,
                                    !.STR2TIME = @ /\ h.iocwait # 0, !.iocid = i]
<1>1. CASE h.IOCWAIT
  <2>1. Sleep(p, r, "iocwait") /\ sd' = [h EXCEPT !.iocwait = @ + 1]
    BY <1>1 DEF IocWait
  <2>2. CallOK([r EXCEPT !.pc = "asleep", !.chan = "iocwait"]) /\ "iocwait" \in Chans
    BY DEF CallOK, ProcRecord, Waiting, Chans
  <2> QED
    BY ZenonT(40), <1>1, <2>1, <2>2, SleepMoves
<1>2. CASE ~h.IOCWAIT
  <2>1. GoOn(p, r, "ioctl")
    BY <1>2 DEF IocWait
  <2>2. CallOK([r EXCEPT !.pc = "ioctl", !.chan = Idle.chan]) /\ "ioctl" \in Running
    BY DEF CallOK, ProcRecord, Waiting, Running
  <2>3. \E i \in IocIds \ InFlight :
          sd' = [h EXCEPT !.IOCWAIT = TRUE, !.iocblk = FALSE, !.STR2TIME = @ /\ h.iocwait # 0, !.iocid = i]
    <3>1. (CHOOSE i \in IocIds \ InFlight : TRUE) \in IocIds \ InFlight
      BY <1>2 DEF IocWait
    <3> QED
      BY <1>2, <3>1 DEF IocWait
  <2> QED
    BY <1>2, <2>1, <2>2, <2>3, GoOnMoves
<1> QED
  BY <1>1, <1>2

\* The wait for the reply, and the ends of an ioctl().
LEMMA ReplyMoves ==
  ASSUME LpInv, NEW p \in Procs, pr[p].pc # "user", pr[p].call = "ioctl", cur \in {p, NoProc}
  PROVE  /\ IocEnd(p) => Moved(p, pr'[p]) /\ pr'[p] = Idle
         /\ IocLeave(p) /\ cur = NoProc => Moved(p, pr'[p]) /\ pr'[p] = Idle
         /\ ReplyWait(p) => \/ sd.iocblk /\ IocEnd(p)
                            \/ /\ ~sd.iocblk /\ Moved(p, pr'[p]) /\ pr'[p].pc = "asleep"
                               /\ pr'[p].chan = "ioc" /\ pr'[p].call = "ioctl" /\ cur' = NoProc
                               /\ pr' = [pr EXCEPT ![p] = pr'[p]]
                               /\ sd' = [sd EXCEPT !.STR3TIME = TRUE]
<1>1. pr \in [Procs -> ProcRecord] /\ pr[p] \in ProcRecord /\ p \in users /\ pr[p].cmd \in Cmds
  BY DEF LpInv, TypeOK, ProcOK, UsersOK, CallOK
<1>2. IocEnd(p) => Moved(p, pr'[p]) /\ pr'[p] = Idle
  BY ReturnMoves DEF IocEnd
<1>3. IocLeave(p) /\ cur = NoProc => Moved(p, pr'[p]) /\ pr'[p] = Idle
  BY ReturnMoves DEF IocLeave
<1>4. ASSUME ReplyWait(p), ~sd.iocblk
      PROVE  /\ Moved(p, pr'[p]) /\ pr'[p].pc = "asleep" /\ pr'[p].chan = "ioc" /\ pr'[p].call = "ioctl"
             /\ cur' = NoProc /\ pr' = [pr EXCEPT ![p] = pr'[p]]
             /\ sd' = [sd EXCEPT !.STR3TIME = TRUE]
  <2>1. Sleep(p, pr[p], "ioc") /\ sd' = [sd EXCEPT !.STR3TIME = TRUE]
    BY <1>4 DEF ReplyWait
  <2>2. CallOK([pr[p] EXCEPT !.pc = "asleep", !.chan = "ioc"]) /\ "ioc" \in Chans
    BY <1>1 DEF CallOK, ProcRecord, Waiting, Chans
  <2>3. /\ Moved(p, pr'[p]) /\ cur' = NoProc /\ pr'[p] = [pr[p] EXCEPT !.pc = "asleep", !.chan = "ioc"]
        /\ pr'[p].pc = "asleep" /\ pr'[p].chan = "ioc" /\ pr'[p].call = pr[p].call
    BY <1>1, <2>1, <2>2, SleepMoves
  <2>4. pr' = [pr EXCEPT ![p] = [pr[p] EXCEPT !.pc = "asleep", !.chan = "ioc"]]
    BY <2>1 DEF Sleep
  <2> QED
    BY <2>1, <2>3, <2>4
<1>5. ReplyWait(p) /\ sd.iocblk => IocEnd(p)
  BY DEF ReplyWait
<1> QED
  BY <1>2, <1>3, <1>4, <1>5

\* The stages of a close.
LEMMA CloseMoves ==
  ASSUME LpInv, NEW p \in Procs, NEW r \in ProcRecord, r.call = "close", users = {p}, cur \in {p, NoProc}
  PROVE  /\ CloseOn(p, r) => Moved(p, pr'[p]) /\ pr'[p].pc = "run" /\ pr'[p].call = "close"
         /\ \A t : CloseWait(p, r, t) =>
              \/ CloseOn(p, r)
              \/ /\ Moved(p, pr'[p]) /\ pr'[p].pc = "asleep" /\ pr'[p].chan = "wrq" /\ pr'[p].call = "close"
                 /\ q.count # 0 /\ q' = [q EXCEPT !.QWANTW = TRUE]
                 /\ sd' = [sd EXCEPT !.STRTIME = TRUE, !.WSLEEP = TRUE]
         /\ r = pr[p] /\ Lpclose(p) =>
              \/ Detach(p)
              \/ /\ Moved(p, pr'[p]) /\ pr'[p].pc = "asleep" /\ pr'[p].chan = "oflag" /\ pr'[p].call = "close"
                 /\ ~Drained /\ tp' = [tp EXCEPT !.TTIOW = TRUE] /\ UNCHANGED <<q, sd>>
<1>1. ASSUME CloseOn(p, r) PROVE Moved(p, pr'[p]) /\ pr'[p].pc = "run" /\ pr'[p].call = "close"
  <2>1. GoOn(p, r, "run") /\ "run" \in Running
    BY <1>1 DEF CloseOn, Running
  <2>2. CallOK([r EXCEPT !.pc = "run", !.chan = Idle.chan])
    BY DEF CallOK, ProcRecord, Waiting
  <2> QED
    BY <2>1, <2>2, GoOnMoves
<1>2. ASSUME NEW t, CloseWait(p, r, t), ~CloseOn(p, r)
      PROVE  /\ Moved(p, pr'[p]) /\ pr'[p].pc = "asleep" /\ pr'[p].chan = "wrq" /\ pr'[p].call = "close"
             /\ q.count # 0 /\ q' = [q EXCEPT !.QWANTW = TRUE]
             /\ sd' = [sd EXCEPT !.STRTIME = TRUE, !.WSLEEP = TRUE]
  <2>1. /\ Sleep(p, r, "wrq") /\ q.count # 0 /\ q' = [q EXCEPT !.QWANTW = TRUE]
        /\ sd' = [sd EXCEPT !.STRTIME = TRUE, !.WSLEEP = TRUE] /\ "wrq" \in Chans
    BY <1>2 DEF CloseWait, Chans
  <2>2. CallOK([r EXCEPT !.pc = "asleep", !.chan = "wrq"])
    BY DEF CallOK, ProcRecord, Waiting
  <2> QED
    BY ZenonT(40), <2>1, <2>2, SleepMoves
<1>3. ASSUME r = pr[p], Lpclose(p), ~Detach(p)
      PROVE  /\ Moved(p, pr'[p]) /\ pr'[p].pc = "asleep" /\ pr'[p].chan = "oflag" /\ pr'[p].call = "close"
             /\ ~Drained /\ tp' = [tp EXCEPT !.TTIOW = TRUE] /\ UNCHANGED <<q, sd>>
  <2>1. Sleep(p, r, "oflag") /\ ~Drained /\ tp' = [tp EXCEPT !.TTIOW = TRUE] /\ "oflag" \in Chans
        /\ UNCHANGED <<q, sd>>
    BY <1>3 DEF Lpclose, Chans
  <2>2. CallOK([r EXCEPT !.pc = "asleep", !.chan = "oflag"])
    BY DEF CallOK, ProcRecord, Waiting
  <2> QED
    BY ZenonT(40), <2>1, <2>2, SleepMoves
<1> QED
  BY <1>1, <1>2, <1>3

\* A process that goes on, and the data that it queues or the request that it sends.
LEMMA GoesOnFacts ==
  ASSUME LpInv, NEW p \in Procs, GoesOn(p)
  PROVE  /\ pr[p] \in ProcRecord /\ pr[p].pc # "user" /\ p \in users /\ cur \in {p, NoProc}
         /\ pr[p].pc \notin Running => cur = NoProc
         /\ pr[p].pc \in Running => cur = p
         /\ ~serving /\ ~looping /\ CallOK(pr[p])
         /\ pr[p].call = "close" => users = {p}
<1>1. pr[p] \in ProcRecord /\ CallOK(pr[p])
  BY DEF LpInv, TypeOK, ProcOK
<1>2. /\ pr[p].pc # "user" /\ cur \in {p, NoProc} /\ ~serving /\ ~looping
      /\ (cur = p \/ pr[p].pc \notin Running)
  BY DEF GoesOn, PutData, Lpoput, WriteOn, Lpputioc, QueueIoctl, IocOn, CloseRun, ResumeWrite, ResumeClose,
     ResumeIoctl, InterruptedWrite, InterruptedClose, InterruptedIoctl, Interrupted, At, Free, Doing, Running
<1>3. cur = p => pr[p].pc \in Running
  BY LpAssumption DEF LpInv, ProcOK, CurOK
<1> QED
  BY <1>1, <1>2, <1>3 DEF LpInv, ProcOK, UsersOK

LEMMA PutMoves ==
  ASSUME LpInv, NEW p \in Procs
  PROVE  /\ PutData(p) => Moved(p, pr'[p]) /\ pr'[p].pc = "getblk" /\ pr'[p].call = "write" /\ cur' = p
         /\ QueueIoctl(p) => Moved(p, pr'[p]) /\ pr'[p].pc = "getblk" /\ pr'[p].call = "ioctl" /\ cur' = p
         /\ Lpoput(p) => Moved(p, pr'[p]) /\ pr'[p].pc = "run" /\ pr'[p].call = pr[p].call
         /\ CopyFails(p) => Moved(p, pr'[p]) /\ pr'[p] = Idle
<1>1. pr[p] \in ProcRecord /\ CallOK(pr[p])
  BY DEF LpInv, TypeOK, ProcOK
<1>2. ASSUME PutData(p)
      PROVE  Moved(p, pr'[p]) /\ pr'[p].pc = "getblk" /\ pr'[p].call = "write" /\ cur' = p
  <2> DEFINE m == IF pr[p].n < rmax THEN pr[p].n ELSE rmax
             r == [pr[p] EXCEPT !.n = @ - m]
  <2>1. r \in ProcRecord /\ r.call = pr[p].call
    BY <1>1, DataFacts DEF ProcRecord
  <2>2. GoesOn(p) /\ pr[p].pc = "copy" /\ GoOn(p, r, "getblk") /\ "getblk" \in Running
    BY <1>2 DEF PutData, GoesOn, Running
  <2>3. r.call = "write"
    BY <1>1, <2>1, <2>2 DEF CallOK
  <2> HIDE DEF r
  <2>4. CallOK([r EXCEPT !.pc = "getblk", !.chan = Idle.chan])
    BY <2>1, <2>3 DEF CallOK, ProcRecord, Waiting
  <2> QED
    BY <2>1, <2>2, <2>3, <2>4, GoesOnFacts, GoOnMoves
<1>3. ASSUME QueueIoctl(p)
      PROVE  Moved(p, pr'[p]) /\ pr'[p].pc = "getblk" /\ pr'[p].call = "ioctl" /\ cur' = p
  <2>1. GoesOn(p) /\ pr[p].pc = "queue" /\ GoOn(p, pr[p], "getblk") /\ "getblk" \in Running
    BY <1>3 DEF QueueIoctl, Doing, GoesOn, Running
  <2>2. pr[p].call = "ioctl" /\ CallOK([pr[p] EXCEPT !.pc = "getblk", !.chan = Idle.chan])
    BY <1>1, <2>1 DEF CallOK, ProcRecord, Waiting
  <2> QED
    BY <1>1, <2>1, <2>2, GoesOnFacts, GoOnMoves
<1>4. ASSUME Lpoput(p) PROVE Moved(p, pr'[p]) /\ pr'[p].pc = "run" /\ pr'[p].call = pr[p].call
  <2>1. GoesOn(p) /\ pr[p].pc = "getblk" /\ GoOn(p, pr[p], "run") /\ "run" \in Running
    BY <1>4 DEF Lpoput, Doing, GoesOn, Running
  <2>2. CallOK([pr[p] EXCEPT !.pc = "run", !.chan = Idle.chan])
    BY <1>1, <2>1 DEF CallOK, ProcRecord, Waiting
  <2> QED
    BY <1>1, <2>1, <2>2, GoesOnFacts, GoOnMoves
<1>5. ASSUME CopyFails(p) PROVE Moved(p, pr'[p]) /\ pr'[p] = Idle
  BY <1>5, ReturnMoves DEF CopyFails, Free
<1> QED
  BY <1>2, <1>3, <1>4, <1>5

LEMMA LpputiocMoves ==
  ASSUME LpInv, NEW p \in Procs, Lpputioc(p)
  PROVE  /\ Moved(p, pr'[p]) /\ pr'[p].call = "ioctl" /\ cur' = p /\ cur = p
         /\ \/ AtOnce(p) /\ pr'[p].pc = "getblk" /\ Replied(Ioctl(p), [pr EXCEPT ![p].pc = "getblk"])
            \/ ~AtOnce(p) /\ pr'[p].pc = "queue" /\ UNCHANGED sd
<1>1. GoesOn(p) /\ pr[p].pc = "ioctl" /\ cur = p
  BY DEF Lpputioc, Doing, GoesOn
<1>2. pr[p] \in ProcRecord /\ CallOK(pr[p]) /\ pr[p].call = "ioctl" /\ p \in users
  BY <1>1, GoesOnFacts DEF CallOK
<1>3. CASE AtOnce(p)
  <2> DEFINE r == [pr[p] EXCEPT !.pc = "getblk"]
  <2>1. r \in ProcRecord /\ r.pc = "getblk" /\ r.call = "ioctl" /\ r.pc \in Running
    BY <1>2 DEF ProcRecord, Running
  <2>2. CallOK(r) /\ May(p, r)
    BY <1>1, <1>2 DEF CallOK, May, ProcRecord, Waiting
  <2>3. Replied(Ioctl(p), [pr EXCEPT ![p] = r]) /\ cur' = cur
    BY <1>3 DEF Lpputioc
  <2> HIDE DEF r
  <2>4. Moved(p, pr'[p]) /\ pr'[p] = r
    BY <1>1, <2>1, <2>2, <2>3, MovesTo DEF Replied
  <2>5. Replied(Ioctl(p), [pr EXCEPT ![p].pc = "getblk"])
    BY <1>3 DEF Lpputioc
  <2> QED
    BY <1>1, <1>3, <2>1, <2>3, <2>4, <2>5
<1>4. CASE ~AtOnce(p)
  <2>1. GoOn(p, pr[p], "queue") /\ "queue" \in Running /\ UNCHANGED sd
    BY <1>4 DEF Lpputioc, Running
  <2>2. CallOK([pr[p] EXCEPT !.pc = "queue", !.chan = Idle.chan])
    BY <1>1, <1>2 DEF CallOK, ProcRecord, Waiting
  <2> QED
    BY <1>1, <1>2, <1>4, <2>1, <2>2, GoOnMoves
<1> QED
  BY <1>3, <1>4

\* strwrite(), strdoioctl() and strclose() begin.
LEMMA WriteCalls ==
  ASSUME LpInv, NEW p \in Procs, NEW w \in Writes, strwrite(p, w[1], w[2])
  PROVE  \E r \in ProcRecord : r.call = "write" /\ p \in users /\ cur = NoProc /\ Canput(p, r)
<1> DEFINE r == [Idle EXCEPT !.call = "write", !.n = w[1], !.nodelay = w[2]]
<1>1. w[1] \in Nat /\ w[2] \in BOOLEAN
  BY LpAssumption
<1>2. r \in ProcRecord /\ r.call = "write"
  BY <1>1, IdleFacts DEF ProcRecord
<1>3. p \in users /\ cur = NoProc /\ Canput(p, r)
  BY DEF strwrite, Free
<1> HIDE DEF r
<1> QED
  BY <1>2, <1>3

LEMMA IoctlCalls ==
  ASSUME LpInv, NEW p \in Procs, NEW c \in Requests[p], strdoioctl(p, c[1], c[2])
  PROVE  \E r \in ProcRecord, h \in HeadRecord : \E U :
           /\ r.call = "ioctl" /\ r.cmd \in Cmds /\ p \in users /\ cur = NoProc
           /\ h = [sd EXCEPT !.STR2TIME = TRUE] /\ IocWait(p, r, h, U)
<1> DEFINE r == [Idle EXCEPT !.call = "ioctl", !.cmd = c[1], !.timed = c[2]]
           h == [sd EXCEPT !.STR2TIME = TRUE]
<1>1. c[1] \in Cmds /\ c[2] \in BOOLEAN
  <2>1. c \in {"drain", "set"} \X BOOLEAN
    BY LpAssumption
  <2> QED
    BY <2>1 DEF Cmds
<1>2. r \in ProcRecord /\ r.call = "ioctl" /\ r.cmd \in Cmds
  BY <1>1, IdleFacts DEF ProcRecord
<1>3. h \in HeadRecord
  BY DEF HeadRecord, LpInv, TypeOK
<1>4. p \in users /\ cur = NoProc /\ IocWait(p, r, h, timers.str2 \cup {p})
  BY DEF strdoioctl, Free
<1> HIDE DEF r
<1> QED
  BY <1>2, <1>3, <1>4

LEMMA CloseCalls ==
  ASSUME LpInv, NEW p \in Procs, NEW nodelay \in BOOLEAN, strclose(p, nodelay)
  PROVE  \E r \in ProcRecord : \E t :
           r.call = "close" /\ users = {p} /\ cur = NoProc /\ CloseWait(p, r, t)
<1> DEFINE r == [Idle EXCEPT !.call = "close", !.nodelay = nodelay]
<1>1. r \in ProcRecord /\ r.call = "close"
  BY IdleFacts DEF ProcRecord
<1>2. users = {p} /\ cur = NoProc /\ CloseWait(p, r, ~nodelay)
  BY DEF strclose, Free
<1> HIDE DEF r
<1> QED
  BY <1>1, <1>2

\* Each step moves one process at most.
OneMoves ==
  \/ Same /\ UNCHANGED users
  \/ \E p \in Procs : Moved(p, pr'[p]) /\ UNCHANGED users
  \/ \E p \in Procs : Signal(p)
  \/ \E p \in Procs : closef(p)
  \/ \E p \in Procs : Detach(p) /\ users = {p} /\ cur \in {p, NoProc}
  \/ \E S \in SUBSET Procs : stropen(S)

LEMMA StepMoves == ASSUME LpInv, Next PROVE OneMoves
<1>1. \A p \in Procs, r \in ProcRecord : r.call = "write" /\ p \in users /\ cur \in {p, NoProc} /\ Canput(p, r)
        => OneMoves
  BY CanputMoves DEF OneMoves, Canput
<1>2. \A p \in Procs, r \in ProcRecord, h \in HeadRecord : \A U :
        r.call = "ioctl" /\ r.cmd \in Cmds /\ p \in users /\ cur \in {p, NoProc} /\ IocWait(p, r, h, U)
        /\ UNCHANGED users => OneMoves
  BY IocWaitMoves DEF OneMoves
<1>3. \A p \in Procs : pr[p].pc # "user" /\ pr[p].call = "ioctl" /\ cur \in {p, NoProc} /\ UNCHANGED users
        /\ (IocEnd(p) \/ (IocLeave(p) /\ cur = NoProc) \/ ReplyWait(p)) => OneMoves
  BY ReplyMoves DEF OneMoves
<1>4. \A p \in Procs, r \in ProcRecord : \A t :
        r.call = "close" /\ users = {p} /\ cur \in {p, NoProc}
        /\ (CloseOn(p, r) \/ CloseWait(p, r, t) \/ (r = pr[p] /\ Lpclose(p)) \/ Detach(p)) => OneMoves
  <2> SUFFICES ASSUME NEW p \in Procs, NEW r \in ProcRecord, NEW t, r.call = "close", users = {p},
                      cur \in {p, NoProc},
                      CloseOn(p, r) \/ CloseWait(p, r, t) \/ (r = pr[p] /\ Lpclose(p)) \/ Detach(p)
               PROVE  OneMoves
    OBVIOUS
  <2>1. CASE Detach(p)
    BY <2>1 DEF OneMoves
  <2>2. CASE ~Detach(p)
    <3>1. Moved(p, pr'[p])
      BY <2>2, CloseMoves
    <3>2. UNCHANGED users
      BY <2>2 DEF CloseOn, CloseWait, Lpclose
    <3> QED
      BY <3>1, <3>2 DEF OneMoves
  <2> QED
    BY <2>1, <2>2
<1>5. CASE Driver
  <2>1. cur' = cur /\ UNCHANGED users /\ (pr' = pr \/ \E c : pr' = wakeprocs(pr, c))
    BY <1>5 DEF Driver, LpgetoblkNext, LpgetoblkEnd, queuerun, strwsrv, Replied
  <2> QED
    BY <2>1, SameFacts DEF OneMoves
<1>6. CASE Device \/ LoseInterrupt \/ Timers
  <2>1. cur' = cur /\ UNCHANGED users /\ (pr' = pr \/ \E c : pr' = wakeprocs(pr, c))
    BY <1>6 DEF Device, lpintr, lptmout, LoseInterrupt, Timers, str2time, str3time, strtime
  <2> QED
    BY <2>1, SameFacts DEF OneMoves
<1>7. CASE \E S \in SUBSET Procs : stropen(S)
  BY <1>7 DEF OneMoves
<1>8. ASSUME NEW p \in Procs, Call(p) PROVE OneMoves
  <2>1. CASE \E w \in Writes : strwrite(p, w[1], w[2])
    BY <1>1, <2>1, WriteCalls
  <2>2. CASE \E c \in Requests[p] : strdoioctl(p, c[1], c[2])
    <3>1. PICK c \in Requests[p] : strdoioctl(p, c[1], c[2])
      BY <2>2
    <3>2. UNCHANGED users
      BY <3>1 DEF strdoioctl
    <3> QED
      BY <1>2, <3>1, <3>2, IoctlCalls
  <2>3. CASE closef(p)
    BY <2>3 DEF OneMoves
  <2>4. CASE \E nodelay \in BOOLEAN : strclose(p, nodelay)
    BY <1>4, <2>4, CloseCalls
  <2> QED
    BY <1>8, <2>1, <2>2, <2>3, <2>4 DEF Call
<1>9. ASSUME NEW p \in Procs, GoesOn(p) PROVE OneMoves
  <2>1. /\ pr[p] \in ProcRecord /\ pr[p].pc # "user" /\ p \in users /\ cur \in {p, NoProc}
        /\ pr[p].pc \notin Running => cur = NoProc
        /\ ~serving /\ ~looping /\ CallOK(pr[p])
        /\ pr[p].call = "close" => users = {p}
    BY <1>9, GoesOnFacts
  <2>2. CASE PutData(p) \/ Lpoput(p) \/ QueueIoctl(p)
    BY <2>2, PutMoves DEF OneMoves, PutData, Lpoput, QueueIoctl
  <2>3. CASE WriteOn(p)
    <3>1. CASE pr[p].n > 0
      BY <1>1, <2>1, <2>3, <3>1 DEF WriteOn
    <3>2. CASE ~(pr[p].n > 0)
      BY <2>1, <2>3, <3>2, ReturnMoves DEF WriteOn, OneMoves
    <3> QED
      BY <3>1, <3>2
  <2>4. CASE Lpputioc(p)
    BY <2>4, LpputiocMoves DEF OneMoves, Lpputioc
  <2>5. CASE IocOn(p)
    BY <1>3, <2>1, <2>5 DEF IocOn
  <2>6. CASE CloseRun(p)
    BY <1>4, <2>1, <2>6 DEF CloseRun
  <2>7. CASE ResumeWrite(p)
    BY <1>1, <2>1, <2>7 DEF ResumeWrite, At
  <2>8. CASE ResumeClose(p) \/ InterruptedClose(p)
    BY <1>4, <2>1, <2>8 DEF ResumeClose, InterruptedClose, At
  <2>9. CASE ResumeIoctl(p)
    <3>1. pr[p].call = "ioctl" /\ pr[p].cmd \in Cmds /\ cur = NoProc /\ UNCHANGED users
      BY <2>1, <2>9 DEF ResumeIoctl, At, Free, CallOK
    <3>2. CASE At(p, "ioctl", "iocwait")
      <4>1. In(p, "iocwait")
        BY <2>9, <3>2 DEF ResumeIoctl, At, In
      <4>2. [sd EXCEPT !.iocwait = @ - 1] \in HeadRecord
        <5>1. sd \in HeadRecord /\ sd.iocwait - 1 \in Nat
          BY <4>1, Waiters DEF LpInv, TypeOK
        <5> QED
          BY <5>1 DEF HeadRecord
      <4> QED
        BY <1>2, <1>3, <2>1, <2>9, <3>1, <3>2, <4>2 DEF ResumeIoctl, At
    <3>3. CASE At(p, "ioctl", "ioc")
      BY <1>3, <2>1, <2>9, <3>1, <3>3 DEF ResumeIoctl, At
    <3> QED
      BY <2>9, <3>2, <3>3 DEF ResumeIoctl
  <2>10. CASE InterruptedWrite(p)
    <3>1. cur = NoProc /\ cur' = cur /\ UNCHANGED users
      BY <2>10 DEF InterruptedWrite, At, Free
    <3> QED
      BY <2>10, <3>1, ReturnMoves DEF InterruptedWrite, OneMoves
  <2>11. CASE InterruptedIoctl(p)
    BY <1>3, <2>1, <2>11 DEF InterruptedIoctl, At, Free
  <2> QED
    BY <1>9, <2>2, <2>3, <2>4, <2>5, <2>6, <2>7, <2>8, <2>9, <2>10, <2>11 DEF GoesOn
<1>10. ASSUME NEW p \in Procs, CopyFails(p) PROVE OneMoves
  BY <1>10, PutMoves DEF OneMoves, CopyFails
<1>11. ASSUME NEW p \in Signalled, Signal(p) PROVE OneMoves
  BY <1>11, LpAssumption DEF OneMoves
<1> QED
  BY <1>5, <1>6, <1>7, <1>8, <1>9, <1>10, <1>11 DEF Next

LEMMA ProcStep == ASSUME LpInv, Next PROVE ProcKept /\ users' \subseteq Procs
<1>1. /\ pr \in [Procs -> ProcRecord] /\ cur \in Procs \cup {NoProc} /\ users \subseteq Procs
      /\ CurOK /\ (\A p \in Procs : CallOK(pr[p])) /\ UsersOK /\ NoProc \notin Procs
  BY LpAssumption DEF LpInv, TypeOK, ProcOK
<1>2. CASE Same /\ UNCHANGED users
  BY <1>1, <1>2, SameKeeps
<1>3. ASSUME NEW p \in Procs, Moved(p, pr'[p]), UNCHANGED users PROVE ProcKept /\ users' \subseteq Procs
  BY <1>1, <1>3, MovedKeeps
<1>4. ASSUME NEW p \in Procs, Signal(p) PROVE ProcKept /\ users' \subseteq Procs
  <2> DEFINE r == [pr[p] EXCEPT !.pc = "signalled"]
  <2>1. pr[p].pc = "asleep" /\ pr' = [pr EXCEPT ![p] = r] /\ cur' = cur /\ UNCHANGED users
    BY <1>4 DEF Signal
  <2>2. r \in ProcRecord /\ r.call = pr[p].call /\ r.pc = "signalled" /\ CallOK(r)
    BY <1>1, <2>1 DEF ProcRecord, CallOK, Waiting
  <2> HIDE DEF r
  <2>3. pr' \in [Procs -> ProcRecord] /\ \A a \in Procs : pr'[a] = IF a = p THEN r ELSE pr[a]
    BY <1>1, <2>1, <2>2
  <2>4. CurOK'
    BY <1>1, <2>1, <2>2, <2>3 DEF CurOK, Running
  <2> QED
    BY <1>1, <2>1, <2>2, <2>3, <2>4 DEF ProcKept, UsersOK
<1>5. ASSUME NEW p \in Procs, closef(p) PROVE ProcKept /\ users' \subseteq Procs
  <2>1. pr[p].pc = "user" /\ p \in users /\ users # {p} /\ users' = users \ {p} /\ UNCHANGED <<pr, cur>>
    BY <1>5 DEF closef
  <2>2. CurOK'
    BY <1>1, <2>1 DEF CurOK
  <2> QED
    BY <1>1, <2>1, <2>2 DEF ProcKept, UsersOK
<1>6. ASSUME NEW p \in Procs, Detach(p), users = {p}, cur \in {p, NoProc} PROVE ProcKept /\ users' \subseteq Procs
  <2>1. pr' = [pr EXCEPT ![p] = Idle] /\ cur' = NoProc /\ users' = {} /\ Idle.pc = "user"
    BY <1>6 DEF Detach, Returned, Idle
  <2>2. pr' \in [Procs -> ProcRecord] /\ \A a \in Procs : pr'[a] = IF a = p THEN Idle ELSE pr[a]
    BY <1>1, <2>1, IdleFacts
  <2>3. \A a \in Procs : pr'[a].pc = "user" /\ CallOK(pr'[a])
    BY <1>1, <1>6, <2>1, <2>2, IdleFacts DEF UsersOK
  <2>4. CurOK'
    BY <2>1, <2>3 DEF CurOK, Running
  <2> QED
    BY <2>1, <2>2, <2>3, <2>4 DEF ProcKept
<1>7. ASSUME NEW S \in SUBSET Procs, stropen(S) PROVE ProcKept /\ users' \subseteq Procs
  <2>1. users = {} /\ users' = S /\ UNCHANGED <<pr, cur>>
    BY <1>7 DEF stropen
  <2>2. CurOK'
    BY <1>1, <2>1 DEF CurOK
  <2> QED
    BY <1>1, <2>1, <2>2 DEF ProcKept, UsersOK
<1> QED
  BY <1>2, <1>3, <1>4, <1>5, <1>6, <1>7, StepMoves DEF OneMoves

\* The timeouts and the flags of the scheduler.
LEMMA FlagsStep ==
  ASSUME LpInv, Next
  PROVE  timers' \in [str2 : SUBSET Procs, str3 : BOOLEAN] /\ {qenab', serving', looping'} \subseteq BOOLEAN
<1> DEFINE T == [str2 : SUBSET Procs, str3 : BOOLEAN]
<1>1. timers \in T /\ {qenab, serving, looping} \subseteq BOOLEAN /\ q \in Queues(Messages)
      /\ tp \in TtyRecord
  BY DEF LpInv, TypeOK
<1>2. /\ \A U \in SUBSET Procs : [timers EXCEPT !.str2 = U] \in T
      /\ \A b \in BOOLEAN : [timers EXCEPT !.str3 = b] \in T
      /\ timers.str2 \in SUBSET Procs /\ timers.str3 \in BOOLEAN
  BY <1>1
<1> HIDE DEF T
<1>3. timers' \in T
  <2>1. \A p \in Procs : IocEnd(p) \/ IocLeave(p) => timers' \in T
    BY <1>2 DEF IocEnd, IocLeave
  <2>2. \A p \in Procs : ReplyWait(p) => timers' \in T
    <3> SUFFICES ASSUME NEW p \in Procs, ReplyWait(p), ~sd.iocblk PROVE timers' \in T
      BY <2>1 DEF ReplyWait
    <3>1. timers' = [timers EXCEPT !.str3 = timers.str3 \/ (pr[p].timed /\ ~sd.STR3TIME)]
      BY DEF ReplyWait
    <3> QED
      BY <1>2, <3>1
  <2>3. \A p \in Procs : \A r, h : \A U \in SUBSET Procs : IocWait(p, r, h, U) => timers' \in T
    <3>1. \A U \in SUBSET Procs, p \in Procs : U \ {p} \in SUBSET Procs
      OBVIOUS
    <3> QED
      BY <1>2, <3>1 DEF IocWait
  <2>4. \A p \in Procs : timers.str2 \cup {p} \in SUBSET Procs /\ timers.str2 \ {p} \in SUBSET Procs
    BY <1>2
  <2>5. \A p \in Procs : \A r, t : Canput(p, r) \/ CloseOn(p, r) \/ CloseWait(p, r, t) \/ Lpclose(p) \/ Detach(p)
          => timers' \in T
    BY <1>1 DEF Canput, CloseOn, CloseWait, Lpclose, Detach, T
  <2>6. CASE Driver \/ Device \/ LoseInterrupt
    BY <1>1, <2>6 DEF Driver, LpgetoblkNext, LpgetoblkEnd, queuerun, strwsrv, Device, lpintr, lptmout, LoseInterrupt, T
  <2>7. CASE Timers
    BY ZenonT(40), <1>1, <1>2, <2>4, <2>7 DEF Timers, str2time, str3time, strtime, T
  <2>8. CASE (\E S \in SUBSET Procs : stropen(S)) \/ (\E p \in Procs : CopyFails(p)) \/ (\E p \in Signalled : Signal(p))
    BY <1>1, <2>8 DEF stropen, CopyFails, Signal, T
  <2>9. ASSUME NEW p \in Procs, Call(p) PROVE timers' \in T
    BY <1>1, <2>3, <2>4, <2>5, <2>9 DEF Call, strwrite, strdoioctl, closef, strclose, T
  <2>10. ASSUME NEW p \in Procs, GoesOn(p) PROVE timers' \in T
    <3>1. CASE PutData(p) \/ Lpoput(p) \/ Lpputioc(p) \/ QueueIoctl(p) \/ InterruptedWrite(p) \/ WriteOn(p)
      BY <1>1, <2>5, <3>1 DEF PutData, Lpoput, Lpputioc, QueueIoctl, InterruptedWrite, WriteOn, T
    <3>2. CASE CloseRun(p) \/ ResumeWrite(p) \/ ResumeClose(p) \/ InterruptedClose(p)
      BY <2>5, <3>2 DEF CloseRun, ResumeWrite, ResumeClose, InterruptedClose
    <3>3. CASE IocOn(p) \/ InterruptedIoctl(p)
      BY <2>1, <2>2, <3>3 DEF IocOn, InterruptedIoctl
    <3>4. CASE ResumeIoctl(p)
      BY <1>2, <2>1, <2>2, <2>3, <3>4 DEF ResumeIoctl
    <3> QED
      BY <2>10, <3>1, <3>2, <3>3, <3>4 DEF GoesOn
  <2> QED
    BY <2>6, <2>7, <2>8, <2>9, <2>10 DEF Next
<1>4. {qenab', serving', looping'} \subseteq BOOLEAN
  <2> DEFINE B == {qenab', serving', looping'} \subseteq BOOLEAN
  <2>1. qenab' = qenab /\ serving' = serving /\ looping' = looping => B
    BY <1>1
  <2>2. \A p \in Procs : \A r, t : Canput(p, r) \/ CloseOn(p, r) \/ CloseWait(p, r, t) \/ Lpclose(p) \/ Detach(p) => B
    BY <1>1 DEF Canput, CloseOn, CloseWait, Lpclose, Detach
  <2>3. \A d : lpxintr(d) => looping' \in BOOLEAN
    <3>1. (tp.BUSY /\ tp.ISOPEN) \in BOOLEAN
      BY <1>1 DEF TtyRecord
    <3> QED
      BY <1>1, <3>1 DEF lpxintr
  <2>4. CASE Driver
    <3>1. (qenab \/ Backenables(q)) \in BOOLEAN
      BY <1>1 DEF Backenables, Queues
    <3> QED
      BY <1>1, <2>1, <2>4, <3>1 DEF Driver, LpgetoblkNext, LpgetoblkEnd, queuerun, strwsrv
  <2>5. CASE Device \/ LoseInterrupt \/ Timers
    BY <1>1, <2>3, <2>5 DEF Device, lpintr, lptmout, LoseInterrupt, Timers, str2time, str3time, strtime
  <2> HIDE DEF B
  <2>6. CASE (\E S \in SUBSET Procs : stropen(S)) \/ (\E p \in Procs : CopyFails(p)) \/ (\E p \in Signalled : Signal(p))
    <3>1. qenab' = qenab /\ serving' = serving /\ looping' = looping
      BY <2>6 DEF stropen, CopyFails, Signal
    <3> QED
      BY <2>1, <3>1 DEF B
  <2>7. ASSUME NEW p \in Procs, Call(p) PROVE B
    BY <2>1, <2>2, <2>7 DEF Call, strwrite, strdoioctl, closef, strclose
  <2>8. ASSUME NEW p \in Procs, GoesOn(p) PROVE B
    <3>1. CASE Lpoput(p)
      BY <1>1, <3>1 DEF Lpoput, B
    <3>2. CASE PutData(p) \/ Lpputioc(p) \/ QueueIoctl(p) \/ InterruptedWrite(p) \/ WriteOn(p)
      BY <2>1, <2>2, <3>2 DEF PutData, Lpputioc, QueueIoctl, InterruptedWrite, WriteOn
    <3>3. CASE CloseRun(p) \/ ResumeWrite(p) \/ ResumeClose(p) \/ InterruptedClose(p)
      BY <2>2, <3>3 DEF CloseRun, ResumeWrite, ResumeClose, InterruptedClose
    <3>4. CASE IocOn(p) \/ InterruptedIoctl(p) \/ ResumeIoctl(p)
      BY <2>1, <3>4 DEF IocOn, InterruptedIoctl, ResumeIoctl
    <3> QED
      BY <2>8, <3>1, <3>2, <3>3, <3>4 DEF GoesOn
  <2> QED
    BY <2>4, <2>5, <2>6, <2>7, <2>8 DEF Next, B
<1> QED
  BY <1>3, <1>4 DEF T

LEMMA TypeStep == ASSUME LpInv, Next PROVE TypeOK'
<1>1. sd' \in HeadRecord
  BY HeadStep
<1>2. q' \in Queues(Messages)
  BY QueueStep DEF QueueKept
<1>3. tp' \in TtyRecord /\ dev' \in DevRecord
  BY PrinterStep DEF PrinterKept
<1>4. pr' \in [Procs -> ProcRecord] /\ cur' \in Procs \cup {NoProc} /\ users' \subseteq Procs
  BY ProcStep DEF ProcKept
<1> QED
  BY <1>1, <1>2, <1>3, <1>4, FlagsStep DEF TypeOK

-----------------------------------------------------------------------------
(***************************************************************************)
(* The stream is open while it has users; output moves.                    *)
(***************************************************************************)
\* A process that makes a call runs when nobody else does.
LEMMA CallFacts ==
  ASSUME LpInv, NEW p \in Procs, Call(p)
  PROVE  cur = NoProc /\ pr[p].pc = "user" /\ p \in users /\ ~serving /\ ~looping /\ UNCHANGED looping
<1>1. \A r, t : CloseWait(p, r, t) => UNCHANGED looping
  BY DEF CloseWait, CloseOn
<1> QED
  BY <1>1 DEF Call, strwrite, strdoioctl, closef, strclose, Free, Canput

\* The messages stay what they are when only QWANTW is set.
LEMMA WantFacts ==
  ASSUME LpInv, q' = [q EXCEPT !.QWANTW = TRUE]
  PROVE  q'.msgs = q.msgs /\ q'.count = q.count /\ q'.QWANTW /\ q'.QFULL = q.QFULL
BY DEF LpInv, TypeOK, Queues

OpenKept == (users' # {} => tp'.ISOPEN) /\ (users' = {} => Empty(q'))

LEMMA OpenStep == ASSUME LpInv, Next PROVE OpenKept
<1>1. tp \in TtyRecord /\ q \in Queues(Messages) /\ (users # {} => tp.ISOPEN) /\ (users = {} => Empty(q))
  BY DEF LpInv, TypeOK, ProcOK, UsersOK
<1>2. UNCHANGED users /\ tp'.ISOPEN = tp.ISOPEN /\ (users = {} => q'.msgs = q.msgs) => OpenKept
  BY <1>1 DEF OpenKept, Empty
<1>3. \A b \in BOOLEAN : [tp EXCEPT !.TTIOW = b].ISOPEN = tp.ISOPEN
  BY <1>1 DEF TtyRecord
<1>4. Empty(q) => Left(q).msgs = q.msgs
  BY <1>1, LeftFacts DEF LpInv, QueueOK, Empty
<1>5. ASSUME NEW p \in Procs, Detach(p) PROVE OpenKept
  BY <1>5 DEF Detach, OpenKept, NewQueue, Empty
<1>6. ASSUME NEW p \in Procs, p \in users, NEW r, NEW t,
             Canput(p, r) \/ CloseOn(p, r) \/ CloseWait(p, r, t) \/ Lpclose(p)
      PROVE  OpenKept
  <2>1. CASE Canput(p, r) \/ CloseOn(p, r) \/ CloseWait(p, r, t)
    <3>1. UNCHANGED <<users, tp>>
      BY <2>1 DEF Canput, CloseOn, CloseWait
    <3> QED
      BY <1>1, <1>6, <3>1 DEF OpenKept
  <2>2. CASE Lpclose(p)
    BY <1>2, <1>3, <1>5, <1>6, <2>2 DEF Lpclose
  <2> QED
    BY <1>6, <2>1, <2>2
<1>7. CASE Driver
  <2>1. UNCHANGED users /\ tp'.ISOPEN = tp.ISOPEN
    <3>1. \A b : [tp EXCEPT !.BUSY = TRUE, !.bu_bp = b].ISOPEN = tp.ISOPEN
      BY <1>1 DEF TtyRecord
    <3> QED
      BY <1>3, <1>7, <3>1 DEF Driver, LpgetoblkNext, LpgetoblkEnd, queuerun, strwsrv
  <2>2. q' = q \/ q' = Left(q)
    BY <1>7 DEF Driver, LpgetoblkNext, LpgetoblkEnd, queuerun, strwsrv
  <2> QED
    BY <1>1, <1>2, <1>4, <2>1, <2>2
<1>8. CASE Device
  <2>1. UNCHANGED <<users, q>> /\ \E d : lpxintr(d)
    BY <1>8 DEF Device, lpintr, lptmout
  <2>2. [tp EXCEPT !.bu_bp.left = @ - 1].ISOPEN = tp.ISOPEN
        /\ [tp EXCEPT !.BUSY = FALSE, !.bu_bp = NoBlock].ISOPEN = tp.ISOPEN
    BY <1>1 DEF TtyRecord
  <2>3. tp'.ISOPEN = tp.ISOPEN
    BY <2>1, <2>2 DEF lpxintr
  <2> QED
    BY <1>2, <2>1, <2>3
<1>9. CASE LoseInterrupt \/ Timers
  BY <1>2, <1>9 DEF LoseInterrupt, Timers, str2time, str3time, strtime
<1>10. ASSUME NEW S \in SUBSET Procs, stropen(S) PROVE OpenKept
  <2>1. tp'.ISOPEN /\ users' # {}
    BY <1>1, <1>10 DEF stropen, TtyRecord
  <2> QED
    BY <2>1 DEF OpenKept
<1>11. ASSUME NEW p \in Procs, Call(p) PROVE OpenKept
  <2>1. p \in users
    BY <1>11, CallFacts
  <2>2. CASE closef(p)
    BY <1>1, <2>1, <2>2 DEF closef, OpenKept
  <2> QED
    BY <1>2, <1>6, <1>11, <2>1, <2>2 DEF Call, strwrite, strdoioctl, strclose
<1>12. ASSUME NEW p \in Procs, GoesOn(p) PROVE OpenKept
  <2>1. p \in users
    BY <1>12, GoesOnFacts
  <2>2. UNCHANGED <<users, tp>> => OpenKept
    BY <1>1, <2>1 DEF OpenKept
  <2> QED
    BY <1>5, <1>6, <1>12, <2>1, <2>2 DEF GoesOn, PutData, Lpoput, WriteOn, Lpputioc, QueueIoctl, IocOn, CloseRun,
       ResumeWrite, ResumeClose, ResumeIoctl, InterruptedWrite, InterruptedClose, InterruptedIoctl
<1>13. CASE (\E p \in Procs : CopyFails(p)) \/ (\E p \in Signalled : Signal(p))
  BY <1>2, <1>13 DEF CopyFails, Signal
<1> QED
  BY <1>7, <1>8, <1>9, <1>10, <1>11, <1>12, <1>13 DEF Next

(* What is queued is being printed, or is about to be.                     *)
AtGetblk == cur # NoProc /\ pr[cur].pc = "getblk"
MovesKept == (~looping /\ ~Empty(q) => tp.BUSY \/ AtGetblk)'

LEMMA OutputStep == ASSUME LpInv, Next PROVE MovesKept
<1>1. /\ tp \in TtyRecord /\ q \in Queues(Messages) /\ pr \in [Procs -> ProcRecord] /\ cur \in Procs \cup {NoProc}
      /\ ~looping /\ ~Empty(q) => tp.BUSY \/ AtGetblk
  BY DEF LpInv, TypeOK, PrinterOK, AtGetblk
<1>2. NoProc \notin Procs /\ CurOK
  BY LpAssumption DEF LpInv, ProcOK
<1>3. ASSUME Same PROVE AtGetblk' = AtGetblk
  <2>1. cur # NoProc => pr'[cur] = pr[cur]
    <3> SUFFICES ASSUME cur # NoProc PROVE pr'[cur] = pr[cur]
      OBVIOUS
    <3>1. cur \in Procs /\ pr[cur].pc # "asleep"
      BY <1>1, <1>2 DEF CurOK, Running
    <3> QED
      BY <1>3, <3>1 DEF Same, Woken
  <2> QED
    BY <1>3, <2>1 DEF Same, AtGetblk
<1>4. UNCHANGED looping /\ AtGetblk' = AtGetblk /\ tp'.BUSY = tp.BUSY /\ q'.msgs = q.msgs => MovesKept
  BY <1>1 DEF MovesKept, Empty
<1>5. ~looping /\ ~AtGetblk /\ tp'.BUSY = tp.BUSY /\ q'.msgs = q.msgs => MovesKept
  BY <1>1 DEF MovesKept, Empty
<1>6. \A b \in BOOLEAN : [tp EXCEPT !.TTIOW = b].BUSY = tp.BUSY
  BY <1>1 DEF TtyRecord
<1>7. ASSUME NEW p \in Procs, ~looping, ~AtGetblk, NEW r, NEW t,
             Canput(p, r) \/ CloseOn(p, r) \/ CloseWait(p, r, t) \/ Lpclose(p) \/ Detach(p)
      PROVE  MovesKept
  <2>1. CASE Detach(p)
    BY <2>1 DEF Detach, NewQueue, Empty, MovesKept
  <2>2. CASE ~Detach(p)
    <3>1. tp'.BUSY = tp.BUSY
      BY <1>6, <1>7, <2>2 DEF Canput, CloseOn, CloseWait, Lpclose
    <3>2. q' = q \/ q' = [q EXCEPT !.QWANTW = TRUE]
      BY <1>7, <2>2 DEF Canput, CloseOn, CloseWait, Lpclose
    <3> QED
      BY <1>5, <1>7, <3>1, <3>2, WantFacts
  <2> QED
    BY <2>1, <2>2
<1>8. CASE Driver
  <2>1. CASE LpgetoblkNext
    BY <2>1 DEF LpgetoblkNext, MovesKept
  <2>2. CASE LpgetoblkEnd
    <3>1. tp.BUSY => tp'.BUSY
      BY <1>6, <2>2 DEF LpgetoblkEnd
    <3>2. ~tp.BUSY => Empty(q) /\ q' = Left(q)
      BY <2>2 DEF LpgetoblkEnd
    <3>3. Empty(q) => Left(q).msgs = <<>>
      BY <1>1, LeftFacts DEF LpInv, QueueOK
    <3> QED
      BY <3>1, <3>2, <3>3 DEF MovesKept, Empty
  <2>3. CASE queuerun \/ strwsrv
    <3>1. Same
      BY <2>3, SameFacts DEF queuerun, strwsrv
    <3> QED
      BY <1>3, <1>4, <2>3, <3>1 DEF queuerun, strwsrv
  <2> QED
    BY <1>8, <2>1, <2>2, <2>3 DEF Driver
<1>9. CASE Device
  <2>1. UNCHANGED <<q, pr, cur>> /\ ~looping /\ \E d : lpxintr(d)
    BY <1>9 DEF Device, lpintr, lptmout, Unmasked
  <2>2. CASE ~tp.BUSY
    BY <1>1, <2>1, <2>2 DEF lpxintr, MovesKept, AtGetblk
  <2>3. CASE tp.BUSY /\ tp.bu_bp.left > 0
    <3>1. [tp EXCEPT !.bu_bp.left = @ - 1].BUSY
      BY <1>1, <2>3 DEF TtyRecord
    <3> QED
      BY <2>1, <2>3, <3>1 DEF lpxintr, MovesKept
  <2>4. CASE tp.BUSY /\ ~(tp.bu_bp.left > 0)
    <3>1. looping' = tp.ISOPEN
      BY <1>1, <2>1, <2>4 DEF lpxintr, TtyRecord
    <3> QED
      BY <2>1, <3>1 DEF MovesKept, LpInv, ProcOK, UsersOK, Empty
  <2> QED
    BY <2>2, <2>3, <2>4
<1>10. CASE LoseInterrupt \/ Timers
  <2>1. Same /\ UNCHANGED <<looping, tp, q>>
    BY <1>10, SameFacts DEF LoseInterrupt, Timers, str2time, str3time, strtime
  <2> QED
    BY <1>3, <1>4, <2>1
<1>11. ASSUME NEW S \in SUBSET Procs, stropen(S) PROVE MovesKept
  <2>1. tp'.BUSY = tp.BUSY
    BY <1>1, <1>11 DEF stropen, TtyRecord
  <2> QED
    BY <1>4, <1>11, <2>1 DEF stropen, AtGetblk
<1>12. ASSUME NEW p \in Procs, Call(p) PROVE MovesKept
  <2>1. ~looping /\ ~AtGetblk
    BY <1>12, CallFacts DEF AtGetblk
  <2> QED
    BY <1>5, <1>7, <1>12, <2>1 DEF Call, strwrite, strdoioctl, closef, strclose
<1>13. ASSUME NEW p \in Procs, GoesOn(p) PROVE MovesKept
  <2>1. ~looping /\ cur \in {p, NoProc} /\ (pr[p].pc # "getblk" => ~AtGetblk) /\ p # NoProc
        /\ (pr[p].pc \notin Running => ~AtGetblk)
    BY <1>2, <1>13, GoesOnFacts DEF AtGetblk
  <2>2. CASE PutData(p) \/ QueueIoctl(p)
    BY <2>1, <2>2, PutMoves DEF MovesKept, AtGetblk
  <2>3. CASE Lpoput(p)
    BY <2>3 DEF Lpoput, MovesKept, Empty
  <2>4. CASE Lpputioc(p)
    <3>1. pr[p].pc = "ioctl" /\ UNCHANGED <<tp, q>>
      BY <2>4 DEF Lpputioc, Doing
    <3> QED
      BY <1>5, <2>1, <3>1
  <2>5. CASE WriteOn(p) \/ CloseRun(p)
    <3>1. pr[p].pc = "run"
      BY <2>5 DEF WriteOn, CloseRun, Doing
    <3> QED
      BY <1>5, <1>7, <2>1, <2>5, <3>1 DEF WriteOn, CloseRun
  <2>6. CASE ResumeWrite(p) \/ ResumeClose(p) \/ InterruptedClose(p)
    <3>1. pr[p].pc \in {"woken", "signalled"}
      BY <2>6 DEF ResumeWrite, ResumeClose, InterruptedClose, Interrupted
    <3> QED
      BY <1>7, <2>1, <2>6, <3>1 DEF ResumeWrite, ResumeClose, InterruptedClose
  <2>7. CASE IocOn(p) \/ ResumeIoctl(p) \/ InterruptedWrite(p) \/ InterruptedIoctl(p)
    <3>1. pr[p].pc \in {"run", "woken", "signalled"} /\ UNCHANGED <<tp, q>>
      BY <2>7 DEF IocOn, ResumeIoctl, InterruptedWrite, InterruptedIoctl, Interrupted, Doing
    <3> QED
      BY <1>5, <2>1, <3>1
  <2> QED
    BY <1>13, <2>2, <2>3, <2>4, <2>5, <2>6, <2>7 DEF GoesOn
<1>14. ASSUME NEW p \in Procs, CopyFails(p) PROVE MovesKept
  BY <1>5, <1>14 DEF CopyFails, Free, AtGetblk
<1>15. ASSUME NEW p \in Procs, Signal(p) PROVE MovesKept
  <2>1. pr[p].pc = "asleep" /\ pr' = [pr EXCEPT ![p].pc = "signalled"] /\ cur' = cur
        /\ UNCHANGED <<looping, tp, q>>
    BY <1>15 DEF Signal
  <2>2. AtGetblk' = AtGetblk
    <3>1. cur # NoProc => cur # p /\ pr'[cur] = pr[cur]
      BY <1>1, <1>2, <2>1 DEF CurOK, Running
    <3> QED
      BY <2>1, <3>1 DEF AtGetblk
  <2> QED
    BY <1>4, <2>1, <2>2
<1> QED
  BY <1>8, <1>9, <1>10, <1>11, <1>12, <1>13, <1>14, <1>15, LpAssumption DEF Next

-----------------------------------------------------------------------------
(***************************************************************************)
(* The kinds of steps that a process takes in the stream head.             *)
(***************************************************************************)
AtHead(p) ==
  /\ Moved(p, pr'[p]) /\ ~serving /\ ~looping
  /\ UNCHANGED <<users, dev, qenab, serving, looping>>

\* canput()
Tries(p) ==
  /\ AtHead(p) /\ UNCHANGED tp
  /\ pr[p].pc # "copy" /\ (pr[p].pc = "user" \/ pr[p].call = "write")
  /\ \/ pr'[p].pc = "copy" /\ pr'[p].call = "write" /\ ~q.QFULL /\ UNCHANGED <<q, sd>>
     \/ pr'[p] = Idle /\ q.QFULL /\ q' = [q EXCEPT !.QWANTW = TRUE] /\ UNCHANGED sd
     \/ /\ pr'[p].pc = "asleep" /\ pr'[p].chan = "wrq" /\ pr'[p].call = "write" /\ q.QFULL
        /\ q' = [q EXCEPT !.QWANTW = TRUE] /\ sd' = [sd EXCEPT !.WSLEEP = TRUE]

\* A write() is over.
Returns(p) ==
  /\ AtHead(p) /\ UNCHANGED <<q, sd, tp>>
  /\ pr[p].pc \in {"run", "copy"} /\ pr[p].call = "write" /\ pr'[p] = Idle

\* h is the stream head without p among those who wait.
Head0(p, h) ==
  /\ h \in HeadRecord
  /\ h.IOCWAIT = sd.IOCWAIT /\ h.iocblk = sd.iocblk /\ h.iocid = sd.iocid /\ h.WSLEEP = sd.WSLEEP
  /\ h.iocwait = Cardinality(Queuing \ {p})

Takes(p, h, i) ==
  /\ ~h.IOCWAIT /\ pr'[p].pc = "ioctl"
  /\ sd' = [h EXCEPT !.IOCWAIT = TRUE, !.iocblk = FALSE, !.STR2TIME = @ /\ h.iocwait # 0, !.iocid = i]

Waits(p) ==
  /\ AtHead(p) /\ UNCHANGED <<q, tp>>
  /\ pr[p].pc = "user" \/ (In(p, "iocwait") /\ pr[p].call = "ioctl")
  /\ pr'[p].call = "ioctl"
  /\ \E h : /\ Head0(p, h)
            /\ \/ /\ h.IOCWAIT /\ pr'[p].pc = "asleep" /\ pr'[p].chan = "iocwait"
                  /\ sd' = [h EXCEPT !.iocwait = @ + 1]
               \/ \E i \in IocIds \ InFlight : Takes(p, h, i)

AtReply(p) == pr[p].call = "ioctl" /\ (pr[p].pc = "run" \/ In(p, "ioc"))

Ends(p) == AtHead(p) /\ UNCHANGED <<q, tp>> /\ AtReply(p) /\ IocEnd(p) /\ pr'[p] = Idle

Stays(p) ==
  /\ AtHead(p) /\ UNCHANGED <<q, tp>> /\ AtReply(p) /\ ~sd.iocblk
  /\ pr'[p].pc = "asleep" /\ pr'[p].chan = "ioc" /\ pr'[p].call = "ioctl"
  /\ pr' = [pr EXCEPT ![p] = pr'[p]] /\ sd' = [sd EXCEPT !.STR3TIME = TRUE]

Leaves(p) ==
  AtHead(p) /\ UNCHANGED <<q, tp>> /\ In(p, "iocwait") /\ pr[p].call = "ioctl" /\ IocLeave(p) /\ pr'[p] = Idle

Closing(p) == (pr[p].pc = "user" \/ pr[p].call = "close") /\ pr[p].pc # "copy" /\ users = {p} /\ cur \in {p, NoProc}

Closes(p) ==
  /\ AtHead(p) /\ Closing(p) /\ pr'[p].call = "close"
  /\ \/ /\ pr'[p].pc = "run" /\ UNCHANGED <<q, tp>>
        /\ sd' = [sd EXCEPT !.STRTIME = FALSE, !.WSLEEP = FALSE]
     \/ /\ pr'[p].pc = "asleep" /\ pr'[p].chan = "wrq" /\ q.count # 0 /\ UNCHANGED tp
        /\ q' = [q EXCEPT !.QWANTW = TRUE] /\ sd' = [sd EXCEPT !.STRTIME = TRUE, !.WSLEEP = TRUE]
     \/ /\ pr'[p].pc = "asleep" /\ pr'[p].chan = "oflag" /\ ~Drained /\ UNCHANGED <<q, sd>>
        /\ tp' = [tp EXCEPT !.TTIOW = TRUE]

Stops(p) ==
  /\ AtHead(p) /\ UNCHANGED <<q, tp>> /\ InterruptedWrite(p) /\ pr'[p] = Idle

Steps(p) ==
  \/ Tries(p) \/ Returns(p) \/ Waits(p) \/ Ends(p) \/ Stays(p) \/ Leaves(p) \/ Closes(p) \/ Stops(p)
  \/ Detach(p) /\ Closing(p) /\ ~serving /\ ~looping
  \/ PutData(p) \/ Lpoput(p) \/ Lpputioc(p) \/ QueueIoctl(p)

Kinds ==
  \/ Driver \/ Device \/ LoseInterrupt \/ Timers
  \/ \E S \in SUBSET Procs : stropen(S)
  \/ \E p \in Procs : closef(p) \/ Signal(p) \/ Steps(p)

LEMMA StepKinds == ASSUME LpInv, Next PROVE Kinds
<1>1. pr \in [Procs -> ProcRecord] /\ sd \in HeadRecord /\ sd.iocwait = Cardinality(Queuing)
      /\ (\A p \in Procs : CallOK(pr[p]))
  BY DEF LpInv, TypeOK, QueueOK, ProcOK
<1>2. ASSUME NEW p \in Procs, NEW r \in ProcRecord, r.call = "write", p \in users, cur \in {p, NoProc}, Canput(p, r),
             pr[p].pc # "copy", pr[p].pc = "user" \/ pr[p].call = "write", ~serving, ~looping
      PROVE  Steps(p)
  <2>1. UNCHANGED <<users, tp, dev, qenab, serving, looping>>
    BY <1>2 DEF Canput
  <2>2. Tries(p)
    BY <1>2, <2>1, CanputMoves DEF Tries, AtHead
  <2> QED
    BY <2>2 DEF Steps
<1>3. ASSUME NEW p \in Procs, NEW r \in ProcRecord, r.call = "ioctl", r.cmd \in Cmds, p \in users, cur \in {p, NoProc},
             NEW h, Head0(p, h), NEW U, IocWait(p, r, h, U), ~serving, ~looping,
             UNCHANGED <<users, q, tp, dev, qenab, serving, looping>>,
             pr[p].pc = "user" \/ (In(p, "iocwait") /\ pr[p].call = "ioctl")
      PROVE  Steps(p)
  <2>1. h \in HeadRecord
    BY <1>3 DEF Head0
  <2>2. /\ Moved(p, pr'[p]) /\ pr'[p].call = "ioctl"
        /\ \/ /\ h.IOCWAIT /\ pr'[p].pc = "asleep" /\ pr'[p].chan = "iocwait"
              /\ sd' = [h EXCEPT !.iocwait = @ + 1]
           \/ \E i \in IocIds \ InFlight : Takes(p, h, i)
    BY <1>3, <2>1, IocWaitMoves DEF Takes
  <2>3. AtHead(p)
    BY <1>3, <2>2 DEF AtHead
  <2>4. Waits(p)
    BY <1>3, <2>2, <2>3 DEF Waits
  <2> QED
    BY <2>4 DEF Steps
<1>4. ASSUME NEW p \in Procs, pr[p].pc # "user", AtReply(p), cur \in {p, NoProc}, ~serving, ~looping,
             UNCHANGED <<users, q, tp, dev, qenab, serving, looping>>, IocEnd(p) \/ ReplyWait(p)
      PROVE  Steps(p)
  <2>1. Ends(p) \/ Stays(p)
    <3>1. CASE IocEnd(p)
      BY <1>4, <3>1, ReplyMoves DEF Ends, AtHead, AtReply
    <3>2. CASE ~IocEnd(p)
      BY <1>4, <3>2, ReplyMoves DEF Stays, AtHead, AtReply
    <3> QED
      BY <3>1, <3>2
  <2> QED
    BY <2>1 DEF Steps
<1>5. ASSUME NEW p \in Procs, In(p, "iocwait"), pr[p].call = "ioctl", cur = NoProc, ~serving, ~looping,
             UNCHANGED <<users, q, tp, dev, qenab, serving, looping>>, IocLeave(p)
      PROVE  Steps(p)
  <2>1. pr[p].pc # "user"
    BY <1>5 DEF In
  <2>2. Leaves(p)
    BY <1>5, <2>1, ReplyMoves DEF Leaves, AtHead
  <2> QED
    BY <2>2 DEF Steps
<1>6. ASSUME NEW p \in Procs, NEW r \in ProcRecord, r.call = "close", Closing(p), NEW t, ~serving, ~looping,
             CloseOn(p, r) \/ CloseWait(p, r, t) \/ (r = pr[p] /\ Lpclose(p)) \/ Detach(p)
      PROVE  Steps(p)
  <2>1. users = {p} /\ cur \in {p, NoProc}
    BY <1>6 DEF Closing
  <2>2. CASE Detach(p)
    BY <1>6, <2>2 DEF Steps
  <2>3. CASE CloseOn(p, r)
    <3>1. UNCHANGED <<users, q, tp, dev, qenab, serving, looping>>
          /\ sd' = [sd EXCEPT !.STRTIME = FALSE, !.WSLEEP = FALSE]
      BY <2>3 DEF CloseOn
    <3>2. Closes(p)
      BY <1>6, <2>1, <2>3, <3>1, CloseMoves DEF Closes, AtHead
    <3> QED
      BY <3>2 DEF Steps
  <2>4. CASE CloseWait(p, r, t) /\ ~CloseOn(p, r)
    <3>1. UNCHANGED <<users, tp, dev, qenab, serving, looping>>
      BY <2>4 DEF CloseWait
    <3>2. Closes(p)
      BY <1>6, <2>1, <2>4, <3>1, CloseMoves DEF Closes, AtHead
    <3> QED
      BY <3>2 DEF Steps
  <2>5. CASE r = pr[p] /\ Lpclose(p) /\ ~Detach(p)
    <3>1. UNCHANGED <<users, q, sd, dev, qenab, serving, looping>>
      BY <2>5 DEF Lpclose
    <3>2. Closes(p)
      BY <1>6, <2>1, <2>5, <3>1, CloseMoves DEF Closes, AtHead
    <3> QED
      BY <3>2 DEF Steps
  <2> QED
    BY <1>6, <2>2, <2>3, <2>4, <2>5
<1>7. \A p \in Procs : ~In(p, "iocwait") => Queuing \ {p} = Queuing
  BY DEF Queuing
<1>8. ASSUME NEW p \in Procs, Call(p) PROVE Kinds
  <2>1. cur = NoProc /\ pr[p].pc = "user" /\ p \in users /\ ~serving /\ ~looping
    BY <1>8, CallFacts
  <2>2. CASE \E w \in Writes : strwrite(p, w[1], w[2])
    BY <1>2, <2>1, <2>2, WriteCalls DEF Kinds
  <2>3. CASE \E c \in Requests[p] : strdoioctl(p, c[1], c[2])
    <3>1. PICK c \in Requests[p] : strdoioctl(p, c[1], c[2])
      BY <2>3
    <3>2. UNCHANGED <<users, q, tp, dev, qenab, serving, looping>>
      BY <3>1 DEF strdoioctl
    <3>6. PICK r \in ProcRecord, h \in HeadRecord : \E U :
            /\ r.call = "ioctl" /\ r.cmd \in Cmds /\ p \in users /\ cur = NoProc
            /\ h = [sd EXCEPT !.STR2TIME = TRUE] /\ IocWait(p, r, h, U)
      BY <3>1, IoctlCalls
    <3>3. PICK U :
            /\ r.call = "ioctl" /\ r.cmd \in Cmds /\ p \in users /\ cur = NoProc
            /\ h = [sd EXCEPT !.STR2TIME = TRUE] /\ IocWait(p, r, h, U)
      BY <3>6
    <3>4. Queuing \ {p} = Queuing
      BY <1>7, <2>1 DEF In
    <3>5. Head0(p, h)
      BY <1>1, <3>3, <3>4 DEF Head0, HeadRecord
    <3> QED
      BY <1>3, <2>1, <3>2, <3>3, <3>5 DEF Kinds
  <2>4. CASE closef(p)
    BY <2>4 DEF Kinds
  <2>5. CASE \E nodelay \in BOOLEAN : strclose(p, nodelay)
    BY <1>6, <2>1, <2>5, CloseCalls DEF Kinds, Closing
  <2> QED
    BY <1>8, <2>2, <2>3, <2>4, <2>5 DEF Call
<1>9. ASSUME NEW p \in Procs, GoesOn(p) PROVE Kinds
  <2>1. /\ pr[p] \in ProcRecord /\ pr[p].pc # "user" /\ p \in users /\ cur \in {p, NoProc}
        /\ pr[p].pc \notin Running => cur = NoProc
        /\ ~serving /\ ~looping /\ CallOK(pr[p])
        /\ pr[p].call = "close" => users = {p}
    BY <1>9, GoesOnFacts
  <2>2. CASE PutData(p) \/ Lpoput(p) \/ QueueIoctl(p) \/ Lpputioc(p)
    BY <2>2 DEF Kinds, Steps
  <2>3. CASE WriteOn(p)
    <3>1. CASE pr[p].n > 0
      BY <1>2, <2>1, <2>3, <3>1 DEF WriteOn, Doing, Kinds
    <3>2. CASE ~(pr[p].n > 0)
      <4>1. Returns(p)
        BY <2>1, <2>3, <3>2, ReturnMoves DEF WriteOn, Doing, Returns, AtHead
      <4> QED
        BY <4>1 DEF Kinds, Steps
    <3> QED
      BY <3>1, <3>2
  <2>4. CASE IocOn(p)
    BY <1>4, <2>1, <2>4 DEF IocOn, Doing, AtReply, Kinds
  <2>5. CASE CloseRun(p)
    BY <1>6, <2>1, <2>5 DEF CloseRun, Doing, Closing, Kinds
  <2>6. CASE ResumeWrite(p)
    BY <1>2, <2>1, <2>6 DEF ResumeWrite, At, Kinds
  <2>7. CASE ResumeClose(p) \/ InterruptedClose(p)
    <3>1. Closing(p)
      BY <2>1, <2>7 DEF ResumeClose, InterruptedClose, At, Closing, Interrupted
    <3> QED
      BY <1>6, <2>1, <2>7, <3>1 DEF ResumeClose, InterruptedClose, At, Kinds
  <2>8. CASE ResumeIoctl(p)
    <3>1. pr[p].call = "ioctl" /\ pr[p].cmd \in Cmds /\ cur = NoProc /\ pr[p].pc = "woken"
          /\ UNCHANGED <<users, q, tp, dev, qenab, serving, looping>>
      BY <2>1, <2>8 DEF ResumeIoctl, At, Free, CallOK
    <3>2. CASE At(p, "ioctl", "iocwait")
      <4>1. In(p, "iocwait")
        BY <3>1, <3>2 DEF At, In
      <4>2. Head0(p, [sd EXCEPT !.iocwait = @ - 1])
        <5>1. sd.iocwait - 1 \in Nat
          BY <4>1, Waiters
        <5>2. Queuing \in SUBSET Procs /\ p \in Queuing
          BY <4>1 DEF Queuing
        <5>3. sd.iocwait - 1 = Cardinality(Queuing \ {p})
          BY <1>1, <5>2, CountFacts
        <5>4. PICK n \in Nat : n = sd.iocwait - 1
          BY <5>1
        <5>5. Head0(p, [sd EXCEPT !.iocwait = n])
          BY <1>1, <5>3, <5>4 DEF Head0, HeadRecord
        <5> QED
          BY <5>4, <5>5
      <4>3. ~In(p, "ioc")
        BY <3>2 DEF At, In
      <4> QED
        BY <1>3, <1>5, <2>1, <2>8, <3>1, <3>2, <4>1, <4>2 DEF ResumeIoctl, At, Kinds
    <3>3. CASE At(p, "ioctl", "ioc")
      BY <1>4, <2>1, <2>8, <3>1, <3>3 DEF ResumeIoctl, At, Kinds, AtReply, In
    <3> QED
      BY <2>8, <3>2, <3>3 DEF ResumeIoctl
  <2>9. CASE InterruptedWrite(p)
    <3>1. cur = NoProc /\ cur' = cur /\ UNCHANGED <<users, q, tp, dev, qenab, serving, looping>>
      BY <2>9 DEF InterruptedWrite, At, Free
    <3>2. Stops(p)
      BY <2>1, <2>9, <3>1, ReturnMoves DEF InterruptedWrite, Stops, AtHead
    <3> QED
      BY <3>2 DEF Kinds, Steps
  <2>10. CASE InterruptedIoctl(p)
    <3>1. pr[p].call = "ioctl" /\ cur = NoProc /\ pr[p].pc \in {"woken", "signalled"}
          /\ UNCHANGED <<users, q, tp, dev, qenab, serving, looping>>
      BY <2>1, <2>10 DEF InterruptedIoctl, At, Free, Interrupted
    <3>2. CASE At(p, "ioctl", "iocwait") /\ IocLeave(p)
      BY <1>5, <2>1, <3>1, <3>2 DEF At, In, Kinds
    <3>3. CASE At(p, "ioctl", "ioc") /\ IocEnd(p)
      BY <1>4, <2>1, <3>1, <3>3 DEF At, In, Kinds, AtReply
    <3> QED
      BY <2>10, <3>2, <3>3 DEF InterruptedIoctl
  <2> QED
    BY <1>9, <2>2, <2>3, <2>4, <2>5, <2>6, <2>7, <2>8, <2>9, <2>10 DEF GoesOn
<1>10. ASSUME NEW p \in Procs, CopyFails(p) PROVE Kinds
  <2>1. ~serving /\ ~looping /\ pr[p].pc = "copy" /\ pr[p].call = "write"
        /\ UNCHANGED <<users, q, sd, tp, dev, qenab, serving, looping>>
    BY <1>1, <1>10 DEF CopyFails, Free, CallOK
  <2>2. Returns(p)
    BY <1>10, <2>1, PutMoves DEF Returns, AtHead
  <2> QED
    BY <2>2 DEF Kinds, Steps
<1>11. ASSUME NEW p \in Signalled, Signal(p) PROVE Kinds
  BY <1>11, LpAssumption DEF Kinds
<1>12. CASE Driver \/ Device \/ LoseInterrupt \/ Timers \/ \E S \in SUBSET Procs : stropen(S)
  BY <1>12 DEF Kinds
<1> QED
  BY <1>8, <1>9, <1>10, <1>11, <1>12 DEF Next

\* Who waits for the ioctl mechanism and who copies, after a step.
LEMMA SetsMove ==
  ASSUME LpInv
  PROVE  /\ Same => Queuing' = Queuing /\ Copying' = Copying
         /\ \A p \in Procs : Signal(p) => Queuing' = Queuing /\ Copying' = Copying
         /\ \A p \in Procs : Moved(p, pr'[p]) =>
              /\ Copying' = IF pr'[p].pc = "copy" THEN Copying \cup {p} ELSE Copying \ {p}
              /\ Queuing' = IF pr'[p].pc \in Waiting /\ pr'[p].chan = "iocwait"
                            THEN Queuing \cup {p} ELSE Queuing \ {p}
<1>1. pr \in [Procs -> ProcRecord]
  BY DEF LpInv, TypeOK
<1>2. ASSUME Same PROVE Queuing' = Queuing /\ Copying' = Copying
  <2>1. \A a \in Procs : /\ (pr'[a].pc \in Waiting) = (pr[a].pc \in Waiting) /\ pr'[a].chan = pr[a].chan
                         /\ (pr'[a].pc = "copy") = (pr[a].pc = "copy")
    BY <1>1, <1>2, WokenFacts DEF Same
  <2> QED
    BY <2>1 DEF Queuing, Copying, In, Waiting
<1>3. ASSUME NEW p \in Procs, Signal(p) PROVE Queuing' = Queuing /\ Copying' = Copying
  <2>1. pr[p].pc = "asleep" /\ pr' = [pr EXCEPT ![p].pc = "signalled"]
    BY <1>3 DEF Signal
  <2>2. \A a \in Procs : a # p => pr'[a] = pr[a]
    BY <1>1, <2>1
  <2>3. pr'[p].pc = "signalled" /\ pr'[p].chan = pr[p].chan
    BY <1>1, <2>1 DEF ProcRecord
  <2> QED
    BY <2>1, <2>2, <2>3 DEF Queuing, Copying, In
<1>4. ASSUME NEW p \in Procs, Moved(p, pr'[p])
      PROVE  /\ Copying' = IF pr'[p].pc = "copy" THEN Copying \cup {p} ELSE Copying \ {p}
             /\ Queuing' = IF pr'[p].pc \in Waiting /\ pr'[p].chan = "iocwait"
                           THEN Queuing \cup {p} ELSE Queuing \ {p}
  <2>1. \A a \in Procs : a # p => /\ (pr'[a].pc \in Waiting) = (pr[a].pc \in Waiting) /\ pr'[a].chan = pr[a].chan
                                  /\ (pr'[a].pc = "copy") = (pr[a].pc = "copy")
    BY <1>1, <1>4, WokenFacts DEF Moved, Others
  <2> QED
    BY <2>1 DEF Queuing, Copying, In, Waiting
<1> QED
  BY <1>2, <1>3, <1>4

\* What happens without a process in the stream head.
LEMMA QuietSame ==
  ASSUME LpInv, Driver \/ Device \/ LoseInterrupt \/ Timers \/ \E S \in SUBSET Procs : stropen(S)
  PROVE  Same /\ cur' = cur /\ sd'.iocwait = sd.iocwait
<1>1. cur' = cur /\ (pr' = pr \/ \E c : pr' = wakeprocs(pr, c))
  BY DEF Driver, LpgetoblkNext, LpgetoblkEnd, queuerun, strwsrv, Replied, Device, lpintr, lptmout, LoseInterrupt,
     Timers, str2time, str3time, strtime, stropen
<1>2. sd \in HeadRecord
  BY DEF LpInv, TypeOK
<1>3. sd'.iocwait = sd.iocwait
  BY <1>2 DEF Driver, LpgetoblkNext, LpgetoblkEnd, queuerun, strwsrv, Replied, Device, lpintr, lptmout, LoseInterrupt,
     Timers, str2time, str3time, strtime, stropen, HeadRecord
<1> QED
  BY <1>1, <1>3, SameFacts

\* A process that waits, copies or holds the mechanism is in the call for it.
LEMMA InCall ==
  ASSUME LpInv, NEW p \in Procs
  PROVE  /\ In(p, "iocwait") \/ In(p, "ioc") => pr[p].call = "ioctl" /\ pr[p].pc # "user"
         /\ Holder(p) => pr[p].call = "ioctl" /\ pr[p].pc # "user"
         /\ pr[p].pc = "copy" => pr[p].call = "write"
BY DEF LpInv, ProcOK, CallOK, In, Waiting, Holder, Running

\* sd_iocwait counts them.
CountKept == sd'.iocwait = Cardinality(Queuing')

LEMMA CountStep == ASSUME LpInv, Next PROVE CountKept
<1>1. sd \in HeadRecord /\ sd.iocwait = Cardinality(Queuing) /\ Queuing \in SUBSET Procs
  BY DEF LpInv, TypeOK, QueueOK, Queuing
<1>2. sd'.iocwait = sd.iocwait /\ Queuing' = Queuing => CountKept
  BY <1>1 DEF CountKept
<1>3. ASSUME NEW p \in Procs, Moved(p, pr'[p]), ~In(p, "iocwait"),
             pr'[p].pc \in Waiting => pr'[p].chan # "iocwait", sd'.iocwait = sd.iocwait
      PROVE  CountKept
  <2>1. Queuing' = Queuing \ {p} /\ p \notin Queuing
    BY <1>3, SetsMove DEF Queuing
  <2> QED
    BY <1>2, <1>3, <2>1
<1>4. ASSUME NEW p \in Procs, Tries(p) \/ Returns(p) \/ Ends(p) \/ Stays(p) \/ Closes(p) \/ Stops(p)
      PROVE  CountKept
  <2>1. sd'.iocwait = sd.iocwait
    BY <1>1, <1>4 DEF Tries, Returns, Ends, IocEnd, Stays, Closes, Stops, InterruptedWrite, HeadRecord
  <2>2. ~In(p, "iocwait")
    BY <1>4, InCall DEF Tries, Returns, Ends, Stays, Closes, Closing, Stops, InterruptedWrite, At, In, AtReply
  <2>3. pr'[p].pc \in Waiting => pr'[p].chan # "iocwait"
    BY <1>4 DEF Tries, Returns, Ends, Stays, Closes, Stops, Waiting, Idle
  <2>4. Moved(p, pr'[p])
    BY <1>4 DEF Tries, Returns, Ends, Stays, Closes, Stops, AtHead
  <2> QED
    BY <1>3, <2>1, <2>2, <2>3, <2>4
<1>5. ASSUME NEW p \in Procs, Waits(p) PROVE CountKept
  <2>1. Moved(p, pr'[p])
    BY <1>5 DEF Waits, AtHead
  <2>2. PICK h : Head0(p, h)
                 /\ \/ /\ h.IOCWAIT /\ pr'[p].pc = "asleep" /\ pr'[p].chan = "iocwait"
                       /\ sd' = [h EXCEPT !.iocwait = @ + 1]
                    \/ \E i \in IocIds \ InFlight : Takes(p, h, i)
    BY <1>5 DEF Waits
  <2>3. h \in HeadRecord /\ h.iocwait = Cardinality(Queuing \ {p})
    BY <2>2 DEF Head0
  <2>4. CASE pr'[p].pc = "asleep" /\ pr'[p].chan = "iocwait" /\ sd' = [h EXCEPT !.iocwait = @ + 1]
    <3>1. Queuing' = Queuing \cup {p}
      BY <2>1, <2>4, SetsMove DEF Waiting
    <3>2. (Queuing \ {p}) \cup {p} = Queuing' /\ Queuing \ {p} \in SUBSET Procs /\ p \in Procs \ (Queuing \ {p})
      BY <1>1, <3>1
    <3>3. Cardinality(Queuing') = Cardinality(Queuing \ {p}) + 1
      BY <3>2, CountFacts
    <3>4. sd'.iocwait = h.iocwait + 1
      BY <2>3, <2>4 DEF HeadRecord
    <3> QED
      BY <2>3, <3>3, <3>4 DEF CountKept
  <2>5. ASSUME NEW i, Takes(p, h, i) PROVE CountKept
    <3>1. Queuing' = Queuing \ {p}
      BY <2>1, <2>5, SetsMove DEF Waiting, Takes
    <3>2. sd'.iocwait = h.iocwait
      BY <2>3, <2>5 DEF HeadRecord, Takes
    <3> QED
      BY <2>3, <3>1, <3>2 DEF CountKept
  <2> QED
    BY <2>2, <2>4, <2>5
<1>6. ASSUME NEW p \in Procs, Leaves(p) PROVE CountKept
  <2>1. Moved(p, pr'[p]) /\ pr'[p] = Idle /\ p \in Queuing /\ IocLeave(p)
    BY <1>6 DEF Leaves, AtHead, Queuing
  <2>2. Queuing' = Queuing \ {p}
    BY <2>1, SetsMove DEF Waiting, Idle
  <2>3. Cardinality(Queuing') = sd.iocwait - 1 /\ sd.iocwait \in Nat
    BY <1>1, <2>1, <2>2, CountFacts
  <2>4. sd'.iocwait = sd.iocwait - 1
    BY <1>1, <2>1 DEF IocLeave, HeadRecord
  <2> QED
    BY <2>3, <2>4 DEF CountKept
<1>7. ASSUME NEW p \in Procs, Detach(p) /\ Closing(p) PROVE CountKept
  <2>1. \A a \in Procs : pr'[a].pc = "user"
    <3>1. pr \in [Procs -> ProcRecord] /\ pr' = [pr EXCEPT ![p] = Idle] /\ Idle.pc = "user" /\ users = {p}
      BY <1>7 DEF LpInv, TypeOK, Detach, Returned, Closing, Idle
    <3> QED
      BY <3>1 DEF LpInv, ProcOK, UsersOK
  <2>2. Queuing' = {} /\ sd' = NewHead
    BY <1>7, <2>1 DEF Queuing, In, Detach
  <2> QED
    BY <2>2, FS_EmptySet DEF CountKept, NewHead
<1>8. ASSUME NEW p \in Procs, PutData(p) \/ Lpoput(p) \/ QueueIoctl(p) \/ Lpputioc(p) PROVE CountKept
  <2>1. Moved(p, pr'[p]) /\ pr'[p].pc \in Running
    BY <1>8, PutMoves, LpputiocMoves DEF Running
  <2>2. sd'.iocwait = sd.iocwait
    BY <1>1, <1>8 DEF PutData, Lpoput, QueueIoctl, Lpputioc, Replied, HeadRecord
  <2>3. pr[p].pc \in {"copy", "getblk", "queue", "ioctl"}
    BY <1>8 DEF PutData, Lpoput, QueueIoctl, Lpputioc, Doing
  <2> QED
    BY <1>3, <2>1, <2>2, <2>3 DEF In, Waiting, Running
<1>9. CASE Driver \/ Device \/ LoseInterrupt \/ Timers \/ \E S \in SUBSET Procs : stropen(S)
  BY <1>2, <1>9, QuietSame, SetsMove
<1>10. ASSUME NEW p \in Procs, closef(p) \/ Signal(p) PROVE CountKept
  <2>1. CASE closef(p)
    BY <1>2, <2>1 DEF closef, Queuing, In
  <2>2. CASE Signal(p)
    BY <1>2, <2>2, SetsMove DEF Signal
  <2> QED
    BY <1>10, <2>1, <2>2
<1> QED
  BY <1>4, <1>5, <1>6, <1>7, <1>8, <1>9, <1>10, StepKinds DEF Kinds, Steps

\* Products.
LEMMA Times ==
  ASSUME NEW a \in Nat, NEW b \in Nat, NEW k \in Nat
  PROVE  /\ k * a \in Nat /\ k * (a + 1) = k * a + k
         /\ a <= b => k * a <= k * b
<1>1. k * a \in Nat /\ k * b \in Nat /\ k * (a + 1) = k * a + k
  OBVIOUS
<1>2. ASSUME a <= b PROVE k * a <= k * b
  <2>1. PICK d \in Nat : b = a + d
    BY <1>2
  <2>2. k * b = k * a + k * d /\ k * d \in Nat
    BY <2>1
  <2> QED
    BY <1>1, <2>2
<1> QED
  BY <1>1, <1>2

\* The room for the processes that copy.
Room(n, c, k) == n + rmax * c < hiwat + rmax * Cardinality(Procs) + IocSize * k

LEMMA RoomFacts ==
  ASSUME NEW n \in Nat, NEW c \in Nat, NEW k \in Nat, c <= Cardinality(Procs)
  PROVE  /\ n < hiwat => Room(n, c, k)
         /\ \A b \in Nat : Room(n, c, k) /\ b <= c => Room(n, b, k)
         /\ \A m \in 0 .. rmax : Room(n, c, k) /\ c > 0 => Room(n + m, c - 1, k)
         /\ Room(n, c, k) => Room(n + IocSize, c, k + 1)
         /\ \A m, i \in Nat : Room(n, c, k) /\ n = m + IocSize /\ k = i + 1 => Room(m, c, i)
         /\ \A m, s \in Nat : Room(n, c, k) /\ n = m + s => Room(m, c, k)
<1> DEFINE P == Cardinality(Procs)
<1>1. rmax \in Nat /\ IocSize \in Nat /\ hiwat \in Nat
  BY LpAssumption, MarksAssumption
<1>2. P \in Nat
  BY LpAssumption, FS_CardinalityType
<1>3. rmax * c \in Nat /\ rmax * P \in Nat /\ rmax * c <= rmax * P /\ IocSize * k \in Nat
  BY <1>1, <1>2, Times
<1>4. \A b \in Nat : b <= c => rmax * b \in Nat /\ rmax * b <= rmax * c
  BY <1>1, Times
<1>5. c > 0 => rmax * c = rmax * (c - 1) + rmax /\ rmax * (c - 1) \in Nat
  <2>1. c > 0 => c - 1 \in Nat /\ (c - 1) + 1 = c
    OBVIOUS
  <2> QED
    BY <1>1, <2>1, Times
<1>6. \A i \in Nat : IocSize * (i + 1) = IocSize * i + IocSize /\ IocSize * i \in Nat
  BY <1>1, Times
<1> HIDE DEF P
<1>7. \A x, y, z : Room(x, y, z) <=> x + rmax * y < hiwat + rmax * P + IocSize * z
  BY DEF Room, P
<1>8. n < hiwat => Room(n, c, k)
  BY <1>1, <1>3, <1>7
<1>9. ASSUME NEW b \in Nat, Room(n, c, k), b <= c PROVE Room(n, b, k)
  BY <1>1, <1>3, <1>4, <1>7, <1>9
<1>10. ASSUME NEW m \in 0 .. rmax, Room(n, c, k), c > 0 PROVE Room(n + m, c - 1, k)
  BY <1>1, <1>3, <1>5, <1>7, <1>10
<1>11. ASSUME Room(n, c, k) PROVE Room(n + IocSize, c, k + 1)
  <2>1. IocSize * (k + 1) = IocSize * k + IocSize
    BY <1>6
  <2> QED
    BY <1>1, <1>3, <1>7, <1>11, <2>1
<1>12. ASSUME NEW m \in Nat, NEW i \in Nat, Room(n, c, k), n = m + IocSize, k = i + 1 PROVE Room(m, c, i)
  <2>1. IocSize * k = IocSize * i + IocSize /\ IocSize * i \in Nat
    BY <1>6, <1>12
  <2> QED
    BY <1>1, <1>3, <1>7, <1>12, <2>1
<1>13. ASSUME NEW m \in Nat, NEW s \in Nat, Room(n, c, k), n = m + s PROVE Room(m, c, k)
  BY <1>1, <1>3, <1>7, <1>13
<1> QED
  BY <1>8, <1>9, <1>10, <1>11, <1>12, <1>13

RoomKept == Room(Bytes(q'.msgs), Cardinality(Copying'), Cardinality(Kept(q'.msgs)))

LEMMA RoomStep == ASSUME LpInv, Next PROVE RoomKept
<1> DEFINE n == Bytes(q.msgs)
           c == Cardinality(Copying)
           k == Cardinality(Kept(q.msgs))
<1>1. /\ Copying \in SUBSET Procs /\ pr \in [Procs -> ProcRecord]
      /\ q \in Queues(Messages) /\ CountOK(q) /\ q.msgs \in Seq(Messages)
  BY DEF LpInv, TypeOK, QueueOK, Copying, Queues
<1>2. n \in Nat /\ k \in Nat /\ c \in Nat /\ c <= Cardinality(Procs)
  BY <1>1, LeftFacts, KeptFinite, CountFacts
<1>3. Room(n, c, k)
  BY DEF LpInv, QueueOK, RoomOK, Room
<1>4. /\ n < hiwat => \A b \in Nat : b <= Cardinality(Procs) => Room(n, b, k)
      /\ \A b \in Nat : b <= c => Room(n, b, k)
      /\ \A m \in 0 .. rmax : c > 0 => Room(n + m, c - 1, k)
      /\ Room(n + IocSize, c, k + 1)
      /\ \A m, i \in Nat : n = m + IocSize /\ k = i + 1 => Room(m, c, i)
      /\ \A m, s \in Nat : n = m + s => Room(m, c, k)
  BY <1>2, <1>3, RoomFacts
<1> HIDE DEF n, c, k
<1>5. q'.msgs = q.msgs /\ Copying' \subseteq Copying => RoomKept
  <2> SUFFICES ASSUME q'.msgs = q.msgs, Copying' \subseteq Copying PROVE RoomKept
    OBVIOUS
  <2>1. IsFiniteSet(Copying)
    BY <1>1, CountFacts
  <2>2. Cardinality(Copying') \in Nat /\ Cardinality(Copying') <= c
    BY <2>1, FS_Subset, FS_CardinalityType DEF c
  <2> QED
    BY <1>4, <2>2 DEF RoomKept, n, k
<1>6. ASSUME Copying' = Copying, q' = Left(q) PROVE RoomKept
  <2>1. CASE Empty(q)
    BY <1>1, <1>5, <1>6, <2>1, LeftFacts DEF Empty
  <2>2. CASE ~Empty(q)
    <3> DEFINE m == Bytes(q'.msgs)
               i == Cardinality(Kept(q'.msgs))
               h == Head(q.msgs)
    <3>1. n = m + h.size /\ m \in Nat /\ k = i + IsRequest(h) /\ h \in Messages /\ Size(h)
      BY <1>1, <1>6, <2>2, LeftFacts, FirstFacts DEF n, k
    <3>2. i \in Nat
      BY <1>1, <1>6, LeftFacts, KeptFinite DEF Queues
    <3>3. RoomKept <=> Room(m, c, i)
      BY <1>6 DEF RoomKept, c
    <3> HIDE DEF m, i, h
    <3>4. CASE h.type = "data"
      <4>1. IsRequest(h) = 0 /\ h.size \in Nat
        BY <3>1, <3>4 DEF IsRequest, Messages
      <4> QED
        BY <1>2, <1>4, <3>1, <3>2, <3>3, <4>1
    <3>5. CASE h.type # "data"
      <4>1. IsRequest(h) = 1 /\ h.size = IocSize
        BY <3>1, <3>5 DEF IsRequest, Size
      <4> QED
        BY <1>4, <3>1, <3>2, <3>3, <4>1
    <3> QED
      BY <3>4, <3>5
  <2> QED
    BY <2>1, <2>2
<1>7. ASSUME NEW p \in Procs, Moved(p, pr'[p]), pr'[p].pc # "copy", q'.msgs = q.msgs PROVE RoomKept
  <2>1. Copying' \subseteq Copying
    BY <1>7, SetsMove
  <2> QED
    BY <1>5, <1>7, <2>1
<1>8. ASSUME NEW p \in Procs, Returns(p) \/ Waits(p) \/ Ends(p) \/ Stays(p) \/ Leaves(p) \/ Closes(p) \/ Stops(p)
                \/ Lpoput(p) \/ Lpputioc(p)
      PROVE  RoomKept
  <2>1. CASE Lpoput(p) \/ Lpputioc(p)
    <3>1. q' = q
      BY <2>1 DEF Lpoput, Lpputioc
    <3>2. Moved(p, pr'[p]) /\ pr'[p].pc \in Running
      BY <2>1, PutMoves, LpputiocMoves DEF Running
    <3> QED
      BY <1>7, <3>1, <3>2 DEF Running
  <2>2. CASE ~(Lpoput(p) \/ Lpputioc(p))
    <3>1. q' = q \/ q' = [q EXCEPT !.QWANTW = TRUE]
      BY <1>8, <2>2 DEF Returns, Waits, Ends, Stays, Leaves, Closes, Stops
    <3>2. Moved(p, pr'[p])
      BY <1>8, <2>2 DEF Returns, Waits, Ends, Stays, Leaves, Closes, Stops, AtHead
    <3>3. pr'[p].pc # "copy"
      <4>1. Waits(p) => pr'[p].pc # "copy"
        BY DEF Waits, Takes
      <4> QED
        BY <1>8, <2>2, <4>1 DEF Returns, Ends, Stays, Leaves, Closes, Stops, Idle
    <3> QED
      BY <1>7, <3>1, <3>2, <3>3, WantFacts
  <2> QED
    BY <2>1, <2>2
<1>9. ASSUME NEW p \in Procs, Tries(p) PROVE RoomKept
  <2>1. Moved(p, pr'[p]) /\ q'.msgs = q.msgs
    BY <1>9, WantFacts DEF Tries, AtHead
  <2>2. CASE pr'[p].pc # "copy"
    BY <1>7, <2>1, <2>2
  <2>3. CASE pr'[p].pc = "copy"
    <3>1. ~q.QFULL
      BY <1>9, <2>3 DEF Tries, Idle
    <3>2. n < hiwat
      <4>1. ~(q.count >= hiwat) /\ q.count = n
        BY <1>1, <3>1 DEF CountOK, n
      <4> QED
        BY <1>2, <4>1, MarksAssumption
    <3>3. Copying' \in SUBSET Procs
      BY <2>1, SetsMove, <1>1
    <3>4. Cardinality(Copying') \in Nat /\ Cardinality(Copying') <= Cardinality(Procs)
      BY <3>3, CountFacts
    <3> QED
      BY <1>4, <2>1, <3>2, <3>4 DEF RoomKept, n, k
  <2> QED
    BY <2>2, <2>3
<1>10. ASSUME NEW p \in Procs, PutData(p) PROVE RoomKept
  <2>1. PICK m : m = IF pr[p].n < rmax THEN pr[p].n ELSE rmax
    OBVIOUS
  <2>2. m \in 0 .. rmax /\ (m # 0 => m \in 1 .. rmax)
    BY <2>1, DataFacts
  <2>3. p \in Copying /\ Moved(p, pr'[p]) /\ pr'[p].pc = "getblk"
    BY <1>10, PutMoves DEF PutData, Copying
  <2>4. Copying' = Copying \ {p}
    BY <2>3, SetsMove
  <2>5. Cardinality(Copying') = c - 1 /\ c > 0
    BY <1>1, <2>3, <2>4, CountFacts DEF c
  <2>6. CASE m = 0
    BY <1>7, <1>10, <2>1, <2>3, <2>6 DEF PutData
  <2>7. CASE m # 0
    <3>1. q' = putq(q, Data(p, m))
      BY <1>10, <2>1, <2>7 DEF PutData
    <3>2. Data(p, m) \in Messages /\ IsRequest(Data(p, m)) = 0 /\ Data(p, m).size = m
      BY <2>2, <2>7, MessageFacts DEF Data
    <3>3. Bytes(q'.msgs) = n + m /\ Cardinality(Kept(q'.msgs)) = k + 0
      BY <1>1, <3>1, <3>2, PutFacts DEF n, k
    <3> QED
      BY <1>2, <1>4, <2>2, <2>5, <3>3 DEF RoomKept
  <2> QED
    BY <2>6, <2>7
<1>11. ASSUME NEW p \in Procs, QueueIoctl(p) PROVE RoomKept
  <2>1. Moved(p, pr'[p]) /\ pr'[p].pc = "getblk" /\ pr[p].pc = "queue" /\ pr[p].call = "ioctl"
    BY <1>11, PutMoves DEF QueueIoctl, Doing, LpInv, ProcOK, CallOK
  <2>2. Copying' = Copying
    BY <2>1, SetsMove DEF Copying
  <2>3. Ioctl(p) \in Messages /\ IsRequest(Ioctl(p)) = 1 /\ Ioctl(p).size = IocSize
    BY <2>1, MessageFacts DEF Ioctl
  <2>4. q' = putq(q, Ioctl(p)) \/ q' = putbq(q, Ioctl(p))
    BY <1>11 DEF QueueIoctl
  <2>5. Bytes(q'.msgs) = n + IocSize /\ Cardinality(Kept(q'.msgs)) = k + 1
    BY <1>1, <2>3, <2>4, PutFacts DEF n, k
  <2> QED
    BY <1>4, <2>2, <2>5 DEF RoomKept, c
<1>12. ASSUME NEW p \in Procs, Detach(p) /\ Closing(p) PROVE RoomKept
  <2>1. pr' = [pr EXCEPT ![p] = Idle] /\ users = {p} /\ q' = NewQueue
    BY <1>12 DEF Detach, Returned, Closing
  <2>2. \A a \in Procs : pr'[a].pc = "user"
    BY <1>1, <2>1 DEF LpInv, ProcOK, UsersOK, Idle
  <2>3. Copying' = {}
    BY <2>2 DEF Copying
  <2>4. Bytes(q'.msgs) = 0 /\ Cardinality(Copying') = 0 /\ q'.msgs \in Seq(Messages)
    BY <2>1, <2>3, BytesEmpty, FS_EmptySet DEF NewQueue
  <2>5. Cardinality(Kept(q'.msgs)) \in Nat /\ Cardinality(Procs) \in Nat /\ 0 <= Cardinality(Procs)
    BY <2>4, KeptFinite, LpAssumption, FS_CardinalityType
  <2>6. 0 < hiwat
    BY MarksAssumption
  <2> QED
    BY <2>4, <2>5, <2>6, RoomFacts DEF RoomKept
<1>13. CASE Driver \/ Device \/ LoseInterrupt \/ Timers \/ \E S \in SUBSET Procs : stropen(S)
  <2>1. q' = q \/ q' = Left(q)
    BY <1>13 DEF Driver, LpgetoblkNext, LpgetoblkEnd, queuerun, strwsrv, Device, lpintr, lptmout, LoseInterrupt,
       Timers, str2time, str3time, strtime, stropen
  <2>2. Copying' = Copying
    BY <1>13, QuietSame, SetsMove
  <2> QED
    BY <1>5, <1>6, <2>1, <2>2
<1>14. ASSUME NEW p \in Procs, closef(p) \/ Signal(p) PROVE RoomKept
  <2>1. CASE closef(p)
    BY <1>5, <2>1 DEF closef, Copying
  <2>2. CASE Signal(p)
    BY <1>5, <2>2, SetsMove DEF Signal
  <2> QED
    BY <1>14, <2>1, <2>2
<1> QED
  BY <1>8, <1>9, <1>10, <1>11, <1>12, <1>13, <1>14, StepKinds DEF Kinds, Steps

LEMMA QueueInvStep == ASSUME LpInv, Next PROVE QueueOK'
<1>1. CountOK(q') /\ \A m \in Members(q'.msgs) : Size(m)
  BY QueueStep DEF QueueKept
<1>2. sd'.iocwait = Cardinality(Queuing')
  BY CountStep DEF CountKept
<1>3. RoomOK'
  BY RoomStep DEF RoomKept, Room, RoomOK
<1> QED
  BY <1>1, <1>2, <1>3 DEF QueueOK, Queued

-----------------------------------------------------------------------------
(***************************************************************************)
(* The ioctl mechanism.                                                    *)
(***************************************************************************)
BeforeSent(r) == r.pc \in {"ioctl", "queue"}

\* A step leaves a process in possession of the mechanism, or not.
Keeps(a) == Holder(a)' = Holder(a) /\ Sent(a)' = Sent(a) /\ BeforeSent(pr'[a]) = BeforeSent(pr[a])

LEMMA HoldersMove ==
  ASSUME LpInv
  PROVE  /\ Same => \A a \in Procs : Keeps(a)
         /\ \A p \in Procs : Signal(p) => \A a \in Procs : Keeps(a)
         /\ \A p \in Procs : Moved(p, pr'[p]) => \A a \in Procs : a # p => Keeps(a)
<1>1. pr \in [Procs -> ProcRecord]
  BY DEF LpInv, TypeOK
<1>2. \A a \in Procs : Woken(pr[a], pr'[a]) => Keeps(a)
  <2> SUFFICES ASSUME NEW a \in Procs, Woken(pr[a], pr'[a]) PROVE Keeps(a)
    OBVIOUS
  <2>1. /\ pr'[a].call = pr[a].call /\ pr'[a].chan = pr[a].chan
        /\ (pr'[a].pc \in Running) = (pr[a].pc \in Running) /\ (pr'[a].pc \in Waiting) = (pr[a].pc \in Waiting)
        /\ BeforeSent(pr'[a]) = BeforeSent(pr[a])
        /\ (pr'[a].pc \in {"getblk", "run"}) = (pr[a].pc \in {"getblk", "run"})
    BY <1>1, WokenFacts DEF BeforeSent
  <2> QED
    BY <2>1 DEF Keeps, Holder, Sent, In, Waiting
<1>3. ASSUME NEW p \in Procs, Signal(p) PROVE \A a \in Procs : Keeps(a)
  <2>1. pr[p].pc = "asleep" /\ pr' = [pr EXCEPT ![p].pc = "signalled"]
    BY <1>3 DEF Signal
  <2>2. \A a \in Procs : a # p => pr'[a] = pr[a]
    BY <1>1, <2>1
  <2>3. pr'[p].pc = "signalled" /\ pr'[p].chan = pr[p].chan /\ pr'[p].call = pr[p].call
    BY <1>1, <2>1 DEF ProcRecord
  <2> QED
    BY <2>1, <2>2, <2>3 DEF Keeps, Holder, Sent, In, BeforeSent, Running
<1> QED
  BY <1>2, <1>3 DEF Same, Moved, Others

\* What has the mechanism is known from where it is.
LEMMA HolderIs ==
  ASSUME LpInv, NEW a \in Procs
  PROVE  /\ Holder(a) <=> BeforeSent(pr[a]) \/ Sent(a)
         /\ ~(BeforeSent(pr[a]) /\ Sent(a))
         /\ BeforeSent(pr[a]) => cur = a
BY DEF Holder, BeforeSent, Sent, LpInv, ProcOK, CallOK, CurOK, Running, In

HeadSame == sd'.IOCWAIT = sd.IOCWAIT /\ sd'.iocid = sd.iocid /\ sd'.iocblk = sd.iocblk

\* A step that only adds or removes data.
LEMMA IoctlStays ==
  ASSUME LpInv, \A a \in Procs : Keeps(a), HeadSame,
         \A m \in Queued' : m \in Queued \/ (m.type = "data" /\ cur = NoProc),
         \A m \in Queued : m.type # "data" => m \in Queued'
  PROVE  IoctlOK'
<1>1. IoctlOK /\ NoProc \notin Procs /\ \A a \in Procs : BeforeSent(pr[a]) => cur = a
  BY LpAssumption, HolderIs DEF LpInv
<1>2. \A p \in Procs : Holder(p)' => sd'.IOCWAIT
  BY <1>1 DEF IoctlOK, Keeps, HeadSame
<1>3. \A a, b \in Procs : Holder(a)' /\ Holder(b)' => a = b
  BY <1>1 DEF IoctlOK, Keeps
<1>4. ASSUME NEW p \in Procs, Holder(p)'
      PROVE  IF BeforeSent(pr'[p]) THEN ~sd'.iocblk /\ \A m \in Queued' : m.id # sd'.iocid
             ELSE sd'.iocblk \/ \E m \in Queued' : Asked(m)' /\ m.from = p
  <2>1. Holder(p) /\ BeforeSent(pr'[p]) = BeforeSent(pr[p])
    BY <1>4 DEF Keeps
  <2>2. CASE BeforeSent(pr[p])
    <3>1. cur # NoProc /\ ~sd.iocblk /\ \A m \in Queued : m.id # sd.iocid
      BY <1>1, <2>1, <2>2 DEF IoctlOK, BeforeSent
    <3> QED
      BY <2>1, <2>2, <3>1 DEF HeadSame
  <2>3. CASE ~BeforeSent(pr[p])
    <3>1. sd.iocblk \/ \E m \in Queued : Asked(m) /\ m.from = p
      BY <1>1, <2>1, <2>3 DEF IoctlOK, BeforeSent
    <3> QED
      BY <2>1, <2>3, <3>1 DEF HeadSame, Asked
  <2> QED
    BY <2>2, <2>3
<1>5. \A m \in Queued' : sd'.IOCWAIT /\ Asked(m)' => Sent(m.from)'
  <2> SUFFICES ASSUME NEW m \in Queued', sd'.IOCWAIT, Asked(m)' PROVE Sent(m.from)'
    OBVIOUS
  <2>1. m \in Queued /\ Asked(m) /\ sd.IOCWAIT
    BY DEF HeadSame, Asked
  <2>2. Sent(m.from) /\ m.from \in Procs
    <3>1. m \in Messages
      BY <2>1, ElementOfSeq, LenProperties DEF LpInv, TypeOK, Queues, Queued, Members
    <3> QED
      BY <1>1, <2>1, <3>1 DEF IoctlOK, Messages
  <2> QED
    BY <2>2 DEF Keeps
<1> QED
  BY <1>2, <1>3, <1>4, <1>5 DEF IoctlOK, BeforeSent

\* The messages when the queue is only taken or marked.
LEMMA QueuedSame ==
  ASSUME LpInv
  PROVE  /\ q' = q \/ q' = [q EXCEPT !.QWANTW = TRUE] => Queued' = Queued
         /\ q' = Left(q) /\ Empty(q) => Queued' = Queued
         /\ q' = Left(q) /\ ~Empty(q) => Queued = Queued' \cup {Head(q.msgs)}
         /\ \A m \in Queued : m \in Messages /\ m.from \in Procs
<1>1. q \in Queues(Messages) /\ CountOK(q)
  BY DEF LpInv, TypeOK, QueueOK
<1>2. q' = q \/ q' = [q EXCEPT !.QWANTW = TRUE] => Queued' = Queued
  BY WantFacts DEF Queued
<1>3. q' = Left(q) => (Empty(q) => Queued' = Queued) /\ (~Empty(q) => Queued = Queued' \cup {Head(q.msgs)})
  BY <1>1, LeftFacts DEF Queued, Empty
<1>4. \A m \in Queued : m \in Messages
  BY <1>1, ElementOfSeq, LenProperties DEF Queues, Queued, Members
<1> QED
  BY <1>2, <1>3, <1>4 DEF Messages

\* A process without the mechanism stays without it.
LEMMA NotHolder ==
  ASSUME LpInv, NEW p \in Procs, ~Holder(p), ~Holder(p)', pr' \in [Procs -> ProcRecord], CallOK(pr'[p])
  PROVE  Keeps(p)
<1>1. ~BeforeSent(pr[p]) /\ ~Sent(p)
  BY HolderIs
<1>2. ~BeforeSent(pr'[p]) /\ ~Sent(p)'
  BY DEF Holder, BeforeSent, Sent, CallOK, Running
<1> QED
  BY <1>1, <1>2 DEF Keeps, BeforeSent, Holder, Sent, In

\* The printer's reply.
LEMMA ReplyKeeps ==
  ASSUME LpInv, LpgetoblkNext, Head(q.msgs).type # "data" PROVE IoctlOK'
<1> DEFINE h == Head(q.msgs)
<1>1. Queued = Queued' \cup {h} /\ Same /\ Replied(h, pr)
  <2>1. Same
    BY QuietSame DEF Driver
  <2> QED
    BY <2>1, QueuedSame DEF LpgetoblkNext
<1>2. \A a \in Procs : Keeps(a)
  BY <1>1, HoldersMove
<1>3. IoctlOK /\ sd \in HeadRecord /\ h.type # "data"
  BY DEF LpInv, TypeOK
<1> HIDE DEF h
<1>4. sd'.IOCWAIT = sd.IOCWAIT /\ sd'.iocid = sd.iocid /\ (sd.iocblk => sd'.iocblk)
      /\ (Wanted(h) => sd'.iocblk) /\ (~Wanted(h) => sd' = sd)
  BY <1>1, <1>3 DEF Replied, HeadRecord
<1>5. \A p \in Procs : Holder(p)' => sd'.IOCWAIT
  BY <1>2, <1>3, <1>4 DEF IoctlOK, Keeps
<1>6. \A a, b \in Procs : Holder(a)' /\ Holder(b)' => a = b
  BY <1>2, <1>3 DEF IoctlOK, Keeps
<1>7. ASSUME NEW p \in Procs, Holder(p)'
      PROVE  IF BeforeSent(pr'[p]) THEN ~sd'.iocblk /\ \A m \in Queued' : m.id # sd'.iocid
             ELSE sd'.iocblk \/ \E m \in Queued' : Asked(m)' /\ m.from = p
  <2>1. Holder(p) /\ BeforeSent(pr'[p]) = BeforeSent(pr[p]) /\ sd.IOCWAIT
    BY <1>2, <1>3, <1>7 DEF Keeps, IoctlOK
  <2>2. CASE BeforeSent(pr[p])
    <3>1. ~sd.iocblk /\ \A m \in Queued : m.id # sd.iocid
      BY <1>3, <2>1, <2>2 DEF IoctlOK, BeforeSent
    <3>2. ~Wanted(h)
      BY <1>1, <3>1 DEF Wanted
    <3> QED
      BY <1>1, <1>4, <2>1, <2>2, <3>1, <3>2
  <2>3. CASE ~BeforeSent(pr[p])
    <3>1. sd.iocblk \/ \E m \in Queued : Asked(m) /\ m.from = p
      BY <1>3, <2>1, <2>3 DEF IoctlOK, BeforeSent
    <3>2. CASE sd.iocblk
      BY <1>4, <2>1, <2>3, <3>2
    <3>3. CASE ~sd.iocblk
      <4>1. PICK m \in Queued : Asked(m) /\ m.from = p
        BY <3>1, <3>3
      <4>2. m = h => Wanted(h)
        BY <2>1, <3>3, <4>1 DEF Asked, Wanted
      <4>3. m # h => m \in Queued' /\ Asked(m)'
        BY <1>1, <1>4, <4>1 DEF Asked
      <4> QED
        BY <1>4, <2>1, <2>3, <4>1, <4>2, <4>3
    <3> QED
      BY <3>2, <3>3
  <2> QED
    BY <2>2, <2>3
<1>8. \A m \in Queued' : sd'.IOCWAIT /\ Asked(m)' => Sent(m.from)'
  <2> SUFFICES ASSUME NEW m \in Queued', sd'.IOCWAIT, Asked(m)' PROVE Sent(m.from)'
    OBVIOUS
  <2>1. m \in Queued /\ Asked(m) /\ sd.IOCWAIT
    BY <1>1, <1>4 DEF Asked
  <2>2. Sent(m.from) /\ m.from \in Procs
    BY <1>3, <2>1, QueuedSame DEF IoctlOK
  <2> QED
    BY <1>2, <2>2 DEF Keeps
<1> QED
  BY <1>5, <1>6, <1>7, <1>8 DEF IoctlOK, BeforeSent

\* The mechanism is taken, for a request that no message has the id of.
LEMMA TakeKeeps ==
  ASSUME LpInv, NEW p \in Procs, AtHead(p), pr'[p].call = "ioctl", UNCHANGED q, NEW h, Head0(p, h),
         NEW i \in IocIds \ InFlight, Takes(p, h, i)
  PROVE  IoctlOK'
<1>1. ~sd.IOCWAIT /\ sd'.IOCWAIT /\ ~sd'.iocblk /\ sd'.iocid = i /\ pr'[p].pc = "ioctl"
  BY DEF Head0, Takes, HeadRecord
<1>2. \A a \in Procs : ~Holder(a)
  BY <1>1 DEF LpInv, IoctlOK
<1>3. \A a \in Procs : a # p => ~Holder(a)'
  BY <1>2, HoldersMove DEF AtHead, Keeps
<1>4. Queued' = Queued /\ \A m \in Queued : m.id # i
  BY QueuedSame DEF InFlight, Queued, Members
<1> QED
  BY <1>1, <1>3, <1>4 DEF IoctlOK, Asked

\* The end of the request.
LEMMA EndKeeps ==
  ASSUME LpInv, NEW p \in Procs, Ends(p) PROVE IoctlOK'
<1>1. Holder(p) /\ sd'.IOCWAIT = FALSE /\ ~Holder(p)'
  <2>1. sd \in HeadRecord
    BY DEF LpInv, TypeOK
  <2> QED
    BY <2>1 DEF Ends, AtReply, Holder, Running, IocEnd, HeadRecord, Idle
<1>2. \A a \in Procs : a # p => ~Holder(a)'
  BY <1>1, HoldersMove DEF Ends, AtHead, Keeps, LpInv, IoctlOK
<1> QED
  BY <1>1, <1>2 DEF IoctlOK

\* The M_IOCTL is answered at once, or it will be queued.
LEMMA DecideKeeps ==
  ASSUME LpInv, NEW p \in Procs, Lpputioc(p) PROVE IoctlOK'
<1>1. /\ Moved(p, pr'[p]) /\ pr'[p].call = "ioctl" /\ pr[p].pc = "ioctl" /\ Queued' = Queued
      /\ \/ pr'[p].pc = "getblk" /\ Replied(Ioctl(p), [pr EXCEPT ![p].pc = "getblk"])
         \/ pr'[p].pc = "queue" /\ UNCHANGED sd
  BY LpputiocMoves, QueuedSame DEF Lpputioc, Doing
<1>2. Holder(p) /\ pr[p].call = "ioctl" /\ sd \in HeadRecord /\ IoctlOK
  BY <1>1 DEF LpInv, TypeOK, ProcOK, CallOK, Holder, Running
<1>3. sd.IOCWAIT /\ ~sd.iocblk /\ \A m \in Queued : m.id # sd.iocid
  BY <1>1, <1>2 DEF IoctlOK
<1>4. \A a \in Procs : a # p => ~Holder(a)'
  BY <1>1, <1>2, HoldersMove DEF IoctlOK, Keeps
<1>5. CASE pr'[p].pc = "getblk" /\ Replied(Ioctl(p), [pr EXCEPT ![p].pc = "getblk"])
  <2>1. sd' = [sd EXCEPT !.iocblk = TRUE]
    BY <1>3, <1>5 DEF Replied, Wanted, Ioctl
  <2>2. sd'.iocblk /\ sd'.IOCWAIT /\ sd'.iocid = sd.iocid
    BY <1>2, <1>3, <2>1 DEF HeadRecord
  <2> QED
    BY <1>1, <1>3, <1>4, <1>5, <2>2 DEF IoctlOK, Asked
<1>6. CASE pr'[p].pc = "queue" /\ UNCHANGED sd
  BY <1>1, <1>3, <1>4, <1>6 DEF IoctlOK, Asked
<1> QED
  BY <1>1, <1>5, <1>6

\* The M_IOCTL is queued.
LEMMA AskKeeps ==
  ASSUME LpInv, NEW p \in Procs, QueueIoctl(p) PROVE IoctlOK'
<1>1. /\ Moved(p, pr'[p]) /\ pr'[p].call = "ioctl" /\ pr'[p].pc = "getblk" /\ pr[p].pc = "queue" /\ UNCHANGED sd
      /\ q' = putq(q, Ioctl(p)) \/ q' = putbq(q, Ioctl(p))
  BY PutMoves DEF QueueIoctl, Doing
<1>2. Holder(p) /\ pr[p].call = "ioctl" /\ IoctlOK
  BY <1>1 DEF LpInv, ProcOK, CallOK, Holder, Running
<1>3. sd.IOCWAIT /\ ~sd.iocblk /\ \A m \in Queued : m.id # sd.iocid
  BY <1>1, <1>2 DEF IoctlOK
<1>4. \A a \in Procs : a # p => ~Holder(a)'
  BY <1>1, <1>2, HoldersMove DEF IoctlOK, Keeps
<1>5. PICK m \in Messages : m = Ioctl(p) /\ m.type # "data" /\ m.id = sd.iocid /\ m.from = p
  <2>1. Ioctl(p) \in Messages /\ Ioctl(p).type \in {"drain", "set"}
    BY <1>1, <1>2, MessageFacts
  <2> QED
    BY <2>1 DEF Ioctl
<1>6. Queued' = Queued \cup {m}
  <2>1. q \in Queues(Messages) /\ CountOK(q)
    BY DEF LpInv, TypeOK, QueueOK
  <2> QED
    BY <1>1, <1>5, <2>1, PutFacts DEF Queued
<1>7. Asked(m)' /\ Sent(p)'
  BY <1>1, <1>5 DEF Asked, Sent
<1> QED
  BY <1>1, <1>3, <1>4, <1>5, <1>6, <1>7 DEF IoctlOK, Asked

\* Steps of a process that touch neither the mechanism nor the queue.
LEMMA SilentKeeps ==
  ASSUME LpInv, NEW p \in Procs,
         \/ Tries(p) \/ Returns(p) \/ Closes(p) \/ Stops(p) \/ Leaves(p) \/ Stays(p) \/ Lpoput(p)
         \/ closef(p) \/ Signal(p)
  PROVE  HeadSame /\ (\A a \in Procs : Keeps(a)) /\ (q' = q \/ q' = [q EXCEPT !.QWANTW = TRUE])
<1>1. sd \in HeadRecord /\ pr \in [Procs -> ProcRecord]
  BY DEF LpInv, TypeOK
<1>2. CASE Tries(p) \/ Returns(p) \/ Closes(p) \/ Stops(p) \/ Leaves(p) \/ Stays(p)
  <2>1. Moved(p, pr'[p]) /\ pr' \in [Procs -> ProcRecord] /\ CallOK(pr'[p])
    BY <1>2 DEF Tries, Returns, Closes, Stops, Leaves, Stays, AtHead, Moved, Others
  <2>2. HeadSame
    BY <1>1, <1>2 DEF Tries, Returns, Closes, Stops, InterruptedWrite, Leaves, IocLeave, Stays, HeadRecord, HeadSame
  <2>3. q' = q \/ q' = [q EXCEPT !.QWANTW = TRUE]
    BY <1>2 DEF Tries, Returns, Closes, Stops, Leaves, Stays
  <2>4. Keeps(p)
    <3>1. CASE Stays(p)
      BY <3>1 DEF Stays, AtReply, Keeps, Holder, Sent, In, BeforeSent, Running
    <3>2. CASE Leaves(p)
      <4>1. ~Holder(p)
        BY <3>2 DEF Leaves, Holder, In, Running
      <4>2. ~Holder(p)'
        BY <3>2 DEF Leaves, Holder, Idle
      <4> QED
        BY <2>1, <4>1, <4>2, NotHolder
    <3>3. CASE Tries(p) \/ Returns(p) \/ Closes(p) \/ Stops(p)
      <4>1. pr[p].pc = "user" \/ pr[p].call # "ioctl"
        BY <3>3 DEF Tries, Returns, Closes, Closing, Stops, InterruptedWrite, At
      <4>2. pr'[p].call # "ioctl"
        BY <3>3 DEF Tries, Returns, Closes, Stops, Idle
      <4> QED
        BY <2>1, <4>1, <4>2, NotHolder, InCall DEF Holder
    <3> QED
      BY <1>2, <3>1, <3>2, <3>3
  <2> QED
    BY <2>1, <2>2, <2>3, <2>4, HoldersMove
<1>3. CASE Lpoput(p)
  <2>1. Moved(p, pr'[p]) /\ pr'[p].pc = "run" /\ pr'[p].call = pr[p].call /\ pr[p].pc = "getblk" /\ UNCHANGED <<sd, q>>
    BY <1>3, PutMoves DEF Lpoput, Doing
  <2>2. Keeps(p)
    BY <2>1 DEF Keeps, Holder, Sent, BeforeSent, Running, In
  <2> QED
    BY <2>1, <2>2, HoldersMove DEF HeadSame
<1>4. CASE closef(p)
  BY <1>4 DEF closef, HeadSame, Keeps, Holder, Sent, In, BeforeSent
<1>5. CASE Signal(p)
  <2>1. UNCHANGED <<sd, q>>
    BY <1>5 DEF Signal
  <2> QED
    BY <1>5, <2>1, HoldersMove DEF HeadSame
<1> QED
  BY <1>2, <1>3, <1>4, <1>5

\* What the driver, the printer and the timeouts do, but for the start of a message.
LEMMA QuietKeeps ==
  ASSUME LpInv, Driver \/ Device \/ LoseInterrupt \/ Timers \/ \E S \in SUBSET Procs : stropen(S), ~LpgetoblkNext
  PROVE  HeadSame /\ (\A a \in Procs : Keeps(a)) /\ (q' = q \/ (q' = Left(q) /\ Empty(q)))
<1>1. sd \in HeadRecord
  BY DEF LpInv, TypeOK
<1>2. \A a \in Procs : Keeps(a)
  BY QuietSame, HoldersMove
<1>3. HeadSame
  BY <1>1 DEF Driver, LpgetoblkEnd, queuerun, strwsrv, Device, lpintr, lptmout, LoseInterrupt,
     Timers, str2time, str3time, strtime, stropen, HeadRecord, HeadSame
<1>4. q' = q \/ (q' = Left(q) /\ Empty(q))
  BY DEF Driver, LpgetoblkEnd, queuerun, strwsrv, Device, lpintr, lptmout, LoseInterrupt,
     Timers, str2time, str3time, strtime, stropen
<1> QED
  BY <1>2, <1>3, <1>4

\* A write() puts its message.
LEMMA PutKeeps ==
  ASSUME LpInv, NEW p \in Procs, PutData(p)
  PROVE  (\A a \in Procs : Keeps(a)) /\ cur = NoProc /\ UNCHANGED <<sd, tp>>
<1>1. Moved(p, pr'[p]) /\ pr' \in [Procs -> ProcRecord] /\ CallOK(pr'[p]) /\ pr'[p].call = "write"
  BY PutMoves DEF Moved, Others
<1>2. pr[p].call = "write" /\ cur = NoProc /\ UNCHANGED <<sd, tp>>
  BY DEF PutData, Free, LpInv, ProcOK, CallOK
<1>3. Keeps(p)
  BY <1>1, <1>2, NotHolder DEF Holder
<1> QED
  BY <1>1, <1>2, <1>3, HoldersMove

LEMMA IoctlStep == ASSUME LpInv, Next PROVE IoctlOK'
<1>1. sd \in HeadRecord /\ pr \in [Procs -> ProcRecord] /\ \A p \in Procs : CallOK(pr[p])
  BY DEF LpInv, TypeOK, ProcOK
<1>2. pr' \in [Procs -> ProcRecord] /\ \A p \in Procs : CallOK(pr'[p])
  BY ProcStep DEF ProcKept
<1>3. (\A a \in Procs : Keeps(a)) /\ HeadSame /\ Queued' = Queued => IoctlOK'
  BY IoctlStays
<1>4. ASSUME NEW p \in Procs,
             \/ Tries(p) \/ Returns(p) \/ Closes(p) \/ Stops(p) \/ Leaves(p) \/ Stays(p) \/ Lpoput(p)
             \/ closef(p) \/ Signal(p)
      PROVE  IoctlOK'
  BY <1>3, <1>4, SilentKeeps, QueuedSame
<1>5. ASSUME NEW p \in Procs, Waits(p) PROVE IoctlOK'
  <2>1. PICK h : Head0(p, h)
                 /\ \/ /\ h.IOCWAIT /\ pr'[p].pc = "asleep" /\ pr'[p].chan = "iocwait"
                       /\ sd' = [h EXCEPT !.iocwait = @ + 1]
                    \/ \E i \in IocIds \ InFlight : Takes(p, h, i)
    BY <1>5 DEF Waits
  <2>2. AtHead(p) /\ UNCHANGED q /\ pr'[p].call = "ioctl" /\ Moved(p, pr'[p])
    BY <1>5 DEF Waits, AtHead
  <2>3. CASE pr'[p].pc = "asleep" /\ pr'[p].chan = "iocwait" /\ sd' = [h EXCEPT !.iocwait = @ + 1]
    <3>1. HeadSame
      BY <2>1, <2>3 DEF Head0, HeadRecord, HeadSame
    <3>2. ~Holder(p)
      BY <1>5, InCall DEF Waits, Holder, In, Running
    <3>3. ~Holder(p)'
      BY <2>3 DEF Holder, In, Running
    <3>4. Keeps(p)
      BY <1>2, <3>2, <3>3, NotHolder
    <3> QED
      BY <1>3, <2>2, <3>1, <3>4, HoldersMove, QueuedSame
  <2> QED
    BY <2>1, <2>2, <2>3, TakeKeeps
<1>6. ASSUME NEW p \in Procs, Detach(p) /\ Closing(p) PROVE IoctlOK'
  <2>1. pr' = [pr EXCEPT ![p] = Idle] /\ users = {p} /\ q' = NewQueue /\ sd' = NewHead
    BY <1>6 DEF Detach, Returned, Closing
  <2>2. \A a \in Procs : pr'[a].pc = "user"
    BY <1>1, <2>1 DEF LpInv, ProcOK, UsersOK, Idle
  <2>3. \A a \in Procs : ~Holder(a)'
    BY <2>2 DEF Holder, Running, In
  <2>4. Queued' = {}
    BY <2>1 DEF Queued, Members, NewQueue
  <2> QED
    BY <2>3, <2>4 DEF IoctlOK
<1>7. ASSUME NEW p \in Procs, PutData(p) PROVE IoctlOK'
  <2>1. PICK m : m = IF pr[p].n < rmax THEN pr[p].n ELSE rmax
    OBVIOUS
  <2>2. (\A a \in Procs : Keeps(a)) /\ cur = NoProc /\ UNCHANGED sd
    BY <1>7, PutKeeps
  <2>3. Queued' = Queued \/ Queued' = Queued \cup {Data(p, m)}
    <3>1. CASE m = 0
      BY <1>7, <2>1, <3>1, QueuedSame DEF PutData
    <3>2. CASE m # 0
      <4>1. q' = putq(q, Data(p, m)) /\ Data(p, m) \in Messages /\ q \in Queues(Messages) /\ CountOK(q)
        BY <1>7, <2>1, <3>2, DataFacts, MessageFacts DEF PutData, LpInv, TypeOK, QueueOK
      <4> QED
        BY <4>1, PutFacts DEF Queued
    <3> QED
      BY <3>1, <3>2
  <2>4. Data(p, m).type = "data"
    BY DEF Data
  <2> QED
    BY <2>2, <2>3, <2>4, IoctlStays DEF HeadSame
<1>8. CASE LpgetoblkNext
  <2>1. CASE Head(q.msgs).type = "data"
    <3>1. Same /\ UNCHANGED sd /\ Queued = Queued' \cup {Head(q.msgs)}
      BY <1>8, <2>1, QuietSame, QueuedSame DEF LpgetoblkNext, Driver
    <3> QED
      BY <2>1, <3>1, IoctlStays, HoldersMove DEF HeadSame
  <2> QED
    BY <1>8, <2>1, ReplyKeeps
<1>9. CASE Driver \/ Device \/ LoseInterrupt \/ Timers \/ \E S \in SUBSET Procs : stropen(S)
  <2>1. CASE LpgetoblkNext
    BY <1>8, <2>1
  <2>2. CASE ~LpgetoblkNext
    BY <1>3, <1>9, <2>2, QuietKeeps, QueuedSame
  <2> QED
    BY <2>1, <2>2
<1> QED
  BY <1>4, <1>5, <1>6, <1>7, <1>9, StepKinds, EndKeeps, DecideKeeps, AskKeeps DEF Kinds, Steps

-----------------------------------------------------------------------------
(***************************************************************************)
(* Sleepers.                                                               *)
(***************************************************************************)
WriterFound == sd.WSLEEP /\ (qenab \/ serving \/ (q.QWANTW /\ ~Empty(q)))
DrainFound  == tp.TTIOW /\ (looping \/ ~Drained)

Found(c) ==
  CASE c = "wrq"     -> WriterFound
    [] c = "oflag"   -> DrainFound
    [] c = "iocwait" -> sd.IOCWAIT
    [] c = "ioc"     -> ~sd.iocblk

LEMMA FoundFacts ==
  /\ Found("wrq") = WriterFound /\ Found("oflag") = DrainFound
  /\ Found("iocwait") = sd.IOCWAIT /\ Found("ioc") = ~sd.iocblk
  /\ Found("wrq")' = WriterFound' /\ Found("oflag")' = DrainFound'
  /\ Found("iocwait")' = sd'.IOCWAIT /\ Found("ioc")' = ~sd'.iocblk
BY DEF Found

LEMMA SleepIs == SleepOK <=> \A a \in Procs : \A c \in Chans : Asleep(a, c) => Found(c)
BY FoundFacts DEF SleepOK, WriterFound, DrainFound, Chans

LEMMA SleepIsNext == SleepOK' <=> \A a \in Procs : \A c \in Chans : Asleep(a, c)' => Found(c)'
BY FoundFacts DEF SleepOK, WriterFound, DrainFound, Chans

\* Who sleeps after a step slept before, on the same channel, but the one that moved.
LEMMA SleepersMove ==
  ASSUME LpInv
  PROVE  /\ Same => \A a \in Procs : \A c : Asleep(a, c)' => Asleep(a, c)
         /\ \A p \in Procs : Signal(p) => \A a \in Procs : \A c : Asleep(a, c)' => Asleep(a, c)
         /\ \A p \in Procs : Moved(p, pr'[p]) => \A a \in Procs : a # p => \A c : Asleep(a, c)' => Asleep(a, c)
         /\ \A f \in [Procs -> ProcRecord] : \A c : pr' = wakeprocs(f, c) => \A a \in Procs : ~Asleep(a, c)'
<1>1. pr \in [Procs -> ProcRecord]
  BY DEF LpInv, TypeOK
<1>2. \A a \in Procs : Woken(pr[a], pr'[a]) => \A c : Asleep(a, c)' => Asleep(a, c)
  BY <1>1, WokenFacts DEF Asleep
<1>3. ASSUME NEW p \in Procs, Signal(p) PROVE \A a \in Procs : \A c : Asleep(a, c)' => Asleep(a, c)
  <2>1. pr[p].pc = "asleep" /\ pr' = [pr EXCEPT ![p].pc = "signalled"]
    BY <1>3 DEF Signal
  <2>2. \A a \in Procs : a # p => pr'[a] = pr[a]
    BY <1>1, <2>1
  <2>3. pr'[p].pc = "signalled"
    BY <1>1, <2>1 DEF ProcRecord
  <2> QED
    BY <2>1, <2>2, <2>3 DEF Asleep
<1>4. ASSUME NEW f \in [Procs -> ProcRecord], NEW c, pr' = wakeprocs(f, c) PROVE \A a \in Procs : ~Asleep(a, c)'
  BY <1>4, WakeFacts DEF Asleep
<1> QED
  BY <1>2, <1>3, <1>4 DEF Same, Moved, Others

\* A writer is found as long as the queue and the flags are not touched, or more is queued.
LEMMA WriterStays ==
  ASSUME LpInv, WriterFound, sd'.WSLEEP = sd.WSLEEP,
         (qenab' = qenab /\ serving' = serving) \/ (qenab' \/ serving'),
         \/ q' = q \/ q' = [q EXCEPT !.QWANTW = TRUE]
         \/ \E m \in Messages : q' = putq(q, m) \/ q' = putbq(q, m)
  PROVE  WriterFound'
<1>1. q \in Queues(Messages) /\ CountOK(q)
  BY DEF LpInv, TypeOK, QueueOK
<1>2. q.QWANTW /\ ~Empty(q) => q'.QWANTW /\ ~Empty(q')
  <2>1. CASE q' = q \/ q' = [q EXCEPT !.QWANTW = TRUE]
    BY <2>1, WantFacts DEF Empty
  <2>2. CASE \E m \in Messages : q' = putq(q, m) \/ q' = putbq(q, m)
    BY <1>1, <2>2, PutFacts
  <2> QED
    BY <2>1, <2>2
<1> QED
  BY <1>2 DEF WriterFound, Empty

LEMMA DrainStays ==
  ASSUME LpInv, DrainFound, tp'.TTIOW = tp.TTIOW, tp'.bu_bp = tp.bu_bp, looping' = looping \/ ~looping,
         q'.msgs = q.msgs \/ ~Empty(q')
  PROVE  DrainFound'
BY DEF DrainFound, Drained, Empty

\* A full queue is not empty, nor is one whose count is not 0.
LEMMA FullFacts ==
  ASSUME LpInv PROVE (q.QFULL \/ q.count # 0) => ~Empty(q)
<1>1. q.count = Bytes(q.msgs) /\ q.QFULL = (q.count >= hiwat)
  BY DEF LpInv, QueueOK, CountOK
<1>2. CASE Empty(q)
  <2>1. q.count = 0
    BY <1>1, <1>2, BytesEmpty DEF Empty
  <2>2. ~(q.count >= hiwat)
    BY <2>1, MarksAssumption
  <2> QED
    BY <1>1, <2>1, <2>2
<1> QED
  BY <1>2

\* With a process that closes nobody else is in a call.
LEMMA Alone ==
  ASSUME LpInv, NEW p \in Procs, Closing(p), Moved(p, pr'[p])
  PROVE  \A a \in Procs : a # p => pr'[a].pc = "user"
<1>1. pr \in [Procs -> ProcRecord] /\ \A a \in Procs : a # p => pr[a].pc = "user"
  BY DEF LpInv, TypeOK, ProcOK, UsersOK, Closing
<1> QED
  BY <1>1 DEF Moved, Others, Woken

\* Steps of the driver and of the service procedure.
LEMMA DriverSleep == ASSUME LpInv, Driver PROVE SleepOK'
<1>1. /\ q \in Queues(Messages) /\ CountOK(q) /\ pr \in [Procs -> ProcRecord] /\ sd \in HeadRecord /\ tp \in TtyRecord
      /\ \A a \in Procs : \A c \in Chans : Asleep(a, c) => Found(c)
  BY SleepIs DEF LpInv, TypeOK, QueueOK
<1>2. Same /\ \A a \in Procs : \A c : Asleep(a, c)' => Asleep(a, c)
  BY QuietSame, SleepersMove
<1>3. q.QWANTW => Backenables(q) \/ (Left(q).QWANTW /\ ~Empty(Left(q)))
  BY <1>1, LeftFacts
<1>4. ASSUME UNCHANGED serving, q' = Left(q), qenab' = (qenab \/ Backenables(q)), WriterFound, sd'.WSLEEP = sd.WSLEEP
      PROVE  WriterFound'
  BY <1>3, <1>4 DEF WriterFound, Empty
<1>5. CASE LpgetoblkNext
  <2>1. sd'.WSLEEP = sd.WSLEEP /\ sd'.IOCWAIT = sd.IOCWAIT
    BY <1>1, <1>5 DEF LpgetoblkNext, Replied, HeadRecord
  <2>2. WriterFound => WriterFound'
    BY <1>4, <1>5, <2>1 DEF LpgetoblkNext
  <2>3. DrainFound => DrainFound'
    <3>1. tp'.TTIOW = tp.TTIOW /\ looping'
      <4>1. \A b : [tp EXCEPT !.BUSY = TRUE, !.bu_bp = b].TTIOW = tp.TTIOW
        BY <1>1 DEF TtyRecord
      <4> QED
        BY <1>5, <4>1 DEF LpgetoblkNext
    <3> QED
      BY <3>1 DEF DrainFound
  <2>4. \A a \in Procs : Asleep(a, "ioc")' => ~sd'.iocblk
    <3>1. sd' = sd \/ \A a \in Procs : ~Asleep(a, "ioc")'
      BY <1>1, <1>5, SleepersMove DEF LpgetoblkNext, Replied
    <3> QED
      BY <1>1, <1>2, <3>1, FoundFacts DEF Chans
  <2> QED
    BY <1>1, <1>2, <2>1, <2>2, <2>3, <2>4, FoundFacts, SleepIsNext DEF Chans
<1>6. CASE LpgetoblkEnd
  <2>1. UNCHANGED <<sd, serving>> /\ ((UNCHANGED <<q, qenab>>) \/ (q' = Left(q) /\ qenab' = (qenab \/ Backenables(q))))
    BY <1>6 DEF LpgetoblkEnd
  <2>2. WriterFound => WriterFound'
    BY <1>4, <2>1, WriterStays
  <2>3. \A a \in Procs : Asleep(a, "oflag")' => DrainFound'
    <3>1. CASE tp.bu_bp = NoBlock /\ tp.TTIOW
      BY <1>1, <1>6, <3>1, SleepersMove DEF LpgetoblkEnd
    <3>2. CASE ~(tp.bu_bp = NoBlock /\ tp.TTIOW)
      <4>1. UNCHANGED tp
        BY <1>6, <3>2 DEF LpgetoblkEnd
      <4>2. \A a \in Procs : Asleep(a, "oflag")' => tp.TTIOW
        BY <1>1, <1>2, FoundFacts DEF Chans, DrainFound
      <4> QED
        BY <3>2, <4>1, <4>2 DEF DrainFound, Drained
    <3> QED
      BY <3>1, <3>2
  <2> QED
    BY <1>1, <1>2, <2>1, <2>2, <2>3, FoundFacts, SleepIsNext DEF Chans
<1>7. CASE queuerun
  <2>1. UNCHANGED <<q, sd, tp, looping>> /\ serving'
    BY <1>7 DEF queuerun
  <2>2. WriterFound => WriterFound'
    BY <2>1, WriterStays
  <2>3. DrainFound => DrainFound'
    BY <2>1 DEF DrainFound, Drained
  <2> QED
    BY <1>1, <1>2, <2>1, <2>2, <2>3, FoundFacts, SleepIsNext DEF Chans
<1>8. CASE strwsrv
  <2>1. UNCHANGED <<q, tp, looping>>
    BY <1>8 DEF strwsrv
  <2>2. \A a \in Procs : ~Asleep(a, "wrq")'
    <3>1. CASE sd.WSLEEP
      BY <1>1, <1>8, <3>1, SleepersMove DEF strwsrv
    <3>2. CASE ~sd.WSLEEP
      BY <1>1, <1>2, <3>2, FoundFacts DEF Chans, WriterFound
    <3> QED
      BY <3>1, <3>2
  <2>3. DrainFound => DrainFound'
    BY <2>1 DEF DrainFound, Drained
  <2>4. sd'.IOCWAIT = sd.IOCWAIT /\ sd'.iocblk = sd.iocblk
    BY <1>1, <1>8 DEF strwsrv, HeadRecord
  <2> QED
    BY <1>1, <1>2, <2>2, <2>3, <2>4, FoundFacts, SleepIsNext DEF Chans
<1> QED
  BY <1>5, <1>6, <1>7, <1>8 DEF Driver

\* Interrupts, timeouts and the open.
LEMMA QuietSleep ==
  ASSUME LpInv, Device \/ LoseInterrupt \/ Timers \/ \E S \in SUBSET Procs : stropen(S) PROVE SleepOK'
<1>1. /\ pr \in [Procs -> ProcRecord] /\ sd \in HeadRecord /\ tp \in TtyRecord /\ PrinterOK /\ NoProc \notin Procs
      /\ \A a \in Procs : \A c \in Chans : Asleep(a, c) => Found(c)
  BY SleepIs, LpAssumption DEF LpInv, TypeOK
<1>2. \A a \in Procs : \A c : Asleep(a, c)' => Asleep(a, c)
  BY QuietSame, SleepersMove
<1>3. UNCHANGED <<q, qenab, serving>>
  BY DEF Device, lpintr, lptmout, LoseInterrupt, Timers, str2time, str3time, strtime, stropen
<1>4. sd'.WSLEEP = sd.WSLEEP /\ sd'.IOCWAIT = sd.IOCWAIT /\ sd'.iocblk = sd.iocblk
  BY <1>1 DEF Device, lpintr, lptmout, LoseInterrupt, Timers, str2time, str3time, strtime, stropen, HeadRecord
<1>5. WriterFound => WriterFound'
  BY <1>3, <1>4, WriterStays
<1>6. \A a \in Procs : Asleep(a, "oflag")' => DrainFound'
  <2> SUFFICES ASSUME NEW a \in Procs, Asleep(a, "oflag")' PROVE DrainFound'
    OBVIOUS
  <2>1. Asleep(a, "oflag") /\ DrainFound
    BY <1>1, <1>2, FoundFacts DEF Chans
  <2>2. CASE Device
    <3>1. PICK d : lpxintr(d) /\ ~looping
      BY <2>2 DEF Device, lpintr, lptmout, Unmasked
    <3>2. tp.TTIOW /\ ~Drained
      BY <2>1, <3>1 DEF DrainFound
    <3>3. CASE tp.BUSY /\ tp.bu_bp.left > 0
      <4>1. tp.bu_bp.from \in Procs /\ tp' = [tp EXCEPT !.bu_bp.left = @ - 1]
        BY <1>1, <3>1, <3>3 DEF PrinterOK, lpxintr
      <4>2. tp'.TTIOW = tp.TTIOW /\ tp'.bu_bp.from = tp.bu_bp.from
        BY <1>1, <4>1 DEF TtyRecord
      <4>3. tp'.bu_bp # NoBlock
        BY <1>1, <4>1, <4>2 DEF NoBlock
      <4> QED
        BY <3>2, <4>2, <4>3 DEF DrainFound, Drained
    <3>4. CASE tp.BUSY /\ ~(tp.bu_bp.left > 0)
      <4>1. tp.ISOPEN
        BY <2>1 DEF LpInv, ProcOK, UsersOK, Asleep
      <4>2. looping' /\ tp' = [tp EXCEPT !.BUSY = FALSE, !.bu_bp = NoBlock]
        BY <3>1, <3>4, <4>1 DEF lpxintr
      <4>3. tp'.TTIOW = tp.TTIOW
        BY <1>1, <4>2 DEF TtyRecord
      <4> QED
        BY <3>2, <4>2, <4>3 DEF DrainFound
    <3>5. CASE ~tp.BUSY
      BY <1>3, <3>1, <3>2, <3>5 DEF lpxintr, DrainFound, Drained
    <3> QED
      BY <3>3, <3>4, <3>5
  <2>3. CASE ~Device
    <3>1. tp'.TTIOW = tp.TTIOW /\ tp'.bu_bp = tp.bu_bp /\ looping' = looping
      BY <1>1, <2>3 DEF LoseInterrupt, Timers, str2time, str3time, strtime, stropen, TtyRecord
    <3> QED
      BY <1>3, <2>1, <3>1, DrainStays
  <2> QED
    BY <2>2, <2>3
<1> QED
  BY <1>1, <1>2, <1>4, <1>5, <1>6, FoundFacts, SleepIsNext DEF Chans

LEMMA SleepStep == ASSUME LpInv, Next PROVE SleepOK'
<1>1. /\ pr \in [Procs -> ProcRecord] /\ sd \in HeadRecord /\ tp \in TtyRecord
      /\ \A a \in Procs : \A c \in Chans : Asleep(a, c) => Found(c)
  BY SleepIs DEF LpInv, TypeOK
\* A process that is not asleep now moves, and what the others wait for stays.
<1>2. ASSUME NEW p \in Procs, Moved(p, pr'[p]),
             \A c \in Chans : Asleep(p, c)' => Found(c)',
             \A c \in Chans : Found(c) => Found(c)' \/ \A a \in Procs : a # p => ~Asleep(a, c)'
      PROVE  SleepOK'
  <2>1. \A a \in Procs : a # p => \A c : Asleep(a, c)' => Asleep(a, c)
    BY <1>2, SleepersMove
  <2> QED
    BY <1>1, <1>2, <2>1, SleepIsNext
<1>3. ASSUME NEW p \in Procs, Tries(p) PROVE SleepOK'
  <2>1. Moved(p, pr'[p]) /\ UNCHANGED <<tp, qenab, serving, looping>> /\ (q' = q \/ q' = [q EXCEPT !.QWANTW = TRUE])
    BY <1>3 DEF Tries, AtHead
  <2>2. sd'.IOCWAIT = sd.IOCWAIT /\ sd'.iocblk = sd.iocblk /\ (sd.WSLEEP => sd'.WSLEEP)
    BY <1>1, <1>3 DEF Tries, HeadRecord
  <2>3. WriterFound => WriterFound'
    BY <2>1, <2>2, WantFacts DEF WriterFound, Empty
  <2>4. DrainFound => DrainFound'
    BY <2>1, WantFacts, DrainStays
  <2>5. \A c \in Chans : Asleep(p, c)' => Found(c)'
    <3>1. ASSUME NEW c \in Chans, Asleep(p, c)' PROVE c = "wrq" /\ WriterFound'
      <4>1. c = "wrq" /\ q.QFULL /\ q' = [q EXCEPT !.QWANTW = TRUE] /\ sd' = [sd EXCEPT !.WSLEEP = TRUE]
        BY <1>3, <3>1 DEF Tries, Asleep, Idle
      <4>2. sd'.WSLEEP /\ q'.QWANTW /\ ~Empty(q')
        BY <1>1, <4>1, WantFacts, FullFacts DEF Empty, HeadRecord
      <4> QED
        BY <4>1, <4>2 DEF WriterFound
    <3> QED
      BY <3>1, FoundFacts
  <2> QED
    BY <1>2, <2>1, <2>2, <2>3, <2>4, <2>5, FoundFacts DEF Chans
<1>4. ASSUME NEW p \in Procs, Returns(p) \/ Leaves(p) \/ Stays(p) \/ Lpoput(p) PROVE SleepOK'
  <2>1. Moved(p, pr'[p]) /\ UNCHANGED <<q, tp, qenab, serving>> /\ (looping' = looping \/ ~looping)
    <3>1. CASE Lpoput(p)
      BY <3>1, PutMoves DEF Lpoput, Doing
    <3>2. CASE Returns(p) \/ Leaves(p) \/ Stays(p)
      BY <3>2 DEF Returns, Leaves, Stays, AtHead
    <3> QED
      BY <1>4, <3>1, <3>2
  <2>2. sd'.IOCWAIT = sd.IOCWAIT /\ sd'.iocblk = sd.iocblk /\ sd'.WSLEEP = sd.WSLEEP
    BY <1>1, <1>4 DEF Returns, Leaves, IocLeave, Stays, Lpoput, HeadRecord
  <2>3. WriterFound => WriterFound'
    BY <2>1, <2>2, WriterStays
  <2>4. DrainFound => DrainFound'
    BY <2>1, DrainStays
  <2>5. \A c \in Chans : Asleep(p, c)' => c = "ioc" /\ ~sd.iocblk
    <3>1. Lpoput(p) => pr'[p].pc = "run"
      BY PutMoves
    <3> QED
      BY <1>4, <3>1 DEF Returns, Leaves, Stays, Asleep, Idle
  <2> QED
    BY <1>2, <2>1, <2>2, <2>3, <2>4, <2>5, FoundFacts DEF Chans
<1>5. ASSUME NEW p \in Procs, Waits(p) PROVE SleepOK'
  <2>1. Moved(p, pr'[p]) /\ UNCHANGED <<q, tp, qenab, serving, looping>>
    BY <1>5 DEF Waits, AtHead
  <2>2. PICK h : Head0(p, h)
                 /\ \/ /\ h.IOCWAIT /\ pr'[p].pc = "asleep" /\ pr'[p].chan = "iocwait"
                       /\ sd' = [h EXCEPT !.iocwait = @ + 1]
                    \/ \E i \in IocIds \ InFlight : Takes(p, h, i)
    BY <1>5 DEF Waits
  <2>3. /\ sd'.WSLEEP = sd.WSLEEP /\ sd'.IOCWAIT /\ (sd'.iocblk => sd.iocblk)
        /\ pr'[p].pc = "asleep" => pr'[p].chan = "iocwait"
    <3>1. ASSUME NEW i, Takes(p, h, i)
          PROVE  sd'.WSLEEP = sd.WSLEEP /\ sd'.IOCWAIT /\ ~sd'.iocblk /\ pr'[p].pc # "asleep"
      BY <2>2, <3>1 DEF Takes, Head0, HeadRecord
    <3>2. CASE h.IOCWAIT /\ pr'[p].pc = "asleep" /\ pr'[p].chan = "iocwait" /\ sd' = [h EXCEPT !.iocwait = @ + 1]
      BY <2>2, <3>2 DEF Head0, HeadRecord
    <3> QED
      BY <2>2, <3>1, <3>2
  <2>4. WriterFound => WriterFound'
    BY <2>1, <2>3, WriterStays
  <2>5. DrainFound => DrainFound'
    BY <2>1, DrainStays
  <2> QED
    BY <1>2, <2>1, <2>3, <2>4, <2>5, FoundFacts DEF Chans, Asleep
<1>6. ASSUME NEW p \in Procs, Ends(p) PROVE SleepOK'
  <2>1. Moved(p, pr'[p]) /\ pr'[p] = Idle /\ UNCHANGED <<q, tp, qenab, serving, looping>> /\ IocEnd(p)
    BY <1>6 DEF Ends, AtHead
  <2>2. sd'.WSLEEP = sd.WSLEEP /\ ~sd'.iocblk
    BY <1>1, <2>1 DEF IocEnd, HeadRecord
  <2>3. \A a \in Procs : ~Asleep(a, "iocwait")'
    BY <1>1, <2>1, IdleFacts, SleepersMove DEF IocEnd, Returned
  <2>4. WriterFound => WriterFound'
    BY <2>1, <2>2, WriterStays
  <2>5. DrainFound => DrainFound'
    BY <2>1, DrainStays
  <2>6. \A c : ~Asleep(p, c)'
    BY <2>1 DEF Asleep, Idle
  <2>7. ASSUME NEW c \in Chans, Found(c) PROVE Found(c)' \/ \A a \in Procs : a # p => ~Asleep(a, c)'
    <3>1. CASE c = "wrq"
      BY <2>4, <2>7, <3>1, FoundFacts
    <3>2. CASE c = "oflag"
      BY <2>5, <2>7, <3>2, FoundFacts
    <3>3. CASE c = "iocwait"
      BY <2>3, <3>3
    <3>4. CASE c = "ioc"
      BY <2>2, <3>4, FoundFacts
    <3> QED
      BY <3>1, <3>2, <3>3, <3>4 DEF Chans
  <2> QED
    BY <1>2, <2>1, <2>6, <2>7
<1>7. ASSUME NEW p \in Procs, Closes(p) PROVE SleepOK'
  <2>1. Moved(p, pr'[p]) /\ Closing(p) /\ UNCHANGED <<qenab, serving, looping>> /\ ~looping
    BY <1>7 DEF Closes, AtHead
  <2>2. \A a \in Procs : a # p => \A c : ~Asleep(a, c)'
    BY <2>1, Alone DEF Asleep
  <2>3. ASSUME NEW c \in Chans, Asleep(p, c)' PROVE Found(c)'
    <3>1. pr'[p].pc = "asleep" /\ pr'[p].chan = c
      BY <2>3 DEF Asleep
    <3>2. CASE c = "wrq"
      <4>1. q.count # 0 /\ q' = [q EXCEPT !.QWANTW = TRUE] /\ sd' = [sd EXCEPT !.STRTIME = TRUE, !.WSLEEP = TRUE]
        BY <1>7, <3>1, <3>2 DEF Closes
      <4>2. sd'.WSLEEP /\ q'.QWANTW /\ ~Empty(q')
        BY <1>1, <4>1, WantFacts, FullFacts DEF Empty, HeadRecord
      <4> QED
        BY <3>2, <4>2, FoundFacts DEF WriterFound
    <3>3. CASE c # "wrq"
      <4>1. c = "oflag" /\ ~Drained /\ UNCHANGED q /\ tp' = [tp EXCEPT !.TTIOW = TRUE]
        BY <1>7, <3>1, <3>3 DEF Closes
      <4>2. tp'.TTIOW /\ tp'.bu_bp = tp.bu_bp
        BY <1>1, <4>1 DEF TtyRecord
      <4> QED
        BY <4>1, <4>2, FoundFacts DEF DrainFound, Drained
    <3> QED
      BY <3>2, <3>3
  <2> QED
    BY <1>2, <2>1, <2>2, <2>3
<1>8. ASSUME NEW p \in Procs, Stops(p) PROVE SleepOK'
  <2>1. /\ Moved(p, pr'[p]) /\ pr'[p] = Idle /\ UNCHANGED <<q, tp, qenab, serving, looping>>
        /\ pr' = wakeprocs(Returned(p), "wrq") /\ sd' = [sd EXCEPT !.WSLEEP = FALSE]
    BY <1>8 DEF Stops, AtHead, InterruptedWrite
  <2>2. sd'.IOCWAIT = sd.IOCWAIT /\ sd'.iocblk = sd.iocblk
    BY <1>1, <2>1 DEF HeadRecord
  <2>3. \A a \in Procs : ~Asleep(a, "wrq")'
    BY <1>1, <2>1, IdleFacts, SleepersMove DEF Returned
  <2>4. DrainFound => DrainFound'
    BY <2>1, DrainStays
  <2> QED
    BY <1>2, <2>1, <2>2, <2>3, <2>4, FoundFacts DEF Chans, Asleep, Idle
<1>9. ASSUME NEW p \in Procs, Detach(p) /\ Closing(p) PROVE SleepOK'
  <2>1. pr' = [pr EXCEPT ![p] = Idle] /\ users = {p}
    BY <1>9 DEF Detach, Returned, Closing
  <2>2. \A a \in Procs : pr'[a].pc = "user"
    BY <1>1, <2>1 DEF LpInv, ProcOK, UsersOK, Idle
  <2> QED
    BY <2>2, SleepIsNext DEF Asleep
<1>10. ASSUME NEW p \in Procs, PutData(p) \/ QueueIoctl(p) PROVE SleepOK'
  <2>1. Moved(p, pr'[p]) /\ pr'[p].pc = "getblk" /\ UNCHANGED <<sd, tp, qenab, serving, looping>>
    BY <1>10, PutMoves DEF PutData, QueueIoctl
  <2>2. q' = q \/ \E m \in Messages : q' = putq(q, m) \/ q' = putbq(q, m)
    <3>1. CASE PutData(p)
      BY <3>1, DataFacts, MessageFacts DEF PutData
    <3>2. CASE QueueIoctl(p)
      <4>1. pr[p].pc # "user" /\ pr[p].call = "ioctl"
        BY <3>2 DEF QueueIoctl, Doing, LpInv, ProcOK, CallOK
      <4> QED
        BY <3>2, <4>1, MessageFacts DEF QueueIoctl
    <3> QED
      BY <1>10, <3>1, <3>2
  <2>3. WriterFound => WriterFound'
    BY <2>1, <2>2, WriterStays
  <2>4. q'.msgs = q.msgs \/ ~Empty(q')
    <3>1. q \in Queues(Messages) /\ CountOK(q)
      BY DEF LpInv, TypeOK, QueueOK
    <3> QED
      BY <2>2, <3>1, PutFacts
  <2>5. DrainFound => DrainFound'
    BY <2>1, <2>4, DrainStays
  <2> QED
    BY <1>2, <2>1, <2>3, <2>5, FoundFacts DEF Chans, Asleep
<1>11. ASSUME NEW p \in Procs, Lpputioc(p) PROVE SleepOK'
  <2>1. /\ Moved(p, pr'[p]) /\ pr'[p].pc \in {"getblk", "queue"} /\ UNCHANGED <<q, tp, qenab, serving, looping>>
        /\ pr[p].pc = "ioctl"
    BY <1>11, LpputiocMoves DEF Lpputioc, Doing
  <2>2. sd'.WSLEEP = sd.WSLEEP /\ sd'.IOCWAIT = sd.IOCWAIT
    BY <1>1, <1>11 DEF Lpputioc, Replied, HeadRecord
  <2>3. sd' = sd \/ \A a \in Procs : ~Asleep(a, "ioc")'
    <3>1. [pr EXCEPT ![p].pc = "getblk"] \in [Procs -> ProcRecord]
      BY <1>1 DEF ProcRecord
    <3> QED
      BY <1>11, <3>1, SleepersMove DEF Lpputioc, Replied
  <2>4. WriterFound => WriterFound'
    BY <2>1, <2>2, WriterStays
  <2>5. DrainFound => DrainFound'
    BY <2>1, DrainStays
  <2> QED
    BY <1>2, <2>1, <2>2, <2>3, <2>4, <2>5, FoundFacts DEF Chans, Asleep
<1>12. CASE Driver \/ Device \/ LoseInterrupt \/ Timers \/ \E S \in SUBSET Procs : stropen(S)
  BY <1>12, DriverSleep, QuietSleep
<1>13. ASSUME NEW p \in Procs, closef(p) \/ Signal(p) PROVE SleepOK'
  <2>1. UNCHANGED <<sd, q, tp, qenab, serving, looping>>
    BY <1>13 DEF closef, Signal
  <2>2. \A c \in Chans : Found(c) => Found(c)'
    BY <2>1, FoundFacts DEF Chans, WriterFound, DrainFound, Drained, Empty
  <2>3. \A a \in Procs : \A c : Asleep(a, c)' => Asleep(a, c)
    <3>1. CASE closef(p)
      BY <3>1 DEF closef, Asleep
    <3>2. CASE Signal(p)
      BY <3>2, SleepersMove
    <3> QED
      BY <1>13, <3>1, <3>2
  <2> QED
    BY <1>1, <2>2, <2>3, SleepIsNext
<1> QED
  BY <1>3, <1>4, <1>5, <1>6, <1>7, <1>8, <1>9, <1>10, <1>11, <1>12, <1>13, StepKinds DEF Kinds, Steps

-----------------------------------------------------------------------------
(***************************************************************************)
(* The invariant holds of every behaviour.                                 *)
(***************************************************************************)
LEMMA InitInv == Init => LpInv
<1> SUFFICES ASSUME Init PROVE LpInv
  OBVIOUS
<1>1. /\ users = {} /\ q = NewQueue /\ sd = NewHead /\ cur = NoProc
      /\ tp = [ISOPEN |-> FALSE, BUSY |-> FALSE, TTIOW |-> FALSE, bu_bp |-> NoBlock]
      /\ dev = [irqs |-> 0, armed |-> FALSE, lptmrun |-> FALSE]
      /\ timers = [str2 |-> {}, str3 |-> FALSE]
      /\ qenab = FALSE /\ serving = FALSE /\ looping = FALSE
      /\ \A p \in Procs : pr[p] = Idle
  BY DEF Init
<1>2. \A p \in Procs : pr[p].pc = "user" /\ pr[p].call = "none"
  BY <1>1 DEF Idle
<1>3. CountOK(q) /\ q \in Queues(Messages) /\ Empty(q) /\ Queued = {} /\ Bytes(q.msgs) = 0
  <2>1. q.msgs = <<>> /\ q.count = 0 /\ q.QFULL = FALSE /\ q.QWANTW = FALSE /\ q \in Queues(Messages)
    BY <1>1 DEF NewQueue, Queues
  <2>2. (0 >= hiwat) = FALSE
    BY MarksAssumption
  <2>3. q.QFULL = (q.count >= hiwat) /\ q.count = Bytes(q.msgs)
    BY <2>1, <2>2, BytesEmpty
  <2> QED
    BY <2>1, <2>3, BytesEmpty DEF Empty, Queued, Members, CountOK
<1>4. TypeOK
  <2>1. pr \in [Procs -> ProcRecord]
    BY IdleFacts DEF Init
  <2>2. sd \in HeadRecord
    BY <1>1 DEF NewHead, HeadRecord
  <2>3. tp \in TtyRecord
    BY <1>1 DEF TtyRecord, NoBlock
  <2>4. dev \in DevRecord
    <3>1. 0 \in 0 .. MaxIrqs
      BY LpAssumption
    <3> QED
      BY <1>1, <3>1 DEF DevRecord
  <2> QED
    BY <1>1, <1>3, <2>1, <2>2, <2>3, <2>4 DEF TypeOK
<1>5. ProcOK
  BY <1>1, <1>2, <1>3, IdleFacts DEF ProcOK, CurOK, UsersOK, Running
<1>6. IoctlOK
  BY <1>2, <1>3 DEF IoctlOK, Holder
<1>7. QueueOK
  <2>1. Queuing = {} /\ Copying = {}
    BY <1>2 DEF Queuing, Copying, In
  <2>2. sd.iocwait = Cardinality(Queuing)
    BY <1>1, <2>1, FS_EmptySet DEF NewHead
  <2>3. RoomOK
    <3>1. Cardinality(Copying) = 0 /\ Cardinality(Procs) \in Nat /\ 0 <= Cardinality(Procs)
      BY <2>1, FS_EmptySet, LpAssumption, FS_CardinalityType
    <3>2. Cardinality(Kept(q.msgs)) \in Nat /\ 0 < hiwat
      BY <1>3, KeptFinite, MarksAssumption DEF Queues
    <3>3. Room(0, 0, Cardinality(Kept(q.msgs)))
      BY <3>1, <3>2, RoomFacts
    <3> QED
      BY <1>3, <3>1, <3>3 DEF RoomOK, Room
  <2> QED
    BY <1>3, <2>2, <2>3 DEF QueueOK
<1>8. PrinterOK
  BY <1>1, <1>3, LpAssumption DEF PrinterOK
<1>9. SleepOK
  BY <1>2 DEF SleepOK, Asleep
<1> QED
  BY <1>4, <1>5, <1>6, <1>7, <1>8, <1>9 DEF LpInv

LEMMA NextInv == LpInv /\ [Next]_vars => LpInv'
<1> SUFFICES ASSUME LpInv, [Next]_vars PROVE LpInv'
  OBVIOUS
<1>1. CASE Next
  <2>1. ProcOK'
    BY <1>1, ProcStep, OpenStep DEF ProcKept, OpenKept, ProcOK, UsersOK
  <2>2. PrinterOK'
    BY <1>1, PrinterStep, OutputStep DEF PrinterKept, MovesKept, PrinterOK, AtGetblk
  <2> QED
    BY <1>1, <2>1, <2>2, TypeStep, IoctlStep, QueueInvStep, SleepStep DEF LpInv
<1>2. CASE UNCHANGED vars
  <2>1. TypeOK'
    BY <1>2 DEF vars, LpInv, TypeOK
  <2>2. ProcOK'
    BY <1>2 DEF vars, LpInv, ProcOK, CurOK, UsersOK
  <2>3. IoctlOK'
    BY <1>2 DEF vars, LpInv, IoctlOK, Holder, In, Queued, Asked, Sent
  <2>4. QueueOK'
    <3>1. Queuing' = Queuing /\ Copying' = Copying
      BY <1>2 DEF vars, Queuing, Copying, In
    <3> QED
      BY <1>2, <3>1 DEF vars, LpInv, QueueOK, Queued, RoomOK
  <2>5. PrinterOK'
    BY <1>2 DEF vars, LpInv, PrinterOK
  <2>6. SleepOK'
    BY <1>2 DEF vars, LpInv, SleepOK, Asleep, Drained
  <2> QED
    BY <2>1, <2>2, <2>3, <2>4, <2>5, <2>6 DEF LpInv
<1> QED
  BY <1>1, <1>2

\* The inductive invariant of the stream.
THEOREM Invariant == Spec => []LpInv
<1>1. Init => LpInv
  BY InitInv
<1>2. LpInv /\ [Next]_vars => LpInv'
  BY NextInv
<1> QED
  BY <1>1, <1>2, PTL DEF Spec

\* The flow control of the queue keeps count, sd_iocwait counts those who wait for
\* the ioctl mechanism, and the queue holds no more than the high water mark, what
\* those who had passed canput() bring and the M_IOCTLs (putq(), getq(),
\* strdoioctl() and strwrite()).
THEOREM StreamAlwaysOK == Spec => []StreamOK
<1>1. LpInv => StreamOK
  <2> SUFFICES ASSUME LpInv PROVE StreamOK
    OBVIOUS
  <2>1. /\ TypeOK /\ CountOK(q) /\ sd.iocwait = Cardinality(Queuing)
        /\ Room(Bytes(q.msgs), Cardinality(Copying), Cardinality(Kept(q.msgs)))
    BY DEF LpInv, QueueOK, RoomOK, Room
  <2>2. Room(Bytes(q.msgs), 0, Cardinality(Kept(q.msgs)))
    <3>1. q.msgs \in Seq(Messages) /\ Bytes(q.msgs) \in Nat
      BY <2>1, LeftFacts DEF TypeOK, Queues
    <3>2. Copying \in SUBSET Procs
      BY DEF Copying
    <3> QED
      BY <2>1, <3>1, <3>2, KeptFinite, CountFacts, RoomFacts
  <2>3. Bytes(q.msgs) < hiwat + rmax * Cardinality(Procs) + IocSize * Cardinality(Kept(q.msgs))
    <3>1. rmax * 0 = 0 /\ Bytes(q.msgs) \in Nat
      BY <2>1, LpAssumption, LeftFacts DEF TypeOK
    <3> QED
      BY <2>2, <3>1 DEF Room
  <2> QED
    BY <2>1, <2>3 DEF StreamOK, CountsOK, Queuing, Kept, Ioctls
<1> QED
  BY <1>1, Invariant, PTL

\* Nobody sleeps in strwaitq(), strclose(), lpclose() or strdoioctl() for what has
\* happened: the wakeup is to come, and the flags by which it finds the sleeper are set.
THEOREM NobodySleepsOn == Spec => []NoLostWakeup
<1>1. LpInv => NoLostWakeup
  <2> SUFFICES ASSUME LpInv, ~looping, NEW p \in Procs
               PROVE  /\ Asleep(p, "wrq") => sd.WSLEEP /\ (qenab \/ serving \/ (q.QWANTW /\ ~Empty(q)))
                      /\ Asleep(p, "oflag") => tp.TTIOW /\ ~Drained
                      /\ Asleep(p, "iocwait") => sd.IOCWAIT
                      /\ Asleep(p, "ioc") =>
                           /\ sd.IOCWAIT /\ ~sd.iocblk
                           /\ \E i \in Ioctls : q.msgs[i].id = sd.iocid /\ q.msgs[i].from = p
    BY DEF NoLostWakeup
  <2>1. /\ Asleep(p, "wrq") => sd.WSLEEP /\ (qenab \/ serving \/ (q.QWANTW /\ ~Empty(q)))
        /\ Asleep(p, "oflag") => tp.TTIOW /\ ~Drained
        /\ Asleep(p, "iocwait") => sd.IOCWAIT
        /\ Asleep(p, "ioc") => ~sd.iocblk
    BY DEF LpInv, SleepOK
  <2>2. ASSUME Asleep(p, "ioc")
        PROVE  sd.IOCWAIT /\ \E i \in Ioctls : q.msgs[i].id = sd.iocid /\ q.msgs[i].from = p
    <3>1. Holder(p) /\ ~BeforeSent(pr[p])
      <4>1. In(p, "ioc")
        BY <2>2 DEF Asleep, In
      <4> QED
        BY <2>2, <4>1, InCall DEF Holder, BeforeSent, Asleep
    <3>2. sd.IOCWAIT /\ \E m \in Queued : Asked(m) /\ m.from = p
      BY <2>1, <2>2, <3>1 DEF LpInv, IoctlOK, BeforeSent
    <3> QED
      BY <3>2 DEF Queued, Members, Asked, Ioctls
  <2> QED
    BY <2>1, <2>2
<1> QED
  BY <1>1, Invariant, PTL

\* What is queued is being printed or about to be, and what is printed has an
\* interrupt or the watchdog to come, if no interrupt is lost unattended (lpoput(),
\* lpputioc(), lpgetoblk(), lpxintr() and lptmout()).
THEOREM OutputAlwaysMoves == ASSUME ~Unattended PROVE Spec => []OutputMoves
<1>1. LpInv => OutputMoves
  <2> SUFFICES ASSUME LpInv, ~looping
               PROVE  /\ ~Empty(q) => tp.BUSY \/ (cur # NoProc /\ pr[cur].pc = "getblk")
                      /\ tp.BUSY <=> tp.bu_bp # NoBlock
                      /\ tp.BUSY => dev.irqs > 0 \/ (dev.armed /\ dev.lptmrun)
    BY DEF OutputMoves
  <2>1. tp.BUSY => tp.bu_bp # NoBlock
    BY LpAssumption DEF LpInv, PrinterOK, NoBlock
  <2> QED
    BY <2>1 DEF LpInv, PrinterOK
<1> QED
  BY <1>1, Invariant, PTL

-----------------------------------------------------------------------------
(***************************************************************************)
(* The spool of LpSpec: the message at the printer and the image of the    *)
(* queue.                                                                  *)
(***************************************************************************)
Entry == [kind : {"data"} \cup Cmds, from : Procs, left : Nat, live : BOOLEAN]

Chars(b) == [kind |-> "data", from |-> b.from, left |-> b.left, live |-> FALSE]
Front(b) == IF b = NoBlock THEN <<>> ELSE <<Chars(b)>>

EntryOf(m, h) ==
  [kind |-> m.type, from |-> m.from, left |-> IF m.type = "data" THEN m.size ELSE 0,
   live |-> m.type # "data" /\ h.IOCWAIT /\ m.id = h.iocid]

ImageOf(s, h) == [i \in DOMAIN s |-> EntryOf(s[i], h)]

LEMMA SpoolIs ==
  AbsSpool = Front(tp.bu_bp) \o ImageOf(q.msgs, sd) /\ AbsSpool' = Front(tp'.bu_bp) \o ImageOf(q'.msgs, sd')
BY DEF AbsSpool, Front, Chars, ImageOf, EntryOf, AbsEntry

LEMMA EntryFacts ==
  ASSUME NEW m \in Messages, NEW h \in HeadRecord
  PROVE  EntryOf(m, h) \in Entry
BY DEF Messages, HeadRecord, EntryOf, Entry

LEMMA ImageFacts ==
  ASSUME NEW s \in Seq(Messages), NEW h \in HeadRecord
  PROVE  /\ ImageOf(s, h) \in Seq(Entry) /\ Len(ImageOf(s, h)) = Len(s) /\ Len(s) \in Nat
         /\ \A i \in 1 .. Len(s) : ImageOf(s, h)[i] = EntryOf(s[i], h) /\ s[i] \in Messages
<1>1. Len(s) \in Nat /\ DOMAIN s = 1 .. Len(s) /\ \A i \in 1 .. Len(s) : s[i] \in Messages
  BY LenProperties, ElementOfSeq
<1>2. ImageOf(s, h) = [i \in 1 .. Len(s) |-> EntryOf(s[i], h)]
  BY <1>1 DEF ImageOf
<1>3. \A i \in 1 .. Len(s) : EntryOf(s[i], h) \in Entry
  BY <1>1, EntryFacts
<1> QED
  BY <1>1, <1>2, <1>3

LEMMA ImageSame ==
  ASSUME NEW s \in Seq(Messages), NEW h, NEW g, h.IOCWAIT = g.IOCWAIT, h.iocid = g.iocid
  PROVE  ImageOf(s, h) = ImageOf(s, g)
BY DEF ImageOf, EntryOf

LEMMA ImageAppend ==
  ASSUME NEW s \in Seq(Messages), NEW m \in Messages, NEW h \in HeadRecord
  PROVE  ImageOf(Append(s, m), h) = Append(ImageOf(s, h), EntryOf(m, h))
<1> DEFINE u == Append(s, m)
           v == Append(ImageOf(s, h), EntryOf(m, h))
           n == Len(s)
<1>1. /\ u \in Seq(Messages) /\ Len(u) = n + 1 /\ u[n + 1] = m /\ n \in Nat
      /\ \A i \in 1 .. n : u[i] = s[i]
  BY AppendProperties, LenProperties
<1>2. /\ ImageOf(s, h) \in Seq(Entry) /\ Len(ImageOf(s, h)) = n
      /\ \A i \in 1 .. n : ImageOf(s, h)[i] = EntryOf(s[i], h)
  BY ImageFacts
<1>3. v \in Seq(Entry) /\ Len(v) = n + 1 /\ v[n + 1] = EntryOf(m, h) /\ \A i \in 1 .. n : v[i] = ImageOf(s, h)[i]
  BY <1>2, EntryFacts, AppendProperties
<1> HIDE DEF u, v
<1>4. /\ ImageOf(u, h) \in Seq(Entry) /\ Len(ImageOf(u, h)) = n + 1
      /\ \A i \in 1 .. n + 1 : ImageOf(u, h)[i] = EntryOf(u[i], h)
  BY <1>1, ImageFacts
<1>5. \A i \in 1 .. n + 1 : ImageOf(u, h)[i] = v[i]
  <2>1. \A i \in 1 .. n + 1 : i = n + 1 \/ i \in 1 .. n
    BY <1>1
  <2> QED
    BY <1>1, <1>2, <1>3, <1>4, <2>1
<1>6. ImageOf(u, h) = v
  BY <1>3, <1>4, <1>5, SeqEqual
<1> QED
  BY <1>6 DEF u, v

LEMMA ImagePush ==
  ASSUME NEW s \in Seq(Messages), NEW m \in Messages, NEW h \in HeadRecord
  PROVE  ImageOf(<<m>> \o s, h) = <<EntryOf(m, h)>> \o ImageOf(s, h)
<1> DEFINE u == <<m>> \o s
           v == <<EntryOf(m, h)>> \o ImageOf(s, h)
           n == Len(s)
<1>1. n \in Nat /\ <<m>> \in Seq(Messages) /\ Len(<<m>>) = 1 /\ <<m>>[1] = m
  BY LenProperties
<1>2. /\ u \in Seq(Messages) /\ Len(u) = n + 1
      /\ \A i \in 1 .. n + 1 : u[i] = IF i <= 1 THEN m ELSE s[i - 1]
  <2>1. /\ u \in Seq(Messages) /\ Len(u) = Len(<<m>>) + n
        /\ \A i \in 1 .. Len(<<m>>) + n : u[i] = IF i <= Len(<<m>>) THEN <<m>>[i] ELSE s[i - Len(<<m>>)]
    BY <1>1, ConcatProperties
  <2> QED
    BY <1>1, <2>1
<1>3. /\ ImageOf(s, h) \in Seq(Entry) /\ Len(ImageOf(s, h)) = n
      /\ \A i \in 1 .. n : ImageOf(s, h)[i] = EntryOf(s[i], h)
  BY ImageFacts
<1>4. /\ v \in Seq(Entry) /\ Len(v) = n + 1
      /\ \A i \in 1 .. n + 1 : v[i] = IF i <= 1 THEN EntryOf(m, h) ELSE ImageOf(s, h)[i - 1]
  <2> DEFINE e == EntryOf(m, h)
  <2>1. e \in Entry
    BY EntryFacts
  <2> HIDE DEF e
  <2>2. <<e>> \in Seq(Entry) /\ Len(<<e>>) = 1 /\ <<e>>[1] = e
    BY <2>1
  <2>3. /\ <<e>> \o ImageOf(s, h) \in Seq(Entry) /\ Len(<<e>> \o ImageOf(s, h)) = 1 + n
        /\ \A i \in 1 .. 1 + n : (<<e>> \o ImageOf(s, h))[i] = IF i <= 1 THEN <<e>>[i] ELSE ImageOf(s, h)[i - 1]
    BY <1>3, <2>2, ConcatProperties
  <2>4. \A i \in 1 .. n + 1 : i <= 1 => i = 1
    OBVIOUS
  <2> QED
    BY <1>1, <2>2, <2>3, <2>4 DEF e
<1> HIDE DEF u, v
<1>5. /\ ImageOf(u, h) \in Seq(Entry) /\ Len(ImageOf(u, h)) = n + 1
      /\ \A i \in 1 .. n + 1 : ImageOf(u, h)[i] = EntryOf(u[i], h)
  BY <1>2, ImageFacts
<1>6. \A i \in 1 .. n + 1 : ImageOf(u, h)[i] = v[i]
  <2>1. \A i \in 1 .. n + 1 : i <= 1 \/ i - 1 \in 1 .. n
    BY <1>1
  <2> QED
    BY <1>2, <1>3, <1>4, <1>5, <2>1
<1>7. ImageOf(u, h) = v
  BY <1>4, <1>5, <1>6, SeqEqual
<1> QED
  BY <1>7 DEF u, v

LEMMA ImageTail ==
  ASSUME NEW s \in Seq(Messages), NEW h \in HeadRecord, s # <<>>
  PROVE  /\ ImageOf(s, h) # <<>> /\ Head(ImageOf(s, h)) = EntryOf(Head(s), h)
         /\ Tail(ImageOf(s, h)) = ImageOf(Tail(s), h)
<1> DEFINE u == ImageOf(s, h)
           n == Len(s)
<1>1. /\ Tail(s) \in Seq(Messages) /\ Len(Tail(s)) = n - 1 /\ n \in Nat \ {0} /\ Head(s) = s[1]
      /\ \A i \in 1 .. n - 1 : Tail(s)[i] = s[i + 1]
  <2>1. n \in Nat \ {0}
    BY EmptySeq
  <2> QED
    BY <2>1, HeadTailProperties
<1>2. u \in Seq(Entry) /\ Len(u) = n /\ \A i \in 1 .. n : u[i] = EntryOf(s[i], h)
  BY ImageFacts
<1>3. /\ ImageOf(Tail(s), h) \in Seq(Entry) /\ Len(ImageOf(Tail(s), h)) = n - 1
      /\ \A i \in 1 .. n - 1 : ImageOf(Tail(s), h)[i] = EntryOf(Tail(s)[i], h)
  <2>1. PICK w \in Seq(Messages) : w = Tail(s) /\ Len(w) = n - 1
    BY Zenon, <1>1
  <2>2. /\ ImageOf(w, h) \in Seq(Entry) /\ Len(ImageOf(w, h)) = Len(w)
        /\ \A i \in 1 .. Len(w) : ImageOf(w, h)[i] = EntryOf(w[i], h)
    BY ImageFacts
  <2> QED
    BY Zenon, <2>1, <2>2
<1> HIDE DEF u
<1>4. u # <<>>
  <2>1. Len(u) # 0
    BY <1>1, <1>2
  <2> QED
    BY <2>1
<1>5. Head(u) = EntryOf(Head(s), h)
  <2>1. Head(u) = u[1] /\ 1 \in 1 .. n
    BY <1>1, <1>2, <1>4
  <2> QED
    BY <1>1, <1>2, <2>1
<1>6. Tail(u) \in Seq(Entry) /\ Len(Tail(u)) = n - 1 /\ \A i \in 1 .. n - 1 : Tail(u)[i] = u[i + 1]
  BY <1>2, <1>4, HeadTailProperties
<1>7. \A i \in 1 .. n - 1 : Tail(u)[i] = ImageOf(Tail(s), h)[i]
  <2>1. \A i \in 1 .. n - 1 : i + 1 \in 1 .. n
    BY <1>1
  <2> QED
    BY <1>1, <1>2, <1>3, <1>6, <2>1
<1>8. Tail(u) = ImageOf(Tail(s), h)
  BY <1>3, <1>6, <1>7, SeqEqual
<1> QED
  BY <1>4, <1>5, <1>8 DEF u

LEMMA ImageEmpty == \A h : ImageOf(<<>>, h) = <<>>
<1> SUFFICES ASSUME NEW h PROVE ImageOf(<<>>, h) = <<>>
  OBVIOUS
<1>1. DOMAIN <<>> = {}
  OBVIOUS
<1>2. DOMAIN ImageOf(<<>>, h) = {}
  BY <1>1 DEF ImageOf
<1> QED
  BY <1>1 DEF ImageOf

\* A message put back at the front has nothing, or the one at the printer, before it.
LEMMA PushSplits ==
  ASSUME NEW f \in Seq(Entry), NEW r \in Seq(Entry), NEW e \in Entry
  PROVE  /\ Len(f) <= Len(f \o r)
         /\ f \o (<<e>> \o r)
              = SubSeq(f \o r, 1, Len(f)) \o <<e>> \o SubSeq(f \o r, Len(f) + 1, Len(f \o r))
<1> DEFINE u == f \o r
           n == Len(f)
           k == Len(r)
           b == SubSeq(u, 1, n)
           a == SubSeq(u, n + 1, Len(u))
<1>1. n \in Nat /\ k \in Nat
  BY LenProperties
<1>2. /\ u \in Seq(Entry) /\ Len(u) = n + k
      /\ \A i \in 1 .. n + k : u[i] = IF i <= n THEN f[i] ELSE r[i - n]
  BY ConcatProperties
<1> HIDE DEF u
<1>3. b = f
  <2>1. \A i \in 1 .. n : i \in 1 .. n + k /\ u[i] = f[i]
    BY <1>1, <1>2
  <2>2. \A i \in 1 .. n : u[i] \in Entry
    BY <2>1, ElementOfSeq
  <2>3. b \in Seq(Entry) /\ Len(b) = n /\ \A i \in 1 .. n : b[i] = u[1 + i - 1]
    <3>1. 1 \in Int /\ n \in Int /\ (1 <= n => n - 1 + 1 = n) /\ n - 1 + 1 = n /\ (~(1 <= n) => n = 0)
      BY <1>1
    <3> QED
      BY <2>2, <3>1, SubSeqProperties
  <2>4. \A i \in 1 .. n : 1 + i - 1 = i
    BY <1>1
  <2> HIDE DEF b
  <2> QED
    BY <2>1, <2>3, <2>4, SeqEqual
<1>4. a = r
  <2>1. ASSUME NEW i \in 1 .. k PROVE n + 1 + i - 1 \in 1 .. n + k /\ u[n + 1 + i - 1] = r[i]
    <3>1. n + 1 + i - 1 = n + i /\ n + i \in 1 .. n + k /\ ~(n + i <= n) /\ (n + i) - n = i
      BY <1>1
    <3>2. u[n + i] = r[(n + i) - n]
      BY <1>2, <3>1
    <3> QED
      BY <3>1, <3>2
  <2>2. \A j \in n + 1 .. n + k : u[j] \in Entry
    <3> SUFFICES ASSUME NEW j \in n + 1 .. n + k PROVE u[j] \in Entry
      OBVIOUS
    <3>1. j \in 1 .. Len(u)
      BY <1>1, <1>2
    <3> QED
      BY <1>2, <3>1, ElementOfSeq
  <2>3. a \in Seq(Entry) /\ Len(a) = k /\ \A i \in 1 .. k : a[i] = u[n + 1 + i - 1]
    <3>1. n + 1 \in Int /\ n + k \in Int /\ (n + k) - (n + 1) + 1 = k /\ (~(n + 1 <= n + k) => k = 0)
      BY <1>1
    <3> QED
      BY <1>2, <2>2, <3>1, SubSeqProperties
  <2> HIDE DEF a
  <2> QED
    BY <2>1, <2>3, SeqEqual
<1> HIDE DEF a, b
<1>5. f \o (<<e>> \o r) = (f \o <<e>>) \o r
  <2>1. <<e>> \in Seq(Entry)
    OBVIOUS
  <2> QED
    BY <2>1, ConcatAssociative
<1>6. f \o (<<e>> \o r) = b \o <<e>> \o a
  BY <1>3, <1>4, <1>5
<1>7. Len(f) <= Len(u)
  BY <1>1, <1>2
<1> QED
  BY Zenon, <1>6, <1>7 DEF a, b, u

\* A change of what is left of the first entry.
LEMMA FirstChanges ==
  ASSUME NEW u \in Seq(Entry), u # <<>>, NEW n \in Nat
  PROVE  [u EXCEPT ![1].left = n] = <<[Head(u) EXCEPT !.left = n]>> \o Tail(u)
<1> DEFINE k == Len(u)
           c == [Head(u) EXCEPT !.left = n]
           v == [u EXCEPT ![1].left = n]
           w == <<c>> \o Tail(u)
<1>1. /\ k \in Nat \ {0} /\ Head(u) = u[1] /\ Head(u) \in Entry /\ Tail(u) \in Seq(Entry) /\ Len(Tail(u)) = k - 1
      /\ \A i \in 1 .. k - 1 : Tail(u)[i] = u[i + 1]
  <2>1. k \in Nat \ {0}
    BY EmptySeq, LenProperties
  <2> QED
    BY <2>1, HeadTailProperties
<1>2. c \in Entry /\ <<c>> \in Seq(Entry) /\ Len(<<c>>) = 1 /\ <<c>>[1] = c
  BY <1>1 DEF Entry
<1>3. v \in Seq(Entry) /\ Len(v) = k /\ v[1] = c /\ \A i \in 2 .. k : v[i] = u[i]
  <2>1. v = [u EXCEPT ![1] = c]
    BY <1>1
  <2>2. 1 \in 1 .. k
    BY <1>1
  <2> HIDE DEF v, c
  <2> QED
    BY <1>2, <2>1, <2>2, ExceptSeq
<1>4. /\ w \in Seq(Entry) /\ Len(w) = 1 + (k - 1)
      /\ \A i \in 1 .. 1 + (k - 1) : w[i] = IF i <= 1 THEN <<c>>[i] ELSE Tail(u)[i - 1]
  <2> HIDE DEF c
  <2> QED
    BY <1>1, <1>2, ConcatProperties
<1> HIDE DEF v, w, c
<1>5. ASSUME NEW i \in 1 .. k PROVE v[i] = w[i]
  <2>1. CASE i = 1
    BY <1>1, <1>2, <1>3, <1>4, <2>1
  <2>2. CASE i # 1
    <3>1. i \in 2 .. k /\ i - 1 \in 1 .. k - 1 /\ (i - 1) + 1 = i /\ i \in 1 .. 1 + (k - 1) /\ ~(i <= 1)
      BY <1>1, <2>2
    <3> QED
      BY <1>1, <1>3, <1>4, <3>1
  <2> QED
    BY <2>1, <2>2
<1>6. v = w
  <2>1. Len(w) = k
    BY <1>1, <1>4
  <2> QED
    BY <1>3, <1>4, <1>5, <2>1, SeqEqual
<1> QED
  BY <1>6 DEF v, w, c

\* The message at the printer is the first of the spool.
LEMMA FrontFacts ==
  ASSUME NEW b \in [from : Procs, left : Nat], NEW r \in Seq(Entry)
  PROVE  /\ Front(b) = <<Chars(b)>> /\ Chars(b) \in Entry
         /\ Front(b) \o r \in Seq(Entry) /\ Front(b) \o r # <<>>
         /\ Head(Front(b) \o r) = Chars(b) /\ Tail(Front(b) \o r) = r
<1>1. b # NoBlock
  BY LpAssumption DEF NoBlock
<1>2. Chars(b) \in Entry
  BY DEF Chars, Entry
<1>3. PICK e \in Entry : e = Chars(b)
  BY <1>2
<1>4. <<e>> \in Seq(Entry) /\ Len(<<e>>) = 1 /\ <<e>>[1] = e /\ Len(r) \in Nat
  BY LenProperties
<1> DEFINE u == <<e>> \o r
<1>5. /\ u \in Seq(Entry) /\ Len(u) = 1 + Len(r)
      /\ \A i \in 1 .. 1 + Len(r) : u[i] = IF i <= 1 THEN <<e>>[i] ELSE r[i - 1]
  BY <1>4, ConcatProperties
<1> HIDE DEF u
<1>6. u # <<>> /\ Head(u) = e
  <2>1. Len(u) # 0 /\ 1 \in 1 .. 1 + Len(r)
    BY <1>4, <1>5
  <2>2. u # <<>> /\ Head(u) = u[1]
    BY <1>5, <2>1
  <2> QED
    BY <1>4, <1>5, <2>1, <2>2
<1>7. Tail(u) = r
  <2>1. Tail(u) \in Seq(Entry) /\ Len(Tail(u)) = Len(u) - 1 /\ \A i \in 1 .. Len(Tail(u)) : Tail(u)[i] = u[i + 1]
    BY <1>5, <1>6, HeadTailProperties
  <2>2. Len(Tail(u)) = Len(r)
    BY <1>4, <1>5, <2>1
  <2>3. \A i \in 1 .. Len(r) : Tail(u)[i] = r[i]
    <3>1. \A i \in 1 .. Len(r) : i + 1 \in 1 .. 1 + Len(r) /\ ~(i + 1 <= 1) /\ (i + 1) - 1 = i
      BY <1>4
    <3> QED
      BY <1>5, <2>1, <2>2, <3>1
  <2> QED
    BY <2>1, <2>2, <2>3, SeqEqual
<1> QED
  BY <1>1, <1>2, <1>3, <1>5, <1>6, <1>7 DEF u, Front

LEMMA NoFront ==
  ASSUME NEW r \in Seq(Entry) PROVE Front(NoBlock) = <<>> /\ Front(NoBlock) \o r = r
BY ConcatEmptySeq DEF Front

LEMMA FrontAppend ==
  ASSUME NEW f \in Seq(Entry), NEW r \in Seq(Entry), NEW e \in Entry
  PROVE  f \o Append(r, e) = Append(f \o r, e)
<1>1. <<e>> \in Seq(Entry) /\ f \o r \in Seq(Entry)
  BY ConcatProperties
<1>2. Append(r, e) = r \o <<e>> /\ Append(f \o r, e) = (f \o r) \o <<e>>
  BY <1>1, AppendIsConcat
<1> QED
  BY <1>1, <1>2, ConcatAssociative

-----------------------------------------------------------------------------
(***************************************************************************)
(* The requests of LpSpec.                                                 *)
(***************************************************************************)
\* Those who ask, and whether the reply is there.
LEMMA ReqStays ==
  ASSUME \A a \in Procs : Sent(a)' = Sent(a),
         sd'.iocblk = sd.iocblk \/ \A a \in Procs : ~Sent(a)
  PROVE  AbsReq' = AbsReq
BY DEF AbsReq

LEMMA NoneSent ==
  /\ (\A a \in Procs : ~Sent(a)) => AbsReq = [a \in Procs |-> "none"]
  /\ (\A a \in Procs : ~Sent(a)') => AbsReq' = [a \in Procs |-> "none"]
BY DEF AbsReq

LEMMA ReqOne ==
  ASSUME NEW p \in Procs, \A a \in Procs : a # p => ~Sent(a) /\ ~Sent(a)'
  PROVE  /\ AbsReq' = [AbsReq EXCEPT ![p] = AbsReq'[p]]
         /\ AbsReq[p] = IF ~Sent(p) THEN "none" ELSE IF sd.iocblk THEN "answered" ELSE "sent"
         /\ AbsReq'[p] = IF ~Sent(p)' THEN "none" ELSE IF sd'.iocblk THEN "answered" ELSE "sent"
<1> DEFINE V(a) == IF ~Sent(a) THEN "none" ELSE IF sd.iocblk THEN "answered" ELSE "sent"
           W(a) == IF ~Sent(a)' THEN "none" ELSE IF sd'.iocblk THEN "answered" ELSE "sent"
<1>1. AbsReq = [a \in Procs |-> V(a)] /\ AbsReq' = [a \in Procs |-> W(a)]
  BY DEF AbsReq
<1>2. \A a \in Procs : a # p => W(a) = V(a)
  OBVIOUS
<1> HIDE DEF V, W
<1>3. AbsReq[p] = V(p) /\ AbsReq'[p] = W(p)
  BY <1>1
<1>4. AbsReq' = [AbsReq EXCEPT ![p] = W(p)]
  BY <1>1, <1>2
<1> QED
  BY <1>3, <1>4 DEF V, W

\* One process at most asks.
LEMMA OneSent ==
  ASSUME LpInv, NEW p \in Procs, Holder(p)
  PROVE  sd.IOCWAIT /\ \A a \in Procs : a # p => ~Holder(a) /\ ~Sent(a)
<1>1. \A a \in Procs : Holder(a) => a = p
  BY DEF LpInv, IoctlOK
<1> QED
  BY <1>1, HolderIs DEF LpInv, IoctlOK

LEMMA SpoolTypes ==
  ASSUME LpInv
  PROVE  /\ sd \in HeadRecord /\ q.msgs \in Seq(Messages) /\ tp \in TtyRecord /\ pr \in [Procs -> ProcRecord]
         /\ ImageOf(q.msgs, sd) \in Seq(Entry) /\ AbsSpool \in Seq(Entry)
         /\ tp.bu_bp = NoBlock \/ tp.bu_bp \in [from : Procs, left : Nat]
         /\ Front(tp.bu_bp) \in Seq(Entry) /\ Len(Front(tp.bu_bp)) \in {0, 1}
         /\ tp.BUSY => tp.bu_bp \in [from : Procs, left : Nat]
         /\ ~tp.BUSY => tp.bu_bp = NoBlock
<1>1. sd \in HeadRecord /\ q.msgs \in Seq(Messages) /\ tp \in TtyRecord /\ pr \in [Procs -> ProcRecord]
  BY DEF LpInv, TypeOK, Queues
<1>2. (tp.BUSY => tp.bu_bp \in [from : Procs, left : Nat]) /\ (~tp.BUSY => tp.bu_bp = NoBlock)
  BY <1>1 DEF LpInv, PrinterOK, TtyRecord
<1>3. PICK r \in Seq(Entry) : r = ImageOf(q.msgs, sd)
  BY <1>1, ImageFacts
<1>4. Front(tp.bu_bp) \in Seq(Entry) /\ Len(Front(tp.bu_bp)) \in {0, 1} /\ Front(tp.bu_bp) \o r \in Seq(Entry)
  <2>1. CASE tp.BUSY
    <3>1. Front(tp.bu_bp) = <<Chars(tp.bu_bp)>> /\ Chars(tp.bu_bp) \in Entry /\ Front(tp.bu_bp) \o r \in Seq(Entry)
      BY <1>2, <2>1, FrontFacts
    <3> QED
      BY <3>1
  <2>2. CASE ~tp.BUSY
    <3>1. Front(tp.bu_bp) = <<>> /\ Front(tp.bu_bp) \o r = r
      BY <1>2, <2>2, NoFront
    <3> QED
      BY <3>1
  <2> QED
    BY <2>1, <2>2
<1> QED
  BY <1>1, <1>2, <1>3, <1>4, SpoolIs

\* Steps that LpSpec does not see.
LEMMA Stutters ==
  ASSUME LpInv, HeadSame, tp'.bu_bp = tp.bu_bp, q'.msgs = q.msgs, \A a \in Procs : Keeps(a)
  PROVE  AbsSpool' = AbsSpool /\ AbsReq' = AbsReq
<1>1. ImageOf(q'.msgs, sd') = ImageOf(q.msgs, sd)
  BY SpoolTypes, ImageSame DEF HeadSame
<1>2. AbsSpool' = AbsSpool
  BY <1>1, SpoolIs
<1> QED
  BY <1>2, ReqStays DEF HeadSame, Keeps

-----------------------------------------------------------------------------
(***************************************************************************)
(* Every step is one of LpSpec, or none.                                   *)
(***************************************************************************)
Implements == Abs!SpecNext \/ (AbsSpool' = AbsSpool /\ AbsReq' = AbsReq)

LEMMA FewerLeft ==
  ASSUME NEW x \in Entry, NEW y \in Entry, x.kind = y.kind, x.from = y.from, x.live = y.live
  PROVE  [x EXCEPT !.left = y.left] = y
BY DEF Entry

\* The driver starts the next message: its first character is out.
LEMMA StartImplements ==
  ASSUME LpInv, LpgetoblkNext, Head(q.msgs).type = "data" PROVE Implements
<1> DEFINE R == ImageOf(q.msgs, sd)
<1>1. PICK m : m = Head(q.msgs)
  OBVIOUS
<1>2. /\ ~tp.BUSY /\ ~Empty(q) /\ q' = Left(q) /\ UNCHANGED <<sd, pr>>
      /\ tp'.bu_bp = [from |-> m.from, left |-> m.size - 1]
  <2>1. tp' = [tp EXCEPT !.BUSY = TRUE, !.bu_bp = [from |-> m.from, left |-> m.size - 1]]
    BY <1>1 DEF LpgetoblkNext
  <2> QED
    BY <2>1, SpoolTypes DEF LpgetoblkNext, TtyRecord
<1>3. m \in Messages /\ m.type = "data" /\ m.size \in 1 .. rmax
  BY <1>1, <1>2, FirstFacts DEF Size
<1>4. q'.msgs = Tail(q.msgs) /\ q.msgs # <<>>
  BY <1>2, LeftFacts DEF LpInv, TypeOK, QueueOK, Empty
<1>5. R \in Seq(Entry) /\ sd \in HeadRecord /\ q.msgs \in Seq(Messages) /\ AbsSpool = R
  <2>1. R \in Seq(Entry) /\ tp.bu_bp = NoBlock /\ sd \in HeadRecord /\ q.msgs \in Seq(Messages)
    BY <1>2, SpoolTypes
  <2> QED
    BY <2>1, NoFront, SpoolIs
<1>6. R # <<>> /\ Head(R) = EntryOf(m, sd) /\ Tail(R) = ImageOf(Tail(q.msgs), sd)
  BY <1>1, <1>4, <1>5, ImageTail
<1>7. PICK n \in Nat : n = m.size - 1 /\ m.size = n + 1
  BY <1>3, LpAssumption
<1>8. EntryOf(m, sd) = [kind |-> "data", from |-> m.from, left |-> n + 1, live |-> FALSE]
  BY <1>3, <1>7 DEF EntryOf
<1>9. AbsSpool' = <<[Head(R) EXCEPT !.left = n]>> \o Tail(R)
  <2>1. PICK b \in [from : Procs, left : Nat] : b = tp'.bu_bp /\ b.from = m.from /\ b.left = n
    BY <1>2, <1>3, <1>7 DEF Messages
  <2>2. Front(tp'.bu_bp) = <<[kind |-> "data", from |-> m.from, left |-> n, live |-> FALSE]>>
    <3>1. Front(b) = <<Chars(b)>>
      BY <2>1, EmptySeq, FrontFacts
    <3> QED
      BY <2>1, <3>1 DEF Chars
  <2>3. [EntryOf(m, sd) EXCEPT !.left = n] = [kind |-> "data", from |-> m.from, left |-> n, live |-> FALSE]
    <3>1. PICK x \in Entry, y \in Entry :
            x = EntryOf(m, sd) /\ y = [kind |-> "data", from |-> m.from, left |-> n, live |-> FALSE]
      <4>1. EntryOf(m, sd) \in Entry
        BY <1>3, <1>5, EntryFacts
      <4>2. Chars(b) \in Entry /\ Chars(b) = [kind |-> "data", from |-> m.from, left |-> n, live |-> FALSE]
        BY <2>1, EmptySeq, FrontFacts DEF Chars
      <4> QED
        BY Zenon, <4>1, <4>2
    <3>2. x.kind = y.kind /\ x.from = y.from /\ x.live = y.live /\ y.left = n
      BY <1>8, <3>1
    <3> QED
      BY <3>1, <3>2, FewerLeft
  <2>4. AbsSpool' = Front(tp'.bu_bp) \o Tail(R)
    BY <1>2, <1>4, <1>6, SpoolIs
  <2> QED
    BY <1>6, <2>2, <2>3, <2>4
<1> HIDE DEF R
<1>10. AbsSpool' = [AbsSpool EXCEPT ![1].left = n]
  BY <1>5, <1>6, <1>9, FirstChanges
<1>11. AbsSpool' = [AbsSpool EXCEPT ![1].left = @ - 1]
  <2>1. AbsSpool[1] = Head(R)
    BY <1>5, <1>6
  <2>2. AbsSpool[1].left - 1 = n
    BY <1>6, <1>7, <1>8, <2>1
  <2> QED
    BY <1>10, <2>2
<1>12. AbsReq' = AbsReq
  BY <1>2, ReqStays DEF Sent, In
<1>13. AbsSpool # <<>> /\ Head(AbsSpool).kind = "data" /\ Head(AbsSpool).left > 0
  <2>1. AbsSpool # <<>> /\ Head(AbsSpool) = EntryOf(m, sd)
    BY <1>5, <1>6
  <2>2. EntryOf(m, sd).kind = "data" /\ EntryOf(m, sd).left = n + 1
    BY <1>8
  <2> QED
    BY <2>1, <2>2
<1> QED
  BY <1>11, <1>12, <1>13 DEF Implements, Abs!SpecNext, Abs!PrintChar

\* The driver answers an M_IOCTL that has come to the front.
LEMMA AnswerImplements ==
  ASSUME LpInv, LpgetoblkNext, Head(q.msgs).type # "data" PROVE Implements
<1> DEFINE R == ImageOf(q.msgs, sd)
<1>1. PICK m : m = Head(q.msgs)
  OBVIOUS
<1>2. ~tp.BUSY /\ ~Empty(q) /\ q' = Left(q) /\ UNCHANGED tp /\ Replied(m, pr)
  BY <1>1 DEF LpgetoblkNext
<1>3. m \in Messages /\ m \in Queued /\ m.type # "data" /\ m.from \in Procs
  BY <1>1, <1>2, FirstFacts, QueuedSame
<1>4. q'.msgs = Tail(q.msgs) /\ q.msgs # <<>>
  BY <1>2, LeftFacts DEF LpInv, TypeOK, QueueOK, Empty
<1>5. R \in Seq(Entry) /\ sd \in HeadRecord /\ q.msgs \in Seq(Messages) /\ AbsSpool = R /\ tp.bu_bp = NoBlock
  <2>1. R \in Seq(Entry) /\ tp.bu_bp = NoBlock /\ sd \in HeadRecord /\ q.msgs \in Seq(Messages)
    BY <1>2, SpoolTypes
  <2> QED
    BY <2>1, NoFront, SpoolIs
<1>6. R # <<>> /\ Head(R) = EntryOf(m, sd) /\ Tail(R) = ImageOf(Tail(q.msgs), sd)
  BY <1>1, <1>4, <1>5, ImageTail
<1>7. sd'.IOCWAIT = sd.IOCWAIT /\ sd'.iocid = sd.iocid
      /\ (Wanted(m) => sd'.iocblk) /\ (~Wanted(m) => sd' = sd)
  BY <1>2, <1>5 DEF Replied, HeadRecord
<1>8. AbsSpool' = Tail(R)
  <2>1. Tail(q.msgs) \in Seq(Messages)
    BY <1>4, <1>5, HeadTailProperties
  <2>2. ImageOf(q'.msgs, sd') = Tail(R)
    BY <1>4, <1>6, <1>7, <2>1, ImageSame
  <2>3. Tail(R) \in Seq(Entry)
    BY <1>5, <1>6, HeadTailProperties
  <2> QED
    BY <1>2, <1>5, <2>2, <2>3, NoFront, SpoolIs
<1>9. \A a \in Procs : Sent(a)' = Sent(a)
  <2>1. Same
    BY QuietSame DEF Driver
  <2> QED
    BY <2>1, HoldersMove DEF Keeps
<1> HIDE DEF R
<1>10. AbsReq' = IF Head(AbsSpool).live THEN [AbsReq EXCEPT ![Head(AbsSpool).from] = "answered"] ELSE AbsReq
  <2>1. Head(AbsSpool).from = m.from /\ Head(AbsSpool).live = (sd.IOCWAIT /\ m.id = sd.iocid)
    BY <1>3, <1>5, <1>6 DEF EntryOf
  <2>2. CASE ~(sd.IOCWAIT /\ m.id = sd.iocid)
    <3>1. sd' = sd
      BY <1>7, <2>2 DEF Wanted
    <3>2. AbsReq' = AbsReq
      BY <1>9, <3>1, ReqStays
    <3> QED
      BY <2>1, <2>2, <3>2
  <2>3. CASE sd.IOCWAIT /\ m.id = sd.iocid
    <3>1. Sent(m.from) /\ Sent(m.from)'
      BY <1>3, <1>9, <2>3 DEF LpInv, IoctlOK, Asked
    <3>2. sd'.iocblk
      BY <1>7, <2>3 DEF Wanted
    <3>3. \A a \in Procs : a # m.from => ~Sent(a) /\ ~Sent(a)'
      BY <1>3, <1>9, <3>1, OneSent, HolderIs
    <3>4. AbsReq' = [AbsReq EXCEPT ![m.from] = "answered"]
      BY <1>3, <3>1, <3>2, <3>3, ReqOne
    <3> QED
      BY <2>1, <2>3, <3>4
  <2> QED
    BY <2>2, <2>3
<1>11. AbsSpool # <<>> /\ Head(AbsSpool).kind # "data" /\ AbsSpool' = Tail(AbsSpool)
  BY <1>3, <1>5, <1>6, <1>8 DEF EntryOf
<1> QED
  BY <1>10, <1>11 DEF Implements, Abs!SpecNext, Abs!Answer

\* The printer takes the next character, or the message is printed.
LEMMA PrintImplements ==
  ASSUME LpInv, NEW d, lpxintr(d), UNCHANGED <<q, sd, pr>> PROVE Implements
<1> DEFINE R == ImageOf(q.msgs, sd)
<1>1. PICK b : b = tp.bu_bp
  OBVIOUS
<1>2. /\ tp \in TtyRecord /\ R \in Seq(Entry)
      /\ tp.BUSY => b \in [from : Procs, left : Nat]
      /\ AbsSpool = Front(b) \o R /\ AbsSpool' = Front(tp'.bu_bp) \o R
  BY <1>1, SpoolTypes, SpoolIs
<1>3. AbsReq' = AbsReq
  BY ReqStays DEF Sent, In
<1> HIDE DEF R
<1>4. CASE ~tp.BUSY
  <2>1. UNCHANGED tp
    BY <1>4 DEF lpxintr
  <2> QED
    BY <1>1, <1>2, <1>3, <2>1 DEF Implements
<1>5. CASE tp.BUSY
  <2>1. b \in [from : Procs, left : Nat]
    BY <1>2, <1>5
  <2>2. /\ AbsSpool \in Seq(Entry) /\ AbsSpool # <<>> /\ Head(AbsSpool) = Chars(b) /\ Tail(AbsSpool) = R
    BY <1>2, <2>1, FrontFacts
  <2>3. Chars(b).kind = "data" /\ Chars(b).left = b.left
    BY DEF Chars
  <2>4. CASE b.left > 0
    <3>1. PICK n \in Nat : b.left = n + 1 /\ b.left - 1 = n
      BY <2>1, <2>4
    <3>2. PICK c \in [from : Procs, left : Nat] : c = tp'.bu_bp /\ c.from = b.from /\ c.left = n
      <4>1. tp' = [tp EXCEPT !.bu_bp.left = @ - 1]
        BY <1>1, <1>5, <2>4 DEF lpxintr
      <4>2. tp' = [tp EXCEPT !.bu_bp.left = n]
        BY <1>1, <3>1, <4>1
      <4>3. tp'.bu_bp = [b EXCEPT !.left = n]
        BY <1>1, <1>2, <4>2 DEF TtyRecord
      <4> QED
        BY <2>1, <4>3
    <3>3. Front(c) = <<[Chars(b) EXCEPT !.left = n]>>
      <4>1. PICK x \in Entry, y \in Entry : x = Chars(b) /\ y = Chars(c) /\ Front(c) = <<y>>
        BY <1>2, <2>1, <3>2, FrontFacts
      <4>2. x.kind = y.kind /\ x.from = y.from /\ x.live = y.live /\ y.left = n
        BY <3>2, <4>1 DEF Chars
      <4> QED
        BY <4>1, <4>2, FewerLeft
    <3>4. AbsSpool' = [AbsSpool EXCEPT ![1].left = n]
      <4>1. AbsSpool' = <<[Head(AbsSpool) EXCEPT !.left = n]>> \o Tail(AbsSpool)
        BY <1>2, <2>2, <3>2, <3>3
      <4> QED
        BY <2>2, <4>1, FirstChanges
    <3>5. AbsSpool[1] = Chars(b)
      BY <2>2
    <3>6. AbsSpool' = [AbsSpool EXCEPT ![1].left = @ - 1]
      BY <2>3, <3>1, <3>4, <3>5
    <3> QED
      BY <1>3, <2>2, <2>3, <2>4, <3>6 DEF Implements, Abs!SpecNext, Abs!PrintChar
  <2>5. CASE ~(b.left > 0)
    <3>1. tp'.bu_bp = NoBlock
      <4>1. tp' = [tp EXCEPT !.BUSY = FALSE, !.bu_bp = NoBlock]
        BY <1>1, <1>5, <2>5 DEF lpxintr
      <4> QED
        BY <1>2, <4>1 DEF TtyRecord
    <3>2. AbsSpool' = Tail(AbsSpool)
      BY <1>2, <2>2, <3>1, NoFront
    <3>3. Head(AbsSpool).left = 0
      BY <2>1, <2>2, <2>3, <2>5
    <3> QED
      BY <1>3, <2>2, <2>3, <3>2, <3>3 DEF Implements, Abs!SpecNext, Abs!Printed
  <2> QED
    BY <2>4, <2>5
<1> QED
  BY <1>4, <1>5

LEMMA QuietImplements ==
  ASSUME LpInv, Driver \/ Device \/ LoseInterrupt \/ Timers \/ \E S \in SUBSET Procs : stropen(S)
  PROVE  Implements
<1>1. tp \in TtyRecord /\ q \in Queues(Messages) /\ CountOK(q)
  BY DEF LpInv, TypeOK, QueueOK
<1>2. CASE LpgetoblkNext
  BY <1>2, StartImplements, AnswerImplements
<1>3. CASE Device
  BY <1>3, PrintImplements DEF Device, lpintr, lptmout
<1>4. CASE ~LpgetoblkNext /\ ~Device
  <2>1. tp'.bu_bp = tp.bu_bp
    BY <1>1, <1>4 DEF Driver, LpgetoblkEnd, queuerun, strwsrv, LoseInterrupt, Timers, str2time, str3time, strtime,
       stropen, TtyRecord
  <2>2. HeadSame /\ (\A a \in Procs : Keeps(a)) /\ (q' = q \/ (q' = Left(q) /\ Empty(q)))
    BY <1>4, QuietKeeps
  <2>3. q'.msgs = q.msgs
    BY <1>1, <2>2, LeftFacts DEF Empty
  <2> QED
    BY <2>1, <2>2, <2>3, Stutters DEF Implements
<1> QED
  BY <1>2, <1>3, <1>4

LEMMA SilentImplements ==
  ASSUME LpInv, NEW p \in Procs,
         \/ Tries(p) \/ Returns(p) \/ Closes(p) \/ Stops(p) \/ Leaves(p) \/ Stays(p) \/ Lpoput(p)
         \/ closef(p) \/ Signal(p)
  PROVE  Implements
<1>1. tp \in TtyRecord
  BY DEF LpInv, TypeOK
<1>2. tp'.bu_bp = tp.bu_bp
  BY <1>1 DEF Tries, Returns, Closes, Stops, Leaves, Stays, Lpoput, closef, Signal, TtyRecord
<1>3. q'.msgs = q.msgs
  BY SilentKeeps, WantFacts
<1> QED
  BY <1>2, <1>3, SilentKeeps, Stutters DEF Implements

\* To wait for the mechanism, or to take it, is not to ask yet.
LEMMA WaitsImplements ==
  ASSUME LpInv, NEW p \in Procs, Waits(p) PROVE Implements
<1>1. PICK h : Head0(p, h)
               /\ \/ /\ h.IOCWAIT /\ pr'[p].pc = "asleep" /\ pr'[p].chan = "iocwait"
                     /\ sd' = [h EXCEPT !.iocwait = @ + 1]
                  \/ \E i \in IocIds \ InFlight : Takes(p, h, i)
  BY DEF Waits
<1>2. AtHead(p) /\ UNCHANGED <<q, tp>> /\ Moved(p, pr'[p]) /\ pr' \in [Procs -> ProcRecord] /\ CallOK(pr'[p])
  BY DEF Waits, AtHead, Moved, Others
<1>3. ~Holder(p)
  BY InCall DEF Waits, Holder, In, Running
<1>4. CASE pr'[p].pc = "asleep" /\ pr'[p].chan = "iocwait" /\ sd' = [h EXCEPT !.iocwait = @ + 1]
  <2>1. HeadSame
    BY <1>1, <1>4 DEF Head0, HeadRecord, HeadSame
  <2>2. ~Holder(p)'
    BY <1>4 DEF Holder, In, Running
  <2>3. \A a \in Procs : Keeps(a)
    BY <1>2, <1>3, <2>2, NotHolder, HoldersMove
  <2> QED
    BY <1>2, <2>1, <2>3, Stutters DEF Implements
<1>5. ASSUME NEW i \in IocIds \ InFlight, Takes(p, h, i) PROVE Implements
  <2>1. ~sd.IOCWAIT /\ sd'.iocid = i /\ pr'[p].pc = "ioctl"
    <3>1. Head0(p, h)
      BY <1>1
    <3> QED
      BY <1>5, <3>1 DEF Head0, Takes, HeadRecord
  <2>2. \A a \in Procs : ~Sent(a)
    BY <2>1, HolderIs DEF LpInv, IoctlOK
  <2>3. \A a \in Procs : ~Sent(a)'
    <3>1. ~Sent(p)'
      BY <2>1 DEF Sent, In
    <3> QED
      BY <1>2, <2>2, <3>1, HoldersMove DEF Keeps
  <2>4. ImageOf(q.msgs, sd') = ImageOf(q.msgs, sd)
    <3>1. \A j \in DOMAIN q.msgs : q.msgs[j].id # i
      BY DEF InFlight
    <3>2. \A j \in DOMAIN q.msgs : EntryOf(q.msgs[j], sd') = EntryOf(q.msgs[j], sd)
      BY <2>1, <3>1 DEF EntryOf
    <3> QED
      BY <3>2 DEF ImageOf
  <2>5. AbsSpool' = AbsSpool
    BY <1>2, <2>4, SpoolIs
  <2> QED
    BY <2>2, <2>3, <2>5, NoneSent DEF Implements
<1> QED
  BY <1>1, <1>4, <1>5

\* A write() is accepted.
LEMMA PutImplements ==
  ASSUME LpInv, NEW p \in Procs, PutData(p) PROVE Implements
<1>1. (\A a \in Procs : Keeps(a)) /\ UNCHANGED <<sd, tp>>
  BY PutKeeps
<1>2. PICK m : m = IF pr[p].n < rmax THEN pr[p].n ELSE rmax
  OBVIOUS
<1>3. q' = IF m = 0 THEN q ELSE putq(q, Data(p, m))
  BY <1>2 DEF PutData
<1>4. m \in 0 .. rmax /\ (m # 0 => m \in 1 .. rmax)
  BY <1>2, DataFacts
<1>5. CASE m = 0
  BY <1>1, <1>3, <1>5, Stutters DEF Implements, HeadSame
<1>6. CASE m # 0
  <2> DEFINE R == ImageOf(q.msgs, sd)
             F == Front(tp.bu_bp)
  <2>1. m \in 1 .. rmax /\ q' = putq(q, Data(p, m)) /\ Data(p, m) \in Messages
    BY <1>3, <1>4, <1>6, MessageFacts
  <2>2. q'.msgs = Append(q.msgs, Data(p, m))
    BY <2>1 DEF putq, Added, LpInv, TypeOK, Queues
  <2>3. PICK e \in Entry : e = EntryOf(Data(p, m), sd)
    BY <2>1, SpoolTypes, EntryFacts
  <2>4. e = Abs!Chars(p, m)
    BY <2>3 DEF EntryOf, Data, Abs!Chars
  <2>5. R \in Seq(Entry) /\ F \in Seq(Entry) /\ AbsSpool = F \o R
    BY SpoolTypes, SpoolIs
  <2>6. AbsSpool' = F \o Append(R, e)
    BY <1>1, <2>1, <2>2, <2>3, SpoolTypes, SpoolIs, ImageAppend
  <2> HIDE DEF R, F
  <2>7. AbsSpool' = Append(AbsSpool, e)
    BY <2>5, <2>6, FrontAppend
  <2>8. AbsReq' = AbsReq
    BY <1>1, ReqStays DEF Keeps
  <2>9. Abs!Accept(p, m)
    BY <2>4, <2>7, <2>8 DEF Abs!Accept
  <2> QED
    BY <2>1, <2>9 DEF Implements, Abs!SpecNext
<1> QED
  BY <1>5, <1>6

\* A request is answered at once, or it is not asked yet.
LEMMA DecideImplements ==
  ASSUME LpInv, NEW p \in Procs, Lpputioc(p) PROVE Implements
<1>1. /\ Moved(p, pr'[p]) /\ pr'[p].call = "ioctl" /\ pr[p].pc = "ioctl" /\ UNCHANGED <<q, tp>>
      /\ \/ AtOnce(p) /\ pr'[p].pc = "getblk" /\ Replied(Ioctl(p), [pr EXCEPT ![p].pc = "getblk"])
         \/ pr'[p].pc = "queue" /\ UNCHANGED sd
  BY LpputiocMoves DEF Lpputioc, Doing
<1>2. Holder(p) /\ pr[p].call = "ioctl" /\ sd \in HeadRecord
  BY <1>1 DEF LpInv, TypeOK, ProcOK, CallOK, Holder, Running
<1>3. sd.IOCWAIT /\ ~sd.iocblk /\ ~Sent(p)
  BY <1>1, <1>2, HolderIs DEF LpInv, IoctlOK, BeforeSent
<1>4. \A a \in Procs : a # p => ~Sent(a) /\ ~Sent(a)'
  BY <1>1, <1>2, OneSent, HoldersMove DEF Keeps
<1>5. CASE AtOnce(p) /\ pr'[p].pc = "getblk" /\ Replied(Ioctl(p), [pr EXCEPT ![p].pc = "getblk"])
  <2>1. sd' = [sd EXCEPT !.iocblk = TRUE]
    BY <1>3, <1>5 DEF Replied, Wanted, Ioctl
  <2>2. sd'.iocblk /\ sd'.IOCWAIT = sd.IOCWAIT /\ sd'.iocid = sd.iocid
    BY <1>2, <2>1 DEF HeadRecord
  <2>3. AbsSpool' = AbsSpool
    <3>1. ImageOf(q'.msgs, sd') = ImageOf(q.msgs, sd)
      BY <1>1, <2>2, SpoolTypes, ImageSame
    <3> QED
      BY <1>1, <3>1, SpoolIs
  <2>4. Sent(p)'
    BY <1>1, <1>5 DEF Sent
  <2>5. AbsReq[p] = "none" /\ AbsReq' = [AbsReq EXCEPT ![p] = "answered"]
    BY <1>3, <1>4, <2>2, <2>4, ReqOne
  <2>6. pr[p].cmd \in Cmds
    BY <1>1, <1>2 DEF LpInv, ProcOK, CallOK
  <2>7. pr[p].cmd = "drain" => AbsSpool = <<>>
    <3> SUFFICES ASSUME pr[p].cmd = "drain" PROVE AbsSpool = <<>>
      OBVIOUS
    <3>1. tp.bu_bp = NoBlock /\ q.msgs = <<>>
      BY <1>5 DEF AtOnce, Drained, Empty
    <3>2. ImageOf(q.msgs, sd) = <<>>
      BY <3>1, ImageEmpty
    <3>3. <<>> \in Seq(Entry)
      OBVIOUS
    <3> QED
      BY <3>1, <3>2, <3>3, NoFront, SpoolIs
  <2>8. Abs!Ask(p, pr[p].cmd)
    BY <2>3, <2>5, <2>7 DEF Abs!Ask
  <2> QED
    BY <2>6, <2>8 DEF Implements, Abs!SpecNext
<1>6. CASE pr'[p].pc = "queue" /\ UNCHANGED sd
  <2>1. ~Sent(p)'
    BY <1>6 DEF Sent, In
  <2>2. AbsReq' = AbsReq
    BY <1>3, <1>4, <2>1, NoneSent
  <2>3. AbsSpool' = AbsSpool
    BY <1>1, <1>6, SpoolIs
  <2> QED
    BY <2>2, <2>3 DEF Implements
<1> QED
  BY <1>1, <1>5, <1>6

\* A request is queued: to drain, after all that is there; to set the modes, before it.
LEMMA AskImplements ==
  ASSUME LpInv, NEW p \in Procs, QueueIoctl(p) PROVE Implements
<1> DEFINE R == ImageOf(q.msgs, sd)
           F == Front(tp.bu_bp)
<1>1. /\ Moved(p, pr'[p]) /\ pr'[p].call = "ioctl" /\ pr'[p].pc = "getblk" /\ pr[p].pc = "queue" /\ UNCHANGED <<sd, tp>>
      /\ q' = IF pr[p].cmd = "drain" THEN putq(q, Ioctl(p)) ELSE putbq(q, Ioctl(p))
  BY PutMoves DEF QueueIoctl, Doing
<1>2. Holder(p) /\ pr[p].call = "ioctl" /\ pr[p].cmd \in Cmds
  BY <1>1 DEF LpInv, ProcOK, CallOK, Holder, Running
<1>3. sd.IOCWAIT /\ ~sd.iocblk /\ ~Sent(p)
  BY <1>1, <1>2, HolderIs DEF LpInv, IoctlOK, BeforeSent
<1>4. \A a \in Procs : a # p => ~Sent(a) /\ ~Sent(a)'
  BY <1>1, <1>2, OneSent, HoldersMove DEF Keeps
<1>5. AbsReq[p] = "none" /\ AbsReq' = [AbsReq EXCEPT ![p] = "sent"]
  <2>1. Sent(p)'
    BY <1>1 DEF Sent
  <2> QED
    BY <1>1, <1>3, <1>4, <2>1, ReqOne
<1>6. PICK m \in Messages : m = Ioctl(p) /\ m.type = pr[p].cmd /\ m.type \in {"drain", "set"} /\ m.id = sd.iocid /\ m.from = p
  <2>1. Ioctl(p) \in Messages /\ Ioctl(p).type \in {"drain", "set"}
    BY <1>1, <1>2, MessageFacts
  <2> QED
    BY <2>1 DEF Ioctl
<1>7. PICK e \in Entry : e = EntryOf(m, sd)
  BY SpoolTypes, EntryFacts
<1>8. e = Abs!Request(p, pr[p].cmd)
  BY <1>3, <1>6, <1>7 DEF EntryOf, Abs!Request
<1>9. R \in Seq(Entry) /\ F \in Seq(Entry) /\ Len(F) \in {0, 1} /\ AbsSpool = F \o R
  BY SpoolTypes, SpoolIs
<1>10. CASE pr[p].cmd = "drain"
  <2>1. q'.msgs = Append(q.msgs, m)
    BY <1>1, <1>6, <1>10 DEF putq, Added, LpInv, TypeOK, Queues
  <2>2. AbsSpool' = F \o Append(R, e)
    BY <1>1, <1>7, <2>1, SpoolTypes, SpoolIs, ImageAppend
  <2> HIDE DEF R, F
  <2>3. AbsSpool' = Append(AbsSpool, e)
    BY <1>9, <2>2, FrontAppend
  <2>4. Abs!Ask(p, "drain")
    BY <1>5, <1>8, <1>10, <2>3 DEF Abs!Ask
  <2> QED
    BY <1>2, <1>10, <2>4 DEF Implements, Abs!SpecNext
<1>11. CASE pr[p].cmd # "drain"
  <2>1. q'.msgs = <<m>> \o q.msgs
    BY <1>1, <1>6, <1>11 DEF putbq, Added, LpInv, TypeOK, Queues
  <2>2. AbsSpool' = F \o (<<e>> \o R)
    BY <1>1, <1>7, <2>1, SpoolTypes, SpoolIs, ImagePush
  <2> HIDE DEF R, F
  <2>10. PICK u : u = AbsSpool
    OBVIOUS
  <2>3. PICK f \in Seq(Entry), t \in Seq(Entry) : f = F /\ t = R /\ u = AbsSpool
    BY <1>9, <2>10
  <2>4. Len(f) \in {0, 1} /\ u = f \o t /\ AbsSpool' = f \o (<<e>> \o t)
    BY <1>9, <2>2, <2>3
  <2>5. /\ Len(f) <= Len(f \o t)
        /\ f \o (<<e>> \o t) = SubSeq(f \o t, 1, Len(f)) \o <<e>> \o SubSeq(f \o t, Len(f) + 1, Len(f \o t))
    BY PushSplits
  <2>6. PICK n \in {0, 1} : n = Len(f)
    BY <2>4
  <2>7. n <= Len(AbsSpool) /\ AbsSpool' = SubSeq(AbsSpool, 1, n) \o <<e>> \o SubSeq(AbsSpool, n + 1, Len(AbsSpool))
    BY Zenon, <2>3, <2>4, <2>5, <2>6
  <2>8. pr[p].cmd = "set"
    BY <1>6, <1>11
  <2>9. Abs!Ask(p, "set")
    BY <1>5, <1>8, <2>7, <2>8 DEF Abs!Ask
  <2> QED
    BY <1>2, <2>8, <2>9 DEF Implements, Abs!SpecNext
<1> QED
  BY <1>10, <1>11

Dies(m, g, h, x, y) ==
  /\ x = EntryOf(m, g) /\ y = EntryOf(m, h)
  /\ x.from = m.from /\ y.kind = x.kind /\ y.from = x.from /\ y.left = x.left /\ y.live = FALSE
  /\ x.live = FALSE \/ (m.type # "data" /\ g.IOCWAIT /\ m.id = g.iocid)

LEMMA DeadFacts ==
  ASSUME NEW m \in Messages, NEW g \in HeadRecord, NEW h \in HeadRecord, h.IOCWAIT = FALSE
  PROVE  \E x \in Entry, y \in Entry : Dies(m, g, h, x, y)
<1>1. PICK x \in Entry, y \in Entry : x = EntryOf(m, g) /\ y = EntryOf(m, h)
  BY EntryFacts
<1>2. x.from = m.from /\ y.kind = x.kind /\ y.from = x.from /\ y.left = x.left
  BY <1>1 DEF EntryOf
<1>3. ~y.live
  BY <1>1 DEF EntryOf
<1>4. ~x.live \/ (m.type # "data" /\ g.IOCWAIT /\ m.id = g.iocid)
  BY <1>1 DEF EntryOf
<1>5. x.live \in BOOLEAN /\ y.live = FALSE
  BY <1>3 DEF Entry
<1> QED
  BY <1>1, <1>2, <1>4, <1>5 DEF Dies

\* The sender has its answer, or gives up: the entry of its request is dead.
LEMMA EndImplements ==
  ASSUME LpInv, NEW p \in Procs, Ends(p) PROVE Implements
<1> DEFINE R == ImageOf(q.msgs, sd)
           F == Front(tp.bu_bp)
           u == AbsSpool
           v == AbsSpool'
           k == Len(F)
           Dead(x) == IF x.from = p THEN [x EXCEPT !.live = FALSE] ELSE x
<1>1. Sent(p) /\ Holder(p) /\ sd \in HeadRecord /\ UNCHANGED <<q, tp>> /\ sd'.IOCWAIT = FALSE /\ sd' \in HeadRecord
      /\ pr'[p] = Idle /\ Moved(p, pr'[p])
  <2>1. sd \in HeadRecord
    BY DEF LpInv, TypeOK
  <2> QED
    BY <2>1 DEF Ends, AtHead, AtReply, Sent, Holder, Running, IocEnd, HeadRecord
<1>2. \A a \in Procs : a # p => ~Sent(a) /\ ~Sent(a)'
  BY <1>1, OneSent, HoldersMove DEF Keeps
<1>3. AbsReq[p] # "none" /\ AbsReq' = [AbsReq EXCEPT ![p] = "none"]
  <2>1. ~Sent(p)'
    BY <1>1 DEF Sent, Idle
  <2> QED
    BY <1>1, <1>2, <2>1, ReqOne
<1>4. PICK s \in Seq(Messages) : s = q.msgs
  BY SpoolTypes
<1>5. PICK Q : Q = ImageOf(s, sd')
  OBVIOUS
<1>6. /\ R \in Seq(Entry) /\ Len(R) = Len(s) /\ Q \in Seq(Entry) /\ Len(Q) = Len(s) /\ Len(s) \in Nat
      /\ \A i \in 1 .. Len(s) : R[i] = EntryOf(s[i], sd) /\ Q[i] = EntryOf(s[i], sd') /\ s[i] \in Messages
  BY <1>1, <1>4, <1>5, ImageFacts
<1>7. F \in Seq(Entry) /\ k \in {0, 1} /\ u = F \o R /\ v = F \o Q
  BY <1>1, <1>4, <1>5, SpoolTypes, SpoolIs
<1>8. \A i \in 1 .. Len(s) : Q[i] = Dead(R[i])
  <2> SUFFICES ASSUME NEW i \in 1 .. Len(s) PROVE Q[i] = Dead(R[i])
    OBVIOUS
  <2>1. PICK m \in Messages : m = s[i] /\ m \in Queued
    BY <1>4, <1>6, LenProperties DEF Queued, Members
  <2>2. PICK g \in HeadRecord, h \in HeadRecord : g = sd /\ h = sd' /\ h.IOCWAIT = FALSE
    BY <1>1
  <2>3. PICK x \in Entry, y \in Entry : Dies(m, g, h, x, y)
    BY <2>2, DeadFacts
  <2>4. x = R[i] /\ y = Q[i]
    BY <1>6, <2>1, <2>2, <2>3 DEF Dies
  <2> HIDE DEF R
  <2>5. x.live = FALSE \/ x.from = p
    <3> SUFFICES ASSUME x.live # FALSE PROVE x.from = p
      OBVIOUS
    <3>1. Sent(m.from) /\ m.from \in Procs
      BY <2>1, <2>2, <2>3 DEF LpInv, IoctlOK, Asked, Messages, Dies
    <3> QED
      BY <1>2, <2>3, <3>1 DEF Dies
  <2>6. y = [x EXCEPT !.live = FALSE]
    BY <2>3 DEF Entry, Dies
  <2>7. x.live = FALSE => y = x
    BY <2>3 DEF Entry, Dies
  <2> QED
    BY <2>4, <2>5, <2>6, <2>7
<1>9. \A i \in 1 .. k : F[i] = Dead(F[i])
  <2> SUFFICES ASSUME NEW i \in 1 .. k PROVE F[i] = Dead(F[i])
    OBVIOUS
  <2>1. F = <<Chars(tp.bu_bp)>> /\ k = 1 /\ i = 1
    <3>1. k # 0
      BY <1>7
    <3>2. F = <<>> => k = 0
      OBVIOUS
    <3> QED
      BY <1>7, <3>1, <3>2 DEF Front
  <2>2. F[i] \in Entry /\ F[i].live = FALSE
    BY <1>7, <2>1, ElementOfSeq DEF Chars
  <2> HIDE DEF F
  <2>3. PICK x \in Entry : x = F[i] /\ x.live = FALSE
    BY <2>2
  <2>4. [x EXCEPT !.live = FALSE] = x
    BY <2>3 DEF Entry
  <2> QED
    BY <2>3, <2>4
<1> HIDE DEF R, F
<1>10. /\ u \in Seq(Entry) /\ Len(u) = k + Len(s) /\ v \in Seq(Entry) /\ Len(v) = k + Len(s)
       /\ \A i \in 1 .. k + Len(s) : u[i] = IF i <= k THEN F[i] ELSE R[i - k]
       /\ \A i \in 1 .. k + Len(s) : v[i] = IF i <= k THEN F[i] ELSE Q[i - k]
  <2>1. F \in Seq(Entry) /\ R \in Seq(Entry) /\ Q \in Seq(Entry)
    BY <1>6, <1>7
  <2>2. /\ F \o R \in Seq(Entry) /\ Len(F \o R) = k + Len(R)
        /\ \A i \in 1 .. k + Len(R) : (F \o R)[i] = IF i <= k THEN F[i] ELSE R[i - k]
    BY <2>1, ConcatProperties
  <2>3. /\ F \o Q \in Seq(Entry) /\ Len(F \o Q) = k + Len(Q)
        /\ \A i \in 1 .. k + Len(Q) : (F \o Q)[i] = IF i <= k THEN F[i] ELSE Q[i - k]
    BY <2>1, ConcatProperties
  <2> HIDE DEF u, v
  <2>4. Len(R) = Len(s) /\ Len(Q) = Len(s) /\ u = F \o R /\ v = F \o Q
    BY <1>6, <1>7
  <2> QED
    BY Zenon, <2>2, <2>3, <2>4
<1> HIDE DEF u, v
<1>11. \A i \in 1 .. k + Len(s) : v[i] = Dead(u[i])
  <2> SUFFICES ASSUME NEW i \in 1 .. k + Len(s) PROVE v[i] = Dead(u[i])
    OBVIOUS
  <2>1. (i <= k => i \in 1 .. k) /\ (~(i <= k) => i - k \in 1 .. Len(s))
    BY <1>6, <1>7
  <2> HIDE DEF Dead
  <2> QED
    BY <1>8, <1>9, <1>10, <2>1
<1>12. v = [i \in DOMAIN u |-> Dead(u[i])]
  <2>1. DOMAIN u = 1 .. k + Len(s) /\ v = [i \in 1 .. k + Len(s) |-> v[i]]
    BY <1>10, LenProperties
  <2> HIDE DEF Dead
  <2> QED
    BY <1>11, <2>1
<1>13. Abs!End(p)
  BY <1>3, <1>12 DEF Abs!End, u, v
<1> QED
  BY <1>13 DEF Implements, Abs!SpecNext

\* The end of a close.
LEMMA DetachImplements ==
  ASSUME LpInv, NEW p \in Procs, Detach(p), Closing(p) PROVE Implements
<1>1. pr' = [pr EXCEPT ![p] = Idle] /\ users = {p} /\ q' = NewQueue /\ tp'.bu_bp = tp.bu_bp /\ tp \in TtyRecord
  BY SpoolTypes DEF Detach, Returned, Closing, TtyRecord
<1>2. \A a \in Procs : ~Sent(a)
  BY <1>1 DEF LpInv, ProcOK, UsersOK, Sent, In, Closing
<1>3. \A a \in Procs : ~Sent(a)'
  <2>1. \A a \in Procs : a # p => pr'[a] = pr[a]
    BY <1>1, SpoolTypes
  <2>2. pr'[p] = Idle
    BY <1>1, SpoolTypes
  <2> QED
    BY <1>2, <2>1, <2>2 DEF Sent, In, Idle
<1>4. AbsReq' = AbsReq /\ \A a \in Procs : AbsReq[a] = "none"
  BY <1>2, <1>3, NoneSent
<1> DEFINE F == Front(tp.bu_bp)
           R == ImageOf(q.msgs, sd)
<1>5. R \in Seq(Entry) /\ F \in Seq(Entry) /\ AbsSpool = F \o R
  BY SpoolTypes, SpoolIs
<1>6. AbsSpool' = F
  <2>1. ImageOf(q'.msgs, sd') = <<>>
    BY <1>1, ImageEmpty DEF NewQueue
  <2>2. F \o <<>> = F
    BY <1>5, ConcatEmptySeq
  <2> QED
    BY <1>1, <2>1, <2>2, SpoolIs
<1>7. F = <<>> \/ (AbsSpool # <<>> /\ F = <<Head(AbsSpool)>>)
  <2>1. CASE tp.bu_bp = NoBlock
    BY <2>1 DEF Front
  <2>2. CASE tp.bu_bp # NoBlock
    <3>1. tp.bu_bp \in [from : Procs, left : Nat]
      BY <2>2, SpoolTypes
    <3> HIDE DEF R
    <3> QED
      BY <1>5, <3>1, FrontFacts
  <2> QED
    BY <2>1, <2>2
<1> HIDE DEF F, R
<1>8. Abs!Discard
  BY <1>4, <1>6, <1>7 DEF Abs!Discard
<1> QED
  BY <1>8 DEF Implements, Abs!SpecNext

LEMMA StepImplements == ASSUME LpInv, Next PROVE Implements
BY StepKinds, QuietImplements, SilentImplements, WaitsImplements, PutImplements, DecideImplements, AskImplements,
   EndImplements, DetachImplements DEF Kinds, Steps

LEMMA InitImplements == Init => Abs!SpecInit
<1> SUFFICES ASSUME Init PROVE Abs!SpecInit
  OBVIOUS
<1>1. LpInv /\ q.msgs = <<>> /\ tp.bu_bp = NoBlock
  BY InitInv DEF Init, NewQueue
<1>2. AbsSpool = <<>>
  <2>1. ImageOf(q.msgs, sd) = <<>> /\ <<>> \in Seq(Entry)
    BY <1>1, ImageEmpty
  <2> QED
    BY <1>1, <2>1, NoFront, SpoolIs
<1>3. \A a \in Procs : ~Sent(a)
  BY DEF Init, Sent, Idle, In
<1>4. AbsReq = [a \in Procs |-> "none"]
  BY <1>3, NoneSent
<1> QED
  BY <1>2, <1>4 DEF Abs!SpecInit

\* The stream implements LpSpec: what is accepted is printed in order, a request is
\* answered when what was accepted before it is printed, and its sender gets that
\* answer and no other (lpgetoblk(), lpxintr(), lpputioc(), strdoioctl() and strrput()).
THEOREM LpImplements == Spec => ImplementsLpSpec
<1>1. Init => Abs!SpecInit
  BY InitImplements
<1>2. LpInv /\ [Next]_vars => [Abs!SpecNext]_<<AbsSpool, AbsReq>>
  <2> SUFFICES ASSUME LpInv, [Next]_vars PROVE Abs!SpecNext \/ (AbsSpool' = AbsSpool /\ AbsReq' = AbsReq)
    OBVIOUS
  <2>1. CASE Next
    BY <2>1, StepImplements DEF Implements
  <2>2. CASE UNCHANGED vars
    <3>1. HeadSame /\ tp'.bu_bp = tp.bu_bp /\ q'.msgs = q.msgs /\ \A a \in Procs : Keeps(a)
      BY <2>2 DEF vars, HeadSame, Keeps, Holder, Sent, In, BeforeSent
    <3> QED
      BY <3>1, Stutters
  <2> QED
    BY <2>1, <2>2
<1> QED
  BY <1>1, <1>2, Invariant, PTL DEF Spec, ImplementsLpSpec, Abs!Spec
=============================================================================
