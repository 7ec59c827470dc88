---------------------------- MODULE SleepProofs ----------------------------
(***************************************************************************)
(* Proofs about SleepSig, for every number of processes, channels, signals *)
(* and sets of calls: the queues of the process table, the signals of      *)
(* processes that sleep, and who is told of stops and exits.               *)
(***************************************************************************)
EXTENDS SleepSig, RmapProofs, FiniteSetTheorems

-----------------------------------------------------------------------------
(***************************************************************************)
(* Queues: what is put in, taken out and joined.                           *)
(***************************************************************************)
LEMMA SeqFacts ==
    ASSUME NEW s \in Seq(Procs)
    PROVE  /\ Len(s) \in Nat /\ DOMAIN s = 1 .. Len(s) /\ ToSet(s) \subseteq Procs
           /\ \A i \in DOMAIN s : s[i] \in ToSet(s) /\ s[i] \in Procs
           /\ \A b \in ToSet(s) : \E i \in DOMAIN s : s[i] = b
<1>1. Len(s) \in Nat /\ DOMAIN s = 1 .. Len(s) /\ \A i \in DOMAIN s : s[i] \in Procs
  BY LenProperties, ElementOfSeq
<1> QED
  BY <1>1 DEF ToSet

LEMMA Appended ==
    ASSUME NEW s \in Seq(Procs), NEW b \in Procs
    PROVE  /\ Append(s, b) \in Seq(Procs) /\ ToSet(Append(s, b)) = ToSet(s) \cup {b}
           /\ NoDuplicates(s) /\ b \notin ToSet(s) => NoDuplicates(Append(s, b))
<1> DEFINE t == Append(s, b)
<1>1. /\ t \in Seq(Procs) /\ Len(t) = Len(s) + 1 /\ Len(s) \in Nat
      /\ DOMAIN s = 1 .. Len(s) /\ DOMAIN t = 1 .. Len(s) + 1
      /\ (\A i \in 1 .. Len(s) : t[i] = s[i]) /\ t[Len(s) + 1] = b
  BY AppendProperties, LenProperties
<1> HIDE DEF t
<1>2. ToSet(t) = ToSet(s) \cup {b}
  BY <1>1 DEF ToSet
<1>3. NoDuplicates(s) /\ b \notin ToSet(s) => NoDuplicates(t)
  <2> SUFFICES ASSUME NoDuplicates(s), b \notin ToSet(s), NEW i \in 1 .. Len(s) + 1,
                      NEW j \in 1 .. Len(s) + 1, t[i] = t[j]
               PROVE  i = j
    BY <1>1 DEF NoDuplicates
  <2>1. \A m \in 1 .. Len(s) : s[m] # b
    BY <1>1 DEF ToSet
  <2> QED
    BY <1>1, <2>1 DEF NoDuplicates
<1> QED
  BY <1>1, <1>2, <1>3 DEF t

LEMMA Joined ==
    ASSUME NEW s \in Seq(Procs), NEW u \in Seq(Procs)
    PROVE  /\ s \o u \in Seq(Procs) /\ ToSet(s \o u) = ToSet(s) \cup ToSet(u)
           /\ NoDuplicates(s) /\ NoDuplicates(u) /\ ToSet(s) \cap ToSet(u) = {} => NoDuplicates(s \o u)
<1> DEFINE t == s \o u
           n == Len(s)
           m == Len(u)
<1>1. n \in Nat /\ m \in Nat /\ DOMAIN s = 1 .. n /\ DOMAIN u = 1 .. m
  BY LenProperties
<1>2. /\ t \in Seq(Procs) /\ Len(t) = n + m
      /\ \A i \in 1 .. n + m : t[i] = IF i <= n THEN s[i] ELSE u[i - n]
  BY ConcatProperties
<1>3. DOMAIN t = 1 .. n + m
  <2> HIDE DEF t
  <2> QED
    BY <1>2, LenProperties
<1> HIDE DEF t, n, m
<1>4. \A i \in 1 .. n : i \in 1 .. n + m /\ t[i] = s[i]
  BY <1>1, <1>2
<1>5. ASSUME NEW i \in 1 .. m
      PROVE  n + i \in 1 .. n + m /\ t[n + i] = u[i]
  <2>1. n + i \in 1 .. n + m /\ ~(n + i <= n) /\ (n + i) - n = i
    BY <1>1
  <2> QED
    BY <1>2, <2>1
<1>6. \A i \in 1 .. n + m : i \in 1 .. n \/ (i - n \in 1 .. m /\ t[i] = u[i - n] /\ i = n + (i - n))
  BY <1>1, <1>2
<1>7. ToSet(t) = ToSet(s) \cup ToSet(u)
  <2>1. \A i \in 1 .. n + m : t[i] \in ToSet(s) \cup ToSet(u)
    BY <1>1, <1>4, <1>6 DEF ToSet
  <2>2. \A i \in 1 .. n : s[i] \in ToSet(t)
    BY <1>3, <1>4 DEF ToSet
  <2>3. \A i \in 1 .. m : u[i] \in ToSet(t)
    BY <1>3, <1>5 DEF ToSet
  <2> QED
    BY <1>1, <1>3, <2>1, <2>2, <2>3 DEF ToSet
<1>8. NoDuplicates(s) /\ NoDuplicates(u) /\ ToSet(s) \cap ToSet(u) = {} => NoDuplicates(t)
  <2> SUFFICES ASSUME NoDuplicates(s), NoDuplicates(u), ToSet(s) \cap ToSet(u) = {},
                      NEW i \in 1 .. n + m, NEW j \in 1 .. n + m, t[i] = t[j]
               PROVE  i = j
    BY <1>3 DEF NoDuplicates
  <2>1. \A x \in 1 .. n, y \in 1 .. m : s[x] # u[y]
    BY <1>1 DEF ToSet
  <2>2. CASE i \in 1 .. n /\ j \in 1 .. n
    BY <1>1, <1>4, <2>2 DEF NoDuplicates
  <2>3. CASE i \notin 1 .. n /\ j \notin 1 .. n
    <3>1. i - n \in DOMAIN u /\ j - n \in DOMAIN u /\ u[i - n] = u[j - n]
      BY <1>1, <1>6, <2>3
    <3>2. i - n = j - n
      BY <3>1 DEF NoDuplicates
    <3> QED
      BY <1>1, <1>6, <2>3, <3>2
  <2>4. CASE i \in 1 .. n /\ j \notin 1 .. n
    BY <1>4, <1>6, <2>1, <2>4
  <2>5. CASE i \notin 1 .. n /\ j \in 1 .. n
    BY <1>4, <1>6, <2>1, <2>5
  <2> QED
    BY <2>2, <2>3, <2>4, <2>5
<1> QED
  BY <1>2, <1>7, <1>8 DEF t

LEMMA Single ==
    ASSUME NEW b \in Procs
    PROVE  <<b>> \in Seq(Procs) /\ ToSet(<<b>>) = {b} /\ NoDuplicates(<<b>>)
  BY DEF ToSet, NoDuplicates

\* The place of the first element with a property, for the elements of a set T.
LEMMA FirstPlace ==
    ASSUME NEW I \in SUBSET Nat, I # {}
    PROVE  Min(I) \in I /\ \A i \in I : Min(I) <= i
<1>1. \E x \in I : \A y \in I : x <= y
  BY LeastNat
<1> QED
  BY <1>1 DEF Min

LEMMA Removed ==
    ASSUME NEW s \in Seq(Procs), NEW b \in Procs, NoDuplicates(s), b \in ToSet(s)
    PROVE  \E i \in DOMAIN s : s[i] = b /\ RemoveFirst(s, b) = RemoveAt(s, i)
<1> DEFINE I == {i \in 1 .. Len(s) : s[i] = b}
<1>1. DOMAIN s = 1 .. Len(s) /\ Len(s) \in Nat
  BY SeqFacts
<1>2. I \in SUBSET Nat /\ I # {}
  BY <1>1 DEF ToSet
<1>3. Min(I) \in I
  BY <1>2, FirstPlace
<1>4. SelectInSeq(s, LAMBDA v : v = b) = Min(I)
  BY <1>2 DEF SelectInSeq
<1>5. RemoveFirst(s, b) = RemoveAt(s, Min(I))
  BY <1>2, <1>4 DEF RemoveFirst
<1> QED
  BY <1>1, <1>3, <1>5

\* RemoveFirst() takes a process out and leaves the others.
LEMMA RemovedFacts ==
    ASSUME NEW s \in Seq(Procs), NEW b \in Procs, NoDuplicates(s), b \in ToSet(s)
    PROVE  /\ RemoveFirst(s, b) \in Seq(Procs) /\ ToSet(RemoveFirst(s, b)) = ToSet(s) \ {b}
           /\ NoDuplicates(RemoveFirst(s, b)) /\ Len(RemoveFirst(s, b)) = Len(s) - 1
<1>1. PICK i \in DOMAIN s : s[i] = b /\ RemoveFirst(s, b) = RemoveAt(s, i)
  BY Removed
<1>2. DOMAIN s = 1 .. Len(s) /\ Len(s) \in Nat
  BY SeqFacts, ZenonT(60)
<1> DEFINE t == RemoveAt(s, i)
<1>3. /\ t \in Seq(Procs) /\ Len(t) = Len(s) - 1
      /\ \A j \in 1 .. Len(s) - 1 : t[j] = IF j < i THEN s[j] ELSE s[j + 1]
  BY <1>1, <1>2, RemoveAtProperties
<1>4. DOMAIN t = 1 .. Len(s) - 1
  <2> HIDE DEF t
  <2> QED
    BY <1>3, LenProperties
<1> HIDE DEF t
<1>5. ASSUME NEW j \in DOMAIN t
      PROVE  \E e \in DOMAIN s \ {i} : t[j] = s[e] /\ e = IF j < i THEN j ELSE j + 1
  BY <1>2, <1>3, <1>4
<1>6. ASSUME NEW e \in DOMAIN s \ {i}
      PROVE  s[e] \in ToSet(t)
  <2>1. CASE e < i
    <3>1. e \in DOMAIN t /\ t[e] = s[e]
      BY <1>2, <1>3, <1>4, <2>1
    <3> QED
      BY <3>1 DEF ToSet
  <2>2. CASE ~(e < i)
    <3>1. e - 1 \in DOMAIN t /\ t[e - 1] = s[(e - 1) + 1] /\ (e - 1) + 1 = e
      BY <1>2, <1>3, <1>4, <2>2
    <3> QED
      BY <3>1 DEF ToSet
  <2> QED
    BY <2>1, <2>2
<1>7. \A e \in DOMAIN s \ {i} : s[e] # b
  BY <1>1 DEF NoDuplicates
<1>8. ToSet(t) = ToSet(s) \ {b}
  <2>1. \A j \in DOMAIN t : t[j] \in ToSet(s) \ {b}
    BY <1>5, <1>7 DEF ToSet
  <2>2. \A x \in ToSet(s) \ {b} : \E e \in DOMAIN s \ {i} : s[e] = x
    BY <1>1 DEF ToSet
  <2> QED
    BY <1>6, <2>1, <2>2 DEF ToSet
<1>9. NoDuplicates(t)
  <2> SUFFICES ASSUME NEW j \in DOMAIN t, NEW e \in DOMAIN t, t[j] = t[e] PROVE j = e
    BY DEF NoDuplicates
  <2>1. PICK m \in DOMAIN s \ {i} : t[j] = s[m] /\ m = IF j < i THEN j ELSE j + 1
    BY <1>5
  <2>2. PICK n \in DOMAIN s \ {i} : t[e] = s[n] /\ n = IF e < i THEN e ELSE e + 1
    BY <1>5
  <2>3. m = n
    BY <2>1, <2>2 DEF NoDuplicates
  <2> QED
    BY <1>2, <1>4, <2>1, <2>2, <2>3
<1> QED
  BY <1>1, <1>3, <1>8, <1>9 DEF t

-----------------------------------------------------------------------------
LEMMA ThoseExists ==
    ASSUME NEW q \in Seq(Procs), NEW S
    PROVE  \E f \in [0 .. Len(q) -> Seq(Procs)] :
              /\ f[0] = <<>>
              /\ \A i \in 1 .. Len(q) : f[i] = IF q[i] \in S THEN Append(f[i - 1], q[i]) ELSE f[i - 1]
              /\ Those(q, S) = f[Len(q)]
<1> DEFINE n == Len(q)
           step == [i \in 1 .. n |-> [v \in Seq(Procs) |-> IF q[i] \in S THEN Append(v, q[i]) ELSE v]]
<1>1. n \in Nat /\ DOMAIN q = 1 .. n /\ \A i \in 1 .. n : q[i] \in Procs
  BY SeqFacts
<1>2. step \in [1 .. n -> [Seq(Procs) -> Seq(Procs)]]
  <2>1. \A i \in 1 .. n : \A v \in Seq(Procs) : Append(v, q[i]) \in Seq(Procs)
    BY <1>1, AppendProperties
  <2> QED
    BY <2>1
<1>3. \A i \in 1 .. n, v \in Seq(Procs) : step[i][v] = IF q[i] \in S THEN Append(v, q[i]) ELSE v
  OBVIOUS
<1>4. <<>> \in Seq(Procs)
  OBVIOUS
<1> HIDE DEF step, n
<1>5. PICK f \in [0 .. n -> Seq(Procs)] : Recurs(f, n, <<>>, step)
  BY <1>1, <1>2, <1>4, Recursion
<1>6. f[0] = <<>> /\ \A i \in 1 .. n : f[i] = IF q[i] \in S THEN Append(f[i - 1], q[i]) ELSE f[i - 1]
  <2>1. f[0] = <<>> /\ \A i \in 1 .. n : f[i] = step[i][f[i - 1]]
    BY <1>5 DEF Recurs
  <2>2. \A i \in 1 .. n : f[i - 1] \in Seq(Procs)
    <3>1. \A i \in 1 .. n : i - 1 \in 0 .. n
      BY <1>1
    <3> QED
      BY <1>5, <3>1
  <2> QED
    BY <2>1, <2>2, <1>3
<1> DEFINE rec(g) == [i \in 0 .. n |-> IF i = 0 THEN <<>>
                        ELSE IF q[i] \in S THEN Append(g[i - 1], q[i]) ELSE g[i - 1]]
<1>7. f = rec(f)
  <2>1. \A i \in 0 .. n : f[i] = rec(f)[i]
    <3> TAKE i \in 0 .. n
    <3>1. CASE i = 0
      BY <1>6, <3>1
    <3>2. CASE i # 0
      <4>1. i \in 1 .. n
        BY <1>1, <3>2
      <4> QED
        BY <1>6, <3>2, <4>1
    <3> QED
      BY <3>1, <3>2
  <2> QED
    BY <1>5, <2>1
<1> DEFINE c == CHOOSE g : g = rec(g)
<1>8. c = rec(c)
  <2>1. \E g : g = rec(g)
    BY <1>7
  <2> QED
    BY <2>1
<1>9. Those(q, S) = c[n]
  BY DEF Those, n
<1> HIDE DEF c
<1>10. /\ c[0] = <<>>
       /\ \A i \in 1 .. n : c[i] = IF q[i] \in S THEN Append(c[i - 1], q[i]) ELSE c[i - 1]
  <2>1. 0 \in 0 .. n /\ \A i \in 1 .. n : i \in 0 .. n /\ i # 0
    BY <1>1
  <2>2. c[0] = rec(c)[0] /\ \A i \in 1 .. n : c[i] = rec(c)[i]
    BY <1>8
  <2> QED
    BY <2>1, <2>2
<1> DEFINE T == {i \in 0 .. n : c[i] = f[i]}
<1>11. 0 .. n \subseteq T
  <2>1. 0 \in T
    BY <1>1, <1>6, <1>10
  <2>2. ASSUME NEW i \in 0 .. n - 1, i \in T
        PROVE  i + 1 \in T
    <3>1. i + 1 \in 1 .. n /\ i + 1 \in 0 .. n /\ (i + 1) - 1 = i
      BY <1>1
    <3> QED
      BY <1>6, <1>10, <2>2, <3>1
  <2> HIDE DEF T
  <2> QED
    BY <1>1, <2>1, <2>2, Induction
<1>12. n \in 0 .. n
  BY <1>1
<1> QED
  BY <1>5, <1>6, <1>9, <1>11, <1>12 DEF n

\* Those() keeps what is in the set.
LEMMA ThoseFacts ==
    ASSUME NEW q \in Seq(Procs), NEW S, NoDuplicates(q)
    PROVE  /\ Those(q, S) \in Seq(Procs) /\ ToSet(Those(q, S)) = ToSet(q) \cap S
           /\ NoDuplicates(Those(q, S))
<1> DEFINE n == Len(q)
<1>1. n \in Nat /\ DOMAIN q = 1 .. n /\ \A i \in 1 .. n : q[i] \in Procs
  BY SeqFacts
<1>2. PICK f \in [0 .. n -> Seq(Procs)] :
         /\ f[0] = <<>>
         /\ \A i \in 1 .. n : f[i] = IF q[i] \in S THEN Append(f[i - 1], q[i]) ELSE f[i - 1]
         /\ Those(q, S) = f[n]
  BY ThoseExists
<1> DEFINE Upto(m) == {q[j] : j \in 1 .. m} \cap S
           T == {m \in 0 .. n : ToSet(f[m]) = Upto(m) /\ NoDuplicates(f[m])}
<1> HIDE DEF n
<1>3. 0 .. n \subseteq T
  <2>1. 0 \in T
    <3>1. ToSet(<<>>) = {} /\ NoDuplicates(<<>>)
      BY DEF ToSet, NoDuplicates
    <3>2. Upto(0) = {}
      OBVIOUS
    <3> QED
      BY <1>1, <1>2, <3>1, <3>2
  <2>2. ASSUME NEW m \in 0 .. n - 1, m \in T
        PROVE  m + 1 \in T
    <3>1. m + 1 \in 1 .. n /\ m + 1 \in 0 .. n /\ (m + 1) - 1 = m /\ m \in 0 .. n
      BY <1>1
    <3>2. f[m] \in Seq(Procs) /\ q[m + 1] \in Procs
      BY <1>1, <1>2, <3>1
    <3>3. f[m + 1] = IF q[m + 1] \in S THEN Append(f[m], q[m + 1]) ELSE f[m]
      BY <1>2, <3>1
    <3>4. Upto(m + 1) = Upto(m) \cup ({q[m + 1]} \cap S)
      <4>1. \A j \in 1 .. m + 1 : j \in 1 .. m \/ j = m + 1
        BY <3>1
      <4>2. 1 .. m \subseteq 1 .. m + 1 /\ m + 1 \in 1 .. m + 1
        BY <3>1
      <4> QED
        BY <4>1, <4>2
    <3>5. q[m + 1] \notin Upto(m)
      <4>1. \A j \in 1 .. m : j \in 1 .. n /\ j # m + 1
        BY <3>1, <1>1
      <4> QED
        BY <1>1, <3>1, <4>1 DEF NoDuplicates
    <3>6. ToSet(f[m]) = Upto(m) /\ NoDuplicates(f[m])
      BY <2>2
    <3> HIDE DEF Upto
    <3>7. ToSet(f[m + 1]) = Upto(m + 1) /\ NoDuplicates(f[m + 1])
      <4>1. CASE q[m + 1] \in S
        <5>1. ToSet(f[m + 1]) = ToSet(f[m]) \cup {q[m + 1]} /\ NoDuplicates(f[m + 1])
          BY <3>2, <3>3, <3>5, <3>6, <4>1, Appended
        <5> QED
          BY <3>4, <3>6, <4>1, <5>1
      <4>2. CASE q[m + 1] \notin S
        BY <3>3, <3>4, <3>6, <4>2
      <4> QED
        BY <4>1, <4>2
    <3> QED
      BY <3>1, <3>7 DEF T
  <2> HIDE DEF T
  <2> QED
    BY <1>1, <2>1, <2>2, Induction
<1>4. n \in T
  <2>1. n \in 0 .. n
    BY <1>1
  <2> QED
    BY <1>3, <2>1
<1>5. Upto(n) = ToSet(q) \cap S
  BY <1>1 DEF ToSet
<1>6. f[n] \in Seq(Procs)
  BY <1>1, <1>2
<1> QED
  BY <1>2, <1>4, <1>5, <1>6

\* Taking out who is not there changes nothing.
LEMMA NotRemoved ==
    ASSUME NEW s \in Seq(Procs), NEW b, b \notin ToSet(s)
    PROVE  RemoveFirst(s, b) = s
  BY SeqFacts DEF RemoveFirst, ToSet

-----------------------------------------------------------------------------
(***************************************************************************)
(* Tables: what an edit of a record, and every routine of ProcTable, does  *)
(* to the queues and to the other processes.                               *)
(***************************************************************************)

\* QueuesOK of tables K.
Consistent(K) ==
    /\ \A b \in Buckets : NoDuplicates(K.sleepq[b])
    /\ \A p \in Procs, b \in Buckets :
         OnQueue(K.sleepq[b], p) <=> K.proc[p].wchan # NoChan /\ sqhash[K.proc[p].wchan] = b
    /\ \A p \in Procs : K.proc[p].wchan # NoChan => K.proc[p].stat \in {"SSLEEP", "SSTOP"}
    /\ NoDuplicates(K.dispq)
    /\ \A p \in Procs : K.proc[p].stat = "SRUN" <=> OnQueue(K.dispq, p)
    /\ \A p \in Procs : OnQueue(K.dispq, p) => K.cur # p

LEMMA TablesFacts ==
    ASSUME NEW K \in Tables
    PROVE  /\ K.proc \in [Procs -> ProcRecord] /\ K.sleepq \in [Buckets -> Seq(Procs)]
           /\ K.dispq \in Seq(Procs) /\ K.cur \in Procs \cup {NoProc}
           /\ K = [proc |-> K.proc, sleepq |-> K.sleepq, dispq |-> K.dispq, cur |-> K.cur]
  BY DEF Tables

LEMMA ChanFacts ==
    /\ \A c \in Chans : sqhash[c] \in Buckets /\ c # NoChan
    /\ \A p \in Procs : <<"proc", p>> \in Chans /\ <<"trace", p>> \in Chans
    /\ \A d \in Devs : <<"dev", d>> \in Chans
    /\ KmemChan \in Chans /\ NoProc \notin Procs
  BY ProcTableAssumption DEF ProcTableAssumption, Chans, NoChan, KmemChan

\* Tables K but for the record r of p, and for a dispatcher queue q.
Edit(K, p, r) == [K EXCEPT !.proc[p] = r]
EditQ(K, p, r, q) == [K EXCEPT !.proc[p] = r, !.dispq = q]

\* The record of p is edited; neither the queues nor its being runnable change.
LEMMA Edited ==
    ASSUME NEW K \in Tables, Consistent(K), NEW p \in Procs, NEW r \in ProcRecord, NEW L,
           L = Edit(K, p, r), r.wchan = K.proc[p].wchan,
           r.stat = "SRUN" <=> K.proc[p].stat = "SRUN",
           r.wchan # NoChan => r.stat \in {"SSLEEP", "SSTOP"}
    PROVE  /\ L \in Tables /\ Consistent(L) /\ L.cur = K.cur
           /\ L.proc[p] = r /\ \A q \in Procs \ {p} : L.proc[q] = K.proc[q]
<1>1. /\ L.proc = [K.proc EXCEPT ![p] = r] /\ L.sleepq = K.sleepq /\ L.dispq = K.dispq
      /\ L.cur = K.cur /\ L \in Tables
  BY DEF Tables, Edit
<1>2. L.proc[p] = r /\ \A q \in Procs \ {p} : L.proc[q] = K.proc[q]
  BY <1>1, TablesFacts
<1>3. Consistent(L)
  BY <1>1, <1>2 DEF Consistent
<1> QED
  BY <1>1, <1>2, <1>3

\* p is taken off the sleep queue on which it is.
LEMMA Unslept ==
    ASSUME NEW K \in Tables, Consistent(K), NEW p \in Procs, NEW L, L = unsleep(K, p)
    PROVE  /\ L \in Tables /\ Consistent(L) /\ L.cur = K.cur /\ L.dispq = K.dispq
           /\ L.proc[p] = [K.proc[p] EXCEPT !.wchan = NoChan] /\ L.proc[p] \in ProcRecord
           /\ \A q \in Procs \ {p} : L.proc[q] = K.proc[q]
<1> DEFINE x == K.proc[p]
           r == [x EXCEPT !.wchan = NoChan]
<1>1. x \in ProcRecord /\ K.proc \in [Procs -> ProcRecord]
  BY TablesFacts
<1>2. r \in ProcRecord /\ (x.wchan = NoChan => r = x) /\ r.wchan = NoChan /\ r.stat = x.stat
  BY <1>1 DEF ProcRecord
<1>3. CASE x.wchan = NoChan
  <2>1. L = K /\ L.proc = [K.proc EXCEPT ![p] = r]
    BY <1>1, <1>2, <1>3 DEF unsleep
  <2> QED
    BY <1>1, <1>2, <2>1
<1>4. CASE x.wchan # NoChan
  <2> DEFINE b == sqhash[x.wchan]
             s == K.sleepq[b]
  <2>1. b \in Buckets /\ s \in Seq(Procs) /\ K.sleepq \in [Buckets -> Seq(Procs)]
    <3>1. x.wchan \in Chans
      BY <1>1, <1>4 DEF ProcRecord
    <3> QED
      BY <3>1, ChanFacts, TablesFacts
  <2>2. p \in ToSet(s) /\ NoDuplicates(s)
    BY <1>4, <2>1, SMTT(30) DEF Consistent, OnQueue
  <2>3. /\ RemoveFirst(s, p) \in Seq(Procs) /\ ToSet(RemoveFirst(s, p)) = ToSet(s) \ {p}
        /\ NoDuplicates(RemoveFirst(s, p))
    BY <2>1, <2>2, RemovedFacts, SMTT(30)
  <2> HIDE DEF s
  <2>4. /\ L.proc = [K.proc EXCEPT ![p] = r] /\ L.dispq = K.dispq /\ L.cur = K.cur
        /\ L.sleepq = [K.sleepq EXCEPT ![b] = RemoveFirst(s, p)] /\ L \in Tables
    BY <1>1, <1>2, <1>4, <2>1, <2>3 DEF unsleep, Tables, s
  <2>5. L.proc[p] = r /\ \A q \in Procs \ {p} : L.proc[q] = K.proc[q]
    BY <1>1, <2>4
  <2>6. /\ L.sleepq[b] = RemoveFirst(s, p)
        /\ \A c \in Buckets \ {b} : L.sleepq[c] = K.sleepq[c]
    BY <2>1, <2>4
  <2>7. \A q \in Procs, c \in Buckets :
          OnQueue(L.sleepq[c], q) <=> L.proc[q].wchan # NoChan /\ sqhash[L.proc[q].wchan] = c
    <3> TAKE q \in Procs, c \in Buckets
    <3>1. OnQueue(K.sleepq[c], q) <=> K.proc[q].wchan # NoChan /\ sqhash[K.proc[q].wchan] = c
      BY SMTT(30) DEF Consistent
    <3>2. CASE c = b
      BY <1>2, <2>3, <2>5, <2>6, <3>1, <3>2 DEF OnQueue, s
    <3>3. CASE c # b
      BY <1>2, <2>5, <2>6, <3>1, <3>3 DEF OnQueue, s
    <3> QED
      BY <3>2, <3>3
  <2>8. \A c \in Buckets : NoDuplicates(L.sleepq[c])
    BY <2>3, <2>6 DEF Consistent
  <2>9. Consistent(L)
    BY <1>2, <2>4, <2>5, <2>7, <2>8 DEF Consistent
  <2> QED
    BY <1>2, <2>4, <2>5, <2>9
<1> QED
  BY <1>3, <1>4
\* p goes to sleep on a channel.
Asleep(x, chan) == [x EXCEPT !.stat = "SSLEEP", !.wchan = chan]

LEMMA Slept ==
    ASSUME NEW K \in Tables, Consistent(K), NEW p \in Procs, NEW chan \in Chans,
           K.proc[p].wchan = NoChan, K.proc[p].stat # "SRUN", NEW L, L = QueueSleeper(K, p, chan)
    PROVE  /\ L \in Tables /\ Consistent(L) /\ L.cur = K.cur
           /\ L.proc[p] = Asleep(K.proc[p], chan)
           /\ L.proc[p] \in ProcRecord
           /\ \A q \in Procs \ {p} : L.proc[q] = K.proc[q]
<1> DEFINE x == K.proc[p]
           r == [x EXCEPT !.stat = "SSLEEP", !.wchan = chan]
           b == sqhash[chan]
           s == K.sleepq[b]
<1>1. x \in ProcRecord /\ K.proc \in [Procs -> ProcRecord]
  BY TablesFacts
<1>2. r \in ProcRecord /\ r.wchan = chan /\ r.stat = "SSLEEP" /\ chan # NoChan
  BY <1>1, ChanFacts DEF ProcRecord, Stats
<1>3. b \in Buckets /\ s \in Seq(Procs) /\ K.sleepq \in [Buckets -> Seq(Procs)]
  BY ChanFacts, TablesFacts
<1>4. p \notin ToSet(s) /\ NoDuplicates(s)
  BY <1>3 DEF Consistent, OnQueue
<1>5. Append(s, p) \in Seq(Procs) /\ ToSet(Append(s, p)) = ToSet(s) \cup {p} /\ NoDuplicates(Append(s, p))
  BY <1>3, <1>4, Appended
<1> HIDE DEF s, b
<1>6. /\ L.proc = [K.proc EXCEPT ![p] = r] /\ L.dispq = K.dispq /\ L.cur = K.cur
      /\ L.sleepq = [K.sleepq EXCEPT ![b] = Append(s, p)] /\ L \in Tables
  BY <1>1, <1>2, <1>3, <1>5 DEF QueueSleeper, Tables, s, b
<1>7. L.proc[p] = r /\ \A q \in Procs \ {p} : L.proc[q] = K.proc[q]
  BY <1>1, <1>6
<1>8. L.sleepq[b] = Append(s, p) /\ \A c \in Buckets \ {b} : L.sleepq[c] = K.sleepq[c]
  BY <1>3, <1>6
<1> HIDE DEF r
<1>9. \A q \in Procs, c \in Buckets :
        OnQueue(L.sleepq[c], q) <=> L.proc[q].wchan # NoChan /\ sqhash[L.proc[q].wchan] = c
  <2> TAKE q \in Procs, c \in Buckets
  <2>1. OnQueue(K.sleepq[c], q) <=> K.proc[q].wchan # NoChan /\ sqhash[K.proc[q].wchan] = c
    BY DEF Consistent
  <2>2. CASE c = b
    <3>1. OnQueue(L.sleepq[c], q) <=> q \in ToSet(s) \/ q = p
      BY <1>5, <1>8, <2>2 DEF OnQueue
    <3>2. q \in ToSet(s) <=> OnQueue(K.sleepq[c], q)
      BY <2>2 DEF OnQueue, s
    <3>3. CASE q = p
      BY <1>2, <1>7, <2>2, <3>1, <3>3 DEF b
    <3>4. CASE q # p
      <4>1. L.proc[q] = K.proc[q]
        BY <1>7, <3>4
      <4> QED
        BY <2>1, <3>1, <3>2, <3>4, <4>1
    <3> QED
      BY <3>3, <3>4
  <2>3. CASE c # b
    BY <1>2, <1>7, <1>8, <2>1, <2>3 DEF OnQueue, s, b
  <2> QED
    BY <2>2, <2>3
<1>10. \A c \in Buckets : NoDuplicates(L.sleepq[c])
  BY <1>5, <1>8 DEF Consistent
<1>11. Consistent(L)
  BY <1>2, <1>6, <1>7, <1>9, <1>10 DEF Consistent
<1> QED
  BY <1>2, <1>6, <1>7, <1>11 DEF r, Asleep

\* The record of p, who waits for nothing, becomes r, and p is put on the
\* dispatcher queue.
LEMMA Enqueued ==
    ASSUME NEW K \in Tables, Consistent(K), NEW p \in Procs, NEW r \in ProcRecord,
           K.proc[p].wchan = NoChan, r.wchan = NoChan, r.stat = "SRUN",
           K.proc[p].stat # "SRUN", K.cur # p, NEW q \in Seq(Procs), ToSet(q) = ToSet(K.dispq) \cup {p},
           NoDuplicates(q), NEW L, L = EditQ(K, p, r, q)
    PROVE  /\ L \in Tables /\ Consistent(L) /\ L.cur = K.cur /\ L.proc[p] = r
           /\ \A o \in Procs \ {p} : L.proc[o] = K.proc[o]
<1>1. /\ L.proc = [K.proc EXCEPT ![p] = r] /\ L.sleepq = K.sleepq /\ L.dispq = q
      /\ L.cur = K.cur /\ L \in Tables
  BY DEF Tables, EditQ
<1>2. L.proc[p] = r /\ \A o \in Procs \ {p} : L.proc[o] = K.proc[o]
  BY <1>1, TablesFacts
<1>3. Consistent(L)
  BY <1>1, <1>2 DEF Consistent, OnQueue
<1> QED
  BY <1>1, <1>2, <1>3

\* One end or the other of the dispatcher queue.
LEMMA Behind ==
    ASSUME NEW K \in Tables, Consistent(K), NEW p \in Procs, K.proc[p].stat # "SRUN",
           NEW q, q = Append(K.dispq, p) \/ q = <<p>> \o K.dispq
    PROVE  q \in Seq(Procs) /\ ToSet(q) = ToSet(K.dispq) \cup {p} /\ NoDuplicates(q)
<1>1. K.dispq \in Seq(Procs) /\ NoDuplicates(K.dispq) /\ p \notin ToSet(K.dispq)
  BY TablesFacts DEF Consistent, OnQueue
<1>2. CASE q = Append(K.dispq, p)
  BY <1>1, <1>2, Appended
<1>3. CASE q = <<p>> \o K.dispq
  <2>1. <<p>> \in Seq(Procs) /\ ToSet(<<p>>) = {p} /\ NoDuplicates(<<p>>)
    BY Single
  <2>2. ToSet(<<p>>) \cap ToSet(K.dispq) = {}
    BY <1>1, <2>1
  <2>3. /\ <<p>> \o K.dispq \in Seq(Procs) /\ ToSet(<<p>> \o K.dispq) = ToSet(<<p>>) \cup ToSet(K.dispq)
        /\ NoDuplicates(<<p>> \o K.dispq)
    BY <1>1, <2>1, <2>2, Joined
  <2> QED
    BY <1>3, <2>1, <2>3
<1> QED
  BY <1>2, <1>3

\* A wakeup makes the sleepers of its channel runnable and takes those who
\* are stopped off the sleep queue.
WokenBy(K, L, chan) ==
    \A q \in Procs : L.proc[q] = IF K.proc[q].wchan = chan
                       THEN WakeRecord(K.proc[q]) ELSE K.proc[q]

LEMMA Awoken ==
    ASSUME NEW K \in Tables, Consistent(K), NEW chan \in Chans,
           \A q \in Procs : K.cur = q /\ K.proc[q].wchan = chan => K.proc[q].stat # "SSLEEP",
           NEW L, L = wakeprocs(K, chan)
    PROVE  L \in Tables /\ Consistent(L) /\ L.cur = K.cur /\ WokenBy(K, L, chan)
<1> DEFINE b == sqhash[chan]
           s == K.sleepq[b]
           woken == {p \in ToSet(s) : K.proc[p].wchan = chan}
           started == {p \in woken : K.proc[p].stat = "SSLEEP"}
           rest == Those(s, Procs \ woken)
           more == Those(s, started)
<1>1. /\ b \in Buckets /\ s \in Seq(Procs) /\ K.sleepq \in [Buckets -> Seq(Procs)] /\ chan # NoChan
      /\ K.proc \in [Procs -> ProcRecord] /\ K.dispq \in Seq(Procs) /\ NoDuplicates(s)
  BY ChanFacts, TablesFacts DEF Consistent
<1>2. ToSet(s) \subseteq Procs
  BY <1>1, SeqFacts
<1>3. woken = {p \in Procs : K.proc[p].wchan = chan}
  BY <1>1, <1>2 DEF Consistent, OnQueue
<1>4. rest \in Seq(Procs) /\ ToSet(rest) = ToSet(s) \ woken /\ NoDuplicates(rest)
  BY <1>1, <1>2, ThoseFacts
<1>5. more \in Seq(Procs) /\ ToSet(more) = started /\ NoDuplicates(more)
  BY <1>1, <1>2, ThoseFacts
<1>6. \A p \in started : p \notin ToSet(K.dispq)
  BY <1>2 DEF Consistent, OnQueue
<1>7. /\ K.dispq \o more \in Seq(Procs) /\ ToSet(K.dispq \o more) = ToSet(K.dispq) \cup started
      /\ NoDuplicates(K.dispq \o more)
  <2>1. NoDuplicates(K.dispq) /\ ToSet(K.dispq) \cap ToSet(more) = {}
    BY <1>5, <1>6 DEF Consistent
  <2> QED
    BY <1>1, <1>5, <2>1, Joined
<1>8. \A x \in ProcRecord : WakeRecord(x) \in ProcRecord /\ WakeRecord(x).wchan = NoChan
                              /\ WakeRecord(x).stat = IF x.stat = "SSLEEP" THEN "SRUN" ELSE x.stat
  <2> TAKE x \in ProcRecord
  <2>1. PICK v \in Stats : v = IF x.stat = "SSLEEP" THEN "SRUN" ELSE x.stat
    BY DEF ProcRecord, Stats
  <2>2. WakeRecord(x) = [x EXCEPT !.wchan = NoChan, !.stat = v]
    BY <2>1 DEF ProcRecord, WakeRecord
  <2> QED
    BY <2>1, <2>2 DEF ProcRecord
<1>9. /\ L.proc = [p \in Procs |-> IF p \in woken THEN WakeRecord(K.proc[p]) ELSE K.proc[p]]
      /\ L.sleepq = [K.sleepq EXCEPT ![b] = rest] /\ L.dispq = K.dispq \o more /\ L.cur = K.cur
      /\ L = [proc |-> L.proc, sleepq |-> L.sleepq, dispq |-> L.dispq, cur |-> L.cur]
  <2>1. L = [K EXCEPT !.sleepq[b] = rest, !.dispq = @ \o more,
                      !.proc = [p \in Procs |-> IF p \in woken THEN WakeRecord(K.proc[p]) ELSE K.proc[p]]]
    BY <1>1, TablesFacts DEF wakeprocs
  <2> HIDE DEF rest, more, woken
  <2> QED
    BY <2>1, TablesFacts
<1> HIDE DEF rest, more, s, b
<1>10. \A q \in Procs : L.proc[q] = IF K.proc[q].wchan = chan THEN WakeRecord(K.proc[q]) ELSE K.proc[q]
  BY <1>3, <1>9
<1>11. L \in Tables
  <2>1. L.proc \in [Procs -> ProcRecord]
    BY <1>1, <1>8, <1>9
  <2>2. L.sleepq \in [Buckets -> Seq(Procs)]
    BY <1>1, <1>4, <1>9
  <2> QED
    BY <1>7, <1>9, <2>1, <2>2, TablesFacts DEF Tables
<1>12. L.sleepq[b] = rest /\ \A c \in Buckets \ {b} : L.sleepq[c] = K.sleepq[c]
  BY <1>1, <1>9
<1>13. \A q \in Procs, c \in Buckets :
         OnQueue(L.sleepq[c], q) <=> L.proc[q].wchan # NoChan /\ sqhash[L.proc[q].wchan] = c
  <2> TAKE q \in Procs, c \in Buckets
  <2>1. OnQueue(K.sleepq[c], q) <=> K.proc[q].wchan # NoChan /\ sqhash[K.proc[q].wchan] = c
    BY DEF Consistent
  <2>2. K.proc[q].wchan = chan => L.proc[q].wchan = NoChan
    BY <1>1, <1>8, <1>10
  <2>3. K.proc[q].wchan # chan => L.proc[q].wchan = K.proc[q].wchan
    BY <1>10
  <2>4. CASE c = b
    BY <1>3, <1>4, <1>12, <2>1, <2>2, <2>3, <2>4 DEF OnQueue, s
  <2>5. CASE c # b
    BY <1>12, <2>1, <2>2, <2>3, <2>5 DEF b
  <2> QED
    BY <2>4, <2>5
<1>14. \A c \in Buckets : NoDuplicates(L.sleepq[c])
  BY <1>4, <1>12 DEF Consistent
<1>15. \A q \in Procs : L.proc[q].wchan # NoChan => L.proc[q].stat \in {"SSLEEP", "SSTOP"}
  BY <1>1, <1>8, <1>10 DEF Consistent
<1>16. \A q \in Procs : L.proc[q].stat = "SRUN" <=> OnQueue(L.dispq, q)
  <2> TAKE q \in Procs
  <2>1. K.proc[q].stat = "SRUN" <=> OnQueue(K.dispq, q)
    BY DEF Consistent
  <2>2. CASE K.proc[q].wchan = chan
    BY <1>1, <1>3, <1>7, <1>8, <1>9, <1>10, <2>1, <2>2 DEF OnQueue
  <2>3. CASE K.proc[q].wchan # chan
    BY <1>3, <1>7, <1>9, <1>10, <2>1, <2>3 DEF OnQueue
  <2> QED
    BY <2>2, <2>3
<1>17. \A q \in Procs : OnQueue(L.dispq, q) => L.cur # q
  <2> TAKE q \in Procs
  <2>1. OnQueue(K.dispq, q) => K.cur # q
    BY DEF Consistent
  <2> QED
    BY <1>3, <1>7, <1>9, <2>1 DEF OnQueue
<1>18. Consistent(L)
  BY <1>7, <1>9, <1>13, <1>14, <1>15, <1>16, <1>17 DEF Consistent
<1> QED
  BY <1>9, <1>10, <1>11, <1>18 DEF WokenBy
-----------------------------------------------------------------------------
(***************************************************************************)
(* What wakeups, starts and signals do to a record.                        *)
(***************************************************************************)

\* What only the process itself, or a debugger, changes.
SameRights(x, y) ==
    /\ y.parent = x.parent /\ y.cursig = x.cursig /\ y.hold = x.hold /\ y.ignore = x.ignore
    /\ y.caught = x.caught /\ y.sigmask = x.sigmask /\ y.abort = x.abort
    /\ y.entrystop = x.entrystop

\* A process is woken, started, or left as it is.
Moved(x, y) ==
    /\ y.wchan \in {x.wchan, NoChan}
    /\ y.stat = x.stat \/ (y.stat = "SRUN" /\ x.stat \in {"SSLEEP", "SSTOP"})
    /\ y.wcode = x.wcode \/ (x.stat = "SSTOP" /\ y.wcode = "none")
    /\ y.stat = x.stat => y.whystop = x.whystop

\* It may only have been woken.
Woken(x, y) ==
    /\ SameRights(x, y) /\ Moved(x, y)
    /\ y.flag = x.flag /\ y.sig = x.sig /\ y.sigq = x.sigq /\ y.evpend = x.evpend
    /\ y.wcode = x.wcode /\ y.whystop = x.whystop
    /\ x.stat = "SSTOP" => y.stat = "SSTOP"
    /\ x.wchan = NoChan \/ y.stat = "SSLEEP" => y = x

\* What setrun() does to a process.
Run(x, y) ==
    /\ SameRights(x, y) /\ Moved(x, y)
    /\ y.flag = x.flag /\ y.sig = x.sig /\ y.sigq = x.sigq /\ y.evpend = x.evpend
    /\ x.stat = "SSLEEP" => y.stat = "SRUN"
    /\ x.stat = "SSTOP" /\ {"SXSTART", "SPSTART"} \subseteq x.flag => y.stat = "SRUN"
    /\ x.stat = "SSTOP" /\ ~({"SXSTART", "SPSTART"} \subseteq x.flag) => y.stat = "SSTOP"

LEMMA WakeFacts ==
    ASSUME NEW x \in ProcRecord, x.wchan # NoChan => x.stat \in {"SSLEEP", "SSTOP"}
    PROVE  x.wchan # NoChan => Woken(x, WakeRecord(x))
  BY DEF ProcRecord, WakeRecord, Woken, SameRights, Moved

LEMMA WokenByFacts ==
    ASSUME NEW K \in Tables, Consistent(K), NEW chan \in Chans, NEW L, WokenBy(K, L, chan)
    PROVE  /\ \A q \in Procs : Woken(K.proc[q], L.proc[q])
           /\ \A q \in Procs : L.proc[q].wchan # chan
           /\ \A q \in Procs : K.proc[q].wchan # chan => L.proc[q] = K.proc[q]
           /\ \A q \in Procs : L.proc[q].stat = "SSLEEP" => L.proc[q] = K.proc[q]
<1> SUFFICES ASSUME NEW q \in Procs
             PROVE  /\ Woken(K.proc[q], L.proc[q]) /\ L.proc[q].wchan # chan
                    /\ K.proc[q].wchan # chan => L.proc[q] = K.proc[q]
                    /\ L.proc[q].stat = "SSLEEP" => L.proc[q] = K.proc[q]
  OBVIOUS
<1> DEFINE x == K.proc[q]
<1>1. x \in ProcRecord /\ (x.wchan # NoChan => x.stat \in {"SSLEEP", "SSTOP"}) /\ chan # NoChan
  BY TablesFacts, ChanFacts DEF Consistent
<1>2. L.proc[q] = IF x.wchan = chan THEN WakeRecord(x) ELSE x
  BY DEF WokenBy
<1>3. WakeRecord(x).wchan = NoChan /\ WakeRecord(x).stat # "SSLEEP"
  BY <1>1 DEF ProcRecord, WakeRecord
<1>4. Woken(x, x)
  BY <1>1 DEF ProcRecord, Woken, SameRights, Moved
<1> HIDE DEF x
<1>5. Woken(x, L.proc[q])
  BY <1>1, <1>2, <1>4, WakeFacts
<1> QED
  BY <1>1, <1>2, <1>3, <1>5 DEF x

LEMMA WokenTwice ==
    ASSUME NEW x, NEW y, NEW z, Woken(x, y), Woken(y, z)
    PROVE  Woken(x, z)
  BY DEF Woken, SameRights, Moved

\* setrun() of a process that is not running.
LEMMA SetrunFacts ==
    ASSUME NEW K \in Tables, Consistent(K), NEW p \in Procs, K.cur # p,
           K.proc[p].stat \in {"SRUN", "SSLEEP", "SSTOP"},
           \/ \A q \in Procs : K.cur = q => K.proc[q].stat # "SSLEEP"
           \/ K.proc[p].stat # "SSTOP"
           \/ K.proc[p].whystop # "PR_SIGNALLED"
           \/ {"SXSTART", "SPSTART"} \subseteq K.proc[p].flag,
           NEW L, L = setrun(K, p)
    PROVE  /\ L \in Tables /\ Consistent(L) /\ L.cur = K.cur /\ Run(K.proc[p], L.proc[p])
           /\ \A q \in Procs \ {p} : Woken(K.proc[q], L.proc[q])
<1> DEFINE x == K.proc[p]
           start == {"SXSTART", "SPSTART"} \subseteq x.flag
<1>1. K.proc \in [Procs -> ProcRecord] /\ x \in ProcRecord
  BY TablesFacts
<1>2. \A r \in ProcRecord : Woken(r, r)
  BY DEF ProcRecord, Woken, SameRights, Moved
<1>3. PICK off : off = unsleep(K, p)
  OBVIOUS
<1>4. /\ off \in Tables /\ Consistent(off) /\ off.cur = K.cur /\ off.dispq = K.dispq
      /\ off.proc[p] = [x EXCEPT !.wchan = NoChan] /\ off.proc[p] \in ProcRecord
      /\ \A q \in Procs \ {p} : off.proc[q] = K.proc[q]
  BY <1>3, Unslept, SMTT(30)
<1>5. CASE x.stat = "SRUN"
  <2>1. L = K
    BY <1>5 DEF setrun
  <2>2. Run(x, x)
    BY <1>1, <1>5 DEF ProcRecord, Run, SameRights, Moved
  <2> QED
    BY <1>1, <1>2, <2>1, <2>2
<1>6. CASE x.stat = "SSTOP" /\ ~start
  <2>1. Run(x, off.proc[p])
    BY <1>1, <1>4, <1>6 DEF ProcRecord, Run, SameRights, Moved
  <2>2. CASE "SPSTART" \in x.flag /\ x.whystop = "PR_SIGNALLED" /\ x.parent # NoProc
    <3>1. x.parent \in Procs
      BY <1>1, <2>2 DEF ProcRecord
    <3>2. PICK chan \in Chans : chan = <<"proc", x.parent>>
      BY <3>1, ChanFacts
    <3>3. L = wakeprocs(off, chan)
      BY <1>3, <1>6, <2>2, <3>2 DEF setrun
    <3>4. \A q \in Procs : off.cur = q /\ off.proc[q].wchan = chan => off.proc[q].stat # "SSLEEP"
      BY <1>4, <1>6, <2>2
    <3>5. L \in Tables /\ Consistent(L) /\ L.cur = off.cur /\ WokenBy(off, L, chan)
      BY <1>4, <3>3, <3>4, Awoken
    <3>6. /\ \A q \in Procs : Woken(off.proc[q], L.proc[q])
          /\ \A q \in Procs : off.proc[q].wchan # chan => L.proc[q] = off.proc[q]
      BY <1>4, <3>5, WokenByFacts
    <3>7. off.proc[p].wchan # chan
      BY <1>1, <1>4, <3>2 DEF NoChan, ProcRecord
    <3> QED
      BY <1>4, <2>1, <3>5, <3>6, <3>7
  <2>3. CASE ~("SPSTART" \in x.flag /\ x.whystop = "PR_SIGNALLED" /\ x.parent # NoProc)
    <3>1. L = off
      BY <1>3, <1>6, <2>3 DEF setrun
    <3> QED
      BY <1>1, <1>2, <1>4, <2>1, <3>1
  <2> QED
    BY <2>2, <2>3
<1>7. CASE x.stat = "SSLEEP" \/ (x.stat = "SSTOP" /\ start)
  <2> DEFINE w == IF x.stat = "SSTOP" THEN "none" ELSE x.wcode
             y == off.proc[p]
             r == [y EXCEPT !.stat = "SRUN", !.whystop = "none", !.wcode = w]
             q0 == Append(K.dispq, p)
  <2>1. w \in Wcodes /\ y.wcode = x.wcode /\ y.wchan = NoChan /\ y.stat = x.stat
    BY <1>1, <1>4 DEF ProcRecord, Wcodes
  <2>2. L = EditQ(off, p, r, q0)
    <3>1. L = setbackdq([off EXCEPT !.proc[p].stat = "SRUN", !.proc[p].whystop = "none",
                                    !.proc[p].wcode = IF x.stat = "SSTOP" THEN "none" ELSE @], p)
      BY <1>3, <1>7 DEF setrun
    <3>2. off.proc[p].wcode = x.wcode
      BY <2>1
    <3>3. [off EXCEPT !.proc[p].stat = "SRUN", !.proc[p].whystop = "none",
                      !.proc[p].wcode = IF x.stat = "SSTOP" THEN "none" ELSE @]
            = [off EXCEPT !.proc[p] = r]
      BY <1>4, <2>1, <3>2, TablesFacts, ZenonT(60)
    <3>4. L = setbackdq([off EXCEPT !.proc[p] = r], p)
      BY <3>1, <3>3
    <3> HIDE DEF r
    <3> QED
      BY <1>4, <3>4, TablesFacts DEF setbackdq, EditQ
  <2>3. r \in ProcRecord /\ r.wchan = NoChan /\ r.stat = "SRUN"
    BY <1>4, <2>1, ZenonT(60) DEF ProcRecord, Stats, StopWhys
  <2>4. Run(x, r)
    BY <1>1, <1>4, <1>7 DEF ProcRecord, Run, SameRights, Moved
  <2>5. q0 \in Seq(Procs) /\ ToSet(q0) = ToSet(off.dispq) \cup {p} /\ NoDuplicates(q0)
    <3>1. off \in Tables /\ Consistent(off) /\ off.proc[p].stat # "SRUN" /\ q0 = Append(off.dispq, p)
      BY <1>4, <1>7, <2>1
    <3> HIDE DEF q0
    <3> QED
      BY ONLY <3>1, p \in Procs, Behind
  <2> HIDE DEF r, q0
  <2>6. /\ off \in Tables /\ Consistent(off) /\ off.cur # p
        /\ off.proc[p].stat # "SRUN" /\ off.proc[p].wchan = NoChan
    BY <1>4, <1>7, <2>1
  <2>7. /\ L \in Tables /\ Consistent(L) /\ L.cur = off.cur /\ L.proc[p] = r
        /\ \A o \in Procs \ {p} : L.proc[o] = off.proc[o]
    BY ONLY <2>2, <2>3, <2>5, <2>6, p \in Procs, Enqueued
  <2> QED
    BY <1>1, <1>2, <1>4, <2>4, <2>7
<1> QED
  BY <1>5, <1>6, <1>7
-----------------------------------------------------------------------------
(***************************************************************************)
(* Posting a signal.                                                       *)
(***************************************************************************)

\* The pending signals that s cancels.
Opposite(s) == IF s = "CONT" THEN stopdefault ELSE IF s \in stopdefault THEN {"CONT"} ELSE {}

\* What CancelOpposite() does to the process.
Cancelled(x, y, s) ==
    /\ SameRights(x, y) /\ Moved(x, y) /\ y.evpend = x.evpend
    /\ y.sig = x.sig \ Opposite(s)
    /\ y.sigq \subseteq x.sigq /\ y.sigq \cap Opposite(s) \cap x.sig = {}
    /\ x.flag \subseteq y.flag /\ y.flag \subseteq x.flag \cup {"SXSTART"}
    /\ x.stat # "SSTOP" => y.stat = x.stat /\ y.wchan = x.wchan /\ y.flag = x.flag /\ y.wcode = x.wcode
    /\ x.stat = "SSTOP" /\ y.stat # "SSTOP" => s = "CONT" /\ "SPSTART" \in x.flag

LEMMA CancelFacts ==
    ASSUME NEW K \in Tables, Consistent(K), NEW t \in Procs, NEW s \in Sigs,
           K.cur # t \/ K.proc[t].stat = "SONPROC", NEW L, L = CancelOpposite(K, t, s)
    PROVE  /\ L \in Tables /\ Consistent(L) /\ L.cur = K.cur /\ Cancelled(K.proc[t], L.proc[t], s)
           /\ \A q \in Procs \ {t} : Woken(K.proc[q], L.proc[q])
<1> DEFINE x == K.proc[t]
<1>1. /\ K.proc \in [Procs -> ProcRecord] /\ x \in ProcRecord
      /\ x.wchan # NoChan => x.stat \in {"SSLEEP", "SSTOP"}
  BY TablesFacts DEF Consistent
<1>2. \A r \in ProcRecord : Woken(r, r)
  BY DEF ProcRecord, Woken, SameRights, Moved
<1>3. CASE s = "CONT"
  <2> DEFINE r == [x EXCEPT !.sigq = @ \ (stopdefault \cap x.sig), !.sig = @ \ stopdefault]
             f == [r EXCEPT !.flag = @ \cup {"SXSTART"}]
  <2>1. /\ r \in ProcRecord /\ f \in ProcRecord /\ r.wchan = x.wchan /\ f.wchan = x.wchan
        /\ r.stat = x.stat /\ f.stat = x.stat /\ f.whystop = x.whystop
    BY <1>1 DEF ProcRecord, Flags
  <2>2. Cancelled(x, r, s)
    BY <1>1, <1>3 DEF ProcRecord, Cancelled, SameRights, Moved, Opposite
  <2>3. /\ SameRights(x, f) /\ f.evpend = x.evpend /\ f.sig = x.sig \ Opposite(s)
        /\ f.sigq \subseteq x.sigq /\ f.sigq \cap Opposite(s) \cap x.sig = {}
        /\ f.flag = x.flag \cup {"SXSTART"} /\ f.wcode = x.wcode
    BY <1>1, <1>3 DEF ProcRecord, SameRights, Opposite
  <2>4. /\ [K EXCEPT !.proc[t].sigq = @ \ (stopdefault \cap K.proc[t].sig),
                     !.proc[t].sig  = @ \ stopdefault] = Edit(K, t, r)
    BY <1>1, TablesFacts DEF Edit, ProcRecord
  <2>5. [Edit(K, t, r) EXCEPT !.proc[t].flag = @ \cup {"SXSTART"}] = Edit(K, t, f)
    <3>1. Edit(K, t, r).proc[t] = r
      BY <1>1, TablesFacts DEF Edit
    <3> HIDE DEF r
    <3> QED
      BY <1>1, <3>1, TablesFacts DEF Edit
  <2>6. L = IF x.stat = "SSTOP" /\ x.whystop = "PR_JOBCONTROL"
            THEN setrun(Edit(K, t, f), t) ELSE Edit(K, t, r)
    <3> DEFINE c == [K EXCEPT !.proc[t].sigq = @ \ (stopdefault \cap K.proc[t].sig),
                              !.proc[t].sig  = @ \ stopdefault]
    <3>1. L = IF K.proc[t].stat = "SSTOP" /\ K.proc[t].whystop = "PR_JOBCONTROL"
              THEN setrun([c EXCEPT !.proc[t].flag = @ \cup {"SXSTART"}], t) ELSE c
      <4>1. s \notin stopdefault
        BY <1>3 DEF stopdefault
      <4> QED
        BY <1>3, <4>1, Zenon DEF CancelOpposite
    <3>2. c = Edit(K, t, r)
      BY <2>4
    <3> HIDE DEF c, r, f
    <3> QED
      BY <2>5, <3>1, <3>2
  <2> HIDE DEF r, f
  <2>7. CASE x.stat = "SSTOP" /\ x.whystop = "PR_JOBCONTROL"
    <3>1. PICK F : F = Edit(K, t, f)
      OBVIOUS
    <3>2. /\ F \in Tables /\ Consistent(F) /\ F.cur = K.cur /\ F.proc[t] = f
          /\ \A q \in Procs \ {t} : F.proc[q] = K.proc[q]
      BY <1>1, <2>1, <3>1, Edited
    <3>3. L = setrun(F, t) /\ F.cur # t /\ F.proc[t].stat = "SSTOP" /\ F.proc[t].whystop # "PR_SIGNALLED"
      BY <2>1, <2>6, <2>7, <3>1, <3>2
    <3>4. /\ L \in Tables /\ Consistent(L) /\ L.cur = F.cur /\ Run(F.proc[t], L.proc[t])
          /\ \A q \in Procs \ {t} : Woken(F.proc[q], L.proc[q])
      BY <3>2, <3>3, SetrunFacts
    <3>5. Cancelled(x, L.proc[t], s)
      <4>1. Run(f, L.proc[t])
        BY <3>2, <3>4
      <4> QED
        BY <1>3, <2>1, <2>3, <2>7, <4>1 DEF Cancelled, Run, SameRights, Moved
    <3> QED
      BY <3>2, <3>4, <3>5
  <2>8. CASE ~(x.stat = "SSTOP" /\ x.whystop = "PR_JOBCONTROL")
    <3>1. L = Edit(K, t, r)
      BY <2>6, <2>8
    <3>2. /\ L \in Tables /\ Consistent(L) /\ L.cur = K.cur /\ L.proc[t] = r
          /\ \A q \in Procs \ {t} : L.proc[q] = K.proc[q]
      BY <1>1, <2>1, <3>1, Edited
    <3> QED
      BY <1>1, <1>2, <2>2, <3>2
  <2> QED
    BY <2>7, <2>8
<1>4. CASE s # "CONT" /\ s \in stopdefault
  <2> DEFINE r == [x EXCEPT !.sigq = @ \ {"CONT"}, !.sig = @ \ {"CONT"}]
  <2>1. r \in ProcRecord /\ r.wchan = x.wchan /\ r.stat = x.stat
    BY <1>1 DEF ProcRecord
  <2>2. Cancelled(x, r, s)
    BY <1>1, <1>4 DEF ProcRecord, Cancelled, SameRights, Moved, Opposite
  <2>3. L = Edit(K, t, r)
    <3>1. [K EXCEPT !.proc[t].sigq = @ \ {"CONT"}, !.proc[t].sig = @ \ {"CONT"}] = Edit(K, t, r)
      BY <1>1, TablesFacts DEF Edit, ProcRecord
    <3> QED
      BY <1>4, <3>1 DEF CancelOpposite
  <2> HIDE DEF r
  <2>4. /\ L \in Tables /\ Consistent(L) /\ L.cur = K.cur /\ L.proc[t] = r
        /\ \A q \in Procs \ {t} : L.proc[q] = K.proc[q]
    BY <1>1, <2>1, <2>3, Edited
  <2> QED
    BY <1>1, <1>2, <2>2, <2>4
<1>5. CASE s # "CONT" /\ s \notin stopdefault
  <2>1. L = K
    BY <1>5 DEF CancelOpposite
  <2>2. Cancelled(x, x, s)
    BY <1>1, <1>5 DEF ProcRecord, Cancelled, SameRights, Moved, Opposite
  <2> QED
    BY <1>1, <1>2, <2>1, <2>2
<1> QED
  BY <1>3, <1>4, <1>5

\* What Notify() does to the process.
Notified(x, y, s) ==
    /\ SameRights(x, y) /\ Moved(x, y) /\ y.sig = x.sig /\ y.sigq = x.sigq
    /\ x.flag \subseteq y.flag /\ y.flag \subseteq x.flag \cup {"SXSTART", "SPSTART"}
    /\ x.stat # "SSTOP" => y.flag = x.flag /\ y.wcode = x.wcode
    /\ x.stat \notin {"SSTOP", "SSLEEP"} => y.stat = x.stat /\ y.wchan = x.wchan
    /\ x.stat = "SSLEEP" => (y.stat = "SSLEEP" <=> "SNWAKE" \in x.flag \/ s \in x.hold)
    /\ y.stat = "SSLEEP" => y.wchan = x.wchan
    /\ x.stat = "SSTOP" => (y.stat = "SSTOP" <=> s # "KILL")

LEMMA NotifyFacts ==
    ASSUME NEW K \in Tables, Consistent(K), NEW t \in Procs, NEW s \in Sigs,
           K.cur # t \/ K.proc[t].stat = "SONPROC", NEW L, L = Notify(K, t, s)
    PROVE  /\ L \in Tables /\ Consistent(L) /\ L.cur = K.cur /\ Notified(K.proc[t], L.proc[t], s)
           /\ \A q \in Procs \ {t} : Woken(K.proc[q], L.proc[q])
<1> DEFINE x == K.proc[t]
<1>1. /\ K.proc \in [Procs -> ProcRecord] /\ x \in ProcRecord
      /\ x.wchan # NoChan => x.stat \in {"SSLEEP", "SSTOP"}
  BY TablesFacts DEF Consistent
<1>2. \A r \in ProcRecord : Woken(r, r)
  BY DEF ProcRecord, Woken, SameRights, Moved
<1>3. CASE x.stat = "SSLEEP"
  <2>1. CASE "SNWAKE" \in x.flag \/ s \in x.hold
    <3>1. L = K
      BY <1>3, <2>1 DEF Notify
    <3>2. Notified(x, x, s)
      BY <1>1, <1>3, <2>1 DEF ProcRecord, Notified, SameRights, Moved
    <3> QED
      BY <1>1, <1>2, <3>1, <3>2
  <2>2. CASE ~("SNWAKE" \in x.flag \/ s \in x.hold)
    <3>1. L = setrun(K, t) /\ K.cur # t
      BY <1>3, <2>2 DEF Notify
    <3>2. /\ L \in Tables /\ Consistent(L) /\ L.cur = K.cur /\ Run(x, L.proc[t])
          /\ \A q \in Procs \ {t} : Woken(K.proc[q], L.proc[q])
      BY <1>3, <3>1, SetrunFacts
    <3>3. Notified(x, L.proc[t], s)
      BY <1>3, <2>2, <3>2 DEF Notified, Run, SameRights, Moved
    <3> QED
      BY <3>2, <3>3
  <2> QED
    BY <2>1, <2>2
<1>4. CASE x.stat = "SSTOP" /\ s = "KILL"
  <2> DEFINE f == [x EXCEPT !.flag = @ \cup {"SXSTART", "SPSTART"}]
  <2>1. /\ f \in ProcRecord /\ f.wchan = x.wchan /\ f.stat = x.stat
        /\ f.flag = x.flag \cup {"SXSTART", "SPSTART"}
        /\ SameRights(x, f) /\ f.sig = x.sig /\ f.sigq = x.sigq /\ f.wcode = x.wcode
    BY <1>1 DEF ProcRecord, Flags, SameRights
  <2>2. L = setrun(Edit(K, t, f), t)
    <3>1. [K EXCEPT !.proc[t].flag = @ \cup {"SXSTART", "SPSTART"}] = Edit(K, t, f)
      BY <1>1, TablesFacts DEF Edit, ProcRecord
    <3> QED
      BY <1>4, <3>1 DEF Notify
  <2> HIDE DEF f
  <2>3. PICK F : F = Edit(K, t, f)
    OBVIOUS
  <2>4. /\ F \in Tables /\ Consistent(F) /\ F.cur = K.cur /\ F.proc[t] = f
        /\ \A q \in Procs \ {t} : F.proc[q] = K.proc[q]
    BY <1>1, <2>1, <2>3, Edited
  <2>5. /\ L = setrun(F, t) /\ F.cur # t /\ F.proc[t].stat = "SSTOP"
        /\ {"SXSTART", "SPSTART"} \subseteq F.proc[t].flag
    BY <1>4, <2>1, <2>2, <2>3, <2>4
  <2>6. /\ L \in Tables /\ Consistent(L) /\ L.cur = F.cur /\ Run(F.proc[t], L.proc[t])
        /\ \A q \in Procs \ {t} : Woken(F.proc[q], L.proc[q])
    BY <2>4, <2>5, SetrunFacts
  <2>7. Notified(x, L.proc[t], s)
    <3>1. Run(f, L.proc[t])
      BY <2>4, <2>6
    <3> QED
      BY <1>4, <2>1, <3>1 DEF Notified, Run, SameRights, Moved
  <2> QED
    BY <2>4, <2>6, <2>7
<1>5. CASE x.stat = "SSTOP" /\ s # "KILL"
  <2>1. CASE x.wchan # NoChan /\ "SNWAKE" \notin x.flag
    <3>1. L = unsleep(K, t)
      BY <1>5, <2>1 DEF Notify
    <3>2. /\ L \in Tables /\ Consistent(L) /\ L.cur = K.cur
          /\ L.proc[t] = [x EXCEPT !.wchan = NoChan]
          /\ \A q \in Procs \ {t} : L.proc[q] = K.proc[q]
      BY <3>1, Unslept
    <3>3. Notified(x, L.proc[t], s)
      BY <1>1, <1>5, <3>2 DEF ProcRecord, Notified, SameRights, Moved
    <3> QED
      BY <1>1, <1>2, <3>2, <3>3
  <2>2. CASE ~(x.wchan # NoChan /\ "SNWAKE" \notin x.flag)
    <3>1. L = K
      BY <1>5, <2>2 DEF Notify
    <3>2. Notified(x, x, s)
      BY <1>1, <1>5 DEF ProcRecord, Notified, SameRights, Moved
    <3> QED
      BY <1>1, <1>2, <3>1, <3>2
  <2> QED
    BY <2>1, <2>2
<1>6. CASE x.stat \notin {"SSTOP", "SSLEEP"}
  <2> DEFINE f == [x EXCEPT !.evpend = TRUE]
  <2>1. /\ f \in ProcRecord /\ f.wchan = x.wchan /\ f.stat = x.stat
    BY <1>1 DEF ProcRecord
  <2>2. Notified(x, f, s) /\ Notified(x, x, s)
    BY <1>1, <1>6 DEF ProcRecord, Notified, SameRights, Moved
  <2>3. L = K \/ L = Edit(K, t, f)
    <3>1. [K EXCEPT !.proc[t].evpend = TRUE] = Edit(K, t, f)
      BY <1>1, TablesFacts DEF Edit, ProcRecord
    <3> QED
      BY <1>6, <3>1 DEF Notify
  <2> HIDE DEF f
  <2>4. CASE L = Edit(K, t, f)
    <3>1. /\ L \in Tables /\ Consistent(L) /\ L.cur = K.cur /\ L.proc[t] = f
          /\ \A q \in Procs \ {t} : L.proc[q] = K.proc[q]
      BY <1>1, <2>1, <2>4, Edited
    <3> QED
      BY <1>1, <1>2, <2>2, <3>1
  <2> QED
    BY <1>1, <1>2, <2>2, <2>3, <2>4
<1> QED
  BY <1>3, <1>4, <1>5, <1>6
\* What sigtoproc() does to the process.
Posted(x, y, s) ==
    /\ SameRights(x, y) /\ Moved(x, y)
    /\ y.sig = (x.sig \ Opposite(s)) \cup (IF s \in x.ignore /\ s \notin x.sigmask THEN {} ELSE {s})
    /\ y.sigq \subseteq x.sigq /\ y.sigq \cap Opposite(s) \cap x.sig = {}
    /\ x.flag \subseteq y.flag /\ y.flag \subseteq x.flag \cup {"SXSTART", "SPSTART"}
    /\ x.stat # "SSTOP" => y.flag = x.flag /\ y.wcode = x.wcode
    /\ x.stat \notin {"SSTOP", "SSLEEP"} => y.stat = x.stat /\ y.wchan = x.wchan
    /\ y.stat = "SSLEEP" => y.wchan = x.wchan
    /\ y.stat = "SSLEEP" => "SNWAKE" \in x.flag \/ y.sig \subseteq x.sig \cup x.hold
    /\ x.stat = "SSTOP" => (y.stat = "SSTOP" \/ "KILL" \in y.sig \/ (s = "CONT" /\ "SPSTART" \in x.flag))
    /\ y.stat = "SSTOP" /\ "KILL" \in y.sig => "KILL" \in x.sig

LEMMA PostedSteps ==
    ASSUME NEW x \in ProcRecord, NEW y \in ProcRecord, NEW z \in ProcRecord, NEW w \in ProcRecord, NEW s \in Sigs,
           Cancelled(x, y, s), z = [y EXCEPT !.sig = @ \cup {s}],
           IF s \in x.ignore /\ s \notin x.sigmask THEN w = y ELSE Notified(z, w, s)
    PROVE  Posted(x, w, s)
<1>1. /\ z.sig = y.sig \cup {s} /\ z.stat = y.stat /\ z.wchan = y.wchan /\ z.flag = y.flag
      /\ SameRights(y, z) /\ z.sigq = y.sigq /\ z.wcode = y.wcode /\ z.whystop = y.whystop
  BY DEF ProcRecord, SameRights
<1>2. /\ SameRights(x, y) /\ Moved(x, y) /\ y.sig = x.sig \ Opposite(s)
      /\ y.sigq \subseteq x.sigq /\ y.sigq \cap Opposite(s) \cap x.sig = {}
      /\ x.flag \subseteq y.flag /\ y.flag \subseteq x.flag \cup {"SXSTART"}
      /\ x.stat # "SSTOP" => y.stat = x.stat /\ y.wchan = x.wchan /\ y.flag = x.flag /\ y.wcode = x.wcode
      /\ x.stat = "SSTOP" /\ y.stat # "SSTOP" => s = "CONT" /\ "SPSTART" \in x.flag
  BY DEF Cancelled
<1>3. CASE s \in x.ignore /\ s \notin x.sigmask
  BY <1>2, <1>3 DEF Posted, Moved
<1>4. CASE ~(s \in x.ignore /\ s \notin x.sigmask)
  <2>1. Notified(z, w, s)
    BY <1>4
  <2>2. /\ SameRights(z, w) /\ Moved(z, w) /\ w.sig = z.sig /\ w.sigq = z.sigq
        /\ z.flag \subseteq w.flag /\ w.flag \subseteq z.flag \cup {"SXSTART", "SPSTART"}
        /\ z.stat # "SSTOP" => w.flag = z.flag /\ w.wcode = z.wcode
        /\ z.stat \notin {"SSTOP", "SSLEEP"} => w.stat = z.stat /\ w.wchan = z.wchan
        /\ z.stat = "SSLEEP" => (w.stat = "SSLEEP" <=> "SNWAKE" \in z.flag \/ s \in z.hold)
        /\ w.stat = "SSLEEP" => w.wchan = z.wchan
        /\ z.stat = "SSTOP" => (w.stat = "SSTOP" <=> s # "KILL")
    BY <2>1 DEF Notified
  <2>3. SameRights(x, w)
    BY <1>1, <1>2, <2>2 DEF SameRights
  <2>4. Moved(x, w)
    BY <1>1, <1>2, <2>2 DEF Moved
  <2>5. w.sig = (x.sig \ Opposite(s)) \cup {s}
    BY <1>1, <1>2, <2>2
  <2>6. z.hold = x.hold
    BY <1>1, <1>2 DEF SameRights
  <2>7. w.stat = "SSLEEP" => z.stat = "SSLEEP" /\ x.stat = "SSLEEP" /\ y.stat = "SSLEEP"
    BY <1>1, <1>2, <2>2 DEF Moved
  <2>8. w.stat = "SSLEEP" => w.wchan = x.wchan /\ ("SNWAKE" \in x.flag \/ w.sig \subseteq x.sig \cup x.hold)
    BY <1>1, <1>2, <2>2, <2>5, <2>6, <2>7
  <2>9. w.stat = "SSTOP" => z.stat = "SSTOP" /\ s # "KILL"
    BY <1>1, <1>2, <2>2 DEF Moved
  <2>10. w.stat = "SSTOP" /\ "KILL" \in w.sig => "KILL" \in x.sig
    BY <2>5, <2>9
  <2>11. x.stat = "SSTOP" => w.stat = "SSTOP" \/ "KILL" \in w.sig \/ (s = "CONT" /\ "SPSTART" \in x.flag)
    BY <1>1, <1>2, <2>2, <2>5
  <2>12. x.stat # "SSTOP" => w.flag = x.flag /\ w.wcode = x.wcode
    BY <1>1, <1>2, <2>2
  <2>13. x.stat \notin {"SSTOP", "SSLEEP"} => w.stat = x.stat /\ w.wchan = x.wchan
    BY <1>1, <1>2, <2>2
  <2>14. x.flag \subseteq w.flag /\ w.flag \subseteq x.flag \cup {"SXSTART", "SPSTART"}
    BY <1>1, <1>2, <2>2
  <2>15. w.sigq \subseteq x.sigq /\ w.sigq \cap Opposite(s) \cap x.sig = {}
    BY <1>1, <1>2, <2>2
  <2> QED
    BY <1>4, <2>3, <2>4, <2>5, <2>8, <2>10, <2>11, <2>12, <2>13, <2>14, <2>15 DEF Posted
<1> QED
  BY <1>3, <1>4

LEMMA SigtoprocFacts ==
    ASSUME NEW K \in Tables, Consistent(K), NEW t \in Procs, NEW s \in Sigs,
           K.cur # t \/ K.proc[t].stat = "SONPROC", NEW L, L = sigtoproc(K, t, s)
    PROVE  /\ L \in Tables /\ Consistent(L) /\ L.cur = K.cur /\ Posted(K.proc[t], L.proc[t], s)
           /\ \A q \in Procs \ {t} : Woken(K.proc[q], L.proc[q])
<1> DEFINE x == K.proc[t]
<1>1. PICK c : c = CancelOpposite(K, t, s)
  OBVIOUS
<1>2. /\ c \in Tables /\ Consistent(c) /\ c.cur = K.cur /\ Cancelled(x, c.proc[t], s)
      /\ \A q \in Procs \ {t} : Woken(K.proc[q], c.proc[q])
  BY <1>1, CancelFacts
<1>3. x \in ProcRecord /\ c.proc[t] \in ProcRecord /\ (c.cur # t \/ c.proc[t].stat = "SONPROC")
  BY <1>2, TablesFacts DEF Cancelled
<1> DEFINE y == c.proc[t]
           z == [y EXCEPT !.sig = @ \cup {s}]
<1>4. z \in ProcRecord /\ z.stat = y.stat /\ z.wchan = y.wchan
  BY <1>3 DEF ProcRecord
<1>5. y.ignore = x.ignore /\ y.sigmask = x.sigmask
  BY <1>2 DEF Cancelled, SameRights
<1>6. L = IF s \in x.ignore /\ s \notin x.sigmask THEN c ELSE Notify([c EXCEPT !.proc[t].sig = @ \cup {s}], t, s)
  BY <1>1, <1>5 DEF sigtoproc, tracing
<1>7. [c EXCEPT !.proc[t].sig = @ \cup {s}] = Edit(c, t, z)
  BY <1>2, <1>3, TablesFacts DEF Edit, ProcRecord
<1>8. PICK Z : Z = Edit(c, t, z)
  OBVIOUS
<1> HIDE DEF z
<1>9. y.wchan # NoChan => y.stat \in {"SSLEEP", "SSTOP"}
  BY <1>2 DEF Consistent
<1>10. /\ Z \in Tables /\ Consistent(Z) /\ Z.cur = c.cur /\ Z.proc[t] = z
       /\ \A q \in Procs \ {t} : Z.proc[q] = c.proc[q]
  BY <1>2, <1>4, <1>8, <1>9, Edited
<1>11. CASE s \in x.ignore /\ s \notin x.sigmask
  <2>1. L = c
    BY <1>6, <1>11
  <2>2. Posted(x, y, s)
    BY <1>2, <1>3, <1>4, <1>11, PostedSteps DEF z
  <2> QED
    BY <1>2, <2>1, <2>2
<1>12. CASE ~(s \in x.ignore /\ s \notin x.sigmask)
  <2>1. L = Notify(Z, t, s)
    BY <1>6, <1>7, <1>8, <1>12
  <2>2. Z.cur # t \/ Z.proc[t].stat = "SONPROC"
    BY <1>3, <1>4, <1>10
  <2>3. /\ L \in Tables /\ Consistent(L) /\ L.cur = Z.cur /\ Notified(Z.proc[t], L.proc[t], s)
        /\ \A q \in Procs \ {t} : Woken(Z.proc[q], L.proc[q])
    BY <1>10, <2>1, <2>2, NotifyFacts
  <2>4. Notified(z, L.proc[t], s) /\ L.proc[t] \in ProcRecord
    BY <1>10, <2>3, TablesFacts
  <2>5. Posted(x, L.proc[t], s)
    BY <1>2, <1>3, <1>4, <1>12, <2>4, PostedSteps DEF z
  <2>6. \A q \in Procs \ {t} : Woken(K.proc[q], L.proc[q])
    BY <1>2, <1>10, <2>3, WokenTwice
  <2> QED
    BY <1>2, <1>10, <2>3, <2>5, <2>6
<1> QED
  BY <1>11, <1>12

\* A signal with a queue entry: what sigaddq() does to the process.
Added(x, y, s) ==
    /\ SameRights(x, y) /\ Moved(x, y)
    /\ y.sig \subseteq x.sig \cup {s}
    /\ s \in x.ignore /\ s \notin x.sigmask => y.sig \subseteq x.sig
    /\ ~KmemSleeps => (x.sigq \subseteq x.sig => y.sigq \subseteq y.sig)
    /\ x.flag \subseteq y.flag /\ y.flag \subseteq x.flag \cup {"SXSTART", "SPSTART"}
    /\ x.stat # "SSTOP" => y.flag = x.flag /\ y.wcode = x.wcode
    /\ x.stat \notin {"SSTOP", "SSLEEP"} => y.stat = x.stat /\ y.wchan = x.wchan
    /\ y.stat = "SSLEEP" => y.wchan = x.wchan
    /\ y.stat = "SSLEEP" => "SNWAKE" \in x.flag \/ y.sig \subseteq x.sig \cup x.hold
    /\ x.stat = "SSTOP" => \/ y.stat = "SSTOP" \/ "KILL" \in y.sig
                           \/ "SPSTART" \in x.flag /\ y.sig \cap stopdefault = {}
    /\ y.stat = "SSTOP" /\ "KILL" \in y.sig => "KILL" \in x.sig

LEMMA OppositeFacts ==
    /\ "CONT" \notin stopdefault /\ "KILL" \notin stopdefault /\ "CLD" \notin stopdefault
    /\ \A s \in Sigs : s \notin Opposite(s) /\ "KILL" \notin Opposite(s)
    /\ Opposite("CONT") = stopdefault
  BY DEF stopdefault, Opposite

LEMMA PostedIsAdded ==
    ASSUME NEW x \in ProcRecord, NEW y, NEW s \in Sigs, Posted(x, y, s)
    PROVE  Added(x, y, s)
<1>1. s \notin Opposite(s) /\ (s = "CONT" => Opposite(s) = stopdefault /\ s \notin stopdefault)
  BY OppositeFacts
<1>2. x.sigq \subseteq x.sig => y.sigq \subseteq y.sig
  BY DEF Posted
<1>3. s = "CONT" => y.sig \cap stopdefault = {}
  BY <1>1 DEF Posted
<1> QED
  BY <1>2, <1>3 DEF Posted, Added

LEMMA SigaddqFacts ==
    ASSUME NEW K \in Tables, Consistent(K), NEW t \in Procs, NEW s \in Sigs,
           K.cur # t \/ K.proc[t].stat = "SONPROC", NEW L,
           \/ L = sigaddqInsert(K, t, s) /\ (KmemSleeps \/ sigaddqAllocates(K, t, s))
           \/ L = sigtoproc(K, t, s) \/ L = sigaddq(K, t, s)
    PROVE  /\ L \in Tables /\ Consistent(L) /\ L.cur = K.cur /\ Added(K.proc[t], L.proc[t], s)
           /\ \A q \in Procs \ {t} : Woken(K.proc[q], L.proc[q])
<1> DEFINE x == K.proc[t]
           z == [x EXCEPT !.sigq = @ \cup {s}]
<1>1. /\ K.proc \in [Procs -> ProcRecord] /\ x \in ProcRecord
      /\ x.wchan # NoChan => x.stat \in {"SSLEEP", "SSTOP"}
  BY TablesFacts DEF Consistent
<1>2. \A r \in ProcRecord : Woken(r, r)
  BY DEF ProcRecord, Woken, SameRights, Moved
<1>3. CASE L = sigtoproc(K, t, s)
  BY <1>1, <1>3, SigtoprocFacts, PostedIsAdded
<1>4. CASE L = sigaddqInsert(K, t, s) /\ (KmemSleeps \/ sigaddqAllocates(K, t, s))
  <2>1. CASE s \in x.sigq
    <3>1. L = K
      BY <1>4, <2>1 DEF sigaddqInsert
    <3>2. Added(x, x, s)
      BY <1>1 DEF ProcRecord, Added, SameRights, Moved
    <3> QED
      BY <1>1, <1>2, <3>1, <3>2
  <2>2. CASE s \notin x.sigq
    <3>1. z \in ProcRecord /\ z.stat = x.stat /\ z.wchan = x.wchan
      BY <1>1 DEF ProcRecord
    <3>2. [K EXCEPT !.proc[t].sigq = @ \cup {s}] = Edit(K, t, z)
      BY <1>1, TablesFacts DEF Edit, ProcRecord
    <3>3. PICK Z : Z = Edit(K, t, z)
      OBVIOUS
    <3>4. L = sigtoproc(Z, t, s)
      BY <1>4, <2>2, <3>2, <3>3 DEF sigaddqInsert
    <3>5. /\ SameRights(x, z) /\ z.sig = x.sig /\ z.sigq = x.sigq \cup {s} /\ z.flag = x.flag
          /\ z.wcode = x.wcode /\ z.whystop = x.whystop
      BY <1>1 DEF ProcRecord, SameRights
    <3> HIDE DEF z
    <3>6. /\ Z \in Tables /\ Consistent(Z) /\ Z.cur = K.cur /\ Z.proc[t] = z
          /\ \A q \in Procs \ {t} : Z.proc[q] = K.proc[q]
      BY <1>1, <3>1, <3>3, Edited
    <3>7. /\ L \in Tables /\ Consistent(L) /\ L.cur = Z.cur /\ Posted(z, L.proc[t], s)
          /\ \A q \in Procs \ {t} : Woken(Z.proc[q], L.proc[q])
      <4>1. Z.cur # t \/ Z.proc[t].stat = "SONPROC"
        BY <3>1, <3>6
      <4>2. /\ L \in Tables /\ Consistent(L) /\ L.cur = Z.cur /\ Posted(Z.proc[t], L.proc[t], s)
            /\ \A q \in Procs \ {t} : Woken(Z.proc[q], L.proc[q])
        BY <3>4, <3>6, <4>1, SigtoprocFacts
      <4> QED
        BY <3>6, <4>2
    <3>8. Added(z, L.proc[t], s)
      BY <3>1, <3>7, PostedIsAdded
    <3>9. ~KmemSleeps /\ x.sigq \subseteq x.sig => L.proc[t].sigq \subseteq L.proc[t].sig
      <4>1. SUFFICES ASSUME ~KmemSleeps, x.sigq \subseteq x.sig
                     PROVE  L.proc[t].sigq \subseteq L.proc[t].sig
        OBVIOUS
      <4>2. ~(s \in x.ignore /\ s \notin x.sigmask)
        BY <1>4, <4>1 DEF sigaddqAllocates, tracing
      <4>3. /\ L.proc[t].sig = (x.sig \ Opposite(s)) \cup {s}
            /\ L.proc[t].sigq \subseteq x.sigq \cup {s} /\ L.proc[t].sigq \cap Opposite(s) \cap x.sig = {}
        BY <3>5, <3>7, <4>2 DEF Posted, SameRights
      <4> QED
        BY <4>1, <4>3
    <3>10. Added(x, L.proc[t], s)
      BY <3>1, <3>5, <3>8, <3>9 DEF Added, SameRights, Moved
    <3> QED
      BY <3>6, <3>7, <3>10
  <2> QED
    BY <2>1, <2>2
<1>5. CASE L = sigaddq(K, t, s)
  BY <1>3, <1>4, <1>5 DEF sigaddq
<1> QED
  BY <1>3, <1>4, <1>5
-----------------------------------------------------------------------------
(***************************************************************************)
(* The inductive invariant, of tables K, threads th and interrupt level h. *)
(***************************************************************************)

\* Places where the process has the processor, and those where a signal that
\* issig() has promoted may be current.
Running == {"user", "trapret", "fsig", "psig", "waitid", "wstop", "exit0", "exit1"}
Asked   == {"issig", "cursig", "psig", "trapret", "trapsig", "exit2", "dead"}

\* The record x and the thread t of process q, wherever it is.
Fine(q, x, t) ==
    /\ t.pc = "waitid" \/ t.ret = "waitid" => "wait" \in SysCalls[q]
    /\ t.pc \in {"wstop", "kmem"} \/ t.ret = "wstop" => t.tgt \in Procs
    /\ t.pc = "kmem" => /\ KmemSleeps /\ t.inner \in {"kill", "ssig"} /\ t.sg \in Sigs
                        /\ t.inner = "ssig" => t.tgt # q
    /\ x.parent # q
    /\ \A o \in Procs : x.wchan = <<"proc", o>> => o = q /\ "wait" \in SysCalls[q]
    /\ "KILL" \notin x.hold \cup x.caught \cup x.sigmask
    /\ "KILL" \in x.ignore => "KILL" \notin x.sig
    /\ "KILL" \in x.sig => x.stat # "SSTOP"
    /\ x.cursig = "KILL" /\ "SPROCIO" \notin x.flag => x.stat # "SSTOP"
    /\ KmemSleeps /\ "CLD" \in Sigs => "CLD" \in x.ignore /\ "CLD" \notin x.sigmask
    /\ ~KmemSleeps => x.sigq \subseteq x.sig
    /\ x.wcode = "CLD_EXITED" => x.stat = "SZOMB"
    /\ x.cursig \in Sigs \ PrSigs => t.pc \in Asked
    /\ "SNOSTOP" \in x.flag => "nostop" \in Disps

\* It does not have the processor.
Rests(x, t) ==
    /\ t.pc \notin Running
    /\ t.pc = "asleep" /\ x.stat = "SSLEEP" =>
         /\ "SNWAKE" \notin x.flag
         /\ x.sig \subseteq x.hold
         /\ {"SNOSTOP", "SPROCIO"} \cap x.flag = {} =>
              x.cursig = "none" /\ "SPRSTOP" \notin x.flag

AliveRec(x) == x.stat \notin {"SZOMB", "FREE"}

\* If it waits for a stop or for a child, there is nothing to be told yet.
Hears(q, K, t) ==
    K.proc[q].stat = "SSLEEP" =>
      /\ t.ret = "wstop" =>
           /\ K.proc[q].wchan = <<"trace", t.tgt>> /\ t.tgt \in Procs
           /\ AliveRec(K.proc[t.tgt]) /\ ~StoppedByProc(K.proc[t.tgt])
      /\ t.ret = "waitid" =>
           /\ K.proc[q].wchan = <<"proc", q>>
           /\ Children(K, q) # {}
           /\ \A c \in Children(K, q) : K.proc[c].wcode \notin WaitFor

\* It has the processor: it runs, or it is on a sleep queue while it looks at
\* its signals at splhi.
On(p, K, t, h) ==
    LET x == K.proc[p]
    IN /\ \/ x.stat = "SONPROC"
          \/ /\ x.stat = "SSLEEP" /\ h /\ x.wchan # NoChan
             /\ t.pc \in {"issig", "fsig", "jobcont"} /\ t.ctx = "pre"
       /\ t.pc = "psig" => x.cursig # "none" /\ x.cursig \notin x.ignore
       /\ t.pc = "fsig" => x.cursig = "none"
       /\ x.stat = "SSLEEP" =>
            /\ "SNWAKE" \notin x.flag
            /\ x.cursig \in stopdefault \ PrSigs => "KILL" \notin x.sig
            /\ t.pc = "jobcont" => PrSigs \cap stopdefault # {}
            /\ t.pc = "fsig" => "SNOSTOP" \in x.flag \/ "SPRSTOP" \notin x.flag \/ "KILL" \in x.sig
       /\ Hears(p, K, t)

Off(q, K, t) ==
    Fine(q, K.proc[q], t) /\ Rests(K.proc[q], t) /\ (t.pc = "asleep" => Hears(q, K, t))

\* All but the running process.
Settled(K, th) ==
    /\ K \in Tables /\ Consistent(K)
    /\ \A q \in Procs : K.cur # q => Off(q, K, th[q])

InvAt(K, th, h) ==
    /\ Settled(K, th) /\ th \in [Procs -> Threads] /\ h \in BOOLEAN
    /\ \A p \in Procs : K.cur = p => Fine(p, K.proc[p], th[p]) /\ On(p, K, th[p], h)

SInv == InvAt(k, thr, hi)

(***************************************************************************)
(* The circumstances in which it holds.  No process is its own parent.     *)
(* While sigcld() waits for memory its caller is neither stopped nor gone  *)
(* (see SleepSig_stop_kmem): either SIGCLD needs no queue entry, because   *)
(* all ignore it and none trace it, or there is always memory.  And a      *)
(* debugger does not set a stop signal as the current signal of a process  *)
(* that waits for its children: it would be found with SIGKILL pending, be *)
(* refused the stop, and be woken by its own sigcld() while it runs.       *)
(***************************************************************************)
Setting ==
    /\ \A p \in Procs : Parent0[p] # p
    /\ KmemSleeps => "CLD" \notin MayCatch \cup UNION PrMasks
    /\ \A p \in Procs : "wait" \in SysCalls[p] => PrSigs \cap stopdefault = {}

-----------------------------------------------------------------------------
(***************************************************************************)
(* What wakeups and signals leave in place.                                *)
(***************************************************************************)
LEMMA FineWoken ==
    ASSUME NEW q \in Procs, NEW x, NEW y, NEW t, Fine(q, x, t), Woken(x, y)
    PROVE  Fine(q, y, t)
  BY DEF Fine, Woken, SameRights, Moved, NoChan

LEMMA RestsWoken ==
    ASSUME NEW x, NEW y, NEW t, Rests(x, t), Woken(x, y)
    PROVE  Rests(y, t)
  BY DEF Rests, Woken

LEMMA FineAdded ==
    ASSUME NEW q \in Procs, NEW x, NEW y, NEW t, NEW s \in Sigs, Fine(q, x, t), Added(x, y, s)
    PROVE  Fine(q, y, t)
<1>1. /\ y.parent = x.parent /\ y.cursig = x.cursig /\ y.hold = x.hold /\ y.ignore = x.ignore
      /\ y.caught = x.caught /\ y.sigmask = x.sigmask /\ y.wchan \in {x.wchan, NoChan}
      /\ (y.wcode = x.wcode \/ y.wcode = "none") /\ (y.stat = "SSTOP" => x.stat = "SSTOP")
      /\ (x.stat = "SZOMB" => y.stat = "SZOMB")
      /\ ("SNOSTOP" \in y.flag => "SNOSTOP" \in x.flag)
  BY DEF Added, SameRights, Moved
<1>2. "KILL" \in y.ignore => "KILL" \notin y.sig
  BY DEF Fine, Added, SameRights
<1>3. /\ "KILL" \in y.sig => y.stat # "SSTOP"
      /\ y.cursig = "KILL" /\ "SPROCIO" \notin y.flag => y.stat # "SSTOP"
  BY <1>1 DEF Fine, Added
<1>4. ~KmemSleeps => y.sigq \subseteq y.sig
  BY DEF Fine, Added
<1> QED
  BY <1>1, <1>2, <1>3, <1>4 DEF Fine, NoChan

LEMMA RestsAdded ==
    ASSUME NEW q \in Procs, NEW x, NEW y, NEW t, NEW s \in Sigs, Rests(x, t), Added(x, y, s)
    PROVE  Rests(y, t)
<1>1. /\ y.stat = "SSLEEP" => x.stat = "SSLEEP" /\ y.flag = x.flag
      /\ y.stat = "SSLEEP" => "SNWAKE" \in x.flag \/ y.sig \subseteq x.sig \cup x.hold
      /\ y.hold = x.hold /\ y.cursig = x.cursig
  BY DEF Added, SameRights, Moved
<1> QED
  BY <1>1 DEF Rests

\* Nothing has happened that a debugger, or a parent, waits for.
QuietStop(x, y)  == AliveRec(x) /\ ~StoppedByProc(x) => AliveRec(y) /\ ~StoppedByProc(y)
QuietChild(x, y) == y.parent = x.parent /\ (y.stat = "FREE" <=> x.stat = "FREE") /\ y.wcode \in {x.wcode, "none"}

LEMMA QuietFacts ==
    ASSUME NEW x, NEW y, (\E s \in Sigs : Added(x, y, s)) \/ Woken(x, y) \/ Run(x, y)
    PROVE  QuietStop(x, y) /\ QuietChild(x, y)
<1>1. SameRights(x, y) /\ Moved(x, y) /\ x.flag \subseteq y.flag
  BY DEF Added, Woken, Run
<1> QED
  BY <1>1 DEF SameRights, Moved, QuietStop, QuietChild, AliveRec, StoppedByProc

\* From x to y a stop is held, or the process is killed, or job control had
\* stopped it and no stop signal is pending any more.
Holds(x, y) ==
    x.stat = "SSTOP" /\ y.stat # "SSTOP" =>
        \/ "KILL" \in y.sig \cup {y.cursig}
        \/ "SPSTART" \in x.flag /\ y.sig \cap stopdefault = {}

\* The step holds every stop.
Held == \A q \in Procs : Holds(k.proc[q], k'.proc[q])

LEMMA HoldsFacts ==
    ASSUME NEW x, NEW y
    PROVE  /\ (\E s \in Sigs : Added(x, y, s)) => Holds(x, y)
           /\ x.stat # "SSTOP" \/ x.stat = y.stat \/ Woken(x, y) => Holds(x, y)
           /\ \A z : Woken(x, y) /\ Holds(y, z) => Holds(x, z)
  BY DEF Added, Woken, Holds

LEMMA HeldBut ==
    ASSUME NEW p \in Procs, Holds(k.proc[p], k'.proc[p]),
           \A q \in Procs \ {p} : Holds(k.proc[q], k'.proc[q])
    PROVE  Held
  BY DEF Held

\* Who edits one record, and not whether its process is stopped, holds stops.
LEMMA EditHeld ==
    ASSUME k \in Tables, NEW t \in Procs, NEW r, r.stat = k.proc[t].stat, k' = Edit(k, t, r)
    PROVE  Held
<1>1. k'.proc = [k.proc EXCEPT ![t] = r] /\ k.proc \in [Procs -> ProcRecord]
  BY TablesFacts DEF Edit
<1>2. \A q \in Procs : k'.proc[q].stat = k.proc[q].stat
  BY <1>1
<1> QED
  BY <1>2 DEF Held, Holds

LEMMA LeftAlone ==
    ASSUME NEW K \in Tables, NEW p \in Procs, NEW L, L = LeaveProcessor(K, p)
    PROVE  \A q \in Procs \ {p} : L.proc[q] = K.proc[q]
  BY TablesFacts DEF LeaveProcessor

\* Tables that differ in the record of p from those at the start of the step.
Framed(p, K) ==
    /\ K = [proc |-> K.proc, sleepq |-> K.sleepq, dispq |-> K.dispq, cur |-> K.cur]
    /\ DOMAIN K.proc = Procs /\ \A q \in Procs \ {p} : K.proc[q] = k.proc[q]

LEMMA FramedFirst ==
    ASSUME k \in Tables, NEW p \in Procs
    PROVE  Framed(p, k)
<1>1. k.proc \in [Procs -> ProcRecord]
  BY TablesFacts
<1> QED
  BY <1>1, TablesFacts DEF Framed

LEMMA FramedSteps ==
    ASSUME NEW p \in Procs, NEW K, Framed(p, K)
    PROVE  /\ Framed(p, LeaveProcessor(K, p)) /\ Framed(p, EnterProcessor(K, p))
           /\ Framed(p, setbackdq(K, p)) /\ Framed(p, setfrontdq(K, p))
           /\ Framed(p, unsleep(K, p)) /\ \A chan : Framed(p, QueueSleeper(K, p, chan))
<1>1. \A e : /\ Framed(p, [K EXCEPT !.cur = e]) /\ Framed(p, [K EXCEPT !.dispq = e])
             /\ Framed(p, [K EXCEPT !.sleepq = e]) /\ Framed(p, [K EXCEPT !.proc[p] = e])
  BY DEF Framed
<1>2. Framed(p, LeaveProcessor(K, p))
  <2>1. PICK L : L = [K EXCEPT !.cur = NoProc]
    OBVIOUS
  <2>2. LeaveProcessor(K, p) = [L EXCEPT !.proc[p].stat = IF @ = "SONPROC" THEN "SRUN" ELSE @]
    BY <2>1 DEF LeaveProcessor
  <2>3. Framed(p, L)
    BY <1>1, <2>1
  <2> QED
    BY <2>2, <2>3 DEF Framed
<1>3. Framed(p, EnterProcessor(K, p))
  <2>1. PICK L : L = [K EXCEPT !.cur = p]
    OBVIOUS
  <2>2. PICK M : M = [L EXCEPT !.proc[p].stat = "SONPROC"]
    OBVIOUS
  <2>3. EnterProcessor(K, p) = [M EXCEPT !.dispq = RemoveFirst(@, p)]
    BY <2>1, <2>2 DEF EnterProcessor
  <2>4. Framed(p, L)
    BY <1>1, <2>1
  <2>5. Framed(p, M)
    BY <2>2, <2>4 DEF Framed
  <2> QED
    BY <2>3, <2>5 DEF Framed
<1>4. Framed(p, setbackdq(K, p))
  BY <1>1 DEF setbackdq
<1>5. Framed(p, setfrontdq(K, p))
  BY <1>1 DEF setfrontdq
<1>6. Framed(p, unsleep(K, p))
  BY DEF Framed, unsleep
<1>7. ASSUME NEW chan
      PROVE  Framed(p, QueueSleeper(K, p, chan))
  <2>1. PICK L : L = [K EXCEPT !.proc[p].stat = "SSLEEP"]
    OBVIOUS
  <2>2. PICK M : M = [L EXCEPT !.proc[p].wchan = chan]
    OBVIOUS
  <2>3. QueueSleeper(K, p, chan) = [M EXCEPT !.sleepq[sqhash[chan]] = Append(@, p)]
    BY <2>1, <2>2 DEF QueueSleeper
  <2>4. Framed(p, L)
    BY <2>1 DEF Framed
  <2>5. Framed(p, M)
    BY <2>2, <2>4 DEF Framed
  <2> QED
    BY <2>3, <2>5 DEF Framed
<1> QED
  BY <1>2, <1>3, <1>4, <1>5, <1>6, <1>7

LEMMA FramedHeld ==
    ASSUME NEW p \in Procs, k.proc[p].stat # "SSTOP", Framed(p, k')
    PROVE  Held
  BY DEF Framed, Held, Holds

\* What q waits for has not happened if nobody who sleeps waits for what has.
LEMMA HearsTold ==
    ASSUME NEW K, NEW L, NEW q \in Procs, NEW t, Hears(q, K, t),
           L.proc[q].stat = "SSLEEP" => K.proc[q].stat = "SSLEEP" /\ L.proc[q].wchan = K.proc[q].wchan,
           \A n \in Procs :
              /\ \/ QuietStop(K.proc[n], L.proc[n])
                 \/ L.proc[q].stat = "SSLEEP" => L.proc[q].wchan # <<"trace", n>>
              /\ \/ QuietChild(K.proc[n], L.proc[n])
                 \/ L.proc[q].stat = "SSLEEP" => L.proc[q].wchan # <<"proc", q>>
                 \/ K.proc[n].parent # q /\ L.proc[n].parent # q
    PROVE  Hears(q, L, t)
<1> SUFFICES ASSUME L.proc[q].stat = "SSLEEP"
             PROVE  Hears(q, L, t)
  BY DEF Hears
<1>1. K.proc[q].stat = "SSLEEP" /\ L.proc[q].wchan = K.proc[q].wchan
  OBVIOUS
<1>2. ASSUME t.ret = "wstop"
      PROVE  /\ L.proc[q].wchan = <<"trace", t.tgt>> /\ t.tgt \in Procs
             /\ AliveRec(L.proc[t.tgt]) /\ ~StoppedByProc(L.proc[t.tgt])
  <2>1. /\ K.proc[q].wchan = <<"trace", t.tgt>> /\ t.tgt \in Procs
        /\ AliveRec(K.proc[t.tgt]) /\ ~StoppedByProc(K.proc[t.tgt])
    BY <1>1, <1>2 DEF Hears
  <2>2. QuietStop(K.proc[t.tgt], L.proc[t.tgt])
    BY <1>1, <2>1
  <2> QED
    BY <1>1, <2>1, <2>2 DEF QuietStop
<1>3. ASSUME t.ret = "waitid"
      PROVE  /\ L.proc[q].wchan = <<"proc", q>> /\ Children(L, q) # {}
             /\ \A c \in Children(L, q) : L.proc[c].wcode \notin WaitFor
  <2>1. /\ K.proc[q].wchan = <<"proc", q>> /\ Children(K, q) # {}
        /\ \A c \in Children(K, q) : K.proc[c].wcode \notin WaitFor
    BY <1>1, <1>3 DEF Hears
  <2>2. \A n \in Procs : QuietChild(K.proc[n], L.proc[n]) \/ (K.proc[n].parent # q /\ L.proc[n].parent # q)
    BY <1>1, <2>1
  <2>3. Children(L, q) = Children(K, q)
    BY <2>2 DEF Children, QuietChild
  <2>4. \A c \in Children(K, q) : L.proc[c].wcode \in {K.proc[c].wcode, "none"}
    BY <2>2 DEF Children, QuietChild
  <2>5. "none" \notin WaitFor
    BY SleepSigAssumption DEF SleepSigAssumption
  <2> QED
    BY <1>1, <2>1, <2>3, <2>4, <2>5
<1> QED
  BY <1>2, <1>3 DEF Hears

\* A step that concerns process n, and may wake others, leaves the others settled.
LEMMA SettledStep ==
    ASSUME NEW K, NEW th, Settled(K, th), NEW L \in Tables, Consistent(L), L.cur = K.cur,
           NEW n \in Procs,
           \A q \in Procs \ {n} : Woken(K.proc[q], L.proc[q]),
           \/ QuietStop(K.proc[n], L.proc[n])
           \/ \A q \in Procs : L.proc[q].stat = "SSLEEP" => L.proc[q].wchan # <<"trace", n>>,
           \/ QuietChild(K.proc[n], L.proc[n])
           \/ /\ L.proc[n].parent = K.proc[n].parent
              /\ \A q \in Procs : L.proc[q].stat = "SSLEEP" => L.proc[q].wchan # <<"proc", L.proc[n].parent>>,
           K.cur # n => /\ Fine(n, L.proc[n], th[n]) /\ Rests(L.proc[n], th[n])
                        /\ L.proc[n].stat = "SSLEEP" => /\ K.proc[n].stat = "SSLEEP"
                                                        /\ L.proc[n].wchan = K.proc[n].wchan
    PROVE  Settled(L, th)
<1> SUFFICES ASSUME NEW q \in Procs, L.cur # q
             PROVE  Off(q, L, th[q])
  BY DEF Settled
<1>1. Fine(q, K.proc[q], th[q]) /\ Rests(K.proc[q], th[q]) /\ (th[q].pc = "asleep" => Hears(q, K, th[q]))
  BY DEF Settled, Off
<1>2. Fine(q, L.proc[q], th[q]) /\ Rests(L.proc[q], th[q])
  BY <1>1, FineWoken, RestsWoken
<1>3. L.proc[q].stat = "SSLEEP" => K.proc[q].stat = "SSLEEP" /\ L.proc[q].wchan = K.proc[q].wchan
  BY DEF Woken
<1>4. ASSUME NEW o \in Procs
      PROVE  /\ \/ QuietStop(K.proc[o], L.proc[o])
                \/ L.proc[q].stat = "SSLEEP" => L.proc[q].wchan # <<"trace", o>>
             /\ \/ QuietChild(K.proc[o], L.proc[o])
                \/ L.proc[q].stat = "SSLEEP" => L.proc[q].wchan # <<"proc", q>>
                \/ K.proc[o].parent # q /\ L.proc[o].parent # q
  <2>1. CASE o # n
    BY <2>1, QuietFacts
  <2>2. CASE o = n
    BY <2>2
  <2> QED
    BY <2>1, <2>2
<1>5. th[q].pc = "asleep" => Hears(q, L, th[q])
  BY <1>1, <1>3, <1>4, HearsTold
<1> QED
  BY <1>2, <1>5 DEF Off
-----------------------------------------------------------------------------
(***************************************************************************)
(* From the tables after a step to the invariant: process p, who had the   *)
(* processor, keeps it, or gives it up asleep or stopped, or still wants   *)
(* it.  Its thread becomes u.                                              *)
(***************************************************************************)
Becomes(th, p, u) == [th EXCEPT ![p] = u]

LEMMA Stays ==
    ASSUME NEW L, NEW th \in [Procs -> Threads], NEW p \in Procs, Settled(L, th), L.cur = p,
           NEW u \in Threads, NEW h \in BOOLEAN, Fine(p, L.proc[p], u), On(p, L, u, h)
    PROVE  InvAt(L, Becomes(th, p, u), h)
<1> DEFINE T == [th EXCEPT ![p] = u]
<1>1. T \in [Procs -> Threads] /\ T[p] = u /\ \A q \in Procs \ {p} : T[q] = th[q]
  OBVIOUS
<1> HIDE DEF T
<1>2. Settled(L, T)
  BY <1>1 DEF Settled
<1> QED
  BY <1>1, <1>2 DEF InvAt, T, Becomes

LEMMA Leaves ==
    ASSUME NEW K, NEW th \in [Procs -> Threads], NEW p \in Procs, Settled(K, th), K.cur = p,
           NEW L, L = LeaveProcessor(K, p), NEW u \in Threads, NEW h \in BOOLEAN,
           K.proc[p].stat # "SONPROC",
           Fine(p, K.proc[p], u), Rests(K.proc[p], u), u.pc = "asleep" => Hears(p, K, u)
    PROVE  InvAt(L, Becomes(th, p, u), h)
<1> DEFINE T == [th EXCEPT ![p] = u]
<1>1. T \in [Procs -> Threads] /\ T[p] = u /\ \A q \in Procs \ {p} : T[q] = th[q]
  OBVIOUS
<1> HIDE DEF T
<1>2. K \in Tables /\ Consistent(K) /\ \A q \in Procs : K.cur # q => Off(q, K, th[q])
  BY DEF Settled
<1>3. /\ L.proc = K.proc /\ L.sleepq = K.sleepq /\ L.dispq = K.dispq /\ L.cur = NoProc
      /\ L \in Tables
  <2> DEFINE st == K.proc[p].stat
  <2>1. K.proc \in [Procs -> ProcRecord] /\ K.proc[p] \in ProcRecord
    BY <1>2, TablesFacts
  <2>2. [K.proc[p] EXCEPT !.stat = st] = K.proc[p]
    BY <2>1 DEF ProcRecord
  <2>3. L = [K EXCEPT !.cur = NoProc, !.proc[p].stat = st]
    BY DEF LeaveProcessor
  <2> HIDE DEF st
  <2>4. L = [K EXCEPT !.cur = NoProc, !.proc = [K.proc EXCEPT ![p] = [K.proc[p] EXCEPT !.stat = st]]]
    BY <1>2, <2>1, <2>3, TablesFacts
  <2>5. [K.proc EXCEPT ![p] = K.proc[p]] = K.proc
    BY <2>1
  <2>6. L = [K EXCEPT !.cur = NoProc, !.proc = K.proc]
    BY <2>2, <2>4, <2>5
  <2> QED
    BY <1>2, <2>6 DEF Tables
<1>4. Consistent(L)
  BY <1>2, <1>3, ChanFacts DEF Consistent
<1>5. \A q \in Procs : Off(q, L, T[q])
  <2> TAKE q \in Procs
  <2>1. Hears(q, L, T[q]) <=> Hears(q, K, T[q])
    BY <1>3 DEF Hears, Children
  <2>2. Off(q, K, T[q])
    BY <1>1, <1>2 DEF Off
  <2> QED
    BY <1>3, <2>1, <2>2 DEF Off
<1>6. Settled(L, T) /\ \A q \in Procs : L.cur # q
  BY <1>3, <1>4, <1>5, ChanFacts DEF Settled
<1> QED
  BY <1>1, <1>6 DEF InvAt, T, Becomes

LEMMA Requeues ==
    ASSUME NEW K, NEW th \in [Procs -> Threads], NEW p \in Procs, Settled(K, th), K.cur = p,
           NEW L, \/ L = LeaveProcessor(setbackdq(K, p), p)
                  \/ L = LeaveProcessor(setfrontdq(K, p), p),
           NEW u \in Threads, NEW h \in BOOLEAN,
           K.proc[p].stat = "SONPROC",
           Fine(p, K.proc[p], u), u.pc \notin Running, u.pc # "asleep"
    PROVE  InvAt(L, Becomes(th, p, u), h)
<1> DEFINE T == [th EXCEPT ![p] = u]
           x == K.proc[p]
           r == [x EXCEPT !.stat = "SRUN"]
<1>1. T \in [Procs -> Threads] /\ T[p] = u /\ \A q \in Procs \ {p} : T[q] = th[q]
  OBVIOUS
<1> HIDE DEF T
<1>2. /\ K \in Tables /\ Consistent(K) /\ \A q \in Procs : K.cur # q => Off(q, K, th[q])
      /\ x \in ProcRecord /\ K.proc \in [Procs -> ProcRecord]
  BY TablesFacts DEF Settled
<1>3. /\ r \in ProcRecord /\ r.wchan = x.wchan /\ x.wchan = NoChan /\ SameRights(x, r)
      /\ r.flag = x.flag /\ r.sig = x.sig /\ r.sigq = x.sigq /\ r.wcode = x.wcode /\ r.stat = "SRUN"
  BY <1>2 DEF ProcRecord, Stats, SameRights, Consistent
<1>4. PICK q0 : /\ q0 = Append(K.dispq, p) \/ q0 = <<p>> \o K.dispq
                /\ L = LeaveProcessor([K EXCEPT !.dispq = q0], p)
  BY <1>2, TablesFacts DEF setbackdq, setfrontdq
<1>5. q0 \in Seq(Procs) /\ ToSet(q0) = ToSet(K.dispq) \cup {p} /\ NoDuplicates(q0)
  BY <1>2, <1>4, Behind
<1>6. PICK M : M = [K EXCEPT !.cur = NoProc]
  OBVIOUS
<1>7. /\ M.proc = K.proc /\ M.sleepq = K.sleepq /\ M.dispq = K.dispq /\ M.cur = NoProc /\ M \in Tables
  BY <1>2, <1>6 DEF Tables
<1>8. Consistent(M)
  BY <1>2, <1>7, ChanFacts DEF Consistent
<1>9. L = EditQ(M, p, r, q0)
  <2>1. [K EXCEPT !.dispq = q0].proc[p].stat = "SONPROC"
    BY <1>2, TablesFacts
  <2>2. L = [K EXCEPT !.dispq = q0, !.cur = NoProc, !.proc[p] = r]
    BY <1>2, <1>4, <2>1, TablesFacts DEF LeaveProcessor
  <2> HIDE DEF r
  <2> QED
    BY <1>2, <1>6, <2>2, TablesFacts DEF EditQ
<1>10. M.proc[p].wchan = NoChan /\ M.proc[p].stat # "SRUN" /\ M.cur # p /\ M.dispq = K.dispq
  BY <1>3, <1>7, ChanFacts
<1> HIDE DEF r
<1>11. /\ L \in Tables /\ Consistent(L) /\ L.cur = NoProc /\ L.proc[p] = r
       /\ \A o \in Procs \ {p} : L.proc[o] = M.proc[o]
  BY <1>3, <1>5, <1>7, <1>8, <1>9, <1>10, Enqueued
<1>12. Fine(p, r, u)
  <2>1. /\ r.parent = x.parent /\ r.wchan = x.wchan /\ r.hold = x.hold /\ r.caught = x.caught
        /\ r.sigmask = x.sigmask /\ r.ignore = x.ignore /\ r.sig = x.sig /\ r.cursig = x.cursig
        /\ r.sigq = x.sigq /\ r.wcode = x.wcode /\ r.flag = x.flag /\ r.stat = "SRUN" /\ x.stat = "SONPROC"
    BY <1>3 DEF SameRights
  <2>2. Fine(p, x, u)
    OBVIOUS
  <2> HIDE DEF x
  <2> QED
    BY <2>1, <2>2 DEF Fine
<1>13. Rests(r, u)
  BY <1>3 DEF Rests
<1>14. \A n \in Procs : QuietStop(K.proc[n], L.proc[n]) /\ QuietChild(K.proc[n], L.proc[n])
  <2> TAKE n \in Procs
  <2>1. CASE n = p
    BY <1>3, <1>11, <2>1 DEF QuietStop, QuietChild, SameRights, AliveRec, StoppedByProc
  <2>2. CASE n # p
    BY <1>7, <1>11, <2>2 DEF QuietStop, QuietChild
  <2> QED
    BY <2>1, <2>2
<1>15. \A q \in Procs : Off(q, L, T[q])
  <2> TAKE q \in Procs
  <2>1. CASE q = p
    BY <1>1, <1>11, <1>12, <1>13, <2>1 DEF Off
  <2>2. CASE q # p
    <3>1. Off(q, K, th[q]) /\ L.proc[q] = K.proc[q] /\ T[q] = th[q]
      BY <1>1, <1>2, <1>7, <1>11, <2>2
    <3>2. Hears(q, K, th[q]) => Hears(q, L, th[q])
      BY <1>14, <3>1, HearsTold
    <3> QED
      BY <3>1, <3>2 DEF Off
  <2> QED
    BY <2>1, <2>2
<1>16. Settled(L, T) /\ \A q \in Procs : L.cur # q
  BY <1>11, <1>15, ChanFacts DEF Settled
<1> QED
  BY <1>1, <1>16 DEF InvAt, T, Becomes

\* The running process edits its record: it neither stops nor sleeps.
LEMMA OwnEdit ==
    ASSUME NEW K, NEW th, NEW p \in Procs, Settled(K, th), K.cur = p,
           K.proc[p].stat \in {"SONPROC", "SSLEEP"},
           NEW r \in ProcRecord, r.stat = K.proc[p].stat, r.wchan = K.proc[p].wchan,
           r.parent = K.proc[p].parent, r.wcode \in {K.proc[p].wcode, "none"}, NEW L, L = Edit(K, p, r)
    PROVE  /\ Settled(L, th) /\ L.cur = p /\ L.proc[p] = r
           /\ \A q \in Procs \ {p} : L.proc[q] = K.proc[q]
           /\ \A t : Hears(p, K, t) => Hears(p, L, t)
<1>1. K \in Tables /\ Consistent(K) /\ (r.wchan # NoChan => r.stat \in {"SSLEEP", "SSTOP"})
  BY DEF Settled, Consistent
<1>2. /\ L \in Tables /\ Consistent(L) /\ L.cur = K.cur /\ L.proc[p] = r
      /\ \A q \in Procs \ {p} : L.proc[q] = K.proc[q]
  BY <1>1, Edited
<1>3. \A q \in Procs \ {p} : Woken(K.proc[q], L.proc[q])
  BY <1>1, <1>2, TablesFacts DEF ProcRecord, Woken, SameRights, Moved
<1>4. QuietStop(K.proc[p], L.proc[p]) /\ QuietChild(K.proc[p], L.proc[p])
  BY <1>2 DEF QuietStop, QuietChild, AliveRec, StoppedByProc
<1>5. Settled(L, th)
  BY <1>2, <1>3, <1>4, SettledStep
<1>6. \A n \in Procs : QuietStop(K.proc[n], L.proc[n]) /\ QuietChild(K.proc[n], L.proc[n])
  BY <1>3, <1>4, QuietFacts
<1>7. ASSUME NEW t, Hears(p, K, t)
      PROVE  Hears(p, L, t)
  BY <1>2, <1>6, <1>7, HearsTold
<1> QED
  BY <1>2, <1>5, <1>7

\* The facts of the invariant about the process that has the processor.
LEMMA Here ==
    ASSUME SInv, NEW p \in Procs, k.cur = p
    PROVE  /\ Settled(k, thr) /\ k \in Tables /\ Consistent(k) /\ thr \in [Procs -> Threads]
           /\ hi \in BOOLEAN /\ k.proc \in [Procs -> ProcRecord]
           /\ k.proc[p] \in ProcRecord /\ thr[p] \in Threads
           /\ Fine(p, k.proc[p], thr[p]) /\ On(p, k, thr[p], hi)
           /\ k.proc[p].stat \in {"SONPROC", "SSLEEP"}
           /\ k.proc[p].stat = "SONPROC" => k.proc[p].wchan = NoChan
  BY TablesFacts DEF SInv, InvAt, Settled, On, Consistent

\* p runs on, its record now r and its thread u.
LEMMA OwnRuns ==
    ASSUME SInv, NEW p \in Procs, k.cur = p, k.proc[p].stat = "SONPROC",
           NEW r \in ProcRecord, r.stat = "SONPROC", r.wchan = k.proc[p].wchan,
           r.parent = k.proc[p].parent, r.wcode \in {k.proc[p].wcode, "none"},
           NEW u \in Threads, NEW h \in BOOLEAN, Fine(p, r, u),
           u.pc = "psig" => r.cursig # "none" /\ r.cursig \notin r.ignore,
           u.pc = "fsig" => r.cursig = "none"
    PROVE  InvAt(Edit(k, p, r), Becomes(thr, p, u), h)
<1>1. Settled(k, thr) /\ thr \in [Procs -> Threads]
  BY Here
<1>2. PICK L : L = Edit(k, p, r)
  OBVIOUS
<1>3. Settled(L, thr) /\ L.cur = p /\ L.proc[p] = r
  BY <1>1, <1>2, OwnEdit
<1>4. On(p, L, u, h)
  BY <1>3 DEF On, Hears
<1>5. Fine(p, L.proc[p], u)
  BY <1>3
<1>6. InvAt(L, Becomes(thr, p, u), h)
  BY <1>1, <1>3, <1>4, <1>5, Stays
<1> QED
  BY <1>2, <1>6
-----------------------------------------------------------------------------
(***************************************************************************)
(* Steps of a process on its own record.                                   *)
(***************************************************************************)
Places == {"user", "trapret", "trapsig", "sysent", "kernel", "issig", "cursig", "fsig", "jobcont",
           "asleep", "nwake", "kmem", "psig", "waitid", "wstop", "exit0", "exit1", "exit2", "dead"}

To(t, pc) == [t EXCEPT !.pc = pc]

LEMMA ToFacts ==
    ASSUME NEW t \in Threads, NEW c \in Places
    PROVE  /\ To(t, c) \in Threads /\ To(t, c).pc = c /\ To(t, c).ctx = t.ctx /\ To(t, c).ret = t.ret
           /\ To(t, c).inner = t.inner /\ To(t, c).tgt = t.tgt /\ To(t, c).sg = t.sg
  BY DEF Threads, Places, To

LEMMA GotoFacts ==
    ASSUME thr \in [Procs -> Threads], NEW p \in Procs, NEW c
    PROVE  [thr EXCEPT ![p].pc = c] = Becomes(thr, p, To(thr[p], c))
  BY DEF Becomes, To

LEMMA Arrives ==
    ASSUME NEW L, NEW T, NEW h, InvAt(L, T, h), k' = L, thr' = T, hi' = h
    PROVE  SInv'
  BY DEF SInv

LEMMA TrapStep ==
    ASSUME SInv, NEW p \in Procs, Trap(p)
    PROVE  SInv'
<1>1. k.cur = p /\ thr[p].pc = "user"
  BY DEF Trap, At
<1>2. /\ Settled(k, thr) /\ thr \in [Procs -> Threads] /\ hi \in BOOLEAN /\ thr[p] \in Threads
      /\ Fine(p, k.proc[p], thr[p]) /\ On(p, k, thr[p], hi)
  BY <1>1, Here
<1>3. PICK u : u = To(thr[p], "trapret")
  OBVIOUS
<1>4. /\ u \in Threads /\ u.pc = "trapret" /\ u.ctx = thr[p].ctx /\ u.ret = thr[p].ret
      /\ u.tgt = thr[p].tgt
  BY <1>2, <1>3, ToFacts DEF Places
<1>5. Fine(p, k.proc[p], u)
  BY <1>1, <1>2, <1>4 DEF Fine, Asked
<1>6. On(p, k, u, hi)
  BY <1>1, <1>2, <1>4 DEF On, Hears
<1>7. InvAt(k, Becomes(thr, p, u), hi)
  BY <1>1, <1>2, <1>4, <1>5, <1>6, Stays
<1>8. k' = k /\ thr' = Becomes(thr, p, u) /\ hi' = hi
  BY <1>2, <1>3, GotoFacts DEF Trap, Step, Goto
<1> QED
  BY <1>7, <1>8, Arrives

\* The facts about u = To(t, pc) that the steps below need.
Went(t, u, pc) ==
    /\ u \in Threads /\ u.pc = pc /\ u.ctx = t.ctx /\ u.ret = t.ret /\ u.tgt = t.tgt
    /\ u.inner = t.inner /\ u.sg = t.sg

LEMMA GoesTo ==
    ASSUME SInv, NEW p \in Procs, NEW c \in Places
    PROVE  \E u : Went(thr[p], u, c) /\ [thr EXCEPT ![p].pc = c] = Becomes(thr, p, u)
<1>1. thr \in [Procs -> Threads]
  BY DEF SInv, InvAt
<1> QED
  BY <1>1, ToFacts, GotoFacts DEF Went

\* Two edits of a record are one.
LEMMA EditFacts ==
    ASSUME NEW K \in Tables, NEW p \in Procs, NEW r
    PROVE  /\ Edit(K, p, r).proc[p] = r
           /\ \A f : Edit(Edit(K, p, r), p, f) = Edit(K, p, f)
<1>1. Edit(K, p, r).proc[p] = r
  BY TablesFacts DEF Edit
<1>2. \A f : Edit(Edit(K, p, r), p, f) = Edit(K, p, f)
  BY TablesFacts DEF Edit
<1> QED
  BY <1>1, <1>2

LEMMA psigStep ==
    ASSUME SInv, NEW p \in Procs, psig(p)
    PROVE  SInv'
<1> DEFINE x == k.proc[p]
           s == IF "KILL" \in x.sig THEN "KILL" ELSE x.cursig
           a == [x EXCEPT !.cursig = "none"]
           c == [a EXCEPT !.hold = @ \cup {s}]
<1>1. k.cur = p /\ thr[p].pc = "psig"
  BY DEF psig, At
<1>2. /\ k \in Tables /\ thr \in [Procs -> Threads] /\ hi \in BOOLEAN /\ thr[p] \in Threads
      /\ x \in ProcRecord /\ Fine(p, x, thr[p]) /\ On(p, k, thr[p], hi)
  BY <1>1, Here
<1>3. x.stat = "SONPROC"
  BY <1>1, <1>2 DEF On
<1>4. s \in x.caught => s \in Sigs /\ s # "KILL"
  BY <1>2 DEF Fine, ProcRecord
<1>5. /\ a \in ProcRecord
      /\ a.stat = x.stat /\ a.flag = x.flag /\ a.wchan = x.wchan /\ a.wcode = x.wcode
      /\ a.parent = x.parent /\ a.sig = x.sig /\ a.sigq = x.sigq /\ a.cursig = "none"
      /\ a.hold = x.hold /\ a.ignore = x.ignore /\ a.caught = x.caught
      /\ a.sigmask = x.sigmask
  BY <1>2 DEF ProcRecord
<1>6. [k EXCEPT !.proc[p].cursig = "none"] = Edit(k, p, a)
  BY <1>2, TablesFacts DEF Edit
<1>7. CASE s \in x.caught
  <2>1. PICK u : Went(thr[p], u, "user") /\ [thr EXCEPT ![p].pc = "user"] = Becomes(thr, p, u)
    BY GoesTo DEF Places
  <2>2. k' = [Edit(k, p, a) EXCEPT !.proc[p].hold = @ \cup {s}] /\ thr' = Becomes(thr, p, u) /\ hi' = hi
    BY <1>6, <1>7, <2>1 DEF psig, Rec, Step, Goto
  <2> HIDE DEF a, s
  <2>3. /\ c \in ProcRecord
        /\ c.stat = a.stat /\ c.flag = a.flag /\ c.wchan = a.wchan /\ c.wcode = a.wcode
        /\ c.parent = a.parent /\ c.sig = a.sig /\ c.sigq = a.sigq /\ c.cursig = a.cursig
        /\ c.hold = a.hold \cup {s} /\ c.ignore = a.ignore /\ c.caught = a.caught
        /\ c.sigmask = a.sigmask
    BY <1>4, <1>5, <1>7 DEF ProcRecord
  <2>4. [Edit(k, p, a) EXCEPT !.proc[p].hold = @ \cup {s}] = Edit(k, p, c)
    <3>1. Edit(k, p, a).proc[p] = a /\ Edit(k, p, a) \in Tables
      BY <1>2, <1>5, TablesFacts DEF Edit, Tables
    <3>2. [Edit(k, p, a) EXCEPT !.proc[p].hold = @ \cup {s}] = Edit(Edit(k, p, a), p, c)
      BY <3>1, TablesFacts DEF Edit
    <3> QED
      BY <1>2, <3>2, EditFacts
  <2> HIDE DEF c
  <2>5. Fine(p, c, u)
    <3>1. s \in Sigs /\ s # "KILL" /\ "none" \notin Sigs /\ x.cursig \in Sigs \cup {"none"}
      BY <1>2, <1>4, <1>7, ProcTableAssumption DEF SignalNumber, ProcRecord
    <3> HIDE DEF x, s
    <3> QED
      BY <1>1, <1>2, <1>5, <2>1, <2>3, <3>1 DEF Fine, Went
  <2>6. InvAt(Edit(k, p, c), Becomes(thr, p, u), hi)
    BY <1>1, <1>2, <1>3, <1>5, <2>1, <2>3, <2>5, OwnRuns DEF Went
  <2> QED
    BY <2>2, <2>4, <2>6, Arrives
<1>8. CASE s \notin x.caught
  <2>1. PICK u : Went(thr[p], u, "exit0") /\ [thr EXCEPT ![p].pc = "exit0"] = Becomes(thr, p, u)
    BY GoesTo DEF Places
  <2>2. k' = Edit(k, p, a) /\ thr' = Becomes(thr, p, u) /\ hi' = hi
    BY <1>6, <1>8, <2>1 DEF psig, Rec, Step, Goto
  <2> HIDE DEF a
  <2>3. Fine(p, a, u)
    <3>1. "none" \notin Sigs
      BY ProcTableAssumption DEF SignalNumber
    <3> HIDE DEF x, s
    <3> QED
      BY <1>1, <1>2, <1>5, <2>1, <3>1 DEF Fine, Went
  <2>4. InvAt(Edit(k, p, a), Becomes(thr, p, u), hi)
    BY <1>1, <1>2, <1>3, <1>5, <2>1, <2>3, OwnRuns DEF Went
  <2> QED
    BY <2>2, <2>4, Arrives
<1> QED
  BY <1>7, <1>8
-----------------------------------------------------------------------------
\* The record r of the running process is x but for what it may edit itself.
Keeps(x, r) ==
    /\ r \in ProcRecord /\ r.stat = x.stat /\ r.wchan = x.wchan
    /\ r.parent = x.parent /\ r.wcode \in {x.wcode, "none"}

LEMMA KeepsTwice ==
    ASSUME NEW x, NEW y, NEW z, Keeps(x, y), Keeps(y, z)
    PROVE  Keeps(x, z)
  BY DEF Keeps

LEMMA OwnStep ==
    ASSUME SInv, NEW p \in Procs, NEW M, Settled(M, thr), M.cur = p, M.proc[p].stat = "SONPROC",
           NEW r, Keeps(M.proc[p], r), NEW u \in Threads, Fine(p, r, u),
           u.pc = "psig" => r.cursig # "none" /\ r.cursig \notin r.ignore,
           u.pc = "fsig" => r.cursig = "none",
           k' = Edit(M, p, r), thr' = Becomes(thr, p, u), hi' \in BOOLEAN
    PROVE  SInv'
<1>1. thr \in [Procs -> Threads]
  BY DEF SInv, InvAt
<1>2. PICK L : L = Edit(M, p, r)
  OBVIOUS
<1>3. Settled(L, thr) /\ L.cur = p /\ L.proc[p] = r
  BY <1>2, OwnEdit DEF Keeps
<1>4. On(p, L, u, hi')
  BY <1>3 DEF On, Hears, Keeps
<1>5. InvAt(L, Becomes(thr, p, u), hi')
  BY <1>1, <1>3, <1>4, Stays
<1> QED
  BY <1>2, <1>5 DEF SInv

\* A step of the running process that edits no table.
LEMMA OwnGoes ==
    ASSUME SInv, NEW p \in Procs, k.cur = p, k.proc[p].stat = "SONPROC",
           NEW u \in Threads, Fine(p, k.proc[p], u),
           u.pc \notin {"psig", "fsig"},
           k' = k, thr' = Becomes(thr, p, u), hi' \in BOOLEAN
    PROVE  SInv'
<1>1. Settled(k, thr) /\ thr \in [Procs -> Threads]
  BY Here
<1>2. On(p, k, u, hi')
  BY DEF On, Hears
<1>3. InvAt(k, Becomes(thr, p, u), hi')
  BY <1>1, <1>2, Stays
<1> QED
  BY <1>3 DEF SInv

LEMMA NoSignals == "none" \notin Sigs /\ "KILL" # "none" /\ "CONT" \notin stopdefault /\ "CLD" \notin stopdefault
  BY ProcTableAssumption DEF SignalNumber, stopdefault

\* The places where a process runs, and is on no sleep queue.
LEMMA RunsHere ==
    ASSUME SInv, NEW p \in Procs, k.cur = p, thr[p].pc \notin {"issig", "fsig", "jobcont"} \/ thr[p].ctx # "pre"
    PROVE  k.proc[p].stat = "SONPROC" /\ k.proc[p].wchan = NoChan
  BY Here DEF On

\* The steps of the running process that change its own record only.
LEMMA OwnHeld ==
    ASSUME SInv, NEW p \in Procs,
           \/ Trap(p) \/ TrapReturn(p) \/ psig(p) \/ SysReturn(p) \/ SetSigact(p) \/ SetHold(p)
           \/ StartWait(p) \/ StartExit(p) \/ ExitSignals(p) \/ Resume(p) \/ ResumeNwake(p) \/ Preempt(p)
    PROVE  Held
<1>1. k.cur = p
  BY DEF Trap, TrapReturn, psig, SysReturn, SetSigact, SetHold, StartWait, StartExit, ExitSignals,
         Resume, ResumeNwake, Preempt, InSysCall, Does, Begins, At
<1>2. k \in Tables /\ k.proc[p].stat # "SSTOP"
  BY <1>1, Here
<1>3. Framed(p, k)
  BY <1>2, FramedFirst
<1>4. \A e : /\ Framed(p, [k EXCEPT !.proc[p].evpend = e]) /\ Framed(p, [k EXCEPT !.proc[p].cursig = e])
             /\ Framed(p, [k EXCEPT !.proc[p].abort = e]) /\ Framed(p, [k EXCEPT !.proc[p].hold = e])
             /\ Framed(p, [k EXCEPT !.proc[p] = e])
  BY <1>3 DEF Framed
<1>5. CASE Trap(p) \/ StartWait(p) \/ StartExit(p)
  BY <1>3, <1>5, <1>2, FramedHeld DEF Trap, StartWait, StartExit, Step
<1>6. CASE TrapReturn(p)
  BY <1>4, <1>6, <1>2, FramedHeld DEF TrapReturn
<1>7. CASE psig(p)
  <2>1. PICK K : K = [k EXCEPT !.proc[p].cursig = "none"]
    OBVIOUS
  <2>2. k' = K \/ \E s : k' = [K EXCEPT !.proc[p].hold = @ \cup {s}]
    BY <1>7, <2>1 DEF psig, Step
  <2>3. Framed(p, K)
    BY <1>4, <2>1
  <2>4. \A s : Framed(p, [K EXCEPT !.proc[p].hold = @ \cup {s}])
    BY <2>3 DEF Framed
  <2>5. Framed(p, k')
    BY <2>2, <2>3, <2>4
  <2> QED
    BY <1>2, <2>5, FramedHeld
<1>8. CASE SysReturn(p)
  BY <1>4, <1>8, <1>2, FramedHeld DEF SysReturn, Step
<1>9. CASE SetSigact(p)
  <2>1. \/ \E s : k' = [k EXCEPT !.proc[p].caught = @ \cup {s}, !.proc[p].ignore = @ \ {s}]
        \/ \E s : k' = [k EXCEPT !.proc[p] = Ignores(@, s)]
        \/ \E s : k' = [k EXCEPT !.proc[p].caught = @ \ {s}, !.proc[p].ignore = @ \ {s}]
    BY <1>9 DEF SetSigact, Step
  <2>2. ASSUME NEW s
        PROVE  /\ Framed(p, [k EXCEPT !.proc[p].caught = @ \cup {s}, !.proc[p].ignore = @ \ {s}])
               /\ Framed(p, [k EXCEPT !.proc[p].caught = @ \ {s}, !.proc[p].ignore = @ \ {s}])
    <3>1. \A K, e : Framed(p, K) => Framed(p, [K EXCEPT !.proc[p].ignore = e])
      BY DEF Framed
    <3>2. \A e, g : [k EXCEPT !.proc[p].caught = e, !.proc[p].ignore = g]
                      = [[k EXCEPT !.proc[p].caught = e] EXCEPT !.proc[p].ignore = g]
      OBVIOUS
    <3>3. \A e : Framed(p, [k EXCEPT !.proc[p].caught = e])
      BY <1>3 DEF Framed
    <3> QED
      BY <3>1, <3>2, <3>3
  <2>3. \A s : Framed(p, [k EXCEPT !.proc[p] = Ignores(@, s)])
    BY <1>4
  <2>4. Framed(p, k')
    BY <2>1, <2>2, <2>3
  <2> QED
    BY <1>2, <2>4, FramedHeld
<1>10. CASE SetHold(p)
  BY <1>4, <1>10, <1>2, FramedHeld DEF SetHold, Step
<1>11. CASE ExitSignals(p)
  <2>1. k' = [k EXCEPT !.proc[p].ignore = Sigs, !.proc[p].sig = {},
                       !.proc[p].sigq = {}, !.proc[p].sigmask = {}]
    BY <1>11 DEF ExitSignals, Step
  <2>2. Framed(p, k')
    BY <1>3, <2>1 DEF Framed
  <2> QED
    BY <1>2, <2>2, FramedHeld
<1>12. CASE Resume(p)
  <2>1. PICK K : K = [k EXCEPT !.proc[p] = [Rec(p) EXCEPT !.flag = @ \cup {"SASLEEP"}]]
    OBVIOUS
  <2>2. Framed(p, K)
    BY <1>4, <2>1
  <2>3. \/ k' = [[K EXCEPT !.proc[p].abort = FALSE] EXCEPT !.proc[p].flag = @ \ {"SNOSTOP", "SASLEEP"}]
        \/ k' = [K EXCEPT !.proc[p].evpend = FALSE]
        \/ k' = [K EXCEPT !.proc[p].flag = @ \ {"SNWAKE", "SNOSTOP", "SASLEEP"}]
    BY <1>12, <2>1 DEF Resume, SleepPsig, SleepOut
  <2>4. Framed(p, k')
    BY <2>2, <2>3, ZenonT(60) DEF Framed
  <2> QED
    BY <1>2, <2>4, FramedHeld
<1>13. CASE ResumeNwake(p)
  <2>1. k' = [k EXCEPT !.proc[p].flag = @ \ {"SNWAKE", "SNOSTOP", "SASLEEP"}]
    BY <1>13 DEF ResumeNwake, SleepOut
  <2>2. Framed(p, k')
    BY <1>3, <2>1 DEF Framed
  <2> QED
    BY <1>2, <2>2, FramedHeld
<1>14. CASE Preempt(p)
  <2>1. k' = LeaveProcessor(setbackdq(k, p), p) \/ k' = LeaveProcessor(setfrontdq(k, p), p)
    BY <1>14 DEF Preempt, Yield
  <2>2. Framed(p, k')
    BY <1>3, <2>1, FramedSteps
  <2> QED
    BY <1>2, <2>2, FramedHeld
<1> QED
  BY <1>5, <1>6, <1>7, <1>8, <1>9, <1>10, <1>11, <1>12, <1>13, <1>14, SMTT(30)

LEMMA ReturnHeld ==
    ASSUME SInv, NEW p \in Procs, k.cur = p, NEW found \in BOOLEAN, IssigReturn(p, k, found)
    PROVE  Held
<1>1. k \in Tables /\ k.proc[p].stat # "SSTOP"
  BY Here
<1>2. Framed(p, k)
  BY <1>1, FramedFirst
<1>3. PICK C : C = [k EXCEPT !.proc[p].abort = FALSE]
  OBVIOUS
<1>4. Framed(p, C)
  BY <1>2, <1>3 DEF Framed
<1>5. PICK U : U = unsleep(C, p)
  OBVIOUS
<1>6. Framed(p, U)
  BY <1>4, <1>5, FramedSteps
<1>7. PICK S : S = [U EXCEPT !.proc[p].stat = "SONPROC"]
  OBVIOUS
<1>8. Framed(p, S)
  BY <1>6, <1>7 DEF Framed
<1>9. PICK A : A = [k EXCEPT !.proc[p].flag = @ \ {"SASLEEP"}]
  OBVIOUS
<1>10. Framed(p, A) /\ Framed(p, LeaveProcessor(A, p))
  <2>1. Framed(p, A)
    BY <1>2, <1>9 DEF Framed
  <2> QED
    BY <2>1, FramedSteps
<1>11. \/ k' = k \/ k' = LeaveProcessor(A, p)
       \/ SleepPsig(p, C) \/ SleepPsig(p, S) \/ SleepOut(p, k)
  <2>1. thr[p].ctx \in {"pre", "post", "trap"}
    BY Here DEF Threads
  <2>2. CASE thr[p].ctx = "trap"
    BY <2>2 DEF IssigReturn
  <2>3. CASE thr[p].ctx = "post"
    BY <1>3, <2>3 DEF IssigReturn
  <2>4. CASE thr[p].ctx = "pre"
    BY <1>3, <1>5, <1>7, <1>9, <2>4 DEF IssigReturn
  <2> QED
    BY <2>1, <2>2, <2>3, <2>4
<1>12. ASSUME NEW K, Framed(p, K), SleepPsig(p, K) \/ SleepOut(p, K)
       PROVE  Framed(p, k')
  <2>1. \E e : k' = [K EXCEPT !.proc[p].flag = e]
    BY <1>12 DEF SleepPsig, SleepOut
  <2> QED
    BY <1>12, <2>1 DEF Framed
<1>13. Framed(p, k')
  BY <1>2, <1>4, <1>8, <1>10, <1>11, <1>12
<1> QED
  BY <1>1, <1>13, FramedHeld

LEMMA KmemHeld ==
    ASSUME SInv, NEW p \in Procs, k.cur = p, NEW inner, NEW t, NEW s, KmemSleep(p, k, inner, t, s)
    PROVE  Held
<1>1. k \in Tables /\ k.proc[p].stat # "SSTOP"
  BY Here
<1>2. PICK Q : Q = QueueSleeper(k, p, KmemChan)
  OBVIOUS
<1>3. Framed(p, Q)
  BY <1>1, <1>2, FramedFirst, FramedSteps
<1>4. PICK A : A = [Q EXCEPT !.proc[p].flag = @ \cup {"SNWAKE"}]
  OBVIOUS
<1>5. Framed(p, A)
  BY <1>3, <1>4 DEF Framed
<1>6. k' = LeaveProcessor(A, p)
  BY <1>2, <1>4 DEF KmemSleep
<1>7. Framed(p, k')
  BY <1>5, <1>6, FramedSteps
<1> QED
  BY <1>1, <1>7, FramedHeld

LEMMA SysReturnStep ==
    ASSUME SInv, NEW p \in Procs, SysReturn(p)
    PROVE  SInv'
<1> DEFINE x == k.proc[p]
           r == [x EXCEPT !.abort = FALSE]
<1>1. k.cur = p /\ thr[p].pc \in {"sysent", "kernel"}
  BY DEF SysReturn, InSysCall, At
<1>2. /\ k \in Tables /\ Settled(k, thr) /\ hi \in BOOLEAN /\ x \in ProcRecord /\ Fine(p, x, thr[p])
      /\ x.stat = "SONPROC"
  BY <1>1, Here, RunsHere
<1>3. PICK u : Went(thr[p], u, "trapret") /\ [thr EXCEPT ![p].pc = "trapret"] = Becomes(thr, p, u)
  BY GoesTo DEF Places
<1>4. /\ r \in ProcRecord
      /\ /\ r.stat = x.stat /\ r.flag = x.flag /\ r.wchan = x.wchan /\ r.wcode = x.wcode
         /\ r.parent = x.parent /\ r.sig = x.sig /\ r.sigq = x.sigq /\ r.cursig = x.cursig
         /\ r.hold = x.hold /\ r.ignore = x.ignore /\ r.caught = x.caught
         /\ r.sigmask = x.sigmask
  BY <1>2 DEF ProcRecord
<1>5. k' = Edit(k, p, r) /\ thr' = Becomes(thr, p, u) /\ hi' = hi
  BY <1>2, <1>3, TablesFacts DEF SysReturn, Step, Goto, Edit
<1> HIDE DEF r
<1>6. Fine(p, r, u)
  <2> HIDE DEF x
  <2> QED
    BY <1>1, <1>2, <1>3, <1>4 DEF Fine, Went, Asked
<1> QED
  BY <1>1, <1>2, <1>3, <1>4, <1>5, <1>6, OwnStep DEF Keeps, Went

LEMMA TrapReturnStep ==
    ASSUME SInv, NEW p \in Procs, TrapReturn(p)
    PROVE  SInv'
<1> DEFINE x == k.proc[p]
           r == [x EXCEPT !.evpend = FALSE]
<1>1. k.cur = p /\ thr[p].pc \in {"trapret", "trapsig"}
  BY DEF TrapReturn, At
<1>2. /\ k \in Tables /\ Settled(k, thr) /\ hi \in BOOLEAN /\ x \in ProcRecord /\ Fine(p, x, thr[p])
      /\ x.stat = "SONPROC" /\ thr[p] \in Threads /\ thr \in [Procs -> Threads]
  BY <1>1, Here, RunsHere
<1>3. PICK c \in {"issig", "user"} :
        thr' = [thr EXCEPT ![p].pc = c, ![p].ctx = "trap"] /\ (c = "user" => x.cursig = "none")
  BY DEF TrapReturn, WorthLooking, Rec
<1>4. PICK u : u = [thr[p] EXCEPT !.pc = c, !.ctx = "trap"]
  OBVIOUS
<1>5. /\ u \in Threads /\ u.pc = c /\ u.ctx = "trap" /\ u.ret = thr[p].ret /\ u.tgt = thr[p].tgt
      /\ u.inner = thr[p].inner /\ u.sg = thr[p].sg
  BY <1>2, <1>4 DEF Threads
<1>6. thr' = Becomes(thr, p, u)
  BY <1>2, <1>3, <1>4 DEF Becomes, Threads
<1>7. /\ r \in ProcRecord
      /\ /\ r.stat = x.stat /\ r.flag = x.flag /\ r.wchan = x.wchan /\ r.wcode = x.wcode
         /\ r.parent = x.parent /\ r.sig = x.sig /\ r.sigq = x.sigq /\ r.cursig = x.cursig
         /\ r.hold = x.hold /\ r.ignore = x.ignore /\ r.caught = x.caught
         /\ r.sigmask = x.sigmask
  BY <1>2 DEF ProcRecord
<1>8. k' = Edit(k, p, r) /\ hi' = hi
  BY <1>2, TablesFacts DEF TrapReturn, Edit
<1> HIDE DEF r
<1>9. Fine(p, r, u)
  <2> HIDE DEF x
  <2> QED
    BY <1>1, <1>2, <1>3, <1>5, <1>7, NoSignals DEF Fine, Asked
<1> QED
  BY <1>1, <1>2, <1>5, <1>6, <1>7, <1>8, <1>9, OwnStep DEF Keeps

LEMMA Calls ==
    ASSUME SInv, NEW p \in Procs, NEW call, Does(p, call)
    PROVE  /\ k.cur = p /\ thr[p].pc \in {"sysent", "kernel"} /\ call \in SysCalls[p]
           /\ k \in Tables /\ Settled(k, thr) /\ hi \in BOOLEAN /\ k.proc[p] \in ProcRecord
           /\ Fine(p, k.proc[p], thr[p]) /\ k.proc[p].stat = "SONPROC" /\ k.proc[p].wchan = NoChan
           /\ \E u : Went(thr[p], u, "kernel") /\ [thr EXCEPT ![p].pc = "kernel"] = Becomes(thr, p, u)
<1>1. k.cur = p /\ thr[p].pc \in {"sysent", "kernel"} /\ call \in SysCalls[p]
  BY DEF Does, InSysCall, At
<1> QED
  BY <1>1, Here, RunsHere, GoesTo DEF Places

LEMMA SetSigactStep ==
    ASSUME SInv, Setting, NEW p \in Procs, SetSigact(p)
    PROVE  SInv'
<1> DEFINE x == k.proc[p]
<1>1. /\ k.cur = p /\ thr[p].pc \in {"sysent", "kernel"}
      /\ k \in Tables /\ Settled(k, thr) /\ hi \in BOOLEAN /\ x \in ProcRecord
      /\ Fine(p, x, thr[p]) /\ x.stat = "SONPROC"
  BY Calls DEF SetSigact
<1>2. PICK u : Went(thr[p], u, "kernel") /\ [thr EXCEPT ![p].pc = "kernel"] = Becomes(thr, p, u)
  BY Calls DEF SetSigact
<1>3. ASSUME NEW r, k' = Edit(k, p, r), thr' = Becomes(thr, p, u), hi' = hi, Keeps(x, r), Fine(p, r, u)
      PROVE  SInv'
  BY <1>1, <1>2, <1>3, OwnStep DEF Went
<1>4. ASSUME NEW s \in MayCatch \cup MayIgnore, s \in MayIgnore \/ s \in MayCatch \ ignoredefault \/ s \in MayCatch
      PROVE  s \in Sigs /\ s # "KILL"
  BY SleepSigAssumption DEF SleepSigAssumption, cantmask
<1>5. ASSUME NEW s \in MayCatch,
             Step(p, [k EXCEPT !.proc[p].caught = @ \cup {s}, !.proc[p].ignore = @ \ {s}], "kernel")
      PROVE  SInv'
  <2> DEFINE r == [x EXCEPT !.caught = @ \cup {s}, !.ignore = @ \ {s}]
  <2>1. s \in Sigs /\ s # "KILL" /\ (KmemSleeps => s # "CLD")
    BY <1>4, <1>5 DEF Setting
  <2>2. /\ r \in ProcRecord
        /\ /\ r.stat = x.stat /\ r.flag = x.flag /\ r.wchan = x.wchan /\ r.wcode = x.wcode
           /\ r.parent = x.parent /\ r.sig = x.sig /\ r.sigq = x.sigq /\ r.cursig = x.cursig
           /\ r.hold = x.hold /\ r.ignore = x.ignore \ {s} /\ r.caught = x.caught \cup {s}
           /\ r.sigmask = x.sigmask
    BY <1>1, <2>1, ZenonT(60) DEF ProcRecord
  <2>3. k' = Edit(k, p, r) /\ thr' = Becomes(thr, p, u) /\ hi' = hi
    BY <1>1, <1>2, <1>5, TablesFacts, ZenonT(60) DEF Step, Goto, Edit
  <2> HIDE DEF r, x
  <2>4. Fine(p, r, u)
    BY <1>1, <1>2, <2>1, <2>2, NoSignals DEF Fine, Went, Asked
  <2> QED
    BY <1>3, <2>2, <2>3, <2>4 DEF Keeps
<1>6. ASSUME NEW s \in MayIgnore \cup (ignoredefault \cap Rec(p).caught),
             Step(p, [k EXCEPT !.proc[p] = Ignores(@, s)], "kernel")
      PROVE  SInv'
  <2> DEFINE r == [x EXCEPT !.caught = @ \ {s}, !.ignore = @ \cup {s},
                            !.sig = @ \ {s}, !.sigq = @ \ {s}]
  <2>1. s \in Sigs /\ s # "KILL"
    BY <1>4, <1>6 DEF ignoredefault
  <2>2. /\ r \in ProcRecord
        /\ /\ r.stat = x.stat /\ r.flag = x.flag /\ r.wchan = x.wchan /\ r.wcode = x.wcode
           /\ r.parent = x.parent /\ r.sig = x.sig \ {s} /\ r.sigq = x.sigq \ {s}
           /\ r.cursig = x.cursig /\ r.hold = x.hold /\ r.ignore = x.ignore \cup {s}
           /\ r.caught = x.caught \ {s} /\ r.sigmask = x.sigmask
    BY <1>1, <2>1, ZenonT(60) DEF ProcRecord
  <2>3. k' = Edit(k, p, r) /\ thr' = Becomes(thr, p, u) /\ hi' = hi
    <3>1. [k EXCEPT !.proc[p] = Ignores(@, s)] = Edit(k, p, r)
      BY <1>1, TablesFacts DEF Edit, Ignores
    <3> HIDE DEF r
    <3> QED
      BY <1>2, <1>6, <3>1 DEF Step, Goto
  <2> HIDE DEF r, x
  <2>4. Fine(p, r, u)
    BY <1>1, <1>2, <2>1, <2>2, NoSignals DEF Fine, Went, Asked
  <2> QED
    BY <1>3, <2>2, <2>3, <2>4 DEF Keeps
<1>7. ASSUME NEW s \in (MayCatch \cup MayIgnore) \ ignoredefault,
             Step(p, [k EXCEPT !.proc[p].caught = @ \ {s}, !.proc[p].ignore = @ \ {s}], "kernel")
      PROVE  SInv'
  <2> DEFINE r == [x EXCEPT !.caught = @ \ {s}, !.ignore = @ \ {s}]
  <2>1. s \in Sigs /\ s # "KILL" /\ s # "CLD"
    BY <1>4, <1>7 DEF ignoredefault
  <2>2. /\ r \in ProcRecord
        /\ /\ r.stat = x.stat /\ r.flag = x.flag /\ r.wchan = x.wchan /\ r.wcode = x.wcode
           /\ r.parent = x.parent /\ r.sig = x.sig /\ r.sigq = x.sigq /\ r.cursig = x.cursig
           /\ r.hold = x.hold /\ r.ignore = x.ignore \ {s} /\ r.caught = x.caught \ {s}
           /\ r.sigmask = x.sigmask
    BY <1>1, <2>1 DEF ProcRecord
  <2>3. k' = Edit(k, p, r) /\ thr' = Becomes(thr, p, u) /\ hi' = hi
    BY <1>1, <1>2, <1>7, TablesFacts, ZenonT(60) DEF Step, Goto, Edit
  <2> HIDE DEF r, x
  <2>4. Fine(p, r, u)
    BY <1>1, <1>2, <2>1, <2>2, NoSignals DEF Fine, Went, Asked
  <2> QED
    BY <1>3, <2>2, <2>3, <2>4 DEF Keeps
<1> QED
  BY <1>5, <1>6, <1>7 DEF SetSigact

LEMMA SetHoldStep ==
    ASSUME SInv, NEW p \in Procs, SetHold(p)
    PROVE  SInv'
<1> DEFINE x == k.proc[p]
<1>1. /\ k.cur = p /\ thr[p].pc \in {"sysent", "kernel"}
      /\ k \in Tables /\ Settled(k, thr) /\ hi \in BOOLEAN /\ x \in ProcRecord
      /\ Fine(p, x, thr[p]) /\ x.stat = "SONPROC"
  BY Calls DEF SetHold
<1>2. PICK u : Went(thr[p], u, "kernel") /\ [thr EXCEPT ![p].pc = "kernel"] = Becomes(thr, p, u)
  BY Calls DEF SetHold
<1>3. PICK held \in SUBSET MayHold : Step(p, [k EXCEPT !.proc[p].hold = held], "kernel")
  BY DEF SetHold
<1> DEFINE r == [x EXCEPT !.hold = held]
<1>4. held \subseteq Sigs /\ "KILL" \notin held
  BY SleepSigAssumption DEF SleepSigAssumption, cantmask
<1>5. /\ r \in ProcRecord
      /\ /\ r.stat = x.stat /\ r.flag = x.flag /\ r.wchan = x.wchan /\ r.wcode = x.wcode
         /\ r.parent = x.parent /\ r.sig = x.sig /\ r.sigq = x.sigq /\ r.cursig = x.cursig
         /\ r.hold = held /\ r.ignore = x.ignore /\ r.caught = x.caught
         /\ r.sigmask = x.sigmask
  BY <1>1, <1>4 DEF ProcRecord
<1>6. k' = Edit(k, p, r) /\ thr' = Becomes(thr, p, u) /\ hi' = hi
  BY <1>1, <1>2, <1>3, TablesFacts DEF Step, Goto, Edit
<1> HIDE DEF r
<1>7. Fine(p, r, u)
  <2> HIDE DEF x
  <2> QED
    BY <1>1, <1>2, <1>4, <1>5, NoSignals DEF Fine, Went, Asked
<1> QED
  BY <1>1, <1>2, <1>5, <1>6, <1>7, OwnStep DEF Keeps, Went

LEMMA StartWaitStep ==
    ASSUME SInv, NEW p \in Procs, StartWait(p)
    PROVE  SInv'
<1>1. k.cur = p /\ thr[p].pc = "sysent" /\ "wait" \in SysCalls[p]
  BY DEF StartWait, Begins, At
<1>2. Settled(k, thr) /\ hi \in BOOLEAN /\ Fine(p, k.proc[p], thr[p]) /\ k.proc[p].stat = "SONPROC"
  BY <1>1, Here, RunsHere
<1>3. PICK u : Went(thr[p], u, "waitid") /\ [thr EXCEPT ![p].pc = "waitid"] = Becomes(thr, p, u)
  BY GoesTo DEF Places
<1>4. k' = k /\ thr' = Becomes(thr, p, u) /\ hi' = hi
  BY <1>3 DEF StartWait, Step, Goto
<1>5. Fine(p, k.proc[p], u)
  BY <1>1, <1>2, <1>3 DEF Fine, Went, Asked
<1> QED
  BY <1>1, <1>2, <1>3, <1>4, <1>5, OwnGoes DEF Went

LEMMA StartExitStep ==
    ASSUME SInv, NEW p \in Procs, StartExit(p)
    PROVE  SInv'
<1>1. k.cur = p /\ thr[p].pc = "sysent"
  BY DEF StartExit, Begins, At
<1>2. Settled(k, thr) /\ hi \in BOOLEAN /\ Fine(p, k.proc[p], thr[p]) /\ k.proc[p].stat = "SONPROC"
  BY <1>1, Here, RunsHere
<1>3. PICK u : Went(thr[p], u, "exit0") /\ [thr EXCEPT ![p].pc = "exit0"] = Becomes(thr, p, u)
  BY GoesTo DEF Places
<1>4. k' = k /\ thr' = Becomes(thr, p, u) /\ hi' = hi
  BY <1>3 DEF StartExit, Step, Goto
<1>5. Fine(p, k.proc[p], u)
  BY <1>1, <1>2, <1>3 DEF Fine, Went, Asked
<1> QED
  BY <1>1, <1>2, <1>3, <1>4, <1>5, OwnGoes DEF Went

LEMMA ExitSignalsStep ==
    ASSUME SInv, NEW p \in Procs, ExitSignals(p)
    PROVE  SInv'
<1> DEFINE x == k.proc[p]
           r == [x EXCEPT !.ignore = Sigs, !.sig = {}, !.sigq = {}, !.sigmask = {}]
<1>1. k.cur = p /\ thr[p].pc = "exit0"
  BY DEF ExitSignals, At
<1>2. /\ k \in Tables /\ Settled(k, thr) /\ hi \in BOOLEAN /\ x \in ProcRecord /\ Fine(p, x, thr[p])
      /\ x.stat = "SONPROC"
  BY <1>1, Here, RunsHere
<1>3. PICK u : Went(thr[p], u, "exit1") /\ [thr EXCEPT ![p].pc = "exit1"] = Becomes(thr, p, u)
  BY GoesTo DEF Places
<1>4. /\ r \in ProcRecord
      /\ /\ r.stat = x.stat /\ r.flag = x.flag /\ r.wchan = x.wchan /\ r.wcode = x.wcode
         /\ r.parent = x.parent /\ r.sig = {} /\ r.sigq = {} /\ r.cursig = x.cursig
         /\ r.hold = x.hold /\ r.ignore = Sigs /\ r.caught = x.caught /\ r.sigmask = {}
  BY <1>2 DEF ProcRecord
<1>5. k' = Edit(k, p, r) /\ thr' = Becomes(thr, p, u) /\ hi' = hi
  BY <1>2, <1>3, TablesFacts, ZenonT(60) DEF ExitSignals, Step, Goto, Edit
<1> HIDE DEF r
<1>6. Fine(p, r, u)
  <2> HIDE DEF x
  <2> QED
    BY <1>1, <1>2, <1>3, <1>4 DEF Fine, Went, Asked
<1> QED
  BY <1>1, <1>2, <1>3, <1>4, <1>5, <1>6, OwnStep DEF Keeps, Went
-----------------------------------------------------------------------------
(***************************************************************************)
(* Ends of sleep().                                                        *)
(***************************************************************************)
LEMMA OutStep ==
    ASSUME SInv, NEW p \in Procs, NEW M, Settled(M, thr), M.cur = p, M.proc[p].stat = "SONPROC",
           Fine(p, M.proc[p], thr[p]), M.proc[p].cursig \notin Sigs \ PrSigs, SleepOut(p, M)
    PROVE  SInv'
<1> DEFINE x == M.proc[p]
           r == [x EXCEPT !.flag = @ \ {"SNWAKE", "SNOSTOP", "SASLEEP"}]
<1>1. M \in Tables /\ x \in ProcRecord /\ thr \in [Procs -> Threads] /\ thr[p] \in Threads
  BY TablesFacts DEF Settled, SInv, InvAt
<1>2. thr[p].ret \in Places /\ thr[p].ret \notin Running \ {"waitid", "wstop"}
  BY <1>1 DEF Threads, Places, Running
<1>3. PICK u : Went(thr[p], u, thr[p].ret) /\ [thr EXCEPT ![p].pc = thr[p].ret] = Becomes(thr, p, u)
  BY <1>2, GoesTo
<1>4. /\ r \in ProcRecord
      /\ /\ r.stat = x.stat /\ r.flag = x.flag \ {"SNWAKE", "SNOSTOP", "SASLEEP"}
         /\ r.wchan = x.wchan /\ r.wcode = x.wcode /\ r.parent = x.parent /\ r.sig = x.sig
         /\ r.sigq = x.sigq /\ r.cursig = x.cursig /\ r.hold = x.hold /\ r.ignore = x.ignore
         /\ r.caught = x.caught /\ r.sigmask = x.sigmask
  BY <1>1 DEF ProcRecord
<1>5. k' = Edit(M, p, r) /\ thr' = Becomes(thr, p, u) /\ hi' = FALSE
  BY <1>1, <1>3, TablesFacts DEF SleepOut, Goto, Edit
<1> HIDE DEF r
<1>6. Fine(p, r, u)
  <2>1. thr[p].ret # "kmem"
    BY <1>1 DEF Threads
  <2> HIDE DEF x
  <2> QED
    BY <1>2, <1>3, <1>4, <2>1 DEF Fine, Went, x
<1> QED
  BY <1>1, <1>2, <1>3, <1>4, <1>5, <1>6, OwnStep DEF Keeps, Went, Running

LEMMA PsigOut ==
    ASSUME SInv, NEW p \in Procs, NEW M, Settled(M, thr), M.cur = p, M.proc[p].stat = "SONPROC",
           Fine(p, M.proc[p], thr[p]), SleepPsig(p, M)
    PROVE  SInv'
<1> DEFINE x == M.proc[p]
           r == [x EXCEPT !.flag = @ \ {"SNOSTOP", "SASLEEP"}]
<1>1. M \in Tables /\ x \in ProcRecord /\ thr \in [Procs -> Threads] /\ thr[p] \in Threads
  BY TablesFacts DEF Settled, SInv, InvAt
<1>2. PICK c \in {"exit2", "trapret"} : thr' = [thr EXCEPT ![p].pc = c]
  BY DEF SleepPsig, Goto
<1>3. PICK u : Went(thr[p], u, c) /\ [thr EXCEPT ![p].pc = c] = Becomes(thr, p, u)
  BY <1>2, GoesTo, SMTT(30) DEF Places
<1>4. /\ r \in ProcRecord
      /\ /\ r.stat = x.stat /\ r.flag = x.flag \ {"SNOSTOP", "SASLEEP"} /\ r.wchan = x.wchan
         /\ r.wcode = x.wcode /\ r.parent = x.parent /\ r.sig = x.sig /\ r.sigq = x.sigq
         /\ r.cursig = x.cursig /\ r.hold = x.hold /\ r.ignore = x.ignore
         /\ r.caught = x.caught /\ r.sigmask = x.sigmask
  BY <1>1 DEF ProcRecord
<1>5. k' = Edit(M, p, r) /\ thr' = Becomes(thr, p, u) /\ hi' = FALSE
  BY <1>1, <1>2, <1>3, TablesFacts DEF SleepPsig, Edit
<1> HIDE DEF r
<1>6. Fine(p, r, u)
  <2> HIDE DEF x
  <2> QED
    BY <1>2, <1>3, <1>4 DEF Fine, Went, Asked, x
<1> QED
  BY <1>1, <1>2, <1>3, <1>4, <1>5, <1>6, OwnStep DEF Keeps, Went

LEMMA ResumeStep ==
    ASSUME SInv, NEW p \in Procs, Resume(p)
    PROVE  SInv'
<1> DEFINE x == k.proc[p]
           a == [x EXCEPT !.flag = @ \cup {"SASLEEP"}]
           b == [a EXCEPT !.abort = FALSE]
           c == [a EXCEPT !.evpend = FALSE]
<1>1. k.cur = p /\ thr[p].pc = "asleep"
  BY DEF Resume, At
<1>2. /\ k \in Tables /\ Settled(k, thr) /\ hi \in BOOLEAN /\ x \in ProcRecord /\ Fine(p, x, thr[p])
      /\ x.stat = "SONPROC" /\ thr[p] \in Threads /\ thr \in [Procs -> Threads]
  BY <1>1, Here, RunsHere
<1>3. /\ a \in ProcRecord
      /\ /\ a.stat = x.stat /\ a.flag = x.flag \cup {"SASLEEP"} /\ a.wchan = x.wchan
         /\ a.wcode = x.wcode /\ a.parent = x.parent /\ a.sig = x.sig /\ a.sigq = x.sigq
         /\ a.cursig = x.cursig /\ a.hold = x.hold /\ a.ignore = x.ignore
         /\ a.caught = x.caught /\ a.sigmask = x.sigmask
  BY <1>2 DEF ProcRecord, Flags
<1>4. [k EXCEPT !.proc[p] = a] = Edit(k, p, a)
  BY DEF Edit
<1>5. /\ IF a.abort THEN SleepPsig(p, [Edit(k, p, a) EXCEPT !.proc[p].abort = FALSE])
         ELSE IF WorthLooking(a)
         THEN /\ k' = [Edit(k, p, a) EXCEPT !.proc[p].evpend = FALSE]
              /\ thr' = [thr EXCEPT ![p].pc = "issig", ![p].ctx = "post"]
              /\ UNCHANGED hi
         ELSE SleepOut(p, Edit(k, p, a))
  BY <1>4 DEF Resume, Rec
<1>6. x.cursig \notin Sigs \ PrSigs
  BY <1>1, <1>2 DEF Fine, Asked
<1> HIDE DEF a
<1>7. /\ b \in ProcRecord
      /\ /\ b.stat = a.stat /\ b.flag = a.flag /\ b.wchan = a.wchan /\ b.wcode = a.wcode
         /\ b.parent = a.parent /\ b.sig = a.sig /\ b.sigq = a.sigq /\ b.cursig = a.cursig
         /\ b.hold = a.hold /\ b.ignore = a.ignore /\ b.caught = a.caught
         /\ b.sigmask = a.sigmask
  BY <1>3 DEF ProcRecord
<1>8. /\ c \in ProcRecord
      /\ /\ c.stat = a.stat /\ c.flag = a.flag /\ c.wchan = a.wchan /\ c.wcode = a.wcode
         /\ c.parent = a.parent /\ c.sig = a.sig /\ c.sigq = a.sigq /\ c.cursig = a.cursig
         /\ c.hold = a.hold /\ c.ignore = a.ignore /\ c.caught = a.caught
         /\ c.sigmask = a.sigmask
  BY <1>3 DEF ProcRecord
<1>9. /\ [Edit(k, p, a) EXCEPT !.proc[p].abort = FALSE] = Edit(k, p, b)
      /\ [Edit(k, p, a) EXCEPT !.proc[p].evpend = FALSE] = Edit(k, p, c)
  <2>1. PICK A : A = Edit(k, p, a)
    OBVIOUS
  <2>2. A \in Tables /\ A.proc[p] = a
    BY <1>2, <1>3, <2>1, TablesFacts DEF Edit, Tables
  <2>3. /\ [A EXCEPT !.proc[p].abort = FALSE] = Edit(A, p, b)
        /\ [A EXCEPT !.proc[p].evpend = FALSE] = Edit(A, p, c)
    BY <2>2, TablesFacts DEF Edit
  <2> HIDE DEF b, c
  <2> QED
    BY <1>2, <2>1, <2>3, EditFacts
<1> HIDE DEF b, c
<1>10. Keeps(x, a) /\ Keeps(x, b) /\ Keeps(x, c)
  BY <1>3, <1>7, <1>8 DEF Keeps
<1>11. Fine(p, a, thr[p]) /\ Fine(p, b, thr[p])
  <2> HIDE DEF x
  <2> QED
    BY <1>2, <1>3, <1>7 DEF Fine
<1>12. CASE a.abort
  <2>1. PICK M : M = Edit(k, p, b)
    OBVIOUS
  <2>2. Settled(M, thr) /\ M.cur = p /\ M.proc[p] = b
    BY <1>1, <1>2, <1>10, <2>1, OwnEdit DEF Keeps
  <2>3. SleepPsig(p, M)
    BY <1>5, <1>9, <1>12, <2>1
  <2> QED
    BY <1>2, <1>10, <1>11, <2>2, <2>3, PsigOut DEF Keeps
<1>13. CASE ~a.abort /\ WorthLooking(a)
  <2>1. PICK u : u = [thr[p] EXCEPT !.pc = "issig", !.ctx = "post"]
    OBVIOUS
  <2>2. /\ u \in Threads /\ u.pc = "issig" /\ u.ctx = "post" /\ u.ret = thr[p].ret /\ u.tgt = thr[p].tgt
        /\ u.inner = thr[p].inner /\ u.sg = thr[p].sg
    BY <1>2, <2>1 DEF Threads
  <2>3. thr' = Becomes(thr, p, u)
    BY <1>2, <1>5, <1>13, <2>1 DEF Becomes, Threads
  <2>4. k' = Edit(k, p, c) /\ hi' = hi
    BY <1>5, <1>9, <1>13
  <2>5. Fine(p, c, u)
    <3> HIDE DEF x
    <3> QED
      BY <1>1, <1>2, <1>3, <1>8, <2>2 DEF Fine, Asked
  <2> QED
    BY <1>1, <1>2, <1>10, <2>2, <2>3, <2>4, <2>5, OwnStep
<1>14. CASE ~a.abort /\ ~WorthLooking(a)
  <2>1. PICK M : M = Edit(k, p, a)
    OBVIOUS
  <2>2. Settled(M, thr) /\ M.cur = p /\ M.proc[p] = a
    BY <1>1, <1>2, <1>10, <2>1, OwnEdit DEF Keeps
  <2>3. SleepOut(p, M)
    BY <1>5, <1>14, <2>1
  <2> QED
    BY <1>2, <1>3, <1>6, <1>11, <2>2, <2>3, OutStep
<1> QED
  BY <1>12, <1>13, <1>14

LEMMA ResumeNwakeStep ==
    ASSUME SInv, NEW p \in Procs, ResumeNwake(p)
    PROVE  SInv'
<1>1. k.cur = p /\ thr[p].pc = "nwake"
  BY DEF ResumeNwake, At
<1>2. Settled(k, thr) /\ Fine(p, k.proc[p], thr[p]) /\ k.proc[p].stat = "SONPROC"
  BY <1>1, Here, RunsHere
<1>3. k.proc[p].cursig \notin Sigs \ PrSigs
  BY <1>1, <1>2 DEF Fine, Asked
<1> QED
  BY <1>1, <1>2, <1>3, OutStep DEF ResumeNwake
-----------------------------------------------------------------------------
(***************************************************************************)
(* Stopping, and telling the parent.                                       *)
(***************************************************************************)
LEMMA SigcldWakeFacts ==
    ASSUME NEW K \in Tables, Consistent(K), NEW p \in Procs, K.proc[p].wcode # "none",
           \A q \in Procs : K.cur = q /\ K.proc[q].stat = "SSLEEP" =>
              K.proc[q].wchan \notin {<<"proc", p>>, <<"proc", K.proc[p].parent>>},
           NEW L, L = sigcldWake(K, p)
    PROVE  /\ L \in Tables /\ Consistent(L) /\ L.cur = K.cur
           /\ \A q \in Procs : Woken(K.proc[q], L.proc[q])
           /\ K.proc[p].parent \in Procs =>
                \A q \in Procs : L.proc[q].wchan # <<"proc", K.proc[p].parent>>
           /\ \A q \in Procs : K.proc[q].wchan = NoChan => L.proc[q] = K.proc[q]
           /\ \A q \in Procs :
                K.proc[q].wchan \notin {<<"proc", p>>, <<"proc", K.proc[p].parent>>} => L.proc[q] = K.proc[q]
<1> DEFINE par == K.proc[p].parent
<1>1. par \in Procs \cup {NoProc}
  BY TablesFacts DEF ProcRecord
<1>2. PICK own : own = wakeprocs(K, <<"proc", p>>)
  OBVIOUS
<1>3. PICK chan \in Chans : chan = <<"proc", p>>
  BY ChanFacts
<1>4. own \in Tables /\ Consistent(own) /\ own.cur = K.cur /\ WokenBy(K, own, chan)
  BY <1>2, <1>3, Awoken
<1>5. /\ \A q \in Procs : Woken(K.proc[q], own.proc[q])
      /\ \A q \in Procs : K.proc[q].wchan # <<"proc", p>> => own.proc[q] = K.proc[q]
  BY <1>3, <1>4, WokenByFacts
<1>6. CASE par = NoProc
  BY <1>2, <1>4, <1>5, <1>6, ChanFacts DEF sigcldWake, Woken
<1>7. CASE par # NoProc
  <2>1. PICK other \in Chans : other = <<"proc", par>>
    BY <1>1, <1>7, ChanFacts
  <2>2. L = wakeprocs(own, other)
    BY <1>2, <1>7, <2>1 DEF sigcldWake
  <2>3. \A q \in Procs : own.cur = q /\ own.proc[q].wchan = other => own.proc[q].stat # "SSLEEP"
    BY <1>4, <1>5, <2>1 DEF Woken
  <2>4. L \in Tables /\ Consistent(L) /\ L.cur = own.cur /\ WokenBy(own, L, other)
    BY <1>4, <2>2, <2>3, Awoken
  <2>5. /\ \A q \in Procs : Woken(own.proc[q], L.proc[q])
        /\ \A q \in Procs : L.proc[q].wchan # other
        /\ \A q \in Procs : own.proc[q].wchan # other => L.proc[q] = own.proc[q]
    BY <1>4, <2>4, WokenByFacts
  <2>6. \A q \in Procs : Woken(K.proc[q], L.proc[q])
    BY <1>5, <2>5, WokenTwice
  <2>7. \A q \in Procs : K.proc[q].wchan \notin {<<"proc", p>>, other} => L.proc[q] = K.proc[q]
    BY <1>5, <2>5
  <2> QED
    BY <1>4, <2>1, <2>4, <2>5, <2>6, <2>7 DEF Woken
<1> QED
  BY <1>6, <1>7

\* What stop() does to the process.
Halted(x, y, why) ==
    /\ SameRights(x, y) /\ y.stat = "SSTOP" /\ y.wchan \in {x.wchan, NoChan}
    /\ y.sig = x.sig /\ y.sigq = x.sigq /\ y.evpend = x.evpend /\ y.whystop = why
    /\ y.wcode = IF why = "PR_JOBCONTROL" THEN "CLD_STOPPED" ELSE x.wcode
    /\ y.flag = IF why = "PR_JOBCONTROL"
                THEN (x.flag \ {"SPSTART", "SXSTART"}) \cup {"SPSTART"}
                ELSE ((x.flag \ {"SPSTART", "SXSTART"}) \cup {"SXSTART"}) \ {"SPRSTOP"}

LEMMA StopFacts ==
    ASSUME NEW K \in Tables, Consistent(K), NEW p \in Procs,
           K.proc[p].stat \in {"SONPROC", "SSLEEP"},
           \A q \in Procs \ {p} : K.cur = q => K.proc[q].stat # "SSLEEP",
           NEW why \in StopWhys, NEW L, L = stop(K, p, why)
    PROVE  /\ L \in Tables /\ Consistent(L) /\ L.cur = K.cur /\ Halted(K.proc[p], L.proc[p], why)
           /\ \A q \in Procs \ {p} : Woken(K.proc[q], L.proc[q])
           /\ IF why = "PR_JOBCONTROL"
              THEN K.proc[p].parent \in Procs =>
                     \A q \in Procs : L.proc[q].wchan # <<"proc", K.proc[p].parent>>
              ELSE \A q \in Procs : L.proc[q].wchan # <<"trace", p>>
<1> DEFINE x == K.proc[p]
           kept == x.flag \ {"SPSTART", "SXSTART"}
           r == IF why = "PR_JOBCONTROL"
                THEN [x EXCEPT !.stat = "SSTOP", !.whystop = why, !.flag = kept \cup {"SPSTART"},
                               !.wcode = "CLD_STOPPED"]
                ELSE [x EXCEPT !.stat = "SSTOP", !.whystop = why,
                               !.flag = (kept \cup {"SXSTART"}) \ {"SPRSTOP"}]
<1>1. K.proc \in [Procs -> ProcRecord] /\ x \in ProcRecord /\ K.dispq \in Seq(Procs)
  BY TablesFacts
<1>2. dispdeq(K, p) = K
  <2>1. RemoveFirst(K.dispq, p) = K.dispq
    BY <1>1, NotRemoved DEF Consistent, OnQueue
  <2> QED
    BY <2>1, TablesFacts DEF dispdeq
<1>3. r \in ProcRecord /\ r.stat = "SSTOP" /\ r.wchan = x.wchan /\ r.parent = x.parent
      /\ (why = "PR_JOBCONTROL" => r.wcode = "CLD_STOPPED")
  BY <1>1 DEF ProcRecord, Stats, Flags, Wcodes
<1>4. Halted(x, r, why)
  BY <1>1 DEF ProcRecord, Halted, SameRights
<1>5. L = IF why = "PR_JOBCONTROL" THEN sigcldWake(Edit(K, p, r), p)
          ELSE wakeprocs(Edit(K, p, r), <<"trace", p>>)
  <2>1. CASE why = "PR_JOBCONTROL"
    <3>1. [[K EXCEPT !.proc[p].stat = "SSTOP", !.proc[p].whystop = why]
             EXCEPT !.proc[p].flag = kept \cup {"SPSTART"}, !.proc[p].wcode = "CLD_STOPPED"] = Edit(K, p, r)
      BY <1>1, <2>1, TablesFacts, ZenonT(60) DEF Edit
    <3> HIDE DEF r
    <3> QED
      BY <1>2, <2>1, <3>1 DEF stop
  <2>2. CASE why # "PR_JOBCONTROL"
    <3>1. [[K EXCEPT !.proc[p].stat = "SSTOP", !.proc[p].whystop = why]
             EXCEPT !.proc[p].flag = (kept \cup {"SXSTART"}) \ {"SPRSTOP"}] = Edit(K, p, r)
      BY <1>1, <2>2, TablesFacts DEF Edit
    <3> HIDE DEF r
    <3> QED
      BY <1>2, <2>2, <3>1 DEF stop
  <2> QED
    BY <2>1, <2>2
<1> HIDE DEF r
<1>6. PICK F : F = Edit(K, p, r)
  OBVIOUS
<1>7. /\ F \in Tables /\ Consistent(F) /\ F.cur = K.cur /\ F.proc[p] = r
      /\ \A q \in Procs \ {p} : F.proc[q] = K.proc[q]
  BY <1>3, <1>6, Edited
<1>8. \A q \in Procs : F.cur = q => F.proc[q].stat # "SSLEEP"
  BY <1>3, <1>7
<1>9. CASE why = "PR_JOBCONTROL"
  <2>1. L = sigcldWake(F, p) /\ F.proc[p].wcode # "none"
    BY <1>3, <1>5, <1>6, <1>7, <1>9
  <2>2. /\ L \in Tables /\ Consistent(L) /\ L.cur = F.cur
        /\ \A q \in Procs : Woken(F.proc[q], L.proc[q])
        /\ F.proc[p].parent \in Procs =>
             \A q \in Procs : L.proc[q].wchan # <<"proc", F.proc[p].parent>>
    BY <1>7, <1>8, <2>1, SigcldWakeFacts
  <2>3. Woken(r, L.proc[p])
    BY <1>7, <2>2
  <2>4. Halted(x, L.proc[p], why)
    BY <1>3, <1>4, <2>3 DEF Halted, Woken, SameRights, Moved
  <2> QED
    BY <1>3, <1>7, <1>9, <2>2, <2>4
<1>10. CASE why # "PR_JOBCONTROL"
  <2>1. PICK chan \in Chans : chan = <<"trace", p>>
    BY ChanFacts
  <2>2. L = wakeprocs(F, chan)
    BY <1>5, <1>6, <1>10, <2>1
  <2>3. L \in Tables /\ Consistent(L) /\ L.cur = F.cur /\ WokenBy(F, L, chan)
    BY <1>7, <1>8, <2>2, Awoken
  <2>4. (\A q \in Procs : Woken(F.proc[q], L.proc[q])) /\ \A q \in Procs : L.proc[q].wchan # chan
    BY <1>7, <2>3, WokenByFacts
  <2>5. Woken(r, L.proc[p])
    BY <1>7, <2>4
  <2>6. Halted(x, L.proc[p], why)
    BY <1>3, <1>4, <2>5 DEF Halted, Woken, SameRights, Moved
  <2> QED
    BY <1>7, <1>10, <2>1, <2>3, <2>4, <2>6
<1> QED
  BY <1>9, <1>10
-----------------------------------------------------------------------------
(***************************************************************************)
(* What a debugger does to another process.                                *)
(***************************************************************************)

\* The running process goes on after a step whose tables are L.
LEMMA Continues ==
    ASSUME SInv, NEW d \in Procs, NEW L, Settled(L, thr), L.cur = d, L.proc[d].stat = "SONPROC",
           NEW u \in Threads, Fine(d, L.proc[d], u), u.pc \notin {"psig", "fsig"},
           k' = L, thr' = Becomes(thr, d, u), hi' \in BOOLEAN
    PROVE  SInv'
<1>1. thr \in [Procs -> Threads]
  BY DEF SInv, InvAt
<1>2. On(d, L, u, hi')
  BY DEF On, Hears
<1>3. InvAt(L, Becomes(thr, d, u), hi')
  BY <1>1, <1>2, Stays
<1> QED
  BY <1>3 DEF SInv

\* The record of process t, x, becomes r.
Adjusted(x, r) ==
    /\ r \in ProcRecord /\ r.stat = x.stat /\ r.wchan = x.wchan /\ r.parent = x.parent
    /\ r.wcode = x.wcode /\ ("SPSTART" \in x.flag => "SPSTART" \in r.flag)

LEMMA OtherEdit ==
    ASSUME NEW K, NEW th, Settled(K, th), NEW t \in Procs, K.cur # t, NEW r, Adjusted(K.proc[t], r),
           Fine(t, r, th[t]), Rests(r, th[t]), NEW L, L = Edit(K, t, r)
    PROVE  /\ Settled(L, th) /\ L.cur = K.cur /\ L.proc[t] = r
           /\ \A q \in Procs \ {t} : L.proc[q] = K.proc[q]
<1>1. K \in Tables /\ Consistent(K) /\ (r.wchan # NoChan => r.stat \in {"SSLEEP", "SSTOP"})
  BY DEF Settled, Consistent, Adjusted
<1>2. /\ L \in Tables /\ Consistent(L) /\ L.cur = K.cur /\ L.proc[t] = r
      /\ \A q \in Procs \ {t} : L.proc[q] = K.proc[q]
  BY <1>1, Edited DEF Adjusted
<1>3. \A q \in Procs \ {t} : Woken(K.proc[q], L.proc[q])
  BY <1>1, <1>2, TablesFacts DEF ProcRecord, Woken, SameRights, Moved
<1>4. QuietStop(K.proc[t], L.proc[t]) /\ QuietChild(K.proc[t], L.proc[t])
  BY <1>2 DEF QuietStop, QuietChild, AliveRec, StoppedByProc, Adjusted
<1>5. /\ Fine(t, L.proc[t], th[t]) /\ Rests(L.proc[t], th[t])
      /\ L.proc[t].stat = "SSLEEP" => K.proc[t].stat = "SSLEEP" /\ L.proc[t].wchan = K.proc[t].wchan
  BY <1>2 DEF Adjusted
<1>6. Settled(L, th)
  BY <1>2, <1>3, <1>4, <1>5, SettledStep
<1> QED
  BY <1>2, <1>6

\* The debugger d and its target t.
LEMMA Debugs ==
    ASSUME SInv, NEW d \in Procs, NEW t \in Procs, Ioctl(d, t)
    PROVE  /\ k.cur = d /\ t # d /\ thr[d].pc \in {"sysent", "kernel"}
           /\ k \in Tables /\ Consistent(k) /\ Settled(k, thr) /\ hi \in BOOLEAN
           /\ k.proc[d] \in ProcRecord /\ Fine(d, k.proc[d], thr[d])
           /\ k.proc[d].stat = "SONPROC" /\ k.proc[d].wchan = NoChan
           /\ thr \in [Procs -> Threads] /\ thr[d] \in Threads
           /\ k.proc[t] \in ProcRecord /\ Fine(t, k.proc[t], thr[t]) /\ Rests(k.proc[t], thr[t])
           /\ AliveRec(k.proc[t])
           /\ \E u : /\ Went(thr[d], u, "kernel") /\ [thr EXCEPT ![d].pc = "kernel"] = Becomes(thr, d, u)
                     /\ Fine(d, k.proc[d], u)
<1>1. Does(d, "ioctl") /\ t # d /\ Live(t)
  BY DEF Ioctl
<1>2. /\ k.cur = d /\ thr[d].pc \in {"sysent", "kernel"}
      /\ k \in Tables /\ Consistent(k) /\ Settled(k, thr) /\ hi \in BOOLEAN /\ k.proc[d] \in ProcRecord
      /\ Fine(d, k.proc[d], thr[d]) /\ k.proc[d].stat = "SONPROC" /\ k.proc[d].wchan = NoChan
  BY <1>1, Calls DEF Settled
<1>3. PICK u : Went(thr[d], u, "kernel") /\ [thr EXCEPT ![d].pc = "kernel"] = Becomes(thr, d, u)
  BY <1>1, Calls
<1>4. Fine(d, k.proc[d], u)
  BY <1>2, <1>3 DEF Fine, Went, Asked
<1>5. thr \in [Procs -> Threads] /\ thr[d] \in Threads
  BY <1>2, Here
<1>6. k.proc[t] \in ProcRecord /\ Fine(t, k.proc[t], thr[t]) /\ Rests(k.proc[t], thr[t]) /\ AliveRec(k.proc[t])
  BY <1>1, <1>2, TablesFacts DEF Settled, Off, Live, Rec, AliveRec
<1> QED
  BY <1>1, <1>2, <1>3, <1>4, <1>5, <1>6

LEMMA PIOCUNKILLStep ==
    ASSUME SInv, NEW d \in Procs, NEW t \in Procs, PIOCUNKILL(d, t)
    PROVE  SInv' /\ Held
<1> DEFINE x == k.proc[t]
<1>1. /\ k.cur = d /\ t # d /\ k \in Tables /\ Settled(k, thr) /\ hi \in BOOLEAN
      /\ k.proc[d].stat = "SONPROC" /\ x \in ProcRecord /\ Fine(t, x, thr[t]) /\ Rests(x, thr[t])
  BY Debugs DEF PIOCUNKILL, IoctlLocked
<1>2. PICK u : /\ Went(thr[d], u, "kernel") /\ [thr EXCEPT ![d].pc = "kernel"] = Becomes(thr, d, u)
               /\ Fine(d, k.proc[d], u)
  BY Debugs DEF PIOCUNKILL, IoctlLocked
<1>3. PICK s \in PrSigs \ {"KILL", "none"} :
        Step(d, [k EXCEPT !.proc[t].sig = @ \ {s}, !.proc[t].sigq = @ \ {s}], "kernel")
  BY DEF PIOCUNKILL
<1> DEFINE r == [x EXCEPT !.sig = @ \ {s}, !.sigq = @ \ {s}]
<1>4. /\ r \in ProcRecord
      /\ /\ r.stat = x.stat /\ r.flag = x.flag /\ r.wchan = x.wchan /\ r.wcode = x.wcode
         /\ r.parent = x.parent /\ r.sig = x.sig \ {s} /\ r.sigq = x.sigq \ {s}
         /\ r.cursig = x.cursig /\ r.hold = x.hold /\ r.ignore = x.ignore
         /\ r.caught = x.caught /\ r.sigmask = x.sigmask
  BY <1>1 DEF ProcRecord
<1>5. [k EXCEPT !.proc[t].sig = @ \ {s}, !.proc[t].sigq = @ \ {s}] = Edit(k, t, r)
  BY <1>1, TablesFacts DEF Edit, ProcRecord
<1> HIDE DEF r
<1>6. k' = Edit(k, t, r) /\ thr' = Becomes(thr, d, u) /\ hi' = hi
  BY <1>2, <1>3, <1>5 DEF Step, Goto
<1>7. Fine(t, r, thr[t]) /\ Rests(r, thr[t]) /\ Adjusted(x, r)
  <2> HIDE DEF x
  <2> QED
    BY <1>1, <1>4 DEF Fine, Rests, Adjusted
<1>8. PICK L : L = Edit(k, t, r)
  OBVIOUS
<1>9. Settled(L, thr) /\ L.cur = d /\ L.proc[d] = k.proc[d]
  BY <1>1, <1>7, <1>8, OtherEdit
<1>10. SInv'
  BY <1>1, <1>2, <1>6, <1>8, <1>9, Continues DEF Went
<1>11. Held
  BY <1>1, <1>4, <1>6, EditHeld
<1> QED
  BY <1>10, <1>11

LEMMA PIOCSTRACEStep ==
    ASSUME SInv, Setting, NEW d \in Procs, NEW t \in Procs, PIOCSTRACE(d, t)
    PROVE  SInv' /\ Held
<1> DEFINE x == k.proc[t]
<1>1. /\ k.cur = d /\ t # d /\ k \in Tables /\ Settled(k, thr) /\ hi \in BOOLEAN
      /\ k.proc[d].stat = "SONPROC" /\ x \in ProcRecord /\ Fine(t, x, thr[t]) /\ Rests(x, thr[t])
  BY Debugs DEF PIOCSTRACE, IoctlLocked
<1>2. PICK u : /\ Went(thr[d], u, "kernel") /\ [thr EXCEPT ![d].pc = "kernel"] = Becomes(thr, d, u)
               /\ Fine(d, k.proc[d], u)
  BY Debugs DEF PIOCSTRACE, IoctlLocked
<1>3. PICK mask \in PrMasks : Step(d, [k EXCEPT !.proc[t].sigmask = mask \ {"KILL"}], "kernel")
  BY DEF PIOCSTRACE
<1>4. mask \subseteq Sigs /\ (KmemSleeps => "CLD" \notin mask)
  BY SleepSigAssumption DEF SleepSigAssumption, Setting
<1> DEFINE r == [x EXCEPT !.sigmask = mask \ {"KILL"}]
<1>5. /\ r \in ProcRecord
      /\ /\ r.stat = x.stat /\ r.flag = x.flag /\ r.wchan = x.wchan /\ r.wcode = x.wcode
         /\ r.parent = x.parent /\ r.sig = x.sig /\ r.sigq = x.sigq /\ r.cursig = x.cursig
         /\ r.hold = x.hold /\ r.ignore = x.ignore /\ r.caught = x.caught
         /\ r.sigmask = mask \ {"KILL"}
  BY <1>1, <1>4 DEF ProcRecord
<1>6. [k EXCEPT !.proc[t].sigmask = mask \ {"KILL"}] = Edit(k, t, r)
  BY <1>1, TablesFacts DEF Edit
<1> HIDE DEF r
<1>7. k' = Edit(k, t, r) /\ thr' = Becomes(thr, d, u) /\ hi' = hi
  BY <1>2, <1>3, <1>6 DEF Step, Goto
<1>8. Fine(t, r, thr[t]) /\ Rests(r, thr[t]) /\ Adjusted(x, r)
  <2> HIDE DEF x
  <2> QED
    BY <1>1, <1>4, <1>5 DEF Fine, Rests, Adjusted
<1>9. PICK L : L = Edit(k, t, r)
  OBVIOUS
<1>10. Settled(L, thr) /\ L.cur = d /\ L.proc[d] = k.proc[d]
  BY <1>1, <1>8, <1>9, OtherEdit
<1>11. SInv'
  BY <1>1, <1>2, <1>7, <1>9, <1>10, Continues DEF Went
<1>12. Held
  BY <1>1, <1>5, <1>7, EditHeld
<1> QED
  BY <1>11, <1>12

LEMMA PIOCSENTRYStep ==
    ASSUME SInv, NEW d \in Procs, NEW t \in Procs, PIOCSENTRY(d, t)
    PROVE  SInv' /\ Held
<1> DEFINE x == k.proc[t]
<1>1. /\ k.cur = d /\ t # d /\ k \in Tables /\ Settled(k, thr) /\ hi \in BOOLEAN
      /\ k.proc[d].stat = "SONPROC" /\ x \in ProcRecord /\ Fine(t, x, thr[t]) /\ Rests(x, thr[t])
  BY Debugs DEF PIOCSENTRY, IoctlLocked
<1>2. PICK u : /\ Went(thr[d], u, "kernel") /\ [thr EXCEPT ![d].pc = "kernel"] = Becomes(thr, d, u)
               /\ Fine(d, k.proc[d], u)
  BY Debugs DEF PIOCSENTRY, IoctlLocked
<1>3. PICK b \in BOOLEAN : Step(d, [k EXCEPT !.proc[t].entrystop = b], "kernel")
  BY DEF PIOCSENTRY
<1> DEFINE r == [x EXCEPT !.entrystop = b]
<1>4. /\ r \in ProcRecord
      /\ /\ r.stat = x.stat /\ r.flag = x.flag /\ r.wchan = x.wchan /\ r.wcode = x.wcode
         /\ r.parent = x.parent /\ r.sig = x.sig /\ r.sigq = x.sigq /\ r.cursig = x.cursig
         /\ r.hold = x.hold /\ r.ignore = x.ignore /\ r.caught = x.caught
         /\ r.sigmask = x.sigmask
  BY <1>1 DEF ProcRecord
<1>5. [k EXCEPT !.proc[t].entrystop = b] = Edit(k, t, r)
  BY <1>1, TablesFacts DEF Edit
<1> HIDE DEF r
<1>6. k' = Edit(k, t, r) /\ thr' = Becomes(thr, d, u) /\ hi' = hi
  BY <1>2, <1>3, <1>5 DEF Step, Goto
<1>7. Fine(t, r, thr[t]) /\ Rests(r, thr[t]) /\ Adjusted(x, r)
  <2> HIDE DEF x
  <2> QED
    BY <1>1, <1>4 DEF Fine, Rests, Adjusted
<1>8. PICK L : L = Edit(k, t, r)
  OBVIOUS
<1>9. Settled(L, thr) /\ L.cur = d /\ L.proc[d] = k.proc[d]
  BY <1>1, <1>7, <1>8, OtherEdit
<1>10. SInv'
  BY <1>1, <1>2, <1>6, <1>8, <1>9, Continues DEF Went
<1>11. Held
  BY <1>1, <1>4, <1>6, EditHeld
<1> QED
  BY <1>10, <1>11

\* The thread of a debugger that is going to wait for t to stop.
LEMMA Watches ==
    ASSUME SInv, NEW d \in Procs, NEW t \in Procs, Ioctl(d, t)
    PROVE  \E u : /\ u \in Threads /\ u.pc = "wstop" /\ Fine(d, k.proc[d], u)
                  /\ [thr EXCEPT ![d].pc = "wstop", ![d].tgt = t] = Becomes(thr, d, u)
<1>1. /\ thr[d].pc \in {"sysent", "kernel"} /\ Fine(d, k.proc[d], thr[d])
      /\ thr \in [Procs -> Threads] /\ thr[d] \in Threads
  BY Debugs
<1>2. PICK u : u = [thr[d] EXCEPT !.pc = "wstop", !.tgt = t]
  OBVIOUS
<1>3. u \in Threads /\ u.pc = "wstop" /\ u.tgt = t /\ u.ret = thr[d].ret
  BY <1>1, <1>2 DEF Threads
<1>4. [thr EXCEPT ![d].pc = "wstop", ![d].tgt = t] = Becomes(thr, d, u)
  BY <1>1, <1>2 DEF Becomes, Threads
<1>5. Fine(d, k.proc[d], u)
  BY <1>1, <1>3 DEF Fine, Asked
<1> QED
  BY <1>3, <1>4, <1>5

LEMMA StartWstopStep ==
    ASSUME SInv, NEW d \in Procs, NEW t \in Procs, StartWstop(d, t)
    PROVE  SInv' /\ Held
<1>1. /\ k.cur = d /\ Settled(k, thr) /\ hi \in BOOLEAN /\ k.proc[d].stat = "SONPROC"
  BY Debugs DEF StartWstop
<1>2. PICK u : /\ u \in Threads /\ u.pc = "wstop" /\ Fine(d, k.proc[d], u)
               /\ [thr EXCEPT ![d].pc = "wstop", ![d].tgt = t] = Becomes(thr, d, u)
  BY Watches DEF StartWstop
<1>3. SInv'
  BY <1>1, <1>2, OwnGoes DEF StartWstop
<1>4. Held
  BY DEF StartWstop, Held, Holds
<1> QED
  BY <1>3, <1>4

LEMMA PIOCSTOPStep ==
    ASSUME SInv, NEW d \in Procs, NEW t \in Procs, PIOCSTOP(d, t)
    PROVE  SInv' /\ Held
<1> DEFINE x == k.proc[t]
<1>1. /\ k.cur = d /\ t # d /\ k \in Tables /\ Consistent(k) /\ Settled(k, thr) /\ hi \in BOOLEAN
      /\ k.proc[d].stat = "SONPROC" /\ k.proc[d].wchan = NoChan
      /\ x \in ProcRecord /\ Fine(t, x, thr[t]) /\ Rests(x, thr[t])
  BY Debugs DEF PIOCSTOP
<1>2. PICK u : /\ u \in Threads /\ u.pc = "wstop" /\ Fine(d, k.proc[d], u)
               /\ [thr EXCEPT ![d].pc = "wstop", ![d].tgt = t] = Becomes(thr, d, u)
  BY Watches DEF PIOCSTOP
<1>3. thr' = Becomes(thr, d, u) /\ hi' = hi
  BY <1>2 DEF PIOCSTOP
<1>4. ASSUME NEW L, Settled(L, thr), L.cur = d, L.proc[d] = k.proc[d], k' = L
      PROVE  SInv'
  BY <1>1, <1>2, <1>3, <1>4, Continues
<1>5. CASE x.stat = "SSLEEP" /\ x.flag \cap {"SNWAKE", "SNOSTOP"} = {} /\ CanStop(k, t)
  <2>1. PICK M : M = stop(k, t, "PR_REQUESTED")
    OBVIOUS
  <2>2. k' = [M EXCEPT !.proc[t].flag = @ \cup {"SASLEEP"}]
    BY <1>5, <2>1 DEF PIOCSTOP, Rec
  <2>3. /\ M \in Tables /\ Consistent(M) /\ M.cur = d /\ Halted(x, M.proc[t], "PR_REQUESTED")
        /\ \A q \in Procs \ {t} : Woken(k.proc[q], M.proc[q])
        /\ \A q \in Procs : M.proc[q].wchan # <<"trace", t>>
    BY <1>1, <1>5, <2>1, StopFacts, SMTT(30) DEF StopWhys
  <2> DEFINE y == M.proc[t]
             r == [y EXCEPT !.flag = @ \cup {"SASLEEP"}]
  <2>4. y \in ProcRecord
    BY <2>3, TablesFacts
  <2>5. "KILL" \notin x.sig \cup {x.cursig}
    BY <1>5 DEF CanStop
  <2>6. Fine(t, y, thr[t])
    <3> HIDE DEF x, y
    <3> QED
      BY <1>1, <1>5, <2>3, <2>5 DEF Fine, Halted, SameRights, NoChan, x, y
  <2>7. Rests(y, thr[t]) /\ QuietChild(x, y)
    BY <1>1, <1>5, <2>3 DEF Rests, Halted, QuietChild, SameRights
  <2>8. Settled(M, thr)
    BY <1>1, <2>3, <2>6, <2>7, SettledStep DEF Halted
  <2>9. /\ r \in ProcRecord
        /\ /\ r.stat = y.stat /\ r.flag = y.flag \cup {"SASLEEP"} /\ r.wchan = y.wchan
           /\ r.wcode = y.wcode /\ r.parent = y.parent /\ r.sig = y.sig /\ r.sigq = y.sigq
           /\ r.cursig = y.cursig /\ r.hold = y.hold /\ r.ignore = y.ignore
           /\ r.caught = y.caught /\ r.sigmask = y.sigmask
    BY <2>4 DEF ProcRecord, Flags
  <2>10. k' = Edit(M, t, r)
    BY <2>2, <2>3, TablesFacts DEF Edit
  <2> HIDE DEF r
  <2>11. Fine(t, r, thr[t]) /\ Rests(r, thr[t]) /\ Adjusted(y, r)
    <3> HIDE DEF y
    <3>1. y.stat = "SSTOP"
      BY <2>3 DEF Halted, y
    <3> QED
      BY <2>6, <2>7, <2>9, <3>1 DEF Fine, Rests, Adjusted
  <2>12. PICK L : L = Edit(M, t, r)
    OBVIOUS
  <2>13. Settled(L, thr) /\ L.cur = d /\ L.proc[d] = M.proc[d]
    BY <1>1, <2>3, <2>8, <2>11, <2>12, OtherEdit
  <2>14. M.proc[d] = k.proc[d]
    BY <1>1, <2>3 DEF Woken
  <2>15. \A q \in Procs : Holds(k.proc[q], L.proc[q])
    <3>1. \A q \in Procs \ {t} : L.proc[q] = M.proc[q]
      BY <1>1, <2>3, <2>8, <2>11, <2>12, OtherEdit
    <3> QED
      BY <1>5, <2>3, <3>1, HoldsFacts
  <2>16. Held
    BY <2>10, <2>12, <2>15 DEF Held
  <2> QED
    BY <1>4, <2>10, <2>12, <2>13, <2>14, <2>16
<1>6. CASE /\ ~(x.stat = "SSLEEP" /\ x.flag \cap {"SNWAKE", "SNOSTOP"} = {} /\ CanStop(k, t))
           /\ x.stat # "SSTOP" \/ "SPSTART" \in x.flag
  <2> DEFINE r == [x EXCEPT !.flag = @ \cup {"SPRSTOP"}]
  <2>1. k' = Edit(k, t, r)
    <3>1. [k EXCEPT !.proc[t].flag = @ \cup {"SPRSTOP"}] = Edit(k, t, r)
      BY <1>1, TablesFacts DEF Edit
    <3> HIDE DEF r
    <3> QED
      BY <1>6, <3>1 DEF PIOCSTOP, Rec
  <2>2. /\ r \in ProcRecord
        /\ /\ r.stat = x.stat /\ r.flag = x.flag \cup {"SPRSTOP"} /\ r.wchan = x.wchan
           /\ r.wcode = x.wcode /\ r.parent = x.parent /\ r.sig = x.sig /\ r.sigq = x.sigq
           /\ r.cursig = x.cursig /\ r.hold = x.hold /\ r.ignore = x.ignore
           /\ r.caught = x.caught /\ r.sigmask = x.sigmask
    BY <1>1 DEF ProcRecord, Flags
  <2>3. x.stat = "SSLEEP" => \/ "SNWAKE" \in x.flag \/ "SNOSTOP" \in x.flag
                             \/ "KILL" \in x.sig \cup {x.cursig}
    BY <1>6 DEF CanStop
  <2> HIDE DEF r, x
  <2>4. Fine(t, r, thr[t]) /\ Adjusted(x, r)
    BY <1>1, <2>2 DEF Fine, Adjusted
  <2>5. Rests(r, thr[t])
    <3>1. "KILL" \notin x.hold
      BY <1>1 DEF Fine
    <3> QED
      BY <1>1, <2>2, <2>3, <3>1 DEF Rests
  <2>6. PICK L : L = Edit(k, t, r)
    OBVIOUS
  <2>7. Settled(L, thr) /\ L.cur = d /\ L.proc[d] = k.proc[d]
    BY <1>1, <2>4, <2>5, <2>6, OtherEdit DEF x
  <2>8. Held
    BY <1>1, <2>1, <2>2, EditHeld DEF x
  <2> QED
    BY <1>4, <2>1, <2>6, <2>7, <2>8
<1>7. CASE /\ ~(x.stat = "SSLEEP" /\ x.flag \cap {"SNWAKE", "SNOSTOP"} = {} /\ CanStop(k, t))
           /\ ~(x.stat # "SSTOP" \/ "SPSTART" \in x.flag)
  <2>1. k' = k
    BY <1>7 DEF PIOCSTOP, Rec
  <2>2. Held
    BY <2>1 DEF Held, Holds
  <2> QED
    BY <1>1, <1>4, <2>1, <2>2
<1> QED
  BY <1>5, <1>6, <1>7

LEMMA FineRun ==
    ASSUME NEW q \in Procs, NEW x, NEW y, NEW t, Fine(q, x, t), Run(x, y)
    PROVE  Fine(q, y, t)
<1>1. /\ y.parent = x.parent /\ y.cursig = x.cursig /\ y.hold = x.hold /\ y.ignore = x.ignore
      /\ y.caught = x.caught /\ y.sigmask = x.sigmask /\ y.wchan \in {x.wchan, NoChan}
      /\ (y.wcode = x.wcode \/ y.wcode = "none") /\ (y.stat = "SSTOP" => x.stat = "SSTOP")
      /\ (x.stat = "SZOMB" => y.stat = "SZOMB") /\ y.flag = x.flag /\ y.sig = x.sig /\ y.sigq = x.sigq
  BY DEF Run, SameRights, Moved
<1> QED
  BY <1>1 DEF Fine, NoChan

\* The running process starts process t, whose record becomes r before that.
LEMMA OtherRun ==
    ASSUME NEW K, NEW th, Settled(K, th), NEW t \in Procs, K.cur # t, NEW r, Adjusted(K.proc[t], r),
           r.stat \in {"SRUN", "SSLEEP", "SSTOP"},
           \A q \in Procs : K.cur = q => K.proc[q].stat # "SSLEEP",
           \A y : Run(r, y) => Fine(t, y, th[t]), NEW L, L = setrun(Edit(K, t, r), t)
    PROVE  /\ Settled(L, th) /\ L.cur = K.cur /\ Run(r, L.proc[t])
           /\ \A q \in Procs \ {t} : Woken(K.proc[q], L.proc[q])
<1>1. K \in Tables /\ Consistent(K) /\ (r.wchan # NoChan => r.stat \in {"SSLEEP", "SSTOP"})
  BY DEF Settled, Consistent, Adjusted
<1>2. PICK F : F = Edit(K, t, r)
  OBVIOUS
<1>3. /\ F \in Tables /\ Consistent(F) /\ F.cur = K.cur /\ F.proc[t] = r
      /\ \A q \in Procs \ {t} : F.proc[q] = K.proc[q]
  BY <1>1, <1>2, Edited DEF Adjusted
<1>4. \A q \in Procs : F.cur = q => F.proc[q].stat # "SSLEEP"
  BY <1>3
<1>5. /\ L \in Tables /\ Consistent(L) /\ L.cur = F.cur /\ Run(r, L.proc[t])
      /\ \A q \in Procs \ {t} : Woken(F.proc[q], L.proc[q])
  BY <1>2, <1>3, <1>4, SetrunFacts
<1>6. \A q \in Procs \ {t} : Woken(K.proc[q], L.proc[q])
  BY <1>3, <1>5
<1>7. Fine(t, L.proc[t], th[t]) /\ Rests(L.proc[t], th[t]) /\ L.proc[t].stat # "SSLEEP"
  <2>1. Rests(K.proc[t], th[t])
    BY DEF Settled, Off
  <2>2. L.proc[t].stat # "SSLEEP"
    BY <1>5 DEF Run, Moved
  <2> QED
    BY <1>5, <2>1, <2>2 DEF Rests
<1>8. QuietStop(K.proc[t], L.proc[t]) /\ QuietChild(K.proc[t], L.proc[t])
  <2>1. QuietStop(r, L.proc[t]) /\ QuietChild(r, L.proc[t])
    BY <1>5, QuietFacts
  <2>2. QuietStop(K.proc[t], r) /\ QuietChild(K.proc[t], r)
    BY DEF QuietStop, QuietChild, AliveRec, StoppedByProc, Adjusted
  <2> QED
    BY <2>1, <2>2 DEF QuietStop, QuietChild
<1>9. Settled(L, th)
  BY <1>3, <1>5, <1>6, <1>7, <1>8, SettledStep
<1> QED
  BY <1>3, <1>5, <1>6, <1>9

\* PIOCSSIG starts process t, whose record is r before that, and would be in order if t
\* were still locked.
Locked(r) == [r EXCEPT !.flag = @ \cup {"SPROCIO"}]

LEMMA SsigStarts ==
    ASSUME NEW K, NEW th, Settled(K, th), NEW t \in Procs, K.cur # t, NEW r, Adjusted(K.proc[t], r),
           \A q \in Procs : K.cur = q => K.proc[q].stat # "SSLEEP",
           Fine(t, Locked(r), th[t]), Rests(Locked(r), th[t]),
           NEW L, L = PIOCSSIGStart(Edit(K, t, r), t)
    PROVE  /\ Settled(L, th) /\ L.cur = K.cur
           /\ \A q \in Procs \ {t} : Woken(K.proc[q], L.proc[q])
           /\ Holds(K.proc[t], L.proc[t])
<1> DEFINE l == Locked(r)
           f == [r EXCEPT !.flag = @ \cup {"SXSTART", "SPSTART"}]
<1>1. K \in Tables /\ r \in ProcRecord /\ r.stat = K.proc[t].stat
  BY DEF Settled, Adjusted
<1>2. PICK E : E = Edit(K, t, r)
  OBVIOUS
<1>3. E \in Tables /\ E.proc[t] = r
  BY <1>1, <1>2, TablesFacts DEF Edit, Tables
<1>4. /\ l.stat = r.stat /\ l.flag = r.flag \cup {"SPROCIO"} /\ l.wchan = r.wchan
      /\ l.wcode = r.wcode /\ l.parent = r.parent /\ l.sig = r.sig /\ l.sigq = r.sigq
      /\ l.cursig = r.cursig /\ l.hold = r.hold /\ l.ignore = r.ignore
      /\ l.caught = r.caught /\ l.sigmask = r.sigmask
  BY <1>1 DEF ProcRecord, Locked
<1>5. /\ f \in ProcRecord
      /\ /\ f.stat = r.stat /\ f.flag = r.flag \cup {"SXSTART", "SPSTART"}
         /\ f.wchan = r.wchan /\ f.wcode = r.wcode /\ f.parent = r.parent /\ f.sig = r.sig
         /\ f.sigq = r.sigq /\ f.cursig = r.cursig /\ f.hold = r.hold /\ f.ignore = r.ignore
         /\ f.caught = r.caught /\ f.sigmask = r.sigmask
  BY <1>1 DEF ProcRecord, Flags
<1>6. [E EXCEPT !.proc[t].flag = @ \cup {"SXSTART", "SPSTART"}] = Edit(K, t, f)
  <2>1. [E EXCEPT !.proc[t].flag = @ \cup {"SXSTART", "SPSTART"}] = Edit(E, t, f)
    BY <1>3, TablesFacts DEF Edit
  <2> HIDE DEF f
  <2> QED
    BY <1>1, <1>2, <2>1, EditFacts
<1>7. Adjusted(K.proc[t], f)
  BY <1>5 DEF Adjusted
<1>8. Fine(t, l, th[t]) /\ Rests(l, th[t])
  OBVIOUS
<1> HIDE DEF f, l
<1>9. CASE r.stat = "SSLEEP" /\ r.flag \cap {"SNWAKE", "SNOSTOP"} = {}
  <2>1. L = setrun(Edit(K, t, r), t)
    BY <1>2, <1>3, <1>9 DEF PIOCSSIGStart
  <2>2. Fine(t, r, th[t])
    BY <1>4, <1>8, <1>9 DEF Fine
  <2>3. /\ Settled(L, th) /\ L.cur = K.cur /\ Run(r, L.proc[t])
        /\ \A q \in Procs \ {t} : Woken(K.proc[q], L.proc[q])
    BY <1>9, <2>1, <2>2, FineRun, OtherRun
  <2> QED
    BY <1>1, <1>9, <2>3 DEF Holds
<1>10. CASE r.stat = "SSTOP" /\ r.cursig = "KILL"
  <2>1. L = setrun(Edit(K, t, f), t)
    BY <1>2, <1>3, <1>6, <1>10 DEF PIOCSSIGStart
  <2>2. ASSUME NEW y, Run(f, y)
        PROVE  Fine(t, y, th[t])
    <3>1. y.stat = "SRUN" /\ y.wcode \in {r.wcode, "none"} /\ y.wchan \in {r.wchan, NoChan}
      BY <1>5, <1>10, <2>2 DEF Run, Moved
    <3>2. /\ y.parent = r.parent /\ y.cursig = "KILL" /\ y.hold = r.hold /\ y.ignore = r.ignore
          /\ y.caught = r.caught /\ y.sigmask = r.sigmask
          /\ y.flag = r.flag \cup {"SXSTART", "SPSTART"} /\ y.sig = r.sig /\ y.sigq = r.sigq
      BY <1>5, <1>10, <2>2 DEF Run, SameRights
    <3>3. r.wcode # "CLD_EXITED"
      BY <1>4, <1>8, <1>10 DEF Fine
    <3> QED
      BY <1>4, <1>8, <1>10, <3>1, <3>2, <3>3 DEF Fine, NoChan
  <2>3. /\ Settled(L, th) /\ L.cur = K.cur /\ Run(f, L.proc[t])
        /\ \A q \in Procs \ {t} : Woken(K.proc[q], L.proc[q])
    BY <1>5, <1>7, <1>10, <2>1, <2>2, OtherRun
  <2>4. L.proc[t].cursig = "KILL"
    BY <1>5, <1>10, <2>3 DEF Run, SameRights
  <2> QED
    BY <2>3, <2>4 DEF Holds
<1>11. CASE /\ ~(r.stat = "SSLEEP" /\ r.flag \cap {"SNWAKE", "SNOSTOP"} = {})
            /\ ~(r.stat = "SSTOP" /\ r.cursig = "KILL")
  <2>1. L = Edit(K, t, r)
    BY <1>2, <1>3, <1>11 DEF PIOCSSIGStart
  <2>2. Fine(t, r, th[t])
    BY <1>4, <1>8, <1>11 DEF Fine
  <2>3. Rests(r, th[t])
    BY <1>4, <1>8, <1>11 DEF Rests
  <2>4. /\ Settled(L, th) /\ L.cur = K.cur /\ L.proc[t] = r
        /\ \A q \in Procs \ {t} : L.proc[q] = K.proc[q]
    BY <2>1, <2>2, <2>3, OtherEdit
  <2>5. \A q \in Procs \ {t} : Woken(K.proc[q], L.proc[q])
    BY <1>1, <2>4, TablesFacts DEF ProcRecord, Woken, SameRights, Moved
  <2> QED
    BY <1>1, <2>4, <2>5 DEF Holds
<1> QED
  BY <1>9, <1>10, <1>11

\* The debugger goes on after it has edited, or edited and started, process t.
LEMMA DebugStep ==
    ASSUME SInv, NEW d \in Procs, NEW t \in Procs, Ioctl(d, t), NEW r, Adjusted(k.proc[t], r), NEW L,
           \/ L = Edit(k, t, r) /\ Fine(t, r, thr[t]) /\ Rests(r, thr[t])
           \/ /\ L = setrun(Edit(k, t, r), t) /\ r.stat \in {"SRUN", "SSLEEP", "SSTOP"}
              /\ \A y : Run(r, y) => Fine(t, y, thr[t]),
           k' = L, thr' = [thr EXCEPT ![d].pc = "kernel"], hi' = hi
    PROVE  /\ SInv'
           /\ \A q \in Procs \ {t} : Holds(k.proc[q], k'.proc[q])
           /\ IF L = Edit(k, t, r) THEN k'.proc[t] = r ELSE Run(r, k'.proc[t])
<1>1. /\ k.cur = d /\ t # d /\ Settled(k, thr) /\ hi \in BOOLEAN
      /\ k.proc[d].stat = "SONPROC" /\ k.proc[d].wchan = NoChan
  BY Debugs
<1>2. PICK u : /\ Went(thr[d], u, "kernel") /\ [thr EXCEPT ![d].pc = "kernel"] = Becomes(thr, d, u)
               /\ Fine(d, k.proc[d], u)
  BY Debugs
<1>3. CASE L = Edit(k, t, r) /\ Fine(t, r, thr[t]) /\ Rests(r, thr[t])
  <2>1. Settled(L, thr) /\ L.cur = d /\ L.proc[d] = k.proc[d]
    BY <1>1, <1>3, OtherEdit
  <2>2. SInv'
    BY <1>1, <1>2, <2>1, Continues DEF Went
  <2>3. L.proc[t] = r /\ \A q \in Procs \ {t} : L.proc[q] = k.proc[q]
    BY <1>1, <1>3, OtherEdit
  <2>4. \A q \in Procs \ {t} : Holds(k.proc[q], L.proc[q])
    BY <2>3 DEF Holds
  <2> QED
    BY <1>3, <2>2, <2>3, <2>4
<1>4. CASE /\ L = setrun(Edit(k, t, r), t) /\ r.stat \in {"SRUN", "SSLEEP", "SSTOP"}
           /\ \A y : Run(r, y) => Fine(t, y, thr[t])
  <2>1. /\ Settled(L, thr) /\ L.cur = d /\ Run(r, L.proc[t])
        /\ \A q \in Procs \ {t} : Woken(k.proc[q], L.proc[q])
    BY <1>1, <1>4, OtherRun
  <2>2. L.proc[d] = k.proc[d]
    BY <1>1, <2>1 DEF Woken
  <2>3. SInv'
    BY <1>1, <1>2, <2>1, <2>2, Continues DEF Went
  <2>4. \A q \in Procs \ {t} : Holds(k.proc[q], L.proc[q])
    BY <2>1, HoldsFacts
  <2>5. L = Edit(k, t, r) => L.proc[t] = r
    BY <1>1, EditFacts DEF Settled
  <2> QED
    BY <2>1, <2>3, <2>4, <2>5
<1> QED
  BY <1>3, <1>4

LEMMA PIOCRUNStep ==
    ASSUME SInv, NEW d \in Procs, NEW t \in Procs, PIOCRUN(d, t)
    PROVE  SInv' /\ \A q \in Procs \ {t} : Holds(k.proc[q], k'.proc[q])
<1> DEFINE x == k.proc[t]
<1>1. /\ Ioctl(d, t) /\ x.stat = "SSTOP" /\ "SPSTART" \notin x.flag
  BY DEF PIOCRUN, IoctlLocked, StoppedByProc, Rec
<1>2. k \in Tables /\ x \in ProcRecord /\ Fine(t, x, thr[t]) /\ Rests(x, thr[t])
  BY <1>1, Debugs
<1>3. PICK opts \in RunOptions :
        Step(d, setrun([k EXCEPT !.proc[t] = Continued(@, opts)], t), "kernel")
  BY DEF PIOCRUN
<1> DEFINE r == [x EXCEPT !.abort  = @ \/ "PRSABORT" \in opts,
                          !.cursig = IF "PRCSIG" \in opts /\ @ # "KILL" THEN "none" ELSE @,
                          !.flag   = @ \cup {"SPSTART"} \cup
                                     (IF "PRSTOP" \in opts THEN {"SPRSTOP"} ELSE {})]
           f == x.flag \cup {"SPSTART"} \cup (IF "PRSTOP" \in opts THEN {"SPRSTOP"} ELSE {})
           c == IF "PRCSIG" \in opts /\ x.cursig # "KILL" THEN "none" ELSE x.cursig
<1>4. [k EXCEPT !.proc[t] = Continued(@, opts)] = Edit(k, t, r)
  BY <1>2, TablesFacts DEF Edit, Continued
<1>5. /\ r \in ProcRecord
      /\ /\ r.stat = x.stat /\ r.flag = f /\ r.wchan = x.wchan /\ r.wcode = x.wcode
         /\ r.parent = x.parent /\ r.sig = x.sig /\ r.sigq = x.sigq /\ r.cursig = c
         /\ r.hold = x.hold /\ r.ignore = x.ignore /\ r.caught = x.caught
         /\ r.sigmask = x.sigmask
  BY <1>2, ZenonT(60) DEF ProcRecord, Flags
<1>6. PICK L : L = setrun(Edit(k, t, r), t)
  OBVIOUS
<1> HIDE DEF r
<1>7. k' = L /\ thr' = [thr EXCEPT ![d].pc = "kernel"] /\ hi' = hi
  BY <1>3, <1>4, <1>6 DEF Step, Goto
<1>8. Adjusted(x, r)
  BY <1>5 DEF Adjusted
<1>9. Fine(t, r, thr[t])
  <2>1. c \in {x.cursig, "none"}
    OBVIOUS
  <2> HIDE DEF x, f, c
  <2> QED
    BY <1>1, <1>2, <1>5, <2>1, NoSignals DEF Fine, x, f
<1>10. \A y : Run(r, y) => Fine(t, y, thr[t])
  BY <1>9, FineRun
<1> QED
  BY <1>1, <1>5, <1>6, <1>7, <1>8, <1>10, DebugStep

LEMMA prcloseStep ==
    ASSUME SInv, NEW d \in Procs, NEW t \in Procs, prclose(d, t)
    PROVE  SInv' /\ \A q \in Procs : Holds(k.proc[q], k'.proc[q]) \/ (q = t /\ StoppedByProc(k.proc[t]))
<1> DEFINE x == k.proc[t]
           r == [x EXCEPT !.sigmask = {}, !.entrystop = FALSE, !.flag = @ \ {"SPRSTOP"}]
           f == [r EXCEPT !.flag = @ \cup {"SPSTART"}]
<1>1. Ioctl(d, t)
  BY DEF prclose, IoctlLocked
<1>2. k \in Tables /\ x \in ProcRecord /\ Fine(t, x, thr[t]) /\ Rests(x, thr[t])
  BY <1>1, Debugs
<1>3. /\ r \in ProcRecord
      /\ /\ r.stat = x.stat /\ r.flag = x.flag \ {"SPRSTOP"} /\ r.wchan = x.wchan
         /\ r.wcode = x.wcode /\ r.parent = x.parent /\ r.sig = x.sig /\ r.sigq = x.sigq
         /\ r.cursig = x.cursig /\ r.hold = x.hold /\ r.ignore = x.ignore
         /\ r.caught = x.caught /\ r.sigmask = {}
  BY <1>2 DEF ProcRecord
<1>4. [k EXCEPT !.proc[t].sigmask = {}, !.proc[t].entrystop = FALSE,
                !.proc[t].flag = @ \ {"SPRSTOP"}] = Edit(k, t, r)
  BY <1>2, TablesFacts DEF Edit
<1> HIDE DEF r
<1>5. /\ thr' = [thr EXCEPT ![d].pc = "kernel"] /\ hi' = hi
      /\ k' = IF StoppedByProc(x)
              THEN setrun([Edit(k, t, r) EXCEPT !.proc[t].flag = @ \cup {"SPSTART"}], t)
              ELSE Edit(k, t, r)
  <2> DEFINE last(E) == IF StoppedByProc(Rec(t))
                        THEN setrun([E EXCEPT !.proc[t].flag = @ \cup {"SPSTART"}], t) ELSE E
  <2>1. /\ thr' = [thr EXCEPT ![d].pc = "kernel"] /\ hi' = hi
        /\ k' = last([k EXCEPT !.proc[t].sigmask = {}, !.proc[t].entrystop = FALSE,
                               !.proc[t].flag = @ \ {"SPRSTOP"}])
    BY DEF prclose, Step, Goto
  <2> HIDE DEF last
  <2>2. k' = last(Edit(k, t, r))
    BY <1>4, <2>1
  <2> QED
    BY <2>1, <2>2 DEF last, Rec
<1>6. /\ f \in ProcRecord
      /\ /\ f.stat = r.stat /\ f.flag = r.flag \cup {"SPSTART"} /\ f.wchan = r.wchan
         /\ f.wcode = r.wcode /\ f.parent = r.parent /\ f.sig = r.sig /\ f.sigq = r.sigq
         /\ f.cursig = r.cursig /\ f.hold = r.hold /\ f.ignore = r.ignore
         /\ f.caught = r.caught /\ f.sigmask = r.sigmask
  BY <1>3 DEF ProcRecord, Flags
<1>7. [Edit(k, t, r) EXCEPT !.proc[t].flag = @ \cup {"SPSTART"}] = Edit(k, t, f)
  <2>1. PICK A : A = Edit(k, t, r)
    OBVIOUS
  <2>2. A \in Tables /\ A.proc[t] = r
    BY <1>2, <1>3, <2>1, TablesFacts DEF Edit, Tables
  <2>3. [A EXCEPT !.proc[t].flag = @ \cup {"SPSTART"}] = Edit(A, t, f)
    BY <2>2, TablesFacts DEF Edit
  <2> HIDE DEF f
  <2> QED
    BY <1>2, <2>1, <2>3, EditFacts
<1> HIDE DEF f
<1>8. Adjusted(x, r) /\ Adjusted(x, f)
  BY <1>3, <1>6 DEF Adjusted
<1>9. Fine(t, r, thr[t]) /\ Fine(t, f, thr[t]) /\ Rests(r, thr[t])
  <2> HIDE DEF x
  <2>1. Fine(t, r, thr[t])
    BY <1>2, <1>3 DEF Fine, x
  <2>2. Fine(t, f, thr[t])
    BY <2>1, <1>6 DEF Fine
  <2>3. Rests(r, thr[t])
    BY <1>2, <1>3 DEF Rests, x
  <2> QED
    BY <2>1, <2>2, <2>3
<1>10. CASE StoppedByProc(x)
  <2>1. \A y : Run(f, y) => Fine(t, y, thr[t])
    BY <1>9, FineRun
  <2>2. f.stat = "SSTOP"
    BY <1>3, <1>6, <1>10 DEF StoppedByProc
  <2> QED
    BY <1>1, <1>5, <1>7, <1>8, <1>10, <2>1, <2>2, DebugStep
<1>11. CASE ~StoppedByProc(x)
  <2>1. SInv'
    BY <1>1, <1>5, <1>8, <1>9, <1>11, DebugStep
  <2>2. Held
    BY <1>2, <1>3, <1>5, <1>11, EditHeld
  <2> QED
    BY <2>1, <2>2 DEF Held
<1> QED
  BY <1>10, <1>11
-----------------------------------------------------------------------------
(***************************************************************************)
(* Signals and wakeups.                                                    *)
(***************************************************************************)
LEMMA AddedSettled ==
    ASSUME NEW K, NEW th, Settled(K, th), NEW n \in Procs, NEW s \in Sigs,
           NEW L \in Tables, Consistent(L), L.cur = K.cur, Added(K.proc[n], L.proc[n], s),
           \A q \in Procs \ {n} : Woken(K.proc[q], L.proc[q])
    PROVE  Settled(L, th)
<1>1. QuietStop(K.proc[n], L.proc[n]) /\ QuietChild(K.proc[n], L.proc[n])
  BY QuietFacts
<1>2. /\ K.cur # n => Fine(n, L.proc[n], th[n]) /\ Rests(L.proc[n], th[n])
      /\ L.proc[n].stat = "SSLEEP" => K.proc[n].stat = "SSLEEP" /\ L.proc[n].wchan = K.proc[n].wchan
  <2>1. K.cur # n => Fine(n, K.proc[n], th[n]) /\ Rests(K.proc[n], th[n])
    BY DEF Settled, Off
  <2>2. L.proc[n].stat = "SSLEEP" => K.proc[n].stat = "SSLEEP" /\ L.proc[n].wchan = K.proc[n].wchan
    BY DEF Added, Moved
  <2> QED
    BY <2>1, <2>2, FineAdded, RestsAdded
<1> QED
  BY <1>1, <1>2, SettledStep

\* The running process posts a signal and goes on.
LEMMA PostStep ==
    ASSUME SInv, NEW p \in Procs, NEW K, Settled(K, thr), K.cur = p, K.proc[p].stat = "SONPROC",
           NEW t \in Procs, NEW s \in Sigs, NEW L \in Tables, Consistent(L), L.cur = K.cur,
           Added(K.proc[t], L.proc[t], s), \A q \in Procs \ {t} : Woken(K.proc[q], L.proc[q]),
           NEW u \in Threads, Fine(p, K.proc[p], u), u.pc \notin {"psig", "fsig"},
           k' = L, thr' = Becomes(thr, p, u), hi' \in BOOLEAN
    PROVE  SInv'
<1>1. Settled(L, thr)
  BY AddedSettled
<1>2. Fine(p, L.proc[p], u)
  BY FineAdded, FineWoken
<1>3. L.proc[p].stat = "SONPROC"
  BY DEF Added, Woken, Moved
<1> QED
  BY <1>1, <1>2, <1>3, Continues

LEMMA SignalIntrStep ==
    ASSUME SInv, NEW t \in Procs, NEW s \in IntrSigs[t], SignalIntr(t, s)
    PROVE  SInv' /\ Held
<1>1. /\ s \in Sigs /\ InterruptsOn /\ k' = sigtoproc(k, t, s) /\ thr' = thr /\ hi' = hi
  BY SleepSigAssumption DEF SignalIntr, SleepSigAssumption
<1>2. Settled(k, thr) /\ k \in Tables /\ Consistent(k) /\ thr \in [Procs -> Threads] /\ hi \in BOOLEAN
  BY DEF SInv, InvAt, Settled
<1>3. ASSUME NEW p \in Procs, k.cur = p
      PROVE  /\ Fine(p, k.proc[p], thr[p]) /\ On(p, k, thr[p], hi) /\ k.proc[p].stat = "SONPROC"
  <2>1. ~hi
    BY <1>1, <1>3, ProcTableAssumption DEF InterruptsOn
  <2> QED
    BY <1>3, <2>1, Here DEF On
<1>4. PICK L : L = sigtoproc(k, t, s)
  OBVIOUS
<1>5. /\ L \in Tables /\ Consistent(L) /\ L.cur = k.cur /\ Added(k.proc[t], L.proc[t], s)
      /\ \A q \in Procs \ {t} : Woken(k.proc[q], L.proc[q])
  BY <1>1, <1>2, <1>3, <1>4, SigaddqFacts
<1>6. Settled(L, thr)
  BY <1>1, <1>2, <1>5, AddedSettled
<1>7. ASSUME NEW p \in Procs, L.cur = p
      PROVE  Fine(p, L.proc[p], thr[p]) /\ On(p, L, thr[p], hi)
  <2>1. Fine(p, k.proc[p], thr[p]) /\ On(p, k, thr[p], hi) /\ k.proc[p].stat = "SONPROC"
    BY <1>3, <1>5, <1>7
  <2>2. Fine(p, L.proc[p], thr[p])
    BY <1>1, <1>5, <2>1, FineAdded, FineWoken
  <2>3. /\ L.proc[p].stat = "SONPROC" /\ L.proc[p].cursig = k.proc[p].cursig
        /\ L.proc[p].ignore = k.proc[p].ignore
    BY <1>5, <2>1 DEF Added, Woken, Moved, SameRights
  <2> QED
    BY <2>1, <2>2, <2>3 DEF On, Hears
<1>8. InvAt(L, thr, hi)
  BY <1>2, <1>6, <1>7 DEF InvAt
<1>9. Held
  BY <1>1, <1>4, <1>5, HoldsFacts DEF Held
<1> QED
  BY <1>1, <1>4, <1>8, <1>9, Arrives

LEMMA DevIntrStep ==
    ASSUME SInv, NEW chan \in Chans, DevIntr(chan)
    PROVE  SInv' /\ Held
<1>1. InterruptsOn /\ k' = wakeprocs(k, chan) /\ thr' = thr /\ hi' = hi
  BY DEF DevIntr
<1>2. Settled(k, thr) /\ k \in Tables /\ Consistent(k) /\ thr \in [Procs -> Threads] /\ hi \in BOOLEAN
  BY DEF SInv, InvAt, Settled
<1>3. ASSUME NEW p \in Procs, k.cur = p
      PROVE  /\ Fine(p, k.proc[p], thr[p]) /\ On(p, k, thr[p], hi) /\ k.proc[p].stat = "SONPROC"
             /\ k.proc[p].wchan = NoChan
  <2>1. ~hi
    BY <1>1, <1>3, ProcTableAssumption DEF InterruptsOn
  <2> QED
    BY <1>3, <2>1, Here DEF On
<1>4. PICK L : L = wakeprocs(k, chan)
  OBVIOUS
<1>5. L \in Tables /\ Consistent(L) /\ L.cur = k.cur /\ WokenBy(k, L, chan)
  BY <1>2, <1>3, <1>4, Awoken
<1>6. /\ \A q \in Procs : Woken(k.proc[q], L.proc[q])
      /\ \A q \in Procs : k.proc[q].wchan # chan => L.proc[q] = k.proc[q]
  BY <1>2, <1>5, WokenByFacts
<1>7. \A q \in Procs : QuietStop(k.proc[q], L.proc[q]) /\ QuietChild(k.proc[q], L.proc[q])
  BY <1>6, QuietFacts
<1>8. Settled(L, thr)
  <2>1. ASSUME NEW q \in Procs, L.cur # q
        PROVE  Off(q, L, thr[q])
    <3>1. Fine(q, k.proc[q], thr[q]) /\ Rests(k.proc[q], thr[q]) /\ (thr[q].pc = "asleep" => Hears(q, k, thr[q]))
      BY <1>2, <1>5, <2>1 DEF Settled, Off
    <3>2. Fine(q, L.proc[q], thr[q]) /\ Rests(L.proc[q], thr[q])
      BY <1>6, <3>1, FineWoken, RestsWoken
    <3>3. L.proc[q].stat = "SSLEEP" => k.proc[q].stat = "SSLEEP" /\ L.proc[q].wchan = k.proc[q].wchan
      BY <1>6 DEF Woken
    <3>4. thr[q].pc = "asleep" => Hears(q, L, thr[q])
      BY <1>7, <3>1, <3>3, HearsTold
    <3> QED
      BY <3>2, <3>4 DEF Off
  <2> QED
    BY <1>5, <2>1 DEF Settled
<1>9. ASSUME NEW p \in Procs, L.cur = p
      PROVE  Fine(p, L.proc[p], thr[p]) /\ On(p, L, thr[p], hi)
  <2>1. /\ Fine(p, k.proc[p], thr[p]) /\ On(p, k, thr[p], hi) /\ k.proc[p].stat = "SONPROC"
        /\ L.proc[p] = k.proc[p]
    BY <1>3, <1>5, <1>6, <1>9, ChanFacts
  <2> QED
    BY <2>1 DEF On, Hears
<1>10. InvAt(L, thr, hi)
  BY <1>2, <1>8, <1>9 DEF InvAt
<1>11. Held
  BY <1>1, <1>4, <1>6, HoldsFacts DEF Held
<1> QED
  BY <1>1, <1>4, <1>10, <1>11, Arrives

LEMMA DispatchStep ==
    ASSUME SInv, NEW p \in Procs, Dispatch(p)
    PROVE  SInv'
<1> DEFINE x == k.proc[p]
           r == [x EXCEPT !.stat = "SONPROC"]
           q0 == RemoveFirst(k.dispq, p)
<1>1. /\ k.cur = NoProc /\ OnQueue(k.dispq, p) /\ k' = EnterProcessor(k, p) /\ hi' = FALSE /\ thr' = thr
  BY DEF Dispatch
<1>2. /\ Settled(k, thr) /\ k \in Tables /\ Consistent(k) /\ thr \in [Procs -> Threads]
      /\ k.proc \in [Procs -> ProcRecord] /\ x \in ProcRecord /\ k.dispq \in Seq(Procs)
      /\ NoProc \notin Procs
  BY TablesFacts, ChanFacts DEF SInv, InvAt, Settled
<1>3. /\ x.stat = "SRUN" /\ x.wchan = NoChan /\ Fine(p, x, thr[p]) /\ thr[p].pc \notin Running
  BY <1>1, <1>2 DEF Consistent, Settled, Off, Rests
<1>4. /\ r \in ProcRecord /\ r.stat = "SONPROC"
      /\ /\ r.stat = "SONPROC" /\ r.flag = x.flag /\ r.wchan = x.wchan /\ r.wcode = x.wcode
         /\ r.parent = x.parent /\ r.sig = x.sig /\ r.sigq = x.sigq /\ r.cursig = x.cursig
         /\ r.hold = x.hold /\ r.ignore = x.ignore /\ r.caught = x.caught
         /\ r.sigmask = x.sigmask
  BY <1>2 DEF ProcRecord, Stats
<1>5. /\ q0 \in Seq(Procs) /\ ToSet(q0) = ToSet(k.dispq) \ {p} /\ NoDuplicates(q0)
  BY <1>1, <1>2, RemovedFacts DEF OnQueue, Consistent
<1>6. PICK L : L = EnterProcessor(k, p)
  OBVIOUS
<1>7. /\ L.proc = [k.proc EXCEPT ![p] = r] /\ L.sleepq = k.sleepq /\ L.dispq = q0 /\ L.cur = p
      /\ L \in Tables
  <2>1. /\ L.proc = [k.proc EXCEPT ![p] = r] /\ L.sleepq = k.sleepq /\ L.dispq = q0 /\ L.cur = p
        /\ L = [proc |-> L.proc, sleepq |-> L.sleepq, dispq |-> L.dispq, cur |-> L.cur]
    <3>1. L = [k EXCEPT !.cur = p, !.proc[p].stat = "SONPROC", !.dispq = RemoveFirst(@, p)]
      BY <1>6 DEF EnterProcessor
    <3>2. k = [proc |-> k.proc, sleepq |-> k.sleepq, dispq |-> k.dispq, cur |-> k.cur]
      BY <1>2, TablesFacts
    <3>3. L = [proc |-> [k.proc EXCEPT ![p] = r], sleepq |-> k.sleepq, dispq |-> q0, cur |-> p]
      BY <1>2, <3>1, <3>2
    <3> QED
      BY <3>3
  <2> HIDE DEF r, q0
  <2>2. L.proc \in [Procs -> ProcRecord]
    BY <1>2, <1>4, <2>1
  <2> QED
    BY <1>2, <1>5, <2>1, <2>2, TablesFacts DEF Tables
<1> HIDE DEF r, q0
<1>8. L.proc[p] = r /\ \A q \in Procs \ {p} : L.proc[q] = k.proc[q]
  BY <1>2, <1>7
<1>9. Consistent(L)
  <2> HIDE DEF x
  <2>1. \A q \in Procs : L.proc[q].wchan = k.proc[q].wchan
    BY <1>4, <1>8 DEF x
  <2>2. \A q \in Procs : (L.proc[q].stat = "SRUN" <=> OnQueue(L.dispq, q)) /\ (OnQueue(L.dispq, q) => L.cur # q)
    BY <1>2, <1>4, <1>5, <1>7, <1>8 DEF Consistent, OnQueue
  <2>3. \A q \in Procs : L.proc[q].wchan # NoChan => L.proc[q].stat \in {"SSLEEP", "SSTOP"}
    BY <1>2, <1>3, <1>4, <1>8 DEF Consistent, x
  <2> QED
    BY <1>2, <1>5, <1>7, <2>1, <2>2, <2>3 DEF Consistent
<1>10. Fine(p, r, thr[p])
  <2> HIDE DEF x
  <2> QED
    BY <1>3, <1>4 DEF Fine, x
<1>11. On(p, L, thr[p], FALSE)
  BY <1>3, <1>4, <1>8 DEF On, Hears, Running
<1>12. Settled(L, thr)
  <2>1. \A n \in Procs : QuietStop(k.proc[n], L.proc[n]) /\ QuietChild(k.proc[n], L.proc[n])
    BY <1>3, <1>4, <1>8 DEF QuietStop, QuietChild, AliveRec, StoppedByProc
  <2>2. ASSUME NEW q \in Procs, L.cur # q
        PROVE  Off(q, L, thr[q])
    <3>1. Off(q, k, thr[q]) /\ L.proc[q] = k.proc[q]
      BY <1>1, <1>2, <1>7, <1>8, <2>2 DEF Settled
    <3>2. Hears(q, k, thr[q]) => Hears(q, L, thr[q])
      BY <2>1, <3>1, HearsTold
    <3> QED
      BY <3>1, <3>2 DEF Off
  <2> QED
    BY <1>7, <1>9, <2>2 DEF Settled
<1>13. InvAt(L, thr, FALSE)
  BY <1>2, <1>7, <1>8, <1>10, <1>11, <1>12 DEF InvAt
<1> QED
  BY <1>1, <1>6, <1>13, Arrives

LEMMA PreemptStep ==
    ASSUME SInv, NEW p \in Procs, Preempt(p)
    PROVE  SInv'
<1>1. k.cur = p /\ thr[p].pc \in {"trapret", "kernel"}
  BY DEF Preempt, At
<1>2. /\ Settled(k, thr) /\ thr \in [Procs -> Threads] /\ Fine(p, k.proc[p], thr[p])
      /\ k.proc[p].stat = "SONPROC"
  BY <1>1, Here, RunsHere
<1>3. PICK c \in {"trapsig", "kernel"} :
        /\ c = IF thr[p].pc = "trapret" THEN "trapsig" ELSE "kernel"
        /\ thr' = [thr EXCEPT ![p].pc = c] /\ hi' = FALSE
        /\ \/ k' = LeaveProcessor(setbackdq(k, p), p)
           \/ k' = LeaveProcessor(setfrontdq(k, p), p)
  BY DEF Preempt, Yield, Goto
<1>4. PICK u : Went(thr[p], u, c) /\ [thr EXCEPT ![p].pc = c] = Becomes(thr, p, u)
  BY GoesTo DEF Places
<1>5. Fine(p, k.proc[p], u) /\ u.pc \notin Running /\ u.pc # "asleep" /\ u \in Threads
  BY <1>1, <1>2, <1>3, <1>4 DEF Fine, Went, Asked, Running
<1>6. PICK L : /\ L = LeaveProcessor(setbackdq(k, p), p) \/ L = LeaveProcessor(setfrontdq(k, p), p)
               /\ k' = L
  BY <1>3
<1>7. InvAt(L, Becomes(thr, p, u), FALSE)
  BY <1>1, <1>2, <1>5, <1>6, Requeues
<1> QED
  BY <1>3, <1>4, <1>6, <1>7, Arrives
-----------------------------------------------------------------------------
(***************************************************************************)
(* Going to sleep.                                                         *)
(***************************************************************************)
LEMMA SleptSettled ==
    ASSUME NEW K, NEW th, Settled(K, th), NEW p \in Procs, K.cur = p, K.proc[p].stat = "SONPROC",
           NEW chan \in Chans, NEW Q, Q = QueueSleeper(K, p, chan)
    PROVE  /\ Settled(Q, th) /\ Q.cur = p /\ Q \in Tables
           /\ Q.proc[p] = Asleep(K.proc[p], chan)
           /\ Q.proc[p] \in ProcRecord /\ K.proc[p] \in ProcRecord
           /\ \A q \in Procs \ {p} : Q.proc[q] = K.proc[q]
           /\ \A n \in Procs : QuietStop(K.proc[n], Q.proc[n]) /\ QuietChild(K.proc[n], Q.proc[n])
<1>1. K \in Tables /\ Consistent(K) /\ K.proc[p].wchan = NoChan /\ K.proc[p] \in ProcRecord
  BY TablesFacts DEF Settled, Consistent
<1>2. /\ Q \in Tables /\ Consistent(Q) /\ Q.cur = K.cur
      /\ Q.proc[p] = Asleep(K.proc[p], chan)
      /\ Q.proc[p] \in ProcRecord
      /\ \A q \in Procs \ {p} : Q.proc[q] = K.proc[q]
  <2>1. K.proc[p].stat # "SRUN"
    OBVIOUS
  <2> QED
    BY ONLY <1>1, <2>1, p \in Procs, chan \in Chans, Q = QueueSleeper(K, p, chan), Slept
<1>3. \A q \in Procs \ {p} : Woken(K.proc[q], Q.proc[q])
  BY <1>1, <1>2, TablesFacts DEF ProcRecord, Woken, SameRights, Moved
<1>4. QuietStop(K.proc[p], Q.proc[p]) /\ QuietChild(K.proc[p], Q.proc[p])
  <2> DEFINE x == K.proc[p]
             y == Q.proc[p]
  <2>1. y.stat = "SSLEEP" /\ y.parent = x.parent /\ y.wcode = x.wcode /\ x.stat = "SONPROC"
    BY <1>1, <1>2 DEF ProcRecord, Asleep
  <2> QED
    BY <2>1 DEF QuietStop, QuietChild, AliveRec, StoppedByProc
<1>5. Settled(Q, th)
  BY <1>2, <1>3, <1>4, SettledStep
<1>6. \A n \in Procs : QuietStop(K.proc[n], Q.proc[n]) /\ QuietChild(K.proc[n], Q.proc[n])
  BY <1>3, <1>4, QuietFacts
<1> QED
  BY <1>1, <1>2, <1>5, <1>6

\* kill(2), in sigaddq(), or PIOCSSIG waits for memory, with the tables K.
LEMMA KmemStep ==
    ASSUME SInv, NEW p \in Procs, k.cur = p, k.proc[p].stat = "SONPROC",
           k.proc[p].cursig \notin Sigs \ PrSigs,
           NEW K, Settled(K, thr), K.cur = p, K.proc[p] = k.proc[p],
           NEW inner \in {"kill", "ssig"}, NEW t \in Procs, inner = "ssig" => t # p,
           NEW s \in Sigs, KmemSleep(p, K, inner, t, s)
    PROVE  SInv' /\ \A q \in Procs \ {p} : k'.proc[q] = K.proc[q]
<1> DEFINE x == k.proc[p]
<1>1. /\ k \in Tables /\ thr \in [Procs -> Threads] /\ thr[p] \in Threads
      /\ x \in ProcRecord /\ Fine(p, x, thr[p])
  BY Here
<1>2. PICK Q : Q = QueueSleeper(K, p, KmemChan)
  OBVIOUS
<1> DEFINE y == Q.proc[p]
           r == [y EXCEPT !.flag = @ \cup {"SNWAKE"}]
<1>3. /\ Settled(Q, thr) /\ Q.cur = p /\ Q \in Tables /\ y \in ProcRecord
      /\ y = Asleep(x, KmemChan) /\ \A q \in Procs \ {p} : Q.proc[q] = K.proc[q]
  <2>1. KmemChan \in Chans /\ Settled(K, thr) /\ K.cur = p /\ K.proc[p] = x /\ K.proc[p].stat = "SONPROC"
    BY ChanFacts
  <2> HIDE DEF x
  <2>2. /\ Settled(Q, thr) /\ Q.cur = p /\ Q \in Tables
        /\ Q.proc[p] = Asleep(K.proc[p], KmemChan)
        /\ Q.proc[p] \in ProcRecord /\ \A q \in Procs \ {p} : Q.proc[q] = K.proc[q]
    BY ONLY <1>2, <2>1, p \in Procs, SleptSettled
  <2> QED
    BY <2>1, <2>2
<1>4. /\ /\ y.stat = "SSLEEP" /\ y.flag = x.flag /\ y.wchan = KmemChan /\ y.wcode = x.wcode
         /\ y.parent = x.parent /\ y.sig = x.sig /\ y.sigq = x.sigq /\ y.cursig = x.cursig
         /\ y.hold = x.hold /\ y.ignore = x.ignore /\ y.caught = x.caught
         /\ y.sigmask = x.sigmask
  BY <1>1, <1>3 DEF ProcRecord, Asleep
<1>5. /\ KmemSleeps /\ hi' = FALSE
      /\ k' = LeaveProcessor([Q EXCEPT !.proc[p].flag = @ \cup {"SNWAKE"}], p)
      /\ thr' = [thr EXCEPT ![p].pc = "kmem", ![p].inner = inner, ![p].tgt = t, ![p].sg = s]
  BY <1>2 DEF KmemSleep
<1>6. /\ r \in ProcRecord
      /\ /\ r.stat = y.stat /\ r.flag = y.flag \cup {"SNWAKE"} /\ r.wchan = y.wchan
         /\ r.wcode = y.wcode /\ r.parent = y.parent /\ r.sig = y.sig /\ r.sigq = y.sigq
         /\ r.cursig = y.cursig /\ r.hold = y.hold /\ r.ignore = y.ignore
         /\ r.caught = y.caught /\ r.sigmask = y.sigmask
  BY <1>3 DEF ProcRecord, Flags
<1>7. [Q EXCEPT !.proc[p].flag = @ \cup {"SNWAKE"}] = Edit(Q, p, r)
  BY <1>3, TablesFacts DEF Edit
<1> HIDE DEF r, x, y
<1>8. PICK M : M = Edit(Q, p, r)
  OBVIOUS
<1>9. /\ Settled(M, thr) /\ M.cur = p /\ M.proc[p] = r
      /\ \A q \in Procs \ {p} : M.proc[q] = Q.proc[q]
  <2>1. /\ Q.proc[p] = y /\ y.stat = "SSLEEP" /\ r.stat = y.stat /\ r.wchan = y.wchan
        /\ r.parent = y.parent /\ r.wcode = y.wcode
    BY <1>4, <1>6 DEF y
  <2> QED
    BY <1>3, <1>6, <1>8, <2>1, OwnEdit
<1>10. PICK u : u = [thr[p] EXCEPT !.pc = "kmem", !.inner = inner, !.tgt = t, !.sg = s]
  OBVIOUS
<1>11. /\ u \in Threads /\ u.pc = "kmem" /\ u.ctx = thr[p].ctx /\ u.ret = thr[p].ret /\ u.tgt = t
       /\ u.inner = inner /\ u.sg = s
  <2>1. u = [pc |-> "kmem", ctx |-> thr[p].ctx, ret |-> thr[p].ret, inner |-> inner, tgt |-> t, sg |-> s]
    BY <1>1, <1>10, ZenonT(60) DEF Threads
  <2>2. thr[p].ctx \in {"pre", "post", "trap"} /\ thr[p].ret \in {"kernel", "waitid", "wstop", "exit2"}
    BY <1>1 DEF Threads
  <2> QED
    BY <2>1, <2>2 DEF Threads
<1>12. thr' = Becomes(thr, p, u)
  BY <1>1, <1>5, <1>10 DEF Becomes, Threads
<1>13. Fine(p, r, u) /\ Rests(r, u)
  <2>1. \A o : KmemChan # <<"proc", o>>
    BY DEF KmemChan
  <2>2. x.cursig \notin Sigs \ PrSigs /\ x.stat = "SONPROC"
    BY DEF x
  <2>3. Fine(p, r, u)
    BY <1>1, <1>4, <1>5, <1>6, <1>11, <2>1, <2>2 DEF Fine
  <2>4. Rests(r, u)
    BY <1>11 DEF Rests, Running
  <2> QED
    BY <2>3, <2>4
<1>14. PICK L : L = LeaveProcessor(M, p)
  OBVIOUS
<1>15. InvAt(L, Becomes(thr, p, u), FALSE)
  BY <1>1, <1>4, <1>6, <1>9, <1>11, <1>13, <1>14, Leaves
<1>16. SInv'
  BY <1>5, <1>7, <1>8, <1>12, <1>14, <1>15, Arrives
<1>17. \A q \in Procs \ {p} : L.proc[q] = M.proc[q]
  <2>1. M \in Tables
    BY <1>9 DEF Settled
  <2> QED
    BY <1>14, <2>1, LeftAlone
<1> QED
  BY <1>3, <1>5, <1>7, <1>8, <1>9, <1>14, <1>16, <1>17

\* PIOCSSIG: at once, or with the wait for memory while the process is locked.
LEMMA PIOCSSIGStep ==
    ASSUME SInv, NEW d \in Procs, NEW t \in Procs, PIOCSSIG(d, t)
    PROVE  SInv' /\ Held
<1> DEFINE x == k.proc[t]
<1>1. Ioctl(d, t)
  BY DEF PIOCSSIG, IoctlLocked
<1>2. /\ k \in Tables /\ x \in ProcRecord /\ Fine(t, x, thr[t]) /\ Rests(x, thr[t])
      /\ k.cur = d /\ t # d /\ Settled(k, thr) /\ hi \in BOOLEAN /\ k.proc[d].stat = "SONPROC"
      /\ thr[d].pc \in {"sysent", "kernel"} /\ Fine(d, k.proc[d], thr[d])
  BY <1>1, Debugs
<1>3. PICK u : /\ Went(thr[d], u, "kernel") /\ [thr EXCEPT ![d].pc = "kernel"] = Becomes(thr, d, u)
               /\ Fine(d, k.proc[d], u)
  BY <1>1, Debugs
<1>4. PICK s \in PrSigs :
        LET set == [k EXCEPT !.proc[t].cursig = s]
        IN IF s = "none" THEN Step(d, set, "kernel")
           ELSE \/ Step(d, PIOCSSIGStart(set, t), "kernel")
                \/ KmemSleep(d, [set EXCEPT !.proc[t].flag = @ \cup {"SPROCIO"}], "ssig", t, s)
  BY DEF PIOCSSIG
<1>5. s \in Sigs \cup {"none"} /\ s \notin Sigs \ PrSigs
  BY SleepSigAssumption DEF SleepSigAssumption
<1> DEFINE r == [x EXCEPT !.cursig = s]
           l == Locked(r)
<1>6. /\ r \in ProcRecord
      /\ /\ r.stat = x.stat /\ r.flag = x.flag /\ r.wchan = x.wchan /\ r.wcode = x.wcode
         /\ r.parent = x.parent /\ r.sig = x.sig /\ r.sigq = x.sigq /\ r.cursig = s
         /\ r.hold = x.hold /\ r.ignore = x.ignore /\ r.caught = x.caught
         /\ r.sigmask = x.sigmask
  BY <1>2, <1>5 DEF ProcRecord
<1>7. PICK E : E = [k EXCEPT !.proc[t].cursig = s]
  OBVIOUS
<1>8. E = Edit(k, t, r)
  BY <1>2, <1>7, TablesFacts DEF Edit
<1> HIDE DEF r
<1>9. /\ l \in ProcRecord
      /\ /\ l.stat = r.stat /\ l.flag = r.flag \cup {"SPROCIO"} /\ l.wchan = r.wchan
         /\ l.wcode = r.wcode /\ l.parent = r.parent /\ l.sig = r.sig /\ l.sigq = r.sigq
         /\ l.cursig = r.cursig /\ l.hold = r.hold /\ l.ignore = r.ignore
         /\ l.caught = r.caught /\ l.sigmask = r.sigmask
  BY <1>6 DEF ProcRecord, Flags, Locked
<1>10. [E EXCEPT !.proc[t].flag = @ \cup {"SPROCIO"}] = Edit(k, t, l)
  <2>1. E \in Tables /\ E.proc[t] = r
    BY <1>2, <1>6, <1>8, TablesFacts DEF Edit, Tables
  <2>2. [E EXCEPT !.proc[t].flag = @ \cup {"SPROCIO"}] = Edit(E, t, l)
    BY <2>1, TablesFacts DEF Edit, Locked
  <2> HIDE DEF l
  <2> QED
    BY <1>2, <1>8, <2>2, EditFacts
<1>11. l = Locked(r)
  OBVIOUS
<1> HIDE DEF x, l
<1>12. Adjusted(x, r) /\ Adjusted(x, l)
  BY <1>6, <1>9 DEF Adjusted
<1>13. Fine(t, l, thr[t])
  BY <1>2, <1>5, <1>6, <1>9 DEF Fine
<1>14. Rests(l, thr[t])
  BY <1>2, <1>6, <1>9 DEF Rests
<1>15. CASE s = "none"
  <2>1. k' = Edit(k, t, r) /\ thr' = Becomes(thr, d, u) /\ hi' = hi
    BY <1>3, <1>4, <1>7, <1>8, <1>15 DEF Step, Goto
  <2>2. Fine(t, r, thr[t])
    BY <1>2, <1>5, <1>6, <1>15 DEF Fine
  <2>3. Rests(r, thr[t])
    BY <1>2, <1>6, <1>15 DEF Rests
  <2>4. PICK L : L = Edit(k, t, r)
    OBVIOUS
  <2>5. Settled(L, thr) /\ L.cur = d /\ L.proc[d] = k.proc[d]
    BY <1>2, <1>12, <2>2, <2>3, <2>4, OtherEdit DEF x
  <2>6. SInv'
    BY <1>2, <1>3, <2>1, <2>4, <2>5, Continues DEF Went
  <2>7. Held
    BY <1>2, <1>6, <2>1, EditHeld DEF x
  <2> QED
    BY <2>6, <2>7
<1>16. CASE Step(d, PIOCSSIGStart(E, t), "kernel")
  <2>1. PICK L : L = PIOCSSIGStart(Edit(k, t, r), t)
    OBVIOUS
  <2>2. k' = L /\ thr' = Becomes(thr, d, u) /\ hi' = hi
    BY <1>3, <1>8, <1>16, <2>1 DEF Step, Goto
  <2>3. /\ Settled(L, thr) /\ L.cur = k.cur /\ Holds(k.proc[t], L.proc[t])
        /\ \A q \in Procs \ {t} : Woken(k.proc[q], L.proc[q])
    BY <1>2, <1>11, <1>12, <1>13, <1>14, <2>1, SsigStarts DEF x
  <2>4. L.proc[d] = k.proc[d]
    <3>1. k.proc[d].wchan = NoChan
      BY <1>1, Debugs
    <3> QED
      BY <1>2, <2>3, <3>1 DEF Woken
  <2>5. SInv'
    BY <1>2, <1>3, <2>2, <2>3, <2>4, Continues DEF Went
  <2>6. Held
    BY <2>2, <2>3, HoldsFacts DEF Held
  <2> QED
    BY <2>5, <2>6
<1>17. CASE s # "none" /\ KmemSleep(d, [E EXCEPT !.proc[t].flag = @ \cup {"SPROCIO"}], "ssig", t, s)
  <2>1. PICK K : K = Edit(k, t, l)
    OBVIOUS
  <2>2. /\ Settled(K, thr) /\ K.cur = d /\ K.proc[t] = l
        /\ \A q \in Procs \ {t} : K.proc[q] = k.proc[q]
    BY <1>2, <1>12, <1>13, <1>14, <2>1, OtherEdit DEF x
  <2>3. KmemSleep(d, K, "ssig", t, s) /\ s \in Sigs
    BY <1>5, <1>10, <1>17, <2>1
  <2>4. k.proc[d].cursig \notin Sigs \ PrSigs
    BY <1>2 DEF Fine, Asked
  <2>5. SInv' /\ \A q \in Procs \ {d} : k'.proc[q] = K.proc[q]
    BY <1>2, <2>2, <2>3, <2>4, KmemStep
  <2>6. \A q \in Procs \ {d} : Holds(k.proc[q], k'.proc[q])
    BY <1>2, <1>6, <1>9, <2>2, <2>5 DEF Holds, x
  <2>7. Holds(k.proc[d], k'.proc[d])
    BY <1>2 DEF Holds
  <2> QED
    BY <2>5, <2>6, <2>7, HeldBut
<1> QED
  BY <1>4, <1>7, <1>15, <1>16, <1>17

LEMMA KillStep ==
    ASSUME SInv, NEW p \in Procs, Kill(p)
    PROVE  SInv' /\ Held
<1>1. /\ k.cur = p /\ thr[p].pc \in {"sysent", "kernel"}
      /\ k \in Tables /\ Settled(k, thr) /\ hi \in BOOLEAN
      /\ Fine(p, k.proc[p], thr[p]) /\ k.proc[p].stat = "SONPROC"
  BY Calls DEF Kill
<1>2. PICK u : Went(thr[p], u, "kernel") /\ [thr EXCEPT ![p].pc = "kernel"] = Becomes(thr, p, u)
  BY Calls DEF Kill
<1>3. Fine(p, k.proc[p], u) /\ k.proc[p].cursig \notin Sigs \ PrSigs
  BY <1>1, <1>2 DEF Fine, Went, Asked
<1>4. PICK t \in Procs, s \in KillSigs :
        \/ Step(p, sigaddq(k, t, s), "kernel")
        \/ KmemSleep(p, k, "kill", t, s)
  BY DEF Kill
<1>5. s \in Sigs
  BY SleepSigAssumption DEF SleepSigAssumption
<1>6. CASE Step(p, sigaddq(k, t, s), "kernel")
  <2>1. PICK L : L = sigaddq(k, t, s)
    OBVIOUS
  <2>2. k' = L /\ thr' = Becomes(thr, p, u) /\ hi' = hi
    BY <1>2, <1>6, <2>1 DEF Step, Goto
  <2>3. /\ L \in Tables /\ Consistent(L) /\ L.cur = k.cur /\ Added(k.proc[t], L.proc[t], s)
        /\ \A q \in Procs \ {t} : Woken(k.proc[q], L.proc[q])
    BY <1>1, <1>5, <2>1, SigaddqFacts DEF Settled
  <2>4. SInv'
    BY <1>1, <1>2, <1>3, <1>5, <2>2, <2>3, PostStep DEF Went
  <2>5. Held
    BY <1>5, <2>2, <2>3, HoldsFacts DEF Held
  <2> QED
    BY <2>4, <2>5
<1>7. CASE KmemSleep(p, k, "kill", t, s)
  BY <1>1, <1>3, <1>5, <1>7, KmemStep, KmemHeld
<1> QED
  BY <1>4, <1>6, <1>7

LEMMA ResumeKmemStep ==
    ASSUME SInv, NEW p \in Procs, ResumeKmem(p)
    PROVE  SInv' /\ Held
<1> DEFINE x == k.proc[p]
           r == [x EXCEPT !.flag = @ \ {"SNWAKE", "SNOSTOP", "SASLEEP"}]
<1>1. k.cur = p /\ thr[p].pc = "kmem"
  BY DEF ResumeKmem, At
<1>2. /\ k \in Tables /\ Settled(k, thr) /\ hi \in BOOLEAN /\ x \in ProcRecord /\ Fine(p, x, thr[p])
      /\ x.stat = "SONPROC" /\ x.wchan = NoChan /\ thr[p] \in Threads
  BY <1>1, Here, RunsHere
<1>3. /\ KmemSleeps /\ thr[p].inner \in {"kill", "ssig"} /\ thr[p].tgt \in Procs /\ thr[p].sg \in Sigs
      /\ thr[p].inner = "ssig" => thr[p].tgt # p
  BY <1>1, <1>2 DEF Fine
<1>4. PICK u : Went(thr[p], u, "kernel") /\ [thr EXCEPT ![p].pc = "kernel"] = Becomes(thr, p, u)
  BY GoesTo DEF Places
<1>5. /\ r \in ProcRecord
      /\ /\ r.stat = x.stat /\ r.flag = x.flag \ {"SNWAKE", "SNOSTOP", "SASLEEP"}
         /\ r.wchan = x.wchan /\ r.wcode = x.wcode /\ r.parent = x.parent /\ r.sig = x.sig
         /\ r.sigq = x.sigq /\ r.cursig = x.cursig /\ r.hold = x.hold /\ r.ignore = x.ignore
         /\ r.caught = x.caught /\ r.sigmask = x.sigmask
  BY <1>2 DEF ProcRecord
<1>6. [k EXCEPT !.proc[p].flag = @ \ {"SNWAKE", "SNOSTOP", "SASLEEP"}] = Edit(k, p, r)
  BY <1>2, TablesFacts DEF Edit
<1>7. PICK M : M = [k EXCEPT !.proc[p].flag = @ \ {"SNWAKE", "SNOSTOP", "SASLEEP"}]
  OBVIOUS
<1>8. M = Edit(k, p, r)
  BY <1>6, <1>7
<1> HIDE DEF r
<1>9. /\ thr' = Becomes(thr, p, u) /\ hi' = hi
      /\ thr[p].inner = "kill" => k' = sigaddqInsert(M, thr[p].tgt, thr[p].sg)
      /\ thr[p].inner = "ssig" =>
            k' = PIOCSSIGStart([M EXCEPT !.proc[thr[p].tgt].flag = @ \ {"SPROCIO"}], thr[p].tgt)
  BY <1>3, <1>4, <1>7 DEF ResumeKmem, Step, Goto
<1>10. /\ Settled(M, thr) /\ M.cur = p /\ M.proc[p] = r
       /\ \A q \in Procs \ {p} : M.proc[q] = k.proc[q]
  BY <1>1, <1>2, <1>5, <1>8, OwnEdit
<1>11. Fine(p, r, u)
  <2> HIDE DEF x
  <2> QED
    BY <1>1, <1>2, <1>4, <1>5 DEF Fine, Went, Asked, x
<1>12. M.proc[p].stat = "SONPROC" /\ M.proc[p].wchan = NoChan /\ Fine(p, M.proc[p], u)
  BY <1>2, <1>5, <1>10, <1>11
<1>13. PICK t \in Procs, s \in Sigs : t = thr[p].tgt /\ s = thr[p].sg
  BY <1>3
<1>14. M \in Tables /\ Consistent(M)
  BY <1>10 DEF Settled
<1>15. CASE thr[p].inner = "kill"
  <2>1. PICK L : L = sigaddqInsert(M, t, s)
    OBVIOUS
  <2>2. k' = L
    BY <1>9, <1>13, <1>15, <2>1
  <2>3. M.cur # t \/ M.proc[t].stat = "SONPROC"
    BY <1>10, <1>12
  <2>4. /\ L \in Tables /\ Consistent(L) /\ L.cur = M.cur /\ Added(M.proc[t], L.proc[t], s)
        /\ \A q \in Procs \ {t} : Woken(M.proc[q], L.proc[q])
    BY <1>3, <1>14, <2>1, <2>3, SigaddqFacts
  <2>5. SInv'
    BY <1>2, <1>4, <1>9, <1>10, <1>12, <2>2, <2>4, PostStep DEF Went
  <2>6. \A q \in Procs : Holds(M.proc[q], L.proc[q])
    BY <2>4, HoldsFacts
  <2>7. Holds(k.proc[p], L.proc[p])
    BY <1>2, HoldsFacts
  <2> QED
    BY <1>10, <2>2, <2>5, <2>6, <2>7, HeldBut
<1>16. CASE thr[p].inner = "ssig"
  <2> DEFINE z == M.proc[t]
             f == [z EXCEPT !.flag = @ \ {"SPROCIO"}]
  <2>1. t # p /\ z \in ProcRecord /\ Fine(t, z, thr[t]) /\ Rests(z, thr[t])
    BY <1>3, <1>10, <1>13, <1>14, <1>16, TablesFacts DEF Settled, Off
  <2>2. [M EXCEPT !.proc[t].flag = @ \ {"SPROCIO"}] = Edit(M, t, f)
    BY <1>14, TablesFacts DEF Edit
  <2>3. /\ f \in ProcRecord
        /\ /\ f.stat = z.stat /\ f.flag = z.flag \ {"SPROCIO"} /\ f.wchan = z.wchan
           /\ f.wcode = z.wcode /\ f.parent = z.parent /\ f.sig = z.sig /\ f.sigq = z.sigq
           /\ f.cursig = z.cursig /\ f.hold = z.hold /\ f.ignore = z.ignore
           /\ f.caught = z.caught /\ f.sigmask = z.sigmask
    BY <2>1 DEF ProcRecord
  <2> HIDE DEF f, z
  <2>4. PICK l : l = Locked(f)
    OBVIOUS
  <2>5. /\ l.stat = z.stat /\ l.flag = z.flag \cup {"SPROCIO"} /\ l.wchan = z.wchan
        /\ l.wcode = z.wcode /\ l.parent = z.parent /\ l.sig = z.sig /\ l.sigq = z.sigq
        /\ l.cursig = z.cursig /\ l.hold = z.hold /\ l.ignore = z.ignore
        /\ l.caught = z.caught /\ l.sigmask = z.sigmask
    BY <2>3, <2>4 DEF ProcRecord, Locked
  <2>6. Fine(t, l, thr[t])
    BY <2>1, <2>5 DEF Fine
  <2>7. Rests(l, thr[t])
    BY <2>1, <2>5 DEF Rests
  <2>8. Adjusted(z, f)
    BY <2>3 DEF Adjusted
  <2>9. PICK L : L = PIOCSSIGStart(Edit(M, t, f), t)
    OBVIOUS
  <2>10. k' = L
    BY <1>9, <1>13, <1>16, <2>2, <2>9
  <2>11. /\ Settled(L, thr) /\ L.cur = p /\ Holds(M.proc[t], L.proc[t])
         /\ \A q \in Procs \ {t} : Woken(M.proc[q], L.proc[q])
    <3>1. Fine(t, Locked(f), thr[t]) /\ Rests(Locked(f), thr[t]) /\ M.proc[t] = z
      BY <2>4, <2>6, <2>7 DEF z
    <3> QED
      BY <1>10, <1>12, <2>1, <2>8, <2>9, <3>1, SsigStarts
  <2>12. L.proc[p] = M.proc[p]
    BY <1>12, <2>1, <2>11 DEF Woken
  <2>13. SInv'
    BY <1>2, <1>4, <1>9, <1>12, <2>10, <2>11, <2>12, Continues DEF Went
  <2>14. \A q \in Procs : Holds(M.proc[q], L.proc[q])
    BY <2>11, HoldsFacts
  <2>15. Holds(k.proc[p], L.proc[p])
    BY <1>2, HoldsFacts
  <2> QED
    BY <1>10, <2>10, <2>13, <2>14, <2>15, HeldBut
<1> QED
  BY <1>3, <1>15, <1>16

\* sleep(), by its three ways out: a wait that no signal ends, a look at the
\* signals that are there, and a wait that signals end.
Nwake(Q, p) == [Q EXCEPT !.proc[p].flag = @ \cup {"SNWAKE"}]
Looks(Q, p, disp) ==
    [Q EXCEPT !.proc[p].flag = (@ \ {"SNWAKE", "SNOSTOP"}) \cup {"SASLEEP"}
                                 \cup (IF disp = "nostop" THEN {"SNOSTOP"} ELSE {}),
              !.proc[p].abort = FALSE]

WaysOut(Q, p, disp, ret) ==
    \/ /\ k' = LeaveProcessor(Nwake(Q, p), p)
       /\ thr' = [thr EXCEPT ![p].pc = "nwake", ![p].ret = ret]
       /\ hi' = FALSE
    \/ /\ k' = [Looks(Q, p, disp) EXCEPT !.proc[p].evpend = FALSE]
       /\ thr' = [thr EXCEPT ![p].pc = "issig", ![p].ctx = "pre", ![p].ret = ret]
       /\ hi' = TRUE
    \/ /\ ~WorthLooking(Looks(Q, p, disp).proc[p])
       /\ k' = LeaveProcessor([Looks(Q, p, disp) EXCEPT !.proc[p].flag = @ \ {"SASLEEP"}], p)
       /\ thr' = [thr EXCEPT ![p].pc = "asleep", ![p].ret = ret]
       /\ hi' = FALSE

LEMMA SleepWays ==
    ASSUME NEW p \in Procs, NEW chan, NEW disp, NEW ret, Sleep(p, k, chan, disp, ret), NEW Q,
           Q = QueueSleeper(k, p, chan)
    PROVE  WaysOut(Q, p, disp, ret)
<1> DEFINE worth(E) == WorthLooking(Looks(E, p, disp).proc[p])
<1>1. CASE disp = "nwake"
  BY <1>1 DEF Sleep, Nwake, WaysOut
<1>2. CASE disp # "nwake" /\ worth(QueueSleeper(k, p, chan))
  BY <1>2, SMTT(30) DEF Sleep, Looks, WaysOut
<1>3. CASE disp # "nwake" /\ ~worth(QueueSleeper(k, p, chan))
  BY <1>3 DEF Sleep, Looks, WaysOut
<1> QED
  BY <1>1, <1>2, <1>3

LEMMA SleepHeld ==
    ASSUME SInv, NEW p \in Procs, k.cur = p, NEW chan, NEW disp, NEW ret, Sleep(p, k, chan, disp, ret)
    PROVE  Held
<1>1. k \in Tables /\ k.proc[p].stat # "SSTOP"
  BY Here
<1>2. PICK Q : Q = QueueSleeper(k, p, chan)
  OBVIOUS
<1>3. Framed(p, Q)
  BY <1>1, <1>2, FramedFirst, FramedSteps
<1>4. PICK A : A = Nwake(Q, p)
  OBVIOUS
<1>5. PICK B : B = Looks(Q, p, disp)
  OBVIOUS
<1>6. Framed(p, A) /\ Framed(p, B)
  BY <1>3, <1>4, <1>5 DEF Framed, Nwake, Looks
<1>7. PICK C : C = [B EXCEPT !.proc[p].flag = @ \ {"SASLEEP"}]
  OBVIOUS
<1>8. PICK D : D = [B EXCEPT !.proc[p].evpend = FALSE]
  OBVIOUS
<1>9. Framed(p, C) /\ Framed(p, D)
  BY <1>6, <1>7, <1>8 DEF Framed
<1>10. WaysOut(Q, p, disp, ret)
  BY <1>2, SleepWays
<1>11. k' = LeaveProcessor(A, p) \/ k' = D \/ k' = LeaveProcessor(C, p)
  BY <1>4, <1>5, <1>7, <1>8, <1>10 DEF WaysOut
<1>12. Framed(p, k')
  BY <1>6, <1>9, <1>11, FramedSteps
<1> QED
  BY <1>1, <1>12, FramedHeld

\* The thread of a process that sleep() has brought to c.
Sleeps(t, c, x, ret) == [pc |-> c, ctx |-> x, ret |-> ret, inner |-> t.inner, tgt |-> t.tgt, sg |-> t.sg]

Except3(t, c, x, ret) == [t EXCEPT !.pc = c, !.ctx = x, !.ret = ret]
Except2(t, c, ret)    == [t EXCEPT !.pc = c, !.ret = ret]

LEMMA SleepsRecord ==
    ASSUME NEW t \in Threads, NEW c, NEW x, NEW ret
    PROVE  /\ Except3(t, c, x, ret) = Sleeps(t, c, x, ret)
           /\ x = t.ctx => Except2(t, c, ret) = Sleeps(t, c, x, ret)
<1>1. ASSUME NEW u, u = [t EXCEPT !.pc = c, !.ctx = x, !.ret = ret]
      PROVE  u = Sleeps(t, c, x, ret)
  BY <1>1 DEF Threads, Sleeps
<1>2. ASSUME NEW u, u = [t EXCEPT !.pc = c, !.ret = ret], x = t.ctx
      PROVE  u = Sleeps(t, c, x, ret)
  BY <1>2 DEF Threads, Sleeps
<1> QED
  BY <1>1, <1>2 DEF Except3, Except2

LEMMA SleepsFacts ==
    ASSUME NEW th \in [Procs -> Threads], NEW p \in Procs, NEW c \in Places,
           NEW x \in {"pre", "post", "trap"}, NEW ret \in {"kernel", "waitid", "wstop", "exit2"},
           NEW u, u = Sleeps(th[p], c, x, ret)
    PROVE  /\ u \in Threads /\ u.pc = c /\ u.ctx = x /\ u.ret = ret /\ u.tgt = th[p].tgt
<1>1. /\ th[p] \in Threads
  OBVIOUS
<1>2. /\ th[p].inner \in {"kill", "stop", "cont", "exit", "ssig"} /\ th[p].tgt \in Procs \cup {NoProc}
      /\ th[p].sg \in Sigs \cup {"none"}
  BY <1>1 DEF Threads
<1>3. u \in Threads
  BY <1>2 DEF Threads, Sleeps, Places
<1> QED
  BY <1>3 DEF Sleeps

LEMMA OwnKeeps ==
    ASSUME NEW K, NEW th, NEW p \in Procs, Settled(K, th), K.cur = p,
           K.proc[p].stat \in {"SONPROC", "SSLEEP"}, NEW r, Keeps(K.proc[p], r), NEW L, L = Edit(K, p, r)
    PROVE  /\ Settled(L, th) /\ L.cur = p /\ L.proc[p] = r
           /\ \A q \in Procs \ {p} : L.proc[q] = K.proc[q]
           /\ \A t : Hears(p, K, t) => Hears(p, L, t)
<1>1. /\ r \in ProcRecord /\ r.stat = K.proc[p].stat /\ r.wchan = K.proc[p].wchan
      /\ r.parent = K.proc[p].parent /\ r.wcode \in {K.proc[p].wcode, "none"}
  BY DEF Keeps
<1>2. Settled(K, th) /\ K.cur = p /\ K.proc[p].stat \in {"SONPROC", "SSLEEP"} /\ L = Edit(K, p, r)
  OBVIOUS
<1> QED
  BY ONLY <1>1, <1>2, p \in Procs, OwnEdit, SMTT(30)

LEMMA SleepStep ==
    ASSUME SInv, NEW p \in Procs, k.cur = p, k.proc[p].stat = "SONPROC",
           k.proc[p].cursig \notin Sigs \ PrSigs, NEW chan \in Chans,
           NEW disp, disp = "nostop" => "nostop" \in Disps,
           NEW ret \in {"kernel", "waitid", "wstop", "exit2"},
           \A o \in Procs : chan = <<"proc", o>> => o = p /\ "wait" \in SysCalls[p],
           ret = "waitid" => /\ "wait" \in SysCalls[p] /\ chan = <<"proc", p>> /\ Children(k, p) # {}
                             /\ \A c \in Children(k, p) : k.proc[c].wcode \notin WaitFor,
           ret = "wstop" => /\ thr[p].tgt \in Procs /\ chan = <<"trace", thr[p].tgt>>
                            /\ AliveRec(k.proc[thr[p].tgt]) /\ ~StoppedByProc(k.proc[thr[p].tgt]),
           Sleep(p, k, chan, disp, ret)
    PROVE  SInv'
<1> DEFINE x == k.proc[p]
<1>1. /\ Settled(k, thr) /\ k \in Tables /\ thr \in [Procs -> Threads] /\ thr[p] \in Threads
      /\ x \in ProcRecord /\ Fine(p, x, thr[p])
  BY Here
<1>2. PICK Q : Q = QueueSleeper(k, p, chan)
  OBVIOUS
<1> DEFINE y == Q.proc[p]
           fa == (y.flag \ {"SNWAKE", "SNOSTOP"}) \cup {"SASLEEP"}
                   \cup (IF disp = "nostop" THEN {"SNOSTOP"} ELSE {})
           n == [y EXCEPT !.flag = @ \cup {"SNWAKE"}]
           a == [y EXCEPT !.flag = fa, !.abort = FALSE]
           b == [a EXCEPT !.evpend = FALSE]
           c == [a EXCEPT !.flag = @ \ {"SASLEEP"}]
<1>3. /\ Settled(Q, thr) /\ Q.cur = p /\ Q \in Tables /\ y \in ProcRecord
      /\ y = Asleep(x, chan)
      /\ \A q \in Procs : QuietStop(k.proc[q], Q.proc[q]) /\ QuietChild(k.proc[q], Q.proc[q])
  BY <1>1, <1>2, SleptSettled
<1>4. /\ /\ y.stat = "SSLEEP" /\ y.flag = x.flag /\ y.wchan = chan /\ y.wcode = x.wcode
         /\ y.parent = x.parent /\ y.sig = x.sig /\ y.sigq = x.sigq /\ y.cursig = x.cursig
         /\ y.hold = x.hold /\ y.ignore = x.ignore /\ y.caught = x.caught
         /\ y.sigmask = x.sigmask
  BY <1>1, <1>3 DEF ProcRecord, Asleep
<1>5. ASSUME NEW u \in Threads, u.ret = ret, u.tgt = thr[p].tgt
      PROVE  Hears(p, Q, u)
  <2>1. ASSUME ret = "wstop"
        PROVE  AliveRec(Q.proc[thr[p].tgt]) /\ ~StoppedByProc(Q.proc[thr[p].tgt])
    BY <1>3, <2>1 DEF QuietStop
  <2>2. ASSUME ret = "waitid"
        PROVE  Children(Q, p) # {} /\ \A o \in Children(Q, p) : Q.proc[o].wcode \notin WaitFor
    <3>1. Children(Q, p) = Children(k, p)
      BY <1>3 DEF Children, QuietChild
    <3>2. \A o \in Children(k, p) : Q.proc[o].wcode \in {k.proc[o].wcode, "none"}
      BY <1>3 DEF Children, QuietChild
    <3>3. "none" \notin WaitFor
      BY SleepSigAssumption DEF SleepSigAssumption
    <3> QED
      BY <2>2, <3>1, <3>2, <3>3
  <2> QED
    BY <1>4, <1>5, <2>1, <2>2 DEF Hears
<1>6. /\ n \in ProcRecord
      /\ /\ n.stat = y.stat /\ n.flag = y.flag \cup {"SNWAKE"} /\ n.wchan = y.wchan
         /\ n.wcode = y.wcode /\ n.parent = y.parent /\ n.sig = y.sig /\ n.sigq = y.sigq
         /\ n.cursig = y.cursig /\ n.hold = y.hold /\ n.ignore = y.ignore
         /\ n.caught = y.caught /\ n.sigmask = y.sigmask
  BY <1>3 DEF ProcRecord, Flags
<1>7. /\ a \in ProcRecord
      /\ /\ a.stat = y.stat /\ a.flag = fa /\ a.wchan = y.wchan /\ a.wcode = y.wcode
         /\ a.parent = y.parent /\ a.sig = y.sig /\ a.sigq = y.sigq /\ a.cursig = y.cursig
         /\ a.hold = y.hold /\ a.ignore = y.ignore /\ a.caught = y.caught
         /\ a.sigmask = y.sigmask
  BY <1>3 DEF ProcRecord, Flags
<1>8. Nwake(Q, p) = Edit(Q, p, n)
  BY <1>3, TablesFacts DEF Edit, Nwake
<1>9. Looks(Q, p, disp) = Edit(Q, p, a)
  BY <1>3, TablesFacts DEF Edit, Looks
<1> HIDE DEF n, a
<1>10. /\ b \in ProcRecord
       /\ /\ b.stat = a.stat /\ b.flag = a.flag /\ b.wchan = a.wchan /\ b.wcode = a.wcode
          /\ b.parent = a.parent /\ b.sig = a.sig /\ b.sigq = a.sigq /\ b.cursig = a.cursig
          /\ b.hold = a.hold /\ b.ignore = a.ignore /\ b.caught = a.caught
          /\ b.sigmask = a.sigmask
  BY <1>7 DEF ProcRecord
<1>11. /\ c \in ProcRecord
       /\ /\ c.stat = a.stat /\ c.flag = a.flag \ {"SASLEEP"} /\ c.wchan = a.wchan
          /\ c.wcode = a.wcode /\ c.parent = a.parent /\ c.sig = a.sig /\ c.sigq = a.sigq
          /\ c.cursig = a.cursig /\ c.hold = a.hold /\ c.ignore = a.ignore
          /\ c.caught = a.caught /\ c.sigmask = a.sigmask
  BY <1>7 DEF ProcRecord
<1>12. /\ [Edit(Q, p, a) EXCEPT !.proc[p].evpend = FALSE] = Edit(Q, p, b)
       /\ [Edit(Q, p, a) EXCEPT !.proc[p].flag = @ \ {"SASLEEP"}] = Edit(Q, p, c)
       /\ Edit(Q, p, a).proc[p] = a
  <2>1. PICK A : A = Edit(Q, p, a)
    OBVIOUS
  <2>2. A \in Tables /\ A.proc[p] = a
    BY <1>3, <1>7, <2>1, TablesFacts DEF Edit, Tables
  <2>3. /\ [A EXCEPT !.proc[p].evpend = FALSE] = Edit(A, p, b)
        /\ [A EXCEPT !.proc[p].flag = @ \ {"SASLEEP"}] = Edit(A, p, c)
    BY <2>2, TablesFacts DEF Edit
  <2> HIDE DEF b, c
  <2> QED
    BY <1>3, <2>1, <2>2, <2>3, EditFacts
<1> HIDE DEF b, c
<1>13. \A r \in {n, b, c} : Keeps(y, r)
  BY <1>6, <1>7, <1>10, <1>11 DEF Keeps
<1>14. ASSUME NEW r \in {n, b, c}, NEW M, M = Edit(Q, p, r)
       PROVE  /\ Settled(M, thr) /\ M.cur = p /\ M.proc[p] = r
              /\ \A t : Hears(p, Q, t) => Hears(p, M, t)
  <2>1. Keeps(Q.proc[p], r) /\ Q.proc[p].stat = "SSLEEP"
    BY <1>4, <1>13, <1>14
  <2> QED
    BY <1>3, <1>14, <2>1, OwnKeeps, SMTT(30)
<1>15. ASSUME NEW r \in {n, b, c}, NEW u \in Threads, u.ret = ret, u.tgt = thr[p].tgt,
              u.pc \in {"nwake", "issig", "asleep"}
       PROVE  Fine(p, r, u)
  <2>1. /\ /\ r.stat = y.stat /\ r.flag = r.flag /\ r.wchan = y.wchan /\ r.wcode = y.wcode
           /\ r.parent = y.parent /\ r.sig = y.sig /\ r.sigq = y.sigq /\ r.cursig = y.cursig
           /\ r.hold = y.hold /\ r.ignore = y.ignore /\ r.caught = y.caught
           /\ r.sigmask = y.sigmask
    BY <1>6, <1>7, <1>10, <1>11, <1>15
  <2>2. "SNOSTOP" \in r.flag => "nostop" \in Disps
    <3>1. "SNOSTOP" \in x.flag => "nostop" \in Disps
      BY <1>1 DEF Fine
    <3> QED
      BY <1>4, <1>6, <1>7, <1>10, <1>11, <1>15, <3>1
  <2>3. x.cursig \notin Sigs \ PrSigs /\ x.stat = "SONPROC"
    OBVIOUS
  <2> HIDE DEF x, y
  <2> QED
    BY <1>1, <1>4, <1>15, <2>1, <2>2, <2>3 DEF Fine
<1>16. \/ /\ k' = LeaveProcessor(Edit(Q, p, n), p)
          /\ thr' = [thr EXCEPT ![p].pc = "nwake", ![p].ret = ret]
          /\ hi' = FALSE
       \/ /\ k' = Edit(Q, p, b)
          /\ thr' = [thr EXCEPT ![p].pc = "issig", ![p].ctx = "pre", ![p].ret = ret]
          /\ hi' = TRUE
       \/ /\ ~WorthLooking(a)
          /\ k' = LeaveProcessor(Edit(Q, p, c), p)
          /\ thr' = [thr EXCEPT ![p].pc = "asleep", ![p].ret = ret]
          /\ hi' = FALSE
  <2>1. WaysOut(Q, p, disp, ret)
    BY <1>2, SleepWays
  <2> QED
    BY ONLY <2>1, <1>8, <1>9, <1>12 DEF WaysOut
<1> HIDE DEF x, y
<1>20. PICK cx \in {"pre", "post", "trap"} : cx = thr[p].ctx
  BY <1>1 DEF Threads
<1>17. CASE /\ k' = LeaveProcessor(Edit(Q, p, n), p)
            /\ thr' = [thr EXCEPT ![p].pc = "nwake", ![p].ret = ret]
            /\ hi' = FALSE
  <2>1. PICK M : M = Edit(Q, p, n)
    OBVIOUS
  <2>2. Settled(M, thr) /\ M.cur = p /\ M.proc[p] = n
    BY <1>14, <2>1
  <2>3. PICK u : u = Sleeps(thr[p], "nwake", cx, ret)
    OBVIOUS
  <2>4. u \in Threads /\ u.pc = "nwake" /\ u.ret = ret /\ u.tgt = thr[p].tgt
    <3>1. PICK m \in Places : m = "nwake"
      BY DEF Places
    <3>2. u = Sleeps(thr[p], m, cx, ret) /\ cx \in {"pre", "post", "trap"} /\ thr \in [Procs -> Threads]
      BY <1>1, <1>20, <2>3, <3>1
    <3>3. u \in Threads /\ u.pc = m /\ u.ret = ret /\ u.tgt = thr[p].tgt
      BY ONLY <3>2, p \in Procs, m \in Places, ret \in {"kernel", "waitid", "wstop", "exit2"}, SleepsFacts
    <3> QED
      BY <3>1, <3>3
  <2>5. thr' = Becomes(thr, p, u)
    <3>1. thr' = Becomes(thr, p, Except2(thr[p], "nwake", ret))
      BY <1>1, <1>17 DEF Becomes, Except2
    <3>2. Except2(thr[p], "nwake", ret) = Sleeps(thr[p], "nwake", cx, ret)
      BY <1>1, <1>20, SleepsRecord
    <3> QED
      BY ONLY <2>3, <3>1, <3>2
  <2>6. Fine(p, n, u) /\ Rests(n, u) /\ n.stat # "SONPROC"
    BY <1>4, <1>6, <1>15, <2>4 DEF Rests, Running
  <2>7. PICK L : L = LeaveProcessor(M, p)
    OBVIOUS
  <2>8. InvAt(L, Becomes(thr, p, u), FALSE)
    BY <1>1, <2>2, <2>4, <2>6, <2>7, Leaves
  <2> QED
    BY <1>17, <2>1, <2>5, <2>7, <2>8, Arrives
<1>18. CASE /\ k' = Edit(Q, p, b)
            /\ thr' = [thr EXCEPT ![p].pc = "issig", ![p].ctx = "pre", ![p].ret = ret]
            /\ hi' = TRUE
  <2>1. PICK M : M = Edit(Q, p, b)
    OBVIOUS
  <2>2. Settled(M, thr) /\ M.cur = p /\ M.proc[p] = b /\ \A t : Hears(p, Q, t) => Hears(p, M, t)
    BY <1>14, <2>1
  <2>3. PICK u : u = Sleeps(thr[p], "issig", "pre", ret)
    BY SMTT(30)
  <2>4. u \in Threads /\ u.pc = "issig" /\ u.ctx = "pre" /\ u.ret = ret /\ u.tgt = thr[p].tgt
    BY <1>1, <1>20, <2>3, SleepsFacts, SMTT(30) DEF Places
  <2>5. thr' = Becomes(thr, p, u)
    <3>1. thr' = Becomes(thr, p, Except3(thr[p], "issig", "pre", ret))
      BY <1>1, <1>18 DEF Becomes, Except3
    <3>2. Except3(thr[p], "issig", "pre", ret) = Sleeps(thr[p], "issig", "pre", ret)
      BY <1>1, SleepsRecord
    <3> QED
      BY ONLY <2>3, <3>1, <3>2
  <2>6. Fine(p, b, u)
    BY <1>15, <2>4
  <2>7. On(p, M, u, TRUE)
    <3>1. b.stat = "SSLEEP" /\ b.wchan # NoChan /\ "SNWAKE" \notin b.flag
      BY <1>4, <1>7, <1>10, ChanFacts
    <3>2. b.cursig \in stopdefault \ PrSigs => "KILL" \notin b.sig
      BY <1>4, <1>7, <1>10 DEF x, stopdefault
    <3>3. Hears(p, M, u)
      BY <1>5, <2>2, <2>4
    <3> QED
      BY <2>2, <2>4, <3>1, <3>2, <3>3 DEF On
  <2>8. InvAt(M, Becomes(thr, p, u), TRUE)
    BY <1>1, <2>2, <2>4, <2>6, <2>7, Stays
  <2> QED
    BY <1>18, <2>1, <2>5, <2>8, Arrives
<1>19. CASE /\ ~WorthLooking(a)
            /\ k' = LeaveProcessor(Edit(Q, p, c), p)
            /\ thr' = [thr EXCEPT ![p].pc = "asleep", ![p].ret = ret]
            /\ hi' = FALSE
  <2>1. PICK M : M = Edit(Q, p, c)
    OBVIOUS
  <2>2. Settled(M, thr) /\ M.cur = p /\ M.proc[p] = c /\ \A t : Hears(p, Q, t) => Hears(p, M, t)
    BY <1>14, <2>1
  <2>3. PICK u : u = Sleeps(thr[p], "asleep", cx, ret)
    OBVIOUS
  <2>4. u \in Threads /\ u.pc = "asleep" /\ u.ret = ret /\ u.tgt = thr[p].tgt
    <3>1. PICK m \in Places : m = "asleep"
      BY DEF Places
    <3>2. u = Sleeps(thr[p], m, cx, ret) /\ cx \in {"pre", "post", "trap"} /\ thr \in [Procs -> Threads]
      BY <1>1, <1>20, <2>3, <3>1
    <3>3. u \in Threads /\ u.pc = m /\ u.ret = ret /\ u.tgt = thr[p].tgt
      BY ONLY <3>2, p \in Procs, m \in Places, ret \in {"kernel", "waitid", "wstop", "exit2"}, SleepsFacts
    <3> QED
      BY <3>1, <3>3
  <2>5. thr' = Becomes(thr, p, u)
    <3>1. thr' = Becomes(thr, p, Except2(thr[p], "asleep", ret))
      BY <1>1, <1>19 DEF Becomes, Except2
    <3>2. Except2(thr[p], "asleep", ret) = Sleeps(thr[p], "asleep", cx, ret)
      BY <1>1, <1>20, SleepsRecord
    <3> QED
      BY ONLY <2>3, <3>1, <3>2
  <2>6. Fine(p, c, u) /\ c.stat # "SONPROC"
    BY <1>4, <1>7, <1>11, <1>15, <2>4
  <2>7. Rests(c, u)
    <3>1. "SNWAKE" \notin fa
      OBVIOUS
    <3>2. c.cursig = "none" /\ c.sig = {} /\ "SPRSTOP" \notin c.flag /\ "SNWAKE" \notin c.flag
      BY <1>7, <1>11, <1>19, <3>1 DEF WorthLooking
    <3> QED
      BY <2>4, <3>2 DEF Rests, Running
  <2>8. Hears(p, M, u)
    BY <1>5, <2>2, <2>4
  <2>9. PICK L : L = LeaveProcessor(M, p)
    OBVIOUS
  <2>10. InvAt(L, Becomes(thr, p, u), FALSE)
    BY <1>1, <2>2, <2>4, <2>6, <2>7, <2>8, <2>9, Leaves
  <2> QED
    BY <1>19, <2>1, <2>5, <2>9, <2>10, Arrives
<1> QED
  BY <1>16, <1>17, <1>18, <1>19

LEMMA SleepCallStep ==
    ASSUME SInv, NEW p \in Procs, SleepCall(p)
    PROVE  SInv'
<1>1. /\ k.cur = p /\ thr[p].pc \in {"sysent", "kernel"} /\ k.proc[p].stat = "SONPROC"
      /\ Fine(p, k.proc[p], thr[p])
  BY Calls DEF SleepCall
<1>2. PICK d \in Devs, disp \in Disps : Sleep(p, k, <<"dev", d>>, disp, "kernel")
  BY DEF SleepCall
<1>3. PICK chan \in Chans : chan = <<"dev", d>>
  BY ChanFacts
<1>4. \A o \in Procs : chan # <<"proc", o>>
  BY <1>3
<1>5. k.proc[p].cursig \notin Sigs \ PrSigs
  BY <1>1 DEF Fine, Asked
<1>6. PICK ret \in {"kernel", "waitid", "wstop", "exit2"} : ret = "kernel"
  OBVIOUS
<1>7. Sleep(p, k, chan, disp, ret)
  BY <1>2, <1>3, <1>6
<1> QED
  BY <1>1, <1>4, <1>5, <1>6, <1>7, SleepStep

LEMMA PIOCWSTOPStep ==
    ASSUME SInv, NEW d \in Procs, PIOCWSTOP(d)
    PROVE  SInv'
<1> DEFINE t == thr[d].tgt
<1>1. k.cur = d /\ thr[d].pc = "wstop"
  BY DEF PIOCWSTOP, At
<1>2. Settled(k, thr) /\ hi \in BOOLEAN /\ Fine(d, k.proc[d], thr[d]) /\ k.proc[d].stat = "SONPROC"
  BY <1>1, Here, RunsHere
<1>3. t \in Procs /\ k.proc[d].cursig \notin Sigs \ PrSigs
  BY <1>1, <1>2 DEF Fine, Asked
<1>4. CASE Live(t) /\ ~StoppedByProc(Rec(t))
  <2>1. Sleep(d, k, <<"trace", t>>, "int", "wstop")
    BY <1>4 DEF PIOCWSTOP
  <2>2. PICK chan \in Chans : chan = <<"trace", t>>
    BY <1>3, ChanFacts
  <2>3. \A o \in Procs : chan # <<"proc", o>>
    BY <2>2
  <2>4. PICK ret \in {"kernel", "waitid", "wstop", "exit2"} : ret = "wstop"
    OBVIOUS
  <2>5. PICK disp : disp = "int"
    OBVIOUS
  <2>6. Sleep(d, k, chan, disp, ret)
    BY <2>1, <2>2, <2>4, <2>5
  <2>7. AliveRec(k.proc[t]) /\ ~StoppedByProc(k.proc[t])
    BY <1>4 DEF Live, Rec, AliveRec
  <2> QED
    BY <1>1, <1>2, <1>3, <2>2, <2>3, <2>4, <2>5, <2>6, <2>7, SleepStep
<1>5. CASE ~(Live(t) /\ ~StoppedByProc(Rec(t)))
  <2>1. PICK u : Went(thr[d], u, "kernel") /\ [thr EXCEPT ![d].pc = "kernel"] = Becomes(thr, d, u)
    BY GoesTo DEF Places
  <2>2. k' = k /\ thr' = Becomes(thr, d, u) /\ hi' = hi
    BY <1>5, <2>1 DEF PIOCWSTOP, Step, Goto
  <2>3. Fine(d, k.proc[d], u)
    BY <1>1, <1>2, <2>1 DEF Fine, Went, Asked
  <2> QED
    BY <1>1, <1>2, <2>1, <2>2, <2>3, OwnGoes DEF Went
<1> QED
  BY <1>4, <1>5

LEMMA ExitReleaseStep ==
    ASSUME SInv, NEW p \in Procs, ExitRelease(p)
    PROVE  SInv'
<1>1. k.cur = p /\ thr[p].pc = "exit1"
  BY DEF ExitRelease, At
<1>2. /\ Settled(k, thr) /\ hi \in BOOLEAN /\ Fine(p, k.proc[p], thr[p]) /\ k.proc[p].stat = "SONPROC"
      /\ thr \in [Procs -> Threads]
  BY <1>1, Here, RunsHere
<1>3. k.proc[p].cursig \notin Sigs \ PrSigs
  BY <1>1, <1>2 DEF Fine, Asked
<1>4. PICK u : Went(thr[p], u, "exit2") /\ [thr EXCEPT ![p].pc = "exit2"] = Becomes(thr, p, u)
  BY GoesTo DEF Places
<1>5. Fine(p, k.proc[p], u) /\ u \in Threads /\ u.pc = "exit2"
  BY <1>1, <1>2, <1>4 DEF Fine, Went, Asked
<1>6. ASSUME NEW d \in Devs, NEW disp \in Disps \ {"nostop"}, Sleep(p, k, <<"dev", d>>, disp, "exit2")
      PROVE  SInv'
  <2>1. PICK chan \in Chans : chan = <<"dev", d>>
    BY ChanFacts
  <2>2. \A o \in Procs : chan # <<"proc", o>>
    BY <2>1
  <2>3. PICK ret \in {"kernel", "waitid", "wstop", "exit2"} : ret = "exit2"
    OBVIOUS
  <2>4. Sleep(p, k, chan, disp, ret)
    BY <1>6, <2>1, <2>3
  <2> QED
    BY <1>1, <1>2, <1>3, <2>2, <2>3, <2>4, SleepStep
<1>7. CASE Step(p, k, "exit2")
  <2>1. k' = k /\ thr' = Becomes(thr, p, u) /\ hi' = hi
    BY <1>4, <1>7 DEF Step, Goto
  <2> QED
    BY <1>1, <1>2, <1>5, <2>1, OwnGoes
<1>8. CASE Yield(p, setbackdq(k, p), "exit2")
  <2>1. k' = LeaveProcessor(setbackdq(k, p), p) /\ thr' = Becomes(thr, p, u) /\ hi' = FALSE
    BY <1>4, <1>8 DEF Yield, Goto
  <2>2. PICK L : L = LeaveProcessor(setbackdq(k, p), p)
    OBVIOUS
  <2>3. u.pc \notin Running /\ u.pc # "asleep"
    BY <1>5 DEF Running
  <2>4. InvAt(L, Becomes(thr, p, u), FALSE)
    BY <1>1, <1>2, <1>5, <2>2, <2>3, Requeues
  <2> QED
    BY <2>1, <2>2, <2>4, Arrives
<1> QED
  BY <1>6, <1>7, <1>8 DEF ExitRelease

\* The steps of the running process that may put it to sleep.
LEMMA SleepsHeld ==
    ASSUME SInv, NEW p \in Procs, SleepCall(p) \/ PIOCWSTOP(p) \/ ExitRelease(p)
    PROVE  Held
<1>1. k.cur = p
  BY DEF SleepCall, PIOCWSTOP, ExitRelease, Does, InSysCall, At
<1>2. \/ \E chan, disp, ret : Sleep(p, k, chan, disp, ret)
      \/ k' = k \/ k' = LeaveProcessor(setbackdq(k, p), p)
  BY DEF SleepCall, PIOCWSTOP, ExitRelease, Step, Yield
<1>3. CASE \E chan, disp, ret : Sleep(p, k, chan, disp, ret)
  BY <1>1, <1>3, SleepHeld
<1>4. CASE k' = k
  BY <1>4 DEF Held, Holds
<1>5. CASE k' = LeaveProcessor(setbackdq(k, p), p)
  <2>1. k \in Tables /\ k.proc[p].stat # "SSTOP"
    BY <1>1, Here
  <2>2. Framed(p, k')
    BY <1>5, <2>1, FramedFirst, FramedSteps
  <2> QED
    BY <2>1, <2>2, FramedHeld
<1> QED
  BY <1>2, <1>3, <1>4, <1>5

LEMMA DispatchHeld ==
    ASSUME SInv, NEW p \in Procs, Dispatch(p)
    PROVE  Held
<1>1. k \in Tables /\ Consistent(k) /\ OnQueue(k.dispq, p) /\ k' = EnterProcessor(k, p)
  BY DEF SInv, InvAt, Settled, Dispatch
<1>2. k.proc[p].stat = "SRUN"
  BY <1>1 DEF Consistent
<1>3. Framed(p, k')
  BY <1>1, FramedFirst, FramedSteps
<1> QED
  BY <1>2, <1>3, FramedHeld

LEMMA WaitidStep ==
    ASSUME SInv, NEW p \in Procs, Waitid(p)
    PROVE  SInv' /\ Held
<1> DEFINE ready == {c \in Children(k, p) : Rec(c).wcode \in WaitFor}
<1>1. k.cur = p /\ thr[p].pc = "waitid"
  BY DEF Waitid, At
<1>2. /\ Settled(k, thr) /\ hi \in BOOLEAN /\ Fine(p, k.proc[p], thr[p]) /\ k.proc[p].stat = "SONPROC"
      /\ k \in Tables /\ Consistent(k) /\ k.proc \in [Procs -> ProcRecord]
  BY <1>1, Here, RunsHere
<1>3. "wait" \in SysCalls[p] /\ k.proc[p].cursig \notin Sigs \ PrSigs
  BY <1>1, <1>2 DEF Fine, Asked
<1>4. PICK u : Went(thr[p], u, "kernel") /\ [thr EXCEPT ![p].pc = "kernel"] = Becomes(thr, p, u)
  BY GoesTo DEF Places
<1>5. Fine(p, k.proc[p], u) /\ u \in Threads /\ u.pc = "kernel"
  BY <1>1, <1>2, <1>4 DEF Fine, Went, Asked
<1>6. CASE Children(k, p) = {}
  <2>1. k' = k /\ thr' = Becomes(thr, p, u) /\ hi' = hi
    BY <1>4, <1>6 DEF Waitid, Step, Goto
  <2>2. Held
    BY <2>1 DEF Held, Holds
  <2> QED
    BY <1>1, <1>2, <1>5, <2>1, <2>2, OwnGoes
<1>7. CASE Children(k, p) # {} /\ ready = {}
  <2>1. Sleep(p, k, <<"proc", p>>, "int", "waitid")
    BY <1>7 DEF Waitid
  <2>2. PICK chan \in Chans : chan = <<"proc", p>>
    BY ChanFacts
  <2>3. \A o \in Procs : chan = <<"proc", o>> => o = p /\ "wait" \in SysCalls[p]
    BY <1>3, <2>2
  <2>4. PICK ret \in {"kernel", "waitid", "wstop", "exit2"} : ret = "waitid"
    OBVIOUS
  <2>5. PICK disp : disp = "int"
    OBVIOUS
  <2>6. Sleep(p, k, chan, disp, ret)
    BY <2>1, <2>2, <2>4, <2>5
  <2>7. \A c \in Children(k, p) : k.proc[c].wcode \notin WaitFor
    BY <1>7 DEF Rec
  <2>8. Held
    BY <1>1, <2>6, SleepHeld
  <2>9. SInv'
    BY <1>1, <1>2, <1>3, <1>7, <2>2, <2>3, <2>4, <2>5, <2>6, <2>7, SleepStep
  <2> QED
    BY <2>8, <2>9
<1>8. CASE Children(k, p) # {} /\ ready # {}
  <2>1. PICK c \in ready :
          Step(p, [k EXCEPT !.proc[c].wcode = "none",
                            !.proc[c].stat = IF Rec(c).wcode = "CLD_EXITED" THEN "FREE" ELSE @], "kernel")
    BY <1>8 DEF Waitid
  <2> DEFINE x == k.proc[c]
             st == IF x.wcode = "CLD_EXITED" THEN "FREE" ELSE x.stat
             r == [x EXCEPT !.wcode = "none", !.stat = st]
  <2>2. c \in Procs /\ x.parent = p /\ c # p /\ x \in ProcRecord
    BY <1>2 DEF Children, Fine
  <2>3. /\ Fine(c, x, thr[c]) /\ Rests(x, thr[c])
        /\ x.wchan # NoChan => x.stat \in {"SSLEEP", "SSTOP"}
    BY <1>1, <1>2, <2>2 DEF Settled, Off, Consistent
  <2>4. x.wcode = "CLD_EXITED" => x.stat = "SZOMB" /\ x.wchan = NoChan
    BY <2>3 DEF Fine
  <2>5. st \in Stats /\ (st = x.stat \/ (st = "FREE" /\ x.stat = "SZOMB"))
    BY <2>2, <2>4 DEF ProcRecord, Stats
  <2>6. [k EXCEPT !.proc[c].wcode = "none",
                  !.proc[c].stat = IF Rec(c).wcode = "CLD_EXITED" THEN "FREE" ELSE @] = Edit(k, c, r)
    BY <1>2, <2>2, TablesFacts DEF Edit, Rec, ProcRecord
  <2> HIDE DEF st
  <2>7. /\ r \in ProcRecord
        /\ /\ r.stat = st /\ r.flag = x.flag /\ r.wchan = x.wchan /\ r.wcode = "none"
           /\ r.parent = x.parent /\ r.sig = x.sig /\ r.sigq = x.sigq /\ r.cursig = x.cursig
           /\ r.hold = x.hold /\ r.ignore = x.ignore /\ r.caught = x.caught
           /\ r.sigmask = x.sigmask
    BY <2>2, <2>5 DEF ProcRecord, Wcodes
  <2> HIDE DEF r
  <2>8. k' = Edit(k, c, r) /\ thr' = Becomes(thr, p, u) /\ hi' = hi
    BY <1>4, <2>1, <2>6 DEF Step, Goto
  <2>9. PICK L : L = Edit(k, c, r)
    OBVIOUS
  <2>10. /\ L \in Tables /\ Consistent(L) /\ L.cur = k.cur /\ L.proc[c] = r
         /\ \A q \in Procs \ {c} : L.proc[q] = k.proc[q]
    <3>1. /\ r.wchan = x.wchan /\ (r.stat = "SRUN" <=> x.stat = "SRUN")
          /\ r.wchan # NoChan => r.stat \in {"SSLEEP", "SSTOP"}
      BY <2>3, <2>4, <2>5, <2>7
    <3> QED
      BY <1>2, <2>2, <2>7, <2>9, <3>1, Edited
  <2>11. \A q \in Procs \ {c} : Woken(k.proc[q], L.proc[q])
    BY <1>2, <2>10 DEF ProcRecord, Woken, SameRights, Moved
  <2>12. QuietStop(x, r)
    BY <2>5, <2>7 DEF QuietStop, AliveRec, StoppedByProc
  <2>13. \A q \in Procs : L.proc[q].stat = "SSLEEP" => L.proc[q].wchan # <<"proc", p>>
    <3>1. ASSUME NEW q \in Procs, L.proc[q].stat = "SSLEEP"
          PROVE  L.proc[q].wchan # <<"proc", p>>
      <4>1. q # p /\ L.proc[q].wchan = k.proc[q].wchan
        BY <1>2, <2>2, <2>7, <2>10, <3>1
      <4>2. Fine(q, k.proc[q], thr[q])
        BY <1>1, <1>2, <4>1 DEF Settled, Off
      <4> QED
        BY <4>1, <4>2 DEF Fine
    <3> QED
      BY <3>1
  <2>14. Fine(c, r, thr[c]) /\ Rests(r, thr[c])
    <3> HIDE DEF x
    <3> QED
      BY <2>3, <2>5, <2>7 DEF Fine, Rests
  <2>15. Settled(L, thr)
    <3>1. /\ L.proc[c].parent = k.proc[c].parent /\ L.proc[c].parent = p
          /\ L.proc[c].stat = "SSLEEP" => k.proc[c].stat = "SSLEEP" /\ L.proc[c].wchan = k.proc[c].wchan
      BY <2>2, <2>5, <2>7, <2>10
    <3>2. QuietStop(k.proc[c], L.proc[c])
      BY <2>10, <2>12
    <3>3. \A q \in Procs : L.proc[q].stat = "SSLEEP" => L.proc[q].wchan # <<"proc", L.proc[c].parent>>
      BY <2>13, <3>1
    <3>4. Fine(c, L.proc[c], thr[c]) /\ Rests(L.proc[c], thr[c])
      BY <2>10, <2>14
    <3>5. Settled(k, thr) /\ c \in Procs /\ L \in Tables /\ Consistent(L) /\ L.cur = k.cur
      BY <1>2, <2>2, <2>10
    <3> QED
      BY ONLY <2>11, <3>1, <3>2, <3>3, <3>4, <3>5, SettledStep
  <2>16. L.proc[p] = k.proc[p] /\ L.cur = p
    BY <1>1, <2>2, <2>10
  <2>17. SInv'
    BY <1>2, <1>5, <2>8, <2>9, <2>15, <2>16, Continues
  <2>18. Held
    <3>1. Holds(x, r)
      BY <2>5, <2>7 DEF Holds
    <3>2. \A q \in Procs \ {c} : Holds(k.proc[q], L.proc[q])
      BY <2>11, HoldsFacts
    <3> QED
      BY <2>2, <2>8, <2>9, <2>10, <3>1, <3>2, HeldBut
  <2> QED
    BY <2>17, <2>18
<1> QED
  BY <1>6, <1>7, <1>8
-----------------------------------------------------------------------------
(***************************************************************************)
(* The running process stops, and tells its parent.                        *)
(***************************************************************************)
LEMMA HaltStep ==
    ASSUME SInv, NEW p \in Procs, NEW M, Settled(M, thr), M.cur = p,
           M.proc[p].stat \in {"SONPROC", "SSLEEP"}, CanStop(M, p),
           NEW why \in StopWhys, why # "PR_JOBCONTROL",
           NEW u \in Threads, u.pc \notin Running, u.pc # "asleep", Fine(p, M.proc[p], u),
           k' = LeaveProcessor(stop(M, p, why), p), thr' = Becomes(thr, p, u), hi' = FALSE
    PROVE  SInv' /\ \A q \in Procs \ {p} : Woken(M.proc[q], k'.proc[q])
<1> DEFINE x == M.proc[p]
<1>1. M \in Tables /\ Consistent(M) /\ thr \in [Procs -> Threads]
  BY DEF Settled, SInv, InvAt
<1>2. PICK L : L = stop(M, p, why)
  OBVIOUS
<1>3. /\ L \in Tables /\ Consistent(L) /\ L.cur = M.cur /\ Halted(x, L.proc[p], why)
      /\ \A q \in Procs \ {p} : Woken(M.proc[q], L.proc[q])
      /\ \A q \in Procs : L.proc[q].wchan # <<"trace", p>>
  BY <1>1, <1>2, StopFacts
<1> DEFINE y == L.proc[p]
<1>4. /\ SameRights(x, y) /\ y.stat = "SSTOP" /\ y.wchan \in {x.wchan, NoChan} /\ y.sig = x.sig
      /\ y.sigq = x.sigq /\ y.wcode = x.wcode /\ y.flag \subseteq x.flag \cup {"SXSTART"}
  BY <1>3 DEF Halted
<1>5. QuietChild(x, y)
  BY <1>4 DEF QuietChild, SameRights
<1>6. Settled(L, thr)
  BY <1>1, <1>3, <1>5, SettledStep
<1>7. Fine(p, y, u)
  <2>1. "KILL" \notin x.sig \cup {x.cursig} /\ x.stat # "SZOMB"
    BY DEF CanStop
  <2>2. Fine(p, x, u)
    OBVIOUS
  <2> HIDE DEF x, y
  <2> QED
    BY <1>4, <2>1, <2>2 DEF Fine, SameRights, NoChan
<1>8. Rests(y, u)
  BY DEF Rests
<1>9. PICK N : N = LeaveProcessor(L, p)
  OBVIOUS
<1>10. InvAt(N, Becomes(thr, p, u), FALSE)
  <2>1. L.cur = p /\ L.proc[p].stat # "SONPROC"
    BY <1>3, <1>4
  <2> QED
    BY <1>1, <1>6, <1>7, <1>8, <1>9, <2>1, Leaves
<1>11. \A q \in Procs \ {p} : Woken(M.proc[q], N.proc[q])
  BY <1>3, <1>9, LeftAlone
<1> QED
  BY <1>2, <1>9, <1>10, <1>11, Arrives

\* sigcld() posts SIGCLD to the parent, which does not have the processor.
LEMMA ChildFacts ==
    ASSUME NEW K \in Tables, NEW t \in Procs, NEW L, L = sigaddqInsert(K, t, "CLD"), NEW q \in Procs \ {t}
    PROVE  L.proc[q] = K.proc[q]
<1>1. K.proc \in [Procs -> ProcRecord]
  BY TablesFacts
<1>2. PICK Z : Z = [K EXCEPT !.proc[t].sigq = @ \cup {"CLD"}]
  OBVIOUS
<1>3. /\ Z.proc = [K.proc EXCEPT ![t].sigq = @ \cup {"CLD"}]
      /\ Z = [proc |-> Z.proc, sleepq |-> K.sleepq, dispq |-> K.dispq, cur |-> K.cur]
  <2>1. \A f, E : [K EXCEPT !.proc = E] = [proc |-> E, sleepq |-> K.sleepq, dispq |-> K.dispq, cur |-> K.cur]
    BY TablesFacts
  <2>2. Z = [K EXCEPT !.proc = [K.proc EXCEPT ![t].sigq = @ \cup {"CLD"}]]
    BY <1>1, <1>2, TablesFacts
  <2> QED
    BY <2>1, <2>2
<1>4. CancelOpposite(Z, t, "CLD") = Z
  BY NoSignals DEF CancelOpposite
<1>5. PICK Y : Y = [Z EXCEPT !.proc[t].sig = @ \cup {"CLD"}]
  OBVIOUS
<1>6. L \in {K, Z, Notify(Y, t, "CLD")}
  BY <1>2, <1>4, <1>5 DEF sigaddqInsert, sigtoproc
<1>7. Z.proc[q] = K.proc[q] /\ DOMAIN Z.proc = Procs
  BY <1>1, <1>3
<1>8. /\ Y = [proc |-> Y.proc, sleepq |-> K.sleepq, dispq |-> K.dispq, cur |-> K.cur]
      /\ Y.proc[q] = Z.proc[q] /\ DOMAIN Y.proc = Procs
  BY <1>3, <1>5, <1>7
<1>9. Notify(Y, t, "CLD").proc[q] = Y.proc[q]
  <2>1. PICK U : U = unsleep(Y, t)
    OBVIOUS
  <2>2. /\ U.proc[q] = Y.proc[q] /\ DOMAIN U.proc = Procs
        /\ U = [proc |-> U.proc, sleepq |-> U.sleepq, dispq |-> Y.dispq, cur |-> Y.cur]
    BY <1>8, <2>1 DEF unsleep
  <2>3. CASE Y.proc[t].stat = "SSLEEP" /\ ~("SNWAKE" \in Y.proc[t].flag \/ "CLD" \in Y.proc[t].hold)
    <3>1. PICK V : V = [U EXCEPT !.proc[t].stat = "SRUN", !.proc[t].whystop = "none",
                                 !.proc[t].wcode = IF Y.proc[t].stat = "SSTOP" THEN "none" ELSE @]
      OBVIOUS
    <3>2. Notify(Y, t, "CLD") = setbackdq(V, t)
      BY <2>1, <2>3, <3>1 DEF Notify, setrun
    <3>3. V.proc[q] = U.proc[q] /\ V = [proc |-> V.proc, sleepq |-> V.sleepq, dispq |-> V.dispq, cur |-> V.cur]
      BY <2>2, <3>1
    <3>4. setbackdq(V, t).proc = V.proc
      BY <3>3 DEF setbackdq
    <3> QED
      BY <2>2, <3>2, <3>3, <3>4
  <2>4. CASE Y.proc[t].stat = "SSTOP"
    <3>1. Notify(Y, t, "CLD") \in {Y, U}
      BY <2>1, <2>4 DEF Notify
    <3> QED
      BY <2>2, <3>1
  <2>5. CASE Y.proc[t].stat # "SSTOP" /\ (Y.proc[t].stat = "SSLEEP" => "SNWAKE" \in Y.proc[t].flag \/ "CLD" \in Y.proc[t].hold)
    <3>1. Notify(Y, t, "CLD") \in {Y, [Y EXCEPT !.proc[t].evpend = TRUE]}
      BY <2>5 DEF Notify
    <3>2. [Y EXCEPT !.proc[t].evpend = TRUE].proc[q] = Y.proc[q]
      BY <1>8
    <3> QED
      BY <3>1, <3>2
  <2> QED
    BY <2>3, <2>4, <2>5
<1> QED
  BY <1>6, <1>7, <1>8, <1>9

LEMMA Told ==
    ASSUME NEW K, NEW th, Settled(K, th), NEW p \in Procs, K.cur = p, K.proc[p].parent # p,
           NEW L, L = sigcldPost(K, p)
    PROVE  /\ Settled(L, th) /\ L.cur = p /\ L.proc[p] = K.proc[p]
           /\ \A q \in Procs : QuietStop(K.proc[q], L.proc[q]) /\ QuietChild(K.proc[q], L.proc[q])
           /\ \A q \in Procs : Holds(K.proc[q], L.proc[q])
<1>1. K \in Tables /\ Consistent(K) /\ K.proc[p].parent \in Procs \cup {NoProc}
  BY TablesFacts DEF Settled, ProcRecord
<1>2. CASE sigcldAllocates(K, p)
  <2>1. PICK t \in Procs : t = K.proc[p].parent /\ t # p
    BY <1>1, <1>2 DEF sigcldAllocates
  <2>2. PICK s \in Sigs : s = "CLD"
    BY <1>2 DEF sigcldAllocates
  <2>3. L = sigaddqInsert(K, t, s) /\ sigaddqAllocates(K, t, s)
    BY <1>2, <2>1, <2>2 DEF sigcldPost, sigcldAllocates
  <2>4. /\ L \in Tables /\ Consistent(L) /\ L.cur = K.cur /\ Added(K.proc[t], L.proc[t], s)
        /\ \A q \in Procs \ {t} : Woken(K.proc[q], L.proc[q])
    BY <1>1, <2>1, <2>3, SigaddqFacts
  <2>5. Settled(L, th)
    BY <2>4, AddedSettled
  <2>6. L.proc[p] = K.proc[p]
    BY <1>1, <2>1, <2>2, <2>3, ChildFacts
  <2>7. \A q \in Procs : QuietStop(K.proc[q], L.proc[q]) /\ QuietChild(K.proc[q], L.proc[q])
    BY <2>4, QuietFacts
  <2>8. \A q \in Procs : Holds(K.proc[q], L.proc[q])
    BY <2>4, HoldsFacts
  <2> QED
    BY <2>4, <2>5, <2>6, <2>7, <2>8
<1>3. CASE ~sigcldAllocates(K, p)
  <2>1. L = K
    BY <1>3 DEF sigcldPost
  <2> QED
    BY <2>1 DEF QuietStop, QuietChild, Holds
<1> QED
  BY <1>2, <1>3

\* Where there may be no memory, SIGCLD needs none.
LEMMA NoWait ==
    ASSUME NEW K, NEW th, Settled(K, th), NEW p \in Procs, K.cur = p, K.proc[p].parent # p, KmemSleeps
    PROVE  ~sigcldAllocates(K, p)
<1> SUFFICES ASSUME sigcldAllocates(K, p) PROVE FALSE
  OBVIOUS
<1>1. "CLD" \in Sigs /\ K.proc[p].parent \in Procs
  BY TablesFacts DEF Settled, sigcldAllocates, ProcRecord
<1>2. Fine(K.proc[p].parent, K.proc[K.proc[p].parent], th[K.proc[p].parent])
  BY <1>1 DEF Settled, Off
<1> QED
  BY <1>1, <1>2 DEF Fine, sigcldAllocates, sigaddqAllocates, tracing

LEMMA NobodyOnNone ==
    ASSUME NEW K \in Tables, NEW q \in Procs
    PROVE  K.proc[q].wchan # <<"proc", NoProc>>
<1>1. K.proc[q].wchan \in Chans \cup {NoChan}
  BY TablesFacts DEF ProcRecord
<1>2. <<"proc", NoProc>> # NoChan /\ <<"proc", NoProc>> \notin Chans
  BY ChanFacts DEF NoChan, Chans, KmemChan
<1> QED
  BY <1>1, <1>2

\* The tables after a job control stop, and after its SIGCLD.
LEMMA HaltJobStep ==
    ASSUME SInv, NEW p \in Procs, NEW M, Settled(M, thr), M.cur = p,
           M.proc[p].stat \in {"SONPROC", "SSLEEP"}, CanStop(M, p),
           NEW u \in Threads, u.pc \notin Running, u.pc # "asleep", Fine(p, M.proc[p], u),
           NEW L, L = stop(M, p, "PR_JOBCONTROL")
    PROVE  /\ KmemSleeps => ~sigcldAllocates(L, p)
           /\ /\ k' = LeaveProcessor(sigcldPost(L, p), p) /\ thr' = Becomes(thr, p, u)
              /\ hi' = FALSE
              => SInv' /\ \A q \in Procs \ {p} : Holds(M.proc[q], k'.proc[q])
<1> DEFINE x == M.proc[p]
<1>1. M \in Tables /\ Consistent(M) /\ thr \in [Procs -> Threads]
  BY DEF Settled, SInv, InvAt
<1>2. PICK why \in StopWhys : why = "PR_JOBCONTROL"
  BY DEF StopWhys
<1>3. /\ L \in Tables /\ Consistent(L) /\ L.cur = M.cur /\ Halted(x, L.proc[p], why)
      /\ \A q \in Procs \ {p} : Woken(M.proc[q], L.proc[q])
      /\ x.parent \in Procs => \A q \in Procs : L.proc[q].wchan # <<"proc", x.parent>>
  BY <1>1, <1>2, StopFacts
<1> DEFINE y == L.proc[p]
<1>4. /\ SameRights(x, y) /\ y.stat = "SSTOP" /\ y.wchan \in {x.wchan, NoChan} /\ y.sig = x.sig
      /\ y.sigq = x.sigq /\ y.wcode = "CLD_STOPPED" /\ "SPSTART" \in y.flag
      /\ y.flag \subseteq x.flag \cup {"SPSTART"} /\ y.parent = x.parent
  BY <1>2, <1>3 DEF Halted, SameRights
<1>5. QuietStop(x, y)
  BY <1>4 DEF QuietStop, AliveRec, StoppedByProc
<1>6. \A q \in Procs : L.proc[q].wchan # <<"proc", y.parent>>
  <2>1. x.parent \in Procs \cup {NoProc}
    BY <1>1, TablesFacts DEF ProcRecord
  <2> QED
    BY <1>3, <1>4, <2>1, NobodyOnNone
<1>7. Settled(L, thr)
  <2>1. L \in Tables /\ Consistent(L) /\ L.cur = M.cur /\ Settled(M, thr)
    BY <1>3
  <2>2. \A q \in Procs \ {p} : Woken(M.proc[q], L.proc[q])
    BY <1>3
  <2>3. QuietStop(M.proc[p], L.proc[p])
    BY <1>5
  <2>4. L.proc[p].parent = M.proc[p].parent
    BY <1>4
  <2>5. \A q \in Procs : L.proc[q].stat = "SSLEEP" => L.proc[q].wchan # <<"proc", L.proc[p].parent>>
    BY <1>6
  <2> HIDE DEF x, y
  <2> QED
    BY ONLY <2>1, <2>2, <2>3, <2>4, <2>5, M.cur = p, p \in Procs, SettledStep
<1>8. Fine(p, y, u)
  <2>1. "KILL" \notin x.sig \cup {x.cursig} /\ x.stat # "SZOMB"
    BY DEF CanStop
  <2>2. Fine(p, x, u)
    OBVIOUS
  <2> HIDE DEF x, y
  <2> QED
    BY <1>4, <2>1, <2>2 DEF Fine, SameRights, NoChan
<1>9. L.cur = p /\ L.proc[p].parent # p
  BY <1>3, <1>8 DEF Fine
<1>10. KmemSleeps => ~sigcldAllocates(L, p)
  BY <1>7, <1>9, NoWait
<1>11. PICK P : P = sigcldPost(L, p)
  OBVIOUS
<1>12. /\ Settled(P, thr) /\ P.cur = p /\ P.proc[p] = y
       /\ \A q \in Procs : Holds(L.proc[q], P.proc[q])
  BY <1>7, <1>9, <1>11, Told
<1>13. PICK N : N = LeaveProcessor(P, p)
  OBVIOUS
<1>14. InvAt(N, Becomes(thr, p, u), FALSE)
  <2>1. P.proc[p].stat # "SONPROC" /\ Fine(p, P.proc[p], u) /\ Rests(P.proc[p], u)
    BY <1>4, <1>8, <1>12 DEF Rests
  <2> QED
    BY <1>1, <1>12, <1>13, <2>1, Leaves
<1>15. \A q \in Procs \ {p} : Holds(M.proc[q], N.proc[q])
  <2>1. \A q \in Procs \ {p} : N.proc[q] = P.proc[q]
    BY <1>12, <1>13, LeftAlone DEF Settled
  <2> QED
    BY <1>3, <1>12, <2>1, HoldsFacts
<1> QED
  BY <1>10, <1>11, <1>13, <1>14, <1>15, Arrives
-----------------------------------------------------------------------------
(***************************************************************************)
(* issig(), and the entry of a system call.                                *)
(***************************************************************************)
LEMMA SysEntryStep ==
    ASSUME SInv, NEW p \in Procs, SysEntry(p)
    PROVE  SInv' /\ Held
<1> DEFINE x == k.proc[p]
           r == [x EXCEPT !.abort = FALSE]
<1>1. k.cur = p /\ thr[p].pc = "user"
  BY DEF SysEntry, At
<1>2. /\ k \in Tables /\ Settled(k, thr) /\ hi \in BOOLEAN /\ x \in ProcRecord /\ Fine(p, x, thr[p])
      /\ x.stat = "SONPROC"
  BY <1>1, Here, RunsHere
<1>3. PICK u : Went(thr[p], u, "sysent") /\ [thr EXCEPT ![p].pc = "sysent"] = Becomes(thr, p, u)
  BY GoesTo DEF Places
<1>4. /\ r \in ProcRecord
      /\ /\ r.stat = x.stat /\ r.flag = x.flag /\ r.wchan = x.wchan /\ r.wcode = x.wcode
         /\ r.parent = x.parent /\ r.sig = x.sig /\ r.sigq = x.sigq /\ r.cursig = x.cursig
         /\ r.hold = x.hold /\ r.ignore = x.ignore /\ r.caught = x.caught
         /\ r.sigmask = x.sigmask
  BY <1>2 DEF ProcRecord
<1>5. [k EXCEPT !.proc[p].abort = FALSE] = Edit(k, p, r)
  BY <1>2, TablesFacts DEF Edit
<1>6. PICK M : M = Edit(k, p, r)
  OBVIOUS
<1>7. \/ k' = Edit(k, p, r) /\ thr' = Becomes(thr, p, u) /\ hi' = hi
      \/ /\ CanStop(M, p) /\ k' = LeaveProcessor(stop(M, p, "PR_SYSENTRY"), p)
         /\ thr' = Becomes(thr, p, u) /\ hi' = FALSE
  <2> DEFINE Enters(E) == IF x.entrystop /\ CanStop(E, p)
                          THEN Yield(p, stop(E, p, "PR_SYSENTRY"), "sysent")
                          ELSE Step(p, E, "sysent")
  <2>1. Enters([k EXCEPT !.proc[p].abort = FALSE])
    BY DEF SysEntry, Rec
  <2> HIDE DEF Enters
  <2>2. Enters(M)
    BY <1>5, <1>6, <2>1
  <2> USE DEF Enters
  <2> QED
    BY <1>3, <1>6, <2>2 DEF Yield, Step, Goto
<1> HIDE DEF r
<1>8. Fine(p, r, u)
  <2> HIDE DEF x
  <2> QED
    BY <1>1, <1>2, <1>3, <1>4, NoSignals DEF Fine, Went, Asked
<1>9. Keeps(x, r) /\ u \in Threads /\ u.pc = "sysent"
  BY <1>3, <1>4 DEF Keeps, Went
<1>10. CASE k' = Edit(k, p, r) /\ thr' = Becomes(thr, p, u) /\ hi' = hi
  <2>1. SInv'
    BY <1>1, <1>2, <1>8, <1>9, <1>10, OwnStep
  <2>2. Held
    BY <1>2, <1>4, <1>10, EditHeld
  <2> QED
    BY <2>1, <2>2
<1>11. CASE /\ CanStop(M, p) /\ k' = LeaveProcessor(stop(M, p, "PR_SYSENTRY"), p)
            /\ thr' = Becomes(thr, p, u) /\ hi' = FALSE
  <2>1. PICK why \in StopWhys : why = "PR_SYSENTRY"
    BY DEF StopWhys
  <2>2. /\ Settled(M, thr) /\ M.cur = p /\ M.proc[p] = r
        /\ \A q \in Procs \ {p} : M.proc[q] = k.proc[q]
    BY <1>1, <1>2, <1>6, <1>9, OwnKeeps
  <2>3. M.proc[p].stat = "SONPROC" /\ Fine(p, M.proc[p], u) /\ u.pc \notin Running /\ u.pc # "asleep"
    BY <1>2, <1>4, <1>8, <1>9, <2>2 DEF Running
  <2>4. SInv' /\ \A q \in Procs \ {p} : Woken(M.proc[q], k'.proc[q])
    BY <1>9, <1>11, <2>1, <2>2, <2>3, HaltStep
  <2> QED
    BY <1>2, <2>2, <2>4, HoldsFacts, HeldBut
<1> QED
  BY <1>7, <1>10, <1>11

LEMMA IssigRequestedStep ==
    ASSUME SInv, NEW p \in Procs, IssigRequested(p)
    PROVE  SInv' /\ Held
<1> DEFINE x == k.proc[p]
<1>1. k.cur = p /\ thr[p].pc = "issig" /\ CanStop(k, p) /\ Yield(p, stop(k, p, "PR_REQUESTED"), "cursig")
  BY DEF IssigRequested, At, StopRequested
<1>2. Settled(k, thr) /\ Fine(p, x, thr[p]) /\ x.stat \in {"SONPROC", "SSLEEP"}
  BY <1>1, Here
<1>3. PICK u : Went(thr[p], u, "cursig") /\ [thr EXCEPT ![p].pc = "cursig"] = Becomes(thr, p, u)
  BY GoesTo DEF Places
<1>4. PICK why \in StopWhys : why = "PR_REQUESTED"
  BY DEF StopWhys
<1>5. k' = LeaveProcessor(stop(k, p, why), p) /\ thr' = Becomes(thr, p, u) /\ hi' = FALSE
  BY <1>1, <1>3, <1>4 DEF Yield, Goto
<1>6. Fine(p, x, u)
  <2> HIDE DEF x
  <2> QED
    BY <1>1, <1>2, <1>3 DEF Fine, Went, Asked
<1>7. u \in Threads /\ u.pc \notin Running /\ u.pc # "asleep"
  BY <1>3 DEF Went, Running
<1>8. SInv' /\ \A q \in Procs \ {p} : Woken(k.proc[q], k'.proc[q])
  BY <1>1, <1>2, <1>4, <1>5, <1>6, <1>7, HaltStep
<1> QED
  BY <1>2, <1>8, HoldsFacts, HeldBut

\* One turn of the loops: the process goes on looking, at splhi if it was.
LEMMA OwnLooks ==
    ASSUME SInv, NEW p \in Procs, k.cur = p, NEW r, Keeps(k.proc[p], r), r.flag = k.proc[p].flag,
           NEW c \in {"issig", "fsig", "jobcont"}, NEW u, Went(thr[p], u, c), Fine(p, r, u),
           c = "fsig" => r.cursig = "none",
           r.stat = "SSLEEP" =>
              /\ thr[p].pc \in {"issig", "fsig", "jobcont"} => 
                   /\ r.cursig \in stopdefault \ PrSigs => "KILL" \notin r.sig
                   /\ c = "jobcont" => PrSigs \cap stopdefault # {}
                   /\ c = "fsig" => "SNOSTOP" \in r.flag \/ "SPRSTOP" \notin r.flag \/ "KILL" \in r.sig,
           k' = Edit(k, p, r), thr' = Becomes(thr, p, u), hi' = hi
    PROVE  SInv' /\ Held
<1> DEFINE x == k.proc[p]
<1>1. /\ Settled(k, thr) /\ thr \in [Procs -> Threads] /\ hi \in BOOLEAN
      /\ On(p, k, thr[p], hi) /\ x.stat \in {"SONPROC", "SSLEEP"}
  BY Here
<1>2. PICK L : L = Edit(k, p, r)
  OBVIOUS
<1>3. /\ Settled(L, thr) /\ L.cur = p /\ L.proc[p] = r
      /\ Hears(p, k, thr[p]) => Hears(p, L, thr[p])
  BY <1>1, <1>2, OwnKeeps
<1>4. Hears(p, L, u)
  BY <1>1, <1>3 DEF On, Hears, Went
<1>5. r.stat = x.stat /\ r.wchan = x.wchan /\ u.pc = c /\ u.ctx = thr[p].ctx /\ u \in Threads
  BY DEF Keeps, Went
<1>6. On(p, L, u, hi)
  <2> HIDE DEF x
  <2> QED
    BY <1>1, <1>3, <1>4, <1>5 DEF On, x
<1>7. InvAt(L, Becomes(thr, p, u), hi)
  BY <1>1, <1>3, <1>5, <1>6, Stays
<1>8. Held
  BY <1>1, <1>5, EditHeld DEF Settled
<1> QED
  BY <1>2, <1>7, <1>8, Arrives

\* The number of a signal orders them: there is a first among the pending.
LEMMA fsigFacts ==
    ASSUME NEW K \in Tables, NEW p \in Procs, NEW s, s = fsig(K, p)
    PROVE  /\ s = "none" => K.proc[p].sig \subseteq K.proc[p].hold
           /\ s # "none" => s \in K.proc[p].sig \ K.proc[p].hold
           /\ "KILL" \in K.proc[p].sig \ K.proc[p].hold => s = "KILL"
<1> DEFINE temp == K.proc[p].sig \ K.proc[p].hold
           first(i) == \A o \in temp : SignalNumber[i] <= SignalNumber[o]
<1>1. temp \subseteq Sigs /\ Sigs \subseteq {"KILL", "TERM", "CLD", "TSTP", "CONT"} /\ "none" \notin Sigs
  BY TablesFacts, NoSignals, ProcTableAssumption DEF ProcRecord, ProcTableAssumption, SignalNumber
<1>2. s = IF temp = {} THEN "none" ELSE IF "KILL" \in temp THEN "KILL" ELSE CHOOSE i \in temp : first(i)
  BY DEF fsig
<1> HIDE DEF temp
<1>3. ASSUME temp # {}, "KILL" \notin temp
      PROVE  \E i \in temp : first(i)
  <2>1. /\ SignalNumber["TERM"] = 15 /\ SignalNumber["CLD"] = 18
        /\ SignalNumber["TSTP"] = 24 /\ SignalNumber["CONT"] = 25
    BY DEF SignalNumber
  <2>2. temp \subseteq {"TERM", "CLD", "TSTP", "CONT"}
    BY <1>1, <1>3
  <2>3. CASE "TERM" \in temp
    <3>1. first("TERM")
      BY <2>1, <2>2
    <3> QED
      BY <2>3, <3>1
  <2>4. CASE "TERM" \notin temp /\ "CLD" \in temp
    <3>1. first("CLD")
      BY <2>1, <2>2, <2>4
    <3> QED
      BY <2>4, <3>1
  <2>5. CASE "TERM" \notin temp /\ "CLD" \notin temp /\ "TSTP" \in temp
    <3>1. first("TSTP")
      BY <2>1, <2>2, <2>5
    <3> QED
      BY <2>5, <3>1
  <2>6. CASE temp = {"CONT"}
    <3>1. first("CONT")
      BY <2>1, <2>6
    <3> QED
      BY <2>6, <3>1
  <2>7. \/ "TERM" \in temp
        \/ "TERM" \notin temp /\ "CLD" \in temp
        \/ "TERM" \notin temp /\ "CLD" \notin temp /\ "TSTP" \in temp
        \/ temp = {"CONT"}
    BY <1>3, <2>2
  <2> QED
    BY <2>3, <2>4, <2>5, <2>6, <2>7
<1> HIDE DEF first
<1>4. temp # {} /\ "KILL" \notin temp => s \in temp
  BY <1>2, <1>3
<1>5. (s = "none" => temp = {}) /\ (s # "none" => s \in temp) /\ ("KILL" \in temp => s = "KILL")
  BY <1>1, <1>2, <1>4
<1> QED
  BY <1>5 DEF temp

\* A process that keeps its record may keep its tables.
LEMMA SameEdit ==
    ASSUME NEW K \in Tables, NEW p \in Procs
    PROVE  Edit(K, p, K.proc[p]) = K
<1>1. [K.proc EXCEPT ![p] = K.proc[p]] = K.proc
  BY TablesFacts
<1>2. Edit(K, p, K.proc[p]) = [proc |-> [K.proc EXCEPT ![p] = K.proc[p]], sleepq |-> K.sleepq,
                               dispq |-> K.dispq, cur |-> K.cur]
  BY TablesFacts DEF Edit
<1> QED
  BY <1>1, <1>2, TablesFacts

\* The return of issig() to trap return.
LEMMA TrapReturns ==
    ASSUME SInv, NEW p \in Procs, k.cur = p, thr[p].ctx = "trap", NEW found \in BOOLEAN,
           IssigReturn(p, k, found),
           found => k.proc[p].cursig # "none" /\ k.proc[p].cursig \notin k.proc[p].ignore,
           ~found => k.proc[p].cursig = "none"
    PROVE  SInv'
<1> DEFINE x == k.proc[p]
<1>1. /\ k \in Tables /\ Settled(k, thr) /\ hi \in BOOLEAN /\ x \in ProcRecord /\ Fine(p, x, thr[p])
      /\ x.stat = "SONPROC"
  BY Here, RunsHere
<1>2. PICK c \in {"psig", "user"} :
        /\ k' = k /\ thr' = [thr EXCEPT ![p].pc = c] /\ hi' = FALSE
        /\ c = IF found THEN "psig" ELSE "user"
  BY DEF IssigReturn, Goto
<1>3. PICK u : Went(thr[p], u, c) /\ [thr EXCEPT ![p].pc = c] = Becomes(thr, p, u)
  BY GoesTo, SMTT(30) DEF Places
<1>4. Fine(p, x, u)
  <2> HIDE DEF x
  <2> QED
    BY <1>1, <1>2, <1>3, NoSignals DEF Fine, Went, Asked, x
<1>5. /\ k' = Edit(k, p, x) /\ Keeps(x, x) /\ u \in Threads /\ thr' = Becomes(thr, p, u) /\ hi' \in BOOLEAN
      /\ u.pc = "psig" => x.cursig # "none" /\ x.cursig \notin x.ignore
      /\ u.pc = "fsig" => x.cursig = "none"
  BY <1>1, <1>2, <1>3, SameEdit DEF Keeps, Went
<1> QED
  BY ONLY SInv, p \in Procs, k.cur = p, <1>1, <1>4, <1>5, OwnStep

\* The return to sleep(), with a signal or aborted.
LEMMA SignalReturns ==
    ASSUME SInv, NEW p \in Procs, k.cur = p, thr[p].ctx # "trap", NEW found \in BOOLEAN,
           IssigReturn(p, k, found), found \/ k.proc[p].abort
    PROVE  SInv'
<1> DEFINE x == k.proc[p]
           a == [x EXCEPT !.abort = FALSE]
           slept == k.proc[p].stat = "SSLEEP"
<1>1. /\ k \in Tables /\ Settled(k, thr) /\ x \in ProcRecord /\ Fine(p, x, thr[p])
      /\ x.stat \in {"SONPROC", "SSLEEP"} /\ thr[p] \in Threads /\ On(p, k, thr[p], hi)
      /\ x.stat = "SONPROC" => x.wchan = NoChan
  BY Here
<1>2. /\ a \in ProcRecord
      /\ /\ a.stat = x.stat /\ a.flag = x.flag /\ a.wchan = x.wchan /\ a.wcode = x.wcode
         /\ a.parent = x.parent /\ a.sig = x.sig /\ a.sigq = x.sigq /\ a.cursig = x.cursig
         /\ a.hold = x.hold /\ a.ignore = x.ignore /\ a.caught = x.caught
         /\ a.sigmask = x.sigmask
  BY <1>1 DEF ProcRecord
<1>3. PICK M : M = Edit(k, p, a)
  OBVIOUS
<1>4. [k EXCEPT !.proc[p].abort = FALSE] = M
  BY <1>1, <1>3, TablesFacts DEF Edit
<1>5. \/ x.stat = "SONPROC" /\ SleepPsig(p, M)
      \/ x.stat = "SSLEEP" /\ SleepPsig(p, [unsleep(M, p) EXCEPT !.proc[p].stat = "SONPROC"])
  <2> DEFINE Ends(E) == \/ ~slept /\ SleepPsig(p, E)
                        \/ slept /\ SleepPsig(p, [unsleep(E, p) EXCEPT !.proc[p].stat = "SONPROC"])
  <2>1. Ends([k EXCEPT !.proc[p].abort = FALSE])
    <3>1. CASE thr[p].ctx = "post"
      BY <1>1, <3>1 DEF IssigReturn, On
    <3>2. CASE thr[p].ctx = "pre"
      BY <3>2 DEF IssigReturn
    <3> QED
      BY <1>1, <3>1, <3>2 DEF Threads
  <2> HIDE DEF Ends
  <2>2. Ends(M)
    BY <1>4, <2>1
  <2> QED
    BY <1>1, <2>2 DEF Ends
<1> HIDE DEF a
<1>6. Keeps(x, a)
  BY <1>2 DEF Keeps
<1>7. Settled(M, thr) /\ M.cur = p /\ M.proc[p] = a
  BY <1>1, <1>3, <1>6, OwnKeeps
<1>8. Fine(p, a, thr[p])
  <2> HIDE DEF x
  <2> QED
    BY <1>1, <1>2 DEF Fine, x
<1>9. CASE x.stat = "SONPROC" /\ SleepPsig(p, M)
  BY <1>2, <1>7, <1>8, <1>9, PsigOut
<1>10. CASE x.stat = "SSLEEP" /\ SleepPsig(p, [unsleep(M, p) EXCEPT !.proc[p].stat = "SONPROC"])
  <2>1. M \in Tables /\ Consistent(M)
    BY <1>7 DEF Settled
  <2>2. PICK U : U = unsleep(M, p)
    OBVIOUS
  <2>3. /\ U \in Tables /\ Consistent(U) /\ U.cur = M.cur /\ U.proc[p] = [a EXCEPT !.wchan = NoChan]
        /\ U.proc[p] \in ProcRecord /\ \A q \in Procs \ {p} : U.proc[q] = M.proc[q]
    BY <1>7, <2>1, <2>2, Unslept
  <2> DEFINE b == U.proc[p]
             c == [b EXCEPT !.stat = "SONPROC"]
  <2>4. /\ b.wchan = NoChan
        /\ /\ b.stat = a.stat /\ b.flag = a.flag /\ b.wchan = NoChan /\ b.wcode = a.wcode
           /\ b.parent = a.parent /\ b.sig = a.sig /\ b.sigq = a.sigq /\ b.cursig = a.cursig
           /\ b.hold = a.hold /\ b.ignore = a.ignore /\ b.caught = a.caught
           /\ b.sigmask = a.sigmask
    BY <1>2, <2>3 DEF ProcRecord
  <2>5. /\ c \in ProcRecord
        /\ /\ c.stat = "SONPROC" /\ c.flag = b.flag /\ c.wchan = b.wchan /\ c.wcode = b.wcode
           /\ c.parent = b.parent /\ c.sig = b.sig /\ c.sigq = b.sigq /\ c.cursig = b.cursig
           /\ c.hold = b.hold /\ c.ignore = b.ignore /\ c.caught = b.caught
           /\ c.sigmask = b.sigmask
    BY <2>3 DEF ProcRecord, Stats
  <2>6. PICK V : V = Edit(U, p, c)
    OBVIOUS
  <2>7. [U EXCEPT !.proc[p].stat = "SONPROC"] = V
    BY <2>3, <2>6, TablesFacts DEF Edit
  <2> HIDE DEF b, c
  <2>8. c.wchan = NoChan /\ b.stat = "SSLEEP" /\ b.wchan = NoChan
    BY <1>2, <1>10, <2>4, <2>5
  <2>9. /\ V \in Tables /\ Consistent(V) /\ V.cur = U.cur /\ V.proc[p] = c
        /\ \A q \in Procs \ {p} : V.proc[q] = U.proc[q]
    <3>1. c.wchan = U.proc[p].wchan /\ c.stat # "SRUN" /\ U.proc[p].stat # "SRUN" /\ c.wchan = NoChan
      BY <2>5, <2>8 DEF b
    <3>2. PICK d \in ProcRecord : d = c
      BY <2>5
    <3>3. /\ d.wchan = U.proc[p].wchan /\ (d.stat = "SRUN" <=> U.proc[p].stat = "SRUN")
          /\ (d.wchan # NoChan => d.stat \in {"SSLEEP", "SSTOP"})
          /\ U \in Tables /\ Consistent(U) /\ V = Edit(U, p, d)
      BY <2>3, <2>6, <3>1, <3>2
    <3>4. /\ V \in Tables /\ Consistent(V) /\ V.cur = U.cur /\ V.proc[p] = d
          /\ \A q \in Procs \ {p} : V.proc[q] = U.proc[q]
      BY ONLY p \in Procs, d \in ProcRecord, <3>3, Edited
    <3> QED
      BY <3>2, <3>4
  <2>10. \A q \in Procs \ {p} : Woken(M.proc[q], V.proc[q])
    BY <2>1, <2>3, <2>9, TablesFacts DEF ProcRecord, Woken, SameRights, Moved
  <2>11. QuietStop(M.proc[p], V.proc[p]) /\ QuietChild(M.proc[p], V.proc[p])
    BY <1>2, <1>7, <1>10, <2>4, <2>5, <2>9 DEF QuietStop, QuietChild, AliveRec, StoppedByProc
  <2>12. Settled(V, thr)
    BY <1>7, <2>3, <2>9, <2>10, <2>11, SettledStep
  <2>13. Fine(p, c, thr[p])
    BY <1>2, <1>8, <1>10, <2>4, <2>5, <2>8 DEF Fine, NoChan
  <2>14. SleepPsig(p, V)
    BY <1>10, <2>2, <2>7
  <2> QED
    BY <1>7, <2>3, <2>5, <2>9, <2>12, <2>13, <2>14, PsigOut
<1> QED
  BY <1>5, <1>9, <1>10

\* The return to sleep(), with nothing found.
LEMMA NothingReturns ==
    ASSUME SInv, NEW p \in Procs, k.cur = p, thr[p].ctx # "trap",
           IssigReturn(p, k, FALSE), ~k.proc[p].abort,
           k.proc[p].cursig = "none", k.proc[p].sig \subseteq k.proc[p].hold,
           k.proc[p].stat = "SSLEEP" => "SNOSTOP" \in k.proc[p].flag \/ "SPRSTOP" \notin k.proc[p].flag
    PROVE  SInv'
<1> DEFINE x == k.proc[p]
           r == [x EXCEPT !.flag = @ \ {"SASLEEP"}]
<1>1. /\ k \in Tables /\ Settled(k, thr) /\ x \in ProcRecord /\ Fine(p, x, thr[p])
      /\ x.stat \in {"SONPROC", "SSLEEP"} /\ thr[p] \in Threads /\ On(p, k, thr[p], hi)
      /\ x.stat = "SONPROC" => x.wchan = NoChan
  BY Here
<1>2. \/ SleepOut(p, k) /\ x.stat = "SONPROC"
      \/ /\ k' = LeaveProcessor([k EXCEPT !.proc[p].flag = @ \ {"SASLEEP"}], p)
         /\ x.stat = "SSLEEP" /\ thr' = [thr EXCEPT ![p].pc = "asleep"] /\ hi' = FALSE
  <2>1. CASE thr[p].ctx = "post"
    BY <1>1, <2>1 DEF IssigReturn, On
  <2>2. CASE thr[p].ctx = "pre"
    BY <1>1, <2>2 DEF IssigReturn, On, Goto
  <2> QED
    BY <1>1, <2>1, <2>2 DEF Threads
<1>3. CASE SleepOut(p, k) /\ x.stat = "SONPROC"
  <2>1. x.cursig \notin Sigs \ PrSigs
    BY NoSignals
  <2> QED
    BY <1>1, <1>3, <2>1, OutStep
<1>4. CASE /\ k' = LeaveProcessor([k EXCEPT !.proc[p].flag = @ \ {"SASLEEP"}], p)
           /\ x.stat = "SSLEEP" /\ thr' = [thr EXCEPT ![p].pc = "asleep"] /\ hi' = FALSE
  <2>1. PICK u : Went(thr[p], u, "asleep") /\ [thr EXCEPT ![p].pc = "asleep"] = Becomes(thr, p, u)
    BY GoesTo DEF Places
  <2>2. /\ r \in ProcRecord
        /\ /\ r.stat = x.stat /\ r.flag = x.flag \ {"SASLEEP"} /\ r.wchan = x.wchan
           /\ r.wcode = x.wcode /\ r.parent = x.parent /\ r.sig = x.sig /\ r.sigq = x.sigq
           /\ r.cursig = x.cursig /\ r.hold = x.hold /\ r.ignore = x.ignore
           /\ r.caught = x.caught /\ r.sigmask = x.sigmask
    BY <1>1 DEF ProcRecord
  <2>3. PICK M : M = Edit(k, p, r)
    OBVIOUS
  <2>4. [k EXCEPT !.proc[p].flag = @ \ {"SASLEEP"}] = M
    BY <1>1, <2>3, TablesFacts DEF Edit
  <2> HIDE DEF r
  <2>5. Keeps(x, r)
    BY <2>2 DEF Keeps
  <2>6. /\ Settled(M, thr) /\ M.cur = p /\ M.proc[p] = r
        /\ Hears(p, k, thr[p]) => Hears(p, M, thr[p])
    BY <1>1, <2>3, <2>5, OwnKeeps
  <2>7. Fine(p, r, u)
    <3>1. x.cursig = "none"
      OBVIOUS
    <3> HIDE DEF x
    <3> QED
      BY <1>1, <2>1, <2>2, <3>1, NoSignals DEF Fine, Went, Asked
  <2>8. Rests(r, u)
    <3>1. /\ x.cursig = "none" /\ x.sig \subseteq x.hold
          /\ "SNOSTOP" \in x.flag \/ "SPRSTOP" \notin x.flag
      BY <1>4
    <3>2. "SNWAKE" \notin x.flag
      BY <1>1, <1>4 DEF On
    <3> HIDE DEF x
    <3> QED
      BY <2>1, <2>2, <3>1, <3>2 DEF Rests, Went, Running
  <2>9. Hears(p, M, u)
    BY <1>1, <2>1, <2>6 DEF On, Hears, Went
  <2>10. PICK N : N = LeaveProcessor(M, p)
    OBVIOUS
  <2>11. thr \in [Procs -> Threads] /\ u \in Threads /\ M.proc[p].stat # "SONPROC"
         /\ Fine(p, M.proc[p], u) /\ Rests(M.proc[p], u)
    BY <1>4, <2>1, <2>2, <2>6, <2>7, <2>8 DEF SInv, InvAt, Went
  <2>12. InvAt(N, Becomes(thr, p, u), FALSE)
    BY <2>6, <2>9, <2>10, <2>11, Leaves
  <2>13. k' = N /\ thr' = Becomes(thr, p, u) /\ hi' = FALSE
    BY <1>4, <2>1, <2>4, <2>10
  <2> QED
    BY <2>12, <2>13, Arrives
<1> QED
  BY <1>2, <1>3, <1>4

LEMMA IssigReturnStep ==
    ASSUME SInv, NEW p \in Procs, k.cur = p, NEW found \in BOOLEAN, IssigReturn(p, k, found),
           thr[p].ctx = "trap" /\ found =>
              k.proc[p].cursig # "none" /\ k.proc[p].cursig \notin k.proc[p].ignore,
           ~found =>
              /\ k.proc[p].cursig = "none" /\ k.proc[p].sig \subseteq k.proc[p].hold
              /\ k.proc[p].stat = "SSLEEP" =>
                   "SNOSTOP" \in k.proc[p].flag \/ "SPRSTOP" \notin k.proc[p].flag
    PROVE  SInv' /\ Held
<1>1. CASE thr[p].ctx = "trap"
  BY <1>1, TrapReturns, ReturnHeld
<1>2. CASE thr[p].ctx # "trap" /\ (found \/ k.proc[p].abort)
  BY <1>2, SignalReturns, ReturnHeld
<1>3. CASE thr[p].ctx # "trap" /\ ~found /\ ~k.proc[p].abort
  <2>1. IssigReturn(p, k, FALSE)
    <3>1. found = FALSE
      BY <1>3
    <3> QED
      BY <3>1
  <2> QED
    BY <1>3, <2>1, NothingReturns, ReturnHeld
<1> QED
  BY <1>1, <1>2, <1>3

LEMMA IssigCurrentStep ==
    ASSUME SInv, NEW p \in Procs, IssigCurrent(p)
    PROVE  SInv' /\ Held
<1> DEFINE x == k.proc[p]
           s == k.proc[p].cursig
           a == [x EXCEPT !.cursig = "none"]
           c == [a EXCEPT !.sig = @ \ {"CONT"}, !.sigq = @ \ {"CONT"}]
<1>1. k.cur = p /\ thr[p].pc \in {"cursig", "issig"} /\ s # "none"
  BY DEF IssigCurrent, AtCursig, At, Rec
<1>2. /\ k \in Tables /\ Settled(k, thr) /\ hi \in BOOLEAN /\ x \in ProcRecord /\ Fine(p, x, thr[p])
      /\ x.stat \in {"SONPROC", "SSLEEP"} /\ On(p, k, thr[p], hi)
  BY <1>1, Here
<1>3. /\ a \in ProcRecord
      /\ /\ a.stat = x.stat /\ a.flag = x.flag /\ a.wchan = x.wchan /\ a.wcode = x.wcode
         /\ a.parent = x.parent /\ a.sig = x.sig /\ a.sigq = x.sigq /\ a.cursig = "none"
         /\ a.hold = x.hold /\ a.ignore = x.ignore /\ a.caught = x.caught
         /\ a.sigmask = x.sigmask
  BY <1>2 DEF ProcRecord
<1>4. /\ c \in ProcRecord
      /\ /\ c.stat = a.stat /\ c.flag = a.flag /\ c.wchan = a.wchan /\ c.wcode = a.wcode
         /\ c.parent = a.parent /\ c.sig = a.sig \ {"CONT"} /\ c.sigq = a.sigq \ {"CONT"}
         /\ c.cursig = a.cursig /\ c.hold = a.hold /\ c.ignore = a.ignore
         /\ c.caught = a.caught /\ c.sigmask = a.sigmask
  BY <1>3 DEF ProcRecord
<1>5. PICK M : M = Edit(k, p, a)
  OBVIOUS
<1>6. [k EXCEPT !.proc[p].cursig = "none"] = M
  BY <1>2, <1>5, TablesFacts DEF Edit
<1> DEFINE job(E)   == stop(E, p, "PR_JOBCONTROL")
           Turns(E) == IF Justlooking(p) THEN IssigReturn(p, k, TRUE)
             ELSE IF s \in x.ignore THEN Step(p, E, "issig")
             ELSE IF ~IsJobStop(p, s) THEN IssigReturn(p, k, TRUE)
             ELSE IF "CONT" \in x.sig
             THEN Step(p, [E EXCEPT !.proc[p].sig = @ \ {"CONT"},
                                    !.proc[p].sigq = @ \ {"CONT"}], "issig")
             ELSE IF ~CanStop(E, p) THEN Step(p, E, "jobcont")
             ELSE \/ Yield(p, sigcldPost(job(E), p), "jobcont")
                  \/ /\ sigcldAllocates(job(E), p)
                     /\ KmemSleep(p, job(E), "stop", x.parent, "CLD")
<1>7. Turns(M)
  <2>1. Turns([k EXCEPT !.proc[p].cursig = "none"])
    BY DEF IssigCurrent, Rec
  <2> HIDE DEF Turns
  <2> QED
    BY <1>6, <2>1
<1> HIDE DEF a, c
<1>8. Keeps(x, a) /\ Keeps(x, c)
  BY <1>3, <1>4 DEF Keeps
<1>9. /\ Settled(M, thr) /\ M.cur = p /\ M.proc[p] = a /\ M \in Tables
      /\ \A q \in Procs \ {p} : M.proc[q] = k.proc[q]
  <2>1. /\ Settled(M, thr) /\ M.cur = p /\ M.proc[p] = a
        /\ \A q \in Procs \ {p} : M.proc[q] = k.proc[q]
    BY <1>1, <1>2, <1>5, <1>8, OwnKeeps
  <2> QED
    BY <2>1 DEF Settled
<1>10. a.cursig \notin Sigs /\ c.cursig \notin Sigs /\ stopdefault \subseteq Sigs
  BY <1>3, <1>4, NoSignals DEF stopdefault
<1>11. PICK u : Went(thr[p], u, "issig") /\ [thr EXCEPT ![p].pc = "issig"] = Becomes(thr, p, u)
  BY GoesTo DEF Places
<1>12. PICK v : Went(thr[p], v, "jobcont") /\ [thr EXCEPT ![p].pc = "jobcont"] = Becomes(thr, p, v)
  BY GoesTo DEF Places
<1>13. Fine(p, a, u) /\ Fine(p, c, u) /\ Fine(p, a, v)
  <2>1. Fine(p, a, u)
    <3> HIDE DEF x
    <3> QED
      BY <1>1, <1>2, <1>3, <1>10, <1>11, NoSignals DEF Fine, Went, Asked, x
  <2>2. Fine(p, a, v)
    <3> HIDE DEF x
    <3> QED
      BY <1>1, <1>2, <1>3, <1>10, <1>12, NoSignals DEF Fine, Went, Asked, x
  <2>3. Fine(p, c, u)
    BY <1>4, <1>10, <2>1 DEF Fine
  <2> QED
    BY <2>1, <2>2, <2>3
<1>14. CASE IssigReturn(p, k, TRUE) /\ (Justlooking(p) \/ s \notin x.ignore)
  BY <1>1, <1>14, IssigReturnStep DEF Justlooking
<1>15. CASE Step(p, M, "issig")
  <2>1. k' = Edit(k, p, a) /\ thr' = Becomes(thr, p, u) /\ hi' = hi
    BY <1>5, <1>11, <1>15 DEF Step, Goto
  <2> QED
    BY <1>1, <1>3, <1>8, <1>10, <1>11, <1>13, <2>1, OwnLooks
<1>16. CASE Step(p, [M EXCEPT !.proc[p].sig = @ \ {"CONT"}, !.proc[p].sigq = @ \ {"CONT"}], "issig")
  <2>1. [M EXCEPT !.proc[p].sig = @ \ {"CONT"}, !.proc[p].sigq = @ \ {"CONT"}] = Edit(M, p, c)
    BY <1>3, <1>9, TablesFacts, ZenonT(60) DEF Edit, c
  <2>2. Edit(M, p, c) = Edit(k, p, c)
    BY <1>2, <1>5, EditFacts
  <2>3. k' = Edit(k, p, c) /\ thr' = Becomes(thr, p, u) /\ hi' = hi
    BY <1>11, <1>16, <2>1, <2>2 DEF Step, Goto
  <2>4. c.flag = x.flag
    BY <1>3, <1>4
  <2> QED
    BY <1>1, <1>8, <1>10, <1>11, <1>13, <2>3, <2>4, OwnLooks
<1>17. CASE ~CanStop(M, p) /\ s \in stopdefault /\ Step(p, M, "jobcont")
  <2>1. k' = Edit(k, p, a) /\ thr' = Becomes(thr, p, v) /\ hi' = hi
    BY <1>5, <1>12, <1>17 DEF Step, Goto
  <2>2. "KILL" \in x.sig
    BY <1>3, <1>9, <1>17, NoSignals DEF CanStop
  <2>3. a.stat = "SSLEEP" => PrSigs \cap stopdefault # {}
    BY <1>3, <1>17, <2>2, <1>2 DEF On
  <2> QED
    BY <1>1, <1>3, <1>8, <1>10, <1>12, <1>13, <2>1, <2>3, OwnLooks
<1>18. CASE /\ CanStop(M, p)
            /\ \/ Yield(p, sigcldPost(job(M), p), "jobcont")
               \/ /\ sigcldAllocates(job(M), p)
                  /\ KmemSleep(p, job(M), "stop", x.parent, "CLD")
  <2>1. PICK L : L = stop(M, p, "PR_JOBCONTROL")
    OBVIOUS
  <2>2. M.proc[p].stat \in {"SONPROC", "SSLEEP"} /\ Fine(p, M.proc[p], v)
    BY <1>2, <1>3, <1>9, <1>13
  <2>3. v \in Threads /\ v.pc \notin Running /\ v.pc # "asleep"
    BY <1>12 DEF Went, Running
  <2>4. /\ KmemSleeps => ~sigcldAllocates(L, p)
        /\ /\ k' = LeaveProcessor(sigcldPost(L, p), p) /\ thr' = Becomes(thr, p, v)
           /\ hi' = FALSE
           => SInv' /\ \A q \in Procs \ {p} : Holds(M.proc[q], k'.proc[q])
    BY <1>9, <1>18, <2>1, <2>2, <2>3, HaltJobStep
  <2>5. k' = LeaveProcessor(sigcldPost(L, p), p) /\ thr' = Becomes(thr, p, v) /\ hi' = FALSE
    <3>1. ~(sigcldAllocates(L, p) /\ KmemSleep(p, L, "stop", x.parent, "CLD"))
      BY <2>4 DEF KmemSleep
    <3> QED
      BY <1>12, <1>18, <2>1, <3>1 DEF Yield, Goto
  <2>6. SInv' /\ \A q \in Procs \ {p} : Holds(M.proc[q], k'.proc[q])
    BY <2>4, <2>5
  <2> QED
    BY <1>2, <1>9, <2>6, HoldsFacts, HeldBut
<1> QED
  <2>1. IsJobStop(p, s) => s \in stopdefault
    BY DEF IsJobStop
  <2> QED
    BY <1>7, <1>14, <1>15, <1>16, <1>17, <1>18, <2>1

LEMMA IssigPendingStep ==
    ASSUME SInv, NEW p \in Procs, IssigPending(p)
    PROVE  SInv' /\ Held
<1> DEFINE x == k.proc[p]
<1>1. PICK s : s = fsig(k, p)
  OBVIOUS
<1> DEFINE d == [x EXCEPT !.sig = @ \ {s}, !.sigq = @ \ {s}]
           e == [d EXCEPT !.cursig = s]
<1>2. k.cur = p /\ thr[p].pc \in {"cursig", "issig", "fsig"} /\ (thr[p].pc # "fsig" => x.cursig = "none")
  BY DEF IssigPending, AtCursig, At, Rec
<1>3. /\ k \in Tables /\ Settled(k, thr) /\ hi \in BOOLEAN /\ x \in ProcRecord /\ Fine(p, x, thr[p])
      /\ x.stat \in {"SONPROC", "SSLEEP"} /\ On(p, k, thr[p], hi)
  BY <1>2, Here
<1>4. x.cursig = "none" /\ "KILL" \notin x.hold /\ ("KILL" \in x.ignore => "KILL" \notin x.sig)
  BY <1>2, <1>3 DEF On, Fine
<1>5. /\ s = "none" => x.sig \subseteq x.hold
      /\ s # "none" => s \in x.sig \ x.hold
      /\ "KILL" \in x.sig \ x.hold => s = "KILL"
  BY <1>1, <1>3, fsigFacts
<1>6. x.stat = "SSLEEP" => "SNOSTOP" \in x.flag \/ "SPRSTOP" \notin x.flag \/ "KILL" \in x.sig
  <2>1. CASE thr[p].pc = "issig"
    <3>1. ~StopRequested(p)
      BY <2>1 DEF IssigPending, AtCursig, At
    <3> QED
      BY <1>4, <2>1, <3>1, NoSignals DEF StopRequested, Justlooking, CanStop, Rec
  <2>2. CASE thr[p].pc = "fsig"
    BY <1>3, <2>2 DEF On
  <2>3. CASE thr[p].pc = "cursig"
    BY <1>3, <2>3 DEF On
  <2> QED
    BY <1>2, <2>1, <2>2, <2>3
<1> DEFINE Turns(D, E) == IF s = "none" THEN IssigReturn(p, k, FALSE)
             ELSE IF ~tracing(k, p, s) /\ s \in x.ignore THEN Step(p, D, "fsig")
             ELSE IF Justlooking(p) THEN IssigReturn(p, k, TRUE)
             ELSE IF tracing(k, p, s) /\ CanStop(E, p)
             THEN Yield(p, stop(E, p, "PR_SIGNALLED"), "issig")
             ELSE Step(p, E, "issig")
           drop    == [k EXCEPT !.proc[p].sig = @ \ {s}, !.proc[p].sigq = @ \ {s}]
           take(E) == [E EXCEPT !.proc[p].cursig = s]
<1>7. Turns(drop, take(drop))
  BY <1>1 DEF IssigPending, Rec
<1> HIDE DEF Turns
<1>8. CASE s = "none"
  <2>1. IssigReturn(p, k, FALSE)
    BY <1>7, <1>8 DEF Turns
  <2>2. x.stat = "SSLEEP" => "SNOSTOP" \in x.flag \/ "SPRSTOP" \notin x.flag
    BY <1>4, <1>5, <1>6, <1>8
  <2> QED
    BY <1>2, <1>4, <1>5, <1>8, <2>1, <2>2, IssigReturnStep
<1>9. CASE s # "none"
  <2>1. s \in Sigs /\ s \in x.sig \ x.hold
    BY <1>3, <1>5, <1>9 DEF ProcRecord
  <2>2. /\ d \in ProcRecord
        /\ /\ d.stat = x.stat /\ d.flag = x.flag /\ d.wchan = x.wchan /\ d.wcode = x.wcode
           /\ d.parent = x.parent /\ d.sig = x.sig \ {s} /\ d.sigq = x.sigq \ {s}
           /\ d.cursig = x.cursig /\ d.hold = x.hold /\ d.ignore = x.ignore
           /\ d.caught = x.caught /\ d.sigmask = x.sigmask
    BY <1>3 DEF ProcRecord
  <2>3. /\ e \in ProcRecord
        /\ /\ e.stat = d.stat /\ e.flag = d.flag /\ e.wchan = d.wchan /\ e.wcode = d.wcode
           /\ e.parent = d.parent /\ e.sig = d.sig /\ e.sigq = d.sigq /\ e.cursig = s
           /\ e.hold = d.hold /\ e.ignore = d.ignore /\ e.caught = d.caught
           /\ e.sigmask = d.sigmask
    BY <2>1, <2>2 DEF ProcRecord
  <2>4. PICK D : D = Edit(k, p, d)
    OBVIOUS
  <2>5. PICK E : E = Edit(k, p, e)
    OBVIOUS
  <2>6. drop = D
    BY <1>3, <2>4, TablesFacts DEF Edit
  <2> HIDE DEF drop
  <2>7. D \in Tables /\ D.proc[p] = d
    <3> HIDE DEF d
    <3>1. D = [proc |-> [k.proc EXCEPT ![p] = d], sleepq |-> k.sleepq, dispq |-> k.dispq, cur |-> k.cur]
      BY <1>3, <2>4, TablesFacts DEF Edit
    <3> QED
      BY <1>3, <2>2, <3>1, TablesFacts DEF Tables
  <2>8. take(D) = E
    <3>1. take(D) = Edit(D, p, e)
      <4> HIDE DEF d
      <4> QED
        BY <2>2, <2>7, TablesFacts DEF Edit
    <3>2. Edit(D, p, e) = Edit(k, p, e)
      <4> HIDE DEF d, e
      <4> QED
        BY <1>3, <2>4, EditFacts
    <3> QED
      BY <2>5, <3>1, <3>2
  <2> HIDE DEF take
  <2>9. Turns(D, E)
    BY <1>7, <2>6, <2>8
  <2> HIDE DEF d, e
  <2>10. Keeps(x, d) /\ Keeps(x, e)
    BY <2>2, <2>3 DEF Keeps
  <2>11. PICK u : Went(thr[p], u, "issig") /\ [thr EXCEPT ![p].pc = "issig"] = Becomes(thr, p, u)
    BY GoesTo DEF Places
  <2>12. PICK v : Went(thr[p], v, "fsig") /\ [thr EXCEPT ![p].pc = "fsig"] = Becomes(thr, p, v)
    BY GoesTo DEF Places
  <2>13. Fine(p, d, v)
    <3> HIDE DEF x
    <3> QED
      BY <1>2, <1>3, <1>4, <2>2, <2>12, NoSignals DEF Fine, Went, Asked
  <2>14. Fine(p, e, u)
    <3> HIDE DEF x
    <3> QED
      BY <1>2, <1>3, <1>4, <2>2, <2>3, <2>11, NoSignals DEF Fine, Went, Asked
  <2>15. CASE ~tracing(k, p, s) /\ s \in x.ignore
    <3>1. k' = Edit(k, p, d) /\ thr' = Becomes(thr, p, v) /\ hi' = hi
      BY <1>9, <2>4, <2>9, <2>12, <2>15 DEF Turns, Step, Goto
    <3>2. "KILL" \notin x.sig
      BY <1>4, <1>5, <2>15
    <3>3. d.stat = "SSLEEP" => "SNOSTOP" \in d.flag \/ "SPRSTOP" \notin d.flag \/ "KILL" \in d.sig
      BY <1>6, <2>2, <3>2
    <3>4. d.cursig = "none" /\ "none" \notin stopdefault /\ d.flag = x.flag
      BY <1>4, <2>2, NoSignals DEF stopdefault
    <3> QED
      BY <1>2, <2>10, <2>12, <2>13, <3>1, <3>3, <3>4, OwnLooks
  <2>16. CASE Justlooking(p) /\ IssigReturn(p, k, TRUE)
    BY <1>2, <2>16, IssigReturnStep DEF Justlooking
  <2>17. CASE CanStop(E, p) /\ Yield(p, stop(E, p, "PR_SIGNALLED"), "issig")
    <3>1. PICK why \in StopWhys : why = "PR_SIGNALLED"
      BY DEF StopWhys
    <3>2. k' = LeaveProcessor(stop(E, p, why), p) /\ thr' = Becomes(thr, p, u) /\ hi' = FALSE
      BY <2>11, <2>17, <3>1 DEF Yield, Goto
    <3>3. /\ Settled(E, thr) /\ E.cur = p /\ E.proc[p] = e
          /\ \A q \in Procs \ {p} : E.proc[q] = k.proc[q]
      BY <1>2, <1>3, <2>5, <2>10, OwnKeeps
    <3>4. /\ u \in Threads /\ u.pc \notin Running /\ u.pc # "asleep"
          /\ E.proc[p].stat \in {"SONPROC", "SSLEEP"} /\ Fine(p, E.proc[p], u)
      BY <1>3, <2>2, <2>3, <2>11, <2>14, <3>3 DEF Went, Running
    <3>5. SInv' /\ \A q \in Procs \ {p} : Woken(E.proc[q], k'.proc[q])
      BY <2>17, <3>1, <3>2, <3>3, <3>4, HaltStep
    <3> QED
      BY <1>3, <3>3, <3>5, HoldsFacts, HeldBut
  <2>18. CASE Step(p, E, "issig")
    <3>1. k' = Edit(k, p, e) /\ thr' = Becomes(thr, p, u) /\ hi' = hi
      BY <2>5, <2>11, <2>18 DEF Step, Goto
    <3>2. e.cursig \in stopdefault => "KILL" \notin e.sig
      BY <1>4, <1>5, <2>2, <2>3, OppositeFacts
    <3>3. e.flag = x.flag
      BY <2>2, <2>3
    <3> QED
      BY <1>2, <2>10, <2>11, <2>14, <3>1, <3>2, <3>3, OwnLooks
  <2> QED
    BY <1>9, <2>9, <2>15, <2>16, <2>17, <2>18 DEF Turns
<1> QED
  BY <1>8, <1>9

\* isjobstop() after the stop.  A process that finds itself here while it is
\* on a sleep queue does not wait for its children, so it does not wake itself.
LEMMA JobContinuedStep ==
    ASSUME Setting, SInv, NEW p \in Procs, JobContinued(p)
    PROVE  SInv' /\ Held
<1> DEFINE x == k.proc[p]
           w == [x EXCEPT !.wcode = "CLD_CONTINUED"]
<1>1. k.cur = p /\ thr[p].pc = "jobcont"
  BY DEF JobContinued, At
<1>2. /\ k \in Tables /\ Consistent(k) /\ Settled(k, thr) /\ hi \in BOOLEAN /\ x \in ProcRecord
      /\ Fine(p, x, thr[p]) /\ x.stat \in {"SONPROC", "SSLEEP"} /\ On(p, k, thr[p], hi)
      /\ x.stat = "SONPROC" => x.wchan = NoChan
  BY <1>1, Here
<1>3. /\ w \in ProcRecord
      /\ /\ w.stat = x.stat /\ w.flag = x.flag /\ w.wchan = x.wchan
         /\ w.wcode = "CLD_CONTINUED" /\ w.parent = x.parent /\ w.sig = x.sig
         /\ w.sigq = x.sigq /\ w.cursig = x.cursig /\ w.hold = x.hold /\ w.ignore = x.ignore
         /\ w.caught = x.caught /\ w.sigmask = x.sigmask
  BY <1>2 DEF ProcRecord, Wcodes
<1>4. PICK W : W = Edit(k, p, w)
  OBVIOUS
<1>5. [k EXCEPT !.proc[p].wcode = "CLD_CONTINUED"] = W
  BY <1>2, <1>4, TablesFacts DEF Edit
<1>6. PICK L : L = sigcldWake(W, p)
  OBVIOUS
<1>7. PICK u : Went(thr[p], u, "issig") /\ [thr EXCEPT ![p].pc = "issig"] = Becomes(thr, p, u)
  BY GoesTo DEF Places
<1>8. \/ k' = sigcldPost(L, p) /\ thr' = Becomes(thr, p, u) /\ hi' = hi
      \/ sigcldAllocates(L, p) /\ KmemSleeps
  <2> DEFINE Tells(E) == \/ Step(p, sigcldPost(sigcldWake(E, p), p), "issig")
                         \/ sigcldAllocates(sigcldWake(E, p), p) /\ KmemSleeps
  <2>1. Tells([k EXCEPT !.proc[p].wcode = "CLD_CONTINUED"])
    BY DEF JobContinued, KmemSleep
  <2> HIDE DEF Tells
  <2>2. Tells(W)
    BY <1>5, <2>1
  <2> QED
    BY <1>6, <1>7, <2>2 DEF Tells, Step, Goto
<1> HIDE DEF w
<1>9. w.wchan = x.wchan /\ w.stat = x.stat
  BY <1>3
<1>10. /\ W \in Tables /\ Consistent(W) /\ W.cur = k.cur /\ W.proc[p] = w
       /\ \A q \in Procs \ {p} : W.proc[q] = k.proc[q]
  <2>1. w.wchan # NoChan => w.stat \in {"SSLEEP", "SSTOP"}
    BY <1>2, <1>9
  <2> QED
    BY <1>2, <1>3, <1>4, <1>9, <2>1, Edited
<1>11. x.wchan \notin {<<"proc", p>>, <<"proc", x.parent>>}
  <2>1. x.parent \in Procs \cup {NoProc} /\ x.wchan # <<"proc", NoProc>>
    BY <1>2, NobodyOnNone DEF ProcRecord
  <2>2. x.stat = "SSLEEP" => "wait" \notin SysCalls[p]
    BY <1>1, <1>2 DEF On, Setting
  <2>3. x.stat = "SSLEEP" => \A o \in Procs : x.wchan # <<"proc", o>>
    BY <1>2, <2>2 DEF Fine
  <2>4. x.stat = "SONPROC" => \A o \in Procs : x.wchan # <<"proc", o>>
    BY <1>2, ChanFacts
  <2> QED
    BY <1>2, <2>1, <2>3, <2>4
<1>12. /\ L \in Tables /\ Consistent(L) /\ L.cur = p /\ L.proc[p] = w
       /\ \A q \in Procs : Woken(W.proc[q], L.proc[q])
       /\ \A q \in Procs : L.proc[q].wchan # <<"proc", x.parent>>
  <2>1. w.parent = x.parent /\ W.proc[p].wcode # "none"
    BY <1>3, <1>10
  <2>2. \A q \in Procs : W.cur = q /\ W.proc[q].stat = "SSLEEP" =>
          W.proc[q].wchan \notin {<<"proc", p>>, <<"proc", W.proc[p].parent>>}
    BY <1>1, <1>9, <1>10, <1>11, <2>1
  <2>3. /\ L \in Tables /\ Consistent(L) /\ L.cur = W.cur
        /\ \A q \in Procs : Woken(W.proc[q], L.proc[q])
        /\ W.proc[p].parent \in Procs =>
             \A q \in Procs : L.proc[q].wchan # <<"proc", W.proc[p].parent>>
        /\ \A q \in Procs :
             W.proc[q].wchan \notin {<<"proc", p>>, <<"proc", W.proc[p].parent>>} => L.proc[q] = W.proc[q]
    BY <1>6, <1>10, <2>1, <2>2, SigcldWakeFacts, SMTT(30)
  <2>4. x.parent \in Procs \cup {NoProc} /\ \A q \in Procs : L.proc[q].wchan # <<"proc", NoProc>>
    BY <1>2, <2>3, NobodyOnNone DEF ProcRecord
  <2> QED
    BY <1>1, <1>9, <1>10, <1>11, <2>1, <2>3, <2>4
<1>13. \A q \in Procs \ {p} : Woken(k.proc[q], L.proc[q])
  BY <1>10, <1>12
<1>14. QuietStop(x, w) /\ w.parent = x.parent
  BY <1>3 DEF QuietStop, AliveRec, StoppedByProc
<1>15. Settled(L, thr)
  <2>1. /\ Settled(k, thr) /\ L \in Tables /\ Consistent(L) /\ L.cur = k.cur
        /\ k.cur # p => /\ Fine(p, L.proc[p], thr[p]) /\ Rests(L.proc[p], thr[p])
                        /\ L.proc[p].stat = "SSLEEP" => /\ k.proc[p].stat = "SSLEEP"
                                                        /\ L.proc[p].wchan = k.proc[p].wchan
    BY <1>1, <1>2, <1>12
  <2>2. QuietStop(k.proc[p], L.proc[p])
    BY <1>12, <1>14
  <2>3. /\ L.proc[p].parent = k.proc[p].parent
        /\ \A q \in Procs : L.proc[q].stat = "SSLEEP" => L.proc[q].wchan # <<"proc", L.proc[p].parent>>
    BY <1>12, <1>14
  <2> QED
    BY ONLY p \in Procs, <1>13, <2>1, <2>2, <2>3, SettledStep
<1>16. L.proc[p].parent # p
  BY <1>2, <1>12, <1>14 DEF Fine
<1>17. ~(sigcldAllocates(L, p) /\ KmemSleeps)
  BY <1>12, <1>15, <1>16, NoWait
<1>18. PICK P : P = sigcldPost(L, p)
  OBVIOUS
<1>19. /\ Settled(P, thr) /\ P.cur = p /\ P.proc[p] = w
       /\ \A q \in Procs : QuietStop(L.proc[q], P.proc[q]) /\ Holds(L.proc[q], P.proc[q])
  BY <1>12, <1>15, <1>16, <1>18, Told
<1>20. Fine(p, w, u)
  <2> HIDE DEF x
  <2> QED
    BY <1>1, <1>2, <1>3, <1>7 DEF Fine, Went, Asked, x
<1>21. Hears(p, P, u)
  <2>1. Hears(p, k, thr[p])
    BY <1>2 DEF On
  <2>2. \A n \in Procs : QuietStop(k.proc[n], P.proc[n])
    <3>1. \A n \in Procs : QuietStop(k.proc[n], L.proc[n])
      BY <1>12, <1>13, <1>14, QuietFacts
    <3> QED
      BY <1>19, <3>1 DEF QuietStop
  <2>3. P.proc[p].stat = "SSLEEP" => /\ x.stat = "SSLEEP" /\ P.proc[p].wchan = x.wchan
                                     /\ P.proc[p].wchan # <<"proc", p>>
    BY <1>9, <1>11, <1>19
  <2>4. Hears(p, P, thr[p])
    BY <2>1, <2>2, <2>3, HearsTold
  <2> QED
    BY <1>7, <2>4 DEF Hears, Went
<1>22. On(p, P, u, hi)
  <2>1. x.cursig \notin Sigs \ PrSigs
    BY <1>1, <1>2 DEF Fine, Asked
  <2>2. x.stat = "SSLEEP" => hi /\ x.wchan # NoChan /\ thr[p].ctx = "pre" /\ "SNWAKE" \notin x.flag
    BY <1>2 DEF On
  <2>3. u.pc = "issig" /\ u.ctx = thr[p].ctx /\ stopdefault \subseteq Sigs
    BY <1>7 DEF Went, stopdefault
  <2> HIDE DEF x
  <2> QED
    BY <1>2, <1>3, <1>19, <1>21, <2>1, <2>2, <2>3 DEF On
<1>23. InvAt(P, Becomes(thr, p, u), hi)
  <2>1. thr \in [Procs -> Threads] /\ u \in Threads /\ Fine(p, P.proc[p], u)
    BY <1>1, <1>7, <1>19, <1>20, Here DEF Went
  <2> QED
    BY <1>2, <1>19, <1>22, <2>1, Stays
<1>24. k' = P
  BY <1>8, <1>17, <1>18
<1>25. Held
  BY <1>2, <1>13, <1>19, <1>24, HoldsFacts, HeldBut
<1> QED
  BY <1>8, <1>17, <1>18, <1>23, <1>25, Arrives
-----------------------------------------------------------------------------
(***************************************************************************)
(* exit(): the zombie, its children and its parent.                        *)
(***************************************************************************)
LEMMA ExitZombieStep ==
    ASSUME SInv, NEW p \in Procs, ExitZombie(p)
    PROVE  SInv' /\ Held
<1> DEFINE x == k.proc[p]
           z == [x EXCEPT !.stat = "SZOMB", !.wcode = "CLD_EXITED"]
           orphan(c) == IF k.proc[c].parent = p THEN [k.proc[c] EXCEPT !.parent = NoProc] ELSE k.proc[c]
<1>1. k.cur = p /\ thr[p].pc = "exit2"
  BY DEF ExitZombie, At
<1>2. /\ k \in Tables /\ Consistent(k) /\ Settled(k, thr) /\ x \in ProcRecord
      /\ Fine(p, x, thr[p]) /\ x.stat = "SONPROC" /\ x.wchan = NoChan /\ x.parent # p
  BY <1>1, Here, RunsHere DEF Fine
<1>3. /\ z \in ProcRecord
      /\ /\ z.stat = "SZOMB" /\ z.flag = x.flag /\ z.wchan = x.wchan
         /\ z.wcode = "CLD_EXITED" /\ z.parent = x.parent /\ z.sig = x.sig /\ z.sigq = x.sigq
         /\ z.cursig = x.cursig /\ z.hold = x.hold /\ z.ignore = x.ignore
         /\ z.caught = x.caught /\ z.sigmask = x.sigmask
  BY <1>2 DEF ProcRecord, Stats, Wcodes
<1>4. \A c \in Procs :
        /\ orphan(c) \in ProcRecord
        /\ orphan(c).parent = IF k.proc[c].parent = p THEN NoProc ELSE k.proc[c].parent
        /\ orphan(c).stat = k.proc[c].stat /\ orphan(c).flag = k.proc[c].flag
        /\ orphan(c).wchan = k.proc[c].wchan /\ orphan(c).wcode = k.proc[c].wcode
        /\ orphan(c).sig = k.proc[c].sig /\ orphan(c).sigq = k.proc[c].sigq
        /\ orphan(c).cursig = k.proc[c].cursig /\ orphan(c).hold = k.proc[c].hold
        /\ orphan(c).ignore = k.proc[c].ignore /\ orphan(c).caught = k.proc[c].caught
        /\ orphan(c).sigmask = k.proc[c].sigmask
        /\ k.proc[c].parent # p => orphan(c) = k.proc[c]
  <2> SUFFICES ASSUME NEW c \in Procs
               PROVE  /\ orphan(c) \in ProcRecord
                      /\ orphan(c).parent = IF k.proc[c].parent = p THEN NoProc ELSE k.proc[c].parent
                      /\ orphan(c).stat = k.proc[c].stat /\ orphan(c).flag = k.proc[c].flag
                      /\ orphan(c).wchan = k.proc[c].wchan /\ orphan(c).wcode = k.proc[c].wcode
                      /\ orphan(c).sig = k.proc[c].sig /\ orphan(c).sigq = k.proc[c].sigq
                      /\ orphan(c).cursig = k.proc[c].cursig /\ orphan(c).hold = k.proc[c].hold
                      /\ orphan(c).ignore = k.proc[c].ignore /\ orphan(c).caught = k.proc[c].caught
                      /\ orphan(c).sigmask = k.proc[c].sigmask
                      /\ k.proc[c].parent # p => orphan(c) = k.proc[c]
    OBVIOUS
  <2>1. PICK v \in ProcRecord : v = k.proc[c]
    BY <1>2, TablesFacts
  <2>2. PICK y : y = [v EXCEPT !.parent = NoProc]
    OBVIOUS
  <2>3. /\ y \in ProcRecord
        /\ /\ y.stat = v.stat /\ y.flag = v.flag /\ y.wchan = v.wchan /\ y.wcode = v.wcode
           /\ y.parent = NoProc /\ y.sig = v.sig /\ y.sigq = v.sigq /\ y.cursig = v.cursig
           /\ y.hold = v.hold /\ y.ignore = v.ignore /\ y.caught = v.caught
           /\ y.sigmask = v.sigmask
    BY <2>2 DEF ProcRecord
  <2>4. orphan(c) = IF v.parent = p THEN y ELSE v
    BY <2>1, <2>2
  <2> HIDE DEF orphan
  <2>5. CASE v.parent = p
    BY <2>1, <2>3, <2>4, <2>5
  <2>6. CASE v.parent # p
    BY <2>1, <2>4, <2>6
  <2> QED
    BY <2>5, <2>6
<1>5. PICK O : O = [k EXCEPT !.proc = [c \in Procs |-> orphan(c)]]
  OBVIOUS
<1>6. O = [proc |-> [c \in Procs |-> orphan(c)], sleepq |-> k.sleepq, dispq |-> k.dispq, cur |-> k.cur]
  <2> DEFINE F == [c \in Procs |-> orphan(c)]
  <2>1. O = [k EXCEPT !.proc = F]
    BY <1>5
  <2> HIDE DEF F
  <2>2. O = [proc |-> F, sleepq |-> k.sleepq, dispq |-> k.dispq, cur |-> k.cur]
    BY <1>2, <2>1, TablesFacts
  <2> QED
    BY <2>2 DEF F
<1> DEFINE Dies(E) ==
             LET told == sigcldWake(wakeprocs(E, <<"trace", p>>), p)
             IN \/ Yield(p, sigcldPost(told, p), "dead")
                \/ sigcldAllocates(told, p) /\ KmemSleeps
<1>7. Dies([O EXCEPT !.proc[p].stat = "SZOMB", !.proc[p].wcode = "CLD_EXITED"])
  <2> DEFINE Ends(E) == Dies([E EXCEPT !.proc[p].stat = "SZOMB", !.proc[p].wcode = "CLD_EXITED"])
  <2>1. Ends([k EXCEPT !.proc = [c \in Procs |-> orphan(c)]])
    BY DEF ExitZombie, KmemSleep, Rec
  <2> HIDE DEF Ends
  <2>2. Ends(O)
    BY <1>5, <2>1
  <2> QED
    BY <2>2, SMTT(30) DEF Ends
<1> HIDE DEF orphan, Dies
<1>8. /\ O \in Tables /\ O.cur = p /\ O.proc[p] = x /\ \A c \in Procs : O.proc[c] = orphan(c)
      /\ O.sleepq = k.sleepq /\ O.dispq = k.dispq
  BY <1>1, <1>2, <1>4, <1>6, TablesFacts DEF Tables
<1>9. Consistent(O)
  BY <1>1, <1>2, <1>4, <1>8 DEF Consistent
<1>10. PICK Z : Z = Edit(O, p, z)
  OBVIOUS
<1>11. Dies(Z)
  <2>1. [O EXCEPT !.proc[p].stat = "SZOMB", !.proc[p].wcode = "CLD_EXITED"] = Edit(O, p, z)
    BY <1>8, TablesFacts DEF Edit
  <2> QED
    BY <1>7, <1>10, <2>1
<1> HIDE DEF z
<1>12. /\ Z \in Tables /\ Consistent(Z) /\ Z.cur = p /\ Z.proc[p] = z
       /\ \A c \in Procs \ {p} : Z.proc[c] = orphan(c)
  <2>1. /\ z.wchan = O.proc[p].wchan /\ (z.stat = "SRUN" <=> O.proc[p].stat = "SRUN")
        /\ z.wchan # NoChan => z.stat \in {"SSLEEP", "SSTOP"}
    BY <1>2, <1>3, <1>8
  <2> QED
    BY <1>3, <1>8, <1>9, <1>10, <2>1, Edited
<1>13. PICK A : A = wakeprocs(Z, <<"trace", p>>)
  OBVIOUS
<1>14. PICK chan \in Chans : chan = <<"trace", p>>
  BY ChanFacts
<1>15. A \in Tables /\ Consistent(A) /\ A.cur = p /\ WokenBy(Z, A, chan)
  BY <1>3, <1>12, <1>13, <1>14, Awoken
<1>16. /\ \A q \in Procs : Woken(Z.proc[q], A.proc[q]) /\ A.proc[q].wchan # chan
       /\ \A q \in Procs : Z.proc[q].wchan # chan => A.proc[q] = Z.proc[q]
  BY <1>12, <1>15, WokenByFacts
<1>17. A.proc[p] = z /\ z.wchan = NoChan
  BY <1>2, <1>3, <1>12, <1>16, ChanFacts
<1>18. PICK B : B = sigcldWake(A, p)
  OBVIOUS
<1>19. /\ B \in Tables /\ Consistent(B) /\ B.cur = p
       /\ \A q \in Procs : Woken(A.proc[q], B.proc[q])
       /\ A.proc[p].parent \in Procs => \A q \in Procs : B.proc[q].wchan # <<"proc", A.proc[p].parent>>
       /\ B.proc[p] = z
  <2>1. A.proc[p].wcode # "none" /\ A.proc[p].stat # "SSLEEP"
    BY <1>3, <1>17
  <2>2. \A q \in Procs : A.cur = q /\ A.proc[q].stat = "SSLEEP" =>
          A.proc[q].wchan \notin {<<"proc", p>>, <<"proc", A.proc[p].parent>>}
    BY <1>15, <2>1
  <2> QED
    BY <1>15, <1>17, <1>18, <2>1, <2>2, SigcldWakeFacts
<1>20. \A q \in Procs : Woken(Z.proc[q], B.proc[q]) /\ B.proc[q].wchan # <<"trace", p>>
  <2>1. \A q \in Procs : Woken(Z.proc[q], B.proc[q])
    BY <1>16, <1>19, WokenTwice
  <2>2. \A q \in Procs : B.proc[q].wchan # chan
    BY <1>14, <1>16, <1>19, ChanFacts DEF Woken, Moved
  <2> QED
    BY <1>14, <2>1, <2>2
<1>21. z.parent = x.parent /\ z.stat = "SZOMB" /\ \A q \in Procs : B.proc[q].wchan # <<"proc", x.parent>>
  <2>1. z.parent = x.parent /\ x.parent \in Procs \cup {NoProc}
    BY <1>2, <1>3 DEF ProcRecord
  <2> QED
    BY <1>3, <1>17, <1>19, <2>1, NobodyOnNone
<1>22. ASSUME NEW q \in Procs, q # p
       PROVE  Off(q, B, thr[q])
  <2>1. Fine(q, k.proc[q], thr[q]) /\ Rests(k.proc[q], thr[q]) /\ (thr[q].pc = "asleep" => Hears(q, k, thr[q]))
    BY <1>1, <1>2, <1>22 DEF Settled, Off
  <2>2. Z.proc[q] = orphan(q) /\ NoProc \notin Procs /\ q # NoProc
    BY <1>12, <1>22, ChanFacts
  <2>3. Fine(q, Z.proc[q], thr[q])
    <3>1. PICK y : y = orphan(q)
      OBVIOUS
    <3> DEFINE v == k.proc[q]
    <3>2. /\ y.parent = (IF v.parent = p THEN NoProc ELSE v.parent) /\ y.stat = v.stat /\ y.flag = v.flag
          /\ y.wchan = v.wchan /\ y.wcode = v.wcode /\ y.sig = v.sig /\ y.sigq = v.sigq
          /\ y.cursig = v.cursig /\ y.hold = v.hold /\ y.ignore = v.ignore
          /\ y.caught = v.caught /\ y.sigmask = v.sigmask
      BY <1>4, <3>1
    <3>3. Fine(q, v, thr[q])
      BY <2>1
    <3> HIDE DEF v
    <3>4. Fine(q, y, thr[q])
      BY <2>2, <3>2, <3>3 DEF Fine
    <3> QED
      BY <2>2, <3>1, <3>4
  <2>4. Rests(Z.proc[q], thr[q])
    <3>1. PICK y : y = orphan(q)
      OBVIOUS
    <3>2. /\ y.stat = k.proc[q].stat /\ y.flag = k.proc[q].flag /\ y.sig = k.proc[q].sig
          /\ y.hold = k.proc[q].hold /\ y.cursig = k.proc[q].cursig
      BY <1>4, <3>1
    <3> QED
      BY <2>1, <2>2, <3>1, <3>2 DEF Rests
  <2>5. Fine(q, B.proc[q], thr[q]) /\ Rests(B.proc[q], thr[q])
    BY <1>20, <2>3, <2>4, FineWoken, RestsWoken
  <2>6. B.proc[q].stat = "SSLEEP" => k.proc[q].stat = "SSLEEP" /\ B.proc[q].wchan = k.proc[q].wchan
    <3>1. B.proc[q].stat = "SSLEEP" => B.proc[q] = Z.proc[q]
      BY <1>20 DEF Woken
    <3> QED
      BY <1>4, <2>2, <3>1
  <2>7. ASSUME NEW n \in Procs
        PROVE  /\ \/ QuietStop(k.proc[n], B.proc[n])
                  \/ B.proc[q].stat = "SSLEEP" => B.proc[q].wchan # <<"trace", n>>
               /\ \/ QuietChild(k.proc[n], B.proc[n])
                  \/ B.proc[q].stat = "SSLEEP" => B.proc[q].wchan # <<"proc", q>>
                  \/ k.proc[n].parent # q /\ B.proc[n].parent # q
    <3>1. CASE n = p
      BY <1>19, <1>20, <1>21, <3>1
    <3>2. CASE n # p
      <4>1. QuietStop(Z.proc[n], B.proc[n]) /\ QuietChild(Z.proc[n], B.proc[n])
        BY <1>20, QuietFacts
      <4>2. Z.proc[n] = orphan(n)
        BY <1>12, <3>2
      <4>3. /\ Z.proc[n].stat = k.proc[n].stat /\ Z.proc[n].flag = k.proc[n].flag
            /\ Z.proc[n].parent = (IF k.proc[n].parent = p THEN NoProc ELSE k.proc[n].parent)
            /\ k.proc[n].parent # p => Z.proc[n] = k.proc[n]
        BY <1>4, <4>2
      <4>4. QuietStop(k.proc[n], B.proc[n])
        BY <4>1, <4>3 DEF QuietStop, AliveRec, StoppedByProc
      <4>5. k.proc[n].parent = p => k.proc[n].parent # q /\ B.proc[n].parent # q
        BY <1>22, <2>2, <4>1, <4>3 DEF QuietChild
      <4> QED
        BY <4>1, <4>3, <4>4, <4>5
    <3> QED
      BY <3>1, <3>2
  <2>8. thr[q].pc = "asleep" => Hears(q, B, thr[q])
    BY <2>1, <2>6, <2>7, HearsTold
  <2> QED
    BY <2>5, <2>8 DEF Off
<1>23. Settled(B, thr) /\ B.cur = p /\ B.proc[p].parent # p
  BY <1>2, <1>19, <1>21, <1>22 DEF Settled
<1>24. ~(sigcldAllocates(B, p) /\ KmemSleeps)
  BY <1>23, NoWait
<1>25. PICK P : P = sigcldPost(B, p)
  OBVIOUS
<1>26. /\ Settled(P, thr) /\ P.cur = p /\ P.proc[p] = z
       /\ \A q \in Procs : Holds(B.proc[q], P.proc[q])
  BY <1>19, <1>23, <1>25, Told
<1>27. PICK u : Went(thr[p], u, "dead") /\ [thr EXCEPT ![p].pc = "dead"] = Becomes(thr, p, u)
  BY GoesTo DEF Places
<1>28. Fine(p, z, u) /\ Rests(z, u)
  <2> HIDE DEF x
  <2> QED
    BY <1>1, <1>2, <1>3, <1>27, ChanFacts DEF Fine, Rests, Went, Asked, Running, x
<1>29. PICK N : N = LeaveProcessor(P, p)
  OBVIOUS
<1>30. InvAt(N, Becomes(thr, p, u), FALSE)
  <2>1. /\ thr \in [Procs -> Threads] /\ u \in Threads /\ u.pc # "asleep" /\ P.proc[p].stat # "SONPROC"
        /\ Fine(p, P.proc[p], u) /\ Rests(P.proc[p], u)
    BY <1>21, <1>26, <1>27, <1>28 DEF Went, SInv, InvAt
  <2> QED
    BY <1>26, <1>29, <2>1, Leaves
<1>31. k' = N /\ thr' = Becomes(thr, p, u) /\ hi' = FALSE
  BY <1>11, <1>13, <1>18, <1>24, <1>25, <1>27, <1>29 DEF Dies, Yield, Goto
<1>32. Held
  <2>1. \A q \in Procs \ {p} : N.proc[q] = P.proc[q]
    BY <1>26, <1>29, LeftAlone DEF Settled
  <2>2. \A q \in Procs \ {p} : Holds(Z.proc[q], N.proc[q])
    BY <1>20, <1>26, <2>1, HoldsFacts
  <2>3. \A q \in Procs \ {p} : Z.proc[q].stat = k.proc[q].stat /\ Z.proc[q].flag = k.proc[q].flag
    BY <1>4, <1>12
  <2>4. \A q \in Procs \ {p} : Holds(k.proc[q], N.proc[q])
    BY <2>2, <2>3 DEF Holds
  <2> QED
    BY <1>2, <1>31, <2>4, HoldsFacts, HeldBut
<1> QED
  BY <1>30, <1>31, <1>32, Arrives
-----------------------------------------------------------------------------
(***************************************************************************)
(* The invariant.                                                          *)
(***************************************************************************)

\* Everyone is on the dispatcher queue at the start, once.
LEMMA QueueOfAll ==
    LET q == SetToSeq(Procs) IN q \in Seq(Procs) /\ NoDuplicates(q) /\ ToSet(q) = Procs
<1> DEFINE n == Cardinality(Procs)
           q == SetToSeq(Procs)
<1>1. IsFiniteSet(Procs) /\ n \in Nat /\ ExistsBijection(1 .. n, Procs)
  BY FS_CardinalityType, SleepSigAssumption DEF SleepSigAssumption
<1>2. \E f \in [1 .. n -> Procs] : IsInjective(f)
  BY <1>1 DEF ExistsBijection, Bijection, Injection
<1>3. q \in [1 .. n -> Procs] /\ IsInjective(q)
  BY <1>2 DEF SetToSeq
<1>4. q \in Injection(1 .. n, Procs) /\ Cardinality(1 .. n) = n
  <2>1. Cardinality(1 .. n) = IF 1 > n THEN 0 ELSE n - 1 + 1
    BY <1>1, FS_Interval
  <2> QED
    BY <1>1, <1>3, <2>1 DEF Injection
<1> HIDE DEF n, q
<1>5. q \in Surjection(1 .. n, Procs)
  BY <1>1, <1>4, FS_Injection DEF n
<1>6. DOMAIN q = 1 .. n /\ \A t \in Procs : \E i \in 1 .. n : q[i] = t
  BY <1>3, <1>5 DEF Surjection
<1>7. q \in Seq(Procs)
  BY <1>1, <1>3
<1>8. ToSet(q) = Procs
  BY <1>3, <1>6 DEF ToSet
<1>9. NoDuplicates(q)
  BY <1>3 DEF NoDuplicates, IsInjective
<1> QED
  BY <1>7, <1>8, <1>9 DEF q

LEMMA InitSettled ==
    ASSUME Setting, Init
    PROVE  SInv
<1> DEFINE first(p) == [stat |-> "SRUN", flag |-> {}, wchan |-> NoChan, whystop |-> "none",
                 wcode |-> "none", parent |-> Parent0[p], sig |-> {}, sigq |-> {},
                 cursig |-> "none", hold |-> {}, ignore |-> ignoredefault,
                 caught |-> {}, sigmask |-> {}, abort |-> FALSE, evpend |-> FALSE,
                 entrystop |-> FALSE]
           born == [pc |-> "trapsig", ctx |-> "trap", ret |-> "kernel",
                    inner |-> "kill", tgt |-> NoProc, sg |-> "none"]
           queue == SetToSeq(Procs)
<1>1. queue \in Seq(Procs) /\ NoDuplicates(queue) /\ ToSet(queue) = Procs
  BY QueueOfAll
<1>2. /\ k = [proc |-> [p \in Procs |-> first(p)], sleepq |-> [b \in Buckets |-> <<>>],
              dispq |-> queue, cur |-> NoProc]
      /\ thr = [p \in Procs |-> born] /\ hi = FALSE
  BY DEF Init
<1>3. \A p \in Procs : first(p) \in ProcRecord
  BY SleepSigAssumption DEF SleepSigAssumption, ProcRecord, Stats, StopWhys, Wcodes, ignoredefault
<1>4. /\ \A p \in Procs : k.proc[p] = first(p)
      /\ k.dispq = queue /\ k.cur = NoProc /\ \A b \in Buckets : k.sleepq[b] = <<>>
      /\ k.sleepq \in [Buckets -> Seq(Procs)]
  <2>1. <<>> \in Seq(Procs)
    OBVIOUS
  <2> HIDE DEF first, queue
  <2> QED
    BY <1>2, <2>1
<1>5. k \in Tables
  <2>1. k = [proc |-> k.proc, sleepq |-> k.sleepq, dispq |-> k.dispq, cur |-> k.cur]
        /\ k.proc = [p \in Procs |-> first(p)]
    <3> HIDE DEF first, queue
    <3> QED
      BY <1>2
  <2> HIDE DEF first, queue
  <2> QED
    BY <1>1, <1>3, <1>4, <2>1 DEF Tables
<1>6. /\ \A p \in Procs : /\ k.proc[p].stat = "SRUN" /\ k.proc[p].wchan = NoChan
                          /\ k.proc[p].parent = Parent0[p] /\ k.proc[p].sig = {}
                          /\ k.proc[p].sigq = {} /\ k.proc[p].cursig = "none"
                          /\ k.proc[p].hold = {} /\ k.proc[p].caught = {}
                          /\ k.proc[p].sigmask = {} /\ k.proc[p].ignore = ignoredefault
                          /\ k.proc[p].wcode = "none" /\ k.proc[p].flag = {}
      /\ \A p \in Procs : k.cur # p
  <2>1. \A p \in Procs : k.cur # p
    <3> HIDE DEF first, queue
    <3> QED
      BY <1>4, ChanFacts
  <2>2. ASSUME NEW p \in Procs
        PROVE  /\ k.proc[p].stat = "SRUN" /\ k.proc[p].wchan = NoChan
               /\ k.proc[p].parent = Parent0[p] /\ k.proc[p].sig = {}
               /\ k.proc[p].sigq = {} /\ k.proc[p].cursig = "none"
               /\ k.proc[p].hold = {} /\ k.proc[p].caught = {}
               /\ k.proc[p].sigmask = {} /\ k.proc[p].ignore = ignoredefault
               /\ k.proc[p].wcode = "none" /\ k.proc[p].flag = {}
    <3>1. k.proc[p] = first(p)
      BY <1>4
    <3> QED
      BY <3>1
  <2> HIDE DEF first
  <2> QED
    BY <2>1, <2>2
<1>7. Consistent(k)
  <2>1. \A b \in Buckets : NoDuplicates(k.sleepq[b]) /\ ToSet(k.sleepq[b]) = {}
    BY <1>4 DEF NoDuplicates, ToSet
  <2> HIDE DEF first, queue
  <2> QED
    BY <1>1, <1>4, <1>6, <2>1 DEF Consistent, OnQueue
<1>8. \A p \in Procs : thr[p].pc = "trapsig" /\ thr[p].ret = "kernel"
  BY <1>2
<1>9. thr \in [Procs -> Threads]
  <2>1. born \in Threads
    BY DEF Threads
  <2> HIDE DEF born
  <2> QED
    BY <1>2, <2>1
<1>10. ASSUME NEW q \in Procs
       PROVE  Off(q, k, thr[q])
  <2>1. Fine(q, k.proc[q], thr[q])
    <3>1. Parent0[q] # q
      BY DEF Setting
    <3>2. "CLD" \in Sigs => "CLD" \in ignoredefault
      BY DEF ignoredefault
    <3>3. \A o \in Procs : NoChan # <<"proc", o>>
      BY ChanFacts
    <3> QED
      BY <1>6, <1>8, <3>1, <3>2, <3>3, NoSignals DEF Fine
  <2>2. Rests(k.proc[q], thr[q])
    BY <1>8 DEF Rests, Running
  <2> QED
    BY <1>8, <2>1, <2>2 DEF Off
<1> QED
  BY <1>2, <1>5, <1>6, <1>7, <1>9, <1>10 DEF SInv, InvAt, Settled

LEMMA NextSettled ==
    ASSUME Setting, SInv, [Next]_vars
    PROVE  SInv'
<1>1. CASE UNCHANGED vars
  <2>1. InvAt(k, thr, hi)
    BY DEF SInv
  <2> QED
    BY <1>1, <2>1, Arrives DEF vars
<1>2. ASSUME NEW p \in Procs, Forced(p)
      PROVE  SInv'
  BY <1>2, IssigRequestedStep, IssigCurrentStep, JobContinuedStep, IssigPendingStep, TrapReturnStep,
     psigStep, ResumeStep, ResumeNwakeStep, ResumeKmemStep, WaitidStep, PIOCWSTOPStep,
     ExitSignalsStep, ExitReleaseStep, ExitZombieStep, TrapStep, SysReturnStep DEF Forced
<1>3. ASSUME NEW p \in Procs, NEW t \in Procs, ProcOp(p, t)
      PROVE  SInv'
  BY <1>3, PIOCSTOPStep, StartWstopStep, PIOCRUNStep, PIOCSSIGStep, PIOCUNKILLStep, PIOCSTRACEStep,
     PIOCSENTRYStep, prcloseStep DEF ProcOp
<1>4. ASSUME NEW p \in Procs, Chosen(p)
      PROVE  SInv'
  BY <1>3, <1>4, PreemptStep, SysEntryStep, SleepCallStep, KillStep, SetSigactStep, SetHoldStep,
     StartWaitStep, StartExitStep DEF Chosen
<1>5. CASE Interrupt
  <2>1. ASSUME NEW d \in Devs, DevIntr(<<"dev", d>>)
        PROVE  SInv'
    <3>1. PICK chan \in Chans : chan = <<"dev", d>>
      BY ChanFacts
    <3> QED
      BY <2>1, <3>1, DevIntrStep
  <2>2. ASSUME DevIntr(KmemChan)
        PROVE  SInv'
    BY <2>2, ChanFacts, DevIntrStep
  <2> QED
    BY <1>5, <2>1, <2>2, SignalIntrStep DEF Interrupt
<1> QED
  BY <1>1, <1>2, <1>4, <1>5, DispatchStep DEF Next

(* The queues, the records and the places of the processes fit in every    *)
(* state: the invariant that the properties follow from, in the Setting.   *)
(* It is kept by every routine of slp.c, sig.c, exit.c and of /proc.       *)
THEOREM SleepInvariant ==
    ASSUME Setting
    PROVE  Spec => []SInv
<1>1. Init => SInv
  BY InitSettled
<1>2. SInv /\ [Next]_vars => SInv'
  BY NextSettled
<1> QED
  BY <1>1, <1>2, PTL DEF Spec

-----------------------------------------------------------------------------
(***************************************************************************)
(* What it says of the properties.                                         *)
(***************************************************************************)
LEMMA Everyone ==
    ASSUME SInv, NEW p \in Procs
    PROVE  /\ Fine(p, k.proc[p], thr[p]) /\ k.proc[p] \in ProcRecord
           /\ InterruptibleSleep(p) => /\ Rests(k.proc[p], thr[p]) /\ Hears(p, k, thr[p])
                                       /\ thr[p].pc = "asleep" /\ k.proc[p].stat = "SSLEEP"
<1>1. k.proc[p] \in ProcRecord
  BY TablesFacts DEF SInv, InvAt, Settled
<1>2. CASE k.cur = p
  BY <1>1, <1>2 DEF SInv, InvAt, On, InterruptibleSleep, Rec
<1>3. CASE k.cur # p
  BY <1>1, <1>3 DEF SInv, InvAt, Settled, Off, InterruptibleSleep, Rec
<1> QED
  BY <1>2, <1>3

LEMMA InvQueues == SInv => QueuesOK
<1>1. SInv => Consistent(k)
  BY DEF SInv, InvAt, Settled
<1> QED
  BY <1>1 DEF Consistent, QueuesOK, SleepQueuesOK, RunnableIsQueued, QueuedIsRunnable, Rec

(* Sleep queues and dispatcher queue agree with p_stat and p_wchan: the    *)
(* assertions of wakeprocs() (slp.c:290) and unsleep() (slp.c:235) hold,   *)
(* and whoever is SRUN can be dispatched.                                  *)
THEOREM QueuesAgree ==
    ASSUME Setting
    PROVE  Spec => []QueuesOK
BY SleepInvariant, InvQueues, PTL

LEMMA InvSignals == SInv => NoLostSignal
<1> SUFFICES ASSUME SInv, NEW p \in Procs, InterruptibleSleep(p)
             PROVE  /\ fsig(k, p) = "none"
                    /\ {"SNOSTOP", "SPROCIO"} \cap k.proc[p].flag = {} =>
                         k.proc[p].cursig = "none" /\ "SPRSTOP" \notin k.proc[p].flag
  BY DEF NoLostSignal, Rec
<1>1. Rests(k.proc[p], thr[p]) /\ thr[p].pc = "asleep" /\ k.proc[p].stat = "SSLEEP"
  BY Everyone
<1>2. k.proc[p].sig \ k.proc[p].hold = {}
  BY <1>1 DEF Rests
<1> QED
  BY <1>1, <1>2 DEF Rests, fsig

(* sleep() never waits with a signal to take, a current signal or a stop   *)
(* request: what sigtoproc(), PIOCSTOP and PIOCSSIG post between its look  *)
(* and its wait wakes it (slp.c:140-177).                                  *)
THEOREM SignalsAreSeen ==
    ASSUME Setting
    PROVE  Spec => []NoLostSignal
BY SleepInvariant, InvSignals, PTL

LEMMA InvStops == SInv => NoMissedStop
<1> SUFFICES ASSUME SInv, NEW d \in Procs, InterruptibleSleep(d), thr[d].ret = "wstop"
             PROVE  Live(thr[d].tgt) /\ ~StoppedByProc(Rec(thr[d].tgt))
  BY DEF NoMissedStop
<1> QED
  BY Everyone DEF Hears, AliveRec, Live, Rec

(* PIOCWSTOP does not sleep through the stop, or the exit, it waits for    *)
(* (prioctl.c:221-228): stop() and exit() wake it.                         *)
THEOREM StopsAreSeen ==
    ASSUME Setting
    PROVE  Spec => []NoMissedStop
BY SleepInvariant, InvStops, PTL

LEMMA InvChildren == SInv => NoMissedChild
<1> SUFFICES ASSUME SInv, NEW p \in Procs, InterruptibleSleep(p), thr[p].ret = "waitid"
             PROVE  /\ Children(k, p) # {}
                    /\ \A c \in Children(k, p) : Rec(c).wcode \notin WaitFor
  BY DEF NoMissedChild
<1> QED
  BY Everyone DEF Hears, Rec

(* waitid() does not sleep while a child has a status it asked for, nor    *)
(* without children (exit.c:408-480): sigcld() wakes it for each status.   *)
THEOREM ChildrenAreSeen ==
    ASSUME Setting
    PROVE  Spec => []NoMissedChild
BY SleepInvariant, InvChildren, PTL

LEMMA InvKill == SInv => KillOverridesStop
<1> SUFFICES ASSUME SInv, NEW p \in Procs
             PROVE  LET x == k.proc[p]
                    IN /\ "KILL" \in x.sig => x.stat # "SSTOP" /\ ~InterruptibleSleep(p)
                       /\ x.cursig = "KILL" /\ "SPROCIO" \notin x.flag =>
                            /\ x.stat # "SSTOP"
                            /\ InterruptibleSleep(p) => "SNOSTOP" \in x.flag
  BY DEF KillOverridesStop, Rec
<1>1. Fine(p, k.proc[p], thr[p]) /\ k.proc[p] \in ProcRecord
  BY Everyone
<1>2. ASSUME InterruptibleSleep(p)
      PROVE  /\ "KILL" \notin k.proc[p].sig
             /\ k.proc[p].cursig = "KILL" /\ "SPROCIO" \notin k.proc[p].flag =>
                  "SNOSTOP" \in k.proc[p].flag
  <2>1. Rests(k.proc[p], thr[p]) /\ thr[p].pc = "asleep" /\ k.proc[p].stat = "SSLEEP"
    BY <1>2, Everyone
  <2> QED
    BY <1>1, <2>1, NoSignals DEF Rests, Fine
<1> QED
  BY <1>1, <1>2 DEF Fine

(* SIGKILL is neither stopped for nor slept through (sig.c:362-369): not   *)
(* while it is pending, and not while it is current, once PIOCSSIG has     *)
(* unlocked the process it set it for, which may have waited for memory in *)
(* between (prioctl.c:325-360).                                            *)
THEOREM KillIsNotStopped ==
    ASSUME Setting
    PROVE  Spec => []KillOverridesStop
BY SleepInvariant, InvKill, PTL

LEMMA InvTypes ==
    SInv => TypeOK /\ PsigHasCursig
<1> SUFFICES ASSUME SInv PROVE TypeOK /\ PsigHasCursig
  OBVIOUS
<1>1. TypeOK
  BY DEF TypeOK, SInv, InvAt, Settled
<1>2. ASSUME NEW p \in Procs, thr[p].pc = "psig"
      PROVE  k.proc[p].cursig # "none" /\ k.proc[p].cursig \notin k.proc[p].ignore
  <2>1. k.cur = p
    BY <1>2 DEF SInv, InvAt, Settled, Off, Rests, Running
  <2> QED
    BY <1>2, <2>1, Here DEF On
<1> QED
  BY <1>1, <1>2 DEF PsigHasCursig, Rec

LEMMA InvCurrent ==
    ASSUME PrSigs \subseteq {"none"}
    PROVE  SInv => ThreadsOK
<1> SUFFICES ASSUME SInv PROVE ThreadsOK
  OBVIOUS
<1>1. ASSUME NEW p \in Procs, thr[p].pc = "exit0"
      PROVE  k.proc[p].cursig = "none"
  <2>1. Fine(p, k.proc[p], thr[p]) /\ k.proc[p] \in ProcRecord
    BY Everyone
  <2> QED
    BY <1>1, <2>1, NoSignals DEF Fine, Asked, ProcRecord
<1> QED
  BY <1>1, InvTypes DEF ThreadsOK, CurrentSignalOK, ExitHasNoCursig, Rec

(* psig() is entered with a current signal that is not ignored, exit()     *)
(* with none (sig.c:449-450, exit.c:152), and every process keeps its      *)
(* type; where no debugger sets a current signal by PIOCSSIG.              *)
THEOREM CurrentSignals ==
    ASSUME Setting, PrSigs \subseteq {"none"}
    PROVE  Spec => []ThreadsOK
BY SleepInvariant, InvCurrent, PTL

LEMMA InvPending ==
    ASSUME ~KmemSleeps
    PROVE  SInv => QueuedIsPending
  BY Everyone DEF Fine, QueuedIsPending, Rec

(* Every entry on a signal queue is that of a pending signal, so that      *)
(* sigaddq() loses none (sig.c:1024-1028), where kmem_alloc() never has to *)
(* wait in sigaddq().                                                      *)
THEOREM EntriesArePending ==
    ASSUME Setting, ~KmemSleeps
    PROVE  Spec => []QueuedIsPending
BY SleepInvariant, InvPending, PTL

\* From this step on p runs for no other reason than StopHolds allows.
Excused(p) ==
    \/ Holds(k.proc[p], k'.proc[p])
    \/ /\ StoppedByProc(k.proc[p])
       /\ k.cur \notin {p, NoProc} /\ "ioctl" \in SysCalls[k.cur] /\ InSysCall(k.cur)

LEMMA IoctlFacts ==
    ASSUME SInv, NEW d \in Procs, NEW t \in Procs, Ioctl(d, t)
    PROVE  k.cur \notin {t, NoProc} /\ "ioctl" \in SysCalls[k.cur] /\ InSysCall(k.cur)
<1>1. k.cur = d /\ d # t
  BY DEF Ioctl, Does, InSysCall, At
<1> QED
  BY <1>1, ProcTableAssumption DEF Ioctl, Does

LEMMA ProcOpHolds ==
    ASSUME Setting, SInv, NEW d \in Procs, NEW t \in Procs, ProcOp(d, t)
    PROVE  \A p \in Procs : Excused(p)
<1>1. CASE PIOCRUN(d, t)
  <2>1. Excused(t)
    BY <1>1, IoctlFacts DEF PIOCRUN, IoctlLocked, Excused, Rec
  <2> QED
    BY <1>1, <2>1, PIOCRUNStep DEF Excused
<1>2. CASE prclose(d, t)
  <2>1. Ioctl(d, t)
    BY <1>2 DEF prclose, IoctlLocked
  <2> QED
    BY <1>2, <2>1, IoctlFacts, prcloseStep DEF Excused
<1>3. CASE \/ PIOCSTOP(d, t) \/ StartWstop(d, t) \/ PIOCSSIG(d, t)
           \/ PIOCUNKILL(d, t) \/ PIOCSTRACE(d, t) \/ PIOCSENTRY(d, t)
  <2>1. Held
    BY <1>3, PIOCSTOPStep, StartWstopStep, PIOCSSIGStep, PIOCUNKILLStep, PIOCSTRACEStep, PIOCSENTRYStep
  <2> QED
    BY <2>1 DEF Held, Excused
<1> QED
  BY <1>1, <1>2, <1>3 DEF ProcOp

LEMMA NextHolds ==
    ASSUME Setting, SInv, [Next]_vars
    PROVE  \A p \in Procs : Excused(p)
<1>1. CASE UNCHANGED vars
  BY <1>1 DEF vars, Excused, Holds
<1>2. ASSUME NEW p \in Procs, Forced(p)
      PROVE  Held
  <2>1. CASE \/ TrapReturn(p) \/ psig(p) \/ Resume(p) \/ ResumeNwake(p)
             \/ ExitSignals(p) \/ Trap(p) \/ SysReturn(p)
    BY <2>1, OwnHeld
  <2>2. CASE PIOCWSTOP(p) \/ ExitRelease(p)
    BY <2>2, SleepsHeld
  <2> QED
    BY <1>2, <2>1, <2>2, IssigRequestedStep, IssigCurrentStep, JobContinuedStep, IssigPendingStep,
       ResumeKmemStep, WaitidStep, ExitZombieStep DEF Forced
<1>3. ASSUME NEW p \in Procs, Chosen(p)
      PROVE  \A q \in Procs : Excused(q)
  <2>1. CASE Preempt(p) \/ SetSigact(p) \/ SetHold(p) \/ StartWait(p) \/ StartExit(p)
    BY <2>1, OwnHeld DEF Held, Excused
  <2>2. CASE SysEntry(p) \/ SleepCall(p) \/ Kill(p)
    BY <2>2, SysEntryStep, SleepsHeld, KillStep DEF Held, Excused
  <2> QED
    BY <1>3, <2>1, <2>2, ProcOpHolds DEF Chosen
<1>4. CASE Interrupt
  <2>1. ASSUME NEW d \in Devs, DevIntr(<<"dev", d>>)
        PROVE  Held
    <3>1. PICK chan \in Chans : chan = <<"dev", d>>
      BY ChanFacts
    <3> QED
      BY <2>1, <3>1, DevIntrStep
  <2>2. ASSUME DevIntr(KmemChan)
        PROVE  Held
    BY <2>2, ChanFacts, DevIntrStep
  <2>3. Held
    BY <1>4, <2>1, <2>2, SignalIntrStep DEF Interrupt
  <2> QED
    BY <2>3 DEF Held, Excused
<1>5. ASSUME NEW p \in Procs, Dispatch(p)
      PROVE  Held
  BY <1>5, DispatchHeld
<1> QED
  <2>1. Held => \A q \in Procs : Excused(q)
    BY DEF Held, Excused
  <2> QED
    BY <2>1, <1>1, <1>2, <1>3, <1>4, <1>5 DEF Next

(* A stop holds: a process that /proc has stopped goes on when a debugger  *)
(* runs it, one that job control has stopped when no stop signal is        *)
(* pending any more, and either one when it is killed; no other signal and *)
(* no wakeup starts it (setrun(), slp.c:387-414, and its callers).         *)
THEOREM StopsHold ==
    ASSUME Setting
    PROVE  Spec => StopHolds
<1>1. SInv /\ [Next]_vars =>
        [\A p \in Procs :
           k.proc[p].stat = "SSTOP" /\ k'.proc[p].stat # "SSTOP" =>
              \/ "KILL" \in k'.proc[p].sig \cup {k'.proc[p].cursig}
              \/ IF StoppedByProc(k.proc[p])
                 THEN k.cur \notin {p, NoProc} /\ "ioctl" \in SysCalls[k.cur]
                      /\ InSysCall(k.cur)
                 ELSE k'.proc[p].sig \cap stopdefault = {}]_vars
  BY NextHolds DEF Excused, Holds, StoppedByProc
<1> QED
  BY <1>1, SleepInvariant, PTL DEF Spec, StopHolds
=============================================================================
