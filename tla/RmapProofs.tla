----------------------------- MODULE RmapProofs -----------------------------
(***************************************************************************)
(* Proofs about Rmap: rmalloc() takes exactly the units that it returns    *)
(* off the map and rmfree() puts exactly the units that are freed on it,   *)
(* and both keep its order. Before them, what RemoveAt and InsertAt return.*)
(***************************************************************************)
EXTENDS Rmap, NatProofs, SequenceTheorems

-----------------------------------------------------------------------------
\* The sequence without its i-th element.
LEMMA RemoveAtProperties ==
  ASSUME NEW S, NEW s \in Seq(S), NEW i \in 1 .. Len(s)
  PROVE  /\ RemoveAt(s, i) \in Seq(S)
         /\ Len(RemoveAt(s, i)) = Len(s) - 1
         /\ \A j \in 1 .. Len(s) - 1 : RemoveAt(s, i)[j] = IF j < i THEN s[j] ELSE s[j + 1]
<1> DEFINE a == SubSeq(s, 1, i - 1)
           b == SubSeq(s, i + 1, Len(s))
<1>1. Len(s) \in Nat /\ \A j \in 1 .. Len(s) : s[j] \in S
  BY ElementOfSeq
<1>2. a \in Seq(S) /\ Len(a) = i - 1 /\ \A j \in 1 .. i - 1 : a[j] = s[j]
  <2>1. \A j \in 1 .. i - 1 : s[j] \in S
    BY <1>1
  <2> HIDE DEF a
  <2> QED
    BY <2>1, <1>1, SubSeqProperties DEF a
<1>3. b \in Seq(S) /\ Len(b) = Len(s) - i /\ \A j \in 1 .. Len(s) - i : b[j] = s[i + j]
  <2>1. \A j \in i + 1 .. Len(s) : s[j] \in S
    BY <1>1
  <2>2. /\ b \in Seq(S)
        /\ Len(b) = IF i + 1 <= Len(s) THEN Len(s) - (i + 1) + 1 ELSE 0
        /\ \A j \in 1 .. Len(s) - (i + 1) + 1 : b[j] = s[i + 1 + j - 1]
    BY <2>1, <1>1, SubSeqProperties
  <2> QED
    BY <2>2, <1>1
<1>4. /\ a \o b \in Seq(S)
      /\ Len(a \o b) = Len(a) + Len(b)
      /\ \A j \in 1 .. Len(a) + Len(b) :
           (a \o b)[j] = IF j <= Len(a) THEN a[j] ELSE b[j - Len(a)]
  BY <1>2, <1>3, ConcatProperties
<1> DEFINE c == a \o b
<1> HIDE DEF a, b, c
<1>5. c \in Seq(S) /\ Len(c) = Len(s) - 1
  BY <1>1, <1>2, <1>3, <1>4 DEF c
<1>6. ASSUME NEW j \in 1 .. Len(s) - 1
      PROVE  c[j] = IF j < i THEN s[j] ELSE s[j + 1]
  <2>1. c[j] = IF j <= Len(a) THEN a[j] ELSE b[j - Len(a)]
    BY <1>1, <1>2, <1>3, <1>4 DEF c
  <2>2. CASE j < i
    BY <2>1, <2>2, <1>1, <1>2
  <2>3. CASE ~(j < i)
    <3>1. j - (i - 1) \in 1 .. Len(s) - i
      BY <2>3, <1>1
    <3>2. b[j - (i - 1)] = s[i + (j - (i - 1))]
      BY <3>1, <1>3
    <3>3. i + (j - (i - 1)) = j + 1
      BY <1>1
    <3> QED
      BY <2>1, <2>3, <3>2, <3>3, <1>1, <1>2
  <2> QED
    BY <2>2, <2>3
<1>7. RemoveAt(s, i) = c
  BY DEF RemoveAt, a, b, c
<1> QED
  BY <1>5, <1>6, <1>7

\* The sequence with x before its i-th element.
LEMMA InsertAtProperties ==
  ASSUME NEW S, NEW s \in Seq(S), NEW i \in 1 .. Len(s) + 1, NEW x \in S
  PROVE  /\ InsertAt(s, i, x) \in Seq(S)
         /\ Len(InsertAt(s, i, x)) = Len(s) + 1
         /\ \A j \in 1 .. i - 1 : InsertAt(s, i, x)[j] = s[j]
         /\ InsertAt(s, i, x)[i] = x
         /\ \A j \in i .. Len(s) : InsertAt(s, i, x)[j + 1] = s[j]
<1> DEFINE a == SubSeq(s, 1, i - 1)
           b == SubSeq(s, i, Len(s))
           c == a \o <<x>>
<1>1. Len(s) \in Nat /\ \A j \in 1 .. Len(s) : s[j] \in S
  BY ElementOfSeq
<1>2. a \in Seq(S) /\ Len(a) = i - 1 /\ \A j \in 1 .. i - 1 : a[j] = s[j]
  <2>1. \A j \in 1 .. i - 1 : s[j] \in S
    BY <1>1
  <2> HIDE DEF a
  <2> QED
    BY <2>1, <1>1, SubSeqProperties DEF a
<1>3. b \in Seq(S) /\ Len(b) = Len(s) - i + 1
      /\ \A j \in 1 .. Len(s) - i + 1 : b[j] = s[i + j - 1]
  <2>1. \A j \in i .. Len(s) : s[j] \in S
    BY <1>1
  <2>2. /\ b \in Seq(S)
        /\ Len(b) = IF i <= Len(s) THEN Len(s) - i + 1 ELSE 0
        /\ \A j \in 1 .. Len(s) - i + 1 : b[j] = s[i + j - 1]
    BY <2>1, <1>1, SubSeqProperties
  <2> QED
    BY <2>2, <1>1
<1>4. c \in Seq(S) /\ Len(c) = i /\ \A j \in 1 .. i : c[j] = IF j < i THEN s[j] ELSE x
  <2>1. <<x>> \in Seq(S) /\ Len(<<x>>) = 1 /\ <<x>>[1] = x
    OBVIOUS
  <2> HIDE DEF a
  <2>2. /\ c \in Seq(S)
        /\ Len(c) = Len(a) + Len(<<x>>)
        /\ \A j \in 1 .. Len(a) + Len(<<x>>) :
             c[j] = IF j <= Len(a) THEN a[j] ELSE <<x>>[j - Len(a)]
    BY <2>1, <1>2, ConcatProperties
  <2> HIDE DEF c
  <2> QED
    BY <2>1, <2>2, <1>1, <1>2
<1> HIDE DEF a, b, c
<1>5. /\ c \o b \in Seq(S)
      /\ Len(c \o b) = Len(c) + Len(b)
      /\ \A j \in 1 .. Len(c) + Len(b) :
           (c \o b)[j] = IF j <= Len(c) THEN c[j] ELSE b[j - Len(c)]
  BY <1>3, <1>4, ConcatProperties
<1>6. \A j \in 1 .. Len(s) + 1 :
        (c \o b)[j] = IF j < i THEN s[j] ELSE IF j = i THEN x ELSE s[j - 1]
  BY <1>1, <1>3, <1>4, <1>5
<1>7. /\ \A j \in 1 .. i - 1 : (c \o b)[j] = s[j]
      /\ (c \o b)[i] = x
      /\ \A j \in i .. Len(s) : (c \o b)[j + 1] = s[j]
  <2>1. ASSUME NEW j \in 1 .. i - 1
        PROVE  (c \o b)[j] = s[j]
    <3>1. j \in 1 .. Len(s) + 1 /\ j < i
      BY <1>1
    <3> QED
      BY <3>1, <1>6
  <2>2. (c \o b)[i] = x
    <3>1. i \in 1 .. Len(s) + 1 /\ ~(i < i)
      BY <1>1
    <3> QED
      BY <3>1, <1>6
  <2>3. ASSUME NEW j \in i .. Len(s)
        PROVE  (c \o b)[j + 1] = s[j]
    <3>1. j + 1 \in 1 .. Len(s) + 1 /\ ~(j + 1 < i) /\ j + 1 # i /\ (j + 1) - 1 = j
      BY <1>1
    <3> QED
      BY <3>1, <1>6
  <2> QED
    BY <2>1, <2>2, <2>3
<1>8. InsertAt(s, i, x) = c \o b
  BY DEF InsertAt, a, b, c
<1> QED
  BY <1>1, <1>3, <1>4, <1>5, <1>7, <1>8

-----------------------------------------------------------------------------
Ent == [addr: Nat, size: Nat]
Piece(a, size) == a .. a + size - 1

LEMMA MapFacts ==
  ASSUME NEW m \in MapType
  PROVE  /\ m = [ents |-> m.ents, slots |-> m.slots]
         /\ m.ents \in Seq(Ent) /\ m.slots \in Nat
         /\ Len(m.ents) \in Nat /\ DOMAIN m.ents = 1 .. Len(m.ents)
         /\ \A i \in 1 .. Len(m.ents) : m.ents[i] \in Ent
<1>1. m.ents \in Seq(Ent) /\ m.slots \in Nat /\ m = [ents |-> m.ents, slots |-> m.slots]
  BY DEF MapType, Ent
<1> QED
  BY <1>1, LenProperties, ElementOfSeq

\* Which units a map has free.
LEMMA InUnits ==
  ASSUME NEW m \in MapType, NEW u
  PROVE  u \in UnitsOf(m) <=>
           u \in Int /\ \E i \in 1 .. Len(m.ents) : m.ents[i].addr <= u /\ u < End(m.ents[i])
<1>1. \A i \in 1 .. Len(m.ents) : m.ents[i].addr \in Nat /\ End(m.ents[i]) \in Nat
  BY MapFacts DEF Ent, End
<1>2. u \in UnitsOf(m) <=>
        \E i \in 1 .. Len(m.ents) : u \in m.ents[i].addr .. End(m.ents[i]) - 1
  BY MapFacts DEF UnitsOf
<1> QED
  BY <1>1, <1>2

\* The same map, said of the sequence of runs.
InOrder(ents) == \A i \in 1 .. Len(ents) :
  /\ ents[i].addr > 0 /\ ents[i].size > 0
  /\ \A j \in 1 .. i - 1 : End(ents[j]) < ents[i].addr

LEMMA MapOKIsInOrder ==
  ASSUME NEW m \in MapType
  PROVE  MapOK(m) <=> InOrder(m.ents)
BY MapFacts DEF MapOK, InOrder

\* What rmalloc() returns is a run of units that were free; these, and no
\* others, are not free any more.
THEOREM RmallocTakes ==
  ASSUME NEW m \in MapType, MapOK(m), NEW size \in Nat
  PROVE  LET r == rmalloc(m, size)
         IN  /\ r.addr \in Nat /\ r.map \in MapType /\ MapOK(r.map)
             /\ r.addr = 0 => r.map = m
             /\ r.addr # 0 => /\ size > 0 /\ Piece(r.addr, size) \subseteq UnitsOf(m)
                              /\ UnitsOf(r.map) = UnitsOf(m) \ Piece(r.addr, size)
<1> DEFINE r == rmalloc(m, size)
<1>1. CASE size = 0 \/ Fitting(m, size) = {}
  <2>1. r = [addr |-> 0, map |-> m]
    BY <1>1 DEF rmalloc
  <2> QED
    BY <2>1
<1>2. CASE size # 0 /\ Fitting(m, size) # {}
  <2> DEFINE F == Fitting(m, size)
             i == CHOOSE x \in F : \A y \in F : x <= y
             e == m.ents[i]
             n == Len(m.ents)
  <2>0. m.ents \in Seq(Ent) /\ n \in Nat /\ \A j \in 1 .. n : m.ents[j] \in Ent
    BY MapFacts
  <2>1. i \in F
    <3>1. F \in SUBSET Nat
      BY MapFacts DEF Fitting
    <3>2. \E x \in F : \A y \in F : x <= y
      BY <1>2, <3>1, LeastNat
    <3> QED
      BY <3>2
  <2>2. i \in 1 .. n /\ e.size >= size
    BY <2>1, MapFacts DEF Fitting
  <2>3. InOrder(m.ents)
    BY MapOKIsInOrder
  <2>4. e.addr \in Nat /\ e.size \in Nat /\ e.addr > 0 /\ e.size > 0
    BY <2>2, <2>3, <2>0 DEF InOrder, Ent
  <2> DEFINE em == IF e.size = size
                   THEN [ents |-> RemoveAt(m.ents, i), slots |-> m.slots + 1]
                   ELSE [m EXCEPT !.ents[i] = [addr |-> e.addr + size, size |-> e.size - size]]
  <2>5. r = [addr |-> e.addr, map |-> em]
    BY <1>2 DEF rmalloc
  <2> HIDE DEF i, r
  <2>6. \A j \in 1 .. n : /\ m.ents[j].addr \in Nat /\ m.ents[j].size \in Nat
                          /\ m.ents[j].size > 0 /\ m.ents[j].addr > 0
                          /\ End(m.ents[j]) = m.ents[j].addr + m.ents[j].size
                          /\ \A k \in 1 .. j - 1 : End(m.ents[k]) < m.ents[j].addr
    BY <2>0, <2>3 DEF InOrder, Ent, End
  <2>9. ASSUME NEW u \in Int, NEW j \in 1 .. n, j # i, e.addr <= u, u < End(e)
        PROVE  ~(m.ents[j].addr <= u /\ u < End(m.ents[j]))
    <3> DEFINE x == m.ents[j]
    <3>1. x.addr \in Nat /\ End(x) \in Nat /\ e.addr \in Nat /\ End(e) \in Nat
      BY SMTT(30), <2>2, <2>6 DEF End
    <3>2. CASE j < i
      <4>1. End(x) < e.addr
        <5>1. i \in 1 .. n /\ j \in 1 .. i - 1
          BY <2>0, <2>2, <2>9, <3>2
        <5>2. End(m.ents[j]) < m.ents[i].addr
          BY <2>6, <5>1
        <5> QED
          BY <5>2
      <4> HIDE DEF x
      <4> QED
        BY <2>9, <3>1, <4>1 DEF x
    <3>3. CASE i < j
      <4>1. End(e) < x.addr
        BY <2>0, <2>2, <2>6, <3>3
      <4> HIDE DEF x
      <4> QED
        BY <2>9, <3>1, <4>1 DEF x
    <3> QED
      BY <2>0, <2>2, <2>9, <3>2, <3>3
  <2>7. CASE e.size = size
    <3>1. em = [ents |-> RemoveAt(m.ents, i), slots |-> m.slots + 1]
      BY <2>7
    <3> DEFINE t == RemoveAt(m.ents, i)
    <3>2. /\ t \in Seq(Ent) /\ Len(t) = n - 1
          /\ \A j \in 1 .. n - 1 : t[j] = IF j < i THEN m.ents[j] ELSE m.ents[j + 1]
      BY <2>0, <2>2, RemoveAtProperties
    <3> HIDE DEF t, em
    <3>3. em \in MapType /\ em.ents = t
      BY <3>1, <3>2, MapFacts DEF MapType, Ent, t
    <3>4. InOrder(t)
      <4> DEFINE at(j) == IF j < i THEN j ELSE j + 1
      <4>1. \A j \in 1 .. n - 1 : at(j) \in 1 .. n /\ t[j] = m.ents[at(j)]
        BY <3>2, <2>0, <2>2
      <4>2. \A j \in 1 .. n - 1 : \A k \in 1 .. j - 1 :
              k \in 1 .. n - 1 /\ at(k) \in 1 .. at(j) - 1
        BY <2>0, <2>2
      <4> HIDE DEF at
      <4>3. ASSUME NEW j \in 1 .. n - 1
            PROVE  /\ t[j].addr > 0 /\ t[j].size > 0
                   /\ \A k \in 1 .. j - 1 : End(t[k]) < t[j].addr
        BY <4>1, <4>2, <2>6
      <4> QED
        BY <4>3, <3>2 DEF InOrder
    <3>5. Piece(e.addr, size) \subseteq UnitsOf(m)
      BY <2>2, <2>4, <2>6, <2>7, InUnits DEF Piece
    <3>6. ASSUME NEW u \in Int
          PROVE  u \in UnitsOf(em) <=> u \in UnitsOf(m) /\ u \notin Piece(e.addr, size)
      <4>1. u \in UnitsOf(em) <=> \E j \in 1 .. n - 1 : t[j].addr <= u /\ u < End(t[j])
        BY <3>2, <3>3, InUnits
      <4>2. u \in UnitsOf(m) <=>
              \E j \in 1 .. n : m.ents[j].addr <= u /\ u < End(m.ents[j])
        BY InUnits
      <4>3. u \in Piece(e.addr, size) <=> e.addr <= u /\ u < End(e)
        BY <2>2, <2>4, <2>6, <2>7 DEF Piece
      <4>4. \A j \in 1 .. n : j # i =>
              ~(e.addr <= u /\ u < End(e) /\ m.ents[j].addr <= u /\ u < End(m.ents[j]))
        BY <2>9
      <4>5. ASSUME NEW j \in 1 .. n - 1, t[j].addr <= u, u < End(t[j])
            PROVE  \E k \in 1 .. n : k # i /\ m.ents[k].addr <= u /\ u < End(m.ents[k])
        <5>1. CASE j < i
          <6>1. j \in 1 .. n /\ j # i /\ t[j] = m.ents[j]
            BY <5>1, <3>2, <2>0, <2>2
          <6> QED
            BY <6>1, <4>5
        <5>2. CASE ~(j < i)
          <6>1. j + 1 \in 1 .. n /\ j + 1 # i /\ t[j] = m.ents[j + 1]
            BY <5>2, <3>2, <2>0, <2>2
          <6> QED
            BY <6>1, <4>5
        <5> QED
          BY <5>1, <5>2
      <4>6. ASSUME NEW k \in 1 .. n, k # i, m.ents[k].addr <= u, u < End(m.ents[k])
            PROVE  \E j \in 1 .. n - 1 : t[j].addr <= u /\ u < End(t[j])
        <5>1. CASE k < i
          <6>1. k \in 1 .. n - 1 /\ t[k] = m.ents[k]
            BY <5>1, <3>2, <2>0, <2>2
          <6> QED
            BY <6>1, <4>6
        <5>2. CASE ~(k < i)
          <6>1. k - 1 \in 1 .. n - 1 /\ t[k - 1] = m.ents[k]
            BY <5>2, <4>6, <3>2, <2>0, <2>2
          <6> QED
            BY <6>1, <4>6
        <5> QED
          BY <5>1, <5>2
      <4> QED
        BY <4>1, <4>2, <4>3, <4>4, <4>5, <4>6
    <3>7. UnitsOf(em) = UnitsOf(m) \ Piece(e.addr, size)
      <4>1. UnitsOf(em) \subseteq Int /\ UnitsOf(m) \subseteq Int
        BY <3>3, InUnits
      <4> QED
        BY <4>1, <3>6
    <3>8. r.addr = e.addr /\ r.map = em /\ size > 0 /\ e.addr # 0 /\ MapOK(em)
      BY <1>2, <2>4, <2>5, <3>3, <3>4, MapOKIsInOrder
    <3> QED
      BY <3>8, <2>4, <3>3, <3>5, <3>7 DEF r
  <2>8. CASE e.size # size
    <3> DEFINE t == [m.ents EXCEPT ![i] = [addr |-> e.addr + size, size |-> e.size - size]]
    <3>1. em = [ents |-> t, slots |-> m.slots]
      BY <2>8, MapFacts
    <3>2. [addr |-> e.addr + size, size |-> e.size - size] \in Ent
      BY <2>2, <2>4 DEF Ent
    <3>3. /\ t \in Seq(Ent) /\ Len(t) = n
          /\ \A j \in 1 .. n : t[j] = IF j = i THEN [addr |-> e.addr + size, size |-> e.size - size]
                                      ELSE m.ents[j]
      BY <3>2, <2>0, <2>2, ExceptSeq
    <3> HIDE DEF t, em
    <3>4. em \in MapType /\ em.ents = t
      BY <3>1, <3>3, MapFacts DEF MapType, Ent
    <3>5. /\ t[i].addr = e.addr + size /\ t[i].size = e.size - size /\ End(t[i]) = End(e)
          /\ \A j \in 1 .. n : j # i => t[j] = m.ents[j]
      BY <3>3, <2>2, <2>4, <2>6 DEF End
    <3>6. InOrder(t)
      <4>1. \A j \in 1 .. n : /\ t[j].addr \in Nat /\ t[j].size > 0
                              /\ t[j].addr >= m.ents[j].addr /\ End(t[j]) = End(m.ents[j])
        <5>1. /\ t[i].addr \in Nat /\ t[i].size > 0
              /\ t[i].addr >= m.ents[i].addr /\ End(t[i]) = End(m.ents[i])
          BY <3>5, <2>2, <2>4, <2>6, <2>8
        <5>2. ASSUME NEW j \in 1 .. n, j # i
              PROVE  /\ t[j].addr \in Nat /\ t[j].size > 0
                     /\ t[j].addr >= m.ents[j].addr /\ End(t[j]) = End(m.ents[j])
          <6>1. t[j] = m.ents[j]
            BY <3>5, <5>2
          <6>2. m.ents[j].addr \in Nat /\ m.ents[j].size > 0
            BY <2>6
          <6> QED
            BY <6>1, <6>2
        <5> QED
          BY <5>1, <5>2
      <4>2. ASSUME NEW j \in 1 .. n
            PROVE  /\ t[j].addr > 0 /\ t[j].size > 0
                   /\ \A k \in 1 .. j - 1 : End(t[k]) < t[j].addr
        <5>1. ASSUME NEW k \in 1 .. j - 1
              PROVE  End(t[k]) < t[j].addr
          <6>1. k \in 1 .. n
            BY <2>0
          <6>2. End(t[k]) = End(m.ents[k]) /\ End(m.ents[k]) \in Nat
            BY <6>1, <4>1, <2>6
          <6>3. End(m.ents[k]) < m.ents[j].addr
            BY <2>6
          <6>4. m.ents[j].addr <= t[j].addr /\ t[j].addr \in Nat /\ m.ents[j].addr \in Nat
            BY <4>1, <2>6
          <6> QED
            BY <6>2, <6>3, <6>4
        <5>2. t[j].addr > 0 /\ t[j].size > 0
          BY <4>1, <2>6
        <5> QED
          BY <5>1, <5>2
      <4> QED
        BY <4>2, <3>3 DEF InOrder
    <3>7. Piece(e.addr, size) \subseteq UnitsOf(m)
      BY <2>2, <2>4, <2>6, InUnits DEF Piece
    <3>8. ASSUME NEW u \in Int
          PROVE  u \in UnitsOf(em) <=> u \in UnitsOf(m) /\ u \notin Piece(e.addr, size)
      <4>1. u \in UnitsOf(em) <=> \E j \in 1 .. n : t[j].addr <= u /\ u < End(t[j])
        BY <3>3, <3>4, InUnits
      <4>2. u \in UnitsOf(m) <=>
              \E j \in 1 .. n : m.ents[j].addr <= u /\ u < End(m.ents[j])
        BY InUnits
      <4>3. u \in Piece(e.addr, size) <=> e.addr <= u /\ u < e.addr + size
        BY <2>4 DEF Piece
      <4>4. \A j \in 1 .. n : j # i =>
              ~(e.addr <= u /\ u < End(e) /\ m.ents[j].addr <= u /\ u < End(m.ents[j]))
        BY <2>9
      <4>5. End(e) = e.addr + e.size
        BY <2>6, <2>2
      <4>6. ASSUME NEW j \in 1 .. n, t[j].addr <= u, u < End(t[j])
            PROVE  u \in UnitsOf(m) /\ u \notin Piece(e.addr, size)
        <5>1. CASE j = i
          BY <5>1, <4>2, <4>3, <4>5, <4>6, <3>5, <2>2, <2>4
        <5>2. CASE j # i
          <6>1. ~(e.addr <= u /\ u < End(e))
            BY <5>2, <4>4, <4>6, <3>5
          <6> QED
            BY SMTT(30), <5>2, <6>1, <4>2, <4>3, <4>5, <4>6, <3>5, <2>2, <2>4
        <5> QED
          BY <5>1, <5>2
      <4>7. ASSUME NEW j \in 1 .. n, m.ents[j].addr <= u, u < End(m.ents[j]),
                   u \notin Piece(e.addr, size)
            PROVE  t[j].addr <= u /\ u < End(t[j])
        <5>1. CASE j = i
          BY <5>1, <4>3, <4>7, <3>5, <2>2, <2>4
        <5>2. CASE j # i
          BY <5>2, <4>7, <3>5
        <5> QED
          BY <5>1, <5>2
      <4> QED
        BY <4>1, <4>2, <4>6, <4>7
    <3>9. UnitsOf(em) = UnitsOf(m) \ Piece(e.addr, size)
      <4>1. UnitsOf(em) \subseteq Int /\ UnitsOf(m) \subseteq Int
        BY <3>4, InUnits
      <4> QED
        BY <4>1, <3>8
    <3>10. r.addr = e.addr /\ r.map = em /\ size > 0 /\ e.addr # 0 /\ MapOK(em)
      BY <1>2, <2>4, <2>5, <3>4, <3>6, MapOKIsInOrder
    <3> QED
      BY <3>10, <2>4, <3>4, <3>7, <3>9 DEF r
  <2> QED
    BY <2>7, <2>8
<1> QED
  BY <1>1, <1>2

-----------------------------------------------------------------------------
\* Where a run that is freed belongs: the runs up to Preceding(m, a) end at a or
\* before, the others begin behind it.
LEMMA PrecedingSplits ==
  ASSUME NEW m \in MapType, MapOK(m), NEW size \in Nat \ {0}, NEW a \in Nat \ {0},
         Piece(a, size) \intersect UnitsOf(m) = {}
  PROVE  LET p == Preceding(m, a)
             n == Len(m.ents)
         IN  /\ p \in 0 .. n
             /\ \A j \in 1 .. p : End(m.ents[j]) <= a /\ (j < p => End(m.ents[j]) < a)
             /\ \A j \in p + 1 .. n :
                  a + size <= m.ents[j].addr /\ (j > p + 1 => a + size < m.ents[j].addr)
<1> DEFINE n == Len(m.ents)
           B == {0} \union Before(m, a)
           p == Preceding(m, a)
<1>1. n \in Nat /\ \A j \in 1 .. n : /\ m.ents[j].addr \in Nat /\ m.ents[j].size \in Nat
                                     /\ m.ents[j].size > 0
                                     /\ End(m.ents[j]) = m.ents[j].addr + m.ents[j].size
                                     /\ \A k \in 1 .. j - 1 : End(m.ents[k]) < m.ents[j].addr
  BY MapFacts, MapOKIsInOrder DEF InOrder, Ent, End
<1>2. p \in B /\ \A j \in Before(m, a) : j <= p
  <2>1. B \in SUBSET (0 .. n)
    BY MapFacts DEF Before
  <2>2. \E x \in B : \A y \in B : y <= x
    BY <2>1, <1>1, GreatestNat
  <2>3. \E x \in {0} \union Before(m, a) : \A j \in Before(m, a) : j <= x
    BY <2>2
  <2> QED
    BY <2>3 DEF Preceding
<1> HIDE DEF p
<1>3. p \in 0 .. n
  BY <1>2, MapFacts, <1>1 DEF Before
<1>4. \A j \in p + 1 .. n : m.ents[j].addr > a
  <2>1. \A j \in 1 .. n : m.ents[j].addr <= a => j <= p
    BY <1>2, MapFacts DEF Before
  <2> QED
    BY <2>1, <1>1, <1>3
<1>5. \A j \in 1 .. p : m.ents[j].addr <= a
  <2>1. p > 0 => m.ents[p].addr <= a
    BY <1>2, <1>3 DEF Before
  <2>2. ASSUME NEW j \in 1 .. p - 1
        PROVE  m.ents[j].addr <= a
    <3>1. p \in 1 .. n /\ j \in 1 .. n
      BY <1>3
    <3>2. End(m.ents[j]) < m.ents[p].addr
      BY <3>1, <1>1
    <3> QED
      BY <3>1, <3>2, <2>1, <1>1
  <2> QED
    BY <2>1, <2>2, <1>3
<1>6. ASSUME NEW j \in 1 .. p
      PROVE  End(m.ents[j]) <= a /\ (j < p => End(m.ents[j]) < a)
  <2>1. j \in 1 .. n /\ a \in Piece(a, size)
    BY <1>3 DEF Piece
  <2>2. ~(a < End(m.ents[j]))
    BY <2>1, <1>5, InUnits
  <2>3. j < p => p \in 1 .. n /\ j \in 1 .. p - 1 /\ p \in 1 .. p
    BY <1>3
  <2>4. j < p => End(m.ents[j]) < m.ents[p].addr /\ m.ents[p].addr <= a /\ m.ents[p].addr \in Nat
    BY <2>3, <1>1, <1>5
  <2>5. End(m.ents[j]) \in Nat
    BY <2>1, <1>1
  <2> QED
    BY <2>2, <2>4, <2>5
<1>7. ASSUME NEW j \in p + 1 .. n
      PROVE  a + size <= m.ents[j].addr
  <2>1. j \in 1 .. n
    BY <1>3
  <2>2. m.ents[j].addr \in UnitsOf(m)
    BY <2>1, <1>1, InUnits
  <2> QED
    BY <2>1, <2>2, <1>1, <1>4 DEF Piece
<1>8. ASSUME NEW j \in p + 2 .. n
      PROVE  a + size < m.ents[j].addr
  <2>1. j \in 1 .. n /\ p + 1 \in 1 .. j - 1 /\ p + 1 \in p + 1 .. n /\ p + 1 \in 1 .. n
    BY <1>3
  <2>2. End(m.ents[p + 1]) < m.ents[j].addr /\ a + size <= m.ents[p + 1].addr
    BY <2>1, <1>1, <1>7
  <2>3. /\ m.ents[j].addr \in Nat /\ m.ents[p + 1].addr \in Nat
        /\ m.ents[p + 1].addr < End(m.ents[p + 1]) /\ End(m.ents[p + 1]) \in Nat
    BY <2>1, <1>1
  <2> QED
    BY <2>2, <2>3
<1> QED
  BY <1>3, <1>6, <1>7, <1>8, <1>1 DEF p

\* After rmfree() the units that are freed, and what was free before, are free;
\* unless the map is full, when it stays as it is.
THEOREM RmfreeReturns ==
  ASSUME NEW m \in MapType, MapOK(m), NEW size \in Nat \ {0}, NEW a \in Nat \ {0},
         Piece(a, size) \intersect UnitsOf(m) = {}, ~Overflows(m, size, a)
  PROVE  LET r == rmfree(m, size, a)
         IN  /\ r \in MapType /\ MapOK(r)
             /\ UnitsOf(r) = UnitsOf(m) \union Piece(a, size)
<1> DEFINE n == Len(m.ents)
           p == Preceding(m, a)
           r == rmfree(m, size, a)
           left == JoinsLeft(m, a)
           right == JoinsRight(m, size, a)
<1>1. /\ m.ents \in Seq(Ent) /\ n \in Nat
      /\ \A j \in 1 .. n : /\ m.ents[j] \in Ent
                           /\ m.ents[j].addr \in Nat /\ m.ents[j].size \in Nat
                           /\ m.ents[j].addr > 0 /\ m.ents[j].size > 0
                           /\ End(m.ents[j]) = m.ents[j].addr + m.ents[j].size
                           /\ \A k \in 1 .. j - 1 : End(m.ents[k]) < m.ents[j].addr
  BY MapFacts, MapOKIsInOrder DEF InOrder, Ent, End
<1>2. /\ p \in 0 .. n
      /\ \A j \in 1 .. p : End(m.ents[j]) <= a /\ (j < p => End(m.ents[j]) < a)
      /\ \A j \in p + 1 .. n :
           a + size <= m.ents[j].addr /\ (j > p + 1 => a + size < m.ents[j].addr)
  BY PrecedingSplits
<1>3. left <=> p > 0 /\ End(m.ents[p]) = a
  BY DEF JoinsLeft
<1>4. right <=> p < n /\ a + size = m.ents[p + 1].addr
  BY DEF JoinsRight
<1>5. left \/ right \/ m.slots \in Nat \ {0}
  BY MapFacts DEF Overflows
<1> HIDE DEF p, left, right
\* It is enough to say what the new sequence of runs is.
<1>6. ASSUME NEW t \in Seq(Ent), NEW slots \in Nat, r = [ents |-> t, slots |-> slots],
             InOrder(t),
             \A u \in Int : (\E j \in 1 .. Len(t) : t[j].addr <= u /\ u < End(t[j]))
                <=> (\E j \in 1 .. n : m.ents[j].addr <= u /\ u < End(m.ents[j]))
                    \/ (a <= u /\ u < a + size)
      PROVE  r \in MapType /\ MapOK(r) /\ UnitsOf(r) = UnitsOf(m) \union Piece(a, size)
  <2> HIDE DEF r
  <2>1. r \in MapType /\ r.ents = t
    BY <1>6 DEF MapType, Ent
  <2>2. MapOK(r)
    BY <2>1, <1>6, MapOKIsInOrder
  <2>3. \A u \in Int : u \in UnitsOf(r) <=> u \in UnitsOf(m) \/ u \in Piece(a, size)
    BY <2>1, <1>6, InUnits DEF Piece
  <2>4. UnitsOf(r) \subseteq Int /\ UnitsOf(m) \subseteq Int /\ Piece(a, size) \subseteq Int
    BY <2>1, InUnits DEF Piece
  <2> QED
    BY <2>1, <2>2, <2>3, <2>4

<1>7. CASE left /\ right
  <2> DEFINE x == [addr |-> m.ents[p].addr,
                   size |-> m.ents[p].size + size + m.ents[p + 1].size]
             w == [m.ents EXCEPT ![p] = x]
             t == RemoveAt(w, p + 1)
  <2>0. p \in 1 .. n - 1 /\ p \in 1 .. n /\ p + 1 \in 1 .. n
    BY <1>7, <1>1, <1>2, <1>3, <1>4
  <2>1. /\ x \in Ent /\ x.addr = m.ents[p].addr /\ x.size > 0 /\ End(x) = End(m.ents[p + 1])
        /\ a = End(m.ents[p]) /\ a + size = m.ents[p + 1].addr
    <3>1. m.ents[p].addr \in Nat /\ m.ents[p].size \in Nat /\ m.ents[p].size > 0
          /\ m.ents[p + 1].size \in Nat /\ m.ents[p + 1].addr \in Nat
      BY <2>0, <1>1
    <3>2. m.ents[p].addr + m.ents[p].size = a /\ a + size = m.ents[p + 1].addr
          /\ End(m.ents[p + 1]) = m.ents[p + 1].addr + m.ents[p + 1].size
      BY <1>7, <1>1, <1>3, <1>4, <2>0
    <3>3. End(x) = x.addr + x.size
      BY DEF End
    <3> QED
      BY <3>1, <3>2, <3>3, <1>7, <1>3 DEF Ent
  <2>2. r = [ents |-> t, slots |-> m.slots + 1]
    BY <1>7, <1>5 DEF rmfree, p, left, right, Overflows
  <2> HIDE DEF x
  <2>3. w \in Seq(Ent) /\ Len(w) = n /\ \A j \in 1 .. n : w[j] = IF j = p THEN x ELSE m.ents[j]
    BY <2>0, <2>1, <1>1, ExceptSeq
  <2> HIDE DEF w
  <2>4. t \in Seq(Ent) /\ Len(t) = n - 1
        /\ \A j \in 1 .. n - 1 : t[j] = IF j < p + 1 THEN w[j] ELSE w[j + 1]
    <3>1. p + 1 \in 1 .. Len(w)
      BY <2>0, <2>3
    <3>2. /\ t \in Seq(Ent) /\ Len(t) = Len(w) - 1
          /\ \A j \in 1 .. Len(w) - 1 : t[j] = IF j < p + 1 THEN w[j] ELSE w[j + 1]
      BY <3>1, <2>3, RemoveAtProperties
    <3> QED
      BY <3>2, <2>3
  <2> HIDE DEF t
  <2>5. /\ t[p] = x
        /\ \A j \in 1 .. p - 1 : j \in 1 .. n /\ t[j] = m.ents[j]
        /\ \A j \in p + 1 .. n - 1 : j + 1 \in 1 .. n /\ t[j] = m.ents[j + 1]
    <3>1. t[p] = x
      BY <2>3, <2>4, <2>0, <1>1
    <3>2. ASSUME NEW j \in 1 .. p - 1
          PROVE  j \in 1 .. n /\ t[j] = m.ents[j]
      <4>1. j \in 1 .. n - 1 /\ j \in 1 .. n /\ j < p + 1 /\ j # p
        BY <2>0, <1>1
      <4> QED
        BY <4>1, <2>3, <2>4
    <3>3. ASSUME NEW j \in p + 1 .. n - 1
          PROVE  j + 1 \in 1 .. n /\ t[j] = m.ents[j + 1]
      <4>1. j \in 1 .. n - 1 /\ j + 1 \in 1 .. n /\ ~(j < p + 1) /\ j + 1 # p
        BY <2>0, <1>1
      <4> QED
        BY <4>1, <2>3, <2>4
    <3> QED
      BY <3>1, <3>2, <3>3
  <2>6. InOrder(t)
    <3>1. ASSUME NEW j \in 1 .. n - 1
          PROVE  t[j].addr \in Nat /\ End(t[j]) \in Nat /\ t[j].addr > 0 /\ t[j].size > 0
      <4>1. j \in 1 .. p - 1 \/ j = p \/ j \in p + 1 .. n - 1
        BY <1>1, <2>0
      <4>2. CASE j = p
        <5>1. End(m.ents[p + 1]) \in Nat /\ m.ents[p].addr \in Nat /\ m.ents[p].addr > 0
          BY SMTT(30), <2>0, <1>1
        <5> QED
          BY <5>1, <4>2, <2>5, <2>1
      <4>3. CASE j # p
        <5>1. PICK k \in 1 .. n : t[j] = m.ents[k]
          BY <4>1, <4>3, <2>5
        <5>2. m.ents[k].addr \in Nat /\ m.ents[k].size \in Nat /\ m.ents[k].size > 0
              /\ m.ents[k].addr > 0 /\ End(m.ents[k]) \in Nat
          BY <1>1
        <5> QED
          BY <5>1, <5>2
      <4> QED
        BY <4>2, <4>3
    <3>2. ASSUME NEW j \in 1 .. n - 1, NEW k \in 1 .. j - 1
          PROVE  End(t[k]) < t[j].addr
      <4>1. CASE j < p
        <5>1. j \in 1 .. p - 1 /\ k \in 1 .. p - 1 /\ j \in 1 .. n
          BY <4>1, <2>0, <1>1
        <5>2. t[j] = m.ents[j] /\ t[k] = m.ents[k]
          BY <5>1, <2>5
        <5> QED
          BY <5>1, <5>2, <1>1
      <4>2. CASE j = p
        BY <4>2, <2>5, <2>1, <1>1, <2>0
      <4>3. CASE j > p /\ k < p
        <5>1. j + 1 \in 1 .. n /\ k \in 1 .. (j + 1) - 1
          BY <4>3, <1>1, <2>0
        <5>2. t[j] = m.ents[j + 1] /\ t[k] = m.ents[k]
          BY <4>3, <2>5, <2>0, <1>1
        <5> QED
          BY <5>1, <5>2, <1>1
      <4>4. CASE j > p /\ k = p
        <5>1. j + 1 \in 1 .. n /\ p + 1 \in 1 .. (j + 1) - 1
          BY <4>4, <1>1, <2>0
        <5>2. t[j] = m.ents[j + 1] /\ End(t[k]) = End(m.ents[p + 1])
          BY <4>4, <2>1, <2>5, <2>0, <1>1
        <5> QED
          BY <5>1, <5>2, <1>1
      <4>5. CASE j > p /\ k > p
        <5>1. j + 1 \in 1 .. n /\ k + 1 \in 1 .. (j + 1) - 1
          BY <4>5, <1>1, <2>0
        <5>2. t[j] = m.ents[j + 1] /\ t[k] = m.ents[k + 1]
          BY <4>5, <2>5, <2>0, <1>1
        <5> QED
          BY <5>1, <5>2, <1>1
      <4> QED
        BY <4>1, <4>2, <4>3, <4>4, <4>5, <1>1, <2>0
    <3> QED
      BY <3>1, <3>2, <2>4 DEF InOrder
  <2>7. ASSUME NEW u \in Int
        PROVE  (\E j \in 1 .. Len(t) : t[j].addr <= u /\ u < End(t[j]))
                <=> (\E j \in 1 .. n : m.ents[j].addr <= u /\ u < End(m.ents[j]))
                    \/ (a <= u /\ u < a + size)
    <3>0. /\ m.ents[p].addr \in Nat /\ End(m.ents[p]) \in Nat /\ m.ents[p + 1].addr \in Nat
          /\ End(m.ents[p + 1]) \in Nat
          /\ m.ents[p].addr <= a /\ a + size <= End(m.ents[p + 1])
      <4>1. m.ents[p].addr \in Nat /\ m.ents[p].size \in Nat
            /\ End(m.ents[p]) = m.ents[p].addr + m.ents[p].size
        BY <2>0, <1>1
      <4>2. m.ents[p + 1].addr \in Nat /\ m.ents[p + 1].size \in Nat
            /\ End(m.ents[p + 1]) = m.ents[p + 1].addr + m.ents[p + 1].size
        BY <2>0, <1>1
      <4> QED
        BY <4>1, <4>2, <2>1
    <3>1. ASSUME NEW j \in 1 .. n - 1, t[j].addr <= u, u < End(t[j])
          PROVE  (\E k \in 1 .. n : m.ents[k].addr <= u /\ u < End(m.ents[k]))
                    \/ (a <= u /\ u < a + size)
      <4>1. CASE j < p
        <5>1. j \in 1 .. n /\ t[j] = m.ents[j]
          BY <4>1, <2>5, <2>0
        <5> QED
          BY <5>1, <3>1
      <4>2. CASE j = p
        <5>1. m.ents[p].addr <= u /\ u < End(m.ents[p + 1])
          BY <4>2, <3>1, <2>5, <2>1
        <5>2. u < a \/ (a <= u /\ u < a + size) \/ a + size <= u
          OBVIOUS
        <5> QED
          BY <5>1, <5>2, <2>0, <2>1
      <4>3. CASE j > p
        <5>1. j + 1 \in 1 .. n /\ t[j] = m.ents[j + 1]
          BY <4>3, <2>5, <2>0, <1>1
        <5> QED
          BY <5>1, <3>1
      <4> QED
        BY <4>1, <4>2, <4>3, <2>0
    <3>2. ASSUME NEW k \in 1 .. n, m.ents[k].addr <= u, u < End(m.ents[k])
          PROVE  \E j \in 1 .. n - 1 : t[j].addr <= u /\ u < End(t[j])
      <4>1. CASE k < p
        <5>1. k \in 1 .. n - 1 /\ t[k] = m.ents[k]
          BY <4>1, <2>5, <2>0, <1>1
        <5> QED
          BY <5>1, <3>2
      <4>2. CASE k = p \/ k = p + 1
        <5>1. t[p].addr <= u /\ u < End(t[p])
          BY <4>2, <3>0, <3>2, <2>5, <2>1
        <5> QED
          BY <5>1, <2>0
      <4>3. CASE k > p + 1
        <5>1. k - 1 \in 1 .. n - 1 /\ t[k - 1] = m.ents[k]
          BY <4>3, <2>5, <2>0, <1>1
        <5> QED
          BY <5>1, <3>2
      <4> QED
        BY <4>1, <4>2, <4>3, <2>0, <1>1
    <3>3. ASSUME a <= u, u < a + size
          PROVE  \E j \in 1 .. n - 1 : t[j].addr <= u /\ u < End(t[j])
      <4>1. t[p].addr <= u /\ u < End(t[p])
        BY <3>0, <3>3, <2>5, <2>1
      <4> QED
        BY <4>1, <2>0
    <3> QED
      BY <3>1, <3>2, <3>3, <2>4
  <2>8. m.slots + 1 \in Nat
    BY MapFacts
  <2> QED
    BY <2>2, <2>4, <2>6, <2>7, <2>8, <1>6
\* The freed run makes the run i grow into x.
<1>8. ASSUME NEW i \in 1 .. n, NEW x \in Ent, x.addr > 0, x.size > 0,
             r = [ents |-> [m.ents EXCEPT ![i] = x], slots |-> m.slots],
             \A k \in 1 .. i - 1 : End(m.ents[k]) < x.addr,
             \A k \in i + 1 .. n : End(x) < m.ents[k].addr,
             \A u \in Int : x.addr <= u /\ u < End(x) <=>
                (m.ents[i].addr <= u /\ u < End(m.ents[i])) \/ (a <= u /\ u < a + size)
      PROVE  r \in MapType /\ MapOK(r) /\ UnitsOf(r) = UnitsOf(m) \union Piece(a, size)
  <2> DEFINE t == [m.ents EXCEPT ![i] = x]
  <2>1. t \in Seq(Ent) /\ Len(t) = n /\ \A j \in 1 .. n : t[j] = IF j = i THEN x ELSE m.ents[j]
    BY <1>1, ExceptSeq
  <2>2. r = [ents |-> t, slots |-> m.slots] /\ m.slots \in Nat
    BY <1>8, MapFacts
  <2> HIDE DEF t, r
  <2>3. InOrder(t)
    <3>1. ASSUME NEW j \in 1 .. n
          PROVE  t[j].addr > 0 /\ t[j].size > 0
      BY <2>1, <1>1, <1>8
    <3>2. ASSUME NEW j \in 1 .. n, NEW k \in 1 .. j - 1
          PROVE  End(t[k]) < t[j].addr
      <4>0. k \in 1 .. n
        BY <1>1
      <4>1. CASE j = i
        BY <4>0, <4>1, <2>1, <1>8
      <4>2. CASE k = i
        <5>1. j \in i + 1 .. n /\ j # i
          BY <4>2
        <5> QED
          BY <5>1, <4>0, <4>2, <2>1, <1>8
      <4>3. CASE j # i /\ k # i
        BY <4>0, <4>3, <2>1, <1>1
      <4> QED
        BY <4>1, <4>2, <4>3
    <3> QED
      BY <3>1, <3>2, <2>1 DEF InOrder
  <2>4. ASSUME NEW u \in Int
        PROVE  (\E j \in 1 .. Len(t) : t[j].addr <= u /\ u < End(t[j]))
                <=> (\E j \in 1 .. n : m.ents[j].addr <= u /\ u < End(m.ents[j]))
                    \/ (a <= u /\ u < a + size)
    <3>1. ASSUME NEW j \in 1 .. n, t[j].addr <= u, u < End(t[j])
          PROVE  (\E k \in 1 .. n : m.ents[k].addr <= u /\ u < End(m.ents[k]))
                    \/ (a <= u /\ u < a + size)
      <4>1. CASE j = i
        BY <4>1, <3>1, <2>1, <1>8
      <4>2. CASE j # i
        BY <4>2, <3>1, <2>1
      <4> QED
        BY <4>1, <4>2
    <3>2. ASSUME NEW k \in 1 .. n, m.ents[k].addr <= u, u < End(m.ents[k])
          PROVE  \E j \in 1 .. n : t[j].addr <= u /\ u < End(t[j])
      <4>1. CASE k = i
        BY <4>1, <3>2, <2>1, <1>8
      <4>2. CASE k # i
        BY <4>2, <3>2, <2>1
      <4> QED
        BY <4>1, <4>2
    <3>3. ASSUME a <= u, u < a + size
          PROVE  \E j \in 1 .. n : t[j].addr <= u /\ u < End(t[j])
      <4>1. t[i] = x
        BY <2>1
      <4> QED
        BY <4>1, <3>3, <1>8
    <3> QED
      BY <3>1, <3>2, <3>3, <2>1
  <2> QED
    BY <2>1, <2>2, <2>3, <2>4, <1>6

<1>9. CASE left /\ ~right
  <2> DEFINE x == [addr |-> m.ents[p].addr, size |-> m.ents[p].size + size]
  <2>1. p \in 1 .. n
    BY <1>9, <1>2, <1>3
  <2>2. /\ m.ents[p].addr \in Nat /\ m.ents[p].size \in Nat /\ m.ents[p].size > 0
        /\ m.ents[p].addr > 0 /\ End(m.ents[p]) = m.ents[p].addr + m.ents[p].size
        /\ End(m.ents[p]) = a
    BY <2>1, <1>1, <1>9, <1>3
  <2>3. x \in Ent /\ x.addr = m.ents[p].addr /\ x.addr > 0 /\ x.size > 0 /\ End(x) = a + size
    BY <2>2 DEF Ent, End
  <2>4. r = [ents |-> [m.ents EXCEPT ![p] = x], slots |-> m.slots]
    BY <1>9, <1>5 DEF rmfree, p, left, right, Overflows
  <2>5. \A k \in 1 .. p - 1 : End(m.ents[k]) < x.addr
    BY <2>1, <2>3, <1>1
  <2>6. \A k \in p + 1 .. n : End(x) < m.ents[k].addr
    <3>1. ASSUME NEW k \in p + 1 .. n
          PROVE  a + size < m.ents[k].addr
      <4>1. CASE k = p + 1
        <5>1. k \in 1 .. n /\ p < n
          BY <4>1, <2>1, <1>1
        <5>2. a + size # m.ents[k].addr /\ a + size <= m.ents[k].addr /\ m.ents[k].addr \in Nat
          BY <5>1, <4>1, <1>9, <1>4, <1>2, <1>1
        <5> QED
          BY <5>2
      <4>2. CASE k > p + 1
        BY <4>2, <1>2
      <4> QED
        BY <4>1, <4>2, <2>1
    <3> QED
      BY <3>1, <2>3
  <2>7. \A u \in Int : x.addr <= u /\ u < End(x) <=>
          (m.ents[p].addr <= u /\ u < End(m.ents[p])) \/ (a <= u /\ u < a + size)
    BY <2>2, <2>3
  <2> HIDE DEF x, r
  <2> QED
    <3>1. r \in MapType /\ MapOK(r) /\ UnitsOf(r) = UnitsOf(m) \union Piece(a, size)
      BY <2>1, <2>3, <2>4, <2>5, <2>6, <2>7, <1>8
    <3> QED
      BY <3>1 DEF r

<1>10. CASE ~left /\ right
  <2> DEFINE i == p + 1
             x == [addr |-> a, size |-> m.ents[i].size + size]
  <2>1. i \in 1 .. n
    BY <1>10, <1>1, <1>2, <1>4
  <2>2. /\ m.ents[i].addr \in Nat /\ m.ents[i].size \in Nat /\ m.ents[i].size > 0
        /\ m.ents[i].addr > 0 /\ End(m.ents[i]) = m.ents[i].addr + m.ents[i].size
        /\ a + size = m.ents[i].addr
    BY <2>1, <1>1, <1>10, <1>4
  <2>3. x \in Ent /\ x.addr = a /\ x.addr > 0 /\ x.size > 0 /\ End(x) = End(m.ents[i])
    BY <2>2 DEF Ent, End
  <2>4. r = [ents |-> [m.ents EXCEPT ![i] = x], slots |-> m.slots]
    BY <1>10, <1>5 DEF rmfree, p, left, right, Overflows
  <2>5. \A k \in 1 .. i - 1 : End(m.ents[k]) < x.addr
    <3>1. ASSUME NEW k \in 1 .. i - 1
          PROVE  End(m.ents[k]) < a
      <4>1. k \in 1 .. p /\ k \in 1 .. n
        BY <2>1, <1>2
      <4>2. CASE k = p
        <5>1. End(m.ents[p]) <= a /\ End(m.ents[p]) # a /\ End(m.ents[p]) \in Nat
          BY <4>1, <4>2, <1>10, <1>1, <1>2, <1>3
        <5> QED
          BY <4>2, <5>1
      <4>3. CASE k < p
        BY <4>1, <4>3, <1>2
      <4> QED
        BY <4>1, <4>2, <4>3, <1>2
    <3> QED
      BY <3>1, <2>3
  <2>6. \A k \in i + 1 .. n : End(x) < m.ents[k].addr
    BY <2>1, <2>3, <1>1
  <2>7. \A u \in Int : x.addr <= u /\ u < End(x) <=>
          (m.ents[i].addr <= u /\ u < End(m.ents[i])) \/ (a <= u /\ u < a + size)
    BY <2>2, <2>3
  <2> HIDE DEF x, i, r
  <2> QED
    <3>1. r \in MapType /\ MapOK(r) /\ UnitsOf(r) = UnitsOf(m) \union Piece(a, size)
      BY <2>1, <2>3, <2>4, <2>5, <2>6, <2>7, <1>8
    <3> QED
      BY <3>1 DEF r

<1>11. CASE ~left /\ ~right
  <2> DEFINE x == [addr |-> a, size |-> size]
             t == InsertAt(m.ents, p + 1, x)
  <2>1. p + 1 \in 1 .. n + 1 /\ m.slots - 1 \in Nat
    BY <1>11, <1>1, <1>2, <1>5
  <2>2. x \in Ent /\ x.addr = a /\ x.size = size /\ End(x) = a + size
    BY DEF Ent, End
  <2>3. r = [ents |-> t, slots |-> m.slots - 1]
    BY <1>11, <1>5 DEF rmfree, p, left, right, Overflows
  <2> HIDE DEF x, r
  <2>4. /\ t \in Seq(Ent) /\ Len(t) = n + 1 /\ t[p + 1] = x
        /\ \A j \in 1 .. p : t[j] = m.ents[j]
        /\ \A j \in p + 1 .. n : t[j + 1] = m.ents[j]
    <3>1. p + 1 \in 1 .. Len(m.ents) + 1 /\ (p + 1) - 1 = p
      BY <2>1, <1>2
    <3>2. m.ents \in Seq(Ent) /\ x \in Ent
      BY <1>1, <2>2
    <3>3. /\ t \in Seq(Ent) /\ Len(t) = Len(m.ents) + 1 /\ t[p + 1] = x
          /\ \A j \in 1 .. (p + 1) - 1 : t[j] = m.ents[j]
          /\ \A j \in p + 1 .. Len(m.ents) : t[j + 1] = m.ents[j]
      BY <3>1, <3>2, InsertAtProperties
    <3> QED
      BY <3>1, <3>3
  <2> HIDE DEF t
  <2>5. /\ t[p + 1] = x
        /\ \A j \in 1 .. p : j \in 1 .. n /\ t[j] = m.ents[j]
        /\ \A j \in p + 2 .. n + 1 : j - 1 \in p + 1 .. n /\ j - 1 \in 1 .. n
                                    /\ t[j] = m.ents[j - 1]
    <3>1. \A j \in 1 .. p : j \in 1 .. n
      BY <1>1, <1>2
    <3>2. ASSUME NEW j \in p + 2 .. n + 1
          PROVE  j - 1 \in p + 1 .. n /\ j - 1 \in 1 .. n /\ t[j] = m.ents[j - 1]
      <4>1. j - 1 \in p + 1 .. n /\ j - 1 \in 1 .. n /\ (j - 1) + 1 = j
        BY <1>1, <1>2
      <4> QED
        BY <4>1, <2>4
    <3> QED
      BY <3>1, <3>2, <2>4
  \* What is before it ends before it, what is behind begins behind.
  <2>6. \A k \in 1 .. p : End(m.ents[k]) < a
    <3>1. ASSUME NEW k \in 1 .. p
          PROVE  End(m.ents[k]) < a
      <4>1. CASE k = p
        <5>1. End(m.ents[p]) <= a /\ End(m.ents[p]) # a /\ End(m.ents[p]) \in Nat
          BY SMTT(30), <4>1, <1>11, <1>1, <1>2, <1>3
        <5> QED
          BY <4>1, <5>1
      <4>2. CASE k < p
        BY <4>2, <1>2
      <4> QED
        BY <4>1, <4>2, <1>2
    <3> QED
      BY <3>1
  <2>7. \A k \in p + 1 .. n : a + size < m.ents[k].addr
    <3>1. ASSUME NEW k \in p + 1 .. n
          PROVE  a + size < m.ents[k].addr
      <4>1. CASE k = p + 1
        <5>1. k \in 1 .. n /\ p < n
          BY <4>1, <1>2, <1>1
        <5>2. a + size # m.ents[k].addr /\ a + size <= m.ents[k].addr /\ m.ents[k].addr \in Nat
          BY <5>1, <4>1, <1>11, <1>4, <1>2, <1>1
        <5> QED
          BY <5>2
      <4>2. CASE k > p + 1
        BY <4>2, <1>2
      <4> QED
        BY <4>1, <4>2, <1>2
    <3> QED
      BY <3>1
  <2>8. InOrder(t)
    <3>1. ASSUME NEW j \in 1 .. n + 1
          PROVE  t[j].addr > 0 /\ t[j].size > 0
      <4>1. j \in 1 .. p \/ j = p + 1 \/ j \in p + 2 .. n + 1
        BY <1>2, <1>1
      <4>2. t[j] = x \/ \E k \in 1 .. n : t[j] = m.ents[k]
        BY <4>1, <2>5
      <4> QED
        BY <4>2, <2>2, <1>1
    <3>2. ASSUME NEW j \in 1 .. n + 1, NEW k \in 1 .. j - 1
          PROVE  End(t[k]) < t[j].addr
      <4>1. CASE j <= p
        <5>1. j \in 1 .. p /\ k \in 1 .. p
          BY <4>1, <1>2
        <5> QED
          BY <5>1, <2>5, <1>1
      <4>2. CASE j = p + 1
        <5>1. k \in 1 .. p
          BY <4>2, <1>2
        <5> QED
          BY <5>1, <4>2, <2>5, <2>6, <2>2
      <4>3. CASE j > p + 1 /\ k <= p
        <5>1. k \in 1 .. p /\ j \in p + 2 .. n + 1 /\ k \in 1 .. (j - 1) - 1
          BY <4>3, <1>2, <1>1
        <5> QED
          BY <5>1, <2>5, <1>1
      <4>4. CASE j > p + 1 /\ k = p + 1
        <5>1. j \in p + 2 .. n + 1
          BY <4>4, <1>2, <1>1
        <5> QED
          BY <5>1, <4>4, <2>5, <2>7, <2>2
      <4>5. CASE k > p + 1
        <5>1. j \in p + 2 .. n + 1 /\ k \in p + 2 .. n + 1 /\ k - 1 \in 1 .. (j - 1) - 1
          BY <4>5, <1>2, <1>1
        <5> QED
          BY <5>1, <2>5, <1>1
      <4> QED
        BY <4>1, <4>2, <4>3, <4>4, <4>5, <1>2
    <3> QED
      BY <3>1, <3>2, <2>4 DEF InOrder
  <2>9. ASSUME NEW u \in Int
        PROVE  (\E j \in 1 .. Len(t) : t[j].addr <= u /\ u < End(t[j]))
                <=> (\E j \in 1 .. n : m.ents[j].addr <= u /\ u < End(m.ents[j]))
                    \/ (a <= u /\ u < a + size)
    <3>1. ASSUME NEW j \in 1 .. n + 1, t[j].addr <= u, u < End(t[j])
          PROVE  (\E k \in 1 .. n : m.ents[k].addr <= u /\ u < End(m.ents[k]))
                    \/ (a <= u /\ u < a + size)
      <4>1. j \in 1 .. p \/ j = p + 1 \/ j \in p + 2 .. n + 1
        BY <1>2, <1>1
      <4>2. t[j] = x \/ \E k \in 1 .. n : t[j] = m.ents[k]
        BY <4>1, <2>5
      <4> QED
        BY <4>2, <3>1, <2>2
    <3>2. ASSUME NEW k \in 1 .. n, m.ents[k].addr <= u, u < End(m.ents[k])
          PROVE  \E j \in 1 .. n + 1 : t[j].addr <= u /\ u < End(t[j])
      <4>1. CASE k <= p
        <5>1. k \in 1 .. p /\ k \in 1 .. n + 1
          BY <4>1, <1>2, <1>1
        <5> QED
          BY <5>1, <3>2, <2>5
      <4>2. CASE k > p
        <5>1. k + 1 \in p + 2 .. n + 1 /\ k + 1 \in 1 .. n + 1 /\ (k + 1) - 1 = k
          BY <4>2, <1>2, <1>1
        <5>2. t[k + 1] = m.ents[k]
          BY <5>1, <2>5
        <5> QED
          BY <5>1, <5>2, <3>2
      <4> QED
        BY <4>1, <4>2, <1>2
    <3>3. ASSUME a <= u, u < a + size
          PROVE  \E j \in 1 .. n + 1 : t[j].addr <= u /\ u < End(t[j])
      BY <3>3, <2>1, <2>2, <2>5
    <3> QED
      BY <3>1, <3>2, <3>3, <2>4
  <2> QED
    <3>1. r \in MapType /\ MapOK(r) /\ UnitsOf(r) = UnitsOf(m) \union Piece(a, size)
      BY <2>1, <2>3, <2>4, <2>8, <2>9, <1>6
    <3> QED
      BY <3>1 DEF r
<1> QED
  BY <1>7, <1>9, <1>10, <1>11
=============================================================================
