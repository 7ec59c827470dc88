----------------------------- MODULE NatProofs ------------------------------
(***************************************************************************)
(* What the proofs about the modules need of the naturals: least and       *)
(* greatest members, induction for a set of naturals, recursion for a      *)
(* function, and sums, which the modules define as recursive functions.    *)
(***************************************************************************)
EXTENDS Integers, WellFoundedInduction, TLAPS

-----------------------------------------------------------------------------
\* A set of naturals has a least member.
LEMMA LeastNat ==
  ASSUME NEW T \in SUBSET Nat, T # {}
  PROVE  \E x \in T : \A y \in T : x <= y
<1> DEFINE R == {ss \in Nat \X Nat : ss[1] < ss[2]}
<1>1. IsWellFoundedOn(R, Nat)
  BY NatLessThanWellFounded DEF OpToRel
<1>2. PICK x \in T : \A y \in T : <<y, x>> \notin R
  BY <1>1, WFMin
<1>3. \A y \in T : ~(y < x)
  BY <1>2
<1> QED
  BY <1>3

\* A set of naturals that has an upper bound has a greatest member.
LEMMA GreatestNat ==
  ASSUME NEW n \in Nat, NEW T \in SUBSET (0 .. n), T # {}
  PROVE  \E x \in T : \A y \in T : y <= x
<1> DEFINE U == {n - x : x \in T}
<1>1. U \in SUBSET Nat /\ U # {}
  <2>1. PICK x : x \in T
    OBVIOUS
  <2>2. n - x \in U
    BY <2>1
  <2>3. \A y \in T : n - y \in Nat
    OBVIOUS
  <2> QED
    BY <2>2, <2>3
<1>2. PICK u \in U : \A v \in U : u <= v
  BY <1>1, LeastNat
<1>3. PICK x \in T : u = n - x
  BY <1>2
<1>4. ASSUME NEW y \in T
      PROVE  y <= x
  <2>1. n - y \in U
    OBVIOUS
  <2>2. n - x <= n - y
    BY <2>1, <1>2, <1>3
  <2> QED
    BY <2>2
<1> QED
  BY <1>4

\* Induction up to n, for a set in the place of a predicate.
LEMMA Induction ==
  ASSUME NEW n \in Nat, NEW T, 0 \in T, \A i \in 0 .. n - 1 : i \in T => i + 1 \in T
  PROVE  0 .. n \subseteq T
<1> DEFINE B == {i \in 0 .. n : i \notin T}
<1> SUFFICES ASSUME B # {}
             PROVE  FALSE
  OBVIOUS
<1>1. PICK i \in B : \A j \in B : i <= j
  <2>1. B \in SUBSET Nat
    OBVIOUS
  <2> QED
    BY <2>1, LeastNat
<1>2. i > 0
  BY <1>1
<1>3. i - 1 \in 0 .. n - 1 /\ i - 1 \notin B
  BY <1>1, <1>2
<1>4. i - 1 \in T
  BY <1>3
<1>5. (i - 1) + 1 \in T
  BY <1>3, <1>4
<1> QED
  BY <1>5, <1>1

(* f is defined by recursion up to n, from base and by step.               *)
Recurs(f, n, base, step) == f[0] = base /\ \A i \in 1 .. n : f[i] = step[i][f[i - 1]]

\* There is such a function.
LEMMA Recursion ==
  ASSUME NEW n \in Nat, NEW V, NEW base \in V, NEW step \in [1 .. n -> [V -> V]]
  PROVE  \E f \in [0 .. n -> V] : Recurs(f, n, base, step)
<1> DEFINE Solves(f, m) == f \in [0 .. m -> V] /\ Recurs(f, m, base, step)
           T == {m \in 0 .. n : \E f : Solves(f, m)}
<1>1. 0 \in T
  <2>1. Solves([i \in 0 .. 0 |-> base], 0)
    BY DEF Recurs
  <2>2. \E f : Solves(f, 0)
    <3> HIDE DEF Solves
    <3> QED
      BY <2>1
  <2> QED
    BY <2>2
<1>2. ASSUME NEW m \in 0 .. n - 1, m \in T
      PROVE  m + 1 \in T
  <2>1. PICK f : Solves(f, m)
    BY <1>2
  <2> DEFINE g == [i \in 0 .. m + 1 |-> IF i <= m THEN f[i] ELSE step[m + 1][f[m]]]
  <2>2. step[m + 1][f[m]] \in V
    <3>1. f[m] \in V
      BY <2>1
    <3> QED
      BY <3>1
  <2>3. g \in [0 .. m + 1 -> V] /\ g[0] = base
    BY <2>1, <2>2 DEF Recurs
  <2>4. \A i \in 1 .. m + 1 : g[i] = step[i][g[i - 1]]
    BY <2>1 DEF Recurs
  <2>5. Solves(g, m + 1)
    BY <2>3, <2>4 DEF Recurs
  <2>6. \E h : Solves(h, m + 1)
    <3> HIDE DEF Solves, g
    <3> QED
      BY <2>5
  <2> QED
    BY <2>6
<1>3. 0 .. n \subseteq T
  <2> HIDE DEF T
  <2> QED
    BY <1>1, <1>2, Induction
<1>4. PICK f : Solves(f, n)
  BY <1>3
<1> QED
  BY <1>4

-----------------------------------------------------------------------------
(* s[i] is the sum of the first i terms of d.                              *)
Sums(s, n, d) == s = [i \in 0 .. n |-> IF i = 0 THEN 0 ELSE s[i - 1] + d[i]]

\* There is such a function.
LEMMA SumExists ==
  ASSUME NEW n \in Nat, NEW d \in [1 .. n -> Int]
  PROVE  \E s : Sums(s, n, d)
<1> DEFINE step == [i \in 1 .. n |-> [x \in Int |-> x + d[i]]]
<1>1. step \in [1 .. n -> [Int -> Int]]
  OBVIOUS
<1>2. \A i \in 1 .. n, x \in Int : step[i][x] = x + d[i]
  OBVIOUS
<1> HIDE DEF step
<1>3. PICK s \in [0 .. n -> Int] : Recurs(s, n, 0, step)
  <2>1. 0 \in Int
    OBVIOUS
  <2>2. \E s \in [0 .. n -> Int] : Recurs(s, n, 0, step)
    BY <1>1, <2>1, Recursion
  <2> QED
    BY <2>2
<1>4. \A i \in 1 .. n : s[i] = s[i - 1] + d[i]
  <2> SUFFICES ASSUME NEW i \in 1 .. n
               PROVE  s[i] = s[i - 1] + d[i]
    OBVIOUS
  <2>1. s[i] = step[i][s[i - 1]]
    BY <1>3 DEF Recurs
  <2>2. i - 1 \in 0 .. n
    OBVIOUS
  <2>3. s[i - 1] \in Int
    BY <2>2
  <2> QED
    BY <1>2, <2>1, <2>3
<1>5. \A i \in 0 .. n : s[i] = IF i = 0 THEN 0 ELSE s[i - 1] + d[i]
  BY <1>3, <1>4 DEF Recurs
<1>6. s = [i \in 0 .. n |-> IF i = 0 THEN 0 ELSE s[i - 1] + d[i]]
  BY <1>5
<1> QED
  BY <1>6 DEF Sums

\* It adds up the terms.
LEMMA SumFacts ==
  ASSUME NEW n \in Nat, NEW d \in [1 .. n -> Int], NEW s, Sums(s, n, d)
  PROVE  s \in [0 .. n -> Int] /\ s[0] = 0 /\ \A i \in 1 .. n : s[i] = s[i - 1] + d[i]
<1>1. /\ DOMAIN s = 0 .. n /\ s[0] = 0
      /\ \A i \in 1 .. n : s[i] = s[i - 1] + d[i]
      /\ \A X : (\A i \in 0 .. n : s[i] \in X) => s \in [0 .. n -> X]
  <2>1. s = [i \in 0 .. n |-> IF i = 0 THEN 0 ELSE s[i - 1] + d[i]]
    BY DEF Sums
  <2>2. DOMAIN s = 0 .. n
    BY <2>1
  <2>3. \A i \in 0 .. n : s[i] = IF i = 0 THEN 0 ELSE s[i - 1] + d[i]
    BY <2>1
  <2>4. \A X : (\A i \in 0 .. n : s[i] \in X) => s \in [0 .. n -> X]
    BY <2>1, <2>2
  <2> QED
    BY <2>2, <2>3, <2>4
<1> DEFINE T == {i \in 0 .. n : s[i] \in Int}
<1>2. 0 \in T
  BY <1>1
<1>3. ASSUME NEW i \in 0 .. n - 1, i \in T
      PROVE  i + 1 \in T
  <2>1. i + 1 \in 1 .. n /\ (i + 1) - 1 = i
    OBVIOUS
  <2>2. s[i + 1] = s[i] + d[i + 1]
    BY <2>1, <1>1
  <2> QED
    BY <1>3, <2>1, <2>2
<1>4. 0 .. n \subseteq T
  <2> HIDE DEF T
  <2> QED
    BY <1>2, <1>3, Induction
<1> QED
  BY <1>1, <1>4

\* A place inside a block that lies within a table lies within the table.
LEMMA InBounds ==
    ASSUME NEW b \in Nat, NEW z \in Int, NEW n \in Nat, n < z, NEW top \in Int, b + z <= top
    PROVE  b + n \in 0 .. (top - 1) /\ b + n \in b .. (b + z - 1)
OBVIOUS
=============================================================================
