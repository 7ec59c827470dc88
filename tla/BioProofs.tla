----------------------------- MODULE BioProofs ------------------------------
(***************************************************************************)
(* Proofs about Bio, for every number of processes, buffers and blocks.    *)
(***************************************************************************)
EXTENDS BioRefinement, RmapProofs, FiniteSetTheorems

-----------------------------------------------------------------------------
(***************************************************************************)
(* The invariant.  Where a process is tells what it has.                   *)
(***************************************************************************)
InGetblk(r) ==
    \/ r.pc \in {"search", "check", "getfree", "reclaim", "kmem", "got"}
    \/ r.pc = "asleep" /\ r.then = "search"
    \/ r.pc = "asyncnt" /\ r.then = "getfree"
InBiowait(r)  == r.pc = "iowait" \/ (r.pc = "asleep" /\ r.then = "iowait")
InBlkflush(r) == r.pc \in {"blkflush", "blkcheck", "flushed"} \/ (r.pc = "asleep" /\ r.then = "blkflush")
InBflush(r)   == r.pc = "bflush" \/ (r.pc = "asyncnt" /\ r.then = "bflush")

CallOK(r) ==
    /\ r.pc = "user" => r = Idle
    /\ InGetblk(r) => /\ r.call \in {"bread", "breada", "getblk", "ra"} /\ r.blk # NoBlock
                      /\ r.call \in {"breada", "ra"} => r.ra # NoBlock
    /\ InBiowait(r) => /\ r.call \in {"bread", "write", "blkflush"} /\ r.bp # NoBuf
                       /\ r.call = "blkflush" => r.blk # NoBlock
    /\ InBlkflush(r) => r.call = "blkflush" /\ r.blk # NoBlock
    /\ InBflush(r) => r.call \in {"bflush", "close"}
    /\ r.pc = "hold" => r.call \in {"bread", "getblk"} /\ r.bp # NoBuf
    /\ r.pc = "ra" => r.call = "breada" /\ r.blk # NoBlock /\ r.ra # NoBlock
    /\ r.pc = "raend" => r.call \in {"breada", "ra"} /\ r.ra # NoBlock
    /\ r.pc \in {"check", "got", "blkcheck"} => r.b # NoBuf
    /\ r.pc = "kmem" => r.nbp # NoBuf
    /\ r.pc = "asyncnt" => r.then \in {"user", "getfree", "bflush"}
    /\ r.pc = "asleep" => r.then \in {"search", "iowait", "blkflush"}
    /\ r.pc = "asleep" /\ r.then = "iowait" => r.chan = r.bp
    /\ r.pc = "asleep" /\ r.chan = NoBuf => r.then = "search"

(* Which places may have a buffer for the caller, or a new one.            *)
PlacesOK(r) ==
    /\ r.bp # NoBuf => (InGetblk(r) /\ r.call = "ra") \/ InBiowait(r) \/ r.pc \in {"ra", "raend", "hold"}
    /\ r.nbp # NoBuf => /\ \/ r.pc \in {"search", "check", "kmem"}
                           \/ r.pc = "asleep" /\ r.then = "search" /\ r.chan # NoBuf
                        /\ r.nbp # r.bp

(* In these places a process does not wait for anything.                   *)
Sole == {"check", "getfree", "reclaim", "got", "ra", "raend", "asyncnt", "bflush", "blkcheck",
         "flushed"}

ProcOK ==
    /\ \A p \in Procs : CallOK(pr[p]) /\ PlacesOK(pr[p]) /\ (pr[p].pc \in Sole => cur = p)
    /\ \A p, q \in Procs : pr[p].call = "close" /\ q # p => pr[q].pc = "user"

(* No element is in s twice.                                              *)
Once(s) == \A i, j \in DOMAIN s : s[i] = s[j] => i = j

(* A buffer with contents x is free, with a driver, or owned, as it says.  *)
PointOK(x, free, busy, owned) ==
    /\ x.bufsize = 0 => x = NoBuffer /\ ~free /\ ~busy /\ ~owned
    /\ x.bufsize # 0 => free \/ owned \/ (busy /\ "ASYNC" \in x.flags)
    /\ free => "BUSY" \notin x.flags /\ ~busy /\ ~owned
    /\ busy => /\ "BUSY" \in x.flags /\ "DONE" \notin x.flags /\ x.blkno # NoBlock
               /\ "ASYNC" \in x.flags => ~owned
    /\ "ASYNC" \in x.flags => busy
    /\ "DELWRI" \in x.flags => x.blkno # NoBlock /\ "DONE" \in x.flags /\ x.data # NoVal
    /\ busy /\ "READ" \notin x.flags => x.data # NoVal

HasOwner(b) == \E p \in Procs : b \in Owned(p)

BufsOK ==
    /\ Once(c.free) /\ Once(io)
    /\ \A b \in Bufs : PointOK(c.buf[b], b \in ToSet(c.free), b \in ToSet(io), HasOwner(b))
    /\ \A p, q \in Procs : p # q => Owned(p) \cap Owned(q) = {}

(* What the process at r has is as it left it.                             *)
HeldOK(r) ==
    /\ r.bp # NoBuf => /\ Is(r.bp, "BUSY") /\ c.buf[r.bp].blkno # NoBlock
                       /\ r.pc = "hold" => r.bp \notin ToSet(io)
                       /\ r.pc # "hold" => r.bp \in ToSet(io) \/ Is(r.bp, "DONE")
    /\ r.pc = "got" => Is(r.b, "BUSY") /\ c.buf[r.b].blkno = r.blk /\ r.b \notin ToSet(io) /\ r.b # r.bp
    /\ r.nbp # NoBuf => c.buf[r.nbp].blkno = NoBlock
    /\ r.pc \in {"check", "blkcheck"} => c.buf[r.b].blkno = r.blk

(* It will be woken.                                                       *)
WokenOK(r) ==
    r.pc = "asleep" =>
        /\ r.chan = NoBuf => c.wanted /\ c.free = <<>>
        /\ r.chan # NoBuf => /\ Is(r.chan, "BUSY") /\ Is(r.chan, "WANTED")
                             /\ c.buf[r.chan].blkno # NoBlock
                             /\ r.then = "iowait" => r.chan \in ToSet(io)

ProcInv == ProcOK /\ BufsOK /\ \A p \in Procs : HeldOK(pr[p]) /\ WokenOK(pr[p])

BioInv == TypeOK /\ ProcInv /\ MemoryAccounted /\ OneBufferPerBlock /\ AsyncWritesCounted

-----------------------------------------------------------------------------
(***************************************************************************)
(* The memory in the buffers.  The sum over a set is taken by choosing one *)
(* member after another.                                                   *)
(***************************************************************************)
Pick(s) == CHOOSE x \in s : TRUE

(* f[s] is what the buffers of s have together.                            *)
AddsUp(f, d) == f[{}] = 0 /\ \A s \in SUBSET Bufs : s # {} => f[s] = d[Pick(s)] + f[s \ {Pick(s)}]

\* What holds of the empty set, and of a set if it does without the member that
\* is chosen first, holds of all sets of buffers.
LEMMA SubsetInduction ==
    ASSUME NEW T, {} \in T,
           \A s \in SUBSET Bufs : s # {} /\ s \ {Pick(s)} \in T => s \in T
    PROVE  SUBSET Bufs \subseteq T
<1> DEFINE N == Cardinality(Bufs)
           U == {n \in 0 .. N : \A s \in SUBSET Bufs : Cardinality(s) = n => s \in T}
<1>1. N \in Nat /\ \A s \in SUBSET Bufs : IsFiniteSet(s) /\ Cardinality(s) \in 0 .. N
  <2>1. IsFiniteSet(Bufs)
    BY BioAssumption
  <2>2. N \in Nat
    BY <2>1, FS_CardinalityType
  <2>3. ASSUME NEW s \in SUBSET Bufs PROVE IsFiniteSet(s) /\ Cardinality(s) \in 0 .. N
    <3>1. IsFiniteSet(s) /\ Cardinality(s) <= N
      BY <2>1, FS_Subset
    <3>2. Cardinality(s) \in Nat
      BY <3>1, FS_CardinalityType
    <3> QED
      BY <2>2, <3>1, <3>2
  <2> QED
    BY <2>2, <2>3
<1>2. 0 \in U
  <2>1. ASSUME NEW s \in SUBSET Bufs, Cardinality(s) = 0 PROVE s \in T
    <3>1. IsFiniteSet(s)
      BY <1>1
    <3>2. s = {}
      BY <2>1, <3>1, FS_EmptySet
    <3> QED
      BY <3>2
  <2> QED
    BY <1>1, <2>1
<1>3. ASSUME NEW i \in 0 .. N - 1, i \in U
      PROVE  i + 1 \in U
  <2>1. ASSUME NEW s \in SUBSET Bufs, Cardinality(s) = i + 1 PROVE s \in T
    <3>1. s # {}
      BY <2>1, FS_EmptySet
    <3>2. Pick(s) \in s
      BY <3>1 DEF Pick
    <3>3. Cardinality(s \ {Pick(s)}) = i
      <4>1. Cardinality(s \ {Pick(s)}) = Cardinality(s) - 1
        BY <1>1, <3>2, FS_RemoveElement
      <4> QED
        BY <2>1, <4>1
    <3>4. s \ {Pick(s)} \in T
      BY <1>3, <3>3
    <3> QED
      BY <3>1, <3>4
  <2> QED
    BY <1>1, <2>1
<1>4. 0 .. N \subseteq U
  <2> HIDE DEF U
  <2> QED
    BY <1>1, <1>2, <1>3, Induction
<1> QED
  BY <1>1, <1>4

\* There is the sum.
LEMMA SumOfSet ==
    ASSUME NEW d \in [Bufs -> Nat]
    PROVE  \E f \in [SUBSET Bufs -> Nat] : AddsUp(f, d)
<1> DEFINE Rec(f, n) == f[{}] = 0 /\ \A s \in SUBSET Bufs : s # {} /\ Cardinality(s) <= n =>
                          f[s] = d[Pick(s)] + f[s \ {Pick(s)}]
           N == Cardinality(Bufs)
           U == {n \in 0 .. N : \E f \in [SUBSET Bufs -> Nat] : Rec(f, n)}
<1>1. N \in Nat /\ \A s \in SUBSET Bufs : IsFiniteSet(s) /\ Cardinality(s) \in Nat /\ Cardinality(s) <= N
  BY BioAssumption, FS_CardinalityType, FS_Subset
<1>2. \A s \in SUBSET Bufs : s # {} => Pick(s) \in s /\ Cardinality(s \ {Pick(s)}) = Cardinality(s) - 1
  <2> SUFFICES ASSUME NEW s \in SUBSET Bufs, s # {}
               PROVE  Pick(s) \in s /\ Cardinality(s \ {Pick(s)}) = Cardinality(s) - 1
    OBVIOUS
  <2>1. Pick(s) \in s
    BY DEF Pick
  <2> QED
    BY <1>1, <2>1, FS_RemoveElement
<1>3. 0 \in U
  <2> DEFINE g == [s \in SUBSET Bufs |-> 0]
  <2>1. g \in [SUBSET Bufs -> Nat] /\ g[{}] = 0
    OBVIOUS
  <2>2. \A s \in SUBSET Bufs : ~(s # {} /\ Cardinality(s) <= 0)
    BY <1>1, FS_EmptySet
  <2>3. Rec(g, 0)
    BY <2>1, <2>2
  <2> HIDE DEF Rec, g
  <2> QED
    BY <1>1, <2>1, <2>3
<1>4. ASSUME NEW i \in 0 .. N - 1, i \in U
      PROVE  i + 1 \in U
  <2>1. PICK f \in [SUBSET Bufs -> Nat] : Rec(f, i)
    BY <1>4
  <2> DEFINE g == [s \in SUBSET Bufs |-> IF s = {} THEN 0 ELSE d[Pick(s)] + f[s \ {Pick(s)}]]
  <2>2. \A s \in SUBSET Bufs : s # {} => d[Pick(s)] + f[s \ {Pick(s)}] \in Nat
    BY <1>2
  <2>3. g \in [SUBSET Bufs -> Nat] /\ g[{}] = 0
    BY <2>2
  <2>4. \A s \in SUBSET Bufs : Cardinality(s) <= i => g[s] = f[s]
    BY <2>1
  <2>5. ASSUME NEW s \in SUBSET Bufs, s # {}, Cardinality(s) <= i + 1
        PROVE  g[s] = d[Pick(s)] + g[s \ {Pick(s)}]
    <3>1. Cardinality(s \ {Pick(s)}) <= i
      BY <1>1, <1>2, <2>5
    <3>2. g[s \ {Pick(s)}] = f[s \ {Pick(s)}]
      BY <2>4, <3>1
    <3>3. g[s] = d[Pick(s)] + f[s \ {Pick(s)}]
      BY <2>5
    <3> QED
      BY <3>2, <3>3
  <2>6. Rec(g, i + 1)
    BY <2>3, <2>5
  <2> HIDE DEF Rec, g
  <2> QED
    BY <1>1, <2>3, <2>6
<1>5. 0 .. N \subseteq U
  <2> HIDE DEF U
  <2> QED
    BY <1>1, <1>3, <1>4, Induction
<1>6. PICK f \in [SUBSET Bufs -> Nat] : Rec(f, N)
  <2>1. N \in U
    <3> HIDE DEF U
    <3> QED
      BY <1>1, <1>5
  <2> QED
    BY <2>1
<1> QED
  BY <1>1, <1>6 DEF AddsUp

(* The memory in the buffers of a cache K.                                 *)
Sizes(K)  == [b \in Bufs |-> K.buf[b].bufsize]
Memory(K) == MapThenSumSet(LAMBDA b : K.buf[b].bufsize, Bufs)

\* Memory() is that sum.
LEMMA MemoryIsSum ==
    ASSUME NEW K, \A b \in Bufs : K.buf[b].bufsize \in Nat
    PROVE  \E f \in [SUBSET Bufs -> Nat] : AddsUp(f, Sizes(K)) /\ Memory(K) = f[Bufs]
<1> DEFINE Solves(f) == f = [s \in SUBSET Bufs |-> IF s = {} THEN 0
                                ELSE K.buf[CHOOSE x \in s : TRUE].bufsize + f[s \ {CHOOSE x \in s : TRUE}]]
           m == CHOOSE f : Solves(f)
<1>1. Memory(K) = m[Bufs]
  BY DEF Memory, MapThenSumSet, MapThenFoldSet
<1>2. Sizes(K) \in [Bufs -> Nat]
  BY DEF Sizes
<1>3. PICK f \in [SUBSET Bufs -> Nat] : AddsUp(f, Sizes(K))
  BY <1>2, SumOfSet
<1>4. Solves(f)
  <2>1. ASSUME NEW s \in SUBSET Bufs, s # {}
        PROVE  f[s] = K.buf[Pick(s)].bufsize + f[s \ {Pick(s)}]
    <3>1. Pick(s) \in Bufs
      BY <2>1 DEF Pick
    <3> QED
      BY <1>3, <2>1, <3>1 DEF AddsUp, Sizes
  <2>2. \A s \in SUBSET Bufs : f[s] = IF s = {} THEN 0 ELSE K.buf[Pick(s)].bufsize + f[s \ {Pick(s)}]
    BY <1>3, <2>1 DEF AddsUp
  <2>3. f = [s \in SUBSET Bufs |-> IF s = {} THEN 0 ELSE K.buf[Pick(s)].bufsize + f[s \ {Pick(s)}]]
    BY <2>2
  <2> QED
    BY <2>3 DEF Pick
<1>5. Solves(m)
  <2> HIDE DEF Solves
  <2> QED
    BY <1>4
<1> HIDE DEF m
<1>6. \A s \in SUBSET Bufs : m[s] = f[s]
  <2> DEFINE T == {s \in SUBSET Bufs : m[s] = f[s]}
  <2>1. {} \in T
    BY <1>4, <1>5
  <2>2. ASSUME NEW s \in SUBSET Bufs, s # {}, s \ {Pick(s)} \in T PROVE s \in T
    <3>1. m[s] = K.buf[Pick(s)].bufsize + m[s \ {Pick(s)}]
      BY <1>5, <2>2 DEF Pick
    <3>2. f[s] = K.buf[Pick(s)].bufsize + f[s \ {Pick(s)}]
      BY <1>4, <2>2 DEF Pick
    <3> QED
      BY <2>2, <3>1, <3>2
  <2>3. SUBSET Bufs \subseteq T
    <3> HIDE DEF T
    <3> QED
      BY <2>1, <2>2, SubsetInduction
  <2> QED
    BY <2>3
<1> QED
  BY <1>1, <1>3, <1>6

\* It follows the change of one buffer.
LEMMA MemoryMoves ==
    ASSUME NEW K, NEW L, NEW b \in Bufs,
           \A x \in Bufs : K.buf[x].bufsize \in Nat /\ L.buf[x].bufsize \in Nat,
           \A x \in Bufs \ {b} : L.buf[x].bufsize = K.buf[x].bufsize
    PROVE  Memory(L) = Memory(K) - K.buf[b].bufsize + L.buf[b].bufsize /\ Memory(K) \in Nat /\ Memory(L) \in Nat
<1>1. PICK f \in [SUBSET Bufs -> Nat] : AddsUp(f, Sizes(K)) /\ Memory(K) = f[Bufs]
  BY MemoryIsSum
<1>2. PICK g \in [SUBSET Bufs -> Nat] : AddsUp(g, Sizes(L)) /\ Memory(L) = g[Bufs]
  BY MemoryIsSum
<1>3. PICK d \in [Bufs -> Nat], e \in [Bufs -> Nat] : d = Sizes(K) /\ e = Sizes(L)
  BY DEF Sizes
<1>4. \A x \in Bufs : d[x] = K.buf[x].bufsize /\ e[x] = L.buf[x].bufsize
  BY <1>3 DEF Sizes
<1> DEFINE T == {s \in SUBSET Bufs : g[s] = IF b \in s THEN f[s] - d[b] + e[b] ELSE f[s]}
<1>5. {} \in T
  BY <1>1, <1>2 DEF AddsUp
<1>6. ASSUME NEW s \in SUBSET Bufs, s # {}, s \ {Pick(s)} \in T PROVE s \in T
  <2>1. PICK x \in s : x = Pick(s)
    BY <1>6 DEF Pick
  <2>2. PICK t \in SUBSET Bufs : t = s \ {x}
    OBVIOUS
  <2>3. f[s] = d[x] + f[t] /\ g[s] = e[x] + g[t]
    BY <1>1, <1>2, <1>3, <1>6, <2>1, <2>2 DEF AddsUp
  <2>4. g[t] = IF b \in t THEN f[t] - d[b] + e[b] ELSE f[t]
    BY <1>6, <2>1, <2>2
  <2>5. f[t] \in Nat /\ d[x] \in Nat /\ e[x] \in Nat /\ d[b] \in Nat /\ e[b] \in Nat
    OBVIOUS
  <2>6. CASE x = b
    <3>1. b \in s /\ b \notin t
      BY <2>2, <2>6
    <3> QED
      BY <2>3, <2>4, <2>5, <2>6, <3>1
  <2>7. CASE x # b
    <3>1. b \in s <=> b \in t
      BY <2>2, <2>7
    <3>2. e[x] = d[x]
      BY <1>4, <2>7
    <3> QED
      BY <2>3, <2>4, <2>5, <3>1, <3>2
  <2> QED
    BY <2>6, <2>7
<1>7. SUBSET Bufs \subseteq T
  <2> HIDE DEF T
  <2> QED
    BY <1>5, <1>6, SubsetInduction
<1>8. Bufs \in T
  BY <1>7
<1> QED
  BY <1>1, <1>2, <1>4, <1>8

LEMMA MemorySame ==
    ASSUME NEW K, NEW L, \A x \in Bufs : K.buf[x].bufsize \in Nat /\ L.buf[x].bufsize = K.buf[x].bufsize
    PROVE  Memory(L) = Memory(K)
<1>1. Sizes(L) = Sizes(K)
  BY DEF Sizes
<1>2. PICK f \in [SUBSET Bufs -> Nat] : AddsUp(f, Sizes(K)) /\ Memory(K) = f[Bufs]
  BY MemoryIsSum
<1>3. PICK g \in [SUBSET Bufs -> Nat] : AddsUp(g, Sizes(K)) /\ Memory(L) = g[Bufs]
  BY <1>1, MemoryIsSum
<1> DEFINE T == {s \in SUBSET Bufs : g[s] = f[s]}
<1>4. {} \in T
  BY <1>2, <1>3 DEF AddsUp
<1>5. ASSUME NEW s \in SUBSET Bufs, s # {}, s \ {Pick(s)} \in T PROVE s \in T
  BY <1>2, <1>3, <1>5 DEF AddsUp
<1>6. SUBSET Bufs \subseteq T
  <2> HIDE DEF T
  <2> QED
    BY <1>4, <1>5, SubsetInduction
<1> QED
  BY <1>2, <1>3, <1>6

\* With buffers of one size it is this size times their number.
LEMMA MemoryOfOneSize ==
    ASSUME NEW K, NEW z \in Nat, \A x \in Bufs : K.buf[x].bufsize \in {0, z}
    PROVE  Memory(K) = z * Cardinality({x \in Bufs : K.buf[x].bufsize # 0})
<1> DEFINE In(s) == {x \in s : K.buf[x].bufsize # 0}
<1>1. PICK f \in [SUBSET Bufs -> Nat] : AddsUp(f, Sizes(K)) /\ Memory(K) = f[Bufs]
  <2>1. \A x \in Bufs : K.buf[x].bufsize \in Nat
    OBVIOUS
  <2> QED
    BY <2>1, MemoryIsSum
<1> DEFINE T == {s \in SUBSET Bufs : f[s] = z * Cardinality(In(s))}
<1>2. {} \in T
  <2>1. In({}) = {} /\ Cardinality({}) = 0
    BY FS_EmptySet
  <2> QED
    BY <1>1, <2>1 DEF AddsUp
<1>3. ASSUME NEW s \in SUBSET Bufs, s # {}, s \ {Pick(s)} \in T PROVE s \in T
  <2>1. PICK x \in s : x = Pick(s)
    BY <1>3 DEF Pick
  <2>2. PICK t \in SUBSET Bufs : t = s \ {x}
    OBVIOUS
  <2>3. f[s] = K.buf[x].bufsize + f[t]
    BY <1>1, <1>3, <2>1, <2>2 DEF AddsUp, Sizes
  <2>4. f[t] = z * Cardinality(In(t))
    BY <1>3, <2>1, <2>2
  <2>5. IsFiniteSet(In(t)) /\ Cardinality(In(t)) \in Nat
    <3>1. In(t) \in SUBSET Bufs
      OBVIOUS
    <3> QED
      BY <3>1, BioAssumption, FS_Subset, FS_CardinalityType
  <2>6. CASE K.buf[x].bufsize = 0
    <3>1. In(s) = In(t)
      BY <2>2, <2>6
    <3>2. f[s] = f[t]
      BY <2>3, <2>6
    <3> QED
      BY <2>4, <3>1, <3>2
  <2>7. CASE K.buf[x].bufsize # 0
    <3>1. In(s) = In(t) \cup {x} /\ x \notin In(t)
      BY <2>2, <2>7
    <3>2. Cardinality(In(s)) = Cardinality(In(t)) + 1
      <4> HIDE DEF In
      <4> QED
        BY <2>5, <3>1, FS_AddElement
    <3>3. K.buf[x].bufsize = z
      BY <2>7
    <3>4. PICK n \in Nat : n = Cardinality(In(t))
      BY <2>5
    <3>5. f[s] = z + z * n /\ Cardinality(In(s)) = n + 1
      BY <2>3, <2>4, <3>2, <3>3, <3>4
    <3>6. z + z * n = z * (n + 1)
      OBVIOUS
    <3> QED
      BY <3>5, <3>6
  <2> QED
    BY <2>6, <2>7
<1>4. SUBSET Bufs \subseteq T
  <2> HIDE DEF T
  <2> QED
    BY <1>2, <1>3, SubsetInduction
<1> QED
  BY <1>1, <1>4

-----------------------------------------------------------------------------
(***************************************************************************)
(* The free list and the queue of the driver, in which a buffer is once.   *)
(***************************************************************************)
LEMMA SeqFacts ==
    ASSUME NEW s \in Seq(Bufs)
    PROVE  /\ Len(s) \in Nat /\ DOMAIN s = 1 .. Len(s) /\ ToSet(s) \subseteq Bufs
           /\ \A i \in DOMAIN s : s[i] \in ToSet(s)
           /\ \A b \in ToSet(s) : \E i \in DOMAIN s : s[i] = b
           /\ s # <<>> => Len(s) > 0 /\ Head(s) = s[1] /\ Head(s) \in ToSet(s)
           /\ s = <<>> => ToSet(s) = {}
<1>1. Len(s) \in Nat /\ DOMAIN s = 1 .. Len(s) /\ \A i \in DOMAIN s : s[i] \in Bufs
  BY LenProperties, ElementOfSeq
<1>2. s # <<>> => Len(s) > 0 /\ Head(s) = s[1]
  BY <1>1, EmptySeq
<1> QED
  BY <1>1, <1>2 DEF ToSet

\* Append() puts an element behind the others.
LEMMA Appended ==
    ASSUME NEW s \in Seq(Bufs), NEW b \in Bufs
    PROVE  /\ Append(s, b) \in Seq(Bufs) /\ ToSet(Append(s, b)) = ToSet(s) \cup {b}
           /\ Append(s, b) # <<>> /\ Len(Append(s, b)) = Len(s) + 1
           /\ \A i \in 1 .. Len(s) : Append(s, b)[i] = s[i]
           /\ Append(s, b)[Len(s) + 1] = b
           /\ Once(s) /\ b \notin ToSet(s) => Once(Append(s, b))
<1> DEFINE t == Append(s, b)
<1>1. /\ t \in Seq(Bufs) /\ Len(t) = Len(s) + 1 /\ Len(s) \in Nat
      /\ DOMAIN s = 1 .. Len(s) /\ DOMAIN t = 1 .. Len(s) + 1
      /\ (\A i \in 1 .. Len(s) : t[i] = s[i]) /\ t[Len(s) + 1] = b
  BY AppendProperties, LenProperties
<1> HIDE DEF t
<1>2. ToSet(t) = ToSet(s) \cup {b}
  BY <1>1 DEF ToSet
<1>3. t # <<>>
  BY <1>1, EmptySeq
<1>4. Once(s) /\ b \notin ToSet(s) => Once(t)
  <2> SUFFICES ASSUME Once(s), b \notin ToSet(s), NEW i \in 1 .. Len(s) + 1, NEW j \in 1 .. Len(s) + 1, t[i] = t[j]
               PROVE  i = j
    BY <1>1 DEF Once
  <2>1. \A k \in 1 .. Len(s) : s[k] # b
    BY <1>1 DEF ToSet
  <2> QED
    BY <1>1, <2>1 DEF Once
<1> QED
  BY <1>1, <1>2, <1>3, <1>4 DEF t

\* An aged buffer goes before the others.
LEMMA Pushed ==
    ASSUME NEW s \in Seq(Bufs), NEW b \in Bufs
    PROVE  /\ <<b>> \o s \in Seq(Bufs) /\ ToSet(<<b>> \o s) = ToSet(s) \cup {b} /\ <<b>> \o s # <<>>
           /\ Len(<<b>> \o s) = Len(s) + 1
           /\ Once(s) /\ b \notin ToSet(s) => Once(<<b>> \o s)
<1> DEFINE t == <<b>> \o s
<1>1. <<b>> \in Seq(Bufs) /\ Len(<<b>>) = 1 /\ <<b>>[1] = b
  OBVIOUS
<1>2. /\ t \in Seq(Bufs) /\ Len(t) = Len(s) + 1 /\ Len(s) \in Nat
      /\ DOMAIN s = 1 .. Len(s) /\ DOMAIN t = 1 .. Len(s) + 1
      /\ t[1] = b /\ \A i \in 2 .. Len(s) + 1 : t[i] = s[i - 1]
  <2>1. /\ t \in Seq(Bufs) /\ Len(t) = 1 + Len(s) /\ Len(s) \in Nat
        /\ \A i \in 1 .. 1 + Len(s) : t[i] = IF i <= 1 THEN <<b>>[i] ELSE s[i - 1]
    BY <1>1, ConcatProperties, LenProperties
  <2>2. DOMAIN s = 1 .. Len(s) /\ DOMAIN t = 1 .. Len(t)
    BY <2>1, LenProperties
  <2> QED
    BY <1>1, <2>1, <2>2
<1> HIDE DEF t
<1>3. ToSet(t) = ToSet(s) \cup {b}
  <2>1. ASSUME NEW i \in 1 .. Len(s) PROVE s[i] \in ToSet(t)
    <3>1. i + 1 \in 2 .. Len(s) + 1 /\ (i + 1) - 1 = i
      BY <1>2
    <3>2. i + 1 \in DOMAIN t /\ t[i + 1] = s[i]
      BY <1>2, <3>1
    <3> QED
      BY <3>2 DEF ToSet
  <2>2. ASSUME NEW i \in 2 .. Len(s) + 1 PROVE t[i] \in ToSet(s)
    <3>1. i - 1 \in DOMAIN s /\ t[i] = s[i - 1]
      BY <1>2
    <3> QED
      BY <3>1, SeqFacts
  <2>3. b \in ToSet(t)
    BY <1>2 DEF ToSet
  <2>4. \A i \in DOMAIN t : i = 1 \/ i \in 2 .. Len(s) + 1
    BY <1>2
  <2> QED
    BY <1>2, <2>1, <2>2, <2>3, <2>4 DEF ToSet
<1>4. t # <<>>
  BY <1>2, EmptySeq
<1>5. Once(s) /\ b \notin ToSet(s) => Once(t)
  <2> SUFFICES ASSUME Once(s), b \notin ToSet(s), NEW i \in 1 .. Len(s) + 1, NEW j \in 1 .. Len(s) + 1, t[i] = t[j]
               PROVE  i = j
    BY <1>2 DEF Once
  <2>1. ASSUME NEW k \in 2 .. Len(s) + 1
        PROVE  k - 1 \in 1 .. Len(s) /\ t[k] = s[k - 1] /\ t[k] # b
    <3>1. k - 1 \in DOMAIN s /\ t[k] = s[k - 1]
      BY <1>2
    <3>2. s[k - 1] # b
      BY <3>1, SeqFacts
    <3> QED
      BY <1>2, <3>1, <3>2
  <2>2. CASE i = 1 \/ j = 1
    BY <1>2, <2>1, <2>2
  <2>3. CASE i # 1 /\ j # 1
    <3>1. i \in 2 .. Len(s) + 1 /\ j \in 2 .. Len(s) + 1
      BY <1>2, <2>3
    <3>2. i - 1 \in DOMAIN s /\ j - 1 \in DOMAIN s /\ s[i - 1] = s[j - 1]
      BY <1>2, <2>1, <3>1
    <3>3. i - 1 = j - 1
      BY <3>2 DEF Once
    <3> QED
      BY <3>1, <3>3
  <2> QED
    BY <2>2, <2>3
<1> QED
  BY <1>2, <1>3, <1>4, <1>5 DEF t

\* The place of the first element with a property, for the elements of a set T.
LEMMA FirstPlace ==
    ASSUME NEW I \in SUBSET Nat, I # {}
    PROVE  Min(I) \in I /\ \A i \in I : Min(I) <= i
<1>1. \E x \in I : \A y \in I : x <= y
  BY LeastNat
<1> QED
  BY <1>1 DEF Min

LEMMA Removed ==
    ASSUME NEW s \in Seq(Bufs), NEW b \in Bufs, Once(s), b \in ToSet(s)
    PROVE  \E i \in DOMAIN s : s[i] = b /\ RemoveFirst(s, b) = RemoveAt(s, i)
<1> DEFINE I == {i \in 1 .. Len(s) : s[i] = b}
<1>1. DOMAIN s = 1 .. Len(s) /\ Len(s) \in Nat
  BY SeqFacts
<1>2. I \in SUBSET Nat /\ I # {}
  BY <1>1 DEF ToSet
<1>3. Min(I) \in I
  BY <1>2, FirstPlace
<1>4. SelectInSeq(s, LAMBDA v : v = b) = Min(I)
  BY <1>2 DEF SelectInSeq
<1>5. RemoveFirst(s, b) = RemoveAt(s, Min(I))
  BY <1>2, <1>4 DEF RemoveFirst
<1> QED
  BY <1>1, <1>3, <1>5

\* RemoveFirst() takes a buffer out and leaves the others.
LEMMA RemovedFacts ==
    ASSUME NEW s \in Seq(Bufs), NEW b \in Bufs, Once(s), b \in ToSet(s)
    PROVE  /\ RemoveFirst(s, b) \in Seq(Bufs) /\ ToSet(RemoveFirst(s, b)) = ToSet(s) \ {b}
           /\ Once(RemoveFirst(s, b)) /\ Len(RemoveFirst(s, b)) = Len(s) - 1
<1>1. PICK i \in DOMAIN s : s[i] = b /\ RemoveFirst(s, b) = RemoveAt(s, i)
  BY Removed
<1>2. DOMAIN s = 1 .. Len(s) /\ Len(s) \in Nat
  BY SeqFacts, ZenonT(60)
<1> DEFINE t == RemoveAt(s, i)
<1>3. /\ t \in Seq(Bufs) /\ Len(t) = Len(s) - 1
      /\ \A j \in 1 .. Len(s) - 1 : t[j] = IF j < i THEN s[j] ELSE s[j + 1]
  BY <1>1, <1>2, RemoveAtProperties
<1>4. DOMAIN t = 1 .. Len(s) - 1
  <2> HIDE DEF t
  <2> QED
    BY <1>3, LenProperties
<1> HIDE DEF t
<1>5. ASSUME NEW j \in DOMAIN t
      PROVE  \E k \in DOMAIN s \ {i} : t[j] = s[k] /\ k = IF j < i THEN j ELSE j + 1
  BY <1>2, <1>3, <1>4
<1>6. ASSUME NEW k \in DOMAIN s \ {i}
      PROVE  s[k] \in ToSet(t)
  <2>1. CASE k < i
    <3>1. k \in DOMAIN t /\ t[k] = s[k]
      BY <1>2, <1>3, <1>4, <2>1
    <3> QED
      BY <3>1 DEF ToSet
  <2>2. CASE ~(k < i)
    <3>1. k - 1 \in DOMAIN t /\ t[k - 1] = s[(k - 1) + 1] /\ (k - 1) + 1 = k
      BY <1>2, <1>3, <1>4, <2>2
    <3> QED
      BY <3>1 DEF ToSet
  <2> QED
    BY <2>1, <2>2
<1>7. \A k \in DOMAIN s \ {i} : s[k] # b
  BY <1>1 DEF Once
<1>8. ToSet(t) = ToSet(s) \ {b}
  <2>1. \A j \in DOMAIN t : t[j] \in ToSet(s) \ {b}
    BY <1>5, <1>7 DEF ToSet
  <2>2. \A x \in ToSet(s) \ {b} : \E k \in DOMAIN s \ {i} : s[k] = x
    BY <1>1 DEF ToSet
  <2> QED
    BY <1>6, <2>1, <2>2 DEF ToSet
<1>9. Once(t)
  <2> SUFFICES ASSUME NEW j \in DOMAIN t, NEW k \in DOMAIN t, t[j] = t[k] PROVE j = k
    BY DEF Once
  <2>1. PICK m \in DOMAIN s \ {i} : t[j] = s[m] /\ m = IF j < i THEN j ELSE j + 1
    BY <1>5
  <2>2. PICK n \in DOMAIN s \ {i} : t[k] = s[n] /\ n = IF k < i THEN k ELSE k + 1
    BY <1>5
  <2>3. m = n
    BY <2>1, <2>2 DEF Once
  <2> QED
    BY <1>2, <1>4, <2>1, <2>2, <2>3
<1> QED
  BY <1>1, <1>3, <1>8, <1>9 DEF t

-----------------------------------------------------------------------------
(***************************************************************************)
(* What the operators do.                                                  *)
(***************************************************************************)
CacheType == [buf : [Bufs -> BufRecord], free : Seq(Bufs), bufsize : 0..v_bufhwm, wanted : BOOLEAN]

LEMMA CacheFields ==
    ASSUME NEW K \in CacheType
    PROVE  /\ K.buf \in [Bufs -> BufRecord] /\ K.free \in Seq(Bufs) /\ K.bufsize \in 0..v_bufhwm
           /\ K.wanted \in BOOLEAN /\ v_bufhwm \in Nat
           /\ \A b \in Bufs : /\ K.buf[b] \in BufRecord /\ K.buf[b].bufsize \in Nat
                              /\ K.buf[b].flags \in SUBSET Flags
                              /\ K.buf[b].blkno \in Blocks \cup {NoBlock}
                              /\ K.buf[b].data \in Vals \cup {NoVal}
BY BioAssumption DEF CacheType, BufRecord

LEMMA BufFields ==
    ASSUME NEW x \in BufRecord, NEW F \in SUBSET Flags
    PROVE  /\ [x EXCEPT !.flags = F] \in BufRecord
           /\ [x EXCEPT !.flags = F].flags = F /\ [x EXCEPT !.flags = F].blkno = x.blkno
           /\ [x EXCEPT !.flags = F].bufsize = x.bufsize /\ [x EXCEPT !.flags = F].data = x.data
BY DEF BufRecord

(* The buffer as brelse() leaves it.                                       *)
GivenUp(x) == [x EXCEPT !.flags =
    (IF "ERROR" \in x.flags THEN (x.flags \cup {"STALE", "AGE"}) \ {"ERROR", "DELWRI"} ELSE x.flags)
        \ {"WANTED", "BUSY", "ASYNC"}]

LEMMA GivenUpFacts ==
    ASSUME NEW x \in BufRecord
    PROVE  /\ GivenUp(x) \in BufRecord
           /\ GivenUp(x).blkno = x.blkno /\ GivenUp(x).bufsize = x.bufsize /\ GivenUp(x).data = x.data
           /\ "BUSY" \notin GivenUp(x).flags /\ "ASYNC" \notin GivenUp(x).flags
           /\ "DELWRI" \in GivenUp(x).flags => "DELWRI" \in x.flags
           /\ "DONE" \in x.flags => "DONE" \in GivenUp(x).flags
           /\ "STALE" \in x.flags => "STALE" \in GivenUp(x).flags
BY DEF GivenUp, BufRecord, Flags

LEMMA BrelseFacts ==
    ASSUME NEW K \in CacheType, NEW b \in Bufs, Once(K.free), b \notin ToSet(K.free)
    PROVE  /\ brelse(K, b) \in CacheType
           /\ brelse(K, b).buf = [K.buf EXCEPT ![b] = GivenUp(K.buf[b])]
           /\ brelse(K, b).bufsize = K.bufsize /\ brelse(K, b).wanted = FALSE
           /\ Once(brelse(K, b).free) /\ ToSet(brelse(K, b).free) = ToSet(K.free) \cup {b}
           /\ brelse(K, b).free # <<>>
<1> DEFINE flags == IF "ERROR" \in K.buf[b].flags THEN (K.buf[b].flags \cup {"STALE", "AGE"}) \ {"ERROR", "DELWRI"}
                    ELSE K.buf[b].flags
<1>1. K.buf[b] \in BufRecord /\ K.free \in Seq(Bufs)
  BY CacheFields
<1>2. PICK s \in Seq(Bufs) : s = IF "AGE" \in flags THEN <<b>> \o K.free ELSE Append(K.free, b)
  BY <1>1, Pushed, Appended
<1>3. Once(s) /\ ToSet(s) = ToSet(K.free) \cup {b} /\ s # <<>>
  BY <1>1, <1>2, Pushed, Appended
<1>4. PICK y \in BufRecord : y = GivenUp(K.buf[b])
  BY <1>1, GivenUpFacts
<1>5. brelse(K, b) = [K EXCEPT !.wanted = FALSE, !.buf[b].flags = flags \ {"WANTED", "BUSY", "ASYNC"}, !.free = s]
  BY <1>2 DEF brelse
<1>6. [K.buf EXCEPT ![b].flags = flags \ {"WANTED", "BUSY", "ASYNC"}] = [K.buf EXCEPT ![b] = y]
  BY <1>1, <1>4 DEF GivenUp
<1>7. brelse(K, b) = [K EXCEPT !.wanted = FALSE, !.buf = [K.buf EXCEPT ![b] = y], !.free = s]
  BY <1>5, <1>6
<1>8. [K.buf EXCEPT ![b] = y] \in [Bufs -> BufRecord]
  BY CacheFields
<1> QED
  BY <1>3, <1>4, <1>7, <1>8 DEF CacheType

LEMMA NotavailFacts ==
    ASSUME NEW K \in CacheType, NEW b \in Bufs, Once(K.free), b \in ToSet(K.free)
    PROVE  /\ notavail(K, b) \in CacheType
           /\ notavail(K, b).buf = [K.buf EXCEPT ![b] = [K.buf[b] EXCEPT !.flags = K.buf[b].flags \cup {"BUSY"}]]
           /\ notavail(K, b).bufsize = K.bufsize /\ notavail(K, b).wanted = K.wanted
           /\ Once(notavail(K, b).free) /\ ToSet(notavail(K, b).free) = ToSet(K.free) \ {b}
           /\ notavail(K, b).free = RemoveFirst(K.free, b)
<1>1. K.free \in Seq(Bufs) /\ K.buf \in [Bufs -> BufRecord] /\ K.buf[b].flags \cup {"BUSY"} \in SUBSET Flags
  BY CacheFields DEF Flags
<1>2. PICK s \in Seq(Bufs) : s = RemoveFirst(K.free, b)
  BY <1>1, RemovedFacts
<1>3. Once(s) /\ ToSet(s) = ToSet(K.free) \ {b}
  BY <1>1, <1>2, RemovedFacts
<1>4. PICK y \in BufRecord : y = [K.buf[b] EXCEPT !.flags = K.buf[b].flags \cup {"BUSY"}]
  BY <1>1, BufFields, CacheFields
<1>5. notavail(K, b) = [K EXCEPT !.free = s, !.buf = [K.buf EXCEPT ![b] = y]]
  BY <1>1, <1>2, <1>4 DEF notavail
<1>6. [K.buf EXCEPT ![b] = y] \in [Bufs -> BufRecord]
  BY <1>1
<1> QED
  BY <1>2, <1>3, <1>4, <1>5, <1>6 DEF CacheType

\* A buffer whose flags are set to F.
Flagged(K, b, F) == [K EXCEPT !.buf[b].flags = F]

LEMMA FlaggedFacts ==
    ASSUME NEW K \in CacheType, NEW b \in Bufs, NEW F \in SUBSET Flags
    PROVE  /\ Flagged(K, b, F) \in CacheType
           /\ Flagged(K, b, F).free = K.free /\ Flagged(K, b, F).bufsize = K.bufsize
           /\ Flagged(K, b, F).wanted = K.wanted
           /\ \A a \in Bufs \ {b} : Flagged(K, b, F).buf[a] = K.buf[a]
           /\ Flagged(K, b, F).buf[b].flags = F /\ Flagged(K, b, F).buf[b].blkno = K.buf[b].blkno
           /\ Flagged(K, b, F).buf[b].bufsize = K.buf[b].bufsize /\ Flagged(K, b, F).buf[b].data = K.buf[b].data
<1>1. PICK x \in BufRecord : x = K.buf[b]
  BY CacheFields
<1>2. PICK y \in BufRecord : y = [x EXCEPT !.flags = F]
  BY BufFields
<1>3. y.flags = F /\ y.blkno = x.blkno /\ y.bufsize = x.bufsize /\ y.data = x.data
  BY <1>2, BufFields
<1>4. Flagged(K, b, F) = [K EXCEPT !.buf = [K.buf EXCEPT ![b] = y]]
  BY <1>1, <1>2, CacheFields DEF Flagged
<1>5. [K.buf EXCEPT ![b] = y] \in [Bufs -> BufRecord]
  BY CacheFields
<1>6. PICK L \in CacheType : L = [K EXCEPT !.buf = [K.buf EXCEPT ![b] = y]]
  <2>1. [K EXCEPT !.buf = [K.buf EXCEPT ![b] = y]] \in CacheType
    BY <1>5 DEF CacheType
  <2> QED
    BY <2>1
<1>7. L.buf = [K.buf EXCEPT ![b] = y] /\ L.free = K.free /\ L.bufsize = K.bufsize /\ L.wanted = K.wanted
  BY <1>6 DEF CacheType
<1>8. (\A a \in Bufs \ {b} : L.buf[a] = K.buf[a]) /\ L.buf[b] = y
  BY <1>7, CacheFields
<1> QED
  BY <1>1, <1>3, <1>4, <1>6, <1>7, <1>8

(* x before and y after a wakeup.                                          *)
Woke(x, y) ==
    \/ y = x
    \/ x.pc = "asleep" /\ y = [x EXCEPT !.pc = x.then, !.then = "user", !.chan = NoBuf]

LEMMA WokeFacts ==
    ASSUME NEW x \in ProcRecord, CallOK(x), PlacesOK(x), NEW y, Woke(x, y)
    PROVE  /\ y \in ProcRecord /\ CallOK(y) /\ PlacesOK(y)
           /\ y.pc \in Sole => y = x
           /\ y.bp = x.bp /\ y.nbp = x.nbp /\ y.b = x.b /\ y.call = x.call /\ y.blk = x.blk
           /\ (y.pc = "got") <=> (x.pc = "got")
           /\ (y.pc = "user") <=> (x.pc = "user")
           /\ (y.pc = "hold") <=> (x.pc = "hold")
           /\ (y.pc = "asyncnt") <=> (x.pc = "asyncnt")
           /\ y.pc = "asleep" => y = x
<1>1. CASE y = x
  BY <1>1
<1>2. CASE y # x
  <2>1. x.pc = "asleep" /\ y = [x EXCEPT !.pc = x.then, !.then = "user", !.chan = NoBuf]
    BY <1>2 DEF Woke
  <2>2. x.then \in {"search", "iowait", "blkflush"}
    BY <2>1 DEF CallOK
  <2>3. /\ y \in ProcRecord /\ y.pc = x.then /\ y.then = "user" /\ y.chan = NoBuf
        /\ y.bp = x.bp /\ y.nbp = x.nbp /\ y.b = x.b /\ y.call = x.call /\ y.blk = x.blk /\ y.ra = x.ra
    BY <2>1, <2>2 DEF ProcRecord
  <2>4. InGetblk(y) <=> InGetblk(x)
    BY <2>1, <2>2, <2>3 DEF InGetblk
  <2>5. (InBiowait(y) <=> InBiowait(x)) /\ (InBlkflush(y) <=> InBlkflush(x)) /\ ~InBflush(y)
    BY <2>1, <2>2, <2>3 DEF InBiowait, InBlkflush, InBflush
  <2>6. CallOK(y)
    BY <2>1, <2>2, <2>3, <2>4, <2>5 DEF CallOK
  <2>7. PlacesOK(y)
    BY <2>1, <2>2, <2>3, <2>4, <2>5 DEF PlacesOK
  <2> QED
    BY <2>1, <2>2, <2>3, <2>4, <2>6, <2>7 DEF Sole
<1> QED
  BY <1>1, <1>2

LEMMA WakeFacts ==
    ASSUME NEW f \in [Procs -> ProcRecord], NEW C
    PROVE  /\ wakeprocs(f, C) \in [Procs -> ProcRecord]
           /\ \A q \in Procs : /\ Woke(f[q], wakeprocs(f, C)[q])
                               /\ f[q].pc # "asleep" => wakeprocs(f, C)[q] = f[q]
                               /\ wakeprocs(f, C)[q].pc = "asleep" => f[q].chan \notin C
<1>1. ASSUME NEW q \in Procs
      PROVE  /\ wakeprocs(f, C)[q] \in ProcRecord /\ Woke(f[q], wakeprocs(f, C)[q])
             /\ f[q].pc # "asleep" => wakeprocs(f, C)[q] = f[q]
             /\ wakeprocs(f, C)[q].pc = "asleep" => f[q].chan \notin C
  <2>1. PICK x \in ProcRecord : x = f[q]
    OBVIOUS
  <2>2. wakeprocs(f, C)[q] = IF x.pc = "asleep" /\ x.chan \in C
                             THEN [x EXCEPT !.pc = x.then, !.then = "user", !.chan = NoBuf] ELSE x
    BY <2>1 DEF wakeprocs
  <2>3. CASE x.pc = "asleep" /\ x.chan \in C
    <3>1. PICK y \in ProcRecord : y = [x EXCEPT !.pc = x.then, !.then = "user", !.chan = NoBuf]
      <4>1. PICK t \in {"user", "search", "getfree", "iowait", "bflush", "blkflush"} : t = x.then
        BY DEF ProcRecord
      <4>2. [x EXCEPT !.pc = t, !.then = "user", !.chan = NoBuf] \in ProcRecord
        BY ZenonT(60) DEF ProcRecord
      <4> QED
        BY <4>1, <4>2
    <3>2. y.pc = x.then /\ x.then # "asleep"
      BY <3>1 DEF ProcRecord
    <3> QED
      BY <2>1, <2>2, <2>3, <3>1, <3>2 DEF Woke
  <2>4. CASE ~(x.pc = "asleep" /\ x.chan \in C)
    BY <2>1, <2>2, <2>4 DEF Woke
  <2> QED
    BY <2>3, <2>4
<1>2. wakeprocs(f, C) = [q \in Procs |-> wakeprocs(f, C)[q]]
  BY DEF wakeprocs
<1> QED
  BY <1>1, <1>2

-----------------------------------------------------------------------------
(***************************************************************************)
(* A step of process p changes the buffers of X, which no other process    *)
(* has; the rest it only marks, or leaves alone.                           *)
(***************************************************************************)
Marked(x, y) ==
    /\ y.bufsize = x.bufsize /\ y.blkno = x.blkno /\ y.data = x.data
    /\ \A f \in {"BUSY", "DONE", "DELWRI", "ASYNC", "READ"} : f \in y.flags <=> f \in x.flags
    /\ \A f \in {"WANTED", "STALE"} : f \in x.flags => f \in y.flags
    /\ x = NoBuffer => y = x

Untouched(b) ==
    /\ Marked(c.buf[b], c'.buf[b])
    /\ (b \in ToSet(c'.free)) <=> (b \in ToSet(c.free))
    /\ (b \in ToSet(io')) <=> (b \in ToSet(io))

Touched(p, b) ==
    /\ PointOK(c'.buf[b], b \in ToSet(c'.free), b \in ToSet(io'), b \in Owned(p)')
    /\ \A q \in Procs \ {p} : b \notin Owned(q)

BufFrame(p, X) ==
    /\ TypeOK' /\ Once(c'.free) /\ Once(io')
    /\ \A b \in Bufs \ X : Untouched(b) /\ ((b \in Owned(p)') <=> (b \in Owned(p)))
    /\ \A b \in X : Touched(p, b)

ProcFrame(p) ==
    /\ cur' \in {p, NoProc}
    /\ CallOK(pr[p])' /\ PlacesOK(pr[p])' /\ (pr'[p].pc \in Sole => cur' = p)
    /\ HeldOK(pr[p])' /\ WokenOK(pr[p])'
    /\ pr'[p].call = "close" => pr[p].call = "close" \/ \A q \in Procs \ {p} : pr[q].pc = "user"
    /\ pr[p].pc = "user" => \A q \in Procs : pr[q].call # "close"

\* Those that still sleep.
StillAsleep(q, X) ==
    pr[q].pc = "asleep" =>
        /\ pr[q].chan = NoBuf => c'.wanted /\ c'.free = <<>>
        /\ pr[q].chan \in X => /\ "BUSY" \in c'.buf[pr[q].chan].flags
                               /\ "WANTED" \in c'.buf[pr[q].chan].flags
                               /\ c'.buf[pr[q].chan].blkno # NoBlock

OtherFrame(p, X) ==
    \A q \in Procs \ {p} : Woke(pr[q], pr'[q]) /\ (pr'[q].pc = "asleep" => StillAsleep(q, X))

\* The others keep what they had.
LEMMA OthersKeep ==
    ASSUME TypeOK, ProcOK, NEW q \in Procs, Woke(pr[q], pr'[q])
    PROVE  /\ Owned(q)' = Owned(q) /\ Owned(q) \subseteq Bufs
           /\ pr[q] \in ProcRecord /\ pr'[q] \in ProcRecord /\ CallOK(pr[q])' /\ PlacesOK(pr[q])'
           /\ pr'[q].call = pr[q].call
           /\ (pr'[q].pc = "user") <=> (pr[q].pc = "user")
           /\ (pr'[q].pc = "asyncnt") <=> (pr[q].pc = "asyncnt")
           /\ pr'[q].pc \in Sole => pr'[q] = pr[q]
<1>1. pr[q] \in ProcRecord /\ CallOK(pr[q]) /\ PlacesOK(pr[q])
  BY DEF TypeOK, ProcOK
<1>2. /\ pr'[q] \in ProcRecord /\ CallOK(pr'[q]) /\ PlacesOK(pr'[q])
      /\ pr'[q].pc \in Sole => pr'[q] = pr[q]
      /\ pr'[q].bp = pr[q].bp /\ pr'[q].nbp = pr[q].nbp /\ pr'[q].b = pr[q].b /\ pr'[q].call = pr[q].call
      /\ (pr'[q].pc = "got") <=> (pr[q].pc = "got")
      /\ (pr'[q].pc = "user") <=> (pr[q].pc = "user")
      /\ (pr'[q].pc = "asyncnt") <=> (pr[q].pc = "asyncnt")
  BY <1>1, WokeFacts
<1>3. Owned(q)' = Owned(q)
  BY <1>2 DEF Owned
<1>4. Owned(q) \subseteq Bufs
  BY <1>1 DEF Owned, ProcRecord
<1>5. CallOK(pr[q])' /\ PlacesOK(pr[q])'
  BY <1>2
<1> QED
  BY <1>1, <1>2, <1>3, <1>4, <1>5

LEMMA FrameStep ==
    ASSUME TypeOK, ProcInv, NEW p \in Procs, cur \in {p, NoProc}, NEW X \in SUBSET Bufs,
           BufFrame(p, X), ProcFrame(p), OtherFrame(p, X)
    PROVE  ProcInv'
<1>1. \A q \in Procs \ {p} : Woke(pr[q], pr'[q])
  BY DEF OtherFrame
<1>2. ASSUME NEW q \in Procs \ {p}
      PROVE  /\ Owned(q)' = Owned(q) /\ Owned(q) \subseteq Bufs
             /\ pr[q] \in ProcRecord /\ pr'[q] \in ProcRecord /\ CallOK(pr[q])' /\ PlacesOK(pr[q])'
             /\ pr'[q].call = pr[q].call
             /\ (pr'[q].pc = "user") <=> (pr[q].pc = "user")
             /\ pr'[q].pc \notin Sole /\ pr[q].pc \notin Sole
  <2>1. /\ Owned(q)' = Owned(q) /\ Owned(q) \subseteq Bufs
        /\ pr[q] \in ProcRecord /\ pr'[q] \in ProcRecord /\ CallOK(pr[q])' /\ PlacesOK(pr[q])'
        /\ pr'[q].call = pr[q].call
        /\ (pr'[q].pc = "user") <=> (pr[q].pc = "user")
        /\ pr'[q].pc \in Sole => pr'[q] = pr[q]
    BY <1>1, OthersKeep DEF ProcInv
  <2>2. pr[q].pc \notin Sole
    BY BioAssumption DEF ProcInv, ProcOK
  <2> QED
    BY <2>1, <2>2
<1>3. ProcOK'
  <2>1. ASSUME NEW q \in Procs
        PROVE  CallOK(pr[q])' /\ PlacesOK(pr[q])' /\ (pr'[q].pc \in Sole => cur' = q)
    BY <1>2 DEF ProcFrame
  <2>2. ASSUME NEW q \in Procs, NEW r \in Procs, pr'[q].call = "close", r # q
        PROVE  pr'[r].pc = "user"
    <3>1. CASE q = p
      <4>1. pr[q].call = "close" \/ pr[r].pc = "user"
        BY <2>2, <3>1 DEF ProcFrame
      <4>2. pr[r].pc = "user"
        BY <2>2, <4>1 DEF ProcInv, ProcOK
      <4> QED
        BY <1>2, <2>2, <3>1, <4>2
    <3>2. CASE q # p
      <4>1. pr[q].call = "close"
        BY <1>2, <2>2, <3>2
      <4>2. pr[r].pc = "user"
        BY <2>2, <4>1 DEF ProcInv, ProcOK
      <4>3. r # p
        BY <4>1, <4>2 DEF ProcFrame
      <4> QED
        BY <1>2, <4>2, <4>3
    <3> QED
      BY <3>1, <3>2
  <2>3. \A q \in Procs : CallOK(pr'[q]) /\ PlacesOK(pr'[q]) /\ (pr'[q].pc \in Sole => cur' = q)
    BY <2>1
  <2> QED
    BY <2>2, <2>3 DEF ProcOK
<1>4. \A q, r \in Procs : q # r => (Owned(q) \cap Owned(r) = {})'
  <2>1. \A q, r \in Procs : q # r => Owned(q) \cap Owned(r) = {}
    BY DEF ProcInv, BufsOK
  <2>2. ASSUME NEW q \in Procs \ {p}, NEW b \in Owned(q) PROVE b \notin Owned(p)'
    <3>1. b \in Bufs
      BY <1>2
    <3>2. b \notin X
      BY DEF BufFrame, Touched
    <3>3. b \notin Owned(p)
      BY <2>1
    <3> QED
      BY <3>1, <3>2, <3>3 DEF BufFrame
  <2> QED
    BY <1>2, <2>1, <2>2
<1>5. BufsOK'
  <2>1. ASSUME NEW b \in Bufs
        PROVE  PointOK(c'.buf[b], b \in ToSet(c'.free), b \in ToSet(io'), HasOwner(b)')
    <3>1. CASE b \in X
      <4>1. PointOK(c'.buf[b], b \in ToSet(c'.free), b \in ToSet(io'), b \in Owned(p)')
            /\ \A q \in Procs \ {p} : b \notin Owned(q)
        BY <3>1 DEF BufFrame, Touched
      <4>2. HasOwner(b)' <=> b \in Owned(p)'
        BY <1>2, <4>1 DEF HasOwner
      <4> QED
        BY <4>1, <4>2 DEF PointOK
    <3>2. CASE b \notin X
      <4>1. Untouched(b) /\ ((b \in Owned(p)') <=> (b \in Owned(p)))
        BY <3>2 DEF BufFrame
      <4>2. HasOwner(b)' <=> HasOwner(b)
        BY <1>2, <4>1 DEF HasOwner
      <4>3. PointOK(c.buf[b], b \in ToSet(c.free), b \in ToSet(io), HasOwner(b))
        BY DEF ProcInv, BufsOK
      <4>4. Marked(c.buf[b], c'.buf[b])
            /\ ((b \in ToSet(c'.free)) <=> (b \in ToSet(c.free)))
            /\ ((b \in ToSet(io')) <=> (b \in ToSet(io)))
        BY <4>1 DEF Untouched
      <4> QED
        BY <4>2, <4>3, <4>4 DEF PointOK, Marked
    <3> QED
      BY <3>1, <3>2
  <2>2. \A q, r \in Procs : q # r => Owned(q)' \cap Owned(r)' = {}
    BY <1>4
  <2> QED
    BY <2>1, <2>2 DEF BufsOK, BufFrame
<1>6. ASSUME NEW q \in Procs PROVE HeldOK(pr[q])' /\ WokenOK(pr[q])'
  <2>1. CASE q = p
    BY <2>1 DEF ProcFrame
  <2>2. CASE q # p
    <3>1. /\ pr'[q].bp = pr[q].bp /\ pr'[q].nbp = pr[q].nbp /\ pr'[q].b = pr[q].b
          /\ pr'[q].pc = "asleep" => pr'[q] = pr[q]
          /\ (pr'[q].pc = "hold") <=> (pr[q].pc = "hold")
      <4>1. pr[q] \in ProcRecord /\ CallOK(pr[q]) /\ PlacesOK(pr[q]) /\ Woke(pr[q], pr'[q])
        BY <1>1, <1>2, <2>2 DEF ProcInv, ProcOK
      <4> QED
        BY <4>1, WokeFacts
    <3>2. ASSUME NEW b \in Owned(q)
          PROVE  b \in Bufs /\ Untouched(b)
      <4>1. b \in Bufs
        BY <1>2, <2>2
      <4>2. b \notin X
        BY <2>2 DEF BufFrame, Touched
      <4> QED
        BY <4>1, <4>2 DEF BufFrame
    <3>3. HeldOK(pr[q])
      BY DEF ProcInv
    <3>4. pr'[q].pc \notin Sole /\ pr[q].pc \notin Sole
      BY <1>2, <2>2
    <3>5. pr'[q].bp # NoBuf =>
            /\ "BUSY" \in c'.buf[pr'[q].bp].flags /\ c'.buf[pr'[q].bp].blkno # NoBlock
            /\ pr'[q].pc = "hold" => pr'[q].bp \notin ToSet(io')
            /\ pr'[q].pc # "hold" => pr'[q].bp \in ToSet(io') \/ "DONE" \in c'.buf[pr'[q].bp].flags
      <4> SUFFICES ASSUME pr[q].bp # NoBuf
                   PROVE  /\ "BUSY" \in c'.buf[pr[q].bp].flags /\ c'.buf[pr[q].bp].blkno # NoBlock
                          /\ pr[q].pc = "hold" => pr[q].bp \notin ToSet(io')
                          /\ pr[q].pc # "hold" => pr[q].bp \in ToSet(io') \/ "DONE" \in c'.buf[pr[q].bp].flags
        BY <3>1
      <4>1. Untouched(pr[q].bp)
        BY <3>2 DEF Owned
      <4> QED
        BY <3>3, <4>1 DEF Untouched, Marked, HeldOK, Is
    <3>6. pr'[q].nbp # NoBuf => c'.buf[pr'[q].nbp].blkno = NoBlock
      <4> SUFFICES ASSUME pr[q].nbp # NoBuf PROVE c'.buf[pr[q].nbp].blkno = NoBlock
        BY <3>1
      <4>1. Untouched(pr[q].nbp)
        BY <3>2 DEF Owned
      <4> QED
        BY <3>3, <4>1 DEF Untouched, Marked, HeldOK
    <3>7. HeldOK(pr[q])'
      BY <3>4, <3>5, <3>6 DEF HeldOK, Is, Sole
    <3>8. WokenOK(pr[q])'
      <4> SUFFICES ASSUME pr'[q].pc = "asleep" PROVE WokenOK(pr[q])'
        BY DEF WokenOK
      <4>1. pr'[q] = pr[q] /\ pr[q].pc = "asleep" /\ StillAsleep(q, X)
        BY <2>2, <3>1 DEF OtherFrame
      <4>2. WokenOK(pr[q]) /\ pr[q].chan \in Bufs \cup {NoBuf}
        BY <1>2, <2>2 DEF ProcInv, ProcRecord
      <4>3. CASE pr[q].chan = NoBuf
        BY <4>1, <4>3 DEF StillAsleep, WokenOK
      <4>4. CASE pr[q].chan # NoBuf
        <5>1. /\ "BUSY" \in c'.buf[pr[q].chan].flags /\ "WANTED" \in c'.buf[pr[q].chan].flags
              /\ c'.buf[pr[q].chan].blkno # NoBlock
          <6>1. CASE pr[q].chan \in X
            BY <4>1, <6>1 DEF StillAsleep
          <6>2. CASE pr[q].chan \notin X
            <7>1. Untouched(pr[q].chan)
              BY <4>2, <4>4, <6>2 DEF BufFrame
            <7> QED
              BY <4>1, <4>2, <4>4, <7>1 DEF Untouched, Marked, WokenOK, Is
          <6> QED
            BY <6>1, <6>2
        <5>2. pr[q].then = "iowait" => pr[q].chan \in ToSet(io')
          <6> SUFFICES ASSUME pr[q].then = "iowait" PROVE pr[q].chan \in ToSet(io')
            OBVIOUS
          <6>1. pr[q].chan = pr[q].bp
            BY <4>1 DEF ProcInv, ProcOK, CallOK
          <6>2. Untouched(pr[q].chan)
            BY <3>2, <4>4, <6>1 DEF Owned
          <6> QED
            BY <4>1, <4>2, <4>4, <6>2 DEF Untouched, WokenOK
        <5> QED
          BY <4>1, <4>4, <5>1, <5>2 DEF WokenOK, Is
      <4> QED
        BY <4>3, <4>4
    <3> QED
      BY <3>7, <3>8
  <2> QED
    BY <2>1, <2>2
<1> QED
  BY <1>3, <1>5, <1>6 DEF ProcInv

-----------------------------------------------------------------------------
(***************************************************************************)
(* The other invariants.                                                   *)
(***************************************************************************)
KeepsBlock(b) ==
    \/ c'.buf[b].blkno = NoBlock
    \/ c'.buf[b].blkno = c.buf[b].blkno /\ ("STALE" \in c.buf[b].flags => "STALE" \in c'.buf[b].flags)

\* A buffer is given a block only if no other has it.
LEMMA OneBufferStep ==
    ASSUME OneBufferPerBlock, NEW n,
           \A b \in Bufs : KeepsBlock(b) \/ (b = n /\ Cached(c'.buf[b].blkno) = {})
    PROVE  OneBufferPerBlock'
<1> SUFFICES ASSUME NEW x \in Blocks
             PROVE  Cardinality({b \in Bufs : c'.buf[b].blkno = x /\ "STALE" \notin c'.buf[b].flags}) <= 1
  BY DEF OneBufferPerBlock, Cached, Is
<1> DEFINE S == {b \in Bufs : c'.buf[b].blkno = x /\ "STALE" \notin c'.buf[b].flags}
<1>1. x # NoBlock
  BY BioAssumption
<1>2. ASSUME NEW a \in S, NEW b \in S PROVE a = b
  <2>1. IsFiniteSet(Cached(x)) /\ Cardinality(Cached(x)) \in Nat /\ Cardinality(Cached(x)) <= 1
    BY BioAssumption, FS_Subset, FS_CardinalityType DEF OneBufferPerBlock, Cached
  <2>2. CASE a \in Cached(x) /\ b \in Cached(x)
    <3>1. CASE Cardinality(Cached(x)) = 0
      <4>1. Cached(x) = {}
        BY <2>1, <3>1, FS_EmptySet
      <4> QED
        BY <2>2, <4>1
    <3>2. CASE Cardinality(Cached(x)) = 1
      <4>1. \E e : Cached(x) = {e}
        BY <2>1, <3>2, FS_Singleton
      <4> QED
        BY <2>2, <4>1
    <3> QED
      BY <2>1, <3>1, <3>2
  <2>3. CASE a \notin Cached(x) \/ b \notin Cached(x)
    <3>1. \A e \in S : KeepsBlock(e) => e \in Cached(x)
      BY <1>1 DEF KeepsBlock, Cached, Is
    <3>2. Cached(x) = {}
      BY <2>3, <3>1
    <3>3. a = n /\ b = n
      BY <3>1, <3>2
    <3> QED
      BY <3>3
  <2> QED
    BY <2>2, <2>3
<1>3. CASE S = {}
  BY <1>3, FS_EmptySet
<1>4. CASE S # {}
  <2>1. PICK e \in S : S = {e}
    BY <1>2, <1>4
  <2> HIDE DEF S
  <2>2. Cardinality(S) = 1
    BY <2>1, FS_Singleton
  <2> QED
    BY <2>2 DEF S
<1> QED
  BY <1>3, <1>4

AsyncWrite(b)  == b \in ToSet(io) /\ Is(b, "ASYNC") /\ ~Is(b, "READ")
AsyncWrites    == {b \in ToSet(io) : Is(b, "ASYNC") /\ ~Is(b, "READ")}
NotYetCounted  == {p \in Procs : pr[p].pc = "asyncnt"}

LEMMA AsyncFacts ==
    ASSUME TypeOK
    PROVE  /\ AsyncWrites = {b \in Bufs : AsyncWrite(b)}
           /\ IsFiniteSet(AsyncWrites) /\ Cardinality(AsyncWrites) \in Nat
           /\ IsFiniteSet(NotYetCounted) /\ Cardinality(NotYetCounted) \in Nat
<1>1. AsyncWrites = {b \in Bufs : AsyncWrite(b)}
  <2>1. ToSet(io) \subseteq Bufs
    BY SeqFacts DEF TypeOK
  <2> QED
    BY <2>1 DEF AsyncWrites, AsyncWrite
<1>2. AsyncWrites \subseteq Bufs
  BY <1>1
<1>3. IsFiniteSet(AsyncWrites) /\ IsFiniteSet(NotYetCounted)
  <2>1. NotYetCounted \subseteq Procs
    BY DEF NotYetCounted
  <2> QED
    BY <1>2, <2>1, BioAssumption, FS_Subset
<1> QED
  BY <1>1, <1>3, FS_CardinalityType

LEMMA AsyncFactsThen ==
    ASSUME TypeOK'
    PROVE  /\ AsyncWrites' = {b \in Bufs : AsyncWrite(b)'}
           /\ IsFiniteSet(AsyncWrites') /\ Cardinality(AsyncWrites') \in Nat
           /\ IsFiniteSet(NotYetCounted') /\ Cardinality(NotYetCounted') \in Nat
<1>1. (/\ AsyncWrites = {b \in Bufs : AsyncWrite(b)}
       /\ IsFiniteSet(AsyncWrites) /\ Cardinality(AsyncWrites) \in Nat
       /\ IsFiniteSet(NotYetCounted) /\ Cardinality(NotYetCounted) \in Nat)'
  BY AsyncFacts, PTL
<1> QED
  BY <1>1

\* A write that is started is counted later by the process p; it is counted
\* now; or neither.
LEMMA AsyncStep ==
    ASSUME TypeOK, TypeOK', AsyncWritesCounted, NEW p \in Procs,
           \A q \in Procs \ {p} : (pr'[q].pc = "asyncnt") <=> (pr[q].pc = "asyncnt"),
           \/ /\ basyncnt' = basyncnt /\ ((pr'[p].pc = "asyncnt") <=> (pr[p].pc = "asyncnt"))
              /\ \A b \in Bufs : AsyncWrite(b)' <=> AsyncWrite(b)
           \/ /\ basyncnt' = basyncnt /\ pr'[p].pc = "asyncnt" /\ pr[p].pc # "asyncnt"
              /\ \E n \in Bufs : /\ ~AsyncWrite(n) /\ AsyncWrite(n)'
                                 /\ \A b \in Bufs \ {n} : AsyncWrite(b)' <=> AsyncWrite(b)
           \/ /\ basyncnt' = basyncnt + 1 /\ pr'[p].pc # "asyncnt" /\ pr[p].pc = "asyncnt"
              /\ \A b \in Bufs : AsyncWrite(b)' <=> AsyncWrite(b)
    PROVE  AsyncWritesCounted'
<1>1. /\ AsyncWrites = {b \in Bufs : AsyncWrite(b)}
      /\ IsFiniteSet(AsyncWrites) /\ Cardinality(AsyncWrites) \in Nat
      /\ IsFiniteSet(NotYetCounted) /\ Cardinality(NotYetCounted) \in Nat
  BY AsyncFacts
<1>2. /\ AsyncWrites' = {b \in Bufs : AsyncWrite(b)'}
      /\ IsFiniteSet(AsyncWrites') /\ Cardinality(AsyncWrites') \in Nat
      /\ IsFiniteSet(NotYetCounted') /\ Cardinality(NotYetCounted') \in Nat
  BY AsyncFactsThen
<1>3. basyncnt + Cardinality(NotYetCounted) = Cardinality(AsyncWrites) /\ basyncnt \in Int
  BY DEF AsyncWritesCounted, NotYetCounted, AsyncWrites, TypeOK
<1>4. basyncnt' + Cardinality(NotYetCounted') = Cardinality(AsyncWrites')
  <2>1. CASE /\ basyncnt' = basyncnt /\ ((pr'[p].pc = "asyncnt") <=> (pr[p].pc = "asyncnt"))
             /\ \A b \in Bufs : AsyncWrite(b)' <=> AsyncWrite(b)
    <3>1. NotYetCounted' = NotYetCounted
      BY <2>1 DEF NotYetCounted
    <3>2. AsyncWrites' = AsyncWrites
      BY <1>1, <1>2, <2>1
    <3> QED
      BY <1>3, <2>1, <3>1, <3>2
  <2>2. CASE /\ basyncnt' = basyncnt /\ pr'[p].pc = "asyncnt" /\ pr[p].pc # "asyncnt"
             /\ \E n \in Bufs : /\ ~AsyncWrite(n) /\ AsyncWrite(n)'
                                /\ \A b \in Bufs \ {n} : AsyncWrite(b)' <=> AsyncWrite(b)
    <3>1. NotYetCounted' = NotYetCounted \cup {p} /\ p \notin NotYetCounted
      BY <2>2 DEF NotYetCounted
    <3>2. PICK n \in Bufs : /\ ~AsyncWrite(n) /\ AsyncWrite(n)'
                            /\ \A b \in Bufs \ {n} : AsyncWrite(b)' <=> AsyncWrite(b)
      BY <2>2
    <3>3. AsyncWrites' = AsyncWrites \cup {n} /\ n \notin AsyncWrites
      BY <1>1, <1>2, <3>2
    <3>4. /\ Cardinality(NotYetCounted') = Cardinality(NotYetCounted) + 1
          /\ Cardinality(AsyncWrites') = Cardinality(AsyncWrites) + 1
      BY <1>1, <3>1, <3>3, FS_AddElement
    <3> QED
      BY <1>1, <1>3, <2>2, <3>4
  <2>3. CASE /\ basyncnt' = basyncnt + 1 /\ pr'[p].pc # "asyncnt" /\ pr[p].pc = "asyncnt"
             /\ \A b \in Bufs : AsyncWrite(b)' <=> AsyncWrite(b)
    <3>1. NotYetCounted' = NotYetCounted \ {p} /\ p \in NotYetCounted
      BY <2>3 DEF NotYetCounted
    <3>2. AsyncWrites' = AsyncWrites
      BY <1>1, <1>2, <2>3
    <3>3. Cardinality(NotYetCounted') = Cardinality(NotYetCounted) - 1
      BY <1>1, <3>1, FS_RemoveElement
    <3> QED
      BY <1>1, <1>3, <2>3, <3>2, <3>3
  <2> QED
    BY <2>1, <2>2, <2>3
<1> QED
  BY <1>4 DEF AsyncWritesCounted, NotYetCounted, AsyncWrites

LEMMA AccountedIs == MemoryAccounted <=> c.bufsize + Memory(c) = v_bufhwm
BY DEF MemoryAccounted, Memory

\* The memory is where it was.
LEMMA MemoryKept ==
    ASSUME TypeOK, MemoryAccounted, c'.bufsize = c.bufsize,
           \A x \in Bufs : c'.buf[x].bufsize = c.buf[x].bufsize
    PROVE  MemoryAccounted'
<1>1. \A x \in Bufs : c.buf[x].bufsize \in Nat
  BY CacheFields DEF TypeOK, CacheType
<1>2. Memory(c') = Memory(c)
  BY <1>1, MemorySame
<1>3. c.bufsize + Memory(c) = v_bufhwm
  BY DEF MemoryAccounted, Memory
<1>4. (c.bufsize + Memory(c) = v_bufhwm)'
  BY <1>2, <1>3
<1> QED
  BY <1>4, AccountedIs, PTL

\* Buffer b takes memory, or gives it back.
LEMMA MemoryMoved ==
    ASSUME TypeOK, TypeOK', MemoryAccounted, NEW b \in Bufs,
           \A x \in Bufs \ {b} : c'.buf[x].bufsize = c.buf[x].bufsize,
           c'.bufsize = c.bufsize + c.buf[b].bufsize - c'.buf[b].bufsize
    PROVE  MemoryAccounted'
<1>1. c \in CacheType /\ c' \in CacheType
  BY DEF TypeOK, CacheType
<1>2. \A x \in Bufs : c.buf[x].bufsize \in Nat /\ c'.buf[x].bufsize \in Nat
  BY <1>1, CacheFields
<1>3. Memory(c') = Memory(c) - c.buf[b].bufsize + c'.buf[b].bufsize /\ Memory(c) \in Nat /\ Memory(c') \in Nat
  BY <1>2, MemoryMoves
<1>4. c.bufsize + Memory(c) = v_bufhwm /\ c.bufsize \in Int
  BY <1>1, CacheFields DEF MemoryAccounted, Memory
<1>5. PICK i \in Int, j \in Nat, k \in Nat : i = c.bufsize /\ j = c.buf[b].bufsize /\ k = c'.buf[b].bufsize
  BY <1>2, <1>4
<1>6. PICK m \in Nat : m = Memory(c)
  BY <1>3
<1>7. Memory(c') = m - j + k /\ c'.bufsize = i + j - k /\ i + m = v_bufhwm
  BY <1>3, <1>4, <1>5, <1>6
<1>8. (i + j - k) + (m - j + k) = i + m
  OBVIOUS
<1>9. (c.bufsize + Memory(c) = v_bufhwm)'
  BY <1>7, <1>8
<1> QED
  BY <1>9, AccountedIs, PTL

-----------------------------------------------------------------------------
(***************************************************************************)
(* A step, put together.                                                   *)
(***************************************************************************)
AsyncSame(b) == AsyncWrite(b)' <=> AsyncWrite(b)

\* How the step changes the count of the asynchronous writes.
CountFrame(p, X) ==
    \/ /\ basyncnt' = basyncnt /\ ((pr'[p].pc = "asyncnt") <=> (pr[p].pc = "asyncnt"))
       /\ \A b \in X : AsyncSame(b)
    \/ /\ basyncnt' = basyncnt /\ pr'[p].pc = "asyncnt" /\ pr[p].pc # "asyncnt"
       /\ \E n \in X : ~AsyncWrite(n) /\ AsyncWrite(n)' /\ \A b \in X \ {n} : AsyncSame(b)
    \/ /\ basyncnt' = basyncnt + 1 /\ pr'[p].pc # "asyncnt" /\ pr[p].pc = "asyncnt"
       /\ \A b \in X : AsyncSame(b)

LEMMA BioStep ==
    ASSUME BioInv, NEW p \in Procs, cur \in {p, NoProc}, NEW X \in SUBSET Bufs, NEW n,
           BufFrame(p, X), ProcFrame(p), OtherFrame(p, X), CountFrame(p, X), MemoryAccounted',
           \A b \in X : KeepsBlock(b) \/ (b = n /\ Cached(c'.buf[b].blkno) = {})
    PROVE  BioInv'
<1>1. TypeOK /\ TypeOK' /\ ProcInv /\ ProcOK /\ OneBufferPerBlock /\ AsyncWritesCounted
  BY DEF BioInv, ProcInv, BufFrame
<1>2. ProcInv'
  BY <1>1, FrameStep
<1>3. ASSUME NEW b \in Bufs \ X PROVE KeepsBlock(b) /\ AsyncSame(b)
  <2>1. Untouched(b)
    BY DEF BufFrame
  <2> QED
    BY <2>1 DEF Untouched, Marked, KeepsBlock, AsyncSame, AsyncWrite, Is
<1>4. OneBufferPerBlock'
  <2>1. \A b \in Bufs : KeepsBlock(b) \/ (b = n /\ Cached(c'.buf[b].blkno) = {})
    BY <1>3
  <2> QED
    BY <1>1, <2>1, OneBufferStep
<1>5. AsyncWritesCounted'
  <2>1. \A q \in Procs \ {p} : (pr'[q].pc = "asyncnt") <=> (pr[q].pc = "asyncnt")
    BY <1>1, OthersKeep DEF OtherFrame
  <2>2. CASE basyncnt' = basyncnt /\ ((pr'[p].pc = "asyncnt") <=> (pr[p].pc = "asyncnt"))
             /\ \A b \in X : AsyncSame(b)
    <3>1. \A b \in Bufs : AsyncWrite(b)' <=> AsyncWrite(b)
      BY <1>3, <2>2 DEF AsyncSame
    <3> QED
      BY <1>1, <2>1, <2>2, <3>1, AsyncStep
  <2>3. CASE /\ basyncnt' = basyncnt /\ pr'[p].pc = "asyncnt" /\ pr[p].pc # "asyncnt"
             /\ \E m \in X : ~AsyncWrite(m) /\ AsyncWrite(m)' /\ \A b \in X \ {m} : AsyncSame(b)
    <3>1. \E m \in Bufs : /\ ~AsyncWrite(m) /\ AsyncWrite(m)'
                          /\ \A b \in Bufs \ {m} : AsyncWrite(b)' <=> AsyncWrite(b)
      BY <1>3, <2>3 DEF AsyncSame
    <3> QED
      BY <1>1, <2>1, <2>3, <3>1, AsyncStep
  <2>4. CASE basyncnt' = basyncnt + 1 /\ pr'[p].pc # "asyncnt" /\ pr[p].pc = "asyncnt"
             /\ \A b \in X : AsyncSame(b)
    <3>1. \A b \in Bufs : AsyncWrite(b)' <=> AsyncWrite(b)
      BY <1>3, <2>4 DEF AsyncSame
    <3> QED
      BY <1>1, <2>1, <2>4, <3>1, AsyncStep
  <2> QED
    BY <2>2, <2>3, <2>4 DEF CountFrame
<1> QED
  BY <1>1, <1>2, <1>4, <1>5 DEF BioInv

(* Only marks on the buffers: process p goes from one place to another.    *)
LEMMA RecordStep ==
    ASSUME BioInv, NEW p \in Procs, cur \in {p, NoProc}, cur' \in {p, NoProc},
           NEW r \in ProcRecord, pr' = [pr EXCEPT ![p] = r],
           c' \in CacheType, c'.free = c.free, c'.bufsize = c.bufsize, c.wanted => c'.wanted,
           \A b \in Bufs : Marked(c.buf[b], c'.buf[b]), io' = io, disk' = disk,
           r.bp = pr[p].bp, r.nbp = pr[p].nbp,
           (r.pc = "got" /\ r.b # NoBuf) <=> (pr[p].pc = "got" /\ pr[p].b # NoBuf),
           r.pc = "got" => r.b = pr[p].b,
           CallOK(r), PlacesOK(r), r.pc \in Sole => cur' = p, HeldOK(r), WokenOK(pr[p])',
           r.call = "close" => pr[p].call = "close" \/ \A q \in Procs \ {p} : pr[q].pc = "user",
           pr[p].pc = "user" => \A q \in Procs : pr[q].call # "close",
           \/ basyncnt' = basyncnt /\ ((r.pc = "asyncnt") <=> (pr[p].pc = "asyncnt"))
           \/ basyncnt' = basyncnt + 1 /\ r.pc # "asyncnt" /\ pr[p].pc = "asyncnt"
    PROVE  BioInv'
<1>1. TypeOK /\ ProcInv /\ MemoryAccounted /\ pr \in [Procs -> ProcRecord] /\ Once(c.free) /\ Once(io)
  BY DEF BioInv, ProcInv, BufsOK, TypeOK
<1>2. pr'[p] = r /\ \A q \in Procs \ {p} : pr'[q] = pr[q]
  BY <1>1
<1>3. TypeOK'
  <2>1. pr' \in [Procs -> ProcRecord]
    BY <1>1
  <2>2. cur' \in Procs \cup {NoProc} /\ basyncnt' \in Int
    BY <1>1 DEF TypeOK
  <2> QED
    BY <1>1, <2>1, <2>2 DEF TypeOK, CacheType
<1>4. \A b \in Bufs : Untouched(b)
  BY DEF Untouched
<1>5. \A b \in Bufs : b \in Owned(p)' <=> b \in Owned(p)
  <2>1. Owned(p)' = {r.bp, r.nbp, IF r.pc = "got" THEN r.b ELSE NoBuf} \ {NoBuf}
    BY <1>2 DEF Owned
  <2> QED
    BY <2>1 DEF Owned
<1>6. BufFrame(p, {})
  BY <1>1, <1>3, <1>4, <1>5 DEF BufFrame
<1>7. HeldOK(r)'
  <2>1. r.bp \in Bufs \cup {NoBuf} /\ r.nbp \in Bufs \cup {NoBuf} /\ r.b \in Bufs \cup {NoBuf}
    BY DEF ProcRecord
  <2>2. r.pc \in {"check", "blkcheck", "got"} => r.b # NoBuf
    BY DEF CallOK
  <2>3. \A b \in Bufs : /\ c'.buf[b].blkno = c.buf[b].blkno
                        /\ ("BUSY" \in c'.buf[b].flags) <=> ("BUSY" \in c.buf[b].flags)
                        /\ ("DONE" \in c'.buf[b].flags) <=> ("DONE" \in c.buf[b].flags)
    BY DEF Marked
  <2> QED
    BY <2>1, <2>2, <2>3 DEF HeldOK, Is
<1>8. ProcFrame(p)
  <2>1. HeldOK(pr[p])' /\ CallOK(pr[p])' /\ PlacesOK(pr[p])'
    BY <1>2, <1>7 DEF HeldOK, Is
  <2> QED
    BY <1>2, <2>1 DEF ProcFrame
<1>9. OtherFrame(p, {})
  <2>1. \A q \in Procs : pr[q].pc = "asleep" /\ pr[q].chan = NoBuf => c'.wanted /\ c'.free = <<>>
    BY <1>1 DEF ProcInv, WokenOK
  <2> QED
    BY <1>2, <2>1 DEF OtherFrame, StillAsleep, Woke
<1>10. CountFrame(p, {})
  BY <1>2 DEF CountFrame
<1>11. MemoryAccounted'
  BY <1>1, MemoryKept DEF Marked
<1> QED
  BY <1>6, <1>8, <1>9, <1>10, <1>11, BioStep

-----------------------------------------------------------------------------
(***************************************************************************)
(* The steps that leave the buffers alone.                                 *)
(***************************************************************************)
LEMMA ActorFacts ==
    ASSUME BioInv, NEW p \in Procs
    PROVE  /\ pr \in [Procs -> ProcRecord] /\ pr[p] \in ProcRecord /\ c \in CacheType /\ io \in Seq(Bufs)
           /\ CallOK(pr[p]) /\ PlacesOK(pr[p]) /\ HeldOK(pr[p]) /\ WokenOK(pr[p])
           /\ \A b \in Bufs : Marked(c.buf[b], c.buf[b])
           /\ pr[p].pc \in Sole => cur = p
           /\ NoProc \notin Procs /\ NoBuf \notin Bufs /\ NoBlock \notin Blocks
BY BioAssumption DEF BioInv, ProcInv, ProcOK, TypeOK, CacheType, Marked

\* What is to be written late is known.
LEMMA DelayedFacts ==
    ASSUME BioInv, NEW b \in Bufs, "DELWRI" \in c.buf[b].flags
    PROVE  c.buf[b].blkno # NoBlock /\ "DONE" \in c.buf[b].flags /\ c.buf[b].data # NoVal
BY DEF BioInv, ProcInv, BufsOK, PointOK

LEMMA StartStep ==
    ASSUME BioInv, NEW p \in Procs, Start(p)
    PROVE  BioInv'
<1>1. /\ pr[p] = Idle /\ cur \in {p, NoProc} /\ cur' = p /\ UNCHANGED <<c, basyncnt, io, disk>>
      /\ \A q \in Procs : pr[q].call # "close"
  BY ActorFacts DEF Start, At, CallOK
<1>2. PICK r \in ProcRecord :
         /\ pr' = [pr EXCEPT ![p] = r]
         /\ r.bp = NoBuf /\ r.nbp = NoBuf /\ r.b = NoBuf /\ r.then = "user" /\ r.chan = NoBuf
         /\ \/ r.pc = "search" /\ r.call \in {"bread", "getblk"} /\ r.blk # NoBlock
            \/ r.pc \in {"search", "ra"} /\ r.call = "breada" /\ r.blk # NoBlock /\ r.ra # NoBlock
            \/ r.pc = "bflush" /\ r.call = "bflush"
            \/ r.pc = "bflush" /\ r.call = "close" /\ \A q \in Procs : pr[q].pc = "user"
            \/ r.pc = "blkflush" /\ r.call = "blkflush" /\ r.blk # NoBlock
  <2>1. PICK call \in Calls, x \in Blocks, y \in Blocks :
           LET called == [Idle EXCEPT !.call = call, !.blk = x]
           IN \/ call \in {"bread", "getblk"} /\ pr' = [pr EXCEPT ![p] = [called EXCEPT !.pc = "search"]]
              \/ call = "breada" /\ pr' = [pr EXCEPT ![p] = [called EXCEPT !.pc = IF incore(x) THEN "ra" ELSE "search",
                                                                       !.ra = y]]
              \/ call = "bflush" /\ pr' = [pr EXCEPT ![p] = [called EXCEPT !.pc = "bflush", !.blk = NoBlock]]
              \/ /\ call = "close" /\ \A q \in Procs : pr[q].pc = "user"
                 /\ pr' = [pr EXCEPT ![p] = [called EXCEPT !.pc = "bflush", !.blk = NoBlock]]
              \/ call = "blkflush" /\ pr' = [pr EXCEPT ![p] = [called EXCEPT !.pc = "blkflush"]]
    BY ZenonT(60) DEF Start
  <2>2. PICK r \in ProcRecord : /\ pr' = [pr EXCEPT ![p] = r] /\ r.call = call
           /\ r.bp = NoBuf /\ r.nbp = NoBuf /\ r.b = NoBuf /\ r.then = "user" /\ r.chan = NoBuf
           /\ \/ call \in {"bread", "getblk"} /\ r.pc = "search" /\ r.blk = x
              \/ call = "breada" /\ r.pc \in {"ra", "search"} /\ r.blk = x /\ r.ra = y
              \/ call = "bflush" /\ r.pc = "bflush"
              \/ call = "close" /\ r.pc = "bflush" /\ \A q \in Procs : pr[q].pc = "user"
              \/ call = "blkflush" /\ r.pc = "blkflush" /\ r.blk = x
    <3>1. /\ [Idle EXCEPT !.call = call, !.blk = x, !.pc = "search"] \in ProcRecord
          /\ [Idle EXCEPT !.call = call, !.blk = x, !.pc = "search", !.ra = y] \in ProcRecord
          /\ [Idle EXCEPT !.call = call, !.blk = x, !.pc = "ra", !.ra = y] \in ProcRecord
          /\ [Idle EXCEPT !.call = call, !.blk = NoBlock, !.pc = "bflush"] \in ProcRecord
          /\ [Idle EXCEPT !.call = call, !.blk = x, !.pc = "blkflush"] \in ProcRecord
      BY DEF ProcRecord, Idle
    <3> QED
      BY <2>1, <3>1 DEF Idle
  <2>3. x # NoBlock /\ y # NoBlock
    BY BioAssumption
  <2> QED
    BY <2>2, <2>3
<1>3. \/ r.pc = "search" /\ r.call \in {"bread", "getblk"} /\ r.blk # NoBlock
      \/ r.pc \in {"search", "ra"} /\ r.call = "breada" /\ r.blk # NoBlock /\ r.ra # NoBlock
      \/ r.pc = "bflush" /\ r.call = "bflush"
      \/ r.pc = "bflush" /\ r.call = "close" /\ \A q \in Procs : pr[q].pc = "user"
      \/ r.pc = "blkflush" /\ r.call = "blkflush" /\ r.blk # NoBlock
  BY <1>2
<1>4. CallOK(r) /\ PlacesOK(r) /\ HeldOK(r)
  BY <1>2, <1>3 DEF CallOK, PlacesOK, HeldOK, InGetblk, InBiowait, InBlkflush, InBflush
<1>5. pr'[p] = r
  BY <1>2, ActorFacts
<1>6. WokenOK(pr[p])'
  BY <1>2, <1>3, <1>5 DEF WokenOK
<1>7. c' \in CacheType /\ c' = c /\ \A b \in Bufs : Marked(c.buf[b], c'.buf[b])
  BY <1>1, ActorFacts
<1>8. pr[p].pc = "user" /\ pr[p].bp = NoBuf /\ pr[p].nbp = NoBuf
  BY <1>1 DEF Idle
<1>9. r.call = "close" => pr[p].call = "close" \/ \A q \in Procs \ {p} : pr[q].pc = "user"
  BY <1>3
<1> QED
  BY <1>1, <1>2, <1>3, <1>4, <1>6, <1>7, <1>8, <1>9, RecordStep

\* Process p goes on at pc, with b to look at.
LEMMA GotoStep ==
    ASSUME BioInv, NEW p \in Procs, At(p, pr[p].pc), NEW r \in ProcRecord, cur' = p,
           pr' = [pr EXCEPT ![p] = r], UNCHANGED <<c, io, disk>>,
           r.bp = pr[p].bp, r.nbp = pr[p].nbp, r.pc \notin {"got", "asleep"},
           pr[p].pc \notin {"got", "user"}, r.call = "close" => pr[p].call = "close",
           CallOK(r), PlacesOK(r), HeldOK(r),
           \/ basyncnt' = basyncnt /\ ((r.pc = "asyncnt") <=> (pr[p].pc = "asyncnt"))
           \/ basyncnt' = basyncnt + 1 /\ r.pc # "asyncnt" /\ pr[p].pc = "asyncnt"
    PROVE  BioInv'
<1>1. pr'[p] = r /\ cur \in {p, NoProc}
  BY ActorFacts DEF At
<1>2. WokenOK(pr[p])'
  BY <1>1 DEF WokenOK
<1>3. c' \in CacheType /\ c' = c /\ \A b \in Bufs : Marked(c.buf[b], c'.buf[b])
  BY ActorFacts
<1> QED
  BY <1>1, <1>2, <1>3, RecordStep

\* Process p is back in its caller.
LEMMA ReturnStep ==
    ASSUME BioInv, NEW p \in Procs, At(p, pr[p].pc), cur' = NoProc,
           pr' = [pr EXCEPT ![p] = Idle],
           c' \in CacheType, c'.free = c.free, c'.bufsize = c.bufsize, c'.wanted = c.wanted,
           \A b \in Bufs : Marked(c.buf[b], c'.buf[b]), io' = io, disk' = disk,
           pr[p].bp = NoBuf, pr[p].nbp = NoBuf, pr[p].pc \notin {"got", "user"},
           \/ basyncnt' = basyncnt /\ pr[p].pc # "asyncnt"
           \/ basyncnt' = basyncnt + 1 /\ pr[p].pc = "asyncnt"
    PROVE  BioInv'
<1>1. PICK r \in ProcRecord : r = Idle
  BY DEF Idle, ProcRecord
<1>2. /\ r.bp = NoBuf /\ r.nbp = NoBuf /\ r.b = NoBuf /\ r.pc = "user" /\ r.call = "none"
  BY <1>1 DEF Idle
<1>3. CallOK(r) /\ PlacesOK(r) /\ HeldOK(r)
  BY <1>1, <1>2 DEF CallOK, PlacesOK, HeldOK, InGetblk, InBiowait, InBlkflush, InBflush
<1>4. pr'[p] = r /\ cur \in {p, NoProc}
  BY <1>1, ActorFacts DEF At
<1>5. WokenOK(pr[p])'
  BY <1>2, <1>4 DEF WokenOK
<1>6. r.pc \notin Sole
  BY <1>2 DEF Sole
<1> QED
  BY <1>1, <1>2, <1>3, <1>4, <1>5, <1>6, RecordStep

LEMMA KmemStep ==
    ASSUME BioInv, NEW p \in Procs, Kmem(p)
    PROVE  BioInv'
<1>1. PICK x \in ProcRecord : x = pr[p] /\ x.pc = "kmem" /\ CallOK(x) /\ PlacesOK(x) /\ HeldOK(x)
  BY ActorFacts DEF Kmem, At
<1>2. PICK r \in ProcRecord : r = [x EXCEPT !.pc = "search"]
  BY ZenonT(60) DEF ProcRecord
<1>3. pr' = [pr EXCEPT ![p] = r] /\ cur' = p /\ UNCHANGED <<c, basyncnt, io, disk>>
  BY <1>1, <1>2 DEF Kmem, Goto
<1>4. /\ r.pc = "search" /\ r.bp = x.bp /\ r.nbp = x.nbp /\ r.b = x.b /\ r.call = x.call /\ r.blk = x.blk
      /\ r.ra = x.ra
  BY <1>2 DEF ProcRecord
<1>5. CallOK(r) /\ PlacesOK(r) /\ HeldOK(r)
  BY <1>1, <1>4 DEF CallOK, PlacesOK, HeldOK, InGetblk, InBiowait, InBlkflush, InBflush
<1>6. r.call # "close"
  BY <1>5, <1>4 DEF CallOK, InGetblk
<1>7. At(p, pr[p].pc)
  BY DEF Kmem, At
<1> QED
  BY <1>1, <1>3, <1>4, <1>5, <1>6, <1>7, GotoStep

LEMMA AsyncntStep ==
    ASSUME BioInv, NEW p \in Procs, Asyncnt(p)
    PROVE  BioInv'
<1>1. PICK x \in ProcRecord : x = pr[p] /\ x.pc = "asyncnt" /\ CallOK(x) /\ PlacesOK(x) /\ HeldOK(x)
  BY ActorFacts DEF Asyncnt, At
<1>2. At(p, pr[p].pc) /\ basyncnt' = basyncnt + 1 /\ UNCHANGED <<c, io, disk>>
  BY <1>1 DEF Asyncnt
<1>3. CASE x.then = "user"
  <2>1. pr' = [pr EXCEPT ![p] = Idle] /\ cur' = NoProc
    BY <1>1, <1>3 DEF Asyncnt, Return
  <2>2. x.bp = NoBuf /\ x.nbp = NoBuf
    BY <1>1, <1>3 DEF PlacesOK, InGetblk, InBiowait
  <2>3. c' \in CacheType /\ c' = c /\ \A b \in Bufs : Marked(c.buf[b], c'.buf[b])
    BY <1>2, ActorFacts
  <2> QED
    BY <1>1, <1>2, <2>1, <2>2, <2>3, ReturnStep
<1>4. CASE x.then # "user"
  <2>1. x.then \in {"getfree", "bflush"}
    BY <1>1, <1>4 DEF CallOK
  <2>2. PICK r \in ProcRecord : r = [x EXCEPT !.pc = x.then, !.then = "user"]
    <3>1. PICK t \in {"getfree", "bflush"} : t = x.then
      BY <2>1
    <3>2. [x EXCEPT !.pc = t, !.then = "user"] \in ProcRecord
      BY DEF ProcRecord
    <3> QED
      BY <3>1, <3>2
  <2>3. pr' = [pr EXCEPT ![p] = r] /\ cur' = p
    BY <1>1, <1>4, <2>2 DEF Asyncnt
  <2>4. /\ r.pc = x.then /\ r.bp = x.bp /\ r.nbp = x.nbp /\ r.b = x.b /\ r.call = x.call /\ r.blk = x.blk
        /\ r.ra = x.ra
    BY <2>2 DEF ProcRecord
  <2>5. CallOK(r) /\ PlacesOK(r) /\ HeldOK(r)
    BY <1>1, <2>1, <2>4 DEF CallOK, PlacesOK, HeldOK, InGetblk, InBiowait, InBlkflush, InBflush
  <2> QED
    BY <1>1, <1>2, <2>1, <2>3, <2>4, <2>5, GotoStep
<1> QED
  BY <1>3, <1>4

LEMMA ReadaheadStep ==
    ASSUME BioInv, NEW p \in Procs, Readahead(p)
    PROVE  BioInv'
<1>1. PICK x \in ProcRecord : x = pr[p] /\ x.pc = "ra" /\ CallOK(x) /\ PlacesOK(x) /\ HeldOK(x)
  BY ActorFacts DEF Readahead, At
<1>2. At(p, pr[p].pc) /\ cur' = p /\ UNCHANGED <<c, basyncnt, io, disk>>
  BY <1>1 DEF Readahead
<1>3. PICK r \in ProcRecord :
         /\ pr' = [pr EXCEPT ![p] = r]
         /\ r.bp = x.bp /\ r.nbp = x.nbp /\ r.b = x.b /\ r.ra = x.blk
         /\ \/ r.pc = "search" /\ r.call = "ra" /\ r.blk = x.ra
            \/ r.pc = "raend" /\ r.call = x.call /\ r.blk = x.blk
  <2>1. PICK m \in Blocks \cup {NoBlock}, n \in Blocks \cup {NoBlock} : m = x.blk /\ n = x.ra
    BY DEF ProcRecord
  <2>2. CASE pr' = [pr EXCEPT ![p] = [x EXCEPT !.pc = "search", !.call = "ra", !.ra = m, !.blk = n]]
    <3>1. PICK r \in ProcRecord : r = [x EXCEPT !.pc = "search", !.call = "ra", !.ra = m, !.blk = n]
      BY <2>1, ZenonT(60) DEF ProcRecord
    <3>2. r.bp = x.bp /\ r.nbp = x.nbp /\ r.b = x.b /\ r.ra = m /\ r.pc = "search" /\ r.call = "ra" /\ r.blk = n
      BY <3>1 DEF ProcRecord
    <3> QED
      BY <2>1, <2>2, <3>1, <3>2
  <2>3. CASE pr' = [pr EXCEPT ![p] = [x EXCEPT !.pc = "raend", !.ra = m]]
    <3>1. PICK r \in ProcRecord : r = [x EXCEPT !.pc = "raend", !.ra = m]
      BY <2>1, ZenonT(60) DEF ProcRecord
    <3>2. r.bp = x.bp /\ r.nbp = x.nbp /\ r.b = x.b /\ r.ra = m /\ r.pc = "raend" /\ r.call = x.call /\ r.blk = x.blk
      BY <3>1 DEF ProcRecord
    <3> QED
      BY <2>1, <2>3, <3>1, <3>2
  <2>4. \/ pr' = [pr EXCEPT ![p] = [x EXCEPT !.pc = "search", !.call = "ra", !.ra = m, !.blk = n]]
        \/ pr' = [pr EXCEPT ![p] = [x EXCEPT !.pc = "raend", !.ra = m]]
    BY <1>1, <2>1 DEF Readahead
  <2> QED
    BY <2>2, <2>3, <2>4
<1>4. CallOK(r) /\ PlacesOK(r) /\ HeldOK(r)
  BY <1>1, <1>3 DEF CallOK, PlacesOK, HeldOK, InGetblk, InBiowait, InBlkflush, InBflush
<1>5. r.call # "close"
  BY <1>1, <1>3 DEF CallOK
<1> QED
  BY <1>1, <1>2, <1>3, <1>4, <1>5, GotoStep

LEMMA ReadaheadEndStep ==
    ASSUME BioInv, NEW p \in Procs, ReadaheadEnd(p)
    PROVE  BioInv'
<1>1. PICK x \in ProcRecord : x = pr[p] /\ x.pc = "raend" /\ CallOK(x) /\ PlacesOK(x) /\ HeldOK(x)
  BY ActorFacts DEF ReadaheadEnd, At
<1>2. At(p, pr[p].pc) /\ cur' = p /\ UNCHANGED <<c, basyncnt, io, disk>>
  BY <1>1 DEF ReadaheadEnd
<1>3. PICK r \in ProcRecord :
         /\ pr' = [pr EXCEPT ![p] = r]
         /\ r.bp = x.bp /\ r.nbp = x.nbp /\ r.b = x.b /\ r.blk = x.ra /\ r.call = "bread"
         /\ r.pc = IF x.bp = NoBuf THEN "search" ELSE "iowait"
  <2>1. PICK t \in {"search", "iowait"} : t = IF x.bp = NoBuf THEN "search" ELSE "iowait"
    OBVIOUS
  <2>2. PICK m \in Blocks \cup {NoBlock} : m = x.ra
    BY DEF ProcRecord
  <2>3. PICK r \in ProcRecord : r = [x EXCEPT !.pc = t, !.call = "bread", !.blk = m, !.ra = NoBlock]
    <3>1. PICK y \in ProcRecord : y = [x EXCEPT !.call = "bread", !.blk = m, !.ra = NoBlock]
      BY <2>2, ZenonT(60) DEF ProcRecord
    <3>2. [y EXCEPT !.pc = t] \in ProcRecord
      BY <2>1 DEF ProcRecord
    <3>3. [y EXCEPT !.pc = t] = [x EXCEPT !.pc = t, !.call = "bread", !.blk = m, !.ra = NoBlock]
      BY <3>1 DEF ProcRecord
    <3> QED
      BY <3>2, <3>3
  <2>4. r.bp = x.bp /\ r.nbp = x.nbp /\ r.b = x.b /\ r.blk = m /\ r.call = "bread" /\ r.pc = t
    BY <2>3 DEF ProcRecord
  <2>5. pr' = [pr EXCEPT ![p] = r]
    BY <1>1, <2>1, <2>2, <2>3 DEF ReadaheadEnd
  <2> QED
    BY <2>1, <2>2, <2>4, <2>5
<1>4. CallOK(r) /\ PlacesOK(r) /\ HeldOK(r)
  BY <1>1, <1>3 DEF CallOK, PlacesOK, HeldOK, InGetblk, InBiowait, InBlkflush, InBflush
<1> QED
  BY <1>1, <1>2, <1>3, <1>4, GotoStep

LEMMA BlkflushSearchStep ==
    ASSUME BioInv, NEW p \in Procs, BlkflushSearch(p)
    PROVE  BioInv'
<1>1. PICK x \in ProcRecord : x = pr[p] /\ x.pc = "blkflush" /\ CallOK(x) /\ PlacesOK(x) /\ HeldOK(x)
  BY ActorFacts DEF BlkflushSearch, At
<1>2. At(p, pr[p].pc) /\ cur' = p /\ UNCHANGED <<c, basyncnt, io, disk>>
  BY <1>1 DEF BlkflushSearch
<1>3. PICK r \in ProcRecord :
         /\ pr' = [pr EXCEPT ![p] = r]
         /\ r.bp = x.bp /\ r.nbp = x.nbp /\ r.blk = x.blk /\ r.call = x.call
         /\ \/ r.pc = "blkcheck" /\ r.b \in Cached(x.blk)
            \/ r.pc = "flushed"
  <2>1. CASE \E b \in Cached(pr[p].blk) : pr' = [pr EXCEPT ![p].pc = "blkcheck", ![p].b = b]
    <3>1. PICK b \in Cached(x.blk) : pr' = [pr EXCEPT ![p] = [x EXCEPT !.pc = "blkcheck", !.b = b]]
      BY <1>1, <2>1
    <3>2. [x EXCEPT !.pc = "blkcheck", !.b = b] \in ProcRecord
      BY DEF ProcRecord, Cached
    <3> QED
      BY <3>1, <3>2, ZenonT(60) DEF ProcRecord
  <2>2. CASE pr' = [pr EXCEPT ![p].pc = "flushed"]
    <3>1. pr' = [pr EXCEPT ![p] = [x EXCEPT !.pc = "flushed"]]
      BY <1>1, <2>2
    <3>2. [x EXCEPT !.pc = "flushed"] \in ProcRecord
      BY DEF ProcRecord
    <3> QED
      BY <3>1, <3>2 DEF ProcRecord
  <2> QED
    BY <2>1, <2>2 DEF BlkflushSearch
<1>4. r.pc = "blkcheck" => r.b # NoBuf /\ c.buf[r.b].blkno = r.blk
  BY <1>3, BioAssumption DEF Cached
<1>5. CallOK(r) /\ PlacesOK(r) /\ HeldOK(r)
  BY <1>1, <1>3, <1>4 DEF CallOK, PlacesOK, HeldOK, InGetblk, InBiowait, InBlkflush, InBflush
<1> QED
  BY <1>1, <1>2, <1>3, <1>5, GotoStep

LEMMA ElsewhereStep ==
    ASSUME BioInv, NEW p \in Procs, Elsewhere(p)
    PROVE  BioInv'
<1>1. pr[p].pc = "hold" /\ cur \in {p, NoProc} /\ cur' = NoProc /\ UNCHANGED <<c, basyncnt, pr, io, disk>>
  BY DEF Elsewhere, At
<1>2. \A q \in Procs : pr[q].pc \notin Sole
  <2>1. pr[p].pc \notin Sole
    BY <1>1 DEF Sole
  <2>2. \A q \in Procs : pr[q].pc \in Sole => cur = q
    BY DEF BioInv, ProcInv, ProcOK
  <2> QED
    BY <1>1, <2>1, <2>2, BioAssumption
<1>3. TypeOK'
  BY <1>1 DEF BioInv, TypeOK
<1>4. ProcOK'
  BY <1>1, <1>2 DEF BioInv, ProcInv, ProcOK
<1>5. BufsOK' /\ \A q \in Procs : HeldOK(pr[q])' /\ WokenOK(pr[q])'
  <2>1. BufsOK'
    BY <1>1 DEF BioInv, ProcInv, BufsOK, HasOwner, Owned
  <2>2. \A q \in Procs : HeldOK(pr[q]) /\ WokenOK(pr[q])
    BY DEF BioInv, ProcInv
  <2>3. \A q \in Procs : HeldOK(pr[q])' /\ WokenOK(pr[q])'
    BY <1>1, <2>2 DEF HeldOK, WokenOK, Is
  <2> QED
    BY <2>1, <2>3
<1>6. MemoryAccounted' /\ OneBufferPerBlock' /\ AsyncWritesCounted'
  <2>1. MemoryAccounted'
    BY <1>1, MemoryKept DEF BioInv
  <2>2. OneBufferPerBlock'
    BY <1>1 DEF BioInv, OneBufferPerBlock, Cached, Is
  <2>3. AsyncWritesCounted'
    BY <1>1 DEF BioInv, AsyncWritesCounted, Is
  <2> QED
    BY <2>1, <2>2, <2>3
<1> QED
  BY <1>3, <1>4, <1>5, <1>6 DEF BioInv, ProcInv

LEMMA BlkflushEndStep ==
    ASSUME BioInv, NEW p \in Procs, BlkflushEnd(p)
    PROVE  BioInv'
<1>1. pr[p].pc = "flushed" /\ PlacesOK(pr[p]) /\ At(p, pr[p].pc) /\ UNCHANGED <<c, basyncnt, io, disk>>
  BY ActorFacts DEF BlkflushEnd, At
<1>2. pr[p].bp = NoBuf /\ pr[p].nbp = NoBuf
  BY <1>1 DEF PlacesOK, InGetblk, InBiowait
<1>3. pr' = [pr EXCEPT ![p] = Idle] /\ cur' = NoProc
  BY DEF BlkflushEnd, Return
<1>4. c' \in CacheType /\ c' = c /\ \A b \in Bufs : Marked(c.buf[b], c'.buf[b])
  BY <1>1, ActorFacts
<1> QED
  BY <1>1, <1>2, <1>3, <1>4, ReturnStep

\* The flush of a last close makes the buffers that name a block stale.
LEMMA BflushedStep ==
    ASSUME BioInv, NEW p \in Procs, Bflushed(p)
    PROVE  BioInv'
<1>1. pr[p].pc = "bflush" /\ PlacesOK(pr[p]) /\ At(p, pr[p].pc) /\ UNCHANGED <<basyncnt, io, disk>>
  BY ActorFacts DEF Bflushed, At
<1>2. pr[p].bp = NoBuf /\ pr[p].nbp = NoBuf
  BY <1>1 DEF PlacesOK, InGetblk, InBiowait
<1>3. pr' = [pr EXCEPT ![p] = Idle] /\ cur' = NoProc
  BY DEF Bflushed, Return
<1>4. /\ c' \in CacheType /\ c'.free = c.free /\ c'.bufsize = c.bufsize /\ c'.wanted = c.wanted
      /\ \A b \in Bufs : Marked(c.buf[b], c'.buf[b])
  <2>1. CASE c' = c
    BY <2>1, ActorFacts
  <2>2. CASE c' # c
    <3> DEFINE stale(b) == IF c.buf[b].blkno = NoBlock THEN c.buf[b]
                           ELSE [c.buf[b] EXCEPT !.flags = c.buf[b].flags \cup {"STALE", "AGE"}]
    <3>1. c' = [c EXCEPT !.buf = [b \in Bufs |-> stale(b)]]
      BY <2>2 DEF Bflushed, binval
    <3>2. ASSUME NEW b \in Bufs PROVE stale(b) \in BufRecord /\ Marked(c.buf[b], stale(b))
      <4>1. PICK y \in BufRecord : y = c.buf[b]
        BY ActorFacts, CacheFields
      <4>2. y.flags \in SUBSET Flags /\ y.flags \cup {"STALE", "AGE"} \in SUBSET Flags
        BY DEF BufRecord, Flags
      <4>3. /\ [y EXCEPT !.flags = y.flags \cup {"STALE", "AGE"}] \in BufRecord
            /\ [y EXCEPT !.flags = y.flags \cup {"STALE", "AGE"}].flags = y.flags \cup {"STALE", "AGE"}
            /\ [y EXCEPT !.flags = y.flags \cup {"STALE", "AGE"}].bufsize = y.bufsize
            /\ [y EXCEPT !.flags = y.flags \cup {"STALE", "AGE"}].blkno = y.blkno
        BY <4>2, BufFields
      <4>4. y.blkno # NoBlock => y # NoBuffer
        BY DEF NoBuffer
      <4> QED
        BY <4>1, <4>3, <4>4 DEF Marked
    <3>3. [b \in Bufs |-> stale(b)] \in [Bufs -> BufRecord] /\ \A b \in Bufs : [a \in Bufs |-> stale(a)][b] = stale(b)
      BY <3>2
    <3> HIDE DEF stale
    <3> QED
      BY <3>1, <3>2, <3>3, ActorFacts DEF CacheType
  <2> QED
    BY <2>1, <2>2
<1> QED
  BY <1>1, <1>2, <1>3, <1>4, ReturnStep

-----------------------------------------------------------------------------
(***************************************************************************)
(* Going to sleep.                                                         *)
(***************************************************************************)
LEMMA AsleepRecord ==
    ASSUME NEW y \in ProcRecord, NEW next \in {"search", "iowait", "blkflush"}
    PROVE  [y EXCEPT !.pc = "asleep", !.then = next] \in ProcRecord
<1>1. PICK z \in ProcRecord : z = [y EXCEPT !.then = next]
  <2>1. [y EXCEPT !.then = next] \in ProcRecord
    <3>1. next \in {"user", "search", "getfree", "iowait", "bflush", "blkflush"}
      OBVIOUS
    <3> QED
      BY <3>1 DEF ProcRecord
  <2> QED
    BY <2>1
<1>2. [z EXCEPT !.pc = "asleep"] \in ProcRecord
  BY DEF ProcRecord
<1>3. [z EXCEPT !.pc = "asleep"] = [y EXCEPT !.pc = "asleep", !.then = next]
  BY <1>1 DEF ProcRecord
<1> QED
  BY <1>2, <1>3

LEMMA SleepRecord ==
    ASSUME BioInv, NEW p \in Procs, NEW chan \in Bufs \cup {NoBuf},
           NEW next \in {"search", "iowait", "blkflush"}, Sleep(p, chan, next)
    PROVE  \E r \in ProcRecord :
              /\ pr' = [pr EXCEPT ![p] = r] /\ cur' = NoProc
              /\ r.pc = "asleep" /\ r.chan = chan /\ r.then = next /\ r.b = NoBuf
              /\ r.bp = pr[p].bp /\ r.nbp = pr[p].nbp /\ r.call = pr[p].call
              /\ r.blk = pr[p].blk /\ r.ra = pr[p].ra
<1>1. PICK x \in ProcRecord : x = pr[p]
  BY ActorFacts
<1>2. PICK r \in ProcRecord : r = [x EXCEPT !.pc = "asleep", !.chan = chan, !.then = next, !.b = NoBuf]
  <2>1. PICK y \in ProcRecord : y = [x EXCEPT !.chan = chan, !.b = NoBuf]
    BY ZenonT(60) DEF ProcRecord
  <2>2. [y EXCEPT !.pc = "asleep", !.then = next] \in ProcRecord
    BY AsleepRecord
  <2>3. [y EXCEPT !.pc = "asleep", !.then = next] = [x EXCEPT !.pc = "asleep", !.chan = chan, !.then = next, !.b = NoBuf]
    BY <2>1 DEF ProcRecord
  <2> QED
    BY <2>2, <2>3
<1>3. /\ r.pc = "asleep" /\ r.chan = chan /\ r.then = next /\ r.b = NoBuf
      /\ r.bp = x.bp /\ r.nbp = x.nbp /\ r.call = x.call /\ r.blk = x.blk /\ r.ra = x.ra
  BY <1>2 DEF ProcRecord
<1>4. pr' = [pr EXCEPT ![p] = r] /\ cur' = NoProc
  BY <1>1, <1>2 DEF Sleep
<1> QED
  BY <1>1, <1>3, <1>4

\* Process p sleeps on a buffer that is busy.
LEMMA SleepOnBuffer ==
    ASSUME BioInv, NEW p \in Procs, At(p, pr[p].pc), NEW b \in Bufs,
           NEW next \in {"search", "iowait", "blkflush"},
           Is(b, "BUSY"), c.buf[b].blkno # NoBlock, Sleep(p, b, next),
           c' = [c EXCEPT !.buf[b].flags = @ \cup {"WANTED"}], UNCHANGED <<basyncnt, io, disk>>,
           \/ next = "search" /\ pr[p].pc = "check"
           \/ next = "iowait" /\ pr[p].pc = "iowait" /\ b = pr[p].bp /\ b \in ToSet(io)
           \/ next = "blkflush" /\ pr[p].pc = "blkcheck"
    PROVE  BioInv'
<1>1. PICK x \in ProcRecord : x = pr[p] /\ CallOK(x) /\ PlacesOK(x) /\ HeldOK(x)
  BY ActorFacts
<1>2. PICK r \in ProcRecord :
              /\ pr' = [pr EXCEPT ![p] = r] /\ cur' = NoProc
              /\ r.pc = "asleep" /\ r.chan = b /\ r.then = next /\ r.b = NoBuf
              /\ r.bp = pr[p].bp /\ r.nbp = pr[p].nbp /\ r.call = pr[p].call
              /\ r.blk = pr[p].blk /\ r.ra = pr[p].ra
  BY SleepRecord
<1>3. b # NoBuf
  BY BioAssumption
<1>4. CallOK(r) /\ PlacesOK(r) /\ HeldOK(r)
  BY <1>1, <1>2, <1>3 DEF CallOK, PlacesOK, HeldOK, InGetblk, InBiowait, InBlkflush, InBflush
<1>5. c \in CacheType /\ c.buf[b].flags \cup {"WANTED"} \in SUBSET Flags /\ c.buf \in [Bufs -> BufRecord]
  BY ActorFacts, CacheFields DEF Flags
<1>6. PICK F \in SUBSET Flags : F = c.buf[b].flags \cup {"WANTED"}
  BY <1>5
<1>7. c' = Flagged(c, b, F)
  BY <1>6 DEF Flagged
<1>8. /\ c' \in CacheType /\ c'.free = c.free /\ c'.bufsize = c.bufsize /\ c'.wanted = c.wanted
      /\ \A a \in Bufs \ {b} : c'.buf[a] = c.buf[a]
      /\ c'.buf[b].flags = F /\ c'.buf[b].blkno = c.buf[b].blkno /\ c'.buf[b].bufsize = c.buf[b].bufsize
  <2>1. PICK K : K = Flagged(c, b, F)
    OBVIOUS
  <2>2. /\ K \in CacheType /\ K.free = c.free /\ K.bufsize = c.bufsize /\ K.wanted = c.wanted
        /\ \A a \in Bufs \ {b} : K.buf[a] = c.buf[a]
        /\ K.buf[b].flags = F /\ K.buf[b].blkno = c.buf[b].blkno /\ K.buf[b].bufsize = c.buf[b].bufsize
    BY <1>5, <1>6, <2>1, FlaggedFacts
  <2> QED
    BY <1>7, <2>1, <2>2
<1>9. c.buf[b] # NoBuffer
  BY DEF NoBuffer
<1>10. \A a \in Bufs : Marked(c.buf[a], c'.buf[a])
  <2>1. Marked(c.buf[b], c'.buf[b])
    BY <1>5, <1>6, <1>8, <1>9 DEF Marked
  <2> QED
    BY <1>8, <2>1, ActorFacts
<1>11. WokenOK(pr[p])'
  <2>1. pr'[p] = r
    BY <1>2, ActorFacts
  <2>2. "BUSY" \in c'.buf[b].flags /\ "WANTED" \in c'.buf[b].flags /\ c'.buf[b].blkno # NoBlock
    BY <1>5, <1>6, <1>8 DEF Is
  <2> QED
    BY <1>2, <1>3, <2>1, <2>2 DEF WokenOK, Is
<1>12. r.call # "close" /\ pr[p].pc \notin {"got", "user", "asyncnt"} /\ r.pc \notin Sole
  BY <1>1, <1>2 DEF CallOK, InGetblk, InBiowait, InBlkflush, Sole
<1> QED
  BY <1>2, <1>4, <1>8, <1>10, <1>11, <1>12, RecordStep DEF At

\* Process p sleeps for memory, as no buffer is free.
LEMMA SleepForMemory ==
    ASSUME BioInv, NEW p \in Procs, At(p, "getfree") \/ At(p, "reclaim"), c.free = <<>>,
           Sleep(p, NoBuf, "search"), c' = [c EXCEPT !.wanted = TRUE], UNCHANGED <<basyncnt, io, disk>>
    PROVE  BioInv'
<1>1. PICK x \in ProcRecord : /\ x = pr[p] /\ CallOK(x) /\ PlacesOK(x) /\ HeldOK(x) /\ cur \in {p, NoProc}
                              /\ x.pc \in {"getfree", "reclaim"}
  BY ActorFacts DEF At
<1>2. PICK r \in ProcRecord :
              /\ pr' = [pr EXCEPT ![p] = r] /\ cur' = NoProc
              /\ r.pc = "asleep" /\ r.chan = NoBuf /\ r.then = "search" /\ r.b = NoBuf
              /\ r.bp = pr[p].bp /\ r.nbp = pr[p].nbp /\ r.call = pr[p].call
              /\ r.blk = pr[p].blk /\ r.ra = pr[p].ra
  BY SleepRecord
<1>3. x.nbp = NoBuf
  BY <1>1 DEF PlacesOK
<1>4. CallOK(r) /\ PlacesOK(r) /\ HeldOK(r)
  BY <1>1, <1>2, <1>3 DEF CallOK, PlacesOK, HeldOK, InGetblk, InBiowait, InBlkflush, InBflush
<1>5. /\ c' \in CacheType /\ c'.free = c.free /\ c'.bufsize = c.bufsize /\ c'.wanted = TRUE
      /\ \A b \in Bufs : Marked(c.buf[b], c'.buf[b])
  BY ActorFacts DEF CacheType
<1>6. WokenOK(pr[p])'
  <2>1. pr'[p] = r
    BY <1>2, ActorFacts
  <2> QED
    BY <1>2, <1>5, <2>1 DEF WokenOK
<1>7. r.call # "close" /\ pr[p].pc \notin {"got", "user", "asyncnt"} /\ r.pc \notin Sole
  BY <1>1, <1>2 DEF CallOK, InGetblk, Sole
<1> QED
  BY <1>1, <1>2, <1>4, <1>5, <1>6, <1>7, RecordStep

-----------------------------------------------------------------------------
(***************************************************************************)
(* Steps that change one buffer.                                           *)
(***************************************************************************)
(* The buffer b is all that changes, besides the record of p.              *)
OnlyBuffer(p, b) ==
    /\ c' \in CacheType /\ Once(c'.free) /\ io' \in Seq(Bufs) /\ Once(io')
    /\ \A a \in Bufs \ {b} : /\ c'.buf[a] = c.buf[a]
                             /\ (a \in ToSet(c'.free)) <=> (a \in ToSet(c.free))
                             /\ (a \in ToSet(io')) <=> (a \in ToSet(io))
                             /\ (a \in Owned(p)') <=> (a \in Owned(p))
    /\ basyncnt' = basyncnt /\ disk' = disk

LEMMA OnlyBufferFrame ==
    ASSUME BioInv, NEW p \in Procs, NEW b \in Bufs, OnlyBuffer(p, b), Touched(p, b),
           cur' \in {p, NoProc}, pr' \in [Procs -> ProcRecord]
    PROVE  BufFrame(p, {b})
<1>1. TypeOK'
  BY DEF BioInv, TypeOK, OnlyBuffer, CacheType
<1>2. \A a \in Bufs \ {b} : Untouched(a)
  BY ActorFacts DEF OnlyBuffer, Untouched
<1> QED
  BY <1>1, <1>2 DEF BufFrame, OnlyBuffer

\* Nobody is woken: who sleeps on the buffer goes on sleeping.
LEMMA TouchStep ==
    ASSUME BioInv, NEW p \in Procs, cur \in {p, NoProc}, NEW b \in Bufs, NEW r \in ProcRecord,
           pr' = [pr EXCEPT ![p] = r], OnlyBuffer(p, b), Touched(p, b),
           c'.wanted = c.wanted, c.free = <<>> => c'.free = <<>>,
           Is(b, "BUSY") /\ Is(b, "WANTED") /\ c.buf[b].blkno # NoBlock =>
              /\ "BUSY" \in c'.buf[b].flags /\ "WANTED" \in c'.buf[b].flags
              /\ c'.buf[b].blkno # NoBlock,
           ProcFrame(p), CountFrame(p, {b}), MemoryAccounted',
           KeepsBlock(b) \/ Cached(c'.buf[b].blkno) = {}
    PROVE  BioInv'
<1>1. pr \in [Procs -> ProcRecord] /\ ProcInv
  BY ActorFacts DEF BioInv
<1>2. pr' \in [Procs -> ProcRecord] /\ \A q \in Procs \ {p} : pr'[q] = pr[q]
  BY <1>1
<1>3. cur' \in {p, NoProc}
  BY DEF ProcFrame
<1>4. BufFrame(p, {b})
  BY <1>2, <1>3, OnlyBufferFrame
<1>5. ASSUME NEW q \in Procs, pr[q].pc = "asleep" PROVE StillAsleep(q, {b})
  <2>1. WokenOK(pr[q])
    BY <1>1 DEF ProcInv
  <2>2. b # NoBuf
    BY BioAssumption
  <2> QED
    BY <1>5, <2>1, <2>2 DEF StillAsleep, WokenOK, Is
<1>6. OtherFrame(p, {b})
  BY <1>2, <1>5 DEF OtherFrame, Woke, StillAsleep
<1>7. \A a \in {b} : KeepsBlock(a) \/ (a = b /\ Cached(c'.buf[a].blkno) = {})
  OBVIOUS
<1> QED
  BY <1>4, <1>6, <1>7, BioStep

\* The buffer is given up, and who waits for it or for any is woken.
LEMMA GiveUpStep ==
    ASSUME BioInv, NEW p \in Procs, cur \in {p, NoProc}, NEW b \in Bufs, NEW r \in ProcRecord,
           NEW K \in CacheType, K.free = c.free, K.bufsize = c.bufsize,
           \A a \in Bufs \ {b} : K.buf[a] = c.buf[a],
           K.buf[b].bufsize = c.buf[b].bufsize, K.buf[b].blkno = c.buf[b].blkno,
           Is(b, "STALE") => "STALE" \in K.buf[b].flags,
           c' = brelse(K, b), pr' = wakeprocs([pr EXCEPT ![p] = r], Released(b)),
           UNCHANGED <<basyncnt, io, disk>>,
           b \in Owned(p), b \notin ToSet(io),
           "DELWRI" \in K.buf[b].flags => /\ c.buf[b].blkno # NoBlock
                                          /\ "DONE" \in K.buf[b].flags /\ K.buf[b].data # NoVal,
           r.bp \in {pr[p].bp, NoBuf}, r.nbp = pr[p].nbp, r.bp # b, r.nbp # b,
           pr[p].bp \in {r.bp, b, NoBuf}, pr[p].pc = "got" => pr[p].b = b,
           r.pc \notin {"got", "asleep", "asyncnt"},
           pr[p].pc \notin {"user", "asyncnt"}, pr[p].call # "close", r.call # "close",
           CallOK(r), PlacesOK(r), cur' \in {p, NoProc}, r.pc \in Sole => cur' = p,
           r.bp # NoBuf => pr[p].pc # "hold" /\ r.pc # "hold", r.pc \notin {"check", "blkcheck"}
    PROVE  BioInv'
<1>1. /\ pr \in [Procs -> ProcRecord] /\ ProcInv /\ c \in CacheType /\ MemoryAccounted /\ TypeOK
      /\ HeldOK(pr[p]) /\ io \in Seq(Bufs) /\ b # NoBuf /\ Once(c.free) /\ Once(io)
  BY ActorFacts, BioAssumption DEF BioInv, ProcInv, BufsOK
<1> DEFINE f == [pr EXCEPT ![p] = r]
<1>2. f \in [Procs -> ProcRecord] /\ f[p] = r /\ \A q \in Procs \ {p} : f[q] = pr[q]
  BY <1>1
<1> HIDE DEF f
<1>3. /\ pr' \in [Procs -> ProcRecord] /\ pr'[p] = r
      /\ \A q \in Procs \ {p} : /\ Woke(pr[q], pr'[q])
                                /\ pr'[q].pc = "asleep" => pr[q].chan \notin Released(b)
  <2>1. pr' = wakeprocs(f, Released(b))
    BY DEF f
  <2>2. /\ wakeprocs(f, Released(b)) \in [Procs -> ProcRecord]
        /\ \A q \in Procs : /\ Woke(f[q], wakeprocs(f, Released(b))[q])
                            /\ f[q].pc # "asleep" => wakeprocs(f, Released(b))[q] = f[q]
                            /\ wakeprocs(f, Released(b))[q].pc = "asleep" => f[q].chan \notin Released(b)
    BY <1>2, WakeFacts
  <2> QED
    BY <1>2, <2>1, <2>2
<1>4. PointOK(c.buf[b], b \in ToSet(c.free), b \in ToSet(io), HasOwner(b)) /\ HasOwner(b)
  BY <1>1 DEF ProcInv, BufsOK, HasOwner
<1>5. b \notin ToSet(K.free) /\ Once(K.free)
  BY <1>1, <1>4 DEF PointOK
<1>6. /\ c' \in CacheType /\ c'.buf = [K.buf EXCEPT ![b] = GivenUp(K.buf[b])]
      /\ c'.bufsize = K.bufsize /\ c'.wanted = FALSE
      /\ Once(c'.free) /\ ToSet(c'.free) = ToSet(K.free) \cup {b} /\ c'.free # <<>>
  BY <1>5, BrelseFacts
<1>7. K.buf \in [Bufs -> BufRecord] /\ K.buf[b] \in BufRecord /\ c.buf[b] \in BufRecord
  BY <1>1, CacheFields
<1>8. /\ c'.buf[b] = GivenUp(K.buf[b]) /\ \A a \in Bufs \ {b} : c'.buf[a] = c.buf[a]
  BY <1>6, <1>7
<1>9. /\ c'.buf[b].blkno = c.buf[b].blkno /\ c'.buf[b].bufsize = c.buf[b].bufsize
      /\ "BUSY" \notin c'.buf[b].flags /\ "ASYNC" \notin c'.buf[b].flags
      /\ "DELWRI" \in c'.buf[b].flags => /\ c.buf[b].blkno # NoBlock
                                          /\ "DONE" \in c'.buf[b].flags /\ c'.buf[b].data # NoVal
      /\ Is(b, "STALE") => "STALE" \in c'.buf[b].flags
  BY <1>7, <1>8, GivenUpFacts
<1>10. Owned(p)' = Owned(p) \ {b}
  <2>1. Owned(p)' = {r.bp, r.nbp} \ {NoBuf}
    BY <1>3 DEF Owned
  <2>2. Owned(p) \ {b} = {r.bp, r.nbp} \ {NoBuf}
    BY <1>1 DEF Owned
  <2> QED
    BY <2>1, <2>2
<1>11. Touched(p, b)
  <2>1. \A q \in Procs \ {p} : b \notin Owned(q)
    BY <1>1 DEF ProcInv, BufsOK
  <2>2. b \in ToSet(c'.free) /\ b \notin ToSet(io') /\ b \notin Owned(p)'
    BY <1>6, <1>10
  <2>3. c'.buf[b].bufsize # 0
    BY <1>4, <1>9 DEF PointOK
  <2> QED
    BY <1>9, <2>1, <2>2, <2>3 DEF Touched, PointOK
<1>12. OnlyBuffer(p, b)
  BY <1>1, <1>6, <1>8, <1>10 DEF OnlyBuffer
<1>13. BufFrame(p, {b})
  BY <1>3, <1>11, <1>12, OnlyBufferFrame
<1>14. OtherFrame(p, {b})
  <2>1. ASSUME NEW q \in Procs \ {p}, pr'[q].pc = "asleep", pr[q].pc = "asleep" PROVE StillAsleep(q, {b})
    <3>1. WokenOK(pr[q]) /\ pr[q].chan \notin Released(b)
      BY <1>1, <1>3, <2>1 DEF ProcInv
    <3>2. pr[q].chan # b /\ pr[q].chan # NoBuf
      BY <1>1, <2>1, <3>1 DEF WokenOK, Released
    <3> QED
      BY <3>2 DEF StillAsleep
  <2> QED
    BY <1>3, <2>1 DEF OtherFrame, StillAsleep
<1>15. ProcFrame(p)
  <2>1. r.bp # NoBuf => /\ "BUSY" \in c'.buf[r.bp].flags /\ c'.buf[r.bp].blkno # NoBlock
                        /\ r.bp \in ToSet(io') \/ "DONE" \in c'.buf[r.bp].flags
    <3> SUFFICES ASSUME r.bp # NoBuf
                 PROVE  /\ "BUSY" \in c'.buf[r.bp].flags /\ c'.buf[r.bp].blkno # NoBlock
                        /\ r.bp \in ToSet(io') \/ "DONE" \in c'.buf[r.bp].flags
      OBVIOUS
    <3>1. r.bp = pr[p].bp /\ r.bp \in Bufs \ {b}
      BY DEF ProcRecord
    <3>2. c'.buf[r.bp] = c.buf[r.bp]
      BY <1>8, <3>1
    <3>3. Is(r.bp, "BUSY") /\ c.buf[r.bp].blkno # NoBlock /\ (r.bp \in ToSet(io) \/ Is(r.bp, "DONE"))
      BY <1>1, <3>1 DEF HeldOK
    <3> QED
      BY <3>2, <3>3 DEF Is
  <2>2. r.nbp # NoBuf => c'.buf[r.nbp].blkno = NoBlock
    <3> SUFFICES ASSUME r.nbp # NoBuf PROVE c'.buf[r.nbp].blkno = NoBlock
      OBVIOUS
    <3>1. r.nbp \in Bufs \ {b} /\ c.buf[r.nbp].blkno = NoBlock
      BY <1>1 DEF ProcRecord, HeldOK
    <3> QED
      BY <1>8, <3>1
  <2>3. HeldOK(pr[p])'
    BY <1>3, <2>1, <2>2 DEF HeldOK, Is
  <2>4. WokenOK(pr[p])'
    BY <1>3 DEF WokenOK
  <2>5. CallOK(pr[p])' /\ PlacesOK(pr[p])'
    BY <1>3
  <2> QED
    BY <1>3, <2>3, <2>4, <2>5 DEF ProcFrame
<1>16. CountFrame(p, {b})
  BY <1>3 DEF CountFrame, AsyncSame, AsyncWrite
<1>17. KeepsBlock(b)
  BY <1>9 DEF KeepsBlock, Is
<1>18. MemoryAccounted'
  <2>1. \A x \in Bufs : c'.buf[x].bufsize = c.buf[x].bufsize
    BY <1>8, <1>9
  <2> QED
    BY <1>1, <1>6, <2>1, MemoryKept
<1> QED
  <2>1. PICK X \in SUBSET Bufs : X = {b}
    OBVIOUS
  <2>2. PICK n : n = b
    OBVIOUS
  <2>3. BufFrame(p, X) /\ ProcFrame(p) /\ OtherFrame(p, X) /\ CountFrame(p, X) /\ MemoryAccounted'
    BY <1>13, <1>14, <1>15, <1>16, <1>18, <2>1
  <2>4. \A a \in X : KeepsBlock(a) \/ (a = n /\ Cached(c'.buf[a].blkno) = {})
    BY <1>17, <2>1
  <2> QED
    BY <2>3, <2>4, BioStep

\* New contents and flags.
Changed(K, b, v, F) == [K EXCEPT !.buf[b].data = v, !.buf[b].flags = F]

LEMMA ChangedFacts ==
    ASSUME NEW K \in CacheType, NEW b \in Bufs, NEW F \in SUBSET Flags, NEW v \in Vals \cup {NoVal}
    PROVE  /\ Changed(K, b, v, F) \in CacheType
           /\ Changed(K, b, v, F).free = K.free /\ Changed(K, b, v, F).bufsize = K.bufsize
           /\ Changed(K, b, v, F).wanted = K.wanted
           /\ \A a \in Bufs \ {b} : Changed(K, b, v, F).buf[a] = K.buf[a]
           /\ Changed(K, b, v, F).buf[b].flags = F /\ Changed(K, b, v, F).buf[b].blkno = K.buf[b].blkno
           /\ Changed(K, b, v, F).buf[b].bufsize = K.buf[b].bufsize /\ Changed(K, b, v, F).buf[b].data = v
<1>1. PICK x \in BufRecord : x = K.buf[b]
  BY CacheFields
<1>2. /\ [x EXCEPT !.data = v, !.flags = F] \in BufRecord
      /\ [x EXCEPT !.data = v, !.flags = F].flags = F
      /\ [x EXCEPT !.data = v, !.flags = F].blkno = x.blkno
      /\ [x EXCEPT !.data = v, !.flags = F].bufsize = x.bufsize
      /\ [x EXCEPT !.data = v, !.flags = F].data = v
  BY DEF BufRecord
<1>3. PICK y \in BufRecord : y = [x EXCEPT !.data = v, !.flags = F]
  BY <1>2
<1>4. [K EXCEPT !.buf[b].data = v, !.buf[b].flags = F] = [K EXCEPT !.buf = [K.buf EXCEPT ![b] = y]]
  BY <1>1, <1>3, CacheFields
<1>5. [K.buf EXCEPT ![b] = y] \in [Bufs -> BufRecord]
  BY CacheFields
<1>6. [K EXCEPT !.buf = [K.buf EXCEPT ![b] = y]] \in CacheType
  BY <1>5 DEF CacheType
<1>7. Changed(K, b, v, F) = [K EXCEPT !.buf = [K.buf EXCEPT ![b] = y]]
  BY <1>4 DEF Changed
<1>8. PICK L \in CacheType : L = [K EXCEPT !.buf = [K.buf EXCEPT ![b] = y]]
  BY <1>6
<1>9. L.buf = [K.buf EXCEPT ![b] = y] /\ L.free = K.free /\ L.bufsize = K.bufsize /\ L.wanted = K.wanted
  BY <1>8 DEF CacheType
<1>10. (\A a \in Bufs \ {b} : L.buf[a] = K.buf[a]) /\ L.buf[b] = y
  BY <1>9, CacheFields
<1>11. y.flags = F /\ y.blkno = K.buf[b].blkno /\ y.bufsize = K.buf[b].bufsize /\ y.data = v
  BY <1>1, <1>2, <1>3
<1> QED
  BY <1>7, <1>8, <1>9, <1>10, <1>11

LEMMA HoldFacts ==
    ASSUME BioInv, NEW p \in Procs, At(p, "hold")
    PROVE  /\ cur \in {p, NoProc} /\ pr[p].bp \in Bufs /\ pr[p].nbp = NoBuf
           /\ Owned(p) = {pr[p].bp} /\ pr[p].bp \notin ToSet(io) /\ Is(pr[p].bp, "BUSY")
           /\ c.buf[pr[p].bp].blkno # NoBlock /\ pr[p].call # "close"
<1>1. PICK x \in ProcRecord : /\ x = pr[p] /\ CallOK(x) /\ PlacesOK(x) /\ HeldOK(x) /\ cur \in {p, NoProc}
                              /\ x.pc = "hold"
  BY ActorFacts DEF At
<1>2. x.bp \in Bufs /\ x.bp # NoBuf /\ x.nbp = NoBuf /\ x.call # "close"
  BY <1>1 DEF CallOK, PlacesOK, ProcRecord
<1>3. Owned(p) = {x.bp}
  BY <1>1, <1>2 DEF Owned
<1> QED
  BY <1>1, <1>2, <1>3 DEF HeldOK

\* p returns to its caller, and its buffer is given up.
LEMMA GiveBack ==
    ASSUME BioInv, NEW p \in Procs, cur \in {p, NoProc}, NEW b \in Bufs, b = pr[p].bp, pr[p].nbp = NoBuf,
           NEW K \in CacheType, K.free = c.free, K.bufsize = c.bufsize,
           \A a \in Bufs \ {b} : K.buf[a] = c.buf[a],
           K.buf[b].bufsize = c.buf[b].bufsize, K.buf[b].blkno = c.buf[b].blkno,
           Is(b, "STALE") => "STALE" \in K.buf[b].flags, c.buf[b].blkno # NoBlock,
           "DELWRI" \in K.buf[b].flags => "DONE" \in K.buf[b].flags /\ K.buf[b].data # NoVal,
           c' = brelse(K, b), pr' = wakeprocs(Return(p), Released(b)), cur' = NoProc,
           UNCHANGED <<basyncnt, io, disk>>,
           Owned(p) = {b}, b \notin ToSet(io),
           pr[p].pc \notin {"user", "asyncnt", "got"}, pr[p].call # "close"
    PROVE  BioInv'
<1>1. PICK r \in ProcRecord : r = Idle
  BY DEF Idle, ProcRecord
<1>2. /\ r.bp = NoBuf /\ r.nbp = NoBuf /\ r.pc = "user" /\ r.call = "none"
  BY <1>1 DEF Idle
<1>3. CallOK(r) /\ PlacesOK(r) /\ r.pc \notin Sole
  BY <1>1, <1>2 DEF CallOK, PlacesOK, InGetblk, InBiowait, InBlkflush, InBflush, Sole
<1>4. pr' = wakeprocs([pr EXCEPT ![p] = r], Released(b))
  BY <1>1 DEF Return
<1>5. b # NoBuf
  BY BioAssumption
<1> QED
  BY <1>2, <1>3, <1>4, <1>5, GiveUpStep

LEMMA BrelseStep ==
    ASSUME BioInv, NEW p \in Procs, Brelse(p)
    PROVE  BioInv'
<1>1. PICK b \in Bufs : b = pr[p].bp
  BY HoldFacts DEF Brelse
<1>2. /\ cur \in {p, NoProc} /\ pr[p].nbp = NoBuf /\ Owned(p) = {b} /\ b \notin ToSet(io)
      /\ c.buf[b].blkno # NoBlock /\ pr[p].call # "close"
  BY <1>1, HoldFacts DEF Brelse
<1>3. pr[p].pc \notin {"user", "asyncnt", "got"}
  BY DEF Brelse, At
<1>4. /\ c' = brelse(c, b) /\ pr' = wakeprocs(Return(p), Released(b)) /\ cur' = NoProc
      /\ UNCHANGED <<basyncnt, io, disk>>
  BY <1>1 DEF Brelse
<1>5. c \in CacheType /\ (Is(b, "STALE") => "STALE" \in c.buf[b].flags)
  BY ActorFacts DEF Is
<1> QED
  BY <1>1, <1>2, <1>3, <1>4, <1>5, DelayedFacts, GiveBack

LEMMA BdwriteStep ==
    ASSUME BioInv, NEW p \in Procs, Bdwrite(p)
    PROVE  BioInv'
<1>1. pr[p].pc \notin {"user", "asyncnt", "got"}
  BY DEF Bdwrite, At
<1>2. PICK b \in Bufs : b = pr[p].bp
  BY HoldFacts DEF Bdwrite
<1>3. /\ cur \in {p, NoProc} /\ pr[p].nbp = NoBuf /\ Owned(p) = {b} /\ b \notin ToSet(io)
      /\ c.buf[b].blkno # NoBlock /\ pr[p].call # "close"
  BY <1>2, HoldFacts DEF Bdwrite
<1>4. PICK v \in Vals : c' = brelse([c EXCEPT !.buf[b].data = v, !.buf[b].flags = @ \cup {"DELWRI", "DONE"}], b)
  BY <1>2 DEF Bdwrite
<1>5. pr' = wakeprocs(Return(p), Released(b)) /\ cur' = NoProc /\ UNCHANGED <<basyncnt, io, disk>>
  BY <1>2 DEF Bdwrite
<1>6. c \in CacheType /\ c.buf[b].flags \cup {"DELWRI", "DONE"} \in SUBSET Flags /\ c.buf \in [Bufs -> BufRecord]
  BY ActorFacts, CacheFields DEF Flags
<1>7. PICK F \in SUBSET Flags : F = c.buf[b].flags \cup {"DELWRI", "DONE"}
  BY <1>6
<1>8. PICK K : K = Changed(c, b, v, F)
  OBVIOUS
<1>9. /\ K \in CacheType /\ K.free = c.free /\ K.bufsize = c.bufsize
      /\ \A a \in Bufs \ {b} : K.buf[a] = c.buf[a]
      /\ K.buf[b].bufsize = c.buf[b].bufsize /\ K.buf[b].blkno = c.buf[b].blkno
      /\ Is(b, "STALE") => "STALE" \in K.buf[b].flags
      /\ "DONE" \in K.buf[b].flags /\ K.buf[b].data # NoVal
  <2>1. v \in Vals \cup {NoVal} /\ v # NoVal
    BY BioAssumption
  <2>2. /\ K \in CacheType /\ K.free = c.free /\ K.bufsize = c.bufsize
        /\ \A a \in Bufs \ {b} : K.buf[a] = c.buf[a]
        /\ K.buf[b].bufsize = c.buf[b].bufsize /\ K.buf[b].blkno = c.buf[b].blkno
        /\ K.buf[b].flags = F /\ K.buf[b].data = v
    BY <1>6, <1>8, <2>1, ChangedFacts
  <2> QED
    BY <1>7, <2>1, <2>2 DEF Is
<1>10. c' = brelse(K, b)
  BY <1>4, <1>7, <1>8 DEF Changed
<1> QED
  BY <1>1, <1>2, <1>3, <1>5, <1>8, <1>9, <1>10, GiveBack

LEMMA BiowaitStep ==
    ASSUME BioInv, NEW p \in Procs, Biowait(p)
    PROVE  BioInv'
<1>1. PICK x \in ProcRecord : /\ x = pr[p] /\ x.pc = "iowait" /\ CallOK(x) /\ PlacesOK(x) /\ HeldOK(x)
                              /\ cur \in {p, NoProc}
  BY ActorFacts DEF Biowait, At
<1>2. PICK b \in Bufs : b = x.bp
  BY <1>1 DEF CallOK, InBiowait, ProcRecord
<1>3. /\ b # NoBuf /\ x.nbp = NoBuf /\ x.call \in {"bread", "write", "blkflush"}
      /\ x.call = "blkflush" => x.blk # NoBlock
  BY <1>1, <1>2, BioAssumption DEF PlacesOK, CallOK, InBiowait
<1>4. Is(b, "BUSY") /\ c.buf[b].blkno # NoBlock /\ (b \in ToSet(io) \/ Is(b, "DONE"))
  BY <1>1, <1>2, <1>3 DEF HeldOK
<1>5. Is(b, "DONE") => b \notin ToSet(io)
  BY DEF BioInv, ProcInv, BufsOK, PointOK, Is
<1>6. Owned(p) = {b}
  BY <1>1, <1>2, <1>3 DEF Owned
<1>7. At(p, pr[p].pc) /\ UNCHANGED <<basyncnt, io, disk>>
  BY <1>1 DEF Biowait
<1>8. c \in CacheType /\ (Is(b, "STALE") => "STALE" \in c.buf[b].flags)
  BY ActorFacts DEF Is
<1>9. CASE ~Is(b, "DONE")
  <2>1. c' = [c EXCEPT !.buf[b].flags = @ \cup {"WANTED"}] /\ Sleep(p, b, "iowait")
    BY <1>1, <1>2, <1>9 DEF Biowait
  <2> QED
    BY <1>1, <1>2, <1>4, <1>7, <1>9, <2>1, SleepOnBuffer
<1>10. CASE Is(b, "DONE") /\ x.call = "bread"
  <2>1. PICK r \in ProcRecord : r = [x EXCEPT !.pc = "hold"]
    <3>1. [x EXCEPT !.pc = "hold"] \in ProcRecord
      BY DEF ProcRecord
    <3> QED
      BY <3>1
  <2>2. /\ r.pc = "hold" /\ r.bp = x.bp /\ r.nbp = x.nbp /\ r.b = x.b /\ r.call = x.call
    BY <2>1 DEF ProcRecord
  <2>3. pr' = [pr EXCEPT ![p] = r] /\ cur' = p /\ c' = c
    BY <1>1, <1>2, <1>10, <2>1 DEF Biowait, Goto
  <2>4. CallOK(r) /\ PlacesOK(r) /\ HeldOK(r)
    BY <1>1, <1>2, <1>3, <1>4, <1>5, <1>10, <2>2
       DEF CallOK, PlacesOK, HeldOK, InGetblk, InBiowait, InBlkflush, InBflush
  <2> QED
    BY <1>1, <1>7, <1>10, <2>2, <2>3, <2>4, GotoStep
<1>11. CASE Is(b, "DONE") /\ x.call = "write"
  <2>1. c' = brelse(c, b) /\ pr' = wakeprocs(Return(p), Released(b)) /\ cur' = NoProc
    BY <1>1, <1>2, <1>11 DEF Biowait
  <2> QED
    BY <1>1, <1>2, <1>3, <1>4, <1>5, <1>6, <1>7, <1>8, <1>11, <2>1, DelayedFacts, GiveBack
<1>12. CASE Is(b, "DONE") /\ x.call = "blkflush"
  <2>1. PICK r \in ProcRecord : r = [x EXCEPT !.pc = "blkflush", !.bp = NoBuf]
    <3>1. [x EXCEPT !.pc = "blkflush", !.bp = NoBuf] \in ProcRecord
      BY DEF ProcRecord
    <3> QED
      BY <3>1
  <2>2. /\ r.pc = "blkflush" /\ r.bp = NoBuf /\ r.nbp = x.nbp /\ r.b = x.b /\ r.call = x.call /\ r.blk = x.blk
    BY <2>1 DEF ProcRecord
  <2>3. /\ c' = brelse(c, b) /\ cur' = p
        /\ pr' = wakeprocs([pr EXCEPT ![p].pc = "blkflush", ![p].bp = NoBuf], Released(b))
    BY <1>1, <1>2, <1>12 DEF Biowait
  <2>4. [pr EXCEPT ![p].pc = "blkflush", ![p].bp = NoBuf] = [pr EXCEPT ![p] = r]
    BY <1>1, <2>1, ActorFacts
  <2>5. pr' = wakeprocs([pr EXCEPT ![p] = r], Released(b))
    BY <2>3, <2>4
  <2>6. CallOK(r) /\ PlacesOK(r) /\ r.pc \notin Sole
    BY <1>1, <1>3, <1>12, <2>2 DEF CallOK, PlacesOK, InGetblk, InBiowait, InBlkflush, InBflush, Sole
  <2> QED
    BY <1>1, <1>2, <1>3, <1>4, <1>5, <1>6, <1>7, <1>8, <1>12, <2>2, <2>3, <2>5, <2>6, DelayedFacts, GiveUpStep
<1> QED
  BY <1>3, <1>9, <1>10, <1>11, <1>12

LEMMA GotFacts ==
    ASSUME BioInv, NEW p \in Procs, At(p, "got")
    PROVE  /\ cur \in {p, NoProc} /\ pr[p].b \in Bufs /\ pr[p].nbp = NoBuf
           /\ Owned(p) = {pr[p].b, pr[p].bp} \ {NoBuf} /\ pr[p].b # pr[p].bp /\ pr[p].b # NoBuf
           /\ pr[p].b \notin ToSet(io) /\ Is(pr[p].b, "BUSY") /\ ~Is(pr[p].b, "ASYNC")
           /\ c.buf[pr[p].b].blkno = pr[p].blk /\ pr[p].blk # NoBlock
           /\ pr[p].call \in {"bread", "breada", "getblk", "ra"}
           /\ pr[p].call \in {"breada", "ra"} => pr[p].ra # NoBlock
           /\ pr[p].call # "ra" => pr[p].bp = NoBuf
           /\ PointOK(c.buf[pr[p].b], FALSE, FALSE, TRUE)
           /\ \A q \in Procs \ {p} : pr[p].b \notin Owned(q)
<1>1. PICK x \in ProcRecord : /\ x = pr[p] /\ CallOK(x) /\ PlacesOK(x) /\ HeldOK(x) /\ cur \in {p, NoProc}
                              /\ x.pc = "got"
  BY ActorFacts DEF At
<1>2. x.b # NoBuf /\ x.b \in Bufs
  BY <1>1 DEF CallOK, ProcRecord
<1>3. /\ x.nbp = NoBuf /\ x.call \in {"bread", "breada", "getblk", "ra"} /\ x.blk # NoBlock
      /\ x.call \in {"breada", "ra"} => x.ra # NoBlock
      /\ x.call # "ra" => x.bp = NoBuf
  BY <1>1 DEF CallOK, PlacesOK, InGetblk, InBiowait
<1>4. /\ Is(x.b, "BUSY") /\ c.buf[x.b].blkno = x.blk /\ x.b \notin ToSet(io) /\ x.b # x.bp
  BY <1>1 DEF HeldOK
<1>5. Owned(p) = {x.b, x.bp} \ {NoBuf}
  BY <1>1, <1>3 DEF Owned
<1>6. HasOwner(x.b) /\ PointOK(c.buf[x.b], x.b \in ToSet(c.free), x.b \in ToSet(io), HasOwner(x.b))
  BY <1>2, <1>5 DEF HasOwner, BioInv, ProcInv, BufsOK
<1>7. PointOK(c.buf[x.b], FALSE, FALSE, TRUE) /\ ~Is(x.b, "ASYNC")
  BY <1>4, <1>6 DEF PointOK, Is
<1>8. \A q \in Procs \ {p} : x.b \notin Owned(q)
  BY <1>2, <1>5 DEF BioInv, ProcInv, BufsOK
<1> QED
  BY <1>1, <1>2, <1>3, <1>4, <1>5, <1>7, <1>8

GotNext(p, pc) == [pr EXCEPT ![p].pc = pc, ![p].bp = IF pr[p].call = "ra" THEN @ ELSE pr[p].b,
                             ![p].b = NoBuf]

LEMMA PlacesSet ==
    ASSUME NEW x \in ProcRecord, NEW m \in Bufs \cup {NoBuf}, NEW n \in Bufs \cup {NoBuf}
    PROVE  [x EXCEPT !.bp = m, !.b = NoBuf] \in ProcRecord /\ [x EXCEPT !.b = m, !.nbp = n] \in ProcRecord
<1>1. [x EXCEPT !.bp = m, !.b = NoBuf] \in ProcRecord
  BY DEF ProcRecord
<1>2. [x EXCEPT !.b = m, !.nbp = n] \in ProcRecord
  BY DEF ProcRecord
<1> QED
  BY <1>1, <1>2

LEMMA GotRecord ==
    ASSUME BioInv, NEW p \in Procs, At(p, "got"), NEW pc \in {"hold", "iowait", "ra", "raend"}
    PROVE  \E r \in ProcRecord :
              /\ GotNext(p, pc) = [pr EXCEPT ![p] = r]
              /\ r.pc = pc /\ r.b = NoBuf /\ r.nbp = NoBuf
              /\ r.bp = IF pr[p].call = "ra" THEN pr[p].bp ELSE pr[p].b
              /\ r.call = pr[p].call /\ r.blk = pr[p].blk /\ r.ra = pr[p].ra
<1>1. PICK x \in ProcRecord : x = pr[p] /\ x.nbp = NoBuf /\ pr \in [Procs -> ProcRecord]
  BY GotFacts, ActorFacts
<1>2. PICK m \in Bufs \cup {NoBuf} : m = IF x.call = "ra" THEN x.bp ELSE x.b
  BY DEF ProcRecord
<1>3. PICK y \in ProcRecord : y = [x EXCEPT !.pc = pc]
  <2>1. [x EXCEPT !.pc = pc] \in ProcRecord
    BY DEF ProcRecord
  <2> QED
    BY <2>1
<1>4. PICK r \in ProcRecord : r = [y EXCEPT !.bp = m, !.b = NoBuf]
  <2>1. [y EXCEPT !.bp = m, !.b = NoBuf] \in ProcRecord
    BY PlacesSet
  <2> QED
    BY <2>1
<1>5. /\ r.pc = pc /\ r.b = NoBuf /\ r.nbp = NoBuf /\ r.bp = m
      /\ r.call = x.call /\ r.blk = x.blk /\ r.ra = x.ra
  BY <1>1, <1>3, <1>4 DEF ProcRecord
<1>6. r = [x EXCEPT !.pc = pc, !.bp = m, !.b = NoBuf]
  BY <1>3, <1>4
<1>7. GotNext(p, pc) = [pr EXCEPT ![p] = r]
  BY <1>1, <1>2, <1>6 DEF GotNext
<1> QED
  BY <1>1, <1>2, <1>5, <1>7

\* The buffer is kept, and a read is started or not.
LEMMA GotKept ==
    ASSUME BioInv, NEW p \in Procs, At(p, "got"), NEW b \in Bufs, b = pr[p].b,
           NEW pc \in {"hold", "iowait", "ra", "raend"}, pr' = GotNext(p, pc), cur' = p,
           UNCHANGED <<basyncnt, disk>>,
           \/ /\ \/ pr[p].call \in {"getblk", "bread"} /\ pc = "hold"
                 \/ pr[p].call = "breada" /\ pc = "ra" /\ Is(b, "DONE")
              /\ UNCHANGED <<c, io>>
           \/ /\ \/ pr[p].call = "bread" /\ pc = "iowait"
                 \/ pr[p].call = "breada" /\ pc = "ra"
                 \/ pr[p].call = "ra" /\ pc = "raend"
              /\ ~Is(b, "DONE")
              /\ c' = [c EXCEPT !.buf[b].flags = @ \cup {"READ"} \cup
                                   (IF pr[p].call = "ra" THEN {"ASYNC"} ELSE {})]
              /\ io' = Append(io, b)
    PROVE  BioInv'
<1>1. /\ cur \in {p, NoProc} /\ pr[p].nbp = NoBuf /\ pr[p].pc = "got"
      /\ Owned(p) = {b, pr[p].bp} \ {NoBuf} /\ b # pr[p].bp /\ b # NoBuf
      /\ b \notin ToSet(io) /\ Is(b, "BUSY") /\ ~Is(b, "ASYNC") /\ c.buf[b].blkno # NoBlock
      /\ pr[p].call \in {"bread", "breada", "getblk", "ra"} /\ pr[p].blk # NoBlock
      /\ pr[p].call \in {"breada", "ra"} => pr[p].ra # NoBlock
      /\ pr[p].call # "ra" => pr[p].bp = NoBuf
      /\ PointOK(c.buf[b], FALSE, FALSE, TRUE)
      /\ \A q \in Procs \ {p} : b \notin Owned(q)
  BY GotFacts DEF At
<1>2. /\ c \in CacheType /\ io \in Seq(Bufs) /\ Once(c.free) /\ Once(io) /\ HeldOK(pr[p])
      /\ c.buf \in [Bufs -> BufRecord] /\ b \notin ToSet(c.free) /\ pr \in [Procs -> ProcRecord]
      /\ TypeOK /\ MemoryAccounted
  <2>1. c \in CacheType
    BY ActorFacts
  <2>2. HasOwner(b)
    BY <1>1 DEF HasOwner
  <2>3. b \notin ToSet(c.free)
    BY <2>2 DEF BioInv, ProcInv, BufsOK, PointOK
  <2> QED
    BY <2>1, <2>3, ActorFacts, CacheFields DEF BioInv, ProcInv, BufsOK
<1>3. PICK r \in ProcRecord :
              /\ pr' = [pr EXCEPT ![p] = r]
              /\ r.pc = pc /\ r.b = NoBuf /\ r.nbp = NoBuf
              /\ r.bp = IF pr[p].call = "ra" THEN pr[p].bp ELSE b
              /\ r.call = pr[p].call /\ r.blk = pr[p].blk /\ r.ra = pr[p].ra
  BY <1>1, GotRecord
<1>4. /\ c' \in CacheType /\ c'.free = c.free /\ c'.bufsize = c.bufsize /\ c'.wanted = c.wanted
      /\ \A a \in Bufs \ {b} : c'.buf[a] = c.buf[a]
      /\ c'.buf[b].blkno = c.buf[b].blkno /\ c'.buf[b].bufsize = c.buf[b].bufsize
      /\ c.buf[b].flags \subseteq c'.buf[b].flags
      /\ c'.buf[b].flags \subseteq c.buf[b].flags \cup {"READ"} \cup (IF pr[p].call = "ra" THEN {"ASYNC"} ELSE {})
      /\ c'.buf[b].flags # c.buf[b].flags => "READ" \in c'.buf[b].flags
      /\ io' # io => "READ" \in c'.buf[b].flags /\ (pr[p].call = "ra" => "ASYNC" \in c'.buf[b].flags)
      /\ c' # c => io' = Append(io, b)
  <2>1. CASE UNCHANGED <<c, io>>
    BY <1>2, <2>1, ZenonT(60)
  <2>2. CASE /\ c' = [c EXCEPT !.buf[b].flags = @ \cup {"READ"} \cup
                                   (IF pr[p].call = "ra" THEN {"ASYNC"} ELSE {})]
             /\ io' = Append(io, b)
    <3>1. PICK F \in SUBSET Flags : F = c.buf[b].flags \cup {"READ"} \cup (IF pr[p].call = "ra" THEN {"ASYNC"} ELSE {})
      <4>1. c.buf[b].flags \in SUBSET Flags
        BY <1>2, CacheFields
      <4>2. {"READ"} \cup (IF pr[p].call = "ra" THEN {"ASYNC"} ELSE {}) \in SUBSET Flags
        BY DEF Flags
      <4>3. c.buf[b].flags \cup {"READ"} \cup (IF pr[p].call = "ra" THEN {"ASYNC"} ELSE {}) \in SUBSET Flags
        BY <4>1, <4>2
      <4> QED
        BY <4>3
    <3>2. c' = Flagged(c, b, F)
      BY <2>2, <3>1 DEF Flagged
    <3>3. c \in CacheType /\ F \in SUBSET Flags
      BY <1>2, <3>1
    <3>4. /\ c' \in CacheType /\ c'.free = c.free /\ c'.bufsize = c.bufsize /\ c'.wanted = c.wanted
          /\ \A a \in Bufs \ {b} : c'.buf[a] = c.buf[a]
          /\ c'.buf[b].flags = F /\ c'.buf[b].blkno = c.buf[b].blkno /\ c'.buf[b].bufsize = c.buf[b].bufsize
      <4>1. PICK K : K = Flagged(c, b, F)
        OBVIOUS
      <4>2. /\ K \in CacheType /\ K.free = c.free /\ K.bufsize = c.bufsize /\ K.wanted = c.wanted
            /\ \A a \in Bufs \ {b} : K.buf[a] = c.buf[a]
            /\ K.buf[b].flags = F /\ K.buf[b].blkno = c.buf[b].blkno /\ K.buf[b].bufsize = c.buf[b].bufsize
        BY <3>3, <4>1, FlaggedFacts
      <4> QED
        BY <3>2, <4>1, <4>2
    <3> QED
      BY <2>2, <3>1, <3>4
  <2> QED
    BY <2>1, <2>2
<1>5. /\ io' \in Seq(Bufs) /\ Once(io')
      /\ \/ io' = io /\ ToSet(io') = ToSet(io)
         \/ io' = Append(io, b) /\ ToSet(io') = ToSet(io) \cup {b}
  <2>1. io' = io \/ io' = Append(io, b)
    OBVIOUS
  <2>2. /\ io \in Seq(Bufs) /\ Once(io) /\ b \notin ToSet(io)
    BY <1>1, <1>2
  <2>3. /\ Append(io, b) \in Seq(Bufs) /\ ToSet(Append(io, b)) = ToSet(io) \cup {b}
        /\ Once(Append(io, b))
    BY <2>2, Appended
  <2>4. CASE io' = io
    BY <2>2, <2>4
  <2>5. CASE io' = Append(io, b)
    BY <2>3, <2>5
  <2> QED
    BY <2>1, <2>4, <2>5
<1>6. Owned(p)' = {r.bp} \ {NoBuf} /\ pr'[p] = r
  <2>1. pr'[p] = r
    BY <1>2, <1>3
  <2> QED
    BY <1>1, <1>3, <2>1 DEF Owned
<1>7. OnlyBuffer(p, b)
  BY <1>1, <1>2, <1>3, <1>4, <1>5, <1>6 DEF OnlyBuffer
<1>8. Touched(p, b)
  <2>1. b \notin ToSet(c'.free)
    BY <1>2, <1>4
  <2>2. CASE io' = io
    <3>1. c' = c /\ b \in Owned(p)' /\ b \notin ToSet(io')
      BY <1>1, <1>3, <1>4, <1>5, <1>6, <2>2 DEF Is
    <3> QED
      BY <1>1, <2>1, <3>1 DEF Touched, PointOK
  <2>3. CASE io' # io
    <3>1. /\ b \in ToSet(io') /\ "DONE" \notin c'.buf[b].flags
          /\ ("ASYNC" \in c'.buf[b].flags) <=> b \notin Owned(p)'
      BY <1>1, <1>3, <1>4, <1>5, <1>6, <2>3 DEF Is
    <3> QED
      BY <1>1, <1>4, <2>1, <3>1 DEF Touched, PointOK, Is
  <2> QED
    BY <2>2, <2>3
<1>9. ProcFrame(p)
  <2>1. CallOK(r) /\ PlacesOK(r)
    BY <1>1, <1>3 DEF CallOK, PlacesOK, InGetblk, InBiowait, InBlkflush, InBflush
  <2>2. r.bp # NoBuf => /\ "BUSY" \in c'.buf[r.bp].flags /\ c'.buf[r.bp].blkno # NoBlock
                        /\ r.pc = "hold" => r.bp \notin ToSet(io')
                        /\ r.pc # "hold" => r.bp \in ToSet(io') \/ "DONE" \in c'.buf[r.bp].flags
    <3>1. CASE pr[p].call = "ra"
      <4> SUFFICES ASSUME r.bp # NoBuf
                   PROVE  /\ "BUSY" \in c'.buf[r.bp].flags /\ c'.buf[r.bp].blkno # NoBlock
                          /\ r.pc = "hold" => r.bp \notin ToSet(io')
                          /\ r.pc # "hold" => r.bp \in ToSet(io') \/ "DONE" \in c'.buf[r.bp].flags
        OBVIOUS
      <4>1. r.bp = pr[p].bp /\ r.bp \in Bufs \ {b} /\ r.pc # "hold"
        BY <1>1, <1>3, <3>1 DEF ProcRecord
      <4>2. Is(r.bp, "BUSY") /\ c.buf[r.bp].blkno # NoBlock /\ (r.bp \in ToSet(io) \/ Is(r.bp, "DONE"))
        BY <1>1, <1>2, <4>1 DEF HeldOK
      <4> QED
        BY <1>4, <1>5, <4>1, <4>2 DEF Is
    <3>2. CASE pr[p].call # "ra"
      <4>1. "BUSY" \in c'.buf[b].flags /\ c'.buf[b].blkno # NoBlock /\ r.bp = b
        BY <1>1, <1>3, <1>4, <3>2 DEF Is
      <4>2. r.pc = "hold" => b \notin ToSet(io')
        BY <1>1, <1>3, <1>5
      <4>3. r.pc # "hold" => b \in ToSet(io') \/ "DONE" \in c'.buf[b].flags
        BY <1>3, <1>4, <1>5, <3>2 DEF Is
      <4> QED
        BY <4>1, <4>2, <4>3
    <3> QED
      BY <3>1, <3>2
  <2>3. HeldOK(pr[p])' /\ WokenOK(pr[p])' /\ CallOK(pr[p])' /\ PlacesOK(pr[p])'
    BY <1>3, <1>6, <2>1, <2>2 DEF HeldOK, WokenOK, Is
  <2> QED
    BY <1>1, <1>3, <1>6, <2>3 DEF ProcFrame
<1>10. CountFrame(p, {b})
  <2>1. ~AsyncWrite(b)
    BY <1>1 DEF AsyncWrite
  <2>2. ~AsyncWrite(b)'
    <3>1. b \in ToSet(io') => "READ" \in c'.buf[b].flags
      BY <1>1, <1>4, <1>5
    <3> QED
      BY <3>1 DEF AsyncWrite, Is
  <2> QED
    BY <1>1, <1>3, <1>6, <2>1, <2>2 DEF CountFrame, AsyncSame
<1>11. KeepsBlock(b)
  BY <1>4 DEF KeepsBlock
<1>12. MemoryAccounted'
  <2>1. \A x \in Bufs : c'.buf[x].bufsize = c.buf[x].bufsize
    BY <1>4
  <2> QED
    BY <1>2, <1>4, <2>1, MemoryKept
<1>13. Is(b, "BUSY") /\ Is(b, "WANTED") /\ c.buf[b].blkno # NoBlock =>
          "BUSY" \in c'.buf[b].flags /\ "WANTED" \in c'.buf[b].flags /\ c'.buf[b].blkno # NoBlock
  BY <1>4 DEF Is
<1>14. c'.wanted = c.wanted /\ (c.free = <<>> => c'.free = <<>>) /\ cur \in {p, NoProc}
  BY <1>1, <1>4
<1>15. pr' = [pr EXCEPT ![p] = r]
  BY <1>3
<1> QED
  BY <1>7, <1>8, <1>9, <1>10, <1>11, <1>12, <1>13, <1>14, <1>15, TouchStep

LEMMA GotStep ==
    ASSUME BioInv, NEW p \in Procs, Got(p)
    PROVE  BioInv'
<1>1. /\ At(p, "got") /\ cur' = p /\ UNCHANGED <<basyncnt, disk>>
  BY DEF Got
<1>2. PICK b \in Bufs : b = pr[p].b
  BY <1>1, GotFacts
<1>3. pr[p].call \in {"bread", "breada", "getblk", "ra"}
  BY <1>1, GotFacts
<1>4. CASE pr[p].call = "ra" /\ Is(b, "DONE")
  <2>1. c' = brelse(c, b) /\ pr' = wakeprocs(GotNext(p, "raend"), Released(b)) /\ io' = io
    BY <1>2, <1>4 DEF Got, GotNext
  <2>2. PICK r \in ProcRecord :
              /\ GotNext(p, "raend") = [pr EXCEPT ![p] = r]
              /\ r.pc = "raend" /\ r.b = NoBuf /\ r.nbp = NoBuf /\ r.bp = pr[p].bp
              /\ r.call = pr[p].call /\ r.blk = pr[p].blk /\ r.ra = pr[p].ra
    BY <1>1, <1>4, GotRecord
  <2>3. /\ cur \in {p, NoProc} /\ pr[p].nbp = NoBuf /\ pr[p].pc = "got"
        /\ b \in Owned(p) /\ b # pr[p].bp /\ b # NoBuf /\ b \notin ToSet(io) /\ c.buf[b].blkno # NoBlock
        /\ pr[p].ra # NoBlock
    <3>1. /\ cur \in {p, NoProc} /\ pr[p].nbp = NoBuf
          /\ Owned(p) = {b, pr[p].bp} \ {NoBuf} /\ b # pr[p].bp /\ b # NoBuf /\ b \notin ToSet(io)
          /\ c.buf[b].blkno = pr[p].blk /\ pr[p].blk # NoBlock /\ pr[p].ra # NoBlock
      BY <1>1, <1>2, <1>4, GotFacts
    <3>2. pr[p].pc = "got" /\ b \in Owned(p)
      BY <1>1, <3>1 DEF At
    <3> QED
      BY <3>1, <3>2
  <2>4. CallOK(r) /\ PlacesOK(r) /\ r.call = "ra"
    BY <1>4, <2>2, <2>3 DEF CallOK, PlacesOK, InGetblk, InBiowait, InBlkflush, InBflush
  <2>5. c \in CacheType /\ (Is(b, "STALE") => "STALE" \in c.buf[b].flags)
    BY ActorFacts DEF Is
  <2>6. pr' = wakeprocs([pr EXCEPT ![p] = r], Released(b))
    BY <2>1, <2>2
  <2> QED
    BY <1>1, <1>2, <1>4, <2>1, <2>2, <2>3, <2>4, <2>5, <2>6, DelayedFacts, GiveUpStep
<1>5. CASE pr[p].call # "ra" \/ ~Is(b, "DONE")
  <2>1. PICK pc \in {"hold", "iowait", "ra", "raend"} :
           /\ pr' = GotNext(p, pc)
           /\ \/ /\ \/ pr[p].call \in {"getblk", "bread"} /\ pc = "hold"
                    \/ pr[p].call = "breada" /\ pc = "ra" /\ Is(b, "DONE")
                 /\ UNCHANGED <<c, io>>
              \/ /\ \/ pr[p].call = "bread" /\ pc = "iowait"
                    \/ pr[p].call = "breada" /\ pc = "ra"
                    \/ pr[p].call = "ra" /\ pc = "raend"
                 /\ ~Is(b, "DONE")
                 /\ c' = [c EXCEPT !.buf[b].flags = @ \cup {"READ"} \cup
                                      (IF pr[p].call = "ra" THEN {"ASYNC"} ELSE {})]
                 /\ io' = Append(io, b)
    <3>1. CASE pr[p].call = "getblk" \/ (pr[p].call = "bread" /\ Is(b, "DONE"))
      <4>1. pr' = GotNext(p, "hold") /\ UNCHANGED <<c, io>>
        BY <1>2, <3>1 DEF Got, GotNext
      <4> QED
        BY <3>1, <4>1
    <3>2. CASE pr[p].call = "breada" /\ Is(b, "DONE")
      <4>1. pr' = GotNext(p, "ra") /\ UNCHANGED <<c, io>>
        BY <1>2, <3>2 DEF Got, GotNext
      <4> QED
        BY <3>2, <4>1
    <3>3. ASSUME ~Is(b, "DONE"), NEW call \in {"bread", "breada", "ra"}, pr[p].call = call
          PROVE  /\ pr' = GotNext(p, CASE call = "bread" -> "iowait" [] call = "breada" -> "ra" [] call = "ra" -> "raend")
                 /\ c' = [c EXCEPT !.buf[b].flags = @ \cup {"READ"} \cup
                                      (IF pr[p].call = "ra" THEN {"ASYNC"} ELSE {})]
                 /\ io' = Append(io, b)
      BY <1>2, <3>3 DEF Got, GotNext
    <3> QED
      BY <1>3, <1>5, <3>1, <3>2, <3>3
  <2> QED
    BY <1>1, <1>2, <2>1, GotKept
<1> QED
  BY <1>4, <1>5

-----------------------------------------------------------------------------
(***************************************************************************)
(* Taking a buffer off the free list.                                      *)
(***************************************************************************)
LEMMA FreeFacts ==
    ASSUME BioInv, NEW b \in ToSet(c.free)
    PROVE  /\ b \in Bufs /\ ~Is(b, "BUSY") /\ ~Is(b, "ASYNC") /\ b \notin ToSet(io) /\ ~HasOwner(b)
           /\ c.buf[b].bufsize # 0 /\ c.free # <<>>
           /\ Is(b, "DELWRI") => c.buf[b].blkno # NoBlock
<1>1. c.free \in Seq(Bufs) /\ ToSet(c.free) \subseteq Bufs /\ c.free # <<>>
  BY SeqFacts DEF BioInv, TypeOK
<1>2. PointOK(c.buf[b], b \in ToSet(c.free), b \in ToSet(io), HasOwner(b))
  BY <1>1 DEF BioInv, ProcInv, BufsOK
<1> QED
  BY <1>1, <1>2 DEF PointOK, Is

LEMMA NotBusyIsFree ==
    ASSUME BioInv, NEW b \in Bufs, ~Is(b, "BUSY"), c.buf[b].blkno # NoBlock
    PROVE  b \in ToSet(c.free)
<1>1. ~HasOwner(b)
  <2> SUFFICES ASSUME NEW q \in Procs, b \in Owned(q) PROVE FALSE
    BY DEF HasOwner
  <2>1. HeldOK(pr[q]) /\ CallOK(pr[q])
    BY ActorFacts
  <2> QED
    BY <2>1 DEF Owned, HeldOK
<1>2. PointOK(c.buf[b], b \in ToSet(c.free), b \in ToSet(io), HasOwner(b))
  BY DEF BioInv, ProcInv, BufsOK
<1> QED
  BY <1>1, <1>2 DEF PointOK, NoBuffer, Is

LEMMA TakenFacts ==
    ASSUME NEW K \in CacheType, NEW b \in Bufs, Once(K.free), b \in ToSet(K.free)
    PROVE  /\ notavail(K, b) \in CacheType
           /\ notavail(K, b).bufsize = K.bufsize /\ notavail(K, b).wanted = K.wanted
           /\ Once(notavail(K, b).free) /\ ToSet(notavail(K, b).free) = ToSet(K.free) \ {b}
           /\ \A a \in Bufs \ {b} : notavail(K, b).buf[a] = K.buf[a]
           /\ notavail(K, b).buf[b].flags = K.buf[b].flags \cup {"BUSY"}
           /\ notavail(K, b).buf[b].blkno = K.buf[b].blkno /\ notavail(K, b).buf[b].bufsize = K.buf[b].bufsize
           /\ notavail(K, b).buf[b].data = K.buf[b].data
<1>1. /\ notavail(K, b) \in CacheType
      /\ notavail(K, b).buf = [K.buf EXCEPT ![b] = [K.buf[b] EXCEPT !.flags = K.buf[b].flags \cup {"BUSY"}]]
      /\ notavail(K, b).bufsize = K.bufsize /\ notavail(K, b).wanted = K.wanted
      /\ Once(notavail(K, b).free) /\ ToSet(notavail(K, b).free) = ToSet(K.free) \ {b}
  BY NotavailFacts
<1>2. PICK x \in BufRecord : x = K.buf[b]
  BY CacheFields
<1>3. PICK F \in SUBSET Flags : F = x.flags \cup {"BUSY"}
  BY DEF BufRecord, Flags
<1>4. PICK y \in BufRecord : y = [x EXCEPT !.flags = F]
  BY BufFields
<1>5. y.flags = F /\ y.blkno = x.blkno /\ y.bufsize = x.bufsize /\ y.data = x.data
  BY <1>4, BufFields
<1>6. notavail(K, b).buf = [K.buf EXCEPT ![b] = y]
  BY <1>1, <1>2, <1>3, <1>4
<1>7. (\A a \in Bufs \ {b} : notavail(K, b).buf[a] = K.buf[a]) /\ notavail(K, b).buf[b] = y
  BY <1>6, CacheFields
<1> QED
  BY <1>1, <1>2, <1>3, <1>5, <1>7

LEMMA WrittenFacts ==
    ASSUME NEW K \in CacheType, NEW b \in Bufs
    PROVE  /\ Written(K, b) \in CacheType
           /\ Written(K, b).free = K.free /\ Written(K, b).bufsize = K.bufsize
           /\ Written(K, b).wanted = K.wanted
           /\ \A a \in Bufs \ {b} : Written(K, b).buf[a] = K.buf[a]
           /\ Written(K, b).buf[b].flags = K.buf[b].flags \ {"READ", "DONE", "ERROR", "DELWRI"}
           /\ Written(K, b).buf[b].blkno = K.buf[b].blkno
           /\ Written(K, b).buf[b].bufsize = K.buf[b].bufsize
           /\ Written(K, b).buf[b].data = K.buf[b].data
<1>1. K.buf[b].flags \in SUBSET Flags
  BY CacheFields
<1>2. PICK F \in SUBSET Flags : F = K.buf[b].flags \ {"READ", "DONE", "ERROR", "DELWRI"}
  BY <1>1
<1>3. Written(K, b) = Flagged(K, b, F)
  BY <1>2 DEF Written, Flagged
<1>4. PICK L : L = Flagged(K, b, F)
  OBVIOUS
<1>5. /\ L \in CacheType /\ L.free = K.free /\ L.bufsize = K.bufsize /\ L.wanted = K.wanted
      /\ \A a \in Bufs \ {b} : L.buf[a] = K.buf[a]
      /\ L.buf[b].flags = F /\ L.buf[b].blkno = K.buf[b].blkno /\ L.buf[b].bufsize = K.buf[b].bufsize
      /\ L.buf[b].data = K.buf[b].data
  BY <1>4, FlaggedFacts
<1> QED
  BY <1>2, <1>3, <1>4, <1>5

\* What p holds for its caller stays as it was, if it is not in X.
LEMMA BpKept ==
    ASSUME BioInv, NEW p \in Procs, NEW X, pr[p].bp # NoBuf, pr[p].bp \notin X, pr[p].pc # "hold",
           \A a \in Bufs \ X : c'.buf[a] = c.buf[a], ToSet(io) \subseteq ToSet(io')
    PROVE  /\ "BUSY" \in c'.buf[pr[p].bp].flags /\ c'.buf[pr[p].bp].blkno # NoBlock
           /\ pr[p].bp \in ToSet(io') \/ "DONE" \in c'.buf[pr[p].bp].flags
<1>1. pr[p].bp \in Bufs \ X
  BY ActorFacts DEF ProcRecord
<1>2. Is(pr[p].bp, "BUSY") /\ c.buf[pr[p].bp].blkno # NoBlock /\ (pr[p].bp \in ToSet(io) \/ Is(pr[p].bp, "DONE"))
  BY ActorFacts DEF HeldOK
<1> QED
  BY <1>1, <1>2 DEF Is

\* Process p takes b off the free list: for itself, or to have it written.
LEMMA TakeStep ==
    ASSUME BioInv, NEW p \in Procs, cur \in {p, NoProc}, NEW b \in ToSet(c.free), NEW r \in ProcRecord,
           pr' = [pr EXCEPT ![p] = r], cur' = p,
           c' \in CacheType, Once(c'.free), ToSet(c'.free) = ToSet(c.free) \ {b},
           c'.wanted = c.wanted, c'.bufsize = c.bufsize,
           \A a \in Bufs \ {b} : c'.buf[a] = c.buf[a],
           c'.buf[b].bufsize = c.buf[b].bufsize, KeepsBlock(b), "BUSY" \in c'.buf[b].flags,
           "DELWRI" \in c'.buf[b].flags => /\ c'.buf[b].blkno # NoBlock
                                           /\ "DONE" \in c'.buf[b].flags /\ c'.buf[b].data # NoVal,
           \/ io' = io /\ b \in Owned(p)' /\ "ASYNC" \notin c'.buf[b].flags
           \/ /\ io' = Append(io, b) /\ "DONE" \notin c'.buf[b].flags /\ c'.buf[b].blkno # NoBlock
              /\ ("ASYNC" \in c'.buf[b].flags) <=> b \notin Owned(p)'
              /\ c'.buf[b].data # NoVal,
           \A a \in Bufs \ {b} : (a \in Owned(p)') <=> (a \in Owned(p)),
           basyncnt' = basyncnt, disk' = disk, ProcFrame(p), CountFrame(p, {b})
    PROVE  BioInv'
<1>1. /\ b \in Bufs /\ ~Is(b, "BUSY") /\ b \notin ToSet(io) /\ ~HasOwner(b) /\ c.buf[b].bufsize # 0
      /\ c.free # <<>> /\ io \in Seq(Bufs) /\ Once(io) /\ TypeOK /\ MemoryAccounted
  BY FreeFacts, ActorFacts DEF BioInv, ProcInv, BufsOK
<1>2. /\ io' \in Seq(Bufs) /\ Once(io')
      /\ \/ io' = io /\ ToSet(io') = ToSet(io)
         \/ io' = Append(io, b) /\ ToSet(io') = ToSet(io) \cup {b}
  <2>1. io' = io \/ io' = Append(io, b)
    OBVIOUS
  <2>2. /\ Append(io, b) \in Seq(Bufs) /\ ToSet(Append(io, b)) = ToSet(io) \cup {b}
        /\ Once(Append(io, b))
    BY <1>1, Appended
  <2>3. CASE io' = io
    BY <1>1, <2>3
  <2>4. CASE io' = Append(io, b)
    BY <2>2, <2>4
  <2> QED
    BY <2>1, <2>3, <2>4
<1>3. OnlyBuffer(p, b)
  BY <1>2 DEF OnlyBuffer
<1>4. Touched(p, b)
  <2>1. \A q \in Procs \ {p} : b \notin Owned(q)
    BY <1>1 DEF HasOwner
  <2>2. b \notin ToSet(c'.free) /\ c'.buf[b].bufsize # 0
    BY <1>1
  <2>3. CASE io' = io
    <3>1. b \notin ToSet(io') /\ b \in Owned(p)' /\ "ASYNC" \notin c'.buf[b].flags
      <4>1. io # Append(io, b)
        BY <1>1, Appended
      <4> QED
        BY <1>1, <2>3, <4>1
    <3> QED
      BY <2>1, <2>2, <3>1 DEF Touched, PointOK
  <2>4. CASE io' # io
    <3>1. /\ b \in ToSet(io') /\ "DONE" \notin c'.buf[b].flags /\ c'.buf[b].blkno # NoBlock
          /\ ("ASYNC" \in c'.buf[b].flags) <=> b \notin Owned(p)'
          /\ c'.buf[b].data # NoVal
      BY <1>2, <2>4
    <3> QED
      BY <2>1, <2>2, <3>1 DEF Touched, PointOK
  <2> QED
    BY <2>3, <2>4
<1>5. MemoryAccounted'
  <2>1. \A x \in Bufs : c'.buf[x].bufsize = c.buf[x].bufsize
    OBVIOUS
  <2> QED
    BY <1>1, <2>1, MemoryKept
<1>6. pr \in [Procs -> ProcRecord] /\ (c.free = <<>> => c'.free = <<>>)
  BY <1>1, ActorFacts
<1> QED
  BY <1>1, <1>3, <1>4, <1>5, <1>6, TouchStep

\* What a delayed write that is started behind the back of p changes.
LEMMA WriteBehindFacts ==
    ASSUME BioInv, NEW p \in Procs, NEW b \in ToSet(c.free), Is(b, "DELWRI"),
           NEW why \in {{"ASYNC", "AGE"}, {"ASYNC"}}, NEW next \in {"getfree", "bflush"},
           WriteBehind(p, b, why, next)
    PROVE  /\ c' \in CacheType /\ Once(c'.free) /\ ToSet(c'.free) = ToSet(c.free) \ {b}
           /\ c'.wanted = c.wanted /\ c'.bufsize = c.bufsize
           /\ \A a \in Bufs \ {b} : c'.buf[a] = c.buf[a]
           /\ c'.buf[b].bufsize = c.buf[b].bufsize /\ c'.buf[b].blkno = c.buf[b].blkno
           /\ {"BUSY", "ASYNC"} \subseteq c'.buf[b].flags
           /\ {"READ", "DONE", "DELWRI", "ERROR"} \cap c'.buf[b].flags = {}
           /\ ("STALE" \in c'.buf[b].flags) <=> ("STALE" \in c.buf[b].flags)
           /\ c'.buf[b].data = c.buf[b].data
           /\ \E r \in ProcRecord :
                 /\ pr' = [pr EXCEPT ![p] = r]
                 /\ r.pc = "asyncnt" /\ r.then = next /\ r.bp = pr[p].bp /\ r.nbp = pr[p].nbp
                 /\ r.call = pr[p].call /\ r.blk = pr[p].blk /\ r.ra = pr[p].ra
<1>1. b \in Bufs
  BY FreeFacts
<1>2. c \in CacheType /\ Once(c.free) /\ pr \in [Procs -> ProcRecord]
  BY ActorFacts DEF BioInv, ProcInv, BufsOK
<1>3. PICK F \in SUBSET Flags : F = c.buf[b].flags \cup why
  <2>1. c.buf[b].flags \in SUBSET Flags /\ why \in SUBSET Flags
    BY <1>1, <1>2, CacheFields DEF Flags
  <2> QED
    BY <2>1
<1>4. PICK K \in CacheType :
         /\ K = Flagged(c, b, F) /\ K.free = c.free /\ K.bufsize = c.bufsize /\ K.wanted = c.wanted
         /\ \A a \in Bufs \ {b} : K.buf[a] = c.buf[a]
         /\ K.buf[b].flags = F /\ K.buf[b].blkno = c.buf[b].blkno /\ K.buf[b].bufsize = c.buf[b].bufsize
         /\ K.buf[b].data = c.buf[b].data
  BY <1>1, <1>2, FlaggedFacts
<1>5. PICK L \in CacheType :
         /\ L = notavail(K, b) /\ L.bufsize = c.bufsize /\ L.wanted = c.wanted
         /\ Once(L.free) /\ ToSet(L.free) = ToSet(c.free) \ {b}
         /\ \A a \in Bufs \ {b} : L.buf[a] = c.buf[a]
         /\ L.buf[b].flags = F \cup {"BUSY"} /\ L.buf[b].blkno = c.buf[b].blkno
         /\ L.buf[b].bufsize = c.buf[b].bufsize /\ L.buf[b].data = c.buf[b].data
  <2>1. Once(K.free) /\ b \in ToSet(K.free)
    BY <1>2, <1>4
  <2>2. PICK L \in CacheType : L = notavail(K, b)
    BY <1>1, <2>1, TakenFacts
  <2>3. /\ L.bufsize = K.bufsize /\ L.wanted = K.wanted
        /\ Once(L.free) /\ ToSet(L.free) = ToSet(K.free) \ {b}
        /\ \A a \in Bufs \ {b} : L.buf[a] = K.buf[a]
        /\ L.buf[b].flags = K.buf[b].flags \cup {"BUSY"} /\ L.buf[b].blkno = K.buf[b].blkno
        /\ L.buf[b].bufsize = K.buf[b].bufsize /\ L.buf[b].data = K.buf[b].data
    BY <1>1, <2>1, <2>2, TakenFacts
  <2> QED
    BY <1>4, <2>2, <2>3
<1>6. PICK M \in CacheType :
         /\ M = Written(L, b) /\ M.free = L.free /\ M.bufsize = c.bufsize /\ M.wanted = c.wanted
         /\ \A a \in Bufs \ {b} : M.buf[a] = c.buf[a]
         /\ M.buf[b].flags = (F \cup {"BUSY"}) \ {"READ", "DONE", "ERROR", "DELWRI"}
         /\ M.buf[b].blkno = c.buf[b].blkno /\ M.buf[b].bufsize = c.buf[b].bufsize
         /\ M.buf[b].data = c.buf[b].data
  BY <1>1, <1>5, WrittenFacts, SMTT(30)
<1>7. c' = M
  <2>1. K = [c EXCEPT !.buf[b].flags = @ \cup why]
    BY <1>3, <1>4 DEF Flagged
  <2>2. c' = Written(notavail([c EXCEPT !.buf[b].flags = @ \cup why], b), b)
    BY DEF WriteBehind
  <2> QED
    BY <1>5, <1>6, <2>1, <2>2
<1>8. /\ c' \in CacheType /\ Once(c'.free) /\ ToSet(c'.free) = ToSet(c.free) \ {b}
      /\ c'.wanted = c.wanted /\ c'.bufsize = c.bufsize
      /\ \A a \in Bufs \ {b} : c'.buf[a] = c.buf[a]
      /\ c'.buf[b].bufsize = c.buf[b].bufsize /\ c'.buf[b].blkno = c.buf[b].blkno
      /\ {"BUSY", "ASYNC"} \subseteq c'.buf[b].flags
      /\ {"READ", "DONE", "DELWRI", "ERROR"} \cap c'.buf[b].flags = {}
      /\ ("STALE" \in c'.buf[b].flags) <=> ("STALE" \in c.buf[b].flags)
      /\ c'.buf[b].data = c.buf[b].data
  BY <1>3, <1>5, <1>6, <1>7
<1>9. PICK x \in ProcRecord : x = pr[p]
  BY <1>2
<1>10. PICK r \in ProcRecord : /\ pr' = [pr EXCEPT ![p] = r]
         /\ r.pc = "asyncnt" /\ r.then = next /\ r.bp = x.bp /\ r.nbp = x.nbp /\ r.call = x.call
         /\ r.blk = x.blk /\ r.ra = x.ra
  <2>1. PICK y \in ProcRecord : y = [x EXCEPT !.then = next]
    <3>1. [x EXCEPT !.then = next] \in ProcRecord
      <4>1. next \in {"user", "search", "getfree", "iowait", "bflush", "blkflush"}
        OBVIOUS
      <4> QED
        BY <4>1 DEF ProcRecord
    <3> QED
      BY <3>1
  <2>2. PICK r \in ProcRecord : r = [y EXCEPT !.pc = "asyncnt"]
    <3>1. [y EXCEPT !.pc = "asyncnt"] \in ProcRecord
      BY DEF ProcRecord
    <3> QED
      BY <3>1
  <2>3. /\ r.pc = "asyncnt" /\ r.then = next /\ r.bp = x.bp /\ r.nbp = x.nbp /\ r.call = x.call
        /\ r.blk = x.blk /\ r.ra = x.ra
    BY <2>1, <2>2 DEF ProcRecord
  <2>4. r = [x EXCEPT !.pc = "asyncnt", !.then = next]
    <3>1. [y EXCEPT !.pc = "asyncnt"] = [x EXCEPT !.pc = "asyncnt", !.then = next]
      BY <2>1 DEF ProcRecord
    <3> QED
      BY <2>2, <3>1
  <2>5. pr' = [pr EXCEPT ![p] = [x EXCEPT !.pc = "asyncnt", !.then = next]]
    BY <1>2, <1>9 DEF WriteBehind
  <2> QED
    BY <2>3, <2>4, <2>5
<1> QED
  BY <1>8, <1>9, <1>10

\* A delayed write is started behind the back of p.
LEMMA WriteBehindStep ==
    ASSUME BioInv, NEW p \in Procs, cur \in {p, NoProc}, NEW b \in ToSet(c.free), Is(b, "DELWRI"),
           NEW why \in {{"ASYNC", "AGE"}, {"ASYNC"}}, NEW next \in {"getfree", "bflush"},
           WriteBehind(p, b, why, next),
           \/ pr[p].pc \in {"getfree", "reclaim"} /\ next = "getfree"
           \/ pr[p].pc = "bflush" /\ next = "bflush"
    PROVE  BioInv'
<1>1. /\ b \in Bufs /\ b \notin ToSet(io) /\ ~HasOwner(b) /\ c.buf[b].blkno # NoBlock /\ b # NoBuf
      /\ ~Is(b, "BUSY")
  BY FreeFacts, BioAssumption
<1>2. c \in CacheType /\ io \in Seq(Bufs) /\ pr \in [Procs -> ProcRecord]
  BY ActorFacts
<1>3. /\ c' \in CacheType /\ Once(c'.free) /\ ToSet(c'.free) = ToSet(c.free) \ {b}
      /\ c'.wanted = c.wanted /\ c'.bufsize = c.bufsize
      /\ \A a \in Bufs \ {b} : c'.buf[a] = c.buf[a]
      /\ c'.buf[b].bufsize = c.buf[b].bufsize /\ c'.buf[b].blkno = c.buf[b].blkno
      /\ {"BUSY", "ASYNC"} \subseteq c'.buf[b].flags
      /\ {"READ", "DONE", "DELWRI"} \cap c'.buf[b].flags = {}
      /\ "STALE" \in c.buf[b].flags => "STALE" \in c'.buf[b].flags
      /\ c'.buf[b].data = c.buf[b].data
  BY WriteBehindFacts, SMTT(30)
<1>4. /\ io' = Append(io, b) /\ ToSet(io') = ToSet(io) \cup {b}
      /\ cur' = p /\ basyncnt' = basyncnt /\ disk' = disk
  BY <1>1, <1>2, Appended DEF WriteBehind
<1>5. PICK x \in ProcRecord : x = pr[p] /\ CallOK(x) /\ PlacesOK(x)
  BY ActorFacts
<1>6. PICK r \in ProcRecord : /\ pr' = [pr EXCEPT ![p] = r]
         /\ r.pc = "asyncnt" /\ r.then = next /\ r.bp = x.bp /\ r.nbp = x.nbp /\ r.call = x.call
         /\ r.blk = x.blk /\ r.ra = x.ra
  BY <1>5, WriteBehindFacts, SMTT(30)
<1>7. pr'[p] = r
  BY <1>2, <1>6
<1>8. x.nbp = NoBuf /\ CallOK(r) /\ PlacesOK(r)
  BY <1>5, <1>6 DEF CallOK, PlacesOK, InGetblk, InBiowait, InBlkflush, InBflush
<1>9. Owned(p)' = Owned(p) /\ b \notin Owned(p)
  <2>1. Owned(p)' = {r.bp, r.nbp} \ {NoBuf}
    BY <1>6, <1>7 DEF Owned
  <2>2. Owned(p) = {x.bp, x.nbp} \ {NoBuf}
    BY <1>5 DEF Owned
  <2>3. b \notin Owned(p)
    BY <1>1 DEF HasOwner
  <2> QED
    BY <1>6, <2>1, <2>2, <2>3
<1>10. ProcFrame(p)
  <2>1. r.bp # NoBuf => /\ "BUSY" \in c'.buf[r.bp].flags /\ c'.buf[r.bp].blkno # NoBlock
                        /\ r.bp \in ToSet(io') \/ "DONE" \in c'.buf[r.bp].flags
    <3> SUFFICES ASSUME r.bp # NoBuf
                 PROVE  /\ "BUSY" \in c'.buf[r.bp].flags /\ c'.buf[r.bp].blkno # NoBlock
                        /\ r.bp \in ToSet(io') \/ "DONE" \in c'.buf[r.bp].flags
      OBVIOUS
    <3>1. pr[p].bp # NoBuf /\ pr[p].bp \notin {b} /\ pr[p].pc # "hold" /\ r.bp = pr[p].bp
      BY <1>5, <1>6, <1>9 DEF Owned
    <3> QED
      BY <1>3, <1>4, <3>1, BpKept
  <2>2. HeldOK(pr[p])' /\ WokenOK(pr[p])' /\ CallOK(pr[p])' /\ PlacesOK(pr[p])'
    BY <1>6, <1>7, <1>8, <2>1 DEF HeldOK, WokenOK, Is
  <2> QED
    BY <1>4, <1>5, <1>6, <1>7, <2>2 DEF ProcFrame
<1>11. CountFrame(p, {b})
  <2>1. ~AsyncWrite(b) /\ AsyncWrite(b)'
    BY <1>1, <1>3, <1>4 DEF AsyncWrite, Is
  <2> QED
    BY <1>4, <1>6, <1>7, <2>1 DEF CountFrame
<1>12. KeepsBlock(b)
  BY <1>3 DEF KeepsBlock
<1>13. pr' = [pr EXCEPT ![p] = r]
  BY <1>6
<1>14. /\ "BUSY" \in c'.buf[b].flags /\ "DELWRI" \notin c'.buf[b].flags /\ "DONE" \notin c'.buf[b].flags
       /\ "ASYNC" \in c'.buf[b].flags /\ b \notin Owned(p)' /\ c'.buf[b].blkno # NoBlock
       /\ c'.buf[b].data # NoVal
  <2>1. c.buf[b].data # NoVal
    BY <1>1, DelayedFacts DEF Is
  <2> QED
    BY <1>1, <1>3, <1>9, <2>1
<1> QED
  BY <1>3, <1>4, <1>9, <1>10, <1>11, <1>12, <1>13, <1>14, TakeStep

\* The search for a delayed write finds one that is free, if there is any.
LEMMA DelayedIs ==
    ASSUME BioInv
    PROVE  /\ Delayed # 0 => \E b \in ToSet(c.free) : b = c.free[Delayed] /\ Is(b, "DELWRI")
           /\ Delayed = 0 => \A b \in ToSet(c.free) : ~Is(b, "DELWRI")
<1>1. c.free \in Seq(Bufs)
  BY DEF BioInv, TypeOK
<1> DEFINE I == {i \in 1 .. Len(c.free) : Is(c.free[i], "DELWRI")}
<1>2. Delayed = IF I # {} THEN Min(I) ELSE 0
  BY DEF Delayed, SelectInSeq
<1>3. I \in SUBSET Nat
  OBVIOUS
<1>4. CASE I # {}
  <2>1. Min(I) \in I
    BY <1>3, <1>4, FirstPlace
  <2>2. Delayed \in DOMAIN c.free /\ Is(c.free[Delayed], "DELWRI") /\ Delayed # 0
    BY <1>1, <1>2, <1>4, <2>1, SeqFacts
  <2>3. c.free[Delayed] \in ToSet(c.free)
    BY <1>1, <2>2, SeqFacts
  <2> QED
    BY <2>2, <2>3
<1>5. CASE I = {}
  <2>1. \A i \in DOMAIN c.free : ~Is(c.free[i], "DELWRI")
    BY <1>1, <1>5, SeqFacts
  <2>2. \A b \in ToSet(c.free) : ~Is(b, "DELWRI")
    BY <2>1 DEF ToSet
  <2>3. Delayed = 0
    BY <1>2, <1>5
  <2> QED
    BY <2>2, <2>3
<1> QED
  BY <1>4, <1>5

LEMMA BflushStep ==
    ASSUME BioInv, NEW p \in Procs, Bflush(p)
    PROVE  BioInv'
<1>1. PICK b \in ToSet(c.free) : b = c.free[Delayed] /\ Is(b, "DELWRI")
  BY DelayedIs DEF Bflush
<1>2. WriteBehind(p, b, {"ASYNC"}, "bflush") /\ pr[p].pc = "bflush" /\ cur \in {p, NoProc}
  BY <1>1 DEF Bflush, At
<1> QED
  BY <1>1, <1>2, WriteBehindStep

LEMMA UnhashedFacts ==
    ASSUME NEW K \in CacheType, NEW b \in Bufs, Once(K.free), b \in ToSet(K.free)
    PROVE  /\ Unhashed(K, b) \in CacheType
           /\ Unhashed(K, b).bufsize = K.bufsize /\ Unhashed(K, b).wanted = K.wanted
           /\ Once(Unhashed(K, b).free) /\ ToSet(Unhashed(K, b).free) = ToSet(K.free) \ {b}
           /\ \A a \in Bufs \ {b} : Unhashed(K, b).buf[a] = K.buf[a]
           /\ Unhashed(K, b).buf[b].flags = K.buf[b].flags \cup {"BUSY"}
           /\ Unhashed(K, b).buf[b].blkno = NoBlock /\ Unhashed(K, b).buf[b].bufsize = K.buf[b].bufsize
<1>1. PICK L \in CacheType : L = notavail(K, b)
  BY TakenFacts
<1>2. /\ L.bufsize = K.bufsize /\ L.wanted = K.wanted
      /\ Once(L.free) /\ ToSet(L.free) = ToSet(K.free) \ {b}
      /\ \A a \in Bufs \ {b} : L.buf[a] = K.buf[a]
      /\ L.buf[b].flags = K.buf[b].flags \cup {"BUSY"}
      /\ L.buf[b].bufsize = K.buf[b].bufsize
  BY <1>1, TakenFacts
<1>3. PICK x \in BufRecord : x = L.buf[b]
  BY CacheFields
<1>4. PICK y \in BufRecord : y = [x EXCEPT !.blkno = NoBlock]
  <2>1. [x EXCEPT !.blkno = NoBlock] \in BufRecord
    BY DEF BufRecord
  <2> QED
    BY <2>1
<1>5. y.flags = x.flags /\ y.blkno = NoBlock /\ y.bufsize = x.bufsize
  BY <1>4 DEF BufRecord
<1>6. L.buf \in [Bufs -> BufRecord]
  BY CacheFields
<1>7. [L EXCEPT !.buf[b].blkno = NoBlock] = [L EXCEPT !.buf = [L.buf EXCEPT ![b] = y]]
  BY <1>3, <1>4, <1>6
<1>8. PICK M \in CacheType : M = [L EXCEPT !.buf = [L.buf EXCEPT ![b] = y]]
  <2>1. [L EXCEPT !.buf = [L.buf EXCEPT ![b] = y]] \in CacheType
    BY <1>6 DEF CacheType
  <2> QED
    BY <2>1
<1>9. M.buf = [L.buf EXCEPT ![b] = y] /\ M.free = L.free /\ M.bufsize = L.bufsize /\ M.wanted = L.wanted
  BY <1>8 DEF CacheType
<1>10. (\A a \in Bufs \ {b} : M.buf[a] = L.buf[a]) /\ M.buf[b] = y
  BY <1>6, <1>9
<1>11. Unhashed(K, b) = M
  BY <1>1, <1>7, <1>8 DEF Unhashed
<1> QED
  BY <1>2, <1>3, <1>5, <1>9, <1>10, <1>11

\* The buffer goes to the headers without memory.
LEMMA FreedFacts ==
    ASSUME NEW K \in CacheType, NEW b \in Bufs, Once(K.free), b \in ToSet(K.free),
           K.bufsize + K.buf[b].bufsize <= v_bufhwm
    PROVE  /\ Freed(K, b) \in CacheType
           /\ Freed(K, b).bufsize = K.bufsize + K.buf[b].bufsize /\ Freed(K, b).wanted = K.wanted
           /\ Once(Freed(K, b).free) /\ ToSet(Freed(K, b).free) = ToSet(K.free) \ {b}
           /\ \A a \in Bufs \ {b} : Freed(K, b).buf[a] = K.buf[a]
           /\ Freed(K, b).buf[b] = NoBuffer
<1>1. PICK L \in CacheType : L = Unhashed(K, b)
  BY UnhashedFacts
<1>2. /\ L.bufsize = K.bufsize /\ L.wanted = K.wanted
      /\ Once(L.free) /\ ToSet(L.free) = ToSet(K.free) \ {b}
      /\ \A a \in Bufs \ {b} : L.buf[a] = K.buf[a]
  BY <1>1, UnhashedFacts
<1>3. NoBuffer \in BufRecord
  BY DEF NoBuffer, BufRecord
<1>4. PICK n \in 0..v_bufhwm : n = K.bufsize + K.buf[b].bufsize
  BY CacheFields
<1>5. L.buf \in [Bufs -> BufRecord]
  BY CacheFields
<1>6. PICK M \in CacheType : M = [L EXCEPT !.bufsize = n, !.buf[b] = NoBuffer]
  <2>1. [L EXCEPT !.bufsize = n, !.buf[b] = NoBuffer] \in CacheType
    BY <1>3, <1>5 DEF CacheType
  <2> QED
    BY <2>1
<1>7. M.buf = [L.buf EXCEPT ![b] = NoBuffer] /\ M.free = L.free /\ M.bufsize = n /\ M.wanted = L.wanted
  BY <1>6 DEF CacheType
<1>8. (\A a \in Bufs \ {b} : M.buf[a] = L.buf[a]) /\ M.buf[b] = NoBuffer
  BY <1>5, <1>7
<1>9. Freed(K, b) = M
  BY <1>1, <1>2, <1>4, <1>6 DEF Freed
<1> QED
  BY <1>2, <1>4, <1>7, <1>8, <1>9

\* No buffer has more memory than all of them together.
LEMMA MemoryFits ==
    ASSUME BioInv, NEW b \in Bufs
    PROVE  c.bufsize + c.buf[b].bufsize <= v_bufhwm
<1>1. c \in CacheType /\ c.bufsize + Memory(c) = v_bufhwm
  BY AccountedIs DEF BioInv, TypeOK, CacheType
<1> DEFINE L == [buf |-> [a \in Bufs |-> IF a = b THEN NoBuffer ELSE c.buf[a]]]
<1>2. /\ \A x \in Bufs : c.buf[x].bufsize \in Nat /\ L.buf[x].bufsize \in Nat
      /\ \A x \in Bufs \ {b} : L.buf[x].bufsize = c.buf[x].bufsize
      /\ L.buf[b].bufsize = 0 /\ c.bufsize \in Nat
  BY <1>1, CacheFields DEF NoBuffer
<1> HIDE DEF L
<1>3. Memory(L) = Memory(c) - c.buf[b].bufsize + L.buf[b].bufsize /\ Memory(c) \in Nat /\ Memory(L) \in Nat
  BY <1>2, MemoryMoves
<1> QED
  BY <1>1, <1>2, <1>3

\* Getting a new buffer, p has none but the one for its caller.
LEMMA NewFacts ==
    ASSUME BioInv, NEW p \in Procs, At(p, "getfree") \/ At(p, "reclaim")
    PROVE  /\ cur \in {p, NoProc} /\ pr[p].pc \in {"getfree", "reclaim"} /\ pr[p].nbp = NoBuf
           /\ pr[p].call \in {"bread", "breada", "getblk", "ra"} /\ pr[p].blk # NoBlock
           /\ pr[p].blk \in Blocks /\ bsize[pr[p].blk] \in Nat \ {0}
           /\ pr[p].call \in {"breada", "ra"} => pr[p].ra # NoBlock
           /\ pr[p].bp # NoBuf => pr[p].call = "ra"
           /\ Owned(p) = {pr[p].bp} \ {NoBuf}
<1>1. PICK x \in ProcRecord : /\ x = pr[p] /\ CallOK(x) /\ PlacesOK(x) /\ cur \in {p, NoProc}
                              /\ x.pc \in {"getfree", "reclaim"}
  BY ActorFacts DEF At
<1>2. /\ x.nbp = NoBuf /\ x.call \in {"bread", "breada", "getblk", "ra"} /\ x.blk # NoBlock
      /\ x.call \in {"breada", "ra"} => x.ra # NoBlock
      /\ x.bp # NoBuf => x.call = "ra"
  BY <1>1 DEF CallOK, PlacesOK, InGetblk, InBiowait
<1>3. x.blk \in Blocks /\ bsize[x.blk] \in Nat \ {0}
  BY <1>2, BioAssumption DEF ProcRecord
<1>4. Owned(p) = {x.bp} \ {NoBuf}
  BY <1>1, <1>2 DEF Owned
<1> QED
  BY <1>1, <1>2, <1>3, <1>4

LEMMA ReclaimStep ==
    ASSUME BioInv, NEW p \in Procs, Reclaim(p)
    PROVE  BioInv'
<1>1. /\ cur \in {p, NoProc} /\ pr[p].pc \in {"getfree", "reclaim"} /\ pr[p].nbp = NoBuf
      /\ pr[p].call \in {"bread", "breada", "getblk", "ra"} /\ pr[p].blk # NoBlock
      /\ pr[p].call \in {"breada", "ra"} => pr[p].ra # NoBlock
      /\ pr[p].bp # NoBuf => pr[p].call = "ra"
      /\ Owned(p) = {pr[p].bp} \ {NoBuf} /\ bsize[pr[p].blk] \in Nat
  BY NewFacts DEF Reclaim
<1>2. PICK b \in ToSet(c.free) : b = Head(c.free)
  <2>1. c.free \in Seq(Bufs) /\ c.free # <<>>
    BY DEF Reclaim, BioInv, TypeOK
  <2> QED
    BY <2>1, SeqFacts
<1>3. /\ b \in Bufs /\ b \notin ToSet(io) /\ ~HasOwner(b) /\ b # NoBuf
      /\ ~Is(b, "BUSY") /\ ~Is(b, "ASYNC") /\ c.buf[b].bufsize # 0 /\ b \notin Owned(p) /\ c.free # <<>>
  BY FreeFacts, BioAssumption DEF HasOwner
<1>4. /\ c \in CacheType /\ Once(c.free) /\ pr \in [Procs -> ProcRecord] /\ TypeOK /\ MemoryAccounted
      /\ ToSet(io) \subseteq ToSet(io) /\ io \in Seq(Bufs) /\ Once(io)
  BY ActorFacts DEF BioInv, ProcInv, BufsOK
<1>5. PICK x \in ProcRecord : x = pr[p]
  BY <1>4
<1>6. CASE Is(b, "DELWRI")
  <2>1. WriteBehind(p, b, {"ASYNC", "AGE"}, "getfree")
    BY <1>2, <1>6 DEF Reclaim
  <2> QED
    BY <1>1, <1>6, <2>1, WriteBehindStep
<1>7. CASE ~Is(b, "DELWRI") /\ c.buf[b].bufsize = bsize[pr[p].blk]
  <2>1. /\ c' = Unhashed(c, b) /\ pr' = [pr EXCEPT ![p].pc = "search", ![p].nbp = b]
        /\ cur' = p /\ UNCHANGED <<basyncnt, io, disk>>
    BY <1>2, <1>7 DEF Reclaim
  <2>2. PICK K \in CacheType : K = Unhashed(c, b)
    BY <1>3, <1>4, UnhashedFacts
  <2>3. /\ K.bufsize = c.bufsize /\ K.wanted = c.wanted
        /\ Once(K.free) /\ ToSet(K.free) = ToSet(c.free) \ {b}
        /\ \A a \in Bufs \ {b} : K.buf[a] = c.buf[a]
        /\ K.buf[b].flags = c.buf[b].flags \cup {"BUSY"}
        /\ K.buf[b].blkno = NoBlock /\ K.buf[b].bufsize = c.buf[b].bufsize
    BY <1>3, <1>4, <2>2, UnhashedFacts
  <2>4. c' = K
    BY <2>1, <2>2
  <2>5. PICK r \in ProcRecord : r = [x EXCEPT !.pc = "search", !.nbp = b]
    <3>1. [x EXCEPT !.pc = "search", !.nbp = b] \in ProcRecord
      BY <1>3 DEF ProcRecord
    <3> QED
      BY <3>1
  <2>6. /\ r.pc = "search" /\ r.nbp = b /\ r.bp = x.bp /\ r.call = x.call /\ r.blk = x.blk /\ r.ra = x.ra
    BY <2>5 DEF ProcRecord
  <2>7. pr' = [pr EXCEPT ![p] = r] /\ pr'[p] = r
    BY <1>4, <1>5, <2>1, <2>5
  <2>8. Owned(p)' = Owned(p) \cup {b}
    <3>1. Owned(p)' = {r.bp, r.nbp} \ {NoBuf}
      BY <2>6, <2>7 DEF Owned
    <3> QED
      BY <1>1, <1>3, <1>5, <2>6, <3>1
  <2>9. ProcFrame(p)
    <3>1. CallOK(r) /\ PlacesOK(r)
      BY <1>1, <1>3, <1>5, <2>6 DEF CallOK, PlacesOK, InGetblk, InBiowait, InBlkflush, InBflush
    <3>2. r.bp # NoBuf => /\ "BUSY" \in c'.buf[r.bp].flags /\ c'.buf[r.bp].blkno # NoBlock
                          /\ r.bp \in ToSet(io') \/ "DONE" \in c'.buf[r.bp].flags
      <4> SUFFICES ASSUME r.bp # NoBuf
                   PROVE  /\ "BUSY" \in c'.buf[r.bp].flags /\ c'.buf[r.bp].blkno # NoBlock
                          /\ r.bp \in ToSet(io') \/ "DONE" \in c'.buf[r.bp].flags
        OBVIOUS
      <4>1. pr[p].bp # NoBuf /\ pr[p].bp \notin {b} /\ pr[p].pc # "hold" /\ r.bp = pr[p].bp
        BY <1>1, <1>3, <1>5, <2>6
      <4>2. \A a \in Bufs \ {b} : c'.buf[a] = c.buf[a]
        BY <2>3, <2>4
      <4>3. ToSet(io) \subseteq ToSet(io')
        BY <2>1
      <4> QED
        BY <4>1, <4>2, <4>3, BpKept
    <3>3. HeldOK(pr[p])' /\ WokenOK(pr[p])' /\ CallOK(pr[p])' /\ PlacesOK(pr[p])'
      BY <2>3, <2>4, <2>6, <2>7, <3>1, <3>2 DEF HeldOK, WokenOK, Is
    <3> QED
      BY <1>1, <1>5, <2>1, <2>6, <2>7, <3>3 DEF ProcFrame
  <2>10. CountFrame(p, {b})
    <3>1. AsyncSame(b)
      BY <1>3, <2>1 DEF AsyncSame, AsyncWrite
    <3> QED
      BY <1>1, <2>1, <2>6, <2>7, <3>1 DEF CountFrame
  <2>11. KeepsBlock(b)
    BY <2>3, <2>4 DEF KeepsBlock
  <2>12. /\ c'.buf[b].bufsize = c.buf[b].bufsize /\ "BUSY" \in c'.buf[b].flags
         /\ "ASYNC" \notin c'.buf[b].flags /\ "DELWRI" \notin c'.buf[b].flags
    BY <1>3, <1>7, <2>3, <2>4 DEF Is
  <2>13. pr' = [pr EXCEPT ![p] = r] /\ io' = io /\ disk' = disk /\ basyncnt' = basyncnt /\ cur' = p /\ b \in Owned(p)'
    BY <2>1, <2>7, <2>8
  <2>14. /\ c' \in CacheType /\ Once(c'.free) /\ ToSet(c'.free) = ToSet(c.free) \ {b}
         /\ c'.wanted = c.wanted /\ c'.bufsize = c.bufsize
         /\ \A a \in Bufs \ {b} : c'.buf[a] = c.buf[a]
    BY <2>3, <2>4
  <2>15. \A a \in Bufs \ {b} : (a \in Owned(p)') <=> (a \in Owned(p))
    BY <2>8
  <2> QED
    BY <1>1, <2>9, <2>10, <2>11, <2>12, <2>13, <2>14, <2>15, TakeStep
<1>8. CASE ~Is(b, "DELWRI") /\ c.buf[b].bufsize # bsize[pr[p].blk]
  <2>1. /\ c' = Freed(c, b) /\ pr' = [pr EXCEPT ![p].pc = "reclaim"]
        /\ cur' = p /\ UNCHANGED <<basyncnt, io, disk>>
    BY <1>2, <1>8 DEF Reclaim
  <2>2. c.bufsize + c.buf[b].bufsize <= v_bufhwm
    BY <1>3, MemoryFits
  <2>3. PICK K \in CacheType : K = Freed(c, b)
    BY <1>3, <1>4, <2>2, FreedFacts
  <2>4. /\ K.bufsize = c.bufsize + c.buf[b].bufsize /\ K.wanted = c.wanted
        /\ Once(K.free) /\ ToSet(K.free) = ToSet(c.free) \ {b}
        /\ \A a \in Bufs \ {b} : K.buf[a] = c.buf[a]
        /\ K.buf[b] = NoBuffer
    BY <1>3, <1>4, <2>2, <2>3, FreedFacts
  <2>5. c' = K
    BY <2>1, <2>3
  <2>6. PICK r \in ProcRecord : r = [x EXCEPT !.pc = "reclaim"]
    <3>1. [x EXCEPT !.pc = "reclaim"] \in ProcRecord
      BY DEF ProcRecord
    <3> QED
      BY <3>1
  <2>7. /\ r.pc = "reclaim" /\ r.nbp = x.nbp /\ r.bp = x.bp /\ r.call = x.call /\ r.blk = x.blk /\ r.ra = x.ra
    BY <2>6 DEF ProcRecord
  <2>8. pr' = [pr EXCEPT ![p] = r] /\ pr'[p] = r /\ pr' \in [Procs -> ProcRecord]
    BY <1>4, <1>5, <2>1, <2>6
  <2>9. Owned(p)' = Owned(p)
    <3>1. Owned(p)' = {r.bp, r.nbp} \ {NoBuf}
      BY <2>7, <2>8 DEF Owned
    <3> QED
      BY <1>1, <1>5, <2>7, <3>1
  <2>10. ProcFrame(p)
    <3>1. CallOK(r) /\ PlacesOK(r)
      BY <1>1, <1>5, <2>7 DEF CallOK, PlacesOK, InGetblk, InBiowait, InBlkflush, InBflush
    <3>2. r.bp # NoBuf => /\ "BUSY" \in c'.buf[r.bp].flags /\ c'.buf[r.bp].blkno # NoBlock
                          /\ r.bp \in ToSet(io') \/ "DONE" \in c'.buf[r.bp].flags
      <4> SUFFICES ASSUME r.bp # NoBuf
                   PROVE  /\ "BUSY" \in c'.buf[r.bp].flags /\ c'.buf[r.bp].blkno # NoBlock
                          /\ r.bp \in ToSet(io') \/ "DONE" \in c'.buf[r.bp].flags
        OBVIOUS
      <4>1. pr[p].bp # NoBuf /\ pr[p].bp \notin {b} /\ pr[p].pc # "hold" /\ r.bp = pr[p].bp
        BY <1>1, <1>3, <1>5, <2>7
      <4>2. \A a \in Bufs \ {b} : c'.buf[a] = c.buf[a]
        BY <2>4, <2>5
      <4>3. ToSet(io) \subseteq ToSet(io')
        BY <2>1
      <4> QED
        BY <4>1, <4>2, <4>3, BpKept
    <3>3. HeldOK(pr[p])' /\ WokenOK(pr[p])' /\ CallOK(pr[p])' /\ PlacesOK(pr[p])'
      BY <1>1, <1>5, <2>7, <2>8, <3>1, <3>2 DEF HeldOK, WokenOK, Is
    <3> QED
      BY <1>1, <1>5, <2>1, <2>7, <2>8, <3>3 DEF ProcFrame
  <2>11. CountFrame(p, {b})
    <3>1. AsyncSame(b)
      BY <1>3, <2>1 DEF AsyncSame, AsyncWrite
    <3> QED
      BY <1>1, <2>1, <2>7, <2>8, <3>1 DEF CountFrame
  <2>12. /\ OnlyBuffer(p, b) /\ c'.wanted = c.wanted /\ (c.free = <<>> => c'.free = <<>>) /\ ~Is(b, "BUSY")
    BY <1>3, <1>4, <2>1, <2>4, <2>5, <2>9 DEF OnlyBuffer
  <2>13. NoBuffer.flags = {} /\ NoBuffer.blkno = NoBlock /\ NoBuffer.bufsize = 0
    BY DEF NoBuffer
  <2>14. Touched(p, b) /\ KeepsBlock(b)
    <3>1. \A q \in Procs \ {p} : b \notin Owned(q)
      BY <1>3 DEF HasOwner
    <3>2. b \notin ToSet(c'.free) /\ b \notin ToSet(io') /\ b \notin Owned(p)' /\ c'.buf[b] = NoBuffer
      BY <1>3, <2>1, <2>4, <2>5, <2>9
    <3> QED
      BY <2>13, <3>1, <3>2 DEF Touched, PointOK, KeepsBlock
  <2>15. MemoryAccounted'
    <3>1. TypeOK'
      BY <1>4, <2>1, <2>5, <2>8 DEF TypeOK, CacheType
    <3>2. c'.bufsize = c.bufsize + c.buf[b].bufsize - c'.buf[b].bufsize
      BY <1>3, <1>4, <2>4, <2>5, <2>13, CacheFields
    <3>3. \A a \in Bufs \ {b} : c'.buf[a].bufsize = c.buf[a].bufsize
      BY <2>4, <2>5
    <3> QED
      BY <1>3, <1>4, <3>1, <3>2, <3>3, MemoryMoved
  <2>16. pr' = [pr EXCEPT ![p] = r]
    BY <2>8
  <2> QED
    BY <1>1, <1>3, <2>10, <2>11, <2>12, <2>14, <2>15, <2>16, TouchStep
<1> QED
  BY <1>6, <1>7, <1>8

\* A header gets memory for a block of this size.
Allocated(K, h, size) == [K EXCEPT !.bufsize = @ - size, !.buf[h].bufsize = size]

LEMMA AllocatedFacts ==
    ASSUME NEW K \in CacheType, NEW h \in Bufs, NEW size \in Nat, size <= K.bufsize
    PROVE  /\ Allocated(K, h, size) \in CacheType
           /\ Allocated(K, h, size).bufsize = K.bufsize - size /\ Allocated(K, h, size).wanted = K.wanted
           /\ Allocated(K, h, size).free = K.free
           /\ \A a \in Bufs \ {h} : Allocated(K, h, size).buf[a] = K.buf[a]
           /\ Allocated(K, h, size).buf[h].flags = K.buf[h].flags
           /\ Allocated(K, h, size).buf[h].blkno = K.buf[h].blkno
           /\ Allocated(K, h, size).buf[h].bufsize = size
<1>1. PICK x \in BufRecord : x = K.buf[h]
  BY CacheFields
<1>2. PICK y \in BufRecord : y = [x EXCEPT !.bufsize = size]
  <2>1. [x EXCEPT !.bufsize = size] \in BufRecord
    BY DEF BufRecord
  <2> QED
    BY <2>1
<1>3. y.flags = x.flags /\ y.blkno = x.blkno /\ y.bufsize = size
  BY <1>2 DEF BufRecord
<1>4. K.buf \in [Bufs -> BufRecord] /\ K.bufsize \in 0..v_bufhwm /\ v_bufhwm \in Nat
  BY CacheFields
<1>5. PICK n \in 0..v_bufhwm : n = K.bufsize - size
  BY <1>4
<1>6. PICK M \in CacheType : M = [K EXCEPT !.bufsize = n, !.buf = [K.buf EXCEPT ![h] = y]]
  <2>1. [K EXCEPT !.bufsize = n, !.buf = [K.buf EXCEPT ![h] = y]] \in CacheType
    BY <1>4 DEF CacheType
  <2> QED
    BY <2>1
<1>7. M.buf = [K.buf EXCEPT ![h] = y] /\ M.free = K.free /\ M.bufsize = n /\ M.wanted = K.wanted
  BY <1>6 DEF CacheType
<1>8. (\A a \in Bufs \ {h} : M.buf[a] = K.buf[a]) /\ M.buf[h] = y
  BY <1>4, <1>7
<1>9. Allocated(K, h, size) = M
  BY <1>1, <1>2, <1>4, <1>5, <1>6 DEF Allocated
<1> QED
  BY <1>1, <1>3, <1>5, <1>7, <1>8, <1>9

LEMMA AllocateStep ==
    ASSUME BioInv, NEW p \in Procs, Allocate(p)
    PROVE  BioInv'
<1>1. /\ cur \in {p, NoProc} /\ pr[p].pc \in {"getfree", "reclaim"} /\ pr[p].nbp = NoBuf
      /\ pr[p].call \in {"bread", "breada", "getblk", "ra"} /\ pr[p].blk # NoBlock
      /\ pr[p].call \in {"breada", "ra"} => pr[p].ra # NoBlock
      /\ pr[p].bp # NoBuf => pr[p].call = "ra"
      /\ Owned(p) = {pr[p].bp} \ {NoBuf} /\ bsize[pr[p].blk] \in Nat \ {0}
  BY NewFacts DEF Allocate
<1>2. PICK size \in Nat \ {0} : size = bsize[pr[p].blk]
  BY <1>1
<1>3. /\ c \in CacheType /\ Once(c.free) /\ pr \in [Procs -> ProcRecord] /\ TypeOK /\ MemoryAccounted
      /\ io \in Seq(Bufs) /\ Once(io) /\ c.bufsize \in Nat
  BY ActorFacts, CacheFields DEF BioInv, ProcInv, BufsOK
<1>4. CASE Short(size)
  <2>1. c.free = <<>>
    BY <1>2, <1>4 DEF Allocate
  <2>2. /\ At(p, "getfree") \/ At(p, "reclaim")
        /\ Sleep(p, NoBuf, "search") /\ c' = [c EXCEPT !.wanted = TRUE] /\ UNCHANGED <<basyncnt, io, disk>>
    BY <1>2, <1>4 DEF Allocate
  <2> QED
    BY <2>1, <2>2, SleepForMemory
<1>5. CASE ~Short(size)
  <2>1. PICK h \in Headers, waits \in {FALSE, KmemSleeps} :
           /\ c' = [c EXCEPT !.bufsize = @ - size, !.buf[h].bufsize = size]
           /\ pr' = [pr EXCEPT ![p].pc = IF waits THEN "kmem" ELSE "search", ![p].nbp = h]
           /\ cur' = IF waits THEN NoProc ELSE p
    BY <1>2, <1>5 DEF Allocate
  <2>2. UNCHANGED <<basyncnt, io, disk>>
    BY DEF Allocate
  <2>3. /\ h \in Bufs /\ c.buf[h] = NoBuffer /\ h \notin ToSet(c.free) /\ h \notin ToSet(io) /\ ~HasOwner(h)
        /\ h # NoBuf /\ h \notin Owned(p)
    <3>1. h \in Bufs /\ c.buf[h].bufsize = 0 /\ h # NoBuf
      BY BioAssumption DEF Headers
    <3>2. PointOK(c.buf[h], h \in ToSet(c.free), h \in ToSet(io), HasOwner(h))
      BY <3>1 DEF BioInv, ProcInv, BufsOK
    <3> QED
      BY <3>1, <3>2 DEF PointOK, HasOwner
  <2>4. NoBuffer.flags = {} /\ NoBuffer.blkno = NoBlock /\ NoBuffer.bufsize = 0
    BY DEF NoBuffer
  <2>5. size <= c.bufsize
    BY <1>3, <1>5 DEF Short
  <2>6. PICK K : K = Allocated(c, h, size)
    OBVIOUS
  <2>7. /\ K \in CacheType /\ K.bufsize = c.bufsize - size /\ K.wanted = c.wanted
        /\ K.free = c.free
        /\ \A a \in Bufs \ {h} : K.buf[a] = c.buf[a]
        /\ K.buf[h].flags = {} /\ K.buf[h].blkno = NoBlock /\ K.buf[h].bufsize = size
    <3>1. c \in CacheType /\ h \in Bufs /\ size \in Nat /\ size <= c.bufsize
      BY <1>3, <2>3, <2>5
    <3>2. /\ K \in CacheType /\ K.bufsize = c.bufsize - size /\ K.wanted = c.wanted
          /\ K.free = c.free
          /\ \A a \in Bufs \ {h} : K.buf[a] = c.buf[a]
          /\ K.buf[h].flags = c.buf[h].flags /\ K.buf[h].blkno = c.buf[h].blkno /\ K.buf[h].bufsize = size
      BY <2>6, <3>1, AllocatedFacts
    <3> QED
      BY <2>3, <2>4, <3>2
  <2>8. c' = K
    BY <2>1, <2>6 DEF Allocated
  <2>9. PICK x \in ProcRecord : x = pr[p]
    BY <1>3
  <2>10. PICK pc \in {"kmem", "search"} : pc = IF waits THEN "kmem" ELSE "search"
    OBVIOUS
  <2>11. PICK r \in ProcRecord : r = [x EXCEPT !.pc = pc, !.nbp = h]
    <3>1. PICK y \in ProcRecord : y = [x EXCEPT !.nbp = h]
      <4>1. [x EXCEPT !.nbp = h] \in ProcRecord
        BY <2>3 DEF ProcRecord
      <4> QED
        BY <4>1
    <3>2. [y EXCEPT !.pc = pc] \in ProcRecord
      BY DEF ProcRecord
    <3>3. [y EXCEPT !.pc = pc] = [x EXCEPT !.pc = pc, !.nbp = h]
      BY <3>1 DEF ProcRecord
    <3> QED
      BY <3>2, <3>3
  <2>12. /\ r.pc = pc /\ r.nbp = h /\ r.bp = x.bp /\ r.call = x.call /\ r.blk = x.blk /\ r.ra = x.ra
    BY <2>11 DEF ProcRecord
  <2>13. pr' = [pr EXCEPT ![p] = r] /\ pr'[p] = r /\ pr' \in [Procs -> ProcRecord]
    BY <1>3, <2>1, <2>9, <2>10, <2>11
  <2>14. Owned(p)' = Owned(p) \cup {h}
    <3>1. Owned(p)' = {r.bp, r.nbp} \ {NoBuf}
      BY <2>12, <2>13 DEF Owned
    <3> QED
      BY <1>1, <2>3, <2>9, <2>12, <3>1
  <2>15. ProcFrame(p)
    <3>1. CallOK(r) /\ PlacesOK(r)
      BY <1>1, <2>3, <2>9, <2>12 DEF CallOK, PlacesOK, InGetblk, InBiowait, InBlkflush, InBflush
    <3>2. r.bp # NoBuf => /\ "BUSY" \in c'.buf[r.bp].flags /\ c'.buf[r.bp].blkno # NoBlock
                          /\ r.bp \in ToSet(io') \/ "DONE" \in c'.buf[r.bp].flags
      <4> SUFFICES ASSUME r.bp # NoBuf
                   PROVE  /\ "BUSY" \in c'.buf[r.bp].flags /\ c'.buf[r.bp].blkno # NoBlock
                          /\ r.bp \in ToSet(io') \/ "DONE" \in c'.buf[r.bp].flags
        OBVIOUS
      <4>1. pr[p].bp # NoBuf /\ pr[p].bp \notin {h} /\ pr[p].pc # "hold" /\ r.bp = pr[p].bp
        BY <1>1, <2>3, <2>9, <2>12
      <4>2. \A a \in Bufs \ {h} : c'.buf[a] = c.buf[a]
        BY <2>7, <2>8
      <4>3. ToSet(io) \subseteq ToSet(io')
        BY <2>2
      <4> QED
        BY <4>1, <4>2, <4>3, BpKept
    <3>3. HeldOK(pr[p])' /\ WokenOK(pr[p])' /\ CallOK(pr[p])' /\ PlacesOK(pr[p])'
      BY <2>7, <2>8, <2>12, <2>13, <3>1, <3>2 DEF HeldOK, WokenOK, Is
    <3>4. cur' \in {p, NoProc} /\ r.pc \notin Sole /\ r.call # "close" /\ pr[p].pc # "user"
      BY <1>1, <2>1, <2>9, <2>12 DEF Sole
    <3> QED
      BY <2>13, <3>3, <3>4 DEF ProcFrame
  <2>16. CountFrame(p, {h})
    <3>1. AsyncSame(h)
      BY <2>2, <2>3 DEF AsyncSame, AsyncWrite
    <3> QED
      BY <1>1, <2>2, <2>12, <2>13, <3>1 DEF CountFrame
  <2>17. /\ OnlyBuffer(p, h) /\ c'.wanted = c.wanted /\ (c.free = <<>> => c'.free = <<>>) /\ ~Is(h, "BUSY")
    BY <1>3, <2>2, <2>3, <2>4, <2>7, <2>8, <2>14 DEF OnlyBuffer, Is
  <2>18. Touched(p, h) /\ KeepsBlock(h)
    <3>1. \A q \in Procs \ {p} : h \notin Owned(q)
      BY <2>3 DEF HasOwner
    <3>2. h \notin ToSet(c'.free) /\ h \notin ToSet(io') /\ h \in Owned(p)'
      BY <2>2, <2>3, <2>7, <2>8, <2>14
    <3> QED
      BY <2>7, <2>8, <3>1, <3>2 DEF Touched, PointOK, KeepsBlock
  <2>19. MemoryAccounted'
    <3>1. TypeOK'
      <4>1. cur' \in Procs \cup {NoProc}
        BY <2>1
      <4> QED
        BY <1>3, <2>2, <2>7, <2>8, <2>13, <4>1 DEF TypeOK, CacheType
    <3>2. c'.bufsize = c.bufsize + c.buf[h].bufsize - c'.buf[h].bufsize
      BY <1>3, <2>3, <2>4, <2>7, <2>8
    <3>3. \A a \in Bufs \ {h} : c'.buf[a].bufsize = c.buf[a].bufsize
      BY <2>7, <2>8
    <3> QED
      BY <1>3, <2>3, <3>1, <3>2, <3>3, MemoryMoved
  <2>20. pr' = [pr EXCEPT ![p] = r]
    BY <2>13
  <2> QED
    BY <1>1, <2>3, <2>15, <2>16, <2>17, <2>18, <2>19, <2>20, TouchStep
<1> QED
  BY <1>4, <1>5

-----------------------------------------------------------------------------
(***************************************************************************)
(* getblk(): the search, and the second look.                              *)
(***************************************************************************)
NewBlock(K, b, x) == [K EXCEPT !.buf[b] = [@ EXCEPT !.flags = {"BUSY"}, !.blkno = x]]

LEMMA NewBlockFacts ==
    ASSUME NEW K \in CacheType, NEW b \in Bufs, NEW x \in Blocks
    PROVE  /\ NewBlock(K, b, x) \in CacheType
           /\ NewBlock(K, b, x).bufsize = K.bufsize /\ NewBlock(K, b, x).wanted = K.wanted
           /\ NewBlock(K, b, x).free = K.free
           /\ \A a \in Bufs \ {b} : NewBlock(K, b, x).buf[a] = K.buf[a]
           /\ NewBlock(K, b, x).buf[b].flags = {"BUSY"} /\ NewBlock(K, b, x).buf[b].blkno = x
           /\ NewBlock(K, b, x).buf[b].bufsize = K.buf[b].bufsize
<1>1. PICK z \in BufRecord : z = K.buf[b]
  BY CacheFields
<1>2. PICK y \in BufRecord : y = [z EXCEPT !.flags = {"BUSY"}, !.blkno = x]
  <2>1. [z EXCEPT !.flags = {"BUSY"}, !.blkno = x] \in BufRecord
    <3>1. {"BUSY"} \in SUBSET Flags /\ x \in Blocks \cup {NoBlock}
      BY DEF Flags
    <3> QED
      BY <3>1 DEF BufRecord
  <2> QED
    BY <2>1
<1>3. y.flags = {"BUSY"} /\ y.blkno = x /\ y.bufsize = z.bufsize
  BY <1>2 DEF BufRecord
<1>4. K.buf \in [Bufs -> BufRecord]
  BY CacheFields
<1>5. PICK M \in CacheType : M = [K EXCEPT !.buf = [K.buf EXCEPT ![b] = y]]
  <2>1. [K EXCEPT !.buf = [K.buf EXCEPT ![b] = y]] \in CacheType
    BY <1>4 DEF CacheType
  <2> QED
    BY <2>1
<1>6. M.buf = [K.buf EXCEPT ![b] = y] /\ M.free = K.free /\ M.bufsize = K.bufsize /\ M.wanted = K.wanted
  BY <1>5 DEF CacheType
<1>7. (\A a \in Bufs \ {b} : M.buf[a] = K.buf[a]) /\ M.buf[b] = y
  BY <1>4, <1>6
<1>8. NewBlock(K, b, x) = M
  BY <1>1, <1>2, <1>4, <1>5 DEF NewBlock
<1> QED
  BY <1>1, <1>3, <1>6, <1>7, <1>8

LEMMA GetblkSearchStep ==
    ASSUME BioInv, NEW p \in Procs, GetblkSearch(p)
    PROVE  BioInv'
<1>1. PICK x \in ProcRecord : /\ x = pr[p] /\ x.pc = "search" /\ CallOK(x) /\ PlacesOK(x) /\ HeldOK(x)
                              /\ cur \in {p, NoProc}
  BY ActorFacts DEF GetblkSearch, At
<1>2. /\ x.call \in {"bread", "breada", "getblk", "ra"} /\ x.blk # NoBlock /\ x.blk \in Blocks
      /\ x.call \in {"breada", "ra"} => x.ra # NoBlock
      /\ x.bp # NoBuf => x.call = "ra"
  BY <1>1 DEF CallOK, PlacesOK, InGetblk, InBiowait, ProcRecord
<1>3. At(p, pr[p].pc) /\ cur' = p /\ UNCHANGED <<basyncnt, io, disk>>
  BY <1>1 DEF GetblkSearch
<1>4. /\ c \in CacheType /\ Once(c.free) /\ pr \in [Procs -> ProcRecord] /\ TypeOK /\ MemoryAccounted
      /\ io \in Seq(Bufs) /\ Once(io) /\ NoBuf \notin Bufs
  BY ActorFacts DEF BioInv, ProcInv, BufsOK
<1>5. CASE \E b \in Cached(pr[p].blk) : pr' = [pr EXCEPT ![p].pc = "check", ![p].b = b] /\ UNCHANGED c
  <2>1. PICK b \in Cached(x.blk) : pr' = [pr EXCEPT ![p] = [x EXCEPT !.pc = "check", !.b = b]] /\ UNCHANGED c
    BY <1>1, <1>5
  <2>2. b \in Bufs /\ c.buf[b].blkno = x.blk
    BY DEF Cached
  <2>3. PICK r \in ProcRecord : r = [x EXCEPT !.pc = "check", !.b = b]
    <3>1. [x EXCEPT !.pc = "check", !.b = b] \in ProcRecord
      BY <2>2 DEF ProcRecord
    <3> QED
      BY <3>1
  <2>4. /\ r.pc = "check" /\ r.b = b /\ r.bp = x.bp /\ r.nbp = x.nbp /\ r.call = x.call /\ r.blk = x.blk
        /\ r.ra = x.ra
    BY <2>3 DEF ProcRecord
  <2>5. CallOK(r) /\ PlacesOK(r) /\ HeldOK(r)
    BY <1>1, <1>4, <2>2, <2>4 DEF CallOK, PlacesOK, HeldOK, InGetblk, InBiowait, InBlkflush, InBflush
  <2>6. pr' = [pr EXCEPT ![p] = r] /\ UNCHANGED c
    BY <2>1, <2>3
  <2> QED
    BY <1>1, <1>2, <1>3, <2>4, <2>5, <2>6, GotoStep
<1>6. CASE pr[p].nbp = NoBuf /\ pr' = [pr EXCEPT ![p].pc = "getfree"] /\ UNCHANGED c
  <2>1. PICK r \in ProcRecord : r = [x EXCEPT !.pc = "getfree"]
    <3>1. [x EXCEPT !.pc = "getfree"] \in ProcRecord
      BY DEF ProcRecord
    <3> QED
      BY <3>1
  <2>2. /\ r.pc = "getfree" /\ r.b = x.b /\ r.bp = x.bp /\ r.nbp = x.nbp /\ r.call = x.call /\ r.blk = x.blk
        /\ r.ra = x.ra
    BY <2>1 DEF ProcRecord
  <2>3. CallOK(r) /\ PlacesOK(r) /\ HeldOK(r)
    BY <1>1, <1>6, <2>2 DEF CallOK, PlacesOK, HeldOK, InGetblk, InBiowait, InBlkflush, InBflush
  <2>4. pr' = [pr EXCEPT ![p] = r]
    BY <1>1, <1>6, <2>1
  <2> QED
    BY <1>1, <1>2, <1>3, <1>6, <2>2, <2>3, <2>4, GotoStep
<1>7. CASE /\ ~incore(pr[p].blk) /\ pr[p].nbp # NoBuf
           /\ c' = [c EXCEPT !.buf[pr[p].nbp] = [@ EXCEPT !.flags = {"BUSY"}, !.blkno = pr[p].blk]]
           /\ pr' = [pr EXCEPT ![p].pc = "got", ![p].b = pr[p].nbp, ![p].nbp = NoBuf]
  <2>1. PICK b \in Bufs : b = x.nbp /\ b # NoBuf
    BY <1>1, <1>4, <1>7 DEF ProcRecord
  <2>2. c.buf[b].blkno = NoBlock /\ x.bp # b
    BY <1>1, <2>1 DEF HeldOK, PlacesOK
  <2>3. b \in Owned(p) /\ HasOwner(b)
    BY <1>1, <2>1 DEF Owned, HasOwner
  <2>4. b \notin ToSet(c.free) /\ b \notin ToSet(io) /\ c.buf[b].bufsize # 0
    <3>1. PointOK(c.buf[b], b \in ToSet(c.free), b \in ToSet(io), HasOwner(b))
      BY DEF BioInv, ProcInv, BufsOK
    <3> QED
      BY <2>2, <2>3, <3>1 DEF PointOK
  <2>5. PICK K : K = NewBlock(c, b, x.blk)
    OBVIOUS
  <2>6. /\ K \in CacheType /\ K.bufsize = c.bufsize /\ K.wanted = c.wanted /\ K.free = c.free
        /\ \A a \in Bufs \ {b} : K.buf[a] = c.buf[a]
        /\ K.buf[b].flags = {"BUSY"} /\ K.buf[b].blkno = x.blk /\ K.buf[b].bufsize = c.buf[b].bufsize
    BY <1>2, <1>4, <2>5, NewBlockFacts
  <2>7. c' = K
    BY <1>1, <1>7, <2>1, <2>5 DEF NewBlock
  <2>8. PICK r \in ProcRecord : r = [x EXCEPT !.pc = "got", !.b = b, !.nbp = NoBuf]
    <3>1. [x EXCEPT !.pc = "got", !.b = b, !.nbp = NoBuf] \in ProcRecord
      BY DEF ProcRecord
    <3> QED
      BY <3>1
  <2>9. /\ r.pc = "got" /\ r.b = b /\ r.nbp = NoBuf /\ r.bp = x.bp /\ r.call = x.call /\ r.blk = x.blk /\ r.ra = x.ra
    BY <2>8 DEF ProcRecord
  <2>10. pr' = [pr EXCEPT ![p] = r] /\ pr'[p] = r
    BY <1>1, <1>4, <1>7, <2>1, <2>8
  <2>11. Owned(p)' = Owned(p)
    <3>1. Owned(p)' = {r.bp, b} \ {NoBuf}
      BY <2>9, <2>10 DEF Owned
    <3>2. Owned(p) = {x.bp, b} \ {NoBuf}
      BY <1>1, <2>1 DEF Owned
    <3> QED
      BY <2>9, <3>1, <3>2
  <2>12. ProcFrame(p)
    <3>1. CallOK(r) /\ PlacesOK(r)
      BY <1>2, <2>1, <2>9 DEF CallOK, PlacesOK, InGetblk, InBiowait, InBlkflush, InBflush
    <3>2. r.bp # NoBuf => /\ "BUSY" \in c'.buf[r.bp].flags /\ c'.buf[r.bp].blkno # NoBlock
                          /\ r.bp \in ToSet(io') \/ "DONE" \in c'.buf[r.bp].flags
      <4> SUFFICES ASSUME r.bp # NoBuf
                   PROVE  /\ "BUSY" \in c'.buf[r.bp].flags /\ c'.buf[r.bp].blkno # NoBlock
                          /\ r.bp \in ToSet(io') \/ "DONE" \in c'.buf[r.bp].flags
        OBVIOUS
      <4>1. pr[p].bp # NoBuf /\ pr[p].bp \notin {b} /\ pr[p].pc # "hold" /\ r.bp = pr[p].bp
        BY <1>1, <2>2, <2>9
      <4>2. \A a \in Bufs \ {b} : c'.buf[a] = c.buf[a]
        BY <2>6, <2>7
      <4>3. ToSet(io) \subseteq ToSet(io')
        BY <1>3
      <4> QED
        BY <4>1, <4>2, <4>3, BpKept
    <3>3. r.b \notin ToSet(io') /\ r.b # r.bp /\ "BUSY" \in c'.buf[r.b].flags /\ c'.buf[r.b].blkno = r.blk
      BY <1>3, <2>2, <2>4, <2>6, <2>7, <2>9
    <3>4. HeldOK(pr[p])' /\ WokenOK(pr[p])' /\ CallOK(pr[p])' /\ PlacesOK(pr[p])'
      BY <2>9, <2>10, <3>1, <3>2, <3>3 DEF HeldOK, WokenOK, Is
    <3> QED
      BY <1>1, <1>2, <1>3, <2>9, <2>10, <3>4 DEF ProcFrame
  <2>13. CountFrame(p, {b})
    <3>1. AsyncSame(b)
      BY <1>3, <2>4 DEF AsyncSame, AsyncWrite
    <3> QED
      BY <1>1, <1>3, <2>9, <2>10, <3>1 DEF CountFrame
  <2>14. OnlyBuffer(p, b) /\ c'.wanted = c.wanted /\ (c.free = <<>> => c'.free = <<>>)
    BY <1>3, <1>4, <2>6, <2>7, <2>11 DEF OnlyBuffer
  <2>15. Touched(p, b)
    <3>1. \A q \in Procs \ {p} : b \notin Owned(q)
      BY <2>3 DEF BioInv, ProcInv, BufsOK
    <3>2. b \notin ToSet(c'.free) /\ b \notin ToSet(io') /\ b \in Owned(p)'
      BY <1>3, <2>3, <2>4, <2>6, <2>7, <2>11
    <3> QED
      BY <1>2, <2>4, <2>6, <2>7, <3>1, <3>2 DEF Touched, PointOK
  <2>16. Cached(c'.buf[b].blkno) = {}
    BY <1>1, <1>7, <2>6, <2>7 DEF incore
  <2>17. MemoryAccounted'
    <3>1. \A a \in Bufs : c'.buf[a].bufsize = c.buf[a].bufsize
      BY <2>6, <2>7
    <3>2. c'.bufsize = c.bufsize
      BY <2>6, <2>7
    <3> QED
      BY <1>4, <3>1, <3>2, MemoryKept
  <2>18. pr' = [pr EXCEPT ![p] = r]
    BY <2>10, Zenon
  <2> QED
    BY <1>1, <2>2, <2>12, <2>13, <2>14, <2>15, <2>16, <2>17, <2>18, TouchStep
<1> QED
  BY <1>5, <1>6, <1>7 DEF GetblkSearch

\* The buffer found is taken for p.
LEMMA FoundFacts ==
    ASSUME BioInv, NEW b \in ToSet(c.free)
    PROVE  \E L \in CacheType :
              /\ L = notavail([c EXCEPT !.buf[b].flags = @ \ {"AGE"}], b)
              /\ L.bufsize = c.bufsize /\ L.wanted = c.wanted
              /\ Once(L.free) /\ ToSet(L.free) = ToSet(c.free) \ {b}
              /\ \A a \in Bufs \ {b} : L.buf[a] = c.buf[a]
              /\ L.buf[b].flags = (c.buf[b].flags \ {"AGE"}) \cup {"BUSY"}
              /\ L.buf[b].blkno = c.buf[b].blkno /\ L.buf[b].bufsize = c.buf[b].bufsize
              /\ L.buf[b].data = c.buf[b].data
<1>1. c \in CacheType /\ Once(c.free) /\ b \in Bufs
  BY FreeFacts DEF BioInv, ProcInv, BufsOK, TypeOK, CacheType
<1>2. PICK F \in SUBSET Flags : F = c.buf[b].flags \ {"AGE"}
  <2>1. c.buf[b].flags \in SUBSET Flags
    BY <1>1, CacheFields
  <2> QED
    BY <2>1
<1>3. PICK K \in CacheType :
         /\ K = Flagged(c, b, F) /\ K.free = c.free /\ K.bufsize = c.bufsize /\ K.wanted = c.wanted
         /\ \A a \in Bufs \ {b} : K.buf[a] = c.buf[a]
         /\ K.buf[b].flags = F /\ K.buf[b].blkno = c.buf[b].blkno /\ K.buf[b].bufsize = c.buf[b].bufsize
         /\ K.buf[b].data = c.buf[b].data
  BY <1>1, FlaggedFacts
<1>4. Once(K.free) /\ b \in ToSet(K.free)
  BY <1>1, <1>3
<1>5. PICK L \in CacheType : L = notavail(K, b)
  BY <1>1, <1>4, TakenFacts
<1>6. /\ L.bufsize = K.bufsize /\ L.wanted = K.wanted
      /\ Once(L.free) /\ ToSet(L.free) = ToSet(K.free) \ {b}
      /\ \A a \in Bufs \ {b} : L.buf[a] = K.buf[a]
      /\ L.buf[b].flags = K.buf[b].flags \cup {"BUSY"} /\ L.buf[b].blkno = K.buf[b].blkno
      /\ L.buf[b].bufsize = K.buf[b].bufsize /\ L.buf[b].data = K.buf[b].data
  BY <1>1, <1>4, <1>5, TakenFacts
<1>7. [c EXCEPT !.buf[b].flags = @ \ {"AGE"}] = K
  BY <1>2, <1>3 DEF Flagged
<1> QED
  BY <1>2, <1>3, <1>5, <1>6, <1>7, ZenonT(60)

\* The new buffer is not needed: it is given up, without a block.
GivenBack(K, b) == brelse([K EXCEPT !.buf[b].flags = {"BUSY"}], b)

LEMMA GivenBackFacts ==
    ASSUME NEW K \in CacheType, NEW b \in Bufs, Once(K.free), b \notin ToSet(K.free)
    PROVE  /\ GivenBack(K, b) \in CacheType
           /\ GivenBack(K, b).bufsize = K.bufsize /\ GivenBack(K, b).wanted = FALSE
           /\ Once(GivenBack(K, b).free) /\ ToSet(GivenBack(K, b).free) = ToSet(K.free) \cup {b}
           /\ \A a \in Bufs \ {b} : GivenBack(K, b).buf[a] = K.buf[a]
           /\ GivenBack(K, b).buf[b].flags = {} /\ GivenBack(K, b).buf[b].blkno = K.buf[b].blkno
           /\ GivenBack(K, b).buf[b].bufsize = K.buf[b].bufsize
<1>1. PICK F \in SUBSET Flags : F = {"BUSY"}
  BY DEF Flags
<1>2. PICK L \in CacheType :
         /\ L = Flagged(K, b, F) /\ L.free = K.free /\ L.bufsize = K.bufsize /\ L.wanted = K.wanted
         /\ \A a \in Bufs \ {b} : L.buf[a] = K.buf[a]
         /\ L.buf[b].flags = F /\ L.buf[b].blkno = K.buf[b].blkno /\ L.buf[b].bufsize = K.buf[b].bufsize
  BY FlaggedFacts
<1>3. Once(L.free) /\ b \notin ToSet(L.free)
  BY <1>2
<1>4. PICK M \in CacheType : M = brelse(L, b)
  BY <1>3, BrelseFacts
<1>5. /\ M.buf = [L.buf EXCEPT ![b] = GivenUp(L.buf[b])]
      /\ M.bufsize = L.bufsize /\ M.wanted = FALSE
      /\ Once(M.free) /\ ToSet(M.free) = ToSet(L.free) \cup {b}
  BY <1>3, <1>4, BrelseFacts
<1>6. L.buf \in [Bufs -> BufRecord] /\ L.buf[b] \in BufRecord
  BY CacheFields
<1>7. (\A a \in Bufs \ {b} : M.buf[a] = L.buf[a]) /\ M.buf[b] = GivenUp(L.buf[b])
  BY <1>5, <1>6
<1>8. PICK x \in BufRecord : x = L.buf[b] /\ x.flags = {"BUSY"}
  BY <1>1, <1>2, <1>6
<1>9. GivenUp(x).flags = {} /\ GivenUp(x).blkno = x.blkno /\ GivenUp(x).bufsize = x.bufsize
  <2>1. GivenUp(x).flags = {}
    BY <1>8 DEF GivenUp, BufRecord
  <2> QED
    BY <2>1, GivenUpFacts
<1>10. GivenBack(K, b) = M
  BY <1>1, <1>2, <1>4 DEF GivenBack, Flagged
<1> QED
  BY <1>2, <1>5, <1>7, <1>8, <1>9, <1>10, ZenonT(60)

LEMMA CheckFacts ==
    ASSUME BioInv, NEW p \in Procs, At(p, "check")
    PROVE  /\ cur \in {p, NoProc} /\ pr[p].pc = "check" /\ pr[p].b \in Bufs
           /\ c.buf[pr[p].b].blkno = pr[p].blk /\ pr[p].blk # NoBlock
           /\ pr[p].call \in {"bread", "breada", "getblk", "ra"}
           /\ pr[p].call \in {"breada", "ra"} => pr[p].ra # NoBlock
           /\ pr[p].bp # NoBuf => pr[p].call = "ra"
           /\ Owned(p) = {pr[p].bp, pr[p].nbp} \ {NoBuf}
           /\ pr[p].nbp # NoBuf => pr[p].nbp # pr[p].bp /\ c.buf[pr[p].nbp].blkno = NoBlock
<1>1. PICK x \in ProcRecord : /\ x = pr[p] /\ CallOK(x) /\ PlacesOK(x) /\ HeldOK(x) /\ cur \in {p, NoProc}
                              /\ x.pc = "check"
  BY ActorFacts DEF At
<1>2. /\ x.call \in {"bread", "breada", "getblk", "ra"} /\ x.blk # NoBlock
      /\ x.call \in {"breada", "ra"} => x.ra # NoBlock
      /\ x.bp # NoBuf => x.call = "ra"
      /\ x.b \in Bufs
  BY <1>1 DEF CallOK, PlacesOK, InGetblk, InBiowait, ProcRecord
<1>3. c.buf[x.b].blkno = x.blk /\ (x.nbp # NoBuf => x.nbp # x.bp /\ c.buf[x.nbp].blkno = NoBlock)
  BY <1>1 DEF HeldOK, PlacesOK
<1>4. Owned(p) = {x.bp, x.nbp} \ {NoBuf}
  BY <1>1 DEF Owned
<1> QED
  BY <1>1, <1>2, <1>3, <1>4

\* The frame of p, which has the buffer b now.
LEMMA HasGot ==
    ASSUME BioInv, NEW p \in Procs, At(p, "check"), NEW b \in Bufs, b = pr[p].b,
           NEW X \in SUBSET Bufs, pr[p].bp \notin X, b \in X,
           NEW r \in ProcRecord, r.pc = "got", r.b = b, r.nbp = NoBuf, r.bp = pr[p].bp,
           r.call = pr[p].call, r.blk = pr[p].blk, r.ra = pr[p].ra,
           pr'[p] = r, cur' = p, io' = io, b \notin ToSet(io),
           \A a \in Bufs \ X : c'.buf[a] = c.buf[a],
           "BUSY" \in c'.buf[b].flags, c'.buf[b].blkno = c.buf[b].blkno
    PROVE  ProcFrame(p) /\ Owned(p)' = {r.bp, b} \ {NoBuf}
<1>1. /\ pr[p].pc = "check" /\ c.buf[b].blkno = pr[p].blk /\ pr[p].blk # NoBlock
      /\ pr[p].call \in {"bread", "breada", "getblk", "ra"}
      /\ pr[p].call \in {"breada", "ra"} => pr[p].ra # NoBlock
      /\ pr[p].bp # NoBuf => pr[p].call = "ra"
  BY CheckFacts
<1>2. b # NoBuf
  BY BioAssumption
<1>3. CallOK(r) /\ PlacesOK(r)
  BY <1>1, <1>2 DEF CallOK, PlacesOK, InGetblk, InBiowait, InBlkflush, InBflush
<1>4. r.bp # NoBuf => /\ "BUSY" \in c'.buf[r.bp].flags /\ c'.buf[r.bp].blkno # NoBlock
                      /\ r.bp \in ToSet(io') \/ "DONE" \in c'.buf[r.bp].flags
  <2> SUFFICES ASSUME r.bp # NoBuf
               PROVE  /\ "BUSY" \in c'.buf[r.bp].flags /\ c'.buf[r.bp].blkno # NoBlock
                      /\ r.bp \in ToSet(io') \/ "DONE" \in c'.buf[r.bp].flags
    OBVIOUS
  <2>1. pr[p].bp # NoBuf /\ pr[p].pc # "hold" /\ ToSet(io) \subseteq ToSet(io')
    BY <1>1
  <2> QED
    BY <2>1, BpKept
<1>5. r.b \notin ToSet(io') /\ r.b # r.bp /\ "BUSY" \in c'.buf[r.b].flags /\ c'.buf[r.b].blkno = r.blk
  BY <1>1
<1>6. HeldOK(pr[p])' /\ WokenOK(pr[p])' /\ CallOK(pr[p])' /\ PlacesOK(pr[p])'
  BY <1>3, <1>4, <1>5 DEF HeldOK, WokenOK, Is
<1>7. Owned(p)' = {r.bp, b} \ {NoBuf}
  BY DEF Owned
<1> QED
  BY <1>1, <1>6, <1>7 DEF ProcFrame

LEMMA GetblkCheckStep ==
    ASSUME BioInv, NEW p \in Procs, GetblkCheck(p)
    PROVE  BioInv'
<1>1. At(p, "check") /\ UNCHANGED <<basyncnt, io, disk>>
  BY DEF GetblkCheck
<1>2. /\ cur \in {p, NoProc} /\ pr[p].pc = "check" /\ pr[p].b \in Bufs
      /\ c.buf[pr[p].b].blkno = pr[p].blk /\ pr[p].blk # NoBlock
      /\ pr[p].call \in {"bread", "breada", "getblk", "ra"}
      /\ Owned(p) = {pr[p].bp, pr[p].nbp} \ {NoBuf}
      /\ pr[p].nbp # NoBuf => pr[p].nbp # pr[p].bp /\ c.buf[pr[p].nbp].blkno = NoBlock
  BY <1>1, CheckFacts
<1>3. PICK b \in Bufs : b = pr[p].b
  BY <1>2
<1>4. /\ c \in CacheType /\ Once(c.free) /\ pr \in [Procs -> ProcRecord] /\ TypeOK /\ MemoryAccounted
      /\ io \in Seq(Bufs) /\ Once(io) /\ NoBuf \notin Bufs
  BY ActorFacts DEF BioInv, ProcInv, BufsOK
<1>5. PICK x \in ProcRecord : x = pr[p]
  BY <1>4
<1>6. CASE Is(b, "BUSY")
  <2>1. c' = [c EXCEPT !.buf[b].flags = @ \cup {"WANTED"}] /\ Sleep(p, b, "search")
    BY <1>3, <1>6 DEF GetblkCheck
  <2>2. At(p, pr[p].pc) /\ c.buf[b].blkno # NoBlock
    BY <1>1, <1>2, <1>3
  <2> QED
    BY <1>1, <1>2, <1>6, <2>1, <2>2, SleepOnBuffer, ZenonT(60)
<1>7. CASE ~Is(b, "BUSY")
  <2>1. b \in ToSet(c.free)
    BY <1>2, <1>3, <1>7, NotBusyIsFree
  <2>2. /\ ~Is(b, "ASYNC") /\ b \notin ToSet(io) /\ ~HasOwner(b) /\ c.buf[b].bufsize # 0
        /\ c.free # <<>> /\ b \notin Owned(p) /\ \A q \in Procs \ {p} : b \notin Owned(q)
    BY <2>1, FreeFacts DEF HasOwner
  <2>3. PICK L \in CacheType :
              /\ L = notavail([c EXCEPT !.buf[b].flags = @ \ {"AGE"}], b)
              /\ L.bufsize = c.bufsize /\ L.wanted = c.wanted
              /\ Once(L.free) /\ ToSet(L.free) = ToSet(c.free) \ {b}
              /\ \A a \in Bufs \ {b} : L.buf[a] = c.buf[a]
              /\ L.buf[b].flags = (c.buf[b].flags \ {"AGE"}) \cup {"BUSY"}
              /\ L.buf[b].blkno = c.buf[b].blkno /\ L.buf[b].bufsize = c.buf[b].bufsize
              /\ L.buf[b].data = c.buf[b].data
    BY <2>1, FoundFacts, SMTT(30)
  <2>4. /\ "BUSY" \in L.buf[b].flags /\ "ASYNC" \notin L.buf[b].flags
        /\ "STALE" \in c.buf[b].flags => "STALE" \in L.buf[b].flags
        /\ "DELWRI" \in L.buf[b].flags => "DONE" \in L.buf[b].flags /\ L.buf[b].data # NoVal
    BY <2>2, <2>3, DelayedFacts DEF Is
  <2>5. pr[p].bp # b /\ pr[p].nbp # b
    BY <1>2, <1>4, <2>2
  <2>6. AsyncSame(b)
    BY <1>1, <2>2 DEF AsyncSame, AsyncWrite
  <2>7. CASE pr[p].nbp = NoBuf
    <3>1. c' = L /\ pr' = [pr EXCEPT ![p].pc = "got"] /\ cur' = p
      BY <1>3, <1>7, <2>3, <2>7 DEF GetblkCheck, Goto
    <3>2. PICK r \in ProcRecord : r = [x EXCEPT !.pc = "got"]
      <4>1. [x EXCEPT !.pc = "got"] \in ProcRecord
        BY DEF ProcRecord
      <4> QED
        BY <4>1
    <3>3. /\ r.pc = "got" /\ r.b = b /\ r.nbp = NoBuf /\ r.bp = pr[p].bp /\ r.call = pr[p].call /\ r.blk = pr[p].blk
          /\ r.ra = pr[p].ra
      BY <1>3, <1>5, <2>7, <3>2 DEF ProcRecord
    <3>4. pr' = [pr EXCEPT ![p] = r] /\ pr'[p] = r
      BY <1>4, <1>5, <3>1, <3>2
    <3>5. ProcFrame(p) /\ Owned(p)' = {r.bp, b} \ {NoBuf}
      <4>1. PICK X \in SUBSET Bufs : X = {b}
        OBVIOUS
      <4>2. /\ pr[p].bp \notin X /\ b \in X /\ io' = io /\ b \notin ToSet(io)
            /\ \A a \in Bufs \ X : c'.buf[a] = c.buf[a]
            /\ "BUSY" \in c'.buf[b].flags /\ c'.buf[b].blkno = c.buf[b].blkno
        BY <1>1, <2>2, <2>3, <2>4, <2>5, <3>1, <4>1
      <4>3. pr'[p] = r /\ cur' = p
        BY <3>1, <3>4
      <4> QED
        BY <1>1, <1>3, <3>3, <4>2, <4>3, HasGot
    <3>6. \A a \in Bufs \ {b} : (a \in Owned(p)') <=> (a \in Owned(p))
      BY <1>2, <2>7, <3>3, <3>5
    <3>7. CountFrame(p, {b})
      BY <1>1, <1>2, <2>6, <3>3, <3>4, Zenon DEF CountFrame
    <3>8. KeepsBlock(b) /\ c'.buf[b].blkno # NoBlock /\ b \in Owned(p)'
      BY <1>2, <1>3, <1>4, <2>3, <2>4, <3>1, <3>5, ZenonT(60) DEF KeepsBlock
    <3>9. /\ c' \in CacheType /\ Once(c'.free) /\ ToSet(c'.free) = ToSet(c.free) \ {b}
          /\ c'.wanted = c.wanted /\ c'.bufsize = c.bufsize
          /\ \A a \in Bufs \ {b} : c'.buf[a] = c.buf[a]
          /\ c'.buf[b].bufsize = c.buf[b].bufsize /\ "BUSY" \in c'.buf[b].flags /\ "ASYNC" \notin c'.buf[b].flags
          /\ "DELWRI" \in c'.buf[b].flags => "DONE" \in c'.buf[b].flags /\ c'.buf[b].data # NoVal
      BY <2>3, <2>4, <3>1
    <3>10. pr' = [pr EXCEPT ![p] = r] /\ cur' = p /\ io' = io /\ basyncnt' = basyncnt /\ disk' = disk
      BY <1>1, <3>1, <3>4
    <3> QED
      BY <1>2, <2>1, <3>5, <3>6, <3>7, <3>8, <3>9, <3>10, TakeStep
  <2>8. CASE pr[p].nbp # NoBuf
    <3>1. PICK n \in Bufs : n = pr[p].nbp
      BY <1>5, <2>8 DEF ProcRecord
    <3>2. n # b /\ n # pr[p].bp /\ c.buf[n].blkno = NoBlock /\ n \in Owned(p) /\ HasOwner(n)
      BY <1>2, <1>4, <2>5, <2>8, <3>1 DEF HasOwner
    <3>3. n \notin ToSet(c.free) /\ n \notin ToSet(io) /\ c.buf[n].bufsize # 0
      <4>1. PointOK(c.buf[n], n \in ToSet(c.free), n \in ToSet(io), HasOwner(n))
        BY DEF BioInv, ProcInv, BufsOK
      <4> QED
        BY <3>2, <4>1 DEF PointOK
    <3>4. Once(L.free) /\ n \notin ToSet(L.free)
      BY <2>3, <3>3
    <3>5. PICK M \in CacheType : M = GivenBack(L, n)
      BY <3>4, GivenBackFacts
    <3>6. /\ M.bufsize = L.bufsize /\ M.wanted = FALSE
          /\ Once(M.free) /\ ToSet(M.free) = ToSet(L.free) \cup {n}
          /\ \A a \in Bufs \ {n} : M.buf[a] = L.buf[a]
          /\ M.buf[n].flags = {} /\ M.buf[n].blkno = L.buf[n].blkno
          /\ M.buf[n].bufsize = L.buf[n].bufsize
      <4>1. L \in CacheType /\ n \in Bufs
        OBVIOUS
      <4> QED
        <5>1. /\ GivenBack(L, n).bufsize = L.bufsize /\ GivenBack(L, n).wanted = FALSE
              /\ Once(GivenBack(L, n).free) /\ ToSet(GivenBack(L, n).free) = ToSet(L.free) \cup {n}
          BY <3>4, <4>1, GivenBackFacts
        <5>2. \A a \in Bufs \ {n} : GivenBack(L, n).buf[a] = L.buf[a]
          BY <3>4, <4>1, GivenBackFacts
        <5>3. /\ GivenBack(L, n).buf[n].flags = {} /\ GivenBack(L, n).buf[n].blkno = L.buf[n].blkno
              /\ GivenBack(L, n).buf[n].bufsize = L.buf[n].bufsize
          BY <3>4, <4>1, GivenBackFacts, ZenonT(60)
        <5> QED
          BY <3>5, <5>1, <5>2, <5>3
    <3>7. PICK r \in ProcRecord : r = [x EXCEPT !.pc = "got", !.nbp = NoBuf]
      <4>1. [x EXCEPT !.pc = "got", !.nbp = NoBuf] \in ProcRecord
        BY DEF ProcRecord
      <4> QED
        BY <4>1
    <3>8. /\ r.pc = "got" /\ r.b = b /\ r.nbp = NoBuf /\ r.bp = pr[p].bp /\ r.call = pr[p].call /\ r.blk = pr[p].blk
          /\ r.ra = pr[p].ra
      BY <1>3, <1>5, <3>7 DEF ProcRecord
    <3> DEFINE f == [pr EXCEPT ![p] = r]
               C == IF c.wanted THEN {NoBuf} ELSE {}
    <3>9. f \in [Procs -> ProcRecord] /\ f[p] = r /\ \A q \in Procs \ {p} : f[q] = pr[q]
      BY <1>4, SMTT(30)
    <3>10. /\ c' = brelse([L EXCEPT !.buf[n].flags = {"BUSY"}], n)
           /\ pr' = wakeprocs([pr EXCEPT ![p].pc = "got", ![p].nbp = NoBuf], C) /\ cur' = p
      BY <1>3, <1>7, <2>3, <2>8, <3>1 DEF GetblkCheck
    <3>11. c' = M
      BY <3>5, <3>10 DEF GivenBack
    <3>12. f = [pr EXCEPT ![p].pc = "got", ![p].nbp = NoBuf]
      BY <1>4, <1>5, <3>7
    <3> HIDE DEF f, C
    <3>13. /\ pr' \in [Procs -> ProcRecord] /\ pr'[p] = r
           /\ \A q \in Procs \ {p} : Woke(pr[q], pr'[q]) /\ (pr'[q].pc = "asleep" => pr[q].chan \notin C)
      <4>1. pr' = wakeprocs(f, C)
        BY <3>10, <3>12
      <4>2. /\ wakeprocs(f, C) \in [Procs -> ProcRecord]
            /\ \A q \in Procs : /\ Woke(f[q], wakeprocs(f, C)[q])
                                /\ f[q].pc # "asleep" => wakeprocs(f, C)[q] = f[q]
                                /\ wakeprocs(f, C)[q].pc = "asleep" => f[q].chan \notin C
        BY <3>9, WakeFacts, Zenon
      <4> QED
        BY <3>8, <3>9, <4>1, <4>2
    <3>14. /\ c' \in CacheType /\ Once(c'.free) /\ ToSet(c'.free) = (ToSet(c.free) \ {b}) \cup {n}
           /\ c'.bufsize = c.bufsize
           /\ \A a \in Bufs \ {b, n} : c'.buf[a] = c.buf[a]
           /\ "BUSY" \in c'.buf[b].flags /\ "ASYNC" \notin c'.buf[b].flags
           /\ "STALE" \in c.buf[b].flags => "STALE" \in c'.buf[b].flags
           /\ "DELWRI" \in c'.buf[b].flags => "DONE" \in c'.buf[b].flags /\ c'.buf[b].data # NoVal
           /\ c'.buf[b].blkno = c.buf[b].blkno /\ c'.buf[b].bufsize = c.buf[b].bufsize
           /\ c'.buf[n].flags = {} /\ c'.buf[n].blkno = NoBlock /\ c'.buf[n].bufsize = c.buf[n].bufsize
      <4>1. \A a \in Bufs \ {b, n} : M.buf[a] = L.buf[a] /\ L.buf[a] = c.buf[a]
        BY <2>3, <3>6
      <4>2. M.buf[b] = L.buf[b] /\ L.buf[n] = c.buf[n]
        BY <2>3, <3>2, <3>6
      <4> QED
        BY <2>3, <2>4, <3>2, <3>6, <3>11, <4>1, <4>2, ZenonT(60)
    <3>15. ProcFrame(p) /\ Owned(p)' = {r.bp, b} \ {NoBuf}
      <4>1. /\ {b, n} \in SUBSET Bufs /\ pr[p].bp \notin {b, n} /\ b \in {b, n} /\ io' = io /\ b \notin ToSet(io)
        BY <1>1, <2>2, <2>5, <3>2
      <4> QED
        BY <1>1, <1>3, <3>7, <3>8, <3>10, <3>13, <3>14, <4>1, HasGot, ZenonT(60)
    <3>16. BufFrame(p, {b, n})
      <4>1. TypeOK'
        BY <1>1, <1>4, <3>10, <3>13, <3>14 DEF TypeOK, CacheType
      <4>2. \A a \in Bufs \ {b, n} : Untouched(a) /\ ((a \in Owned(p)') <=> (a \in Owned(p)))
        <5>1. \A a \in Bufs \ {b, n} : (a \in Owned(p)') <=> (a \in Owned(p))
          BY <1>2, <3>1, <3>8, <3>15
        <5>2. \A a \in Bufs \ {b, n} : Untouched(a)
          BY <1>1, <3>14, ActorFacts DEF Untouched
        <5> QED
          BY <5>1, <5>2
      <4>3. Touched(p, b)
        <5>1. b \notin ToSet(c'.free) /\ b \notin ToSet(io') /\ b \in Owned(p)'
          BY <1>1, <1>4, <2>2, <3>2, <3>14, <3>15
        <5> QED
          BY <1>2, <1>3, <2>2, <3>14, <5>1 DEF Touched, PointOK
      <4>4. Touched(p, n)
        <5>1. \A q \in Procs \ {p} : n \notin Owned(q)
          BY <3>2 DEF BioInv, ProcInv, BufsOK
        <5>2. n \in ToSet(c'.free) /\ n \notin ToSet(io') /\ n \notin Owned(p)'
          BY <1>1, <3>2, <3>3, <3>8, <3>14, <3>15
        <5> QED
          BY <3>3, <3>14, <5>1, <5>2 DEF Touched, PointOK
      <4> QED
        BY <1>1, <1>4, <3>14, <4>1, <4>2, <4>3, <4>4 DEF BufFrame
    <3>17. OtherFrame(p, {b, n})
      <4>1. ASSUME NEW q \in Procs \ {p}, pr'[q].pc = "asleep", pr[q].pc = "asleep" PROVE StillAsleep(q, {b, n})
        <5>1. WokenOK(pr[q]) /\ pr[q].chan \notin C
          BY <3>13, <4>1 DEF BioInv, ProcInv
        <5>2. pr[q].chan # NoBuf
          BY <4>1, <5>1 DEF WokenOK, C
        <5>3. pr[q].chan # b /\ pr[q].chan # n
          BY <1>7, <3>2, <4>1, <5>1, <5>2 DEF WokenOK
        <5> QED
          BY <5>2, <5>3 DEF StillAsleep
      <4> QED
        BY <3>13, <4>1 DEF OtherFrame, StillAsleep
    <3>18. CountFrame(p, {b, n})
      <4>1. AsyncSame(n)
        BY <1>1, <3>3 DEF AsyncSame, AsyncWrite
      <4> QED
        BY <1>1, <1>2, <2>6, <3>8, <3>13, <4>1 DEF CountFrame
    <3>19. KeepsBlock(b) /\ KeepsBlock(n)
      BY <3>14 DEF KeepsBlock
    <3>20. MemoryAccounted'
      <4>1. \A a \in Bufs : c'.buf[a].bufsize = c.buf[a].bufsize
        BY <3>14
      <4> QED
        BY <1>4, <3>14, <4>1, MemoryKept
    <3>21. {b, n} \in SUBSET Bufs /\ \A a \in {b, n} : KeepsBlock(a)
      BY <3>19
    <3> QED
      BY <1>2, <3>15, <3>16, <3>17, <3>18, <3>20, <3>21, BioStep
  <2> QED
    BY <2>7, <2>8
<1> QED
  BY <1>6, <1>7, ZenonT(60)

-----------------------------------------------------------------------------
(***************************************************************************)
(* Writing.                                                                *)
(***************************************************************************)
LEMMA BwriteStep ==
    ASSUME BioInv, NEW p \in Procs, Bwrite(p)
    PROVE  BioInv'
<1>1. At(p, "hold") /\ pr[p].pc = "hold" /\ cur' = p /\ UNCHANGED <<basyncnt, disk>>
  BY DEF Bwrite, At
<1>2. PICK b \in Bufs : b = pr[p].bp
  BY <1>1, HoldFacts
<1>3. /\ cur \in {p, NoProc} /\ pr[p].nbp = NoBuf /\ Owned(p) = {b} /\ b \notin ToSet(io)
      /\ c.buf[b].blkno # NoBlock /\ pr[p].call # "close" /\ Is(b, "BUSY") /\ b # NoBuf
  BY <1>1, <1>2, HoldFacts, BioAssumption
<1>4. PICK v \in Vals, async \in BOOLEAN :
        /\ c' = Written([c EXCEPT !.buf[b].data = v,
                               !.buf[b].flags = @ \cup (IF async THEN {"ASYNC"} ELSE {})], b)
        /\ pr' = IF async THEN [pr EXCEPT ![p] = [Idle EXCEPT !.pc = "asyncnt"]]
                          ELSE [pr EXCEPT ![p] = [Idle EXCEPT !.pc = "iowait", !.call = "write", !.bp = b]]
  BY <1>2 DEF Bwrite
<1>5. io' = Append(io, b)
  BY <1>2 DEF Bwrite
<1>6. /\ c \in CacheType /\ Once(c.free) /\ pr \in [Procs -> ProcRecord] /\ TypeOK /\ MemoryAccounted
      /\ io \in Seq(Bufs) /\ Once(io) /\ \A q \in Procs \ {p} : b \notin Owned(q)
  BY <1>3, ActorFacts DEF BioInv, ProcInv, BufsOK
<1>7. b \notin ToSet(c.free) /\ c.buf[b].bufsize # 0 /\ "ASYNC" \notin c.buf[b].flags
  <2>1. PointOK(c.buf[b], b \in ToSet(c.free), b \in ToSet(io), HasOwner(b)) /\ HasOwner(b)
    BY <1>3 DEF BioInv, ProcInv, BufsOK, HasOwner
  <2> QED
    BY <1>3, <2>1 DEF PointOK
<1>8. PICK F \in SUBSET Flags : F = c.buf[b].flags \cup (IF async THEN {"ASYNC"} ELSE {})
  <2>1. c.buf[b].flags \in SUBSET Flags
    BY <1>6, CacheFields
  <2>2. (IF async THEN {"ASYNC"} ELSE {}) \in SUBSET Flags
    BY DEF Flags
  <2>3. c.buf[b].flags \cup (IF async THEN {"ASYNC"} ELSE {}) \in SUBSET Flags
    BY <2>1, <2>2
  <2> QED
    BY <2>3
<1>9. PICK K \in CacheType :
         /\ K = Changed(c, b, v, F) /\ K.free = c.free /\ K.bufsize = c.bufsize /\ K.wanted = c.wanted
         /\ \A a \in Bufs \ {b} : K.buf[a] = c.buf[a]
         /\ K.buf[b].flags = F /\ K.buf[b].blkno = c.buf[b].blkno /\ K.buf[b].bufsize = c.buf[b].bufsize
         /\ K.buf[b].data = v
  <2>1. v \in Vals \cup {NoVal}
    OBVIOUS
  <2> QED
    BY <1>6, <2>1, ChangedFacts
<1>10. PICK M \in CacheType :
         /\ M = Written(K, b) /\ M.free = K.free /\ M.bufsize = K.bufsize /\ M.wanted = K.wanted
         /\ \A a \in Bufs \ {b} : M.buf[a] = K.buf[a]
         /\ M.buf[b].flags = K.buf[b].flags \ {"READ", "DONE", "ERROR", "DELWRI"}
         /\ M.buf[b].blkno = K.buf[b].blkno /\ M.buf[b].bufsize = K.buf[b].bufsize
         /\ M.buf[b].data = K.buf[b].data
  BY WrittenFacts, ZenonT(60)
<1>11. c' = M
  BY <1>4, <1>8, <1>9, <1>10 DEF Changed
<1>12. /\ c' \in CacheType /\ c'.free = c.free /\ c'.bufsize = c.bufsize /\ c'.wanted = c.wanted
       /\ \A a \in Bufs \ {b} : c'.buf[a] = c.buf[a]
       /\ c'.buf[b].flags = F \ {"READ", "DONE", "ERROR", "DELWRI"}
       /\ c'.buf[b].blkno = c.buf[b].blkno /\ c'.buf[b].bufsize = c.buf[b].bufsize
       /\ c'.buf[b].data # NoVal
  BY <1>9, <1>10, <1>11, BioAssumption
<1>13. /\ {"READ", "DONE", "DELWRI"} \cap c'.buf[b].flags = {} /\ "BUSY" \in c'.buf[b].flags
       /\ \A f \in {"WANTED", "STALE"} : f \in c.buf[b].flags => f \in c'.buf[b].flags
       /\ ("ASYNC" \in c'.buf[b].flags) <=> async
  BY <1>3, <1>7, <1>8, <1>12 DEF Is
<1>14. ToSet(io') = ToSet(io) \cup {b} /\ io' \in Seq(Bufs) /\ Once(io')
  BY <1>3, <1>5, <1>6, Appended
<1>15. PICK r \in ProcRecord : /\ pr' = [pr EXCEPT ![p] = r] /\ r.nbp = NoBuf /\ r.call # "close" /\ r.pc \notin {"got", "asleep"}
         /\ \/ async /\ r.pc = "asyncnt" /\ r.then = "user" /\ r.bp = NoBuf
            \/ ~async /\ r.pc = "iowait" /\ r.call = "write" /\ r.bp = b
  <2>1. CASE async
    <3>1. PICK r \in ProcRecord : r = [Idle EXCEPT !.pc = "asyncnt"]
      <4>1. [Idle EXCEPT !.pc = "asyncnt"] \in ProcRecord
        BY DEF Idle, ProcRecord
      <4> QED
        BY <4>1
    <3>2. r.pc = "asyncnt" /\ r.then = "user" /\ r.bp = NoBuf /\ r.nbp = NoBuf /\ r.call = "none"
      BY <3>1 DEF Idle
    <3> QED
      BY <1>4, <2>1, <3>1, <3>2
  <2>2. CASE ~async
    <3>1. PICK r \in ProcRecord : r = [Idle EXCEPT !.pc = "iowait", !.call = "write", !.bp = b]
      <4>1. [Idle EXCEPT !.pc = "iowait", !.call = "write", !.bp = b] \in ProcRecord
        BY DEF Idle, ProcRecord
      <4> QED
        BY <4>1
    <3>2. r.pc = "iowait" /\ r.bp = b /\ r.nbp = NoBuf /\ r.call = "write"
      BY <3>1 DEF Idle
    <3> QED
      BY <1>4, <2>2, <3>1, <3>2
  <2> QED
    BY <2>1, <2>2
<1>16. pr'[p] = r
  BY <1>6, <1>15
<1>17. Owned(p)' = IF async THEN {} ELSE {b}
  <2>1. Owned(p)' = {r.bp, r.nbp} \ {NoBuf}
    BY <1>15, <1>16 DEF Owned
  <2> QED
    BY <1>3, <1>15, <2>1
<1>18. ProcFrame(p)
  <2>1. CallOK(r) /\ PlacesOK(r)
    BY <1>3, <1>15 DEF CallOK, PlacesOK, InGetblk, InBiowait, InBlkflush, InBflush
  <2>2. HeldOK(pr[p])'
    BY <1>3, <1>12, <1>13, <1>14, <1>15, <1>16 DEF HeldOK, Is
  <2>3. WokenOK(pr[p])' /\ CallOK(pr[p])' /\ PlacesOK(pr[p])'
    BY <1>15, <1>16, <2>1 DEF WokenOK
  <2> QED
    BY <1>1, <1>15, <1>16, <2>2, <2>3 DEF ProcFrame
<1>19. CountFrame(p, {b})
  <2>1. ~AsyncWrite(b)
    BY <1>3 DEF AsyncWrite
  <2>2. AsyncWrite(b)' <=> async
    BY <1>13, <1>14 DEF AsyncWrite, Is
  <2> QED
    BY <1>1, <1>15, <1>16, <2>1, <2>2 DEF CountFrame, AsyncSame
<1>20. OnlyBuffer(p, b)
  BY <1>1, <1>3, <1>6, <1>12, <1>14, <1>17 DEF OnlyBuffer
<1>21. Touched(p, b)
  <2>1. b \notin ToSet(c'.free) /\ b \in ToSet(io') /\ (b \in Owned(p)' <=> ~async)
    BY <1>7, <1>12, <1>14, <1>17
  <2> QED
    BY <1>3, <1>6, <1>7, <1>12, <1>13, <2>1 DEF Touched, PointOK
<1>22. KeepsBlock(b)
  BY <1>12, <1>13 DEF KeepsBlock
<1>23. MemoryAccounted'
  <2>1. \A x \in Bufs : c'.buf[x].bufsize = c.buf[x].bufsize
    BY <1>12
  <2> QED
    BY <1>6, <1>12, <2>1, MemoryKept
<1>24. /\ c'.wanted = c.wanted /\ (c.free = <<>> => c'.free = <<>>) /\ pr' = [pr EXCEPT ![p] = r]
       /\ Is(b, "BUSY") /\ Is(b, "WANTED") /\ c.buf[b].blkno # NoBlock =>
              /\ "BUSY" \in c'.buf[b].flags /\ "WANTED" \in c'.buf[b].flags
              /\ c'.buf[b].blkno # NoBlock
  BY <1>12, <1>13, <1>15 DEF Is
<1> QED
  BY <1>3, <1>18, <1>19, <1>20, <1>21, <1>22, <1>23, <1>24, TouchStep

LEMMA BlkflushCheckStep ==
    ASSUME BioInv, NEW p \in Procs, BlkflushCheck(p)
    PROVE  BioInv'
<1>1. PICK x \in ProcRecord : /\ x = pr[p] /\ CallOK(x) /\ PlacesOK(x) /\ HeldOK(x) /\ cur \in {p, NoProc}
                              /\ x.pc = "blkcheck"
  BY ActorFacts DEF BlkflushCheck, At
<1>2. PICK b \in Bufs : b = x.b
  BY <1>1 DEF CallOK, ProcRecord
<1>3. /\ x.call = "blkflush" /\ x.blk # NoBlock /\ x.bp = NoBuf /\ x.nbp = NoBuf
      /\ c.buf[b].blkno = x.blk /\ b # NoBuf
  BY <1>1, <1>2, BioAssumption DEF CallOK, PlacesOK, HeldOK, InGetblk, InBiowait, InBlkflush
<1>4. At(p, pr[p].pc) /\ UNCHANGED <<basyncnt, disk>>
  BY <1>1 DEF BlkflushCheck
<1>5. CASE Is(b, "BUSY")
  <2>1. c' = [c EXCEPT !.buf[b].flags = @ \cup {"WANTED"}] /\ Sleep(p, b, "blkflush") /\ io' = io
    BY <1>1, <1>2, <1>5 DEF BlkflushCheck
  <2>2. c.buf[b].blkno # NoBlock /\ pr[p].pc = "blkcheck" /\ UNCHANGED <<basyncnt, io, disk>>
    BY <1>1, <1>3, <1>4, <2>1
  <2> QED
    BY <1>4, <1>5, <2>1, <2>2, SleepOnBuffer
<1>6. CASE ~Is(b, "BUSY") /\ ~Is(b, "DELWRI")
  <2>1. pr' = [pr EXCEPT ![p].pc = "flushed"] /\ cur' = p /\ UNCHANGED <<c, io>>
    BY <1>1, <1>2, <1>6 DEF BlkflushCheck, Goto
  <2>2. PICK r \in ProcRecord : r = [x EXCEPT !.pc = "flushed"]
    <3>1. [x EXCEPT !.pc = "flushed"] \in ProcRecord
      BY DEF ProcRecord
    <3> QED
      BY <3>1
  <2>3. /\ r.pc = "flushed" /\ r.b = x.b /\ r.bp = x.bp /\ r.nbp = x.nbp /\ r.call = x.call /\ r.blk = x.blk
    BY <2>2 DEF ProcRecord
  <2>4. CallOK(r) /\ PlacesOK(r) /\ HeldOK(r)
    BY <1>3, <2>3 DEF CallOK, PlacesOK, HeldOK, InGetblk, InBiowait, InBlkflush, InBflush
  <2>5. pr' = [pr EXCEPT ![p] = r] /\ UNCHANGED <<c, io, disk>>
    BY <1>1, <1>4, <2>1, <2>2
  <2> QED
    BY <1>1, <1>4, <2>1, <2>3, <2>4, <2>5, GotoStep
<1>7. CASE ~Is(b, "BUSY") /\ Is(b, "DELWRI")
  <2>1. /\ c' = Written(notavail(c, b), b) /\ io' = Append(io, b) /\ cur' = p
        /\ pr' = [pr EXCEPT ![p].pc = "iowait", ![p].bp = b, ![p].b = NoBuf]
    BY <1>1, <1>2, <1>7 DEF BlkflushCheck
  <2>2. b \in ToSet(c.free)
    BY <1>3, <1>7, NotBusyIsFree
  <2>3. ~Is(b, "ASYNC") /\ b \notin ToSet(io) /\ b # NoBuf
    BY <1>3, <2>2, FreeFacts
  <2>4. c \in CacheType /\ Once(c.free) /\ io \in Seq(Bufs) /\ pr \in [Procs -> ProcRecord]
    BY ActorFacts DEF BioInv, ProcInv, BufsOK
  <2>5. PICK L \in CacheType : L = notavail(c, b)
    BY <2>2, <2>4, TakenFacts
  <2>6. /\ L.bufsize = c.bufsize /\ L.wanted = c.wanted
        /\ Once(L.free) /\ ToSet(L.free) = ToSet(c.free) \ {b}
        /\ \A a \in Bufs \ {b} : L.buf[a] = c.buf[a]
        /\ L.buf[b].flags = c.buf[b].flags \cup {"BUSY"} /\ L.buf[b].blkno = c.buf[b].blkno
        /\ L.buf[b].bufsize = c.buf[b].bufsize /\ L.buf[b].data = c.buf[b].data
    BY <2>2, <2>4, <2>5, TakenFacts
  <2>7. PICK M \in CacheType :
         /\ M = Written(L, b) /\ M.free = L.free /\ M.bufsize = L.bufsize /\ M.wanted = L.wanted
         /\ \A a \in Bufs \ {b} : M.buf[a] = L.buf[a]
         /\ M.buf[b].flags = L.buf[b].flags \ {"READ", "DONE", "ERROR", "DELWRI"}
         /\ M.buf[b].blkno = L.buf[b].blkno /\ M.buf[b].bufsize = L.buf[b].bufsize
         /\ M.buf[b].data = L.buf[b].data
    BY WrittenFacts
  <2>8. c' = M
    BY <2>1, <2>5, <2>7
  <2>9. /\ c' \in CacheType /\ Once(c'.free) /\ ToSet(c'.free) = ToSet(c.free) \ {b}
        /\ c'.wanted = c.wanted /\ c'.bufsize = c.bufsize
        /\ \A a \in Bufs \ {b} : c'.buf[a] = c.buf[a]
        /\ c'.buf[b].bufsize = c.buf[b].bufsize /\ c'.buf[b].blkno = c.buf[b].blkno
        /\ "BUSY" \in c'.buf[b].flags /\ "ASYNC" \notin c'.buf[b].flags
        /\ {"READ", "DONE", "DELWRI"} \cap c'.buf[b].flags = {}
        /\ "STALE" \in c.buf[b].flags => "STALE" \in c'.buf[b].flags
        /\ c'.buf[b].data = c.buf[b].data
    BY <2>3, <2>6, <2>7, <2>8 DEF Is
  <2>10. PICK r \in ProcRecord : r = [x EXCEPT !.pc = "iowait", !.bp = b, !.b = NoBuf]
    <3>1. [x EXCEPT !.pc = "iowait", !.bp = b, !.b = NoBuf] \in ProcRecord
      BY DEF ProcRecord
    <3> QED
      BY <3>1
  <2>11. /\ r.pc = "iowait" /\ r.bp = b /\ r.nbp = NoBuf /\ r.call = "blkflush" /\ r.blk = x.blk
    BY <1>3, <2>10 DEF ProcRecord
  <2>12. pr' = [pr EXCEPT ![p] = r] /\ pr'[p] = r
    BY <1>1, <2>1, <2>4, <2>10
  <2>13. Owned(p) = {} /\ Owned(p)' = {b}
    <3>1. Owned(p) = {x.bp, x.nbp} \ {NoBuf}
      BY <1>1 DEF Owned
    <3>2. Owned(p)' = {r.bp, r.nbp} \ {NoBuf}
      BY <2>11, <2>12 DEF Owned
    <3> QED
      BY <1>3, <2>11, <3>1, <3>2
  <2>14. ToSet(io') = ToSet(io) \cup {b}
    BY <2>1, <2>4, Appended
  <2>15. ProcFrame(p)
    <3>1. CallOK(r) /\ PlacesOK(r)
      BY <1>3, <2>11 DEF CallOK, PlacesOK, InGetblk, InBiowait, InBlkflush, InBflush
    <3>2. HeldOK(pr[p])'
      BY <1>3, <2>9, <2>11, <2>12, <2>14 DEF HeldOK, Is
    <3>3. WokenOK(pr[p])' /\ CallOK(pr[p])' /\ PlacesOK(pr[p])'
      BY <2>11, <2>12, <3>1 DEF WokenOK
    <3> QED
      BY <1>1, <2>1, <2>11, <2>12, <3>2, <3>3 DEF ProcFrame
  <2>16. CountFrame(p, {b})
    <3>1. AsyncSame(b)
      BY <2>3, <2>9 DEF AsyncSame, AsyncWrite, Is
    <3> QED
      BY <1>1, <1>4, <2>11, <2>12, <3>1 DEF CountFrame
  <2>17. KeepsBlock(b) /\ c'.buf[b].blkno # NoBlock /\ "DELWRI" \notin c'.buf[b].flags /\ "DONE" \notin c'.buf[b].flags
    BY <1>3, <2>9 DEF KeepsBlock
  <2>18. \A a \in Bufs \ {b} : (a \in Owned(p)') <=> (a \in Owned(p))
    BY <2>13
  <2>19. /\ pr' = [pr EXCEPT ![p] = r] /\ cur' = p /\ io' = Append(io, b) /\ basyncnt' = basyncnt /\ disk' = disk
         /\ b \in Owned(p)' /\ c'.buf[b].data # NoVal
    <3>1. c.buf[b].data # NoVal
      BY <1>7, DelayedFacts DEF Is
    <3> QED
      BY <1>4, <2>1, <2>9, <2>12, <2>13, <3>1
  <2> QED
    BY <1>1, <2>2, <2>9, <2>15, <2>16, <2>17, <2>18, <2>19, TakeStep
<1> QED
  BY <1>5, <1>6, <1>7

-----------------------------------------------------------------------------
(***************************************************************************)
(* The interrupt, behind the back of the process that has the processor.   *)
(***************************************************************************)
LEMMA InterruptStep ==
    ASSUME BioInv, TypeOK', NEW b \in ToSet(io), cur' = cur, \A q \in Procs : Woke(pr[q], pr'[q]),
           Once(io'), ToSet(io') = ToSet(io) \ {b}, Once(c'.free),
           \A a \in Bufs \ {b} : c'.buf[a] = c.buf[a],
           c'.buf[b].bufsize = c.buf[b].bufsize, c'.buf[b].blkno = c.buf[b].blkno, c'.bufsize = c.bufsize,
           Is(b, "STALE") => "STALE" \in c'.buf[b].flags,
           "DONE" \in c'.buf[b].flags, "DELWRI" \notin c'.buf[b].flags, "ASYNC" \notin c'.buf[b].flags,
           \/ /\ Is(b, "ASYNC") /\ "BUSY" \notin c'.buf[b].flags
              /\ ToSet(c'.free) = ToSet(c.free) \cup {b}
              /\ \A q \in Procs : pr'[q].pc = "asleep" => pr[q].chan \notin Released(b)
              /\ basyncnt' = IF Is(b, "READ") THEN basyncnt ELSE basyncnt - 1
           \/ /\ ~Is(b, "ASYNC") /\ "BUSY" \in c'.buf[b].flags
              /\ c'.free = c.free /\ c'.wanted = c.wanted
              /\ \A q \in Procs : pr'[q].pc = "asleep" => pr[q].chan # b
              /\ basyncnt' = basyncnt
    PROVE  BioInv'
<1>1. /\ TypeOK /\ ProcOK /\ BufsOK /\ MemoryAccounted /\ OneBufferPerBlock /\ AsyncWritesCounted
      /\ \A q \in Procs : HeldOK(pr[q]) /\ WokenOK(pr[q])
  BY DEF BioInv, ProcInv
<1>2. /\ b \in Bufs /\ NoBuf \notin Bufs /\ Once(c.free) /\ Once(io)
      /\ Is(b, "BUSY") /\ ~Is(b, "DONE") /\ b \notin ToSet(c.free) /\ c.buf[b].blkno # NoBlock
      /\ c.buf[b].bufsize # 0 /\ (Is(b, "ASYNC") => ~HasOwner(b)) /\ (~Is(b, "ASYNC") => HasOwner(b))
  <2>1. b \in Bufs
    BY <1>1, SeqFacts DEF TypeOK
  <2>2. PointOK(c.buf[b], b \in ToSet(c.free), b \in ToSet(io), HasOwner(b))
    BY <1>1, <2>1 DEF BufsOK
  <2> QED
    BY <1>1, <2>1, <2>2, BioAssumption DEF PointOK, BufsOK, Is
<1>3. \A q \in Procs : /\ Owned(q)' = Owned(q) /\ Owned(q) \subseteq Bufs
                       /\ pr[q] \in ProcRecord /\ pr'[q] \in ProcRecord /\ CallOK(pr[q])' /\ PlacesOK(pr[q])'
                       /\ pr'[q].call = pr[q].call
                       /\ (pr'[q].pc = "user") <=> (pr[q].pc = "user")
                       /\ (pr'[q].pc = "asyncnt") <=> (pr[q].pc = "asyncnt")
                       /\ pr'[q].pc \in Sole => pr'[q] = pr[q]
  BY <1>1, OthersKeep
<1>4. ProcOK'
  <2>1. \A q \in Procs : CallOK(pr'[q]) /\ PlacesOK(pr'[q]) /\ (pr'[q].pc \in Sole => cur' = q)
    BY <1>1, <1>3 DEF ProcOK
  <2>2. \A q, r \in Procs : pr'[q].call = "close" /\ r # q => pr'[r].pc = "user"
    BY <1>1, <1>3 DEF ProcOK
  <2> QED
    BY <2>1, <2>2 DEF ProcOK
<1>5. BufsOK'
  <2>1. \A a \in Bufs : HasOwner(a)' <=> HasOwner(a)
    BY <1>3 DEF HasOwner
  <2>2. ASSUME NEW a \in Bufs \ {b}
        PROVE  PointOK(c'.buf[a], a \in ToSet(c'.free), a \in ToSet(io'), HasOwner(a)')
    <3>1. (a \in ToSet(c'.free)) <=> (a \in ToSet(c.free))
      OBVIOUS
    <3>2. (a \in ToSet(io')) <=> (a \in ToSet(io))
      OBVIOUS
    <3>3. PointOK(c.buf[a], a \in ToSet(c.free), a \in ToSet(io), HasOwner(a))
      BY <1>1 DEF BufsOK
    <3> QED
      BY <2>1, <3>1, <3>2, <3>3 DEF PointOK
  <2>3. PointOK(c'.buf[b], b \in ToSet(c'.free), b \in ToSet(io'), HasOwner(b)')
    <3>1. b \notin ToSet(io') /\ c'.buf[b].bufsize # 0
      BY <1>2
    <3>2. CASE Is(b, "ASYNC")
      <4>1. b \in ToSet(c'.free) /\ ~HasOwner(b)' /\ "BUSY" \notin c'.buf[b].flags
        BY <1>2, <2>1, <3>2
      <4> QED
        BY <3>1, <4>1 DEF PointOK
    <3>3. CASE ~Is(b, "ASYNC")
      <4>1. b \notin ToSet(c'.free) /\ HasOwner(b)'
        BY <1>2, <2>1, <3>3
      <4> QED
        BY <3>1, <4>1 DEF PointOK
    <3> QED
      BY <3>2, <3>3
  <2>4. \A q, r \in Procs : q # r => Owned(q)' \cap Owned(r)' = {}
    BY <1>1, <1>3 DEF BufsOK
  <2>5. \A a \in Bufs : PointOK(c'.buf[a], a \in ToSet(c'.free), a \in ToSet(io'), HasOwner(a)')
    BY <2>2, <2>3
  <2> QED
    BY <2>4, <2>5 DEF BufsOK
<1>6. ASSUME NEW q \in Procs PROVE HeldOK(pr[q])' /\ WokenOK(pr[q])'
  <2>1. PICK x \in ProcRecord : x = pr[q] /\ CallOK(x) /\ PlacesOK(x) /\ HeldOK(x) /\ WokenOK(x)
    BY <1>1, <1>3 DEF ProcOK
  <2>2. PICK y \in ProcRecord : y = pr'[q]
    BY <1>3
  <2>3. /\ y.bp = x.bp /\ y.nbp = x.nbp /\ y.b = x.b /\ (y.pc \in Sole => y = x)
        /\ y.pc = "asleep" => y = x
        /\ y.pc = "hold" <=> x.pc = "hold"
    BY <2>1, <2>2, WokeFacts
  <2>4. {x.bp, x.nbp} \ {NoBuf} \subseteq Owned(q) /\ x.bp \in Bufs \cup {NoBuf} /\ x.nbp \in Bufs \cup {NoBuf}
    BY <2>1 DEF Owned, ProcRecord
  <2>5. y.bp # NoBuf => /\ "BUSY" \in c'.buf[y.bp].flags /\ c'.buf[y.bp].blkno # NoBlock
                        /\ y.pc = "hold" => y.bp \notin ToSet(io')
                        /\ y.pc # "hold" => y.bp \in ToSet(io') \/ "DONE" \in c'.buf[y.bp].flags
    <3> SUFFICES ASSUME x.bp # NoBuf
                 PROVE  /\ "BUSY" \in c'.buf[x.bp].flags /\ c'.buf[x.bp].blkno # NoBlock
                        /\ y.pc = "hold" => x.bp \notin ToSet(io')
                        /\ y.pc # "hold" => x.bp \in ToSet(io') \/ "DONE" \in c'.buf[x.bp].flags
      BY <2>3
    <3>1. /\ Is(x.bp, "BUSY") /\ c.buf[x.bp].blkno # NoBlock
          /\ x.pc = "hold" => x.bp \notin ToSet(io)
          /\ x.pc # "hold" => x.bp \in ToSet(io) \/ Is(x.bp, "DONE")
      BY <2>1 DEF HeldOK
    <3>2. x.pc = "hold" <=> y.pc = "hold"
      BY <2>3
    <3>3. CASE x.bp = b
      <4>1. HasOwner(b)
        BY <2>4, <3>3 DEF HasOwner
      <4>2. ~Is(b, "ASYNC")
        BY <1>2, <4>1
      <4> QED
        BY <1>2, <3>1, <3>2, <3>3, <4>2
    <3>4. CASE x.bp # b
      <4>1. x.bp \in Bufs \ {b}
        BY <2>4, <3>4
      <4>2. c'.buf[x.bp] = c.buf[x.bp]
        BY <4>1
      <4> QED
        BY <3>1, <3>2, <3>4, <4>2 DEF Is
    <3> QED
      BY <3>3, <3>4
  <2>6. \A a \in Bufs : c'.buf[a].blkno = c.buf[a].blkno
    OBVIOUS
  <2>7. y.nbp # NoBuf => c'.buf[y.nbp].blkno = NoBlock
    BY <2>1, <2>3, <2>4, <2>6 DEF HeldOK
  <2>8. y.pc \in {"check", "blkcheck"} => c'.buf[y.b].blkno = y.blk
    <3> SUFFICES ASSUME y.pc \in {"check", "blkcheck"} PROVE c'.buf[y.b].blkno = y.blk
      OBVIOUS
    <3>1. y = x /\ x.b \in Bufs /\ c.buf[x.b].blkno = x.blk
      BY <2>1, <2>3 DEF Sole, CallOK, HeldOK, ProcRecord
    <3> QED
      BY <2>6, <3>1
  <2>9. y.pc = "got" => /\ "BUSY" \in c'.buf[y.b].flags /\ c'.buf[y.b].blkno = y.blk
                        /\ y.b \notin ToSet(io') /\ y.b # y.bp
    <3> SUFFICES ASSUME y.pc = "got"
                 PROVE  /\ "BUSY" \in c'.buf[y.b].flags /\ c'.buf[y.b].blkno = y.blk
                        /\ y.b \notin ToSet(io') /\ y.b # y.bp
      OBVIOUS
    <3>1. /\ y = x /\ x.b \in Bufs /\ c.buf[x.b].blkno = x.blk /\ Is(x.b, "BUSY")
          /\ x.b \notin ToSet(io) /\ x.b # x.bp
      BY <2>1, <2>3 DEF Sole, CallOK, HeldOK, ProcRecord
    <3>2. x.b \in Bufs \ {b}
      BY <3>1
    <3>3. c'.buf[x.b] = c.buf[x.b]
      BY <3>2
    <3> QED
      BY <3>1, <3>3 DEF Is
  <2>10. HeldOK(pr[q])'
    BY <2>2, <2>5, <2>7, <2>8, <2>9 DEF HeldOK, Is
  <2>11. WokenOK(pr[q])'
    <3> SUFFICES ASSUME y.pc = "asleep" PROVE WokenOK(pr[q])'
      BY <2>2 DEF WokenOK
    <3>1. y = x /\ pr'[q].pc = "asleep" /\ x.chan \in Bufs \cup {NoBuf}
      BY <2>1, <2>2, <2>3 DEF ProcRecord
    <3>2. /\ x.chan = NoBuf => c.wanted /\ c.free = <<>>
          /\ x.chan # NoBuf => /\ Is(x.chan, "BUSY") /\ Is(x.chan, "WANTED") /\ c.buf[x.chan].blkno # NoBlock
                               /\ x.then = "iowait" => x.chan \in ToSet(io)
      BY <2>1, <3>1 DEF WokenOK
    <3>3. x.chan # b
      <4> SUFFICES ASSUME x.chan = b PROVE FALSE
        OBVIOUS
      <4>1. Is(b, "WANTED")
        BY <1>2, <3>2
      <4> QED
        BY <2>1, <3>1, <4>1 DEF Released
    <3>4. x.chan = NoBuf => c'.wanted /\ c'.free = <<>>
      <4> SUFFICES ASSUME x.chan = NoBuf PROVE c'.wanted /\ c'.free = <<>>
        OBVIOUS
      <4>1. NoBuf \in Released(b)
        BY <3>2 DEF Released
      <4> QED
        BY <2>1, <3>1, <3>2, <4>1
    <3>5. x.chan # NoBuf => /\ "BUSY" \in c'.buf[x.chan].flags /\ "WANTED" \in c'.buf[x.chan].flags
                            /\ c'.buf[x.chan].blkno # NoBlock
                            /\ x.then = "iowait" => x.chan \in ToSet(io')
      <4> SUFFICES ASSUME x.chan # NoBuf
                   PROVE  /\ "BUSY" \in c'.buf[x.chan].flags /\ "WANTED" \in c'.buf[x.chan].flags
                          /\ c'.buf[x.chan].blkno # NoBlock
                          /\ x.then = "iowait" => x.chan \in ToSet(io')
        OBVIOUS
      <4>1. x.chan \in Bufs \ {b}
        BY <3>1, <3>3
      <4>2. c'.buf[x.chan] = c.buf[x.chan]
        BY <4>1
      <4> QED
        BY <3>2, <3>3, <4>2 DEF Is
    <3> QED
      BY <2>2, <3>1, <3>4, <3>5 DEF WokenOK, Is
  <2> QED
    BY <2>10, <2>11
<1>7. OneBufferPerBlock'
  <2>1. \A a \in Bufs : KeepsBlock(a)
    BY DEF KeepsBlock, Is
  <2>2. PICK n : n = b
    OBVIOUS
  <2>3. \A a \in Bufs : KeepsBlock(a) \/ (a = n /\ Cached(c'.buf[a].blkno) = {})
    BY <2>1
  <2> QED
    BY <1>1, <2>3, OneBufferStep
<1>8. MemoryAccounted'
  <2>1. \A x \in Bufs : c'.buf[x].bufsize = c.buf[x].bufsize
    OBVIOUS
  <2> QED
    BY <1>1, <2>1, MemoryKept
<1>9. AsyncWritesCounted'
  <2>1. /\ AsyncWrites = {a \in Bufs : AsyncWrite(a)}
        /\ IsFiniteSet(AsyncWrites) /\ Cardinality(AsyncWrites) \in Nat
        /\ IsFiniteSet(NotYetCounted) /\ Cardinality(NotYetCounted) \in Nat
    BY <1>1, AsyncFacts
  <2>2. AsyncWrites' = {a \in Bufs : AsyncWrite(a)'}
    BY AsyncFactsThen
  <2>3. basyncnt + Cardinality(NotYetCounted) = Cardinality(AsyncWrites) /\ basyncnt \in Int
    BY <1>1 DEF AsyncWritesCounted, NotYetCounted, AsyncWrites, TypeOK
  <2>4. NotYetCounted' = NotYetCounted
    BY <1>3 DEF NotYetCounted
  <2>5. \A a \in Bufs \ {b} : AsyncWrite(a)' <=> AsyncWrite(a)
    BY DEF AsyncWrite, Is
  <2>6. ~AsyncWrite(b)'
    BY DEF AsyncWrite
  <2>7. CASE Is(b, "ASYNC") /\ ~Is(b, "READ")
    <3>1. AsyncWrite(b)
      BY <2>7 DEF AsyncWrite
    <3>2. AsyncWrites' = AsyncWrites \ {b} /\ b \in AsyncWrites
      BY <1>2, <2>1, <2>2, <2>5, <2>6, <3>1
    <3>3. Cardinality(AsyncWrites \ {b}) = Cardinality(AsyncWrites) - 1
      BY <2>1, <3>2, FS_RemoveElement
    <3>4. basyncnt' = basyncnt - 1
      BY <2>7
    <3>5. basyncnt' + Cardinality(NotYetCounted') = Cardinality(AsyncWrites')
      BY <2>1, <2>3, <2>4, <3>2, <3>3, <3>4
    <3> QED
      BY <3>5 DEF AsyncWritesCounted, NotYetCounted, AsyncWrites
  <2>8. CASE ~(Is(b, "ASYNC") /\ ~Is(b, "READ"))
    <3>1. ~AsyncWrite(b)
      BY <2>8 DEF AsyncWrite
    <3>2. AsyncWrites' = AsyncWrites
      BY <2>1, <2>2, <2>5, <2>6, <3>1
    <3>3. basyncnt' = basyncnt
      BY <2>8
    <3>4. basyncnt' + Cardinality(NotYetCounted') = Cardinality(AsyncWrites')
      BY <2>3, <2>4, <3>2, <3>3
    <3> QED
      BY <3>4 DEF AsyncWritesCounted, NotYetCounted, AsyncWrites
  <2> QED
    BY <2>7, <2>8
<1>10. ProcInv'
  BY <1>4, <1>5, <1>6 DEF ProcInv
<1> QED
  BY <1>7, <1>8, <1>9, <1>10 DEF BioInv

\* The buffer when its transfer is done.
LEMMA DoneFacts ==
    ASSUME BioInv, NEW b \in ToSet(io), NEW ok \in BOOLEAN
    PROVE  \E K \in CacheType :
              /\ K = Done(b, ok) /\ K.free = c.free /\ K.bufsize = c.bufsize /\ K.wanted = c.wanted
              /\ \A a \in Bufs \ {b} : K.buf[a] = c.buf[a]
              /\ K.buf[b].blkno = c.buf[b].blkno /\ K.buf[b].bufsize = c.buf[b].bufsize
              /\ c.buf[b].flags \cup {"DONE"} \subseteq K.buf[b].flags
              /\ K.buf[b].flags \subseteq c.buf[b].flags \cup {"DONE", "ERROR"}
<1>1. b \in Bufs /\ c \in CacheType /\ disk \in [Blocks -> Vals] /\ c.buf[b].blkno \in Blocks
  <2>1. b \in Bufs /\ c \in CacheType /\ disk \in [Blocks -> Vals]
    BY SeqFacts DEF BioInv, TypeOK, CacheType
  <2>2. c.buf[b].blkno # NoBlock
    BY <2>1 DEF BioInv, ProcInv, BufsOK, PointOK
  <2> QED
    BY <2>1, <2>2, CacheFields
<1>2. c.buf[b].data \in Vals \cup {NoVal} /\ c.buf[b].flags \in SUBSET Flags
  BY <1>1, CacheFields
<1>3. PICK v \in Vals \cup {NoVal} : v = IF "READ" \notin c.buf[b].flags THEN c.buf[b].data
                                         ELSE IF ok THEN disk[c.buf[b].blkno] ELSE NoVal
  BY <1>1, <1>2
<1>4. PICK F \in SUBSET Flags : F = c.buf[b].flags \cup {"DONE"} \cup (IF ok THEN {} ELSE {"ERROR"})
  <2>1. c.buf[b].flags \cup {"DONE"} \cup (IF ok THEN {} ELSE {"ERROR"}) \in SUBSET Flags
    BY <1>2 DEF Flags
  <2> QED
    BY <2>1
<1>5. PICK K \in CacheType :
         /\ K = Changed(c, b, v, F) /\ K.free = c.free /\ K.bufsize = c.bufsize /\ K.wanted = c.wanted
         /\ \A a \in Bufs \ {b} : K.buf[a] = c.buf[a]
         /\ K.buf[b].flags = F /\ K.buf[b].blkno = c.buf[b].blkno /\ K.buf[b].bufsize = c.buf[b].bufsize
  BY <1>1, ChangedFacts
<1>6. K = Done(b, ok)
  BY <1>3, <1>4, <1>5 DEF Changed, Done
<1> QED
  BY <1>4, <1>5, <1>6

\* What is written to the disk is known.
LEMMA WrittenIsKnown ==
    ASSUME BioInv, NEW b \in ToSet(io), ~Is(b, "READ")
    PROVE  c.buf[b].data \in Vals
<1>1. b \in Bufs /\ c \in CacheType
  BY SeqFacts DEF BioInv, TypeOK, CacheType
<1>2. c.buf[b].data # NoVal
  BY <1>1 DEF BioInv, ProcInv, BufsOK, PointOK, Is
<1> QED
  BY <1>1, <1>2, CacheFields

LEMMA IoDoneStep ==
    ASSUME BioInv, NEW b \in Bufs, IoDone(b)
    PROVE  BioInv'
<1>1. /\ TypeOK /\ io \in Seq(Bufs) /\ Once(io) /\ Once(c.free) /\ c \in CacheType
      /\ pr \in [Procs -> ProcRecord] /\ basyncnt \in Int /\ disk \in [Blocks -> Vals]
  BY DEF BioInv, ProcInv, BufsOK, TypeOK, CacheType
<1>2. b \in ToSet(io)
  BY <1>1, SeqFacts DEF IoDone
<1>3. b \notin ToSet(c.free) /\ ~Is(b, "DELWRI") /\ Is(b, "BUSY")
  <2>1. PointOK(c.buf[b], b \in ToSet(c.free), b \in ToSet(io), HasOwner(b))
    BY DEF BioInv, ProcInv, BufsOK
  <2> QED
    BY <1>2, <2>1 DEF PointOK, Is
<1>4. PICK ok \in BOOLEAN :
         /\ biodone(b, Done(b, ok))
         /\ disk' = IF ok /\ ~Is(b, "READ") THEN [disk EXCEPT ![c.buf[b].blkno] = c.buf[b].data]
                    ELSE disk
  <2>1. {TRUE, c.buf[b].blkno \notin IoErrors} \subseteq BOOLEAN
    OBVIOUS
  <2> QED
    BY <2>1 DEF IoDone
<1>5. io' = RemoveFirst(io, b) /\ cur' = cur
  BY DEF IoDone
<1>6. io' \in Seq(Bufs) /\ Once(io') /\ ToSet(io') = ToSet(io) \ {b}
  BY <1>1, <1>2, <1>5, RemovedFacts
<1>7. disk' \in [Blocks -> Vals]
  <2>1. CASE ok /\ ~Is(b, "READ")
    <3>1. c.buf[b].data \in Vals
      BY <1>2, <2>1, WrittenIsKnown
    <3>2. disk' = [disk EXCEPT ![c.buf[b].blkno] = c.buf[b].data]
      BY <1>4, <2>1
    <3> QED
      BY <1>1, <3>1, <3>2
  <2>2. CASE ~(ok /\ ~Is(b, "READ"))
    BY <1>1, <1>4, <2>2
  <2> QED
    BY <2>1, <2>2
<1>8. PICK K \in CacheType :
         /\ K = Done(b, ok) /\ K.free = c.free /\ K.bufsize = c.bufsize /\ K.wanted = c.wanted
         /\ \A a \in Bufs \ {b} : K.buf[a] = c.buf[a]
         /\ K.buf[b].blkno = c.buf[b].blkno /\ K.buf[b].bufsize = c.buf[b].bufsize
         /\ c.buf[b].flags \cup {"DONE"} \subseteq K.buf[b].flags
         /\ K.buf[b].flags \subseteq c.buf[b].flags \cup {"DONE", "ERROR"}
  BY <1>2, DoneFacts
<1>9. "ASYNC" \in K.buf[b].flags <=> Is(b, "ASYNC")
  BY <1>8 DEF Is
<1>10. CASE Is(b, "ASYNC")
  <2>1. /\ basyncnt' = IF Is(b, "READ") THEN basyncnt ELSE basyncnt - 1
        /\ c' = brelse(K, b) /\ pr' = wakeprocs(pr, Released(b))
    BY <1>4, <1>8, <1>9, <1>10 DEF biodone
  <2>2. Once(K.free) /\ b \notin ToSet(K.free)
    BY <1>1, <1>3, <1>8
  <2>3. /\ c' \in CacheType /\ c'.buf = [K.buf EXCEPT ![b] = GivenUp(K.buf[b])]
        /\ c'.bufsize = K.bufsize
        /\ Once(c'.free) /\ ToSet(c'.free) = ToSet(K.free) \cup {b}
    BY <2>1, <2>2, BrelseFacts
  <2>4. K.buf \in [Bufs -> BufRecord] /\ K.buf[b] \in BufRecord
    BY CacheFields
  <2>5. c'.buf[b] = GivenUp(K.buf[b]) /\ \A a \in Bufs \ {b} : c'.buf[a] = c.buf[a]
    BY <1>8, <2>3, <2>4
  <2>6. /\ c'.buf[b].blkno = c.buf[b].blkno /\ c'.buf[b].bufsize = c.buf[b].bufsize
        /\ "BUSY" \notin c'.buf[b].flags /\ "ASYNC" \notin c'.buf[b].flags
        /\ "DONE" \in c'.buf[b].flags /\ "DELWRI" \notin c'.buf[b].flags
        /\ Is(b, "STALE") => "STALE" \in c'.buf[b].flags
    BY <1>3, <1>8, <2>4, <2>5, GivenUpFacts DEF Is
  <2>7. /\ pr' \in [Procs -> ProcRecord]
        /\ \A q \in Procs : Woke(pr[q], pr'[q]) /\ (pr'[q].pc = "asleep" => pr[q].chan \notin Released(b))
    BY <1>1, <2>1, WakeFacts
  <2>8. TypeOK'
    <3>1. basyncnt' \in Int
      BY <1>1, <2>1
    <3> QED
      BY <1>1, <1>5, <1>6, <1>7, <2>3, <2>7, <3>1 DEF TypeOK, CacheType
  <2>9. ToSet(c'.free) = ToSet(c.free) \cup {b} /\ c'.bufsize = c.bufsize
    BY <1>8, <2>3
  <2>10. basyncnt' = IF Is(b, "READ") THEN basyncnt ELSE basyncnt - 1
    BY <2>1
  <2> QED
    BY <1>2, <1>5, <1>6, <1>10, <2>3, <2>5, <2>6, <2>7, <2>8, <2>9, <2>10, InterruptStep
<1>11. CASE ~Is(b, "ASYNC")
  <2>1. /\ basyncnt' = basyncnt /\ c' = [K EXCEPT !.buf[b].flags = @ \ {"WANTED"}]
        /\ pr' = wakeprocs(pr, {b})
    BY <1>4, <1>8, <1>9, <1>11 DEF biodone
  <2>2. PICK F \in SUBSET Flags : F = K.buf[b].flags \ {"WANTED"}
    <3>1. K.buf[b].flags \in SUBSET Flags
      BY CacheFields
    <3> QED
      BY <3>1
  <2>3. PICK L \in CacheType :
         /\ L = Flagged(K, b, F) /\ L.free = K.free /\ L.bufsize = K.bufsize /\ L.wanted = K.wanted
         /\ \A a \in Bufs \ {b} : L.buf[a] = K.buf[a]
         /\ L.buf[b].flags = F /\ L.buf[b].blkno = K.buf[b].blkno /\ L.buf[b].bufsize = K.buf[b].bufsize
    BY FlaggedFacts
  <2>4. c' = L
    BY <2>1, <2>2, <2>3 DEF Flagged
  <2>5. /\ c' \in CacheType /\ c'.free = c.free /\ c'.bufsize = c.bufsize /\ c'.wanted = c.wanted
        /\ \A a \in Bufs \ {b} : c'.buf[a] = c.buf[a]
        /\ c'.buf[b].blkno = c.buf[b].blkno /\ c'.buf[b].bufsize = c.buf[b].bufsize
        /\ "BUSY" \in c'.buf[b].flags /\ "ASYNC" \notin c'.buf[b].flags
        /\ "DONE" \in c'.buf[b].flags /\ "DELWRI" \notin c'.buf[b].flags
        /\ Is(b, "STALE") => "STALE" \in c'.buf[b].flags
    BY <1>3, <1>8, <1>11, <2>2, <2>3, <2>4, ZenonT(60) DEF Is
  <2>6. /\ pr' \in [Procs -> ProcRecord]
        /\ \A q \in Procs : Woke(pr[q], pr'[q]) /\ (pr'[q].pc = "asleep" => pr[q].chan # b)
    BY <1>1, <2>1, WakeFacts
  <2>7. TypeOK'
    <3>1. basyncnt' \in Int
      BY <1>1, <2>1
    <3> QED
      BY <1>1, <1>5, <1>6, <1>7, <2>5, <2>6, <3>1 DEF TypeOK, CacheType
  <2>8. Once(c'.free) /\ basyncnt' = basyncnt
    BY <1>1, <2>1, <2>5
  <2> QED
    BY <1>2, <1>5, <1>6, <1>11, <2>5, <2>6, <2>7, <2>8, InterruptStep
<1> QED
  BY <1>10, <1>11

-----------------------------------------------------------------------------
(***************************************************************************)
(* The invariant holds.                                                    *)
(***************************************************************************)
LEMMA InitInv == Init => BioInv
<1> SUFFICES ASSUME Init PROVE BioInv
  OBVIOUS
<1>1. /\ c = [buf |-> [b \in Bufs |-> NoBuffer], free |-> <<>>, bufsize |-> v_bufhwm, wanted |-> FALSE]
      /\ basyncnt = 0 /\ pr = [p \in Procs |-> Idle] /\ cur = NoProc /\ io = <<>>
      /\ disk = [x \in Blocks |-> CHOOSE v \in Vals : TRUE]
  BY DEF Init
<1>2. NoBuffer \in BufRecord /\ Idle \in ProcRecord
  BY DEF NoBuffer, BufRecord, Idle, ProcRecord
<1>3. TypeOK
  <2>1. c \in [buf : [Bufs -> BufRecord], free : Seq(Bufs), bufsize : 0..v_bufhwm, wanted : BOOLEAN]
    <3>1. [b \in Bufs |-> NoBuffer] \in [Bufs -> BufRecord] /\ <<>> \in Seq(Bufs) /\ v_bufhwm \in 0..v_bufhwm
      BY <1>2, BioAssumption
    <3> QED
      BY <1>1, <3>1
  <2>2. disk \in [Blocks -> Vals]
    BY <1>1, BioAssumption
  <2>3. pr \in [Procs -> ProcRecord] /\ io \in Seq(Bufs) /\ basyncnt \in Int /\ cur \in Procs \cup {NoProc}
    BY <1>1, <1>2
  <2> QED
    BY <2>1, <2>2, <2>3 DEF TypeOK
<1>4. \A p \in Procs : pr[p] = Idle /\ Owned(p) = {}
  BY <1>1 DEF Owned, Idle
<1>5. \A b \in Bufs : c.buf[b] = NoBuffer
  BY <1>1
<1>6. ToSet(c.free) = {} /\ ToSet(io) = {} /\ Once(c.free) /\ Once(io)
  BY <1>1 DEF ToSet, Once
<1>7. ProcInv
  <2>1. CallOK(Idle) /\ PlacesOK(Idle) /\ Idle.pc \notin Sole /\ Idle.call # "close"
    BY DEF Idle, CallOK, PlacesOK, InGetblk, InBiowait, InBlkflush, InBflush, Sole
  <2>2. ProcOK
    BY <1>4, <2>1 DEF ProcOK
  <2>3. BufsOK
    <3>1. ASSUME NEW b \in Bufs
          PROVE  PointOK(c.buf[b], b \in ToSet(c.free), b \in ToSet(io), HasOwner(b))
      <4>1. ~HasOwner(b) /\ b \notin ToSet(c.free) /\ b \notin ToSet(io)
        BY <1>4, <1>6 DEF HasOwner
      <4>2. PointOK(NoBuffer, FALSE, FALSE, FALSE)
        BY DEF PointOK, NoBuffer
      <4> QED
        BY <1>5, <4>1, <4>2 DEF PointOK
    <3> QED
      BY <1>4, <1>6, <3>1 DEF BufsOK
  <2>4. HeldOK(Idle) /\ WokenOK(Idle)
    BY DEF Idle, HeldOK, WokenOK
  <2> QED
    BY <1>4, <2>2, <2>3, <2>4 DEF ProcInv
<1>8. MemoryAccounted
  <2>1. PICK z \in Nat : z = 0
    OBVIOUS
  <2>2. \A b \in Bufs : c.buf[b].bufsize \in {0, z}
    BY <1>5 DEF NoBuffer
  <2>3. Memory(c) = z * Cardinality({b \in Bufs : c.buf[b].bufsize # 0})
    BY <2>2, MemoryOfOneSize
  <2>4. {b \in Bufs : c.buf[b].bufsize # 0} = {}
    BY <2>1, <2>2
  <2>5. Memory(c) = 0
    BY <2>1, <2>3, <2>4, FS_EmptySet
  <2>6. c.bufsize + Memory(c) = v_bufhwm
    BY <1>1, <2>5, BioAssumption
  <2> QED
    BY <2>6, AccountedIs
<1>9. OneBufferPerBlock
  <2>1. ASSUME NEW x \in Blocks PROVE Cached(x) = {}
    BY <1>5, BioAssumption DEF Cached, NoBuffer
  <2> QED
    BY <2>1, FS_EmptySet DEF OneBufferPerBlock
<1>10. AsyncWritesCounted
  <2>1. {p \in Procs : pr[p].pc = "asyncnt"} = {} /\ {b \in ToSet(io) : Is(b, "ASYNC") /\ ~Is(b, "READ")} = {}
    BY <1>4, <1>6 DEF Idle
  <2>2. Cardinality({}) = 0
    BY FS_EmptySet
  <2>3. /\ Cardinality({p \in Procs : pr[p].pc = "asyncnt"}) = 0
        /\ Cardinality({b \in ToSet(io) : Is(b, "ASYNC") /\ ~Is(b, "READ")}) = 0
    BY <2>1, <2>2
  <2> QED
    BY <1>1, <2>3 DEF AsyncWritesCounted
<1> QED
  BY <1>3, <1>7, <1>8, <1>9, <1>10 DEF BioInv

LEMMA NextInv == BioInv /\ [Next]_vars => BioInv'
<1> SUFFICES ASSUME BioInv, [Next]_vars PROVE BioInv'
  OBVIOUS
<1>1. ASSUME NEW p \in Procs, Start(p) \/ Step(p)
      PROVE  BioInv'
  <2>1. CASE Start(p)
    BY <2>1, StartStep
  <2>2. CASE GetblkSearch(p)
    BY <2>2, GetblkSearchStep
  <2>3. CASE GetblkCheck(p)
    BY <2>3, GetblkCheckStep
  <2>4. CASE Reclaim(p)
    BY <2>4, ReclaimStep
  <2>5. CASE Allocate(p)
    BY <2>5, AllocateStep
  <2>6. CASE Kmem(p)
    BY <2>6, KmemStep
  <2>7. CASE Got(p)
    BY <2>7, GotStep
  <2>8. CASE Readahead(p)
    BY <2>8, ReadaheadStep
  <2>9. CASE ReadaheadEnd(p)
    BY <2>9, ReadaheadEndStep
  <2>10. CASE Biowait(p)
    BY <2>10, BiowaitStep
  <2>11. CASE Brelse(p)
    BY <2>11, BrelseStep
  <2>12. CASE Bdwrite(p)
    BY <2>12, BdwriteStep
  <2>13. CASE Bwrite(p)
    BY <2>13, BwriteStep
  <2>14. CASE Asyncnt(p)
    BY <2>14, AsyncntStep
  <2>15. CASE Bflush(p)
    BY <2>15, BflushStep
  <2>16. CASE Bflushed(p)
    BY <2>16, BflushedStep
  <2>17. CASE BlkflushSearch(p)
    BY <2>17, BlkflushSearchStep
  <2>18. CASE BlkflushCheck(p)
    BY <2>18, BlkflushCheckStep
  <2>19. CASE BlkflushEnd(p)
    BY <2>19, BlkflushEndStep
  <2>20. CASE Elsewhere(p)
    BY <2>20, ElsewhereStep
  <2> QED
    BY <1>1, <2>1, <2>2, <2>3, <2>4, <2>5, <2>6, <2>7, <2>8, <2>9, <2>10, <2>11, <2>12, <2>13,
       <2>14, <2>15, <2>16, <2>17, <2>18, <2>19, <2>20 DEF Step
<1>2. ASSUME NEW b \in Bufs, IoDone(b)
      PROVE  BioInv'
  BY <1>2, IoDoneStep
<1>3. CASE UNCHANGED vars
  <2>1. c' = c /\ basyncnt' = basyncnt /\ pr' = pr /\ cur' = cur /\ io' = io /\ disk' = disk
    BY <1>3 DEF vars
  <2>2. TypeOK' /\ OneBufferPerBlock' /\ AsyncWritesCounted'
    BY <2>1 DEF BioInv, TypeOK, OneBufferPerBlock, Cached, Is, AsyncWritesCounted
  <2>3. ProcOK'
    BY <2>1 DEF BioInv, ProcInv, ProcOK
  <2>4. BufsOK'
    BY <2>1 DEF BioInv, ProcInv, BufsOK, HasOwner, Owned
  <2>5. \A p \in Procs : HeldOK(pr[p])' /\ WokenOK(pr[p])'
    BY <2>1 DEF BioInv, ProcInv, HeldOK, WokenOK, Is
  <2>6. MemoryAccounted'
    BY <2>1, MemoryKept DEF BioInv
  <2> QED
    BY <2>2, <2>3, <2>4, <2>5, <2>6 DEF BioInv, ProcInv
<1> QED
  BY <1>1, <1>2, <1>3 DEF Next

\* The inductive invariant of the buffer cache.
THEOREM Invariant == Spec => []BioInv
<1>1. Init => BioInv
  BY InitInv
<1>2. BioInv /\ [Next]_vars => BioInv'
  BY NextInv
<1> QED
  BY <1>1, <1>2, PTL DEF Spec

\* A buffer is on the free list, once, or busy; a busy one has one process, or a
\* driver, that will give it up (notavail(), brelse(), biodone()).
THEOREM BuffersAlwaysOK == Spec => []BuffersOK
<1>1. BioInv => BuffersOK
  <2> SUFFICES ASSUME BioInv PROVE BuffersOK
    OBVIOUS
  <2>1. ASSUME NEW b \in Bufs \ Headers
        PROVE  IF b \in ToSet(c.free)
               THEN ~Is(b, "BUSY") /\ {p \in Procs : b \in Owned(p)} = {} /\ b \notin ToSet(io)
               ELSE IF b \in ToSet(io) /\ Is(b, "ASYNC") THEN {p \in Procs : b \in Owned(p)} = {}
               ELSE Cardinality({p \in Procs : b \in Owned(p)}) = 1
    <3>1. c.buf[b].bufsize # 0
      BY DEF Headers
    <3>2. PointOK(c.buf[b], b \in ToSet(c.free), b \in ToSet(io), HasOwner(b))
      BY DEF BioInv, ProcInv, BufsOK
    <3>3. ~HasOwner(b) <=> {p \in Procs : b \in Owned(p)} = {}
      BY DEF HasOwner
    <3>4. CASE b \in ToSet(c.free) \/ (b \in ToSet(io) /\ Is(b, "ASYNC"))
      BY <3>2, <3>3, <3>4 DEF PointOK, Is
    <3>5. CASE ~(b \in ToSet(c.free) \/ (b \in ToSet(io) /\ Is(b, "ASYNC")))
      <4>1. PICK p \in Procs : b \in Owned(p)
        BY <3>1, <3>2, <3>5 DEF PointOK, Is, HasOwner
      <4>2. \A q \in Procs \ {p} : b \notin Owned(q)
        BY <4>1 DEF BioInv, ProcInv, BufsOK
      <4>3. {q \in Procs : b \in Owned(q)} = {p}
        BY <4>1, <4>2
      <4>4. Cardinality({q \in Procs : b \in Owned(q)}) = 1
        BY <4>3, FS_Singleton
      <4> QED
        BY <3>5, <4>4
    <3> QED
      BY <3>4, <3>5
  <2>2. TypeOK /\ Once(c.free)
    BY DEF BioInv, ProcInv, BufsOK
  <2> QED
    BY <2>1, <2>2 DEF BuffersOK, BusyOrFree, Once
<1> QED
  BY <1>1, Invariant, PTL

\* The memory for buffers is neither lost nor used twice (getfreeblk()).
THEOREM MemoryAlwaysAccounted == Spec => []MemoryAccounted
<1>1. BioInv => MemoryAccounted
  BY DEF BioInv
<1> QED
  BY <1>1, Invariant, PTL

\* No buffer is with a driver twice, or given to it with B_DONE still set (bwrite(),
\* getblk(), the assertion in biodone()).
THEOREM TransfersOnce == Spec => []TransferOnce
<1>1. BioInv => TransferOnce
  <2> SUFFICES ASSUME BioInv PROVE TransferOnce
    OBVIOUS
  <2>1. Once(io) /\ io \in Seq(Bufs)
    BY DEF BioInv, TypeOK, ProcInv, BufsOK
  <2>2. ASSUME NEW b \in ToSet(io) PROVE Is(b, "BUSY") /\ ~Is(b, "DONE")
    <3>1. b \in Bufs
      BY <2>1, SeqFacts
    <3> QED
      BY <3>1 DEF BioInv, ProcInv, BufsOK, PointOK, Is
  <2>3. \A i \in DOMAIN io : Is(io[i], "BUSY") /\ ~Is(io[i], "DONE")
    BY <2>1, <2>2, SeqFacts
  <2> QED
    BY <2>1, <2>3 DEF TransferOnce, Once
<1> QED
  BY <1>1, Invariant, PTL

\* A block is in one buffer: what getblk() has found before it slept, for a buffer or
\* in kmem_zalloc(), is looked for again.
THEOREM OneBufferEver == Spec => []OneBufferPerBlock
<1>1. BioInv => OneBufferPerBlock
  BY DEF BioInv
<1> QED
  BY <1>1, Invariant, PTL

\* basyncnt counts the asynchronous writes, whoever starts them and whenever they
\* end (the end of bwrite() and biodone()).
THEOREM AsyncWritesAlwaysCounted == Spec => []AsyncWritesCounted
<1>1. BioInv => AsyncWritesCounted
  BY DEF BioInv
<1> QED
  BY <1>1, Invariant, PTL

\* Who sleeps on a buffer, for a transfer or for memory will be woken (getblk(),
\* biowait(), getfreeblk() and blkflush() against brelse() and biodone()).
THEOREM NobodyForgotten == Spec => []NoLostWakeup
<1>1. BioInv => NoLostWakeup
  <2> SUFFICES ASSUME BioInv, NEW p \in Procs, pr[p].pc = "asleep"
               PROVE  IF pr[p].chan = NoBuf THEN c.wanted /\ c.free = <<>>
                      ELSE /\ Is(pr[p].chan, "BUSY") /\ Is(pr[p].chan, "WANTED")
                           /\ pr[p].then = "iowait" => pr[p].chan \in ToSet(io) /\ ~Is(pr[p].chan, "DONE")
    BY DEF NoLostWakeup
  <2>1. PICK x \in ProcRecord : x = pr[p] /\ WokenOK(x)
    BY ActorFacts
  <2>2. x.chan \in Bufs /\ x.chan \in ToSet(io) => ~Is(x.chan, "DONE")
    BY DEF BioInv, ProcInv, BufsOK, PointOK, Is
  <2>3. x.chan \in Bufs \cup {NoBuf}
    BY DEF ProcRecord
  <2> QED
    BY <2>1, <2>2, <2>3 DEF WokenOK
<1> QED
  BY <1>1, Invariant, PTL

-----------------------------------------------------------------------------
(***************************************************************************)
(* What is on its way to the disk.  K is a cache, s the buffers with the   *)
(* drivers, d the disk.                                                    *)
(***************************************************************************)
WritesIn(K, b, x) == K.buf[b].blkno = x /\ "READ" \notin K.buf[b].flags

LastIn(K, s, x) == SelectLastInSeq(s, LAMBDA b : WritesIn(K, b, x))

\* The contents that a block will have when its writes under way are done.
SettledIn(K, s, d, x) == IF LastIn(K, s, x) # 0 THEN K.buf[s[LastIn(K, s, x)]].data ELSE d[x]

LEMMA LastPlace ==
    ASSUME NEW n \in Nat, NEW I \in SUBSET (1 .. n), I # {}
    PROVE  Max(I) \in I /\ \A i \in I : i <= Max(I)
<1> DEFINE J == {k \in Nat : n - k \in I}
<1>1. J \in SUBSET Nat
  OBVIOUS
<1>2. PICK i \in I : i \in 1 .. n
  OBVIOUS
<1>3. n - i \in J
  BY <1>2
<1>4. PICK k \in J : \A j \in J : k <= j
  BY <1>1, <1>3, LeastNat
<1>5. ASSUME NEW j \in I PROVE j <= n - k
  <2>1. j \in 1 .. n
    OBVIOUS
  <2>2. n - j \in J
    BY <2>1
  <2>3. k <= n - j /\ k \in Nat
    BY <1>4, <2>2
  <2> QED
    BY <2>1, <2>3
<1>6. n - k \in I /\ \A j \in I : n - k >= j
  <2>1. n - k \in I /\ k \in Nat
    BY <1>4
  <2>2. \A j \in I : j \in Int
    OBVIOUS
  <2> QED
    BY <1>5, <2>1, <2>2
<1>7. \E m \in I : \A j \in I : m >= j
  BY <1>6
<1>8. Max(I) \in I /\ \A j \in I : Max(I) >= j
  BY <1>7 DEF Max
<1>9. \A j \in I : j \in Int
  OBVIOUS
<1> QED
  BY <1>8, <1>9

\* The last write of a block tells, or else the disk.
LEMMA SettledFacts ==
    ASSUME NEW s \in Seq(Bufs), NEW K, NEW d, NEW x
    PROVE  \/ \E i \in DOMAIN s : /\ WritesIn(K, s[i], x)
                                  /\ \A j \in DOMAIN s : j > i => ~WritesIn(K, s[j], x)
                                  /\ SettledIn(K, s, d, x) = K.buf[s[i]].data
           \/ (\A i \in DOMAIN s : ~WritesIn(K, s[i], x)) /\ SettledIn(K, s, d, x) = d[x]
<1>1. DOMAIN s = 1 .. Len(s) /\ Len(s) \in Nat
  BY SeqFacts
<1> DEFINE I == {i \in 1 .. Len(s) : WritesIn(K, s[i], x)}
<1>2. LastIn(K, s, x) = IF I # {} THEN Max(I) ELSE 0
  BY DEF LastIn, SelectLastInSeq
<1>3. CASE I = {}
  <2>1. LastIn(K, s, x) = 0
    BY <1>2, <1>3
  <2>2. \A i \in DOMAIN s : ~WritesIn(K, s[i], x)
    BY <1>1, <1>3
  <2> QED
    BY <2>1, <2>2 DEF SettledIn
<1>4. CASE I # {}
  <2>1. LastIn(K, s, x) \in I /\ \A i \in I : i <= LastIn(K, s, x)
    BY <1>1, <1>2, <1>4, LastPlace
  <2>2. LastIn(K, s, x) \in 1 .. Len(s) /\ LastIn(K, s, x) # 0
    BY <1>1, <2>1
  <2>3. \A j \in DOMAIN s : j > LastIn(K, s, x) => ~WritesIn(K, s[j], x)
    <3> SUFFICES ASSUME NEW j \in DOMAIN s, j > LastIn(K, s, x), WritesIn(K, s[j], x) PROVE FALSE
      OBVIOUS
    <3>1. j \in I
      BY <1>1
    <3>2. j <= LastIn(K, s, x) /\ j \in Nat /\ LastIn(K, s, x) \in Nat
      BY <1>1, <2>1, <3>1
    <3> QED
      BY <3>2
  <2> QED
    BY <1>1, <2>1, <2>2, <2>3 DEF SettledIn
<1> QED
  BY <1>3, <1>4

\* The contents are as long as the last write, or the disk, is.
LEMMA SettledIs ==
    ASSUME NEW s \in Seq(Bufs), NEW K, NEW d, NEW x
    PROVE  /\ \A i \in DOMAIN s : /\ WritesIn(K, s[i], x)
                                  /\ \A j \in DOMAIN s : j > i => ~WritesIn(K, s[j], x)
                                  => SettledIn(K, s, d, x) = K.buf[s[i]].data
           /\ (\A i \in DOMAIN s : ~WritesIn(K, s[i], x)) => SettledIn(K, s, d, x) = d[x]
<1>1. DOMAIN s = 1 .. Len(s) /\ Len(s) \in Nat
  BY SeqFacts
<1>2. CASE (\A i \in DOMAIN s : ~WritesIn(K, s[i], x)) /\ SettledIn(K, s, d, x) = d[x]
  BY <1>2
<1>3. ASSUME NEW i \in DOMAIN s, WritesIn(K, s[i], x),
             \A j \in DOMAIN s : j > i => ~WritesIn(K, s[j], x),
             SettledIn(K, s, d, x) = K.buf[s[i]].data
      PROVE  \A k \in DOMAIN s : /\ WritesIn(K, s[k], x)
                                 /\ \A j \in DOMAIN s : j > k => ~WritesIn(K, s[j], x)
                                 => SettledIn(K, s, d, x) = K.buf[s[k]].data
  <2> SUFFICES ASSUME NEW k \in DOMAIN s, WritesIn(K, s[k], x),
                      \A j \in DOMAIN s : j > k => ~WritesIn(K, s[j], x)
               PROVE  i = k
    BY <1>3
  <2>1. ~(i > k) /\ ~(k > i)
    BY <1>3
  <2> QED
    BY <1>1, <2>1
<1> QED
  BY <1>2, <1>3, SettledFacts

\* A buffer that is with a driver stays as it is.
SameWrite(K, L, a) ==
    /\ L.buf[a].blkno = K.buf[a].blkno /\ L.buf[a].data = K.buf[a].data
    /\ ("READ" \in L.buf[a].flags) <=> ("READ" \in K.buf[a].flags)

LEMMA SettledSame ==
    ASSUME NEW s \in Seq(Bufs), NEW K, NEW L, NEW d, NEW x, \A a \in ToSet(s) : SameWrite(K, L, a)
    PROVE  SettledIn(L, s, d, x) = SettledIn(K, s, d, x)
<1>1. \A i \in DOMAIN s : s[i] \in ToSet(s) /\ SameWrite(K, L, s[i])
  BY SeqFacts
<1>2. \A i \in DOMAIN s : WritesIn(L, s[i], x) <=> WritesIn(K, s[i], x)
  BY <1>1 DEF SameWrite, WritesIn
<1>3. CASE (\A i \in DOMAIN s : ~WritesIn(K, s[i], x)) /\ SettledIn(K, s, d, x) = d[x]
  BY <1>2, <1>3, SettledIs
<1>4. ASSUME NEW i \in DOMAIN s, WritesIn(K, s[i], x),
             \A j \in DOMAIN s : j > i => ~WritesIn(K, s[j], x),
             SettledIn(K, s, d, x) = K.buf[s[i]].data
      PROVE  SettledIn(L, s, d, x) = SettledIn(K, s, d, x)
  <2>1. SettledIn(L, s, d, x) = L.buf[s[i]].data
    BY <1>2, <1>4, SettledIs
  <2> QED
    BY <1>1, <1>4, <2>1 DEF SameWrite
<1> QED
  BY <1>3, <1>4, SettledFacts

\* A write that starts is the last of its block; a read changes nothing.
LEMMA SettledStarted ==
    ASSUME NEW s \in Seq(Bufs), NEW K, NEW L, NEW d, NEW x, NEW b \in Bufs,
           \A a \in ToSet(s) : SameWrite(K, L, a)
    PROVE  SettledIn(L, Append(s, b), d, x) =
             IF WritesIn(L, b, x) THEN L.buf[b].data ELSE SettledIn(K, s, d, x)
<1> DEFINE t == Append(s, b)
<1>1. DOMAIN s = 1 .. Len(s) /\ Len(s) \in Nat
  BY SeqFacts
<1>2. /\ t \in Seq(Bufs) /\ Len(t) = Len(s) + 1
      /\ \A i \in 1 .. Len(s) : t[i] = s[i]
      /\ t[Len(s) + 1] = b
  BY Appended
<1> HIDE DEF t
<1>3. DOMAIN t = 1 .. Len(s) + 1
  BY <1>2, LenProperties
<1>4. SettledIn(L, s, d, x) = SettledIn(K, s, d, x)
  BY SettledSame
<1>5. CASE WritesIn(L, b, x)
  <2>1. \A j \in DOMAIN t : ~(j > Len(s) + 1)
    BY <1>1, <1>3
  <2>2. Len(s) + 1 \in DOMAIN t
    BY <1>1, <1>3
  <2>3. SettledIn(L, t, d, x) = L.buf[t[Len(s) + 1]].data
    BY <1>2, <1>5, <2>1, <2>2, SettledIs
  <2> QED
    BY <1>2, <1>5, <2>3 DEF t
<1>6. CASE ~WritesIn(L, b, x)
  <2>1. \A j \in DOMAIN t : (j \in DOMAIN s /\ t[j] = s[j]) \/ t[j] = b
    BY <1>1, <1>2, <1>3
  <2>2. \A j \in DOMAIN s : j \in DOMAIN t /\ t[j] = s[j]
    BY <1>1, <1>2, <1>3
  <2>3. CASE (\A i \in DOMAIN s : ~WritesIn(L, s[i], x)) /\ SettledIn(L, s, d, x) = d[x]
    <3>1. \A i \in DOMAIN t : ~WritesIn(L, t[i], x)
      BY <1>6, <2>1, <2>3
    <3>2. SettledIn(L, t, d, x) = d[x]
      BY <1>2, <3>1, SettledIs
    <3> QED
      BY <1>4, <1>6, <2>3, <3>2 DEF t
  <2>4. ASSUME NEW i \in DOMAIN s, WritesIn(L, s[i], x),
               \A j \in DOMAIN s : j > i => ~WritesIn(L, s[j], x),
               SettledIn(L, s, d, x) = L.buf[s[i]].data
        PROVE  SettledIn(L, t, d, x) = SettledIn(L, s, d, x)
    <3>1. i \in DOMAIN t /\ t[i] = s[i] /\ WritesIn(L, t[i], x)
      BY <2>2, <2>4
    <3>2. \A j \in DOMAIN t : j > i => ~WritesIn(L, t[j], x)
      BY <1>6, <2>1, <2>4
    <3> QED
      BY <1>2, <2>4, <3>1, <3>2, SettledIs
  <2>5. SettledIn(L, t, d, x) = SettledIn(L, s, d, x)
    BY <1>4, <1>6, <2>3, <2>4, SettledFacts DEF t
  <2> QED
    BY <1>4, <1>6, <2>5 DEF t
<1> QED
  BY <1>5, <1>6

\* The order in which the drivers have the buffers.
LEMMA RemovedPlaces ==
    ASSUME NEW s \in Seq(Bufs), NEW b \in Bufs, Once(s), b \in ToSet(s)
    PROVE  \E k \in DOMAIN s : 
              /\ s[k] = b /\ DOMAIN s = 1 .. Len(s) /\ Len(s) \in Nat
              /\ DOMAIN RemoveFirst(s, b) = 1 .. Len(s) - 1
              /\ \A j \in 1 .. Len(s) - 1 : RemoveFirst(s, b)[j] = IF j < k THEN s[j] ELSE s[j + 1]
<1>1. PICK k \in DOMAIN s : s[k] = b /\ RemoveFirst(s, b) = RemoveAt(s, k)
  BY Removed
<1>2. DOMAIN s = 1 .. Len(s) /\ Len(s) \in Nat
  BY SeqFacts
<1> DEFINE t == RemoveAt(s, k)
<1>3. /\ t \in Seq(Bufs) /\ Len(t) = Len(s) - 1
      /\ \A j \in 1 .. Len(s) - 1 : t[j] = IF j < k THEN s[j] ELSE s[j + 1]
  BY <1>1, <1>2, RemoveAtProperties
<1> HIDE DEF t
<1>4. DOMAIN t = 1 .. Len(s) - 1
  BY <1>3, LenProperties
<1> QED
  BY <1>1, <1>2, <1>3, <1>4 DEF t

\* A write that ends leaves its contents on the disk.
LEMMA SettledDone ==
    ASSUME NEW s \in Seq(Bufs), NEW K, NEW L, NEW d, NEW e, NEW x, NEW b \in Bufs,
           Once(s), b \in ToSet(s), \A a \in ToSet(s) \ {b} : SameWrite(K, L, a),
           NEW i \in DOMAIN s, s[i] = b, \A j \in 1 .. i - 1 : K.buf[s[j]].blkno # K.buf[b].blkno,
           e[x] = IF WritesIn(K, b, x) THEN K.buf[b].data ELSE d[x]
    PROVE  SettledIn(L, RemoveFirst(s, b), e, x) = SettledIn(K, s, d, x)
<1> DEFINE t == RemoveFirst(s, b)
<1>1. t \in Seq(Bufs) /\ ToSet(t) = ToSet(s) \ {b}
  BY RemovedFacts
<1>2. PICK k \in DOMAIN s :
              /\ s[k] = b /\ DOMAIN s = 1 .. Len(s) /\ Len(s) \in Nat
              /\ DOMAIN t = 1 .. Len(s) - 1
              /\ \A j \in 1 .. Len(s) - 1 : t[j] = IF j < k THEN s[j] ELSE s[j + 1]
  BY RemovedPlaces
<1>3. i = k
  BY <1>2 DEF Once
<1> HIDE DEF t
<1>4. \A j \in DOMAIN t : t[j] \in ToSet(s) \ {b}
  BY <1>1, SeqFacts
<1>5. \A j \in DOMAIN t : WritesIn(L, t[j], x) <=> WritesIn(K, t[j], x)
  BY <1>4 DEF SameWrite, WritesIn
<1>6. CASE (\A m \in DOMAIN s : ~WritesIn(K, s[m], x)) /\ SettledIn(K, s, d, x) = d[x]
  <2>1. \A j \in DOMAIN t : \E m \in DOMAIN s : t[j] = s[m]
    BY <1>2
  <2>2. \A j \in DOMAIN t : ~WritesIn(L, t[j], x)
    BY <1>5, <1>6, <2>1
  <2>3. SettledIn(L, t, e, x) = e[x]
    BY <1>1, <2>2, SettledIs
  <2> QED
    BY <1>6, <2>3 DEF t
<1>7. ASSUME NEW m \in DOMAIN s, WritesIn(K, s[m], x),
             \A j \in DOMAIN s : j > m => ~WritesIn(K, s[j], x),
             SettledIn(K, s, d, x) = K.buf[s[m]].data
      PROVE  SettledIn(L, t, e, x) = SettledIn(K, s, d, x)
  <2>1. CASE m = k
    <3>1. WritesIn(K, b, x)
      BY <1>2, <1>7, <2>1
    <3>2. ASSUME NEW j \in DOMAIN t PROVE ~WritesIn(L, t[j], x)
      <4>1. CASE j < k
        <5>1. t[j] = s[j] /\ j \in 1 .. i - 1
          BY <1>2, <1>3, <4>1
        <5> QED
          BY <1>5, <3>1, <5>1 DEF WritesIn
      <4>2. CASE ~(j < k)
        <5>1. t[j] = s[j + 1] /\ j + 1 \in DOMAIN s /\ j + 1 > m
          BY <1>2, <2>1, <4>2
        <5> QED
          BY <1>5, <1>7, <5>1
      <4> QED
        BY <4>1, <4>2
    <3>3. SettledIn(L, t, e, x) = e[x]
      BY <1>1, <3>2, SettledIs
    <3> QED
      BY <1>2, <1>7, <2>1, <3>1, <3>3
  <2>2. CASE m # k
    <3>1. PICK n \in DOMAIN t : t[n] = s[m] /\ n = IF m < k THEN m ELSE m - 1
      <4>1. CASE m < k
        BY <1>2, <4>1
      <4>2. CASE ~(m < k)
        <5>1. m - 1 \in DOMAIN t /\ t[m - 1] = s[(m - 1) + 1] /\ (m - 1) + 1 = m
          BY <1>2, <2>2, <4>2
        <5> QED
          BY <4>2, <5>1
      <4> QED
        BY <4>1, <4>2
    <3>2. ASSUME NEW j \in DOMAIN t, j > n PROVE ~WritesIn(L, t[j], x)
      <4>1. PICK q \in DOMAIN s : t[j] = s[q] /\ q = IF j < k THEN j ELSE j + 1
        BY <1>2
      <4>2. q > m
        BY <1>2, <3>1, <3>2, <4>1, <2>2
      <4> QED
        BY <1>5, <1>7, <4>1, <4>2
    <3>3. WritesIn(L, t[n], x)
      BY <1>5, <1>7, <3>1
    <3>4. SettledIn(L, t, e, x) = L.buf[t[n]].data
      BY <1>1, <3>2, <3>3, SettledIs
    <3>5. L.buf[t[n]].data = K.buf[t[n]].data
      BY <1>4 DEF SameWrite
    <3> QED
      BY <1>7, <3>1, <3>4, <3>5
  <2> QED
    BY <2>1, <2>2
<1> QED
  BY <1>6, <1>7, SettledFacts DEF t

-----------------------------------------------------------------------------
(***************************************************************************)
(* The contents of a block: in the buffer of a delayed write, or else      *)
(* settled.                                                                *)
(***************************************************************************)
\* One buffer stands for a block.
Alone(K) ==
    \A a, b \in Bufs : /\ K.buf[a].blkno = K.buf[b].blkno /\ K.buf[a].blkno # NoBlock
                       /\ "STALE" \notin K.buf[a].flags /\ "STALE" \notin K.buf[b].flags
                       => a = b

DelayedIn(K, b, x) ==
    K.buf[b].blkno = x /\ "STALE" \notin K.buf[b].flags /\ "DELWRI" \in K.buf[b].flags

ContentsIn(K, s, d, x) ==
    IF \E b \in Bufs : DelayedIn(K, b, x) THEN K.buf[CHOOSE b \in Bufs : DelayedIn(K, b, x)].data
    ELSE SettledIn(K, s, d, x)

\* What BioInv says of a cache K with the buffers s under way.
CacheOK(K, s) ==
    /\ K \in CacheType /\ s \in Seq(Bufs) /\ Once(s) /\ Alone(K)
    /\ \A a \in Bufs : /\ a \in ToSet(s) => K.buf[a].blkno # NoBlock /\ "DONE" \notin K.buf[a].flags
                       /\ "DELWRI" \in K.buf[a].flags => "DONE" \in K.buf[a].flags /\ K.buf[a].blkno # NoBlock

\* What a buffer has that is done is settled, unless it is to be written; of the
\* transfers of one block the last is that of the buffer which stands for it.
ContentsOK(K, s, d, b) ==
    /\ "ERROR" \notin K.buf[b].flags
    /\ "STALE" \in K.buf[b].flags => "DELWRI" \notin K.buf[b].flags
    /\ /\ "DONE" \in K.buf[b].flags /\ "DELWRI" \notin K.buf[b].flags
       /\ "STALE" \notin K.buf[b].flags /\ K.buf[b].blkno # NoBlock
       => K.buf[b].data = SettledIn(K, s, d, K.buf[b].blkno)

SentInOrder(K, s) ==
    \A i, j \in DOMAIN s : i < j /\ K.buf[s[i]].blkno = K.buf[s[j]].blkno => "STALE" \in K.buf[s[i]].flags

StoreOK(K, s, d) == (\A b \in Bufs : ContentsOK(K, s, d, b)) /\ SentInOrder(K, s)

LEMMA ContentsAre ==
    ASSUME NEW K, Alone(K), NEW s, NEW d, NEW x, x # NoBlock
    PROVE  /\ \A b \in Bufs : DelayedIn(K, b, x) => ContentsIn(K, s, d, x) = K.buf[b].data
           /\ (\A b \in Bufs : ~DelayedIn(K, b, x)) => ContentsIn(K, s, d, x) = SettledIn(K, s, d, x)
<1>1. ASSUME NEW b \in Bufs, DelayedIn(K, b, x)
      PROVE  ContentsIn(K, s, d, x) = K.buf[b].data
  <2> DEFINE a == CHOOSE a \in Bufs : DelayedIn(K, a, x)
  <2>1. a \in Bufs /\ DelayedIn(K, a, x)
    BY <1>1
  <2>2. ContentsIn(K, s, d, x) = K.buf[a].data
    BY <1>1 DEF ContentsIn
  <2> HIDE DEF a
  <2>3. a = b
    BY <1>1, <2>1 DEF Alone, DelayedIn
  <2> QED
    BY <2>2, <2>3
<1>2. (\A b \in Bufs : ~DelayedIn(K, b, x)) => ContentsIn(K, s, d, x) = SettledIn(K, s, d, x)
  BY DEF ContentsIn
<1> QED
  BY <1>1, <1>2

\* As far as its contents go the buffer is as it was.
Steady(K, L, a) ==
    /\ L.buf[a].blkno = K.buf[a].blkno
    /\ K.buf[a].blkno # NoBlock =>
         /\ L.buf[a].data = K.buf[a].data
         /\ \A f \in {"DONE", "DELWRI", "READ", "STALE"} : f \in L.buf[a].flags <=> f \in K.buf[a].flags
    /\ \A f \in {"ERROR", "DELWRI", "STALE"} : f \in L.buf[a].flags => f \in K.buf[a].flags

\* The buffer has got a block that nobody has written to it, or has lost one.
Blank(K, L, s, a) ==
    /\ a \notin ToSet(s) /\ "DELWRI" \notin K.buf[a].flags /\ "DELWRI" \notin L.buf[a].flags
    /\ "ERROR" \notin L.buf[a].flags
    /\ L.buf[a].blkno = NoBlock \/ "DONE" \notin L.buf[a].flags

LEMMA BlankKind ==
    ASSUME NEW K, NEW L, NEW s, NEW d, CacheOK(K, s), CacheOK(L, s), StoreOK(K, s, d),
           \A a \in Bufs : Steady(K, L, a) \/ Blank(K, L, s, a)
    PROVE  StoreOK(L, s, d) /\ \A x \in Blocks : ContentsIn(L, s, d, x) = ContentsIn(K, s, d, x)
<1>1. s \in Seq(Bufs) /\ ToSet(s) \subseteq Bufs
  BY SeqFacts DEF CacheOK
<1>2. ASSUME NEW a \in ToSet(s) PROVE Steady(K, L, a) /\ SameWrite(K, L, a)
  BY <1>1 DEF Blank, Steady, SameWrite, CacheOK
<1>3. \A x : SettledIn(L, s, d, x) = SettledIn(K, s, d, x)
  BY <1>1, <1>2, SettledSame
<1>4. ASSUME NEW b \in Bufs PROVE ContentsOK(L, s, d, b)
  <2>1. ContentsOK(K, s, d, b)
    BY DEF StoreOK
  <2>2. CASE Steady(K, L, b)
    BY <1>3, <2>1, <2>2 DEF ContentsOK, Steady
  <2>3. CASE Blank(K, L, s, b)
    BY <1>3, <2>1, <2>3 DEF ContentsOK, Blank
  <2> QED
    BY <2>2, <2>3
<1>5. SentInOrder(L, s)
  <2> SUFFICES ASSUME NEW i \in DOMAIN s, NEW j \in DOMAIN s, i < j, L.buf[s[i]].blkno = L.buf[s[j]].blkno
               PROVE  "STALE" \in L.buf[s[i]].flags
    BY DEF SentInOrder
  <2>1. s[i] \in ToSet(s) /\ s[j] \in ToSet(s)
    BY <1>1, SeqFacts
  <2>2. Steady(K, L, s[i]) /\ Steady(K, L, s[j]) /\ K.buf[s[i]].blkno # NoBlock
    BY <1>1, <1>2, <2>1 DEF CacheOK
  <2>3. "STALE" \in K.buf[s[i]].flags
    BY <2>2 DEF Steady, StoreOK, SentInOrder
  <2> QED
    BY <2>2, <2>3 DEF Steady
<1>6. ASSUME NEW x \in Blocks PROVE ContentsIn(L, s, d, x) = ContentsIn(K, s, d, x)
  <2>1. x # NoBlock
    BY BioAssumption
  <2>2. \A b \in Bufs : DelayedIn(L, b, x) <=> DelayedIn(K, b, x)
    BY <2>1 DEF Steady, Blank, DelayedIn
  <2>3. CASE \A b \in Bufs : ~DelayedIn(K, b, x)
    BY <1>3, <2>1, <2>2, <2>3, ContentsAre DEF CacheOK
  <2>4. ASSUME NEW b \in Bufs, DelayedIn(K, b, x) PROVE ContentsIn(L, s, d, x) = ContentsIn(K, s, d, x)
    <3>1. L.buf[b].data = K.buf[b].data
      BY <2>1, <2>4 DEF Steady, Blank, DelayedIn
    <3> QED
      BY <2>1, <2>2, <2>4, <3>1, ContentsAre DEF CacheOK
  <2> QED
    BY <2>3, <2>4
<1> QED
  BY <1>4, <1>5, <1>6 DEF StoreOK

\* The transfer of a buffer starts: what a write has is what the block has.
LEMMA StartKind ==
    ASSUME NEW K, NEW L, NEW s, NEW d, NEW b \in Bufs, CacheOK(K, s), CacheOK(L, Append(s, b)), StoreOK(K, s, d),
           \A a \in Bufs \ {b} : Steady(K, L, a),
           b \notin ToSet(s), L.buf[b].blkno = K.buf[b].blkno, "STALE" \notin L.buf[b].flags,
           "DELWRI" \notin L.buf[b].flags, "ERROR" \notin L.buf[b].flags,
           "READ" \in L.buf[b].flags => "DELWRI" \notin K.buf[b].flags
    PROVE  /\ StoreOK(L, Append(s, b), d)
           /\ \A x \in Blocks : WritesIn(L, b, x) => ContentsIn(L, Append(s, b), d, x) = L.buf[b].data
           /\ \A x \in Blocks : ~WritesIn(L, b, x) => ContentsIn(L, Append(s, b), d, x) = ContentsIn(K, s, d, x)
<1> DEFINE t == Append(s, b)
<1>1. s \in Seq(Bufs) /\ ToSet(s) \subseteq Bufs /\ DOMAIN s = 1 .. Len(s) /\ Len(s) \in Nat
  BY SeqFacts DEF CacheOK
<1>2. /\ t \in Seq(Bufs) /\ Len(t) = Len(s) + 1 /\ ToSet(t) = ToSet(s) \cup {b}
      /\ \A i \in 1 .. Len(s) : t[i] = s[i]
      /\ t[Len(s) + 1] = b
  BY <1>1, Appended
<1> HIDE DEF t
<1>3. DOMAIN t = 1 .. Len(s) + 1
  BY <1>2, LenProperties
<1>4. ASSUME NEW a \in ToSet(s) PROVE a \in Bufs \ {b} /\ Steady(K, L, a) /\ SameWrite(K, L, a)
  BY <1>1 DEF Steady, SameWrite, CacheOK
<1>5. CacheOK(L, t) /\ Alone(L)
  BY DEF t, CacheOK
<1>6. b \in ToSet(t)
  BY <1>2
<1>7. L.buf[b].blkno # NoBlock /\ "DONE" \notin L.buf[b].flags
  BY <1>5, <1>6 DEF CacheOK
<1>8. \A x : SettledIn(L, t, d, x) = IF WritesIn(L, b, x) THEN L.buf[b].data ELSE SettledIn(K, s, d, x)
  BY <1>1, <1>4, SettledStarted DEF t
<1>9. ASSUME NEW a \in Bufs PROVE ContentsOK(L, t, d, a)
  <2>1. ContentsOK(K, s, d, a)
    BY DEF StoreOK
  <2>2. CASE a = b
    BY <1>7, <2>2 DEF ContentsOK
  <2>3. CASE a # b
    <3>1. Steady(K, L, a)
      BY <2>3
    <3>2. /\ "DONE" \in L.buf[a].flags /\ "DELWRI" \notin L.buf[a].flags
          /\ "STALE" \notin L.buf[a].flags /\ L.buf[a].blkno # NoBlock
          => L.buf[a].data = SettledIn(K, s, d, L.buf[a].blkno) /\ ~WritesIn(L, b, L.buf[a].blkno)
      BY <1>5, <2>1, <2>3, <3>1 DEF ContentsOK, Steady, Alone, WritesIn
    <3>3. /\ "ERROR" \notin L.buf[a].flags
          /\ "STALE" \in L.buf[a].flags => "DELWRI" \notin L.buf[a].flags
      BY <2>1, <3>1 DEF ContentsOK, Steady
    <3> QED
      BY <1>8, <3>2, <3>3 DEF ContentsOK
  <2> QED
    BY <2>2, <2>3
<1>10. SentInOrder(L, t)
  <2> SUFFICES ASSUME NEW i \in DOMAIN t, NEW j \in DOMAIN t, i < j, L.buf[t[i]].blkno = L.buf[t[j]].blkno,
                      "STALE" \notin L.buf[t[i]].flags
               PROVE  FALSE
    BY DEF SentInOrder
  <2>1. i \in DOMAIN s /\ t[i] = s[i] /\ s[i] \in ToSet(s)
    <3>1. i \in DOMAIN s /\ t[i] = s[i]
      BY <1>1, <1>2, <1>3
    <3> QED
      BY <1>1, <3>1, SeqFacts
  <2>2. CASE j = Len(s) + 1
    BY <1>2, <1>4, <1>5, <1>7, <2>1, <2>2 DEF Alone
  <2>3. CASE j # Len(s) + 1
    <3>1. j \in DOMAIN s /\ t[j] = s[j]
      BY <1>1, <1>2, <1>3, <2>3
    <3>2. s[j] \in ToSet(s)
      BY <1>1, <3>1, SeqFacts
    <3>3. K.buf[s[i]].blkno = K.buf[s[j]].blkno
      BY <1>4, <2>1, <3>1, <3>2 DEF Steady
    <3>4. "STALE" \in K.buf[s[i]].flags
      BY <2>1, <3>1, <3>3 DEF StoreOK, SentInOrder
    <3>5. Steady(K, L, s[i]) /\ K.buf[s[i]].blkno # NoBlock
      BY <1>4, <2>1 DEF CacheOK
    <3> QED
      BY <2>1, <3>4, <3>5 DEF Steady
  <2> QED
    BY <2>2, <2>3
<1>11. ASSUME NEW x \in Blocks
       PROVE  /\ WritesIn(L, b, x) => ContentsIn(L, t, d, x) = L.buf[b].data
              /\ ~WritesIn(L, b, x) => ContentsIn(L, t, d, x) = ContentsIn(K, s, d, x)
  <2>1. x # NoBlock /\ Alone(K)
    BY BioAssumption DEF CacheOK
  <2>2. \A a \in Bufs \ {b} : DelayedIn(L, a, x) <=> DelayedIn(K, a, x)
    BY <2>1 DEF Steady, DelayedIn
  <2>3. ~DelayedIn(L, b, x)
    BY DEF DelayedIn
  <2>4. CASE WritesIn(L, b, x)
    <3>1. \A a \in Bufs : ~DelayedIn(L, a, x)
      BY <1>5, <2>1, <2>3, <2>4 DEF DelayedIn, WritesIn, Alone
    <3> QED
      BY <1>5, <1>8, <2>1, <2>4, <3>1, ContentsAre
  <2>5. CASE ~WritesIn(L, b, x)
    <3>1. ~DelayedIn(K, b, x)
      BY <2>5 DEF DelayedIn, WritesIn
    <3>2. CASE \A a \in Bufs : ~DelayedIn(K, a, x)
      BY <1>5, <1>8, <2>1, <2>2, <2>3, <2>5, <3>2, ContentsAre
    <3>3. ASSUME NEW a \in Bufs, DelayedIn(K, a, x)
          PROVE  ContentsIn(L, t, d, x) = ContentsIn(K, s, d, x)
      <4>1. a # b /\ DelayedIn(L, a, x)
        BY <2>2, <3>1, <3>3
      <4>2. L.buf[a].data = K.buf[a].data
        BY <2>1, <3>3, <4>1 DEF Steady, DelayedIn
      <4> QED
        BY <1>5, <2>1, <3>3, <4>1, <4>2, ContentsAre
    <3> QED
      BY <2>5, <3>2, <3>3
  <2> QED
    BY <2>4, <2>5
<1> QED
  BY <1>9, <1>10, <1>11 DEF StoreOK, t

\* A delayed write.
LEMMA DirtyKind ==
    ASSUME NEW K, NEW L, NEW s, NEW d, NEW b \in Bufs, CacheOK(K, s), CacheOK(L, s), StoreOK(K, s, d),
           \A a \in Bufs \ {b} : Steady(K, L, a),
           b \notin ToSet(s), L.buf[b].blkno = K.buf[b].blkno, "STALE" \notin L.buf[b].flags,
           "DELWRI" \in L.buf[b].flags, "ERROR" \notin L.buf[b].flags
    PROVE  /\ StoreOK(L, s, d)
           /\ \A x \in Blocks : L.buf[b].blkno = x => ContentsIn(L, s, d, x) = L.buf[b].data
           /\ \A x \in Blocks : L.buf[b].blkno # x => ContentsIn(L, s, d, x) = ContentsIn(K, s, d, x)
<1>1. s \in Seq(Bufs) /\ ToSet(s) \subseteq Bufs /\ Alone(K) /\ Alone(L)
  BY SeqFacts DEF CacheOK
<1>2. ASSUME NEW a \in ToSet(s) PROVE Steady(K, L, a) /\ SameWrite(K, L, a)
  BY <1>1 DEF Steady, SameWrite, CacheOK
<1>3. \A x : SettledIn(L, s, d, x) = SettledIn(K, s, d, x)
  BY <1>1, <1>2, SettledSame
<1>4. ASSUME NEW a \in Bufs PROVE ContentsOK(L, s, d, a)
  <2>1. ContentsOK(K, s, d, a)
    BY DEF StoreOK
  <2>2. CASE a = b
    BY <2>2 DEF ContentsOK
  <2>3. CASE a # b
    BY <1>3, <2>1, <2>3 DEF ContentsOK, Steady
  <2> QED
    BY <2>2, <2>3
<1>5. SentInOrder(L, s)
  <2> SUFFICES ASSUME NEW i \in DOMAIN s, NEW j \in DOMAIN s, i < j, L.buf[s[i]].blkno = L.buf[s[j]].blkno
               PROVE  "STALE" \in L.buf[s[i]].flags
    BY DEF SentInOrder
  <2>1. s[i] \in ToSet(s) /\ s[j] \in ToSet(s)
    BY <1>1, SeqFacts
  <2>2. Steady(K, L, s[i]) /\ Steady(K, L, s[j]) /\ K.buf[s[i]].blkno # NoBlock
    BY <1>1, <1>2, <2>1 DEF CacheOK
  <2>3. "STALE" \in K.buf[s[i]].flags
    BY <2>2 DEF Steady, StoreOK, SentInOrder
  <2> QED
    BY <2>2, <2>3 DEF Steady
<1>6. ASSUME NEW x \in Blocks
      PROVE  /\ L.buf[b].blkno = x => ContentsIn(L, s, d, x) = L.buf[b].data
             /\ L.buf[b].blkno # x => ContentsIn(L, s, d, x) = ContentsIn(K, s, d, x)
  <2>1. x # NoBlock
    BY BioAssumption
  <2>2. CASE L.buf[b].blkno = x
    BY <1>1, <2>1, <2>2, ContentsAre DEF DelayedIn
  <2>3. CASE L.buf[b].blkno # x
    <3>1. \A a \in Bufs : DelayedIn(L, a, x) <=> DelayedIn(K, a, x)
      BY <2>1, <2>3 DEF Steady, DelayedIn
    <3>2. CASE \A a \in Bufs : ~DelayedIn(K, a, x)
      BY <1>1, <1>3, <2>1, <2>3, <3>1, <3>2, ContentsAre
    <3>3. ASSUME NEW a \in Bufs, DelayedIn(K, a, x)
          PROVE  ContentsIn(L, s, d, x) = ContentsIn(K, s, d, x)
      <4>1. L.buf[a].data = K.buf[a].data
        BY <2>1, <2>3, <3>3 DEF Steady, DelayedIn
      <4> QED
        BY <1>1, <2>1, <3>1, <3>3, <4>1, ContentsAre
    <3> QED
      BY <2>3, <3>2, <3>3
  <2> QED
    BY <2>2, <2>3
<1> QED
  BY <1>4, <1>5, <1>6 DEF StoreOK

\* A transfer ends: what has been read is what the block has.
LEMMA DoneKind ==
    ASSUME NEW K, NEW L, NEW s, NEW d, NEW e, NEW b \in ToSet(s), NEW i \in DOMAIN s,
           CacheOK(K, s), CacheOK(L, RemoveFirst(s, b)), StoreOK(K, s, d),
           \A a \in Bufs \ {b} : Steady(K, L, a),
           s[i] = b, \A j \in 1 .. i - 1 : K.buf[s[j]].blkno # K.buf[b].blkno,
           L.buf[b].blkno = K.buf[b].blkno, ("STALE" \in L.buf[b].flags) <=> ("STALE" \in K.buf[b].flags),
           "DELWRI" \notin L.buf[b].flags, "ERROR" \notin L.buf[b].flags,
           L.buf[b].data = IF "READ" \in K.buf[b].flags THEN d[K.buf[b].blkno] ELSE K.buf[b].data,
           \A x \in Blocks : e[x] = IF WritesIn(K, b, x) THEN K.buf[b].data ELSE d[x]
    PROVE  /\ StoreOK(L, RemoveFirst(s, b), e)
           /\ \A x \in Blocks : ContentsIn(L, RemoveFirst(s, b), e, x) = ContentsIn(K, s, d, x)
<1> DEFINE t == RemoveFirst(s, b)
<1>1. s \in Seq(Bufs) /\ Once(s) /\ ToSet(s) \subseteq Bufs /\ DOMAIN s = 1 .. Len(s) /\ Len(s) \in Nat
  BY SeqFacts DEF CacheOK
<1>2. b \in Bufs
  BY <1>1
<1>3. PICK k \in DOMAIN s :
              /\ s[k] = b /\ DOMAIN t = 1 .. Len(s) - 1
              /\ \A j \in 1 .. Len(s) - 1 : t[j] = IF j < k THEN s[j] ELSE s[j + 1]
  BY <1>1, <1>2, RemovedPlaces
<1>4. k = i
  BY <1>1, <1>3 DEF Once
<1>5. ToSet(t) = ToSet(s) \ {b} /\ t \in Seq(Bufs)
  BY <1>1, <1>2, RemovedFacts
<1> HIDE DEF t
<1>6. CacheOK(L, t) /\ Alone(L) /\ Alone(K) /\ K.buf[b].blkno \in Blocks /\ K.buf[b].blkno # NoBlock
  <2>1. K \in CacheType /\ K.buf[b].blkno # NoBlock
    BY <1>2 DEF CacheOK
  <2>2. K.buf[b].blkno \in Blocks \cup {NoBlock}
    BY <1>2, <2>1, CacheFields
  <2> QED
    BY <2>1, <2>2 DEF CacheOK, t
<1>7. ASSUME NEW a \in ToSet(s) \ {b} PROVE Steady(K, L, a) /\ SameWrite(K, L, a) /\ K.buf[a].blkno # NoBlock
  BY <1>1 DEF Steady, SameWrite, CacheOK
<1>8. \A x \in Blocks : SettledIn(L, t, e, x) = SettledIn(K, s, d, x)
  BY <1>1, <1>2, <1>7, SettledDone DEF t
<1>9. "STALE" \notin K.buf[b].flags => \A j \in DOMAIN s : j # i => K.buf[s[j]].blkno # K.buf[b].blkno
  <2> SUFFICES ASSUME "STALE" \notin K.buf[b].flags, NEW j \in DOMAIN s, j # i
               PROVE  K.buf[s[j]].blkno # K.buf[b].blkno
    OBVIOUS
  <2>1. CASE j < i
    BY <1>1, <2>1
  <2>2. CASE i < j
    BY <2>2 DEF StoreOK, SentInOrder
  <2> QED
    BY <1>1, <2>1, <2>2
<1>10. "STALE" \notin K.buf[b].flags => L.buf[b].data = SettledIn(K, s, d, K.buf[b].blkno)
  <2> SUFFICES ASSUME "STALE" \notin K.buf[b].flags
               PROVE  L.buf[b].data = SettledIn(K, s, d, K.buf[b].blkno)
    OBVIOUS
  <2>1. CASE "READ" \in K.buf[b].flags
    <3>1. \A j \in DOMAIN s : ~WritesIn(K, s[j], K.buf[b].blkno)
      BY <1>9, <2>1 DEF WritesIn
    <3> QED
      BY <1>1, <2>1, <3>1, SettledIs
  <2>2. CASE "READ" \notin K.buf[b].flags
    <3>1. WritesIn(K, s[i], K.buf[b].blkno)
      BY <2>2 DEF WritesIn
    <3>2. \A j \in DOMAIN s : j > i => ~WritesIn(K, s[j], K.buf[b].blkno)
      BY <1>1, <1>9 DEF WritesIn
    <3> QED
      BY <1>1, <2>2, <3>1, <3>2, SettledIs
  <2> QED
    BY <2>1, <2>2
<1>11. ASSUME NEW a \in Bufs PROVE ContentsOK(L, t, e, a)
  <2>1. ContentsOK(K, s, d, a)
    BY DEF StoreOK
  <2>2. CASE a = b
    BY <1>6, <1>8, <1>10, <2>2 DEF ContentsOK
  <2>3. CASE a # b
    <3>1. K.buf[a].blkno \in Blocks \cup {NoBlock}
      <4>1. K \in CacheType
        BY DEF CacheOK
      <4> QED
        BY <4>1, CacheFields
    <3>2. L.buf[a].blkno # NoBlock => SettledIn(L, t, e, L.buf[a].blkno) = SettledIn(K, s, d, K.buf[a].blkno)
      BY <1>8, <2>3, <3>1 DEF Steady
    <3> QED
      BY <2>1, <2>3, <3>2 DEF ContentsOK, Steady
  <2> QED
    BY <2>2, <2>3
<1>12. SentInOrder(L, t)
  <2> SUFFICES ASSUME NEW m \in DOMAIN t, NEW n \in DOMAIN t, m < n, L.buf[t[m]].blkno = L.buf[t[n]].blkno
               PROVE  "STALE" \in L.buf[t[m]].flags
    BY DEF SentInOrder
  <2>1. PICK v \in DOMAIN s : t[m] = s[v] /\ v = IF m < k THEN m ELSE m + 1
    BY <1>1, <1>3
  <2>2. PICK w \in DOMAIN s : t[n] = s[w] /\ w = IF n < k THEN n ELSE n + 1
    BY <1>1, <1>3
  <2>3. v < w
    BY <1>1, <1>3, <2>1, <2>2
  <2>4. t[m] \in ToSet(s) \ {b} /\ t[n] \in ToSet(s) \ {b}
    BY <1>5, SeqFacts
  <2>5. K.buf[s[v]].blkno = K.buf[s[w]].blkno
    BY <1>7, <2>1, <2>2, <2>4 DEF Steady
  <2>6. "STALE" \in K.buf[t[m]].flags
    BY <2>1, <2>3, <2>5 DEF StoreOK, SentInOrder
  <2> QED
    BY <1>7, <2>4, <2>6 DEF Steady
<1>13. ASSUME NEW x \in Blocks PROVE ContentsIn(L, t, e, x) = ContentsIn(K, s, d, x)
  <2>1. x # NoBlock
    BY BioAssumption
  <2>2. ~DelayedIn(K, b, x) /\ ~DelayedIn(L, b, x)
    BY <1>2 DEF CacheOK, DelayedIn
  <2>3. \A a \in Bufs : DelayedIn(L, a, x) <=> DelayedIn(K, a, x)
    BY <2>1, <2>2 DEF Steady, DelayedIn
  <2>4. CASE \A a \in Bufs : ~DelayedIn(K, a, x)
    BY <1>6, <1>8, <2>1, <2>3, <2>4, ContentsAre
  <2>5. ASSUME NEW a \in Bufs, DelayedIn(K, a, x)
        PROVE  ContentsIn(L, t, e, x) = ContentsIn(K, s, d, x)
    <3>1. L.buf[a].data = K.buf[a].data
      BY <2>1, <2>2, <2>5 DEF Steady, DelayedIn
    <3> QED
      BY <1>6, <2>1, <2>3, <2>5, <3>1, ContentsAre
  <2> QED
    BY <2>4, <2>5
<1> QED
  BY <1>11, <1>12, <1>13 DEF StoreOK, t

\* binval(), with no delayed write left.
LEMMA BinvalKind ==
    ASSUME NEW K, NEW L, NEW s, NEW d, CacheOK(K, s), CacheOK(L, s), StoreOK(K, s, d),
           \A a \in Bufs : /\ L.buf[a].blkno = K.buf[a].blkno /\ L.buf[a].data = K.buf[a].data
                           /\ \A f \in {"DONE", "DELWRI", "READ", "ERROR"} :
                                f \in L.buf[a].flags <=> f \in K.buf[a].flags
                           /\ "STALE" \in K.buf[a].flags => "STALE" \in L.buf[a].flags
                           /\ "DELWRI" \notin K.buf[a].flags
    PROVE  StoreOK(L, s, d) /\ \A x \in Blocks : ContentsIn(L, s, d, x) = ContentsIn(K, s, d, x)
<1>1. s \in Seq(Bufs) /\ ToSet(s) \subseteq Bufs /\ Alone(K) /\ Alone(L)
  BY SeqFacts DEF CacheOK
<1>2. \A a \in ToSet(s) : SameWrite(K, L, a)
  BY <1>1 DEF SameWrite
<1>3. \A x : SettledIn(L, s, d, x) = SettledIn(K, s, d, x)
  BY <1>1, <1>2, SettledSame
<1>4. ASSUME NEW a \in Bufs PROVE ContentsOK(L, s, d, a)
  <2>1. ContentsOK(K, s, d, a)
    BY DEF StoreOK
  <2> QED
    BY <1>3, <2>1 DEF ContentsOK
<1>5. SentInOrder(L, s)
  <2> SUFFICES ASSUME NEW i \in DOMAIN s, NEW j \in DOMAIN s, i < j, L.buf[s[i]].blkno = L.buf[s[j]].blkno
               PROVE  "STALE" \in L.buf[s[i]].flags
    BY DEF SentInOrder
  <2>1. s[i] \in Bufs /\ s[j] \in Bufs
    BY <1>1, SeqFacts
  <2>2. "STALE" \in K.buf[s[i]].flags
    BY <2>1 DEF StoreOK, SentInOrder
  <2> QED
    BY <2>1, <2>2
<1>6. ASSUME NEW x \in Blocks PROVE ContentsIn(L, s, d, x) = ContentsIn(K, s, d, x)
  <2>1. x # NoBlock
    BY BioAssumption
  <2>2. \A a \in Bufs : ~DelayedIn(L, a, x) /\ ~DelayedIn(K, a, x)
    BY DEF DelayedIn
  <2> QED
    BY <1>1, <1>3, <2>1, <2>2, ContentsAre
<1> QED
  BY <1>4, <1>5, <1>6 DEF StoreOK

-----------------------------------------------------------------------------
(***************************************************************************)
(* The mapping.                                                            *)
(***************************************************************************)
LEMMA OneIsAlone ==
    ASSUME NEW K \in CacheType,
           \A x \in Blocks : Cardinality({b \in Bufs : K.buf[b].blkno = x /\ "STALE" \notin K.buf[b].flags}) <= 1
    PROVE  Alone(K)
<1> SUFFICES ASSUME NEW a \in Bufs, NEW b \in Bufs, K.buf[a].blkno = K.buf[b].blkno, K.buf[a].blkno # NoBlock,
                    "STALE" \notin K.buf[a].flags, "STALE" \notin K.buf[b].flags, a # b
             PROVE  FALSE
  BY DEF Alone
<1>1. PICK x \in Blocks : x = K.buf[a].blkno
  BY CacheFields
<1> DEFINE S == {e \in Bufs : K.buf[e].blkno = x /\ "STALE" \notin K.buf[e].flags}
<1>2. {a, b} \subseteq S
  BY <1>1
<1>3. IsFiniteSet(S) /\ Cardinality(S) <= 1
  BY BioAssumption, FS_Subset
<1> HIDE DEF S
<1>4. Cardinality({a, b}) <= Cardinality(S) /\ Cardinality({a, b}) \in Nat /\ Cardinality(S) \in Nat
  BY <1>2, <1>3, FS_Subset, FS_CardinalityType
<1>5. Cardinality({b} \cup {a}) = Cardinality({b}) + 1
  BY FS_Singleton, FS_AddElement
<1>6. Cardinality({b}) = 1 /\ {b} \cup {a} = {a, b}
  BY FS_Singleton
<1>7. Cardinality({a, b}) = 1 + 1
  BY <1>5, <1>6
<1>8. Cardinality(S) <= 1
  BY <1>3
<1> QED
  BY <1>4, <1>7, <1>8

LEMMA CacheNow ==
    ASSUME BioInv
    PROVE  CacheOK(c, io)
<1>1. c \in CacheType /\ io \in Seq(Bufs) /\ Once(io)
  BY DEF BioInv, TypeOK, CacheType, ProcInv, BufsOK
<1>2. \A x \in Blocks : Cardinality({b \in Bufs : c.buf[b].blkno = x /\ "STALE" \notin c.buf[b].flags}) <= 1
  BY DEF BioInv, OneBufferPerBlock, Cached, Is
<1>3. Alone(c)
  BY <1>1, <1>2, OneIsAlone
<1>4. \A b \in Bufs : PointOK(c.buf[b], b \in ToSet(c.free), b \in ToSet(io), HasOwner(b))
  BY DEF BioInv, ProcInv, BufsOK
<1>5. ASSUME NEW a \in Bufs
      PROVE  /\ a \in ToSet(io) => c.buf[a].blkno # NoBlock /\ "DONE" \notin c.buf[a].flags
             /\ "DELWRI" \in c.buf[a].flags => "DONE" \in c.buf[a].flags /\ c.buf[a].blkno # NoBlock
  BY <1>4 DEF PointOK
<1> QED
  BY <1>1, <1>3, <1>5 DEF CacheOK

LEMMA CacheThen ==
    ASSUME BioInv'
    PROVE  CacheOK(c', io')
<1>1. c' \in CacheType /\ io' \in Seq(Bufs) /\ Once(io')
  BY DEF BioInv, TypeOK, CacheType, ProcInv, BufsOK
<1>2. \A x \in Blocks : Cardinality({b \in Bufs : c'.buf[b].blkno = x /\ "STALE" \notin c'.buf[b].flags}) <= 1
  BY DEF BioInv, OneBufferPerBlock, Cached, Is
<1>3. Alone(c')
  BY <1>1, <1>2, OneIsAlone
<1>4. \A b \in Bufs : PointOK(c'.buf[b], b \in ToSet(c'.free), b \in ToSet(io'), HasOwner(b)')
  BY DEF BioInv, ProcInv, BufsOK
<1>5. ASSUME NEW a \in Bufs
      PROVE  /\ a \in ToSet(io') => c'.buf[a].blkno # NoBlock /\ "DONE" \notin c'.buf[a].flags
             /\ "DELWRI" \in c'.buf[a].flags => "DONE" \in c'.buf[a].flags /\ c'.buf[a].blkno # NoBlock
  BY <1>4 DEF PointOK
<1> QED
  BY <1>1, <1>3, <1>5 DEF CacheOK

\* AbsStore, of a cache K with the buffers s under way and the disk d.
ValidIn(K, s, b) == "DONE" \in K.buf[b].flags \/ (b \in ToSet(s) /\ "READ" \notin K.buf[b].flags)
CachedIn(K, x)   == {b \in Bufs : K.buf[b].blkno = x /\ "STALE" \notin K.buf[b].flags}
StoreOf(K, s, d, x) ==
    LET valid == {b \in CachedIn(K, x) : ValidIn(K, s, b)}
    IN IF valid # {} THEN K.buf[CHOOSE b \in valid : TRUE].data ELSE SettledIn(K, s, d, x)

\* What is valid is what the block has: to be written, on its way or there.
LEMMA StoreIs ==
    ASSUME NEW K, NEW s, NEW d, NEW x \in Blocks, CacheOK(K, s), StoreOK(K, s, d)
    PROVE  StoreOf(K, s, d, x) = ContentsIn(K, s, d, x)
<1> DEFINE valid == {b \in CachedIn(K, x) : ValidIn(K, s, b)}
<1>1. x # NoBlock /\ Alone(K) /\ s \in Seq(Bufs) /\ DOMAIN s = 1 .. Len(s) /\ Len(s) \in Nat
  BY BioAssumption, SeqFacts DEF CacheOK
<1>2. CASE valid = {}
  <2>1. \A b \in Bufs : ~DelayedIn(K, b, x)
    BY <1>2 DEF CacheOK, DelayedIn, ValidIn, CachedIn
  <2> QED
    BY <1>1, <1>2, <2>1, ContentsAre DEF StoreOf
<1>3. CASE valid # {}
  <2> DEFINE b == CHOOSE b \in valid : TRUE
  <2>1. b \in valid /\ StoreOf(K, s, d, x) = K.buf[b].data
    BY <1>3 DEF StoreOf
  <2> HIDE DEF b
  <2>2. b \in Bufs /\ K.buf[b].blkno = x /\ "STALE" \notin K.buf[b].flags /\ ValidIn(K, s, b)
    BY <2>1 DEF CachedIn
  <2>3. CASE "DELWRI" \in K.buf[b].flags
    BY <1>1, <2>1, <2>2, <2>3, ContentsAre DEF DelayedIn
  <2>4. CASE "DELWRI" \notin K.buf[b].flags
    <3>1. \A a \in Bufs : ~DelayedIn(K, a, x)
      BY <1>1, <2>2, <2>4 DEF Alone, DelayedIn
    <3>2. ContentsIn(K, s, d, x) = SettledIn(K, s, d, x)
      BY <1>1, <3>1, ContentsAre
    <3>3. CASE "DONE" \in K.buf[b].flags
      BY <1>1, <2>1, <2>2, <2>4, <3>2, <3>3 DEF StoreOK, ContentsOK
    <3>4. CASE b \in ToSet(s) /\ "READ" \notin K.buf[b].flags
      <4>1. PICK i \in DOMAIN s : s[i] = b
        BY <1>1, <3>4, SeqFacts
      <4>2. WritesIn(K, s[i], x)
        BY <2>2, <3>4, <4>1 DEF WritesIn
      <4>3. ASSUME NEW j \in DOMAIN s, j > i PROVE ~WritesIn(K, s[j], x)
        <5>1. i < j
          BY <1>1, <4>3
        <5> QED
          BY <2>2, <4>1, <5>1 DEF WritesIn, StoreOK, SentInOrder
      <4>4. SettledIn(K, s, d, x) = K.buf[b].data
        BY <1>1, <4>1, <4>2, <4>3, SettledIs
      <4> QED
        BY <2>1, <3>2, <4>4
    <3> QED
      BY <2>2, <3>3, <3>4 DEF ValidIn
  <2> QED
    BY <2>3, <2>4
<1> QED
  BY <1>2, <1>3

LEMMA LastIs == \A x : LastWrite(x) = LastIn(c, io, x) /\ LastWrite(x)' = LastIn(c', io', x)
  BY DEF LastWrite, LastIn, SelectLastInSeq, Writes, WritesIn, Is

LEMMA AbsStoreIs ==
    /\ AbsStore = [x \in Blocks |-> StoreOf(c, io, disk, x)]
    /\ AbsStore' = [x \in Blocks |-> StoreOf(c', io', disk', x)]
<1>1. AbsStore = [x \in Blocks |-> StoreOf(c, io, disk, x)]
  BY LastIs DEF AbsStore, StoreOf, SettledIn, Cached, Valid, Is, CachedIn, ValidIn
<1>2. AbsStore' = [x \in Blocks |-> StoreOf(c', io', disk', x)]
  BY LastIs DEF AbsStore, StoreOf, SettledIn, Cached, Valid, Is, CachedIn, ValidIn
<1> QED
  BY <1>1, <1>2

\* Who has a block.
HasIn(K, f, p, x) == f[p].pc = "hold" /\ K.buf[f[p].bp].blkno = x
UserOf(K, f, x)   == IF \E p \in Procs : HasIn(K, f, p, x) THEN CHOOSE p \in Procs : HasIn(K, f, p, x) ELSE NoProc
OneUser(K, f)     == \A p, q \in Procs, x \in Blocks : HasIn(K, f, p, x) /\ HasIn(K, f, q, x) => p = q

\* What a process has is not stale; and when the flush of a block returns there is no
\* write of it left, but for one that was under way when the device was closed.
FreshOK(r) ==
    /\ r.bp # NoBuf => ~Is(r.bp, "STALE")
    /\ r.pc \in {"check", "got", "blkcheck"} => ~Is(r.b, "STALE")
    /\ r.pc = "flushed" => \A b \in Bufs : c.buf[b].blkno = r.blk =>
                             Is(b, "STALE") \/ (~Is(b, "DELWRI") /\ (b \in ToSet(io) => Is(b, "READ")))

\* With BioInv: what the refinement needs.
RefInv == StoreOK(c, io, disk) /\ \A p \in Procs : FreshOK(pr[p])

LEMMA AloneHasOne ==
    ASSUME NEW K, NEW f, Alone(K),
           \A p \in Procs : f[p].pc = "hold" => /\ f[p].bp \in Bufs /\ K.buf[f[p].bp].blkno # NoBlock
                                                /\ "STALE" \notin K.buf[f[p].bp].flags,
           \A p, q \in Procs : p # q /\ f[p].pc = "hold" /\ f[q].pc = "hold" => f[p].bp # f[q].bp
    PROVE  OneUser(K, f)
  BY DEF OneUser, HasIn, Alone

LEMMA OneUserNow ==
    ASSUME BioInv, RefInv
    PROVE  OneUser(c, pr)
<1>1. Alone(c)
  BY CacheNow DEF CacheOK
<1>2. ASSUME NEW p \in Procs, pr[p].pc = "hold"
      PROVE  /\ pr[p].bp \in Bufs /\ c.buf[pr[p].bp].blkno # NoBlock /\ "STALE" \notin c.buf[pr[p].bp].flags
             /\ pr[p].bp \in Owned(p)
  <2>1. pr[p] \in ProcRecord /\ CallOK(pr[p]) /\ HeldOK(pr[p]) /\ FreshOK(pr[p])
    BY DEF BioInv, TypeOK, ProcInv, ProcOK, RefInv
  <2>2. pr[p].bp # NoBuf /\ pr[p].bp \in Bufs
    BY <1>2, <2>1 DEF CallOK, ProcRecord
  <2> QED
    BY <2>1, <2>2 DEF HeldOK, FreshOK, Is, Owned
<1>3. \A p, q \in Procs : p # q => Owned(p) \cap Owned(q) = {}
  BY DEF BioInv, ProcInv, BufsOK
<1>4. \A p, q \in Procs : p # q /\ pr[p].pc = "hold" /\ pr[q].pc = "hold" => pr[p].bp # pr[q].bp
  BY <1>2, <1>3
<1> QED
  BY <1>1, <1>2, <1>4, AloneHasOne

LEMMA OneUserThen ==
    ASSUME BioInv', RefInv'
    PROVE  OneUser(c', pr')
<1>1. Alone(c')
  BY CacheThen DEF CacheOK
<1>2. ASSUME NEW p \in Procs, pr'[p].pc = "hold"
      PROVE  /\ pr'[p].bp \in Bufs /\ c'.buf[pr'[p].bp].blkno # NoBlock /\ "STALE" \notin c'.buf[pr'[p].bp].flags
             /\ pr'[p].bp \in Owned(p)'
  <2>1. pr'[p] \in ProcRecord /\ CallOK(pr'[p]) /\ HeldOK(pr[p])' /\ FreshOK(pr[p])'
    BY DEF BioInv, TypeOK, ProcInv, ProcOK, RefInv
  <2>2. pr'[p].bp # NoBuf /\ pr'[p].bp \in Bufs
    BY <1>2, <2>1 DEF CallOK, ProcRecord
  <2> QED
    BY <1>2, <2>1, <2>2 DEF HeldOK, FreshOK, Is, Owned
<1>3. \A p, q \in Procs : p # q => Owned(p)' \cap Owned(q)' = {}
  BY DEF BioInv, ProcInv, BufsOK
<1>4. \A p, q \in Procs : p # q /\ pr'[p].pc = "hold" /\ pr'[q].pc = "hold" => pr'[p].bp # pr'[q].bp
  BY <1>2, <1>3
<1> QED
  BY <1>1, <1>2, <1>4, AloneHasOne

LEMMA UserIs ==
    ASSUME NEW K, NEW f, OneUser(K, f), NEW x \in Blocks
    PROVE  /\ \A p \in Procs : HasIn(K, f, p, x) => UserOf(K, f, x) = p
           /\ (\A p \in Procs : ~HasIn(K, f, p, x)) => UserOf(K, f, x) = NoProc
<1>1. ASSUME NEW p \in Procs, HasIn(K, f, p, x) PROVE UserOf(K, f, x) = p
  <2> DEFINE q == CHOOSE q \in Procs : HasIn(K, f, q, x)
  <2>1. q \in Procs /\ HasIn(K, f, q, x) /\ UserOf(K, f, x) = q
    BY <1>1 DEF UserOf
  <2> HIDE DEF q
  <2> QED
    BY <1>1, <2>1 DEF OneUser
<1> QED
  BY <1>1 DEF UserOf

LEMMA AbsUserIs ==
    /\ AbsUser = [x \in Blocks |-> UserOf(c, pr, x)]
    /\ AbsUser' = [x \in Blocks |-> UserOf(c', pr', x)]
<1>1. AbsUser = [x \in Blocks |-> UserOf(c, pr, x)]
  BY DEF AbsUser, UserOf, HasBlock, HasIn
<1>2. AbsUser' = [x \in Blocks |-> UserOf(c', pr', x)]
  BY DEF AbsUser, UserOf, HasBlock, HasIn
<1> QED
  BY <1>1, <1>2

\* Process q has what it had.
HoldKept(q) ==
    /\ (pr'[q].pc = "hold") <=> (pr[q].pc = "hold")
    /\ pr[q].pc = "hold" => /\ pr'[q].bp = pr[q].bp /\ pr'[q].call = pr[q].call
                            /\ c'.buf[pr[q].bp].blkno = c.buf[pr[q].bp].blkno
                            /\ c'.buf[pr[q].bp].data = c.buf[pr[q].bp].data

LEMMA KeptHas ==
    ASSUME NEW q \in Procs, HoldKept(q)
    PROVE  /\ \A x : HasIn(c', pr', q, x) <=> HasIn(c, pr, q, x)
           /\ AbsView'[q] = AbsView[q]
<1>1. \A x : HasIn(c', pr', q, x) <=> HasIn(c, pr, q, x)
  BY DEF HoldKept, HasIn
<1>2. AbsView'[q] = AbsView[q]
  BY DEF HoldKept, AbsView
<1> QED
  BY <1>1, <1>2

SameContents == \A x \in Blocks : ContentsIn(c', io', disk', x) = ContentsIn(c, io, disk, x)

LEMMA AbsContents ==
    ASSUME BioInv, BioInv', RefInv, RefInv'
    PROVE  \A x \in Blocks : /\ AbsStore[x] = ContentsIn(c, io, disk, x)
                             /\ AbsStore'[x] = ContentsIn(c', io', disk', x)
<1>1. CacheOK(c, io) /\ CacheOK(c', io') /\ StoreOK(c, io, disk) /\ StoreOK(c', io', disk')
  BY CacheNow, CacheThen DEF RefInv
<1> QED
  BY <1>1, StoreIs, AbsStoreIs

LEMMA AbsStutter ==
    ASSUME BioInv, BioInv', RefInv, RefInv', \A q \in Procs : HoldKept(q), SameContents
    PROVE  UNCHANGED <<AbsStore, AbsUser, AbsView>>
<1>1. AbsStore' = AbsStore
  <2>1. \A x \in Blocks : AbsStore'[x] = AbsStore[x]
    BY AbsContents DEF SameContents
  <2> QED
    BY <2>1, AbsStoreIs
<1>2. \A q \in Procs, x \in Blocks : HasIn(c', pr', q, x) <=> HasIn(c, pr, q, x)
  BY KeptHas
<1>3. AbsUser' = AbsUser
  <2>1. ASSUME NEW x \in Blocks PROVE UserOf(c', pr', x) = UserOf(c, pr, x)
    BY <1>2, UserIs, OneUserNow, OneUserThen
  <2> QED
    BY <2>1, AbsUserIs
<1>4. AbsView' = AbsView
  <2>1. \A q \in Procs : AbsView'[q] = AbsView[q]
    BY KeptHas
  <2> QED
    BY <2>1 DEF AbsView
<1> QED
  BY <1>1, <1>3, <1>4

LEMMA DoneIsContents ==
    ASSUME NEW K, NEW s, NEW d, CacheOK(K, s), StoreOK(K, s, d), NEW b \in Bufs,
           "DONE" \in K.buf[b].flags, "STALE" \notin K.buf[b].flags, K.buf[b].blkno # NoBlock
    PROVE  ContentsIn(K, s, d, K.buf[b].blkno) = K.buf[b].data
<1> DEFINE x == K.buf[b].blkno
<1>1. Alone(K) /\ ContentsOK(K, s, d, b)
  BY DEF CacheOK, StoreOK
<1>2. CASE "DELWRI" \in K.buf[b].flags
  BY <1>1, <1>2, ContentsAre DEF DelayedIn
<1>3. CASE "DELWRI" \notin K.buf[b].flags
  <2>1. \A a \in Bufs : ~DelayedIn(K, a, x)
    BY <1>1, <1>3 DEF Alone, DelayedIn
  <2>2. ContentsIn(K, s, d, x) = SettledIn(K, s, d, x)
    BY <1>1, <2>1, ContentsAre
  <2> QED
    BY <1>1, <1>3, <2>2 DEF ContentsOK
<1> QED
  BY <1>2, <1>3

\* The process comes out of bread() or getblk() with its block.
LEMMA AbsAcquire ==
    ASSUME BioInv, BioInv', RefInv, RefInv', NEW p \in Procs, pr[p].pc # "hold", pr'[p].pc = "hold",
           \A q \in Procs \ {p} : HoldKept(q), SameContents,
           pr'[p].call = "bread" => "DONE" \in c'.buf[pr'[p].bp].flags
    PROVE  \E x \in Blocks : Abs!Acquire(p, x)
<1>1. pr'[p] \in ProcRecord /\ CallOK(pr'[p]) /\ HeldOK(pr[p])' /\ FreshOK(pr[p])' /\ c' \in CacheType
  BY DEF BioInv, TypeOK, CacheType, ProcInv, ProcOK, RefInv
<1>2. PICK b \in Bufs : b = pr'[p].bp
  BY <1>1 DEF CallOK, ProcRecord
<1>3. c'.buf[b].blkno # NoBlock /\ "STALE" \notin c'.buf[b].flags /\ c'.buf[b].blkno \in Blocks \cup {NoBlock}
  <2>1. b # NoBuf
    BY BioAssumption
  <2>2. c'.buf[b].blkno \in Blocks \cup {NoBlock}
    BY <1>1, CacheFields
  <2> QED
    BY <1>1, <1>2, <2>1, <2>2 DEF HeldOK, FreshOK, Is
<1>4. PICK x \in Blocks : x = c'.buf[b].blkno
  BY <1>3
<1>5. HasIn(c', pr', p, x) /\ \A y \in Blocks : HasIn(c', pr', p, y) => y = x
  BY <1>2, <1>4 DEF HasIn
<1>6. \A y \in Blocks : ~HasIn(c, pr, p, y)
  BY DEF HasIn
<1>7. \A q \in Procs \ {p}, y \in Blocks : HasIn(c', pr', q, y) <=> HasIn(c, pr, q, y)
  BY KeptHas
<1>8. OneUser(c, pr) /\ OneUser(c', pr')
  BY OneUserNow, OneUserThen
<1>9. \A q \in Procs : ~HasIn(c, pr, q, x)
  BY <1>5, <1>6, <1>7, <1>8 DEF OneUser
<1>10. AbsUser[x] = NoProc
  BY <1>8, <1>9, UserIs, AbsUserIs
<1>11. AbsUser' = [AbsUser EXCEPT ![x] = p]
  <2>1. UserOf(c', pr', x) = p
    BY <1>5, <1>8, UserIs
  <2>2. ASSUME NEW y \in Blocks, y # x PROVE UserOf(c', pr', y) = UserOf(c, pr, y)
    <3>1. \A q \in Procs : HasIn(c', pr', q, y) <=> HasIn(c, pr, q, y)
      BY <1>5, <1>6, <1>7, <2>2
    <3> QED
      BY <1>8, <3>1, UserIs
  <2> QED
    BY <2>1, <2>2, AbsUserIs
<1>12. AbsStore' = AbsStore /\ AbsStore[x] = ContentsIn(c', io', disk', x)
  <2>1. \A y \in Blocks : AbsStore'[y] = AbsStore[y] /\ AbsStore[y] = ContentsIn(c', io', disk', y)
    BY AbsContents DEF SameContents
  <2> QED
    BY <2>1, AbsStoreIs
<1>13. \A q \in Procs \ {p} : AbsView'[q] = AbsView[q]
  BY KeptHas
<1>14. AbsView[p] = NoVal /\ AbsView'[p] = IF pr'[p].call = "bread" THEN c'.buf[b].data ELSE NoVal
  BY <1>2 DEF AbsView
<1>15. AbsView = [q \in Procs |-> AbsView[q]] /\ AbsView' = [q \in Procs |-> AbsView'[q]]
  BY DEF AbsView
<1>16. AbsView' \in {AbsView, [AbsView EXCEPT ![p] = AbsStore[x]]}
  <2>1. CASE pr'[p].call = "bread"
    <3>1. "DONE" \in c'.buf[b].flags
      BY <1>2, <2>1
    <3>2. CacheOK(c', io') /\ StoreOK(c', io', disk')
      BY CacheThen DEF RefInv
    <3>3. AbsStore[x] = c'.buf[b].data
      BY <1>3, <1>4, <1>12, <3>1, <3>2, DoneIsContents
    <3>4. AbsView'[p] = AbsStore[x]
      BY <1>14, <2>1, <3>3
    <3>5. AbsView' = [AbsView EXCEPT ![p] = AbsStore[x]]
      BY <1>13, <1>15, <3>4
    <3> QED
      BY <3>5
  <2>2. CASE pr'[p].call # "bread"
    <3>1. \A q \in Procs : AbsView'[q] = AbsView[q]
      BY <1>13, <1>14, <2>2
    <3>2. AbsView' = AbsView
      BY <1>15, <3>1
    <3> QED
      BY <3>2
  <2> QED
    BY <2>1, <2>2
<1>17. AbsUser'[x] = p
  <2>1. UserOf(c', pr', x) = p
    BY <1>5, <1>8, UserIs
  <2> QED
    BY <2>1, AbsUserIs
<1> QED
  BY <1>10, <1>11, <1>12, <1>16, <1>17 DEF Abs!Acquire

\* The process gives the block up, as it is or with new contents.
LEMMA AbsRelease ==
    ASSUME BioInv, BioInv', RefInv, RefInv', NEW p \in Procs, pr[p].pc = "hold", pr'[p].pc # "hold",
           \A q \in Procs \ {p} : HoldKept(q), NEW x \in Blocks, x = c.buf[pr[p].bp].blkno,
           \/ SameContents
           \/ \E v \in Vals : \A y \in Blocks : ContentsIn(c', io', disk', y) =
                                                  IF y = x THEN v ELSE ContentsIn(c, io, disk, y)
    PROVE  Abs!Release(p, x)
<1>1. HasIn(c, pr, p, x) /\ \A y \in Blocks : HasIn(c, pr, p, y) => y = x
  BY DEF HasIn
<1>2. \A y \in Blocks : ~HasIn(c', pr', p, y)
  BY DEF HasIn
<1>3. \A q \in Procs \ {p}, y \in Blocks : HasIn(c', pr', q, y) <=> HasIn(c, pr, q, y)
  BY KeptHas
<1>4. OneUser(c, pr) /\ OneUser(c', pr')
  BY OneUserNow, OneUserThen
<1>5. AbsUser[x] = p
  BY <1>1, <1>4, UserIs, AbsUserIs
<1>6. AbsUser' = [AbsUser EXCEPT ![x] = NoProc]
  <2>1. \A q \in Procs : ~HasIn(c', pr', q, x)
    BY <1>1, <1>2, <1>3, <1>4 DEF OneUser
  <2>2. UserOf(c', pr', x) = NoProc
    BY <1>4, <2>1, UserIs
  <2>3. ASSUME NEW y \in Blocks, y # x PROVE UserOf(c', pr', y) = UserOf(c, pr, y)
    <3>1. \A q \in Procs : HasIn(c', pr', q, y) <=> HasIn(c, pr, q, y)
      BY <1>1, <1>2, <1>3, <2>3
    <3> QED
      BY <1>4, <3>1, UserIs
  <2> QED
    BY <2>2, <2>3, AbsUserIs
<1>7. AbsView' = [AbsView EXCEPT ![p] = NoVal]
  <2>1. \A q \in Procs \ {p} : AbsView'[q] = AbsView[q]
    BY KeptHas
  <2>2. AbsView'[p] = NoVal
    BY DEF AbsView
  <2>3. AbsView = [q \in Procs |-> AbsView[q]] /\ AbsView' = [q \in Procs |-> AbsView'[q]]
    BY DEF AbsView
  <2> QED
    BY <2>1, <2>2, <2>3
<1>8. AbsStore' \in {AbsStore} \cup {[AbsStore EXCEPT ![x] = v] : v \in Vals}
  <2>1. AbsStore = [y \in Blocks |-> AbsStore[y]] /\ AbsStore' = [y \in Blocks |-> AbsStore'[y]]
    BY AbsStoreIs
  <2>2. \A y \in Blocks : AbsStore[y] = ContentsIn(c, io, disk, y) /\ AbsStore'[y] = ContentsIn(c', io', disk', y)
    BY AbsContents
  <2>3. CASE SameContents
    <3>1. \A y \in Blocks : AbsStore'[y] = AbsStore[y]
      BY <2>2, <2>3 DEF SameContents
    <3>2. AbsStore' = AbsStore
      BY <2>1, <3>1
    <3> QED
      BY <3>2
  <2>4. ASSUME NEW v \in Vals, \A y \in Blocks : ContentsIn(c', io', disk', y) =
                                                   IF y = x THEN v ELSE ContentsIn(c, io, disk, y)
        PROVE  AbsStore' \in {[AbsStore EXCEPT ![x] = w] : w \in Vals}
    <3>1. \A y \in Blocks : AbsStore'[y] = IF y = x THEN v ELSE AbsStore[y]
      BY <2>2, <2>4
    <3>2. AbsStore' = [AbsStore EXCEPT ![x] = v]
      BY <2>1, <3>1
    <3> QED
      BY <3>2
  <2> QED
    BY <2>3, <2>4
<1>9. AbsUser'[x] = NoProc
  <2>1. \A q \in Procs : ~HasIn(c', pr', q, x)
    BY <1>1, <1>2, <1>3, <1>4 DEF OneUser
  <2>2. UserOf(c', pr', x) = NoProc
    BY <1>4, <2>1, UserIs
  <2> QED
    BY <2>2, AbsUserIs
<1> QED
  BY <1>5, <1>6, <1>7, <1>8, <1>9 DEF Abs!Release

-----------------------------------------------------------------------------
(***************************************************************************)
(* Every step keeps RefInv and is one of BioSpec, or none.                 *)
(***************************************************************************)
LEMMA FreshKept ==
    ASSUME BioInv, RefInv, NEW p \in Procs, \A a \in Bufs : Is(a, "STALE")' => Is(a, "STALE"),
           pr'[p].bp \in {pr[p].bp, NoBuf}, pr'[p].pc \notin {"check", "got", "blkcheck", "flushed"}
    PROVE  FreshOK(pr[p])'
<1>1. FreshOK(pr[p]) /\ pr[p] \in ProcRecord
  BY DEF RefInv, BioInv, TypeOK
<1>2. pr[p].bp \in Bufs \cup {NoBuf}
  BY <1>1 DEF ProcRecord
<1> QED
  BY <1>1, <1>2 DEF FreshOK

\* What becomes of the others when b, which they do not have, changes.
LEMMA OthersRef ==
    ASSUME BioInv, BioInv', RefInv, NEW p \in Procs, cur \in {p, NoProc}, StoreOK(c', io', disk'), NEW b,
           \A q \in Procs \ {p} : Woke(pr[q], pr'[q]) /\ b \notin Owned(q),
           \A a \in Bufs \ {b} : Steady(c, c', a), b \in Bufs => (Is(b, "STALE")' => Is(b, "STALE")),
           FreshOK(pr[p])'
    PROVE  RefInv' /\ \A q \in Procs \ {p} : HoldKept(q)
<1>1. \A a \in Bufs : Is(a, "STALE")' => Is(a, "STALE")
  BY DEF Steady, Is
<1>2. ASSUME NEW q \in Procs \ {p} PROVE FreshOK(pr[q])' /\ HoldKept(q)
  <2>1. /\ pr[q] \in ProcRecord /\ CallOK(pr[q]) /\ PlacesOK(pr[q]) /\ HeldOK(pr[q]) /\ FreshOK(pr[q])
        /\ pr[q].pc \in Sole => cur = q
    BY DEF BioInv, TypeOK, ProcInv, ProcOK, RefInv
  <2>2. /\ pr'[q].pc \in Sole => pr'[q] = pr[q]
        /\ pr'[q].bp = pr[q].bp /\ pr'[q].call = pr[q].call
        /\ (pr'[q].pc = "hold") <=> (pr[q].pc = "hold")
        /\ (pr'[q].pc = "got") <=> (pr[q].pc = "got")
    BY <2>1, WokeFacts
  <2>3. pr[q].pc \notin Sole
    BY <2>1, BioAssumption
  <2>4. pr'[q].pc \notin Sole
    BY <2>2, <2>3
  <2>5. FreshOK(pr[q])'
    BY <1>1, <2>2, <2>4, FreshKept DEF Sole
  <2>6. HoldKept(q)
    <3>1. CASE pr[q].pc = "hold"
      <4>1. pr[q].bp \in Bufs /\ pr[q].bp # NoBuf /\ pr[q].bp \in Owned(q)
        BY <2>1, <3>1 DEF CallOK, ProcRecord, Owned
      <4>2. c.buf[pr[q].bp].blkno # NoBlock
        BY <2>1, <4>1 DEF HeldOK
      <4>3. Steady(c, c', pr[q].bp)
        BY <4>1
      <4> QED
        BY <2>2, <3>1, <4>2, <4>3 DEF HoldKept, Steady
    <3> QED
      BY <2>2, <3>1 DEF HoldKept
  <2> QED
    BY <2>5, <2>6
<1> QED
  BY <1>2 DEF RefInv

\* Nothing is written.
LEMMA SteadyStep ==
    ASSUME BioInv, BioInv', RefInv, NEW p \in Procs, cur \in {p, NoProc}, UNCHANGED <<io, disk>>, NEW b,
           \A q \in Procs \ {p} : Woke(pr[q], pr'[q]) /\ b \notin Owned(q),
           \A a \in Bufs \ {b} : Steady(c, c', a),
           b \in Bufs => Blank(c, c', io, b) /\ (Is(b, "STALE")' => Is(b, "STALE")),
           FreshOK(pr[p])'
    PROVE  RefInv' /\ SameContents /\ \A q \in Procs \ {p} : HoldKept(q)
<1>1. CacheOK(c, io) /\ CacheOK(c', io) /\ StoreOK(c, io, disk)
  BY CacheNow, CacheThen DEF RefInv
<1>2. \A a \in Bufs : Steady(c, c', a) \/ Blank(c, c', io, a)
  OBVIOUS
<1>3. StoreOK(c', io, disk) /\ \A x \in Blocks : ContentsIn(c', io, disk, x) = ContentsIn(c, io, disk, x)
  <2>1. PICK L : L = c'
    OBVIOUS
  <2>2. CacheOK(L, io) /\ \A a \in Bufs : Steady(c, L, a) \/ Blank(c, L, io, a)
    BY <1>1, <1>2, <2>1
  <2>3. StoreOK(L, io, disk)
    BY <1>1, <2>2, BlankKind
  <2>4. \A x \in Blocks : ContentsIn(L, io, disk, x) = ContentsIn(c, io, disk, x)
    BY <1>1, <2>2, BlankKind
  <2> QED
    BY <2>1, <2>3, <2>4
<1>4. StoreOK(c', io', disk') /\ SameContents
  BY <1>3 DEF SameContents
<1> QED
  BY <1>4, OthersRef

\* A transfer starts.
LEMMA StartedStep ==
    ASSUME BioInv, BioInv', RefInv, NEW p \in Procs, cur \in {p, NoProc}, disk' = disk,
           NEW b \in Bufs, io' = Append(io, b),
           \A q \in Procs \ {p} : Woke(pr[q], pr'[q]) /\ b \notin Owned(q),
           \A a \in Bufs \ {b} : Steady(c, c', a),
           b \notin ToSet(io), c'.buf[b].blkno = c.buf[b].blkno,
           "STALE" \notin c'.buf[b].flags, "DELWRI" \notin c'.buf[b].flags, "ERROR" \notin c'.buf[b].flags,
           "READ" \in c'.buf[b].flags => "DELWRI" \notin c.buf[b].flags,
           FreshOK(pr[p])'
    PROVE  /\ RefInv' /\ \A q \in Procs \ {p} : HoldKept(q)
           /\ \A x \in Blocks : WritesIn(c', b, x) => ContentsIn(c', io', disk', x) = c'.buf[b].data
           /\ \A x \in Blocks : ~WritesIn(c', b, x) => ContentsIn(c', io', disk', x) = ContentsIn(c, io, disk, x)
<1>1. CacheOK(c, io) /\ CacheOK(c', Append(io, b)) /\ StoreOK(c, io, disk)
  BY CacheNow, CacheThen DEF RefInv
<1>2. /\ StoreOK(c', Append(io, b), disk)
      /\ \A x \in Blocks : WritesIn(c', b, x) => ContentsIn(c', Append(io, b), disk, x) = c'.buf[b].data
      /\ \A x \in Blocks : ~WritesIn(c', b, x) => ContentsIn(c', Append(io, b), disk, x) = ContentsIn(c, io, disk, x)
  <2>1. PICK L : L = c'
    OBVIOUS
  <2>2. /\ CacheOK(L, Append(io, b)) /\ L.buf[b].blkno = c.buf[b].blkno
        /\ "STALE" \notin L.buf[b].flags /\ "DELWRI" \notin L.buf[b].flags /\ "ERROR" \notin L.buf[b].flags
        /\ "READ" \in L.buf[b].flags => "DELWRI" \notin c.buf[b].flags
        /\ \A a \in Bufs \ {b} : Steady(c, L, a)
    BY <1>1, <2>1
  <2>3. StoreOK(L, Append(io, b), disk)
    BY <1>1, <2>2, StartKind
  <2>4. \A x \in Blocks : WritesIn(L, b, x) => ContentsIn(L, Append(io, b), disk, x) = L.buf[b].data
    BY <1>1, <2>2, <2>3, StartKind
  <2>5. \A x \in Blocks : ~WritesIn(L, b, x) => ContentsIn(L, Append(io, b), disk, x) = ContentsIn(c, io, disk, x)
    BY <1>1, <2>2, <2>3, StartKind
  <2> QED
    BY <2>1, <2>3, <2>4, <2>5
<1>3. StoreOK(c', io', disk')
  BY <1>2
<1>4. b \in Bufs => (Is(b, "STALE")' => Is(b, "STALE"))
  BY DEF Is
<1>5. RefInv' /\ \A q \in Procs \ {p} : HoldKept(q)
  BY <1>3, <1>4, OthersRef
<1> QED
  BY <1>2, <1>5

\* The process neither gets a block nor gives one up.
LEMMA IdleStep ==
    ASSUME BioInv, BioInv', RefInv, RefInv', NEW p \in Procs, pr[p].pc # "hold", pr'[p].pc # "hold",
           \A q \in Procs \ {p} : HoldKept(q), SameContents
    PROVE  UNCHANGED <<AbsStore, AbsUser, AbsView>>
<1>1. HoldKept(p)
  BY DEF HoldKept
<1> QED
  BY <1>1, AbsStutter

\* The same, when p alone has a new place.
LEMMA PlaceStep ==
    ASSUME BioInv, BioInv', RefInv, NEW p \in Procs, cur \in {p, NoProc}, UNCHANGED <<io, disk>>,
           NEW r, pr' = [pr EXCEPT ![p] = r], pr[p].pc # "hold", r.pc # "hold",
           \A a \in Bufs : Steady(c, c', a), FreshOK(pr[p])'
    PROVE  RefInv' /\ UNCHANGED <<AbsStore, AbsUser, AbsView>>
<1>1. pr \in [Procs -> ProcRecord]
  BY DEF BioInv, TypeOK
<1>2. pr'[p] = r /\ \A q \in Procs \ {p} : pr'[q] = pr[q]
  BY <1>1
<1>3. \A q \in Procs \ {p} : Woke(pr[q], pr'[q]) /\ NoBuf \notin Owned(q)
  BY <1>2 DEF Woke, Owned
<1>4. NoBuf \notin Bufs
  BY BioAssumption
<1>5. RefInv' /\ SameContents /\ \A q \in Procs \ {p} : HoldKept(q)
  BY <1>3, <1>4, SteadyStep
<1> QED
  BY <1>2, <1>5, IdleStep

LEMMA SteadySame == \A a \in Bufs : Steady(c, c, a)
  BY DEF Steady

\* Nothing of it is seen.
Unseen == UNCHANGED <<AbsStore, AbsUser, AbsView>>

\* The contents of a buffer change, which is to be written late.
LEMMA DirtyStep ==
    ASSUME BioInv, BioInv', RefInv, NEW p \in Procs, cur \in {p, NoProc}, UNCHANGED <<io, disk>>,
           NEW b \in Bufs,
           \A q \in Procs \ {p} : Woke(pr[q], pr'[q]) /\ b \notin Owned(q),
           \A a \in Bufs \ {b} : Steady(c, c', a),
           b \notin ToSet(io), c'.buf[b].blkno = c.buf[b].blkno,
           "STALE" \notin c'.buf[b].flags, "DELWRI" \in c'.buf[b].flags, "ERROR" \notin c'.buf[b].flags,
           FreshOK(pr[p])'
    PROVE  /\ RefInv' /\ \A q \in Procs \ {p} : HoldKept(q)
           /\ \A x \in Blocks : c.buf[b].blkno = x => ContentsIn(c', io', disk', x) = c'.buf[b].data
           /\ \A x \in Blocks : c.buf[b].blkno # x => ContentsIn(c', io', disk', x) = ContentsIn(c, io, disk, x)
<1>1. CacheOK(c, io) /\ CacheOK(c', io) /\ StoreOK(c, io, disk)
  BY CacheNow, CacheThen DEF RefInv
<1>2. /\ StoreOK(c', io, disk)
      /\ \A x \in Blocks : c.buf[b].blkno = x => ContentsIn(c', io, disk, x) = c'.buf[b].data
      /\ \A x \in Blocks : c.buf[b].blkno # x => ContentsIn(c', io, disk, x) = ContentsIn(c, io, disk, x)
  <2>1. PICK L : L = c'
    OBVIOUS
  <2>2. /\ CacheOK(L, io) /\ L.buf[b].blkno = c.buf[b].blkno
        /\ "STALE" \notin L.buf[b].flags /\ "DELWRI" \in L.buf[b].flags /\ "ERROR" \notin L.buf[b].flags
        /\ \A a \in Bufs \ {b} : Steady(c, L, a)
    BY <1>1, <2>1
  <2>3. StoreOK(L, io, disk)
    BY <1>1, <2>2, DirtyKind
  <2>4. \A x \in Blocks : L.buf[b].blkno = x => ContentsIn(L, io, disk, x) = L.buf[b].data
    <3> SUFFICES ASSUME NEW x \in Blocks, L.buf[b].blkno = x
                 PROVE  ContentsIn(L, io, disk, x) = L.buf[b].data
      OBVIOUS
    <3>1. x # NoBlock /\ Alone(L) /\ DelayedIn(L, b, x)
      BY <2>2, BioAssumption DEF CacheOK, DelayedIn
    <3> QED
      BY <3>1, ContentsAre
  <2>5. \A x \in Blocks : L.buf[b].blkno # x => ContentsIn(L, io, disk, x) = ContentsIn(c, io, disk, x)
    BY <1>1, <2>2, <2>3, DirtyKind
  <2> QED
    BY <2>1, <2>2, <2>3, <2>4, <2>5
<1>3. StoreOK(c', io', disk')
  BY <1>2
<1>4. b \in Bufs => (Is(b, "STALE")' => Is(b, "STALE"))
  BY DEF Is
<1>5. RefInv' /\ \A q \in Procs \ {p} : HoldKept(q)
  BY <1>3, <1>4, OthersRef
<1> QED
  BY <1>2, <1>5

\* The cache stays as it is, and so does what p has.
LEMMA QuietStep ==
    ASSUME BioInv, BioInv', RefInv, NEW p \in Procs, cur \in {p, NoProc}, UNCHANGED <<c, io, disk>>,
           NEW r, pr' = [pr EXCEPT ![p] = r], pr[p].pc # "hold", r.bp \in {pr[p].bp, NoBuf},
           r.pc \notin {"hold", "check", "got", "blkcheck", "flushed"}
    PROVE  RefInv' /\ Unseen
<1>1. pr'[p] = r
  BY ActorFacts
<1>2. \A a \in Bufs : Steady(c, c', a) /\ (Is(a, "STALE")' => Is(a, "STALE"))
  BY SteadySame DEF Is
<1>3. FreshOK(pr[p])'
  BY <1>1, <1>2, FreshKept
<1>4. r.pc # "hold"
  OBVIOUS
<1> QED
  BY <1>2, <1>3, <1>4, PlaceStep DEF Unseen

LEMMA StartRef ==
    ASSUME BioInv, BioInv', RefInv, NEW p \in Procs, Start(p)
    PROVE  RefInv' /\ Unseen
<1>1. /\ pr[p].pc = "user" /\ cur \in {p, NoProc} /\ UNCHANGED <<c, io, disk>>
  BY DEF Start, At
<1>2. PICK call \in Calls, x \in Blocks, y \in Blocks :
         LET called == [Idle EXCEPT !.call = call, !.blk = x]
         IN \/ pr' = [pr EXCEPT ![p] = [called EXCEPT !.pc = "search"]]
            \/ pr' = [pr EXCEPT ![p] = [called EXCEPT !.pc = IF incore(x) THEN "ra" ELSE "search", !.ra = y]]
            \/ pr' = [pr EXCEPT ![p] = [called EXCEPT !.pc = "bflush", !.blk = NoBlock]]
            \/ pr' = [pr EXCEPT ![p] = [called EXCEPT !.pc = "blkflush"]]
  BY ZenonT(60) DEF Start
<1>3. PICK r : /\ pr' = [pr EXCEPT ![p] = r]
               /\ \E k : \/ r = [Idle EXCEPT !.call = call, !.blk = x, !.pc = "search"]
                         \/ k \in {"ra", "search"} /\ r = [Idle EXCEPT !.call = call, !.blk = x, !.pc = k, !.ra = y]
                         \/ r = [Idle EXCEPT !.call = call, !.blk = NoBlock, !.pc = "bflush"]
                         \/ r = [Idle EXCEPT !.call = call, !.blk = x, !.pc = "blkflush"]
  <2>1. PICK k \in {"ra", "search"} : k = IF incore(x) THEN "ra" ELSE "search"
    OBVIOUS
  <2> QED
    BY <1>2, <2>1 DEF Idle
<1>4. r.bp = NoBuf /\ r.pc \in {"search", "ra", "bflush", "blkflush"}
  BY <1>3 DEF Idle
<1> QED
  BY <1>1, <1>3, <1>4, QuietStep

LEMMA KmemRef ==
    ASSUME BioInv, BioInv', RefInv, NEW p \in Procs, Kmem(p)
    PROVE  RefInv' /\ Unseen
<1>1. PICK x \in ProcRecord : x = pr[p] /\ x.pc = "kmem"
  BY ActorFacts DEF Kmem, At
<1>2. /\ cur \in {p, NoProc} /\ UNCHANGED <<c, io, disk>>
      /\ pr' = [pr EXCEPT ![p] = [x EXCEPT !.pc = "search"]]
  BY <1>1 DEF Kmem, At, Goto
<1>3. [x EXCEPT !.pc = "search"].bp = x.bp /\ [x EXCEPT !.pc = "search"].pc = "search"
  BY DEF ProcRecord
<1> QED
  BY <1>1, <1>2, <1>3, QuietStep

LEMMA AsyncntRef ==
    ASSUME BioInv, BioInv', RefInv, NEW p \in Procs, Asyncnt(p)
    PROVE  RefInv' /\ Unseen
<1>1. PICK x \in ProcRecord : x = pr[p] /\ x.pc = "asyncnt" /\ CallOK(x)
  BY ActorFacts DEF Asyncnt, At
<1>2. cur \in {p, NoProc} /\ UNCHANGED <<c, io, disk>>
  BY DEF Asyncnt, At
<1>3. CASE x.then = "user"
  <2>1. pr' = [pr EXCEPT ![p] = Idle] /\ Idle.bp = NoBuf /\ Idle.pc = "user"
    BY <1>1, <1>3 DEF Asyncnt, Return, Idle
  <2> QED
    BY <1>1, <1>2, <2>1, QuietStep
<1>4. CASE x.then # "user"
  <2>1. x.then \in {"getfree", "bflush"}
    BY <1>1, <1>4 DEF CallOK
  <2>2. pr' = [pr EXCEPT ![p] = [x EXCEPT !.pc = x.then, !.then = "user"]]
    BY <1>1, <1>4 DEF Asyncnt
  <2>3. /\ [x EXCEPT !.pc = x.then, !.then = "user"].pc = x.then
        /\ [x EXCEPT !.pc = x.then, !.then = "user"].bp = x.bp
    BY DEF ProcRecord
  <2> QED
    BY <1>1, <1>2, <2>1, <2>2, <2>3, QuietStep
<1> QED
  BY <1>3, <1>4

LEMMA ReadaheadRef ==
    ASSUME BioInv, BioInv', RefInv, NEW p \in Procs, Readahead(p)
    PROVE  RefInv' /\ Unseen
<1>1. PICK x \in ProcRecord : x = pr[p] /\ x.pc = "ra"
  BY ActorFacts DEF Readahead, At
<1>2. cur \in {p, NoProc} /\ UNCHANGED <<c, io, disk>>
  BY DEF Readahead, At
<1>3. \/ pr' = [pr EXCEPT ![p] = [x EXCEPT !.pc = "search", !.call = "ra", !.ra = x.blk, !.blk = x.ra]]
      \/ pr' = [pr EXCEPT ![p] = [x EXCEPT !.pc = "raend", !.ra = x.blk]]
  BY <1>1 DEF Readahead
<1>4. PICK r : /\ pr' = [pr EXCEPT ![p] = r]
               /\ \/ r = [x EXCEPT !.pc = "search", !.call = "ra", !.ra = x.blk, !.blk = x.ra]
                  \/ r = [x EXCEPT !.pc = "raend", !.ra = x.blk]
  BY <1>3
<1>5. r.bp = x.bp /\ r.pc \in {"search", "raend"}
  BY <1>4 DEF ProcRecord
<1> QED
  BY <1>1, <1>2, <1>4, <1>5, QuietStep

LEMMA ReadaheadEndRef ==
    ASSUME BioInv, BioInv', RefInv, NEW p \in Procs, ReadaheadEnd(p)
    PROVE  RefInv' /\ Unseen
<1>1. PICK x \in ProcRecord : x = pr[p] /\ x.pc = "raend"
  BY ActorFacts DEF ReadaheadEnd, At
<1>2. cur \in {p, NoProc} /\ UNCHANGED <<c, io, disk>>
  BY DEF ReadaheadEnd, At
<1>3. PICK t \in {"search", "iowait"} : t = IF x.bp = NoBuf THEN "search" ELSE "iowait"
  OBVIOUS
<1>4. pr' = [pr EXCEPT ![p] = [x EXCEPT !.pc = t, !.call = "bread", !.blk = x.ra, !.ra = NoBlock]]
  BY <1>1, <1>3 DEF ReadaheadEnd
<1>5. PICK r : r = [x EXCEPT !.pc = t, !.call = "bread", !.blk = x.ra, !.ra = NoBlock]
  OBVIOUS
<1>6. r.bp = x.bp /\ r.pc = t
  BY <1>5 DEF ProcRecord
<1> QED
  BY <1>1, <1>2, <1>3, <1>4, <1>5, <1>6, QuietStep

LEMMA BlkflushEndRef ==
    ASSUME BioInv, BioInv', RefInv, NEW p \in Procs, BlkflushEnd(p)
    PROVE  RefInv' /\ Unseen
<1>1. /\ pr[p].pc = "flushed" /\ cur \in {p, NoProc} /\ UNCHANGED <<c, io, disk>>
      /\ pr' = [pr EXCEPT ![p] = Idle]
  BY DEF BlkflushEnd, At, Return
<1>2. Idle.bp = NoBuf /\ Idle.pc = "user"
  BY DEF Idle
<1> QED
  BY <1>1, <1>2, QuietStep

\* The search finds a buffer that stands for the block, or there is none.
LEMMA BlkflushSearchRef ==
    ASSUME BioInv, BioInv', RefInv, NEW p \in Procs, BlkflushSearch(p)
    PROVE  RefInv' /\ Unseen
<1>1. PICK x \in ProcRecord : x = pr[p] /\ x.pc = "blkflush" /\ PlacesOK(x) /\ pr \in [Procs -> ProcRecord]
  BY ActorFacts DEF BlkflushSearch, At
<1>2. cur \in {p, NoProc} /\ UNCHANGED <<c, io, disk>>
  BY DEF BlkflushSearch, At
<1>3. x.bp = NoBuf
  BY <1>1 DEF PlacesOK, InGetblk, InBiowait
<1>4. \A a \in Bufs : Steady(c, c', a)
  BY <1>2, SteadySame
<1>5. CASE \E b \in Cached(pr[p].blk) : pr' = [pr EXCEPT ![p].pc = "blkcheck", ![p].b = b]
  <2>1. PICK b \in Cached(x.blk) : pr' = [pr EXCEPT ![p] = [x EXCEPT !.pc = "blkcheck", !.b = b]]
    BY <1>1, <1>5
  <2>2. PICK r : r = [x EXCEPT !.pc = "blkcheck", !.b = b]
    OBVIOUS
  <2>3. r.pc = "blkcheck" /\ r.b = b /\ r.bp = x.bp
    BY <2>2 DEF ProcRecord
  <2>4. pr' = [pr EXCEPT ![p] = r] /\ pr'[p] = r
    BY <1>1, <2>1, <2>2
  <2>5. FreshOK(pr[p])'
    BY <1>2, <1>3, <2>3, <2>4 DEF FreshOK, Cached, Is
  <2> QED
    BY <1>1, <1>2, <1>4, <2>3, <2>4, <2>5, PlaceStep DEF Unseen
<1>6. CASE ~incore(pr[p].blk) /\ pr' = [pr EXCEPT ![p].pc = "flushed"]
  <2>1. PICK r : r = [x EXCEPT !.pc = "flushed"]
    OBVIOUS
  <2>2. r.pc = "flushed" /\ r.blk = x.blk /\ r.bp = x.bp
    BY <2>1 DEF ProcRecord
  <2>3. pr' = [pr EXCEPT ![p] = r] /\ pr'[p] = r
    BY <1>1, <1>6, <2>1
  <2>4. \A b \in Bufs : c'.buf[b].blkno = r.blk => "STALE" \in c'.buf[b].flags
    BY <1>1, <1>2, <1>6, <2>2 DEF incore, Cached, Is
  <2>5. FreshOK(pr[p])'
    BY <1>3, <2>2, <2>3, <2>4 DEF FreshOK, Is
  <2> QED
    BY <1>1, <1>2, <1>4, <2>2, <2>3, <2>5, PlaceStep DEF Unseen
<1> QED
  BY <1>5, <1>6 DEF BlkflushSearch

LEMMA ElsewhereRef ==
    ASSUME BioInv, BioInv', RefInv, NEW p \in Procs, Elsewhere(p)
    PROVE  RefInv' /\ Unseen
<1>1. UNCHANGED <<c, io, disk, pr>>
  BY DEF Elsewhere
<1>2. RefInv'
  BY <1>1 DEF RefInv, FreshOK, Is, StoreOK, SentInOrder, ContentsOK
<1>3. Unseen
  <2>1. AbsStore' = AbsStore
    BY <1>1, AbsStoreIs
  <2>2. AbsUser' = AbsUser
    BY <1>1, AbsUserIs
  <2>3. AbsView' = AbsView
    BY <1>1 DEF AbsView
  <2> QED
    BY <2>1, <2>2, <2>3 DEF Unseen
<1> QED
  BY <1>2, <1>3

-----------------------------------------------------------------------------
\* What p does to the others.
LEMMA OthersWoken ==
    ASSUME BioInv, NEW p \in Procs, NEW r \in ProcRecord, r.pc # "asleep", NEW C,
           pr' = wakeprocs([pr EXCEPT ![p] = r], C)
    PROVE  pr'[p] = r /\ \A q \in Procs \ {p} : Woke(pr[q], pr'[q])
<1>1. PICK f \in [Procs -> ProcRecord] : f = [pr EXCEPT ![p] = r] /\ pr' = wakeprocs(f, C)
  BY ActorFacts
<1>2. f[p] = r /\ \A q \in Procs \ {p} : f[q] = pr[q]
  BY <1>1, ActorFacts
<1>3. \A q \in Procs : /\ Woke(f[q], wakeprocs(f, C)[q])
                       /\ f[q].pc # "asleep" => wakeprocs(f, C)[q] = f[q]
  BY WakeFacts
<1> QED
  BY <1>1, <1>2, <1>3

LEMMA OthersLeft ==
    ASSUME BioInv, NEW p \in Procs, NEW r, pr' = [pr EXCEPT ![p] = r]
    PROVE  pr'[p] = r /\ \A q \in Procs \ {p} : Woke(pr[q], pr'[q])
  BY ActorFacts DEF Woke

LEMMA OnlyOwner ==
    ASSUME BioInv, NEW p \in Procs, NEW b \in Bufs, b \in Owned(p) \/ b \in ToSet(c.free)
    PROVE  \A q \in Procs \ {p} : b \notin Owned(q)
<1>1. CASE b \in Owned(p)
  BY <1>1 DEF BioInv, ProcInv, BufsOK
<1>2. CASE b \in ToSet(c.free)
  BY <1>2, FreeFacts DEF HasOwner
<1> QED
  BY <1>1, <1>2

LEMMA NobodysOwn == NoBuf \notin Bufs /\ \A q \in Procs : NoBuf \notin Owned(q)
  BY BioAssumption DEF Owned

LEMMA NoErrors ==
    ASSUME RefInv, NEW b \in Bufs
    PROVE  "ERROR" \notin c.buf[b].flags
  BY DEF RefInv, StoreOK, ContentsOK

LEMMA SteadyTwice ==
    ASSUME NEW K, NEW L, NEW M, NEW a, Steady(K, L, a), Steady(L, M, a)
    PROVE  Steady(K, M, a)
  BY DEF Steady

LEMMA SteadyEqual ==
    ASSUME NEW K, NEW L, NEW a, L.buf[a] = K.buf[a]
    PROVE  Steady(K, L, a)
  BY DEF Steady

\* brelse() changes nothing that is in the buffer, without an error.
LEMMA BrelseSteady ==
    ASSUME NEW K \in CacheType, NEW b \in Bufs, Once(K.free), b \notin ToSet(K.free),
           "ERROR" \notin K.buf[b].flags
    PROVE  /\ \A a \in Bufs : Steady(K, brelse(K, b), a)
           /\ \A a \in Bufs \ {b} : brelse(K, b).buf[a] = K.buf[a]
           /\ brelse(K, b).buf[b].flags = K.buf[b].flags \ {"WANTED", "BUSY", "ASYNC"}
           /\ brelse(K, b).buf[b].blkno = K.buf[b].blkno /\ brelse(K, b).buf[b].data = K.buf[b].data
<1>1. PICK M : M = brelse(K, b)
  OBVIOUS
<1>2. M.buf = [K.buf EXCEPT ![b] = GivenUp(K.buf[b])] /\ K.buf \in [Bufs -> BufRecord]
  BY <1>1, BrelseFacts, CacheFields
<1>3. M.buf[b] = GivenUp(K.buf[b]) /\ \A a \in Bufs \ {b} : M.buf[a] = K.buf[a]
  BY <1>2
<1>4. M.buf[b].flags = K.buf[b].flags \ {"WANTED", "BUSY", "ASYNC"}
  BY <1>2, <1>3 DEF GivenUp, BufRecord
<1>5. M.buf[b].blkno = K.buf[b].blkno /\ M.buf[b].data = K.buf[b].data
  BY <1>2, <1>3, GivenUpFacts
<1>6. Steady(K, M, b)
  BY <1>4, <1>5 DEF Steady
<1>7. \A a \in Bufs : Steady(K, M, a)
  BY <1>3, <1>6, SteadyEqual
<1> QED
  BY <1>1, <1>3, <1>4, <1>5, <1>7

\* The same, when p is not in its caller before or after.
LEMMA ChangeStep ==
    ASSUME BioInv, BioInv', RefInv, NEW p \in Procs, cur \in {p, NoProc}, UNCHANGED <<io, disk>>, NEW b,
           \A q \in Procs \ {p} : Woke(pr[q], pr'[q]) /\ b \notin Owned(q),
           \A a \in Bufs \ {b} : Steady(c, c', a),
           b \in Bufs => Blank(c, c', io, b) /\ (Is(b, "STALE")' => Is(b, "STALE")),
           FreshOK(pr[p])', pr[p].pc # "hold", pr'[p].pc # "hold"
    PROVE  RefInv' /\ Unseen
<1>1. RefInv' /\ SameContents /\ \A q \in Procs \ {p} : HoldKept(q)
  BY SteadyStep
<1> QED
  BY <1>1, IdleStep DEF Unseen

\* A buffer is marked as wanted, and p sleeps on it.
LEMMA SleepRef ==
    ASSUME BioInv, BioInv', RefInv, NEW p \in Procs, cur \in {p, NoProc}, UNCHANGED <<io, disk>>,
           NEW b \in Bufs, NEW next \in {"search", "iowait", "blkflush"}, pr[p].pc # "hold",
           c' = [c EXCEPT !.buf[b].flags = @ \cup {"WANTED"}], Sleep(p, b, next)
    PROVE  RefInv' /\ Unseen
<1>1. c \in CacheType /\ c.buf[b].flags \cup {"WANTED"} \in SUBSET Flags
  BY ActorFacts, CacheFields DEF Flags
<1>2. PICK F \in SUBSET Flags : F = c.buf[b].flags \cup {"WANTED"}
  BY <1>1
<1>0. c' = Flagged(c, b, F)
  BY <1>2 DEF Flagged
<1>3. PICK L : L = Flagged(c, b, F)
  OBVIOUS
<1>4. /\ \A a \in Bufs \ {b} : L.buf[a] = c.buf[a]
      /\ L.buf[b].flags = F /\ L.buf[b].blkno = c.buf[b].blkno /\ L.buf[b].data = c.buf[b].data
  BY <1>1, <1>3, FlaggedFacts
<1>5. Steady(c, L, b)
  BY <1>2, <1>4 DEF Steady
<1>6. \A a \in Bufs : Steady(c, L, a)
  BY <1>4, <1>5, SteadyEqual
<1>7. \A a \in Bufs : Steady(c, c', a)
  BY <1>0, <1>3, <1>6
<1>8. PICK r \in ProcRecord : pr' = [pr EXCEPT ![p] = r] /\ r.pc = "asleep" /\ r.bp = pr[p].bp
  BY SleepRecord
<1>9. pr'[p] = r
  BY <1>8, OthersLeft
<1>10. \A a \in Bufs : Is(a, "STALE")' => Is(a, "STALE")
  BY <1>7 DEF Is, Steady
<1>11. FreshOK(pr[p])'
  BY <1>8, <1>9, <1>10, FreshKept
<1> QED
  BY <1>7, <1>8, <1>11, PlaceStep DEF Unseen

\* p gives a buffer of its own up, with the contents that it has.
LEMMA GiveUpRef ==
    ASSUME BioInv, BioInv', RefInv, NEW p \in Procs, cur \in {p, NoProc}, UNCHANGED <<io, disk>>,
           NEW b \in Bufs, b \in Owned(p), NEW r \in ProcRecord, r.pc # "asleep",
           c' = brelse(c, b), pr' = wakeprocs([pr EXCEPT ![p] = r], Released(b)),
           r.bp \in {pr[p].bp, NoBuf}, r.pc \notin {"check", "got", "blkcheck", "flushed"}
    PROVE  /\ RefInv' /\ SameContents /\ \A q \in Procs \ {p} : HoldKept(q)
           /\ pr'[p] = r
<1>1. /\ c \in CacheType /\ Once(c.free) /\ b \notin ToSet(c.free)
  BY ActorFacts, FreeFacts DEF BioInv, ProcInv, BufsOK, HasOwner
<1>2. \A a \in Bufs : Steady(c, c', a)
  <2>1. \A a \in Bufs : Steady(c, brelse(c, b), a)
    BY <1>1, NoErrors, BrelseSteady
  <2> QED
    BY <2>1
<1>3. pr'[p] = r /\ \A q \in Procs \ {p} : Woke(pr[q], pr'[q])
  BY OthersWoken
<1>4. \A a \in Bufs : Is(a, "STALE")' => Is(a, "STALE")
  BY <1>2 DEF Is, Steady
<1>5. FreshOK(pr[p])'
  BY <1>3, <1>4, FreshKept
<1>6. RefInv' /\ SameContents /\ \A q \in Procs \ {p} : HoldKept(q)
  BY <1>2, <1>3, <1>5, NobodysOwn, SteadyStep
<1> QED
  BY <1>3, <1>6

LEMMA IdleIsFresh ==
    ASSUME NEW p, pr'[p] = Idle
    PROVE  FreshOK(pr[p])' /\ pr'[p].pc = "user"
<1>1. Idle.bp = NoBuf /\ Idle.pc = "user"
  BY DEF Idle
<1> QED
  BY <1>1 DEF FreshOK

LEMMA IdleRecord == Idle \in ProcRecord /\ Idle.pc = "user" /\ Idle.bp = NoBuf
<1>1. Idle \in ProcRecord
  BY DEF Idle, ProcRecord
<1> QED
  BY <1>1 DEF Idle

\* The block that p has.
LEMMA HoldBlock ==
    ASSUME BioInv, RefInv, NEW p \in Procs, At(p, "hold")
    PROVE  /\ pr[p].bp \in Bufs /\ pr[p].bp \in Owned(p) /\ pr[p].bp \notin ToSet(io)
           /\ pr[p].pc = "hold" /\ cur \in {p, NoProc}
           /\ ~Is(pr[p].bp, "STALE") /\ pr[p].bp \notin ToSet(c.free)
           /\ \A q \in Procs \ {p} : pr[p].bp \notin Owned(q)
           /\ \E x \in Blocks : x = c.buf[pr[p].bp].blkno
<1>1. PICK b \in Bufs : /\ b = pr[p].bp /\ cur \in {p, NoProc} /\ Owned(p) = {b} /\ b \notin ToSet(io)
                        /\ c.buf[b].blkno # NoBlock
  BY HoldFacts
<1>2. b \in Owned(p) /\ \A q \in Procs \ {p} : b \notin Owned(q)
  BY <1>1, OnlyOwner
<1>3. b \notin ToSet(c.free)
  BY <1>2, FreeFacts DEF HasOwner
<1>4. ~Is(b, "STALE")
  BY <1>1, BioAssumption DEF RefInv, FreshOK
<1>5. c.buf[b].blkno \in Blocks
  BY <1>1, ActorFacts, CacheFields
<1> QED
  BY <1>1, <1>2, <1>3, <1>4, <1>5 DEF At

LEMMA BrelseRef ==
    ASSUME BioInv, BioInv', RefInv, NEW p \in Procs, Brelse(p)
    PROVE  RefInv' /\ \E x \in Blocks : Abs!Release(p, x)
<1>1. PICK b \in Bufs, x \in Blocks :
         /\ b = pr[p].bp /\ x = c.buf[pr[p].bp].blkno /\ b \in Owned(p)
         /\ pr[p].pc = "hold" /\ cur \in {p, NoProc}
  BY HoldBlock DEF Brelse
<1>2. /\ c' = brelse(c, b) /\ pr' = wakeprocs([pr EXCEPT ![p] = Idle], Released(b))
      /\ UNCHANGED <<io, disk>>
  BY <1>1 DEF Brelse, Return
<1>3. RefInv' /\ SameContents /\ (\A q \in Procs \ {p} : HoldKept(q)) /\ pr'[p] = Idle
  BY <1>1, <1>2, IdleRecord, GiveUpRef
<1>4. pr'[p].pc # "hold"
  BY <1>3, IdleRecord
<1> QED
  BY <1>1, <1>3, <1>4, AbsRelease

LEMMA BdwriteRef ==
    ASSUME BioInv, BioInv', RefInv, NEW p \in Procs, Bdwrite(p)
    PROVE  RefInv' /\ \E x \in Blocks : Abs!Release(p, x)
<1>1. PICK b \in Bufs, x \in Blocks :
         /\ b = pr[p].bp /\ x = c.buf[pr[p].bp].blkno /\ b \in Owned(p) /\ b \notin ToSet(io)
         /\ pr[p].pc = "hold" /\ cur \in {p, NoProc} /\ ~Is(b, "STALE") /\ b \notin ToSet(c.free)
         /\ \A q \in Procs \ {p} : b \notin Owned(q)
  BY HoldBlock DEF Bdwrite
<1>2. PICK v \in Vals : c' = brelse([c EXCEPT !.buf[b].data = v, !.buf[b].flags = @ \cup {"DELWRI", "DONE"}], b)
  BY <1>1 DEF Bdwrite
<1>3. pr' = wakeprocs([pr EXCEPT ![p] = Idle], Released(b)) /\ UNCHANGED <<io, disk>>
  BY <1>1 DEF Bdwrite, Return
<1>4. /\ c \in CacheType /\ c.buf[b].flags \cup {"DELWRI", "DONE"} \in SUBSET Flags /\ c.buf \in [Bufs -> BufRecord]
      /\ Once(c.free) /\ "ERROR" \notin c.buf[b].flags
  BY NoErrors, ActorFacts, CacheFields DEF Flags, BioInv, ProcInv, BufsOK
<1>5. PICK F \in SUBSET Flags : F = c.buf[b].flags \cup {"DELWRI", "DONE"}
  BY <1>4
<1>6. PICK K : K = Changed(c, b, v, F)
  OBVIOUS
<1>7. /\ K \in CacheType /\ K.free = c.free
      /\ \A a \in Bufs \ {b} : K.buf[a] = c.buf[a]
      /\ K.buf[b].blkno = c.buf[b].blkno /\ K.buf[b].flags = F /\ K.buf[b].data = v
  BY <1>4, <1>6, ChangedFacts
<1>8. PICK L : L = brelse(K, b)
  OBVIOUS
<1>9. c' = L
  BY <1>2, <1>5, <1>6, <1>8 DEF Changed
<1>10. /\ \A a \in Bufs \ {b} : L.buf[a] = K.buf[a]
       /\ L.buf[b].flags = F \ {"WANTED", "BUSY", "ASYNC"}
       /\ L.buf[b].blkno = K.buf[b].blkno /\ L.buf[b].data = v
  BY <1>1, <1>4, <1>5, <1>7, <1>8, BrelseSteady
<1>11. \A a \in Bufs \ {b} : Steady(c, L, a)
  BY <1>7, <1>10, SteadyEqual
<1>12. /\ "STALE" \notin L.buf[b].flags /\ "DELWRI" \in L.buf[b].flags /\ "ERROR" \notin L.buf[b].flags
       /\ L.buf[b].blkno = c.buf[b].blkno
  BY <1>1, <1>4, <1>5, <1>7, <1>10 DEF Is
<1>13. pr'[p] = Idle /\ \A q \in Procs \ {p} : Woke(pr[q], pr'[q])
  BY <1>3, IdleRecord, OthersWoken
<1>14. FreshOK(pr[p])' /\ pr'[p].pc # "hold"
  BY <1>13, IdleIsFresh
<1>15. /\ RefInv' /\ \A q \in Procs \ {p} : HoldKept(q)
       /\ \A y \in Blocks : c.buf[b].blkno = y => ContentsIn(c', io', disk', y) = c'.buf[b].data
       /\ \A y \in Blocks : c.buf[b].blkno # y => ContentsIn(c', io', disk', y) = ContentsIn(c, io, disk, y)
  BY <1>1, <1>3, <1>9, <1>11, <1>12, <1>13, <1>14, DirtyStep
<1>16. \A y \in Blocks : ContentsIn(c', io', disk', y) = IF y = x THEN v ELSE ContentsIn(c, io, disk, y)
  BY <1>1, <1>9, <1>10, <1>15
<1> QED
  BY <1>1, <1>14, <1>15, <1>16, AbsRelease

LEMMA BiowaitRef ==
    ASSUME BioInv, BioInv', RefInv, NEW p \in Procs, Biowait(p)
    PROVE  RefInv' /\ (Unseen \/ \E x \in Blocks : Abs!Acquire(p, x))
<1>1. PICK x \in ProcRecord : /\ x = pr[p] /\ x.pc = "iowait" /\ CallOK(x) /\ cur \in {p, NoProc}
  BY ActorFacts DEF Biowait, At
<1>2. PICK b \in Bufs : b = x.bp
  BY <1>1 DEF CallOK, InBiowait, ProcRecord
<1>3. b \in Owned(p) /\ UNCHANGED <<io, disk>> /\ x.call \in {"bread", "write", "blkflush"}
  BY <1>1, <1>2, BioAssumption DEF Biowait, Owned, CallOK, InBiowait
<1>4. CASE ~Is(b, "DONE")
  <2>1. c' = [c EXCEPT !.buf[b].flags = @ \cup {"WANTED"}] /\ Sleep(p, b, "iowait")
    BY <1>1, <1>2, <1>4 DEF Biowait
  <2> QED
    BY <1>1, <1>3, <2>1, SleepRef
<1>5. CASE Is(b, "DONE") /\ x.call = "bread"
  <2>1. PICK r : r = [x EXCEPT !.pc = "hold"]
    OBVIOUS
  <2>2. r.pc = "hold" /\ r.bp = x.bp /\ r.call = x.call
    BY <2>1 DEF ProcRecord
  <2>3. pr' = [pr EXCEPT ![p] = r] /\ c' = c
    BY <1>1, <1>2, <1>5, <2>1 DEF Biowait, Goto
  <2>4. pr'[p] = r /\ \A q \in Procs \ {p} : Woke(pr[q], pr'[q])
    BY <2>3, OthersLeft
  <2>5. \A a \in Bufs : Steady(c, c', a) /\ (Is(a, "STALE")' => Is(a, "STALE"))
    BY <2>3, SteadySame DEF Is
  <2>6. FreshOK(pr[p])'
    BY <1>1, <2>2, <2>4, <2>5, FreshKept
  <2>7. RefInv' /\ SameContents /\ \A q \in Procs \ {p} : HoldKept(q)
    BY <1>1, <1>3, <2>4, <2>5, <2>6, NobodysOwn, SteadyStep
  <2>8. pr[p].pc # "hold" /\ pr'[p].pc = "hold" /\ "DONE" \in c'.buf[pr'[p].bp].flags
    BY <1>1, <1>2, <1>5, <2>2, <2>3, <2>4 DEF Is
  <2> QED
    BY <2>7, <2>8, AbsAcquire
<1>6. CASE Is(b, "DONE") /\ x.call = "write"
  <2>1. c' = brelse(c, b) /\ pr' = wakeprocs([pr EXCEPT ![p] = Idle], Released(b))
    BY <1>1, <1>2, <1>6 DEF Biowait, Return
  <2>2. RefInv' /\ SameContents /\ (\A q \in Procs \ {p} : HoldKept(q)) /\ pr'[p] = Idle
    BY <1>1, <1>3, <2>1, IdleRecord, GiveUpRef
  <2>3. pr[p].pc # "hold" /\ pr'[p].pc # "hold"
    BY <1>1, <2>2, IdleRecord
  <2> QED
    BY <2>2, <2>3, IdleStep DEF Unseen
<1>7. CASE Is(b, "DONE") /\ x.call = "blkflush"
  <2>1. PICK r \in ProcRecord : r = [x EXCEPT !.pc = "blkflush", !.bp = NoBuf]
    <3>1. [x EXCEPT !.pc = "blkflush", !.bp = NoBuf] \in ProcRecord
      BY DEF ProcRecord
    <3> QED
      BY <3>1
  <2>2. r.pc = "blkflush" /\ r.bp = NoBuf
    BY <2>1 DEF ProcRecord
  <2>3. /\ c' = brelse(c, b)
        /\ pr' = wakeprocs([pr EXCEPT ![p].pc = "blkflush", ![p].bp = NoBuf], Released(b))
    BY <1>1, <1>2, <1>7 DEF Biowait
  <2>4. [pr EXCEPT ![p].pc = "blkflush", ![p].bp = NoBuf] = [pr EXCEPT ![p] = r]
    BY <1>1, <2>1, ActorFacts
  <2>5. pr' = wakeprocs([pr EXCEPT ![p] = r], Released(b))
    BY <2>3, <2>4
  <2>6. RefInv' /\ SameContents /\ (\A q \in Procs \ {p} : HoldKept(q)) /\ pr'[p] = r
    BY <1>1, <1>3, <2>2, <2>3, <2>5, GiveUpRef
  <2>7. pr[p].pc # "hold" /\ pr'[p].pc # "hold"
    BY <1>1, <2>2, <2>6
  <2> QED
    BY <2>6, <2>7, IdleStep DEF Unseen
<1> QED
  BY <1>3, <1>4, <1>5, <1>6, <1>7

LEMMA FreshThen ==
    ASSUME BioInv, RefInv, NEW p \in Procs, NEW r, pr'[p] = r,
           \A a \in Bufs : Is(a, "STALE")' => Is(a, "STALE"), r.bp \in {pr[p].bp, NoBuf},
           r.pc \in {"check", "got", "blkcheck"} => r.b \in Bufs /\ "STALE" \notin c'.buf[r.b].flags,
           r.pc # "flushed"
    PROVE  FreshOK(pr[p])'
<1>1. FreshOK(pr[p]) /\ pr[p] \in ProcRecord
  BY DEF RefInv, BioInv, TypeOK
<1>2. pr[p].bp \in Bufs \cup {NoBuf}
  BY <1>1 DEF ProcRecord
<1> QED
  BY <1>1, <1>2 DEF FreshOK, Is

\* The new buffer is given the block.
LEMMA GetblkSearchRef ==
    ASSUME BioInv, BioInv', RefInv, NEW p \in Procs, GetblkSearch(p)
    PROVE  RefInv' /\ Unseen
<1>1. PICK x \in ProcRecord : /\ x = pr[p] /\ x.pc = "search" /\ CallOK(x) /\ PlacesOK(x) /\ HeldOK(x)
                              /\ cur \in {p, NoProc}
  BY ActorFacts DEF GetblkSearch, At
<1>2. /\ UNCHANGED <<io, disk>> /\ c \in CacheType /\ pr \in [Procs -> ProcRecord] /\ NoBuf \notin Bufs
      /\ x.blk # NoBlock /\ x.blk \in Blocks
  BY <1>1, ActorFacts DEF GetblkSearch, CallOK, PlacesOK, InGetblk, InBiowait, ProcRecord
<1>3. CASE \E b \in Cached(pr[p].blk) : pr' = [pr EXCEPT ![p].pc = "check", ![p].b = b] /\ UNCHANGED c
  <2>1. PICK b \in Cached(x.blk) : pr' = [pr EXCEPT ![p] = [x EXCEPT !.pc = "check", !.b = b]] /\ UNCHANGED c
    BY <1>1, <1>3
  <2>2. b \in Bufs /\ "STALE" \notin c.buf[b].flags
    BY DEF Cached, Is
  <2>3. PICK r : r = [x EXCEPT !.pc = "check", !.b = b]
    OBVIOUS
  <2>4. r.pc = "check" /\ r.b = b /\ r.bp = x.bp
    BY <2>3 DEF ProcRecord
  <2>5. pr' = [pr EXCEPT ![p] = r] /\ pr'[p] = r /\ c' = c
    BY <1>2, <2>1, <2>3
  <2>6. \A a \in Bufs : Steady(c, c', a) /\ (Is(a, "STALE")' => Is(a, "STALE"))
    BY <2>5, SteadySame DEF Is
  <2>7. FreshOK(pr[p])'
    BY <1>1, <2>2, <2>4, <2>5, <2>6, FreshThen
  <2> QED
    BY <1>1, <1>2, <2>4, <2>5, <2>6, <2>7, PlaceStep DEF Unseen
<1>4. CASE pr' = [pr EXCEPT ![p].pc = "getfree"] /\ UNCHANGED c
  <2>1. PICK r : r = [x EXCEPT !.pc = "getfree"]
    OBVIOUS
  <2>2. r.pc = "getfree" /\ r.bp = x.bp
    BY <2>1 DEF ProcRecord
  <2>3. pr' = [pr EXCEPT ![p] = r] /\ UNCHANGED <<c, io, disk>>
    BY <1>1, <1>2, <1>4, <2>1
  <2> QED
    BY <1>1, <2>2, <2>3, QuietStep
<1>5. CASE /\ ~incore(pr[p].blk) /\ pr[p].nbp # NoBuf
           /\ c' = [c EXCEPT !.buf[pr[p].nbp] = [@ EXCEPT !.flags = {"BUSY"}, !.blkno = pr[p].blk]]
           /\ pr' = [pr EXCEPT ![p].pc = "got", ![p].b = pr[p].nbp, ![p].nbp = NoBuf]
  <2>1. PICK b \in Bufs : b = x.nbp /\ b # NoBuf
    BY <1>1, <1>5 DEF ProcRecord
  <2>2. c.buf[b].blkno = NoBlock /\ b \in Owned(p)
    BY <1>1, <2>1 DEF HeldOK, Owned
  <2>3. b \notin ToSet(io) /\ "DELWRI" \notin c.buf[b].flags /\ \A q \in Procs \ {p} : b \notin Owned(q)
    BY <2>2, CacheNow, OnlyOwner DEF CacheOK
  <2>4. PICK K : K = NewBlock(c, b, x.blk)
    OBVIOUS
  <2>5. /\ \A a \in Bufs \ {b} : K.buf[a] = c.buf[a]
        /\ K.buf[b].flags = {"BUSY"}
    BY <1>2, <2>4, NewBlockFacts
  <2>6. c' = K
    BY <1>1, <1>5, <2>1, <2>4 DEF NewBlock
  <2>7. Blank(c, K, io, b)
    BY <2>3, <2>5 DEF Blank
  <2>8. \A a \in Bufs \ {b} : Steady(c, K, a)
    BY <2>5, SteadyEqual
  <2>9. \A a \in Bufs : Is(a, "STALE")' => Is(a, "STALE")
    BY <2>5, <2>6 DEF Is
  <2>10. PICK r : r = [x EXCEPT !.pc = "got", !.b = b, !.nbp = NoBuf]
    OBVIOUS
  <2>11. r.pc = "got" /\ r.b = b /\ r.bp = x.bp
    BY <2>10 DEF ProcRecord
  <2>12. pr' = [pr EXCEPT ![p] = r]
    BY <1>1, <1>5, <2>1, <2>10
  <2>13. pr'[p] = r /\ \A q \in Procs \ {p} : Woke(pr[q], pr'[q])
    BY <2>12, OthersLeft
  <2>14. FreshOK(pr[p])'
    <3>1. "STALE" \notin c'.buf[r.b].flags
      BY <2>5, <2>6, <2>11
    <3> QED
      BY <1>1, <2>9, <2>11, <2>13, <3>1, FreshThen
  <2>15. pr[p].pc # "hold" /\ pr'[p].pc # "hold"
    BY <1>1, <2>11, <2>13
  <2> QED
    BY <1>1, <1>2, <2>3, <2>6, <2>7, <2>8, <2>9, <2>13, <2>14, <2>15, ChangeStep
<1>6. \/ \E b \in Cached(pr[p].blk) : pr' = [pr EXCEPT ![p].pc = "check", ![p].b = b] /\ UNCHANGED c
      \/ pr' = [pr EXCEPT ![p].pc = "getfree"] /\ UNCHANGED c
      \/ /\ ~incore(pr[p].blk) /\ pr[p].nbp # NoBuf
         /\ c' = [c EXCEPT !.buf[pr[p].nbp] = [@ EXCEPT !.flags = {"BUSY"}, !.blkno = pr[p].blk]]
         /\ pr' = [pr EXCEPT ![p].pc = "got", ![p].b = pr[p].nbp, ![p].nbp = NoBuf]
  BY SMTT(30) DEF GetblkSearch
<1> QED
  BY <1>3, <1>4, <1>5, <1>6

LEMMA GetblkCheckRef ==
    ASSUME BioInv, BioInv', RefInv, NEW p \in Procs, GetblkCheck(p)
    PROVE  RefInv' /\ Unseen
<1>1. At(p, "check") /\ UNCHANGED <<io, disk>>
  BY DEF GetblkCheck
<1>2. /\ cur \in {p, NoProc} /\ pr[p].pc = "check" /\ pr[p].b \in Bufs
      /\ c.buf[pr[p].b].blkno = pr[p].blk /\ pr[p].blk # NoBlock
      /\ Owned(p) = {pr[p].bp, pr[p].nbp} \ {NoBuf}
      /\ pr[p].nbp # NoBuf => pr[p].nbp # pr[p].bp /\ c.buf[pr[p].nbp].blkno = NoBlock
  BY <1>1, CheckFacts
<1>3. PICK b \in Bufs : b = pr[p].b /\ c.buf[b].blkno # NoBlock
  BY <1>2
<1>4. "STALE" \notin c.buf[b].flags
  BY <1>2, <1>3 DEF RefInv, FreshOK, Is
<1>5. PICK x \in ProcRecord : x = pr[p] /\ pr \in [Procs -> ProcRecord]
  BY ActorFacts
<1>6. CASE Is(b, "BUSY")
  <2>1. c' = [c EXCEPT !.buf[b].flags = @ \cup {"WANTED"}] /\ Sleep(p, b, "search")
    BY <1>3, <1>6 DEF GetblkCheck
  <2> QED
    BY <1>1, <1>2, <2>1, SleepRef, SMTT(30)
<1>7. CASE ~Is(b, "BUSY")
  <2>1. b \in ToSet(c.free) /\ ~HasOwner(b)
    BY <1>3, <1>7, NotBusyIsFree, FreeFacts
  <2>2. PICK L \in CacheType :
              /\ L = notavail([c EXCEPT !.buf[b].flags = @ \ {"AGE"}], b)
              /\ Once(L.free) /\ ToSet(L.free) = ToSet(c.free) \ {b}
              /\ \A a \in Bufs \ {b} : L.buf[a] = c.buf[a]
              /\ L.buf[b].flags = (c.buf[b].flags \ {"AGE"}) \cup {"BUSY"}
              /\ L.buf[b].blkno = c.buf[b].blkno /\ L.buf[b].data = c.buf[b].data
    BY <2>1, FoundFacts, SMTT(30)
  <2>3. Steady(c, L, b) /\ "STALE" \notin L.buf[b].flags
    BY <1>4, <2>2 DEF Steady
  <2>4. CASE pr[p].nbp = NoBuf
    <3>1. c' = L /\ pr' = [pr EXCEPT ![p].pc = "got"]
      BY <1>3, <1>7, <2>2, <2>4 DEF GetblkCheck, Goto
    <3>2. PICK r : r = [x EXCEPT !.pc = "got"]
      OBVIOUS
    <3>3. r.pc = "got" /\ r.b = b /\ r.bp = pr[p].bp
      BY <1>3, <1>5, <3>2 DEF ProcRecord
    <3>4. pr' = [pr EXCEPT ![p] = r] /\ pr'[p] = r
      BY <1>5, <3>1, <3>2
    <3>5. \A a \in Bufs : Steady(c, L, a)
      BY <2>2, <2>3, SteadyEqual
    <3>6. \A a \in Bufs : Steady(c, c', a) /\ (Is(a, "STALE")' => Is(a, "STALE"))
      BY <3>1, <3>5 DEF Is, Steady
    <3>7. FreshOK(pr[p])'
      BY <2>3, <3>1, <3>3, <3>4, <3>6, FreshThen
    <3> QED
      BY <1>1, <1>2, <3>3, <3>4, <3>6, <3>7, PlaceStep DEF Unseen
  <2>5. CASE pr[p].nbp # NoBuf
    <3>1. PICK n \in Bufs : n = pr[p].nbp
      BY <1>5, <2>5 DEF ProcRecord
    <3>2. n \in Owned(p) /\ c.buf[n].blkno = NoBlock /\ n # b
      BY <1>2, <1>3, <2>5, <3>1
    <3>3. /\ n \notin ToSet(io) /\ "DELWRI" \notin c.buf[n].flags
          /\ n \notin ToSet(c.free) /\ \A q \in Procs \ {p} : n \notin Owned(q)
      BY <3>2, CacheNow, OnlyOwner, FreeFacts DEF CacheOK, HasOwner
    <3>4. PICK M : M = GivenBack(L, n)
      OBVIOUS
    <3>5. /\ \A a \in Bufs \ {n} : M.buf[a] = L.buf[a]
          /\ M.buf[n].flags = {} /\ M.buf[n].blkno = L.buf[n].blkno
      <4>1. n \notin ToSet(L.free) /\ Once(L.free)
        BY <2>2, <3>3
      <4> QED
        BY <3>4, <4>1, GivenBackFacts
    <3>6. c' = M
      BY <1>3, <1>7, <2>2, <2>5, <3>1, <3>4 DEF GetblkCheck, GivenBack
    <3>7. \A a \in Bufs \ {n} : Steady(c, M, a)
      <4>1. \A a \in Bufs : Steady(c, L, a)
        BY <2>2, <2>3, SteadyEqual
      <4> QED
        BY <3>5, <4>1 DEF Steady
    <3>8. Blank(c, M, io, n)
      BY <2>2, <3>2, <3>3, <3>5 DEF Blank
    <3>9. \A a \in Bufs : Is(a, "STALE")' => Is(a, "STALE")
      BY <3>5, <3>6, <3>7 DEF Is, Steady
    <3>10. PICK r \in ProcRecord : r = [x EXCEPT !.pc = "got", !.nbp = NoBuf]
      <4>1. [x EXCEPT !.pc = "got", !.nbp = NoBuf] \in ProcRecord
        BY DEF ProcRecord
      <4> QED
        BY <4>1
    <3>11. r.pc = "got" /\ r.b = b /\ r.bp = pr[p].bp
      BY <1>3, <1>5, <3>10 DEF ProcRecord
    <3>12. pr' = wakeprocs([pr EXCEPT ![p].pc = "got", ![p].nbp = NoBuf], IF c.wanted THEN {NoBuf} ELSE {})
      BY <1>3, <1>7, <2>5 DEF GetblkCheck
    <3>13. [pr EXCEPT ![p].pc = "got", ![p].nbp = NoBuf] = [pr EXCEPT ![p] = r]
      BY <1>5, <3>10
    <3>14. pr'[p] = r /\ \A q \in Procs \ {p} : Woke(pr[q], pr'[q])
      BY <3>11, <3>12, <3>13, OthersWoken
    <3>15. FreshOK(pr[p])'
      <4>1. "STALE" \notin c'.buf[r.b].flags
        BY <2>3, <3>2, <3>5, <3>6, <3>11
      <4> QED
        BY <3>9, <3>11, <3>14, <4>1, FreshThen
    <3>16. pr[p].pc # "hold" /\ pr'[p].pc # "hold"
      BY <1>2, <3>11, <3>14
    <3> QED
      BY <1>1, <1>2, <3>3, <3>6, <3>7, <3>8, <3>9, <3>14, <3>15, <3>16, ChangeStep
  <2> QED
    BY <2>4, <2>5
<1> QED
  BY <1>6, <1>7, SMTT(30)

\* A delayed write that is started: the contents of its block stay.
LEMMA WriteBehindRef ==
    ASSUME BioInv, BioInv', RefInv, NEW p \in Procs, cur \in {p, NoProc}, pr[p].pc # "hold",
           NEW b \in ToSet(c.free), Is(b, "DELWRI"),
           NEW why \in {{"ASYNC", "AGE"}, {"ASYNC"}}, NEW next \in {"getfree", "bflush"},
           WriteBehind(p, b, why, next)
    PROVE  RefInv' /\ Unseen
<1>1. /\ \A a \in Bufs \ {b} : c'.buf[a] = c.buf[a]
      /\ c'.buf[b].blkno = c.buf[b].blkno /\ c'.buf[b].data = c.buf[b].data
      /\ "READ" \notin c'.buf[b].flags /\ "DELWRI" \notin c'.buf[b].flags /\ "ERROR" \notin c'.buf[b].flags
      /\ ("STALE" \in c'.buf[b].flags) <=> ("STALE" \in c.buf[b].flags)
  <2>1. /\ c' \in CacheType /\ Once(c'.free) /\ ToSet(c'.free) = ToSet(c.free) \ {b}
        /\ c'.wanted = c.wanted /\ c'.bufsize = c.bufsize
        /\ \A a \in Bufs \ {b} : c'.buf[a] = c.buf[a]
        /\ c'.buf[b].bufsize = c.buf[b].bufsize /\ c'.buf[b].blkno = c.buf[b].blkno
        /\ {"BUSY", "ASYNC"} \subseteq c'.buf[b].flags
        /\ {"READ", "DONE", "DELWRI", "ERROR"} \cap c'.buf[b].flags = {}
        /\ ("STALE" \in c'.buf[b].flags) <=> ("STALE" \in c.buf[b].flags)
        /\ c'.buf[b].data = c.buf[b].data
    BY WriteBehindFacts, SMTT(30)
  <2> QED
    BY <2>1
<1>2. PICK r \in ProcRecord : pr' = [pr EXCEPT ![p] = r] /\ r.pc = "asyncnt" /\ r.bp = pr[p].bp
  BY WriteBehindFacts, SMTT(30)
<1>3. io' = Append(io, b) /\ disk' = disk
  BY DEF WriteBehind
<1>4. b \in Bufs /\ b \notin ToSet(io) /\ ~HasOwner(b)
  BY FreeFacts
<1>5. "STALE" \notin c.buf[b].flags
  BY <1>4 DEF RefInv, StoreOK, ContentsOK, Is
<1>6. pr'[p] = r /\ \A q \in Procs \ {p} : Woke(pr[q], pr'[q]) /\ b \notin Owned(q)
  BY <1>2, <1>4, OthersLeft DEF HasOwner
<1>7. \A a \in Bufs : Is(a, "STALE")' => Is(a, "STALE")
  BY <1>1 DEF Is
<1>8. FreshOK(pr[p])'
  BY <1>2, <1>6, <1>7, FreshKept
<1>9. \A a \in Bufs \ {b} : Steady(c, c', a)
  BY <1>1, SteadyEqual
<1>10. /\ RefInv' /\ \A q \in Procs \ {p} : HoldKept(q)
       /\ \A x \in Blocks : WritesIn(c', b, x) => ContentsIn(c', io', disk', x) = c'.buf[b].data
       /\ \A x \in Blocks : ~WritesIn(c', b, x) => ContentsIn(c', io', disk', x) = ContentsIn(c, io, disk, x)
  BY <1>1, <1>3, <1>4, <1>5, <1>6, <1>8, <1>9, StartedStep
<1>11. SameContents
  <2> SUFFICES ASSUME NEW x \in Blocks PROVE ContentsIn(c', io', disk', x) = ContentsIn(c, io, disk, x)
    BY DEF SameContents
  <2>1. CASE ~WritesIn(c', b, x)
    BY <1>10, <2>1
  <2>2. CASE WritesIn(c', b, x)
    <3>1. DelayedIn(c, b, x)
      BY <1>1, <1>5, <2>2 DEF DelayedIn, WritesIn, Is
    <3>2. Alone(c) /\ x # NoBlock
      BY CacheNow, BioAssumption DEF CacheOK
    <3>3. ContentsIn(c, io, disk, x) = c.buf[b].data
      BY <1>4, <3>1, <3>2, ContentsAre
    <3> QED
      BY <1>1, <1>10, <2>2, <3>3
  <2> QED
    BY <2>1, <2>2
<1>12. pr'[p].pc # "hold"
  BY <1>2, <1>6
<1> QED
  BY <1>10, <1>11, <1>12, IdleStep DEF Unseen

LEMMA BflushRef ==
    ASSUME BioInv, BioInv', RefInv, NEW p \in Procs, Bflush(p)
    PROVE  RefInv' /\ Unseen
<1>1. PICK b \in ToSet(c.free) : b = c.free[Delayed] /\ Is(b, "DELWRI")
  BY DelayedIs DEF Bflush
<1>2. WriteBehind(p, b, {"ASYNC"}, "bflush")
  BY <1>1 DEF Bflush
<1>3. pr[p].pc # "hold" /\ cur \in {p, NoProc}
  BY DEF Bflush, At
<1> QED
  BY <1>1, <1>2, <1>3, WriteBehindRef

LEMMA ReclaimRef ==
    ASSUME BioInv, BioInv', RefInv, NEW p \in Procs, Reclaim(p)
    PROVE  RefInv' /\ Unseen
<1>1. cur \in {p, NoProc} /\ pr[p].pc \in {"getfree", "reclaim"}
  BY NewFacts DEF Reclaim
<1>2. PICK x \in ProcRecord : x = pr[p] /\ pr \in [Procs -> ProcRecord]
  BY ActorFacts
<1>3. c \in CacheType /\ Once(c.free) /\ c.free \in Seq(Bufs)
  BY CacheNow, CacheFields DEF BioInv, ProcInv, BufsOK, CacheOK
<1>4. PICK b \in ToSet(c.free) : b = Head(c.free)
  BY <1>3, SeqFacts DEF Reclaim
<1>5. b \in Bufs /\ b \notin ToSet(io)
  BY <1>4, FreeFacts
<1>6. CASE Is(b, "DELWRI") /\ WriteBehind(p, b, {"ASYNC", "AGE"}, "getfree")
  BY <1>1, <1>6, WriteBehindRef
<1>7. ASSUME ~Is(b, "DELWRI"), UNCHANGED <<io, disk>>, NEW L,
             \A a \in Bufs \ {b} : L.buf[a] = c.buf[a],
             L.buf[b].blkno = NoBlock,
             L.buf[b].flags \subseteq c.buf[b].flags \cup {"BUSY"},
             c' = L, NEW r, pr' = [pr EXCEPT ![p] = r], r.pc \in {"search", "reclaim"}, r.bp = pr[p].bp
      PROVE  RefInv' /\ Unseen
  <2>1. pr'[p] = r /\ \A q \in Procs \ {p} : Woke(pr[q], pr'[q])
    BY <1>7, OthersLeft
  <2>2. \A q \in Procs \ {p} : b \notin Owned(q)
    BY <1>5, OnlyOwner
  <2>3. \A a \in Bufs \ {b} : Steady(c, c', a)
    BY <1>7, SteadyEqual
  <2>4. Blank(c, c', io, b)
    BY <1>5, <1>7, NoErrors DEF Blank, Is
  <2>5. \A a \in Bufs : Is(a, "STALE")' => Is(a, "STALE")
    BY <1>7 DEF Is
  <2>6. FreshOK(pr[p])'
    BY <1>7, <2>1, <2>5, FreshKept
  <2>7. pr[p].pc # "hold" /\ pr'[p].pc # "hold"
    BY <1>1, <1>7, <2>1
  <2> QED
    BY <1>1, <1>5, <1>7, <2>1, <2>2, <2>3, <2>4, <2>5, <2>6, <2>7, ChangeStep
<1>8. CASE /\ ~Is(b, "DELWRI") /\ UNCHANGED <<io, disk>>
           /\ c' = Unhashed(c, b) /\ pr' = [pr EXCEPT ![p].pc = "search", ![p].nbp = b]
  <2>1. PICK L : L = Unhashed(c, b)
    OBVIOUS
  <2>2. /\ \A a \in Bufs \ {b} : L.buf[a] = c.buf[a]
        /\ L.buf[b].flags = c.buf[b].flags \cup {"BUSY"} /\ L.buf[b].blkno = NoBlock
    BY <1>3, <1>5, <2>1, UnhashedFacts
  <2>3. PICK r : r = [x EXCEPT !.pc = "search", !.nbp = b]
    OBVIOUS
  <2>4. r.pc = "search" /\ r.bp = x.bp
    BY <2>3 DEF ProcRecord
  <2>5. c' = L /\ pr' = [pr EXCEPT ![p] = r]
    BY <1>2, <1>8, <2>1, <2>3
  <2>6. L.buf[b].flags \subseteq c.buf[b].flags \cup {"BUSY"}
    BY <2>2
  <2> QED
    BY <1>2, <1>7, <1>8, <2>2, <2>4, <2>5, <2>6
<1>9. CASE /\ ~Is(b, "DELWRI") /\ UNCHANGED <<io, disk>>
           /\ c' = Freed(c, b) /\ pr' = [pr EXCEPT ![p].pc = "reclaim"]
  <2>1. PICK L : L = Freed(c, b)
    OBVIOUS
  <2>2. /\ \A a \in Bufs \ {b} : L.buf[a] = c.buf[a]
        /\ L.buf[b] = NoBuffer
    BY <1>3, <1>5, <2>1, FreedFacts, MemoryFits
  <2>3. PICK r : r = [x EXCEPT !.pc = "reclaim"]
    OBVIOUS
  <2>4. r.pc = "reclaim" /\ r.bp = x.bp
    BY <2>3 DEF ProcRecord
  <2>5. c' = L /\ pr' = [pr EXCEPT ![p] = r]
    BY <1>2, <1>9, <2>1, <2>3
  <2>6. L.buf[b].flags \subseteq c.buf[b].flags \cup {"BUSY"} /\ L.buf[b].blkno = NoBlock
    BY <2>2 DEF NoBuffer
  <2> QED
    BY <1>2, <1>7, <1>9, <2>2, <2>4, <2>5, <2>6
<1>10. \/ Is(b, "DELWRI") /\ WriteBehind(p, b, {"ASYNC", "AGE"}, "getfree")
       \/ /\ ~Is(b, "DELWRI") /\ UNCHANGED <<io, disk>>
          /\ c' = Unhashed(c, b) /\ pr' = [pr EXCEPT ![p].pc = "search", ![p].nbp = b]
       \/ /\ ~Is(b, "DELWRI") /\ UNCHANGED <<io, disk>>
          /\ c' = Freed(c, b) /\ pr' = [pr EXCEPT ![p].pc = "reclaim"]
  BY <1>4 DEF Reclaim
<1> QED
  BY <1>6, <1>8, <1>9, <1>10

LEMMA FreshBp ==
    ASSUME NEW p \in Procs, NEW r, pr'[p] = r, r.pc \notin {"check", "got", "blkcheck", "flushed"},
           r.bp # NoBuf => "STALE" \notin c'.buf[r.bp].flags
    PROVE  FreshOK(pr[p])'
BY DEF FreshOK, Is

\* What Allocate() does with the cache, and its process.
Headed(p, h, pc, size) ==
    /\ c' = [c EXCEPT !.bufsize = @ - size, !.buf[h].bufsize = size]
    /\ pr' = [pr EXCEPT ![p].pc = pc, ![p].nbp = h]

LEMMA AllocateIs ==
    ASSUME NEW p \in Procs, Allocate(p)
    PROVE  /\ At(p, "getfree") \/ At(p, "reclaim")
           /\ UNCHANGED <<io, disk>>
           /\ \/ /\ Short(bsize[pr[p].blk])
                 /\ Sleep(p, NoBuf, "search") /\ c' = [c EXCEPT !.wanted = TRUE]
              \/ /\ ~Short(bsize[pr[p].blk])
                 /\ \E h \in Headers, pc \in {"kmem", "search"} : Headed(p, h, pc, bsize[pr[p].blk])
<1>1. (At(p, "getfree") \/ At(p, "reclaim")) /\ UNCHANGED <<io, disk>>
  <2>1. At(p, "getfree") \/ At(p, "reclaim")
    BY DEF Allocate
  <2>2. UNCHANGED <<basyncnt, io, disk>>
    BY DEF Allocate
  <2> QED
    BY <2>1, <2>2
<1>2. CASE Short(bsize[pr[p].blk])
  <2>1. Sleep(p, NoBuf, "search") /\ c' = [c EXCEPT !.wanted = TRUE]
    BY <1>2 DEF Allocate
  <2> QED
    BY <1>1, <1>2, <2>1
<1>3. CASE ~Short(bsize[pr[p].blk])
  <2>1. PICK h \in Headers, waits \in {FALSE, KmemSleeps} :
           /\ c' = [c EXCEPT !.bufsize = @ - bsize[pr[p].blk], !.buf[h].bufsize = bsize[pr[p].blk]]
           /\ pr' = [pr EXCEPT ![p].pc = IF waits THEN "kmem" ELSE "search", ![p].nbp = h]
           /\ cur' = IF waits THEN NoProc ELSE p
    BY <1>3 DEF Allocate
  <2>2. PICK pc \in {"kmem", "search"} : pc = IF waits THEN "kmem" ELSE "search"
    OBVIOUS
  <2>3. Headed(p, h, pc, bsize[pr[p].blk])
    BY <2>1, <2>2 DEF Headed
  <2> QED
    BY <1>1, <1>3, <2>3
<1> QED
  BY <1>2, <1>3

LEMMA AllocateRef ==
    ASSUME BioInv, BioInv', RefInv, NEW p \in Procs, Allocate(p)
    PROVE  RefInv' /\ Unseen
<1>0. PICK size \in Nat : size = bsize[pr[p].blk]
  <2>1. bsize[pr[p].blk] \in Nat
    <3>1. At(p, "getfree") \/ At(p, "reclaim")
      BY AllocateIs
    <3>2. bsize[pr[p].blk] \in Nat \ {0}
      BY <3>1, NewFacts
    <3> QED
      BY <3>2
  <2> QED
    BY <2>1
<1>1. At(p, "getfree") \/ At(p, "reclaim")
  BY <1>0, AllocateIs
<1>2. cur \in {p, NoProc} /\ pr[p].pc \in {"getfree", "reclaim"}
  BY <1>1, NewFacts
<1>3. c \in CacheType /\ c.bufsize \in Nat /\ UNCHANGED <<io, disk>>
  <2>1. c \in CacheType
    BY ActorFacts
  <2>2. UNCHANGED <<io, disk>>
    BY <1>0, AllocateIs
  <2> QED
    BY <2>1, <2>2, CacheFields
<1>4. PICK x \in ProcRecord : x = pr[p] /\ pr \in [Procs -> ProcRecord]
  BY ActorFacts
<1>5. CASE Short(size)
  <2>1. Sleep(p, NoBuf, "search") /\ c' = [c EXCEPT !.wanted = TRUE]
    BY <1>0, <1>5, AllocateIs
  <2>2. PICK r \in ProcRecord : pr' = [pr EXCEPT ![p] = r] /\ r.pc = "asleep" /\ r.bp = pr[p].bp
    BY <2>1, SleepRecord
  <2>3. c'.buf = c.buf
    BY <1>3, <2>1 DEF CacheType
  <2>4. \A a \in Bufs : Steady(c, c', a)
    BY <2>3, SteadyEqual
  <2>5. \A a \in Bufs : Is(a, "STALE")' => Is(a, "STALE")
    BY <2>3 DEF Is
  <2>6. pr'[p] = r
    BY <2>2, OthersLeft
  <2>7. FreshOK(pr[p])'
    BY <2>2, <2>5, <2>6, FreshKept
  <2> QED
    BY <1>2, <1>3, <2>2, <2>4, <2>7, PlaceStep DEF Unseen
<1>6. CASE ~Short(size)
  <2>1. PICK h \in Headers, pc \in {"kmem", "search"} : Headed(p, h, pc, size)
    BY <1>0, <1>6, AllocateIs
  <2>2. h \in Bufs /\ c.buf[h] = NoBuffer /\ h \notin ToSet(io) /\ ~HasOwner(h)
    <3>1. h \in Bufs /\ c.buf[h].bufsize = 0
      BY DEF Headers
    <3>2. PointOK(c.buf[h], h \in ToSet(c.free), h \in ToSet(io), HasOwner(h))
      BY <3>1 DEF BioInv, ProcInv, BufsOK
    <3> QED
      BY <3>1, <3>2 DEF PointOK
  <2>3. NoBuffer.flags = {} /\ NoBuffer.blkno = NoBlock
    BY DEF NoBuffer
  <2>4. PICK K : K = Allocated(c, h, size)
    OBVIOUS
  <2>5. /\ \A a \in Bufs \ {h} : K.buf[a] = c.buf[a]
        /\ K.buf[h].flags = {} /\ K.buf[h].blkno = NoBlock
    <3>1. size <= c.bufsize
      BY <1>3, <1>6 DEF Short
    <3>2. /\ \A a \in Bufs \ {h} : K.buf[a] = c.buf[a]
          /\ K.buf[h].flags = c.buf[h].flags /\ K.buf[h].blkno = c.buf[h].blkno
      BY <1>3, <2>2, <2>4, <3>1, AllocatedFacts
    <3> QED
      BY <2>2, <2>3, <3>2
  <2>6. c' = K
    BY <2>1, <2>4 DEF Allocated, Headed
  <2>8. PICK r : r = [x EXCEPT !.pc = pc, !.nbp = h]
    OBVIOUS
  <2>9. r.pc = pc /\ r.bp = x.bp
    BY <2>8 DEF ProcRecord
  <2>10. pr' = [pr EXCEPT ![p] = r]
    BY <1>4, <2>1, <2>8 DEF Headed
  <2>11. pr'[p] = r /\ \A q \in Procs \ {p} : Woke(pr[q], pr'[q]) /\ h \notin Owned(q)
    BY <2>2, <2>10, OthersLeft DEF HasOwner
  <2>12. \A a \in Bufs \ {h} : Steady(c, K, a)
    BY <2>5, SteadyEqual
  <2>13. Blank(c, K, io, h)
    BY <2>2, <2>3, <2>5 DEF Blank
  <2>14. \A a \in Bufs : Is(a, "STALE")' => Is(a, "STALE")
    BY <2>5, <2>6 DEF Is
  <2>15. FreshOK(pr[p])'
    BY <1>4, <2>9, <2>11, <2>14, FreshKept
  <2>16. pr[p].pc # "hold" /\ pr'[p].pc # "hold"
    BY <1>2, <2>9, <2>11
  <2> QED
    BY <1>2, <1>3, <2>2, <2>6, <2>11, <2>12, <2>13, <2>14, <2>15, <2>16, ChangeStep
<1> QED
  BY <1>5, <1>6

\* The block is had, or a read of it is started, or the one read ahead given up.
LEMMA GotRef ==
    ASSUME BioInv, BioInv', RefInv, NEW p \in Procs, Got(p)
    PROVE  RefInv' /\ (Unseen \/ \E x \in Blocks : Abs!Acquire(p, x))
<1>1. At(p, "got") /\ disk' = disk /\ pr[p].pc = "got"
  BY DEF Got, At
<1>2. PICK b \in Bufs : b = pr[p].b
  BY <1>1, GotFacts
<1>3. /\ cur \in {p, NoProc} /\ b \in Owned(p) /\ b \notin ToSet(io) /\ b # NoBuf
      /\ pr[p].call \in {"bread", "breada", "getblk", "ra"}
      /\ pr[p].call # "ra" => pr[p].bp = NoBuf
      /\ PointOK(c.buf[b], FALSE, FALSE, TRUE)
      /\ \A q \in Procs \ {p} : b \notin Owned(q)
  <2>1. /\ cur \in {p, NoProc} /\ b \notin ToSet(io) /\ b # NoBuf
        /\ Owned(p) = {b, pr[p].bp} \ {NoBuf}
        /\ pr[p].call \in {"bread", "breada", "getblk", "ra"}
        /\ pr[p].call # "ra" => pr[p].bp = NoBuf
        /\ PointOK(c.buf[b], FALSE, FALSE, TRUE)
        /\ \A q \in Procs \ {p} : b \notin Owned(q)
    BY <1>1, <1>2, GotFacts
  <2> QED
    BY <2>1
<1>4. /\ "STALE" \notin c.buf[b].flags
      /\ pr[p].bp # NoBuf => "STALE" \notin c.buf[pr[p].bp].flags
  BY <1>1, <1>2 DEF RefInv, FreshOK, Is
<1>5. CASE pr[p].call = "ra" /\ Is(b, "DONE")
  <2>1. c' = brelse(c, b) /\ pr' = wakeprocs(GotNext(p, "raend"), Released(b)) /\ io' = io
    BY <1>2, <1>5 DEF Got, GotNext
  <2>2. PICK r \in ProcRecord :
              /\ GotNext(p, "raend") = [pr EXCEPT ![p] = r]
              /\ r.pc = "raend" /\ r.b = NoBuf /\ r.nbp = NoBuf /\ r.bp = pr[p].bp
              /\ r.call = pr[p].call /\ r.blk = pr[p].blk /\ r.ra = pr[p].ra
    BY <1>1, <1>5, GotRecord
  <2>3. pr' = wakeprocs([pr EXCEPT ![p] = r], Released(b))
    BY <2>1, <2>2
  <2>4. /\ RefInv' /\ SameContents /\ \A q \in Procs \ {p} : HoldKept(q)
        /\ pr'[p] = r
    BY <1>1, <1>3, <2>1, <2>2, <2>3, GiveUpRef
  <2>5. pr[p].pc # "hold" /\ pr'[p].pc # "hold"
    BY <1>1, <2>2, <2>4
  <2> QED
    BY <2>4, <2>5, IdleStep DEF Unseen
<1>6. CASE pr[p].call = "getblk" \/ (pr[p].call \in {"bread", "breada"} /\ Is(b, "DONE"))
  <2>1. PICK pc \in {"hold", "ra"} :
           /\ pr' = GotNext(p, pc) /\ UNCHANGED <<c, io>>
           /\ pr[p].call = "bread" => Is(b, "DONE")
    BY <1>2, <1>6 DEF Got, GotNext
  <2>2. PICK r \in ProcRecord :
              /\ GotNext(p, pc) = [pr EXCEPT ![p] = r]
              /\ r.pc = pc /\ r.b = NoBuf /\ r.nbp = NoBuf
              /\ r.bp = (IF pr[p].call = "ra" THEN pr[p].bp ELSE pr[p].b)
              /\ r.call = pr[p].call /\ r.blk = pr[p].blk /\ r.ra = pr[p].ra
    BY <1>1, GotRecord
  <2>3. r.bp = b /\ pr' = [pr EXCEPT ![p] = r]
    BY <1>2, <1>6, <2>1, <2>2
  <2>4. pr'[p] = r /\ \A q \in Procs \ {p} : Woke(pr[q], pr'[q])
    BY <2>3, OthersLeft
  <2>5. FreshOK(pr[p])'
    BY <1>4, <2>1, <2>2, <2>3, <2>4, FreshBp
  <2>6. \A a \in Bufs : Steady(c, c', a)
    BY <2>1, SteadySame
  <2>7. RefInv' /\ SameContents /\ \A q \in Procs \ {p} : HoldKept(q)
    BY <1>1, <1>3, <2>1, <2>4, <2>5, <2>6, NobodysOwn, SteadyStep
  <2>8. CASE pc = "ra"
    <3>1. pr[p].pc # "hold" /\ pr'[p].pc # "hold"
      BY <1>1, <2>2, <2>4, <2>8
    <3> QED
      BY <2>7, <3>1, IdleStep DEF Unseen
  <2>9. CASE pc = "hold"
    <3>1. pr[p].pc # "hold" /\ pr'[p].pc = "hold"
      BY <1>1, <2>2, <2>4, <2>9
    <3>2. pr'[p].call = "bread" => "DONE" \in c'.buf[pr'[p].bp].flags
      BY <2>1, <2>2, <2>3, <2>4 DEF Is
    <3> QED
      BY <2>7, <3>1, <3>2, AbsAcquire
  <2> QED
    BY <2>8, <2>9
<1>7. CASE pr[p].call \in {"bread", "breada", "ra"} /\ ~Is(b, "DONE")
  <2>1. PICK pc \in {"iowait", "ra", "raend"}, A \in {{"ASYNC"}, {}} :
           /\ pr' = GotNext(p, pc) /\ io' = Append(io, b)
           /\ c' = [c EXCEPT !.buf[b].flags = @ \cup {"READ"} \cup A]
    <3>1. PICK A \in {{"ASYNC"}, {}} : A = IF pr[p].call = "ra" THEN {"ASYNC"} ELSE {}
      OBVIOUS
    <3>2. CASE pr[p].call = "bread"
      <4>1. /\ pr' = GotNext(p, "iowait") /\ io' = Append(io, b)
            /\ c' = [c EXCEPT !.buf[b].flags = @ \cup {"READ"} \cup A]
        BY <1>2, <1>7, <3>1, <3>2 DEF Got, GotNext
      <4> QED
        BY <4>1
    <3>3. CASE pr[p].call = "breada"
      <4>1. /\ pr' = GotNext(p, "ra") /\ io' = Append(io, b)
            /\ c' = [c EXCEPT !.buf[b].flags = @ \cup {"READ"} \cup A]
        BY <1>2, <1>7, <3>1, <3>3 DEF Got, GotNext
      <4> QED
        BY <4>1
    <3>4. CASE pr[p].call = "ra"
      <4>1. /\ pr' = GotNext(p, "raend") /\ io' = Append(io, b)
            /\ c' = [c EXCEPT !.buf[b].flags = @ \cup {"READ"} \cup A]
        BY <1>2, <1>7, <3>1, <3>4 DEF Got, GotNext
      <4> QED
        BY <4>1
    <3> QED
      BY <1>7, <3>2, <3>3, <3>4
  <2>2. PICK r \in ProcRecord :
              /\ GotNext(p, pc) = [pr EXCEPT ![p] = r]
              /\ r.pc = pc /\ r.b = NoBuf /\ r.nbp = NoBuf
              /\ r.bp = (IF pr[p].call = "ra" THEN pr[p].bp ELSE pr[p].b)
              /\ r.call = pr[p].call /\ r.blk = pr[p].blk /\ r.ra = pr[p].ra
    BY <1>1, GotRecord
  <2>3. r.bp \in {b, pr[p].bp} /\ pr' = [pr EXCEPT ![p] = r]
    BY <1>2, <2>1, <2>2
  <2>4. pr'[p] = r /\ \A q \in Procs \ {p} : Woke(pr[q], pr'[q])
    BY <2>3, OthersLeft
  <2>5. c \in CacheType /\ c.buf[b].flags \in SUBSET Flags
    BY ActorFacts, CacheFields
  <2>6. PICK F \in SUBSET Flags : F = c.buf[b].flags \cup {"READ"} \cup A
    BY <2>5 DEF Flags
  <2>7. PICK L : L = Flagged(c, b, F)
    OBVIOUS
  <2>8. /\ \A a \in Bufs \ {b} : L.buf[a] = c.buf[a]
        /\ L.buf[b].flags = F /\ L.buf[b].blkno = c.buf[b].blkno
    BY <2>5, <2>7, FlaggedFacts
  <2>9. c' = L
    BY <2>1, <2>6, <2>7 DEF Flagged
  <2>10. "DELWRI" \notin c.buf[b].flags /\ "ERROR" \notin c.buf[b].flags
    BY <1>3, <1>7, NoErrors DEF PointOK, Is
  <2>11. {"STALE", "DELWRI", "ERROR"} \cap F = {} /\ "READ" \in F
    BY <1>4, <2>6, <2>10
  <2>12. \A a \in Bufs : "STALE" \in c'.buf[a].flags => "STALE" \in c.buf[a].flags
    BY <2>8, <2>9, <2>11
  <2>13. FreshOK(pr[p])'
    <3>1. r.bp # NoBuf => "STALE" \notin c.buf[r.bp].flags /\ r.bp \in Bufs
      BY <1>4, <2>3 DEF ProcRecord
    <3>2. r.bp # NoBuf => "STALE" \notin c'.buf[r.bp].flags
      BY <2>12, <3>1
    <3> QED
      BY <2>2, <2>4, <3>2, FreshBp
  <2>14. \A a \in Bufs \ {b} : Steady(c, c', a)
    BY <2>8, <2>9, SteadyEqual
  <2>15. \A q \in Procs \ {p} : Woke(pr[q], pr'[q]) /\ b \notin Owned(q)
    BY <1>3, <2>4
  <2>16. /\ c'.buf[b].blkno = c.buf[b].blkno /\ "READ" \in c'.buf[b].flags
         /\ "STALE" \notin c'.buf[b].flags /\ "DELWRI" \notin c'.buf[b].flags /\ "ERROR" \notin c'.buf[b].flags
    BY <2>8, <2>9, <2>11
  <2>17. io' = Append(io, b)
    BY <2>1
  <2>18. /\ RefInv' /\ \A q \in Procs \ {p} : HoldKept(q)
         /\ \A x \in Blocks : ~WritesIn(c', b, x) => ContentsIn(c', io', disk', x) = ContentsIn(c, io, disk, x)
    BY <1>1, <1>3, <2>10, <2>13, <2>14, <2>15, <2>16, <2>17, StartedStep
  <2>19. SameContents
    BY <2>16, <2>18 DEF SameContents, WritesIn
  <2>20. pr[p].pc # "hold" /\ pr'[p].pc # "hold"
    BY <1>1, <2>2, <2>4
  <2> QED
    BY <2>18, <2>19, <2>20, IdleStep DEF Unseen
<1> QED
  BY <1>3, <1>5, <1>6, <1>7

LEMMA BlkflushCheckRef ==
    ASSUME BioInv, BioInv', RefInv, NEW p \in Procs, BlkflushCheck(p)
    PROVE  RefInv' /\ Unseen
<1>1. PICK x \in ProcRecord : /\ x = pr[p] /\ CallOK(x) /\ PlacesOK(x) /\ HeldOK(x) /\ cur \in {p, NoProc}
                              /\ x.pc = "blkcheck" /\ pr \in [Procs -> ProcRecord]
  BY ActorFacts DEF BlkflushCheck, At
<1>2. PICK b \in Bufs : b = x.b
  BY <1>1 DEF CallOK, ProcRecord
<1>3. /\ x.blk # NoBlock /\ c.buf[b].blkno = x.blk /\ c.buf[b].blkno # NoBlock
  BY <1>1, <1>2 DEF CallOK, HeldOK, InBlkflush
<1>4. disk' = disk /\ pr[p].pc # "hold"
  BY <1>1 DEF BlkflushCheck
<1>5. "STALE" \notin c.buf[b].flags
  BY <1>1, <1>2 DEF RefInv, FreshOK, Is
<1>6. CASE Is(b, "BUSY")
  <2>1. c' = [c EXCEPT !.buf[b].flags = @ \cup {"WANTED"}] /\ Sleep(p, b, "blkflush") /\ io' = io
    BY <1>1, <1>2, <1>6 DEF BlkflushCheck
  <2> QED
    BY <1>1, <1>4, <2>1, SleepRef
<1>7. CASE ~Is(b, "BUSY") /\ ~Is(b, "DELWRI")
  <2>1. pr' = [pr EXCEPT ![p].pc = "flushed"] /\ UNCHANGED <<c, io>>
    BY <1>1, <1>2, <1>7 DEF BlkflushCheck, Goto
  <2>2. PICK r : r = [x EXCEPT !.pc = "flushed"]
    OBVIOUS
  <2>3. r.pc = "flushed" /\ r.bp = x.bp /\ r.blk = x.blk
    BY <2>2 DEF ProcRecord
  <2>4. pr' = [pr EXCEPT ![p] = r] /\ pr'[p] = r
    BY <1>1, <2>1, <2>2
  <2>5. b \notin ToSet(io)
    <3>1. b \in ToSet(c.free)
      BY <1>3, <1>7, NotBusyIsFree
    <3> QED
      BY <3>1, FreeFacts
  <2>6. ASSUME NEW a \in Bufs, c.buf[a].blkno = x.blk, ~Is(a, "STALE") PROVE a = b
    BY <1>3, <1>5, <2>6, CacheNow DEF CacheOK, Alone, Is
  <2>7. FreshOK(pr[p])'
    <3>1. x.bp # NoBuf => ~Is(x.bp, "STALE")
      BY <1>1 DEF RefInv, FreshOK
    <3>2. r.bp # NoBuf => "STALE" \notin c'.buf[r.bp].flags
      BY <2>1, <2>3, <3>1 DEF Is
    <3>3. \A a \in Bufs : c'.buf[a].blkno = r.blk =>
              "STALE" \in c'.buf[a].flags \/ ("DELWRI" \notin c'.buf[a].flags /\ (a \in ToSet(io') => "READ" \in c'.buf[a].flags))
      BY <1>7, <2>1, <2>3, <2>5, <2>6 DEF Is
    <3> QED
      BY <2>3, <2>4, <3>2, <3>3 DEF FreshOK, Is
  <2>8. \A a \in Bufs : Steady(c, c', a)
    BY <2>1, SteadySame
  <2> QED
    BY <1>1, <1>4, <2>1, <2>3, <2>4, <2>7, <2>8, PlaceStep DEF Unseen
<1>8. CASE ~Is(b, "BUSY") /\ Is(b, "DELWRI")
  <2>1. /\ c' = Written(notavail(c, b), b) /\ io' = Append(io, b)
        /\ pr' = [pr EXCEPT ![p].pc = "iowait", ![p].bp = b, ![p].b = NoBuf]
    BY <1>1, <1>2, <1>8 DEF BlkflushCheck
  <2>2. b \in ToSet(c.free) /\ b \notin ToSet(io) /\ ~HasOwner(b)
    BY <1>3, <1>8, NotBusyIsFree, FreeFacts
  <2>3. c \in CacheType /\ Once(c.free)
    BY ActorFacts DEF BioInv, ProcInv, BufsOK
  <2>4. PICK L \in CacheType :
              /\ L = notavail(c, b)
              /\ \A a \in Bufs \ {b} : L.buf[a] = c.buf[a]
              /\ L.buf[b].flags = c.buf[b].flags \cup {"BUSY"}
              /\ L.buf[b].blkno = c.buf[b].blkno /\ L.buf[b].data = c.buf[b].data
    <3>1. notavail(c, b) \in CacheType
      BY <2>2, <2>3, TakenFacts
    <3>2. PICK L \in CacheType : L = notavail(c, b)
      BY <3>1
    <3>3. /\ \A a \in Bufs \ {b} : L.buf[a] = c.buf[a]
          /\ L.buf[b].flags = c.buf[b].flags \cup {"BUSY"}
          /\ L.buf[b].blkno = c.buf[b].blkno /\ L.buf[b].data = c.buf[b].data
      BY <2>2, <2>3, <3>2, TakenFacts
    <3> QED
      BY <3>2, <3>3
  <2>5. PICK M : M = Written(L, b)
    OBVIOUS
  <2>6. /\ \A a \in Bufs \ {b} : M.buf[a] = L.buf[a]
        /\ M.buf[b].flags = L.buf[b].flags \ {"READ", "DONE", "ERROR", "DELWRI"}
        /\ M.buf[b].blkno = L.buf[b].blkno /\ M.buf[b].data = L.buf[b].data
    BY <2>5, WrittenFacts
  <2>7. c' = M
    BY <2>1, <2>4, <2>5
  <2>8. /\ \A a \in Bufs \ {b} : c'.buf[a] = c.buf[a]
        /\ c'.buf[b].blkno = c.buf[b].blkno /\ c'.buf[b].data = c.buf[b].data
        /\ "READ" \notin c'.buf[b].flags /\ "DELWRI" \notin c'.buf[b].flags /\ "ERROR" \notin c'.buf[b].flags
        /\ "STALE" \notin c'.buf[b].flags
    BY <1>5, <2>4, <2>6, <2>7
  <2>9. PICK r : r = [x EXCEPT !.pc = "iowait", !.bp = b, !.b = NoBuf]
    OBVIOUS
  <2>10. r.pc = "iowait" /\ r.bp = b
    BY <2>9 DEF ProcRecord
  <2>11. pr' = [pr EXCEPT ![p] = r]
    BY <1>1, <2>1, <2>9
  <2>12. pr'[p] = r /\ \A q \in Procs \ {p} : Woke(pr[q], pr'[q]) /\ b \notin Owned(q)
    BY <2>2, <2>11, OthersLeft DEF HasOwner
  <2>13. FreshOK(pr[p])'
    BY <2>8, <2>10, <2>12, FreshBp
  <2>14. \A a \in Bufs \ {b} : Steady(c, c', a)
    BY <2>8, SteadyEqual
  <2>15. /\ RefInv' /\ \A q \in Procs \ {p} : HoldKept(q)
         /\ \A y \in Blocks : WritesIn(c', b, y) => ContentsIn(c', io', disk', y) = c'.buf[b].data
         /\ \A y \in Blocks : ~WritesIn(c', b, y) => ContentsIn(c', io', disk', y) = ContentsIn(c, io, disk, y)
    BY <1>1, <1>4, <2>1, <2>2, <2>8, <2>12, <2>13, <2>14, StartedStep
  <2>16. SameContents
    <3> SUFFICES ASSUME NEW y \in Blocks PROVE ContentsIn(c', io', disk', y) = ContentsIn(c, io, disk, y)
      BY DEF SameContents
    <3>1. CASE ~WritesIn(c', b, y)
      BY <2>15, <3>1
    <3>2. CASE WritesIn(c', b, y)
      <4>1. DelayedIn(c, b, y)
        BY <1>5, <1>8, <2>8, <3>2 DEF DelayedIn, WritesIn, Is
      <4>2. Alone(c) /\ y # NoBlock
        BY CacheNow, BioAssumption DEF CacheOK
      <4>3. ContentsIn(c, io, disk, y) = c.buf[b].data
        BY <4>1, <4>2, ContentsAre
      <4> QED
        BY <2>8, <2>15, <3>2, <4>3
    <3> QED
      BY <3>1, <3>2
  <2>17. pr'[p].pc # "hold"
    BY <2>10, <2>12
  <2> QED
    BY <1>4, <2>15, <2>16, <2>17, IdleStep DEF Unseen
<1> QED
  BY <1>6, <1>7, <1>8

\* The flush of a last close: everybody else is done, nothing is delayed.
LEMMA NothingDelayed ==
    ASSUME BioInv, NEW p \in Procs, pr[p].pc = "bflush", pr[p].call = "close", Delayed = 0
    PROVE  /\ \A q \in Procs \ {p} : pr[q] = Idle
           /\ \A a \in Bufs : "DELWRI" \notin c.buf[a].flags
<1>1. \A q \in Procs \ {p} : pr[q] = Idle
  <2> SUFFICES ASSUME NEW q \in Procs \ {p} PROVE pr[q] = Idle
    OBVIOUS
  <2>1. pr[q].pc = "user" /\ CallOK(pr[q])
    BY DEF BioInv, ProcInv, ProcOK
  <2> QED
    BY <2>1 DEF CallOK
<1>2. PlacesOK(pr[p])
  BY DEF BioInv, ProcInv, ProcOK
<1>3. pr[p].bp = NoBuf /\ pr[p].nbp = NoBuf
  BY <1>2 DEF PlacesOK, InGetblk, InBiowait
<1>4. Idle.bp = NoBuf /\ Idle.nbp = NoBuf /\ Idle.pc = "user"
  BY DEF Idle
<1>5. \A q \in Procs : pr[q].bp = NoBuf /\ pr[q].nbp = NoBuf /\ pr[q].pc # "got"
  BY <1>1, <1>3, <1>4
<1>6. \A a : ~HasOwner(a)
  BY <1>5 DEF HasOwner, Owned
<1>7. ASSUME NEW a \in Bufs, "DELWRI" \in c.buf[a].flags PROVE FALSE
  <2>1. PointOK(c.buf[a], a \in ToSet(c.free), a \in ToSet(io), HasOwner(a))
    BY DEF BioInv, ProcInv, BufsOK
  <2>2. c.buf[a] # NoBuffer
    BY <1>7 DEF NoBuffer
  <2>3. a \in ToSet(c.free)
    BY <1>6, <1>7, <2>1, <2>2 DEF PointOK
  <2> QED
    BY <1>7, <2>3, DelayedIs DEF Is
<1> QED
  BY <1>1, <1>7

LEMMA BflushedRef ==
    ASSUME BioInv, BioInv', RefInv, NEW p \in Procs, Bflushed(p)
    PROVE  RefInv' /\ Unseen
<1>1. pr[p].pc = "bflush" /\ cur \in {p, NoProc} /\ UNCHANGED <<io, disk>> /\ Delayed = 0
  BY DEF Bflushed, At
<1>2. pr' = [pr EXCEPT ![p] = Idle]
  BY DEF Bflushed, Return
<1>3. CASE pr[p].call # "close"
  <2>1. c' = c
    BY <1>3 DEF Bflushed
  <2> QED
    BY <1>1, <1>2, <2>1, IdleRecord, QuietStep
<1>4. CASE pr[p].call = "close"
  <2>1. (\A q \in Procs \ {p} : pr[q] = Idle) /\ \A a \in Bufs : "DELWRI" \notin c.buf[a].flags
    BY <1>1, <1>4, NothingDelayed
  <2>2. c \in CacheType /\ pr \in [Procs -> ProcRecord]
    BY ActorFacts
  <2>3. c'.buf = binval(c)
    BY <1>4, <2>2 DEF Bflushed, CacheType
  <2>4. ASSUME NEW a \in Bufs
        PROVE  /\ c'.buf[a].blkno = c.buf[a].blkno /\ c'.buf[a].data = c.buf[a].data
               /\ c'.buf[a].flags = c.buf[a].flags \/ c'.buf[a].flags = c.buf[a].flags \cup {"STALE", "AGE"}
    <3>1. PICK y \in BufRecord : y = c.buf[a]
      BY <2>2, CacheFields
    <3>2. y.flags \in SUBSET Flags /\ y.flags \cup {"STALE", "AGE"} \in SUBSET Flags
      BY DEF BufRecord, Flags
    <3>3. PICK z : z = [y EXCEPT !.flags = y.flags \cup {"STALE", "AGE"}]
      OBVIOUS
    <3>4. z.flags = y.flags \cup {"STALE", "AGE"} /\ z.blkno = y.blkno /\ z.data = y.data
      BY <3>2, <3>3, BufFields
    <3>5. c'.buf[a] = y \/ c'.buf[a] = z
      BY <2>3, <3>1, <3>3 DEF binval
    <3> QED
      BY <3>1, <3>4, <3>5
  <2>5. StoreOK(c', io, disk) /\ \A x \in Blocks : ContentsIn(c', io, disk, x) = ContentsIn(c, io, disk, x)
    <3>1. CacheOK(c, io) /\ CacheOK(c', io)
      BY <1>1, CacheNow, CacheThen
    <3>2. StoreOK(c, io, disk)
      BY DEF RefInv
    <3>3. PICK L : L = c'
      OBVIOUS
    <3>4. CacheOK(L, io)
      BY <3>1, <3>3
    <3>5. ASSUME NEW a \in Bufs
          PROVE  /\ L.buf[a].blkno = c.buf[a].blkno /\ L.buf[a].data = c.buf[a].data
                 /\ \A f \in {"DONE", "DELWRI", "READ", "ERROR"} : f \in L.buf[a].flags <=> f \in c.buf[a].flags
                 /\ "STALE" \in c.buf[a].flags => "STALE" \in L.buf[a].flags
                 /\ "DELWRI" \notin c.buf[a].flags
      BY <2>1, <2>4, <3>3
    <3>6. StoreOK(L, io, disk) /\ \A x \in Blocks : ContentsIn(L, io, disk, x) = ContentsIn(c, io, disk, x)
      BY <3>1, <3>2, <3>4, <3>5, BinvalKind
    <3> QED
      BY <3>3, <3>6
  <2>6. \A q \in Procs : pr'[q] = Idle
    BY <1>2, <2>1, <2>2
  <2>7. RefInv'
    BY <1>1, <2>5, <2>6, IdleIsFresh DEF RefInv
  <2>8. \A q \in Procs : HoldKept(q)
    BY <1>1, <2>1, <2>6, IdleRecord DEF HoldKept
  <2>9. SameContents
    BY <1>1, <2>5 DEF SameContents
  <2> QED
    BY <2>7, <2>8, <2>9, AbsStutter DEF Unseen
<1> QED
  BY <1>3, <1>4

\* New contents, on their way to the disk.
LEMMA BwriteRef ==
    ASSUME BioInv, BioInv', RefInv, NEW p \in Procs, Bwrite(p)
    PROVE  RefInv' /\ \E x \in Blocks : Abs!Release(p, x)
<1>1. At(p, "hold") /\ disk' = disk
  BY DEF Bwrite
<1>2. PICK b \in Bufs : b = pr[p].bp
  BY <1>1, HoldBlock
<1>3. /\ pr[p].pc = "hold" /\ cur \in {p, NoProc} /\ b \notin ToSet(io) /\ ~Is(b, "STALE")
      /\ \A q \in Procs \ {p} : b \notin Owned(q)
  BY <1>1, <1>2, HoldBlock
<1>4. PICK x \in Blocks : x = c.buf[b].blkno
  BY <1>1, <1>2, HoldBlock
<1>5. PICK v \in Vals, async \in BOOLEAN :
        /\ c' = Written([c EXCEPT !.buf[b].data = v,
                               !.buf[b].flags = @ \cup (IF async THEN {"ASYNC"} ELSE {})], b)
        /\ pr' = IF async THEN [pr EXCEPT ![p] = [Idle EXCEPT !.pc = "asyncnt"]]
                          ELSE [pr EXCEPT ![p] = [Idle EXCEPT !.pc = "iowait", !.call = "write", !.bp = b]]
  BY <1>2 DEF Bwrite
<1>6. io' = Append(io, b)
  BY <1>2 DEF Bwrite
<1>7. c \in CacheType
  BY ActorFacts
<1>8. PICK F \in SUBSET Flags : F = c.buf[b].flags \cup (IF async THEN {"ASYNC"} ELSE {})
  <2>1. c.buf[b].flags \in SUBSET Flags
    BY <1>7, CacheFields
  <2>2. (IF async THEN {"ASYNC"} ELSE {}) \in SUBSET Flags
    BY DEF Flags
  <2>3. c.buf[b].flags \cup (IF async THEN {"ASYNC"} ELSE {}) \in SUBSET Flags
    BY <2>1, <2>2
  <2> QED
    BY <2>3
<1>9. PICK K \in CacheType :
         /\ K = Changed(c, b, v, F) /\ K.free = c.free /\ K.bufsize = c.bufsize /\ K.wanted = c.wanted
         /\ \A a \in Bufs \ {b} : K.buf[a] = c.buf[a]
         /\ K.buf[b].flags = F /\ K.buf[b].blkno = c.buf[b].blkno /\ K.buf[b].bufsize = c.buf[b].bufsize
         /\ K.buf[b].data = v
  <2>1. v \in Vals \cup {NoVal}
    OBVIOUS
  <2> QED
    BY <1>7, <2>1, ChangedFacts
<1>10. PICK M : M = Written(K, b)
  OBVIOUS
<1>11. /\ \A a \in Bufs \ {b} : M.buf[a] = K.buf[a]
       /\ M.buf[b].flags = K.buf[b].flags \ {"READ", "DONE", "ERROR", "DELWRI"}
       /\ M.buf[b].blkno = K.buf[b].blkno /\ M.buf[b].data = K.buf[b].data
  BY <1>10, WrittenFacts
<1>12. c' = M
  BY <1>5, <1>8, <1>9, <1>10 DEF Changed
<1>13. /\ \A a \in Bufs \ {b} : c'.buf[a] = c.buf[a]
       /\ c'.buf[b].blkno = c.buf[b].blkno /\ c'.buf[b].data = v
       /\ "READ" \notin c'.buf[b].flags /\ "DELWRI" \notin c'.buf[b].flags /\ "ERROR" \notin c'.buf[b].flags
       /\ "STALE" \notin c'.buf[b].flags
  <2>1. "STALE" \notin F
    BY <1>3, <1>8 DEF Is
  <2> QED
    BY <1>9, <1>11, <1>12, <2>1
<1>14. PICK r : pr' = [pr EXCEPT ![p] = r] /\ r.pc \in {"asyncnt", "iowait"} /\ r.bp \in {b, NoBuf}
  <2>1. CASE async
    <3>1. PICK r : r = [Idle EXCEPT !.pc = "asyncnt"]
      OBVIOUS
    <3>2. r.pc = "asyncnt" /\ r.bp = NoBuf
      BY <3>1 DEF Idle
    <3> QED
      BY <1>5, <2>1, <3>1, <3>2
  <2>2. CASE ~async
    <3>1. PICK r : r = [Idle EXCEPT !.pc = "iowait", !.call = "write", !.bp = b]
      OBVIOUS
    <3>2. r.pc = "iowait" /\ r.bp = b
      BY <3>1 DEF Idle
    <3> QED
      BY <1>5, <2>2, <3>1, <3>2
  <2> QED
    BY <2>1, <2>2
<1>15. pr'[p] = r /\ \A q \in Procs \ {p} : Woke(pr[q], pr'[q]) /\ b \notin Owned(q)
  BY <1>3, <1>14, OthersLeft
<1>16. FreshOK(pr[p])'
  BY <1>13, <1>14, <1>15, FreshBp
<1>17. \A a \in Bufs \ {b} : Steady(c, c', a)
  BY <1>13, SteadyEqual
<1>18. /\ RefInv' /\ \A q \in Procs \ {p} : HoldKept(q)
       /\ \A y \in Blocks : WritesIn(c', b, y) => ContentsIn(c', io', disk', y) = c'.buf[b].data
       /\ \A y \in Blocks : ~WritesIn(c', b, y) => ContentsIn(c', io', disk', y) = ContentsIn(c, io, disk, y)
  BY <1>1, <1>3, <1>6, <1>13, <1>15, <1>16, <1>17, StartedStep
<1>19. \A y \in Blocks : ContentsIn(c', io', disk', y) = IF y = x THEN v ELSE ContentsIn(c, io, disk, y)
  <2> SUFFICES ASSUME NEW y \in Blocks
               PROVE  ContentsIn(c', io', disk', y) = IF y = x THEN v ELSE ContentsIn(c, io, disk, y)
    OBVIOUS
  <2>1. WritesIn(c', b, y) <=> y = x
    BY <1>4, <1>13 DEF WritesIn
  <2> QED
    BY <1>13, <1>18, <2>1
<1>20. pr'[p].pc # "hold"
  BY <1>14, <1>15
<1>21. Abs!Release(p, x)
  BY <1>2, <1>3, <1>4, <1>18, <1>19, <1>20, AbsRelease, SMTT(30)
<1> QED
  BY <1>18, <1>21

-----------------------------------------------------------------------------
(***************************************************************************)
(* A transfer ends.                                                        *)
(***************************************************************************)
LEMMA DoneTrue ==
    ASSUME BioInv, NEW b \in ToSet(io)
    PROVE  \E K \in CacheType :
              /\ K = Done(b, TRUE) /\ K.free = c.free
              /\ \A a \in Bufs \ {b} : K.buf[a] = c.buf[a]
              /\ K.buf[b].blkno = c.buf[b].blkno
              /\ K.buf[b].flags = c.buf[b].flags \cup {"DONE"}
              /\ K.buf[b].data = IF "READ" \in c.buf[b].flags THEN disk[c.buf[b].blkno] ELSE c.buf[b].data
<1>1. b \in Bufs /\ c \in CacheType /\ disk \in [Blocks -> Vals] /\ c.buf[b].blkno \in Blocks
  <2>1. b \in Bufs /\ c \in CacheType /\ disk \in [Blocks -> Vals]
    BY SeqFacts DEF BioInv, TypeOK, CacheType
  <2>2. c.buf[b].blkno # NoBlock
    BY <2>1 DEF BioInv, ProcInv, BufsOK, PointOK
  <2> QED
    BY <2>1, <2>2, CacheFields
<1>2. c.buf[b].data \in Vals \cup {NoVal} /\ c.buf[b].flags \in SUBSET Flags
  BY <1>1, CacheFields
<1>3. PICK v \in Vals \cup {NoVal} :
              v = IF "READ" \in c.buf[b].flags THEN disk[c.buf[b].blkno] ELSE c.buf[b].data
  BY <1>1, <1>2
<1>4. PICK F \in SUBSET Flags : F = c.buf[b].flags \cup {"DONE"}
  <2>1. c.buf[b].flags \cup {"DONE"} \in SUBSET Flags
    BY <1>2 DEF Flags
  <2> QED
    BY <2>1
<1>5. PICK K \in CacheType :
         /\ K = Changed(c, b, v, F) /\ K.free = c.free /\ K.bufsize = c.bufsize /\ K.wanted = c.wanted
         /\ \A a \in Bufs \ {b} : K.buf[a] = c.buf[a]
         /\ K.buf[b].flags = F /\ K.buf[b].blkno = c.buf[b].blkno /\ K.buf[b].bufsize = c.buf[b].bufsize
         /\ K.buf[b].data = v
  BY <1>1, ChangedFacts
<1>6. K = Done(b, TRUE)
  BY <1>3, <1>4, <1>5 DEF Changed, Done
<1> QED
  BY <1>3, <1>4, <1>5, <1>6

LEMMA InterruptRef ==
    ASSUME BioInv, BioInv', RefInv, NEW b \in ToSet(io), NEW i \in DOMAIN io, io[i] = b,
           \A j \in 1 .. (i - 1) : c.buf[io[j]].blkno # c.buf[b].blkno,
           io' = RemoveFirst(io, b), \A q \in Procs : Woke(pr[q], pr'[q]),
           \A a \in Bufs \ {b} : c'.buf[a] = c.buf[a],
           c'.buf[b].blkno = c.buf[b].blkno,
           ("STALE" \in c'.buf[b].flags) <=> ("STALE" \in c.buf[b].flags),
           "DELWRI" \notin c'.buf[b].flags, "ERROR" \notin c'.buf[b].flags,
           c'.buf[b].data = IF "READ" \in c.buf[b].flags THEN disk[c.buf[b].blkno] ELSE c.buf[b].data,
           \A x \in Blocks : disk'[x] = IF WritesIn(c, b, x) THEN c.buf[b].data ELSE disk[x]
    PROVE  RefInv' /\ Unseen
<1>1. CacheOK(c, io) /\ CacheOK(c', io') /\ StoreOK(c, io, disk)
  BY CacheNow, CacheThen DEF RefInv
<1>2. b \in Bufs /\ io \in Seq(Bufs) /\ Once(io)
  BY <1>1, SeqFacts DEF CacheOK
<1>3. b \notin ToSet(io') /\ ToSet(io') \subseteq ToSet(io)
  <2>1. ToSet(RemoveFirst(io, b)) = ToSet(io) \ {b}
    BY <1>2, RemovedFacts
  <2> QED
    BY <2>1
<1>4. /\ StoreOK(c', io', disk')
      /\ \A x \in Blocks : ContentsIn(c', io', disk', x) = ContentsIn(c, io, disk, x)
  <2>1. PICK L, e : L = c' /\ e = disk'
    OBVIOUS
  <2>2. \A a \in Bufs \ {b} : Steady(c, L, a)
    BY <2>1, SteadyEqual
  <2>3. CacheOK(L, RemoveFirst(io, b))
    BY <1>1, <2>1
  <2>4. /\ L.buf[b].blkno = c.buf[b].blkno
        /\ ("STALE" \in L.buf[b].flags) <=> ("STALE" \in c.buf[b].flags)
        /\ "DELWRI" \notin L.buf[b].flags /\ "ERROR" \notin L.buf[b].flags
        /\ L.buf[b].data = IF "READ" \in c.buf[b].flags THEN disk[c.buf[b].blkno] ELSE c.buf[b].data
        /\ \A x \in Blocks : e[x] = IF WritesIn(c, b, x) THEN c.buf[b].data ELSE disk[x]
    BY <2>1
  <2>5. /\ StoreOK(L, RemoveFirst(io, b), e)
        /\ \A x \in Blocks : ContentsIn(L, RemoveFirst(io, b), e, x) = ContentsIn(c, io, disk, x)
    BY <1>1, <2>2, <2>3, <2>4, DoneKind
  <2> QED
    BY <2>1, <2>5
<1>5. \A a \in Bufs : /\ Is(a, "STALE")' <=> Is(a, "STALE")
                      /\ c'.buf[a].blkno = c.buf[a].blkno
  BY DEF Is
<1>6. ASSUME NEW q \in Procs PROVE FreshOK(pr[q])' /\ HoldKept(q)
  <2>1. PICK x \in ProcRecord : x = pr[q] /\ CallOK(x) /\ PlacesOK(x) /\ HeldOK(x)
    BY DEF BioInv, TypeOK, ProcInv, ProcOK
  <2>2. PICK y : y = pr'[q] /\ Woke(x, y)
    BY <2>1
  <2>3. /\ y \in ProcRecord /\ (y.pc \in Sole => y = x) /\ y.bp = x.bp /\ y.b = x.b /\ y.call = x.call
        /\ (y.pc = "hold") <=> (x.pc = "hold")
        /\ (y.pc = "got") <=> (x.pc = "got")
    BY <2>1, <2>2, WokeFacts
  <2>4. FreshOK(x)
    BY <2>1 DEF RefInv
  <2>5. y.bp # NoBuf => "STALE" \notin c'.buf[y.bp].flags
    BY <1>5, <2>3, <2>4 DEF FreshOK, Is, ProcRecord
  <2>6. y.pc \in {"check", "got", "blkcheck"} => "STALE" \notin c'.buf[y.b].flags
    <3> SUFFICES ASSUME y.pc \in {"check", "got", "blkcheck"} PROVE "STALE" \notin c'.buf[y.b].flags
      OBVIOUS
    <3>1. y = x
      BY <2>3 DEF Sole
    <3>2. x.b \in Bufs /\ ~Is(x.b, "STALE")
      BY <2>1, <2>4, <3>1 DEF FreshOK, CallOK, ProcRecord
    <3> QED
      BY <1>5, <3>1, <3>2 DEF Is
  <2>7. y.pc = "flushed" => \A a \in Bufs : c'.buf[a].blkno = y.blk =>
            "STALE" \in c'.buf[a].flags \/ ("DELWRI" \notin c'.buf[a].flags /\ (a \in ToSet(io') => "READ" \in c'.buf[a].flags))
    <3> SUFFICES ASSUME y.pc = "flushed", NEW a \in Bufs, c'.buf[a].blkno = y.blk
                 PROVE  "STALE" \in c'.buf[a].flags \/ ("DELWRI" \notin c'.buf[a].flags /\ (a \in ToSet(io') => "READ" \in c'.buf[a].flags))
      OBVIOUS
    <3>1. y = x
      BY <2>3 DEF Sole
    <3>2. CASE a = b
      BY <1>3, <3>2
    <3>3. CASE a # b
      <4>1. c'.buf[a] = c.buf[a]
        BY <3>3
      <4>2. "STALE" \in c.buf[a].flags \/ ("DELWRI" \notin c.buf[a].flags /\ (a \in ToSet(io) => "READ" \in c.buf[a].flags))
        BY <2>4, <3>1, <4>1 DEF FreshOK, Is
      <4> QED
        BY <1>3, <4>1, <4>2
    <3> QED
      BY <3>2, <3>3
  <2>8. FreshOK(pr[q])'
    BY <2>2, <2>5, <2>6, <2>7 DEF FreshOK, Is
  <2>9. HoldKept(q)
    <3>1. x.pc = "hold" => x.bp \in Bufs /\ x.bp # b
      BY <2>1 DEF CallOK, HeldOK, ProcRecord
    <3>2. x.pc = "hold" => c'.buf[x.bp] = c.buf[x.bp]
      BY <3>1
    <3> QED
      BY <2>1, <2>2, <2>3, <3>2 DEF HoldKept
  <2> QED
    BY <2>8, <2>9
<1>7. RefInv'
  BY <1>4, <1>6 DEF RefInv
<1>8. SameContents
  BY <1>4 DEF SameContents
<1> QED
  BY <1>6, <1>7, <1>8, AbsStutter DEF Unseen

LEMMA IoDoneRef ==
    ASSUME IoErrors = {}, BioInv, BioInv', RefInv, NEW b \in Bufs, IoDone(b)
    PROVE  RefInv' /\ Unseen
<1>1. /\ io \in Seq(Bufs) /\ Once(io) /\ Once(c.free) /\ c \in CacheType
      /\ pr \in [Procs -> ProcRecord] /\ disk \in [Blocks -> Vals]
  BY DEF BioInv, ProcInv, BufsOK, TypeOK, CacheType
<1>2. PICK i \in DOMAIN io : io[i] = b /\ \A j \in 1 .. (i - 1) : c.buf[io[j]].blkno # c.buf[b].blkno
  BY DEF IoDone
<1>3. b \in ToSet(io)
  BY <1>1, <1>2, SeqFacts
<1>4. b \notin ToSet(c.free) /\ ~Is(b, "DELWRI") /\ ~Is(b, "ERROR")
  <2>1. PointOK(c.buf[b], b \in ToSet(c.free), b \in ToSet(io), HasOwner(b))
    BY DEF BioInv, ProcInv, BufsOK
  <2> QED
    BY <1>3, <2>1, NoErrors DEF PointOK, Is
<1>5. /\ biodone(b, Done(b, TRUE))
      /\ disk' = IF ~Is(b, "READ") THEN [disk EXCEPT ![c.buf[b].blkno] = c.buf[b].data] ELSE disk
  <2>1. {TRUE, c.buf[b].blkno \notin IoErrors} = {TRUE}
    OBVIOUS
  <2> QED
    BY <2>1 DEF IoDone
<1>6. io' = RemoveFirst(io, b)
  BY DEF IoDone
<1>7. PICK K \in CacheType :
              /\ K = Done(b, TRUE) /\ K.free = c.free
              /\ \A a \in Bufs \ {b} : K.buf[a] = c.buf[a]
              /\ K.buf[b].blkno = c.buf[b].blkno
              /\ K.buf[b].flags = c.buf[b].flags \cup {"DONE"}
              /\ K.buf[b].data = IF "READ" \in c.buf[b].flags THEN disk[c.buf[b].blkno] ELSE c.buf[b].data
  BY <1>3, DoneTrue
<1>8. \A x \in Blocks : disk'[x] = IF WritesIn(c, b, x) THEN c.buf[b].data ELSE disk[x]
  BY <1>1, <1>5 DEF WritesIn, Is
<1>9. "ASYNC" \in K.buf[b].flags <=> Is(b, "ASYNC")
  BY <1>7 DEF Is
<1>10. PICK L, C : /\ c' = L /\ pr' = wakeprocs(pr, C)
                   /\ \A a \in Bufs \ {b} : L.buf[a] = c.buf[a]
                   /\ L.buf[b].blkno = c.buf[b].blkno /\ L.buf[b].data = K.buf[b].data
                   /\ ("STALE" \in L.buf[b].flags) <=> ("STALE" \in c.buf[b].flags)
                   /\ "DELWRI" \notin L.buf[b].flags /\ "ERROR" \notin L.buf[b].flags
  <2>1. CASE Is(b, "ASYNC")
    <3>1. c' = brelse(K, b) /\ pr' = wakeprocs(pr, Released(b))
      BY <1>5, <1>7, <1>9, <2>1 DEF biodone
    <3>2. Once(K.free) /\ b \notin ToSet(K.free) /\ "ERROR" \notin K.buf[b].flags
      BY <1>1, <1>4, <1>7 DEF Is
    <3>3. PICK L : L = brelse(K, b)
      OBVIOUS
    <3>4. /\ \A a \in Bufs \ {b} : L.buf[a] = K.buf[a]
          /\ L.buf[b].flags = K.buf[b].flags \ {"WANTED", "BUSY", "ASYNC"}
          /\ L.buf[b].blkno = K.buf[b].blkno /\ L.buf[b].data = K.buf[b].data
      BY <3>2, <3>3, BrelseSteady
    <3>5. /\ \A a \in Bufs \ {b} : L.buf[a] = c.buf[a]
          /\ L.buf[b].blkno = c.buf[b].blkno /\ L.buf[b].data = K.buf[b].data
          /\ ("STALE" \in L.buf[b].flags) <=> ("STALE" \in c.buf[b].flags)
          /\ "DELWRI" \notin L.buf[b].flags /\ "ERROR" \notin L.buf[b].flags
      BY <1>4, <1>7, <3>4 DEF Is
    <3> QED
      BY <3>1, <3>3, <3>5
  <2>2. CASE ~Is(b, "ASYNC")
    <3>1. c' = [K EXCEPT !.buf[b].flags = @ \ {"WANTED"}] /\ pr' = wakeprocs(pr, {b})
      BY <1>5, <1>7, <1>9, <2>2 DEF biodone
    <3>2. PICK F \in SUBSET Flags : F = K.buf[b].flags \ {"WANTED"}
      <4>1. K.buf[b].flags \in SUBSET Flags
        BY CacheFields
      <4> QED
        BY <4>1
    <3>3. PICK L : L = Flagged(K, b, F)
      OBVIOUS
    <3>4. /\ \A a \in Bufs \ {b} : L.buf[a] = K.buf[a]
          /\ L.buf[b].flags = F /\ L.buf[b].blkno = K.buf[b].blkno /\ L.buf[b].data = K.buf[b].data
      BY <3>3, FlaggedFacts
    <3>5. /\ \A a \in Bufs \ {b} : L.buf[a] = c.buf[a]
          /\ L.buf[b].blkno = c.buf[b].blkno /\ L.buf[b].data = K.buf[b].data
          /\ ("STALE" \in L.buf[b].flags) <=> ("STALE" \in c.buf[b].flags)
          /\ "DELWRI" \notin L.buf[b].flags /\ "ERROR" \notin L.buf[b].flags
      <4>1. \A a \in Bufs \ {b} : L.buf[a] = c.buf[a]
        BY <1>7, <3>4
      <4>2. L.buf[b].blkno = c.buf[b].blkno /\ L.buf[b].data = K.buf[b].data
        BY <1>7, <3>4
      <4>3. L.buf[b].flags = (c.buf[b].flags \cup {"DONE"}) \ {"WANTED"}
        BY <1>7, <3>2, <3>4
      <4> QED
        BY <1>4, <4>1, <4>2, <4>3 DEF Is
    <3>6. c' = L
      BY <3>1, <3>2, <3>3 DEF Flagged
    <3> QED
      BY <3>1, <3>5, <3>6
  <2> QED
    BY <2>1, <2>2
<1>11. \A q \in Procs : Woke(pr[q], pr'[q])
  BY <1>1, <1>10, WakeFacts
<1>12. /\ \A a \in Bufs \ {b} : c'.buf[a] = c.buf[a]
       /\ c'.buf[b].blkno = c.buf[b].blkno
       /\ ("STALE" \in c'.buf[b].flags) <=> ("STALE" \in c.buf[b].flags)
       /\ "DELWRI" \notin c'.buf[b].flags /\ "ERROR" \notin c'.buf[b].flags
       /\ c'.buf[b].data = IF "READ" \in c.buf[b].flags THEN disk[c.buf[b].blkno] ELSE c.buf[b].data
  BY <1>7, <1>10
<1> QED
  BY <1>2, <1>3, <1>6, <1>8, <1>11, <1>12, InterruptRef

-----------------------------------------------------------------------------
(***************************************************************************)
(* The buffer cache implements BioSpec.                                    *)
(***************************************************************************)
LEMMA StartsRef == Init => RefInv /\ Abs!Init
<1> SUFFICES ASSUME Init PROVE RefInv /\ Abs!Init
  OBVIOUS
<1>1. io = <<>> /\ io \in Seq(Bufs) /\ ToSet(io) = {} /\ DOMAIN io = {}
  <2>1. io = <<>> /\ io \in Seq(Bufs) /\ DOMAIN io = {}
    BY DEF Init
  <2> QED
    BY <2>1, SeqFacts
<1>2. \A b \in Bufs : c.buf[b] = NoBuffer
  BY DEF Init
<1>3. NoBuffer.flags = {} /\ NoBuffer.blkno = NoBlock
  BY DEF NoBuffer
<1>4. \A p \in Procs : pr[p] = Idle
  BY DEF Init
<1>5. RefInv
  <2>1. \A b \in Bufs : ContentsOK(c, io, disk, b)
    BY <1>2, <1>3 DEF ContentsOK
  <2>2. SentInOrder(c, io)
    BY <1>1 DEF SentInOrder
  <2>3. \A p \in Procs : FreshOK(pr[p])
    BY <1>4, IdleRecord DEF FreshOK
  <2> QED
    BY <2>1, <2>2, <2>3 DEF RefInv, StoreOK
<1>6. AbsStore = [x \in Blocks |-> CHOOSE v \in Vals : TRUE]
  <2>1. disk = [x \in Blocks |-> CHOOSE v \in Vals : TRUE]
    BY DEF Init
  <2>2. ASSUME NEW x \in Blocks PROVE StoreOf(c, io, disk, x) = disk[x]
    <3>1. SettledIn(c, io, disk, x) = disk[x]
      <4>1. \A i \in DOMAIN io : ~WritesIn(c, io[i], x)
        BY <1>1
      <4>2. io \in Seq(Bufs)
        BY <1>1
      <4> QED
        BY <4>1, <4>2, SettledIs
    <3>2. CachedIn(c, x) = {}
      BY <1>2, <1>3, BioAssumption DEF CachedIn
    <3> QED
      BY <3>1, <3>2 DEF StoreOf
  <2> QED
    BY <2>1, <2>2, AbsStoreIs
<1>7. AbsUser = [x \in Blocks |-> NoProc] /\ AbsView = [p \in Procs |-> NoVal]
  <2>1. \A p \in Procs : pr[p].pc # "hold"
    BY <1>4, IdleRecord
  <2>2. \A p \in Procs : \A x : ~HasBlock(p, x)
    BY <2>1 DEF HasBlock
  <2> QED
    BY <2>1, <2>2 DEF AbsUser, AbsView
<1> QED
  BY <1>5, <1>6, <1>7 DEF Abs!Init

LEMMA StepsRef ==
    ASSUME IoErrors = {}, BioInv, BioInv', RefInv, [Next]_vars
    PROVE  RefInv' /\ (Unseen \/ \E p \in Procs, x \in Blocks : Abs!Acquire(p, x) \/ Abs!Release(p, x))
<1>1. ASSUME NEW p \in Procs, Start(p) \/ Step(p)
      PROVE  RefInv' /\ (Unseen \/ \E x \in Blocks : Abs!Acquire(p, x) \/ Abs!Release(p, x))
  <2>1. CASE Start(p)
    BY <2>1, StartRef
  <2>2. CASE GetblkSearch(p)
    BY <2>2, GetblkSearchRef
  <2>3. CASE GetblkCheck(p)
    BY <2>3, GetblkCheckRef
  <2>4. CASE Reclaim(p)
    BY <2>4, ReclaimRef
  <2>5. CASE Allocate(p)
    BY <2>5, AllocateRef
  <2>6. CASE Kmem(p)
    BY <2>6, KmemRef
  <2>7. CASE Got(p)
    BY <2>7, GotRef
  <2>8. CASE Readahead(p)
    BY <2>8, ReadaheadRef
  <2>9. CASE ReadaheadEnd(p)
    BY <2>9, ReadaheadEndRef
  <2>10. CASE Biowait(p)
    BY <2>10, BiowaitRef
  <2>11. CASE Brelse(p)
    BY <2>11, BrelseRef
  <2>12. CASE Bdwrite(p)
    BY <2>12, BdwriteRef
  <2>13. CASE Bwrite(p)
    BY <2>13, BwriteRef
  <2>14. CASE Asyncnt(p)
    BY <2>14, AsyncntRef
  <2>15. CASE Bflush(p)
    BY <2>15, BflushRef
  <2>16. CASE Bflushed(p)
    BY <2>16, BflushedRef
  <2>17. CASE BlkflushSearch(p)
    BY <2>17, BlkflushSearchRef
  <2>18. CASE BlkflushCheck(p)
    BY <2>18, BlkflushCheckRef
  <2>19. CASE BlkflushEnd(p)
    BY <2>19, BlkflushEndRef
  <2>20. CASE Elsewhere(p)
    BY <2>20, ElsewhereRef
  <2> QED
    BY <1>1, <2>1, <2>2, <2>3, <2>4, <2>5, <2>6, <2>7, <2>8, <2>9, <2>10, <2>11, <2>12, <2>13,
       <2>14, <2>15, <2>16, <2>17, <2>18, <2>19, <2>20 DEF Step
<1>2. ASSUME NEW b \in Bufs, IoDone(b)
      PROVE  RefInv' /\ Unseen
  BY <1>2, IoDoneRef
<1>3. CASE UNCHANGED vars
  <2>1. c' = c /\ pr' = pr /\ io' = io /\ disk' = disk
    BY <1>3 DEF vars
  <2>2. RefInv'
    BY <2>1 DEF RefInv, FreshOK, Is
  <2>3. Unseen
    BY <2>1, AbsStoreIs, AbsUserIs DEF Unseen, AbsView
  <2> QED
    BY <2>2, <2>3
<1> QED
  BY <1>1, <1>2, <1>3 DEF Next

\* As long as no transfer fails: a process that gets a block, by bread(),
\* breada() or getblk(), has it alone until brelse(), bdwrite() or bwrite(), and
\* finds in it what was last written to it, whatever getfreeblk(), bflush(),
\* blkflush(), binval() and the interrupts of the disk have done meanwhile.
THEOREM BioImplements == ASSUME IoErrors = {} PROVE Spec => ImplementsBioSpec
<1>1. BioInv /\ BioInv' /\ RefInv /\ [Next]_vars => RefInv' /\ [Abs!Next]_<<AbsStore, AbsUser, AbsView>>
  <2> SUFFICES ASSUME BioInv, BioInv', RefInv, [Next]_vars
               PROVE  RefInv' /\ [Abs!Next]_<<AbsStore, AbsUser, AbsView>>
    OBVIOUS
  <2>1. RefInv' /\ (Unseen \/ \E p \in Procs, x \in Blocks : Abs!Acquire(p, x) \/ Abs!Release(p, x))
    BY StepsRef
  <2> QED
    BY <2>1 DEF Unseen, Abs!Next
<1>2. Init => RefInv /\ Abs!Init
  BY StartsRef
<1>3. Spec => []BioInv
  BY Invariant
<1> QED
  BY <1>1, <1>2, <1>3, PTL DEF Spec, ImplementsBioSpec, Abs!Spec, Abs!vars

\* When blkflush() returns the block is up to date on the disk, as long as no
\* transfer fails (but for a write that the last close has hidden).
THEOREM FlushedWhenDone == ASSUME IoErrors = {} PROVE Spec => []FlushedOnReturn
<1>1. BioInv /\ BioInv' /\ RefInv /\ [Next]_vars => RefInv'
  BY StepsRef
<1>2. Init => RefInv
  BY StartsRef
<1>3. BioInv /\ RefInv => FlushedOnReturn
  <2> SUFFICES ASSUME BioInv, RefInv, NEW p \in Procs, pr[p].pc = "flushed",
                      ~\E b \in ToSet(io) : Writes(b, pr[p].blk) /\ Is(b, "STALE")
               PROVE  disk[pr[p].blk] = AbsStore[pr[p].blk]
    BY DEF FlushedOnReturn
  <2>1. PICK r \in ProcRecord : r = pr[p] /\ CallOK(r) /\ FreshOK(r)
    BY DEF BioInv, TypeOK, ProcInv, ProcOK, RefInv
  <2>2. PICK x \in Blocks : x = r.blk
    BY <2>1 DEF CallOK, InBlkflush, ProcRecord
  <2>3. CacheOK(c, io) /\ StoreOK(c, io, disk) /\ Alone(c) /\ io \in Seq(Bufs) /\ x # NoBlock
    BY CacheNow, BioAssumption DEF RefInv, CacheOK
  <2>4. AbsStore[x] = ContentsIn(c, io, disk, x)
    BY <2>3, AbsStoreIs, StoreIs
  <2>5. \A b \in Bufs : c.buf[b].blkno = x =>
          "STALE" \in c.buf[b].flags \/ ("DELWRI" \notin c.buf[b].flags /\ (b \in ToSet(io) => "READ" \in c.buf[b].flags))
    BY <2>1, <2>2 DEF FreshOK, Is
  <2>6. \A b \in Bufs : ~DelayedIn(c, b, x)
    BY <2>5 DEF DelayedIn
  <2>7. \A i \in DOMAIN io : ~WritesIn(c, io[i], x)
    <3> SUFFICES ASSUME NEW i \in DOMAIN io, WritesIn(c, io[i], x) PROVE FALSE
      OBVIOUS
    <3>1. io[i] \in ToSet(io) /\ io[i] \in Bufs
      BY <2>3, SeqFacts
    <3>2. "STALE" \in c.buf[io[i]].flags
      BY <2>5, <3>1 DEF WritesIn
    <3> QED
      BY <2>1, <2>2, <3>1, <3>2 DEF Writes, WritesIn, Is
  <2>8. ContentsIn(c, io, disk, x) = SettledIn(c, io, disk, x)
    BY <2>3, <2>6, ContentsAre
  <2>9. SettledIn(c, io, disk, x) = disk[x]
    BY <2>3, <2>7, SettledIs
  <2> QED
    BY <2>1, <2>2, <2>4, <2>8, <2>9
<1>4. Spec => []BioInv
  BY Invariant
<1> QED
  BY <1>1, <1>2, <1>3, <1>4, PTL DEF Spec
=============================================================================
