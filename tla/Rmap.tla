-------------------------------- MODULE Rmap --------------------------------
(***************************************************************************)
(* Resource maps, os/malloc.c: the free units of something, as a list of   *)
(* runs in order of their addresses. An array of fixed size holds them;    *)
(* slots is mapsize(mp), the entries of it not in use.                     *)
(***************************************************************************)
EXTENDS Integers, Sequences, SequencesExt

MapType == [ents: Seq([addr: Nat, size: Nat]), slots: Nat]

End(e) == e.addr + e.size
UnitsOf(m) == UNION {m.ents[i].addr .. End(m.ents[i]) - 1 : i \in DOMAIN m.ents}

(* What both functions rely on (their ASSERTs): runs are not empty, in      *)
(* order, and would have been joined if they adjoined.                      *)
MapOK(m) == \A i \in DOMAIN m.ents :
  /\ m.ents[i].addr > 0 /\ m.ents[i].size > 0
  /\ \A j \in 1 .. i - 1 : End(m.ents[j]) < m.ents[i].addr

(* First fit; the address is 0 if there is none.                            *)
Fitting(m, size) == {i \in DOMAIN m.ents : m.ents[i].size >= size}

rmalloc(m, size) ==
  IF size = 0 \/ Fitting(m, size) = {} THEN [addr |-> 0, map |-> m]
  ELSE LET i == CHOOSE x \in Fitting(m, size) : \A y \in Fitting(m, size) : x <= y
           e == m.ents[i]
       IN  [addr |-> e.addr,
            map |-> IF e.size = size
                    THEN [ents |-> RemoveAt(m.ents, i), slots |-> m.slots + 1]
                    ELSE [m EXCEPT !.ents[i] = [addr |-> e.addr + size, size |-> e.size - size]]]

(* The free runs before a, and whether the freed run touches its neighbours.*)
Before(m, a) == {i \in DOMAIN m.ents : m.ents[i].addr <= a}
Preceding(m, a) == CHOOSE i \in {0} \union Before(m, a) : \A j \in Before(m, a) : j <= i
JoinsLeft(m, a) ==
  Preceding(m, a) > 0 /\ End(m.ents[Preceding(m, a)]) = a
JoinsRight(m, size, a) ==
  Preceding(m, a) < Len(m.ents) /\ a + size = m.ents[Preceding(m, a) + 1].addr

(* "rmfree map overflow": the freed units are lost, and nobody is woken.    *)
Overflows(m, size, a) ==
  size > 0 /\ ~JoinsLeft(m, a) /\ ~JoinsRight(m, size, a) /\ m.slots = 0

rmfree(m, size, a) ==
  LET i == Preceding(m, a)
      left == JoinsLeft(m, a)
      right == JoinsRight(m, size, a)
      Run(addr, n) == [addr |-> addr, size |-> n]
      e == m.ents[i]
      f == m.ents[i + 1]
  IN  CASE size = 0 \/ Overflows(m, size, a) -> m
        [] size > 0 /\ left /\ right ->
             [ents |-> RemoveAt([m.ents EXCEPT ![i] = Run(e.addr, e.size + size + f.size)], i + 1),
              slots |-> m.slots + 1]
        [] size > 0 /\ left /\ ~right ->
             [ents |-> [m.ents EXCEPT ![i] = Run(e.addr, e.size + size)], slots |-> m.slots]
        [] size > 0 /\ ~left /\ right ->
             [ents |-> [m.ents EXCEPT ![i + 1] = Run(a, f.size + size)], slots |-> m.slots]
        [] OTHER -> [ents |-> InsertAt(m.ents, i + 1, Run(a, size)), slots |-> m.slots - 1]
=============================================================================
