-------------------------- MODULE FlockRefinement --------------------------
(***************************************************************************)
(* Flock implements FlockSpec: an owner holds on a byte what its lock that *)
(* covers the byte says, and waits with the request that its process in    *)
(* reclock() has not returned from.                                        *)
(***************************************************************************)
EXTENDS Flock

Covering(f, b, o) == {a \in ToSet(v_filocks[f]) :
  filock[a].owner = o /\ filock[a].start <= b /\ b <= filock[a].end}

Holding(f, b, o) ==
  LET c == Covering(f, b, o)
  IN  IF c = {} THEN "none" ELSE filock[CHOOSE a \in c : TRUE].type

Waiting(o) == IF o \in Remote THEN NULL ELSE pr[o].req

Asked == UNION {Requests[o] : o \in Owner} \union {Everything(o, f) : o \in Owner, f \in File}

Abstract == INSTANCE FlockSpec WITH
  Request <- Asked,
  held <- [f \in File |-> [b \in Byte |-> [o \in Owner |-> Holding(f, b, o)]]],
  waiting <- [o \in Owner |-> Waiting(o)]

(* However regions overlap, adjoin and split, a request that succeeds       *)
(* changes all the bytes it asks for and no others, to the type it asks for,*)
(* for its owner and nobody else, and only if no other owner is in the way; *)
(* a process that waits has its own request granted, or none. One that finds*)
(* no record grants nothing, and an unlock then touches only its own bytes  *)
(* (reclock(), flckadj(), cleanlocks()).                                    *)
ImplementsFlockSpec == Abstract!SpecSpec

(* What the states are told apart by: no step looks at the last answer, so  *)
(* what may follow a state is the same whatever it is, and every step out of*)
(* a state is compared with FlockSpec.                                      *)
View == <<filock, v_filocks, sleeplcks, reccnt, pr, circling>>
=============================================================================
