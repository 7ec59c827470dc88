------------------------------ MODULE MCFlock ------------------------------
(* Instances of Flock.                                                      *)
EXTENDS FlockRefinement

CONSTANTS p, q, r, vn

Ask(o, type, i, j, set, slp) ==
  [file |-> vn, owner |-> o, type |-> type, start |-> i, end |-> j,
   setflck |-> set, slpflck |-> slp]

Regions == {x \in Byte \X Byte : x[1] <= x[2]}

(* One process locks, converts and unlocks every region; its rival a few,   *)
(* with one request of each kind: waiting, not waiting, and chklock(). The  *)
(* lock manager asks for one byte, for as long as it takes.                 *)
OfP == {Ask(p, "F_WRLCK", x[1], x[2], TRUE, TRUE) : x \in Regions \ {<<2, 2>>, <<1, 2>>}}
  \union {Ask(p, "F_RDLCK", x[1], x[2], TRUE, TRUE) : x \in {<<1, 1>>, <<1, 2>>, <<0, 2>>}}
  \union {Ask(p, "F_UNLCK", x[1], x[2], TRUE, FALSE) : x \in {<<1, 1>>, <<0, 1>>, <<0, 2>>}}
OfQ == {Ask(q, "F_RDLCK", 0, 1, TRUE, TRUE), Ask(q, "F_WRLCK", 1, 1, TRUE, TRUE),
        Ask(q, "F_WRLCK", 2, 2, TRUE, FALSE), Ask(q, "F_WRLCK", 0, 0, FALSE, TRUE),
        Ask(q, "F_UNLCK", 0, 2, TRUE, FALSE)}
OfR == {Ask(r, "F_WRLCK", 2, 2, TRUE, TRUE), Ask(r, "F_UNLCK", 2, 2, TRUE, FALSE)}

MCRequests == [o \in Owner |-> CASE o = p -> OfP [] o = q -> OfQ [] o = r -> OfR]
=============================================================================
