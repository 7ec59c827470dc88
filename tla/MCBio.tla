------------------------------- MODULE MCBio --------------------------------
(***************************************************************************)
(* Small instances of BioRefinement.                                       *)
(***************************************************************************)
EXTENDS BioRefinement

CONSTANTS x1, x2, x3

OneSize == [x \in Blocks |-> 1]
\* Blocks of two file systems of different block sizes.
TwoSizes == [x \in Blocks |-> IF x = x1 THEN 2 ELSE 1]

Symmetry    == Permutations(Procs) \cup Permutations(Bufs)
\* With OneSize blocks are alike, if the transfers of all or of none may fail; x2 and x3 are with
\* TwoSizes too, and when only those of x1 may.
SymmetryAll == Symmetry \cup Permutations(Blocks)
SymmetryTwo == Symmetry \cup Permutations({x2, x3})
=============================================================================
