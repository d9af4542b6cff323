----------------------------- MODULE MCJobFiles -----------------------------
(***************************************************************************)
(* JobFiles on three videos, two of which have one file name.              *)
(***************************************************************************)
EXTENDS JobFiles, TLC

CONSTANTS front, again, back

MCVideos == {front, again, back}
MCFileName == [v \in MCVideos |-> IF v = back THEN "back" ELSE "front"]

\* No action tells two videos of one name, or two editors, apart.
Symmetry == Permutations({front, again}) \cup Permutations(Editors)
=============================================================================
