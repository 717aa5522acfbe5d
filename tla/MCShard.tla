------------------------------- MODULE MCShard ------------------------------
(***************************************************************************)
(* A small instance of a shard for TLC: three subjects, two workers, four  *)
(* events, and a cap of two keys that the events overrun.                  *)
(***************************************************************************)
EXTENDS Shard, TLC

CONSTANTS a, b, c, w1, w2

ThreeSubjects == {a, b, c}
TwoWorkers    == {w1, w2}

\* Neither subjects nor workers are told apart.
Symmetry == Permutations(Subjects) \cup Permutations(Workers)
=============================================================================
