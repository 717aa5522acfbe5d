------------------------------- MODULE MCRoute ------------------------------
(***************************************************************************)
(* Small instances of one route for TLC: a pool of one or two workers, a   *)
(* buffer of one, events enough to fill both and shed one.                 *)
(***************************************************************************)
EXTENDS Route, TLC

CONSTANTS w1, w2

TwoWorkers == {w1, w2}
OneWorker  == {w1}

\* The workers of a pool are interchangeable; only used by runs without
\* liveness properties.
WorkerSymmetry == Permutations(Workers)
=============================================================================
