----------------------------- MODULE MCWatchLog -----------------------------
(* Instances of WatchLog for TLC.                                          *)
EXTENDS WatchLog, TLC

CONSTANTS m1, m2, m3, e1, e2, w1, w2

\* m1 and m3 are two rows of the same episode.
Eps == [m \in Media |-> IF m = m2 THEN e2 ELSE e1]

\* Request handlers are interchangeable.
Symmetry == Permutations(Worker)
=============================================================================
