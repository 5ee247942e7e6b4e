------------------------ MODULE MCWatchlistReconcile ------------------------
(* Instances of WatchlistReconcile for TLC.                                *)
EXTENDS WatchlistReconcile, TLC

CONSTANTS k1, k2, c1, c2

\* Keys and connections are interchangeable (safety runs only).
Symmetry == Permutations(Key) \cup Permutations(Conn)
=============================================================================
