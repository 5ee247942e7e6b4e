--------------------------- MODULE MCPlexHistory ---------------------------
(* Instances of PlexHistory, and of CloudPlays with it, for TLC.           *)
EXTENDS PlexHistory, TLC

CONSTANTS m1, c1, c2

Pair(a, b) == c1 :> a @@ c2 :> b
Pairs == {Pair("trakt", "simkl"), Pair("mdblist", "stremio"), Pair("nuvio", "arvio")}
WithPlex == {Pair("simkl", "plex")}
AllPairs == Pairs \cup WithPlex

\* Two jobs at work for the services whose pulls both read the history beforehand.
Jobs == [s \in Setups |-> IF s[c1] = "trakt" THEN 2 ELSE 1]
=============================================================================
