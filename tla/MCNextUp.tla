------------------------------ MODULE MCNextUp ------------------------------
(* Instances of NextUp for TLC.                                            *)
EXTENDS NextUp, TLC

CONSTANTS absent, undated

TwoSeasons == <<2, 1>>

\* A show of either source with an episode a day away, and one on a rewatch with an
\* episode announced.
Sched(a, b, c) == [e \in Ep |-> IF e = <<1, 1>> THEN a ELSE IF e = <<1, 2>> THEN b ELSE c]
Shows == {
    [source |-> "tmdb", sched |-> Sched(Long, 1, absent), watched |-> {<<1, 1>>}, cycle |-> None],
    [source |-> "tmdb", sched |-> Sched(Long, Long, undated), watched |-> {<<1, 1>>, <<1, 2>>}, cycle |-> {}],
    [source |-> "tvdb", sched |-> Sched(Long, 1, absent), watched |-> {<<1, 1>>}, cycle |-> None]}
=============================================================================
