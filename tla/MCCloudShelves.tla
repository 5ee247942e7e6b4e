--------------------------- MODULE MCCloudShelves --------------------------
(* Instances of CloudMarks and CloudShelves for TLC.                       *)
EXTENDS CloudShelves, TLC

CONSTANTS m1, m2, c1, c2, e0, e1

Setup(p, a, b) == [part |-> p, svc |-> c1 :> a @@ c2 :> b]

\* Every kind of mark; simkl has dropped shows in an instance of their own.
Parts == {Setup("ratings", "trakt", "simkl"), Setup("ratings", "mdblist", "simkl"),
          Setup("lists", "trakt", "mdblist"), Setup("lists", "trakt split", "simkl"),
          Setup("drops", "trakt", "mdblist")}

\* The collection at a pair of services.
Shelves == {Setup("shelf", "nuvio", "stremio")}
OtherShelves == {Setup("shelf", "trakt", "stremio"), Setup("shelf", "mdblist", "nuvio")}

AllParts == Parts \cup Shelves \cup OtherShelves

Changes == [k \in Kind |-> CASE k = "shelf" -> 1 [] k = "ratings" -> 2 [] OTHER -> 3]
Jobs == [k \in Kind |-> IF k = "shelf" THEN 1 ELSE 2]

SpecialSeason == {e0}
FirstSeason == {e1}
TmdbSeasons == {SpecialSeason, FirstSeason}
TmdbSpecials == {SpecialSeason}
OtherSeasons == {{e0, e1}}
=============================================================================
