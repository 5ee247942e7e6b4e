----------------------------- MODULE MCCatalog -----------------------------
(* Instances of Stubs, and of the Catalog under it, for TLC.               *)
EXTENDS Stubs, TLC

CONSTANTS x, y, z, a, b, ann, bob

OneToEight == 1..8

S(p, q) == <<p, q>>
Report(who, src, e, tvdb, order_) ==
    [user |-> who, src |-> src, ep |-> e, key |-> e, tvdb |-> tvdb, order |-> order_, id |-> FALSE]
Named(who, src, e) ==
    [user |-> who, src |-> src, ep |-> e, key |-> None, tvdb |-> FALSE, order |-> FALSE, id |-> TRUE]
Item(who, src, e, tvdb) ==
    [user |-> who, src |-> src, ep |-> e, key |-> e, tvdb |-> tvdb, title |-> None]
Copy(who, src, e, key, title) ==
    [user |-> who, src |-> src, ep |-> e, key |-> key, tvdb |-> FALSE, title |-> title]
World(of, tmdb, tvdb, items, reports, overrides_) ==
    [of |-> of, tmdb |-> tmdb, tvdb |-> tvdb, items |-> items, reports |-> reports,
     users |-> {ann, bob}, tvdbKeys |-> {ann, bob}, overrides |-> overrides_]
One == [e \in Ep |-> a]

\* TMDB has got one long season where TheTVDB has got two: x is its second, y its third.
ShiftT == [e \in Ep |-> IF e = x THEN S(1, 2) ELSE IF e = y THEN S(2, 1) ELSE None]
ShiftV == [e \in Ep |-> IF e = x THEN S(2, 1) ELSE IF e = y THEN S(2, 2) ELSE None]
Shift == World(One, ShiftT, ShiftV,
    {Item(ann, "jellyfin", x, TRUE), Item(ann, "jellyfin", y, TRUE)},
    {Report(ann, "jellyfin", x, TRUE, FALSE), Report(ann, "jellyfin", y, TRUE, FALSE),
     Named(bob, "import", y)}, {})

\* One user has put the show on TheTVDB's order, another watches it as it comes, and z is
\* an episode only TheTVDB has got.
Special == World(One, ShiftT, [ShiftV EXCEPT ![z] = S(2, 3)],
    {Item(ann, "plex", x, TRUE), Item(ann, "plex", z, TRUE)},
    {Report(ann, "plex", x, TRUE, TRUE), Report(bob, "plex", z, TRUE, TRUE),
     Report(bob, "kodi", x, TRUE, FALSE)}, {})

\* Two versions of x that no provider names, z of another series at the same place, and a
\* user whose server names x.
TwoT == [e \in Ep |-> IF e = y THEN None ELSE S(1, 1)]
Versions == World([e \in Ep |-> IF e = z THEN b ELSE a], TwoT, TwoT,
    {Copy(ann, "plex", x, x, "cut"), Copy(ann, "plex", x, y, "cut")},
    {Report(ann, "plex", x, FALSE, FALSE), Named(bob, "import", x)}, {})

\* The second season of one show is the first of another.
RemapT == [e \in Ep |-> IF e = x THEN S(2, 1) ELSE IF e = y THEN None ELSE S(1, 1)]
Remap == World([e \in Ep |-> IF e = z THEN b ELSE a], RemapT, RemapT,
    {Item(ann, "plex", x, FALSE)},
    {Named(bob, "plex", x), Named(bob, "import", z)},
    {[user |-> ann, from |-> a, season |-> 2, to |-> b, as |-> 1, provider |-> p] :
        p \in {"tmdb", "tvdb"}})
AllWorlds == {Shift, Special, Versions, Remap}
ShiftWorlds == {Shift}
OneToFour == 1..4
=============================================================================
