------------------------------- MODULE Stubs -------------------------------
(***************************************************************************)
(* The items no provider could name.  A pull keeps each as a row of no     *)
(* show under the title the server gave it, and warns of it; the user      *)
(* matches the title to a series of TMDB or of TheTVDB, or undoes a match; *)
(* and remaps a season of one show to a season of another                  *)
(* (routers/sync.py, from list_season_overrides to unmatch_show).          *)
(*                                                                         *)
(* Two versions of one show in a library, a colour and a black-and-white   *)
(* cut, are items of one episode.                                          *)
(***************************************************************************)
EXTENDS Catalog

VARIABLES
    warned,     \* sync_jobs.warnings: the items some pull warned of
    overrides   \* show_season_overrides: [user, from, season, to, as, provider]

stubVars == <<world, rows, shows, order, files, plays, fly, tried, acts, guessed, misread,
              warned, overrides>>

StubsInit == Init /\ warned = {} /\ overrides = {}

Titles == {i.title : i \in Items} \ {None}
Mine(u) == {files[i] : i \in {i \in Items : i.user = u}} \ {None}
Titled(u, t) == {r \in Mine(u) : (rows[r]).title = t}
OfShow(R) == {r \in R : (rows[r]).show # None}
Warned(u, t) == {files[i] : i \in {i \in warned : i.user = u /\ i.title = t}} \ {None}

\* The rows a title stands for: those of no show, if there are any; none if some are
\* linked already; or those of the items warned of, whatever show they are linked to.
Unmatched(u, t) ==
    LET unlinked == {r \in Titled(u, t) : {(rows[r]).tmdb, (rows[r]).show} = {None}}
    IN IF unlinked # {} THEN unlinked
       ELSE IF OfShow(Titled(u, t)) # {} THEN {}
       ELSE Warned(u, t)

\* Mutant: a second version whose episode is taken stays a stub.
MatchedAlone(db, r, changed) == Claimed(db, r, changed).db

\* The change of a row, and if another row holds the episode the fold of this one into it,
\* with all of its files.
Matched(db, r, changed) ==
    LET claimed == Claimed(db, r, changed)
    IN IF claimed.row = r \/ claimed.db.rows[r] = None THEN claimed.db
       ELSE Merged(claimed.db, claimed.row, r, TRUE)

TvdbRow(s, row, h) ==
    LET v == TvdbAt(s, row.pos)
    IN [row EXCEPT !.show = h, !.tvdb = IF v # None THEN v ELSE @]
TmdbRow(s, row, h) ==
    LET e == TmdbAt(s, row.pos)
    IN IF e = None THEN [row EXCEPT !.show = h]
       ELSE [row EXCEPT !.show = h, !.tmdb = e, !.title = None]

\* missed: the seasons the provider does not answer for.  TheTVDB's are linked to the
\* show all the same.
MatchTvdb(u, t, s, missed) ==
    /\ Unmatched(u, t) # {} /\ u \in world.tvdbKeys
    /\ LET h == IF TvdbShowOf(s) = None THEN FreshShow ELSE TvdbShowOf(s)
           match(r, db) ==
               IF (db.rows[r]).pos[1] \in missed THEN [db EXCEPT !.rows[r].show = h]
               ELSE Matched(db, r, TvdbRow(s, db.rows[r], h))
       IN \E db \in {FoldSet(match, Db, Unmatched(u, t))} :
             /\ shows' = IF TvdbShowOf(s) = None
                         THEN [shows EXCEPT ![h] = [tmdb |-> None, tvdb |-> s]] ELSE shows
             /\ rows' = db.rows /\ files' = db.files /\ plays' = db.plays

\* A show known by the TheTVDB id TMDB lists is taken over: the show that had the TMDB id
\* gives it up, and its rows.
MatchTmdb(u, t, s, missed) ==
    /\ Unmatched(u, t) # {}
    /\ LET c == TvdbShowOf(s)
           displaced == ShowOf(s)
           taken == displaced \notin {None, c}
           h == IF c # None THEN c ELSE IF displaced # None THEN displaced ELSE FreshShow
           table == IF c = None THEN Linked(s)
                    ELSE [k \in Shows |-> IF k = c THEN [shows[c] EXCEPT !.tmdb = s]
                                          ELSE IF k = displaced THEN [shows[k] EXCEPT !.tmdb = None]
                                          ELSE shows[k]]
           home == IF c = None \/ ~taken THEN Db
                   ELSE [Db EXCEPT !.rows = [r \in Rows |->
                            IF rows[r] # None /\ (rows[r]).show = displaced
                            THEN [rows[r] EXCEPT !.show = c] ELSE rows[r]]]
           match(r, db) ==
               IF (db.rows[r]).pos[1] \in missed THEN db
               ELSE Matched(db, r, TmdbRow(s, db.rows[r], h))
       IN \E db \in {FoldSet(match, home, Unmatched(u, t))} :
             /\ shows' = table
             /\ rows' = db.rows /\ files' = db.files /\ plays' = db.plays

Match(u, t, s, provider, missed) ==
    /\ IF provider = "tvdb" THEN MatchTvdb(u, t, s, missed) ELSE MatchTmdb(u, t, s, missed)
    /\ acts < MaxActs /\ acts' = acts + 1
    /\ UNCHANGED <<world, order, fly, tried, guessed, misread, warned, overrides>>

\* TheTVDB's id of the episode stays.  A show left without a row is deleted if TheTVDB
\* does not know it.
Unmatch(u, t) ==
    LET linked == OfShow(Titled(u, t))
        gone == IF linked # {} THEN linked ELSE Warned(u, t)
        bare == {h \in Shows : /\ \E r \in gone : (rows[r]).show = h
                               /\ \A r \in Live \ gone : (rows[r]).show # h
                               /\ shows[h] # None => (shows[h]).tvdb = None}
    IN /\ gone # {} /\ acts < MaxActs /\ acts' = acts + 1
       /\ rows' = [r \in Rows |-> IF r \in gone THEN [rows[r] EXCEPT !.show = None, !.tmdb = None]
                                  ELSE rows[r]]
       /\ shows' = [h \in Shows |-> IF h \in bare THEN None ELSE shows[h]]
       /\ UNCHANGED <<world, order, files, plays, fly, tried, guessed, misread, warned,
                      overrides>>

(***************************************************************************)
(* A season of one show remapped to a season of another.                   *)
(***************************************************************************)
CreateOverride(o) ==
    /\ acts < MaxActs /\ acts' = acts + 1
    /\ overrides' = {p \in overrides : <<p.user, p.from, p.season>> # <<o.user, o.from, o.season>>}
                    \cup {o}
    /\ UNCHANGED <<world, rows, shows, order, files, plays, fly, tried, guessed, misread, warned>>

DeleteOverride(o) ==
    /\ o \in overrides /\ overrides' = overrides \ {o}
    /\ acts < MaxActs /\ acts' = acts + 1
    /\ UNCHANGED <<world, rows, shows, order, files, plays, fly, tried, guessed, misread, warned>>

\* The rows keep their numbers within the season.  One whose episode another row holds
\* stays where it is.
ApplyOverride(o) ==
    /\ o \in overrides /\ ShowOf(o.from) # None
    /\ acts < MaxActs /\ acts' = acts + 1
    /\ o.provider = "tvdb" => o.user \in world.tvdbKeys
    /\ LET known == IF o.provider = "tvdb" THEN TvdbShowOf(o.to) ELSE ShowOf(o.to)
           h == IF known = None THEN FreshShow ELSE known
           remapped == {r \in Mine(o.user) : /\ (rows[r]).show = ShowOf(o.from)
                                             /\ (rows[r]).pos[1] = o.season}
           remap(r, db) ==
               LET row == [db.rows[r] EXCEPT !.pos[1] = o.as]
                   bare == IF TvdbAt(o.to, row.pos) = None THEN row ELSE [row EXCEPT !.title = None]
               IN Claimed(db, r, IF o.provider = "tvdb" THEN TvdbRow(o.to, bare, h)
                                 ELSE TmdbRow(o.to, row, h)).db
       IN /\ remapped # {}
          /\ \E db \in {FoldSet(remap, Db, remapped)} :
                rows' = db.rows /\ files' = db.files /\ plays' = db.plays
          /\ shows' = IF known # None THEN shows
                      ELSE [shows EXCEPT ![h] =
                               IF o.provider = "tvdb" THEN [tmdb |-> None, tvdb |-> o.to]
                               ELSE [tmdb |-> o.to, tvdb |-> None]]
    /\ UNCHANGED <<world, order, fly, tried, guessed, misread, warned, overrides>>

StubsNext ==
    \/ /\ CatalogNext /\ UNCHANGED overrides
       /\ warned' = warned \cup {i \in Items : ~Known(i) /\ files[i] = None /\ files'[i] # None}
    \/ \E u \in world.users, t \in Titles :
          \/ Unmatch(u, t)
          \/ \E s \in Series, provider \in {"tmdb", "tvdb"}, missed \in {{}, 1..9} :
                Match(u, t, s, provider, missed)
    \/ \E o \in world.overrides : CreateOverride(o) \/ DeleteOverride(o) \/ ApplyOverride(o)

StubsSpec == StubsInit /\ [][StubsNext]_stubVars

\* A match of a title to a series of TMDB leaves none of its rows' files behind, and the
\* versions of one episode on one row: the later ones are folded into the first.  Rows an
\* earlier match had linked are left out.
VersionsFold == [][\A u \in world.users, t \in Titles, s \in Series :
    Match(u, t, s, "tmdb", {}) =>
        \A i, j \in {k \in Items : /\ k.user = u /\ k.title = t
                                   /\ files[k] \in Unmatched(u, t) /\ rows[files[k]].show = None} :
            /\ files'[i] # None
            /\ TmdbAt(s, RawOf(i)) # None /\ RawOf(i) = RawOf(j) => files'[i] = files'[j]]_stubVars
=============================================================================
