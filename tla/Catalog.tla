------------------------------ MODULE Catalog ------------------------------
(***************************************************************************)
(* Which row a play is recorded on.  TMDB and TheTVDB may number the       *)
(* episodes of one show differently; servers report in either numbering,   *)
(* the cloud services in TMDB's.  The rows are TMDB's: a TheTVDB position  *)
(* is translated by a mapping that the first webhook in need of it builds, *)
(* and the rows made before there was one are merged into the right ones   *)
(* (routers/webhooks.py, core/episode_order.py, core/enrichment.py,        *)
(* core/identity.py, routers/sync.py, trakt.py, shows.py).                 *)
(*                                                                         *)
(* An id of either provider is the episode, or the series, it stands for.  *)
(* A position is <<season, number>>.                                       *)
(***************************************************************************)
EXTENDS Integers, FiniteSets, FiniteSetsExt

CONSTANTS
    Ep, Series, None,
    Rows, Shows,    \* primary keys: 1..n
    Worlds,         \* what there is to watch, and what is reported of it
    MaxActs         \* bound: what users ask for, and calls that are not answered

\* of, tmdb, tvdb: the series of an episode and its positions, None where the provider
\* has not got it.  items: the files on the servers.  reports: the plays to come.
\* tvdbKeys: the users with a key for TheTVDB.  overrides: the remaps they may think of.
ASSUME ConstantsAssumption ==
    /\ Rows = 1..Cardinality(Rows) /\ Shows = 1..Cardinality(Shows)
    /\ MaxActs \in Nat
    /\ \A w \in Worlds : {"of", "tmdb", "tvdb", "items", "reports", "users", "tvdbKeys",
                           "overrides"} = DOMAIN w

VARIABLES
    world,
    rows,       \* media: [show, pos, tmdb, tvdb, title] or None
    shows,      \* shows: [tmdb, tvdb] or None
    order,      \* episode_order_mapping: the episodes matched
    files,      \* collection_files: the row of every item a pull has seen, or None
    plays,      \* watch_events: the row of every report recorded, or None
    fly,        \* the request of every report: to come, at work, answered, or failed
    tried,      \* _season_mapping_attempts: the series whose deadline has not passed
    acts,       \* bound
    guessed,    \* history: reports whose numbers were taken for the other provider's
    misread     \* history: episodes TheTVDB gave for a place where TMDB has another one

vars == <<world, rows, shows, order, files, plays, fly, tried, acts, guessed, misread>>
tables == <<rows, files, plays>>

Items == world.items
Reports == world.reports

Init ==
    /\ world \in Worlds
    /\ rows = [r \in Rows |-> None] /\ shows = [h \in Shows |-> None]
    /\ files = [i \in Items |-> None]
    /\ order = {} /\ tried = {} /\ acts = 0 /\ guessed = {} /\ misread = {}
    /\ plays = [p \in Reports |-> None]
    /\ fly = [p \in Reports |-> [at |-> "todo"]]

(***************************************************************************)
(* The providers.                                                          *)
(***************************************************************************)
EpAt(provider, s, pos) ==
    LET there == {e \in Ep : world.of[e] = s /\ world[provider][e] = pos}
    IN IF there = {} THEN None ELSE CHOOSE e \in there : TRUE
TmdbAt(s, pos) == EpAt("tmdb", s, pos)
TvdbAt(s, pos) == EpAt("tvdb", s, pos)
Diverges(e) == world.tmdb[e] # world.tvdb[e]
Matchable(s) == {e \in Ep : world.of[e] = s /\ None \notin {world.tmdb[e], world.tvdb[e]}}

(***************************************************************************)
(* The tables.                                                             *)
(***************************************************************************)
Answers == {{"tmdb", "tvdb"}, {"tvdb"}, {}}
First(S) == IF S = {} THEN None ELSE Min(S)
Live == {r \in Rows : rows[r] # None}
SeriesAt(table, s) == First({h \in Shows : table[h] # None /\ (table[h]).tmdb = s})
ShowOf(s) == SeriesAt(shows, s)
TvdbShowOf(s) == First({h \in Shows : shows[h] # None /\ (shows[h]).tvdb = s})
TvdbFree(s, h) == TvdbShowOf(s) \in {None, h}
FreshShow ==
    Max({h \in Shows : shows[h] # None}
        \cup ({fly[p].show : p \in {p \in Reports : fly[p].at = "land"}} \ {None}) \cup {0}) + 1

\* What a transaction writes: the rows, and which of them the files and plays are on.
Db == [rows |-> rows, files |-> files, plays |-> plays]
At(db, h, pos) ==
    First({r \in Rows : db.rows[r] # None /\ (db.rows[r]).show = h /\ (db.rows[r]).pos = pos})
Holder(db, e, r) == First({q \in Rows \ {r} : db.rows[q] # None /\ (db.rows[q]).tmdb = e})
\* Keys are not used again while a request that is under way may hold one.
Held == {fly[p].row : p \in {p \in Reports : fly[p].at = "land"}} \ {None}
Fresh(db) == Max({r \in Rows : db.rows[r] # None} \cup Held \cup {0}) + 1

\* The show row of a series known to TMDB, with TheTVDB's id if it is free.
Linked(s) ==
    LET h == ShowOf(s)
        ids(k) == [tmdb |-> s, tvdb |-> IF TvdbFree(s, k) THEN s ELSE None]
    IN IF h = None THEN [shows EXCEPT ![FreshShow] = ids(FreshShow)]
       ELSE IF (shows[h]).tvdb = None THEN [shows EXCEPT ![h] = ids(h)]
       ELSE shows

\* Mutant: the plays stay where they are.
MergedFiles(db, canonical, divergent, keepFiles) ==
    [rows |-> [db.rows EXCEPT ![divergent] = None],
     files |-> [i \in Items |-> IF db.files[i] # divergent THEN db.files[i] ELSE canonical],
     plays |-> db.plays]

(***************************************************************************)
(* Every reference to the divergent row moves to the canonical one.  A     *)
(* collection entry the user has already got there takes the files along   *)
(* only if it is told to.                                                  *)
(***************************************************************************)
Merged(db, canonical, divergent, keepFiles) ==
    LET clash(i) == \E j \in Items : j.user = i.user /\ db.files[j] = canonical
    IN [rows |-> [db.rows EXCEPT ![divergent] = None],
        files |-> [i \in Items |-> IF db.files[i] # divergent THEN db.files[i]
                                   ELSE IF clash(i) /\ ~keepFiles THEN None ELSE canonical],
        plays |-> [p \in Reports |-> IF db.plays[p] = divergent THEN canonical
                                     ELSE db.plays[p]]]

\* Mutant: whatever row is there.
ArtifactAny(db, e, r) == TRUE

\* Only the row that carries TheTVDB's id of the very episode is its artifact: rows from
\* before the column, which keep it in tmdb_id, are left out.
Artifact(db, e, r) == (db.rows[r]).tvdb = e

Reconciled(db, h, eps) ==
    LET settle(e, acc) ==
            LET c == At(acc, h, world.tmdb[e])
                d == At(acc, h, world.tvdb[e])
            IN IF None \notin {c, d} /\ c # d /\ Artifact(acc, e, d)
               THEN Merged(acc, c, d, FALSE) ELSE acc
    IN FoldSet(settle, db, {e \in eps : Diverges(e)})

(***************************************************************************)
(* Filling in a row from its position.  Another row may hold the TMDB id   *)
(* that comes of it: then the change is discarded and the other row used,  *)
(* into which this one is merged if it is in the very same place.          *)
(***************************************************************************)
Claimed(db, r, changed) ==
    LET c == IF changed.tmdb = None THEN None ELSE Holder(db, changed.tmdb, r)
        old == db.rows[r]
    IN IF c = None THEN [db |-> [db EXCEPT !.rows[r] = changed], row |-> r]
       ELSE IF old.show # None /\ (db.rows[c]).show = old.show /\ (db.rows[c]).pos = old.pos
            THEN [db |-> Merged(db, c, r, FALSE), row |-> c]
       ELSE [db |-> db, row |-> c]

\* answers: those of "tmdb" and "tvdb" that answer and that the user has a key for.
\* external: whether TheTVDB's id that TMDB lists is taken over too.
Enriched(db, r, s, answers, external) ==
    LET row == db.rows[r]
        e == TmdbAt(s, row.pos)
        v == TvdbAt(s, row.pos)
    IN IF "tmdb" \in answers /\ e # None
       THEN Claimed(db, r, [row EXCEPT !.tmdb = e, !.title = None,
                !.tvdb = IF external /\ @ = None /\ world.tvdb[e] # None THEN e ELSE @])
       ELSE IF "tvdb" \in answers /\ v # None
       THEN Claimed(db, r, [row EXCEPT !.tvdb = v, !.title = None])
       ELSE [db |-> db, row |-> r]

\* What comes of it when TMDB, which has got the place, does not answer.
Misreads(db, r, s, answers) ==
    LET pos == (db.rows[r]).pos
    IN IF answers = {"tvdb"} /\ TmdbAt(s, pos) \notin {None, TvdbAt(s, pos)}
       THEN {TvdbAt(s, pos)} \ {None} ELSE {}

Row(h, pos, e) == [show |-> h, pos |-> pos, tmdb |-> e, tvdb |-> None, title |-> None]

\* create_media_safely: an insert that loses to a row with the same TMDB id gives that row.
Created(db, h, pos, e) ==
    LET c == IF e = None THEN None ELSE Holder(db, e, None)
        r == Fresh(db)
    IN IF c # None THEN [db |-> db, row |-> c]
       ELSE [db |-> [db EXCEPT !.rows[r] = Row(h, pos, e)], row |-> r]

(***************************************************************************)
(* Webhooks.  First everything is looked up, then, calls to the providers  *)
(* later, the row is made or the one found is used.                        *)
(***************************************************************************)
Reported(p) == IF p.tvdb THEN world.tvdb[p.ep] ELSE world.tmdb[p.ep]

\* By the server's own id of the item.  Jellyfin's is narrowed by the reported number.
ByFile(p) ==
    First({files[i] : i \in {i \in Items : /\ i.src = p.src /\ i.key = p.key
                                           /\ files[i] # None
                                           /\ p.src = "jellyfin" =>
                                                (rows[files[i]]).pos[2] = Reported(p)[2]}})

\* By TMDB's id of the episode, which some reports carry.
ById(p) == IF p.id THEN Holder(Db, p.ep, None) ELSE None

\* A Plex report fills the row it finds by its id in again.
Found(r, again) == [at |-> "land", row |-> r, show |-> None, again |-> again]
\* The row at a position, or the intent to make one.  Plex looks its show up once more.
Place(p, db, h, pos) ==
    [at |-> "land", row |-> IF h = None THEN None ELSE At(db, h, pos), again |-> FALSE,
     show |-> IF p.src = "plex" THEN None ELSE h, pos |-> pos,
     tmdb |-> IF p.id /\ p.src # "kodi" THEN p.ep ELSE None]

Building(s) == \E p \in Reports : fly[p].at = "build" /\ world.of[p.ep] = s
SeasonMapped(s, n) == \E e \in order : world.of[e] = s /\ world.tvdb[e][1] = n

\* One request at a time builds a season's mapping, and none that was tried of late.
Attemptable(s, n) == ~(SeasonMapped(s, n) \/ s \in tried \/ Building(s))

\* What becomes of a position taken for TheTVDB's: translated, or left as it is, or its
\* mapping built first.
Translation(p, h, tvdb, pos) ==
    LET s == world.of[p.ep]
        e == TvdbAt(s, pos)
    IN IF tvdb = None \/ p.user \notin world.tvdbKeys THEN Place(p, Db, h, pos)
       ELSE IF e \in order THEN Place(p, Db, h, world.tmdb[e])
       ELSE IF Attemptable(s, pos[1]) THEN [at |-> "build", show |-> h, pos |-> pos]
       ELSE Place(p, Db, h, pos)

\* One provider's numbers taken for the other's.
Misnumbered(p, step) ==
    /\ step.at = "land" /\ "pos" \in DOMAIN step
    /\ step.pos # IF world.tmdb[p.ep] = None THEN world.tvdb[p.ep] ELSE world.tmdb[p.ep]

Take(p, step) ==
    /\ fly' = [fly EXCEPT ![p] = step]
    /\ tried' = IF step.at = "build" THEN tried \cup {world.of[p.ep]} ELSE tried
    /\ guessed' = IF Misnumbered(p, step) THEN guessed \cup {p} ELSE guessed

\* find_or_create_media_jellyfin: whatever its server numbers by, the position is taken
\* for TheTVDB's.
AskJellyfin(p) ==
    /\ p.src = "jellyfin" /\ fly[p].at = "todo"
    /\ IF ByFile(p) # None
       THEN Take(p, Found(ByFile(p), FALSE)) /\ UNCHANGED shows
       ELSE \E table \in {Linked(world.of[p.ep])} :
            /\ shows' = table
            /\ LET h == SeriesAt(table, world.of[p.ep])
               IN Take(p, IF ById(p) # None THEN Found(ById(p), FALSE)
                          ELSE Translation(p, h, (table[h]).tvdb, Reported(p)))
    /\ UNCHANGED <<world, rows, order, files, plays, acts, misread>>

\* find_or_create_media_plex: translated only for a user who has put the show on TheTVDB's
\* order, and only if the show is there already.
AskPlex(p) ==
    /\ p.src = "plex" /\ fly[p].at = "todo"
    /\ LET h == ShowOf(world.of[p.ep])
       IN Take(p, IF ByFile(p) # None THEN Found(ByFile(p), FALSE)
                  ELSE IF ById(p) # None THEN Found(ById(p), TRUE)
                  ELSE IF p.id THEN Place(p, Db, None, Reported(p))
                  ELSE IF p.order /\ h # None THEN Translation(p, h, (shows[h]).tvdb, Reported(p))
                  ELSE Place(p, Db, h, Reported(p)))
    /\ UNCHANGED <<world, rows, shows, order, files, plays, acts, misread>>

\* find_or_create_media_kodi: no file, no translation, and an id that is trusted only if
\* the row found by it is at the position reported.
AskKodi(p) ==
    /\ p.src = "kodi" /\ fly[p].at = "todo"
    /\ \E table \in {Linked(world.of[p.ep])} :
          /\ shows' = table
          /\ LET h == SeriesAt(table, world.of[p.ep])
                 known == ById(p)
                 trusted == known # None /\ (known # None =>
                                (rows[known]).show \in {None, h} /\ (rows[known]).pos = Reported(p))
             IN Take(p, IF trusted THEN Found(known, FALSE) ELSE Place(p, Db, h, Reported(p)))
    /\ UNCHANGED <<world, rows, order, files, plays, acts, misread>>

\* An import: TMDB's positions, a show row without TheTVDB's id, and no row for an
\* episode TMDB has not got.
AskImport(p) ==
    /\ p.src = "import" /\ fly[p].at = "todo"
    /\ LET s == world.of[p.ep]
           h == IF ShowOf(s) = None THEN FreshShow ELSE ShowOf(s)
       IN /\ shows' = IF ShowOf(s) = None
                      THEN [shows EXCEPT ![h] = [tmdb |-> s, tvdb |-> None]] ELSE shows
          /\ Take(p, Place(p, Db, h, Reported(p)))
    /\ UNCHANGED <<world, rows, order, files, plays, acts, misread>>

\* The mapping of a season is built, at the cost of a call for every episode, and the
\* rows made under the raw numbers of that season are merged; without an answer the raw
\* numbers do.
Build(p, answered) ==
    /\ fly[p].at = "build"
    /\ answered \/ acts < MaxActs
    /\ LET s == world.of[p.ep]
           pos == fly[p].pos
           db == IF answered
                 THEN Reconciled(Db, fly[p].show, {e \in Matchable(s) : world.tvdb[e][1] = pos[1]})
                 ELSE Db
           e == TvdbAt(s, pos)
           step == Place(p, db, fly[p].show,
                         IF answered /\ e \in Matchable(s) THEN world.tmdb[e] ELSE pos)
       IN /\ order' = IF answered THEN order \cup Matchable(s) ELSE order
          /\ rows' = db.rows /\ files' = db.files /\ plays' = db.plays
          /\ fly' = [fly EXCEPT ![p] = step]
          /\ guessed' = IF Misnumbered(p, step) THEN guessed \cup {p} ELSE guessed
    /\ acts' = IF answered THEN acts ELSE acts + 1
    /\ UNCHANGED <<world, shows, tried, misread>>

\* A row that was merged away, or a show that was deleted, takes the request that holds
\* its key with it.
Stale(f) == IF f.row # None THEN f.row \notin Live ELSE f.show # None /\ shows[f.show] = None

LandFound(p) ==
    /\ fly[p].at = "land" /\ ((fly[p].row # None /\ ~fly[p].again) \/ Stale(fly[p]))
    /\ plays' = IF Stale(fly[p]) THEN plays ELSE [plays EXCEPT ![p] = fly[p].row]
    /\ fly' = [fly EXCEPT ![p] = [at |-> IF Stale(fly[p]) THEN "lost" ELSE "done"]]
    /\ UNCHANGED <<world, rows, shows, order, files, tried, acts, guessed, misread>>

\* The play is recorded on a row that is filled in now, and for the most part made now.
LandNew(p, answers) ==
    /\ fly[p].at = "land" /\ (fly[p].row = None \/ fly[p].again) /\ ~Stale(fly[p])
    /\ acts' = IF answers = {"tmdb", "tvdb"} THEN acts ELSE acts + 1
    /\ acts' <= MaxActs
    /\ LET f == fly[p]
           s == world.of[p.ep]
           table == IF f.show # None \/ f.again THEN shows ELSE Linked(s)
           h == IF f.show # None THEN f.show
                ELSE IF f.again THEN (rows[f.row]).show ELSE SeriesAt(table, s)
           keys == IF p.user \notin world.tvdbKeys \/ h = None \/ (table[h]).tvdb = None
                   THEN answers \ {"tvdb"} ELSE answers
           made == IF f.again THEN [db |-> Db, row |-> f.row] ELSE Created(Db, h, f.pos, f.tmdb)
       IN \E full \in {IF p.src = "import" THEN made
                        ELSE Enriched(made.db, made.row, s, keys, TRUE)} :
            /\ shows' = table
            /\ rows' = full.db.rows /\ files' = full.db.files
            /\ plays' = [full.db.plays EXCEPT ![p] = full.row]
            /\ fly' = [fly EXCEPT ![p] = [at |-> "done"]]
            /\ misread' = misread \cup IF p.src = "import" THEN {}
                                       ELSE Misreads(made.db, made.row, s, keys)
    /\ UNCHANGED <<world, order, tried, guessed>>

\* The half hour between two attempts at one mapping passes, or the process starts anew.
Forget ==
    /\ tried # {} /\ tried' = {}
    /\ UNCHANGED <<world, rows, shows, order, files, plays, fly, acts, guessed, misread>>

(***************************************************************************)
(* The pull of a server's library.                                         *)
(***************************************************************************)
Known(i) == i.title = None
RawOf(i) == IF i.tvdb THEN world.tvdb[i.ep] ELSE world.tmdb[i.ep]
\* Through TheTVDB's id of the item, never through its numbers.
Canonical(i, mapped) == IF i.ep \in mapped /\ Diverges(i.ep) THEN world.tmdb[i.ep] ELSE RawOf(i)

\* Mutant: a row moves to its place, and one that finds it taken is left.
FoldedMoves(db, items, mapped, home) ==
    LET move(i, acc) ==
            LET d == At(acc.db, home[i], RawOf(i))
                c == At(acc.db, home[i], Canonical(i, mapped))
            IN IF d # None /\ c = None /\ Artifact(acc.db, i.ep, d)
               THEN [acc EXCEPT !.db.rows[d].pos = Canonical(i, mapped), !.new = @ \cup {d}]
               ELSE acc
    IN FoldSet(move, [db |-> db, new |-> {}], {i \in items : Canonical(i, mapped) # RawOf(i)})

\* Rows TheTVDB's numbers led to move to their place if it is empty, and are merged
\* otherwise.
Folded(db, items, mapped, home) ==
    LET move(i, acc) ==
            LET d == At(acc.db, home[i], RawOf(i))
                c == At(acc.db, home[i], Canonical(i, mapped))
            IN IF d = None THEN acc
               ELSE IF c # None THEN [acc EXCEPT !.shows = @ \cup {home[i]}]
               ELSE IF Artifact(acc.db, i.ep, d)
               THEN [acc EXCEPT !.db.rows[d].pos = Canonical(i, mapped), !.new = @ \cup {d}]
               ELSE acc
        moved == FoldSet(move, [db |-> db, shows |-> {}, new |-> {}],
                         {i \in items : Canonical(i, mapped) # RawOf(i)})
        merge(h, acc) == Reconciled(acc, h, mapped)
    IN [db |-> FoldSet(merge, moved.db, moved.shows), new |-> moved.new]

\* One item: it stays on its row, and one nothing ever filled in is tried again; or it
\* goes to the row at its place, or to a new one.  An item whose series no provider
\* names becomes a stub that keeps the title.
Stored(acc, i, h, pos) ==
    LET file == acc.db.files[i]
        kept == file # None /\ (acc.db.rows[file]).pos[2] = pos[2]
        bare == kept /\ h # None /\ {(acc.db.rows[file]).tmdb, (acc.db.rows[file]).tvdb} = {None}
        r == IF h = None THEN None ELSE At(acc.db, h, pos)
        fresh == Fresh(acc.db)
    IN IF bare THEN [acc EXCEPT !.db.rows[file].show = h, !.new = @ \cup {file}]
       ELSE IF kept THEN acc
       ELSE IF r # None THEN [acc EXCEPT !.db.files[i] = r]
       ELSE [acc EXCEPT !.db.files[i] = fresh, !.new = @ \cup {fresh},
                        !.db.rows[fresh] = [Row(h, pos, None) EXCEPT !.title = i.title]]

\* The items at home, each at the place the mapping gives, and then the new rows filled in.
Mirrored(items, mapped, table, home, keys) ==
    LET folded == Folded(Db, {i \in items : home[i] # None}, mapped, home)
        store(i, acc) == Stored(acc, i, home[i], IF home[i] = None THEN RawOf(i)
                                                 ELSE Canonical(i, mapped))
        stored == FoldSet(store, folded, items)
        named == {r \in stored.new : stored.db.rows[r] # None /\ (stored.db.rows[r]).show # None}
        series(r) == (table[(stored.db.rows[r]).show]).tmdb
        fill(r, db) ==
            IF db.rows[r] = None THEN db ELSE Enriched(db, r, series(r), keys, FALSE).db
    IN [db |-> FoldSet(fill, stored.db, named),
        misread |-> UNION {Misreads(stored.db, r, series(r), keys) : r \in named}]

Pull(u, src, answers) ==
    /\ answers = {"tmdb", "tvdb"} \/ acts < MaxActs
    /\ LET items == {i \in Items : i.user = u /\ i.src = src}
           keys == IF u \in world.tvdbKeys THEN answers ELSE answers \ {"tvdb"}
           known == {world.of[i.ep] : i \in {i \in items : Known(i)}}
           maps == src = "plex" /\ answers = {"tmdb", "tvdb"} /\ u \in world.tvdbKeys
                   /\ \E i \in items : Known(i) /\ i.ep \notin order
           mapped == IF maps THEN order \cup UNION {Matchable(s) : s \in known} ELSE order
       IN \E table \in {IF known = {} THEN shows ELSE Linked(CHOOSE s \in known : TRUE)} :
          \E home \in {[i \in items |-> IF ~Known(i) THEN None ELSE SeriesAt(table, world.of[i.ep])]} :
          \E done \in {Mirrored(items, mapped, table, home, keys)} :
             /\ order' = mapped /\ shows' = table
             /\ rows' = done.db.rows /\ files' = done.db.files /\ plays' = done.db.plays
             /\ misread' = misread \cup done.misread
             /\ guessed' = guessed \cup {p \in Reports : \E i \in items :
                    /\ p.src = i.src /\ p.key = i.key
                    /\ done.db.files[i] # files[i] /\ Canonical(i, mapped) # world.tmdb[i.ep]}
    /\ acts' = IF answers = {"tmdb", "tvdb"} THEN acts ELSE acts + 1
    /\ UNCHANGED <<world, fly, tried>>

(***************************************************************************)
(* What a user asks for on the page of a show.                             *)
(***************************************************************************)
\* Putting the show on TheTVDB's order builds the mapping unless there is one.
SwitchOrder(s) ==
    /\ ShowOf(s) # None /\ Matchable(s) # {}
    /\ acts < MaxActs /\ acts' = acts + 1
    /\ LET h == ShowOf(s)
           table == Linked(s)
           db == Reconciled(Db, h, order')
       IN /\ order' = order \cup Matchable(s)
          /\ shows' = table
          /\ IF (table[h]).tvdb = None THEN UNCHANGED tables
             ELSE rows' = db.rows /\ files' = db.files /\ plays' = db.plays
    /\ UNCHANGED <<world, fly, tried, guessed, misread>>

\* Refresh Metadata fills in every row of the show again, by its place, and takes in the
\* user's rows of no show whose place the show has got.
Refresh(u, s) ==
    /\ ShowOf(s) # None
    /\ acts < MaxActs /\ acts' = acts + 1
    /\ LET h == ShowOf(s)
           mine == {files[i] : i \in {i \in Items : i.user = u}} \ {None}
           linked == {r \in Live : (rows[r]).show = h}
           orphans == {r \in mine \cap Live : (rows[r]).show = None}
           known(db, r) == TmdbAt(s, (db.rows[r]).pos) # None
           best(r, db) ==
               IF db.rows[r] = None THEN db
               ELSE IF known(db, r)
               THEN LET e == TmdbAt(s, (db.rows[r]).pos)
                    IN Claimed(db, r, [db.rows[r] EXCEPT !.show = h, !.tmdb = e,
                                                         !.title = None]).db
               ELSE IF (db.rows[r]).tmdb = None /\ (db.rows[r]).tvdb # None
                       /\ u \in world.tvdbKeys /\ (shows[h]).tvdb # None
                       /\ TvdbAt(s, (db.rows[r]).pos) # None
               THEN [db EXCEPT !.rows[r].tvdb = TvdbAt(s, (db.rows[r]).pos), !.rows[r].show = h,
                               !.rows[r].title = None]
               ELSE db
           done == FoldSet(best, FoldSet(best, Db, linked), orphans)
       IN rows' = done.rows /\ files' = done.files /\ plays' = done.plays
    /\ UNCHANGED <<world, shows, order, fly, tried, guessed, misread>>

Serve(p) ==
    \/ AskJellyfin(p) \/ AskPlex(p) \/ AskKodi(p) \/ AskImport(p)
    \/ \E ok \in BOOLEAN : Build(p, ok)
    \/ LandFound(p) \/ \E answers \in Answers : LandNew(p, answers)

Libraries(w) == {<<i.user, i.src>> : i \in w.items}

CatalogNext ==
    \/ \E p \in Reports : Serve(p)
    \/ Forget
    \/ \E k \in Libraries(world), answers \in Answers : Pull(k[1], k[2], answers)
    \/ \E s \in Series : SwitchOrder(s) \/ \E u \in world.users : Refresh(u, s)

CatalogSpec == Init /\ [][CatalogNext]_vars

(***************************************************************************)
(* Properties.                                                             *)
(***************************************************************************)
RowType == [show : Shows \cup {None}, pos : (1..9) \X (1..9), tmdb : Ep \cup {None},
            tvdb : Ep \cup {None}, title : {None} \cup {i.title : i \in Items}]

\* The tables have the types of their columns.
TypeOK ==
    /\ rows \in [Rows -> RowType \cup {None}]
    /\ shows \in [Shows -> [tmdb : Series \cup {None}, tvdb : Series \cup {None}] \cup {None}]
    /\ files \in [Items -> Rows \cup {None}]
    /\ plays \in [Reports -> Rows \cup {None}]
    /\ \A p \in Reports : fly[p].at \in {"todo", "build", "land", "done", "lost"}
    /\ order \subseteq Ep /\ tried \subseteq Series /\ acts \in 0..MaxActs
    /\ guessed \subseteq Reports /\ misread \subseteq Ep

Recorded == {p \in Reports : plays[p] # None}
\* The episode a row is taken for: that of its TMDB id, or else of TheTVDB's.  An id that
\* is not of the row's show was left behind by an earlier match.
Means(r) ==
    LET h == (rows[r]).show
        of == IF h = None THEN {} ELSE {(shows[h]).tmdb, (shows[h]).tvdb}
        ids == {e \in {(rows[r]).tmdb, (rows[r]).tvdb} \ {None} : world.of[e] \in of}
    IN IF (rows[r]).tmdb \in ids \/ h = None THEN (rows[r]).tmdb
       ELSE IF ids = {} THEN None ELSE (rows[r]).tvdb
Misplaced == {p \in Recorded : Means(plays[p]) \notin {p.ep, None}}
\* A user who matches a row to another series, or a refresh that takes it in, says so.
Rehomed(p) == LET h == (rows[plays[p]]).show
              IN h # None /\ world.of[p.ep] \notin {(shows[h]).tmdb, (shows[h]).tvdb}

\* A play is on a row of the episode that was played, unless one provider's numbers
\* were taken for the other's when it was reported: whatever rows are made meanwhile,
\* merged, moved and filled in.
RightEpisode ==
    \A p \in Misplaced : p \in guessed \/ Rehomed(p) \/ {p.ep, Means(plays[p])} \cap misread # {}

\* TheTVDB is asked only for what TMDB has not got: its numbers never put another episode
\* on the row.
FallbackIsRight == \A p \in Misplaced : p \in guessed \/ Rehomed(p)

\* No merge and no move loses a play, or takes a play off every row.
PlaysSurvive == [][\A p \in Recorded : plays'[p] # None /\ (plays'[p] # None => rows'[plays'[p]] # None)]_vars

Twins(items) == {i \in items : i.ep \in order /\ Diverges(i.ep) /\ \E p, q \in Recorded :
    LET h == (rows[plays[p]]).show
    IN /\ p.ep = i.ep /\ plays[p] = At(Db, h, world.tvdb[i.ep]) /\ (rows[plays[p]]).tvdb = i.ep
       /\ q.ep = i.ep /\ plays[q] = At(Db, h, world.tmdb[i.ep])}

\* Two requests that made a row each at one place.
Crowded == \E q, r \in Live : /\ q # r /\ (rows[q]).show = (rows[r]).show
                              /\ (rows[q]).show # None /\ (rows[q]).pos = (rows[r]).pos

\* Once the mapping is there, a pull of a server that numbers its items as TheTVDB does
\* leaves no two plays of one of them on two rows, whichever request made its row while
\* another was still building the mapping; unless some place of a show had two rows.
PullMerges == [][\A k \in Libraries(world) :
    ~Crowded /\ Pull(k[1], k[2], {"tmdb", "tvdb"}) =>
        Twins({i \in Items : i.user = k[1] /\ i.src = k[2] /\ i.tvdb})' = {}]_vars
=============================================================================
