------------------------------ MODULE Library ------------------------------
(***************************************************************************)
(* How the user's collection follows the libraries of media servers: the   *)
(* full pull with its preloaded caches, per-item savepoints and removal of *)
(* stale files, the webhooks of additions, removals and matches that       *)
(* overlap it, and the user's own changes (routers/sync.py,                *)
(* routers/webhooks.py, routers/media.py, models/collection.py).           *)
(*                                                                         *)
(* One user.  An item of a server has a source id and is matched to one    *)
(* media.  A batch of a pull (BATCH_SIZE items and their commit) is one    *)
(* item here; every other transaction reads in one step and commits in a   *)
(* later one.                                                              *)
(***************************************************************************)
EXTENDS Integers, FiniteSets, FiniteSetsExt

CONSTANTS
    Media, Sid,     \* media, and the source ids servers give their items
    Conn,           \* the user's media server connections with sync_collection
    Type,           \* what a connection's server runs: its CollectionSource
    Reporting,      \* connections whose server has the webhook set up
    MinExisting,    \* _STALE_REMOVAL_MIN_EXISTING; the fraction is one half
    MaxChanges,     \* changes of the servers' libraries
    MaxFixes,       \* of these, items whose match is corrected
    MaxTroubles     \* the user's changes, connections deleted and added again, short
                    \* scans, limited or broken-off pulls, failing items, crashes

None == "none"
Source == {Type[c] : c \in Conn} \cup {"manual"}

ASSUME ConstantsAssumption ==
    /\ Type \in [Conn -> {"jellyfin", "emby", "plex"}]
    /\ Reporting \subseteq Conn
    /\ None \notin Media \cup Conn /\ Sid # {}
    /\ {MinExisting, MaxChanges, MaxFixes, MaxTroubles} \subseteq Nat

VARIABLES
    lib,        \* what each server has: source id -> media
    coll,       \* collections: media -> id of the row, 0 if there is none
    files,      \* collection_files: {[id, m, src, sid, conn]}
    reports,    \* webhooks on their way: {[c, kind, sid, m]}
    busy,       \* webhook handlers that have read and not committed
    pull,       \* the media server pull at work
    changes, fixes, troubles,   \* bounds
    mirrored,   \* history: connections an undisturbed pull has mirrored since their last change
    slipped,    \* history: connections of which a pull evicted a file that it had moved, and
                \* no undisturbed one has done better since
    crossed,    \* history: media two removals of which have overlapped
    doubled     \* history: ids under which a webhook, or a pull that something crossed,
                \* has left files of two media

bounds == <<changes, fixes, troubles>>
vars == <<lib, coll, files, reports, busy, pull, bounds, mirrored, slipped, crossed, doubled>>

NoPull == [c |-> None]
Idle == pull = NoPull

Init ==
    /\ lib = [c \in Conn |-> [s \in Sid |-> None]]
    /\ coll = [m \in Media |-> 0] /\ files = {}
    /\ reports = {} /\ busy = {} /\ pull = NoPull
    /\ changes = 0 /\ fixes = 0 /\ troubles = 0
    /\ mirrored = {} /\ slipped = {} /\ crossed = {} /\ doubled = {}

-----------------------------------------------------------------------------
(* The servers: external, as far as the pulls and handlers show them.      *)

Tell(c, kind, s, m) ==
    reports' = IF c \in Reporting
               THEN reports \cup {[c |-> c, kind |-> kind, sid |-> s, m |-> m]} ELSE reports

\* A change of c's library while a pull of c is at work makes it an old one.
Touch(c) ==
    /\ mirrored' = mirrored \ {c}
    /\ pull' = IF pull.c = c THEN [pull EXCEPT !.clean = FALSE] ELSE pull

Changed(c, s, m) ==
    /\ changes < MaxChanges /\ changes' = changes + 1
    /\ lib' = [lib EXCEPT ![c][s] = m]
    /\ Touch(c)
    /\ UNCHANGED <<coll, files, busy, troubles, slipped, crossed, doubled>>

AnyId == CHOOSE s \in Sid : TRUE

\* Ids are interchangeable, so the first item of all may as well have AnyId.
Appear(c, s, m) ==
    /\ lib[c][s] = None /\ (changes = 0 => s = AnyId)
    /\ Changed(c, s, m) /\ Tell(c, "added", s, m) /\ UNCHANGED fixes

\* Plex sends no webhook for a deletion.
Vanish(c, s) ==
    /\ lib[c][s] # None
    /\ Changed(c, s, None)
    /\ IF Type[c] = "plex" THEN UNCHANGED reports ELSE Tell(c, "removed", s, lib[c][s])
    /\ UNCHANGED fixes

\* The match of an item is corrected; only Plex reports it (library.update).
Fix(c, s, m) ==
    /\ lib[c][s] \notin {None, m} /\ fixes < MaxFixes /\ fixes' = fixes + 1
    /\ Changed(c, s, m)
    /\ IF Type[c] = "plex" THEN Tell(c, "updated", s, m) ELSE UNCHANGED reports

Lose(r) ==
    /\ reports' = reports \ {r}
    /\ UNCHANGED <<lib, coll, files, busy, pull, bounds, mirrored, slipped, crossed, doubled>>

-----------------------------------------------------------------------------
(* Rows.                                                                   *)

\* The collections that transactions at work are about to delete.
Doomed == (UNION {h.last : h \in busy}) \cup (IF Idle THEN {} ELSE pull.last)

\* The smallest ids no row has and no transaction at work remembers.
NewFile ==
    LET held == {f.id : f \in files}
                \cup (IF Idle THEN {} ELSE {f.id : f \in pull.files})
    IN Min((1..(Cardinality(held) + 1)) \ held)

NewColl(m) ==
    LET held == {coll[m]} \cup {h.cid : h \in {g \in busy : g.r.m = m}}
                \cup {l[2] : l \in {k \in Doomed : k[1] = m}}
                \cup (IF Idle THEN {} ELSE {pull.coll[m]})
    IN Min((1..(Cardinality(held) + 1)) \ held)

\* Rows a transaction at work has deleted; whoever wants to write them waits.
Locked == (UNION {h.rows : h \in busy}) \cup (IF Idle THEN {} ELSE pull.stale)
Unlocked(rows) == rows \cap Locked = {}

FilesOf(m) == {f \in files : f.m = m}
Tables == [files |-> files, coll |-> coll]

\* The ids of servers' items under which there are files of two media.
Doubled(f, g) == f.src # "manual" /\ f.src = g.src /\ f.sid = g.sid /\ f.m # g.m
Doubles(rows) == {<<f.src, f.sid>> : f \in {g \in rows : \E h \in rows : Doubled(g, h)}}

\* Mutant: the file of what the item was before stays.
DroppedNever(rows) == Tables

\* Mutant: the emptied collection stays.
DroppedFiles(rows) == [files |-> files \ rows, coll |-> coll]

\* Deletes rows, and the collections of which no file is left.
Dropped(rows) ==
    LET left == files \ rows
        gone == {m \in {f.m : f \in rows} : \A f \in left : f.m # m}
    IN [files |-> left, coll |-> [m \in Media |-> IF m \in gone THEN 0 ELSE coll[m]]]

\* A file for m; its collection is taken or made.
Added(t, m, src, s, c) ==
    [files |-> t.files \cup {[id |-> NewFile, m |-> m, src |-> src, sid |-> s, conn |-> c]},
     coll |-> [t.coll EXCEPT ![m] = IF @ = 0 THEN NewColl(m) ELSE @]]

Write(t) == files' = t.files /\ coll' = t.coll

-----------------------------------------------------------------------------
(* Webhooks.                                                               *)

\* The collections a removal of rows is going to delete, with their ids: those
\* of which the transaction sees no other file.
Last(rows) == {<<f.m, coll[f.m]>> : f \in {g \in rows : FilesOf(g.m) \subseteq rows}}

\* A handler takes up a report, and reads the rows that are going to be removed.
Take(r, rows) ==
    LET with == {h \in busy : \E f \in h.rows : \E g \in rows : f.m = g.m}
        stale == IF Idle THEN {} ELSE {f.m : f \in pull.stale}
    IN
    /\ r \in reports /\ (\A h \in busy : h.r # r) /\ Unlocked(rows)
    /\ reports' = reports \ {r}
    /\ busy' = busy \cup {[r |-> r, cid |-> coll[r.m], rows |-> rows, last |-> Last(rows)]}
    /\ pull' = IF Idle THEN pull ELSE [pull EXCEPT !.clean = FALSE]
    /\ crossed' = crossed \cup {f.m : f \in UNION {h.rows : h \in with}}
                          \cup ({f.m : f \in rows} \cap stale)
    /\ UNCHANGED <<lib, coll, files, bounds, mirrored, slipped, doubled>>

Reported(r) == {f \in files : f.src = Type[r.c] /\ f.sid = r.sid}

\* A removal looks for the file of the reported media.
JellyfinReport(r) ==
    Take(r, IF r.kind = "removed" THEN {f \in Reported(r) : f.m = r.m} ELSE {})
EmbyReport(r) ==
    Take(r, IF r.kind = "removed" THEN {f \in Reported(r) : f.m = r.m} ELSE {})

\* An update looks for files of other media under the same id.
PlexReport(r) ==
    Take(r, IF r.kind = "updated" THEN {f \in Reported(r) : f.m # r.m} ELSE {})

Handle(r) ==
    CASE Type[r.c] = "jellyfin" -> JellyfinReport(r)
      [] Type[r.c] = "emby" -> EmbyReport(r)
      [] Type[r.c] = "plex" -> PlexReport(r)

\* The rows go, and with them the collections found empty (the deletion takes
\* along files that were added to them since).
Removed(rows, last) ==
    LET dead == {l[1] : l \in {k \in last : coll[k[1]] = k[2]}} IN
    [files |-> {f \in files \ rows : f.m \notin dead},
     coll |-> [m \in Media |-> IF m \in dead THEN 0 ELSE coll[m]]]

\* _ensure_collection_entry: the file is made, or given the connection.
Ensured(t, r) ==
    LET same == {f \in t.files : f.m = r.m /\ f.src = Type[r.c] /\ f.sid = r.sid} IN
    IF same = {} THEN Added(t, r.m, Type[r.c], r.sid, r.c)
    ELSE [t EXCEPT !.files = (@ \ same) \cup {[f EXCEPT !.conn = r.c] : f \in same}]

\* The handler commits; an insert under a collection that has been deleted
\* since it was read fails and undoes all of it.  Rows that another transaction
\* has deleted are waited for.
Commit(h) ==
    LET t == Removed(h.rows, h.last) IN
    /\ busy' = busy \ {h}
    /\ CASE h.r.kind = "removed" -> Write(t)
         [] h.r.kind # "removed" /\ h.cid # 0 /\ t.coll[h.r.m] # h.cid -> UNCHANGED <<files, coll>>
         [] OTHER -> Write(Ensured(t, h.r))
    /\ (Locked \ h.rows) \cap (files \ files') = {}
    /\ pull' = IF Idle THEN pull ELSE [pull EXCEPT !.clean = FALSE]
    /\ mirrored' = mirrored \ {h.r.c} /\ doubled' = doubled \cup Doubles(files')
    /\ UNCHANGED <<lib, reports, bounds, slipped, crossed>>

-----------------------------------------------------------------------------
(* The full pull.                                                          *)

Items(c) == {s \in Sid : lib[c][s] # None}

\* What a scan found makes most of many files look deleted.
MostlyGone(rows, found) ==
    /\ Cardinality(rows) >= MinExisting
    /\ 2 * Cardinality({f \in rows : f.sid \notin found}) > Cardinality(rows)

\* Phase 1.  The caches hold the files of every connection of the type, by id
\* (existing_files) and by media (files_by_media_source), and the collections.
Preloaded(c) ==
    LET rows == {f \in files : f.src = Type[c]} IN [files |-> rows, by |-> rows, coll |-> coll]

\* The scan and the preloading.  A scan may come back short; a manual pull may
\* be limited, and removes nothing then.
StartPull(c) ==
    \E got \in SUBSET Items(c), limited \in BOOLEAN :
       LET whole == got = Items(c) /\ ~limited
           pre == Preloaded(c)
       IN
       /\ Idle
       /\ whole \/ troubles < MaxTroubles
       /\ troubles' = IF whole THEN troubles ELSE troubles + 1
       /\ pull' = [c |-> c, phase |-> "items",
                   todo |-> {<<s, lib[c][s]>> : s \in got},
                   seen |-> got, limited |-> limited,
                   files |-> pre.files, by |-> pre.by, coll |-> pre.coll,
                   stale |-> {}, last |-> {},
                   clean |-> whole /\ busy = {}, slip |-> FALSE]
       /\ UNCHANGED <<lib, coll, files, reports, busy, changes, fixes, mirrored, slipped, crossed, doubled>>

\* Each kind of server has a body of its own; they do alike.
JellyfinPull(c) == StartPull(c)
EmbyPull(c) == StartPull(c)
PlexPull(c) == StartPull(c)

Pull(c) ==
    CASE Type[c] = "jellyfin" -> JellyfinPull(c)
      [] Type[c] = "emby" -> EmbyPull(c)
      [] Type[c] = "plex" -> PlexPull(c)

\* existing_files: the row cached for a source id, one of them if there are more.
\* Rows moved to another id in this run keep the entry of the id they had.  The key
\* has the episode's number too: the media here are films, or episodes of one number.
Cached(s) == {f \in pull.files : f.sid = s}
Row(f) == {g \in files : g.id = f.id}
Forget(f) ==
    [pull EXCEPT !.files = @ \ {f}, !.by = {g \in @ : g.m # f.m},
                 !.slip = @ \/ \E g \in Row(f) : g.sid # f.sid \/ g.id \in {h.id : h \in pull.files \ {f}}]

ItemDone(p, i) == pull' = [p EXCEPT !.todo = @ \ {i}]

\* The item is known under its id and matched as before: its file is updated.
Known(i, f) ==
    /\ f \in Cached(i[1]) /\ f.m = i[2]
    /\ files' = (files \ Row(f)) \cup {[g EXCEPT !.conn = pull.c] : g \in Row(f)}
    /\ ItemDone(pull, i) /\ UNCHANGED coll

\* The media has a file of this type under another id: the file takes the new
\* one, unless there is a file with it (the item fails, and its savepoint is undone).
\* The old id stays cached: old_source_id is read after the assignment.
Moved(t, p, i, f) ==
    LET taken == \E g \in t.files : g.m = i[2] /\ g.src = f.src /\ g.sid = i[1] /\ g.id # f.id IN
    /\ f \in {g \in p.by : g.m = i[2]}
    /\ IF taken THEN UNCHANGED <<files, coll>>
       ELSE Write([t EXCEPT !.files =
                {IF g.id = f.id THEN [g EXCEPT !.sid = i[1], !.conn = p.c] ELSE g : g \in t.files}])
    /\ ItemDone([p EXCEPT !.files = @ \cup {[f EXCEPT !.sid = i[1]]}, !.clean = @ /\ ~taken], i)

\* Mutant: the collection is looked up and not made.
NewIfCollected(t, p, i) ==
    LET m == i[2]
        twin == {f \in t.files : f.m = m /\ f.src = Type[p.c] /\ f.sid = i[1]}
        u == Added(t, m, Type[p.c], i[1], p.c)
    IN
    /\ \A g \in p.by : g.m # m
    /\ IF twin # {} \/ p.coll[m] = 0 \/ p.coll[m] # t.coll[m]
       THEN ItemDone([p EXCEPT !.clean = FALSE], i) /\ UNCHANGED <<files, coll>>
       ELSE /\ Write(u)
            /\ ItemDone([p EXCEPT !.coll[m] = u.coll[m]], i)

\* A new file; an insert under a cached collection that is gone fails, and so
\* does one of a file that a webhook has made meanwhile.
New(t, p, i) ==
    LET m == i[2]
        twin == {f \in t.files : f.m = m /\ f.src = Type[p.c] /\ f.sid = i[1]}
        u == Added(t, m, Type[p.c], i[1], p.c)
    IN
    /\ \A g \in p.by : g.m # m
    /\ IF twin # {} \/ (p.coll[m] # 0 /\ p.coll[m] # t.coll[m])
       THEN ItemDone([p EXCEPT !.clean = FALSE], i) /\ UNCHANGED <<files, coll>>
       ELSE /\ Write(u)
            /\ ItemDone([p EXCEPT !.coll[m] = u.coll[m]], i)

Place(t, p, i) == New(t, p, i) \/ (\E f \in p.by : Moved(t, p, i, f))

\* The id belonged to other media: that file and an empty collection are
\* evicted, and the item is placed like a new one.
Rematched(i, f) ==
    LET t == Dropped(Row(f))
        p == [Forget(f) EXCEPT !.coll[f.m] = IF t.coll[f.m] = 0 THEN 0 ELSE @]
    IN f \in Cached(i[1]) /\ f.m # i[2] /\ Place(t, p, i)

\* One item in its savepoint.  An item that fails for another reason leaves
\* the tables alone and counts as seen.
SyncItem(i) ==
    /\ ~Idle /\ i \in pull.todo
    /\ Unlocked({f \in files : \E g \in pull.files : g.id = f.id /\ (g.sid = i[1] \/ g.m = i[2])})
    /\ \/ (\E f \in pull.files : Known(i, f) \/ Rematched(i, f)) /\ UNCHANGED troubles
       \/ Cached(i[1]) = {} /\ Place(Tables, pull, i) /\ UNCHANGED troubles
       \/ /\ troubles < MaxTroubles /\ troubles' = troubles + 1
          /\ ItemDone([pull EXCEPT !.clean = FALSE], i) /\ UNCHANGED <<files, coll>>
    /\ crossed' = crossed \cup ({f.m : f \in {g \in files : \A h \in files' : h.id # g.id}}
                               \cap {f.m : f \in Locked})
    /\ slipped' = IF pull'.slip THEN slipped \cup {pull.c} ELSE slipped
    /\ doubled' = IF pull.clean THEN doubled ELSE doubled \cup Doubles(files')
    /\ UNCHANGED <<lib, reports, busy, changes, fixes, mirrored>>

Refused(rows, found) == MostlyGone(rows, found)

\* _remove_stale_collection_files reads this connection's files and deletes
\* those not seen, unless they are most of many.
Prune ==
    LET rows == {f \in files : f.conn = pull.c}
        stale == {f \in rows : f.sid \notin pull.seen}
        refused == Refused(rows, pull.seen)
        out == IF refused \/ pull.limited THEN {} ELSE stale
    IN
    /\ ~Idle /\ pull.phase = "items" /\ pull.todo = {} /\ Unlocked(out)
    /\ pull' = [pull EXCEPT !.phase = "prune", !.stale = out, !.last = Last(out),
                            !.clean = @ /\ ~refused]
    /\ mirrored' = IF pull.seen = Items(pull.c) \/ pull.limited \/ MostlyGone(rows, pull.seen)
                   THEN mirrored ELSE mirrored \ {pull.c}
    /\ crossed' = crossed \cup {f.m : f \in {g \in out : \E h \in busy : \E k \in h.rows : k.m = g.m}}
    /\ UNCHANGED <<lib, coll, files, reports, busy, bounds, slipped, doubled>>

\* The removals are committed and the pull is over.
Finish ==
    LET t == Removed(pull.stale, pull.last) IN
    /\ ~Idle /\ pull.phase = "prune"
    /\ (files \ t.files) \cap UNION {h.rows : h \in busy} = {}
    /\ Write(t)
    /\ mirrored' = IF pull.clean THEN mirrored \cup {pull.c} ELSE mirrored
    /\ slipped' = IF pull.clean /\ ~pull.slip THEN slipped \ {pull.c} ELSE slipped
    /\ pull' = NoPull
    /\ UNCHANGED <<lib, reports, busy, bounds, crossed, doubled>>

\* Cancelled at a checkpoint or failed: what is committed stays.
BreakOff ==
    /\ ~Idle /\ troubles < MaxTroubles
    /\ troubles' = troubles + 1
    /\ pull' = NoPull
    /\ UNCHANGED <<lib, coll, files, reports, busy, changes, fixes, mirrored, slipped, crossed, doubled>>

Crash ==
    /\ troubles < MaxTroubles
    /\ troubles' = troubles + 1
    /\ pull' = NoPull /\ busy' = {} /\ reports' = {}
    /\ UNCHANGED <<lib, coll, files, changes, fixes, mirrored, slipped, crossed, doubled>>

-----------------------------------------------------------------------------
(* The user.                                                               *)

Edited ==
    /\ troubles < MaxTroubles /\ troubles' = troubles + 1
    /\ UNCHANGED <<lib, reports, busy, changes, fixes, slipped, crossed, doubled>>

Disturb(p) == IF p = NoPull THEN p ELSE [p EXCEPT !.clean = FALSE]

\* collect: nothing is done for media that is in the collection already.
Collect(m) ==
    /\ coll[m] = 0
    /\ Write(Added(Tables, m, "manual", AnyId, None))
    /\ pull' = Disturb(pull) /\ Edited /\ UNCHANGED mirrored

\* uncollect deletes the collection, and its files with it, whoever made them.
Uncollect(ms) ==
    /\ (\E m \in ms : coll[m] # 0) /\ Unlocked(UNION {FilesOf(m) : m \in ms})
    /\ files' = {f \in files : f.m \notin ms}
    /\ coll' = [m \in Media |-> IF m \in ms THEN 0 ELSE coll[m]]
    /\ mirrored' = {}
    /\ pull' = Disturb(pull) /\ Edited

\* A connection is deleted and added again: its files are kept without one.
Reconnect(c) ==
    /\ troubles < MaxTroubles /\ pull.c # c /\ Unlocked(files)
    /\ troubles' = troubles + 1
    /\ files' = {IF f.conn = c THEN [f EXCEPT !.conn = None] ELSE f : f \in files}
    /\ mirrored' = mirrored \ {c}
    /\ UNCHANGED <<lib, coll, reports, busy, pull, changes, fixes, slipped, crossed, doubled>>

Change == \E c \in Conn, s \in Sid :
            Vanish(c, s) \/ (\E m \in Media : Appear(c, s, m) \/ Fix(c, s, m))
PullStep == (\E i \in (IF Idle THEN {} ELSE pull.todo) : SyncItem(i)) \/ Prune \/ Finish
Next ==
    \/ Change
    \/ \E r \in reports : Lose(r) \/ Handle(r)
    \/ \E h \in busy : Commit(h)
    \/ (\E c \in Conn : Pull(c)) \/ PullStep \/ BreakOff \/ Crash
    \/ (\E m \in Media : Collect(m) \/ Uncollect({m})) \/ Uncollect(Media)
    \/ \E c \in Conn : Reconnect(c)

Spec == Init /\ [][Next]_vars

\* Pulls are scheduled again and again for every connection and wait for the
\* others' in line; handlers at work end; a report arrives or is lost.
FairSpec ==
    /\ Spec
    /\ WF_vars(PullStep)
    /\ WF_vars(\E h \in busy : Commit(h))
    /\ WF_vars(\E r \in reports : Lose(r) \/ Handle(r))
    /\ \A c \in Conn : SF_vars(Pull(c))

-----------------------------------------------------------------------------
(* Properties.                                                             *)

FileRow == [id : Nat, m : Media, src : Source, sid : Sid, conn : Conn \cup {None}]

\* Every variable has its type; ids and files are unique, and a file has its
\* collection (the constraints of collection_files, which the model's steps
\* must respect as the database makes the code do).
TypeOK ==
    /\ lib \in [Conn -> [Sid -> Media \cup {None}]]
    /\ coll \in [Media -> Nat]
    /\ files \subseteq FileRow
    /\ \A f, g \in files : f.id = g.id \/ <<f.m, f.src, f.sid>> = <<g.m, g.src, g.sid>> => f = g
    /\ \A f \in files : coll[f.m] # 0
    /\ mirrored \subseteq Conn /\ crossed \subseteq Media

\* c's library and the files of c tell the same: every media on the server has
\* a file of c under an id it has there, and every file of c is of what its id is of
\* there.  Beside the right file one of other media may stand where something left
\* the two under one id: the map of a pull knows one file for an id, and which of
\* the two it is, is chance (ExactMirrors).
Right(c, f) == lib[c][f.sid] = f.m \/ <<f.src, f.sid>> \in doubled
Mirror(c) ==
    /\ \A m \in {lib[c][s] : s \in Items(c)} :
          \E f \in files : f.m = m /\ f.conn = c /\ lib[c][f.sid] = m
    /\ \A f \in files : f.conn = c => f.sid \in Items(c) /\ Right(c, f)

\* After a whole pull that no change, webhook or user crossed and in which no item
\* failed, the collection mirrors the server, and stays so whatever other connections' pulls and
\* webhooks do, until the server or the user changes something (sync_items
\* with its caches, re-matches, moved ids and duplicates; #139).  A later scan
\* that misses most of many files costs nothing (the circuit breaker).
\* Excepted are pulls that evict a file they have moved: see RematchMirrors.
PullMirrors == \A c \in mirrored \ slipped : Mirror(c)

\* The same, those ids included: no file of a re-matched item's old media is left,
\* which is what the eviction in sync_items and in the Plex webhook is for.  A report
\* of the addition that is handled as the item is matched anew, or later, makes the
\* old file all the same, and a pull that finds the new one under the id leaves both.
ExactMirrors == \A c \in mirrored \ slipped : \A f \in files : f.conn = c => lib[c][f.sid] = f.m

\* The same, those pulls included: the in-memory maps of sync_items stay consistent
\* when a file takes another id, as the comment in the code says.
RematchMirrors == \A c \in mirrored : Mirror(c)

\* A collection without a file, which nothing would ever remove, is left behind
\* only where two removals overlapped (_remove_collection_entry and
\* _remove_stale_collection_files count the files left before they commit).
EmptyOnlyCrossed == \A m \in Media : coll[m] # 0 /\ FilesOf(m) = {} => m \in crossed

\* The invariant behind EmptyOnlyCrossed.  What a transaction at work is to remove is
\* there and nobody else's; of two of one media the second saw the first; one that
\* will take the last files of a media knows its collection.  What a pull has cached
\* may have moved, and is of the media it was.
Report == [c : Conn, kind : {"added", "removed", "updated"}, sid : Sid, m : Media]
Handler == [r : Report, cid : Nat, rows : SUBSET FileRow, last : SUBSET (Media \X Nat)]
PullRec == [c : Conn, phase : {"items", "prune"}, todo : SUBSET (Sid \X Media), seen : SUBSET Sid,
            limited : BOOLEAN, files : SUBSET FileRow, by : SUBSET FileRow, coll : [Media -> Nat],
            stale : SUBSET FileRow, last : SUBSET (Media \X Nat), clean : BOOLEAN, slip : BOOLEAN]
TypeInv ==
    /\ TypeOK
    /\ reports \subseteq Report /\ busy \subseteq Handler /\ slipped \subseteq Conn
    /\ pull \in PullRec \cup {NoPull}
    /\ IsFiniteSet(files) /\ IsFiniteSet(busy) /\ \A h \in busy : IsFiniteSet(h.last)
    /\ ~Idle => IsFiniteSet(pull.files) /\ IsFiniteSet(pull.last)

Knows(rows, last) ==
    \A m \in Media : FilesOf(m) # {} /\ FilesOf(m) \subseteq rows
                     => m \in crossed \/ <<m, coll[m]>> \in last
Apart(rows, others) ==
    rows \cap others = {} /\ \A f \in rows, g \in others : f.m = g.m => f.m \in crossed
Held ==
    /\ \A h \in busy : h.rows \subseteq files /\ Knows(h.rows, h.last)
    /\ \A h, k \in busy : h # k => Apart(h.rows, k.rows)
    /\ ~Idle => /\ pull.stale \subseteq files /\ Knows(pull.stale, pull.last)
                /\ \A h \in busy : Apart(h.rows, pull.stale)
CacheTrue ==
    ~Idle => /\ pull.by \subseteq pull.files
             /\ pull.phase = "items" => pull.stale = {}
             /\ \A f \in pull.files : /\ f.src = Type[pull.c]
                                      /\ \A g \in files : f.id = g.id => f.m = g.m /\ f.src = g.src
LInv == TypeInv /\ EmptyOnlyCrossed /\ Held /\ CacheTrue

\* The invariant behind Right.  The ids with files of two media are known, and a pull
\* that nothing has crossed knows the files of the items it has still to do.
CacheWhole(s) ==
    /\ \A g \in files : g.src = Type[pull.c] /\ g.sid = s => \E f \in Cached(s) : f.id = g.id
    /\ \A f, h \in Cached(s) : f = h \/ <<Type[pull.c], s>> \in doubled
DInv ==
    /\ Doubles(files) \subseteq doubled /\ doubled \subseteq Source \X Sid
    /\ ~Idle => /\ \A i, j \in pull.todo : i[1] = j[1] => i = j
                /\ pull.clean => \A i \in pull.todo : CacheWhole(i[1])

\* The invariant behind PullMirrors, where no two connections are to servers of a kind.
OneEach == \A c, d \in Conn : Type[c] = Type[d] => c = d

Has(c, m) == \E s \in Items(c) : lib[c][s] = m
Shown(c, m) == \E f \in files : f.m = m /\ f.conn = c /\ lib[c][f.sid] = m
Sources ==
    /\ \A f \in files : f.conn # None => f.src = Type[f.conn]
    /\ \A h \in busy : \A f \in h.rows : f.src = Type[h.r.c]
    /\ ~Idle => \A f \in pull.stale : f.conn = pull.c
\* Nobody is about to delete the collection of what a mirrored server has.
Spared ==
    \A c \in mirrored \ slipped :
        /\ \A h \in busy : h.r.c # c => \A l \in h.last : ~Has(c, l[1])
        /\ ~Idle /\ pull.c # c => \A l \in pull.last : ~Has(c, l[1])
        /\ ~Idle /\ pull.c = c /\ pull.phase = "prune" => pull.stale = {} /\ pull.last = {}
\* A pull whose server has not changed does what the server says.
PullTrue ==
    ~Idle =>
        /\ pull.clean => busy = {} /\ pull.seen = Items(pull.c) /\ ~pull.limited
        /\ pull.slip => pull.c \in slipped
        /\ pull.clean \/ pull.c \in mirrored =>
              \A i \in pull.todo :
                 /\ lib[pull.c][i[1]] = i[2]
                 /\ \A f \in Cached(i[1]) : \A g \in Row(f) : g.sid = i[1] \/ lib[pull.c][g.sid] = g.m
\* What an undisturbed pull has done so far shows.
Progress ==
    ~Idle /\ pull.clean /\ ~pull.slip =>
        /\ \A f \in pull.files : \E g \in files : g.id = f.id
        /\ \A s \in Items(pull.c) :
              <<s, lib[pull.c][s]>> \in pull.todo \/ Shown(pull.c, lib[pull.c][s])
        /\ \A f \in files : f.conn = pull.c /\ f.sid \in Items(pull.c) =>
              Right(pull.c, f) \/ <<f.sid, lib[pull.c][f.sid]>> \in pull.todo
        /\ pull.phase = "prune" =>
              /\ pull.todo = {}
              /\ pull.stale = {f \in files : f.conn = pull.c /\ f.sid \notin Items(pull.c)}
              /\ \A l \in pull.last : FilesOf(l[1]) \subseteq pull.stale
MInv == PullMirrors /\ Sources /\ Spared /\ PullTrue /\ Progress

\* Every pull of c would refuse to remove what is gone.
Refuses(c) == MostlyGone({f \in files : f.conn = c}, Items(c))

\* What a server has is in the collection once an undisturbed pull of it is
\* done, whatever other connections' pulls and webhooks do.
ListedKept == \A c \in mirrored \ slipped : \A s \in Items(c) : coll[lib[c][s]] # 0

\* Once servers and user rest, the pulls make the collection mirror the servers,
\* for good, whatever was lost or crossed before; except where the
\* circuit breaker refuses, which it then does for ever.
Follows == <>[](\A c \in Conn : Mirror(c) \/ Refuses(c))
=============================================================================
