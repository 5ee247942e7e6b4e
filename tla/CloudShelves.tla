---------------------------- MODULE CloudShelves ---------------------------
(***************************************************************************)
(* The collection and its copies at Nuvio, Stremio, Trakt and MDBList.     *)
(* What the user collects or removes is told to every service at once, at  *)
(* best effort (routers/media.py, _fan_out_changes_to_other_connections    *)
(* in routers/sync.py); full pushes send what is missing; pulls bring what *)
(* was added at Nuvio and Stremio, and what Stremio says is gone.          *)
(*                                                                         *)
(* A film and a series with episodes.  The collection is of rows: the      *)
(* film, episodes, and the series itself, which only pulls add.  Nuvio and *)
(* Stremio keep titles: the series is there if any row of it is collected. *)
(* Nothing is pulled from Trakt or MDBList.                                *)
(***************************************************************************)
EXTENDS CloudMarks

CONSTANTS
    Film, Series, Episodes, \* rows; the first two are also the titles
    Seasons, Specials,      \* TMDB's seasons: sets of episodes; some are specials
    Displayed               \* the seasons of other orders of the show

ASSUME ShelfAssumption ==
    /\ Film # Series /\ Film \notin Episodes /\ Series \notin Episodes
    /\ UNION Seasons = Episodes /\ Specials \subseteq Seasons
    /\ \A d \in Displayed : d \subseteq Episodes /\ d # {}

Items == {Film, Series} \cup Episodes
Titles == {Film, Series}
TitleOf(i) == IF i \in Episodes THEN Series ELSE i
TitlesOf(I) == {TitleOf(i) : i \in I}
Alike(T) == {i \in Items : TitleOf(i) \in T}
Source == {"manual", "server"} \cup Conn
Never == {"never"}

VARIABLES
    shelf,      \* [Items -> the sources of its files]: collected if there are any
    exists,     \* episodes with a media row
    there,      \* [Conn -> what the service holds]
    gone,       \* [Conn -> titles Stremio marks as removed]
    fresh,      \* [Conn -> titles changed at Stremio since its cursor, or Never]
    pushed,     \* stremio_pushed_library_ids, or Never
    took,       \* [Conn -> what a pull at work has read]
    calls,      \* requests to services under way
    heard       \* history: rows last collected or removed here, with nothing at work,
                \* and told to every service

shelfVars == <<shelf, exists, there, gone, fresh, pushed, took, calls, heard>>
allVars == <<vars, shelfVars>>

Titled(c) == svc[c] \in {"nuvio", "stremio"}
OnShelf(files) == {i \in Items : files[i] # {}}

\* A new account, or one whose collection every service has.
Before == IF part = "shelf" THEN {{}, {Film} \cup Episodes} ELSE {{}}

ShelfInit ==
    /\ Init
    /\ \E I \in Before :
        /\ shelf = [i \in Items |-> IF i \in I THEN {"manual"} ELSE {}]
        /\ exists = I \ Titles /\ heard = I
        /\ there = [c \in Conn |-> IF Titled(c) THEN TitlesOf(I) ELSE I]
        /\ pushed = [c \in Conn |-> IF svc[c] = "stremio" /\ I # {} THEN TitlesOf(I) ELSE Never]
    /\ gone = [c \in Conn |-> {}] /\ fresh = [c \in Conn |-> Never]
    /\ took = [c \in Conn |-> NoJob] /\ calls = {}

-----------------------------------------------------------------------------
(* What is sent.                                                           *)

\* A title is known to Nuvio and Stremio by its IMDb id, which TMDB has to give: the
\* titles it gives it for, when some calls fail.
Lookups == SUBSET Titles

\* The titles that are sent for changed rows.
Targets(rows, named) == TitlesOf(rows) \cap named

\* The rows Trakt and MDBList take: no series for Trakt.
Sendable(c, rows) == IF svc[c] = "mdblist" THEN rows ELSE rows \ {Series}

\* The titles of the collection.
LibraryItems(files, named) == TitlesOf(OnShelf(files)) \cap named

CallOf(c, rows, add, del, cur) == [conn |-> c, rows |-> rows, add |-> add, del |-> del, cur |-> cur]

\* Mutant: a title goes when any row of it is removed.
NuvioDeltaAll(c, files, rows, added, named) ==
    LET changed == Targets(rows, named)
    IN CallOf(c, rows, IF added THEN changed ELSE {}, IF added THEN {} ELSE changed, {})

\* Of the titles of the changed rows, those still collected are added and the others removed.
NuvioDelta(c, files, rows, added, named) ==
    LET changed == Targets(rows, named)
        library == LibraryItems(files, named)
    IN CallOf(c, rows, changed \cap library, changed \ library, {})

TraktDelta(c, rows, added) ==
    CallOf(c, rows, IF added THEN rows \ {Series} ELSE {},
           IF added THEN {} ELSE rows \ {Series}, {})

MdblistDelta(c, rows, added) ==
    CallOf(c, rows, IF added THEN rows ELSE {}, IF added THEN {} ELSE rows, {})

\* Mutant: what was sent once is not sent again.
StremioCallNew(c, rows, library, target) ==
    LET before == IF pushed[c] = Never THEN {} ELSE pushed[c]
    IN CallOf(c, rows, (library \ before) \cap target, (before \ library) \cap target, library)

\* Removed are the titles of earlier pushes that are no longer collected.
StremioCall(c, rows, library, target) ==
    LET before == IF pushed[c] = Never THEN {} ELSE pushed[c]
    IN CallOf(c, rows, library \cap target, (before \ library) \cap target, library)

Delta(c, files, rows, added, named) ==
    CASE svc[c] = "nuvio" -> NuvioDelta(c, files, rows, added, named)
      [] svc[c] = "stremio" ->
            StremioCall(c, rows, LibraryItems(files, named), Targets(rows, named))
      [] svc[c] = "mdblist" -> MdblistDelta(c, rows, added)
      [] OTHER -> TraktDelta(c, rows, added)

\* There is nothing to send to the other services when no row can be sent; Stremio's
\* call remembers what is collected all the same.
Worth(call) == svc[call.conn] = "stremio" \/ call.add \cup call.del # {}

-----------------------------------------------------------------------------
(* The user's changes.                                                     *)

Pulling == {c \in Conn : took[c] # NoJob}
Room == Cardinality(Pulling) + Cardinality(calls) < MaxJobs[part]
Quiet == Pulling = {} /\ calls = {}

\* Stremio is told of what it has and was not told of before only if it stays.
Removable(files, rows) ==
    \A c \in Conn, t \in TitlesOf(rows) \ TitlesOf(OnShelf(files)) :
        svc[c] = "stremio" /\ t \in there[c] => pushed[c] # Never /\ t \in pushed[c]

\* The collection becomes files, and the services are told of the rows added or removed.
FanOut(files, rows, added, missed, named) ==
    /\ Change /\ Room
    /\ shelf' = files
    /\ calls' = calls \cup {call \in {Delta(c, files, rows, added, named) : c \in Conn} :
                              Worth(call)}
    /\ heard' = IF Quiet /\ named = Titles /\ Removable(files, rows)
                THEN heard \cup rows ELSE heard \ Alike(TitlesOf(rows))
    /\ Fail(named # Titles \/ missed # {})
    /\ UNCHANGED <<setup, mine, theirs, pull, push, word,
                   there, gone, fresh, pushed, took>>

\* A film or an episode that is not collected.  A manual file is the user's.
Collect(i, named) ==
    /\ i # Series /\ shelf[i] = {}
    /\ exists' = exists \cup ({i} \cap Episodes)
    /\ FanOut([shelf EXCEPT ![i] = {"manual"}], {i}, TRUE, {}, named)

\* The episodes of E when TMDB does not answer for the seasons missed: those with a row.
Resolved(E, missed) == {e \in E : e \in exists \/ \A s \in missed : e \notin s}

\* The rows made: whole seasons.
Made(E, missed) == UNION {s \in Seasons \ missed : s \cap E # {}}

\* Every episode gets a manual file, also one that has other files.
CollectEpisodes(E, missed, named) ==
    LET found == Resolved(E, missed) IN
    /\ found # {} /\ \A s \in missed : s \cap E # {}
    /\ exists' = exists \cup Made(E, missed)
    /\ FanOut([i \in Items |-> IF i \in found THEN shelf[i] \cup {"manual"} ELSE shelf[i]],
              found, TRUE, missed, named)

CollectSeason(E, missed, named) == E \in Seasons \cup Displayed /\ CollectEpisodes(E, missed, named)
CollectShow(missed, named) == CollectEpisodes(UNION (Seasons \ Specials), missed, named)

\* Removed with all of their files.
Removed(rows, named) ==
    /\ rows # {} /\ UNCHANGED exists
    /\ FanOut([i \in Items |-> IF i \in rows THEN {} ELSE shelf[i]], rows, FALSE, {}, named)

Uncollect(i, named) == i \in exists \cup Titles /\ Removed({i}, named)
UncollectSeason(E, named) == E \in Seasons \cup Displayed /\ Removed(E \cap exists, named)
UncollectShow(named) == Removed(exists, named)
ClearCollection(named) == Removed(OnShelf(shelf), named)

\* A pull from a media server adds or drops a file.
ServerFile(i) ==
    /\ Change /\ i # Series
    /\ shelf' = [shelf EXCEPT ![i] = IF "server" \in @ THEN @ \ {"server"} ELSE @ \cup {"server"}]
    /\ exists' = exists \cup ({i} \cap Episodes)
    /\ heard' = heard \ Alike({TitleOf(i)})
    /\ UNCHANGED <<setup, mine, theirs, pull, push, word, fails,
                   there, gone, fresh, pushed, took, calls>>

-----------------------------------------------------------------------------
(* The services.                                                           *)

\* Titles T change at c: a pull at work, and the next one, read them again.
Touched(c, T) ==
    /\ fresh' = [fresh EXCEPT ![c] = IF @ = Never THEN @ ELSE @ \cup T]
    /\ took' = IF took[c] = NoJob THEN took ELSE [took EXCEPT ![c].later = @ \cup T]

\* Nuvio takes a whole library: what was read, less what is removed, and what is added.
\* What the Nuvio app changes between that read and the write is lost, as if it had not
\* been done.
MergedLibrary(held, add, del) == (held \ del) \cup add

\* Stremio marks what is removed, if it has a record of it.
Stored(c, add, del) ==
    /\ there' = [there EXCEPT ![c] = MergedLibrary(@, add, del)]
    /\ gone' = [gone EXCEPT ![c] = IF svc[c] = "stremio"
                                   THEN (@ \cup (del \cap there[c])) \ add ELSE @]
    /\ IF svc[c] = "stremio" THEN Touched(c, (add \ there[c]) \cup (del \cap there[c]))
       ELSE UNCHANGED <<fresh, took>>

\* A call reaches the service or not, and its answer comes or not.
Send(call, did, ok) ==
    /\ call \in calls /\ (ok => did)
    /\ calls' = calls \ {call}
    /\ IF did THEN Stored(call.conn, call.add, call.del)
       ELSE UNCHANGED <<there, gone, fresh, took>>
    /\ pushed' = IF ok /\ svc[call.conn] = "stremio"
                 THEN [pushed EXCEPT ![call.conn] = call.cur] ELSE pushed
    /\ Fail(~ok)
    /\ heard' = IF ok THEN heard
                ELSE heard \ Alike(TitlesOf(call.rows \cup call.add \cup call.del))
    /\ UNCHANGED <<setup, mine, theirs, pull, push, word, changes, shelf, exists>>

\* A title is added or removed at Nuvio or Stremio.
ChangeThere(c, t) ==
    /\ Change /\ Titled(c)
    /\ IF t \in there[c] THEN Stored(c, {}, {t}) ELSE Stored(c, {t}, {})
    /\ heard' = heard \ Alike({t})
    /\ UNCHANGED <<setup, mine, theirs, pull, push, word, fails, shelf, exists, pushed, calls>>

-----------------------------------------------------------------------------
(* Full pushes and pulls.                                                  *)

\* Nothing is removed at Nuvio, Trakt or MDBList.  When Trakt's own collection cannot be
\* read all of it is sent, and what is there stays as it is.
NuvioFull(c, named) == CallOf(c, {}, LibraryItems(shelf, named), {}, {})
StremioFull(c, named) == StremioCall(c, {}, LibraryItems(shelf, named), Titles)
TraktFull(c) == CallOf(c, {}, Sendable(c, OnShelf(shelf)) \ there[c], {}, {})
MdblistFull(c) == CallOf(c, {}, Sendable(c, OnShelf(shelf)), {}, {})

Full(c, named) ==
    CASE svc[c] = "nuvio" -> NuvioFull(c, named)
      [] svc[c] = "stremio" -> StremioFull(c, named)
      [] svc[c] = "mdblist" -> MdblistFull(c)
      [] OTHER -> TraktFull(c)

FullPush(c, named) ==
    /\ Room /\ \A call \in calls : call.conn = c => call.rows # {}
    /\ calls' = calls \cup {Full(c, named)}
    /\ Fail(named # Titles)
    /\ heard' = heard \ Alike(Titles \ named)
    /\ UNCHANGED <<setup, mine, theirs, pull, push, word, changes,
                   shelf, exists, there, gone, fresh, pushed, took>>

\* What is read of a set of items: those in the library, and those marked as removed.
Records(c, items, complete) ==
    [at |-> "read", lib |-> there[c] \cap items, gone |-> gone[c] \cap items,
     complete |-> complete, later |-> {}]

\* Nuvio's whole library; of Stremio the items changed since the cursor, less five minutes,
\* or all of them: the first time and when the user asks for it.
PullShelf(c, items, complete) ==
    /\ Room /\ Titled(c) /\ took[c] = NoJob
    /\ svc[c] = "nuvio" => complete
    /\ IF complete THEN items = Titles ELSE fresh[c] # Never /\ fresh[c] \subseteq items
    /\ took' = [took EXCEPT ![c] = Records(c, items, complete)]
    /\ heard' = heard \ Alike(TitlesOf(UNION {call.rows : call \in calls}))
    /\ UNCHANGED <<setup, mine, theirs, pull, push, word, changes, fails,
                   shelf, exists, there, gone, fresh, pushed, calls>>

\* Stremio's files that it says are gone, or that a complete answer does not have.
CollectionSources(c, files) ==
    LET went(t) == t \in took[c].gone \/ (took[c].complete /\ t \notin took[c].lib)
    IN [i \in Items |-> IF svc[c] = "stremio" /\ i \in Titles /\ went(i)
                        THEN files[i] \ {c} ELSE files[i]]

\* The items ok succeed.  A job that breaks off removes nothing and keeps its cursor.
ApplyShelf(c, ok, clean) ==
    /\ took[c] # NoJob /\ ok \subseteq took[c].lib
    /\ LET files == [i \in Items |-> IF i \in ok THEN shelf[i] \cup {c} ELSE shelf[i]]
       IN shelf' = IF clean THEN CollectionSources(c, files) ELSE files
    /\ fresh' = [fresh EXCEPT ![c] = IF clean /\ svc[c] = "stremio" THEN took[c].later ELSE @]
    /\ took' = [took EXCEPT ![c] = NoJob]
    /\ Fail(~clean \/ ok # took[c].lib)
    /\ UNCHANGED <<setup, mine, theirs, pull, push, word, changes,
                   exists, there, gone, pushed, calls, heard>>

-----------------------------------------------------------------------------
ShelfStep ==
    \/ \E i \in Items, named \in Lookups : Collect(i, named)
    \/ \E E \in Seasons \cup Displayed, missed \in SUBSET Seasons, named \in Lookups :
            CollectSeason(E, missed, named)
    \/ \E missed \in SUBSET Seasons, named \in Lookups : CollectShow(missed, named)
    \/ \E i \in Items, named \in Lookups : Uncollect(i, named)
    \/ \E E \in Seasons \cup Displayed, named \in Lookups : UncollectSeason(E, named)
    \/ \E named \in Lookups : UncollectShow(named)
    \/ \E named \in Lookups : ClearCollection(named)
    \/ \E i \in Items : ServerFile(i)
    \/ \E call \in calls, did, ok \in BOOLEAN : Send(call, did, ok)
    \/ \E c \in Conn, t \in Titles : ChangeThere(c, t)
    \/ \E c \in Conn, named \in Lookups : FullPush(c, named)
    \/ \E c \in Conn, items \in SUBSET Titles, complete \in BOOLEAN :
            PullShelf(c, items, complete)
    \/ \E c \in Conn, ok \in SUBSET Titles, clean \in BOOLEAN : ApplyShelf(c, ok, clean)

ShelfNext ==
    \/ Next /\ UNCHANGED shelfVars
    \/ part = "shelf" /\ ShelfStep

ShelfSpec == ShelfInit /\ [][ShelfNext]_allVars

\* The scheduler starts every pull and full push again and again, and what is under way
\* ends.  For the other marks this is Fairness.
ShelfFairness ==
    \A c \in Conn :
        /\ SF_allVars(IF part = "shelf"
                      THEN \E items \in SUBSET Titles, complete \in BOOLEAN :
                                PullShelf(c, items, complete)
                      ELSE PullRead(c) /\ UNCHANGED shelfVars)
        /\ WF_allVars(IF part = "shelf"
                      THEN took[c] # NoJob /\ ApplyShelf(c, took[c].lib, TRUE)
                      ELSE PullApply(c, Media, TRUE) /\ UNCHANGED shelfVars)
        /\ SF_allVars(IF part = "shelf" THEN FullPush(c, Titles)
                      ELSE PushRead(c) /\ UNCHANGED shelfVars)
        /\ WF_allVars(IF part = "shelf"
                      THEN \E call \in calls : call.conn = c /\ Send(call, TRUE, TRUE)
                      ELSE /\ push[c] # NoJob /\ PushSend(c, push[c].plan, {})
                           /\ UNCHANGED shelfVars)

ShelfFairSpec == ShelfSpec /\ ShelfFairness

-----------------------------------------------------------------------------
ShelfTypeOK ==
    LET Call == [conn : Conn, rows : SUBSET Items, add : SUBSET Items, del : SUBSET Items,
                 cur : SUBSET Titles]
        Read == [at : {"read"}, lib : SUBSET Titles, gone : SUBSET Titles, complete : BOOLEAN,
                 later : SUBSET Titles]
    IN /\ TypeOK
       /\ shelf \in [Items -> SUBSET Source] /\ exists \subseteq Episodes /\ heard \subseteq Items
       /\ there \in [Conn -> SUBSET Items] /\ gone \in [Conn -> SUBSET Titles]
       /\ {fresh, pushed} \subseteq [Conn -> (SUBSET Titles) \cup {Never}]
       /\ took \in [Conn -> Read \cup {NoJob}]
       /\ calls \subseteq Call
       /\ \A call \in calls : Titled(call.conn) => call.add \cup call.del \subseteq Titles

TitleCollected(t) == t \in TitlesOf(OnShelf(shelf))

\* What row i is to service c, and whether that is collected: the title, or the row.
Name(c, i) == IF Titled(c) THEN TitleOf(i) ELSE i
Collected(c, i) == IF Titled(c) THEN TitleCollected(TitleOf(i)) ELSE shelf[i] # {}

\* A series is nothing to the services that take rows.
Takes(c, i) == Titled(c) \/ i # Series
InStep(c, i) == Takes(c, i) => (Name(c, i) \in there[c] <=> Collected(c, i))

\* What the user collected or removed here while nothing was at work is, once every service
\* has answered, the same everywhere, until it is changed somewhere else: a series leaves
\* Nuvio and Stremio with its last row and not before, and no pull brings back what was
\* removed.  Exempt are titles Stremio has and was not told of, which it keeps.
ShelfInStep ==
    \A i \in heard, c \in Conn :
        (\A call \in calls : i \notin Alike(TitlesOf(call.rows))) => InStep(c, i)

\* What is collected is at every service; what Nuvio has is collected; and what Stremio was
\* sent and has is collected.
ShelfAgreed(c) ==
    LET here == OnShelf(shelf)
    IN CASE svc[c] = "nuvio" -> there[c] = TitlesOf(here)
         [] svc[c] = "stremio" -> /\ TitlesOf(here) \subseteq there[c]
                                  /\ pushed[c] # Never
                                  /\ pushed[c] \cap there[c] \subseteq TitlesOf(here)
         [] OTHER -> Sendable(c, here) \subseteq there[c]

\* Whatever calls failed when a mark was made or an item was collected or removed, in the
\* end the account and the services agree.
AllSettle ==
    <>[](\A c \in Conn : IF part = "shelf" THEN ShelfAgreed(c) ELSE Agreed(c))

-----------------------------------------------------------------------------
(* What is invariant step by step, and ShelfInStep follows from            *)
(* (CloudShelvesProofs): of a row that was heard, every call under way     *)
(* sends what is collected, a service out of step has a call coming that   *)
(* sets it right, and a pull at work has read nothing else than what is    *)
(* collected.                                                              *)

CallsAgree ==
    \A i \in heard, call \in calls : Takes(call.conn, i) =>
        /\ Name(call.conn, i) \in call.add => Collected(call.conn, i)
        /\ Name(call.conn, i) \in call.del => ~Collected(call.conn, i)

CallsComing ==
    \A i \in heard, c \in Conn :
        \/ InStep(c, i)
        \/ \E call \in calls : /\ call.conn = c /\ TitleOf(i) \in TitlesOf(call.rows)
                              /\ Name(c, i) \in call.add \cup call.del

PullsAgree ==
    \A i \in heard, c \in Conn : took[c] # NoJob =>
        /\ TitleOf(i) \in took[c].lib => TitleCollected(TitleOf(i))
        /\ svc[c] = "stremio" /\ (TitleOf(i) \in took[c].gone
                                 \/ (took[c].complete /\ TitleOf(i) \notin took[c].lib))
                => ~TitleCollected(TitleOf(i))

GoneOrThere == \A c \in Conn : svc[c] = "stremio" => gone[c] \cap there[c] = {}

ShelfHeld == CallsAgree /\ CallsComing /\ PullsAgree /\ GoneOrThere
=============================================================================
