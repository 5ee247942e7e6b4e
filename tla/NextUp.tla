------------------------------- MODULE NextUp -------------------------------
(***************************************************************************)
(* What one user should watch next of one show (routers/history.py): the   *)
(* schedule TMDB or TheTVDB keeps editing, the snapshot of it on the show's *)
(* row, the episode rows with the air date they were written with, the     *)
(* plays, the rewatch cycle, and a load of Next Up that reads, fetches,    *)
(* writes and answers while all of these change.                           *)
(*                                                                         *)
(* Dates are days from today.  Days further back than the code looks again *)
(* are one: Long.  Episodes are <<season, number>>; specials are left out. *)
(***************************************************************************)
EXTENDS Integers, FiniteSets

CONSTANTS
    Room,           \* [season -> the most episodes it may have]
    Absent, Undated, None,
    Starts,         \* the shows to begin with: [source, sched, watched, cycle]
    Recheck,        \* _NEXT_UP_DATE_RECHECK_DAYS
    Ahead,          \* bound: how far ahead an episode is dated
    MaxEvents       \* bound: edits of the schedule, acts of the user, failed calls

Long == -(Recheck + 1)
Date == Long..Ahead
Ep == UNION {{s} \X (1..Room[s]) : s \in DOMAIN Room}
Schedule == [Ep -> Date \cup {Absent, Undated}]

ASSUME ConstantsAssumption ==
    /\ \A s \in DOMAIN Room : s \in Nat \ {0} /\ Room[s] \in Nat
    /\ {Recheck, Ahead, MaxEvents} \subseteq Nat

VARIABLES
    source,     \* who numbers the show: canonical_source
    sched,      \* what TMDB or TheTVDB says, and
    over,       \* whether it calls the show ended
    snap,       \* tmdb_data and status of the show
    row,        \* the episode rows: Absent, or the release_date
    watched,    \* the episodes with a completed watch event
    cycle,      \* the episodes of the active rewatch, or None
    hidden, dropped,
    load,       \* a Next Up request at work, with the show and the row as it read them
    card,       \* its last answer: None, or the episode and the episodes left
    bulk,       \* a job that marks the show watched: None, or what it will mark
    events      \* bound

show == <<source, sched, over>>
user == <<watched, cycle, hidden, dropped>>
vars == <<source, sched, over, snap, row, watched, cycle, hidden, dropped, load, card, bulk, events>>

------------------------------------------------------------------------------
(* The show.                                                                *)

Before(a, b) == a[1] < b[1] \/ (a[1] = b[1] /\ a[2] < b[2])
First(S) == CHOOSE e \in S : \A f \in S : ~Before(f, e)
Last(S) == CHOOSE e \in S : \A f \in S : ~Before(e, f)
FirstOf(S) == IF S = {} THEN None ELSE First(S)
LastOf(S) == IF S = {} THEN None ELSE Last(S)

IsAired(d) == d \notin {Absent, Undated} /\ d <= 0
IsAhead(d) == d \notin {Absent, Undated} /\ d > 0
Listed(s) == {e \in Ep : s[e] # Absent}
AiredIn(s) == {e \in Ep : IsAired(s[e])}
Count(S, s) == Cardinality({e \in S : e[1] = s})

\* Episodes are listed in order, and dated in order.
Orderly(s) ==
    \A a, b \in Ep : Before(a, b) /\ s[b] # Absent =>
        /\ s[a] # Absent
        /\ s[b] # Undated => s[a] # Undated /\ s[a] <= s[b]

\* apply_show_metadata: the next and the last episode are TMDB's at that moment.
Fetched == [seen |-> sched, next |-> FirstOf({e \in Ep : IsAhead(sched[e])}),
            last |-> LastOf(AiredIn(sched)), final |-> over, age |-> 0]
\* TheTVDB has no such episodes; the season list and the status are what is stored.
FetchedTvdb == [Fetched EXCEPT !.next = None, !.last = None]
Snapshot == IF source = "tmdb" THEN Fetched ELSE FetchedTvdb
\* A library pull writes the seasons and the status, and leaves the rest out.
Unstamped == [FetchedTvdb EXCEPT !.age = 2]

\* Mutant: a scheduled next episode is never looked at.
NeedsFetchWhenOld == source = "tmdb" /\ ~snap.final /\ snap.next = None /\ snap.age = 2

\* Whether the snapshot may be behind: 0 days old, about a day, over 26 hours.
NeedsFetch ==
    /\ source = "tmdb" /\ ~snap.final
    /\ IF snap.next # None /\ IsAired(snap.seen[snap.next]) THEN TRUE ELSE snap.age = 2

\* The listed episode after a position.
Following(s, pos) == FirstOf({e \in Listed(s) : Before(pos, e)})

\* Mutant: the count is not capped.
AiredOfAll(stored, data) == Listed(stored.seen)

\* capped_season_episode_counts: the stored seasons up to the last aired episode and
\* before the next one, both from data; with neither, the seasons of a running show
\* that have begun, and all of an ended one that are not still ahead.
AiredOf(stored, data) ==
    {e \in Listed(stored.seen) :
        LET premiere == stored.seen[<<e[1], 1>>] IN
        IF data.last = None /\ data.next = None
        THEN IsAired(premiere) \/ (stored.final /\ ~IsAhead(premiere))
        ELSE /\ data.last # None => ~Before(data.last, e)
             /\ data.next # None => Before(e, data.next)}

AiredTotal == Cardinality(AiredOf(snap, snap))

------------------------------------------------------------------------------
(* The user.                                                                *)

\* What counts as watched: the progress of an active rewatch, or the history.
Seen == IF cycle = None THEN watched ELSE cycle

\* The furthest watched episode; a rewatch starts before the first.
Position == IF cycle # None /\ cycle = {} THEN <<1, 0>> ELSE LastOf(Seen)

\* What a load counts: the history of a show that was on no rewatch when it began, else
\* the progress of the very rewatch it found, which is gone once that one has ended.
Counted ==
    CASE load.again = "no" -> watched
      [] load.again = "on" -> cycle
      [] load.again = "gone" -> {}

AtLeastOne(n) == IF n > 1 THEN n ELSE 1

\* _remaining_episode_stats: at least one; seen episodes are counted season by season,
\* and no more of them than have aired.
Left(aired) ==
    LET seen == {e \in aired : e[2] <= Count(Counted, e[1])}
    IN AtLeastOne(Cardinality(aired \ seen))

\* A rewatch that ends, or starts again, is a deleted row: what a load holds is its id.
Severed(ended) ==
    load' = IF ended /\ load # None /\ load.again = "on" THEN [load EXCEPT !.again = "gone"] ELSE load

\* A rewatch is over when it has as many episodes as have aired.
CycleWith(added) ==
    IF cycle = None \/ added = {} THEN cycle
    ELSE IF AiredTotal > 0 /\ Cardinality(cycle \cup added) >= AiredTotal THEN None
         ELSE cycle \cup added

\* Rows for episodes that had none, with the date they are listed with.
RowsWith(added) == [e \in Ep |-> IF e \in added /\ row[e] = Absent THEN sched[e] ELSE row[e]]

Init ==
    /\ \E st \in Starts :
        /\ source = st.source /\ sched = st.sched /\ watched = st.watched /\ cycle = st.cycle
        /\ row = [e \in Ep |-> IF e \in st.watched THEN st.sched[e] ELSE Absent]
    /\ over = FALSE
    /\ snap = Unstamped
    /\ hidden = FALSE /\ dropped = FALSE
    /\ load = None /\ card = None /\ bulk = None
    /\ events = 0

Event == events < MaxEvents /\ events' = events + 1
Fail(failed) == IF failed THEN Event ELSE UNCHANGED events

------------------------------------------------------------------------------
(* Time and the schedule.                                                   *)

Older(d) == IF d \in {Absent, Undated, Long} THEN d ELSE d - 1
Aged(s) == [e \in Ep |-> Older(s[e])]

Tick ==
    /\ sched' = Aged(sched) /\ row' = Aged(row)
    /\ snap' = [snap EXCEPT !.seen = Aged(@), !.age = IF @ = 2 THEN 2 ELSE @ + 1]
    /\ load' = IF load = None THEN None
               ELSE IF load.snap = None THEN load
               ELSE [load EXCEPT !.date = Older(@), !.snap.seen = Aged(@)]
    /\ UNCHANGED <<source, over, user, card, bulk, events>>

\* An episode is announced, dated, moved or undated; what was broadcast stays.
Reschedule ==
    /\ Event
    /\ \E e \in Ep, d \in {Undated} \cup 0..Ahead :
        /\ sched[e] \in {Absent, Undated, -1} \cup 0..Ahead
        /\ sched[e] = -1 => d # 0
        /\ Orderly([sched EXCEPT ![e] = d]) /\ sched' = [sched EXCEPT ![e] = d]
    /\ UNCHANGED <<source, over, snap, row, user, load, card, bulk>>

\* The show ends, or is revived.
EndOrRevive ==
    /\ Event
    /\ over' = ~over
    /\ UNCHANGED <<source, sched, snap, row, user, load, card, bulk>>

------------------------------------------------------------------------------
(* Who refreshes the snapshot and the rows.                                 *)

\* The daily sweep skips a show refreshed within 20 hours.
Sweep ==
    /\ snap.age > 0
    /\ snap' = Snapshot
    /\ UNCHANGED <<show, row, user, load, card, bulk, events>>

\* "Refresh from TMDB" on Next Up, for the shows the user has watched.
RefreshNextUp ==
    /\ source = "tmdb" /\ watched # {}
    /\ snap' = Fetched
    /\ UNCHANGED <<show, row, user, load, card, bulk, events>>

\* "Refresh metadata" on the show's page, by anyone, rewrites the episodes as well.
RefreshShow ==
    /\ snap' = Snapshot
    /\ row' = [e \in Ep |-> IF row[e] # Absent /\ sched[e] # Absent THEN sched[e] ELSE row[e]]
    /\ UNCHANGED <<show, user, load, card, bulk, events>>

\* A library pull, anyone's, fetches a running show and adds an episode.
PullShow ==
    /\ source = "tmdb"
    /\ snap' = IF snap.final THEN snap ELSE Unstamped
    /\ \E e \in Listed(sched) : row' = RowsWith({e})
    /\ UNCHANGED <<show, user, load, card, bulk, events>>

------------------------------------------------------------------------------
(* What the user does.                                                      *)

\* mark_as_watched, for an episode TMDB or TheTVDB lists.
Mark ==
    /\ Event
    /\ \E e \in Listed(sched) :
        /\ row' = RowsWith({e})
        /\ watched' = watched \cup {e}
        /\ cycle' = CycleWith({e})
    /\ Severed(cycle' = None)
    /\ UNCHANGED <<show, snap, hidden, dropped, card, bulk>>

\* Which episodes of a list a bulk mark takes: TMDB's need a date, TheTVDB's do not.
Takes(e) == IF source = "tmdb" THEN IsAired(sched[e]) ELSE sched[e] # Absent /\ ~IsAhead(sched[e])

AlreadyWatched == Seen

\* The plays of a bulk mark; progress is recorded event by event.
Played(added) ==
    /\ watched' = watched \cup added
    /\ cycle' = CycleWith(added)
    /\ Severed(cycle' = None)

MarkSeason ==
    /\ Event
    /\ \E s \in DOMAIN Room :
        LET taken == {e \in Ep : e[1] = s /\ Takes(e)} IN
        row' = RowsWith(taken) /\ Played(taken \ AlreadyWatched)
    /\ UNCHANGED <<show, snap, hidden, dropped, card, bulk>>

\* The background job reads the seasons of the snapshot (TheTVDB's own for a show it
\* numbers), fetches each and skips one that fails, and looks up what is watched.
BulkRead ==
    /\ Event
    /\ bulk = None
    /\ \E bad \in SUBSET DOMAIN Room :
           LET seasons == {e[1] : e \in Listed(IF source = "tmdb" THEN snap.seen ELSE sched)} \ bad
               taken == {e \in Ep : e[1] \in seasons /\ Takes(e)}
           IN bulk' = [taken |-> taken, added |-> taken \ AlreadyWatched]
    /\ UNCHANGED <<show, snap, row, user, load, card>>

BulkWrite ==
    /\ bulk # None
    /\ row' = RowsWith(bulk.taken) /\ Played(bulk.added) /\ bulk' = None
    /\ UNCHANGED <<show, snap, hidden, dropped, card, events>>

\* Events are deleted; what they recorded in the rewatch goes with them.
Unmark(gone) ==
    /\ watched' = watched \ gone
    /\ cycle' = IF cycle = None THEN None ELSE cycle \ gone
    /\ UNCHANGED <<show, snap, row, hidden, dropped, load, card, bulk>>

UnwatchSeason == Event /\ \E s \in DOMAIN Room : Unmark({e \in Ep : e[1] = s})

UnwatchItem == Event /\ \E e \in watched : Unmark({e})

\* One play, perhaps of several; the rewatch may stand on another.
DeleteEvent ==
    /\ Event
    /\ \E e \in watched, others \in BOOLEAN :
        /\ watched' = IF others THEN watched ELSE watched \ {e}
        /\ cycle' \in IF cycle = None THEN {None} ELSE {cycle \ {e}} \cup (IF others THEN {cycle} ELSE {})
    /\ UNCHANGED <<show, snap, row, hidden, dropped, load, card, bulk>>

\* unwatch_show and clear_history end the rewatch as well.
UnwatchShow ==
    /\ Event
    /\ watched' = {} /\ cycle' = None
    /\ Severed(TRUE)
    /\ UNCHANGED <<show, snap, row, hidden, dropped, card, bulk>>

\* Starting again discards the progress: the row is deleted and another one written.
StartRewatch ==
    /\ Event
    /\ cycle' = {}
    /\ Severed(TRUE)
    /\ UNCHANGED <<show, snap, row, watched, hidden, dropped, card, bulk>>

CancelRewatch ==
    /\ Event
    /\ cycle # None /\ cycle' = None
    /\ Severed(TRUE)
    /\ UNCHANGED <<show, snap, row, watched, hidden, dropped, card, bulk>>

DropShow ==
    /\ Event
    /\ dropped' = ~dropped
    /\ UNCHANGED <<show, snap, row, watched, cycle, hidden, load, card, bulk>>

HideShow ==
    /\ Event
    /\ hidden' = ~hidden
    /\ UNCHANGED <<show, snap, row, watched, cycle, dropped, load, card, bulk>>

------------------------------------------------------------------------------
(* A load of Next Up.  Its session keeps every object as it first read it: the *)
(* rewatches, the settings, the row it chose and that row's show.               *)

\* The first episode row after the position.
LocalNext(pos) == FirstOf({e \in Ep : row[e] # Absent /\ Before(pos, e)})

\* How old the show's metadata is no longer matters once it is read.
Held(s) == [s EXCEPT !.age = 0]

\* The load has chosen an episode's row; the show comes with it.
Choose(l, e, date, stored) == [l EXCEPT !.step = "check", !.ep = e, !.date = date, !.snap = Held(stored)]

Answer(c) == card' = c /\ load' = None

\* Settings, rewatches, position and row are read.  A dropped show is not looked up.
LoadRead ==
    /\ load = None
    /\ LET e == LocalNext(Position)
           begun == [step |-> "fetch", pos |-> Position, ep |-> None, date |-> Absent, snap |-> None,
                     again |-> IF cycle = None THEN "no" ELSE "on", out |-> hidden \/ dropped]
       IN CASE Position = None -> Answer(None)
            [] Position # None /\ e = None ->
                 IF dropped THEN Answer(None) ELSE load' = begun /\ UNCHANGED card
            [] Position # None /\ e # None ->
                 load' = Choose(begun, e, row[e], snap) /\ UNCHANGED card
    /\ UNCHANGED <<show, snap, row, user, bulk, events>>

\* TMDB, or TheTVDB for a show it numbers, has the episode.
Exists(e) == IF e = None THEN FALSE ELSE sched[e] # Absent

\* With no row to suggest, the next episode of the season list is looked up and gets a
\* row, or the one somebody else has just written.  The show is fetched first if its
\* snapshot may be behind; either call may fail.
LoadFetch(shown, found) ==
    /\ load # None /\ load.step = "fetch"
    /\ LET fresh == NeedsFetch /\ shown
           next == Following(IF fresh THEN sched ELSE snap.seen, load.pos)
           there == found /\ Exists(next)
       IN /\ NeedsFetch \/ shown
          /\ Fail(~shown \/ ~found)
          /\ snap' = IF fresh THEN Fetched ELSE snap
          /\ row' = IF there THEN RowsWith({next}) ELSE row
          /\ IF there THEN load' = Choose(load, next, row'[next], snap') /\ UNCHANGED card
             ELSE Answer(None)
    /\ UNCHANGED <<show, user, bulk>>

\* What is already watched: the history, or for a show found on a rewatch, the progress
\* of whatever rewatch it is on now.
Done == IF load.again = "no" THEN watched ELSE IF cycle = None THEN {} ELSE cycle

LoadCheck ==
    /\ load # None /\ load.step = "check"
    /\ IF load.ep \in Done THEN Answer(None)
       ELSE load' = [load EXCEPT !.step = "dates"] /\ UNCHANGED card
    /\ UNCHANGED <<show, snap, row, user, bulk, events>>

\* Mutant: a date that is set is trusted.
RechecksUndated(d) == source = "tmdb" /\ d = Undated

\* Undated episodes are asked about again, and those dated within the last few days.
Rechecks(d) == source = "tmdb" /\ (d = Undated \/ (d # Absent /\ d \in -Recheck..0))

Confirmed(d) == IsAired(d)

\* An episode that TMDB no longer has keeps its date.  An answer of TMDB's may be half an
\* hour old (tmdb.py caches responses), which a model of days does not tell from a new one.
Redated(e, answered) ==
    IF answered /\ Rechecks(load.date) /\ sched[e] # Absent THEN sched[e] ELSE load.date

\* The date the load read is brought up to date if TMDB answers, and decides; the row is
\* written if it differs.  A running show stored without its last episode is asked about
\* for the count.
LoadAnswer(answered) ==
    /\ load # None /\ load.step = "dates"
    /\ Fail(~answered)
    /\ LET e == load.ep
           now == Redated(e, answered)
       IN /\ Rechecks(load.date) \/ answered
          /\ row' = IF now # load.date THEN [row EXCEPT ![e] = now] ELSE row
          /\ \E data \in {load.snap} \cup (IF source = "tmdb" /\ load.snap.last = None /\ ~load.snap.final
                                         THEN {Fetched} ELSE {}) :
                Answer(IF ~load.out /\ Confirmed(now)
                       THEN [ep |-> e, left |-> Left(AiredOf(load.snap, data))] ELSE None)
    /\ UNCHANGED <<show, snap, user, bulk>>

Load ==
    \/ LoadRead \/ LoadCheck
    \/ \E shown, found \in BOOLEAN : LoadFetch(shown, found)
    \/ \E answered \in BOOLEAN : LoadAnswer(answered)

------------------------------------------------------------------------------
Next ==
    \/ Tick \/ Reschedule \/ EndOrRevive \/ Sweep \/ RefreshNextUp \/ RefreshShow \/ PullShow
    \/ Mark \/ MarkSeason \/ BulkRead \/ BulkWrite \/ UnwatchSeason \/ UnwatchItem \/ DeleteEvent
    \/ UnwatchShow \/ StartRewatch \/ CancelRewatch \/ DropShow \/ HideShow
    \/ Load

\* Days pass, and the page is loaded again and again; calls fail MaxEvents times at
\* the most.  Nothing is assumed of the sweep, or of anyone who refreshes.
Fairness == WF_vars(Tick) /\ WF_vars(Load)

Spec == Init /\ [][Next]_vars /\ Fairness

------------------------------------------------------------------------------
TypeOK ==
    /\ source \in {"tmdb", "tvdb"} /\ sched \in Schedule /\ over \in BOOLEAN
    /\ snap.seen \in Schedule /\ {snap.next, snap.last} \subseteq Ep \cup {None}
    /\ snap.age \in 0..2 /\ snap.final \in BOOLEAN
    /\ row \in Schedule /\ watched \subseteq Ep
    /\ cycle \in (SUBSET Ep) \cup {None} /\ {hidden, dropped} \subseteq BOOLEAN
    /\ load # None => /\ load.step \in {"fetch", "check", "dates"} /\ load.out \in BOOLEAN
                      /\ load.again \in {"no", "on", "gone"} /\ (load.again = "on" => cycle # None)
                      /\ IF load.step = "fetch" THEN load.ep = None
                         ELSE load.ep \in Ep /\ row[load.ep] # Absent
    /\ card # None => card.ep \in Ep /\ card.left \in 1..Cardinality(Ep)
    /\ bulk # None => bulk.added \subseteq bulk.taken /\ bulk.taken \subseteq Ep
    /\ events \in 0..MaxEvents

\* No episode is offered before it airs: not when its stored date has come and TMDB has
\* since moved it, not when it has no date.  Unless TMDB did not answer, or the date is
\* so far back that it is not looked at again.
ShownAired ==
    [][LoadAnswer(TRUE) /\ card' # None /\ source = "tmdb"
        => IsAired(sched[card'.ep]) \/ load.date = Long]_vars

\* A load that answers from a snapshot that says what TMDB says now, with nothing watched
\* before it aired.
WellInformed ==
    /\ load # None /\ card' # None /\ source = "tmdb"
    /\ load.snap = Fetched
    /\ Seen \subseteq AiredIn(sched)

\* Whether the rewatch, or that there is none, is as the load found it.
SameRewatch == load.again = IF cycle = None THEN "no" ELSE "on"

CountsNow == card'.left = AtLeastOne(Cardinality(AiredIn(sched) \ Seen))

\* Whatever is watched, unwatched, rescheduled and refreshed while the load is at work, a
\* card counts the aired episodes not yet seen, in this rewatch or ever, at the moment of
\* the answer: unless the rewatch has been started, restarted, cancelled or completed
\* since, which the count does not hear of.
LeftTrue == [][card' # card /\ WellInformed /\ SameRewatch => CountsNow]_vars

\* Kept beside it: what the card says whatever happens to the rewatch.
LeftOfNow == [][card' # card /\ WellInformed => CountsNow]_vars

\* The episode the user should see next: aired, the first after the last one seen, of a
\* show not put away.  Not owed where the code gives up knowingly: another row is next,
\* an ended show gains an episode nobody pulled, or TheTVDB's row has a wrong date.
Owed ==
    LET pos == Position
        e == Following(sched, pos)
        offered ==
            /\ ~hidden /\ ~dropped /\ pos # None /\ e # None
            /\ IsAired(sched[e])
            /\ row[e] = Absent => snap.seen[e] # Absent \/ (source = "tmdb" /\ ~snap.final)
            /\ source = "tvdb" => row[e] = Absent \/ IsAired(row[e])
            /\ LocalNext(pos) \in {None, e}
    IN IF offered THEN e ELSE None

\* Whatever the stored snapshot and the stored dates say, an episode that is owed is
\* offered in the end, though no sweep ever runs: from any moment on there comes one at
\* which nothing is owed, or the card offers what is.
Surfaces == []<>(Owed = None \/ (card # None /\ card.ep = Owed))
=============================================================================
