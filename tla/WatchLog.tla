------------------------------ MODULE WatchLog ------------------------------
(***************************************************************************)
(* How plays of one show's episodes reach the watch history: webhooks that *)
(* report a completed play, manual sessions that a user completes or the   *)
(* poller does, the duplicate check they share (core/watch_dedup.py), and  *)
(* the rewatch cycle each new event feeds (core/rewatch.py).               *)
(*                                                                         *)
(* A handler is one database transaction at work.  What it writes is seen  *)
(* by the others when it commits; the advisory lock of the duplicate check *)
(* and the rows it deleted stay locked until then.  Times are minutes of a *)
(* bounded clock.                                                          *)
(***************************************************************************)
EXTENDS Naturals, FiniteSets

CONSTANTS
    Media,        \* rows of the media table, all episodes of one show
    Episode,
    Ep,           \* [Media -> Episode]: two rows may be the same episode
    Worker,       \* request handlers
    Poller,       \* the task that completes manual sessions
    Window,       \* duplicate_watch_window_minutes, at least 5
    Latency,      \* the longest a transaction takes, at most half the window
    Runtime,      \* of every episode
    Total,        \* total_aired_episodes of the show
    SharedPlays,  \* may a media server report the viewing of a manual session?
    MaxPlays,     \* bound: viewings
    MaxTime,      \* bound: the clock
    MaxRewatch,   \* bound: rewatch cycles started
    MaxOther      \* bound: heartbeats, dismissals, unwatches, partial plays, crashes

Handler == Worker \cup {Poller}
NoOne == "no one"
Play == 1..MaxPlays
Time == 0..MaxTime

ASSUME ConstantsAssumption ==
    /\ Ep \in [Media -> Episode]
    /\ NoOne \notin Handler \cup Episode /\ Poller \notin Worker
    /\ Window \in Nat /\ Latency \in Nat /\ 2 * Latency <= Window /\ Runtime \in Nat /\ Total \in Nat \ {0}
    /\ SharedPlays \in BOOLEAN
    /\ {MaxPlays, MaxTime, MaxRewatch, MaxOther} \subseteq Nat

VARIABLES
    now,
    events,     \* completed watch_events: set of Event
    partial,    \* watch_events with completed = False: set of <<media, at>>
    session,    \* manual playback_sessions: [Media -> Session]
    rewatch,    \* show_rewatches and the events of its rewatch_progress
    lock,       \* the advisory locks: [Media -> Handler or NoOne]
    tx,         \* [Handler -> Tx]
    seen,       \* history: the viewings, when the first report of each came
    dismissed,  \* history: the viewings whose session was dismissed
    reported,   \* history: <<episode, at>> of the reports handled
    used, other

vars == <<now, events, partial, session, rewatch, lock, tx, seen, dismissed, reported, used, other>>

Event == [media : Media, at : Time, play : Play, by : Handler]   \* by: tells rows apart
NoSession == [play |-> 0, prog |-> 0, upd |-> 0, state |-> "none"]
Session == [play : 0..MaxPlays, prog : 0..Runtime, upd : Time, state : {"none", "playing", "paused"}]
Idle == [stage |-> "idle", kind |-> "webhook", at |-> 0, todo |-> {}, buf |-> {}, gone |-> {},
         rec |-> {}, rw |-> 0, prog |-> {}, fin |-> FALSE, due |-> {}]
Tx == [stage : {"idle", "check", "record", "after"}, kind : {"webhook", "complete", "poll"},
       at : Time,                   \* when it began
       todo : SUBSET (Media \X Play),   \* plays still to check
       buf : SUBSET Event,          \* events it inserted, not committed
       gone : SUBSET Media,         \* sessions it deleted, not committed
       rec : SUBSET Event,          \* events to record in the rewatch
       rw : 0..MaxRewatch,          \* the active rewatch it has read
       prog : SUBSET Event,         \* progress rows it inserted, by their events
       fin : BOOLEAN,               \* it deleted the completed rewatch
       due : SUBSET (Episode \X Time)]  \* history: its reports

TypeOK ==
    /\ now \in Time
    /\ events \in SUBSET Event
    /\ partial \in SUBSET (Media \X Time)
    /\ session \in [Media -> Session]
    /\ rewatch \in [id : 0..MaxRewatch, on : BOOLEAN, done : SUBSET Event]
    /\ lock \in [Media -> Handler \cup {NoOne}]
    /\ tx \in [Handler -> Tx]
    /\ seen \in [Play -> [ep : Episode \cup {NoOne}, at : Time]]
    /\ dismissed \in SUBSET Play
    /\ reported \in SUBSET (Episode \X Time)
    /\ used \in 0..MaxPlays
    /\ other \in 0..MaxOther

Near(a, b) == a <= b + Window /\ b <= a + Window
Busy(h) == tx[h].stage # "idle"
RowFree(m, h) == \A g \in Handler \ {h} : m \notin tx[g].gone
Rarely == other < MaxOther /\ other' = other + 1

\* A viewing of episode e begins to be known.
NewPlay(e, t) ==
    /\ used < MaxPlays
    /\ used' = used + 1
    /\ seen' = [seen EXCEPT ![used + 1] = [ep |-> e, at |-> t]]

-----------------------------------------------------------------------------
(* Requests that start a transaction.                                      *)

\* A media server reports that a viewing of m completed: a new one, or one
\* reported less than Window ago (Plex sends scrobble, then stop).
Webhook(w, m) ==
    /\ ~Busy(w)
    /\ \E p \in Play :
        /\ \/ p = used + 1 /\ NewPlay(Ep[m], now)
           \/ /\ p <= used /\ seen[p].ep = Ep[m] /\ Near(seen[p].at, now)
              /\ UNCHANGED <<used, seen>>
        /\ tx' = [tx EXCEPT ![w] = [Idle EXCEPT !.stage = "check", !.kind = "webhook", !.at = now,
                                                !.todo = {<<m, p>>}]]
    /\ UNCHANGED <<now, events, partial, session, rewatch, lock, dismissed, reported, other>>

\* POST /session/{key}/complete finds its session.
CompleteSession(w, m) ==
    /\ ~Busy(w)
    /\ session[m].play # 0
    /\ tx' = [tx EXCEPT ![w] = [Idle EXCEPT !.stage = "check", !.kind = "complete", !.at = now,
                                            !.todo = {<<m, session[m].play>>}]]
    /\ UNCHANGED <<now, events, partial, session, rewatch, lock, seen, dismissed, reported, used, other>>

\* The sessions whose runtime has elapsed since the last heartbeat.
DueSession(m) ==
    /\ session[m].state = "playing"
    /\ session[m].prog + (now - session[m].upd) >= Runtime

\* auto_complete_manual_sessions reads every due session at once.
Poll ==
    LET due == {m \in Media : DueSession(m)} IN
    /\ ~Busy(Poller)
    /\ due # {}
    /\ tx' = [tx EXCEPT ![Poller] = [Idle EXCEPT !.stage = "check", !.kind = "poll", !.at = now,
                                                 !.todo = {<<m, session[m].play>> : m \in due}]]
    /\ UNCHANGED <<now, events, partial, session, rewatch, lock, seen, dismissed, reported, used, other>>

-----------------------------------------------------------------------------
(* The steps of a transaction.                                             *)

\* Mutant of Duplicate: plays that were never finished count as well.
DuplicateOfPartial(m, t, own) ==
    \/ \E e \in events \cup own : Ep[e.media] = Ep[m] /\ Near(e.at, t)
    \/ \E q \in partial : Ep[q[1]] = Ep[m] /\ Near(q[2], t)

\* Mutant of Duplicate: only plays before this one are looked for.
DuplicateBefore(m, t, own) ==
    \E e \in events \cup own : Ep[e.media] = Ep[m] /\ e.at < t /\ Near(e.at, t)

\* find_duplicate_watch_event: committed rows of the same episode and the
\* transaction's own.
Duplicate(m, t, own) ==
    \E e \in events \cup own : Ep[e.media] = Ep[m] /\ Near(e.at, t)

\* Mutant of LockFree: nobody waits.
LockNone(m, h) == TRUE

\* _acquire_dedup_lock can be taken: on the row itself, not on its siblings.
LockFree(m, h) == lock[m] \in {NoOne, h}

\* The event of a play is dated when the report came, or when the request is handled.
When(h) == IF tx[h].kind = "complete" THEN now ELSE tx[h].at
Watched(h, q) == [media |-> q[1], at |-> When(h), play |-> q[2], by |-> h]

\* Whether a session of the viewing's media is deleted: by the poller only the one it read,
\* by its id; by a user who completes one whichever is there, as its key names the media.
Ended(kind, q) ==
    \/ kind = "complete" /\ session[q[1]].play # 0
    \/ kind = "poll" /\ session[q[1]].play = q[2]

\* The session row is deleted; the lock of m is waited for, then the history is read and
\* the event inserted unless it is a duplicate.
Check(h) ==
    \E q \in tx[h].todo :
        LET x == tx[h]
            m == q[1]
            new == IF Duplicate(m, When(h), x.buf) THEN {} ELSE {Watched(h, q)}
            ends == IF Ended(x.kind, q) THEN {m} ELSE {}
        IN
        /\ x.stage = "check"
        /\ LockFree(m, h) /\ RowFree(m, h)
        /\ lock' = [lock EXCEPT ![m] = h]
        /\ tx' = [tx EXCEPT ![h] =
               [x EXCEPT !.todo = x.todo \ {q}, !.buf = x.buf \cup new, !.rec = x.rec \cup new,
                         !.gone = x.gone \cup ends, !.due = x.due \cup {<<Ep[m], When(h)>>},
                         !.rw = IF rewatch.on THEN rewatch.id ELSE 0,
                         !.stage = IF x.kind = "webhook" THEN "record" ELSE "check"]]
        /\ UNCHANGED <<now, events, partial, session, rewatch, seen, dismissed, reported, used, other>>

\* Nobody holds the rewatch row for writing, or nobody holds it at all.
RewatchShared(h) == \A g \in Handler \ {h} : ~tx[g].fin
RewatchFree(h) == \A g \in Handler \ {h} : tx[g].prog = {}

\* A transaction ends: locks and rows are let go.
Release(h) == lock' = [m \in Media |-> IF lock[m] = h THEN NoOne ELSE lock[m]]
Abort(h) ==
    /\ Release(h)
    /\ tx' = [tx EXCEPT ![h] = Idle]
    /\ UNCHANGED <<now, events, partial, session, rewatch, seen, dismissed, reported, used, other>>

MediaOf(rows) == {e.media : e \in rows}

\* record_rewatch_progress for one event, and _maybe_complete_rewatch, which
\* counts the progress rows it can see.  A row of the same media stays; one not
\* yet committed is waited for.
Record(h) ==
    \E e \in tx[h].rec :
        LET x == tx[h]
            had == rewatch.done \cup x.prog
            new == IF e.media \in MediaOf(had) THEN {} ELSE {e}
            all == Cardinality(MediaOf(had \cup {e})) >= Total
        IN
        /\ x.stage \in {"record", "after"}
        /\ x.rw # 0 /\ rewatch.on /\ rewatch.id = x.rw /\ ~x.fin
        /\ e \in events \cup x.buf
        /\ RewatchShared(h) /\ \A g \in Handler \ {h} : e.media \notin MediaOf(tx[g].prog)
        /\ all => RewatchFree(h)
        /\ tx' = [tx EXCEPT ![h] =
               [x EXCEPT !.rec = x.rec \ {e}, !.prog = x.prog \cup new, !.fin = all]]
        /\ UNCHANGED <<now, events, partial, session, rewatch, lock, seen, dismissed, reported, used, other>>

\* The rewatch or the event it would refer to was deleted since it was read:
\* the insert breaks a foreign key and the transaction is lost.
RecordFails(h) ==
    /\ tx[h].stage \in {"record", "after"}
    /\ tx[h].rec # {} /\ tx[h].rw # 0 /\ ~tx[h].fin
    /\ \/ ~rewatch.on \/ rewatch.id # tx[h].rw
       \/ \E e \in tx[h].rec : e \notin events \cup tx[h].buf
    /\ Abort(h)

\* What the transaction did to the rewatch, as the others see it.
RewatchAfter(h) ==
    IF tx[h].fin THEN [rewatch EXCEPT !.on = FALSE, !.done = {}]
    ELSE IF rewatch.on /\ rewatch.id = tx[h].rw THEN [rewatch EXCEPT !.done = @ \cup tx[h].prog]
    ELSE rewatch

\* The poller commits only if it has inserted something; what it did to the
\* duplicates' sessions is rolled back otherwise.
Publishes(h) == tx[h].kind # "poll" \/ tx[h].buf # {}

\* A webhook's transaction ends with its event and its rewatch progress.
\* The others commit the event first and record it in a second transaction.
Commit(h) ==
    /\ \/ tx[h].stage = "check" /\ tx[h].todo = {}
       \/ tx[h].stage \in {"record", "after"} /\ (tx[h].rec = {} \/ tx[h].rw = 0 \/ tx[h].fin)
    /\ Release(h)
    /\ IF Publishes(h) \/ tx[h].stage = "after"
       THEN /\ events' = events \cup tx[h].buf
            /\ session' = [m \in Media |-> IF m \in tx[h].gone THEN NoSession ELSE session[m]]
            /\ reported' = reported \cup tx[h].due
       ELSE UNCHANGED <<events, session, reported>>
    /\ rewatch' = RewatchAfter(h)
    /\ tx' = [tx EXCEPT ![h] = IF tx[h].stage = "check" /\ tx[h].buf # {}
                               THEN [Idle EXCEPT !.stage = "after", !.kind = tx[h].kind, !.at = tx[h].at,
                                                 !.rec = tx[h].buf,
                                                 !.rw = IF rewatch.on THEN rewatch.id ELSE 0]
                               ELSE Idle]
    /\ UNCHANGED <<now, partial, seen, dismissed, used, other>>

-----------------------------------------------------------------------------
(* Short requests, each a transaction of its own.                          *)

StartSession(m) ==
    /\ RowFree(m, NoOne)
    /\ NewPlay(IF SharedPlays THEN Ep[m] ELSE NoOne, now)
    /\ session' = [session EXCEPT ![m] = [play |-> used + 1, prog |-> 0, upd |-> now, state |-> "playing"]]
    /\ UNCHANGED <<now, events, partial, rewatch, lock, tx, dismissed, reported, other>>

Heartbeat(m, g, st) ==
    /\ Rarely
    /\ RowFree(m, NoOne) /\ session[m].play # 0
    /\ session' = [session EXCEPT ![m].prog = g, ![m].upd = now, ![m].state = st]
    /\ UNCHANGED <<now, events, partial, rewatch, lock, tx, seen, dismissed, reported, used>>

\* Dismissed by a user who has not asked for it to be completed too.
Dismiss(m) ==
    LET p == session[m].play IN
    /\ Rarely
    /\ RowFree(m, NoOne) /\ p # 0
    /\ session' = [session EXCEPT ![m] = NoSession]
    /\ dismissed' = IF \E w \in Worker : <<m, p>> \in tx[w].todo THEN dismissed ELSE dismissed \cup {p}
    /\ UNCHANGED <<now, events, partial, rewatch, lock, tx, seen, reported, used>>

\* A pull that found a play count on something still being watched.
PullPartial(m) ==
    /\ Rarely
    /\ partial' = partial \cup {<<m, now>>}
    /\ UNCHANGED <<now, events, session, rewatch, lock, tx, seen, dismissed, reported, used>>

\* _handle_unwatch_toggle: during a rewatch only the cycle's progress goes.
Unwatch(m) ==
    /\ Rarely
    /\ IF rewatch.on
       THEN /\ rewatch' = [rewatch EXCEPT !.done = {e \in @ : e.media # m}]
            /\ UNCHANGED <<events, partial, tx, reported>>
       ELSE /\ events' = {e \in events : e.media # m}
            /\ partial' = {q \in partial : q[1] # m}
            /\ tx' = [h \in Handler |-> [tx[h] EXCEPT !.due = {d \in @ : d[1] # Ep[m]}]]
            /\ reported' = {d \in reported : d[1] # Ep[m]}
            /\ UNCHANGED rewatch
    /\ UNCHANGED <<now, session, lock, seen, dismissed, used>>

\* POST /history/rewatch starts a cycle or restarts the active one; it waits
\* for transactions that refer to the row.
StartRewatch ==
    /\ rewatch.id < MaxRewatch
    /\ RewatchFree(NoOne) /\ RewatchShared(NoOne)
    /\ rewatch' = [id |-> rewatch.id + 1, on |-> TRUE, done |-> {}]
    /\ UNCHANGED <<now, events, partial, session, lock, tx, seen, dismissed, reported, used, other>>

CancelRewatch ==
    /\ rewatch.on
    /\ Rarely
    /\ RewatchFree(NoOne) /\ RewatchShared(NoOne)
    /\ rewatch' = [rewatch EXCEPT !.on = FALSE, !.done = {}]
    /\ UNCHANGED <<now, events, partial, session, lock, tx, seen, dismissed, reported, used>>

\* Deletes the rows Jellyfin and Emby pulls left that were never completed.
HealStuck ==
    /\ partial # {}
    /\ partial' = {}
    /\ UNCHANGED <<now, events, session, rewatch, lock, tx, seen, dismissed, reported, used, other>>

\* The times of an episode's rows; those each at most w after the one before are
\* one cluster.
Times(ep) == {e.at : e \in {f \in events : Ep[f.media] = ep}}
             \cup {q[2] : q \in {r \in partial : Ep[r[1]] = ep}}
Chained(ep, w, s, t) ==
    \A a \in Times(ep) : s <= a /\ a < t => \E b \in Times(ep) : a < b /\ b <= a + w /\ b <= t
Clusters(w) ==
    UNION {{[whole |-> {e \in events : /\ Ep[e.media] = ep
                                       /\ Chained(ep, w, t, e.at) /\ Chained(ep, w, e.at, t)},
             part |-> {q \in partial : /\ Ep[q[1]] = ep
                                       /\ Chained(ep, w, t, q[2]) /\ Chained(ep, w, q[2], t)}]
            : t \in Times(ep)} : ep \in Episode}

\* The user collapses rows within w minutes of each other: of each cluster stays a
\* completed row (which one depends on how they were recorded), or the first.  The
\* rewatch progress of the others goes with them.
HealDuplicates(w, kept, left) ==
    /\ Rarely
    /\ \A c \in Clusters(w) :
          IF c.whole # {} THEN Cardinality(kept \cap c.whole) = 1 /\ left \cap c.part = {}
          ELSE \E q \in c.part : left \cap c.part = {q} /\ \A r \in c.part : q[2] <= r[2]
    /\ \A h \in Handler : tx[h].prog \cap events \subseteq kept
    /\ events' = kept /\ partial' = left
    /\ rewatch' = [rewatch EXCEPT !.done = @ \cap kept]
    /\ LET healed == {Ep[m] : m \in MediaOf(events \ kept)} IN
       /\ tx' = [h \in Handler |-> [tx[h] EXCEPT !.due = {d \in @ : d[1] \notin healed}]]
       /\ reported' = {d \in reported : d[1] \notin healed}
    /\ UNCHANGED <<now, session, lock, seen, dismissed, used>>

Crash ==
    /\ Rarely
    /\ \E h \in Handler : Busy(h)
    /\ lock' = [m \in Media |-> NoOne]
    /\ tx' = [h \in Handler |-> Idle]
    /\ UNCHANGED <<now, events, partial, session, rewatch, seen, dismissed, reported, used>>

\* Transactions are short next to the window.
Tick ==
    /\ now < MaxTime
    /\ \A h \in Handler : Busy(h) => now < tx[h].at + Latency
    /\ now' = now + 1
    /\ UNCHANGED <<events, partial, session, rewatch, lock, tx, seen, dismissed, reported, used, other>>

Init ==
    /\ now = 0
    /\ events = {} /\ partial = {}
    /\ session = [m \in Media |-> NoSession]
    /\ rewatch = [id |-> 0, on |-> FALSE, done |-> {}]
    /\ lock = [m \in Media |-> NoOne]
    /\ tx = [h \in Handler |-> Idle]
    /\ seen = [p \in Play |-> [ep |-> NoOne, at |-> 0]]
    /\ dismissed = {} /\ reported = {}
    /\ used = 0 /\ other = 0

Next ==
    \/ \E w \in Worker, m \in Media : Webhook(w, m) \/ CompleteSession(w, m)
    \/ Poll
    \/ \E h \in Handler : Check(h) \/ Record(h) \/ RecordFails(h) \/ Commit(h)
    \/ \E m \in Media : StartSession(m) \/ Dismiss(m) \/ PullPartial(m) \/ Unwatch(m)
    \/ \E m \in Media, g \in 0..Runtime, st \in {"playing", "paused"} : Heartbeat(m, g, st)
    \/ StartRewatch \/ CancelRewatch \/ HealStuck \/ Crash \/ Tick
    \/ \E w \in 1..MaxTime, kept \in SUBSET events, left \in SUBSET partial :
            HealDuplicates(w, kept, left)

Spec == Init /\ [][Next]_vars

-----------------------------------------------------------------------------
(* Properties.                                                             *)

\* One viewing is one row of the history, however many reports of it there
\* are and however their handlers interleave.
OnePlayOneEvent == \A e, f \in events : e.play = f.play => e = f

\* A report that was handled is in the history, as its own event or as one
\* of the same episode within the window, until the user unwatches it: what
\* was taken for a duplicate really is in the history.
ReportsKept == \A d \in reported : \E e \in events : Ep[e.media] = d[1] /\ Near(e.at, d[2])

\* Two events of one episode within the window are never both there.
WindowHolds == \A e, f \in events : Ep[e.media] = Ep[f.media] /\ Near(e.at, f.at) => e = f

\* A session its user dismissed does not become a play.
DismissedNotWatched == \A e \in events : e.play \notin dismissed

\* The poller's pass ends the sessions it found due, whether their plays
\* were new or already in the history.
PollEndsSessions ==
    [][Commit(Poller) /\ tx[Poller].stage = "check"
        => \A m \in tx[Poller].gone : session'[m] = NoSession]_vars

\* What counts for a rewatch was watched, and counts once: every episode the
\* cycle has counted is still in the history, and no other row counts it again.
RewatchBacked ==
    /\ rewatch.done \subseteq events
    /\ \A e, f \in rewatch.done : e.media = f.media => e = f

\* Collapsing duplicates costs the rewatch nothing: what it has counted is still
\* counted (the row that counted may be the one that goes).
HealKeepsProgress ==
    [][(\E w \in 1..MaxTime, kept \in SUBSET events, left \in SUBSET partial :
           HealDuplicates(w, kept, left)) => MediaOf(rewatch'.done) = MediaOf(rewatch.done)]_vars

\* A rewatch whose every episode has been watched is over, once the
\* handlers at work are done.
RewatchEnds ==
    (rewatch.on /\ \A h \in Handler : ~Busy(h)) => Cardinality(MediaOf(rewatch.done)) < Total
-----------------------------------------------------------------------------
(* What is invariant step by step (WatchLogProofs).                        *)

\* No episode has two rows; with two, their locks differ (WatchLog_siblings.cfg).
OneRow == \A m, n \in Media : Ep[m] = Ep[n] => m = n

\* A session that plays is of some viewing.
SessionsPlay == \A m \in Media : session[m].play = 0 => session[m].state = "none"

\* A report at work is in the history, or among what its transaction will commit.
DueKept ==
    \A h \in Handler : \A d \in tx[h].due :
        \E e \in events \cup tx[h].buf : Ep[e.media] = d[1] /\ Near(e.at, d[2])

\* Who has an event to commit holds the lock of its row.
Held == \A h \in Handler : \A e \in tx[h].buf : lock[e.media] = h

\* What each transaction sees keeps the window.
Spaced ==
    \A h \in Handler : \A e, f \in events \cup tx[h].buf :
        Ep[e.media] = Ep[f.media] /\ Near(e.at, f.at) => e = f

\* Where viewing p is known as one of m.
Knows(m, p) ==
    \/ session[m].play = p
    \/ \E e \in events : e.media = m /\ e.play = p
    \/ \E h \in Handler : \/ <<m, p>> \in tx[h].todo
                          \/ \E e \in tx[h].buf : e.media = m /\ e.play = p

\* A viewing is known before it is one of any row, and is one of a single row; that
\* of a manual session is of no episode as far as a media server could tell.
PlaysKnown ==
    /\ \A p \in Play : seen[p].at <= now
    /\ \A m \in Media, p \in Play :
        /\ Knows(m, p) => p <= used /\ seen[p].ep \in {Ep[m], NoOne}
        /\ session[m].play = p => seen[p].ep = NoOne
        /\ \A n \in Media : Knows(m, p) /\ Knows(n, p) => m = n

\* A transaction takes no longer than Latency; what it has to do names its kind.
Timely ==
    \A h \in Handler :
        /\ Busy(h) => tx[h].at <= now /\ now <= tx[h].at + Latency
        /\ tx[h].todo # {} \/ tx[h].buf # {} => Busy(h)
        /\ \A q \in tx[h].todo :
             IF tx[h].kind = "webhook"
             THEN /\ seen[q[2]].ep # NoOne
                  /\ seen[q[2]].at <= tx[h].at /\ tx[h].at <= seen[q[2]].at + Window
             ELSE seen[q[2]].ep = NoOne
        /\ \A e \in tx[h].buf : tx[h].at <= e.at /\ e.at <= now

\* A reported viewing is dated within the window of its first report.
Dated ==
    \A e \in events \cup UNION {tx[h].buf : h \in Handler} :
        seen[e.play].ep # NoOne => seen[e.play].at <= e.at /\ e.at <= seen[e.play].at + Window

\* A session whose viewing is in the history is gone, or goes with the commit.
SessionOver ==
    \A m \in Media :
        /\ \A e \in events : e.play # session[m].play
        /\ \A h \in Handler : \A e \in tx[h].buf : e.play = session[m].play => m \in tx[h].gone

\* Who still has to check a session's viewing that is in the history began before it
\* was committed.
Overlap ==
    \A e \in events, h \in Handler : \A q \in tx[h].todo :
        e.play = q[2] /\ seen[e.play].ep = NoOne
        => e.at <= tx[h].at + Latency /\ tx[h].at <= e.at + Latency

\* What each transaction sees has every viewing once.
Once == \A h \in Handler : \A e, f \in events \cup tx[h].buf : e.play = f.play => e = f

WInv == Held /\ Spaced
PInv == PlaysKnown /\ Timely /\ Dated /\ SessionOver /\ Overlap /\ Once
=============================================================================
