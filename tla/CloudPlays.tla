----------------------------- MODULE CloudPlays ----------------------------
(***************************************************************************)
(* How plays travel between the watch history and the cloud services:      *)
(* pulls that tell a play they know from a new one by that service's rule, *)
(* Trakt's history cursor, full pushes, and the best-effort push of every  *)
(* single change (routers/trakt.py, simkl.py, mdblist.py, the Nuvio,       *)
(* Stremio and ARVIO parts of sync.py, history.py).  A Plex server is a    *)
(* service too, whose pull PlexHistory adds.                               *)
(*                                                                         *)
(* One user.  The watch number k happens at time 3k; a service whose own   *)
(* client saw it dates it 3k + 1.  Window and overlap are 1: two dates are *)
(* near if and only if they are of one watch.                              *)
(***************************************************************************)
EXTENDS Integers, FiniteSets, FiniteSetsExt

CONSTANTS
    Media,
    Conn, Setups,   \* the user's connections, and which services they may be to
    MaxTime,        \* bound: watches, and intervals longer than the window
    MaxFails,       \* bound: calls that fail, jobs that break off, media unwatched
    MaxJobs         \* bound: pulls and pushes at work at one time, by setup

Service == {"trakt", "simkl", "mdblist", "nuvio", "stremio", "arvio", "plex"}
NoDate == -9        \* a play of unknown date, and the cursor before the first pull

ASSUME ConstantsAssumption ==
    /\ Setups \subseteq [Conn -> Service]
    /\ {MaxTime, MaxFails} \subseteq Nat /\ MaxJobs \in [Setups -> Nat]

VARIABLES
    svc,        \* the service of each connection; all its flags are on
    clock,
    events,     \* watch_events: {[id, m, at, made]}; made is kept for those without a date
    theirs,     \* the plays each service has: {[m, at]}
    cursor,     \* trakt_history_cursor_at
    pull, push, \* the jobs at work for each service
    watches,    \* history: how often the user watched each media
    fails,      \* bound
    raced,      \* history: media imported while another pull had read the history
    undated,    \* history: media with a play of unknown date
    unwatched,  \* history: media the user marked unwatched here
    late        \* history: plays Trakt learned of behind the cursor

vars == <<svc, clock, events, theirs, cursor, pull, push, watches, fails, raced, undated,
          unwatched, late>>
history == <<watches, raced, undated, unwatched, late>>

Now == 3 * clock
Near(a, b) == a - b \in -1..1
Of(rows, m) == {r \in rows : r.m = m}
NoJob == [at |-> "idle"]
Pushed == {c \in Conn : svc[c] # "arvio"}       \* nothing is pushed to ARVIO
Trakt == {c \in Conn : svc[c] = "trakt"}
Plex == {c \in Conn : svc[c] = "plex"}

Init ==
    /\ svc \in Setups
    /\ clock = 0 /\ events = {} /\ theirs = [c \in Conn |-> {}] /\ cursor = NoDate
    /\ pull = [c \in Conn |-> NoJob] /\ push = [c \in Conn |-> NoJob]
    /\ watches = [m \in Media |-> 0] /\ fails = 0
    /\ raced = {} /\ undated = {} /\ unwatched = {} /\ late = {}

-----------------------------------------------------------------------------
(* What a service keeps of the plays it is told: external.  Trakt and Plex *)
(* keep every play, the others one row for a title, with its latest date.  *)

Kept(s, rows, p) ==
    LET old == Of(rows, p.m) IN
    IF s \in {"trakt", "plex"} THEN rows \cup {p}
    ELSE IF \E q \in old : q.at >= p.at THEN rows ELSE (rows \ old) \cup {p}

\* How a play of date d reaches a service; Simkl and Nuvio are not sent one
\* without a date, and MDBList dates it itself.  Plex dates every play itself.
Sendable(s, at) == s # "arvio" /\ (at = NoDate => s \notin {"simkl", "nuvio"})
Dated(s, at) == IF s = "plex" \/ (at = NoDate /\ s = "mdblist") THEN Now ELSE at

Told(s, rows, p) ==
    IF Sendable(s, p.at) THEN Kept(s, rows, [p EXCEPT !.at = Dated(s, p.at)]) ELSE rows

\* Where the next incremental pull starts: dates before it are not read again.
From(c) == c - 1
Behind(c, at) == at < From(IF pull[c] # NoJob THEN pull[c].cutoff ELSE cursor)

-----------------------------------------------------------------------------
(* The user.                                                               *)

Recorded(rows, m, at) ==
    LET taken == {e.id : e \in Of(rows, m)}
    IN rows \cup {[id |-> Min((1..(Cardinality(taken) + 1)) \ taken),
                   m |-> m, at |-> at,
                   made |-> IF at = NoDate THEN Now ELSE 0]}

\* A watch of m of date at: the fan-out of a watch recorded here reaches some
\* services, and the services' own clients report it to others a moment later.
Spread(m, at, how) ==
    theirs' = [c \in Conn |->
        CASE how[c] = "fanout" -> Told(svc[c], theirs[c], [m |-> m, at |-> at])
          [] how[c] = "client" -> Kept(svc[c], theirs[c], [m |-> m, at |-> Now + 1])
          [] OTHER -> theirs[c]]

Tick == clock < MaxTime /\ clock' = clock + 1
Fail(failed) == fails' = fails + (IF failed THEN 1 ELSE 0) /\ fails' <= MaxFails

\* Watched or marked as watched here, with a date or without one; the player may
\* scrobble to Trakt by itself.
WatchHere(m, at, how) ==
    /\ Tick /\ at \in {Now, NoDate} /\ (at = NoDate => m \notin undated)     \* bound
    /\ watches' = [watches EXCEPT ![m] = @ + 1]
    /\ undated' = IF at = NoDate THEN undated \cup {m} ELSE undated
    /\ events' = Recorded(events, m, at)
    /\ Spread(m, at, how)
    /\ \A c \in Conn \ Trakt : how[c] # "client"
    /\ Fail(\E c \in Pushed : how[c] = "none")
    /\ UNCHANGED <<svc, cursor, pull, push, raced, unwatched, late>>

\* Watched where only services see it.
WatchThere(m, how) ==
    /\ Tick
    /\ \A c \in Conn : how[c] # "fanout"
    /\ \E c \in Conn : how[c] = "client"
    /\ watches' = [watches EXCEPT ![m] = @ + 1]
    /\ Spread(m, Now, how)
    /\ UNCHANGED <<svc, events, cursor, pull, push, fails, raced, undated, unwatched, late>>

\* A service is told of an older watch, or of one without a date.
Backdate(m, c, at) ==
    /\ Tick
    /\ \/ at = NoDate /\ c \notin Plex /\ m \notin undated       \* bound
       \/ at = Now - 3 /\ at >= 0 /\ c \in Trakt
    /\ watches' = [watches EXCEPT ![m] = @ + 1]
    /\ theirs' = [theirs EXCEPT ![c] = Kept(svc[c], @, [m |-> m, at |-> at])]
    /\ undated' = IF at = NoDate THEN undated \cup {m} ELSE undated
    /\ late' = IF at # NoDate /\ Behind(c, at)
               THEN late \cup {[m |-> m, at |-> at]} ELSE late
    /\ UNCHANGED <<svc, events, cursor, pull, push, fails, raced, unwatched>>

\* Marked unwatched: all plays go here, and at the services the call reaches.
Unwatch(m, reached) ==
    /\ Of(events, m) # {}
    /\ events' = events \ Of(events, m)
    /\ theirs' = [c \in Conn |-> IF c \in reached THEN theirs[c] \ Of(theirs[c], m)
                                 ELSE theirs[c]]
    /\ unwatched' = unwatched \cup {m}
    /\ Fail(TRUE)
    /\ UNCHANGED <<svc, clock, cursor, pull, push, watches, raced, undated, late>>

Pass ==
    /\ Tick
    /\ UNCHANGED <<svc, events, theirs, cursor, pull, push, fails, history>>

-----------------------------------------------------------------------------
(* Pulls.                                                                  *)

Times(known, m) == {IF e.at = NoDate THEN e.made ELSE e.at : e \in Of(known, m)}
Dates(known, m) == {e.at : e \in Of(known, m)} \ {NoDate}
NearOne(times, at) == \E t \in times : Near(t, at)
OrNow(at) == IF at = NoDate THEN Now ELSE at

\* Whether a pull takes play p for one of the plays it knows, by service.
KnownByTitle(known, p) == Of(known, p.m) # {}

KnownToTrakt(known, p) ==
    IF p.at = NoDate THEN Of(known, p.m) # {} ELSE NearOne(Times(known, p.m), p.at)

KnownToMdblist(known, p) == NearOne(Dates(known, p.m), OrNow(p.at))
KnownToNuvio(known, p) == p.at = NoDate \/ NearOne(Dates(known, p.m), p.at)
KnownToArvio(known, p) == NearOne(Times(known, p.m), OrNow(p.at))

Known(s, known, p) ==
    CASE s \in {"simkl", "stremio"} -> KnownByTitle(known, p)
      [] s = "trakt" -> KnownToTrakt(known, p)
      [] s = "mdblist" -> KnownToMdblist(known, p)
      [] s = "nuvio" -> KnownToNuvio(known, p)
      [] s = "arvio" -> KnownToArvio(known, p)

\* MDBList and ARVIO plays without a date get the time of the import.
Stamped(s, at) == IF s \in {"mdblist", "arvio"} THEN OrNow(at) ELSE at

\* The pulls of these services read the history once, before they apply a play;
\* the others read it as they apply.
Preloading == {"trakt", "simkl", "mdblist", "plex"}

Import(s, known, done) ==
    LET One(p, acc) ==
            IF Known(s, acc[1], p) THEN acc
            ELSE <<Recorded(acc[1], p.m, Stamped(s, p.at)),
                   Recorded(acc[2], p.m, Stamped(s, p.at))>>
    IN FoldSet(One, <<IF s \in Preloading THEN known ELSE events, events>>, done)[2]

Free ==
    Cardinality({c \in Conn : pull[c] # NoJob}) + Cardinality({c \in Conn : push[c] # NoJob})
        < MaxJobs[svc]

\* What a pull of c reads at the service.  Trakt's history is read from a bit
\* before the cursor, or in full; plays without a date are dated 1970 there.
Rows(c, full) ==
    IF c \notin Trakt \/ full \/ cursor = NoDate THEN theirs[c]
    ELSE {p \in theirs[c] : p.at >= From(cursor)}

PullRead(c, full) ==
    /\ Free /\ pull[c] = NoJob /\ (full => c \in Trakt)
    /\ pull' = [pull EXCEPT ![c] =
        [at |-> "read", known |-> IF svc[c] \in Preloading THEN events ELSE {},
         cutoff |-> IF c \in Trakt THEN Now ELSE 0, rows |-> Rows(c, full)]]
    /\ UNCHANGED <<svc, clock, events, theirs, cursor, push, fails, history>>

\* Mutant: the cursor moves although a play could not be imported.
CursorAnyway(c, clean) == cursor' = IF c \in Trakt THEN pull[c].cutoff ELSE cursor

CursorMoves(c, clean) ==
    cursor' = IF c \in Trakt /\ clean THEN pull[c].cutoff ELSE cursor

\* The plays a pull has committed when it ends.  Trakt, Simkl and MDBList try
\* each play in a savepoint and ARVIO commits each: some may fail, or a cancel or
\* crash cuts the rest off.  Nuvio and Stremio commit the history as one.
TraktPull(c, done) == c \in Trakt /\ done \subseteq pull[c].rows
SimklPull(c, done) == svc[c] = "simkl" /\ done \subseteq pull[c].rows
MdblistPull(c, done) == svc[c] = "mdblist" /\ done \subseteq pull[c].rows
ArvioPull(c, done) == svc[c] = "arvio" /\ done \subseteq pull[c].rows
NuvioPull(c, done) == svc[c] = "nuvio" /\ done \in {{}, pull[c].rows}
StremioPull(c, done) == svc[c] = "stremio" /\ done \in {{}, pull[c].rows}

PullApply(c, done, clean) ==
    /\ pull[c] # NoJob
    /\ \/ TraktPull(c, done) \/ SimklPull(c, done) \/ MdblistPull(c, done)
       \/ ArvioPull(c, done) \/ NuvioPull(c, done) \/ StremioPull(c, done)
    /\ (clean => done = pull[c].rows)
    /\ Fail(~clean)
    /\ events' = Import(svc[c], pull[c].known, done)
    /\ raced' = raced \cup {m \in Media : Of(events', m) # Of(events, m)
                   /\ \E o \in Conn \ {c} : pull[o] # NoJob /\ svc[o] \in Preloading}
    /\ CursorMoves(c, clean)
    /\ pull' = [pull EXCEPT ![c] = NoJob]
    /\ UNCHANGED <<svc, clock, theirs, push, watches, undated, unwatched, late>>

-----------------------------------------------------------------------------
(* Full pushes.                                                            *)

\* The latest play of m; one without a date never hides one with a date.
Latest(m) == [m |-> m, at |-> Max({e.at : e \in Of(events, m)})]
LatestPlays == {Latest(m) : m \in {e.m : e \in events}}

\* Trakt is sent the plays it has no near one of.
Seen(rows, p) == \E q \in Of(rows, p.m) : p.at = NoDate \/ Near(q.at, p.at)
TraktPlan(c) == {p \in {[m |-> e.m, at |-> e.at] : e \in events} : ~Seen(theirs[c], p)}

\* The others are sent the latest play of every title; Simkl and Nuvio no play
\* without a date.
SimklPlan == {p \in LatestPlays : p.at # NoDate}
NuvioPlan == {p \in LatestPlays : p.at # NoDate}
MdblistPlan == LatestPlays
StremioPlan == LatestPlays

\* Mutant: the answer taken the wrong way round.
Said(c, done) ==
    IF c \in Plex THEN {p \in done : Of(theirs[c], p.m) # {}} ELSE done

\* Plex is asked before it is told: a title with a play there is left alone.
Unsaid(c, done) ==
    IF c \in Plex THEN {p \in done : Of(theirs[c], p.m) = {}} ELSE done

Planned(c) ==
    CASE c \in Trakt -> TraktPlan(c)
      [] svc[c] = "simkl" -> SimklPlan
      [] svc[c] = "mdblist" -> MdblistPlan
      [] svc[c] = "nuvio" -> NuvioPlan
      [] svc[c] = "stremio" -> StremioPlan
      [] c \in Plex -> LatestPlays

PushRead(c) ==
    /\ Free /\ c \in Pushed /\ push[c] = NoJob
    /\ push' = [push EXCEPT ![c] = [at |-> "read", plan |-> Planned(c)]]
    /\ UNCHANGED <<svc, clock, events, theirs, cursor, pull, fails, history>>

\* Batches are sent one by one; each may fail, and the job may break off.
PushSend(c, done) ==
    /\ push[c] # NoJob /\ done \subseteq push[c].plan
    /\ Fail(done # push[c].plan)
    /\ LET One(p, rows) == Told(svc[c], rows, p)
       IN theirs' = [theirs EXCEPT ![c] = FoldSet(One, @, Unsaid(c, done))]
    /\ push' = [push EXCEPT ![c] = NoJob]
    /\ UNCHANGED <<svc, clock, events, cursor, pull, history>>

-----------------------------------------------------------------------------
Ways == [Conn -> {"none", "fanout", "client"}]

Next ==
    \/ \E m \in Media, at \in {Now, NoDate}, how \in Ways : WatchHere(m, at, how)
    \/ \E m \in Media, how \in Ways : WatchThere(m, how)
    \/ \E m \in Media, c \in Conn, at \in {NoDate, Now - 3} : Backdate(m, c, at)
    \/ \E m \in Media, reached \in SUBSET Pushed : Unwatch(m, reached)
    \/ Pass
    \/ \E c \in Conn, full \in BOOLEAN : PullRead(c, full)
    \/ \E c \in Conn : pull[c] # NoJob /\ \E done \in SUBSET pull[c].rows, clean \in BOOLEAN :
            PullApply(c, done, clean)
    \/ \E c \in Conn : PushRead(c)
    \/ \E c \in Conn : push[c] # NoJob /\ \E done \in SUBSET push[c].plan : PushSend(c, done)

Spec == Init /\ [][Next]_vars

\* The scheduler starts every pull and push again and again, and jobs end.  Strong
\* fairness, since the bound MaxJobs keeps one job waiting for another.
Fairness ==
    \A c \in Conn :
        /\ SF_vars(PullRead(c, FALSE))
        /\ WF_vars(pull[c] # NoJob /\ PullApply(c, pull[c].rows, TRUE))
        /\ SF_vars(PushRead(c))
        /\ WF_vars(push[c] # NoJob /\ PushSend(c, push[c].plan))

FairSpec == Spec /\ Fairness

-----------------------------------------------------------------------------
Plays == [m : Media, at : Int]

TypeOK ==
    /\ svc \in Setups /\ clock \in 0..MaxTime /\ fails \in 0..MaxFails
    /\ events \subseteq [id : Nat, m : Media, at : Int, made : Nat]
    /\ theirs \in [Conn -> SUBSET Plays]
    /\ cursor \in {NoDate} \cup Nat
    /\ \A c \in Conn : /\ pull[c] = NoJob \/ pull[c].rows \subseteq Plays
                       /\ push[c] = NoJob \/ push[c].plan \subseteq Plays
    /\ \A e, f \in events : e.m = f.m /\ e.id = f.id => e = f
    /\ late \subseteq Plays /\ raced \cup undated \cup unwatched \subseteq Media

\* Trakt's cursor never passes a play the history lacks: what the next pull will
\* not read has a play near it here, unless it was reported behind the cursor or the
\* media marked unwatched.
CursorCovers ==
    \A c \in Trakt : \A p \in theirs[c] :
        0 <= p.at /\ p.at < From(cursor) /\ p \notin late /\ p.m \notin unwatched
        => NearOne(Times(events, p.m), p.at)

Tells(s, p) ==
    CASE s = "nuvio" -> p.at # NoDate
      [] s = "trakt" -> p.at # NoDate /\ p \notin late /\ p.m \notin unwatched
      [] OTHER -> TRUE

\* In the end the history and every service agree on what was watched, whatever
\* failed on the way.
Settles ==
    <>[](\A c \in Conn, m \in Media :
            /\ (\E p \in Of(theirs[c], m) : Tells(svc[c], p)) => Of(events, m) # {}
            /\ (\E e \in Of(events, m) : Sendable(svc[c], e.at)) => Of(theirs[c], m) # {})
=============================================================================
