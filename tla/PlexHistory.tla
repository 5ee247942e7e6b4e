---------------------------- MODULE PlexHistory ----------------------------
(***************************************************************************)
(* The plays of a Plex server beside those of the cloud services: webhooks *)
(* record them at the time of receipt, provisionally, and every pull reads *)
(* the server's whole history of plays and reconciles it with the rows it  *)
(* finds (_backfill_plex_watch_history).  Plex dates a push when it comes, *)
(* so a push leaves a marker by which its echo is known (PlexPendingPush). *)
(* The connection is scoped by server_username, so its bulk pass over the  *)
(* library leaves the watched state alone.                                 *)
(***************************************************************************)
EXTENDS CloudPlays, SequencesExt

CONSTANT MaxAge     \* how long a marker waits for its echo

ASSUME MaxAge \in Nat

VARIABLES
    hooks,      \* webhooks on their way: {[m, at]}
    prov,       \* the provisional events
    pending,    \* plex_pending_pushes: [Media -> date of the push, or NoDate]
    waiting,    \* the markers the pull at work has read
    spent       \* history: media of which a marker is gone: used, too old, or overwritten

plexVars == <<hooks, prov, pending, waiting, spent>>
allVars == <<vars, plexVars>>

NoMarkers == [m \in Media |-> NoDate]

PlexInit ==
    /\ Init
    /\ hooks = {} /\ prov = {} /\ pending = NoMarkers /\ waiting = NoMarkers /\ spent = {}

-----------------------------------------------------------------------------
(* The cloud's actions, with what they do to the tables of this module.    *)

\* One marker for each media: that of another push takes its place.
Marked(ms, marks) == [m \in Media |-> IF m \in ms THEN Now ELSE marks[m]]
Overwritten(ms, marks) == {m \in ms : marks[m] # NoDate}

Noted(ms) ==
    /\ pending' = Marked(ms, pending)
    /\ spent' = spent \cup Overwritten(ms, pending)

\* A watch here is pushed to Plex in the same request.
PlexWatchHere(m, at, how) ==
    /\ hooks = {}
    /\ WatchHere(m, at, how)
    /\ Noted({n \in {m} : \E c \in Plex : how[c] = "fanout"})
    /\ UNCHANGED <<hooks, prov, waiting>>

\* A watch the server saw: its webhook sets out.  Reports arrive, or are lost, within
\* the window.
PlexWatchThere(m, how) ==
    /\ hooks = {}
    /\ WatchThere(m, how)
    /\ hooks' = {[m |-> n, at |-> Now] : n \in {k \in {m} : \E c \in Plex : how[c] = "client"}}
    /\ UNCHANGED <<prov, pending, waiting, spent>>

Elsewhere ==
    /\ hooks = {}
    /\ \/ \E m \in Media, c \in Conn, at \in {NoDate, Now - 3} : Backdate(m, c, at)
       \/ Pass
    /\ UNCHANGED plexVars

PlexUnwatch(m, reached) ==
    /\ Unwatch(m, reached)
    /\ prov' = prov \ Of(prov, m)
    /\ UNCHANGED <<hooks, pending, waiting, spent>>

\* A pull and the planning of a push for a service.
ServiceStep(c) ==
    /\ \/ c \notin Plex /\ \E full \in BOOLEAN : PullRead(c, full)
       \/ pull[c] # NoJob /\ \E done \in SUBSET pull[c].rows, clean \in BOOLEAN :
              PullApply(c, done, clean)
       \/ PushRead(c)
    /\ UNCHANGED plexVars

\* A push to Plex leaves its marker once the call has succeeded.
PlexPushSend(c, done) ==
    /\ PushSend(c, done)
    /\ Noted(IF c \in Plex THEN {p.m : p \in Unsaid(c, done)} ELSE {})
    /\ UNCHANGED <<hooks, prov, waiting>>

-----------------------------------------------------------------------------
(* Webhooks.                                                               *)

\* The report is recorded at the time it comes, unless a play near it is known,
\* and goes on to the services it reaches.
Report(p, reached) ==
    LET known == NearOne(Dates(events, p.m), p.at)
        rows == IF known THEN events ELSE Recorded(events, p.m, p.at)
    IN
    /\ p \in hooks /\ hooks' = hooks \ {p}
    /\ reached \subseteq Pushed \ Plex
    /\ events' = rows
    /\ prov' = prov \cup (rows \ events)
    /\ theirs' = [c \in Conn |-> IF c \in reached THEN Told(svc[c], theirs[c], p) ELSE theirs[c]]
    /\ raced' = IF rows # events /\ (\E c \in Conn : pull[c] # NoJob /\ svc[c] \in Preloading)
                THEN raced \cup {p.m} ELSE raced
    /\ Fail(reached # Pushed \ Plex)
    /\ UNCHANGED <<svc, clock, cursor, pull, push, watches, undated, unwatched, late,
                   pending, waiting, spent>>

Lose(p) ==
    /\ p \in hooks /\ hooks' = hooks \ {p}
    /\ Fail(TRUE)
    /\ UNCHANGED <<svc, clock, events, theirs, cursor, pull, push, history,
                   prov, pending, waiting, spent>>

-----------------------------------------------------------------------------
(* The pull.                                                               *)

Old(m) == pending[m] # NoDate /\ Now - pending[m] > MaxAge

\* The whole history is read, then the plays and the markers here; markers too old
\* are deleted.
PlexRead(c) ==
    /\ c \in Plex /\ PullRead(c, FALSE)
    /\ pending' = [m \in Media |-> IF Old(m) THEN NoDate ELSE pending[m]]
    /\ waiting' = pending'
    /\ spent' = spent \cup {m \in Media : Old(m)}
    /\ UNCHANGED <<hooks, prov>>

\* What the job knows while it goes through the history: the events as it found and
\* made them, confirmed or provisional, the markers, and the table.
Found(c) ==
    [sure |-> {e \in pull[c].known : e.at # NoDate /\ e \notin prov},
     prov |-> pull[c].known \cap prov, marks |-> waiting, rows |-> events, met |-> {}]

Nearest(rows, p) ==
    LET close == {e \in Of(rows, p.m) : Near(e.at, p.at)}
    IN {e \in close : \A f \in close : f.at = p.at => e.at = p.at}

Inserted(k, p) ==
    LET rows == Recorded(k.rows, p.m, p.at)
    IN [k EXCEPT !.rows = rows, !.sure = @ \cup (rows \ k.rows)]

\* Mutant: a report by webhook is not told from another play.
InsertedBeside(k, e, p) == Inserted(k, p)

Confirmed(k, e, p) ==
    LET sure == [e EXCEPT !.at = p.at] IN
    [k EXCEPT !.sure = @ \cup {sure}, !.prov = @ \ {e},
              !.rows = {IF r = e THEN sure ELSE r : r \in @}]

\* One play of the server's history: known by its very date, or the provisional
\* event nearest to it, or the echo of a push made when it was watched here, or of
\* one with a marker; a new one otherwise.
Reconciled(k, p) ==
    IF p.at \in Dates(k.sure, p.m) THEN k
    ELSE IF Nearest(k.prov, p) # {} THEN Confirmed(k, CHOOSE e \in Nearest(k.prov, p) : TRUE, p)
    ELSE IF NearOne(Dates(k.sure, p.m), p.at) THEN k
    ELSE IF Near(k.marks[p.m], p.at) THEN [k EXCEPT !.marks[p.m] = NoDate, !.met = @ \cup {p.m}]
    ELSE Inserted(k, p)

Oldest(a, b) == a.at <= b.at

\* The plays are gone through from the oldest on and committed in chunks; what has no
\* play at the server and has just come there is pushed back.
PlexApply(c, done, back) ==
    /\ c \in Plex /\ pull[c] # NoJob
    /\ \E last \in {p.at : p \in pull[c].rows} \cup {NoDate} :
           done = {p \in pull[c].rows : p.at <= last}
    /\ back \subseteq {m \in Media : Of(events, m) # {} /\ Of(theirs[c], m) = {}}
    /\ Fail(done # pull[c].rows)
    /\ \E k \in {FoldLeft(Reconciled, Found(c), SetToSortSeq(done, Oldest))} :
           /\ events' = k.rows
           /\ prov' = prov \cap k.rows
           /\ LET left == [m \in Media |-> IF m \in k.met THEN NoDate ELSE pending[m]] IN
              /\ pending' = Marked(back, left)
              /\ spent' = spent \cup k.met \cup Overwritten(back, left)
    /\ theirs' = [theirs EXCEPT ![c] = @ \cup {[m |-> m, at |-> Now] : m \in back}]
    /\ raced' = raced \cup {m \in Media : Of(events', m) # Of(events, m)
                   /\ \E o \in Conn \ {c} : pull[o] # NoJob /\ svc[o] \in Preloading}
    /\ pull' = [pull EXCEPT ![c] = NoJob]
    /\ waiting' = NoMarkers
    /\ UNCHANGED <<svc, clock, cursor, push, watches, undated, unwatched, late, hooks>>

-----------------------------------------------------------------------------
PlexNext ==
    \/ \E m \in Media, at \in {Now, NoDate}, how \in Ways : PlexWatchHere(m, at, how)
    \/ \E m \in Media, how \in Ways : PlexWatchThere(m, how)
    \/ Elsewhere
    \/ \E m \in Media, reached \in SUBSET Pushed : PlexUnwatch(m, reached)
    \/ \E c \in Conn : ServiceStep(c) \/ PlexRead(c)
    \/ \E c \in Conn : push[c] # NoJob /\ \E done \in SUBSET push[c].plan : PlexPushSend(c, done)
    \/ \E p \in hooks : Lose(p) \/ (\E reached \in SUBSET Conn : Report(p, reached))
    \/ \E c \in Plex : pull[c] # NoJob
          /\ \E done \in SUBSET pull[c].rows, back \in SUBSET Media : PlexApply(c, done, back)

\* As for the cloud services: pulls and pushes are scheduled, and jobs end.
PlexFairness ==
    \A c \in Conn :
        /\ SF_allVars(PlexRead(c) \/ (c \notin Plex /\ PullRead(c, FALSE) /\ UNCHANGED plexVars))
        /\ WF_allVars(/\ pull[c] # NoJob
                      /\ \/ PlexApply(c, pull[c].rows, {})
                         \/ PullApply(c, pull[c].rows, TRUE) /\ UNCHANGED plexVars)
        /\ SF_allVars(PushRead(c) /\ UNCHANGED plexVars)
        /\ WF_allVars(push[c] # NoJob /\ PlexPushSend(c, push[c].plan))

PlexSpec == PlexInit /\ [][PlexNext]_allVars
PlexFairSpec == PlexSpec /\ PlexFairness

-----------------------------------------------------------------------------
PlexTypeOK ==
    /\ TypeOK
    /\ hooks \subseteq Plays /\ prov \subseteq events
    /\ {pending, waiting} \subseteq [Media -> Int]
    /\ spent \subseteq Media

\* However often plays travel between the history, the services and a Plex server,
\* media is not recorded more often than it was watched: no pull imports the echo of
\* a push, and none imports a play twice.  Work that overlaps a pull may make it do
\* so; so may a play without a date, at the services whose rule looks at dates only,
\* and the echo of a push to Plex whose marker is gone (see RescanIsSafe).
NoEcho ==
    \A m \in Media :
        m \notin raced \cup spent
        /\ (m \in undated => \A c \in Conn : svc[c] \notin {"mdblist", "nuvio", "arvio"})
        => Cardinality(Of(events, m)) <= watches[m]

\* The same, echoes known once included: "re-scanning the full history each time is
\* safe" (_backfill_plex_watch_history).
RescanIsSafe ==
    \A m \in Media :
        m \notin raced
        /\ (m \in undated => \A c \in Conn : svc[c] \notin {"mdblist", "nuvio", "arvio"})
        => Cardinality(Of(events, m)) <= watches[m]
=============================================================================
