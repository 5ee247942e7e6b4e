------------------------------ MODULE Playback ------------------------------
(***************************************************************************)
(* What media servers report and what Scrob answers: now-playing sessions, *)
(* completed plays, echoes of Scrob's own pushes, and unwatch round trips  *)
(* (routers/webhooks.py, routers/history.py, main.py).                     *)
(*                                                                         *)
(* One user.  A server may be configured as a full connection, as a        *)
(* scrobble-only one ("side"), or as both.  A position is 0 (unknown or    *)
(* below 5%), 1 (under way) or 2 (90% and more).  A handler takes two      *)
(* steps, since it awaits lookups between its first read and its commit:   *)
(* Begin reads the session row, Finish writes and commits.                 *)
(***************************************************************************)
EXTENDS Integers, FiniteSets, FiniteSetsExt, Sequences

CONSTANTS
    Media,          \* items of the library
    Server, Kind,   \* servers and what they run: jellyfin, emby, plex or kodi
    Full, Side,     \* servers with a full and with a scrobble-only connection
    Pushing,        \* full connections with push_watched
    NoSession,      \* connections with sync_playback off
    NoWatched,      \* connections with sync_watched off
    Ordered,        \* connections whose server waits for each answer
    Window,         \* duplicate window of plays
    TTL,            \* _PUSHED_WATCHED_TTL
    Retry,          \* _WEBHOOK_DEDUP_WINDOW
    MaxFlight,      \* reports of one server that may be on their way at once
    Latency,        \* no call or report is under way for longer
    LongCredits,    \* a Plex playback may go on past 90% for longer than Window
    MaxActs, MaxTime, MaxFaults     \* bounds

Conn == (Full \X {"full"}) \cup (Side \X {"side"})
Position == 0..2
Time == 0..MaxTime
None == [m |-> "none"]

ASSUME ConstantsAssumption ==
    /\ IsFiniteSet(Server)
    /\ Full \subseteq Server /\ Side \subseteq Server /\ Pushing \subseteq Full
    /\ Kind \in [Server -> {"jellyfin", "emby", "plex", "kodi"}]
    /\ Ordered \subseteq Conn /\ NoSession \subseteq Conn /\ NoWatched \subseteq Conn
    /\ LongCredits \in BOOLEAN
    /\ {Window, TTL, Retry, MaxFlight, Latency, MaxActs, MaxTime, MaxFaults} \subseteq Nat

VARIABLES
    now,
    session,    \* rows of playback_sessions, one key per connection
    progress,   \* media with a playback_progress row
    events,     \* when the completed watch events of a media were watched
    tokens,     \* _recently_pushed_watched, per media
    recent,     \* _recent_webhook_deliveries: {[conn, ev, at]}
    inbox,      \* reports sent by the servers and not taken up
    busy,       \* handlers at work: {[d, row, twice, k]}
    calls,      \* mark-watched calls on their way to servers: {[s, m, w, at]}
    watching,   \* what plays on a server, and how far
    flag,       \* <<server, media>> the server holds for played
    acts, again, crashes,   \* bounds
    \* History, per media: what the properties count and no action reads.
    genuine,    \* plays there were, on a server or entered in Scrob
    expired,    \* tokens that ran out or were lost in a crash
    hidden,     \* reports of a user's taken for the echo of a push
    astray,     \* echoes that never came, or met no live token
    eaten,      \* tokens that went to the report of a playback
    cleared, recorded, sent     \* rounds of unwatching, events made, scrobbles sent

server == <<watching, flag>>
history == <<genuine, expired, hidden, astray, eaten, cleared, recorded, sent>>
bounds == <<acts, again, crashes>>
vars == <<now, session, progress, events, tokens, recent, inbox, busy, calls,
          server, bounds, history>>

Zero == [m \in Media |-> 0]
Bump(f, m, k) == [f EXCEPT ![m] = @ + k]
Faults == again + crashes
Older(x) == now - x.at >= Latency

Init ==
    /\ now = 0 /\ acts = 0 /\ again = 0 /\ crashes = 0
    /\ session = [c \in Conn |-> None]
    /\ progress = {} /\ events = [m \in Media |-> {}]
    /\ tokens = [m \in Media |-> <<>>]
    /\ recent = {} /\ inbox = {} /\ busy = {} /\ calls = {}
    /\ watching = [s \in Server |-> None] /\ flag = {}
    /\ genuine = Zero /\ expired = Zero /\ hidden = Zero /\ astray = Zero
    /\ eaten = Zero /\ cleared = Zero /\ recorded = Zero /\ sent = Zero

-----------------------------------------------------------------------------
(* The servers: external, as far as the handlers show them.                *)

\* Reports and rows are numbered by age among those that matter still.
Fresh ==
    1 + Max({0} \cup {d.n : d \in inbox} \cup {h.d.n : h \in busy}
            \cup {h.row.n : h \in {g \in busy : g.row # None}}
            \cup {session[c].n : c \in {d \in Conn : session[d] # None}})

\* Of a stop, ended says that the client finished; of a mark, that a user made
\* it, which no handler reads.
Reports(s, ev, m, pos, ended) ==
    {[conn |-> c, ev |-> ev, m |-> m, pos |-> pos, ended |-> ended,
      at |-> now, n |-> Fresh] : c \in {d \in Conn : d[1] = s}}

Flying(s) ==
    Cardinality({d \in inbox : d.conn[1] = s}) + Cardinality({h \in busy : h.d.conn[1] = s})

Emit(s, ev, m, pos, ended) ==
    /\ Flying(s) < MaxFlight
    /\ inbox' = inbox \cup Reports(s, ev, m, pos, ended)

Rest == UNCHANGED <<now, session, progress, events, tokens, recent, busy, calls,
                    again, crashes, expired, hidden, astray, eaten, cleared, recorded, sent>>

\* Playback of m begins on s, once the reports of the one before are through.
Play(s, m) ==
    /\ acts < MaxActs /\ watching[s] = None /\ Flying(s) = 0
    /\ acts' = acts + 1
    /\ watching' = [watching EXCEPT ![s] = [m |-> m, pos |-> 0]]
    /\ Emit(s, "start", m, 0, FALSE)
    /\ UNCHANGED <<flag, genuine>> /\ Rest

\* Playback moves on.  Plex reports 90% by media.scrobble and nothing before;
\* Emby reports no progress at all.
Advance(s) ==
    LET w == watching[s] IN
    /\ w # None /\ w.pos < 2
    /\ watching' = [watching EXCEPT ![s].pos = @ + 1]
    /\ flag' = IF w.pos = 1 THEN flag \cup {<<s, w.m>>} ELSE flag
    /\ genuine' = IF w.pos = 1 THEN Bump(genuine, w.m, 1) ELSE genuine
    /\ CASE Kind[s] = "plex" /\ w.pos = 1 -> Emit(s, "scrobble", w.m, 2, FALSE)
         [] Kind[s] \in {"jellyfin", "kodi"} -> Emit(s, "progress", w.m, w.pos + 1, FALSE)
         [] OTHER -> UNCHANGED inbox
    /\ UNCHANGED acts /\ Rest

Pause(s) ==
    LET w == watching[s] IN
    /\ w # None /\ w.pos = 1 /\ acts < MaxActs
    /\ acts' = acts + 1
    /\ Emit(s, IF Kind[s] \in {"plex", "kodi"} THEN "pause" ELSE "progress", w.m, 1, FALSE)
    /\ UNCHANGED <<watching, flag, genuine>> /\ Rest

\* Plex and Kodi say when playback goes on; Plex may not know the position yet.
Resume(s) ==
    LET w == watching[s] IN
    /\ w # None /\ w.pos = 1 /\ acts < MaxActs /\ Kind[s] \in {"plex", "kodi"}
    /\ acts' = acts + 1
    /\ \E pos \in {0, 1} : Emit(s, "resume", w.m, pos, FALSE)
    /\ UNCHANGED <<watching, flag, genuine>> /\ Rest

\* Playback ends.  The position may be missing from the last report; a client
\* that finished says so.
StopPlaying(s) ==
    LET w == watching[s] IN
    /\ w # None
    /\ watching' = [watching EXCEPT ![s] = None]
    /\ \E pos \in {0, w.pos} :
          Emit(s, "stop", w.m, pos, w.pos = 2 /\ Kind[s] # "plex")
    /\ UNCHANGED <<flag, genuine, acts>> /\ Rest

\* The user marks m played or unplayed in the server's own pages.
Toggle(s, m, w) ==
    /\ acts < MaxActs /\ Kind[s] # "plex"
    /\ Kind[s] = "kodi" => w
    /\ (<<s, m>> \in flag) # w
    /\ acts' = acts + 1
    /\ flag' = IF w THEN flag \cup {<<s, m>>} ELSE flag \ {<<s, m>>}
    /\ genuine' = IF w THEN Bump(genuine, m, 1) ELSE genuine
    /\ Emit(s, IF Kind[s] = "kodi" THEN "library" ELSE IF w THEN "played" ELSE "unplayed",
            m, IF w THEN 2 ELSE 0, w)
    /\ UNCHANGED watching /\ Rest

Echoing == {s \in Server : Kind[s] \in {"jellyfin", "emby"}}

\* The echo of a push of m, and a call that will bring one.
Echo(d, m) == d.ev = "played" /\ ~d.ended /\ d.m = m
Echoed(c, m) == c.w /\ c.m = m /\ c.s \in Echoing

\* A server carries out a call of Scrob's.  Jellyfin and Emby report the change
\* as if the user had made it; they may also leave that out, and the call may
\* fail altogether.
ServerCall(c) ==
    /\ c \in calls
    /\ calls' = calls \ {c}
    /\ \/ /\ flag' = IF c.w THEN flag \cup {<<c.s, c.m>>} ELSE flag \ {<<c.s, c.m>>}
          /\ c.s \in Echoing
          /\ Emit(c.s, IF c.w THEN "played" ELSE "unplayed", c.m,
                  IF c.w THEN 2 ELSE 0, FALSE)
          /\ UNCHANGED astray
       \/ /\ \/ flag' = IF c.w THEN flag \cup {<<c.s, c.m>>} ELSE flag \ {<<c.s, c.m>>}
             \/ UNCHANGED flag
          /\ astray' = IF Echoed(c, c.m) THEN Bump(astray, c.m, 1) ELSE astray
          /\ UNCHANGED inbox
    /\ UNCHANGED <<now, session, progress, events, tokens, recent, busy, watching,
                   bounds, genuine, expired, hidden, eaten, cleared, recorded, sent>>

-----------------------------------------------------------------------------
(* Pushing Scrob's state to the servers.                                   *)

Calls(m, w, but) == {[s |-> s, m |-> m, w |-> w, at |-> now] : s \in Pushing \ but}

\* Calls to mark m played that are made while the same one is on its way.
Joined(m, but) ==
    {s \in Echoing \cap (Pushing \ but) : [s |-> s, m |-> m, w |-> TRUE, at |-> now] \in calls}

\* Mutant of Mark: no token is left.
MarkNothing(q, targets) == q

\* mark_pushed_watched, once for each Jellyfin or Emby server called.
Mark(q, targets) ==
    q \o [i \in 1..Cardinality(Echoing \cap targets) |-> now]

\* _push_watch_state.
PushWatchState(m, w, but) ==
    /\ calls' = calls \cup Calls(m, w, but)
    /\ tokens' = IF w THEN [tokens EXCEPT ![m] = Mark(@, Pushing \ but)] ELSE tokens

IsDuplicate(m) == \E t \in events[m] : now - t <= Window

\* mark_as_watched: a play entered in Scrob, on demand a second one.
MarkAsWatched(m, force) ==
    /\ acts < MaxActs
    /\ acts' = acts + 1
    /\ force \/ ~IsDuplicate(m)
    /\ events' = [events EXCEPT ![m] = @ \cup {now}]
    /\ recorded' = Bump(recorded, m, 1)
    /\ genuine' = Bump(genuine, m, 1)
    /\ progress' = progress \ {m}
    /\ PushWatchState(m, TRUE, {})
    /\ astray' = Bump(astray, m, Cardinality(Joined(m, {})))
    /\ UNCHANGED <<now, session, recent, inbox, busy, server, again, crashes,
                   expired, hidden, eaten, cleared, sent>>

\* unwatch_item: the servers are told even if there was nothing to delete.
UnwatchItem(m) ==
    /\ acts < MaxActs
    /\ acts' = acts + 1
    /\ events' = [events EXCEPT ![m] = {}]
    /\ PushWatchState(m, FALSE, {})
    /\ UNCHANGED <<now, session, progress, recent, inbox, busy, server, again, crashes,
                   genuine, expired, hidden, astray, eaten, cleared, recorded, sent>>

\* _push_watched_for_new_item: m appears in s's library and Scrob has a play
\* of it; the server's own state is read first.
PushWatchedForNewItem(s, m) ==
    /\ acts < MaxActs /\ s \in Pushing
    /\ events[m] # {} /\ <<s, m>> \notin flag
    /\ acts' = acts + 1
    /\ PushWatchState(m, TRUE, Server \ {s})
    /\ astray' = Bump(astray, m, Cardinality(Joined(m, Server \ {s})))
    /\ UNCHANGED <<now, session, progress, events, recent, inbox, busy, server, again,
                   crashes, genuine, expired, hidden, eaten, cleared, recorded, sent>>

-----------------------------------------------------------------------------
(* Taking up a report.                                                     *)

Plexy(d) == Kind[d.conn[1]] = "plex"

\* _is_duplicate_webhook_delivery: it asks, and remembers, in one go.
SeenBefore(d) ==
    /\ Plexy(d)
    /\ \E r \in recent : r.conn = d.conn /\ r.ev = d.ev /\ now - r.at < Retry

Remember(d) ==
    IF Plexy(d)
    THEN {r \in recent : (r.conn # d.conn \/ r.ev # d.ev) /\ now - r.at < Retry}
            \cup {[conn |-> d.conn, ev |-> d.ev, at |-> now]}
    ELSE recent

\* _duplicated_by_full_connection.
Twice(d) ==
    /\ d.conn[2] = "side"
    /\ <<d.conn[1], "full">> \in Conn
    /\ session[<<d.conn[1], "full">>] # None

\* A handler starts: the session row it will go on with is read here.  A
\* server that got no quick answer sends the report again, Plex at once.
Begin(d) ==
    /\ d \in inbox
    /\ d.conn \in Ordered =>
          /\ \A e \in inbox : e.conn = d.conn => e.n >= d.n
          /\ \A h \in busy : h.d.conn # d.conn
    /\ \/ inbox' = inbox \ {d} /\ again' = again
       \/ inbox' = inbox /\ Plexy(d) /\ now - d.at < Retry /\ again' = again
       \/ inbox' = inbox /\ ~Plexy(d) /\ Faults < MaxFaults /\ again' = again + 1
    /\ recent' = Remember(d)
    /\ busy' = IF SeenBefore(d) THEN busy
               ELSE busy \cup {[d |-> d, row |-> session[d.conn], twice |-> Twice(d), k |-> again]}
    /\ UNCHANGED <<now, session, progress, events, tokens, calls, server, acts,
                   crashes, history>>

-----------------------------------------------------------------------------
(* What handlers share.                                                    *)

KeepsSessions(h) == h.d.conn \notin NoSession
KeepsWatched(h) == h.d.conn \notin NoWatched

\* The row the handler read is still the one in the table.
Current(h) == h.row # None /\ session[h.d.conn] # None /\ session[h.d.conn].n = h.row.n

\* _get_or_open_session and the commit of the update: a loser of the race for
\* the insert goes on with the winner's row, and an update of a row that is
\* gone matches nothing.
Row(m, pos, n) == [m |-> m, pos |-> pos, n |-> n]
Opened(h) ==
    IF h.row = None /\ session[h.d.conn] = None
    THEN Row(h.d.m, 0, h.d.n) ELSE session[h.d.conn]

SaveSession(h, row) ==
    IF h.row = None \/ Current(h)
    THEN session' = [session EXCEPT ![h.d.conn] = row]
    ELSE UNCHANGED session

\* _close_session, committed.
CloseSession(h) ==
    IF Current(h) THEN session' = [session EXCEPT ![h.d.conn] = None]
    ELSE UNCHANGED session

\* Mutants of Consume: the token stays; the token is renewed.
ConsumeNone(m) == tokens
ConsumeRenewed(m) ==
    IF tokens[m] = <<>> THEN tokens ELSE [tokens EXCEPT ![m] = Append(Tail(@), now + TTL)]

\* _consume_recently_pushed_watched: the oldest token goes, fresh or not.
IsEcho(m) == tokens[m] # <<>> /\ now - Head(tokens[m]) < TTL
Consume(m) == IF tokens[m] = <<>> THEN tokens ELSE [tokens EXCEPT ![m] = Tail(@)]

\* _write_watch_event: an echo or a duplicate leaves no event.
WriteCompleted(h, m) ==
    /\ tokens' = Consume(m)
    /\ expired' = IF tokens[m] # <<>> /\ ~IsEcho(m) THEN Bump(expired, m, 1) ELSE expired
    /\ hidden' = IF IsEcho(m) /\ ~Echo(h.d, m) THEN Bump(hidden, m, 1) ELSE hidden
    /\ eaten' = IF IsEcho(m) /\ h.d.ev # "played" THEN Bump(eaten, m, 1) ELSE eaten
    /\ IF IsEcho(m) \/ IsDuplicate(m)
       THEN UNCHANGED <<events, progress, recorded>>
       ELSE /\ recorded' = Bump(recorded, m, 1)
            /\ events' = [events EXCEPT ![m] = @ \cup {now}]
            /\ progress' = progress \ {m}

\* _update_playback_progress.
WriteProgress(m) ==
    /\ progress' = progress \cup {m}
    /\ UNCHANGED <<events, tokens, expired, hidden, eaten, recorded>>

NoWrite == UNCHANGED <<events, progress, tokens, expired, hidden, eaten, recorded>>

WriteWatch(h, m, pos) ==
    CASE pos = 2 -> WriteCompleted(h, m)
      [] pos = 1 -> WriteProgress(m)
      [] OTHER -> NoWrite

\* The outbound scrobbles of a stop: the services hear of a play from 90%.
Heard(pos) == pos = 2
Scrobble(h, m, pos) ==
    sent' = IF Heard(pos) /\ ~h.twice THEN Bump(sent, m, 1) ELSE sent

\* An echo is astray unless it meets its token where marks are written.
Done(h) ==
    /\ h \in busy
    /\ busy' = busy \ {h}
    /\ astray' = IF Echo(h.d, h.d.m) /\ ~(KeepsWatched(h) /\ IsEcho(h.d.m))
                 THEN Bump(astray, h.d.m, 1) ELSE astray
    /\ UNCHANGED <<now, recent, inbox, server, bounds, genuine>>

NoPush == UNCHANGED <<calls, cleared>>
Quietly == NoWrite /\ NoPush /\ UNCHANGED sent

StopPosition(h) ==
    CASE h.d.ended -> 2
      [] ~h.d.ended /\ h.d.pos # 0 -> h.d.pos
      [] OTHER -> IF h.row # None THEN h.row.pos ELSE 0

Ignored(h) == Done(h) /\ UNCHANGED session /\ Quietly

Is(h, kinds, role, evs) ==
    /\ Kind[h.d.conn[1]] \in kinds /\ h.d.conn[2] = role /\ h.d.ev \in evs

-----------------------------------------------------------------------------
(* Jellyfin and Emby, full and scrobble-only connections.                  *)

\* playback.start.  Only a full Jellyfin connection moves the row to the
\* item that starts (a multi-episode file, or the next one of a queue).
StartSession(h, moves) ==
    /\ Done(h)
    /\ IF KeepsSessions(h)
       THEN SaveSession(h, [Opened(h) EXCEPT !.m = IF moves THEN h.d.m ELSE @])
       ELSE UNCHANGED session
    /\ Quietly

ProgressSession(h, moves) ==
    /\ Done(h)
    /\ IF KeepsSessions(h)
       THEN SaveSession(h, [Opened(h) EXCEPT !.m = IF moves THEN h.d.m ELSE @,
                                            !.pos = h.d.pos])
       ELSE UNCHANGED session
    /\ Quietly

\* Mutant of StopSession: the session is left to the next report.
StopSessionOpen(h) ==
    LET pos == StopPosition(h) IN
    /\ Done(h)
    /\ UNCHANGED session
    /\ IF KeepsWatched(h) THEN WriteWatch(h, h.d.m, pos) ELSE NoWrite
    /\ Scrobble(h, h.d.m, pos)
    /\ NoPush

\* playback.stop: the session goes and the play is kept independently; every
\* media is scrobbled, whatever became of its event.
StopSession(h) ==
    LET pos == StopPosition(h) IN
    /\ Done(h)
    /\ CloseSession(h)
    /\ IF KeepsWatched(h) THEN WriteWatch(h, h.d.m, pos) ELSE NoWrite
    /\ Scrobble(h, h.d.m, pos)
    /\ NoPush

\* Mutant of MarkedPlayed: an echo is scrobbled like a play.
MarkedPlayedSent(h) ==
    /\ Done(h)
    /\ CloseSession(h) \/ UNCHANGED session
    /\ IF KeepsWatched(h) THEN WriteCompleted(h, h.d.m) ELSE NoWrite
    /\ Scrobble(h, h.d.m, 2)
    /\ NoPush

\* Marked played on the server: an echo of a push is not scrobbled.  The report
\* may carry the id of a session, that of the device the user is at.
MarkedPlayed(h) ==
    /\ Done(h)
    /\ CloseSession(h) \/ UNCHANGED session
    /\ IF KeepsWatched(h) THEN WriteCompleted(h, h.d.m) ELSE NoWrite
    /\ IF KeepsWatched(h) /\ IsEcho(h.d.m) THEN UNCHANGED sent ELSE Scrobble(h, h.d.m, 2)
    /\ NoPush

\* Mutant of UnwatchToggle: the other servers are told whether or not anything went.
UnwatchToggleAlways(h, but) ==
    /\ Done(h)
    /\ IF KeepsWatched(h)
       THEN /\ events' = [events EXCEPT ![h.d.m] = {}]
            /\ PushWatchState(h.d.m, FALSE, but)
            /\ cleared' = Bump(cleared, h.d.m, 1)
       ELSE UNCHANGED <<events, tokens, calls, cleared>>
    /\ UNCHANGED <<session, progress, expired, hidden, eaten, recorded, sent>>

\* _handle_unwatch_toggle, and the push to the other servers if anything went.
UnwatchToggle(h, but) ==
    /\ Done(h)
    /\ IF KeepsWatched(h) /\ events[h.d.m] # {}
       THEN /\ events' = [events EXCEPT ![h.d.m] = {}]
            /\ PushWatchState(h.d.m, FALSE, but)
            /\ cleared' = Bump(cleared, h.d.m, 1)
       ELSE UNCHANGED <<events, tokens, calls, cleared>>
    /\ UNCHANGED <<session, progress, expired, hidden, eaten, recorded, sent>>

\* _handle_jellyfin_webhook.  TogglePlayed is read only with sync_watched, so
\* without it the session stays.
JellyfinPlayback(h) ==
    \/ Is(h, {"jellyfin"}, "full", {"start"}) /\ StartSession(h, TRUE)
    \/ Is(h, {"jellyfin"}, "full", {"progress"}) /\ ProgressSession(h, TRUE)
    \/ Is(h, {"jellyfin"}, "full", {"stop"}) /\ StopSession(h)

JellyfinToggles(h) ==
    \/ /\ Is(h, {"jellyfin"}, "full", {"played"})
       /\ IF KeepsWatched(h) THEN MarkedPlayed(h) ELSE Ignored(h)
    \/ Is(h, {"jellyfin"}, "full", {"unplayed"}) /\ UnwatchToggle(h, {h.d.conn[1]})

\* _handle_emby_webhook: the row keeps the item it was opened for.
EmbyPlayback(h) ==
    \/ Is(h, {"emby"}, "full", {"start"}) /\ StartSession(h, FALSE)
    \/ Is(h, {"emby"}, "full", {"progress"}) /\ ProgressSession(h, FALSE)
    \/ Is(h, {"emby"}, "full", {"stop"}) /\ StopSession(h)

EmbyToggles(h) ==
    \/ Is(h, {"emby"}, "full", {"played"}) /\ MarkedPlayed(h)
    \/ Is(h, {"emby"}, "full", {"unplayed"}) /\ UnwatchToggle(h, {h.d.conn[1]})

\* _handle_jellyfin_scrobble_webhook: nothing says which server an unwatch came
\* from, so it is pushed to all of them.
SidePlayback(h) ==
    \/ Is(h, {"jellyfin", "emby"}, "side", {"start"}) /\ StartSession(h, FALSE)
    \/ Is(h, {"jellyfin", "emby"}, "side", {"progress"}) /\ ProgressSession(h, FALSE)
    \/ Is(h, {"jellyfin", "emby"}, "side", {"stop"}) /\ StopSession(h)

SideToggles(h) ==
    \/ Is(h, {"jellyfin", "emby"}, "side", {"played"})
       /\ IF Kind[h.d.conn[1]] = "emby" \/ KeepsWatched(h) THEN MarkedPlayed(h) ELSE Ignored(h)
    \/ Is(h, {"jellyfin", "emby"}, "side", {"unplayed"}) /\ UnwatchToggle(h, {})

-----------------------------------------------------------------------------
(* Plex.                                                                   *)

\* media.play and media.resume.  Without a position in the report
\* _resolve_plex_progress asks the server; a known one replaces the row's.
KnownPosition(h) ==
    /\ Done(h)
    /\ IF KeepsSessions(h)
       THEN SaveSession(h, [Opened(h) EXCEPT !.pos = IF h.d.pos = 0 THEN @ ELSE h.d.pos])
       ELSE UNCHANGED session
    /\ Quietly

PlexPlay(h) == Is(h, {"plex"}, "full", {"start", "resume"}) /\ KnownPosition(h)

\* media.pause updates a row it found, and opens none.
PauseFound(h) ==
    /\ Done(h)
    /\ IF KeepsSessions(h) /\ h.row # None
       THEN SaveSession(h, [Opened(h) EXCEPT !.pos = h.d.pos])
       ELSE UNCHANGED session
    /\ Quietly

PlexPause(h) == Is(h, {"plex"}, "full", {"pause"}) /\ PauseFound(h)

\* media.stop: what was played is what the row says, and without sync_playback
\* nothing is committed, the deletion of the row included.
PlexStop(h) ==
    LET m == IF h.row # None THEN h.row.m ELSE h.d.m
        pos == StopPosition(h) IN
    /\ Is(h, {"plex"}, "full", {"stop"})
    /\ Done(h)
    /\ IF KeepsSessions(h)
       THEN /\ CloseSession(h)
            /\ IF KeepsWatched(h) THEN WriteWatch(h, m, pos) ELSE NoWrite
       ELSE UNCHANGED session /\ NoWrite
    /\ Scrobble(h, h.d.m, pos)
    /\ NoPush

\* media.scrobble: no outbound scrobble, the stop will send it; no commit
\* without sync_watched.
PlexScrobble(h) ==
    /\ Is(h, {"plex"}, "full", {"scrobble"})
    /\ Done(h)
    /\ IF KeepsWatched(h) THEN CloseSession(h) /\ WriteCompleted(h, h.d.m)
       ELSE UNCHANGED session /\ NoWrite
    /\ NoPush /\ UNCHANGED sent

\* _handle_plex_scrobble_webhook: no server to ask, and every branch commits.
PlexSide(h) ==
    \/ Is(h, {"plex"}, "side", {"start"}) /\ KnownPosition(h)
    \/ Is(h, {"plex"}, "side", {"resume"}) /\ ProgressSession(h, FALSE)
    \/ Is(h, {"plex"}, "side", {"pause"}) /\ PauseFound(h)
    \/ /\ Is(h, {"plex"}, "side", {"stop"})
       /\ Done(h) /\ CloseSession(h)
       /\ IF KeepsSessions(h) /\ KeepsWatched(h)
          THEN WriteWatch(h, h.d.m, StopPosition(h)) ELSE NoWrite
       /\ Scrobble(h, h.d.m, StopPosition(h)) /\ NoPush
    \/ /\ Is(h, {"plex"}, "side", {"scrobble"})
       /\ Done(h) /\ CloseSession(h)
       /\ IF KeepsWatched(h) THEN WriteCompleted(h, h.d.m) ELSE NoWrite
       /\ NoPush /\ UNCHANGED sent

-----------------------------------------------------------------------------
(* Kodi: no toggles; a library update is a stop that counts only once.     *)

KodiSession(h) ==
    \/ Is(h, {"kodi"}, "full", {"start"}) /\ StartSession(h, FALSE)
    \/ Is(h, {"kodi"}, "full", {"pause"}) /\ PauseFound(h)
    \/ Is(h, {"kodi"}, "full", {"resume", "progress"}) /\ ProgressSession(h, FALSE)

KodiStop(h) ==
    /\ Is(h, {"kodi"}, "full", {"stop", "library"})
    /\ IF h.d.ev = "library" /\ events[h.d.m] # {}
       THEN Ignored(h)
       ELSE StopSession(h)

-----------------------------------------------------------------------------
(* Sessions outside the webhooks, time and crashes.                        *)

\* _emby_progress_poller: refreshes rows the webhooks opened, and only those.
EmbyPoll(s) ==
    LET c == <<s, "full">> IN
    /\ Kind[s] = "emby" /\ c \in Conn \ NoSession
    /\ watching[s] # None /\ watching[s].pos > 0 /\ session[c] # None
    /\ session' = [session EXCEPT ![c].pos = watching[s].pos]
    /\ UNCHANGED <<now, progress, events, tokens, recent, inbox, busy, calls, server,
                   bounds, history>>

\* clear_now_playing_sessions.
ClearSessions ==
    /\ acts < MaxActs
    /\ \E c \in Conn : session[c] # None
    /\ acts' = acts + 1
    /\ session' = [c \in Conn |-> None]
    /\ UNCHANGED <<now, progress, events, tokens, recent, inbox, busy, calls, server,
                   again, crashes, history>>

\* The echoes of m among reports, handlers and calls.
Echoes(I, B, C, m) ==
    Cardinality({d \in I : Echo(d, m)}) + Cardinality({h \in B : Echo(h.d, m)})
        + Cardinality({c \in C : Echoed(c, m)})

\* The process dies and starts again: what is in memory is gone, and the
\* start-up deletes every session.  Reports may be lost meanwhile.
Crash ==
    /\ Faults < MaxFaults
    /\ crashes' = crashes + 1
    /\ session' = [c \in Conn |-> None]
    /\ tokens' = [m \in Media |-> <<>>]
    /\ expired' = [m \in Media |-> expired[m] + Len(tokens[m])]
    /\ recent' = {} /\ busy' = {} /\ calls' = {}
    /\ inbox' \in {inbox, {}}
    /\ astray' = [m \in Media |-> astray[m] + Echoes(inbox \ inbox', busy, calls, m)]
    /\ UNCHANGED <<now, progress, events, server, acts, again, genuine,
                   hidden, eaten, cleared, recorded, sent>>

Tick ==
    /\ now < MaxTime
    /\ \A x \in inbox \cup calls : ~Older(x)
    /\ \A h \in busy : ~Older(h.d)
    /\ \A s \in Server :
          Kind[s] = "plex" /\ watching[s] # None /\ ~LongCredits => watching[s].pos < 2
    /\ now' = now + 1
    /\ UNCHANGED <<session, progress, events, tokens, recent, inbox, busy, calls, server,
                   bounds, history>>

Finish(h) ==
    \/ JellyfinPlayback(h) \/ JellyfinToggles(h)
    \/ EmbyPlayback(h) \/ EmbyToggles(h)
    \/ SidePlayback(h) \/ SideToggles(h)
    \/ PlexPlay(h) \/ PlexPause(h) \/ PlexStop(h) \/ PlexScrobble(h) \/ PlexSide(h)
    \/ KodiSession(h) \/ KodiStop(h)

UserActs ==
    \/ \E s \in Server, m \in Media :
          \/ Play(s, m) \/ PushWatchedForNewItem(s, m)
          \/ \E w \in BOOLEAN : Toggle(s, m, w)
    \/ \E s \in Server : Advance(s) \/ Pause(s) \/ Resume(s) \/ StopPlaying(s)
    \/ \E m \in Media : UnwatchItem(m) \/ \E force \in BOOLEAN : MarkAsWatched(m, force)
    \/ ClearSessions

Answer ==
    \/ \E c \in calls : ServerCall(c)
    \/ \E d \in inbox : Begin(d)
    \/ \E h \in busy : Finish(h)

Next == UserActs \/ Answer \/ (\E s \in Server : EmbyPoll(s)) \/ Crash \/ Tick

Spec == Init /\ [][Next]_vars

-----------------------------------------------------------------------------
(* Properties.                                                             *)

Sessions == [m : Media, pos : Position, n : Nat] \cup {None}

Report == [conn : Conn, m : Media, pos : Position, ended : BOOLEAN, at : Time, n : Nat,
           ev : {"start", "progress", "pause", "resume", "stop", "scrobble", "library",
                 "played", "unplayed"}]
Handler == [d : Report, row : Sessions, twice : BOOLEAN, k : Nat]
Call == [s : Pushing, m : Media, w : BOOLEAN, at : Time]

\* Every variable has its type; what is on its way is finite.
TypeOK ==
    /\ now \in Time
    /\ session \in [Conn -> Sessions]
    /\ progress \subseteq Media
    /\ events \in [Media -> SUBSET Time] /\ tokens \in [Media -> Seq(Time)]
    /\ inbox \subseteq Report /\ busy \subseteq Handler /\ calls \subseteq Call
    /\ IsFiniteSet(inbox) /\ IsFiniteSet(busy) /\ IsFiniteSet(calls)
    /\ watching \in [Server -> {None} \cup [m : Media, pos : Position]]
    /\ flag \subseteq Server \X Media
    /\ {acts, again, crashes} \subseteq Nat
    /\ {genuine, expired, hidden, astray, eaten, cleared, recorded, sent} \subseteq [Media -> Nat]

\* The history never holds more plays of an item than there were: a play that
\* several reports tell of counts once, and the echoes of Scrob's own pushes
\* count only for tokens that were lost, or ran out before the echo came, and
\* for reports a server made twice.
NoPhantomPlay ==
    \A m \in Media : Cardinality(events[m]) <= genuine[m] + expired[m] + again + crashes

\* A user's play is taken for the echo of a push only in place of one: for each
\* that is hidden there is an echo that went astray (the call failed, made no
\* report or was lost, or the echo came without a live token, so that it is
\* taken for a play in turn) or is still to come.
HiddenForEcho ==
    \A m \in Media : hidden[m] <= astray[m] + Echoes(inbox, busy, calls, m)

\* The claim of _recently_pushed_watched's comment: a token is for "the one echo
\* expected back, so a genuine later rewatch isn't silently swallowed too".
RewatchNotHidden == \A m \in Media : hidden[m] = 0

\* No outbound scrobble is made of an echo: the services hear of no more plays
\* than there were, save for tokens that ran out or went to the report of
\* another play, and for reports a server made twice.
NothingLeavesForEcho ==
    \A m \in Media : sent[m] <= genuine[m] + expired[m] + eaten[m]
                 + again + crashes * Cardinality(Conn)

InFlight(c) == (\E d \in inbox : d.conn = c) \/ (\E h \in busy : h.d.conn = c)

\* Now playing shows what plays: where the reports of a server arrive one at a
\* time, a row whose playback is over is on its way out.  Plex is left out: its
\* second stop within Retry is taken for the first one delivered again.
NowPlayingTrue ==
    \A c \in Ordered :
        Kind[c[1]] # "plex" /\ session[c] # None => watching[c[1]] # None \/ InFlight(c)

\* An unwatch that servers report back to each other comes to rest: every round
\* of calls takes a play away, and there are only so many.
RoundsEnd == \A m \in Media : cleared[m] <= recorded[m]

-----------------------------------------------------------------------------
(* What is invariant step by step (PlaybackProofs).                        *)

\* Each token left is for an echo to come, or for one that went astray and hid
\* no play yet.
TokensOwed ==
    \A m \in Media :
        hidden[m] + Len(tokens[m]) <= astray[m] + Echoes(inbox, busy, calls, m)

\* A report about to be sent again is not mixed up with its first copy.
CopiesApart ==
    \A h \in busy : Kind[h.d.conn[1]] # "plex" /\ h.d \in inbox => h.k < again

\* A media that has plays has one more recorded than rounds took away.
PlaysOwed ==
    \A m \in Media :
        /\ cleared[m] <= recorded[m]
        /\ events[m] # {} => cleared[m] < recorded[m]

\* Where reports arrive one at a time, one handler is at work, with the oldest
\* report and the row that is there.
OneAtATime(c) ==
    /\ \A h, g \in busy : h.d.conn = c /\ g.d.conn = c => h = g
    /\ \A h \in busy : h.d.conn = c =>
          /\ \A d \in inbox : d.conn = c => h.d.n <= d.n
          /\ session[c] # None => h.row # None /\ session[c].n = h.row.n

\* Reports that open a session.
Opens(d) == d.ev \in {"start", "progress", "pause", "resume"}
UnderWay(c) == {d \in inbox \cup {h.d : h \in busy} : d.conn = c}

\* Nothing plays: no row is there or to come, or a stop is on its way behind all
\* that opens one.
StopComes(c) ==
    watching[c[1]] = None =>
        \/ session[c] = None /\ \A d \in UnderWay(c) : ~Opens(d)
        \/ \E e \in UnderWay(c) : e.ev = "stop" /\ \A d \in UnderWay(c) : Opens(d) => d.n < e.n

SessionsEnd == \A c \in Ordered : Kind[c[1]] # "plex" => OneAtATime(c) /\ StopComes(c)
=============================================================================
