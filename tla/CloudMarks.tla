----------------------------- MODULE CloudMarks ----------------------------
(***************************************************************************)
(* How ratings, watchlists and dropped shows travel between this user's    *)
(* account and the cloud services: each change pushed once at best effort, *)
(* pulls that overwrite, mirror or only add, and full pushes that make up  *)
(* for what the first push missed (routers/trakt.py, simkl.py, mdblist.py, *)
(* ratings.py, lists.py, history.py).                                      *)
(*                                                                         *)
(* One kind of mark at a time.  Ratings and dropped shows are kept once,   *)
(* lists once for each connection: the keys of mine.  A fourth kind, what  *)
(* is collected, is CloudShelves'.                                         *)
(***************************************************************************)
EXTENDS Integers, FiniteSets

CONSTANTS
    Media, Watched,     \* media, and those with a completed watch event
    Conn, Setups,       \* connections; {[part, svc]}: the marks and each one's service
    Scores,             \* ratings, in half points
    MaxChanges,         \* bound for each kind of mark: changes
    MaxFails,           \* bound: calls and items that fail, jobs that break off
    MaxJobs             \* bound for each kind: pulls and pushes at work at one time

Service == {"trakt", "trakt split", "simkl", "mdblist", "nuvio", "stremio"}
Kind == {"ratings", "lists", "drops", "shelf"}
NoWord == -1

ASSUME ConstantsAssumption ==
    /\ Watched \subseteq Media /\ "all" \notin Conn
    /\ Setups \subseteq [part : Kind, svc : [Conn -> Service]]
    /\ \A s \in Setups, c \in Conn : s.part # "shelf" => s.svc[c] \notin {"nuvio", "stremio"}
    /\ Scores \subseteq 1..20
    /\ MaxChanges \in [Kind -> Nat] /\ MaxFails \in Nat /\ MaxJobs \in [Kind -> Nat]

Key == Conn \cup {"all"}

VARIABLES
    setup,
    mine,       \* [Key -> [Media -> a rating, or 1 if listed or dropped, 0 if not]]
    theirs,     \* the same at each service
    pull, push, \* the jobs at work for each connection
    changes, fails,     \* bounds
    word        \* history: what the user said last of a mark, if it was said here, with
                \* no job at work, and reached every service

vars == <<setup, mine, theirs, pull, push, changes, fails, word>>

part == setup.part
svc == setup.svc
NoJob == [at |-> "idle"]
KeyOf(c) == IF part = "lists" THEN c ELSE "all"
Keys == {KeyOf(c) : c \in Conn}
Marks == IF part = "ratings" THEN Scores \cup {0} ELSE {0, 1}
Has(marks) == {m \in Media : marks[m] # 0}
Nothing == [m \in Media |-> 0]

Init ==
    /\ setup \in Setups
    /\ mine = [k \in Key |-> Nothing] /\ theirs = [c \in Conn |-> Nothing]
    /\ pull = [c \in Conn |-> NoJob] /\ push = [c \in Conn |-> NoJob]
    /\ changes = 0 /\ fails = 0
    /\ word = [k \in Key |-> [m \in Media |-> NoWord]]

-----------------------------------------------------------------------------
(* The user's changes.                                                     *)

Fail(failed) == fails' = fails + (IF failed THEN 1 ELSE 0) /\ fails' <= MaxFails
Change == changes < MaxChanges[part] /\ changes' = changes + 1

\* Whole points, halves to the even one, but at least one point.
Rounded(v) ==
    CASE v % 2 = 0 -> v
      [] v % 4 = 1 /\ v # 1 -> v - 1
      [] OTHER -> v + 1

\* What each service holds of m after it is sent mark v, or its removal (v = 0), where
\* it held the mark now.  Trakt and Simkl keep whole points, and Simkl is not sent the
\* rating of what was not watched, which it would file as watched.
TraktRating(v) == IF v = 0 THEN 0 ELSE Rounded(v)
MdblistRating(v) == v
SimklRating(m, v, now) == IF v # 0 /\ m \notin Watched THEN now ELSE TraktRating(v)

\* Nothing is written to Simkl's watchlist.
ListEntry(c, v, now) == IF svc[c] = "simkl" THEN now ELSE v

\* Trakt does not show the drop of a show that was not watched.
DroppedShow(c, m, v, now) == IF v # 0 /\ svc[c] = "trakt" /\ m \notin Watched THEN now ELSE v

Sent(c, m, v, now) ==
    CASE part = "ratings" -> CASE svc[c] = "mdblist" -> MdblistRating(v)
                               [] svc[c] = "simkl" -> SimklRating(m, v, now)
                               [] OTHER -> TraktRating(v)
      [] part = "lists" -> ListEntry(c, v, now)
      [] part = "drops" -> DroppedShow(c, m, v, now)

Idle == \A c \in Conn : pull[c] = NoJob /\ push[c] = NoJob
Sharing(k) == {c \in Conn : KeyOf(c) = k}
Hears(k) == ~(part = "lists" /\ \E c \in Sharing(k) : svc[c] = "simkl")

\* The user gives m the mark v, or takes its mark back (v = 0); the services reached
\* are told.
Say(k, m, v, reached) ==
    /\ Change /\ reached \subseteq Sharing(k)
    /\ mine' = [mine EXCEPT ![k][m] = v]
    /\ theirs' = [c \in Conn |-> IF c \in reached
                    THEN [theirs[c] EXCEPT ![m] = Sent(c, m, v, @)] ELSE theirs[c]]
    /\ Fail(reached # Sharing(k))
    /\ word' = [word EXCEPT ![k][m] =
                    IF Idle /\ reached = Sharing(k) /\ Hears(k) THEN v ELSE NoWord]
    /\ UNCHANGED <<setup, pull, push>>

Rate(m, v, reached) == part = "ratings" /\ v # 0 /\ Say("all", m, v, reached)
Unrate(m, reached) == part = "ratings" /\ mine["all"][m] # 0 /\ Say("all", m, 0, reached)

AddToList(c, m, reached) == part = "lists" /\ mine[c][m] = 0 /\ Say(c, m, 1, reached)
RemoveFromList(c, m, reached) == part = "lists" /\ mine[c][m] # 0 /\ Say(c, m, 0, reached)

\* A show can be dropped or undropped again: the services are told again.
DropShow(m, reached) == part = "drops" /\ Say("all", m, 1, reached)
UndropShow(m, reached) == part = "drops" /\ Say("all", m, 0, reached)

\* All ratings are deleted, and no service is told.
ClearRatings ==
    /\ part = "ratings" /\ Change
    /\ mine' = [mine EXCEPT !["all"] = Nothing]
    /\ word' = [word EXCEPT !["all"] = [m \in Media |-> NoWord]]
    /\ UNCHANGED <<setup, theirs, pull, push, fails>>

\* A mark is changed at the service.
SayThere(c, m, v) ==
    /\ Change /\ part # "shelf" /\ v # theirs[c][m]
    /\ (part = "ratings" => v = Rounded(v))
    /\ theirs' = [theirs EXCEPT ![c][m] = v]
    /\ word' = [word EXCEPT ![KeyOf(c)][m] = NoWord]
    /\ UNCHANGED <<setup, mine, pull, push, fails>>

-----------------------------------------------------------------------------
(* Pulls.                                                                  *)

Free ==
    Cardinality({c \in Conn : pull[c] # NoJob}) + Cardinality({c \in Conn : push[c] # NoJob})
        < MaxJobs[part]

\* Reads the service.  Ratings and the settings with the dropped shows are read
\* now; the items of a list when they are written.
PullRead(c) ==
    /\ Free /\ part # "shelf" /\ pull[c] = NoJob
    /\ pull' = [pull EXCEPT ![c] =
        [at |-> "read", rows |-> theirs[c],
         known |-> IF part = "lists" THEN Nothing ELSE mine[KeyOf(c)]]]
    /\ UNCHANGED <<setup, mine, theirs, push, changes, fails, word>>

\* Trakt's and MDBList's ratings overwrite one that differs from what was read;
\* Simkl's never do.  A row that came or went in between fails its savepoint.
TraktImport(row, known, now) ==
    CASE row \in {0, known} -> now
      [] OTHER -> IF (known = 0) = (now = 0) THEN row ELSE now

MdblistImport(row, known, now) == TraktImport(row, known, now)

SimklImport(row, known, now) == IF row # 0 /\ known = 0 /\ now = 0 THEN row ELSE now

\* The items of one service's list after a pull in which the items ok succeed.
UnifiedWatchlist(rows, now, ok) == Has(now) \cup (Has(rows) \cap ok)
SplitWatchlist(rows, now, ok) == (Has(now) \cap Has(rows)) \cup (Has(rows) \cap ok)
SimklWatchlist(rows, now, ok) == Has(now) \cup (Has(rows) \cap ok)
MdblistWatchlist(rows, now, ok) == Has(rows) \cap ok

\* Mutant: the dropped shows become those of the service.
DropsMirrored(rows, known, now) == Has(rows)

\* Writes back the dropped shows as the job read them, with the new ones, if
\* there are new ones.
DropsAdded(rows, known, now) ==
    IF Has(rows) \subseteq Has(known) THEN Has(now) ELSE Has(known) \cup Has(rows)

AsMarks(set) == [m \in Media |-> IF m \in set THEN 1 ELSE 0]

Pulled(c, ok) ==
    LET now == mine[KeyOf(c)]
        rows == pull[c].rows
        known == pull[c].known
    IN CASE part = "ratings" ->
              [m \in Media |->
                 IF m \notin ok THEN now[m]
                 ELSE CASE svc[c] = "simkl" -> SimklImport(rows[m], known[m], now[m])
                        [] svc[c] = "mdblist" -> MdblistImport(rows[m], known[m], now[m])
                        [] OTHER -> TraktImport(rows[m], known[m], now[m])]
         [] part = "lists" ->
              AsMarks(CASE svc[c] = "trakt" -> UnifiedWatchlist(rows, now, ok)
                        [] svc[c] = "trakt split" -> SplitWatchlist(rows, now, ok)
                        [] svc[c] = "simkl" -> SimklWatchlist(rows, now, ok)
                        [] svc[c] = "mdblist" -> MdblistWatchlist(rows, now, ok))
         [] OTHER -> AsMarks(DropsAdded(rows, known, now))

\* The items ok succeed; a job that breaks off has written nothing.
PullApply(c, ok, clean) ==
    /\ pull[c] # NoJob
    /\ mine' = IF clean THEN [mine EXCEPT ![KeyOf(c)] = Pulled(c, ok)] ELSE mine
    /\ Fail(~clean \/ ok # Media)
    /\ word' = [word EXCEPT ![KeyOf(c)] = [m \in Media |-> IF m \in ok THEN @[m] ELSE NoWord]]
    /\ pull' = [pull EXCEPT ![c] = NoJob]
    /\ UNCHANGED <<setup, theirs, push, changes>>

-----------------------------------------------------------------------------
(* Full pushes.                                                            *)

\* Ratings Trakt does not have with the same whole points, all of them for
\* MDBList, those of watched media for Simkl.
RatingsPlan(c) ==
    {m \in Has(mine["all"]) :
        CASE svc[c] = "simkl" -> m \in Watched
          [] svc[c] = "mdblist" -> TRUE
          [] OTHER -> theirs[c][m] # Rounded(mine["all"][m])}

\* Only MDBList's full push sends the watchlist.
ListPlan(c) == IF svc[c] = "mdblist" THEN Has(mine[c]) ELSE {}

\* The dropped shows the service is missing; for Trakt those that were started.
DropsPlan(c) ==
    (IF svc[c] = "trakt" THEN Has(mine["all"]) \cap Watched ELSE Has(mine["all"]))
        \ Has(theirs[c])

PushRead(c) ==
    /\ Free /\ part # "shelf" /\ push[c] = NoJob
    /\ push' = [push EXCEPT ![c] =
        [at |-> "read", had |-> mine[KeyOf(c)],
         plan |-> CASE part = "ratings" -> RatingsPlan(c)
                    [] part = "lists" -> ListPlan(c)
                    [] part = "drops" -> DropsPlan(c)]]
    /\ UNCHANGED <<setup, mine, theirs, pull, changes, fails, word>>

\* Sends the marks ok of the plan.  Simkl may move shows back to watching when it
\* is sent the history, which comes before the drops.
PushSend(c, ok, moved) ==
    /\ push[c] # NoJob /\ ok \subseteq push[c].plan
    /\ moved \subseteq (IF part = "drops" /\ svc[c] = "simkl"
                        THEN Has(theirs[c]) \cap Watched ELSE {})
    /\ theirs' = [theirs EXCEPT ![c] = [m \in Media |->
            IF m \in ok THEN Sent(c, m, push[c].had[m], @[m])
            ELSE IF m \in moved THEN 0 ELSE @[m]]]
    /\ Fail(ok # push[c].plan)
    /\ push' = [push EXCEPT ![c] = NoJob]
    /\ UNCHANGED <<setup, mine, pull, changes, word>>

-----------------------------------------------------------------------------
Next ==
    \/ \E m \in Media, v \in Marks, reached \in SUBSET Conn : Rate(m, v, reached)
    \/ \E m \in Media, reached \in SUBSET Conn : Unrate(m, reached)
    \/ \E c \in Conn, m \in Media, reached \in SUBSET Conn : AddToList(c, m, reached)
    \/ \E c \in Conn, m \in Media, reached \in SUBSET Conn : RemoveFromList(c, m, reached)
    \/ \E m \in Media, reached \in SUBSET Conn : DropShow(m, reached)
    \/ \E m \in Media, reached \in SUBSET Conn : UndropShow(m, reached)
    \/ ClearRatings
    \/ \E c \in Conn, m \in Media, v \in Marks : SayThere(c, m, v)
    \/ \E c \in Conn : PullRead(c)
    \/ \E c \in Conn, ok \in SUBSET Media, clean \in BOOLEAN : PullApply(c, ok, clean)
    \/ \E c \in Conn : PushRead(c)
    \/ \E c \in Conn, ok, moved \in SUBSET Media : PushSend(c, ok, moved)

Spec == Init /\ [][Next]_vars

\* The scheduler starts every pull and push again and again, and jobs end.  Strong
\* fairness, since the bound MaxJobs keeps one job waiting for another.
Fairness ==
    \A c \in Conn :
        /\ SF_vars(PullRead(c)) /\ WF_vars(PullApply(c, Media, TRUE))
        /\ SF_vars(PushRead(c))
        /\ WF_vars(push[c] # NoJob /\ PushSend(c, push[c].plan, {}))

FairSpec == Spec /\ Fairness

-----------------------------------------------------------------------------
\* Ratings come back rounded.
Values == IF part = "ratings" THEN {0} \cup Scores \cup {Rounded(v) : v \in Scores} ELSE {0, 1}
Table == [Media -> Values]

TypeOK ==
    LET Read == [at : {"read"}, rows : Table, known : Table]
        Sending == [at : {"read"}, had : Table, plan : SUBSET Media]
    IN /\ setup \in Setups
       /\ mine \in [Key -> Table] /\ theirs \in [Conn -> Table]
       /\ pull \in [Conn -> Read \cup {NoJob}] /\ push \in [Conn -> Sending \cup {NoJob}]
       /\ part = "shelf" => Idle
       /\ changes \in 0..MaxChanges[part] /\ fails \in 0..MaxFails
       /\ word \in [Key -> [Media -> Values \cup {NoWord}]]

Near(w) == {w} \cup (IF part = "ratings" THEN {Rounded(w)} ELSE {})

\* What the user said here while nothing was at work, and what reached every
\* service, stands until the user says something else: no pull or push brings
\* back an older rating, list entry or drop, or loses the new one.  A rating may
\* be rounded on its way to the service and back.
WordStands ==
    \A k \in Keys, m \in Media : word[k][m] # NoWord => mine[k][m] \in Near(word[k][m])

\* What a service has and a pull takes is here, and what is here and a full push
\* sends is at the service.
Agreed(c) ==
    LET here == Has(mine[KeyOf(c)])
        there == Has(theirs[c])
    IN /\ there \subseteq here
       /\ CASE part = "ratings" ->
                 (IF svc[c] = "simkl" THEN here \cap Watched ELSE here) \subseteq there
            [] part = "drops" ->
                 (IF svc[c] = "trakt" THEN here \cap Watched ELSE here) \subseteq there
            [] part = "lists" -> svc[c] \in {"mdblist", "trakt split"} => here \subseteq there

\* A pull of dropped shows only adds: a show the user has dropped stays dropped.
AdditiveDrops ==
    [][part = "drops" =>
        \A c \in Conn : pull[c] # NoJob /\ pull'[c] = NoJob =>
            Has(mine["all"]) \subseteq Has(mine'["all"])]_vars

\* When a push has sent everything, the shows it found dropped here are dropped at
\* the service.
DropIsFinal ==
    [][part = "drops" =>
        \A c \in Conn : push[c] # NoJob /\ push'[c] = NoJob /\ fails' = fails =>
            Has(push[c].had) \cap Watched \subseteq Has(theirs'[c])]_vars

-----------------------------------------------------------------------------
(* What is invariant step by step, and WordStands follows from             *)
(* (CloudShelvesProofs): the user's word is what every service holds, what *)
(* every pull at work has read and what every push at work will send.      *)

\* What a service may hold against the word w: what it was not sent, since the media
\* was not watched; no pull takes it for more than what is here.
Excused(c, m, w) ==
    \/ part = "ratings" /\ svc[c] = "simkl" /\ m \notin Watched /\ w # 0
    \/ part = "drops" /\ w = 1

WordHeld ==
    \A c \in Conn, m \in Media :
        LET k == KeyOf(c)
            w == word[k][m]
        IN w # NoWord =>
            /\ Hears(k) /\ mine[k][m] \in Near(w)
            /\ Excused(c, m, w) \/ theirs[c][m] \in Near(w)
            /\ pull[c] # NoJob => /\ Excused(c, m, w) \/ pull[c].rows[m] \in Near(w)
                                  /\ part = "lists" \/ pull[c].known[m] \in Near(w)
            /\ push[c] # NoJob => push[c].had[m] \in Near(w)
=============================================================================
