------------------------------ MODULE WeTrakr ------------------------------
(***************************************************************************)
(* The incremental pull and push between the user's account and WeTrakr    *)
(* (routers/wetrakr.py): three bookmarks, the feeds read after them, the   *)
(* best-effort push of a fresh change, and what fails or is switched on in *)
(* between.                                                                *)
(*                                                                         *)
(* A moment is kept as the set of bookmarks it is later than, "job" being  *)
(* the one that the job at work will leave: only these are compared.       *)
(***************************************************************************)
EXTENDS Integers, Sequences, FiniteSets

CONSTANTS
    Item, Setups,       \* items, and the sets of sections that take part
    Choices,            \* the sets of sections the user may choose to push
    MaxChanges,         \* bound: changes here, there and of the settings
    MaxFails            \* bound: calls, items and jobs that fail

Section == {"watched", "ratings", "lists", "comments"}
Order == <<"watched", "ratings", "lists", "comments">>
Core == {"watched", "ratings"}

ASSUME ConstantsAssumption ==
    /\ Setups \subseteq SUBSET Section /\ Choices \subseteq SUBSET Section
    /\ {MaxChanges, MaxFails} \subseteq Nat

VARIABLES
    secs,       \* the sections in play
    mine,       \* committed rows here
    open,       \* rows of transactions that have not committed
    theirs,     \* entries at WeTrakr
    listed,     \* our list has a WeTrakr id
    pulling, pushing,   \* wetrakr_sync_*, wetrakr_push_*
    marked,     \* the bookmarks that are set
    job,        \* the job at work
    changes, fails,     \* bounds
    writes,     \* history: how often the last comment on each item was accepted
    lost,       \* history: answers to the writing of a comment that were lost
    excused,    \* history: what a bookmark passes for a reason known to the code
    raced       \* history: a setting changed under a job

world == <<mine, open, theirs, listed>>
user == <<secs, pulling, pushing>>
history == <<writes, lost, excused, raced>>
vars == <<secs, mine, open, theirs, listed, pulling, pushing, marked, job, changes, fails,
          writes, lost, excused, raced>>

\* added: created_at, rated_at, added_at; ours: not pulled from WeTrakr; linked: a
\* comment with its WeTrakr id.
Row == [sec : Section, item : Item, ours : BOOLEAN, linked : BOOLEAN,
        added : SUBSET {"push", "lists", "job"}]
\* hidden: after journal_visible_until.
Entry == [sec : Section, item : Item, hidden : BOOLEAN, stamp : SUBSET {"pull", "job"}]

NoJob == [kind |-> "none"]
Later(moment, mark) == mark \notin marked \/ mark \in moment
Now == {"push", "lists", "job"}
Items(rows, s) == {r.item : r \in {q \in rows : q.sec = s}}

Init ==
    /\ secs \in Setups
    /\ mine = {} /\ open = {} /\ theirs = {} /\ listed = FALSE
    /\ pulling = secs /\ pushing \in Choices \cap SUBSET secs /\ marked = {}
    /\ job = NoJob
    /\ changes = 0 /\ fails = 0
    /\ writes = [i \in Item |-> 0] /\ lost = 0 /\ excused = {} /\ raced = FALSE

Change == changes < MaxChanges /\ changes' = changes + 1
Fail(failed) == fails' = fails + (IF failed THEN 1 ELSE 0) /\ fails' <= MaxFails

\* WeTrakr takes what it does not have yet.
Told(there, s, items) ==
    there \cup {[sec |-> s, item |-> i, hidden |-> TRUE, stamp |-> {"pull", "job"}] :
                i \in items \ Items(there, s)}

-----------------------------------------------------------------------------
(* The user, here, there and in the settings.                              *)

\* A transaction writes a row: stamped with its start, and an imported rating with
\* the day it was given.
Write(s, i, imported) ==
    /\ Change
    /\ i \notin Items(mine \cup open, s)
    /\ imported => s = "ratings"
    /\ open' = open \cup {[sec |-> s, item |-> i, ours |-> TRUE, linked |-> FALSE,
                           added |-> IF imported THEN {} ELSE Now]}
    /\ writes' = IF s = "comments" THEN [writes EXCEPT ![i] = 0] ELSE writes
    /\ UNCHANGED <<user, mine, theirs, listed, marked, job, fails, lost, excused, raced>>

\* It commits; a play or a rating may be pushed right away.
Commit(r, live) ==
    /\ r \in open /\ (live => r.sec \in Core \cap pushing)
    /\ open' = open \ {r} /\ mine' = mine \cup {r}
    /\ theirs' = IF live THEN Told(theirs, r.sec, {r.item}) ELSE theirs
    /\ excused' = IF r.added = Now THEN excused ELSE excused \cup {<<"push", r.sec, r.item>>}
    /\ UNCHANGED <<user, listed, marked, job, changes, fails, writes, lost, raced>>

\* The user unwatches a film; unrates, unlists and deleting a comment (ratings.py:247,
\* lists.py:1405, comments.py:179) do alike.  WeTrakr is not told.
Forget(r) ==
    /\ Change /\ r \in mine
    /\ mine' = mine \ {r}
    /\ excused' = excused \cup {<<"pull", r.sec, r.item>>}
    /\ UNCHANGED <<user, open, theirs, listed, marked, job, fails, writes, lost, raced>>

\* Something is marked at WeTrakr, again or for the first time.
WriteThere(s, i) ==
    /\ Change
    /\ theirs' = Told({e \in theirs : e.sec # s \/ e.item # i}, s, {i})
    /\ UNCHANGED <<user, mine, open, listed, marked, job, fails, history>>

\* journal_visible_until reaches the last change.
Appear ==
    /\ \E e \in theirs : e.hidden
    /\ theirs' = {[e EXCEPT !.hidden = FALSE] : e \in theirs}
    /\ UNCHANGED <<user, mine, open, listed, marked, job, changes, fails, history>>

\* PATCH /auth/settings: switching something on resets the bookmark it needs.
ResetBy(pullOn, pushOn) ==
    (IF pullOn # {} THEN {"pull"} ELSE {})
      \cup (IF pushOn \cap Core # {} THEN {"push"} ELSE {})
      \cup (IF "lists" \in pushOn THEN {"lists"} ELSE {})

Settings(newPull, newPush) ==
    /\ Change /\ <<newPull, newPush>> # <<pulling, pushing>>
    /\ pulling' = newPull /\ pushing' = newPush
    /\ marked' = marked \ ResetBy(newPull \ pulling, newPush \ pushing)
    /\ raced' = (raced \/ job # NoJob)
    /\ UNCHANGED <<secs, world, job, fails, writes, lost, excused>>

\* Connected anew, _reset_wetrakr_bookmarks.
Reconnect ==
    /\ Change
    /\ marked' = {}
    /\ raced' = (raced \/ job # NoJob)
    /\ UNCHANGED <<user, world, job, fails, writes, lost, excused>>

-----------------------------------------------------------------------------
(* The pull.                                                               *)

Visible == {e \in theirs : ~e.hidden}

\* The first of the stages k, k + 1, ... whose section is one of S, or the end.
Stage(k, S) ==
    LET at == {n \in k..4 : Order[n] \in S}
    IN IF at = {} THEN 5 ELSE CHOOSE n \in at : \A o \in at : n <= o

\* A pull begins: of everything if the user asked for it.  Without an answer to
\* last_activities it reads every section and leaves no bookmark; with nothing new
\* it ends at once.
PullStart(full, answered, blocked) ==
    LET after == IF full THEN marked \ {"pull"} ELSE marked
        news(e) == "pull" \notin after \/ "pull" \in e.stamp
        changed == {s \in pulling : ~answered \/ \E e \in theirs : e.sec = s /\ news(e)}
        read == IF blocked THEN changed \ {"comments"} ELSE changed
    IN
    /\ job = NoJob
    /\ Fail(~answered \/ blocked)
    /\ marked' = after
    /\ IF answered /\ "pull" \in after /\ \A e \in Visible : ~news(e)
       THEN UNCHANGED <<theirs, job, excused>>
       ELSE /\ theirs' = {IF e.hidden THEN [e EXCEPT !.stamp = @ \cup {"job"}]
                          ELSE [e EXCEPT !.stamp = @ \ {"job"}] : e \in theirs}
            /\ job' = [kind |-> "pull", stage |-> Stage(1, read), flags |-> read,
                       stamped |-> answered, errors |-> FALSE, all |-> "pull" \notin after,
                       known |-> Items(mine, "watched")]
            /\ excused' = excused \cup
                 (IF blocked THEN {<<"pull", "comments", i>> : i \in Item} ELSE {})
    /\ UNCHANGED <<user, mine, open, listed, changes, writes, lost, raced>>

\* What the feed of section s answers.
Feed(s) == {e.item : e \in {f \in Visible : f.sec = s /\ (job.all \/ "pull" \in f.stamp)}}

\* Mutant of Counts: an item that fails is forgotten.
NoError(s, failed) == FALSE

\* Whether what was not imported counts as an error: not if a list's items could
\* not be read.
Counts(s, failed) == s # "lists" /\ failed # {}

Imported(s, items) ==
    {[sec |-> s, item |-> i, ours |-> FALSE, linked |-> s = "comments", added |-> Now] : i \in items}

\* Plays are compared with those the job knew when it began, the rest with what is
\* there when the section is read.
WatchedIn(ok) == Imported("watched", ok \ job.known)
RatingsIn(ok) == Imported("ratings", ok \ Items(mine, "ratings"))
ListItemsIn(ok) == Imported("lists", ok \ Items(mine, "lists"))
CommentsIn(ok) == Imported("comments", ok \ Items(mine, "comments"))

\* One section: the items ok of the feed are there or come in.
PullSection(ok) ==
    LET s == Order[job.stage]
        failed == Feed(s) \ ok
    IN
    /\ job.kind = "pull" /\ job.stage < 5
    /\ ok \subseteq Feed(s)
    /\ Fail(failed # {})
    /\ mine' = mine \cup CASE s = "watched" -> WatchedIn(ok)
                            [] s = "ratings" -> RatingsIn(ok)
                            [] s = "lists" -> ListItemsIn(ok)
                            [] s = "comments" -> CommentsIn(ok)
    /\ listed' = (listed \/ (s = "lists" /\ Feed(s) # {}))
    /\ excused' = IF Counts(s, failed) THEN excused
                  ELSE excused \cup {<<"pull", s, i>> : i \in IF s = "lists" THEN failed ELSE {}}
    /\ job' = [job EXCEPT !.stage = Stage(@ + 1, job.flags), !.errors = @ \/ Counts(s, failed)]
    /\ UNCHANGED <<user, open, theirs, marked, changes, writes, lost, raced>>

\* The bookmark moves if nothing failed.
PullEnd ==
    LET moves == job.stamped /\ ~job.errors IN
    /\ job.kind = "pull" /\ job.stage = 5
    /\ marked' = IF moves THEN marked \cup {"pull"} ELSE marked
    /\ theirs' = IF ~moves THEN theirs
                 ELSE {[e EXCEPT !.stamp = IF "job" \in @ THEN {"pull", "job"} ELSE {}] : e \in theirs}
    /\ job' = NoJob
    /\ UNCHANGED <<user, mine, open, listed, changes, fails, history>>

-----------------------------------------------------------------------------
(* The push.                                                               *)

\* Mutant of CorePlan: what a pull brought does not go out.
CorePlanOurs ==
    {<<r.sec, r.item>> : r \in {q \in mine : /\ q.sec \in Core \cap pushing
                                             /\ q.ours /\ q.added # {} /\ Later(q.added, "lists")}}

\* Plays that did not come from WeTrakr and ratings, later than the bookmark.
CorePlan ==
    {<<r.sec, r.item>> : r \in {q \in mine : /\ q.sec \in Core \cap pushing
                                             /\ q.sec = "watched" => q.ours
                                             /\ Later(q.added, "push")}}

\* A push takes the time, then reads what is newer than the bookmark.
PushStart ==
    LET stamped(rows) == {[r EXCEPT !.added = @ \ {"job"}] : r \in rows} IN
    /\ job = NoJob /\ pushing # {}
    /\ CorePlan # {} \/ pushing \cap {"lists", "comments"} # {}
    /\ mine' = stamped(mine) /\ open' = stamped(open)
    /\ job' = [kind |-> "push", stage |-> "core", flags |-> pushing, plan |-> CorePlan,
               coreFailed |-> FALSE, listsDone |-> FALSE, quota |-> FALSE, tried |-> {}]
    /\ UNCHANGED <<user, theirs, listed, marked, changes, fails, history>>

\* Plays and ratings go out in batches; a used-up quota ends the push's calls.
PushCore(ok, quota) ==
    /\ job.kind = "push" /\ job.stage = "core"
    /\ ok \subseteq job.plan /\ (quota => ok # job.plan)
    /\ Fail(ok # job.plan)
    /\ theirs' = Told(Told(theirs, "watched", {p[2] : p \in {q \in ok : q[1] = "watched"}}),
                      "ratings", {p[2] : p \in {q \in ok : q[1] = "ratings"}})
    /\ job' = [job EXCEPT !.coreFailed = ok # job.plan, !.quota = quota,
                          !.stage = IF quota THEN "end" ELSE "lists"]
    /\ UNCHANGED <<user, mine, open, listed, marked, changes, history>>

\* A list that has no id at WeTrakr or gained items is sent with all of them.
ListChanged == ~listed \/ \E r \in mine : r.sec = "lists" /\ Later(r.added, "lists")

PushLists(ok) ==
    LET wanted == "lists" \in job.flags /\ ListChanged IN
    /\ job.kind = "push" /\ job.stage = "lists"
    /\ Fail(wanted /\ ~ok)
    /\ theirs' = IF wanted /\ ok THEN Told(theirs, "lists", Items(mine, "lists")) ELSE theirs
    /\ listed' \in IF wanted THEN IF ok THEN {TRUE} ELSE {listed, TRUE} ELSE {listed}
    /\ job' = [job EXCEPT !.listsDone = "lists" \in job.flags /\ (wanted => ok), !.stage = "comments"]
    /\ UNCHANGED <<user, mine, open, marked, changes, history>>

\* Mutant of Linked: the id of the comment is not kept.
LinkedNot(r) == r

Linked(r) == [r EXCEPT !.linked = TRUE]

\* One comment without a WeTrakr id is written; an answer that was lost leaves it
\* without.
PushComment(r, outcome) ==
    /\ job.kind = "push" /\ job.stage = "comments" /\ "comments" \in job.flags
    /\ r \in mine /\ r.sec = "comments" /\ ~r.linked /\ r.item \notin job.tried
    /\ Fail(outcome # "written")
    /\ theirs' = IF outcome = "failed" THEN theirs ELSE Told(theirs, "comments", {r.item})
    /\ writes' = IF outcome = "failed" THEN writes ELSE [writes EXCEPT ![r.item] = @ + 1]
    /\ lost' = IF outcome = "lost" THEN lost + 1 ELSE lost
    /\ mine' = IF outcome = "written" THEN (mine \ {r}) \cup {Linked(r)} ELSE mine
    /\ job' = [job EXCEPT !.tried = @ \cup {r.item}]
    /\ UNCHANGED <<user, open, listed, marked, changes, excused, raced>>

Unwritten ==
    {r \in mine : r.sec = "comments" /\ ~r.linked /\ r.item \notin job.tried
                  /\ "comments" \in job.flags}

\* Mutant of Bookmarks: one for both.
BookmarksOfAny == IF job.coreFailed /\ ~job.listsDone THEN {} ELSE {"push", "lists"}

\* The bookmarks take the time the push began: each if its own part succeeded.
Bookmarks ==
    (IF job.coreFailed THEN {} ELSE {"push"})
      \cup (IF job.listsDone /\ ~job.quota THEN {"lists"} ELSE {})

Moved(r, marks) == [r EXCEPT !.added = IF "job" \in @ THEN @ \cup marks ELSE @ \ marks]

PushEnd ==
    /\ job.kind = "push"
    /\ job.stage = "end" \/ (job.stage = "comments" /\ Unwritten = {})
    /\ marked' = marked \cup Bookmarks
    /\ mine' = {Moved(r, Bookmarks) : r \in mine} /\ open' = {Moved(r, Bookmarks) : r \in open}
    /\ job' = NoJob
    /\ UNCHANGED <<user, theirs, listed, changes, fails, history>>

\* A job is cancelled, meets an error or dies with the process.
Break ==
    /\ job # NoJob /\ Fail(TRUE)
    /\ job' = NoJob
    /\ UNCHANGED <<user, world, marked, changes, history>>

-----------------------------------------------------------------------------
Next ==
    \/ \E s \in secs, i \in Item : Write(s, i, FALSE) \/ Write(s, i, TRUE) \/ WriteThere(s, i)
    \/ \E r \in open, live \in BOOLEAN : Commit(r, live)
    \/ \E r \in mine : Forget(r)
    \/ \E newPull \in {{}, secs}, newPush \in Choices \cap SUBSET secs : Settings(newPull, newPush)
    \/ Reconnect \/ Appear \/ Break
    \/ \E full, answered, blocked \in BOOLEAN : PullStart(full, answered, blocked)
    \/ \E ok \in SUBSET Item : PullSection(ok)
    \/ PullEnd \/ PushStart
    \/ \E ok \in SUBSET (Core \X Item), quota \in BOOLEAN : PushCore(ok, quota)
    \/ \E ok \in BOOLEAN : PushLists(ok)
    \/ \E r \in mine, outcome \in {"written", "failed", "lost"} : PushComment(r, outcome)
    \/ PushEnd

Spec == Init /\ [][Next]_vars

\* The scheduler starts pulls again and again, and pushes if plays or ratings are
\* pushed; jobs go on, transactions
\* end and WeTrakr's journal becomes visible.
Fairness ==
    /\ SF_vars(PullStart(FALSE, TRUE, FALSE)) /\ SF_vars(pushing \cap Core # {} /\ PushStart)
    /\ WF_vars(PullEnd) /\ WF_vars(PushEnd) /\ WF_vars(Appear)
    /\ WF_vars(job.kind = "pull" /\ PullSection(Feed(Order[job.stage])))
    /\ WF_vars(job.kind = "push" /\ PushCore(job.plan, FALSE))
    /\ WF_vars(PushLists(TRUE))
    /\ WF_vars(\E r \in mine : PushComment(r, "written"))
    /\ WF_vars(\E r \in open : Commit(r, FALSE))

FairSpec == Spec /\ Fairness

-----------------------------------------------------------------------------
PullJob == [kind : {"pull"}, stage : 1..5, flags : SUBSET Section, stamped : BOOLEAN,
            errors : BOOLEAN, all : BOOLEAN, known : SUBSET Item]
PushJob == [kind : {"push"}, stage : {"core", "lists", "comments", "end"}, flags : SUBSET Section,
            plan : SUBSET (Section \X Item), coreFailed : BOOLEAN, listsDone : BOOLEAN,
            quota : BOOLEAN, tried : SUBSET Item]

\* Every variable has its type, and WeTrakr has nothing twice.
TypeOK ==
    /\ secs \in Setups
    /\ mine \in SUBSET Row /\ open \in SUBSET Row /\ theirs \in SUBSET Entry
    /\ listed \in BOOLEAN /\ raced \in BOOLEAN
    /\ pulling \in SUBSET secs /\ pushing \in SUBSET secs
    /\ marked \in SUBSET {"pull", "push", "lists"}
    /\ job \in {NoJob} \cup PullJob \cup PushJob
    /\ \A d, e \in theirs : d.sec = e.sec /\ d.item = e.item => d = e
    /\ changes \in 0..MaxChanges /\ fails \in 0..MaxFails
    /\ writes \in [Item -> Nat] /\ lost \in 0..fails
    /\ excused \subseteq {"pull", "push"} \X Section \X Item

\* The pull's bookmark passes nothing that was marked at WeTrakr and is not here,
\* but for what the user took back, comments while they were blocked and items of a
\* list that could not be read.
PullCovers ==
    "pull" \in marked /\ ~raced =>
        \A e \in theirs : "pull" \in e.stamp \/ e.sec \notin pulling
                            \/ e.item \in Items(mine, e.sec) \/ <<"pull", e.sec, e.item>> \in excused

\* A push's bookmark passes nothing that is not at WeTrakr, but for rows that were
\* committed with an older date than the last push began.
PushCovers ==
    ~raced =>
        \A r \in mine :
            LET mark == IF r.sec = "lists" THEN "lists" ELSE "push" IN
            r.sec # "comments" /\ r.sec \in pushing /\ mark \in marked /\ mark \notin r.added =>
                r.item \in Items(theirs, r.sec) \/ <<"push", r.sec, r.item>> \in excused

\* The same when a setting was changed under a job.
SwitchedOnMeansAll ==
    \A r \in mine :
        r.sec \in Core \cap pushing /\ "push" \in marked /\ "push" \notin r.added =>
            r.item \in Items(theirs, r.sec) \/ <<"push", r.sec, r.item>> \in excused

\* A comment is written once, and once more for every answer that was lost.
WrittenOnce == \A i \in Item : writes[i] <= 1 + lost

\* In the end both sides have everything that was not excused, as far as the
\* scheduler pushes at all.
Settles ==
    <>[](raced \/
         /\ \A e \in theirs : e.sec \in pulling =>
                e.item \in Items(mine, e.sec) \/ <<"pull", e.sec, e.item>> \in excused
         /\ \A r \in mine : r.sec \in pushing /\ pushing \cap Core # {} =>
                r.item \in Items(theirs, r.sec) \/ <<"push", r.sec, r.item>> \in excused)

-----------------------------------------------------------------------------
(* What is invariant step by step (WeTrakrProofs).                         *)

\* A comment that has no WeTrakr id is of one row, and was written for as many
\* lost answers at the most.
NewComment(r) == r.sec = "comments" /\ ~r.linked
CommentsApart ==
    /\ \A r, q \in mine \cup open : NewComment(r) /\ NewComment(q) /\ r.item = q.item => r = q
    /\ \A r \in mine \cap open : ~NewComment(r)
WritesOwed == \A r \in mine \cup open : NewComment(r) => writes[r.item] <= lost
CInv == WrittenOnce /\ CommentsApart /\ WritesOwed

\* What the pull at work will still read.
ToRead(e) ==
    /\ ~e.hidden /\ (job.all \/ "pull" \in e.stamp)
    /\ e.sec \in job.flags /\ \E n \in job.stage..4 : Order[n] = e.sec
Covered(e) == e.sec \notin pulling \/ e.item \in Items(mine, e.sec) \/ <<"pull", e.sec, e.item>> \in excused

\* A pull that will move the bookmark has or will read what is not later than its time;
\* the plays it knows are here unless they were taken back.
PullReads ==
    job.kind = "pull" /\ ~raced =>
        /\ ~job.all => "pull" \in marked
        /\ \A i \in job.known : i \in Items(mine, "watched") \/ <<"pull", "watched", i>> \in excused
        /\ job.stamped /\ ~job.errors =>
              \A e \in theirs : "job" \in e.stamp \/ Covered(e) \/ ToRead(e)

\* A row that is sent, or was committed too late for the push that passed it.
AtService(r) == r.item \in Items(theirs, r.sec) \/ <<"push", r.sec, r.item>> \in excused

\* What was pulled is at WeTrakr; nothing is removed there.
FromThere == \A r \in mine \cup open : ~r.ours => r.item \in Items(theirs, r.sec)

\* A push that will move a bookmark has or will send what is not later than its time.
PushReads ==
    job.kind = "push" /\ ~raced =>
        /\ job.flags = pushing
        /\ \A r \in mine : r.sec \in Core \cap pushing /\ "job" \notin r.added =>
              \/ AtService(r)
              \/ IF job.stage = "core" THEN <<r.sec, r.item>> \in job.plan ELSE job.coreFailed
        /\ job.listsDone => \A r \in mine : r.sec = "lists" /\ "job" \notin r.added => AtService(r)

PullInv == PullCovers /\ PullReads
PushInv == PushCovers /\ FromThere /\ PushReads
=============================================================================
