------------------------------ MODULE PushState ------------------------------
(***************************************************************************)
(* What a connection's push remembers of what it last sent                 *)
(* (core/push_state.py), and the pushes that use it: the scheduled one,    *)
(* which skips unchanged items until a full reconcile is due, and the      *)
(* manual one, which sends everything.  Next to them the real-time push of *)
(* each rating change, which does not touch the memory, and a server whose *)
(* values its own users edit.                                              *)
(*                                                                         *)
(* Every item has one value (its rating; a watched flag is an item with a  *)
(* single value) and any number of copies on the server.  Moments are ages *)
(* counted back from now and saturating at Week, past which no test of the *)
(* code tells two moments apart: the clock needs no bound.                 *)
(***************************************************************************)
EXTENDS Naturals, FiniteSets

CONSTANTS
    Item,       \* Scrob media rows
    Copy,       \* items of the media server
    Home,       \* [Copy -> Item]: what a copy is a copy of
    Known,      \* the copies whose source id an earlier pull stored
    Value,      \* ratings
    Week,       \* FULL_RECONCILE_INTERVAL
    MissTTL,    \* MISS_TTL, shorter than Week
    Slot,       \* bound: pushes at work at once
    MaxEdits,   \* bound: changes by users, of ratings or of the server
    MaxFaults   \* bound: failed calls, cancels, interrupted jobs, crashes

None == "none"
Nobody == "nobody"
Age == 0..Week

ASSUME ConstantsAssumption ==
    /\ Home \in [Copy -> Item]
    /\ Known \subseteq Copy
    /\ None \notin Value
    /\ Nobody \notin Slot
    /\ Week \in Nat /\ MissTTL \in 0..Week
    /\ MaxEdits \in Nat /\ MaxFaults \in Nat

VARIABLES
    local,      \* [Item -> Value or None]: the user's ratings
    server,     \* [Copy -> Value or None]: what each copy shows
    listed,     \* the copies the server has
    live,       \* real-time pushes on their way: set of <<item, value>>
    store,      \* connection_push_state, rating rows: [Item -> StoreRow]
    miss,       \* its miss rows, by age; MissTTL is none or expired
    lastFull,   \* age of the newest completed full push; Week is none in time
    broken,     \* ages (created_at) of the failed and cancelled push jobs
    run,        \* [Slot -> Run]: the pushes at work
    sent,       \* history: the <<copy, value>> pairs the server accepted
    edits, faults

env == <<local, server, listed, live>>
memory == <<store, miss, lastFull, broken>>
vars == <<local, server, listed, live, store, miss, lastFull, broken, run, sent, edits, faults>>

Setting == Value \cup {None}
NoRow == [value |-> None, age |-> 0, mode |-> "full", whole |-> FALSE]
StoreRow == [value : Setting, age : Age,
             mode : {"full", "incremental"},    \* history: the mode of the push
             whole : BOOLEAN]                   \* history: and whether it completed
Off == [on |-> FALSE, cancelled |-> FALSE, mode |-> "full", resumed |-> FALSE, age |-> 0,
        want |-> [i \in Item |-> None], todo |-> {}, look |-> {}, rec |-> {},
        failed |-> {}, missed |-> {}, found |-> {}, since |-> {}]
Run == [on : BOOLEAN, cancelled : BOOLEAN, resumed : BOOLEAN, age : Age,
        mode : {"full", "incremental", "none"},
        want : [Item -> Setting],   \* the values it set out to send
        todo : SUBSET Copy,         \* copies still to send to
        look : SUBSET Item,         \* items still to look up on the server
        rec : SUBSET Item,          \* PushState.record
        failed : SUBSET Item,       \* PushState.fail
        missed : SUBSET Item,       \* PushState.record_miss
        found : SUBSET Item,        \* PushState.forget of the miss
        since : SUBSET Copy]        \* history: copies others touched meanwhile

TypeOK ==
    /\ local \in [Item -> Setting]
    /\ server \in [Copy -> Setting]
    /\ listed \in SUBSET Copy
    /\ live \in SUBSET (Item \X Setting)
    /\ store \in [Item -> StoreRow]
    /\ miss \in [Item -> 0..MissTTL]
    /\ lastFull \in Age
    /\ broken \in SUBSET Age
    /\ run \in [Slot -> Run]
    /\ sent \in SUBSET (Copy \X Value)
    /\ edits \in 0..MaxEdits
    /\ faults \in 0..MaxFaults

CopiesOf(i) == {c \in listed : Home[c] = i}
KnownOf(i) == {c \in Known : Home[c] = i}

\* Bookkeeping of the histories: copies C were written by someone who is not s.
Touch(r, C, s) == [t \in Slot |-> IF t = s \/ ~r[t].on THEN r[t]
                                  ELSE [r[t] EXCEPT !.since = @ \cup C]]
Edited == edits < MaxEdits /\ edits' = edits + 1 /\ UNCHANGED faults
Fault == faults < MaxFaults /\ faults' = faults + 1 /\ UNCHANGED edits

-----------------------------------------------------------------------------
(* Users, and the real-time push of their changes.                         *)

\* POST or DELETE /ratings: commit, then push the value from the request.
Rate(i, v) ==
    /\ Edited
    /\ v # local[i]
    /\ local' = [local EXCEPT ![i] = v]
    /\ live' = live \cup {<<i, v>>}
    /\ run' = Touch(run, {c \in Copy : Home[c] = i}, Nobody)
    /\ UNCHANGED <<server, listed, memory, sent>>

\* DELETE /ratings/all tells no server.
ClearAll ==
    /\ Edited
    /\ \E i \in Item : local[i] # None
    /\ local' = [i \in Item |-> None]
    /\ run' = Touch(run, Copy, Nobody)
    /\ UNCHANGED <<server, listed, live, memory, sent>>

\* _fan_out_changes_to_other_connections: the requests of two changes are
\* independent and may arrive in either order; a failed call is only logged.
LiveArrives(i, v) ==
    /\ <<i, v>> \in live
    /\ live' = live \ {<<i, v>>}
    /\ \E ok \in SUBSET KnownOf(i) :
        /\ ok # KnownOf(i) => Fault
        /\ ok = KnownOf(i) => UNCHANGED <<edits, faults>>
        /\ server' = [c \in Copy |-> IF c \in ok THEN v ELSE server[c]]
        /\ run' = Touch(run, ok, Nobody)
    /\ UNCHANGED <<local, listed, memory, sent>>

ServerEdit(c, v) ==
    /\ Edited
    /\ c \in listed /\ v # server[c]
    /\ server' = [server EXCEPT ![c] = v]
    /\ run' = Touch(run, {c}, Nobody)
    /\ UNCHANGED <<local, listed, live, memory, sent>>

\* A copy the pulls have not seen is added to the server.
ServerAdds(c) ==
    /\ Edited
    /\ c \notin listed
    /\ listed' = listed \cup {c}
    /\ UNCHANGED <<local, server, live, memory, run, sent>>

-----------------------------------------------------------------------------
(* A push.                                                                 *)

\* Mutant of Plan: a scheduled push never becomes a full reconcile again.
PlanIncremental(incremental) ==
    [mode |-> IF incremental THEN "incremental" ELSE "full", resume |-> {}]

\* plan_push: a full reconcile resumes from the first of the interrupted jobs
\* since the last completed one, none of them older than the interval.
Interrupted ==
    {a \in broken \cup {run[s].age : s \in {t \in Slot : run[t].cancelled}} : a < lastFull /\ a < Week}
Plan(incremental) ==
    IF incremental /\ lastFull < Week THEN [mode |-> "incremental", resume |-> {}]
    ELSE IF incremental THEN [mode |-> "full", resume |-> Interrupted]
    ELSE [mode |-> "full", resume |-> {}]

\* Mutant of Unchanged: a stored row counts under every plan.
UnchangedAlways(i, plan) == store[i].value = local[i]

\* PushState.unchanged: this value was pushed already, as far as the plan
\* trusts the stored rows.
Unchanged(i, plan) ==
    /\ store[i].value = local[i]
    /\ \/ plan.mode = "incremental"
       \/ \E a \in plan.resume : store[i].age <= a

\* PushState.recent_miss
RecentMiss(i, plan) == plan.mode = "incremental" /\ miss[i] < MissTTL

\* The start of _run_full_push: plan, load, and what is left to send.  A
\* recent miss fails at once, without a lookup.  A push with no rating at all
\* to look at completes without recording a mode.
Begin(s, incremental) ==
    /\ ~run[s].on
    /\ incremental => \A t \in Slot : run[t].on => run[t].cancelled   \* the scheduler's check
    /\ LET plan == Plan(incremental)
           send == {i \in Item : local[i] # None /\ ~Unchanged(i, plan)}
           unknown == {i \in send : KnownOf(i) = {}}
           recent == {i \in unknown : RecentMiss(i, plan)}
       IN run' = [run EXCEPT ![s] =
            [Off EXCEPT !.on = TRUE, !.resumed = plan.resume # {},
                        !.mode = IF \A i \in Item : local[i] = None THEN "none" ELSE plan.mode,
                        !.want = [i \in Item |-> IF i \in send THEN local[i] ELSE None],
                        !.todo = {c \in Known : Home[c] \in send},
                        !.look = unknown \ recent, !.failed = recent]]
    /\ UNCHANGED <<env, memory, sent, edits, faults>>

\* One lookup by metadata: found and sent to, or remembered as a miss.
Lookup(s, i) ==
    /\ i \in run[s].look
    /\ \/ \E c \in CopiesOf(i) :
            run' = [run EXCEPT ![s].look = @ \ {i}, ![s].found = @ \cup {i},
                               ![s].todo = @ \cup {c}]
       \/ /\ CopiesOf(i) = {}
          /\ run' = [run EXCEPT ![s].look = @ \ {i}, ![s].missed = @ \cup {i},
                                ![s].failed = @ \cup {i}]
    /\ UNCHANGED <<env, memory, sent, edits, faults>>

\* One call to the server.  A failure marks the item even when another copy
\* of it took the value.
Send(s, c) ==
    LET i == Home[c] IN
    /\ c \in run[s].todo
    /\ \/ /\ server' = [server EXCEPT ![c] = run[s].want[i]]
          /\ run' = [Touch(run, {c}, s) EXCEPT ![s].todo = @ \ {c}, ![s].rec = @ \cup {i}]
          /\ sent' = sent \cup {<<c, run[s].want[i]>>}
          /\ UNCHANGED <<edits, faults>>
       \/ /\ Fault
          /\ run' = [run EXCEPT ![s].todo = @ \ {c}, ![s].failed = @ \cup {i}]
          /\ UNCHANGED <<server, sent>>
    /\ UNCHANGED <<local, listed, live, memory>>

\* Mutant of Pending: an item is recorded before its call is answered.
PendingOfTried(r) == r.rec \cup r.failed

\* PushState.pending: what save() may write.
Pending(r) == r.rec \ r.failed

\* PushState.save, stamped with the moment the push was set up.
Save(r, whole) ==
    /\ store' = [i \in Item |->
                   IF i \in Pending(r)
                   THEN [value |-> r.want[i], age |-> r.age, mode |-> r.mode, whole |-> whole]
                   ELSE store[i]]
    /\ miss' = [i \in Item |->
                  IF i \in r.missed THEN IF r.age < MissTTL THEN r.age ELSE MissTTL
                  ELSE IF i \in r.found THEN MissTTL
                  ELSE miss[i]]

\* The push completes, one cancelled after its last checkpoint included.  A
\* failing save is swallowed.
Complete(s) ==
    LET r == run[s] IN
    /\ r.on /\ r.todo = {} /\ r.look = {}
    /\ \/ Save(r, TRUE) /\ UNCHANGED <<edits, faults>>
       \/ Fault /\ UNCHANGED <<store, miss>>
    /\ lastFull' = IF r.mode = "full" THEN 0 ELSE lastFull
    /\ run' = [run EXCEPT ![s] = Off]
    /\ UNCHANGED <<env, broken, sent>>

\* POST /sync/{id}/cancel writes the row; the task learns of it later.
CancelPush(s) ==
    /\ Fault
    /\ run[s].on /\ ~run[s].cancelled
    /\ run' = [run EXCEPT ![s].cancelled = TRUE]
    /\ UNCHANGED <<env, memory, sent>>

\* A cancelled push reaches a checkpoint, or one meets an exception: save
\* what went through, then write the job cancelled or failed.
Interrupt(s) ==
    LET r == run[s] IN
    /\ r.on
    /\ \/ r.cancelled /\ Save(r, FALSE) /\ UNCHANGED <<edits, faults>>
       \/ ~r.cancelled /\ Fault /\ Save(r, FALSE)
    /\ broken' = broken \cup ({r.age} \ {Week})
    /\ run' = [run EXCEPT ![s] = Off]
    /\ UNCHANGED <<env, lastFull, sent>>

\* The process stops; at start-up its jobs are failed.
Crash ==
    /\ Fault
    /\ \E s \in Slot : run[s].on
    /\ broken' = broken \cup ({run[s].age : s \in {t \in Slot : run[t].on}} \ {Week})
    /\ run' = [s \in Slot |-> Off]
    /\ live' = {}
    /\ UNCHANGED <<local, server, listed, store, miss, lastFull, sent>>

-----------------------------------------------------------------------------
\* The age of a moment one unit later.
Older(a, max) == IF a < max THEN a + 1 ELSE max

Tick ==
    /\ store' = [i \in Item |-> [store[i] EXCEPT !.age = Older(@, Week)]]
    /\ miss' = [i \in Item |-> Older(miss[i], MissTTL)]
    /\ lastFull' = Older(lastFull, Week)
    /\ broken' = {a + 1 : a \in {b \in broken : b + 1 < Week}}
    /\ run' = [s \in Slot |-> IF run[s].on THEN [run[s] EXCEPT !.age = Older(@, Week)]
                              ELSE run[s]]
    /\ UNCHANGED <<env, sent, edits, faults>>

Init ==
    /\ local = [i \in Item |-> None]
    /\ server = [c \in Copy |-> None]
    /\ listed = Known
    /\ live = {}
    /\ store = [i \in Item |-> NoRow]
    /\ miss = [i \in Item |-> MissTTL]
    /\ lastFull = Week
    /\ broken = {}
    /\ run = [s \in Slot |-> Off]
    /\ sent = {}
    /\ edits = 0 /\ faults = 0

RunStep(s) ==
    \/ \E i \in Item : Lookup(s, i)
    \/ \E c \in Copy : Send(s, c)
    \/ Complete(s)

Next ==
    \/ \E i \in Item, v \in Setting : Rate(i, v) \/ LiveArrives(i, v)
    \/ \E c \in Copy, v \in Value : ServerEdit(c, v)
    \/ \E c \in Copy : ServerAdds(c)
    \/ \E s \in Slot : Begin(s, TRUE) \/ Begin(s, FALSE) \/ RunStep(s) \/ CancelPush(s) \/ Interrupt(s)
    \/ ClearAll \/ Crash \/ Tick

Spec == Init /\ [][Next]_vars

\* Time passes, the scheduler keeps starting pushes, a push that works goes
\* on and so do the requests on their way; manual pushes need not happen.
Fairness ==
    /\ WF_vars(Tick)
    /\ WF_vars(\E s \in Slot : Begin(s, TRUE))
    /\ \A s \in Slot : WF_vars(RunStep(s))
    /\ \A i \in Item, v \in Setting : WF_vars(LiveArrives(i, v))

FairSpec == Spec /\ Fairness

-----------------------------------------------------------------------------
(* Properties.                                                             *)

\* A value remembered by a push that completed was accepted by every known
\* copy of the item, and one remembered by an interrupted push by some copy:
\* a failed call, a failed sibling or a crash never leaves a row that claims
\* more than that.
RecordedWasSent ==
    \A i \in Item : store[i].value # None =>
        /\ store[i].whole => \A c \in KnownOf(i) : <<c, store[i].value>> \in sent
        /\ \E c \in Copy : Home[c] = i /\ <<c, store[i].value>> \in sent

\* PushState.fail: an item is recorded as pushed only when every copy of it
\* took the value.  (An interrupted push records it after the first copy.)
RecordedEverywhere ==
    \A i \in Item : store[i].value # None => \A c \in KnownOf(i) : <<c, store[i].value>> \in sent

\* "A manual push ... ignores the stored state and pushes everything": when a
\* full push that resumed nothing completes, every known copy that nobody
\* else touched meanwhile, and whose item did not fail, shows the user's value.
FullReconciles ==
    [][\A s \in Slot :
        Complete(s) /\ run[s].mode = "full" /\ ~run[s].resumed
        => \A i \in Item, c \in Known :
             (Home[c] = i /\ local[i] # None /\ i \notin run[s].failed /\ c \notin run[s].since)
             => server[c] = local[i]]_vars

\* Once users stop changing things and calls stop failing, every copy Scrob
\* can find ends up with the user's value, whatever real-time pushes were
\* lost or overtaken and whatever the memory says.
InSync ==
    \A i \in Item : local[i] # None =>
        /\ \A c \in KnownOf(i) : server[c] = local[i]
        /\ KnownOf(i) = {} /\ CopiesOf(i) # {} => \E c \in CopiesOf(i) : server[c] = local[i]
Converges == <>[]InSync

\* The claim of PushPlan.resume_since: the state a resumed full reconcile
\* trusts "came from that run", an interrupted full reconcile.
ResumeTrustsFullRuns ==
    [][\A s \in Slot :
        ~run[s].on /\ run'[s].on /\ run'[s].resumed
           => \A i \in Item : local[i] # None /\ run'[s].want[i] = None => store[i].mode = "full"]_vars
=============================================================================
