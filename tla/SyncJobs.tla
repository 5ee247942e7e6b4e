------------------------------ MODULE SyncJobs ------------------------------
(***************************************************************************)
(* Sync jobs of one user: the sync_jobs rows, the asyncio task that works  *)
(* on each of them, the instance-wide semaphore the media-server pulls     *)
(* share, the auto-sync scheduler, cancel and abort, pruning, and a server *)
(* that may stop at any moment and start again.                            *)
(*                                                                         *)
(* A row (job) lives in the database and survives a restart; a task, the   *)
(* semaphore and the scheduler's position live in memory and do not.       *)
(* Every action is one database transaction or one scheduling step of the  *)
(* event loop, so that anything may happen between two of them.            *)
(***************************************************************************)
EXTENDS Integers, Sequences

CONSTANTS
    Media,      \* media-server connections: guarded start, pulls share the semaphore
    Cloud,      \* Trakt, Simkl, WeTrakr, MDBList: start stamps "running" unguarded
    Healer,     \* metadata heals: unguarded start
    RollsBack,  \* <<connection, job type>>: the runners whose handlers roll back
                \* the session before they write the final status
    Scheduled,  \* the connections with an auto-sync or auto-push interval
    MaxJobs,    \* bound: rows ever inserted
    MaxTime,    \* bound: the last hour of the model
    Interval,   \* hours between scheduled runs, per job type
    Retention   \* job_retention.RETENTION, in hours

Chan == Media \cup Cloud \cup Healer
NoChan == "none"
Job == 1..MaxJobs
Type == {"pull", "push", "heal"}

ASSUME ConstantsAssumption ==
    /\ Media \cap Cloud = {} /\ Media \cap Healer = {} /\ Cloud \cap Healer = {}
    /\ NoChan \notin Chan
    /\ RollsBack \subseteq Chan \X Type
    /\ Scheduled \subseteq Media \cup Cloud
    /\ MaxJobs \in Nat /\ MaxTime \in Nat
    /\ Interval \in [{"pull", "push"} -> Nat]
    /\ Retention \in Nat

Active == {"pending", "running"}
Ended == {"completed", "failed"}
Terminal == Ended \cup {"cancelled"}

Row == [status : {"none", "gone"} \cup Active \cup Terminal, chan : Chan \cup {NoChan},
        type : Type, by : {"user", "schedule"}, upd : 0..MaxTime]
\* An id not inserted yet.
Blank == [status |-> "none", chan |-> NoChan, type |-> "pull", by |-> "user", upd |-> 0]

Idle == <<>>
NoJob == 0

VARIABLES
    job,        \* sync_jobs: [Job -> Row]
    used,       \* rows inserted so far; ids are serial
    task,       \* [Job -> Stage]: the coroutine working on the row
    queue,      \* FIFO of the tasks waiting for _sync_semaphore
    holder,     \* the task inside the semaphore, or NoJob
    sched,      \* Idle, or the <<chan, type>> the scheduler decided to start
    now,        \* the clock, in hours
    lastPrune,  \* when the scheduler last pruned; -1 is datetime.min
    up          \* is the server running

vars == <<job, used, task, queue, holder, sched, now, lastPrune, up>>

Stage == {"none", "queued", "entry", "working", "cancelling"}

TypeOK ==
    /\ job \in [Job -> Row]
    /\ used \in 0..MaxJobs
    /\ task \in [Job -> Stage]
    /\ queue \in Seq(Job)
    /\ holder \in Job \cup {NoJob}
    /\ sched \in {Idle} \cup (Scheduled \X {"pull", "push"})
    /\ now \in 0..MaxTime
    /\ lastPrune \in -1..MaxTime
    /\ up \in BOOLEAN

-----------------------------------------------------------------------------
(* The rows.                                                               *)

Status(j) == job[j].status
IsActive(j) == Status(j) \in Active
IsEnded(j) == Status(j) \in Ended

\* The runner of a media-server job starts with the guarded UPDATE.
Guarded(j) == job[j].chan \in Media
\* The pulls of media-server connections all wait for _sync_semaphore.
Pull(c, t) == c \in Media /\ t = "pull"
IsMediaPull(j) == Pull(job[j].chan, job[j].type)
\* The pulls of Jellyfin, Emby, Plex, Nuvio and Stremio, and every job of
\* MDBList, WeTrakr and Bingebase.  Not Trakt, Simkl, ARVIO, the push to a
\* media server or the heal.
Safe(j) == <<job[j].chan, job[j].type>> \in RollsBack

\* UPDATE sync_jobs SET status = s WHERE id = j: no row, no effect.
\* updated_at is refreshed by every UPDATE (onupdate).
Stamped(r, s) == IF r.status \in {"none", "gone"} THEN r
                 ELSE [r EXCEPT !.status = s, !.upd = now]
Write(j, s) == job' = [job EXCEPT ![j] = Stamped(@, s)]

\* Insert a pending row and create its task.  A media pull first queues at
\* the semaphore; every other task goes straight to its first write.
Insert(c, t, b) ==
    LET j == used + 1 IN
    /\ used < MaxJobs
    /\ used' = j
    /\ job' = [job EXCEPT ![j] = [status |-> "pending", chan |-> c, type |-> t,
                                  by |-> b, upd |-> now]]
    /\ task' = [task EXCEPT ![j] = IF Pull(c, t) THEN "queued" ELSE "entry"]
    /\ queue' = IF Pull(c, t) THEN Append(queue, j) ELSE queue

-----------------------------------------------------------------------------
(* Requests.                                                               *)

\* POST /sync/connection/{id}, POST /sync/connection/{id}/push, POST
\* /trakt/sync and its siblings, POST /sync/heal: none asks what is active
\* (only WeTrakr's does, and refuses).
Request(c, t) ==
    /\ up
    /\ t = "heal" <=> c \in Healer
    /\ Insert(c, t, "user")
    /\ UNCHANGED <<holder, sched, now, lastPrune, up>>

\* POST /sync/{job_id}/cancel
Cancel(j) ==
    /\ up
    /\ IsActive(j)
    /\ Write(j, "cancelled")
    /\ UNCHANGED <<used, task, queue, holder, sched, now, lastPrune, up>>

\* POST /sync/abort: one UPDATE over every active row of the user.
Abort ==
    /\ up
    /\ \E j \in Job : IsActive(j)
    /\ job' = [j \in Job |-> IF IsActive(j) THEN Stamped(job[j], "cancelled") ELSE job[j]]
    /\ UNCHANGED <<used, task, queue, holder, sched, now, lastPrune, up>>

-----------------------------------------------------------------------------
(* A task.                                                                 *)

\* Mutant of Acquire: a runner that does not wait for the semaphore.
AcquireFreely(j) ==
    /\ queue # <<>> /\ j = Head(queue)
    /\ holder' = j
    /\ queue' = Tail(queue)
    /\ task' = [task EXCEPT ![j] = "entry"]
    /\ UNCHANGED <<job, used, sched, now, lastPrune, up>>

\* asyncio.Semaphore(1) hands itself to its waiters in arrival order.
Acquire(j) ==
    /\ queue # <<>> /\ j = Head(queue)
    /\ holder = NoJob
    /\ holder' = j
    /\ queue' = Tail(queue)
    /\ task' = [task EXCEPT ![j] = "entry"]
    /\ UNCHANGED <<job, used, sched, now, lastPrune, up>>

\* Mutant of Leave: acquire() and release() by hand, the release forgotten.
LeaveHolding(j) ==
    /\ task' = [task EXCEPT ![j] = "none"]
    /\ UNCHANGED <<used, queue, holder, sched, now, lastPrune, up>>

\* The coroutine returns, leaving the "async with _sync_semaphore" block.
Leave(j) ==
    /\ task' = [task EXCEPT ![j] = "none"]
    /\ holder' = IF holder = j THEN NoJob ELSE holder
    /\ UNCHANGED <<used, queue, sched, now, lastPrune, up>>

\* Mutant of GuardedStart: the first write without its WHERE.
UnconditionalStart(j) ==
    /\ task[j] = "entry"
    /\ Guarded(j)
    /\ Write(j, "running")
    /\ task' = [task EXCEPT ![j] = "working"]
    /\ UNCHANGED <<used, queue, holder, sched, now, lastPrune, up>>

\* The first write of a media-server runner: WHERE status = pending.
GuardedStart(j) ==
    /\ task[j] = "entry"
    /\ Guarded(j)
    /\ IF Status(j) = "pending"
       THEN /\ Write(j, "running")
            /\ task' = [task EXCEPT ![j] = "working"]
            /\ UNCHANGED <<used, queue, holder, sched, now, lastPrune, up>>
       ELSE /\ Leave(j)
            /\ UNCHANGED job

\* The first write of every other runner: whatever the row holds.
UnguardedStart(j) ==
    /\ task[j] = "entry"
    /\ ~Guarded(j)
    /\ Write(j, "running")
    /\ task' = [task EXCEPT ![j] = "working"]
    /\ UNCHANGED <<used, queue, holder, sched, now, lastPrune, up>>

\* _raise_if_cancelled, when it finds the row cancelled.
Checkpoint(j) ==
    /\ task[j] = "working"
    /\ Status(j) = "cancelled"
    /\ task' = [task EXCEPT ![j] = "cancelling"]
    /\ UNCHANGED <<job, used, queue, holder, sched, now, lastPrune, up>>

\* except SyncCancelled: write "cancelled", return.  The SELECT that found the
\* row cancelled has just succeeded, so the write does too, rollback or not.
Unwind(j) ==
    /\ task[j] = "cancelling"
    /\ Write(j, "cancelled")
    /\ Leave(j)

\* Mutant of Fail: the handler only logs.
FailSilently(j) ==
    /\ task[j] = "working"
    /\ Leave(j)
    /\ UNCHANGED job

\* The end of the body and "except Exception": both write without a WHERE.
Complete(j) ==
    /\ task[j] = "working"
    /\ Write(j, "completed")
    /\ Leave(j)

Fail(j) ==
    /\ task[j] = "working"
    /\ Write(j, "failed")
    /\ Leave(j)

\* A statement or a flush of the body has failed and the handler does not roll
\* back: its own UPDATE goes through the session that just failed and raises,
\* and the task ends with the row as it is.  (A database that stops answering
\* is not modelled: then no handler could write.)
Strand(j) ==
    /\ task[j] = "working"
    /\ ~Safe(j)
    /\ Leave(j)
    /\ UNCHANGED job

TaskStep(j) ==
    \/ Acquire(j) \/ GuardedStart(j) \/ UnguardedStart(j)
    \/ Checkpoint(j) \/ Unwind(j) \/ Complete(j) \/ Fail(j) \/ Strand(j)

-----------------------------------------------------------------------------
(* The scheduler.                                                          *)

\* The completed and failed jobs of one schedule among the rows r; cancelled
\* ones do not count.
Runs(r, c, t) == {j \in Job : r[j].status \in Ended /\ r[j].chan = c /\ r[j].type = t}

\* updated_at of the newest of them, -1 when there is none.
LastRun(c, t) ==
    LET R == Runs(job, c, t) IN
    IF R = {} THEN -1 ELSE job[CHOOSE j \in R : \A k \in R : job[k].upd <= job[j].upd].upd

NextRun(c, t) == IF LastRun(c, t) = -1 THEN -1 ELSE LastRun(c, t) + Interval[t]
Due(c) == {t \in {"pull", "push"} : NextRun(c, t) <= now}

\* Mutant of SchedRead: only a running job counts as active.
SchedReadRunningOnly(c) ==
    /\ up
    /\ sched = Idle
    /\ used < MaxJobs
    /\ ~\E j \in Job : Status(j) = "running" /\ job[j].chan = c
    /\ \E t \in Due(c) :
        /\ \A u \in Due(c) : NextRun(c, t) <= NextRun(c, u)
        /\ t = "push" => "pull" \notin Due(c) \/ NextRun(c, "push") < NextRun(c, "pull")
        /\ sched' = <<c, t>>
    /\ UNCHANGED <<job, used, task, queue, holder, now, lastPrune, up>>

\* The reads of one connection's turn: nothing active, and what is due. The
\* earliest is picked, a pull before a push when both are as late.
SchedRead(c) ==
    /\ up
    /\ sched = Idle
    /\ used < MaxJobs
    /\ ~\E j \in Job : IsActive(j) /\ job[j].chan = c
    /\ \E t \in Due(c) :
        /\ \A u \in Due(c) : NextRun(c, t) <= NextRun(c, u)
        /\ t = "push" => "pull" \notin Due(c) \/ NextRun(c, "push") < NextRun(c, "pull")
        /\ sched' = <<c, t>>
    /\ UNCHANGED <<job, used, task, queue, holder, now, lastPrune, up>>

\* INSERT, commit and create_task, a few awaits after the reads.
SchedInsert ==
    /\ up
    /\ sched # Idle
    /\ Insert(sched[1], sched[2], "schedule")
    /\ sched' = Idle
    /\ UNCHANGED <<holder, now, lastPrune, up>>

\* Mutant of Newest: the newest run is ranked over all statuses, cancelled ones
\* included, instead of among the completed and failed ones.
NewestOfAny(r, j) ==
    \A k \in Job :
        r[k].status \in Terminal /\ r[k].chan = r[j].chan /\ r[k].type = r[j].type
        => r[k].upd < r[j].upd \/ (r[k].upd = r[j].upd /\ k <= j)

\* prune_old_sync_jobs: finished rows past the retention go, except the
\* newest completed or failed one of each connection and type.
Newest(r, j) ==
    /\ r[j].status \in Ended
    /\ \A k \in Runs(r, r[j].chan, r[j].type) :
        \/ r[k].upd < r[j].upd
        \/ r[k].upd = r[j].upd /\ k <= j
Prunable(r, j) ==
    /\ r[j].status \in Terminal
    /\ r[j].upd < now - Retention
    /\ ~Newest(r, j)
Pruned(r) == [j \in Job |-> IF Prunable(r, j) THEN [r[j] EXCEPT !.status = "gone"] ELSE r[j]]

Prune ==
    /\ up
    /\ sched = Idle
    /\ lastPrune < now
    /\ lastPrune' = now
    /\ job' = Pruned(job)
    /\ UNCHANGED <<used, task, queue, holder, sched, now, up>>

-----------------------------------------------------------------------------
(* The server.                                                             *)

\* The process ends, at any moment: what is in memory is lost.
Crash ==
    /\ up
    /\ up' = FALSE
    /\ task' = [j \in Job |-> "none"]
    /\ queue' = <<>>
    /\ holder' = NoJob
    /\ sched' = Idle
    /\ lastPrune' = -1
    /\ UNCHANGED <<job, used, now>>

\* lifespan: every row still active is failed; then a prune that may fail
\* is tried before the first request.
Startup ==
    /\ ~up
    /\ up' = TRUE
    /\ LET aborted == [j \in Job |-> IF IsActive(j) THEN Stamped(job[j], "failed") ELSE job[j]]
       IN job' = aborted \/ job' = Pruned(aborted)
    /\ UNCHANGED <<used, task, queue, holder, sched, now, lastPrune>>

Tick ==
    /\ now < MaxTime
    /\ now' = now + 1
    /\ UNCHANGED <<job, used, task, queue, holder, sched, lastPrune, up>>

-----------------------------------------------------------------------------
Init ==
    /\ job = [j \in Job |-> Blank]
    /\ used = 0
    /\ task = [j \in Job |-> "none"]
    /\ queue = <<>>
    /\ holder = NoJob
    /\ sched = Idle
    /\ now = 0
    /\ lastPrune = -1
    /\ up = TRUE

Next ==
    \/ \E c \in Chan, t \in Type : Request(c, t)
    \/ \E j \in Job : Cancel(j) \/ TaskStep(j)
    \/ \E c \in Scheduled : SchedRead(c)
    \/ Abort \/ SchedInsert \/ Prune \/ Crash \/ Startup \/ Tick

Spec == Init /\ [][Next]_vars

\* The event loop runs every task that can run, and every body returns (its
\* network calls time out); a supervisor restarts the server.
Fairness ==
    /\ \A j \in Job : WF_vars(TaskStep(j))
    /\ WF_vars(Startup)

FairSpec == Spec /\ Fairness

-----------------------------------------------------------------------------
(* Properties.                                                             *)

\* Inside the "async with _sync_semaphore" block.
Inside(j) == IsMediaPull(j) /\ task[j] \in {"entry", "working", "cancelling"}

\* "Global semaphore - at most one sync running at a time across all users":
\* two media-server pulls never work at the same time, whatever is queued,
\* cancelled or lost in between.
MutualExclusion == \A i, j \in Job : Inside(i) /\ Inside(j) => i = j

\* While the server runs, a row that says pending or running has a task that
\* will move it on: none is left behind by a cancel, by a failure or by an
\* earlier life of the process.  An active row without a task blocks its
\* connection's schedule until the next restart.  It is said of the runners
\* that roll back; the others can leave such a row (Strand, FailureRecorded).
NoOrphanRow ==
    up => \A j \in Job : IsActive(j) /\ Safe(j) => task[j] # "none"

\* The inductive invariant behind the two: who is inside holds the semaphore,
\* the queue names every waiting task once, the stage of a task bounds what
\* its row can say, and nothing is left in memory while the server is down.
InsideHolds == \A j \in Job : Inside(j) => holder = j
QueueSound ==
    /\ \A n \in 1..Len(queue) : task[queue[n]] = "queued"
    /\ \A m, n \in 1..Len(queue) : queue[m] = queue[n] => m = n
StageSound ==
    \A j \in Job :
        /\ j > used => job[j] = Blank /\ task[j] = "none"
        /\ task[j] \in {"queued", "entry"} => Status(j) \in {"pending", "cancelled", "gone"}
        /\ task[j] = "working" => Status(j) \in {"running", "cancelled", "gone"}
        /\ task[j] = "cancelling" => Status(j) \in {"cancelled", "gone"}
DownIsEmpty == ~up => queue = <<>> /\ \A j \in Job : task[j] = "none"
IInv == InsideHolds /\ QueueSound /\ StageSound /\ DownIsEmpty /\ NoOrphanRow

\* The scheduler never queues a connection's job while one it queued earlier
\* is active, although its check and its insert are awaits apart.
OneScheduled ==
    \A i, j \in Job :
        /\ IsActive(i) /\ job[i].by = "schedule" /\ Guarded(i)
        /\ IsActive(j) /\ job[j].by = "schedule"
        /\ job[i].chan = job[j].chan
        => i = j

\* What the scheduler counts from never goes back: no prune, restart or late
\* write makes it forget the newest run of a schedule and fire too early
\* ("without it a long interval would fire again immediately after a prune").
ScheduleKept == [][\A c \in Scheduled, t \in {"pull", "push"} : LastRun(c, t)' >= LastRun(c, t)]_vars

\* Every row lives the life JobLife describes: a guarded job that was
\* cancelled is never pending or running again, a completed or failed row
\* changes no more until it is pruned.
Life == INSTANCE JobLife WITH
            status <- [j \in Job |-> Status(j)],
            firm <- [j \in Job |-> Guarded(j)]
LifeSpec == Life!Spec

\* Every task ends, and leaves its row settled if its runner rolls back: no
\* queued pull is passed over for ever, whether the ones before it finish, fail,
\* are cancelled or leave their row behind.
JobsSettle ==
    \A j \in Job : task[j] # "none" ~> task[j] = "none" /\ (Safe(j) => ~IsActive(j))

\* The claim of _mark_job_running_unless_cancelled's comment for every runner:
\* a job cancelled before it starts is not revived by its first write.
NoRevival == [][\A j \in Job : Status(j) = "cancelled" => Status(j)' \notin Active]_vars

\* The claim of _short_error's comment for every handler, with or without a
\* rollback: recording a failure cannot itself fail and leave the row running
\* for ever.
FailureRecorded == up => \A j \in Job : IsActive(j) => task[j] # "none"
=============================================================================
