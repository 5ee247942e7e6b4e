--------------------------- MODULE SyncJobsProofs ---------------------------
(***************************************************************************)
(* What holds of SyncJobs for every set of connections, every number of    *)
(* jobs and every interval and retention.                                  *)
(***************************************************************************)
EXTENDS SyncJobs, WellFoundedInduction, TLAPS

(* A stamped row is a row of the same connection and type.                 *)
LEMMA StampedRow ==
    ASSUME TypeOK, NEW r \in Row, NEW s \in Active \cup Terminal
    PROVE  /\ Stamped(r, s) \in Row
           /\ Stamped(r, s).chan = r.chan
           /\ Stamped(r, s).type = r.type
           /\ IF r.status \in {"none", "gone"}
              THEN Stamped(r, s) = r
              ELSE Stamped(r, s).status = s
  BY DEF Stamped, Row, Active, Terminal, Ended, TypeOK

(* A pruned table is a table of the same rows, some of them gone.          *)
LEMMA PrunedRows ==
    ASSUME NEW r \in [Job -> Row]
    PROVE  /\ Pruned(r) \in [Job -> Row]
           /\ \A j \in Job : /\ Pruned(r)[j].chan = r[j].chan
                             /\ Pruned(r)[j].type = r[j].type
                             /\ \/ Pruned(r)[j] = r[j]
                                \/ /\ r[j].status \in Terminal
                                   /\ Pruned(r)[j].status = "gone"
  <1>1. \A j \in Job : LET p == [r[j] EXCEPT !.status = "gone"] IN
          /\ p \in Row /\ p.chan = r[j].chan /\ p.type = r[j].type /\ p.status = "gone"
    BY DEF Row
  <1>2. \A j \in Job : Prunable(r, j) => r[j].status \in Terminal
    BY DEF Prunable
  <1> QED BY <1>1, <1>2 DEF Pruned

-----------------------------------------------------------------------------
(* Type correctness.                                                       *)

(* A new row, its task and its place in the queue are well typed.          *)
LEMMA InsertType ==
    ASSUME ConstantsAssumption, TypeOK,
           NEW c \in Chan, NEW t \in Type, NEW b \in {"user", "schedule"},
           Insert(c, t, b)
    PROVE  /\ job' \in [Job -> Row]
           /\ used' \in 0..MaxJobs
           /\ task' \in [Job -> Stage]
           /\ queue' \in Seq(Job)
  <1> DEFINE j == used + 1
             r == [status |-> "pending", chan |-> c, type |-> t, by |-> b, upd |-> now]
  <1>1. j \in Job /\ used' \in 0..MaxJobs
    BY DEF Insert, TypeOK, Job, ConstantsAssumption
  <1>2. r \in Row
    BY DEF Row, Active, TypeOK
  <1>3. job' \in [Job -> Row]
    BY <1>1, <1>2 DEF Insert, TypeOK
  <1>4. task' \in [Job -> Stage]
    BY <1>1 DEF Insert, TypeOK, Stage
  <1>5. queue' \in Seq(Job)
    BY <1>1 DEF Insert, TypeOK
  <1> QED BY <1>1, <1>3, <1>4, <1>5

(* A status written to a row leaves a row.                                 *)
LEMMA WriteType ==
    ASSUME TypeOK, NEW j \in Job, NEW s \in Active \cup Terminal, Write(j, s)
    PROVE  job' \in [Job -> Row]
  <1>1. Stamped(job[j], s) \in Row
    BY StampedRow DEF TypeOK
  <1> QED BY <1>1 DEF Write, TypeOK

(* The first state is well typed.                                          *)
LEMMA TypeInit == ASSUME ConstantsAssumption, Init PROVE TypeOK
  <1>1. Blank \in Row
    BY DEF Blank, Row, Type, ConstantsAssumption
  <1> QED BY <1>1 DEF Init, TypeOK, Stage, Idle, NoJob, ConstantsAssumption

(* Every step keeps the types.                                             *)
LEMMA TypeStep == ASSUME ConstantsAssumption, TypeOK, [Next]_vars PROVE TypeOK'
  <1>1. ASSUME NEW c \in Chan, NEW t \in Type, Request(c, t) PROVE TypeOK'
    BY <1>1, InsertType DEF Request, TypeOK
  <1>2. ASSUME NEW j \in Job, Cancel(j) PROVE TypeOK'
    BY <1>2, WriteType DEF Cancel, TypeOK, Terminal
  <1>3. ASSUME NEW j \in Job, TaskStep(j) PROVE TypeOK'
    <2>1. CASE Acquire(j)
      BY <2>1 DEF Acquire, TypeOK, Stage
    <2>2. CASE GuardedStart(j)
      BY <2>2, WriteType DEF GuardedStart, Leave, TypeOK, Stage, Active
    <2>3. CASE UnguardedStart(j)
      BY <2>3, WriteType DEF UnguardedStart, TypeOK, Stage, Active
    <2>4. CASE Checkpoint(j)
      BY <2>4 DEF Checkpoint, TypeOK, Stage
    <2>5. CASE Unwind(j)
      BY <2>5, WriteType DEF Unwind, Leave, TypeOK, Stage, Terminal
    <2>6. CASE Complete(j) \/ Fail(j)
      BY <2>6, WriteType DEF Complete, Fail, Leave, TypeOK, Stage, Terminal, Ended
    <2>7. CASE Strand(j)
      BY <2>7 DEF Strand, Leave, TypeOK, Stage
    <2> QED BY <1>3, <2>1, <2>2, <2>3, <2>4, <2>5, <2>6, <2>7 DEF TaskStep
  <1>4. ASSUME NEW c \in Scheduled, SchedRead(c) PROVE TypeOK'
    BY <1>4 DEF SchedRead, Due, TypeOK
  <1>5. CASE Abort
    <2>1. \A j \in Job : Stamped(job[j], "cancelled") \in Row
      BY StampedRow DEF TypeOK, Terminal
    <2> QED BY <1>5, <2>1 DEF Abort, TypeOK
  <1>6. CASE SchedInsert
    <2>1. sched \in Scheduled \X {"pull", "push"}
      BY <1>6 DEF SchedInsert, TypeOK
    <2>2. sched[1] \in Chan /\ sched[2] \in Type
      BY <2>1 DEF ConstantsAssumption, Chan, Type
    <2> QED BY <1>6, <2>2, InsertType DEF SchedInsert, TypeOK
  <1>7. CASE Prune
    BY <1>7, PrunedRows DEF Prune, TypeOK
  <1>8. CASE Crash
    <2>1. [j \in Job |-> "none"] \in [Job -> Stage] BY DEF Stage
    <2>2. -1 \in -1..MaxTime BY DEF ConstantsAssumption
    <2>3. <<>> \in Seq(Job) OBVIOUS
    <2> QED BY <1>8, <2>1, <2>2, <2>3 DEF Crash, TypeOK
  <1>9. CASE Startup
    <2> DEFINE a == [j \in Job |-> IF IsActive(j) THEN Stamped(job[j], "failed") ELSE job[j]]
    <2>1. \A j \in Job : Stamped(job[j], "failed") \in Row
      BY StampedRow DEF TypeOK, Terminal, Ended
    <2>2. a \in [Job -> Row]
      BY <2>1 DEF TypeOK
    <2> HIDE DEF a
    <2>3. job' = a \/ job' = Pruned(a)
      BY <1>9 DEF Startup, a
    <2>4. job' \in [Job -> Row]
      BY <2>2, <2>3, PrunedRows
    <2> QED BY <1>9, <2>4 DEF Startup, TypeOK
  <1>10. CASE Tick
    BY <1>10 DEF Tick, TypeOK, ConstantsAssumption
  <1>11. CASE UNCHANGED vars
    BY <1>11 DEF vars, TypeOK
  <1> QED BY <1>1, <1>2, <1>3, <1>4, <1>5, <1>6, <1>7, <1>8, <1>9, <1>10, <1>11 DEF Next

(* The rows, the tasks, the semaphore and the scheduler keep their types   *)
(* through every request, task step, prune, crash and restart.             *)
THEOREM TypeCorrect == Spec => []TypeOK
  <1>1. Init => TypeOK BY TypeInit, ConstantsAssumption
  <1>2. TypeOK /\ [Next]_vars => TypeOK' BY TypeStep, ConstantsAssumption
  <1> QED BY <1>1, <1>2, PTL DEF Spec

-----------------------------------------------------------------------------
(* The inductive invariant.                                                *)

(* With no job at all the invariant holds.                                 *)
LEMMA InvInit == ASSUME ConstantsAssumption, Init PROVE IInv
  <1>1. \A j \in Job : job[j] = Blank /\ task[j] = "none"
    BY DEF Init
  <1>2. queue = <<>>
    BY DEF Init
  <1> QED BY <1>1, <1>2 DEF IInv, InsideHolds, Inside, QueueSound, StageSound, NoOrphanRow,
                            IsActive, Status, Active, Blank, DownIsEmpty

(* A step of the database alone: the tasks, the queue and the semaphore    *)
(* stay, every row stays of its connection and type, and each either is    *)
(* what it was, or leaves an active or finished status for a final one     *)
(* that the stage of its task allows.                                      *)
Rowwise ==
    /\ UNCHANGED <<used, task, queue, holder, up>>
    /\ \A j \in Job :
        /\ job[j].chan = job'[j].chan
        /\ job[j].type = job'[j].type
        /\ \/ job'[j] = job[j]
           \/ /\ Status(j) \in Terminal \cup Active
              /\ Status(j)' \in {"cancelled", "gone"}

(* A change of rows alone, within what their tasks allow, keeps it.        *)
LEMMA InvRowwise ==
    ASSUME TypeOK, IInv, Rowwise, up
    PROVE  IInv'
  <1>1. InsideHolds'
    BY DEF IInv, InsideHolds, Inside, IsMediaPull, Rowwise
  <1>2. QueueSound'
    BY DEF IInv, QueueSound, Rowwise
  <1>3. StageSound'
    BY DEF IInv, StageSound, Status, Rowwise, Blank, Terminal, Active, Ended
  <1>4. NoOrphanRow'
    BY DEF IInv, NoOrphanRow, IsActive, Status, Rowwise, Safe, Active
  <1>5. DownIsEmpty'
    BY DEF IInv, DownIsEmpty, Rowwise
  <1> QED BY <1>1, <1>2, <1>3, <1>4, <1>5 DEF IInv

(* So does a new job.                                                      *)
LEMMA InvInsert ==
    ASSUME ConstantsAssumption, TypeOK, IInv, up, up',
           NEW c \in Chan, NEW t \in Type, NEW b \in {"user", "schedule"},
           Insert(c, t, b), UNCHANGED holder
    PROVE  IInv'
  <1> DEFINE j == used + 1
  <1>1. j \in Job /\ used < j /\ used' = j
    BY DEF Insert, TypeOK, Job, ConstantsAssumption
  <1>2. /\ \A k \in Job : k # j => job'[k] = job[k] /\ task'[k] = task[k]
        /\ job'[j].status = "pending" /\ job'[j].chan = c /\ job'[j].type = t
        /\ task'[j] = IF Pull(c, t) THEN "queued" ELSE "entry"
    BY <1>1 DEF Insert, TypeOK
  <1>3. task[j] = "none"
    BY <1>1 DEF IInv, StageSound
  <1>4. InsideHolds'
    BY <1>1, <1>2 DEF IInv, InsideHolds, Inside, IsMediaPull
  <1>5. \A n \in 1..Len(queue) : queue[n] \in Job /\ queue[n] # j
    BY <1>3 DEF IInv, QueueSound, TypeOK
  <1>6. QueueSound'
    <2>1. CASE ~Pull(c, t)
      BY <2>1, <1>2, <1>5 DEF IInv, QueueSound, Insert
    <2>2. CASE Pull(c, t)
      <3>1. queue' = Append(queue, j) /\ queue \in Seq(Job)
        BY <2>2 DEF Insert, TypeOK
      <3>2. /\ Len(queue') = Len(queue) + 1 /\ queue'[Len(queue) + 1] = j
            /\ \A n \in 1..Len(queue) : queue'[n] = queue[n]
        BY <3>1, <1>1
      <3> QED BY <2>2, <3>1, <3>2, <1>1, <1>2, <1>5 DEF IInv, QueueSound
    <2> QED BY <2>1, <2>2
  <1>7. StageSound'
    <2> SUFFICES ASSUME NEW k \in Job
                 PROVE  /\ k > used' => job'[k] = Blank /\ task'[k] = "none"
                        /\ task'[k] \in {"queued", "entry"} => job'[k].status \in {"pending", "cancelled", "gone"}
                        /\ task'[k] = "working" => job'[k].status \in {"running", "cancelled", "gone"}
                        /\ task'[k] = "cancelling" => job'[k].status \in {"cancelled", "gone"}
      BY DEF StageSound, Status
    <2>1. CASE k = j
      BY <2>1, <1>1, <1>2
    <2>2. CASE k # j
      BY <2>2, <1>1, <1>2 DEF IInv, StageSound, Status, TypeOK, Job, ConstantsAssumption
    <2> QED BY <2>1, <2>2
  <1>8. NoOrphanRow'
    BY <1>1, <1>2 DEF IInv, NoOrphanRow, IsActive, Status, Safe
  <1> QED BY <1>4, <1>6, <1>7, <1>8 DEF IInv, DownIsEmpty

(* A task's own step.                                                      *)
LEMMA InvTask ==
    ASSUME ConstantsAssumption, TypeOK, IInv, NEW j \in Job, TaskStep(j)
    PROVE  IInv'
  <1> USE DEF Guarded, Status, Safe
  <1>0. /\ \A k \in Job : k # j => job'[k] = job[k] /\ task'[k] = task[k]
        /\ job'[j].chan = job[j].chan /\ job'[j].type = job[j].type
        /\ used' = used /\ up' = up
    <2>1. \A s \in Active \cup Terminal : Write(j, s) =>
             /\ \A k \in Job : k # j => job'[k] = job[k]
             /\ job'[j].chan = job[j].chan /\ job'[j].type = job[j].type
      BY StampedRow DEF Write, TypeOK
    <2>2. Write(j, "running") \/ Write(j, "cancelled") \/ Write(j, "completed")
            \/ Write(j, "failed") \/ UNCHANGED job
      BY DEF TaskStep, Acquire, GuardedStart, UnguardedStart, Checkpoint, Unwind,
             Complete, Fail, Strand
    <2>3. \A k \in Job : k # j => task'[k] = task[k]
      BY DEF TaskStep, Acquire, GuardedStart, UnguardedStart, Checkpoint, Unwind,
             Complete, Fail, Strand, Leave, TypeOK
    <2>4. used' = used /\ up' = up
      BY DEF TaskStep, Acquire, GuardedStart, UnguardedStart, Checkpoint, Unwind,
             Complete, Fail, Strand, Leave
    <2> QED BY <2>1, <2>2, <2>3, <2>4 DEF Active, Terminal, Ended
  <1>a. up /\ up'
    <2>1. CASE Acquire(j)
      BY <2>1 DEF Acquire, IInv, DownIsEmpty
    <2>2. CASE ~Acquire(j)
      BY <2>2, <1>0 DEF IInv, DownIsEmpty, TaskStep, GuardedStart, UnguardedStart, Checkpoint,
                        Unwind, Complete, Fail, Strand
    <2> QED BY <1>0, <2>1, <2>2 DEF TypeOK
  <1>b. DownIsEmpty'
    BY <1>a DEF DownIsEmpty
  <1>1. CASE Acquire(j)
    <2>1. /\ task'[j] = "entry" /\ job' = job /\ holder' = j /\ holder = NoJob
          /\ queue \in Seq(Job) /\ queue # <<>> /\ queue[1] = j /\ queue' = Tail(queue)
      BY <1>1 DEF Acquire, TypeOK
    <2>2. /\ Len(queue') = Len(queue) - 1 /\ 1 \in 1..Len(queue)
          /\ \A n \in 1..Len(queue') : n + 1 \in 1..Len(queue) /\ queue'[n] = queue[n + 1]
      BY <2>1
    <2>3. task[j] = "queued"
      BY <2>1, <2>2 DEF IInv, QueueSound
    <2>4. InsideHolds'
      BY <1>0, <2>1 DEF IInv, InsideHolds, Inside, IsMediaPull, NoJob, Job
    <2>5. ASSUME NEW n \in 1..Len(queue') PROVE queue'[n] \in Job /\ queue'[n] # j
      <3>1. n + 1 \in 1..Len(queue) /\ n + 1 # 1 /\ queue'[n] = queue[n + 1]
        BY <2>1, <2>2
      <3>2. queue[n + 1] = queue[1] => n + 1 = 1
        BY <3>1, <2>2 DEF IInv, QueueSound
      <3>3. queue[n + 1] \in Job
        BY <3>1, <2>1
      <3> QED BY <3>1, <3>2, <3>3, <2>1
    <2>6. QueueSound'
      <3>1. \A n \in 1..Len(queue') : task'[queue'[n]] = "queued"
        BY SMTT(30), <1>0, <2>2, <2>5 DEF IInv, QueueSound
      <3>2. ASSUME NEW m \in 1..Len(queue'), NEW n \in 1..Len(queue'), queue'[m] = queue'[n]
            PROVE  m = n
        <4>1. m + 1 = n + 1
          BY <3>2, <2>2 DEF IInv, QueueSound
        <4> QED BY <4>1
      <3> QED BY <3>1, <3>2 DEF QueueSound
    <2>7. StageSound'
      BY <1>0, <2>1, <2>3 DEF IInv, StageSound
    <2>8. NoOrphanRow'
      BY <1>0, <2>1 DEF IInv, NoOrphanRow, IsActive
    <2> QED BY <1>b, <2>4, <2>6, <2>7, <2>8 DEF IInv
  <1>2. CASE ~Acquire(j)
    <2>1. /\ task[j] \in {"entry", "working", "cancelling"}
          /\ task'[j] \in {"none", "working", "cancelling"}
          /\ queue' = queue
          /\ \/ task'[j] # "none" /\ holder' = holder
             \/ task'[j] = "none" /\ holder' = IF holder = j THEN NoJob ELSE holder
      BY <1>2 DEF TaskStep, GuardedStart, UnguardedStart, Checkpoint, Unwind,
                  Complete, Fail, Strand, Leave, TypeOK
    <2>2. InsideHolds'
      BY <1>0, <2>1 DEF IInv, InsideHolds, Inside, IsMediaPull
    <2>3. \A n \in 1..Len(queue) : queue[n] \in Job /\ queue[n] # j
      BY <2>1 DEF IInv, QueueSound, TypeOK
    <2>4. QueueSound'
      BY <1>0, <2>1, <2>3 DEF IInv, QueueSound
    <2>5. ~(j > used)
      BY <2>1 DEF IInv, StageSound
    <2>6. /\ task'[j] = "working" => job'[j].status \in {"running", "cancelled", "gone"}
          /\ task'[j] = "cancelling" => job'[j].status \in {"cancelled", "gone"}
          /\ task'[j] = "none" => \/ job'[j].status \notin Active
                                  \/ <<job'[j].chan, job'[j].type>> \notin RollsBack
      <3>1. CASE GuardedStart(j)
        <4>1. task[j] = "entry" /\ job[j].status \in {"pending", "cancelled", "gone"}
          BY <3>1 DEF GuardedStart, IInv, StageSound
        <4>2. CASE job[j].status = "pending"
          BY <3>1, <4>2, StampedRow DEF GuardedStart, Write, TypeOK, Active
        <4>3. CASE job[j].status # "pending"
          BY <3>1, <4>1, <4>3 DEF GuardedStart, Leave, TypeOK, Active
        <4> QED BY <4>2, <4>3
      <3>2. CASE UnguardedStart(j)
        BY <3>2, StampedRow DEF UnguardedStart, Write, TypeOK, Active, IInv, StageSound
      <3>3. CASE Checkpoint(j)
        BY <3>3 DEF Checkpoint, TypeOK
      <3>4. CASE Unwind(j)
        BY <3>4, StampedRow DEF Unwind, Leave, Write, TypeOK, Active, Terminal, Ended,
                                IInv, StageSound
      <3>5. CASE Complete(j) \/ Fail(j)
        BY <3>5, StampedRow DEF Complete, Fail, Leave, Write, TypeOK, Active, Terminal, Ended,
                                IInv, StageSound
      <3>6. CASE Strand(j)
        BY <3>6 DEF Strand, Leave, TypeOK
      <3> QED BY <1>2, <3>1, <3>2, <3>3, <3>4, <3>5, <3>6 DEF TaskStep
    <2>7. StageSound'
      BY <1>0, <2>1, <2>5, <2>6 DEF IInv, StageSound
    <2>8. NoOrphanRow'
      BY <1>0, <2>6 DEF IInv, NoOrphanRow, IsActive
    <2> QED BY <1>b, <2>2, <2>4, <2>7, <2>8 DEF IInv
  <1> QED BY <1>1, <1>2

(* Every step keeps the invariant.                                         *)
LEMMA InvStep ==
    ASSUME ConstantsAssumption, TypeOK, IInv, [Next]_vars
    PROVE  IInv'
  <1>1. ASSUME NEW c \in Chan, NEW t \in Type, Request(c, t) PROVE IInv'
    BY <1>1, InvInsert DEF Request
  <1>2. ASSUME NEW j \in Job, Cancel(j) PROVE IInv'
    <2>1. Rowwise
      BY <1>2, StampedRow DEF Cancel, Write, IsActive, Rowwise, Status, Active, Terminal, TypeOK
    <2> QED BY <1>2, <2>1, InvRowwise DEF Cancel
  <1>3. ASSUME NEW j \in Job, TaskStep(j) PROVE IInv'
    BY <1>3, InvTask
  <1>4. ASSUME NEW c \in Scheduled, SchedRead(c) PROVE IInv'
    BY <1>4 DEF SchedRead, IInv, InsideHolds, Inside, IsMediaPull, QueueSound, StageSound,
                NoOrphanRow, IsActive, Status, Safe, DownIsEmpty
  <1>5. CASE Abort
    <2>1. Rowwise
      BY <1>5, StampedRow DEF Abort, IsActive, Rowwise, Status, Active, Terminal, TypeOK
    <2> QED BY <1>5, <2>1, InvRowwise DEF Abort
  <1>6. CASE SchedInsert
    <2>1. sched[1] \in Chan /\ sched[2] \in Type
      BY <1>6 DEF SchedInsert, TypeOK, ConstantsAssumption, Chan, Type
    <2> QED BY <1>6, <2>1, InvInsert DEF SchedInsert
  <1>7. CASE Prune
    <2>1. Rowwise
      BY <1>7, PrunedRows DEF Prune, Rowwise, Status, TypeOK
    <2> QED BY <1>7, <2>1, InvRowwise DEF Prune
  <1>8. CASE Crash
    BY <1>8 DEF Crash, IInv, InsideHolds, Inside, QueueSound, StageSound, NoOrphanRow, Status,
                DownIsEmpty
  <1>9. CASE Startup
    <2> DEFINE a == [j \in Job |-> IF IsActive(j) THEN Stamped(job[j], "failed") ELSE job[j]]
    <2>1. \A j \in Job : /\ Stamped(job[j], "failed") \in Row
                         /\ IsActive(j) => Stamped(job[j], "failed").status = "failed"
      BY StampedRow DEF TypeOK, Terminal, Ended, IsActive, Status, Active
    <2>2. /\ a \in [Job -> Row]
          /\ \A j \in Job : a[j].status \notin Active /\ (job[j] = Blank => a[j] = Blank)
      BY <2>1 DEF TypeOK, IsActive, Status, Active, Blank
    <2> HIDE DEF a
    <2>3. job' = a \/ job' = Pruned(a)
      BY <1>9 DEF Startup, a
    <2>4. \A j \in Job : job'[j].status \notin Active /\ (job[j] = Blank => job'[j] = Blank)
      BY <2>2, <2>3, PrunedRows DEF Active, Terminal, Ended, Blank
    <2>5. UNCHANGED <<used, task, queue, holder>> /\ ~up /\ up'
      BY <1>9 DEF Startup
    <2>6. InsideHolds' /\ QueueSound' /\ DownIsEmpty'
      BY <2>5 DEF IInv, InsideHolds, Inside, QueueSound, DownIsEmpty
    <2>7. StageSound'
      BY <2>4, <2>5 DEF IInv, StageSound, DownIsEmpty
    <2>8. NoOrphanRow'
      BY <2>4 DEF NoOrphanRow, IsActive, Status
    <2> QED BY <2>6, <2>7, <2>8 DEF IInv
  <1>10. CASE Tick
    BY <1>10 DEF Tick, IInv, InsideHolds, Inside, IsMediaPull, QueueSound, StageSound,
                 NoOrphanRow, IsActive, Status, Safe, DownIsEmpty
  <1>11. CASE UNCHANGED vars
    BY <1>11 DEF vars, IInv, InsideHolds, Inside, IsMediaPull, QueueSound, StageSound,
                 NoOrphanRow, IsActive, Status, Safe, DownIsEmpty
  <1> QED BY <1>1, <1>2, <1>3, <1>4, <1>5, <1>6, <1>7, <1>8, <1>9, <1>10, <1>11 DEF Next

(* Both parts of the induction hold in every reachable state.              *)
THEOREM InvariantHolds == Spec => [](TypeOK /\ IInv)
  <1>1. Init => TypeOK /\ IInv
    BY TypeInit, InvInit, ConstantsAssumption
  <1>2. TypeOK /\ IInv /\ [Next]_vars => (TypeOK /\ IInv)'
    BY TypeStep, InvStep, ConstantsAssumption
  <1> QED BY <1>1, <1>2, PTL DEF Spec

(* At most one media-server pull is inside the semaphore, for any number   *)
(* of connections and queued jobs, across cancels, crashes and restarts.   *)
THEOREM PullsAreSerial == Spec => []MutualExclusion
  <1>1. IInv => MutualExclusion
    BY DEF IInv, InsideHolds, MutualExclusion
  <1> QED BY <1>1, InvariantHolds, PTL

(* While the server runs, every active row whose runner rolls back before it *)
(* writes its final status has a live task, so that no such job blocks its  *)
(* connection's schedule after its end.                                     *)
THEOREM NoRowIsOrphaned == Spec => []NoOrphanRow
  <1>1. IInv => NoOrphanRow
    BY DEF IInv
  <1> QED BY <1>1, InvariantHolds, PTL

-----------------------------------------------------------------------------
(* The refinement of JobLife.                                              *)

(* No job at all is where a job's life begins.                             *)
LEMMA LifeInit == ASSUME ConstantsAssumption, Init PROVE Life!Init
  <1>1. NoChan \notin Media
    BY DEF ConstantsAssumption, Chan
  <1>2. \A j \in Job : Status(j) = "none"
    BY DEF Init, Status, Blank
  <1>3. \A j \in Job : Guarded(j) = FALSE
    <2>1. \A j \in Job : job[j].chan = NoChan
      BY DEF Init, Blank
    <2>2. \A j \in Job : ~Guarded(j)
      BY <1>1, <2>1 DEF Guarded
    <2> QED BY <2>2
  <1> QED BY <1>2, <1>3, Zenon DEF Life!Init

(* A new job is born pending.                                              *)
LEMMA LifeInsert ==
    ASSUME ConstantsAssumption, TypeOK, IInv,
           NEW c \in Chan, NEW t \in Type, NEW b \in {"user", "schedule"}, Insert(c, t, b)
    PROVE  Life!Next
  <1> DEFINE j == used + 1
             s == [i \in Job |-> Status(i)]
             f == [i \in Job |-> Guarded(i)]
  <1>1. j \in Job /\ j > used
    BY DEF Insert, TypeOK, Job, ConstantsAssumption
  <1>2. Status(j) = "none"
    BY <1>1 DEF IInv, StageSound, Status, Blank
  <1>3. /\ \A k \in Job : k # j => job'[k] = job[k]
        /\ job'[j].status = "pending" /\ job'[j].chan = c
    BY <1>1 DEF Insert, TypeOK
  <1>4. s' = [s EXCEPT ![j] = "pending"]
    BY <1>1, <1>3 DEF Status
  <1>5. f' = [f EXCEPT ![j] = (c \in Media)]
    BY <1>1, <1>3 DEF Guarded
  <1>a. \E b1 \in BOOLEAN : f' = [f EXCEPT ![j] = b1]
    <2>1. (c \in Media) \in BOOLEAN
      OBVIOUS
    <2> QED BY <1>5, <2>1, Zenon
  <1>b. s[j] = "none"
    BY <1>1, <1>2
  <1>6. Life!Submit(j)
    BY <1>b, <1>4, <1>a, Zenon DEF Life!Submit
  <1> QED BY <1>1, <1>6 DEF Life!Next

(* One row written to status t, from a status in from, is a move of JobLife. *)
LEMMA LifeMove ==
    ASSUME TypeOK, NEW j \in Job, NEW from, NEW to \in Active \cup Terminal,
           Status(j) \in from, Status(j) \notin {"none", "gone"}, Write(j, to)
    PROVE  Life!Move(from, to)
  <1> DEFINE s == [i \in Job |-> Status(i)]
             f == [i \in Job |-> Guarded(i)]
  <1>1. /\ \A k \in Job : k # j => job'[k] = job[k]
        /\ job'[j].status = to /\ job'[j].chan = job[j].chan
    BY StampedRow DEF Write, TypeOK, Status
  <1>2. f' = f
    BY <1>1 DEF Guarded
  <1>3. s' = [k \in Job |-> IF k \in {j} THEN to ELSE s[k]]
    BY <1>1 DEF Status
  <1>4. {j} \in SUBSET {k \in Job : s[k] \in from}
    OBVIOUS
  <1> QED BY <1>2, <1>3, <1>4 DEF Life!Move

(* What leaves status and channel of every row alone does not show.        *)
LEMMA LifeStutter ==
    ASSUME \A j \in Job : job'[j].status = job[j].status /\ job'[j].chan = job[j].chan
    PROVE  UNCHANGED Life!vars
  BY DEF Life!vars, Status, Guarded

(* What a job's task does to its row is a move of its life, or nothing.    *)
LEMMA LifeTask ==
    ASSUME TypeOK, IInv, NEW j \in Job, TaskStep(j)
    PROVE  Life!Next \/ UNCHANGED Life!vars
  <1> DEFINE s == [i \in Job |-> Status(i)]
             f == [i \in Job |-> Guarded(i)]
  <1>1. CASE UNCHANGED job
    BY <1>1, LifeStutter
  <1>2. ASSUME NEW t \in Active \cup Terminal, Write(j, t),
               Status(j) \in {"gone"} \/ Status(j) = t
        PROVE  UNCHANGED Life!vars
    <2>1. /\ \A k \in Job : k # j => job'[k] = job[k]
          /\ job'[j].status = job[j].status /\ job'[j].chan = job[j].chan
      BY <1>2, StampedRow DEF Write, TypeOK, Status, Active, Terminal, Ended
    <2> QED BY <2>1, LifeStutter
  <1>3. CASE GuardedStart(j) /\ Status(j) = "pending"
    <2>1. Life!Move({"pending"}, "running")
      BY <1>3, LifeMove DEF GuardedStart, Active
    <2> QED BY <2>1 DEF Life!Next, Life!Start
  <1>4. CASE UnguardedStart(j)
    <2>1. Write(j, "running") /\ Status(j) \in {"pending", "cancelled", "gone"}
      BY <1>4 DEF UnguardedStart, IInv, StageSound
    <2>2. CASE Status(j) = "pending"
      <3>1. Life!Move({"pending"}, "running")
        BY <2>1, <2>2, LifeMove DEF Active
      <3> QED BY <3>1 DEF Life!Next, Life!Start
    <2>3. CASE Status(j) = "cancelled"
      <3>1. /\ \A k \in Job : k # j => job'[k] = job[k]
            /\ job'[j].status = "running" /\ job'[j].chan = job[j].chan
        BY <2>1, <2>3, StampedRow DEF Write, TypeOK, Status, Active
      <3>2. s' = [s EXCEPT ![j] = "running"]
        BY <3>1 DEF Status
      <3>3. f' = f
        BY <3>1 DEF Guarded
      <3>4. s[j] = "cancelled"
        BY <2>3
      <3>5. ~Guarded(j)
        BY <1>4 DEF UnguardedStart
      <3>6. ~f[j]
        BY <3>5
      <3>7. Life!Revive(j)
        BY <3>2, <3>3, <3>4, <3>6, Zenon DEF Life!Revive
      <3> QED BY <3>7 DEF Life!Next
    <2>4. CASE Status(j) = "gone"
      BY <2>1, <2>4, <1>2 DEF Active
    <2> QED BY <2>1, <2>2, <2>3, <2>4
  <1>5. CASE Unwind(j)
    <2>1. Write(j, "cancelled") /\ Status(j) \in {"cancelled", "gone"}
      BY <1>5 DEF Unwind, IInv, StageSound
    <2> QED BY <2>1, <1>2 DEF Terminal
  <1>6. CASE Complete(j) \/ Fail(j)
    <2>1. PICK t \in Ended : Write(j, t)
      BY <1>6 DEF Complete, Fail, Ended
    <2>2. Status(j) \in {"running", "cancelled", "gone"}
      BY <1>6 DEF Complete, Fail, IInv, StageSound
    <2>3. CASE Status(j) = "gone"
      BY <2>1, <2>3, <1>2 DEF Terminal
    <2>4. CASE Status(j) \in {"running", "cancelled"}
      <3>1. Life!Move({"running", "cancelled"}, t)
        BY <2>1, <2>4, LifeMove DEF Terminal
      <3> QED BY <3>1, <2>1 DEF Life!Next, Life!Finish, Ended
    <2> QED BY <2>2, <2>3, <2>4
  <1>7. CASE Acquire(j) \/ Checkpoint(j) \/ Strand(j) \/ (GuardedStart(j) /\ Status(j) # "pending")
    <2>1. UNCHANGED job
      BY <1>7 DEF Acquire, GuardedStart, Checkpoint, Strand
    <2> QED BY <2>1, <1>1
  <1> QED BY <1>3, <1>4, <1>5, <1>6, <1>7 DEF TaskStep

(* Every step is a step of the jobs' lives, or nothing.                    *)
LEMMA LifeStep ==
    ASSUME ConstantsAssumption, TypeOK, IInv, [Next]_vars
    PROVE  [Life!Next]_(Life!vars)
  <1> DEFINE s == [i \in Job |-> Status(i)]
             f == [i \in Job |-> Guarded(i)]
  <1>1. ASSUME NEW c \in Chan, NEW t \in Type, Request(c, t) PROVE Life!Next
    BY <1>1, LifeInsert DEF Request
  <1>2. ASSUME NEW j \in Job, Cancel(j) PROVE Life!Next
    <2>1. Life!Move(Active, "cancelled")
      BY <1>2, LifeMove DEF Cancel, IsActive, Active, Terminal
    <2>2. Active = Life!Active
      BY DEF Active, Life!Active
    <2> QED BY <2>1, <2>2 DEF Life!Next, Life!Cancel
  <1>3. ASSUME NEW j \in Job, TaskStep(j) PROVE Life!Next \/ UNCHANGED Life!vars
    BY <1>3, LifeTask
  <1>4. ASSUME NEW c \in Scheduled, SchedRead(c) PROVE UNCHANGED Life!vars
    BY <1>4, LifeStutter DEF SchedRead
  <1>5. CASE Abort
    <2> DEFINE J == {j \in Job : IsActive(j)}
    <2>1. \A j \in Job : /\ job'[j].chan = job[j].chan
                         /\ job'[j].status = IF IsActive(j) THEN "cancelled" ELSE job[j].status
      BY SMTT(30), <1>5, StampedRow DEF Abort, TypeOK, IsActive, Status, Active, Terminal
    <2>2. s' = [j \in Job |-> IF j \in J THEN "cancelled" ELSE s[j]]
      BY <2>1 DEF Status
    <2>3. f' = f
      BY <2>1 DEF Guarded
    <2>4. J \in SUBSET {j \in Job : s[j] \in Life!Active}
      BY DEF IsActive, Active, Life!Active
    <2>5. Life!Cancel
      BY <2>2, <2>3, <2>4, Zenon DEF Life!Cancel, Life!Move
    <2> QED BY <2>5 DEF Life!Next
  <1>6. CASE SchedInsert
    <2>1. sched[1] \in Chan /\ sched[2] \in Type
      BY <1>6 DEF SchedInsert, TypeOK, ConstantsAssumption, Chan, Type
    <2> QED BY <1>6, <2>1, LifeInsert DEF SchedInsert
  <1>7. CASE Prune
    <2> DEFINE J == {j \in Job : job[j].status \in Terminal /\ job'[j].status = "gone"}
    <2>1. \A j \in Job : /\ job'[j].chan = job[j].chan
                         /\ job'[j].status = IF j \in J THEN "gone" ELSE job[j].status
      BY <1>7, PrunedRows DEF Prune, TypeOK
    <2>2. s' = [j \in Job |-> IF j \in J THEN "gone" ELSE s[j]]
      BY <2>1 DEF Status
    <2>3. f' = f
      BY <2>1 DEF Guarded
    <2>4. J \in SUBSET {j \in Job : s[j] \in {"completed", "failed", "cancelled"}}
      BY DEF Status, Terminal, Ended
    <2>5. Life!Prune
      BY <2>2, <2>3, <2>4, Zenon DEF Life!Prune, Life!Move
    <2> QED BY <2>5 DEF Life!Next
  <1>8. CASE Crash
    BY <1>8, LifeStutter DEF Crash
  <1>9. CASE Startup
    <2> DEFINE a == [j \in Job |-> IF IsActive(j) THEN Stamped(job[j], "failed") ELSE job[j]]
               J == {j \in Job : s[j] \in {"completed", "failed", "cancelled"}
                                 /\ job'[j].status = "gone"}
    <2>1. \A j \in Job : /\ Stamped(job[j], "failed") \in Row
                         /\ Stamped(job[j], "failed").chan = job[j].chan
                         /\ IsActive(j) => Stamped(job[j], "failed").status = "failed"
      BY StampedRow DEF TypeOK, Terminal, Ended, IsActive, Status, Active
    <2>2. /\ a \in [Job -> Row]
          /\ \A j \in Job : /\ a[j].chan = job[j].chan
                            /\ IsActive(j) => a[j].status = "failed"
                            /\ ~IsActive(j) => a[j] = job[j]
      BY <2>1 DEF TypeOK
    <2>2a. \A j \in Job : IsActive(j) => ~Prunable(a, j)
      <3>1. \A j \in Job : IsActive(j) => a[j].upd = now
        BY DEF IsActive, Status, Active, Stamped, TypeOK, Row
      <3> HIDE DEF a
      <3> QED BY <3>1 DEF Prunable, TypeOK, ConstantsAssumption
    <2>3. \A j \in Job : IsActive(j) => Pruned(a)[j] = a[j]
      BY <2>2a DEF Pruned
    <2> HIDE DEF a
    <2>4. job' = a \/ job' = Pruned(a)
      BY <1>9 DEF Startup, a
    <2>5. \A j \in Job : job'[j].chan = job[j].chan
      BY <2>2, <2>4, PrunedRows
    <2>6. \A j \in Job : IsActive(j) => job'[j].status = "failed"
      BY <2>2, <2>3, <2>4
    <2>7. \A j \in Job : ~IsActive(j) =>
            job'[j].status = IF j \in J THEN "gone" ELSE job[j].status
      BY <2>2, <2>4, PrunedRows DEF Status, Terminal, Ended
    <2>8. s' = [j \in Job |-> IF s[j] \in Life!Active THEN "failed"
                              ELSE IF j \in J THEN "gone" ELSE s[j]]
      BY <2>6, <2>7 DEF Status, IsActive, Active, Life!Active
    <2>9. f' = f
      BY <2>5 DEF Guarded
    <2>10. J \in SUBSET {j \in Job : s[j] \in {"completed", "failed", "cancelled"}}
      OBVIOUS
    <2>11. Life!Restart
      BY <2>8, <2>9, <2>10, Zenon DEF Life!Restart
    <2> QED BY <2>11 DEF Life!Next
  <1>10. CASE Tick
    BY <1>10, LifeStutter DEF Tick
  <1>11. CASE UNCHANGED vars
    BY <1>11, LifeStutter DEF vars
  <1> QED BY <1>1, <1>2, <1>3, <1>4, <1>5, <1>6, <1>7, <1>8, <1>9, <1>10, <1>11 DEF Next

(* Every row lives the life of JobLife: no guarded job that was cancelled  *)
(* is ever pending or running again, and a completed or failed row stays   *)
(* what it is until it is pruned.                                          *)
THEOREM RowsLiveJobLife == Spec => LifeSpec
  <1>1. Init => Life!Init
    BY LifeInit, ConstantsAssumption
  <1>2. TypeOK /\ IInv /\ [Next]_vars => [Life!Next]_(Life!vars)
    BY LifeStep, ConstantsAssumption
  <1> QED BY <1>1, <1>2, InvariantHolds, PTL DEF Spec, LifeSpec, Life!Spec

-----------------------------------------------------------------------------
(* The scheduler's own jobs.                                               *)

(* OneScheduled is not inductive: between the scheduler's reads and its    *)
(* insert no job of its own may become active on the connection it chose.  *)
Alone(c) == \A j \in Job : job[j].by = "schedule" /\ job[j].chan = c => ~IsActive(j)
SchedInv == OneScheduled /\ (sched # Idle /\ sched[1] \in Media => Alone(sched[1]))

(* A guarded row the scheduler inserted is active after a step only if it  *)
(* was before, or was inserted by this step.                               *)
NoNewActive ==
    \A j \in Job :
        /\ IsActive(j)' => \/ IsActive(j)
                           \/ ~Guarded(j)
        /\ job'[j].by = job[j].by
        /\ job'[j].chan = job[j].chan

(* Where no job becomes active, the scheduler's view stays right.          *)
LEMMA SchedQuiet ==
    ASSUME SchedInv, NoNewActive, sched' = sched \/ sched' = Idle
    PROVE  SchedInv'
  <1>1. OneScheduled'
    BY DEF SchedInv, OneScheduled, NoNewActive, Guarded
  <1>2. ASSUME sched' # Idle, sched'[1] \in Media PROVE Alone(sched[1])'
    BY <1>2 DEF SchedInv, Alone, NoNewActive, Guarded
  <1> QED BY <1>1, <1>2 DEF SchedInv

(* A row keeps who started it.                                             *)
LEMMA StampedBy ==
    ASSUME NEW r \in Row, NEW s \in Active \cup Terminal, TypeOK
    PROVE  Stamped(r, s).by = r.by
  BY DEF Stamped, Row, Active, Terminal, Ended, TypeOK

(* Every step keeps one scheduled job per connection.                      *)
LEMMA SchedStep ==
    ASSUME ConstantsAssumption, TypeOK, IInv, SchedInv, [Next]_vars
    PROVE  SchedInv'
  <1> USE DEF IsActive, Status, Guarded
  <1>0. \A c \in Chan, t \in Type, b \in {"user", "schedule"} : Insert(c, t, b) =>
            /\ used + 1 \in Job
            /\ \A k \in Job : k # used + 1 => job'[k] = job[k]
            /\ job'[used + 1].by = b /\ job'[used + 1].chan = c
    BY DEF Insert, TypeOK, Job, ConstantsAssumption
  <1>1. ASSUME NEW c \in Chan, NEW t \in Type, Request(c, t) PROVE SchedInv'
    <2>1. sched' = sched /\ Insert(c, t, "user")
      BY <1>1 DEF Request
    <2>2. \A j \in Job : job'[j].by = "schedule" => job'[j] = job[j]
      BY <2>1, <1>0
    <2> QED BY <2>1, <2>2 DEF SchedInv, OneScheduled, Alone
  <1>2. ASSUME NEW j \in Job, Cancel(j) PROVE SchedInv'
    <2>1. NoNewActive /\ sched' = sched
      BY SMTT(30), <1>2, StampedRow, StampedBy DEF Cancel, Write, NoNewActive, TypeOK, Active, Terminal
    <2> QED BY <2>1, SchedQuiet
  <1>3. ASSUME NEW j \in Job, TaskStep(j) PROVE SchedInv'
    <2>1. ASSUME NEW s \in Active \cup Terminal, Write(j, s),
                 s \notin Active \/ job[j].status \in Active \/ ~Guarded(j)
          PROVE  NoNewActive
      <3>1. /\ \A k \in Job : k # j => job'[k] = job[k]
            /\ job'[j] = Stamped(job[j], s) /\ job[j] \in Row
        BY <2>1 DEF Write, TypeOK
      <3>2. /\ job'[j].by = job[j].by /\ job'[j].chan = job[j].chan
            /\ job'[j].status = job[j].status \/ job'[j].status = s
        BY <3>1, StampedRow, StampedBy
      <3> QED BY <2>1, <3>1, <3>2 DEF NoNewActive
    <2>2. GuardedStart(j) /\ Status(j) = "pending" => NoNewActive
      BY <2>1 DEF GuardedStart, Active
    <2>3. UnguardedStart(j) => NoNewActive
      BY <2>1 DEF UnguardedStart, Active
    <2>4. Unwind(j) \/ Complete(j) \/ Fail(j) => NoNewActive
      BY <2>1 DEF Unwind, Complete, Fail, Active, Terminal, Ended
    <2>5. UNCHANGED job => NoNewActive
      BY DEF NoNewActive
    <2>6. NoNewActive
      BY <1>3, <2>2, <2>3, <2>4, <2>5 DEF TaskStep, Acquire, GuardedStart, Checkpoint, Strand
    <2>7. sched' = sched
      BY <1>3 DEF TaskStep, Acquire, GuardedStart, UnguardedStart, Checkpoint, Unwind,
                  Complete, Fail, Strand, Leave
    <2> QED BY <2>6, <2>7, SchedQuiet
  <1>4. ASSUME NEW c \in Scheduled, SchedRead(c) PROVE SchedInv'
    <2>1. job' = job /\ sched'[1] = c /\ \A j \in Job : job[j].chan = c => ~IsActive(j)
      BY <1>4 DEF SchedRead
    <2> QED BY <2>1 DEF SchedInv, OneScheduled, Alone
  <1>5. CASE Abort
    <2>1. NoNewActive /\ sched' = sched
      BY <1>5, StampedRow, StampedBy DEF Abort, NoNewActive, TypeOK, Active, Terminal
    <2> QED BY <2>1, SchedQuiet
  <1>6. CASE SchedInsert
    <2>1. sched[1] \in Chan /\ sched[2] \in Type /\ sched # Idle /\ sched' = Idle
          /\ Insert(sched[1], sched[2], "schedule")
      BY <1>6 DEF SchedInsert, TypeOK, ConstantsAssumption, Chan, Type
    <2>2. /\ used + 1 \in Job
          /\ \A k \in Job : k # used + 1 => job'[k] = job[k]
          /\ job'[used + 1].by = "schedule" /\ job'[used + 1].chan = sched[1]
      BY <2>1, <1>0
    <2>3. \A k \in Job : k # used + 1 => ~ /\ job'[k].status \in Active
                                           /\ job'[k].by = "schedule"
                                           /\ job'[k].chan = sched[1]
                                           /\ sched[1] \in Media
      BY <2>1, <2>2 DEF SchedInv, Alone
    <2>4. OneScheduled'
      BY <2>2, <2>3 DEF SchedInv, OneScheduled
    <2> QED BY <2>1, <2>4 DEF SchedInv
  <1>7. CASE Prune
    <2>1. \A j \in Job : Pruned(job)[j].by = job[j].by
      BY DEF Pruned, TypeOK, Row
    <2>2. NoNewActive /\ sched' = sched
      BY <1>7, <2>1, PrunedRows DEF Prune, NoNewActive, TypeOK, Active
    <2> QED BY <2>2, SchedQuiet
  <1>8. CASE Crash
    BY <1>8, SchedQuiet DEF Crash, NoNewActive
  <1>9. CASE Startup
    <2> DEFINE a == [j \in Job |-> IF IsActive(j) THEN Stamped(job[j], "failed") ELSE job[j]]
    <2>1. /\ a \in [Job -> Row]
          /\ \A j \in Job : /\ a[j].status \notin Active
                            /\ a[j].by = job[j].by /\ a[j].chan = job[j].chan
      <3>1. \A j \in Job : /\ Stamped(job[j], "failed") \in Row
                           /\ Stamped(job[j], "failed").chan = job[j].chan
                           /\ IsActive(j) => Stamped(job[j], "failed").status = "failed"
        BY StampedRow DEF TypeOK, Terminal, Ended, Active
      <3>2. \A j \in Job : Stamped(job[j], "failed").by = job[j].by
        BY StampedBy DEF TypeOK, Terminal, Ended
      <3> QED BY <3>1, <3>2 DEF TypeOK, Active
    <2> HIDE DEF a
    <2>2. job' = a \/ job' = Pruned(a)
      BY <1>9 DEF Startup, a
    <2>3. \A j \in Job : Pruned(a)[j].by = a[j].by
      BY <2>1 DEF Pruned, Row
    <2>4. NoNewActive /\ sched' = sched
      BY <1>9, <2>1, <2>2, <2>3, PrunedRows DEF Startup, NoNewActive, Active
    <2> QED BY <2>4, SchedQuiet
  <1>10. CASE Tick
    BY <1>10, SchedQuiet DEF Tick, NoNewActive
  <1>11. CASE UNCHANGED vars
    BY <1>11, SchedQuiet DEF vars, NoNewActive
  <1> QED BY <1>1, <1>2, <1>3, <1>4, <1>5, <1>6, <1>7, <1>8, <1>9, <1>10, <1>11 DEF Next

(* The scheduler never has two of its own jobs active on one media-server  *)
(* connection, although its check and its insert are separate transactions *)
(* and the user may cancel or request jobs between them.                   *)
THEOREM ScheduledOnce == Spec => []OneScheduled
  <1>1. Init => SchedInv
    BY DEF Init, SchedInv, OneScheduled, Alone, IsActive, Status, Active, Blank
  <1>2. TypeOK /\ IInv /\ SchedInv /\ [Next]_vars => SchedInv'
    BY SchedStep, ConstantsAssumption
  <1>3. SchedInv => OneScheduled
    BY DEF SchedInv
  <1> QED BY <1>1, <1>2, <1>3, InvariantHolds, PTL DEF Spec

-----------------------------------------------------------------------------
(* What the scheduler counts from.                                         *)

(* Numbers that are bounded have a greatest one among them.                *)
LEMMA GreatestBelow ==
    ASSUME NEW n \in Nat, NEW S \in SUBSET (0..n), S # {}
    PROVE  \E m \in S : \A x \in S : x <= m
  <1> DEFINE D == {n - x : x \in S}
  <1>1. D \in SUBSET Nat /\ D # {}
    <2>1. \A x \in S : n - x \in Nat
      OBVIOUS
    <2>2. D \in SUBSET Nat
      BY <2>1
    <2>3. D # {}
      OBVIOUS
    <2> QED BY <2>2, <2>3
  <1>2. PICK d \in D : \A y \in D : ~ (<<y, d>> \in OpToRel(<, Nat))
    <2> HIDE DEF D
    <2> QED BY <1>1, NatLessThanWellFounded, WFMin
  <1>3. PICK m \in S : d = n - m
    OBVIOUS
  <1>4. ASSUME NEW x \in S PROVE x <= m
    <2>1. n - x \in D /\ n - x \in Nat /\ d \in Nat
      BY <1>1
    <2>2. ~ (n - x < d)
      BY <1>2, <2>1 DEF OpToRel
    <2> QED BY <1>3, <2>1, <2>2
  <1> QED BY <1>4

(* Among rows there is a last one: of those updated last, the one with the *)
(* greatest id.                                                            *)
LEMMA LastOne ==
    ASSUME ConstantsAssumption, NEW r \in [Job -> Row], NEW R \in SUBSET Job, R # {}
    PROVE  \E j \in R : \A k \in R : r[k].upd < r[j].upd \/ (r[k].upd = r[j].upd /\ k <= j)
  <1>1. \A j \in Job : r[j].upd \in 0..MaxTime
    BY DEF Row
  <1> DEFINE U == {r[j].upd : j \in R}
  <1>2. U \in SUBSET (0..MaxTime) /\ U # {}
    BY <1>1
  <1>3. PICK u \in U : \A x \in U : x <= u
    <2> HIDE DEF U
    <2> QED BY <1>2, GreatestBelow DEF ConstantsAssumption
  <1> DEFINE L == {j \in R : r[j].upd = u}
  <1>4. L \in SUBSET (0..MaxJobs) /\ L # {}
    <2>1. \A j \in R : j \in 0..MaxJobs
      BY DEF Job, ConstantsAssumption
    <2>2. PICK j \in R : u = r[j].upd
      OBVIOUS
    <2> QED BY <2>1, <2>2
  <1>5. PICK j \in L : \A k \in L : k <= j
    <2> HIDE DEF L
    <2> QED BY <1>4, GreatestBelow DEF ConstantsAssumption
  <1>6. ASSUME NEW k \in R PROVE r[k].upd < r[j].upd \/ (r[k].upd = r[j].upd /\ k <= j)
    <2>1. r[k].upd <= u /\ r[j].upd = u /\ r[k].upd \in 0..MaxTime /\ u \in 0..MaxTime
      BY <1>1, <1>2, <1>3
    <2>2. r[k].upd = u => k <= j
      BY <1>5
    <2> QED BY <2>1, <2>2
  <1> QED BY <1>5, <1>6

(* The date of the newest run among the rows r, as LastRun finds it.       *)
LastOf(r, c, t) ==
    LET R == Runs(r, c, t) IN
    IF R = {} THEN -1 ELSE r[CHOOSE j \in R : \A k \in R : r[k].upd <= r[j].upd].upd

(* It is the greatest date of a run.                                       *)
LEMMA LastOfIs ==
    ASSUME ConstantsAssumption, NEW r \in [Job -> Row], NEW c, NEW t
    PROVE  /\ LastOf(r, c, t) \in -1..MaxTime
           /\ \A k \in Runs(r, c, t) : r[k].upd <= LastOf(r, c, t)
           /\ LastOf(r, c, t) = -1 \/ \E j \in Runs(r, c, t) : LastOf(r, c, t) = r[j].upd
  <1> DEFINE R == Runs(r, c, t)
             b == CHOOSE j \in R : \A k \in R : r[k].upd <= r[j].upd
  <1>1. R \in SUBSET Job /\ \A j \in Job : r[j].upd \in 0..MaxTime
    BY DEF Runs, Row
  <1>2. CASE R = {}
    <2>1. LastOf(r, c, t) = -1
      BY <1>2 DEF LastOf
    <2> QED BY <1>2, <2>1 DEF ConstantsAssumption
  <1>3. CASE R # {}
    <2>1. PICK j \in R : \A k \in R : r[k].upd < r[j].upd \/ (r[k].upd = r[j].upd /\ k <= j)
      <3> HIDE DEF R
      <3> QED BY <1>1, <1>3, LastOne
    <2>2. \A k \in R : r[k].upd <= r[j].upd
      BY <1>1, <2>1
    <2>3. b \in R /\ \A k \in R : r[k].upd <= r[b].upd
      BY <2>2
    <2>4. LastOf(r, c, t) = r[b].upd
      BY <1>3 DEF LastOf
    <2> QED
      <3> HIDE DEF b
      <3> QED BY <1>1, <2>3, <2>4
  <1> QED BY <1>2, <1>3

(* If every run is followed by one as late, the last date does not go back. *)
LEMMA LastOfGrows ==
    ASSUME ConstantsAssumption, NEW r \in [Job -> Row], NEW q \in [Job -> Row],
           NEW c, NEW t,
           \A j \in Runs(r, c, t) : \E k \in Runs(q, c, t) : q[k].upd >= r[j].upd
    PROVE  LastOf(q, c, t) >= LastOf(r, c, t)
  <1>1. LastOf(q, c, t) \in -1..MaxTime /\ LastOf(r, c, t) \in -1..MaxTime
    BY LastOfIs
  <1>2. CASE LastOf(r, c, t) = -1
    BY <1>1, <1>2
  <1>3. CASE LastOf(r, c, t) # -1
    <2>1. PICK j \in Runs(r, c, t) : LastOf(r, c, t) = r[j].upd
      BY <1>3, LastOfIs
    <2>2. PICK k \in Runs(q, c, t) : q[k].upd >= r[j].upd
      OBVIOUS
    <2>3. q[k].upd <= LastOf(q, c, t)
      BY <2>2, LastOfIs
    <2>4. q[k].upd \in 0..MaxTime
      BY DEF Runs, Row
    <2> QED BY <1>1, <2>1, <2>2, <2>3, <2>4
  <1> QED BY <1>2, <1>3

(* A prune leaves the newest run of every connection and type.             *)
LEMMA PruneKeepsLast ==
    ASSUME ConstantsAssumption, NEW r \in [Job -> Row], NEW c, NEW t, NEW i \in Runs(r, c, t)
    PROVE  \E k \in Runs(Pruned(r), c, t) : Pruned(r)[k].upd >= r[i].upd
  <1> DEFINE R == Runs(r, c, t)
  <1>1. R \in SUBSET Job /\ R # {} /\ \A j \in Job : r[j].upd \in 0..MaxTime
    BY DEF Runs, Row
  <1>2. PICK j \in R : \A k \in R : r[k].upd < r[j].upd \/ (r[k].upd = r[j].upd /\ k <= j)
    <2> HIDE DEF R
    <2> QED BY <1>1, LastOne
  <1>3. j \in Job /\ r[j].status \in Ended /\ r[j].chan = c /\ r[j].type = t
    BY DEF Runs
  <1>4. Newest(r, j)
    BY <1>2, <1>3 DEF Newest
  <1>5. Pruned(r)[j] = r[j]
    BY <1>3, <1>4 DEF Pruned, Prunable
  <1>6. j \in Runs(Pruned(r), c, t)
    BY <1>3, <1>5 DEF Runs
  <1>7. r[i].upd <= r[j].upd
    BY <1>1, <1>2
  <1> QED BY <1>1, <1>5, <1>6, <1>7

(* A step leaves the rows that ended as they are, and may then prune.      *)
EndedStay ==
    \E a \in [Job -> Row] : /\ \A j \in Job : IsEnded(j) => a[j] = job[j]
                            /\ job' = a \/ job' = Pruned(a)

(* A row whose task is at work has not ended.                              *)
LEMMA WriteStays ==
    ASSUME TypeOK, IInv, NEW j \in Job, NEW s \in Active \cup Terminal, Write(j, s),
           task[j] \in {"entry", "working", "cancelling"} \/ IsActive(j)
    PROVE  EndedStay
  <1>1. ~IsEnded(j)
    BY DEF IInv, StageSound, IsActive, IsEnded, Status, Active, Ended
  <1>2. job' \in [Job -> Row]
    BY WriteType
  <1>3. \A k \in Job : k # j => job'[k] = job[k]
    BY DEF Write, TypeOK
  <1> QED BY <1>1, <1>2, <1>3 DEF EndedStay

(* Every step leaves the ended rows as they are, but for a prune.          *)
LEMMA EndedStep ==
    ASSUME ConstantsAssumption, TypeOK, IInv, [Next]_vars
    PROVE  EndedStay
  <1>0. ASSUME UNCHANGED job PROVE EndedStay
    BY <1>0 DEF EndedStay, TypeOK
  <1>a. ASSUME NEW c \in Chan, NEW t \in Type, NEW b \in {"user", "schedule"}, Insert(c, t, b)
        PROVE  EndedStay
    <2>1. used + 1 \in Job /\ \A k \in Job : k # used + 1 => job'[k] = job[k]
      BY <1>a DEF Insert, TypeOK, Job, ConstantsAssumption
    <2>2. ~IsEnded(used + 1)
      BY <2>1 DEF IInv, StageSound, Blank, IsEnded, Status, Ended, TypeOK
    <2>3. job' \in [Job -> Row]
      BY <1>a, InsertType
    <2> QED BY <2>1, <2>2, <2>3 DEF EndedStay
  <1>1. ASSUME NEW c \in Chan, NEW t \in Type, Request(c, t) PROVE EndedStay
    BY <1>1, <1>a DEF Request
  <1>2. ASSUME NEW j \in Job, Cancel(j) PROVE EndedStay
    BY <1>2, WriteStays DEF Cancel, Terminal
  <1>3. ASSUME NEW j \in Job, TaskStep(j) PROVE EndedStay
    <2>1. CASE Acquire(j) \/ Checkpoint(j) \/ Strand(j)
      BY <2>1, <1>0 DEF Acquire, Checkpoint, Strand
    <2>2. CASE GuardedStart(j) \/ UnguardedStart(j)
      BY <2>2, <1>0, WriteStays DEF GuardedStart, UnguardedStart, Active
    <2>3. CASE Unwind(j) \/ Complete(j) \/ Fail(j)
      BY <2>3, WriteStays DEF Unwind, Complete, Fail, Terminal, Ended
    <2> QED BY <1>3, <2>1, <2>2, <2>3 DEF TaskStep
  <1>4. ASSUME NEW c \in Scheduled, SchedRead(c) PROVE EndedStay
    BY <1>4, <1>0 DEF SchedRead
  <1>5. CASE Abort
    <2>1. \A j \in Job : Stamped(job[j], "cancelled") \in Row
      BY StampedRow DEF TypeOK, Terminal
    <2>2. job' \in [Job -> Row] /\ \A j \in Job : ~IsActive(j) => job'[j] = job[j]
      BY <1>5, <2>1 DEF Abort, TypeOK
    <2>3. \A j \in Job : IsEnded(j) => ~IsActive(j)
      BY DEF IsEnded, IsActive, Ended, Active
    <2> QED BY <2>2, <2>3 DEF EndedStay
  <1>6. CASE SchedInsert
    <2>1. sched[1] \in Chan /\ sched[2] \in Type
      BY <1>6 DEF SchedInsert, TypeOK, ConstantsAssumption, Chan, Type
    <2> QED BY <1>6, <2>1, <1>a DEF SchedInsert
  <1>7. CASE Prune
    BY <1>7 DEF Prune, EndedStay, TypeOK
  <1>8. CASE Crash
    BY <1>8, <1>0 DEF Crash
  <1>9. CASE Startup
    <2> DEFINE a == [j \in Job |-> IF IsActive(j) THEN Stamped(job[j], "failed") ELSE job[j]]
    <2>1. \A j \in Job : Stamped(job[j], "failed") \in Row
      BY StampedRow DEF TypeOK, Terminal, Ended
    <2>2. a \in [Job -> Row]
      BY <2>1 DEF TypeOK
    <2>3. \A j \in Job : IsEnded(j) => a[j] = job[j]
      BY DEF IsEnded, IsActive, Ended, Active
    <2> HIDE DEF a
    <2>4. job' = a \/ job' = Pruned(a)
      BY <1>9 DEF Startup, a
    <2> QED BY <2>2, <2>3, <2>4 DEF EndedStay
  <1>10. CASE Tick
    BY <1>10, <1>0 DEF Tick
  <1>11. CASE UNCHANGED vars
    BY <1>11, <1>0 DEF vars
  <1> QED BY <1>1, <1>2, <1>3, <1>4, <1>5, <1>6, <1>7, <1>8, <1>9, <1>10, <1>11 DEF Next

(* So the last run of a schedule is not forgotten.                         *)
LEMMA LastRunStep ==
    ASSUME ConstantsAssumption, TypeOK, IInv, [Next]_vars,
           NEW c \in Scheduled, NEW t \in {"pull", "push"}
    PROVE  LastRun(c, t)' >= LastRun(c, t)
  <1>1. PICK a \in [Job -> Row] : /\ \A j \in Job : IsEnded(j) => a[j] = job[j]
                                  /\ job' = a \/ job' = Pruned(a)
    BY EndedStep DEF EndedStay
  <1>2. job \in [Job -> Row] /\ job' \in [Job -> Row]
    BY <1>1, PrunedRows DEF TypeOK
  <1>3. ASSUME NEW j \in Runs(job, c, t)
        PROVE  \E k \in Runs(job', c, t) : job'[k].upd >= job[j].upd
    <2>1. j \in Runs(a, c, t) /\ a[j].upd = job[j].upd /\ job[j].upd \in 0..MaxTime
      BY <1>1, <1>2 DEF Runs, IsEnded, Status, Row
    <2>2. CASE job' = a
      BY <2>1, <2>2
    <2>3. CASE job' = Pruned(a)
      BY <2>1, <2>3, PruneKeepsLast
    <2> QED BY <1>1, <2>2, <2>3
  <1>4. LastOf(job', c, t) >= LastOf(job, c, t)
    BY <1>2, <1>3, LastOfGrows
  <1>5. LastRun(c, t) = LastOf(job, c, t) /\ LastRun(c, t)' = LastOf(job', c, t)
    BY DEF LastRun, LastOf
  <1> QED BY <1>4, <1>5

(* No prune, restart or late write makes the scheduler forget the newest   *)
(* run of a schedule, and so none makes a schedule fire too early.         *)
THEOREM ScheduleIsKept == Spec => ScheduleKept
  <1>1. TypeOK /\ IInv /\ [Next]_vars
          => [\A c \in Scheduled, t \in {"pull", "push"} : LastRun(c, t)' >= LastRun(c, t)]_vars
    BY LastRunStep, ConstantsAssumption
  <1> QED BY <1>1, InvariantHolds, PTL DEF Spec, ScheduleKept
=============================================================================
