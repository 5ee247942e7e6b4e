------------------------------ MODULE JobLife ------------------------------
(***************************************************************************)
(* What the sync_jobs table promises to whoever polls it (the status       *)
(* endpoints, the scheduler, the pruner), without tasks, semaphore or      *)
(* scheduler: the life of one row.  A job is firm when its runner starts   *)
(* through _mark_job_running_unless_cancelled, and loose when its runner   *)
(* stamps "running" on whatever the row holds.                             *)
(*                                                                         *)
(* SyncJobs implements this module: see Life in SyncJobs.tla.              *)
(***************************************************************************)
CONSTANT Job

VARIABLES
    status,  \* [Job -> Status]
    firm     \* [Job -> BOOLEAN]

vars == <<status, firm>>

Active == {"pending", "running"}
Status == {"none", "gone", "completed", "failed", "cancelled"} \cup Active

TypeOK ==
    /\ status \in [Job -> Status]
    /\ firm \in [Job -> BOOLEAN]

Init ==
    /\ status = [j \in Job |-> "none"]
    /\ firm = [j \in Job |-> FALSE]

\* A row is inserted once, by a request or by the scheduler.
Submit(j) ==
    /\ status[j] = "none"
    /\ status' = [status EXCEPT ![j] = "pending"]
    /\ \E f \in BOOLEAN : firm' = [firm EXCEPT ![j] = f]

\* The steps below move any number of rows at once: one user's abort, a
\* restart and a prune are single UPDATE / DELETE statements.
Move(from, to) ==
    \E J \in SUBSET {j \in Job : status[j] \in from} :
        /\ status' = [j \in Job |-> IF j \in J THEN to ELSE status[j]]
        /\ UNCHANGED firm

Start == Move({"pending"}, "running")

\* Only a loose job can leave "cancelled" for an active state again.
Revive(j) ==
    /\ ~firm[j]
    /\ status[j] = "cancelled"
    /\ status' = [status EXCEPT ![j] = "running"]
    /\ UNCHANGED firm

\* A task that passed its last checkpoint writes its result over a cancel.
Finish == \E r \in {"completed", "failed"} : Move({"running", "cancelled"}, r)
Cancel == Move(Active, "cancelled")

\* The first life of the server ends: all that was active failed, and old
\* rows are pruned in the same start-up.
Restart ==
    \E J \in SUBSET {j \in Job : status[j] \in {"completed", "failed", "cancelled"}} :
        /\ status' = [j \in Job |->
                        IF status[j] \in Active THEN "failed"
                        ELSE IF j \in J THEN "gone"
                        ELSE status[j]]
        /\ UNCHANGED firm

Prune == Move({"completed", "failed", "cancelled"}, "gone")

Next ==
    \/ \E j \in Job : Submit(j) \/ Revive(j)
    \/ Start \/ Finish \/ Cancel \/ Restart \/ Prune

Spec == Init /\ [][Next]_vars
=============================================================================
