---------------------------- MODULE MCSyncJobs ----------------------------
(***************************************************************************)
(* Instances of SyncJobs for TLC.                                          *)
(***************************************************************************)
EXTENDS SyncJobs

CONSTANTS m1, c1, h1

\* A media server's pull rolls back and its push does not; c1 stands for both
\* kinds of cloud runner at once, its pull for MDBList's, which rolls back,
\* its push for Trakt's, which does not.
SomeRollBack == {<<m1, "pull">>, <<c1, "pull">>}

\* An interval longer than the retention, so that a prune could make a
\* schedule forget its last run; pushes run more often than pulls.
LongInterval == [t \in {"pull", "push"} |-> IF t = "pull" THEN 2 ELSE 1]
=============================================================================
