------------------------------ MODULE JobStore ------------------------------
(***************************************************************************)
(* What internal/runner/job.go promises of the directory jobs/, whatever   *)
(* files it is made of: Save stores a version of a job "atomically"        *)
(* (job.go:56), only the newest job's file ever changes, and each version  *)
(* of a job replaces an older one, or one of the job before if that began  *)
(* in the same millisecond.  A job has version 0 when it begins, version n *)
(* when n of its environments have been served, and version Final once     *)
(* FinishedAt is set.                                                      *)
(***************************************************************************)
EXTENDS Naturals

CONSTANTS
  MaxJobs,   \* bound of the times at which jobs begin
  Turns,     \* the environments of each
  None       \* no file

Ids == 1..MaxJobs   \* in the order of their timestamps
Final == Turns + 1
Over == Final + 1
Versions == 0..Final

VARIABLES
  stored,    \* the version of each job in its file
  current,   \* the id of the newest job, or 0
  version    \* the version RunJob saves next; Over when no job runs

Init ==
  /\ stored = [i \in Ids |-> None]
  /\ current = 0
  /\ version = Over

NewJob ==
  /\ version = Over
  /\ current' \in {current, current + 1} \cap Ids
  /\ version' = 0
  /\ UNCHANGED stored

\* The job goes on whether or not this version reached its file.
Save ==
  /\ version < Over
  /\ version' = version + 1
  /\ stored' \in {stored, [stored EXCEPT ![current] = version]}
  /\ UNCHANGED current

Crash ==
  /\ version' = Over
  /\ UNCHANGED <<stored, current>>

Next == NewJob \/ Save \/ Crash

Spec == Init /\ [][Next]_<<stored, current, version>>
=============================================================================
