------------------------------- MODULE JobLog -------------------------------
(***************************************************************************)
(* What the runner promises about the job log, the directory jobs/: at     *)
(* most one job is active, it serves the requested names one after the     *)
(* other, adding at most one run for each, it is finished only when no     *)
(* name is left, and every file holds a version its job really had.  A     *)
(* save may fail, so a file may lag behind its job; a process that dies    *)
(* leaves the last file as it is.  No file of another job ever changes.    *)
(***************************************************************************)
EXTENDS Naturals, Sequences

CONSTANTS Ids, NoJob

VARIABLES
  active,   \* the job being run, [id, runs, finished], or NoJob
  left,     \* how many of its names are still to be served
  log       \* the last saved version of the job of each id, or NoJob

logVars == <<active, left, log>>

LInit == active = NoJob /\ left = 0 /\ log = [i \in Ids |-> NoJob]

\* The new version of the active job may reach the log, or not.
Written == log' \in {log, [log EXCEPT ![active'.id] = active']}

Begin ==
  /\ active = NoJob
  /\ \E id \in Ids : active' = [id |-> id, runs |-> <<>>, finished |-> FALSE]
  /\ left' \in Nat \ {0}
  /\ Written

\* One name is served: it adds its run, or was disabled and adds none.
Extends(old, new) ==
  \/ new = old
  \/ Len(new) = Len(old) + 1 /\ SubSeq(new, 1, Len(old)) = old

Serve ==
  /\ active # NoJob /\ active' # NoJob /\ left > 0
  /\ left' = left - 1
  /\ active' = [active EXCEPT !.runs = active'.runs]
  /\ Extends(active.runs, active'.runs)
  /\ Written

Complete ==
  /\ active # NoJob /\ left = 0 /\ ~active.finished
  /\ active' = [active EXCEPT !.finished = TRUE]
  /\ UNCHANGED left
  /\ Written

\* The runner lets go of a finished job, or the process dies.
Leave ==
  /\ active # NoJob
  /\ active' = NoJob /\ left' = 0
  /\ UNCHANGED log

LNext == Begin \/ Serve \/ Complete \/ Leave
LSpec == LInit /\ [][LNext]_logVars
=============================================================================
