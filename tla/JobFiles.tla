------------------------------ MODULE JobFiles ------------------------------
(***************************************************************************)
(* The directory jobs/ of internal/runner/job.go: how Save puts a version  *)
(* of a job into its file while RunJob (runner.go) works, and how the      *)
(* pages of internal/web/handlers.go read the files meanwhile: dashboard   *)
(* and listJobs one file after the other through ListJobs, jobDetail and   *)
(* downloadRun a single one through LoadJob.                               *)
(*                                                                         *)
(* One job is saved at a time (Runner!OneJobAtATime).  Any system call may *)
(* fail, and the process may crash between any two of them and be started  *)
(* again; what a finished call has done stays done (the machine itself     *)
(* does not lose its page cache).  Of a file it matters which version of   *)
(* the job it holds, or that it holds none that can be parsed.             *)
(***************************************************************************)
EXTENDS Sequences, Functions

CONSTANTS
  MaxJobs, Turns, None,    \* as in JobStore
  Half,                    \* a file that is empty or incomplete
  Temps,                   \* the names os.CreateTemp may choose
  Users,                   \* whoever looks at pages
  RecentMax,               \* the jobs the dashboard shows
  MaxFaults, MaxCrashes    \* bounds of the counters below

Ids == 1..MaxJobs
Final == Turns + 1
Over == Final + 1
Versions == 0..Final
Contents == Versions \cup {Half, None}

ASSUME FilesAssumption ==
  /\ {MaxJobs, Turns, RecentMax, MaxFaults, MaxCrashes} \subseteq Nat
  /\ None \notin Nat /\ Half \notin Nat /\ None # Half

VARIABLES
  target,    \* the file jobs/<id>.json of each id
  temp,      \* the files job-*.json.tmp
  current,   \* the id of the newest job, or 0
  shared,    \* history: the ids given to more than one job
  version,   \* the version of it to be saved next; Over when no job runs
  stage,     \* the call its Save has reached
  tmp,       \* tmpName
  orphans,   \* history: temp files that a crash or a failed Remove has left
  page,      \* what each user's browser waits for or shows
  seen,      \* history: the newest version of each job a user has been shown
  faults, crashes   \* how much of the bounds is used up

saverVars == <<target, temp, current, shared, version, stage, tmp, orphans, crashes>>
vars == <<saverVars, page, seen, faults>>

-----------------------------------------------------------------------------
\* What a list page has yet to read and has read; `began' is what the files
\* held when it was asked for, `failed' says that the system kept a file or
\* the directory from it.
List == [at : {"reading", "listed"}, dashboard : BOOLEAN, names : SUBSET Ids,
         jobs : Seq([id : Ids, version : Versions]), began : [Ids -> Contents], failed : BOOLEAN]
\* What became of a link to a job or to one of its outputs.
Detail == [at : {"detail"}, id : Ids, version : Contents, wanted : Versions]
Blank == [at |-> "blank"]

InUse == IF stage \in {"write", "close", "rename"} THEN {tmp} ELSE {}
Fault == faults < MaxFaults /\ faults' = faults + 1

Init ==
  /\ target = [i \in Ids |-> None]
  /\ temp = [t \in Temps |-> None]
  /\ current = 0 /\ shared = {} /\ version = Over /\ stage = "idle"
  /\ tmp \in Temps
  /\ orphans = {}
  /\ page = [u \in Users |-> Blank]
  /\ seen = [u \in Users |-> [i \in Ids |-> None]]
  /\ faults = 0 /\ crashes = 0

-----------------------------------------------------------------------------
(* RunJob and Save *)

\* NewJob: the id is the time in milliseconds, later than that of the job
\* before or, within the same millisecond, that of the job before.
NewJob ==
  /\ stage = "idle"
  /\ current' \in {current, current + 1} \cap Ids
  /\ shared' = shared \cup ({current} \cap {current'})
  /\ version' = 0
  /\ stage' = "create"
  /\ UNCHANGED <<target, temp, tmp, orphans, crashes, page, seen, faults>>

\* Save returns.  RunJob only logs an error, except that of the last one; with
\* that the handler answers "busy", otherwise with a link to the job.
\*   mutant: an error of the last save is only logged as well
ReturnAnyway(ok) ==
  /\ version' = version + 1
  /\ stage' = IF version = Final THEN "answer" ELSE "create"
Return(ok) ==
  /\ version' = version + 1
  /\ stage' = CASE version < Final -> "create"
                [] version = Final /\ ok -> "answer"
                [] OTHER -> "idle"

\* A call fails: its error is returned, after os.Remove of the temp file, whose
\* own error nobody looks at.
\*   mutant: the temp file is left behind
AbandonInPlace ==
  /\ Fault /\ Return(FALSE)
  /\ UNCHANGED <<temp, orphans>>
Abandon ==
  /\ Fault /\ Return(FALSE)
  /\ \/ temp' = [temp EXCEPT ![tmp] = None] /\ UNCHANGED orphans
     \/ orphans' = orphans \cup {tmp} /\ UNCHANGED temp

\* MkdirAll, MarshalIndent, CreateTemp: the file is new and empty.
CreateTemp ==
  /\ stage = "create"
  /\ \/ /\ tmp' \in {t \in Temps : temp[t] = None}
        /\ temp' = [temp EXCEPT ![tmp'] = Half]
        /\ stage' = "write"
        /\ UNCHANGED <<version, faults>>
     \/ Fault /\ Return(FALSE) /\ UNCHANGED <<temp, tmp>>
  /\ UNCHANGED <<target, current, shared, orphans, crashes, page, seen>>

\*   mutant: the error of Write is not looked at
WriteUnchecked ==
  /\ stage = "write" /\ stage' = "close"
  /\ \/ temp' = [temp EXCEPT ![tmp] = version] /\ UNCHANGED faults
     \/ Fault /\ UNCHANGED temp
  /\ UNCHANGED <<target, current, shared, version, tmp, orphans, crashes, page, seen>>
Write ==
  /\ stage = "write"
  /\ \/ /\ temp' = [temp EXCEPT ![tmp] = version]
        /\ stage' = "close"
        /\ UNCHANGED <<version, orphans, faults>>
     \/ Abandon
  /\ UNCHANGED <<target, current, shared, tmp, crashes, page, seen>>

CloseTemp ==
  /\ stage = "close"
  /\ \/ stage' = "rename" /\ UNCHANGED <<version, temp, orphans, faults>>
     \/ Abandon
  /\ UNCHANGED <<target, current, shared, tmp, crashes, page, seen>>

\*   mutant: the old file is removed to make room
RemoveThenRename ==
  /\ stage = "rename"
  /\ \/ /\ target' = [target EXCEPT ![current] = temp[tmp]]
        /\ temp' = [temp EXCEPT ![tmp] = None]
        /\ Return(TRUE)
        /\ UNCHANGED <<orphans, faults>>
     \/ Abandon /\ target' = [target EXCEPT ![current] = None]
  /\ UNCHANGED <<current, shared, tmp, crashes, page, seen>>
Rename ==
  /\ stage = "rename"
  /\ \/ /\ target' = [target EXCEPT ![current] = temp[tmp]]
        /\ temp' = [temp EXCEPT ![tmp] = None]
        /\ Return(TRUE)
        /\ UNCHANGED <<orphans, faults>>
     \/ Abandon /\ UNCHANGED target
  /\ UNCHANGED <<current, shared, tmp, crashes, page, seen>>

\* POST /run is redirected to /jobs/<id>.
Answer(u) ==
  /\ stage = "answer" /\ stage' = "idle"
  /\ seen' = [seen EXCEPT ![u][current] = Final]
  /\ UNCHANGED <<target, temp, current, shared, version, tmp, orphans, crashes, page, faults>>

Crash ==
  /\ crashes < MaxCrashes /\ crashes' = crashes + 1
  /\ version' = Over /\ stage' = "idle"
  /\ orphans' = orphans \cup InUse
  /\ page' = [u \in Users |-> Blank]
  /\ UNCHANGED <<target, temp, current, shared, tmp, seen, faults>>

-----------------------------------------------------------------------------
(* Pages *)

\* ListJobs: os.ReadDir; a temp file has another suffix.  Without the directory
\* there are no jobs.
OpenList(u, dashboard) ==
  /\ page[u].at # "reading"
  /\ page' = [page EXCEPT ![u] =
       [at |-> "reading", dashboard |-> dashboard, jobs |-> <<>>, began |-> target, failed |-> FALSE,
        names |-> {i \in Ids : target[i] # None}]]
  /\ UNCHANGED <<saverVars, seen, faults>>

\* os.ReadDir or the one ReadFile fails: listJobs, jobDetail and downloadRun say
\* so, the dashboard shows no job.
Fails(u) ==
  /\ page[u].at # "reading" /\ Fault
  /\ \/ page' = [page EXCEPT ![u] = Blank]
     \/ page' = [page EXCEPT ![u] =
          [at |-> "listed", dashboard |-> TRUE, names |-> {}, jobs |-> <<>>,
           began |-> target, failed |-> TRUE]]
  /\ UNCHANGED <<saverVars, seen>>

\* LoadJob of the next name, in their order; a file that cannot be read or parsed
\* is skipped.
Load(u, i) ==
  LET rest == [page[u] EXCEPT !.names = @ \ {i}]
  IN \/ /\ page' = [page EXCEPT ![u] = IF target[i] \notin Versions THEN rest ELSE
              [rest EXCEPT !.jobs = Append(@, [id |-> i, version |-> target[i]])]]
        /\ UNCHANGED faults
     \/ Fault /\ page' = [page EXCEPT ![u] = [rest EXCEPT !.failed = TRUE]]
LoadNext(u) ==
  /\ page[u].at = "reading"
  /\ \E i \in page[u].names : (\A j \in page[u].names : i <= j) /\ Load(u, i)
  /\ UNCHANGED <<saverVars, seen>>

\* sort.Slice, newest first.
Descending(jobs) == \A k, l \in DOMAIN jobs : k < l => jobs[k].id > jobs[l].id
NewestFirst(jobs) ==
  CHOOSE sorted \in [DOMAIN jobs -> Range(jobs)] :
    Range(sorted) = Range(jobs) /\ Descending(sorted)

\* What the dashboard keeps of it.
\*   mutant: it keeps the last of them
KeepsOldest(jobs, dashboard) ==
  IF dashboard /\ Len(jobs) > RecentMax
  THEN SubSeq(NewestFirst(jobs), Len(jobs) - RecentMax + 1, Len(jobs)) ELSE NewestFirst(jobs)
Shown(jobs, dashboard) ==
  IF dashboard /\ Len(jobs) > RecentMax THEN SubSeq(NewestFirst(jobs), 1, RecentMax)
  ELSE NewestFirst(jobs)

\* The newer of what a user knew of job i and what a page now says of it.
Newer(old, new) == IF old = None \/ (new \in Versions /\ new > old) THEN new ELSE old

ShowList(u) ==
  /\ page[u].at = "reading" /\ page[u].names = {}
  /\ LET jobs == Shown(page[u].jobs, page[u].dashboard) IN
     /\ page' = [page EXCEPT ![u] = [@ EXCEPT !.at = "listed", !.jobs = jobs]]
     /\ seen' = [seen EXCEPT ![u] = [i \in Ids |->
          IF \E k \in DOMAIN jobs : jobs[k].id = i
          THEN Newer(@[i], (CHOOSE j \in Range(jobs) : j.id = i).version) ELSE @[i]]]
  /\ UNCHANGED <<saverVars, faults>>

\* A link to a job, or to the output of one of the runs seen: jobDetail shows
\* what LoadJob returns, and downloadRun finds the run in it if it has it.
Follow(u, i) ==
  /\ page[u].at # "reading"
  /\ seen[u][i] # None
  /\ page' = [page EXCEPT ![u] =
       [at |-> "detail", id |-> i, version |-> target[i], wanted |-> seen[u][i]]]
  /\ seen' = [seen EXCEPT ![u][i] = Newer(@, target[i])]
  /\ UNCHANGED <<saverVars, faults>>

-----------------------------------------------------------------------------
SaveSteps == CreateTemp \/ Write \/ CloseTemp \/ Rename

Pages(u) ==
  \/ \E dashboard \in BOOLEAN : OpenList(u, dashboard)
  \/ Fails(u) \/ LoadNext(u) \/ ShowList(u)
  \/ \E i \in Ids : Follow(u, i)

Next ==
  \/ NewJob \/ SaveSteps \/ Crash
  \/ \E u \in Users : Answer(u) \/ Pages(u)

Spec == Init /\ [][Next]_vars

-----------------------------------------------------------------------------
(* Properties *)

\* Every variable has its type, and a job file holds a whole version whenever it
\* is there: never the half of one, which the pages would skip.
TypeOK ==
  /\ target \in [Ids -> Versions \cup {None}]
  /\ temp \in [Temps -> Contents]
  /\ current \in 0..MaxJobs /\ shared \subseteq Ids
  /\ version \in 0..Over
  /\ stage \in {"idle", "create", "write", "close", "rename", "answer"}
  /\ tmp \in Temps
  /\ orphans \subseteq Temps
  /\ page \in [Users -> List \cup Detail \cup {Blank}]
  /\ seen \in [Users -> [Ids -> Versions \cup {None}]]
  /\ faults \in 0..MaxFaults /\ crashes \in 0..MaxCrashes

\* "All jobs ..., sorted newest first" (job.go:105) although the files are read
\* one after the other while RunJob replaces them and begins new ones: a list
\* has every job that had a file when the page was asked for, in that version or
\* a later one (unless another job has taken its id), and each once, the newest
\* first; what the dashboard leaves out is older than RecentMax jobs it shows
\* (handlers.go:126-129).
PageShowsTheNewest ==
  \A u \in Users : page[u].at = "listed" /\ ~page[u].failed =>
    LET p == page[u]
        shown(i) == {k \in DOMAIN p.jobs : p.jobs[k].id = i}
    IN /\ \A k \in 2..Len(p.jobs) : p.jobs[k - 1].id > p.jobs[k].id
       /\ \A i \in {i \in Ids : p.began[i] # None} :
            \/ \E k \in shown(i) : i \in shared \/ p.jobs[k].version >= p.began[i]
            \/ p.dashboard /\ Len(p.jobs) = RecentMax /\ \A k \in DOMAIN p.jobs : p.jobs[k].id > i

\* A link holds: a job a user has seen in a list, on its page or in the answer
\* of POST /run ("save immediately so the detail page loads", runner.go:56) is
\* never a missing or half-written file, across failed saves and crashes; and
\* until a second job begins in the millisecond it began in, and takes its id
\* (job.go:49), it has every run it had then (so its outputs can be downloaded)
\* and is finished if it was finished.
LinksHold ==
  \A u \in Users : page[u].at = "detail" =>
    /\ page[u].version \in Versions
    /\ page[u].id \in shared \/ page[u].version >= page[u].wanted

\* A temp file is one a Save is still working on, or what a crash or a failed
\* Remove has left: every way out of Save (job.go:75-87) cleans up.
NoLitter == {t \in Temps : temp[t] # None} \subseteq orphans \cup InUse

\* Save is atomic (job.go:56): its calls, any of which may fail or be the last
\* before a crash, amount to one step that stores the version or does not.
Store == INSTANCE JobStore WITH stored <- target
KeepsTheStore == Store!Spec
=============================================================================
