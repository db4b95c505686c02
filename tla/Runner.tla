------------------------------- MODULE Runner -------------------------------
(***************************************************************************)
(* internal/runner/runner.go with what surrounds it: the POST /run         *)
(* handlers that call RunJob (internal/web/handlers.go), the JSON job      *)
(* files it writes (job.go), the configuration it reads through pointers   *)
(* (config.go, module EnvSlice), the JSON-RPC client (internal/becs) and   *)
(* the BECS servers at the other end.                                      *)
(*                                                                         *)
(* Every POST /run is served by a goroutine of its own, a member of        *)
(* Callers.  RunJob takes one of them at a time; the others are turned     *)
(* away.  While it works through the requested names, other handlers edit  *)
(* the configuration, the servers run their batches, calls fail or are     *)
(* given up, and the process may crash and be started again.               *)
(*                                                                         *)
(* Abstracted: a name, a credential, an output are what the properties     *)
(* need of them (an environment is its name, whether it has a tunnel and   *)
(* whether it is enabled); one RPC is one step; a poll that finds the      *)
(* batch not yet ended changes nothing and is not a step.                  *)
(***************************************************************************)
EXTENDS EnvSlice, FiniteSets

CONSTANTS
  Names,         \* environment names
  NoName,        \* the empty string of a Run that has not got that far
  NoJob,         \* no file jobs/<id>.json
  Callers,       \* the goroutines that serve POST /run
  Editors,       \* those that serve the environment pages
  Requests,      \* the name lists the dashboard may submit
  InitialEnvs,   \* what config.yaml holds when the program first starts
  Forms,         \* the environments the edit form may submit
  MaxRequests, MaxClock, MaxFaults, MaxEdits   \* bounds of the counters below

Env == [name : Names, tunnel : BOOLEAN, enabled : BOOLEAN]

ASSUME ConstantsAssumption ==
  /\ NoName \notin Names
  /\ Requests \subseteq Seq(Names) \ {<<>>}
  /\ InitialEnvs \in Seq(Env)
  /\ Forms \subseteq Env
  /\ {MaxRequests, MaxClock, MaxFaults, MaxEdits} \subseteq Nat

VARIABLES
  busy,      \* Runner.busy
  pc,        \* where each caller's goroutine is
  todo,      \* the names its loop has still to serve
  ptr,       \* its *config.Environment
  job,       \* its *Job
  run,       \* the Run of its executeRun
  tunnels,   \* the runs whose tunnel is up in this process
  disk,      \* jobs/<id>.json, for every id
  envs,      \* the memory behind cfg.Environments
  cfgFile,   \* the environments in config.yaml
  task,      \* the edit each editor is at
  servers,   \* what the BECS server of each run holds for it
  late,      \* requests nobody waits for any more that may still reach it
  lost,      \* history: the runs whose login or logout went wrong
  clock,     \* UTC time in milliseconds, what a job id is made of
  arrivals, faults, edits   \* how much of the bounds is used up

callerVars == <<pc, todo, ptr, job, run>>
serverVars == <<servers, late, lost>>
configVars == <<envs, cfgFile, task, edits>>
vars == <<busy, callerVars, tunnels, disk, serverVars, configVars, clock, arrivals, faults>>

-----------------------------------------------------------------------------
(* Data *)

Ids == 0..MaxClock
NoPointer == [buf |-> 0, idx |-> 0]

\* A Run of job.go.  `at' is whose host the endpoint was built from, `id' the
\* run's index in servers (0: none), `result' the terminal state Poll returned.
NoRun == [env |-> NoName, at |-> NoName, id |-> 0, tunnel |-> FALSE,
          result |-> "none", status |-> "none"]
Run == [env : Names \cup {NoName}, at : Names \cup {NoName}, id : Nat,
        tunnel : BOOLEAN, result : {"none", "Finished", "Stopped"},
        status : {"none", "finished", "stopped", "error"}]

\* A Job of job.go: `finished' stands for a FinishedAt that is not zero.
Job == [id : Ids, runs : Seq(Run), finished : BOOLEAN]
Fresh(id) == [id |-> id, runs |-> <<>>, finished |-> FALSE]

ASSUME NoJobAssumption == NoJob \notin Job

\* An edit between the calls of its handler: what it has found, what it will
\* write into the slice, and what yaml.Marshal has returned.
Nothing == <<>>
NoTask == [at |-> "idle", idx |-> 0, form |-> Nothing, snap |-> Nothing]
Task == [at : {"idle", "append", "store", "shift", "marshal", "rename"}, idx : Nat,
         form : Env \cup {Nothing}, snap : Seq(Env)]

\* What one BECS server holds for one run: the session and the batch.
Server == [session : {"none", "open", "closed"},
           batch : {"none", "Running", "Paused", "Finished", "Stopped"}]
\* The states at which Poll stops polling.
\*   mutants: a paused batch taken for ended; a stopped one polled for ever
EndedOrPaused == {"Finished", "Stopped", "Paused"}
EndedWell == {"Finished"}
Ended == {"Finished", "Stopped"}

\* The places of a caller.  It holds the runner from `new' to `release', its
\* tunnel (if it has one) in TunnelPlaces and its session in SessionPlaces.
SessionPlaces == {"batchRun", "poll", "fetch", "logout"}
TunnelPlaces == SessionPlaces \cup {"login", "disconnect"}
RunPlaces == TunnelPlaces \cup {"build", "connect", "record"}
JobPlaces == RunPlaces \cup {"next", "found", "release"}
RunnerPlaces == JobPlaces \cup {"new"}
Places == RunnerPlaces \cup {"idle", "checked"}

Holding == {c \in Callers : pc[c] \in RunnerPlaces}
Env0(c) == Deref(envs, ptr[c])

Init ==
  /\ busy = FALSE
  /\ pc = [c \in Callers |-> "idle"]
  /\ todo = [c \in Callers |-> <<>>]
  /\ ptr = [c \in Callers |-> NoPointer]
  /\ job = [c \in Callers |-> NoJob]
  /\ run = [c \in Callers |-> NoRun]
  /\ tunnels = {}
  /\ disk = [i \in Ids |-> NoJob]
  /\ envs = Loaded(InitialEnvs)
  /\ cfgFile = InitialEnvs
  /\ task = [e \in Editors |-> NoTask]
  /\ servers = <<>>
  /\ late = {}
  /\ lost = {}
  /\ clock = 0
  /\ arrivals = 0 /\ faults = 0 /\ edits = 0

-----------------------------------------------------------------------------
(* Pieces of steps *)

Goto(c, place) == pc' = [pc EXCEPT ![c] = place]

\* Something outside the program goes wrong.
Fault == faults < MaxFaults /\ faults' = faults + 1
NoFault == UNCHANGED faults

\* Job.Save: the file is replaced as a whole or not at all.
SaveJob(j) ==
  \/ disk' = [disk EXCEPT ![j.id] = j] /\ NoFault
  \/ UNCHANGED disk /\ Fault

\* The end of one turn of RunJob's loop: the job, with the Run of this name if
\* there is one, is saved (an error is only logged) and the next name is taken.
EndTurn(c, runs) ==
  LET j == [job[c] EXCEPT !.runs = runs] IN
  /\ job' = [job EXCEPT ![c] = j]
  /\ SaveJob(j)
  /\ todo' = [todo EXCEPT ![c] = Tail(todo[c])]
  /\ ptr' = [ptr EXCEPT ![c] = NoPointer]
  /\ run' = [run EXCEPT ![c] = NoRun]
  /\ Goto(c, "next")

\* Runner.fail
Fail(c) == run' = [run EXCEPT ![c].status = "error"]

\* Where the deferred calls of executeRun leave a caller whose session is over.
\*   mutant: only the success path tears the tunnel down
TunnelForgotten(c) == "record"
AfterSession(c) == IF run[c].tunnel THEN "disconnect" ELSE "record"

SetServer(c, field, value) ==
  servers' = [servers EXCEPT ![run[c].id] = [@ EXCEPT ![field] = value]]

\* The client gives a request up (after 20 s, or the connection breaks) and the
\* server may have executed it, may do so later, or may never see it.
GivenUp(c, method) == late' = late \cup {[id |-> run[c].id, method |-> method]}
Lose(c) == lost' = lost \cup {run[c].id}

-----------------------------------------------------------------------------
(* POST /run and the frame of RunJob *)

\* The handler finds the runner free; a busy one sends the browser back.
Arrive(c) ==
  /\ pc[c] = "idle" /\ ~busy
  /\ arrivals < MaxRequests /\ arrivals' = arrivals + 1
  /\ \E names \in Requests : todo' = [todo EXCEPT ![c] = names]
  /\ Goto(c, "checked")
  /\ UNCHANGED <<busy, ptr, job, run, tunnels, disk, serverVars, configVars, clock, faults>>

\* RunJob's own test, under the mutex: turned away after all, or in.
TurnAway(c) ==
  /\ pc[c] = "checked" /\ busy
  /\ todo' = [todo EXCEPT ![c] = <<>>]
  /\ Goto(c, "idle")
  /\ UNCHANGED <<busy, ptr, job, run, tunnels, disk, serverVars, configVars, clock, arrivals, faults>>

\*   mutant: the answer of the handler's IsBusy is trusted
EnterUnchecked(c) ==
  /\ pc[c] = "checked"
  /\ busy' = TRUE
  /\ Goto(c, "new")
  /\ UNCHANGED <<todo, ptr, job, run, tunnels, disk, serverVars, configVars, clock, arrivals, faults>>

Enter(c) ==
  /\ pc[c] = "checked" /\ ~busy
  /\ busy' = TRUE
  /\ Goto(c, "new")
  /\ UNCHANGED <<todo, ptr, job, run, tunnels, disk, serverVars, configVars, clock, arrivals, faults>>

\* NewJob, and the save that lets the detail page load.
NewJob(c) ==
  /\ pc[c] = "new"
  /\ job' = [job EXCEPT ![c] = Fresh(clock)]
  /\ SaveJob(Fresh(clock))
  /\ Goto(c, "next")
  /\ UNCHANGED <<busy, todo, ptr, run, tunnels, serverVars, configVars, clock, arrivals>>

\* No name is left: the job is finished and saved a last time.
\*   mutant: the job is finished as soon as one run has failed
FinishOnError(c) ==
  /\ pc[c] = "next"
  /\ todo[c] = <<>> \/ \E k \in DOMAIN job[c].runs : job[c].runs[k].status = "error"
  /\ job' = [job EXCEPT ![c].finished = TRUE]
  /\ SaveJob(job'[c])
  /\ todo' = [todo EXCEPT ![c] = <<>>]
  /\ Goto(c, "release")
  /\ UNCHANGED <<busy, ptr, run, tunnels, serverVars, configVars, clock, arrivals>>

Finish(c) ==
  /\ pc[c] = "next" /\ todo[c] = <<>>
  /\ job' = [job EXCEPT ![c].finished = TRUE]
  /\ SaveJob(job'[c])
  /\ Goto(c, "release")
  /\ UNCHANGED <<busy, todo, ptr, run, tunnels, serverVars, configVars, clock, arrivals>>

\* The deferred release, then the redirect that answers the request.
Release(c) ==
  /\ pc[c] = "release"
  /\ busy' = FALSE
  /\ job' = [job EXCEPT ![c] = NoJob]
  /\ Goto(c, "idle")
  /\ UNCHANGED <<todo, ptr, run, tunnels, disk, serverVars, configVars, clock, arrivals, faults>>

-----------------------------------------------------------------------------
(* One turn of the loop: look the name up, skip it or execute it *)

NotFound(c) ==
  /\ pc[c] = "next" /\ todo[c] # <<>>
  /\ FindByName(envs, Head(todo[c])) = 0
  /\ EndTurn(c, Append(job[c].runs, [NoRun EXCEPT !.env = Head(todo[c]), !.status = "error"]))
  /\ UNCHANGED <<busy, tunnels, serverVars, configVars, clock, arrivals>>

Found(c) ==
  /\ pc[c] = "next" /\ todo[c] # <<>>
  /\ FindByName(envs, Head(todo[c])) # 0
  /\ ptr' = [ptr EXCEPT ![c] = PointerTo(envs, FindByName(envs, Head(todo[c])))]
  /\ Goto(c, "found")
  /\ UNCHANGED <<busy, todo, job, run, tunnels, disk, serverVars, configVars, clock, arrivals, faults>>

Skip(c) ==
  /\ pc[c] = "found" /\ ~Env0(c).enabled
  /\ EndTurn(c, job[c].runs)
  /\ UNCHANGED <<busy, tunnels, serverVars, configVars, clock, arrivals>>

\* executeRun begins: the name and the password are read through the pointer.
\* Decrypting the password may fail (another BECS_RUNNER_KEY, a damaged blob).
Start(c) ==
  /\ pc[c] = "found" /\ Env0(c).enabled
  /\ servers' = Append(servers, [session |-> "none", batch |-> "none"])
  /\ LET begun == [NoRun EXCEPT !.env = Env0(c).name, !.id = Len(servers) + 1] IN
     \/ run' = [run EXCEPT ![c] = begun] /\ Goto(c, "build") /\ NoFault
     \/ run' = [run EXCEPT ![c] = [begun EXCEPT !.status = "error"]]
        /\ Goto(c, "record") /\ Fault
  /\ UNCHANGED <<busy, todo, ptr, job, tunnels, disk, late, lost, configVars, clock, arrivals>>

\* buildTunnel: no tunnel, a tunnel, or an error from its credentials.
Build(c) ==
  /\ pc[c] = "build"
  /\ \/ ~Env0(c).tunnel /\ UNCHANGED run /\ Goto(c, "login") /\ NoFault
     \/ Env0(c).tunnel /\ UNCHANGED run /\ Goto(c, "connect") /\ NoFault
     \/ Env0(c).tunnel /\ Fail(c) /\ Goto(c, "record") /\ Fault
  /\ UNCHANGED <<busy, todo, ptr, job, tunnels, disk, serverVars, configVars, clock, arrivals>>

\* Tunnel.Connect; once it has succeeded, Disconnect is deferred.
Connect(c) ==
  /\ pc[c] = "connect"
  /\ \/ /\ run' = [run EXCEPT ![c].tunnel = TRUE]
        /\ tunnels' = tunnels \cup {run[c].id}
        /\ Goto(c, "login") /\ NoFault
     \/ Fail(c) /\ UNCHANGED tunnels /\ Goto(c, "record") /\ Fault
  /\ UNCHANGED <<busy, todo, ptr, job, disk, serverVars, configVars, clock, arrivals>>

\* The endpoint is read through the pointer, then Client.Login.  Once it has
\* succeeded, Logout is deferred; before, only the tunnel is left to undo.
Login(c) ==
  /\ pc[c] = "login"
  /\ LET addressed == [run[c] EXCEPT !.at = Env0(c).name] IN
     \/ /\ run' = [run EXCEPT ![c] = addressed]
        /\ SetServer(c, "session", "open")
        /\ Goto(c, "batchRun")
        /\ UNCHANGED <<late, lost>> /\ NoFault
     \/ /\ run' = [run EXCEPT ![c] = [addressed EXCEPT !.status = "error"]]
        /\ \/ UNCHANGED <<late, lost>>
           \/ GivenUp(c, "login") /\ Lose(c)
        /\ UNCHANGED servers
        /\ Goto(c, AfterSession(c)) /\ Fault
  /\ UNCHANGED <<busy, todo, ptr, job, tunnels, disk, configVars, clock, arrivals>>

\* Client.BatchRun
BatchRun(c) ==
  /\ pc[c] = "batchRun"
  /\ \/ /\ SetServer(c, "batch", "Running")
        /\ Goto(c, "poll")
        /\ UNCHANGED <<run, late>> /\ NoFault
     \/ /\ Fail(c)
        /\ UNCHANGED late \/ GivenUp(c, "batchRun")
        /\ UNCHANGED servers
        /\ Goto(c, "logout") /\ Fault
  /\ UNCHANGED <<busy, todo, ptr, job, tunnels, disk, lost, configVars, clock, arrivals>>

\* Client.Poll returns: the batch has ended, or one batchInfoGet failed.
\*   mutant: the error path returns before the logout
PollAndGo(c) ==
  /\ pc[c] = "poll"
  /\ \/ /\ servers[run[c].id].batch \in Ended
        /\ run' = [run EXCEPT ![c].result = servers[run[c].id].batch]
        /\ Goto(c, "fetch") /\ NoFault
     \/ Fail(c) /\ Goto(c, AfterSession(c)) /\ Fault
  /\ UNCHANGED <<busy, todo, ptr, job, tunnels, disk, serverVars, configVars, clock, arrivals>>

Poll(c) ==
  /\ pc[c] = "poll"
  /\ \/ /\ servers[run[c].id].batch \in Ended
        /\ run' = [run EXCEPT ![c].result = servers[run[c].id].batch]
        /\ Goto(c, "fetch") /\ NoFault
     \/ Fail(c) /\ Goto(c, "logout") /\ Fault
  /\ UNCHANGED <<busy, todo, ptr, job, tunnels, disk, serverVars, configVars, clock, arrivals>>

\* fetchOutput and the status.  A failed fileRead only falls back to lastlog.
\*   mutants: an ended batch counts as finished; the server's word is the status
FetchFinished(c) ==
  /\ pc[c] = "fetch"
  /\ run' = [run EXCEPT ![c].status = "finished"]
  /\ Goto(c, "logout")
  /\ UNCHANGED <<busy, todo, ptr, job, tunnels, disk, serverVars, configVars, clock, arrivals, faults>>

FetchVerbatim(c) ==
  /\ pc[c] = "fetch"
  /\ run' = [run EXCEPT ![c].status = run[c].result]
  /\ Goto(c, "logout")
  /\ UNCHANGED <<busy, todo, ptr, job, tunnels, disk, serverVars, configVars, clock, arrivals, faults>>

Fetch(c) ==
  /\ pc[c] = "fetch"
  /\ run' = [run EXCEPT ![c].status =
               IF run[c].result = "Finished" THEN "finished" ELSE "stopped"]
  /\ Goto(c, "logout")
  /\ UNCHANGED <<busy, todo, ptr, job, tunnels, disk, serverVars, configVars, clock, arrivals, faults>>

\* The deferred Client.Logout: an error is only logged.
Logout(c) ==
  /\ pc[c] = "logout"
  /\ \/ SetServer(c, "session", "closed") /\ UNCHANGED <<late, lost>> /\ NoFault
     \/ /\ UNCHANGED servers /\ Lose(c) /\ Fault
        /\ UNCHANGED late \/ GivenUp(c, "logout")
  /\ Goto(c, AfterSession(c))
  /\ UNCHANGED <<busy, todo, ptr, job, run, tunnels, disk, configVars, clock, arrivals>>

\* The deferred Tunnel.Disconnect.
Disconnect(c) ==
  /\ pc[c] = "disconnect"
  /\ tunnels' = tunnels \ {run[c].id}
  /\ Goto(c, "record")
  /\ UNCHANGED <<busy, todo, ptr, job, run, disk, serverVars, configVars, clock, arrivals, faults>>

\* executeRun has returned: its Run is appended to the job.
Record(c) ==
  /\ pc[c] = "record"
  /\ EndTurn(c, Append(job[c].runs, run[c]))
  /\ UNCHANGED <<busy, tunnels, serverVars, configVars, clock, arrivals>>

-----------------------------------------------------------------------------
(* The other handlers: the environments are edited while a job may run, and  *)
(* nothing keeps two edits apart (module ConfigStore has the rest of these   *)
(* handlers: what they do about passwords, and what they answer)             *)

\* The searches are made, and what they found is kept.  An edit they refuse
\* changes nothing.
Begin(e, found) ==
  /\ task[e].at = "idle"
  /\ edits < MaxEdits /\ edits' = edits + 1
  /\ task' = [task EXCEPT ![e] = found]
  /\ UNCHANGED <<busy, callerVars, tunnels, disk, serverVars, envs, cfgFile, clock, arrivals, faults>>

CreateEnvironment(e, form) ==
  /\ ~AddFails(envs, form)
  /\ Begin(e, [NoTask EXCEPT !.at = "append", !.form = form])
UpdateEnvironment(e, old, form) ==
  /\ ~UpdateFails(envs, old, form)
  /\ Begin(e, [NoTask EXCEPT !.at = "store", !.idx = FindByName(envs, old), !.form = form])
DeleteEnvironment(e, name) ==
  /\ FindByName(envs, name) # 0
  /\ Begin(e, [NoTask EXCEPT !.at = "shift", !.idx = FindByName(envs, name)])

\* The memory is changed as if it were still what the searches found.
Changes(e, m) ==
  /\ envs' = m
  /\ task' = [task EXCEPT ![e] = [NoTask EXCEPT !.at = "marshal"]]
  /\ UNCHANGED <<busy, callerVars, tunnels, disk, serverVars, cfgFile, edits, clock, arrivals, faults>>

AppendEnv(e) == task[e].at = "append" /\ Changes(e, Appended(envs, task[e].form))
StoreEnv(e) ==
  /\ task[e].at = "store" /\ task[e].idx <= envs.len
  /\ Changes(e, Assigned(envs, task[e].idx, task[e].form))
ShiftEnvs(e) ==
  /\ task[e].at = "shift" /\ task[e].idx <= envs.len
  /\ Changes(e, Removed(envs, task[e].idx))

\* An index the slice no longer has: net/http recovers the panic.
Panics(e) ==
  /\ task[e].at \in {"store", "shift"} /\ task[e].idx > envs.len
  /\ task' = [task EXCEPT ![e] = NoTask]
  /\ UNCHANGED <<busy, callerVars, tunnels, disk, serverVars, envs, cfgFile, edits, clock, arrivals, faults>>

\* Config.Save: what memory shows when it is marshalled becomes the file, or
\* something fails first.
Marshal(e) ==
  /\ task[e].at = "marshal"
  /\ task' = [task EXCEPT ![e] = [NoTask EXCEPT !.at = "rename", !.snap = Environments(envs)]]
  /\ UNCHANGED <<busy, callerVars, tunnels, disk, serverVars, envs, cfgFile, edits, clock, arrivals, faults>>

Rename(e) ==
  /\ task[e].at = "rename"
  /\ \/ cfgFile' = task[e].snap /\ NoFault
     \/ UNCHANGED cfgFile /\ Fault
  /\ task' = [task EXCEPT ![e] = NoTask]
  /\ UNCHANGED <<busy, callerVars, tunnels, disk, serverVars, envs, edits, clock, arrivals>>

-----------------------------------------------------------------------------
(* The BECS servers *)

\* A batch ends one way or the other; before that it may be paused and resumed.
SetBatch(id, state) ==
  /\ servers' = [servers EXCEPT ![id].batch = state]
  /\ UNCHANGED <<busy, callerVars, tunnels, disk, late, lost, configVars, clock, arrivals, faults>>

BatchEnds(id) ==
  \/ servers[id].batch = "Running" /\ \E state \in {"Finished", "Stopped"} : SetBatch(id, state)
  \/ servers[id].batch = "Paused" /\ SetBatch(id, "Stopped")

BatchPauses(id) ==
  \/ servers[id].batch = "Running" /\ SetBatch(id, "Paused")
  \/ servers[id].batch = "Paused" /\ SetBatch(id, "Running")

\* A request the client gave up is executed after all.
ExecuteLate(q) ==
  /\ servers' =
       [servers EXCEPT ![q.id] =
          CASE q.method = "login"  -> [@ EXCEPT !.session = "open"]
            [] q.method = "logout" -> [@ EXCEPT !.session = "closed"]
            [] q.method = "batchRun" ->
                 IF @.session = "open" THEN [@ EXCEPT !.batch = "Running"] ELSE @]
  /\ late' = late \ {q}
  /\ UNCHANGED <<busy, callerVars, tunnels, disk, lost, configVars, clock, arrivals, faults>>

-----------------------------------------------------------------------------
(* Time, and the end of the process *)

Tick ==
  /\ clock < MaxClock /\ clock' = clock + 1
  /\ UNCHANGED <<busy, callerVars, tunnels, disk, serverVars, configVars, arrivals, faults>>

\* The process dies and is started again: memory is gone, the files and the
\* servers are not.  A call that was on its way may still reach its server.
Pending == {[id |-> run[c].id, method |-> pc[c]] :
              c \in {d \in Callers : pc[d] \in {"login", "batchRun", "logout"}}}

Crash ==
  /\ Fault
  /\ busy' = FALSE
  /\ pc' = [c \in Callers |-> "idle"]
  /\ todo' = [c \in Callers |-> <<>>]
  /\ ptr' = [c \in Callers |-> NoPointer]
  /\ job' = [c \in Callers |-> NoJob]
  /\ run' = [c \in Callers |-> NoRun]
  /\ tunnels' = {}
  /\ envs' = Loaded(cfgFile)
  /\ task' = [e \in Editors |-> NoTask]
  /\ \E sent \in SUBSET Pending : late' = late \cup sent
  /\ lost' = lost \cup {run[c].id : c \in {d \in Callers : pc[d] \in SessionPlaces \cup {"login"}}}
  /\ UNCHANGED <<disk, servers, cfgFile, edits, clock, arrivals>>

\* Nothing is asked of the program any more: it waits.
Waits ==
  /\ arrivals = MaxRequests /\ Holding = {}
  /\ UNCHANGED vars

-----------------------------------------------------------------------------
RunOne(c) ==
  \/ Start(c) \/ Build(c) \/ Connect(c) \/ Login(c) \/ BatchRun(c) \/ Poll(c)
  \/ Fetch(c) \/ Logout(c) \/ Disconnect(c) \/ Record(c)

RunJob(c) ==
  \/ TurnAway(c) \/ Enter(c) \/ NewJob(c) \/ NotFound(c) \/ Found(c) \/ Skip(c)
  \/ RunOne(c) \/ Finish(c) \/ Release(c)

EditConfig(e) ==
  \/ \E form \in Forms : CreateEnvironment(e, form)
  \/ \E old \in Names, form \in Forms : UpdateEnvironment(e, old, form)
  \/ \E name \in Names : DeleteEnvironment(e, name)
  \/ AppendEnv(e) \/ StoreEnv(e) \/ ShiftEnvs(e) \/ Panics(e)
  \/ Marshal(e) \/ Rename(e)

Next ==
  \/ \E c \in Callers : Arrive(c) \/ RunJob(c)
  \/ \E e \in Editors : EditConfig(e)
  \/ \E id \in DOMAIN servers : BatchEnds(id) \/ BatchPauses(id)
  \/ \E q \in late : ExecuteLate(q)
  \/ Tick
  \/ Crash
  \/ Waits

Spec == Init /\ [][Next]_vars

-----------------------------------------------------------------------------
(* Properties *)

\* The memory behind cfg.Environments is well formed, and a pointer that a
\* caller will still read through points into it, whatever was edited since.
MemoryOK ==
  /\ WellFormed(envs, Env)
  /\ \A c \in Callers : pc[c] \in RunPlaces \cup {"found"} => PointerValid(envs, ptr[c])

\* What an edit needs for its next step.
TaskOK(t) ==
  /\ t.at \in {"append", "store"} => t.form \in Env
  /\ t.at \in {"store", "shift"} => t.idx # 0

\* Every variable has its type; a run that talks to a server has an entry there.
TypeOK ==
  /\ busy \in BOOLEAN
  /\ pc \in [Callers -> Places]
  /\ todo \in [Callers -> Seq(Names)]
  /\ \A c \in Callers : pc[c] \in RunPlaces \cup {"found"} => todo[c] # <<>>
  /\ ptr \in [Callers -> [buf : Nat, idx : Nat]]
  /\ job \in [Callers -> Job \cup {NoJob}]
  /\ \A c \in Callers : pc[c] \in JobPlaces => job[c] \in Job
  /\ run \in [Callers -> Run]
  /\ \A c \in Callers : pc[c] \in RunPlaces => run[c].id \in DOMAIN servers
  /\ tunnels \subseteq DOMAIN servers
  /\ disk \in [Ids -> Job \cup {NoJob}]
  /\ MemoryOK
  /\ cfgFile \in Seq(Env)
  /\ task \in [Editors -> Task] /\ \A e \in Editors : TaskOK(task[e])
  /\ servers \in Seq(Server)
  /\ late \subseteq [id : DOMAIN servers, method : {"login", "batchRun", "logout"}]
  /\ lost \subseteq DOMAIN servers
  /\ clock \in Ids
  /\ {arrivals, faults, edits} \subseteq Nat

\* "Serial execution only" (README.md:47).  However many POST /run are under
\* way, RunJob lets one caller in at a time, and busy is set exactly while one
\* is in: the mutex of runner.go:42-53 closes the gap the handler's IsBusy test
\* leaves, and no path through RunJob leaves the runner busy for ever.
OneJobAtATime ==
  /\ busy <=> Holding # {}
  /\ \A c, d \in Holding : c = d

\* "Brings the tunnel up before a run and tears it down after ... only ever one
\* tunnel active at a time" (README.md:72-74): the tunnels that are up are those
\* of the callers between Connect and Disconnect, so every RPC of a tunnelled
\* run, the deferred logout included, is made inside its tunnel, no path out of
\* executeRun leaks one, and a second one is never up.
TunnelWhileCalling ==
  /\ tunnels = {run[c].id : c \in {d \in Callers : pc[d] \in TunnelPlaces /\ run[d].tunnel}}
  /\ Cardinality(tunnels) <= 1

\* The deferred logout (runner.go:129) covers every way out of executeRun: a
\* session is open on a server only while its run uses it, or because the answer
\* to its login, or its logout, was lost, or the process died.
SessionsAccounted ==
  \A id \in DOMAIN servers :
    servers[id].session = "open" =>
      id \in lost \/ \E c \in Callers : run[c].id = id /\ pc[c] \in SessionPlaces

\* A recorded outcome is the server's (job.go:18-19): a run stored as finished
\* or stopped is one whose batch did end that way, in the file as in memory.
TrueOutcome(r) ==
  /\ r.status = "finished" => servers[r.id].batch = "Finished"
  /\ r.status = "stopped" => servers[r.id].batch = "Stopped"
RecordedOutcomeIsTrue ==
  \A i \in Ids : disk[i] # NoJob =>
    \A k \in DOMAIN disk[i].runs : TrueOutcome(disk[i].runs[k])

\* What a run has read through its pointer and what it has yet to read there are
\* of one environment (runner.go:88-124).  However edits overlap with the job and
\* with each other, only a shift, or a write that puts another name into a slot,
\* ends that: creates may move the slice to another array, the environment of the
\* run may be overwritten, and saves may fail, without the run noticing.
HalfRead == {"build", "connect", "login"}
Consistent(c) ==
  /\ pc[c] \in RunPlaces \cup {"found"} => InSlice(envs, ptr[c])
  /\ pc[c] \in HalfRead => run[c].env = Env0(c).name
  /\ pc[c] \in SessionPlaces => run[c].at = run[c].env
Steady == \A c \in Callers : Consistent(c)
Moves ==
  \E e \in Editors :
    \/ ShiftEnvs(e)
    \/ StoreEnv(e) /\ task[e].form.name # Backing(envs)[task[e].idx].name
OnlyMovesDisturb == [][Steady => Steady' \/ Moves]_vars

\* The job log is kept as module JobLog promises.
InJob == {c \in Callers : pc[c] \in JobPlaces}
TheCaller == CHOOSE c \in InJob : TRUE
Log == INSTANCE JobLog WITH
  active <- IF InJob = {} THEN NoJob ELSE job[TheCaller],
  left <- IF InJob = {} THEN 0 ELSE Len(todo[TheCaller]),
  log <- disk
KeepsTheLog == Log!LSpec

\* The schedule.  Go runs every goroutine that can run; an RPC returns within
\* 20 s (client.go:37).  That a tunnel's Connect returns and that the server
\* ends the batch it is polled for (it is given DefaultTimeoutSeconds) is assumed.
Fairness ==
  \A c \in Callers :
    /\ WF_vars(RunJob(c))
    /\ WF_vars(pc[c] = "poll" /\ BatchEnds(run[c].id))
FairSpec == Spec /\ Fairness

\* "The job must complete even if the browser navigates away" (handlers.go:382):
\* every request the handler let through is answered, whatever fails on the
\* way, so a job ends and the next one can be started.
EveryRequestIsAnswered == \A c \in Callers : pc[c] = "checked" ~> pc[c] = "idle"

-----------------------------------------------------------------------------
(* What the repository says and the code does not keep; each of these is the *)
(* property of one run that TLC must find violated.                          *)

\* "Run is the execution of one batch script against one environment"
\* (job.go:23): the host a run logs in to is that of the environment whose name
\* and password it took.  "The pointer is valid until the next Add/Remove/Save
\* call" (config.go:186), and executeRun reads through it while handlers edit.
OneEnvironmentPerRun == \A c \in Callers : pc[c] \in SessionPlaces => run[c].at = run[c].env

\* "Runs a TCL batch script against the environments you select, one at a time,
\* polling until each finishes" (README.md:20): no two batches are under way.
OneBatchAtATime ==
  Cardinality({id \in DOMAIN servers : servers[id].batch \in {"Running", "Paused"}}) <= 1

\* The detail page of a job without a FinishedAt says "Running... This page
\* refreshes automatically" (job_detail.html:8): such a job is being run.
InProgressIsRunning ==
  \A i \in Ids : disk[i] # NoJob /\ ~disk[i].finished =>
    \E c \in InJob : job[c].id = i
=============================================================================
