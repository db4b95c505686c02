---------------------------- MODULE RunnerProofs ----------------------------
(***************************************************************************)
(* Theorems about module Runner, for any number of callers, any names, any *)
(* configuration and any bounds.                                           *)
(***************************************************************************)
EXTENDS Runner, EnvSliceProofs

-----------------------------------------------------------------------------
\* A step of an edit leaves the callers, their files and the servers alone.
Editing == \E e \in Editors : EditConfig(e)

LEMMA EditFrame ==
  Editing => UNCHANGED <<busy, pc, todo, ptr, job, run, tunnels, disk, servers, late, lost, clock,
                         arrivals>>
<1> SUFFICES ASSUME NEW e \in Editors, EditConfig(e)
             PROVE  UNCHANGED <<busy, pc, todo, ptr, job, run, tunnels, disk, servers, late, lost,
                                clock, arrivals>>
  BY DEF Editing
<1>1. CASE \/ \E form \in Forms : CreateEnvironment(e, form)
           \/ \E old \in Names, form \in Forms : UpdateEnvironment(e, old, form)
           \/ \E name \in Names : DeleteEnvironment(e, name)
  BY <1>1 DEF CreateEnvironment, UpdateEnvironment, DeleteEnvironment, Begin, callerVars, serverVars
<1>2. CASE AppendEnv(e) \/ StoreEnv(e) \/ ShiftEnvs(e)
  BY <1>2 DEF AppendEnv, StoreEnv, ShiftEnvs, Changes, callerVars, serverVars
<1>3. CASE Panics(e) \/ Marshal(e) \/ Rename(e)
  BY <1>3 DEF Panics, Marshal, Rename, callerVars, serverVars
<1> QED
  BY <1>1, <1>2, <1>3 DEF EditConfig

-----------------------------------------------------------------------------
(* One job at a time *)

\* What the proof of OneJobAtATime carries along: where the callers may be.
Serial == pc \in [Callers -> Places] /\ OneJobAtATime

\* A caller that moves inside RunJob, or outside of it, leaves Holding alone.
LEMMA MovesInside ==
  ASSUME NEW c \in Callers, NEW place \in RunnerPlaces,
         Serial, pc[c] \in RunnerPlaces, Goto(c, place), UNCHANGED busy
  PROVE  Serial'
BY DEF Serial, OneJobAtATime, Holding, Goto, Places

LEMMA MovesOutside ==
  ASSUME NEW c \in Callers, NEW place \in {"idle", "checked"},
         Serial, pc[c] \in {"idle", "checked"}, Goto(c, place), UNCHANGED busy
  PROVE  Serial'
BY DEF Serial, OneJobAtATime, Holding, Goto, Places, RunnerPlaces, JobPlaces, RunPlaces,
  TunnelPlaces, SessionPlaces

LEMMA SerialStep == Serial /\ [Next]_vars => Serial'
<1> SUFFICES ASSUME Serial, [Next]_vars PROVE Serial'
  OBVIOUS
<1> USE DEF RunnerPlaces, JobPlaces, RunPlaces, TunnelPlaces, SessionPlaces
<1>1. ASSUME NEW c \in Callers, Arrive(c) PROVE Serial'
  BY <1>1, MovesOutside DEF Arrive
<1>2. ASSUME NEW c \in Callers, RunJob(c) PROVE Serial'
  <2>1. CASE TurnAway(c)
    BY <2>1, MovesOutside DEF TurnAway
  <2>2. CASE Enter(c)
    BY <2>2 DEF Enter, Serial, OneJobAtATime, Holding, Goto, Places
  <2>3. CASE Release(c)
    BY <2>3 DEF Release, Serial, OneJobAtATime, Holding, Goto, Places
  <2>4. CASE NewJob(c) \/ Finish(c)
    BY <2>4, MovesInside DEF NewJob, Finish
  <2>5. CASE NotFound(c) \/ Skip(c) \/ Record(c)
    BY <2>5, MovesInside DEF NotFound, Skip, Record, EndTurn
  <2>6. CASE Found(c)
    BY <2>6, MovesInside DEF Found
  <2>7. CASE RunOne(c) /\ ~Record(c)
    BY <2>7, MovesInside DEF RunOne, Start, Build, Connect, Login, BatchRun, Poll, Fetch,
      Logout, Disconnect, AfterSession
  <2> QED
    BY <1>2, <2>1, <2>2, <2>3, <2>4, <2>5, <2>6, <2>7 DEF RunJob
<1>3. CASE UNCHANGED <<busy, pc>>
  BY <1>3 DEF Serial, OneJobAtATime, Holding
<1>4. CASE Editing \/ Tick \/ Waits \/ UNCHANGED vars
  <2>1. UNCHANGED <<busy, pc>>
    BY <1>4, EditFrame DEF Tick, Waits, vars, callerVars
  <2> QED
    BY <1>3, <2>1
<1>5. CASE \/ \E q \in late : ExecuteLate(q)
           \/ \E id \in DOMAIN servers : BatchEnds(id) \/ BatchPauses(id)
  <2>1. UNCHANGED <<busy, pc>>
    BY <1>5 DEF ExecuteLate, BatchEnds, BatchPauses, SetBatch, callerVars
  <2> QED
    BY <1>3, <2>1
<1>6. CASE Crash
  BY <1>6 DEF Crash, Serial, OneJobAtATime, Holding, Places
<1> QED
  BY <1>1, <1>2, <1>4, <1>5, <1>6 DEF Next, Editing

\* However many POST /run are under way, RunJob serves one at a time and busy is
\* set exactly while it does (runner.go:42-53), through failures and restarts.
THEOREM RunsAreSerial == Spec => []OneJobAtATime
<1>1. Init => Serial
  BY DEF Init, Serial, OneJobAtATime, Holding, Places, RunnerPlaces, JobPlaces, RunPlaces,
    TunnelPlaces, SessionPlaces
<1>2. Serial => OneJobAtATime
  BY DEF Serial
<1> QED
  BY <1>1, <1>2, SerialStep, PTL DEF Spec

-----------------------------------------------------------------------------
(* Types *)

\* What is not a step of a caller, nor a crash, leaves the callers alone.
External ==
  \/ Editing \/ Tick \/ Waits \/ UNCHANGED vars
  \/ \E id \in DOMAIN servers : BatchEnds(id) \/ BatchPauses(id)
  \/ \E q \in late : ExecuteLate(q)

LEMMA ExternalFrame == External => UNCHANGED <<busy, pc, todo, ptr, job, run, tunnels, disk>>
BY EditFrame DEF External, Tick, Waits, vars, callerVars, BatchEnds, BatchPauses, SetBatch,
  ExecuteLate

LEMMA StepKinds ==
  [Next]_vars => External \/ Crash \/ \E c \in Callers : Arrive(c) \/ RunJob(c)
BY DEF Next, External, Editing

\* The control state: every caller is somewhere, with the names it still needs.
ControlType ==
  /\ busy \in BOOLEAN
  /\ pc \in [Callers -> Places]
  /\ todo \in [Callers -> Seq(Names)]
  /\ \A c \in Callers : pc[c] \in RunPlaces \cup {"found"} => todo[c] # <<>>

LEMMA ControlStep == ControlType /\ [Next]_vars => ControlType'
<1> SUFFICES ASSUME ControlType, [Next]_vars PROVE ControlType'
  OBVIOUS
<1> USE DEF Places, RunnerPlaces, JobPlaces, RunPlaces, TunnelPlaces, SessionPlaces
<1>1. ASSUME NEW c \in Callers, Arrive(c) PROVE ControlType'
  <2>1. PICK names \in Requests : todo' = [todo EXCEPT ![c] = names]
    BY <1>1 DEF Arrive
  <2>2. names \in Seq(Names)
    BY ConstantsAssumption
  <2>3. pc' = [pc EXCEPT ![c] = "checked"] /\ UNCHANGED busy
    BY <1>1 DEF Arrive, Goto
  <2>4. pc' \in [Callers -> Places] /\ todo' \in [Callers -> Seq(Names)]
    BY <2>1, <2>2, <2>3 DEF ControlType
  <2>5. \A d \in Callers : pc'[d] \in RunPlaces \cup {"found"} => pc'[d] = pc[d] /\ todo'[d] = todo[d]
    BY <2>1, <2>3 DEF ControlType
  <2> QED
    BY <2>3, <2>4, <2>5 DEF ControlType
<1>2. ASSUME NEW c \in Callers, RunJob(c) PROVE ControlType'
  <2>1. CASE TurnAway(c)
    BY <2>1 DEF TurnAway, Goto, ControlType
  <2>2. CASE Enter(c) \/ NewJob(c) \/ Finish(c) \/ Release(c) \/ Found(c)
    <3>1. CASE Enter(c) \/ NewJob(c)
      BY <3>1 DEF Enter, NewJob, Goto, ControlType
    <3>2. CASE Finish(c) \/ Release(c)
      BY <3>2 DEF Finish, Release, Goto, ControlType
    <3>3. CASE Found(c)
      BY <3>3 DEF Found, Goto, ControlType
    <3> QED
      BY <2>2, <3>1, <3>2, <3>3
  <2>3. CASE NotFound(c) \/ Skip(c) \/ Record(c)
    <3>1. /\ todo[c] # <<>> /\ todo[c] \in Seq(Names)
          /\ todo' = [todo EXCEPT ![c] = Tail(todo[c])]
          /\ Goto(c, "next") /\ UNCHANGED busy
      BY <2>3 DEF NotFound, Skip, Record, EndTurn, ControlType
    <3>2. Tail(todo[c]) \in Seq(Names)
      BY <3>1
    <3>3. pc' \in [Callers -> Places] /\ todo' \in [Callers -> Seq(Names)]
      BY <3>1, <3>2 DEF Goto, ControlType
    <3>4. \A d \in Callers : pc'[d] \in RunPlaces \cup {"found"} => pc'[d] = pc[d] /\ todo'[d] = todo[d]
      BY <3>1 DEF Goto, ControlType
    <3> QED
      BY <3>1, <3>3, <3>4 DEF ControlType
  <2>4. CASE RunOne(c) /\ ~Record(c)
    BY <2>4 DEF RunOne, Start, Build, Connect, Login, BatchRun, Poll, Fetch, Logout,
      Disconnect, AfterSession, Goto, ControlType
  <2> QED
    BY <1>2, <2>1, <2>2, <2>3, <2>4 DEF RunJob
<1>3. CASE External
  BY <1>3, ExternalFrame DEF ControlType
<1>4. CASE Crash
  <2>1. /\ busy' = FALSE /\ pc' = [c \in Callers |-> "idle"]
        /\ todo' = [c \in Callers |-> <<>>]
    BY <1>4 DEF Crash
  <2>2. <<>> \in Seq(Names)
    OBVIOUS
  <2>3. todo' \in [Callers -> Seq(Names)]
    BY <2>1, <2>2, Zenon
  <2>4. \A c \in Callers : pc'[c] = "idle"
    BY <2>1
  <2> QED
    BY <2>1, <2>3, <2>4 DEF ControlType
<1> QED
  BY <1>1, <1>2, <1>3, <1>4, StepKinds

\* Time and the bounded counters.
CounterType == clock \in Ids /\ arrivals \in Nat /\ faults \in Nat /\ edits \in Nat

LEMMA CounterStep == CounterType /\ [Next]_vars => CounterType'
<1> SUFFICES ASSUME CounterType, [Next]_vars PROVE CounterType'
  OBVIOUS
<1> USE DEF CounterType, Fault, NoFault
<1>1. ASSUME NEW c \in Callers, Arrive(c) PROVE CounterType'
  BY <1>1 DEF Arrive, configVars
<1>2. ASSUME NEW c \in Callers, RunJob(c) PROVE CounterType'
  <2>1. UNCHANGED <<clock, arrivals, edits>> /\ (UNCHANGED faults \/ faults' = faults + 1)
    BY <1>2 DEF RunJob, RunOne, TurnAway, Enter, NewJob, NotFound, Found, Skip, Start, Build,
      Connect, Login, BatchRun, Poll, Fetch, Logout, Disconnect, Record, Finish, Release,
      EndTurn, SaveJob, configVars
  <2> QED
    BY <2>1
<1>3. CASE Editing
  <2>1. UNCHANGED edits \/ edits' = edits + 1
    BY <1>3 DEF Editing, EditConfig, CreateEnvironment, UpdateEnvironment, DeleteEnvironment, Begin,
      AppendEnv, StoreEnv, ShiftEnvs, Changes, Panics, Marshal, Rename
  <2>2. UNCHANGED faults \/ faults' = faults + 1
    BY <1>3 DEF Editing, EditConfig, CreateEnvironment, UpdateEnvironment, DeleteEnvironment, Begin,
      AppendEnv, StoreEnv, ShiftEnvs, Changes, Panics, Marshal, Rename
  <2> QED
    BY <1>3, <2>1, <2>2, EditFrame
<1>4. CASE Tick
  BY <1>4, ConstantsAssumption DEF Tick, configVars, Ids
<1>5. CASE Crash
  BY <1>5 DEF Crash
<1>6. CASE External /\ ~Editing /\ ~Tick
  BY <1>6 DEF External, Waits, vars, configVars, BatchEnds, BatchPauses, SetBatch, ExecuteLate
<1> QED
  BY <1>1, <1>2, <1>3, <1>4, <1>5, <1>6, StepKinds

\* The configuration in memory and in its file, the pointers into memory, and
\* what the edits hold.
TaskType == task \in [Editors -> Task] /\ \A e \in Editors : TaskOK(task[e])

ConfigType ==
  /\ ptr \in [Callers -> [buf : Nat, idx : Nat]]
  /\ MemoryOK
  /\ cfgFile \in Seq(Env)
  /\ TaskType

LEMMA NoTaskType == NoTask \in Task /\ TaskOK(NoTask)
<1>1. <<>> \in Seq(Env)
  OBVIOUS
<1> QED
  BY <1>1 DEF NoTask, Task, TaskOK, Nothing

\* An edit goes on to its next step, or is over.
LEMMA NextTask ==
  ASSUME TaskType, NEW e \in Editors, NEW t \in Task, TaskOK(t), task' = [task EXCEPT ![e] = t]
  PROVE  TaskType'
BY DEF TaskType

\* The searches: what they find is where the code will write.
LEMMA BeginType ==
  ASSUME ConfigType, NEW e \in Editors,
         \/ \E form \in Forms : CreateEnvironment(e, form)
         \/ \E old \in Names, form \in Forms : UpdateEnvironment(e, old, form)
         \/ \E name \in Names : DeleteEnvironment(e, name)
  PROVE  TaskType' /\ UNCHANGED <<envs, cfgFile>>
<1>1. TaskType /\ Forms \subseteq Env /\ WellFormed(envs, Env)
  BY ConstantsAssumption DEF ConfigType, MemoryOK
<1>2. \A name : FindByName(envs, name) \in Nat
  BY <1>1, FindByNameReturns
<1>3. <<>> \in Seq(Env)
  OBVIOUS
<1>4. ASSUME NEW form \in Forms, CreateEnvironment(e, form) PROVE TaskType' /\ UNCHANGED <<envs, cfgFile>>
  <2> DEFINE t == [NoTask EXCEPT !.at = "append", !.form = form]
  <2>1. t \in Task /\ TaskOK(t)
    BY <1>1, <1>3 DEF NoTask, Task, TaskOK, Nothing
  <2>2. task' = [task EXCEPT ![e] = t] /\ UNCHANGED <<envs, cfgFile>>
    BY <1>4 DEF CreateEnvironment, Begin
  <2> HIDE DEF t
  <2> QED
    BY <1>1, <2>1, <2>2, NextTask
<1>5. ASSUME NEW old \in Names, NEW form \in Forms, UpdateEnvironment(e, old, form)
      PROVE  TaskType' /\ UNCHANGED <<envs, cfgFile>>
  <2> DEFINE t == [NoTask EXCEPT !.at = "store", !.idx = FindByName(envs, old), !.form = form]
  <2>1. FindByName(envs, old) # 0
    BY <1>5 DEF UpdateEnvironment, UpdateFails
  <2>2. t \in Task /\ TaskOK(t)
    BY <1>1, <1>2, <1>3, <2>1 DEF NoTask, Task, TaskOK, Nothing
  <2>3. task' = [task EXCEPT ![e] = t] /\ UNCHANGED <<envs, cfgFile>>
    BY <1>5 DEF UpdateEnvironment, Begin
  <2> HIDE DEF t
  <2> QED
    BY <1>1, <2>2, <2>3, NextTask
<1>6. ASSUME NEW name \in Names, DeleteEnvironment(e, name) PROVE TaskType' /\ UNCHANGED <<envs, cfgFile>>
  <2> DEFINE t == [NoTask EXCEPT !.at = "shift", !.idx = FindByName(envs, name)]
  <2>1. FindByName(envs, name) # 0
    BY <1>6 DEF DeleteEnvironment
  <2>2. t \in Task /\ TaskOK(t)
    BY <1>2, <1>3, <2>1 DEF NoTask, Task, TaskOK, Nothing
  <2>3. task' = [task EXCEPT ![e] = t] /\ UNCHANGED <<envs, cfgFile>>
    BY <1>6 DEF DeleteEnvironment, Begin
  <2> HIDE DEF t
  <2> QED
    BY <1>1, <2>2, <2>3, NextTask
<1> QED
  BY <1>4, <1>5, <1>6

\* The writes: wherever they go, the memory stays well formed and no pointer
\* into it is lost.
LEMMA ChangesType ==
  ASSUME ConfigType, NEW e \in Editors, AppendEnv(e) \/ StoreEnv(e) \/ ShiftEnvs(e)
  PROVE  /\ WellFormed(envs', Env) /\ KeepsPointers(envs, envs')
         /\ TaskType' /\ UNCHANGED cfgFile
<1>1. WellFormed(envs, Env) /\ TaskType /\ task[e] \in Task /\ TaskOK(task[e]) /\ envs.len \in Nat
  BY DEF ConfigType, MemoryOK, TaskType, WellFormed
<1>2. task[e].idx \in Nat
  BY <1>1 DEF Task
<1>3. TaskType' /\ UNCHANGED cfgFile
  <2> DEFINE t == [NoTask EXCEPT !.at = "marshal"]
  <2>1. task' = [task EXCEPT ![e] = t] /\ UNCHANGED cfgFile
    BY DEF AppendEnv, StoreEnv, ShiftEnvs, Changes
  <2>2. t \in Task /\ TaskOK(t)
    BY NoTaskType DEF NoTask, Task, TaskOK
  <2> HIDE DEF t
  <2> QED
    BY <1>1, <2>1, <2>2, NextTask
<1>4. CASE AppendEnv(e)
  <2>1. task[e].form \in Env /\ envs' = Appended(envs, task[e].form)
    BY <1>1, <1>4 DEF AppendEnv, Changes, TaskOK
  <2> QED
    BY <1>1, <1>3, <2>1, AppendedWellFormed
<1>5. CASE StoreEnv(e)
  <2>1. /\ task[e].form \in Env /\ task[e].idx # 0 /\ task[e].idx <= envs.len
        /\ envs' = Assigned(envs, task[e].idx, task[e].form)
    BY <1>1, <1>5 DEF StoreEnv, Changes, TaskOK
  <2>2. task[e].idx \in 1..envs.len
    BY <1>1, <1>2, <2>1
  <2> QED
    BY <1>1, <1>3, <2>1, <2>2, AssignedWellFormed
<1>6. CASE ShiftEnvs(e)
  <2>1. /\ task[e].idx # 0 /\ task[e].idx <= envs.len
        /\ envs' = Removed(envs, task[e].idx)
    BY <1>1, <1>6 DEF ShiftEnvs, Changes, TaskOK
  <2>2. task[e].idx \in 1..envs.len
    BY <1>1, <1>2, <2>1
  <2> QED
    BY <1>1, <1>3, <2>1, <2>2, RemovedWellFormed
<1> QED
  BY <1>4, <1>5, <1>6

\* Config.Save, and an edit that ends before it.
LEMMA SaveType ==
  ASSUME ConfigType, NEW e \in Editors, Panics(e) \/ Marshal(e) \/ Rename(e)
  PROVE  TaskType' /\ cfgFile' \in Seq(Env) /\ UNCHANGED envs
<1>1. WellFormed(envs, Env) /\ TaskType /\ task[e] \in Task /\ cfgFile \in Seq(Env)
  BY DEF ConfigType, MemoryOK, TaskType
<1>2. CASE Panics(e)
  BY <1>1, <1>2, NoTaskType, NextTask DEF Panics
<1>3. CASE Marshal(e)
  <2> DEFINE snap == Environments(envs)
             t == [NoTask EXCEPT !.at = "rename", !.snap = snap]
  <2>1. snap \in Seq(Env)
    BY <1>1, EnvironmentsType
  <2>2. task' = [task EXCEPT ![e] = t] /\ UNCHANGED <<envs, cfgFile>>
    BY <1>3 DEF Marshal
  <2> HIDE DEF snap
  <2>3. t \in Task /\ TaskOK(t)
    BY <2>1 DEF NoTask, Task, TaskOK
  <2> HIDE DEF t
  <2> QED
    BY <1>1, <2>2, <2>3, NextTask
<1>4. CASE Rename(e)
  <2>1. /\ cfgFile' \in {cfgFile, task[e].snap} /\ UNCHANGED envs
        /\ task' = [task EXCEPT ![e] = NoTask]
    BY <1>4 DEF Rename
  <2>2. task[e].snap \in Seq(Env)
    BY <1>1 DEF Task
  <2> QED
    BY <1>1, <2>1, <2>2, NoTaskType, NextTask
<1> QED
  BY <1>2, <1>3, <1>4

LEMMA EditConfigStep == ConfigType /\ Editing => ConfigType'
<1> SUFFICES ASSUME ConfigType, NEW e \in Editors, EditConfig(e), UNCHANGED <<pc, ptr>>
             PROVE  ConfigType'
  BY EditFrame DEF Editing
<1>1. CASE \/ \E form \in Forms : CreateEnvironment(e, form)
           \/ \E old \in Names, form \in Forms : UpdateEnvironment(e, old, form)
           \/ \E name \in Names : DeleteEnvironment(e, name)
  BY <1>1, BeginType DEF ConfigType, MemoryOK
<1>2. CASE AppendEnv(e) \/ StoreEnv(e) \/ ShiftEnvs(e)
  BY <1>2, ChangesType DEF ConfigType, MemoryOK, KeepsPointers
<1>3. CASE Panics(e) \/ Marshal(e) \/ Rename(e)
  BY <1>3, SaveType DEF ConfigType, MemoryOK
<1> QED
  BY <1>1, <1>2, <1>3 DEF EditConfig

LEMMA ConfigStep == ControlType /\ ConfigType /\ [Next]_vars => ConfigType'
<1> SUFFICES ASSUME ControlType, ConfigType, [Next]_vars PROVE ConfigType'
  OBVIOUS
<1> USE DEF RunnerPlaces, JobPlaces, RunPlaces, TunnelPlaces, SessionPlaces
<1>1. ASSUME NEW c \in Callers, Arrive(c) PROVE ConfigType'
  BY <1>1 DEF Arrive, Goto, configVars, ConfigType, MemoryOK, TaskType, ControlType
<1>2. ASSUME NEW c \in Callers, RunJob(c) PROVE ConfigType'
  <2>1. UNCHANGED <<envs, cfgFile, task>>
    BY <1>2 DEF RunJob, RunOne, TurnAway, Enter, NewJob, NotFound, Found, Skip, Start, Build,
      Connect, Login, BatchRun, Poll, Fetch, Logout, Disconnect, Record, Finish, Release,
      configVars
  <2>2. CASE TurnAway(c) \/ Enter(c) \/ NewJob(c) \/ Finish(c) \/ Release(c)
    BY <2>1, <2>2 DEF TurnAway, Enter, NewJob, Finish, Release, Goto, ConfigType, MemoryOK,
      TaskType, ControlType
  <2>3. CASE NotFound(c) \/ Skip(c) \/ Record(c)
    <3>1. ptr' = [ptr EXCEPT ![c] = NoPointer] /\ Goto(c, "next")
      BY <2>3 DEF NotFound, Skip, Record, EndTurn
    <3>2. NoPointer \in [buf : Nat, idx : Nat]
      BY DEF NoPointer
    <3> QED
      BY <2>1, <3>1, <3>2 DEF Goto, ConfigType, MemoryOK, TaskType, ControlType
  <2>4. CASE Found(c)
    <3> DEFINE p == PointerTo(envs, FindByName(envs, Head(todo[c])))
    <3>1. p \in [buf : Nat, idx : Nat] /\ PointerValid(envs, p)
      BY <2>4, FoundPointer DEF Found, ConfigType, MemoryOK
    <3>2. ptr' = [ptr EXCEPT ![c] = p] /\ Goto(c, "found")
      BY <2>4 DEF Found
    <3> HIDE DEF p
    <3> QED
      BY <2>1, <3>1, <3>2 DEF Goto, ConfigType, MemoryOK, TaskType, ControlType
  <2>5. CASE RunOne(c) /\ ~Record(c)
    <3>1. /\ UNCHANGED ptr /\ pc[c] \in RunPlaces \cup {"found"}
          /\ \E place \in RunPlaces : Goto(c, place)
      BY <2>5 DEF RunOne, Start, Build, Connect, Login, BatchRun, Poll, Fetch, Logout,
        Disconnect, AfterSession
    <3> QED
      BY <2>1, <3>1 DEF Goto, ConfigType, MemoryOK, TaskType, ControlType
  <2> QED
    BY <1>2, <2>2, <2>3, <2>4, <2>5 DEF RunJob
<1>3. CASE Editing
  BY <1>3, EditConfigStep
<1>4. CASE External /\ ~Editing
  <2>1. UNCHANGED <<pc, ptr, envs, cfgFile, task>>
    BY <1>4 DEF External, Tick, Waits, vars, callerVars, configVars, BatchEnds, BatchPauses,
      SetBatch, ExecuteLate
  <2> QED
    BY <2>1 DEF ConfigType, MemoryOK, TaskType
<1>5. CASE Crash
  <2>1. /\ pc' = [c \in Callers |-> "idle"] /\ ptr' = [c \in Callers |-> NoPointer]
        /\ envs' = Loaded(cfgFile) /\ task' = [e \in Editors |-> NoTask] /\ UNCHANGED cfgFile
    BY <1>5 DEF Crash
  <2>2. WellFormed(Loaded(cfgFile), Env)
    BY LoadedWellFormed DEF ConfigType
  <2>3. NoPointer \in [buf : Nat, idx : Nat]
    BY DEF NoPointer
  <2> QED
    BY <2>1, <2>2, <2>3, NoTaskType DEF ConfigType, MemoryOK, TaskType
<1> QED
  BY <1>1, <1>2, <1>3, <1>4, <1>5, StepKinds

\* The jobs in memory and their files.
JobType ==
  /\ job \in [Callers -> Job \cup {NoJob}]
  /\ \A c \in Callers : pc[c] \in JobPlaces => job[c] \in Job
  /\ disk \in [Ids -> Job \cup {NoJob}]

LEMMA SavedType ==
  ASSUME disk \in [Ids -> Job \cup {NoJob}], NEW j \in Job, SaveJob(j)
  PROVE  disk' \in [Ids -> Job \cup {NoJob}]
<1>1. disk' = [disk EXCEPT ![j.id] = j] \/ disk' = disk
  BY DEF SaveJob
<1>2. CASE disk' = [disk EXCEPT ![j.id] = j]
  BY <1>2
<1>3. CASE disk' = disk
  BY <1>3
<1> QED
  BY <1>1, <1>2, <1>3

\* The end of a turn of the loop keeps the types of the job and of its file.
LEMMA EndTurnType ==
  ASSUME ControlType, JobType, NEW c \in Callers, pc[c] \in JobPlaces,
         NEW runs \in Seq(Run), EndTurn(c, runs)
  PROVE  JobType'
<1> DEFINE j == [job[c] EXCEPT !.runs = runs]
<1>1. job[c] \in Job
  BY DEF JobType
<1>2. j \in Job
  BY <1>1 DEF Job
<1>3. job' = [job EXCEPT ![c] = j] /\ SaveJob(j) /\ Goto(c, "next")
  BY DEF EndTurn
<1> HIDE DEF j
<1>4. disk' \in [Ids -> Job \cup {NoJob}]
  BY <1>2, <1>3, SavedType DEF JobType
<1> QED
  BY <1>2, <1>3, <1>4 DEF Goto, JobType, ControlType

\* The runs, and what the servers and the network hold for them.
ServerType ==
  /\ run \in [Callers -> Run]
  /\ \A c \in Callers : pc[c] \in RunPlaces => run[c].id \in DOMAIN servers
  /\ tunnels \subseteq DOMAIN servers
  /\ servers \in Seq(Server)
  /\ late \subseteq [id : DOMAIN servers, method : {"login", "batchRun", "logout"}]
  /\ lost \subseteq DOMAIN servers

LEMMA NoRunType == NoRun \in Run
BY DEF NoRun, Run

LEMMA JobStep == ControlType /\ JobType /\ CounterType /\ ServerType /\ [Next]_vars => JobType'
<1> SUFFICES ASSUME ControlType, JobType, CounterType, ServerType, [Next]_vars PROVE JobType'
  OBVIOUS
<1> USE DEF RunnerPlaces, JobPlaces, RunPlaces, TunnelPlaces, SessionPlaces
<1>1. ASSUME NEW c \in Callers, Arrive(c) PROVE JobType'
  BY <1>1 DEF Arrive, Goto, JobType, ControlType
<1>2. ASSUME NEW c \in Callers, RunJob(c) PROVE JobType'
  <2>1. CASE TurnAway(c) \/ Enter(c) \/ Found(c) \/ Release(c)
    BY <2>1 DEF TurnAway, Enter, Found, Release, Goto, JobType, ControlType
  <2>2. CASE NewJob(c)
    <3>1. Fresh(clock) \in Job
      BY DEF Fresh, Job, CounterType
    <3>2. /\ job' = [job EXCEPT ![c] = Fresh(clock)] /\ SaveJob(Fresh(clock))
          /\ Goto(c, "next")
      BY <2>2 DEF NewJob
    <3>3. disk' \in [Ids -> Job \cup {NoJob}]
      BY <3>1, <3>2, SavedType DEF JobType
    <3> QED
      BY <3>1, <3>2, <3>3 DEF Goto, JobType, ControlType
  <2>3. CASE Finish(c)
    <3> DEFINE j == [job[c] EXCEPT !.finished = TRUE]
    <3>1. j \in Job
      BY <2>3 DEF Finish, Job, JobType
    <3>2. job' = [job EXCEPT ![c] = j] /\ Goto(c, "release") /\ SaveJob(j)
      BY <2>3 DEF Finish, JobType
    <3> HIDE DEF j
    <3>3. disk' \in [Ids -> Job \cup {NoJob}]
      BY <3>1, <3>2, SavedType DEF JobType
    <3> QED
      BY <3>1, <3>2, <3>3 DEF Goto, JobType, ControlType
  <2>4. CASE NotFound(c)
    <3> DEFINE r == [NoRun EXCEPT !.env = Head(todo[c]), !.status = "error"]
    <3>1. Head(todo[c]) \in Names
      BY <2>4 DEF NotFound, ControlType
    <3>2. r \in Run
      BY <3>1 DEF NoRun, Run
    <3>3. job[c].runs \in Seq(Run)
      BY <2>4 DEF NotFound, JobType, Job
    <3>4. Append(job[c].runs, r) \in Seq(Run)
      BY <3>2, <3>3
    <3> QED
      BY <2>4, <3>4, EndTurnType DEF NotFound
  <2>5. CASE Skip(c)
    <3>1. job[c].runs \in Seq(Run)
      BY <2>5 DEF Skip, JobType, Job
    <3> QED
      BY <2>5, <3>1, EndTurnType DEF Skip
  <2>6. CASE Record(c)
    <3>1. job[c].runs \in Seq(Run) /\ run[c] \in Run
      BY <2>6 DEF Record, JobType, Job, ServerType
    <3>2. Append(job[c].runs, run[c]) \in Seq(Run)
      BY <3>1
    <3> QED
      BY <2>6, <3>2, EndTurnType DEF Record
  <2>7. CASE RunOne(c) /\ ~Record(c)
    <3>1. /\ UNCHANGED <<job, disk>> /\ pc[c] \in JobPlaces
          /\ \E place \in RunPlaces : Goto(c, place)
      BY <2>7 DEF RunOne, Start, Build, Connect, Login, BatchRun, Poll, Fetch, Logout,
        Disconnect, AfterSession
    <3> QED
      BY <3>1 DEF Goto, JobType, ControlType
  <2> QED
    BY <1>2, <2>1, <2>2, <2>3, <2>4, <2>5, <2>6, <2>7 DEF RunJob
<1>3. CASE External
  BY <1>3, ExternalFrame DEF JobType
<1>4. CASE Crash
  <2>1. /\ pc' = [c \in Callers |-> "idle"] /\ job' = [c \in Callers |-> NoJob]
        /\ UNCHANGED disk
    BY <1>4 DEF Crash
  <2> QED
    BY <2>1 DEF JobType
<1> QED
  BY <1>1, <1>2, <1>3, <1>4, StepKinds

\* Setting one field of the server of a run that has one.
LEMMA ServerSet ==
  ASSUME servers \in Seq(Server), NEW id \in DOMAIN servers, NEW server \in Server
  PROVE  /\ [servers EXCEPT ![id] = server] \in Seq(Server)
         /\ DOMAIN [servers EXCEPT ![id] = server] = DOMAIN servers
OBVIOUS

\* What a step of executeRun after Start may do to ServerType's variables.
LEMMA RunStepType ==
  ASSUME ControlType, ServerType, NEW c \in Callers, NEW r \in Run, NEW place \in RunPlaces,
         pc[c] \in RunPlaces, r.id = run[c].id, run' = [run EXCEPT ![c] = r], Goto(c, place),
         servers' \in Seq(Server), DOMAIN servers' = DOMAIN servers,
         tunnels' \subseteq DOMAIN servers, lost' \subseteq DOMAIN servers,
         late' \subseteq [id : DOMAIN servers, method : {"login", "batchRun", "logout"}]
  PROVE  ServerType'
BY DEF Goto, ServerType, ControlType

LEMMA GivenUpType ==
  ASSUME ServerType, NEW c \in Callers, pc[c] \in RunPlaces,
         NEW method \in {"login", "batchRun", "logout"}, GivenUp(c, method)
  PROVE  late' \subseteq [id : DOMAIN servers, method : {"login", "batchRun", "logout"}]
BY DEF ServerType, GivenUp

LEMMA LoseType ==
  ASSUME ServerType, NEW c \in Callers, pc[c] \in RunPlaces, Lose(c)
  PROVE  lost' \subseteq DOMAIN servers
BY DEF ServerType, Lose

LEMMA BegunType ==
  ASSUME NEW name \in Names, NEW id \in Nat
  PROVE  [NoRun EXCEPT !.env = name, !.id = id] \in Run
BY DEF NoRun, Run

LEMMA FailType ==
  ASSUME run \in [Callers -> Run], NEW c \in Callers, Fail(c)
  PROVE  run' = [run EXCEPT ![c] = [run[c] EXCEPT !.status = "error"]]
BY DEF Fail, Run

LEMMA RunOneType ==
  ASSUME ControlType, ConfigType, ServerType, NEW c \in Callers, RunOne(c), ~Record(c)
  PROVE  ServerType'
<1> USE DEF RunPlaces, TunnelPlaces, SessionPlaces
<1> DEFINE r == run[c]
           server == servers[r.id]
<1>1. r \in Run /\ servers \in Seq(Server) /\ run \in [Callers -> Run]
  BY DEF ServerType
<1>2. pc[c] \in RunPlaces => r.id \in DOMAIN servers /\ server \in Server
  BY <1>1 DEF ServerType
<1>3. pc[c] \in RunPlaces \cup {"found"} => Env0(c) \in Env
  BY DerefType DEF ConfigType, MemoryOK, Env0
<1>4. ASSUME NEW place \in RunPlaces, pc[c] \in RunPlaces, Goto(c, place),
             UNCHANGED run \/ Fail(c), UNCHANGED <<tunnels, serverVars>>
      PROVE  ServerType'
  <2>1. \E status \in {r.status, "error"} : run' = [run EXCEPT ![c] = [r EXCEPT !.status = status]]
    BY <1>1, <1>4 DEF Fail, Run
  <2>2. PICK status \in {r.status, "error"} : run' = [run EXCEPT ![c] = [r EXCEPT !.status = status]]
    BY <2>1
  <2>3. [r EXCEPT !.status = status] \in Run /\ [r EXCEPT !.status = status].id = r.id
    BY <1>1 DEF Run
  <2>4. UNCHANGED <<tunnels, servers, late, lost>>
    BY <1>4 DEF serverVars
  <2> QED
    BY <1>4, <2>2, <2>3, <2>4, RunStepType DEF ServerType
<1>5. CASE Start(c)
  <2> DEFINE begun == [NoRun EXCEPT !.env = Env0(c).name, !.id = Len(servers) + 1]
             new == [session |-> "none", batch |-> "none"]
  <2>1. begun \in Run /\ [begun EXCEPT !.status = "error"] \in Run
    <3>1. Env0(c).name \in Names
      BY <1>3, <1>5 DEF Start, Env
    <3>2. Len(servers) + 1 \in Nat
      BY <1>1
    <3>4. begun \in Run
      BY <3>1, <3>2, BegunType
    <3> HIDE DEF begun
    <3> QED
      BY <3>4 DEF Run
  <2>2. begun.id = Len(servers) + 1 /\ [begun EXCEPT !.status = "error"].id = Len(servers) + 1
    BY DEF NoRun
  <2>3. servers' = Append(servers, new) /\ new \in Server /\ UNCHANGED <<tunnels, late, lost>>
    BY <1>5 DEF Start, Server
  <2>4. servers' \in Seq(Server) /\ DOMAIN servers' = DOMAIN servers \cup {Len(servers) + 1}
    BY <1>1, <2>3
  <2>5. \E s \in Run, place \in RunPlaces :
          s.id = Len(servers) + 1 /\ run' = [run EXCEPT ![c] = s] /\ Goto(c, place)
    BY <1>5, <2>1, <2>2 DEF Start
  <2> QED
    BY <2>3, <2>4, <2>5 DEF Goto, ServerType, ControlType
<1>6. CASE Build(c)
  BY <1>4, <1>6 DEF Build
<1>7. CASE Connect(c)
  <2>1. CASE Fail(c) /\ UNCHANGED tunnels
    BY <1>4, <1>7, <2>1 DEF Connect
  <2>2. CASE run' = [run EXCEPT ![c].tunnel = TRUE] /\ tunnels' = tunnels \cup {r.id}
           /\ Goto(c, "login")
    <3>1. run' = [run EXCEPT ![c] = [r EXCEPT !.tunnel = TRUE]]
      BY <2>2
    <3>2. [r EXCEPT !.tunnel = TRUE] \in Run /\ [r EXCEPT !.tunnel = TRUE].id = r.id
      BY <1>1 DEF Run
    <3>3. pc[c] \in RunPlaces /\ Goto(c, "login") /\ UNCHANGED <<servers, late, lost>>
      BY <1>7, <2>2 DEF Connect, serverVars
    <3>4. tunnels' \subseteq DOMAIN servers
      BY <1>2, <2>2, <3>3 DEF ServerType
    <3> QED
      BY <3>1, <3>2, <3>3, <3>4, RunStepType DEF ServerType
  <2> QED
    BY <1>7, <2>1, <2>2 DEF Connect
<1>8. CASE Login(c)
  <2>1. Env0(c).name \in Names /\ pc[c] \in RunPlaces /\ UNCHANGED tunnels
    BY <1>3, <1>8 DEF Login, Env
  <2> DEFINE addressed == [r EXCEPT !.at = Env0(c).name]
  <2>2. /\ addressed \in Run /\ addressed.id = r.id
        /\ [addressed EXCEPT !.status = "error"] \in Run
        /\ [addressed EXCEPT !.status = "error"].id = r.id
    BY <1>1, <2>1 DEF Run
  <2>3. CASE /\ run' = [run EXCEPT ![c] = addressed] /\ SetServer(c, "session", "open")
             /\ Goto(c, "batchRun") /\ UNCHANGED <<late, lost>>
    <3>1. servers' = [servers EXCEPT ![r.id] = [server EXCEPT !.session = "open"]]
      BY <1>2, <2>1, <2>3 DEF SetServer, Server
    <3>2. [server EXCEPT !.session = "open"] \in Server
      BY <1>2, <2>1 DEF Server
    <3>3. servers' \in Seq(Server) /\ DOMAIN servers' = DOMAIN servers
      BY <1>1, <1>2, <2>1, <3>1, <3>2, ServerSet
    <3> QED
      BY <2>1, <2>2, <2>3, <3>3, RunStepType DEF ServerType
  <2>4. CASE /\ run' = [run EXCEPT ![c] = [addressed EXCEPT !.status = "error"]]
             /\ UNCHANGED <<late, lost>> \/ (GivenUp(c, "login") /\ Lose(c))
             /\ UNCHANGED servers /\ Goto(c, AfterSession(c))
    <3>1. /\ late' \subseteq [id : DOMAIN servers, method : {"login", "batchRun", "logout"}]
          /\ lost' \subseteq DOMAIN servers
      BY <2>1, <2>4, GivenUpType, LoseType DEF ServerType
    <3>2. AfterSession(c) \in RunPlaces
      BY DEF AfterSession
    <3> QED
      BY <2>1, <2>2, <2>4, <3>1, <3>2, RunStepType DEF ServerType
  <2> QED
    BY <1>8, <2>3, <2>4 DEF Login
<1>9. CASE BatchRun(c)
  <2>1. pc[c] \in RunPlaces /\ UNCHANGED <<tunnels, lost>>
    BY <1>9 DEF BatchRun
  <2>2. CASE SetServer(c, "batch", "Running") /\ Goto(c, "poll") /\ UNCHANGED <<run, late>>
    <3>1. servers' = [servers EXCEPT ![r.id] = [server EXCEPT !.batch = "Running"]]
      BY <1>2, <2>1, <2>2 DEF SetServer, Server
    <3>2. [server EXCEPT !.batch = "Running"] \in Server
      BY <1>2, <2>1 DEF Server
    <3>3. servers' \in Seq(Server) /\ DOMAIN servers' = DOMAIN servers
      BY <1>1, <1>2, <2>1, <3>1, <3>2, ServerSet
    <3> QED
      BY <1>1, <2>1, <2>2, <3>3, RunStepType DEF ServerType
  <2>3. CASE /\ Fail(c)
             /\ UNCHANGED late \/ GivenUp(c, "batchRun")
             /\ UNCHANGED servers /\ Goto(c, "logout")
    <3>1. late' \subseteq [id : DOMAIN servers, method : {"login", "batchRun", "logout"}]
      BY <2>1, <2>3, GivenUpType DEF ServerType
    <3>2. run' = [run EXCEPT ![c] = [r EXCEPT !.status = "error"]]
      BY <1>1, <2>3, FailType
    <3>3. [r EXCEPT !.status = "error"] \in Run /\ [r EXCEPT !.status = "error"].id = r.id
      BY <1>1 DEF Run
    <3> QED
      BY <2>1, <2>3, <3>1, <3>2, <3>3, RunStepType DEF ServerType
  <2> QED
    BY <1>9, <2>2, <2>3 DEF BatchRun
<1>10. CASE Poll(c)
  <2>1. CASE server.batch \in Ended /\ run' = [run EXCEPT ![c].result = server.batch]
                /\ Goto(c, "fetch")
    <3>1. /\ run' = [run EXCEPT ![c] = [r EXCEPT !.result = server.batch]]
          /\ [r EXCEPT !.result = server.batch] \in Run
          /\ [r EXCEPT !.result = server.batch].id = r.id
      BY <1>1, <2>1 DEF Run, Ended
    <3>2. pc[c] \in RunPlaces /\ UNCHANGED <<tunnels, servers, late, lost>>
      BY <1>10 DEF Poll, serverVars
    <3> QED
      BY <2>1, <3>1, <3>2, RunStepType DEF ServerType
  <2>2. CASE Fail(c) /\ Goto(c, "logout")
    BY <1>4, <1>10, <2>2 DEF Poll
  <2> QED
    BY <1>10, <2>1, <2>2 DEF Poll
<1>11. CASE Fetch(c)
  <2> DEFINE status == IF r.result = "Finished" THEN "finished" ELSE "stopped"
  <2>1. /\ run' = [run EXCEPT ![c] = [r EXCEPT !.status = status]]
        /\ [r EXCEPT !.status = status] \in Run /\ [r EXCEPT !.status = status].id = r.id
    BY <1>1, <1>11 DEF Fetch, Run
  <2>2. pc[c] \in RunPlaces /\ UNCHANGED <<tunnels, servers, late, lost>> /\ Goto(c, "logout")
    BY <1>11 DEF Fetch, serverVars
  <2> HIDE DEF status
  <2> QED
    BY <2>1, <2>2, RunStepType DEF ServerType
<1>12. CASE Logout(c)
  <2>1. /\ pc[c] \in RunPlaces /\ UNCHANGED <<tunnels, run>> /\ Goto(c, AfterSession(c))
        /\ AfterSession(c) \in RunPlaces
    BY <1>12 DEF Logout, AfterSession
  <2>2. run' = [run EXCEPT ![c] = r]
    BY <1>1, <2>1
  <2>3. CASE SetServer(c, "session", "closed") /\ UNCHANGED <<late, lost>>
    <3>1. servers' = [servers EXCEPT ![r.id] = [server EXCEPT !.session = "closed"]]
      BY <1>2, <2>1, <2>3 DEF SetServer, Server
    <3>2. [server EXCEPT !.session = "closed"] \in Server
      BY <1>2, <2>1 DEF Server
    <3>3. servers' \in Seq(Server) /\ DOMAIN servers' = DOMAIN servers
      BY <1>1, <1>2, <2>1, <3>1, <3>2, ServerSet
    <3> QED
      BY <1>1, <2>1, <2>2, <2>3, <3>3, RunStepType DEF ServerType
  <2>4. CASE UNCHANGED servers /\ Lose(c) /\ (UNCHANGED late \/ GivenUp(c, "logout"))
    <3>1. /\ late' \subseteq [id : DOMAIN servers, method : {"login", "batchRun", "logout"}]
          /\ lost' \subseteq DOMAIN servers
      BY <2>1, <2>4, GivenUpType, LoseType DEF ServerType
    <3> QED
      BY <1>1, <2>1, <2>2, <2>4, <3>1, RunStepType DEF ServerType
  <2> QED
    BY <1>12, <2>3, <2>4 DEF Logout
<1>13. CASE Disconnect(c)
  <2>1. /\ pc[c] \in RunPlaces /\ UNCHANGED <<run, servers, late, lost>> /\ Goto(c, "record")
        /\ tunnels' = tunnels \ {r.id} /\ run' = [run EXCEPT ![c] = r]
    BY <1>1, <1>13 DEF Disconnect, serverVars
  <2> QED
    BY <1>1, <2>1, RunStepType DEF ServerType
<1> QED
  BY <1>5, <1>6, <1>7, <1>8, <1>9, <1>10, <1>11, <1>12, <1>13 DEF RunOne

LEMMA ServerStep ==
  ControlType /\ ConfigType /\ JobType /\ ServerType /\ [Next]_vars => ServerType'
<1> SUFFICES ASSUME ControlType, ConfigType, JobType, ServerType, [Next]_vars
             PROVE  ServerType'
  OBVIOUS
<1> USE DEF RunnerPlaces, JobPlaces, RunPlaces, TunnelPlaces, SessionPlaces
<1>1. ASSUME NEW c \in Callers, Arrive(c) PROVE ServerType'
  BY <1>1 DEF Arrive, Goto, serverVars, ServerType, ControlType
<1>2. ASSUME NEW c \in Callers, RunJob(c) PROVE ServerType'
  <2>1. CASE TurnAway(c) \/ Enter(c) \/ NewJob(c) \/ Found(c) \/ Finish(c) \/ Release(c)
    <3>1. /\ UNCHANGED <<run, tunnels, servers, late, lost>>
          /\ \E place \in Places \ RunPlaces : Goto(c, place)
      BY <2>1 DEF TurnAway, Enter, NewJob, Found, Finish, Release, serverVars, Places
    <3> QED
      BY <3>1 DEF Goto, ServerType, ControlType
  <2>2. CASE NotFound(c) \/ Skip(c) \/ Record(c)
    <3>1. /\ run' = [run EXCEPT ![c] = NoRun] /\ Goto(c, "next")
          /\ UNCHANGED <<tunnels, servers, late, lost>>
      BY <2>2 DEF NotFound, Skip, Record, EndTurn, serverVars
    <3> QED
      BY <3>1, NoRunType DEF Goto, ServerType, ControlType
  <2>3. CASE RunOne(c) /\ ~Record(c)
    BY <2>3, RunOneType
  <2> QED
    BY <1>2, <2>1, <2>2, <2>3 DEF RunJob
<1>3. ASSUME NEW id \in DOMAIN servers, BatchEnds(id) \/ BatchPauses(id) PROVE ServerType'
  <2>1. PICK state \in {"Running", "Paused", "Finished", "Stopped"} : SetBatch(id, state)
    BY <1>3 DEF BatchEnds, BatchPauses
  <2>2. servers[id] \in Server /\ servers \in Seq(Server)
    BY DEF ServerType
  <2>3. servers' = [servers EXCEPT ![id] = [servers[id] EXCEPT !.batch = state]]
    BY <2>1, <2>2 DEF SetBatch
  <2>4. [servers[id] EXCEPT !.batch = state] \in Server
    BY <2>2 DEF Server
  <2>5. servers' \in Seq(Server) /\ DOMAIN servers' = DOMAIN servers
    BY <2>2, <2>3, <2>4, ServerSet
  <2> QED
    BY <2>1, <2>5 DEF SetBatch, callerVars, ServerType
<1>4. ASSUME NEW q \in late, ExecuteLate(q) PROVE ServerType'
  <2>1. /\ q.id \in DOMAIN servers /\ q.method \in {"login", "batchRun", "logout"}
        /\ servers \in Seq(Server) /\ servers[q.id] \in Server
    BY DEF ServerType
  <2>2. PICK server \in Server : servers' = [servers EXCEPT ![q.id] = server]
    <3> DEFINE s == servers[q.id]
    <3>1. /\ [s EXCEPT !.session = "open"] \in Server /\ [s EXCEPT !.session = "closed"] \in Server
          /\ [s EXCEPT !.batch = "Running"] \in Server
      BY <2>1 DEF Server
    <3>2. servers' = [servers EXCEPT ![q.id] =
            CASE q.method = "login"  -> [s EXCEPT !.session = "open"]
              [] q.method = "logout" -> [s EXCEPT !.session = "closed"]
              [] q.method = "batchRun" ->
                   IF s.session = "open" THEN [s EXCEPT !.batch = "Running"] ELSE s]
      BY <1>4, <2>1 DEF ExecuteLate
    <3> HIDE DEF s
    <3> QED
      BY <2>1, <3>1, <3>2 DEF s
  <2>3. servers' \in Seq(Server) /\ DOMAIN servers' = DOMAIN servers
    BY <2>1, <2>2, ServerSet
  <2>4. late' \subseteq late /\ UNCHANGED <<pc, run, tunnels, lost>>
    BY <1>4 DEF ExecuteLate, callerVars
  <2> QED
    BY <2>3, <2>4 DEF ServerType
<1>5. CASE Editing \/ Tick \/ Waits \/ UNCHANGED vars
  <2>1. UNCHANGED <<pc, run, tunnels, servers, late, lost>>
    BY <1>5, EditFrame DEF Tick, Waits, vars, callerVars, serverVars
  <2> QED
    BY <2>1 DEF ServerType
<1>6. CASE Crash
  <2>1. /\ pc' = [c \in Callers |-> "idle"] /\ run' = [c \in Callers |-> NoRun]
        /\ tunnels' = {} /\ UNCHANGED servers
        /\ lost' = lost \cup {run[c].id :
                     c \in {d \in Callers : pc[d] \in SessionPlaces \cup {"login"}}}
    BY <1>6 DEF Crash
  <2>2. PICK sent \in SUBSET Pending : late' = late \cup sent
    BY <1>6 DEF Crash
  <2>3. Pending \subseteq [id : DOMAIN servers, method : {"login", "batchRun", "logout"}]
    BY DEF Pending, ServerType
  <2> QED
    BY <2>1, <2>2, <2>3, NoRunType DEF ServerType
<1> QED
  BY <1>1, <1>2, <1>3, <1>4, <1>5, <1>6, StepKinds DEF External

\* TypeOK is its groups.
LEMMA TypeGroups ==
  TypeOK <=> ControlType /\ CounterType /\ ConfigType /\ JobType /\ ServerType
BY DEF TypeOK, ControlType, CounterType, ConfigType, TaskType, JobType, ServerType

LEMMA TypeInit == Init => TypeOK
<1> SUFFICES ASSUME Init PROVE TypeOK
  OBVIOUS
<1> USE DEF Init, RunPlaces, JobPlaces, TunnelPlaces, SessionPlaces
<1>1. ControlType
  <2>1. <<>> \in Seq(Names)
    OBVIOUS
  <2>2. todo \in [Callers -> Seq(Names)]
    BY <2>1, Zenon
  <2> QED
    BY <2>2 DEF ControlType, Places
<1>2. CounterType
  BY ConstantsAssumption DEF CounterType, Ids
<1>3. ConfigType
  BY ConstantsAssumption, LoadedWellFormed, NoTaskType DEF ConfigType, MemoryOK, TaskType, NoPointer
<1>4. JobType
  BY DEF JobType
<1>5. ServerType
  BY NoRunType DEF ServerType
<1> QED
  BY <1>1, <1>2, <1>3, <1>4, <1>5, TypeGroups

LEMMA TypeStep == TypeOK /\ [Next]_vars => TypeOK'
<1>1. (ControlType /\ CounterType /\ ConfigType /\ JobType /\ ServerType)' => TypeOK'
  BY DEF TypeOK, ControlType, CounterType, ConfigType, TaskType, JobType, ServerType
<1> QED
  BY <1>1, TypeGroups, ControlStep, CounterStep, ConfigStep, JobStep, ServerStep

\* Every variable keeps its type, and whatever is created, changed and deleted
\* while a job runs, no caller reads through a pointer that leads nowhere, and
\* every run that talks to a server has an entry there.
THEOREM TypeCorrect == Spec => []TypeOK
BY TypeInit, TypeStep, PTL DEF Spec
=============================================================================
