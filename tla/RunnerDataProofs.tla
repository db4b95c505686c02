-------------------------- MODULE RunnerDataProofs --------------------------
(***************************************************************************)
(* What module Runner keeps true of its data: the outcomes in the job      *)
(* files, through lost and late requests; the one environment of a run,    *)
(* through the edits made meanwhile; and one batch at a time.              *)
(***************************************************************************)
EXTENDS RunnerProofs, FiniteSetTheorems

-----------------------------------------------------------------------------
(* Outcomes *)

\* A run that claims an end to its batch is backed by the servers s.
Backed(s, r) ==
  r.status \in {"finished", "stopped"} =>
    /\ r.id \in DOMAIN s
    /\ s[r.id].batch = IF r.status = "finished" THEN "Finished" ELSE "Stopped"
AllBacked(s, j) == j # NoJob => \A k \in DOMAIN j.runs : Backed(s, j.runs[k])

\* No batch was started for this run, and none can be by a late request.
Untouched(id) ==
  servers[id].batch = "none" /\ \A q \in late : q.method = "batchRun" => q.id # id
LateUnstarted == \A q \in late : q.method = "batchRun" => servers[q.id].batch = "none"

Stage(c) ==
  /\ pc[c] \in {"build", "connect", "login", "batchRun"} => Untouched(run[c].id)
  /\ pc[c] = "fetch" => run[c].result \in Ended /\ servers[run[c].id].batch = run[c].result
  /\ Backed(servers, run[c])

OutcomeInv ==
  /\ TypeOK /\ Serial
  /\ LateUnstarted
  /\ \A c \in Callers : Stage(c) /\ AllBacked(servers, job[c])
  /\ \A i \in Ids : AllBacked(servers, disk[i])

\* A batch that has ended stays as it ended.
Stay ==
  \A id \in DOMAIN servers :
    /\ id \in DOMAIN servers'
    /\ servers[id].batch \in Ended => servers'[id].batch = servers[id].batch

LEMMA StayBacked ==
  ASSUME Stay, NEW r, Backed(servers, r)
  PROVE  Backed(servers', r)
BY DEF Stay, Backed, Ended

LEMMA StayAllBacked ==
  ASSUME Stay, NEW j, AllBacked(servers, j)
  PROVE  AllBacked(servers', j)
BY StayBacked DEF AllBacked

\* What a step does to the batches: nothing but to those a guard names.
LEMMA BatchesOfRunOne ==
  ASSUME OutcomeInv, NEW c \in Callers, RunOne(c), ~Start(c), ~BatchRun(c)
  PROVE  /\ DOMAIN servers' = DOMAIN servers
         /\ \A id \in DOMAIN servers : servers'[id].batch = servers[id].batch
<1> USE DEF SessionPlaces, TunnelPlaces, RunPlaces
<1>1. /\ servers \in Seq(Server)
      /\ pc[c] \in RunPlaces => run[c].id \in DOMAIN servers /\ servers[run[c].id] \in Server
  BY DEF OutcomeInv, TypeOK
<1>2. CASE UNCHANGED servers
  BY <1>2
<1>3. ASSUME NEW value, SetServer(c, "session", value), pc[c] \in RunPlaces
      PROVE  /\ DOMAIN servers' = DOMAIN servers
             /\ \A id \in DOMAIN servers : servers'[id].batch = servers[id].batch
  <2>1. servers' = [servers EXCEPT ![run[c].id] = [servers[run[c].id] EXCEPT !["session"] = value]]
    BY <1>3 DEF SetServer
  <2>2. [servers[run[c].id] EXCEPT !["session"] = value].batch = servers[run[c].id].batch
    BY <1>1, <1>3 DEF Server
  <2> QED
    BY <1>1, <1>3, <2>1, <2>2
<1>4. CASE Login(c)
  BY <1>2, <1>3, <1>4 DEF Login
<1>5. CASE Logout(c)
  BY <1>2, <1>3, <1>5 DEF Logout
<1>6. CASE Build(c) \/ Connect(c) \/ Poll(c) \/ Fetch(c) \/ Disconnect(c) \/ Record(c)
  BY <1>2, <1>6 DEF Build, Connect, Poll, Fetch, Disconnect, Record, serverVars
<1> QED
  BY <1>4, <1>5, <1>6 DEF RunOne

LEMMA BatchesOfStart ==
  ASSUME OutcomeInv, NEW c \in Callers, Start(c)
  PROVE  /\ DOMAIN servers' = DOMAIN servers \cup {Len(servers) + 1}
         /\ \A id \in DOMAIN servers : servers'[id] = servers[id]
         /\ servers'[Len(servers) + 1].batch = "none"
<1>1. /\ servers \in Seq(Server)
      /\ servers' = Append(servers, [session |-> "none", batch |-> "none"])
  BY DEF OutcomeInv, TypeOK, Start
<1> QED
  BY <1>1

LEMMA BatchesOfBatchRun ==
  ASSUME OutcomeInv, NEW c \in Callers, BatchRun(c)
  PROVE  /\ DOMAIN servers' = DOMAIN servers
         /\ \A id \in DOMAIN servers \ {run[c].id} : servers'[id] = servers[id]
         /\ run[c].id \in DOMAIN servers /\ Untouched(run[c].id)
<1>1. /\ servers \in Seq(Server) /\ pc[c] = "batchRun"
      /\ UNCHANGED servers \/ SetServer(c, "batch", "Running")
  BY DEF OutcomeInv, TypeOK, BatchRun
<1>2. run[c].id \in DOMAIN servers /\ Untouched(run[c].id)
  BY <1>1 DEF OutcomeInv, TypeOK, Stage, RunPlaces, TunnelPlaces, SessionPlaces
<1> QED
  BY <1>1, <1>2 DEF SetServer

LEMMA BatchesOfServer ==
  ASSUME OutcomeInv, NEW id \in DOMAIN servers, BatchEnds(id) \/ BatchPauses(id)
  PROVE  /\ DOMAIN servers' = DOMAIN servers
         /\ \A i \in DOMAIN servers \ {id} : servers'[i] = servers[i]
         /\ servers[id].batch \in {"Running", "Paused"}
         /\ UNCHANGED <<pc, run, job, disk, late>>
<1>1. servers \in Seq(Server)
  BY DEF OutcomeInv, TypeOK
<1>2. PICK state : SetBatch(id, state)
  BY DEF BatchEnds, BatchPauses
<1> QED
  BY <1>1, <1>2 DEF SetBatch, BatchEnds, BatchPauses, callerVars

LEMMA BatchesOfLate ==
  ASSUME OutcomeInv, NEW q \in late, ExecuteLate(q)
  PROVE  /\ DOMAIN servers' = DOMAIN servers /\ q.id \in DOMAIN servers
         /\ \A i \in DOMAIN servers \ {q.id} : servers'[i] = servers[i]
         /\ \/ servers'[q.id].batch = servers[q.id].batch
            \/ q.method = "batchRun" /\ servers[q.id].batch = "none"
         /\ late' = late \ {q}
         /\ UNCHANGED <<pc, run, job, disk>>
<1>1. /\ servers \in Seq(Server) /\ q.id \in DOMAIN servers /\ servers[q.id] \in Server
      /\ q.method \in {"login", "batchRun", "logout"}
      /\ q.method = "batchRun" => servers[q.id].batch = "none"
  BY DEF OutcomeInv, TypeOK, LateUnstarted
<1>2. /\ DOMAIN servers' = DOMAIN servers /\ late' = late \ {q}
      /\ \A i \in DOMAIN servers \ {q.id} : servers'[i] = servers[i]
      /\ UNCHANGED <<pc, run, job, disk>>
  BY <1>1 DEF ExecuteLate, callerVars
<1>3. q.method # "batchRun" => servers'[q.id].batch = servers[q.id].batch
  BY <1>1 DEF ExecuteLate, Server
<1> QED
  BY <1>1, <1>2, <1>3

LEMMA EndedStay == OutcomeInv /\ [Next]_vars => Stay
<1> SUFFICES ASSUME OutcomeInv, [Next]_vars PROVE Stay
  OBVIOUS
<1>1. ASSUME UNCHANGED servers PROVE Stay
  BY <1>1 DEF Stay
<1>2. ASSUME NEW c \in Callers, Arrive(c) \/ RunJob(c), ~RunOne(c) PROVE Stay
  BY <1>1, <1>2 DEF Arrive, RunJob, TurnAway, Enter, NewJob, NotFound, Found, Skip, Finish,
    Release, serverVars
<1>3. ASSUME NEW c \in Callers, RunOne(c) PROVE Stay
  <2>1. CASE Start(c)
    BY <2>1, BatchesOfStart DEF Stay
  <2>2. CASE BatchRun(c)
    BY <2>2, BatchesOfBatchRun DEF Stay, Untouched, Ended
  <2>3. CASE ~Start(c) /\ ~BatchRun(c)
    BY <1>3, <2>3, BatchesOfRunOne DEF Stay
  <2> QED
    BY <2>1, <2>2, <2>3
<1>4. ASSUME NEW id \in DOMAIN servers, BatchEnds(id) \/ BatchPauses(id) PROVE Stay
  BY <1>4, BatchesOfServer DEF Stay, Ended
<1>5. ASSUME NEW q \in late, ExecuteLate(q) PROVE Stay
  BY <1>5, BatchesOfLate DEF Stay, Ended
<1>6. CASE Editing \/ Tick \/ Waits \/ UNCHANGED vars \/ Crash
  BY <1>1, <1>6, EditFrame DEF Tick, Waits, vars, serverVars, Crash
<1> QED
  BY <1>2, <1>3, <1>4, <1>5, <1>6, StepKinds DEF External

\* A step of the caller in RunJob: what it must leave of its own run and job.
LEMMA OutcomeMove ==
  ASSUME OutcomeInv, TypeOK', Serial', Stay, NEW c \in Callers, pc[c] \in RunnerPlaces,
         \A d \in Callers \ {c} : pc'[d] = pc[d] /\ run'[d] = run[d] /\ job'[d] = job[d],
         Stage(c)', LateUnstarted', AllBacked(servers', job'[c]),
         \A i \in Ids : disk'[i] \in {disk[i], job'[c]}
  PROVE  OutcomeInv'
<1>1. ASSUME NEW d \in Callers \ {c} PROVE Stage(d)' /\ AllBacked(servers', job'[d])
  <2>1. pc[d] \notin RunPlaces
    BY DEF OutcomeInv, Serial, OneJobAtATime, Holding, RunnerPlaces, JobPlaces
  <2>2. Backed(servers', run[d]) /\ AllBacked(servers', job[d])
    BY StayBacked, StayAllBacked DEF OutcomeInv, Stage
  <2> QED
    BY <2>1, <2>2 DEF Stage, RunPlaces, TunnelPlaces, SessionPlaces
<1>2. \A i \in Ids : AllBacked(servers', disk'[i])
  BY StayAllBacked DEF OutcomeInv
<1>3. \A d \in Callers : Stage(d)' /\ AllBacked(servers', job'[d])
  BY <1>1
<1> QED
  BY <1>2, <1>3 DEF OutcomeInv

\* What is late stays late, or is a login or logout more, of a batch that stays.
LEMMA LateStays ==
  ASSUME OutcomeInv, \A id \in DOMAIN servers : servers'[id].batch = servers[id].batch,
         \A q \in late' : q \in late \/ q.method # "batchRun"
  PROVE  LateUnstarted'
<1>1. \A q \in late : q.id \in DOMAIN servers
  BY DEF OutcomeInv, TypeOK
<1> QED
  BY <1>1 DEF OutcomeInv, LateUnstarted

\* SaveJob writes the new version of the job or nothing.
LEMMA SavedVersion ==
  ASSUME disk \in [Ids -> Job \cup {NoJob}], NEW j \in Job, SaveJob(j)
  PROVE  \A i \in Ids : disk'[i] \in {disk[i], j}
BY DEF SaveJob, Job

\* The end of a turn: the run it adds, if any, is backed.
LEMMA OutcomeEndTurn ==
  ASSUME OutcomeInv, TypeOK', Serial', Stay, NEW c \in Callers, pc[c] \in JobPlaces,
         NEW runs \in Seq(Run), \A k \in DOMAIN runs : Backed(servers, runs[k]),
         EndTurn(c, runs), UNCHANGED <<servers, late>>
  PROVE  OutcomeInv'
<1> DEFINE j == [job[c] EXCEPT !.runs = runs]
<1>1. /\ job \in [Callers -> Job \cup {NoJob}] /\ job[c] \in Job
      /\ disk \in [Ids -> Job \cup {NoJob}]
      /\ pc \in [Callers -> Places] /\ run \in [Callers -> Run]
  BY DEF OutcomeInv, TypeOK
<1>2. j \in Job /\ j.runs = runs
  BY <1>1 DEF Job
<1>3. job' = [job EXCEPT ![c] = j] /\ SaveJob(j) /\ Goto(c, "next")
      /\ run' = [run EXCEPT ![c] = NoRun]
  BY DEF EndTurn
<1> HIDE DEF j
<1>4. job'[c] = j /\ pc'[c] = "next" /\ run'[c] = NoRun
  BY <1>1, <1>3 DEF Goto
<1>5. \A d \in Callers \ {c} : pc'[d] = pc[d] /\ run'[d] = run[d] /\ job'[d] = job[d]
  BY <1>1, <1>3 DEF Goto
<1>6. Stage(c)'
  BY <1>4 DEF Stage, Backed, NoRun
<1>7. AllBacked(servers', job'[c])
  BY <1>2, <1>4 DEF AllBacked
<1>8. \A i \in Ids : disk'[i] \in {disk[i], job'[c]}
  BY <1>1, <1>2, <1>3, <1>4, SavedVersion
<1>9. LateUnstarted'
  BY DEF OutcomeInv, LateUnstarted
<1> QED
  BY <1>5, <1>6, <1>7, <1>8, <1>9, OutcomeMove DEF RunnerPlaces

\* The steps of executeRun.
LEMMA OutcomeRunOne ==
  ASSUME OutcomeInv, TypeOK', Serial', Stay, NEW c \in Callers, RunOne(c)
  PROVE  OutcomeInv'
<1> USE DEF SessionPlaces, TunnelPlaces, RunPlaces, JobPlaces, RunnerPlaces
<1>1. /\ pc \in [Callers -> Places] /\ run \in [Callers -> Run] /\ run[c] \in Run
      /\ job \in [Callers -> Job \cup {NoJob}] /\ disk \in [Ids -> Job \cup {NoJob}]
      /\ pc[c] \in RunPlaces => run[c].id \in DOMAIN servers
  BY DEF OutcomeInv, TypeOK
<1>2. /\ Stage(c) /\ Backed(servers, run[c]) /\ AllBacked(servers', job[c])
      /\ LateUnstarted
  BY StayAllBacked DEF OutcomeInv, Stage
<1>3. Backed(servers', run[c])
  BY <1>2, StayBacked
<1>4. CASE Record(c)
  <2>1. /\ job[c] \in Job /\ pc[c] = "record" /\ AllBacked(servers, job[c])
        /\ EndTurn(c, Append(job[c].runs, run[c])) /\ UNCHANGED <<servers, late>>
    BY <1>4 DEF Record, serverVars, OutcomeInv, TypeOK
  <2>2. job[c].runs \in Seq(Run)
    BY <2>1 DEF Job
  <2> DEFINE old == job[c].runs
             runs == Append(old, run[c])
  <2>3. /\ runs \in Seq(Run)
        /\ \A k \in DOMAIN runs : runs[k] = run[c] \/ (k \in DOMAIN old /\ runs[k] = old[k])
    <3> HIDE DEF old
    <3>1. old \in Seq(Run) /\ run[c] \in Run
      BY <1>1, <2>2 DEF old
    <3>2. Append(old, run[c]) \in Seq(Run) /\ DOMAIN Append(old, run[c]) = 1..(Len(old) + 1)
      BY <3>1
    <3> QED
      BY <3>1, <3>2
  <2>4. job[c] # NoJob
    BY <2>1, NoJobAssumption
  <2>5. \A k \in DOMAIN runs : Backed(servers, runs[k])
    BY <1>2, <2>1, <2>3, <2>4 DEF AllBacked
  <2> QED
    BY <2>1, <2>3, <2>5, OutcomeEndTurn
<1>5. ASSUME ~Record(c)
      PROVE  /\ UNCHANGED <<job, disk>> /\ pc[c] \in RunnerPlaces
             /\ \A d \in Callers \ {c} : pc'[d] = pc[d] /\ run'[d] = run[d]
  BY <1>1, <1>5 DEF RunOne, Start, Build, Connect, Login, BatchRun, Poll, Fetch, Logout,
    Disconnect, AfterSession, Goto, Fail
<1>6. ASSUME ~Record(c), Stage(c)', LateUnstarted' PROVE OutcomeInv'
  BY <1>1, <1>2, <1>5, <1>6, OutcomeMove
<1>7. CASE Start(c)
  <2> DEFINE begun == [NoRun EXCEPT !.env = Env0(c).name, !.id = Len(servers) + 1]
  <2>1. /\ pc[c] = "found" /\ UNCHANGED <<late, lost>>
        /\ \/ run' = [run EXCEPT ![c] = begun] /\ Goto(c, "build")
           \/ run' = [run EXCEPT ![c] = [begun EXCEPT !.status = "error"]] /\ Goto(c, "record")
    BY <1>7 DEF Start
  <2>2. begun.id = Len(servers) + 1 /\ begun.status = "none"
    BY DEF NoRun
  <2>3. [begun EXCEPT !.status = "error"].status = "error"
    BY DEF NoRun
  <2>4. \A q \in late : q.id \in DOMAIN servers /\ servers'[q.id] = servers[q.id] /\ q.id # Len(servers) + 1
    <3>1. servers \in Seq(Server) /\ \A q \in late : q.id \in DOMAIN servers
      BY DEF OutcomeInv, TypeOK
    <3>2. \A id \in DOMAIN servers : servers'[id] = servers[id]
      BY <1>7, BatchesOfStart
    <3>3. \A id \in DOMAIN servers : id # Len(servers) + 1
      BY <3>1
    <3> QED
      BY <3>1, <3>2, <3>3
  <2>5. LateUnstarted'
    BY <1>2, <2>1, <2>4 DEF LateUnstarted
  <2> HIDE DEF begun
  <2>6. Stage(c)'
    <3>1. CASE run' = [run EXCEPT ![c] = begun] /\ Goto(c, "build")
      <4>1. run'[c] = begun /\ pc'[c] = "build"
        BY <1>1, <3>1 DEF Goto
      <4>2. Untouched(run[c].id)'
        BY <1>7, <2>1, <2>2, <2>4, <4>1, BatchesOfStart DEF Untouched
      <4> QED
        BY <2>2, <4>1, <4>2 DEF Stage, Backed
    <3>2. CASE run' = [run EXCEPT ![c] = [begun EXCEPT !.status = "error"]] /\ Goto(c, "record")
      <4>1. run'[c].status = "error" /\ pc'[c] = "record"
        BY <1>1, <2>3, <3>2 DEF Goto
      <4> QED
        BY <4>1 DEF Stage, Backed
    <3> QED
      BY <2>1, <3>1, <3>2
  <2>7. ~Record(c)
    BY <2>1 DEF Record
  <2> QED
    BY <1>6, <2>5, <2>6, <2>7
<1>8. CASE BatchRun(c)
  <2>1. pc[c] = "batchRun" /\ run[c].id \in DOMAIN servers /\ Untouched(run[c].id)
    BY <1>8, BatchesOfBatchRun DEF BatchRun
  <2>2. /\ pc'[c] \in {"poll", "logout"}
        /\ run'[c] = run[c] \/ run'[c].status = "error"
    BY <1>1, <1>8 DEF BatchRun, Goto, Fail, Run
  <2>3. Stage(c)'
    BY <1>3, <2>2 DEF Stage, Backed
  <2>4. LateUnstarted'
    <3>1. \A q \in late : q.id \in DOMAIN servers
      BY DEF OutcomeInv, TypeOK
    <3>2. CASE UNCHANGED late
      BY <1>2, <1>8, <2>1, <3>1, <3>2, BatchesOfBatchRun DEF LateUnstarted, Untouched
    <3>3. CASE UNCHANGED servers /\ GivenUp(c, "batchRun")
      BY <1>2, <2>1, <3>3 DEF LateUnstarted, Untouched, GivenUp
    <3> QED
      BY <1>8, <3>2, <3>3 DEF BatchRun
  <2>5. ~Record(c)
    BY <2>1 DEF Record
  <2> QED
    BY <1>6, <2>3, <2>4, <2>5
<1>9. CASE ~Record(c) /\ ~Start(c) /\ ~BatchRun(c)
  <2>1. \A id \in DOMAIN servers : id \in DOMAIN servers' /\ servers'[id].batch = servers[id].batch
    BY <1>9, BatchesOfRunOne
  <2>2. \A q \in late' : q \in late \/ q.method # "batchRun"
    BY <1>9 DEF RunOne, Build, Connect, Login, Poll, Fetch, Logout, Disconnect, GivenUp, serverVars
  <2>3. LateUnstarted'
    BY <2>1, <2>2, LateStays
  <2>4. CASE Build(c) \/ Connect(c) \/ Login(c)
    <3>1. /\ pc[c] \in {"build", "connect", "login"}
          /\ pc'[c] \in {"connect", "login", "batchRun", "disconnect", "record"}
          /\ run'[c].id = run[c].id /\ run'[c].status \in {run[c].status, "error"}
      <4>1. CASE Build(c)
        BY <1>1, <4>1 DEF Build, Goto, Fail, Run
      <4>2. CASE Connect(c)
        BY <1>1, <4>2 DEF Connect, Goto, Fail, Run
      <4>3. CASE Login(c)
        <5> DEFINE addressed == [run[c] EXCEPT !.at = Env0(c).name]
        <5>1. /\ pc[c] = "login" /\ \E place \in {"batchRun", "disconnect", "record"} : Goto(c, place)
              /\ \/ run' = [run EXCEPT ![c] = addressed]
                 \/ run' = [run EXCEPT ![c] = [addressed EXCEPT !.status = "error"]]
          BY <4>3 DEF Login, AfterSession
        <5>2. /\ addressed.id = run[c].id /\ addressed.status = run[c].status
              /\ [addressed EXCEPT !.status = "error"].id = run[c].id
              /\ [addressed EXCEPT !.status = "error"].status = "error"
          BY <1>1 DEF Run
        <5> HIDE DEF addressed
        <5> QED
          BY <1>1, <5>1, <5>2 DEF Goto
      <4> QED
        BY <2>4, <4>1, <4>2, <4>3
    <3>2. Untouched(run[c].id) /\ run[c].id \in DOMAIN servers
      BY <1>1, <1>2, <3>1 DEF Stage
    <3>3. Untouched(run[c].id)'
      BY <2>1, <2>2, <3>1, <3>2 DEF Untouched
    <3>4. Backed(servers', run'[c])
      BY <1>3, <3>1 DEF Backed
    <3>5. Stage(c)'
      BY <3>1, <3>3, <3>4 DEF Stage
    <3> QED
      BY <1>6, <1>9, <2>3, <3>5
  <2>5. CASE Poll(c)
    <3>1. /\ run[c].id \in DOMAIN servers /\ UNCHANGED servers
          /\ \/ /\ servers[run[c].id].batch \in Ended /\ pc'[c] = "fetch"
                /\ run'[c] = [run[c] EXCEPT !.result = servers[run[c].id].batch]
             \/ run'[c].status = "error" /\ pc'[c] = "logout"
      <4>1. pc[c] = "poll" /\ UNCHANGED servers
        BY <2>5 DEF Poll, serverVars
      <4>2. run[c].id \in DOMAIN servers
        BY <1>1, <4>1
      <4>3. CASE /\ servers[run[c].id].batch \in Ended /\ Goto(c, "fetch")
                 /\ run' = [run EXCEPT ![c].result = servers[run[c].id].batch]
        BY <1>1, <4>1, <4>2, <4>3 DEF Goto
      <4>4. CASE Fail(c) /\ Goto(c, "logout")
        BY <1>1, <4>1, <4>2, <4>4 DEF Goto, Fail, Run
      <4> QED
        BY <2>5, <4>3, <4>4 DEF Poll
    <3>2. CASE run'[c].status = "error" /\ pc'[c] = "logout"
      BY <1>6, <1>9, <2>3, <3>2 DEF Stage, Backed
    <3>3. CASE /\ servers[run[c].id].batch \in Ended /\ pc'[c] = "fetch"
               /\ run'[c] = [run[c] EXCEPT !.result = servers[run[c].id].batch]
      <4>1. /\ run'[c].id = run[c].id /\ run'[c].status = run[c].status
            /\ run'[c].result = servers[run[c].id].batch
        BY <1>1, <3>3 DEF Run
      <4>2. Stage(c)'
        BY <1>3, <3>1, <3>3, <4>1 DEF Stage, Backed
      <4> QED
        BY <1>6, <1>9, <2>3, <4>2
    <3> QED
      BY <3>1, <3>2, <3>3
  <2>6. CASE Fetch(c)
    <3>1. /\ run[c].id \in DOMAIN servers /\ UNCHANGED servers /\ pc'[c] = "logout"
          /\ run[c].result \in Ended /\ servers[run[c].id].batch = run[c].result
      BY <1>1, <1>2, <2>6 DEF Fetch, Stage, Goto, serverVars
    <3>2. /\ run'[c].id = run[c].id
          /\ run'[c].status = IF run[c].result = "Finished" THEN "finished" ELSE "stopped"
      BY <1>1, <2>6 DEF Fetch, Run
    <3>3. Stage(c)'
      BY <3>1, <3>2 DEF Stage, Backed, Ended
    <3> QED
      BY <1>6, <1>9, <2>3, <3>3
  <2>7. CASE Logout(c) \/ Disconnect(c)
    <3>1. UNCHANGED run /\ pc'[c] \in {"disconnect", "record"}
      BY <1>1, <2>7 DEF Logout, Disconnect, AfterSession, Goto
    <3>2. Stage(c)'
      BY <1>3, <3>1 DEF Stage
    <3> QED
      BY <1>6, <1>9, <2>3, <3>2
  <2> QED
    BY <1>9, <2>4, <2>5, <2>6, <2>7 DEF RunOne
<1> QED
  BY <1>4, <1>7, <1>8, <1>9

\* The frame of RunJob around executeRun.
LEMMA OutcomeRunJob ==
  ASSUME OutcomeInv, TypeOK', Serial', Stay, NEW c \in Callers, RunJob(c), ~RunOne(c)
  PROVE  OutcomeInv'
<1> USE DEF SessionPlaces, TunnelPlaces, RunPlaces, JobPlaces, RunnerPlaces
<1>1. /\ pc \in [Callers -> Places] /\ run \in [Callers -> Run] /\ CounterType
      /\ job \in [Callers -> Job \cup {NoJob}] /\ disk \in [Ids -> Job \cup {NoJob}]
      /\ pc[c] \in JobPlaces => job[c] \in Job
  BY DEF OutcomeInv, TypeOK, CounterType
<1>2. /\ UNCHANGED <<servers, late>> /\ LateUnstarted /\ LateUnstarted'
      /\ Stage(c) /\ AllBacked(servers, job[c])
  BY DEF RunJob, TurnAway, Enter, NewJob, NotFound, Found, Skip, Finish, Release, serverVars,
    OutcomeInv, LateUnstarted
<1>3. CASE TurnAway(c) \/ Enter(c)
  <2>1. /\ UNCHANGED <<run, job, disk>> /\ pc'[c] \in {"idle", "new"}
        /\ \A d \in Callers \ {c} : pc'[d] = pc[d]
    BY <1>1, <1>3 DEF TurnAway, Enter, Goto
  <2> QED
    BY <1>2, <2>1 DEF OutcomeInv, Stage, Untouched
<1>4. CASE NewJob(c)
  <2> DEFINE j == Fresh(clock)
  <2>1. j \in Job /\ j.runs = <<>>
    BY <1>1 DEF Fresh, Job, CounterType
  <2>2. /\ pc[c] = "new" /\ job' = [job EXCEPT ![c] = j] /\ SaveJob(j) /\ Goto(c, "next")
        /\ UNCHANGED run
    BY <1>4 DEF NewJob
  <2> HIDE DEF j
  <2>3. job'[c] = j /\ pc'[c] = "next"
    BY <1>1, <2>2 DEF Goto
  <2>4. \A d \in Callers \ {c} : pc'[d] = pc[d] /\ run'[d] = run[d] /\ job'[d] = job[d]
    BY <1>1, <2>2 DEF Goto
  <2>5. Stage(c)'
    BY <1>2, <2>2, <2>3 DEF Stage
  <2>6. AllBacked(servers', job'[c])
    BY <2>1, <2>3 DEF AllBacked
  <2>7. \A i \in Ids : disk'[i] \in {disk[i], job'[c]}
    BY <1>1, <2>1, <2>2, <2>3, SavedVersion
  <2> QED
    BY <1>2, <2>2, <2>4, <2>5, <2>6, <2>7, OutcomeMove
<1>5. CASE Finish(c)
  <2> DEFINE j == [job[c] EXCEPT !.finished = TRUE]
  <2>1. pc[c] = "next" /\ j \in Job /\ j.runs = job[c].runs /\ job[c] # NoJob
    BY <1>1, <1>5, NoJobAssumption DEF Finish, Job
  <2>2. /\ job' = [job EXCEPT ![c] = j] /\ Goto(c, "release") /\ UNCHANGED run
        /\ SaveJob(j)
    BY <1>1, <1>5 DEF Finish
  <2> HIDE DEF j
  <2>3. job'[c] = j /\ pc'[c] = "release"
    BY <1>1, <2>2 DEF Goto
  <2>4. \A d \in Callers \ {c} : pc'[d] = pc[d] /\ run'[d] = run[d] /\ job'[d] = job[d]
    BY <1>1, <2>2 DEF Goto
  <2>5. Stage(c)'
    BY <1>2, <2>2, <2>3 DEF Stage
  <2>6. AllBacked(servers', job'[c])
    BY <1>2, <2>1, <2>3 DEF AllBacked
  <2>7. \A i \in Ids : disk'[i] \in {disk[i], job'[c]}
    BY <1>1, <2>1, <2>2, <2>3, SavedVersion
  <2> QED
    BY <1>2, <2>1, <2>4, <2>5, <2>6, <2>7, OutcomeMove
<1>6. CASE Found(c) \/ Release(c)
  <2>1. /\ pc[c] \in {"next", "release"} /\ pc'[c] \in {"found", "idle"}
        /\ UNCHANGED <<run, disk>> /\ job'[c] \in {job[c], NoJob}
        /\ \A d \in Callers \ {c} : pc'[d] = pc[d] /\ job'[d] = job[d]
    BY <1>1, <1>6 DEF Found, Release, Goto
  <2>2. Stage(c)' /\ AllBacked(servers', job'[c])
    BY <1>2, <2>1 DEF Stage, AllBacked
  <2> QED
    BY <1>2, <2>1, <2>2, OutcomeMove
<1>7. CASE Skip(c)
  <2>1. pc[c] = "found" /\ job[c] \in Job /\ job[c].runs \in Seq(Run) /\ EndTurn(c, job[c].runs)
    BY <1>1, <1>7 DEF Skip, Job
  <2>2. \A k \in DOMAIN job[c].runs : Backed(servers, job[c].runs[k])
    BY <1>2, <2>1, NoJobAssumption DEF AllBacked
  <2> QED
    BY <1>2, <2>1, <2>2, OutcomeEndTurn
<1>8. CASE NotFound(c)
  <2> DEFINE old == job[c].runs
             r == [NoRun EXCEPT !.env = Head(todo[c]), !.status = "error"]
  <2>1. /\ pc[c] = "next" /\ job[c] \in Job /\ old \in Seq(Run)
        /\ EndTurn(c, Append(old, r))
    BY <1>1, <1>8 DEF NotFound, Job
  <2>2. Head(todo[c]) \in Names
    <3>1. todo[c] \in Seq(Names)
      BY DEF OutcomeInv, TypeOK
    <3>2. todo[c] # <<>>
      BY <1>8 DEF NotFound
    <3> QED
      BY <3>1, <3>2
  <2>3. r \in Run /\ r.status = "error"
    BY <2>2 DEF NoRun, Run
  <2>4. \A k \in DOMAIN old : Backed(servers, old[k])
    BY <1>2, <2>1, NoJobAssumption DEF AllBacked
  <2>5. Backed(servers, r)
    BY <2>3 DEF Backed
  <2> HIDE DEF old, r
  <2>6. /\ Append(old, r) \in Seq(Run)
        /\ \A k \in DOMAIN Append(old, r) :
             Append(old, r)[k] = r \/ (k \in DOMAIN old /\ Append(old, r)[k] = old[k])
    <3>1. DOMAIN Append(old, r) = 1..(Len(old) + 1)
      BY <2>1, <2>3
    <3> QED
      BY <2>1, <2>3, <3>1
  <2>7. \A k \in DOMAIN Append(old, r) : Backed(servers, Append(old, r)[k])
    BY <2>4, <2>5, <2>6
  <2> QED
    BY <1>2, <2>1, <2>6, <2>7, OutcomeEndTurn
<1> QED
  BY <1>3, <1>4, <1>5, <1>6, <1>7, <1>8 DEF RunJob

LEMMA OutcomeStep == OutcomeInv /\ [Next]_vars => OutcomeInv'
<1> SUFFICES ASSUME OutcomeInv, [Next]_vars PROVE OutcomeInv'
  OBVIOUS
<1> USE DEF SessionPlaces, TunnelPlaces, RunPlaces, JobPlaces, RunnerPlaces
<1>1. TypeOK' /\ Serial' /\ Stay
  BY TypeStep, SerialStep, EndedStay DEF OutcomeInv
<1>2. \A i \in Ids : AllBacked(servers', disk[i])
  BY <1>1, StayAllBacked DEF OutcomeInv
<1>3. \A c \in Callers : Backed(servers', run[c]) /\ AllBacked(servers', job[c])
  BY <1>1, StayBacked, StayAllBacked DEF OutcomeInv, Stage
<1>4. \A c \in Callers : pc[c] \in RunPlaces => run[c].id \in DOMAIN servers
  BY DEF OutcomeInv, TypeOK
<1>5. ASSUME NEW c \in Callers, RunOne(c) PROVE OutcomeInv'
  BY <1>1, <1>5, OutcomeRunOne
<1>6. ASSUME NEW c \in Callers, RunJob(c), ~RunOne(c) PROVE OutcomeInv'
  BY <1>1, <1>6, OutcomeRunJob
<1>7. ASSUME NEW c \in Callers, Arrive(c) PROVE OutcomeInv'
  <2>1. /\ UNCHANGED <<run, job, disk, servers, late>> /\ pc'[c] = "checked"
        /\ \A d \in Callers \ {c} : pc'[d] = pc[d]
    BY <1>7 DEF Arrive, Goto, serverVars, OutcomeInv, TypeOK
  <2> QED
    BY <1>1, <2>1 DEF OutcomeInv, Stage, Untouched, LateUnstarted
<1>8. ASSUME NEW id \in DOMAIN servers, BatchEnds(id) \/ BatchPauses(id) PROVE OutcomeInv'
  <2>1. /\ DOMAIN servers' = DOMAIN servers
        /\ \A i \in DOMAIN servers \ {id} : servers'[i] = servers[i]
        /\ servers[id].batch \in {"Running", "Paused"}
        /\ UNCHANGED <<pc, run, job, disk, late>>
    BY <1>8, BatchesOfServer
  <2>2. LateUnstarted'
    BY <2>1 DEF OutcomeInv, TypeOK, LateUnstarted
  <2>3. \A c \in Callers : Stage(c)'
    BY <1>3, <1>4, <2>1 DEF OutcomeInv, Stage, Untouched, Ended
  <2> QED
    BY <1>1, <1>2, <1>3, <2>1, <2>2, <2>3 DEF OutcomeInv
<1>9. ASSUME NEW q \in late, ExecuteLate(q) PROVE OutcomeInv'
  <2>1. /\ DOMAIN servers' = DOMAIN servers /\ q.id \in DOMAIN servers
        /\ \A i \in DOMAIN servers \ {q.id} : servers'[i] = servers[i]
        /\ \/ servers'[q.id].batch = servers[q.id].batch
           \/ q.method = "batchRun" /\ servers[q.id].batch = "none"
        /\ late' = late \ {q}
        /\ UNCHANGED <<pc, run, job, disk>>
    BY <1>9, BatchesOfLate
  <2>2. LateUnstarted'
    <3>1. \A p \in late : p.id \in DOMAIN servers
      BY DEF OutcomeInv, TypeOK
    <3>2. \A p \in late : p.id = q.id /\ p.method = q.method => p = q
      <4>1. \A p \in late : p = [id |-> p.id, method |-> p.method]
        BY DEF OutcomeInv, TypeOK
      <4> QED
        BY <4>1
    <3>3. \A p \in late : p.method = "batchRun" => servers[p.id].batch = "none"
      BY DEF OutcomeInv, LateUnstarted
    <3>4. ASSUME NEW p \in late \ {q}, p.method = "batchRun" PROVE servers'[p.id].batch = "none"
      <4>1. p \in late /\ p # q
        OBVIOUS
      <4>2. p.id \in DOMAIN servers /\ servers[p.id].batch = "none"
        BY <3>1, <3>3, <3>4, <4>1
      <4>3. CASE p.id # q.id
        <5>1. p.id \in DOMAIN servers \ {q.id}
          BY <4>2, <4>3
        <5>2. servers'[p.id] = servers[p.id]
          BY <2>1, <5>1
        <5> QED
          BY <4>2, <5>2
      <4>4. CASE p.id = q.id
        <5>1. q.method # "batchRun"
          BY <3>2, <3>4, <4>1, <4>4
        <5> QED
          BY <2>1, <4>2, <4>4, <5>1
      <4> QED
        BY <4>3, <4>4
    <3>5. late' = late \ {q}
      BY <2>1
    <3> QED
      BY <3>4, <3>5 DEF LateUnstarted
  <2>3. \A c \in Callers : Stage(c)'
    BY <1>3, <1>4, <2>1 DEF OutcomeInv, Stage, Untouched, Ended
  <2> QED
    BY <1>1, <1>2, <1>3, <2>1, <2>2, <2>3 DEF OutcomeInv
<1>10. CASE Editing \/ Tick \/ Waits \/ UNCHANGED vars
  <2>1. UNCHANGED <<pc, run, job, disk, servers, late>>
    BY <1>10, EditFrame DEF Tick, Waits, vars, callerVars, serverVars
  <2> QED
    BY <1>1, <2>1 DEF OutcomeInv, Stage, Untouched, LateUnstarted
<1>11. CASE Crash
  <2>1. /\ UNCHANGED <<disk, servers>>
        /\ \A c \in Callers : pc'[c] = "idle" /\ job'[c] = NoJob /\ run'[c] = NoRun
    BY <1>11 DEF Crash
  <2>2. PICK sent \in SUBSET Pending : late' = late \cup sent
    BY <1>11 DEF Crash
  <2>3. \A q \in sent : q.method = "batchRun" => servers[q.id].batch = "none"
    BY <2>2 DEF Pending, OutcomeInv, Stage, Untouched
  <2>4. LateUnstarted'
    BY <2>1, <2>2, <2>3 DEF OutcomeInv, LateUnstarted
  <2>5. \A c \in Callers : Stage(c)' /\ AllBacked(servers', job'[c])
    BY <2>1 DEF Stage, Backed, AllBacked, NoRun
  <2> QED
    BY <1>1, <1>2, <2>1, <2>4, <2>5 DEF OutcomeInv
<1> QED
  BY <1>5, <1>6, <1>7, <1>8, <1>9, <1>10, <1>11, StepKinds DEF External

LEMMA OutcomeInit == Init => OutcomeInv
<1> SUFFICES ASSUME Init PROVE OutcomeInv
  OBVIOUS
<1>1. /\ late = {} /\ \A c \in Callers : pc[c] = "idle" /\ run[c] = NoRun /\ job[c] = NoJob
      /\ \A i \in Ids : disk[i] = NoJob
  BY DEF Init
<1>2. TypeOK /\ Serial
  BY TypeInit DEF Init, Serial, OneJobAtATime, Holding, Places, RunnerPlaces, JobPlaces,
    RunPlaces, TunnelPlaces, SessionPlaces
<1>3. \A c \in Callers : Stage(c) /\ AllBacked(servers, job[c])
  BY <1>1 DEF Stage, Backed, AllBacked, NoRun
<1>4. \A i \in Ids : AllBacked(servers, disk[i])
  BY <1>1 DEF AllBacked
<1> QED
  BY <1>1, <1>2, <1>3, <1>4 DEF OutcomeInv, LateUnstarted

\* A run stored as finished or stopped is one whose batch did end that way, and
\* stays so: a batchRun that was given up and comes late starts no batch over.
THEOREM OutcomesAreTrue == Spec => []RecordedOutcomeIsTrue
<1>1. OutcomeInv => RecordedOutcomeIsTrue
  BY DEF OutcomeInv, RecordedOutcomeIsTrue, AllBacked, Backed, TrueOutcome
<1> QED
  BY <1>1, OutcomeInit, OutcomeStep, PTL DEF Spec

-----------------------------------------------------------------------------
(* A run and its environment *)

SteadyInv == TypeOK /\ Steady

\* The steps of a job read through the pointer and never write there.
LEMMA SteadyRunJob ==
  ASSUME SteadyInv, NEW c \in Callers, RunJob(c)
  PROVE  \A d \in Callers : Consistent(d)'
<1> USE DEF SessionPlaces, TunnelPlaces, RunPlaces, HalfRead
<1>1. /\ pc \in [Callers -> Places] /\ run \in [Callers -> Run] /\ run[c] \in Run
      /\ ptr \in [Callers -> [buf : Nat, idx : Nat]] /\ WellFormed(envs, Env)
  BY DEF SteadyInv, TypeOK, MemoryOK
<1>2. Consistent(c) /\ UNCHANGED envs
  BY DEF SteadyInv, Steady, RunJob, RunOne, TurnAway, Enter, NewJob, NotFound, Found, Skip, Start, Build,
    Connect, Login, BatchRun, Poll, Fetch, Logout, Disconnect, Record, Finish, Release,
    configVars
<1>3. ASSUME NEW d \in Callers \ {c} PROVE Consistent(d)'
  <2>1. pc'[d] = pc[d] /\ run'[d] = run[d] /\ ptr'[d] = ptr[d]
    BY <1>1, <1>3 DEF RunJob, RunOne, TurnAway, Enter, NewJob, NotFound, Found, Skip, Start,
      Build, Connect, Login, BatchRun, Poll, Fetch, Logout, Disconnect, Record, Finish, Release,
      EndTurn, Fail, AfterSession, Goto
  <2> QED
    BY <1>2, <1>3, <2>1 DEF SteadyInv, Steady, Consistent, Env0
<1> SUFFICES Consistent(c)'
  BY <1>3
<1>4. CASE TurnAway(c) \/ Enter(c) \/ NewJob(c) \/ NotFound(c) \/ Skip(c) \/ Record(c)
           \/ Finish(c) \/ Release(c)
  <2>1. pc'[c] \in {"idle", "new", "next", "release"}
    BY <1>1, <1>4 DEF TurnAway, Enter, NewJob, NotFound, Skip, Record, Finish, Release, EndTurn,
      Goto
  <2> QED
    BY <2>1 DEF Consistent
<1>5. CASE Found(c)
  <2>1. /\ pc'[c] = "found" /\ FindByName(envs, Head(todo[c])) # 0
        /\ ptr'[c] = PointerTo(envs, FindByName(envs, Head(todo[c])))
    BY <1>1, <1>5 DEF Found, Goto
  <2>2. InSlice(envs, ptr'[c])
    BY <1>1, <2>1, FoundInSlice
  <2> QED
    BY <1>2, <2>1, <2>2 DEF Consistent
<1>6. CASE Start(c)
  <2> DEFINE begun == [NoRun EXCEPT !.env = Env0(c).name, !.id = Len(servers) + 1]
  <2>1. /\ pc[c] = "found" /\ UNCHANGED ptr
        /\ \/ run' = [run EXCEPT ![c] = begun] /\ Goto(c, "build")
           \/ Goto(c, "record")
    BY <1>6 DEF Start
  <2>2. begun.env = Env0(c).name
    BY DEF NoRun
  <2> HIDE DEF begun
  <2>3. pc'[c] = "record" \/ (pc'[c] = "build" /\ run'[c].env = Env0(c).name)
    BY <1>1, <2>1, <2>2 DEF Goto
  <2> QED
    BY <1>2, <2>1, <2>3 DEF Consistent, Env0
<1>7. CASE Build(c) \/ Connect(c)
  <2>1. /\ UNCHANGED ptr /\ pc[c] \in {"build", "connect"}
        /\ pc'[c] \in {"connect", "login", "record"} /\ run'[c].env = run[c].env
    BY <1>1, <1>7 DEF Build, Connect, Goto, Fail, Run
  <2> QED
    BY <1>2, <2>1 DEF Consistent, Env0
<1>8. CASE Login(c)
  <2> DEFINE addressed == [run[c] EXCEPT !.at = Env0(c).name]
  <2>1. /\ pc[c] = "login" /\ UNCHANGED ptr
        /\ \/ run' = [run EXCEPT ![c] = addressed] /\ Goto(c, "batchRun")
           \/ \E place \in {"disconnect", "record"} : Goto(c, place)
    BY <1>8 DEF Login, AfterSession
  <2>2. addressed.at = Env0(c).name /\ addressed.env = run[c].env
    BY <1>1 DEF Run
  <2> HIDE DEF addressed
  <2>3. \/ pc'[c] \in {"disconnect", "record"}
        \/ pc'[c] = "batchRun" /\ run'[c].at = Env0(c).name /\ run'[c].env = run[c].env
    BY <1>1, <2>1, <2>2 DEF Goto
  <2> QED
    BY <1>2, <2>1, <2>3 DEF Consistent
<1>9. CASE BatchRun(c) \/ Poll(c) \/ Fetch(c) \/ Logout(c) \/ Disconnect(c)
  <2>1. /\ UNCHANGED ptr /\ pc[c] \in SessionPlaces \cup {"disconnect"}
        /\ pc'[c] \in {"poll", "fetch", "logout", "disconnect", "record"}
        /\ pc[c] \notin SessionPlaces => pc'[c] = "record"
        /\ run'[c].env = run[c].env /\ run'[c].at = run[c].at
    BY <1>1, <1>9 DEF BatchRun, Poll, Fetch, Logout, Disconnect, AfterSession, Goto, Fail, Run
  <2> QED
    BY <1>2, <2>1 DEF Consistent
<1> QED
  BY <1>4, <1>5, <1>6, <1>7, <1>8, <1>9 DEF RunJob, RunOne

\* Of the steps of an edit only the writes into the slice matter to a pointer.
LEMMA EditSteps ==
  ASSUME NEW e \in Editors, EditConfig(e)
  PROVE  AppendEnv(e) \/ StoreEnv(e) \/ ShiftEnvs(e) \/ UNCHANGED envs
BY DEF EditConfig, CreateEnvironment, UpdateEnvironment, DeleteEnvironment, Begin, Panics,
  Marshal, Rename

\* append leaves what is in the slice alone, and an assignment that keeps the
\* name of its slot keeps every name.
LEMMA SteadyEdit ==
  ASSUME SteadyInv, NEW e \in Editors, EditConfig(e), ~Moves
  PROVE  Steady'
<1>1. /\ WellFormed(envs, Env) /\ task[e] \in Task /\ TaskOK(task[e])
      /\ ptr \in [Callers -> [buf : Nat, idx : Nat]]
  BY DEF SteadyInv, TypeOK, MemoryOK
<1>2. UNCHANGED <<pc, ptr, run>>
  BY EditFrame DEF Editing
<1>3. ASSUME NEW d \in Callers, pc[d] \in RunPlaces \cup {"found"}
      PROVE  Env0(d)'.name = Env0(d).name /\ InSlice(envs', ptr[d])
  <2>1. ptr[d] \in [buf : Nat, idx : Nat] /\ PointerValid(envs, ptr[d]) /\ InSlice(envs, ptr[d])
    BY <1>1, <1>3 DEF SteadyInv, Steady, TypeOK, MemoryOK, Consistent
  <2>2. CASE AppendEnv(e)
    <3>1. envs' = Appended(envs, task[e].form) /\ task[e].form \in Env
      BY <1>1, <2>2 DEF AppendEnv, Changes, TaskOK
    <3> QED
      BY <1>1, <1>2, <2>1, <3>1, AppendedKeepsShown DEF Env0
  <2>3. CASE StoreEnv(e)
    <3>1. /\ envs' = Assigned(envs, task[e].idx, task[e].form) /\ task[e].form \in Env
          /\ task[e].idx <= envs.len /\ task[e].idx # 0
      BY <1>1, <2>3 DEF StoreEnv, Changes, TaskOK
    <3>2. task[e].idx \in 1..envs.len
      BY <1>1, <3>1 DEF Task, WellFormed
    <3>3. task[e].form.name = Backing(envs)[task[e].idx].name
      BY <2>3 DEF Moves
    <3> QED
      BY <1>1, <1>2, <2>1, <3>1, <3>2, <3>3, AssignedKeepsName DEF Env0
  <2>4. CASE UNCHANGED envs
    BY <1>2, <2>1, <2>4 DEF Env0
  <2> QED
    BY <2>2, <2>3, <2>4, EditSteps DEF Moves
<1> QED
  BY <1>2, <1>3 DEF SteadyInv, Steady, Consistent, HalfRead, RunPlaces, TunnelPlaces

LEMMA SteadyStep == SteadyInv /\ [Next]_vars => Steady' \/ Moves
<1> SUFFICES ASSUME SteadyInv, [Next]_vars, ~Moves PROVE Steady'
  OBVIOUS
<1>1. ASSUME UNCHANGED <<pc, ptr, run, envs>> PROVE Steady'
  BY <1>1 DEF SteadyInv, Steady, Consistent, Env0
<1>2. ASSUME NEW c \in Callers, Arrive(c) PROVE Steady'
  <2>1. UNCHANGED <<run, ptr, envs>> /\ \A d \in Callers : pc'[d] \in {pc[d], "checked"}
    BY <1>2 DEF Arrive, Goto, configVars, SteadyInv, TypeOK
  <2> QED
    BY <2>1 DEF SteadyInv, Steady, Consistent, Env0, HalfRead, RunPlaces, TunnelPlaces,
      SessionPlaces
<1>3. ASSUME NEW c \in Callers, RunJob(c) PROVE Steady'
  BY <1>3, SteadyRunJob DEF Steady
<1>4. CASE Crash
  BY <1>4 DEF Crash, Steady, Consistent, HalfRead, RunPlaces, TunnelPlaces, SessionPlaces
<1>5. CASE Editing
  BY <1>5, SteadyEdit DEF Editing
<1>6. CASE External /\ ~Editing
  <2>1. UNCHANGED <<pc, ptr, run, envs>>
    BY <1>6 DEF External, Tick, Waits, vars, callerVars, configVars, BatchEnds, BatchPauses,
      SetBatch, ExecuteLate
  <2> QED
    BY <1>1, <2>1
<1> QED
  BY <1>2, <1>3, <1>4, <1>5, <1>6, StepKinds

\* Whatever two edits and a job do to each other, a run and its pointer agree
\* until a shift, or a write of another name, moves the slice's contents under
\* the pointer executeRun holds (runner.go:88-124).
THEOREM OnlyMovesDisturbRuns == Spec => OnlyMovesDisturb
<1>1. TypeOK /\ [Next]_vars => [Steady => Steady' \/ Moves]_vars
  BY SteadyStep DEF SteadyInv
<1> QED
  BY <1>1, TypeInit, TypeStep, PTL DEF Spec, OnlyMovesDisturb

\* So while no such move is made, whose host a run logs in to is whose name and
\* password it took, although a create may take the slice to another array and an
\* overwrite changes what the pointer shows.
THEOREM OnlyDeletesAndRenamesDisturb == Spec /\ [][~Moves]_vars => []OneEnvironmentPerRun
<1>1. Init => SteadyInv
  BY TypeInit DEF Init, SteadyInv, Steady, Consistent, HalfRead, RunPlaces, TunnelPlaces,
    SessionPlaces
<1>2. SteadyInv => OneEnvironmentPerRun
  BY DEF SteadyInv, Steady, Consistent, OneEnvironmentPerRun
<1>3. SteadyInv /\ [Next]_vars /\ [~Moves]_vars => SteadyInv'
  <2> SUFFICES ASSUME SteadyInv, [Next]_vars, [~Moves]_vars PROVE SteadyInv'
    OBVIOUS
  <2>1. TypeOK'
    BY TypeStep DEF SteadyInv
  <2>2. CASE ~Moves
    BY <2>1, <2>2, SteadyStep DEF SteadyInv
  <2>3. CASE UNCHANGED vars
    BY <2>1, <2>3 DEF vars, callerVars, configVars, SteadyInv, Steady, Consistent, Env0
  <2> QED
    BY <2>2, <2>3
<1> QED
  BY <1>1, <1>2, <1>3, PTL DEF Spec

-----------------------------------------------------------------------------
(* One batch at a time *)

\* What makes RunJob go on without knowing that the batch has ended: the process
\* dies, batchRun fails or a batchInfoGet does.
LosesABatch ==
  Crash \/ \E c \in Callers : pc[c] \in {"batchRun", "poll"} /\ pc'[c] = "logout"

UnderWay == {id \in DOMAIN servers : servers[id].batch \in {"Running", "Paused"}}
Polled(id) == \E c \in Callers : pc[c] = "poll" /\ run[c].id = id

BatchInv ==
  /\ OutcomeInv
  /\ \A q \in late : q.method # "batchRun"
  /\ \A id \in UnderWay : Polled(id)

\* A batch that was under way before the step is still polled after it.
LEMMA PolledStays ==
  ASSUME BatchInv, \A id \in UnderWay' : id \in UnderWay,
         \A c \in Callers : pc[c] = "poll" => pc'[c] = "poll" /\ run'[c] = run[c]
  PROVE  \A id \in UnderWay' : Polled(id)'
BY DEF BatchInv, Polled

LEMMA BatchRunJob ==
  ASSUME BatchInv, NEW c \in Callers, RunJob(c), ~LosesABatch
  PROVE  (\A q \in late' : q.method # "batchRun") /\ (\A id \in UnderWay' : Polled(id)')
<1>1. /\ OutcomeInv /\ pc \in [Callers -> Places] /\ run \in [Callers -> Run] /\ run[c] \in Run
      /\ pc[c] \in {"batchRun", "poll"} => pc'[c] # "logout"
  BY DEF BatchInv, OutcomeInv, TypeOK, LosesABatch
<1>2. ASSUME NEW d \in Callers \ {c} PROVE pc'[d] = pc[d] /\ run'[d] = run[d]
  BY <1>1, <1>2 DEF RunJob, RunOne, TurnAway, Enter, NewJob, NotFound, Found, Skip, Start,
    Build, Connect, Login, BatchRun, Poll, Fetch, Logout, Disconnect, Record, Finish, Release,
    EndTurn, Fail, AfterSession, Goto
<1>3. CASE BatchRun(c)
  <2>1. /\ SetServer(c, "batch", "Running") /\ UNCHANGED <<run, late>>
        /\ pc[c] = "batchRun" /\ pc'[c] = "poll"
    BY <1>1, <1>3 DEF BatchRun, Goto
  <2>2. /\ DOMAIN servers' = DOMAIN servers
        /\ \A id \in DOMAIN servers \ {run[c].id} : servers'[id] = servers[id]
    BY <1>1, <1>3, BatchesOfBatchRun
  <2>3. ASSUME NEW id \in UnderWay' PROVE Polled(id)'
    <3>1. CASE id = run[c].id
      BY <2>1, <3>1 DEF Polled
    <3>2. CASE id # run[c].id
      <4>1. id \in UnderWay
        BY <2>2, <2>3, <3>2 DEF UnderWay
      <4>2. PICK d \in Callers : pc[d] = "poll" /\ run[d].id = id
        BY <4>1 DEF BatchInv, Polled
      <4> QED
        BY <1>2, <2>1, <4>2 DEF Polled
    <3> QED
      BY <3>1, <3>2
  <2> QED
    BY <2>1, <2>3 DEF BatchInv
<1>4. CASE Poll(c)
  <2>1. /\ servers[run[c].id].batch \in Ended /\ UNCHANGED <<servers, late>>
        /\ pc[c] = "poll"
    BY <1>1, <1>4 DEF Poll, Goto, serverVars
  <2>2. ASSUME NEW id \in UnderWay' PROVE Polled(id)'
    <3>1. id \in UnderWay /\ id # run[c].id
      BY <2>1, <2>2 DEF UnderWay, Ended
    <3>2. PICK d \in Callers : pc[d] = "poll" /\ run[d].id = id
      BY <3>1 DEF BatchInv, Polled
    <3> QED
      BY <1>2, <3>1, <3>2 DEF Polled
  <2> QED
    BY <2>1, <2>2 DEF BatchInv
<1>5. CASE ~BatchRun(c) /\ ~Poll(c)
  <2>1. pc[c] # "poll"
    BY <1>5 DEF RunJob, RunOne, TurnAway, Enter, NewJob, NotFound, Found, Skip, Start, Build,
      Connect, Login, Fetch, Logout, Disconnect, Record, Finish, Release
  <2>2. \A q \in late' : q \in late \/ q.method # "batchRun"
    <3>1. CASE Login(c) \/ Logout(c)
      BY <3>1 DEF Login, Logout, GivenUp
    <3>2. CASE ~Login(c) /\ ~Logout(c)
      <4>1. UNCHANGED late
        BY <1>5, <3>2 DEF RunJob, RunOne, TurnAway, Enter, NewJob, NotFound, Found, Skip, Start,
          Build, Connect, Fetch, Disconnect, Record, Finish, Release, serverVars
      <4> QED
        BY <4>1
    <3> QED
      BY <3>1, <3>2
  <2>3. \A id \in UnderWay' : id \in UnderWay
    <3>1. CASE Start(c)
      BY <1>1, <3>1, BatchesOfStart DEF UnderWay
    <3>2. CASE RunOne(c) /\ ~Start(c)
      BY <1>1, <1>5, <3>2, BatchesOfRunOne DEF UnderWay
    <3>3. CASE ~RunOne(c)
      <4>1. UNCHANGED servers
        BY <3>3 DEF RunJob, TurnAway, Enter, NewJob, NotFound, Found, Skip, Finish, Release,
          serverVars
      <4> QED
        BY <4>1 DEF UnderWay
    <3> QED
      BY <3>1, <3>2, <3>3
  <2>4. \A d \in Callers : pc[d] = "poll" => pc'[d] = "poll" /\ run'[d] = run[d]
    BY <1>2, <2>1
  <2> QED
    BY <2>2, <2>3, <2>4, PolledStays DEF BatchInv
<1> QED
  BY <1>3, <1>4, <1>5

LEMMA BatchStep == BatchInv /\ [Next]_vars /\ [~LosesABatch]_vars => BatchInv'
<1> SUFFICES ASSUME BatchInv, [Next]_vars, [~LosesABatch]_vars PROVE BatchInv'
  OBVIOUS
<1>1. OutcomeInv /\ OutcomeInv'
  BY OutcomeStep DEF BatchInv
<1> SUFFICES (\A q \in late' : q.method # "batchRun") /\ (\A id \in UnderWay' : Polled(id)')
  BY <1>1 DEF BatchInv
<1>2. ASSUME UNCHANGED <<servers, late>>,
             \A c \in Callers : pc[c] = "poll" => pc'[c] = "poll" /\ run'[c] = run[c]
      PROVE  (\A q \in late' : q.method # "batchRun") /\ (\A id \in UnderWay' : Polled(id)')
  BY <1>2, PolledStays DEF BatchInv, UnderWay
<1>3. CASE UNCHANGED vars
  BY <1>2, <1>3 DEF vars, callerVars, serverVars
<1>4. ASSUME NEW c \in Callers, Arrive(c)
      PROVE  (\A q \in late' : q.method # "batchRun") /\ (\A id \in UnderWay' : Polled(id)')
  <2>1. UNCHANGED <<servers, late, run>> /\ \A d \in Callers : pc[d] = "poll" => pc'[d] = "poll"
    BY <1>1, <1>4 DEF Arrive, Goto, serverVars, OutcomeInv, TypeOK
  <2> QED
    BY <1>2, <2>1
<1>5. ASSUME NEW c \in Callers, RunJob(c), ~LosesABatch
      PROVE  (\A q \in late' : q.method # "batchRun") /\ (\A id \in UnderWay' : Polled(id)')
  BY <1>5, BatchRunJob
<1>6. ASSUME NEW id \in DOMAIN servers, BatchEnds(id) \/ BatchPauses(id)
      PROVE  (\A q \in late' : q.method # "batchRun") /\ (\A i \in UnderWay' : Polled(i)')
  <2>1. /\ DOMAIN servers' = DOMAIN servers
        /\ \A i \in DOMAIN servers \ {id} : servers'[i] = servers[i]
        /\ servers[id].batch \in {"Running", "Paused"}
        /\ UNCHANGED <<pc, run, late>>
    BY <1>1, <1>6, BatchesOfServer
  <2>2. \A i \in UnderWay' : i \in UnderWay
    BY <2>1 DEF UnderWay
  <2> QED
    BY <2>1, <2>2, PolledStays DEF BatchInv
<1>7. ASSUME NEW q \in late, ExecuteLate(q)
      PROVE  (\A p \in late' : p.method # "batchRun") /\ (\A i \in UnderWay' : Polled(i)')
  <2>1. /\ DOMAIN servers' = DOMAIN servers
        /\ \A i \in DOMAIN servers \ {q.id} : servers'[i] = servers[i]
        /\ servers'[q.id].batch = servers[q.id].batch
        /\ late' = late \ {q} /\ UNCHANGED <<pc, run>>
    BY <1>1, <1>7, BatchesOfLate DEF BatchInv
  <2>2. \A i \in UnderWay' : i \in UnderWay
    BY <2>1 DEF UnderWay
  <2> QED
    BY <2>1, <2>2, PolledStays DEF BatchInv
<1>8. CASE Editing \/ Tick \/ Waits
  <2>1. UNCHANGED <<servers, late, pc, run>>
    BY <1>8, EditFrame DEF Tick, Waits, vars, callerVars, serverVars
  <2> QED
    BY <1>2, <2>1
<1> QED
  BY <1>3, <1>4, <1>5, <1>6, <1>7, <1>8, StepKinds DEF External, LosesABatch

\* "One at a time, polling until each finishes" (README.md:20) is so unless the
\* process dies or a batchRun or a batchInfoGet fails: no other failure, of a
\* login, a logout, a tunnel or a save, no pause and no late request starts a
\* batch beside another.
THEOREM OneBatchUnlessLost == Spec /\ [][~LosesABatch]_vars => []OneBatchAtATime
<1>1. Init => BatchInv
  BY OutcomeInit DEF Init, BatchInv, UnderWay
<1>2. BatchInv => OneBatchAtATime
  <2> SUFFICES ASSUME BatchInv PROVE Cardinality(UnderWay) <= 1
    BY DEF OneBatchAtATime, UnderWay
  <2>1. \A c, d \in Callers : pc[c] = "poll" /\ pc[d] = "poll" => c = d
    BY DEF BatchInv, OutcomeInv, Serial, OneJobAtATime, Holding, RunnerPlaces, JobPlaces,
      RunPlaces, TunnelPlaces, SessionPlaces
  <2>2. \A i, j \in UnderWay : i = j
    BY <2>1 DEF BatchInv, Polled
  <2>3. CASE UnderWay = {}
    <3>1. Cardinality(UnderWay) = 0
      BY <2>3, FS_EmptySet
    <3> QED
      BY <3>1
  <2>4. CASE UnderWay # {}
    <3>1. PICK i \in UnderWay : UnderWay = {i}
      BY <2>2, <2>4
    <3>2. Cardinality(UnderWay) = 1
      BY <3>1, FS_Singleton
    <3> QED
      BY <3>2
  <2> QED
    BY <2>3, <2>4
<1> QED
  BY <1>1, <1>2, BatchStep, PTL DEF Spec
=============================================================================
