------------------------- MODULE RunnerSafetyProofs -------------------------
(***************************************************************************)
(* What module Runner never does, a tunnel or a session left behind by a   *)
(* path out of executeRun, and what it does for the callers: it keeps the  *)
(* job log of module JobLog.  All of it rests on the types and on the      *)
(* serial execution proved in RunnerProofs.                                *)
(***************************************************************************)
EXTENDS RunnerProofs, FiniteSetTheorems

-----------------------------------------------------------------------------
(* Tunnels *)

\* The tunnels of the callers that are between Connect and Disconnect.
Tunnelled == {c \in Callers : pc[c] \in TunnelPlaces /\ run[c].tunnel}
InUse == {run[c].id : c \in Tunnelled}

\* Before Connect the run has none, and then exactly the ones in use are up.
TunnelInv ==
  /\ TypeOK /\ Serial
  /\ tunnels = InUse
  /\ \A c \in Callers : pc[c] \in {"build", "connect"} => ~run[c].tunnel

\* With one caller in RunJob, its own tunnel is the only one in use.
LEMMA InUseAlone ==
  ASSUME Serial, NEW c \in Callers, pc[c] \in RunnerPlaces
  PROVE  InUse = IF pc[c] \in TunnelPlaces /\ run[c].tunnel THEN {run[c].id} ELSE {}
<1>1. \A d \in Callers : pc[d] \in RunnerPlaces => d = c
  BY DEF Serial, OneJobAtATime, Holding
<1>2. \A d \in Callers : pc[d] \in TunnelPlaces => d = c
  BY <1>1 DEF RunnerPlaces, JobPlaces, RunPlaces
<1> QED
  BY <1>2 DEF InUse, Tunnelled

\* A caller that stays in RunJob: only its own place, run and tunnel matter.
LEMMA TunnelMove ==
  ASSUME TunnelInv, TypeOK', Serial', NEW c \in Callers,
         pc[c] \in RunnerPlaces, pc'[c] \in RunnerPlaces,
         \A d \in Callers \ {c} : pc'[d] = pc[d] /\ run'[d] = run[d],
         pc'[c] \in {"build", "connect"} => ~run'[c].tunnel,
         tunnels' = IF pc'[c] \in TunnelPlaces /\ run'[c].tunnel THEN {run'[c].id} ELSE {}
  PROVE  TunnelInv'
<1>1. \A d \in Callers : pc'[d] \in RunnerPlaces => d = c
  BY DEF Serial, OneJobAtATime, Holding
<1>2. \A d \in Callers : pc'[d] \in TunnelPlaces => d = c
  BY <1>1 DEF RunnerPlaces, JobPlaces, RunPlaces
<1>3. InUse' = tunnels'
  BY <1>2 DEF InUse, Tunnelled
<1>4. \A d \in Callers : pc'[d] \in {"build", "connect"} => ~run'[d].tunnel
  BY DEF TunnelInv
<1> QED
  BY <1>3, <1>4 DEF TunnelInv

\* The steps of executeRun.
LEMMA TunnelRunOne ==
  ASSUME TunnelInv, TypeOK', Serial', NEW c \in Callers, RunOne(c)
  PROVE  TunnelInv'
<1> USE DEF RunnerPlaces, JobPlaces, RunPlaces, TunnelPlaces, SessionPlaces
<1>1. pc \in [Callers -> Places] /\ run \in [Callers -> Run] /\ run[c] \in Run
  BY DEF TunnelInv, TypeOK
<1>2. pc[c] \in RunnerPlaces
  BY DEF RunOne, Start, Build, Connect, Login, BatchRun, Poll, Fetch, Logout, Disconnect, Record
<1>3. tunnels = IF pc[c] \in TunnelPlaces /\ run[c].tunnel THEN {run[c].id} ELSE {}
  BY <1>2, InUseAlone DEF TunnelInv
<1>4. pc[c] \in {"build", "connect"} => ~run[c].tunnel
  BY DEF TunnelInv
<1>5. CASE Start(c)
  <2>1. /\ pc[c] = "found" /\ UNCHANGED tunnels /\ run'[c].tunnel = FALSE
        /\ pc'[c] \in {"build", "record"}
        /\ \A d \in Callers \ {c} : pc'[d] = pc[d] /\ run'[d] = run[d]
    <3> DEFINE begun == [NoRun EXCEPT !.env = Env0(c).name, !.id = Len(servers) + 1]
    <3>1. begun.tunnel = FALSE /\ [begun EXCEPT !.status = "error"].tunnel = FALSE
      BY DEF NoRun
    <3>2. /\ pc[c] = "found" /\ UNCHANGED tunnels
          /\ \E place \in {"build", "record"} : Goto(c, place)
          /\ \/ run' = [run EXCEPT ![c] = begun]
             \/ run' = [run EXCEPT ![c] = [begun EXCEPT !.status = "error"]]
      BY <1>5 DEF Start
    <3> HIDE DEF begun
    <3> QED
      BY <1>1, <3>1, <3>2 DEF Goto
  <2> QED
    BY <1>2, <1>3, <2>1, TunnelMove
<1>6. CASE Build(c)
  <2>1. /\ pc[c] = "build" /\ UNCHANGED tunnels /\ run'[c].tunnel = run[c].tunnel
        /\ pc'[c] \in {"login", "connect", "record"}
        /\ \A d \in Callers \ {c} : pc'[d] = pc[d] /\ run'[d] = run[d]
    BY <1>1, <1>6 DEF Build, Goto, Fail, Run
  <2> QED
    BY <1>2, <1>3, <1>4, <2>1, TunnelMove
<1>7. CASE Connect(c)
  <2>1. /\ pc[c] = "connect"
        /\ \/ /\ tunnels' = tunnels \cup {run[c].id} /\ pc'[c] = "login"
              /\ run'[c].tunnel = TRUE /\ run'[c].id = run[c].id
           \/ UNCHANGED tunnels /\ pc'[c] = "record"
        /\ \A d \in Callers \ {c} : pc'[d] = pc[d] /\ run'[d] = run[d]
    BY <1>1, <1>7 DEF Connect, Goto, Fail, Run
  <2> QED
    BY <1>2, <1>3, <1>4, <2>1, TunnelMove
<1>8. CASE Login(c) \/ BatchRun(c) \/ Poll(c) \/ Fetch(c) \/ Logout(c)
  <2>1. /\ pc[c] \in TunnelPlaces /\ UNCHANGED tunnels
        /\ run'[c].tunnel = run[c].tunnel /\ run'[c].id = run[c].id
        /\ pc'[c] \in SessionPlaces \cup {AfterSession(c)}
        /\ \A d \in Callers \ {c} : pc'[d] = pc[d] /\ run'[d] = run[d]
    <3>1. CASE Login(c)
      <4> DEFINE addressed == [run[c] EXCEPT !.at = Env0(c).name]
      <4>1. /\ addressed.tunnel = run[c].tunnel /\ addressed.id = run[c].id
            /\ [addressed EXCEPT !.status = "error"].tunnel = run[c].tunnel
            /\ [addressed EXCEPT !.status = "error"].id = run[c].id
        BY <1>1 DEF Run
      <4>2. /\ pc[c] = "login" /\ UNCHANGED tunnels
            /\ \E place \in {"batchRun", AfterSession(c)} : Goto(c, place)
            /\ \/ run' = [run EXCEPT ![c] = addressed]
               \/ run' = [run EXCEPT ![c] = [addressed EXCEPT !.status = "error"]]
        BY <3>1 DEF Login
      <4> HIDE DEF addressed
      <4> QED
        BY <1>1, <4>1, <4>2 DEF Goto
    <3>2. CASE BatchRun(c) \/ Poll(c) \/ Fetch(c)
      BY <1>1, <3>2 DEF BatchRun, Poll, Fetch, Goto, Fail, Run
    <3>3. CASE Logout(c)
      BY <1>1, <3>3 DEF Logout, Goto
    <3> QED
      BY <1>8, <3>1, <3>2, <3>3
  <2> QED
    BY <1>2, <1>3, <2>1, TunnelMove DEF AfterSession
<1>9. CASE Disconnect(c) \/ Record(c)
  <2>1. /\ pc'[c] \in {"record", "next"}
        /\ \/ tunnels' = tunnels \ {run[c].id} 
           \/ pc[c] = "record" /\ UNCHANGED tunnels
        /\ \A d \in Callers \ {c} : pc'[d] = pc[d] /\ run'[d] = run[d]
    BY <1>1, <1>9 DEF Disconnect, Record, EndTurn, Goto
  <2> QED
    BY <1>2, <1>3, <2>1, TunnelMove
<1> QED
  BY <1>5, <1>6, <1>7, <1>8, <1>9 DEF RunOne

LEMMA TunnelStep == TunnelInv /\ [Next]_vars => TunnelInv'
<1> SUFFICES ASSUME TunnelInv, [Next]_vars PROVE TunnelInv'
  OBVIOUS
<1> USE DEF RunnerPlaces, JobPlaces, RunPlaces, TunnelPlaces, SessionPlaces
<1>1. TypeOK' /\ Serial'
  BY TypeStep, SerialStep DEF TunnelInv
<1>2. pc \in [Callers -> Places] /\ run \in [Callers -> Run]
  BY DEF TunnelInv, TypeOK
\* Steps that leave every tunnel, and everybody in TunnelPlaces, as they are.
<1>3. ASSUME UNCHANGED <<run, tunnels>>,
             \A c \in Callers : pc'[c] = pc[c] \/ {pc[c], pc'[c]} \cap RunPlaces = {}
      PROVE  TunnelInv'
  <2>1. Tunnelled' = Tunnelled
    BY <1>3 DEF Tunnelled
  <2>2. InUse' = InUse
    BY <1>3, <2>1 DEF InUse
  <2> QED
    BY <1>1, <1>3, <2>2 DEF TunnelInv
<1>4. ASSUME NEW c \in Callers, Arrive(c) PROVE TunnelInv'
  BY <1>2, <1>3, <1>4 DEF Arrive, Goto
<1>5. ASSUME NEW c \in Callers, RunJob(c) PROVE TunnelInv'
  <2>1. CASE TurnAway(c) \/ Enter(c) \/ NewJob(c) \/ Found(c) \/ Finish(c) \/ Release(c)
    BY <1>2, <1>3, <2>1 DEF TurnAway, Enter, NewJob, Found, Finish, Release, Goto
  <2>2. CASE NotFound(c) \/ Skip(c)
    <3>1. /\ pc[c] \in {"next", "found"} /\ pc'[c] = "next" /\ UNCHANGED tunnels
          /\ \A d \in Callers \ {c} : pc'[d] = pc[d] /\ run'[d] = run[d]
      BY <1>2, <2>2 DEF NotFound, Skip, EndTurn, Goto
    <3>2. tunnels = {}
      BY <3>1, InUseAlone DEF TunnelInv
    <3> QED
      BY <1>1, <3>1, <3>2, TunnelMove
  <2>3. CASE RunOne(c)
    BY <1>1, <2>3, TunnelRunOne
  <2> QED
    BY <1>5, <2>1, <2>2, <2>3 DEF RunJob
<1>6. CASE External
  BY <1>3, <1>6, ExternalFrame
<1>7. CASE Crash
  <2>1. tunnels' = {} /\ pc' = [c \in Callers |-> "idle"]
    BY <1>7 DEF Crash
  <2>2. InUse' = {}
    BY <2>1 DEF InUse, Tunnelled
  <2> QED
    BY <1>1, <2>1, <2>2 DEF TunnelInv
<1> QED
  BY <1>4, <1>5, <1>6, <1>7, StepKinds

\* Exactly the tunnels between a Connect and its Disconnect are up, whatever
\* fails in between (runner.go:105-114), and there is never more than one.
THEOREM TunnelsAreUsed == Spec => []TunnelWhileCalling
<1>1. Init => TunnelInv
  <2> SUFFICES ASSUME Init PROVE TunnelInv
    OBVIOUS
  <2>1. \A c \in Callers : pc[c] = "idle"
    BY DEF Init
  <2>2. Tunnelled = {} /\ tunnels = {}
    BY <2>1 DEF Init, Tunnelled, TunnelPlaces, SessionPlaces
  <2>3. Serial
    BY DEF Init, Serial, OneJobAtATime, Holding, Places, RunnerPlaces, JobPlaces, RunPlaces,
      TunnelPlaces, SessionPlaces
  <2> QED
    BY <2>1, <2>2, <2>3, TypeInit DEF TunnelInv, InUse
<1>2. TunnelInv => TunnelWhileCalling
  <2> SUFFICES ASSUME TunnelInv PROVE TunnelWhileCalling
    OBVIOUS
  <2>1. tunnels = {run[c].id : c \in {d \in Callers : pc[d] \in TunnelPlaces /\ run[d].tunnel}}
    BY DEF TunnelInv, InUse, Tunnelled
  <2>2. tunnels = {} \/ \E id : tunnels = {id}
    <3>1. CASE Tunnelled = {}
      BY <3>1 DEF TunnelInv, InUse
    <3>2. CASE Tunnelled # {}
      <4>1. PICK c \in Callers : pc[c] \in TunnelPlaces
        BY <3>2 DEF Tunnelled
      <4> QED
        BY <4>1, InUseAlone DEF TunnelInv, RunnerPlaces, JobPlaces, RunPlaces
    <3> QED
      BY <3>1, <3>2
  <2>3. Cardinality(tunnels) <= 1
    <3>1. CASE tunnels = {}
      <4>1. Cardinality(tunnels) = 0
        BY <3>1, FS_EmptySet
      <4> QED
        BY <4>1
    <3>2. CASE \E id : tunnels = {id}
      <4>1. Cardinality(tunnels) = 1
        BY <3>2, FS_Singleton
      <4> QED
        BY <4>1
    <3> QED
      BY <2>2, <3>1, <3>2
  <2> QED
    BY <2>1, <2>3 DEF TunnelWhileCalling
<1> QED
  BY <1>1, <1>2, TunnelStep, PTL DEF Spec

-----------------------------------------------------------------------------
(* Sessions *)

\* A login or logout still under way without its client belongs to a lost run.
SessionInv ==
  /\ TypeOK
  /\ SessionsAccounted
  /\ \A q \in late : q.method = "login" => q.id \in lost

\* A step of one caller that opens no session but its own, and leaves its own
\* only closed, accounted for, or still in use.
LEMMA SessionMove ==
  ASSUME SessionInv, TypeOK', NEW c \in Callers,
         \A d \in Callers \ {c} : pc'[d] = pc[d] /\ run'[d] = run[d],
         lost \subseteq lost', DOMAIN servers \subseteq DOMAIN servers',
         \A id \in DOMAIN servers' : servers'[id].session = "open" =>
           \/ id \in DOMAIN servers /\ servers[id].session = "open" /\ run[c].id # id
           \/ id \in DOMAIN servers /\ servers[id].session = "open" /\ pc[c] \notin SessionPlaces
           \/ id \in lost' \/ (run'[c].id = id /\ pc'[c] \in SessionPlaces),
         \A q \in late' : q.method = "login" => q.id \in lost'
  PROVE  SessionInv'
<1>1. ASSUME NEW id \in DOMAIN servers', servers'[id].session = "open"
      PROVE  id \in lost' \/ \E d \in Callers : run'[d].id = id /\ pc'[d] \in SessionPlaces
  <2>1. CASE id \in lost' \/ (run'[c].id = id /\ pc'[c] \in SessionPlaces)
    BY <2>1
  <2>2. CASE /\ id \in DOMAIN servers /\ servers[id].session = "open"
             /\ run[c].id # id \/ pc[c] \notin SessionPlaces
    <3>1. id \in lost \/ \E d \in Callers : run[d].id = id /\ pc[d] \in SessionPlaces
      BY <2>2 DEF SessionInv, SessionsAccounted
    <3> QED
      BY <2>2, <3>1
  <2> QED
    BY <1>1, <2>1, <2>2
<1> QED
  BY <1>1 DEF SessionInv, SessionsAccounted

LEMMA SessionRunOne ==
  ASSUME SessionInv, TypeOK', NEW c \in Callers, RunOne(c)
  PROVE  SessionInv'
<1> USE DEF SessionPlaces
<1>1. /\ pc \in [Callers -> Places] /\ run \in [Callers -> Run] /\ run[c] \in Run
      /\ servers \in Seq(Server)
  BY DEF SessionInv, TypeOK
<1>2. pc[c] \in RunPlaces => run[c].id \in DOMAIN servers /\ servers[run[c].id] \in Server
  <2>1. pc[c] \in RunPlaces => run[c].id \in DOMAIN servers
    BY DEF SessionInv, TypeOK
  <2>2. \A i \in DOMAIN servers : servers[i] \in Server
    BY <1>1
  <2> QED
    BY <2>1, <2>2
<1>3. \A q \in late : q.method = "login" => q.id \in lost
  BY DEF SessionInv
<1>4. CASE Start(c)
  <2>1. /\ pc[c] = "found" /\ UNCHANGED <<late, lost>>
        /\ servers' = Append(servers, [session |-> "none", batch |-> "none"])
        /\ \A d \in Callers \ {c} : pc'[d] = pc[d] /\ run'[d] = run[d]
    BY <1>1, <1>4 DEF Start, Goto
  <2>2. /\ DOMAIN servers' = DOMAIN servers \cup {Len(servers) + 1}
        /\ \A id \in DOMAIN servers : servers'[id] = servers[id]
        /\ servers'[Len(servers) + 1].session = "none"
    BY <1>1, <2>1
  <2> QED
    BY <1>3, <2>1, <2>2, SessionMove
<1>5. CASE Build(c) \/ Connect(c) \/ Disconnect(c) \/ Record(c)
  <2>1. /\ pc[c] \notin SessionPlaces /\ UNCHANGED <<servers, late, lost>>
        /\ \A d \in Callers \ {c} : pc'[d] = pc[d] /\ run'[d] = run[d]
    BY <1>1, <1>5 DEF Build, Connect, Disconnect, Record, EndTurn, Goto, Fail, serverVars
  <2> QED
    BY <1>3, <2>1, SessionMove
<1>6. CASE Login(c)
  <2> DEFINE addressed == [run[c] EXCEPT !.at = Env0(c).name]
  <2>1. pc[c] = "login" /\ run[c].id \in DOMAIN servers /\ servers[run[c].id] \in Server
    BY <1>2, <1>6 DEF Login, RunPlaces, TunnelPlaces
  <2>2. CASE /\ run' = [run EXCEPT ![c] = addressed] /\ SetServer(c, "session", "open")
             /\ Goto(c, "batchRun") /\ UNCHANGED <<late, lost>>
    <3>1. run'[c].id = run[c].id /\ pc'[c] = "batchRun"
      BY <1>1, <2>2 DEF Goto, Run
    <3>2. /\ \A d \in Callers \ {c} : pc'[d] = pc[d] /\ run'[d] = run[d]
          /\ DOMAIN servers' = DOMAIN servers
          /\ \A id \in DOMAIN servers \ {run[c].id} : servers'[id] = servers[id]
      BY <1>1, <2>2 DEF Goto, SetServer
    <3> QED
      BY <1>3, <2>1, <2>2, <3>1, <3>2, SessionMove
  <2>3. CASE /\ run' = [run EXCEPT ![c] = [addressed EXCEPT !.status = "error"]]
             /\ UNCHANGED <<late, lost>> \/ (GivenUp(c, "login") /\ Lose(c))
             /\ UNCHANGED servers /\ Goto(c, AfterSession(c))
    <3>1. \A d \in Callers \ {c} : pc'[d] = pc[d] /\ run'[d] = run[d]
      BY <1>1, <2>3 DEF Goto
    <3>2. lost \subseteq lost' /\ \A q \in late' : q.method = "login" => q.id \in lost'
      BY <1>3, <2>3 DEF GivenUp, Lose
    <3> QED
      BY <2>1, <2>3, <3>1, <3>2, SessionMove
  <2> QED
    BY <1>6, <2>2, <2>3 DEF Login
<1>7. CASE BatchRun(c)
  <2>1. /\ pc[c] = "batchRun" /\ pc'[c] \in SessionPlaces /\ run'[c].id = run[c].id
        /\ UNCHANGED lost
        /\ \A d \in Callers \ {c} : pc'[d] = pc[d] /\ run'[d] = run[d]
    BY <1>1, <1>7 DEF BatchRun, Goto, Fail, Run
  <2>2. /\ DOMAIN servers' = DOMAIN servers
        /\ \A id \in DOMAIN servers : servers'[id].session = servers[id].session
    BY <1>1, <1>7, <2>1, <1>2 DEF BatchRun, SetServer, Server, RunPlaces, TunnelPlaces
  <2>3. \A q \in late' : q.method = "login" => q.id \in lost'
    BY <1>3, <1>7 DEF BatchRun, GivenUp
  <2> QED
    BY <2>1, <2>2, <2>3, SessionMove
<1>8. CASE Poll(c) \/ Fetch(c)
  <2>1. /\ pc'[c] \in SessionPlaces /\ run'[c].id = run[c].id
        /\ UNCHANGED <<servers, late, lost>>
        /\ \A d \in Callers \ {c} : pc'[d] = pc[d] /\ run'[d] = run[d]
    BY <1>1, <1>8 DEF Poll, Fetch, Goto, Fail, Run, serverVars
  <2> QED
    BY <1>3, <2>1, SessionMove
<1>9. CASE Logout(c)
  <2>1. /\ pc[c] = "logout" /\ run[c].id \in DOMAIN servers /\ servers[run[c].id] \in Server
        /\ \A d \in Callers \ {c} : pc'[d] = pc[d] /\ run'[d] = run[d]
    BY <1>1, <1>2, <1>9 DEF Logout, RunPlaces, TunnelPlaces, Goto
  <2>2. CASE SetServer(c, "session", "closed") /\ UNCHANGED <<late, lost>>
    <3>1. /\ DOMAIN servers' = DOMAIN servers
          /\ servers'[run[c].id].session = "closed"
          /\ \A id \in DOMAIN servers \ {run[c].id} : servers'[id] = servers[id]
      BY <1>1, <2>1, <2>2 DEF SetServer, Server
    <3> QED
      BY <1>3, <2>1, <2>2, <3>1, SessionMove
  <2>3. CASE UNCHANGED servers /\ Lose(c) /\ (UNCHANGED late \/ GivenUp(c, "logout"))
    <3>1. lost' = lost \cup {run[c].id} /\ \A q \in late' : q.method = "login" => q.id \in lost'
      BY <1>3, <2>3 DEF GivenUp, Lose
    <3> QED
      BY <2>1, <2>3, <3>1, SessionMove
  <2> QED
    BY <1>9, <2>2, <2>3 DEF Logout
<1> QED
  BY <1>4, <1>5, <1>6, <1>7, <1>8, <1>9 DEF RunOne

LEMMA SessionStep == SessionInv /\ [Next]_vars => SessionInv'
<1> SUFFICES ASSUME SessionInv, [Next]_vars PROVE SessionInv'
  OBVIOUS
<1> USE DEF SessionPlaces
<1>1. TypeOK'
  BY TypeStep DEF SessionInv
<1>2. /\ pc \in [Callers -> Places] /\ run \in [Callers -> Run] /\ servers \in Seq(Server)
      /\ \A q \in late : q.method = "login" => q.id \in lost
  BY DEF SessionInv, TypeOK
<1>3. ASSUME NEW c \in Callers, Arrive(c) \/ RunJob(c), ~RunOne(c) PROVE SessionInv'
  <2>1. /\ pc[c] \notin SessionPlaces /\ UNCHANGED <<servers, late, lost>>
        /\ \A d \in Callers \ {c} : pc'[d] = pc[d] /\ run'[d] = run[d]
    BY <1>2, <1>3 DEF RunJob, Arrive, TurnAway, Enter, NewJob, NotFound, Found, Skip, Finish,
      Release, EndTurn, Goto, serverVars
  <2> QED
    BY <1>1, <1>2, <2>1, SessionMove
<1>4. ASSUME NEW c \in Callers, RunOne(c) PROVE SessionInv'
  BY <1>1, <1>4, SessionRunOne
<1>5. ASSUME NEW id \in DOMAIN servers, BatchEnds(id) \/ BatchPauses(id) PROVE SessionInv'
  <2>1. PICK state : SetBatch(id, state)
    BY <1>5 DEF BatchEnds, BatchPauses
  <2>2. servers[id] \in Server
    BY <1>2
  <2>3. /\ DOMAIN servers' = DOMAIN servers
        /\ \A i \in DOMAIN servers : servers'[i].session = servers[i].session
    BY <1>2, <2>1, <2>2 DEF SetBatch, Server
  <2>4. UNCHANGED <<pc, run, late, lost>>
    BY <2>1 DEF SetBatch, callerVars
  <2> QED
    BY <1>1, <2>3, <2>4 DEF SessionInv, SessionsAccounted
<1>6. ASSUME NEW q \in late, ExecuteLate(q) PROVE SessionInv'
  <2>1. UNCHANGED <<pc, run, lost>> /\ late' \subseteq late
    BY <1>6 DEF ExecuteLate, callerVars
  <2>2. /\ q.id \in DOMAIN servers /\ q.method \in {"login", "batchRun", "logout"}
        /\ servers[q.id] \in Server
    BY <1>2 DEF SessionInv, TypeOK
  <2>3. /\ DOMAIN servers' = DOMAIN servers
        /\ \A i \in DOMAIN servers \ {q.id} : servers'[i] = servers[i]
    BY <1>2, <1>6 DEF ExecuteLate
  <2>4. servers'[q.id].session = "open" => q.id \in lost \/ servers[q.id].session = "open"
    <3>1. CASE q.method = "login"
      BY <1>2, <3>1
    <3>2. CASE q.method = "logout"
      BY <1>2, <1>6, <2>2, <3>2 DEF ExecuteLate, Server
    <3>3. CASE q.method = "batchRun"
      BY <1>2, <1>6, <2>2, <3>3 DEF ExecuteLate, Server
    <3> QED
      BY <2>2, <3>1, <3>2, <3>3
  <2> QED
    BY <1>1, <1>2, <2>1, <2>3, <2>4 DEF SessionInv, SessionsAccounted
<1>7. CASE Editing \/ Tick \/ Waits \/ UNCHANGED vars
  <2>1. UNCHANGED <<pc, run, servers, late, lost>>
    BY <1>7, EditFrame DEF Tick, Waits, vars, callerVars, serverVars
  <2> QED
    BY <1>1, <2>1 DEF SessionInv, SessionsAccounted
<1>8. CASE Crash
  <2>1. /\ UNCHANGED servers
        /\ lost' = lost \cup {run[c].id :
                     c \in {d \in Callers : pc[d] \in SessionPlaces \cup {"login"}}}
    BY <1>8 DEF Crash
  <2>2. PICK sent \in SUBSET Pending : late' = late \cup sent
    BY <1>8 DEF Crash
  <2>3. \A q \in sent : q.method = "login" => q.id \in lost'
    BY <2>1, <2>2 DEF Pending
  <2> QED
    BY <1>1, <2>1, <2>2, <2>3 DEF SessionInv, SessionsAccounted
<1> QED
  BY <1>3, <1>4, <1>5, <1>6, <1>7, <1>8, StepKinds DEF External

\* A session outlives its run on a server only where the answer to a login, or
\* a logout, was lost, or the process died: no path out of executeRun forgets
\* the logout that runner.go:129 defers.
THEOREM SessionsAreClosed == Spec => []SessionsAccounted
<1>1. Init => SessionInv
  <2> SUFFICES ASSUME Init PROVE SessionInv
    OBVIOUS
  <2>1. servers = <<>> /\ late = {}
    BY DEF Init
  <2> QED
    BY <2>1, TypeInit DEF SessionInv, SessionsAccounted
<1>2. SessionInv => SessionsAccounted
  BY DEF SessionInv
<1> QED
  BY <1>1, <1>2, SessionStep, PTL DEF Spec

-----------------------------------------------------------------------------
(* Module Runner implements module JobLog: every step of the runner is a step *)
(* of the job log or leaves it alone.                                         *)

\* What the mapping needs besides the types: names to serve until the job has
\* begun, and a job that is finished exactly when it is about to be released.
LogInv ==
  /\ TypeOK /\ Serial
  /\ \A c \in Callers :
       /\ pc[c] \in {"checked", "new"} => todo[c] # <<>>
       /\ pc[c] \in JobPlaces \ {"release"} => ~job[c].finished

\* The abstract variables, as KeepsTheLog maps them.
Active == IF InJob = {} THEN NoJob ELSE job[TheCaller]
Left == IF InJob = {} THEN 0 ELSE Len(todo[TheCaller])

\* They are those of the caller that is in its job, before and after a step.
LEMMA OfTheCaller ==
  ASSUME Serial, NEW c \in Callers, pc[c] \in JobPlaces
  PROVE  InJob # {} /\ Active = job[c] /\ Left = Len(todo[c])
<1>1. InJob = {c}
  BY DEF Serial, OneJobAtATime, Holding, InJob, RunnerPlaces
<1>2. TheCaller = c
  BY <1>1 DEF TheCaller
<1> QED
  BY <1>1, <1>2 DEF Active, Left

LEMMA OfTheNextCaller ==
  ASSUME Serial', NEW c \in Callers, pc'[c] \in JobPlaces
  PROVE  Active' = job'[c] /\ Left' = Len(todo'[c])
<1>1. InJob' = {c}
  BY DEF Serial, OneJobAtATime, Holding, InJob, RunnerPlaces, JobPlaces, RunPlaces,
    TunnelPlaces, SessionPlaces
<1>2. TheCaller' = c
  BY <1>1 DEF TheCaller
<1> QED
  BY <1>1, <1>2 DEF Active, Left

\* With a caller that is in RunJob but not in its job, nobody is.
LEMMA OfNobody ==
  ASSUME Serial, NEW c \in Callers, pc[c] = "new"
  PROVE  Active = NoJob /\ Left = 0
<1>1. InJob = {}
  BY DEF Serial, OneJobAtATime, Holding, InJob, RunnerPlaces, JobPlaces, RunPlaces,
    TunnelPlaces, SessionPlaces
<1> QED
  BY <1>1 DEF Active, Left

LEMMA LogInvStep == LogInv /\ [Next]_vars => LogInv'
<1> SUFFICES ASSUME LogInv, [Next]_vars PROVE LogInv'
  OBVIOUS
<1> USE DEF SessionPlaces, TunnelPlaces, RunPlaces, JobPlaces
<1>1. TypeOK' /\ Serial'
  BY TypeStep, SerialStep DEF LogInv
<1>2. /\ pc \in [Callers -> Places] /\ todo \in [Callers -> Seq(Names)]
      /\ job \in [Callers -> Job \cup {NoJob}]
      /\ \A c \in Callers : pc[c] \in JobPlaces => job[c] \in Job
  BY DEF LogInv, TypeOK
<1>3. ASSUME NEW c \in Callers, Arrive(c) PROVE LogInv'
  <2>1. PICK names \in Requests : todo' = [todo EXCEPT ![c] = names]
    BY <1>3 DEF Arrive
  <2>2. names # <<>>
    BY ConstantsAssumption
  <2>3. pc' = [pc EXCEPT ![c] = "checked"] /\ UNCHANGED job
    BY <1>3 DEF Arrive, Goto
  <2>4. ASSUME NEW d \in Callers \ {c}
        PROVE  pc'[d] = pc[d] /\ todo'[d] = todo[d] /\ job'[d] = job[d]
    BY <1>2, <2>1, <2>3
  <2>5. pc'[c] = "checked" /\ todo'[c] = names
    BY <1>2, <2>1, <2>3
  <2> QED
    BY <1>1, <2>2, <2>4, <2>5 DEF LogInv
<1>4. ASSUME NEW c \in Callers, RunJob(c) PROVE LogInv'
  <2>1. CASE TurnAway(c) \/ Enter(c) \/ Found(c) \/ Release(c)
    <3>1. CASE TurnAway(c)
      BY <1>1, <1>2, <3>1 DEF TurnAway, Goto, LogInv
    <3>2. CASE Enter(c)
      BY <1>1, <1>2, <3>2 DEF Enter, Goto, LogInv
    <3>3. CASE Found(c)
      BY <1>1, <1>2, <3>3 DEF Found, Goto, LogInv
    <3>4. CASE Release(c)
      BY <1>1, <1>2, <3>4 DEF Release, Goto, LogInv
    <3> QED
      BY <2>1, <3>1, <3>2, <3>3, <3>4
  <2>2. CASE NewJob(c)
    <3>1. /\ pc' = [pc EXCEPT ![c] = "next"] /\ job' = [job EXCEPT ![c] = Fresh(clock)]
          /\ UNCHANGED todo
      BY <2>2 DEF NewJob, Goto
    <3>2. ~Fresh(clock).finished
      BY DEF Fresh
    <3> QED
      BY <1>1, <1>2, <3>1, <3>2 DEF LogInv
  <2>3. CASE Finish(c)
    BY <1>1, <1>2, <2>3 DEF Finish, Goto, LogInv
  <2>4. CASE NotFound(c) \/ Skip(c) \/ Record(c)
    <3>1. PICK runs : EndTurn(c, runs)
      BY <2>4 DEF NotFound, Skip, Record
    <3> DEFINE j == [job[c] EXCEPT !.runs = runs]
    <3>2. pc[c] \in JobPlaces \ {"release"} /\ job[c] \in Job
      BY <1>2, <2>4 DEF NotFound, Skip, Record
    <3>3. ~j.finished
      BY <3>2 DEF LogInv, Job
    <3>4. /\ pc' = [pc EXCEPT ![c] = "next"] /\ job' = [job EXCEPT ![c] = j]
          /\ todo' = [todo EXCEPT ![c] = Tail(todo[c])]
      BY <3>1 DEF EndTurn, Goto
    <3> HIDE DEF j
    <3> QED
      BY <1>1, <1>2, <3>3, <3>4 DEF LogInv
  <2>5. CASE RunOne(c) /\ ~Record(c)
    <3>1. /\ UNCHANGED <<job, todo>> /\ pc[c] \in JobPlaces \ {"release"}
          /\ \E place \in RunPlaces : Goto(c, place)
      BY <2>5 DEF RunOne, Start, Build, Connect, Login, BatchRun, Poll, Fetch, Logout,
        Disconnect, AfterSession
    <3> QED
      BY <1>1, <1>2, <3>1 DEF Goto, LogInv
  <2> QED
    BY <1>4, <2>1, <2>2, <2>3, <2>4, <2>5 DEF RunJob
<1>5. CASE External
  BY <1>1, <1>5, ExternalFrame DEF LogInv
<1>6. CASE Crash
  <2>1. pc' = [c \in Callers |-> "idle"]
    BY <1>6 DEF Crash
  <2> QED
    BY <1>1, <2>1 DEF LogInv
<1> QED
  BY <1>3, <1>4, <1>5, <1>6, StepKinds

\* What SaveJob may leave in the log.
LEMMA SavedIsWritten ==
  ASSUME NEW j, SaveJob(j)
  PROVE  disk' \in {disk, [disk EXCEPT ![j.id] = j]}
BY DEF SaveJob

\* The end of a turn serves one name.
LEMMA EndTurnServes ==
  ASSUME LogInv, LogInv', NEW c \in Callers, pc[c] \in JobPlaces, todo[c] # <<>>,
         NEW runs, EndTurn(c, runs), Log!Extends(job[c].runs, runs)
  PROVE  Log!LNext
<1> DEFINE j == [job[c] EXCEPT !.runs = runs]
<1>1. /\ job[c] \in Job /\ todo[c] \in Seq(Names)
      /\ pc \in [Callers -> Places] /\ todo \in [Callers -> Seq(Names)]
      /\ job \in [Callers -> Job \cup {NoJob}] /\ Serial /\ Serial'
  BY DEF LogInv, TypeOK
<1>2. /\ pc'[c] = "next" /\ job'[c] = j /\ todo'[c] = Tail(todo[c])
      /\ SaveJob(j)
  BY <1>1 DEF EndTurn, Goto
<1>3. Active = job[c] /\ Left = Len(todo[c])
  BY <1>1, OfTheCaller
<1>4. Active' = j /\ Left' = Len(Tail(todo[c]))
  <2>1. pc'[c] \in JobPlaces
    BY <1>2 DEF JobPlaces
  <2>2. Active' = job'[c] /\ Left' = Len(todo'[c])
    BY <1>1, <2>1, OfTheNextCaller
  <2> QED
    BY <1>2, <2>2
<1>5. Len(todo[c]) > 0 /\ Len(Tail(todo[c])) = Len(todo[c]) - 1
  BY <1>1
<1>6. j.id = job[c].id /\ j.runs = runs /\ j = [job[c] EXCEPT !.runs = j.runs]
  BY <1>1 DEF Job
<1>7. disk' \in {disk, [disk EXCEPT ![j.id] = j]}
  BY <1>2, SavedIsWritten
<1>8. job[c] # NoJob /\ j # NoJob
  <2>1. job'[c] \in Job
    BY <1>2 DEF LogInv, TypeOK, JobPlaces
  <2> QED
    BY <1>1, <1>2, <2>1, NoJobAssumption
<1> HIDE DEF j
<1>9. Log!Serve
  BY <1>3, <1>4, <1>5, <1>6, <1>7, <1>8 DEF Log!Serve, Log!Written, Active, Left
<1> QED
  BY <1>9 DEF Log!LNext

\* A list that one run was appended to extends it.
LEMMA AppendExtends ==
  ASSUME NEW old \in Seq(Run), NEW r \in Run
  PROVE  Log!Extends(old, Append(old, r))
<1>1. Len(Append(old, r)) = Len(old) + 1 /\ Append(old, r) \in Seq(Run)
  OBVIOUS
<1>2. SubSeq(Append(old, r), 1, Len(old)) = old
  OBVIOUS
<1> QED
  BY <1>1, <1>2 DEF Log!Extends

-----------------------------------------------------------------------------
(* Every step of the runner *)

\* A step that leaves the callers' jobs and the files alone is a stutter.
LEMMA LogStutters ==
  ASSUME UNCHANGED <<job, todo, disk>>, InJob' = InJob
  PROVE  UNCHANGED Log!logVars
<1>1. TheCaller' = TheCaller
  BY DEF TheCaller
<1> QED
  BY <1>1 DEF Log!logVars

LEMMA LogStepRunJob ==
  ASSUME LogInv, LogInv', NEW c \in Callers, RunJob(c)
  PROVE  Log!LNext \/ UNCHANGED Log!logVars
<1> USE DEF SessionPlaces, TunnelPlaces, RunPlaces, JobPlaces
<1>1. /\ pc \in [Callers -> Places] /\ todo \in [Callers -> Seq(Names)] /\ Serial /\ Serial'
      /\ job \in [Callers -> Job \cup {NoJob}] /\ run \in [Callers -> Run] /\ clock \in Ids
      /\ pc[c] \in JobPlaces => job[c] \in Job
  BY DEF LogInv, TypeOK
<1>2. CASE TurnAway(c)
  <2>1. UNCHANGED <<job, disk>> /\ InJob' = InJob /\ pc[c] \notin JobPlaces
    BY <1>1, <1>2 DEF TurnAway, Goto, InJob
  <2>2. \A d \in InJob : todo'[d] = todo[d]
    BY <1>1, <1>2, <2>1 DEF TurnAway, InJob
  <2>3. CASE InJob = {}
    BY <2>1, <2>3 DEF Log!logVars
  <2>4. CASE InJob # {}
    <3>1. PICK d \in Callers : d \in InJob
      BY <2>4 DEF InJob
    <3>2. pc[d] \in JobPlaces /\ pc'[d] \in JobPlaces
      BY <2>1, <3>1 DEF InJob
    <3>3. /\ Active = job[d] /\ Left = Len(todo[d])
          /\ Active' = job'[d] /\ Left' = Len(todo'[d])
      BY <1>1, <3>2, OfTheCaller, OfTheNextCaller
    <3>4. Active' = Active /\ Left' = Left
      BY <2>1, <2>2, <3>1, <3>3
    <3> QED
      BY <2>1, <3>4 DEF Log!logVars, Active, Left
  <2> QED
    BY <2>3, <2>4
<1>3. CASE Enter(c) \/ Found(c)
  BY <1>1, <1>3, LogStutters DEF Enter, Found, Goto, InJob
<1>4. CASE NewJob(c)
  <2>1. /\ pc[c] = "new" /\ pc'[c] = "next" /\ job'[c] = Fresh(clock) /\ UNCHANGED todo
        /\ SaveJob(Fresh(clock))
    BY <1>1, <1>4 DEF NewJob, Goto
  <2>2. /\ Active = NoJob /\ Left = 0
        /\ Active' = Fresh(clock) /\ Left' = Len(todo[c])
    BY <1>1, <2>1, OfNobody, OfTheNextCaller
  <2>3. Len(todo[c]) \in Nat \ {0}
    BY <1>1, <2>1 DEF LogInv
  <2>4. disk' \in {disk, [disk EXCEPT ![Fresh(clock).id] = Fresh(clock)]}
    BY <2>1, SavedIsWritten
  <2>5. Log!Begin
    BY <1>1, <2>2, <2>3, <2>4 DEF Log!Begin, Log!Written, Active, Left, Fresh
  <2> QED
    BY <2>5 DEF Log!LNext
<1>5. CASE NotFound(c)
  <2> DEFINE r == [NoRun EXCEPT !.env = Head(todo[c]), !.status = "error"]
  <2>1. /\ pc[c] = "next" /\ todo[c] # <<>> /\ EndTurn(c, Append(job[c].runs, r))
    BY <1>5 DEF NotFound
  <2>2. Head(todo[c]) \in Names
    BY <1>1, <2>1
  <2>3. r \in Run /\ job[c].runs \in Seq(Run)
    BY <1>1, <2>1, <2>2 DEF NoRun, Run, Job
  <2> HIDE DEF r
  <2> QED
    BY <2>1, <2>3, AppendExtends, EndTurnServes
<1>6. CASE Skip(c)
  <2>1. pc[c] = "found" /\ todo[c] # <<>> /\ EndTurn(c, job[c].runs)
    BY <1>6 DEF Skip, LogInv, TypeOK
  <2>2. Log!Extends(job[c].runs, job[c].runs)
    BY DEF Log!Extends
  <2> QED
    BY <2>1, <2>2, EndTurnServes
<1>7. CASE Record(c)
  <2>1. /\ pc[c] = "record" /\ todo[c] # <<>> /\ EndTurn(c, Append(job[c].runs, run[c]))
    BY <1>7 DEF Record, LogInv, TypeOK
  <2>2. run[c] \in Run /\ job[c].runs \in Seq(Run)
    BY <1>1, <2>1 DEF Job
  <2> QED
    BY <2>1, <2>2, AppendExtends, EndTurnServes
<1>8. CASE RunOne(c) /\ ~Record(c)
  <2>1. /\ UNCHANGED <<job, todo, disk>> /\ pc[c] \in JobPlaces
        /\ \E place \in RunPlaces : Goto(c, place)
    BY <1>8 DEF RunOne, Start, Build, Connect, Login, BatchRun, Poll, Fetch, Logout,
      Disconnect, AfterSession
  <2>2. InJob' = InJob
    BY <1>1, <2>1 DEF Goto, InJob
  <2> QED
    BY <2>1, <2>2, LogStutters
<1>9. CASE Finish(c)
  <2> DEFINE j == [job[c] EXCEPT !.finished = TRUE]
  <2>1. /\ pc[c] = "next" /\ pc'[c] = "release" /\ todo[c] = <<>> /\ job'[c] = j
        /\ SaveJob(j) /\ UNCHANGED todo
    BY <1>1, <1>9 DEF Finish, Goto
  <2>2. ~job[c].finished /\ job[c] # NoJob /\ j.id = job[c].id
    BY <1>1, <2>1, NoJobAssumption DEF LogInv, Job
  <2> HIDE DEF j
  <2>3. /\ Active = job[c] /\ Left = Len(todo[c])
        /\ Active' = j /\ Left' = Len(todo[c])
    BY <1>1, <2>1, OfTheCaller, OfTheNextCaller
  <2>4. disk' \in {disk, [disk EXCEPT ![j.id] = j]}
    BY <2>1, SavedIsWritten
  <2>5. Len(todo[c]) = 0
    BY <2>1
  <2>6. Log!Complete
    BY <2>2, <2>3, <2>4, <2>5 DEF Log!Complete, Log!Written, Active, Left, j
  <2> QED
    BY <2>6 DEF Log!LNext
<1>10. CASE Release(c)
  <2>1. /\ pc[c] = "release" /\ pc'[c] = "idle" /\ UNCHANGED disk
        /\ \A d \in Callers \ {c} : pc'[d] = pc[d]
    BY <1>1, <1>10 DEF Release, Goto
  <2>2. Active = job[c] /\ job[c] # NoJob
    BY <1>1, <2>1, OfTheCaller, NoJobAssumption
  <2>3. InJob' = {}
    BY <1>1, <2>1 DEF InJob, Serial, OneJobAtATime, Holding, RunnerPlaces
  <2>4. Log!Leave
    BY <2>1, <2>2, <2>3 DEF Log!Leave, Active
  <2> QED
    BY <2>4 DEF Log!LNext
<1> QED
  BY <1>2, <1>3, <1>4, <1>5, <1>6, <1>7, <1>8, <1>9, <1>10 DEF RunJob

LEMMA LogStep == LogInv /\ LogInv' /\ [Next]_vars => Log!LNext \/ UNCHANGED Log!logVars
<1> SUFFICES ASSUME LogInv, LogInv', [Next]_vars PROVE Log!LNext \/ UNCHANGED Log!logVars
  OBVIOUS
<1>1. ASSUME NEW c \in Callers, Arrive(c) PROVE UNCHANGED Log!logVars
  <2>1. UNCHANGED <<job, disk>> /\ pc[c] = "idle" /\ pc' = [pc EXCEPT ![c] = "checked"] /\ ~busy
    BY <1>1 DEF Arrive, Goto
  <2>2. InJob = {} /\ InJob' = {}
    BY <2>1 DEF LogInv, Serial, OneJobAtATime, Holding, InJob, RunnerPlaces, JobPlaces,
      RunPlaces, TunnelPlaces, SessionPlaces
  <2> QED
    BY <2>1, <2>2 DEF Log!logVars
<1>2. ASSUME NEW c \in Callers, RunJob(c) PROVE Log!LNext \/ UNCHANGED Log!logVars
  BY <1>2, LogStepRunJob
<1>3. CASE External
  BY <1>3, ExternalFrame, LogStutters DEF InJob
<1>4. CASE Crash
  <2>1. InJob' = {} /\ UNCHANGED disk
    BY <1>4 DEF Crash, InJob, JobPlaces, RunPlaces, TunnelPlaces, SessionPlaces
  <2>2. CASE InJob = {}
    BY <2>1, <2>2 DEF Log!logVars
  <2>3. CASE InJob # {}
    <3>1. PICK c \in Callers : pc[c] \in JobPlaces
      BY <2>3 DEF InJob
    <3>2. Active = job[c] /\ job[c] \in Job
      BY <3>1, OfTheCaller DEF LogInv, TypeOK
    <3>3. Log!Leave
      BY <2>1, <3>2, NoJobAssumption DEF Log!Leave, Active
    <3> QED
      BY <3>3 DEF Log!LNext
  <2> QED
    BY <2>2, <2>3
<1> QED
  BY <1>1, <1>2, <1>3, <1>4, StepKinds

\* The runner keeps the job log as JobLog promises: one job at a time is written,
\* in versions it really had, one more name at each step, and finished only when
\* no name is left; no failure and no restart changes any other job's file.
THEOREM TheLogIsKept == Spec => KeepsTheLog
<1>1. Init => LogInv /\ Log!LInit
  <2> SUFFICES ASSUME Init PROVE LogInv /\ Log!LInit
    OBVIOUS
  <2>1. pc = [c \in Callers |-> "idle"] /\ disk = [i \in Ids |-> NoJob]
    BY DEF Init
  <2>2. TypeOK /\ Serial
    BY TypeInit DEF Init, Serial, OneJobAtATime, Holding, Places, RunnerPlaces, JobPlaces,
      RunPlaces, TunnelPlaces, SessionPlaces
  <2>3. InJob = {} /\ \A c \in Callers : pc[c] \notin JobPlaces \cup {"checked", "new"}
    BY <2>1 DEF InJob, JobPlaces, RunPlaces, TunnelPlaces, SessionPlaces
  <2> QED
    BY <2>1, <2>2, <2>3 DEF LogInv, Log!LInit
<1>2. LogInv /\ [Next]_vars => LogInv'
  BY LogInvStep
<1>3. LogInv /\ LogInv' /\ [Next]_vars => [Log!LNext]_(Log!logVars)
  BY LogStep
<1> QED
  BY <1>1, <1>2, <1>3, PTL DEF Spec, KeepsTheLog, Log!LSpec
-----------------------------------------------------------------------------
(* A job that is not finished *)

\* What leaves a file behind that says its job is being run: the process dies,
\* or the last save of a job fails.
LosesTheEnd == Crash \/ \E c \in Callers : Finish(c) /\ Fault

\* The caller is in its job, and has yet to finish it.
Unfinished(i) == disk[i] # NoJob /\ ~disk[i].finished
Serving(i) == \E c \in InJob : pc[c] # "release" /\ job[c].id = i
RunningInv == TypeOK /\ Serial /\ \A i \in Ids : Unfinished(i) => Serving(i)

\* Nobody else is serving a job when a caller holds the runner.
LEMMA ServingAlone ==
  ASSUME RunningInv, NEW c \in Callers, pc[c] \in RunnerPlaces, NEW i \in Ids, Unfinished(i)
  PROVE  c \in InJob /\ pc[c] # "release" /\ job[c].id = i
<1>1. PICK d \in InJob : pc[d] # "release" /\ job[d].id = i
  BY DEF RunningInv, Serving
<1>2. d = c
  BY <1>1 DEF RunningInv, Serial, OneJobAtATime, Holding, InJob, RunnerPlaces
<1> QED
  BY <1>1, <1>2

\* A step that leaves the files and whoever serves a job as they are.
LEMMA RunningStays ==
  ASSUME RunningInv, UNCHANGED disk,
         \A c \in InJob : pc[c] # "release" =>
           c \in InJob' /\ pc'[c] # "release" /\ job'[c].id = job[c].id
  PROVE  \A i \in Ids : Unfinished(i)' => Serving(i)'
<1> SUFFICES ASSUME NEW i \in Ids, Unfinished(i)' PROVE Serving(i)'
  OBVIOUS
<1>1. PICK c \in InJob : pc[c] # "release" /\ job[c].id = i
  BY DEF RunningInv, Unfinished, Serving
<1> QED
  BY <1>1 DEF Serving, InJob

\* A caller that goes on with its job, which it may save.
LEMMA RunningGoesOn ==
  ASSUME RunningInv, NEW c \in Callers, pc[c] \in RunnerPlaces, NEW j,
         pc'[c] \in JobPlaces \ {"release"}, job'[c].id = j.id, j.id \in Ids,
         pc[c] = "new" \/ job[c].id = j.id,
         disk' \in {disk, [disk EXCEPT ![j.id] = j]}
  PROVE  \A i \in Ids : Unfinished(i)' => Serving(i)'
<1> SUFFICES ASSUME NEW i \in Ids, Unfinished(i)' PROVE Serving(i)'
  OBVIOUS
<1>1. i = j.id
  <2>1. CASE Unfinished(i)
    <3>1. c \in InJob /\ job[c].id = i
      BY <2>1, ServingAlone
    <3> QED
      BY <3>1 DEF InJob, JobPlaces, RunPlaces, TunnelPlaces, SessionPlaces
  <2>2. CASE ~Unfinished(i)
    <3>1. disk'[i] # disk[i]
      BY <2>2 DEF Unfinished
    <3> QED
      BY <3>1 DEF RunningInv, TypeOK
  <2> QED
    BY <2>1, <2>2
<1> QED
  BY <1>1 DEF Serving, InJob

LEMMA RunningRunJob ==
  ASSUME RunningInv, NEW c \in Callers, RunJob(c), ~LosesTheEnd
  PROVE  \A i \in Ids : Unfinished(i)' => Serving(i)'
<1> USE DEF SessionPlaces, TunnelPlaces, RunPlaces, JobPlaces, RunnerPlaces
<1>1. /\ pc \in [Callers -> Places] /\ job \in [Callers -> Job \cup {NoJob}] /\ clock \in Ids
      /\ pc[c] \in JobPlaces => job[c] \in Job
      /\ disk \in [Ids -> Job \cup {NoJob}] /\ faults \in Nat
  BY DEF RunningInv, TypeOK
<1>2. CASE TurnAway(c) \/ Enter(c)
  <2>1. UNCHANGED <<job, disk>> /\ \A d \in InJob : pc'[d] = pc[d]
    BY <1>1, <1>2 DEF TurnAway, Enter, Goto, InJob
  <2> QED
    BY <2>1, RunningStays DEF InJob
<1>3. CASE NewJob(c)
  <2>1. /\ pc[c] = "new" /\ pc'[c] = "next" /\ job'[c] = Fresh(clock)
        /\ SaveJob(Fresh(clock)) /\ Fresh(clock).id \in Ids
    BY <1>1, <1>3 DEF NewJob, Goto, Fresh
  <2>2. disk' \in {disk, [disk EXCEPT ![Fresh(clock).id] = Fresh(clock)]}
    BY <2>1, SavedIsWritten
  <2> QED
    BY <2>1, <2>2, RunningGoesOn
<1>4. ASSUME NEW runs, EndTurn(c, runs), pc[c] \in {"next", "found", "record"}
      PROVE  \A i \in Ids : Unfinished(i)' => Serving(i)'
  <2> DEFINE j == [job[c] EXCEPT !.runs = runs]
  <2>1. pc'[c] = "next" /\ job'[c] = j /\ SaveJob(j)
    BY <1>1, <1>4 DEF EndTurn, Goto
  <2>2. j.id = job[c].id /\ j.id \in Ids
    BY <1>1, <1>4 DEF Job
  <2> HIDE DEF j
  <2>3. disk' \in {disk, [disk EXCEPT ![j.id] = j]}
    BY <2>1, SavedIsWritten
  <2> QED
    BY <1>4, <2>1, <2>2, <2>3, RunningGoesOn
<1>5. CASE NotFound(c) \/ Skip(c) \/ Record(c)
  BY <1>4, <1>5 DEF NotFound, Skip, Record
<1>6. CASE Found(c) \/ (RunOne(c) /\ ~Record(c))
  <2>1. /\ UNCHANGED <<job, disk>>
        /\ \E place \in RunPlaces \cup {"found"} : Goto(c, place)
    BY <1>6 DEF Found, RunOne, Start, Build, Connect, Login, BatchRun, Poll, Fetch, Logout,
      Disconnect, AfterSession
  <2> QED
    BY <1>1, <2>1, RunningStays DEF Goto, InJob
<1>7. CASE Finish(c)
  <2> DEFINE j == [job[c] EXCEPT !.finished = TRUE]
  <2>1. pc[c] = "next" /\ SaveJob(j) /\ ~Fault
    BY <1>1, <1>7 DEF Finish, LosesTheEnd
  <2>2. j.id = job[c].id /\ j.finished /\ j.id \in Ids
    BY <1>1, <2>1 DEF Job
  <2> HIDE DEF j
  <2>3. disk' = [disk EXCEPT ![j.id] = j]
    BY <2>1 DEF SaveJob
  <2>4. ASSUME NEW i \in Ids, Unfinished(i)' PROVE FALSE
    <3>1. CASE i = j.id
      BY <1>1, <2>2, <2>3, <2>4, <3>1 DEF Unfinished
    <3>2. CASE i # j.id
      <4>1. Unfinished(i)
        BY <1>1, <2>3, <2>4, <3>2 DEF Unfinished
      <4> QED
        BY <2>1, <2>2, <3>2, <4>1, ServingAlone
    <3> QED
      BY <3>1, <3>2
  <2> QED
    BY <2>4
<1>8. CASE Release(c)
  <2>1. UNCHANGED disk /\ pc[c] = "release"
    BY <1>8 DEF Release
  <2>2. ASSUME NEW i \in Ids, Unfinished(i)' PROVE FALSE
    BY <2>1, <2>2, ServingAlone DEF Unfinished
  <2> QED
    BY <2>2
<1> QED
  BY <1>2, <1>3, <1>5, <1>6, <1>7, <1>8 DEF RunJob

LEMMA RunningStep == RunningInv /\ [Next]_vars /\ [~LosesTheEnd]_vars => RunningInv'
<1> SUFFICES ASSUME RunningInv, [Next]_vars, [~LosesTheEnd]_vars PROVE RunningInv'
  OBVIOUS
<1>1. TypeOK' /\ Serial'
  BY TypeStep, SerialStep DEF RunningInv
<1> SUFFICES \A i \in Ids : Unfinished(i)' => Serving(i)'
  BY <1>1 DEF RunningInv
<1>2. CASE UNCHANGED vars
  BY <1>2, RunningStays DEF vars, callerVars, InJob
<1>3. ASSUME NEW c \in Callers, Arrive(c) PROVE \A i \in Ids : Unfinished(i)' => Serving(i)'
  <2>1. UNCHANGED <<job, disk>> /\ pc[c] = "idle" /\ \A d \in Callers \ {c} : pc'[d] = pc[d]
    BY <1>3 DEF Arrive, Goto, RunningInv, TypeOK
  <2>2. c \notin InJob
    BY <2>1 DEF InJob, JobPlaces, RunPlaces, TunnelPlaces, SessionPlaces
  <2> QED
    BY <2>1, <2>2, RunningStays DEF InJob
<1>4. ASSUME NEW c \in Callers, RunJob(c), ~LosesTheEnd
      PROVE  \A i \in Ids : Unfinished(i)' => Serving(i)'
  BY <1>4, RunningRunJob
<1>5. CASE External
  <2>1. UNCHANGED <<pc, job, disk>> /\ InJob' = InJob
    BY <1>5, ExternalFrame DEF InJob
  <2> QED
    BY <2>1, RunningStays DEF InJob
<1> QED
  BY <1>2, <1>3, <1>4, <1>5, StepKinds DEF LosesTheEnd

\* "Running... This page refreshes automatically" (job_detail.html:8) is true of
\* a job whose file has no FinishedAt unless the process died during it or its
\* last save failed: no other failure, a save in the middle included, and no
\* second POST /run leaves a job that looks as if it were being run.
THEOREM RunningUnlessLost == Spec /\ [][~LosesTheEnd]_vars => []InProgressIsRunning
<1>1. Init => RunningInv
  <2> SUFFICES ASSUME Init PROVE RunningInv
    OBVIOUS
  <2>1. TypeOK /\ Serial
    BY TypeInit DEF Init, Serial, OneJobAtATime, Holding, Places, RunnerPlaces, JobPlaces,
      RunPlaces, TunnelPlaces, SessionPlaces
  <2> QED
    BY <2>1 DEF Init, RunningInv, Unfinished
<1>2. RunningInv => InProgressIsRunning
  BY DEF RunningInv, Unfinished, Serving, InProgressIsRunning
<1> QED
  BY <1>1, <1>2, RunningStep, PTL DEF Spec
=============================================================================
