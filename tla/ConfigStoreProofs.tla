------------------------- MODULE ConfigStoreProofs -------------------------
(***************************************************************************)
(* What the environment handlers do, whatever the environments, the        *)
(* requests and the number of handlers: the types hold however they        *)
(* overlap, and handlers that do not overlap keep names unique, edit the   *)
(* environment they were asked to, and answer for what config.yaml holds.  *)
(* Handlers that overlap do harm only through a delete, a rename, or two   *)
(* creates of one name.                                                    *)
(***************************************************************************)
EXTENDS ConfigStore, EnvSliceProofs

-----------------------------------------------------------------------------
(* Types *)

\* What a handler holds where it is: the pointer and the index can be used.
Holds(h) ==
  /\ pc[h] # "idle" => req[h] \in Request
  /\ pc[h] = "fill" => PointerValid(envs, existing[h])
  /\ pc[h] \in {"add", "append"} => req[h].kind = "create"
  /\ pc[h] \in {"fill", "update", "store"} => req[h].kind = "update"
  /\ pc[h] = "shift" => req[h].kind = "delete"
  /\ pc[h] \in {"add", "append", "update", "store"} => env[h] \in Env
  /\ pc[h] \in {"store", "shift"} => idx[h] # 0

Vectors ==
  /\ pc \in [Handlers -> Places]
  /\ req \in [Handlers -> Request \cup {Nothing}]
  /\ existing \in [Handlers -> [buf : Nat, idx : Nat]]
  /\ env \in [Handlers -> Env \cup {Nothing}]
  /\ idx \in [Handlers -> Nat]
  /\ snap \in [Handlers -> Seq(Env)]
  /\ answer \in [Handlers -> {"none", "refused", "unsaved", "saved"}]

TypeInv ==
  /\ WellFormed(envs, Env) /\ cfgFile \in Seq(Env)
  /\ Vectors
  /\ overlapping \in BOOLEAN /\ arrivals \in Nat /\ faults \in Nat
  /\ \A h \in Handlers : Holds(h)

-----------------------------------------------------------------------------
(* Handlers that do not overlap *)

Alone == \A g, h \in Handlers : pc[g] # "idle" /\ pc[h] # "idle" => g = h

\* The slot an update or a delete is about, and the environment an update puts
\* into it.
Slot(h) == FindByName(envs, req[h].old)
Filled(h) ==
  IF req[h].form.password = Blank
  THEN [req[h].form EXCEPT !.password = Backing(envs)[Slot(h)].password]
  ELSE req[h].form

\* What the handler found is still so.
Edit(h) ==
  /\ pc[h] \in {"add", "append"} => env[h] = req[h].form
  /\ pc[h] = "append" => ~AddFails(envs, env[h])
  /\ pc[h] \in {"fill", "update", "store", "shift"} => Slot(h) # 0
  /\ pc[h] = "fill" => existing[h] = PointerTo(envs, Slot(h))
  /\ pc[h] \in {"update", "store"} => env[h] = Filled(h)
  /\ pc[h] = "store" => ~UpdateFails(envs, req[h].old, env[h])
  /\ pc[h] \in {"store", "shift"} => idx[h] = Slot(h)
  /\ pc[h] \in {"marshal", "rename"} =>
       req[h].kind = "delete" \/ \E i \in 1..envs.len : Backing(envs)[i] = env[h]
  /\ pc[h] = "rename" => snap[h] = Environments(envs)

EditInv ==
  ~overlapping =>
    /\ Alone
    /\ UniqueNames(envs) /\ UniqueNames(Loaded(cfgFile))
    /\ \A h \in Handlers : Edit(h)

StoreInv == TypeInv /\ EditInv

-----------------------------------------------------------------------------
(* The types are kept *)

\* A handler's step leaves what the others hold alone.
Others(h) ==
  \A g \in Handlers \ {h} :
    /\ pc'[g] = pc[g] /\ req'[g] = req[g] /\ existing'[g] = existing[g]
    /\ env'[g] = env[g] /\ idx'[g] = idx[g] /\ snap'[g] = snap[g]

LEMMA OnlyOwn ==
  ASSUME TypeInv, NEW h \in Handlers, Begin(h) \/ Handle(h)
  PROVE  Others(h)
<1>1. CASE Begin(h)
  BY <1>1 DEF Begin, BeginCreate, BeginUpdate, BeginDelete, Begins, Goto, Others, TypeInv, Vectors
<1>2. CASE Fill(h) \/ CheckAdd(h) \/ AppendEnv(h) \/ CheckUpdate(h)
  BY <1>2 DEF Fill, CheckAdd, AppendEnv, CheckUpdate, Answers, Goto, Others, TypeInv, Vectors
<1>3. CASE StoreEnv(h) \/ ShiftEnvs(h) \/ Marshal(h) \/ Rename(h)
  BY <1>3 DEF StoreEnv, ShiftEnvs, Marshal, Rename, Panics, Answers, Goto, Others, TypeInv, Vectors
<1> QED
  BY <1>1, <1>2, <1>3 DEF Handle

\* Pointers stay valid, so what the others hold stays usable.
LEMMA HoldsStays ==
  ASSUME TypeInv, NEW h \in Handlers, Others(h), KeepsPointers(envs, envs'), Holds(h)'
  PROVE  \A g \in Handlers : Holds(g)'
<1> SUFFICES ASSUME NEW g \in Handlers, g # h PROVE Holds(g)'
  OBVIOUS
<1>1. PointerValid(envs, existing[g]) => PointerValid(envs', existing[g])
  BY DEF KeepsPointers
<1>2. Holds(g)
  BY DEF TypeInv
<1> QED
  BY <1>1, <1>2 DEF Others, Holds

LEMMA TypeInit == Init => TypeInv
<1> SUFFICES ASSUME Init PROVE TypeInv
  OBVIOUS
<1>1. InitialEnvs \in Seq(Env) /\ Overlaps \subseteq BOOLEAN
  BY StoreAssumption
<1>2. WellFormed(envs, Env)
  BY <1>1, LoadedWellFormed DEF Init
<1>3. Nothing \in Seq(Env)
  BY DEF Nothing
<1>4. NoPointer \in [buf : Nat, idx : Nat]
  BY DEF NoPointer
<1>5. Vectors
  BY <1>3, <1>4 DEF Init, Vectors, Places
<1> QED
  BY <1>1, <1>2, <1>5 DEF Init, TypeInv, Holds

\* An answer leaves the handler with nothing.
LEMMA TypeAnswers ==
  ASSUME TypeInv, NEW h \in Handlers, NEW what \in {"none", "refused", "unsaved", "saved"},
         Answers(h, what)
  PROVE  Vectors' /\ Holds(h)'
<1>1. Nothing \in Seq(Env)
  BY DEF Nothing
<1>2. NoPointer \in [buf : Nat, idx : Nat]
  BY DEF NoPointer
<1>3. Vectors'
  BY <1>1, <1>2 DEF TypeInv, Vectors, Answers, Goto, Places
<1> QED
  BY <1>3 DEF TypeInv, Vectors, Answers, Goto, Holds

LEMMA TypeBegin ==
  ASSUME TypeInv, NEW h \in Handlers, Begin(h)
  PROVE  Vectors' /\ Holds(h)' /\ UNCHANGED <<envs, cfgFile>>
<1>1. PICK r \in Requests : BeginCreate(h, r) \/ BeginUpdate(h, r) \/ BeginDelete(h, r)
  BY DEF Begin
<1>2. r \in Request /\ Requests \subseteq Request
  BY StoreAssumption
<1>3. Begins(h, r) /\ WellFormed(envs, Env)
  BY <1>1 DEF BeginCreate, BeginUpdate, BeginDelete, TypeInv
<1>4. CASE BeginCreate(h, r)
  <2>1. r.form \in Env
    BY <1>2, <1>4 DEF BeginCreate, Request, Form, Env
  <2> QED
    BY <1>2, <1>4, <2>1 DEF BeginCreate, Begins, Goto, TypeInv, Vectors, Holds, Places
<1>5. CASE BeginUpdate(h, r)
  <2>1. /\ PointerTo(envs, FindByName(envs, r.old)) \in [buf : Nat, idx : Nat]
        /\ PointerValid(envs, PointerTo(envs, FindByName(envs, r.old)))
    BY <1>3, <1>5, FoundPointer DEF BeginUpdate
  <2> QED
    BY <1>2, <1>5, <2>1 DEF BeginUpdate, Begins, Goto, TypeInv, Vectors, Holds, Places
<1>6. CASE BeginDelete(h, r)
  <2>1. FindByName(envs, r.old) \in Nat /\ FindByName(envs, r.old) # 0
    <3>1. envs.len \in Nat
      BY <1>3 DEF WellFormed
    <3> QED
      BY <1>3, <1>6, <3>1, FindByNameReturns DEF BeginDelete
  <2> QED
    BY <1>2, <1>6, <2>1 DEF BeginDelete, Begins, Goto, TypeInv, Vectors, Holds, Places
<1> QED
  BY <1>1, <1>3, <1>4, <1>5, <1>6 DEF Begins

\* What Fill puts together is an environment.
LEMMA FormFilled ==
  ASSUME NEW form \in Form, NEW kept \in Env
  PROVE  (IF form.password = Blank THEN [form EXCEPT !.password = kept.password] ELSE form) \in Env
BY DEF Form, Env

\* The steps that leave the environments alone.
LEMMA TypeReading ==
  ASSUME TypeInv, NEW h \in Handlers, Fill(h) \/ CheckAdd(h) \/ CheckUpdate(h) \/ Marshal(h)
  PROVE  Vectors' /\ Holds(h)' /\ UNCHANGED <<envs, cfgFile>>
<1>1. CASE Fill(h)
  <2>1. req[h] \in Request /\ req[h].kind = "update" /\ PointerValid(envs, existing[h])
    BY <1>1 DEF Fill, TypeInv, Holds
  <2>2. req[h].form \in Form /\ Deref(envs, existing[h]) \in Env
    BY <2>1, DerefType DEF Request, TypeInv
  <2>3. env'[h] \in Env /\ env' = [env EXCEPT ![h] = env'[h]]
    BY <1>1, <2>2, FormFilled DEF Fill, TypeInv, Vectors
  <2> QED
    BY <1>1, <2>1, <2>3 DEF Fill, Goto, TypeInv, Vectors, Holds, Places
<1>2. CASE CheckAdd(h)
  <2>1. CASE Answers(h, "refused")
    BY <1>2, <2>1, TypeAnswers DEF CheckAdd
  <2>2. CASE ~Answers(h, "refused")
    BY <1>2, <2>2 DEF CheckAdd, Goto, TypeInv, Vectors, Holds, Places
  <2> QED
    BY <2>1, <2>2
<1>3. CASE CheckUpdate(h)
  <2>1. CASE Answers(h, "refused")
    BY <1>3, <2>1, TypeAnswers DEF CheckUpdate
  <2>2. CASE ~Answers(h, "refused")
    <3> DEFINE i == FindByName(envs, req[h].old)
    <3>1. i \in Nat /\ i # 0
      <4>1. WellFormed(envs, Env) /\ envs.len \in Nat
        BY DEF TypeInv, WellFormed
      <4> QED
        BY <1>3, <2>2, <4>1, FindByNameReturns DEF CheckUpdate, UpdateFails
    <3>2. idx' = [idx EXCEPT ![h] = i]
      BY <1>3, <2>2 DEF CheckUpdate
    <3> HIDE DEF i
    <3> QED
      BY <1>3, <2>2, <3>1, <3>2 DEF CheckUpdate, Goto, TypeInv, Vectors, Holds, Places
  <2> QED
    BY <2>1, <2>2
<1>4. CASE Marshal(h)
  <2>1. Environments(envs) \in Seq(Env)
    BY EnvironmentsType DEF TypeInv
  <2> QED
    BY <1>4, <2>1 DEF Marshal, Goto, TypeInv, Vectors, Holds, Places
<1> QED
  BY <1>1, <1>2, <1>3, <1>4

\* The steps that write to the environments keep every pointer valid.
LEMMA TypeWriting ==
  ASSUME TypeInv, NEW h \in Handlers, AppendEnv(h) \/ StoreEnv(h) \/ ShiftEnvs(h)
  PROVE  Vectors' /\ Holds(h)' /\ WellFormed(envs', Env) /\ KeepsPointers(envs, envs')
<1>1. WellFormed(envs, Env) /\ envs.len \in Nat
  BY DEF TypeInv, WellFormed
<1>2. CASE AppendEnv(h)
  <2>1. WellFormed(envs', Env) /\ KeepsPointers(envs, envs')
    BY <1>1, <1>2, AppendedWellFormed DEF AppendEnv, TypeInv, Holds
  <2> QED
    BY <1>2, <2>1 DEF AppendEnv, Goto, TypeInv, Vectors, Holds, Places
<1>3. CASE (StoreEnv(h) \/ ShiftEnvs(h)) /\ Panics(h)
  BY <1>1, <1>3, TypeAnswers DEF Panics, KeepsPointers
<1>4. CASE StoreEnv(h) /\ ~Panics(h)
  <2>1. idx[h] \in 1..envs.len /\ env[h] \in Env /\ envs' = Assigned(envs, idx[h], env[h])
    BY <1>1, <1>4 DEF StoreEnv, TypeInv, Vectors, Holds, Assigned
  <2>2. WellFormed(envs', Env) /\ KeepsPointers(envs, envs')
    BY <1>1, <2>1, AssignedWellFormed
  <2> QED
    BY <1>4, <2>2 DEF StoreEnv, Goto, TypeInv, Vectors, Holds, Places
<1>5. CASE ShiftEnvs(h) /\ ~Panics(h)
  <2>1. idx[h] \in 1..envs.len /\ envs' = Removed(envs, idx[h])
    BY <1>1, <1>5 DEF ShiftEnvs, TypeInv, Vectors, Holds
  <2>2. WellFormed(envs', Env) /\ KeepsPointers(envs, envs')
    BY <1>1, <2>1, RemovedWellFormed
  <2> QED
    BY <1>5, <2>2 DEF ShiftEnvs, Goto, TypeInv, Vectors, Holds, Places
<1> QED
  BY <1>2, <1>3, <1>4, <1>5

LEMMA TypeRename ==
  ASSUME TypeInv, NEW h \in Handlers, Rename(h)
  PROVE  Vectors' /\ Holds(h)' /\ envs' = envs /\ cfgFile' \in Seq(Env)
<1>1. \E what \in {"saved", "unsaved"} : Answers(h, what)
  BY DEF Rename, Unsaved
<1>2. Vectors' /\ Holds(h)'
  BY <1>1, TypeAnswers
<1> QED
  BY <1>2 DEF Rename, TypeInv, Vectors

LEMMA TypeRestart ==
  ASSUME TypeInv, Restart
  PROVE  TypeInv'
<1>1. WellFormed(envs', Env)
  BY LoadedWellFormed DEF Restart, TypeInv
<1>2. Nothing \in Seq(Env)
  BY DEF Nothing
<1>3. NoPointer \in [buf : Nat, idx : Nat]
  BY DEF NoPointer
<1>4. Vectors'
  BY <1>2, <1>3 DEF Restart, Vectors, Places
<1>5. \A h \in Handlers : Holds(h)'
  BY DEF Restart, Holds
<1>6. faults' \in Nat
  BY DEF Restart, Fault, TypeInv
<1> QED
  BY <1>1, <1>4, <1>5, <1>6 DEF Restart, TypeInv

LEMMA TypeStep == TypeInv /\ [Next]_vars => TypeInv'
<1> SUFFICES ASSUME TypeInv, [Next]_vars PROVE TypeInv'
  OBVIOUS
<1>1. ASSUME NEW h \in Handlers, Begin(h) \/ Handle(h) PROVE TypeInv'
  <2>1. /\ Vectors' /\ Holds(h)' /\ cfgFile' \in Seq(Env)
        /\ WellFormed(envs', Env) /\ KeepsPointers(envs, envs')
    <3>1. CASE Begin(h)
      BY <3>1, TypeBegin DEF TypeInv, KeepsPointers
    <3>2. CASE Fill(h) \/ CheckAdd(h) \/ CheckUpdate(h) \/ Marshal(h)
      BY <3>2, TypeReading DEF TypeInv, KeepsPointers
    <3>3. CASE AppendEnv(h) \/ StoreEnv(h) \/ ShiftEnvs(h)
      <4>1. cfgFile' = cfgFile
        BY <3>3 DEF AppendEnv, StoreEnv, ShiftEnvs, Panics
      <4> QED
        BY <3>3, <4>1, TypeWriting DEF TypeInv
    <3>4. CASE Rename(h)
      BY <3>4, TypeRename DEF TypeInv, KeepsPointers
    <3> QED
      BY <1>1, <3>1, <3>2, <3>3, <3>4 DEF Handle
  <2>2. \A g \in Handlers : Holds(g)'
    BY <1>1, <2>1, OnlyOwn, HoldsStays
  <2>3. overlapping' = overlapping /\ arrivals' \in Nat /\ faults' \in Nat
    <3>1. CASE Begin(h)
      BY <3>1 DEF Begin, BeginCreate, BeginUpdate, BeginDelete, Begins, TypeInv
    <3>2. CASE Handle(h)
      BY <3>2 DEF Handle, Fill, CheckAdd, AppendEnv, CheckUpdate, StoreEnv, ShiftEnvs, Marshal,
                  Rename, Fault, NoFault, TypeInv
    <3> QED
      BY <1>1, <3>1, <3>2
  <2> QED
    BY <2>1, <2>2, <2>3 DEF TypeInv
<1>2. CASE Restart
  BY <1>2, TypeRestart
<1>3. CASE UNCHANGED vars
  BY <1>3 DEF vars, handlerVars, TypeInv, Vectors, Holds
<1> QED
  BY <1>1, <1>2, <1>3 DEF Next, Waits

\* Every variable keeps its type, and no handler reads through a pointer that
\* leads nowhere, however the environment handlers overlap: Add, Update and
\* Remove never shorten an array another handler points into.  The slice they do
\* shorten: an index found before may be past its end.
THEOREM TypeCorrect == Spec => []TypeOK
<1>1. TypeInv => TypeOK
  BY DEF TypeInv, Vectors, Holds, TypeOK
<1> QED
  BY <1>1, TypeInit, TypeStep, PTL DEF Spec

-----------------------------------------------------------------------------
(* Handlers that do not overlap edit what they were asked to *)

\* While one of them is at work the others are idle.
LEMMA NobodyElse ==
  ASSUME StoreInv, ~overlapping, NEW h \in Handlers, Begin(h) \/ Handle(h)
  PROVE  /\ \A g \in Handlers \ {h} : pc[g] = "idle"
         /\ overlapping' = overlapping
<1>1. CASE Begin(h)
  BY <1>1 DEF Begin, BeginCreate, BeginUpdate, BeginDelete, Begins
<1>2. CASE Handle(h)
  <2>1. pc[h] # "idle" /\ overlapping' = overlapping
    BY <1>2 DEF Handle, Fill, CheckAdd, AppendEnv, CheckUpdate, StoreEnv, ShiftEnvs, Marshal, Rename
  <2> QED
    BY <2>1 DEF StoreInv, EditInv, Alone
<1> QED
  BY <1>1, <1>2

\* So a step is right as soon as its handler's edit and the names are.
LEMMA EditOf ==
  ASSUME StoreInv, ~overlapping, NEW h \in Handlers, Begin(h) \/ Handle(h),
         Edit(h)', UniqueNames(envs'), UniqueNames(Loaded(cfgFile'))
  PROVE  EditInv'
<1>1. \A g \in Handlers \ {h} : pc'[g] = "idle"
  BY NobodyElse, OnlyOwn DEF StoreInv, Others
<1>2. \A g \in Handlers \ {h} : Edit(g)'
  BY <1>1 DEF Edit
<1>3. Alone'
  BY <1>1 DEF Alone
<1> QED
  BY <1>2, <1>3 DEF EditInv

LEMMA EditBegin ==
  ASSUME StoreInv, NEW h \in Handlers, Begin(h)
  PROVE  Edit(h)'
<1>1. PICK r \in Requests : BeginCreate(h, r) \/ BeginUpdate(h, r) \/ BeginDelete(h, r)
  BY DEF Begin
<1>2. Begins(h, r) /\ req'[h] = r /\ envs' = envs
  BY <1>1 DEF BeginCreate, BeginUpdate, BeginDelete, Begins, StoreInv, TypeInv, Vectors
<1>3. CASE BeginCreate(h, r)
  BY <1>2, <1>3 DEF BeginCreate, Goto, StoreInv, TypeInv, Vectors, Edit
<1>4. CASE BeginUpdate(h, r)
  BY <1>2, <1>4 DEF BeginUpdate, Goto, StoreInv, TypeInv, Vectors, Edit, Slot
<1>5. CASE BeginDelete(h, r)
  BY <1>2, <1>5 DEF BeginDelete, Goto, StoreInv, TypeInv, Vectors, Edit, Slot
<1> QED
  BY <1>1, <1>3, <1>4, <1>5

LEMMA EditReading ==
  ASSUME StoreInv, ~overlapping, NEW h \in Handlers,
         Fill(h) \/ CheckAdd(h) \/ CheckUpdate(h) \/ Marshal(h)
  PROVE  Edit(h)'
<1>1. Edit(h)
  BY DEF StoreInv, EditInv
<1>2. CASE Fill(h)
  <2>1. existing[h] = PointerTo(envs, Slot(h)) /\ Slot(h) # 0
    BY <1>1, <1>2 DEF Fill, Edit
  <2>2. Deref(envs, existing[h]) = Backing(envs)[Slot(h)]
    BY <2>1 DEF Deref, PointerTo, Backing
  <2>3. env'[h] = Filled(h)
    BY <1>2, <2>2 DEF Fill, Filled, StoreInv, TypeInv, Vectors
  <2>4. Slot(h)' = Slot(h) /\ Filled(h)' = Filled(h)
    BY <1>2 DEF Fill, Slot, Filled
  <2>5. pc'[h] = "update"
    BY <1>2 DEF Fill, Goto, StoreInv, TypeInv, Vectors
  <2> QED
    BY <2>1, <2>3, <2>4, <2>5 DEF Edit
<1>3. CASE (CheckAdd(h) \/ CheckUpdate(h)) /\ Answers(h, "refused")
  BY <1>3 DEF Answers, Goto, StoreInv, TypeInv, Vectors, Edit
<1>4. CASE CheckAdd(h) /\ ~Answers(h, "refused")
  BY <1>1, <1>4 DEF CheckAdd, Goto, StoreInv, TypeInv, Vectors, Edit
<1>5. CASE CheckUpdate(h) /\ ~Answers(h, "refused")
  <2>1. Slot(h)' = Slot(h) /\ Filled(h)' = Filled(h) /\ pc'[h] = "store" /\ idx'[h] = Slot(h)
    BY <1>5 DEF CheckUpdate, Slot, Filled, Goto, StoreInv, TypeInv, Vectors
  <2> QED
    BY <1>1, <1>5, <2>1 DEF CheckUpdate, Edit
<1>6. CASE Marshal(h)
  BY <1>1, <1>6 DEF Marshal, Goto, StoreInv, TypeInv, Vectors, Edit
<1> QED
  BY <1>2, <1>3, <1>4, <1>5, <1>6

\* The steps that write find the slot they were asked for, so they are the
\* operations of EnvSlice and keep the names unique.
LEMMA Writes ==
  ASSUME StoreInv, ~overlapping, NEW h \in Handlers
  PROVE  /\ AppendEnv(h) => ~AddFails(envs, env[h]) /\ envs' = Add(envs, env[h]) /\ env[h] \in Env
         /\ StoreEnv(h) =>
              /\ Slot(h) \in 1..envs.len /\ env[h] \in Env /\ env[h] = Filled(h)
              /\ ~UpdateFails(envs, req[h].old, env[h])
              /\ envs' = Update(envs, req[h].old, env[h])
              /\ envs' = Assigned(envs, Slot(h), env[h])
              /\ pc' = [pc EXCEPT ![h] = "marshal"] /\ UNCHANGED <<req, env, cfgFile>>
         /\ ShiftEnvs(h) =>
              /\ Slot(h) \in 1..envs.len /\ envs' = Removed(envs, Slot(h))
              /\ pc' = [pc EXCEPT ![h] = "marshal"] /\ UNCHANGED <<req, env, cfgFile>>
<1>1. WellFormed(envs, Env) /\ envs.len \in Nat /\ Edit(h) /\ Holds(h)
  BY DEF StoreInv, TypeInv, EditInv, WellFormed
<1>2. Slot(h) # 0 => Slot(h) \in 1..envs.len
  BY <1>1, FindByNameReturns DEF Slot
<1>3. ASSUME AppendEnv(h)
      PROVE  ~AddFails(envs, env[h]) /\ envs' = Add(envs, env[h]) /\ env[h] \in Env
  BY <1>1, <1>3 DEF AppendEnv, Edit, Holds, Add
<1>4. ASSUME StoreEnv(h)
      PROVE  /\ Slot(h) \in 1..envs.len /\ env[h] \in Env /\ env[h] = Filled(h)
             /\ ~UpdateFails(envs, req[h].old, env[h])
             /\ envs' = Update(envs, req[h].old, env[h])
             /\ envs' = Assigned(envs, Slot(h), env[h])
             /\ pc' = [pc EXCEPT ![h] = "marshal"] /\ UNCHANGED <<req, env, cfgFile>>
  <2>1. /\ Slot(h) \in 1..envs.len /\ env[h] \in Env /\ env[h] = Filled(h) /\ idx[h] = Slot(h)
        /\ ~UpdateFails(envs, req[h].old, env[h])
    BY <1>1, <1>2, <1>4 DEF StoreEnv, Edit, Holds
  <2>2. /\ envs' = Assigned(envs, Slot(h), env[h])
        /\ pc' = [pc EXCEPT ![h] = "marshal"] /\ UNCHANGED <<req, env, cfgFile>>
    BY <1>1, <1>4, <2>1 DEF StoreEnv, Assigned, Goto
  <2>3. Update(envs, req[h].old, env[h]) = Assigned(envs, Slot(h), env[h])
    BY <2>1 DEF Update, Assigned, Slot
  <2> QED
    BY <2>1, <2>2, <2>3
<1>5. ASSUME ShiftEnvs(h)
      PROVE  /\ Slot(h) \in 1..envs.len /\ envs' = Removed(envs, Slot(h))
             /\ pc' = [pc EXCEPT ![h] = "marshal"] /\ UNCHANGED <<req, env, cfgFile>>
  <2>1. Slot(h) \in 1..envs.len /\ idx[h] = Slot(h)
    BY <1>1, <1>2, <1>5 DEF ShiftEnvs, Edit
  <2> QED
    BY <1>1, <1>5, <2>1 DEF ShiftEnvs, Goto
<1> QED
  BY <1>3, <1>4, <1>5

LEMMA EditWriting ==
  ASSUME StoreInv, ~overlapping, NEW h \in Handlers, AppendEnv(h) \/ StoreEnv(h) \/ ShiftEnvs(h)
  PROVE  Edit(h)' /\ UniqueNames(envs') /\ cfgFile' = cfgFile
<1>1. WellFormed(envs, Env) /\ UniqueNames(envs) /\ envs.len \in Nat
  BY DEF StoreInv, TypeInv, EditInv, WellFormed
<1>2. CASE AppendEnv(h)
  <2>1. ~AddFails(envs, env[h]) /\ envs' = Add(envs, env[h]) /\ env[h] \in Env
    BY <1>2, Writes
  <2>2. envs'.len = envs.len + 1 /\ Backing(envs')[envs.len + 1] = env[h]
    BY <1>1, <2>1, AppendedShows DEF Add
  <2>3. pc'[h] = "marshal" /\ env' = env /\ cfgFile' = cfgFile
    BY <1>2 DEF AppendEnv, Goto, StoreInv, TypeInv, Vectors
  <2>4. Edit(h)'
    <3>1. \E i \in 1..envs'.len : Backing(envs')[i] = env'[h]
      BY <1>1, <2>2, <2>3
    <3> QED
      BY <2>3, <3>1 DEF Edit
  <2> QED
    BY <1>1, <2>1, <2>3, <2>4, AddUnique
<1>3. CASE StoreEnv(h)
  <2>1. /\ Slot(h) \in 1..envs.len /\ env[h] \in Env
        /\ envs' = Update(envs, req[h].old, env[h]) /\ envs' = Assigned(envs, Slot(h), env[h])
        /\ pc' = [pc EXCEPT ![h] = "marshal"] /\ UNCHANGED <<env, cfgFile>>
    BY <1>3, Writes
  <2>2. envs'.len = envs.len /\ Backing(envs')[Slot(h)] = env[h]
    BY <1>1, <2>1, AssignedShows
  <2>3. Edit(h)'
    <3>1. \E i \in 1..envs'.len : Backing(envs')[i] = env'[h]
      BY <2>1, <2>2
    <3>2. pc'[h] = "marshal"
      BY <2>1 DEF StoreInv, TypeInv, Vectors
    <3> QED
      BY <3>1, <3>2 DEF Edit
  <2> QED
    BY <1>1, <2>1, <2>3, UpdateUnique
<1>4. CASE ShiftEnvs(h)
  <2>1. /\ Slot(h) \in 1..envs.len /\ envs' = Removed(envs, Slot(h))
        /\ pc' = [pc EXCEPT ![h] = "marshal"] /\ UNCHANGED <<req, cfgFile>>
    BY <1>4, Writes
  <2>2. req[h].kind = "delete"
    BY <1>4 DEF ShiftEnvs, StoreInv, TypeInv, Holds
  <2>3. Edit(h)'
    BY <2>1, <2>2 DEF Edit, StoreInv, TypeInv, Vectors
  <2> QED
    BY <1>1, <2>1, <2>3, RemovedUnique
<1> QED
  BY <1>2, <1>3, <1>4

LEMMA EditRename ==
  ASSUME StoreInv, ~overlapping, NEW h \in Handlers, Rename(h)
  PROVE  Edit(h)' /\ UniqueNames(envs') /\ UniqueNames(Loaded(cfgFile'))
<1>1. /\ WellFormed(envs, Env) /\ UniqueNames(envs) /\ UniqueNames(Loaded(cfgFile))
      /\ snap[h] = Environments(envs)
  BY DEF Rename, StoreInv, TypeInv, EditInv, Edit
<1>2. UniqueNames(Loaded(Environments(envs)))
  BY <1>1, SavedUnique
<1>3. cfgFile' \in {cfgFile, snap[h]} /\ envs' = envs /\ pc'[h] = "idle"
  BY DEF Rename, Answers, Goto, StoreInv, TypeInv, Vectors
<1> QED
  BY <1>1, <1>2, <1>3 DEF Edit

LEMMA EditStep == StoreInv /\ [Next]_vars => EditInv'
<1> SUFFICES ASSUME StoreInv, [Next]_vars, ~overlapping' PROVE EditInv'
  BY DEF EditInv
<1>1. CASE \E h \in Handlers : Begin(h) \/ Handle(h)
  <2>1. PICK h \in Handlers : Begin(h) \/ Handle(h)
    BY <1>1
  <2>2. ~overlapping
    <3>1. overlapping' = overlapping
      BY <2>1 DEF Begin, BeginCreate, BeginUpdate, BeginDelete, Begins, Handle, Fill, CheckAdd,
                  AppendEnv, CheckUpdate, StoreEnv, ShiftEnvs, Marshal, Rename
    <3> QED
      BY <3>1
  <2>3. UniqueNames(envs) /\ UniqueNames(Loaded(cfgFile))
    BY <2>2 DEF StoreInv, EditInv
  <2>4. Edit(h)' /\ UniqueNames(envs') /\ UniqueNames(Loaded(cfgFile'))
    <3>1. CASE Begin(h)
      BY <2>3, <3>1, EditBegin, TypeBegin DEF StoreInv
    <3>2. CASE Fill(h) \/ CheckAdd(h) \/ CheckUpdate(h) \/ Marshal(h)
      BY <2>2, <2>3, <3>2, EditReading, TypeReading DEF StoreInv
    <3>3. CASE AppendEnv(h) \/ StoreEnv(h) \/ ShiftEnvs(h)
      BY <2>2, <2>3, <3>3, EditWriting
    <3>4. CASE Rename(h)
      BY <2>2, <3>4, EditRename
    <3> QED
      BY <2>1, <3>1, <3>2, <3>3, <3>4 DEF Handle
  <2> QED
    BY <2>1, <2>2, <2>4, EditOf
<1>2. CASE Restart
  BY <1>2 DEF Restart, StoreInv, EditInv, Alone, Edit
<1>3. CASE UNCHANGED vars
  BY <1>3 DEF vars, handlerVars, StoreInv, EditInv, Alone, Edit, Slot, Filled
<1> QED
  BY <1>1, <1>2, <1>3 DEF Next, Waits

LEMMA EditInit == Init => EditInv
<1> SUFFICES ASSUME Init PROVE EditInv
  OBVIOUS
<1>1. UniqueNames(Loaded(InitialEnvs))
  BY StoreAssumption
<1> QED
  BY <1>1 DEF Init, EditInv, Alone, Edit

LEMMA StoreInvariant == Spec => []StoreInv
<1>1. Init => StoreInv
  BY TypeInit, EditInit DEF StoreInv
<1>2. StoreInv /\ [Next]_vars => StoreInv'
  BY TypeStep, EditStep DEF StoreInv
<1> QED
  BY <1>1, <1>2, PTL DEF Spec

\* In memory and in config.yaml an environment's name stays its own, through
\* renames, failed saves and restarts, as long as no two handlers overlap.
THEOREM NamesAreUnique == Spec => []NamesStayUnique
<1>1. StoreInv => NamesStayUnique
  BY DEF StoreInv, EditInv, NamesStayUnique
<1> QED
  BY <1>1, StoreInvariant, PTL

\* updateEnvironment overwrites the slot of the name in the request and no
\* other, and a password left blank is the one that slot had.
THEOREM UpdatesKeepPasswords == Spec => UpdateKeepsPassword
<1>1. ASSUME StoreInv, [Next]_vars, NEW h \in Handlers,
             ~overlapping, pc[h] = "store", pc'[h] = "marshal"
      PROVE  ReplacesItsOwn(h)
  <2>1. WellFormed(envs, Env) /\ Edit(h) /\ Holds(h)
    BY <1>1 DEF StoreInv, TypeInv, EditInv
  <2>2. Slot(h) # 0 /\ idx[h] = Slot(h) /\ env[h] = Filled(h) /\ req[h].form \in Form
    BY <1>1, <2>1 DEF Edit, Holds, Request
  <2>3. Backing(envs)[Slot(h)].name = req[h].old
    BY <2>1, <2>2, FindByNameReturns DEF Slot
  <2> QED
    BY <2>2, <2>3 DEF ReplacesItsOwn, Filled, Form
<1>2. StoreInv /\ [Next]_vars =>
        [\A h \in Handlers :
           ~overlapping /\ pc[h] = "store" /\ pc'[h] = "marshal" => ReplacesItsOwn(h)]_vars
  BY <1>1
<1> QED
  BY <1>2, StoreInvariant, PTL DEF Spec, UpdateKeepsPassword

\* A redirect that says an environment was created or updated comes from a
\* Rename that has put into config.yaml what is in memory, that edit included.
THEOREM AnswersAreSaved == Spec => AnswerMeansSaved
<1> DEFINE Saved(h) == /\ ~overlapping
                       /\ pc[h] = "rename" /\ req[h].kind # "delete" /\ answer'[h] = "saved"
                       => /\ cfgFile' = Environments(envs')
                          /\ \E i \in DOMAIN cfgFile' : cfgFile'[i] = env[h]
<1>1. ASSUME StoreInv, Next, vars' # vars, NEW h \in Handlers PROVE Saved(h)
  <2> SUFFICES ASSUME ~overlapping, pc[h] = "rename", req[h].kind # "delete", answer'[h] = "saved"
               PROVE  /\ cfgFile' = Environments(envs')
                      /\ \E i \in DOMAIN cfgFile' : cfgFile'[i] = env[h]
    OBVIOUS
  <2>1. WellFormed(envs, Env) /\ Edit(h) /\ h \in DOMAIN answer
    BY <1>1 DEF StoreInv, TypeInv, EditInv, Vectors
  <2>2. ASSUME NEW g \in Handlers, Begin(g) \/ Handle(g) PROVE g = h /\ Rename(h)
    <3>1. g = h
      BY <1>1, <2>2, NobodyElse
    <3>2. ~Begin(h)
      BY DEF Begin, BeginCreate, BeginUpdate, BeginDelete, Begins
    <3> QED
      BY <2>2, <3>1, <3>2 DEF Handle, Fill, CheckAdd, AppendEnv, CheckUpdate, StoreEnv, ShiftEnvs,
                             Marshal
  <2>3. CASE Rename(h)
    <3>1. Unsaved(h) = "unsaved"
      BY DEF Unsaved
    <3>2. cfgFile' = snap[h] /\ envs' = envs
      BY <2>1, <2>3, <3>1 DEF Rename, Answers
    <3>3. snap[h] = Environments(envs) /\ \E i \in 1..envs.len : Backing(envs)[i] = env[h]
      BY <2>1 DEF Edit
    <3> QED
      BY <2>1, <3>2, <3>3, EnvironmentsShow
  <2>4. CASE Restart
    BY <2>4 DEF Restart
  <2> QED
    BY <1>1, <2>2, <2>3, <2>4 DEF Next, Waits
<1> HIDE DEF Saved
<1>2. StoreInv /\ [Next]_vars => [\A h \in Handlers : Saved(h)]_vars
  BY <1>1
<1> QED
  BY <1>2, StoreInvariant, PTL DEF Spec, AnswerMeansSaved, Saved

-----------------------------------------------------------------------------
(* The slice as a store: from names to passwords *)

StoreOf(s) ==
  [n \in {s[i].name : i \in DOMAIN s} |-> s[CHOOSE i \in DOMAIN s : s[i].name = n].password]

StoreIn(m) == StoreOf(Environments(m))

LEMMA StoreSays ==
  ASSUME NEW m, WellFormed(m, Env), UniqueNames(m)
  PROVE  /\ DOMAIN StoreIn(m) = {Backing(m)[i].name : i \in 1..m.len}
         /\ \A i \in 1..m.len : StoreIn(m)[Backing(m)[i].name] = Backing(m)[i].password
         /\ StoreIn(m) \in Store!Stores
<1> DEFINE s == Environments(m)
           D == {s[i].name : i \in DOMAIN s}
           f == StoreOf(s)
<1>1. DOMAIN s = 1..m.len /\ \A i \in 1..m.len : s[i] = Backing(m)[i] /\ s[i] \in Env
  <2>1. s \in Seq(Env)
    BY EnvironmentsType
  <2> QED
    BY <2>1, EnvironmentsShow
<1> HIDE DEF s
<1>2. DOMAIN f = D
  BY DEF StoreOf
<1>3. ASSUME NEW i \in 1..m.len PROVE f[s[i].name] = s[i].password
  <2> DEFINE j == CHOOSE j \in DOMAIN s : s[j].name = s[i].name
  <2>1. j \in DOMAIN s /\ s[j].name = s[i].name
    BY <1>1
  <2>2. f[s[i].name] = s[j].password
    BY <1>1 DEF StoreOf
  <2> HIDE DEF j
  <2>3. j = i
    BY <1>1, <2>1 DEF UniqueNames
  <2> QED
    BY <2>2, <2>3
<1>4. f = [n \in D |-> f[n]]
  BY DEF StoreOf
<1>5. D \subseteq Names /\ \A n \in D : f[n] \in Passwords
  BY <1>1, <1>3 DEF Env
<1> HIDE DEF f
<1>6. f \in [D -> Passwords]
  BY <1>4, <1>5
<1>7. f \in Store!Stores
  BY <1>5, <1>6 DEF Store!Stores
<1>8. D = {Backing(m)[i].name : i \in 1..m.len}
  BY <1>1
<1> QED
  BY <1>1, <1>2, <1>3, <1>7, <1>8 DEF StoreIn, f, s

\* The store of a memory is any function with its names and its passwords.
LEMMA StoreIs ==
  ASSUME NEW m, WellFormed(m, Env), UniqueNames(m), NEW g,
         g = [x \in DOMAIN g |-> g[x]],
         \A i \in 1..m.len : Backing(m)[i].name \in DOMAIN g /\ g[Backing(m)[i].name] = Backing(m)[i].password,
         \A x \in DOMAIN g : \E i \in 1..m.len : Backing(m)[i].name = x
  PROVE  StoreIn(m) = g
<1> DEFINE f == StoreIn(m)
<1>1. /\ DOMAIN f = {Backing(m)[i].name : i \in 1..m.len}
      /\ \A i \in 1..m.len : f[Backing(m)[i].name] = Backing(m)[i].password
  BY StoreSays
<1>2. f = [x \in DOMAIN f |-> f[x]]
  BY DEF StoreIn, StoreOf
<1> HIDE DEF f
<1> DEFINE D == {Backing(m)[i].name : i \in 1..m.len}
<1>3. DOMAIN f = DOMAIN g
  <2>1. ASSUME NEW x \in D PROVE x \in DOMAIN g
    <3>1. PICK i \in 1..m.len : Backing(m)[i].name = x
      OBVIOUS
    <3> QED
      BY <3>1
  <2>2. ASSUME NEW x \in DOMAIN g PROVE x \in D
    <3>1. PICK i \in 1..m.len : Backing(m)[i].name = x
      OBVIOUS
    <3> QED
      BY <3>1
  <2> HIDE DEF D
  <2>3. D = DOMAIN g
    BY <2>1, <2>2
  <2> QED
    BY <1>1, <2>3 DEF D
<1>4. ASSUME NEW x \in DOMAIN g PROVE f[x] = g[x]
  <2>1. PICK i \in 1..m.len : Backing(m)[i].name = x
    OBVIOUS
  <2> QED
    BY <1>1, <2>1
<1>5. f = g
  BY <1>2, <1>3, <1>4
<1> QED
  BY <1>5 DEF f

\* Add, Update and Remove on the slice are the edits of the store: what store f
\* has for the names in S is kept, and one more name is put with it.
Without(f, name) == DOMAIN f \ {name}
Put(f, S, name, password) == [x \in S \cup {name} |-> IF x = name THEN password ELSE f[x]]

LEMMA AddedStore ==
  ASSUME NEW m, WellFormed(m, Env), UniqueNames(m), NEW e \in Env, ~AddFails(m, e)
  PROVE  /\ e.name \notin DOMAIN StoreIn(m)
         /\ StoreIn(Add(m, e)) = Put(StoreIn(m), DOMAIN StoreIn(m), e.name, e.password)
<1> DEFINE f == StoreIn(m)
           n == Add(m, e)
           g == Put(f, DOMAIN f, e.name, e.password)
<1>1. /\ DOMAIN f = {Backing(m)[i].name : i \in 1..m.len}
      /\ \A i \in 1..m.len : f[Backing(m)[i].name] = Backing(m)[i].password
  BY StoreSays
<1>2. \A i \in 1..m.len : Backing(m)[i].name # e.name
  BY NotFoundMeansAbsent DEF AddFails
<1>3. /\ n.len = m.len + 1 /\ Backing(n)[m.len + 1] = e
      /\ \A j \in 1..m.len : Backing(n)[j] = Backing(m)[j]
  BY AppendedShows DEF Add
<1>4. WellFormed(n, Env) /\ UniqueNames(n) /\ m.len \in Nat
  BY AddWellFormed, AddUnique DEF WellFormed
<1> HIDE DEF f, n
<1>5. /\ DOMAIN g = DOMAIN f \cup {e.name} /\ g = [x \in DOMAIN g |-> g[x]]
      /\ \A x \in DOMAIN g : g[x] = IF x = e.name THEN e.password ELSE f[x]
  BY DEF Put
<1> HIDE DEF g
<1>6. \A i \in 1..n.len : i \in 1..m.len \/ i = m.len + 1
  BY <1>3, <1>4
<1>7. \A i \in 1..n.len : Backing(n)[i].name \in DOMAIN g /\ g[Backing(n)[i].name] = Backing(n)[i].password
  BY <1>1, <1>2, <1>3, <1>5, <1>6
<1>8. \A x \in DOMAIN g : \E i \in 1..n.len : Backing(n)[i].name = x
  <2>1. 1..m.len \subseteq 1..n.len /\ m.len + 1 \in 1..n.len
    BY <1>3, <1>4
  <2> QED
    BY <1>1, <1>3, <1>5, <2>1
<1>9. StoreIn(n) = g
  BY <1>4, <1>5, <1>7, <1>8, StoreIs
<1> QED
  BY <1>1, <1>2, <1>9 DEF f, g, n

LEMMA UpdatedStore ==
  ASSUME NEW m, WellFormed(m, Env), UniqueNames(m), NEW old, NEW e \in Env, ~UpdateFails(m, old, e)
  PROVE  /\ old \in DOMAIN StoreIn(m)
         /\ StoreIn(m)[old] = Backing(m)[FindByName(m, old)].password
         /\ e.name \notin Without(StoreIn(m), old)
         /\ StoreIn(Update(m, old, e)) = Put(StoreIn(m), Without(StoreIn(m), old), e.name, e.password)
<1> DEFINE f == StoreIn(m)
           k == FindByName(m, old)
           n == Update(m, old, e)
           S == Without(f, old)
           g == Put(f, S, e.name, e.password)
<1>1. /\ DOMAIN f = {Backing(m)[i].name : i \in 1..m.len}
      /\ \A i \in 1..m.len : f[Backing(m)[i].name] = Backing(m)[i].password
  BY StoreSays
<1>2. k \in 1..m.len /\ Backing(m)[k].name = old
  BY FindByNameReturns DEF UpdateFails
<1>3. e.name = old \/ \A i \in 1..m.len : Backing(m)[i].name # e.name
  BY NotFoundMeansAbsent DEF UpdateFails
<1>4. n = Assigned(m, k, e)
  BY DEF Update, Assigned
<1>5. WellFormed(n, Env) /\ UniqueNames(n)
  BY UpdateWellFormed, UpdateUnique
<1> HIDE DEF k
<1>6. n.len = m.len /\ \A i \in 1..m.len : Backing(n)[i] = IF i = k THEN e ELSE Backing(m)[i]
  BY <1>2, <1>4, AssignedShows
<1>7. \A i \in 1..m.len : Backing(m)[i].name = old => i = k
  BY <1>2 DEF UniqueNames
<1> HIDE DEF f, n
<1> USE DEF Without
<1>8. /\ DOMAIN g = S \cup {e.name} /\ g = [x \in DOMAIN g |-> g[x]]
      /\ \A x \in DOMAIN g : g[x] = IF x = e.name THEN e.password ELSE f[x]
  BY DEF Put
<1> HIDE DEF g
<1>9. e.name \notin S
  BY <1>1, <1>3
<1>10. \A i \in 1..n.len : Backing(n)[i].name \in DOMAIN g /\ g[Backing(n)[i].name] = Backing(n)[i].password
  <2> SUFFICES ASSUME NEW i \in 1..m.len
               PROVE  /\ Backing(n)[i].name \in S \cup {e.name}
                      /\ g[Backing(n)[i].name] = Backing(n)[i].password
    BY <1>6, <1>8
  <2>1. CASE i = k
    BY <1>6, <1>8, <2>1
  <2>2. CASE i # k
    <3>1. Backing(n)[i] = Backing(m)[i] /\ Backing(m)[i].name \in S
      BY <1>1, <1>6, <1>7, <2>2
    <3> QED
      BY <1>1, <1>8, <1>9, <3>1
  <2> QED
    BY <2>1, <2>2
<1>11. \A x \in DOMAIN g : \E i \in 1..n.len : Backing(n)[i].name = x
  <2> SUFFICES ASSUME NEW x \in S \cup {e.name} PROVE \E i \in 1..m.len : Backing(n)[i].name = x
    BY <1>6, <1>8
  <2>1. CASE x = e.name
    BY <1>2, <1>6, <2>1
  <2>2. CASE x \in S
    BY <1>1, <1>2, <1>6, <2>2
  <2> QED
    BY <2>1, <2>2
<1>12. StoreIn(n) = g
  BY <1>5, <1>8, <1>10, <1>11, StoreIs
<1>13. old \in DOMAIN f /\ f[old] = Backing(m)[k].password
  BY <1>1, <1>2
<1> QED
  BY <1>9, <1>12, <1>13 DEF f, g, n, k

LEMMA RemovedStore ==
  ASSUME NEW m, WellFormed(m, Env), UniqueNames(m), NEW k \in 1..m.len
  PROVE  LET f == StoreIn(m) IN
         StoreIn(Removed(m, k)) = [x \in DOMAIN f \ {Backing(m)[k].name} |-> f[x]]
<1> DEFINE f == StoreIn(m)
           n == Removed(m, k)
           old == Backing(m)[k].name
           g == [x \in DOMAIN f \ {old} |-> f[x]]
<1>1. /\ DOMAIN f = {Backing(m)[i].name : i \in 1..m.len}
      /\ \A i \in 1..m.len : f[Backing(m)[i].name] = Backing(m)[i].password
  BY StoreSays
<1>2. WellFormed(n, Env) /\ UniqueNames(n) /\ m.len \in Nat
  BY RemovedWellFormed, RemovedUnique DEF WellFormed
<1>3. /\ n.len = m.len - 1
      /\ \A j \in 1..(m.len - 1) : Backing(n)[j] = IF k <= j THEN Backing(m)[j + 1] ELSE Backing(m)[j]
  BY RemovedShows
<1>4. \A i \in 1..m.len : Backing(m)[i].name = old => i = k
  BY DEF UniqueNames
<1> HIDE DEF f, n
<1>5. DOMAIN g = DOMAIN f \ {old} /\ g = [x \in DOMAIN g |-> g[x]]
  OBVIOUS
<1>6. ASSUME NEW j \in 1..n.len
      PROVE  \E i \in 1..m.len \ {k} : Backing(n)[j] = Backing(m)[i]
  <2>1. CASE k <= j
    <3>1. j + 1 \in 1..m.len \ {k} /\ Backing(n)[j] = Backing(m)[j + 1]
      BY <1>2, <1>3, <2>1
    <3> QED
      BY <3>1
  <2>2. CASE ~(k <= j)
    <3>1. j \in 1..m.len \ {k} /\ Backing(n)[j] = Backing(m)[j]
      BY <1>2, <1>3, <2>2
    <3> QED
      BY <3>1
  <2> QED
    BY <2>1, <2>2
<1>7. \A j \in 1..n.len : Backing(n)[j].name \in DOMAIN g /\ g[Backing(n)[j].name] = Backing(n)[j].password
  <2> SUFFICES ASSUME NEW j \in 1..n.len
               PROVE  /\ Backing(n)[j].name \in DOMAIN f \ {old}
                      /\ g[Backing(n)[j].name] = Backing(n)[j].password
    BY <1>5
  <2>1. PICK i \in 1..m.len \ {k} : Backing(n)[j] = Backing(m)[i]
    BY <1>6
  <2> QED
    BY <1>1, <1>4, <2>1
<1>8. \A x \in DOMAIN g : \E j \in 1..n.len : Backing(n)[j].name = x
  <2> SUFFICES ASSUME NEW x \in DOMAIN f \ {old} PROVE \E j \in 1..n.len : Backing(n)[j].name = x
    BY <1>5
  <2>1. PICK i \in 1..m.len : Backing(m)[i].name = x
    BY <1>1
  <2>2. i # k
    BY <2>1
  <2>3. CASE i < k
    <3>1. i \in 1..n.len /\ Backing(n)[i] = Backing(m)[i]
      BY <1>2, <1>3, <2>3
    <3> QED
      BY <2>1, <3>1
  <2>4. CASE i > k
    <3>1. i - 1 \in 1..n.len /\ Backing(n)[i - 1] = Backing(m)[i]
      BY <1>2, <1>3, <2>4
    <3> QED
      BY <2>1, <3>1
  <2> QED
    BY <1>2, <2>2, <2>3, <2>4
<1> HIDE DEF g
<1>9. StoreIn(n) = g
  BY <1>2, <1>5, <1>7, <1>8, StoreIs
<1> QED
  BY <1>9 DEF f, g, n

\* A restart reads what the file holds.
LEMMA LoadedStore ==
  ASSUME NEW s \in Seq(Env)
  PROVE  Environments(Loaded(s)) = s
<1>1. SubSeq(s, 1, Len(s)) = s
  OBVIOUS
<1> QED
  BY <1>1 DEF Environments, Loaded, Backing

-----------------------------------------------------------------------------
(* Handlers that do not overlap implement EnvStore *)

\* The abstract variables, as KeepsTheStore maps them.
Mem == Stored(Environments(envs))
File == Stored(cfgFile)
Asked == IF Serving THEN req[Server] ELSE Nothing
Edited == Serving /\ pc[Server] \in {"marshal", "rename"}

\* The server is the handler that is not idle.
LEMMA TheOneBusy ==
  ASSUME NEW place, NEW h \in Handlers, \A g \in Handlers \ {h} : place[g] = "idle"
  PROVE  /\ (\E g \in Handlers : place[g] # "idle") <=> place[h] # "idle"
         /\ place[h] # "idle" => (CHOOSE g \in Handlers : place[g] # "idle") = h
OBVIOUS

\* Around a step of handler h the store is what memory and file hold, and what
\* is asked is what h was asked.
LEMMA Mapped ==
  ASSUME StoreInv, ~overlapping, NEW h \in Handlers, Begin(h) \/ Handle(h)
  PROVE  /\ Mem = StoreIn(envs) /\ Mem' = StoreIn(envs')
         /\ File = StoreOf(cfgFile) /\ File' = StoreOf(cfgFile')
         /\ Asked = IF pc[h] = "idle" THEN Nothing ELSE req[h]
         /\ Asked' = IF pc'[h] = "idle" THEN Nothing ELSE req'[h]
         /\ Edited = (pc[h] \in {"marshal", "rename"})
         /\ Edited' = (pc'[h] \in {"marshal", "rename"})
<1>1. /\ overlapping' = overlapping
      /\ \A g \in Handlers \ {h} : pc[g] = "idle" /\ pc'[g] = "idle"
  BY NobodyElse, OnlyOwn DEF StoreInv, Others
<1>2. /\ Mem = StoreIn(envs) /\ Mem' = StoreIn(envs')
      /\ File = StoreOf(cfgFile) /\ File' = StoreOf(cfgFile')
  BY <1>1 DEF Mem, File, Stored, StoreIn, StoreOf
<1>3. (Serving <=> pc[h] # "idle") /\ (pc[h] # "idle" => Server = h)
  BY <1>1, TheOneBusy DEF Serving, Server
<1>4. (Serving' <=> pc'[h] # "idle") /\ (pc'[h] # "idle" => Server' = h)
  BY <1>1, TheOneBusy DEF Serving, Server
<1> QED
  BY <1>2, <1>3, <1>4 DEF Asked, Edited

\* A request is not the value that stands for none.
LEMMA RequestsAreSome == \A r \in Request : r # Nothing
<1> SUFFICES ASSUME NEW r \in Request PROVE r # Nothing
  OBVIOUS
<1>1. "kind" \in DOMAIN r
  BY DEF Request
<1> QED
  BY <1>1 DEF Nothing

LEMMA StoreBegin ==
  ASSUME StoreInv, ~overlapping, NEW h \in Handlers, Begin(h)
  PROVE  \E r \in Requests : Store!Ask(r)
<1>1. PICK r \in Requests : BeginCreate(h, r) \/ BeginUpdate(h, r) \/ BeginDelete(h, r)
  BY DEF Begin
<1>2. /\ pc[h] = "idle" /\ pc'[h] \in {"add", "fill", "shift"}
      /\ req'[h] = r /\ UNCHANGED <<envs, cfgFile>>
  BY <1>1 DEF BeginCreate, BeginUpdate, BeginDelete, Begins, Goto, StoreInv, TypeInv, Vectors
<1>3. WellFormed(envs, Env) /\ UniqueNames(envs)
  BY DEF StoreInv, TypeInv, EditInv
<1>4. IF r.kind = "create" THEN r.form.password # Blank ELSE r.old \in DOMAIN StoreIn(envs)
  <2>1. CASE BeginCreate(h, r)
    BY <2>1 DEF BeginCreate
  <2>2. CASE ~BeginCreate(h, r)
    <3>1. r.kind # "create" /\ FindByName(envs, r.old) # 0
      BY <1>1, <2>2 DEF BeginUpdate, BeginDelete
    <3>2. \E i \in 1..envs.len : Backing(envs)[i].name = r.old
      BY <1>3, <3>1, FindByNameReturns
    <3> QED
      BY <1>3, <3>1, <3>2, StoreSays
  <2> QED
    BY <2>1, <2>2
<1>5. /\ Mem = StoreIn(envs) /\ Mem' = Mem /\ File' = File
      /\ Asked = Nothing /\ Asked' = r /\ Edited' = Edited
  BY <1>2, Mapped
<1>6. Store!Ask(r)
  BY <1>4, <1>5 DEF Store!Ask, Mem, File, Asked, Edited
<1> QED
  BY <1>6

\* A handler that answers has left the place it was at.
LEMMA Refused ==
  ASSUME StoreInv, NEW h \in Handlers, NEW what, Answers(h, what)
  PROVE  /\ \A place : Goto(h, place) => place = "idle"
         /\ pc'[h] = "idle"
BY DEF Answers, Goto, StoreInv, TypeInv, Vectors

\* A refusal: the name asked for is in the store.
LEMMA StoreRefuse ==
  ASSUME StoreInv, ~overlapping, NEW h \in Handlers, CheckAdd(h) \/ CheckUpdate(h), Answers(h, "refused")
  PROVE  Store!Refuse
<1>1. /\ pc[h] \in {"add", "update"} /\ pc'[h] = "idle" /\ UNCHANGED <<envs, cfgFile>>
      /\ WellFormed(envs, Env) /\ UniqueNames(envs) /\ Edit(h) /\ Holds(h) /\ Handle(h)
  BY DEF CheckAdd, CheckUpdate, Answers, Goto, StoreInv, TypeInv, Vectors, EditInv, Handle
<1>2. /\ Mem = StoreIn(envs) /\ Mem' = Mem /\ File' = File
      /\ Asked = req[h] /\ Asked' = Nothing /\ ~Edited /\ ~Edited'
  BY <1>1, Mapped
<1>3. req[h] # Nothing
  BY <1>1, RequestsAreSome DEF Holds
<1>4. ASSUME NEW n, FindByName(envs, n) # 0 PROVE n \in DOMAIN Mem
  <2>1. \E i \in 1..envs.len : Backing(envs)[i].name = n
    BY <1>1, <1>4, FindByNameReturns
  <2> QED
    BY <1>1, <1>2, <2>1, StoreSays
<1>5. CASE CheckAdd(h) /\ pc[h] = "add"
  <2>1. req[h].kind = "create" /\ FindByName(envs, req[h].form.name) # 0
    BY <1>1, <1>5, Refused DEF CheckAdd, AddFails, Edit, Holds
  <2> QED
    BY <1>2, <1>3, <1>4, <2>1 DEF Store!Refuse, Store!Serves, Store!Done, Mem, File, Asked, Edited
<1>6. CASE CheckUpdate(h) /\ pc[h] = "update"
  <2>1. req[h].kind = "update" /\ env[h].name = req[h].form.name
    BY <1>1, <1>6 DEF Edit, Holds, Filled, Request, Form
  <2>2. req[h].form.name # req[h].old /\ FindByName(envs, req[h].form.name) # 0
    BY <1>1, <1>6, <2>1, Refused DEF CheckUpdate, UpdateFails, Edit, Slot
  <2> QED
    BY <1>2, <1>3, <1>4, <2>1, <2>2 DEF Store!Refuse, Store!Serves, Store!Done, Mem, File, Asked, Edited
<1> QED
  BY <1>5, <1>6 DEF CheckAdd, CheckUpdate

\* The other steps before the edit, and Marshal after it, are not seen.
LEMMA StoreStutters ==
  ASSUME StoreInv, ~overlapping, NEW h \in Handlers,
         Fill(h) \/ Marshal(h) \/ ((CheckAdd(h) \/ CheckUpdate(h)) /\ ~Answers(h, "refused"))
  PROVE  UNCHANGED Store!storeVars
<1>1. /\ \/ pc[h] \in {"fill", "add", "update"} /\ pc'[h] \in {"update", "append", "store"}
         \/ pc[h] = "marshal" /\ pc'[h] = "rename"
      /\ UNCHANGED <<envs, cfgFile, req>> /\ Handle(h)
  BY DEF Fill, Marshal, CheckAdd, CheckUpdate, Goto, StoreInv, TypeInv, Vectors, Handle
<1>2. Mem' = Mem /\ File' = File /\ Asked' = Asked /\ Edited' = Edited
  BY <1>1, Mapped
<1> QED
  BY <1>2 DEF Store!storeVars, Mem, File, Asked, Edited

\* The steps that write to the slice.
LEMMA StoreEdit ==
  ASSUME StoreInv, ~overlapping, NEW h \in Handlers, AppendEnv(h) \/ StoreEnv(h) \/ ShiftEnvs(h)
  PROVE  Store!Create \/ Store!Change \/ Store!Delete
<1>1. /\ pc[h] \in {"append", "store", "shift"} /\ Handle(h) /\ cfgFile' = cfgFile
      /\ WellFormed(envs, Env) /\ UniqueNames(envs) /\ Edit(h) /\ Holds(h)
  BY EditWriting DEF AppendEnv, StoreEnv, ShiftEnvs, StoreInv, TypeInv, EditInv, Handle
<1>2. pc'[h] = "marshal" /\ req' = req
  <2>1. CASE AppendEnv(h)
    BY <2>1 DEF AppendEnv, Goto, StoreInv, TypeInv, Vectors
  <2>2. CASE StoreEnv(h) \/ ShiftEnvs(h)
    BY <2>2, Writes DEF StoreInv, TypeInv, Vectors
  <2> QED
    BY <2>1, <2>2
<1>3. /\ Mem = StoreIn(envs) /\ Mem' = StoreIn(envs') /\ File' = File
      /\ Asked = req[h] /\ Asked' = Asked /\ ~Edited /\ Edited'
  BY <1>1, <1>2, Mapped
<1>4. req[h] # Nothing /\ req[h] \in Request
  BY <1>1, RequestsAreSome DEF Holds
<1>5. CASE AppendEnv(h)
  <2>1. req[h].kind = "create" /\ env[h] = req[h].form
    BY <1>1, <1>5 DEF AppendEnv, Edit, Holds
  <2>2. ~AddFails(envs, env[h]) /\ envs' = Add(envs, env[h]) /\ env[h] \in Env
    BY <1>5, Writes
  <2>3. /\ req[h].form.name \notin DOMAIN Mem
        /\ Mem' = Put(Mem, DOMAIN Mem, req[h].form.name, req[h].form.password)
    BY <1>1, <1>3, <2>1, <2>2, AddedStore
  <2>4. Store!Create
    BY <1>3, <1>4, <2>1, <2>3 DEF Store!Create, Store!Serves, Store!Puts, Put, Mem, File, Asked, Edited
  <2> QED
    BY <2>4
<1>6. CASE StoreEnv(h)
  <2>1. /\ env[h] \in Env /\ env[h] = Filled(h) /\ ~UpdateFails(envs, req[h].old, env[h])
        /\ envs' = Update(envs, req[h].old, env[h])
    BY <1>6, Writes
  <2>2. req[h].kind = "update" /\ req[h].form \in Form
    BY <1>1, <1>4, <1>6 DEF StoreEnv, Holds, Request
  <2>3. /\ req[h].old \in DOMAIN Mem /\ Mem[req[h].old] = Backing(envs)[Slot(h)].password
        /\ env[h].name \notin Without(Mem, req[h].old)
        /\ Mem' = Put(Mem, Without(Mem, req[h].old), env[h].name, env[h].password)
    BY <1>1, <1>3, <2>1, UpdatedStore DEF Slot
  <2>4. /\ env[h].name = req[h].form.name
        /\ env[h].password = IF req[h].form.password = Blank THEN Mem[req[h].old]
                                                              ELSE req[h].form.password
    BY <2>1, <2>2, <2>3 DEF Filled, Form
  <2> DEFINE password == IF req[h].form.password = Blank THEN Mem[req[h].old]
                                                         ELSE req[h].form.password
  <2>5. Asked # Nothing /\ Asked.kind = "update" /\ ~Edited
    BY <1>3, <1>4, <2>2
  <2>6. /\ Asked.form.name \notin DOMAIN Mem \ {Asked.old}
        /\ Mem' = [x \in (DOMAIN Mem \ {Asked.old}) \cup {Asked.form.name} |->
                     IF x = Asked.form.name THEN password ELSE Mem[x]]
    BY <1>3, <2>3, <2>4 DEF Put, Without
  <2>7. Edited' = TRUE /\ UNCHANGED <<File, Asked>>
    BY <1>3 DEF Edited
  <2>8. password = IF Asked.form.password = Blank THEN Mem[Asked.old] ELSE Asked.form.password
    BY <1>3
  <2> HIDE DEF password
  <2>9. Store!Change
    BY <2>5, <2>6, <2>7, <2>8 DEF Store!Change, Store!Serves, Store!Puts, Mem, File, Asked, Edited
  <2> QED
    BY <2>9
<1>7. CASE ShiftEnvs(h)
  <2>1. req[h].kind = "delete" /\ Slot(h) \in 1..envs.len /\ envs' = Removed(envs, Slot(h))
    BY <1>1, <1>7, Writes DEF ShiftEnvs, Holds
  <2>2. Backing(envs)[Slot(h)].name = req[h].old
    BY <1>1, <2>1, FindByNameReturns DEF Slot
  <2>3. Mem' = [x \in DOMAIN Mem \ {req[h].old} |-> Mem[x]]
    BY <1>1, <1>3, <2>1, <2>2, RemovedStore
  <2>4. Store!Delete
    BY <1>3, <1>4, <2>1, <2>3 DEF Store!Delete, Store!Serves, Mem, File, Asked, Edited
  <2> QED
    BY <2>4
<1> QED
  BY <1>5, <1>6, <1>7

LEMMA StoreAnswer ==
  ASSUME StoreInv, ~overlapping, NEW h \in Handlers, Rename(h)
  PROVE  Store!Answer
<1>1. /\ pc[h] = "rename" /\ pc'[h] = "idle" /\ envs' = envs /\ cfgFile' \in {cfgFile, snap[h]}
      /\ snap[h] = Environments(envs) /\ Handle(h)
  BY DEF Rename, Answers, Goto, StoreInv, TypeInv, Vectors, EditInv, Edit, Handle
<1>2. /\ Mem = StoreIn(envs) /\ Mem' = Mem /\ File' \in {File, Mem}
      /\ Asked' = Nothing /\ Edited /\ ~Edited'
  BY <1>1, Mapped DEF StoreIn
<1> QED
  BY <1>2 DEF Store!Answer, Store!Done, Mem, File, Asked, Edited

Moves == Store!SNext \/ UNCHANGED Store!storeVars

LEMMA StoreStep == StoreInv /\ [Next]_vars => [Store!SNext]_(Store!storeVars)
<1> SUFFICES ASSUME StoreInv, [Next]_vars
             PROVE  Store!SNext \/ UNCHANGED Store!storeVars
  OBVIOUS
<1>1. overlapping' = overlapping
  <2>1. \A h \in Handlers : Begin(h) => UNCHANGED overlapping
    BY DEF Begin, BeginCreate, BeginUpdate, BeginDelete, Begins
  <2>2. \A h \in Handlers : Handle(h) => UNCHANGED overlapping
    BY DEF Handle, Fill, CheckAdd, AppendEnv, CheckUpdate, StoreEnv, ShiftEnvs, Marshal, Rename
  <2> QED
    BY <2>1, <2>2 DEF Next, Waits, Restart, vars
<1>2. CASE overlapping
  <2>1. Mem' = Mem /\ File' = File /\ ~Serving /\ ~Serving'
    BY <1>1, <1>2 DEF Mem, File, Stored, Serving
  <2>2. Asked' = Asked /\ Edited' = Edited
    BY <2>1 DEF Asked, Edited
  <2> QED
    BY <2>1, <2>2 DEF Store!storeVars, Mem, File, Asked, Edited
<1>3. ASSUME ~overlapping, NEW h \in Handlers, Begin(h) \/ Handle(h)
      PROVE  Moves
  <2>1. CASE Begin(h)
    BY <1>3, <2>1, StoreBegin DEF Store!SNext, Moves
  <2>2. CASE (CheckAdd(h) \/ CheckUpdate(h)) /\ Answers(h, "refused")
    BY <1>3, <2>2, StoreRefuse DEF Store!SNext, Moves
  <2>3. CASE Fill(h) \/ Marshal(h) \/ ((CheckAdd(h) \/ CheckUpdate(h)) /\ ~Answers(h, "refused"))
    BY <1>3, <2>3, StoreStutters DEF Moves
  <2>4. CASE AppendEnv(h) \/ StoreEnv(h) \/ ShiftEnvs(h)
    BY <1>3, <2>4, StoreEdit DEF Store!SNext, Moves
  <2>5. CASE Rename(h)
    BY <1>3, <2>5, StoreAnswer DEF Store!SNext, Moves
  <2>6. CASE CheckAdd(h) \/ CheckUpdate(h)
    BY <2>2, <2>3, <2>6
  <2> QED
    BY <1>3, <2>1, <2>3, <2>4, <2>5, <2>6 DEF Handle
<1>4. CASE ~overlapping /\ Restart
  <2>1. cfgFile \in Seq(Env) /\ envs' = Loaded(cfgFile) /\ cfgFile' = cfgFile
    BY <1>4 DEF StoreInv, TypeInv, Restart
  <2>2. Environments(envs') = cfgFile
    BY <2>1, LoadedStore
  <2>6. Mem' = File /\ File' = File
    BY <1>1, <1>4, <2>1, <2>2 DEF Mem, File, Stored
  <2>3. ~Serving'
    BY <1>4 DEF Restart, Serving
  <2>4. Asked' = Nothing /\ ~Edited'
    BY <2>3 DEF Asked, Edited
  <2>5. Store!Restart
    BY <2>4, <2>6 DEF Store!Restart, Store!Done, Mem, File, Asked, Edited
  <2> QED
    BY <2>5 DEF Store!SNext
<1>5. CASE UNCHANGED vars
  <2>1. Mem' = Mem /\ File' = File /\ Serving' = Serving /\ Server' = Server
    BY <1>5 DEF vars, handlerVars, Mem, File, Stored, Serving, Server
  <2>2. Asked' = Asked /\ Edited' = Edited
    BY <1>5, <2>1 DEF vars, handlerVars, Asked, Edited
  <2> QED
    BY <2>1, <2>2 DEF Store!storeVars, Mem, File, Asked, Edited
<1> QED
  BY <1>2, <1>3, <1>4, <1>5 DEF Next, Waits, Moves

LEMMA StoreInit == Init => Store!SInit
<1> SUFFICES ASSUME Init PROVE Store!SInit
  OBVIOUS
<1>1. InitialEnvs \in Seq(Env) /\ UniqueNames(Loaded(InitialEnvs))
  BY StoreAssumption
<1>2. Environments(envs) = cfgFile
  BY <1>1, LoadedStore DEF Init
<1>3. ~Serving
  BY DEF Init, Serving
<1>4. Mem = File /\ Asked = Nothing /\ ~Edited
  BY <1>2, <1>3 DEF Mem, File, Asked, Edited
<1>5. Mem \in Store!Stores
  <2>1. CASE overlapping
    <3>1. Mem = <<>>
      BY <2>1 DEF Mem, Stored
    <3>2. Mem \in [{} -> Passwords]
      BY <3>1
    <3> QED
      BY <3>2 DEF Store!Stores
  <2>2. CASE ~overlapping
    <3>1. Mem = StoreIn(Loaded(InitialEnvs))
      BY <2>2 DEF Init, Mem, Stored, StoreIn, StoreOf
    <3> QED
      BY <1>1, <3>1, LoadedWellFormed, StoreSays
  <2> QED
    BY <2>1, <2>2
<1> QED
  BY <1>4, <1>5 DEF Store!SInit, Mem, File, Asked, Edited

\* What the environment pages promise (module EnvStore) they keep, for any
\* environments and requests: handlers that do not overlap make each edit in
\* one step or refuse it, and what is lost is what a restart finds unsaved.
THEOREM TheStoreIsKept == Spec => KeepsTheStore
<1> QED
  BY StoreInit, StoreStep, StoreInvariant, PTL DEF Spec, KeepsTheStore, Store!SSpec
-----------------------------------------------------------------------------
(* Handlers that overlap, where none deletes or renames *)

\* From m to n the slice may grow, but no name moves, whoever looks at it how.
KeepsNames(m, n) ==
  /\ \A i \in 1..m.len : i \in 1..n.len /\ Backing(n)[i].name = Backing(m)[i].name
  /\ \A p \in [buf : Nat, idx : Nat] :
       PointerValid(m, p) /\ InSlice(m, p) => Deref(n, p).name = Deref(m, p).name /\ InSlice(n, p)

LEMMA AppendKeepsNames ==
  ASSUME TypeInv, NEW h \in Handlers, AppendEnv(h)
  PROVE  KeepsNames(envs, envs')
<1>1. WellFormed(envs, Env) /\ envs.len \in Nat /\ env[h] \in Env /\ envs' = Appended(envs, env[h])
  BY DEF AppendEnv, TypeInv, Holds, WellFormed
<1>2. /\ envs'.len = envs.len + 1
      /\ \A i \in 1..envs.len : Backing(envs')[i] = Backing(envs)[i]
  BY <1>1, AppendedShows
<1>3. \A i \in 1..envs.len : i \in 1..envs'.len
  BY <1>1, <1>2
<1>4. \A p \in [buf : Nat, idx : Nat] : PointerValid(envs, p) /\ InSlice(envs, p) =>
        Deref(envs', p) = Deref(envs, p) /\ InSlice(envs', p)
  BY <1>1, AppendedKeepsShown
<1> QED
  BY <1>2, <1>3, <1>4 DEF KeepsNames

\* An update that is no rename writes the name that is there.
LEMMA StoreKeepsNames ==
  ASSUME TypeInv, PlaceInv, ~DeletesOrRenames, NEW h \in Handlers, StoreEnv(h)
  PROVE  /\ idx[h] \in 1..envs.len /\ env[h] \in Env /\ env[h].name = Backing(envs)[idx[h]].name
         /\ envs' = Assigned(envs, idx[h], env[h])
         /\ pc' = [pc EXCEPT ![h] = "marshal"] /\ UNCHANGED cfgFile
         /\ KeepsNames(envs, envs')
<1>1. WellFormed(envs, Env) /\ envs.len \in Nat /\ env[h] \in Env
  BY DEF StoreEnv, TypeInv, Holds, WellFormed
<1>2. idx[h] \in 1..envs.len /\ Backing(envs)[idx[h]].name = req[h].old
  BY DEF StoreEnv, PlaceInv, InPlace
<1>3. env[h].name = req[h].old
  BY DEF DeletesOrRenames
<1>4. /\ envs' = Assigned(envs, idx[h], env[h])
      /\ pc' = [pc EXCEPT ![h] = "marshal"] /\ UNCHANGED cfgFile
  BY <1>1, <1>2 DEF StoreEnv, Assigned, Goto
<1>5. /\ envs'.len = envs.len
      /\ \A i \in 1..envs.len :
           Backing(envs')[i] = IF i = idx[h] THEN env[h] ELSE Backing(envs)[i]
  BY <1>1, <1>2, <1>4, AssignedShows
<1>6. \A p \in [buf : Nat, idx : Nat] : PointerValid(envs, p) /\ InSlice(envs, p) =>
        Deref(envs', p).name = Deref(envs, p).name /\ InSlice(envs', p)
  BY <1>1, <1>2, <1>3, <1>4, AssignedKeepsName
<1>7. KeepsNames(envs, envs')
  BY <1>2, <1>3, <1>5, <1>6 DEF KeepsNames
<1> QED
  BY <1>1, <1>2, <1>3, <1>4, <1>7

\* Every step of a handler but a delete and a rename keeps the names in place.
LEMMA HandlerKeepsNames ==
  ASSUME TypeInv, PlaceInv, ~DeletesOrRenames, NEW h \in Handlers, Begin(h) \/ Handle(h)
  PROVE  KeepsNames(envs, envs')
<1>1. CASE envs' = envs
  <2>1. \A i \in 1..envs.len : i \in 1..envs'.len /\ Backing(envs')[i] = Backing(envs)[i]
    BY <1>1
  <2> QED
    BY <1>1, <2>1 DEF KeepsNames
<1>2. CASE Begin(h)
  BY <1>1, <1>2, TypeBegin
<1>3. CASE Fill(h) \/ CheckAdd(h) \/ CheckUpdate(h) \/ Marshal(h)
  BY <1>1, <1>3, TypeReading
<1>4. CASE Rename(h)
  BY <1>1, <1>4, TypeRename
<1>5. CASE AppendEnv(h)
  BY <1>5, AppendKeepsNames
<1>6. CASE StoreEnv(h)
  BY <1>6, StoreKeepsNames
<1>7. ~ShiftEnvs(h)
  BY DEF DeletesOrRenames
<1> QED
  BY <1>2, <1>3, <1>4, <1>5, <1>6, <1>7 DEF Handle

\* So what the other handlers found stays where it is ...
LEMMA OthersInPlace ==
  ASSUME TypeInv, PlaceInv, NEW h \in Handlers, Others(h), KeepsNames(envs, envs'),
         NEW g \in Handlers, g # h
  PROVE  InPlace(g)'
<1>1. /\ pc'[g] = pc[g] /\ req'[g] = req[g] /\ existing'[g] = existing[g] /\ idx'[g] = idx[g]
      /\ InPlace(g)
  BY DEF Others, PlaceInv
<1>2. CASE pc[g] = "fill"
  <2>1. existing[g] \in [buf : Nat, idx : Nat] /\ PointerValid(envs, existing[g])
    BY <1>2 DEF TypeInv, Vectors, Holds
  <2>2. InSlice(envs, existing[g]) /\ Deref(envs, existing[g]).name = req[g].old
    BY <1>1, <1>2 DEF InPlace
  <2>3. Deref(envs', existing[g]).name = req[g].old /\ InSlice(envs', existing[g])
    BY <2>1, <2>2 DEF KeepsNames
  <2> QED
    BY <1>1, <1>2, <2>3 DEF InPlace
<1>3. CASE pc[g] = "store"
  <2>1. idx[g] \in 1..envs.len /\ Backing(envs)[idx[g]].name = req[g].old
    BY <1>1, <1>3 DEF InPlace
  <2>2. idx[g] \in 1..envs'.len /\ Backing(envs')[idx[g]].name = req[g].old
    BY <2>1 DEF KeepsNames
  <2> QED
    BY <1>1, <1>3, <2>2 DEF InPlace
<1> QED
  BY <1>1, <1>2, <1>3 DEF InPlace

\* ... and the handler itself finds what it looks for.
LEMMA OwnInPlace ==
  ASSUME TypeInv, NEW h \in Handlers, Begin(h) \/ Handle(h)
  PROVE  InPlace(h)'
<1>1. WellFormed(envs, Env) /\ pc \in [Handlers -> Places]
  BY DEF TypeInv, Vectors
<1>2. CASE pc'[h] \notin {"fill", "store"}
  BY <1>2 DEF InPlace
<1>3. CASE pc'[h] = "fill"
  <2>1. PICK r \in Requests : BeginUpdate(h, r)
    <3>1. ~Handle(h)
      BY <1>1, <1>3 DEF Handle, Fill, CheckAdd, AppendEnv, CheckUpdate, StoreEnv, ShiftEnvs,
                        Marshal, Rename, Panics, Answers, Goto
    <3> QED
      BY <1>1, <1>3, <3>1 DEF Begin, BeginCreate, BeginDelete, Goto
  <2> DEFINE found == PointerTo(envs, FindByName(envs, r.old))
  <2>2. /\ FindByName(envs, r.old) # 0 /\ envs' = envs
        /\ req'[h] = r /\ existing'[h] = found
    BY <2>1 DEF BeginUpdate, Begins, TypeInv, Vectors
  <2>3. InSlice(envs, found) /\ Deref(envs, found).name = r.old
    BY <1>1, <2>2, FoundPointer, FoundInSlice
  <2> HIDE DEF found
  <2> QED
    BY <1>3, <2>2, <2>3 DEF InPlace
<1>4. CASE pc'[h] = "store"
  <2>1. CheckUpdate(h) /\ ~UpdateFails(envs, req[h].old, env[h])
    <3>1. ~Begin(h)
      BY <1>1, <1>4 DEF Begin, BeginCreate, BeginUpdate, BeginDelete, Goto
    <3>2. CheckUpdate(h)
      BY <1>1, <1>4, <3>1 DEF Handle, Fill, CheckAdd, AppendEnv, StoreEnv, ShiftEnvs,
                              Marshal, Rename, Panics, Answers, Goto
    <3> QED
      BY <1>1, <1>4, <3>2 DEF CheckUpdate, Answers, Goto
  <2>2. UNCHANGED <<envs, req>> /\ idx'[h] = FindByName(envs, req[h].old)
    BY <1>1, <1>4, <2>1 DEF CheckUpdate, Answers, Goto, TypeInv, Vectors
  <2>3. FindByName(envs, req[h].old) # 0
    BY <2>1 DEF UpdateFails
  <2>4. /\ FindByName(envs, req[h].old) \in 1..envs.len
        /\ Backing(envs)[FindByName(envs, req[h].old)].name = req[h].old
    BY <1>1, <2>3, FindByNameReturns
  <2> QED
    BY <1>4, <2>2, <2>4 DEF InPlace
<1> QED
  BY <1>2, <1>3, <1>4

LEMMA PlaceStep == TypeInv /\ PlaceInv /\ [Next]_vars /\ [~DeletesOrRenames]_vars => PlaceInv'
<1> SUFFICES ASSUME TypeInv, PlaceInv, [Next]_vars, [~DeletesOrRenames]_vars PROVE PlaceInv'
  OBVIOUS
<1>1. CASE UNCHANGED vars
  BY <1>1 DEF vars, handlerVars, PlaceInv, InPlace
<1>2. ASSUME NEW h \in Handlers, Begin(h) \/ Handle(h), ~DeletesOrRenames PROVE PlaceInv'
  <2>1. Others(h) /\ KeepsNames(envs, envs') /\ InPlace(h)'
    BY <1>2, OnlyOwn, HandlerKeepsNames, OwnInPlace
  <2> QED
    BY <2>1, OthersInPlace DEF PlaceInv
<1>3. CASE Restart
  BY <1>3 DEF Restart, PlaceInv, InPlace
<1> QED
  BY <1>1, <1>2, <1>3 DEF Next, Waits

\* Only a delete or a rename that takes effect can mislead an update that
\* overlaps with it: however many creates and other updates overlap, and
\* whatever fails, the pointer and the index it holds are those of the
\* environment it was asked for (handlers.go:206-224, config.go:207-220).
THEOREM OnlyDeletesAndRenamesMislead == Spec => OnlyMovesMislead
<1>1. TypeInv /\ [Next]_vars => [PlaceInv => PlaceInv' \/ DeletesOrRenames]_vars
  BY PlaceStep
<1> QED
  BY <1>1, TypeInit, TypeStep, PTL DEF Spec, OnlyMovesMislead

\* So in a behaviour without deletes and renames no update is ever misled.
COROLLARY UpdatesStayInPlace == Spec /\ [][~DeletesOrRenames]_vars => []PlaceInv
<1>1. Init => PlaceInv
  BY DEF Init, PlaceInv, InPlace
<1> QED
  BY <1>1, TypeInit, TypeStep, PlaceStep, PTL DEF Spec

\* Another update of the same environment is made while one is under way.
Updating(h) == pc[h] \in {"fill", "update", "store"}
Crosses ==
  \E g, h \in Handlers : g # h /\ StoreEnv(g) /\ Updating(h) /\ req[h].old = req[g].old

\* What an update found is what it would find again: the environment behind the
\* pointer, then the password taken from it, then the index.
UpToDate(h) ==
  /\ Updating(h) => Slot(h) # 0
  /\ pc[h] = "fill" => Deref(envs, existing[h]) = Backing(envs)[Slot(h)]
  /\ pc[h] \in {"update", "store"} /\ req[h].form.password = Blank =>
       env[h].password = Backing(envs)[Slot(h)].password
  /\ pc[h] = "store" => idx[h] = Slot(h)

CurrentInv == \A h \in Handlers : UpToDate(h)

\* From m to n the environments of that name stay as they are.
KeepsEnv(m, n, name) ==
  /\ \A i \in 1..m.len : Backing(m)[i].name = name => Backing(n)[i] = Backing(m)[i]
  /\ \A p \in [buf : Nat, idx : Nat] :
       PointerValid(m, p) /\ InSlice(m, p) /\ Deref(m, p).name = name => Deref(n, p) = Deref(m, p)

LEMMA HandlerKeepsEnv ==
  ASSUME TypeInv, PlaceInv, ~DeletesOrRenames, ~Crosses, NEW g \in Handlers, Begin(g) \/ Handle(g),
         NEW h \in Handlers, h # g, Updating(h)
  PROVE  KeepsEnv(envs, envs', req[h].old)
<1>1. WellFormed(envs, Env)
  BY DEF TypeInv
<1>2. CASE envs' = envs
  BY <1>2 DEF KeepsEnv
<1>3. CASE Begin(g)
  BY <1>2, <1>3, TypeBegin
<1>4. CASE Fill(g) \/ CheckAdd(g) \/ CheckUpdate(g) \/ Marshal(g)
  BY <1>2, <1>4, TypeReading
<1>5. CASE Rename(g)
  BY <1>2, <1>5, TypeRename
<1>6. CASE AppendEnv(g)
  <2>1. env[g] \in Env /\ envs' = Appended(envs, env[g])
    BY <1>6 DEF AppendEnv, TypeInv, Holds
  <2>2. \A i \in 1..envs.len : Backing(envs')[i] = Backing(envs)[i]
    BY <1>1, <2>1, AppendedShows
  <2>3. \A p \in [buf : Nat, idx : Nat] : PointerValid(envs, p) /\ InSlice(envs, p) =>
          Deref(envs', p) = Deref(envs, p)
    BY <1>1, <2>1, AppendedKeepsShown
  <2> QED
    BY <2>2, <2>3 DEF KeepsEnv
<1>7. CASE StoreEnv(g)
  <2>1. /\ idx[g] \in 1..envs.len /\ env[g] \in Env /\ envs' = Assigned(envs, idx[g], env[g])
        /\ Backing(envs)[idx[g]].name = req[g].old
    <3>1. Backing(envs)[idx[g]].name = req[g].old
      BY <1>7 DEF StoreEnv, PlaceInv, InPlace
    <3> QED
      BY <1>7, <3>1, StoreKeepsNames
  <2>2. req[h].old # req[g].old
    BY <1>7 DEF Crosses
  <2>3. \A i \in 1..envs.len : Backing(envs')[i] = IF i = idx[g] THEN env[g] ELSE Backing(envs)[i]
    BY <1>1, <2>1, AssignedShows
  <2>4. \A p \in [buf : Nat, idx : Nat] :
          PointerValid(envs, p) /\ Deref(envs, p).name # req[g].old => Deref(envs', p) = Deref(envs, p)
    BY <1>1, <2>1, AssignedKeepsOthers
  <2> QED
    BY <2>1, <2>2, <2>3, <2>4 DEF KeepsEnv
<1>8. ~ShiftEnvs(g)
  BY DEF DeletesOrRenames
<1> QED
  BY <1>3, <1>4, <1>5, <1>6, <1>7, <1>8 DEF Handle

LEMMA OthersUpToDate ==
  ASSUME TypeInv, TypeInv', PlaceInv, CurrentInv, NEW g \in Handlers, Others(g),
         KeepsNames(envs, envs'), NEW h \in Handlers, h # g,
         Updating(h) => KeepsEnv(envs, envs', req[h].old)
  PROVE  UpToDate(h)'
<1>1. /\ pc'[h] = pc[h] /\ req'[h] = req[h] /\ existing'[h] = existing[h]
      /\ env'[h] = env[h] /\ idx'[h] = idx[h] /\ UpToDate(h) /\ InPlace(h)
  BY DEF Others, CurrentInv, PlaceInv
<1>2. CASE ~Updating(h)
  BY <1>1, <1>2 DEF UpToDate, Updating
<1>3. CASE Updating(h)
  <2>1. WellFormed(envs, Env) /\ WellFormed(envs', Env) /\ Slot(h) # 0
    BY <1>1, <1>3 DEF TypeInv, UpToDate
  <2>2. Slot(h) \in 1..envs.len /\ Backing(envs)[Slot(h)].name = req[h].old
    BY <2>1, FindByNameReturns DEF Slot
  <2>3. FindByName(envs', req[h].old) = FindByName(envs, req[h].old)
    BY <2>1, FoundAgain DEF KeepsNames, Slot
  <2>4. Slot(h)' = Slot(h)
    BY <1>1, <2>3 DEF Slot
  <2>5. Backing(envs')[Slot(h)] = Backing(envs)[Slot(h)]
    BY <1>3, <2>2 DEF KeepsEnv
  <2>6. pc[h] = "fill" => Deref(envs', existing[h]) = Deref(envs, existing[h])
    <3>1. SUFFICES ASSUME pc[h] = "fill" PROVE Deref(envs', existing[h]) = Deref(envs, existing[h])
      OBVIOUS
    <3>2. existing[h] \in [buf : Nat, idx : Nat] /\ PointerValid(envs, existing[h])
      BY <3>1 DEF TypeInv, Vectors, Holds
    <3>3. InSlice(envs, existing[h]) /\ Deref(envs, existing[h]).name = req[h].old
      BY <1>1, <3>1 DEF InPlace
    <3> QED
      BY <1>3, <3>2, <3>3 DEF KeepsEnv
  <2> QED
    BY <1>1, <2>1, <2>4, <2>5, <2>6 DEF UpToDate, Updating
<1> QED
  BY <1>2, <1>3

LEMMA OwnUpToDate ==
  ASSUME TypeInv, CurrentInv, NEW h \in Handlers, Begin(h) \/ Handle(h)
  PROVE  UpToDate(h)'
<1>1. WellFormed(envs, Env) /\ pc \in [Handlers -> Places] /\ UpToDate(h)
  BY DEF TypeInv, Vectors, CurrentInv
<1>2. CASE ~Updating(h)'
  BY <1>2 DEF UpToDate, Updating
<1>3. CASE Begin(h) /\ Updating(h)'
  <2>1. PICK r \in Requests : BeginUpdate(h, r)
    BY <1>1, <1>3 DEF Begin, BeginCreate, BeginDelete, Goto, Updating
  <2>2. /\ FindByName(envs, r.old) # 0 /\ envs' = envs /\ pc'[h] = "fill"
        /\ req'[h] = r /\ existing'[h] = PointerTo(envs, FindByName(envs, r.old))
    BY <1>1, <2>1 DEF BeginUpdate, Begins, Goto, TypeInv, Vectors
  <2>3. Deref(envs', existing'[h]) = Backing(envs)[FindByName(envs, r.old)]
    BY <2>2 DEF Deref, PointerTo, Backing
  <2> QED
    BY <2>2, <2>3 DEF UpToDate, Updating, Slot
<1>4. CASE Fill(h)
  <2>1. /\ UNCHANGED <<envs, req>> /\ pc'[h] = "update" /\ pc[h] = "fill"
        /\ req[h].form.password = Blank =>
             env'[h].password = Deref(envs, existing[h]).password
    <3>1. req[h].form \in Form
      BY <1>4 DEF Fill, TypeInv, Holds, Request
    <3> QED
      BY <1>1, <1>4, <3>1 DEF Fill, Goto, TypeInv, Vectors, Form
  <2> QED
    BY <1>1, <2>1 DEF UpToDate, Updating, Slot
<1>5. CASE CheckUpdate(h) /\ Updating(h)'
  <2>1. /\ UNCHANGED <<envs, req, env>> /\ pc'[h] = "store" /\ pc[h] = "update"
        /\ idx'[h] = FindByName(envs, req[h].old)
    BY <1>1, <1>5 DEF CheckUpdate, Answers, Goto, Updating, TypeInv, Vectors
  <2> QED
    BY <1>1, <2>1 DEF UpToDate, Updating, Slot
<1>6. CASE Handle(h) /\ ~Fill(h) /\ ~CheckUpdate(h)
  <2>1. pc'[h] \in {"idle", "append", "marshal", "rename"}
    BY <1>1, <1>6 DEF Handle, CheckAdd, AppendEnv, StoreEnv, ShiftEnvs, Marshal, Rename,
                      Panics, Answers, Goto
  <2> QED
    BY <1>2, <2>1 DEF Updating
<1> QED
  BY <1>2, <1>3, <1>4, <1>5, <1>6

LEMMA CurrentStep ==
  TypeInv /\ TypeInv' /\ PlaceInv /\ CurrentInv /\ [Next]_vars /\ [~DeletesOrRenames /\ ~Crosses]_vars
    => CurrentInv'
<1> SUFFICES ASSUME TypeInv, TypeInv', PlaceInv, CurrentInv, [Next]_vars, [~DeletesOrRenames /\ ~Crosses]_vars
             PROVE  CurrentInv'
  OBVIOUS
<1>1. CASE UNCHANGED vars
  BY <1>1 DEF vars, handlerVars, CurrentInv, UpToDate, Updating, Slot
<1>2. ASSUME NEW g \in Handlers, Begin(g) \/ Handle(g), ~DeletesOrRenames, ~Crosses PROVE CurrentInv'
  <2>1. Others(g) /\ KeepsNames(envs, envs') /\ UpToDate(g)'
    BY <1>2, OnlyOwn, HandlerKeepsNames, OwnUpToDate
  <2>2. ASSUME NEW h \in Handlers, h # g PROVE UpToDate(h)'
    <3>1. Updating(h) => KeepsEnv(envs, envs', req[h].old)
      BY <1>2, <2>2, HandlerKeepsEnv
    <3> QED
      BY <2>1, <2>2, <3>1, OthersUpToDate
  <2> QED
    BY <2>1, <2>2 DEF CurrentInv
<1>3. CASE Restart
  BY <1>3 DEF Restart, CurrentInv, UpToDate, Updating
<1> QED
  BY <1>1, <1>2, <1>3 DEF Next, Waits

\* When an update replaces its own environment and keeps its password
\* (config.go:207, handlers.go:223) although requests overlap: when none
\* deletes or renames, and no other update of that environment is made between
\* its search and its assignment.
THEOREM OnlyCrossingEditsMisplace == Spec /\ [][~DeletesOrRenames /\ ~Crosses]_vars => UpdateReplacesItsOwn
<1>1. Init => PlaceInv /\ CurrentInv
  BY DEF Init, PlaceInv, InPlace, CurrentInv, UpToDate, Updating
<1>2. ASSUME PlaceInv, CurrentInv, NEW h \in Handlers, pc[h] = "store"
      PROVE  ReplacesItsOwn(h)
  BY <1>2 DEF PlaceInv, InPlace, CurrentInv, UpToDate, ReplacesItsOwn
<1>3. PlaceInv /\ CurrentInv /\ [Next]_vars =>
        [\A h \in Handlers : pc[h] = "store" /\ pc'[h] = "marshal" => ReplacesItsOwn(h)]_vars
  BY <1>2
<1>4. [~DeletesOrRenames /\ ~Crosses]_vars => [~DeletesOrRenames]_vars
  OBVIOUS
<1> QED
  BY <1>1, <1>3, <1>4, TypeInit, TypeStep, PlaceStep, CurrentStep, PTL DEF Spec, UpdateReplacesItsOwn

-----------------------------------------------------------------------------
(* Names, however the handlers overlap *)

LEMMA AppendKeepsUnique ==
  ASSUME TypeInv, NamesUnique, ~Collides, NEW h \in Handlers, AppendEnv(h)
  PROVE  UniqueNames(envs')
<1>1. WellFormed(envs, Env) /\ UniqueNames(envs) /\ env[h] \in Env
  BY DEF AppendEnv, TypeInv, Holds, NamesUnique
<1>2. ~AddFails(envs, env[h])
  BY DEF Collides, Overtaken
<1>3. envs' = Add(envs, env[h])
  BY <1>2 DEF AppendEnv, Add
<1> QED
  BY <1>1, <1>3, AddUnique

\* An assignment that has not been overtaken is what Update would do now.
LEMMA StoreKeepsUnique ==
  ASSUME TypeInv, NamesUnique, ~Collides, NEW h \in Handlers, StoreEnv(h)
  PROVE  UniqueNames(envs')
<1>1. /\ WellFormed(envs, Env) /\ UniqueNames(envs) /\ env[h] \in Env
      /\ envs.len \in Nat /\ idx[h] \in Nat \ {0}
  BY DEF StoreEnv, TypeInv, Vectors, Holds, NamesUnique, WellFormed
<1>2. CASE idx[h] > envs.len
  BY <1>1, <1>2 DEF StoreEnv, Panics
<1>3. CASE idx[h] <= envs.len
  <2>1. idx[h] \in 1..envs.len
    BY <1>1, <1>3
  <2>2. Backing(envs)[idx[h]].name = req[h].old /\ ~UpdateFails(envs, req[h].old, env[h])
    BY <1>3 DEF Collides, Overtaken
  <2>3. FindByName(envs, req[h].old) = idx[h]
    BY <1>1, <2>1, <2>2, FindByNameReturns DEF UniqueNames
  <2>4. ~(idx[h] > envs.len)
    BY <1>1, <1>3
  <2>5. envs' = Update(envs, req[h].old, env[h])
    BY <2>2, <2>3, <2>4 DEF StoreEnv, Update
  <2> QED
    BY <1>1, <2>5, UpdateUnique
<1> QED
  BY <1>1, <1>2, <1>3

\* A delete takes one environment out, be it its own or another.
LEMMA ShiftKeepsUnique ==
  ASSUME TypeInv, NamesUnique, NEW h \in Handlers, ShiftEnvs(h)
  PROVE  UniqueNames(envs')
<1>1. /\ WellFormed(envs, Env) /\ UniqueNames(envs)
      /\ envs.len \in Nat /\ idx[h] \in Nat \ {0}
  BY DEF ShiftEnvs, TypeInv, Vectors, Holds, NamesUnique, WellFormed
<1>2. envs' = envs \/ (idx[h] \in 1..envs.len /\ envs' = Removed(envs, idx[h]))
  BY <1>1 DEF ShiftEnvs, Panics
<1> QED
  BY <1>1, <1>2, RemovedUnique

\* What one step of a handler does to the names in memory, in the file and on
\* their way from the one to the other.
LEMMA HandlerKeepsUnique ==
  ASSUME TypeInv, NamesUnique, ~Collides, NEW h \in Handlers, Begin(h) \/ Handle(h)
  PROVE  NamesUnique'
<1>1. /\ WellFormed(envs, Env) /\ UniqueNames(envs) /\ UniqueNames(Loaded(cfgFile))
      /\ pc \in [Handlers -> Places] /\ snap \in [Handlers -> Seq(Env)]
  BY DEF TypeInv, Vectors, NamesUnique
<1>2. ASSUME NEW g \in Handlers \ {h}, pc'[g] = "rename" PROVE UniqueNames(Loaded(snap'[g]))
  <2>1. pc[g] = "rename" /\ snap'[g] = snap[g]
    BY <1>2, OnlyOwn DEF Others
  <2> QED
    BY <2>1 DEF NamesUnique
<1>3. CASE UniqueNames(envs') /\ cfgFile' = cfgFile /\ pc'[h] # "rename"
  BY <1>1, <1>2, <1>3 DEF NamesUnique
<1>4. CASE Begin(h)
  <2>1. pc'[h] # "rename"
    BY <1>1, <1>4 DEF Begin, BeginCreate, BeginUpdate, BeginDelete, Goto
  <2> QED
    BY <1>1, <1>3, <1>4, <2>1, TypeBegin
<1>5. CASE Fill(h) \/ CheckAdd(h) \/ CheckUpdate(h)
  <2>1. pc'[h] # "rename"
    BY <1>1, <1>5 DEF Fill, CheckAdd, CheckUpdate, Answers, Goto
  <2> QED
    BY <1>1, <1>3, <1>5, <2>1, TypeReading
<1>6. CASE Marshal(h)
  <2>1. UNCHANGED <<envs, cfgFile>> /\ snap'[h] = Environments(envs)
    BY <1>1, <1>6 DEF Marshal
  <2>2. UniqueNames(Loaded(snap'[h]))
    BY <1>1, <2>1, SavedUnique
  <2> QED
    BY <1>1, <1>2, <2>1, <2>2 DEF NamesUnique
<1>7. CASE Rename(h)
  <2>1. pc[h] = "rename" /\ pc'[h] # "rename" /\ envs' = envs /\ cfgFile' \in {cfgFile, snap[h]}
    BY <1>1, <1>7 DEF Rename, Answers, Goto
  <2>2. UniqueNames(Loaded(cfgFile'))
    BY <1>1, <2>1 DEF NamesUnique
  <2> QED
    BY <1>1, <1>2, <2>1, <2>2 DEF NamesUnique
<1>8. CASE AppendEnv(h)
  <2>1. cfgFile' = cfgFile /\ pc'[h] # "rename"
    BY <1>1, <1>8 DEF AppendEnv, Goto
  <2> QED
    BY <1>3, <1>8, <2>1, AppendKeepsUnique
<1>9. CASE StoreEnv(h)
  <2>1. cfgFile' = cfgFile /\ pc'[h] # "rename"
    BY <1>1, <1>9 DEF StoreEnv, Panics, Answers, Goto
  <2> QED
    BY <1>3, <1>9, <2>1, StoreKeepsUnique
<1>10. CASE ShiftEnvs(h)
  <2>1. cfgFile' = cfgFile /\ pc'[h] # "rename"
    BY <1>1, <1>10 DEF ShiftEnvs, Panics, Answers, Goto
  <2> QED
    BY <1>3, <1>10, <2>1, ShiftKeepsUnique
<1> QED
  BY <1>4, <1>5, <1>6, <1>7, <1>8, <1>9, <1>10 DEF Handle

LEMMA UniqueStep == TypeInv /\ NamesUnique /\ [Next]_vars => NamesUnique' \/ Collides
<1> SUFFICES ASSUME TypeInv, NamesUnique, [Next]_vars, ~Collides
             PROVE  NamesUnique'
  OBVIOUS
<1>1. CASE UNCHANGED vars
  BY <1>1 DEF vars, handlerVars, NamesUnique
<1>2. ASSUME NEW h \in Handlers, Begin(h) \/ Handle(h) PROVE NamesUnique'
  BY <1>2, HandlerKeepsUnique
<1>3. CASE Restart
  BY <1>3 DEF Restart, NamesUnique
<1> QED
  BY <1>1, <1>2, <1>3 DEF Next, Waits

\* Only a create or an update whose search has been overtaken can give two
\* environments one name (config.go:198-221), however the handlers overlap.
THEOREM OnlyOvertakenEditsDuplicate == Spec => OnlyOvertakenDuplicate
<1>1. TypeInv /\ [Next]_vars => [NamesUnique => NamesUnique' \/ Collides]_vars
  BY UniqueStep
<1> QED
  BY <1>1, TypeInit, TypeStep, PTL DEF Spec, OnlyOvertakenDuplicate

\* So while nobody is overtaken names are unique, in memory and in config.yaml,
\* whatever handlers are at work and although config.yaml may be replaced in
\* another order than the memory was read.
COROLLARY NamesAreUniqueUntilOvertaken == Spec /\ [][~Collides]_vars => []NamesUnique
<1>1. Init => NamesUnique
  BY StoreAssumption DEF Init, NamesUnique
<1>2. TypeInv /\ NamesUnique /\ [Next]_vars /\ [~Collides]_vars => NamesUnique'
  <2>1. CASE UNCHANGED vars
    BY <2>1 DEF vars, handlerVars, NamesUnique
  <2> QED
    BY <2>1, UniqueStep
<1> QED
  BY <1>1, <1>2, TypeInit, TypeStep, PTL DEF Spec
=============================================================================
