---------------------------- MODULE ConfigStore ----------------------------
(***************************************************************************)
(* The handlers that edit the environments (internal/web/handlers.go) step *)
(* by step, on the memory of module EnvSlice and on config.yaml.  Every    *)
(* request has a goroutine of its own, a member of Handlers, and nothing   *)
(* in the code keeps two of them apart: between any two steps of one, the  *)
(* others may take theirs, or the process may be killed and started again. *)
(*                                                                         *)
(* The grain is one call or statement that reads or writes the slice.      *)
(* Finer interleavings exist (a search that meets a shift, words of a      *)
(* slice header torn by a data race).  So what overlapping handlers are    *)
(* SHOWN to do here they do; what is shown never to happen is shown for    *)
(* handlers that do not overlap, and for others as far as one call or      *)
(* statement of each at a time goes.                                       *)
(*                                                                         *)
(* Abstracted: an environment is its name and its BECS password; the other *)
(* credentials of the form are kept or replaced the same way.  A request   *)
(* that is refused before it comes to the slice (a form that cannot be     *)
(* parsed, no password, an unknown name) changes nothing and is no step.   *)
(***************************************************************************)
EXTENDS EnvSlice, FiniteSets

CONSTANTS
  Handlers,     \* the goroutines that serve the environment pages
  Names,        \* environment names
  Passwords,    \* encrypted passwords
  Blank,        \* a password field left empty
  Requests,     \* what the browser may submit
  InitialEnvs,  \* what config.yaml holds at first
  Overlaps,     \* whether a request may come while another is served: {TRUE},
                \* {FALSE}, or both to look at either
  MaxRequests, MaxFaults   \* bounds of the counters below

Env == [name : Names, password : Passwords]
Form == [name : Names, password : Passwords \cup {Blank}]
Request ==
  [kind : {"create"}, form : Form] \cup [kind : {"update"}, old : Names, form : Form]
    \cup [kind : {"delete"}, old : Names]

ASSUME StoreAssumption ==
  /\ Blank \notin Passwords
  /\ Requests \subseteq Request
  /\ InitialEnvs \in Seq(Env) /\ UniqueNames(Loaded(InitialEnvs))
  /\ Overlaps \subseteq BOOLEAN
  /\ {MaxRequests, MaxFaults} \subseteq Nat

VARIABLES
  envs,          \* the memory behind cfg.Environments
  cfgFile,       \* the environments in config.yaml
  pc,            \* where each handler is
  req,           \* the request it serves
  existing,      \* the pointer updateEnvironment holds
  env,           \* the environment it is about to put into the slice
  idx,           \* the index it found in Update or Remove
  snap,          \* what yaml.Marshal returned to it
  overlapping,   \* whether requests overlap in this behaviour
  answer,        \* its last answer: "saved" for a redirect that says it is done
  arrivals, faults   \* how much of the bounds is used up

handlerVars == <<pc, req, existing, env, idx, snap>>
vars == <<envs, cfgFile, handlerVars, overlapping, answer, arrivals, faults>>

-----------------------------------------------------------------------------
Places == {"idle", "fill", "add", "append", "update", "store", "shift", "marshal", "rename"}
NoPointer == [buf |-> 0, idx |-> 0]
Nothing == <<>>   \* a local variable that has no value yet

Init ==
  /\ envs = Loaded(InitialEnvs)
  /\ cfgFile = InitialEnvs
  /\ pc = [h \in Handlers |-> "idle"]
  /\ req = [h \in Handlers |-> Nothing]
  /\ existing = [h \in Handlers |-> NoPointer]
  /\ env = [h \in Handlers |-> Nothing]
  /\ idx = [h \in Handlers |-> 0]
  /\ snap = [h \in Handlers |-> Nothing]
  /\ answer = [h \in Handlers |-> "none"]
  /\ overlapping \in Overlaps
  /\ arrivals = 0 /\ faults = 0

Goto(h, place) == pc' = [pc EXCEPT ![h] = place]
Fault == faults < MaxFaults /\ faults' = faults + 1
NoFault == UNCHANGED faults

\* The handler answers; what it held is gone.
Answers(h, what) ==
  /\ answer' = [answer EXCEPT ![h] = what]
  /\ Goto(h, "idle")
  /\ req' = [req EXCEPT ![h] = Nothing]
  /\ existing' = [existing EXCEPT ![h] = NoPointer]
  /\ env' = [env EXCEPT ![h] = Nothing]
  /\ idx' = [idx EXCEPT ![h] = 0]
  /\ snap' = [snap EXCEPT ![h] = Nothing]

\* An index that the slice no longer has: net/http recovers the panic and drops
\* the connection.
Panics(h) == Answers(h, "none") /\ UNCHANGED <<envs, cfgFile>>

-----------------------------------------------------------------------------
(* A request comes *)

Begins(h, r) ==
  /\ pc[h] = "idle"
  /\ overlapping \/ \A g \in Handlers : pc[g] = "idle"
  /\ arrivals < MaxRequests /\ arrivals' = arrivals + 1
  /\ req' = [req EXCEPT ![h] = r]
  /\ answer' = [answer EXCEPT ![h] = "none"]
  /\ UNCHANGED <<envs, cfgFile, snap, overlapping, faults>>

\* createEnvironment: a BECS password is required.
BeginCreate(h, r) ==
  /\ r.kind = "create" /\ r.form.password # Blank
  /\ Begins(h, r)
  /\ env' = [env EXCEPT ![h] = r.form]
  /\ Goto(h, "add")
  /\ UNCHANGED <<existing, idx>>

\* updateEnvironment: the environment is looked up for its credentials.
\*   mutant: nobody looks whether there is one
BeginUpdateUnchecked(h, r) ==
  /\ r.kind = "update"
  /\ Begins(h, r)
  /\ existing' = [existing EXCEPT ![h] = PointerTo(envs, FindByName(envs, r.old))]
  /\ Goto(h, "fill")
  /\ UNCHANGED <<env, idx>>

BeginUpdate(h, r) ==
  /\ r.kind = "update" /\ FindByName(envs, r.old) # 0
  /\ Begins(h, r)
  /\ existing' = [existing EXCEPT ![h] = PointerTo(envs, FindByName(envs, r.old))]
  /\ Goto(h, "fill")
  /\ UNCHANGED <<env, idx>>

\* deleteEnvironment and the search of Remove.
BeginDelete(h, r) ==
  /\ r.kind = "delete" /\ FindByName(envs, r.old) # 0
  /\ Begins(h, r)
  /\ idx' = [idx EXCEPT ![h] = FindByName(envs, r.old)]
  /\ Goto(h, "shift")
  /\ UNCHANGED <<existing, env>>

-----------------------------------------------------------------------------
(* The memory is changed *)

\* Credentials left blank are read through the pointer (maybeEncrypt).
\*   mutant: an empty field is taken for the new password of the environment
\*   that happens to be first
FillFirst(h) ==
  /\ pc[h] = "fill"
  /\ LET form == req[h].form
         kept == Backing(envs)[1].password IN
     env' = [env EXCEPT ![h] = IF form.password = Blank THEN [form EXCEPT !.password = kept] ELSE form]
  /\ Goto(h, "update")
  /\ UNCHANGED <<envs, cfgFile, req, existing, idx, snap, overlapping, answer, arrivals, faults>>

Fill(h) ==
  /\ pc[h] = "fill"
  /\ LET form == req[h].form
         kept == Deref(envs, existing[h]).password IN
     env' = [env EXCEPT ![h] = IF form.password = Blank THEN [form EXCEPT !.password = kept] ELSE form]
  /\ Goto(h, "update")
  /\ UNCHANGED <<envs, cfgFile, req, existing, idx, snap, overlapping, answer, arrivals, faults>>

\* Config.Add: the search, then the append.
CheckAdd(h) ==
  /\ pc[h] = "add"
  /\ \/ AddFails(envs, env[h]) /\ Answers(h, "refused")
     \/ /\ ~AddFails(envs, env[h])
        /\ Goto(h, "append")
        /\ UNCHANGED <<req, existing, env, idx, snap, answer>>
  /\ UNCHANGED <<envs, cfgFile, overlapping, arrivals, faults>>

AppendEnv(h) ==
  /\ pc[h] = "append"
  /\ envs' = Appended(envs, env[h])
  /\ Goto(h, "marshal")
  /\ UNCHANGED <<cfgFile, req, existing, env, idx, snap, overlapping, answer, arrivals, faults>>

\* Config.Update: the searches, then the assignment to the index found.
CheckUpdate(h) ==
  /\ pc[h] = "update"
  /\ \/ UpdateFails(envs, req[h].old, env[h]) /\ Answers(h, "refused")
     \/ /\ ~UpdateFails(envs, req[h].old, env[h])
        /\ idx' = [idx EXCEPT ![h] = FindByName(envs, req[h].old)]
        /\ Goto(h, "store")
        /\ UNCHANGED <<req, existing, env, snap, answer>>
  /\ UNCHANGED <<envs, cfgFile, overlapping, arrivals, faults>>

StoreEnv(h) ==
  /\ pc[h] = "store"
  /\ \/ idx[h] > envs.len /\ Panics(h)
     \/ /\ idx[h] <= envs.len
        /\ envs' = Assigned(envs, idx[h], env[h])
        /\ Goto(h, "marshal")
        /\ UNCHANGED <<cfgFile, req, existing, env, idx, snap, answer>>
  /\ UNCHANGED <<overlapping, arrivals, faults>>

\* The shift of Config.Remove.
\*   mutant: it starts one slot too late
ShiftNext(h) ==
  /\ pc[h] = "shift"
  /\ envs' = [envs EXCEPT !.heap[envs.buf] = Shifted(Backing(envs), idx[h] + 1, envs.len),
                          !.len = @ - 1]
  /\ Goto(h, "marshal")
  /\ UNCHANGED <<cfgFile, req, existing, env, idx, snap, overlapping, answer, arrivals, faults>>

ShiftEnvs(h) ==
  /\ pc[h] = "shift"
  /\ \/ idx[h] > envs.len /\ Panics(h)
     \/ /\ idx[h] <= envs.len
        /\ envs' = Removed(envs, idx[h])
        /\ Goto(h, "marshal")
        /\ UNCHANGED <<cfgFile, req, existing, env, idx, snap, answer>>
  /\ UNCHANGED <<overlapping, arrivals, faults>>

-----------------------------------------------------------------------------
(* Config.Save, and the answer *)

\* deleteEnvironment only logs that the save has failed.
Unsaved(h) == IF req[h].kind = "delete" THEN "saved" ELSE "unsaved"

Marshal(h) ==
  /\ pc[h] = "marshal"
  /\ snap' = [snap EXCEPT ![h] = Environments(envs)]
  /\ Goto(h, "rename")
  /\ UNCHANGED <<envs, cfgFile, req, existing, env, idx, overlapping, answer, arrivals, faults>>

\* The temporary file takes the place of config.yaml, or something fails first.
\*   mutant: no handler looks at the error of Save
RenameAnyway(h) ==
  /\ pc[h] = "rename"
  /\ \/ cfgFile' = snap[h] /\ NoFault
     \/ UNCHANGED cfgFile /\ Fault
  /\ Answers(h, "saved")
  /\ UNCHANGED <<envs, overlapping, arrivals>>

Rename(h) ==
  /\ pc[h] = "rename"
  /\ \/ cfgFile' = snap[h] /\ Answers(h, "saved") /\ NoFault
     \/ UNCHANGED cfgFile /\ Answers(h, Unsaved(h)) /\ Fault
  /\ UNCHANGED <<envs, overlapping, arrivals>>

-----------------------------------------------------------------------------
\* The process is killed and started again.
Restart ==
  /\ Fault
  /\ envs' = Loaded(cfgFile)
  /\ pc' = [h \in Handlers |-> "idle"]
  /\ req' = [h \in Handlers |-> Nothing]
  /\ existing' = [h \in Handlers |-> NoPointer]
  /\ env' = [h \in Handlers |-> Nothing]
  /\ idx' = [h \in Handlers |-> 0]
  /\ snap' = [h \in Handlers |-> Nothing]
  /\ answer' = [h \in Handlers |-> "none"]
  /\ UNCHANGED <<cfgFile, overlapping, arrivals>>

\* Nothing is asked of the program any more: it waits.
Waits ==
  /\ arrivals = MaxRequests \/ Requests = {}
  /\ \A h \in Handlers : pc[h] = "idle"
  /\ UNCHANGED vars

Begin(h) == \E r \in Requests : BeginCreate(h, r) \/ BeginUpdate(h, r) \/ BeginDelete(h, r)

Handle(h) ==
  \/ Fill(h) \/ CheckAdd(h) \/ AppendEnv(h) \/ CheckUpdate(h) \/ StoreEnv(h) \/ ShiftEnvs(h)
  \/ Marshal(h) \/ Rename(h)

Next ==
  \/ \E h \in Handlers : Begin(h) \/ Handle(h)
  \/ Restart
  \/ Waits

Spec == Init /\ [][Next]_vars

-----------------------------------------------------------------------------
(* Properties *)

\* Every variable has its type, and no pointer of a handler leads nowhere.  Its
\* index may: where another delete has shortened the slice the handler Panics.
TypeOK ==
  /\ WellFormed(envs, Env)
  /\ cfgFile \in Seq(Env)
  /\ pc \in [Handlers -> Places]
  /\ req \in [Handlers -> Request \cup {Nothing}]
  /\ \A h \in Handlers : pc[h] = "fill" => PointerValid(envs, existing[h])
  /\ env \in [Handlers -> Env \cup {Nothing}]
  /\ \A h \in Handlers : pc[h] \in {"add", "append", "update", "store"} => env[h] \in Env
  /\ idx \in [Handlers -> Nat]
  /\ snap \in [Handlers -> Seq(Env)]
  /\ overlapping \in BOOLEAN
  /\ answer \in [Handlers -> {"none", "refused", "unsaved", "saved"}]
  /\ {arrivals, faults} \subseteq Nat

\* "name is the unique identifier" (config.go:198), in memory and in the file:
\* it is as long as no two handlers overlap, through renames, failed saves
\* and restarts.  Overlapping creates may both find a name free and both add it.
NamesStayUnique == ~overlapping => UniqueNames(envs) /\ UniqueNames(Loaded(cfgFile))

\* "Update replaces the Environment matching oldName" (config.go:207) and "Keep
\* existing encrypted password if field left blank" (handlers.go:223): the slot
\* that is overwritten is that of the name in the request, and with the field
\* left blank it keeps the password it has.  So it is for handlers that do not
\* overlap; a delete in between shifts another environment into that slot, or
\* under the pointer the password is read through.
ReplacesItsOwn(h) ==
  LET old == Backing(envs)[idx[h]] IN
    /\ old.name = req[h].old
    /\ req[h].form.password = Blank => env[h].password = old.password
UpdateReplacesItsOwn ==
  [][\A h \in Handlers : pc[h] = "store" /\ pc'[h] = "marshal" => ReplacesItsOwn(h)]_vars
UpdateKeepsPassword ==
  [][\A h \in Handlers :
       ~overlapping /\ pc[h] = "store" /\ pc'[h] = "marshal" => ReplacesItsOwn(h)]_vars

\* However requests overlap: an update that is under way goes on holding what it
\* found, the pointer that the kept credentials are read through showing the
\* environment of the request (handlers.go:206-224) and the index being that
\* environment's until Update has written there (config.go:208-220), unless a
\* delete or a rename takes effect.  Creates that move the slice to another array
\* and updates of this or another environment do no harm, nor does a restart.
InPlace(h) ==
  /\ pc[h] = "fill" => InSlice(envs, existing[h]) /\ Deref(envs, existing[h]).name = req[h].old
  /\ pc[h] = "store" => idx[h] \in 1..envs.len /\ Backing(envs)[idx[h]].name = req[h].old
PlaceInv == \A h \in Handlers : InPlace(h)
DeletesOrRenames ==
  \E h \in Handlers : ShiftEnvs(h) \/ (StoreEnv(h) /\ env[h].name # req[h].old)
OnlyMovesMislead == [][PlaceInv => PlaceInv' \/ DeletesOrRenames]_vars

\* However requests overlap: two environments come to share a name, in memory, in
\* config.yaml or in what Save is about to write there, only by a create or update
\* whose search has been overtaken (config.go:199-221): at its append or assignment
\* it would find the name taken now, or another environment at its index.  No
\* delete does it, at whatever index, no restart, and no save, in whatever order
\* config.yaml is replaced.
NamesUnique ==
  /\ UniqueNames(envs) /\ UniqueNames(Loaded(cfgFile))
  /\ \A h \in Handlers : pc[h] = "rename" => UniqueNames(Loaded(snap[h]))
Overtaken(h) ==
  \/ AppendEnv(h) /\ AddFails(envs, env[h])
  \/ /\ StoreEnv(h) /\ idx[h] <= envs.len
     /\ Backing(envs)[idx[h]].name # req[h].old \/ UpdateFails(envs, req[h].old, env[h])
Collides == \E h \in Handlers : Overtaken(h)
OnlyOvertakenDuplicate == [][NamesUnique => NamesUnique' \/ Collides]_vars

\* An answer that an environment was created or updated (handlers.go:196, 239) is
\* given only when config.yaml holds all that is in memory, that edit included,
\* and whatever earlier saves had failed to write.
AnswerMeansSaved ==
  [][\A h \in Handlers :
       /\ ~overlapping
       /\ pc[h] = "rename" /\ req[h].kind # "delete" /\ answer'[h] = "saved"
       => /\ cfgFile' = Environments(envs')
          /\ \E i \in DOMAIN cfgFile' : cfgFile'[i] = env[h]]_vars

\* The pages keep the promise of module EnvStore: requests that do not overlap
\* each change what they ask for and nothing else, one that is refused changes
\* nothing, and nothing is lost but what a restart finds unsaved.
Serving == ~overlapping /\ \E h \in Handlers : pc[h] # "idle"
Server == CHOOSE h \in Handlers : pc[h] # "idle"
Stored(s) ==
  IF overlapping
  THEN <<>>
  ELSE [n \in {s[i].name : i \in DOMAIN s} |->
          s[CHOOSE i \in DOMAIN s : s[i].name = n].password]
Store == INSTANCE EnvStore WITH
  None <- Nothing,
  store <- Stored(Environments(envs)),
  saved <- Stored(cfgFile),
  asked <- IF Serving THEN req[Server] ELSE Nothing,
  edited <- Serving /\ pc[Server] \in {"marshal", "rename"}
KeepsTheStore == Store!SSpec
=============================================================================
