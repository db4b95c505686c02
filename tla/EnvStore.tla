------------------------------ MODULE EnvStore ------------------------------
(***************************************************************************)
(* What the environment pages promise: every name has one password, one    *)
(* request is served after the other, each makes the edit it asks for and  *)
(* no other, or is refused because the name is taken; config.yaml is only  *)
(* ever replaced by what is in memory, and a restart brings back what was  *)
(* saved last.                                                             *)
(***************************************************************************)
CONSTANTS
  Names, Passwords, Blank,
  Requests,   \* what may be asked
  None        \* no request is being served

VARIABLES
  store,    \* the environments in memory: from names to passwords
  saved,    \* those in config.yaml
  asked,    \* the request being served
  edited    \* whether its edit has been made

storeVars == <<store, saved, asked, edited>>

Stores == UNION {[S -> Passwords] : S \in SUBSET Names}

SInit == store \in Stores /\ saved = store /\ asked = None /\ edited = FALSE

\* A create names a password, an update and a delete name an environment.
Ask(request) ==
  /\ asked = None /\ asked' = request
  /\ IF request.kind = "create" THEN request.form.password # Blank ELSE request.old \in DOMAIN store
  /\ UNCHANGED <<store, saved, edited>>

Serves(kind) == asked # None /\ asked.kind = kind /\ ~edited

Done == asked' = None /\ edited' = FALSE

\* The environments in S as they are, and one under the name of the form.
Puts(S, password) ==
  /\ asked.form.name \notin S
  /\ store' = [x \in S \cup {asked.form.name} |-> IF x = asked.form.name THEN password ELSE store[x]]
  /\ edited' = TRUE /\ UNCHANGED <<saved, asked>>

Create == Serves("create") /\ Puts(DOMAIN store, asked.form.password)

\* A password left blank is kept.
Change ==
  /\ Serves("update")
  /\ Puts(DOMAIN store \ {asked.old},
          IF asked.form.password = Blank THEN store[asked.old] ELSE asked.form.password)

Delete ==
  /\ Serves("delete")
  /\ store' = [x \in DOMAIN store \ {asked.old} |-> store[x]]
  /\ edited' = TRUE /\ UNCHANGED <<saved, asked>>

Refuse ==
  /\ \/ Serves("create") /\ asked.form.name \in DOMAIN store
     \/ Serves("update") /\ asked.form.name \in DOMAIN store \ {asked.old}
  /\ Done
  /\ UNCHANGED <<store, saved>>

\* After an edit config.yaml is written, unless that fails.
Answer ==
  /\ edited /\ Done
  /\ saved' \in {saved, store}
  /\ UNCHANGED store

Restart == store' = saved /\ Done /\ UNCHANGED saved

SNext ==
  \/ \E request \in Requests : Ask(request)
  \/ Create \/ Change \/ Delete \/ Refuse
  \/ Answer
  \/ Restart

SSpec == SInit /\ [][SNext]_storeVars
=============================================================================
