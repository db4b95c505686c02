------------------------------ MODULE EnvSlice ------------------------------
(***************************************************************************)
(* Config.Environments of internal/config/config.go: a Go slice of         *)
(* Environment structs and the CRUD methods on it.                         *)
(*                                                                         *)
(* A slice is a header (which backing array, how many elements) over       *)
(* memory that outlives it, and FindByName hands out a POINTER into that   *)
(* memory.  Both are kept here, because what a held pointer reads after a  *)
(* later Add, Update or Remove is what this code's callers depend on:      *)
(*   m.heap   the backing arrays ever allocated, each a sequence of slots; *)
(*   m.buf    the array the slice header points to;                        *)
(*   m.len    the length of the slice (its capacity is the array's).       *)
(* The operators are pure: they return the memory after the call.          *)
(***************************************************************************)
EXTENDS Naturals, Sequences

\* A configuration that Load has just unmarshalled: one fresh array.
Loaded(envs) == [heap |-> <<envs>>, buf |-> 1, len |-> Len(envs)]

\* The array behind the slice, and the environments the slice shows.
Backing(m) == m.heap[m.buf]
Environments(m) == SubSeq(Backing(m), 1, m.len)

Positions(m, name) == {i \in 1..m.len : Backing(m)[i].name = name}

\* The index FindByName returns: the first match, 0 standing for the code's -1.
FindByName(m, name) ==
  IF Positions(m, name) = {}
  THEN 0
  ELSE CHOOSE i \in Positions(m, name) : \A j \in Positions(m, name) : i <= j

\* &c.Environments[i], and what such a pointer reads now.
PointerTo(m, i) == [buf |-> m.buf, idx |-> i]
Deref(m, p) == m.heap[p.buf][p.idx]

\* append(c.Environments, env): in place while the array has room, else the
\* elements are copied to a new array of twice the size and the old one is
\* left, unchanged, to whoever points into it.  Slots past the length are
\* never read, so the new array's are not given a value of their own.
\*   mutant: the new environment goes first
Prepended(m, env) ==
  [heap |-> Append(m.heap, <<env>> \o Environments(m)), buf |-> Len(m.heap) + 1, len |-> m.len + 1]

Appended(m, env) ==
  LET slots == Backing(m) IN
  IF m.len < Len(slots)
  THEN [m EXCEPT !.heap[m.buf][m.len + 1] = env, !.len = m.len + 1]
  ELSE LET size == IF slots = <<>> THEN 1 ELSE 2 * Len(slots)
           grown == [i \in 1..size |-> IF i <= m.len THEN slots[i] ELSE env]
       IN  [heap |-> Append(m.heap, grown), buf |-> Len(m.heap) + 1, len |-> m.len + 1]

\* append(c.Environments[:i], c.Environments[i+1:]...): every later element
\* moves one slot down in the same array; the last slot keeps its old content.
\*   mutant: one too few
ShiftedShort(slots, i, len) ==
  [j \in 1..Len(slots) |-> IF i <= j /\ j < len - 1 THEN slots[j + 1] ELSE slots[j]]

Shifted(slots, i, len) ==
  [j \in 1..Len(slots) |-> IF i <= j /\ j < len THEN slots[j + 1] ELSE slots[j]]

Removed(m, i) ==
  [m EXCEPT !.heap[m.buf] = Shifted(Backing(m), i, m.len), !.len = m.len - 1]

\* c.Environments[idx] = updated
\*   mutant: the slot after it
AssignedNext(m, i, env) == [m EXCEPT !.heap[m.buf][(i % m.len) + 1] = env]
Assigned(m, i, env) == [m EXCEPT !.heap[m.buf][i] = env]

\* Config.Add and Config.Update: when they return an error, and what the whole
\* call leaves behind if nothing comes between its searches and its write.
AddFails(m, env) == FindByName(m, env.name) # 0
Add(m, env) == IF AddFails(m, env) THEN m ELSE Appended(m, env)

\*   mutant: a rename does not look whether the new name is taken
UpdateUnchecked(m, oldName, env) == FindByName(m, oldName) = 0

UpdateFails(m, oldName, env) ==
  \/ FindByName(m, oldName) = 0
  \/ env.name # oldName /\ FindByName(m, env.name) # 0
Update(m, oldName, env) ==
  IF UpdateFails(m, oldName, env) THEN m ELSE Assigned(m, FindByName(m, oldName), env)

\* A well-formed memory of environments from the set E, and a pointer that may
\* be read through.
WellFormed(m, E) ==
  /\ m \in [heap : Seq(Seq(E)), buf : Nat, len : Nat]
  /\ m.buf \in DOMAIN m.heap
  /\ m.len <= Len(Backing(m))

PointerValid(m, p) == p.buf \in DOMAIN m.heap /\ p.idx \in DOMAIN m.heap[p.buf]

\* A pointer into the slice itself, or into an array the slice has left behind.
InSlice(m, p) == p.buf = m.buf => p.idx <= m.len

\* "name is the unique identifier" (the comment on Add).
UniqueNames(m) ==
  \A i, j \in 1..m.len : Backing(m)[i].name = Backing(m)[j].name => i = j
=============================================================================
