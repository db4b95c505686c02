--------------------------- MODULE MCConfigStore ---------------------------
(* Values of ConfigStore's constants for TLC. *)
EXTENDS ConfigStore, TLC

CONSTANTS h1, h2, a, b, d, p, q, r

TwoHandlers == {h1, h2}
ThreeNames == {a, b, d}
ThreePasswords == {p, q, r}
TwoEnvs == <<[name |-> a, password |-> p], [name |-> b, password |-> q]>>
ThreeEnvs == Append(TwoEnvs, [name |-> d, password |-> r])

Creates(names, passwords) ==
  [kind : {"create"}, form : [name : names, password : passwords]]
Updates(olds, names, passwords) ==
  [kind : {"update"}, old : olds, form : [name : names, password : passwords]]
Deletes(names) == [kind : {"delete"}, old : names]

\* Every edit, with and without a new password, to names taken and free.
EveryEdit ==
  Creates(ThreeNames, {r}) \cup Updates({a, b}, ThreeNames, {Blank, r}) \cup Deletes(ThreeNames)

EitherWay == BOOLEAN
Overlap == {TRUE}

Symmetric == Permutations(TwoHandlers)

BlankWhileDeleting == Updates({b}, {b}, {Blank}) \cup Deletes({a})
=============================================================================
