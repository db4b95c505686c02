------------------------------ MODULE MCRunner ------------------------------
(* Values of Runner's constants for TLC. *)
EXTENDS Runner, TLC

CONSTANTS c1, c2, e1, e2, a, b, new

EnvRec(name, tunnel, enabled) == [name |-> name, tunnel |-> tunnel, enabled |-> enabled]

OneCaller == {c1}
TwoCallers == {c1, c2}
NoEditor == {}
OneEditor == {e1}
TwoEditors == {e1, e2}
TwoNames == {a, b}
ThreeNames == {a, b, new}
TunnelAndDirect == <<EnvRec(a, TRUE, TRUE), EnvRec(b, FALSE, TRUE)>>

\* Take a's tunnel away and disable it, try to give b its name, add a third
\* environment, or rename one to it.
SomeForms == {EnvRec(a, FALSE, FALSE), EnvRec(new, TRUE, TRUE)}
NoForms == {}

BothOrOne == {<<a, b>>, <<a>>}
Both == {<<a, b>>}
OnlyA == {<<a>>}

Symmetric == Permutations(TwoEditors)
=============================================================================
