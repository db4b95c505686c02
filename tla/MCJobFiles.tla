----------------------------- MODULE MCJobFiles -----------------------------
(* Values of JobFiles' constants for TLC. *)
EXTENDS JobFiles, TLC

CONSTANTS t1, t2, t3, u1

ThreeTemps == {t1, t2, t3}
OneUser == {u1}
TempSymmetry == Permutations(ThreeTemps)
=============================================================================
