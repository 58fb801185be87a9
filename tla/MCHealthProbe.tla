--------------------------- MODULE MCHealthProbe ---------------------------
(***************************************************************************)
(* Two or three callers with their children, real calls and an operator.   *)
(***************************************************************************)
EXTENDS HealthProbe, TLC

\* Callers differ in nothing but their names, and so do calls.
ProcessSymmetry == Permutations(Caller) \cup Permutations(Call)
=============================================================================
