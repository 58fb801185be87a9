--------------------------- MODULE MCChildProcess ---------------------------
(***************************************************************************)
(* A leader and the helpers it starts.                                     *)
(***************************************************************************)
EXTENDS ChildProcess, TLC

\* The helpers differ in nothing but their names.
HelperSymmetry == Permutations(Helper)
=============================================================================
