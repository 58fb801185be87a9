---------------------------- MODULE MCChunkPlan ----------------------------
(***************************************************************************)
(* Files of up to four lines, some of them longer than the budget.         *)
(***************************************************************************)
EXTENDS ChunkPlan
=============================================================================
