----------------------------- MODULE MCHttpCall -----------------------------
(***************************************************************************)
(* Up to four chunks.  A group of a round takes two small answers (2) and  *)
(* no larger one, the last request three small ones or 2 and 5, and an     *)
(* answer of 10 is too big alone: every way a merge can end is there, the  *)
(* depth cap included (2 2 2 5, then 2 2 5, then 5 5).  A second is two    *)
(* ticks, so that a limit and the time left need rounding.                 *)
(***************************************************************************)
EXTENDS HttpCall
=============================================================================
