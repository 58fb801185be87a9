--------------------------- MODULE MCHttpExchange ---------------------------
(***************************************************************************)
(* A limit of 2 or none, with a shorter, an equal, a longer and no limit   *)
(* for connecting; a host with two addresses; answers of up to two bytes   *)
(* and a third that is too many.                                           *)
(***************************************************************************)
EXTENDS HttpExchange
=============================================================================
