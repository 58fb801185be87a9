--------------------------- MODULE MCBreakerFile ---------------------------
(***************************************************************************)
(* Two processes on the breaker keys of two models.                        *)
(***************************************************************************)
EXTENDS BreakerFile
=============================================================================
