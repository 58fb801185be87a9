----------------------------- MODULE MCReadGate -----------------------------
(***************************************************************************)
(* A read and a call, next to an operator who may disable, activate,       *)
(* remove or re-add a model and to the probes of the second model.         *)
(***************************************************************************)
EXTENDS ReadGate

CONSTANTS m1, m2

\* The second model is active, or it is not registered yet and earlier calls
\* have paused the first.
MCSeeds ==
    {[registry |-> <<m1, m2>>, active |-> m2, paused |-> {}],
     [registry |-> <<m1>>, active |-> NoModel, paused |-> {<<m1, "bulk-read">>}]}
=============================================================================
