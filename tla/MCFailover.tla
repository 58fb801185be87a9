----------------------------- MODULE MCFailover -----------------------------
(***************************************************************************)
(* Two calls over the candidates of two models; the configurations choose  *)
(* which models have a healthcheck.                                        *)
(***************************************************************************)
EXTENDS Failover, TLC

SomeOrder == CHOOSE s \in [1..Cardinality(Model) -> Model] : Model = {s[i] : i \in DOMAIN s}

\* The models in some order, any of them active, and none paused, which gives
\* every order of candidates; or all paused in one role by earlier calls.
AllSeeds ==
    [registry : {SomeOrder}, active : Model \cup {NoModel}, paused : {{}}]
    \cup [registry : {SomeOrder}, active : {NoModel}, paused : {Model \X {"code-write"}}]

\* The calls differ in nothing but their names.
CallSymmetry == Permutations(Call)
=============================================================================
