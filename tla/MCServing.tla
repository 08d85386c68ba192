----------------------------- MODULE MCServing ------------------------------
(* Instances of Serving for TLC.                                           *)
EXTENDS Serving, TLC

CONSTANTS missing, none

ToPlan(operator, plan, priority, variant) ==
    [attribute |-> "plan", operator |-> operator, values |-> <<plan>>,
     priority |-> priority, variant |-> variant]

ProIsOn     == ToPlan("in", "pro", 0, none)
ProGetsOne  == ToPlan("eq", "pro", 1, 1)
PaidGetsTwo == ToPlan("not_in", "free", 0, 2)
PaidIsOn    == ToPlan("neq", "free", 0, none)

\* No rule, two of equal priority, two out of order.
FewRuleLists == {<<>>, <<ProIsOn, PaidIsOn>>, <<ProGetsOne, PaidGetsTwo>>}

\* A boolean flag, two arms, three of which one is empty; refused are one arm, and
\* weights that sum up to less or more.
FewVariantSets == {[k \in {} |-> 0], 1 :> 1 @@ 2 :> 2, 1 :> 2 @@ 2 :> 0 @@ 3 :> 1,
                   1 :> 3, 1 :> 1 @@ 2 :> 1, 1 :> 3 @@ 2 :> 1}

\* Both rules match, one, or none.
FewContexts == {[plan |-> "pro"], [plan |-> "team"], [plan |-> missing]}
=============================================================================
