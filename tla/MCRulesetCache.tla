--------------------------- MODULE MCRulesetCache ---------------------------
(* Instances of RulesetCache for TLC.                                      *)
EXTENDS RulesetCache, TLC

CONSTANTS a, b, w1, w2, e1, e2, s1

\* Each flag has one operator, or both operators may change every flag.
OnlyA         == [w \in Writers |-> {a}]
AllShared     == [w \in Writers |-> Keys]

Symmetry == Permutations(Writers) \cup Permutations(Evaluators)
=============================================================================
