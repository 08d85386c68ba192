--------------------------- MODULE MCRulesetServes ---------------------------
(* Instances of RulesetServes for TLC. *)
EXTENDS MCRulesetCache, RulesetServes
=============================================================================
