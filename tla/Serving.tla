------------------------------ MODULE Serving -------------------------------
(***************************************************************************)
(* What evaluate() is given: the way of one flag from its rows in Postgres *)
(* to the FlagSpec that the engine evaluates, through services.py, the     *)
(* schemas and the ORM relationships of models.py.                         *)
(*                                                                         *)
(* The flag written last reaches the engine by one of two roads. A write   *)
(* announces the Flag object of its own session, whose collections keep    *)
(* the order they were assigned in; a SELECT (a cold cache, /ruleset, an   *)
(* evaluation without Redis) loads the rules ORDER BY priority. Between    *)
(* the SELECTs of flags, targeting_rules and variants a write may commit.  *)
(* When which copy is in Redis is the subject of RulesetCache; here any    *)
(* evaluation may meet the last one made.                                  *)
(***************************************************************************)
EXTENDS Engine, FiniteSets

CONSTANTS
    RuleLists,     \* the lists of rules that requests carry
    VariantSets,   \* the weights they give, valid or not
    Offs,          \* the variants that off_variant may name
    Contexts       \* the contexts that users have

Rule == [attribute : STRING, operator : {"in", "not_in", "eq", "neq"},
         values : Seq(STRING), priority : Int, variant : VariantNames \cup {NoVariant}]

\* The variants of a boolean flag.
NoWeights == [name \in {} |-> 0]

ASSUME ListsAssumption ==
    /\ RuleLists \subseteq Seq(Rule)
    /\ Offs \subseteq VariantNames
    /\ NoWeights \in VariantSets
    /\ \A variants \in VariantSets :
           /\ DOMAIN variants \subseteq VariantNames
           /\ \A k \in DOMAIN variants : variants[k] \in 0 .. Whole

VARIABLES
    row,           \* the flag as committed, its rules as they were given
    spec           \* the FlagSpec made of it last

vars == <<row, spec>>

FlagType == [enabled : BOOLEAN, rollout : 0 .. Whole, variants : VariantSets,
             rules : Seq(Rule), off : Offs \cup {NoVariant}]

User == [bucket : Buckets, vbucket : Buckets, context : Contexts]

\* No variants, or at least two that share out the whole.
SharesAll(weights) ==
    DOMAIN weights # {} => /\ Cardinality(DOMAIN weights) >= 2
                           /\ Total(weights) = Whole

\* ... and the flag defines the variants its rules pin and its off_variant.
IsCoherent(flag) ==
    /\ SharesAll(flag.variants)
    /\ flag.off \in VariantKeys(flag) \cup {NoVariant}
    /\ \A i \in DOMAIN flag.rules :
           flag.rules[i].variant \in VariantKeys(flag) \cup {NoVariant}

TypeOK ==
    /\ row \in FlagType /\ row.rules \in RuleLists /\ IsCoherent(row)
    /\ spec \in FlagType

\* A flag as a request may leave it.
Written == [enabled : BOOLEAN, rollout : 0 .. Whole, variants : VariantSets,
            rules : RuleLists, off : Offs \cup {NoVariant}]

\* Mutant: the parts of a request are not checked against each other.
RowsUnchecked == Written

Rows == {f \in Written : IsCoherent(f)}

Reordered(rules) ==
    {[i \in DOMAIN rules |-> rules[p[i]]] : p \in Bijection(DOMAIN rules, DOMAIN rules)}

Ascending(rules) ==
    \A i, j \in DOMAIN rules : i < j => rules[i].priority <= rules[j].priority

\* Rules as a query returns them: equal priorities in any order.
ByPriority(rules) == {s \in Reordered(rules) : Ascending(s)}

-----------------------------------------------------------------------------

\* create_flag, and the payload it announces.
Init ==
    /\ row \in Rows
    /\ spec = row

\* update_flag with rules: the flag it announces lists them as the body did.
Replace(new) ==
    /\ row' = new
    /\ spec' = new

\* update_flag without rules: they stay as its session loaded them.
Edit(new) ==
    /\ new.rules = row.rules
    /\ row' = new
    /\ \E rules \in ByPriority(row.rules) : spec' = [new EXCEPT !.rules = rules]

\* Mutant: in a session that is used again, the identity map keeps the columns.
LoadInOldSession ==
    /\ UNCHANGED row
    /\ \E rules \in ByPriority(row.rules) :
           spec' = [spec EXCEPT !.rules = rules, !.variants = row.variants]

\* get_flag or list_flags.
Load ==
    /\ UNCHANGED row
    /\ \E rules \in ByPriority(row.rules) : spec' = [row EXCEPT !.rules = rules]

\* The rules a flag may have been committed with.
Lists == {flag.rules : flag \in Rows}

\* The same, while writes commit after the flags row was read and before the
\* variants were: the rules are those of before, of after, or of a write between.
\* (A write takes a version: the row is another one.)
TornLoad(new) ==
    /\ new # row
    /\ row' = new
    /\ \E list \in Lists : \E rules \in ByPriority(list) :
           spec' = [row EXCEPT !.rules = rules, !.variants = new.variants]

\* The same, while the flag is deleted, and may be created anew: no variants refer
\* to the row that was read, nor any rules if they were read later still.
TornByDeletion(new) ==
    /\ new # row
    /\ row' = new
    /\ \E rules \in ByPriority(row.rules) \cup {<<>>} :
           spec' = [row EXCEPT !.rules = rules, !.variants = NoWeights]

Next ==
    \/ \E new \in Rows :
           Replace(new) \/ Edit(new) \/ TornLoad(new) \/ TornByDeletion(new)
    \/ Load

Spec == Init /\ [][Next]_vars

-----------------------------------------------------------------------------

(* The SDK's accessors, for a flag that the copy has. *)

IsEnabled(result) == result.enabled

\* variant, and the key of what value returns: the caller's default is for None.
Variant(result, default) ==
    IF result.variant = NoVariant THEN default ELSE result.variant

-----------------------------------------------------------------------------

\* Whatever is loaded, an application is served something that exists: a user who
\* is in gets one of the flag's variants whatever default the caller names, or
\* the default of a boolean flag; a user who is out gets the off_variant or the
\* default. The master switch is obeyed.
IsServable(flag, user) ==
    LET result == Evaluate(flag, user) IN
    /\ IsEnabled(result) => flag.enabled
    /\ \A default \in VariantNames \cup {NoVariant} :
           Variant(result, default) \in
               IF IsEnabled(result) /\ VariantKeys(flag) # {}
               THEN VariantKeys(flag)
               ELSE {default} \cup (VariantKeys(flag) \cap {flag.off})

ResultsAreServable == \A user \in User : IsServable(spec, user)

\* The next flag differs in a higher rollout, and in the order of its rules.
IsRaised(old, new) ==
    /\ new = [old EXCEPT !.rollout = new.rollout, !.rules = new.rules]
    /\ old.rollout < new.rollout
    /\ new.rules \in Reordered(old.rules)

\* A user who is in stays in, and if by the rollout, with the same variant.
KeepsWhatItServes(old, new, user) ==
    LET result == Evaluate(old, user) IN
    result.enabled =>
        /\ Evaluate(new, user).enabled
        /\ result.reason = "rollout_included" => Evaluate(new, user) = result

\* "Monotonic": to raise the rollout only adds users, and whoever it included
\* before is served what he was.
RaisingOnlyAdds ==
    [][IsRaised(spec, spec') =>
           \A user \in User : KeepsWhatItServes(spec, spec', user)]_vars

\* The users who are in with this variant.
Included(flag, context, variant) ==
    {b \in Buckets \X Buckets :
        Evaluate(flag, [bucket |-> b[1], vbucket |-> b[2], context |-> context]) =
            Served("rollout_included", variant)}

\* The weight of a variant, and all of it for the only answer of a boolean flag.
Share(flag, variant) ==
    IF variant = NoVariant THEN Whole ELSE flag.variants[variant]

\* "Decorrelated": among users no rule matches, each variant has exactly the
\* share of its weight in those that the rollout includes, whatever the
\* rollout. The bands leave no gap and no overlap, up to the last bucket.
SharesMatchWeights ==
    \A context \in Contexts :
        spec.enabled /\ ~(\E i \in DOMAIN spec.rules : RuleMatches(spec.rules[i], context)) =>
            \A variant \in IF VariantKeys(spec) = {} THEN {NoVariant} ELSE VariantKeys(spec) :
                Cardinality(Included(spec, context, variant)) * Whole * Whole =
                    Share(spec, variant) * spec.rollout * BucketCount * BucketCount

\* "Sticky": a load serves a user whom at most one rule matches what the flag
\* serves him as it was written, whatever was loaded or announced before.
LoadsServeTheRow ==
    [][row' = row =>
           \A user \in User : Cardinality(Matching(row, user)) <= 1
               => Evaluate(spec', user) = Evaluate(row, user)]_vars

\* "Lower priority numbers are evaluated first" (models.py): no rule that
\* matches has a lower number than the one that decides.
LowerPriorityFirst ==
    spec.enabled =>
        \A user \in User : \A i \in Matching(spec, user) :
            Deciding(spec, user).priority <= spec.rules[i].priority
=============================================================================
