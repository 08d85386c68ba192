------------------------------- MODULE Engine -------------------------------
(***************************************************************************)
(* ripcord/engine.py: what a flag serves to a user. The same code runs in  *)
(* the server's /evaluate and in the SDK.                                  *)
(*                                                                         *)
(* The two hashes of a (flag, user) pair are part of the user: nothing     *)
(* here depends on how they are computed. A variant is a number, ordered   *)
(* as the keys are. The variants of a flag are a function from its keys to *)
(* their weights: the schema refuses duplicates, FlagOut and the ORM sort  *)
(* them, and choose_variant sorts them again, so their order is lost. The  *)
(* fractions of choose_variant are only compared, and compared exactly.    *)
(***************************************************************************)
EXTENDS Integers, Sequences, Functions

CONSTANTS
    Whole,         \* 100 per cent
    BucketCount,   \* _BUCKET_COUNT = 10_000
    Names,         \* how many keys variants may have
    Missing,       \* context.get of an attribute that is not there
    NoVariant      \* None

ASSUME BucketAssumption ==
    /\ Whole \in Nat \ {0}
    /\ BucketCount \in Nat \ {0}
    /\ BucketCount % Whole = 0

ASSUME NamesAssumption == Names \in Nat /\ NoVariant \notin 1 .. Names

VariantNames == 1 .. Names

Buckets == 0 .. BucketCount - 1

VariantKeys(flag) == DOMAIN flag.variants

\* Mutant: the name is taken as it stands.
FindUnchecked(flag, name) == name

FindVariant(flag, name) == IF name \in VariantKeys(flag) THEN name ELSE NoVariant

RuleMatches(rule, context) ==
    LET actual == context[rule.attribute] IN
    /\ actual # Missing
    /\ \/ rule.operator = "in"     /\ actual \in Range(rule.values)
       \/ rule.operator = "not_in" /\ actual \notin Range(rule.values)
       \/ rule.operator = "eq"     /\ rule.values # <<>> /\ actual = rule.values[1]
       \/ rule.operator = "neq"    /\ rule.values # <<>> /\ actual # rule.values[1]

Threshold(flag) == flag.rollout * (BucketCount \div Whole)

\* Mutant: the percentage is part of what is hashed.
InRolloutRehashed(flag, user) ==
    LET bucket == (user.bucket + BucketCount - flag.rollout) % BucketCount IN
    /\ flag.rollout > 0
    /\ flag.rollout >= Whole \/ bucket < Threshold(flag)

InRollout(flag, user) ==
    /\ flag.rollout > 0
    /\ flag.rollout >= Whole \/ user.bucket < Threshold(flag)

-----------------------------------------------------------------------------
(* choose_variant                                                          *)

Least(S) == CHOOSE k \in S : \A j \in S : k <= j
Last(S)  == CHOOSE k \in S : \A j \in S : j <= k

\* The weights of the variants up to k.
Cumulative(weights, k) ==
    FoldFunctionOnSet(+, 0, weights, {j \in DOMAIN weights : j <= k})

Total(weights) == FoldFunctionOnSet(+, 0, weights, DOMAIN weights)

Above(weights, bucket) ==
    {k \in DOMAIN weights :
        bucket * Total(weights) < Cumulative(weights, k) * BucketCount}

Banded(weights, bucket) ==
    IF Total(weights) <= 0 THEN Least(DOMAIN weights)
    ELSE IF Above(weights, bucket) # {} THEN Least(Above(weights, bucket))
    ELSE Last(DOMAIN weights)

\* Mutant: no salt, the bands are cut in the bucket of the rollout.
ChooseUnsalted(flag, user) ==
    IF VariantKeys(flag) = {} THEN NoVariant ELSE Banded(flag.variants, user.bucket)

ChooseVariant(flag, user) ==
    IF VariantKeys(flag) = {} THEN NoVariant ELSE Banded(flag.variants, user.vbucket)

-----------------------------------------------------------------------------
(* evaluate                                                                *)

Served(reason, variant)  == [enabled |-> TRUE, reason |-> reason, variant |-> variant]

OffResult(flag, reason) ==
    [enabled |-> FALSE, reason |-> reason, variant |-> FindVariant(flag, flag.off)]

Matching(flag, user) ==
    {i \in DOMAIN flag.rules : RuleMatches(flag.rules[i], user.context)}

Deciding(flag, user) == flag.rules[Least(Matching(flag, user))]

\* The variant that the first matching rule pins, if the flag still has it.
Targeted(flag, user) ==
    LET pinned == FindVariant(flag, Deciding(flag, user).variant)
    IN  IF pinned # NoVariant THEN pinned ELSE ChooseVariant(flag, user)

Evaluate(flag, user) ==
    IF ~flag.enabled
        THEN OffResult(flag, "flag_disabled")
    ELSE IF Matching(flag, user) # {}
        THEN Served("targeting_match", Targeted(flag, user))
    ELSE IF InRollout(flag, user)
        THEN Served("rollout_included", ChooseVariant(flag, user))
    ELSE OffResult(flag, "rollout_excluded")
=============================================================================
