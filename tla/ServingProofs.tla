---------------------------- MODULE ServingProofs ---------------------------
(* What the engine promises, for any numbers of buckets, variants, rules    *)
(* and contexts.                                                            *)
EXTENDS Serving, FiniteSetTheorems, WellFoundedInduction, TLAPS

USE BucketAssumption, NamesAssumption, ListsAssumption
    DEF BucketAssumption, NamesAssumption, ListsAssumption

-----------------------------------------------------------------------------
(* The variant of a band exists.                                            *)

LEMMA LeastIsIn ==
    ASSUME NEW S \in SUBSET Nat, S # {}
    PROVE  Least(S) \in S /\ \A j \in S : Least(S) <= j
<1> DEFINE R == OpToRel(<, Nat)
<1>1. \A x, y \in Nat : <<y, x>> \in R <=> y < x
  BY DEF OpToRel
<1>2. PICK x \in S : \A y \in S : ~ (<<y, x>> \in R)
  <2> HIDE DEF R
  <2>1. IsWellFoundedOn(R, Nat)
    BY NatLessThanWellFounded DEF R
  <2> QED BY <2>1, WFMin
<1>3. ASSUME NEW y \in S PROVE x <= y
  <2>1. x \in Nat /\ y \in Nat
    OBVIOUS
  <2>2. ~ (y < x)
    BY <1>1, <1>2, <2>1
  <2> QED BY <2>1, <2>2
<1> QED BY <1>3 DEF Least

LEMMA LastIsIn ==
    ASSUME NEW S \in SUBSET VariantNames, S # {}
    PROVE  Last(S) \in S /\ \A j \in S : j <= Last(S)
<1> DEFINE Mirrored == {Names - k : k \in S}
<1>1. Mirrored \in SUBSET Nat /\ Mirrored # {}
  <2>1. \A k \in S : Names - k \in Nat
    BY DEF VariantNames
  <2> QED BY <2>1
<1>2. PICK k \in S : Least(Mirrored) = Names - k
  <2> HIDE DEF Mirrored
  <2>1. Least(Mirrored) \in Mirrored
    BY <1>1, LeastIsIn
  <2> QED BY <2>1 DEF Mirrored
<1>3. \A j \in S : Names - k <= Names - j
  <2>1. \A m \in Mirrored : Names - k <= m
    BY <1>1, <1>2, LeastIsIn
  <2> QED BY <2>1
<1>4. \A j \in S : j <= k
  BY <1>3 DEF VariantNames
<1> QED BY <1>4 DEF Last

LEMMA BandIsOfAVariant ==
    ASSUME NEW weights, DOMAIN weights \subseteq VariantNames, DOMAIN weights # {},
           NEW bucket
    PROVE  Banded(weights, bucket) \in DOMAIN weights
<1>1. Above(weights, bucket) \subseteq DOMAIN weights
  BY DEF Above
<1>2. VariantNames \subseteq Nat
  BY DEF VariantNames
<1>3. Least(DOMAIN weights) \in DOMAIN weights
  BY <1>2, LeastIsIn
<1>4. Above(weights, bucket) # {} => Least(Above(weights, bucket)) \in DOMAIN weights
  BY <1>1, <1>2, LeastIsIn
<1>5. Last(DOMAIN weights) \in DOMAIN weights
  BY LastIsIn
<1> QED BY <1>3, <1>4, <1>5 DEF Banded

LEMMA ChoiceIsAVariant ==
    ASSUME NEW flag \in FlagType, NEW user
    PROVE  ChooseVariant(flag, user) \in
             IF VariantKeys(flag) = {} THEN {NoVariant} ELSE VariantKeys(flag)
<1>1. VariantKeys(flag) \subseteq VariantNames
  BY DEF FlagType, VariantKeys
<1> QED BY <1>1, BandIsOfAVariant DEF ChooseVariant, VariantKeys

\* For this nothing is needed of the flag but its type: not even that it
\* defines what its rules and its off_variant name.
LEMMA AnyFlagIsServable ==
    ASSUME NEW flag \in FlagType, NEW user
    PROVE  IsServable(flag, user)
<1> DEFINE keys   == VariantKeys(flag)
           result == Evaluate(flag, user)
<1> SUFFICES ASSUME NEW default \in VariantNames \cup {NoVariant}
             PROVE  /\ result.enabled => flag.enabled
                    /\ (IF result.variant = NoVariant THEN default ELSE result.variant)
                          \in IF result.enabled /\ keys # {} THEN keys
                              ELSE {default} \cup (keys \cap {flag.off})
  BY DEF IsServable, IsEnabled, Variant
<1>1. ~ (NoVariant \in keys)
  BY DEF FlagType, VariantKeys, VariantNames
<1>2. Targeted(flag, user) \in IF keys = {} THEN {NoVariant} ELSE keys
  BY ChoiceIsAVariant DEF Targeted, FindVariant
<1>3. FindVariant(flag, flag.off) \in {NoVariant} \cup (keys \cap {flag.off})
  BY DEF FindVariant
<1>4. \/ /\ flag.enabled /\ result.enabled
         /\ result.variant \in {Targeted(flag, user), ChooseVariant(flag, user)}
      \/ ~result.enabled /\ result.variant = FindVariant(flag, flag.off)
  BY DEF Evaluate, Served, OffResult, FlagType
<1> QED BY <1>1, <1>2, <1>3, <1>4, ChoiceIsAVariant

-----------------------------------------------------------------------------
(* Types                                                                    *)

LEMMA ReorderedType ==
    ASSUME NEW rules \in Seq(Rule), NEW s \in Reordered(rules)
    PROVE  /\ s \in Seq(Rule) /\ DOMAIN s = DOMAIN rules
           /\ \A i \in DOMAIN rules : \E j \in DOMAIN s : s[j] = rules[i]
           /\ \A j \in DOMAIN s : \E i \in DOMAIN rules : s[j] = rules[i]
<1>1. PICK p \in Bijection(DOMAIN rules, DOMAIN rules) :
          s = [i \in DOMAIN rules |-> rules[p[i]]]
  BY DEF Reordered
<1>2. /\ p \in [DOMAIN rules -> DOMAIN rules]
      /\ \A i \in DOMAIN rules : \E j \in DOMAIN rules : p[j] = i
  BY DEF Bijection, Surjection
<1>3. DOMAIN rules = 1 .. Len(rules) /\ Len(rules) \in Nat
  OBVIOUS
<1>4. s \in [1 .. Len(rules) -> Rule]
  BY <1>1, <1>2, <1>3
<1>5. s \in Seq(Rule)
  BY <1>3, <1>4
<1> QED BY <1>1, <1>2, <1>5

LEMMA RowsType == Rows \subseteq {f \in FlagType : f.rules \in RuleLists /\ IsCoherent(f)}
<1>1. Written \subseteq FlagType
  BY DEF Written, FlagType
<1> QED BY <1>1 DEF Rows, Written

LEMMA ByPriorityType ==
    ASSUME NEW flag \in FlagType, NEW rules \in ByPriority(flag.rules)
    PROVE  rules \in Seq(Rule)
BY ReorderedType DEF ByPriority, FlagType

LEMMA TypeInductive == TypeOK /\ [Next]_vars => TypeOK'
<1> SUFFICES ASSUME TypeOK, [Next]_vars PROVE TypeOK'
  OBVIOUS
<1> USE DEF TypeOK
<1>1. ASSUME NEW new \in Rows, Replace(new) PROVE TypeOK'
  BY <1>1, RowsType DEF Replace
<1>2. ASSUME NEW new \in Rows, Edit(new) PROVE TypeOK'
  <2>1. PICK rules \in ByPriority(row.rules) : spec' = [new EXCEPT !.rules = rules]
    BY <1>2 DEF Edit
  <2>2. rules \in Seq(Rule)
    BY ByPriorityType
  <2>3. spec' \in FlagType
    BY <2>1, <2>2, RowsType DEF FlagType
  <2> QED BY <1>2, <2>3, RowsType DEF Edit
<1>3. ASSUME Load PROVE TypeOK'
  <2>1. PICK rules \in ByPriority(row.rules) : spec' = [row EXCEPT !.rules = rules]
    BY <1>3 DEF Load
  <2>2. rules \in Seq(Rule)
    BY ByPriorityType
  <2>3. spec' \in FlagType
    BY <2>1, <2>2 DEF FlagType
  <2> QED BY <1>3, <2>3 DEF Load
<1>4. ASSUME NEW new \in Rows, TornLoad(new) PROVE TypeOK'
  <2>1. PICK list \in Lists : \E rules \in ByPriority(list) :
            spec' = [row EXCEPT !.rules = rules, !.variants = new.variants]
    BY <1>4 DEF TornLoad
  <2>2. PICK rules \in ByPriority(list) :
            spec' = [row EXCEPT !.rules = rules, !.variants = new.variants]
    BY <2>1
  <2>3. PICK flag \in Rows : list = flag.rules
    BY <2>1 DEF Lists
  <2>4. new \in FlagType /\ flag \in FlagType
    BY RowsType
  <2>5. rules \in Seq(Rule)
    BY <2>2, <2>3, <2>4, ByPriorityType
  <2>6. spec' \in FlagType
    BY <2>2, <2>4, <2>5 DEF FlagType
  <2> QED BY <1>4, <2>6, RowsType DEF TornLoad
<1>5. ASSUME NEW new \in Rows, TornByDeletion(new) PROVE TypeOK'
  <2>1. PICK rules \in ByPriority(row.rules) \cup {<<>>} :
            spec' = [row EXCEPT !.rules = rules, !.variants = NoWeights]
    BY <1>5 DEF TornByDeletion
  <2>2. rules \in Seq(Rule)
    <3>1. <<>> \in Seq(Rule)
      OBVIOUS
    <3>2. row \in FlagType /\ (rules \in ByPriority(row.rules) \/ rules = <<>>)
      BY <2>1
    <3> HIDE DEF TypeOK
    <3> QED BY <3>1, <3>2, ByPriorityType
  <2>3. spec' \in FlagType
    BY <2>1, <2>2, ListsAssumption DEF FlagType
  <2> QED BY <1>5, <2>3, RowsType DEF TornByDeletion
<1>6. CASE UNCHANGED vars
  BY <1>6 DEF vars
<1> QED BY <1>1, <1>2, <1>3, <1>4, <1>5, <1>6 DEF Next

\* What is committed is coherent, and what is evaluated has the shape of a flag.
THEOREM TypeTheorem == Spec => []TypeOK
<1>1. Init => TypeOK
  BY RowsType DEF Init, TypeOK
<1> QED BY <1>1, TypeInductive, PTL DEF Spec

\* The engine is total and serves only what exists, also when the SELECTs of a
\* load see two versions of the flag.
THEOREM ServableTheorem == Spec => []ResultsAreServable
<1>1. TypeOK => ResultsAreServable
  BY AnyFlagIsServable DEF TypeOK, ResultsAreServable
<1> QED BY <1>1, TypeTheorem, PTL

-----------------------------------------------------------------------------
(* Raising the rollout                                                      *)

LEMMA ThresholdGrows ==
    ASSUME NEW m \in Nat, NEW n \in Nat, m <= n, NEW c \in Nat
    PROVE  m * c <= n * c
OBVIOUS

LEMMA RolloutGrows ==
    ASSUME NEW old \in FlagType, NEW new \in FlagType, IsRaised(old, new),
           NEW user \in User, InRollout(old, user)
    PROVE  InRollout(new, user)
<1> DEFINE c == BucketCount \div Whole
<1>1. old.rollout \in Nat /\ new.rollout \in Nat /\ Whole \in Nat
  BY DEF FlagType
<1>2. c \in Nat
  OBVIOUS
<1>3. old.rollout < new.rollout
  BY DEF IsRaised
<1> HIDE DEF c
<1>4. old.rollout * c <= new.rollout * c
  BY <1>1, <1>2, <1>3, ThresholdGrows
<1>5. user.bucket \in Int /\ old.rollout * c \in Int /\ new.rollout * c \in Int
  BY <1>1, <1>2 DEF User, Buckets
<1>6. /\ Threshold(old) = old.rollout * c
      /\ Threshold(new) = new.rollout * c
  BY DEF Threshold, c
<1> QED BY <1>1, <1>3, <1>4, <1>5, <1>6 DEF InRollout

\* Whether any rule matches does not depend on their order.
LEMMA MatchingReordered ==
    ASSUME NEW old \in FlagType, NEW new \in FlagType,
           new.rules \in Reordered(old.rules), NEW user
    PROVE  Matching(old, user) = {} <=> Matching(new, user) = {}
<1>1. /\ \A i \in DOMAIN old.rules : \E j \in DOMAIN new.rules : new.rules[j] = old.rules[i]
      /\ \A j \in DOMAIN new.rules : \E i \in DOMAIN old.rules : new.rules[j] = old.rules[i]
  BY ReorderedType DEF FlagType
<1> QED BY <1>1 DEF Matching

LEMMA RaisedKeeps ==
    ASSUME NEW old \in FlagType, NEW new \in FlagType, IsRaised(old, new),
           NEW user \in User
    PROVE  KeepsWhatItServes(old, new, user)
<1> SUFFICES ASSUME Evaluate(old, user).enabled
             PROVE  /\ Evaluate(new, user).enabled
                    /\ Evaluate(old, user).reason = "rollout_included"
                           => Evaluate(new, user) = Evaluate(old, user)
  BY DEF KeepsWhatItServes
<1>1. new.enabled = old.enabled /\ new.variants = old.variants
  BY DEF IsRaised, FlagType
<1>2. old.enabled /\ new.enabled
  BY <1>1 DEF Evaluate, OffResult
<1>3. Matching(old, user) = {} <=> Matching(new, user) = {}
  BY MatchingReordered DEF IsRaised
<1>4. ChooseVariant(new, user) = ChooseVariant(old, user)
  BY <1>1 DEF ChooseVariant, VariantKeys
<1>5. CASE Matching(old, user) # {}
  BY <1>2, <1>3, <1>5 DEF Evaluate, Served
<1>6. CASE Matching(old, user) = {}
  <2>1. InRollout(old, user)
    BY <1>2, <1>6 DEF Evaluate, OffResult
  <2>2. InRollout(new, user)
    BY <2>1, RolloutGrows
  <2> QED BY <1>2, <1>3, <1>4, <1>6, <2>1, <2>2 DEF Evaluate, Served
<1> QED BY <1>5, <1>6

\* Whoever is in stays in when the percentage is raised, and keeps his variant.
THEOREM RaisingTheorem == Spec => RaisingOnlyAdds
<1>1. TypeOK /\ TypeOK' /\ [Next]_vars =>
          [IsRaised(spec, spec') =>
              \A user \in User : KeepsWhatItServes(spec, spec', user)]_vars
  BY RaisedKeeps DEF TypeOK
<1> QED BY <1>1, TypeTheorem, PTL DEF Spec, RaisingOnlyAdds

-----------------------------------------------------------------------------
(* Loading again                                                            *)

\* The same flag with its rules in another order.
LEMMA OneMatchDecides ==
    ASSUME NEW old \in FlagType, NEW rules \in Reordered(old.rules), NEW user,
           Cardinality(Matching(old, user)) <= 1
    PROVE  Evaluate([old EXCEPT !.rules = rules], user) = Evaluate(old, user)
<1> DEFINE new == [old EXCEPT !.rules = rules]
<1>1. /\ old.rules \in Seq(Rule)
      /\ new.rules = rules
      /\ new.enabled = old.enabled /\ new.rollout = old.rollout
      /\ new.variants = old.variants /\ new.off = old.off
  BY DEF FlagType
<1>2. /\ rules \in Seq(Rule)
      /\ DOMAIN rules = DOMAIN old.rules
      /\ DOMAIN rules \in SUBSET Nat
  <2>1. rules \in Seq(Rule) /\ DOMAIN rules = DOMAIN old.rules
    BY <1>1, ReorderedType
  <2>2. DOMAIN old.rules \in SUBSET Nat
    BY <1>1
  <2> QED BY <2>1, <2>2
<1>0. new \in FlagType
  BY <1>2 DEF FlagType
<1> HIDE DEF new
<1>3. Matching(old, user) = {} <=> Matching(new, user) = {}
  BY <1>0, <1>1, MatchingReordered
<1>4. ASSUME Matching(old, user) # {}
      PROVE  Deciding(new, user) = Deciding(old, user)
  <2>1. PICK i : Matching(old, user) = {i}
    <3>1. IsFiniteSet(Matching(old, user))
      <4>1. Matching(old, user) \subseteq 1 .. Len(old.rules)
        BY <1>1 DEF Matching
      <4>2. Len(old.rules) \in Int /\ 1 \in Int
        BY <1>1
      <4>3. IsFiniteSet(1 .. Len(old.rules))
        BY <4>2, FS_Interval, Zenon
      <4> QED BY <4>1, <4>3, FS_Subset, Zenon
    <3>2. Cardinality(Matching(old, user)) = 1
      BY <1>4, <3>1, FS_EmptySet, FS_CardinalityType
    <3> QED BY <3>1, <3>2, FS_Singleton
  <2>2. i \in DOMAIN old.rules
    BY <2>1 DEF Matching
  <2>3. \A j \in Matching(new, user) : new.rules[j] = old.rules[i]
    <3> SUFFICES ASSUME NEW j \in Matching(new, user) PROVE new.rules[j] = old.rules[i]
      OBVIOUS
    <3>1. PICK k \in DOMAIN old.rules : new.rules[j] = old.rules[k]
      BY <1>1, ReorderedType DEF Matching
    <3>2. k \in Matching(old, user)
      BY <3>1 DEF Matching
    <3> QED BY <2>1, <3>1, <3>2
  <2>4. Least(Matching(old, user)) \in Matching(old, user)
    BY <1>2, <1>4, LeastIsIn DEF Matching
  <2>5. Least(Matching(new, user)) \in Matching(new, user)
    <3>1. Matching(new, user) \in SUBSET Nat
      BY <1>1, <1>2 DEF Matching
    <3> QED BY <1>3, <1>4, <3>1, LeastIsIn
  <2> QED BY <2>1, <2>3, <2>4, <2>5 DEF Deciding
<1>5. /\ ChooseVariant(new, user) = ChooseVariant(old, user)
      /\ \A name : FindVariant(new, name) = FindVariant(old, name)
      /\ InRollout(new, user) = InRollout(old, user)
  BY <1>1 DEF ChooseVariant, FindVariant, VariantKeys, InRollout, Threshold
<1>6. Matching(old, user) # {} => Targeted(new, user) = Targeted(old, user)
  BY <1>4, <1>5 DEF Targeted
<1>7. \A reason : OffResult(new, reason) = OffResult(old, reason)
  BY <1>1, <1>5 DEF OffResult
<1>8. Evaluate(new, user) = Evaluate(old, user)
  BY <1>1, <1>3, <1>5, <1>6, <1>7 DEF Evaluate
<1> QED BY <1>8 DEF new

\* A flag is what a load makes of its row, up to the order of its rules.
LEMMA LoadReorders ==
    ASSUME TypeOK, Next, row' = row
    PROVE  \E rules \in Reordered(row.rules) : spec' = [row EXCEPT !.rules = rules]
<1> USE DEF TypeOK
<1>1. ASSUME NEW new \in Rows, Replace(new)
      PROVE  row.rules \in Reordered(row.rules) /\ spec' = [row EXCEPT !.rules = row.rules]
  <2> DEFINE p == [i \in DOMAIN row.rules |-> i]
  <2>1. p \in Bijection(DOMAIN row.rules, DOMAIN row.rules)
    BY DEF Bijection, Injection, Surjection, IsInjective
  <2>2. row.rules = [i \in DOMAIN row.rules |-> row.rules[p[i]]]
    BY DEF FlagType
  <2>3. spec' = row
    BY <1>1 DEF Replace
  <2>4. row = [row EXCEPT !.rules = row.rules]
    BY DEF FlagType
  <2> QED BY <2>1, <2>2, <2>3, <2>4 DEF Reordered
<1>2. ASSUME NEW new \in Rows, Edit(new)
      PROVE  \E rules \in ByPriority(row.rules) : spec' = [row EXCEPT !.rules = rules]
  BY <1>2 DEF Edit
<1>3. ~ \E new \in Rows : TornLoad(new) \/ TornByDeletion(new)
  BY DEF TornLoad, TornByDeletion
<1>4. ASSUME Load
      PROVE  \E rules \in ByPriority(row.rules) : spec' = [row EXCEPT !.rules = rules]
  BY <1>4 DEF Load
<1>5. ByPriority(row.rules) \subseteq Reordered(row.rules)
  BY DEF ByPriority
<1> QED BY <1>1, <1>2, <1>3, <1>4, <1>5 DEF Next

\* Whatever was loaded or announced before, a load serves whom at most one rule
\* matches as the row says.
THEOREM LoadTheorem == Spec => LoadsServeTheRow
<1>1. ASSUME TypeOK, Next, row' = row, NEW user \in User,
             Cardinality(Matching(row, user)) <= 1
      PROVE  Evaluate(spec', user) = Evaluate(row, user)
  <2>1. PICK rules \in Reordered(row.rules) : spec' = [row EXCEPT !.rules = rules]
    BY <1>1, LoadReorders
  <2>2. row \in FlagType
    BY <1>1 DEF TypeOK
  <2> QED BY <1>1, <2>1, <2>2, OneMatchDecides
<1>2. TypeOK /\ [Next]_vars =>
          [row' = row =>
              \A user \in User : Cardinality(Matching(row, user)) <= 1
                  => Evaluate(spec', user) = Evaluate(row, user)]_vars
  BY <1>1
<1> QED BY <1>2, TypeTheorem, PTL DEF Spec, LoadsServeTheRow
=============================================================================
