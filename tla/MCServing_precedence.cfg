CONSTANTS
    missing = missing
    none = none
    Missing = missing
    NoVariant = none
    Whole = 3
    BucketCount = 6
    Names = 3
    RuleLists <- FewRuleLists
    VariantSets <- FewVariantSets
    Offs = {3}
    Contexts <- FewContexts

SPECIFICATION Spec

INVARIANT
    LowerPriorityFirst
