SPECIFICATION Spec
CONSTANTS
    x = x
    y = y
    o1 = o1
    o2 = o2
    Keys = {"k"}
    Operators = {o1, o2}
    Variants = {x, y}
    VariantSets <- BooleanOrArms
    PinSets <- PinNothingOrX
    Offs = {x, Blank}
    Blank = Blank
    NoVariant = NoVariant
    Keep = Keep
    MaxChanges = 4
SYMMETRY Symmetry
INVARIANTS
    TypeOK
    AlwaysCoherent
    ReadInv
    AuditReplays
PROPERTIES
    NoLostUpdate
    AuditInOrder
    RegisterSpec
CHECK_DEADLOCK FALSE
