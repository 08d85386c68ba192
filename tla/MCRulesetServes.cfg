SPECIFICATION HistorySpec
CONSTANTS
    a = a
    b = b
    w1 = w1
    w2 = w2
    e1 = e1
    e2 = e2
    s1 = s1
    Flag = a
    Keys = {a, b}
    Writers = {w1}
    Owns <- OnlyA
    Evaluators = {e1}
    Bootstraps = {s1}
    Faults = {}
    MaxCommits = 2
INVARIANTS
    TypeOK
    HashMatchesDb
    RulesetIsWhole
    NoStaleAnswer
PROPERTIES
    ServedSpec
    QuietRebuildWarms
