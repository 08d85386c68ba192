SPECIFICATION Spec
CONSTANTS
    a = a
    b = b
    w1 = w1
    w2 = w2
    e1 = e1
    e2 = e2
    s1 = s1
    Keys = {a}
    Writers = {w1}
    Owns <- AllShared
    Evaluators = {e1}
    Bootstraps = {}
    Faults = {"notify"}
    MaxCommits = 3
PROPERTY SelfHeals
