SPECIFICATION Spec
CONSTANTS
    p1 = p1
    p2 = p2
    r1 = r1
    r2 = r2
    Keys = {"k"}
    Scopes = {"admin", "sdk"}
    Admin = "admin"
    Grants <- MCGrants
    Procs = {p1, p2}
    Requests = {r1, r2}
    TTL = 2
    Delay = 1
SYMMETRY Symmetry
INVARIANT ImmediateHere
