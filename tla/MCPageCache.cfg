SPECIFICATION Spec
CONSTANTS
    u1 = u1
    u2 = u2
    u3 = u3
    s1 = s1
    p1 = p1
    p2 = p2
    p3 = p3
    k1 = k1
    k2 = k2
    Users <- ThreeUsers
    Shrinkers <- OneShrinker
    Pages <- ThreePages
    Keys <- TwoKeys
    MaxFree = 2
SYMMETRY Symmetry
INVARIANTS
    OneWorker
    NoUpdateLost
    BusyExact
CHECK_DEADLOCK FALSE
