SPECIFICATION Spec
CONSTANTS
    u1 = u1
    u2 = u2
    u3 = u3
    r1 = r1
    r2 = r2
    s1 = s1
    s2 = s2
    Users <- ThreeUsers
    Reapers <- NoReaper
    Slabs <- TwoSlabs
    ObjsPerSlab = 2
    Limits = 1
SYMMETRY Symmetry
CHECK_DEADLOCK FALSE
INVARIANT
    ObjectsConserved
