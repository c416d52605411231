SPECIFICATION Spec
CONSTANTS
    u1 = u1
    u2 = u2
    u3 = u3
    r1 = r1
    r2 = r2
    s1 = s1
    s2 = s2
    Users <- OneUser
    Reapers <- TwoReapers
    Slabs <- TwoSlabs
    ObjsPerSlab = 2
    Limits = 1
INVARIANTS
    QueuesMatchCounts
    NotReapedInUse
PROPERTY
    EmptySlabQueued
