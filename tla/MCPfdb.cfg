SPECIFICATION Spec
CONSTANTS
    NrPages = 8
    MetaPages = 1
    MaxOrder = 4
    Usages = {"kern"}
    MaxUse = 2
CHECK_DEADLOCK FALSE
INVARIANTS
    ClustersDisjoint
    NoPageLost
    Coalesced
    UseAccounted
PROPERTIES
    InUseStable
    PromiseSpec
