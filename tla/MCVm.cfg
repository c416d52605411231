SPECIFICATION Spec
CONSTANTS
    Spaces = {s1, s2}
    Frames = {0, 1, 2, 3, 4, 5, 6, 7, 8, 9}
    PerTable = 2
    Top = 3
    PageBytes = 2
    Actors = {a1, a2}
    Regions <- SmallRegions
    CopyPairs <- DownPairs
    Moves <- MovesAsked
    Strings = {0}
    StorePages = {0}
    MaxStores = 1
    MaxCalls = 3
    Nobody = nobody
    Thrs = {t1, t2}
    Ids = {0, 1, 2, 3}
    Reserved = {0}
    KernProc = kernproc
    NoProc = noproc
    NoThr = nothr
    NoId = noid
SYMMETRY Symmetry
INVARIANTS TranslationExact PagesOwned ProcRefsExact NumbersUnique PagesGivenBack
