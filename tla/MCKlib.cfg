SPECIFICATION Spec
CONSTANTS
    Nodes = {1, 2, 3, 4, 5, 6, 7, 8}
    NULL = 0
    Temp = 99
    Key <- KeyWithTwin
    Heads = {h1, h2}
    ListHead = lh
    Elems = {1, 2, 3, 4}
    Rank <- RankByName
    Nil = nil
    CPUs = {c1, c2}
    Width = 16
    Words = 2
    Bits = {0, 7, 15, 16, 31}
    MemSize = 16
    Alphabet = {65, 97, 98}
    StrLen = 2
    Years = {1600, 1899, 1900, 1968, 1970, 1999, 2000, 2001, 2038, 2039, 2100, 2104, 2300, 2400, 2401}
    PageSize = 1024
    HeapStart = 1024
    HeapSize = 4096
    MaxLive = 6
    MaxOps = 4
    MaxRare = 1
    Sizes <- AskedSizes
    Grown <- GrownSizes
    Alignments <- AskedAlignments
    Batches <- AskedBatches
    Limits <- FootprintLimits
    Thresholds = {512}
    Granularities = {2048, 1500}
    Foreign = {1000}
    KC_CPUS_NR = 4
    Harts = {0, 1, 2, 3, 5}
INVARIANTS TreesCorrect LinksMatch SyncSafe FunctionsCorrect HeapSound
