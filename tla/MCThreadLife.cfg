SPECIFICATION Spec
CONSTANTS
    idle = idle
    reaper = reaper
    t1 = t1
    t2 = t2
    t3 = t3
    Idle = idle
    Reaper = reaper
    Threads <- ThreeWorkers
    WaitQueues <- ThreeWorkers
    Prio <- ReaperFirst
    MaxPins = 1
INVARIANTS
    RefsExact
    NoUseAfterFree
PROPERTY
    OrphansReaped
