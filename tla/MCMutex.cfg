SPECIFICATION Spec
CONSTANTS
    idle = idle
    t1 = t1
    t2 = t2
    t3 = t3
    Idle = idle
    Threads <- ThreeWorkers
    Prio <- HighFirst
    WaitQueues <- Queues
CHECK_DEADLOCK FALSE
INVARIANTS
    MutualExclusion
    NoLostWakeup
    QueuesConsistent
PROPERTY
    ReadyIsDispatched
