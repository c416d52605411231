SPECIFICATION Spec
CONSTANTS
    timer = timer
    uart = uart
    d1 = d1
    d2 = d2
    bad = bad
    u1 = u1
    u2 = u2
    NULL = NULL
    NoEnt = NoEnt
    Lines = {1, 2, 32}
    Handlers = {timer, uart, d1, d2, bad}
    LineOf <- McLineOf
    PrioOf <- McPrioOf
    AttrOf <- McAttrOf
    SelfRemoving = {d2}
    Timer = timer
    Uart = uart
    Users = {u1, u2}
    Entries = {1, 2, 3}
    SecLen = 2
    MaxRel = 2
    MaxLag = 2
    MaxRaises = 2
    MaxArms = 3
INVARIANTS
    LineRefsExact
    NestingRises
    WallTimeNeverAhead
PROPERTIES
    CalloutPromise
    CalloutEventuallyRuns
