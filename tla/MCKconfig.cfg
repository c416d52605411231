SPECIFICATION ProbeSpec
CONSTANTS
    SymType <- MCSymType
    SymSeq <- MCSymSeq
    Statements <- MCStatements
    Others <- MCOthers
    Files <- MCFiles
    Disks <- MCDisks
    ModulesSym = "modules"
    Inputs = {"1", "4"}
    Exprs <- MCExprs
    DepGraphs <- MCDepGraphs
    Choice = "interval"
    Members <- MCMembers
    Grid <- MCGrid
    MaxEdits = 2
    MaxSessions = 2
    MaxTexts = 1
    TextModes = {"ask_all", "ask_silent", "sync", "set_default", "set_no", "set_mod", "set_yes", "set_random"}
INVARIANTS ParseRight ValuesRight RoundTrip ConfAsksAll
PROPERTIES HeadersFollow
