SPECIFICATION LegacySpec
CONSTANTS
    r1 = r1
    t1 = t1
    Procs <- RouterAndTool
    Routers <- Router
    Tools <- OneTool
    Acquisitions = {1, 2, 3}
    Blank = Blank
    NoLock = NoLock
    Torn = Torn
    None = None
    MaxGen = 1
    MaxFaults = 1
    MaxWrites = 1
    MaxRaw = 2
INVARIANTS
    MutualExclusion
    LegacyStateSurvives
    HandoverIsDurable
    FreshMeansComplete
CHECK_DEADLOCK FALSE
