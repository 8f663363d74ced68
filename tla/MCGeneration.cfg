SPECIFICATION MCSpec
CONSTANTS
    r1 = r1
    t1 = t1
    t2 = t2
    Procs <- OneRouterTwoTools
    Routers <- Router
    Tools <- TwoTools
    Acquisitions = {1, 2, 3, 4}
    Blank = Blank
    NoLock = NoLock
    Torn = Torn
    None = None
    MaxGen = 3
    MaxFaults = 1
    MaxWrites = 1
SYMMETRY ToolSymmetry
INVARIANTS
    TypeOK
    AckedSurvives
    ReadsAcked
    IdsNeverReused
PROPERTIES
    AuthorityNeverRegresses
