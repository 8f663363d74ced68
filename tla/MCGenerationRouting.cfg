SPECIFICATION Spec
CONSTANTS
    r1 = r1
    t1 = t1
    t2 = t2
    Procs <- OneRouterOneTool
    Routers <- Router
    Tools <- OneTool
    Acquisitions = {1, 2, 3, 4}
    Blank = Blank
    NoLock = NoLock
    Torn = Torn
    None = None
    MaxGen = 3
    MaxFaults = 0
    MaxWrites = 1
INVARIANTS
    RoutedNeverPoisoned
