SPECIFICATION Spec
CONSTANTS
    k1 = k1
    k2 = k2
    v1 = v1
    Keys <- MCKeys
    Values <- MCValues
    Missing = Missing
    Probes <- MCProbes
    Torn = Torn
    NoCurrent = NoCurrent
    NoHandle = NoHandle
    PutBytes = 2
    DeleteBytes = 1
    MemTableLimit = 3
    Level0Trigger = 2
    MaxSequence = 3
    MaxFaults = 2
    MaxUnremoved = 0
INVARIANTS
    ReopenIsRecoveryBoundary
