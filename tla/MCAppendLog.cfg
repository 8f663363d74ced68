SPECIFICATION Spec
CONSTANTS
    k1 = k1
    k2 = k2
    v1 = v1
    v2 = v2
    f1 = f1
    Keys <- MCKeys
    Values <- MCValues
    Inodes <- MCInodes
    Missing = Missing
    NoFile = NoFile
    MaxSequence = 5
INVARIANTS
    TypeOK
    Recoverable
    IndexMatchesFile
    ReopenAvailable
PROPERTIES
    RefinesKvStore
