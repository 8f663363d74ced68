SPECIFICATION FairSpec
CONSTANTS
    k1 = k1
    k2 = k2
    v1 = v1
    Keys <- MCKeys
    Values <- MCValues
    Missing = Missing
    Probes <- MCProbes
    Torn = Torn
    NoCurrent = NoCurrent
    NoHandle = NoHandle
    PutBytes = 2
    DeleteBytes = 1
    MemTableLimit = 2
    Level0Trigger = 1
    MaxSequence = 4
    MaxFaults = 1
    MaxUnremoved = 0
INVARIANTS
    TypeOK
    Recoverable
    ReadsAgree
    TablesAccepted
    MaintenanceAccepted
    EitherSlotRecovers
PROPERTIES
    RefinesKvStore
    VersionNeverRegresses
    MutationReturns
    IdsNeverReused
