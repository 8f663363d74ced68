SPECIFICATION Spec
CONSTANTS
    v1 = v1
    Keys <- MCKeys
    Values <- MCValues
    KeyLen <- MCKeyLen
    ValLen <- MCValLen
    Missing = Missing
    Torn = Torn
    NoHandle = NoHandle
    MaxTreeHeight = 64
    MaxGeneration = 14
    MaxFaults = 2
    NewestMayBeUnread = FALSE
INVARIANTS
    TypeOK
    Recoverable
    HandleIsDurable
PROPERTIES
    LivePagesKept
    RefinesKvStore
