SPECIFICATION LongSpec
CONSTANTS
    v1 = v1
    v2 = v2
    v3 = v3
    Keys <- ThreeKeys
    Values <- OneValue
    KeyLen <- LongKeyLen
    ValLen <- ValLen2000
    Missing = Missing
    Torn = Torn
    MaxTreeHeight = 64
    ScanLimits = {1}
    PeakPages = 12
INVARIANTS
    InternalPagesHaveTwoChildren
