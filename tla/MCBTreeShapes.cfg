SPECIFICATION MCSpec
CONSTANTS
    v1 = v1
    v2 = v2
    v3 = v3
    Keys <- BothKeys
    Values <- BothValues
    KeyLen <- BothKeyLen
    ValLen <- BothValLen
    Missing = Missing
    Torn = Torn
    MaxTreeHeight = 64
    ScanLimits = {1, 3}
    PeakPages = 12
INVARIANTS
    TreeHoldsStore
    ReadsAgree
    SpaceBounded
