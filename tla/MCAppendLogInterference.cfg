SPECIFICATION InterferenceSpec
CONSTANTS
    k1 = k1
    v1 = v1
    f1 = f1
    f2 = f2
    Keys <- MCKeys
    Values <- MCValues
    Inodes <- MCInodes
    Missing = Missing
    NoFile = NoFile
    MaxSequence = 4
SYMMETRY Symmetry
INVARIANTS
    IndexIsAckedPrefix
PROPERTIES
    FloorKept
    IdentityAnchored
