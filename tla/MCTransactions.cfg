SPECIFICATION Spec
CONSTANTS
    Keys = {1, 2}
    Vals = {1, 2}
    Text = Text
    All = All
    NoTable = NoTable
    Refused = Refused
    Nobody = Nobody
    Workers = {w1, w2}
    Engines <- AllEngines
    Batches <- Menu
    Queries <- Questions
    MaxOps = 2
    MaxLive = 1
    MaxTx = 3
    MaxFaults = 1
INVARIANTS
    TypeOK
    Serializable
    ReopenReplaysAll
    EngineIsSerialState
    IndexesAgree
SYMMETRY Swap
