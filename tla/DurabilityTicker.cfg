\* The periodic save with failing system calls and crashes at every step.
SPECIFICATION Spec
CONSTANTS
    Labels = {}
    Keys = {"k"}
    Values = {2, 3, 5}
    EdgeLabels = {"e"}
    Blank = blank
    Nil = nil
    None = none
    ExactInt = 4
    LongValues = {2}
    Savers = {"ticker"}
    Faults = {"fsync", "save", "meta", "open"}
    MaxVertexId = 1
    MaxEdgeId = 1
    MaxWrites = 3
    MaxSaves = 2
    MaxLoads = 0
    MaxLives = 2
INVARIANTS
    TypeOK
    Lossless
    SnapshotWhole
    RefusedForStaleRecords
    RecoveredIdsFresh
CHECK_DEADLOCK FALSE
