\* The exit after a signal, with failing system calls and a value that a replay rounds.
SPECIFICATION FairSpec
CONSTANTS
    Labels = {}
    Keys = {"k"}
    Values = {5}
    EdgeLabels = {"e"}
    Blank = blank
    Nil = nil
    None = none
    ExactInt = 4
    LongValues = {}
    Savers = {"ticker", "final"}
    Faults = {"append", "save", "meta", "open"}
    MaxVertexId = 1
    MaxEdgeId = 0
    MaxWrites = 2
    MaxSaves = 1
    MaxLoads = 1
    MaxLives = 2
INVARIANTS
    Lossless
    WholeWithoutOverlap
    RecoveredIdsFresh
    RefusedForStaleRecords
PROPERTIES
    ShutdownEnds
CHECK_DEADLOCK FALSE
