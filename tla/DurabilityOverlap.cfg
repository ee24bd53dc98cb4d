\* A POST /save during the periodic save.
SPECIFICATION Spec
CONSTANTS
    Labels = {}
    Keys = {}
    Values = {1}
    EdgeLabels = {"e"}
    Blank = blank
    Nil = nil
    None = none
    ExactInt = 1
    LongValues = {}
    Savers = {"ticker", "rest"}
    Faults = {}
    MaxVertexId = 1
    MaxEdgeId = 0
    MaxWrites = 1
    MaxSaves = 2
    MaxLoads = 0
    MaxLives = 1
INVARIANTS
    SnapshotWhole
CHECK_DEADLOCK FALSE
