\* A crash between the rename of the periodic save and its Truncate.
SPECIFICATION Spec
CONSTANTS
    Labels = {}
    Keys = {}
    Values = {1}
    EdgeLabels = {"e"}
    Blank = blank
    Nil = nil
    None = none
    ExactInt = 1
    LongValues = {}
    Savers = {"ticker"}
    Faults = {}
    MaxVertexId = 1
    MaxEdgeId = 0
    MaxWrites = 3
    MaxSaves = 2
    MaxLoads = 0
    MaxLives = 1
INVARIANTS
    RecoverySucceeds
CHECK_DEADLOCK FALSE
