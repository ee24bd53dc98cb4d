\* A write between the capture of the periodic save and its Truncate.
SPECIFICATION Spec
CONSTANTS
    Labels = {}
    Keys = {}
    Values = {1}
    EdgeLabels = {"e"}
    Blank = blank
    Nil = nil
    None = none
    ExactInt = 1
    LongValues = {}
    Savers = {"ticker"}
    Faults = {}
    MaxVertexId = 1
    MaxEdgeId = 0
    MaxWrites = 1
    MaxSaves = 1
    MaxLoads = 0
    MaxLives = 1
INVARIANTS
    RecoveryExact
CHECK_DEADLOCK FALSE
