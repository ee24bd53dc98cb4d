\* A write while a rebuild is under way.
SPECIFICATION Spec
CONSTANTS
    Labels = {"l"}
    Keys = {}
    Values = {1}
    EdgeLabels = {"e"}
    Blank = blank
    Nil = nil
    Rebuilders = {"r"}
    Auditors = {}
    MaxVertexId = 1
    MaxEdgeId = 0
INVARIANTS
    IndexExact
