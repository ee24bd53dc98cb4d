SPECIFICATION Spec
CONSTANTS
    Labels = {}
    Keys = {age}
    Values = {young}
    EdgeLabels = {knows}
    Blank = blank
    Nil = nil
    MaxVertexId = 2
    MaxEdgeId = 2
    MaxSnapshots = 1
INVARIANTS TypeOK Integrity StoreNeverRefuses
PROPERTIES FreshIds ImplementsPropertyGraph
