\* Writers alone, an index update at a time.
SPECIFICATION Spec
CONSTANTS
    Labels = {"l", "m"}
    Keys = {"k"}
    Values = {1, 2}
    EdgeLabels = {"e"}
    Blank = blank
    Nil = nil
    Rebuilders = {}
    Auditors = {}
    MaxVertexId = 2
    MaxEdgeId = 1
INVARIANTS
    TypeOK
    IndexExact
    LookupsKeepUp
\* The two identifiers of the model can be used up, after which nothing is left to do.
CHECK_DEADLOCK FALSE
