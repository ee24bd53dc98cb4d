\* Two requests that rebuild or load and an audit among writers that never pause.
SPECIFICATION FairSpec
CONSTANTS
    Labels = {"l"}
    Keys = {}
    Values = {1}
    EdgeLabels = {"e"}
    Blank = blank
    Nil = nil
    Rebuilders = {"r", "s"}
    Auditors = {"a"}
    MaxVertexId = 1
    MaxEdgeId = 0
INVARIANTS
    NothingMissing
    AuditTells
PROPERTIES
    RebuildsEnd
