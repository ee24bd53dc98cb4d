\* One request at a time, among writers.
SPECIFICATION FairSpec
CONSTANTS
    VertexIds = {1, 2, 3}
    EdgeIds = {1, 2, 3}
    VertexContents <- Contents
    EdgeLabels = {"light"}
    Weight <- Weights
    None = none
    Starts <- Queries
INVARIANTS
    LevelsBounded
    DepthFirstBounded
    PathsBounded
    ShortestBounded
    CycleBounded
    RowsExisted
    RowsComplete
    UndirectedOnce
    ViewBounded
    ReportExact
    FailsForCause
PROPERTIES
    QueryEnds
CHECK_DEADLOCK FALSE
