\* One token, and the trees with a table reference.
CONSTANTS
    DocumentSize = 0
    Keywords = {"BOOL_AND"}
    Trees <- MCTableReferences
    Parses <- MCParses
    NodeLimits = {0}
    DepthLimits = {0}
    ListLimits <- MCListLimits
    NoTree = NoTree

SPECIFICATION PipelineSpec

INVARIANT EqualityExact

CHECK_DEADLOCK FALSE
