SPECIFICATION Spec
CONSTANTS
    Names = {x}
    NoName = NoName
    Ids = {r}
    NoId = NoId
    MaxDepth = 7
    MaxRelations = 2
    MaxTotal = 2
INVARIANTS
    FramesExact
    ParametersExact
    ReferenceExact
CHECK_DEADLOCK FALSE
