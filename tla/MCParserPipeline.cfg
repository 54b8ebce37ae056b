\* Every document of up to five blanks, comments and tokens, and some 1700 trees.
CONSTANTS
    DocumentSize = 5
    Keywords = {"BIT_AND", "BOOL_AND"}
    Trees <- MCTrees
    Parses <- MCParses
    NodeLimits = {0, 4, 6}
    DepthLimits = {0, 3}
    ListLimits <- MCListLimits
    NoTree = NoTree

SPECIFICATION PipelineSpec

INVARIANTS
    CommentsExact
    PlaceholdersNumbered
    CopiesExact

PROPERTIES
    LimitsKept
    AnswerGiven

\* A call ends with its result.
CHECK_DEADLOCK FALSE
