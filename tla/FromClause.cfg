SPECIFICATION Spec
CONSTANTS
    Names = {x}
    MaxColumns = 2
    MaxRelations = 4
    MaxNesting = 3
    MaxUsing = 2
INVARIANTS
    PlanWellFormed
    PivotExact
    UsingExact
CHECK_DEADLOCK FALSE
