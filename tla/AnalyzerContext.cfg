\* Three threads share one analyzer; each calls it at most twice.
CONSTANTS
    Threads = {t1, t2, t3}
    MaxCalls = 2

SPECIFICATION Spec

INVARIANTS
    Exclusion
    ContextIsolated
    DeliveredOwn

PROPERTIES
    GivenBack

\* Every thread may have made its last call.
CHECK_DEADLOCK FALSE
