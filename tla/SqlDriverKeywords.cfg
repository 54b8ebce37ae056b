\* The set functions of a short document.
CONSTANTS
    DocumentSize = 2
    Keywords = {"BIT_AND", "BOOL_AND"}

SPECIFICATION Spec

INVARIANTS
    FunctionsAsWritten

\* The scanner stops at the end of the document.
CHECK_DEADLOCK FALSE
