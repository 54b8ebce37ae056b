\* One SELECT element is enough.
CONSTANTS
    a = a
    b = b
    count = count
    sum = sum
    Columns <- MCColumns
    Asterisk <- MCAsterisk
    Functions <- MCFunctions
    Expressions <- MCExpressions
    MaxKeys = 2
    MaxElements = 1
    MaxSort = 1

SPECIFICATION Spec

INVARIANTS
    ResultAvailable

\* The query is analysed once.
CHECK_DEADLOCK FALSE
