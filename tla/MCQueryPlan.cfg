\* Up to two GROUP BY columns, two SELECT elements and one ORDER BY key.
CONSTANTS
    a = a
    b = b
    count = count
    sum = sum
    Columns <- MCColumns
    Asterisk <- MCAsterisk
    Functions <- MCFunctions
    Expressions <- MCExpressions
    MaxKeys = 2
    MaxElements = 2
    MaxSort = 1

SPECIFICATION Spec

INVARIANTS
    Available
    ValuesKept
    OperatorsExact

\* The query is analysed once.
CHECK_DEADLOCK FALSE
