SPECIFICATION Spec
CONSTANTS
    int4 = int4
    int8 = int8
    float8 = float8
    text = text
    Types <- MCTypes
    Convertible <- MCConvertible
    MaxArguments = 1
    MaxSchemas = 2
    MaxFunctions = 2
INVARIANTS
    MostSpecific
    Acceptable
    AmbiguityExact
CHECK_DEADLOCK FALSE
