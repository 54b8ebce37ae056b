\* UPDATE and DELETE of a table, also of one that has no primary key.
CONSTANTS
    a = a
    b = b
    c = c
    hidden = hidden
    Unknown = unknown
    Table <- MCTable
    Exported <- MCExported
    PrimaryKeys <- MCPrimaryKeys
    MaxSource = 3
    MaxOptions = 2
    Bits <- MCBits
    MaxPrecision = 2
    PreferSmallIntegers = TRUE
    PreferSmallDecimals = TRUE
    MaxSize = 6
    DefaultPrecision = 2
    IntegerPrecision <- MCIntegerPrecision
    FloatPrecision <- MCFloatPrecision
    ColumnNames = {"k", "v"}
    TypeSyntaxes <- MCTypeSyntaxes
    DefaultNumbers <- MCDefaultNumbers
    SequenceNumbers <- MCSequenceNumbers
    MaxColumns = 1
    MaxConstraints = 3
    SchemaPath <- MCSchemaPath
    DefaultSchema = "main"
    TableNames = {"t", "u"}
    IndexNames = {"i", "j"}
    Unnamed = ""
    TableColumnSets <- MCTableColumnSets
    InitialCatalogs <- MCInitialCatalogs
    MaxStatements = 1
    KnownTables = {"t", "u"}
    PrivilegeRequests <- MCPrivilegeRequests

SPECIFICATION StatementSpec

INVARIANTS
    RowsHaveKeys

\* A statement is analysed once.
CHECK_DEADLOCK FALSE
