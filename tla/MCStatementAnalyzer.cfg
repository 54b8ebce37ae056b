\* Every kind of statement, one statement of it or, of those on the catalog,
\* a session of four.
CONSTANTS
    a = a
    b = b
    c = c
    hidden = hidden
    Unknown = unknown
    Table <- MCTable
    Exported <- MCExported
    PrimaryKeys <- MCPrimaryKeys
    MaxSource = 3
    MaxOptions = 2
    Bits <- MCBits
    MaxPrecision = 2
    PreferSmallIntegers = TRUE
    PreferSmallDecimals = TRUE
    MaxSize = 6
    DefaultPrecision = 2
    IntegerPrecision <- MCIntegerPrecision
    FloatPrecision <- MCFloatPrecision
    ColumnNames = {"k", "v"}
    TypeSyntaxes <- MCTypeSyntaxes
    DefaultNumbers <- MCDefaultNumbers
    SequenceNumbers <- MCSequenceNumbers
    MaxColumns = 2
    MaxConstraints = 3
    SchemaPath <- MCSchemaPath
    DefaultSchema = "main"
    TableNames = {"t", "u"}
    IndexNames = {"i", "j"}
    Unnamed = ""
    TableColumnSets <- MCTableColumnSets
    InitialCatalogs <- MCInitialCatalogs
    MaxStatements = 4
    KnownTables = {"t", "u"}
    PrivilegeRequests <- MCPrivilegeRequests

SPECIFICATION StatementSpec

INVARIANTS
    InsertExact
    WrittenOnce
    RowsAddressedByScan
    ConstraintsExact
    ColumnsExact
    KeyColumns
    SequenceExact
    LiteralsExact
    TypesExact
    CatalogSound
    RepeatHarmless
    RenameFree
    PrivilegesExact

PROPERTIES
    CatalogSteps

\* A statement is analysed once, and a session ends.
CHECK_DEADLOCK FALSE
