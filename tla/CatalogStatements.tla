------------------------- MODULE CatalogStatements -------------------------
(***************************************************************************)
(* analyze_statement: CREATE TABLE and INDEX, ALTER, DROP and TRUNCATE, as *)
(* the statements of a session.  Each is analysed against the catalog, and *)
(* its result is interpreted before the next one is analysed.  The catalog *)
(* has several schemas; a name without a qualifier is looked up along the  *)
(* search path, and what is created goes to the default schema.            *)
(***************************************************************************)
EXTENDS Naturals, Sequences, FiniteSets

CONSTANTS
    SchemaPath,         \* schema_search_path()
    DefaultSchema,      \* default_schema()
    TableNames, IndexNames,
    Unnamed,            \* an empty name: of a primary index, or none given
    TableColumnSets,    \* the columns a table may be created with
    InitialCatalogs,    \* the tables and indexes a session may begin with
    MaxStatements       \* bound: statements of the session

VARIABLES
    tables, indexes,    \* the storage providers of the schemas
    answer,             \* the statement that was analysed, and its result
    session,            \* what the session does next
    statements          \* statements that were analysed

catalogVars == <<tables, indexes, answer, session, statements>>

CatalogSchemas == {SchemaPath[i] : i \in DOMAIN SchemaPath}
CatalogColumns == UNION TableColumnSets
ASSUME CatalogAssumption ==
    /\ SchemaPath \in Seq(CatalogSchemas) /\ DefaultSchema \in CatalogSchemas
    /\ Unnamed \notin TableNames \cup IndexNames \cup CatalogSchemas
    /\ MaxStatements \in Nat

TableRecord == [schema : CatalogSchemas, name : TableNames, columns : TableColumnSets]
IndexRecord == [schema : CatalogSchemas, name : IndexNames \cup {Unnamed},
                table : TableRecord, primary : BOOLEAN]
PrimaryOf(table) == [schema |-> table.schema, name |-> Unnamed, table |-> table, primary |-> TRUE]

Primaries(elements) == {index \in elements : index.primary}
HavePrimary(elements) == {index.table : index \in Primaries(elements)}
UniqueNames(elements) ==
    \A e, f \in elements : e.schema = f.schema /\ e.name = f.name /\ e.name # Unnamed => e = f
UniquePrimaries(elements) ==
    /\ \A i, k \in Primaries(elements) : i.table = k.table => i = k
    /\ \A i \in Primaries(elements) : i.schema = i.table.schema

(* What a session begins with is sound; a primary index may have a name.   *)
ASSUME InitialAssumption ==
    \A catalog \in InitialCatalogs :
        /\ catalog.tables \in SUBSET TableRecord /\ UniqueNames(catalog.tables)
        /\ catalog.indexes \in SUBSET IndexRecord /\ UniqueNames(catalog.indexes)
        /\ HavePrimary(catalog.indexes) = catalog.tables /\ UniquePrimaries(catalog.indexes)

CatalogTypeOK ==
    /\ tables \in SUBSET TableRecord
    /\ indexes \in SUBSET IndexRecord
    /\ session \in {"open", "analyze", "interpret", "ended"}
    /\ statements \in 0..MaxStatements

CatalogInit ==
    /\ tables = {} /\ indexes = {}
    /\ answer = [command |-> [op |-> "none"], result |-> [kind |-> "empty"]]
    /\ session = "open" /\ statements = 0

Open ==
    /\ session = "open" /\ session' = "analyze"
    /\ \E catalog \in InitialCatalogs :
          /\ tables' = catalog.tables
          /\ indexes' = catalog.indexes
    /\ UNCHANGED <<answer, statements>>

(***************************************************************************)
(* find_symbol(): the element of the first schema of the path that has it, *)
(* or that of the schema that qualifies the name.                          *)
(***************************************************************************)
References(names) == [qualifier : CatalogSchemas \cup {Unnamed}, name : names]
In(schema, name, elements) == {e \in elements : e.schema = schema /\ e.name = name}
(* Mutant of Find: the last schema of the path replaces those before it.   *)
FindLast(reference, elements) == In(SchemaPath[Len(SchemaPath)], reference.name, elements)
Find(reference, elements) ==
    IF reference.name = Unnamed THEN {}
    ELSE IF reference.qualifier # Unnamed THEN In(reference.qualifier, reference.name, elements)
    ELSE UNION {In(SchemaPath[i], reference.name, elements) : i \in
                   {k \in DOMAIN SchemaPath :
                       \A j \in 1..(k - 1) : In(SchemaPath[j], reference.name, elements) = {}}}

Error == [kind |-> "error"]
Empty == [kind |-> "empty"]
Conditional(command) == IF command.conditional THEN Empty ELSE Error

CreateTable(command) ==
    IF Find(command.table, tables) # {} THEN Conditional(command)
    ELSE IF command.table.qualifier # Unnamed THEN Error
    ELSE [kind |-> "create_table",
          table |-> [schema |-> DefaultSchema, name |-> command.table.name, columns |-> command.columns]]

CreateIndex(command) ==
    LET found == Find(command.table, tables)
    IN  IF Find(command.index, indexes) # {} THEN Conditional(command)
        ELSE IF found = {} \/ command.index.qualifier # Unnamed THEN Error
        ELSE IF \E table \in found : command.keys \ table.columns # {} THEN Error
        ELSE [kind |-> "create_index",
              index |-> [schema |-> DefaultSchema, name |-> command.index.name,
                         table |-> CHOOSE table \in found : TRUE, primary |-> FALSE]]

(* Mutant of Taken: the new name is looked up in the default schema.       *)
TakenInDefault(element, name, elements) ==
    name = element.name \/ In(DefaultSchema, name, elements) # {}
Taken(element, name, elements) ==
    name = element.name \/ In(element.schema, name, elements) # {}

Rename(element, name, elements, kind) ==
    IF Taken(element, name, elements) THEN Error
    ELSE [kind |-> kind, target |-> element, to |-> name]

RenameTable(command) ==
    LET found == Find(command.table, tables)
    IN  IF found = {} THEN Conditional(command)
        ELSE Rename(CHOOSE table \in found : TRUE, command.to, tables, "rename_table")

RenameIndex(command) ==
    LET found == Find(command.index, indexes)
    IN  IF found = {} THEN Conditional(command)
        ELSE IF \E index \in found : index.primary THEN Error
        ELSE Rename(CHOOSE index \in found : TRUE, command.to, indexes, "rename_index")

(* Each of the table and the column has an IF EXISTS of its own.           *)
RenameColumn(command) ==
    LET found == Find(command.table, tables)
        columnsOf == UNION {table.columns : table \in found}
    IN  IF found = {} THEN Conditional(command)
        ELSE IF command.from \notin columnsOf THEN IF command.ifColumn THEN Empty ELSE Error
        ELSE IF command.to \in columnsOf THEN Error
        ELSE [kind |-> "rename_column", target |-> CHOOSE table \in found : TRUE,
              from |-> command.from, to |-> command.to]

Drop(command, found, kind) ==
    IF command.cascade THEN Error
    ELSE IF found = {} THEN Conditional(command)
    ELSE [kind |-> kind, target |-> CHOOSE element \in found : TRUE]

Truncate(command) ==
    LET found == Find(command.table, tables)
    IN  IF found = {} THEN Error
        ELSE [kind |-> "truncate", target |-> CHOOSE table \in found : TRUE]

Analysis(command) ==
    CASE command.op = "create_table" -> CreateTable(command)
      [] command.op = "create_index" -> CreateIndex(command)
      [] command.op = "rename_table" -> RenameTable(command)
      [] command.op = "rename_index" -> RenameIndex(command)
      [] command.op = "rename_column" -> RenameColumn(command)
      [] command.op = "drop_table" -> Drop(command, Find(command.table, tables), "drop_table")
      [] command.op = "drop_index" -> Drop(command, Find(command.index, indexes), "drop_index")
      [] command.op = "truncate" -> Truncate(command)
      [] OTHER -> Empty

(***************************************************************************)
(* The statements: their names, IF EXISTS or IF NOT EXISTS, and options.   *)
(***************************************************************************)
Commands(op) ==
    CASE op = "create_table" -> [op : {op}, table : References(TableNames),
                                 columns : TableColumnSets, conditional : BOOLEAN]
      [] op = "create_index" -> [op : {op}, index : References(IndexNames \cup {Unnamed}),
                                 table : References(TableNames),
                                 keys : {{c} : c \in CatalogColumns}, conditional : BOOLEAN]
      [] op = "rename_table" -> [op : {op}, table : References(TableNames), to : TableNames,
                                 conditional : BOOLEAN]
      [] op = "rename_index" -> [op : {op}, index : References(IndexNames), to : IndexNames,
                                 conditional : BOOLEAN]
      [] op = "rename_column" -> [op : {op}, table : References(TableNames), from : CatalogColumns,
                                  to : CatalogColumns, conditional : BOOLEAN, ifColumn : BOOLEAN]
      [] op = "drop_table" -> [op : {op}, table : References(TableNames), conditional : BOOLEAN,
                               cascade : BOOLEAN]
      [] op = "drop_index" -> [op : {op}, index : References(IndexNames), conditional : BOOLEAN,
                               cascade : BOOLEAN]
      [] OTHER -> [op : {"truncate"}, table : References(TableNames)]

Analyze(op) ==
    /\ session = "analyze" /\ statements < MaxStatements
    /\ \E command \in Commands(op) :
          /\ answer' = [command |-> command, result |-> Analysis(command)]
          /\ session' = IF Analysis(command) = Error THEN "ended" ELSE "interpret"
    /\ statements' = statements + 1
    /\ UNCHANGED <<tables, indexes>>

(***************************************************************************)
(* The interpreter.  It adds tables and indexes, and removes them by their *)
(* names; a table goes with its primary index only; the other statements   *)
(* change nothing here.  The provider keeps apart what has no name.        *)
(***************************************************************************)
Interpreting(kind) == session = "interpret" /\ session' = "analyze" /\ answer.result.kind = kind

InterpretCreateTable ==
    /\ Interpreting("create_table")
    /\ LET table == answer.result.table
       IN  /\ tables' = (tables \ In(table.schema, table.name, tables)) \cup {table}
           /\ indexes' = indexes \cup {PrimaryOf(table)}
    /\ UNCHANGED <<answer, statements>>

InterpretCreateIndex ==
    /\ Interpreting("create_index")
    /\ indexes' = indexes \cup {answer.result.index}
    /\ UNCHANGED <<tables, answer, statements>>

Removed(index) ==
    IF index.name = Unnamed THEN {index} ELSE In(index.schema, index.name, indexes)

(* Mutant of Dropped: the primary index stays when its table is dropped.   *)
DroppedTableOnly(table) == {}
Dropped(table) ==
    UNION {Removed(index) : index \in {i \in Primaries(indexes) : i.table = table}}

InterpretDropTable ==
    /\ Interpreting("drop_table")
    /\ LET table == answer.result.target
       IN  /\ tables' = tables \ In(table.schema, table.name, tables)
           /\ indexes' = indexes \ Dropped(table)
    /\ UNCHANGED <<answer, statements>>

(* Nothing keeps a primary index that has a name from being dropped.       *)
InterpretDropIndex ==
    /\ Interpreting("drop_index")
    /\ indexes' = indexes \ Removed(answer.result.target)
    /\ UNCHANGED <<tables, answer, statements>>

InterpretOther ==
    /\ \E kind \in {"empty", "rename_table", "rename_index", "rename_column", "truncate"} :
          Interpreting(kind)
    /\ UNCHANGED <<tables, indexes, answer, statements>>

CatalogNext ==
    \/ Open
    \/ Analyze("create_table") \/ Analyze("create_index")
    \/ Analyze("rename_table") \/ Analyze("rename_index") \/ Analyze("rename_column")
    \/ Analyze("drop_table") \/ Analyze("drop_index") \/ Analyze("truncate")
    \/ InterpretCreateTable \/ InterpretCreateIndex
    \/ InterpretDropTable \/ InterpretDropIndex \/ InterpretOther
CatalogSpec == CatalogInit /\ [][CatalogNext]_catalogVars

(***************************************************************************)
(* Whatever was created and dropped before, the names of a schema stay     *)
(* unique, no table has two primary indexes, and no primary index is left  *)
(* of a table that was dropped.                                            *)
(***************************************************************************)
CatalogSound ==
    /\ CatalogTypeOK
    /\ UniqueNames(tables) /\ UniqueNames(indexes)
    /\ HavePrimary(indexes) \subseteq tables /\ UniquePrimaries(indexes)

(***************************************************************************)
(* A statement that is interpreted can be repeated when it says IF EXISTS  *)
(* or IF NOT EXISTS: a second CREATE does nothing, and a second DROP does  *)
(* nothing to what the first one dropped.                                  *)
(***************************************************************************)
Repeatable ==
    /\ session = "analyze" /\ answer.result.kind \in {"create_table", "create_index", "drop_table", "drop_index"}
    /\ answer.command.conditional
CreatesNamed(command) ==
    \/ command.op = "create_table"
    \/ command.op = "create_index" /\ command.index.name # Unnamed
RepeatHarmless ==
    Repeatable =>
        LET again == Analysis(answer.command)
        IN  /\ CreatesNamed(answer.command) => again = Empty
            /\ answer.command.op \in {"drop_table", "drop_index"} =>
                  again.kind # "error" /\ (again # Empty => again.target # answer.result.target)

(***************************************************************************)
(* A rename is of an element of the catalog, and the new name is free in   *)
(* the schema of that element.                                             *)
(***************************************************************************)
Renames == {"rename_table", "rename_index"}
RenameFree ==
    session = "interpret" /\ answer.result.kind \in Renames =>
        LET elements == IF answer.result.kind = "rename_table" THEN tables ELSE indexes
            target == answer.result.target
        IN  /\ target \in elements
            /\ \A e \in elements : ~(e.schema = target.schema /\ e.name = answer.result.to)

(***************************************************************************)
(* Creating takes nothing from the catalog, and dropping one element takes *)
(* that one, with its primary index, and no other.  So every table has its *)
(* primary index, until a statement drops that by its name.                *)
(***************************************************************************)
Bare == tables \ HavePrimary(indexes)
CatalogStep ==
    LET result == answer.result
    IN  /\ result.kind \in {"create_table", "create_index"} => tables \subseteq tables' /\ indexes \subseteq indexes'
        /\ result.kind = "drop_table" =>
              /\ tables \ tables' \subseteq {result.target}
              /\ \A index \in indexes \ indexes' : index.primary /\ index.table = result.target
        /\ result.kind = "drop_index" => tables' = tables /\ indexes \ indexes' \subseteq {result.target}
        /\ Bare' \ Bare # {} => result.kind = "drop_index" /\ Bare' \ Bare = {result.target.table}
CatalogSteps == [][session = "interpret" => CatalogStep]_catalogVars

=============================================================================
