-------------------------- MODULE TableDefinition --------------------------
(***************************************************************************)
(* analyze_statement: CREATE TABLE.  The elements are read twice: first    *)
(* the columns with their types and constraints, one at a time and in any  *)
(* order, and then the constraints of the table.  The implicit defaults    *)
(* are filled at the end.  An identity column takes its sequence from the  *)
(* options that are written and from limits that depend on each other.     *)
(***************************************************************************)
EXTENDS ColumnTypes

CONSTANTS
    ColumnNames,
    TypeSyntaxes,       \* the types that may be written
    DefaultNumbers,     \* the numbers a DEFAULT clause may hold
    SequenceNumbers,    \* the numbers a sequence option may hold
    MaxColumns,         \* bound: columns of the table
    MaxConstraints      \* bound: constraints of a column

VARIABLES
    at,         \* where the analysis is
    columns,    \* table_columns, then those of the declaration
    typing,     \* a name, a type as it is written, and the result
    reading,    \* the number of a DEFAULT clause and its literal
    sequence,   \* the sequence under construction
    primary     \* primary_key_column, then primary_index

definitionVars == <<at, columns, typing, reading, sequence, primary>>

ConstraintKinds == {"primary_key", "null", "not_null", "default", "identity"}
ColumnDefaults == {"none", "value", "sequence", "null"}
ColumnTypeKinds == {"int4", "int8", "other"}
DefinitionStages ==
    {"start", "elements", "type", "constraints", "default", "increment", "min", "max",
     "initial", "range", "sequence", "table", "key", "done", "empty", "refused", "failed"}
Nothing == [is |-> "nothing"]

ASSUME DefinitionAssumption ==
    /\ MaxColumns \in Nat /\ MaxConstraints \in Nat
    /\ TypeSyntaxes # {} /\ ColumnNames # {}
ASSUME WrittenAssumption ==
    /\ \A syntax \in TypeSyntaxes : IsTypeSyntax(syntax)
    /\ DefaultNumbers \cup SequenceNumbers \subseteq Numeral

Column == [name : ColumnNames, type : ColumnTypeKinds, nullable : BOOLEAN,
           default : ColumnDefaults, constraints : [ConstraintKinds -> Nat]]
DefinitionTypeOK ==
    /\ at \in DefinitionStages
    /\ columns \in Seq(Column)
    /\ primary \in [declared : {"no", "column", "table"}, keys : Seq(ColumnNames)]

DefinitionInit ==
    /\ at = "start" /\ columns = <<>>
    /\ typing = Nothing /\ reading = Nothing /\ sequence = Nothing
    /\ primary = [declared |-> "no", keys |-> <<>>]

Move(from, to) == at = from /\ at' = to
Abort(from) == Move(from, "failed") /\ UNCHANGED <<columns, typing, reading, sequence, primary>>

(***************************************************************************)
(* The table name: a defined table is an error or, with IF NOT EXISTS, an  *)
(* empty statement; parameters and qualified names are errors.             *)
(***************************************************************************)
BeginDefinition ==
    Move("start", "elements") /\ UNCHANGED <<columns, typing, reading, sequence, primary>>
AlreadyDefined ==
    Move("start", "empty") /\ UNCHANGED <<columns, typing, reading, sequence, primary>>
RejectDefinition == Abort("start")

(***************************************************************************)
(* A column: its type, and then its name among those before it.            *)
(***************************************************************************)
NamesSoFar == {columns[i].name : i \in DOMAIN columns}
KindOf(type) == IF type.kind \in {"int4", "int8"} THEN type.kind ELSE "other"
Prototype(name, type) ==
    [name |-> name, type |-> KindOf(type), nullable |-> TRUE, default |-> "none",
     constraints |-> [kind \in ConstraintKinds |-> 0]]

AnalyzeType ==
    /\ Move("elements", "type") /\ Len(columns) < MaxColumns
    /\ \E name \in ColumnNames, syntax \in TypeSyntaxes :
          typing' = [name |-> name, syntax |-> syntax, type |-> ColumnType(syntax)]
    /\ UNCHANGED <<columns, reading, sequence, primary>>

Definable == typing.type # TypeError /\ typing.name \notin NamesSoFar

AddColumn ==
    /\ Move("type", "constraints") /\ Definable
    /\ columns' = Append(columns, Prototype(typing.name, typing.type))
    /\ typing' = Nothing
    /\ UNCHANGED <<reading, sequence, primary>>

RejectColumn ==
    /\ Move("type", "failed") /\ ~Definable
    /\ typing' = Nothing
    /\ UNCHANGED <<columns, reading, sequence, primary>>

NextColumn ==
    Move("constraints", "elements") /\ UNCHANGED <<columns, typing, reading, sequence, primary>>

(***************************************************************************)
(* The constraints of the column that is read last.                        *)
(***************************************************************************)
Current == columns[Len(columns)]
Replace(column) == [columns EXCEPT ![Len(columns)] = column]
With(kind) == [Current EXCEPT !.constraints[kind] = @ + 1]
SawNullity == Current.constraints["null"] + Current.constraints["not_null"] > 0

Read(kind) ==
    /\ at = "constraints"
    /\ MapThenSumSet(LAMBDA k : Current.constraints[k], ConstraintKinds) < MaxConstraints
    /\ UNCHANGED <<typing, reading>>
Refuse(kind) ==
    /\ Read(kind) /\ at' = "refused"
    /\ columns' = Replace(With(kind))
    /\ UNCHANGED <<sequence, primary>>

CanBePrimary == primary.declared = "no" /\ ~(SawNullity /\ Current.nullable)
(* Mutant of CanBeNull: only an explicit nullity is looked at.             *)
CanBeNullAfterKey == ~SawNullity
CanBeNull == ~SawNullity /\ Current.nullable
CanBeNotNull == ~SawNullity
CanHaveDefault == Current.default = "none"

(* Index values and parameters of the key of a column are not looked at.   *)
PrimaryKeyColumn ==
    /\ Read("primary_key") /\ UNCHANGED at /\ CanBePrimary
    /\ columns' = Replace([With("primary_key") EXCEPT !.nullable = FALSE])
    /\ primary' = [declared |-> "column", keys |-> <<Current.name>>]
    /\ UNCHANGED sequence

NullColumn ==
    /\ Read("null") /\ UNCHANGED at /\ CanBeNull
    /\ columns' = Replace([With("null") EXCEPT !.nullable = TRUE])
    /\ UNCHANGED <<sequence, primary>>

NotNullColumn ==
    /\ Read("not_null") /\ UNCHANGED at /\ CanBeNotNull
    /\ columns' = Replace([With("not_null") EXCEPT !.nullable = FALSE])
    /\ UNCHANGED <<sequence, primary>>

RefuseConstraint ==
    /\ at = "constraints"
    /\ \/ ~CanBePrimary /\ Refuse("primary_key")
       \/ ~CanBeNull /\ Refuse("null")
       \/ ~CanBeNotNull /\ Refuse("not_null")
       \/ ~CanHaveDefault /\ (Refuse("default") \/ Refuse("identity"))

RejectConstraint == Abort("constraints")

(***************************************************************************)
(* DEFAULT: a number, another literal or a function without arguments.     *)
(***************************************************************************)
DefaultNumber ==
    /\ at = "constraints" /\ at' = "default" /\ CanHaveDefault
    /\ MapThenSumSet(LAMBDA k : Current.constraints[k], ConstraintKinds) < MaxConstraints
    /\ \E written \in DefaultNumbers :
          reading' = [literal |-> Fold(written), immediate |-> ExactNumeric(Fold(written))]
    /\ UNCHANGED <<columns, typing, sequence, primary>>

EndDefaultNumber ==
    /\ Move("default", "constraints")
    /\ reading.immediate # LiteralError /\ reading.literal.operators = 0
    /\ columns' = Replace([With("default") EXCEPT !.default = "value"])
    /\ reading' = Nothing
    /\ UNCHANGED <<typing, sequence, primary>>

RejectDefaultNumber ==
    /\ Move("default", "failed")
    /\ reading.immediate = LiteralError \/ reading.literal.operators > 0
    /\ reading' = Nothing
    /\ UNCHANGED <<columns, typing, sequence, primary>>

DefaultValue ==
    /\ Read("default") /\ UNCHANGED at /\ CanHaveDefault
    /\ columns' = Replace([With("default") EXCEPT !.default = "value"])
    /\ UNCHANGED <<sequence, primary>>

(***************************************************************************)
(* GENERATED AS IDENTITY.  An absent option keeps the default it has by    *)
(* then: the limits follow the direction, and the initial value the limits.*)
(***************************************************************************)
Identity ==
    /\ Read("identity") /\ at' = "increment" /\ CanHaveDefault
    /\ Current.type # "other"
    /\ columns' = Replace(With("identity"))
    /\ sequence' = [increment |-> 1, min |-> 1, max |-> 1, initial |-> 1, given |-> FALSE]
    /\ UNCHANGED primary

RejectIdentity ==
    /\ Read("identity") /\ at' = "failed" /\ CanHaveDefault
    /\ Current.type = "other"
    /\ UNCHANGED <<columns, sequence, primary>>

Numbers == UNION {SequenceValues(Fold(written), Current.type) : written \in SequenceNumbers}
SequenceStep(from, to) == Move(from, to) /\ UNCHANGED <<columns, typing, reading, primary>>

(* Mutant of Limits: the lower limit of an INT is that of a BIGINT.        *)
LimitsWide(increment) ==
    IF increment > 0 THEN [min |-> 1, max |-> Highest("int8")]
                     ELSE [min |-> Lowest("int8"), max |-> -1]
Limits(increment) ==
    IF increment > 0 THEN [min |-> 1, max |-> Highest(Current.type)]
                     ELSE [min |-> Lowest(Current.type), max |-> -1]

ReadIncrement ==
    /\ SequenceStep("increment", "min")
    /\ \E n \in (Numbers \ {0}) \cup {1} :
          sequence' = [sequence EXCEPT !.increment = n, !.min = Limits(n).min, !.max = Limits(n).max]
NoMin == SequenceStep("min", "max") /\ UNCHANGED sequence
ReadMin == SequenceStep("min", "max") /\ \E n \in Numbers : sequence' = [sequence EXCEPT !.min = n]
NoMax == SequenceStep("max", "initial") /\ UNCHANGED sequence
ReadMax == SequenceStep("max", "initial") /\ \E n \in Numbers : sequence' = [sequence EXCEPT !.max = n]
NoInitial ==
    /\ SequenceStep("initial", "range")
    /\ sequence' = [sequence EXCEPT !.initial =
                       IF sequence.increment > 0 THEN sequence.min ELSE sequence.max]
ReadInitial ==
    /\ SequenceStep("initial", "range")
    /\ \E n \in Numbers : sequence' = [sequence EXCEPT !.initial = n, !.given = TRUE]

InRange == sequence.initial >= sequence.min /\ sequence.initial <= sequence.max
CheckRange == SequenceStep("range", "sequence") /\ InRange /\ UNCHANGED sequence

EndSequence ==
    /\ Move("sequence", "constraints")
    /\ columns' = Replace([Current EXCEPT !.default = "sequence"])
    /\ sequence' = Nothing
    /\ UNCHANGED <<typing, reading, primary>>

RejectSequence ==
    /\ sequence' = Nothing
    /\ \/ SequenceStep("range", "failed") /\ ~InRange
       \/ \E stage \in {"increment", "min", "max", "initial"} :
             /\ SequenceStep(stage, "failed")
             /\ \E written \in SequenceNumbers :
                   LET values == SequenceValues(Fold(written), Current.type)
                   IN  values = {} \/ (stage = "increment" /\ values = {0})

(***************************************************************************)
(* The constraints of the table: one primary key, whose columns are made   *)
(* not nullable when its keys are complete, whatever they say themselves.  *)
(***************************************************************************)
EndColumns ==
    /\ Move("elements", "table") /\ columns # <<>>
    /\ UNCHANGED <<columns, typing, reading, sequence, primary>>
RejectElements == columns = <<>> /\ Abort("elements")

(* Index values are refused (RejectTableConstraint).  Parameters are       *)
(* reported and skipped (process_primary_key(), lines 1233-1238): the key  *)
(* goes on as without them, and since the statement is the result, the     *)
(* report does not reach the caller.                                       *)
TableKey ==
    /\ Move("table", "key") /\ primary.declared = "no"
    /\ primary' = [declared |-> "table", keys |-> <<>>]
    /\ UNCHANGED <<columns, typing, reading, sequence>>
RejectTableConstraint == Abort("table")

IsKey(name) == \E i \in DOMAIN primary.keys : primary.keys[i] = name
AddKey ==
    /\ at = "key" /\ UNCHANGED <<at, columns, typing, reading, sequence>>
    /\ \E name \in NamesSoFar :
          ~IsKey(name) /\ primary' = [primary EXCEPT !.keys = Append(@, name)]
RejectKey == Abort("key")

(* Mutant of Keyed: a column that says NULL is left as it is.              *)
KeyedUnlessNull(column) ==
    [column EXCEPT !.nullable = @ /\ (~IsKey(column.name) \/ column.constraints["null"] > 0)]
Keyed(column) == [column EXCEPT !.nullable = @ /\ ~IsKey(column.name)]

EndKey ==
    /\ Move("key", "table") /\ primary.keys # <<>>
    /\ columns' = [i \in DOMAIN columns |-> Keyed(columns[i])]
    /\ UNCHANGED <<typing, reading, sequence, primary>>

(* Without a primary key the primary index has no keys.                    *)
(* Mutant of Filled: the default depends on the constraint that is written.*)
FilledByConstraint(column) ==
    IF column.constraints["not_null"] = 0 /\ column.default = "none"
    THEN [column EXCEPT !.default = "null"] ELSE column
Filled(column) ==
    IF column.nullable /\ column.default = "none"
    THEN [column EXCEPT !.default = "null"] ELSE column

EndDefinition ==
    /\ Move("table", "done")
    /\ columns' = [i \in DOMAIN columns |-> Filled(columns[i])]
    /\ UNCHANGED <<typing, reading, sequence, primary>>

ColumnNext ==
    \/ BeginDefinition \/ AlreadyDefined \/ RejectDefinition
    \/ AnalyzeType \/ AddColumn \/ RejectColumn \/ NextColumn
    \/ PrimaryKeyColumn \/ NullColumn \/ NotNullColumn
    \/ RefuseConstraint \/ RejectConstraint
    \/ DefaultNumber \/ EndDefaultNumber \/ RejectDefaultNumber \/ DefaultValue
SequenceNext ==
    \/ Identity \/ RejectIdentity \/ ReadIncrement
    \/ NoMin \/ ReadMin \/ NoMax \/ ReadMax \/ NoInitial \/ ReadInitial
    \/ CheckRange \/ EndSequence \/ RejectSequence
KeyNext ==
    \/ EndColumns \/ RejectElements
    \/ TableKey \/ RejectTableConstraint \/ AddKey \/ RejectKey \/ EndKey
    \/ EndDefinition
DefinitionNext == ColumnNext \/ SequenceNext \/ KeyNext
DefinitionSpec == DefinitionInit /\ [][DefinitionNext]_definitionVars

(***************************************************************************)
(* In whatever order the constraints of a column come, it is refused for   *)
(* exactly the combinations that the note in the loop lists.               *)
(***************************************************************************)
PrimaryColumns == {i \in DOMAIN columns : columns[i].constraints["primary_key"] > 0}
Restricted(constraints) ==
    \/ constraints["primary_key"] > 1
    \/ constraints["primary_key"] > 0 /\ constraints["null"] > 0
    \/ constraints["null"] + constraints["not_null"] > 1
    \/ constraints["default"] + constraints["identity"] > 1
AnyRestricted ==
    \/ \E i \in DOMAIN columns : Restricted(columns[i].constraints)
    \/ \E i, k \in PrimaryColumns : i # k
ConstraintsExact == AnyRestricted <=> at = "refused"

(***************************************************************************)
(* A column of the table is nullable unless it says NOT NULL or belongs to *)
(* the primary key, however that is declared, and exactly the nullable     *)
(* columns without a default have NULL as their implicit default.          *)
(***************************************************************************)
Explicit(column) == column.constraints["default"] + column.constraints["identity"] > 0
ColumnExact(column) ==
    /\ column.nullable <=> column.constraints["not_null"] = 0 /\ ~IsKey(column.name)
    /\ column.default = "null" <=> column.nullable /\ ~Explicit(column)
    /\ column.default = "none" <=> ~column.nullable /\ ~Explicit(column)
ColumnsExact == at = "done" => \A i \in DOMAIN columns : ColumnExact(columns[i])

(***************************************************************************)
(* The keys of the primary index are distinct columns of the table, and no *)
(* column of a complete key is nullable.                                   *)
(***************************************************************************)
KeyColumns ==
    /\ DefinitionTypeOK
    /\ \A i, k \in DOMAIN primary.keys : primary.keys[i] = primary.keys[k] => i = k
    /\ \A i, k \in DOMAIN columns : columns[i].name = columns[k].name => i = k
    /\ \A i \in DOMAIN primary.keys : primary.keys[i] \in NamesSoFar
    /\ at \notin {"key", "failed"} =>
          \A i \in DOMAIN columns : IsKey(columns[i].name) => ~columns[i].nullable

(***************************************************************************)
(* A sequence counts within its limits, the limits are within the column   *)
(* type, and without an initial value it starts from the end it leaves.    *)
(***************************************************************************)
SequenceExact ==
    at = "sequence" =>
        /\ sequence.increment # 0
        /\ sequence.min <= sequence.initial /\ sequence.initial <= sequence.max
        /\ {sequence.min, sequence.max, sequence.increment} \subseteq RangeOf(Current.type)
        /\ ~sequence.given =>
              sequence.initial = IF sequence.increment > 0 THEN sequence.min ELSE sequence.max

(***************************************************************************)
(* The number of a DEFAULT clause is kept, at the ends of 64 bits too, and *)
(* the type of a column is one that the written type asks for.             *)
(***************************************************************************)
LiteralsExact == reading # Nothing => KeepsNumber(reading.literal, reading.immediate)
TypesExact == typing # Nothing => HoldsRequest(typing.syntax, typing.type)

=============================================================================
