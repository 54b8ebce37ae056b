----------------------------- MODULE WritePlan -----------------------------
(***************************************************************************)
(* analyze_statement: INSERT, UPDATE and DELETE.  Which columns of the     *)
(* table are written, from which variables, which of them are the keys     *)
(* that address the rows, and in which form.  The loops over the listed    *)
(* columns, the options, the index keys and the tuples take one iteration  *)
(* at a time.  The query that an INSERT reads is its number of columns.    *)
(***************************************************************************)
EXTENDS Naturals, Sequences, FiniteSets

CONSTANTS
    Table,          \* the columns of the table, in their order
    Exported,       \* those that are neither hidden nor synthesized
    Unknown,        \* a name that no column has
    PrimaryKeys,    \* the key sequences the primary index may have; a table
                    \* without a primary key has an index without keys
    MaxSource,      \* bound: columns of the query an INSERT reads
    MaxOptions      \* bound: options of an INSERT

VARIABLES
    statement,      \* the kind of statement
    keys,           \* index->keys()
    destinations,   \* destination_columns; the targets of UPDATE SET
    defaults,       \* INSERT ... DEFAULT VALUES
    writeKind,      \* the result of compute_write_type()
    options,        \* how many options were read
    keyPositions,   \* key_positions
    writeKeys,      \* the keys of the write operator
    writeValues,    \* its columns, or those of the write statement
    form,           \* a graph of operators, or a write statement
    pc, cursor

writeVars == <<statement, keys, destinations, defaults, writeKind, options,
               keyPositions, writeKeys, writeValues, form, pc, cursor>>
source == <<statement, keys>>
target == <<destinations, defaults, writeKind, options>>
plan == <<keyPositions, writeKeys, writeValues, form>>

TableColumns == {Table[i] : i \in DOMAIN Table}
ASSUME TableAssumption ==
    /\ Table \in Seq(TableColumns)
    /\ \A i, k \in DOMAIN Table : Table[i] = Table[k] => i = k
    /\ Exported \subseteq TableColumns
    /\ Unknown \notin TableColumns
ASSUME PrimaryKeysAssumption ==
    \A key \in PrimaryKeys :
        /\ key \in Seq(TableColumns)
        /\ \A i, k \in DOMAIN key : key[i] = key[k] => i = k
ASSUME BoundsAssumption == MaxSource \in Nat /\ MaxOptions \in Nat

(***************************************************************************)
(* A variable is a column of the table scan, a column of the query, or a   *)
(* new value of UPDATE SET.                                                *)
(***************************************************************************)
Variables == ({"scan"} \X TableColumns) \cup ({"query", "set"} \X (Nat \ {0}))
Pairs == [from : Variables, to : TableColumns]
Pair(variable, column) == [from |-> variable, to |-> column]
Occurs(x, sequence) == \E i \in DOMAIN sequence : sequence[i] = x

Stages == {"start", "columns", "all", "listed", "query", "options", "form", "keys",
           "tuples", "scan", "rows", "set", "done", "failed"}

WriteTypeOK ==
    /\ statement \in {"none", "insert", "update", "delete"}
    /\ keys \in PrimaryKeys \cup {<<>>}
    /\ destinations \in Seq(TableColumns)
    /\ defaults \in BOOLEAN
    /\ writeKind \in {"insert", "insert_skip", "insert_overwrite"}
    /\ options \in 0..MaxOptions
    /\ keyPositions \in Seq(Nat \ {0})
    /\ writeKeys \in Seq(Pairs)
    /\ writeValues \in Seq(Pairs)
    /\ form \in {"none", "graph", "write"}
    /\ pc \in Stages
    /\ cursor \in Nat

WriteInit ==
    /\ statement = "none" /\ keys = <<>>
    /\ destinations = <<>> /\ defaults = FALSE
    /\ writeKind = "insert" /\ options = 0
    /\ keyPositions = <<>> /\ writeKeys = <<>> /\ writeValues = <<>>
    /\ form = "none"
    /\ pc = "start" /\ cursor = 1

Goto(from, to) == pc = from /\ pc' = to /\ cursor' = 1
Fail(from) == Goto(from, "failed") /\ UNCHANGED <<source, target, plan>>
Stay(at) == pc = at /\ UNCHANGED pc
Advance == cursor' = cursor + 1

(***************************************************************************)
(* The table and its primary index; UPDATE has a column to set.            *)
(***************************************************************************)
Begin(kinds, to) ==
    /\ Goto("start", to)
    /\ statement' \in kinds
    /\ keys' \in PrimaryKeys
    /\ UNCHANGED <<target, plan>>
BeginInsert == Begin({"insert"}, "columns")
BeginRows == Begin({"update", "delete"}, "scan")
RejectTarget == Fail("start")

(***************************************************************************)
(* INSERT: the columns of the table that are exported, or those listed.    *)
(***************************************************************************)
NoList == Goto("columns", "all") /\ UNCHANGED <<source, target, plan>>
List == Goto("columns", "listed") /\ UNCHANGED <<source, target, plan>>

TakeExported ==
    /\ Stay("all") /\ cursor <= Len(Table) /\ Advance
    /\ destinations' = IF Table[cursor] \in Exported
                       THEN Append(destinations, Table[cursor]) ELSE destinations
    /\ UNCHANGED <<source, defaults, writeKind, options, plan>>

EndAll ==
    /\ Goto("all", "query") /\ cursor > Len(Table)
    /\ UNCHANGED <<source, target, plan>>

(* Mutant of Insertable: a column may be listed again.                     *)
AnyExported(name) == name \in Exported
Insertable(name) == name \in Exported /\ ~Occurs(name, destinations)

InsertColumn ==
    /\ Stay("listed")
    /\ \E name \in TableColumns \cup {Unknown} :
          Insertable(name) /\ destinations' = Append(destinations, name)
    /\ UNCHANGED <<source, defaults, writeKind, options, plan, cursor>>

RejectInsertColumn ==
    (\E name \in TableColumns \cup {Unknown} : ~Insertable(name)) /\ Fail("listed")

EndListed ==
    /\ Goto("listed", "query") /\ destinations # <<>>
    /\ UNCHANGED <<source, target, plan>>

DefaultValues ==
    /\ Goto("query", "options")
    /\ defaults' = TRUE
    /\ UNCHANGED <<source, destinations, writeKind, options, plan>>

QueryColumns ==
    /\ Goto("query", "options")
    /\ Len(destinations) \in 0..MaxSource
    /\ UNCHANGED <<source, target, plan>>

RejectQuery == (\E n \in 0..MaxSource : n # Len(destinations)) /\ Fail("query")

(***************************************************************************)
(* compute_write_type(): a second option is reported, and the last wins.   *)
(***************************************************************************)
Option ==
    /\ Stay("options") /\ options < MaxOptions
    /\ writeKind' \in {"insert_skip", "insert_overwrite"}
    /\ options' = options + 1
    /\ UNCHANGED <<source, destinations, defaults, plan, cursor>>

EndOptions == Goto("options", "form") /\ UNCHANGED <<source, target, plan>>

(***************************************************************************)
(* The write statement, when it is preferred and the source is VALUES      *)
(* without subqueries; DEFAULT VALUES writes no column in either form.     *)
(***************************************************************************)
Tuple(i) == Pair(<<"query", i>>, destinations[i])
Tuples == IF defaults THEN <<>> ELSE [i \in DOMAIN destinations |-> Tuple(i)]

WriteStatement ==
    /\ Goto("form", "done")
    /\ form' = "write"
    /\ writeValues' = Tuples
    /\ UNCHANGED <<source, target, keyPositions, writeKeys>>

WriteNothing ==
    /\ Goto("form", "done") /\ defaults
    /\ form' = "graph"
    /\ UNCHANGED <<source, target, keyPositions, writeKeys, writeValues>>

WriteGraph ==
    /\ Goto("form", "keys") /\ ~defaults
    /\ form' = "graph"
    /\ UNCHANGED <<source, target, keyPositions, writeKeys, writeValues>>

PositionsOf(column) == {i \in DOMAIN destinations : destinations[i] = column}

CollectKey ==
    /\ Stay("keys") /\ cursor <= Len(keys) /\ Advance
    /\ \E i \in PositionsOf(keys[cursor]) : keyPositions' = Append(keyPositions, i)
    /\ UNCHANGED <<source, target, writeKeys, writeValues, form>>

OmitKey ==
    /\ Stay("keys") /\ cursor <= Len(keys) /\ Advance
    /\ PositionsOf(keys[cursor]) = {}
    /\ UNCHANGED <<source, target, plan>>

EndKeys ==
    /\ Goto("keys", "tuples") /\ cursor > Len(keys)
    /\ UNCHANGED <<source, target, plan>>

(* Mutant of Belongs: the first tuples are taken for the keys.             *)
BelongsByCount == cursor <= Len(keyPositions)
Belongs == Occurs(cursor, keyPositions)

KeyTuple ==
    /\ Stay("tuples") /\ cursor <= Len(destinations) /\ Advance
    /\ Belongs
    /\ writeKeys' = Append(writeKeys, Tuple(cursor))
    /\ UNCHANGED <<source, target, keyPositions, writeValues, form>>

ValueTuple ==
    /\ Stay("tuples") /\ cursor <= Len(destinations) /\ Advance
    /\ ~Belongs
    /\ writeValues' = Append(writeValues, Tuple(cursor))
    /\ UNCHANGED <<source, target, keyPositions, writeKeys, form>>

EndTuples ==
    /\ Goto("tuples", "done") /\ cursor > Len(destinations)
    /\ UNCHANGED <<source, target, plan>>

(***************************************************************************)
(* UPDATE and DELETE: the table is scanned, filtered by a predicate that   *)
(* may not hold set functions, and the rows are addressed by their keys.   *)
(***************************************************************************)
Filter == Goto("scan", "rows") /\ UNCHANGED <<source, target, plan>>
RejectPredicate == Fail("scan")

(* Mutant of RowKey: the row is addressed by the new value.                *)
RowKeyNew(column) == Pair(<<"set", cursor>>, column)
RowKey(column) == Pair(<<"scan", column>>, column)

(* Without keys an error is reported, and the empty keys are used.         *)
AddRowKey ==
    /\ Stay("rows") /\ cursor <= Len(keys) /\ Advance
    /\ writeKeys' = Append(writeKeys, RowKey(keys[cursor]))
    /\ UNCHANGED <<source, target, keyPositions, writeValues, form>>

EndRowKeys ==
    /\ Goto("rows", IF statement = "update" THEN "set" ELSE "done")
    /\ cursor > Len(keys)
    /\ form' = "graph"
    /\ UNCHANGED <<source, target, keyPositions, writeKeys, writeValues>>

Updatable(name) == name \in TableColumns /\ ~Occurs(name, destinations)

SetColumn ==
    /\ Stay("set") /\ Advance
    /\ \E name \in TableColumns \cup {Unknown} :
          /\ Updatable(name)
          /\ destinations' = Append(destinations, name)
          /\ writeValues' = Append(writeValues, Pair(<<"set", cursor>>, name))
    /\ UNCHANGED <<source, defaults, writeKind, options, keyPositions, writeKeys, form>>

RejectSetColumn ==
    (\E name \in TableColumns \cup {Unknown} : ~Updatable(name)) /\ Fail("set")

EndSet ==
    /\ Goto("set", "done") /\ destinations # <<>>
    /\ UNCHANGED <<source, target, plan>>

InsertNext ==
    \/ BeginInsert \/ RejectTarget
    \/ NoList \/ List \/ TakeExported \/ EndAll
    \/ InsertColumn \/ RejectInsertColumn \/ EndListed
    \/ DefaultValues \/ QueryColumns \/ RejectQuery
    \/ Option \/ EndOptions
    \/ WriteStatement \/ WriteNothing \/ WriteGraph
    \/ CollectKey \/ OmitKey \/ EndKeys
    \/ KeyTuple \/ ValueTuple \/ EndTuples

RowNext ==
    \/ BeginRows
    \/ Filter \/ RejectPredicate
    \/ AddRowKey \/ EndRowKeys
    \/ SetColumn \/ RejectSetColumn \/ EndSet

WriteNext == InsertNext \/ RowNext
WriteSpec == WriteInit /\ [][WriteNext]_writeVars

(***************************************************************************)
(* An INSERT writes column i of its query to the i-th destination and      *)
(* nothing else, once, in whichever form, although the tuples are divided  *)
(* into keys and values.                                                   *)
(***************************************************************************)
Written == {writeKeys[i] : i \in DOMAIN writeKeys} \cup {writeValues[i] : i \in DOMAIN writeValues}
Wanted == {Tuples[i] : i \in DOMAIN Tuples}

InsertWritesRow ==
    pc = "done" /\ statement = "insert" =>
        /\ Written = Wanted
        /\ Len(writeKeys) + Len(writeValues) = Len(Tuples)

(***************************************************************************)
(* The keys of an INSERT's write operator are the index keys among the     *)
(* destinations, and no value of it is an index key.                       *)
(***************************************************************************)
InsertKeysExact ==
    pc = "done" /\ statement = "insert" /\ form = "graph" =>
        /\ \A i \in DOMAIN writeKeys : Occurs(writeKeys[i].to, keys)
        /\ \A i \in DOMAIN writeValues : ~Occurs(writeValues[i].to, keys)

(***************************************************************************)
(* Dividing the tuples into keys and values loses and moves none of them.  *)
(***************************************************************************)
InsertExact == InsertWritesRow /\ InsertKeysExact

(***************************************************************************)
(* No column is written twice, and INSERT writes no hidden column.         *)
(***************************************************************************)
WrittenOnce ==
    /\ WriteTypeOK
    /\ \A i, k \in DOMAIN writeValues : writeValues[i].to = writeValues[k].to => i = k
    /\ \A i, k \in DOMAIN writeKeys : writeKeys[i].to = writeKeys[k].to => i = k
    /\ statement = "insert" => \A pair \in Written : pair.to \in Exported

(***************************************************************************)
(* UPDATE and DELETE address a row by the values the scan read, all keys   *)
(* in the order of the index, also when UPDATE sets a key column.          *)
(***************************************************************************)
RowsAddressedByScan ==
    pc = "done" /\ statement # "insert" =>
        /\ Len(writeKeys) = Len(keys)
        /\ \A i \in DOMAIN keys : writeKeys[i] = Pair(<<"scan", keys[i]>>, keys[i])

(***************************************************************************)
(* No row is updated or deleted without a key: build_write_keys() reports  *)
(* an index that has none as an error, and the analyzer promises an        *)
(* invalid result for an error.                                            *)
(***************************************************************************)
RowsHaveKeys == pc = "done" /\ statement # "insert" => writeKeys # <<>>

=============================================================================
