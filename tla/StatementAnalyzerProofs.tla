---------------------- MODULE StatementAnalyzerProofs ----------------------
(***************************************************************************)
(* Proofs about the statements, each kind of them for any values of its    *)
(* constants: INSERT, UPDATE and DELETE, then CREATE TABLE with the numbers*)
(* and types it reads, then the statements on the catalog, then GRANT and  *)
(* REVOKE, then all of them as analyze_statement dispatches them.          *)
(***************************************************************************)
EXTENDS StatementAnalyzer, WellFoundedInduction, TLAPS

-----------------------------------------------------------------------------
(* INSERT, UPDATE and DELETE.                                              *)

(***************************************************************************)
(* The inductive invariant.  In every stage no column is a destination or  *)
(* is written twice, and an INSERT stays among the exported columns.  The  *)
(* loops add what they are for: the columns taken are those before the     *)
(* cursor, the positions collected are those of the keys before it, and    *)
(* the pairs written are those of the tuples, or the keys, before it.      *)
(***************************************************************************)
Distinct(s) == \A i, k \in DOMAIN s : s[i] = s[k] => i = k
DistinctTo(s) == \A i, k \in DOMAIN s : s[i].to = s[k].to => i = k
InsertStages == {"columns", "all", "listed", "query", "options", "form", "keys", "tuples"}

ColumnsOK ==
    /\ Distinct(keys) /\ Distinct(destinations)
    /\ statement = "insert" => \A i \in DOMAIN destinations : destinations[i] \in Exported
PairsOK ==
    /\ DistinctTo(writeKeys) /\ DistinctTo(writeValues)
    /\ statement = "insert" => \A pair \in Written : pair.to \in Exported

StagesOK ==
    /\ pc \in InsertStages => statement = "insert"
    /\ pc \in {"scan", "rows", "set"} => statement \in {"update", "delete"}
    /\ pc \in {"start", "columns", "scan", "rows"} => destinations = <<>>
    /\ pc \in (InsertStages \ {"tuples"}) \cup {"start", "scan"} =>
          writeKeys = <<>> /\ writeValues = <<>>
    /\ pc \in (InsertStages \ {"keys", "tuples"}) \cup {"start"} => keyPositions = <<>>
    /\ pc = "rows" => writeValues = <<>>
    /\ pc \in {"keys", "tuples"} => ~defaults /\ form = "graph"
    /\ cursor > 0
AllOK ==
    pc = "all" =>
        \A i \in DOMAIN destinations :
            \E k \in DOMAIN Table : k < cursor /\ destinations[i] = Table[k]
KeysOK ==
    pc = "keys" =>
        /\ \A i \in DOMAIN keyPositions :
              keyPositions[i] \in DOMAIN destinations
              /\ Occurs(destinations[keyPositions[i]], keys)
        /\ \A k \in DOMAIN keys : k < cursor =>
              \A i \in PositionsOf(keys[k]) : Occurs(i, keyPositions)
TuplesOK ==
    pc = "tuples" =>
        /\ \A i \in DOMAIN destinations :
              Occurs(i, keyPositions) <=> Occurs(destinations[i], keys)
        /\ cursor <= Len(destinations) + 1
        /\ Written = {Tuple(i) : i \in 1..(cursor - 1)}
        /\ Len(writeKeys) + Len(writeValues) = cursor - 1
        /\ \A i \in DOMAIN writeKeys : Occurs(writeKeys[i].to, keys)
        /\ \A i \in DOMAIN writeValues : ~Occurs(writeValues[i].to, keys)
RowsOK ==
    /\ pc \in {"rows", "set"} =>
          \A i \in DOMAIN writeKeys : writeKeys[i] = Pair(<<"scan", keys[i]>>, keys[i])
    /\ pc = "rows" => Len(writeKeys) = cursor - 1 /\ cursor <= Len(keys) + 1
    /\ pc = "set" => Len(writeKeys) = Len(keys)
SetOK ==
    pc = "set" =>
        /\ Len(writeValues) = Len(destinations)
        /\ \A i \in DOMAIN writeValues : writeValues[i].to = destinations[i]

WriteStage == StagesOK /\ AllOK /\ KeysOK /\ TuplesOK /\ RowsOK /\ SetOK
WriteResult == InsertExact /\ RowsAddressedByScan
WriteInv == WriteTypeOK /\ ColumnsOK /\ PairsOK /\ WriteStage /\ WriteResult

(***************************************************************************)
(* Facts about sequences and the data of the module.                       *)
(***************************************************************************)
LEMMA Appended ==
    ASSUME NEW S, NEW s \in Seq(S), NEW x \in S, NEW t, t = Append(s, x)
    PROVE  /\ t \in Seq(S) /\ Len(s) \in Nat /\ Len(t) = Len(s) + 1
           /\ DOMAIN s = 1..Len(s) /\ DOMAIN t = 1..(Len(s) + 1)
           /\ t[Len(s) + 1] = x
           /\ \A i \in DOMAIN s : t[i] = s[i]
           /\ \A i \in DOMAIN t : i \in DOMAIN s \/ i = Len(s) + 1
           /\ Len(s) + 1 \notin DOMAIN s
  OBVIOUS

LEMMA WriteColumns ==
    /\ Table \in Seq(TableColumns) /\ DOMAIN Table = 1..Len(Table) /\ Len(Table) \in Nat
    /\ Distinct(Table) /\ Exported \subseteq TableColumns
    /\ \A i \in DOMAIN Table : Table[i] \in TableColumns
  BY TableAssumption DEF Distinct, TableColumns

LEMMA IndexKeys ==
    ASSUME WriteTypeOK
    PROVE  keys \in Seq(TableColumns) /\ Distinct(keys)
<1>1. CASE keys = <<>>
  BY <1>1 DEF Distinct
<1>2. CASE keys \in PrimaryKeys
  BY <1>2, PrimaryKeysAssumption DEF Distinct
<1> QED BY <1>1, <1>2 DEF WriteTypeOK

LEMMA PairIn ==
    /\ \A column \in TableColumns :
          /\ Pair(<<"scan", column>>, column) \in Pairs
          /\ Pair(<<"scan", column>>, column).to = column
    /\ \A column \in TableColumns : \A i \in Nat \ {0} :
          /\ Pair(<<"query", i>>, column) \in Pairs /\ Pair(<<"set", i>>, column) \in Pairs
          /\ Pair(<<"query", i>>, column).to = column /\ Pair(<<"set", i>>, column).to = column
  BY DEF Pair, Pairs, Variables

(***************************************************************************)
(* Steps that only go on in the analysis.                                  *)
(***************************************************************************)
LEMMA GoOn ==
    ASSUME WriteInv, pc' \in Stages, cursor' \in Nat, UNCHANGED <<source, target, plan>>,
           WriteStage', WriteResult'
    PROVE  WriteInv'
<1>1. WriteTypeOK' /\ ColumnsOK'
  BY DEF WriteInv, WriteTypeOK, ColumnsOK, source, target, plan
<1>2. PairsOK'
  BY DEF WriteInv, PairsOK, Written, source, target, plan
<1> QED BY <1>1, <1>2 DEF WriteInv

(* What is not yet done has no result.                                     *)
LEMMA NoResult ==
    ASSUME pc # "done"
    PROVE  WriteResult
  BY DEF WriteResult, InsertExact, InsertWritesRow, InsertKeysExact, RowsAddressedByScan

LEMMA WriteFailStep ==
    ASSUME WriteInv, NEW from, Fail(from)
    PROVE  WriteInv'
<1>1. /\ pc' = "failed" /\ cursor' = 1 /\ UNCHANGED <<source, target, plan>>
  BY DEF Fail, Goto
<1>2. WriteStage'
  BY <1>1 DEF WriteStage, StagesOK, InsertStages, AllOK, KeysOK, TuplesOK, RowsOK, SetOK
<1>3. WriteResult'
  BY <1>1 DEF WriteResult, InsertExact, InsertWritesRow, InsertKeysExact, RowsAddressedByScan
<1> QED BY <1>1, <1>2, <1>3, GoOn DEF Stages

LEMMA WriteUnchanged == WriteInv /\ UNCHANGED writeVars => WriteInv'
<1> SUFFICES ASSUME WriteInv, UNCHANGED writeVars PROVE WriteInv'
  OBVIOUS
<1>1. /\ statement' = statement /\ keys' = keys /\ destinations' = destinations
      /\ defaults' = defaults /\ writeKind' = writeKind /\ options' = options
      /\ keyPositions' = keyPositions /\ writeKeys' = writeKeys
      /\ writeValues' = writeValues /\ form' = form /\ pc' = pc /\ cursor' = cursor
  BY DEF writeVars
<1>2. WriteTypeOK' /\ ColumnsOK'
  BY <1>1 DEF WriteInv, WriteTypeOK, ColumnsOK
<1>3. Written' = Written /\ Wanted' = Wanted /\ Tuples' = Tuples
  BY <1>1 DEF Written, Wanted, Tuples, Tuple
<1>4. PairsOK'
  BY <1>1, <1>3 DEF WriteInv, PairsOK
<1>5. StagesOK' /\ AllOK' /\ RowsOK' /\ SetOK'
  BY <1>1 DEF WriteInv, WriteStage, StagesOK, AllOK, RowsOK, SetOK
<1>6. KeysOK'
  BY <1>1 DEF WriteInv, WriteStage, KeysOK, PositionsOf
<1>7. TuplesOK'
  BY <1>1, <1>3 DEF WriteInv, WriteStage, TuplesOK, Tuple
<1>8. WriteResult'
  BY <1>1, <1>3 DEF WriteInv, WriteResult, InsertExact, InsertWritesRow, InsertKeysExact,
                    RowsAddressedByScan
<1> QED BY <1>2, <1>4, <1>5, <1>6, <1>7, <1>8 DEF WriteInv, WriteStage

(***************************************************************************)
(* INSERT: the columns.                                                    *)
(***************************************************************************)
LEMMA WriteQuietSteps ==
    WriteInv /\ (NoList \/ List \/ EndAll \/ EndListed \/ QueryColumns \/ EndOptions) => WriteInv'
<1> SUFFICES ASSUME WriteInv, NoList \/ List \/ EndAll \/ EndListed \/ QueryColumns \/ EndOptions
             PROVE  WriteInv'
  OBVIOUS
<1>1. /\ UNCHANGED <<source, target, plan>> /\ cursor' = 1
      /\ pc \in {"columns", "all", "listed", "query", "options"}
      /\ pc' \in {"all", "listed", "query", "options", "form"}
      /\ pc' = "all" => pc = "columns"
  BY DEF NoList, List, EndAll, EndListed, QueryColumns, EndOptions, Goto
<1>2. WriteStage'
  <2>1. StagesOK' /\ AllOK'
    BY <1>1 DEF WriteInv, WriteStage, StagesOK, InsertStages, AllOK, source, target, plan
  <2> QED BY <1>1, <2>1 DEF WriteStage, KeysOK, TuplesOK, RowsOK, SetOK
<1>3. WriteResult'
  BY <1>1 DEF WriteResult, InsertExact, InsertWritesRow, InsertKeysExact, RowsAddressedByScan
<1> QED BY <1>1, <1>2, <1>3, GoOn DEF Stages

LEMMA BeginStep == WriteInv /\ (BeginInsert \/ BeginRows) => WriteInv'
<1> SUFFICES ASSUME WriteInv, BeginInsert \/ BeginRows PROVE WriteInv'
  OBVIOUS
<1>1. /\ pc = "start" /\ cursor' = 1 /\ UNCHANGED <<target, plan>> /\ keys' \in PrimaryKeys
      /\ \/ pc' = "columns" /\ statement' = "insert"
         \/ pc' = "scan" /\ statement' \in {"update", "delete"}
  BY DEF BeginInsert, BeginRows, Begin, Goto
<1>2. /\ destinations' = <<>> /\ writeKeys' = <<>> /\ writeValues' = <<>>
      /\ keyPositions' = <<>>
  BY <1>1 DEF WriteInv, WriteStage, StagesOK, target, plan
<1>3. WriteTypeOK'
  BY <1>1 DEF WriteInv, WriteTypeOK, Stages, target, plan
<1>4. ColumnsOK' /\ PairsOK'
  BY <1>1, <1>2, PrimaryKeysAssumption DEF ColumnsOK, PairsOK, Distinct, DistinctTo, Written
<1>5. WriteStage'
  BY <1>1, <1>2 DEF WriteStage, StagesOK, InsertStages, AllOK, KeysOK, TuplesOK, RowsOK, SetOK
<1>6. WriteResult'
  BY <1>1 DEF WriteResult, InsertExact, InsertWritesRow, InsertKeysExact, RowsAddressedByScan
<1> QED BY <1>3, <1>4, <1>5, <1>6 DEF WriteInv

(* A destination that is new and exported.                                 *)
LEMMA DestinationStep ==
    ASSUME WriteInv, pc \in {"all", "listed"}, pc' = pc, cursor' \in Nat \ {0}, cursor' >= cursor,
           NEW name \in Exported, \A i \in DOMAIN destinations : destinations[i] # name,
           destinations' = Append(destinations, name),
           UNCHANGED <<source, defaults, writeKind, options, plan>>,
           pc = "all" => \E k \in DOMAIN Table : k < cursor' /\ name = Table[k]
    PROVE  WriteInv'
<1>1. /\ statement = "insert" /\ statement' = "insert" /\ keys' = keys
      /\ writeKeys' = <<>> /\ writeValues' = <<>> /\ keyPositions' = <<>>
      /\ pc' \in {"all", "listed"} /\ cursor \in Nat
  BY DEF WriteInv, WriteTypeOK, WriteStage, StagesOK, InsertStages, source, plan
<1>2. name \in TableColumns /\ destinations \in Seq(TableColumns)
  BY WriteColumns DEF WriteInv, WriteTypeOK
<1>3. /\ destinations' \in Seq(TableColumns) /\ Len(destinations) \in Nat
      /\ DOMAIN destinations = 1..Len(destinations)
      /\ destinations'[Len(destinations) + 1] = name
      /\ \A i \in DOMAIN destinations : destinations'[i] = destinations[i]
      /\ \A i \in DOMAIN destinations' : i \in DOMAIN destinations \/ i = Len(destinations) + 1
  BY <1>2, Appended
<1>4. WriteTypeOK'
  BY <1>1, <1>3 DEF WriteInv, WriteTypeOK, Stages, source, plan
<1>5. ColumnsOK'
  <2>1. Distinct(destinations')
    BY <1>3 DEF WriteInv, ColumnsOK, Distinct
  <2> QED BY <1>1, <1>3, <2>1 DEF WriteInv, ColumnsOK
<1>6. PairsOK'
  BY <1>1 DEF PairsOK, DistinctTo, Written
<1>7. AllOK'
  <2>1. \A k \in DOMAIN Table : k < cursor => k < cursor'
    BY <1>1, WriteColumns
  <2>2. SUFFICES ASSUME pc = "all", NEW i \in DOMAIN destinations'
                 PROVE  \E k \in DOMAIN Table : k < cursor' /\ destinations'[i] = Table[k]
    BY DEF AllOK
  <2>3. CASE i \in DOMAIN destinations
    BY <1>3, <2>1, <2>2, <2>3 DEF WriteInv, WriteStage, AllOK
  <2>4. CASE i = Len(destinations) + 1
    BY <1>3, <2>2, <2>4
  <2> QED BY <1>3, <2>3, <2>4
<1>8. WriteStage'
  <2>1. StagesOK'
    BY <1>1 DEF StagesOK, InsertStages
  <2> QED BY <1>1, <1>7, <2>1 DEF WriteStage, KeysOK, TuplesOK, RowsOK, SetOK
<1>9. WriteResult'
  BY <1>1 DEF WriteResult, InsertExact, InsertWritesRow, InsertKeysExact, RowsAddressedByScan
<1> QED BY <1>4, <1>5, <1>6, <1>8, <1>9 DEF WriteInv

LEMMA InsertColumnStep == WriteInv /\ InsertColumn => WriteInv'
<1> SUFFICES ASSUME WriteInv, InsertColumn PROVE WriteInv'
  OBVIOUS
<1>1. PICK name : Insertable(name) /\ destinations' = Append(destinations, name)
  BY DEF InsertColumn
<1>2. /\ name \in Exported /\ \A i \in DOMAIN destinations : destinations[i] # name
      /\ pc = "listed" /\ pc' = pc /\ cursor' = cursor /\ cursor \in Nat \ {0}
      /\ UNCHANGED <<source, defaults, writeKind, options, plan>>
  BY <1>1 DEF InsertColumn, Insertable, Occurs, Stay, WriteInv, WriteTypeOK, WriteStage, StagesOK
<1> QED BY <1>1, <1>2, DestinationStep

LEMMA TakeExportedStep == WriteInv /\ TakeExported => WriteInv'
<1> SUFFICES ASSUME WriteInv, TakeExported PROVE WriteInv'
  OBVIOUS
<1>1. /\ pc = "all" /\ pc' = pc /\ cursor \in DOMAIN Table /\ cursor \in Nat \ {0}
      /\ cursor' = cursor + 1 /\ UNCHANGED <<source, defaults, writeKind, options, plan>>
      /\ destinations' = IF Table[cursor] \in Exported
                         THEN Append(destinations, Table[cursor]) ELSE destinations
  BY WriteColumns DEF TakeExported, Stay, Advance, WriteInv, WriteTypeOK, WriteStage, StagesOK
<1>2. \A i \in DOMAIN destinations : destinations[i] # Table[cursor]
  BY <1>1, WriteColumns DEF WriteInv, WriteStage, AllOK, Distinct
<1>3. CASE Table[cursor] \in Exported
  BY <1>1, <1>2, <1>3, DestinationStep
<1>4. CASE Table[cursor] \notin Exported
  <2>1. UNCHANGED <<source, target, plan>> /\ cursor' \in Nat /\ pc' \in Stages
    BY <1>1, <1>4 DEF target, Stages
  <2>2. AllOK'
    BY <1>1, <1>4, WriteColumns DEF WriteInv, WriteStage, AllOK
  <2>3. StagesOK'
    BY <1>1, <2>1 DEF WriteInv, WriteStage, StagesOK, InsertStages, source, target, plan
  <2>4. WriteStage'
    BY <1>1, <2>2, <2>3 DEF WriteStage, KeysOK, TuplesOK, RowsOK, SetOK
  <2>5. WriteResult'
    BY <1>1 DEF WriteResult, InsertExact, InsertWritesRow, InsertKeysExact, RowsAddressedByScan
  <2> QED BY <2>1, <2>4, <2>5, GoOn
<1> QED BY <1>3, <1>4

(***************************************************************************)
(* INSERT: the source, the options and the form.                           *)
(***************************************************************************)
LEMMA SourceSteps == WriteInv /\ (DefaultValues \/ Option) => WriteInv'
<1> SUFFICES ASSUME WriteInv, DefaultValues \/ Option PROVE WriteInv'
  OBVIOUS
<1>1. /\ UNCHANGED <<source, destinations, plan>> /\ cursor' \in {1, cursor}
      /\ pc \in {"query", "options"} /\ pc' = "options"
      /\ defaults' \in BOOLEAN /\ options' \in 0..MaxOptions
      /\ writeKind' \in {"insert", "insert_skip", "insert_overwrite"}
  <2>1. CASE DefaultValues
    BY <2>1 DEF DefaultValues, Goto, WriteInv, WriteTypeOK
  <2>2. CASE Option
    BY <2>2, BoundsAssumption DEF Option, Stay, WriteInv, WriteTypeOK
  <2> QED BY <2>1, <2>2
<1>2. WriteTypeOK'
  BY <1>1 DEF WriteInv, WriteTypeOK, Stages, source, plan
<1>3. ColumnsOK' /\ PairsOK'
  BY <1>1 DEF WriteInv, ColumnsOK, PairsOK, Written, source, plan
<1>4. StagesOK'
  BY <1>1 DEF WriteInv, WriteStage, StagesOK, InsertStages, source, plan
<1>5. WriteStage'
  BY <1>1, <1>4 DEF WriteStage, AllOK, KeysOK, TuplesOK, RowsOK, SetOK
<1>6. WriteResult'
  BY <1>1 DEF WriteResult, InsertExact, InsertWritesRow, InsertKeysExact, RowsAddressedByScan
<1> QED BY <1>2, <1>3, <1>5, <1>6 DEF WriteInv

LEMMA TupleAt ==
    ASSUME WriteTypeOK, NEW i \in DOMAIN destinations
    PROVE  /\ Tuple(i) \in Pairs /\ Tuple(i).to = destinations[i]
           /\ i \in Nat \ {0} /\ destinations[i] \in TableColumns
<1>1. i \in Nat \ {0} /\ destinations[i] \in TableColumns
  BY DEF WriteTypeOK
<1> QED BY <1>1, PairIn DEF Tuple

LEMMA TuplesOf ==
    ASSUME WriteTypeOK
    PROVE  /\ Tuples \in Seq(Pairs)
           /\ ~defaults => DOMAIN Tuples = DOMAIN destinations
           /\ ~defaults => Len(Tuples) = Len(destinations)
           /\ defaults => Tuples = <<>>
           /\ \A i \in DOMAIN Tuples : i \in DOMAIN destinations /\ Tuples[i] = Tuple(i)
<1>1. CASE defaults
  BY <1>1 DEF Tuples
<1>2. CASE ~defaults
  <2>1. Tuples = [i \in 1..Len(destinations) |-> Tuple(i)]
    BY <1>2 DEF Tuples, WriteTypeOK
  <2>2. DOMAIN destinations = 1..Len(destinations) /\ Len(destinations) \in Nat
    BY DEF WriteTypeOK
  <2>3. \A i \in 1..Len(destinations) : Tuple(i) \in Pairs
    BY <2>2, TupleAt
  <2> QED BY <1>2, <2>1, <2>2, <2>3
<1> QED BY <1>1, <1>2

LEMMA FormSteps == WriteInv /\ (WriteStatement \/ WriteNothing \/ WriteGraph) => WriteInv'
<1> SUFFICES ASSUME WriteInv, WriteStatement \/ WriteNothing \/ WriteGraph PROVE WriteInv'
  OBVIOUS
<1>1. /\ pc = "form" /\ cursor' = 1 /\ UNCHANGED <<source, target, keyPositions, writeKeys>>
      /\ \/ pc' = "done" /\ form' = "write" /\ writeValues' = Tuples
         \/ pc' = "done" /\ form' = "graph" /\ writeValues' = writeValues /\ defaults
         \/ pc' = "keys" /\ form' = "graph" /\ writeValues' = writeValues /\ ~defaults
  BY DEF WriteStatement, WriteNothing, WriteGraph, Goto
<1>2. /\ statement = "insert" /\ statement' = "insert" /\ keys' = keys
      /\ destinations' = destinations /\ defaults' = defaults
      /\ writeKeys' = <<>> /\ writeValues = <<>> /\ keyPositions' = <<>>
  BY <1>1 DEF WriteInv, WriteStage, StagesOK, InsertStages, source, target
<1>3. /\ Tuples \in Seq(Pairs)
      /\ defaults => Tuples = <<>>
      /\ \A i \in DOMAIN Tuples : i \in DOMAIN destinations /\ Tuples[i].to = destinations[i]
  BY TuplesOf, TupleAt DEF WriteInv
<1>4. Tuples' = Tuples
  BY <1>2 DEF Tuples, Tuple
<1>5. WriteTypeOK'
  <2>1. writeValues' \in Seq(Pairs) /\ writeKeys' \in Seq(Pairs)
    <3>1. <<>> \in Seq(Pairs)
      OBVIOUS
    <3>2. writeValues' = <<>> \/ writeValues' = Tuples
      BY <1>1, <1>2
    <3> QED BY <1>2, <1>3, <3>1, <3>2
  <2>2. keyPositions' \in Seq(Nat \ {0}) /\ pc' \in Stages /\ cursor' \in Nat
        /\ form' \in {"none", "graph", "write"}
    BY <1>1, <1>2 DEF Stages
  <2> QED BY <1>1, <2>1, <2>2 DEF WriteInv, WriteTypeOK, source, target
<1>6. ColumnsOK'
  BY <1>2 DEF WriteInv, ColumnsOK
<1>7. writeValues' = <<>> \/ writeValues' = Tuples
  BY <1>1, <1>2
<1>8. PairsOK'
  <2>1. DistinctTo(Tuples)
    BY <1>3 DEF DistinctTo, WriteInv, ColumnsOK, Distinct
  <2>2. \A i \in DOMAIN Tuples : Tuples[i].to \in Exported
    BY <1>2, <1>3 DEF WriteInv, ColumnsOK
  <2>3. DistinctTo(<<>>)
    BY DEF DistinctTo
  <2> QED BY <1>2, <1>7, <2>1, <2>2, <2>3 DEF PairsOK, Written
<1>9. WriteStage'
  <2>1. CASE pc' = "done"
    BY <1>1, <1>2, <2>1 DEF WriteStage, StagesOK, InsertStages, AllOK, KeysOK, TuplesOK, RowsOK,
                            SetOK
  <2>2. CASE pc' = "keys"
    BY <1>1, <1>2, <2>2 DEF WriteStage, StagesOK, InsertStages, AllOK, KeysOK, TuplesOK, RowsOK,
                            SetOK
  <2> QED BY <1>1, <2>1, <2>2
<1>10. WriteResult'
  <2>1. pc' = "done" => writeValues' = Tuples
    BY <1>1, <1>2, <1>3
  <2>2. InsertWritesRow'
    <3> SUFFICES ASSUME pc' = "done"
                 PROVE  Written' = Wanted' /\ Len(writeKeys') + Len(writeValues') = Len(Tuples')
      BY DEF InsertWritesRow
    <3>1. writeValues' = Tuples /\ Len(Tuples) \in Nat
      BY <1>3, <2>1
    <3> QED BY <1>2, <1>4, <3>1 DEF Written, Wanted
  <2>3. InsertKeysExact'
    BY <1>1, <1>2 DEF InsertKeysExact
  <2> QED BY <1>2, <2>2, <2>3 DEF WriteResult, InsertExact, RowsAddressedByScan
<1> QED BY <1>5, <1>6, <1>8, <1>9, <1>10 DEF WriteInv

(***************************************************************************)
(* INSERT: the keys.                                                       *)
(***************************************************************************)
LEMMA KeyLoopSteps == WriteInv /\ (CollectKey \/ OmitKey) => WriteInv'
<1> SUFFICES ASSUME WriteInv, CollectKey \/ OmitKey PROVE WriteInv'
  OBVIOUS
<1>1. /\ pc = "keys" /\ pc' = "keys" /\ cursor \in DOMAIN keys /\ cursor' = cursor + 1
      /\ statement' = statement /\ keys' = keys /\ destinations' = destinations
      /\ defaults' = defaults /\ writeKind' = writeKind /\ options' = options
      /\ writeKeys' = writeKeys /\ writeValues' = writeValues /\ form' = form
      /\ cursor \in Nat \ {0} /\ keys \in Seq(TableColumns)
  BY IndexKeys DEF CollectKey, OmitKey, Stay, Advance, WriteInv, WriteTypeOK, WriteStage, StagesOK,
                   source, target, plan
<1>2. /\ keyPositions \in Seq(Nat \ {0}) /\ destinations \in Seq(TableColumns)
      /\ DOMAIN destinations = 1..Len(destinations)
  BY DEF WriteInv, WriteTypeOK
<1>3. /\ keyPositions' \in Seq(Nat \ {0})
      /\ \A i \in DOMAIN keyPositions' :
            keyPositions'[i] \in DOMAIN destinations
            /\ Occurs(destinations[keyPositions'[i]], keys)
      /\ \A p : Occurs(p, keyPositions) => Occurs(p, keyPositions')
      /\ \A p \in PositionsOf(keys[cursor]) : Occurs(p, keyPositions')
  <2>1. CASE CollectKey
    <3>1. PICK p \in PositionsOf(keys[cursor]) : keyPositions' = Append(keyPositions, p)
      BY <2>1 DEF CollectKey
    <3>2. p \in DOMAIN destinations /\ destinations[p] = keys[cursor] /\ p \in Nat \ {0}
      BY <1>2, <3>1 DEF PositionsOf
    <3>3. /\ keyPositions' \in Seq(Nat \ {0}) /\ DOMAIN keyPositions \subseteq DOMAIN keyPositions'
          /\ Len(keyPositions) + 1 \in DOMAIN keyPositions'
          /\ keyPositions'[Len(keyPositions) + 1] = p
          /\ \A i \in DOMAIN keyPositions : keyPositions'[i] = keyPositions[i]
          /\ \A i \in DOMAIN keyPositions' :
                i \in DOMAIN keyPositions \/ i = Len(keyPositions) + 1
      BY <1>2, <3>1, <3>2, Appended
    <3>4. \A q \in PositionsOf(keys[cursor]) : q = p
      BY <3>2 DEF PositionsOf, WriteInv, ColumnsOK, Distinct
    <3>5. Occurs(destinations[p], keys) /\ Occurs(p, keyPositions')
      BY <1>1, <3>2, <3>3 DEF Occurs
    <3>6. \A q : Occurs(q, keyPositions) => Occurs(q, keyPositions')
      BY <3>3 DEF Occurs
    <3>7. \A i \in DOMAIN keyPositions' :
            keyPositions'[i] \in DOMAIN destinations
            /\ Occurs(destinations[keyPositions'[i]], keys)
      BY <1>1, <3>2, <3>3, <3>5 DEF WriteInv, WriteStage, KeysOK
    <3> QED BY <3>3, <3>4, <3>5, <3>6, <3>7
  <2>2. CASE OmitKey
    <3>1. keyPositions' = keyPositions /\ PositionsOf(keys[cursor]) = {}
      BY <2>2 DEF OmitKey, plan
    <3> QED BY <1>1, <1>2, <3>1 DEF WriteInv, WriteStage, KeysOK
  <2> QED BY <2>1, <2>2
<1>4. WriteTypeOK'
  BY <1>1, <1>3 DEF WriteInv, WriteTypeOK, Stages
<1>5. ColumnsOK' /\ PairsOK'
  BY <1>1 DEF WriteInv, ColumnsOK, PairsOK, Written
<1>6. KeysOK'
  <2>1. \A column : PositionsOf(column)' = PositionsOf(column)
    BY <1>1 DEF PositionsOf
  <2>2. \A k \in DOMAIN keys : k < cursor + 1 => k < cursor \/ k = cursor
    BY <1>1
  <2>3. \A k \in DOMAIN keys : k < cursor' =>
           \A i \in PositionsOf(keys[k]) : Occurs(i, keyPositions')
    BY <1>1, <1>3, <2>2 DEF WriteInv, WriteStage, KeysOK
  <2> QED BY <1>1, <1>3, <2>1, <2>3 DEF KeysOK
<1>7. WriteStage'
  <2>1. StagesOK'
    BY <1>1 DEF WriteInv, WriteStage, StagesOK, InsertStages
  <2> QED BY <1>1, <1>6, <2>1 DEF WriteStage, AllOK, TuplesOK, RowsOK, SetOK
<1>8. WriteResult'
  BY <1>1 DEF WriteResult, InsertExact, InsertWritesRow, InsertKeysExact, RowsAddressedByScan
<1> QED BY <1>4, <1>5, <1>7, <1>8 DEF WriteInv

LEMMA EndKeysStep == WriteInv /\ EndKeys => WriteInv'
<1> SUFFICES ASSUME WriteInv, EndKeys PROVE WriteInv'
  OBVIOUS
<1>1. /\ pc = "keys" /\ pc' = "tuples" /\ cursor' = 1 /\ cursor > Len(keys)
      /\ UNCHANGED <<source, target, plan>>
  BY DEF EndKeys, Goto
<1>2. /\ statement' = statement /\ keys' = keys /\ destinations' = destinations
      /\ defaults' = defaults /\ form' = form /\ keyPositions' = keyPositions
      /\ writeKeys = <<>> /\ writeValues = <<>> /\ writeKeys' = <<>> /\ writeValues' = <<>>
      /\ keys \in Seq(TableColumns) /\ cursor \in Nat /\ Len(destinations) \in Nat
  BY <1>1, IndexKeys DEF WriteInv, WriteTypeOK, WriteStage, StagesOK, InsertStages, source,
                         target, plan
<1>3. \A i \in DOMAIN destinations : Occurs(i, keyPositions) <=> Occurs(destinations[i], keys)
  <2> SUFFICES ASSUME NEW i \in DOMAIN destinations
               PROVE  Occurs(i, keyPositions) <=> Occurs(destinations[i], keys)
    OBVIOUS
  <2>1. ASSUME Occurs(i, keyPositions) PROVE Occurs(destinations[i], keys)
    BY <1>1, <2>1 DEF Occurs, WriteInv, WriteStage, KeysOK
  <2>2. ASSUME Occurs(destinations[i], keys) PROVE Occurs(i, keyPositions)
    <3>1. PICK k \in DOMAIN keys : keys[k] = destinations[i]
      BY <2>2 DEF Occurs
    <3>2. k < cursor
      BY <1>1, <1>2
    <3>3. i \in PositionsOf(keys[k])
      BY <3>1 DEF PositionsOf
    <3> QED BY <1>1, <3>2, <3>3 DEF WriteInv, WriteStage, KeysOK
  <2> QED BY <2>1, <2>2
<1>4. TuplesOK'
  <2>1. Written' = {}
    BY <1>2 DEF Written
  <2>2. 1..(cursor' - 1) = {}
    BY <1>1
  <2> QED BY <1>1, <1>2, <1>3, <2>1, <2>2 DEF TuplesOK
<1>5. WriteStage'
  <2>1. StagesOK'
    BY <1>1, <1>2 DEF WriteInv, WriteStage, StagesOK, InsertStages
  <2> QED BY <1>1, <1>4, <2>1 DEF WriteStage, AllOK, KeysOK, RowsOK, SetOK
<1>6. WriteResult'
  BY <1>1 DEF WriteResult, InsertExact, InsertWritesRow, InsertKeysExact, RowsAddressedByScan
<1> QED BY <1>1, <1>5, <1>6, GoOn DEF Stages

(***************************************************************************)
(* INSERT: the tuples.                                                     *)
(***************************************************************************)
(* A pair to another column may be added.                                  *)
Members(s) == {s[i] : i \in DOMAIN s}
OtherColumns(s, pair) == \A i \in DOMAIN s : s[i].to # pair.to
OneMoreOf(s, pair, t) ==
    /\ t \in Seq(Pairs) /\ DistinctTo(t) /\ Len(t) = Len(s) + 1
    /\ Members(t) = Members(s) \cup {pair}
    /\ \A i \in DOMAIN t : (i \in DOMAIN s /\ t[i] = s[i]) \/ t[i] = pair

LEMMA OneMore ==
    ASSUME NEW s \in Seq(Pairs), NEW pair \in Pairs, DistinctTo(s), OtherColumns(s, pair)
    PROVE  OneMoreOf(s, pair, Append(s, pair))
<1> DEFINE t == Append(s, pair)
<1> HIDE DEF t
<1>1. /\ t \in Seq(Pairs) /\ Len(t) = Len(s) + 1 /\ DOMAIN s \subseteq DOMAIN t
      /\ Len(s) + 1 \in DOMAIN t /\ t[Len(s) + 1] = pair
      /\ \A i \in DOMAIN s : t[i] = s[i]
      /\ \A i \in DOMAIN t : i \in DOMAIN s \/ i = Len(s) + 1
  BY Appended DEF t
<1>2. DistinctTo(t)
  BY <1>1 DEF DistinctTo, OtherColumns
<1>3. Members(t) = Members(s) \cup {pair}
  BY <1>1 DEF Members
<1> QED BY <1>1, <1>2, <1>3 DEF OneMoreOf, t

LEMMA TupleLoopSteps == WriteInv /\ (KeyTuple \/ ValueTuple) => WriteInv'
<1> SUFFICES ASSUME WriteInv, KeyTuple \/ ValueTuple PROVE WriteInv'
  OBVIOUS
<1>1. /\ pc = "tuples" /\ pc' = "tuples" /\ cursor \in DOMAIN destinations
      /\ cursor' = cursor + 1
      /\ statement' = statement /\ keys' = keys /\ destinations' = destinations
      /\ defaults' = defaults /\ writeKind' = writeKind /\ options' = options
      /\ keyPositions' = keyPositions /\ form' = form
      /\ cursor \in Nat \ {0} /\ destinations \in Seq(TableColumns)
      /\ statement = "insert" /\ cursor <= Len(destinations)
  BY DEF KeyTuple, ValueTuple, Stay, Advance, WriteInv, WriteTypeOK, WriteStage, StagesOK,
         InsertStages,
         source, target, plan
<1>2. PICK new : new = Tuple(cursor)
  OBVIOUS
<1>3. /\ new \in Pairs /\ new.to = destinations[cursor] /\ new.to \in Exported
  BY <1>1, <1>2, TupleAt DEF WriteInv, ColumnsOK
<1>4. /\ writeKeys \in Seq(Pairs) /\ writeValues \in Seq(Pairs)
      /\ Len(writeKeys) \in Nat /\ Len(writeValues) \in Nat
  BY DEF WriteInv, WriteTypeOK
<1>5. Occurs(cursor, keyPositions) <=> Occurs(new.to, keys)
  BY <1>1, <1>3 DEF WriteInv, WriteStage, TuplesOK
<1>6. \A pair \in Written : pair.to # new.to
  <2> SUFFICES ASSUME NEW i \in 1..(cursor - 1) PROVE Tuple(i).to # new.to
    BY <1>1 DEF WriteInv, WriteStage, TuplesOK
  <2>1. i \in DOMAIN destinations /\ i # cursor
    BY <1>1
  <2> QED BY <1>1, <1>3, <2>1, TupleAt DEF WriteInv, ColumnsOK, Distinct
<1>7. OtherColumns(writeKeys, new) /\ OtherColumns(writeValues, new)
  BY <1>6 DEF Written, OtherColumns
<1>8. DistinctTo(writeKeys) /\ DistinctTo(writeValues)
  BY DEF WriteInv, PairsOK
<1>9. /\ writeKeys' \in Seq(Pairs) /\ writeValues' \in Seq(Pairs)
      /\ DistinctTo(writeKeys') /\ DistinctTo(writeValues')
      /\ Len(writeKeys') + Len(writeValues') = Len(writeKeys) + Len(writeValues) + 1
      /\ Written' = Written \cup {new}
      /\ \A i \in DOMAIN writeKeys' : Occurs(writeKeys'[i].to, keys)
      /\ \A i \in DOMAIN writeValues' : ~Occurs(writeValues'[i].to, keys)
  <2>1. CASE KeyTuple
    <3>1. writeKeys' = Append(writeKeys, new) /\ writeValues' = writeValues
          /\ Occurs(new.to, keys)
      BY <1>2, <1>5, <2>1 DEF KeyTuple, Belongs
    <3>2. /\ writeKeys' \in Seq(Pairs) /\ DistinctTo(writeKeys')
          /\ Len(writeKeys') = Len(writeKeys) + 1
          /\ Members(writeKeys)' = Members(writeKeys) \cup {new}
          /\ \A i \in DOMAIN writeKeys' :
                (i \in DOMAIN writeKeys /\ writeKeys'[i] = writeKeys[i]) \/ writeKeys'[i] = new
      <4>1. PICK list, longer : list = writeKeys /\ longer = writeKeys'
        OBVIOUS
      <4>2. /\ list \in Seq(Pairs) /\ longer = Append(list, new) /\ DistinctTo(list)
            /\ OtherColumns(list, new)
        BY <1>4, <1>7, <1>8, <3>1, <4>1
      <4>3. OneMoreOf(list, new, longer)
        BY <1>3, <4>2, OneMore
      <4>4. OneMoreOf(writeKeys, new, writeKeys')
        BY <4>1, <4>3, Zenon
      <4>5. Members(writeKeys)' = Members(writeKeys')
        BY DEF Members
      <4> QED BY <4>4, <4>5 DEF OneMoreOf
    <3>3. Written' = Written \cup {new}
      BY <3>1, <3>2 DEF Written, Members
    <3>4. \A i \in DOMAIN writeKeys' : Occurs(writeKeys'[i].to, keys)
      BY <1>1, <3>1, <3>2 DEF WriteInv, WriteStage, TuplesOK
    <3>5. \A i \in DOMAIN writeValues' : ~Occurs(writeValues'[i].to, keys)
      BY <1>1, <3>1 DEF WriteInv, WriteStage, TuplesOK
    <3> QED BY <1>4, <1>8, <3>1, <3>2, <3>3, <3>4, <3>5
  <2>2. CASE ValueTuple
    <3>1. writeValues' = Append(writeValues, new) /\ writeKeys' = writeKeys
          /\ ~Occurs(new.to, keys)
      BY <1>2, <1>5, <2>2 DEF ValueTuple, Belongs
    <3>2. /\ writeValues' \in Seq(Pairs) /\ DistinctTo(writeValues')
          /\ Len(writeValues') = Len(writeValues) + 1
          /\ Members(writeValues)' = Members(writeValues) \cup {new}
          /\ \A i \in DOMAIN writeValues' :
                (i \in DOMAIN writeValues /\ writeValues'[i] = writeValues[i])
                \/ writeValues'[i] = new
      <4>1. PICK list, longer : list = writeValues /\ longer = writeValues'
        OBVIOUS
      <4>2. /\ list \in Seq(Pairs) /\ longer = Append(list, new) /\ DistinctTo(list)
            /\ OtherColumns(list, new)
        BY <1>4, <1>7, <1>8, <3>1, <4>1
      <4>3. OneMoreOf(list, new, longer)
        BY <1>3, <4>2, OneMore
      <4>4. OneMoreOf(writeValues, new, writeValues')
        BY <4>1, <4>3, Zenon
      <4>5. Members(writeValues)' = Members(writeValues')
        BY DEF Members
      <4> QED BY <4>4, <4>5 DEF OneMoreOf
    <3>3. Written' = Written \cup {new}
      BY <3>1, <3>2 DEF Written, Members
    <3>4. \A i \in DOMAIN writeKeys' : Occurs(writeKeys'[i].to, keys)
      BY <1>1, <3>1 DEF WriteInv, WriteStage, TuplesOK
    <3>5. \A i \in DOMAIN writeValues' : ~Occurs(writeValues'[i].to, keys)
      BY <1>1, <3>1, <3>2 DEF WriteInv, WriteStage, TuplesOK
    <3> QED BY <1>4, <1>8, <3>1, <3>2, <3>3, <3>4, <3>5
  <2> QED BY <2>1, <2>2
<1>10. WriteTypeOK'
  BY <1>1, <1>9 DEF WriteInv, WriteTypeOK, Stages
<1>11. ColumnsOK' /\ PairsOK'
  BY <1>1, <1>3, <1>9 DEF WriteInv, ColumnsOK, PairsOK
<1>12. TuplesOK'
  <2>1. Written' = {Tuple(i) : i \in 1..cursor}
    <3>1. 1..cursor = 1..(cursor - 1) \cup {cursor}
      BY <1>1
    <3>2. Written = {Tuple(i) : i \in 1..(cursor - 1)}
      BY <1>1 DEF WriteInv, WriteStage, TuplesOK
    <3> QED BY <1>2, <1>9, <3>1, <3>2
  <2>2. cursor' - 1 = cursor
    BY <1>1
  <2>3. Len(writeKeys') + Len(writeValues') = cursor' - 1
    BY <1>1, <1>4, <1>9 DEF WriteInv, WriteStage, TuplesOK
  <2>4. Written' = {Tuple(i)' : i \in 1..(cursor' - 1)}
    BY <1>1, <2>1, <2>2 DEF Tuple
  <2>5. cursor' <= Len(destinations') + 1
    BY <1>1
  <2> QED BY <1>1, <1>9, <2>3, <2>4, <2>5 DEF WriteInv, WriteStage, TuplesOK
<1>13. WriteStage'
  <2>1. StagesOK'
    BY <1>1 DEF WriteInv, WriteStage, StagesOK, InsertStages
  <2> QED BY <1>1, <1>12, <2>1 DEF WriteStage, AllOK, KeysOK, RowsOK, SetOK
<1>14. WriteResult'
  BY <1>1 DEF WriteResult, InsertExact, InsertWritesRow, InsertKeysExact, RowsAddressedByScan
<1> QED BY <1>10, <1>11, <1>13, <1>14 DEF WriteInv

LEMMA EndTuplesStep == WriteInv /\ EndTuples => WriteInv'
<1> SUFFICES ASSUME WriteInv, EndTuples PROVE WriteInv'
  OBVIOUS
<1>1. /\ pc = "tuples" /\ pc' = "done" /\ cursor' = 1 /\ cursor > Len(destinations)
      /\ UNCHANGED <<source, target, plan>>
  BY DEF EndTuples, Goto
<1>2. /\ statement' = "insert" /\ keys' = keys /\ destinations' = destinations
      /\ defaults' = defaults /\ ~defaults
      /\ writeKeys' = writeKeys /\ writeValues' = writeValues
      /\ cursor \in Nat /\ Len(destinations) \in Nat
      /\ DOMAIN destinations = 1..Len(destinations)
  BY <1>1 DEF WriteInv, WriteTypeOK, WriteStage, StagesOK, InsertStages, source, target, plan
<1>3. cursor - 1 = Len(destinations)
  BY <1>1, <1>2 DEF WriteInv, WriteStage, TuplesOK
<1>4. Wanted = {Tuple(i) : i \in 1..(cursor - 1)} /\ Len(Tuples) = cursor - 1
  BY <1>2, <1>3, TuplesOf DEF Wanted, WriteInv
<1>5. Written = Wanted /\ Len(writeKeys) + Len(writeValues) = Len(Tuples)
  BY <1>1, <1>4 DEF WriteInv, WriteStage, TuplesOK
<1>6. Written' = Written /\ Wanted' = Wanted /\ Tuples' = Tuples
  BY <1>2 DEF Written, Wanted, Tuples, Tuple
<1>7. InsertWritesRow'
  BY <1>2, <1>5, <1>6 DEF InsertWritesRow
<1>8. InsertKeysExact'
  BY <1>1, <1>2 DEF InsertKeysExact, WriteInv, WriteStage, TuplesOK
<1>9. WriteResult'
  BY <1>2, <1>7, <1>8 DEF WriteResult, InsertExact, RowsAddressedByScan
<1>10. WriteStage'
  BY <1>1 DEF WriteStage, StagesOK, InsertStages, AllOK, KeysOK, TuplesOK, RowsOK, SetOK
<1> QED BY <1>1, <1>9, <1>10, GoOn DEF Stages

(***************************************************************************)
(* UPDATE and DELETE.                                                      *)
(***************************************************************************)
LEMMA FilterStep == WriteInv /\ Filter => WriteInv'
<1> SUFFICES ASSUME WriteInv, Filter PROVE WriteInv'
  OBVIOUS
<1>1. /\ pc = "scan" /\ pc' = "rows" /\ cursor' = 1 /\ UNCHANGED <<source, target, plan>>
  BY DEF Filter, Goto
<1>2. /\ statement' = statement /\ statement \in {"update", "delete"} /\ destinations' = <<>>
      /\ writeKeys' = <<>> /\ writeValues' = <<>>
  BY <1>1 DEF WriteInv, WriteStage, StagesOK, source, target, plan
<1>3. Len(keys') \in Nat
  BY <1>1, IndexKeys DEF WriteInv, source
<1>4. RowsOK'
  BY <1>1, <1>2, <1>3 DEF RowsOK
<1>5. WriteStage'
  BY <1>1, <1>2, <1>4 DEF WriteStage, StagesOK, InsertStages, AllOK, KeysOK, TuplesOK, SetOK
<1>6. WriteResult'
  BY <1>1 DEF WriteResult, InsertExact, InsertWritesRow, InsertKeysExact, RowsAddressedByScan
<1> QED BY <1>1, <1>5, <1>6, GoOn DEF Stages

LEMMA AddRowKeyStep == WriteInv /\ AddRowKey => WriteInv'
<1> SUFFICES ASSUME WriteInv, AddRowKey PROVE WriteInv'
  OBVIOUS
<1>1. /\ pc = "rows" /\ pc' = "rows" /\ cursor \in DOMAIN keys /\ cursor' = cursor + 1
      /\ statement' = statement /\ keys' = keys /\ destinations' = destinations
      /\ defaults' = defaults /\ writeKind' = writeKind /\ options' = options
      /\ keyPositions' = keyPositions /\ writeValues' = writeValues /\ form' = form
      /\ cursor \in Nat \ {0} /\ keys \in Seq(TableColumns) /\ cursor <= Len(keys)
      /\ statement \in {"update", "delete"} /\ writeValues = <<>> /\ destinations = <<>>
  BY IndexKeys DEF AddRowKey, Stay, Advance, WriteInv, WriteTypeOK, WriteStage, StagesOK,
                   source, target, plan
<1>2. PICK pair : pair = Pair(<<"scan", keys[cursor]>>, keys[cursor])
  OBVIOUS
<1>3. pair \in Pairs /\ keys[cursor] \in TableColumns
  BY <1>1, <1>2, PairIn
<1>4. writeKeys \in Seq(Pairs) /\ writeKeys' = Append(writeKeys, pair)
  BY <1>2 DEF AddRowKey, RowKey, WriteInv, WriteTypeOK
<1>5. /\ Len(writeKeys) = cursor - 1
      /\ \A i \in DOMAIN writeKeys : writeKeys[i] = Pair(<<"scan", keys[i]>>, keys[i])
  BY <1>1 DEF WriteInv, WriteStage, RowsOK
<1>6. PICK t : t = writeKeys'
  OBVIOUS
<1>7. /\ t \in Seq(Pairs) /\ Len(t) = cursor /\ DOMAIN t = 1..cursor
      /\ \A i \in DOMAIN t : t[i] = Pair(<<"scan", keys[i]>>, keys[i])
  <2>1. /\ t \in Seq(Pairs) /\ Len(t) = Len(writeKeys) + 1 /\ DOMAIN t = 1..(Len(writeKeys) + 1)
        /\ t[Len(writeKeys) + 1] = pair
        /\ \A i \in DOMAIN writeKeys : t[i] = writeKeys[i]
        /\ \A i \in DOMAIN t : i \in DOMAIN writeKeys \/ i = Len(writeKeys) + 1
    BY <1>3, <1>4, <1>6, Appended
  <2>2. Len(writeKeys) + 1 = cursor
    BY <1>1, <1>5
  <2> QED BY <1>2, <1>5, <2>1, <2>2
<1>8. DistinctTo(t)
  <2>1. \A i \in DOMAIN t : t[i].to = keys[i] /\ i \in DOMAIN keys
    <3> SUFFICES ASSUME NEW i \in DOMAIN t PROVE t[i].to = keys[i] /\ i \in DOMAIN keys
      OBVIOUS
    <3>1. i \in DOMAIN keys /\ keys[i] \in TableColumns
      BY <1>1, <1>7
    <3> QED BY <1>7, <3>1, PairIn
  <2> QED BY <2>1 DEF DistinctTo, WriteInv, ColumnsOK, Distinct
<1>9. WriteTypeOK'
  BY <1>1, <1>6, <1>7 DEF WriteInv, WriteTypeOK, Stages
<1>10. ColumnsOK' /\ PairsOK'
  BY <1>1, <1>6, <1>8 DEF WriteInv, ColumnsOK, PairsOK
<1>11. RowsOK'
  BY <1>1, <1>6, <1>7 DEF RowsOK
<1>12. WriteStage'
  <2>1. StagesOK'
    BY <1>1 DEF StagesOK, InsertStages
  <2> QED BY <1>1, <1>11, <2>1 DEF WriteStage, AllOK, KeysOK, TuplesOK, SetOK
<1>13. WriteResult'
  BY <1>1 DEF WriteResult, InsertExact, InsertWritesRow, InsertKeysExact, RowsAddressedByScan
<1> QED BY <1>9, <1>10, <1>12, <1>13 DEF WriteInv

LEMMA EndRowKeysStep == WriteInv /\ EndRowKeys => WriteInv'
<1> SUFFICES ASSUME WriteInv, EndRowKeys PROVE WriteInv'
  OBVIOUS
<1>1. /\ pc = "rows" /\ pc' \in {"set", "done"} /\ cursor' = 1 /\ cursor > Len(keys)
      /\ form' = "graph"
      /\ statement' = statement /\ keys' = keys /\ destinations' = destinations
      /\ defaults' = defaults /\ writeKind' = writeKind /\ options' = options
      /\ keyPositions' = keyPositions /\ writeKeys' = writeKeys /\ writeValues' = writeValues
      /\ statement \in {"update", "delete"} /\ writeValues = <<>> /\ destinations = <<>>
  BY DEF EndRowKeys, Goto, WriteInv, WriteStage, StagesOK, source, target
<1>2. cursor \in Nat /\ Len(keys) \in Nat /\ DOMAIN keys = 1..Len(keys)
  BY IndexKeys DEF WriteInv, WriteTypeOK
<1>3. /\ Len(writeKeys) = Len(keys) /\ DOMAIN writeKeys = DOMAIN keys
      /\ \A i \in DOMAIN writeKeys : writeKeys[i] = Pair(<<"scan", keys[i]>>, keys[i])
  <2>1. Len(writeKeys) = cursor - 1 /\ cursor <= Len(keys) + 1
    BY <1>1 DEF WriteInv, WriteStage, RowsOK
  <2>2. Len(writeKeys) = Len(keys)
    BY <1>1, <1>2, <2>1
  <2>3. DOMAIN writeKeys = 1..Len(writeKeys)
    BY DEF WriteInv, WriteTypeOK
  <2> QED BY <1>1, <1>2, <2>2, <2>3 DEF WriteInv, WriteStage, RowsOK
<1>4. WriteTypeOK'
  BY <1>1 DEF WriteInv, WriteTypeOK, Stages
<1>5. ColumnsOK' /\ PairsOK'
  BY <1>1 DEF WriteInv, ColumnsOK, PairsOK
<1>6. WriteStage'
  <2>1. StagesOK'
    BY <1>1 DEF StagesOK, InsertStages
  <2>2. RowsOK' /\ SetOK'
    BY <1>1, <1>3 DEF RowsOK, SetOK
  <2> QED BY <1>1, <2>1, <2>2 DEF WriteStage, AllOK, KeysOK, TuplesOK
<1>7. WriteResult'
  BY <1>1, <1>3 DEF WriteResult, InsertExact, InsertWritesRow, InsertKeysExact, RowsAddressedByScan
<1> QED BY <1>4, <1>5, <1>6, <1>7 DEF WriteInv

LEMMA SetColumnStep == WriteInv /\ SetColumn => WriteInv'
<1> SUFFICES ASSUME WriteInv, SetColumn PROVE WriteInv'
  OBVIOUS
<1>1. PICK name : /\ Updatable(name)
                  /\ destinations' = Append(destinations, name)
                  /\ writeValues' = Append(writeValues, Pair(<<"set", cursor>>, name))
  BY DEF SetColumn
<1>2. /\ pc = "set" /\ pc' = "set" /\ cursor' = cursor + 1
      /\ statement' = statement /\ keys' = keys
      /\ defaults' = defaults /\ writeKind' = writeKind /\ options' = options
      /\ keyPositions' = keyPositions /\ writeKeys' = writeKeys /\ form' = form
      /\ cursor \in Nat \ {0} /\ statement \in {"update", "delete"}
  BY DEF SetColumn, Stay, Advance, WriteInv, WriteTypeOK, WriteStage, StagesOK, source
<1>3. /\ name \in TableColumns /\ \A i \in DOMAIN destinations : destinations[i] # name
  BY <1>1 DEF Updatable, Occurs
<1>4. PICK pair : pair = Pair(<<"set", cursor>>, name)
  OBVIOUS
<1>5. pair \in Pairs /\ pair.to = name
  BY <1>2, <1>3, <1>4, PairIn
<1>6. PICK d, v : d = destinations' /\ v = writeValues'
  OBVIOUS
<1>7. destinations \in Seq(TableColumns) /\ writeValues \in Seq(Pairs)
  BY DEF WriteInv, WriteTypeOK
<1>8. /\ d \in Seq(TableColumns) /\ Len(d) = Len(destinations) + 1
      /\ d[Len(destinations) + 1] = name
      /\ \A i \in DOMAIN destinations : d[i] = destinations[i]
      /\ \A i \in DOMAIN d : i \in DOMAIN destinations \/ i = Len(destinations) + 1
  BY <1>1, <1>3, <1>6, <1>7, Appended
<1>9. /\ v \in Seq(Pairs) /\ Len(v) = Len(writeValues) + 1
      /\ v[Len(writeValues) + 1] = pair
      /\ \A i \in DOMAIN writeValues : v[i] = writeValues[i]
      /\ \A i \in DOMAIN v : i \in DOMAIN writeValues \/ i = Len(writeValues) + 1
  BY <1>1, <1>4, <1>5, <1>6, <1>7, Appended
<1>10. /\ Len(writeValues) = Len(destinations) /\ Len(destinations) \in Nat
       /\ DOMAIN writeValues = 1..Len(writeValues) /\ DOMAIN destinations = 1..Len(destinations)
       /\ \A i \in DOMAIN writeValues : writeValues[i].to = destinations[i]
  BY <1>2, <1>7 DEF WriteInv, WriteStage, SetOK
<1>11. Distinct(d)
  BY <1>3, <1>8 DEF WriteInv, ColumnsOK, Distinct
<1>12. /\ Len(v) = Len(d) /\ DOMAIN v = DOMAIN d
       /\ \A i \in DOMAIN v : v[i].to = d[i]
  <2>1. Len(v) = Len(d) /\ DOMAIN v = 1..Len(v) /\ DOMAIN d = 1..Len(d)
    BY <1>8, <1>9, <1>10
  <2> QED BY <1>5, <1>8, <1>9, <1>10, <2>1
<1>13. DistinctTo(v)
  BY <1>11, <1>12 DEF Distinct, DistinctTo
<1>14. WriteTypeOK'
  BY <1>2, <1>6, <1>8, <1>9 DEF WriteInv, WriteTypeOK, Stages
<1>15. ColumnsOK' /\ PairsOK'
  BY <1>2, <1>6, <1>11, <1>13 DEF WriteInv, ColumnsOK, PairsOK
<1>16. WriteStage'
  <2>1. StagesOK'
    BY <1>2 DEF StagesOK, InsertStages
  <2>2. RowsOK'
    BY <1>2 DEF WriteInv, WriteStage, RowsOK
  <2>3. SetOK'
    BY <1>6, <1>12 DEF SetOK
  <2> QED BY <1>2, <2>1, <2>2, <2>3 DEF WriteStage, AllOK, KeysOK, TuplesOK
<1>17. WriteResult'
  BY <1>2 DEF WriteResult, InsertExact, InsertWritesRow, InsertKeysExact, RowsAddressedByScan
<1> QED BY <1>14, <1>15, <1>16, <1>17 DEF WriteInv

LEMMA EndSetStep == WriteInv /\ EndSet => WriteInv'
<1> SUFFICES ASSUME WriteInv, EndSet PROVE WriteInv'
  OBVIOUS
<1>1. /\ pc = "set" /\ pc' = "done" /\ cursor' = 1 /\ UNCHANGED <<source, target, plan>>
  BY DEF EndSet, Goto
<1>2. /\ statement' \in {"update", "delete"} /\ keys' = keys /\ writeKeys' = writeKeys
  BY <1>1 DEF WriteInv, WriteStage, StagesOK, source, plan
<1>3. /\ Len(writeKeys) = Len(keys)
      /\ \A i \in DOMAIN writeKeys : writeKeys[i] = Pair(<<"scan", keys[i]>>, keys[i])
  BY <1>1 DEF WriteInv, WriteStage, RowsOK
<1>4. DOMAIN writeKeys = DOMAIN keys
  BY <1>3, IndexKeys DEF WriteInv, WriteTypeOK
<1>5. WriteStage'
  BY <1>1 DEF WriteStage, StagesOK, InsertStages, AllOK, KeysOK, TuplesOK, RowsOK, SetOK
<1>6. WriteResult'
  BY <1>2, <1>3, <1>4
     DEF WriteResult, InsertExact, InsertWritesRow, InsertKeysExact, RowsAddressedByScan
<1> QED BY <1>1, <1>5, <1>6, GoOn DEF Stages

(***************************************************************************)
(* The invariant holds in every state of the analysis.                     *)
(***************************************************************************)
LEMMA WriteInitially == WriteInit => WriteInv
<1> SUFFICES ASSUME WriteInit PROVE WriteInv
  OBVIOUS
<1>1. /\ pc = "start" /\ cursor = 1 /\ statement = "none" /\ keys = <<>>
      /\ destinations = <<>> /\ keyPositions = <<>> /\ writeKeys = <<>> /\ writeValues = <<>>
  BY DEF WriteInit
<1>2. WriteTypeOK
  <2>1. options = 0 /\ 0 \in 0..MaxOptions
    BY BoundsAssumption DEF WriteInit
  <2>2. /\ destinations \in Seq(TableColumns) /\ keyPositions \in Seq(Nat \ {0})
        /\ writeKeys \in Seq(Pairs) /\ writeValues \in Seq(Pairs)
    BY <1>1
  <2>3. keys \in PrimaryKeys \cup {<<>>} /\ defaults \in BOOLEAN
    BY <1>1 DEF WriteInit
  <2>4. /\ statement \in {"none", "insert", "update", "delete"}
        /\ writeKind \in {"insert", "insert_skip", "insert_overwrite"}
        /\ form \in {"none", "graph", "write"} /\ pc \in Stages /\ cursor \in Nat
    BY <1>1 DEF WriteInit, Stages
  <2> QED BY <2>1, <2>2, <2>3, <2>4 DEF WriteTypeOK
<1>3. ColumnsOK /\ PairsOK
  BY <1>1 DEF ColumnsOK, PairsOK, Distinct, DistinctTo
<1>4. WriteStage
  BY <1>1 DEF WriteStage, StagesOK, InsertStages, AllOK, KeysOK, TuplesOK, RowsOK, SetOK
<1>5. WriteResult
  BY <1>1 DEF WriteResult, InsertExact, InsertWritesRow, InsertKeysExact, RowsAddressedByScan
<1> QED BY <1>2, <1>3, <1>4, <1>5 DEF WriteInv

LEMMA WriteInductive == WriteInv /\ [WriteNext]_writeVars => WriteInv'
<1>1. WriteInv /\ InsertNext => WriteInv'
  <2>1. WriteInv /\ (RejectTarget \/ RejectInsertColumn \/ RejectQuery) => WriteInv'
    BY WriteFailStep DEF RejectTarget, RejectInsertColumn, RejectQuery
  <2> QED BY <2>1, BeginStep, WriteQuietSteps, TakeExportedStep, InsertColumnStep, SourceSteps,
             FormSteps, KeyLoopSteps, EndKeysStep, TupleLoopSteps, EndTuplesStep
          DEF InsertNext
<1>2. WriteInv /\ RowNext => WriteInv'
  <2>1. WriteInv /\ (RejectPredicate \/ RejectSetColumn) => WriteInv'
    BY WriteFailStep DEF RejectPredicate, RejectSetColumn
  <2> QED BY <2>1, BeginStep, FilterStep, AddRowKeyStep, EndRowKeysStep, SetColumnStep, EndSetStep
          DEF RowNext
<1> QED BY <1>1, <1>2, WriteUnchanged DEF WriteNext

LEMMA WriteInvariance == WriteSpec => []WriteInv
  BY WriteInitially, WriteInductive, PTL DEF WriteSpec

(***************************************************************************)
(* However the columns are listed and the index is made, the tuples of an  *)
(* INSERT are all written, each to its own column, keys apart from values. *)
(***************************************************************************)
THEOREM Inserts == WriteSpec => []InsertExact
<1>1. WriteInv => InsertExact
  BY DEF WriteInv, WriteResult
<1> QED BY <1>1, WriteInvariance, PTL

(***************************************************************************)
(* No statement writes a column twice, and no INSERT a hidden one.         *)
(***************************************************************************)
THEOREM ColumnsWrittenOnce == WriteSpec => []WrittenOnce
<1>1. WriteInv => WrittenOnce
  BY DEF WriteInv, PairsOK, WrittenOnce, DistinctTo
<1> QED BY <1>1, WriteInvariance, PTL

(***************************************************************************)
(* UPDATE and DELETE address their rows by what the scan read, for all the *)
(* keys of the index in its order, whatever UPDATE sets.                   *)
(***************************************************************************)
THEOREM RowsAddressed == WriteSpec => []RowsAddressedByScan
<1>1. WriteInv => RowsAddressedByScan
  BY DEF WriteInv, WriteResult
<1> QED BY <1>1, WriteInvariance, PTL

-----------------------------------------------------------------------------
(* Numbers and types, which CREATE TABLE reads.                            *)

(* A non-empty set of natural numbers has a least element.                 *)
LEMMA LeastNatural ==
    ASSUME NEW T \in SUBSET Nat, T # {}
    PROVE  \E m \in T : \A n \in T : m <= n
<1> DEFINE R == {ss \in Nat \X Nat : ss[1] < ss[2]}
<1>1. IsWellFoundedOn(R, Nat)
  BY NatLessThanWellFounded DEF OpToRel
<1>2. PICK m \in T : \A n \in T : ~(<<n, m>> \in R)
  <2> HIDE DEF R
  <2> QED BY <1>1, WFMin
<1>3. ASSUME NEW n \in T PROVE m <= n
  <2>1. <<n, m>> \in Nat \X Nat /\ <<n, m>>[1] = n /\ <<n, m>>[2] = m
    OBVIOUS
  <2>2. ~(n < m)
    BY <1>2, <2>1
  <2> QED BY <2>2
<1> QED BY <1>3

(***************************************************************************)
(* The powers are defined by recursion: there is a function that keeps the *)
(* equation, so the one that is chosen does.  A finite part of it is found *)
(* step by step, and two parts agree where both are defined.               *)
(***************************************************************************)
IsPart(g, b, m) ==
    /\ g \in [0..m -> Nat]
    /\ \A i \in 0..m : g[i] = IF i = 0 THEN 1 ELSE b * g[i - 1]

LEMMA PartsAgree ==
    ASSUME NEW b \in Nat, NEW m \in Nat, NEW n \in Nat, NEW g, NEW h,
           IsPart(g, b, m), IsPart(h, b, n), NEW i \in Nat, i <= m, i <= n
    PROVE  g[i] = h[i]
<1> DEFINE Apart == {k \in Nat : k <= m /\ k <= n /\ g[k] # h[k]}
<1> SUFFICES Apart = {}
  OBVIOUS
<1> SUFFICES ASSUME Apart # {} PROVE FALSE
  OBVIOUS
<1>1. PICK k \in Apart : \A l \in Apart : k <= l
  BY LeastNatural
<1>2. k \in Nat /\ k <= m /\ k <= n /\ g[k] # h[k]
  OBVIOUS
<1>3. k # 0
  BY <1>2 DEF IsPart
<1>4. k - 1 \in Nat /\ k - 1 \notin Apart /\ k - 1 <= m /\ k - 1 <= n
  BY <1>1, <1>2, <1>3
<1>5. g[k - 1] = h[k - 1]
  BY <1>4
<1> QED BY <1>2, <1>3, <1>5 DEF IsPart

LEMMA PartExists ==
    ASSUME NEW b \in Nat, NEW n \in Nat
    PROVE  \E g : IsPart(g, b, n)
<1> DEFINE Missing == {m \in Nat : ~\E g : IsPart(g, b, m)}
<1> SUFFICES ASSUME Missing # {} PROVE FALSE
  OBVIOUS
<1>1. PICK m \in Missing : \A l \in Missing : m <= l
  BY LeastNatural
<1>2. m \in Nat /\ ~\E g : IsPart(g, b, m)
  OBVIOUS
<1>3. CASE m = 0
  <2> DEFINE g == [i \in 0..m |-> 1]
  <2>1. IsPart(g, b, m)
    BY <1>3 DEF IsPart
  <2> QED BY <1>2, <2>1
<1>4. CASE m # 0
  <2>1. m - 1 \in Nat /\ m - 1 \notin Missing
    BY <1>1, <1>2, <1>4
  <2>2. PICK g : IsPart(g, b, m - 1)
    BY <2>1
  <2> HIDE DEF Missing
  <2> DEFINE h == [i \in 0..m |-> IF i = m THEN b * g[m - 1] ELSE g[i]]
  <2>3. g \in [0..(m - 1) -> Nat] /\ b * g[m - 1] \in Nat
    BY <2>1, <2>2 DEF IsPart
  <2>4. h \in [0..m -> Nat] /\ h[m] = b * g[m - 1] /\ \A i \in 0..(m - 1) : h[i] = g[i]
    BY <1>2, <2>1, <2>3
  <2> HIDE DEF h
  <2>5. ASSUME NEW i \in 0..m PROVE h[i] = IF i = 0 THEN 1 ELSE b * h[i - 1]
    <3>1. CASE i = m
      <4>1. h[i - 1] = g[m - 1]
        BY <1>2, <2>1, <2>4, <3>1
      <4> QED BY <1>4, <2>4, <3>1, <4>1
    <3>2. CASE i # m
      <4>1. i \in 0..(m - 1) /\ (i # 0 => i - 1 \in 0..(m - 1))
        BY <1>2, <3>2
      <4>2. h[i] = g[i] /\ (i # 0 => h[i - 1] = g[i - 1])
        BY <2>4, <4>1
      <4> QED BY <2>2, <4>1, <4>2 DEF IsPart
    <3> QED BY <3>1, <3>2
  <2>6. IsPart(h, b, m)
    BY <2>4, <2>5 DEF IsPart
  <2> QED BY <1>2, <2>6
<1> QED BY <1>3, <1>4

LEMMA PowersExist ==
    ASSUME NEW b \in Nat
    PROVE  \E f \in [Nat -> Nat] : f = [n \in Nat |-> IF n = 0 THEN 1 ELSE b * f[n - 1]]
<1> DEFINE part(n) == CHOOSE g : IsPart(g, b, n)
           f == [n \in Nat |-> part(n)[n]]
<1>1. ASSUME NEW n \in Nat PROVE IsPart(part(n), b, n)
  BY PartExists
<1> HIDE DEF part
<1>2. ASSUME NEW n \in Nat
      PROVE  f[n] \in Nat /\ f[n] = IF n = 0 THEN 1 ELSE b * f[n - 1]
  <2>1. f[n] \in Nat
    BY <1>1 DEF IsPart
  <2>2. CASE n = 0
    BY <1>1, <2>2 DEF IsPart
  <2>3. CASE n # 0
    <3>1. n - 1 \in Nat /\ n - 1 <= n /\ n - 1 <= n - 1
      BY <2>3
    <3>2. part(n)[n - 1] = part(n - 1)[n - 1]
      BY <1>1, <3>1, PartsAgree
    <3>3. part(n)[n] = b * part(n)[n - 1]
      BY <1>1, <2>3 DEF IsPart
    <3> QED BY <2>1, <2>3, <3>1, <3>2, <3>3
  <2> QED BY <2>1, <2>2, <2>3
<1>3. f \in [Nat -> Nat] /\ f = [n \in Nat |-> IF n = 0 THEN 1 ELSE b * f[n - 1]]
  <2>1. f \in [Nat -> Nat]
    BY <1>2
  <2>2. \A n \in Nat : f[n] = [k \in Nat |-> IF k = 0 THEN 1 ELSE b * f[k - 1]][n]
    BY <1>2
  <2>3. f = [n \in Nat |-> f[n]]
    OBVIOUS
  <2> HIDE DEF f
  <2> QED BY <2>1, <2>2, <2>3
<1> HIDE DEF f
<1> QED BY <1>3

LEMMA PowersAreNatural ==
    ASSUME NEW b \in Nat, NEW f, f = [n \in Nat |-> IF n = 0 THEN 1 ELSE b * f[n - 1]]
    PROVE  /\ f \in [Nat -> Nat]
           /\ f[0] = 1 /\ \A n \in Nat : f[n + 1] = b * f[n]
<1>1. \A n \in Nat : f[n] = IF n = 0 THEN 1 ELSE b * f[n - 1]
  OBVIOUS
<1>2. \A n \in Nat : f[n] \in Nat
  <2> DEFINE Odd == {n \in Nat : f[n] \notin Nat}
  <2> SUFFICES ASSUME Odd # {} PROVE FALSE
    OBVIOUS
  <2>1. PICK n \in Odd : \A k \in Odd : n <= k
    BY LeastNatural
  <2>2. n \in Nat /\ f[n] \notin Nat /\ n # 0
    BY <1>1
  <2>3. n - 1 \in Nat /\ n - 1 \notin Odd
    BY <2>1, <2>2
  <2>4. f[n - 1] \in Nat
    BY <2>3
  <2> QED BY <1>1, <2>2, <2>4
<1>3. f \in [Nat -> Nat]
  BY <1>2
<1>4. ASSUME NEW n \in Nat PROVE f[n + 1] = b * f[n]
  <2>1. n + 1 \in Nat /\ n + 1 # 0 /\ (n + 1) - 1 = n
    OBVIOUS
  <2> QED BY <1>1, <2>1
<1> QED BY <1>1, <1>3, <1>4

LEMMA PowersOfTwo ==
    TwoTo \in [Nat -> Nat] /\ TwoTo[0] = 1 /\ \A n \in Nat : TwoTo[n + 1] = 2 * TwoTo[n]
<1> DEFINE P(f) == f = [n \in Nat |-> IF n = 0 THEN 1 ELSE 2 * f[n - 1]]
<1>1. \E f : P(f)
  BY PowersExist
<1>2. TwoTo = CHOOSE f : P(f)
  BY DEF TwoTo
<1> HIDE DEF P
<1>3. P(TwoTo)
  BY <1>1, <1>2
<1> QED BY <1>3, PowersAreNatural DEF P

LEMMA PowersOfTen ==
    TenTo \in [Nat -> Nat] /\ TenTo[0] = 1 /\ \A n \in Nat : TenTo[n + 1] = 10 * TenTo[n]
<1> DEFINE P(f) == f = [n \in Nat |-> IF n = 0 THEN 1 ELSE 10 * f[n - 1]]
<1>1. \E f : P(f)
  BY PowersExist
<1>2. TenTo = CHOOSE f : P(f)
  BY DEF TenTo
<1> HIDE DEF P
<1>3. P(TenTo)
  BY <1>1, <1>2
<1> QED BY <1>3, PowersAreNatural DEF P

(* Powers grow with their exponents, and a number is below its power of    *)
(* ten.                                                                    *)
LEMMA PowersGrow ==
    ASSUME NEW f \in [Nat -> Nat], f[0] > 0, \A n \in Nat : f[n + 1] >= f[n],
           NEW m \in Nat, NEW n \in Nat, m <= n
    PROVE  0 < f[m] /\ f[m] <= f[n]
<1>1. ASSUME NEW k \in Nat PROVE f[k] \in Nat /\ f[k + 1] >= f[k]
  OBVIOUS
<1>2. \A k \in Nat : f[k] > 0
  <2> DEFINE Vanishing == {k \in Nat : ~(f[k] > 0)}
  <2> SUFFICES ASSUME Vanishing # {} PROVE FALSE
    OBVIOUS
  <2>1. PICK k \in Vanishing : \A l \in Vanishing : k <= l
    BY LeastNatural
  <2>2. k \in Nat /\ ~(f[k] > 0) /\ k # 0
    OBVIOUS
  <2>3. k - 1 \in Nat /\ (k - 1) + 1 = k /\ k - 1 \notin Vanishing
    BY <2>1, <2>2
  <2>4. f[k - 1] > 0 /\ f[k] >= f[k - 1] /\ f[k] \in Nat /\ f[k - 1] \in Nat
    BY <1>1, <2>2, <2>3
  <2> QED BY <2>2, <2>4
<1>3. f[m] <= f[n]
  <2> DEFINE Smaller == {k \in Nat : m <= k /\ ~(f[m] <= f[k])}
  <2> SUFFICES ASSUME Smaller # {} PROVE FALSE
    OBVIOUS
  <2>1. PICK k \in Smaller : \A l \in Smaller : k <= l
    BY LeastNatural
  <2>2. k \in Nat /\ m <= k /\ ~(f[m] <= f[k]) /\ f[m] \in Nat
    OBVIOUS
  <2>3. k # m
    BY <2>2
  <2>4. k - 1 \in Nat /\ (k - 1) + 1 = k /\ m <= k - 1 /\ k - 1 \notin Smaller
    BY <2>1, <2>2, <2>3
  <2>5. f[m] <= f[k - 1] /\ f[k] >= f[k - 1] /\ f[k] \in Nat /\ f[k - 1] \in Nat
    BY <1>1, <2>4
  <2> QED BY <2>2, <2>5
<1> QED BY <1>2, <1>3

LEMMA PowersOfTwoGrow ==
    ASSUME NEW m \in Nat, NEW n \in Nat, m <= n
    PROVE  0 < TwoTo[m] /\ TwoTo[m] <= TwoTo[n]
<1>1. TwoTo \in [Nat -> Nat] /\ TwoTo[0] > 0
  BY PowersOfTwo
<1>2. ASSUME NEW k \in Nat PROVE TwoTo[k + 1] >= TwoTo[k]
  <2>1. TwoTo[k + 1] = 2 * TwoTo[k] /\ TwoTo[k] \in Nat
    BY PowersOfTwo
  <2> QED BY <2>1
<1> QED BY <1>1, <1>2, PowersGrow

LEMMA PowersOfTenGrow ==
    ASSUME NEW m \in Nat, NEW n \in Nat, m <= n
    PROVE  0 < TenTo[m] /\ TenTo[m] <= TenTo[n]
<1>1. TenTo \in [Nat -> Nat] /\ TenTo[0] > 0
  BY PowersOfTen
<1>2. ASSUME NEW k \in Nat PROVE TenTo[k + 1] >= TenTo[k]
  <2>1. TenTo[k + 1] = 10 * TenTo[k] /\ TenTo[k] \in Nat
    BY PowersOfTen
  <2> QED BY <2>1
<1> QED BY <1>1, <1>2, PowersGrow

LEMMA BelowItsPower ==
    ASSUME NEW n \in Nat
    PROVE  n < TenTo[n]
<1> DEFINE Above == {k \in Nat : ~(k < TenTo[k])}
<1> SUFFICES ASSUME Above # {} PROVE FALSE
  OBVIOUS
<1>1. PICK k \in Above : \A l \in Above : k <= l
  BY LeastNatural
<1>2. k \in Nat /\ ~(k < TenTo[k])
  OBVIOUS
<1>3. k # 0
  BY <1>2, PowersOfTen
<1>4. k - 1 \in Nat /\ (k - 1) + 1 = k /\ k - 1 \notin Above
  BY <1>1, <1>2, <1>3
<1>5. k - 1 < TenTo[k - 1] /\ TenTo[k] = 10 * TenTo[k - 1] /\ TenTo[k - 1] \in Nat
  BY <1>4, PowersOfTen
<1> QED BY <1>2, <1>4, <1>5

(***************************************************************************)
(* The width of a literal: half of the numbers of 64 bits are negative, and*)
(* the lowest of them is its own negation.                                 *)
(***************************************************************************)
Half == TwoTo[Bits["int8"] - 1]

LEMMA HalfOfAll ==
    /\ Half \in Nat /\ Half > 0 /\ TwoTo[Bits["int8"]] = 2 * Half
    /\ RangeOf("int8") = (-Half)..(Half - 1)
<1>1. Bits["int8"] - 1 \in Nat /\ (Bits["int8"] - 1) + 1 = Bits["int8"]
  BY BitsAssumption DEF IntegerTypes
<1>2. Half \in Nat /\ TwoTo[Bits["int8"]] = 2 * Half
  BY <1>1, PowersOfTwo DEF Half
<1>3. Half > 0
  BY <1>1, PowersOfTwoGrow DEF Half
<1> QED BY <1>2, <1>3 DEF RangeOf, Lowest, Highest, Half

LEMMA Wrapped ==
    /\ \A n \in (-Half)..(Half - 1) : Wrap(n) = n
    /\ Wrap(Half) = -Half
<1>1. \A n \in Int : Wrap(n) = ((n + Half) % (2 * Half)) - Half
  BY HalfOfAll DEF Wrap, Half
<1>2. Half \in Nat /\ Half > 0
  BY HalfOfAll
<1>3. ASSUME NEW n \in (-Half)..(Half - 1) PROVE Wrap(n) = n
  <2> DEFINE k == n + Half
             m == 2 * Half
  <2>1. k \in Nat /\ m \in Nat /\ m > 0 /\ k < m /\ n \in Int
    BY <1>2
  <2>2. \A x, y \in Nat : y > 0 /\ x < y => x % y = x
    OBVIOUS
  <2>3. k % m = k
    BY <2>1, <2>2
  <2> QED BY <1>1, <1>2, <2>1, <2>3
<1>4. Wrap(Half) = -Half
  <2> DEFINE m == 2 * Half
  <2>1. m \in Nat /\ m > 0 /\ Half + Half = m
    BY <1>2
  <2>2. \A y \in Nat : y > 0 => y % y = 0
    OBVIOUS
  <2>3. m % m = 0
    BY <2>1, <2>2
  <2> HIDE DEF m
  <2>4. Wrap(Half) = (m % m) - Half
    BY <1>1, <1>2, <2>1 DEF m
  <2> QED BY <1>2, <2>3, <2>4
<1> QED BY <1>3, <1>4

Literal == [operators : Int, sign : {"none", "plus", "minus"}, coefficient : Nat, scale : Nat]
NumberOf(literal) == IF literal.sign = "minus" THEN 0 - literal.coefficient ELSE literal.coefficient

LEMMA FoldedLiteral ==
    ASSUME NEW written \in Numeral
    PROVE  Fold(written) \in Literal
<1>1. /\ written.signs \in Seq({"plus", "minus"})
      /\ written.coefficient \in Nat /\ written.scale \in Nat
  BY DEF Numeral
<1>2. Len(written.signs) \in Nat
  BY <1>1
<1>3. FoldedSign(written.signs) \in {"none", "plus", "minus"}
  BY <1>1 DEF FoldedSign
<1> QED BY <1>1, <1>2, <1>3 DEF Fold, Literal

LEMMA NumberKept ==
    ASSUME NEW literal \in Literal
    PROVE  /\ WithinInteger(literal) <=> NumberOf(literal) \in RangeOf("int8")
           /\ WithinInteger(literal) => IntegerOf(literal) = NumberOf(literal)
<1> DEFINE c == literal.coefficient
           minus == literal.sign = "minus"
<1>1. c \in Nat
  BY DEF Literal
<1>2. Half \in Nat /\ Half > 0
  BY HalfOfAll
<1>3. WithinInteger(literal) <=> c <= Half - 1 \/ (minus /\ c <= Half)
  BY <1>1, <1>2 DEF WithinInteger, Highest, Lowest, Half
<1>4. NumberOf(literal) = IF minus THEN 0 - c ELSE c
  BY DEF NumberOf
<1>5. IntegerOf(literal) = IF minus THEN Wrap(-Wrap(c)) ELSE Wrap(c)
  BY DEF IntegerOf
<1> HIDE DEF c, minus
<1>6. WithinInteger(literal) <=> NumberOf(literal) \in RangeOf("int8")
  BY <1>1, <1>2, <1>3, <1>4, HalfOfAll
<1>7. CASE c <= Half - 1
  <2>1. c \in (-Half)..(Half - 1) /\ -c \in (-Half)..(Half - 1) /\ 0 - c = -c
    BY <1>1, <1>2, <1>7
  <2>2. Wrap(c) = c /\ Wrap(-c) = -c
    BY <2>1, Wrapped
  <2> QED BY <1>4, <1>5, <1>6, <2>1, <2>2
<1>8. CASE minus /\ c = Half
  <2>1. Wrap(c) = -Half /\ -(-Half) = Half
    BY <1>2, <1>8, Wrapped
  <2>2. Wrap(-Wrap(c)) = -Half /\ 0 - c = -Half
    BY <1>2, <1>8, <2>1, Wrapped
  <2> QED BY <1>4, <1>5, <1>6, <1>8, <2>2
<1>9. WithinInteger(literal) => c <= Half - 1 \/ (minus /\ c = Half)
  BY <1>1, <1>2, <1>3
<1> QED BY <1>6, <1>7, <1>8, <1>9

LEMMA SmallestHolds ==
    ASSUME NEW n \in RangeOf("int8")
    PROVE  SmallestInteger(n) \in IntegerTypes /\ n \in RangeOf(SmallestInteger(n))
<1> DEFINE Holding == {type \in SmallIntegers : n \in RangeOf(type)}
           Best(type) == /\ n \in RangeOf(type)
                         /\ \A other \in SmallIntegers :
                               n \in RangeOf(other) => Bits[type] <= Bits[other]
<1>1. CASE PreferSmallIntegers /\ \E type \in SmallIntegers : n \in RangeOf(type)
  <2>1. /\ Bits["int1"] \in Nat /\ Bits["int2"] \in Nat /\ Bits["int4"] \in Nat
        /\ Bits["int1"] < Bits["int2"] /\ Bits["int2"] < Bits["int4"]
    BY BitsAssumption DEF IntegerTypes
  <2>2. \E type \in SmallIntegers : Best(type)
    <3>1. CASE n \in RangeOf("int1")
      BY <2>1, <3>1 DEF SmallIntegers
    <3>2. CASE n \notin RangeOf("int1") /\ n \in RangeOf("int2")
      BY <2>1, <3>2 DEF SmallIntegers
    <3>3. CASE n \notin RangeOf("int1") /\ n \notin RangeOf("int2") /\ n \in RangeOf("int4")
      BY <2>1, <3>3 DEF SmallIntegers
    <3> QED BY <1>1, <3>1, <3>2, <3>3 DEF SmallIntegers
  <2>3. SmallestInteger(n) = CHOOSE type \in SmallIntegers : Best(type)
    BY <1>1 DEF SmallestInteger
  <2> HIDE DEF Best
  <2>4. SmallestInteger(n) \in SmallIntegers /\ Best(SmallestInteger(n))
    BY <2>2, <2>3
  <2> QED BY <2>4 DEF Best, SmallIntegers, IntegerTypes
<1>2. CASE ~(PreferSmallIntegers /\ \E type \in SmallIntegers : n \in RangeOf(type))
  BY <1>2 DEF SmallestInteger, IntegerTypes
<1> QED BY <1>1, <1>2

(* The digits of a number are as many as it takes.                         *)
LEMMA DigitsHold ==
    ASSUME NEW n \in Nat
    PROVE  Digits(n) \in Nat \ {0} /\ n < TenTo[Digits(n)]
<1> DEFINE Enough(d) == n < TenTo[d] /\ \A e \in 1..(d - 1) : n >= TenTo[e]
           Longer == {d \in Nat : d >= 1 /\ n < TenTo[d]}
<1>1. n + 1 \in Longer
  <2>1. n + 1 \in Nat /\ n + 1 >= 1 /\ n < n + 1
    OBVIOUS
  <2>2. n + 1 < TenTo[n + 1] /\ TenTo[n + 1] \in Nat
    BY <2>1, BelowItsPower, PowersOfTen
  <2>3. n < TenTo[n + 1]
    BY <2>1, <2>2
  <2> QED BY <2>1, <2>3
<1>2. PICK d \in Longer : \A e \in Longer : d <= e
  <2>1. Longer \in SUBSET Nat /\ Longer # {}
    BY <1>1
  <2> HIDE DEF Longer
  <2> QED BY <2>1, LeastNatural
<1>3. d \in 1..(n + 1) /\ n < TenTo[d]
  BY <1>1, <1>2
<1>4. ASSUME NEW e \in 1..(d - 1) PROVE n >= TenTo[e]
  <2>1. e \in Nat /\ e >= 1 /\ e < d /\ e \notin Longer
    BY <1>2, <1>3
  <2>2. ~(n < TenTo[e]) /\ TenTo[e] \in Nat
    BY <2>1, PowersOfTen
  <2> QED BY <2>2
<1>5. \E k \in 1..(n + 1) : Enough(k)
  BY <1>3, <1>4
<1>6. Digits(n) = CHOOSE k \in 1..(n + 1) : Enough(k)
  BY DEF Digits
<1> HIDE DEF Enough, Longer
<1>7. Digits(n) \in 1..(n + 1) /\ Enough(Digits(n))
  BY <1>5, <1>6
<1> QED BY <1>7 DEF Enough

LEMMA DecimalHolds ==
    ASSUME NEW literal \in Literal, ~Inexact(literal), PreferSmallDecimals
    PROVE  LET precision == DecimalPrecision(literal)
           IN  /\ literal.coefficient < TenTo[precision]
               /\ literal.scale <= precision /\ precision <= MaxPrecision
<1> DEFINE d == Digits(literal.coefficient)
           s == literal.scale
           p == DecimalPrecision(literal)
<1>1. literal.coefficient \in Nat /\ s \in Nat
  BY DEF Literal
<1>2. d \in Nat /\ literal.coefficient < TenTo[d]
  BY <1>1, DigitsHold
<1>3. d <= MaxPrecision /\ s <= MaxPrecision
  BY <1>1, <1>2, LiteralOptionsAssumption DEF Inexact
<1>4. p = Max({d, s})
  BY DEF DecimalPrecision
<1> HIDE DEF d, s, p
<1>5. p \in {d, s} /\ d <= p /\ s <= p
  <2> DEFINE Top(x) == \A y \in {d, s} : x >= y
  <2>1. \E x \in {d, s} : Top(x)
    BY <1>1, <1>2
  <2>2. p = CHOOSE x \in {d, s} : Top(x)
    BY <1>4 DEF Max
  <2> HIDE DEF Top
  <2>3. p \in {d, s} /\ Top(p)
    BY <2>1, <2>2
  <2> QED BY <1>1, <1>2, <2>3 DEF Top
<1>6. p \in Nat /\ TenTo[d] \in Nat /\ TenTo[p] \in Nat
  BY <1>1, <1>2, <1>5, PowersOfTen
<1>7. TenTo[d] <= TenTo[p]
  BY <1>2, <1>5, <1>6, PowersOfTenGrow
<1>8. literal.coefficient < TenTo[p]
  BY <1>1, <1>2, <1>6, <1>7
<1> QED BY <1>1, <1>3, <1>5, <1>8 DEF s, p

(***************************************************************************)
(* A literal keeps its number, at both ends of each type.                  *)
(***************************************************************************)
LEMMA LiteralHolds ==
    ASSUME NEW written \in Numeral
    PROVE  KeepsNumber(Fold(written), ExactNumeric(Fold(written)))
<1> DEFINE literal == Fold(written)
           immediate == ExactNumeric(literal)
           number == NumberOf(literal)
<1>1. literal \in Literal
  BY FoldedLiteral
<1> HIDE DEF literal
<1>2. literal.coefficient \in Nat /\ literal.scale \in Nat
  BY <1>1 DEF Literal
<1>3. CASE Inexact(literal)
  BY <1>3 DEF ExactNumeric, KeepsNumber, literal
<1>4. CASE ~Inexact(literal) /\ literal.scale = 0 /\ WithinInteger(literal)
  <2>1. number \in RangeOf("int8") /\ IntegerOf(literal) = number
    BY <1>1, <1>4, NumberKept
  <2>2. SmallestInteger(number) \in IntegerTypes /\ number \in RangeOf(SmallestInteger(number))
    BY <2>1, SmallestHolds
  <2>3. immediate = [type |-> SmallestInteger(number), value |-> number, scale |-> 0]
    BY <1>4, <2>1 DEF ExactNumeric
  <2>4. /\ immediate.type = SmallestInteger(number) /\ immediate.type # "decimal"
        /\ immediate.value = number /\ immediate.scale = 0
    BY <2>2, <2>3 DEF IntegerTypes
  <2> HIDE DEF immediate
  <2>5. KeepsNumber(literal, immediate)
    BY <1>4, <2>1, <2>2, <2>4 DEF KeepsNumber, NumberOf
  <2> QED BY <2>5 DEF immediate, literal
<1>5. CASE ~Inexact(literal) /\ ~(literal.scale = 0 /\ WithinInteger(literal))
  <2>1. ~(literal.scale = 0 /\ number \in RangeOf("int8"))
    BY <1>1, <1>5, NumberKept
  <2>2. immediate = [type |-> "decimal", value |-> Signed(literal), scale |-> literal.scale,
                     precision |-> DecimalPrecision(literal)]
    BY <1>5 DEF ExactNumeric
  <2>3. /\ immediate.type = "decimal" /\ immediate.value = Signed(literal)
        /\ immediate.scale = literal.scale /\ immediate.precision = DecimalPrecision(literal)
    BY <2>2
  <2>4. Signed(literal) = number
    BY <1>2 DEF Signed, NumberOf
  <2>5. immediate.precision # Unlimited =>
            /\ literal.coefficient < TenTo[immediate.precision]
            /\ immediate.scale <= immediate.precision /\ immediate.precision <= MaxPrecision
    <3>1. CASE PreferSmallDecimals
      BY <1>1, <1>5, <2>3, <3>1, DecimalHolds
    <3>2. CASE ~PreferSmallDecimals
      BY <2>3, <3>2 DEF DecimalPrecision
    <3> QED BY <3>1, <3>2
  <2> HIDE DEF immediate
  <2>6. KeepsNumber(literal, immediate)
    BY <2>1, <2>3, <2>4, <2>5 DEF KeepsNumber, NumberOf
  <2> QED BY <2>6 DEF immediate, literal
<1> QED BY <1>3, <1>4, <1>5

(***************************************************************************)
(* A type is what was written.                                             *)
(***************************************************************************)
LEMMA SizedHolds ==
    ASSUME NEW syntax, syntax.varying \in BOOLEAN, syntax.length \in Sizes,
           NEW length, length = Parsed(syntax.length),
           NEW type, type = Sized(syntax, length), type # TypeError
    PROVE  /\ ~TooLarge(syntax.length)
           /\ type.length # 0 /\ (type.length = Unlimited => type.varying)
<1>1. MaxSize \in Nat
  BY SizesAssumption
<1>2. TooLarge(syntax.length) => length = 0
  BY DEF TooLarge, Parsed, ToSize
<1>3. length \in Sizes
  BY <1>1 DEF Parsed, ToSize, Sizes, Flexible
<1>4. CASE length = Flexible
  <2>1. syntax.varying
    BY <1>4 DEF Sized, Absent, Flexible
  <2>2. type = [kind |-> syntax.kind, varying |-> TRUE, length |-> Unlimited]
    BY <1>4, <2>1 DEF Sized, Absent, Flexible
  <2> QED BY <1>2, <1>4, <2>2 DEF Flexible, Unlimited
<1>5. CASE length = Absent
  <2>1. type = [kind |-> syntax.kind, varying |-> syntax.varying,
                length |-> IF syntax.varying THEN Unlimited ELSE 1]
    BY <1>5 DEF Sized, Absent, Flexible
  <2> QED BY <1>2, <1>5, <2>1 DEF Absent, Unlimited
<1>6. CASE length = 0
  BY <1>6 DEF Sized, Absent, Flexible
<1>7. CASE length \in Nat /\ length # 0
  <2>1. type = [kind |-> syntax.kind, varying |-> syntax.varying, length |-> length]
    BY <1>7 DEF Sized, Absent, Flexible
  <2> QED BY <1>2, <1>7, <2>1 DEF Unlimited
<1> QED BY <1>3, <1>4, <1>5, <1>6, <1>7 DEF Sizes

LEMMA DecimalTypeHolds ==
    ASSUME NEW syntax, syntax.precision \in Sizes, syntax.scale \in Sizes,
           NEW precision, precision = Requested(Parsed(syntax.precision), DefaultPrecision),
           NEW scale, scale = Requested(Parsed(syntax.scale), 0),
           NEW type, type = DecimalOf(precision, scale), type # TypeError
    PROVE  /\ ~TooLarge(syntax.precision)
           /\ type.precision # Unlimited => type.precision \in 1..MaxPrecision
           /\ type.scale # Unlimited =>
                 type.scale <= IF type.precision = Unlimited THEN MaxPrecision ELSE type.precision
<1>1. MaxSize \in Nat /\ MaxPrecision \in Nat
  BY SizesAssumption, LiteralOptionsAssumption
<1>2. scale \in Int
  BY <1>1 DEF Parsed, ToSize, Requested, Sizes, Absent, Flexible, Unlimited
<1>3. TooLarge(syntax.precision) => precision = 0
  BY DEF TooLarge, Parsed, ToSize, Requested, Absent, Flexible
<1>4. /\ precision # Unlimited => precision \in 1..MaxPrecision
      /\ scale # Unlimited => ~(scale > ScaleLimit(precision))
      /\ type = [kind |-> "decimal", precision |-> precision, scale |-> scale]
  BY DEF DecimalOf
<1>5. type.precision = precision /\ type.scale = scale
  BY <1>4
<1>6. ~TooLarge(syntax.precision)
  BY <1>3, <1>4 DEF Unlimited
<1>7. scale # Unlimited =>
          scale <= IF precision = Unlimited THEN MaxPrecision ELSE precision
  BY <1>1, <1>2, <1>4 DEF ScaleLimit
<1> QED BY <1>4, <1>5, <1>6, <1>7

LEMMA BinaryHolds ==
    ASSUME NEW syntax, syntax.precision \in Sizes,
           NEW precision, precision = Parsed(syntax.precision),
           NEW type, type = BinaryNumeric(precision, IntegerPrecision, "int8"), type # TypeError
    PROVE  /\ ~TooLarge(syntax.precision)
           /\ syntax.precision \notin {Absent, Flexible} /\ syntax.precision < MaxSize =>
                 TwoTo[syntax.precision] - 1 <= Highest(type.kind)
<1> DEFINE limits == IntegerPrecision
           enough == {t \in DOMAIN limits : precision # 0 /\ precision <= limits[t]}
           Best(t) == \A other \in enough : limits[t] <= limits[other]
<1>1. MaxSize \in Nat
  BY SizesAssumption
<1>2. /\ DOMAIN limits = IntegerTypes
      /\ \A t \in IntegerTypes : limits[t] \in Nat /\ limits[t] < Bits[t] /\ Bits[t] \in Nat
      /\ limits["int1"] <= limits["int2"] /\ limits["int2"] <= limits["int4"]
      /\ limits["int4"] <= limits["int8"]
  BY PrecisionAssumption, BitsAssumption
<1>3. TooLarge(syntax.precision) => precision = 0
  BY DEF TooLarge, Parsed, ToSize
<1>4. CASE precision \in {Absent, Flexible}
  <2>1. ~TooLarge(syntax.precision)
    BY <1>3, <1>4 DEF Absent, Flexible
  <2>2. syntax.precision \notin {Absent, Flexible} => ~(syntax.precision < MaxSize)
    BY <1>1, <1>4 DEF Parsed, ToSize, Sizes, Absent, Flexible
  <2> QED BY <2>1, <2>2
<1>5. CASE precision \notin {Absent, Flexible}
  <2>1. enough # {} /\ type = Type(CHOOSE t \in enough : Best(t))
    BY <1>5 DEF BinaryNumeric
  <2>2. precision # 0 /\ enough \subseteq IntegerTypes
    BY <1>2, <2>1
  <2>3. \E t \in enough : Best(t)
    <3>1. CASE "int1" \in enough
      BY <1>2, <2>2, <3>1 DEF IntegerTypes
    <3>2. CASE "int1" \notin enough /\ "int2" \in enough
      BY <1>2, <2>2, <3>2 DEF IntegerTypes
    <3>3. CASE "int1" \notin enough /\ "int2" \notin enough /\ "int4" \in enough
      BY <1>2, <2>2, <3>3 DEF IntegerTypes
    <3>4. CASE enough = {"int8"}
      BY <1>2, <3>4 DEF IntegerTypes
    <3> QED BY <2>1, <2>2, <3>1, <3>2, <3>3, <3>4 DEF IntegerTypes
  <2> DEFINE t == CHOOSE t \in enough : Best(t)
  <2> HIDE DEF Best
  <2>4. t \in enough
    BY <2>3
  <2>5. type.kind = t
    BY <2>1 DEF Type
  <2> HIDE DEF t
  <2>6. t \in IntegerTypes /\ precision <= limits[t]
    BY <2>2, <2>4
  <2>7. ASSUME syntax.precision \notin {Absent, Flexible}, syntax.precision < MaxSize
        PROVE  TwoTo[syntax.precision] - 1 <= Highest(type.kind)
    <3>1. syntax.precision \in Nat /\ precision = syntax.precision
      BY <1>1, <2>7 DEF Parsed, ToSize, Sizes
    <3>2. precision <= Bits[t] - 1 /\ Bits[t] - 1 \in Nat
      BY <1>2, <2>6, <3>1
    <3>3. /\ TwoTo[precision] <= TwoTo[Bits[t] - 1]
          /\ TwoTo[precision] \in Nat /\ TwoTo[Bits[t] - 1] \in Nat
      BY <3>1, <3>2, PowersOfTwo, PowersOfTwoGrow
    <3> QED BY <2>5, <3>1, <3>3 DEF Highest
  <2> QED BY <1>3, <2>2, <2>7
<1> QED BY <1>4, <1>5

LEMMA TypeHolds ==
    ASSUME NEW syntax, IsTypeSyntax(syntax)
    PROVE  HoldsRequest(syntax, ColumnType(syntax))
<1> DEFINE type == ColumnType(syntax)
<1> SUFFICES ASSUME type # TypeError PROVE HoldsRequest(syntax, type)
  BY DEF HoldsRequest
<1>1. CASE syntax.kind \in {"character", "bit", "octet"}
  <2>1. type = Sized(syntax, Parsed(syntax.length))
    BY <1>1 DEF ColumnType, SimpleTypes, DatetimeTypes
  <2>2. syntax.varying \in BOOLEAN /\ syntax.length \in Sizes
    BY <1>1 DEF IsTypeSyntax
  <2> HIDE DEF type
  <2> QED BY <1>1, <2>1, <2>2, SizedHolds DEF HoldsRequest
<1>2. CASE syntax.kind = "decimal"
  <2>1. type = DecimalOf(Requested(Parsed(syntax.precision), DefaultPrecision),
                         Requested(Parsed(syntax.scale), 0))
    BY <1>2 DEF ColumnType, SimpleTypes, DatetimeTypes
  <2>2. syntax.precision \in Sizes /\ syntax.scale \in Sizes
    BY <1>2 DEF IsTypeSyntax
  <2> HIDE DEF type
  <2> QED BY <1>2, <2>1, <2>2, DecimalTypeHolds DEF HoldsRequest
<1>3. CASE syntax.kind = "binary_integer"
  <2>1. type = BinaryNumeric(Parsed(syntax.precision), IntegerPrecision, "int8")
    BY <1>3 DEF ColumnType, SimpleTypes, DatetimeTypes
  <2>2. syntax.precision \in Sizes
    BY <1>3 DEF IsTypeSyntax
  <2> HIDE DEF type
  <2> QED BY <1>3, <2>1, <2>2, BinaryHolds DEF HoldsRequest
<1>4. CASE syntax.kind \notin {"character", "bit", "octet", "decimal", "binary_integer"}
  BY <1>4 DEF HoldsRequest
<1> QED BY <1>1, <1>2, <1>3, <1>4

-----------------------------------------------------------------------------
(* CREATE TABLE.                                                           *)

(***************************************************************************)
(* The inductive invariant.  The constraints that a column has had decide  *)
(* what is in it: the column of a primary key is the one that says so, its *)
(* NULL-ability follows from NOT NULL and the key, and it has a default    *)
(* exactly when one was written.  A key of the table takes effect when it  *)
(* is complete.                                                            *)
(***************************************************************************)
Counting == {"increment", "min", "max", "initial", "range", "sequence"}
DefinitionEarly == {"start", "elements", "type", "constraints", "default", "refused"} \cup Counting
DefinitionSettled == at \notin {"refused", "failed"}

DefinitionStagesKept ==
    /\ at = "type" => typing.name \in ColumnNames
    /\ at = "default" => Current.default = "none"
    /\ at \in {"constraints", "default"} \cup Counting => columns # <<>>
    /\ at \in DefinitionEarly => primary.declared # "table"
    /\ at = "key" => primary.declared = "table"
    /\ primary.declared = "no" => primary.keys = <<>>
    /\ primary.declared = "column" => Len(primary.keys) = 1
DistinctNames ==
    /\ \A i, k \in DOMAIN primary.keys : primary.keys[i] = primary.keys[k] => i = k
    /\ \A i, k \in DOMAIN columns : columns[i].name = columns[k].name => i = k
    /\ \A i \in DOMAIN primary.keys : primary.keys[i] \in NamesSoFar
PrimaryOK ==
    at # "refused" =>
        \A i \in DOMAIN columns :
            /\ ~Restricted(columns[i].constraints)
            /\ columns[i].constraints["primary_key"] > 0 <=>
                  primary.declared = "column" /\ IsKey(columns[i].name)
NullityOK ==
    DefinitionSettled =>
        \A i \in DOMAIN columns :
            columns[i].nullable <=>
                columns[i].constraints["not_null"] = 0 /\ ~(at # "key" /\ IsKey(columns[i].name))
DefaultOK ==
    DefinitionSettled /\ at # "done" =>
        \A i \in DOMAIN columns :
            IF at \in Counting /\ i = Len(columns)
            THEN /\ columns[i].default = "none"
                 /\ columns[i].constraints["identity"] = 1 /\ columns[i].constraints["default"] = 0
            ELSE /\ columns[i].default # "null"
                 /\ columns[i].default = "none" <=> ~Explicit(columns[i])
RefusedOK ==
    at = "refused" =>
        AnyRestricted /\ \A i \in DOMAIN columns : IsKey(columns[i].name) => ~columns[i].nullable

Sequence == [increment : Int, min : Int, max : Int, initial : Int, given : BOOLEAN]
StartsAtEnd ==
    sequence.initial = IF sequence.increment > 0 THEN sequence.min ELSE sequence.max
SequenceOK ==
    at \in Counting =>
        /\ Current.type \in {"int4", "int8"}
        /\ sequence \in Sequence
        /\ at # "increment" =>
              /\ sequence.increment # 0
              /\ {sequence.min, sequence.max, sequence.increment} \subseteq RangeOf(Current.type)
        /\ at \in {"increment", "min", "max", "initial"} => ~sequence.given
        /\ at \in {"range", "sequence"} => sequence.given \/ StartsAtEnd
        /\ at = "sequence" => InRange

DefinitionInv ==
    /\ DefinitionTypeOK /\ DefinitionStagesKept /\ DistinctNames
    /\ PrimaryOK /\ NullityOK /\ DefaultOK /\ RefusedOK /\ SequenceOK
    /\ ColumnsExact

(***************************************************************************)
(* Facts about the operators.                                              *)
(***************************************************************************)
LEMMA ColumnFields ==
    ASSUME NEW c \in Column
    PROVE  /\ c.name \in ColumnNames /\ c.type \in ColumnTypeKinds
           /\ c.nullable \in BOOLEAN /\ c.default \in ColumnDefaults
           /\ c.constraints \in [ConstraintKinds -> Nat]
           /\ \A sort \in ConstraintKinds : c.constraints[sort] \in Nat
           /\ c.constraints["primary_key"] \in Nat /\ c.constraints["null"] \in Nat
           /\ c.constraints["not_null"] \in Nat /\ c.constraints["default"] \in Nat
           /\ c.constraints["identity"] \in Nat
  BY DEF Column, ConstraintKinds

LEMMA LastColumn ==
    ASSUME DefinitionTypeOK, columns # <<>>
    PROVE  /\ Len(columns) \in DOMAIN columns /\ Current \in Column
           /\ DOMAIN columns = 1..Len(columns) /\ Len(columns) \in Nat
  BY DEF DefinitionTypeOK, Current

(* Only the last column is replaced.                                       *)
LEMMA Replacing ==
    ASSUME DefinitionTypeOK, columns # <<>>, NEW c \in Column, columns' = Replace(c)
    PROVE  /\ columns' \in Seq(Column) /\ columns' # <<>>
           /\ Len(columns') = Len(columns) /\ DOMAIN columns' = DOMAIN columns
           /\ columns'[Len(columns)] = c
           /\ \A i \in DOMAIN columns : i # Len(columns) => columns'[i] = columns[i]
  BY LastColumn DEF DefinitionTypeOK, Replace

LEMMA SameNames ==
    ASSUME DefinitionTypeOK, columns # <<>>, NEW c \in Column, columns' = Replace(c),
           c.name = Current.name
    PROVE  /\ NamesSoFar' = NamesSoFar
           /\ \A i \in DOMAIN columns : columns'[i].name = columns[i].name
<1>1. \A i \in DOMAIN columns : columns'[i].name = columns[i].name
  BY Replacing DEF Current
<1> QED BY <1>1, Replacing DEF NamesSoFar

(* One constraint more than the last column has had.                       *)
One(sort, k) == IF k = sort THEN 1 ELSE 0
More(c, sort) ==
    /\ c.constraints["primary_key"] = Current.constraints["primary_key"] + One(sort, "primary_key")
    /\ c.constraints["null"] = Current.constraints["null"] + One(sort, "null")
    /\ c.constraints["not_null"] = Current.constraints["not_null"] + One(sort, "not_null")
    /\ c.constraints["default"] = Current.constraints["default"] + One(sort, "default")
    /\ c.constraints["identity"] = Current.constraints["identity"] + One(sort, "identity")

(* With() counts one more constraint, and changes nothing else.            *)
LEMMA Counted ==
    ASSUME DefinitionTypeOK, columns # <<>>, NEW sort \in ConstraintKinds
    PROVE  /\ With(sort) \in Column
           /\ With(sort).name = Current.name /\ With(sort).type = Current.type
           /\ With(sort).nullable = Current.nullable /\ With(sort).default = Current.default
           /\ More(With(sort), sort)
<1>1. Current \in Column
  BY LastColumn
<1>2. /\ Current.constraints \in [ConstraintKinds -> Nat]
      /\ \A k \in ConstraintKinds : Current.constraints[k] \in Nat
  BY <1>1, ColumnFields
<1>3. With(sort) = [Current EXCEPT !.constraints = [Current.constraints EXCEPT ![sort] = @ + 1]]
  BY <1>1 DEF With, Column
<1>4. [Current.constraints EXCEPT ![sort] = @ + 1] \in [ConstraintKinds -> Nat]
  BY <1>2
<1> HIDE DEF Current
<1>5. With(sort) \in Column
  BY <1>1, <1>3, <1>4 DEF Column
<1>6. /\ With(sort).name = Current.name /\ With(sort).type = Current.type
      /\ With(sort).nullable = Current.nullable /\ With(sort).default = Current.default
      /\ With(sort).constraints = [Current.constraints EXCEPT ![sort] = @ + 1]
  BY <1>1, <1>3 DEF Column
<1>7. \A k \in ConstraintKinds :
        With(sort).constraints[k] = Current.constraints[k] + One(sort, k)
  BY <1>2, <1>6 DEF One
<1>8. More(With(sort), sort)
  BY <1>7 DEF More, ConstraintKinds
<1> QED BY <1>5, <1>6, <1>8

(* The numbers of a sequence fit in the type of the column.                *)
LEMMA NumbersInRange == \A n \in Numbers : n \in RangeOf(Current.type) /\ n \in Int
<1> SUFFICES ASSUME NEW n \in Numbers PROVE n \in RangeOf(Current.type) /\ n \in Int
  OBVIOUS
<1>1. PICK written \in SequenceNumbers : n \in SequenceValues(Fold(written), Current.type)
  BY DEF Numbers
<1>2. n \in RangeOf(Current.type)
  BY <1>1 DEF SequenceValues
<1> QED BY <1>2 DEF RangeOf

LEMMA IdentityRange ==
    ASSUME NEW type \in {"int4", "int8"}
    PROVE  {-1, 1, Lowest(type), Highest(type)} \subseteq RangeOf(type)
<1> DEFINE b == Bits[type]
<1>1. b \in Nat /\ b >= 3
  BY BitsAssumption DEF IntegerTypes
<1>2. TwoTo[1] = 2 /\ TwoTo[1] <= TwoTo[b - 1] /\ TwoTo[b - 1] \in Nat
  <2>1. b - 1 \in Nat /\ 1 \in Nat /\ 1 <= b - 1
    BY <1>1
  <2>2. TwoTo[0 + 1] = 2 * TwoTo[0] /\ TwoTo[0] = 1 /\ 0 + 1 = 1
    BY PowersOfTwo
  <2> HIDE DEF b
  <2>3. TwoTo[1] <= TwoTo[b - 1]
    BY <2>1, PowersOfTwoGrow, Zenon
  <2>4. TwoTo[b - 1] \in Nat
    BY <2>1, PowersOfTwo
  <2> QED BY <2>2, <2>3, <2>4
<1>3. Lowest(type) = -TwoTo[b - 1] /\ Highest(type) = TwoTo[b - 1] - 1
  BY DEF Lowest, Highest
<1> HIDE DEF b
<1> QED BY <1>2, <1>3 DEF RangeOf

(***************************************************************************)
(* The constraints of a column.                                            *)
(***************************************************************************)
LEMMA PrimaryKeyColumnStep == DefinitionInv /\ PrimaryKeyColumn => DefinitionInv'
<1> SUFFICES ASSUME DefinitionInv, PrimaryKeyColumn PROVE DefinitionInv'
  OBVIOUS
<1> DEFINE n == Len(columns)
           c == [With("primary_key") EXCEPT !.nullable = FALSE]
<1>1. /\ at = "constraints" /\ at' = at /\ columns # <<>> /\ DefinitionTypeOK
      /\ primary.declared = "no" /\ ~(SawNullity /\ Current.nullable)
      /\ columns' = Replace(c)
      /\ primary' = [declared |-> "column", keys |-> <<Current.name>>]
  BY DEF DefinitionInv, DefinitionStagesKept, PrimaryKeyColumn, Read, CanBePrimary
<1>2. n \in DOMAIN columns /\ Current = columns[n] /\ Current \in Column
  BY <1>1, LastColumn DEF Current
<1>3. /\ c \in Column /\ c.name = Current.name /\ c.default = Current.default /\ ~c.nullable
      /\ More(c, "primary_key")
  <2>1. With("primary_key") \in Column
    BY <1>1, Counted DEF ConstraintKinds
  <2>2. /\ c \in Column /\ c.name = With("primary_key").name /\ ~c.nullable
        /\ c.default = With("primary_key").default
        /\ c.constraints = With("primary_key").constraints
    BY <2>1 DEF Column
  <2> QED BY <1>1, <2>2, Counted DEF ConstraintKinds, More
<1> HIDE DEF c
<1>4. /\ columns' \in Seq(Column) /\ columns' # <<>> /\ Len(columns') = n
      /\ DOMAIN columns' = DOMAIN columns /\ columns'[n] = c
      /\ \A i \in DOMAIN columns : i # n => columns'[i] = columns[i]
  BY <1>1, <1>3, Replacing
<1>5. /\ NamesSoFar' = NamesSoFar
      /\ \A i \in DOMAIN columns : columns'[i].name = columns[i].name
  BY <1>1, <1>3, SameNames
<1>6. /\ \A name : IsKey(name)' <=> name = Current.name
      /\ \A name : ~IsKey(name)
  BY <1>1 DEF IsKey, DefinitionInv, DefinitionStagesKept
<1>7. \A i \in DOMAIN columns : columns[i].name = Current.name => i = n
  BY <1>2 DEF DefinitionInv, DistinctNames
<1>8. DefinitionTypeOK'
  BY <1>1, <1>2, <1>4, ColumnFields DEF DefinitionTypeOK
<1>9. DefinitionStagesKept' /\ RefusedOK' /\ SequenceOK' /\ ColumnsExact'
  BY <1>1, <1>4 DEF DefinitionStagesKept, DefinitionEarly, RefusedOK, SequenceOK, ColumnsExact,
                    Counting
<1>10. DistinctNames'
  <2>1. Current.name \in NamesSoFar
    BY <1>2 DEF NamesSoFar
  <2> QED BY <1>1, <1>4, <1>5, <2>1 DEF DefinitionInv, DistinctNames
<1>11. PrimaryOK' /\ NullityOK'
  <2>1. \A i \in DOMAIN columns :
          /\ ~Restricted(columns[i].constraints) /\ columns[i].constraints["primary_key"] = 0
          /\ columns[i].nullable <=> columns[i].constraints["not_null"] = 0
    <3> SUFFICES ASSUME NEW i \in DOMAIN columns
                 PROVE  /\ ~Restricted(columns[i].constraints)
                        /\ columns[i].constraints["primary_key"] = 0
                        /\ columns[i].nullable <=> columns[i].constraints["not_null"] = 0
      OBVIOUS
    <3>1. columns[i] \in Column
      BY <1>1 DEF DefinitionTypeOK
    <3>2. columns[i].constraints["primary_key"] \in Nat
      BY <3>1, ColumnFields DEF ConstraintKinds
    <3> QED BY <1>1, <1>6, <3>2 DEF DefinitionInv, PrimaryOK, NullityOK, DefinitionSettled
  <2>2. /\ ~Restricted(c.constraints) /\ c.constraints["primary_key"] = 1
        /\ c.constraints["not_null"] > 0 \/ c.constraints["not_null"] = 0
    <3>1. /\ Current.constraints["null"] \in Nat /\ Current.constraints["not_null"] \in Nat
          /\ Current.constraints["default"] \in Nat /\ Current.constraints["identity"] \in Nat
      BY <1>2, ColumnFields
    <3>2. /\ ~Restricted(Current.constraints) /\ Current.constraints["primary_key"] = 0
          /\ Current.nullable <=> Current.constraints["not_null"] = 0
      BY <1>2, <2>1
    <3>3. Current.constraints["null"] = 0
      <4>1. CASE Current.nullable
        <5>1. ~SawNullity
          BY <1>1, <4>1
        <5> QED BY <3>1, <5>1 DEF SawNullity
      <4>2. CASE ~Current.nullable
        <5>1. Current.constraints["not_null"] # 0
          BY <3>2, <4>2
        <5>2. ~(Current.constraints["null"] + Current.constraints["not_null"] > 1)
          BY <3>2 DEF Restricted
        <5> QED BY <3>1, <5>1, <5>2
      <4> QED BY <4>1, <4>2
    <3> QED BY <1>3, <3>1, <3>2, <3>3 DEF Restricted, More, One
  <2>3. PrimaryOK'
    BY <1>1, <1>2, <1>3, <1>4, <1>5, <1>6, <1>7, <2>1, <2>2 DEF PrimaryOK
  <2>4. NullityOK'
    BY <1>1, <1>2, <1>3, <1>4, <1>5, <1>6, <1>7, <2>1 DEF NullityOK
  <2> QED BY <2>3, <2>4
<1>12. DefaultOK'
  <2>1. Explicit(c) <=> Explicit(Current)
    BY <1>2, <1>3, ColumnFields DEF Explicit, More, One
  <2> QED BY <1>1, <1>2, <1>3, <1>4, <2>1 DEF DefinitionInv, DefaultOK, DefinitionSettled, Counting
<1> QED BY <1>8, <1>9, <1>10, <1>11, <1>12 DEF DefinitionInv

(* NULL and NOT NULL leave the primary key as it is.                       *)
LEMMA NullityStep ==
    ASSUME DefinitionInv, NEW sort \in {"null", "not_null"}, NEW c \in Column,
           at = "constraints", at' = at, columns # <<>>,
           ~SawNullity, sort = "null" => Current.nullable,
           c.name = Current.name, c.default = Current.default, c.nullable <=> sort = "null",
           More(c, sort), columns' = Replace(c), primary' = primary
    PROVE  DefinitionInv'
<1> DEFINE n == Len(columns)
<1>1. DefinitionTypeOK
  BY DEF DefinitionInv
<1>2. n \in DOMAIN columns /\ Current = columns[n] /\ Current \in Column
  BY <1>1, LastColumn DEF Current
<1>4. /\ columns' \in Seq(Column) /\ columns' # <<>> /\ Len(columns') = n
      /\ DOMAIN columns' = DOMAIN columns /\ columns'[n] = c
      /\ \A i \in DOMAIN columns : i # n => columns'[i] = columns[i]
  BY <1>1, Replacing
<1>5. /\ NamesSoFar' = NamesSoFar
      /\ \A i \in DOMAIN columns : columns'[i].name = columns[i].name
  BY <1>1, SameNames
<1>6. \A name : IsKey(name)' <=> IsKey(name)
  BY DEF IsKey
<1>7. DefinitionTypeOK' /\ DistinctNames'
  <2>1. DefinitionTypeOK'
    BY <1>1, <1>4 DEF DefinitionTypeOK
  <2>2. DistinctNames'
    BY <1>1, <1>4, <1>5 DEF DefinitionInv, DistinctNames
  <2> QED BY <2>1, <2>2
<1>8. DefinitionStagesKept' /\ RefusedOK' /\ SequenceOK' /\ ColumnsExact'
  BY <1>1, <1>4 DEF DefinitionInv, DefinitionStagesKept, DefinitionEarly, RefusedOK, SequenceOK,
                    ColumnsExact, Counting
<1>9. /\ Current.constraints["null"] = 0 /\ Current.constraints["not_null"] = 0
      /\ Current.constraints["primary_key"] \in Nat
      /\ Current.constraints["default"] \in Nat /\ Current.constraints["identity"] \in Nat
  BY <1>1, <1>2, ColumnFields DEF SawNullity
<1>10. /\ ~Restricted(Current.constraints)
       /\ Current.constraints["primary_key"] > 0 <=>
             primary.declared = "column" /\ IsKey(Current.name)
       /\ Current.nullable <=> ~IsKey(Current.name)
       /\ primary.declared # "column" => ~IsKey(Current.name)
  <2>1. primary.declared # "column" => ~IsKey(Current.name)
    BY <1>1 DEF DefinitionInv, DefinitionStagesKept, DefinitionEarly, IsKey, DefinitionTypeOK
  <2>2. Current.nullable <=> ~IsKey(Current.name)
    BY <1>1, <1>2, <1>9 DEF DefinitionInv, NullityOK, DefinitionSettled
  <2> QED BY <1>1, <1>2, <2>1, <2>2 DEF DefinitionInv, PrimaryOK
<1>11. /\ ~Restricted(c.constraints)
       /\ c.constraints["primary_key"] = Current.constraints["primary_key"]
       /\ c.nullable <=> c.constraints["not_null"] = 0 /\ ~IsKey(c.name)
  <2>1. CASE sort = "null"
    BY <1>9, <1>10, <2>1 DEF Restricted, More, One
  <2>2. CASE sort = "not_null"
    BY <1>9, <1>10, <2>2 DEF Restricted, More, One
  <2> QED BY <2>1, <2>2
<1>12. PrimaryOK'
  BY <1>1, <1>2, <1>4, <1>5, <1>6, <1>10, <1>11 DEF DefinitionInv, PrimaryOK
<1>13. NullityOK'
  BY <1>1, <1>2, <1>4, <1>5, <1>6, <1>11 DEF DefinitionInv, NullityOK, DefinitionSettled
<1>14. DefaultOK'
  <2>1. Explicit(c) <=> Explicit(Current)
    BY <1>9 DEF Explicit, More, One
  <2> QED BY <1>1, <1>2, <1>4, <2>1 DEF DefinitionInv, DefaultOK, DefinitionSettled, Counting
<1> QED BY <1>7, <1>8, <1>12, <1>13, <1>14 DEF DefinitionInv

LEMMA NullColumnStep == DefinitionInv /\ NullColumn => DefinitionInv'
<1> SUFFICES ASSUME DefinitionInv, NullColumn PROVE DefinitionInv'
  OBVIOUS
<1> DEFINE c == [With("null") EXCEPT !.nullable = TRUE]
<1>1. /\ at = "constraints" /\ at' = at /\ columns # <<>> /\ DefinitionTypeOK
      /\ ~SawNullity /\ Current.nullable /\ columns' = Replace(c) /\ primary' = primary
  BY DEF DefinitionInv, DefinitionStagesKept, NullColumn, Read, CanBeNull
<1>2. /\ c \in Column /\ c.name = Current.name /\ c.default = Current.default /\ c.nullable
      /\ More(c, "null")
  <2>1. With("null") \in Column
    BY <1>1, Counted DEF ConstraintKinds
  <2>2. /\ c \in Column /\ c.name = With("null").name /\ c.nullable
        /\ c.default = With("null").default /\ c.constraints = With("null").constraints
    BY <2>1 DEF Column
  <2> QED BY <1>1, <2>2, Counted DEF ConstraintKinds, More
<1> HIDE DEF c
<1> QED BY <1>1, <1>2, NullityStep

LEMMA NotNullColumnStep == DefinitionInv /\ NotNullColumn => DefinitionInv'
<1> SUFFICES ASSUME DefinitionInv, NotNullColumn PROVE DefinitionInv'
  OBVIOUS
<1> DEFINE c == [With("not_null") EXCEPT !.nullable = FALSE]
<1>1. /\ at = "constraints" /\ at' = at /\ columns # <<>> /\ DefinitionTypeOK
      /\ ~SawNullity /\ columns' = Replace(c) /\ primary' = primary
  BY DEF DefinitionInv, DefinitionStagesKept, NotNullColumn, Read, CanBeNotNull
<1>2. /\ c \in Column /\ c.name = Current.name /\ c.default = Current.default /\ ~c.nullable
      /\ More(c, "not_null")
  <2>1. With("not_null") \in Column
    BY <1>1, Counted DEF ConstraintKinds
  <2>2. /\ c \in Column /\ c.name = With("not_null").name /\ ~c.nullable
        /\ c.default = With("not_null").default /\ c.constraints = With("not_null").constraints
    BY <2>1 DEF Column
  <2> QED BY <1>1, <2>2, Counted DEF ConstraintKinds, More
<1> HIDE DEF c
<1> QED BY <1>1, <1>2, NullityStep

(* A constraint that does not fit is counted, and ends the definition.     *)
LEMMA RefuseStep ==
    ASSUME DefinitionInv, NEW sort \in ConstraintKinds, at = "constraints", at' = "refused",
           columns' = Replace(With(sort)), primary' = primary,
           \/ sort = "primary_key" /\ ~CanBePrimary
           \/ sort = "null" /\ ~CanBeNull
           \/ sort = "not_null" /\ ~CanBeNotNull
           \/ sort \in {"default", "identity"} /\ ~CanHaveDefault
    PROVE  DefinitionInv'
<1> DEFINE n == Len(columns)
           c == With(sort)
<1>1. DefinitionTypeOK /\ columns # <<>>
  BY DEF DefinitionInv, DefinitionStagesKept
<1>2. n \in DOMAIN columns /\ Current = columns[n] /\ Current \in Column
  BY <1>1, LastColumn DEF Current
<1>3. /\ c \in Column /\ c.name = Current.name /\ c.nullable = Current.nullable
      /\ More(c, sort)
  BY <1>1, Counted
<1> HIDE DEF c
<1>4. /\ columns' \in Seq(Column) /\ columns' # <<>> /\ Len(columns') = n
      /\ DOMAIN columns' = DOMAIN columns /\ columns'[n] = c
      /\ \A i \in DOMAIN columns : i # n => columns'[i] = columns[i]
  BY <1>1, <1>3, Replacing DEF c
<1>5. /\ NamesSoFar' = NamesSoFar
      /\ \A i \in DOMAIN columns : columns'[i].name = columns[i].name
  BY <1>1, <1>3, SameNames DEF c
<1>6. DefinitionTypeOK'
  BY <1>1, <1>4 DEF DefinitionTypeOK, DefinitionStages
<1>7. DistinctNames'
  BY <1>1, <1>4, <1>5 DEF DefinitionInv, DistinctNames
<1>8. /\ DefinitionStagesKept' /\ PrimaryOK' /\ NullityOK' /\ DefaultOK' /\ SequenceOK' /\ ColumnsExact'
  BY <1>1, <1>4 DEF DefinitionInv, DefinitionStagesKept, DefinitionEarly, PrimaryOK, NullityOK,
                    DefaultOK, SequenceOK,
                    ColumnsExact, Counting, DefinitionSettled
<1>9. /\ Current.constraints["null"] \in Nat /\ Current.constraints["not_null"] \in Nat
      /\ Current.constraints["primary_key"] \in Nat
      /\ Current.constraints["default"] \in Nat /\ Current.constraints["identity"] \in Nat
  BY <1>2, ColumnFields
<1>10. /\ Current.constraints["primary_key"] > 0 <=>
             primary.declared = "column" /\ IsKey(Current.name)
       /\ Current.nullable <=> Current.constraints["not_null"] = 0 /\ ~IsKey(Current.name)
       /\ Current.default = "none" <=> ~Explicit(Current)
  BY <1>2 DEF DefinitionInv, PrimaryOK, NullityOK, DefaultOK, DefinitionSettled, Counting
<1>11. AnyRestricted'
  <2>1. CASE Restricted(c.constraints)
    BY <1>2, <1>4, <2>1 DEF AnyRestricted
  <2>2. CASE sort = "primary_key" /\ primary.declared # "no"
    <3>1. primary.declared = "column" /\ Len(primary.keys) = 1 /\ primary.keys \in Seq(ColumnNames)
      BY <1>1, <2>2 DEF DefinitionInv, DefinitionStagesKept, DefinitionEarly, DefinitionTypeOK
    <3>2. 1 \in DOMAIN primary.keys
      BY <3>1
    <3>3. PICK i \in DOMAIN columns : columns[i].name = primary.keys[1]
      BY <3>2 DEF DefinitionInv, DistinctNames, NamesSoFar
    <3>4. IsKey(columns[i].name)
      BY <3>2, <3>3 DEF IsKey
    <3>5. columns[i].constraints["primary_key"] > 0
      BY <3>1, <3>4 DEF DefinitionInv, PrimaryOK
    <3>6. c.constraints["primary_key"] = Current.constraints["primary_key"] + 1
      BY <1>3, <2>2 DEF More, One
    <3>7. CASE i = n
      BY <1>2, <1>4, <1>9, <3>5, <3>6, <3>7 DEF AnyRestricted, Restricted
    <3>8. CASE i # n
      <4>1. n \in PrimaryColumns' /\ i \in PrimaryColumns'
        BY <1>2, <1>4, <1>9, <3>5, <3>6, <3>8 DEF PrimaryColumns
      <4> QED BY <3>8, <4>1 DEF AnyRestricted
    <3> QED BY <3>7, <3>8
  <2>3. CASE sort = "primary_key" /\ primary.declared = "no"
    <3>1. SawNullity /\ Current.nullable
      BY <2>3 DEF CanBePrimary
    <3>2. Current.constraints["null"] > 0
      BY <1>9, <1>10, <3>1 DEF SawNullity
    <3>3. Restricted(c.constraints)
      BY <1>3, <1>9, <2>3, <3>2 DEF Restricted, More, One
    <3> QED BY <2>1, <3>3
  <2>4. CASE sort \in {"null", "not_null"} /\ SawNullity
    <3>1. Restricted(c.constraints)
      BY <1>3, <1>9, <2>4 DEF Restricted, More, One, SawNullity
    <3> QED BY <2>1, <3>1
  <2>5. CASE sort = "null" /\ ~SawNullity
    <3>1. ~Current.nullable
      BY <2>5 DEF CanBeNull
    <3>2. Current.constraints["not_null"] = 0
      BY <1>9, <2>5 DEF SawNullity
    <3>3. IsKey(Current.name)
      BY <1>10, <3>1, <3>2
    <3>4. primary.declared = "column"
      BY <3>3 DEF DefinitionInv, DefinitionStagesKept, DefinitionEarly, IsKey, DefinitionTypeOK
    <3>5. Restricted(c.constraints)
      BY <1>3, <1>9, <1>10, <2>5, <3>3, <3>4 DEF Restricted, More, One
    <3> QED BY <2>1, <3>5
  <2>6. CASE sort \in {"default", "identity"}
    <3>1. Explicit(Current)
      BY <1>10, <2>6 DEF CanHaveDefault
    <3>2. Restricted(c.constraints)
      BY <1>3, <1>9, <2>6, <3>1 DEF Restricted, More, One, Explicit
    <3> QED BY <2>1, <3>2
  <2> QED BY <2>2, <2>3, <2>4, <2>5, <2>6 DEF CanBePrimary, CanBeNull, CanBeNotNull
<1>12. (\A i \in DOMAIN columns : IsKey(columns[i].name) => ~columns[i].nullable)'
  <2>1. \A i \in DOMAIN columns : IsKey(columns[i].name) => ~columns[i].nullable
    BY DEF DefinitionInv, NullityOK, DefinitionSettled
  <2>2. \A i \in DOMAIN columns : columns'[i].nullable = columns[i].nullable
    BY <1>2, <1>3, <1>4
  <2>3. \A name : IsKey(name)' <=> IsKey(name)
    BY DEF IsKey
  <2> QED BY <1>4, <1>5, <2>1, <2>2, <2>3
<1>13. RefusedOK'
  BY <1>11, <1>12 DEF RefusedOK
<1> QED BY <1>6, <1>7, <1>8, <1>13 DEF DefinitionInv

LEMMA RefuseConstraintStep == DefinitionInv /\ RefuseConstraint => DefinitionInv'
<1> SUFFICES ASSUME DefinitionInv, RefuseConstraint PROVE DefinitionInv'
  OBVIOUS
<1>1. PICK sort \in ConstraintKinds :
        /\ Refuse(sort)
        /\ \/ sort = "primary_key" /\ ~CanBePrimary
           \/ sort = "null" /\ ~CanBeNull
           \/ sort = "not_null" /\ ~CanBeNotNull
           \/ sort \in {"default", "identity"} /\ ~CanHaveDefault
  BY DEF RefuseConstraint, ConstraintKinds
<1> QED BY <1>1, RefuseStep DEF Refuse, Read

(***************************************************************************)
(* Defaults.                                                               *)
(***************************************************************************)
(* A default is counted; it is there at once, or when its sequence is.     *)
LEMMA ExplicitStep ==
    ASSUME DefinitionInv, NEW sort \in {"default", "identity"}, NEW c \in Column,
           at \in {"constraints", "default"}, columns # <<>>, Current.default = "none",
           c.name = Current.name, c.type = Current.type, c.nullable = Current.nullable,
           More(c, sort), columns' = Replace(c), primary' = primary,
           \/ at' = "constraints" /\ c.default = "value"
           \/ /\ sort = "identity" /\ at' = "increment" /\ c.default = "none"
              /\ Current.type \in {"int4", "int8"}
              /\ sequence' \in Sequence /\ ~sequence'.given
    PROVE  DefinitionInv'
<1> DEFINE n == Len(columns)
<1>1. DefinitionTypeOK
  BY DEF DefinitionInv
<1>2. n \in DOMAIN columns /\ Current = columns[n] /\ Current \in Column
  BY <1>1, LastColumn DEF Current
<1>3. /\ columns' \in Seq(Column) /\ columns' # <<>> /\ Len(columns') = n
      /\ DOMAIN columns' = DOMAIN columns /\ columns'[n] = c
      /\ \A i \in DOMAIN columns : i # n => columns'[i] = columns[i]
  BY <1>1, Replacing
<1>4. /\ NamesSoFar' = NamesSoFar
      /\ \A i \in DOMAIN columns : columns'[i].name = columns[i].name
  BY <1>1, SameNames
<1>5. \A name : IsKey(name)' <=> IsKey(name)
  BY DEF IsKey
<1>6. Current' = c
  BY <1>3 DEF Current
<1>7. DefinitionTypeOK'
  BY <1>1, <1>3 DEF DefinitionTypeOK, DefinitionStages
<1>8. DistinctNames'
  BY <1>1, <1>3, <1>4 DEF DefinitionInv, DistinctNames
<1>9. DefinitionStagesKept' /\ RefusedOK' /\ ColumnsExact'
  BY <1>1, <1>3 DEF DefinitionInv, DefinitionStagesKept, DefinitionEarly, RefusedOK,
                    ColumnsExact, Counting
<1>10. SequenceOK'
  BY <1>6 DEF SequenceOK, Counting
<1>11. /\ Current.constraints["null"] \in Nat /\ Current.constraints["not_null"] \in Nat
       /\ Current.constraints["primary_key"] \in Nat
       /\ Current.constraints["default"] \in Nat /\ Current.constraints["identity"] \in Nat
  BY <1>2, ColumnFields
<1>12. ~Explicit(Current)
  BY <1>2 DEF DefinitionInv, DefaultOK, DefinitionSettled, Counting
<1>13. /\ ~Restricted(Current.constraints)
       /\ Current.constraints["primary_key"] > 0 <=>
             primary.declared = "column" /\ IsKey(Current.name)
       /\ Current.nullable <=> Current.constraints["not_null"] = 0 /\ ~IsKey(Current.name)
  BY <1>2 DEF DefinitionInv, PrimaryOK, NullityOK, DefinitionSettled
<1>14. Current.constraints["default"] = 0 /\ Current.constraints["identity"] = 0
  BY <1>11, <1>12 DEF Explicit
<1>15. /\ ~Restricted(c.constraints) /\ Explicit(c)
       /\ c.constraints["primary_key"] = Current.constraints["primary_key"]
       /\ c.constraints["not_null"] = Current.constraints["not_null"]
       /\ sort = "identity" => c.constraints["identity"] = 1 /\ c.constraints["default"] = 0
  <2>1. CASE sort = "default"
    BY <1>11, <1>13, <1>14, <2>1 DEF Restricted, Explicit, More, One
  <2>2. CASE sort = "identity"
    BY <1>11, <1>13, <1>14, <2>2 DEF Restricted, Explicit, More, One
  <2> QED BY <2>1, <2>2
<1>16. PrimaryOK'
  BY <1>2, <1>3, <1>4, <1>5, <1>13, <1>15 DEF DefinitionInv, PrimaryOK
<1>17. NullityOK'
  BY <1>2, <1>3, <1>4, <1>5, <1>13, <1>15 DEF DefinitionInv, NullityOK, DefinitionSettled
<1>18. DefaultOK'
  BY <1>2, <1>3, <1>15 DEF DefinitionInv, DefaultOK, DefinitionSettled, Counting
<1> QED BY <1>7, <1>8, <1>9, <1>10, <1>16, <1>17, <1>18 DEF DefinitionInv

LEMMA ValueColumn ==
    ASSUME DefinitionTypeOK, columns # <<>>,
           NEW c, c = [With("default") EXCEPT !.default = "value"]
    PROVE  /\ c \in Column /\ c.name = Current.name /\ c.type = Current.type
           /\ c.nullable = Current.nullable /\ c.default = "value" /\ More(c, "default")
<1>1. With("default") \in Column
  BY Counted DEF ConstraintKinds
<1>2. /\ c \in Column /\ c.name = With("default").name /\ c.type = With("default").type
      /\ c.nullable = With("default").nullable /\ c.default = "value"
      /\ c.constraints = With("default").constraints
  BY <1>1 DEF Column, ColumnDefaults
<1> QED BY <1>2, Counted DEF ConstraintKinds, More

LEMMA DefaultValueStep == DefinitionInv /\ DefaultValue => DefinitionInv'
<1> SUFFICES ASSUME DefinitionInv, DefaultValue PROVE DefinitionInv'
  OBVIOUS
<1>1. /\ at = "constraints" /\ at' = at /\ columns # <<>> /\ DefinitionTypeOK
      /\ Current.default = "none" /\ primary' = primary
  BY DEF DefinitionInv, DefinitionStagesKept, DefaultValue, Read, CanHaveDefault
<1>2. PICK c : /\ c = [With("default") EXCEPT !.default = "value"]
               /\ columns' = Replace(c)
  BY DEF DefaultValue
<1> QED BY <1>1, <1>2, ValueColumn, ExplicitStep

LEMMA EndDefaultNumberStep == DefinitionInv /\ EndDefaultNumber => DefinitionInv'
<1> SUFFICES ASSUME DefinitionInv, EndDefaultNumber PROVE DefinitionInv'
  OBVIOUS
<1>1. /\ at = "default" /\ at' = "constraints" /\ columns # <<>> /\ DefinitionTypeOK
      /\ Current.default = "none" /\ primary' = primary
  BY DEF DefinitionInv, DefinitionStagesKept, EndDefaultNumber, Move
<1>2. PICK c : /\ c = [With("default") EXCEPT !.default = "value"]
               /\ columns' = Replace(c)
  BY DEF EndDefaultNumber
<1> QED BY <1>1, <1>2, ValueColumn, ExplicitStep

LEMMA IdentityStep == DefinitionInv /\ Identity => DefinitionInv'
<1> SUFFICES ASSUME DefinitionInv, Identity PROVE DefinitionInv'
  OBVIOUS
<1>1. /\ at = "constraints" /\ at' = "increment" /\ columns # <<>> /\ DefinitionTypeOK
      /\ Current.default = "none" /\ Current.type # "other"
      /\ columns' = Replace(With("identity")) /\ primary' = primary
      /\ sequence' = [increment |-> 1, min |-> 1, max |-> 1, initial |-> 1, given |-> FALSE]
  BY DEF DefinitionInv, DefinitionStagesKept, Identity, Read, CanHaveDefault
<1>2. Current.type \in {"int4", "int8"}
  BY <1>1, LastColumn, ColumnFields DEF ColumnTypeKinds
<1>3. sequence' \in Sequence /\ ~sequence'.given
  BY <1>1 DEF Sequence
<1>4. /\ With("identity") \in Column /\ With("identity").name = Current.name
      /\ With("identity").type = Current.type /\ With("identity").nullable = Current.nullable
      /\ With("identity").default = "none" /\ More(With("identity"), "identity")
  BY <1>1, Counted DEF ConstraintKinds
<1> QED BY <1>1, <1>2, <1>3, <1>4, ExplicitStep

(***************************************************************************)
(* Steps that leave the columns and the key as they are.                   *)
(***************************************************************************)
LEMMA DefinitionQuietStep ==
    ASSUME DefinitionInv, columns' = columns, primary' = primary,
           at \in {"start", "elements", "constraints"},
           at' \in {"elements", "type", "constraints", "default", "table", "empty"},
           at' = "type" => typing'.name \in ColumnNames,
           at' \in {"constraints", "default"} => columns # <<>>,
           at' = "default" => Current.default = "none"
    PROVE  DefinitionInv'
<1>1. \A name : IsKey(name)' <=> IsKey(name)
  BY DEF IsKey
<1>2. DefinitionTypeOK' /\ DistinctNames'
  BY DEF DefinitionInv, DefinitionTypeOK, DefinitionStages, DistinctNames, NamesSoFar
<1>3. DefinitionStagesKept'
  BY DEF DefinitionInv, DefinitionStagesKept, DefinitionEarly, Counting, Current
<1>4. PrimaryOK' /\ NullityOK'
  BY <1>1 DEF DefinitionInv, PrimaryOK, NullityOK, DefinitionSettled
<1>5. DefaultOK'
  BY DEF DefinitionInv, DefaultOK, DefinitionSettled, Counting
<1>6. RefusedOK' /\ SequenceOK' /\ ColumnsExact'
  BY DEF RefusedOK, SequenceOK, ColumnsExact, Counting
<1> QED BY <1>2, <1>3, <1>4, <1>5, <1>6 DEF DefinitionInv

(* An error ends the definition wherever it is found.                      *)
LEMMA DefinitionFailStep ==
    ASSUME DefinitionInv, columns' = columns, primary' = primary,
           at \notin {"refused", "failed"}, at' = "failed"
    PROVE  DefinitionInv'
<1>1. \A name : IsKey(name)' <=> IsKey(name)
  BY DEF IsKey
<1>2. DefinitionTypeOK' /\ DistinctNames'
  BY DEF DefinitionInv, DefinitionTypeOK, DefinitionStages, DistinctNames, NamesSoFar
<1>3. DefinitionStagesKept'
  BY DEF DefinitionInv, DefinitionStagesKept, DefinitionEarly, Counting
<1>4. PrimaryOK'
  BY <1>1 DEF DefinitionInv, PrimaryOK
<1>5. NullityOK' /\ DefaultOK' /\ RefusedOK' /\ SequenceOK' /\ ColumnsExact'
  BY DEF NullityOK, DefaultOK, RefusedOK, SequenceOK, ColumnsExact, DefinitionSettled, Counting
<1> QED BY <1>2, <1>3, <1>4, <1>5 DEF DefinitionInv

LEMMA DefinitionUnchanged == DefinitionInv /\ UNCHANGED definitionVars => DefinitionInv'
<1> SUFFICES ASSUME DefinitionInv, UNCHANGED definitionVars PROVE DefinitionInv'
  OBVIOUS
<1>1. /\ at' = at /\ columns' = columns /\ typing' = typing /\ reading' = reading
      /\ sequence' = sequence /\ primary' = primary
  BY DEF definitionVars
<1>2. \A name : IsKey(name)' <=> IsKey(name)
  BY <1>1 DEF IsKey
<1>3. DefinitionTypeOK' /\ DistinctNames'
  BY <1>1 DEF DefinitionInv, DefinitionTypeOK, DistinctNames, NamesSoFar
<1>4. DefinitionStagesKept'
  BY <1>1 DEF DefinitionInv, DefinitionStagesKept, Current
<1>5. PrimaryOK' /\ NullityOK'
  BY <1>1, <1>2 DEF DefinitionInv, PrimaryOK, NullityOK, DefinitionSettled
<1>6. DefaultOK'
  BY <1>1 DEF DefinitionInv, DefaultOK, DefinitionSettled
<1>7. RefusedOK'
  BY <1>1, <1>2 DEF DefinitionInv, RefusedOK, AnyRestricted, PrimaryColumns
<1>8. SequenceOK'
  BY <1>1 DEF DefinitionInv, SequenceOK, Current, StartsAtEnd, InRange
<1>9. ColumnsExact'
  BY <1>1, <1>2 DEF DefinitionInv, ColumnsExact, ColumnExact
<1> QED BY <1>3, <1>4, <1>5, <1>6, <1>7, <1>8, <1>9 DEF DefinitionInv

LEMMA DefinitionQuietSteps ==
    DefinitionInv /\ (BeginDefinition \/ AlreadyDefined \/ AnalyzeType \/ NextColumn \/ DefaultNumber
            \/ EndColumns)
    => DefinitionInv'
<1> SUFFICES ASSUME DefinitionInv,
                    \/ BeginDefinition \/ AlreadyDefined \/ AnalyzeType \/ NextColumn
                    \/ DefaultNumber \/ EndColumns
             PROVE  DefinitionInv'
  OBVIOUS
<1>1. CASE BeginDefinition
  BY <1>1, DefinitionQuietStep DEF BeginDefinition, Move
<1>2. CASE AlreadyDefined
  BY <1>2, DefinitionQuietStep DEF AlreadyDefined, Move
<1>3. CASE AnalyzeType
  <2>1. typing'.name \in ColumnNames
    BY <1>3 DEF AnalyzeType
  <2> QED BY <1>3, <2>1, DefinitionQuietStep DEF AnalyzeType, Move
<1>4. CASE NextColumn
  BY <1>4, DefinitionQuietStep DEF NextColumn, Move
<1>5. CASE DefaultNumber
  <2>1. /\ at = "constraints" /\ at' = "default" /\ Current.default = "none"
        /\ columns' = columns /\ primary' = primary /\ columns # <<>>
    BY <1>5 DEF DefaultNumber, CanHaveDefault, DefinitionInv, DefinitionStagesKept
  <2> QED BY <2>1, DefinitionQuietStep
<1>6. CASE EndColumns
  BY <1>6, DefinitionQuietStep DEF EndColumns, Move
<1> QED BY <1>1, <1>2, <1>3, <1>4, <1>5, <1>6

LEMMA DefinitionFailSteps ==
    DefinitionInv /\ (RejectDefinition \/ RejectColumn \/ RejectConstraint \/ RejectDefaultNumber
            \/ RejectIdentity \/ RejectSequence \/ RejectElements \/ RejectTableConstraint
            \/ RejectKey)
    => DefinitionInv'
<1> SUFFICES ASSUME DefinitionInv,
                    \/ RejectDefinition \/ RejectColumn \/ RejectConstraint
                    \/ RejectDefaultNumber \/ RejectIdentity \/ RejectSequence
                    \/ RejectElements \/ RejectTableConstraint \/ RejectKey
             PROVE  DefinitionInv'
  OBVIOUS
<1>1. /\ columns' = columns /\ primary' = primary
      /\ at \notin {"refused", "failed"} /\ at' = "failed"
  BY DEF RejectDefinition, RejectColumn, RejectConstraint, RejectDefaultNumber, RejectIdentity,
         RejectSequence, RejectElements, RejectTableConstraint, RejectKey, Abort, Move, Read,
         SequenceStep
<1> QED BY <1>1, DefinitionFailStep

(***************************************************************************)
(* A column starts without constraints, and without a name in the key.     *)
(***************************************************************************)
LEMMA AddColumnStep == DefinitionInv /\ AddColumn => DefinitionInv'
<1> SUFFICES ASSUME DefinitionInv, AddColumn PROVE DefinitionInv'
  OBVIOUS
<1>1. PICK c : c = Prototype(typing.name, typing.type) /\ columns' = Append(columns, c)
  BY DEF AddColumn
<1>2. /\ at = "type" /\ at' = "constraints" /\ DefinitionTypeOK /\ primary' = primary
      /\ typing.name \in ColumnNames /\ typing.name \notin NamesSoFar
  BY DEF DefinitionInv, DefinitionStagesKept, AddColumn, Move, Definable
<1>3. /\ c \in Column /\ c.name = typing.name /\ c.nullable /\ c.default = "none"
      /\ c.constraints = [sort \in ConstraintKinds |-> 0]
  <2>1. KindOf(typing.type) \in ColumnTypeKinds
    BY DEF KindOf, ColumnTypeKinds
  <2> QED BY <1>1, <1>2, <2>1 DEF Prototype, Column, ColumnDefaults
<1>4. /\ c.constraints["primary_key"] = 0 /\ c.constraints["null"] = 0
      /\ c.constraints["not_null"] = 0 /\ c.constraints["default"] = 0
      /\ c.constraints["identity"] = 0
  BY <1>3 DEF ConstraintKinds
<1>5. /\ Len(columns) \in Nat /\ DOMAIN columns = 1..Len(columns)
      /\ columns' \in Seq(Column) /\ Len(columns') = Len(columns) + 1
      /\ DOMAIN columns' = 1..(Len(columns) + 1)
      /\ columns'[Len(columns) + 1] = c
      /\ \A i \in DOMAIN columns : columns'[i] = columns[i]
  BY <1>1, <1>2, <1>3 DEF DefinitionTypeOK
<1>6. /\ NamesSoFar' = NamesSoFar \cup {c.name}
      /\ \A i \in DOMAIN columns : columns[i].name # c.name
  <2>1. \A i \in DOMAIN columns : columns[i].name # c.name
    BY <1>2, <1>3 DEF NamesSoFar
  <2>2. NamesSoFar' = {columns'[i].name : i \in 1..(Len(columns) + 1)}
    BY <1>5 DEF NamesSoFar
  <2>3. NamesSoFar = {columns[i].name : i \in 1..Len(columns)}
    BY <1>5 DEF NamesSoFar
  <2>4. 1..(Len(columns) + 1) = 1..Len(columns) \cup {Len(columns) + 1}
    BY <1>5
  <2> QED BY <1>5, <2>1, <2>2, <2>3, <2>4
<1>7. /\ \A name : IsKey(name)' <=> IsKey(name)
      /\ ~IsKey(c.name)
  BY <1>2, <1>3 DEF IsKey, DefinitionInv, DistinctNames
<1>8. DefinitionTypeOK'
  BY <1>2, <1>5 DEF DefinitionTypeOK, DefinitionStages
<1>9. DefinitionStagesKept'
  BY <1>2, <1>5 DEF DefinitionInv, DefinitionStagesKept, DefinitionEarly, Counting
<1>10. DistinctNames'
  <2>1. (\A i, k \in DOMAIN columns : columns[i].name = columns[k].name => i = k)'
    <3> SUFFICES ASSUME NEW i \in DOMAIN columns', NEW k \in DOMAIN columns',
                        columns'[i].name = columns'[k].name
                 PROVE  i = k
      OBVIOUS
    <3>1. i \in DOMAIN columns \/ i = Len(columns) + 1
      BY <1>5
    <3>2. k \in DOMAIN columns \/ k = Len(columns) + 1
      BY <1>5
    <3> QED BY <1>5, <1>6, <3>1, <3>2 DEF DefinitionInv, DistinctNames
  <2> QED BY <1>2, <1>6, <2>1 DEF DefinitionInv, DistinctNames
<1>11. PrimaryOK'
  <2>1. ~Restricted(c.constraints)
    BY <1>4 DEF Restricted
  <2> QED BY <1>2, <1>4, <1>5, <1>7, <2>1 DEF DefinitionInv, PrimaryOK
<1>12. NullityOK'
  BY <1>2, <1>3, <1>4, <1>5, <1>7 DEF DefinitionInv, NullityOK, DefinitionSettled
<1>13. DefaultOK'
  <2>1. ~Explicit(c)
    BY <1>4 DEF Explicit
  <2> QED BY <1>2, <1>3, <1>5, <2>1 DEF DefinitionInv, DefaultOK, DefinitionSettled, Counting
<1>14. RefusedOK' /\ SequenceOK' /\ ColumnsExact'
  BY <1>2 DEF RefusedOK, SequenceOK, ColumnsExact, Counting
<1> QED BY <1>8, <1>9, <1>10, <1>11, <1>12, <1>13, <1>14 DEF DefinitionInv

(***************************************************************************)
(* The options of a sequence, which leave the columns as they are.         *)
(***************************************************************************)
LEMMA CountingStep ==
    ASSUME DefinitionInv, columns' = columns, primary' = primary,
           at \in Counting, at' \in Counting, SequenceOK'
    PROVE  DefinitionInv'
<1>1. \A name : IsKey(name)' <=> IsKey(name)
  BY DEF IsKey
<1>2. DefinitionTypeOK' /\ DistinctNames'
  BY DEF DefinitionInv, DefinitionTypeOK, DefinitionStages, DistinctNames, NamesSoFar, Counting
<1>3. DefinitionStagesKept'
  BY DEF DefinitionInv, DefinitionStagesKept, DefinitionEarly, Counting
<1>4. PrimaryOK' /\ NullityOK'
  BY <1>1 DEF DefinitionInv, PrimaryOK, NullityOK, DefinitionSettled, Counting
<1>5. DefaultOK'
  BY DEF DefinitionInv, DefaultOK, DefinitionSettled, Counting
<1>6. RefusedOK' /\ ColumnsExact'
  BY DEF RefusedOK, ColumnsExact, Counting
<1> QED BY <1>2, <1>3, <1>4, <1>5, <1>6 DEF DefinitionInv

(* What SequenceOK says of the stages of the options.                      *)
DefinitionWithin(s) ==
    s.increment # 0 /\ {s.min, s.max, s.increment} \subseteq RangeOf(Current.type)

LEMMA OptionStep ==
    ASSUME DefinitionInv, columns' = columns, primary' = primary, at \in Counting,
           at' \in {"min", "max", "initial", "range"},
           sequence' \in Sequence, DefinitionWithin(sequence'),
           at' = "range" => sequence'.given \/ StartsAtEnd',
           at' # "range" => ~sequence'.given
    PROVE  DefinitionInv'
<1>1. Current' = Current /\ Current.type \in {"int4", "int8"}
  BY DEF Current, DefinitionInv, SequenceOK
<1>2. SequenceOK'
  BY <1>1 DEF SequenceOK, DefinitionWithin, Counting
<1>3. at' \in Counting
  BY DEF Counting
<1> QED BY <1>2, <1>3, CountingStep

LEMMA ReadIncrementStep == DefinitionInv /\ ReadIncrement => DefinitionInv'
<1> SUFFICES ASSUME DefinitionInv, ReadIncrement PROVE DefinitionInv'
  OBVIOUS
<1>1. /\ at = "increment" /\ at' = "min" /\ columns' = columns /\ primary' = primary
  BY DEF ReadIncrement, SequenceStep, Move
<1>2. PICK n \in (Numbers \ {0}) \cup {1} :
        sequence' = [sequence EXCEPT !.increment = n, !.min = Limits(n).min, !.max = Limits(n).max]
  BY DEF ReadIncrement
<1>3. /\ sequence \in Sequence /\ ~sequence.given /\ Current.type \in {"int4", "int8"}
  BY <1>1 DEF DefinitionInv, SequenceOK, Counting
<1>4. n \in Int /\ n # 0 /\ n \in RangeOf(Current.type)
  BY <1>3, NumbersInRange, IdentityRange
<1>5. /\ Limits(n).min \in RangeOf(Current.type) /\ Limits(n).max \in RangeOf(Current.type)
      /\ Limits(n).min \in Int /\ Limits(n).max \in Int
  <2>1. Limits(n).min \in RangeOf(Current.type) /\ Limits(n).max \in RangeOf(Current.type)
    BY <1>3, IdentityRange DEF Limits
  <2> QED BY <2>1 DEF RangeOf
<1>6. /\ sequence' \in Sequence /\ ~sequence'.given /\ sequence'.increment = n
      /\ sequence'.min = Limits(n).min /\ sequence'.max = Limits(n).max
  BY <1>2, <1>3, <1>4, <1>5 DEF Sequence
<1>7. DefinitionWithin(sequence')
  BY <1>4, <1>5, <1>6 DEF DefinitionWithin
<1> QED BY <1>1, <1>6, <1>7, OptionStep DEF Counting

LEMMA LimitSteps == DefinitionInv /\ (NoMin \/ ReadMin \/ NoMax \/ ReadMax) => DefinitionInv'
<1> SUFFICES ASSUME DefinitionInv, NoMin \/ ReadMin \/ NoMax \/ ReadMax PROVE DefinitionInv'
  OBVIOUS
<1>1. /\ at \in {"min", "max"} /\ at' \in {"max", "initial"}
      /\ columns' = columns /\ primary' = primary
  BY DEF NoMin, ReadMin, NoMax, ReadMax, SequenceStep, Move
<1>2. sequence \in Sequence /\ DefinitionWithin(sequence) /\ ~sequence.given
  BY <1>1 DEF DefinitionInv, SequenceOK, Counting, DefinitionWithin
<1>3. \/ sequence' = sequence
      \/ \E n \in Numbers : \/ sequence' = [sequence EXCEPT !.min = n]
                            \/ sequence' = [sequence EXCEPT !.max = n]
  BY DEF NoMin, ReadMin, NoMax, ReadMax
<1>4. sequence' \in Sequence /\ DefinitionWithin(sequence') /\ ~sequence'.given
  <2>1. CASE sequence' = sequence
    BY <1>2, <2>1
  <2>2. CASE \E n \in Numbers : \/ sequence' = [sequence EXCEPT !.min = n]
                                \/ sequence' = [sequence EXCEPT !.max = n]
    <3>1. PICK n \in Numbers : \/ sequence' = [sequence EXCEPT !.min = n]
                               \/ sequence' = [sequence EXCEPT !.max = n]
      BY <2>2
    <3>2. n \in Int /\ n \in RangeOf(Current.type)
      BY NumbersInRange
    <3>3. PICK s : s = sequence
      OBVIOUS
    <3>4. s \in Sequence /\ DefinitionWithin(s) /\ ~s.given
      BY <1>2, <3>3
    <3>5. CASE sequence' = [s EXCEPT !.min = n]
      <4>1. PICK t : t = [s EXCEPT !.min = n]
        OBVIOUS
      <4>2. /\ t \in Sequence /\ t.min = n /\ t.max = s.max
            /\ t.increment = s.increment /\ t.given = s.given
        BY <3>2, <3>4, <4>1 DEF Sequence
      <4> QED BY <3>2, <3>4, <3>5, <4>1, <4>2 DEF DefinitionWithin
    <3>6. CASE sequence' = [s EXCEPT !.max = n]
      <4>1. PICK t : t = [s EXCEPT !.max = n]
        OBVIOUS
      <4>2. /\ t \in Sequence /\ t.max = n /\ t.min = s.min
            /\ t.increment = s.increment /\ t.given = s.given
        BY <3>2, <3>4, <4>1 DEF Sequence
      <4> QED BY <3>2, <3>4, <3>6, <4>1, <4>2 DEF DefinitionWithin
    <3> QED BY <3>1, <3>3, <3>5, <3>6
  <2> QED BY <1>3, <2>1, <2>2
<1> QED BY <1>1, <1>4, OptionStep DEF Counting

LEMMA InitialSteps == DefinitionInv /\ (NoInitial \/ ReadInitial) => DefinitionInv'
<1> SUFFICES ASSUME DefinitionInv, NoInitial \/ ReadInitial PROVE DefinitionInv'
  OBVIOUS
<1>1. /\ at = "initial" /\ at' = "range" /\ columns' = columns /\ primary' = primary
  BY DEF NoInitial, ReadInitial, SequenceStep, Move
<1>2. sequence \in Sequence /\ DefinitionWithin(sequence)
  BY <1>1 DEF DefinitionInv, SequenceOK, Counting, DefinitionWithin
<1>3. CASE NoInitial
  <2>1. PICK n : /\ n = IF sequence.increment > 0 THEN sequence.min ELSE sequence.max
                 /\ sequence' = [sequence EXCEPT !.initial = n]
    BY <1>3 DEF NoInitial
  <2>2. n \in Int
    BY <1>2, <2>1 DEF Sequence
  <2>3. PICK t : t = [sequence EXCEPT !.initial = n]
    OBVIOUS
  <2>4. /\ t \in Sequence /\ t.initial = n /\ t.min = sequence.min
        /\ t.max = sequence.max /\ t.increment = sequence.increment
    BY <1>2, <2>2, <2>3 DEF Sequence
  <2>5. sequence' = t
    BY <2>1, <2>3
  <2>6. StartsAtEnd' /\ DefinitionWithin(sequence')
    BY <1>2, <2>1, <2>4, <2>5 DEF StartsAtEnd, DefinitionWithin
  <2> QED BY <1>1, <2>4, <2>5, <2>6, OptionStep DEF Counting
<1>4. CASE ReadInitial
  <2>1. PICK n \in Numbers : sequence' = [sequence EXCEPT !.initial = n, !.given = TRUE]
    BY <1>4 DEF ReadInitial
  <2>2. n \in Int
    BY NumbersInRange
  <2>3. PICK t : t = [sequence EXCEPT !.initial = n, !.given = TRUE]
    OBVIOUS
  <2>4. /\ t \in Sequence /\ t.given /\ t.min = sequence.min
        /\ t.max = sequence.max /\ t.increment = sequence.increment
    BY <1>2, <2>2, <2>3 DEF Sequence
  <2>5. sequence' = t
    BY <2>1, <2>3
  <2>6. DefinitionWithin(sequence')
    BY <1>2, <2>4, <2>5 DEF DefinitionWithin
  <2> QED BY <1>1, <2>4, <2>5, <2>6, OptionStep DEF Counting
<1> QED BY <1>3, <1>4

LEMMA CheckRangeStep == DefinitionInv /\ CheckRange => DefinitionInv'
<1> SUFFICES ASSUME DefinitionInv, CheckRange PROVE DefinitionInv'
  OBVIOUS
<1>1. /\ at = "range" /\ at' = "sequence" /\ columns' = columns /\ primary' = primary
      /\ sequence' = sequence /\ InRange
  BY DEF CheckRange, SequenceStep, Move
<1>2. Current' = Current
  BY <1>1 DEF Current
<1>3. SequenceOK'
  BY <1>1, <1>2 DEF DefinitionInv, SequenceOK, Counting, StartsAtEnd, InRange
<1> QED BY <1>1, <1>3, CountingStep DEF Counting

LEMMA EndSequenceStep == DefinitionInv /\ EndSequence => DefinitionInv'
<1> SUFFICES ASSUME DefinitionInv, EndSequence PROVE DefinitionInv'
  OBVIOUS
<1> DEFINE n == Len(columns)
<1>1. PICK c : c = [Current EXCEPT !.default = "sequence"] /\ columns' = Replace(c)
  BY DEF EndSequence
<1>2. /\ at = "sequence" /\ at' = "constraints" /\ columns # <<>> /\ DefinitionTypeOK
      /\ primary' = primary
  BY DEF DefinitionInv, DefinitionStagesKept, EndSequence, Move, Counting
<1>3. n \in DOMAIN columns /\ Current = columns[n] /\ Current \in Column
  BY <1>2, LastColumn DEF Current
<1>4. /\ c \in Column /\ c.name = Current.name /\ c.default = "sequence"
      /\ c.nullable = Current.nullable /\ c.constraints = Current.constraints
  BY <1>1, <1>3 DEF Column, ColumnDefaults
<1>5. /\ columns' \in Seq(Column) /\ columns' # <<>> /\ Len(columns') = n
      /\ DOMAIN columns' = DOMAIN columns /\ columns'[n] = c
      /\ \A i \in DOMAIN columns : i # n => columns'[i] = columns[i]
  BY <1>1, <1>2, <1>4, Replacing
<1>6. /\ NamesSoFar' = NamesSoFar
      /\ \A i \in DOMAIN columns : columns'[i].name = columns[i].name
  BY <1>1, <1>2, <1>4, SameNames
<1>7. /\ \A name : IsKey(name)' <=> IsKey(name)
      /\ \A i \in DOMAIN columns : columns'[i].constraints = columns[i].constraints
      /\ \A i \in DOMAIN columns : columns'[i].nullable = columns[i].nullable
  BY <1>2, <1>3, <1>4, <1>5 DEF IsKey
<1>8. DefinitionTypeOK' /\ DistinctNames'
  BY <1>2, <1>5, <1>6 DEF DefinitionInv, DefinitionTypeOK, DefinitionStages, DistinctNames
<1>9. DefinitionStagesKept'
  BY <1>2, <1>5 DEF DefinitionInv, DefinitionStagesKept, DefinitionEarly, Counting
<1>10. PrimaryOK'
  BY <1>2, <1>5, <1>6, <1>7 DEF DefinitionInv, PrimaryOK
<1>11. NullityOK'
  BY <1>2, <1>5, <1>6, <1>7 DEF DefinitionInv, NullityOK, DefinitionSettled
<1>12. DefaultOK'
  <2>1. Current.constraints["identity"] = 1 /\ Current.constraints["default"] = 0
    BY <1>2, <1>3 DEF DefinitionInv, DefaultOK, DefinitionSettled, Counting
  <2>2. Explicit(c)
    BY <1>4, <2>1 DEF Explicit
  <2> QED BY <1>2, <1>3, <1>4, <1>5, <2>2 DEF DefinitionInv, DefaultOK, DefinitionSettled, Counting
<1>13. RefusedOK' /\ SequenceOK' /\ ColumnsExact'
  BY <1>2 DEF RefusedOK, SequenceOK, ColumnsExact, Counting
<1> QED BY <1>8, <1>9, <1>10, <1>11, <1>12, <1>13 DEF DefinitionInv

(***************************************************************************)
(* The key of the table.                                                   *)
(***************************************************************************)
LEMMA TableKeyStep == DefinitionInv /\ TableKey => DefinitionInv'
<1> SUFFICES ASSUME DefinitionInv, TableKey PROVE DefinitionInv'
  OBVIOUS
<1>1. /\ at = "table" /\ at' = "key" /\ columns' = columns /\ primary.declared = "no"
      /\ primary' = [declared |-> "table", keys |-> <<>>] /\ primary.keys = <<>>
  BY DEF DefinitionInv, DefinitionStagesKept, TableKey, Move
<1>2. \A name : ~IsKey(name) /\ ~IsKey(name)'
  BY <1>1 DEF IsKey
<1>3. DefinitionTypeOK' /\ DistinctNames'
  BY <1>1 DEF DefinitionInv, DefinitionTypeOK, DefinitionStages, DistinctNames
<1>4. DefinitionStagesKept'
  BY <1>1 DEF DefinitionStagesKept, DefinitionEarly, Counting
<1>5. PrimaryOK' /\ NullityOK'
  BY <1>1, <1>2 DEF DefinitionInv, PrimaryOK, NullityOK, DefinitionSettled
<1>6. DefaultOK'
  BY <1>1 DEF DefinitionInv, DefaultOK, DefinitionSettled, Counting
<1>7. RefusedOK' /\ SequenceOK' /\ ColumnsExact'
  BY <1>1 DEF RefusedOK, SequenceOK, ColumnsExact, Counting
<1> QED BY <1>3, <1>4, <1>5, <1>6, <1>7 DEF DefinitionInv

LEMMA AddKeyStep == DefinitionInv /\ AddKey => DefinitionInv'
<1> SUFFICES ASSUME DefinitionInv, AddKey PROVE DefinitionInv'
  OBVIOUS
<1>1. PICK name \in NamesSoFar :
        ~IsKey(name) /\ primary' = [primary EXCEPT !.keys = Append(@, name)]
  BY DEF AddKey
<1>2. /\ at = "key" /\ at' = "key" /\ columns' = columns /\ DefinitionTypeOK
      /\ primary.declared = "table"
  BY DEF DefinitionInv, DefinitionStagesKept, AddKey
<1>3. name \in ColumnNames /\ primary.keys \in Seq(ColumnNames)
  BY <1>2, ColumnFields DEF DefinitionTypeOK, NamesSoFar
<1>4. /\ primary' = [declared |-> "table", keys |-> Append(primary.keys, name)]
      /\ NamesSoFar' = NamesSoFar
  BY <1>1, <1>2 DEF DefinitionTypeOK, NamesSoFar
<1>5. DefinitionTypeOK'
  BY <1>2, <1>3, <1>4 DEF DefinitionTypeOK
<1>6. DistinctNames'
  <2> DEFINE longer == Append(primary.keys, name)
             n == Len(primary.keys)
  <2>1. /\ n \in Nat /\ DOMAIN longer = 1..(n + 1) /\ longer[n + 1] = name
        /\ DOMAIN primary.keys = 1..n
        /\ \A i \in 1..n : longer[i] = primary.keys[i]
    BY <1>3
  <2>2. \A i \in 1..n : primary.keys[i] # name
    BY <1>1, <2>1 DEF IsKey
  <2>3. \A i, k \in 1..n : primary.keys[i] = primary.keys[k] => i = k
    BY <2>1 DEF DefinitionInv, DistinctNames
  <2>4. \A i \in 1..n : primary.keys[i] \in NamesSoFar
    BY <2>1 DEF DefinitionInv, DistinctNames
  <2> HIDE DEF longer, n
  <2>5. \A i, k \in DOMAIN longer : longer[i] = longer[k] => i = k
    <3> SUFFICES ASSUME NEW i \in 1..(n + 1), NEW k \in 1..(n + 1), longer[i] = longer[k]
                 PROVE  i = k
      BY <2>1
    <3>1. i \in 1..n \/ i = n + 1
      BY <2>1
    <3>2. k \in 1..n \/ k = n + 1
      BY <2>1
    <3> QED BY <2>1, <2>2, <2>3, <3>1, <3>2
  <2>6. \A i \in DOMAIN longer : longer[i] \in NamesSoFar
    <3> SUFFICES ASSUME NEW i \in 1..(n + 1) PROVE longer[i] \in NamesSoFar
      BY <2>1
    <3>1. i \in 1..n \/ i = n + 1
      BY <2>1
    <3> QED BY <1>1, <2>1, <2>4, <3>1
  <2>7. primary'.keys = longer
    BY <1>4 DEF longer
  <2> QED BY <1>2, <1>4, <2>5, <2>6, <2>7 DEF DefinitionInv, DistinctNames
<1>7. DefinitionStagesKept'
  BY <1>2, <1>4 DEF DefinitionStagesKept, DefinitionEarly, Counting
<1>8. PrimaryOK'
  BY <1>2, <1>4 DEF DefinitionInv, PrimaryOK
<1>9. NullityOK' /\ DefaultOK'
  BY <1>2 DEF DefinitionInv, NullityOK, DefaultOK, DefinitionSettled
<1>10. RefusedOK' /\ SequenceOK' /\ ColumnsExact'
  BY <1>2 DEF RefusedOK, SequenceOK, ColumnsExact, Counting
<1> QED BY <1>5, <1>6, <1>7, <1>8, <1>9, <1>10 DEF DefinitionInv

LEMMA EndKeyStep == DefinitionInv /\ EndKey => DefinitionInv'
<1> SUFFICES ASSUME DefinitionInv, EndKey PROVE DefinitionInv'
  OBVIOUS
<1>1. /\ at = "key" /\ at' = "table" /\ DefinitionTypeOK /\ primary' = primary
      /\ columns' = [i \in DOMAIN columns |-> Keyed(columns[i])]
  BY DEF DefinitionInv, EndKey, Move
<1>2. \A name : IsKey(name)' <=> IsKey(name)
  BY <1>1 DEF IsKey
<1>3. \A i \in DOMAIN columns :
        /\ Keyed(columns[i]) \in Column /\ Keyed(columns[i]).name = columns[i].name
        /\ Keyed(columns[i]).default = columns[i].default
        /\ Keyed(columns[i]).constraints = columns[i].constraints
        /\ Keyed(columns[i]).nullable <=> columns[i].nullable /\ ~IsKey(columns[i].name)
  <2> SUFFICES ASSUME NEW c \in Column
               PROVE  /\ Keyed(c) \in Column /\ Keyed(c).name = c.name
                      /\ Keyed(c).default = c.default /\ Keyed(c).constraints = c.constraints
                      /\ Keyed(c).nullable <=> c.nullable /\ ~IsKey(c.name)
    BY <1>1 DEF DefinitionTypeOK
  <2>1. PICK b \in BOOLEAN : b = (c.nullable /\ ~IsKey(c.name))
    OBVIOUS
  <2>2. Keyed(c) = [c EXCEPT !.nullable = b]
    BY <2>1 DEF Keyed
  <2>3. /\ Keyed(c) \in Column /\ Keyed(c).name = c.name
        /\ Keyed(c).default = c.default /\ Keyed(c).constraints = c.constraints
        /\ Keyed(c).nullable = b
    BY <2>2 DEF Column
  <2> QED BY <2>1, <2>3
<1>4. /\ columns' \in Seq(Column) /\ DOMAIN columns' = DOMAIN columns
      /\ \A i \in DOMAIN columns : columns'[i] = Keyed(columns[i])
  BY <1>1, <1>3 DEF DefinitionTypeOK
<1>5. /\ NamesSoFar' = NamesSoFar
      /\ \A i \in DOMAIN columns :
            /\ columns'[i].name = columns[i].name
            /\ columns'[i].default = columns[i].default
            /\ columns'[i].constraints = columns[i].constraints
            /\ columns'[i].nullable <=> columns[i].nullable /\ ~IsKey(columns[i].name)
  BY <1>3, <1>4 DEF NamesSoFar
<1>6. DefinitionTypeOK' /\ DistinctNames'
  BY <1>1, <1>4, <1>5 DEF DefinitionInv, DefinitionTypeOK, DefinitionStages, DistinctNames
<1>7. DefinitionStagesKept'
  BY <1>1 DEF DefinitionInv, DefinitionStagesKept, DefinitionEarly, Counting
<1>8. PrimaryOK'
  BY <1>1, <1>2, <1>4, <1>5 DEF DefinitionInv, PrimaryOK
<1>9. NullityOK'
  BY <1>1, <1>2, <1>4, <1>5 DEF DefinitionInv, NullityOK, DefinitionSettled
<1>10. DefaultOK'
  BY <1>1, <1>4, <1>5 DEF DefinitionInv, DefaultOK, DefinitionSettled, Counting, Explicit
<1>11. RefusedOK' /\ SequenceOK' /\ ColumnsExact'
  BY <1>1 DEF RefusedOK, SequenceOK, ColumnsExact, Counting
<1> QED BY <1>6, <1>7, <1>8, <1>9, <1>10, <1>11 DEF DefinitionInv

LEMMA EndDefinitionStep == DefinitionInv /\ EndDefinition => DefinitionInv'
<1> SUFFICES ASSUME DefinitionInv, EndDefinition PROVE DefinitionInv'
  OBVIOUS
<1>1. /\ at = "table" /\ at' = "done" /\ DefinitionTypeOK /\ primary' = primary
      /\ columns' = [i \in DOMAIN columns |-> Filled(columns[i])]
  BY DEF DefinitionInv, EndDefinition, Move
<1>2. \A name : IsKey(name)' <=> IsKey(name)
  BY <1>1 DEF IsKey
<1>3. \A c \in Column :
        /\ Filled(c) \in Column /\ Filled(c).name = c.name /\ Filled(c).nullable = c.nullable
        /\ Filled(c).constraints = c.constraints
        /\ Filled(c).default = IF c.nullable /\ c.default = "none" THEN "null" ELSE c.default
  BY DEF Filled, Column, ColumnDefaults
<1>4. /\ columns' \in Seq(Column) /\ DOMAIN columns' = DOMAIN columns
      /\ \A i \in DOMAIN columns : columns'[i] = Filled(columns[i]) /\ columns[i] \in Column
  BY <1>1, <1>3 DEF DefinitionTypeOK
<1>5. /\ NamesSoFar' = NamesSoFar
      /\ \A i \in DOMAIN columns :
            /\ columns'[i].name = columns[i].name
            /\ columns'[i].nullable = columns[i].nullable
            /\ columns'[i].constraints = columns[i].constraints
            /\ columns'[i].default =
                  IF columns[i].nullable /\ columns[i].default = "none"
                  THEN "null" ELSE columns[i].default
  BY <1>3, <1>4 DEF NamesSoFar
<1>6. DefinitionTypeOK' /\ DistinctNames'
  BY <1>1, <1>4, <1>5 DEF DefinitionInv, DefinitionTypeOK, DefinitionStages, DistinctNames
<1>7. DefinitionStagesKept'
  BY <1>1 DEF DefinitionInv, DefinitionStagesKept, DefinitionEarly, Counting
<1>8. PrimaryOK'
  BY <1>1, <1>2, <1>4, <1>5 DEF DefinitionInv, PrimaryOK
<1>9. NullityOK'
  BY <1>1, <1>2, <1>4, <1>5 DEF DefinitionInv, NullityOK, DefinitionSettled
<1>10. ColumnsExact'
  <2>1. \A i \in DOMAIN columns :
          /\ columns[i].default # "null"
          /\ columns[i].default = "none" <=> ~Explicit(columns[i])
    BY <1>1 DEF DefinitionInv, DefaultOK, DefinitionSettled, Counting
  <2>2. \A i \in DOMAIN columns : Explicit(columns'[i]) <=> Explicit(columns[i])
    BY <1>5 DEF Explicit
  <2>3. \A i \in DOMAIN columns :
          columns'[i].nullable <=>
             columns'[i].constraints["not_null"] = 0 /\ ~IsKey(columns'[i].name)
    BY <1>1, <1>2, <1>4, <1>9 DEF NullityOK, DefinitionSettled
  <2>4. \A i \in DOMAIN columns :
          /\ columns'[i].default = "null" <=> columns'[i].nullable /\ ~Explicit(columns'[i])
          /\ columns'[i].default = "none" <=> ~columns'[i].nullable /\ ~Explicit(columns'[i])
    BY <1>5, <2>1, <2>2
  <2> QED BY <1>2, <1>4, <2>3, <2>4 DEF ColumnsExact, ColumnExact
<1>11. DefaultOK' /\ RefusedOK' /\ SequenceOK'
  BY <1>1 DEF DefaultOK, RefusedOK, SequenceOK, Counting
<1> QED BY <1>6, <1>7, <1>8, <1>9, <1>10, <1>11 DEF DefinitionInv

(***************************************************************************)
(* The invariant holds in every state of a definition.                     *)
(***************************************************************************)
LEMMA DefinitionInitially == DefinitionInit => DefinitionInv
<1> SUFFICES ASSUME DefinitionInit PROVE DefinitionInv
  OBVIOUS
<1>1. /\ at = "start" /\ columns = <<>> /\ primary = [declared |-> "no", keys |-> <<>>]
  BY DEF DefinitionInit
<1>2. DefinitionTypeOK /\ DistinctNames
  BY <1>1 DEF DefinitionTypeOK, DefinitionStages, DistinctNames
<1>3. DefinitionStagesKept /\ PrimaryOK /\ NullityOK /\ DefaultOK
  BY <1>1 DEF DefinitionStagesKept, PrimaryOK, NullityOK, DefaultOK, Counting
<1>4. RefusedOK /\ SequenceOK /\ ColumnsExact
  BY <1>1 DEF RefusedOK, SequenceOK, ColumnsExact, Counting
<1> QED BY <1>2, <1>3, <1>4 DEF DefinitionInv

LEMMA DefinitionInductive == DefinitionInv /\ [DefinitionNext]_definitionVars => DefinitionInv'
<1>1. DefinitionInv /\ ColumnNext => DefinitionInv'
  BY DefinitionQuietSteps, DefinitionFailSteps, AddColumnStep, PrimaryKeyColumnStep, NullColumnStep,
     NotNullColumnStep, RefuseConstraintStep, EndDefaultNumberStep, DefaultValueStep
     DEF ColumnNext
<1>2. DefinitionInv /\ SequenceNext => DefinitionInv'
  BY IdentityStep, DefinitionFailSteps, ReadIncrementStep, LimitSteps, InitialSteps, CheckRangeStep,
     EndSequenceStep DEF SequenceNext
<1>3. DefinitionInv /\ KeyNext => DefinitionInv'
  BY DefinitionQuietSteps, DefinitionFailSteps, TableKeyStep, AddKeyStep, EndKeyStep, EndDefinitionStep
    DEF KeyNext
<1> QED BY <1>1, <1>2, <1>3, DefinitionUnchanged DEF DefinitionNext

LEMMA DefinitionInvariance == DefinitionSpec => []DefinitionInv
  BY DefinitionInitially, DefinitionInductive, PTL DEF DefinitionSpec

(* A column is a key of at most one primary key constraint.                *)
LEMMA DefinitionIsExact == DefinitionInv => ConstraintsExact
<1> SUFFICES ASSUME DefinitionInv, at # "refused" PROVE ~AnyRestricted
  BY DEF ConstraintsExact, DefinitionInv, RefusedOK
<1>1. \A i \in DOMAIN columns : ~Restricted(columns[i].constraints)
  BY DEF DefinitionInv, PrimaryOK
<1>2. ASSUME NEW i \in PrimaryColumns, NEW k \in PrimaryColumns
      PROVE  i = k
  <2>1. i \in DOMAIN columns /\ k \in DOMAIN columns
    BY DEF PrimaryColumns
  <2>2. primary.declared = "column" /\ IsKey(columns[i].name) /\ IsKey(columns[k].name)
    BY <2>1 DEF PrimaryColumns, DefinitionInv, PrimaryOK
  <2>3. DOMAIN primary.keys = {1}
    BY <2>2 DEF DefinitionInv, DefinitionStagesKept, DefinitionTypeOK
  <2>4. columns[i].name = columns[k].name
    BY <2>2, <2>3 DEF IsKey
  <2> QED BY <2>1, <2>4 DEF DefinitionInv, DistinctNames
<1> QED BY <1>1, <1>2 DEF AnyRestricted

LEMMA KeysNotNull == DefinitionInv => KeyColumns
<1> SUFFICES ASSUME DefinitionInv, at \notin {"key", "failed"},
                    NEW i \in DOMAIN columns, IsKey(columns[i].name)
             PROVE  ~columns[i].nullable
  BY DEF KeyColumns, DefinitionInv, DistinctNames
<1>1. CASE at = "refused"
  BY <1>1 DEF DefinitionInv, RefusedOK
<1>2. CASE at # "refused"
  BY <1>2 DEF DefinitionInv, NullityOK, DefinitionSettled
<1> QED BY <1>1, <1>2

LEMMA SequenceWithin == DefinitionInv => SequenceExact
<1> SUFFICES ASSUME DefinitionInv, at = "sequence" PROVE SequenceExact
  BY DEF SequenceExact
<1> QED BY DEF DefinitionInv, SequenceOK, Counting, SequenceExact, StartsAtEnd, InRange, Sequence

(***************************************************************************)
(* CREATE TABLE refuses exactly the combinations of constraints that the   *)
(* note in the loop over them lists, in whatever order they are written.   *)
(***************************************************************************)
THEOREM Constraints == DefinitionSpec => []ConstraintsExact
  BY DefinitionInvariance, DefinitionIsExact, PTL

(***************************************************************************)
(* A column of the table that is declared is nullable unless NOT NULL or a *)
(* primary key says otherwise, and has an implicit default when it is.     *)
(***************************************************************************)
THEOREM DeclaredColumns == DefinitionSpec => []ColumnsExact
<1>1. DefinitionInv => ColumnsExact
  BY DEF DefinitionInv
<1> QED BY <1>1, DefinitionInvariance, PTL

(***************************************************************************)
(* The keys of the primary index are distinct columns of the table, which  *)
(* are not nullable once the key is complete.                              *)
(***************************************************************************)
THEOREM PrimaryKeysRight == DefinitionSpec => []KeyColumns
  BY DefinitionInvariance, KeysNotNull, PTL

(***************************************************************************)
(* The sequence of an identity column counts within its limits and those   *)
(* of the type, whichever of its options are written.                      *)
(***************************************************************************)
THEOREM Sequences == DefinitionSpec => []SequenceExact
  BY DefinitionInvariance, SequenceWithin, PTL

(***************************************************************************)
(* A number is read, and a type, by one action each.                       *)
(***************************************************************************)
LEMMA ReadingAndTyping ==
    ASSUME [DefinitionNext]_definitionVars
    PROVE  /\ reading' = reading \/ reading' = Nothing \/ DefaultNumber
           /\ typing' = typing \/ typing' = Nothing \/ AnalyzeType
<1>1. CASE ColumnNext
  BY <1>1 DEF ColumnNext, BeginDefinition, AlreadyDefined, RejectDefinition, AnalyzeType, AddColumn,
     RejectColumn, NextColumn, PrimaryKeyColumn, NullColumn, NotNullColumn, RefuseConstraint, Refuse,
     RejectConstraint, DefaultNumber, EndDefaultNumber, RejectDefaultNumber, DefaultValue, Read, Abort
<1>2. CASE SequenceNext
  BY <1>2 DEF SequenceNext, Identity, RejectIdentity, ReadIncrement, NoMin, ReadMin, NoMax, ReadMax,
     NoInitial, ReadInitial, CheckRange, EndSequence, RejectSequence, SequenceStep, Read
<1>3. CASE KeyNext
  BY <1>3 DEF KeyNext, EndColumns, RejectElements, TableKey, RejectTableConstraint, AddKey, RejectKey,
     EndKey, EndDefinition, Abort
<1>4. CASE UNCHANGED definitionVars
  BY <1>4 DEF definitionVars
<1> QED BY <1>1, <1>2, <1>3, <1>4 DEF DefinitionNext

(***************************************************************************)
(* The literal of a DEFAULT clause keeps the number that was written, up to*)
(* the lowest of 64 bits, whose coefficient is none of them; its type holds*)
(* the number, and a decimal type its digits.                              *)
(***************************************************************************)
THEOREM LiteralsRight == DefinitionSpec => []LiteralsExact
<1>1. DefinitionInit => LiteralsExact
  BY DEF DefinitionInit, LiteralsExact
<1>2. LiteralsExact /\ [DefinitionNext]_definitionVars => LiteralsExact'
  <2> SUFFICES ASSUME LiteralsExact, [DefinitionNext]_definitionVars PROVE LiteralsExact'
    OBVIOUS
  <2>1. CASE DefaultNumber
    <3>1. PICK written \in DefaultNumbers :
              reading' = [literal |-> Fold(written), immediate |-> ExactNumeric(Fold(written))]
      BY <2>1 DEF DefaultNumber
    <3>2. KeepsNumber(Fold(written), ExactNumeric(Fold(written)))
      BY WrittenAssumption, LiteralHolds
    <3> QED BY <3>1, <3>2 DEF LiteralsExact
  <2>2. CASE reading' = reading \/ reading' = Nothing
    BY <2>2 DEF LiteralsExact
  <2> QED BY <2>1, <2>2, ReadingAndTyping
<1> QED BY <1>1, <1>2, PTL DEF DefinitionSpec

(***************************************************************************)
(* The type of a column has a length unless it varies, a precision and a   *)
(* scale that the options allow, and an integer type at least the bits that*)
(* were asked for; a length or a precision that is too large is refused.   *)
(***************************************************************************)
THEOREM TypesRight == DefinitionSpec => []TypesExact
<1>1. DefinitionInit => TypesExact
  BY DEF DefinitionInit, TypesExact
<1>2. TypesExact /\ [DefinitionNext]_definitionVars => TypesExact'
  <2> SUFFICES ASSUME TypesExact, [DefinitionNext]_definitionVars PROVE TypesExact'
    OBVIOUS
  <2>1. CASE AnalyzeType
    <3>1. PICK name \in ColumnNames, syntax \in TypeSyntaxes :
              typing' = [name |-> name, syntax |-> syntax, type |-> ColumnType(syntax)]
      BY <2>1 DEF AnalyzeType
    <3>2. HoldsRequest(syntax, ColumnType(syntax))
      BY WrittenAssumption, TypeHolds
    <3> QED BY <3>1, <3>2 DEF TypesExact
  <2>2. CASE typing' = typing \/ typing' = Nothing
    BY <2>2 DEF TypesExact
  <2> QED BY <2>1, <2>2, ReadingAndTyping
<1> QED BY <1>1, <1>2, PTL DEF DefinitionSpec

-----------------------------------------------------------------------------
(* The statements on the catalog.                                          *)

(***************************************************************************)
(* The inductive invariant: the answer belongs to its statement, it was    *)
(* found in the catalog as it is before it is interpreted, and it holds in *)
(* the catalog afterwards.                                                 *)
(***************************************************************************)
CatalogFound(sort) == answer.result.kind = sort
CatalogForm(command, result) ==
    /\ result.kind = "create_table" =>
          /\ command.op = "create_table" /\ command.table \in References(TableNames)
          /\ command.table.qualifier = Unnamed
          /\ result.table \in TableRecord
          /\ result.table.schema = DefaultSchema /\ result.table.name = command.table.name
    /\ result.kind = "create_index" =>
          /\ command.op = "create_index" /\ command.index \in References(IndexNames \cup {Unnamed})
          /\ command.index.qualifier = Unnamed
          /\ result.index \in IndexRecord /\ ~result.index.primary
          /\ result.index.schema = DefaultSchema /\ result.index.name = command.index.name
    /\ result.kind = "drop_table" => command.op = "drop_table" /\ ~command.cascade
    /\ result.kind = "drop_index" => command.op = "drop_index" /\ ~command.cascade

CatalogBefore(result) ==
    /\ result.kind = "create_table" => In(DefaultSchema, result.table.name, tables) = {}
    /\ result.kind = "create_index" =>
          result.index.name = Unnamed \/ In(DefaultSchema, result.index.name, indexes) = {}
    /\ result.kind = "drop_table" => result.target \in tables
    /\ result.kind = "drop_index" => result.target \in indexes /\ result.target.name # Unnamed
    /\ result.kind = "rename_table" =>
          result.target \in tables /\ In(result.target.schema, result.to, tables) = {}
    /\ result.kind = "rename_index" =>
          result.target \in indexes /\ In(result.target.schema, result.to, indexes) = {}

CatalogAfter(result) ==
    /\ result.kind = "create_table" => result.table \in tables
    /\ result.kind = "create_index" => result.index \in indexes
    /\ result.kind = "drop_table" => result.target \notin tables
    /\ result.kind = "drop_index" => result.target \notin indexes

Unanswered == session = "open" => answer.result = Empty /\ tables = {} /\ indexes = {}
CatalogInv ==
    /\ CatalogSound /\ Unanswered
    /\ CatalogForm(answer.command, answer.result)
    /\ session = "interpret" => CatalogBefore(answer.result)
    /\ session = "analyze" => CatalogAfter(answer.result)

(***************************************************************************)
(* Lookup.                                                                 *)
(***************************************************************************)
(* What is found has the name, and a name that is not empty.               *)
LEMMA FindNamed ==
    ASSUME NEW reference, NEW pool, NEW e \in Find(reference, pool)
    PROVE  e \in pool /\ e.name = reference.name /\ reference.name # Unnamed
<1>1. reference.name # Unnamed
  BY DEF Find
<1>2. CASE reference.qualifier # Unnamed
  BY <1>1, <1>2 DEF Find, In
<1>3. CASE reference.qualifier = Unnamed
  BY <1>1, <1>3 DEF Find, In
<1> QED BY <1>2, <1>3

(* A plain name is found when any schema of the path has it.               *)
LEMMA FindAlongPath ==
    ASSUME NEW reference, NEW pool, NEW schema \in CatalogSchemas,
           reference.name # Unnamed, reference.qualifier = Unnamed,
           In(schema, reference.name, pool) # {}
    PROVE  Find(reference, pool) # {}
<1> DEFINE having == {k \in DOMAIN SchemaPath : In(SchemaPath[k], reference.name, pool) # {}}
<1>1. DOMAIN SchemaPath = 1..Len(SchemaPath) /\ Len(SchemaPath) \in Nat
  BY CatalogAssumption
<1>2. having \in SUBSET Nat /\ having # {}
  <2>1. PICK k \in DOMAIN SchemaPath : SchemaPath[k] = schema
    BY DEF CatalogSchemas
  <2>2. k \in having
    BY <2>1
  <2>3. having \subseteq Nat
    BY <1>1
  <2> QED BY <2>2, <2>3
<1>3. PICK i \in having : \A k \in having : i <= k
  <2> HIDE DEF having
  <2> QED BY <1>2, LeastNatural
<1>4. ASSUME NEW j \in 1..(i - 1) PROVE In(SchemaPath[j], reference.name, pool) = {}
  <2>1. j \in DOMAIN SchemaPath /\ ~(i <= j)
    BY <1>1, <1>3
  <2> QED BY <1>3, <2>1
<1>5. PICK e : e \in In(SchemaPath[i], reference.name, pool)
  BY <1>3
<1>6. e \in Find(reference, pool)
  BY <1>3, <1>4, <1>5 DEF Find
<1> QED BY <1>6

(***************************************************************************)
(* The analysis.                                                           *)
(***************************************************************************)
LEMMA CreateTableAnswer ==
    ASSUME CatalogSound, NEW command \in Commands("create_table")
    PROVE  CatalogForm(command, Analysis(command)) /\ CatalogBefore(Analysis(command))
<1>1. command.op = "create_table" /\ command.table \in References(TableNames)
      /\ command.columns \in TableColumnSets
  BY DEF Commands
<1>2. Analysis(command) = CreateTable(command)
  BY <1>1 DEF Analysis
<1>3. CASE CreateTable(command).kind # "create_table"
  <2>1. CreateTable(command).kind \in {"error", "empty"}
    BY <1>3 DEF CreateTable, Conditional, Error, Empty
  <2> QED BY <1>2, <2>1 DEF CatalogForm, CatalogBefore
<1>4. CASE CreateTable(command).kind = "create_table"
  <2>1. /\ Find(command.table, tables) = {} /\ command.table.qualifier = Unnamed
        /\ CreateTable(command) =
             [kind |-> "create_table",
              table |-> [schema |-> DefaultSchema, name |-> command.table.name,
                         columns |-> command.columns]]
    BY <1>4 DEF CreateTable, Conditional, Error, Empty
  <2>2. command.table.name \in TableNames /\ command.table.name # Unnamed
    BY <1>1, CatalogAssumption DEF References
  <2>3. In(DefaultSchema, command.table.name, tables) = {}
    BY <2>1, <2>2, FindAlongPath, CatalogAssumption
  <2>4. CreateTable(command).table \in TableRecord
    BY <1>1, <2>1, <2>2, CatalogAssumption DEF TableRecord
  <2> QED BY <1>1, <1>2, <2>1, <2>3, <2>4 DEF CatalogForm, CatalogBefore
<1> QED BY <1>3, <1>4

LEMMA CreateIndexAnswer ==
    ASSUME CatalogSound, NEW command \in Commands("create_index")
    PROVE  CatalogForm(command, Analysis(command)) /\ CatalogBefore(Analysis(command))
<1>1. command.op = "create_index" /\ command.index \in References(IndexNames \cup {Unnamed})
  BY DEF Commands
<1>2. Analysis(command) = CreateIndex(command)
  BY <1>1 DEF Analysis
<1>3. CASE CreateIndex(command).kind # "create_index"
  <2>1. CreateIndex(command).kind \in {"error", "empty"}
    BY <1>3 DEF CreateIndex, Conditional, Error, Empty
  <2> QED BY <1>2, <2>1 DEF CatalogForm, CatalogBefore
<1>4. CASE CreateIndex(command).kind = "create_index"
  <2> DEFINE found == Find(command.table, tables)
  <2>1. /\ Find(command.index, indexes) = {} /\ command.index.qualifier = Unnamed
        /\ found # {}
        /\ CreateIndex(command) =
             [kind |-> "create_index",
              index |-> [schema |-> DefaultSchema, name |-> command.index.name,
                         table |-> CHOOSE table \in found : TRUE, primary |-> FALSE]]
    BY <1>4 DEF CreateIndex, Conditional, Error, Empty
  <2>2. (CHOOSE table \in found : TRUE) \in TableRecord
    <3>1. (CHOOSE table \in found : TRUE) \in found
      BY <2>1
    <3> QED BY <3>1, FindNamed DEF CatalogSound, CatalogTypeOK
  <2>3. command.index.name \in IndexNames \cup {Unnamed}
    BY <1>1 DEF References
  <2>4. command.index.name = Unnamed \/ In(DefaultSchema, command.index.name, indexes) = {}
    BY <2>1, FindAlongPath, CatalogAssumption
  <2>5. CreateIndex(command).index \in IndexRecord
    BY <2>1, <2>2, <2>3, CatalogAssumption DEF IndexRecord
  <2> QED BY <1>1, <1>2, <2>1, <2>4, <2>5 DEF CatalogForm, CatalogBefore
<1> QED BY <1>3, <1>4

LEMMA DropAnswer ==
    ASSUME NEW op \in {"drop_table", "drop_index"}, NEW command \in Commands(op)
    PROVE  CatalogForm(command, Analysis(command)) /\ CatalogBefore(Analysis(command))
<1> DEFINE found == IF op = "drop_table" THEN Find(command.table, tables)
                                         ELSE Find(command.index, indexes)
<1>1. command.op = op
  BY DEF Commands
<1>2. Analysis(command) = Drop(command, found, op)
  BY <1>1 DEF Analysis
<1>3. CASE Drop(command, found, op).kind # op
  <2>1. Drop(command, found, op).kind \in {"error", "empty"}
    BY <1>3 DEF Drop, Conditional, Error, Empty
  <2> QED BY <1>2, <2>1 DEF CatalogForm, CatalogBefore
<1>4. CASE Drop(command, found, op).kind = op
  <2>1. /\ ~command.cascade /\ found # {}
        /\ Drop(command, found, op) = [kind |-> op, target |-> CHOOSE element \in found : TRUE]
    BY <1>4 DEF Drop, Conditional, Error, Empty
  <2>2. Drop(command, found, op).target \in found
    BY <2>1
  <2>3. /\ op = "drop_table" => Drop(command, found, op).target \in tables
        /\ op = "drop_index" => /\ Drop(command, found, op).target \in indexes
                                /\ Drop(command, found, op).target.name # Unnamed
    BY <2>2, FindNamed
  <2> QED BY <1>1, <1>2, <2>1, <2>3 DEF CatalogForm, CatalogBefore
<1> QED BY <1>3, <1>4

LEMMA RenameAnswer ==
    ASSUME NEW op \in {"rename_table", "rename_index"}, NEW command \in Commands(op)
    PROVE  CatalogForm(command, Analysis(command)) /\ CatalogBefore(Analysis(command))
<1> DEFINE pool == IF op = "rename_table" THEN tables ELSE indexes
           found == IF op = "rename_table" THEN Find(command.table, tables)
                                           ELSE Find(command.index, indexes)
           addressed == CHOOSE element \in found : TRUE
<1>1. command.op = op
  BY DEF Commands
<1>2. \/ Analysis(command).kind \in {"error", "empty"}
      \/ found # {} /\ Analysis(command) = Rename(addressed, command.to, pool, op)
  BY <1>1 DEF Analysis, RenameTable, RenameIndex, Conditional, Error, Empty
<1>3. CASE Analysis(command).kind \in {"error", "empty"}
  BY <1>3 DEF CatalogForm, CatalogBefore
<1>4. CASE Analysis(command).kind \notin {"error", "empty"}
  <2>1. found # {} /\ ~Taken(addressed, command.to, pool)
        /\ Analysis(command) = [kind |-> op, target |-> addressed, to |-> command.to]
    BY <1>2, <1>4 DEF Rename, Error
  <2>2. addressed \in pool
    <3>1. addressed \in found
      BY <2>1
    <3> QED BY <3>1, FindNamed
  <2>3. In(addressed.schema, command.to, pool) = {}
    BY <2>1 DEF Taken
  <2> HIDE DEF addressed
  <2> QED BY <2>1, <2>2, <2>3 DEF CatalogForm, CatalogBefore
<1> QED BY <1>3, <1>4

LEMMA OtherAnswer ==
    ASSUME NEW op \in {"rename_column", "truncate"}, NEW command \in Commands(op)
    PROVE  CatalogForm(command, Analysis(command)) /\ CatalogBefore(Analysis(command))
<1>1. command.op = op
  BY DEF Commands
<1>2. Analysis(command).kind \in {"error", "empty", "rename_column", "truncate"}
  BY <1>1 DEF Analysis, RenameColumn, Truncate, Conditional, Error, Empty
<1> QED BY <1>2 DEF CatalogForm, CatalogBefore

(***************************************************************************)
(* The steps.                                                              *)
(***************************************************************************)
(* What is unique stays unique among fewer elements.                       *)
LEMMA FewerElements ==
    ASSUME NEW S, NEW T \in SUBSET S
    PROVE  /\ UniqueNames(S) => UniqueNames(T)
           /\ UniquePrimaries(S) => UniquePrimaries(T)
BY DEF UniqueNames, UniquePrimaries, Primaries

(* With unique names, removing by name removes one index.                  *)
LEMMA RemovesOne ==
    ASSUME UniqueNames(indexes), NEW index \in indexes
    PROVE  Removed(index) = {index}
BY DEF UniqueNames, Removed, In

LEMMA OpenStep == CatalogInv /\ Open => CatalogInv'
<1> SUFFICES ASSUME CatalogInv, Open PROVE CatalogInv'
  OBVIOUS
<1> USE DEF CatalogInv, Open
<1>1. PICK catalog \in InitialCatalogs : tables' = catalog.tables /\ indexes' = catalog.indexes
  OBVIOUS
<1>2. /\ catalog.tables \in SUBSET TableRecord /\ UniqueNames(catalog.tables)
      /\ catalog.indexes \in SUBSET IndexRecord /\ UniqueNames(catalog.indexes)
      /\ HavePrimary(catalog.indexes) = catalog.tables /\ UniquePrimaries(catalog.indexes)
  BY InitialAssumption
<1>3. CatalogTypeOK'
  BY <1>1, <1>2 DEF CatalogSound, CatalogTypeOK
<1>4. UniqueNames(tables)' /\ UniqueNames(indexes)' /\ UniquePrimaries(indexes)'
  BY <1>1, <1>2 DEF UniqueNames, UniquePrimaries, Primaries
<1>5. HavePrimary(indexes)' \subseteq tables'
  BY <1>1, <1>2 DEF HavePrimary, Primaries
<1>6. CatalogSound'
  BY <1>3, <1>4, <1>5 DEF CatalogSound
<1>7. CatalogForm(answer.command, answer.result)' /\ CatalogAfter(answer.result)'
  BY DEF Unanswered, Empty, CatalogForm, CatalogAfter
<1> QED BY <1>6, <1>7 DEF Unanswered

LEMMA AnalyzeStep ==
    ASSUME CatalogInv, NEW op \in {"create_table", "create_index", "rename_table", "rename_index",
                            "rename_column", "drop_table", "drop_index", "truncate"},
           Analyze(op)
    PROVE  CatalogInv'
<1>1. PICK command \in Commands(op) :
        /\ answer' = [command |-> command, result |-> Analysis(command)]
        /\ session' = IF Analysis(command) = Error THEN "ended" ELSE "interpret"
  BY DEF Analyze
<1>2. CatalogForm(command, Analysis(command)) /\ CatalogBefore(Analysis(command))
  <2>1. CASE op = "create_table"
    BY <2>1, CreateTableAnswer DEF CatalogInv
  <2>2. CASE op = "create_index"
    BY <2>2, CreateIndexAnswer DEF CatalogInv
  <2>3. CASE op \in {"drop_table", "drop_index"}
    BY <2>3, DropAnswer
  <2>4. CASE op \in {"rename_table", "rename_index"}
    BY <2>4, RenameAnswer
  <2>5. CASE op \in {"rename_column", "truncate"}
    BY <2>5, OtherAnswer
  <2> QED BY <2>1, <2>2, <2>3, <2>4, <2>5
<1>3. UNCHANGED <<tables, indexes>> /\ statements' \in 0..MaxStatements
  BY CatalogAssumption DEF Analyze, CatalogInv, CatalogSound, CatalogTypeOK
<1>4. CatalogSound'
  BY <1>1, <1>3 DEF CatalogInv, CatalogSound, CatalogTypeOK, UniqueNames, UniquePrimaries,
                    HavePrimary, Primaries
<1>5. CatalogForm(answer.command, answer.result)'
  BY <1>1, <1>2 DEF CatalogForm
<1>6. CatalogBefore(answer.result)'
  <2>1. answer'.result = Analysis(command)
    BY <1>1
  <2> QED BY <1>2, <1>3, <2>1 DEF CatalogBefore, In
<1> QED BY <1>1, <1>4, <1>5, <1>6 DEF CatalogInv, Unanswered

LEMMA InterpretCreateTableStep == CatalogInv /\ InterpretCreateTable => CatalogInv' /\ CatalogStep
<1> SUFFICES ASSUME CatalogInv, InterpretCreateTable PROVE CatalogInv' /\ CatalogStep
  OBVIOUS
<1> DEFINE table == answer.result.table
<1>1. /\ session = "interpret" /\ session' = "analyze" /\ CatalogFound("create_table")
      /\ UNCHANGED <<answer, statements>>
      /\ tables' = (tables \ In(table.schema, table.name, tables)) \cup {table}
      /\ indexes' = indexes \cup {PrimaryOf(table)}
  BY DEF InterpretCreateTable, Interpreting, CatalogFound
<1>2. /\ table \in TableRecord /\ table.schema = DefaultSchema
      /\ In(DefaultSchema, table.name, tables) = {}
  BY <1>1 DEF CatalogInv, CatalogForm, CatalogBefore, CatalogFound
<1>3. tables' = tables \cup {table}
  BY <1>1, <1>2
<1>4. /\ PrimaryOf(table) \in IndexRecord /\ PrimaryOf(table).primary
      /\ PrimaryOf(table).name = Unnamed /\ PrimaryOf(table).table = table
      /\ PrimaryOf(table).schema = table.schema
  BY <1>2 DEF PrimaryOf, TableRecord, IndexRecord
<1> HIDE DEF table
<1>5. CatalogTypeOK'
  BY <1>1, <1>2, <1>3, <1>4 DEF CatalogInv, CatalogSound, CatalogTypeOK
<1>6. UniqueNames(tables)'
  BY <1>2, <1>3 DEF CatalogInv, CatalogSound, UniqueNames, In
<1>7. UniqueNames(indexes)'
  BY <1>1, <1>4 DEF CatalogInv, CatalogSound, UniqueNames
<1>8. HavePrimary(indexes)' = HavePrimary(indexes) \cup {table}
  BY <1>1, <1>4 DEF HavePrimary, Primaries
<1>9. UniquePrimaries(indexes)'
  <2>1. \A i \in Primaries(indexes) : i.table # table
    BY <1>2 DEF CatalogInv, CatalogSound, HavePrimary, In
  <2>2. UniquePrimaries(indexes)
    BY DEF CatalogInv, CatalogSound
  <2> QED BY <1>1, <1>4, <2>1, <2>2 DEF UniquePrimaries, Primaries
<1>10. CatalogForm(answer.command, answer.result)' /\ CatalogAfter(answer.result)'
  BY <1>1, <1>3 DEF CatalogInv, CatalogForm, CatalogAfter, CatalogFound, table
<1>11. CatalogStep
  <2>1. Bare' \subseteq Bare
    BY <1>3, <1>8 DEF Bare
  <2> QED BY <1>1, <1>3, <2>1 DEF CatalogStep, CatalogFound
<1> QED BY <1>1, <1>3, <1>5, <1>6, <1>7, <1>8, <1>9, <1>10, <1>11 DEF CatalogInv, CatalogSound, Unanswered

LEMMA InterpretCreateIndexStep == CatalogInv /\ InterpretCreateIndex => CatalogInv' /\ CatalogStep
<1> SUFFICES ASSUME CatalogInv, InterpretCreateIndex PROVE CatalogInv' /\ CatalogStep
  OBVIOUS
<1> DEFINE index == answer.result.index
<1>1. /\ session = "interpret" /\ session' = "analyze" /\ CatalogFound("create_index")
      /\ UNCHANGED <<tables, answer, statements>>
      /\ indexes' = indexes \cup {index}
  BY DEF InterpretCreateIndex, Interpreting, CatalogFound
<1>2. /\ index \in IndexRecord /\ ~index.primary /\ index.schema = DefaultSchema
      /\ index.name = Unnamed \/ In(DefaultSchema, index.name, indexes) = {}
  BY <1>1 DEF CatalogInv, CatalogForm, CatalogBefore, CatalogFound
<1> HIDE DEF index
<1>3. CatalogTypeOK'
  BY <1>1, <1>2 DEF CatalogInv, CatalogSound, CatalogTypeOK
<1>4. UniqueNames(tables)'
  BY <1>1 DEF CatalogInv, CatalogSound, UniqueNames
<1>5. UniqueNames(indexes)'
  BY <1>1, <1>2 DEF CatalogInv, CatalogSound, UniqueNames, In
<1>6. Primaries(indexes)' = Primaries(indexes) /\ tables' = tables
  BY <1>1, <1>2 DEF Primaries
<1>7. HavePrimary(indexes)' = HavePrimary(indexes)
  BY <1>6 DEF HavePrimary
<1>8. UniquePrimaries(indexes)'
  BY <1>6 DEF CatalogInv, CatalogSound, UniquePrimaries
<1>9. CatalogForm(answer.command, answer.result)' /\ CatalogAfter(answer.result)'
  BY <1>1 DEF CatalogInv, CatalogForm, CatalogAfter, CatalogFound, index
<1>10. CatalogStep
  BY <1>1, <1>6, <1>7 DEF CatalogStep, CatalogFound, Bare
<1> QED BY <1>1, <1>3, <1>4, <1>5, <1>6, <1>7, <1>8, <1>9, <1>10 DEF CatalogInv, CatalogSound, Unanswered

LEMMA InterpretDropTableStep == CatalogInv /\ InterpretDropTable => CatalogInv' /\ CatalogStep
<1> SUFFICES ASSUME CatalogInv, InterpretDropTable PROVE CatalogInv' /\ CatalogStep
  OBVIOUS
<1> DEFINE addressed == answer.result.target
<1>1. /\ session = "interpret" /\ session' = "analyze" /\ CatalogFound("drop_table")
      /\ UNCHANGED <<answer, statements>>
      /\ tables' = tables \ In(addressed.schema, addressed.name, tables)
      /\ indexes' = indexes \ Dropped(addressed)
  BY DEF InterpretDropTable, Interpreting, CatalogFound
<1>2. addressed \in tables
  BY <1>1 DEF CatalogInv, CatalogBefore, CatalogFound
<1>3. tables' = tables \ {addressed}
  <2>1. addressed.name # Unnamed
    BY <1>2, CatalogAssumption DEF CatalogInv, CatalogSound, CatalogTypeOK, TableRecord
  <2> QED BY <1>1, <1>2, <2>1 DEF CatalogInv, CatalogSound, UniqueNames, In
<1>4. Dropped(addressed) = {i \in Primaries(indexes) : i.table = addressed}
  <2>1. \A i \in Primaries(indexes) : Removed(i) = {i}
    BY RemovesOne DEF CatalogInv, CatalogSound, Primaries
  <2> QED BY <2>1 DEF Dropped
<1> HIDE DEF addressed
<1>5. CatalogTypeOK'
  BY <1>1 DEF CatalogInv, CatalogSound, CatalogTypeOK
<1>6. UniqueNames(tables)' /\ UniqueNames(indexes)' /\ UniquePrimaries(indexes)'
  BY <1>1, FewerElements DEF CatalogInv, CatalogSound
<1>7. HavePrimary(indexes)' = HavePrimary(indexes) \ {addressed}
  BY <1>1, <1>4 DEF HavePrimary, Primaries
<1>8. CatalogForm(answer.command, answer.result)' /\ CatalogAfter(answer.result)'
  BY <1>1, <1>3 DEF CatalogInv, CatalogForm, CatalogAfter, CatalogFound, addressed
<1>9. CatalogStep
  <2>1. Bare' \subseteq Bare
    BY <1>3, <1>7 DEF Bare
  <2>2. tables \ tables' \subseteq {addressed}
    BY <1>3
  <2>3. \A index \in indexes \ indexes' : index.primary /\ index.table = addressed
    BY <1>1, <1>4 DEF Primaries
  <2> QED BY <1>1, <2>1, <2>2, <2>3 DEF CatalogStep, CatalogFound, addressed
<1> QED BY <1>1, <1>3, <1>5, <1>6, <1>7, <1>8, <1>9 DEF CatalogInv, CatalogSound, Unanswered

LEMMA InterpretDropIndexStep == CatalogInv /\ InterpretDropIndex => CatalogInv' /\ CatalogStep
<1> SUFFICES ASSUME CatalogInv, InterpretDropIndex PROVE CatalogInv' /\ CatalogStep
  OBVIOUS
<1> DEFINE addressed == answer.result.target
<1>1. /\ session = "interpret" /\ session' = "analyze" /\ CatalogFound("drop_index")
      /\ UNCHANGED <<tables, answer, statements>>
      /\ indexes' = indexes \ Removed(addressed)
  BY DEF InterpretDropIndex, Interpreting, CatalogFound
<1>2. addressed \in indexes
  BY <1>1 DEF CatalogInv, CatalogBefore, CatalogFound
<1>3. indexes' = indexes \ {addressed}
  BY <1>1, <1>2, RemovesOne DEF CatalogInv, CatalogSound
<1> HIDE DEF addressed
<1>4. CatalogTypeOK'
  BY <1>1, <1>3 DEF CatalogInv, CatalogSound, CatalogTypeOK
<1>5. UniqueNames(tables)' /\ UniqueNames(indexes)' /\ UniquePrimaries(indexes)'
  BY <1>1, <1>3, FewerElements DEF CatalogInv, CatalogSound
<1>6. /\ HavePrimary(indexes)' \subseteq HavePrimary(indexes)
      /\ HavePrimary(indexes) \ HavePrimary(indexes)' \subseteq {addressed.table}
  BY <1>3 DEF HavePrimary, Primaries
<1>7. CatalogForm(answer.command, answer.result)' /\ CatalogAfter(answer.result)'
  BY <1>1, <1>3 DEF CatalogInv, CatalogForm, CatalogAfter, CatalogFound, addressed
<1>8. CatalogStep
  <2>1. Bare' \ Bare \subseteq {addressed.table}
    BY <1>1, <1>6 DEF Bare
  <2>2. tables' = tables /\ indexes \ indexes' \subseteq {addressed}
    BY <1>1, <1>3
  <2> QED BY <1>1, <2>1, <2>2 DEF CatalogStep, CatalogFound, addressed
<1> QED BY <1>1, <1>4, <1>5, <1>6, <1>7, <1>8 DEF CatalogInv, CatalogSound, Unanswered

LEMMA InterpretOtherStep == CatalogInv /\ InterpretOther => CatalogInv' /\ CatalogStep
<1> SUFFICES ASSUME CatalogInv, InterpretOther PROVE CatalogInv' /\ CatalogStep
  OBVIOUS
<1>1. /\ answer.result.kind \in {"empty", "rename_table", "rename_index", "rename_column", "truncate"}
      /\ session = "interpret" /\ session' = "analyze"
      /\ UNCHANGED <<tables, indexes, answer, statements>>
  BY DEF InterpretOther, Interpreting
<1>2. CatalogSound'
  BY <1>1 DEF CatalogInv, CatalogSound, CatalogTypeOK, UniqueNames, UniquePrimaries,
              HavePrimary, Primaries
<1>3. CatalogForm(answer.command, answer.result)' /\ CatalogAfter(answer.result)'
  BY <1>1 DEF CatalogInv, CatalogForm, CatalogAfter
<1>4. CatalogStep
  BY <1>1 DEF CatalogStep, Bare, HavePrimary, Primaries
<1> QED BY <1>1, <1>2, <1>3, <1>4 DEF CatalogInv, Unanswered

LEMMA CatalogInitially == CatalogInit => CatalogInv
<1> SUFFICES ASSUME CatalogInit PROVE CatalogInv
  OBVIOUS
<1>1. CatalogSound
  BY CatalogAssumption
  DEF CatalogInit, CatalogSound, CatalogTypeOK, UniqueNames, UniquePrimaries, HavePrimary, Primaries
<1>2. answer.result = Empty /\ CatalogForm(answer.command, answer.result)
  BY DEF CatalogInit, Empty, CatalogForm
<1> QED BY <1>1, <1>2 DEF CatalogInit, CatalogInv, Unanswered

LEMMA CatalogInductive ==
    CatalogInv /\ [CatalogNext]_catalogVars =>
        CatalogInv' /\ (session = "interpret" => CatalogStep \/ UNCHANGED catalogVars)
<1> SUFFICES ASSUME CatalogInv, [CatalogNext]_catalogVars
             PROVE  CatalogInv' /\ (session = "interpret" => CatalogStep \/ UNCHANGED catalogVars)
  OBVIOUS
<1>1. CASE Open
  BY <1>1, OpenStep DEF Open
<1>2. ASSUME NEW op \in {"create_table", "create_index", "rename_table", "rename_index",
                         "rename_column", "drop_table", "drop_index", "truncate"},
             Analyze(op)
      PROVE  CatalogInv' /\ session # "interpret"
  BY <1>2, AnalyzeStep DEF Analyze
<1>3. CASE InterpretCreateTable
  BY <1>3, InterpretCreateTableStep
<1>4. CASE InterpretCreateIndex
  BY <1>4, InterpretCreateIndexStep
<1>5. CASE InterpretDropTable
  BY <1>5, InterpretDropTableStep
<1>6. CASE InterpretDropIndex
  BY <1>6, InterpretDropIndexStep
<1>7. CASE InterpretOther
  BY <1>7, InterpretOtherStep
<1>8. CASE UNCHANGED catalogVars
  BY <1>8 DEF catalogVars, CatalogInv, CatalogSound, CatalogTypeOK, UniqueNames, UniquePrimaries,
              HavePrimary, Primaries, Unanswered, CatalogForm, CatalogBefore, CatalogAfter, In
<1> QED BY <1>1, <1>2, <1>3, <1>4, <1>5, <1>6, <1>7, <1>8 DEF CatalogNext

(***************************************************************************)
(* What the invariant says about the properties of CatalogStatements.      *)
(***************************************************************************)
LEMMA CatalogRepeats == CatalogInv => RepeatHarmless
<1> SUFFICES ASSUME CatalogInv, Repeatable PROVE
        LET again == Analysis(answer.command)
        IN  /\ CreatesNamed(answer.command) => again = Empty
            /\ answer.command.op \in {"drop_table", "drop_index"} =>
                  again.kind # "error" /\ (again # Empty => again.target # answer.result.target)
  BY DEF RepeatHarmless
<1> DEFINE command == answer.command
           result == answer.result
           again == Analysis(command)
<1>1. /\ result.kind \in {"create_table", "create_index", "drop_table", "drop_index"}
      /\ command.conditional /\ CatalogForm(command, result) /\ CatalogAfter(result)
  BY DEF CatalogInv, Repeatable
<1> HIDE DEF command, result
<1>2. CASE result.kind = "create_table"
  <2>1. /\ command.op = "create_table" /\ command.table.qualifier = Unnamed
        /\ command.table.name \in TableNames
        /\ result.table \in In(DefaultSchema, command.table.name, tables)
    BY <1>1, <1>2 DEF CatalogForm, CatalogAfter, In, References
  <2>2. Find(command.table, tables) # {}
    BY <2>1, FindAlongPath, CatalogAssumption
  <2>3. again = Empty
    BY <1>1, <2>1, <2>2 DEF Analysis, CreateTable, Conditional
  <2> QED BY <2>1, <2>3 DEF command
<1>3. CASE result.kind = "create_index"
  <2>1. /\ command.op = "create_index" /\ command.index.qualifier = Unnamed
        /\ result.index \in In(DefaultSchema, command.index.name, indexes)
    BY <1>1, <1>3 DEF CatalogForm, CatalogAfter, In
  <2>2. ASSUME CreatesNamed(command) PROVE again = Empty
    <3>1. command.index.name # Unnamed
      BY <2>1, <2>2 DEF CreatesNamed
    <3>2. Find(command.index, indexes) # {}
      BY <2>1, <3>1, FindAlongPath, CatalogAssumption
    <3> QED BY <1>1, <2>1, <3>2 DEF Analysis, CreateIndex, Conditional
  <2> QED BY <2>1, <2>2 DEF command
<1>4. CASE result.kind \in {"drop_table", "drop_index"}
  <2> DEFINE found == IF result.kind = "drop_table" THEN Find(command.table, tables)
                                                    ELSE Find(command.index, indexes)
  <2>1. command.op = result.kind /\ ~command.cascade
    BY <1>1, <1>4 DEF CatalogForm
  <2>2. again = Drop(command, found, result.kind)
    BY <1>4, <2>1 DEF Analysis
  <2>3. result.target \notin found
    BY <1>1, <1>4, FindNamed DEF CatalogAfter
  <2>4. \/ again = Empty
        \/ found # {} /\ again = [kind |-> result.kind, target |-> CHOOSE element \in found : TRUE]
    BY <1>1, <2>1, <2>2 DEF Drop, Conditional
  <2>5. again.kind # "error" /\ (again # Empty => again.target # result.target)
    BY <1>4, <2>3, <2>4 DEF Empty
  <2> QED BY <1>4, <2>1, <2>5 DEF CreatesNamed, command, result
<1> QED BY <1>1, <1>2, <1>3, <1>4

LEMMA RenamesFree == CatalogInv => RenameFree
  BY DEF CatalogInv, CatalogBefore, RenameFree, Renames, In

-----------------------------------------------------------------------------
LEMMA CatalogInvariance == CatalogSpec => []CatalogInv
<1>1. CatalogInv /\ [CatalogNext]_catalogVars => CatalogInv'
  BY CatalogInductive
<1> QED BY <1>1, CatalogInitially, PTL DEF CatalogSpec

(***************************************************************************)
(* The names of every schema are unique, every table has a primary index,  *)
(* and every primary index a table, in any session.                        *)
(***************************************************************************)
THEOREM CatalogStaysSound == CatalogSpec => []CatalogSound
<1>1. CatalogInv => CatalogSound
  BY DEF CatalogInv
<1> QED BY <1>1, CatalogInvariance, PTL

(***************************************************************************)
(* A statement with IF EXISTS or IF NOT EXISTS can be repeated.            *)
(***************************************************************************)
THEOREM Repeatability == CatalogSpec => []RepeatHarmless
  BY CatalogRepeats, CatalogInvariance, PTL

(***************************************************************************)
(* A new name is free in the schema of the element that is renamed.        *)
(***************************************************************************)
THEOREM FreeNames == CatalogSpec => []RenameFree
  BY RenamesFree, CatalogInvariance, PTL

(***************************************************************************)
(* Interpreting a statement takes nothing else from the catalog.           *)
(***************************************************************************)
THEOREM CatalogChangesExact == CatalogSpec => CatalogSteps
<1>1. CatalogInv /\ [CatalogNext]_catalogVars => [session = "interpret" => CatalogStep]_catalogVars
  BY CatalogInductive
<1> QED BY <1>1, CatalogInvariance, PTL DEF CatalogSpec, CatalogSteps

-----------------------------------------------------------------------------
(* GRANT and REVOKE.                                                       *)

(***************************************************************************)
(* The inductive invariant.  The elements so far are those of the objects  *)
(* before the cursor, and the entries so far are those of the users before *)
(* theirs; a table that is begun was not seen.                             *)
(***************************************************************************)
ActionLists == IF Supported THEN {TableActions} ELSE {}
PrivilegeEntry == [kind : GranteeKinds \ {"public"}, name : {u.name : u \in Range(request.users)},
                   actions : ActionLists]
PrivilegeElement ==
    [table : KnownTables, everyone : {<<>>} \cup ActionLists, entries : Seq(PrivilegeEntry)]
PrivilegeTypeOK ==
    /\ request \in PrivilegeRequests \cup {NoRequest}
    /\ elements \in Seq(PrivilegeElement) /\ entries \in Seq(PrivilegeEntry)
    /\ everyone \in {<<>>} \cup ActionLists
    /\ granting \in {"start", "object", "user", "done", "failed"}
    /\ object \in Nat \ {0} /\ user \in Nat \ {0}

(* The users of the statement up to the n-th.                              *)
GranteesTo(n, kinds) ==
    {<<request.users[i].kind, request.users[i].name>> :
        i \in {k \in 1..n : request.users[k].kind \in kinds}}
Named == {"identifier", "current_user"} \cup IF request.revoke THEN {"all_users"} ELSE {}
ExactTo(n, element) ==
    /\ \A i, k \in DOMAIN element.entries :
          /\ element.entries[i].kind = "identifier" /\ element.entries[k].kind = "identifier"
          /\ element.entries[i].name = element.entries[k].name
          => i = k
    /\ {<<entry.kind, entry.name>> : entry \in Range(element.entries)} = GranteesTo(n, Named)
    /\ element.everyone = IF GranteesTo(n, {"public"}) = {} THEN <<>> ELSE TableActions

Collected == [table |-> Object.name, everyone |-> everyone, entries |-> entries]
StageOK ==
    /\ granting = "start" => elements = <<>> /\ object = 1 /\ entries = <<>> /\ everyone = <<>>
    /\ granting \in {"object", "user", "done"} =>
          request \in PrivilegeRequests /\ object <= Len(request.objects) + 1
    /\ granting = "user" =>
          /\ object <= Len(request.objects) /\ user <= Len(request.users) + 1
          /\ Object.name \in KnownTables /\ ~Seen(Object.name)
          /\ Supported /\ ExactTo(user - 1, Collected)
    /\ granting = "done" => object = Len(request.objects) + 1
TablesOK ==
    granting \in {"object", "user", "done"} =>
        /\ {element.table : element \in Range(elements)} =
           {request.objects[i].name : i \in 1..(object - 1)}
        /\ \A i, k \in DOMAIN elements : elements[i].table = elements[k].table => i = k
        /\ elements # <<>> => Supported
        /\ \A element \in Range(elements) : ExactTo(Len(request.users), element)
PrivilegeInv == PrivilegeTypeOK /\ StageOK /\ TablesOK

LEMMA RequestLists ==
    ASSUME request \in PrivilegeRequests
    PROVE  /\ DOMAIN request.objects = 1..Len(request.objects) /\ Len(request.objects) \in Nat
           /\ DOMAIN request.users = 1..Len(request.users) /\ Len(request.users) \in Nat
           /\ DOMAIN request.actions = 1..Len(request.actions) /\ Len(request.actions) \in Nat
           /\ \A i \in DOMAIN request.users :
                 request.users[i].kind \in GranteeKinds
<1> DEFINE objects == request.objects
           users == request.users
           actions == request.actions
           Users == [kind : GranteeKinds, name : {u.name : u \in Range(users)}]
<1>1. actions \in Seq(Range(actions)) /\ objects \in Seq(Range(objects)) /\ users \in Seq(Users)
  BY RequestsAssumption
<1> HIDE DEF objects, users, actions
<1>2. /\ DOMAIN objects = 1..Len(objects) /\ Len(objects) \in Nat
      /\ DOMAIN users = 1..Len(users) /\ Len(users) \in Nat
      /\ DOMAIN actions = 1..Len(actions) /\ Len(actions) \in Nat
  BY <1>1
<1>3. \A i \in DOMAIN users : users[i].kind \in GranteeKinds
  <2> SUFFICES ASSUME NEW i \in DOMAIN users PROVE users[i].kind \in GranteeKinds
    OBVIOUS
  <2> HIDE DEF Users
  <2>1. users[i] \in Users
    BY <1>1, <1>2
  <2> QED BY <2>1 DEF Users
<1> QED BY <1>2, <1>3 DEF objects, users, actions

LEMMA GranteesNext ==
    ASSUME NEW n \in Nat, NEW kinds
    PROVE  GranteesTo(n + 1, kinds) =
               GranteesTo(n, kinds) \cup
               IF request.users[n + 1].kind \in kinds
               THEN {<<request.users[n + 1].kind, request.users[n + 1].name>>} ELSE {}
<1> DEFINE Upto(m) == {k \in 1..m : request.users[k].kind \in kinds}
           G(i) == <<request.users[i].kind, request.users[i].name>>
<1>1. Upto(n + 1) = Upto(n) \cup IF request.users[n + 1].kind \in kinds THEN {n + 1} ELSE {}
  OBVIOUS
<1>2. \A m : GranteesTo(m, kinds) = {G(i) : i \in Upto(m)}
  BY DEF GranteesTo
<1> HIDE DEF Upto, G
<1>3. GranteesTo(n + 1, kinds) =
          GranteesTo(n, kinds) \cup IF request.users[n + 1].kind \in kinds THEN {G(n + 1)} ELSE {}
  BY <1>1, <1>2
<1> QED BY <1>3 DEF G

LEMMA GranteesNone == \A kinds : GranteesTo(0, kinds) = {}
<1>1. 1..0 = {}
  OBVIOUS
<1> QED BY <1>1 DEF GranteesTo

LEMMA GranteesAll ==
    ASSUME request \in PrivilegeRequests
    PROVE  \A kinds : GranteesTo(Len(request.users), kinds) = Grantees(kinds)
BY RequestLists DEF GranteesTo, Grantees, Range

LEMMA EmptyRange == Range(<<>>) = {}
BY DEF Range

LEMMA AppendedRange ==
    ASSUME NEW S, NEW s \in Seq(S), NEW x \in S
    PROVE  Range(Append(s, x)) = Range(s) \cup {x}
<1> DEFINE t == Append(s, x)
<1>1. /\ DOMAIN s = 1..Len(s) /\ DOMAIN t = 1..(Len(s) + 1) /\ Len(s) \in Nat
      /\ t[Len(s) + 1] = x /\ \A i \in DOMAIN s : t[i] = s[i]
  BY Appended
<1> HIDE DEF t
<1>2. DOMAIN t = DOMAIN s \cup {Len(s) + 1}
  BY <1>1
<1>3. Range(t) = Range(s) \cup {x}
  BY <1>1, <1>2 DEF Range
<1> QED BY <1>3 DEF t

(* Where the request and the lists stay, so do their types.                *)
LEMMA SameTypes ==
    ASSUME PrivilegeInv, request' = request, elements' = elements
    PROVE  /\ PrivilegeEntry' = PrivilegeEntry /\ ActionLists' = ActionLists
           /\ elements' \in Seq(PrivilegeElement)'
           /\ request' \in PrivilegeRequests \cup {NoRequest}
<1>1. Supported' <=> Supported
  BY DEF Supported
<1>2. TableActions' = TableActions
  BY DEF TableActions
<1>3. ActionLists' = ActionLists
  BY <1>1, <1>2 DEF ActionLists
<1>4. PrivilegeEntry' = PrivilegeEntry
  BY <1>3 DEF PrivilegeEntry
<1>5. PrivilegeElement' = PrivilegeElement
  BY <1>3, <1>4 DEF PrivilegeElement
<1> QED BY <1>3, <1>4, <1>5 DEF PrivilegeInv, PrivilegeTypeOK

LEMMA SameGrantees ==
    ASSUME request' = request
    PROVE  /\ \A n, kinds : GranteesTo(n, kinds)' = GranteesTo(n, kinds)
           /\ Named' = Named /\ TableActions' = TableActions /\ (Supported' <=> Supported)
           /\ \A n, element : ExactTo(n, element)' <=> ExactTo(n, element)
<1>1. \A n, kinds : GranteesTo(n, kinds)' = GranteesTo(n, kinds)
  BY DEF GranteesTo
<1>2. Named' = Named /\ TableActions' = TableActions
  BY DEF Named, TableActions
<1> QED BY <1>1, <1>2 DEF ExactTo, Supported

LEMMA PrivilegeInitially == PrivilegeInit => PrivilegeInv
<1> SUFFICES ASSUME PrivilegeInit PROVE PrivilegeInv
  OBVIOUS
<1>1. PrivilegeTypeOK
  BY DEF PrivilegeInit, PrivilegeTypeOK
<1> QED BY <1>1 DEF PrivilegeInit, PrivilegeInv, StageOK, TablesOK

LEMMA ReadRequestStep == PrivilegeInv /\ ReadRequest => PrivilegeInv'
<1> SUFFICES ASSUME PrivilegeInv, ReadRequest PROVE PrivilegeInv'
  OBVIOUS
<1>1. /\ granting = "start" /\ granting' = "object" /\ request' \in PrivilegeRequests
      /\ elements' = <<>> /\ entries' = <<>> /\ everyone' = <<>> /\ object' = 1
      /\ user' \in Nat \ {0}
  BY DEF ReadRequest, Pass, PrivilegeInv, PrivilegeTypeOK, StageOK
<1>2. PrivilegeTypeOK'
  BY <1>1 DEF PrivilegeTypeOK
<1>3. DOMAIN request'.objects = 1..Len(request'.objects) /\ Len(request'.objects) \in Nat
  <2>1. \A r \in PrivilegeRequests : r.objects \in Seq(Range(r.objects))
    BY RequestsAssumption
  <2>2. request'.objects \in Seq(Range(request'.objects))
    BY <1>1, <2>1
  <2> DEFINE objects == request'.objects
  <2> HIDE DEF objects
  <2>3. objects \in Seq(Range(objects))
    BY <2>2 DEF objects
  <2>4. DOMAIN objects = 1..Len(objects) /\ Len(objects) \in Nat
    BY <2>3
  <2> QED BY <2>4 DEF objects
<1>4. StageOK'
  BY <1>1, <1>3 DEF StageOK
<1>5. TablesOK'
  <2>1. Range(elements') = {} /\ DOMAIN elements' = {} /\ 1..(object' - 1) = {}
    BY <1>1, EmptyRange
  <2> QED BY <1>1, <2>1 DEF TablesOK
<1> QED BY <1>2, <1>4, <1>5 DEF PrivilegeInv

(* A step that ends without a result.                                      *)
LEMMA DenyStep == ASSUME PrivilegeInv, NEW from, Deny(from) PROVE PrivilegeInv'
<1>1. /\ granting' = "failed" /\ UNCHANGED <<request, elements, entries, everyone, object, user>>
  BY DEF Deny, Pass
<1>2. PrivilegeTypeOK'
  BY <1>1, SameTypes DEF PrivilegeInv, PrivilegeTypeOK
<1> QED BY <1>1, <1>2 DEF PrivilegeInv, StageOK, TablesOK

LEMMA SkipTableStep == PrivilegeInv /\ SkipTable => PrivilegeInv'
<1> SUFFICES ASSUME PrivilegeInv, SkipTable PROVE PrivilegeInv'
  OBVIOUS
<1>1. /\ granting = "object" /\ object <= Len(request.objects) /\ Seen(request.objects[object].name)
      /\ object' = object + 1
      /\ UNCHANGED <<request, elements, entries, everyone, granting, user>>
  BY DEF SkipTable, Object
<1>2. /\ request \in PrivilegeRequests /\ object \in Nat \ {0} /\ Len(request.objects) \in Nat
  BY <1>1, RequestLists DEF PrivilegeInv, PrivilegeTypeOK, StageOK
<1>3. PrivilegeTypeOK'
  BY <1>1, <1>2, SameTypes DEF PrivilegeInv, PrivilegeTypeOK
<1>4. StageOK'
  BY <1>1, <1>2 DEF PrivilegeInv, StageOK
<1>5. TablesOK'
  <2>1. 1..(object' - 1) = (1..(object - 1)) \cup {object}
    BY <1>1, <1>2
  <2>2. \E element \in Range(elements) : element.table = request.objects[object].name
    BY <1>1 DEF Seen, Range
  <2>3. {element.table : element \in Range(elements)} =
        {request.objects[i].name : i \in 1..(object - 1)} \cup {request.objects[object].name}
    BY <1>1, <2>2 DEF PrivilegeInv, TablesOK
  <2>4. {element.table : element \in Range(elements)} =
        {request.objects[i].name : i \in 1..(object' - 1)}
    BY <2>1, <2>3
  <2> QED BY <1>1, <2>4, SameGrantees DEF PrivilegeInv, TablesOK
<1> QED BY <1>3, <1>4, <1>5 DEF PrivilegeInv

LEMMA BeginTableStep == PrivilegeInv /\ BeginTable => PrivilegeInv'
<1> SUFFICES ASSUME PrivilegeInv, BeginTable PROVE PrivilegeInv'
  OBVIOUS
<1>1. /\ granting = "object" /\ granting' = "user" /\ object <= Len(request.objects)
      /\ Object.name \in KnownTables /\ ~Seen(Object.name) /\ Supported
      /\ entries' = <<>> /\ everyone' = <<>> /\ user' = 1 /\ UNCHANGED <<request, elements, object>>
  BY DEF BeginTable, Pass
<1>2. request \in PrivilegeRequests /\ object \in Nat \ {0} /\ Len(request.users) \in Nat
  BY <1>1, RequestLists DEF PrivilegeInv, PrivilegeTypeOK, StageOK
<1>3. PrivilegeTypeOK'
  BY <1>1, <1>2, SameTypes DEF PrivilegeInv, PrivilegeTypeOK
<1>4. ExactTo(0, Collected)'
  <2>1. Collected'.entries = <<>> /\ Collected'.everyone = <<>>
    BY <1>1 DEF Collected
  <2>2. \A kinds : GranteesTo(0, kinds)' = {}
    BY <1>1, SameGrantees, GranteesNone
  <2>3. {<<entry.kind, entry.name>> : entry \in Range(Collected'.entries)} = {}
    BY <2>1, EmptyRange
  <2>4. DOMAIN Collected'.entries = {}
    BY <2>1
  <2> QED BY <2>1, <2>2, <2>3, <2>4 DEF ExactTo
<1>5. StageOK'
  <2>1. Object' = Object /\ (Seen(Object.name)' <=> Seen(Object.name)) /\ (Supported' <=> Supported)
    BY <1>1, SameGrantees DEF Object, Seen
  <2>2. user' - 1 = 0 /\ user' <= Len(request.users) + 1
    BY <1>1, <1>2
  <2> QED BY <1>1, <1>2, <1>4, <2>1, <2>2 DEF PrivilegeInv, StageOK
<1>6. TablesOK'
  BY <1>1, SameGrantees DEF PrivilegeInv, TablesOK
<1> QED BY <1>3, <1>5, <1>6 DEF PrivilegeInv

(* A user is gone through: its step keeps the rest.                        *)
LEMMA NextUserStep ==
    ASSUME PrivilegeInv, NextUser, entries' \in Seq(PrivilegeEntry),
           everyone' \in {<<>>} \cup ActionLists, ExactTo(user, Collected')
    PROVE  PrivilegeInv'
<1>1. /\ granting = "user" /\ user <= Len(request.users) /\ user' = user + 1
      /\ UNCHANGED <<request, elements, granting, object>>
  BY DEF NextUser
<1>2. request \in PrivilegeRequests /\ user \in Nat \ {0} /\ Len(request.users) \in Nat
  BY <1>1, RequestLists DEF PrivilegeInv, PrivilegeTypeOK, StageOK
<1>3. PrivilegeTypeOK'
  BY <1>1, <1>2, SameTypes DEF PrivilegeInv, PrivilegeTypeOK
<1>4. StageOK'
  <2>1. Object' = Object /\ (Seen(Object.name)' <=> Seen(Object.name)) /\ (Supported' <=> Supported)
    BY <1>1, SameGrantees DEF Object, Seen
  <2>2. user' - 1 = user /\ user' <= Len(request.users) + 1
    BY <1>1, <1>2
  <2>3. ExactTo(user - 1, Collected)'
    BY <1>1, <2>2, SameGrantees DEF ExactTo
  <2> QED BY <1>1, <1>2, <2>1, <2>2, <2>3 DEF PrivilegeInv, StageOK
<1>5. TablesOK'
  BY <1>1, SameGrantees DEF PrivilegeInv, TablesOK
<1> QED BY <1>3, <1>4, <1>5 DEF PrivilegeInv

(* What is known when a user is looked at.                                 *)
LEMMA AtUser ==
    ASSUME PrivilegeInv, NextUser
    PROVE  /\ request \in PrivilegeRequests /\ user \in Nat \ {0} /\ user - 1 \in Nat
           /\ entries \in Seq(PrivilegeEntry) /\ everyone \in {<<>>} \cup ActionLists
           /\ Supported /\ User.kind \in GranteeKinds /\ user \in DOMAIN request.users
           /\ ExactTo(user - 1, Collected) /\ Collected.entries = entries
           /\ Collected.everyone = everyone
           /\ \A kinds : GranteesTo(user, kinds) =
                  GranteesTo(user - 1, kinds) \cup
                  IF User.kind \in kinds THEN {<<User.kind, User.name>>} ELSE {}
<1>1. granting = "user" /\ user <= Len(request.users)
  BY DEF NextUser
<1>2. /\ request \in PrivilegeRequests /\ user \in Nat \ {0} /\ Len(request.users) \in Nat
      /\ DOMAIN request.users = 1..Len(request.users)
  BY <1>1, RequestLists DEF PrivilegeInv, PrivilegeTypeOK, StageOK
<1>3. user - 1 \in Nat /\ user = (user - 1) + 1 /\ user \in DOMAIN request.users
  BY <1>1, <1>2
<1>4. \A kinds : GranteesTo((user - 1) + 1, kinds) =
          GranteesTo(user - 1, kinds) \cup
          IF request.users[(user - 1) + 1].kind \in kinds
          THEN {<<request.users[(user - 1) + 1].kind, request.users[(user - 1) + 1].name>>} ELSE {}
  BY <1>3, GranteesNext
<1>5. \A kinds : GranteesTo(user, kinds) =
          GranteesTo(user - 1, kinds) \cup
          IF User.kind \in kinds THEN {<<User.kind, User.name>>} ELSE {}
  BY <1>3, <1>4 DEF User
<1>6. User.kind \in GranteeKinds
  BY <1>2, <1>3, RequestLists DEF User
<1>7. Collected.entries = entries /\ Collected.everyone = everyone
  BY DEF Collected
<1> QED BY <1>1, <1>2, <1>3, <1>5, <1>6, <1>7 DEF PrivilegeInv, PrivilegeTypeOK, StageOK

LEMMA SkipUserStep == PrivilegeInv /\ SkipUser => PrivilegeInv'
<1> SUFFICES ASSUME PrivilegeInv, SkipUser PROVE PrivilegeInv'
  OBVIOUS
<1>1. NextUser /\ User.kind = "identifier" /\ UNCHANGED <<entries, everyone>>
      /\ \E i \in DOMAIN entries : entries[i] = Entry(User)
  BY DEF SkipUser, Repeated
<1>2. Collected'.entries = entries /\ Collected'.everyone = everyone
  BY <1>1 DEF Collected
<1>3. <<User.kind, User.name>> \in {<<entry.kind, entry.name>> : entry \in Range(entries)}
  BY <1>1 DEF Entry, Range
<1>4. "public" # "identifier" /\ User.kind \in Named
  BY <1>1 DEF Named
<1>5. GranteesTo(user, {"public"}) = GranteesTo(user - 1, {"public"})
      /\ GranteesTo(user, Named) = GranteesTo(user - 1, Named) \cup {<<User.kind, User.name>>}
  BY <1>1, <1>4, AtUser
<1>6. ExactTo(user - 1, Collected) /\ Collected.entries = entries /\ Collected.everyone = everyone
  BY <1>1, AtUser
<1>7. ExactTo(user, Collected')
  BY <1>2, <1>3, <1>5, <1>6 DEF ExactTo
<1> QED BY <1>1, <1>7, AtUser, NextUserStep

LEMMA AddPublicStep == PrivilegeInv /\ AddPublic => PrivilegeInv'
<1> SUFFICES ASSUME PrivilegeInv, AddPublic PROVE PrivilegeInv'
  OBVIOUS
<1>1. NextUser /\ User.kind = "public" /\ everyone' = TableActions /\ entries' = entries
  BY DEF AddPublic
<1>2. Collected'.entries = entries /\ Collected'.everyone = TableActions
  BY <1>1 DEF Collected
<1>3. "public" \notin Named
  BY DEF Named
<1>4. GranteesTo(user, {"public"}) # {} /\ GranteesTo(user, Named) = GranteesTo(user - 1, Named)
  BY <1>1, <1>3, AtUser
<1>5. ExactTo(user - 1, Collected) /\ Collected.entries = entries
  BY <1>1, AtUser
<1>6. ExactTo(user, Collected')
  BY <1>2, <1>4, <1>5 DEF ExactTo
<1>7. everyone' \in {<<>>} \cup ActionLists
  BY <1>1, AtUser DEF ActionLists
<1> QED BY <1>1, <1>6, <1>7, AtUser, NextUserStep

LEMMA AddUserStep == PrivilegeInv /\ AddUser => PrivilegeInv'
<1> SUFFICES ASSUME PrivilegeInv, AddUser PROVE PrivilegeInv'
  OBVIOUS
<1> DEFINE new == Entry(User)
<1>1. /\ NextUser /\ entries' = Append(entries, new) /\ everyone' = everyone
      /\ User.kind # "public" /\ (User.kind = "all_users" => request.revoke)
      /\ User.kind = "identifier" => \A i \in DOMAIN entries : entries[i] # new
  BY DEF AddUser, Acceptable, Repeated
<1>2. User.kind \in Named
  BY <1>1, AtUser DEF GranteeKinds, Named
<1>3. new.kind = User.kind /\ new.name = User.name /\ new.actions = TableActions
  BY DEF Entry
<1>4. new \in PrivilegeEntry
  <2>1. User.name \in {u.name : u \in Range(request.users)}
    BY <1>1, AtUser DEF User, Range
  <2>2. User.kind \in GranteeKinds \ {"public"} /\ TableActions \in ActionLists
    BY <1>1, AtUser DEF ActionLists
  <2> QED BY <2>1, <2>2 DEF Entry, PrivilegeEntry
<1>5. entries \in Seq(PrivilegeEntry)
  BY <1>1, AtUser
<1>6. \A i \in DOMAIN entries :
          entries[i] = [kind |-> entries[i].kind, name |-> entries[i].name,
                        actions |-> TableActions]
  <2> SUFFICES ASSUME NEW i \in DOMAIN entries
               PROVE  entries[i] = [kind |-> entries[i].kind, name |-> entries[i].name,
                                    actions |-> TableActions]
    OBVIOUS
  <2>1. entries[i] \in PrivilegeEntry
    BY <1>5
  <2>2. ActionLists \subseteq {TableActions}
    BY DEF ActionLists
  <2> QED BY <2>1, <2>2 DEF PrivilegeEntry
<1>7. \A i \in DOMAIN entries :
          User.kind = "identifier" /\ entries[i].kind = "identifier" => entries[i].name # User.name
  <2> SUFFICES ASSUME NEW i \in DOMAIN entries, User.kind = "identifier",
                      entries[i].kind = "identifier", entries[i].name = User.name
               PROVE  FALSE
    OBVIOUS
  <2>1. entries[i] = new
    BY <1>6 DEF Entry
  <2> QED BY <1>1, <2>1
<1> HIDE DEF new
<1>8. /\ entries' \in Seq(PrivilegeEntry)
      /\ \A i \in DOMAIN entries : entries'[i] = entries[i]
      /\ \A i \in DOMAIN entries' : i \in DOMAIN entries \/ i = Len(entries) + 1
      /\ entries'[Len(entries) + 1] = new
  BY <1>1, <1>4, <1>5, Appended
<1>9. Range(entries') = Range(entries) \cup {new}
  BY <1>1, <1>4, <1>5, AppendedRange
<1>10. ExactTo(user, Collected')
  <2>1. Collected'.entries = entries' /\ Collected'.everyone = everyone
    BY <1>1 DEF Collected
  <2>2. ExactTo(user - 1, Collected) /\ Collected.entries = entries /\ Collected.everyone = everyone
    BY <1>1, AtUser
  <2>3. \A i, k \in DOMAIN entries' :
            /\ entries'[i].kind = "identifier" /\ entries'[k].kind = "identifier"
            /\ entries'[i].name = entries'[k].name
            => i = k
    <3> SUFFICES ASSUME NEW i \in DOMAIN entries', NEW k \in DOMAIN entries',
                        entries'[i].kind = "identifier", entries'[k].kind = "identifier",
                        entries'[i].name = entries'[k].name
                 PROVE  i = k
      OBVIOUS
    <3>1. CASE i \in DOMAIN entries /\ k \in DOMAIN entries
      BY <1>8, <2>2, <3>1 DEF ExactTo
    <3>2. CASE i = Len(entries) + 1 /\ k \in DOMAIN entries
      BY <1>3, <1>7, <1>8, <3>2
    <3>3. CASE k = Len(entries) + 1 /\ i \in DOMAIN entries
      BY <1>3, <1>7, <1>8, <3>3
    <3> QED BY <1>8, <3>1, <3>2, <3>3
  <2>4. {<<entry.kind, entry.name>> : entry \in Range(entries')} =
        {<<entry.kind, entry.name>> : entry \in Range(entries)} \cup {<<User.kind, User.name>>}
    BY <1>3, <1>9
  <2>5. GranteesTo(user, Named) = GranteesTo(user - 1, Named) \cup {<<User.kind, User.name>>}
        /\ GranteesTo(user, {"public"}) = GranteesTo(user - 1, {"public"})
    BY <1>1, <1>2, AtUser
  <2> QED BY <2>1, <2>2, <2>3, <2>4, <2>5 DEF ExactTo
<1> QED BY <1>1, <1>8, <1>10, AtUser, NextUserStep

LEMMA EndTableStep == PrivilegeInv /\ EndTable => PrivilegeInv'
<1> SUFFICES ASSUME PrivilegeInv, EndTable PROVE PrivilegeInv'
  OBVIOUS
<1> DEFINE new == Collected
<1>1. /\ granting = "user" /\ granting' = "object" /\ user > Len(request.users)
      /\ elements' = Append(elements, new) /\ object' = object + 1
      /\ UNCHANGED <<request, entries, everyone, user>>
  BY DEF EndTable, Pass, Collected
<1>2. /\ request \in PrivilegeRequests /\ object \in Nat \ {0} /\ user \in Nat \ {0}
      /\ object <= Len(request.objects) /\ user <= Len(request.users) + 1
      /\ Len(request.users) \in Nat /\ Len(request.objects) \in Nat
  BY <1>1, RequestLists DEF PrivilegeInv, PrivilegeTypeOK, StageOK
<1>3. /\ new.table = request.objects[object].name /\ new \in PrivilegeElement
      /\ elements \in Seq(PrivilegeElement)
      /\ ExactTo(Len(request.users), new) /\ Supported
  <2>1. user - 1 = Len(request.users)
    BY <1>1, <1>2
  <2> QED BY <1>1, <2>1
          DEF Collected, Object, PrivilegeElement, PrivilegeInv, PrivilegeTypeOK, StageOK
<1>4. \A i \in DOMAIN elements : elements[i].table # new.table
  BY <1>1, <1>3 DEF PrivilegeInv, StageOK, Seen, Object
<1> HIDE DEF new
<1>5. /\ elements' \in Seq(PrivilegeElement) /\ elements'[Len(elements) + 1] = new
      /\ \A i \in DOMAIN elements : elements'[i] = elements[i]
      /\ \A i \in DOMAIN elements' : i \in DOMAIN elements \/ i = Len(elements) + 1
  BY <1>1, <1>3, Appended
<1>6. Range(elements') = Range(elements) \cup {new}
  BY <1>1, <1>3, AppendedRange
<1>7. PrivilegeTypeOK'
  <2>1. Supported' /\ TableActions' = TableActions
    BY <1>1, <1>3, SameGrantees
  <2>2. ActionLists' = ActionLists
    BY <1>3, <2>1 DEF ActionLists
  <2>3. PrivilegeEntry' = PrivilegeEntry
    BY <1>1, <2>2 DEF PrivilegeEntry
  <2>4. PrivilegeElement' = PrivilegeElement
    BY <2>2, <2>3 DEF PrivilegeElement
  <2> QED BY <1>1, <1>2, <1>5, <2>2, <2>3, <2>4 DEF PrivilegeInv, PrivilegeTypeOK
<1>8. StageOK'
  BY <1>1, <1>2 DEF PrivilegeInv, StageOK
<1>9. TablesOK'
  <2>1. 1..(object' - 1) = (1..(object - 1)) \cup {object}
    BY <1>1, <1>2
  <2>2. {element.table : element \in Range(elements')} =
        {element.table : element \in Range(elements)} \cup {new.table}
    BY <1>6
  <2>3. {element.table : element \in Range(elements)} =
        {request.objects[i].name : i \in 1..(object - 1)}
    BY <1>1 DEF PrivilegeInv, TablesOK
  <2>4. {element.table : element \in Range(elements')} =
        {request'.objects[i].name : i \in 1..(object' - 1)}
    BY <1>1, <1>3, <2>1, <2>2, <2>3
  <2>5. \A i, k \in DOMAIN elements' : elements'[i].table = elements'[k].table => i = k
    <3>1. \A i, k \in DOMAIN elements : elements[i].table = elements[k].table => i = k
      BY <1>1 DEF PrivilegeInv, TablesOK
    <3> QED BY <1>4, <1>5, <3>1
  <2>6. \A element \in Range(elements') : ExactTo(Len(request.users), element)
    BY <1>1, <1>3, <1>6 DEF PrivilegeInv, TablesOK
  <2>7. \A element \in Range(elements') : ExactTo(Len(request.users), element)'
    BY <1>1, <2>6, SameGrantees
  <2>8. Supported'
    BY <1>1, <1>3, SameGrantees
  <2> QED BY <1>1, <2>4, <2>5, <2>7, <2>8 DEF TablesOK
<1> QED BY <1>7, <1>8, <1>9 DEF PrivilegeInv

LEMMA EndRequestStep == PrivilegeInv /\ EndRequest => PrivilegeInv'
<1> SUFFICES ASSUME PrivilegeInv, EndRequest PROVE PrivilegeInv'
  OBVIOUS
<1>1. /\ granting = "object" /\ granting' = "done" /\ object > Len(request.objects)
      /\ UNCHANGED <<request, elements, entries, everyone, object, user>>
  BY DEF EndRequest, Pass
<1>2. /\ request \in PrivilegeRequests /\ object \in Nat \ {0}
      /\ object <= Len(request.objects) + 1 /\ Len(request.objects) \in Nat
  BY <1>1, RequestLists DEF PrivilegeInv, PrivilegeTypeOK, StageOK
<1>3. PrivilegeTypeOK'
  BY <1>1, SameTypes DEF PrivilegeInv, PrivilegeTypeOK
<1>4. StageOK'
  BY <1>1, <1>2 DEF StageOK
<1>5. TablesOK'
  BY <1>1, SameGrantees DEF PrivilegeInv, TablesOK
<1> QED BY <1>3, <1>4, <1>5 DEF PrivilegeInv

LEMMA PrivilegeStutter == PrivilegeInv /\ UNCHANGED privilegeVars => PrivilegeInv'
<1> SUFFICES ASSUME PrivilegeInv, UNCHANGED privilegeVars PROVE PrivilegeInv'
  OBVIOUS
<1>1. UNCHANGED <<request, elements, entries, everyone, granting, object, user>>
  BY DEF privilegeVars
<1>2. PrivilegeTypeOK'
  BY <1>1, SameTypes DEF PrivilegeInv, PrivilegeTypeOK
<1>3. StageOK'
  <2>1. /\ Object' = Object /\ (Seen(Object.name)' <=> Seen(Object.name))
        /\ (Supported' <=> Supported) /\ Collected' = Collected
    BY <1>1, SameGrantees DEF Object, Seen, Collected
  <2>2. ExactTo(user - 1, Collected)' <=> ExactTo(user - 1, Collected)
    BY <1>1, <2>1, SameGrantees DEF ExactTo
  <2> QED BY <1>1, <2>1, <2>2 DEF PrivilegeInv, StageOK
<1>4. TablesOK'
  BY <1>1, SameGrantees DEF PrivilegeInv, TablesOK
<1> QED BY <1>2, <1>3, <1>4 DEF PrivilegeInv

LEMMA PrivilegeInductive == PrivilegeInv /\ [PrivilegeNext]_privilegeVars => PrivilegeInv'
BY ReadRequestStep, DenyStep, SkipTableStep, BeginTableStep, SkipUserStep, AddPublicStep,
   AddUserStep, EndTableStep, EndRequestStep, PrivilegeStutter
   DEF PrivilegeNext, RejectRequest, RejectTable, RejectUser

LEMMA PrivilegeInvariance == PrivilegeSpec => []PrivilegeInv
BY PrivilegeInitially, PrivilegeInductive, PTL DEF PrivilegeSpec

(* At the end every object and every user has been gone through.           *)
LEMMA RequestAnswered == PrivilegeInv => PrivilegesExact
<1> SUFFICES ASSUME PrivilegeInv, granting = "done"
             PROVE  /\ {element.table : element \in Range(elements)} =
                       {o.name : o \in Range(request.objects)}
                    /\ \A i, k \in DOMAIN elements : elements[i].table = elements[k].table => i = k
                    /\ \A element \in Range(elements) : EntriesExact(element)
  BY DEF PrivilegesExact
<1>1. /\ request \in PrivilegeRequests /\ object = Len(request.objects) + 1
      /\ Len(request.objects) \in Nat /\ DOMAIN request.objects = 1..Len(request.objects)
      /\ elements \in Seq(PrivilegeElement)
  BY RequestLists DEF PrivilegeInv, PrivilegeTypeOK, StageOK
<1>2. {element.table : element \in Range(elements)} = {o.name : o \in Range(request.objects)}
  <2>1. object - 1 = Len(request.objects)
    BY <1>1
  <2> QED BY <1>1, <2>1 DEF PrivilegeInv, TablesOK, Range
<1>3. ASSUME NEW element \in Range(elements) PROVE EntriesExact(element)
  <2>1. ExactTo(Len(request.users), element)
    BY DEF PrivilegeInv, TablesOK
  <2>2. \A kinds : GranteesTo(Len(request.users), kinds) = Grantees(kinds)
    BY <1>1, GranteesAll
  <2>3. element \in PrivilegeElement
    BY <1>1 DEF Range
  <2>4. \A entry \in Range(element.entries) : entry.actions = TableActions
    <3> SUFFICES ASSUME NEW i \in DOMAIN element.entries
                 PROVE  element.entries[i].actions = TableActions
      BY DEF Range
    <3> DEFINE list == element.entries
    <3>1. list \in Seq(PrivilegeEntry)
      BY <2>3 DEF PrivilegeElement
    <3> HIDE DEF list
    <3>2. i \in DOMAIN list => list[i] \in PrivilegeEntry
      BY <3>1
    <3> QED BY <3>2 DEF list, PrivilegeEntry, ActionLists
  <2>5. \A i, k \in DOMAIN element.entries :
            /\ element.entries[i].kind = "identifier" /\ element.entries[k].kind = "identifier"
            /\ element.entries[i].name = element.entries[k].name
            => i = k
    BY <2>1 DEF ExactTo
  <2>6. {<<entry.kind, entry.name>> : entry \in Range(element.entries)} = Grantees(Named)
    BY <2>1, <2>2 DEF ExactTo
  <2>7. element.everyone = IF Grantees({"public"}) = {} THEN <<>> ELSE TableActions
    BY <2>1, <2>2 DEF ExactTo
  <2> QED BY <2>4, <2>5, <2>6, <2>7 DEF EntriesExact, Named
<1> QED BY <1>2, <1>3 DEF PrivilegeInv, TablesOK

(***************************************************************************)
(* GRANT and REVOKE give each table that is named, once, to each user that *)
(* is named, once, with all the actions, for lists of any length with any  *)
(* repetitions; everyone gets them exactly when PUBLIC is named, and all   *)
(* users only in REVOKE.                                                   *)
(***************************************************************************)
THEOREM PrivilegesRight == PrivilegeSpec => []PrivilegesExact
BY RequestAnswered, PrivilegeInvariance, PTL

-----------------------------------------------------------------------------
(* The statements together.                                                *)

(***************************************************************************)
(* A statement is analysed as one of its kind is: nothing that is done for *)
(* another kind touches what the analysis of this one keeps.               *)
(***************************************************************************)
THEOREM Dispatched ==
    StatementSpec => WriteSpec /\ DefinitionSpec /\ CatalogSpec /\ PrivilegeSpec
<1>1. StatementInit => WriteInit /\ DefinitionInit /\ CatalogInit /\ PrivilegeInit
  BY DEF StatementInit
<1>2. [StatementNext]_statementVars =>
          /\ [WriteNext]_writeVars /\ [DefinitionNext]_definitionVars
          /\ [CatalogNext]_catalogVars /\ [PrivilegeNext]_privilegeVars
  BY DEF StatementNext, statementVars, Dispatch, AnalyzeWrite, AnalyzeDefinition, AnalyzeCatalog,
         AnalyzePrivilege
<1> QED BY <1>1, <1>2, PTL
        DEF StatementSpec, WriteSpec, DefinitionSpec, CatalogSpec, PrivilegeSpec

(***************************************************************************)
(* So all that is proved of each kind of statement holds of the analysis   *)
(* of statements.                                                          *)
(***************************************************************************)
THEOREM StatementsRight ==
    StatementSpec =>
        /\ [](InsertExact /\ WrittenOnce /\ RowsAddressedByScan)
        /\ [](ConstraintsExact /\ ColumnsExact /\ KeyColumns /\ SequenceExact)
        /\ [](LiteralsExact /\ TypesExact)
        /\ [](CatalogSound /\ RepeatHarmless /\ RenameFree) /\ CatalogSteps
        /\ []PrivilegesExact
BY Dispatched, Inserts, ColumnsWrittenOnce, RowsAddressed, Constraints, DeclaredColumns,
   PrimaryKeysRight, Sequences, LiteralsRight, TypesRight, CatalogStaysSound, Repeatability, FreeNames,
   CatalogChangesExact, PrivilegesRight, PTL

=============================================================================
