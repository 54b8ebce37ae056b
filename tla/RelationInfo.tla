---------------------------- MODULE RelationInfo ----------------------------
(***************************************************************************)
(* relation_info: the columns of one relation while a query is analysed,   *)
(* the map from an identifier to its first column, the chain from a column *)
(* to the next one of the same identifier, and the map from declarations.  *)
(* The loops of build_internal() and of find_column_in_relation() are      *)
(* taken one iteration at a time: `pc` says which loop is running.         *)
(***************************************************************************)
EXTENDS Naturals, Integers, Sequences, FiniteSets

CONSTANTS
    Names, NoName, Declarations, NoDeclaration, MaxColumns

VARIABLES
    columns,    \* columns_, without the chain
    next,       \* column_info::next_ of every column
    nameMap,    \* name_map_: identifier -> first position
    declMap,    \* declaration_map_: declaration -> position or Ambiguous
    pc,         \* the loop that is running, or "idle"
    position,   \* build_internal(position), position of the column to link
    limit,      \* rebuild() links every position up to this one
    cursor,     \* the position a loop has reached in a chain
    saw,        \* build_internal: the positions it has passed
    wanted,     \* find_column_in_relation: the name to find
    found,      \* find_column_in_relation: the column found so far
    answer      \* find_column_in_relation: what the last call returned

Lookup == INSTANCE ColumnLookup

ASSUME NamesAssumption == NoName \notin Names
ASSUME DeclarationsAssumption == NoDeclaration \notin Declarations
ASSUME MaxColumnsAssumption == MaxColumns \in Nat

NoPosition == 0
Ambiguous == -1
Column == Lookup!Column

links == <<columns, next, nameMap, declMap>>
building == <<position, limit, saw>>
finding == <<wanted, found, answer>>
vars == <<links, pc, building, cursor, finding>>

Positions == 1..MaxColumns
Pointers == Positions \cup {NoPosition, Ambiguous}

TypeOK ==
    /\ columns \in Seq(Column)
    /\ Len(columns) <= MaxColumns
    /\ next \in [DOMAIN columns -> Pointers]
    /\ nameMap \in [Names -> Pointers]
    /\ declMap \in [Declarations -> Pointers]
    /\ pc \in {"idle", "emplace", "walk", "declare", "find"}
    /\ position \in Pointers
    /\ limit \in Pointers
    /\ saw \in SUBSET Positions
    /\ cursor \in Pointers
    /\ wanted \in Names \cup {NoName}
    /\ found \in Pointers
    /\ answer \in Pointers

Init ==
    /\ columns = <<>>
    /\ next = <<>>
    /\ nameMap = [name \in Names |-> NoPosition]
    /\ declMap = [d \in Declarations |-> NoPosition]
    /\ pc = "idle"
    /\ position = NoPosition
    /\ limit = NoPosition
    /\ saw = {}
    /\ cursor = NoPosition
    /\ wanted = NoName
    /\ found = NoPosition
    /\ answer = NoPosition

-----------------------------------------------------------------------------
(* Mutant of Add: info.next().reset() is forgotten, and a column copied    *)
(* from another relation brings its old successor along.                   *)
AddKeepingNext(column) ==
    /\ pc = "idle"
    /\ Len(columns) < MaxColumns
    /\ columns' = Append(columns, column)
    /\ \E stale \in DOMAIN columns \cup {NoPosition} :
           next' = Append(next, stale)
    /\ position' = Len(columns) + 1
    /\ limit' = Len(columns) + 1
    /\ pc' = "emplace"
    /\ UNCHANGED <<nameMap, declMap, cursor, saw, finding>>

(* add(): the column comes with no successor, whatever relation it was     *)
(* copied from, and its position alone is linked.                          *)
Add(column) ==
    /\ pc = "idle"
    /\ Len(columns) < MaxColumns
    /\ columns' = Append(columns, column)
    /\ next' = Append(next, NoPosition)
    /\ position' = Len(columns) + 1
    /\ limit' = Len(columns) + 1
    /\ pc' = "emplace"
    /\ UNCHANGED <<nameMap, declMap, cursor, saw, finding>>

(* rebuild_relation_info() with a column list: rename the leading columns, *)
(* erase() the others, then rebuild() from scratch.  A list that is too    *)
(* long or that repeats a name is reported and the relation is thrown away *)
(* by every caller: no step.                                               *)
Distinct(names) ==
    \A i, j \in DOMAIN names : names[i] = names[j] => i = j

(* Mutant of Rename: the columns without a new name are not erased.        *)
RenameKeepingRest(names) ==
    /\ pc = "idle"
    /\ Len(names) \in 1..Len(columns)
    /\ Distinct(names)
    /\ columns' = [i \in DOMAIN columns |->
                      IF i \in DOMAIN names
                      THEN [columns[i] EXCEPT !.id = names[i]] ELSE columns[i]]
    /\ next' = [i \in 1..Len(names) |-> NoPosition]
    /\ nameMap' = [name \in Names |-> NoPosition]
    /\ declMap' = [d \in Declarations |-> NoPosition]
    /\ position' = 1
    /\ limit' = Len(names)
    /\ pc' = "emplace"
    /\ UNCHANGED <<cursor, saw, finding>>

Rename(names) ==
    /\ pc = "idle"
    /\ Len(names) \in 1..Len(columns)
    /\ Distinct(names)
    /\ columns' = [i \in 1..Len(names) |-> [columns[i] EXCEPT !.id = names[i]]]
    /\ next' = [i \in 1..Len(names) |-> NoPosition]
    /\ nameMap' = [name \in Names |-> NoPosition]
    /\ declMap' = [d \in Declarations |-> NoPosition]
    /\ position' = 1
    /\ limit' = Len(names)
    /\ pc' = "emplace"
    /\ UNCHANGED <<cursor, saw, finding>>

(* JOIN ... USING hides the right column of each pair.                     *)
Hide(i) ==
    /\ pc = "idle"
    /\ columns' = [columns EXCEPT ![i].exported = FALSE]
    /\ UNCHANGED <<next, nameMap, declMap, pc, building, cursor, finding>>

-----------------------------------------------------------------------------
(* build_internal(): enter the identifier, or start along the chain of the *)
(* columns that already have it.                                           *)
Emplace ==
    /\ pc = "emplace"
    /\ LET name == columns[position].id IN
       \/ /\ name = NoName
          /\ pc' = "declare"
          /\ UNCHANGED <<nameMap, cursor, saw>>
       \/ /\ name # NoName
          /\ nameMap[name] = NoPosition
          /\ nameMap' = [nameMap EXCEPT ![name] = position]
          /\ pc' = "declare"
          /\ UNCHANGED <<cursor, saw>>
       \/ /\ name # NoName
          /\ nameMap[name] # NoPosition
          /\ cursor' = nameMap[name]
          /\ pc' = "walk"
          /\ UNCHANGED <<nameMap, saw>>
    /\ UNCHANGED <<columns, next, declMap, position, limit, finding>>

(* One iteration of the chain loop: the sentinel ends it, a position met   *)
(* twice is cut off with the sentinel, a column with a successor leads on, *)
(* and the last column of the chain gets the new one as its successor.     *)
Walk ==
    /\ pc = "walk"
    /\ LET damaged == cursor = Ambiguous \/ cursor \in saw
           forward == ~damaged /\ next[cursor] # NoPosition
       IN
       /\ next' = IF forward \/ cursor = Ambiguous THEN next
                  ELSE [next EXCEPT ![cursor] = IF damaged THEN Ambiguous
                                                           ELSE position]
       /\ cursor' = IF forward THEN next[cursor] ELSE NoPosition
       /\ saw' = IF forward THEN saw \cup {cursor} ELSE {}
       /\ pc' = IF forward THEN "walk" ELSE "declare"
    /\ UNCHANGED <<columns, nameMap, declMap, position, limit, finding>>

(* Mutant of Declare: the first column keeps a declaration to itself.      *)
DeclareFirst ==
    /\ pc = "declare"
    /\ LET d == columns[position].declaration IN
       declMap' =
           IF d = NoDeclaration THEN declMap
           ELSE [declMap EXCEPT ![d] = IF @ = NoPosition THEN position ELSE @]
    /\ \/ /\ position < limit
          /\ position' = position + 1
          /\ pc' = "emplace"
          /\ UNCHANGED limit
       \/ /\ position = limit
          /\ position' = NoPosition
          /\ limit' = NoPosition
          /\ pc' = "idle"
    /\ UNCHANGED <<columns, next, nameMap, saw, cursor, finding>>

(* build_internal() ends with the declaration; rebuild() goes on with the  *)
(* next position.                                                          *)
Declare ==
    /\ pc = "declare"
    /\ LET d == columns[position].declaration IN
       declMap' =
           IF d = NoDeclaration THEN declMap
           ELSE [declMap EXCEPT ![d] = IF @ = NoPosition THEN position
                                                         ELSE Ambiguous]
    /\ \/ /\ position < limit
          /\ position' = position + 1
          /\ pc' = "emplace"
          /\ UNCHANGED limit
       \/ /\ position = limit
          /\ position' = NoPosition
          /\ limit' = NoPosition
          /\ pc' = "idle"
    /\ UNCHANGED <<columns, next, nameMap, saw, cursor, finding>>

-----------------------------------------------------------------------------
(* find_column_in_relation(): find() gives the head of the chain, next()   *)
(* the column after the one at hand; hidden columns are passed over and a  *)
(* second visible one makes the name ambiguous.                            *)
FindBegin(name) ==
    /\ pc = "idle"
    /\ wanted' = name
    /\ cursor' = nameMap[name]
    /\ pc' = "find"
    /\ UNCHANGED <<links, building, found, answer>>

(* Mutant of FindHidden: the loop goes on without taking the next column.  *)
FindHiddenForever ==
    /\ cursor # NoPosition
    /\ ~columns[cursor].exported
    /\ UNCHANGED <<pc, cursor, wanted, found, answer>>

FindHidden ==
    /\ cursor # NoPosition
    /\ ~columns[cursor].exported
    /\ cursor' = next[cursor]
    /\ UNCHANGED <<pc, wanted, found, answer>>

FindVisible ==
    /\ cursor # NoPosition
    /\ columns[cursor].exported
    /\ found = NoPosition
    /\ found' = cursor
    /\ cursor' = next[cursor]
    /\ UNCHANGED <<pc, wanted, answer>>

FindReturn(result) ==
    /\ answer' = result
    /\ pc' = "idle"
    /\ cursor' = NoPosition
    /\ wanted' = NoName
    /\ found' = NoPosition

(* Mutant of FindAnother: the first visible column wins.                   *)
FindAnotherFirst ==
    /\ cursor # NoPosition
    /\ columns[cursor].exported
    /\ found # NoPosition
    /\ FindReturn(found)

FindAnother ==
    /\ cursor # NoPosition
    /\ columns[cursor].exported
    /\ found # NoPosition
    /\ FindReturn(Ambiguous)

FindEnd ==
    /\ cursor = NoPosition
    /\ FindReturn(found)

Find ==
    /\ pc = "find"
    /\ FindHidden \/ FindVisible \/ FindAnother \/ FindEnd
    /\ UNCHANGED <<links, building>>

-----------------------------------------------------------------------------
NameLists == Lookup!NameLists

Operation ==
    \/ \E column \in Column : Add(column)
    \/ \E names \in NameLists : Rename(names)
    \/ \E i \in DOMAIN columns : Hide(i)
    \/ \E name \in Names : FindBegin(name)

Loop == Emplace \/ Walk \/ Declare \/ Find

Next == Operation \/ Loop

Spec == Init /\ [][Next]_vars

(* A loop that has started keeps running: it belongs to one call.          *)
FairSpec == Spec /\ WF_vars(Loop)

-----------------------------------------------------------------------------
(* The positions already linked: all but the one at hand and, in           *)
(* rebuild(), those after it.                                              *)
Linked ==
    IF pc \in {"emplace", "walk"} THEN 1..(position - 1)
    ELSE IF pc = "declare" THEN 1..position
    ELSE DOMAIN columns

Chain(name) == {i \in Linked : columns[i].id = name}

(* The map gives the first column of a name and the chain the next one:    *)
(* nothing is skipped and no other name is reached.  find() and next() of  *)
(* relation_info rest on it.                                               *)
HeadExact ==
    \A name \in Names :
        \/ nameMap[name] = NoPosition /\ Chain(name) = {}
        \/ /\ nameMap[name] \in Chain(name)
           /\ \A i \in Chain(name) : nameMap[name] <= i

NextExact ==
    \A i \in DOMAIN columns :
        LET later == {j \in Chain(columns[i].id) : i < j /\ i \in Linked} IN
        IF columns[i].id = NoName \/ later = {}
        THEN next[i] = NoPosition
        ELSE next[i] \in later /\ \A j \in later : next[i] <= j

(* "FIXME: avoid cyclic reference": the branch that cuts a cycle, and the  *)
(* sentinel it leaves behind - which next() would use as an index - are    *)
(* out of reach.                                                           *)
NeverCyclic ==
    /\ \A i \in DOMAIN next : next[i] # Ambiguous
    /\ pc = "walk" => cursor \in (1..(position - 1)) \ saw

(* The links are exact through any sequence of adds, renames and hides.    *)
LinksExact == HeadExact /\ NextExact /\ NeverCyclic

(* A declaration leads to its only column, and is ambiguous exactly when   *)
(* two columns come from it (a table joined with itself).                  *)
DeclarationExact ==
    pc = "idle" =>
        \A d \in Declarations :
            LET of == {i \in DOMAIN columns : columns[i].declaration = d} IN
            \/ declMap[d] = NoPosition /\ of = {}
            \/ of = {declMap[d]}
            \/ declMap[d] = Ambiguous /\ \E i, j \in of : i # j

(* While a name is looked up, what was found is exactly what is visible on *)
(* the part of the chain behind the cursor.                                *)
FindExact ==
    pc = "find" =>
        LET behind == {i \in Chain(wanted) :
                          columns[i].exported
                          /\ (cursor # NoPosition => i < cursor)} IN
        /\ cursor # NoPosition => cursor \in Chain(wanted)
        /\ \/ found = NoPosition /\ behind = {}
           \/ behind = {found}

(* The relation behaves as a list of columns searched by name.             *)
LookupSpec == Lookup!Spec

(* Every call returns: the chain loops end.                                *)
LoopsEnd == (pc # "idle") ~> (pc = "idle")

=============================================================================
