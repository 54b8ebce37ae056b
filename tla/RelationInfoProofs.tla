------------------------- MODULE RelationInfoProofs -------------------------
(***************************************************************************)
(* Proofs about RelationInfo, for any number of columns and any sets of    *)
(* identifiers and declarations.                                           *)
(***************************************************************************)
EXTENDS RelationInfo, SequenceTheorems, TLAPS

(* Where the loops of build_internal() are.  The column being linked is    *)
(* one of the relation's, everything before it is linked, and the chain    *)
(* walk only meets earlier columns of its name, in increasing order.       *)
Building ==
    pc \in {"emplace", "walk", "declare"} =>
        /\ position \in DOMAIN columns
        /\ limit = Len(columns)
        /\ position <= limit

Walking ==
    IF pc # "walk" THEN saw = {}
    ELSE /\ columns[position].id # NoName
         /\ cursor \in 1..(position - 1)
         /\ columns[cursor].id = columns[position].id
         /\ \A p \in saw : p < cursor

Finding ==
    IF pc # "find" THEN found = NoPosition
    ELSE /\ wanted \in Names
         /\ cursor # NoPosition => cursor \in Chain(wanted)

IInv ==
    /\ TypeOK
    /\ Building
    /\ Walking
    /\ Finding
    /\ HeadExact
    /\ NextExact

-----------------------------------------------------------------------------
(* The facts about the variables' shapes that every step below uses.       *)
LEMMA Shape ==
    ASSUME TypeOK
    PROVE  /\ Len(columns) \in Nat
           /\ DOMAIN columns = 1..Len(columns)
           /\ \A i \in DOMAIN columns :
                 /\ columns[i] \in Column
                 /\ columns[i].id \in Names \cup {NoName}
           /\ DOMAIN next = 1..Len(columns)
           /\ DOMAIN columns \subseteq Positions
<1>1. columns \in Seq(Column)
  BY DEF TypeOK
<1>2. Len(columns) \in Nat /\ DOMAIN columns = 1..Len(columns)
  BY <1>1, LenProperties
<1>3. \A i \in DOMAIN columns : columns[i] \in Column
  BY <1>1, <1>2, ElementOfSeq
<1>4. DOMAIN columns \subseteq Positions
  BY <1>2, MaxColumnsAssumption DEF TypeOK, Positions
<1>5. QED
  BY <1>2, <1>3, <1>4 DEF TypeOK, Column, Lookup!Column

LEMMA InitInv == Init => IInv
<1> SUFFICES ASSUME Init PROVE IInv
  OBVIOUS
<1>1. columns = <<>> /\ next = <<>> /\ Len(columns) = 0 /\ DOMAIN columns = {}
  BY DEF Init
<1>2. TypeOK
  BY <1>1, MaxColumnsAssumption
  DEF Init, TypeOK, Pointers, Positions, NoPosition, Ambiguous
<1>3. QED
  BY <1>1, <1>2
  DEF Init, IInv, Building, Walking, Finding, HeadExact, NextExact, Chain, Linked

LEMMA AddInv ==
    ASSUME IInv, NEW column \in Column, Add(column)
    PROVE  IInv'
<1> USE DEF NoPosition, Ambiguous
<1>1. TypeOK /\ pc = "idle" /\ Len(columns) < MaxColumns
  BY DEF IInv, Add
<1>2. /\ columns' \in Seq(Column)
      /\ Len(columns') = Len(columns) + 1
      /\ DOMAIN columns' = 1..(Len(columns) + 1)
      /\ \A i \in 1..Len(columns) : columns'[i] = columns[i]
      /\ columns'[Len(columns) + 1] = column
  BY <1>1, AppendProperties, LenProperties DEF Add, TypeOK
<1>3. /\ next' \in [1..(Len(columns) + 1) -> Pointers]
      /\ \A i \in 1..Len(columns) : next'[i] = next[i]
      /\ next'[Len(columns) + 1] = NoPosition
  <2>1. next \in Seq(Pointers) /\ Len(next) = Len(columns)
    BY <1>1, Shape DEF TypeOK
  <2>2. next' = Append(next, NoPosition) /\ NoPosition \in Pointers
    BY DEF Add, Pointers
  <2>3. /\ next' \in Seq(Pointers)
        /\ Len(next') = Len(next) + 1
        /\ \A i \in 1..Len(next) : next'[i] = next[i]
        /\ next'[Len(next) + 1] = NoPosition
    BY <2>1, <2>2, AppendProperties
  <2>4. QED
    BY <2>1, <2>3, LenProperties
<1>4. TypeOK'
  BY <1>1, <1>2, <1>3, Shape, MaxColumnsAssumption
  DEF TypeOK, Add, finding, Pointers, Positions
<1>5. Building' /\ Walking' /\ Finding'
  BY <1>1, <1>2, Shape DEF IInv, Building, Walking, Finding, Add, finding
<1>6. /\ Linked = 1..Len(columns)
      /\ Linked' = 1..Len(columns)
      /\ \A name : Chain(name)' = Chain(name)
  BY <1>1, <1>2, Shape DEF Linked, Chain, Add
<1>7. HeadExact'
  BY <1>6 DEF IInv, HeadExact, Add
<1>8. NextExact'
  BY <1>1, <1>2, <1>3, <1>6, Shape DEF IInv, NextExact
<1>9. QED
  BY <1>4, <1>5, <1>7, <1>8 DEF IInv

LEMMA RenameInv ==
    ASSUME IInv, NEW names \in NameLists, Rename(names)
    PROVE  IInv'
<1> USE DEF NoPosition, Ambiguous
<1> DEFINE n == Len(names)
<1>1. /\ TypeOK /\ pc = "idle"
      /\ n \in 1..Len(columns)
      /\ names \in [1..n -> Names]
  <2>1. PICK k \in 1..MaxColumns : names \in [1..k -> Names]
    BY DEF NameLists, Lookup!NameLists
  <2>2. k \in Nat /\ Len(names) = k
    BY <2>1, MaxColumnsAssumption
  <2>3. QED
    BY <2>1, <2>2 DEF IInv, Rename
<1>2. /\ columns' \in [1..n -> Column]
      /\ next' = [i \in 1..n |-> NoPosition]
  <2>1. \A i \in 1..n : i \in DOMAIN columns /\ columns[i] \in Column
    BY <1>1, Shape
  <2>2. \A i \in 1..n : [columns[i] EXCEPT !.id = names[i]] \in Column
    BY <1>1, <2>1 DEF Column, Lookup!Column
  <2>3. QED
    BY <2>2 DEF Rename
<1>3. /\ columns' \in Seq(Column) /\ Len(columns') = n
      /\ DOMAIN columns' = 1..n
      /\ n \in Nat /\ n <= MaxColumns
  <2>1. n \in Nat /\ n <= MaxColumns
    BY <1>1, Shape, MaxColumnsAssumption DEF TypeOK
  <2>2. columns' \in Seq(Column)
    BY <1>2, <2>1, SeqDef
  <2>3. QED
    BY <1>2, <2>1, <2>2, LenProperties
<1>4. TypeOK'
  BY <1>1, <1>2, <1>3, Shape, MaxColumnsAssumption
  DEF TypeOK, Rename, finding, Pointers, Positions
<1>5. Building' /\ Walking' /\ Finding'
  BY <1>1, <1>2, <1>3 DEF IInv, Building, Walking, Finding, Rename, finding
<1>6. Linked' = {} /\ \A name : Chain(name)' = {}
  BY DEF Linked, Chain, Rename
<1>7. HeadExact'
  BY <1>6 DEF HeadExact, Rename
<1>8. NextExact'
  BY <1>2, <1>6 DEF NextExact
<1>9. QED
  BY <1>4, <1>5, <1>7, <1>8 DEF IInv

LEMMA HideInv ==
    ASSUME IInv, NEW i \in DOMAIN columns, Hide(i)
    PROVE  IInv'
<1>1. /\ TypeOK /\ pc = "idle" /\ columns \in Seq(Column)
      /\ columns[i] \in Column /\ i \in 1..Len(columns)
  BY Shape DEF IInv, Hide, TypeOK
<1> DEFINE hidden == [columns[i] EXCEPT !.exported = FALSE]
<1>2. hidden \in Column /\ hidden.id = columns[i].id
  BY <1>1 DEF Column, Lookup!Column
<1>3. /\ columns' \in Seq(Column)
      /\ Len(columns') = Len(columns)
      /\ \A j \in 1..Len(columns) :
            columns'[j] = IF j = i THEN hidden ELSE columns[j]
  <2>1. columns' = [columns EXCEPT ![i] = hidden]
    BY <1>1 DEF Hide
  <2>2. QED
    BY <1>1, <1>2, <2>1, ExceptSeq
<1>4. /\ DOMAIN columns' = DOMAIN columns
      /\ \A j \in DOMAIN columns : columns'[j].id = columns[j].id
  BY <1>1, <1>2, <1>3, LenProperties
<1>5. UNCHANGED <<next, nameMap, declMap, pc, position, limit, saw, cursor,
                  wanted, found, answer>>
  BY DEF Hide, building, finding
<1>6. TypeOK'
  BY <1>1, <1>3, <1>4, <1>5 DEF TypeOK
<1>7. Building' /\ Walking' /\ Finding'
  BY <1>1, <1>5 DEF IInv, Building, Walking, Finding
<1>8. Linked' = Linked /\ \A name : Chain(name)' = Chain(name)
  BY <1>1, <1>4, <1>5 DEF Linked, Chain
<1>9. HeadExact' /\ NextExact'
  BY <1>4, <1>5, <1>8 DEF IInv, HeadExact, NextExact
<1>10. QED
  BY <1>6, <1>7, <1>9 DEF IInv

LEMMA EmplaceInv ==
    ASSUME IInv, Emplace
    PROVE  IInv'
<1> USE DEF NoPosition, Ambiguous
<1> DEFINE name == columns[position].id
<1>1. /\ TypeOK /\ pc = "emplace"
      /\ position \in 1..Len(columns) /\ limit = Len(columns)
      /\ position \in Nat /\ position <= limit
      /\ name \in Names \cup {NoName}
      /\ Linked = 1..(position - 1)
      /\ UNCHANGED <<columns, next, declMap, position, limit, wanted, found,
                     answer, saw>>
  BY Shape DEF IInv, Building, Emplace, finding, Linked
<1>2. DOMAIN columns = 1..Len(columns) /\ Len(columns) \in Nat
  BY <1>1, Shape
<1>3. CASE name = NoName
  <2>1. pc' = "declare" /\ UNCHANGED <<nameMap, cursor>>
    BY <1>3 DEF Emplace
  <2>2. /\ Linked' = 1..position
        /\ \A x \in Names : Chain(x)' = Chain(x)
    BY <1>1, <1>2, <1>3, <2>1, NamesAssumption DEF Linked, Chain
  <2>3. TypeOK' /\ Building' /\ Walking' /\ Finding'
    BY <1>1, <1>2, <2>1 DEF IInv, TypeOK, Building, Walking, Finding
  <2>4. HeadExact'
    BY <2>1, <2>2 DEF IInv, HeadExact
  <2>5. NextExact'
    BY <1>1, <1>2, <1>3, <2>1, <2>2, Shape DEF IInv, NextExact, Chain
  <2>6. QED
    BY <2>3, <2>4, <2>5 DEF IInv
<1>4. CASE name # NoName /\ nameMap[name] = NoPosition
  <2>1. /\ pc' = "declare" /\ UNCHANGED cursor
        /\ nameMap' = [nameMap EXCEPT ![name] = position]
        /\ name \in Names
        /\ Chain(name) = {}
    BY <1>1, <1>4, <1>2 DEF Emplace, IInv, HeadExact, Chain
  <2>2. /\ Linked' = 1..position
        /\ Chain(name)' = {position}
        /\ \A x \in Names : x # name => Chain(x)' = Chain(x)
    BY <1>1, <1>2, <2>1 DEF Linked, Chain
  <2>3. TypeOK'
    BY <1>1, <1>2, <2>1, Shape DEF TypeOK, Pointers
  <2>4. Building' /\ Walking' /\ Finding'
    BY <1>1, <1>2, <2>1 DEF IInv, Building, Walking, Finding
  <2>5. HeadExact'
    <3> SUFFICES ASSUME NEW x \in Names
                 PROVE  \/ nameMap'[x] = NoPosition /\ Chain(x)' = {}
                        \/ /\ nameMap'[x] \in Chain(x)'
                           /\ \A i \in Chain(x)' : nameMap'[x] <= i
      BY DEF HeadExact
    <3>1. CASE x = name
      BY <1>1, <2>1, <2>2, <3>1 DEF TypeOK
    <3>2. CASE x # name
      BY <2>1, <2>2, <3>2 DEF IInv, HeadExact, TypeOK
    <3>3. QED
      BY <3>1, <3>2
  <2>6. NextExact'
    BY <1>1, <1>2, <2>1, <2>2, Shape DEF IInv, NextExact, Chain
  <2>7. QED
    BY <2>3, <2>4, <2>5, <2>6 DEF IInv
<1>5. CASE name # NoName /\ nameMap[name] # NoPosition
  <2>1. /\ pc' = "walk" /\ UNCHANGED nameMap
        /\ cursor' = nameMap[name]
        /\ name \in Names
    BY <1>1, <1>5 DEF Emplace
  <2>2. cursor' \in Chain(name)
    BY <1>5, <2>1 DEF IInv, HeadExact
  <2>3. saw = {} /\ saw' = {}
    BY <1>1 DEF IInv, Walking
  <2>4. Linked' = Linked /\ \A x : Chain(x)' = Chain(x)
    BY <1>1, <2>1 DEF Linked, Chain
  <2>5. cursor' \in 1..(position - 1) /\ columns[cursor'].id = name
    BY <1>1, <2>2 DEF Chain
  <2>6. TypeOK'
    BY <1>1, <2>1, <1>2 DEF TypeOK, Pointers
  <2>7. Building' /\ Walking' /\ Finding'
    BY <1>1, <1>2, <1>5, <2>1, <2>3, <2>5 DEF IInv, Building, Walking, Finding
  <2>8. HeadExact' /\ NextExact'
    BY <1>1, <2>1, <2>4 DEF IInv, HeadExact, NextExact
  <2>9. QED
    BY <2>6, <2>7, <2>8 DEF IInv
<1>6. QED
  BY <1>1, <1>3, <1>4, <1>5

LEMMA WalkInv ==
    ASSUME IInv, Walk
    PROVE  IInv'
<1> USE DEF NoPosition, Ambiguous
<1> DEFINE name == columns[position].id
<1>1. /\ TypeOK /\ pc = "walk"
      /\ position \in 1..Len(columns) /\ limit = Len(columns)
      /\ position \in Nat /\ position <= limit
      /\ name \in Names
      /\ Linked = 1..(position - 1)
      /\ cursor \in 1..(position - 1)
      /\ columns[cursor].id = name
      /\ \A p \in saw : p < cursor
      /\ UNCHANGED <<columns, nameMap, declMap, position, limit, wanted, found,
                     answer>>
  BY Shape DEF IInv, Building, Walking, Walk, finding, Linked
<1>2. DOMAIN columns = 1..Len(columns) /\ Len(columns) \in Nat
  BY <1>1, Shape
<1>3. cursor # Ambiguous /\ cursor \notin saw /\ cursor \in DOMAIN columns
  BY <1>1, <1>2
<1> DEFINE later == {j \in Chain(name) : cursor < j}
<1>4. IF later = {} THEN next[cursor] = NoPosition
      ELSE next[cursor] \in later /\ \A j \in later : next[cursor] <= j
  BY <1>1, <1>3, NamesAssumption DEF IInv, NextExact
<1>5. CASE next[cursor] # NoPosition
  <2>1. /\ pc' = "walk" /\ UNCHANGED next
        /\ cursor' = next[cursor]
        /\ saw' = saw \cup {cursor}
    BY <1>1, <1>3, <1>5 DEF Walk
  <2>2. /\ cursor' \in 1..(position - 1)
        /\ columns[cursor'].id = name
        /\ cursor < cursor'
    BY <1>1, <1>4, <1>5, <2>1 DEF Chain
  <2>3. Linked' = Linked /\ \A x : Chain(x)' = Chain(x)
    BY <1>1, <2>1 DEF Linked, Chain
  <2>4. TypeOK'
    BY <1>1, <1>2, <2>1, <2>2, Shape DEF TypeOK, Pointers
  <2>5. Building' /\ Walking' /\ Finding'
    <3>1. \A p \in saw' : p < cursor'
      BY <1>1, <2>1, <2>2 DEF TypeOK, Positions
    <3>2. Building' /\ Finding'
      BY <1>1, <2>1 DEF IInv, Building, Finding
    <3>3. QED
      BY <1>1, <2>1, <2>2, <3>1, <3>2, NamesAssumption DEF Walking
  <2>6. HeadExact' /\ NextExact'
    BY <1>1, <2>1, <2>3 DEF IInv, HeadExact, NextExact
  <2>7. QED
    BY <2>4, <2>5, <2>6 DEF IInv
<1>6. CASE next[cursor] = NoPosition
  <2>1. /\ pc' = "declare" /\ saw' = {}
        /\ cursor' = NoPosition
        /\ next' = [next EXCEPT ![cursor] = position]
    BY <1>1, <1>3, <1>6 DEF Walk
  <2>2. later = {}
    BY <1>1, <1>2, <1>4, <1>6 DEF Chain
  <2>3. /\ Linked' = 1..position
        /\ Chain(name)' = Chain(name) \cup {position}
        /\ \A x : x # name => Chain(x)' = Chain(x)
    BY <1>1, <1>2, <2>1 DEF Linked, Chain
  <2>4. TypeOK'
    BY <1>1, <1>2, <2>1, Shape DEF TypeOK, Pointers
  <2>5. Building' /\ Walking' /\ Finding'
    BY <1>1, <1>2, <2>1 DEF IInv, Building, Walking, Finding
  <2>6. HeadExact'
    <3>1. nameMap[name] \in Chain(name)
      BY <1>1, <1>3 DEF IInv, HeadExact, Chain
    <3>2. QED
      BY <1>1, <1>2, <2>3, <3>1 DEF IInv, HeadExact, Chain
  <2>7. NextExact'
    <3> SUFFICES ASSUME NEW i \in DOMAIN columns
        PROVE LET after == {j \in Chain(columns[i].id)' : i < j /\ i \in Linked'}
              IN  IF columns[i].id = NoName \/ after = {}
                  THEN next'[i] = NoPosition
                  ELSE next'[i] \in after /\ \A j \in after : next'[i] <= j
      BY <1>1 DEF NextExact
    <3> DEFINE before == {j \in Chain(columns[i].id) : i < j /\ i \in Linked}
               after == {j \in Chain(columns[i].id)' : i < j /\ i \in Linked'}
    <3>1. IF columns[i].id = NoName \/ before = {}
          THEN next[i] = NoPosition
          ELSE next[i] \in before /\ \A j \in before : next[i] <= j
      BY DEF IInv, NextExact
    <3>2. CASE i = cursor
      <4>1. after = {j \in Chain(name) \cup {position} : cursor < j}
        BY <1>1, <1>2, <2>3, <3>2
      <4>2. after = {position}
        BY <1>1, <2>2, <4>1
      <4>3. next'[i] = position
        BY <1>1, <1>3, <2>1, <3>2 DEF TypeOK
      <4>4. QED
        BY <1>1, <4>2, <4>3, <3>2, NamesAssumption
    <3>3. CASE i # cursor /\ i \in Chain(name)
      <4>1. i < cursor /\ cursor \in before
        BY <1>1, <2>2, <3>3 DEF Chain
      <4>2. after = before \cup {position}
        BY <1>1, <1>2, <2>3, <3>3, <4>1 DEF Chain
      <4>3. next'[i] = next[i]
        BY <1>1, <2>1, <3>3 DEF TypeOK
      <4>4. QED
        BY <1>1, <1>2, <3>1, <3>3, <4>1, <4>2, <4>3 DEF Chain
    <3>4. CASE i # cursor /\ i \notin Chain(name)
      <4>1. next'[i] = next[i]
        BY <1>1, <2>1, <3>4 DEF TypeOK
      <4>2. columns[i].id = name => i >= position
        BY <1>1, <1>2, <3>4 DEF Chain
      <4>3. after = before
        BY <1>1, <1>2, <2>3, <4>2 DEF Chain
      <4>4. QED
        BY <3>1, <4>1, <4>3
    <3>5. QED
      BY <3>2, <3>3, <3>4
  <2>8. QED
    BY <2>4, <2>5, <2>6, <2>7 DEF IInv
<1>7. QED
  BY <1>5, <1>6

LEMMA DeclareInv ==
    ASSUME IInv, Declare
    PROVE  IInv'
<1> USE DEF NoPosition, Ambiguous
<1>1. /\ TypeOK /\ pc = "declare"
      /\ position \in 1..Len(columns) /\ limit = Len(columns)
      /\ Linked = 1..position
      /\ UNCHANGED <<columns, next, nameMap, cursor, saw, wanted, found, answer>>
      /\ saw = {}
  BY Shape DEF IInv, Building, Walking, Declare, finding, Linked
<1>2. DOMAIN columns = 1..Len(columns) /\ Len(columns) \in Nat
  BY <1>1, Shape
<1>3. /\ \/ /\ position < limit /\ position' = position + 1
            /\ pc' = "emplace" /\ limit' = limit
         \/ /\ position = limit /\ position' = NoPosition
            /\ limit' = NoPosition /\ pc' = "idle"
      /\ declMap' \in [Declarations -> Pointers]
  BY <1>1, <1>2, Shape DEF Declare, TypeOK, Pointers
<1>4. TypeOK'
  BY <1>1, <1>2, <1>3, Shape, MaxColumnsAssumption DEF TypeOK, Pointers, Positions
<1>5. Building' /\ Walking' /\ Finding'
  BY <1>1, <1>2, <1>3 DEF IInv, Building, Walking, Finding
<1>6. Linked' = Linked /\ \A x : Chain(x)' = Chain(x)
  BY <1>1, <1>2, <1>3 DEF Linked, Chain
<1>7. HeadExact' /\ NextExact'
  BY <1>1, <1>6 DEF IInv, HeadExact, NextExact
<1>8. QED
  BY <1>4, <1>5, <1>7 DEF IInv

LEMMA FindBeginInv ==
    ASSUME IInv, NEW name \in Names, FindBegin(name)
    PROVE  IInv'
<1>1. /\ TypeOK /\ pc = "idle" /\ pc' = "find"
      /\ wanted' = name /\ cursor' = nameMap[name]
      /\ UNCHANGED <<columns, next, nameMap, declMap, position, limit, saw,
                     found, answer>>
  BY DEF IInv, FindBegin, links, building
<1>2. TypeOK'
  BY <1>1 DEF TypeOK
<1>3. Linked' = Linked /\ \A x : Chain(x)' = Chain(x)
  BY <1>1 DEF Linked, Chain
<1>4. Building' /\ Walking' /\ Finding'
  BY <1>1, <1>3 DEF IInv, Building, Walking, Finding, HeadExact
<1>5. HeadExact' /\ NextExact'
  BY <1>1, <1>3 DEF IInv, HeadExact, NextExact
<1>6. QED
  BY <1>2, <1>4, <1>5 DEF IInv

LEMMA FindInv ==
    ASSUME IInv, Find
    PROVE  IInv'
<1> USE DEF NoPosition, Ambiguous
<1>1. /\ TypeOK /\ pc = "find" /\ pc' \in {"find", "idle"}
      /\ UNCHANGED <<columns, next, nameMap, declMap, position, limit, saw>>
      /\ wanted \in Names
      /\ cursor # NoPosition => cursor \in Chain(wanted)
  BY DEF IInv, Finding, Find, links, building, FindHidden, FindVisible,
         FindAnother, FindEnd, FindReturn
<1>2. Linked' = Linked /\ \A x : Chain(x)' = Chain(x) /\ Linked = DOMAIN columns
  BY <1>1 DEF Linked, Chain
<1>3. CASE FindHidden \/ FindVisible
  <2>1. /\ cursor \in DOMAIN columns /\ columns[cursor].id = wanted
        /\ cursor' = next[cursor] /\ wanted' = wanted /\ answer' = answer
        /\ found' \in {found, cursor} /\ pc' = "find"
    BY <1>1, <1>2, <1>3 DEF FindHidden, FindVisible, Chain
  <2>2. cursor' # NoPosition => cursor' \in Chain(wanted)
    BY <1>1, <1>2, <2>1 DEF IInv, NextExact
  <2>3. TypeOK'
    BY <1>1, <2>1, Shape DEF TypeOK, Pointers
  <2>4. Building' /\ Walking' /\ Finding'
    BY <1>1, <1>2, <2>1, <2>2 DEF IInv, Building, Walking, Finding
  <2>5. QED
    BY <1>1, <1>2, <2>3, <2>4 DEF IInv, HeadExact, NextExact
<1>4. CASE FindAnother \/ FindEnd
  <2>1. /\ pc' = "idle" /\ cursor' = NoPosition /\ found' = NoPosition
        /\ wanted' = NoName /\ answer' \in {found, Ambiguous}
    BY <1>4 DEF FindAnother, FindEnd, FindReturn
  <2>2. TypeOK'
    BY <1>1, <2>1 DEF TypeOK, Pointers
  <2>3. Building' /\ Walking' /\ Finding'
    BY <1>1, <2>1 DEF IInv, Building, Walking, Finding
  <2>4. QED
    BY <1>1, <1>2, <2>2, <2>3 DEF IInv, HeadExact, NextExact
<1>5. QED
  BY <1>3, <1>4 DEF Find

(* Type correctness, the exact head and successor of every chain, and that *)
(* no chain is ever cyclic: the sentinel that build_internal() guards      *)
(* against ("FIXME: avoid cyclic reference") never appears.                *)
LEMMA Invariance == Spec => []IInv
<1>1. IInv /\ [Next]_vars => IInv'
  <2> SUFFICES ASSUME IInv, [Next]_vars PROVE IInv'
    OBVIOUS
  <2>1. CASE Operation
    BY <2>1, AddInv, RenameInv, HideInv, FindBeginInv DEF Operation
  <2>2. CASE Loop
    BY <2>2, EmplaceInv, WalkInv, DeclareInv, FindInv DEF Loop
  <2>3. CASE UNCHANGED vars
    <3>1. Linked' = Linked /\ \A x : Chain(x)' = Chain(x)
      BY <2>3 DEF vars, links, building, finding, Linked, Chain
    <3>2. QED
      BY <2>3, <3>1
      DEF vars, links, building, finding, IInv, TypeOK, Building, Walking,
          Finding, HeadExact, NextExact
  <2>4. QED
    BY <2>1, <2>2, <2>3 DEF Next
<1>2. QED
  BY InitInv, <1>1, PTL DEF Spec

(* Every map entry and every successor is a position or a sentinel.        *)
THEOREM TypeCorrect == Spec => []TypeOK
<1>1. IInv => TypeOK
  BY DEF IInv
<1>2. QED
  BY Invariance, <1>1, PTL

(* name_map_ and the chains lead to exactly the columns of a name, and no  *)
(* chain is ever cyclic.                                                   *)
THEOREM ChainsExact == Spec => []LinksExact
<1>1. IInv => NeverCyclic
  <2> SUFFICES ASSUME IInv PROVE NeverCyclic
    OBVIOUS
  <2>1. TypeOK
    BY DEF IInv
  <2>2. \A i \in DOMAIN next : next[i] # Ambiguous
    BY <2>1, Shape DEF IInv, NextExact, Ambiguous, NoPosition, Chain, Linked
  <2>3. pc = "walk" => cursor \in (1..(position - 1)) \ saw
    BY DEF IInv, Walking
  <2>4. QED
    BY <2>2, <2>3 DEF NeverCyclic
<1>2. IInv => LinksExact
  BY <1>1 DEF IInv, LinksExact
<1>3. QED
  BY Invariance, <1>2, PTL

-----------------------------------------------------------------------------
(* The lookup loop never forgets a visible column it has passed.           *)
LEMMA FindExactStep ==
    ASSUME IInv, FindExact, [Next]_vars
    PROVE  FindExact'
<1> USE DEF NoPosition, Ambiguous
<1>1. TypeOK
  BY DEF IInv
<1>2. CASE \E name \in Names : FindBegin(name)
  <2>1. PICK name \in Names : FindBegin(name)
    BY <1>2
  <2>2. /\ pc = "idle" /\ pc' = "find" /\ wanted' = name /\ cursor' = nameMap[name]
        /\ columns' = columns /\ found' = NoPosition
    BY <2>1 DEF FindBegin, links, IInv, Finding
  <2>3. Chain(name)' = Chain(name)
    BY <2>2 DEF Linked, Chain
  <2>4. \/ cursor' = NoPosition /\ Chain(name) = {}
        \/ cursor' \in Chain(name) /\ \A i \in Chain(name) : cursor' <= i
    BY <2>2 DEF IInv, HeadExact
  <2>5. {i \in Chain(name) : columns[i].exported
                               /\ (cursor' # NoPosition => i < cursor')} = {}
    <3>1. CASE Chain(name) = {}
      BY <3>1
    <3>2. CASE cursor' \in Chain(name) /\ \A i \in Chain(name) : cursor' <= i
      <4>1. Chain(name) \subseteq 1..Len(columns) /\ Len(columns) \in Nat
        BY <1>1, <2>2, Shape DEF Chain, Linked
      <4>2. cursor' # NoPosition /\ \A i \in Chain(name) : ~(i < cursor')
        BY <3>2, <4>1
      <4>3. QED
        BY <4>2
    <3>3. QED
      BY <2>4, <3>1, <3>2
  <2>6. cursor' # NoPosition => cursor' \in Chain(name)
    BY <2>4
  <2>7. QED
    BY <2>2, <2>3, <2>5, <2>6 DEF FindExact
<1>3. CASE pc = "find" /\ (FindHidden \/ FindVisible) /\ UNCHANGED links
  <2>1. /\ pc' = "find" /\ UNCHANGED <<columns, next, nameMap, wanted>>
        /\ cursor # NoPosition /\ cursor \in Chain(wanted)
        /\ wanted \in Names /\ cursor' = next[cursor]
        /\ columns[cursor].exported \in BOOLEAN
    BY <1>1, <1>3, Shape DEF FindHidden, FindVisible, links, IInv, Finding,
       Chain, Column, Lookup!Column, Linked
  <2>2. /\ Linked = 1..Len(columns) /\ Len(columns) \in Nat
        /\ DOMAIN columns = 1..Len(columns)
        /\ \A x : Chain(x)' = Chain(x)
        /\ columns[cursor].id = wanted
    BY <1>1, <1>3, <2>1, Shape DEF Linked, Chain
  <2> DEFINE later == {j \in Chain(wanted) : cursor < j}
             behind == {i \in Chain(wanted) : columns[i].exported /\ i < cursor}
             behindNext == {i \in Chain(wanted) :
                   columns[i].exported /\ (cursor' # NoPosition => i < cursor')}
  <2>3. IF later = {} THEN cursor' = NoPosition
        ELSE cursor' \in later /\ \A j \in later : cursor' <= j
    BY <2>1, <2>2, NamesAssumption DEF IInv, NextExact, Chain
  <2>4. \A i \in Chain(wanted) : i < cursor \/ i = cursor \/ i \in later
    BY <2>1, <2>2 DEF Chain
  <2>5. behindNext = IF columns[cursor].exported THEN behind \cup {cursor} ELSE behind
    BY <2>1, <2>2, <2>3, <2>4 DEF Chain
  <2>6. \/ found = NoPosition /\ behind = {}
        \/ behind = {found}
    BY <1>3, <2>1 DEF FindExact
  <2>7. \/ found' = NoPosition /\ behindNext = {}
        \/ behindNext = {found'}
    <3>1. found \in Nat \cup {Ambiguous} /\ Chain(wanted) \subseteq 1..Len(columns)
      BY <1>1, <2>2, MaxColumnsAssumption DEF TypeOK, Pointers, Positions, Chain
    <3>2. CASE FindHidden
      BY <3>2, <2>5, <2>6 DEF FindHidden
    <3>3. CASE FindVisible
      BY <3>1, <3>3, <2>1, <2>5, <2>6 DEF FindVisible
    <3>4. QED
      BY <1>3, <3>2, <3>3
  <2>8. cursor' # NoPosition => cursor' \in Chain(wanted)
    BY <2>3
  <2>9. QED
    BY <2>1, <2>2, <2>7, <2>8 DEF FindExact
<1>4. CASE UNCHANGED vars
  <2>1. \A x : Chain(x)' = Chain(x)
    BY <1>4 DEF vars, links, building, finding, Linked, Chain
  <2>2. QED
    BY <1>4, <2>1 DEF FindExact, vars, links, building, finding
<1>5. CASE pc' # "find"
  BY <1>5 DEF FindExact
<1>6. QED
  <2>1. CASE Operation
    BY <1>2, <1>5, <2>1 DEF Operation, Add, Rename, Hide
  <2>2. CASE Loop
    BY <1>3, <1>5, <2>2 DEF Loop, Emplace, Walk, Declare, Find, FindAnother,
       FindEnd, FindReturn, links
  <2>3. QED
    BY <1>4, <2>1, <2>2 DEF Next

(* The lookup loop of find_column_in_relation() has seen exactly the       *)
(* visible columns of the name behind its cursor.                          *)
THEOREM LookupExact == Spec => []FindExact
<1>1. Init => FindExact
  BY DEF Init, FindExact
<1>2. QED
  BY <1>1, Invariance, FindExactStep, PTL DEF Spec

-----------------------------------------------------------------------------
(* The columns whose declaration build_internal() has entered, and what    *)
(* the map says of each declaration meanwhile.                             *)
Entered ==
    IF pc \in {"emplace", "walk", "declare"} THEN 1..(position - 1) ELSE DOMAIN columns
Entry(of, entry) ==
    \/ entry = NoPosition /\ of = {}
    \/ of = {entry}
    \/ entry = Ambiguous /\ \E i, j \in of : i # j
EntriesExact ==
    \A d \in Declarations : Entry({i \in Entered : columns[i].declaration = d}, declMap[d])

LEMMA EntriesStep == IInv /\ EntriesExact /\ [Next]_vars => EntriesExact'
<1> SUFFICES ASSUME IInv, EntriesExact, [Next]_vars
             PROVE  EntriesExact'
  OBVIOUS
<1>1. /\ TypeOK /\ Building
      /\ Len(columns) \in Nat /\ DOMAIN columns = 1..Len(columns)
  BY Shape DEF IInv
<1>2. ASSUME Entered' = Entered, declMap' = declMap,
             \A i \in Entered : columns'[i].declaration = columns[i].declaration
      PROVE  EntriesExact'
  BY <1>2 DEF EntriesExact
<1>3. ASSUME NEW column \in Column, Add(column)
      PROVE  EntriesExact'
  <2>1. \A i \in 1..Len(columns) : columns'[i] = columns[i]
    BY <1>1, <1>3, AppendProperties DEF Add, TypeOK
  <2>2. Entered = 1..Len(columns) /\ Entered' = 1..Len(columns) /\ declMap' = declMap
    BY <1>1, <1>3 DEF Add, Entered
  <2> QED BY <1>2, <2>1, <2>2
<1>4. ASSUME NEW names, Rename(names)
      PROVE  EntriesExact'
  <2>1. Entered' = {} /\ declMap' = [d \in Declarations |-> NoPosition]
    BY <1>4 DEF Rename, Entered
  <2> QED BY <2>1 DEF EntriesExact, Entry
<1>5. ASSUME NEW i \in DOMAIN columns, Hide(i)
      PROVE  EntriesExact'
  <2>1. /\ DOMAIN columns' = DOMAIN columns
        /\ \A j \in DOMAIN columns : columns'[j].declaration = columns[j].declaration
    BY <1>1, <1>5, Shape DEF Hide, Column, Lookup!Column
  <2>2. Entered = DOMAIN columns /\ Entered' = DOMAIN columns /\ declMap' = declMap
    BY <1>5, <2>1 DEF Hide, Entered
  <2> QED BY <1>2, <2>1, <2>2
<1>6. CASE UNCHANGED <<columns, declMap>> /\ Entered' = Entered
  BY <1>2, <1>6
<1>7. ASSUME NEW name \in Names, FindBegin(name)
      PROVE  EntriesExact'
  BY <1>6, <1>7 DEF FindBegin, links, building, Entered
<1>8. CASE Find
  BY <1>6, <1>8 DEF Find, FindHidden, FindVisible, FindAnother, FindEnd, FindReturn, links, building,
                    Entered
<1>9. CASE Emplace \/ Walk
  BY <1>6, <1>9 DEF Emplace, Walk, finding, Entered
<1>10. CASE Declare
  <2>1. /\ position \in 1..Len(columns) /\ limit = Len(columns) /\ columns' = columns
        /\ Entered = 1..(position - 1) /\ declMap \in [Declarations -> Pointers]
    BY <1>1, <1>10 DEF Building, TypeOK, Declare, Entered
  <2>2. Entered' = Entered \cup {position} /\ position \notin Entered
    <3>1. CASE position < limit
      <4>1. pc' = "emplace" /\ position' = position + 1
        BY <1>10, <2>1, <3>1 DEF Declare
      <4> QED BY <2>1, <4>1 DEF Entered
    <3>2. CASE position = limit
      <4>1. pc' = "idle"
        BY <1>10, <2>1, <3>2 DEF Declare
      <4> QED BY <1>1, <2>1, <3>2, <4>1 DEF Entered
    <3> QED BY <1>10, <3>1, <3>2 DEF Declare
  <2>3. ASSUME NEW d \in Declarations
        PROVE  Entry({i \in Entered' : columns'[i].declaration = d}, declMap'[d])
    <3> DEFINE of == {i \in Entered : columns[i].declaration = d}
               ofNext == {i \in Entered' : columns'[i].declaration = d}
    <3>1. Entry(of, declMap[d]) /\ position \notin of
      BY <2>2 DEF EntriesExact
    <3>2. CASE columns[position].declaration # d
      <4>1. ofNext = of
        BY <2>1, <2>2, <3>2
      <4>2. declMap'[d] = declMap[d]
        BY <1>10, <2>1, <3>2 DEF Declare
      <4> QED BY <3>1, <4>1, <4>2
    <3>3. CASE columns[position].declaration = d
      <4>1. ofNext = of \cup {position}
        BY <2>1, <2>2, <3>3
      <4>2. declMap'[d] = IF declMap[d] = NoPosition THEN position ELSE Ambiguous
        BY <1>10, <2>1, <3>3, DeclarationsAssumption DEF Declare
      <4>3. CASE declMap[d] = NoPosition
        <5>1. NoPosition \notin of
          BY <2>1 DEF NoPosition
        <5>2. of = {}
          BY <3>1, <4>3, <5>1 DEF Entry, NoPosition, Ambiguous
        <5> QED BY <4>1, <4>2, <4>3, <5>2 DEF Entry
      <4>4. CASE declMap[d] # NoPosition
        <5>1. \E i \in of : TRUE
          BY <3>1, <4>4 DEF Entry
        <5> QED BY <3>1, <4>1, <4>2, <4>4, <5>1 DEF Entry
      <4> QED BY <4>3, <4>4
    <3> QED BY <3>2, <3>3
  <2> QED BY <2>3 DEF EntriesExact
<1>11. CASE UNCHANGED vars
  BY <1>6, <1>11 DEF vars, links, building, Entered
<1> QED BY <1>3, <1>4, <1>5, <1>7, <1>8, <1>9, <1>10, <1>11 DEF Next, Operation, Loop

(* declaration_map_ leads from a declaration to its only column, and is    *)
(* ambiguous exactly when two columns come from it, through any sequence   *)
(* of adds, renames and hides.                                             *)
THEOREM DeclarationsExact == Spec => []DeclarationExact
<1>1. Init => EntriesExact
  BY DEF Init, EntriesExact, Entered, Entry
<1>2. EntriesExact => DeclarationExact
  BY DEF EntriesExact, DeclarationExact, Entered, Entry
<1> QED BY <1>1, <1>2, Invariance, EntriesStep, PTL DEF Spec

-----------------------------------------------------------------------------
(* Refinement: maps and chains implement a plain search by name.           *)
LEMMA FindReturnsAnswer ==
    ASSUME IInv, FindExact, Find, FindAnother \/ FindEnd
    PROVE  Lookup!Find(wanted)
<1> USE DEF NoPosition, Ambiguous, Lookup!NoPosition, Lookup!Ambiguous
<1>1. /\ TypeOK /\ pc = "find" /\ columns' = columns
      /\ cursor # NoPosition => cursor \in Chain(wanted)
  BY DEF IInv, Finding, Find, links
<1>2. Lookup!Visible(wanted) = {i \in Chain(wanted) : columns[i].exported}
  BY <1>1 DEF Lookup!Visible, Chain, Linked
<1> DEFINE behind == {i \in Chain(wanted) :
              columns[i].exported /\ (cursor # NoPosition => i < cursor)}
<1>3. (found = NoPosition /\ behind = {}) \/ behind = {found}
  BY <1>1 DEF FindExact
<1>4. Chain(wanted) \subseteq DOMAIN columns /\ DOMAIN columns \subseteq Nat
  BY <1>1, Shape DEF Chain, Linked
<1>5. CASE FindEnd
  <2>1. cursor = NoPosition /\ answer' = found
    BY <1>5 DEF FindEnd, FindReturn
  <2>2. Lookup!Visible(wanted) = behind
    BY <1>2, <2>1
  <2>3. QED
    BY <1>1, <1>3, <1>4, <2>1, <2>2 DEF Lookup!Find, Lookup!IsAnswer
<1>6. CASE FindAnother
  <2>1. /\ cursor \in Chain(wanted) /\ columns[cursor].exported
        /\ found # NoPosition /\ answer' = Ambiguous
    BY <1>1, <1>6 DEF FindAnother, FindReturn
  <2>2. found \in Chain(wanted) /\ columns[found].exported /\ found < cursor
    BY <1>3, <2>1
  <2>3. /\ found \in Lookup!Visible(wanted) /\ cursor \in Lookup!Visible(wanted)
        /\ found # cursor
    BY <1>2, <1>4, <2>1, <2>2
  <2>4. QED
    BY <1>1, <2>1, <2>3 DEF Lookup!Find, Lookup!IsAnswer
<1>7. QED
  BY <1>5, <1>6

(* Name lookup through name_map_ and the chains behaves as a search over   *)
(* the column list.                                                        *)
THEOREM Refinement == Spec => LookupSpec
<1>1. Init => Lookup!Init
  BY DEF Init, Lookup!Init, NoPosition, Lookup!NoPosition
<1>2. IInv /\ FindExact /\ [Next]_vars => [Lookup!Next]_(Lookup!vars)
  <2> SUFFICES ASSUME IInv, FindExact, [Next]_vars
               PROVE  Lookup!Next \/ UNCHANGED <<columns, answer>>
    BY DEF Lookup!vars
  <2>1. ASSUME NEW column \in Column, Add(column) PROVE Lookup!Next
    BY <2>1 DEF Add, finding, Column, Lookup!Add, Lookup!Next
  <2>2. ASSUME NEW names \in NameLists, Rename(names) PROVE Lookup!Next
    <3>1. TypeOK
      BY DEF IInv
    <3>2. Len(names) <= Len(columns)
      BY <2>2, <3>1, Shape DEF Rename
    <3>3. QED
      BY <2>2, <3>2 DEF Rename, finding, NameLists, Lookup!Rename, Lookup!Next
  <2>3. ASSUME NEW i \in DOMAIN columns, Hide(i) PROVE Lookup!Next
    BY <2>3 DEF Hide, finding, Lookup!Hide, Lookup!Next
  <2>4. CASE Find /\ (FindAnother \/ FindEnd)
    <3>1. wanted \in Names
      BY <2>4 DEF Find, IInv, Finding
    <3>2. Lookup!Find(wanted)
      BY <2>4, FindReturnsAnswer
    <3>3. QED
      BY <3>1, <3>2 DEF Lookup!Next
  <2>5. CASE Operation
    BY <2>1, <2>2, <2>3, <2>5 DEF Operation, FindBegin, links
  <2>6. CASE Loop
    BY <2>4, <2>6 DEF Loop, Emplace, Walk, Declare, Find, FindHidden,
       FindVisible, finding, links
  <2>7. CASE UNCHANGED vars
    BY <2>7 DEF vars, links, finding
  <2>8. QED
    BY <2>5, <2>6, <2>7 DEF Next
<1>3. QED
  BY <1>1, <1>2, Invariance, LookupExact, PTL DEF LookupSpec, Lookup!Spec, Spec

=============================================================================
