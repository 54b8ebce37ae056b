---------------------------- MODULE ColumnLookup ----------------------------
(***************************************************************************)
(* What a relation promises to name resolution, without its maps and       *)
(* chains: it is a list of columns, and looking a name up answers with the *)
(* only visible column of that name, or says that there is none, or that   *)
(* there are several.  RelationInfo implements this specification.         *)
(***************************************************************************)
EXTENDS Naturals, Integers, Sequences, FiniteSets

CONSTANTS
    Names,          \* column identifiers, after normalisation
    NoName,         \* a column without identifier (an unnamed expression)
    Declarations,   \* the storage columns a column may come from
    NoDeclaration,  \* a column that is not taken from a table
    MaxColumns      \* bound: number of columns of one relation

(* Positions count from 1; 0 is the empty optional and -1 the sentinel     *)
(* relation_info::ambiguous, which is SIZE_MAX in the code.                *)
NoPosition == 0
Ambiguous == -1

Column == [id : Names \cup {NoName},
           declaration : Declarations \cup {NoDeclaration},
           exported : BOOLEAN]

VARIABLES
    columns,    \* the columns of the relation, in order
    answer      \* the last answer given: a position, NoPosition or Ambiguous

vars == <<columns, answer>>

Visible(name) ==
    {i \in DOMAIN columns : columns[i].id = name /\ columns[i].exported}

(* The right answer for a name.                                            *)
IsAnswer(name, a) ==
    \/ a = NoPosition /\ Visible(name) = {}
    \/ Visible(name) = {a}
    \/ a = Ambiguous /\ \E i, j \in Visible(name) : i # j

Init ==
    /\ columns = <<>>
    /\ answer = NoPosition

Add(column) ==
    /\ columns' = Append(columns, column)
    /\ UNCHANGED answer

(* A correlation clause renames the leading columns and drops the others.  *)
Rename(names) ==
    /\ Len(names) <= Len(columns)
    /\ columns' = [i \in 1..Len(names) |-> [columns[i] EXCEPT !.id = names[i]]]
    /\ UNCHANGED answer

Hide(position) ==
    /\ columns' = [columns EXCEPT ![position].exported = FALSE]
    /\ UNCHANGED answer

Find(name) ==
    /\ \E a \in DOMAIN columns \cup {NoPosition, Ambiguous} :
           IsAnswer(name, a) /\ answer' = a
    /\ UNCHANGED columns

NameLists == UNION {[1..n -> Names] : n \in 1..MaxColumns}

Next ==
    \/ \E column \in Column : Add(column)
    \/ \E names \in NameLists : Rename(names)
    \/ \E position \in DOMAIN columns : Hide(position)
    \/ \E name \in Names : Find(name)

Spec == Init /\ [][Next]_vars

=============================================================================
