----------------------------- MODULE FromClause -----------------------------
(***************************************************************************)
(* The FROM clause of one query: table expressions are visited in order,   *)
(* every relation is appended to the one list of the query scope, a join   *)
(* remembers with a pivot where its right operand begins in that list, and *)
(* JOIN ... USING finds its columns by position and hides the right ones.  *)
(***************************************************************************)
EXTENDS Naturals, Sequences, FiniteSets

CONSTANTS
    Names,          \* column identifiers
    MaxColumns,     \* bound on the columns of a relation
    MaxRelations,   \* bound on the relations of the clause
    MaxNesting,     \* bound on joins within joins
    MaxUsing        \* bound on the names of a USING list

VARIABLES
    relations,  \* scope.references(): a sequence of columns for each
    output,     \* relations behind the port dispatch() just returned, or {}
    frames,     \* the joins that are being processed, innermost last
    joined,     \* process_from_clause: relations behind its output so far
    graph,      \* the join operators emitted
    pairs,      \* USING: a left and a right column compared with each other
    using,      \* the names of the USING list still to be visited
    pc          \* "visit", "using" or "done"

ASSUME BoundsAssumption ==
    {MaxColumns, MaxRelations, MaxNesting, MaxUsing} \subseteq Nat

vars == <<relations, output, frames, joined, graph, pairs, using, pc>>

Nothing == {}
Positions == 1..Len(relations)
Columns == {c \in Positions \X (1..MaxColumns) : c[2] <= Len(relations[c[1]])}
Column(c) == relations[c[1]][c[2]]

Kinds == {"inner", "left_outer", "right_outer", "full_outer"}
Lists(S, n) == UNION {[1..k -> S] : k \in 0..n}
Headings == Lists([name : Names, exported : {TRUE}], MaxColumns)

TypeOK ==
    /\ relations \in Seq(Seq([name : Names, exported : BOOLEAN]))
    /\ output \subseteq Positions
    /\ frames \in Seq([kind : Kinds, left : SUBSET Positions, pivot : Nat])
    /\ joined \subseteq Positions
    /\ graph \in Seq([kind : Kinds \ {"right_outer"},
                      left : (SUBSET Positions) \ {Nothing},
                      right : (SUBSET Positions) \ {Nothing}])
    /\ pairs \subseteq [left : Columns, right : Columns, join : Nat]
    /\ using \in Seq(Names)
    /\ pc \in {"visit", "using", "done"}

Init ==
    /\ relations = <<>>
    /\ output = Nothing
    /\ frames = <<>>
    /\ joined = Nothing
    /\ graph = <<>>
    /\ pairs = {}
    /\ using = <<>>
    /\ pc = "visit"

(* An error is returned through every caller and ends the query.           *)
Fail ==
    /\ relations' = <<>>
    /\ output' = Nothing
    /\ frames' = <<>>
    /\ joined' = Nothing
    /\ graph' = <<>>
    /\ pairs' = {}
    /\ using' = <<>>
    /\ pc' = "visit"

-----------------------------------------------------------------------------
(* A table, a common table or a derived table.                             *)
Relation(heading) ==
    /\ pc = "visit"
    /\ output = Nothing
    /\ Len(relations) < MaxRelations
    /\ relations' = Append(relations, heading)
    /\ output' = {Len(relations) + 1}
    /\ UNCHANGED <<frames, joined, graph, pairs, using, pc>>

(* APPLY adds the columns of a table-valued function to its operand.       *)
Apply(heading) ==
    /\ pc = "visit"
    /\ output # Nothing
    /\ heading # <<>>
    /\ Len(relations) < MaxRelations
    /\ relations' = Append(relations, heading)
    /\ output' = output \cup {Len(relations) + 1}
    /\ UNCHANGED <<frames, joined, graph, pairs, using, pc>>

Frame == frames[Len(frames)]
Enclosing == SubSeq(frames, 1, Len(frames) - 1)

BeginJoin(kind) ==
    /\ pc = "visit"
    /\ output = Nothing
    /\ Len(frames) < MaxNesting
    /\ Len(relations) < MaxRelations
    /\ frames' = Append(frames, [kind |-> kind, left |-> Nothing, pivot |-> 0])
    /\ UNCHANGED <<relations, output, joined, graph, pairs, using, pc>>

(* Mutant of EndLeft: the pivot is taken before the left operand.          *)
EndLeftEarlyPivot ==
    /\ pc = "visit"
    /\ output # Nothing
    /\ frames # <<>>
    /\ Frame.left = Nothing
    /\ frames' = [frames EXCEPT ![Len(frames)].left = output,
                                ![Len(frames)].pivot = Len(relations) - 1]
    /\ output' = Nothing
    /\ UNCHANGED <<relations, joined, graph, pairs, using, pc>>

(* create_pivot() between the operands.                                    *)
EndLeft ==
    /\ pc = "visit"
    /\ output # Nothing
    /\ frames # <<>>
    /\ Frame.left = Nothing
    /\ frames' = [frames EXCEPT ![Len(frames)].left = output,
                                ![Len(frames)].pivot = Len(relations)]
    /\ output' = Nothing
    /\ UNCHANGED <<relations, joined, graph, pairs, using, pc>>

(* Mutant of Emit: std::swap() is replaced by an assignment.               *)
EmitUnswapped ==
    /\ graph' = Append(graph,
           IF Frame.kind = "right_outer"
           THEN [kind |-> "left_outer", left |-> output, right |-> output]
           ELSE [kind |-> Frame.kind, left |-> Frame.left, right |-> output])
    /\ output' = Frame.left \cup output
    /\ frames' = Enclosing

(* The join operator; a right outer join is a left one with its operands   *)
(* swapped.                                                                *)
Emit ==
    /\ graph' = Append(graph,
           IF Frame.kind = "right_outer"
           THEN [kind |-> "left_outer", left |-> output, right |-> Frame.left]
           ELSE [kind |-> Frame.kind, left |-> Frame.left, right |-> output])
    /\ output' = Frame.left \cup output
    /\ frames' = Enclosing

AtRight ==
    /\ output # Nothing
    /\ frames # <<>>
    /\ Frame.left # Nothing

(* A cross join, or one with an ON condition.                              *)
EndRight ==
    /\ pc = "visit"
    /\ AtRight
    /\ Emit
    /\ UNCHANGED <<relations, joined, pairs, using, pc>>

BeginUsing(names) ==
    /\ pc = "visit"
    /\ AtRight
    /\ using' = names
    /\ pc' = "using"
    /\ UNCHANGED <<relations, output, frames, joined, graph, pairs>>

Visible(n, from, to) ==
    {c \in Columns : c[1] \in from..to /\ Column(c).name = n
                                       /\ Column(c).exported}

(* The left column is looked for before the pivot, the right one after it. *)
LeftColumns(n) == Visible(n, 1, Frame.pivot)

RightColumns(n) == Visible(n, Frame.pivot + 1, Len(relations))

(* Mutant of Hide: the left column disappears instead of the right one.    *)
HideLeft(left, right) ==
    relations' = [relations EXCEPT ![left[1]][left[2]].exported = FALSE]

Hide(left, right) ==
    relations' = [relations EXCEPT ![right[1]][right[2]].exported = FALSE]

(* One name of the list: none or several columns on a side are an error.   *)
Using ==
    /\ pc = "using"
    /\ using # <<>>
    /\ LET n == Head(using) IN
       IF \/ Cardinality(LeftColumns(n)) # 1
          \/ Cardinality(RightColumns(n)) # 1
       THEN Fail
       ELSE /\ \E left \in LeftColumns(n), right \in RightColumns(n) :
                  /\ Hide(left, right)
                  /\ pairs' = pairs \cup
                         {[left |-> left, right |-> right, join |-> Len(graph) + 1]}
            /\ using' = Tail(using)
            /\ UNCHANGED <<output, frames, joined, graph, pc>>

EndUsing ==
    /\ pc = "using"
    /\ using = <<>>
    /\ Emit
    /\ pc' = "visit"
    /\ UNCHANGED <<relations, joined, pairs, using>>

(* The elements of the clause are cross joined from left to right.         *)
EndElement ==
    /\ pc = "visit"
    /\ output # Nothing
    /\ frames = <<>>
    /\ joined' = joined \cup output
    /\ graph' = IF joined = Nothing THEN graph
                ELSE Append(graph, [kind |-> "inner", left |-> joined,
                                    right |-> output])
    /\ output' = Nothing
    /\ UNCHANGED <<relations, frames, pairs, using, pc>>

EndClause ==
    /\ pc = "visit"
    /\ output = Nothing
    /\ frames = <<>>
    /\ joined # Nothing
    /\ pc' = "done"
    /\ UNCHANGED <<relations, output, frames, joined, graph, pairs, using>>

(* Without a FROM clause there is one relation without columns.            *)
EmptyClause ==
    /\ pc = "visit"
    /\ relations = <<>>
    /\ frames = <<>>
    /\ relations' = << <<>> >>
    /\ joined' = {1}
    /\ pc' = "done"
    /\ UNCHANGED <<output, frames, graph, pairs, using>>

-----------------------------------------------------------------------------
Next ==
    \/ \E heading \in Headings : Relation(heading) \/ Apply(heading)
    \/ \E kind \in Kinds : BeginJoin(kind)
    \/ EndLeft
    \/ EndRight
    \/ \E names \in Lists(Names, MaxUsing) \ {<<>>} : BeginUsing(names)
    \/ Using
    \/ EndUsing
    \/ EndElement
    \/ EndClause
    \/ EmptyClause

Spec == Init /\ [][Next]_vars

-----------------------------------------------------------------------------
Operands == {joined, output} \cup {frames[k].left : k \in DOMAIN frames}
Interval(S) == \A i, j \in S : i..j \subseteq S

(* Every relation of the scope is behind exactly one of the ports in hand, *)
(* and those of one port are neighbours: a position in the scope tells     *)
(* which operand a column comes from.                                      *)
OperandsPartition ==
    /\ UNION Operands = Positions
    /\ \A S \in Operands : Interval(S)
    /\ joined \cap output = {}
    /\ \A k \in DOMAIN frames :
          /\ frames[k].left \cap (joined \cup output) = {}
          /\ \A l \in DOMAIN frames : k # l => frames[k].left \cap frames[l].left = {}

(* The joins form one tree: an operand is used once.                       *)
PlanIsTree ==
    \A k \in DOMAIN graph :
        /\ graph[k].left \cap graph[k].right = {}
        /\ \A l \in 1..(k - 1) :
              LET inner == graph[l].left \cup graph[l].right
                  outer == graph[k].left \cup graph[k].right IN
              \/ inner \cap outer = {}
              \/ inner \subseteq graph[k].left
              \/ inner \subseteq graph[k].right

(* The plan grows as a forest whose roots are the ports in hand.           *)
PlanWellFormed == TypeOK /\ OperandsPartition /\ PlanIsTree

(* When the right operand is complete, the relations after the pivot are   *)
(* that operand and nothing else.                                          *)
PivotExact ==
    frames # <<>> /\ AtRight => output = (Frame.pivot + 1)..Len(relations)

(* A column is hidden exactly when it is the right one of a pair, of one   *)
(* pair only, and its partner was not hidden by the same join.             *)
HiddenExact ==
    /\ \A c \in Columns : ~Column(c).exported <=> \E p \in pairs : p.right = c
    /\ \A p, q \in pairs : p.right = q.right => p = q
    /\ \A p, q \in pairs : p.join = q.join => p.left # q.right

(* A hidden column can still be reached by its name: the column that       *)
(* stands for it, or the one that stands for that, is visible.             *)
NamesKept ==
    \A p \in pairs :
        Visible(Column(p.right).name, 1, p.right[1] - 1) # {}

(* Right after USING (x) the name x is unambiguous in the whole scope.     *)
UsingUnambiguous ==
    pc = "using" =>
        \A p \in pairs :
            p.join = Len(graph) + 1 =>
                Cardinality(Visible(Column(p.right).name, 1, Len(relations))) = 1

(* USING merges each pair of columns into one, under the old name.         *)
UsingExact == HiddenExact /\ NamesKept /\ UsingUnambiguous

=============================================================================
