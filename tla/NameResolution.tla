--------------------------- MODULE NameResolution ---------------------------
(***************************************************************************)
(* The stack of query scopes while one statement is analysed, the features *)
(* that decide which outer columns a query may use, and the resolution of  *)
(* a column name: the nearest enclosing scope that has the name, then one  *)
(* parameter in every correlated scope from there down to the reference.   *)
(* The loop over the correlated scopes is taken one iteration at a time.   *)
(***************************************************************************)
EXTENDS Naturals, Sequences, FiniteSets

CONSTANTS
    Names,          \* column identifiers
    NoName,
    Ids,            \* relation identifiers
    NoId,
    MaxDepth,       \* bound on nested scopes
    MaxRelations,   \* bound on the relations of one scope
    MaxTotal        \* bound on the relations of all scopes together

VARIABLES
    stack,          \* the scopes, each the parent of the next
    pc,             \* "idle", or "thread" while parameters are added
    qualifier,      \* the relation identifier before the column name
    name,           \* the column name being resolved
    found,          \* the column it denotes
    current,        \* current_variable of find_variable()
    level,          \* the last scope a parameter was added to
    reference       \* the variable the last resolution returned

ASSUME NamesAssumption == NoName \notin Names
ASSUME IdsAssumption == NoId \notin Ids
ASSUME BoundsAssumption == {MaxDepth, MaxRelations, MaxTotal} \subseteq Nat

(* A column of a relation of a scope, or a parameter of a scope: both are  *)
(* identified by the place of their declaration.                           *)
Variable ==
    [parameter : BOOLEAN, depth : Nat, index : Nat, name : Names \cup {NoName}]

NoVariable == [parameter |-> FALSE, depth |-> 0, index |-> 0, name |-> NoName]

Relation == [id : Ids \cup {NoId}, columns : SUBSET Names]

NoColumns == {}

(* A scope: the query expression itself, the empty scope around a derived  *)
(* table, the scope that collects the parameters of a scalar subquery, or  *)
(* the scope around a common table.  `saved` is original_features of the   *)
(* expression that opened a parameter scope, `result` the columns of the   *)
(* query that was analysed inside a scope that only surrounds one.         *)
Frame ==
    [kind       : {"query", "derived", "parameter", "common"},
     phase      : {"with", "body", "around"},
     features   : SUBSET {"expose", "independent", "correlation"},
     saved      : SUBSET {"expose", "independent", "correlation"},
     relations  : Seq(Relation),
     queries    : [Ids -> SUBSET Names],
     parameters : Seq([free : Variable, alias : Variable]),
     result     : SUBSET Names]

NewFrame(kind, phase, features, saved) ==
    [kind |-> kind, phase |-> phase, features |-> features, saved |-> saved,
     relations |-> <<>>, queries |-> [id \in Ids |-> NoColumns],
     parameters |-> <<>>, result |-> NoColumns]

QueryFrame == NewFrame("query", "with", {}, {})

Depth == Len(stack)
Top == stack[Len(stack)]
Below == SubSeq(stack, 1, Len(stack) - 1)

threading == <<pc, qualifier, name, found, current, level>>
vars == <<stack, threading, reference>>

ParameterVariable(e, i) ==
    [parameter |-> TRUE, depth |-> e, index |-> i,
     name |-> stack[e].parameters[i].alias.name]

(* The features a scope is created with; only "expose" comes and goes.     *)
Created(kind) ==
    CASE kind = "parameter" -> {"correlation"}
      [] kind = "common" -> {"independent"}
      [] OTHER -> {}

TypeOK ==
    /\ stack \in Seq(Frame)
    /\ \A d \in 1..Depth :
           stack[d].features \ {"expose"} = Created(stack[d].kind)
    /\ Depth <= MaxDepth
    /\ pc \in {"idle", "thread"}
    /\ qualifier \in Ids \cup {NoId}
    /\ name \in Names \cup {NoName}
    /\ found \in Variable
    /\ current \in Variable
    /\ level \in Nat
    /\ reference \in Variable

Init ==
    /\ stack = <<>>
    /\ pc = "idle"
    /\ qualifier = NoId
    /\ name = NoName
    /\ found = NoVariable
    /\ current = NoVariable
    /\ level = 0
    /\ reference = NoVariable

-----------------------------------------------------------------------------
Idle ==
    /\ pc = "idle"
    /\ pc' = "idle"
    /\ qualifier' = NoId
    /\ name' = NoName
    /\ found' = NoVariable
    /\ current' = NoVariable
    /\ level' = 0
    /\ reference' = NoVariable

(* An error ends the analysis: every caller returns at once and its scopes *)
(* go with it.                                                             *)
Fail ==
    /\ stack' = <<>>
    /\ pc' = "idle"
    /\ qualifier' = NoId
    /\ name' = NoName
    /\ found' = NoVariable
    /\ current' = NoVariable
    /\ level' = 0
    /\ reference' = NoVariable

Push(frame) == Depth < MaxDepth /\ stack' = Append(stack, frame)

ReplaceTop(frame) == stack' = [stack EXCEPT ![Depth] = frame]

OpenStatement ==
    /\ Idle
    /\ stack = <<>>
    /\ Push(QueryFrame)

(* A query expression inside a scope that surrounds it; both operands of a *)
(* UNION, EXCEPT or INTERSECT get a scope of their own under the same      *)
(* parent, also when that parent is the scope of a WITH clause.            *)
OpenQuery ==
    /\ Idle
    /\ stack # <<>>
    /\ Top.phase \in {"with", "around"}
    /\ Depth < MaxDepth
    /\ stack' = Append([stack EXCEPT ![Depth].phase = "around"], QueryFrame)

(* WITH name AS ( ...                                                      *)
OpenCommonTable ==
    /\ Idle
    /\ stack # <<>>
    /\ Top.phase = "with"
    /\ Push(NewFrame("common", "around", {"independent"}, {}))

(* The name is entered after its query was analysed.                       *)
CloseCommonTable(id) ==
    /\ stack # <<>>
    /\ Top.kind = "common"
    /\ Top.result # NoColumns
    /\ pc = "idle"
    /\ IF stack[Depth - 1].queries[id] # NoColumns
       THEN Fail
       ELSE /\ Idle
            /\ stack' = [Below EXCEPT ![Depth - 1].queries[id] = Top.result]

BeginBody ==
    /\ Idle
    /\ stack # <<>>
    /\ Top.kind = "query"
    /\ Top.phase = "with"
    /\ ReplaceTop([Top EXCEPT !.phase = "body"])

InBody ==
    /\ stack # <<>>
    /\ Top.kind = "query"
    /\ Top.phase = "body"

RelationCells == {c \in (1..Depth) \X (1..MaxRelations) :
                      c[2] <= Len(stack[c[1]].relations)}

RoomIn(d) ==
    /\ Len(stack[d].relations) < MaxRelations
    /\ Cardinality(RelationCells) < MaxTotal

(* The common table of that name nearest to the current scope, whatever    *)
(* scopes lie between.                                                     *)
Declaring(id) == {d \in 1..Depth : stack[d].queries[id] # NoColumns}

(* Mutant of Nearest: the search goes from the outermost scope inwards.    *)
NearestOutermost(depths) == CHOOSE d \in depths : \A e \in depths : d <= e

Nearest(depths) == CHOOSE d \in depths : \A e \in depths : e <= d

(* table_reference: a common table shadows a table of the schema, which    *)
(* may have any of the names, and its correlation name replaces its own.   *)
AddRelation(id, correlation, columns) ==
    /\ Idle
    /\ InBody
    /\ RoomIn(Depth)
    /\ columns = IF Declaring(id) = {} THEN columns
                 ELSE stack[Nearest(Declaring(id))].queries[id]
    /\ stack' = [stack EXCEPT ![Depth].relations =
                    Append(@, [id |-> correlation, columns |-> columns])]

(* table::subquery: an empty scope between the query and the derived table *)
OpenDerived ==
    /\ Idle
    /\ InBody
    /\ Push(NewFrame("derived", "around", {}, {}))

CloseDerived(correlation) ==
    /\ Idle
    /\ stack # <<>>
    /\ Top.kind = "derived"
    /\ Top.result # NoColumns
    /\ RoomIn(Depth - 1)
    /\ stack' = [Below EXCEPT ![Depth - 1].relations =
                    Append(@, [id |-> correlation, columns |-> Top.result])]

-----------------------------------------------------------------------------
(* A scalar, quantified, IN or EXISTS subquery: the scope is exposed while *)
(* the subquery is analysed under a scope that collects its parameters.    *)
OpenSubquery ==
    /\ Idle
    /\ InBody
    /\ Depth < MaxDepth
    /\ stack' = Append([stack EXCEPT ![Depth].features = @ \cup {"expose"}],
                       NewFrame("parameter", "around", {"correlation"},
                                Top.features))

(* Mutant of CloseSubquery: the features of the wrong scope are restored.  *)
CloseSubqueryOwnFeatures ==
    /\ Idle
    /\ stack # <<>>
    /\ Top.kind = "parameter"
    /\ Top.result # NoColumns
    /\ stack' = [Below EXCEPT ![Depth - 1].features = Top.features]

(* The parameters go into the expression and the finalizer restores the    *)
(* features.                                                               *)
CloseSubquery ==
    /\ Idle
    /\ stack # <<>>
    /\ Top.kind = "parameter"
    /\ Top.result # NoColumns
    /\ stack' = [Below EXCEPT ![Depth - 1].features = Top.saved]

(* A query ends with the columns of its select list, a WITH over a set     *)
(* operation with those of the operation.  The operands of a set operation *)
(* have the same number of columns, and its names are the left operand's.  *)
CloseQuery(columns) ==
    /\ pc = "idle"
    /\ stack # <<>>
    /\ Top.kind = "query"
    /\ \/ Top.phase = "body"
       \/ Top.phase = "around" /\ Top.result = columns
    /\ IF Depth = 1
       THEN Idle /\ stack' = <<>>
       ELSE LET left == stack[Depth - 1].result IN
            IF left # NoColumns /\ Cardinality(left) # Cardinality(columns)
            THEN Fail
            ELSE /\ Idle
                 /\ stack' = [Below EXCEPT ![Depth - 1].result =
                                 IF @ = NoColumns THEN columns ELSE @]

-----------------------------------------------------------------------------
Correlated(e) == "correlation" \in stack[e].features
Independent(e) == "independent" \in stack[e].features

(* Mutant of Scopes: the walk stops at an independent scope but keeps the  *)
(* correlated scopes it has collected.                                     *)
ScopesKept(d) ==
    {e \in (d + 1)..Depth :
        Correlated(e) /\ \A f \in e..Depth : ~Independent(f)}

(* `scopes` of find_variable(): the correlated scopes below the ancestor   *)
(* d, none at all when an independent scope is on the way.                 *)
Scopes(d) ==
    IF \E e \in (d + 1)..Depth : Independent(e) THEN {}
    ELSE {e \in (d + 1)..Depth : Correlated(e)}

(* What a name denotes in one scope: find_variable_in_query() takes every  *)
(* relation, find_relation_info_in_query() the relation of the qualifier.  *)
Matches(d, n) == {i \in DOMAIN stack[d].relations :
                      n \in stack[d].relations[i].columns}
Called(d, id) == {i \in DOMAIN stack[d].relations :
                      stack[d].relations[i].id = id}

ColumnVariable(d, i, n) ==
    [parameter |-> FALSE, depth |-> d, index |-> i, name |-> n]

Return(variable) ==
    /\ reference' = variable
    /\ pc' = "idle"

(* find_variable(): a column of the current scope is used as it stands, a  *)
(* column of an exposed ancestor through parameters, any other not at all. *)
Use(d, i, id, n) ==
    IF d = Depth \/ "expose" \in stack[d].features
    THEN /\ qualifier' = id
         /\ name' = n
         /\ found' = ColumnVariable(d, i, n)
         /\ UNCHANGED stack
         /\ IF d = Depth
            THEN /\ Return(ColumnVariable(d, i, n))
                 /\ current' = NoVariable
                 /\ level' = 0
            ELSE /\ pc' = "thread"
                 /\ current' = ColumnVariable(d, i, n)
                 /\ level' = d
                 /\ reference' = NoVariable
    ELSE Fail

(* The scopes an unqualified and a qualified name is found in.             *)
Holding(n) == {d \in 1..Depth : Matches(d, n) # {}}
Naming(id) == {d \in 1..Depth : Called(d, id) # {}}

(* Two columns of that name in the nearest scope that has it: an error.    *)
Resolve(n) ==
    /\ pc = "idle"
    /\ InBody
    /\ IF Holding(n) # {} /\ Cardinality(Matches(Nearest(Holding(n)), n)) = 1
       THEN \E i \in Matches(Nearest(Holding(n)), n) :
                Use(Nearest(Holding(n)), i, NoId, n)
       ELSE Fail

(* The relation is the nearest of that name; a column it does not have is  *)
(* not looked for in another relation.                                     *)
ResolveQualified(id, n) ==
    /\ pc = "idle"
    /\ InBody
    /\ LET d == Nearest(Naming(id)) IN
       IF /\ Naming(id) # {}
          /\ Cardinality(Called(d, id)) = 1
          /\ Called(d, id) \subseteq Matches(d, n)
       THEN \E i \in Called(d, id) : Use(d, i, id, n)
       ELSE Fail

(* add_parameter(): the parameter that stands for this free variable.      *)
ParameterAt(e) ==
    {i \in DOMAIN stack[e].parameters : stack[e].parameters[i].free = current}

Pending == {e \in Scopes(found.depth) : e > level}

NextScope(e) == \A f \in Pending : e <= f

(* One iteration of the loop over the scopes, outermost first.  A new      *)
(* parameter is resolved as an alias of the column.                        *)
AddParameter ==
    /\ pc = "thread"
    /\ \E e \in Pending :
          /\ NextScope(e)
          /\ \/ \E i \in ParameterAt(e) :
                   /\ current' = ParameterVariable(e, i)
                   /\ UNCHANGED stack
             \/ /\ ParameterAt(e) = {}
                /\ stack' = [stack EXCEPT ![e].parameters =
                                Append(@, [free |-> current, alias |-> found])]
                /\ current' = [parameter |-> TRUE, depth |-> e,
                               index |-> Len(stack[e].parameters) + 1,
                               name |-> found.name]
          /\ level' = e
    /\ UNCHANGED <<pc, qualifier, name, found, reference>>

(* Without any parameter the column cannot be reached.                     *)
EndThread ==
    /\ pc = "thread"
    /\ Pending = {}
    /\ IF current = found
       THEN Fail
       ELSE /\ Return(current)
            /\ UNCHANGED <<stack, qualifier, name, found, current, level>>

-----------------------------------------------------------------------------
ColumnSets == SUBSET Names \ {NoColumns}

Scoping ==
    \/ OpenStatement
    \/ OpenQuery
    \/ OpenCommonTable
    \/ \E id \in Ids : CloseCommonTable(id)
    \/ BeginBody
    \/ \E id \in Ids, correlation \in Ids \cup {NoId}, columns \in SUBSET Names :
           AddRelation(id, correlation, columns)
    \/ OpenDerived
    \/ \E correlation \in Ids : CloseDerived(correlation)
    \/ OpenSubquery
    \/ CloseSubquery
    \/ \E columns \in ColumnSets : CloseQuery(columns)

Resolution ==
    \/ \E n \in Names : Resolve(n)
    \/ \E id \in Ids, n \in Names : ResolveQualified(id, n)
    \/ AddParameter
    \/ EndThread

Next == Scoping \/ Resolution

Spec == Init /\ [][Next]_vars

-----------------------------------------------------------------------------
(* What a query in scope d may use: the columns of its own relations and   *)
(* the parameters of the nearest correlated scope, unless a scope that     *)
(* must not look outside comes first.                                      *)
Available(variable, d) ==
    IF ~variable.parameter
    THEN variable.depth = d
    ELSE /\ variable.depth \in 1..d
         /\ Correlated(variable.depth)
         /\ variable.index \in DOMAIN stack[variable.depth].parameters
         /\ \A e \in (variable.depth + 1)..d : ~Correlated(e) /\ ~Independent(e)

(* A scope is exposed exactly while a subquery among its expressions is    *)
(* being analysed: what the finalizers of analyze_scalar_expression do     *)
(* along any nesting of subqueries, derived tables and common tables.      *)
ExposeExact ==
    \A d \in 1..Depth :
        "expose" \in stack[d].features <=>
            d < Depth /\ stack[d + 1].kind = "parameter"

(* The scopes keep their shape, and expose outer columns when they should. *)
FramesExact == TypeOK /\ ExposeExact

(* The source of every parameter is available where the subquery expression*)
(* stands, so the plan that binds it there is closed.                      *)
ParametersAvailable ==
    \A e \in 1..Depth : \A i \in DOMAIN stack[e].parameters :
        /\ stack[e].kind = "parameter"
        /\ Available(stack[e].parameters[i].free, e - 1)

(* The column a parameter is an alias of is the one its source leads to.   *)
AliasExact ==
    \A e \in 1..Depth : \A i \in DOMAIN stack[e].parameters :
        LET p == stack[e].parameters[i] IN
        /\ ~p.alias.parameter
        /\ p.alias = IF p.free.parameter
                     THEN stack[p.free.depth].parameters[p.free.index].alias
                     ELSE p.free

(* "if a parameter variable is already added for this scope, this returns  *)
(* the existing parameter variable" (query_scope.h): a subquery gets an    *)
(* outer column once, however its inner queries refer to it.               *)
ParametersDistinct ==
    \A e \in 1..Depth : \A i, j \in DOMAIN stack[e].parameters :
        stack[e].parameters[i].alias = stack[e].parameters[j].alias => i = j

(* Every subquery gets what it needs from outside, from where its          *)
(* expression stands, as itself and once.                                  *)
ParametersExact == ParametersAvailable /\ AliasExact /\ ParametersDistinct

(* A resolved reference can be used in the scope it was written in.        *)
ReferenceAvailable ==
    reference # NoVariable => Available(reference, Depth)

(* It denotes the column of the nearest scope that answers the name:       *)
(* nothing between that scope and the reference could have captured it.    *)
ReferenceNearest ==
    reference # NoVariable =>
        LET root == IF reference.parameter
                    THEN stack[reference.depth].parameters[reference.index].alias
                    ELSE reference
            answering == IF qualifier = NoId THEN Holding(name)
                                             ELSE Naming(qualifier)
        IN
        /\ root = found
        /\ found.depth \in answering
        /\ \A d \in answering : d <= found.depth
        /\ found.index \in Matches(found.depth, name)
        /\ qualifier # NoId => found.index \in Called(found.depth, qualifier)

(* A name resolves to the right column, in a form its scope may use.       *)
ReferenceExact == ReferenceAvailable /\ ReferenceNearest

=============================================================================
