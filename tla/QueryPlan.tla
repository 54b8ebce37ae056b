----------------------------- MODULE QueryPlan -----------------------------
(***************************************************************************)
(* process_query() and set_function_processor: one query specification is  *)
(* turned, clause by clause, into a chain of relational operators.  Set    *)
(* functions are met after the operators that use them have been built:    *)
(* the processor replaces every call by a variable, and the aggregation    *)
(* that computes these variables is put between the operators at the end.  *)
(*                                                                         *)
(* An expression is the sequence of its leaves, in the order the engine    *)
(* visits them: a stream variable, or a call of a set function.  A literal *)
(* has no leaf.  The type resolution of expressions is left out.           *)
(***************************************************************************)
EXTENDS Naturals, Sequences, Functions

CONSTANTS
    Columns,        \* the stream variables the FROM clause provides
    Asterisk,       \* those that are exported, in their order
    Functions,      \* the set functions
    Expressions,    \* the expressions a clause may hold
    MaxKeys,        \* bound: GROUP BY columns
    MaxElements,    \* bound: SELECT elements
    MaxSort         \* bound: ORDER BY keys

VARIABLES
    plan,       \* the chain of operators, FROM's output first
    info,       \* the columns of the result
    entry,      \* set_function_entry: how many operators precede it
    active,     \* set_function_processor::active_
    groupKeys,  \* aggregations_->group_keys(), also grouping_columns_
    aggregated, \* aggregated_columns_
    arguments,  \* arguments_->columns()
    aggregates, \* aggregations_->columns()
    fresh,      \* how many stream variables were created
    pc,         \* the clause that is analysed
    cursor      \* the operator, value and leaf the engine has reached

processor == <<active, groupKeys, aggregated, arguments, aggregates>>
vars == <<plan, info, entry, processor, fresh, pc, cursor>>

ASSUME ColumnsAssumption == Columns \cap Nat = {}
ASSUME AsteriskAssumption == Asterisk \in Seq(Columns) /\ Asterisk # <<>>

Created == Nat \ {0}
Variables == Columns \cup Created

(***************************************************************************)
(* A set function's argument: the variables it reads, and whether another  *)
(* set function is called in it.                                           *)
(***************************************************************************)
Argument == [columns : Seq(Columns), nested : BOOLEAN]
Leaf == [kind : {"column"}, column : Variables]
            \cup [kind : {"call"}, function : Functions, arguments : Seq(Argument)]
Value == Seq(Leaf)

(* What the clauses hold reads the FROM clause alone: the columns that the *)
(* SELECT clause defines are not in scope.                                 *)
Original(leaf) == leaf.kind = "column" => leaf.column \in Columns

ASSUME ExpressionsAssumption ==
    Expressions \subseteq {e \in Value : \A i \in DOMAIN e : Original(e[i])}

Reference(v) == [kind |-> "column", column |-> v]
Literal(e) == Len(e) = 0
PlainColumn(e) == Len(e) = 1 /\ e[1].kind = "column"
SawAggregate(e) == \E i \in DOMAIN e : e[i].kind = "call"

(***************************************************************************)
(* `written` is the value as the analysis of the clause gave it, before    *)
(* the processor changed it.                                               *)
(***************************************************************************)
Kinds == {"where", "arguments", "aggregate", "having", "select", "distinct",
          "order", "limit"}
Operator == [kind : Kinds, values : Seq(Value), written : Seq(Value), columns : Seq(Variables)]
Make(kind, values, columns) ==
    [kind |-> kind, values |-> values, written |-> values, columns |-> columns]

Stages == {"where", "group", "keys", "having", "select", "elements", "distinct",
           "order", "sort", "limit", "process", "install", "done", "failed"}
NoCursor == [operator |-> 0, value |-> 0, leaf |-> 0]

TypeOK ==
    /\ plan \in Seq(Operator)
    /\ info \in Seq(Variables)
    /\ entry \in Nat
    /\ active \in BOOLEAN
    /\ groupKeys \in Seq(Columns)
    /\ aggregated \in SUBSET Created
    /\ arguments \in Seq([value : Argument, column : Created])
    /\ aggregates \in Seq([function : Functions, arguments : Seq(Created), column : Created])
    /\ fresh \in Nat
    /\ pc \in Stages
    /\ cursor \in [operator : Nat, value : Nat, leaf : Nat]

Init ==
    /\ plan = <<>> /\ info = <<>> /\ entry = 0
    /\ active = FALSE /\ groupKeys = <<>> /\ aggregated = {}
    /\ arguments = <<>> /\ aggregates = <<>>
    /\ fresh = 0 /\ pc = "where" /\ cursor = NoCursor

Goto(from, to) == pc = from /\ pc' = to
Fail(from) == Goto(from, "failed") /\ UNCHANGED <<plan, info, entry, processor, fresh, cursor>>
Built == <<plan, info, fresh>>

(***************************************************************************)
(* WHERE.  Set functions are not allowed here.                             *)
(***************************************************************************)
Where ==
    /\ Goto("where", "group")
    /\ \E e \in Expressions :
          ~SawAggregate(e) /\ plan' = Append(plan, Make("where", <<e>>, <<>>))
    /\ entry' = Len(plan')
    /\ UNCHANGED <<info, processor, fresh, cursor>>

NoWhere ==
    /\ Goto("where", "group")
    /\ entry' = Len(plan)
    /\ UNCHANGED <<Built, processor, cursor>>

RejectWhere == (\E e \in Expressions : SawAggregate(e)) /\ Fail("where")

(***************************************************************************)
(* GROUP BY: plain columns; one that is repeated is ignored.               *)
(***************************************************************************)
BeginGroup ==
    /\ Goto("group", "keys")
    /\ active' = TRUE
    /\ UNCHANGED <<Built, entry, groupKeys, aggregated, arguments, aggregates, cursor>>

NoGroup ==
    /\ Goto("group", "having")
    /\ UNCHANGED <<Built, entry, processor, cursor>>

Group ==
    /\ pc = "keys" /\ Len(groupKeys) < MaxKeys
    /\ \E e \in Expressions :
          /\ PlainColumn(e)
          /\ \A i \in DOMAIN groupKeys : groupKeys[i] # e[1].column
          /\ groupKeys' = Append(groupKeys, e[1].column)
    /\ UNCHANGED <<Built, entry, active, aggregated, arguments, aggregates, pc, cursor>>

RejectGroup == (\E e \in Expressions : ~PlainColumn(e)) /\ Fail("keys")

EndGroup ==
    /\ Goto("keys", "having")
    /\ UNCHANGED <<Built, entry, processor, cursor>>

(***************************************************************************)
(* HAVING: its set functions are processed at once.                        *)
(***************************************************************************)
Having ==
    /\ Goto("having", "process")
    /\ active' = TRUE
    /\ \E e \in Expressions : plan' = Append(plan, Make("having", <<e>>, <<>>))
    /\ cursor' = [operator |-> Len(plan'), value |-> 1, leaf |-> 1]
    /\ UNCHANGED <<info, entry, groupKeys, aggregated, arguments, aggregates, fresh>>

NoHaving ==
    /\ Goto("having", "select")
    /\ UNCHANGED <<Built, entry, processor, cursor>>

(***************************************************************************)
(* SELECT: a projection with one new column for each expression, none for  *)
(* an asterisk, whose columns go to the result as they are.                *)
(***************************************************************************)
BeginSelect ==
    /\ Goto("select", "elements")
    /\ plan' = Append(plan, Make("select", <<>>, <<>>))
    /\ UNCHANGED <<info, entry, processor, fresh, cursor>>

AddColumn(e) ==
    LET last == plan[Len(plan)]
        wider == [last EXCEPT !.values = Append(@, e), !.written = Append(@, e),
                              !.columns = Append(@, fresh + 1)]
    IN  plan' = [plan EXCEPT ![Len(plan)] = wider] /\ fresh' = fresh + 1

(* Mutant of Select: a call does not activate the processor.               *)
SelectInactive ==
    /\ pc = "elements" /\ Len(info) < MaxElements
    /\ \E e \in Expressions : AddColumn(e)
    /\ info' = Append(info, fresh + 1)
    /\ UNCHANGED <<entry, processor, pc, cursor>>

Select ==
    /\ pc = "elements" /\ Len(info) < MaxElements
    /\ \E e \in Expressions : AddColumn(e) /\ active' = (active \/ SawAggregate(e))
    /\ info' = Append(info, fresh + 1)
    /\ UNCHANGED <<entry, groupKeys, aggregated, arguments, aggregates, pc, cursor>>

SelectAsterisk ==
    /\ pc = "elements" /\ Len(info) < MaxElements
    /\ info' = info \o Asterisk
    /\ UNCHANGED <<plan, entry, processor, fresh, pc, cursor>>

EndSelect ==
    /\ Goto("elements", "distinct") /\ info # <<>>
    /\ UNCHANGED <<Built, entry, processor, cursor>>

References(variables) == [i \in DOMAIN variables |-> <<Reference(variables[i])>>]

Distinct ==
    /\ Goto("distinct", "order")
    /\ plan' = Append(plan, Make("distinct", References(info), <<>>))
    /\ UNCHANGED <<info, entry, processor, fresh, cursor>>

NotDistinct ==
    /\ Goto("distinct", "order")
    /\ UNCHANGED <<Built, entry, processor, cursor>>

(***************************************************************************)
(* ORDER BY: a projection of the keys, then a limit operator that sorts by *)
(* them; LIMIT sets its count, or appends a limit operator of its own.     *)
(***************************************************************************)
BeginOrder ==
    /\ Goto("order", "sort") /\ MaxSort > 0
    /\ plan' = Append(plan, Make("order", <<>>, <<>>))
    /\ UNCHANGED <<info, entry, processor, fresh, cursor>>

NoOrder ==
    /\ Goto("order", "limit")
    /\ UNCHANGED <<Built, entry, processor, cursor>>

SortKey ==
    /\ pc = "sort" /\ Len(plan[Len(plan)].columns) < MaxSort
    /\ \E e \in Expressions :
          ~Literal(e) /\ AddColumn(e) /\ active' = (active \/ SawAggregate(e))
    /\ UNCHANGED <<info, entry, groupKeys, aggregated, arguments, aggregates, pc, cursor>>

RejectSortKey == (\E e \in Expressions : Literal(e)) /\ Fail("sort")

EndOrder ==
    /\ Goto("sort", "limit")
    /\ plan[Len(plan)].columns # <<>>
    /\ plan' = Append(plan, Make("limit", References(plan[Len(plan)].columns), <<>>))
    /\ UNCHANGED <<info, entry, processor, fresh, cursor>>

Positions(kind) == {i \in DOMAIN plan : plan[i].kind = kind}
FirstLeaf(kind) ==
    [operator |-> CHOOSE i \in DOMAIN plan' : plan'[i].kind = kind, value |-> 1, leaf |-> 1]
Aggregate ==
    /\ pc' = IF active THEN "process" ELSE "done"
    /\ cursor' = IF active THEN FirstLeaf("select") ELSE NoCursor

Limit ==
    /\ pc = "limit"
    /\ plan' = IF Positions("limit") # {} THEN plan ELSE Append(plan, Make("limit", <<>>, <<>>))
    /\ Aggregate
    /\ UNCHANGED <<info, entry, processor, fresh>>

NoLimit ==
    /\ pc = "limit"
    /\ plan' = plan
    /\ Aggregate
    /\ UNCHANGED <<info, entry, processor, fresh>>

RejectLimit == (\E e \in Expressions : ~Literal(e)) /\ Fail("limit")

(***************************************************************************)
(* The engine visits the leaves of a value.                                *)
(***************************************************************************)
Current == plan[cursor.operator]
AtLeaf == pc = "process" /\ cursor.value \in DOMAIN Current.values
                         /\ cursor.leaf \in DOMAIN Current.values[cursor.value]
ThisLeaf == Current.values[cursor.value][cursor.leaf]
AtColumn == AtLeaf /\ ThisLeaf.kind = "column"
AtCall == AtLeaf /\ ThisLeaf.kind = "call"
NextLeaf == [cursor EXCEPT !.leaf = @ + 1]

Visible(v) == v \in aggregated \/ \E i \in DOMAIN groupKeys : groupKeys[i] = v

KeepColumn ==
    /\ AtColumn /\ Visible(ThisLeaf.column)
    /\ cursor' = NextLeaf
    /\ UNCHANGED <<Built, entry, processor, pc>>

RejectColumn == AtColumn /\ ~Visible(ThisLeaf.column) /\ Fail("process")

Nested(call) ==
    \E i \in DOMAIN call.arguments :
        \/ call.arguments[i].nested
        \/ \E k \in DOMAIN call.arguments[i].columns : call.arguments[i].columns[k] \in aggregated

RejectCall == AtCall /\ Nested(ThisLeaf) /\ Fail("process")

(***************************************************************************)
(* consume(): the arguments move to the projection below the aggregation,  *)
(* each under a new variable; an aggregation with the same function and    *)
(* the same argument variables is used again.                              *)
(***************************************************************************)
Replacements(call) == [i \in DOMAIN call.arguments |-> fresh + i]
WithArguments(call) ==
    arguments \o [i \in DOMAIN call.arguments |->
                      [value |-> call.arguments[i], column |-> Replacements(call)[i]]]
ReplaceLeaf(v) ==
    plan' = [plan EXCEPT ![cursor.operator].values[cursor.value][cursor.leaf] = Reference(v)]

(* Mutant of the comparison of calls: the arguments are not compared.      *)
SameFunction(entryOf, call) == entryOf.function = call.function
Same(entryOf, call) ==
    entryOf.function = call.function /\ entryOf.arguments = Replacements(call)
Existing(call) == {i \in DOMAIN aggregates : Same(aggregates[i], call)}

Reuse ==
    /\ AtCall /\ ~Nested(ThisLeaf)
    /\ Existing(ThisLeaf) # {}
    /\ \E i \in Existing(ThisLeaf) : ReplaceLeaf(aggregates[i].column)
    /\ arguments' = WithArguments(ThisLeaf)
    /\ fresh' = fresh + Len(ThisLeaf.arguments)
    /\ cursor' = NextLeaf
    /\ UNCHANGED <<info, entry, active, groupKeys, aggregated, aggregates, pc>>

Destination(call) == fresh + Len(call.arguments) + 1

Consume ==
    /\ AtCall /\ ~Nested(ThisLeaf)
    /\ Existing(ThisLeaf) = {}
    /\ ReplaceLeaf(Destination(ThisLeaf))
    /\ arguments' = WithArguments(ThisLeaf)
    /\ aggregates' = Append(aggregates, [function |-> ThisLeaf.function,
           arguments |-> Replacements(ThisLeaf), column |-> Destination(ThisLeaf)])
    /\ aggregated' = aggregated \cup {Destination(ThisLeaf)}
    /\ fresh' = Destination(ThisLeaf)
    /\ cursor' = NextLeaf
    /\ UNCHANGED <<info, entry, active, groupKeys, pc>>

(***************************************************************************)
(* After a value its column may be used; after the operator the next one   *)
(* is processed: HAVING goes back to the clauses, SELECT on to ORDER BY.   *)
(***************************************************************************)
EndValue ==
    /\ pc = "process" /\ cursor.value \in DOMAIN Current.values
    /\ cursor.leaf > Len(Current.values[cursor.value])
    /\ aggregated' = aggregated \cup
           {Current.columns[i] : i \in {cursor.value} \cap DOMAIN Current.columns}
    /\ cursor' = [cursor EXCEPT !.value = @ + 1, !.leaf = 1]
    /\ UNCHANGED <<Built, entry, active, groupKeys, arguments, aggregates, pc>>

EndOperator ==
    /\ pc = "process" /\ cursor.value > Len(Current.values)
    /\ IF Current.kind = "having"
       THEN pc' = "select" /\ cursor' = NoCursor
       ELSE IF Current.kind = "select" /\ Positions("order") # {}
            THEN pc' = pc /\ cursor' = [operator |-> CHOOSE i \in Positions("order") : TRUE,
                                        value |-> 1, leaf |-> 1]
            ELSE pc' = "install" /\ cursor' = NoCursor
    /\ UNCHANGED <<Built, entry, processor>>

(***************************************************************************)
(* install(): the operators between the entry and what followed it.        *)
(***************************************************************************)
ArgumentOperator ==
    Make("arguments",
         [i \in DOMAIN arguments |->
             [k \in DOMAIN arguments[i].value.columns |-> Reference(arguments[i].value.columns[k])]],
         [i \in DOMAIN arguments |-> arguments[i].column])

AggregateOperator ==
    Make("aggregate",
         References(groupKeys) \o
             [i \in DOMAIN aggregates |->
                 [k \in DOMAIN aggregates[i].arguments |-> Reference(aggregates[i].arguments[k])]],
         groupKeys \o [i \in DOMAIN aggregates |-> aggregates[i].column])

Inserted ==
    (IF arguments = <<>> THEN <<>> ELSE <<ArgumentOperator>>)
        \o (IF groupKeys \o aggregates = <<>> THEN <<>> ELSE <<AggregateOperator>>)

(* Mutant of Install: the aggregation is appended to the finished chain.   *)
InstallLate ==
    /\ Goto("install", "done")
    /\ plan' = plan \o Inserted
    /\ active' = FALSE /\ aggregated' = {}
    /\ UNCHANGED <<info, entry, groupKeys, arguments, aggregates, fresh, cursor>>

Install ==
    /\ Goto("install", "done")
    /\ plan' = SubSeq(plan, 1, entry) \o Inserted \o SubSeq(plan, entry + 1, Len(plan))
    /\ active' = FALSE /\ aggregated' = {}
    /\ UNCHANGED <<info, entry, groupKeys, arguments, aggregates, fresh, cursor>>

Clauses ==
    \/ Where \/ NoWhere \/ RejectWhere
    \/ BeginGroup \/ NoGroup \/ Group \/ RejectGroup \/ EndGroup
    \/ Having \/ NoHaving
    \/ BeginSelect \/ Select \/ SelectAsterisk \/ EndSelect
    \/ Distinct \/ NotDistinct
    \/ BeginOrder \/ NoOrder \/ SortKey \/ RejectSortKey \/ EndOrder
    \/ Limit \/ NoLimit \/ RejectLimit

Processing ==
    \/ KeepColumn \/ RejectColumn
    \/ Consume \/ Reuse \/ RejectCall
    \/ EndValue \/ EndOperator \/ Install

Next == Clauses \/ Processing

Spec == Init /\ [][Next]_vars

(***************************************************************************)
(* The variables available after the first n operators.  An aggregation    *)
(* hides everything but its keys and its results.                          *)
(***************************************************************************)
Hidden(i, n) == \E h \in i..n : plan[h].kind = "aggregate"
Provided(n) ==
    {v \in Columns : ~Hidden(1, n)} \cup
        UNION {Range(plan[i].columns) : i \in {h \in 1..n : ~Hidden(h + 1, n)}}

(***************************************************************************)
(* In a finished plan every operator reads only variables that reach it,   *)
(* although the aggregation was put in after the operators were built, and *)
(* no set function is left to be called.  DISTINCT's keys are the columns  *)
(* of the result: they are the subject of ResultAvailable.                 *)
(***************************************************************************)
Available ==
    /\ TypeOK
    /\ pc = "done" =>
        \A i \in DOMAIN plan \ Positions("distinct") : \A j \in DOMAIN plan[i].values :
            \A k \in DOMAIN plan[i].values[j] :
                /\ plan[i].values[j][k].kind = "column"
                /\ plan[i].values[j][k].column \in Provided(i - 1)

(***************************************************************************)
(* Every value of a finished plan is what was written: variables are kept, *)
(* and in the place of a call stands the result of the same function over  *)
(* variables that hold the same arguments.                                 *)
(***************************************************************************)
Holds(v, argument) ==
    \E m \in DOMAIN arguments : arguments[m].column = v /\ arguments[m].value = argument

Denotes(leaf, writtenLeaf) ==
    IF writtenLeaf.kind = "column" THEN leaf = writtenLeaf
    ELSE \E k \in DOMAIN aggregates :
             /\ leaf = Reference(aggregates[k].column)
             /\ aggregates[k].function = writtenLeaf.function
             /\ Len(aggregates[k].arguments) = Len(writtenLeaf.arguments)
             /\ \A n \in DOMAIN writtenLeaf.arguments :
                    /\ ~writtenLeaf.arguments[n].nested
                    /\ Holds(aggregates[k].arguments[n], writtenLeaf.arguments[n])

ValuesKept ==
    pc = "done" =>
        \A i \in DOMAIN plan : \A j \in DOMAIN plan[i].values :
            /\ Len(plan[i].values[j]) = Len(plan[i].written[j])
            /\ \A k \in DOMAIN plan[i].values[j] :
                   Denotes(plan[i].values[j][k], plan[i].written[j][k])

(***************************************************************************)
(* No variable is defined by two operators, or twice by one: a group key   *)
(* keeps its variable but no key is repeated.                              *)
(***************************************************************************)
DefinedOnce ==
    \A i, k \in DOMAIN plan :
        \A j \in DOMAIN plan[i].columns : \A l \in DOMAIN plan[k].columns :
            plan[i].columns[j] = plan[k].columns[l] => i = k /\ j = l

(***************************************************************************)
(* The operators of a finished plan apply in the order SQL gives to the    *)
(* clauses, one for each clause at most: rows are selected before they are *)
(* grouped, groups before they are projected, and LIMIT counts the rows    *)
(* that DISTINCT leaves in the order ORDER BY gives.                       *)
(***************************************************************************)
ClauseOrder == <<"where", "arguments", "aggregate", "having", "select",
                 "distinct", "order", "limit">>
Rank(operator) == CHOOSE r \in DOMAIN ClauseOrder : ClauseOrder[r] = operator.kind

InClauseOrder ==
    pc = "done" =>
        \A i, k \in DOMAIN plan : i < k => Rank(plan[i]) < Rank(plan[k])

(***************************************************************************)
(* The operators stand where they belong, and each defines what is new.    *)
(***************************************************************************)
OperatorsExact == DefinedOnce /\ InClauseOrder

(***************************************************************************)
(* What the note in check_variable() says of a query with set functions:   *)
(* outside their arguments only grouping keys and aggregated values can be *)
(* used.  So the columns of the result reach the end of the plan.          *)
(***************************************************************************)
ResultAvailable ==
    pc = "done" => \A i \in DOMAIN info : info[i] \in Provided(Len(plan))

=============================================================================
