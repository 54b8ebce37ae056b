-------------------------- MODULE QueryPlanProofs --------------------------
(***************************************************************************)
(* Every query: a finished plan reads only what reaches its operators,     *)
(* computes what was written, and keeps the order of the clauses.          *)
(*                                                                         *)
(* The argument follows the engine.  While it works, a leaf of the chain   *)
(* is either pending, and then still what was written, or it has been      *)
(* visited, and then it denotes what was written and reads nothing that an *)
(* aggregation put below would hide.  The operators are in their order     *)
(* before the insertion, and the entry separates WHERE from the rest.      *)
(***************************************************************************)
EXTENDS QueryPlan, TLAPS

Working == pc \notin {"done", "failed"}
Clausal == {"where", "group", "keys", "having", "select", "elements", "distinct",
            "order", "sort", "limit"}

-----------------------------------------------------------------------------
(* The order of the operators.                                             *)

Ordered(p) == \A i, k \in DOMAIN p : i < k => Rank(p[i]) < Rank(p[k])

(* In their order, none after the clause of rank r, and none of the two    *)
(* that are put in at the end.                                             *)
Placed(p, r) ==
    /\ Ordered(p)
    /\ \A i \in DOMAIN p : /\ Rank(p[i]) <= r
                           /\ p[i].kind \notin {"arguments", "aggregate"}
                           /\ Len(p[i].values) = Len(p[i].written)

(* WHERE is below the entry, all the rest above.                           *)
EntryOf(p, e) == \A i \in DOMAIN p : i <= e <=> p[i].kind = "where"

(* The last clause that may have left an operator.                         *)
Reached ==
    CASE pc = "where" -> 0
      [] pc \in {"group", "keys", "having"} -> 1
      [] pc = "select" -> 4
      [] pc \in {"elements", "distinct"} -> 5
      [] pc = "order" -> 6
      [] pc = "sort" -> 7
      [] OTHER -> 8

LastIs(kind) == plan # <<>> /\ plan[Len(plan)].kind = kind

CursorOK ==
    /\ cursor.operator \in DOMAIN plan
    /\ cursor.value >= 1 /\ cursor.leaf >= 1
    /\ Current.kind \in {"having", "select", "order"}
    /\ Current.kind = "having" => LastIs("having")

Shape ==
    /\ Placed(plan, Reached)
    /\ entry \in 0..Len(plan)
    /\ pc # "where" => EntryOf(plan, entry)
    /\ pc = "elements" => LastIs("select")
    /\ pc \in {"distinct", "order", "sort", "limit"} => Positions("select") # {}
    /\ pc = "sort" => LastIs("order")
    /\ pc = "process" => CursorOK

-----------------------------------------------------------------------------
(* The variables that are created.                                         *)

ColumnsFresh ==
    /\ \A i \in DOMAIN plan : \A j \in DOMAIN plan[i].columns : plan[i].columns[j] \in 1..fresh
    /\ \A m \in DOMAIN arguments : arguments[m].column \in 1..fresh
    /\ \A m \in DOMAIN aggregates : aggregates[m].column \in 1..fresh

ColumnsApart ==
    /\ \A m, n \in DOMAIN arguments : arguments[m].column = arguments[n].column => m = n
    /\ \A m, n \in DOMAIN aggregates : aggregates[m].column = aggregates[n].column => m = n
    /\ \A m \in DOMAIN arguments, n \in DOMAIN aggregates : arguments[m].column # aggregates[n].column
    /\ \A i \in DOMAIN plan : \A j \in DOMAIN plan[i].columns :
          /\ \A m \in DOMAIN arguments : arguments[m].column # plan[i].columns[j]
          /\ \A m \in DOMAIN aggregates : aggregates[m].column # plan[i].columns[j]

Fresh == ColumnsFresh /\ ColumnsApart /\ DefinedOnce

KeysApart == \A i, k \in DOMAIN groupKeys : groupKeys[i] = groupKeys[k] => i = k

-----------------------------------------------------------------------------
(* The leaves.                                                             *)

(* These are operators of the state they are about, given as parameters:   *)
(* the chain p, the stage s, the cursor c, the arguments, the aggregations *)
(* and the keys.                                                           *)

(* The engine is still to come to leaf k of value j of operator i.         *)
Ahead(c, i, j, k) ==
    \/ c.operator < i
    \/ /\ c.operator = i
       /\ (c.value < j \/ (c.value = j /\ c.leaf <= k))

Pending(p, s, c, i, j, k) ==
    \/ s \in Clausal /\ p[i].kind \in {"select", "order"}
    \/ s = "process" /\ p[i].kind \in {"having", "select", "order"} /\ Ahead(c, i, j, k)

(* The leaf l is what was written as w: Denotes of the states.             *)
Means(args, aggs, l, w) ==
    IF w.kind = "column" THEN l = w
    ELSE \E m \in DOMAIN aggs :
             /\ l = Reference(aggs[m].column)
             /\ aggs[m].function = w.function
             /\ Len(aggs[m].arguments) = Len(w.arguments)
             /\ \A n \in DOMAIN w.arguments :
                    /\ ~w.arguments[n].nested
                    /\ \E a \in DOMAIN args : /\ args[a].column = aggs[m].arguments[n]
                                             /\ args[a].value = w.arguments[n]

(* What operator i may read in a chain with an aggregation.                *)
Readable(p, aggs, keys, i, l) ==
    /\ l.kind = "column"
    /\ p[i].kind = "where" => l.column \in Columns
    /\ p[i].kind \in {"having", "select", "order"} =>
          \/ \E m \in DOMAIN aggs : aggs[m].column = l.column
          \/ \E m \in DOMAIN keys : keys[m] = l.column
    /\ p[i].kind = "limit" =>
          /\ i - 1 \in DOMAIN p /\ p[i - 1].kind = "order"
          /\ \E n \in DOMAIN p[i - 1].columns : p[i - 1].columns[n] = l.column

LeafOK(p, s, c, args, aggs, keys, i, j, k) ==
    LET l == p[i].values[j][k]
        w == p[i].written[j][k]
    IN  IF Pending(p, s, c, i, j, k) THEN l = w /\ Original(l)
        ELSE Means(args, aggs, l, w) /\ Readable(p, aggs, keys, i, l)

LeavesIn(p, s, c, args, aggs, keys) ==
    \A i \in DOMAIN p : \A j \in DOMAIN p[i].values :
        /\ Len(p[i].values[j]) = Len(p[i].written[j])
        /\ \A k \in DOMAIN p[i].values[j] : LeafOK(p, s, c, args, aggs, keys, i, j, k)

Leaves == LeavesIn(plan, pc, cursor, arguments, aggregates, groupKeys)

(* Without an active processor there is no call.                           *)
Inactive ==
    /\ pc \in {"process", "install"} => active
    /\ ~active =>
        /\ aggregates = <<>>
        /\ \A i \in DOMAIN plan : \A j \in DOMAIN plan[i].values :
              ~SawAggregate(plan[i].values[j])

(* The arguments of an aggregation are computed below it.                  *)
ArgumentsOK ==
    \A m \in DOMAIN aggregates : \A n \in DOMAIN aggregates[m].arguments :
        \E l \in DOMAIN arguments : arguments[l].column = aggregates[m].arguments[n]

Inv ==
    /\ TypeOK
    /\ DefinedOnce
    /\ Working => /\ Shape
                  /\ Fresh /\ KeysApart
                  /\ Leaves /\ Inactive /\ ArgumentsOK
    /\ InClauseOrder
    /\ ValuesKept
    /\ Available

-----------------------------------------------------------------------------
(* The place of each kind in the order.                                    *)

LEMMA RankOf ==
    ASSUME NEW o, o.kind \in Kinds
    PROVE  /\ Rank(o) \in 1..8
           /\ Rank(o) = 1 <=> o.kind = "where"
           /\ Rank(o) = 2 <=> o.kind = "arguments"
           /\ Rank(o) = 3 <=> o.kind = "aggregate"
           /\ Rank(o) = 4 <=> o.kind = "having"
           /\ Rank(o) = 5 <=> o.kind = "select"
           /\ Rank(o) = 6 <=> o.kind = "distinct"
           /\ Rank(o) = 7 <=> o.kind = "order"
           /\ Rank(o) = 8 <=> o.kind = "limit"
<1>1. DOMAIN ClauseOrder = 1..8
  BY DEF ClauseOrder
<1>2. \E r \in DOMAIN ClauseOrder : ClauseOrder[r] = o.kind
  BY <1>1 DEF ClauseOrder, Kinds
<1>3. Rank(o) \in DOMAIN ClauseOrder /\ ClauseOrder[Rank(o)] = o.kind
  BY <1>2 DEF Rank
<1> QED
  BY <1>1, <1>3 DEF ClauseOrder

LEMMA RankOfKind ==
    ASSUME NEW o, NEW q, o.kind = q.kind
    PROVE  Rank(o) = Rank(q)
  BY DEF Rank

-----------------------------------------------------------------------------
(* What the steps do to the chain.                                         *)

LEMMA Made ==
    ASSUME NEW kind \in Kinds, NEW values \in Seq(Value), NEW columns \in Seq(Variables)
    PROVE  Make(kind, values, columns) \in Operator
  BY DEF Make, Operator

LEMMA Added ==
    ASSUME NEW kind \in Kinds, NEW values \in Seq(Value)
    PROVE  Make(kind, values, <<>>) \in Operator
<1>1. <<>> \in Seq(Variables)
  OBVIOUS
<1> QED
  BY <1>1, Made

LEMMA NextVariable ==
    ASSUME TypeOK
    PROVE  fresh + 1 \in Created /\ fresh + 1 \in Variables
  BY DEF TypeOK, Variables, Created

LEMMA Appended ==
    ASSUME TypeOK, NEW o \in Operator, plan' = Append(plan, o)
    PROVE  /\ plan' \in Seq(Operator)
           /\ Len(plan) \in Nat /\ DOMAIN plan = 1..Len(plan)
           /\ Len(plan') = Len(plan) + 1 /\ DOMAIN plan' = 1..(Len(plan) + 1)
           /\ \A i \in DOMAIN plan : plan'[i] = plan[i]
           /\ plan'[Len(plan) + 1] = o
  BY DEF TypeOK

LEMMA Widened ==
    ASSUME TypeOK, NEW e \in Value, AddColumn(e), plan # <<>>
    PROVE  LET n == Len(plan) IN
           /\ n \in Nat \ {0} /\ DOMAIN plan = 1..n
           /\ plan' \in Seq(Operator)
           /\ Len(plan') = n /\ DOMAIN plan' = 1..n
           /\ \A i \in DOMAIN plan : i # n => plan'[i] = plan[i]
           /\ plan[n] \in Operator
           /\ plan'[n].kind = plan[n].kind
           /\ plan'[n].values = Append(plan[n].values, e)
           /\ plan'[n].written = Append(plan[n].written, e)
           /\ plan'[n].columns = Append(plan[n].columns, fresh + 1)
           /\ fresh' = fresh + 1
<1> DEFINE n == Len(plan)
           wider == [plan[n] EXCEPT !.values = Append(@, e), !.written = Append(@, e),
                                    !.columns = Append(@, fresh + 1)]
<1>1. n \in Nat \ {0} /\ DOMAIN plan = 1..n /\ plan[n] \in Operator /\ fresh \in Nat
  BY DEF TypeOK
<1>2. plan' = [plan EXCEPT ![n] = wider] /\ fresh' = fresh + 1
  BY DEF AddColumn
<1>3. fresh + 1 \in Variables
  BY <1>1 DEF Variables, Created
<1>4. /\ wider.kind = plan[n].kind /\ wider.values = Append(plan[n].values, e)
      /\ wider.written = Append(plan[n].written, e)
      /\ wider.columns = Append(plan[n].columns, fresh + 1)
  BY <1>1 DEF Operator
<1>5. wider \in Operator
  <2>1. /\ Append(plan[n].values, e) \in Seq(Value) /\ Append(plan[n].written, e) \in Seq(Value)
        /\ Append(plan[n].columns, fresh + 1) \in Seq(Variables)
    BY <1>1, <1>3 DEF Operator
  <2> QED
    BY <1>1, <2>1 DEF Operator
<1>6. plan' \in Seq(Operator) /\ Len(plan') = n
  <2> HIDE DEF wider
  <2> QED
    BY <1>1, <1>2, <1>5 DEF TypeOK
<1> HIDE DEF wider
<1> QED
  BY <1>1, <1>2, <1>4, <1>6 DEF TypeOK

LEMMA Replaced ==
    ASSUME TypeOK, AtLeaf, cursor.operator \in DOMAIN plan,
           NEW v \in Variables, ReplaceLeaf(v)
    PROVE  LET o == cursor.operator
               x == cursor.value
               l == cursor.leaf
           IN
           /\ plan' \in Seq(Operator)
           /\ Len(plan') = Len(plan) /\ DOMAIN plan' = DOMAIN plan
           /\ \A i \in DOMAIN plan :
                 /\ plan'[i].kind = plan[i].kind
                 /\ plan'[i].written = plan[i].written
                 /\ plan'[i].columns = plan[i].columns
                 /\ Len(plan'[i].values) = Len(plan[i].values)
                 /\ DOMAIN plan'[i].values = DOMAIN plan[i].values
                 /\ \A j \in DOMAIN plan[i].values :
                       /\ Len(plan'[i].values[j]) = Len(plan[i].values[j])
                       /\ DOMAIN plan'[i].values[j] = DOMAIN plan[i].values[j]
                       /\ \A k \in DOMAIN plan[i].values[j] :
                             plan'[i].values[j][k] =
                                 IF i = o /\ j = x /\ k = l THEN Reference(v)
                                                            ELSE plan[i].values[j][k]
<1> DEFINE o == cursor.operator
           x == cursor.value
           l == cursor.leaf
           value == [plan[o].values[x] EXCEPT ![l] = Reference(v)]
           list == [plan[o].values EXCEPT ![x] = value]
           wider == [plan[o] EXCEPT !.values = list]
<1>1. plan[o] \in Operator /\ plan \in Seq(Operator)
  BY DEF TypeOK
<1>2. plan[o].values \in Seq(Value) /\ x \in DOMAIN plan[o].values
      /\ plan[o].values[x] \in Seq(Leaf) /\ l \in DOMAIN plan[o].values[x]
  BY <1>1 DEF Operator, AtLeaf, Current, Value
<1>3. plan' = [plan EXCEPT ![o] = wider]
  BY DEF ReplaceLeaf
<1>4. Reference(v) \in Leaf
  BY DEF Reference, Leaf
<1>5. /\ value \in Seq(Leaf) /\ Len(value) = Len(plan[o].values[x])
      /\ DOMAIN value = DOMAIN plan[o].values[x]
      /\ \A k \in DOMAIN plan[o].values[x] :
            value[k] = IF k = l THEN Reference(v) ELSE plan[o].values[x][k]
  BY <1>2, <1>4
<1>6. /\ list \in Seq(Value) /\ Len(list) = Len(plan[o].values)
      /\ DOMAIN list = DOMAIN plan[o].values
      /\ list[x] = value
      /\ \A j \in DOMAIN plan[o].values : j # x => list[j] = plan[o].values[j]
  <2> HIDE DEF value
  <2> QED
    BY <1>2, <1>5 DEF Value
<1>7. /\ wider \in Operator /\ wider.kind = plan[o].kind /\ wider.values = list
      /\ wider.written = plan[o].written /\ wider.columns = plan[o].columns
  <2> HIDE DEF list
  <2> QED
    BY <1>1, <1>6 DEF Operator
<1>8. /\ plan' \in Seq(Operator) /\ Len(plan') = Len(plan) /\ DOMAIN plan' = DOMAIN plan
      /\ plan'[o] = wider
      /\ \A i \in DOMAIN plan : i # o => plan'[i] = plan[i]
  <2> HIDE DEF wider
  <2> QED
    BY <1>1, <1>3, <1>7
<1> HIDE DEF value, list, wider
<1>9. ASSUME NEW i \in DOMAIN plan
      PROVE  /\ plan'[i].kind = plan[i].kind
             /\ plan'[i].written = plan[i].written
             /\ plan'[i].columns = plan[i].columns
             /\ Len(plan'[i].values) = Len(plan[i].values)
             /\ DOMAIN plan'[i].values = DOMAIN plan[i].values
  BY <1>6, <1>7, <1>8
<1>10. ASSUME NEW i \in DOMAIN plan, NEW j \in DOMAIN plan[i].values
       PROVE  /\ Len(plan'[i].values[j]) = Len(plan[i].values[j])
              /\ DOMAIN plan'[i].values[j] = DOMAIN plan[i].values[j]
              /\ \A k \in DOMAIN plan[i].values[j] :
                             plan'[i].values[j][k] =
                                 IF i = o /\ j = x /\ k = l THEN Reference(v)
                                                            ELSE plan[i].values[j][k]
  <2>1. CASE i # o
    BY <2>1, <1>8
  <2>2. CASE i = o /\ j # x
    BY <2>2, <1>6, <1>7, <1>8
  <2>3. CASE i = o /\ j = x
    BY <2>3, <1>5, <1>6, <1>7, <1>8
  <2> QED
    BY <2>1, <2>2, <2>3
<1> QED
  BY <1>8, <1>9, <1>10

LEMMA Joined ==
    ASSUME NEW S, NEW s \in Seq(S), NEW t \in Seq(S)
    PROVE  /\ s \o t \in Seq(S) /\ Len(s \o t) = Len(s) + Len(t)
           /\ \A i \in 1..(Len(s) + Len(t)) :
                 (s \o t)[i] = IF i <= Len(s) THEN s[i] ELSE t[i - Len(s)]
  OBVIOUS

(* install() puts its operators between the entry and what follows it.     *)
Splice(s, e, t) == SubSeq(s, 1, e) \o t \o SubSeq(s, e + 1, Len(s))

LEMMA Spliced ==
    ASSUME NEW S, NEW s \in Seq(S), NEW t \in Seq(S), NEW e \in 0..Len(s)
    PROVE  /\ Splice(s, e, t) \in Seq(S)
           /\ Len(Splice(s, e, t)) = Len(s) + Len(t)
           /\ DOMAIN Splice(s, e, t) = 1..(Len(s) + Len(t))
           /\ \A i \in 1..(Len(s) + Len(t)) :
                 Splice(s, e, t)[i] = IF i <= e THEN s[i]
                                      ELSE IF i <= e + Len(t) THEN t[i - e]
                                      ELSE s[i - Len(t)]
<1> DEFINE n == Len(t)
           m == Len(s)
           u == SubSeq(s, 1, e)
           w == SubSeq(s, e + 1, m)
<1>1. n \in Nat /\ m \in Nat /\ e \in Nat /\ e <= m
  OBVIOUS
<1> HIDE DEF m
<1>2. /\ u \in Seq(S) /\ Len(u) = e /\ \A i \in 1..e : u[i] = s[i]
  BY <1>1 DEF m
<1>3. /\ w \in Seq(S) /\ Len(w) = m - e /\ \A i \in 1..(m - e) : w[i] = s[e + i]
  BY <1>1 DEF m
<1> HIDE DEF u, w, n
<1>4. /\ u \o t \in Seq(S) /\ Len(u \o t) = e + n
      /\ \A i \in 1..(e + n) : (u \o t)[i] = IF i <= e THEN u[i] ELSE t[i - e]
  BY <1>1, <1>2, Joined DEF n
<1>5. /\ (u \o t) \o w \in Seq(S) /\ Len((u \o t) \o w) = m + n
      /\ \A i \in 1..(m + n) : ((u \o t) \o w)[i] = IF i <= e + n THEN (u \o t)[i] ELSE w[i - e - n]
  <2> DEFINE v == u \o t
  <2>1. v \in Seq(S) /\ Len(v) = e + n
    BY <1>4
  <2> HIDE DEF v
  <2>2. /\ v \o w \in Seq(S) /\ Len(v \o w) = e + n + (m - e)
        /\ \A i \in 1..(e + n + (m - e)) :
              (v \o w)[i] = IF i <= e + n THEN v[i] ELSE w[i - (e + n)]
    <3> DEFINE x == v \o w
    <3>1. /\ x \in Seq(S) /\ Len(x) = Len(v) + Len(w)
          /\ \A i \in 1..(Len(v) + Len(w)) :
                x[i] = IF i <= Len(v) THEN v[i] ELSE w[i - Len(v)]
      BY <2>1, <1>3, Joined, Zenon
    <3> HIDE DEF x
    <3> QED
      BY <3>1, <2>1, <1>3 DEF x
  <2>3. e + n + (m - e) = m + n /\ \A i \in 1..(m + n) : i - (e + n) = i - e - n
    BY <1>1
  <2> QED
    BY <2>2, <2>3 DEF v
<1>6. DOMAIN ((u \o t) \o w) = 1..(m + n)
  BY <1>5
<1>7. ASSUME NEW i \in 1..(m + n)
      PROVE  ((u \o t) \o w)[i] = IF i <= e THEN s[i]
                                  ELSE IF i <= e + n THEN t[i - e] ELSE s[i - n]
  <2>1. CASE i <= e
    <3>1. i \in 1..e /\ i \in 1..(e + n) /\ i <= e + n
      BY <2>1, <1>1
    <3>2. ((u \o t) \o w)[i] = (u \o t)[i]
      BY <3>1, <1>5
    <3>3. (u \o t)[i] = u[i]
      BY <2>1, <3>1, <1>4
    <3>4. u[i] = s[i]
      BY <3>1, <1>2
    <3> QED
      BY <2>1, <3>2, <3>3, <3>4, Zenon
  <2>2. CASE e < i /\ i <= e + n
    <3>1. i \in 1..(e + n) /\ ~(i <= e)
      BY <2>2, <1>1
    <3>2. ((u \o t) \o w)[i] = (u \o t)[i]
      BY <2>2, <1>5
    <3>3. (u \o t)[i] = t[i - e]
      BY <3>1, <1>4
    <3> QED
      BY <2>2, <3>1, <3>2, <3>3, Zenon
  <2>3. CASE e + n < i
    <3>1. i - e - n \in 1..(m - e) /\ e + (i - e - n) = i - n
      BY <2>3, <1>1
    <3>2. w[i - e - n] = s[i - n]
      BY <3>1, <1>3
    <3>3. ((u \o t) \o w)[i] = w[i - e - n]
      BY <2>3, <1>1, <1>5
    <3> QED
      BY <2>3, <3>2, <3>3, <1>1
  <2>4. i <= e \/ (e < i /\ i <= e + n) \/ e + n < i
    BY <1>1
  <2> QED
    BY <2>1, <2>2, <2>3, <2>4, Zenon
<1>8. Splice(s, e, t) = (u \o t) \o w
  BY DEF Splice, u, w, m
<1> QED
  BY <1>5, <1>6, <1>7, <1>8 DEF n, m

LEMMA Analysed ==
    ASSUME NEW e \in Expressions
    PROVE  /\ e \in Value /\ <<e>> \in Seq(Value)
           /\ \A i \in DOMAIN e : e[i] \in Leaf /\ Original(e[i])
<1>1. e \in Value /\ \A i \in DOMAIN e : Original(e[i])
  BY ExpressionsAssumption
<1> QED
  BY <1>1 DEF Value

LEMMA Referenced ==
    ASSUME NEW s \in Seq(Variables)
    PROVE  /\ References(s) \in Seq(Value)
           /\ Len(References(s)) = Len(s) /\ DOMAIN References(s) = DOMAIN s
           /\ \A i \in DOMAIN s : References(s)[i] = <<Reference(s[i])>>
<1>1. \A i \in DOMAIN s : <<Reference(s[i])>> \in Value
  BY DEF Reference, Leaf, Value
<1> QED
  BY <1>1 DEF References

-----------------------------------------------------------------------------
(* Type correctness.                                                       *)

LEMMA CursorMoves ==
    ASSUME NEW c \in [operator : Nat, value : Nat, leaf : Nat]
    PROVE  /\ [c EXCEPT !.leaf = c.leaf + 1] \in [operator : Nat, value : Nat, leaf : Nat]
           /\ [c EXCEPT !.value = c.value + 1, !.leaf = 1]
                  \in [operator : Nat, value : Nat, leaf : Nat]
<1>1. c.leaf + 1 \in Nat /\ c.value + 1 \in Nat /\ 1 \in Nat
  OBVIOUS
<1>2. [c EXCEPT !.leaf = c.leaf + 1] \in [operator : Nat, value : Nat, leaf : Nat]
  BY <1>1
<1>3. [c EXCEPT !.value = c.value + 1, !.leaf = 1] \in [operator : Nat, value : Nat, leaf : Nat]
  <2> DEFINE d == [c EXCEPT !.value = c.value + 1]
  <2>1. d \in [operator : Nat, value : Nat, leaf : Nat]
    BY <1>1
  <2>2. [c EXCEPT !.value = c.value + 1, !.leaf = 1] = [d EXCEPT !.leaf = 1]
    OBVIOUS
  <2> HIDE DEF d
  <2>3. [d EXCEPT !.leaf = 1] \in [operator : Nat, value : Nat, leaf : Nat]
    BY <2>1, <1>1
  <2> QED
    BY <2>2, <2>3
<1> QED
  BY <1>1, <1>2, <1>3

LEMMA TypesOfRest ==
    ASSUME TypeOK,
           \/ NoWhere \/ RejectWhere \/ BeginGroup \/ NoGroup \/ RejectGroup \/ EndGroup
           \/ NoHaving \/ EndSelect \/ NotDistinct \/ NoOrder \/ RejectSortKey \/ RejectLimit
           \/ KeepColumn \/ RejectColumn \/ RejectCall \/ UNCHANGED vars
    PROVE  TypeOK'
<1>1. CASE NoWhere
  BY <1>1 DEF TypeOK, NoWhere, Goto, Built, processor, Stages
<1>2. CASE \/ RejectWhere \/ RejectGroup \/ RejectSortKey \/ RejectLimit \/ RejectColumn \/ RejectCall
  <2>1. UNCHANGED <<plan, info, entry, processor, fresh, cursor>> /\ pc' = "failed"
    BY <1>2 DEF RejectWhere, RejectGroup, RejectSortKey, RejectLimit, RejectColumn, RejectCall,
                Fail, Goto
  <2> QED
    BY <2>1 DEF TypeOK, processor, Stages
<1>3. CASE BeginGroup
  BY <1>3 DEF TypeOK, BeginGroup, Goto, Built, Stages
<1>4. CASE NoGroup \/ EndGroup \/ NoHaving \/ EndSelect \/ NotDistinct \/ NoOrder
  BY <1>4 DEF TypeOK, NoGroup, EndGroup, NoHaving, EndSelect, NotDistinct, NoOrder,
              Goto, Built, processor, Stages
<1>5. CASE KeepColumn
  <2>1. cursor' \in [operator : Nat, value : Nat, leaf : Nat]
    <3>1. cursor' = [cursor EXCEPT !.leaf = cursor.leaf + 1]
      BY <1>5 DEF KeepColumn, NextLeaf
    <3>2. cursor \in [operator : Nat, value : Nat, leaf : Nat]
      BY DEF TypeOK
    <3>3. cursor.leaf + 1 \in Nat
      BY <3>2
    <3> QED
      BY <3>1, <3>2, <3>3
  <2> QED
    BY <1>5, <2>1 DEF TypeOK, KeepColumn, Built, processor
<1>6. CASE UNCHANGED vars
  BY <1>6 DEF TypeOK, vars, processor
<1> QED
  BY <1>1, <1>2, <1>3, <1>4, <1>5, <1>6

(* The steps that append an operator or a column.                          *)
LEMMA TypesOfClauses ==
    ASSUME TypeOK, Working => Shape,
           \/ Where \/ Group \/ Having \/ BeginSelect \/ Select \/ SelectAsterisk
           \/ Distinct \/ BeginOrder \/ SortKey \/ EndOrder
    PROVE  TypeOK'
<1> USE DEF Goto
<1>0. Len(plan) \in Nat /\ \A kind \in Kinds : Make(kind, <<>>, <<>>) \in Operator
  <2>1. <<>> \in Seq(Value)
    OBVIOUS
  <2>2. Len(plan) \in Nat
    BY DEF TypeOK
  <2>3. \A kind \in Kinds : Make(kind, <<>>, <<>>) \in Operator
    BY <2>1, Added
  <2> QED
    BY <2>2, <2>3
<1>1. CASE Where
  <2>1. PICK e \in Expressions : plan' = Append(plan, Make("where", <<e>>, <<>>))
    BY <1>1 DEF Where
  <2>2. Make("where", <<e>>, <<>>) \in Operator
    BY <2>1, Analysed, Added DEF Kinds
  <2>3. plan' \in Seq(Operator) /\ Len(plan') \in Nat
    BY <2>1, <2>2, Appended, <1>0
  <2> QED
    BY <1>1, <2>3 DEF TypeOK, Where, processor, Stages
<1>2. CASE Group
  <2>1. groupKeys' \in Seq(Columns)
    <3>1. PICK e \in Expressions : PlainColumn(e) /\ groupKeys' = Append(groupKeys, e[1].column)
      BY <1>2 DEF Group
    <3>2. e[1].column \in Columns
      BY <3>1, Analysed DEF PlainColumn, Original, Value
    <3> QED
      BY <3>1, <3>2 DEF TypeOK
  <2> QED
    BY <1>2, <2>1 DEF TypeOK, Group, Built
<1>3. CASE Having
  <2>1. PICK e \in Expressions : plan' = Append(plan, Make("having", <<e>>, <<>>))
    BY <1>3 DEF Having
  <2>2. Make("having", <<e>>, <<>>) \in Operator
    BY <2>1, Analysed, Added DEF Kinds
  <2>3. plan' \in Seq(Operator) /\ Len(plan') \in Nat
    BY <2>1, <2>2, Appended, <1>0
  <2> QED
    BY <1>3, <2>3 DEF TypeOK, Having, Stages
<1>4. CASE BeginSelect \/ BeginOrder
  <2>1. plan' \in Seq(Operator)
    BY <1>4, <1>0, Appended DEF BeginSelect, BeginOrder, Kinds
  <2> QED
    BY <1>4, <2>1 DEF TypeOK, BeginSelect, BeginOrder, processor, Stages
<1>5. CASE Select \/ SortKey
  <2>1. PICK e \in Expressions : AddColumn(e) /\ active' = (active \/ SawAggregate(e))
    BY <1>5 DEF Select, SortKey
  <2>2. plan # <<>>
    BY <1>5 DEF Select, SortKey, Working, Shape, LastIs
  <2>3. plan' \in Seq(Operator) /\ fresh' = fresh + 1
    BY <2>1, <2>2, Analysed, Widened
  <2>4. active' \in BOOLEAN
    BY <2>1 DEF TypeOK, SawAggregate
  <2>5. info' \in Seq(Variables)
    <3>1. info' = info \/ info' = Append(info, fresh + 1)
      BY <1>5 DEF Select, SortKey
    <3>2. info \in Seq(Variables) /\ fresh + 1 \in Variables
      BY NextVariable DEF TypeOK
    <3> QED
      BY <3>1, <3>2
  <2> QED
    BY <1>5, <2>3, <2>4, <2>5 DEF TypeOK, Select, SortKey
<1>6. CASE SelectAsterisk
  <2>1. Asterisk \in Seq(Variables)
    BY AsteriskAssumption DEF Variables
  <2>2. info' \in Seq(Variables)
    BY <1>6, <2>1 DEF TypeOK, SelectAsterisk
  <2> QED
    BY <1>6, <2>2 DEF TypeOK, SelectAsterisk, processor
<1>7. CASE Distinct
  <2>1. Make("distinct", References(info), <<>>) \in Operator
    <3>1. References(info) \in Seq(Value)
      BY Referenced DEF TypeOK
    <3> QED
      BY <3>1, Added DEF Kinds
  <2>2. plan' \in Seq(Operator)
    BY <1>7, <2>1, Appended DEF Distinct
  <2> QED
    BY <1>7, <2>2 DEF TypeOK, Distinct, processor, Stages
<1>8. CASE EndOrder
  <2>0. plan[Len(plan)] \in Operator
    BY <1>8 DEF EndOrder, TypeOK, Working, Shape, LastIs
  <2>1. Make("limit", References(plan[Len(plan)].columns), <<>>) \in Operator
    <3>1. References(plan[Len(plan)].columns) \in Seq(Value)
      BY <2>0, Referenced DEF Operator
    <3> QED
      BY <3>1, Added DEF Kinds
  <2>2. plan' \in Seq(Operator)
    BY <1>8, <2>1, Appended DEF EndOrder
  <2> QED
    BY <1>8, <2>2 DEF TypeOK, EndOrder, processor, Stages
<1> QED
  BY <1>1, <1>2, <1>3, <1>4, <1>5, <1>6, <1>7, <1>8

(* LIMIT, or the end of the clauses without it.                            *)
LEMMA Limited ==
    ASSUME TypeOK, Working => Shape, Limit \/ NoLimit
    PROVE  /\ plan' \in Seq(Operator)
           /\ \/ plan' = plan
              \/ Positions("limit") = {} /\ plan' = Append(plan, Make("limit", <<>>, <<>>))
           /\ pc = "limit"
           /\ ~active => pc' = "done" /\ cursor' = NoCursor
           /\ active => /\ pc' = "process"
                        /\ cursor'.operator \in DOMAIN plan'
                        /\ plan'[cursor'.operator].kind = "select"
                        /\ cursor'.value = 1 /\ cursor'.leaf = 1
           /\ cursor' \in [operator : Nat, value : Nat, leaf : Nat]
           /\ UNCHANGED <<info, entry, processor, fresh>>
<1>1. Make("limit", <<>>, <<>>) \in Operator
  <2>1. <<>> \in Seq(Value)
    OBVIOUS
  <2> QED
    BY <2>1, Added DEF Kinds
<1>2. \/ plan' = plan
      \/ Positions("limit") = {} /\ plan' = Append(plan, Make("limit", <<>>, <<>>))
  BY DEF Limit, NoLimit
<1>3. plan' \in Seq(Operator) /\ \A i \in DOMAIN plan : i \in DOMAIN plan' /\ plan'[i] = plan[i]
  BY <1>1, <1>2, Appended DEF TypeOK
<1>4. pc = "limit" /\ Aggregate /\ UNCHANGED <<info, entry, processor, fresh>>
  BY DEF Limit, NoLimit
<1>5. CASE ~active
  <2>1. pc' = "done" /\ cursor' = NoCursor
    BY <1>4, <1>5 DEF Aggregate
  <2> QED
    BY <1>2, <1>3, <1>4, <1>5, <2>1 DEF NoCursor
<1>6. CASE active
  <2>1. pc' = "process" /\ cursor' = FirstLeaf("select")
    BY <1>4, <1>6 DEF Aggregate
  <2>2. \E i \in DOMAIN plan' : plan'[i].kind = "select"
    BY <1>3, <1>4 DEF Working, Shape, Positions
  <2>3. cursor'.operator = CHOOSE i \in DOMAIN plan' : plan'[i].kind = "select"
    BY <2>1 DEF FirstLeaf
  <2>4. cursor'.operator \in DOMAIN plan' /\ plan'[cursor'.operator].kind = "select"
    BY <2>2, <2>3
  <2>5. cursor' \in [operator : Nat, value : Nat, leaf : Nat]
        /\ cursor'.value = 1 /\ cursor'.leaf = 1
    <3>1. \A i \in DOMAIN plan' : i \in Nat
      BY <1>3
    <3>2. cursor' = [operator |-> cursor'.operator, value |-> 1, leaf |-> 1]
      BY <2>1 DEF FirstLeaf
    <3> QED
      BY <2>4, <3>1, <3>2
  <2> QED
    BY <1>2, <1>3, <1>4, <1>6, <2>1, <2>4, <2>5
<1> QED
  BY <1>5, <1>6 DEF TypeOK

LEMMA MoreArguments ==
    ASSUME TypeOK, NEW c \in Leaf, c.kind = "call"
    PROVE  LET m == Len(arguments)
               n == Len(c.arguments)
               all == WithArguments(c)
           IN
           /\ c.function \in Functions /\ c.arguments \in Seq(Argument)
           /\ m \in Nat /\ n \in Nat
           /\ DOMAIN arguments = 1..m /\ DOMAIN c.arguments = 1..n
           /\ Replacements(c) \in Seq(Created)
           /\ Len(Replacements(c)) = n /\ DOMAIN Replacements(c) = 1..n
           /\ \A i \in 1..n : Replacements(c)[i] = fresh + i
           /\ all \in Seq([value : Argument, column : Created])
           /\ Len(all) = m + n /\ DOMAIN all = 1..(m + n)
           /\ \A i \in 1..m : all[i] = arguments[i]
           /\ \A i \in 1..n : all[m + i] = [value |-> c.arguments[i], column |-> fresh + i]
           /\ Destination(c) = fresh + n + 1 /\ Destination(c) \in Created
<1> DEFINE m == Len(arguments)
           n == Len(c.arguments)
           Entries == [value : Argument, column : Created]
           more == [i \in DOMAIN c.arguments |->
                        [value |-> c.arguments[i], column |-> Replacements(c)[i]]]
<1>1. c.function \in Functions /\ c.arguments \in Seq(Argument)
  BY DEF Leaf
<1>2. m \in Nat /\ n \in Nat /\ DOMAIN arguments = 1..m /\ DOMAIN c.arguments = 1..n
      /\ arguments \in Seq(Entries) /\ fresh \in Nat
  BY <1>1 DEF TypeOK
<1> HIDE DEF m, n
<1>3. \A i \in 1..n : fresh + i \in Created
  BY <1>2 DEF Created
<1>4. Replacements(c) = [i \in 1..n |-> fresh + i]
  BY <1>2 DEF Replacements
<1>5. /\ Replacements(c) \in Seq(Created) /\ Len(Replacements(c)) = n
      /\ DOMAIN Replacements(c) = 1..n
      /\ \A i \in 1..n : Replacements(c)[i] = fresh + i
  BY <1>2, <1>3, <1>4
<1>6. more = [i \in 1..n |-> [value |-> c.arguments[i], column |-> fresh + i]]
  BY <1>2, <1>5
<1>7. \A i \in 1..n : [value |-> c.arguments[i], column |-> fresh + i] \in Entries
  BY <1>1, <1>2, <1>3
<1>8. more \in Seq(Entries) /\ Len(more) = n
  <2> HIDE DEF Entries
  <2>1. more \in [1..n -> Entries]
    BY <1>6, <1>7, Zenon
  <2> HIDE DEF more
  <2> QED
    BY <1>2, <2>1
<1>9. WithArguments(c) = arguments \o more
  BY DEF WithArguments
<1>10. Destination(c) = fresh + n + 1 /\ Destination(c) \in Created
  BY <1>2 DEF Destination, n, Created
<1> DEFINE all == arguments \o more
<1>11. /\ all \in Seq(Entries) /\ Len(all) = m + n
       /\ \A i \in 1..(m + n) : all[i] = IF i <= m THEN arguments[i] ELSE more[i - m]
  <2> HIDE DEF more, Entries
  <2>1. /\ all \in Seq(Entries) /\ Len(all) = Len(arguments) + Len(more)
        /\ \A i \in 1..(Len(arguments) + Len(more)) :
              all[i] = IF i <= Len(arguments) THEN arguments[i] ELSE more[i - Len(arguments)]
    BY <1>2, <1>8, Joined, Zenon
  <2> QED
    BY <2>1, <1>8 DEF m
<1> HIDE DEF all
<1>12. DOMAIN all = 1..(m + n)
  <2> HIDE DEF Entries
  <2> QED
    BY <1>11
<1>13. \A i \in 1..m : all[i] = arguments[i]
  <2> SUFFICES ASSUME NEW i \in 1..m
               PROVE  all[i] = arguments[i]
    OBVIOUS
  <2>1. i \in 1..(m + n) /\ i <= m
    BY <1>2
  <2> HIDE DEF more
  <2> QED
    BY <2>1, <1>11
<1>14. \A i \in 1..n : all[m + i] = [value |-> c.arguments[i], column |-> fresh + i]
  <2> SUFFICES ASSUME NEW i \in 1..n
               PROVE  all[m + i] = [value |-> c.arguments[i], column |-> fresh + i]
    OBVIOUS
  <2>1. m + i \in 1..(m + n) /\ ~(m + i <= m) /\ (m + i) - m = i
    BY <1>2
  <2>2. all[m + i] = more[i]
    BY <2>1, <1>11
  <2> HIDE DEF more
  <2> QED
    BY <2>2, <1>6
<1> QED
  BY <1>1, <1>2, <1>5, <1>9, <1>10, <1>11, <1>12, <1>13, <1>14 DEF all, m, n

(* consume(): the call is replaced by the result v of an aggregation.      *)
Answer(c, v) ==
    /\ AtCall /\ ~Nested(c)
    /\ c \in Leaf /\ c.kind = "call"
    /\ cursor.operator \in DOMAIN plan
    /\ v \in Created
    /\ ReplaceLeaf(v)
    /\ arguments' = WithArguments(c)
    /\ cursor' = NextLeaf
    /\ fresh' \in Nat /\ fresh' >= fresh + Len(c.arguments)
    /\ aggregates' \in Seq([function : Functions, arguments : Seq(Created), column : Created])
    /\ \A m \in DOMAIN aggregates : m \in DOMAIN aggregates' /\ aggregates'[m] = aggregates[m]
    /\ \E m \in DOMAIN aggregates' :
          /\ aggregates'[m].column = v
          /\ aggregates'[m].function = c.function
          /\ aggregates'[m].arguments = Replacements(c)
    /\ \A m \in DOMAIN aggregates' :
          m \in DOMAIN aggregates
          \/ /\ m = Len(aggregates) + 1
             /\ aggregates'[m].arguments = Replacements(c)
             /\ aggregates'[m].column = fresh + Len(c.arguments) + 1
             /\ fresh' = fresh + Len(c.arguments) + 1
    /\ aggregated' \in SUBSET Created
    /\ pc = "process"
    /\ UNCHANGED <<info, entry, active, groupKeys, pc>>

LEMMA LeafAtCursor ==
    ASSUME TypeOK, cursor.operator \in DOMAIN plan, AtLeaf
    PROVE  /\ plan[cursor.operator] \in Operator
           /\ plan[cursor.operator].values[cursor.value] \in Seq(Leaf)
           /\ ThisLeaf \in Leaf
           /\ cursor.value \in DOMAIN plan[cursor.operator].values
           /\ cursor.leaf \in DOMAIN plan[cursor.operator].values[cursor.value]
           /\ ThisLeaf = plan[cursor.operator].values[cursor.value][cursor.leaf]
<1>1. plan[cursor.operator] \in Operator
  BY DEF TypeOK
<1>2. plan[cursor.operator].values \in Seq(Value)
  BY <1>1 DEF Operator
<1>3. plan[cursor.operator].values[cursor.value] \in Seq(Leaf)
  BY <1>2 DEF Value, AtLeaf, Current
<1> QED
  BY <1>1, <1>2, <1>3 DEF AtLeaf, Current, ThisLeaf

LEMMA Answered ==
    ASSUME TypeOK, Working => Shape, Consume \/ Reuse
    PROVE  \E v : Answer(ThisLeaf, v)
<1> DEFINE c == ThisLeaf
           Aggregations == [function : Functions, arguments : Seq(Created), column : Created]
<1>1. AtCall /\ ~Nested(c)
  BY DEF Consume, Reuse
<1>2. pc = "process" /\ cursor.operator \in DOMAIN plan
  BY <1>1 DEF AtCall, AtLeaf, Working, Shape, CursorOK
<1>3. c \in Leaf /\ c.kind = "call"
  BY <1>1, <1>2, LeafAtCursor DEF AtCall
<1> HIDE DEF c
<1>4. /\ c.function \in Functions
      /\ Len(c.arguments) \in Nat /\ Replacements(c) \in Seq(Created)
      /\ Destination(c) = fresh + Len(c.arguments) + 1 /\ Destination(c) \in Created
  BY <1>3, MoreArguments
<1>5. aggregates \in Seq(Aggregations) /\ fresh \in Nat /\ aggregated \in SUBSET Created
  BY DEF TypeOK
<1>6. CASE Reuse
  <2>1. PICK i \in Existing(c) : ReplaceLeaf(aggregates[i].column)
    BY <1>6 DEF Reuse, c
  <2>2. /\ arguments' = WithArguments(c) /\ fresh' = fresh + Len(c.arguments)
        /\ cursor' = NextLeaf
        /\ UNCHANGED <<info, entry, active, groupKeys, aggregated, aggregates, pc>>
    BY <1>6 DEF Reuse, c
  <2>3. i \in DOMAIN aggregates /\ Same(aggregates[i], c)
    BY DEF Existing
  <2>4. /\ aggregates[i].column \in Created /\ aggregates[i].function = c.function
        /\ aggregates[i].arguments = Replacements(c)
    <3>1. aggregates[i] \in Aggregations
      <4> HIDE DEF Aggregations
      <4> QED
        BY <2>3, <1>5
    <3> QED
      BY <2>3, <3>1 DEF Same
  <2>5. Answer(c, aggregates[i].column)
    <3>1. \E m \in DOMAIN aggregates' :
             /\ aggregates'[m].column = aggregates[i].column
             /\ aggregates'[m].function = c.function
             /\ aggregates'[m].arguments = Replacements(c)
      BY <2>2, <2>3, <2>4
    <3>2. /\ aggregates' \in Seq([function : Functions, arguments : Seq(Created), column : Created])
          /\ aggregated' \in SUBSET Created
          /\ \A m \in DOMAIN aggregates : m \in DOMAIN aggregates' /\ aggregates'[m] = aggregates[m]
          /\ \A m \in DOMAIN aggregates' : m \in DOMAIN aggregates
      BY <2>2, <1>5
    <3>3. fresh' \in Nat /\ fresh' >= fresh + Len(c.arguments)
      BY <2>2, <1>4, <1>5
    <3> HIDE DEF Aggregations
    <3> QED
      BY <1>1, <1>2, <1>3, <2>1, <2>2, <2>4, <3>1, <3>2, <3>3 DEF Answer
  <2> QED
    BY <2>5 DEF c
<1>7. CASE Consume
  <2> DEFINE new == [function |-> c.function, arguments |-> Replacements(c),
                     column |-> Destination(c)]
  <2>1. /\ ReplaceLeaf(Destination(c)) /\ arguments' = WithArguments(c)
        /\ aggregates' = Append(aggregates, new)
        /\ aggregated' = aggregated \cup {Destination(c)}
        /\ fresh' = Destination(c) /\ cursor' = NextLeaf
        /\ UNCHANGED <<info, entry, active, groupKeys, pc>>
    BY <1>7 DEF Consume, c
  <2>2. new \in Aggregations
    BY <1>4
  <2>3. /\ new.function = c.function /\ new.arguments = Replacements(c)
        /\ new.column = Destination(c)
    OBVIOUS
  <2> HIDE DEF new, Aggregations
  <2>4. /\ aggregates' \in Seq(Aggregations) /\ Len(aggregates') = Len(aggregates) + 1
        /\ DOMAIN aggregates = 1..Len(aggregates) /\ Len(aggregates) \in Nat
        /\ DOMAIN aggregates' = 1..(Len(aggregates) + 1)
        /\ \A m \in DOMAIN aggregates : aggregates'[m] = aggregates[m]
        /\ aggregates'[Len(aggregates) + 1] = new
    BY <2>1, <2>2, <1>5
  <2>5. \A m \in DOMAIN aggregates' : m \in DOMAIN aggregates \/ m = Len(aggregates) + 1
    BY <2>4
  <2>6. aggregated' \in SUBSET Created /\ fresh' \in Nat /\ fresh' >= fresh + Len(c.arguments)
    BY <2>1, <1>4, <1>5
  <2>7. Answer(c, Destination(c))
    <3>1. \E m \in DOMAIN aggregates' :
             /\ aggregates'[m].column = Destination(c)
             /\ aggregates'[m].function = c.function
             /\ aggregates'[m].arguments = Replacements(c)
      BY <2>3, <2>4
    <3>2. \A m \in DOMAIN aggregates : m \in DOMAIN aggregates' /\ aggregates'[m] = aggregates[m]
      BY <2>4
    <3>3. \A m \in DOMAIN aggregates' :
             m \in DOMAIN aggregates
             \/ /\ m = Len(aggregates) + 1
                /\ aggregates'[m].arguments = Replacements(c)
                /\ aggregates'[m].column = fresh + Len(c.arguments) + 1
                /\ fresh' = fresh + Len(c.arguments) + 1
      BY <1>4, <2>1, <2>3, <2>4, <2>5
    <3>4. aggregates' \in Seq([function : Functions, arguments : Seq(Created), column : Created])
      BY <2>4 DEF Aggregations
    <3> QED
      BY <1>1, <1>2, <1>3, <1>4, <2>1, <2>6, <3>1, <3>2, <3>3, <3>4 DEF Answer
  <2> QED
    BY <2>7 DEF c
<1> QED
  BY <1>6, <1>7

LEMMA Advanced ==
    ASSUME TypeOK, Working => Shape, EndOperator
    PROVE  /\ pc = "process" /\ cursor.operator \in DOMAIN plan
           /\ cursor.value > Len(Current.values)
           /\ Current.kind \in {"having", "select", "order"}
           /\ Current.kind = "having" => pc' = "select" /\ cursor' = NoCursor
           /\ Current.kind = "select" /\ Positions("order") # {} =>
                 /\ pc' = "process" /\ cursor'.operator \in Positions("order")
                 /\ cursor'.value = 1 /\ cursor'.leaf = 1
           /\ Current.kind = "order" \/ (Current.kind = "select" /\ Positions("order") = {}) =>
                 pc' = "install" /\ cursor' = NoCursor
           /\ cursor' \in [operator : Nat, value : Nat, leaf : Nat]
           /\ UNCHANGED <<plan, info, fresh, entry, processor>>
<1>1. /\ pc = "process" /\ cursor.value > Len(Current.values)
      /\ UNCHANGED <<plan, info, fresh, entry, processor>>
  BY DEF EndOperator, Built
<1>2. cursor.operator \in DOMAIN plan /\ Current.kind \in {"having", "select", "order"}
  BY <1>1 DEF Working, Shape, CursorOK
<1>3. Current.kind = "having" => pc' = "select" /\ cursor' = NoCursor
  BY DEF EndOperator
<1>4. Current.kind = "order" \/ (Current.kind = "select" /\ Positions("order") = {}) =>
          pc' = "install" /\ cursor' = NoCursor
  BY DEF EndOperator
<1>5. ASSUME Current.kind = "select", Positions("order") # {}
      PROVE  /\ pc' = "process" /\ cursor'.operator \in Positions("order")
             /\ cursor'.value = 1 /\ cursor'.leaf = 1
             /\ cursor' \in [operator : Nat, value : Nat, leaf : Nat]
  <2>1. /\ pc' = pc
        /\ cursor' = [operator |-> CHOOSE i \in Positions("order") : TRUE, value |-> 1, leaf |-> 1]
    BY <1>5 DEF EndOperator
  <2>2. (CHOOSE i \in Positions("order") : TRUE) \in Positions("order")
    BY <1>5
  <2>3. \A i \in Positions("order") : i \in Nat
    BY DEF Positions, TypeOK
  <2> QED
    BY <1>1, <2>1, <2>2, <2>3
<1>6. NoCursor \in [operator : Nat, value : Nat, leaf : Nat]
  BY DEF NoCursor
<1> QED
  BY <1>1, <1>2, <1>3, <1>4, <1>5, <1>6

LEMMA ArgumentOperatorIs ==
    ASSUME TypeOK
    PROVE  LET o == ArgumentOperator IN
           /\ o \in Operator /\ o.kind = "arguments" /\ o.written = o.values
           /\ Len(o.columns) = Len(arguments) /\ DOMAIN o.columns = DOMAIN arguments
           /\ \A i \in DOMAIN arguments : o.columns[i] = arguments[i].column
           /\ Len(o.values) = Len(arguments) /\ DOMAIN o.values = DOMAIN arguments
           /\ \A i \in DOMAIN arguments :
                 /\ DOMAIN o.values[i] = DOMAIN arguments[i].value.columns
                 /\ \A k \in DOMAIN arguments[i].value.columns :
                       o.values[i][k] = Reference(arguments[i].value.columns[k])
<1> DEFINE Read(i) == [k \in DOMAIN arguments[i].value.columns |->
                           Reference(arguments[i].value.columns[k])]
           values == [i \in DOMAIN arguments |-> Read(i)]
           columns == [i \in DOMAIN arguments |-> arguments[i].column]
           Entries == [value : Argument, column : Created]
           m == Len(arguments)
<1>1. arguments \in Seq(Entries) /\ m \in Nat /\ DOMAIN arguments = 1..m
  BY DEF TypeOK
<1>2. \A i \in DOMAIN arguments : arguments[i] \in Entries
  <2> HIDE DEF Entries
  <2> QED
    BY <1>1
<1> HIDE DEF m
<1>3. \A v \in Variables : Reference(v) \in Leaf
  BY DEF Reference, Leaf
<1>4. ASSUME NEW i \in DOMAIN arguments PROVE Read(i) \in Value
  <2>1. arguments[i].value.columns \in Seq(Variables)
    BY <1>2 DEF Argument, Variables
  <2> QED
    BY <2>1, <1>3 DEF Value
<1>5. values \in Seq(Value) /\ Len(values) = m /\ DOMAIN values = DOMAIN arguments
  <2>1. values \in [1..m -> Value]
    BY <1>1, <1>4, Zenon
  <2> HIDE DEF values
  <2> QED
    BY <2>1, <1>1
<1>6. columns \in Seq(Variables) /\ Len(columns) = m /\ DOMAIN columns = DOMAIN arguments
  <2>1. \A i \in DOMAIN arguments : arguments[i].column \in Variables
    BY <1>2 DEF Variables
  <2>2. columns \in [1..m -> Variables]
    BY <2>1, <1>1, Zenon
  <2> HIDE DEF columns
  <2> QED
    BY <2>2, <1>1
<1>7. ArgumentOperator = Make("arguments", values, columns)
  BY DEF ArgumentOperator
<1>8. ArgumentOperator \in Operator
  <2> HIDE DEF values, columns
  <2> QED
    BY <1>5, <1>6, <1>7, Made DEF Kinds
<1>9. /\ ArgumentOperator.kind = "arguments" /\ ArgumentOperator.values = values
      /\ ArgumentOperator.written = values /\ ArgumentOperator.columns = columns
  <2> HIDE DEF values, columns
  <2> QED
    BY <1>7 DEF Make
<1>10. \A i \in DOMAIN arguments : values[i] = Read(i) /\ columns[i] = arguments[i].column
  OBVIOUS
<1> HIDE DEF values, columns
<1> QED
  BY <1>5, <1>6, <1>8, <1>9, <1>10 DEF m

LEMMA AggregateOperatorIs ==
    ASSUME TypeOK
    PROVE  LET o == AggregateOperator
               g == Len(groupKeys)
               m == Len(aggregates)
           IN
           /\ o \in Operator /\ o.kind = "aggregate" /\ o.written = o.values
           /\ g \in Nat /\ m \in Nat
           /\ DOMAIN groupKeys = 1..g /\ DOMAIN aggregates = 1..m
           /\ Len(o.columns) = g + m /\ DOMAIN o.columns = 1..(g + m)
           /\ \A i \in 1..(g + m) :
                 o.columns[i] = IF i <= g THEN groupKeys[i] ELSE aggregates[i - g].column
           /\ Len(o.values) = g + m /\ DOMAIN o.values = 1..(g + m)
           /\ \A i \in 1..g : o.values[i] = <<Reference(groupKeys[i])>>
           /\ \A i \in 1..m :
                 /\ DOMAIN o.values[g + i] = DOMAIN aggregates[i].arguments
                 /\ \A k \in DOMAIN aggregates[i].arguments :
                       o.values[g + i][k] = Reference(aggregates[i].arguments[k])
<1> DEFINE Read(i) == [k \in DOMAIN aggregates[i].arguments |-> Reference(aggregates[i].arguments[k])]
           keyValues == References(groupKeys)
           results == [i \in DOMAIN aggregates |-> Read(i)]
           columns == [i \in DOMAIN aggregates |-> aggregates[i].column]
           Aggregations == [function : Functions, arguments : Seq(Created), column : Created]
           m == Len(aggregates)
           g == Len(groupKeys)
<1>1. aggregates \in Seq(Aggregations) /\ m \in Nat /\ DOMAIN aggregates = 1..m
  BY DEF TypeOK
<1>2. \A i \in DOMAIN aggregates : aggregates[i] \in Aggregations
  <2> HIDE DEF Aggregations
  <2> QED
    BY <1>1
<1>3. groupKeys \in Seq(Variables) /\ g \in Nat /\ DOMAIN groupKeys = 1..g
  BY DEF TypeOK, Variables
<1> HIDE DEF m, g, Aggregations
<1>4. \A v \in Variables : Reference(v) \in Leaf
  BY DEF Reference, Leaf
<1>5. ASSUME NEW i \in DOMAIN aggregates PROVE Read(i) \in Value
  <2>1. aggregates[i].arguments \in Seq(Variables)
    BY <1>2 DEF Aggregations, Variables
  <2> QED
    BY <2>1, <1>4 DEF Value
<1>6. results \in Seq(Value) /\ Len(results) = m
  <2>1. results \in [1..m -> Value]
    BY <1>1, <1>5, Zenon
  <2> HIDE DEF results
  <2> QED
    BY <2>1, <1>1
<1>7. columns \in Seq(Variables) /\ Len(columns) = m
  <2>1. \A i \in DOMAIN aggregates : aggregates[i].column \in Variables
    BY <1>2 DEF Aggregations, Variables
  <2>2. columns \in [1..m -> Variables]
    BY <2>1, <1>1, Zenon
  <2> HIDE DEF columns
  <2> QED
    BY <2>2, <1>1
<1>8. /\ keyValues \in Seq(Value) /\ Len(keyValues) = g
      /\ \A i \in 1..g : keyValues[i] = <<Reference(groupKeys[i])>>
  BY <1>3, Referenced DEF g
<1>9. \A i \in 1..m : results[i] = Read(i) /\ columns[i] = aggregates[i].column
  BY <1>1
<1>10. AggregateOperator = Make("aggregate", keyValues \o results, groupKeys \o columns)
  BY DEF AggregateOperator
<1> HIDE DEF keyValues, results, columns
<1>11. /\ keyValues \o results \in Seq(Value) /\ Len(keyValues \o results) = g + m
       /\ \A i \in 1..(g + m) :
             (keyValues \o results)[i] = IF i <= g THEN keyValues[i] ELSE results[i - g]
  BY <1>6, <1>8, Joined
<1>12. /\ groupKeys \o columns \in Seq(Variables) /\ Len(groupKeys \o columns) = g + m
       /\ \A i \in 1..(g + m) :
             (groupKeys \o columns)[i] = IF i <= g THEN groupKeys[i] ELSE columns[i - g]
  BY <1>3, <1>7, Joined DEF g
<1> DEFINE values == keyValues \o results
           defined == groupKeys \o columns
<1> HIDE DEF values, defined
<1>13. /\ AggregateOperator \in Operator /\ AggregateOperator.kind = "aggregate"
       /\ AggregateOperator.values = values /\ AggregateOperator.written = values
       /\ AggregateOperator.columns = defined
  <2>1. values \in Seq(Value) /\ defined \in Seq(Variables)
    BY <1>11, <1>12 DEF values, defined
  <2>2. AggregateOperator = Make("aggregate", values, defined)
    BY <1>10 DEF values, defined
  <2>3. AggregateOperator \in Operator
    BY <2>1, <2>2, Made DEF Kinds
  <2> QED
    BY <2>2, <2>3 DEF Make
<1>14. /\ Len(values) = g + m /\ DOMAIN values = 1..(g + m)
       /\ \A i \in 1..(g + m) : values[i] = IF i <= g THEN keyValues[i] ELSE results[i - g]
  BY <1>11 DEF values
<1>15. /\ Len(defined) = g + m /\ DOMAIN defined = 1..(g + m)
       /\ \A i \in 1..(g + m) : defined[i] = IF i <= g THEN groupKeys[i] ELSE columns[i - g]
  BY <1>12 DEF defined
<1>16. \A i \in 1..(g + m) :
           defined[i] = IF i <= g THEN groupKeys[i] ELSE aggregates[i - g].column
  <2> SUFFICES ASSUME NEW i \in 1..(g + m)
               PROVE  defined[i] = IF i <= g THEN groupKeys[i] ELSE aggregates[i - g].column
    OBVIOUS
  <2>1. CASE i <= g
    BY <2>1, <1>15
  <2>2. CASE ~(i <= g)
    <3>1. i - g \in 1..m
      BY <2>2, <1>1, <1>3
    <3> QED
      BY <2>2, <3>1, <1>9, <1>15
  <2> QED
    BY <2>1, <2>2
<1>17. \A i \in 1..g : values[i] = <<Reference(groupKeys[i])>>
  <2> SUFFICES ASSUME NEW i \in 1..g PROVE values[i] = keyValues[i]
    BY <1>8
  <2>1. i \in 1..(g + m) /\ i <= g
    BY <1>1, <1>3
  <2> QED
    BY <2>1, <1>14
<1>18. \A i \in 1..m : values[g + i] = Read(i)
  <2> SUFFICES ASSUME NEW i \in 1..m PROVE values[g + i] = results[i]
    BY <1>9
  <2>1. g + i \in 1..(g + m) /\ ~(g + i <= g) /\ (g + i) - g = i
    BY <1>1, <1>3
  <2> QED
    BY <2>1, <1>14
<1>19. \A i \in 1..m :
          /\ DOMAIN values[g + i] = DOMAIN aggregates[i].arguments
          /\ \A k \in DOMAIN aggregates[i].arguments :
                values[g + i][k] = Reference(aggregates[i].arguments[k])
  BY <1>18
<1> QED
  BY <1>1, <1>3, <1>13, <1>14, <1>15, <1>16, <1>17, <1>19 DEF m, g

LEMMA InsertedIs ==
    ASSUME TypeOK
    PROVE  LET n == Len(Inserted) IN
           /\ Inserted \in Seq(Operator) /\ n \in Nat /\ DOMAIN Inserted = 1..n
           /\ \A h \in 1..n : \/ h = 1 /\ Inserted[h] = ArgumentOperator
                              \/ h = n /\ Inserted[h] = AggregateOperator
           /\ arguments # <<>> => n >= 1 /\ Inserted[1] = ArgumentOperator
           /\ Len(groupKeys) > 0 \/ Len(aggregates) > 0 =>
                 n >= 1 /\ Inserted[n] = AggregateOperator
<1> DEFINE A == ArgumentOperator
           B == AggregateOperator
<1>1. A \in Operator /\ B \in Operator
  BY ArgumentOperatorIs, AggregateOperatorIs
<1>2. (Len(groupKeys) > 0 \/ Len(aggregates) > 0) => groupKeys \o aggregates # <<>>
  <2>1. groupKeys \in Seq(Columns) /\ DOMAIN aggregates = 1..Len(aggregates)
        /\ Len(groupKeys) \in Nat /\ Len(aggregates) \in Nat
    BY DEF TypeOK
  <2>2. Len(groupKeys \o aggregates) = Len(groupKeys) + Len(aggregates)
    BY DEF TypeOK
  <2> QED
    BY <2>1, <2>2
<1>3. \/ arguments = <<>> /\ groupKeys \o aggregates = <<>> /\ Inserted = <<>> \o <<>>
      \/ arguments # <<>> /\ groupKeys \o aggregates = <<>> /\ Inserted = <<A>> \o <<>>
      \/ arguments = <<>> /\ groupKeys \o aggregates # <<>> /\ Inserted = <<>> \o <<B>>
      \/ arguments # <<>> /\ groupKeys \o aggregates # <<>> /\ Inserted = <<A>> \o <<B>>
  BY DEF Inserted
<1> HIDE DEF A, B
<1>4. <<>> \in Seq(Operator) /\ <<A>> \in Seq(Operator) /\ <<B>> \in Seq(Operator)
  BY <1>1
<1>5. CASE Inserted = <<>> \o <<>> /\ arguments = <<>> /\ groupKeys \o aggregates = <<>>
  <2>1. Inserted \in Seq(Operator) /\ Len(Inserted) = 0
    BY <1>4, <1>5, Joined
  <2> QED
    BY <2>1, <1>2, <1>5
<1>6. CASE Inserted = <<A>> \o <<>> /\ arguments # <<>> /\ groupKeys \o aggregates = <<>>
  <2>1. Inserted \in Seq(Operator) /\ Len(Inserted) = 1 /\ Inserted[1] = A
    BY <1>4, <1>6, Joined
  <2> QED
    BY <2>1, <1>2, <1>6 DEF A
<1>7. CASE Inserted = <<>> \o <<B>> /\ arguments = <<>>
  <2>1. Inserted \in Seq(Operator) /\ Len(Inserted) = 1 /\ Inserted[1] = B
    BY <1>4, <1>7, Joined
  <2> QED
    BY <2>1, <1>7 DEF B
<1>8. CASE Inserted = <<A>> \o <<B>>
  <2>1. Inserted \in Seq(Operator) /\ Len(Inserted) = 2 /\ Inserted[1] = A /\ Inserted[2] = B
    BY <1>4, <1>8, Joined
  <2> QED
    BY <2>1 DEF A, B
<1> QED
  BY <1>3, <1>5, <1>6, <1>7, <1>8

LEMMA Installed ==
    ASSUME TypeOK, Working => Shape, Install
    PROVE  LET n == Len(Inserted)
               m == Len(plan)
           IN
           /\ plan' \in Seq(Operator) /\ Len(plan') = m + n /\ DOMAIN plan' = 1..(m + n)
           /\ m \in Nat /\ n \in Nat /\ entry \in 0..m /\ DOMAIN plan = 1..m
           /\ \A i \in 1..entry : plan'[i] = plan[i]
           /\ \A h \in 1..n : plan'[entry + h] = Inserted[h]
           /\ \A i \in (entry + 1)..m : plan'[i + n] = plan[i]
           /\ \A i \in 1..(m + n) : i \in 1..entry \/ i - entry \in 1..n \/ i - n \in (entry + 1)..m
           /\ pc = "install" /\ pc' = "done" /\ aggregated' = {} /\ active' = FALSE
           /\ UNCHANGED <<info, entry, groupKeys, arguments, aggregates, fresh, cursor>>
<1> DEFINE n == Len(Inserted)
           m == Len(plan)
<1>1. /\ pc = "install" /\ pc' = "done" /\ aggregated' = {} /\ active' = FALSE
      /\ plan' = SubSeq(plan, 1, entry) \o Inserted \o SubSeq(plan, entry + 1, Len(plan))
      /\ UNCHANGED <<info, entry, groupKeys, arguments, aggregates, fresh, cursor>>
  BY DEF Install, Goto
<1>2. entry \in 0..m
  BY <1>1 DEF Working, Shape
<1>3. m \in Nat /\ n \in Nat /\ DOMAIN plan = 1..m /\ plan \in Seq(Operator)
      /\ Inserted \in Seq(Operator)
  BY InsertedIs DEF TypeOK
<1>4. /\ plan' \in Seq(Operator) /\ Len(plan') = m + n /\ DOMAIN plan' = 1..(m + n)
      /\ \A i \in 1..(m + n) : plan'[i] = IF i <= entry THEN plan[i]
                                          ELSE IF i <= entry + n THEN Inserted[i - entry]
                                          ELSE plan[i - n]
  <2>1. plan' = Splice(plan, entry, Inserted)
    BY <1>1 DEF Splice
  <2>2. plan \in Seq(Operator) /\ Inserted \in Seq(Operator) /\ entry \in 0..Len(plan)
    BY <1>2, <1>3
  <2> HIDE DEF m, n
  <2>3. /\ Splice(plan, entry, Inserted) \in Seq(Operator)
        /\ Len(Splice(plan, entry, Inserted)) = Len(plan) + Len(Inserted)
        /\ DOMAIN Splice(plan, entry, Inserted) = 1..(Len(plan) + Len(Inserted))
    BY <2>2, Spliced
  <2>4. \A i \in 1..(Len(plan) + Len(Inserted)) :
            Splice(plan, entry, Inserted)[i] =
                IF i <= entry THEN plan[i]
                ELSE IF i <= entry + Len(Inserted) THEN Inserted[i - entry]
                ELSE plan[i - Len(Inserted)]
    BY <2>2, Spliced
  <2> QED
    BY <2>1, <2>3, <2>4 DEF m, n
<1> HIDE DEF m, n
<1>5. \A i \in 1..entry : plan'[i] = plan[i]
  BY <1>2, <1>3, <1>4
<1>6. ASSUME NEW h \in 1..n PROVE plan'[entry + h] = Inserted[h]
  <2>1. entry + h \in 1..(m + n) /\ ~(entry + h <= entry) /\ entry + h <= entry + n
        /\ (entry + h) - entry = h
    BY <1>2, <1>3
  <2> QED
    BY <2>1, <1>4
<1>7. ASSUME NEW i \in (entry + 1)..m PROVE plan'[i + n] = plan[i]
  <2>1. i + n \in 1..(m + n) /\ ~(i + n <= entry) /\ ~(i + n <= entry + n) /\ (i + n) - n = i
    BY <1>2, <1>3
  <2> QED
    BY <2>1, <1>4
<1>8. \A i \in 1..(m + n) : i \in 1..entry \/ i - entry \in 1..n \/ i - n \in (entry + 1)..m
  BY <1>2, <1>3
<1> QED
  BY <1>1, <1>2, <1>3, <1>4, <1>5, <1>6, <1>7, <1>8 DEF m, n

LEMMA TypesOfProcessing ==
    ASSUME TypeOK, Working => Shape /\ ColumnsFresh,
           Limit \/ NoLimit \/ Consume \/ Reuse \/ EndValue \/ EndOperator \/ Install
    PROVE  TypeOK'
<1>1. CASE Limit \/ NoLimit
  <2>1. pc' \in Stages
    BY <1>1, Limited DEF Stages, TypeOK
  <2> QED
    BY <1>1, <2>1, Limited DEF TypeOK, processor
<1>2. CASE Consume \/ Reuse
  <2>1. PICK v : Answer(ThisLeaf, v)
    BY <1>2, Answered
  <2>2. plan' \in Seq(Operator)
    <3>1. AtLeaf /\ cursor.operator \in DOMAIN plan /\ v \in Variables /\ ReplaceLeaf(v)
      BY <2>1 DEF Answer, AtCall, Variables
    <3> QED
      BY <3>1, Replaced
  <2>3. arguments' \in Seq([value : Argument, column : Created])
    BY <2>1, MoreArguments DEF Answer
  <2>4. cursor' \in [operator : Nat, value : Nat, leaf : Nat]
    <3>1. cursor' = [cursor EXCEPT !.leaf = cursor.leaf + 1]
      BY <2>1 DEF Answer, NextLeaf
    <3>2. cursor \in [operator : Nat, value : Nat, leaf : Nat]
      BY DEF TypeOK
    <3> QED
      BY <3>1, <3>2, CursorMoves
  <2>5. /\ aggregates' \in Seq([function : Functions, arguments : Seq(Created), column : Created])
        /\ aggregated' \in SUBSET Created /\ fresh' \in Nat
        /\ UNCHANGED <<info, entry, active, groupKeys, pc>>
    BY <2>1 DEF Answer
  <2> QED
    BY <2>2, <2>3, <2>4, <2>5 DEF TypeOK
<1>3. CASE EndValue
  <2>1. cursor' \in [operator : Nat, value : Nat, leaf : Nat]
    <3>1. cursor' = [cursor EXCEPT !.value = cursor.value + 1, !.leaf = 1]
      BY <1>3 DEF EndValue
    <3>2. cursor \in [operator : Nat, value : Nat, leaf : Nat]
      BY DEF TypeOK
    <3> QED
      BY <3>1, <3>2, CursorMoves
  <2>2. aggregated' \in SUBSET Created
    <3>1. cursor.operator \in DOMAIN plan
      BY <1>3 DEF EndValue, Working, Shape, CursorOK
    <3>2. \A i \in DOMAIN Current.columns : Current.columns[i] \in 1..fresh
      BY <1>3, <3>1 DEF EndValue, Working, ColumnsFresh, Current
    <3>3. \A i \in DOMAIN Current.columns : Current.columns[i] \in Created
      BY <3>2 DEF Created, TypeOK
    <3> QED
      BY <1>3, <3>3 DEF EndValue, TypeOK
  <2> QED
    BY <1>3, <2>1, <2>2 DEF TypeOK, EndValue, Built
<1>4. CASE EndOperator
  <2>1. pc' \in Stages /\ cursor' \in [operator : Nat, value : Nat, leaf : Nat]
        /\ UNCHANGED <<plan, info, fresh, entry, processor>>
    BY <1>4, Advanced DEF Stages
  <2> QED
    BY <2>1 DEF TypeOK, processor
<1>5. CASE Install
  <2>1. pc' \in Stages /\ active' \in BOOLEAN /\ aggregated' \in SUBSET Created
    BY <1>5, Installed DEF Stages
  <2> QED
    BY <1>5, <2>1, Installed DEF TypeOK
<1> QED
  BY <1>1, <1>2, <1>3, <1>4, <1>5

LEMMA Types ==
    ASSUME TypeOK, Working => Shape /\ ColumnsFresh, [Next]_vars
    PROVE  TypeOK'
  BY TypesOfRest, TypesOfClauses, TypesOfProcessing DEF Next, Clauses, Processing

-----------------------------------------------------------------------------
(* The order of the operators.                                             *)

LEMMA KindOf ==
    ASSUME TypeOK
    PROVE  /\ DOMAIN plan = 1..Len(plan) /\ Len(plan) \in Nat
           /\ \A i \in DOMAIN plan : plan[i] \in Operator /\ plan[i].kind \in Kinds
                                     /\ Rank(plan[i]) \in 1..8
<1>1. DOMAIN plan = 1..Len(plan) /\ Len(plan) \in Nat
      /\ \A i \in DOMAIN plan : plan[i] \in Operator
  BY DEF TypeOK
<1>2. \A i \in DOMAIN plan : plan[i].kind \in Kinds
  BY <1>1 DEF Operator
<1> QED
  BY <1>1, <1>2, RankOf

LEMMA PlacedMore ==
    ASSUME TypeOK, NEW r \in Nat, Placed(plan, r),
           NEW o \in Operator, Rank(o) > r, o.kind \notin {"arguments", "aggregate"},
           Len(o.values) = Len(o.written), plan' = Append(plan, o),
           NEW e \in 0..Len(plan)
    PROVE  /\ Placed(plan', Rank(o))
           /\ EntryOf(plan, e) /\ o.kind # "where" => EntryOf(plan', e)
           /\ plan' # <<>> /\ plan'[Len(plan')].kind = o.kind
           /\ \A kind \in Kinds : Positions(kind) # {} => Positions(kind)' # {}
<1>1. /\ Len(plan) \in Nat /\ DOMAIN plan = 1..Len(plan)
      /\ Len(plan') = Len(plan) + 1 /\ DOMAIN plan' = 1..(Len(plan) + 1)
      /\ \A i \in DOMAIN plan : plan'[i] = plan[i]
      /\ plan'[Len(plan) + 1] = o
  BY Appended
<1>2. Rank(o) \in 1..8
  BY RankOf DEF Operator
<1>3. \A i \in DOMAIN plan : Rank(plan[i]) \in 1..8 /\ Rank(plan[i]) <= r
  BY KindOf DEF Placed
<1>4. \A i \in DOMAIN plan' : i \in DOMAIN plan \/ i = Len(plan) + 1
  BY <1>1
<1>5. Ordered(plan')
  <2> SUFFICES ASSUME NEW i \in DOMAIN plan', NEW k \in DOMAIN plan', i < k
               PROVE  Rank(plan'[i]) < Rank(plan'[k])
    BY DEF Ordered
  <2>1. i \in DOMAIN plan
    BY <1>1
  <2>2. CASE k \in DOMAIN plan
    BY <2>1, <2>2, <1>1 DEF Placed, Ordered
  <2>3. CASE k = Len(plan) + 1
    BY <2>1, <2>3, <1>1, <1>2, <1>3
  <2> QED
    BY <1>4, <2>2, <2>3
<1>6. Placed(plan', Rank(o))
  BY <1>1, <1>2, <1>3, <1>4, <1>5 DEF Placed
<1>7. EntryOf(plan, e) /\ o.kind # "where" => EntryOf(plan', e)
  BY <1>1, <1>4 DEF EntryOf
<1>8. \A kind \in Kinds : Positions(kind) # {} => Positions(kind)' # {}
  BY <1>1 DEF Positions
<1> QED
  BY <1>1, <1>6, <1>7, <1>8

LEMMA PlacedSame ==
    ASSUME NEW r, Placed(plan, r), NEW e, EntryOf(plan, e),
           Len(plan') = Len(plan), DOMAIN plan' = DOMAIN plan,
           \A i \in DOMAIN plan : plan'[i].kind = plan[i].kind
                                  /\ Len(plan'[i].values) = Len(plan'[i].written)
    PROVE  /\ Placed(plan', r) /\ EntryOf(plan', e)
           /\ \A kind : Positions(kind) # {} => Positions(kind)' # {}
           /\ \A kind \in Kinds : (plan # <<>> /\ LastIs(kind)) => LastIs(kind)'
<1>1. \A i \in DOMAIN plan : Rank(plan'[i]) = Rank(plan[i])
  BY RankOfKind
<1>2. Placed(plan', r)
  BY <1>1 DEF Placed, Ordered
<1>3. EntryOf(plan', e)
  BY DEF EntryOf
<1> QED
  BY <1>2, <1>3 DEF Positions, LastIs

LEMMA PlacedUpTo ==
    ASSUME TypeOK, NEW r \in Nat, NEW q \in Nat, Placed(plan, r), r <= q
    PROVE  Placed(plan, q)
  BY KindOf DEF Placed

(* A step that leaves the chain.                                           *)
LEMMA ShapeOfRest ==
    ASSUME TypeOK, Shape, pc' # "where", plan' = plan, entry' = entry,
           Reached <= Reached', pc # "where",
           pc' = "elements" => pc = "elements", pc' = "sort" => pc = "sort",
           pc' \in {"distinct", "order", "sort", "limit"} =>
               pc \in {"elements", "distinct", "order", "sort", "limit"},
           pc' = "process" => CursorOK'
    PROVE  Shape'
<1>1. Reached \in Nat /\ Reached' \in Nat
  BY DEF Reached
<1>2. Placed(plan, Reached')
  BY <1>1, PlacedUpTo DEF Shape
<1>3. LastIs("select") => Positions("select") # {}
  BY KindOf DEF LastIs, Positions
<1>4. pc' \in {"distinct", "order", "sort", "limit"} => Positions("select") # {}
  BY <1>3 DEF Shape
<1>5. EntryOf(plan, entry) /\ entry \in 0..Len(plan)
  BY DEF Shape
<1>6. pc' = "elements" => LastIs("select")
  BY DEF Shape
<1>7. pc' = "sort" => LastIs("order")
  BY DEF Shape
<1> QED
  BY <1>2, <1>4, <1>5, <1>6, <1>7 DEF Shape, LastIs, Positions

LEMMA ShapeOfClauses ==
    ASSUME TypeOK, Shape,
           \/ NoWhere \/ BeginGroup \/ NoGroup \/ Group \/ EndGroup \/ NoHaving
           \/ SelectAsterisk \/ EndSelect \/ NotDistinct \/ NoOrder
    PROVE  Shape'
<1> USE DEF Goto
<1>1. CASE NoWhere
  <2>1. pc = "where" /\ pc' = "group" /\ plan' = plan /\ entry' = Len(plan)
    BY <1>1 DEF NoWhere, Built
  <2>2. \A i \in DOMAIN plan : FALSE
    BY <2>1, KindOf DEF Shape, Placed, Reached
  <2>3. Placed(plan', Reached') /\ EntryOf(plan', entry') /\ entry' \in 0..Len(plan')
    BY <2>1, <2>2, KindOf DEF Placed, Ordered, EntryOf
  <2> QED
    BY <2>1, <2>3 DEF Shape
<1>2. CASE \/ BeginGroup \/ NoGroup \/ Group \/ EndGroup
  <2>1. plan' = plan /\ entry' = entry /\ pc \in {"group", "keys"} /\ pc' \in {"keys", "having"}
    BY <1>2 DEF BeginGroup, NoGroup, Group, EndGroup, Built
  <2> QED
    BY <2>1, ShapeOfRest DEF Reached
<1>3. CASE NoHaving
  <2>1. plan' = plan /\ entry' = entry /\ pc = "having" /\ pc' = "select"
    BY <1>3 DEF NoHaving, Built
  <2> QED
    BY <2>1, ShapeOfRest DEF Reached
<1>4. CASE SelectAsterisk \/ EndSelect \/ NotDistinct \/ NoOrder
  <2>1. /\ plan' = plan /\ entry' = entry
        /\ \/ pc = "elements" /\ pc' = "elements"
           \/ pc = "elements" /\ pc' = "distinct"
           \/ pc = "distinct" /\ pc' = "order"
           \/ pc = "order" /\ pc' = "limit"
    BY <1>4 DEF SelectAsterisk, EndSelect, NotDistinct, NoOrder, Built
  <2> QED
    BY <2>1, ShapeOfRest DEF Reached
<1> QED
  BY <1>1, <1>2, <1>3, <1>4

LEMMA PlacedWithin ==
    ASSUME NEW p, NEW r \in Nat, NEW q \in Nat, Placed(p, r), r <= q,
           \A i \in DOMAIN p : Rank(p[i]) \in Nat
    PROVE  Placed(p, q)
  BY DEF Placed

(* A step that appends an operator.                                        *)
LEMMA ShapeOfOperators ==
    ASSUME TypeOK, Shape,
           Where \/ Having \/ BeginSelect \/ Distinct \/ BeginOrder \/ EndOrder
    PROVE  Shape'
<1> USE DEF Goto
<1>0. /\ Reached \in Nat /\ Placed(plan, Reached) /\ entry \in 0..Len(plan)
      /\ <<>> \in Seq(Value) /\ Len(plan) \in Nat
      /\ pc # "where" => EntryOf(plan, entry)
  BY KindOf DEF Shape, Reached
<1>1. ASSUME NEW kind \in Kinds, NEW values \in Seq(Value)
      PROVE  /\ Make(kind, values, <<>>) \in Operator
             /\ Make(kind, values, <<>>).kind = kind
             /\ Len(Make(kind, values, <<>>).values) = Len(Make(kind, values, <<>>).written)
  BY Added DEF Make
<1>2. ASSUME NEW o \in Operator, plan' = Append(plan, o), Rank(o) > Reached,
             o.kind \notin {"where", "arguments", "aggregate"},
             Len(o.values) = Len(o.written), pc # "where"
      PROVE  /\ Placed(plan', Rank(o)) /\ EntryOf(plan', entry) /\ entry \in 0..Len(plan')
             /\ plan' # <<>> /\ plan'[Len(plan')].kind = o.kind /\ Len(plan') \in DOMAIN plan'
             /\ \A k \in Kinds : Positions(k) # {} => Positions(k)' # {}
  <2>1. /\ Placed(plan', Rank(o)) /\ EntryOf(plan', entry)
        /\ plan' # <<>> /\ plan'[Len(plan')].kind = o.kind
        /\ \A k \in Kinds : Positions(k) # {} => Positions(k)' # {}
    BY <1>0, <1>2, PlacedMore
  <2>2. Len(plan') = Len(plan) + 1 /\ DOMAIN plan' = 1..(Len(plan) + 1)
    BY <1>2, Appended
  <2> QED
    BY <1>0, <2>1, <2>2
<1>3. \A o \in Operator : o.kind \in Kinds
  BY DEF Operator
<1>4. CASE Where
  <2>1. PICK e \in Expressions : plan' = Append(plan, Make("where", <<e>>, <<>>))
    BY <1>4 DEF Where
  <2> DEFINE o == Make("where", <<e>>, <<>>)
  <2>2. o \in Operator /\ o.kind = "where" /\ Len(o.values) = Len(o.written)
    BY <1>1, Analysed DEF Kinds
  <2>3. pc = "where" /\ pc' = "group" /\ entry' = Len(plan') /\ plan' = Append(plan, o)
    BY <1>4, <2>1 DEF Where
  <2> HIDE DEF o
  <2>4. \A i \in DOMAIN plan : FALSE
    BY <2>3, KindOf DEF Shape, Placed, Reached
  <2>5. /\ Len(plan') = Len(plan) + 1 /\ DOMAIN plan' = 1..(Len(plan) + 1)
        /\ plan'[Len(plan) + 1] = o
    BY <2>2, <2>3, Appended
  <2>6. Len(plan) = 0
    <3>1. Len(plan) # 0 => 1 \in DOMAIN plan
      BY KindOf
    <3> QED
      BY <2>4, <3>1
  <2>7. Rank(o) = 1
    BY <2>2, <1>3, RankOf
  <2>8. Placed(plan', Reached') /\ EntryOf(plan', entry') /\ entry' \in 0..Len(plan')
    BY <2>2, <2>3, <2>5, <2>6, <2>7 DEF Placed, Ordered, EntryOf, Reached
  <2> QED
    BY <2>3, <2>8 DEF Shape
<1>5. CASE Having
  <2>1. PICK e \in Expressions : plan' = Append(plan, Make("having", <<e>>, <<>>))
    BY <1>5 DEF Having
  <2>2. <<e>> \in Seq(Value)
    BY Analysed
  <2>3. /\ pc = "having" /\ pc' = "process" /\ entry' = entry
        /\ cursor' = [operator |-> Len(plan'), value |-> 1, leaf |-> 1]
    BY <1>5 DEF Having
  <2> DEFINE o == Make("having", <<e>>, <<>>)
  <2>4. /\ o \in Operator /\ o.kind = "having" /\ Len(o.values) = Len(o.written)
        /\ plan' = Append(plan, o)
    BY <2>2, <1>1, <2>1 DEF Kinds
  <2>5. /\ Placed(plan', 4) /\ EntryOf(plan', entry) /\ entry \in 0..Len(plan')
        /\ plan' # <<>> /\ plan'[Len(plan')].kind = "having" /\ Len(plan') \in DOMAIN plan'
    <3> HIDE DEF o
    <3>1. Rank(o) = 4
      BY <2>4, <1>3, RankOf
    <3>2. Rank(o) > Reached /\ pc # "where"
      BY <2>1, <3>1, <2>3 DEF Reached
    <3> QED
      BY <1>2, <2>4, <3>1, <3>2 DEF Kinds
  <2>6. Placed(plan', Reached')
    <3>1. plan' \in Seq(Operator)
      <4>1. Make("having", <<e>>, <<>>) \in Operator
        BY <1>1, <2>2 DEF Kinds
      <4> QED
        BY <2>1, <4>1, Appended
    <3>2. \A i \in DOMAIN plan' : Rank(plan'[i]) \in Nat
      BY <3>1, <1>3, RankOf
    <3>3. Reached' = 8
      BY <2>3 DEF Reached
    <3> QED
      BY <2>5, <3>2, <3>3, PlacedWithin
  <2>7. CursorOK'
    BY <2>3, <2>5 DEF CursorOK, Current, LastIs
  <2> QED
    BY <2>3, <2>5, <2>6, <2>7 DEF Shape
<1>6. CASE BeginSelect
  <2>1. /\ plan' = Append(plan, Make("select", <<>>, <<>>))
        /\ pc = "select" /\ pc' = "elements" /\ entry' = entry
    BY <1>6 DEF BeginSelect
  <2> DEFINE o == Make("select", <<>>, <<>>)
  <2>2. /\ o \in Operator /\ o.kind = "select" /\ Len(o.values) = Len(o.written)
        /\ plan' = Append(plan, o)
    BY <1>0, <1>1, <2>1 DEF Kinds
  <2>3. /\ Placed(plan', 5) /\ EntryOf(plan', entry) /\ entry \in 0..Len(plan')
        /\ plan' # <<>> /\ plan'[Len(plan')].kind = "select"
    <3> HIDE DEF o
    <3>1. Rank(o) = 5
      BY <2>2, <1>3, RankOf
    <3>2. Rank(o) > Reached /\ pc # "where"
      BY <2>1, <3>1 DEF Reached
    <3> QED
      BY <1>2, <2>2, <3>1, <3>2 DEF Kinds
  <2> QED
    BY <2>1, <2>3 DEF Shape, Reached, LastIs
<1>7. CASE Distinct
  <2>1. /\ plan' = Append(plan, Make("distinct", References(info), <<>>))
        /\ pc = "distinct" /\ pc' = "order" /\ entry' = entry
    BY <1>7 DEF Distinct
  <2>2. References(info) \in Seq(Value)
    BY Referenced DEF TypeOK
  <2> DEFINE o == Make("distinct", References(info), <<>>)
  <2>3. /\ o \in Operator /\ o.kind = "distinct" /\ Len(o.values) = Len(o.written)
        /\ plan' = Append(plan, o)
    BY <2>2, <1>1, <2>1 DEF Kinds
  <2>4. /\ Placed(plan', 6) /\ EntryOf(plan', entry) /\ entry \in 0..Len(plan')
        /\ Positions("select") # {} => Positions("select")' # {}
    <3> HIDE DEF o
    <3>1. Rank(o) = 6
      BY <2>3, <1>3, RankOf
    <3>2. Rank(o) > Reached /\ pc # "where"
      BY <2>1, <3>1 DEF Reached
    <3> QED
      BY <1>2, <2>3, <3>1, <3>2 DEF Kinds
  <2> QED
    BY <2>1, <2>4 DEF Shape, Reached
<1>8. CASE BeginOrder
  <2>1. /\ plan' = Append(plan, Make("order", <<>>, <<>>))
        /\ pc = "order" /\ pc' = "sort" /\ entry' = entry
    BY <1>8 DEF BeginOrder
  <2> DEFINE o == Make("order", <<>>, <<>>)
  <2>2. /\ o \in Operator /\ o.kind = "order" /\ Len(o.values) = Len(o.written)
        /\ plan' = Append(plan, o)
    BY <1>0, <1>1, <2>1 DEF Kinds
  <2>3. /\ Placed(plan', 7) /\ EntryOf(plan', entry) /\ entry \in 0..Len(plan')
        /\ plan' # <<>> /\ plan'[Len(plan')].kind = "order"
        /\ Positions("select") # {} => Positions("select")' # {}
    <3> HIDE DEF o
    <3>1. Rank(o) = 7
      BY <2>2, <1>3, RankOf
    <3>2. Rank(o) > Reached /\ pc # "where"
      BY <2>1, <3>1 DEF Reached
    <3> QED
      BY <1>2, <2>2, <3>1, <3>2 DEF Kinds
  <2> QED
    BY <2>1, <2>3 DEF Shape, Reached, LastIs
<1>9. CASE EndOrder
  <2>1. /\ plan' = Append(plan, Make("limit", References(plan[Len(plan)].columns), <<>>))
        /\ pc = "sort" /\ pc' = "limit" /\ entry' = entry
    BY <1>9 DEF EndOrder
  <2>2. References(plan[Len(plan)].columns) \in Seq(Value)
    <3>1. plan[Len(plan)] \in Operator
      BY <2>1 DEF Shape, LastIs, TypeOK
    <3> QED
      BY <3>1, Referenced DEF Operator
  <2> DEFINE o == Make("limit", References(plan[Len(plan)].columns), <<>>)
  <2>3. /\ o \in Operator /\ o.kind = "limit" /\ Len(o.values) = Len(o.written)
        /\ plan' = Append(plan, o)
    BY <2>2, <1>1, <2>1 DEF Kinds
  <2>4. /\ Placed(plan', 8) /\ EntryOf(plan', entry) /\ entry \in 0..Len(plan')
        /\ Positions("select") # {} => Positions("select")' # {}
    <3> HIDE DEF o
    <3>1. Rank(o) = 8
      BY <2>3, <1>3, RankOf
    <3>2. Rank(o) > Reached /\ pc # "where"
      BY <2>1, <3>1 DEF Reached
    <3> QED
      BY <1>2, <2>3, <3>1, <3>2 DEF Kinds
  <2> QED
    BY <2>1, <2>4 DEF Shape, Reached
<1> QED
  BY <1>4, <1>5, <1>6, <1>7, <1>8, <1>9

LEMMA ShapeOfColumns ==
    ASSUME TypeOK, Shape, Select \/ SortKey
    PROVE  Shape'
<1>1. PICK e \in Expressions : AddColumn(e)
  BY DEF Select, SortKey
<1>2. plan # <<>> /\ pc \in {"elements", "sort"} /\ pc' = pc /\ entry' = entry
  BY DEF Select, SortKey, Shape, LastIs
<1> DEFINE n == Len(plan)
<1>3. /\ n \in Nat \ {0} /\ DOMAIN plan = 1..n /\ Len(plan') = n /\ DOMAIN plan' = 1..n
      /\ \A i \in DOMAIN plan : i # n => plan'[i] = plan[i]
      /\ plan[n] \in Operator /\ plan'[n].kind = plan[n].kind
      /\ plan'[n].values = Append(plan[n].values, e)
      /\ plan'[n].written = Append(plan[n].written, e)
  BY <1>1, <1>2, Analysed, Widened
<1> HIDE DEF n
<1>4. Len(plan'[n].values) = Len(plan'[n].written)
  <2>1. Len(plan[n].values) = Len(plan[n].written)
    BY <1>3 DEF Shape, Placed
  <2> QED
    BY <1>3, <2>1 DEF Operator
<1>5. \A i \in DOMAIN plan : /\ plan'[i].kind = plan[i].kind
                             /\ Len(plan'[i].values) = Len(plan'[i].written)
  BY <1>3, <1>4 DEF Shape, Placed
<1>6. Placed(plan, Reached) /\ EntryOf(plan, entry)
  BY <1>2 DEF Shape
<1>7. /\ Placed(plan', Reached) /\ EntryOf(plan', entry)
      /\ \A kind : Positions(kind) # {} => Positions(kind)' # {}
      /\ \A kind \in Kinds : (plan # <<>> /\ LastIs(kind)) => LastIs(kind)'
  BY <1>3, <1>5, <1>6, PlacedSame DEF n
<1>8. Reached' = Reached
  BY <1>2 DEF Reached
<1> QED
  BY <1>2, <1>3, <1>7, <1>8 DEF Shape, Kinds, n

LEMMA PlacedOfLimit ==
    ASSUME TypeOK, Shape, Limit \/ NoLimit
    PROVE  Placed(plan', 8) /\ EntryOf(plan', entry) /\ entry \in 0..Len(plan')
<1>1. /\ pc = "limit"
      /\ \/ plan' = plan
         \/ Positions("limit") = {} /\ plan' = Append(plan, Make("limit", <<>>, <<>>))
  BY Limited
<1>2. Placed(plan, 8) /\ EntryOf(plan, entry) /\ entry \in 0..Len(plan)
  BY <1>1 DEF Shape, Reached
<1>3. CASE plan' = plan
  BY <1>2, <1>3
<1>4. CASE Positions("limit") = {} /\ plan' = Append(plan, Make("limit", <<>>, <<>>))
  <2> DEFINE o == Make("limit", <<>>, <<>>)
  <2>1. o \in Operator /\ o.kind = "limit" /\ Len(o.values) = Len(o.written)
    <3>1. <<>> \in Seq(Value)
      OBVIOUS
    <3> QED
      BY <3>1, Added DEF Kinds, Make
  <2>2. plan' = Append(plan, o)
    BY <1>4
  <2> HIDE DEF o
  <2>3. Rank(o) = 8
    BY <2>1, RankOf DEF Kinds
  <2>4. \A i \in DOMAIN plan : Rank(plan[i]) <= 7
    <3>1. \A i \in DOMAIN plan : plan[i].kind # "limit"
      BY <1>4 DEF Positions
    <3>2. \A i \in DOMAIN plan : Rank(plan[i]) \in 1..8 /\ Rank(plan[i]) # 8
      BY <3>1, KindOf, RankOf
    <3> QED
      BY <3>2
  <2>5. Placed(plan, 7)
    BY <1>2, <2>4 DEF Placed
  <2>6. Placed(plan', 8) /\ EntryOf(plan', entry)
    BY <1>2, <2>1, <2>2, <2>3, <2>5, PlacedMore
  <2>7. entry \in 0..Len(plan')
    BY <1>2, <2>1, <2>2, Appended
  <2> QED
    BY <2>6, <2>7
<1> QED
  BY <1>1, <1>3, <1>4

LEMMA ShapeOfLimit ==
    ASSUME TypeOK, Shape, Limit \/ NoLimit, Working'
    PROVE  Shape'
<1>1. /\ pc' = "process" /\ entry' = entry
      /\ cursor'.operator \in DOMAIN plan'
      /\ plan'[cursor'.operator].kind = "select"
      /\ cursor'.value = 1 /\ cursor'.leaf = 1
  BY Limited DEF Working
<1>2. CursorOK'
  BY <1>1 DEF CursorOK, Current
<1>3. Reached' = 8
  BY <1>1 DEF Reached
<1> QED
  BY <1>1, <1>2, <1>3, PlacedOfLimit DEF Shape

LEMMA ShapeOfProcessing ==
    ASSUME TypeOK, Shape, KeepColumn \/ Consume \/ Reuse \/ EndValue \/ EndOperator
    PROVE  Shape'
<1>0. Working => Shape
  OBVIOUS
<1>1. CASE KeepColumn
  <2>1. /\ pc = "process" /\ pc' = pc /\ plan' = plan /\ entry' = entry
        /\ cursor' = [cursor EXCEPT !.leaf = cursor.leaf + 1]
    BY <1>1 DEF KeepColumn, AtColumn, AtLeaf, Built, NextLeaf
  <2>2. cursor \in [operator : Nat, value : Nat, leaf : Nat] /\ CursorOK
    BY <2>1 DEF TypeOK, Shape
  <2>3. /\ cursor'.operator = cursor.operator /\ cursor'.value = cursor.value
        /\ cursor'.leaf = cursor.leaf + 1
    BY <2>1, <2>2
  <2>4. CursorOK'
    BY <2>1, <2>2, <2>3 DEF CursorOK, Current, LastIs
  <2> QED
    BY <2>1, <2>4, ShapeOfRest DEF Reached
<1>2. CASE EndValue
  <2>1. /\ pc = "process" /\ pc' = pc /\ plan' = plan /\ entry' = entry
        /\ cursor' = [cursor EXCEPT !.value = cursor.value + 1, !.leaf = 1]
    BY <1>2 DEF EndValue, Built
  <2>2. cursor \in [operator : Nat, value : Nat, leaf : Nat] /\ CursorOK
    BY <2>1 DEF TypeOK, Shape
  <2>3. /\ cursor'.operator = cursor.operator /\ cursor'.value = cursor.value + 1
        /\ cursor'.leaf = 1
    BY <2>1, <2>2
  <2>4. CursorOK'
    BY <2>1, <2>2, <2>3 DEF CursorOK, Current, LastIs
  <2> QED
    BY <2>1, <2>4, ShapeOfRest DEF Reached
<1>3. CASE EndOperator
  <2>1. /\ pc = "process" /\ plan' = plan /\ entry' = entry
        /\ cursor.operator \in DOMAIN plan
        /\ Current.kind \in {"having", "select", "order"}
        /\ Current.kind = "having" => pc' = "select"
        /\ (Current.kind = "select" /\ Positions("order") # {}) =>
              /\ pc' = "process" /\ cursor'.operator \in Positions("order")
              /\ cursor'.value = 1 /\ cursor'.leaf = 1
        /\ (Current.kind = "order" \/ (Current.kind = "select" /\ Positions("order") = {})) =>
              pc' = "install"
    BY <1>0, <1>3, Advanced
  <2>2. CASE Current.kind = "having"
    <3>1. LastIs("having") /\ Placed(plan, 8) /\ EntryOf(plan, entry) /\ entry \in 0..Len(plan)
      BY <2>1, <2>2 DEF Shape, CursorOK, Reached
    <3>2. Len(plan) \in DOMAIN plan /\ plan[Len(plan)].kind = "having"
      BY <3>1, KindOf DEF LastIs
    <3>3. Rank(plan[Len(plan)]) = 4
      BY <3>2, KindOf, RankOf
    <3>4. ASSUME NEW i \in DOMAIN plan PROVE Rank(plan[i]) <= 4
      <4>1. i = Len(plan) \/ i < Len(plan)
        BY KindOf
      <4> QED
        BY <3>1, <3>2, <3>3, <4>1, KindOf DEF Placed, Ordered
    <3>5. Placed(plan, 4)
      BY <3>1, <3>4 DEF Placed
    <3>6. pc' = "select" /\ Reached' = 4
      BY <2>1, <2>2 DEF Reached
    <3> QED
      BY <2>1, <3>1, <3>5, <3>6 DEF Shape
  <2>3. CASE Current.kind = "select" /\ Positions("order") # {}
    <3>1. pc' = "process" /\ CursorOK'
      BY <2>1, <2>3 DEF CursorOK, Current, Positions
    <3> QED
      BY <2>1, <3>1, ShapeOfRest DEF Reached
  <2>4. CASE Current.kind = "order" \/ (Current.kind = "select" /\ Positions("order") = {})
    <3>1. pc' = "install"
      BY <2>1, <2>4
    <3> QED
      BY <2>1, <3>1, ShapeOfRest DEF Reached
  <2> QED
    BY <2>1, <2>2, <2>3, <2>4
<1>4. CASE Consume \/ Reuse
  <2>1. PICK v : Answer(ThisLeaf, v)
    BY <1>0, <1>4, Answered
  <2>2. /\ AtLeaf /\ cursor.operator \in DOMAIN plan /\ v \in Variables /\ ReplaceLeaf(v)
        /\ pc = "process" /\ pc' = pc /\ entry' = entry
        /\ cursor' = [cursor EXCEPT !.leaf = cursor.leaf + 1]
    BY <2>1 DEF Answer, AtCall, Variables, NextLeaf
  <2>3. /\ Len(plan') = Len(plan) /\ DOMAIN plan' = DOMAIN plan
        /\ \A i \in DOMAIN plan : /\ plan'[i].kind = plan[i].kind
                                  /\ plan'[i].written = plan[i].written
                                  /\ Len(plan'[i].values) = Len(plan[i].values)
    BY <2>2, Replaced
  <2>4. Placed(plan, 8) /\ EntryOf(plan, entry) /\ CursorOK /\ entry \in 0..Len(plan)
    BY <2>2 DEF Shape, Reached
  <2>5. /\ Placed(plan', 8) /\ EntryOf(plan', entry)
        /\ \A kind \in Kinds : (plan # <<>> /\ LastIs(kind)) => LastIs(kind)'
    <3>1. \A i \in DOMAIN plan : /\ plan'[i].kind = plan[i].kind
                                 /\ Len(plan'[i].values) = Len(plan'[i].written)
      BY <2>3, <2>4 DEF Placed
    <3> QED
      BY <2>3, <2>4, <3>1, PlacedSame
  <2>6. /\ cursor'.operator = cursor.operator /\ cursor'.value = cursor.value
        /\ cursor'.leaf = cursor.leaf + 1 /\ cursor.leaf \in Nat
    <3>1. cursor \in [operator : Nat, value : Nat, leaf : Nat]
      BY DEF TypeOK
    <3> QED
      BY <2>2, <3>1
  <2>7. CursorOK'
    <3>1. /\ cursor'.operator \in DOMAIN plan' /\ cursor'.value >= 1 /\ cursor'.leaf >= 1
          /\ plan'[cursor'.operator].kind = Current.kind
      BY <2>3, <2>4, <2>6 DEF CursorOK, Current
    <3>2. Current.kind = "having" => LastIs("having")'
      BY <2>4, <2>5 DEF CursorOK, Kinds, LastIs
    <3> QED
      BY <2>4, <3>1, <3>2 DEF CursorOK, Current
  <2>8. Reached' = 8
    BY <2>2 DEF Reached
  <2> QED
    BY <2>2, <2>3, <2>4, <2>5, <2>7, <2>8 DEF Shape
<1> QED
  BY <1>1, <1>2, <1>3, <1>4

-----------------------------------------------------------------------------
(* The variables that are created.                                         *)

LEMMA FreshStays ==
    ASSUME Fresh, UNCHANGED <<arguments, aggregates, fresh>>,
           \A i \in DOMAIN plan' : \/ i \in DOMAIN plan /\ plan'[i].columns = plan[i].columns
                                   \/ plan'[i].columns = <<>>
    PROVE  Fresh'
<1>1. \A i \in DOMAIN plan' : \A j \in DOMAIN plan'[i].columns :
          /\ i \in DOMAIN plan /\ j \in DOMAIN plan[i].columns
          /\ plan'[i].columns[j] = plan[i].columns[j]
  OBVIOUS
<1>2. ColumnsFresh'
  BY <1>1 DEF Fresh, ColumnsFresh
<1>3. ColumnsApart'
  BY <1>1 DEF Fresh, ColumnsApart
<1>4. DefinedOnce'
  BY <1>1 DEF Fresh, DefinedOnce
<1> QED
  BY <1>2, <1>3, <1>4 DEF Fresh

LEMMA FreshOfColumn ==
    ASSUME TypeOK, Fresh, NEW e \in Value, AddColumn(e), plan # <<>>,
           UNCHANGED <<arguments, aggregates>>
    PROVE  Fresh'
<1> DEFINE n == Len(plan)
           l == Len(plan[n].columns)
<1>1. /\ n \in Nat \ {0} /\ DOMAIN plan = 1..n /\ DOMAIN plan' = 1..n
      /\ \A i \in DOMAIN plan : i # n => plan'[i] = plan[i]
      /\ plan[n] \in Operator
      /\ plan'[n].columns = Append(plan[n].columns, fresh + 1)
      /\ fresh' = fresh + 1 /\ fresh \in Nat
  BY Widened DEF TypeOK
<1>2. /\ l \in Nat /\ DOMAIN plan[n].columns = 1..l
      /\ DOMAIN plan'[n].columns = 1..(l + 1)
      /\ \A j \in 1..l : plan'[n].columns[j] = plan[n].columns[j]
      /\ plan'[n].columns[l + 1] = fresh + 1
  BY <1>1 DEF Operator
<1> HIDE DEF n, l
<1>3. \A i \in DOMAIN plan' : \A j \in DOMAIN plan'[i].columns :
          \/ /\ i \in DOMAIN plan /\ j \in DOMAIN plan[i].columns
             /\ plan'[i].columns[j] = plan[i].columns[j]
          \/ i = n /\ j = l + 1 /\ plan'[i].columns[j] = fresh + 1
  <2> SUFFICES ASSUME NEW i \in DOMAIN plan', NEW j \in DOMAIN plan'[i].columns
               PROVE  \/ /\ i \in DOMAIN plan /\ j \in DOMAIN plan[i].columns
                         /\ plan'[i].columns[j] = plan[i].columns[j]
                      \/ i = n /\ j = l + 1 /\ plan'[i].columns[j] = fresh + 1
    OBVIOUS
  <2>1. CASE i # n
    BY <2>1, <1>1
  <2>2. CASE i = n /\ j \in 1..l
    BY <2>2, <1>1, <1>2
  <2>3. CASE i = n /\ j = l + 1
    BY <2>3, <1>2
  <2> QED
    BY <2>1, <2>2, <2>3, <1>2
<1>4. /\ \A i \in DOMAIN plan : \A j \in DOMAIN plan[i].columns : plan[i].columns[j] \in 1..fresh
      /\ \A m \in DOMAIN arguments : arguments[m].column \in 1..fresh
      /\ \A m \in DOMAIN aggregates : aggregates[m].column \in 1..fresh
  BY DEF Fresh, ColumnsFresh
<1>5. 1..fresh \subseteq 1..fresh' /\ fresh + 1 \in 1..fresh' /\ fresh + 1 \notin 1..fresh
  BY <1>1
<1>6. ColumnsFresh'
  BY <1>3, <1>4, <1>5 DEF ColumnsFresh
<1>7. ColumnsApart'
  BY <1>3, <1>4, <1>5 DEF Fresh, ColumnsApart
<1>8. DefinedOnce'
  <2> SUFFICES ASSUME NEW i \in DOMAIN plan', NEW k \in DOMAIN plan',
                      NEW j \in DOMAIN plan'[i].columns, NEW q \in DOMAIN plan'[k].columns,
                      plan'[i].columns[j] = plan'[k].columns[q]
               PROVE  i = k /\ j = q
    BY DEF DefinedOnce
  <2>1. CASE /\ i \in DOMAIN plan /\ j \in DOMAIN plan[i].columns
             /\ plan'[i].columns[j] = plan[i].columns[j]
    <3>1. plan'[i].columns[j] # fresh + 1
      BY <2>1, <1>4, <1>5
    <3>2. /\ k \in DOMAIN plan /\ q \in DOMAIN plan[k].columns
          /\ plan'[k].columns[q] = plan[k].columns[q]
      BY <3>1, <1>3
    <3>3. plan[i].columns[j] = plan[k].columns[q]
      BY <2>1, <3>2
    <3> QED
      BY <2>1, <3>2, <3>3 DEF Fresh, DefinedOnce
  <2>2. CASE i = n /\ j = l + 1 /\ plan'[i].columns[j] = fresh + 1
    <3>1. k = n /\ q = l + 1
      BY <2>2, <1>3, <1>4, <1>5
    <3> QED
      BY <2>2, <3>1
  <2> QED
    BY <2>1, <2>2, <1>3
<1> QED
  BY <1>6, <1>7, <1>8 DEF Fresh

LEMMA FreshOfAnswer ==
    ASSUME TypeOK, Fresh, ArgumentsOK, NEW c, NEW v, Answer(c, v)
    PROVE  Fresh' /\ ArgumentsOK'
<1> DEFINE m == Len(arguments)
           n == Len(c.arguments)
<1>1. /\ c \in Leaf /\ c.kind = "call" /\ arguments' = WithArguments(c)
      /\ fresh' \in Nat /\ fresh' >= fresh + n /\ fresh \in Nat
      /\ \A k \in DOMAIN aggregates : k \in DOMAIN aggregates' /\ aggregates'[k] = aggregates[k]
      /\ \A k \in DOMAIN aggregates' :
            k \in DOMAIN aggregates
            \/ /\ k = Len(aggregates) + 1
               /\ aggregates'[k].arguments = Replacements(c)
               /\ aggregates'[k].column = fresh + n + 1
               /\ fresh' = fresh + n + 1
  BY DEF Answer, TypeOK
<1>2. /\ m \in Nat /\ n \in Nat /\ DOMAIN arguments = 1..m
      /\ DOMAIN Replacements(c) = 1..n
      /\ \A i \in 1..n : Replacements(c)[i] = fresh + i
      /\ DOMAIN arguments' = 1..(m + n)
      /\ \A i \in 1..m : arguments'[i] = arguments[i]
      /\ \A i \in 1..n : arguments'[m + i].column = fresh + i
  <2>1. /\ m \in Nat /\ n \in Nat /\ DOMAIN arguments = 1..m
        /\ DOMAIN Replacements(c) = 1..n
        /\ \A i \in 1..n : Replacements(c)[i] = fresh + i
        /\ DOMAIN WithArguments(c) = 1..(m + n)
        /\ \A i \in 1..m : WithArguments(c)[i] = arguments[i]
        /\ \A i \in 1..n : WithArguments(c)[m + i] = [value |-> c.arguments[i], column |-> fresh + i]
    BY <1>1, MoreArguments
  <2>2. arguments' = WithArguments(c)
    BY <1>1
  <2> HIDE DEF m, n
  <2>3. ASSUME NEW i \in 1..n PROVE WithArguments(c)[m + i].column = fresh + i
    <3>1. WithArguments(c)[m + i] = [value |-> c.arguments[i], column |-> fresh + i]
      BY <2>1
    <3> QED
      BY <3>1
  <2> QED
    BY <2>1, <2>2, <2>3
<1>3. /\ DOMAIN plan' = DOMAIN plan
      /\ \A i \in DOMAIN plan : plan'[i].columns = plan[i].columns
  <2>1. AtLeaf /\ cursor.operator \in DOMAIN plan /\ v \in Variables /\ ReplaceLeaf(v)
    BY DEF Answer, AtCall, Variables
  <2> QED
    BY <2>1, Replaced
<1> HIDE DEF m, n
<1>4. \A i \in DOMAIN arguments' :
          \/ i \in DOMAIN arguments /\ arguments'[i] = arguments[i]
          \/ i - m \in 1..n /\ arguments'[i].column = fresh + (i - m)
  <2> SUFFICES ASSUME NEW i \in 1..(m + n)
               PROVE  \/ i \in DOMAIN arguments /\ arguments'[i] = arguments[i]
                      \/ i - m \in 1..n /\ arguments'[i].column = fresh + (i - m)
    BY <1>2
  <2>1. CASE i \in 1..m
    BY <2>1, <1>2
  <2>2. CASE i \notin 1..m
    <3>1. i - m \in 1..n /\ m + (i - m) = i
      BY <2>2, <1>2
    <3> QED
      BY <3>1, <1>2
  <2> QED
    BY <2>1, <2>2
<1>5. /\ \A i \in DOMAIN plan : \A j \in DOMAIN plan[i].columns : plan[i].columns[j] \in 1..fresh
      /\ \A k \in DOMAIN arguments : arguments[k].column \in 1..fresh
      /\ \A k \in DOMAIN aggregates : aggregates[k].column \in 1..fresh
  BY DEF Fresh, ColumnsFresh
<1>6. /\ 1..fresh \subseteq 1..fresh'
      /\ \A i \in 1..n : fresh + i \in 1..fresh' /\ fresh + i \notin 1..fresh
      /\ \A i \in 1..n : fresh + i # fresh + n + 1
      /\ fresh + n + 1 \notin 1..fresh
  BY <1>1, <1>2
<1>7. fresh' = fresh + n + 1 => fresh + n + 1 \in 1..fresh'
  BY <1>1, <1>2
<1>8. ColumnsFresh'
  <2>1. \A k \in DOMAIN arguments' : arguments'[k].column \in 1..fresh'
    BY <1>4, <1>5, <1>6
  <2>2. \A k \in DOMAIN aggregates' : aggregates'[k].column \in 1..fresh'
    BY <1>1, <1>5, <1>6, <1>7
  <2>3. \A i \in DOMAIN plan' : \A j \in DOMAIN plan'[i].columns :
            plan'[i].columns[j] \in 1..fresh'
    BY <1>3, <1>5, <1>6
  <2> QED
    BY <2>1, <2>2, <2>3 DEF ColumnsFresh
<1>9. ColumnsApart'
  <2>1. ASSUME NEW i \in DOMAIN arguments', NEW k \in DOMAIN arguments',
               arguments'[i].column = arguments'[k].column
        PROVE  i = k
    <3>1. CASE i \in DOMAIN arguments /\ k \in DOMAIN arguments
      BY <2>1, <3>1, <1>2 DEF Fresh, ColumnsApart
    <3>2. CASE /\ i - m \in 1..n /\ arguments'[i].column = fresh + (i - m)
               /\ k - m \in 1..n /\ arguments'[k].column = fresh + (k - m)
      <4>1. i \in Int /\ k \in Int /\ m \in Int /\ fresh \in Int
        BY <1>1, <1>2
      <4>2. fresh + (i - m) = fresh + (k - m)
        BY <2>1, <3>2
      <4> QED
        BY <4>1, <4>2
    <3>3. CASE i \in DOMAIN arguments /\ k - m \in 1..n /\ arguments'[k].column = fresh + (k - m)
      BY <2>1, <3>3, <1>2, <1>5, <1>6
    <3>4. CASE k \in DOMAIN arguments /\ i - m \in 1..n /\ arguments'[i].column = fresh + (i - m)
      <4>1. arguments'[k].column \in 1..fresh
        BY <3>4, <1>2, <1>5
      <4>2. arguments'[i].column \notin 1..fresh
        BY <3>4, <1>6
      <4> QED
        BY <2>1, <4>1, <4>2
    <3> QED
      BY <1>4, <3>1, <3>2, <3>3, <3>4
  <2>2. ASSUME NEW i \in DOMAIN aggregates', NEW k \in DOMAIN aggregates',
               aggregates'[i].column = aggregates'[k].column
        PROVE  i = k
    <3>1. CASE i \in DOMAIN aggregates /\ k \in DOMAIN aggregates
      BY <2>2, <3>1, <1>1 DEF Fresh, ColumnsApart
    <3>2. CASE i \notin DOMAIN aggregates /\ k \notin DOMAIN aggregates
      BY <3>2, <1>1
    <3>3. CASE i \in DOMAIN aggregates /\ k \notin DOMAIN aggregates
      BY <2>2, <3>3, <1>1, <1>5, <1>6
    <3>4. CASE i \notin DOMAIN aggregates /\ k \in DOMAIN aggregates
      BY <2>2, <3>4, <1>1, <1>5, <1>6
    <3> QED
      BY <3>1, <3>2, <3>3, <3>4
  <2>3. ASSUME NEW i \in DOMAIN arguments', NEW k \in DOMAIN aggregates'
        PROVE  arguments'[i].column # aggregates'[k].column
    <3>1. CASE i \in DOMAIN arguments /\ k \in DOMAIN aggregates
      BY <3>1, <1>1, <1>2 DEF Fresh, ColumnsApart
    <3>2. CASE i \in DOMAIN arguments /\ k \notin DOMAIN aggregates
      BY <3>2, <1>1, <1>2, <1>5, <1>6
    <3>3. CASE i - m \in 1..n /\ arguments'[i].column = fresh + (i - m) /\ k \in DOMAIN aggregates
      BY <3>3, <1>1, <1>5, <1>6
    <3>4. CASE i - m \in 1..n /\ arguments'[i].column = fresh + (i - m) /\ k \notin DOMAIN aggregates
      BY <3>4, <1>1, <1>6
    <3> QED
      BY <1>4, <3>1, <3>2, <3>3, <3>4
  <2>4. ASSUME NEW i \in DOMAIN plan', NEW j \in DOMAIN plan'[i].columns
        PROVE  /\ \A k \in DOMAIN arguments' : arguments'[k].column # plan'[i].columns[j]
               /\ \A k \in DOMAIN aggregates' : aggregates'[k].column # plan'[i].columns[j]
    <3>1. i \in DOMAIN plan /\ j \in DOMAIN plan[i].columns
          /\ plan'[i].columns[j] = plan[i].columns[j] /\ plan[i].columns[j] \in 1..fresh
      BY <1>3, <1>5
    <3>2. \A k \in DOMAIN arguments' : arguments'[k].column # plan'[i].columns[j]
      BY <3>1, <1>4, <1>6 DEF Fresh, ColumnsApart
    <3>3. \A k \in DOMAIN aggregates' : aggregates'[k].column # plan'[i].columns[j]
      BY <3>1, <1>1, <1>6 DEF Fresh, ColumnsApart
    <3> QED
      BY <3>2, <3>3
  <2> QED
    BY <2>1, <2>2, <2>3, <2>4 DEF ColumnsApart
<1>10. DefinedOnce'
  BY <1>3 DEF Fresh, DefinedOnce
<1>11. ArgumentsOK'
  <2> SUFFICES ASSUME NEW k \in DOMAIN aggregates', NEW i \in DOMAIN aggregates'[k].arguments
               PROVE  \E l \in DOMAIN arguments' :
                          arguments'[l].column = aggregates'[k].arguments[i]
    BY DEF ArgumentsOK
  <2>1. CASE k \in DOMAIN aggregates
    <3>1. PICK l \in DOMAIN arguments : arguments[l].column = aggregates[k].arguments[i]
      BY <2>1, <1>1 DEF ArgumentsOK
    <3>2. l \in DOMAIN arguments' /\ arguments'[l] = arguments[l]
      BY <1>2
    <3> QED
      BY <2>1, <3>1, <3>2, <1>1
  <2>2. CASE k \notin DOMAIN aggregates
    <3>1. i \in 1..n /\ aggregates'[k].arguments[i] = fresh + i
      BY <2>2, <1>1, <1>2
    <3>2. m + i \in DOMAIN arguments' /\ arguments'[m + i].column = fresh + i
      BY <3>1, <1>2
    <3> QED
      BY <3>1, <3>2
  <2> QED
    BY <2>1, <2>2
<1> QED
  BY <1>8, <1>9, <1>10, <1>11 DEF Fresh

(* Where a column of the finished chain comes from.                        *)
LEMMA ColumnOrigin ==
    ASSUME TypeOK, Working => Shape, Install,
           NEW i \in DOMAIN plan', NEW j \in DOMAIN plan'[i].columns
    PROVE  LET n == Len(Inserted)
               g == Len(groupKeys)
               x == plan'[i].columns[j]
           IN
           \/ i \in 1..entry /\ i \in DOMAIN plan /\ j \in DOMAIN plan[i].columns
              /\ x = plan[i].columns[j]
           \/ i - n \in (entry + 1)..Len(plan) /\ i - n \in DOMAIN plan
              /\ j \in DOMAIN plan[i - n].columns /\ x = plan[i - n].columns[j]
           \/ i = entry + 1 /\ j \in DOMAIN arguments /\ x = arguments[j].column
           \/ i = entry + n /\ j \in DOMAIN groupKeys /\ j \in 1..g /\ x = groupKeys[j]
           \/ i = entry + n /\ j - g \in DOMAIN aggregates /\ x = aggregates[j - g].column
<1> DEFINE n == Len(Inserted)
           g == Len(groupKeys)
           m == Len(plan)
           x == plan'[i].columns[j]
<1>1. /\ DOMAIN plan' = 1..(m + n) /\ m \in Nat /\ n \in Nat /\ entry \in 0..m
      /\ DOMAIN plan = 1..m
      /\ \A k \in 1..entry : plan'[k] = plan[k]
      /\ \A h \in 1..n : plan'[entry + h] = Inserted[h]
      /\ \A k \in (entry + 1)..m : plan'[k + n] = plan[k]
      /\ \A k \in 1..(m + n) : k \in 1..entry \/ k - entry \in 1..n \/ k - n \in (entry + 1)..m
  BY Installed
<1>2. \A h \in 1..n : \/ h = 1 /\ Inserted[h] = ArgumentOperator
                      \/ h = n /\ Inserted[h] = AggregateOperator
  BY InsertedIs
<1> HIDE DEF n, m
<1>3. CASE i \in 1..entry
  BY <1>1, <1>3
<1>4. CASE i - n \in (entry + 1)..m
  <2>1. (i - n) + n = i /\ i - n \in DOMAIN plan
    BY <1>1, <1>4
  <2>2. plan'[i] = plan[i - n]
    BY <1>1, <1>4, <2>1
  <2> QED
    BY <1>4, <2>1, <2>2 DEF m, n
<1>5. CASE i - entry \in 1..n
  <2>1. entry + (i - entry) = i
    BY <1>1
  <2>2. plan'[i] = Inserted[i - entry]
    BY <1>1, <1>5, <2>1
  <2>3. CASE i - entry = 1 /\ Inserted[i - entry] = ArgumentOperator
    <3>1. i = entry + 1
      BY <1>1, <2>3
    <3>2. plan'[i] = ArgumentOperator
      BY <2>2, <2>3
    <3>3. j \in DOMAIN arguments /\ x = arguments[j].column
      BY <3>2, ArgumentOperatorIs
    <3> QED
      BY <3>1, <3>3
  <2>4. CASE i - entry = n /\ Inserted[i - entry] = AggregateOperator
    <3>1. i = entry + n
      BY <1>1, <2>4
    <3>2. plan'[i] = AggregateOperator
      BY <2>2, <2>4
    <3> DEFINE k == Len(aggregates)
    <3>3. /\ g \in Nat /\ k \in Nat /\ DOMAIN groupKeys = 1..g /\ DOMAIN aggregates = 1..k
          /\ DOMAIN AggregateOperator.columns = 1..(g + k)
          /\ \A q \in 1..(g + k) : AggregateOperator.columns[q] =
                IF q <= g THEN groupKeys[q] ELSE aggregates[q - g].column
      BY AggregateOperatorIs
    <3> HIDE DEF g, k
    <3>4. j \in 1..(g + k)
      BY <3>2, <3>3
    <3>5. CASE j <= g
      <4>1. j \in 1..g /\ x = groupKeys[j]
        BY <3>2, <3>3, <3>4, <3>5
      <4> QED
        BY <3>1, <3>3, <4>1 DEF n, g
    <3>6. CASE ~(j <= g)
      <4>1. j - g \in 1..k /\ x = aggregates[j - g].column
        BY <3>2, <3>3, <3>4, <3>6
      <4> QED
        BY <3>1, <3>3, <4>1 DEF n, g
    <3> QED
      BY <3>5, <3>6
  <2> QED
    BY <1>2, <1>5, <2>3, <2>4
<1> QED
  BY <1>1, <1>3, <1>4, <1>5

LEMMA OnceInstalled ==
    ASSUME TypeOK, Working => Shape, Install, Fresh, KeysApart
    PROVE  DefinedOnce'
<1> SUFFICES ASSUME NEW i \in DOMAIN plan', NEW k \in DOMAIN plan',
                    NEW j \in DOMAIN plan'[i].columns, NEW l \in DOMAIN plan'[k].columns,
                    plan'[i].columns[j] = plan'[k].columns[l]
             PROVE  i = k /\ j = l
  BY DEF DefinedOnce
<1> DEFINE n == Len(Inserted)
           g == Len(groupKeys)
           x == plan'[i].columns[j]
           Old(p, q) == \E o \in DOMAIN plan :
                           /\ \/ o \in 1..entry /\ p = o
                              \/ o \in (entry + 1)..Len(plan) /\ p = o + n
                           /\ q \in DOMAIN plan[o].columns /\ x = plan[o].columns[q]
           Argued(p, q) == p = entry + 1 /\ q \in DOMAIN arguments /\ x = arguments[q].column
           Keyed(p, q) == p = entry + n /\ q \in DOMAIN groupKeys /\ x = groupKeys[q]
           Computed(p, q) == p = entry + n /\ q - g \in DOMAIN aggregates
                             /\ x = aggregates[q - g].column
<1>1. ASSUME NEW p \in DOMAIN plan', NEW q \in DOMAIN plan'[p].columns, x = plan'[p].columns[q]
      PROVE  Old(p, q) \/ Argued(p, q) \/ Keyed(p, q) \/ Computed(p, q)
  <2>1. DOMAIN plan' = 1..(Len(plan) + n) /\ n \in Nat /\ Len(plan) \in Nat
    BY Installed
  <2> HIDE DEF n
  <2>2. p \in Nat /\ (p - n) + n = p
    BY <2>1
  <2> QED
    BY <1>1, <2>2, ColumnOrigin DEF n
<1>2. /\ \A o \in DOMAIN plan : \A q \in DOMAIN plan[o].columns : plan[o].columns[q] \in 1..fresh
      /\ \A q \in DOMAIN arguments : arguments[q].column \in 1..fresh
      /\ \A q \in DOMAIN aggregates : aggregates[q].column \in 1..fresh
  BY DEF Fresh, ColumnsFresh
<1>3. \A q \in DOMAIN groupKeys : groupKeys[q] \notin 1..fresh
  <2>1. \A q \in DOMAIN groupKeys : groupKeys[q] \in Columns
    BY DEF TypeOK
  <2> QED
    BY <2>1, ColumnsAssumption DEF TypeOK
<1> DEFINE Any(p, q) == Old(p, q) \/ Argued(p, q) \/ Keyed(p, q) \/ Computed(p, q)
<1>4. Any(i, j) /\ Any(k, l)
  BY <1>1
<1>5. /\ entry \in Nat /\ n \in Nat /\ Len(plan) \in Nat /\ g \in Nat
      /\ i \in Nat /\ k \in Nat /\ j \in Nat /\ l \in Nat
  <2>1. /\ plan' \in Seq(Operator) /\ n \in Nat /\ Len(plan) \in Nat
    BY Installed
  <2>2. plan'[i] \in Operator /\ plan'[k] \in Operator /\ i \in Nat /\ k \in Nat
    BY <2>1
  <2>3. j \in Nat /\ l \in Nat
    BY <2>2 DEF Operator
  <2> QED
    BY <2>1, <2>2, <2>3 DEF TypeOK
<1> HIDE DEF n, g, x
<1>6. CASE Old(i, j)
  <2>1. /\ \A q \in DOMAIN arguments : x # arguments[q].column
        /\ \A q \in DOMAIN aggregates : x # aggregates[q].column
    BY <1>6 DEF Fresh, ColumnsApart
  <2>2. \A q \in DOMAIN groupKeys : x # groupKeys[q]
    BY <1>2, <1>3, <1>6
  <2>3. Old(k, l)
    BY <1>4, <2>1, <2>2
  <2>4. PICK o \in DOMAIN plan :
           /\ \/ o \in 1..entry /\ i = o
              \/ o \in (entry + 1)..Len(plan) /\ i = o + n
           /\ j \in DOMAIN plan[o].columns /\ x = plan[o].columns[j]
    BY <1>6
  <2>5. PICK u \in DOMAIN plan :
           /\ \/ u \in 1..entry /\ k = u
              \/ u \in (entry + 1)..Len(plan) /\ k = u + n
           /\ l \in DOMAIN plan[u].columns /\ x = plan[u].columns[l]
    BY <2>3
  <2>6. o = u /\ j = l
    <3>1. /\ j \in DOMAIN plan[o].columns /\ l \in DOMAIN plan[u].columns
          /\ plan[o].columns[j] = plan[u].columns[l]
      BY <2>4, <2>5
    <3>2. DefinedOnce
      BY DEF Fresh
    <3> HIDE DEF Old, Argued, Keyed, Computed, Any
    <3> QED
      BY <3>1, <3>2 DEF DefinedOnce
  <2>7. o \in Nat
    BY DEF TypeOK
  <2> QED
    BY <1>5, <2>4, <2>5, <2>6, <2>7
<1>7. CASE Argued(i, j)
  <2>1. Argued(k, l)
    <3>1. ~Old(k, l)
      BY <1>7 DEF Fresh, ColumnsApart
    <3>2. ~Keyed(k, l)
      BY <1>2, <1>3, <1>7
    <3>3. ~Computed(k, l)
      BY <1>7 DEF Fresh, ColumnsApart
    <3> QED
      BY <1>4, <3>1, <3>2, <3>3
  <2> QED
    BY <1>7, <2>1 DEF Fresh, ColumnsApart
<1>8. CASE Keyed(i, j)
  <2>1. Keyed(k, l)
    BY <1>2, <1>3, <1>4, <1>8
  <2> QED
    BY <1>8, <2>1 DEF KeysApart
<1>9. CASE Computed(i, j)
  <2>1. Computed(k, l)
    <3>1. ~Old(k, l)
      BY <1>9 DEF Fresh, ColumnsApart
    <3>2. ~Keyed(k, l)
      BY <1>2, <1>3, <1>9
    <3>3. ~Argued(k, l)
      BY <1>9 DEF Fresh, ColumnsApart
    <3> QED
      BY <1>4, <3>1, <3>2, <3>3
  <2>2. j - g = l - g
    BY <1>9, <2>1 DEF Fresh, ColumnsApart
  <2> QED
    BY <1>5, <1>9, <2>1, <2>2
<1> QED
  BY <1>4, <1>6, <1>7, <1>8, <1>9

LEMMA VariablesOnce ==
    ASSUME TypeOK, Working => Shape /\ Fresh /\ ArgumentsOK /\ KeysApart, DefinedOnce, [Next]_vars
    PROVE  DefinedOnce' /\ (Working' => Fresh' /\ ArgumentsOK' /\ KeysApart')
<1> USE DEF Goto
<1>1. CASE \/ RejectWhere \/ RejectGroup \/ RejectSortKey \/ RejectLimit
           \/ RejectColumn \/ RejectCall
  <2>1. plan' = plan /\ pc' = "failed"
    BY <1>1 DEF RejectWhere, RejectGroup, RejectSortKey, RejectLimit, RejectColumn, RejectCall, Fail
  <2> QED
    BY <2>1 DEF DefinedOnce, Working
<1>2. CASE UNCHANGED vars
  BY <1>2 DEF vars, processor, DefinedOnce, Working, Fresh, ColumnsFresh, ColumnsApart,
              ArgumentsOK, KeysApart
<1>3. CASE \/ NoWhere \/ BeginGroup \/ NoGroup \/ EndGroup \/ NoHaving \/ SelectAsterisk
           \/ EndSelect \/ NotDistinct \/ NoOrder \/ KeepColumn \/ EndValue \/ EndOperator
  <2>1. plan' = plan /\ UNCHANGED <<arguments, aggregates, fresh, groupKeys>> /\ Working
    BY <1>3 DEF NoWhere, BeginGroup, NoGroup, EndGroup, NoHaving, SelectAsterisk, EndSelect,
                NotDistinct, NoOrder, KeepColumn, EndValue, EndOperator, Built, processor,
                Working, AtColumn, AtLeaf
  <2>2. Fresh'
    BY <2>1, FreshStays
  <2> QED
    BY <2>1, <2>2 DEF Fresh, ArgumentsOK, KeysApart
<1>4. CASE Group
  <2>1. plan' = plan /\ UNCHANGED <<arguments, aggregates, fresh>> /\ Working
    BY <1>4 DEF Group, Built, Working
  <2>2. Fresh'
    BY <2>1, FreshStays
  <2>3. KeysApart'
    <3>1. PICK e \in Expressions : /\ \A i \in DOMAIN groupKeys : groupKeys[i] # e[1].column
                                   /\ groupKeys' = Append(groupKeys, e[1].column)
      BY <1>4 DEF Group
    <3>2. groupKeys \in Seq(Columns)
      BY DEF TypeOK
    <3> DEFINE v == e[1].column
    <3>3. groupKeys' = Append(groupKeys, v) /\ \A i \in DOMAIN groupKeys : groupKeys[i] # v
      BY <3>1
    <3> HIDE DEF v
    <3>4. /\ DOMAIN groupKeys' = DOMAIN groupKeys \cup {Len(groupKeys) + 1}
          /\ \A i \in DOMAIN groupKeys : groupKeys'[i] = groupKeys[i]
          /\ groupKeys'[Len(groupKeys) + 1] = v
      BY <3>2, <3>3
    <3> QED
      BY <2>1, <3>3, <3>4 DEF KeysApart
  <2> QED
    BY <2>1, <2>2, <2>3 DEF Fresh, ArgumentsOK
<1>5. CASE Where \/ Having \/ BeginSelect \/ Distinct \/ BeginOrder \/ EndOrder \/ Limit \/ NoLimit
  <2>1. /\ UNCHANGED <<arguments, aggregates, fresh, groupKeys>> /\ Working
        /\ \/ plan' = plan
           \/ \E kind, values : plan' = Append(plan, Make(kind, values, <<>>))
    BY <1>5 DEF Where, Having, BeginSelect, Distinct, BeginOrder, EndOrder, Limit, NoLimit,
                Working, processor
  <2>2. \A i \in DOMAIN plan' : \/ i \in DOMAIN plan /\ plan'[i].columns = plan[i].columns
                                \/ plan'[i].columns = <<>>
    <3>1. CASE plan' = plan
      BY <3>1
    <3>2. CASE \E kind, values : plan' = Append(plan, Make(kind, values, <<>>))
      <4>1. PICK kind, values : plan' = Append(plan, Make(kind, values, <<>>))
        BY <3>2
      <4> DEFINE o == Make(kind, values, <<>>)
      <4>2. o.columns = <<>>
        BY DEF Make
      <4>3. plan' = Append(plan, o)
        BY <4>1
      <4> HIDE DEF o
      <4>4. \A i \in DOMAIN plan' : \/ i \in DOMAIN plan /\ plan'[i] = plan[i]
                                    \/ plan'[i] = o
        BY <4>3 DEF TypeOK
      <4> QED
        BY <4>2, <4>4
    <3> QED
      BY <2>1, <3>1, <3>2
  <2>3. Fresh'
    BY <2>1, <2>2, FreshStays
  <2> QED
    BY <2>1, <2>3 DEF Fresh, ArgumentsOK, KeysApart
<1>6. CASE Select \/ SortKey
  <2>1. PICK e \in Expressions : AddColumn(e)
    BY <1>6 DEF Select, SortKey
  <2>2. UNCHANGED <<arguments, aggregates, groupKeys>> /\ Working /\ plan # <<>>
    BY <1>6 DEF Select, SortKey, Working, Shape, LastIs
  <2>3. Fresh'
    BY <2>1, <2>2, FreshOfColumn, Analysed
  <2> QED
    BY <2>2, <2>3 DEF Fresh, ArgumentsOK, KeysApart
<1>7. CASE Consume \/ Reuse
  <2>1. PICK v : Answer(ThisLeaf, v)
    BY <1>7, Answered
  <2>2. Working /\ groupKeys' = groupKeys
    BY <2>1 DEF Answer, Working
  <2> QED
    BY <2>1, <2>2, FreshOfAnswer DEF Fresh, KeysApart
<1>8. CASE Install
  <2>1. Working /\ ~Working'
    BY <1>8 DEF Install, Working
  <2> QED
    BY <1>8, <2>1, OnceInstalled
<1> QED
  BY <1>1, <1>2, <1>3, <1>4, <1>5, <1>6, <1>7, <1>8 DEF Next, Clauses, Processing

LEMMA Shapes ==
    ASSUME TypeOK, Working => Shape, [Next]_vars, Working'
    PROVE  Shape'
<1> USE DEF Goto
<1>1. ~ \/ RejectWhere \/ RejectGroup \/ RejectSortKey \/ RejectLimit
        \/ RejectColumn \/ RejectCall \/ Install
  BY DEF RejectWhere, RejectGroup, RejectSortKey, RejectLimit, RejectColumn, RejectCall, Fail,
         Install, Working
<1>2. CASE UNCHANGED vars
  BY <1>2 DEF vars, processor, Working, Shape, Reached, CursorOK, Current, LastIs, Positions
<1>3. CASE Next
  <2>1. Working
    BY <1>3 DEF Next, Clauses, Processing, Working, AtColumn, AtCall, AtLeaf, Where, NoWhere,
        RejectWhere, BeginGroup, NoGroup, Group, RejectGroup, EndGroup, Having, NoHaving,
        BeginSelect, Select, SelectAsterisk, EndSelect, Distinct, NotDistinct, BeginOrder,
        NoOrder, SortKey, RejectSortKey, EndOrder, Limit, NoLimit, RejectLimit, KeepColumn,
        RejectColumn, Consume, Reuse, RejectCall, EndValue, EndOperator, Install, Fail
  <2> QED
    BY <1>1, <1>3, <2>1, ShapeOfClauses, ShapeOfOperators, ShapeOfColumns, ShapeOfLimit,
       ShapeOfProcessing DEF Next, Clauses, Processing
<1> QED
  BY <1>2, <1>3

-----------------------------------------------------------------------------
(* The leaves: what a step adds takes nothing from those that are there.   *)

Grown(s, t) == \A m \in DOMAIN s : m \in DOMAIN t /\ t[m] = s[m]

(* Every operator of p is in q, with its kind and at least its columns.    *)
Continued(p, q) ==
    \A h \in DOMAIN p : /\ h \in DOMAIN q /\ q[h].kind = p[h].kind
                        /\ Grown(p[h].columns, q[h].columns)

LEMMA GrownSame == \A s : Grown(s, s)
  BY DEF Grown

LEMMA MeansMore ==
    ASSUME NEW args, NEW aggs, NEW args2, NEW aggs2, NEW l, NEW w,
           Grown(args, args2), Grown(aggs, aggs2), Means(args, aggs, l, w)
    PROVE  Means(args2, aggs2, l, w)
<1>1. CASE w.kind = "column"
  BY <1>1 DEF Means
<1>2. CASE w.kind # "column"
  <2>1. PICK m \in DOMAIN aggs :
           /\ l = Reference(aggs[m].column)
           /\ aggs[m].function = w.function
           /\ Len(aggs[m].arguments) = Len(w.arguments)
           /\ \A n \in DOMAIN w.arguments :
                  /\ ~w.arguments[n].nested
                  /\ \E a \in DOMAIN args : /\ args[a].column = aggs[m].arguments[n]
                                           /\ args[a].value = w.arguments[n]
    BY <1>2 DEF Means
  <2>2. m \in DOMAIN aggs2 /\ aggs2[m] = aggs[m]
    BY DEF Grown
  <2>3. \A n \in DOMAIN w.arguments :
            /\ ~w.arguments[n].nested
            /\ \E a \in DOMAIN args2 : /\ args2[a].column = aggs2[m].arguments[n]
                                      /\ args2[a].value = w.arguments[n]
    BY <2>1, <2>2 DEF Grown
  <2> QED
    BY <1>2, <2>1, <2>2, <2>3 DEF Means
<1> QED
  BY <1>1, <1>2

LEMMA ReadableMore ==
    ASSUME NEW p, NEW q, NEW aggs, NEW aggs2, NEW keys, NEW keys2, NEW i \in DOMAIN p, NEW l,
           Continued(p, q), Grown(aggs, aggs2), Grown(keys, keys2), Readable(p, aggs, keys, i, l)
    PROVE  Readable(q, aggs2, keys2, i, l)
<1>1. q[i].kind = p[i].kind /\ l.kind = "column"
  BY DEF Continued, Readable
<1>2. q[i].kind = "where" => l.column \in Columns
  BY <1>1 DEF Readable
<1>3. q[i].kind \in {"having", "select", "order"} =>
          \/ \E m \in DOMAIN aggs2 : aggs2[m].column = l.column
          \/ \E m \in DOMAIN keys2 : keys2[m] = l.column
  BY <1>1 DEF Readable, Grown
<1>4. q[i].kind = "limit" =>
          /\ i - 1 \in DOMAIN q /\ q[i - 1].kind = "order"
          /\ \E n \in DOMAIN q[i - 1].columns : q[i - 1].columns[n] = l.column
  <2> SUFFICES ASSUME q[i].kind = "limit"
               PROVE  /\ i - 1 \in DOMAIN q /\ q[i - 1].kind = "order"
                      /\ \E n \in DOMAIN q[i - 1].columns : q[i - 1].columns[n] = l.column
    OBVIOUS
  <2>1. /\ i - 1 \in DOMAIN p /\ p[i - 1].kind = "order"
        /\ \E n \in DOMAIN p[i - 1].columns : p[i - 1].columns[n] = l.column
    BY <1>1 DEF Readable
  <2>2. /\ i - 1 \in DOMAIN q /\ q[i - 1].kind = p[i - 1].kind
        /\ Grown(p[i - 1].columns, q[i - 1].columns)
    BY <2>1 DEF Continued
  <2> QED
    BY <2>1, <2>2 DEF Grown
<1> QED
  BY <1>1, <1>2, <1>3, <1>4 DEF Readable

LEMMA LeafStays ==
    ASSUME NEW p, NEW s, NEW c, NEW args, NEW aggs, NEW keys,
           NEW q, NEW s2, NEW c2, NEW args2, NEW aggs2, NEW keys2,
           NEW i \in DOMAIN p, NEW j, NEW k,
           Continued(p, q), Grown(args, args2), Grown(aggs, aggs2), Grown(keys, keys2),
           q[i].values[j][k] = p[i].values[j][k], q[i].written[j][k] = p[i].written[j][k],
           Pending(q, s2, c2, i, j, k) <=> Pending(p, s, c, i, j, k),
           LeafOK(p, s, c, args, aggs, keys, i, j, k)
    PROVE  LeafOK(q, s2, c2, args2, aggs2, keys2, i, j, k)
<1> DEFINE l == p[i].values[j][k]
           w == p[i].written[j][k]
<1>1. CASE Pending(p, s, c, i, j, k)
  BY <1>1 DEF LeafOK
<1>2. CASE ~Pending(p, s, c, i, j, k)
  <2>1. Means(args, aggs, l, w) /\ Readable(p, aggs, keys, i, l)
    BY <1>2 DEF LeafOK
  <2> HIDE DEF l, w
  <2>2. Means(args2, aggs2, l, w) /\ Readable(q, aggs2, keys2, i, l)
    BY <2>1, MeansMore, ReadableMore
  <2> QED
    BY <1>2, <2>2 DEF LeafOK, l, w
<1> QED
  BY <1>1, <1>2

(* The chain is the same, and so is what is pending.                       *)
LEMMA LeavesSame ==
    ASSUME NEW p, NEW s, NEW c, NEW args, NEW aggs, NEW keys,
           NEW s2, NEW c2, NEW keys2, Grown(keys, keys2),
           \A i \in DOMAIN p : \A j \in DOMAIN p[i].values : \A k \in DOMAIN p[i].values[j] :
               Pending(p, s2, c2, i, j, k) <=> Pending(p, s, c, i, j, k),
           LeavesIn(p, s, c, args, aggs, keys)
    PROVE  LeavesIn(p, s2, c2, args, aggs, keys2)
<1>1. Continued(p, p) /\ Grown(args, args) /\ Grown(aggs, aggs)
  BY DEF Continued, Grown
<1> SUFFICES ASSUME NEW i \in DOMAIN p, NEW j \in DOMAIN p[i].values
             PROVE  /\ Len(p[i].values[j]) = Len(p[i].written[j])
                    /\ \A k \in DOMAIN p[i].values[j] : LeafOK(p, s2, c2, args, aggs, keys2, i, j, k)
  BY DEF LeavesIn
<1>2. Len(p[i].values[j]) = Len(p[i].written[j])
  BY DEF LeavesIn
<1>3. ASSUME NEW k \in DOMAIN p[i].values[j]
      PROVE  LeafOK(p, s2, c2, args, aggs, keys2, i, j, k)
  <2>1. LeafOK(p, s, c, args, aggs, keys, i, j, k)
    BY DEF LeavesIn
  <2>2. Pending(p, s2, c2, i, j, k) <=> Pending(p, s, c, i, j, k)
    OBVIOUS
  <2> QED
    BY <1>1, <2>1, <2>2, LeafStays
<1> QED
  BY <1>2, <1>3

(* An operator is appended, whose own leaves are in order.                 *)
LEMMA LeavesAppended ==
    ASSUME NEW p \in Seq(Operator), NEW s, NEW c, NEW args, NEW aggs, NEW keys,
           NEW s2, NEW c2, NEW o \in Operator,
           \A i \in DOMAIN p : \A j \in DOMAIN p[i].values : \A k \in DOMAIN p[i].values[j] :
               Pending(Append(p, o), s2, c2, i, j, k) <=> Pending(p, s, c, i, j, k),
           \A j \in DOMAIN o.values :
               /\ Len(o.values[j]) = Len(o.written[j])
               /\ \A k \in DOMAIN o.values[j] :
                     LeafOK(Append(p, o), s2, c2, args, aggs, keys, Len(p) + 1, j, k),
           LeavesIn(p, s, c, args, aggs, keys)
    PROVE  LeavesIn(Append(p, o), s2, c2, args, aggs, keys)
<1> DEFINE q == Append(p, o)
           n == Len(p)
<1>1. /\ n \in Nat /\ DOMAIN p = 1..n /\ DOMAIN q = 1..(n + 1)
      /\ \A i \in DOMAIN p : q[i] = p[i]
      /\ q[n + 1] = o
  OBVIOUS
<1>2. /\ \A i \in DOMAIN p : \A j \in DOMAIN p[i].values : \A k \in DOMAIN p[i].values[j] :
             Pending(q, s2, c2, i, j, k) <=> Pending(p, s, c, i, j, k)
      /\ \A j \in DOMAIN o.values :
             /\ Len(o.values[j]) = Len(o.written[j])
             /\ \A k \in DOMAIN o.values[j] : LeafOK(q, s2, c2, args, aggs, keys, n + 1, j, k)
  OBVIOUS
<1> SUFFICES LeavesIn(q, s2, c2, args, aggs, keys)
  OBVIOUS
<1> HIDE DEF q, n
<1>3. Continued(p, q) /\ Grown(args, args) /\ Grown(aggs, aggs) /\ Grown(keys, keys)
  BY <1>1 DEF Continued, Grown
<1> SUFFICES ASSUME NEW i \in DOMAIN q, NEW j \in DOMAIN q[i].values
             PROVE  /\ Len(q[i].values[j]) = Len(q[i].written[j])
                    /\ \A k \in DOMAIN q[i].values[j] : LeafOK(q, s2, c2, args, aggs, keys, i, j, k)
  BY DEF LeavesIn
<1>4. CASE i = n + 1
  BY <1>1, <1>2, <1>4
<1>5. CASE i # n + 1
  <2>1. i \in DOMAIN p /\ q[i] = p[i]
    BY <1>1, <1>5
  <2>2. Len(q[i].values[j]) = Len(q[i].written[j])
    BY <2>1 DEF LeavesIn
  <2>3. ASSUME NEW k \in DOMAIN q[i].values[j]
        PROVE  LeafOK(q, s2, c2, args, aggs, keys, i, j, k)
    <3>1. LeafOK(p, s, c, args, aggs, keys, i, j, k)
      BY <2>1 DEF LeavesIn
    <3>2. Pending(q, s2, c2, i, j, k) <=> Pending(p, s, c, i, j, k)
      BY <1>2, <2>1
    <3> QED
      BY <1>3, <2>1, <3>1, <3>2, LeafStays
  <2> QED
    BY <2>2, <2>3
<1> QED
  BY <1>4, <1>5

-----------------------------------------------------------------------------
(* The leaves in the steps of the clauses.                                 *)

(* The columns of a value that was just written are what was written.      *)
LEMMA WrittenMeans ==
    ASSUME NEW args, NEW aggs, NEW l, l.kind = "column"
    PROVE  Means(args, aggs, l, l)
  BY DEF Means

LEMMA LeavesOfRest ==
    ASSUME TypeOK, Leaves, Shape,
           \/ NoWhere \/ BeginGroup \/ NoGroup \/ Group \/ EndGroup \/ NoHaving \/ SelectAsterisk
           \/ EndSelect \/ NotDistinct \/ NoOrder
    PROVE  Leaves'
<1> USE DEF Goto
<1>1. /\ plan' = plan /\ pc \in Clausal /\ pc' \in Clausal
      /\ UNCHANGED <<cursor, arguments, aggregates>>
  BY DEF NoWhere, BeginGroup, NoGroup, Group, EndGroup, NoHaving, SelectAsterisk, EndSelect,
         NotDistinct, NoOrder, Built, processor, Clausal
<1>2. Grown(groupKeys, groupKeys')
  <2>1. CASE groupKeys' = groupKeys
    BY <2>1 DEF Grown
  <2>2. CASE Group
    <3>1. PICK e \in Expressions : groupKeys' = Append(groupKeys, e[1].column)
      BY <2>2 DEF Group
    <3> DEFINE v == e[1].column
    <3>2. groupKeys' = Append(groupKeys, v) /\ groupKeys \in Seq(Columns)
      BY <3>1 DEF TypeOK
    <3> HIDE DEF v
    <3> QED
      BY <3>2 DEF Grown
  <2> QED
    BY <2>1, <2>2 DEF NoWhere, BeginGroup, NoGroup, EndGroup, NoHaving, SelectAsterisk,
         EndSelect, NotDistinct, NoOrder, Built, processor
<1>3. \A i, j, k : Pending(plan, pc', cursor', i, j, k) <=> Pending(plan, pc, cursor, i, j, k)
  BY <1>1 DEF Pending, Clausal
<1>4. LeavesIn(plan, pc', cursor', arguments, aggregates, groupKeys')
  BY <1>2, <1>3, LeavesSame DEF Leaves
<1> QED
  BY <1>1, <1>4 DEF Leaves

LEMMA LeavesOfOperators ==
    ASSUME TypeOK, Leaves, Shape,
           Where \/ Having \/ BeginSelect \/ Distinct \/ BeginOrder \/ EndOrder
    PROVE  Leaves'
<1> USE DEF Goto
<1>1. ASSUME NEW o \in Operator, plan' = Append(plan, o),
             UNCHANGED <<arguments, aggregates, groupKeys>>,
             pc \in Clausal, pc' \in Clausal,
             \A j \in DOMAIN o.values :
                 /\ Len(o.values[j]) = Len(o.written[j])
                 /\ \A k \in DOMAIN o.values[j] :
                       LeafOK(plan', pc', cursor', arguments, aggregates, groupKeys,
                              Len(plan) + 1, j, k)
      PROVE  Leaves'
  <2>1. /\ plan \in Seq(Operator)
        /\ \A i \in DOMAIN plan : Append(plan, o)[i] = plan[i]
    BY DEF TypeOK
  <2>2. \A i \in DOMAIN plan : \A j \in DOMAIN plan[i].values : \A k \in DOMAIN plan[i].values[j] :
            Pending(Append(plan, o), pc', cursor', i, j, k) <=> Pending(plan, pc, cursor, i, j, k)
    BY <1>1, <2>1 DEF Pending, Clausal
  <2>3. LeavesIn(Append(plan, o), pc', cursor', arguments, aggregates, groupKeys)
    BY <1>1, <2>1, <2>2, LeavesAppended DEF Leaves
  <2> QED
    BY <1>1, <2>3 DEF Leaves
<1>2. ASSUME NEW kind \in Kinds, NEW values \in Seq(Value)
      PROVE  LET o == Make(kind, values, <<>>) IN
             /\ o \in Operator /\ o.kind = kind /\ o.values = values /\ o.written = values
  BY Added DEF Make
<1>3. <<>> \in Seq(Value) /\ DOMAIN <<>> = {}
  OBVIOUS
<1>4. CASE Where
  <2>1. PICK e \in Expressions : ~SawAggregate(e) /\ plan' = Append(plan, Make("where", <<e>>, <<>>))
    BY <1>4 DEF Where
  <2>2. /\ e \in Value /\ <<e>> \in Seq(Value) /\ DOMAIN <<e>> = {1} /\ <<e>>[1] = e
        /\ \A i \in DOMAIN e : e[i] \in Leaf /\ Original(e[i])
    BY Analysed
  <2> DEFINE o == Make("where", <<e>>, <<>>)
  <2>3. o \in Operator /\ o.kind = "where" /\ o.values = <<e>> /\ o.written = <<e>>
    BY <1>2, <2>2 DEF Kinds
  <2>4. plan' = Append(plan, o)
    BY <2>1
  <2>5. UNCHANGED <<arguments, aggregates, groupKeys>> /\ pc = "where" /\ pc' = "group"
    BY <1>4 DEF Where, processor
  <2> HIDE DEF o
  <2>6. plan'[Len(plan) + 1] = o
    BY <2>3, <2>4, Appended
  <2>7. ASSUME NEW k \in DOMAIN e
        PROVE  LeafOK(plan', pc', cursor', arguments, aggregates, groupKeys, Len(plan) + 1, 1, k)
    <3>1. e[k].kind = "column" /\ e[k].column \in Columns
      BY <2>1, <2>2 DEF SawAggregate, Leaf, Original
    <3>2. ~Pending(plan', pc', cursor', Len(plan) + 1, 1, k)
      BY <2>3, <2>5, <2>6 DEF Pending
    <3>3. Readable(plan', aggregates, groupKeys, Len(plan) + 1, e[k])
      BY <2>3, <2>6, <3>1 DEF Readable
    <3>4. Means(arguments, aggregates, e[k], e[k])
      BY <3>1, WrittenMeans
    <3> QED
      BY <2>2, <2>3, <2>6, <3>2, <3>3, <3>4 DEF LeafOK
  <2> QED
    BY <1>1, <2>2, <2>3, <2>4, <2>5, <2>7 DEF Clausal
<1>5. CASE BeginSelect \/ BeginOrder
  <2>1. PICK kind \in {"select", "order"} : plan' = Append(plan, Make(kind, <<>>, <<>>))
    BY <1>5 DEF BeginSelect, BeginOrder
  <2> DEFINE o == Make(kind, <<>>, <<>>)
  <2>2. o \in Operator /\ o.values = <<>>
    <3>1. kind \in Kinds
      BY DEF Kinds
    <3>2. o \in Operator /\ o.values = <<>>
      BY <3>1, <1>2, <1>3
    <3> QED
      BY <3>2
  <2>3. plan' = Append(plan, o)
    BY <2>1
  <2>4. UNCHANGED <<arguments, aggregates, groupKeys>> /\ pc \in Clausal /\ pc' \in Clausal
    BY <1>5 DEF BeginSelect, BeginOrder, processor, Clausal
  <2> HIDE DEF o
  <2> QED
    BY <1>1, <1>3, <2>2, <2>3, <2>4
<1>6. ASSUME NEW kind \in {"distinct", "limit"}, NEW variables \in Seq(Variables),
             plan' = Append(plan, Make(kind, References(variables), <<>>)),
             UNCHANGED <<arguments, aggregates, groupKeys>>, pc \in Clausal, pc' \in Clausal,
             kind = "limit" => plan # <<>> /\ plan[Len(plan)].kind = "order"
                               /\ variables = plan[Len(plan)].columns
      PROVE  Leaves'
  <2> DEFINE o == Make(kind, References(variables), <<>>)
  <2>1. /\ References(variables) \in Seq(Value)
        /\ DOMAIN References(variables) = DOMAIN variables
        /\ \A j \in DOMAIN variables : References(variables)[j] = <<Reference(variables[j])>>
    BY Referenced
  <2>2. o \in Operator /\ o.kind = kind /\ o.values = References(variables) /\ o.written = o.values
    BY <1>2, <2>1 DEF Kinds
  <2>3. plan' = Append(plan, o)
    BY <1>6
  <2> HIDE DEF o
  <2>4. /\ Len(plan) \in Nat /\ DOMAIN plan = 1..Len(plan)
        /\ plan'[Len(plan) + 1] = o /\ \A i \in DOMAIN plan : plan'[i] = plan[i]
        /\ DOMAIN plan' = 1..(Len(plan) + 1)
    BY <2>2, <2>3, Appended
  <2>5. ASSUME NEW j \in DOMAIN variables, NEW k \in DOMAIN <<Reference(variables[j])>>
        PROVE  LeafOK(plan', pc', cursor', arguments, aggregates, groupKeys, Len(plan) + 1, j, k)
    <3> DEFINE l == Reference(variables[j])
    <3>1. k = 1 /\ l.kind = "column" /\ l.column = variables[j]
      BY DEF Reference
    <3>2. /\ plan'[Len(plan) + 1].values[j][k] = l
          /\ plan'[Len(plan) + 1].written[j][k] = l
      <4>1. o.values[j] = <<l>> /\ o.written[j] = <<l>>
        BY <2>1, <2>2
      <4> HIDE DEF l
      <4>2. <<l>>[1] = l
        OBVIOUS
      <4> QED
        BY <2>4, <3>1, <4>1, <4>2
    <3> HIDE DEF l
    <3>3. ~Pending(plan', pc', cursor', Len(plan) + 1, j, k)
      BY <1>6, <2>2, <2>4 DEF Pending, Clausal
    <3>4. Means(arguments, aggregates, l, l)
      BY <3>1, WrittenMeans
    <3>5. Readable(plan', aggregates, groupKeys, Len(plan) + 1, l)
      <4>1. kind = "limit" =>
               /\ (Len(plan) + 1) - 1 \in DOMAIN plan'
               /\ plan'[(Len(plan) + 1) - 1].kind = "order"
               /\ plan'[(Len(plan) + 1) - 1].columns = variables
        <5>1. SUFFICES ASSUME kind = "limit"
                       PROVE  /\ (Len(plan) + 1) - 1 \in DOMAIN plan'
                              /\ plan'[(Len(plan) + 1) - 1].kind = "order"
                              /\ plan'[(Len(plan) + 1) - 1].columns = variables
          OBVIOUS
        <5>2. (Len(plan) + 1) - 1 = Len(plan) /\ Len(plan) \in DOMAIN plan
          BY <1>6, <2>4, <5>1 DEF TypeOK
        <5> QED
          BY <1>6, <2>4, <5>1, <5>2
      <4> QED
        BY <2>2, <2>4, <3>1, <4>1 DEF Readable
    <3> QED
      BY <3>2, <3>3, <3>4, <3>5 DEF LeafOK
  <2>6. \A j \in DOMAIN o.values :
            /\ Len(o.values[j]) = Len(o.written[j])
            /\ \A k \in DOMAIN o.values[j] :
                  LeafOK(plan', pc', cursor', arguments, aggregates, groupKeys, Len(plan) + 1, j, k)
    BY <2>1, <2>2, <2>5
  <2> QED
    BY <1>1, <1>6, <2>2, <2>3, <2>6
<1>7. CASE Distinct
  <2>1. /\ plan' = Append(plan, Make("distinct", References(info), <<>>))
        /\ UNCHANGED <<arguments, aggregates, groupKeys>> /\ pc \in Clausal /\ pc' \in Clausal
        /\ info \in Seq(Variables)
    BY <1>7 DEF Distinct, processor, Clausal, TypeOK
  <2> QED
    BY <1>6, <2>1
<1>8. CASE EndOrder
  <2>1. /\ plan' = Append(plan, Make("limit", References(plan[Len(plan)].columns), <<>>))
        /\ UNCHANGED <<arguments, aggregates, groupKeys>> /\ pc \in Clausal /\ pc' \in Clausal
        /\ pc = "sort"
    BY <1>8 DEF EndOrder, processor, Clausal
  <2>2. plan # <<>> /\ plan[Len(plan)].kind = "order"
    BY <2>1 DEF Shape, LastIs
  <2>3. plan[Len(plan)].columns \in Seq(Variables)
    <3>1. plan[Len(plan)] \in Operator
      BY <2>2 DEF TypeOK
    <3> QED
      BY <3>1 DEF Operator
  <2> QED
    BY <1>6, <2>1, <2>2, <2>3
<1>9. CASE Having
  <2>1. PICK e \in Expressions : plan' = Append(plan, Make("having", <<e>>, <<>>))
    BY <1>9 DEF Having
  <2>2. /\ e \in Value /\ <<e>> \in Seq(Value) /\ DOMAIN <<e>> = {1} /\ <<e>>[1] = e
        /\ \A i \in DOMAIN e : e[i] \in Leaf /\ Original(e[i])
    BY Analysed
  <2> DEFINE o == Make("having", <<e>>, <<>>)
  <2>3. o \in Operator /\ o.kind = "having" /\ o.values = <<e>> /\ o.written = <<e>>
    BY <1>2, <2>2 DEF Kinds
  <2>4. plan' = Append(plan, o) /\ plan \in Seq(Operator)
    BY <2>1 DEF TypeOK
  <2>5. /\ UNCHANGED <<arguments, aggregates, groupKeys>> /\ pc = "having" /\ pc' = "process"
        /\ cursor' = [operator |-> Len(plan'), value |-> 1, leaf |-> 1]
    BY <1>9 DEF Having
  <2> HIDE DEF o
  <2>6. /\ Len(plan) \in Nat /\ DOMAIN plan = 1..Len(plan) /\ Len(plan') = Len(plan) + 1
        /\ plan'[Len(plan) + 1] = o /\ \A i \in DOMAIN plan : plan'[i] = plan[i]
    BY <2>3, <2>4, Appended
  <2>7. cursor'.operator = Len(plan) + 1 /\ cursor'.value = 1 /\ cursor'.leaf = 1
    BY <2>5, <2>6
  <2>8. ASSUME NEW k \in DOMAIN e
        PROVE  LeafOK(plan', pc', cursor', arguments, aggregates, groupKeys, Len(plan) + 1, 1, k)
    <3>1. k \in Nat /\ k >= 1
      BY <2>2 DEF Value
    <3>2. Pending(plan', pc', cursor', Len(plan) + 1, 1, k)
      BY <2>3, <2>5, <2>6, <2>7, <3>1 DEF Pending, Ahead
    <3> QED
      BY <2>2, <2>3, <2>6, <3>2 DEF LeafOK
  <2>9. ASSUME NEW i \in DOMAIN plan, NEW j, NEW k
        PROVE  Pending(plan', pc', cursor', i, j, k) <=> Pending(plan, pc, cursor, i, j, k)
    <3>1. plan[i].kind \notin {"having", "select", "order"}
      <4>1. Placed(plan, 1)
        BY <2>5 DEF Shape, Reached
      <4> QED
        BY <4>1, KindOf, RankOf DEF Placed
    <3> QED
      BY <2>5, <2>6, <3>1 DEF Pending
  <2>10. LeavesIn(plan', pc', cursor', arguments, aggregates, groupKeys)
    <3>1. LeavesIn(plan, pc, cursor, arguments, aggregates, groupKeys)
      BY DEF Leaves
    <3> QED
      BY <2>2, <2>3, <2>4, <2>8, <2>9, <3>1, LeavesAppended
  <2> QED
    BY <2>5, <2>10 DEF Leaves
<1> QED
  BY <1>4, <1>5, <1>7, <1>8, <1>9

LEMMA LeavesOfColumns ==
    ASSUME TypeOK, Leaves, Shape, Select \/ SortKey
    PROVE  Leaves'
<1>1. PICK e \in Expressions : AddColumn(e)
  BY DEF Select, SortKey
<1>2. /\ pc \in {"elements", "sort"} /\ pc' = pc
      /\ UNCHANGED <<arguments, aggregates, groupKeys, cursor>>
  BY DEF Select, SortKey
<1>3. plan # <<>> /\ plan[Len(plan)].kind \in {"select", "order"}
  BY <1>2 DEF Shape, LastIs
<1>4. e \in Value /\ \A k \in DOMAIN e : Original(e[k])
  BY Analysed
<1> DEFINE n == Len(plan)
           m == Len(plan[n].values)
<1>5. /\ n \in Nat \ {0} /\ DOMAIN plan = 1..n /\ DOMAIN plan' = 1..n
      /\ \A i \in DOMAIN plan : i # n => plan'[i] = plan[i]
      /\ plan[n] \in Operator /\ plan'[n].kind = plan[n].kind
      /\ plan'[n].values = Append(plan[n].values, e)
      /\ plan'[n].written = Append(plan[n].written, e)
      /\ plan'[n].columns = Append(plan[n].columns, fresh + 1)
  BY <1>1, <1>3, <1>4, Widened
<1>6. Len(plan[n].written) = m /\ n \in DOMAIN plan
  BY <1>5 DEF Shape, Placed
<1>7. /\ m \in Nat /\ DOMAIN plan[n].values = 1..m /\ DOMAIN plan'[n].values = 1..(m + 1)
      /\ \A j \in 1..m : /\ plan'[n].values[j] = plan[n].values[j]
                         /\ plan'[n].written[j] = plan[n].written[j]
      /\ plan'[n].values[m + 1] = e /\ plan'[n].written[m + 1] = e
      /\ Grown(plan[n].columns, plan'[n].columns)
  <2>1. plan[n].values \in Seq(Value) /\ plan[n].written \in Seq(Value)
        /\ plan[n].columns \in Seq(Variables)
    BY <1>5 DEF Operator
  <2> DEFINE vs == plan[n].values
             ws == plan[n].written
             cs == plan[n].columns
  <2>2. /\ vs \in Seq(Value) /\ ws \in Seq(Value) /\ cs \in Seq(Variables)
        /\ Len(vs) = m /\ Len(ws) = m
        /\ plan'[n].values = Append(vs, e) /\ plan'[n].written = Append(ws, e)
        /\ plan'[n].columns = Append(cs, fresh + 1)
    BY <1>5, <1>6, <2>1
  <2> HIDE DEF vs, ws, cs, m
  <2>3. /\ m \in Nat /\ DOMAIN vs = 1..m /\ DOMAIN Append(vs, e) = 1..(m + 1)
        /\ \A j \in 1..m : Append(vs, e)[j] = vs[j] /\ Append(ws, e)[j] = ws[j]
        /\ Append(vs, e)[m + 1] = e /\ Append(ws, e)[m + 1] = e
    BY <2>2
  <2>4. Grown(cs, Append(cs, fresh + 1))
    BY <2>2 DEF Grown
  <2> QED
    BY <2>2, <2>3, <2>4 DEF vs, ws, cs
<1> HIDE DEF n, m
<1>8. /\ Continued(plan, plan') /\ Grown(arguments, arguments') /\ Grown(aggregates, aggregates')
      /\ Grown(groupKeys, groupKeys')
  <2>1. ASSUME NEW h \in DOMAIN plan
        PROVE  /\ h \in DOMAIN plan' /\ plan'[h].kind = plan[h].kind
               /\ Grown(plan[h].columns, plan'[h].columns)
    <3>1. CASE h = n
      BY <1>5, <1>7, <3>1
    <3>2. CASE h # n
      BY <1>5, <3>2, GrownSame
    <3> QED
      BY <3>1, <3>2
  <2> QED
    BY <1>2, <2>1, GrownSame DEF Continued
<1>9. ASSUME NEW i \in DOMAIN plan, NEW j \in DOMAIN plan[i].values,
             plan'[i].values[j] = plan[i].values[j], plan'[i].written[j] = plan[i].written[j]
      PROVE  /\ Len(plan'[i].values[j]) = Len(plan'[i].written[j])
             /\ \A k \in DOMAIN plan'[i].values[j] :
                   LeafOK(plan', pc', cursor', arguments', aggregates', groupKeys', i, j, k)
  <2>1. Len(plan'[i].values[j]) = Len(plan'[i].written[j])
    BY <1>9 DEF Leaves, LeavesIn
  <2>2. ASSUME NEW k \in DOMAIN plan[i].values[j]
        PROVE  LeafOK(plan', pc', cursor', arguments', aggregates', groupKeys', i, j, k)
    <3>1. LeafOK(plan, pc, cursor, arguments, aggregates, groupKeys, i, j, k)
      BY DEF Leaves, LeavesIn
    <3>2. Pending(plan', pc', cursor', i, j, k) <=> Pending(plan, pc, cursor, i, j, k)
      BY <1>2, <1>8 DEF Pending, Clausal, Continued
    <3>3. /\ plan'[i].values[j][k] = plan[i].values[j][k]
          /\ plan'[i].written[j][k] = plan[i].written[j][k]
      BY <1>9
    <3> QED
      BY <1>8, <3>1, <3>2, <3>3, LeafStays
  <2> QED
    BY <1>9, <2>1, <2>2
<1>10. ASSUME NEW i \in DOMAIN plan', NEW j \in DOMAIN plan'[i].values
       PROVE  /\ Len(plan'[i].values[j]) = Len(plan'[i].written[j])
              /\ \A k \in DOMAIN plan'[i].values[j] :
                   LeafOK(plan', pc', cursor', arguments', aggregates', groupKeys', i, j, k)
  <2>1. CASE i # n
    <3>1. i \in DOMAIN plan /\ plan'[i] = plan[i]
      BY <1>5, <2>1
    <3> QED
      BY <1>9, <3>1
  <2>2. CASE i = n /\ j \in 1..m
    BY <1>6, <1>7, <1>9, <2>2
  <2>3. CASE i = n /\ j = m + 1
    <3>1. plan'[i].values[j] = e /\ plan'[i].written[j] = e
      BY <1>7, <2>3
    <3>2. ASSUME NEW k \in DOMAIN e
          PROVE  LeafOK(plan', pc', cursor', arguments', aggregates', groupKeys', i, j, k)
      <4>1. Pending(plan', pc', cursor', i, j, k)
        BY <1>2, <1>3, <1>5, <2>3 DEF Pending, Clausal, n
      <4>2. Original(e[k])
        BY <1>4
      <4> QED
        BY <3>1, <4>1, <4>2 DEF LeafOK
    <3> QED
      BY <3>1, <3>2
  <2> QED
    BY <1>7, <2>1, <2>2, <2>3
<1> QED
  BY <1>10 DEF Leaves, LeavesIn

(* The processing begins: all of SELECT and ORDER BY is still to come.     *)
LEMMA LeavesOfLimit ==
    ASSUME TypeOK, Leaves, Shape, Limit \/ NoLimit, Working'
    PROVE  Leaves'
<1>1. /\ plan' \in Seq(Operator) /\ pc = "limit" /\ pc' = "process"
      /\ \/ plan' = plan
         \/ plan' = Append(plan, Make("limit", <<>>, <<>>))
      /\ cursor'.operator \in DOMAIN plan'
      /\ plan'[cursor'.operator].kind = "select"
      /\ cursor'.value = 1 /\ cursor'.leaf = 1
      /\ UNCHANGED <<arguments, aggregates, groupKeys>>
  BY Limited DEF Working, processor
<1>2. Placed(plan', 8)
  <2>1. Shape'
    BY ShapeOfLimit
  <2> QED
    BY <1>1, <2>1 DEF Shape, Reached
<1>3. ASSUME NEW i \in DOMAIN plan, NEW j \in DOMAIN plan[i].values,
             NEW k \in DOMAIN plan[i].values[j]
      PROVE  Pending(plan', pc', cursor', i, j, k) <=> Pending(plan, pc, cursor, i, j, k)
  <2> DEFINE s == cursor'.operator
  <2>1. /\ i \in DOMAIN plan' /\ plan'[i] = plan[i] /\ i \in Nat /\ s \in Nat
        /\ j \in Nat /\ j >= 1 /\ k \in Nat /\ k >= 1
    <3>1. plan \in Seq(Operator) /\ plan[i] \in Operator
      BY DEF TypeOK
    <3>2. plan[i].values \in Seq(Value)
      BY <3>1 DEF Operator
    <3>3. plan[i].values[j] \in Seq(Leaf)
      BY <3>2 DEF Value
    <3>4. i \in DOMAIN plan' /\ plan'[i] = plan[i]
      BY <1>1, <3>1
    <3>5. i \in Nat /\ s \in Nat
      BY <1>1, <3>1
    <3>6. j \in Nat /\ j >= 1 /\ k \in Nat /\ k >= 1
      BY <3>2, <3>3
    <3> QED
      BY <3>4, <3>5, <3>6
  <2>2. s \in DOMAIN plan' /\ plan'[s].kind = "select"
    BY <1>1
  <2> HIDE DEF s
  <2>3. Rank(plan'[s]) = 5
    <3>1. plan'[s] \in Operator
      BY <1>1, <2>2
    <3> QED
      BY <2>2, <3>1, RankOf DEF Operator
  <2>4. CASE plan[i].kind = "having"
    <3>1. Rank(plan'[i]) = 4
      BY <1>1, <2>1, <2>4, RankOf DEF Kinds
    <3>2. ~(s < i) /\ s # i
      BY <1>2, <2>1, <2>2, <2>3, <3>1 DEF Placed, Ordered
    <3> QED
      BY <1>1, <2>1, <2>4, <3>2 DEF Pending, Ahead, Clausal, s
  <2>5. CASE plan[i].kind \in {"select", "order"}
    <3>1. Rank(plan'[i]) \in {5, 7}
      BY <1>1, <2>1, <2>5, RankOf DEF Kinds
    <3>2. ~(i < s)
      BY <1>2, <2>1, <2>2, <2>3, <3>1 DEF Placed, Ordered
    <3>3. Ahead(cursor', i, j, k)
      BY <1>1, <2>1, <3>2 DEF Ahead, s
    <3> QED
      BY <1>1, <2>1, <2>5, <3>3 DEF Pending, Clausal
  <2>6. CASE plan[i].kind \notin {"having", "select", "order"}
    BY <2>1, <2>6 DEF Pending
  <2> QED
    BY <2>4, <2>5, <2>6
<1>4. LeavesIn(plan, pc, cursor, arguments, aggregates, groupKeys)
  BY DEF Leaves
<1>5. CASE plan' = plan
  <2>1. LeavesIn(plan, pc', cursor', arguments, aggregates, groupKeys)
    BY <1>3, <1>4, <1>5, LeavesSame, GrownSame
  <2> QED
    BY <1>1, <1>5, <2>1 DEF Leaves
<1>6. CASE plan' = Append(plan, Make("limit", <<>>, <<>>))
  <2> DEFINE o == Make("limit", <<>>, <<>>)
  <2>1. o \in Operator /\ o.values = <<>>
    <3>1. <<>> \in Seq(Value)
      OBVIOUS
    <3> QED
      BY <3>1, Added DEF Kinds, Make
  <2>2. plan' = Append(plan, o) /\ plan \in Seq(Operator) /\ DOMAIN o.values = {}
    BY <1>6, <2>1 DEF TypeOK
  <2> HIDE DEF o
  <2>3. LeavesIn(Append(plan, o), pc', cursor', arguments, aggregates, groupKeys)
    BY <1>3, <1>4, <2>1, <2>2, LeavesAppended
  <2> QED
    BY <1>1, <2>2, <2>3 DEF Leaves
<1> QED
  BY <1>1, <1>5, <1>6

-----------------------------------------------------------------------------
(* The leaves when the engine moves.                                       *)

LEMMA PlaceByRank ==
    ASSUME TypeOK, Ordered(plan), NEW i \in DOMAIN plan, NEW k \in DOMAIN plan
    PROVE  /\ i \in Nat /\ k \in Nat
           /\ i < k <=> Rank(plan[i]) < Rank(plan[k])
           /\ i = k <=> Rank(plan[i]) = Rank(plan[k])
<1>1. i \in Nat /\ k \in Nat /\ Rank(plan[i]) \in Nat /\ Rank(plan[k]) \in Nat
  BY KindOf
<1>2. i < k => Rank(plan[i]) < Rank(plan[k])
  BY DEF Ordered
<1>3. k < i => Rank(plan[k]) < Rank(plan[i])
  BY DEF Ordered
<1> QED
  BY <1>1, <1>2, <1>3

LEMMA LeafPlace ==
    ASSUME TypeOK, NEW i \in DOMAIN plan, NEW j \in DOMAIN plan[i].values,
           NEW k \in DOMAIN plan[i].values[j]
    PROVE  /\ i \in Nat /\ j \in 1..Len(plan[i].values) /\ k \in 1..Len(plan[i].values[j])
           /\ Len(plan[i].values) \in Nat /\ Len(plan[i].values[j]) \in Nat
           /\ plan[i].values[j][k] \in Leaf
<1>1. plan \in Seq(Operator) /\ plan[i] \in Operator
  BY DEF TypeOK
<1>2. plan[i].values \in Seq(Value)
  BY <1>1 DEF Operator
<1>3. plan[i].values[j] \in Seq(Leaf)
  BY <1>2 DEF Value
<1> QED
  BY <1>1, <1>2, <1>3

(* A leaf that was pending and is visited now, or was not and is not.      *)
LEMMA LeafVisited ==
    ASSUME TypeOK, pc = "process", Shape, NEW i \in DOMAIN plan, NEW j \in DOMAIN plan[i].values,
           NEW k \in DOMAIN plan[i].values[j],
           NEW c, c.operator = cursor.operator, c.value = cursor.value, c.leaf = cursor.leaf + 1
    PROVE  /\ (i = cursor.operator /\ j = cursor.value /\ k = cursor.leaf) =>
                 Pending(plan, "process", cursor, i, j, k) /\ ~Pending(plan, "process", c, i, j, k)
           /\ ~(i = cursor.operator /\ j = cursor.value /\ k = cursor.leaf) =>
                 (Pending(plan, "process", c, i, j, k)
                      <=> Pending(plan, "process", cursor, i, j, k))
<1>1. /\ i \in Nat /\ j \in Nat /\ k \in Nat
      /\ cursor.operator \in Nat /\ cursor.value \in Nat /\ cursor.leaf \in Nat
  BY LeafPlace DEF TypeOK
<1>2. plan[cursor.operator].kind \in {"having", "select", "order"}
  BY DEF Shape, CursorOK, Current
<1>3. (i = cursor.operator /\ j = cursor.value /\ k = cursor.leaf) =>
          Ahead(cursor, i, j, k) /\ ~Ahead(c, i, j, k)
  BY <1>1 DEF Ahead
<1>4. ~(i = cursor.operator /\ j = cursor.value /\ k = cursor.leaf) =>
          (Ahead(c, i, j, k) <=> Ahead(cursor, i, j, k))
  BY <1>1 DEF Ahead
<1> QED
  BY <1>2, <1>3, <1>4 DEF Pending, Clausal

LEMMA LeavesOfKeep ==
    ASSUME TypeOK, Leaves, Shape, KeepColumn
    PROVE  Leaves'
<1>1. /\ AtLeaf /\ ThisLeaf.kind = "column" /\ Visible(ThisLeaf.column)
      /\ cursor' = [cursor EXCEPT !.leaf = cursor.leaf + 1]
      /\ plan' = plan /\ pc = "process" /\ pc' = pc
      /\ UNCHANGED <<arguments, aggregates, groupKeys>>
  BY DEF KeepColumn, AtColumn, AtLeaf, NextLeaf, Built, processor
<1>2. /\ cursor'.operator = cursor.operator /\ cursor'.value = cursor.value
      /\ cursor'.leaf = cursor.leaf + 1
  BY <1>1 DEF TypeOK
<1>3. cursor.operator \in DOMAIN plan /\ plan[cursor.operator].kind \in {"having", "select", "order"}
  BY <1>1 DEF Shape, CursorOK, Current
<1> SUFFICES ASSUME NEW i \in DOMAIN plan, NEW j \in DOMAIN plan[i].values,
                    NEW k \in DOMAIN plan[i].values[j]
             PROVE  LeafOK(plan, pc', cursor', arguments, aggregates, groupKeys, i, j, k)
  BY <1>1 DEF Leaves, LeavesIn
<1>4. LeafOK(plan, pc, cursor, arguments, aggregates, groupKeys, i, j, k)
  BY DEF Leaves, LeavesIn
<1>5. CASE i = cursor.operator /\ j = cursor.value /\ k = cursor.leaf
  <2> DEFINE l == plan[i].values[j][k]
  <2>1. Pending(plan, pc, cursor, i, j, k) /\ ~Pending(plan, pc', cursor', i, j, k)
    BY <1>1, <1>2, <1>5, LeafVisited
  <2>2. l = plan[i].written[j][k] /\ Original(l)
    BY <1>4, <2>1 DEF LeafOK
  <2>3. l = ThisLeaf
    BY <1>5 DEF ThisLeaf, Current
  <2>4. l.kind = "column" /\ l.column \in Columns /\ Visible(l.column)
    BY <1>1, <2>2, <2>3 DEF Original
  <2>5. l.column \notin aggregated
    BY <2>4, ColumnsAssumption DEF TypeOK, Created
  <2>6. \E m \in DOMAIN groupKeys : groupKeys[m] = l.column
    BY <2>4, <2>5 DEF Visible
  <2>7. Readable(plan, aggregates, groupKeys, i, l)
    BY <1>3, <1>5, <2>4, <2>6 DEF Readable
  <2>8. Means(arguments, aggregates, l, l)
    BY <2>4, WrittenMeans
  <2> QED
    BY <2>1, <2>2, <2>7, <2>8 DEF LeafOK
<1>6. CASE ~(i = cursor.operator /\ j = cursor.value /\ k = cursor.leaf)
  <2>1. Pending(plan, pc', cursor', i, j, k) <=> Pending(plan, pc, cursor, i, j, k)
    BY <1>1, <1>2, <1>6, LeafVisited
  <2> QED
    BY <1>4, <2>1 DEF LeafOK
<1> QED
  BY <1>5, <1>6

LEMMA LeavesOfEnds ==
    ASSUME TypeOK, Leaves, Shape, EndValue \/ EndOperator
    PROVE  Leaves'
<1>1. /\ plan' = plan /\ pc = "process" /\ UNCHANGED <<arguments, aggregates, groupKeys>>
      /\ cursor.operator \in Nat /\ cursor.value \in Nat /\ cursor.leaf \in Nat
      /\ cursor.operator \in DOMAIN plan
      /\ plan[cursor.operator].kind \in {"having", "select", "order"}
      /\ Ordered(plan)
  BY DEF EndValue, EndOperator, Built, processor, Shape, CursorOK, Current, Placed, TypeOK
<1> SUFFICES ASSUME NEW i \in DOMAIN plan, NEW j \in DOMAIN plan[i].values,
                    NEW k \in DOMAIN plan[i].values[j]
             PROVE  Pending(plan, pc', cursor', i, j, k) <=> Pending(plan, pc, cursor, i, j, k)
  <2>1. LeavesIn(plan, pc, cursor, arguments, aggregates, groupKeys)
    BY DEF Leaves
  <2>2. LeavesIn(plan, pc', cursor', arguments, aggregates, groupKeys)
    BY <2>1, LeavesSame, GrownSame
  <2> QED
    BY <1>1, <2>2 DEF Leaves
<1>2. /\ i \in Nat /\ j \in Nat /\ j >= 1 /\ j <= Len(plan[i].values)
      /\ k \in Nat /\ k >= 1 /\ k <= Len(plan[i].values[j])
      /\ Len(plan[i].values) \in Nat /\ Len(plan[i].values[j]) \in Nat
  BY LeafPlace
<1>3. CASE EndValue
  <2>1. /\ cursor' = [cursor EXCEPT !.value = cursor.value + 1, !.leaf = 1] /\ pc' = pc
        /\ cursor.leaf > Len(plan[cursor.operator].values[cursor.value])
    BY <1>3 DEF EndValue, Current
  <2>2. /\ cursor'.operator = cursor.operator /\ cursor'.value = cursor.value + 1
        /\ cursor'.leaf = 1
    BY <2>1 DEF TypeOK
  <2>3. Ahead(cursor', i, j, k) <=> Ahead(cursor, i, j, k)
    <3>1. cursor.operator = i /\ cursor.value = j => ~(cursor.leaf <= k)
      BY <1>1, <1>2, <2>1
    <3>2. Ahead(cursor, i, j, k) <=> \/ cursor.operator < i
                                     \/ cursor.operator = i /\ cursor.value + 1 <= j
      BY <1>1, <1>2, <3>1 DEF Ahead
    <3>3. Ahead(cursor', i, j, k) <=> \/ cursor.operator < i
                                      \/ cursor.operator = i /\ cursor.value + 1 <= j
      BY <1>1, <1>2, <2>2 DEF Ahead
    <3> QED
      BY <3>2, <3>3
  <2> QED
    BY <1>1, <2>1, <2>3 DEF Pending, Clausal
<1>4. CASE EndOperator
  <2> DEFINE o == cursor.operator
             kind == plan[o].kind
  <2>1. /\ cursor.value > Len(plan[o].values)
        /\ kind = "having" => pc' = "select"
        /\ (kind = "select" /\ Positions("order") # {}) =>
              /\ pc' = "process" /\ cursor'.operator \in Positions("order")
              /\ cursor'.value = 1 /\ cursor'.leaf = 1
        /\ (kind = "order" \/ (kind = "select" /\ Positions("order") = {})) => pc' = "install"
    BY <1>4, Advanced DEF Current
  <2>2. o \in Nat /\ o \in DOMAIN plan /\ kind \in {"having", "select", "order"}
    BY <1>1
  <2>3. /\ i < o <=> Rank(plan[i]) < Rank(plan[o])
        /\ i = o <=> Rank(plan[i]) = Rank(plan[o])
    BY <1>1, <2>2, PlaceByRank
  <2>4. /\ kind = "having" => Rank(plan[o]) = 4
        /\ kind = "select" => Rank(plan[o]) = 5
        /\ kind = "order" => Rank(plan[o]) = 7
    BY <2>2, RankOf DEF Kinds
  <2>5. /\ plan[i].kind = "having" => Rank(plan[i]) = 4
        /\ plan[i].kind = "select" => Rank(plan[i]) = 5
        /\ plan[i].kind = "order" => Rank(plan[i]) = 7
    BY RankOf DEF Kinds
  <2> HIDE DEF kind, o
  <2>6. i = o => ~Ahead(cursor, i, j, k)
    BY <1>1, <1>2, <2>1 DEF Ahead, o
  <2>7. i < o => ~Ahead(cursor, i, j, k)
    BY <1>1, <1>2 DEF Ahead, o
  <2>8. o < i => Ahead(cursor, i, j, k)
    BY DEF Ahead, o
  <2>9. CASE kind = "having"
    <3>1. pc' = "select" /\ Shape'
      BY <1>4, <2>1, <2>9, ShapeOfProcessing
    <3>2. Placed(plan, 4)
      BY <1>1, <3>1 DEF Shape, Reached
    <3>3. Rank(plan[i]) <= 4
      BY <3>2 DEF Placed
    <3>4. plan[i].kind \notin {"select", "order"}
      BY <2>5, <3>3
    <3>5. plan[i].kind = "having" => i = o
      BY <2>3, <2>4, <2>5, <2>9
    <3> QED
      BY <1>1, <2>6, <3>1, <3>4, <3>5 DEF Pending, Clausal
  <2>10. CASE kind = "select" /\ Positions("order") # {}
    <3> DEFINE q == cursor'.operator
    <3>1. /\ pc' = "process" /\ q \in DOMAIN plan /\ plan[q].kind = "order"
          /\ cursor'.value = 1 /\ cursor'.leaf = 1
      BY <2>1, <2>10 DEF Positions
    <3>2. Rank(plan[q]) = 7
      BY <3>1, RankOf DEF Kinds
    <3>3. /\ q \in Nat
          /\ i < q <=> Rank(plan[i]) < Rank(plan[q])
          /\ i = q <=> Rank(plan[i]) = Rank(plan[q])
      BY <1>1, <3>1, PlaceByRank
    <3> HIDE DEF q
    <3>4. CASE plan[i].kind \in {"having", "select"}
      <4>1. i < o \/ i = o
        BY <2>3, <2>4, <2>5, <2>10, <3>4
      <4>2. i < q
        BY <2>5, <3>2, <3>3, <3>4
      <4>3. ~Ahead(cursor', i, j, k)
        BY <1>2, <3>3, <4>2 DEF Ahead, q
      <4> QED
        BY <1>1, <2>6, <2>7, <3>1, <3>4, <4>1, <4>3 DEF Pending, Clausal
    <3>5. CASE plan[i].kind = "order"
      <4>1. o < i /\ i = q
        BY <1>2, <2>2, <2>3, <2>4, <2>5, <2>10, <3>2, <3>3, <3>5
      <4>2. Ahead(cursor', i, j, k)
        BY <1>2, <3>1, <4>1 DEF Ahead, q
      <4> QED
        BY <1>1, <2>8, <3>1, <3>5, <4>1, <4>2 DEF Pending, Clausal
    <3>6. CASE plan[i].kind \notin {"having", "select", "order"}
      BY <3>6 DEF Pending
    <3> QED
      BY <3>4, <3>5, <3>6
  <2>11. CASE kind = "order" \/ (kind = "select" /\ Positions("order") = {})
    <3>1. pc' = "install"
      BY <2>1, <2>11
    <3>2. plan[i].kind \in {"having", "select", "order"} => i < o \/ i = o
      BY <2>3, <2>4, <2>5, <2>11 DEF Positions
    <3> QED
      BY <1>1, <2>6, <2>7, <3>1, <3>2 DEF Pending, Clausal
  <2> QED
    BY <2>2, <2>9, <2>10, <2>11 DEF kind
<1> QED
  BY <1>3, <1>4

(* A call is answered: its place is taken by the variable of a function    *)
(* over the variables of its arguments.                                    *)
LEMMA MeansAnswer ==
    ASSUME TypeOK, NEW c, NEW v, Answer(c, v)
    PROVE  /\ Means(arguments', aggregates', Reference(v), c)
           /\ Grown(arguments, arguments') /\ Grown(aggregates, aggregates')
<1> DEFINE m == Len(arguments)
           n == Len(c.arguments)
<1>1. /\ c \in Leaf /\ c.kind = "call" /\ arguments' = WithArguments(c) /\ ~Nested(c)
  BY DEF Answer
<1>2. PICK a \in DOMAIN aggregates' :
          /\ aggregates'[a].column = v
          /\ aggregates'[a].function = c.function
          /\ aggregates'[a].arguments = Replacements(c)
  BY DEF Answer
<1>3. /\ m \in Nat /\ n \in Nat /\ DOMAIN arguments = 1..m /\ DOMAIN c.arguments = 1..n
      /\ Len(Replacements(c)) = n
      /\ \A i \in 1..n : Replacements(c)[i] = fresh + i
      /\ DOMAIN WithArguments(c) = 1..(m + n)
      /\ \A i \in 1..m : WithArguments(c)[i] = arguments[i]
      /\ \A i \in 1..n : WithArguments(c)[m + i] = [value |-> c.arguments[i], column |-> fresh + i]
  BY <1>1, MoreArguments
<1> HIDE DEF m, n
<1>4. \A i \in DOMAIN c.arguments : ~c.arguments[i].nested
  BY <1>1 DEF Nested
<1>5. ASSUME NEW i \in DOMAIN c.arguments
      PROVE  \E b \in DOMAIN arguments' : /\ arguments'[b].column = aggregates'[a].arguments[i]
                                         /\ arguments'[b].value = c.arguments[i]
  <2>1. m + i \in DOMAIN arguments'
    BY <1>1, <1>3
  <2>2. arguments'[m + i] = [value |-> c.arguments[i], column |-> fresh + i]
    BY <1>1, <1>3
  <2>3. aggregates'[a].arguments[i] = fresh + i
    BY <1>2, <1>3
  <2> QED
    BY <2>1, <2>2, <2>3
<1>6. Means(arguments', aggregates', Reference(v), c)
  BY <1>1, <1>2, <1>3, <1>4, <1>5 DEF Means, n
<1>7. Grown(arguments, arguments')
  BY <1>1, <1>3 DEF Grown
<1>8. Grown(aggregates, aggregates')
  BY DEF Answer, Grown
<1> QED
  BY <1>6, <1>7, <1>8

LEMMA LeavesOfAnswer ==
    ASSUME TypeOK, Leaves, Shape, NEW v, Answer(ThisLeaf, v)
    PROVE  Leaves'
<1>1. /\ AtLeaf /\ cursor.operator \in DOMAIN plan /\ v \in Created /\ v \in Variables
      /\ ReplaceLeaf(v)
      /\ cursor' = [cursor EXCEPT !.leaf = cursor.leaf + 1]
      /\ pc = "process" /\ pc' = pc /\ groupKeys' = groupKeys
      /\ \E m \in DOMAIN aggregates' : aggregates'[m].column = v
  BY DEF Answer, AtCall, NextLeaf, Variables
<1>2. /\ cursor'.operator = cursor.operator /\ cursor'.value = cursor.value
      /\ cursor'.leaf = cursor.leaf + 1
  BY <1>1 DEF TypeOK
<1>3. plan[cursor.operator].kind \in {"having", "select", "order"}
  BY <1>1 DEF Shape, CursorOK, Current
<1>4. /\ Means(arguments', aggregates', Reference(v), ThisLeaf)
      /\ Grown(arguments, arguments') /\ Grown(aggregates, aggregates')
      /\ Grown(groupKeys, groupKeys')
  BY <1>1, MeansAnswer, GrownSame
<1>5. /\ DOMAIN plan' = DOMAIN plan
      /\ \A i \in DOMAIN plan :
            /\ plan'[i].kind = plan[i].kind
            /\ plan'[i].written = plan[i].written
            /\ plan'[i].columns = plan[i].columns
            /\ DOMAIN plan'[i].values = DOMAIN plan[i].values
            /\ \A j \in DOMAIN plan[i].values :
                  /\ Len(plan'[i].values[j]) = Len(plan[i].values[j])
                  /\ DOMAIN plan'[i].values[j] = DOMAIN plan[i].values[j]
                  /\ \A k \in DOMAIN plan[i].values[j] :
                        plan'[i].values[j][k] =
                            IF i = cursor.operator /\ j = cursor.value /\ k = cursor.leaf
                            THEN Reference(v) ELSE plan[i].values[j][k]
  BY <1>1, Replaced
<1>6. Continued(plan, plan')
  BY <1>5, GrownSame DEF Continued
<1>7. ASSUME NEW i \in DOMAIN plan, NEW j \in DOMAIN plan[i].values,
             NEW k \in DOMAIN plan[i].values[j]
      PROVE  LeafOK(plan', pc', cursor', arguments', aggregates', groupKeys', i, j, k)
  <2>1. LeafOK(plan, pc, cursor, arguments, aggregates, groupKeys, i, j, k)
    BY DEF Leaves, LeavesIn
  <2>2. \A s, c, x, y, z : Pending(plan', s, c, i, y, z) <=> Pending(plan, s, c, i, y, z)
    BY <1>5 DEF Pending
  <2>3. CASE i = cursor.operator /\ j = cursor.value /\ k = cursor.leaf
    <3>1. Pending(plan, pc, cursor, i, j, k) /\ ~Pending(plan, pc', cursor', i, j, k)
      BY <1>1, <1>2, <2>3, LeafVisited
    <3>2. /\ plan[i].values[j][k] = plan[i].written[j][k]
          /\ plan[i].values[j][k] = ThisLeaf
      BY <2>1, <2>3, <3>1 DEF LeafOK, ThisLeaf, Current
    <3>3. plan'[i].values[j][k] = Reference(v) /\ plan'[i].written[j][k] = ThisLeaf
      BY <1>5, <2>3, <3>2
    <3>4. Readable(plan', aggregates', groupKeys', i, Reference(v))
      <4>1. plan'[i].kind \in {"having", "select", "order"}
        BY <1>3, <1>5, <2>3
      <4> QED
        BY <1>1, <4>1 DEF Readable, Reference
    <3>5. ~Pending(plan', pc', cursor', i, j, k)
      BY <2>2, <3>1
    <3> QED
      BY <1>4, <3>3, <3>4, <3>5 DEF LeafOK
  <2>4. CASE ~(i = cursor.operator /\ j = cursor.value /\ k = cursor.leaf)
    <3>1. Pending(plan, pc', cursor', i, j, k) <=> Pending(plan, pc, cursor, i, j, k)
      BY <1>1, <1>2, <2>4, LeafVisited
    <3>2. /\ plan'[i].values[j][k] = plan[i].values[j][k]
          /\ plan'[i].written[j][k] = plan[i].written[j][k]
          /\ Pending(plan', pc', cursor', i, j, k) <=> Pending(plan, pc, cursor, i, j, k)
      BY <1>5, <2>2, <2>4, <3>1
    <3> QED
      BY <1>4, <1>6, <2>1, <3>2, LeafStays
  <2> QED
    BY <2>3, <2>4
<1>8. ASSUME NEW i \in DOMAIN plan, NEW j \in DOMAIN plan[i].values
      PROVE  Len(plan'[i].values[j]) = Len(plan'[i].written[j])
  <2>1. Len(plan[i].values[j]) = Len(plan[i].written[j])
    BY DEF Leaves, LeavesIn
  <2> QED
    BY <1>5, <2>1
<1> QED
  BY <1>5, <1>7, <1>8 DEF Leaves, LeavesIn

LEMMA AllLeaves ==
    ASSUME TypeOK, Working => Shape /\ Leaves, [Next]_vars, Working'
    PROVE  Leaves'
<1> USE DEF Goto
<1>1. ~ \/ RejectWhere \/ RejectGroup \/ RejectSortKey \/ RejectLimit
        \/ RejectColumn \/ RejectCall \/ Install
  BY DEF RejectWhere, RejectGroup, RejectSortKey, RejectLimit, RejectColumn, RejectCall, Fail,
         Install, Working
<1>2. CASE UNCHANGED vars
  BY <1>2 DEF vars, processor, Working, Leaves
<1>3. CASE Next
  <2>1. Working
    BY <1>3 DEF Next, Clauses, Processing, Working, AtColumn, AtCall, AtLeaf, Where, NoWhere,
        RejectWhere, BeginGroup, NoGroup, Group, RejectGroup, EndGroup, Having, NoHaving,
        BeginSelect, Select, SelectAsterisk, EndSelect, Distinct, NotDistinct, BeginOrder,
        NoOrder, SortKey, RejectSortKey, EndOrder, Limit, NoLimit, RejectLimit, KeepColumn,
        RejectColumn, Consume, Reuse, RejectCall, EndValue, EndOperator, Install, Fail
  <2>2. CASE Consume \/ Reuse
    <3>1. \E v : Answer(ThisLeaf, v)
      BY <2>1, <2>2, Answered
    <3> QED
      BY <2>1, <3>1, LeavesOfAnswer
  <2> QED
    BY <1>1, <1>3, <2>1, <2>2, LeavesOfRest, LeavesOfOperators, LeavesOfColumns, LeavesOfLimit,
       LeavesOfKeep, LeavesOfEnds DEF Next, Clauses, Processing
<1> QED
  BY <1>2, <1>3

-----------------------------------------------------------------------------
(* Without an active processor there is no call.                           *)

LEMMA InactiveAppended ==
    ASSUME TypeOK, NEW o \in Operator, plan' = Append(plan, o),
           \A j \in DOMAIN o.values : ~SawAggregate(o.values[j]),
           \A i \in DOMAIN plan : \A j \in DOMAIN plan[i].values : ~SawAggregate(plan[i].values[j])
    PROVE  \A i \in DOMAIN plan' : \A j \in DOMAIN plan'[i].values :
               ~SawAggregate(plan'[i].values[j])
<1>1. \A i \in DOMAIN plan' : (i \in DOMAIN plan /\ plan'[i] = plan[i]) \/ plan'[i] = o
  <2>1. /\ DOMAIN plan' = 1..(Len(plan) + 1) /\ plan'[Len(plan) + 1] = o
        /\ DOMAIN plan = 1..Len(plan) /\ Len(plan) \in Nat
        /\ \A i \in DOMAIN plan : plan'[i] = plan[i]
    BY Appended
  <2> QED
    BY <2>1
<1> QED
  BY <1>1

LEMMA ReferencesCallNothing ==
    ASSUME NEW s \in Seq(Variables), NEW j \in DOMAIN References(s)
    PROVE  ~SawAggregate(References(s)[j])
<1>1. References(s)[j] = <<Reference(s[j])>>
  BY Referenced
<1> DEFINE r == Reference(s[j])
<1>2. r.kind = "column"
  BY DEF Reference
<1> HIDE DEF r
<1>3. DOMAIN <<r>> = {1} /\ <<r>>[1] = r
  OBVIOUS
<1> QED
  BY <1>1, <1>2, <1>3 DEF SawAggregate, r

LEMMA InactiveOfOperators ==
    ASSUME TypeOK, Shape, Inactive, ~active',
           Where \/ Having \/ BeginSelect \/ Distinct \/ BeginOrder \/ EndOrder \/ Limit \/ NoLimit
    PROVE  /\ aggregates' = <<>>
           /\ \A i \in DOMAIN plan' : \A j \in DOMAIN plan'[i].values :
                 ~SawAggregate(plan'[i].values[j])
<1> USE DEF Goto
<1>1. /\ ~active /\ aggregates' = aggregates
      /\ Where \/ BeginSelect \/ Distinct \/ BeginOrder \/ EndOrder \/ Limit \/ NoLimit
  <2>1. ~Having
    BY DEF Having
  <2>2. UNCHANGED <<active, aggregates>>
    BY <2>1 DEF Where, BeginSelect, Distinct, BeginOrder, EndOrder, Limit, NoLimit, processor
  <2> QED
    BY <2>1, <2>2
<1>2. /\ aggregates = <<>>
      /\ \A i \in DOMAIN plan : \A j \in DOMAIN plan[i].values : ~SawAggregate(plan[i].values[j])
  BY <1>1 DEF Inactive
<1>3. ASSUME NEW kind \in Kinds, NEW values \in Seq(Value),
             \A j \in DOMAIN values : ~SawAggregate(values[j]),
             plan' = Append(plan, Make(kind, values, <<>>))
      PROVE  \A i \in DOMAIN plan' : \A j \in DOMAIN plan'[i].values :
                 ~SawAggregate(plan'[i].values[j])
  <2> DEFINE o == Make(kind, values, <<>>)
  <2>1. o \in Operator /\ o.values = values /\ plan' = Append(plan, o)
    BY <1>3, Added DEF Make
  <2> HIDE DEF o
  <2> QED
    BY <1>2, <1>3, <2>1, InactiveAppended
<1>4. <<>> \in Seq(Value) /\ DOMAIN <<>> = {}
  OBVIOUS
<1>5. CASE Where
  <2>1. PICK e \in Expressions : ~SawAggregate(e) /\ plan' = Append(plan, Make("where", <<e>>, <<>>))
    BY <1>5 DEF Where
  <2>2. <<e>> \in Seq(Value)
    BY Analysed
  <2>3. \A j \in DOMAIN <<e>> : <<e>>[j] = e
    OBVIOUS
  <2>4. "where" \in Kinds
    BY DEF Kinds
  <2>5. \A j \in DOMAIN <<e>> : ~SawAggregate(<<e>>[j])
    BY <2>1, <2>3
  <2>6. \A i \in DOMAIN plan' : \A j \in DOMAIN plan'[i].values :
            ~SawAggregate(plan'[i].values[j])
    BY <1>3, <2>1, <2>2, <2>4, <2>5, Zenon
  <2> QED
    BY <1>1, <1>2, <2>6, Zenon
<1>6. CASE BeginSelect \/ BeginOrder \/ Limit \/ NoLimit
  <2>1. plan' = plan \/ \E kind \in Kinds : plan' = Append(plan, Make(kind, <<>>, <<>>))
    BY <1>6 DEF BeginSelect, BeginOrder, Limit, NoLimit, Kinds
  <2> QED
    BY <1>1, <1>2, <1>3, <1>4, <2>1
<1>7. CASE Distinct \/ EndOrder
  <2>1. PICK kind \in Kinds, s \in Seq(Variables) :
           plan' = Append(plan, Make(kind, References(s), <<>>))
    <3>1. CASE Distinct
      <4>1. plan' = Append(plan, Make("distinct", References(info), <<>>))
            /\ info \in Seq(Variables) /\ "distinct" \in Kinds
        BY <3>1 DEF Distinct, TypeOK, Kinds
      <4> QED
        BY <4>1
    <3>2. CASE EndOrder
      <4>1. /\ plan' = Append(plan, Make("limit", References(plan[Len(plan)].columns), <<>>))
            /\ plan # <<>> /\ "limit" \in Kinds
        BY <3>2 DEF EndOrder, Shape, LastIs, Kinds
      <4>2. plan[Len(plan)] \in Operator
        BY <4>1 DEF TypeOK
      <4>3. plan[Len(plan)].columns \in Seq(Variables)
        BY <4>2 DEF Operator
      <4> QED
        BY <4>1, <4>3
    <3> QED
      BY <1>7, <3>1, <3>2
  <2>2. References(s) \in Seq(Value)
    BY Referenced
  <2> QED
    BY <1>1, <1>2, <1>3, <2>1, <2>2, ReferencesCallNothing
<1> QED
  BY <1>1, <1>5, <1>6, <1>7

LEMMA InactiveOfColumns ==
    ASSUME TypeOK, Shape, Inactive, ~active', Select \/ SortKey
    PROVE  /\ aggregates' = <<>>
           /\ \A i \in DOMAIN plan' : \A j \in DOMAIN plan'[i].values :
                 ~SawAggregate(plan'[i].values[j])
<1>1. PICK e \in Expressions : AddColumn(e) /\ active' = (active \/ SawAggregate(e))
  BY DEF Select, SortKey
<1>2. aggregates' = aggregates /\ plan # <<>>
  BY DEF Select, SortKey, Shape, LastIs
<1>3. ~active /\ ~SawAggregate(e)
  BY <1>1
<1>4. /\ aggregates = <<>>
      /\ \A i \in DOMAIN plan : \A j \in DOMAIN plan[i].values : ~SawAggregate(plan[i].values[j])
  BY <1>3 DEF Inactive
<1> DEFINE n == Len(plan)
           vs == plan[n].values
<1>5. /\ n \in Nat \ {0} /\ DOMAIN plan = 1..n /\ DOMAIN plan' = 1..n
      /\ \A i \in DOMAIN plan : i # n => plan'[i] = plan[i]
      /\ plan[n] \in Operator /\ plan'[n].values = Append(vs, e)
  BY <1>1, <1>2, Analysed, Widened
<1>6. vs \in Seq(Value)
  BY <1>5 DEF Operator
<1>7. \A j \in DOMAIN vs : ~SawAggregate(vs[j])
  BY <1>4, <1>5
<1> HIDE DEF n, vs
<1>8. \A j \in DOMAIN Append(vs, e) : Append(vs, e)[j] = e
                                      \/ (j \in DOMAIN vs /\ Append(vs, e)[j] = vs[j])
  BY <1>6
<1>9. ASSUME NEW i \in DOMAIN plan', NEW j \in DOMAIN plan'[i].values
      PROVE  ~SawAggregate(plan'[i].values[j])
  <2>1. CASE i = n
    BY <1>3, <1>5, <1>7, <1>8, <2>1
  <2>2. CASE i # n
    BY <1>4, <1>5, <2>2
  <2> QED
    BY <2>1, <2>2
<1> QED
  BY <1>2, <1>4, <1>9

LEMMA Activity ==
    ASSUME TypeOK, Working => Shape /\ Inactive, [Next]_vars, Working'
    PROVE  Inactive'
<1> USE DEF Goto
<1>1. ~ \/ RejectWhere \/ RejectGroup \/ RejectSortKey \/ RejectLimit
        \/ RejectColumn \/ RejectCall \/ Install
  BY DEF RejectWhere, RejectGroup, RejectSortKey, RejectLimit, RejectColumn, RejectCall, Fail,
         Install, Working
<1>2. CASE UNCHANGED vars
  BY <1>2 DEF vars, processor, Working, Inactive
<1>3. CASE \/ NoWhere \/ BeginGroup \/ NoGroup \/ Group \/ EndGroup \/ NoHaving \/ SelectAsterisk
           \/ EndSelect \/ NotDistinct \/ NoOrder
  <2>1. /\ Working /\ plan' = plan /\ aggregates' = aggregates /\ (active => active')
        /\ pc' \notin {"process", "install"}
    BY <1>3 DEF Working, NoWhere, BeginGroup, NoGroup, Group, EndGroup, NoHaving, SelectAsterisk,
                EndSelect, NotDistinct, NoOrder, Built, processor
  <2> QED
    BY <2>1 DEF Inactive
<1>4. CASE Where \/ Having \/ BeginSelect \/ Distinct \/ BeginOrder \/ EndOrder \/ Limit \/ NoLimit
  <2>1. Working /\ (pc' \in {"process", "install"} => active')
    <3>1. CASE Limit \/ NoLimit
      BY <3>1 DEF Limit, NoLimit, Aggregate, Working, processor
    <3>2. CASE ~(Limit \/ NoLimit)
      BY <1>4, <3>2 DEF Where, Having, BeginSelect, Distinct, BeginOrder, EndOrder, Working
    <3> QED
      BY <3>1, <3>2
  <2> QED
    BY <1>4, <2>1, InactiveOfOperators DEF Inactive
<1>5. CASE Select \/ SortKey
  <2>1. Working /\ pc' \notin {"process", "install"}
    BY <1>5 DEF Select, SortKey, Working
  <2> QED
    BY <1>5, <2>1, InactiveOfColumns DEF Inactive
<1>6. CASE KeepColumn \/ Consume \/ Reuse \/ EndValue \/ EndOperator
  <2>1. pc = "process" /\ active' = active
    BY <1>6 DEF KeepColumn, Consume, Reuse, EndValue, EndOperator, AtColumn, AtCall, AtLeaf,
                processor
  <2>2. active
    BY <2>1 DEF Inactive, Working
  <2> QED
    BY <2>1, <2>2 DEF Inactive
<1> QED
  BY <1>1, <1>2, <1>3, <1>4, <1>5, <1>6 DEF Next, Clauses, Processing

-----------------------------------------------------------------------------
(* The finished plan.                                                      *)

(* Provided, Available and ValuesKept of the chain p.                      *)
Clear(p, i, n) == \A h \in i..n : p[h].kind # "aggregate"
ProvidedIn(p, n) ==
    {v \in Columns : Clear(p, 1, n)} \cup
        {v \in Variables : \E i \in 1..n : /\ Clear(p, i + 1, n)
                                           /\ \E j \in DOMAIN p[i].columns : p[i].columns[j] = v}
AvailableIn(p) ==
    \A i \in DOMAIN p : p[i].kind # "distinct" =>
        \A j \in DOMAIN p[i].values : \A k \in DOMAIN p[i].values[j] :
            p[i].values[j][k].kind = "column" /\ p[i].values[j][k].column \in ProvidedIn(p, i - 1)
ValuesIn(p, args, aggs) ==
    \A i \in DOMAIN p : \A j \in DOMAIN p[i].values :
        /\ Len(p[i].values[j]) = Len(p[i].written[j])
        /\ \A k \in DOMAIN p[i].values[j] :
              Means(args, aggs, p[i].values[j][k], p[i].written[j][k])

LEMMA ProvidedNext ==
    ASSUME NEW n, NEW v \in ProvidedIn(plan', n)
    PROVE  v \in Provided(n)'
<1>1. CASE v \in Columns /\ Clear(plan', 1, n)
  <2>1. ~Hidden(1, n)'
    BY <1>1 DEF Hidden, Clear
  <2> QED
    BY <1>1, <2>1 DEF Provided
<1>2. CASE \E i \in 1..n : /\ Clear(plan', i + 1, n)
                           /\ \E j \in DOMAIN plan'[i].columns : plan'[i].columns[j] = v
  <2>1. PICK i \in 1..n : /\ Clear(plan', i + 1, n)
                          /\ \E j \in DOMAIN plan'[i].columns : plan'[i].columns[j] = v
    BY <1>2
  <2>2. ~Hidden(i + 1, n)'
    BY <2>1 DEF Hidden, Clear
  <2>3. v \in Range(plan'[i].columns)
    BY <2>1 DEF Range
  <2> QED
    BY <2>2, <2>3 DEF Provided
<1> QED
  BY <1>1, <1>2 DEF ProvidedIn

LEMMA AvailableNext ==
    ASSUME TypeOK', AvailableIn(plan')
    PROVE  Available'
<1> SUFFICES ASSUME NEW i \in DOMAIN plan', plan'[i].kind # "distinct",
                    NEW j \in DOMAIN plan'[i].values, NEW k \in DOMAIN plan'[i].values[j]
             PROVE  /\ plan'[i].values[j][k].kind = "column"
                    /\ plan'[i].values[j][k].column \in Provided(i - 1)'
  BY DEF Available, Positions
<1>1. /\ plan'[i].values[j][k].kind = "column"
      /\ plan'[i].values[j][k].column \in ProvidedIn(plan', i - 1)
  BY DEF AvailableIn
<1> QED
  BY <1>1, ProvidedNext

LEMMA ValuesNext ==
    ASSUME ValuesIn(plan', arguments', aggregates')
    PROVE  ValuesKept'
<1> SUFFICES ASSUME NEW i \in DOMAIN plan', NEW j \in DOMAIN plan'[i].values
             PROVE  /\ Len(plan'[i].values[j]) = Len(plan'[i].written[j])
                    /\ \A k \in DOMAIN plan'[i].values[j] :
                          Denotes(plan[i].values[j][k], plan[i].written[j][k])'
  BY DEF ValuesKept
<1>1. Len(plan'[i].values[j]) = Len(plan'[i].written[j])
  BY DEF ValuesIn
<1>2. ASSUME NEW k \in DOMAIN plan'[i].values[j]
      PROVE  Denotes(plan[i].values[j][k], plan[i].written[j][k])'
  <2>1. Means(arguments', aggregates', plan'[i].values[j][k], plan'[i].written[j][k])
    BY DEF ValuesIn
  <2> QED
    BY <2>1 DEF Means, Denotes, Holds
<1> QED
  BY <1>1, <1>2

(* The plan of a query without set functions and without GROUP BY.         *)
LEMMA FinishedPlain ==
    ASSUME TypeOK, Shape, Leaves, Inactive, Limit \/ NoLimit, ~Working'
    PROVE  InClauseOrder' /\ ValuesKept' /\ (TypeOK' => Available')
<1>1. /\ plan' \in Seq(Operator) /\ pc = "limit" /\ pc' = "done" /\ ~active
      /\ \/ plan' = plan
         \/ plan' = Append(plan, Make("limit", <<>>, <<>>))
      /\ UNCHANGED <<arguments, aggregates, groupKeys>>
  <2>1. pc' # "process"
    BY DEF Working
  <2> QED
    BY <2>1, Limited DEF processor
<1>2. Placed(plan', 8)
  BY PlacedOfLimit
<1>3. InClauseOrder'
  BY <1>2 DEF Placed, Ordered, InClauseOrder
<1>4. ASSUME NEW i \in DOMAIN plan', NEW j \in DOMAIN plan'[i].values
      PROVE  i \in DOMAIN plan /\ plan'[i] = plan[i]
  <2>1. CASE plan' = plan
    BY <2>1
  <2>2. CASE plan' = Append(plan, Make("limit", <<>>, <<>>))
    <3> DEFINE o == Make("limit", <<>>, <<>>)
    <3>1. o.values = <<>>
      BY DEF Make
    <3>2. plan' = Append(plan, o) /\ plan \in Seq(Operator)
      BY <2>2 DEF TypeOK
    <3> HIDE DEF o
    <3>3. DOMAIN o.values = {}
      BY <3>1
    <3>4. plan'[i] = o \/ (i \in DOMAIN plan /\ plan'[i] = plan[i])
      BY <3>2
    <3> QED
      BY <3>3, <3>4
  <2> QED
    BY <1>1, <2>1, <2>2
<1>5. ASSUME NEW i \in DOMAIN plan', NEW j \in DOMAIN plan'[i].values,
             NEW k \in DOMAIN plan'[i].values[j]
      PROVE  LET l == plan'[i].values[j][k]
                 w == plan'[i].written[j][k]
             IN  /\ l.kind = "column"
                 /\ Means(arguments', aggregates', l, w)
                 /\ l.column \in Columns \/ plan'[i].kind = "distinct"
                    \/ (plan'[i].kind = "limit"
                        /\ \E n \in DOMAIN plan'[i - 1].columns :
                               i - 1 \in DOMAIN plan' /\ plan'[i - 1].columns[n] = l.column)
  <2> DEFINE l == plan'[i].values[j][k]
             w == plan'[i].written[j][k]
  <2>1. i \in DOMAIN plan /\ plan'[i] = plan[i]
    BY <1>4
  <2>2. LeafOK(plan, pc, cursor, arguments, aggregates, groupKeys, i, j, k)
    BY <2>1 DEF Leaves, LeavesIn
  <2>3. l \in Leaf /\ l.kind = "column"
    <3>1. l \in Leaf
      BY <2>1, LeafPlace
    <3>2. l.kind # "call"
      BY <1>1, <2>1 DEF Inactive, SawAggregate
    <3> QED
      BY <3>1, <3>2 DEF Leaf
  <2>4. Means(arguments, aggregates, l, w)
    <3>1. CASE Pending(plan, pc, cursor, i, j, k)
      BY <2>1, <2>2, <2>3, <3>1, WrittenMeans DEF LeafOK
    <3>2. CASE ~Pending(plan, pc, cursor, i, j, k)
      BY <2>1, <2>2, <3>2 DEF LeafOK
    <3> QED
      BY <3>1, <3>2
  <2>5. Means(arguments', aggregates', l, w)
    BY <1>1, <2>4
  <2>6. \/ l.column \in Columns
        \/ plan'[i].kind = "distinct"
        \/ /\ plan'[i].kind = "limit"
           /\ \E n \in DOMAIN plan'[i - 1].columns :
                  i - 1 \in DOMAIN plan' /\ plan'[i - 1].columns[n] = l.column
    <3>1. CASE Pending(plan, pc, cursor, i, j, k)
      BY <2>1, <2>2, <2>3, <3>1 DEF LeafOK, Original
    <3>2. CASE ~Pending(plan, pc, cursor, i, j, k)
      <4>1. Readable(plan, aggregates, groupKeys, i, l)
        BY <2>1, <2>2, <3>2 DEF LeafOK
      <4>2. plan[i].kind \in {"where", "having", "select", "distinct", "order", "limit"}
        <5>1. plan'[i].kind \in Kinds /\ plan'[i].kind \notin {"arguments", "aggregate"}
          BY <1>2, <2>1, KindOf DEF Placed
        <5> QED
          BY <2>1, <5>1 DEF Kinds
      <4>3. CASE plan[i].kind = "where"
        BY <4>1, <4>3 DEF Readable
      <4>4. CASE plan[i].kind \in {"having", "select", "order"}
        <5>1. aggregates = <<>> /\ DOMAIN aggregates = {}
          BY <1>1 DEF Inactive
        <5>2. \A m \in DOMAIN groupKeys : groupKeys[m] \in Columns
          BY DEF TypeOK
        <5> QED
          BY <4>1, <4>4, <5>1, <5>2 DEF Readable
      <4>5. CASE plan[i].kind = "limit"
        <5>1. /\ i - 1 \in DOMAIN plan
              /\ \E n \in DOMAIN plan[i - 1].columns : plan[i - 1].columns[n] = l.column
          BY <4>1, <4>5 DEF Readable
        <5>2. i - 1 \in DOMAIN plan' /\ plan'[i - 1] = plan[i - 1]
          <6>1. plan \in Seq(Operator)
            BY DEF TypeOK
          <6> QED
            BY <1>1, <5>1, <6>1
        <5> QED
          BY <2>1, <4>5, <5>1, <5>2
      <4>6. CASE plan[i].kind = "distinct"
        BY <2>1, <4>6
      <4> QED
        BY <4>2, <4>3, <4>4, <4>5, <4>6
    <3> QED
      BY <3>1, <3>2
  <2> QED
    BY <2>3, <2>5, <2>6
<1>6. ValuesKept'
  <2>1. ASSUME NEW i \in DOMAIN plan', NEW j \in DOMAIN plan'[i].values
        PROVE  Len(plan'[i].values[j]) = Len(plan'[i].written[j])
    BY <1>4 DEF Leaves, LeavesIn
  <2>2. ValuesIn(plan', arguments', aggregates')
    BY <1>5, <2>1 DEF ValuesIn
  <2> QED
    BY <2>2, ValuesNext
<1>7. AvailableIn(plan')
  <2> SUFFICES ASSUME NEW i \in DOMAIN plan', plan'[i].kind # "distinct",
                      NEW j \in DOMAIN plan'[i].values, NEW k \in DOMAIN plan'[i].values[j]
               PROVE  /\ plan'[i].values[j][k].kind = "column"
                      /\ plan'[i].values[j][k].column \in ProvidedIn(plan', i - 1)
    BY DEF AvailableIn
  <2> DEFINE l == plan'[i].values[j][k]
  <2>1. /\ l.kind = "column"
        /\ \/ l.column \in Columns
           \/ \E n \in DOMAIN plan'[i - 1].columns :
                  i - 1 \in DOMAIN plan' /\ plan'[i - 1].columns[n] = l.column
    BY <1>5
  <2>2. \A h \in DOMAIN plan' : plan'[h].kind # "aggregate"
    BY <1>2 DEF Placed
  <2>3. i \in Nat /\ 1..(i - 1) \subseteq DOMAIN plan'
    BY <1>1
  <2>4. plan'[i] = plan[i] /\ i \in DOMAIN plan /\ l \in Leaf
    BY <1>4, LeafPlace
  <2>5. l.column \in Variables
    BY <2>1, <2>4 DEF Leaf
  <2> HIDE DEF l
  <2>6. l.column \in ProvidedIn(plan', i - 1)
    <3>1. CASE l.column \in Columns
      BY <2>2, <2>3, <3>1 DEF ProvidedIn, Clear
    <3>2. CASE \E n \in DOMAIN plan'[i - 1].columns :
                   i - 1 \in DOMAIN plan' /\ plan'[i - 1].columns[n] = l.column
      <4>1. i - 1 \in 1..(i - 1) /\ Clear(plan', (i - 1) + 1, i - 1)
        BY <1>1, <2>3, <3>2 DEF Clear
      <4> QED
        BY <2>5, <3>2, <4>1 DEF ProvidedIn
    <3> QED
      BY <2>1, <3>1, <3>2
  <2> QED
    BY <2>1, <2>6 DEF l
<1> QED
  BY <1>3, <1>6, <1>7, AvailableNext

(* Where an operator of the finished chain comes from: WHERE stays below   *)
(* what is put in, the other clauses are above.                            *)
LEMMA OperatorOrigin ==
    ASSUME TypeOK, Shape, Install, NEW i \in DOMAIN plan'
    PROVE  LET n == Len(Inserted) IN
           \/ i \in 1..entry /\ i \in DOMAIN plan /\ plan'[i] = plan[i] /\ plan[i].kind = "where"
           \/ i = entry + 1 /\ n >= 1 /\ plan'[i] = ArgumentOperator
           \/ i = entry + n /\ n >= 1 /\ plan'[i] = AggregateOperator
           \/ /\ i - n \in DOMAIN plan /\ i - n > entry /\ plan'[i] = plan[i - n]
              /\ plan[i - n].kind \in {"having", "select", "distinct", "order", "limit"}
<1> DEFINE n == Len(Inserted)
           m == Len(plan)
<1>1. /\ DOMAIN plan' = 1..(m + n) /\ m \in Nat /\ n \in Nat /\ entry \in 0..m
      /\ DOMAIN plan = 1..m
      /\ \A k \in 1..entry : plan'[k] = plan[k]
      /\ \A h \in 1..n : plan'[entry + h] = Inserted[h]
      /\ \A k \in (entry + 1)..m : plan'[k + n] = plan[k]
      /\ \A k \in 1..(m + n) : k \in 1..entry \/ k - entry \in 1..n \/ k - n \in (entry + 1)..m
      /\ pc = "install"
  BY Installed
<1>2. \A h \in 1..n : \/ h = 1 /\ Inserted[h] = ArgumentOperator
                      \/ h = n /\ Inserted[h] = AggregateOperator
  BY InsertedIs
<1>3. Placed(plan, 8) /\ EntryOf(plan, entry)
  BY <1>1 DEF Shape, Reached
<1> HIDE DEF n, m
<1>4. CASE i \in 1..entry
  <2>1. i \in DOMAIN plan /\ i <= entry
    BY <1>1, <1>4
  <2> QED
    BY <1>1, <1>3, <1>4, <2>1 DEF EntryOf
<1>5. CASE i - n \in (entry + 1)..m
  <2> DEFINE o == i - n
  <2>1. o + n = i /\ o \in DOMAIN plan /\ o > entry /\ ~(o <= entry)
    BY <1>1, <1>5
  <2>2. plan'[i] = plan[o]
    BY <1>1, <1>5, <2>1
  <2>3. plan[o].kind \in Kinds /\ plan[o].kind \notin {"where", "arguments", "aggregate"}
    BY <1>3, <2>1, KindOf DEF EntryOf, Placed
  <2> QED
    BY <2>1, <2>2, <2>3 DEF n, Kinds
<1>6. CASE i - entry \in 1..n
  <2>1. entry + (i - entry) = i
    BY <1>1
  <2>2. plan'[i] = Inserted[i - entry] /\ n >= 1
    BY <1>1, <1>6, <2>1
  <2>3. CASE i - entry = 1 /\ Inserted[i - entry] = ArgumentOperator
    <3>1. i = entry + 1
      BY <1>1, <2>3
    <3> QED
      BY <2>2, <2>3, <3>1 DEF n
  <2>4. CASE i - entry = n /\ Inserted[i - entry] = AggregateOperator
    <3>1. i = entry + n
      BY <1>1, <2>4
    <3> QED
      BY <2>2, <2>4, <3>1 DEF n
  <2> QED
    BY <1>2, <1>6, <2>3, <2>4
<1> QED
  BY <1>1, <1>4, <1>5, <1>6

LEMMA OrderInstalled ==
    ASSUME TypeOK, Shape, Install
    PROVE  InClauseOrder'
<1> DEFINE n == Len(Inserted)
<1>1. /\ DOMAIN plan' = 1..(Len(plan) + n) /\ n \in Nat /\ entry \in Nat /\ Len(plan) \in Nat
      /\ pc = "install"
  BY Installed
<1>2. Placed(plan, 8)
  BY <1>1 DEF Shape, Reached
<1>3. /\ Rank(ArgumentOperator) = 2 /\ Rank(AggregateOperator) = 3
      /\ \A o \in DOMAIN plan : plan[o].kind = "where" => Rank(plan[o]) = 1
      /\ \A o \in DOMAIN plan :
            plan[o].kind \in {"having", "select", "distinct", "order", "limit"} => Rank(plan[o]) >= 4
      /\ \A o \in DOMAIN plan : Rank(plan[o]) \in Nat
  <2>1. Rank(ArgumentOperator) = 2 /\ Rank(AggregateOperator) = 3
    BY ArgumentOperatorIs, AggregateOperatorIs, RankOf DEF Kinds
  <2>2. ASSUME NEW o \in DOMAIN plan
        PROVE  /\ plan[o].kind = "where" => Rank(plan[o]) = 1
               /\ plan[o].kind \in {"having", "select", "distinct", "order", "limit"} =>
                     Rank(plan[o]) >= 4
               /\ Rank(plan[o]) \in Nat
    BY KindOf, RankOf
  <2> QED
    BY <2>1, <2>2
<1> SUFFICES ASSUME NEW i \in DOMAIN plan', NEW k \in DOMAIN plan', i < k
             PROVE  Rank(plan'[i]) < Rank(plan'[k])
  <2>1. InClauseOrder' <=> (pc' = "done" => \A i, k \in DOMAIN plan' :
                                i < k => Rank(plan'[i]) < Rank(plan'[k]))
    BY DEF InClauseOrder, Rank
  <2> QED
    BY <2>1
<1> DEFINE Below(x) == /\ x \in 1..entry /\ x \in DOMAIN plan /\ plan'[x] = plan[x]
                       /\ plan[x].kind = "where"
           First(x) == x = entry + 1 /\ n >= 1 /\ plan'[x] = ArgumentOperator
           Second(x) == x = entry + n /\ n >= 1 /\ plan'[x] = AggregateOperator
           Above(x) == /\ x - n \in DOMAIN plan /\ x - n > entry /\ plan'[x] = plan[x - n]
                       /\ plan[x - n].kind \in {"having", "select", "distinct", "order", "limit"}
<1>4. /\ Below(i) \/ First(i) \/ Second(i) \/ Above(i)
      /\ Below(k) \/ First(k) \/ Second(k) \/ Above(k)
  BY OperatorOrigin
<1>5. i \in Nat /\ k \in Nat
  BY <1>1
<1> HIDE DEF n
<1>6. CASE Below(i)
  <2>1. Rank(plan'[i]) = 1
    BY <1>3, <1>6
  <2>2. CASE Below(k)
    <3>1. i \in DOMAIN plan /\ k \in DOMAIN plan
      BY <1>6, <2>2
    <3> QED
      BY <1>2, <1>6, <2>2, <3>1 DEF Placed, Ordered
  <2>3. CASE First(k) \/ Second(k)
    BY <1>3, <2>1, <2>3
  <2>4. CASE Above(k)
    BY <1>3, <2>1, <2>4
  <2> QED
    BY <1>4, <2>2, <2>3, <2>4
<1>7. CASE First(i)
  <2>1. ~Below(k) /\ ~First(k)
    BY <1>1, <1>5, <1>7
  <2> QED
    BY <1>3, <1>4, <1>7, <2>1
<1>8. CASE Second(i)
  <2>1. ~Below(k) /\ ~First(k) /\ ~Second(k)
    BY <1>1, <1>5, <1>8
  <2> QED
    BY <1>3, <1>4, <1>8, <2>1
<1>9. CASE Above(i)
  <2>1. Above(k)
    BY <1>1, <1>4, <1>5, <1>9
  <2>2. i - n \in DOMAIN plan /\ k - n \in DOMAIN plan /\ i - n < k - n
    BY <1>1, <1>5, <1>9, <2>1
  <2> QED
    BY <1>2, <1>9, <2>1, <2>2 DEF Placed, Ordered
<1> QED
  BY <1>4, <1>6, <1>7, <1>8, <1>9

LEMMA ArgumentAt ==
    ASSUME TypeOK, NEW a \in DOMAIN arguments
    PROVE  arguments[a].value.columns \in Seq(Columns) /\ arguments[a].column \in Created
<1> DEFINE Moved == [value : Argument, column : Created]
<1>1. arguments \in Seq(Moved)
  BY DEF TypeOK
<1> HIDE DEF Moved
<1>2. arguments[a] \in Moved
  BY <1>1
<1>3. arguments[a].value \in Argument /\ arguments[a].column \in Created
  BY <1>2 DEF Moved
<1> QED
  BY <1>3 DEF Argument

(* What the operators that are put in read: the columns of the FROM clause *)
(* for the arguments and the keys, the arguments for the aggregations.     *)
LEMMA ArgumentReads ==
    ASSUME TypeOK, NEW j \in DOMAIN ArgumentOperator.values,
           NEW k \in DOMAIN ArgumentOperator.values[j]
    PROVE  /\ ArgumentOperator.values[j][k].kind = "column"
           /\ ArgumentOperator.values[j][k].column \in Columns
<1>1. /\ j \in DOMAIN arguments /\ k \in DOMAIN arguments[j].value.columns
      /\ ArgumentOperator.values[j][k] = Reference(arguments[j].value.columns[k])
  BY ArgumentOperatorIs
<1>2. arguments[j].value.columns \in Seq(Columns)
  BY <1>1, ArgumentAt
<1>3. arguments[j].value.columns[k] \in Columns
  BY <1>1, <1>2
<1> QED
  BY <1>1, <1>3 DEF Reference

LEMMA AggregateReads ==
    ASSUME TypeOK, ArgumentsOK, NEW j \in DOMAIN AggregateOperator.values,
           NEW k \in DOMAIN AggregateOperator.values[j]
    PROVE  /\ AggregateOperator.values[j][k].kind = "column"
           /\ \/ AggregateOperator.values[j][k].column \in Columns
              \/ \E l \in DOMAIN arguments :
                     AggregateOperator.values[j][k].column = arguments[l].column
<1> DEFINE g == Len(groupKeys)
           m == Len(aggregates)
           o == AggregateOperator
<1>1. /\ g \in Nat /\ m \in Nat /\ DOMAIN groupKeys = 1..g /\ DOMAIN aggregates = 1..m
      /\ DOMAIN o.values = 1..(g + m)
      /\ \A i \in 1..g : o.values[i] = <<Reference(groupKeys[i])>>
      /\ \A i \in 1..m :
            /\ DOMAIN o.values[g + i] = DOMAIN aggregates[i].arguments
            /\ \A q \in DOMAIN aggregates[i].arguments :
                  o.values[g + i][q] = Reference(aggregates[i].arguments[q])
  BY AggregateOperatorIs
<1>2. j \in DOMAIN o.values /\ k \in DOMAIN o.values[j]
  OBVIOUS
<1> HIDE DEF g, m, o
<1>3. CASE j <= g
  <2>1. j \in 1..g /\ groupKeys[j] \in Columns
    BY <1>1, <1>2, <1>3 DEF TypeOK
  <2> DEFINE r == Reference(groupKeys[j])
  <2>2. o.values[j] = <<r>> /\ r.kind = "column" /\ r.column \in Columns
    BY <1>1, <2>1 DEF Reference
  <2> HIDE DEF r
  <2>3. DOMAIN <<r>> = {1} /\ <<r>>[1] = r
    OBVIOUS
  <2>4. o.values[j][k] = r
    BY <1>2, <2>2, <2>3
  <2> QED
    BY <2>2, <2>4 DEF o
<1>4. CASE ~(j <= g)
  <2> DEFINE i == j - g
  <2>1. i \in 1..m /\ g + i = j
    BY <1>1, <1>2, <1>4
  <2> HIDE DEF i
  <2>2. k \in DOMAIN aggregates[i].arguments
        /\ o.values[j][k] = Reference(aggregates[i].arguments[k])
    BY <1>1, <1>2, <2>1
  <2>3. PICK l \in DOMAIN arguments : arguments[l].column = aggregates[i].arguments[k]
    BY <1>1, <2>1, <2>2 DEF ArgumentsOK
  <2>4. o.values[j][k].kind = "column" /\ o.values[j][k].column = arguments[l].column
    BY <2>2, <2>3 DEF Reference
  <2> QED
    BY <2>4 DEF o
<1> QED
  BY <1>3, <1>4

LEMMA LeavesVisited ==
    ASSUME Leaves, pc = "install", NEW i \in DOMAIN plan, NEW j \in DOMAIN plan[i].values
    PROVE  /\ Len(plan[i].values[j]) = Len(plan[i].written[j])
           /\ \A k \in DOMAIN plan[i].values[j] :
                 /\ Means(arguments, aggregates, plan[i].values[j][k], plan[i].written[j][k])
                 /\ Readable(plan, aggregates, groupKeys, i, plan[i].values[j][k])
<1>1. \A k : ~Pending(plan, pc, cursor, i, j, k)
  BY DEF Pending, Clausal
<1> QED
  BY <1>1 DEF Leaves, LeavesIn, LeafOK

LEMMA ValuesInstalled ==
    ASSUME TypeOK, Shape, Leaves, ArgumentsOK, Install
    PROVE  ValuesKept'
<1>1. pc = "install" /\ UNCHANGED <<arguments, aggregates>>
  BY Installed
<1>2. ArgumentOperator.written = ArgumentOperator.values
      /\ AggregateOperator.written = AggregateOperator.values
  BY ArgumentOperatorIs, AggregateOperatorIs
<1>3. ASSUME NEW i \in DOMAIN plan', NEW j \in DOMAIN plan'[i].values
      PROVE  /\ Len(plan'[i].values[j]) = Len(plan'[i].written[j])
             /\ \A k \in DOMAIN plan'[i].values[j] :
                   Means(arguments, aggregates, plan'[i].values[j][k], plan'[i].written[j][k])
  <2>1. \/ \E o \in DOMAIN plan : plan'[i] = plan[o]
        \/ plan'[i] = ArgumentOperator
        \/ plan'[i] = AggregateOperator
    BY OperatorOrigin
  <2>2. CASE \E o \in DOMAIN plan : plan'[i] = plan[o]
    BY <1>1, <2>2, LeavesVisited
  <2>3. CASE plan'[i] = ArgumentOperator
    BY <1>2, <2>3, ArgumentReads, WrittenMeans
  <2>4. CASE plan'[i] = AggregateOperator
    BY <1>2, <2>4, AggregateReads, WrittenMeans
  <2> QED
    BY <2>1, <2>2, <2>3, <2>4
<1>4. ValuesIn(plan', arguments', aggregates')
  BY <1>1, <1>3 DEF ValuesIn
<1> QED
  BY <1>4, ValuesNext

LEMMA ReadsInstalled ==
    ASSUME TypeOK, Shape, Leaves, ArgumentsOK, Install, TypeOK'
    PROVE  Available'
<1> DEFINE n == Len(Inserted)
           m == Len(plan)
<1>1. /\ plan' \in Seq(Operator) /\ DOMAIN plan' = 1..(m + n)
      /\ n \in Nat /\ m \in Nat /\ entry \in 0..m /\ DOMAIN plan = 1..m
      /\ \A h \in 1..n : plan'[entry + h] = Inserted[h]
      /\ \A o \in (entry + 1)..m : plan'[o + n] = plan[o]
      /\ pc = "install"
  BY Installed
<1>2. /\ DOMAIN Inserted = 1..n
      /\ arguments # <<>> => n >= 1 /\ Inserted[1] = ArgumentOperator
      /\ Len(groupKeys) > 0 \/ Len(aggregates) > 0 =>
            n >= 1 /\ Inserted[n] = AggregateOperator
  BY InsertedIs
<1>3. /\ ArgumentOperator.kind = "arguments" /\ AggregateOperator.kind = "aggregate"
      /\ ArgumentOperator # AggregateOperator
  BY ArgumentOperatorIs, AggregateOperatorIs
<1>4. Placed(plan, 8) /\ EntryOf(plan, entry)
  BY <1>1 DEF Shape, Reached
<1> DEFINE Below(x) == /\ x \in 1..entry /\ x \in DOMAIN plan /\ plan'[x] = plan[x]
                       /\ plan[x].kind = "where"
           First(x) == x = entry + 1 /\ n >= 1 /\ plan'[x] = ArgumentOperator
           Second(x) == x = entry + n /\ n >= 1 /\ plan'[x] = AggregateOperator
           Above(x) == /\ x - n \in DOMAIN plan /\ x - n > entry /\ plan'[x] = plan[x - n]
                       /\ plan[x - n].kind \in {"having", "select", "distinct", "order", "limit"}
<1>5. \A x \in DOMAIN plan' : Below(x) \/ First(x) \/ Second(x) \/ Above(x)
  BY OperatorOrigin
<1> HIDE DEF n, m
<1>6. \A x \in DOMAIN plan' : plan'[x].kind = "aggregate" => x = entry + n
  BY <1>3, <1>5
<1>7. ASSUME NEW v \in Columns, NEW i \in DOMAIN plan', i <= entry + n
      PROVE  v \in ProvidedIn(plan', i - 1)
  <2>1. \A h \in 1..(i - 1) : h \in DOMAIN plan' /\ h # entry + n
    BY <1>1, <1>7
  <2>2. Clear(plan', 1, i - 1)
    BY <1>6, <2>1 DEF Clear
  <2> QED
    BY <2>2 DEF ProvidedIn
<1>8. ASSUME NEW i \in DOMAIN plan', plan'[i].kind # "distinct",
             NEW j \in DOMAIN plan'[i].values, NEW k \in DOMAIN plan'[i].values[j]
      PROVE  /\ plan'[i].values[j][k].kind = "column"
             /\ plan'[i].values[j][k].column \in ProvidedIn(plan', i - 1)
  <2> DEFINE l == plan'[i].values[j][k]
  <2>1. i \in Nat /\ i >= 1 /\ 1..(i - 1) \subseteq DOMAIN plan'
    BY <1>1
  <2>2. CASE Below(i)
    <3>1. i \in DOMAIN plan /\ plan'[i] = plan[i] /\ plan[i].kind = "where" /\ i <= entry + n
      BY <1>1, <2>1, <2>2
    <3>2. l.kind = "column" /\ l.column \in Columns
      BY <1>1, <3>1, LeavesVisited DEF Readable
    <3> QED
      BY <1>7, <3>1, <3>2
  <2>3. CASE First(i)
    <3>1. l.kind = "column" /\ l.column \in Columns
      BY <2>3, ArgumentReads
    <3>2. i <= entry + n
      BY <1>1, <2>3
    <3> QED
      BY <1>7, <3>1, <3>2
  <2>4. CASE Second(i)
    <3>1. /\ l.kind = "column"
          /\ l.column \in Columns \/ \E a \in DOMAIN arguments : l.column = arguments[a].column
      BY <2>4, AggregateReads
    <3>2. CASE l.column \in Columns
      <4>1. i <= entry + n
        BY <1>1, <2>4
      <4> QED
        BY <1>7, <3>1, <3>2, <4>1
    <3>3. CASE \E a \in DOMAIN arguments : l.column = arguments[a].column
      <4>1. PICK a \in DOMAIN arguments : l.column = arguments[a].column
        BY <3>3
      <4>2. arguments # <<>>
        BY <4>1
      <4>3. n >= 1 /\ plan'[entry + 1] = ArgumentOperator
        BY <1>1, <1>2, <4>2
      <4>4. entry + 1 # entry + n
        BY <1>3, <2>4, <4>3
      <4>5. entry + 1 \in 1..(i - 1)
        <5>1. entry \in Nat /\ n \in Nat /\ i = entry + n
          BY <1>1, <2>4
        <5> QED
          BY <4>3, <4>4, <5>1
      <4>6. \A h \in ((entry + 1) + 1)..(i - 1) : h \in DOMAIN plan' /\ h # entry + n
        BY <1>1, <2>1, <2>4
      <4>7. Clear(plan', (entry + 1) + 1, i - 1)
        BY <1>6, <4>6 DEF Clear
      <4>8. /\ a \in DOMAIN plan'[entry + 1].columns
            /\ plan'[entry + 1].columns[a] = l.column
        BY <4>1, <4>3, ArgumentOperatorIs
      <4>9. l.column \in Variables
        BY <4>1, ArgumentAt DEF Variables
      <4> HIDE DEF l
      <4>10. l.column \in ProvidedIn(plan', i - 1)
        BY <4>5, <4>7, <4>8, <4>9 DEF ProvidedIn
      <4> QED
        BY <3>1, <4>10 DEF l
    <3> QED
      BY <3>1, <3>2, <3>3
  <2>5. CASE Above(i)
    <3> DEFINE o == i - n
    <3>1. /\ o \in DOMAIN plan /\ o > entry /\ plan'[i] = plan[o] /\ o + n = i /\ o \in Nat
          /\ plan[o].kind \in {"having", "select", "order", "limit"}
      BY <1>1, <1>8, <2>1, <2>5
    <3>2. l.kind = "column" /\ Readable(plan, aggregates, groupKeys, o, l) /\ l \in Leaf
      <4> HIDE DEF o
      <4>1. /\ j \in DOMAIN plan[o].values /\ k \in DOMAIN plan[o].values[j]
            /\ l = plan[o].values[j][k]
        BY <3>1
      <4>2. Readable(plan, aggregates, groupKeys, o, l)
        BY <1>1, <3>1, <4>1, LeavesVisited
      <4>3. l \in Leaf
        BY <3>1, <4>1, LeafPlace
      <4> QED
        BY <4>2, <4>3 DEF Readable
    <3>3. l.column \in Variables
      BY <3>2 DEF Leaf
    <3> HIDE DEF l, o
    <3>4. l.column \in ProvidedIn(plan', i - 1)
      <4>1. CASE plan[o].kind \in {"having", "select", "order"}
        <5>1. \/ \E a \in DOMAIN aggregates : aggregates[a].column = l.column
              \/ \E a \in DOMAIN groupKeys : groupKeys[a] = l.column
          BY <3>2, <4>1 DEF Readable
        <5> DEFINE g == Len(groupKeys)
                   q == Len(aggregates)
        <5>2. /\ g \in Nat /\ q \in Nat /\ DOMAIN groupKeys = 1..g /\ DOMAIN aggregates = 1..q
              /\ DOMAIN AggregateOperator.columns = 1..(g + q)
              /\ \A x \in 1..(g + q) : AggregateOperator.columns[x] =
                    IF x <= g THEN groupKeys[x] ELSE aggregates[x - g].column
          BY AggregateOperatorIs
        <5> HIDE DEF g, q
        <5>3. g > 0 \/ q > 0
          BY <5>1, <5>2
        <5>4. n >= 1 /\ plan'[entry + n] = AggregateOperator
          BY <1>1, <1>2, <5>3 DEF g, q
        <5>5. \E x \in DOMAIN AggregateOperator.columns : AggregateOperator.columns[x] = l.column
          <6>1. CASE \E a \in DOMAIN groupKeys : groupKeys[a] = l.column
            <7>1. PICK a \in 1..g : groupKeys[a] = l.column
              BY <5>2, <6>1
            <7>2. a \in 1..(g + q) /\ a <= g
              BY <5>2
            <7> QED
              BY <5>2, <7>1, <7>2
          <6>2. CASE \E a \in DOMAIN aggregates : aggregates[a].column = l.column
            <7>1. PICK a \in 1..q : aggregates[a].column = l.column
              BY <5>2, <6>2
            <7>2. g + a \in 1..(g + q) /\ ~(g + a <= g) /\ (g + a) - g = a
              BY <5>2
            <7> QED
              BY <5>2, <7>1, <7>2
          <6> QED
            BY <5>1, <6>1, <6>2
        <5>6. entry + n \in 1..(i - 1)
          BY <1>1, <2>1, <3>1, <5>4
        <5>7. \A h \in ((entry + n) + 1)..(i - 1) : h \in DOMAIN plan' /\ h # entry + n
          BY <1>1, <2>1
        <5>8. Clear(plan', (entry + n) + 1, i - 1)
          BY <1>6, <5>7 DEF Clear
        <5> QED
          BY <3>3, <5>4, <5>5, <5>6, <5>8 DEF ProvidedIn
      <4>2. CASE plan[o].kind = "limit"
        <5>1. /\ o - 1 \in DOMAIN plan /\ plan[o - 1].kind = "order"
              /\ \E x \in DOMAIN plan[o - 1].columns : plan[o - 1].columns[x] = l.column
          BY <3>2, <4>2 DEF Readable
        <5>2. ~(o - 1 <= entry)
          BY <1>4, <5>1 DEF EntryOf
        <5>3. o - 1 \in (entry + 1)..m /\ (o - 1) + n = i - 1
          <6>1. o \in Nat /\ n \in Nat /\ m \in Nat /\ entry \in Nat /\ o + n = i
            BY <1>1, <3>1
          <6>2. o - 1 \in 1..m
            BY <1>1, <5>1
          <6> QED
            BY <5>2, <6>1, <6>2
        <5>4. plan'[i - 1] = plan[o - 1]
          BY <1>1, <5>3
        <5>5. i - 1 \in 1..(i - 1)
          BY <1>1, <5>3
        <5>6. Clear(plan', (i - 1) + 1, i - 1)
          BY <2>1 DEF Clear
        <5> QED
          BY <3>3, <5>1, <5>4, <5>5, <5>6 DEF ProvidedIn
      <4> QED
        BY <3>1, <4>1, <4>2
    <3> QED
      BY <3>2, <3>4 DEF l
  <2> QED
    BY <1>5, <2>2, <2>3, <2>4, <2>5
<1> QED
  BY <1>8, AvailableNext DEF AvailableIn

-----------------------------------------------------------------------------
(* The invariant.                                                          *)

LEMMA Initially == Init => Inv
<1> SUFFICES ASSUME Init PROVE Inv
  OBVIOUS
<1>1. /\ plan = <<>> /\ arguments = <<>> /\ aggregates = <<>> /\ groupKeys = <<>> /\ info = <<>>
      /\ pc = "where" /\ entry = 0 /\ fresh = 0 /\ active = FALSE /\ aggregated = {}
      /\ cursor = [operator |-> 0, value |-> 0, leaf |-> 0]
  BY DEF Init, NoCursor
<1>2. /\ DOMAIN plan = {} /\ DOMAIN arguments = {} /\ DOMAIN aggregates = {}
      /\ DOMAIN groupKeys = {} /\ Len(plan) = 0
  BY <1>1
<1>3. TypeOK
  <2>1. /\ \A S : <<>> \in Seq(S)
        /\ cursor \in [operator : Nat, value : Nat, leaf : Nat]
    BY <1>1
  <2>2. /\ plan \in Seq(Operator) /\ info \in Seq(Variables) /\ groupKeys \in Seq(Columns)
        /\ arguments \in Seq([value : Argument, column : Created])
        /\ aggregates \in Seq([function : Functions, arguments : Seq(Created), column : Created])
    BY <1>1, <2>1
  <2> QED
    BY <1>1, <2>1, <2>2 DEF TypeOK, Stages
<1>4. Shape
  BY <1>1, <1>2 DEF Shape, Placed, Ordered, Reached
<1>5. Fresh /\ KeysApart /\ DefinedOnce
  BY <1>2 DEF Fresh, ColumnsFresh, ColumnsApart, DefinedOnce, KeysApart
<1>6. Leaves /\ Inactive /\ ArgumentsOK
  BY <1>1, <1>2 DEF Leaves, LeavesIn, Inactive, ArgumentsOK
<1>7. InClauseOrder /\ ValuesKept /\ Available
  BY <1>1, <1>3 DEF InClauseOrder, ValuesKept, Available
<1> QED
  BY <1>3, <1>4, <1>5, <1>6, <1>7 DEF Inv

(* The plan is finished by one of three steps.                             *)
LEMMA Finished ==
    ASSUME Inv, [Next]_vars, pc' = "done"
    PROVE  UNCHANGED vars \/ (Working /\ (Limit \/ NoLimit \/ Install))
<1> USE DEF Goto
<1>1. CASE UNCHANGED vars
  BY <1>1
<1>2. CASE Clauses
  <2>1. Limit \/ NoLimit
    BY <1>2, "done" \notin {"group", "keys", "having", "process", "select", "elements", "distinct",
                            "order", "sort", "limit", "failed"}
       DEF Clauses, Where, NoWhere, RejectWhere, BeginGroup, NoGroup, Group, RejectGroup,
           EndGroup, Having, NoHaving, BeginSelect, Select, SelectAsterisk, EndSelect, Distinct,
           NotDistinct, BeginOrder, NoOrder, SortKey, RejectSortKey, EndOrder, RejectLimit, Fail
  <2> QED
    BY <2>1 DEF Limit, NoLimit, Working
<1>3. CASE Processing
  <2>1. Install
    <3>1. ~EndOperator
      <4>1. EndOperator => pc' \in {"select", "process", "install"}
        BY DEF EndOperator
      <4> QED
        BY <4>1
    <3> QED
      BY <1>3, <3>1 DEF Processing, KeepColumn, RejectColumn, Consume, Reuse, RejectCall, EndValue,
         AtColumn, AtCall, AtLeaf, Fail
  <2> QED
    BY <2>1 DEF Install, Working
<1> QED
  BY <1>1, <1>2, <1>3 DEF Next

LEMMA Invariance == Inv /\ [Next]_vars => Inv'
<1> SUFFICES ASSUME Inv, [Next]_vars PROVE Inv'
  OBVIOUS
<1>1. /\ TypeOK /\ DefinedOnce
      /\ Working => /\ Shape /\ Fresh /\ KeysApart
                    /\ Leaves /\ Inactive /\ ArgumentsOK
  BY DEF Inv
<1>2. TypeOK'
  BY <1>1, Types DEF Fresh
<1>3. DefinedOnce' /\ (Working' => Fresh' /\ ArgumentsOK' /\ KeysApart')
  BY <1>1, VariablesOnce
<1>4. Working' => Shape' /\ Leaves' /\ Inactive'
  BY <1>1, Shapes, AllLeaves, Activity
<1>5. InClauseOrder' /\ ValuesKept' /\ Available'
  <2>1. CASE pc' # "done"
    BY <1>2, <2>1 DEF InClauseOrder, ValuesKept, Available
  <2>2. CASE UNCHANGED vars
    <3>1. InClauseOrder /\ ValuesKept /\ Available
      BY DEF Inv
    <3>2. UNCHANGED <<plan, pc, arguments, aggregates>>
      BY <2>2 DEF vars, processor
    <3>3. InClauseOrder'
      BY <3>1, <3>2 DEF InClauseOrder, Rank
    <3>4. ValuesKept'
      BY <3>1, <3>2 DEF ValuesKept, Denotes, Holds
    <3>5. Available'
      BY <1>2, <3>1, <3>2 DEF Available, Positions, Provided, Hidden
    <3> QED
      BY <3>3, <3>4, <3>5
  <2>3. CASE pc' = "done" /\ Working /\ (Limit \/ NoLimit)
    BY <1>1, <1>2, <2>3, FinishedPlain DEF Working
  <2>4. CASE Working /\ Install
    BY <1>1, <1>2, <2>4, OrderInstalled, ValuesInstalled, ReadsInstalled
  <2> QED
    BY <2>1, <2>2, <2>3, <2>4, Finished
<1> QED
  BY <1>2, <1>3, <1>4, <1>5 DEF Inv

-----------------------------------------------------------------------------
(* The results.                                                            *)

(* In every query the operators of the finished plan apply in the order    *)
(* SQL gives to the clauses, one for each clause at most, with the         *)
(* aggregation between WHERE and HAVING although install() puts it in      *)
(* last; and no variable is defined twice, neither by the projections nor  *)
(* by consume().                                                           *)
THEOREM OperatorsRight == Spec => []OperatorsExact
<1>1. Inv => OperatorsExact
  BY DEF Inv, OperatorsExact
<1> QED
  BY <1>1, Initially, Invariance, PTL DEF Spec

(* In every query the values of a finished plan are those that were        *)
(* written: the engine keeps the variables, and for a call it puts the     *)
(* variable of the same function over the same arguments, whether          *)
(* consume() made an aggregation for it or found one to use again.         *)
THEOREM ValuesRight == Spec => []ValuesKept
<1>1. Inv => ValuesKept
  BY DEF Inv
<1> QED
  BY <1>1, Initially, Invariance, PTL DEF Spec

(* In every query an operator of the finished plan reads only variables    *)
(* that reach it, below the aggregation those of the FROM clause and       *)
(* above it the keys and the results alone, and no set function is left.   *)
THEOREM ReadsRight == Spec => []Available
<1>1. Inv => Available
  BY DEF Inv
<1> QED
  BY <1>1, Initially, Invariance, PTL DEF Spec

=============================================================================
