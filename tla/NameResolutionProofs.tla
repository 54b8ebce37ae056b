------------------------ MODULE NameResolutionProofs ------------------------
(***************************************************************************)
(* Proofs about NameResolution, for any names and any number of scopes and *)
(* relations.                                                              *)
(***************************************************************************)
EXTENDS NameResolution, SequenceTheorems, WellFoundedInduction, TLAPS

(***************************************************************************)
(* The inductive invariant.  A parameter scope has below it the scope its  *)
(* subquery stands in, and keeps what that scope's features were before it *)
(* was exposed.                                                            *)
(***************************************************************************)
FeaturesSaved ==
    /\ stack # <<>> => stack[1].kind = "query"
    /\ \A d \in 1..Depth :
          stack[d].kind = "parameter" =>
              d > 1 /\ stack[d].saved = stack[d - 1].features \ {"expose"}

(* The column behind a parameter is of a scope further out, and its name   *)
(* is the one its source has.                                              *)
ParametersFromOutside ==
    \A e \in 1..Depth : \A i \in DOMAIN stack[e].parameters :
        LET p == stack[e].parameters[i] IN
        p.alias.depth < e /\ p.alias.name = p.free.name

(* The column that was found is the one of the nearest scope that answers. *)
FoundNearest ==
    LET answering == IF qualifier = NoId THEN Holding(name) ELSE Naming(qualifier) IN
    /\ found.depth \in answering
    /\ \A d \in answering : d <= found.depth
    /\ found.index \in Matches(found.depth, name)
    /\ qualifier # NoId => found.index \in Called(found.depth, qualifier)

(* A parameter that leads to the column that was found.                    *)
LeadsToFound(variable) ==
    /\ variable.parameter
    /\ variable.depth \in Scopes(found.depth)
    /\ variable.index \in DOMAIN stack[variable.depth].parameters
    /\ variable.name = found.name
    /\ stack[variable.depth].parameters[variable.index].alias = found

(* While parameters are added, the column is of an exposed scope, and the  *)
(* variable in hand is the column itself, or its parameter of the last     *)
(* scope.                                                                  *)
Threading ==
    pc = "thread" =>
        /\ reference = NoVariable
        /\ ~found.parameter
        /\ found.depth \in 1..(Depth - 1)
        /\ "expose" \in stack[found.depth].features
        /\ FoundNearest
        /\ \/ current = found /\ level = found.depth
           \/ LeadsToFound(current) /\ level = current.depth

Inv ==
    /\ FramesExact /\ FeaturesSaved
    /\ ParametersExact /\ ParametersFromOutside
    /\ Threading /\ ReferenceExact

(***************************************************************************)
(* A set of positions that is not empty has a greatest element, so the     *)
(* nearest scope that answers is well defined.                             *)
(***************************************************************************)
LEMMA NearestScope ==
    ASSUME NEW n \in Nat, NEW depths \in SUBSET (1..n), depths # {}
    PROVE  Nearest(depths) \in depths /\ \A e \in depths : e <= Nearest(depths)
<1> DEFINE R == {ss \in Nat \X Nat : ss[1] < ss[2]}
           T == {n - d : d \in depths}
<1>1. IsWellFoundedOn(R, Nat)
  BY NatLessThanWellFounded DEF OpToRel
<1>2. T \in SUBSET Nat /\ T # {}
  <2>1. \A d \in depths : n - d \in Nat
    OBVIOUS
  <2> QED BY <2>1
<1>3. PICK m \in T : \A k \in T : ~(<<k, m>> \in R)
  <2> HIDE DEF R, T
  <2> QED BY <1>1, <1>2, WFMin
<1>4. PICK d \in depths : m = n - d
  BY <1>3
<1>5. ASSUME NEW e \in depths PROVE e <= d
  <2>1. n - e \in T /\ n - e \in Nat /\ m \in Nat
    BY <1>2
  <2>2. ~(<<n - e, m>> \in R)
    BY <1>3, <2>1
  <2>3. <<n - e, m>> \in Nat \X Nat /\ <<n - e, m>>[1] = n - e /\ <<n - e, m>>[2] = m
    BY <2>1
  <2>4. ~(n - e < m)
    BY <2>2, <2>3
  <2> QED BY <1>4, <2>4
<1> HIDE DEF T
<1> QED BY <1>5 DEF Nearest

(***************************************************************************)
(* Changes of the stack: one scope is replaced, appended or removed.       *)
(***************************************************************************)
LEMMA ReplacedFrame ==
    ASSUME stack \in Seq(Frame), NEW d \in 1..Depth, NEW f \in Frame,
           stack' = [stack EXCEPT ![d] = f]
    PROVE  /\ stack' \in Seq(Frame) /\ Depth' = Depth /\ stack'[d] = f
           /\ \A e \in 1..Depth : e # d => stack'[e] = stack[e]
BY DEF Depth

LEMMA AppendedFrame ==
    ASSUME stack \in Seq(Frame), NEW f \in Frame, stack' = Append(stack, f)
    PROVE  /\ stack' \in Seq(Frame) /\ Depth' = Depth + 1 /\ stack'[Depth + 1] = f
           /\ \A e \in 1..Depth : stack'[e] = stack[e]
BY DEF Depth

LEMMA BelowFrames ==
    ASSUME stack \in Seq(Frame), stack # <<>>
    PROVE  /\ Below \in Seq(Frame) /\ Len(Below) = Depth - 1 /\ Depth \in Nat \ {0}
           /\ \A e \in 1..(Depth - 1) : Below[e] = stack[e]
<1> DEFINE n == Len(stack) - 1
<1>1. n \in Nat /\ Depth = n + 1 /\ \A i \in 1..n : stack[i] \in Frame
  BY DEF Depth
<1>2. \A e \in 1..(Depth - 1) : Below[e] = stack[e]
  BY <1>1 DEF Depth, Below
<1> HIDE DEF n
<1>3. /\ SubSeq(stack, 1, n) \in Seq(Frame)
      /\ Len(SubSeq(stack, 1, n)) = IF 1 <= n THEN n - 1 + 1 ELSE 0
  BY <1>1, SubSeqProperties
<1>4. (IF 1 <= n THEN n - 1 + 1 ELSE 0) = n
  BY <1>1
<1>5. SubSeq(stack, 1, n) = Below
  BY DEF n, Below
<1> QED BY <1>1, <1>2, <1>3, <1>4, <1>5

(***************************************************************************)
(* What an action of Scoping does to the scopes, as far as the invariant   *)
(* can tell.                                                               *)
(***************************************************************************)
SameBut(f, features, g) ==
    /\ g.kind = f.kind /\ g.saved = f.saved
    /\ g.features = features /\ g.parameters = f.parameters
Same(f, g) == SameBut(f, f.features, g)

Left == stack' = <<>>

Edited == Depth' = Depth /\ \A d \in 1..Depth : Same(stack[d], stack'[d])

Opened ==
    /\ Depth' = Depth + 1
    /\ \A d \in 1..Depth : Same(stack[d], stack'[d])
    /\ LET new == stack'[Depth + 1] IN
       /\ new.kind # "parameter"
       /\ Depth = 0 => new.kind = "query"
       /\ new.features = Created(new.kind) /\ new.parameters = <<>>

OpenedSubquery ==
    /\ Depth > 0 /\ Depth' = Depth + 1
    /\ \A d \in 1..(Depth - 1) : Same(stack[d], stack'[d])
    /\ SameBut(Top, Top.features \cup {"expose"}, stack'[Depth])
    /\ LET new == stack'[Depth + 1] IN
       /\ new.kind = "parameter" /\ new.saved = Top.features
       /\ new.features = Created("parameter") /\ new.parameters = <<>>

Closed ==
    /\ Depth > 0 /\ Depth' = Depth - 1 /\ Top.kind # "parameter"
    /\ \A d \in 1..(Depth - 1) : Same(stack[d], stack'[d])

ClosedSubquery ==
    /\ Depth > 1 /\ Depth' = Depth - 1 /\ Top.kind = "parameter"
    /\ \A d \in 1..(Depth - 2) : Same(stack[d], stack'[d])
    /\ SameBut(stack[Depth - 1], Top.saved, stack'[Depth - 1])

Scoped ==
    /\ stack' \in Seq(Frame) /\ Depth' <= MaxDepth
    /\ Left \/ Edited \/ Opened \/ OpenedSubquery \/ Closed \/ ClosedSubquery

Quiet == pc' = "idle" /\ qualifier' = NoId /\ name' = NoName /\ found' = NoVariable
         /\ current' = NoVariable /\ level' = 0 /\ reference' = NoVariable

LEMMA NewFrameType ==
    ASSUME NEW kind \in {"query", "derived", "parameter", "common"},
           NEW phase \in {"with", "body", "around"},
           NEW features \in SUBSET {"expose", "independent", "correlation"},
           NEW saved \in SUBSET {"expose", "independent", "correlation"}
    PROVE  NewFrame(kind, phase, features, saved) \in Frame
<1>1. <<>> \in Seq(Relation) /\ <<>> \in Seq([free : Variable, alias : Variable])
  OBVIOUS
<1>2. [id \in Ids |-> NoColumns] \in [Ids -> SUBSET Names]
  BY DEF NoColumns
<1> QED BY <1>1, <1>2 DEF NewFrame, Frame, NoColumns

LEMMA CreatedFeatures ==
    /\ Created("query") = {} /\ Created("derived") = {}
    /\ Created("parameter") = {"correlation"} /\ Created("common") = {"independent"}
BY DEF Created

LEMMA QueryFrameFields ==
    QueryFrame.kind = "query" /\ QueryFrame.parameters = <<>>
        /\ QueryFrame.features = Created("query")
BY CreatedFeatures DEF QueryFrame, NewFrame

LEMMA FailStep == Fail => Scoped /\ Quiet
BY BoundsAssumption DEF Fail, Scoped, Left, Quiet, Depth

LEMMA OpenStatementStep == Inv /\ OpenStatement => Scoped /\ Quiet
<1> SUFFICES ASSUME Inv, OpenStatement PROVE Scoped /\ Quiet
  OBVIOUS
<1>1. QueryFrame \in Frame
  BY NewFrameType DEF QueryFrame
<1>2. stack \in Seq(Frame) /\ Depth = 0 /\ stack' = Append(stack, QueryFrame) /\ Depth < MaxDepth
  BY DEF Inv, FramesExact, TypeOK, OpenStatement, Push, Depth
<1>3. /\ stack' \in Seq(Frame) /\ Depth' = 1 /\ stack'[1] = QueryFrame
  BY <1>1, <1>2, AppendedFrame
<1>4. Opened
  <2>1. stack'[Depth + 1] = QueryFrame /\ Depth + 1 = 1 /\ 1..Depth = {}
    BY <1>2, <1>3
  <2> QED BY <1>3, <2>1, QueryFrameFields DEF Opened
<1> QED BY <1>2, <1>3, <1>4, BoundsAssumption DEF OpenStatement, Idle, Scoped, Quiet

LEMMA OpenQueryStep == Inv /\ OpenQuery => Scoped /\ Quiet
<1> SUFFICES ASSUME Inv, OpenQuery PROVE Scoped /\ Quiet
  OBVIOUS
<1> DEFINE around == [Top EXCEPT !.phase = "around"]
           edited == [stack EXCEPT ![Depth] = around]
<1>1. /\ stack \in Seq(Frame) /\ Depth \in Nat \ {0} /\ Top \in Frame /\ Depth < MaxDepth
      /\ stack' = Append(edited, QueryFrame)
  BY DEF Inv, FramesExact, TypeOK, OpenQuery, Depth, Top
<1>2. around \in Frame /\ Same(Top, around)
  BY <1>1 DEF Frame, SameBut, Same
<1>3. /\ edited \in Seq(Frame) /\ Len(edited) = Depth /\ edited[Depth] = around
      /\ \A e \in 1..Depth : e # Depth => edited[e] = stack[e]
  BY <1>1, <1>2 DEF Depth
<1> HIDE DEF edited, around
<1>4. QueryFrame \in Frame
  BY NewFrameType DEF QueryFrame
<1>5. /\ stack' \in Seq(Frame) /\ Depth' = Depth + 1 /\ stack'[Depth + 1] = QueryFrame
      /\ \A e \in 1..Depth : stack'[e] = edited[e]
  BY <1>1, <1>3, <1>4 DEF Depth
<1>6. \A e \in 1..Depth : Same(stack[e], stack'[e])
  BY <1>2, <1>3, <1>5 DEF SameBut, Same, Top, Depth
<1>7. Opened
  BY <1>1, <1>5, <1>6, QueryFrameFields DEF Opened
<1> QED BY <1>1, <1>5, <1>7, BoundsAssumption DEF OpenQuery, Idle, Scoped, Quiet

(* A scope is appended, and no parameter scope.                            *)
LEMMA PushStep ==
    ASSUME Inv, stack # <<>>, NEW kind \in {"derived", "common"}, Idle,
           Push(NewFrame(kind, "around", Created(kind), {}))
    PROVE  Scoped /\ Quiet
<1> DEFINE new == NewFrame(kind, "around", Created(kind), {})
<1>1. /\ stack \in Seq(Frame) /\ Depth \in Nat \ {0} /\ Depth < MaxDepth
      /\ stack' = Append(stack, new)
  BY DEF Inv, FramesExact, TypeOK, Push, Depth
<1>2. Created(kind) \in SUBSET {"expose", "independent", "correlation"}
  BY CreatedFeatures
<1>3. new \in Frame
  BY <1>2, NewFrameType
<1>4. new.kind = kind /\ new.features = Created(kind) /\ new.parameters = <<>>
  BY DEF NewFrame
<1> HIDE DEF new
<1>5. /\ stack' \in Seq(Frame) /\ Depth' = Depth + 1 /\ stack'[Depth + 1] = new
      /\ \A e \in 1..Depth : stack'[e] = stack[e]
  BY <1>1, <1>3, AppendedFrame
<1>6. Opened
  BY <1>1, <1>4, <1>5 DEF Opened, SameBut, Same
<1> QED BY <1>1, <1>5, <1>6, BoundsAssumption DEF Idle, Scoped, Quiet

LEMMA OpenCommonTableStep == Inv /\ OpenCommonTable => Scoped /\ Quiet
BY PushStep, CreatedFeatures DEF OpenCommonTable

LEMMA OpenDerivedStep == Inv /\ OpenDerived => Scoped /\ Quiet
BY PushStep, CreatedFeatures DEF OpenDerived, InBody

(* The last scope is edited, without a change of what matters here.        *)
LEMMA EditStep ==
    ASSUME Inv, stack # <<>>, Idle, NEW f \in Frame, Same(Top, f),
           stack' = [stack EXCEPT ![Depth] = f]
    PROVE  Scoped /\ Quiet
<1>1. stack \in Seq(Frame) /\ Depth \in 1..Depth /\ Depth <= MaxDepth /\ Top = stack[Depth]
  BY DEF Inv, FramesExact, TypeOK, Depth, Top
<1>2. /\ stack' \in Seq(Frame) /\ Depth' = Depth /\ stack'[Depth] = f
      /\ \A e \in 1..Depth : e # Depth => stack'[e] = stack[e]
  BY <1>1, ReplacedFrame
<1>3. Edited
  BY <1>1, <1>2 DEF Edited, SameBut, Same
<1> QED BY <1>1, <1>2, <1>3 DEF Idle, Scoped, Quiet

LEMMA BeginBodyStep == Inv /\ BeginBody => Scoped /\ Quiet
<1> SUFFICES ASSUME Inv, BeginBody PROVE Scoped /\ Quiet
  OBVIOUS
<1>1. Top \in Frame
  BY DEF Inv, FramesExact, TypeOK, BeginBody, Top
<1>2. [Top EXCEPT !.phase = "body"] \in Frame /\ Same(Top, [Top EXCEPT !.phase = "body"])
  BY <1>1 DEF Frame, SameBut, Same
<1> QED BY <1>2, EditStep DEF BeginBody, ReplaceTop

(* The frame of a query with one more relation.                            *)
LEMMA RelationAppended ==
    ASSUME NEW f \in Frame, NEW id \in Ids \cup {NoId}, NEW columns \in SUBSET Names,
           NEW g, g = [f EXCEPT !.relations = Append(@, [id |-> id, columns |-> columns])]
    PROVE  g \in Frame /\ Same(f, g)
<1>1. [id |-> id, columns |-> columns] \in Relation
  BY DEF Relation
<1>2. f.relations \in Seq(Relation)
  BY DEF Frame
<1>3. Append(f.relations, [id |-> id, columns |-> columns]) \in Seq(Relation)
  BY <1>1, <1>2
<1> QED BY <1>3 DEF Frame, SameBut, Same

LEMMA AddRelationStep ==
    ASSUME Inv, NEW id \in Ids, NEW correlation \in Ids \cup {NoId}, NEW columns \in SUBSET Names,
           AddRelation(id, correlation, columns)
    PROVE  Scoped /\ Quiet
<1> DEFINE f == [Top EXCEPT !.relations = Append(@, [id |-> correlation, columns |-> columns])]
<1>1. Top \in Frame
  BY DEF Inv, FramesExact, TypeOK, AddRelation, InBody, Top
<1>2. f \in Frame /\ Same(Top, f)
  BY <1>1, RelationAppended
<1>3. stack' = [stack EXCEPT ![Depth] = f] /\ stack # <<>> /\ Idle
  BY DEF AddRelation, InBody, Top, Depth
<1> HIDE DEF f
<1> QED BY <1>2, <1>3, EditStep

(* The last scope goes, and the one below it is edited.                    *)
LEMMA RemovedFrame ==
    ASSUME Inv, Depth > 1, NEW f \in Frame, stack' = [Below EXCEPT ![Depth - 1] = f]
    PROVE  /\ stack' \in Seq(Frame) /\ Depth \in Nat /\ Depth' = Depth - 1 /\ Depth' <= MaxDepth
           /\ stack'[Depth - 1] = f
           /\ \A e \in 1..(Depth - 2) : stack'[e] = stack[e]
<1>1. stack \in Seq(Frame) /\ Depth \in Nat /\ Depth <= MaxDepth /\ stack # <<>>
  BY DEF Inv, FramesExact, TypeOK, Depth
<1>2. /\ Below \in Seq(Frame) /\ Len(Below) = Depth - 1
      /\ \A e \in 1..(Depth - 1) : Below[e] = stack[e]
  BY <1>1, BelowFrames
<1> DEFINE n == Depth - 1
<1>3. n \in 1..n /\ n < Depth /\ Len(Below) = n /\ stack' = [Below EXCEPT ![n] = f]
  BY <1>1, <1>2
<1> HIDE DEF n
<1>4. /\ stack' \in Seq(Frame) /\ Len(stack') = n /\ stack'[n] = f
      /\ \A e \in 1..n : e # n => stack'[e] = Below[e]
  BY <1>2, <1>3
<1>5. \A e \in 1..(Depth - 2) : e \in 1..n /\ e # n /\ e \in 1..(Depth - 1)
  BY <1>1 DEF n
<1>6. Depth' = Depth - 1 /\ stack'[Depth - 1] = f
  BY <1>4 DEF n, Depth
<1> QED BY <1>1, <1>2, <1>3, <1>4, <1>5, <1>6, BoundsAssumption

LEMMA CloseStep ==
    ASSUME Inv, Depth > 1, Idle, Top.kind # "parameter",
           NEW f \in Frame, Same(stack[Depth - 1], f), stack' = [Below EXCEPT ![Depth - 1] = f]
    PROVE  Scoped /\ Quiet
<1>1. /\ stack' \in Seq(Frame) /\ Depth \in Nat /\ Depth' = Depth - 1 /\ Depth' <= MaxDepth
      /\ stack'[Depth - 1] = f
      /\ \A e \in 1..(Depth - 2) : stack'[e] = stack[e]
  BY RemovedFrame
<1>2. \A e \in 1..(Depth - 1) : e = Depth - 1 \/ e \in 1..(Depth - 2)
  BY <1>1
<1>3. Closed
  BY <1>1, <1>2 DEF Closed, SameBut, Same
<1> QED BY <1>1, <1>3 DEF Idle, Scoped, Quiet

(* What the scopes below the last one are.                                 *)
LEMMA InnerScope ==
    ASSUME Inv, stack # <<>>, Top.kind # "query" \/ Depth # 1
    PROVE  /\ Depth \in Nat /\ Depth > 1 /\ Depth - 1 \in 1..Depth
           /\ Top = stack[Depth] /\ Top \in Frame
           /\ stack[Depth - 1] \in Frame /\ Below[Depth - 1] = stack[Depth - 1]
<1>1. stack \in Seq(Frame) /\ Depth \in Nat \ {0} /\ Top = stack[Depth]
  BY DEF Inv, FramesExact, TypeOK, Depth, Top
<1>2. Depth # 1
  BY <1>1 DEF Inv, FeaturesSaved
<1>3. Depth > 1 /\ Depth - 1 \in 1..(Depth - 1)
  BY <1>1, <1>2
<1> QED BY <1>1, <1>3, BelowFrames DEF Depth

LEMMA CloseCommonTableStep ==
    ASSUME Inv, NEW id \in Ids, CloseCommonTable(id)
    PROVE  Scoped /\ Quiet
<1>1. CASE Fail
  BY <1>1, FailStep
<1>2. CASE ~Fail
  <2> DEFINE f == [stack[Depth - 1] EXCEPT !.queries[id] = Top.result]
  <2>1. stack # <<>> /\ Top.kind = "common" /\ Idle
        /\ stack' = [Below EXCEPT ![Depth - 1].queries[id] = Top.result]
    BY <1>2 DEF CloseCommonTable
  <2>2. /\ Depth > 1 /\ stack[Depth - 1] \in Frame /\ Top \in Frame
        /\ Below[Depth - 1] = stack[Depth - 1]
    BY <2>1, InnerScope
  <2>3. Top.result \in SUBSET Names /\ stack[Depth - 1].queries \in [Ids -> SUBSET Names]
    BY <2>2 DEF Frame
  <2>4. f \in Frame /\ Same(stack[Depth - 1], f)
    BY <2>2, <2>3 DEF Frame, SameBut, Same
  <2>5. stack' = [Below EXCEPT ![Depth - 1] = f]
    BY <2>1, <2>2
  <2> HIDE DEF f
  <2> QED BY <2>1, <2>2, <2>4, <2>5, CloseStep
<1> QED BY <1>1, <1>2

LEMMA CloseDerivedStep ==
    ASSUME Inv, NEW correlation \in Ids, CloseDerived(correlation)
    PROVE  Scoped /\ Quiet
<1> DEFINE f == [stack[Depth - 1] EXCEPT !.relations =
                     Append(@, [id |-> correlation, columns |-> Top.result])]
<1>1. stack # <<>> /\ Top.kind = "derived" /\ Idle
      /\ stack' = [Below EXCEPT ![Depth - 1].relations =
                       Append(@, [id |-> correlation, columns |-> Top.result])]
  BY DEF CloseDerived
<1>2. /\ Depth > 1 /\ stack[Depth - 1] \in Frame /\ Top \in Frame
      /\ Below[Depth - 1] = stack[Depth - 1]
  BY <1>1, InnerScope
<1>3. Top.result \in SUBSET Names
  BY <1>2 DEF Frame
<1>4. f \in Frame /\ Same(stack[Depth - 1], f)
  BY <1>2, <1>3, RelationAppended
<1>5. stack' = [Below EXCEPT ![Depth - 1] = f]
  BY <1>1, <1>2
<1> HIDE DEF f
<1> QED BY <1>1, <1>2, <1>4, <1>5, CloseStep

LEMMA CloseQueryStep ==
    ASSUME Inv, NEW columns \in ColumnSets, CloseQuery(columns)
    PROVE  Scoped /\ Quiet
<1>1. CASE Fail
  BY <1>1, FailStep
<1>2. CASE Depth = 1 /\ ~Fail
  BY <1>2, BoundsAssumption DEF CloseQuery, Idle, Scoped, Left, Quiet, Depth
<1>3. CASE Depth # 1 /\ ~Fail
  <2> DEFINE f == [stack[Depth - 1] EXCEPT !.result = IF @ = NoColumns THEN columns ELSE @]
  <2>1. stack # <<>> /\ Top.kind = "query" /\ Idle
        /\ stack' = [Below EXCEPT ![Depth - 1].result = IF @ = NoColumns THEN columns ELSE @]
    BY <1>3 DEF CloseQuery
  <2>2. /\ Depth > 1 /\ stack[Depth - 1] \in Frame /\ Top \in Frame
        /\ Below[Depth - 1] = stack[Depth - 1]
    BY <1>3, <2>1, InnerScope
  <2>3. (IF stack[Depth - 1].result = NoColumns THEN columns ELSE stack[Depth - 1].result)
            \in SUBSET Names
    BY <2>2 DEF Frame, ColumnSets
  <2>4. f \in Frame /\ Same(stack[Depth - 1], f)
    BY <2>2, <2>3 DEF Frame, SameBut, Same
  <2>5. stack' = [Below EXCEPT ![Depth - 1] = f]
    BY <2>1, <2>2
  <2> HIDE DEF f
  <2> QED BY <2>1, <2>2, <2>4, <2>5, CloseStep
<1> QED BY <1>1, <1>2, <1>3

LEMMA CloseSubqueryStep == Inv /\ CloseSubquery => Scoped /\ Quiet
<1> SUFFICES ASSUME Inv, CloseSubquery PROVE Scoped /\ Quiet
  OBVIOUS
<1> DEFINE f == [stack[Depth - 1] EXCEPT !.features = Top.saved]
<1>1. stack # <<>> /\ Top.kind = "parameter" /\ Idle
      /\ stack' = [Below EXCEPT ![Depth - 1].features = Top.saved]
  BY DEF CloseSubquery
<1>2. /\ Depth > 1 /\ stack[Depth - 1] \in Frame /\ Top \in Frame
      /\ Below[Depth - 1] = stack[Depth - 1]
  BY <1>1, InnerScope
<1>3. Top.saved \in SUBSET {"expose", "independent", "correlation"}
  BY <1>2 DEF Frame
<1>4. f \in Frame
  BY <1>2, <1>3 DEF Frame
<1>5. stack' = [Below EXCEPT ![Depth - 1] = f]
  BY <1>1, <1>2
<1> HIDE DEF f
<1>6. /\ stack' \in Seq(Frame) /\ Depth' = Depth - 1 /\ Depth' <= MaxDepth
      /\ stack'[Depth - 1] = f
      /\ \A e \in 1..(Depth - 2) : stack'[e] = stack[e]
  BY <1>2, <1>4, <1>5, RemovedFrame
<1>7. ClosedSubquery
  <2>1. SameBut(stack[Depth - 1], Top.saved, stack'[Depth - 1])
    BY <1>2, <1>3, <1>6 DEF SameBut, f, Frame
  <2>2. \A d \in 1..(Depth - 2) : Same(stack[d], stack'[d])
    BY <1>6 DEF SameBut, Same
  <2> QED BY <1>1, <1>2, <1>6, <2>1, <2>2 DEF ClosedSubquery
<1> QED BY <1>1, <1>6, <1>7 DEF Idle, Scoped, Quiet

LEMMA OpenSubqueryStep == Inv /\ OpenSubquery => Scoped /\ Quiet
<1> SUFFICES ASSUME Inv, OpenSubquery PROVE Scoped /\ Quiet
  OBVIOUS
<1> DEFINE exposed == [Top EXCEPT !.features = @ \cup {"expose"}]
           edited == [stack EXCEPT ![Depth] = exposed]
           new == NewFrame("parameter", "around", {"correlation"}, Top.features)
<1>1. /\ stack \in Seq(Frame) /\ Depth \in Nat \ {0} /\ Top \in Frame /\ Depth < MaxDepth
      /\ stack' = Append(edited, new)
  BY DEF Inv, FramesExact, TypeOK, OpenSubquery, InBody, Depth, Top
<1>2. Top.features \in SUBSET {"expose", "independent", "correlation"}
  BY <1>1 DEF Frame
<1>3. exposed \in Frame /\ new \in Frame
  <2>1. exposed \in Frame
    BY <1>1, <1>2 DEF Frame
  <2>2. new \in Frame
    BY <1>2, NewFrameType
  <2> QED BY <2>1, <2>2
<1>4. /\ edited \in Seq(Frame) /\ Len(edited) = Depth /\ edited[Depth] = exposed
      /\ \A e \in 1..Depth : e # Depth => edited[e] = stack[e]
  BY <1>1, <1>3 DEF Depth
<1>5. /\ new.kind = "parameter" /\ new.saved = Top.features /\ new.features = Created("parameter")
      /\ new.parameters = <<>>
  BY CreatedFeatures DEF NewFrame
<1> HIDE DEF edited, new, exposed
<1>6. /\ stack' \in Seq(Frame) /\ Depth' = Depth + 1 /\ stack'[Depth + 1] = new
      /\ \A e \in 1..Depth : stack'[e] = edited[e]
  BY <1>1, <1>3, <1>4 DEF Depth
<1>7. \A e \in 1..(Depth - 1) : e \in 1..Depth /\ e # Depth
  BY <1>1
<1>8. stack'[Depth] = exposed /\ \A e \in 1..(Depth - 1) : stack'[e] = stack[e]
  BY <1>1, <1>4, <1>6, <1>7
<1>9. OpenedSubquery
  <2>1. SameBut(Top, Top.features \cup {"expose"}, stack'[Depth])
    BY <1>8 DEF SameBut, Same, exposed
  <2>2. \A d \in 1..(Depth - 1) : Same(stack[d], stack'[d])
    BY <1>8 DEF SameBut, Same
  <2>3. Depth > 0 /\ Depth' = Depth + 1
    BY <1>1, <1>6
  <2>4. LET top == stack'[Depth + 1] IN
        /\ top.kind = "parameter" /\ top.saved = Top.features
        /\ top.features = Created("parameter") /\ top.parameters = <<>>
    BY <1>5, <1>6
  <2> QED BY <2>1, <2>2, <2>3, <2>4 DEF OpenedSubquery
<1> QED BY <1>1, <1>6, <1>9, BoundsAssumption DEF OpenSubquery, Idle, Scoped, Quiet

LEMMA ScopingStep == Inv /\ Scoping => Scoped /\ Quiet
BY OpenStatementStep, OpenQueryStep, OpenCommonTableStep, CloseCommonTableStep, BeginBodyStep,
   AddRelationStep, OpenDerivedStep, CloseDerivedStep, OpenSubqueryStep, CloseSubqueryStep,
   CloseQueryStep DEF Scoping

(***************************************************************************)
(* The scopes keep their features, whatever opens and closes.              *)
(***************************************************************************)
LEMMA QuietTypes == Quiet => /\ pc' \in {"idle", "thread"} /\ qualifier' \in Ids \cup {NoId}
                             /\ name' \in Names \cup {NoName} /\ found' \in Variable
                             /\ current' \in Variable /\ level' \in Nat /\ reference' \in Variable
BY DEF Quiet, NoVariable, Variable

(* What the frames of a stack must be, one by one.                         *)
FrameExact(d) ==
    /\ stack[d].features \ {"expose"} = Created(stack[d].kind)
    /\ "expose" \in stack[d].features <=> d < Depth /\ stack[d + 1].kind = "parameter"
    /\ d = 1 => stack[d].kind = "query"
    /\ stack[d].kind = "parameter" =>
          d > 1 /\ stack[d].saved = stack[d - 1].features \ {"expose"}


LEMMA FramesKept ==
    ASSUME Inv, Scoped, Quiet
    PROVE  FramesExact' /\ FeaturesSaved'
<1>1. stack \in Seq(Frame) /\ Depth \in Nat /\ stack' \in Seq(Frame) /\ Depth' \in Nat
      /\ Depth' <= MaxDepth
  BY DEF Inv, FramesExact, TypeOK, Scoped, Depth
<1>2. \A d \in 1..Depth : FrameExact(d)
  BY <1>1 DEF Inv, FramesExact, TypeOK, ExposeExact, FeaturesSaved, FrameExact, Depth
<1>3. \A d \in 1..Depth : stack[d] \in Frame
  BY <1>1 DEF Depth
<1>4. \A d \in 1..Depth' : "expose" \notin Created(stack'[d].kind)
  <2>1. \A d \in 1..Depth' : stack'[d] \in Frame
    BY <1>1 DEF Depth
  <2> QED BY <2>1, CreatedFeatures DEF Frame
<1>5. ASSUME NEW d \in 1..Depth' PROVE FrameExact(d)'
  <2>1. CASE Left
    BY <1>5, <2>1 DEF Left, Depth
  <2>2. CASE Edited
    <3>1. d \in 1..Depth /\ FrameExact(d) /\ Same(stack[d], stack'[d])
      BY <1>2, <1>5, <2>2 DEF Edited
    <3>2. d < Depth => Same(stack[d + 1], stack'[d + 1])
      BY <1>1, <3>1, <2>2 DEF Edited
    <3>3. d > 1 => Same(stack[d - 1], stack'[d - 1])
      BY <1>1, <3>1, <2>2 DEF Edited
    <3> QED BY <1>1, <2>2, <3>1, <3>2, <3>3 DEF FrameExact, Edited, SameBut, Same
  <2>3. CASE Opened
    <3>1. CASE d = Depth + 1
      <4>1. stack'[d].features = Created(stack'[d].kind) /\ stack'[d].kind # "parameter"
            /\ (d = 1 => stack'[d].kind = "query")
        BY <1>1, <2>3, <3>1 DEF Opened
      <4> QED BY <1>1, <1>4, <2>3, <3>1, <4>1 DEF Opened, FrameExact
    <3>2. CASE d # Depth + 1
      <4>1. d \in 1..Depth /\ FrameExact(d) /\ Same(stack[d], stack'[d])
        BY <1>1, <1>2, <2>3, <3>2 DEF Opened
      <4>2. d < Depth => Same(stack[d + 1], stack'[d + 1])
        BY <1>1, <4>1, <2>3 DEF Opened
      <4>3. d > 1 => Same(stack[d - 1], stack'[d - 1])
        BY <1>1, <4>1, <2>3 DEF Opened
      <4>4. d = Depth => stack'[d + 1].kind # "parameter" /\ "expose" \notin stack[d].features
        BY <4>1, <2>3 DEF Opened, FrameExact
      <4> QED BY <1>1, <2>3, <4>1, <4>2, <4>3, <4>4 DEF FrameExact, Opened, SameBut, Same
    <3> QED BY <3>1, <3>2
  <2>4. CASE OpenedSubquery
    <3>1. Depth \in 1..Depth /\ "expose" \notin Top.features /\ Top = stack[Depth]
          /\ FrameExact(Depth) /\ SameBut(Top, Top.features \cup {"expose"}, stack'[Depth])
          /\ stack'[Depth + 1].kind = "parameter" /\ stack'[Depth + 1].saved = Top.features
      BY <1>1, <1>2, <2>4 DEF OpenedSubquery, FrameExact, Top, Depth
    <3>2. CASE d = Depth + 1
      <4>1. /\ stack'[d].features = Created("parameter") /\ stack'[d].kind = "parameter"
            /\ d > 1 /\ d = Depth' /\ d - 1 = Depth
            /\ stack'[d].saved = stack'[d - 1].features \ {"expose"}
        BY <1>1, <2>4, <3>1, <3>2 DEF OpenedSubquery, SameBut
      <4> QED BY <1>1, <1>4, <4>1 DEF FrameExact
    <3>3. CASE d = Depth
      <4>1. d > 1 => Same(stack[d - 1], stack'[d - 1])
        BY <1>1, <3>3, <2>4 DEF OpenedSubquery
      <4> QED BY <1>1, <2>4, <3>1, <3>3, <4>1 DEF FrameExact, OpenedSubquery, SameBut, Same
    <3>4. CASE d \in 1..(Depth - 1)
      <4>1. FrameExact(d) /\ Same(stack[d], stack'[d])
        BY <1>1, <1>2, <2>4, <3>4 DEF OpenedSubquery
      <4>2. stack'[d + 1].kind = stack[d + 1].kind
        BY <1>1, <3>1, <3>4, <2>4 DEF OpenedSubquery, SameBut, Same
      <4>3. d > 1 => Same(stack[d - 1], stack'[d - 1])
        BY <1>1, <3>4, <2>4 DEF OpenedSubquery
      <4> QED BY <1>1, <2>4, <3>4, <4>1, <4>2, <4>3 DEF FrameExact, OpenedSubquery, SameBut, Same
    <3> QED BY <1>1, <1>5, <2>4, <3>2, <3>3, <3>4 DEF OpenedSubquery
  <2>5. CASE Closed
    <3>1. d \in 1..Depth /\ d < Depth /\ FrameExact(d) /\ Same(stack[d], stack'[d])
      BY <1>1, <1>2, <2>5 DEF Closed
    <3>2. d < Depth - 1 => Same(stack[d + 1], stack'[d + 1])
      BY <1>1, <3>1, <2>5 DEF Closed
    <3>3. d > 1 => Same(stack[d - 1], stack'[d - 1])
      BY <1>1, <3>1, <2>5 DEF Closed
    <3>4. d = Depth - 1 => "expose" \notin stack[d].features
      BY <1>1, <2>5, <3>1 DEF Closed, FrameExact, Top, Depth
    <3> QED BY <1>1, <2>5, <3>1, <3>2, <3>3, <3>4 DEF FrameExact, Closed, SameBut, Same
  <2>6. CASE ClosedSubquery
    <3>1. Depth \in 1..Depth /\ FrameExact(Depth) /\ Top = stack[Depth]
          /\ Top.saved = stack[Depth - 1].features \ {"expose"}
          /\ SameBut(stack[Depth - 1], Top.saved, stack'[Depth - 1])
      BY <1>1, <1>2, <2>6 DEF ClosedSubquery, FrameExact, Top, Depth
    <3>2. d \in 1..Depth /\ d < Depth /\ FrameExact(d)
      BY <1>1, <1>2, <2>6 DEF ClosedSubquery
    <3>3. d > 1 => Same(stack[d - 1], stack'[d - 1])
      BY <1>1, <3>2, <2>6 DEF ClosedSubquery
    <3>4. CASE d = Depth - 1
      <4>1. stack'[d].features \ {"expose"} = stack[d].features \ {"expose"}
            /\ "expose" \notin stack'[d].features
        BY <3>1, <3>4 DEF SameBut
      <4> QED BY <1>1, <2>6, <3>1, <3>2, <3>3, <3>4, <4>1
              DEF FrameExact, ClosedSubquery, SameBut, Same
    <3>5. CASE d \in 1..(Depth - 2)
      <4>1. Same(stack[d], stack'[d])
        BY <2>6, <3>5 DEF ClosedSubquery
      <4>2. stack'[d + 1].kind = stack[d + 1].kind
        BY <1>1, <3>1, <3>5, <2>6 DEF ClosedSubquery, SameBut, Same
      <4> QED BY <1>1, <2>6, <3>2, <3>3, <3>5, <4>1, <4>2 DEF FrameExact, ClosedSubquery, SameBut, Same
    <3> QED BY <1>1, <1>5, <2>6, <3>4, <3>5 DEF ClosedSubquery
  <2> QED BY <2>1, <2>2, <2>3, <2>4, <2>5, <2>6 DEF Scoped
<1>6. TypeOK'
  BY <1>1, <1>5, QuietTypes DEF TypeOK, FrameExact
<1>7. ExposeExact'
  BY <1>5 DEF ExposeExact, FrameExact
<1>8. FeaturesSaved'
  <2>1. stack' # <<>> => 1 \in 1..Depth'
    BY <1>1 DEF Depth
  <2> QED BY <1>5, <2>1 DEF FeaturesSaved, FrameExact
<1> QED BY <1>6, <1>7, <1>8 DEF FramesExact

(***************************************************************************)
(* Parameters stay what they are, as the scopes below theirs do.           *)
(***************************************************************************)
LEMMA FeatureKinds ==
    ASSUME TypeOK, NEW d \in 1..Depth
    PROVE  /\ Correlated(d) <=> stack[d].kind = "parameter"
           /\ Independent(d) <=> stack[d].kind = "common"
<1>1. stack[d] \in Frame /\ stack[d].features \ {"expose"} = Created(stack[d].kind)
  BY DEF TypeOK, Depth
<1> QED BY <1>1, CreatedFeatures DEF Frame, Correlated, Independent

LEMMA FeatureKindsAfter ==
    ASSUME TypeOK', NEW d \in 1..Depth'
    PROVE  /\ Correlated(d)' <=> stack'[d].kind = "parameter"
           /\ Independent(d)' <=> stack'[d].kind = "common"
<1>1. stack'[d] \in Frame /\ stack'[d].features \ {"expose"} = Created(stack'[d].kind)
  BY DEF TypeOK, Depth
<1> QED BY <1>1, CreatedFeatures DEF Frame, Correlated, Independent

Persisting ==
    \A d \in 1..Depth' :
        IF d <= Depth THEN /\ stack'[d].kind = stack[d].kind
                           /\ stack'[d].parameters = stack[d].parameters
        ELSE stack'[d].parameters = <<>>

LEMMA ScopedPersists == Inv /\ Scoped => Persisting
<1> SUFFICES ASSUME Inv, Scoped, NEW d \in 1..Depth'
             PROVE  IF d <= Depth THEN /\ stack'[d].kind = stack[d].kind
                                       /\ stack'[d].parameters = stack[d].parameters
                    ELSE stack'[d].parameters = <<>>
  BY DEF Persisting
<1>1. Depth \in Nat /\ Depth' \in Nat
  BY DEF Inv, FramesExact, TypeOK, Scoped, Depth
<1>2. CASE Left
  BY <1>2 DEF Left, Depth
<1>3. CASE Edited
  BY <1>1, <1>3 DEF Edited, SameBut, Same
<1>4. CASE Opened
  BY <1>1, <1>4 DEF Opened, SameBut, Same
<1>5. CASE OpenedSubquery
  <2>1. d \in 1..(Depth - 1) \/ d = Depth \/ d = Depth + 1
    BY <1>1, <1>5 DEF OpenedSubquery
  <2> QED BY <1>1, <1>5, <2>1 DEF OpenedSubquery, SameBut, Same, Top, Depth
<1>6. CASE Closed
  BY <1>1, <1>6 DEF Closed, SameBut, Same
<1>7. CASE ClosedSubquery
  <2>1. d \in 1..(Depth - 2) \/ d = Depth - 1
    BY <1>1, <1>7 DEF ClosedSubquery
  <2> QED BY <1>1, <1>7, <2>1 DEF ClosedSubquery, SameBut, Same
<1> QED BY <1>2, <1>3, <1>4, <1>5, <1>6, <1>7 DEF Scoped

LEMMA AvailablePersists ==
    ASSUME TypeOK, TypeOK', Persisting, NEW variable \in Variable,
           NEW d \in Nat, d <= Depth, d <= Depth', Available(variable, d)
    PROVE  Available(variable, d)'
<1>1. Depth \in Nat /\ Depth' \in Nat
  BY DEF TypeOK, Depth
<1>2. CASE ~variable.parameter
  BY <1>2 DEF Available
<1>3. CASE variable.parameter
  <2>1. \A e \in 1..d : /\ stack'[e].kind = stack[e].kind /\ stack'[e].parameters = stack[e].parameters
                        /\ e \in 1..Depth /\ e \in 1..Depth'
    BY <1>1 DEF Persisting
  <2>2. \A e \in 1..d : (Correlated(e)' <=> Correlated(e)) /\ (Independent(e)' <=> Independent(e))
    BY <2>1, FeatureKinds, FeatureKindsAfter
  <2>3. /\ variable.depth \in 1..d /\ Correlated(variable.depth)
        /\ variable.index \in DOMAIN stack[variable.depth].parameters
        /\ \A e \in (variable.depth + 1)..d : ~Correlated(e) /\ ~Independent(e)
    BY <1>3 DEF Available
  <2>4. \A e \in (variable.depth + 1)..d : e \in 1..d
    BY <2>3
  <2> QED BY <1>3, <2>1, <2>2, <2>3, <2>4 DEF Available
<1> QED BY <1>2, <1>3

(* An element of a sequence of elements of S.                              *)
LEMMA Element ==
    ASSUME NEW S, NEW s \in Seq(S), NEW i \in DOMAIN s
    PROVE  i \in 1..Len(s) /\ s[i] \in S
OBVIOUS

LEMMA ParameterType ==
    ASSUME TypeOK, NEW e \in 1..Depth, NEW i \in DOMAIN stack[e].parameters
    PROVE  /\ e \in Nat /\ e - 1 \in Nat
           /\ stack[e].parameters[i].free \in Variable /\ stack[e].parameters[i].alias \in Variable
<1>1. stack[e] \in Frame
  BY DEF TypeOK, Depth
<1>2. stack[e].parameters \in Seq([free : Variable, alias : Variable])
  BY <1>1 DEF Frame
<1> DEFINE ps == stack[e].parameters
<1>3. ps \in Seq([free : Variable, alias : Variable]) /\ i \in DOMAIN ps
  BY <1>2
<1> HIDE DEF ps
<1>4. ps[i] \in [free : Variable, alias : Variable]
  BY <1>3, Element
<1>5. stack[e].parameters[i] \in [free : Variable, alias : Variable]
  BY <1>4 DEF ps
<1> QED BY <1>5

LEMMA ParametersKept ==
    ASSUME Inv, TypeOK', Persisting
    PROVE  ParametersExact' /\ ParametersFromOutside'
<1>1. TypeOK /\ Depth \in Nat /\ Depth' \in Nat
  BY DEF Inv, FramesExact, TypeOK, Depth
<1>2. ASSUME NEW e \in 1..Depth', NEW i \in DOMAIN stack'[e].parameters
      PROVE  /\ e \in 1..Depth /\ i \in DOMAIN stack[e].parameters
             /\ stack'[e].kind = stack[e].kind /\ stack'[e].parameters = stack[e].parameters
  BY <1>1 DEF Persisting
<1>3. ParametersAvailable'
  <2>1. ASSUME NEW e \in 1..Depth', NEW i \in DOMAIN stack'[e].parameters
        PROVE  /\ stack'[e].kind = "parameter"
               /\ Available(stack[e].parameters[i].free, e - 1)'
    <3>1. stack[e].kind = "parameter" /\ Available(stack[e].parameters[i].free, e - 1)
      BY <1>2 DEF Inv, ParametersExact, ParametersAvailable
    <3> QED BY <1>1, <1>2, <3>1, ParameterType, AvailablePersists
  <2>2. \A e \in 1..Depth' : \A i \in DOMAIN stack'[e].parameters :
            stack'[e].parameters = stack[e].parameters
    BY <1>2
  <2> QED BY <2>1, <2>2 DEF ParametersAvailable, Available, Correlated, Independent
<1>4. AliasExact'
  <2> SUFFICES ASSUME NEW e \in 1..Depth', NEW i \in DOMAIN stack'[e].parameters
               PROVE  LET p == stack'[e].parameters[i] IN
                      /\ ~p.alias.parameter
                      /\ p.alias = IF p.free.parameter
                                   THEN stack'[p.free.depth].parameters[p.free.index].alias
                                   ELSE p.free
    BY DEF AliasExact
  <2> DEFINE p == stack[e].parameters[i]
  <2>1. /\ e \in 1..Depth /\ stack'[e].parameters = stack[e].parameters
        /\ i \in DOMAIN stack[e].parameters
    BY <1>2
  <2>2. /\ ~p.alias.parameter
        /\ p.alias = IF p.free.parameter
                     THEN stack[p.free.depth].parameters[p.free.index].alias
                     ELSE p.free
    BY <2>1 DEF Inv, ParametersExact, AliasExact
  <2>3. p.free.parameter =>
            /\ p.free.depth \in 1..(e - 1)
            /\ p.free.index \in DOMAIN stack[p.free.depth].parameters
    BY <2>1 DEF Inv, ParametersExact, ParametersAvailable, Available
  <2>4. p.free.parameter => p.free.depth \in 1..Depth' /\ p.free.depth <= Depth
    BY <1>1, <2>1, <2>3
  <2>5. p.free.parameter => stack'[p.free.depth].parameters = stack[p.free.depth].parameters
    BY <2>4 DEF Persisting
  <2> HIDE DEF p
  <2>6. stack'[e].parameters[i] = p
    BY <2>1 DEF p
  <2> QED BY <2>2, <2>5, <2>6
<1>5. ParametersDistinct'
  BY <1>2 DEF Inv, ParametersExact, ParametersDistinct
<1>6. ParametersFromOutside'
  BY <1>2 DEF Inv, ParametersFromOutside
<1> QED BY <1>3, <1>4, <1>5, <1>6 DEF ParametersExact

(* A quiet step leaves no column in hand and no reference.                 *)
LEMMA QuietStep == ASSUME Quiet PROVE Threading' /\ ReferenceExact'
BY DEF Quiet, Threading, ReferenceExact, ReferenceAvailable, ReferenceNearest

LEMMA ScopingKeeps == Inv /\ Scoped /\ Quiet => Inv'
BY FramesKept, ScopedPersists, ParametersKept, QuietStep DEF Inv, FramesExact

(***************************************************************************)
(* A name is looked up.                                                    *)
(***************************************************************************)
LEMMA SameStack ==
    ASSUME Inv, stack' = stack
    PROVE  /\ ExposeExact' /\ FeaturesSaved' /\ ParametersExact' /\ ParametersFromOutside'
           /\ stack' \in Seq(Frame) /\ Depth' = Depth /\ Depth <= MaxDepth
           /\ \A d \in 1..Depth : stack[d].features \ {"expose"} = Created(stack[d].kind)
<1>1. /\ ExposeExact /\ FeaturesSaved /\ ParametersExact /\ ParametersFromOutside /\ TypeOK
  BY DEF Inv, FramesExact
<1>2. ExposeExact'
  BY <1>1 DEF ExposeExact, Depth
<1>3. FeaturesSaved'
  BY <1>1 DEF FeaturesSaved, Depth
<1>4. ParametersExact'
  <2>1. ParametersAvailable'
    BY <1>1 DEF ParametersExact, ParametersAvailable, Available, Correlated, Independent, Depth
  <2>2. AliasExact' /\ ParametersDistinct'
    BY <1>1 DEF ParametersExact, AliasExact, ParametersDistinct, Depth
  <2> QED BY <2>1, <2>2 DEF ParametersExact
<1>5. ParametersFromOutside'
  BY <1>1 DEF ParametersFromOutside, Depth
<1> QED BY <1>1, <1>2, <1>3, <1>4, <1>5 DEF TypeOK, Depth

(* Scope d is the nearest that answers the name, with relation i.          *)
Answers(d, i, id, n) ==
    LET answering == IF id = NoId THEN Holding(n) ELSE Naming(id) IN
    /\ d \in answering
    /\ \A e \in answering : e <= d
    /\ i \in Matches(d, n)
    /\ id # NoId => i \in Called(d, id)

LEMMA UseStep ==
    ASSUME Inv, NEW d \in 1..Depth, NEW i \in Nat, NEW id \in Ids \cup {NoId}, NEW n \in Names,
           Answers(d, i, id, n), Use(d, i, id, n)
    PROVE  Inv'
<1> DEFINE column == ColumnVariable(d, i, n)
<1>1. Depth \in Nat /\ d \in Nat /\ d <= Depth
  BY DEF Inv, FramesExact, TypeOK, Depth
<1>2. column \in Variable /\ NoVariable \in Variable /\ ~column.parameter
      /\ column.depth = d /\ column.index = i
  BY <1>1 DEF ColumnVariable, Variable, NoVariable
<1> HIDE DEF column
<1>3. CASE ~(d = Depth \/ "expose" \in stack[d].features)
  BY <1>3, FailStep, ScopingKeeps DEF Use
<1>4. CASE d = Depth
  <2>1. /\ qualifier' = id /\ name' = n /\ found' = column /\ stack' = stack
        /\ reference' = column /\ pc' = "idle" /\ current' = NoVariable /\ level' = 0
    BY <1>4 DEF Use, Return, column
  <2>2. TypeOK'
    BY <1>2, <2>1, SameStack DEF TypeOK
  <2>3. ReferenceAvailable'
    BY <1>2, <1>4, <2>1, SameStack DEF ReferenceAvailable, Available
  <2>4. ReferenceNearest'
    BY <1>2, <2>1 DEF Answers, ReferenceNearest, Holding, Naming, Matches, Called, Depth
  <2> QED BY <2>1, <2>2, <2>3, <2>4, SameStack DEF Inv, FramesExact, ReferenceExact, Threading
<1>5. CASE d # Depth /\ "expose" \in stack[d].features
  <2>1. /\ qualifier' = id /\ name' = n /\ found' = column /\ stack' = stack
        /\ reference' = NoVariable /\ pc' = "thread" /\ current' = column /\ level' = d
    BY <1>5 DEF Use, column
  <2>2. TypeOK'
    BY <1>1, <1>2, <2>1, SameStack DEF TypeOK
  <2>3. FoundNearest'
    BY <1>2, <2>1 DEF Answers, FoundNearest, Holding, Naming, Matches, Called, Depth
  <2>4. Threading'
    BY <1>1, <1>2, <1>5, <2>1, <2>3, SameStack DEF Threading
  <2>5. ReferenceExact'
    BY <2>1 DEF ReferenceExact, ReferenceAvailable, ReferenceNearest
  <2> QED BY <2>1, <2>2, <2>4, <2>5, SameStack DEF Inv, FramesExact
<1> QED BY <1>3, <1>4, <1>5

LEMMA RelationPositions ==
    ASSUME TypeOK, NEW d \in 1..Depth
    PROVE  DOMAIN stack[d].relations \subseteq Nat
<1>1. stack[d] \in Frame
  BY DEF TypeOK, Depth
<1>2. stack[d].relations \in Seq(Relation)
  BY <1>1 DEF Frame
<1> QED BY <1>2

LEMMA ResolveStep == ASSUME Inv, NEW n \in Names, Resolve(n) PROVE Inv'
<1>1. CASE Fail
  BY <1>1, FailStep, ScopingKeeps
<1>2. CASE ~Fail
  <2> DEFINE d == Nearest(Holding(n))
  <2>1. Holding(n) # {} /\ \E i \in Matches(d, n) : Use(d, i, NoId, n)
    BY <1>2 DEF Resolve
  <2>2. TypeOK /\ Depth \in Nat /\ Holding(n) \in SUBSET (1..Depth)
    BY DEF Inv, FramesExact, TypeOK, Depth, Holding
  <2>3. d \in Holding(n) /\ d \in 1..Depth /\ \A e \in Holding(n) : e <= d
    BY <2>1, <2>2, NearestScope
  <2> HIDE DEF d
  <2>4. PICK i \in Matches(d, n) : Use(d, i, NoId, n)
    BY <2>1
  <2>5. i \in Nat
    BY <2>2, <2>3, RelationPositions DEF Matches
  <2>6. Answers(d, i, NoId, n)
    BY <2>3, <2>4 DEF Answers
  <2> QED BY <2>3, <2>4, <2>5, <2>6, UseStep
<1> QED BY <1>1, <1>2

LEMMA ResolveQualifiedStep ==
    ASSUME Inv, NEW id \in Ids, NEW n \in Names, ResolveQualified(id, n)
    PROVE  Inv'
<1>1. CASE Fail
  BY <1>1, FailStep, ScopingKeeps
<1>2. CASE ~Fail
  <2> DEFINE d == Nearest(Naming(id))
  <2>1. /\ Naming(id) # {} /\ Called(d, id) \subseteq Matches(d, n)
        /\ \E i \in Called(d, id) : Use(d, i, id, n)
    BY <1>2 DEF ResolveQualified
  <2>2. TypeOK /\ Depth \in Nat /\ Naming(id) \in SUBSET (1..Depth)
    BY DEF Inv, FramesExact, TypeOK, Depth, Naming
  <2>3. d \in Naming(id) /\ d \in 1..Depth /\ \A e \in Naming(id) : e <= d
    BY <2>1, <2>2, NearestScope
  <2> HIDE DEF d
  <2>4. PICK i \in Called(d, id) : Use(d, i, id, n)
    BY <2>1
  <2>5. i \in Nat
    BY <2>2, <2>3, <2>4, RelationPositions DEF Called
  <2>6. Answers(d, i, id, n)
    BY <2>1, <2>3, <2>4, IdsAssumption DEF Answers
  <2> QED BY <2>3, <2>4, <2>5, <2>6, UseStep
<1> QED BY <1>1, <1>2

(***************************************************************************)
(* A parameter is added.  The variable in hand can be used in the scope    *)
(* just around the next correlated scope: no other scope lies between that *)
(* one and the last one that must not look outside or collects parameters. *)
(***************************************************************************)
LEMMA ScopesOnTheWay ==
    ASSUME Scopes(found.depth) # {}
    PROVE  /\ \A f \in (found.depth + 1)..Depth : ~Independent(f)
           /\ Scopes(found.depth) = {e \in (found.depth + 1)..Depth : Correlated(e)}
BY DEF Scopes

LEMMA HandAvailable ==
    ASSUME Inv, pc = "thread", NEW d \in Nat, level <= d, d <= Depth,
           \A e \in (level + 1)..d : ~Correlated(e) /\ ~Independent(e)
    PROVE  current # found \/ d = found.depth => Available(current, d)
<1>1. TypeOK /\ Depth \in Nat /\ ~found.parameter /\ found.depth \in 1..(Depth - 1)
  BY DEF Inv, FramesExact, TypeOK, Threading, Depth
<1>2. CASE current = found /\ level = found.depth
  BY <1>1, <1>2 DEF Available
<1>3. CASE LeadsToFound(current) /\ level = current.depth
  <2>1. /\ current.parameter /\ current.depth \in Scopes(found.depth)
        /\ current.index \in DOMAIN stack[current.depth].parameters
    BY <1>3 DEF LeadsToFound
  <2>2. Correlated(current.depth) /\ current.depth \in (found.depth + 1)..Depth
    BY <2>1, ScopesOnTheWay
  <2>3. current.depth \in 1..d
    BY <1>1, <1>3, <2>2
  <2> QED BY <1>3, <2>1, <2>2, <2>3 DEF Available
<1> QED BY <1>2, <1>3 DEF Inv, Threading

LEMMA NextPending ==
    ASSUME Inv, pc = "thread", NEW e \in Pending, NextScope(e)
    PROVE  /\ e \in 1..Depth /\ e - 1 \in Nat /\ level < e /\ found.depth < e /\ found.depth \in Nat
           /\ stack[e].kind = "parameter" /\ Correlated(e)
           /\ Available(current, e - 1)
           /\ current = found => e - 1 = found.depth
<1>1. TypeOK /\ Depth \in Nat /\ level \in Nat /\ found.depth \in Nat
      /\ found.depth \in 1..(Depth - 1)
  BY DEF Inv, FramesExact, TypeOK, Threading, Variable, Depth
<1>2. e \in Scopes(found.depth) /\ level < e
  BY DEF Pending
<1>3. e \in (found.depth + 1)..Depth /\ Correlated(e)
      /\ \A f \in (found.depth + 1)..Depth : ~Independent(f)
  BY <1>2, ScopesOnTheWay
<1>4. e \in 1..Depth /\ e - 1 \in Nat /\ found.depth < e
  BY <1>1, <1>3
<1>5. stack[e].kind = "parameter"
  BY <1>1, <1>3, <1>4, FeatureKinds
<1>6. found.depth <= level
  <2>1. CASE current = found /\ level = found.depth
    BY <1>1, <2>1
  <2>2. CASE LeadsToFound(current) /\ level = current.depth
    <3>1. current.depth \in Scopes(found.depth)
      BY <2>2 DEF LeadsToFound
    <3>2. current.depth \in (found.depth + 1)..Depth
      BY <3>1, ScopesOnTheWay
    <3> QED BY <1>1, <2>2, <3>2
  <2> QED BY <2>1, <2>2 DEF Inv, Threading
<1>7. \A f \in (level + 1)..(e - 1) : ~Correlated(f) /\ ~Independent(f)
  <2> SUFFICES ASSUME NEW f \in (level + 1)..(e - 1) PROVE ~Correlated(f) /\ ~Independent(f)
    OBVIOUS
  <2>1. f \in (found.depth + 1)..Depth /\ level < f /\ ~(e <= f)
    BY <1>1, <1>4, <1>6
  <2>2. Correlated(f) => f \in Pending
    BY <1>2, <2>1, ScopesOnTheWay DEF Pending
  <2> QED BY <1>3, <2>1, <2>2 DEF NextScope
<1>8. current = found => e - 1 = found.depth
  <2> SUFFICES ASSUME current = found, e - 1 # found.depth PROVE FALSE
    OBVIOUS
  <2>1. level = found.depth
    BY DEF Inv, Threading, LeadsToFound
  <2>2. found.depth \in 1..Depth /\ found.depth + 1 \in 1..Depth
        /\ found.depth + 1 \in (level + 1)..(e - 1)
    BY <1>1, <1>4, <2>1
  <2>3. "expose" \in stack[found.depth].features
    BY DEF Inv, Threading
  <2>4. stack[found.depth + 1].kind = "parameter"
    BY <2>2, <2>3 DEF Inv, FramesExact, ExposeExact
  <2> QED BY <1>1, <1>7, <2>2, <2>4, FeatureKinds
<1>9. Available(current, e - 1)
  BY <1>1, <1>2, <1>4, <1>7, <1>8, HandAvailable
<1> QED BY <1>2, <1>3, <1>4, <1>5, <1>8, <1>9, <1>1

(* The variable in hand leads to the column that was found.                *)
LEMMA HandLeads ==
    ASSUME Inv, pc = "thread"
    PROVE  /\ ~found.parameter /\ current.name = found.name
           /\ current.parameter \/ current = found
           /\ current.parameter => LeadsToFound(current) /\ level = current.depth
           /\ current.parameter =>
                 stack[current.depth].parameters[current.index].alias = found
BY DEF Inv, Threading, LeadsToFound

(* The parameter that already stands for it is an alias of that column.    *)
LEMMA ExistingParameter ==
    ASSUME Inv, pc = "thread", NEW e \in Pending, NextScope(e), NEW i \in ParameterAt(e),
           current' = ParameterVariable(e, i), level' = e,
           UNCHANGED <<stack, pc, qualifier, name, found, reference>>
    PROVE  Inv'
<1>1. e \in 1..Depth /\ e \in Scopes(found.depth)
  BY NextPending DEF Pending
<1>2. TypeOK /\ i \in DOMAIN stack[e].parameters /\ stack[e].parameters[i].free = current
  BY DEF Inv, FramesExact, ParameterAt
<1>3. stack[e].parameters[i].alias = found
  <2>1. stack[e].parameters[i].alias =
            IF current.parameter THEN stack[current.depth].parameters[current.index].alias
            ELSE current
    BY <1>1, <1>2 DEF Inv, ParametersExact, AliasExact
  <2> QED BY <2>1, HandLeads
<1>4. i \in Nat
  <2>1. stack[e] \in Frame
    BY <1>1, <1>2 DEF TypeOK, Depth
  <2>2. stack[e].parameters \in Seq([free : Variable, alias : Variable])
    BY <2>1 DEF Frame
  <2> QED BY <1>2, <2>2
<1>5. /\ current'.parameter /\ current'.depth = e /\ current'.index = i
      /\ current'.name = found.name /\ current' \in Variable
  BY <1>1, <1>2, <1>3, <1>4 DEF ParameterVariable, Variable, TypeOK
<1>6. LeadsToFound(current)'
  BY <1>1, <1>2, <1>3, <1>5 DEF LeadsToFound, Scopes, Correlated, Independent, Depth
<1>7. Threading'
  <2>1. FoundNearest'
    BY DEF Inv, Threading, FoundNearest, Holding, Naming, Matches, Called, Depth
  <2> QED BY <1>5, <1>6, <2>1 DEF Inv, Threading, Depth
<1>8. TypeOK'
  BY <1>1, <1>2, <1>5, SameStack DEF TypeOK
<1>9. ReferenceExact'
  BY DEF Inv, Threading, ReferenceExact, ReferenceAvailable, ReferenceNearest
<1> QED BY <1>7, <1>8, <1>9, SameStack DEF Inv, FramesExact

(***************************************************************************)
(* A parameter is new only when the scope does not get the column yet:     *)
(* another source of the same column would be available at the same place, *)
(* and there is only one.                                                  *)
(***************************************************************************)
LEMMA ColumnNotYetPassed ==
    ASSUME Inv, pc = "thread", NEW e \in Pending, NextScope(e), ParameterAt(e) = {},
           NEW i \in DOMAIN stack[e].parameters
    PROVE  stack[e].parameters[i].alias # found
<1> SUFFICES ASSUME stack[e].parameters[i].alias = found PROVE FALSE
  OBVIOUS
<1> DEFINE f == stack[e].parameters[i].free
<1>1. /\ e \in 1..Depth /\ e - 1 \in Nat /\ level < e /\ found.depth < e /\ found.depth \in Nat
      /\ Available(current, e - 1) /\ (current = found => e - 1 = found.depth)
  BY NextPending
<1>2. TypeOK /\ f \in Variable /\ current \in Variable
  BY <1>1, ParameterType DEF Inv, FramesExact, TypeOK
<1>3. f # current
  BY DEF ParameterAt
<1>4. Available(f, e - 1) /\ f.name = found.name
      /\ found = IF f.parameter THEN stack[f.depth].parameters[f.index].alias ELSE f
  BY <1>1 DEF Inv, ParametersExact, ParametersAvailable, AliasExact, ParametersFromOutside
<1> HIDE DEF f
<1>5. CASE ~f.parameter
  <2>1. found.depth = e - 1 /\ current # found
    BY <1>3, <1>4, <1>5 DEF Available
  <2>2. current.parameter /\ current.depth \in Scopes(found.depth) /\ level = current.depth
    BY <2>1, HandLeads DEF LeadsToFound
  <2>3. current.depth \in (found.depth + 1)..Depth
    BY <2>2, ScopesOnTheWay
  <2> QED BY <1>1, <2>1, <2>2, <2>3
<1>6. CASE f.parameter
  <2>1. /\ f.depth \in 1..(e - 1) /\ Correlated(f.depth)
        /\ f.index \in DOMAIN stack[f.depth].parameters
        /\ stack[f.depth].parameters[f.index].alias = found
        /\ \A g \in (f.depth + 1)..(e - 1) : ~Correlated(g) /\ ~Independent(g)
    BY <1>4, <1>6 DEF Available
  <2>2. f.depth \in 1..Depth
    BY <1>1, <2>1 DEF Depth
  <2>3. found.depth < f.depth
    BY <2>1, <2>2 DEF Inv, ParametersFromOutside
  <2>4. current.parameter
    BY <1>1, <2>1, <2>3, HandLeads
  <2>5. /\ current.depth \in 1..(e - 1) /\ Correlated(current.depth)
        /\ current.index \in DOMAIN stack[current.depth].parameters
        /\ stack[current.depth].parameters[current.index].alias = found
        /\ current.name = found.name
        /\ \A g \in (current.depth + 1)..(e - 1) : ~Correlated(g) /\ ~Independent(g)
    BY <1>1, <2>4, HandLeads DEF Available
  <2>6. current.depth = f.depth
    <3>1. ~(current.depth < f.depth)
      BY <1>1, <2>1, <2>5
    <3>2. ~(f.depth < current.depth)
      BY <1>1, <2>1, <2>5
    <3> QED BY <2>1, <2>5, <3>1, <3>2
  <2>7. current.index = f.index
    BY <2>1, <2>2, <2>5, <2>6 DEF Inv, ParametersExact, ParametersDistinct
  <2> QED BY <1>2, <1>3, <1>4, <1>6, <2>4, <2>5, <2>6, <2>7 DEF Variable
<1> QED BY <1>5, <1>6

(* One scope gets one parameter more, and nothing else changes.            *)
Passing(e) ==
    /\ stack' \in Seq(Frame) /\ Depth' = Depth
    /\ \A d \in 1..Depth :
          /\ stack'[d].kind = stack[d].kind /\ stack'[d].features = stack[d].features
          /\ stack'[d].saved = stack[d].saved /\ stack'[d].relations = stack[d].relations
          /\ d # e => stack'[d].parameters = stack[d].parameters
    /\ LET n == Len(stack[e].parameters) + 1
           ps == stack'[e].parameters
       IN
       /\ n \in Nat \ {0}
       /\ DOMAIN stack[e].parameters = 1..(n - 1)
       /\ DOMAIN ps = 1..n
       /\ \A i \in 1..(n - 1) : ps[i] = stack[e].parameters[i]
       /\ ps[n] = [free |-> current, alias |-> found]

LEMMA NewParameterFrames ==
    ASSUME Inv, NEW e \in 1..Depth,
           stack' = [stack EXCEPT ![e].parameters =
                        Append(@, [free |-> current, alias |-> found])]
    PROVE  Passing(e)
<1> DEFINE p == [free |-> current, alias |-> found]
           s == stack[e].parameters
           f == [stack[e] EXCEPT !.parameters = Append(s, p)]
<1>1. stack \in Seq(Frame) /\ current \in Variable /\ found \in Variable
  BY DEF Inv, FramesExact, TypeOK
<1>2. stack[e] \in Frame /\ p \in [free : Variable, alias : Variable]
  BY <1>1 DEF Depth
<1>3. s \in Seq([free : Variable, alias : Variable])
  BY <1>2 DEF Frame
<1>4. stack' = [stack EXCEPT ![e] = f]
  BY <1>1 DEF Depth
<1>5. /\ Append(s, p) \in Seq([free : Variable, alias : Variable])
      /\ Len(s) + 1 \in Nat \ {0} /\ DOMAIN s = 1..(Len(s) + 1 - 1)
      /\ DOMAIN Append(s, p) = 1..(Len(s) + 1)
      /\ \A i \in 1..(Len(s) + 1 - 1) : Append(s, p)[i] = s[i]
      /\ Append(s, p)[Len(s) + 1] = p
  <2> HIDE DEF s, p
  <2> QED BY <1>2, <1>3
<1>6. /\ f \in Frame /\ f.kind = stack[e].kind /\ f.features = stack[e].features
      /\ f.saved = stack[e].saved /\ f.relations = stack[e].relations
      /\ f.parameters = Append(s, p)
  <2> DEFINE a == Append(s, p)
  <2>1. a \in Seq([free : Variable, alias : Variable])
    BY <1>5
  <2> HIDE DEF a
  <2>2. [stack[e] EXCEPT !.parameters = a] \in Frame
    BY <1>2, <2>1 DEF Frame
  <2>3. f = [stack[e] EXCEPT !.parameters = a]
    BY DEF a
  <2>4. [stack[e] EXCEPT !.parameters = a].parameters = a
    BY <1>2 DEF Frame
  <2>5. f.parameters = a
    BY <2>3, <2>4
  <2> QED BY <1>2, <2>2, <2>3, <2>5 DEF a, Frame
<1> HIDE DEF f
<1>7. /\ stack' \in Seq(Frame) /\ Depth' = Depth /\ stack'[e] = f
      /\ \A d \in 1..Depth : d # e => stack'[d] = stack[d]
  BY <1>1, <1>4, <1>6, ReplacedFrame
<1>8. /\ \A i \in 1..(Len(s) + 1 - 1) : stack'[e].parameters[i] = s[i]
      /\ DOMAIN stack'[e].parameters = 1..(Len(s) + 1)
      /\ stack'[e].parameters[Len(s) + 1] = p
  BY <1>5, <1>6, <1>7
<1>9. \A d \in 1..Depth :
          /\ stack'[d].kind = stack[d].kind /\ stack'[d].features = stack[d].features
          /\ stack'[d].saved = stack[d].saved /\ stack'[d].relations = stack[d].relations
          /\ d # e => stack'[d].parameters = stack[d].parameters
  BY <1>6, <1>7
<1> QED BY <1>5, <1>7, <1>8, <1>9 DEF Passing

(* The parameters that were there stay where they are.                     *)
LEMMA OldParameters ==
    ASSUME Inv, NEW e \in 1..Depth, Passing(e), NEW d \in 1..Depth,
           NEW i \in DOMAIN stack[d].parameters
    PROVE  i \in DOMAIN stack'[d].parameters /\ stack'[d].parameters[i] = stack[d].parameters[i]
<1>1. CASE d = e
  <2> DEFINE n == Len(stack[e].parameters) + 1
  <2>1. /\ n \in Nat \ {0} /\ DOMAIN stack[e].parameters = 1..(n - 1)
        /\ DOMAIN stack'[e].parameters = 1..n
        /\ \A k \in 1..(n - 1) : stack'[e].parameters[k] = stack[e].parameters[k]
    BY DEF Passing
  <2> HIDE DEF n
  <2>2. i \in 1..(n - 1) /\ i \in 1..n
    BY <1>1, <2>1
  <2> QED BY <1>1, <2>1, <2>2
<1>2. CASE d # e
  BY <1>2 DEF Passing
<1> QED BY <1>1, <1>2

LEMMA AvailableWhilePassing ==
    ASSUME Inv, NEW e \in 1..Depth, Passing(e), NEW variable \in Variable,
           NEW d \in Nat, d <= Depth, Available(variable, d)
    PROVE  Available(variable, d)'
<1>1. Depth \in Nat
  BY DEF Inv, FramesExact, TypeOK, Depth
<1>2. CASE ~variable.parameter
  BY <1>2 DEF Available
<1>3. CASE variable.parameter
  <2>1. /\ variable.depth \in 1..d /\ Correlated(variable.depth)
        /\ variable.index \in DOMAIN stack[variable.depth].parameters
        /\ \A g \in (variable.depth + 1)..d : ~Correlated(g) /\ ~Independent(g)
    BY <1>3 DEF Available
  <2>2. variable.depth \in 1..Depth /\ \A g \in (variable.depth + 1)..d : g \in 1..Depth
    BY <1>1, <2>1
  <2>3. variable.index \in DOMAIN stack'[variable.depth].parameters
    BY <2>1, <2>2, OldParameters
  <2>4. \A g \in 1..Depth : (Correlated(g)' <=> Correlated(g)) /\ (Independent(g)' <=> Independent(g))
    BY DEF Passing, Correlated, Independent
  <2> QED BY <1>3, <2>1, <2>2, <2>3, <2>4 DEF Available
<1> QED BY <1>2, <1>3

(* A parameter of the stack after the step was there, or is the new one.   *)
LEMMA ParameterAfter ==
    ASSUME Inv, NEW e \in 1..Depth, Passing(e), NEW d \in 1..Depth,
           NEW i \in DOMAIN stack'[d].parameters
    PROVE  \/ /\ i \in DOMAIN stack[d].parameters
              /\ stack'[d].parameters[i] = stack[d].parameters[i]
           \/ /\ d = e /\ i = Len(stack[e].parameters) + 1
              /\ stack'[d].parameters[i] = [free |-> current, alias |-> found]
<1>1. CASE d = e
  <2> DEFINE n == Len(stack[e].parameters) + 1
  <2>1. /\ n \in Nat \ {0} /\ DOMAIN stack[e].parameters = 1..(n - 1)
        /\ DOMAIN stack'[e].parameters = 1..n
        /\ stack'[e].parameters[n] = [free |-> current, alias |-> found]
    BY DEF Passing
  <2>2. n = Len(stack[e].parameters) + 1
    OBVIOUS
  <2> HIDE DEF n
  <2>3. i \in 1..(n - 1) \/ i = n
    BY <1>1, <2>1
  <2>4. CASE i = n
    BY <1>1, <2>1, <2>2, <2>4
  <2>5. CASE i \in 1..(n - 1)
    BY <1>1, <2>1, <2>5, OldParameters
  <2> QED BY <2>3, <2>4, <2>5
<1>2. CASE d # e
  BY <1>2 DEF Passing
<1> QED BY <1>1, <1>2

LEMMA PassingKeepsParameters ==
    ASSUME Inv, pc = "thread", NEW e \in Pending, NextScope(e), ParameterAt(e) = {}, Passing(e)
    PROVE  ParametersExact' /\ ParametersFromOutside'
<1>1. /\ e \in 1..Depth /\ e - 1 \in Nat /\ found.depth < e
      /\ stack[e].kind = "parameter" /\ Available(current, e - 1)
  BY NextPending
<1>2. TypeOK /\ Depth \in Nat /\ Depth' = Depth /\ current \in Variable
      /\ \A d \in 1..Depth : stack'[d].kind = stack[d].kind
  BY DEF Inv, FramesExact, TypeOK, Passing, Depth
<1> DEFINE new == [free |-> current, alias |-> found]
<1>3. ParametersAvailable'
  <2>1. ASSUME NEW d \in 1..Depth, NEW i \in DOMAIN stack'[d].parameters,
               NEW v, v = stack'[d].parameters[i].free
        PROVE  stack'[d].kind = "parameter" /\ Available(v, d - 1)'
    <3>1. CASE /\ i \in DOMAIN stack[d].parameters
               /\ stack'[d].parameters[i] = stack[d].parameters[i]
      <4>1. /\ stack[d].kind = "parameter" /\ Available(v, d - 1)
            /\ v \in Variable /\ d - 1 \in Nat /\ d - 1 <= Depth
        BY <1>2, <2>1, <3>1, ParameterType DEF Inv, ParametersExact, ParametersAvailable
      <4> QED BY <1>1, <1>2, <4>1, AvailableWhilePassing
    <3>2. CASE d = e /\ stack'[d].parameters[i] = new
      <4>1. v = current /\ e - 1 <= Depth
        BY <1>1, <1>2, <2>1, <3>2
      <4> QED BY <1>1, <1>2, <3>2, <4>1, AvailableWhilePassing
    <3> QED BY <1>1, <3>1, <3>2, ParameterAfter
  <2> QED BY <1>2, <2>1 DEF ParametersAvailable, Available, Correlated, Independent
<1>4. AliasExact'
  <2> SUFFICES ASSUME NEW d \in 1..Depth, NEW i \in DOMAIN stack'[d].parameters
               PROVE  LET p == stack'[d].parameters[i] IN
                      /\ ~p.alias.parameter
                      /\ p.alias = IF p.free.parameter
                                   THEN stack'[p.free.depth].parameters[p.free.index].alias
                                   ELSE p.free
    BY <1>2 DEF AliasExact
  <2>1. CASE /\ i \in DOMAIN stack[d].parameters
             /\ stack'[d].parameters[i] = stack[d].parameters[i]
    <3> DEFINE p == stack[d].parameters[i]
    <3>1. /\ ~p.alias.parameter
          /\ p.alias = IF p.free.parameter
                       THEN stack[p.free.depth].parameters[p.free.index].alias
                       ELSE p.free
      BY <2>1 DEF Inv, ParametersExact, AliasExact
    <3>2. p.free.parameter =>
              /\ p.free.depth \in 1..(d - 1)
              /\ p.free.index \in DOMAIN stack[p.free.depth].parameters
      BY <2>1 DEF Inv, ParametersExact, ParametersAvailable, Available
    <3> HIDE DEF p
    <3>3. p.free.parameter => p.free.depth \in 1..Depth
      BY <1>2, <3>2
    <3>4. p.free.parameter =>
              stack'[p.free.depth].parameters[p.free.index] =
              stack[p.free.depth].parameters[p.free.index]
      BY <1>1, <3>2, <3>3, OldParameters
    <3>5. stack'[d].parameters[i] = p
      BY <2>1 DEF p
    <3> QED BY <3>1, <3>4, <3>5
  <2>2. CASE d = e /\ stack'[d].parameters[i] = new
    <3>1. ~found.parameter /\ (current.parameter \/ current = found)
          /\ (current.parameter =>
                 stack[current.depth].parameters[current.index].alias = found)
      BY HandLeads
    <3>2. current.parameter =>
              /\ current.depth \in 1..Depth
              /\ current.index \in DOMAIN stack[current.depth].parameters
      BY <1>1, <1>2 DEF Available
    <3>3. current.parameter =>
              stack'[current.depth].parameters[current.index] =
              stack[current.depth].parameters[current.index]
      BY <1>1, <3>2, OldParameters
    <3>4. new.free = current /\ new.alias = found
      OBVIOUS
    <3> HIDE DEF new
    <3> QED BY <2>2, <3>1, <3>3, <3>4
  <2> QED BY <1>1, <2>1, <2>2, ParameterAfter
<1>5. ParametersDistinct'
  <2> SUFFICES ASSUME NEW d \in 1..Depth,
                      NEW i \in DOMAIN stack'[d].parameters, NEW j \in DOMAIN stack'[d].parameters,
                      stack'[d].parameters[i].alias = stack'[d].parameters[j].alias
               PROVE  i = j
    BY <1>2 DEF ParametersDistinct
  <2> DEFINE Old(k) == /\ k \in DOMAIN stack[d].parameters
                       /\ stack'[d].parameters[k] = stack[d].parameters[k]
             New(k) == /\ d = e /\ k = Len(stack[e].parameters) + 1
                       /\ stack'[d].parameters[k].alias = found
  <2>1. (Old(i) \/ New(i)) /\ (Old(j) \/ New(j))
    BY <1>1, ParameterAfter
  <2>2. CASE Old(i) /\ Old(j)
    BY <2>2 DEF Inv, ParametersExact, ParametersDistinct
  <2>3. \A k \in DOMAIN stack[e].parameters : stack[e].parameters[k].alias # found
    BY ColumnNotYetPassed
  <2> QED BY <2>1, <2>2, <2>3
<1>6. ParametersFromOutside'
  <2> SUFFICES ASSUME NEW d \in 1..Depth, NEW i \in DOMAIN stack'[d].parameters
               PROVE  LET p == stack'[d].parameters[i] IN
                      p.alias.depth < d /\ p.alias.name = p.free.name
    BY <1>2 DEF ParametersFromOutside
  <2>1. CASE /\ i \in DOMAIN stack[d].parameters
             /\ stack'[d].parameters[i] = stack[d].parameters[i]
    BY <2>1 DEF Inv, ParametersFromOutside
  <2>2. CASE d = e /\ stack'[d].parameters[i] = new
    BY <1>1, <2>2, HandLeads
  <2> QED BY <1>1, <2>1, <2>2, ParameterAfter
<1> QED BY <1>3, <1>4, <1>5, <1>6 DEF ParametersExact

LEMMA PassingStep ==
    ASSUME Inv, pc = "thread", NEW e \in Pending, NextScope(e), ParameterAt(e) = {}, Passing(e),
           current' = [parameter |-> TRUE, depth |-> e,
                       index |-> Len(stack[e].parameters) + 1, name |-> found.name],
           level' = e, UNCHANGED <<pc, qualifier, name, found, reference>>
    PROVE  Inv'
<1>1. e \in 1..Depth /\ e \in Scopes(found.depth) /\ TypeOK /\ Depth' = Depth
      /\ stack' \in Seq(Frame) /\ found \in Variable
  BY NextPending DEF Pending, Inv, FramesExact, TypeOK, Passing
<1> DEFINE n == Len(stack[e].parameters) + 1
<1>2. n \in Nat /\ n \in DOMAIN stack'[e].parameters
      /\ stack'[e].parameters[n].alias = found
  BY DEF Passing
<1>3. current'.parameter /\ current'.depth = e /\ current'.index = n
      /\ current'.name = found.name
  OBVIOUS
<1>4. current' \in Variable
  BY <1>1, <1>2 DEF Variable
<1> HIDE DEF n
<1>5. TypeOK'
  <2>1. \A d \in 1..Depth : stack'[d].features \ {"expose"} = Created(stack'[d].kind)
    BY <1>1 DEF TypeOK, Passing
  <2> QED BY <1>1, <1>4, <2>1 DEF TypeOK
<1>6. ExposeExact' /\ FeaturesSaved'
  <2>1. Depth \in Nat
    BY <1>1 DEF TypeOK, Depth
  <2>2. ExposeExact'
    <3>1. \A d \in 1..Depth : stack'[d].kind = stack[d].kind /\ stack'[d].features = stack[d].features
      BY DEF Passing
    <3>2. \A d \in 1..Depth : d < Depth => d + 1 \in 1..Depth
      BY <2>1
    <3>3. ExposeExact
      BY DEF Inv, FramesExact
    <3> QED BY <1>1, <3>1, <3>2, <3>3 DEF ExposeExact
  <2>3. stack' # <<>> => stack # <<>> /\ 1 \in 1..Depth
    BY <1>1, <2>1 DEF TypeOK, Depth
  <2>4. FeaturesSaved'
    <3>1. \A d \in 1..Depth : /\ stack'[d].kind = stack[d].kind /\ stack'[d].saved = stack[d].saved
                             /\ stack'[d].features = stack[d].features
      BY DEF Passing
    <3>2. \A d \in 1..Depth : d > 1 => d - 1 \in 1..Depth
      BY <2>1
    <3>3. FeaturesSaved
      BY DEF Inv
    <3> QED BY <1>1, <2>3, <3>1, <3>2, <3>3 DEF FeaturesSaved
  <2> QED BY <2>2, <2>4
<1>7. Scopes(found.depth)' = Scopes(found.depth)
  <2>1. Depth \in Nat /\ found.depth \in Nat /\ found' = found
    BY <1>1 DEF TypeOK, Depth, Variable
  <2>2. \A f \in (found.depth + 1)..Depth : f \in 1..Depth
    BY <2>1
  <2>3. \A f \in 1..Depth : (Correlated(f)' <=> Correlated(f)) /\ (Independent(f)' <=> Independent(f))
    BY DEF Passing, Correlated, Independent
  <2> QED BY <1>1, <2>1, <2>2, <2>3 DEF Scopes
<1>8. LeadsToFound(current)'
  BY <1>1, <1>2, <1>3, <1>7 DEF LeadsToFound
<1>9. FoundNearest'
  <2>1. FoundNearest
    BY DEF Inv, Threading
  <2>2. \A d \in 1..Depth : stack'[d].relations = stack[d].relations
    BY DEF Passing
  <2>3. \A d \in 1..Depth : Matches(d, name)' = Matches(d, name)
                            /\ Called(d, qualifier)' = Called(d, qualifier)
    BY <2>2 DEF Matches, Called
  <2>4. Holding(name)' = Holding(name) /\ Naming(qualifier)' = Naming(qualifier)
    BY <1>1, <2>3 DEF Holding, Naming
  <2>5. found.depth \in 1..Depth
    BY <1>1 DEF Inv, Threading, TypeOK, Depth, Variable
  <2> QED BY <2>1, <2>3, <2>4, <2>5 DEF FoundNearest
<1>10. Threading'
  <2>1. found.depth \in 1..(Depth - 1) /\ found.depth \in 1..Depth
    BY <1>1 DEF Inv, Threading, TypeOK, Depth, Variable
  <2>2. stack'[found.depth].features = stack[found.depth].features
    BY <2>1 DEF Passing
  <2> QED BY <1>1, <1>3, <1>8, <1>9, <2>1, <2>2 DEF Inv, Threading
<1>11. ReferenceExact'
  BY DEF Inv, Threading, ReferenceExact, ReferenceAvailable, ReferenceNearest
<1> QED BY <1>5, <1>6, <1>10, <1>11, PassingKeepsParameters DEF Inv, FramesExact

LEMMA AddParameterStep == Inv /\ AddParameter => Inv'
<1> SUFFICES ASSUME Inv, AddParameter PROVE Inv'
  OBVIOUS
<1>1. PICK e \in Pending :
          /\ NextScope(e)
          /\ \/ \E i \in ParameterAt(e) :
                   current' = ParameterVariable(e, i) /\ stack' = stack
             \/ /\ ParameterAt(e) = {}
                /\ stack' = [stack EXCEPT ![e].parameters =
                                Append(@, [free |-> current, alias |-> found])]
                /\ current' = [parameter |-> TRUE, depth |-> e,
                               index |-> Len(stack[e].parameters) + 1,
                               name |-> found.name]
          /\ level' = e
  BY DEF AddParameter
<1>2. pc = "thread" /\ UNCHANGED <<pc, qualifier, name, found, reference>>
  BY DEF AddParameter
<1>3. e \in 1..Depth
  BY <1>1, <1>2, NextPending
<1>4. CASE \E i \in ParameterAt(e) : current' = ParameterVariable(e, i) /\ stack' = stack
  BY <1>1, <1>2, <1>4, ExistingParameter
<1>5. CASE /\ ParameterAt(e) = {}
           /\ stack' = [stack EXCEPT ![e].parameters =
                           Append(@, [free |-> current, alias |-> found])]
           /\ current' = [parameter |-> TRUE, depth |-> e,
                          index |-> Len(stack[e].parameters) + 1,
                          name |-> found.name]
  <2>1. Passing(e)
    BY <1>3, <1>5, NewParameterFrames
  <2> QED BY <1>1, <1>2, <1>5, <2>1, PassingStep
<1> QED BY <1>1, <1>4, <1>5

(* No scope is left, so what is in hand can be used where the name is.     *)
LEMMA EndThreadStep == Inv /\ EndThread => Inv'
<1> SUFFICES ASSUME Inv, EndThread PROVE Inv'
  OBVIOUS
<1>1. CASE Fail
  BY <1>1, FailStep, ScopingKeeps
<1>2. CASE ~Fail
  <2>1. /\ pc = "thread" /\ Pending = {} /\ current # found
        /\ reference' = current /\ pc' = "idle"
        /\ UNCHANGED <<stack, qualifier, name, found, current, level>>
    BY <1>2 DEF EndThread, Return
  <2>2. TypeOK /\ Depth \in Nat /\ level \in Nat /\ current \in Variable /\ FoundNearest
    BY <2>1 DEF Inv, FramesExact, TypeOK, Threading, Depth
  <2>3. current.parameter /\ LeadsToFound(current) /\ level = current.depth
        /\ stack[current.depth].parameters[current.index].alias = found
    BY <2>1, HandLeads
  <2>4. level \in Scopes(found.depth) /\ level \in (found.depth + 1)..Depth
    BY <2>3, ScopesOnTheWay DEF LeadsToFound
  <2>5. \A f \in (level + 1)..Depth : ~Correlated(f) /\ ~Independent(f)
    <3> SUFFICES ASSUME NEW f \in (level + 1)..Depth PROVE ~Correlated(f) /\ ~Independent(f)
      OBVIOUS
    <3>1. found.depth \in Nat
      BY <2>2 DEF Inv, FramesExact, TypeOK, Variable
    <3>2. f \in (found.depth + 1)..Depth /\ f > level
      BY <2>2, <2>4, <3>1
    <3>3. Correlated(f) => f \in Pending
      BY <2>4, <3>2, ScopesOnTheWay DEF Pending
    <3> QED BY <2>1, <2>4, <3>2, <3>3, ScopesOnTheWay
  <2>6. Available(current, Depth)
    BY <2>1, <2>2, <2>4, <2>5, HandAvailable
  <2>7. ReferenceAvailable'
    BY <2>1, <2>6 DEF ReferenceAvailable, Available, Correlated, Independent, Depth
  <2>8. ReferenceNearest'
    BY <2>1, <2>2, <2>3
    DEF FoundNearest, ReferenceNearest, Holding, Naming, Matches, Called, Depth
  <2>9. TypeOK'
    BY <2>1, <2>2, SameStack DEF TypeOK
  <2>10. Threading'
    BY <2>1 DEF Threading
  <2> QED BY <2>1, <2>7, <2>8, <2>9, <2>10, SameStack DEF Inv, FramesExact, ReferenceExact
<1> QED BY <1>1, <1>2

(***************************************************************************)
(* The invariant holds initially, every step keeps it, and it says what is *)
(* wanted.                                                                 *)
(***************************************************************************)
LEMMA InitiallyInv == Init => Inv
<1> SUFFICES ASSUME Init PROVE Inv
  OBVIOUS
<1>1. Depth = 0 /\ stack = <<>> /\ 1..Depth = {}
  BY DEF Init, Depth
<1>2. TypeOK
  BY <1>1, BoundsAssumption DEF Init, TypeOK, NoVariable, Variable
<1>3. ExposeExact /\ FeaturesSaved /\ ParametersFromOutside
  BY <1>1 DEF ExposeExact, FeaturesSaved, ParametersFromOutside
<1>4. ParametersExact
  BY <1>1 DEF ParametersExact, ParametersAvailable, AliasExact, ParametersDistinct
<1>5. Threading /\ ReferenceExact
  BY DEF Init, Threading, ReferenceExact, ReferenceAvailable, ReferenceNearest
<1> QED BY <1>2, <1>3, <1>4, <1>5 DEF Inv, FramesExact

LEMMA StutterStep == Inv /\ UNCHANGED vars => Inv'
<1> SUFFICES ASSUME Inv, UNCHANGED vars PROVE Inv'
  OBVIOUS
<1>1. UNCHANGED <<stack, pc, qualifier, name, found, current, level, reference>>
  BY DEF vars, threading
<1>2. TypeOK'
  BY <1>1, SameStack DEF Inv, FramesExact, TypeOK
<1>3. Threading'
  BY <1>1 DEF Inv, Threading, FoundNearest, LeadsToFound, Holding, Naming, Matches, Called,
              Scopes, Correlated, Independent, Depth
<1>4. ReferenceExact'
  BY <1>1 DEF Inv, ReferenceExact, ReferenceAvailable, ReferenceNearest, Available, Holding,
              Naming, Matches, Called, Correlated, Independent, Depth
<1> QED BY <1>1, <1>2, <1>3, <1>4, SameStack DEF Inv, FramesExact

LEMMA StepKeeps == Inv /\ [Next]_vars => Inv'
BY ScopingStep, ScopingKeeps, ResolveStep, ResolveQualifiedStep, AddParameterStep, EndThreadStep,
   StutterStep DEF Next, Resolution

LEMMA Invariance == Spec => []Inv
BY InitiallyInv, StepKeeps, PTL DEF Spec

(* At any depth of scopes, a scope has the features it was created with,   *)
(* and exposes its columns exactly while a subquery of one of its          *)
(* expressions is analysed: the finalizers of analyze_scalar_expression    *)
(* restore what the scope had, however subqueries, derived tables, common  *)
(* tables and errors nest.                                                 *)
THEOREM ScopesRestored == Spec => []FramesExact
<1>1. Inv => FramesExact
  BY DEF Inv
<1> QED BY <1>1, Invariance, PTL

(* The parameters of every subquery come from what its surrounding query   *)
(* may use, are aliases of the columns they stand for, and pass each of    *)
(* them once, whatever else referred to it: query_scope::add_parameter.    *)
THEOREM ParametersRight == Spec => []ParametersExact
<1>1. Inv => ParametersExact
  BY DEF Inv
<1> QED BY <1>1, Invariance, PTL

(* A name that find_variable() resolves denotes the column of the nearest  *)
(* scope that answers it, and the variable it returns may be used where    *)
(* the name stands, through however many correlated scopes it came.        *)
THEOREM ReferencesRight == Spec => []ReferenceExact
<1>1. Inv => ReferenceExact
  BY DEF Inv
<1> QED BY <1>1, Invariance, PTL

=============================================================================
