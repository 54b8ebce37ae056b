-------------------------- MODULE FromClauseProofs --------------------------
(***************************************************************************)
(* Proofs about FromClause, for any names and any number of relations,     *)
(* columns, nested joins and names of a USING list.                        *)
(***************************************************************************)
EXTENDS FromClause, FiniteSetTheorems, SequenceTheorems, TLAPS

(***************************************************************************)
(* The shape of the clause.  The ports in hand divide the positions of the *)
(* scope into neighbouring intervals: those joined so far, then the left   *)
(* operand of each join that has one, from the outermost to the innermost, *)
(* then the output.  e[k] is the last position before the operand of the   *)
(* join after the k-th, and is the pivot of the k-th when its left operand *)
(* is there.                                                               *)
(***************************************************************************)
EndsAre(e, size, joins, first, last) ==
    /\ e \in [0..Len(joins) -> 0..size]
    /\ \A i, k \in 0..Len(joins) : i <= k => e[i] <= e[k]
    /\ first = 1..e[0]
    /\ \A k \in 1..Len(joins) :
          /\ joins[k].left = (e[k - 1] + 1)..e[k]
          /\ joins[k].left # Nothing => joins[k].pivot = e[k]
    /\ last = (e[Len(joins)] + 1)..size
Contiguous == \E e : EndsAre(e, Len(relations), frames, joined, output)

(* No position is lost, and every join emitted is behind one port.         *)
BehindPort(S, joins, first, last) ==
    S \subseteq first \/ S \subseteq last \/ \E k \in 1..Len(joins) : S \subseteq joins[k].left
Cover == \A p \in Positions : BehindPort({p}, frames, joined, output)
Forest ==
    \A k \in DOMAIN graph : BehindPort(graph[k].left \cup graph[k].right, frames, joined, output)

JoinFrame == [kind : Kinds, left : SUBSET Positions, pivot : Nat]
JoinNode == [kind : Kinds \ {"right_outer"}, left : (SUBSET Positions) \ {Nothing},
             right : (SUBSET Positions) \ {Nothing}]
ShapeTypeOK ==
    /\ Len(relations) \in Nat
    /\ output \subseteq Positions /\ joined \subseteq Positions
    /\ frames \in Seq(JoinFrame) /\ graph \in Seq(JoinNode)
Shape == ShapeTypeOK /\ Contiguous /\ Cover /\ Forest /\ PlanIsTree

(***************************************************************************)
(* What the shape says of the operands.                                    *)
(***************************************************************************)
LEMMA Disjoint ==
    ASSUME Shape
    PROVE  /\ joined \cap output = {}
           /\ \A k \in 1..Len(frames) : frames[k].left \cap (joined \cup output) = {}
           /\ \A k, l \in 1..Len(frames) : k # l => frames[k].left \cap frames[l].left = {}
<1>1. PICK e : EndsAre(e, Len(relations), frames, joined, output)
  BY DEF Shape, Contiguous
<1>2. Len(frames) \in Nat /\ Len(relations) \in Nat
  BY DEF Shape, ShapeTypeOK
<1>3. \A i \in 0..Len(frames) : e[i] \in 0..Len(relations)
  BY <1>1 DEF EndsAre
<1>4. joined \cap output = {}
  <2>1. e[0] <= e[Len(frames)]
    BY <1>1, <1>2 DEF EndsAre
  <2> QED BY <1>1, <1>2, <1>3, <2>1 DEF EndsAre
<1>5. ASSUME NEW k \in 1..Len(frames)
      PROVE  frames[k].left \cap (joined \cup output) = {}
  <2>1. e[0] <= e[k - 1] /\ e[k] <= e[Len(frames)]
    BY <1>1, <1>2 DEF EndsAre
  <2>2. e[0] \in Int /\ e[k - 1] \in Int /\ e[k] \in Int /\ e[Len(frames)] \in Int
    BY <1>2, <1>3
  <2> QED BY <1>1, <1>2, <2>1, <2>2 DEF EndsAre
<1>6. ASSUME NEW k \in 1..Len(frames), NEW l \in 1..Len(frames), k < l
      PROVE  frames[k].left \cap frames[l].left = {}
  <2>1. e[k] <= e[l - 1]
    BY <1>1, <1>2, <1>6 DEF EndsAre
  <2>2. e[k - 1] \in Int /\ e[k] \in Int /\ e[l - 1] \in Int /\ e[l] \in Int
    BY <1>2, <1>3
  <2>3. frames[k].left = (e[k - 1] + 1)..e[k] /\ frames[l].left = (e[l - 1] + 1)..e[l]
    BY <1>1 DEF EndsAre
  <2> QED BY <2>1, <2>2, <2>3
<1>7. \A k, l \in 1..Len(frames) : k # l => k < l \/ l < k
  BY <1>2
<1> QED BY <1>4, <1>5, <1>6, <1>7

LEMMA Partition == Shape => OperandsPartition
<1> SUFFICES ASSUME Shape PROVE OperandsPartition
  OBVIOUS
<1>1. PICK e : EndsAre(e, Len(relations), frames, joined, output)
  BY DEF Shape, Contiguous
<1>2. /\ Len(frames) \in Nat /\ Len(relations) \in Nat /\ DOMAIN frames = 1..Len(frames)
      /\ \A k \in DOMAIN frames : frames[k].left \subseteq Positions
  <2>1. \A k \in 1..Len(frames) : frames[k] \in JoinFrame
    BY DEF Shape, ShapeTypeOK
  <2> QED BY <2>1 DEF Shape, ShapeTypeOK, JoinFrame
<1>3. UNION Operands = Positions
  <2>1. UNION Operands \subseteq Positions
    BY <1>2 DEF Shape, ShapeTypeOK, Operands
  <2>2. Positions \subseteq UNION Operands
    BY <1>2 DEF Shape, Cover, BehindPort, Operands
  <2> QED BY <2>1, <2>2
<1>4. \A S \in Operands : Interval(S)
  <2>1. \A i \in 0..Len(frames) : e[i] \in Int
    BY <1>1 DEF EndsAre
  <2>2. ASSUME NEW a \in Int, NEW b \in Int
        PROVE  Interval(a..b)
    BY DEF Interval
  <2>3. Interval(joined) /\ Interval(output)
    BY <1>1, <1>2, <2>1, <2>2 DEF EndsAre
  <2>4. ASSUME NEW k \in DOMAIN frames
        PROVE  Interval(frames[k].left)
    <3>1. e[k - 1] + 1 \in Int /\ e[k] \in Int
      BY <1>2, <2>1
    <3> QED BY <1>1, <1>2, <2>2, <3>1 DEF EndsAre
  <2> QED BY <2>3, <2>4 DEF Operands
<1> QED BY <1>2, <1>3, <1>4, Disjoint DEF OperandsPartition

LEMMA Pivot == Shape => PivotExact
<1> SUFFICES ASSUME Shape, frames # <<>>, AtRight
             PROVE  output = (Frame.pivot + 1)..Len(relations)
  BY DEF PivotExact
<1>1. PICK e : EndsAre(e, Len(relations), frames, joined, output)
  BY DEF Shape, Contiguous
<1>2. Len(frames) \in 1..Len(frames)
  BY DEF Shape, ShapeTypeOK
<1> QED BY <1>1, <1>2 DEF EndsAre, AtRight, Frame

(***************************************************************************)
(* The steps preserve the shape.                                           *)
(***************************************************************************)
LEMMA Start ==
    ASSUME relations = <<>>, output = Nothing, frames = <<>>, joined = Nothing, graph = <<>>
    PROVE  Shape
<1>1. Len(relations) = 0 /\ Len(frames) = 0 /\ DOMAIN graph = {}
  OBVIOUS
<1>2. ShapeTypeOK
  BY <1>1 DEF ShapeTypeOK, Nothing
<1>3. Contiguous
  <2> DEFINE e == [k \in 0..0 |-> 0]
  <2>1. EndsAre(e, Len(relations), frames, joined, output)
    BY <1>1 DEF EndsAre, Nothing
  <2> QED BY <2>1 DEF Contiguous
<1> QED BY <1>1, <1>2, <1>3 DEF Shape, Cover, Forest, PlanIsTree, Positions

(* A relation is appended to the scope and is behind the output.           *)
LEMMA Widened ==
    ASSUME Shape, relations' \in Seq(Seq([name : Names, exported : BOOLEAN])),
           Len(relations') = Len(relations) + 1,
           output' = output \cup {Len(relations) + 1},
           UNCHANGED <<frames, joined, graph>>
    PROVE  Shape'
<1>1. PICK e : EndsAre(e, Len(relations), frames, joined, output)
  BY DEF Shape, Contiguous
<1>2. Len(frames) \in Nat /\ Len(relations) \in Nat /\ Len(relations') \in Nat
  BY DEF Shape, ShapeTypeOK
<1>3. Positions \subseteq Positions' /\ Positions' = Positions \cup {Len(relations) + 1}
  BY <1>2 DEF Positions
<1>4. ShapeTypeOK'
  <2>1. JoinFrame \subseteq JoinFrame' /\ JoinNode \subseteq JoinNode'
    BY <1>3 DEF JoinFrame, JoinNode
  <2>2. frames' \in Seq(JoinFrame') /\ graph' \in Seq(JoinNode')
    BY <2>1 DEF Shape, ShapeTypeOK
  <2> QED BY <1>2, <1>3, <2>2 DEF Shape, ShapeTypeOK
<1>5. Contiguous'
  <2>1. \A i \in 0..Len(frames) : e[i] \in 0..Len(relations)
    BY <1>1 DEF EndsAre
  <2>2. e[Len(frames)] \in 0..Len(relations) /\ output = (e[Len(frames)] + 1)..Len(relations)
    BY <1>1, <1>2, <2>1 DEF EndsAre
  <2>3. output' = (e[Len(frames)] + 1)..(Len(relations) + 1)
    BY <1>2, <2>2
  <2>4. e \in [0..Len(frames) -> 0..(Len(relations) + 1)]
    BY <1>1, <1>2 DEF EndsAre
  <2>5. EndsAre(e, Len(relations'), frames', joined', output')
    BY <1>1, <2>3, <2>4 DEF EndsAre
  <2> QED BY <2>5 DEF Contiguous
<1>6. Cover'
  BY <1>3 DEF Shape, Cover, BehindPort
<1>7. Forest'
  BY DEF Shape, Forest, BehindPort
<1> QED BY <1>4, <1>5, <1>6, <1>7 DEF Shape, PlanIsTree

(* Neither the operands nor the number of relations change.                *)
LEMMA SameShape ==
    ASSUME Shape, Len(relations') = Len(relations), UNCHANGED <<output, frames, joined, graph>>
    PROVE  Shape'
BY DEF Shape, ShapeTypeOK, Contiguous, Cover, Forest, PlanIsTree, Positions, JoinFrame, JoinNode

LEMMA BeginJoinShape ==
    ASSUME Shape, NEW kind \in Kinds, BeginJoin(kind)
    PROVE  Shape'
<1> DEFINE n == Len(frames)
           new == [kind |-> kind, left |-> Nothing, pivot |-> 0]
<1>1. PICK e : EndsAre(e, Len(relations), frames, joined, output)
  BY DEF Shape, Contiguous
<1>2. /\ n \in Nat /\ Len(relations) \in Nat
      /\ relations' = relations /\ output' = output /\ joined' = joined /\ graph' = graph
      /\ output = Nothing /\ frames' = Append(frames, new)
  BY DEF Shape, ShapeTypeOK, BeginJoin
<1>3. new \in JoinFrame
  BY DEF JoinFrame, Nothing
<1>4. /\ frames' \in Seq(JoinFrame) /\ Len(frames') = n + 1 /\ frames'[n + 1] = new
      /\ \A k \in 1..n : frames'[k] = frames[k]
  BY <1>2, <1>3 DEF Shape, ShapeTypeOK
<1>5. ShapeTypeOK'
  BY <1>2, <1>4 DEF Shape, ShapeTypeOK, JoinFrame, JoinNode, Positions
<1>6. Contiguous'
  <2>1. \A i \in 0..n : e[i] \in 0..Len(relations)
    BY <1>1 DEF EndsAre
  <2>2. PICK d : d = [i \in 0..(n + 1) |-> IF i = n + 1 THEN e[n] ELSE e[i]]
    OBVIOUS
  <2>3. d \in [0..(n + 1) -> 0..Len(relations)]
    BY <1>2, <2>1, <2>2
  <2>4. d[n + 1] = e[n] /\ \A i \in 0..n : d[i] = e[i]
    BY <1>2, <2>2
  <2>5. \A i, k \in 0..(n + 1) : i <= k => d[i] <= d[k]
    <3>1. \A i, k \in 0..n : i <= k => e[i] <= e[k]
      BY <1>1 DEF EndsAre
    <3>2. \A i \in 0..n : e[i] <= e[n]
      BY <1>2, <3>1
    <3>3. e[n] \in Int
      BY <1>2, <2>1
    <3>4. \A i \in 0..(n + 1) : i = n + 1 \/ i \in 0..n
      BY <1>2
    <3>5. ASSUME NEW i \in 0..(n + 1), NEW k \in 0..(n + 1), i <= k
          PROVE  d[i] <= d[k]
      <4>1. CASE k \in 0..n
        <5>1. i \in 0..n
          BY <1>2, <3>5, <4>1
        <5> QED BY <2>4, <3>1, <3>5, <4>1, <5>1
      <4>2. CASE k = n + 1
        <5>1. CASE i = n + 1
          BY <2>4, <3>3, <4>2, <5>1
        <5>2. CASE i \in 0..n
          BY <2>4, <3>2, <4>2, <5>2
        <5> QED BY <3>4, <5>1, <5>2
      <4> QED BY <3>4, <4>1, <4>2
    <3> QED BY <3>5
  <2>6. ASSUME NEW k \in 1..(n + 1)
        PROVE  /\ frames'[k].left = (d[k - 1] + 1)..d[k]
               /\ frames'[k].left # Nothing => frames'[k].pivot = d[k]
    <3>1. CASE k = n + 1
      <4>1. frames'[k].left = Nothing
        BY <1>4, <3>1
      <4>2. d[k - 1] = e[n] /\ d[k] = e[n] /\ e[n] \in Int
        BY <1>2, <2>1, <2>4, <3>1
      <4> QED BY <4>1, <4>2 DEF Nothing
    <3>2. CASE k \in 1..n
      <4>1. d[k - 1] = e[k - 1] /\ d[k] = e[k] /\ frames'[k] = frames[k]
        BY <1>2, <1>4, <2>4, <3>2
      <4> QED BY <1>1, <3>2, <4>1 DEF EndsAre
    <3> QED BY <1>2, <3>1, <3>2
  <2>7. joined = 1..d[0] /\ output = (d[n + 1] + 1)..Len(relations)
    BY <1>1, <1>2, <2>4 DEF EndsAre
  <2>8. EndsAre(d, Len(relations'), frames', joined', output')
    BY <1>2, <1>4, <2>3, <2>5, <2>6, <2>7 DEF EndsAre
  <2> QED BY <2>8 DEF Contiguous
<1>7. \A S : BehindPort(S, frames, joined, output)
               => BehindPort(S, frames', joined', output')
  BY <1>2, <1>4 DEF BehindPort
<1>8. Cover'
  BY <1>2, <1>7 DEF Shape, Cover, Positions
<1>9. Forest'
  BY <1>2, <1>7 DEF Shape, Forest
<1> QED BY <1>2, <1>5, <1>6, <1>8, <1>9 DEF Shape, PlanIsTree

LEMMA EndLeftShape ==
    ASSUME Shape, EndLeft
    PROVE  Shape'
<1> DEFINE n == Len(frames)
           m == Len(relations)
<1>1. PICK e : EndsAre(e, Len(relations), frames, joined, output)
  BY DEF Shape, Contiguous
<1>2. /\ n \in Nat /\ m \in Nat /\ n \in 1..n /\ frames[n] \in JoinFrame
      /\ relations' = relations /\ joined' = joined /\ graph' = graph
      /\ output # Nothing /\ output' = Nothing /\ frames[n].left = Nothing
  BY DEF Shape, ShapeTypeOK, EndLeft, Frame
<1>3. PICK f : f = [frames[n] EXCEPT !.left = output, !.pivot = m]
  OBVIOUS
<1>4. f \in JoinFrame /\ f.left = output /\ f.pivot = m
  BY <1>2, <1>3 DEF Shape, ShapeTypeOK, JoinFrame
<1>5. frames' = [frames EXCEPT ![n] = f]
  BY <1>3 DEF EndLeft
<1>6. /\ frames' \in Seq(JoinFrame) /\ Len(frames') = n /\ frames'[n] = f
      /\ \A k \in 1..n : k # n => frames'[k] = frames[k]
  BY <1>2, <1>4, <1>5 DEF Shape, ShapeTypeOK
<1>7. ShapeTypeOK'
  BY <1>2, <1>6 DEF Shape, ShapeTypeOK, JoinFrame, JoinNode, Positions, Nothing
<1>8. Contiguous'
  <2>1. \A i \in 0..n : e[i] \in 0..m
    BY <1>1 DEF EndsAre
  <2>2. PICK d : d = [e EXCEPT ![n] = m]
    OBVIOUS
  <2>3. d \in [0..n -> 0..m]
    BY <1>1, <1>2, <2>2 DEF EndsAre
  <2>4. d[n] = m /\ \A i \in 0..n : i # n => d[i] = e[i]
    BY <1>1, <1>2, <2>2 DEF EndsAre
  <2>5. \A i, k \in 0..n : i <= k => d[i] <= d[k]
    <3>1. ASSUME NEW i \in 0..n, NEW k \in 0..n, i <= k
          PROVE  d[i] <= d[k]
      <4>1. CASE k = n
        BY <1>2, <2>3, <2>4, <4>1
      <4>2. CASE k # n
        <5>1. i # n
          BY <1>2, <3>1, <4>2
        <5> QED BY <1>1, <2>4, <3>1, <4>2, <5>1 DEF EndsAre
      <4> QED BY <4>1, <4>2
    <3> QED BY <3>1
  <2>6. e[n - 1] = e[n]
    <3>1. n - 1 \in 0..n /\ n \in 0..n /\ n - 1 <= n
      BY <1>2
    <3>2. e[n - 1] <= e[n]
      BY <1>1, <3>1 DEF EndsAre
    <3>3. (e[n - 1] + 1)..e[n] = {}
      BY <1>1, <1>2 DEF EndsAre, Nothing
    <3>4. e[n - 1] \in Int /\ e[n] \in Int
      BY <1>2, <2>1
    <3> QED BY <3>2, <3>3, <3>4
  <2>7. output = (e[n] + 1)..m /\ joined = 1..e[0]
    BY <1>1 DEF EndsAre
  <2>8. ASSUME NEW k \in 1..n
        PROVE  /\ frames'[k].left = (d[k - 1] + 1)..d[k]
               /\ frames'[k].left # Nothing => frames'[k].pivot = d[k]
    <3>1. d[k - 1] = e[k - 1]
      BY <1>2, <2>4
    <3>2. CASE k = n
      BY <1>4, <1>6, <2>4, <2>6, <2>7, <3>1, <3>2
    <3>3. CASE k # n
      BY <1>1, <1>6, <2>4, <3>1, <3>3 DEF EndsAre
    <3> QED BY <3>2, <3>3
  <2>9. joined = 1..d[0] /\ output' = (d[n] + 1)..m
    BY <1>2, <2>4, <2>7 DEF Nothing
  <2>10. EndsAre(d, Len(relations'), frames', joined', output')
    BY <1>2, <1>6, <2>3, <2>5, <2>8, <2>9 DEF EndsAre
  <2> QED BY <2>10 DEF Contiguous
<1>9. ASSUME NEW S, BehindPort(S, frames, joined, output)
      PROVE  BehindPort(S, frames', joined', output')
  <2>1. CASE S \subseteq output
    BY <1>2, <1>4, <1>6, <2>1 DEF BehindPort
  <2>2. ASSUME NEW k \in 1..n, S \subseteq frames[k].left
        PROVE  S \subseteq frames'[k].left
    BY <1>2, <1>4, <1>6, <2>2 DEF Nothing
  <2> QED BY <1>2, <1>6, <1>9, <2>1, <2>2 DEF BehindPort
<1>10. Cover'
  BY <1>2, <1>9 DEF Shape, Cover, Positions
<1>11. Forest'
  BY <1>2, <1>9 DEF Shape, Forest
<1> QED BY <1>2, <1>7, <1>8, <1>10, <1>11 DEF Shape, PlanIsTree

(***************************************************************************)
(* A join is added to the forest: its operands are two different ports, so *)
(* each earlier join is within one of them or apart from both.             *)
(***************************************************************************)
LEMMA OneMoreJoin ==
    ASSUME Shape, NEW node \in JoinNode, node.left \cap node.right = {},
           graph' = Append(graph, node),
           \A S : BehindPort(S, frames, joined, output) =>
                     \/ S \cap (node.left \cup node.right) = {}
                     \/ S \subseteq node.left
                     \/ S \subseteq node.right
    PROVE  PlanIsTree'
<1>1. /\ Len(graph) \in Nat /\ DOMAIN graph = 1..Len(graph) /\ DOMAIN graph' = 1..(Len(graph) + 1)
      /\ graph'[Len(graph) + 1] = node /\ \A k \in 1..Len(graph) : graph'[k] = graph[k]
  BY DEF Shape, ShapeTypeOK
<1>2. ASSUME NEW k \in DOMAIN graph'
      PROVE  /\ graph'[k].left \cap graph'[k].right = {}
             /\ \A l \in 1..(k - 1) :
                   \/ (graph'[l].left \cup graph'[l].right)
                          \cap (graph'[k].left \cup graph'[k].right) = {}
                   \/ graph'[l].left \cup graph'[l].right \subseteq graph'[k].left
                   \/ graph'[l].left \cup graph'[l].right \subseteq graph'[k].right
  <2>1. CASE k \in 1..Len(graph)
    <3>1. \A l \in 1..(k - 1) : graph'[l] = graph[l]
      BY <1>1, <2>1
    <3>2. graph'[k] = graph[k]
      BY <1>1, <2>1
    <3>3. /\ graph[k].left \cap graph[k].right = {}
          /\ \A l \in 1..(k - 1) :
                \/ (graph[l].left \cup graph[l].right) \cap (graph[k].left \cup graph[k].right) = {}
                \/ graph[l].left \cup graph[l].right \subseteq graph[k].left
                \/ graph[l].left \cup graph[l].right \subseteq graph[k].right
      BY <1>1, <2>1 DEF Shape, PlanIsTree
    <3> QED BY <3>1, <3>2, <3>3
  <2>2. CASE k = Len(graph) + 1
    <3>1. \A l \in 1..(k - 1) : l \in DOMAIN graph /\ graph'[l] = graph[l]
      BY <1>1, <2>2
    <3>2. graph'[k] = node
      BY <1>1, <2>2
    <3>3. ASSUME NEW l \in 1..(k - 1)
          PROVE  LET S == graph[l].left \cup graph[l].right IN
                 \/ S \cap (node.left \cup node.right) = {}
                 \/ S \subseteq node.left
                 \/ S \subseteq node.right
      <4>1. BehindPort(graph[l].left \cup graph[l].right, frames, joined, output)
        BY <3>1 DEF Shape, Forest
      <4> QED BY <4>1
    <3> QED BY <3>1, <3>2, <3>3
  <2> QED BY <1>1, <2>1, <2>2
<1> QED BY <1>2 DEF PlanIsTree

LEMMA EmitShape ==
    ASSUME Shape, AtRight, Emit, UNCHANGED joined, Len(relations') = Len(relations)
    PROVE  Shape'
<1> DEFINE n == Len(frames)
           m == Len(relations)
           left == frames[n].left
<1>1. PICK e : EndsAre(e, Len(relations), frames, joined, output)
  BY DEF Shape, Contiguous
<1>2. /\ n \in Nat /\ m \in Nat /\ n \in 1..n /\ frames[n] \in JoinFrame
      /\ joined' = joined /\ output # Nothing /\ left # Nothing
      /\ output' = left \cup output /\ frames' = SubSeq(frames, 1, n - 1)
      /\ Len(relations') = m /\ output \subseteq Positions
  BY DEF Shape, ShapeTypeOK, AtRight, Emit, Frame, Enclosing
<1>3. left \in (SUBSET Positions) \ {Nothing} /\ output \in (SUBSET Positions) \ {Nothing}
  BY <1>2 DEF JoinFrame
<1>4. PICK node \in JoinNode :
          /\ graph' = Append(graph, node)
          /\ \/ node.left = left /\ node.right = output
             \/ node.left = output /\ node.right = left
  <2>1. CASE Frame.kind = "right_outer"
    <3>1. PICK node : node = [kind |-> "left_outer", left |-> output, right |-> left]
      OBVIOUS
    <3>2. node \in JoinNode
      BY <1>3, <3>1 DEF JoinNode, Kinds
    <3>3. graph' = Append(graph, node)
      BY <2>1, <3>1 DEF Emit, Frame
    <3> QED BY <3>1, <3>2, <3>3
  <2>2. CASE Frame.kind # "right_outer"
    <3>1. PICK node : node = [kind |-> Frame.kind, left |-> left, right |-> output]
      OBVIOUS
    <3>2. Frame.kind \in Kinds \ {"right_outer"}
      BY <1>2, <2>2 DEF JoinFrame, Frame
    <3>3. node \in JoinNode
      BY <1>3, <3>1, <3>2 DEF JoinNode
    <3>4. graph' = Append(graph, node)
      BY <2>2, <3>1 DEF Emit, Frame
    <3> QED BY <3>1, <3>3, <3>4
  <2> QED BY <2>1, <2>2
<1>5. node.left \cup node.right = left \cup output
  BY <1>4
<1>6. /\ frames' \in Seq(JoinFrame) /\ Len(frames') = n - 1
      /\ \A k \in 1..(n - 1) : k \in 1..n /\ frames'[k] = frames[k]
  <2>1. frames \in Seq(JoinFrame) /\ n - 1 \in 0..n
    BY <1>2 DEF Shape, ShapeTypeOK
  <2> HIDE DEF n
  <2>2. n = Len(frames)
    BY DEF n
  <2>3. \A k \in 1..(n - 1) : k \in 1..n
    BY <1>2
  <2> QED BY <1>2, <2>1, <2>2, <2>3
<1>7. ShapeTypeOK'
  <2>1. Positions' = Positions
    BY <1>2 DEF Positions
  <2>2. graph' \in Seq(JoinNode)
    BY <1>4 DEF Shape, ShapeTypeOK
  <2>3. output' \subseteq Positions
    BY <1>2, <1>3
  <2>4. JoinFrame' = JoinFrame /\ JoinNode' = JoinNode
    BY <2>1 DEF JoinFrame, JoinNode
  <2> QED BY <1>2, <1>6, <2>1, <2>2, <2>3, <2>4 DEF Shape, ShapeTypeOK
<1>8. Contiguous'
  <2>1. \A i \in 0..n : e[i] \in 0..m
    BY <1>1 DEF EndsAre
  <2>2. PICK d : d = [i \in 0..(n - 1) |-> e[i]]
    OBVIOUS
  <2>3. \A i \in 0..(n - 1) : i \in 0..n /\ d[i] = e[i]
    BY <1>2, <2>2
  <2>4. d \in [0..(n - 1) -> 0..m]
    BY <2>1, <2>2, <2>3
  <2>5. \A i, k \in 0..(n - 1) : i <= k => d[i] <= d[k]
    BY <1>1, <2>3 DEF EndsAre
  <2>6. ASSUME NEW k \in 1..(n - 1)
        PROVE  /\ frames'[k].left = (d[k - 1] + 1)..d[k]
               /\ frames'[k].left # Nothing => frames'[k].pivot = d[k]
    <3>1. k \in 1..n /\ frames'[k] = frames[k]
      BY <1>6
    <3>2. k \in 0..(n - 1) /\ k - 1 \in 0..(n - 1)
      BY <1>2
    <3>3. d[k - 1] = e[k - 1] /\ d[k] = e[k]
      BY <2>3, <3>2
    <3> QED BY <1>1, <3>1, <3>3 DEF EndsAre
  <2>7. joined' = 1..d[0]
    BY <1>1, <1>2, <2>3 DEF EndsAre
  <2>8. output' = (d[n - 1] + 1)..m
    <3>1. left = (e[n - 1] + 1)..e[n] /\ output = (e[n] + 1)..m
      BY <1>1, <1>2 DEF EndsAre
    <3>2. n - 1 \in 0..n /\ n \in 0..n
      BY <1>2
    <3>3. e[n - 1] <= e[n]
      BY <1>1, <1>2, <3>2 DEF EndsAre
    <3>4. e[n - 1] \in 0..m /\ e[n] \in 0..m /\ d[n - 1] = e[n - 1]
      BY <1>2, <2>1, <2>3, <3>2
    <3> QED BY <1>2, <3>1, <3>3, <3>4
  <2>9. EndsAre(d, Len(relations'), frames', joined', output')
    BY <1>2, <1>6, <2>4, <2>5, <2>6, <2>7, <2>8 DEF EndsAre
  <2> QED BY <2>9 DEF Contiguous
<1>9. ASSUME NEW S, BehindPort(S, frames, joined, output)
      PROVE  BehindPort(S, frames', joined', output')
  <2>1. ASSUME NEW k \in 1..n, S \subseteq frames[k].left
        PROVE  S \subseteq output' \/ (k \in 1..(n - 1) /\ S \subseteq frames'[k].left)
    <3>1. k = n \/ k \in 1..(n - 1)
      BY <1>2
    <3> QED BY <1>2, <1>6, <2>1, <3>1
  <2> QED BY <1>2, <1>6, <1>9, <2>1 DEF BehindPort
<1>10. Cover'
  BY <1>2, <1>9 DEF Shape, Cover, Positions
<1>11. Forest'
  <2>1. DOMAIN graph' = DOMAIN graph \cup {Len(graph) + 1} /\ graph'[Len(graph) + 1] = node
    BY <1>4 DEF Shape, ShapeTypeOK
  <2>2. \A k \in DOMAIN graph : graph'[k] = graph[k]
    BY <1>4 DEF Shape, ShapeTypeOK
  <2>3. BehindPort(node.left \cup node.right, frames', joined', output')
    BY <1>2, <1>5 DEF BehindPort
  <2> QED BY <1>9, <2>1, <2>2, <2>3 DEF Shape, Forest
<1>12. PlanIsTree'
  <2>1. node.left \cap node.right = {}
    BY <1>2, <1>4, Disjoint
  <2>2. ASSUME NEW S, BehindPort(S, frames, joined, output)
        PROVE  \/ S \cap (node.left \cup node.right) = {}
               \/ S \subseteq node.left
               \/ S \subseteq node.right
    <3>1. CASE S \subseteq joined
      BY <1>2, <1>5, <3>1, Disjoint
    <3>2. CASE S \subseteq output
      BY <1>4, <3>2
    <3>3. ASSUME NEW k \in 1..n, S \subseteq frames[k].left
          PROVE  S \cap (left \cup output) = {} \/ S \subseteq left
      BY <1>2, <3>3, Disjoint
    <3> QED BY <1>4, <1>5, <2>2, <3>1, <3>2, <3>3 DEF BehindPort
  <2> QED BY <1>4, <2>1, <2>2, OneMoreJoin
<1> QED BY <1>7, <1>8, <1>10, <1>11, <1>12 DEF Shape

(* One operand is left: everything joined so far, behind one port.         *)
LEMMA OneOperand ==
    ASSUME NEW m \in Nat, NEW first, first = 1..m
    PROVE  \E e : EndsAre(e, m, <<>>, first, Nothing)
<1>1. PICK e : e = [k \in 0..0 |-> m]
  OBVIOUS
<1>2. Len(<<>>) = 0 /\ e[0] = m /\ e \in [0..0 -> 0..m] /\ \A i, k \in 0..0 : e[i] <= e[k]
  BY <1>1
<1>3. EndsAre(e, m, <<>>, first, Nothing)
  BY <1>2 DEF EndsAre, Nothing
<1> QED BY <1>3

LEMMA EndElementShape ==
    ASSUME Shape, EndElement
    PROVE  Shape'
<1>1. PICK e : EndsAre(e, Len(relations), frames, joined, output)
  BY DEF Shape, Contiguous
<1>2. /\ Len(relations) \in Nat /\ output # Nothing /\ frames = <<>> /\ Len(frames) = 0
      /\ joined' = joined \cup output /\ output' = Nothing
      /\ relations' = relations /\ frames' = <<>>
      /\ joined \subseteq Positions /\ output \subseteq Positions
  BY DEF Shape, ShapeTypeOK, EndElement
<1>3. joined' = 1..Len(relations)
  <2>1. joined = 1..e[0] /\ output = (e[0] + 1)..Len(relations) /\ e[0] \in 0..Len(relations)
    BY <1>1, <1>2 DEF EndsAre
  <2> QED BY <1>2, <2>1
<1>4. Contiguous'
  BY <1>2, <1>3, OneOperand DEF Contiguous
<1>5. ASSUME NEW S, BehindPort(S, frames, joined, output)
      PROVE  BehindPort(S, frames', joined', output')
  BY <1>2, <1>5 DEF BehindPort
<1>6. Cover'
  BY <1>2, <1>5 DEF Shape, Cover, Positions
<1>7. graph' \in Seq(JoinNode) /\ Forest' /\ PlanIsTree'
  <2>1. CASE joined = Nothing
    <3>1. graph' = graph
      BY <2>1 DEF EndElement
    <3> QED BY <1>5, <3>1 DEF Shape, ShapeTypeOK, Forest, PlanIsTree
  <2>2. CASE joined # Nothing
    <3>1. PICK node : node = [kind |-> "inner", left |-> joined, right |-> output]
      OBVIOUS
    <3>2. node \in JoinNode /\ node.left = joined /\ node.right = output
      BY <1>2, <2>2, <3>1 DEF JoinNode, Kinds
    <3>3. graph' = Append(graph, node)
      BY <2>2, <3>1 DEF EndElement
    <3>4. /\ DOMAIN graph' = DOMAIN graph \cup {Len(graph) + 1} /\ graph'[Len(graph) + 1] = node
          /\ \A k \in DOMAIN graph : graph'[k] = graph[k]
      BY <3>2, <3>3 DEF Shape, ShapeTypeOK
    <3>5. BehindPort(node.left \cup node.right, frames', joined', output')
      BY <1>2, <3>2 DEF BehindPort
    <3>6. Forest'
      BY <1>5, <3>4, <3>5 DEF Shape, Forest
    <3>7. node.left \cap node.right = {}
      BY <3>2, Disjoint
    <3>8. \A S : BehindPort(S, frames, joined, output) =>
                     \/ S \cap (node.left \cup node.right) = {}
                     \/ S \subseteq node.left
                     \/ S \subseteq node.right
      BY <1>2, <3>2 DEF BehindPort
    <3>9. PlanIsTree'
      BY <3>2, <3>3, <3>7, <3>8, OneMoreJoin
    <3> QED BY <3>2, <3>3, <3>6, <3>9 DEF Shape, ShapeTypeOK
  <2> QED BY <2>1, <2>2
<1>8. ShapeTypeOK'
  BY <1>2, <1>3, <1>7 DEF ShapeTypeOK, Positions, JoinFrame, JoinNode, Nothing
<1> QED BY <1>4, <1>6, <1>7, <1>8 DEF Shape

LEMMA EmptyClauseShape ==
    ASSUME Shape, EmptyClause
    PROVE  Shape'
<1>1. /\ Positions = {} /\ Positions' = {1} /\ Len(relations') = 1
      /\ frames = <<>> /\ frames' = <<>> /\ graph' = graph
      /\ output' = Nothing /\ joined' = 1..1
  BY DEF Shape, ShapeTypeOK, EmptyClause, Positions, Nothing
<1>2. graph' = <<>>
  BY <1>1 DEF Shape, ShapeTypeOK, JoinNode, Nothing
<1>3. Contiguous'
  BY <1>1, OneOperand DEF Contiguous
<1>4. Cover' /\ Forest' /\ PlanIsTree'
  BY <1>1, <1>2 DEF Cover, BehindPort, Forest, PlanIsTree
<1>5. ShapeTypeOK'
  BY <1>1, <1>2 DEF ShapeTypeOK, Nothing
<1> QED BY <1>3, <1>4, <1>5 DEF Shape

(***************************************************************************)
(* The data of the scope, and how the pairs of USING are ordered: those of *)
(* one join have their left columns before its pivot and their right ones  *)
(* after it, and the pairs of the join in hand bear the next number.       *)
(***************************************************************************)
Row == [name : Names, exported : BOOLEAN]
DataTypeOK ==
    /\ relations \in Seq(Seq(Row))
    /\ pairs \subseteq [left : Columns, right : Columns, join : Nat]
    /\ using \in Seq(Names)
    /\ pc \in {"visit", "using", "done"}

AcrossPivot(p) ==
    pc = "using" /\ p.join = Len(graph) + 1 /\ p.left[1] <= Frame.pivot /\ Frame.pivot < p.right[1]
JoinsInOrder ==
    /\ pc = "using" => frames # <<>> /\ AtRight
    /\ \A p, q \in pairs : p.join = q.join => p.left[1] < q.right[1]
    /\ \A p \in pairs : p.join <= Len(graph) \/ AcrossPivot(p)

Inv == Shape /\ DataTypeOK /\ JoinsInOrder /\ UsingExact

LEMMA TypeIsPart == Shape /\ DataTypeOK => TypeOK
BY DEF Shape, ShapeTypeOK, DataTypeOK, TypeOK, JoinFrame, JoinNode, Row

LEMMA ColumnType ==
    ASSUME DataTypeOK, NEW c \in Columns
    PROVE  /\ c[1] \in Positions /\ c[1] \in Nat /\ c = <<c[1], c[2]>>
           /\ c[2] \in DOMAIN relations[c[1]] /\ Column(c) \in Row
<1>1. /\ c[1] \in Positions /\ c[1] \in Nat /\ c[2] \in 1..MaxColumns /\ c = <<c[1], c[2]>>
      /\ c[2] <= Len(relations[c[1]])
  BY DEF Columns, Positions
<1>2. relations[c[1]] \in Seq(Row) /\ c[2] \in Nat
  BY <1>1, BoundsAssumption DEF DataTypeOK, Positions
<1>3. c[2] \in 1..Len(relations[c[1]])
  BY <1>1, <1>2, BoundsAssumption
<1> QED BY <1>1, <1>2, <1>3 DEF Column

LEMMA FiniteColumns ==
    ASSUME Len(relations) \in Nat, NEW n, NEW from, NEW to
    PROVE  IsFiniteSet(Visible(n, from, to))
<1>1. MaxColumns \in Nat
  BY BoundsAssumption
<1>2. IsFiniteSet(Positions) /\ IsFiniteSet(1..MaxColumns)
  BY <1>1, FS_Interval DEF Positions
<1>3. IsFiniteSet(Positions \X (1..MaxColumns))
  BY <1>2, FS_Product
<1>4. Visible(n, from, to) \subseteq Positions \X (1..MaxColumns)
  BY DEF Visible, Columns
<1> QED BY <1>3, <1>4, FS_Subset

(***************************************************************************)
(* A relation is added: its columns are visible and in no pair.            *)
(***************************************************************************)
LEMMA AppendedColumns ==
    ASSUME DataTypeOK, NEW heading \in Seq(Row), relations' = Append(relations, heading)
    PROVE  /\ relations' \in Seq(Seq(Row)) /\ Columns \subseteq Columns'
           /\ \A c \in Columns : Column(c)' = Column(c)
           /\ \A c \in Columns' : c \in Columns \/ (Column(c)' = heading[c[2]] /\ c[2] \in DOMAIN heading)
<1>1. /\ relations' \in Seq(Seq(Row)) /\ Len(relations) \in Nat
      /\ Len(relations') = Len(relations) + 1 /\ relations'[Len(relations) + 1] = heading
      /\ \A i \in 1..Len(relations) : i \in 1..Len(relations') /\ relations'[i] = relations[i]
  BY DEF DataTypeOK
<1>2. \A c \in Columns : c \in Columns' /\ relations'[c[1]] = relations[c[1]]
  BY <1>1 DEF Columns, Positions
<1>3. ASSUME NEW c \in Columns', c \notin Columns
      PROVE  Column(c)' = heading[c[2]] /\ c[2] \in DOMAIN heading
  <2>1. /\ c[1] \in 1..(Len(relations) + 1) /\ c[2] \in 1..MaxColumns
        /\ c \in (1..(Len(relations) + 1)) \X (1..MaxColumns)
        /\ c[2] <= Len(relations'[c[1]])
    BY <1>1, <1>3 DEF Columns, Positions
  <2>2. c[1] = Len(relations) + 1
    <3>1. CASE c[1] \in 1..Len(relations)
      <4>1. c \in Positions \X (1..MaxColumns) /\ c[2] <= Len(relations[c[1]])
        BY <1>1, <2>1, <3>1 DEF Positions
      <4> QED BY <1>3, <4>1 DEF Columns
    <3> QED BY <1>1, <2>1, <3>1
  <2>3. c[2] \in 1..Len(heading)
    BY <1>1, <2>1, <2>2, BoundsAssumption
  <2> QED BY <1>1, <2>2, <2>3 DEF Column
<1>4. \A c \in Columns : Column(c)' = Column(c)
  BY <1>2 DEF Column
<1>5. Columns \subseteq Columns'
  BY <1>2
<1>6. \A c \in Columns' : c \in Columns \/ (Column(c)' = heading[c[2]] /\ c[2] \in DOMAIN heading)
  BY <1>3
<1>7. relations' \in Seq(Seq(Row))
  BY <1>1
<1> QED BY <1>4, <1>5, <1>6, <1>7

LEMMA AppendedPairs ==
    ASSUME Shape, DataTypeOK, JoinsInOrder, UsingExact, pc = "visit",
           NEW heading \in Seq(Row), \A j \in DOMAIN heading : heading[j].exported = TRUE,
           relations' = Append(relations, heading), UNCHANGED <<frames, graph, pairs, using, pc>>
    PROVE  DataTypeOK' /\ JoinsInOrder' /\ UsingExact'
<1>1. /\ relations' \in Seq(Seq(Row)) /\ Columns \subseteq Columns'
      /\ \A c \in Columns : Column(c)' = Column(c)
      /\ \A c \in Columns' : c \in Columns \/ (Column(c)' = heading[c[2]] /\ c[2] \in DOMAIN heading)
  BY AppendedColumns
<1>2. DataTypeOK'
  BY <1>1 DEF DataTypeOK
<1>3. JoinsInOrder'
  BY DEF JoinsInOrder, AcrossPivot
<1>4. \A p \in pairs : p.left \in Columns /\ p.right \in Columns
  BY DEF DataTypeOK
<1>5. HiddenExact'
  <2>1. ASSUME NEW c \in Columns'
        PROVE  ~Column(c)'.exported <=> \E p \in pairs : p.right = c
    <3>1. CASE c \in Columns
      <4>1. Column(c)' = Column(c)
        BY <1>1, <3>1
      <4>2. ~Column(c).exported <=> \E p \in pairs : p.right = c
        BY <3>1 DEF UsingExact, HiddenExact
      <4> QED BY <4>1, <4>2
    <3>2. CASE c \notin Columns
      <4>1. Column(c)'.exported = TRUE
        BY <1>1, <3>2
      <4> QED BY <1>4, <3>2, <4>1
    <3> QED BY <3>1, <3>2
  <2> QED BY <2>1 DEF UsingExact, HiddenExact
<1>6. NamesKept'
  <2>1. ASSUME NEW p \in pairs
        PROVE  Visible(Column(p.right).name, 1, p.right[1] - 1)' # {}
    <3>1. PICK c : c \in Visible(Column(p.right).name, 1, p.right[1] - 1)
      BY DEF UsingExact, NamesKept
    <3>2. c \in Visible(Column(p.right).name, 1, p.right[1] - 1)'
      BY <1>1, <1>4, <3>1 DEF Visible
    <3> QED BY <3>2
  <2> QED BY <2>1 DEF NamesKept
<1>7. UsingUnambiguous'
  BY DEF UsingUnambiguous
<1> QED BY <1>2, <1>3, <1>5, <1>6, <1>7 DEF UsingExact

(***************************************************************************)
(* The pairs stay, and no join is in the middle of its USING list          *)
(* afterwards, or it has not looked at a name yet.                         *)
(***************************************************************************)
LEMMA SamePairs ==
    ASSUME Shape, DataTypeOK, JoinsInOrder, UsingExact,
           UNCHANGED <<relations, pairs>>, pc' \in {"visit", "using", "done"},
           using' \in Seq(Names),
           Len(graph) \in Nat, Len(graph') \in Nat, Len(graph') >= Len(graph),
           pc = "using" => Len(graph') > Len(graph),
           pc' = "using" => frames' # <<>> /\ AtRight'
    PROVE  DataTypeOK' /\ JoinsInOrder' /\ UsingExact'
<1>1. DataTypeOK'
  BY DEF DataTypeOK, Columns, Positions
<1>2. \A p \in pairs : p.join <= Len(graph') /\ p.join \in Nat
  BY DEF DataTypeOK, JoinsInOrder, AcrossPivot
<1>3. JoinsInOrder'
  BY <1>2 DEF JoinsInOrder
<1>4. HiddenExact' /\ NamesKept'
  BY DEF UsingExact, HiddenExact, NamesKept, Visible, Column, Columns, Positions
<1>5. UsingUnambiguous'
  BY <1>2 DEF UsingUnambiguous
<1> QED BY <1>1, <1>3, <1>4, <1>5 DEF UsingExact

(***************************************************************************)
(* What hiding a column does to the scope: nothing but that.               *)
(***************************************************************************)
LEMMA Hidden ==
    ASSUME DataTypeOK, NEW left, NEW right \in Columns, Hide(left, right)
    PROVE  /\ relations' \in Seq(Seq(Row)) /\ Len(relations') = Len(relations)
           /\ Columns' = Columns
           /\ \A c \in Columns : c # right => Column(c)' = Column(c)
           /\ Column(right)'.name = Column(right).name
           /\ Column(right)'.exported = FALSE
<1> DEFINE i == right[1]
           j == right[2]
<1>1. /\ i \in Positions /\ right = <<i, j>> /\ j \in DOMAIN relations[i] /\ Column(right) \in Row
      /\ relations[i] \in Seq(Row) /\ Column(right) = relations[i][j]
  BY ColumnType DEF DataTypeOK, Positions, Column
<1>2. PICK row : row = [Column(right) EXCEPT !.exported = FALSE]
  OBVIOUS
<1>3. row \in Row /\ row.name = Column(right).name /\ row.exported = FALSE
  BY <1>1, <1>2 DEF Row
<1>4. PICK heading : heading = [relations[i] EXCEPT ![j] = row]
  OBVIOUS
<1>5. /\ heading \in Seq(Row) /\ Len(heading) = Len(relations[i]) /\ heading[j] = row
      /\ \A k \in DOMAIN relations[i] : k # j => heading[k] = relations[i][k]
  BY <1>1, <1>3, <1>4
<1>6. relations' = [relations EXCEPT ![i] = heading]
  BY <1>1, <1>2, <1>4 DEF Hide
<1>7. /\ relations' \in Seq(Seq(Row)) /\ Len(relations') = Len(relations)
      /\ relations'[i] = heading
      /\ \A k \in Positions : k # i => relations'[k] = relations[k]
  BY <1>1, <1>5, <1>6 DEF DataTypeOK, Positions
<1>8. Columns' = Columns
  <2>1. \A k \in Positions : Len(relations'[k]) = Len(relations[k])
    BY <1>5, <1>7
  <2>2. Positions' = Positions
    BY <1>7 DEF Positions
  <2>3. \A c \in Positions \X (1..MaxColumns) :
            c[2] <= Len(relations'[c[1]]) <=> c[2] <= Len(relations[c[1]])
    BY <2>1
  <2> QED BY <2>2, <2>3 DEF Columns
<1>9. ASSUME NEW c \in Columns, c # right
      PROVE  Column(c)' = Column(c)
  <2>1. c = <<c[1], c[2]>> /\ c[1] \in Positions /\ c[2] \in DOMAIN relations[c[1]]
    BY ColumnType
  <2>2. CASE c[1] # i
    BY <1>7, <2>1, <2>2 DEF Column
  <2>3. CASE c[1] = i
    <3>1. c[2] # j
      BY <1>1, <1>9, <2>1, <2>3
    <3> QED BY <1>5, <1>7, <2>1, <2>3, <3>1 DEF Column
  <2> QED BY <2>2, <2>3
<1>10. Column(right)' = row
  BY <1>1, <1>5, <1>7 DEF Column
<1> QED BY <1>3, <1>7, <1>8, <1>9, <1>10

LEMMA UsingStep ==
    ASSUME Inv, Using
    PROVE  Fail \/ (DataTypeOK' /\ JoinsInOrder' /\ UsingExact'
                        /\ Len(relations') = Len(relations)
                        /\ UNCHANGED <<output, frames, joined, graph>>)
<1> SUFFICES ASSUME ~Fail
             PROVE  /\ DataTypeOK' /\ JoinsInOrder' /\ UsingExact'
                    /\ Len(relations') = Len(relations)
                    /\ UNCHANGED <<output, frames, joined, graph>>
  OBVIOUS
<1> USE DEF Inv
<1>1. PICK n : n = Head(using)
  OBVIOUS
<1>2. PICK left \in LeftColumns(n), right \in RightColumns(n) :
          /\ Cardinality(LeftColumns(n)) = 1 /\ Cardinality(RightColumns(n)) = 1
          /\ Hide(left, right)
          /\ pairs' = pairs \cup {[left |-> left, right |-> right, join |-> Len(graph) + 1]}
          /\ using' = Tail(using)
          /\ UNCHANGED <<output, frames, joined, graph, pc>>
  BY <1>1 DEF Using
<1>3. /\ pc = "using" /\ using # <<>> /\ using \in Seq(Names) /\ n \in Names
      /\ Len(relations) \in Nat /\ Len(graph) \in Nat
  BY <1>1 DEF Using, DataTypeOK, Shape, ShapeTypeOK
<1>4. frames # <<>> /\ AtRight /\ Frame.pivot \in Nat
  <2>1. frames # <<>> /\ AtRight
    BY <1>3 DEF JoinsInOrder
  <2>2. Frame \in JoinFrame
    BY <2>1 DEF Shape, ShapeTypeOK, Frame
  <2> QED BY <2>1, <2>2 DEF JoinFrame
<1>5. LeftColumns(n) = {left} /\ RightColumns(n) = {right}
  <2>1. IsFiniteSet(LeftColumns(n)) /\ IsFiniteSet(RightColumns(n))
    BY <1>3, FiniteColumns DEF LeftColumns, RightColumns
  <2> QED BY <1>2, <2>1, FS_Singleton
<1>6. /\ left \in Columns /\ Column(left).name = n /\ Column(left).exported
      /\ left[1] \in 1..Frame.pivot
      /\ right \in Columns /\ Column(right).name = n /\ Column(right).exported
      /\ right[1] \in (Frame.pivot + 1)..Len(relations)
  BY <1>5 DEF LeftColumns, RightColumns, Visible
<1>7. left[1] < right[1] /\ left[1] <= Frame.pivot /\ Frame.pivot < right[1] /\ left # right
  BY <1>3, <1>4, <1>6
<1>8. PICK new : new = [left |-> left, right |-> right, join |-> Len(graph) + 1]
  OBVIOUS
<1>9. /\ new.left = left /\ new.right = right /\ new.join = Len(graph) + 1
      /\ pairs' = pairs \cup {new} /\ new \in [left : Columns, right : Columns, join : Nat]
  BY <1>2, <1>3, <1>6, <1>8
<1>10. /\ relations' \in Seq(Seq(Row)) /\ Len(relations') = Len(relations)
       /\ Columns' = Columns
       /\ \A c \in Columns : c # right => Column(c)' = Column(c)
       /\ Column(right)'.name = n /\ Column(right)'.exported = FALSE
  BY <1>2, <1>6, Hidden
<1>11. /\ \A p \in pairs : /\ p.left \in Columns /\ p.right \in Columns /\ p.join \in Nat
                           /\ p.left[1] \in Nat /\ p.right[1] \in Nat
       /\ \A c \in Columns : Column(c)'.name = Column(c).name
  BY <1>6, <1>10, ColumnType DEF DataTypeOK
<1>12. DataTypeOK'
  BY <1>2, <1>3, <1>9, <1>10 DEF DataTypeOK
<1>13. JoinsInOrder'
  <2>1. AcrossPivot(new)'
    BY <1>2, <1>3, <1>7, <1>9 DEF AcrossPivot, Frame
  <2>2. \A p \in pairs : p.join <= Len(graph) \/ AcrossPivot(p)'
    BY <1>2 DEF JoinsInOrder, AcrossPivot, Frame
  <2>3. \A p \in pairs' : p.join <= Len(graph') \/ AcrossPivot(p)'
    BY <1>2, <1>9, <2>1, <2>2
  <2>4. ASSUME NEW p \in pairs', NEW q \in pairs', p.join = q.join
        PROVE  p.left[1] < q.right[1]
    <3>1. CASE p \in pairs /\ q \in pairs
      BY <2>4, <3>1 DEF JoinsInOrder
    <3>2. CASE p = new /\ q = new
      BY <1>7, <1>9, <3>2
    <3>3. CASE p = new /\ q \in pairs
      <4>1. AcrossPivot(q)
        BY <1>3, <1>9, <1>11, <2>4, <3>3 DEF JoinsInOrder
      <4> QED BY <1>4, <1>6, <1>9, <1>11, <3>3, <4>1 DEF AcrossPivot
    <3>4. CASE p \in pairs /\ q = new
      <4>1. AcrossPivot(p)
        BY <1>3, <1>9, <1>11, <2>4, <3>4 DEF JoinsInOrder
      <4> QED BY <1>3, <1>4, <1>6, <1>9, <1>11, <3>4, <4>1 DEF AcrossPivot
    <3> QED BY <1>9, <3>1, <3>2, <3>3, <3>4
  <2>5. frames' # <<>> /\ AtRight'
    BY <1>2, <1>4 DEF AtRight, Frame
  <2> QED BY <2>3, <2>4, <2>5 DEF JoinsInOrder
<1>14. HiddenExact'
  <2>1. ~\E p \in pairs : p.right = right
    BY <1>6 DEF UsingExact, HiddenExact
  <2>2. ASSUME NEW c \in Columns
        PROVE  ~Column(c)'.exported <=> \E p \in pairs' : p.right = c
    <3>1. CASE c = right
      BY <1>9, <1>10, <3>1
    <3>2. CASE c # right
      BY <1>9, <1>10, <3>2 DEF UsingExact, HiddenExact
    <3> QED BY <3>1, <3>2
  <2>3. \A p, q \in pairs' : p.right = q.right => p = q
    BY <1>9, <2>1 DEF UsingExact, HiddenExact
  <2>4. ASSUME NEW p \in pairs', NEW q \in pairs', p.join = q.join
        PROVE  p.left # q.right
    <3>1. p.left[1] < q.right[1] /\ q.right[1] \in Nat
      <4>1. right[1] \in Nat
        BY <1>4, <1>6
      <4> QED BY <1>9, <1>11, <1>13, <2>4, <4>1 DEF JoinsInOrder
    <3> QED BY <3>1
  <2> QED BY <1>10, <2>2, <2>3, <2>4 DEF HiddenExact
<1>15. NamesKept'
  <2>1. ASSUME NEW p \in pairs'
        PROVE  \E c \in Columns : /\ c[1] \in 1..(p.right[1] - 1)
                                  /\ Column(c)'.name = Column(p.right)'.name
                                  /\ Column(c)'.exported
    <3>1. Column(left)' = Column(left) /\ left[1] \in 1..(right[1] - 1)
      BY <1>4, <1>6, <1>7, <1>10
    <3>2. CASE p = new
      BY <1>6, <1>9, <1>10, <3>1, <3>2
    <3>3. CASE p \in pairs
      <4>1. PICK c \in Columns : /\ c[1] \in 1..(p.right[1] - 1)
                                 /\ Column(c).name = Column(p.right).name
                                 /\ Column(c).exported
        BY <3>3 DEF UsingExact, NamesKept, Visible
      <4>2. CASE c # right
        BY <1>10, <1>11, <3>3, <4>1, <4>2
      <4>3. CASE c = right
        <5>1. left[1] \in 1..(p.right[1] - 1)
          BY <1>11, <3>1, <3>3, <4>1, <4>3
        <5>2. Column(p.right)'.name = n
          BY <1>6, <1>11, <3>3, <4>1, <4>3
        <5> QED BY <1>6, <3>1, <5>1, <5>2
      <4> QED BY <4>2, <4>3
    <3> QED BY <1>9, <3>2, <3>3
  <2>2. ASSUME NEW p \in pairs'
        PROVE  Visible(Column(p.right).name, 1, p.right[1] - 1)' # {}
    <3>1. PICK c \in Columns : /\ c[1] \in 1..(p.right[1] - 1)
                               /\ Column(c)'.name = Column(p.right)'.name
                               /\ Column(c)'.exported
      BY <2>1
    <3>2. c \in Visible(Column(p.right).name, 1, p.right[1] - 1)'
      BY <1>10, <3>1 DEF Visible
    <3> QED BY <3>2
  <2> QED BY <2>2 DEF NamesKept
<1>16. UsingUnambiguous'
  <2>1. ASSUME NEW c \in Columns
        PROVE  c[1] \in 1..Len(relations) /\ (c[1] \in 1..Frame.pivot
                                                \/ c[1] \in (Frame.pivot + 1)..Len(relations))
    BY <1>3, <1>4, ColumnType DEF Positions
  <2>2. Visible(n, 1, Len(relations)) = {left, right}
    BY <1>5, <1>6, <2>1 DEF Visible, LeftColumns, RightColumns
  <2>3. Visible(n, 1, Len(relations))' = {left}
    BY <1>6, <1>7, <1>10, <1>11, <2>1, <2>2 DEF Visible
  <2>4. ASSUME NEW p \in pairs', p.join = Len(graph) + 1
        PROVE  Cardinality(Visible(Column(p.right).name, 1, Len(relations))') = 1
    <3>1. CASE Column(p.right)'.name = n
      <4>1. Visible(Column(p.right).name, 1, Len(relations))' = {left}
        BY <2>3, <3>1 DEF Visible
      <4> QED BY <4>1, FS_Singleton
    <3>2. CASE Column(p.right)'.name # n
      <4>1. p \in pairs /\ Column(p.right).name # n
        BY <1>9, <1>10, <1>11, <3>2
      <4>2. Visible(Column(p.right).name, 1, Len(relations))'
                = Visible(Column(p.right).name, 1, Len(relations))
        BY <1>6, <1>10, <1>11, <4>1 DEF Visible
      <4> QED BY <1>3, <2>4, <4>1, <4>2 DEF UsingExact, UsingUnambiguous
    <3> QED BY <3>1, <3>2
  <2> QED BY <1>2, <2>4 DEF UsingUnambiguous
<1> QED BY <1>2, <1>10, <1>12, <1>13, <1>14, <1>15, <1>16 DEF UsingExact

(***************************************************************************)
(* The invariant, and what it says to a reader.                            *)
(***************************************************************************)
LEMMA Empty ==
    ASSUME relations = <<>>, output = Nothing, frames = <<>>, joined = Nothing, graph = <<>>,
           pairs = {}, using = <<>>, pc = "visit"
    PROVE  Inv
<1>1. Shape
  BY Start
<1>2. Columns = {}
  BY DEF Columns, Positions
<1> QED BY <1>1, <1>2 DEF Inv, DataTypeOK, JoinsInOrder, UsingExact, HiddenExact, NamesKept,
                          UsingUnambiguous

LEMMA Failed == Fail => Inv'
<1> SUFFICES ASSUME Fail PROVE Inv'
  OBVIOUS
<1>1. Shape'
  <2>1. Len(relations') = 0 /\ Len(frames') = 0 /\ DOMAIN graph' = {} /\ output' = {} /\ joined' = {}
    BY DEF Fail, Nothing
  <2>2. ShapeTypeOK'
    BY <2>1 DEF ShapeTypeOK, Fail
  <2>3. Contiguous'
    <3>1. joined' = 1..0 /\ output' = Nothing /\ frames' = <<>> /\ Len(relations') = 0
      BY <2>1 DEF Fail
    <3> QED BY <3>1, OneOperand DEF Contiguous
  <2> QED BY <2>1, <2>2, <2>3 DEF Shape, Cover, Forest, PlanIsTree, Positions
<1>2. Columns' = {}
  BY DEF Columns, Positions, Fail
<1> QED BY <1>1, <1>2 DEF Inv, Fail, DataTypeOK, JoinsInOrder, UsingExact, HiddenExact, NamesKept,
                          UsingUnambiguous

LEMMA HeadingType ==
    ASSUME NEW heading \in Headings
    PROVE  /\ heading \in Seq(Row)
           /\ \A j \in DOMAIN heading : heading[j].exported = TRUE
<1> DEFINE Visibles == [name : Names, exported : {TRUE}]
<1>1. PICK k \in 0..MaxColumns : heading \in [1..k -> Visibles]
  BY DEF Headings, Lists
<1>2. Visibles \subseteq Row /\ \A c \in Visibles : c.exported = TRUE
  BY DEF Row
<1>3. k \in Nat /\ heading \in [1..k -> Row] /\ \A j \in DOMAIN heading : heading[j].exported = TRUE
  <2> HIDE DEF Visibles
  <2> QED BY <1>1, <1>2, BoundsAssumption
<1> QED BY <1>1, <1>3, SeqDef

LEMMA NamesType ==
    ASSUME NEW names \in Lists(Names, MaxUsing)
    PROVE  names \in Seq(Names)
<1>1. PICK k \in 0..MaxUsing : names \in [1..k -> Names]
  BY DEF Lists
<1> QED BY <1>1, BoundsAssumption, SeqDef

LEMMA AppendedStep ==
    ASSUME Inv, NEW heading \in Headings, pc = "visit",
           relations' = Append(relations, heading),
           output' = output \cup {Len(relations) + 1},
           UNCHANGED <<frames, joined, graph, pairs, using, pc>>
    PROVE  Inv'
<1>1. heading \in Seq(Row) /\ \A j \in DOMAIN heading : heading[j].exported = TRUE
  BY HeadingType
<1>2. DataTypeOK' /\ JoinsInOrder' /\ UsingExact'
  BY <1>1, AppendedPairs DEF Inv
<1>3. Len(relations') = Len(relations) + 1
  BY DEF Inv, DataTypeOK
<1>4. Shape'
  BY <1>2, <1>3, Widened DEF Inv, DataTypeOK, Row
<1> QED BY <1>2, <1>4 DEF Inv

LEMMA Preserved == Inv /\ [Next]_vars => Inv'
<1> SUFFICES ASSUME Inv, [Next]_vars PROVE Inv'
  OBVIOUS
<1>0. /\ Len(relations) \in Nat /\ graph \in Seq(JoinNode) /\ Len(graph) \in Nat
      /\ using \in Seq(Names) /\ pc \in {"visit", "using", "done"}
  BY DEF Inv, Shape, ShapeTypeOK, DataTypeOK
<1>1. ASSUME NEW heading \in Headings, Relation(heading)
      PROVE  Inv'
  BY <1>1, AppendedStep DEF Relation, Nothing
<1>2. ASSUME NEW heading \in Headings, Apply(heading)
      PROVE  Inv'
  BY <1>2, AppendedStep DEF Apply
<1>3. ASSUME NEW kind \in Kinds, BeginJoin(kind)
      PROVE  Inv'
  <2>1. Shape'
    BY <1>3, BeginJoinShape DEF Inv
  <2> QED BY <1>0, <1>3, <2>1, SamePairs DEF Inv, BeginJoin
<1>4. CASE EndLeft
  <2>1. Shape'
    BY <1>4, EndLeftShape DEF Inv
  <2> QED BY <1>0, <1>4, <2>1, SamePairs DEF Inv, EndLeft
<1>5. ASSUME Emit, AtRight, UNCHANGED <<relations, joined, pairs, using>>, pc' = "visit"
      PROVE  Inv'
  <2>1. Shape'
    BY <1>5, EmitShape DEF Inv
  <2>2. Len(graph') = Len(graph) + 1
    BY <1>0, <1>5 DEF Emit
  <2> QED BY <1>0, <1>5, <2>1, <2>2, SamePairs DEF Inv
<1>6. CASE EndRight
  BY <1>5, <1>6 DEF EndRight
<1>7. ASSUME NEW names \in Lists(Names, MaxUsing), BeginUsing(names)
      PROVE  Inv'
  <2>1. names \in Seq(Names)
    BY NamesType
  <2>2. Shape'
    BY <1>7, SameShape DEF Inv, BeginUsing
  <2>3. frames' # <<>> /\ AtRight'
    BY <1>7 DEF BeginUsing, AtRight, Frame
  <2> QED BY <1>0, <1>7, <2>1, <2>2, <2>3, SamePairs DEF Inv, BeginUsing
<1>8. CASE Using
  <2>1. CASE Fail
    BY <2>1, Failed
  <2>2. CASE ~Fail
    <3>1. /\ DataTypeOK' /\ JoinsInOrder' /\ UsingExact'
          /\ Len(relations') = Len(relations) /\ UNCHANGED <<output, frames, joined, graph>>
      BY <1>8, <2>2, UsingStep
    <3>2. Shape'
      BY <3>1, SameShape DEF Inv
    <3> QED BY <3>1, <3>2 DEF Inv
  <2> QED BY <2>1, <2>2
<1>9. CASE EndUsing
  BY <1>5, <1>9 DEF EndUsing, Inv, JoinsInOrder
<1>10. CASE EndElement
  <2>1. Shape'
    BY <1>10, EndElementShape DEF Inv
  <2>2. Len(graph') \in Nat /\ Len(graph') >= Len(graph)
    BY <1>0, <1>10 DEF EndElement
  <2> QED BY <1>0, <1>10, <2>1, <2>2, SamePairs DEF Inv, EndElement
<1>11. CASE EndClause
  <2>1. Shape'
    BY <1>11, SameShape DEF Inv, EndClause
  <2> QED BY <1>0, <1>11, <2>1, SamePairs DEF Inv, EndClause
<1>12. CASE EmptyClause
  <2>1. Shape'
    BY <1>12, EmptyClauseShape DEF Inv
  <2>2. Columns = {} /\ Columns' = {} /\ relations' \in Seq(Seq(Row)) /\ pc' = "done"
    BY <1>12 DEF EmptyClause, Columns, Positions
  <2>3. pairs = {} /\ pairs' = {}
    BY <1>12, <2>2 DEF Inv, DataTypeOK, EmptyClause
  <2>4. using' \in Seq(Names)
    BY <1>0, <1>12 DEF EmptyClause
  <2> QED BY <2>1, <2>2, <2>3, <2>4 DEF Inv, DataTypeOK, JoinsInOrder, UsingExact, HiddenExact,
                                     NamesKept, UsingUnambiguous
<1>13. CASE UNCHANGED vars
  <2>1. Shape'
    BY <1>13, SameShape DEF vars, Inv
  <2>2. DataTypeOK' /\ JoinsInOrder'
    BY <1>13 DEF vars, Inv, DataTypeOK, Columns, Positions, JoinsInOrder, AtRight, Frame, AcrossPivot
  <2>3. HiddenExact' /\ NamesKept' /\ UsingUnambiguous'
    BY <1>13 DEF vars, Inv, UsingExact, HiddenExact, NamesKept, UsingUnambiguous, Visible, Column,
                 Columns, Positions
  <2> QED BY <2>1, <2>2, <2>3 DEF Inv, UsingExact
<1> QED BY <1>1, <1>2, <1>3, <1>4, <1>6, <1>7, <1>8, <1>9, <1>10, <1>11, <1>12, <1>13 DEF Next

LEMMA Reached == Spec => []Inv
<1>1. Init => Inv
  BY Empty DEF Init
<1> QED BY <1>1, Preserved, PTL DEF Spec

(* Every relation of the scope is behind exactly one of the ports in hand, *)
(* those of one port are neighbours, and the joins emitted form a tree: an *)
(* operand is used once, whatever the joins of the clause and their        *)
(* nesting (process() of the table expressions).                           *)
THEOREM Plan == Spec => []PlanWellFormed
<1>1. Inv => PlanWellFormed
  BY TypeIsPart, Partition DEF Inv, Shape, PlanWellFormed
<1> QED BY <1>1, Reached, PTL

(* The relations after the pivot of a join are its right operand, so that  *)
(* USING looks for its two columns in the two operands and nowhere else.   *)
THEOREM Pivots == Spec => []PivotExact
<1>1. Inv => PivotExact
  BY Pivot DEF Inv
<1> QED BY <1>1, Reached, PTL

(* JOIN ... USING merges pairs of columns: a column is hidden exactly when *)
(* it is the right one of one pair, its name stays reachable, and right    *)
(* after it was visited the name is unambiguous in the whole scope.        *)
THEOREM Merged == Spec => []UsingExact
<1>1. Inv => UsingExact
  BY DEF Inv
<1> QED BY <1>1, Reached, PTL

=============================================================================
