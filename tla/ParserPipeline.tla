--------------------------- MODULE ParserPipeline ---------------------------
(***************************************************************************)
(* sql_parser: one call runs the scanner, the driver and the grammar over  *)
(* a document, and the validator over the tree that comes out of them.     *)
(* The grammar is what may come of the tokens: Parses() gives the trees it *)
(* may build of a document.  It may also find, at any token, that the      *)
(* document is no SQL (report_syntax_error, or a rule that reports an      *)
(* error and gives up).  The options are chosen when they are first looked *)
(* at.                                                                     *)
(***************************************************************************)
EXTENDS SqlDriver, TreeValidator

CONSTANTS
    Trees,              \* what the rules of the grammar can build
    Parses(_, _, _),    \* those of a document, by tokens, marks and functions
    NodeLimits, DepthLimits,
    ListLimits,         \* functions from kinds of elements to limits
    NoTree

ASSUME TreesAssumption ==
    /\ NoTree \notin Trees
    /\ \A tree \in Trees : IsTree(tree) /\ tree[<<>>].class = "compilation_unit"

ASSUME LimitsAssumption ==
    /\ NodeLimits \subseteq Nat
    /\ DepthLimits \subseteq Nat
    /\ \A limit \in ListLimits : \A kind \in DOMAIN limit : limit[kind] \in Nat

VARIABLES
    stage,      \* "parse", "check", "walk" or "done"
    parsed,     \* the semantic value of program, before success()
    lists,      \* element_limits_
    result      \* sql_parser_result

pipeline == <<unit, limits, walk, stage, parsed, lists, result>>
all == <<vars, pipeline>>

NoResult == [kind |-> "open"]
Unlimited == [node |-> 0, depth |-> 0]

PipelineInit ==
    /\ Init
    /\ stage = "parse"
    /\ unit = NoTree
    /\ parsed = NoTree
    /\ limits = Unlimited
    /\ lists = <<>>
    /\ todo = <<>>
    /\ nodeCount = 0
    /\ maxDepth = 0
    /\ exceeded = "none"
    /\ result = NoResult

-----------------------------------------------------------------------------
Scan == stage = "parse" /\ Next /\ UNCHANGED pipeline

(* driver.error(): the result is a diagnostic, and the parser gives up.    *)
Refuse(code) ==
    /\ result' = [kind |-> "diagnostic", code |-> code]
    /\ stage' = "done"
    /\ UNCHANGED <<vars, unit, limits, walk>>

SyntaxError ==
    /\ stage = "parse"
    /\ tokens # {}
    /\ Refuse("syntax_error")
    /\ UNCHANGED <<parsed, lists>>

(* validate(): a list is measured whenever an element is appended to it,   *)
(* so the empty statement behind a last semicolon is one of the list.      *)
TooLong(tree, limit) ==
    \E path \in DOMAIN tree : \E f \in Operands(tree[path].class) :
        /\ f.kind \in DOMAIN limit
        /\ limit[f.kind] # 0
        /\ limit[f.kind] < tree[path].size[f.name]

Build ==
    /\ stage = "parse"
    /\ pc = "end"
    /\ parsed' \in Parses(tokens, marks, functions)
    /\ parsed' \in Trees
    /\ lists' \in ListLimits

ListError ==
    /\ Build
    /\ TooLong(parsed', lists')
    /\ Refuse("exceed_number_of_elements")

Success ==
    /\ Build
    /\ ~TooLong(parsed', lists')
    /\ unit' = WithoutBlank(parsed')
    /\ stage' = "check"
    /\ UNCHANGED <<vars, limits, walk, result>>

(* The validator is called for a tree only, and counts if it has limits.   *)
Validate ==
    /\ stage = "check"
    /\ \E n \in NodeLimits, d \in DepthLimits : limits' = [node |-> n, depth |-> d]
    /\ IF limits' = Unlimited THEN UNCHANGED walk ELSE Process
    /\ stage' = "walk"
    /\ UNCHANGED <<vars, unit, parsed, lists, result>>

Walk ==
    /\ stage = "walk"
    /\ Accept
    /\ UNCHANGED <<vars, stage, parsed, lists, result>>

(* Mutant: a result is given back only when a node has been counted.       *)
FinishCounted ==
    /\ stage = "walk"
    /\ todo = <<>>
    /\ nodeCount > 0
    /\ result' =
        IF exceeded # "none"
        THEN [kind |-> "diagnostic", code |-> "exceed_number_of_elements"]
        ELSE [kind |-> "tree", tree |-> unit, count |-> nodeCount, depth |-> maxDepth]
    /\ stage' = "done"
    /\ UNCHANGED <<vars, unit, limits, walk, parsed, lists>>

(* A diagnostic of the validator takes the place of the tree; the counts   *)
(* go with a tree only.                                                    *)
Finish ==
    /\ stage = "walk"
    /\ todo = <<>>
    /\ result' =
        IF exceeded # "none"
        THEN [kind |-> "diagnostic", code |-> "exceed_number_of_elements"]
        ELSE [kind |-> "tree", tree |-> unit, count |-> nodeCount, depth |-> maxDepth]
    /\ stage' = "done"
    /\ UNCHANGED <<vars, unit, limits, walk, parsed, lists>>

PipelineNext == Scan \/ SyntaxError \/ ListError \/ Success
                \/ Validate \/ Walk \/ Finish

(* One thread runs the call from its start to its end.                     *)
PipelineSpec == PipelineInit /\ [][PipelineNext]_all /\ WF_all(PipelineNext)

-----------------------------------------------------------------------------
(* The parser keeps the promise of its options: a tree is given back if    *)
(* and only if it is within all limits, with its exact number of nodes     *)
(* and its depth, up to the nodes the validator does not look at.          *)
Promise == INSTANCE TreeLimits WITH
    outcome <- IF result.kind = "diagnostic" THEN [kind |-> "diagnostic"] ELSE result

LimitsKept == Promise!Spec

(* Every document has an answer: the scanner and the walk both end.        *)
AnswerGiven == <>(stage = "done")

(* Trees that differ from a tree in one datum, or in one child less.       *)
ChangedDatum(tree, path, datum) == [tree EXCEPT ![path].datum[datum] = 1 - @]

WithoutLast(tree, path, member) ==
    LET lost == Child(path, member, tree[path].size[member]) IN
    [p \in {p \in DOMAIN tree : ~IsPrefix(lost, p)} |->
        IF p = path THEN [tree[p] EXCEPT !.size[member] = @ - 1] ELSE tree[p]]

(* What operator== is not to look at: the document and its comments ("This *)
(* only treats holding statements"), and descriptions ("never compare      *)
(* description_ here, because it is supplemental information").            *)
Supplemental ==
    {<<"compilation_unit", "document">>, <<"compilation_unit", "comments">>}
    \cup {<<class, "description">> : class \in DOMAIN Class}

(* What it leaves out besides, though nothing says so: two defects.        *)
Forgotten == {<<"apply", "operand">>, <<"table_table_reference", "is_only">>}

Ignored == Supplemental \cup Forgotten

Below(tree, path, member) ==
    {Promise!Step(tree, Child(path, member, 1), n) : n \in 1..(Len(path) + 1)}

(* A tree that differs anywhere in one datum or child is not equal, unless *)
(* a member on the way there is one of the exceptions.                     *)
ChangesSeen(tree, exceptions) ==
    \A path \in DOMAIN tree : LET node == tree[path] IN
        /\ \A datum \in DOMAIN node.datum :
            Equal(tree, ChangedDatum(tree, path, datum))
                <=> Below(tree, path, datum) \cap exceptions # {}
        /\ \A f \in Operands(node.class) :
            node.size[f.name] > f.least =>
                ( Equal(tree, WithoutLast(tree, path, f.name))
                  <=> Below(tree, path, f.name) \cap exceptions # {} )

(* A copy of a tree is the tree, for no class leaves a member behind; and  *)
(* the comparison sees any one change, whatever the classes above it are,  *)
(* but those of supplemental members and the two that are forgotten.       *)
CopiesExact ==
    stage = "check" => Copy(unit) = unit /\ ChangesSeen(unit, Ignored)

(* Every node is equal to itself.                                          *)
EqualToThemselves(tree) == \A path \in DOMAIN tree : EqualToItself(tree[path])

(* Two values are equal if and only if they are equivalent: no change but  *)
(* one of a supplemental member goes unseen, and a node equals itself.     *)
(* The operator== of apply and of table_reference forget a member, and     *)
(* those of 50 classes answer false for one and the same object.           *)
EqualityExact ==
    stage = "check" => ChangesSeen(unit, Supplemental) /\ EqualToThemselves(unit)

=============================================================================
