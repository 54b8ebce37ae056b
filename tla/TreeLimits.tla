----------------------------- MODULE TreeLimits -----------------------------
(***************************************************************************)
(* What sql_parser promises of its limits: a tree within all of them is    *)
(* the result, with the number of its nodes and its depth; any other tree  *)
(* is refused.  How nodes are visited, and in which order, is not said.    *)
(***************************************************************************)
EXTENDS TreeOperations, FiniteSetsExt

CONSTANT NoTree

VARIABLES
    parsed,     \* the tree the grammar has built
    limits,     \* [node, depth]: sql_parser_options, 0 when there is none
    lists,      \* the limits on lists, by kind of element
    outcome     \* what the caller gets

vars == <<parsed, limits, lists, outcome>>

(* The members whose nodes are left out of the counts, each a place where  *)
(* the validator does not look.                                            *)
NotCounted ==
    {<<"apply", "operand">>, <<"function_invocation", "name">>,
     <<"update_statement", "alias_name">>, <<"delete_statement", "alias_name">>}

Step(tree, path, n) == <<tree[SubSeq(path, 1, n - 1)].class, path[n][1]>>

Nodes(tree) ==
    {path \in DOMAIN tree \ {<<>>} :
        /\ tree[path].class \notin Inline
        /\ \A n \in DOMAIN path : Step(tree, path, n) \notin NotCounted}

Depth(tree, path) ==
    Cardinality({n \in DOMAIN path : tree[SubSeq(path, 1, n)].class \notin Inline})

TreeDepth(tree) == Max({Depth(tree, path) : path \in Nodes(tree)} \cup {0})

Within(limit, value) == limit = 0 \/ value <= limit

WithinLists(tree, limit) ==
    \A path \in DOMAIN tree : \A f \in Operands(tree[path].class) :
        f.kind \in DOMAIN limit => Within(limit[f.kind], tree[path].size[f.name])

WithinTree(tree) ==
    /\ Within(limits.node, Cardinality(Nodes(tree)))
    /\ Within(limits.depth, TreeDepth(tree))

-----------------------------------------------------------------------------
Init == parsed = NoTree /\ outcome = [kind |-> "open"]

Refuse == outcome.kind = "open" /\ outcome' = [kind |-> "diagnostic"]

(* The document is no SQL.                                                 *)
RefuseDocument == parsed = NoTree /\ Refuse /\ UNCHANGED <<parsed, limits, lists>>

Parse ==
    /\ parsed = NoTree
    /\ parsed' # NoTree
    /\ IF WithinLists(parsed', lists') THEN UNCHANGED outcome ELSE Refuse

Configure == parsed # NoTree /\ outcome.kind = "open" /\ UNCHANGED <<parsed, lists, outcome>>

Result == WithoutBlank(parsed)

RefuseTree ==
    /\ parsed # NoTree
    /\ ~WithinTree(Result)
    /\ Refuse
    /\ UNCHANGED <<parsed, limits, lists>>

(* Without limits on the tree it is not counted.                           *)
Accept ==
    /\ parsed # NoTree
    /\ outcome.kind = "open"
    /\ WithinTree(Result)
    /\ LET counted == limits.node > 0 \/ limits.depth > 0 IN
       outcome' = [kind |-> "tree", tree |-> Result,
                   count |-> IF counted THEN Cardinality(Nodes(Result)) ELSE 0,
                   depth |-> IF counted THEN TreeDepth(Result) ELSE 0]
    /\ UNCHANGED <<parsed, limits, lists>>

Next == Parse \/ Configure \/ RefuseDocument \/ RefuseTree \/ Accept

Spec == Init /\ [][Next]_vars

=============================================================================
