---------------------------- MODULE TreeValidator ----------------------------
(***************************************************************************)
(* sql_tree_validator: a walk over the syntax tree that counts its nodes,  *)
(* measures its depth, and ends at the first node beyond a limit.  Each    *)
(* handler lists the members it goes into, in order.  Elements that stand  *)
(* by value in their parent are gone through, and not counted.             *)
(***************************************************************************)
EXTENDS TreeOperations, SequencesExt

VARIABLES
    unit,       \* the compilation unit
    limits,     \* node_limit_ and depth_limit_, 0 when there is none
    todo,       \* the nodes to accept next, each with its depth, on the C++ stack
    nodeCount,  \* node_count_
    maxDepth,   \* max_depth_
    exceeded    \* result_: "none", or the limit that is reported

walk == <<todo, nodeCount, maxDepth, exceeded>>

-----------------------------------------------------------------------------
(* The loops over clauses within the handlers.                             *)
ClauseVisits == [
    target_element |-> <<"target", "indicator">>,
    set_element |-> <<"target", "value">>,
    storage_parameter |-> <<"name", "value">>,
    sort_element |-> <<"key", "collation">>,
    privilege_action |-> <<>>,
    privilege_object |-> <<"object_name">>,
    privilege_user |-> <<"authorization_identifier">>,
    column_constraint_definition |-> <<"name", "body">>,
    group_by_clause |-> <<"elements">>,
    corresponding_clause |-> <<"column_names">>,
    with_element |-> <<"name", "column_names", "expression">>,
    correlation_clause |-> <<"correlation_name", "column_names">>,
    case_when_clause |-> <<"when", "result">>,
    field_definition |-> <<"name", "type", "collation">>]

StatementVisits == [
    compilation_unit |-> <<"statements">>,
    empty_statement |-> <<>>,
    select_statement |-> <<"expression", "targets">>,
    insert_statement |-> <<"table_name", "columns", "expression">>,
    update_statement |-> <<"table_name", "elements", "where">>,
    delete_statement |-> <<"table_name", "where">>,
    table_definition |-> <<"name", "elements", "parameters">>,
    index_definition |->
        <<"name", "table_name", "keys", "values", "predicate", "parameters">>,
    view_definition |-> <<"name", "columns", "query", "parameters">>,
    sequence_definition |->
        <<"name", "type", "initial_value", "increment_value", "min_value",
          "max_value", "owner">>,
    schema_definition |-> <<"name", "user_name", "elements">>,
    alter_table_statement |-> <<"name", "action">>,
    alter_index_statement |-> <<"name", "action">>,
    drop_statement |-> <<"name">>,
    truncate_table_statement |-> <<"name">>,
    grant_privilege_statement |-> <<"objects", "users">>,
    revoke_privilege_statement |-> <<"objects", "users">>]

ElementVisits == [
    column_definition |-> <<"name", "type", "constraints">>,
    table_constraint_definition |-> <<"name", "body">>,
    simple_constraint |-> <<>>,
    expression_constraint |-> <<"expression">>,
    key_constraint |-> <<"key", "values", "parameters">>,
    referential_constraint |-> <<"columns", "target", "target_columns">>,
    identity_constraint |->
        <<"initial_value", "increment_value", "min_value", "max_value">>,
    rename_table_action |-> <<"replacement">>,
    rename_column_action |-> <<"column_name", "replacement">>,
    rename_index_action |-> <<"replacement">>]

QueryVisits == [
    query |->
        <<"elements", "from", "where", "group_by", "having", "order_by", "limit">>,
    query_table_reference |-> <<"name">>,
    table_value_constructor |-> <<"elements">>,
    query_binary_expression |-> <<"left", "corresponding", "right">>,
    with_expression |-> <<"elements", "expression">>,
    select_column |-> <<"value", "name">>,
    select_asterisk |-> <<"qualifier">>,
    grouping_column |-> <<"column", "collation">>]

TableVisits == [
    table_table_reference |-> <<"name", "correlation">>,
    unnest |-> <<"expression", "correlation">>,
    join |-> <<"left", "right", "specification">>,
    table_subquery |-> <<"expression", "correlation">>,
    apply |-> <<"name", "arguments", "correlation">>,
    join_condition |-> <<"expression">>,
    join_columns |-> <<"columns">>]

ScalarVisits == [
    literal_expression |-> <<"value">>,
    variable_reference |-> <<"name">>,
    host_parameter_reference |-> <<"name">>,
    field_reference |-> <<"value", "name">>,
    case_expression |-> <<"operand", "when_clauses", "default_result">>,
    cast_expression |-> <<"operand", "type">>,
    unary_expression |-> <<"operand">>,
    scalar_binary_expression |-> <<"left", "right">>,
    extract_expression |-> <<"operand">>,
    trim_expression |-> <<"character", "source">>,
    value_constructor |-> <<"elements">>,
    scalar_subquery |-> <<"query">>,
    comparison_predicate |-> <<"left", "right">>,
    quantified_comparison_predicate |-> <<"left", "right">>,
    between_predicate |-> <<"target", "left", "right">>,
    in_predicate |-> <<"left", "right">>,
    pattern_match_predicate |-> <<"match_value", "pattern", "escape">>,
    table_predicate |-> <<"operand">>]

InvocationVisits == [
    function_invocation |-> <<"arguments">>,
    builtin_function_invocation |-> <<"arguments">>,
    builtin_set_function_invocation |-> <<"arguments">>,
    new_invocation |-> <<"type", "arguments">>,
    method_invocation |-> <<"value", "name", "arguments">>,
    static_method_invocation |-> <<"type", "name", "arguments">>,
    current_of_cursor |-> <<"name">>,
    placeholder_reference |-> <<>>]

(* Literals, types and names.                                              *)
LeafVisits == [
    boolean |-> <<>>, numeric |-> <<>>, string |-> <<>>,
    literal_datetime |-> <<>>, literal_interval |-> <<>>, special |-> <<>>,
    type_simple |-> <<>>, character_string |-> <<>>, bit_string |-> <<>>,
    octet_string |-> <<>>, decimal |-> <<>>, binary_numeric |-> <<>>,
    type_datetime |-> <<>>, type_interval |-> <<>>,
    row |-> <<"elements">>, user_defined |-> <<"name">>,
    collection |-> <<"element">>,
    name_simple |-> <<>>, name_qualified |-> <<"qualifier", "last">>]

Visits == [class \in DOMAIN Class |->
    CASE class \in DOMAIN StatementVisits -> StatementVisits[class]
      [] class \in DOMAIN ElementVisits -> ElementVisits[class]
      [] class \in DOMAIN QueryVisits -> QueryVisits[class]
      [] class \in DOMAIN TableVisits -> TableVisits[class]
      [] class \in DOMAIN ScalarVisits -> ScalarVisits[class]
      [] class \in DOMAIN InvocationVisits -> InvocationVisits[class]
      [] class \in DOMAIN LeafVisits -> LeafVisits[class]
      [] class \in DOMAIN ClauseVisits -> ClauseVisits[class]]

-----------------------------------------------------------------------------
(* The children of a node in the order in which they are visited.          *)
Visited(path) ==
    LET members == Visits[unit[path].class]
        Row(member) == [i \in 1..unit[path].size[member] |-> Child(path, member, i)]
    IN FlattenSeq([k \in DOMAIN members |-> Row(members[k])])

(* What a handler accepts: in place of a clause, what the clause holds.    *)
Accepted(path) ==
    LET children == Visited(path) IN
    FlattenSeq([k \in DOMAIN children |->
        IF unit[children[k]].class \in Inline THEN Visited(children[k])
                                              ELSE <<children[k]>>])

At(paths, depth) == [k \in DOMAIN paths |-> [path |-> paths[k], depth |-> depth]]

Enabled == limits.node > 0 \/ limits.depth > 0

(* process(): the compilation unit itself is no node.                      *)
Process ==
    /\ todo' = At(Accepted(<<>>), 1)
    /\ nodeCount' = 0
    /\ maxDepth' = 0
    /\ exceeded' = "none"

(* Mutant: a tree that just reaches a limit is refused.                    *)
FailureAtLimit(depth) ==
    IF limits.node > 0 /\ nodeCount + 1 >= limits.node THEN "node"
    ELSE IF limits.depth > 0 /\ depth > limits.depth THEN "depth" ELSE "none"

(* The limit that a node at some depth goes beyond.                        *)
Failure(depth) ==
    IF limits.node > 0 /\ nodeCount + 1 > limits.node THEN "node"
    ELSE IF limits.depth > 0 /\ depth > limits.depth THEN "depth" ELSE "none"

(* accept() and check(): the node is counted before the limits are looked  *)
(* at, and the first one that is exceeded ends the whole walk.             *)
Accept ==
    /\ todo # <<>>
    /\ LET node == Head(todo) IN
       /\ nodeCount' = nodeCount + 1
       /\ maxDepth' = IF node.depth > maxDepth THEN node.depth ELSE maxDepth
       /\ exceeded' = Failure(node.depth)
       /\ todo' = IF exceeded' # "none" THEN <<>>
                  ELSE At(Accepted(node.path), node.depth + 1) \o Tail(todo)
    /\ UNCHANGED <<unit, limits>>

=============================================================================
