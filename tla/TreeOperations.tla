--------------------------- MODULE TreeOperations ---------------------------
(***************************************************************************)
(* Copies and comparison of syntax trees.  Each class lists its members    *)
(* again in its copy constructors and in its operator==; nothing but care  *)
(* keeps the lists complete.                                               *)
(***************************************************************************)
EXTENDS SyntaxTree

(* The members a class copies and those it compares, all or not some, and  *)
(* whether an object is equal to itself: operator== answers that before it *)
(* looks at a member, and in half of the classes it answers false.         *)
Members(names) == [copied |-> names, compared |-> names, itself |-> TRUE]
MembersBut(names, ignored) ==
    [copied |-> names, compared |-> names \ ignored, itself |-> TRUE]
DeniesItself(members) == [members EXCEPT !.itself = FALSE]

-----------------------------------------------------------------------------
(* The compilation unit, and elements of several kinds of statements.      *)

compilation_unit_members == MembersBut({
    "statements", "comments", "document"}, {"comments", "document"})

sort_element_members == DeniesItself(Members({
    "key", "collation", "direction", "null_location"}))

target_element_members == DeniesItself(Members({"target", "indicator"}))

-----------------------------------------------------------------------------
(* Names.                                                                  *)

name_simple_members == Members({"identifier", "identifier_kind"})

name_qualified_members == Members({"qualifier", "last"})

-----------------------------------------------------------------------------
(* Literals.                                                               *)

boolean_members == Members({"value"})

numeric_members == Members({"value_kind", "sign", "unsigned_value"})

string_members == Members({"value_kind", "value", "concatenations"})

literal_datetime_members == Members({"value_kind", "value"})

literal_interval_members == Members({"sign", "value"})

special_members == Members({"node_kind"})

-----------------------------------------------------------------------------
(* Types.                                                                  *)

type_simple_members == Members({"type_kind"})

character_string_members == Members({"type_kind", "length"})

octet_string_members == Members({"type_kind", "length"})

bit_string_members == Members({"type_kind", "length"})

decimal_members == Members({"type_kind", "precision", "scale"})

binary_numeric_members == Members({"type_kind", "precision"})

type_datetime_members == Members({"type_kind", "has_time_zone"})

type_interval_members == Members({})

row_members == DeniesItself(Members({"elements"}))

field_definition_members == DeniesItself(
    Members({"name", "type", "collation"}))

user_defined_members == DeniesItself(Members({"name"}))

collection_members == Members({"element", "length"})

-----------------------------------------------------------------------------
(* Scalar expressions and predicates.                                      *)

literal_expression_members == DeniesItself(Members({"value"}))

variable_reference_members == DeniesItself(Members({"name"}))

host_parameter_reference_members == DeniesItself(Members({"name"}))

placeholder_reference_members == Members({"index"})

field_reference_members == DeniesItself(
    Members({"value", "operator_kind", "name"}))

case_expression_members == DeniesItself(Members({
    "operand", "when_clauses", "default_result"}))

case_when_clause_members == DeniesItself(Members({"when", "result"}))

cast_expression_members == DeniesItself(
    Members({"operator_kind", "operand", "type"}))

unary_expression_members == DeniesItself(Members({"operator_kind", "operand"}))

scalar_binary_expression_members == DeniesItself(
    Members({"left", "operator_kind", "right"}))

extract_expression_members == DeniesItself(
    Members({"field", "subsecond_digits", "operand"}))

trim_expression_members == DeniesItself(
    Members({"specification", "character", "source"}))

value_constructor_members == DeniesItself(
    Members({"operator_kind", "elements"}))

scalar_subquery_members == DeniesItself(Members({"query", "context_kind"}))

comparison_predicate_members == DeniesItself(
    Members({"left", "operator_kind", "right"}))

quantified_comparison_predicate_members == DeniesItself(Members({
    "left", "operator_kind", "quantifier", "right"}))

between_predicate_members == DeniesItself(Members({
    "target", "is_not", "operator_kind", "left", "right"}))

in_predicate_members == DeniesItself(Members({"left", "is_not", "right"}))

pattern_match_predicate_members == DeniesItself(Members({
    "match_value", "is_not", "operator_kind", "pattern", "escape"}))

table_predicate_members == DeniesItself(Members({"operator_kind", "operand"}))

function_invocation_members == DeniesItself(Members({"name", "arguments"}))

builtin_function_invocation_members == DeniesItself(
    Members({"function", "arguments"}))

builtin_set_function_invocation_members == DeniesItself(Members({
    "function", "quantifier", "arguments"}))

new_invocation_members == DeniesItself(Members({"type", "arguments"}))

method_invocation_members == DeniesItself(Members({
    "value", "operator_kind", "name", "arguments"}))

static_method_invocation_members == DeniesItself(
    Members({"type", "name", "arguments"}))

current_of_cursor_members == DeniesItself(Members({"name"}))

-----------------------------------------------------------------------------
(* Query expressions, their elements and clauses.                          *)

query_members == DeniesItself(Members({
    "quantifier", "elements", "from", "where", "group_by", "having",
    "order_by", "limit"}))

group_by_clause_members == DeniesItself(Members({"elements"}))

query_table_reference_members == DeniesItself(Members({"name"}))

table_value_constructor_members == DeniesItself(Members({"elements"}))

query_binary_expression_members == DeniesItself(Members({
    "left", "operator_kind", "quantifier", "corresponding", "right"}))

corresponding_clause_members == DeniesItself(Members({"column_names"}))

with_expression_members == DeniesItself(
    Members({"is_recursive", "elements", "expression"}))

with_element_members == DeniesItself(
    Members({"name", "column_names", "expression"}))

select_column_members == DeniesItself(Members({"value", "name"}))

select_asterisk_members == DeniesItself(Members({"qualifier"}))

grouping_column_members == DeniesItself(Members({"column", "collation"}))

-----------------------------------------------------------------------------
(* Table expressions and join specifications.                              *)

(* operator== compares is_only of the first table with itself.             *)
table_table_reference_members ==
    MembersBut({"is_only", "name", "correlation"}, {"is_only"})

unnest_members == Members({"expression", "with_ordinality", "correlation"})

join_members == Members({"left", "operator_kind", "right", "specification"})

table_subquery_members == Members({"is_lateral", "expression", "correlation"})

apply_members == MembersBut({
    "operand", "operator_kind", "name", "arguments",
    "correlation"}, {"operand"})

correlation_clause_members == Members({"correlation_name", "column_names"})

join_condition_members == DeniesItself(Members({"expression"}))

join_columns_members == DeniesItself(Members({"columns"}))

-----------------------------------------------------------------------------
(* Statements, table elements, constraints and actions.                    *)

empty_statement_members == Members({})

select_statement_members == Members({"expression", "targets"})

insert_statement_members == Members({
    "table_name", "columns", "expression", "options"})

update_statement_members == Members({
    "table_name", "alias_name", "elements", "where"})

set_element_members == DeniesItself(Members({"target", "value"}))

delete_statement_members == Members({"table_name", "alias_name", "where"})

table_definition_members == MembersBut({
    "name", "elements", "options", "parameters",
    "description"}, {"description"})

storage_parameter_members == DeniesItself(Members({"name", "value"}))

column_definition_members == MembersBut({
    "name", "type", "constraints", "description"}, {"description"})

column_constraint_definition_members == DeniesItself(Members({"name", "body"}))

table_constraint_definition_members == Members({"name", "body"})

simple_constraint_members == Members({"constraint_kind"})

expression_constraint_members == Members({"constraint_kind", "expression"})

key_constraint_members == Members({
    "constraint_kind", "key", "values", "parameters"})

referential_constraint_members == Members({
    "columns", "target", "target_columns", "on_update", "on_delete"})

identity_constraint_members == Members({
    "generation", "initial_value", "increment_value", "min_value", "max_value",
    "cycle"})

index_definition_members == MembersBut({
    "name", "table_name", "keys", "values", "predicate", "options",
    "parameters", "description"}, {"description"})

view_definition_members == MembersBut({
    "name", "columns", "query", "options", "parameters",
    "description"}, {"description"})

sequence_definition_members == MembersBut({
    "name", "type", "initial_value", "increment_value", "min_value",
    "max_value", "owner", "options", "description"}, {"description"})

schema_definition_members == MembersBut({
    "name", "user_name", "elements", "options",
    "description"}, {"description"})

alter_table_statement_members == Members({"if_exists", "name", "action"})

rename_table_action_members == Members({"replacement"})

rename_column_action_members == Members({
    "if_exists", "column_name", "replacement"})

alter_index_statement_members == Members({"if_exists", "name", "action"})

rename_index_action_members == Members({"replacement"})

(* Mutant of drop_statement_members: operator== does not look at the options. *)
drop_statement_members_without_options ==
    MembersBut({"statement_kind", "name", "options"}, {"options"})

drop_statement_members == Members({"statement_kind", "name", "options"})

truncate_table_statement_members == Members({"name", "identity_column_option"})

grant_privilege_statement_members == Members({"actions", "objects", "users"})

revoke_privilege_statement_members == Members({"actions", "objects", "users"})

privilege_action_members == DeniesItself(Members({"action_kind"}))

privilege_object_members == DeniesItself(
    Members({"object_kind", "object_name"}))

privilege_user_members == DeniesItself(
    Members({"user_kind", "authorization_identifier"}))

-----------------------------------------------------------------------------
(* Copies and equality of whole trees.                                     *)

MembersOf == [
    compilation_unit |-> compilation_unit_members,
    sort_element |-> sort_element_members,
    target_element |-> target_element_members,
    name_simple |-> name_simple_members,
    name_qualified |-> name_qualified_members, boolean |-> boolean_members,
    numeric |-> numeric_members, string |-> string_members,
    literal_datetime |-> literal_datetime_members,
    literal_interval |-> literal_interval_members, special |-> special_members,
    type_simple |-> type_simple_members,
    character_string |-> character_string_members,
    octet_string |-> octet_string_members, bit_string |-> bit_string_members,
    decimal |-> decimal_members, binary_numeric |-> binary_numeric_members,
    type_datetime |-> type_datetime_members,
    type_interval |-> type_interval_members, row |-> row_members,
    field_definition |-> field_definition_members,
    user_defined |-> user_defined_members, collection |-> collection_members,
    literal_expression |-> literal_expression_members,
    variable_reference |-> variable_reference_members,
    host_parameter_reference |-> host_parameter_reference_members,
    placeholder_reference |-> placeholder_reference_members,
    field_reference |-> field_reference_members,
    case_expression |-> case_expression_members,
    case_when_clause |-> case_when_clause_members,
    cast_expression |-> cast_expression_members,
    unary_expression |-> unary_expression_members,
    scalar_binary_expression |-> scalar_binary_expression_members,
    extract_expression |-> extract_expression_members,
    trim_expression |-> trim_expression_members,
    value_constructor |-> value_constructor_members,
    scalar_subquery |-> scalar_subquery_members,
    comparison_predicate |-> comparison_predicate_members,
    quantified_comparison_predicate |-> quantified_comparison_predicate_members,
    between_predicate |-> between_predicate_members,
    in_predicate |-> in_predicate_members,
    pattern_match_predicate |-> pattern_match_predicate_members,
    table_predicate |-> table_predicate_members,
    function_invocation |-> function_invocation_members,
    builtin_function_invocation |-> builtin_function_invocation_members,
    builtin_set_function_invocation |-> builtin_set_function_invocation_members,
    new_invocation |-> new_invocation_members,
    method_invocation |-> method_invocation_members,
    static_method_invocation |-> static_method_invocation_members,
    current_of_cursor |-> current_of_cursor_members, query |-> query_members,
    group_by_clause |-> group_by_clause_members,
    query_table_reference |-> query_table_reference_members,
    table_value_constructor |-> table_value_constructor_members,
    query_binary_expression |-> query_binary_expression_members,
    corresponding_clause |-> corresponding_clause_members,
    with_expression |-> with_expression_members,
    with_element |-> with_element_members,
    select_column |-> select_column_members,
    select_asterisk |-> select_asterisk_members,
    grouping_column |-> grouping_column_members,
    table_table_reference |-> table_table_reference_members,
    unnest |-> unnest_members, join |-> join_members,
    table_subquery |-> table_subquery_members, apply |-> apply_members,
    correlation_clause |-> correlation_clause_members,
    join_condition |-> join_condition_members,
    join_columns |-> join_columns_members,
    empty_statement |-> empty_statement_members,
    select_statement |-> select_statement_members,
    insert_statement |-> insert_statement_members,
    update_statement |-> update_statement_members,
    set_element |-> set_element_members,
    delete_statement |-> delete_statement_members,
    table_definition |-> table_definition_members,
    storage_parameter |-> storage_parameter_members,
    column_definition |-> column_definition_members,
    column_constraint_definition |-> column_constraint_definition_members,
    table_constraint_definition |-> table_constraint_definition_members,
    simple_constraint |-> simple_constraint_members,
    expression_constraint |-> expression_constraint_members,
    key_constraint |-> key_constraint_members,
    referential_constraint |-> referential_constraint_members,
    identity_constraint |-> identity_constraint_members,
    index_definition |-> index_definition_members,
    view_definition |-> view_definition_members,
    sequence_definition |-> sequence_definition_members,
    schema_definition |-> schema_definition_members,
    alter_table_statement |-> alter_table_statement_members,
    rename_table_action |-> rename_table_action_members,
    rename_column_action |-> rename_column_action_members,
    alter_index_statement |-> alter_index_statement_members,
    rename_index_action |-> rename_index_action_members,
    drop_statement |-> drop_statement_members,
    truncate_table_statement |-> truncate_table_statement_members,
    grant_privilege_statement |-> grant_privilege_statement_members,
    revoke_privilege_statement |-> revoke_privilege_statement_members,
    privilege_action |-> privilege_action_members,
    privilege_object |-> privilege_object_members,
    privilege_user |-> privilege_user_members]

(* The nodes that are reached from the root by some members of each class. *)
Reached(tree, through(_)) ==
    {path \in DOMAIN tree : \A n \in DOMAIN path :
        path[n][1] \in through(tree[SubSeq(path, 1, n - 1)].class)}

Copied(class) == MembersOf[class].copied
Compared(class) == MembersOf[class].compared

Kept(tree, paths, members(_)) ==
    [path \in paths |->
        LET node == tree[path] IN
        [class |-> node.class,
         size |-> [m \in DOMAIN node.size \cap members(node.class) |-> node.size[m]],
         datum |-> [m \in DOMAIN node.datum \cap members(node.class) |-> node.datum[m]]]]

(* sql_driver::success(): the empty statement behind the last semicolon is *)
(* not a statement.                                                        *)
WithoutBlank(tree) ==
    LET n == tree[<<>>].size.statements
        blank == Child(<<>>, "statements", n)
    IN IF n = 0 \/ tree[blank].class # "empty_statement" THEN tree
       ELSE [path \in DOMAIN tree \ {blank} |->
                IF path = <<>> THEN [tree[<<>>] EXCEPT !.size.statements = n - 1]
                ELSE tree[path]]

(* clone(): what the copy constructors take over, node by node.            *)
Copy(tree) == Kept(tree, Reached(tree, Copied), Copied)

(* operator==, eq(), of two trees that are two objects, and so share none, *)
(* since a node owns its children: the same compared nodes and data.       *)
Equal(a, b) ==
    Kept(a, Reached(a, Compared), Compared) = Kept(b, Reached(b, Compared), Compared)

(* operator== of a node and that same object.  Below the node that is      *)
(* compared no one gets there: eq() has answered for one object already.   *)
EqualToItself(node) == MembersOf[node.class].itself

=============================================================================
