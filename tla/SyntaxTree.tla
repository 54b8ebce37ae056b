----------------------------- MODULE SyntaxTree -----------------------------
(***************************************************************************)
(* The classes of mizugaki::ast: each is the row of its members.  A member *)
(* is one child, perhaps a child, a list (of at least one child, where the *)
(* grammar says so), or a datum without children.  The children of a       *)
(* member are of a family of classes, and the parser limits the length of  *)
(* a list by its kind of element; two stand for more than one.             *)
(* A class whose name occurs in two namespaces has the namespace in front. *)
(***************************************************************************)
EXTENDS Naturals, Sequences, FiniteSets

One(name, of) == [name |-> name, least |-> 1, most |-> 1, of |-> of, kind |-> "none"]
Optional(name, of) == [name |-> name, least |-> 0, most |-> 1, of |-> of, kind |-> "none"]
Many(name, of, kind) == [name |-> name, least |-> 0, most |-> 2, of |-> of, kind |-> kind]
Some(name, of, kind) == [name |-> name, least |-> 1, most |-> 2, of |-> of, kind |-> kind]
Datum(name) == [name |-> name, least |-> 0, most |-> 0, of |-> {}, kind |-> "none"]

-----------------------------------------------------------------------------
(* The families: what an operand of each static type may be.               *)
Names == {"name_simple", "name_qualified"}
Simple == {"name_simple"}
Literals ==
    {"boolean", "numeric", "string", "literal_datetime", "literal_interval",
     "special"}
Types ==
    {"type_simple", "character_string", "octet_string", "decimal",
     "binary_numeric", "type_datetime", "type_interval", "row",
     "user_defined", "collection"}
Scalars ==
    {"literal_expression", "variable_reference", "host_parameter_reference",
     "placeholder_reference", "field_reference", "case_expression",
     "cast_expression", "unary_expression", "scalar_binary_expression",
     "extract_expression", "trim_expression", "value_constructor",
     "scalar_subquery", "comparison_predicate",
     "quantified_comparison_predicate", "between_predicate", "in_predicate",
     "pattern_match_predicate", "table_predicate", "function_invocation",
     "builtin_function_invocation", "builtin_set_function_invocation",
     "new_invocation", "method_invocation", "static_method_invocation",
     "current_of_cursor"}
QueryOperands ==
    {"query", "query_table_reference", "table_value_constructor",
     "query_binary_expression"}
Queries == QueryOperands \cup {"with_expression"}
SelectElements == {"select_column", "select_asterisk"}
GroupingElements == {"grouping_column"}
Tables ==
    {"table_table_reference", "unnest", "join", "table_subquery", "apply"}
JoinSpecifications == {"join_condition", "join_columns"}
SchemaElements ==
    {"table_definition", "index_definition", "view_definition",
     "sequence_definition"}
Statements == SchemaElements \cup
    {"select_statement", "insert_statement", "update_statement",
     "delete_statement", "schema_definition", "alter_table_statement",
     "alter_index_statement", "drop_statement", "truncate_table_statement",
     "grant_privilege_statement", "revoke_privilege_statement",
     "empty_statement"}
TableElements == {"column_definition", "table_constraint_definition"}
Constraints ==
    {"simple_constraint", "expression_constraint", "key_constraint",
     "referential_constraint", "identity_constraint"}
AlterTableActions == {"rename_table_action", "rename_column_action"}

-----------------------------------------------------------------------------
(* The compilation unit, and elements of several kinds of statements.      *)

compilation_unit == <<
    Many("statements", Statements, "statement"), Datum("comments"),
    Datum("document")>>

sort_element == <<
    One("key", Scalars), Optional("collation", Names), Datum("direction"),
    Datum("null_location")>>

target_element == <<One("target", Names), Optional("indicator", Simple)>>

-----------------------------------------------------------------------------
(* Names.                                                                  *)

name_simple == <<Datum("identifier"), Datum("identifier_kind")>>

name_qualified == <<One("qualifier", Names), One("last", Simple)>>

-----------------------------------------------------------------------------
(* Literals.                                                               *)

boolean == <<Datum("value")>>

numeric == <<Datum("value_kind"), Datum("sign"), Datum("unsigned_value")>>

string == <<Datum("value_kind"), Datum("value"), Datum("concatenations")>>

literal_datetime == <<Datum("value_kind"), Datum("value")>>

literal_interval == <<Datum("sign"), Datum("value")>>

special == <<Datum("node_kind")>>

-----------------------------------------------------------------------------
(* Types.                                                                  *)

type_simple == <<Datum("type_kind")>>

character_string == <<Datum("type_kind"), Datum("length")>>

octet_string == <<Datum("type_kind"), Datum("length")>>

bit_string == <<Datum("type_kind"), Datum("length")>>

decimal == <<Datum("type_kind"), Datum("precision"), Datum("scale")>>

binary_numeric == <<Datum("type_kind"), Datum("precision")>>

type_datetime == <<Datum("type_kind"), Datum("has_time_zone")>>

type_interval == <<>>

row == <<Some("elements", {"field_definition"}, "field_definition")>>

field_definition == <<
    One("name", Simple), One("type", Types), Optional("collation", Names)>>

user_defined == <<One("name", Names)>>

collection == <<One("element", Types), Datum("length")>>

-----------------------------------------------------------------------------
(* Scalar expressions and predicates.                                      *)

literal_expression == <<One("value", Literals)>>

variable_reference == <<One("name", Names)>>

host_parameter_reference == <<One("name", Simple)>>

placeholder_reference == <<Datum("index")>>

field_reference == <<
    One("value", Scalars), Datum("operator_kind"), One("name", Simple)>>

case_expression == <<
    Optional("operand", Scalars),
    Some("when_clauses", {"case_when_clause"}, "when_clause"),
    Optional("default_result", Scalars)>>

case_when_clause == <<One("when", Scalars), One("result", Scalars)>>

cast_expression == <<
    Datum("operator_kind"), One("operand", Scalars), One("type", Types)>>

unary_expression == <<Datum("operator_kind"), One("operand", Scalars)>>

scalar_binary_expression == <<
    One("left", Scalars), Datum("operator_kind"), One("right", Scalars)>>

extract_expression == <<
    Datum("field"), Datum("subsecond_digits"), One("operand", Scalars)>>

trim_expression == <<
    Datum("specification"), Optional("character", Scalars),
    One("source", Scalars)>>

value_constructor == <<
    Datum("operator_kind"), Many("elements", Scalars, "scalar_expression")>>

scalar_subquery == <<One("query", Queries), Datum("context_kind")>>

comparison_predicate == <<
    One("left", Scalars), Datum("operator_kind"), One("right", Scalars)>>

quantified_comparison_predicate == <<
    One("left", Scalars), Datum("operator_kind"), Datum("quantifier"),
    One("right", Queries)>>

between_predicate == <<
    One("target", Scalars), Datum("is_not"), Datum("operator_kind"),
    One("left", Scalars), One("right", Scalars)>>

in_predicate == <<
    One("left", Scalars), Datum("is_not"), One("right", Queries)>>

pattern_match_predicate == <<
    One("match_value", Scalars), Datum("is_not"), Datum("operator_kind"),
    One("pattern", Scalars), Optional("escape", Scalars)>>

table_predicate == <<Datum("operator_kind"), One("operand", Queries)>>

function_invocation == <<
    One("name", Names), Many("arguments", Scalars, "scalar_expression")>>

builtin_function_invocation == <<
    Datum("function"), Many("arguments", Scalars, "scalar_expression")>>

builtin_set_function_invocation == <<
    Datum("function"), Datum("quantifier"),
    Many("arguments", Scalars, "scalar_expression")>>

new_invocation == <<
    One("type", Types), Many("arguments", Scalars, "scalar_expression")>>

method_invocation == <<
    One("value", Scalars), Datum("operator_kind"), One("name", Simple),
    Many("arguments", Scalars, "scalar_expression")>>

static_method_invocation == <<
    One("type", Types), One("name", Simple),
    Many("arguments", Scalars, "scalar_expression")>>

current_of_cursor == <<One("name", Names)>>

-----------------------------------------------------------------------------
(* Query expressions, their elements and clauses.                          *)

query == <<
    Datum("quantifier"), Some("elements", SelectElements, "select_element"),
    Many("from", Tables, "table_reference"), Optional("where", Scalars),
    Optional("group_by", {"group_by_clause"}), Optional("having", Scalars),
    Many("order_by", {"sort_element"}, "ordering_element"),
    Optional("limit", Scalars)>>

group_by_clause == <<Some("elements", GroupingElements, "grouping_element")>>

query_table_reference == <<One("name", Names)>>

table_value_constructor == <<Some("elements", Scalars, "row_expression")>>

query_binary_expression == <<
    One("left", QueryOperands), Datum("operator_kind"), Datum("quantifier"),
    Optional("corresponding", {"corresponding_clause"}),
    One("right", QueryOperands)>>

corresponding_clause == <<Many("column_names", Simple, "column_reference")>>

with_expression == <<
    Datum("is_recursive"), Some("elements", {"with_element"}, "with_element"),
    One("expression", Queries)>>

with_element == <<
    One("name", Simple), Many("column_names", Simple, "column_reference"),
    One("expression", Queries)>>

select_column == <<One("value", Scalars), Optional("name", Simple)>>

select_asterisk == <<Optional("qualifier", Scalars)>>

grouping_column == <<One("column", Scalars), Optional("collation", Names)>>

-----------------------------------------------------------------------------
(* Table expressions and join specifications.                              *)

table_table_reference == <<
    Datum("is_only"), One("name", Names),
    Optional("correlation", {"correlation_clause"})>>

unnest == <<
    One("expression", Scalars), Datum("with_ordinality"),
    One("correlation", {"correlation_clause"})>>

join == <<
    One("left", Tables), Datum("operator_kind"), One("right", Tables),
    Optional("specification", JoinSpecifications)>>

table_subquery == <<
    Datum("is_lateral"), One("expression", Queries),
    One("correlation", {"correlation_clause"})>>

apply == <<
    One("operand", Tables), Datum("operator_kind"), One("name", Names),
    Many("arguments", Scalars, "scalar_expression"),
    One("correlation", {"correlation_clause"})>>

correlation_clause == <<
    One("correlation_name", Simple),
    Many("column_names", Simple, "column_reference")>>

join_condition == <<One("expression", Scalars)>>

join_columns == <<Some("columns", Simple, "column_reference")>>

-----------------------------------------------------------------------------
(* Statements, table elements, constraints and actions.                    *)

empty_statement == <<>>

select_statement == <<
    One("expression", Queries),
    Many("targets", {"target_element"}, "unlimited")>>

insert_statement == <<
    One("table_name", Names), Many("columns", Simple, "column_reference"),
    Optional("expression", Queries), Datum("options")>>

update_statement == <<
    One("table_name", Names), Optional("alias_name", Simple),
    Some("elements", {"set_element"}, "set_clause"),
    Optional("where", Scalars)>>

set_element == <<One("target", Names), One("value", Scalars)>>

delete_statement == <<
    One("table_name", Names), Optional("alias_name", Simple),
    Optional("where", Scalars)>>

table_definition == <<
    One("name", Names),
    Many("elements", TableElements, "table_element_definition"),
    Datum("options"),
    Many("parameters", {"storage_parameter"}, "storage_parameter"),
    Datum("description")>>

storage_parameter == <<One("name", Names), Optional("value", Scalars)>>

column_definition == <<
    One("name", Simple), One("type", Types),
    Many("constraints", {"column_constraint_definition"}, "column_constraint_definition"),
    Datum("description")>>

column_constraint_definition == <<
    Optional("name", Names), One("body", Constraints)>>

table_constraint_definition == <<
    Optional("name", Names), One("body", Constraints)>>

simple_constraint == <<Datum("constraint_kind")>>

expression_constraint == <<
    Datum("constraint_kind"), One("expression", Scalars)>>

key_constraint == <<
    Datum("constraint_kind"),
    Many("key", {"sort_element"}, "ordering_element"),
    Many("values", Scalars, "scalar_expression"),
    Many("parameters", {"storage_parameter"}, "storage_parameter")>>

referential_constraint == <<
    Many("columns", Simple, "column_reference"), One("target", Names),
    Many("target_columns", Simple, "column_reference"), Datum("on_update"),
    Datum("on_delete")>>

identity_constraint == <<
    Datum("generation"), Optional("initial_value", Scalars),
    Optional("increment_value", Scalars), Optional("min_value", Scalars),
    Optional("max_value", Scalars), Datum("cycle")>>

index_definition == <<
    Optional("name", Names), One("table_name", Names),
    Some("keys", {"sort_element"}, "ordering_element"),
    Many("values", Scalars, "scalar_expression"),
    Optional("predicate", Scalars), Datum("options"),
    Many("parameters", {"storage_parameter"}, "storage_parameter"),
    Datum("description")>>

view_definition == <<
    One("name", Names), Many("columns", Simple, "column_reference"),
    One("query", Queries), Datum("options"),
    Many("parameters", {"storage_parameter"}, "storage_parameter"),
    Datum("description")>>

sequence_definition == <<
    One("name", Names), Optional("type", Types),
    Optional("initial_value", Scalars), Optional("increment_value", Scalars),
    Optional("min_value", Scalars), Optional("max_value", Scalars),
    Optional("owner", Names), Datum("options"), Datum("description")>>

schema_definition == <<
    Optional("name", Names), Optional("user_name", Simple),
    Many("elements", SchemaElements, "schema_element_definition"),
    Datum("options"), Datum("description")>>

alter_table_statement == <<
    Datum("if_exists"), One("name", Names), One("action", AlterTableActions)>>

rename_table_action == <<One("replacement", Simple)>>

rename_column_action == <<
    Datum("if_exists"), One("column_name", Simple),
    One("replacement", Simple)>>

alter_index_statement == <<
    Datum("if_exists"), One("name", Names),
    One("action", {"rename_index_action"})>>

rename_index_action == <<One("replacement", Simple)>>

drop_statement == <<
    Datum("statement_kind"), One("name", Names), Datum("options")>>

truncate_table_statement == <<
    One("name", Names), Datum("identity_column_option")>>

grant_privilege_statement == <<
    Some("actions", {"privilege_action"}, "privilege_action"),
    Some("objects", {"privilege_object"}, "privilege_object"),
    Some("users", {"privilege_user"}, "privilege_user")>>

revoke_privilege_statement == <<
    Some("actions", {"privilege_action"}, "privilege_action"),
    Some("objects", {"privilege_object"}, "privilege_object"),
    Some("users", {"privilege_user"}, "privilege_user")>>

privilege_action == <<Datum("action_kind")>>

privilege_object == <<Datum("object_kind"), One("object_name", Names)>>

privilege_user == <<
    Datum("user_kind"), Optional("authorization_identifier", Simple)>>

-----------------------------------------------------------------------------
(* The classes by name, and those that stand by value in their parent.     *)

Class == [
    compilation_unit |-> compilation_unit, sort_element |-> sort_element,
    target_element |-> target_element, name_simple |-> name_simple,
    name_qualified |-> name_qualified, boolean |-> boolean,
    numeric |-> numeric, string |-> string,
    literal_datetime |-> literal_datetime,
    literal_interval |-> literal_interval, special |-> special,
    type_simple |-> type_simple, character_string |-> character_string,
    octet_string |-> octet_string, bit_string |-> bit_string,
    decimal |-> decimal, binary_numeric |-> binary_numeric,
    type_datetime |-> type_datetime, type_interval |-> type_interval,
    row |-> row, field_definition |-> field_definition,
    user_defined |-> user_defined, collection |-> collection,
    literal_expression |-> literal_expression,
    variable_reference |-> variable_reference,
    host_parameter_reference |-> host_parameter_reference,
    placeholder_reference |-> placeholder_reference,
    field_reference |-> field_reference, case_expression |-> case_expression,
    case_when_clause |-> case_when_clause, cast_expression |-> cast_expression,
    unary_expression |-> unary_expression,
    scalar_binary_expression |-> scalar_binary_expression,
    extract_expression |-> extract_expression,
    trim_expression |-> trim_expression,
    value_constructor |-> value_constructor,
    scalar_subquery |-> scalar_subquery,
    comparison_predicate |-> comparison_predicate,
    quantified_comparison_predicate |-> quantified_comparison_predicate,
    between_predicate |-> between_predicate, in_predicate |-> in_predicate,
    pattern_match_predicate |-> pattern_match_predicate,
    table_predicate |-> table_predicate,
    function_invocation |-> function_invocation,
    builtin_function_invocation |-> builtin_function_invocation,
    builtin_set_function_invocation |-> builtin_set_function_invocation,
    new_invocation |-> new_invocation, method_invocation |-> method_invocation,
    static_method_invocation |-> static_method_invocation,
    current_of_cursor |-> current_of_cursor, query |-> query,
    group_by_clause |-> group_by_clause,
    query_table_reference |-> query_table_reference,
    table_value_constructor |-> table_value_constructor,
    query_binary_expression |-> query_binary_expression,
    corresponding_clause |-> corresponding_clause,
    with_expression |-> with_expression, with_element |-> with_element,
    select_column |-> select_column, select_asterisk |-> select_asterisk,
    grouping_column |-> grouping_column,
    table_table_reference |-> table_table_reference, unnest |-> unnest,
    join |-> join, table_subquery |-> table_subquery, apply |-> apply,
    correlation_clause |-> correlation_clause,
    join_condition |-> join_condition, join_columns |-> join_columns,
    empty_statement |-> empty_statement, select_statement |-> select_statement,
    insert_statement |-> insert_statement,
    update_statement |-> update_statement, set_element |-> set_element,
    delete_statement |-> delete_statement,
    table_definition |-> table_definition,
    storage_parameter |-> storage_parameter,
    column_definition |-> column_definition,
    column_constraint_definition |-> column_constraint_definition,
    table_constraint_definition |-> table_constraint_definition,
    simple_constraint |-> simple_constraint,
    expression_constraint |-> expression_constraint,
    key_constraint |-> key_constraint,
    referential_constraint |-> referential_constraint,
    identity_constraint |-> identity_constraint,
    index_definition |-> index_definition, view_definition |-> view_definition,
    sequence_definition |-> sequence_definition,
    schema_definition |-> schema_definition,
    alter_table_statement |-> alter_table_statement,
    rename_table_action |-> rename_table_action,
    rename_column_action |-> rename_column_action,
    alter_index_statement |-> alter_index_statement,
    rename_index_action |-> rename_index_action,
    drop_statement |-> drop_statement,
    truncate_table_statement |-> truncate_table_statement,
    grant_privilege_statement |-> grant_privilege_statement,
    revoke_privilege_statement |-> revoke_privilege_statement,
    privilege_action |-> privilege_action,
    privilege_object |-> privilege_object, privilege_user |-> privilege_user]

Inline == {
    "sort_element", "target_element", "field_definition", "case_when_clause",
    "group_by_clause", "corresponding_clause", "with_element",
    "correlation_clause", "set_element", "storage_parameter",
    "column_constraint_definition", "privilege_action", "privilege_object",
    "privilege_user"}

Fields(class) == {Class[class][i] : i \in DOMAIN Class[class]}
Operands(class) == {f \in Fields(class) : f.most > 0}
Data(class) == {f.name : f \in Fields(class) \ Operands(class)}

(* A tree is a function from paths to nodes.  A path is the row of steps   *)
(* <<member, index>> from the root; a node has a class, the length of each *)
(* member, and one of two values for each datum.                           *)
Child(path, member, i) == Append(path, <<member, i>>)
Parent(path) == SubSeq(path, 1, Len(path) - 1)
Member(path) == path[Len(path)][1]

OperandNames(class) == {f.name : f \in Operands(class)}

IsNode(node) ==
    /\ node = [class |-> node.class, size |-> node.size, datum |-> node.datum]
    /\ node.class \in DOMAIN Class
    /\ node.size \in [OperandNames(node.class) -> Nat]
    /\ node.datum \in [Data(node.class) -> {0, 1}]

IsTree(tree) ==
    /\ tree = [path \in DOMAIN tree |-> tree[path]]
    /\ IsFiniteSet(DOMAIN tree)
    /\ DOMAIN tree \subseteq Seq(STRING \X Nat)
    /\ <<>> \in DOMAIN tree
    /\ \A path \in DOMAIN tree : LET node == tree[path] IN
        /\ IsNode(node)
        /\ path # <<>> =>
            /\ Parent(path) \in DOMAIN tree
            /\ Member(path) \in OperandNames(tree[Parent(path)].class)
            /\ path[Len(path)][2] \in 1..tree[Parent(path)].size[Member(path)]
        /\ \A f \in Operands(node.class) :
            /\ node.size[f.name] >= f.least
            /\ f.kind = "none" => node.size[f.name] <= f.most
            /\ \A i \in 1..node.size[f.name] :
                /\ Child(path, f.name, i) \in DOMAIN tree
                /\ tree[Child(path, f.name, i)].class \in f.of

=============================================================================
