-------------------------- MODULE MCParserPipeline --------------------------
(***************************************************************************)
(* Trees for the pipeline: for each member of each class, trees with each  *)
(* class of child in that member, and with none, one or two of them.       *)
(***************************************************************************)
EXTENDS ParserPipeline

Smallest(of) ==
    CASE "name_simple" \in of -> "name_simple"
      [] "placeholder_reference" \in of -> "placeholder_reference"
      [] "query_table_reference" \in of -> "query_table_reference"
      [] "table_table_reference" \in of -> "table_table_reference"
      [] "type_simple" \in of -> "type_simple"
      [] "boolean" \in of -> "boolean"
      [] "simple_constraint" \in of -> "simple_constraint"
      [] "drop_statement" \in of -> "drop_statement"
      [] OTHER -> CHOOSE class \in of : TRUE

(* The smallest tree of a class, but for a row of children in one member.  *)
RECURSIVE MCTree(_, _, _)
MCTree(class, member, children) ==
    LET Row(f) == IF f.name = member THEN children
                  ELSE [i \in 1..f.least |-> MCTree(Smallest(f.of), "", <<>>)]
        sizes == {<<f.name, Len(Row(f))>> : f \in Operands(class)}
        grafts == UNION {UNION {
            {<<Child(<<>>, f.name, i) \o path, Row(f)[i][path]>> : path \in DOMAIN Row(f)[i]}
            : i \in DOMAIN Row(f)} : f \in Operands(class)}
        AsFunction(pairs) ==
            [x \in {p[1] : p \in pairs} |-> (CHOOSE p \in pairs : p[1] = x)[2]]
        root == [class |-> class, size |-> AsFunction(sizes),
                 datum |-> [m \in Data(class) |-> 0]]
    IN (<<>> :> root) @@ AsFunction(grafts)

MCSmall(class) == MCTree(class, "", <<>>)

(* A place for a tree of a class, up to the compilation unit.              *)
Holder(class) ==
    CASE class \in Statements -> <<"compilation_unit", "statements">>
      [] class \in Queries -> <<"select_statement", "expression">>
      [] class \in Tables -> <<"query", "from">>
      [] class \in Scalars -> <<"delete_statement", "where">>
      [] class \in Types -> <<"cast_expression", "type">>
      [] class \in Literals -> <<"literal_expression", "value">>
      [] class \in Names -> <<"variable_reference", "name">>
      [] OTHER ->
            CHOOSE holder \in UNION {{<<c, f.name>> : f \in {g \in Operands(c) : class \in g.of}}
                                        : c \in DOMAIN Class} : TRUE

RECURSIVE MCUnit(_, _)
MCUnit(class, tree) ==
    IF class = "compilation_unit" THEN tree
    ELSE LET holder == Holder(class) IN
         MCUnit(holder[1], MCTree(holder[1], holder[2], <<tree>>))

MCVariants(class) ==
    {MCSmall(class)} \cup
    UNION {
        {MCTree(class, f.name, <<MCSmall(c)>>) : c \in f.of} \cup
        {MCTree(class, f.name, [i \in 1..n |-> MCSmall(Smallest(f.of))]) : n \in f.least..f.most}
        : f \in Operands(class)}

(* No rule of the grammar makes a bit_string or a target_element.          *)
MCClasses == DOMAIN Class \ {"bit_string", "target_element"}

MCBlank ==
    MCTree("compilation_unit", "statements", <<MCSmall("drop_statement"), MCSmall("empty_statement")>>)

MCRoots ==
    {<<"compilation_unit", MCBlank>>} \cup
    UNION {{<<class, tree>> : tree \in MCVariants(class)} : class \in MCClasses}

MCUnits == {MCUnit(root[1], root[2]) : root \in MCRoots}

(* TLC evaluates a named set once, and what stands for a constant whenever *)
(* it is looked at.                                                        *)
MCTrees == MCUnits

(* A document of plain words may be anything, the others are one statement *)
(* with a last semicolon.                                                  *)
MCParses(words, questions, keywords) ==
    IF Cardinality(words) > DocumentSize /\ questions = <<>> /\ keywords = {} THEN MCTrees ELSE {MCBlank}

(* Trees with a table reference and no APPLY.                              *)
Has(tree, class) == \E path \in DOMAIN tree : tree[path].class = class
MCTableReferences ==
    {tree \in MCTrees : Has(tree, "table_table_reference") /\ ~Has(tree, "apply")}

MCKinds == {f.kind : f \in UNION {Fields(class) : class \in DOMAIN Class}} \ {"none", "unlimited"}

MCListLimits == {[kind \in MCKinds |-> 0], [kind \in MCKinds |-> 1]}

=============================================================================
