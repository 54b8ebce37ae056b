# Verification of the mizugaki SQL front end

mizugaki turns SQL text into something an engine can execute.  A scanner and a
generated parser build a syntax tree, a validator bounds it, and an analyzer
resolves its names, types and functions and emits a graph of relational
operators or a statement object.

This directory holds TLA+ modules translated from that code, TLC configurations
that check them on small instances, and proofs checked by TLAPS.  In what
follows `details/` stands for `src/src/mizugaki/analyzer/details/` and `parser/`
for `src/src/mizugaki/parser/`.

    tlc -config RelationInfo.cfg RelationInfo      # a run
    tlapm RelationInfoProofs.tla                   # the proofs of a component

`PROJECT.json` lists the runs, the source lines behind every definition (`map`),
the hazards with the properties that answer them, and for every property a
plausible bug that breaks it (`mutants`; their definitions stand right before the
ones they replace, and nothing else uses them).

## 1. The system

One call of `sql_parser` and one of `sql_analyzer` compile one document.

    text --sql_scanner--> tokens --sql_parser_generated--> syntax tree
              |   comments, marks      |  asks for comments, descriptions
              +-----> sql_driver <-----+
                                 result --sql_tree_validator--> checked tree

    tree --sql_analyzer--> analyzer_context
              analyze_statement --> analyze_query_expression
                    |                      |   query_scope, relation_info,
                    |                      |   set_function_processor
                    +----------+-----------+
                      analyze_scalar_expression --> analyze_name, analyze_type,
                               |                    analyze_literal
                               +--> (a subquery) analyze_query_expression

Only two objects outlive a call: a `sql_parser`, which is constant, and a
`sql_analyzer`, whose `analyzer_context` is reused.  Nothing is persisted and no
message is sent, so crashes and lost messages are no concern.  Concurrency exists
in one place, several threads calling one `sql_analyzer`.  What is hard elsewhere
is *order*: the program edits shared structures (the scope, the relation list, a
chain of columns, a half-built operator graph) from deep inside a recursion, and
later steps read them by position.

### Inventory

| component | state it keeps | operations | what is hard | what makes it correct |
|---|---|---|---|---|
| relation and column information (`relation_info`, `column_info`) | column list, identifier map, chain of same-named columns, declaration map | `add`, `erase`, `rebuild`, `find`, `next` | chains are edited in place and cut at a sentinel; positions go stale until `rebuild` | a name leads to exactly its columns, in order; no chain is cyclic |
| query scopes and name resolution (`query_scope`, `analyze_name`) | a stack of scopes with features, relations, common tables, parameters | open and close a scope, find a column, add a parameter | a reference several subqueries deep threads one parameter through each correlated scope | every reference is usable where it stands and denotes the nearest column |
| FROM clause and joins (`analyze_query_expression`) | the relation list of the scope, the operator graph, output ports in hand | relation, derived table, APPLY, ON, USING | operands are told apart by positions; USING hides columns others still use | ports partition the relations; a merged column keeps its name |
| query specification and set functions (`process_query`, `set_function_processor`) | the operators of one query, the keys and calls collected | clause by clause, then `process` and `install` | the aggregation is put below operators that were already built and resolved | each operator reads what reaches it |
| function lookup and overload resolution | candidates | gather along the search path, keep the better of two | one pass over candidates in the order of a hash map | a function that is found is the most specific; when none is, depends on the order in a known way |
| scalar expressions | none of their own | one handler for each kind of node | subqueries change the scope they stand in | the scope is left as it was found |
| INSERT, UPDATE, DELETE | destinations, keys, values | one loop each | keys and values are divided by position | each row is written once, and found by what was read |
| statement dispatch | none | one call for each kind of statement | | a statement is analysed as what it is |
| CREATE TABLE and identity columns | columns, the primary index | constraints in any order, sequence options | each constraint looks at what others left, each limit of a sequence at the ones before | NULL-ability, default and key agree; a sequence counts within its type |
| CREATE, ALTER, DROP, TRUNCATE | none; the interpreter of the result changes the catalog | rename, drop, truncate, CREATE INDEX | IF EXISTS, conflicts, two schemas | a statement names an object that exists and creates one that does not |
| GRANT and REVOKE | the tables and users entered so far | two nested loops | repeated tables and users | each named table and user is entered once |
| literals and types | none | one handler for each kind | limits of widths, precision and scale | the type holds the value |
| catalog lookups | none | plain and qualified names | search path, hidden schemas | the first that exists |
| analyzer context | a flag, borrowed inputs, diagnostics, resolutions | take, install, clear, report, finalize | refused calls, exceptions, the order of the last steps | one call at a time; nothing left behind |
| scanner and driver | comments, separators, placeholder marks | one for each token | the parser asks later, after it has looked ahead | each token has exactly its comments |
| grammar | semantic values | one action for each rule | two token tables that must agree | what is written is what is built |
| syntax tree | values | copy, compare | each class lists its members four times | a copy is equal to its source, and equal trees are the same |
| tree validator | counts, a diagnostic | visit | two limits, an early end, lists of members by hand | a tree within the limits passes, no other does |
| parser pipeline | options | one call | who decides the result | a tree is returned only after validation |
| description text | none | strip marks and indentation | first line, last line | |
| options, results | values | accessors | | |

## 2. Modules

| module | models | its state and the code |
|---|---|---|
| `ColumnLookup` | what a relation promises | a list of columns; `Find` answers with the only visible column of a name, none, or ambiguous |
| `RelationInfo` | `relation_info.cpp`, the lookup loop of `analyze_name.cpp:868-892`, renaming and hiding in `analyze_query_expression.cpp` | `nameMap` and `declMap` are `id_map_` and `decl_map_`, `next` the links; `Emplace` and `Walk` are one turn each of `build_internal`, `Find` one turn of the lookup. It implements `ColumnLookup` |
| `NameResolution` | `query_scope`, `find_variable`, and the places that open and close scopes | `stack` holds one record for each `query_scope` on the C++ stack; a reference is `Resolve`, then one `AddParameter` for each correlated scope |
| `FromClause` | `process_from_clause`, `process_join`, `join_condition`, `join_columns` | `relations` is the scope, `frames` the joins whose operands are being analysed, `output` and `joined` the ports in hand, `graph` the joins emitted |
| `OverloadResolution` | `analyze_function_name` and the four callers in `analyze_scalar_expression` | `path` is the search path, `candidates` what was gathered, `left` and `right` the two that are compared |
| `QueryPlan` | `process_query`, `set_function_processor` | `plan` is the chain of operators, `cursor` the leaf the engine visits; `Install` puts the aggregation at `entry` |
| `WritePlan` | INSERT, UPDATE and DELETE of `analyze_statement.cpp` | one action for each turn of its loops; `writeKeys` and `writeValues` are the columns of the write operator |
| `NumericLiterals` | `analyze_literal.cpp` for exact numbers, the folding of signs in the grammar, and the reading of sequence options | functions; a literal is its signs, coefficient and scale |
| `ColumnTypes` | `analyze_type.cpp`, and `to_size` of `sql_driver.cpp` | functions; a size is absent, `*` or a number |
| `TableDefinition` | CREATE TABLE, and `process_column_value` of identity constraints, of `analyze_statement.cpp` | `columns` are the columns so far, `primary` the key, `sequence` the one under construction; one action for each column, constraint and option |
| `CatalogStatements` | CREATE, ALTER, DROP and TRUNCATE of `analyze_statement.cpp`, and the interpreter of the explain-cli | `tables` and `indexes` are the storage providers; a statement is analysed in one action and interpreted in the next |
| `Privileges` | GRANT and REVOKE of `analyze_statement.cpp` | `elements` and `entries` are its lists; one action for each turn of the two loops |
| `StatementAnalyzer` | the dispatch at `analyze_statement.cpp` | composes the four modules above: one action for each, guarded by the kind of the statement |
| `AnalyzerContext` | `sql_analyzer_impl`, `analyzer_context` | `pc[t]` is the place of a thread in the call; what a call leaves in the context is its mark |
| `SqlDriver` | `sql_scanner`, comments and marks of `sql_driver` | a document is a row of blanks, comments and tokens; the questions of the parser are operators that may be asked in any state |
| `SyntaxTree` | the headers of `mizugaki::ast` | for each of 101 classes the row of its members: a child, a list, or a datum |
| `TreeOperations` | the copy constructors and `operator==` of each class | the members that each class copies, those it compares, and what it answers of one and the same object; `Equal` compares two trees that share no object |
| `TreeLimits` | what `sql_parser` promises of its limits | the result of a tree as a function of its nodes, depth and lists; nothing of an order |
| `TreeValidator` | `sql_tree_validator.cpp` | `todo` holds the nodes still on the C++ stack; `Accept` is the visit of one of them, with the members each handler names |
| `ParserPipeline` | `sql_parser.cpp`, and the limits on lists of the grammar | composes `SqlDriver` and `TreeValidator`; it implements `TreeLimits`, whose `outcome` is `result` |

`MC*` modules give constants their values for TLC, `*Proofs` modules hold theorems.

How they meet.  `ParserPipeline` runs scanner, driver, grammar and validator as the
stages of one call: `SqlDriver` and `TreeValidator` are extended, and their
next-state relations are disjuncts of its own.  The constant `Trees` holds what the
rules of the grammar can build, and `Parses` those of them a document may become.  `StatementAnalyzer` composes the four modules of
statements; CREATE TABLE meets literals and types through `TableDefinition`, which
extends `ColumnTypes`, which extends `NumericLiterals`.  `FromClause` and `QueryPlan`
share the relation list that `RelationInfo` describes one entry of;
`NameResolution` decides which of the variables `QueryPlan` takes as given are
reachable; `AnalyzerContext` encloses all analysis.  These are not multiplied into
one state space, since they interact by calls that return before the caller goes
on, and each states what it needs of the other as part of its initial choices.

Two abstract specifications say what a component promises and nothing of how:
`ColumnLookup` (a lookup is a search of a list) and `TreeLimits` (a tree within the
limits, and no other, is the result).  `LookupSpec` and `LimitsKept` state that
`RelationInfo` and `ParserPipeline` implement them.

### Abstractions

- Names, types and functions are model values.  Case folding of identifiers
  happens before a name reaches these modules.
- An expression is the sequence of its leaves (`QueryPlan`), because the processor
  only looks at leaves and at nesting within a set function.  The expressions of a
  query are over the columns of its FROM clause (`ExpressionsAssumption`): that ORDER
  BY may name the columns of SELECT is a comment in the code
  (`details/analyze_query_expression.cpp:218`).
- The query an INSERT reads is its number of columns.
- An APPLY adds one relation to the scope and to the port in hand; its arguments
  are expressions over relations that are already there.
- Function candidates are a set of places; their order of enumeration is a free
  choice, since the provider that lists them is a hash map outside this code.
- The text of a number is its signs, its coefficient and its scale; the widths
  are scaled down, and arithmetic wraps at the width of the largest.
- What the grammar makes of a document of plain words is any tree of the run; a
  document with marks or keywords becomes one statement and the empty one after
  its semicolon.  A syntax error is possible at any token.
- The nodes of a tree are its paths, each a row of members and positions.
- A catalog holds tables and indexes only; a column is its name.
- The values and parameters of an index are left out.  Values of a key over columns
  are an error; its parameters are reported and skipped
  (`details/analyze_statement.cpp:1233`), and so are those of CREATE INDEX (line 1349);
  those of the key of a column are not looked at.
- The catalog between two statements is the one the interpreter of the
  explain-cli leaves (`src/examples/explain-cli`), the only one in the repository.
- A token, a comment and a blank have the length 1.  Only the order of positions
  is compared in the code.

## 3. Runs

| run | instance | what it shows |
|---|---|---|
| `relation_info` | two names, one declaration, up to three columns | after any adds, renames and hides the maps and chains are exact (`LinksExact`, `DeclarationExact`), a lookup answers as a plain search would (`LookupSpec`), and each loop ends (`LoopsEnd`) |
| `name_resolution` | up to seven scopes, two relations | scopes keep their features (`FramesExact`); each subquery gets what it needs from outside, from where it stands, once (`ParametersExact`); a reference is usable and denotes the nearest column (`ReferenceExact`) |
| `from_clause` | four relations of up to two columns, three joins open, two USING columns | the ports in hand partition the scope and the joins form a tree (`PlanWellFormed`), the pivot separates the operands (`PivotExact`), USING hides and keeps names (`UsingExact`) |
| `overload_resolution` | four types, two schemas, two functions in each, one argument | a function that is found beats each other candidate (`MostSpecific`) and can be called (`Acceptable`), and an invocation is ambiguous exactly if the candidates up to some place have no best one (`AmbiguityExact`) |
| `query_plan` | two columns, seven expressions, two keys, two elements, one sort key | a finished plan reads only what reaches each operator (`Available`), computes what was written (`ValuesKept`), and its operators stand in the order of SQL and define each variable once (`OperatorsExact`) |
| `query_plan_asterisk` | one element | violated: `SELECT *` with GROUP BY gives a column that the aggregation hides |
| `analyzer_context` | three threads, two calls each | one call inside (`Exclusion`), nothing stale (`ContextIsolated`), diagnostics go to their own call (`DeliveredOwn`), the context is given back (`GivenBack`) |
| `statement_analyzer` | every kind of statement; the instance of each is below | see below |
| `rows_without_keys` | the same | violated: a DELETE writes without keys, after an error that was reported |
| `parser_pipeline` | documents of up to five positions, 1730 trees, node limits 0, 4 and 6, depth limits 0 and 3, list limits 0 and 1 | each token has exactly its comments, a description belongs to one token (`CommentsExact`), each mark has its number (`PlaceholdersNumbered`), a copy is a whole tree of its own, and comparison of two objects sees each change but that of a supplemental member or of the two that are forgotten (`CopiesExact`), the call implements `TreeLimits` (`LimitsKept`) and each call has an answer (`AnswerGiven`) |
| `parser_pipeline_equality` | one token, the trees with a table reference | violated: trees that differ in ONLY are equal, and a node is not equal to itself |
| `sql_driver_keywords` | documents of two positions | violated: BIT_AND becomes `bool_and` |

`statement_analyzer` asks of

- INSERT, UPDATE and DELETE, on a table of three columns and a hidden one with six
  primary indexes of none to three keys: a row is written wholly and once
  (`InsertExact`, `WrittenOnce`) and addressed by the values the scan read
  (`RowsAddressedByScan`);
- CREATE TABLE, with up to two columns of three constraints each: a table is
  refused for exactly the combinations that the code lists (`ConstraintsExact`);
  NULL-ability and defaults agree (`ColumnsExact`); keys exist and are not nullable
  (`KeyColumns`); a sequence counts within its limits and those of its type
  (`SequenceExact`);
- literals, on integers of 2, 3, 4 and 5 bits and decimals of two digits: a literal
  keeps its number and gets the type that holds it (`LiteralsExact`); and types, on
  sizes up to 6 and one beyond: a type is what was written or is refused
  (`TypesExact`);
- sessions of four statements over two schemas that begin with one of three
  catalogs, one with a primary index that has a name: names are unique, no table has
  two primary indexes, and none is left of a table that was dropped (`CatalogSound`);
  a statement given again is harmless where it says so (`RepeatHarmless`); a rename
  goes to a free name (`RenameFree`); and a step creates or drops what it names and
  nothing else, so that a table loses its primary index only to a DROP INDEX that
  names it (`CatalogSteps`);
- GRANT and REVOKE of up to three objects and users: each named table and user is
  entered with the actions of the statement (`PrivilegesExact`).

### Why the bounds are enough

- `RelationInfo`: a chain has a head, a middle and an end with three columns, and
  a second name can lie between any two of them.  The theorems cover the rest.
- `NameResolution`: with seven scopes a common table can lie in a subquery of a
  derived table of a subquery, so each kind of scope occurs above and below each
  other, and three correlated scopes can lie between a column and its use.  One
  name suffices for shadowing, as shadowing needs two columns of one name.
- `FromClause`: four relations with three open joins give each shape of join tree
  on both sides of a comma element; two USING columns can hide a column that an
  earlier join has paired.
- `OverloadResolution`: the four types hold a chain of three and a branch, so three
  candidates can be ordered, partly ordered or unrelated.  Where all
  schemas are gathered there are up to four candidates, of which one can be the best
  and the others unrelated, and come first or last.
- `QueryPlan`: the seven expressions are a literal, each column, a call without and
  with arguments, two calls in one value, a call beside a plain column, and a
  nested call.  Each clause may hold each of them.
- `WritePlan`: the indexes cover no key to three keys, in and out of the order of
  the table, and with the hidden column.  Lists of columns are not bounded: a column
  can be listed once.
- `TableDefinition`: three constraints on a column hold each pair of kinds in both
  orders and a third between them, and two columns a key of each and of both.  The
  theorems cover the rest.
- `NumericLiterals` and `ColumnTypes`: numbers lie at, below and above each end of
  each width and each precision; sizes go one beyond the largest, which wraps to 0.
- `CatalogStatements`: four statements create, use, drop and repeat; an element of
  the second schema can be hidden by one of the same name in the first.
- `Privileges`: three objects hold a repeated table with another between.
- `AnalyzerContext`: a refused call meets each stage of another, and a second call
  of the same thread meets what the first left.
- `SqlDriver`: five positions hold a group of comments on each side of a token, and
  tokens beyond them.
- `SyntaxTree`: for each member of each class there is a tree with each class of
  child in that member, and with none, one and two children, so that a member a
  handler forgets is seen.  Limits of 4 and 6 nodes and a depth of 3 lie within the
  trees, so that the walk ends at its first, at a middle and at its last node.

Deadlock is not checked because each of these is the life of one call or session,
which ends; `AnalyzerContext` ends when each thread has made its calls.

### Fairness

- `LoopsEnd`: weak fairness on the loop actions of `RelationInfo` only.  A loop
  runs within one call on one thread; once entered, nothing else can happen.  No
  fairness is assumed of the operations that start a loop.
- `GivenBack`: weak fairness on the steps of a thread inside a call.  That the
  analysis itself ends follows from the finite tree; the model lets it report
  and resolve any number of times, of which only finitely many change the state.
  No thread has to call, and a refused caller does not wait.
- `AnswerGiven`: weak fairness on the steps of the pipeline.  One thread runs the
  call from the scanner to the validator and waits for nothing; that the loops of
  the scanner and the walk end is what the property shows.

### What is assumed of others

The storage, type and function providers belong to yugawara, and are external:

- CREATE TABLE declares a table together with a primary index without a name, and a
  session begins with a catalog whose tables all have one, with a name or without
  (`InitialAssumption`); a provider refuses names that exist, and keeps elements
  without a name apart; the default schema is on the search path;
- conversions are reflexive and transitive (`ConvertibleAssumption`);
- the default precision of the options is within the maximum (`SizesAssumption`);
  otherwise `details/analyze_type.cpp:218` reads an empty optional;
- the builds wrap when the number -2^63 is negated (`Wrap`);
- the outcomes of a lookup are no places of declarations (`OutcomesAssumption`), and
  the empty identifier is none of a relation (`IdsAssumption`), which is true of the
  values in the code by their types;
- the texts of numbers and types are what the grammar makes of them
  (`WrittenAssumption`): signs, a coefficient and a scale; a size is absent, `*` or a
  number;
- the grammar builds trees of the classes of `mizugaki::ast` (`TreesAssumption`), and
  limits are numbers (`LimitsAssumption`);
- the lists of a GRANT are lists, its grantees names, `PUBLIC` or `CURRENT_USER`
  (`RequestsAssumption`).

## 4. Proofs

Theorems hold for every value of the constants, so for any number of columns,
relations, threads, statements and tokens; the assumptions they use are the named
`ASSUME`s of the modules.  In each module an inductive invariant is shown to hold
initially and to be kept by each action, and the property follows from it.

**`RelationInfoProofs`.**  `TypeCorrect`, `ChainsExact`, `LookupExact`, `Refinement`,
`DeclarationsExact`.  The exactness of the chains is not inductive between the
steps of `build_internal`, where the map and the links describe only a prefix of
the columns.  `Linked` names that prefix; `Building`, `Walking` and `Finding` say
where the three loops stand: the cursor of the walk is an earlier column of the
same name, and all that it saw lies before it, so the cycle test of
`relation_info.cpp:185` cannot fire.  `LookupExact` says that what a lookup has found
is exactly what is visible behind its cursor, and the refinement maps each finished
lookup to one `Find` of `ColumnLookup` and all other loop steps to stuttering.
`EntriesExact` says of the declarations in the prefix what `DeclarationExact` says of
all.

**`FromClauseProofs`.**  `Plan`, `Pivots`, `Merged`.  The ports in hand are sets of
positions.  `Contiguous` says how they lie: there is a function `e` of the ends of
intervals, one for the joins done, one for the left operand of each open join, from
the outermost to the innermost, and the last for the output; the pivot of a join is
the end of its left operand.  With it a join that is completed takes two
neighbouring intervals, and `PivotExact` is the innermost of them.  `JoinsInOrder`
says that the pairs of the join in hand lie across its pivot and that the pairs of
earlier joins carry smaller numbers; without it `UsingExact` would not survive a
second USING that hides a column an earlier one has paired.

**`OverloadResolutionProofs`.**  `ChosenIsMostSpecific`, `KeptIsMostSpecific`,
`ChosenIsAcceptable`, `AmbiguityIsReal`.  The pass keeps one of two candidates, so the
invariant is `KeptMostSpecific`: the one that is kept beats all before the next.  Its
step needs that "more specific" is transitive (`MoreSpecificTransitive`), which rests
on the conversions being transitive: that is the assumption on the constant
`Convertible`.  Hence `DecidedSoFar`: the candidates passed over had a best one at each
place, and the pass ends at the first place where they have none.  Which place that
is depends on the order, so `AmbiguityIsReal` states both what the order cannot do
(refuse candidates that can all be compared) and what it can.  `Fitting` says of every candidate in hand what `Acceptable` says of the
one chosen, and `Near` that the schemas before the one in hand had none.

**`AnalyzerContextProofs`.**  `Exclusive`, `Isolated`, `OwnDiagnostics`.  The flag alone says
nothing about the contents.  `StageContents` adds what the context holds at each
stage of the call that is inside, and with mutual exclusion a step of one thread
cannot disturb what it says of another.

**`NameResolutionProofs`.**  `ScopesRestored`, `ParametersRight`, `ReferencesRight`.  Every step
but those of a reference edits, opens or closes the topmost scopes (`Scoped`) and
does so between references (`Quiet`), so what was resolved before keeps holding.
`FeaturesSaved` says that a subquery keeps what the features of the scope below it
were, which is what closing it gives back.  `Threading` says where a reference under
way stands: the column that was found is the one of the nearest scope that answers
(`FoundNearest`; a nearest scope exists because a set of depths has a greatest
element), and the variable in hand is that column or the parameter that leads to it
in the last scope it was added to.

**`QueryPlanProofs`.**  `OperatorsRight`, `ValuesRight`, `ReadsRight`.  What is stated of the
finished plan is not true of a plan under construction, where an operator still
holds the calls that the aggregation will replace.  `Shape` says in which order the
operators stand and that the entry of the aggregation lies behind FROM and WHERE
and before all others; `Fresh` that every variable in use is older than the next.
`Leaves` divides the leaves of the expressions by the cursor of the processor: a leaf
before it means what was written and reads only what the aggregation leaves, a
leaf behind it is still as it was written.  `ArgumentsOK` says that each argument that
was installed is defined by what reaches the entry, and `Inactive` that without a
processor there is no call.  When the cursor has passed the last leaf, installing
the operators at the entry makes of this `Available` and `ValuesKept`; without a
processor, all leaves are columns that reach every operator.

**`StatementAnalyzerProofs`** holds what is proved of the four modules of statements
and of their composition.

*INSERT, UPDATE, DELETE.*  `Inserts`, `ColumnsWrittenOnce`, `RowsAddressed`.  The loops of each
statement add to lists by position, so the invariant says for each stage what the
lists hold of the part that was gone through: the columns taken are those before
the cursor, the key positions those of the keys before it, and the pairs written
those of the tuples before it.  No column is a destination twice, so none is
written twice.

*CREATE TABLE.*  `Constraints`, `DeclaredColumns`, `PrimaryKeysRight`, `Sequences`.  The
constraints a column has had decide what is in it, whatever their order: this is
the invariant of the loop, and the refusals are its exceptions.  A key of the table
takes effect when it is complete.  For a sequence the invariant goes along the
stages of `process_column_value`: the limits are within the type before the start
is looked at, and the start is within the limits.

*Literals and types.*  `LiteralsRight`, `TypesRight`.  The provers know nothing of `^`, so the
powers of two and of ten are recursive functions, and the lemmas before the
theorems show that such functions exist (two finite parts of one agree), grow, and
exceed their exponents.  With `Half` the first number that an integer of 64 bits does
not hold, `Wrapped` says that every number between its ends is unchanged by wrapping
and that `Half` becomes the lowest; that is why the coefficient 2^63 after a minus, cast
and negated, is the number that was written.  A decimal type has digits because a
number is below its own power of ten.

*Catalog.*  `CatalogStaysSound`, `Repeatability`, `FreeNames`, `CatalogChangesExact`.  A statement is
analysed against a catalog that is still the same when it is interpreted.  The
invariant says that what the analysis found is true of the catalog before, and
that the catalog after it holds what was created and not what was dropped.  A name
is looked up at the least position of the search path that has it.

*GRANT and REVOKE.*  `PrivilegesRight`.  The invariant `EntriesExact` says of the objects and
users that were gone through what `PrivilegesExact` says of all, and that the entry
in hand is the one of the object in hand, whether it is new or was found.

*Dispatch.*  `Dispatched`, `StatementsRight`.  A step of one module is a stutter of the three
others, so that the composed `Spec` implements the specification of each; whatever
is proved of a module holds of every statement the dispatch hands to it.

**`ParserPipelineProofs`** holds what is proved of a call of the parser.

*Scanner and driver.*  `CommentsFound`, `PlaceholdersFound`, `ScannerRuns`,
`CommentsStayFound`.  Few tokens are kept as separators; that they suffice is the
invariant `ScannerInv`: each separator is a token or the start of the document
(`SeparatorsAreTokens`), one stands right before each group of comments with no token
between (`SeparatedBefore`), and one between a comment and each later token
(`SeparatedAfter`).  The binary search is shown to find the separator it looks for
(`LowerBoundAt`), and that a token which leads a comment as its description is unique
follows from the comments of two tokens being disjoint.  A call of the parser is a
run of the scanner and stutters of it, so all this holds while the tree is built,
checked and walked.

*The classes.*  `TablesExact` says of each of the 101 classes what its three tables owe
to its row of members: the handler goes into each operand once, but for those that
`TreeLimits` leaves out and the lists of privilege actions, which hold no nodes
(`VisitExact`); a copy takes over every member, and comparison looks at all but those
ignored (`CopyExact`).  It is proved class by class, since a table is written by hand
for each class; what follows uses nothing else of the tables.

*The walk.*  `WalkRight`.  A handler does not accept the children of a node but the
topmost nodes that count below it: an element that stands by value in its parent is
gone through on the spot.  `Entered` is that set, and `Accepted`, two loops of rows put
one behind the other, holds each of its nodes once (`AcceptedAre`).  Its nodes count,
are one level deeper (`EnteredCounted`), none lies below another (`EnteredApart`), and
each node that counts further down lies below one of them (`EnteredAbove`).  This makes
the invariant `Sound` inductive: the nodes on the stack carry their depths and none lies
below another; those not below them, which are not `Awaited`, have been counted, and
the largest depth is theirs.  Without the clause that the nodes on the stack lie apart
a node could be counted twice, and without that they cover what is awaited, never.
`PipelineInv` adds the stages: no counter moves before the walk, or without a limit, and
a walk that was stopped belongs to a tree beyond its limits.  That the
tree stays a tree without the empty statement behind its last semicolon is
`WithoutBlankTree`.

*The promise.*  `LimitsRight`: `ParserPipeline` implements `TreeLimits`.  The mapping gives
`outcome` the result without its code.  A syntax error maps to `RefuseDocument`, `Success`
and a list that is too long to the two ends of `Parse`, `Validate` to `Configure`; the scanner
and each node of the walk stutter; `Finish` maps to `Accept` or `RefuseTree`.  At its end nothing is
awaited, so the counters are the number of all nodes that count and the depth of the
tree.

*Copies.*  `CopiesRight`.  What `operator==` compares of two trees of different objects is the part reached
without an ignored member (`EqualIs`, `LookedAre`).  A tree with one datum changed, or with
the last child of a member cut off with all below it, differs in that part exactly
if no step down to the change is ignored (`ChangedDatumIs`, `WithoutLastIs`).  Ignored are the
supplemental members and the two of the findings below: the theorem says that
there are no others.

The assumptions are two.  `TreesAssumption`: what the rules of the grammar build is a
tree (`IsTree`: a finite set of paths, closed upwards, with each member filled as its
class says) below a compilation unit; without it a tree could hold infinitely many
nodes or a child of no member, which no C++ object can.  `LimitsAssumption`: limits are
numbers, as their type `std::size_t` says.

Only model-checked: liveness (`LoopsEnd`, `GivenBack`, `AnswerGiven`), as liveness under
fairness is beyond the prover.  Each other property of a passing run is stated by a
theorem.

## 5. Findings

Each is shown by a run that TLC finds violated:

- `SELECT *` in a query with GROUP BY succeeds with columns that are not grouped
  (`details/analyze_query_expression.cpp:1247`), while naming such a column is
  "column must be aggregated" (`query_plan_asterisk`).
- UPDATE and DELETE of a table without keys report an error and go on to a write
  operator without keys, and the caller gets that plan and never the diagnostics,
  although `sql_analyzer.h:65` promises an invalid result (`rows_without_keys`).
- `BIT_AND` and `BIT_OR` are scanned as the tokens BOOL_AND and BOOL_OR
  (`parser/sql_scanner.ll:456`).  The grammar has rules for the tokens BIT_AND and
  BIT_OR, which are never scanned (`sql_driver_keywords`).
- `operator==` of a table reference compares `is_only_` with itself
  (`src/src/mizugaki/ast/table/table_reference.cpp:100`), that of APPLY leaves out the operand
  (`src/src/mizugaki/ast/table/apply.cpp:136`): trees that differ there are equal.  And
  `operator==` of 50 classes answers `false` for one and the same object, as
  `src/src/mizugaki/ast/query/query.cpp:188`; where members are compared, `eq()` answers
  `true` first (`parser_pipeline_equality`).

Read while modelling, and part of the models:

- An invocation may be refused as ambiguous although one function is more specific
  than every other: the pass gives up at two that are unrelated and come before it
  (`details/analyze_scalar_expression.cpp:1553`).  When the provider enumerates the best
  one first, it is found.  `AmbiguityExact` says when it is.
- The number of nodes of a parser result, "the number of nodes in the AST"
  (`src/include/mizugaki/parser/sql_parser_result.h:93`), leaves out the operand of APPLY,
  names of functions and aliases of UPDATE and DELETE (`parser/sql_tree_validator.cpp:546`),
  and the limits do not see them.  `TreeLimits` names these members, and `LimitsKept`
  shows that there are no others.
- In `FROM a, b JOIN c USING (x)` the left `x` may be taken from `a`, which is not an
  operand of the join (`details/analyze_query_expression.cpp:1339`).
- The keys of an INSERT come in the order of its column list, not of the index as the
  note at `details/analyze_statement.cpp:324` says; each key still names its column.
- UPDATE accepts a hidden column as a target (`details/analyze_statement.cpp:491`),
  which INSERT rejects (line 210).
- A number beyond 64 bits becomes 0: as a length or a precision it is refused, as a
  scale it is accepted; 2^64-1 is taken for `*`.
- `NOT NULL DEFAULT NULL` is accepted.
- `CURRENT_USER` and `*`, when repeated in GRANT or REVOKE, are entered twice.
- The comparison of trees does not look at descriptions, nor at the comments of the
  document; the code says so of both (`src/src/mizugaki/ast/statement/table_definition.cpp:123`,
  `src/include/mizugaki/ast/compilation_unit.h:88`).
- DROP INDEX drops a primary index that has a name, and leaves the table without one,
  while ALTER INDEX refuses to rename it (`details/analyze_statement.cpp:1599`).
- In the explain-cli DROP TABLE leaves the secondary indexes of the table behind, and
  the results of ALTER are not interpreted.

## 6. Not modelled

- The productions of `sql_parser.yy`: one action builds one node.  Conflicts
  between them are found by bison; their effects on the driver and their limits on
  lists are modelled.
- Options and results: values without behaviour.  Printing and source regions of
  the syntax tree.
- The text of descriptions, strings, dates and floating point numbers: library
  conversions or pure functions on characters.
- Scalar expressions other than calls and subqueries: one node becomes one node, or
  is reported as unsupported.
- The type resolution of expressions, and with it the unification of the rows of
  set operations and VALUES; function and catalog providers: they belong to
  yugawara, another library; their answers are constants or free choices.
- HAVING without GROUP BY and set functions does not group
  (`details/analyze_query_expression.cpp:173`): this is in the model, but no text says
  what such a query means, so no property judges it.
- Examples and build tools, but for the interpreter named above.

## 7. What is left

Set operations and VALUES: the unification of rows, added to `QueryPlan` with the
conversions as a constant, as in `OverloadResolution`.

No module with a theorem uses a RECURSIVE operator; recursion of the program is a
stack of records, one for each call that is active.
