------------------------- MODULE OverloadResolution -------------------------
(***************************************************************************)
(* How an invocation finds its function: the declarations of that name and *)
(* number of parameters along the schema search path, those of the wanted  *)
(* kind the arguments can be passed to, and among them a single pass that  *)
(* keeps the more specific of two.  A plain invocation takes a scalar      *)
(* function, and only without one a set function; APPLY takes a            *)
(* table-valued function; the built-in forms gather every schema.          *)
(***************************************************************************)
EXTENDS Naturals, Sequences, FiniteSets

CONSTANTS
    Types,
    Convertible,    \* is_parameter_application_convertible(): pairs of types
    MaxArguments,   \* bound on the arguments of an invocation
    MaxSchemas,     \* bound on the search path
    MaxFunctions    \* bound on the declarations of that name in a schema

ASSUME ConvertibleAssumption ==
    /\ Convertible \subseteq Types \X Types
    /\ \A t \in Types : <<t, t>> \in Convertible
    /\ \A t, u, v \in Types :
          <<t, u>> \in Convertible /\ <<u, v>> \in Convertible
              => <<t, v>> \in Convertible
ASSUME OverloadBoundsAssumption ==
    {MaxArguments, MaxSchemas, MaxFunctions} \subseteq Nat

Callers == {"function", "apply", "builtin", "set_function"}
Kinds == {"scalar", "table", "aggregate"}
Declaration == [kind : Kinds, parameters : Seq(Types)]

VARIABLES
    path,       \* schema_search_path(): the declarations of that name
    arguments,  \* the types of the arguments
    caller,     \* the form of the invocation
    wanted,     \* the kind that is looked for
    pc,         \* "collect", "select", "compare" or "done"
    schema,     \* the schema to visit next
    listed,     \* places <<schema, index>> of the declarations of that name
    candidates, \* the places of those that fit
    left,       \* left_idx of resolve_overload()
    right,      \* right_idx of resolve_overload()
    answer      \* a place, or why there is none

vars == <<path, arguments, caller, wanted, pc, schema, listed, candidates,
          left, right, answer>>
input == <<path, arguments, caller>>

Places == {p \in (1..MaxSchemas) \X (1..MaxFunctions) :
              p[1] <= Len(path) /\ p[2] <= Len(path[p[1]])}
At(p) == path[p[1]][p[2]]

Outcomes == {"none", "not found", "ambiguous"}

(* An outcome without a function is never mistaken for a place.            *)
ASSUME OutcomesAssumption ==
    \A o \in Outcomes : o \notin (1..MaxSchemas) \X (1..MaxFunctions)

TypeOK ==
    /\ path \in Seq(Seq(Declaration))
    /\ arguments \in Seq(Types)
    /\ caller \in Callers
    /\ wanted \in Kinds
    /\ pc \in {"collect", "select", "compare", "done"}
    /\ schema \in 1..(Len(path) + 1)
    /\ listed \in Seq(Places)
    /\ candidates \in Seq(Places)
    /\ left \in Nat
    /\ right \in Nat
    /\ answer \in Places \cup Outcomes
    /\ pc = "compare" => left \in DOMAIN candidates /\ left < right

-----------------------------------------------------------------------------
(* is_applicable(): every argument can be passed to its parameter.         *)
IsApplicable(args, params) ==
    /\ Len(args) = Len(params)
    /\ \A i \in DOMAIN args : <<args[i], params[i]>> \in Convertible

WantedFirst(c) ==
    CASE c = "function" -> "scalar"
      [] c = "builtin" -> "scalar"
      [] c = "apply" -> "table"
      [] c = "set_function" -> "aggregate"

(* A schema keeps set functions apart from the other functions.            *)
Provided(declaration) ==
    wanted = "aggregate" <=> declaration.kind = "aggregate"

(* each(): the declarations with that number of parameters, in an order of *)
(* the provider's own.                                                     *)
InSchema(s) ==
    {p \in Places : p[1] = s /\ Provided(At(p))
                    /\ Len(At(p).parameters) = Len(arguments)}

Orders(S) == {o \in [1..Cardinality(S) -> S] :
                  \A i, j \in DOMAIN o : o[i] = o[j] => i = j}

(* The first schema that has the name ends the search; the built-in forms  *)
(* go through the whole path.                                              *)
Collect ==
    /\ pc = "collect"
    /\ IF schema > Len(path) \/ (listed # <<>> /\ caller \in {"function", "apply"})
       THEN pc' = "select" /\ UNCHANGED <<schema, listed>>
       ELSE /\ \E order \in Orders(InSchema(schema)) :
                  listed' = listed \o order
            /\ schema' = schema + 1
            /\ UNCHANGED pc
    /\ UNCHANGED <<input, wanted, candidates, left, right, answer>>

(* Mutant of Fits: the kind of the function is not looked at.              *)
FitsAnyKind(p) == IsApplicable(arguments, At(p).parameters)

Fits(p) ==
    /\ At(p).kind = wanted
    /\ IsApplicable(arguments, At(p).parameters)

(* The loop over the declarations found.                                   *)
Filter ==
    /\ pc = "select"
    /\ listed # <<>>
    /\ candidates' = IF Fits(Head(listed)) THEN Append(candidates, Head(listed))
                                           ELSE candidates
    /\ listed' = Tail(listed)
    /\ UNCHANGED <<input, wanted, pc, schema, left, right, answer>>

StartComparing ==
    /\ left' = 1
    /\ right' = 2
    /\ pc' = "compare"
    /\ UNCHANGED <<wanted, schema, candidates, answer>>

(* Candidates are compared; a plain invocation without any starts over     *)
(* with set functions.                                                     *)
Select ==
    /\ pc = "select"
    /\ listed = <<>>
    /\ \/ /\ candidates # <<>>
          /\ StartComparing
       \/ /\ candidates = <<>>
          /\ caller = "function" /\ wanted = "scalar"
          /\ wanted' = "aggregate"
          /\ schema' = 1
          /\ pc' = "collect"
          /\ UNCHANGED <<candidates, left, right, answer>>
       \/ /\ candidates = <<>>
          /\ ~(caller = "function" /\ wanted = "scalar")
          /\ answer' = "not found"
          /\ pc' = "done"
          /\ UNCHANGED <<wanted, schema, candidates, left, right>>
    /\ UNCHANGED <<input, listed>>

(* The parameters of one declaration can be passed to the other one.       *)
Forward == IsApplicable(At(candidates[left]).parameters,
                        At(candidates[right]).parameters)
Reverse == IsApplicable(At(candidates[right]).parameters,
                        At(candidates[left]).parameters)

(* Mutants of Compare: two unrelated declarations are no conflict; a more  *)
(* general one is an ambiguity already.                                    *)
CompareUnrelated ==
    /\ pc = "compare"
    /\ right <= Len(candidates)
    /\ IF Forward /\ Reverse
       THEN /\ answer' = "ambiguous"
            /\ pc' = "done"
            /\ UNCHANGED <<left, right>>
       ELSE /\ left' = IF Reverse THEN right ELSE left
            /\ right' = right + 1
            /\ UNCHANGED <<pc, answer>>
    /\ UNCHANGED <<input, wanted, schema, listed, candidates>>

CompareForward ==
    /\ pc = "compare"
    /\ right <= Len(candidates)
    /\ IF Forward
       THEN /\ answer' = "ambiguous"
            /\ pc' = "done"
            /\ UNCHANGED <<left, right>>
       ELSE /\ left' = IF Reverse THEN right ELSE left
            /\ right' = right + 1
            /\ UNCHANGED <<pc, answer>>
    /\ UNCHANGED <<input, wanted, schema, listed, candidates>>

Compare ==
    /\ pc = "compare"
    /\ right <= Len(candidates)
    /\ IF Forward = Reverse
       THEN /\ answer' = "ambiguous"
            /\ pc' = "done"
            /\ UNCHANGED <<left, right>>
       ELSE /\ left' = IF Reverse THEN right ELSE left
            /\ right' = right + 1
            /\ UNCHANGED <<pc, answer>>
    /\ UNCHANGED <<input, wanted, schema, listed, candidates>>

Choose ==
    /\ pc = "compare"
    /\ right > Len(candidates)
    /\ answer' = candidates[left]
    /\ pc' = "done"
    /\ UNCHANGED <<input, wanted, schema, listed, candidates, left, right>>

-----------------------------------------------------------------------------
Lists(S, n) == UNION {[1..k -> S] : k \in 0..n}
SignaturesUpTo(n) == [kind : Kinds, parameters : Lists(Types, n)]

Init ==
    /\ path \in Lists(Lists(SignaturesUpTo(MaxArguments), MaxFunctions), MaxSchemas)
    /\ arguments \in Lists(Types, MaxArguments)
    /\ caller \in Callers
    /\ wanted = WantedFirst(caller)
    /\ pc = "collect"
    /\ schema = 1
    /\ listed = <<>>
    /\ candidates = <<>>
    /\ left = 0
    /\ right = 0
    /\ answer = "none"

Next == Collect \/ Filter \/ Select \/ Compare \/ Choose

Spec == Init /\ [][Next]_vars

-----------------------------------------------------------------------------
MoreSpecific(p, q) ==
    /\ IsApplicable(At(p).parameters, At(q).parameters)
    /\ ~IsApplicable(At(q).parameters, At(p).parameters)

(* The function that is found is more specific than every other candidate. *)
(* Two orders of the candidates that both find a function thus find the    *)
(* same one; whether one is found is another question                      *)
(* (AmbiguityExact).                                                       *)
MostSpecific ==
    pc = "done" /\ answer \notin Outcomes =>
        \A k \in DOMAIN candidates :
            candidates[k] # answer => MoreSpecific(answer, candidates[k])

(* The strengthening: the declaration kept so far is more specific than    *)
(* all those before the one to come.                                       *)
KeptMostSpecific ==
    pc = "compare" =>
        \A k \in 1..(right - 1) :
            k # left => MoreSpecific(candidates[left], candidates[k])

(* A chosen function can take the arguments and is of a kind the form of   *)
(* the invocation accepts, and no schema before its own hides it, unless   *)
(* the whole path was gathered.                                            *)
Acceptable ==
    /\ TypeOK
    /\ pc = "done" /\ answer \notin Outcomes =>
        /\ IsApplicable(arguments, At(answer).parameters)
        /\ At(answer).kind \in
              CASE caller = "function" -> {"scalar", "aggregate"}
                [] caller = "apply" -> {"table"}
                [] caller = "builtin" -> {"scalar"}
                [] caller = "set_function" -> {"aggregate"}
        /\ caller \in {"function", "apply"} =>
              \A s \in 1..(answer[1] - 1) : InSchema(s) = {}

(* One of the first n candidates is more specific than the others.         *)
Decided(n) ==
    \E k \in 1..n : \A l \in (1..n) \ {k} :
        MoreSpecific(candidates[k], candidates[l])

(* An invocation is ambiguous exactly if the candidates up to some place   *)
(* have no most specific one, though a later one be more specific than all *)
(* (analyze_scalar_expression.cpp:1553).  So whether a function is found   *)
(* depends on the order in which a schema lists its functions, unless any  *)
(* two of them can be compared: then none is refused.                      *)
AmbiguityExact ==
    pc = "done" =>
        ( answer = "ambiguous" <=> \E n \in DOMAIN candidates : ~Decided(n) )

=============================================================================
