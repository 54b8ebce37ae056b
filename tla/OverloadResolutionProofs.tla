---------------------- MODULE OverloadResolutionProofs ----------------------
(***************************************************************************)
(* A declaration that the single pass of resolve_overload() finds is the   *)
(* most specific one, whatever the types, the search path and the order in *)
(* which the declarations come.  Whether it finds one may depend on that   *)
(* order.                                                                  *)
(***************************************************************************)
EXTENDS OverloadResolution, FiniteSetTheorems, TLAPS

(* A function on 1..n is a sequence.                                       *)
LEMMA FunctionIsSequence ==
    ASSUME NEW S, NEW n \in Nat, NEW f \in [1..n -> S]
    PROVE  f \in Seq(S)
OBVIOUS

(* A list up to some length is a sequence.                                 *)
LEMMA ListsAreSequences ==
    ASSUME NEW S, NEW n \in Nat
    PROVE  Lists(S, n) \subseteq Seq(S)
<1>1. SUFFICES ASSUME NEW s \in Lists(S, n)
               PROVE  s \in Seq(S)
    OBVIOUS
<1>2. PICK k \in 0..n : s \in [1..k -> S]
    BY DEF Lists
<1>3. QED
    BY <1>2

(* The inputs are what TypeOK says.                                        *)
LEMMA InitialInputs ==
    ASSUME Init
    PROVE  /\ path \in Seq(Seq(Declaration))
           /\ arguments \in Seq(Types)
<1>1. SignaturesUpTo(MaxArguments) \subseteq Declaration
    <2>1. Lists(Types, MaxArguments) \subseteq Seq(Types)
        BY ListsAreSequences, OverloadBoundsAssumption
    <2>2. QED
        BY <2>1 DEF SignaturesUpTo, Declaration
<1>2. Lists(SignaturesUpTo(MaxArguments), MaxFunctions) \subseteq Seq(Declaration)
    <2>1. Lists(SignaturesUpTo(MaxArguments), MaxFunctions)
              \subseteq Seq(SignaturesUpTo(MaxArguments))
        BY ListsAreSequences, OverloadBoundsAssumption
    <2>2. Seq(SignaturesUpTo(MaxArguments)) \subseteq Seq(Declaration)
        BY <1>1
    <2>3. QED
        BY <2>1, <2>2
<1>3. path \in Seq(Seq(Declaration))
    <2>1. path \in Seq(Lists(SignaturesUpTo(MaxArguments), MaxFunctions))
        BY ListsAreSequences, OverloadBoundsAssumption DEF Init
    <2>2. Seq(Lists(SignaturesUpTo(MaxArguments), MaxFunctions))
              \subseteq Seq(Seq(Declaration))
        BY <1>2
    <2>3. QED
        BY <2>1, <2>2
<1>4. arguments \in Seq(Types)
    BY ListsAreSequences, OverloadBoundsAssumption DEF Init
<1>5. QED
    BY <1>3, <1>4

(* Applicability of parameter lists is transitive, because that of types   *)
(* is.                                                                     *)
LEMMA ApplicableTransitive ==
    ASSUME NEW a \in Seq(Types), NEW b \in Seq(Types), NEW c \in Seq(Types),
           IsApplicable(a, b), IsApplicable(b, c)
    PROVE  IsApplicable(a, c)
<1>1. Len(a) = Len(b) /\ Len(b) = Len(c)
    BY DEF IsApplicable
<1>2. ASSUME NEW i \in DOMAIN a
      PROVE  <<a[i], c[i]>> \in Convertible
    <2>1. i \in DOMAIN b /\ i \in DOMAIN c
        BY <1>1
    <2>2. a[i] \in Types /\ b[i] \in Types /\ c[i] \in Types
        BY <2>1
    <2>3. <<a[i], b[i]>> \in Convertible /\ <<b[i], c[i]>> \in Convertible
        BY <2>1 DEF IsApplicable
    <2>4. QED
        BY <2>2, <2>3, ConvertibleAssumption
<1>3. QED
    BY <1>1, <1>2 DEF IsApplicable

(* A place names a declaration.                                            *)
LEMMA PlaceNamesDeclaration ==
    ASSUME path \in Seq(Seq(Declaration)), NEW p \in Places
    PROVE  At(p).parameters \in Seq(Types)
<1>1. p[1] \in 1..Len(path)
    BY OverloadBoundsAssumption DEF Places
<1>2. path[p[1]] \in Seq(Declaration)
    BY <1>1
<1>3. p[2] \in 1..Len(path[p[1]])
    BY OverloadBoundsAssumption DEF Places
<1>4. path[p[1]][p[2]] \in Declaration
    BY <1>2, <1>3
<1>5. QED
    BY <1>4 DEF At, Declaration

(* So is being strictly more specific.                                     *)
LEMMA MoreSpecificTransitive ==
    ASSUME path \in Seq(Seq(Declaration)),
           NEW p \in Places, NEW q \in Places, NEW r \in Places,
           MoreSpecific(p, q), MoreSpecific(q, r)
    PROVE  MoreSpecific(p, r)
<1>1. /\ At(p).parameters \in Seq(Types)
      /\ At(q).parameters \in Seq(Types)
      /\ At(r).parameters \in Seq(Types)
    BY PlaceNamesDeclaration
<1>2. IsApplicable(At(p).parameters, At(r).parameters)
    BY <1>1, ApplicableTransitive DEF MoreSpecific
<1>3. ~IsApplicable(At(r).parameters, At(p).parameters)
    <2>1. SUFFICES ASSUME IsApplicable(At(r).parameters, At(p).parameters)
                   PROVE  FALSE
        OBVIOUS
    <2>2. IsApplicable(At(r).parameters, At(q).parameters)
        BY <1>1, <2>1, ApplicableTransitive DEF MoreSpecific
    <2>3. QED
        BY <2>2 DEF MoreSpecific
<1>4. QED
    BY <1>2, <1>3 DEF MoreSpecific

(* The places of a search path are finitely many.                          *)
LEMMA PlacesFinite == \A s : IsFiniteSet(InSchema(s))
<1>1. IsFiniteSet(1..MaxSchemas) /\ IsFiniteSet(1..MaxFunctions)
    BY FS_Interval, OverloadBoundsAssumption
<1>2. IsFiniteSet((1..MaxSchemas) \X (1..MaxFunctions))
    BY <1>1, FS_Product
<1>3. \A s : InSchema(s) \subseteq (1..MaxSchemas) \X (1..MaxFunctions)
    BY DEF InSchema, Places
<1>4. QED
    BY <1>2, <1>3, FS_Subset

-----------------------------------------------------------------------------
(* The input is never touched, and every step keeps to its types.          *)
LEMMA TypeInvariance == Spec => []TypeOK
<1>1. ASSUME Init PROVE TypeOK
    <2>1. path \in Seq(Seq(Declaration)) /\ arguments \in Seq(Types)
        BY <1>1, InitialInputs
    <2>2. wanted \in Kinds
        BY <1>1 DEF Init, WantedFirst, Kinds, Callers
    <2>3. schema \in 1..(Len(path) + 1)
        BY <1>1, <2>1 DEF Init
    <2>4. QED
        BY <1>1, <2>1, <2>2, <2>3 DEF TypeOK, Init, Outcomes
<1>2. TypeOK /\ [Next]_vars => TypeOK'
    <2> SUFFICES ASSUME TypeOK, [Next]_vars
                 PROVE  TypeOK'
        OBVIOUS
    <2> USE DEF TypeOK
    <2>1. CASE Collect
        <3>1. UNCHANGED <<path, arguments, caller, wanted, candidates, left,
                          right, answer>>
            BY <2>1 DEF Collect, input
        <3>2. Places' = Places
            BY <3>1 DEF Places
        <3>3. CASE UNCHANGED <<schema, listed>> /\ pc' = "select"
            BY <3>1, <3>2, <3>3
        <3>4. CASE /\ ~(schema > Len(path))
                   /\ \E order \in Orders(InSchema(schema)) :
                          listed' = listed \o order
                   /\ schema' = schema + 1
                   /\ UNCHANGED pc
            <4>1. PICK order \in Orders(InSchema(schema)) :
                      listed' = listed \o order
                BY <3>4
            <4>2. Cardinality(InSchema(schema)) \in Nat
                BY PlacesFinite, FS_CardinalityType
            <4>3. order \in Seq(Places)
                <5>1. InSchema(schema) \subseteq Places
                    BY DEF InSchema
                <5>2. order \in [1..Cardinality(InSchema(schema)) -> Places]
                    BY <5>1 DEF Orders
                <5>3. QED
                    BY <4>2, <5>2, FunctionIsSequence
            <4>4. listed' \in Seq(Places)
                BY <4>1, <4>3
            <4>5. schema' \in 1..(Len(path) + 1)
                BY <3>4
            <4>6. QED
                BY <3>1, <3>2, <3>4, <4>4, <4>5
        <3>5. QED
            BY <2>1, <3>3, <3>4 DEF Collect
    <2>2. CASE Filter
        <3>1. Places' = Places
            BY <2>2 DEF Filter, input, Places
        <3>2. Head(listed) \in Places /\ Tail(listed) \in Seq(Places)
            BY <2>2 DEF Filter
        <3>3. candidates' \in Seq(Places)
            BY <2>2, <3>2 DEF Filter
        <3>4. QED
            BY <2>2, <3>1, <3>2, <3>3 DEF Filter, input
    <2>3. CASE Select
        <3>1. Places' = Places
            BY <2>3 DEF Select, input, Places
        <3>2. UNCHANGED <<path, arguments, caller, listed, candidates>>
            BY <2>3 DEF Select, input, StartComparing
        <3>3. CASE candidates # <<>> /\ StartComparing
            <4>1. 1 \in DOMAIN candidates /\ 1 < 2
                BY <3>3
            <4>2. QED
                BY <3>1, <3>2, <3>3, <4>1 DEF StartComparing
        <3>4. CASE /\ wanted' = "aggregate" /\ schema' = 1 /\ pc' = "collect"
                   /\ UNCHANGED <<left, right, answer>>
            BY <3>1, <3>2, <3>4 DEF Kinds
        <3>5. CASE /\ answer' = "not found" /\ pc' = "done"
                   /\ UNCHANGED <<wanted, schema, left, right>>
            BY <3>1, <3>2, <3>5 DEF Outcomes
        <3>6. QED
            BY <2>3, <3>3, <3>4, <3>5 DEF Select
    <2>4. CASE Compare
        <3>1. Places' = Places
            BY <2>4 DEF Compare, input, Places
        <3>2. right \in DOMAIN candidates
            BY <2>4 DEF Compare
        <3>3. left' \in Nat /\ right' \in Nat
            BY <2>4 DEF Compare
        <3>4. (left' \in DOMAIN candidates /\ left' < right') \/ pc' = "done"
            BY <2>4, <3>2 DEF Compare
        <3>5. QED
            BY <2>4, <3>1, <3>3, <3>4 DEF Compare, input, Outcomes
    <2>5. CASE Choose
        BY <2>5 DEF Choose, input, Places
    <2>6. CASE UNCHANGED vars
        BY <2>6 DEF vars, Places
    <2>7. QED
        BY <2>1, <2>2, <2>3, <2>4, <2>5, <2>6 DEF Next
<1>3. QED
    BY <1>1, <1>2, PTL DEF Spec


(* For every set of types with a reflexive and transitive conversion, every*)
(* search path and every order of the declarations: the declaration that   *)
(* resolve_overload() keeps is more specific than all those before the one *)
(* to come.                                                                *)
THEOREM KeptIsMostSpecific == Spec => []KeptMostSpecific
<1>1. Init => KeptMostSpecific
    BY DEF Init, KeptMostSpecific
<1>2. TypeOK /\ TypeOK' /\ KeptMostSpecific /\ [Next]_vars => KeptMostSpecific'
    <2> SUFFICES ASSUME TypeOK, TypeOK', KeptMostSpecific, [Next]_vars
                 PROVE  KeptMostSpecific'
        OBVIOUS
    <2>1. CASE Collect
        BY <2>1 DEF Collect, KeptMostSpecific
    <2>2. CASE Filter
        BY <2>2 DEF Filter, KeptMostSpecific
    <2>3. CASE Select
        <3>1. pc' = "compare" => left' = 1 /\ right' = 2
            BY <2>3 DEF Select, StartComparing
        <3>2. QED
            BY <3>1 DEF KeptMostSpecific
    <2>4. CASE Compare
        <3>1. SUFFICES ASSUME pc' = "compare",
                              NEW k \in 1..(right' - 1), k # left'
                       PROVE  MoreSpecific(candidates[left], candidates[k])'
            BY DEF KeptMostSpecific
        <3>2. /\ pc = "compare" /\ right <= Len(candidates)
              /\ (Forward /\ ~Reverse) \/ (~Forward /\ Reverse)
              /\ left' = IF Reverse THEN right ELSE left
              /\ right' = right + 1
              /\ UNCHANGED <<path, candidates>>
            <4>1. Forward \in BOOLEAN /\ Reverse \in BOOLEAN
                BY DEF Forward, Reverse, IsApplicable
            <4>2. QED
                BY <2>4, <3>1, <4>1 DEF Compare, input
        <3>3. /\ left \in DOMAIN candidates
              /\ left < right
              /\ right \in DOMAIN candidates
              /\ k \in DOMAIN candidates
            BY <3>1, <3>2 DEF TypeOK
        <3>4. /\ candidates[left] \in Places
              /\ candidates[right] \in Places
              /\ candidates[k] \in Places
            <4>1. candidates \in Seq(Places)
                BY DEF TypeOK
            <4>2. QED
                BY <3>3, <4>1
        <3>5. SUFFICES MoreSpecific(candidates[left'], candidates[k])
            BY <3>2 DEF MoreSpecific, At
        <3>6. CASE Reverse
            <4>1. MoreSpecific(candidates[right], candidates[left])
                BY <3>2, <3>6 DEF Forward, Reverse, MoreSpecific
            <4>2. CASE k = left
                BY <3>2, <3>6, <4>1, <4>2
            <4>3. CASE k # left
                <5>1. MoreSpecific(candidates[left], candidates[k])
                    <6>1. k \in 1..(right - 1)
                        BY <3>1, <3>2, <3>3, <3>6
                    <6>2. QED
                        BY <3>2, <4>3, <6>1 DEF KeptMostSpecific
                <5>2. MoreSpecific(candidates[right], candidates[k])
                    BY <3>4, <4>1, <5>1, MoreSpecificTransitive DEF TypeOK
                <5>3. QED
                    BY <3>2, <3>6, <5>2
            <4>4. QED
                BY <4>2, <4>3
        <3>7. CASE ~Reverse
            <4>1. MoreSpecific(candidates[left], candidates[right])
                BY <3>2, <3>7 DEF Forward, Reverse, MoreSpecific
            <4>2. CASE k = right
                BY <3>2, <3>7, <4>1, <4>2
            <4>3. CASE k # right
                <5>1. k \in 1..(right - 1) /\ k # left
                    BY <3>1, <3>2, <3>3, <3>7, <4>3
                <5>2. QED
                    BY <3>2, <3>7, <5>1 DEF KeptMostSpecific
            <4>4. QED
                BY <4>2, <4>3
        <3>8. QED
            BY <3>6, <3>7
    <2>5. CASE Choose
        BY <2>5 DEF Choose, KeptMostSpecific
    <2>6. CASE UNCHANGED vars
        BY <2>6 DEF vars, KeptMostSpecific, MoreSpecific, At
    <2>7. QED
        BY <2>1, <2>2, <2>3, <2>4, <2>5, <2>6 DEF Next
<1>3. QED
    BY <1>1, <1>2, TypeInvariance, PTL DEF Spec

(* Hence the function an invocation gets is more specific than every other *)
(* candidate: there is no other one the same candidates could have given.  *)
THEOREM ChosenIsMostSpecific == Spec => []MostSpecific
<1>1. Init => MostSpecific
    BY DEF Init, MostSpecific
<1>2. TypeOK /\ KeptMostSpecific /\ MostSpecific /\ [Next]_vars => MostSpecific'
    <2> SUFFICES ASSUME TypeOK, KeptMostSpecific, MostSpecific, [Next]_vars
                 PROVE  MostSpecific'
        OBVIOUS
    <2>1. CASE Collect
        BY <2>1 DEF Collect, MostSpecific
    <2>2. CASE Filter
        BY <2>2 DEF Filter, MostSpecific
    <2>3. CASE Select
        BY <2>3 DEF Select, StartComparing, MostSpecific, Outcomes
    <2>4. CASE Compare
        BY <2>4 DEF Compare, MostSpecific, Outcomes
    <2>5. CASE Choose
        <3>1. /\ answer' = candidates[left]
              /\ right > Len(candidates)
              /\ pc = "compare"
              /\ UNCHANGED <<path, candidates>>
            BY <2>5 DEF Choose, input
        <3>2. SUFFICES ASSUME NEW k \in DOMAIN candidates,
                              candidates[k] # candidates[left]
                       PROVE  MoreSpecific(candidates[left], candidates[k])
            BY <3>1 DEF MostSpecific, MoreSpecific, At
        <3>3. k \in 1..(right - 1) /\ k # left
            BY <3>1, <3>2 DEF TypeOK
        <3>4. QED
            BY <3>1, <3>3 DEF KeptMostSpecific
    <2>6. CASE UNCHANGED vars
        BY <2>6 DEF vars, MostSpecific, MoreSpecific, At
    <2>7. QED
        BY <2>1, <2>2, <2>3, <2>4, <2>5, <2>6 DEF Next
<1>3. QED
    BY <1>1, <1>2, TypeInvariance, KeptIsMostSpecific, PTL DEF Spec

-----------------------------------------------------------------------------
(* Every candidate fits, and a function that is chosen is a candidate.     *)
Accepted ==
    CASE caller = "function" -> {"scalar", "aggregate"}
      [] caller = "apply" -> {"table"}
      [] caller = "builtin" -> {"scalar"}
      [] caller = "set_function" -> {"aggregate"}
AllFit == \A k \in DOMAIN candidates : Fits(candidates[k])
Fitting ==
    /\ wanted \in Accepted
    /\ AllFit
    /\ pc # "done" => answer = "none"
    /\ pc = "done" /\ answer \notin Outcomes =>
          \E k \in DOMAIN candidates : answer = candidates[k]

LEMMA FittingInvariance == Spec => []Fitting
<1>1. TypeOK /\ Init => Fitting
    BY DEF Init, Fitting, AllFit, Accepted, WantedFirst, TypeOK, Callers
<1>2. TypeOK /\ Fitting /\ [Next]_vars => Fitting'
    <2> SUFFICES ASSUME TypeOK, Fitting, [Next]_vars
                 PROVE  Fitting'
        OBVIOUS
    <2>1. ASSUME UNCHANGED <<path, arguments, caller, wanted>>,
                 \A k \in DOMAIN candidates' : Fits(candidates'[k])
          PROVE  wanted' \in Accepted' /\ AllFit'
        BY <2>1 DEF Fitting, Accepted, AllFit, Fits, At
    <2> \A k \in DOMAIN candidates : Fits(candidates[k])
        BY DEF Fitting, AllFit
    <2>2. CASE Collect
        BY <2>1, <2>2 DEF Collect, input, Fitting
    <2>3. CASE Filter
        <3>1. /\ UNCHANGED <<path, arguments, caller, wanted, pc, answer>>
              /\ candidates \in Seq(Places) /\ pc # "done"
            BY <2>3 DEF Filter, input, TypeOK
        <3>2. CASE candidates' = candidates
            BY <2>1, <3>1, <3>2 DEF Fitting
        <3>3. CASE Fits(Head(listed)) /\ candidates' = Append(candidates, Head(listed))
            <4>1. \A k \in DOMAIN candidates' : Fits(candidates'[k])
                <5>1. \A k \in DOMAIN candidates' :
                          \/ k \in DOMAIN candidates /\ candidates'[k] = candidates[k]
                          \/ candidates'[k] = Head(listed)
                    BY <3>1, <3>3
                <5>2. QED
                    BY <3>3, <5>1
            <4>2. QED
                BY <2>1, <3>1, <4>1 DEF Fitting
        <3>4. QED
            BY <2>3, <3>2, <3>3 DEF Filter
    <2>4. CASE Select
        <3>1. UNCHANGED <<path, arguments, caller, candidates>> /\ pc # "done"
            BY <2>4 DEF Select, input, StartComparing
        <3>2. CASE candidates # <<>> /\ StartComparing
            BY <2>1, <3>1, <3>2 DEF StartComparing, Fitting
        <3>3. CASE /\ candidates = <<>> /\ caller = "function" /\ wanted' = "aggregate"
                   /\ pc' = "collect" /\ UNCHANGED answer
            BY <3>1, <3>3 DEF Fitting, Accepted, AllFit
        <3>4. CASE answer' = "not found" /\ pc' = "done" /\ UNCHANGED wanted
            BY <2>1, <3>1, <3>4 DEF Fitting, Outcomes
        <3>5. QED
            BY <2>4, <3>2, <3>3, <3>4 DEF Select
    <2>5. CASE Compare
        BY <2>1, <2>5 DEF Compare, input, Fitting, Outcomes
    <2>6. CASE Choose
        <3>1. left \in DOMAIN candidates /\ answer' = candidates[left] /\ candidates' = candidates
              /\ pc' = "done"
            BY <2>6 DEF Choose, TypeOK
        <3>2. QED
            BY <2>1, <2>6, <3>1 DEF Choose, input, Fitting
    <2>7. CASE UNCHANGED vars
        BY <2>1, <2>7 DEF vars, Fitting
    <2>8. QED
        BY <2>2, <2>3, <2>4, <2>5, <2>6, <2>7 DEF Next
<1>3. QED
    BY <1>1, <1>2, TypeInvariance, PTL DEF Spec

(* The searches that stop at the first schema with the name have found     *)
(* nothing before it.                                                      *)
Nearest(s) == \A t \in 1..(s - 1) : InSchema(t) = {}
Near ==
    caller \in {"function", "apply"} =>
        /\ \A k \in DOMAIN listed : Nearest(listed[k][1])
        /\ \A k \in DOMAIN candidates : Nearest(candidates[k][1])
        /\ pc = "collect" /\ listed = <<>> => Nearest(schema)

LEMMA NearInvariance == Spec => []Near
<1>1. Init => Near
    BY DEF Init, Near, Nearest
<1>2. TypeOK /\ Near /\ [Next]_vars => Near'
    <2> SUFFICES ASSUME TypeOK, Near, [Next]_vars, caller' \in {"function", "apply"}
                 PROVE  Near'
        BY DEF Near
    <2>1. /\ caller' = caller /\ caller \in {"function", "apply"}
          /\ listed \in Seq(Places) /\ candidates \in Seq(Places)
        BY DEF Next, Collect, Filter, Select, StartComparing, Compare, Choose, input, vars, TypeOK
    <2>2. /\ \A k \in DOMAIN listed : Nearest(listed[k][1])
          /\ \A k \in DOMAIN candidates : Nearest(candidates[k][1])
          /\ pc = "collect" /\ listed = <<>> => Nearest(schema)
        BY <2>1 DEF Near
    <2>3. ASSUME UNCHANGED <<path, arguments, wanted>>,
                 \A k \in DOMAIN listed' : Nearest(listed'[k][1]),
                 \A k \in DOMAIN candidates' : Nearest(candidates'[k][1]),
                 pc' = "collect" /\ listed' = <<>> => Nearest(schema')
          PROVE  Near'
        <3>1. \A t : InSchema(t)' = InSchema(t)
            BY <2>3 DEF InSchema, Places, At, Provided
        <3>2. QED
            BY <2>3, <3>1 DEF Near, Nearest
    <2>4. CASE Collect
        <3>1. UNCHANGED <<path, arguments, wanted, candidates>>
            BY <2>4 DEF Collect, input
        <3>2. CASE UNCHANGED <<schema, listed>> /\ pc' = "select"
            BY <2>2, <2>3, <3>1, <3>2
        <3>3. CASE /\ listed = <<>> /\ pc = "collect" /\ pc' = "collect"
                   /\ \E order \in Orders(InSchema(schema)) : listed' = listed \o order
                   /\ schema' = schema + 1
            <4>1. PICK order \in Orders(InSchema(schema)) : listed' = listed \o order
                BY <3>3
            <4>2. Cardinality(InSchema(schema)) \in Nat /\ IsFiniteSet(InSchema(schema))
                BY PlacesFinite, FS_CardinalityType
            <4>3. order \in [1..Cardinality(InSchema(schema)) -> InSchema(schema)]
                BY DEF Orders
            <4>4. order \in Seq(InSchema(schema)) /\ Len(order) = Cardinality(InSchema(schema))
                BY <4>2, <4>3
            <4>5. listed' = order
                BY <3>3, <4>1, <4>4
            <4>6. Nearest(schema)
                BY <2>2, <3>3
            <4>7. \A k \in DOMAIN listed' : listed'[k][1] = schema
                BY <4>3, <4>5 DEF InSchema
            <4>8. ASSUME listed' = <<>>
                  PROVE  Nearest(schema')
                <5>1. InSchema(schema) = {}
                    BY <4>2, <4>4, <4>5, <4>8, FS_EmptySet
                <5>2. schema \in Nat /\ schema' = schema + 1
                    BY <3>3 DEF TypeOK
                <5>3. \A t \in 1..(schema' - 1) : t \in 1..(schema - 1) \/ t = schema
                    BY <5>2
                <5>4. QED
                    BY <4>6, <5>1, <5>3 DEF Nearest
            <4>9. QED
                BY <2>2, <2>3, <3>1, <3>3, <4>6, <4>7, <4>8
        <3>4. QED
            BY <2>1, <2>4, <3>2, <3>3 DEF Collect
    <2>5. CASE Filter
        <3>1. UNCHANGED <<path, arguments, wanted, pc>> /\ pc = "select" /\ listed # <<>>
            BY <2>5 DEF Filter, input
        <3>2. Len(listed) \in Nat /\ 1 \in DOMAIN listed /\ Head(listed) = listed[1]
            BY <2>1, <3>1
        <3>3. \A k \in DOMAIN Tail(listed) : k + 1 \in DOMAIN listed /\ Tail(listed)[k] = listed[k + 1]
            BY <2>1, <3>1
        <3>4. \A k \in DOMAIN listed' : Nearest(listed'[k][1])
            BY <2>2, <2>5, <3>3 DEF Filter
        <3>5. \A k \in DOMAIN candidates' : Nearest(candidates'[k][1])
            <4>1. CASE candidates' = candidates
                BY <2>2, <4>1
            <4>2. CASE candidates' = Append(candidates, Head(listed))
                <5>1. \A k \in DOMAIN candidates' :
                          \/ k \in DOMAIN candidates /\ candidates'[k] = candidates[k]
                          \/ candidates'[k] = listed[1]
                    BY <2>1, <3>2, <4>2
                <5>2. QED
                    BY <2>2, <3>2, <5>1
            <4>3. QED
                BY <2>5, <4>1, <4>2 DEF Filter
        <3>6. QED
            BY <2>3, <3>1, <3>4, <3>5
    <2>6. CASE Select
        <3>1. UNCHANGED <<path, arguments, listed, candidates>> /\ listed = <<>>
            BY <2>6 DEF Select, input, StartComparing
        <3>2. CASE UNCHANGED wanted /\ pc' # "collect"
            BY <2>2, <2>3, <3>1, <3>2
        <3>3. CASE candidates = <<>> /\ schema' = 1
            BY <3>1, <3>3 DEF Near, Nearest
        <3>4. QED
            BY <2>6, <3>2, <3>3 DEF Select, StartComparing
    <2>7. CASE Compare \/ Choose
        BY <2>2, <2>3, <2>7 DEF Compare, Choose, input
    <2>8. CASE UNCHANGED vars
        BY <2>2, <2>3, <2>8 DEF vars
    <2>9. QED
        BY <2>4, <2>5, <2>6, <2>7, <2>8 DEF Next
<1>3. QED
    BY <1>1, <1>2, TypeInvariance, PTL DEF Spec

(* A chosen function takes the arguments, is of a kind the form of the     *)
(* invocation accepts, and is hidden by no schema before its own.          *)
THEOREM ChosenIsAcceptable == Spec => []Acceptable
<1>1. TypeOK /\ Fitting /\ Near => Acceptable
    <2> SUFFICES ASSUME TypeOK, Fitting, Near, pc = "done", answer \notin Outcomes
                 PROVE  /\ IsApplicable(arguments, At(answer).parameters)
                        /\ At(answer).kind \in Accepted
                        /\ caller \in {"function", "apply"} =>
                              \A s \in 1..(answer[1] - 1) : InSchema(s) = {}
        BY DEF Acceptable, Accepted
    <2>1. PICK k \in DOMAIN candidates : answer = candidates[k]
        BY DEF Fitting
    <2>2. Fits(answer) /\ wanted \in Accepted
        BY <2>1 DEF Fitting, AllFit
    <2>3. caller \in {"function", "apply"} => Nearest(answer[1])
        BY <2>1 DEF Near
    <2>4. QED
        BY <2>2, <2>3 DEF Fits, Nearest
<1>2. QED
    BY <1>1, TypeInvariance, FittingInvariance, NearInvariance, PTL

(* The candidates that were passed over had a most specific one at every   *)
(* place, since the declaration kept was it.                               *)
DecidedSoFar == pc = "compare" => \A n \in 1..(right - 1) : Decided(n)

LEMMA DecidedInvariance == Spec => []DecidedSoFar
<1>1. Init => DecidedSoFar
    BY DEF Init, DecidedSoFar
<1>2. TypeOK /\ TypeOK' /\ KeptMostSpecific' /\ DecidedSoFar /\ [Next]_vars => DecidedSoFar'
    <2> SUFFICES ASSUME TypeOK, TypeOK', KeptMostSpecific', DecidedSoFar, [Next]_vars
                 PROVE  DecidedSoFar'
        OBVIOUS
    <2>1. CASE Collect \/ Filter \/ Choose
        BY <2>1 DEF Collect, Filter, Choose, DecidedSoFar
    <2>2. CASE Select
        <3>1. pc' = "compare" => right' = 2
            BY <2>2 DEF Select, StartComparing
        <3>2. Decided(1)'
            BY DEF Decided
        <3>3. \A n \in 1..(2 - 1) : n = 1
            OBVIOUS
        <3>4. QED
            BY <3>1, <3>2, <3>3 DEF DecidedSoFar
    <2>3. CASE Compare
        <3>1. SUFFICES ASSUME pc' = "compare", NEW n \in 1..(right' - 1)
                       PROVE  Decided(n)'
            BY DEF DecidedSoFar
        <3>2. pc = "compare" /\ right' = right + 1 /\ UNCHANGED <<path, candidates>>
            BY <2>3, <3>1 DEF Compare, input
        <3>3. right \in Nat /\ left' \in Nat /\ 1 <= left' /\ left' < right'
            BY <3>1, <3>2 DEF TypeOK
        <3>4. CASE n = right
            <4>1. 1..(right' - 1) = 1..n /\ left' \in 1..n
                BY <3>2, <3>3, <3>4
            <4>2. \A l \in (1..n) \ {left'} : MoreSpecific(candidates[left], candidates[l])'
                BY <3>1, <4>1 DEF KeptMostSpecific
            <4>3. QED
                BY <4>1, <4>2 DEF Decided, MoreSpecific, At
        <3>5. CASE n # right
            <4>1. n \in 1..(right - 1)
                BY <3>2, <3>3, <3>5
            <4>2. Decided(n)
                BY <3>2, <4>1 DEF DecidedSoFar
            <4>3. QED
                BY <3>2, <4>2 DEF Decided, MoreSpecific, At
        <3>6. QED
            BY <3>4, <3>5
    <2>4. CASE UNCHANGED vars
        BY <2>4 DEF vars, DecidedSoFar, Decided, MoreSpecific, At
    <2>5. QED
        BY <2>1, <2>2, <2>3, <2>4 DEF Next
<1>3. QED
    BY <1>1, <1>2, TypeInvariance, KeptIsMostSpecific, PTL DEF Spec

(* An ambiguity is reported exactly when the candidates up to some place   *)
(* have no most specific one, although the pass compares each with one     *)
(* other only.                                                             *)
THEOREM AmbiguityIsReal == Spec => []AmbiguityExact
<1>1. Init => AmbiguityExact
    BY DEF Init, AmbiguityExact
<1>2. TypeOK /\ KeptMostSpecific /\ DecidedSoFar /\ AmbiguityExact /\ [Next]_vars
          => AmbiguityExact'
    <2> SUFFICES ASSUME TypeOK, KeptMostSpecific, DecidedSoFar, AmbiguityExact,
                        [Next]_vars, pc' = "done"
                 PROVE  (answer = "ambiguous" <=> \E n \in DOMAIN candidates : ~Decided(n))'
        BY DEF AmbiguityExact
    <2>1. CASE Collect \/ Filter
        BY <2>1 DEF Collect, Filter
    <2>2. CASE Select
        <3>1. answer' = "not found" /\ candidates' = <<>>
            BY <2>2 DEF Select, StartComparing
        <3>2. DOMAIN << >> = {}
            OBVIOUS
        <3>3. ~\E n \in DOMAIN candidates' : ~Decided(n)'
            BY <3>1, <3>2
        <3>4. QED
            BY <3>1, <3>3
    <2>3. CASE Compare
        <3>1. /\ Forward = Reverse /\ UNCHANGED <<path, candidates>>
              /\ pc = "compare" /\ answer' = "ambiguous"
              /\ left \in DOMAIN candidates /\ left < right /\ right \in DOMAIN candidates
              /\ left \in 1..right /\ right \in 1..right
            BY <2>3 DEF Compare, input, TypeOK
        <3>2. ~Decided(right)
            <4> SUFFICES ASSUME NEW k \in 1..right,
                                \A l \in (1..right) \ {k} : MoreSpecific(candidates[k], candidates[l])
                         PROVE  FALSE
                BY DEF Decided
            <4>1. CASE k = left
                <5>1. MoreSpecific(candidates[left], candidates[right])
                    BY <3>1, <4>1
                <5>2. QED
                    BY <3>1, <5>1 DEF MoreSpecific, Forward, Reverse
            <4>2. CASE k = right
                <5>1. MoreSpecific(candidates[right], candidates[left])
                    BY <3>1, <4>2
                <5>2. QED
                    BY <3>1, <5>1 DEF MoreSpecific, Forward, Reverse
            <4>3. CASE k # left /\ k # right
                <5>1. MoreSpecific(candidates[k], candidates[left])
                    BY <3>1, <4>3
                <5>2. k \in 1..(right - 1)
                    BY <3>1, <4>3 DEF TypeOK
                <5>3. MoreSpecific(candidates[left], candidates[k])
                    BY <3>1, <4>3, <5>2 DEF KeptMostSpecific
                <5>4. QED
                    BY <5>1, <5>3 DEF MoreSpecific
            <4>4. QED
                BY <4>1, <4>2, <4>3
        <3>3. QED
            BY <3>1, <3>2 DEF Decided, MoreSpecific, At
    <2>4. CASE Choose
        <3>1. /\ candidates[left] \in Places /\ answer' = candidates[left]
              /\ pc = "compare" /\ right > Len(candidates) /\ UNCHANGED <<path, candidates>>
            BY <2>4 DEF Choose, input, TypeOK
        <3>2. answer' # "ambiguous"
            BY <3>1, OutcomesAssumption DEF Places, Outcomes
        <3>3. \A n \in DOMAIN candidates : n \in 1..(right - 1)
            BY <3>1 DEF TypeOK
        <3>4. \A n \in DOMAIN candidates : Decided(n)
            BY <3>1, <3>3 DEF DecidedSoFar
        <3>5. QED
            BY <3>1, <3>2, <3>4 DEF Decided, MoreSpecific, At
    <2>5. CASE UNCHANGED vars
        BY <2>5 DEF vars, AmbiguityExact, Decided, MoreSpecific, At
    <2>6. QED
        BY <2>1, <2>2, <2>3, <2>4, <2>5 DEF Next
<1>3. QED
    BY <1>1, <1>2, TypeInvariance, KeptIsMostSpecific, DecidedInvariance, PTL DEF Spec

=============================================================================
