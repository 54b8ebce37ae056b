---------------------------- MODULE MCQueryPlan ----------------------------
(***************************************************************************)
(* Two columns, two set functions, and the expressions that tell the cases *)
(* of the engine apart.                                                    *)
(***************************************************************************)
EXTENDS QueryPlan

CONSTANTS a, b, count, sum

MCColumns == {a, b}
MCAsterisk == <<a, b>>
MCFunctions == {count, sum}

Over(columns) == [columns |-> columns, nested |-> FALSE]
Invoke(function, args) == [kind |-> "call", function |-> function, arguments |-> args]

MCExpressions ==
    { <<>>,
      <<Reference(a)>>,
      <<Reference(b)>>,
      <<Invoke(count, <<>>)>>,
      <<Invoke(sum, <<>>), Reference(a)>>,
      <<Invoke(count, <<>>), Invoke(sum, <<Over(<<a, b>>), Over(<<b>>)>>)>>,
      <<Invoke(sum, <<[columns |-> <<a>>, nested |-> TRUE]>>)>> }

=============================================================================
