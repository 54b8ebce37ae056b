------------------------ MODULE MCOverloadResolution ------------------------
(* A chain of three types, and a fourth only the first is convertible to.  *)
EXTENDS OverloadResolution

CONSTANTS int4, int8, float8, text

MCTypes == {int4, int8, float8, text}
MCConvertible ==
    {<<t, t>> : t \in MCTypes} \cup
    {<<int4, int8>>, <<int8, float8>>, <<int4, float8>>, <<int4, text>>}

=============================================================================
