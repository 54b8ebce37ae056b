------------------------ MODULE MCStatementAnalyzer ------------------------
(***************************************************************************)
(* A table of three columns and a hidden one, with primary indexes on      *)
(* none, one, two or three of them; integers of 2, 3, 4 and 5 bits and     *)
(* decimals of two digits, so that both ends of every range are reached; a *)
(* search path of two schemas, where the second may hold two tables, one   *)
(* with a named primary index, or one table and an index, before the       *)
(* session; statements on privileges with up to three objects and users.   *)
(***************************************************************************)
EXTENDS StatementAnalyzer

CONSTANTS a, b, c, hidden

MCTable == <<a, hidden, b, c>>
MCExported == {a, b, c}
MCPrimaryKeys == {<<>>, <<hidden>>, <<a>>, <<c, a>>, <<b, c>>, <<a, hidden, b>>}

MCBits == [int1 |-> 2, int2 |-> 3, int4 |-> 4, int8 |-> 5]
MCIntegerPrecision == [int1 |-> 1, int2 |-> 2, int4 |-> 3, int8 |-> 4]
MCFloatPrecision == [float4 |-> 2, float8 |-> 3]

MCSizes == {Absent, Flexible} \cup (0..(MaxSize + 1))
MCTypeSyntaxes ==
    [kind : {"character", "octet"}, varying : BOOLEAN, length : MCSizes]
    \cup [kind : {"decimal"}, precision : MCSizes, scale : MCSizes]
    \cup [kind : {"binary_integer", "binary_float"}, precision : MCSizes]
    \cup [kind : {"integer", "big_integer", "boolean", "timestamp", "user_defined"}]

Number(signs, coefficient, scale) == [signs |-> signs, coefficient |-> coefficient, scale |-> scale]
MCDefaultNumbers ==
    {Number(signs, coefficient, scale) :
        signs \in {<<>>, <<"plus">>, <<"minus">>, <<"minus", "minus">>},
        coefficient \in {0, 2, 4, 8, 9, 15, 16, 17, 99, 100}, scale \in 0..3}
MCSequenceNumbers ==
    {Number(<<>>, 2, 0), Number(<<"minus">>, 1, 0), Number(<<"minus">>, 9, 0),
     Number(<<>>, 0, 0), Number(<<>>, 50, 1), Number(<<>>, 51, 1)}

MCSchemaPath == <<"main", "other">>
MCTableColumnSets == {{"c"}, {"c", "d"}}
MCOther == [schema |-> "other", name |-> "t", columns |-> {"c"}]
MCInitialCatalogs ==
    {[tables |-> {}, indexes |-> {}],
     [tables |-> {MCOther},
      indexes |-> {PrimaryOf(MCOther),
                   [schema |-> "other", name |-> "i", table |-> MCOther, primary |-> FALSE]}],
     [tables |-> {MCOther, [MCOther EXCEPT !.name = "u"]},
      indexes |-> {[PrimaryOf(MCOther) EXCEPT !.name = "i"], PrimaryOf([MCOther EXCEPT !.name = "u"])}]}

UpTo(n, set) == UNION {[1..length -> set] : length \in 0..n}
MCObjects == [kind : {"table"}, name : {"t", "u", "unknown"}] \cup [kind : {"schema"}, name : {"t"}]
MCUsers == [kind : {"identifier"}, name : {"alice", "bob"}]
           \cup [kind : {"public", "all_users", "current_user"}, name : {""}]
MCPrivilegeRequests ==
    [revoke : BOOLEAN, actions : {<<>>, <<"select">>, <<"all_privileges", "update">>, <<"other">>},
     objects : UpTo(3, MCObjects), users : UpTo(3, MCUsers)]

=============================================================================
