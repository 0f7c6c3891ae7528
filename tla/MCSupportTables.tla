-------------------------- MODULE MCSupportTables --------------------------
(* Model checking of SupportTables: four features of five shapes.           *)
EXTENDS SupportTables

\* Bars and corners.
Shape == {{<<1, 0>>, <<2, 0>>}, {<<3, 0>>, <<3, 1>>}, {<<0, 1>>, <<0, 2>>, <<1, 2>>},
          {<<1, 1>>, <<2, 1>>, <<2, 2>>}, {<<1, 2>>, <<2, 2>>, <<3, 2>>}}

Coded(shapes, initial, final) ==
    [f \in Fid |-> [geom |-> shapes[f], du |-> 1 + (f % 2), initial |-> initial[f], final |-> final[f]]]

\* Every way to lay different shapes, some of which overlap; one code
\* initially and two codes finally.
MCLayer ==
    LET laid == {s \in [Fid -> Shape] : \A f, g \in Fid : f # g => s[f] # s[g]}
    IN  {Coded(s, [f \in Fid |-> 1], [f \in Fid |-> f % 2]) : s \in laid}

\* A unit with a jagged border and a bar beyond the features.
MCBoundary ==
    {{[du |-> 1, geom |-> ((0 .. 3) \X (0 .. 1)) \union {<<0, 2>>, <<2, 2>>}],
      [du |-> 2, geom |-> ((0 .. 4) \X {3}) \union {<<1, 2>>, <<3, 2>>}]}}

MCAsks == {<<"neighbour", "gap", "marginal", "change">>, <<"marginal", "gap">>}

=============================================================================
