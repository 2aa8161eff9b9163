------------------------------ MODULE MCRouter ------------------------------
(* An instance of Router for TLC. *)
EXTENDS Router

\* "/", "/a", "/a/" and "/ab"; the requests also ask for "/b" and "/a/b".
RoutePrefixes == {<<"/">>, <<"/", "a">>, <<"/", "a", "/">>, <<"/", "a", "b">>}
RequestPaths == RoutePrefixes \cup {<<"/", "b">>, <<"/", "a", "/", "b">>, <<"/", "a", "/", "/">>}
Methods == {"GET", "POST"}

Characters == {"/", "a", "b"}

\* A route for every method has three upstreams, or two if it keeps its prefix; one
\* for GET alone has one.
RouteOf(prefix, any, strip) ==
    [prefix |-> prefix, methods |-> IF any THEN {} ELSE {"GET"}, strip |-> strip,
     upstreams |-> IF ~any THEN 1 ELSE IF strip THEN 3 ELSE 2]

Routes == {RouteOf(p, any, TRUE) : p \in RoutePrefixes, any \in BOOLEAN}
            \cup {RouteOf(<<"/", "a">>, TRUE, FALSE)}

Lists == [1..3 -> Routes]
=============================================================================
