----------------------------- MODULE MCRouteTree ------------------------------
(* TLC instances of RouteTree: routes under /a and /b that share prefixes, with *)
(* static siblings of parameters, slashes at the end and catch-alls.            *)
EXTENDS RouteTree

MCPattern == {
  <<"/">>,
  <<"/", "a">>,
  <<"/", "a", "/">>,
  <<"/", "a", "b">>,
  <<"/", "a", "/", "b", "b">>,
  <<"/", "a", "/", "b", "a">>,
  <<"/", "a", "/", ":x">>,
  <<"/", "a", "/", ":y">>,
  <<"/", "a", "/", ":x", "/", "b">>,
  <<"/", "a", "b", "/", ":x", "/", ":y">>,
  <<"/", "a", "b", "/", "*w">>,
  <<"/", "a", ":x", "/", "b">>,
  <<"/", ":x", "/", "*w">>,
  <<"/", ":x", ":y">>,
  <<"/", "*w", "/", "a">>}

MCChar == {"/", "a", "b"}
MCParam == {":x", ":y"}
MCCatchAll == {"*w"}

\* Every path of up to six characters with no empty segment.
MCPath ==
  {q \in UNION {[1 .. n -> MCChar] : n \in 1 .. 6} :
     q[1] = "/" /\ \A i \in 1 .. Len(q) - 1 : <<q[i], q[i + 1]>> # <<"/", "/">>}
=============================================================================
