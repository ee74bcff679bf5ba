------------------------- MODULE MCRequestLifecycle --------------------------
(* TLC instances of RequestLifecycle.                                       *)
EXTENDS RequestLifecycle, TLC

CONSTANTS get, put, post

\* GET and PUT have names of one length, as many methods do; POST is longer.
MCMethod == {get, put, post}
MCLength == [m \in MCMethod |-> IF m = post THEN 4 ELSE 3]

\* Nothing tells apart two conns, two contexts, two values or the two methods
\* of one length.
Symmetry ==
  Permutations(Conn) \cup Permutations(Ctx) \cup Permutations(Val) \cup Permutations({get, put})
=============================================================================
