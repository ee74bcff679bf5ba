------------------------------- MODULE MCCache -------------------------------
(* TLC instances of Cache.                                                   *)
EXTENDS Cache, TLC

\* Nothing tells apart two keys or two requests.
Symmetry == Permutations(Key) \cup Permutations(Req)
=============================================================================
