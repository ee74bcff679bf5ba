------------------------------ MODULE MCServer -------------------------------
(* Model checking of Server. *)
EXTENDS Server

CONSTANTS root, group, c1, c2, r1, r2

MCMux == {root, group}
MCCaller == {c1, c2}
MCRequest == {r1, r2}
=============================================================================
