------------------------------- MODULE MCRouter -------------------------------
(* TLC instances of Router.                                                    *)
EXTENDS Router, TLC

CONSTANTS auth, log, tag, book, user

\* One or two middlewares at a time.
MCBatch == {<<auth>>, <<log, tag>>}
MCInline == {<<tag>>}

MCToken == {"/", "v", "x", "*filepath"}

\* Slashes at neither end of what is joined (/v and x/), at one (/v and /v) and at
\* both (x/ and /*filepath).
MCPrefix == {<<"/", "v">>}
MCGiven == {<<"x", "/">>}

MCOpts == {[schema |-> book, meta |-> TRUE], [schema |-> user, meta |-> TRUE]}

\* Nothing tells apart two muxes made later, or two schemas.
Symmetry == Permutations(Mux \ {Root}) \cup Permutations(Schema)
=============================================================================
