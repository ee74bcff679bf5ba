-------------------------- MODULE MCSessionRegistry --------------------------
(* TLC instances of SessionRegistry: its constants are sets of model values, *)
(* given in the .cfg files.                                                  *)
EXTENDS SessionRegistry
=============================================================================
