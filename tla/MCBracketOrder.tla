--------------------------- MODULE MCBracketOrder ---------------------------
(* Instances of BracketOrder for TLC.                                      *)
EXTENDS BracketOrder
=============================================================================
