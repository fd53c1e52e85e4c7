----------------------------- MODULE MCRiskGuards -----------------------------
(***************************************************************************)
(* A small instance of RiskGuards for TLC: two days.          *)
(***************************************************************************)
EXTENDS RiskGuards
=============================================================================
