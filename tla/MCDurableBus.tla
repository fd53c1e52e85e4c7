----------------------------- MODULE MCDurableBus -----------------------------
(***************************************************************************)
(* Small instances of DurableBus for TLC.                                  *)
(***************************************************************************)
EXTENDS DurableBus, TLC

\* Consumers are alike; sound for the runs that check safety only.
ConsumersAlike == Permutations(Consumers)
=============================================================================
