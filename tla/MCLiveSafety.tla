---------------------------- MODULE MCLiveSafety ----------------------------
(* Instances of LiveSafety for TLC.                                        *)
EXTENDS LiveSafety
=============================================================================
