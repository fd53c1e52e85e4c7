------------------------ MODULE MCPositionLifecycle ------------------------
(***************************************************************************)
(* Small instances of PositionLifecycle for TLC.                           *)
(***************************************************************************)
EXTENDS PositionLifecycle

\* The CHECK of migration 003, which no later migration replaces.
MigratedStatuses == {"OPENED", "CLOSED"}

\* A database whose CHECK was widened to the PositionStatusSchema of the code.
WidenedStatuses == Status
=============================================================================
