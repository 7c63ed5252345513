----------------------------- MODULE MCPositions -----------------------------
(* Small instances of Positions for TLC.                                     *)
EXTENDS Positions, PositionForms
=============================================================================
