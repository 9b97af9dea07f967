--------------------------- MODULE MCControlRoom ---------------------------
(***************************************************************************)
(* Instances of ControlRoom for TLC.                                       *)
(***************************************************************************)
EXTENDS ControlRoom, TLC

MissionSymmetry == Permutations(Mission)

=============================================================================
