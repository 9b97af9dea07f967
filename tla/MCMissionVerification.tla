------------------------ MODULE MCMissionVerification ------------------------
(***************************************************************************)
(* Instances of MissionVerification for TLC.                               *)
(***************************************************************************)
EXTENDS MissionVerification, TLC

CallerSymmetry == Permutations(Manager)

=============================================================================
