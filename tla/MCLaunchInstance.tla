-------------------------- MODULE MCLaunchInstance --------------------------
(***************************************************************************)
(* Instances of LaunchInstance for TLC.                                    *)
(***************************************************************************)
EXTENDS LaunchInstance, TLC

Symmetry == Permutations(Buyers)
=============================================================================
