----------------------------- MODULE MCLaunchpad ----------------------------
(* Launchpad for TLC: its people are interchangeable. *)
EXTENDS Launchpad, TLC

Symmetry == Permutations(Users)
=============================================================================
