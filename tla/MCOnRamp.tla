------------------------------ MODULE MCOnRamp ------------------------------
(* OnRamp for TLC.  Its runs check liveness, so none reduces by symmetry.    *)
EXTENDS OnRamp
=============================================================================
