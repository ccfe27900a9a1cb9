----------------------------- MODULE MCOffRamp ------------------------------
(* OffRamp for TLC: every request on the same blockchain, so in one queue. *)
EXTENDS OffRamp

OneChain == [r \in Requests |-> "chain"]
=============================================================================
