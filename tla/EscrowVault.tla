---------------------------- MODULE EscrowVault ----------------------------
(***************************************************************************)
(* What the off-ramp escrow of TradeRouter.sol promises its users: each    *)
(* request is held once and leaves once, released to the platform inside   *)
(* its window or returned whole; nothing else the router does reaches the  *)
(* money held, and the money held is always there.                         *)
(***************************************************************************)
EXTENDS Integers

CONSTANT Ids                 \* the withdrawal requests

VARIABLES
    phase,                   \* none, held, released or returned
    held,                    \* the gross amount a request was opened with
    surplus                  \* what the router owns beyond the money held

vars == <<phase, held, surplus>>

Init ==
    /\ phase = [i \in Ids |-> "none"]
    /\ held = [i \in Ids |-> 0]
    /\ surplus = 0

Move(i, from, to) == phase[i] = from /\ phase' = [phase EXCEPT ![i] = to]

\* The deposit comes from outside and leaves the surplus alone.
Open(i) ==
    /\ Move(i, "none", "held")
    /\ held'[i] \in Nat /\ held' = [held EXCEPT ![i] = held'[i]]
    /\ UNCHANGED surplus

\* A release may leave a part of its own amount behind, and takes no more.
Release(i) ==
    /\ Move(i, "held", "released")
    /\ surplus' \in Nat /\ surplus <= surplus' /\ surplus' <= surplus + held[i]
    /\ UNCHANGED held

Return(i) == Move(i, "held", "returned") /\ UNCHANGED <<held, surplus>>

\* Top-ups, on-ramp deliveries and the owner's withdrawals.
Trade == surplus' \in Nat /\ UNCHANGED <<phase, held>>

Next == Trade \/ \E i \in Ids : Open(i) \/ Release(i) \/ Return(i)

Spec == Init /\ [][Next]_vars
=============================================================================
