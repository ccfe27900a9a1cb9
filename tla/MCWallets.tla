----------------------------- MODULE MCWallets ------------------------------
(* Wallets for TLC: tabs, handlers, PINs and ids are interchangeable. *)
EXTENDS Wallets, TLC

Symmetry == Permutations(Tabs) \cup Permutations(Calls) \cup Permutations(Pins)
                \cup Permutations(Ids)
=============================================================================
