--------------------------- MODULE MCTokenFactory ---------------------------
(***************************************************************************)
(* Instances of TokenFactory for TLC.                                      *)
(***************************************************************************)
EXTENDS TokenFactory, TLC

CONSTANTS b1, b2

Halves == {<<2>>}
Lists == {<<b1, None>>}
Wired == <<b1, b2>>
Symmetry == Permutations(Users)
=============================================================================
