--------------------------- MODULE MCTradeRouter ---------------------------
(***************************************************************************)
(* Instances of TradeRouter for TLC.                                       *)
(***************************************************************************)
EXTENDS TradeRouter

Repeated == {<<1, 1>>}
Pairs == {<<1, 2>>, <<2, 1>>, <<1, 1>>}
=============================================================================
