----------------------------- MODULE MCStockBook ----------------------------
(* Values of the constants of StockBook for model checking. *)
EXTENDS StockBook, TLC

CONSTANTS s1, s2, p1, p2, c1

MCSales     == {s1, s2}
MCPurchases == {p1}
MCCounts    == {c1}
MCUses      == {1}
MCBought    == {2}
MCPrices    == {4}
\* Requests differ in name only; no property here is a liveness property.
MCSymmetry  == Permutations(MCSales) \cup Permutations(MCPurchases)
=============================================================================
