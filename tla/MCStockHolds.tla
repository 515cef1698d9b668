---------------------------- MODULE MCStockHolds ----------------------------
(* StockHolds on a small instance: shipments and SKUs are interchangeable. *)
EXTENDS StockHolds, TLC

Symmetry == Permutations(Shipments) \cup Permutations(Skus)
=============================================================================
