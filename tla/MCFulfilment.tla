---------------------------- MODULE MCFulfilment ----------------------------
(* Shipment 1 asks for one unit of each SKU, shipment 2 for one of SKU 1.  *)
EXTENDS Fulfilment, TLC

MCOrder == [s \in Shipments |->
  [w |-> 1, want |-> [k \in Skus |-> IF s = 1 \/ k = 1 THEN 1 ELSE 0]]]

PodSymmetry == Permutations(Pods)
=============================================================================
