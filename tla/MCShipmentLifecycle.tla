------------------------- MODULE MCShipmentLifecycle -------------------------
(* Two sessions on one shipment.                                           *)
EXTENDS ShipmentLifecycle, TLC

Symmetry == Permutations(Sessions)
=============================================================================
