---------------------------- MODULE MCWarehouses ----------------------------
(* Two overlapping requests on the row, or on the zones and the hours of a *)
(* warehouse, which they create first.                                     *)
EXTENDS WarehouseReplicas, TLC

MCWeeks == {<<1>>, <<2>>, <<2, 1>>}
MCWorkloads == {
  {"create"}, {"update", "delete"}, {"update", "status"}, {"status", "delete"},
  {"delete", "restore"}, {"add zone", "update zone", "delete zone"}, {"create", "hours"}}

Symmetry == Permutations(Txs)
=============================================================================
