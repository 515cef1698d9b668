--------------------------- MODULE MCReservationTx ---------------------------
(* Two database sessions, two shipments that compete for SKU 1 of one      *)
(* warehouse, one of them with a line on SKU 2 as well.                    *)
EXTENDS ReservationTx, TLC

MCItemId == [p \in Positions |-> 10 * p[1] + p[2]]

Both == [w |-> 1, want |-> [k \in Skus |-> 1], order |-> <<2, 1>>]
First == [w |-> 1, want |-> [k \in Skus |-> IF k = 1 THEN 1 ELSE 0], order |-> <<1>>]

MCBodies == [s \in Shipments |-> IF s = 1 THEN {Both} ELSE {First}]

Symmetry == Permutations(Txs)
=============================================================================
