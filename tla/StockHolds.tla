----------------------------- MODULE StockHolds -----------------------------
(***************************************************************************)
(* What the Inventory service promises about stock holds, one step per     *)
(* committed transaction.                                                  *)
(*                                                                         *)
(* A hold is one inventory_reservations row per SKU of a shipment; all the *)
(* rows of a shipment are written by one reserve, so they share warehouse  *)
(* and deadline.  `status' is ReservationStatus, with two refinements the  *)
(* rows also record: "none" is the absence of the row, and "expired" is    *)
(* RELEASED with the reason "Unconfirmed hold expired".                    *)
(*                                                                         *)
(* ReservationTx describes the same handlers statement by statement, with  *)
(* their row locks, and is checked to implement this module.               *)
(***************************************************************************)
EXTENDS Integers, FiniteSets

CONSTANTS
  Shipments,    \* shipment ids: the idempotency key of a hold
  Skus,
  Warehouses,
  NoSite,       \* the warehouse of a shipment that has no rows
  MaxQty,       \* largest quantity of one line (ReservationLineRequest)
  MaxStock      \* bound on what a position ever receives

ASSUME ShipmentsFinite == IsFiniteSet(Shipments)
ASSUME NoSiteFresh == NoSite \notin Warehouses
ASSUME MaxQtyPositive == MaxQty \in Nat \ {0}
ASSUME MaxStockNatural == MaxStock \in Nat

VARIABLES
  onHand,       \* on_hand_qty of a position, by warehouse and SKU
  reserved,     \* reserved_qty of a position
  received,     \* net of the ledger's opening and adjustment movements
  dispatched,   \* total of the ledger's outbound_dispatch movements
  site,         \* warehouse_id of the shipment's rows
  quantity,     \* quantity of each row, 0 where there is none
  status,       \* status of each row
  confirmed,    \* rows with a confirmed_at
  lapsed        \* shipments whose expires_at has passed

stock == <<onHand, reserved, received, dispatched>>
rows == <<site, quantity, status>>
vars == <<stock, rows, confirmed, lapsed>>

Status == {"none", "held", "committed", "released", "expired"}
Lines == Shipments \X Skus

(* Every value keeps its type; in particular the unsigned columns and the  *)
(* ledger totals never go below zero although no handler tests for it      *)
(* (commit and _release_one subtract without looking).                     *)
TypeOK ==
  /\ onHand \in [Warehouses -> [Skus -> Nat]]
  /\ reserved \in [Warehouses -> [Skus -> Nat]]
  /\ received \in [Warehouses -> [Skus -> Nat]]
  /\ dispatched \in [Warehouses -> [Skus -> Nat]]
  /\ site \in [Shipments -> Warehouses \cup {NoSite}]
  /\ quantity \in [Shipments -> [Skus -> 0..MaxQty]]
  /\ status \in [Shipments -> [Skus -> Status]]
  /\ confirmed \in SUBSET Lines
  /\ lapsed \in SUBSET Shipments
-----------------------------------------------------------------------------
(* The units of SKU k that the rows of the shipments S stand for, when the *)
(* quantities are q.  Counting them instead of adding up the quantities    *)
(* keeps sums inside finite-set theory.                                    *)
Units(q, S, k) == {u \in S \X (1..MaxQty) : u[2] <= q[u[1]][k]}
Count(q, S, k) == Cardinality(Units(q, S, k))

Holders(st, w, k) == {s \in Shipments : site[s] = w /\ status[s][k] = st}

UnitsWith(st, w, k) == Count(quantity, Holders(st, w, k), k)

(* Mutant of Reclaimable: without the test confirmed_at IS NULL.           *)
ReclaimableEvenConfirmed ==
  {l \in Lines : status[l[1]][l[2]] = "held" /\ l[1] \in lapsed}

(* Rows _expire_unconfirmed may release: held, unconfirmed, past deadline. *)
Reclaimable ==
  {l \in Lines \ confirmed : status[l[1]][l[2]] = "held" /\ l[1] \in lapsed}

(* Mutant of Freed: gives back one unit per row, whatever its quantity.    *)
FreedPerRow(G, w, k) == Cardinality({s \in Shipments : <<s, k>> \in G /\ site[s] = w})

(* Stock freed at (w, k) by reclaiming the rows G.                         *)
Losers(G, w, k) == {s \in Shipments : <<s, k>> \in G /\ site[s] = w}
Freed(G, w, k) == Count(quantity, Losers(G, w, k), k)

ReservedWithout(G) ==
  [w \in Warehouses |-> [k \in Skus |-> reserved[w][k] - Freed(G, w, k)]]

StatusWithout(G) ==
  [s \in Shipments |-> [k \in Skus |->
     IF <<s, k>> \in G THEN "expired" ELSE status[s][k]]]

(* What reserve may still promise at (w, k) once G is reclaimed; the mutant *)
(* forgets what other shipments hold.                                       *)
AvailableOnShelf(G, w, k) == onHand[w][k]
Available(G, w, k) == onHand[w][k] - ReservedWithout(G)[w][k]

(* _for_shipment finds rows of any status; the mutant looks for held ones. *)
HasHeldRows(s) == \E k \in Skus : status[s][k] = "held"
HasRows(s) == site[s] # NoSite

(* _lock_holds finds the HELD rows; the mutant takes every row of s.       *)
RowSkus(s) == {k \in Skus : quantity[s][k] > 0}
HeldSkus(s) == {k \in Skus : status[s][k] = "held"}

(* The rows of s that are still held get status `to'.                      *)
StatusMoved(s, to) ==
  [status EXCEPT ![s] = [k \in Skus |-> IF k \in HeldSkus(s) THEN to ELSE status[s][k]]]

(* f with the held quantities of s subtracted (sign = -1) or added at the  *)
(* positions of s.                                                         *)
Shifted(f, s, sign) ==
  [f EXCEPT ![site[s]] = [k \in Skus |->
     IF k \in HeldSkus(s) THEN f[site[s]][k] + sign * quantity[s][k] ELSE f[site[s]][k]]]
-----------------------------------------------------------------------------
Init ==
  /\ onHand = [w \in Warehouses |-> [k \in Skus |-> 0]]
  /\ reserved = onHand
  /\ received = onHand
  /\ dispatched = onHand
  /\ site = [s \in Shipments |-> NoSite]
  /\ quantity = [s \in Shipments |-> [k \in Skus |-> 0]]
  /\ status = [s \in Shipments |-> [k \in Skus |-> "none"]]
  /\ confirmed = {}
  /\ lapsed = {}

(* open_position and adjust: an opening balance or a signed correction.    *)
(* The CHECK constraints refuse a result below what is held.               *)
Adjust(w, k, delta) ==
  /\ reserved[w][k] <= onHand[w][k] + delta
  /\ received[w][k] + delta <= MaxStock
  /\ onHand' = [onHand EXCEPT ![w][k] = @ + delta]
  /\ received' = [received EXCEPT ![w][k] = @ + delta]
  /\ UNCHANGED <<reserved, dispatched, rows, confirmed, lapsed>>

(* reserve: reclaim the rows G on the wanted positions, then hold every    *)
(* line or nothing.  A shipment that has rows, whatever their status, is   *)
(* only replayed.                                                          *)
Hold(s, w, want, G) ==
  /\ ~HasRows(s)
  /\ \E k \in Skus : want[k] > 0
  /\ G \subseteq {l \in Reclaimable : site[l[1]] = w /\ want[l[2]] > 0}
  /\ \A k \in Skus : want[k] > 0 => want[k] <= Available(G, w, k)
  /\ reserved' = [ReservedWithout(G) EXCEPT ![w] = [k \in Skus |-> @[k] + want[k]]]
  /\ site' = [site EXCEPT ![s] = w]
  /\ quantity' = [quantity EXCEPT ![s] = want]
  /\ status' = [StatusWithout(G) EXCEPT ![s] =
       [k \in Skus |-> IF want[k] > 0 THEN "held" ELSE "none"]]
  /\ UNCHANGED <<onHand, received, dispatched, confirmed, lapsed>>

(* confirm: the shipment exists, its held rows stop expiring.              *)
Confirm(s) ==
  /\ HeldSkus(s) # {}
  /\ confirmed' = confirmed \cup {<<s, k>> : k \in HeldSkus(s)}
  /\ UNCHANGED <<stock, rows, lapsed>>

(* commit: the goods left, each held row is deducted and written to the    *)
(* ledger.                                                                 *)
Commit(s) ==
  /\ HeldSkus(s) # {}
  /\ onHand' = Shifted(onHand, s, -1)
  /\ reserved' = Shifted(reserved, s, -1)
  /\ dispatched' = Shifted(dispatched, s, 1)
  /\ status' = StatusMoved(s, "committed")
  /\ UNCHANGED <<received, site, quantity, confirmed, lapsed>>

(* release: the held rows give their stock back.                           *)
Release(s) ==
  /\ HeldSkus(s) # {}
  /\ reserved' = Shifted(reserved, s, -1)
  /\ status' = StatusMoved(s, "released")
  /\ UNCHANGED <<onHand, received, dispatched, site, quantity, confirmed, lapsed>>

(* release_expired: reclaim the rows G.                                    *)
Expire(G) ==
  /\ G # {}
  /\ G \subseteq Reclaimable
  /\ reserved' = ReservedWithout(G)
  /\ status' = StatusWithout(G)
  /\ UNCHANGED <<onHand, received, dispatched, site, quantity, confirmed, lapsed>>

(* The clock passes the expires_at of an unconfirmed hold.                 *)
Lapse(s) ==
  /\ s \notin lapsed
  /\ \E k \in HeldSkus(s) : <<s, k>> \notin confirmed
  /\ lapsed' = lapsed \cup {s}
  /\ UNCHANGED <<stock, rows, confirmed>>

Deltas == (-MaxQty..MaxQty) \ {0}
Wants == [Skus -> 0..MaxQty]

Next ==
  \/ \E w \in Warehouses, k \in Skus, delta \in Deltas : Adjust(w, k, delta)
  \/ \E s \in Shipments, w \in Warehouses, want \in Wants, G \in SUBSET Reclaimable :
       Hold(s, w, want, G)
  \/ \E s \in Shipments : Confirm(s) \/ Commit(s) \/ Release(s) \/ Lapse(s)
  \/ \E G \in SUBSET Reclaimable : Expire(G)

Spec == Init /\ [][Next]_vars
-----------------------------------------------------------------------------
(* The denormalised reserved_qty, which reserve, commit, _release_one and  *)
(* the sweep each adjust by hand, is exactly the number of units the HELD  *)
(* rows of all shipments hold at the position.                             *)
ReservedIsHeld ==
  \A w \in Warehouses, k \in Skus : reserved[w][k] = UnitsWith("held", w, k)

(* No stock is promised twice: what is held is physically there.  Only     *)
(* adjust may run into the CHECK constraint; commit, release and expiry    *)
(* never do.                                                               *)
NothingOversold ==
  \A w \in Warehouses, k \in Skus : reserved[w][k] <= onHand[w][k]

(* Every dispatched line leaves the books exactly once: the ledger's       *)
(* outbound movements are the units of the COMMITTED rows, and on_hand_qty *)
(* is what came in less what went out.                                     *)
StockReconciles ==
  \A w \in Warehouses, k \in Skus :
    /\ dispatched[w][k] = UnitsWith("committed", w, k)
    /\ onHand[w][k] = received[w][k] - dispatched[w][k]

(* Rule 3 of the module docstring: a confirmed hold never expires.         *)
ConfirmedKept ==
  \A s \in Shipments, k \in Skus : status[s][k] = "expired" => <<s, k>> \notin confirmed

(* A shipment gets its rows once: after its reserve no row is added, moved *)
(* or resized, and a row that is committed, released or expired is never   *)
(* revived by a replay, a retry or a late event.                           *)
RowsFinal ==
  \A s \in Shipments : site[s] # NoSite =>
    /\ site'[s] = site[s]
    /\ quantity'[s] = quantity[s]
    /\ \A k \in Skus : status[s][k] # "held" => status'[s][k] = status[s][k]

HoldsAreFinal == [][RowsFinal]_vars
=============================================================================
