---------------------------- MODULE ReservationTx ----------------------------
(***************************************************************************)
(* The handlers of ReservationService and StockService as Postgres runs    *)
(* them: transactions at READ COMMITTED that read without locks, lock      *)
(* inventory_items one row at a time in id order, read again, and write    *)
(* the values the ORM computed when it read the row.  Several run at once; *)
(* any of them may be rolled back at any point (a crash, a lost            *)
(* connection, a refused request).                                         *)
(*                                                                         *)
(* The variables of StockHolds are the committed contents of the tables;   *)
(* uncommitted writes are seen by nobody and so appear at commit.  The     *)
(* rows of inventory_reservations need no locks of their own here: every   *)
(* writer of a row holds the item it is on.  (With one body per shipment,  *)
(* the rows found under the locks are among those found before them.)      *)
(***************************************************************************)
EXTENDS StockHolds, Sequences

CONSTANTS
  Txs,          \* database sessions
  Nobody,
  Bodies,       \* the request bodies sent for each shipment id
  ItemId,       \* primary key of the item at a position: its lock rank
  MaxId         \* the largest key there is (they have 128 bits)

Positions == Warehouses \X Skus

ASSUME NobodyFresh == Nobody \notin Txs
ASSUME ItemIdInjective ==
  /\ MaxId \in Nat
  /\ ItemId \in [Positions -> 0..MaxId]
  /\ \A p, q \in Positions : ItemId[p] = ItemId[q] => p = q

VARIABLES
  opened,       \* positions with an inventory_items row
  lock,         \* the transactions that have an item FOR UPDATE: at most one
  entry,        \* the transaction with an uncommitted entry for (shipment, sku) in
                \* uq_reservation_shipment_sku
  pc,           \* "idle", "lock" (SELECT .. FOR UPDATE under way) or "insert"
  job,          \* the request a transaction serves
  todo,         \* items it has still to lock
  seen,         \* the item columns it read when it locked them
  gone,         \* rows _expire_unconfirmed released in it
  left          \* SKUs whose row it has still to insert, in request order

db == vars
local == <<lock, entry, pc, job, todo, seen, gone, left>>
txVars == <<db, opened, local>>

NoJob == [op |-> "none"]
Unread == [onHand |-> 0, reserved |-> 0]
Row(p) == [onHand |-> onHand[p[1]][p[2]], reserved |-> reserved[p[1]][p[2]]]
Owned(t) == {p \in Positions : t \in lock[p]}
Wanted(b) == {k \in Skus : b.want[k] > 0}
WantedItems(b) == {b.w} \X Wanted(b)
HeldItems(s) == {site[s]} \X HeldSkus(s)
ItemsOf(G) == {<<site[l[1]], l[2]>> : l \in G}

(* A body names at least one SKU and none twice, in some order; the bodies *)
(* sent for one shipment id agree on the warehouse and the quantities.     *)
ASSUME BodiesTyped ==
  \A s \in Shipments : \A b \in Bodies[s] :
    /\ b.w \in Warehouses /\ b.want \in Wants
    /\ Wanted(b) # {}
    /\ b.order \in Seq(Wanted(b))
    /\ \A k \in Wanted(b) : \E i \in 1..Len(b.order) : b.order[i] = k
    /\ \A i, j \in 1..Len(b.order) : b.order[i] = b.order[j] => i = j
ASSUME OneBody ==
  \A s \in Shipments : \A b, c \in Bodies[s] : b.w = c.w /\ b.want = c.want

TxTypeOK ==
  /\ TypeOK
  /\ opened \in SUBSET Positions
  /\ lock \in [Positions -> SUBSET Txs]
  /\ entry \in [Lines -> Txs \cup {Nobody}]
  /\ pc \in [Txs -> {"idle", "lock", "insert"}]
  /\ todo \in [Txs -> SUBSET Positions]
  /\ seen \in [Txs -> [Positions -> [onHand : Nat, reserved : Nat]]]
  /\ gone \in [Txs -> SUBSET Lines]
  /\ \A t \in Txs : Owned(t) \subseteq opened /\ todo[t] \subseteq opened

TxInit ==
  /\ Init
  /\ opened = {}
  /\ lock = [p \in Positions |-> {}]
  /\ entry = [l \in Lines |-> Nobody]
  /\ pc = [t \in Txs |-> "idle"]
  /\ job = [t \in Txs |-> NoJob]
  /\ todo = [t \in Txs |-> {}]
  /\ seen = [t \in Txs |-> [p \in Positions |-> Unread]]
  /\ gone = [t \in Txs |-> {}]
  /\ left = [t \in Txs |-> <<>>]
-----------------------------------------------------------------------------
(* Begin a request whose first statements chose the items to lock.         *)
Start(t, j, items) ==
  /\ pc[t] = "idle"
  /\ pc' = [pc EXCEPT ![t] = "lock"]
  /\ job' = [job EXCEPT ![t] = j]
  /\ todo' = [todo EXCEPT ![t] = items]
  /\ UNCHANGED <<db, opened, lock, entry, seen, gone, left>>

(* COMMIT or ROLLBACK: every lock and index entry of t is given up.        *)
End(t) ==
  /\ lock' = [p \in Positions |-> lock[p] \ {t}]
  /\ entry' = [l \in Lines |-> IF entry[l] = t THEN Nobody ELSE entry[l]]
  /\ pc' = [pc EXCEPT ![t] = "idle"]
  /\ job' = [job EXCEPT ![t] = NoJob]
  /\ todo' = [todo EXCEPT ![t] = {}]
  /\ seen' = [seen EXCEPT ![t] = [p \in Positions |-> Unread]]
  /\ gone' = [gone EXCEPT ![t] = {}]
  /\ left' = [left EXCEPT ![t] = <<>>]

(* The transaction is rolled back: no effect but the locks it gives up.    *)
Rollback(t) == pc[t] # "idle" /\ End(t) /\ UNCHANGED <<db, opened>>

(* Mutant of NextItem: reserve locks in the order of the request lines.    *)
NextInRequestOrder(t) ==
  IF job[t].op = "reserve"
  THEN LET order == SelectSeq(job[t].b.order, LAMBDA k : <<job[t].b.w, k>> \in todo[t])
       IN <<job[t].b.w, Head(order)>>
  ELSE CHOOSE p \in todo[t] : \A q \in todo[t] : ItemId[p] <= ItemId[q]

(* The next item of a SELECT .. ORDER BY id FOR UPDATE.  populate_existing *)
(* makes the session take the row as it is now.                            *)
NextItem(t) == CHOOSE p \in todo[t] : \A q \in todo[t] : ItemId[p] <= ItemId[q]

(* Mutant of LockItem: the SELECT without FOR UPDATE.                      *)
ReadItem(t) ==
  /\ pc[t] = "lock" /\ todo[t] # {}
  /\ LET p == NextItem(t) IN
       /\ lock' = [lock EXCEPT ![p] = @ \cup {t}]
       /\ todo' = [todo EXCEPT ![t] = @ \ {p}]
       /\ seen' = [seen EXCEPT ![t][p] = Row(p)]
  /\ UNCHANGED <<db, opened, entry, pc, job, gone, left>>

LockItem(t) ==
  /\ pc[t] = "lock" /\ todo[t] # {}
  /\ LET p == NextItem(t) IN
       /\ lock[p] = {}
       /\ lock' = [lock EXCEPT ![p] = {t}]
       /\ todo' = [todo EXCEPT ![t] = @ \ {p}]
       /\ seen' = [seen EXCEPT ![t][p] = Row(p)]
  /\ UNCHANGED <<db, opened, entry, pc, job, gone, left>>

Serving(t, ops) == pc[t] = "lock" /\ todo[t] = {} /\ job[t].op \in ops

(* Column `col' of the items as t leaves it: the value t read plus         *)
(* change[p] on the items it owns.                                         *)
Written(t, col, current, change) ==
  [w \in Warehouses |-> [k \in Skus |->
     IF <<w, k>> \in Owned(t) THEN seen[t][<<w, k>>][col] + change[<<w, k>>]
     ELSE current[w][k]]]

FreedAt(G, p) == Freed(G, p[1], p[2])

(* Mutant of HeldAt: counts the rows read before the lock, held or not.    *)
RowAt(s, p) == IF p[1] = site[s] THEN quantity[s][p[2]] ELSE 0

HeldAt(s, p) == IF p \in HeldItems(s) THEN quantity[s][p[2]] ELSE 0
-----------------------------------------------------------------------------
(* reserve, first statements: the shipment has no rows yet (read without a *)
(* lock), the warehouse and the SKUs are fit to sell (facts of no concern  *)
(* here: a request they refuse changes nothing), then lock the positions   *)
(* that exist.                                                             *)
BeginReserve(t, s, b) ==
  /\ ~HasRows(s)
  /\ Start(t, [op |-> "reserve", s |-> s, b |-> b], WantedItems(b) \cap opened)

(* All items locked: reclaim lapsed rows on them, then all lines or none.  *)
(* A missing position or a shortfall is left to Rollback.                  *)
Decide(t) ==
  /\ Serving(t, {"reserve"})
  /\ LET b == job[t].b
         G == {l \in Reclaimable : <<site[l[1]], l[2]>> \in Owned(t)}
     IN /\ WantedItems(b) \subseteq Owned(t)
        /\ \A p \in Owned(t) :
             b.want[p[2]] <= seen[t][p].onHand - (seen[t][p].reserved - FreedAt(G, p))
        /\ gone' = [gone EXCEPT ![t] = G]
        /\ left' = [left EXCEPT ![t] = b.order]
  /\ pc' = [pc EXCEPT ![t] = "insert"]
  /\ UNCHANGED <<db, opened, lock, entry, job, todo, seen>>

(* Mutant of InsertRow: no unique constraint on (shipment, sku).           *)
InsertAnyRow(t) ==
  /\ pc[t] = "insert" /\ left[t] # <<>>
  /\ left' = [left EXCEPT ![t] = Tail(@)]
  /\ UNCHANGED <<db, opened, lock, entry, pc, job, todo, seen, gone>>

(* One row of the multi-row INSERT.  A committed entry for the key refuses *)
(* it (Rollback); an uncommitted one makes it wait.                        *)
InsertRow(t) ==
  /\ pc[t] = "insert" /\ left[t] # <<>>
  /\ LET l == <<job[t].s, Head(left[t])>> IN
       /\ status[l[1]][l[2]] = "none"
       /\ entry[l] = Nobody
       /\ entry' = [entry EXCEPT ![l] = t]
  /\ left' = [left EXCEPT ![t] = Tail(@)]
  /\ UNCHANGED <<db, opened, lock, pc, job, todo, seen, gone>>

FinishReserve(t) ==
  /\ pc[t] = "insert" /\ left[t] = <<>>
  /\ LET s == job[t].s
         b == job[t].b
         change == [p \in Positions |-> b.want[p[2]] - FreedAt(gone[t], p)]
     IN /\ reserved' = Written(t, "reserved", reserved, change)
        /\ site' = [site EXCEPT ![s] = b.w]
        /\ quantity' = [quantity EXCEPT ![s] =
             [k \in Skus |-> IF k \in Wanted(b) THEN b.want[k] ELSE @[k]]]
        /\ status' = [StatusWithout(gone[t]) EXCEPT ![s] =
             [k \in Skus |-> IF k \in Wanted(b) THEN "held" ELSE @[k]]]
  /\ UNCHANGED <<onHand, received, dispatched, confirmed, lapsed, opened>>
  /\ End(t)
-----------------------------------------------------------------------------
(* Mutant of BeginHeld: confirm changes no quantity, so it locks no item.  *)
BeginHeldUnlockedConfirm(t, op, s) ==
  /\ HeldSkus(s) # {}
  /\ Start(t, [op |-> op, s |-> s], IF op = "confirm" THEN {} ELSE HeldItems(s))

(* confirm, commit and release: the item ids are read without a lock, and  *)
(* the HELD rows again once the items are locked.  If none is left the     *)
(* request ends without effect (Rollback).                                 *)
BeginHeld(t, op, s) ==
  /\ HeldSkus(s) # {}
  /\ Start(t, [op |-> op, s |-> s], HeldItems(s))

FinishConfirm(t) ==
  /\ Serving(t, {"confirm"})
  /\ LET s == job[t].s IN confirmed' = confirmed \cup {<<s, k>> : k \in HeldSkus(s)}
  /\ UNCHANGED <<stock, rows, lapsed, opened>>
  /\ End(t)

FinishCommit(t) ==
  /\ Serving(t, {"commit"})
  /\ LET s == job[t].s
         change == [p \in Positions |-> 0 - HeldAt(s, p)]
     IN /\ onHand' = Written(t, "onHand", onHand, change)
        /\ reserved' = Written(t, "reserved", reserved, change)
        /\ dispatched' = [w \in Warehouses |-> [k \in Skus |->
             dispatched[w][k] + HeldAt(s, <<w, k>>)]]
        /\ status' = StatusMoved(s, "committed")
  /\ UNCHANGED <<received, site, quantity, confirmed, lapsed, opened>>
  /\ End(t)

FinishRelease(t) ==
  /\ Serving(t, {"release"})
  /\ LET s == job[t].s
         change == [p \in Positions |-> 0 - HeldAt(s, p)]
     IN /\ reserved' = Written(t, "reserved", reserved, change)
        /\ status' = StatusMoved(s, "released")
  /\ UNCHANGED <<onHand, received, dispatched, site, quantity, confirmed, lapsed, opened>>
  /\ End(t)

(* release_expired over some warehouses.                                   *)
BeginSweep(t, scope) ==
  LET items == ItemsOf(Reclaimable) \cap (scope \X Skus)
  IN items # {} /\ Start(t, [op |-> "sweep"], items)

FinishSweep(t) ==
  /\ Serving(t, {"sweep"})
  /\ LET G == {l \in Reclaimable : <<site[l[1]], l[2]>> \in Owned(t)}
         change == [p \in Positions |-> 0 - FreedAt(G, p)]
     IN /\ reserved' = Written(t, "reserved", reserved, change)
        /\ status' = StatusWithout(G)
  /\ UNCHANGED <<onHand, received, dispatched, site, quantity, confirmed, lapsed, opened>>
  /\ End(t)
-----------------------------------------------------------------------------
(* open_position: one INSERT, refused for a position that exists.          *)
OpenPosition(w, k, n) ==
  /\ <<w, k>> \notin opened
  /\ received[w][k] + n <= MaxStock
  /\ opened' = opened \cup {<<w, k>>}
  /\ onHand' = [onHand EXCEPT ![w][k] = n]
  /\ received' = [received EXCEPT ![w][k] = n]
  /\ UNCHANGED <<reserved, dispatched, rows, confirmed, lapsed, local>>

BeginAdjust(t, p, delta) ==
  /\ p \in opened
  /\ Start(t, [op |-> "adjust", p |-> p, delta |-> delta], {p})

FinishAdjust(t) ==
  /\ Serving(t, {"adjust"})
  /\ LET p == job[t].p
         change == [q \in Positions |-> job[t].delta]
     IN /\ seen[t][p].reserved <= seen[t][p].onHand + job[t].delta
        /\ received[p[1]][p[2]] + job[t].delta <= MaxStock
        /\ onHand' = Written(t, "onHand", onHand, change)
        /\ received' = [received EXCEPT ![p[1]][p[2]] = @ + job[t].delta]
  /\ UNCHANGED <<reserved, dispatched, rows, confirmed, lapsed, opened>>
  /\ End(t)

ClockTick(s) == Lapse(s) /\ UNCHANGED <<opened, local>>

Begin(t) ==
  \/ \E s \in Shipments : \E b \in Bodies[s] : BeginReserve(t, s, b)
  \/ \E s \in Shipments, op \in {"confirm", "commit", "release"} : BeginHeld(t, op, s)
  \/ \E scope \in SUBSET Warehouses : BeginSweep(t, scope)
  \/ \E p \in Positions, delta \in Deltas : BeginAdjust(t, p, delta)

Step(t) ==
  \/ LockItem(t)
  \/ Decide(t)
  \/ InsertRow(t)
  \/ FinishReserve(t)
  \/ FinishConfirm(t)
  \/ FinishCommit(t)
  \/ FinishRelease(t)
  \/ FinishSweep(t)
  \/ FinishAdjust(t)

TxNext ==
  \/ \E t \in Txs : Begin(t) \/ Step(t) \/ Rollback(t)
  \/ \E w \in Warehouses, k \in Skus, n \in 0..MaxQty : OpenPosition(w, k, n)
  \/ \E s \in Shipments : ClockTick(s)

TxSpec == TxInit /\ [][TxNext]_txVars
-----------------------------------------------------------------------------
(* The committed tables behave as StockHolds allows: whatever the          *)
(* interleaving, each handler takes effect as one atomic step.             *)
Contract == INSTANCE StockHolds
ImplementsStockHolds == Contract!Spec

(* What a transaction read when it locked an item is what the item holds   *)
(* until it commits, so the absolute values the ORM writes lose no update. *)
NoLostUpdate ==
  \A t \in Txs : \A p \in Owned(t) : seen[t][p] = Row(p)

(* A row picked for expiry stays unconfirmed and held until the reserve    *)
(* that picked it commits: confirm, commit and release cannot slip in.     *)
StillReclaimable == \A t \in Txs : gone[t] \subseteq Reclaimable

(* Rule 1: no set of transactions, each waiting for another of the set.    *)
WaitsFor(t, u) ==
  \/ /\ pc[t] = "lock" /\ todo[t] # {}
     /\ u \in lock[NextItem(t)]
  \/ /\ pc[t] = "insert" /\ left[t] # <<>>
     /\ entry[<<job[t].s, Head(left[t])>>] = u

NoDeadlock ==
  \A D \in (SUBSET Txs) \ {{}} : \E t \in D : \A u \in D : ~WaitsFor(t, u)
=============================================================================
