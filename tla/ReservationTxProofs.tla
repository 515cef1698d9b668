-------------------------- MODULE ReservationTxProofs --------------------------
(***************************************************************************)
(* The stock handlers of Inventory, for any number of shipments, SKUs,     *)
(* warehouses and sessions and any quantities.                             *)
(*                                                                         *)
(* First as whole transactions, StockHolds.  The stock counters are sums   *)
(* over the rows of all shipments.  Sums are counted as sets of units, so  *)
(* five lemmas about counting carry every step: a handler moves one        *)
(* shipment, or a set of lapsed ones, from one set of holders to another,  *)
(* and the counters move by the same amount.                               *)
(*                                                                         *)
(* Then statement by statement, ReservationTx: the row locks lose no       *)
(* update, keep what a reserve reclaims reclaimable, exclude every         *)
(* deadlock, and make each transaction one step of StockHolds.             *)
(***************************************************************************)
EXTENDS ReservationTx, FiniteSetTheorems, SequenceTheorems, WellFoundedInduction, TLAPS

LEMMA CountType ==
  ASSUME NEW q, NEW k, NEW S \in SUBSET Shipments
  PROVE  IsFiniteSet(Units(q, S, k)) /\ Count(q, S, k) \in Nat
<1>1. IsFiniteSet(S)
  BY ShipmentsFinite, FS_Subset
<1>2. IsFiniteSet(1..MaxQty)
  BY MaxQtyPositive, FS_Interval
<1>3. IsFiniteSet(S \X (1..MaxQty))
  BY <1>1, <1>2, FS_Product
<1>4. Units(q, S, k) \in SUBSET (S \X (1..MaxQty))
  BY DEF Units
<1>5. IsFiniteSet(Units(q, S, k))
  BY <1>3, <1>4, FS_Subset
<1> QED
  BY <1>5, FS_CardinalityType DEF Count

LEMMA CountNone ==
  ASSUME NEW q, NEW k
  PROVE  Count(q, {}, k) = 0
<1>1. Units(q, {}, k) = {}
  BY DEF Units
<1> QED
  BY <1>1, FS_EmptySet DEF Count

LEMMA CountSplit ==
  ASSUME NEW q, NEW k, NEW S \in SUBSET Shipments, NEW T \in SUBSET Shipments,
         S \cap T = {}
  PROVE  Count(q, S \cup T, k) = Count(q, S, k) + Count(q, T, k)
<1>1. Units(q, S \cup T, k) = Units(q, S, k) \cup Units(q, T, k)
  BY DEF Units
<1>2. Units(q, S, k) \cap Units(q, T, k) = {}
  BY DEF Units
<1>3. /\ IsFiniteSet(Units(q, S, k)) /\ Count(q, S, k) \in Nat
      /\ IsFiniteSet(Units(q, T, k)) /\ Count(q, T, k) \in Nat
  BY CountType
<1>4. Cardinality(Units(q, S \cup T, k))
        = Cardinality(Units(q, S, k)) + Cardinality(Units(q, T, k))
            - Cardinality(Units(q, S, k) \cap Units(q, T, k))
  BY <1>1, <1>3, FS_Union
<1>5. Cardinality(Units(q, S, k) \cap Units(q, T, k)) = 0
  BY <1>2, FS_EmptySet
<1> QED
  BY <1>3, <1>4, <1>5 DEF Count

LEMMA CountOne ==
  ASSUME NEW q, NEW k, NEW s \in Shipments, q[s][k] \in 0..MaxQty
  PROVE  Count(q, {s}, k) = q[s][k]
<1> DEFINE n == q[s][k]
<1>1. n \in Nat /\ n <= MaxQty
  BY MaxQtyPositive
<1>2. Units(q, {s}, k) = {s} \X (1..n)
  BY <1>1, MaxQtyPositive DEF Units
<1> HIDE DEF n
<1>3. IsFiniteSet(1..n) /\ Cardinality(1..n) = n
  <2>1. n \in Int /\ 1 \in Int
    BY <1>1
  <2>2. IsFiniteSet(1..n) /\ Cardinality(1..n) = IF 1 > n THEN 0 ELSE n - 1 + 1
    BY <2>1, FS_Interval
  <2> QED
    BY <1>1, <2>2
<1>4. IsFiniteSet({s}) /\ Cardinality({s}) = 1
  BY FS_Singleton
<1>5. Cardinality({s} \X (1..n)) = Cardinality({s}) * Cardinality(1..n)
  BY <1>3, <1>4, FS_Product, Zenon
<1>6. Cardinality(Units(q, {s}, k)) = Cardinality({s}) * Cardinality(1..n)
  BY <1>2, <1>5, Zenon
<1>7. Cardinality({s}) * Cardinality(1..n) = n
  BY <1>1, <1>3, <1>4
<1>8. Count(q, {s}, k) = n
  BY <1>6, <1>7 DEF Count
<1> QED
  BY <1>8 DEF n

LEMMA CountSame ==
  ASSUME NEW q, NEW r, NEW k, NEW S \in SUBSET Shipments,
         \A s \in S : q[s][k] = r[s][k]
  PROVE  Count(q, S, k) = Count(r, S, k)
<1>1. Units(q, S, k) = Units(r, S, k)
  BY DEF Units
<1> QED
  BY <1>1 DEF Count
-----------------------------------------------------------------------------
(* The inductive invariant.  Types are kept at Int here: that no counter   *)
(* goes below zero follows from what the counters count.                   *)
Shape ==
  /\ onHand \in [Warehouses -> [Skus -> Int]]
  /\ reserved \in [Warehouses -> [Skus -> Int]]
  /\ received \in [Warehouses -> [Skus -> Int]]
  /\ dispatched \in [Warehouses -> [Skus -> Int]]
  /\ site \in [Shipments -> Warehouses \cup {NoSite}]
  /\ quantity \in [Shipments -> [Skus -> 0..MaxQty]]
  /\ status \in [Shipments -> [Skus -> Status]]
  /\ confirmed \in SUBSET Lines
  /\ lapsed \in SUBSET Shipments

NoRowsNoHolds ==
  \A s \in Shipments : site[s] = NoSite => \A k \in Skus : status[s][k] = "none"

IInv ==
  /\ Shape
  /\ NoRowsNoHolds
  /\ ReservedIsHeld
  /\ StockReconciles
  /\ NothingOversold
  /\ ConfirmedKept

(* The counters count, so they are natural numbers.                        *)
LEMMA IInvGivesTypes == IInv => TypeOK
<1> SUFFICES ASSUME IInv PROVE TypeOK
  OBVIOUS
<1>1. ASSUME NEW w \in Warehouses, NEW k \in Skus
      PROVE  /\ reserved[w][k] \in Nat /\ dispatched[w][k] \in Nat
             /\ onHand[w][k] \in Nat /\ received[w][k] \in Nat
  <2>1. UnitsWith("held", w, k) \in Nat /\ UnitsWith("committed", w, k) \in Nat
    BY CountType DEF UnitsWith, Holders
  <2>2. reserved[w][k] \in Nat /\ dispatched[w][k] \in Nat
    BY <2>1 DEF IInv, ReservedIsHeld, StockReconciles
  <2>3. onHand[w][k] \in Int /\ received[w][k] \in Int
    BY DEF IInv, Shape
  <2>4. reserved[w][k] <= onHand[w][k]
    BY DEF IInv, NothingOversold
  <2>5. onHand[w][k] = received[w][k] - dispatched[w][k]
    BY DEF IInv, StockReconciles
  <2> QED
    BY <2>2, <2>3, <2>4, <2>5
<1>2. Shape
  BY DEF IInv
<1>3. /\ onHand \in [Warehouses -> [Skus -> Nat]]
      /\ reserved \in [Warehouses -> [Skus -> Nat]]
      /\ received \in [Warehouses -> [Skus -> Nat]]
      /\ dispatched \in [Warehouses -> [Skus -> Nat]]
  BY <1>1, <1>2 DEF Shape
<1> QED
  BY <1>2, <1>3 DEF Shape, TypeOK

LEMMA InitIInv == Init => IInv
<1> SUFFICES ASSUME Init PROVE IInv
  OBVIOUS
<1>1. Shape /\ NoRowsNoHolds
  BY MaxQtyPositive DEF Init, Shape, NoRowsNoHolds, Status
<1>2. ASSUME NEW w \in Warehouses, NEW k \in Skus, NEW st \in {"held", "committed"}
      PROVE  UnitsWith(st, w, k) = 0
  <2>1. Holders(st, w, k) = {}
    BY NoSiteFresh DEF Init, Holders
  <2> QED
    BY <2>1, CountNone DEF UnitsWith
<1>3. \A w \in Warehouses, k \in Skus :
        /\ reserved[w][k] = 0 /\ onHand[w][k] = 0
        /\ received[w][k] = 0 /\ dispatched[w][k] = 0
  BY DEF Init
<1>4. ReservedIsHeld /\ StockReconciles /\ NothingOversold
  BY <1>2, <1>3 DEF ReservedIsHeld, StockReconciles, NothingOversold
<1>5. ConfirmedKept
  BY DEF Init, ConfirmedKept
<1> QED
  BY <1>1, <1>4, <1>5 DEF IInv
-----------------------------------------------------------------------------
(* confirm, commit and release act on the held rows of one shipment.       *)

(* What the held row of s on (w, k) accounts for, if there is one.         *)
HeldHere(s, w, k) ==
  IF w = site[s] /\ k \in HeldSkus(s) THEN quantity[s][k] ELSE 0

LEMMA HoldingSite ==
  ASSUME IInv, NEW s \in Shipments, HeldSkus(s) # {}
  PROVE  site[s] \in Warehouses
BY DEF IInv, Shape, NoRowsNoHolds, HeldSkus

(* Shifted changes a counter by exactly the held quantities of s.          *)
LEMMA ShiftedAt ==
  ASSUME IInv, NEW s \in Shipments, HeldSkus(s) # {},
         NEW f \in [Warehouses -> [Skus -> Int]]
  PROVE  /\ Shifted(f, s, 1) \in [Warehouses -> [Skus -> Int]]
         /\ Shifted(f, s, -1) \in [Warehouses -> [Skus -> Int]]
         /\ \A w \in Warehouses, k \in Skus :
              /\ Shifted(f, s, 1)[w][k] = f[w][k] + HeldHere(s, w, k)
              /\ Shifted(f, s, -1)[w][k] = f[w][k] - HeldHere(s, w, k)
<1>1. site[s] \in Warehouses
  BY HoldingSite
<1>2. \A k \in Skus : quantity[s][k] \in Int
  BY MaxQtyPositive DEF IInv, Shape
<1>3. /\ Shifted(f, s, 1) \in [Warehouses -> [Skus -> Int]]
      /\ \A w \in Warehouses, k \in Skus :
           Shifted(f, s, 1)[w][k] = f[w][k] + HeldHere(s, w, k)
  BY <1>1, <1>2 DEF Shifted, HeldHere
<1>4. /\ Shifted(f, s, -1) \in [Warehouses -> [Skus -> Int]]
      /\ \A w \in Warehouses, k \in Skus :
           Shifted(f, s, -1)[w][k] = f[w][k] - HeldHere(s, w, k)
  BY <1>1, <1>2 DEF Shifted, HeldHere
<1> QED
  BY <1>3, <1>4

(* Moving the held rows of s to status `to' moves their units along.       *)
LEMMA MovedUnits ==
  ASSUME IInv, NEW s \in Shipments, NEW to \in {"committed", "released"},
         NEW w \in Warehouses, NEW k \in Skus,
         status' = StatusMoved(s, to), site' = site, quantity' = quantity
  PROVE  /\ UnitsWith("held", w, k)' = UnitsWith("held", w, k) - HeldHere(s, w, k)
         /\ UnitsWith("committed", w, k)'
              = UnitsWith("committed", w, k)
                  + IF to = "committed" THEN HeldHere(s, w, k) ELSE 0
<1> DEFINE H == Holders("held", w, k)
           C == Holders("committed", w, k)
<1>1. /\ H \in SUBSET Shipments /\ C \in SUBSET Shipments
      /\ Count(quantity, H, k) \in Nat /\ Count(quantity, C, k) \in Nat
  BY CountType DEF Holders
<1>2. \A r \in Shipments :
        status'[r][k] = IF r = s /\ status[s][k] = "held" THEN to ELSE status[r][k]
  BY DEF IInv, Shape, StatusMoved, HeldSkus
<1>3. CASE w = site[s] /\ k \in HeldSkus(s)
  <2>1. s \in H /\ s \notin C /\ s \notin H' /\ H = H' \cup {s}
    BY <1>2, <1>3 DEF Holders, HeldSkus
  <2>2. C' = IF to = "committed" THEN C \cup {s} ELSE C
    BY <1>2, <1>3 DEF Holders, HeldSkus
  <2>3. H' \in SUBSET Shipments /\ {s} \in SUBSET Shipments
        /\ H' \cap {s} = {} /\ C \cap {s} = {}
    BY <2>1 DEF Holders
  <2>4. Count(quantity, {s}, k) = quantity[s][k] /\ quantity[s][k] \in Nat
    BY CountOne, MaxQtyPositive DEF IInv, Shape
  <2> HIDE DEF H, C
  <2>5. Count(quantity, H, k) = Count(quantity, H', k) + quantity[s][k]
    BY <2>1, <2>3, <2>4, CountSplit
  <2>6. Count(quantity, C \cup {s}, k) = Count(quantity, C, k) + quantity[s][k]
    BY <1>1, <2>3, <2>4, CountSplit
  <2>7. Count(quantity, H', k) \in Nat
    BY <2>3, CountType
  <2>8. HeldHere(s, w, k) = quantity[s][k]
    BY <1>3 DEF HeldHere
  <2>9. /\ UnitsWith("held", w, k) = Count(quantity, H, k)
        /\ UnitsWith("held", w, k)' = Count(quantity, H', k)
        /\ UnitsWith("committed", w, k) = Count(quantity, C, k)
        /\ UnitsWith("committed", w, k)' = Count(quantity, C', k)
    BY DEF UnitsWith, H, C
  <2>10. UnitsWith("held", w, k)' = UnitsWith("held", w, k) - quantity[s][k]
    BY <2>4, <2>5, <2>7, <2>9
  <2>11. UnitsWith("committed", w, k)'
           = UnitsWith("committed", w, k) + IF to = "committed" THEN quantity[s][k] ELSE 0
    BY <1>1, <2>2, <2>4, <2>6, <2>9
  <2> QED
    BY <2>8, <2>10, <2>11
<1>4. CASE ~(w = site[s] /\ k \in HeldSkus(s))
  <2>1. H' = H /\ C' = C
    BY <1>2, <1>4 DEF Holders, HeldSkus
  <2>2. HeldHere(s, w, k) = 0
    BY <1>4 DEF HeldHere
  <2> QED
    BY <1>1, <2>1, <2>2 DEF UnitsWith
<1> QED
  BY <1>3, <1>4

LEMMA MovedShape ==
  ASSUME IInv, NEW s \in Shipments, NEW to \in {"committed", "released"},
         HeldSkus(s) # {}, status' = StatusMoved(s, to), site' = site
  PROVE  /\ status' \in [Shipments -> [Skus -> Status]]
         /\ NoRowsNoHolds'
         /\ \A r \in Shipments, k \in Skus :
              status'[r][k] = "expired" => status[r][k] = "expired"
<1>1. site[s] \in Warehouses
  BY HoldingSite
<1>2. \A r \in Shipments, k \in Skus :
        status'[r][k] = IF r = s /\ status[s][k] = "held" THEN to ELSE status[r][k]
  BY DEF IInv, Shape, StatusMoved, HeldSkus
<1>3. status' \in [Shipments -> [Skus -> Status]]
  BY DEF IInv, Shape, StatusMoved, HeldSkus, Status
<1>4. NoRowsNoHolds'
  BY <1>1, <1>2, NoSiteFresh DEF IInv, NoRowsNoHolds
<1> QED
  BY <1>2, <1>3, <1>4
-----------------------------------------------------------------------------
(* Expiry takes the units of a set of rows out of the held ones.           *)
LEMMA ExpiredUnits ==
  ASSUME IInv, NEW G \in SUBSET Reclaimable, NEW w \in Warehouses, NEW k \in Skus
  PROVE  LET K == {s \in Shipments : site[s] = w /\ StatusWithout(G)[s][k] = "held"}
         IN  /\ K = Holders("held", w, k) \ Losers(G, w, k)
             /\ Count(quantity, K, k) = UnitsWith("held", w, k) - Freed(G, w, k)
             /\ Count(quantity, K, k) \in Nat
             /\ Freed(G, w, k) \in Nat
             /\ UnitsWith("held", w, k) \in Nat
<1> DEFINE K == {s \in Shipments : site[s] = w /\ StatusWithout(G)[s][k] = "held"}
           L == Losers(G, w, k)
           H == Holders("held", w, k)
<1>1. L \subseteq H
  BY DEF Losers, Holders, Reclaimable, Lines
<1>2. K = H \ L
  BY DEF Losers, Holders, StatusWithout
<1>3. K \in SUBSET Shipments /\ L \in SUBSET Shipments /\ H \in SUBSET Shipments
  BY DEF Losers, Holders
<1>4. H = K \cup L /\ K \cap L = {}
  BY <1>1, <1>2
<1>5. Count(quantity, H, k) = Count(quantity, K, k) + Count(quantity, L, k)
  <2> HIDE DEF K, L, H
  <2> QED BY <1>3, <1>4, CountSplit
<1>6. /\ Count(quantity, H, k) \in Nat /\ Count(quantity, K, k) \in Nat
      /\ Count(quantity, L, k) \in Nat
  <2> HIDE DEF K, L, H
  <2> QED BY <1>3, CountType
<1> QED
  BY <1>2, <1>5, <1>6 DEF UnitsWith, Freed

LEMMA ExpiredShape ==
  ASSUME IInv, NEW G \in SUBSET Reclaimable
  PROVE  /\ ReservedWithout(G) \in [Warehouses -> [Skus -> Int]]
         /\ StatusWithout(G) \in [Shipments -> [Skus -> Status]]
         /\ \A s \in Shipments, k \in Skus :
              /\ site[s] = NoSite => StatusWithout(G)[s][k] = "none"
              /\ StatusWithout(G)[s][k] = "expired" => <<s, k>> \notin confirmed
              /\ StatusWithout(G)[s][k] = "committed" <=> status[s][k] = "committed"
<1>1. \A w \in Warehouses, k \in Skus : Freed(G, w, k) \in Nat
  BY ExpiredUnits
<1>2. ReservedWithout(G) \in [Warehouses -> [Skus -> Int]]
  BY <1>1 DEF IInv, Shape, ReservedWithout
<1>3. StatusWithout(G) \in [Shipments -> [Skus -> Status]]
  BY DEF IInv, Shape, StatusWithout, Status
<1>4. \A s \in Shipments, k \in Skus :
        <<s, k>> \in G => <<s, k>> \notin confirmed /\ status[s][k] = "held"
  BY DEF Reclaimable
<1> QED
  BY <1>2, <1>3, <1>4 DEF IInv, NoRowsNoHolds, ConfirmedKept, StatusWithout
-----------------------------------------------------------------------------
(* One lemma per action.                                                   *)
LEMMA AdjustKeeps ==
  ASSUME IInv, NEW w \in Warehouses, NEW k \in Skus, NEW delta \in Deltas,
         Adjust(w, k, delta)
  PROVE  IInv'
<1>1. delta \in Int
  BY MaxQtyPositive DEF Deltas
<1>2. Shape' /\ NoRowsNoHolds' /\ ConfirmedKept'
  BY <1>1 DEF IInv, Shape, NoRowsNoHolds, ConfirmedKept, Adjust, rows
<1>3. \A st, v, j : UnitsWith(st, v, j)' = UnitsWith(st, v, j)
  BY DEF Adjust, rows, UnitsWith, Holders
<1>4. ReservedIsHeld'
  BY <1>3 DEF IInv, ReservedIsHeld, Adjust
<1>5. ASSUME NEW v \in Warehouses, NEW j \in Skus
      PROVE  /\ reserved'[v][j] <= onHand'[v][j]
             /\ onHand'[v][j] = received'[v][j] - dispatched'[v][j]
  <2>1. /\ reserved[v][j] \in Int /\ onHand[v][j] \in Int
        /\ received[v][j] \in Int /\ dispatched[v][j] \in Int
        /\ reserved[v][j] <= onHand[v][j]
        /\ onHand[v][j] = received[v][j] - dispatched[v][j]
    BY DEF IInv, Shape, NothingOversold, StockReconciles
  <2>2. CASE v = w /\ j = k
    BY <1>1, <2>1, <2>2 DEF Adjust, IInv, Shape
  <2>3. CASE ~(v = w /\ j = k)
    <3>1. onHand'[v][j] = onHand[v][j] /\ received'[v][j] = received[v][j]
      BY <2>3 DEF Adjust, IInv, Shape
    <3> QED
      BY <2>1, <3>1 DEF Adjust
  <2> QED
    BY <2>2, <2>3
<1>6. NothingOversold'
  BY <1>5 DEF NothingOversold
<1>7. StockReconciles'
  BY <1>3, <1>5 DEF IInv, StockReconciles, Adjust
<1> QED
  BY <1>2, <1>4, <1>6, <1>7 DEF IInv

LEMMA ConfirmKeeps ==
  ASSUME IInv, NEW s \in Shipments, Confirm(s)
  PROVE  IInv'
<1>1. Shape' /\ NoRowsNoHolds'
  BY DEF IInv, Shape, NoRowsNoHolds, Confirm, stock, rows, Lines, HeldSkus
<1>2. \A st, v, j : UnitsWith(st, v, j)' = UnitsWith(st, v, j)
  BY DEF Confirm, rows, UnitsWith, Holders
<1>3. ReservedIsHeld' /\ StockReconciles' /\ NothingOversold'
  BY <1>2 DEF IInv, ReservedIsHeld, StockReconciles, NothingOversold, Confirm, stock
<1>4. ConfirmedKept'
  BY DEF IInv, ConfirmedKept, Confirm, rows, HeldSkus
<1> QED
  BY <1>1, <1>3, <1>4 DEF IInv

LEMMA LapseKeeps ==
  ASSUME IInv, NEW s \in Shipments, Lapse(s)
  PROVE  IInv'
<1>1. Shape' /\ NoRowsNoHolds' /\ ConfirmedKept'
  BY DEF IInv, Shape, NoRowsNoHolds, ConfirmedKept, Lapse, stock, rows
<1>2. \A st, v, j : UnitsWith(st, v, j)' = UnitsWith(st, v, j)
  BY DEF Lapse, rows, UnitsWith, Holders
<1>3. ReservedIsHeld' /\ StockReconciles' /\ NothingOversold'
  BY <1>2 DEF IInv, ReservedIsHeld, StockReconciles, NothingOversold, Lapse, stock
<1> QED
  BY <1>1, <1>3 DEF IInv

LEMMA CommitKeeps ==
  ASSUME IInv, NEW s \in Shipments, Commit(s)
  PROVE  IInv'
<1>1. /\ status' = StatusMoved(s, "committed") /\ HeldSkus(s) # {}
      /\ site' = site /\ quantity' = quantity
  BY DEF Commit
<1>2. /\ onHand' \in [Warehouses -> [Skus -> Int]]
      /\ reserved' \in [Warehouses -> [Skus -> Int]]
      /\ dispatched' \in [Warehouses -> [Skus -> Int]]
      /\ \A w \in Warehouses, k \in Skus :
           /\ onHand'[w][k] = onHand[w][k] - HeldHere(s, w, k)
           /\ reserved'[w][k] = reserved[w][k] - HeldHere(s, w, k)
           /\ dispatched'[w][k] = dispatched[w][k] + HeldHere(s, w, k)
  <2>1. /\ onHand' = Shifted(onHand, s, -1) /\ reserved' = Shifted(reserved, s, -1)
        /\ dispatched' = Shifted(dispatched, s, 1)
    BY DEF Commit
  <2>2. /\ onHand \in [Warehouses -> [Skus -> Int]]
        /\ reserved \in [Warehouses -> [Skus -> Int]]
        /\ dispatched \in [Warehouses -> [Skus -> Int]]
    BY DEF IInv, Shape
  <2> QED
    BY <1>1, <2>1, <2>2, ShiftedAt
<1>3. Shape' /\ NoRowsNoHolds' /\ ConfirmedKept'
  BY <1>1, <1>2, MovedShape DEF Commit, IInv, Shape, ConfirmedKept
<1>4. ASSUME NEW w \in Warehouses, NEW k \in Skus
      PROVE  /\ reserved'[w][k] = UnitsWith("held", w, k)'
             /\ dispatched'[w][k] = UnitsWith("committed", w, k)'
             /\ onHand'[w][k] = received'[w][k] - dispatched'[w][k]
             /\ reserved'[w][k] <= onHand'[w][k]
  <2>1. /\ UnitsWith("held", w, k)' = UnitsWith("held", w, k) - HeldHere(s, w, k)
        /\ UnitsWith("committed", w, k)' = UnitsWith("committed", w, k) + HeldHere(s, w, k)
    BY <1>1, MovedUnits
  <2>2. HeldHere(s, w, k) \in Int
    BY MaxQtyPositive DEF HeldHere, IInv, Shape
  <2>3. /\ reserved[w][k] \in Int /\ onHand[w][k] \in Int
        /\ received[w][k] \in Int /\ dispatched[w][k] \in Int
        /\ reserved[w][k] = UnitsWith("held", w, k)
        /\ dispatched[w][k] = UnitsWith("committed", w, k)
        /\ onHand[w][k] = received[w][k] - dispatched[w][k]
        /\ reserved[w][k] <= onHand[w][k]
    BY DEF IInv, Shape, ReservedIsHeld, StockReconciles, NothingOversold
  <2>4. received' = received
    BY DEF Commit
  <2> QED
    BY <1>2, <2>1, <2>2, <2>3, <2>4
<1> QED
  BY <1>3, <1>4 DEF IInv, ReservedIsHeld, StockReconciles, NothingOversold

LEMMA ReleaseKeeps ==
  ASSUME IInv, NEW s \in Shipments, Release(s)
  PROVE  IInv'
<1>1. /\ status' = StatusMoved(s, "released") /\ HeldSkus(s) # {}
      /\ site' = site /\ quantity' = quantity
  BY DEF Release
<1>2. /\ reserved' \in [Warehouses -> [Skus -> Int]]
      /\ \A w \in Warehouses, k \in Skus :
           reserved'[w][k] = reserved[w][k] - HeldHere(s, w, k)
  <2>1. reserved' = Shifted(reserved, s, -1)
    BY DEF Release
  <2>2. reserved \in [Warehouses -> [Skus -> Int]]
    BY DEF IInv, Shape
  <2> QED
    BY <1>1, <2>1, <2>2, ShiftedAt
<1>3. Shape' /\ NoRowsNoHolds' /\ ConfirmedKept'
  BY <1>1, <1>2, MovedShape DEF Release, IInv, Shape, ConfirmedKept
<1>4. ASSUME NEW w \in Warehouses, NEW k \in Skus
      PROVE  /\ reserved'[w][k] = UnitsWith("held", w, k)'
             /\ dispatched'[w][k] = UnitsWith("committed", w, k)'
             /\ onHand'[w][k] = received'[w][k] - dispatched'[w][k]
             /\ reserved'[w][k] <= onHand'[w][k]
  <2>1. /\ UnitsWith("held", w, k)' = UnitsWith("held", w, k) - HeldHere(s, w, k)
        /\ UnitsWith("committed", w, k)' = UnitsWith("committed", w, k) + 0
    BY <1>1, MovedUnits
  <2>2. HeldHere(s, w, k) \in Nat
    BY MaxQtyPositive DEF HeldHere, IInv, Shape
  <2>3. /\ reserved[w][k] \in Int /\ onHand[w][k] \in Int
        /\ received[w][k] \in Int /\ dispatched[w][k] \in Int
        /\ reserved[w][k] = UnitsWith("held", w, k)
        /\ dispatched[w][k] = UnitsWith("committed", w, k)
        /\ onHand[w][k] = received[w][k] - dispatched[w][k]
        /\ reserved[w][k] <= onHand[w][k]
    BY DEF IInv, Shape, ReservedIsHeld, StockReconciles, NothingOversold
  <2>4. received' = received /\ onHand' = onHand /\ dispatched' = dispatched
    BY DEF Release
  <2> QED
    BY <1>2, <2>1, <2>2, <2>3, <2>4
<1> QED
  BY <1>3, <1>4 DEF IInv, ReservedIsHeld, StockReconciles, NothingOversold

LEMMA ExpireKeeps ==
  ASSUME IInv, NEW G \in SUBSET Reclaimable, Expire(G)
  PROVE  IInv'
<1>1. /\ status' = StatusWithout(G) /\ reserved' = ReservedWithout(G)
      /\ UNCHANGED <<onHand, received, dispatched, site, quantity, confirmed, lapsed>>
  BY DEF Expire
<1>2. Shape' /\ NoRowsNoHolds' /\ ConfirmedKept'
  BY <1>1, ExpiredShape, ZenonT(40) DEF IInv, Shape, NoRowsNoHolds, ConfirmedKept
<1>3. ASSUME NEW w \in Warehouses, NEW k \in Skus
      PROVE  /\ reserved'[w][k] = UnitsWith("held", w, k)'
             /\ dispatched'[w][k] = UnitsWith("committed", w, k)'
             /\ reserved'[w][k] <= onHand'[w][k]
  <2>1. UnitsWith("held", w, k)' = UnitsWith("held", w, k) - Freed(G, w, k)
    BY <1>1, ExpiredUnits DEF UnitsWith, Holders
  <2>2. Holders("committed", w, k)' = Holders("committed", w, k)
    BY <1>1, ExpiredShape DEF Holders
  <2>3. UnitsWith("committed", w, k)' = UnitsWith("committed", w, k)
    BY <1>1, <2>2 DEF UnitsWith
  <2>4. reserved'[w][k] = reserved[w][k] - Freed(G, w, k)
    BY <1>1 DEF ReservedWithout
  <2>5. Freed(G, w, k) \in Nat
    BY ExpiredUnits
  <2>6. /\ reserved[w][k] \in Int /\ onHand[w][k] \in Int
        /\ reserved[w][k] = UnitsWith("held", w, k)
        /\ dispatched[w][k] = UnitsWith("committed", w, k)
        /\ reserved[w][k] <= onHand[w][k]
    BY DEF IInv, Shape, ReservedIsHeld, StockReconciles, NothingOversold
  <2> QED
    BY <1>1, <2>1, <2>3, <2>4, <2>5, <2>6
<1> QED
  BY <1>1, <1>2, <1>3 DEF IInv, ReservedIsHeld, StockReconciles, NothingOversold

(* reserve first takes the reclaimed units out, then puts those of s in.   *)
LEMMA HoldKeeps ==
  ASSUME IInv, NEW s \in Shipments, NEW w \in Warehouses, NEW want \in Wants,
         NEW G \in SUBSET Reclaimable, Hold(s, w, want, G)
  PROVE  IInv'
<1>1. /\ site' = [site EXCEPT ![s] = w]
      /\ quantity' = [quantity EXCEPT ![s] = want]
      /\ status' = [StatusWithout(G) EXCEPT ![s] =
                      [k \in Skus |-> IF want[k] > 0 THEN "held" ELSE "none"]]
      /\ UNCHANGED <<onHand, received, dispatched, confirmed, lapsed>>
      /\ site[s] = NoSite
  BY DEF Hold, HasRows
<1>2. \A k \in Skus : want[k] \in 0..MaxQty
  BY DEF Wants
<1>3. /\ reserved' \in [Warehouses -> [Skus -> Int]]
      /\ \A v \in Warehouses, k \in Skus :
           reserved'[v][k] = reserved[v][k] - Freed(G, v, k)
                               + IF v = w THEN want[k] ELSE 0
  <2>1. reserved' = [ReservedWithout(G) EXCEPT ![w] = [k \in Skus |-> @[k] + want[k]]]
    BY DEF Hold
  <2>2. ReservedWithout(G) \in [Warehouses -> [Skus -> Int]]
    BY ExpiredShape
  <2>3. \A v \in Warehouses, k \in Skus :
          /\ ReservedWithout(G)[v][k] = reserved[v][k] - Freed(G, v, k)
          /\ ReservedWithout(G)[v][k] \in Int
    BY <2>2 DEF ReservedWithout
  <2>4. reserved' = [v \in Warehouses |->
          IF v = w THEN [k \in Skus |-> ReservedWithout(G)[w][k] + want[k]]
          ELSE ReservedWithout(G)[v]]
    BY <2>1, <2>2
  <2>5. \A k \in Skus : want[k] \in Int
    BY <1>2, MaxQtyPositive
  <2>6. reserved' \in [Warehouses -> [Skus -> Int]]
    BY <2>2, <2>4, <2>5
  <2>7. \A v \in Warehouses, k \in Skus :
          reserved'[v][k] = ReservedWithout(G)[v][k] + IF v = w THEN want[k] ELSE 0
    BY <2>2, <2>4, <2>5
  <2> QED
    BY <2>3, <2>6, <2>7
<1>4. Shape'
  <2>1. status' \in [Shipments -> [Skus -> Status]]
    BY <1>1, ExpiredShape DEF Status
  <2>2. site' \in [Shipments -> Warehouses \cup {NoSite}]
    BY <1>1 DEF IInv, Shape
  <2>3. quantity' \in [Shipments -> [Skus -> 0..MaxQty]]
    BY <1>1, <1>2 DEF IInv, Shape, Wants
  <2> QED
    BY <1>1, <1>3, <2>1, <2>2, <2>3 DEF IInv, Shape
<1>5. /\ \A k \in Skus : status'[s][k] = IF want[k] > 0 THEN "held" ELSE "none"
      /\ \A r \in Shipments \ {s} :
           /\ site'[r] = site[r] /\ quantity'[r] = quantity[r]
           /\ \A k \in Skus : status'[r][k] = StatusWithout(G)[r][k]
      /\ site'[s] = w /\ quantity'[s] = want
  BY <1>1, ExpiredShape DEF IInv, Shape
<1>6. \A r \in Shipments, k \in Skus :
        /\ site[r] = NoSite => StatusWithout(G)[r][k] = "none"
        /\ StatusWithout(G)[r][k] = "expired" => <<r, k>> \notin confirmed
        /\ StatusWithout(G)[r][k] = "committed" <=> status[r][k] = "committed"
  BY ExpiredShape
<1>7. NoRowsNoHolds'
  <2> SUFFICES ASSUME NEW r \in Shipments, site'[r] = NoSite, NEW k \in Skus
               PROVE  status'[r][k] = "none"
    BY DEF NoRowsNoHolds
  <2>1. r # s
    BY <1>5, NoSiteFresh
  <2>2. site[r] = NoSite
    BY <1>5, <2>1
  <2>3. StatusWithout(G)[r][k] = "none"
    BY <1>6, <2>2
  <2>4. status'[r][k] = StatusWithout(G)[r][k]
    BY <1>5, <2>1
  <2> QED
    BY <2>3, <2>4
<1>8. ConfirmedKept'
  BY <1>1, <1>5, <1>6 DEF ConfirmedKept
<1>9. ASSUME NEW v \in Warehouses, NEW k \in Skus
      PROVE  /\ reserved'[v][k] = UnitsWith("held", v, k)'
             /\ dispatched'[v][k] = UnitsWith("committed", v, k)'
             /\ reserved'[v][k] <= onHand'[v][k]
  <2> DEFINE K == {r \in Shipments : site[r] = v /\ StatusWithout(G)[r][k] = "held"}
             H == Holders("held", v, k)
             C == Holders("committed", v, k)
             new == IF v = w THEN want[k] ELSE 0
  <2>1. /\ Count(quantity, K, k) = UnitsWith("held", v, k) - Freed(G, v, k)
        /\ Count(quantity, K, k) \in Nat /\ Freed(G, v, k) \in Nat
        /\ UnitsWith("held", v, k) \in Nat
    BY ExpiredUnits
  <2>2. s \notin K /\ s \notin C
    BY <1>1, NoSiteFresh DEF Holders
  <2>3. Count(quantity', K, k) = Count(quantity, K, k)
    BY <1>5, <2>2, CountSame
  <2>4. C' = C
    <3>1. ASSUME NEW r \in Shipments
          PROVE  (site'[r] = v /\ status'[r][k] = "committed")
                   <=> (site[r] = v /\ status[r][k] = "committed")
      <4>1. CASE r = s
        BY <1>1, <1>5, <4>1, NoSiteFresh
      <4>2. CASE r # s
        BY <1>5, <1>6, <4>2
      <4> QED
        BY <4>1, <4>2
    <3> QED
      BY <3>1 DEF Holders
  <2>5. Count(quantity', C, k) = Count(quantity, C, k)
    BY <1>5, <2>2, CountSame DEF Holders
  <2>6. new \in Nat
    BY <1>2, MaxQtyPositive
  <2>7. Count(quantity', H', k) = Count(quantity', K, k) + new
    <3>1. CASE v = w /\ want[k] > 0
      <4>1. H' = K \cup {s}
        BY <1>5, <3>1 DEF Holders
      <4>2. Count(quantity', {s}, k) = want[k]
        BY <1>2, <1>5, CountOne, SMTT(30)
      <4>3. K \in SUBSET Shipments /\ {s} \in SUBSET Shipments /\ K \cap {s} = {}
        BY <2>2
      <4>4. Count(quantity', K \cup {s}, k) = Count(quantity', K, k) + Count(quantity', {s}, k)
        <5> HIDE DEF K
        <5> QED BY <4>3, CountSplit
      <4> QED
        BY <3>1, <4>1, <4>2, <4>4
    <3>2. CASE ~(v = w /\ want[k] > 0)
      <4>1. H' = K
        BY <1>5, <2>2, <3>2 DEF Holders
      <4>2. new = 0
        BY <1>2, <3>2, MaxQtyPositive
      <4>3. Count(quantity', K, k) \in Nat
        BY <2>1, <2>3
      <4> HIDE DEF K, H, C, new
      <4> QED
        BY <4>1, <4>2, <4>3
    <3> QED
      BY <3>1, <3>2
  <2>8. /\ reserved[v][k] \in Int /\ onHand[v][k] \in Int
        /\ reserved[v][k] = UnitsWith("held", v, k)
        /\ dispatched[v][k] = UnitsWith("committed", v, k)
        /\ reserved[v][k] <= onHand[v][k]
    BY DEF IInv, Shape, ReservedIsHeld, StockReconciles, NothingOversold
  <2>9. reserved'[v][k] = reserved[v][k] - Freed(G, v, k) + new
    BY <1>3
  <2>10. UnitsWith("held", v, k)' = Count(quantity', K, k) + new
    BY <2>7 DEF UnitsWith
  <2>11. reserved'[v][k] = UnitsWith("held", v, k)'
    <3> HIDE DEF K, H, C, new
    <3> QED BY <2>1, <2>3, <2>6, <2>8, <2>9, <2>10
  <2>12. UnitsWith("committed", v, k)' = UnitsWith("committed", v, k)
    BY <2>4, <2>5 DEF UnitsWith
  <2>13. reserved'[v][k] <= onHand[v][k]
    <3>1. CASE v = w /\ want[k] > 0
      <4>1. want[k] <= onHand[v][k] - ReservedWithout(G)[v][k]
        BY <3>1 DEF Hold, Available
      <4>2. ReservedWithout(G)[v][k] = reserved[v][k] - Freed(G, v, k)
        BY DEF ReservedWithout
      <4>3. new = want[k]
        BY <3>1
      <4> HIDE DEF K, H, C, new
      <4> QED
        BY <2>1, <2>6, <2>8, <2>9, <4>1, <4>2, <4>3
    <3>2. CASE ~(v = w /\ want[k] > 0)
      <4>1. new = 0
        BY <1>2, <3>2, MaxQtyPositive
      <4> HIDE DEF K, H, C, new
      <4> QED
        BY <2>1, <2>8, <2>9, <4>1
    <3> QED
      BY <3>1, <3>2
  <2> QED
    BY <1>1, <2>8, <2>11, <2>12, <2>13
<1> QED
  BY <1>1, <1>4, <1>7, <1>8, <1>9 DEF IInv, ReservedIsHeld, StockReconciles, NothingOversold
-----------------------------------------------------------------------------
LEMMA NextKeeps == IInv /\ [Next]_vars => IInv'
<1> SUFFICES ASSUME IInv, [Next]_vars PROVE IInv'
  OBVIOUS
<1>1. ASSUME NEW w \in Warehouses, NEW k \in Skus, NEW delta \in Deltas, Adjust(w, k, delta)
      PROVE  IInv'
  BY <1>1, AdjustKeeps
<1>2. ASSUME NEW s \in Shipments, NEW w \in Warehouses, NEW want \in Wants,
             NEW G \in SUBSET Reclaimable, Hold(s, w, want, G)
      PROVE  IInv'
  BY <1>2, HoldKeeps
<1>3. ASSUME NEW s \in Shipments, Confirm(s) \/ Commit(s) \/ Release(s) \/ Lapse(s)
      PROVE  IInv'
  BY <1>3, ConfirmKeeps, CommitKeeps, ReleaseKeeps, LapseKeeps
<1>4. ASSUME NEW G \in SUBSET Reclaimable, Expire(G)
      PROVE  IInv'
  BY <1>4, ExpireKeeps
<1>5. CASE UNCHANGED vars
  <2>1. \A st, v, j : UnitsWith(st, v, j)' = UnitsWith(st, v, j)
    BY <1>5 DEF vars, rows, UnitsWith, Holders
  <2> QED
    BY <1>5, <2>1 DEF vars, stock, rows, IInv, Shape, NoRowsNoHolds, ReservedIsHeld,
         StockReconciles, NothingOversold, ConfirmedKept
<1> QED
  BY <1>1, <1>2, <1>3, <1>4, <1>5 DEF Next

THEOREM InductiveInvariant == Spec => []IInv
BY InitIInv, NextKeeps, PTL DEF Spec

(* Type correctness: the unsigned columns and the ledger totals never go   *)
(* below zero, whatever order the handlers run in.                         *)
THEOREM TypesHold == Spec => []TypeOK
BY InductiveInvariant, IInvGivesTypes, PTL

(* reserved_qty is always the sum of the HELD rows at the position.        *)
THEOREM ReservedIsAlwaysHeld == Spec => []ReservedIsHeld
<1>1. IInv => ReservedIsHeld
  BY DEF IInv
<1> QED
  BY <1>1, InductiveInvariant, PTL

(* No oversell: what is held never exceeds what is on hand, so the CHECK   *)
(* constraint never refuses a commit, a release or an expiry.              *)
THEOREM NeverOversold == Spec => []NothingOversold
<1>1. IInv => NothingOversold
  BY DEF IInv
<1> QED
  BY <1>1, InductiveInvariant, PTL

(* Every dispatched unit is deducted once and is in the ledger once.       *)
THEOREM AlwaysReconciles == Spec => []StockReconciles
<1>1. IInv => StockReconciles
  BY DEF IInv
<1> QED
  BY <1>1, InductiveInvariant, PTL

(* Confirmed holds never expire.                                           *)
THEOREM ConfirmedNeverExpires == Spec => []ConfirmedKept
<1>1. IInv => ConfirmedKept
  BY DEF IInv
<1> QED
  BY <1>1, InductiveInvariant, PTL
-----------------------------------------------------------------------------
(* A step of any handler leaves the rows of a shipment in place and their  *)
(* final statuses alone.                                                   *)
LEMMA StepKeepsRows == IInv /\ [Next]_vars => RowsFinal
<1> SUFFICES ASSUME IInv, [Next]_vars, NEW r \in Shipments, site[r] # NoSite
             PROVE  /\ site'[r] = site[r]
                    /\ quantity'[r] = quantity[r]
                    /\ \A j \in Skus : status[r][j] # "held" => status'[r][j] = status[r][j]
  BY DEF RowsFinal
<1> USE DEF IInv, Shape
<1>1. ASSUME NEW w \in Warehouses, NEW k \in Skus, NEW delta \in Deltas, Adjust(w, k, delta)
      PROVE  site' = site /\ quantity' = quantity /\ status' = status
  BY <1>1 DEF Adjust, rows
<1>2. ASSUME NEW s \in Shipments, NEW w \in Warehouses, NEW want \in Wants,
             NEW G \in SUBSET Reclaimable, Hold(s, w, want, G)
      PROVE  /\ site'[r] = site[r] /\ quantity'[r] = quantity[r]
             /\ \A j \in Skus : status[r][j] # "held" => status'[r][j] = status[r][j]
  <2>1. r # s
    BY <1>2 DEF Hold, HasRows
  <2>2. site'[r] = site[r] /\ quantity'[r] = quantity[r]
    BY <1>2, <2>1 DEF Hold
  <2>3. \A j \in Skus : status'[r][j] = StatusWithout(G)[r][j]
    BY <1>2, <2>1 DEF Hold, StatusWithout
  <2>4. \A j \in Skus : <<r, j>> \in G => status[r][j] = "held"
    BY DEF Reclaimable
  <2> QED
    BY <2>2, <2>3, <2>4 DEF StatusWithout
<1>3. ASSUME NEW s \in Shipments, Confirm(s) \/ Lapse(s)
      PROVE  site' = site /\ quantity' = quantity /\ status' = status
  BY <1>3 DEF Confirm, Lapse, rows
<1>4. ASSUME NEW s \in Shipments, Commit(s) \/ Release(s)
      PROVE  /\ site' = site /\ quantity' = quantity
             /\ \A j \in Skus : status[r][j] # "held" => status'[r][j] = status[r][j]
  <2>1. site' = site /\ quantity' = quantity
    BY <1>4 DEF Commit, Release
  <2>2. PICK to \in {"committed", "released"} : status' = StatusMoved(s, to)
    BY <1>4 DEF Commit, Release
  <2> QED
    BY <2>1, <2>2 DEF StatusMoved, HeldSkus
<1>5. ASSUME NEW G \in SUBSET Reclaimable, Expire(G)
      PROVE  /\ site' = site /\ quantity' = quantity
             /\ \A j \in Skus : status[r][j] # "held" => status'[r][j] = status[r][j]
  BY <1>5 DEF Expire, StatusWithout, Reclaimable
<1>6. CASE UNCHANGED vars
  BY <1>6 DEF vars, rows
<1> QED
  BY <1>1, <1>2, <1>3, <1>4, <1>5, <1>6 DEF Next

(* A shipment gets its rows once and a finished row is never revived.      *)
THEOREM RowsAreFinal == Spec => HoldsAreFinal
<1>1. IInv /\ [Next]_vars => [RowsFinal]_vars
  BY StepKeepsRows
<1> QED
  BY <1>1, InductiveInvariant, PTL DEF Spec, HoldsAreFinal

-----------------------------------------------------------------------------
(* The sessions: the invariant of ReservationTx.                           *)

TxShape ==
  /\ opened \in SUBSET Positions
  /\ lock \in [Positions -> SUBSET Txs]
  /\ entry \in [Lines -> Txs \cup {Nobody}]
  /\ pc \in [Txs -> {"idle", "lock", "insert"}]
  /\ DOMAIN job = Txs /\ DOMAIN left = Txs
  /\ todo \in [Txs -> SUBSET Positions]
  /\ seen \in [Txs -> [Positions -> [onHand : Nat, reserved : Nat]]]
  /\ gone \in [Txs -> SUBSET Lines]

(* A row lock has one holder.                                              *)
Alone == \A p \in Positions : \A t, u \in lock[p] : t = u

(* A shipment has no rows, or those of the body sent for it.               *)
RowsOf(s) ==
  IF site[s] = NoSite THEN \A k \in Skus : quantity[s][k] = 0
  ELSE \E b \in Bodies[s] :
         /\ site[s] = b.w
         /\ \A k \in Skus : status[s][k] # "none" <=> b.want[k] > 0
         /\ WantedItems(b) \subseteq opened

Unopened ==
  \A w \in Warehouses, k \in Skus : <<w, k>> \notin opened =>
    onHand[w][k] = 0 /\ reserved[w][k] = 0 /\ received[w][k] = 0

(* What a session has locked it has read, and it keeps to the order.       *)
Locks(t) ==
  /\ Owned(t) \cup todo[t] \subseteq opened
  /\ \A p \in Owned(t) : seen[t][p] = Row(p)
  /\ \A p \in Owned(t), q \in todo[t] : ItemId[p] < ItemId[q]
  /\ pc[t] = "idle" => Owned(t) = {}
  /\ pc[t] # "lock" => todo[t] = {}

(* What it has locked, or will, is what its request is about.              *)
Serves(t) ==
  /\ pc[t] = "insert" \/ (pc[t] = "lock" /\ job[t].op = "reserve") =>
       /\ job[t].s \in Shipments /\ job[t].b \in Bodies[job[t].s]
       /\ Owned(t) \cup todo[t] \subseteq WantedItems(job[t].b)
  /\ pc[t] = "insert" => WantedItems(job[t].b) \subseteq Owned(t)
  /\ pc[t] = "lock" /\ job[t].op \in {"confirm", "commit", "release"} =>
       /\ job[t].s \in Shipments /\ site[job[t].s] # NoSite
       /\ HeldItems(job[t].s) \subseteq Owned(t) \cup todo[t]
  /\ pc[t] = "lock" /\ job[t].op = "adjust" =>
       /\ job[t].p \in Positions /\ job[t].delta \in Deltas
       /\ Owned(t) \cup todo[t] = {job[t].p}

(* The rows a reserve reclaims are on items it holds, and it can afford    *)
(* what it asks for once they are gone.                                    *)
Reclaims(t) ==
  /\ gone[t] \subseteq Reclaimable
  /\ \A l \in gone[t] : <<site[l[1]], l[2]>> \in Owned(t)
  /\ pc[t] = "insert" => \A p \in Owned(t) :
       job[t].b.want[p[2]] <= seen[t][p].onHand - (seen[t][p].reserved - FreedAt(gone[t], p))

(* Every line of a reserve is still to insert, or was free when inserted   *)
(* and is free yet.                                                        *)
Inserts(t) ==
  pc[t] = "insert" =>
    /\ left[t] \in Seq(Wanted(job[t].b))
    /\ \A i, j \in 1..Len(left[t]) : left[t][i] = left[t][j] => i = j
    /\ \A k \in Wanted(job[t].b) :
         (\E i \in 1..Len(left[t]) : left[t][i] = k) \/ status[job[t].s][k] = "none"

(* An index entry belongs to a session that inserts the line, and is past it. *)
Enters(t) ==
  \A l \in Lines : entry[l] = t =>
    /\ pc[t] = "insert" /\ job[t].s = l[1]
    /\ \A i \in 1..Len(left[t]) : left[t][i] # l[2]

Session(t) == Locks(t) /\ Serves(t) /\ Reclaims(t) /\ Inserts(t) /\ Enters(t)

Tables == IInv /\ (\A s \in Shipments : RowsOf(s)) /\ Unopened

TxInv == TxShape /\ Tables /\ Alone /\ \A t \in Txs : Session(t)
-----------------------------------------------------------------------------
(* Every set of items has a first and a last one in the order of locking.  *)
Below == {ss \in Nat \X Nat : ss[1] < ss[2]}

LEMMA LeastNumber ==
  ASSUME NEW I, I \subseteq Nat, I # {}
  PROVE  \E i \in I : \A j \in I : i <= j
<1>1. IsWellFoundedOn(Below, Nat)
  BY NatLessThanWellFounded DEF OpToRel, Below
<1>2. PICK i \in I : \A j \in I : ~ (<<j, i>> \in Below)
  BY <1>1, WFMin
<1>3. \A j \in I : i \in Nat /\ j \in Nat /\ ~ (j < i)
  <2> SUFFICES ASSUME NEW j \in I PROVE i \in Nat /\ j \in Nat /\ ~ (j < i)
    OBVIOUS
  <2>1. i \in Nat /\ j \in Nat
    OBVIOUS
  <2> QED
    BY <1>2, <2>1 DEF Below
<1> QED
  BY <1>3

LEMMA HasFirst ==
  ASSUME NEW S, S \subseteq Positions, S # {}
  PROVE  \E p \in S : \A q \in S : ItemId[p] <= ItemId[q]
<1> DEFINE I == {ItemId[p] : p \in S}
<1>1. I \subseteq Nat /\ I # {}
  BY ItemIdInjective
<1>2. \A q \in S : ItemId[q] \in I
  OBVIOUS
<1>3. \A i \in I : \E p \in S : ItemId[p] = i
  OBVIOUS
<1> HIDE DEF I
<1>4. PICK i \in I : \A j \in I : i <= j
  BY <1>1, LeastNumber
<1> QED
  BY <1>2, <1>3, <1>4

LEMMA HasLast ==
  ASSUME NEW S, S \subseteq Positions, S # {}
  PROVE  \E p \in S : \A q \in S : ItemId[q] <= ItemId[p]
<1> DEFINE I == {MaxId - ItemId[p] : p \in S}
<1>0. \A p \in S : ItemId[p] \in Nat /\ ItemId[p] <= MaxId /\ MaxId \in Nat
  BY ItemIdInjective
<1>1. I \subseteq Nat /\ I # {}
  BY <1>0
<1>2. \A q \in S : MaxId - ItemId[q] \in I
  OBVIOUS
<1>3. \A i \in I : \E p \in S : MaxId - ItemId[p] = i
  OBVIOUS
<1> HIDE DEF I
<1>4. PICK i \in I : \A j \in I : i <= j
  BY <1>1, LeastNumber
<1>5. PICK p \in S : MaxId - ItemId[p] = i
  BY <1>3
<1>6. \A q \in S : MaxId - ItemId[p] <= MaxId - ItemId[q]
  BY <1>2, <1>4, <1>5
<1> QED
  BY <1>0, <1>6

LEMMA NextItemIsFirst ==
  ASSUME NEW t \in Txs, todo[t] \subseteq Positions, todo[t] # {}
  PROVE  /\ NextItem(t) \in todo[t]
         /\ \A q \in todo[t] \ {NextItem(t)} : ItemId[NextItem(t)] < ItemId[q]
<1>1. \E p \in todo[t] : \A q \in todo[t] : ItemId[p] <= ItemId[q]
  BY HasFirst
<1>2. NextItem(t) \in todo[t] /\ \A q \in todo[t] : ItemId[NextItem(t)] <= ItemId[q]
  BY <1>1 DEF NextItem
<1> QED
  BY <1>2, ItemIdInjective
-----------------------------------------------------------------------------
LEMMA TxInitInv == TxInit => TxInv
<1> SUFFICES ASSUME TxInit PROVE TxInv
  OBVIOUS
<1>1. IInv
  BY InitIInv DEF TxInit
<1>2. TxShape
  BY DEF TxInit, TxShape, Unread
<1>3. \A t \in Txs : Owned(t) = {} /\ pc[t] = "idle" /\ todo[t] = {} /\ gone[t] = {}
  BY DEF TxInit, Owned
<1>4. Alone
  BY DEF TxInit, Alone
<1>5. \A s \in Shipments : RowsOf(s)
  BY DEF TxInit, Init, RowsOf
<1>6. Unopened
  BY DEF TxInit, Init, Unopened
<1>7. \A t \in Txs : Enters(t)
  BY NobodyFresh DEF TxInit, Enters
<1>8. \A t \in Txs : Session(t)
  BY <1>3, <1>7 DEF Session, Locks, Serves, Reclaims, Inserts
<1> QED
  BY <1>1, <1>2, <1>4, <1>5, <1>6, <1>8 DEF TxInv, Tables
-----------------------------------------------------------------------------
(* What a transaction that holds the items O may do to the tables.         *)
KeepsOthers(O) ==
  /\ opened \cup O \subseteq opened' /\ opened' \subseteq Positions
  /\ \A w \in Warehouses, k \in Skus : <<w, k>> \notin O =>
       /\ onHand'[w][k] = onHand[w][k] /\ reserved'[w][k] = reserved[w][k]
       /\ received'[w][k] = received[w][k]
  /\ \A s \in Shipments : site[s] # NoSite => site'[s] = site[s] /\ quantity'[s] = quantity[s]
  /\ \A s \in Shipments, k \in Skus :
       status[s][k] = "none" /\ status'[s][k] # "none" => <<site'[s], k>> \in O
  /\ \A s \in Shipments, k \in Skus :
       site[s] # NoSite /\ status'[s][k] = "held" => status[s][k] = "held"
  /\ \A l \in Reclaimable : <<site[l[1]], l[2]>> \notin O => l \in Reclaimable'

(* The session u is not concerned.                                         *)
Same(u) ==
  /\ pc'[u] = pc[u] /\ job'[u] = job[u] /\ todo'[u] = todo[u]
  /\ seen'[u] = seen[u] /\ gone'[u] = gone[u] /\ left'[u] = left[u]
  /\ Owned(u)' = Owned(u)
  /\ \A l \in Lines : entry'[l] = u <=> entry[l] = u

LEMMA ReclaimableSited ==
  ASSUME IInv, NEW l \in Reclaimable
  PROVE  l \in Lines /\ l[1] \in Shipments /\ l[2] \in Skus /\ site[l[1]] # NoSite
         /\ site[l[1]] \in Warehouses /\ l = <<l[1], l[2]>>
  BY DEF Reclaimable, Lines, IInv, NoRowsNoHolds, Shape

LEMMA FreedSame ==
  ASSUME IInv, NEW O, KeepsOthers(O), NEW G \in SUBSET Reclaimable,
         NEW w \in Warehouses, NEW k \in Skus
  PROVE  Freed(G, w, k)' = Freed(G, w, k)
<1>1. \A s \in Shipments : <<s, k>> \in G =>
        site[s] # NoSite /\ site'[s] = site[s] /\ quantity'[s] = quantity[s]
  BY ReclaimableSited DEF KeepsOthers
<1>2. Losers(G, w, k)' = Losers(G, w, k)
  BY <1>1 DEF Losers
<1>3. Losers(G, w, k) \in SUBSET Shipments /\ \A s \in Losers(G, w, k) : quantity'[s][k] = quantity[s][k]
  BY <1>1 DEF Losers
<1>4. Count(quantity', Losers(G, w, k), k) = Count(quantity, Losers(G, w, k), k)
  BY <1>3, CountSame
<1> QED
  BY <1>2, <1>4 DEF Freed

LEMMA OneBodyServed ==
  ASSUME NEW s \in Shipments, NEW b \in Bodies[s], RowsOf(s), NEW k \in Skus, site[s] # NoSite
  PROVE  site[s] = b.w /\ (status[s][k] # "none" <=> b.want[k] > 0) /\ WantedItems(b) \subseteq opened
<1>1. PICK c \in Bodies[s] :
         /\ site[s] = c.w
         /\ \A j \in Skus : status[s][j] # "none" <=> c.want[j] > 0
         /\ WantedItems(c) \subseteq opened
  BY DEF RowsOf
<1>2. b.w = c.w /\ b.want = c.want
  BY OneBody
<1> QED
  BY <1>1, <1>2 DEF WantedItems, Wanted

(* Whatever a transaction does to the items it holds, a session it does    *)
(* not meet keeps what it relies on.                                       *)
LEMMA OthersKeep ==
  ASSUME TxInv, NEW O, KeepsOthers(O), IInv', \A s \in Shipments : RowsOf(s)',
         NEW u \in Txs, Same(u), Owned(u) \cap O = {}
  PROVE  Session(u)'
<1> USE DEF Same
<1>0. Session(u) /\ IInv /\ TxShape
  BY DEF TxInv, Tables
<1>1. Locks(u)'
  <2>1. Locks(u)
    BY <1>0 DEF Session
  <2>2. \A p \in Owned(u) : p[1] \in Warehouses /\ p[2] \in Skus /\ p = <<p[1], p[2]>>
    BY DEF Owned, Positions
  <2>3. \A p \in Owned(u) : Row(p)' = Row(p)
    <3> SUFFICES ASSUME NEW p \in Owned(u) PROVE Row(p)' = Row(p)
      OBVIOUS
    <3>1. p \notin O
      OBVIOUS
    <3> QED
      BY <2>2, <3>1 DEF KeepsOthers, Row
  <2>4. opened \subseteq opened'
    BY DEF KeepsOthers
  <2> QED
    BY <2>1, <2>3, <2>4 DEF Locks
<1>2. Serves(u)'
  <2>1. Serves(u)
    BY <1>0 DEF Session
  <2>2. ASSUME NEW s \in Shipments, site[s] # NoSite
        PROVE  site'[s] # NoSite /\ HeldItems(s)' \subseteq HeldItems(s)
    BY <2>2 DEF KeepsOthers, HeldItems, HeldSkus
  <2> QED
    BY <2>1, <2>2 DEF Serves
<1>3. Reclaims(u)'
  <2>1. Reclaims(u)
    BY <1>0 DEF Session
  <2>2. gone[u] \subseteq Reclaimable'
    BY <2>1 DEF Reclaims, KeepsOthers
  <2>3. \A l \in gone[u] : site'[l[1]] = site[l[1]]
    BY <1>0, <2>1, ReclaimableSited DEF Reclaims, KeepsOthers
  <2>4. \A p \in Owned(u) : FreedAt(gone[u], p)' = FreedAt(gone[u], p)
    <3> SUFFICES ASSUME NEW p \in Owned(u) PROVE FreedAt(gone[u], p)' = FreedAt(gone[u], p)
      OBVIOUS
    <3>1. p[1] \in Warehouses /\ p[2] \in Skus
      BY DEF Owned, Positions
    <3>2. gone[u] \in SUBSET Reclaimable
      BY <2>1 DEF Reclaims
    <3>3. Freed(gone[u], p[1], p[2])' = Freed(gone[u], p[1], p[2])
      BY <1>0, <3>1, <3>2, FreedSame
    <3> QED
      BY <3>3 DEF FreedAt
  <2> QED
    BY <2>1, <2>2, <2>3, <2>4 DEF Reclaims
<1>4. Inserts(u)'
  <2>1. Inserts(u) /\ Serves(u)
    BY <1>0 DEF Session
  <2> SUFFICES ASSUME pc[u] = "insert" PROVE Inserts(u)'
    BY DEF Inserts
  <2>2. job[u].s \in Shipments /\ job[u].b \in Bodies[job[u].s] /\ WantedItems(job[u].b) \subseteq Owned(u)
    BY <2>1 DEF Serves
  <2>3. ASSUME NEW k \in Wanted(job[u].b), status[job[u].s][k] = "none"
        PROVE  status'[job[u].s][k] = "none"
    <3> DEFINE s == job[u].s
               b == job[u].b
    <3>1. k \in Skus /\ b.w \in Warehouses /\ <<b.w, k>> \in Owned(u)
      BY <2>2, BodiesTyped, ZenonT(40) DEF Wanted, WantedItems
    <3> SUFFICES ASSUME status'[s][k] # "none" PROVE FALSE
      OBVIOUS
    <3>2. <<site'[s], k>> \in O
      BY <2>2, <2>3, <3>1 DEF KeepsOthers
    <3>3. site'[s] # NoSite
      BY <2>2, <3>1 DEF IInv, NoRowsNoHolds
    <3>4. site'[s] = b.w
      <4>1. RowsOf(s)'
        BY <2>2
      <4>2. PICK c \in Bodies[s] : site'[s] = c.w
        BY <3>3, <4>1 DEF RowsOf
      <4> QED
        BY <2>2, <4>2, OneBody
    <3> QED
      BY <3>1, <3>2, <3>4
  <2> QED
    BY <2>1, <2>3, SMTT(30) DEF Inserts
<1>5. Enters(u)'
  BY <1>0 DEF Session, Enters
<1> QED
  BY <1>1, <1>2, <1>3, <1>4, <1>5 DEF Session

(* Positions nobody opened stay empty, whoever does what to others.        *)
LEMMA UnopenedKeeps ==
  ASSUME Unopened, NEW O, KeepsOthers(O)
  PROVE  Unopened'
  BY DEF Unopened, KeepsOthers

(* COMMIT and ROLLBACK: the session is idle, and nobody else's.            *)
LEMMA EndFacts ==
  ASSUME TxShape, NEW t \in Txs, End(t), opened' \subseteq Positions
  PROVE  /\ TxShape'
         /\ Owned(t)' = {} /\ pc'[t] = "idle" /\ todo'[t] = {} /\ gone'[t] = {}
         /\ \A l \in Lines : entry'[l] # t
         /\ \A u \in Txs \ {t} : Same(u)
<1>1. TxShape'
  BY DEF TxShape, End, Unread
<1>2. Owned(t)' = {} /\ pc'[t] = "idle" /\ todo'[t] = {} /\ gone'[t] = {}
  BY DEF TxShape, End, Owned
<1>3. \A l \in Lines : entry'[l] # t
  BY NobodyFresh DEF TxShape, End
<1>4. ASSUME NEW u \in Txs \ {t}
      PROVE  Same(u)
  <2>1. Owned(u)' = Owned(u)
    BY DEF TxShape, End, Owned
  <2>2. \A l \in Lines : entry'[l] = u <=> entry[l] = u
    BY NobodyFresh DEF TxShape, End
  <2> QED
    BY <2>1, <2>2 DEF TxShape, End, Same
<1> QED
  BY <1>1, <1>2, <1>3, <1>4

(* So much for the sessions; what a handler has to see to is the tables.   *)
LEMMA EndKeeps ==
  ASSUME TxInv, NEW t \in Txs, End(t), KeepsOthers(Owned(t)),
         IInv', \A s \in Shipments : RowsOf(s)'
  PROVE  TxInv'
<1>1. TxShape /\ Unopened /\ opened' \subseteq Positions
  BY DEF TxInv, Tables, KeepsOthers
<1>2. /\ TxShape'
      /\ Owned(t)' = {} /\ pc'[t] = "idle" /\ todo'[t] = {} /\ gone'[t] = {}
      /\ \A l \in Lines : entry'[l] # t
      /\ \A u \in Txs \ {t} : Same(u)
  BY <1>1, EndFacts
<1>3. Session(t)'
  BY <1>2 DEF Session, Locks, Serves, Reclaims, Inserts, Enters
<1>4. ASSUME NEW u \in Txs, u # t
      PROVE  Session(u)'
  <2>1. Owned(u) \cap Owned(t) = {}
    BY <1>4 DEF TxInv, Alone, Owned
  <2> QED
    BY <1>2, <1>4, <2>1, OthersKeep
<1>5. Alone'
  BY DEF TxInv, Alone, End, TxShape
<1>6. Unopened'
  BY <1>1, UnopenedKeeps
<1> QED
  BY <1>2, <1>3, <1>4, <1>5, <1>6 DEF TxInv, Tables

(* A step that changes no table.                                           *)
LEMMA QuietKeeps ==
  ASSUME TxInv, UNCHANGED <<db, opened>>
  PROVE  KeepsOthers({}) /\ IInv' /\ (\A s \in Shipments : RowsOf(s)') /\ Unopened'
<1>1. opened \subseteq Positions /\ IInv /\ (\A s \in Shipments : RowsOf(s)) /\ Unopened
  BY DEF TxInv, Tables, TxShape
<1>2. KeepsOthers({})
  BY <1>1 DEF KeepsOthers, db, vars, stock, rows, Reclaimable
<1>3. IInv'
  BY <1>1, NextKeeps DEF db
<1>4. (\A s \in Shipments : RowsOf(s)') /\ Unopened'
  BY <1>1 DEF RowsOf, Unopened, db, vars, stock, rows
<1> QED
  BY <1>2, <1>3, <1>4

LEMMA RollbackKeeps ==
  ASSUME TxInv, NEW t \in Txs, Rollback(t)
  PROVE  TxInv'
<1>1. KeepsOthers({}) /\ IInv' /\ \A s \in Shipments : RowsOf(s)'
  BY QuietKeeps DEF Rollback
<1>2. Owned(t) \subseteq opened
  BY DEF TxInv, Session, Locks
<1>3. KeepsOthers(Owned(t))
  BY <1>1, <1>2 DEF KeepsOthers, Rollback
<1> QED
  BY <1>1, <1>3, EndKeeps DEF Rollback

(* A request begins: its items are chosen, none is locked.                 *)
LEMMA StartKeeps ==
  ASSUME TxInv, NEW t \in Txs, NEW j, NEW I, Start(t, j, I), I \subseteq opened,
         j.op = "reserve" =>
           j.s \in Shipments /\ j.b \in Bodies[j.s] /\ I \subseteq WantedItems(j.b),
         j.op \in {"confirm", "commit", "release"} =>
           j.s \in Shipments /\ site[j.s] # NoSite /\ HeldItems(j.s) \subseteq I,
         j.op = "adjust" => j.p \in Positions /\ j.delta \in Deltas /\ I = {j.p}
  PROVE  TxInv'
<1>1. KeepsOthers({}) /\ IInv' /\ (\A s \in Shipments : RowsOf(s)') /\ Unopened'
  BY QuietKeeps DEF Start
<1>2. TxShape /\ Session(t) /\ pc[t] = "idle" /\ opened \subseteq Positions
  BY DEF TxInv, Start, TxShape
<1>3. TxShape'
  BY <1>2 DEF TxShape, Start
<1>4. \A u \in Txs : Owned(u)' = Owned(u)
  BY DEF Owned, Start
<1>5. pc'[t] = "lock" /\ job'[t] = j /\ todo'[t] = I /\ gone'[t] = gone[t]
  BY <1>2 DEF TxShape, Start
<1>6. Owned(t) = {} /\ gone[t] = {}
  BY <1>2 DEF Session, Locks, Reclaims
<1>7. Session(t)'
  <2>1. Locks(t)' /\ Reclaims(t)' /\ Inserts(t)'
    BY <1>4, <1>5, <1>6 DEF Locks, Reclaims, Inserts, Start
  <2>2. Enters(t)'
    BY <1>2 DEF Session, Enters, Start
  <2>3. Serves(t)'
    <3>1. HeldItems(j.s)' = HeldItems(j.s) /\ site' = site
      BY DEF HeldItems, HeldSkus, Start, db, vars, rows
    <3> QED
      BY <1>4, <1>5, <1>6, <3>1 DEF Serves
  <2> QED
    BY <2>1, <2>2, <2>3 DEF Session
<1>8. ASSUME NEW u \in Txs, u # t
      PROVE  Session(u)'
  <2>1. Same(u)
    BY <1>2, <1>4, <1>8 DEF Same, TxShape, Start
  <2> QED
    BY <1>1, <2>1, OthersKeep
<1>9. Alone'
  BY DEF TxInv, Alone, Start
<1> QED
  BY <1>1, <1>3, <1>7, <1>8, <1>9 DEF TxInv, Tables

LEMMA RowOpened ==
  ASSUME TxInv, NEW s \in Shipments, NEW k \in Skus, status[s][k] # "none"
  PROVE  site[s] # NoSite /\ site[s] \in Warehouses /\ <<site[s], k>> \in opened
<1>1. site[s] # NoSite /\ site[s] \in Warehouses
  BY DEF TxInv, Tables, IInv, NoRowsNoHolds, Shape
<1>2. PICK b \in Bodies[s] :
         /\ site[s] = b.w
         /\ \A j \in Skus : status[s][j] # "none" <=> b.want[j] > 0
         /\ WantedItems(b) \subseteq opened
  BY <1>1 DEF TxInv, Tables, RowsOf
<1> QED
  BY <1>1, <1>2 DEF WantedItems, Wanted

LEMMA BeginKeeps ==
  ASSUME TxInv, NEW t \in Txs, Begin(t)
  PROVE  TxInv'
<1>1. ASSUME NEW s \in Shipments, NEW b \in Bodies[s], BeginReserve(t, s, b)
      PROVE  TxInv'
  <2>1. Start(t, [op |-> "reserve", s |-> s, b |-> b], WantedItems(b) \cap opened)
    BY <1>1 DEF BeginReserve
  <2> QED
    BY <2>1, StartKeeps
<1>2. ASSUME NEW s \in Shipments, NEW op \in {"confirm", "commit", "release"}, BeginHeld(t, op, s)
      PROVE  TxInv'
  <2>1. Start(t, [op |-> op, s |-> s], HeldItems(s)) /\ HeldSkus(s) # {}
    BY <1>2 DEF BeginHeld
  <2>2. \A k \in HeldSkus(s) : k \in Skus /\ <<site[s], k>> \in opened /\ site[s] # NoSite
    BY RowOpened DEF HeldSkus
  <2>3. site[s] # NoSite
    BY <2>1, <2>2
  <2>4. HeldItems(s) \subseteq opened
    <3> SUFFICES ASSUME NEW p \in HeldItems(s) PROVE p \in opened
      OBVIOUS
    <3>1. PICK k \in HeldSkus(s) : p = <<site[s], k>>
      BY DEF HeldItems
    <3> QED
      BY <2>2, <3>1
  <2> QED
    BY <2>1, <2>3, <2>4, StartKeeps
<1>3. ASSUME NEW scope \in SUBSET Warehouses, BeginSweep(t, scope)
      PROVE  TxInv'
  <2> DEFINE items == ItemsOf(Reclaimable) \cap (scope \X Skus)
  <2>1. Start(t, [op |-> "sweep"], items)
    BY <1>3 DEF BeginSweep
  <2>2. items \subseteq opened
    BY RowOpened DEF ItemsOf, Reclaimable, Lines
  <2> HIDE DEF items
  <2> QED
    BY <2>1, <2>2, StartKeeps
<1>4. ASSUME NEW p \in Positions, NEW delta \in Deltas, BeginAdjust(t, p, delta)
      PROVE  TxInv'
  <2>1. Start(t, [op |-> "adjust", p |-> p, delta |-> delta], {p}) /\ {p} \subseteq opened
    BY <1>4 DEF BeginAdjust
  <2> QED
    BY <2>1, StartKeeps
<1> QED
  BY <1>1, <1>2, <1>3, <1>4 DEF Begin

(* An item is locked: it is nobody else's, and it is read as it is.        *)
LEMMA LockItemKeeps ==
  ASSUME TxInv, NEW t \in Txs, LockItem(t)
  PROVE  TxInv'
<1> SUFFICES ASSUME NEW p, p = NextItem(t) PROVE TxInv'
  OBVIOUS
<1>1. KeepsOthers({}) /\ IInv' /\ (\A s \in Shipments : RowsOf(s)') /\ Unopened'
  BY QuietKeeps DEF LockItem
<1>2. TxShape /\ Session(t) /\ IInv
  BY DEF TxInv, Tables
<1>3. /\ p \in todo[t] /\ p \in Positions
      /\ \A q \in todo[t] \ {p} : ItemId[p] < ItemId[q]
  BY <1>2, NextItemIsFirst DEF TxShape, LockItem
<1>4. /\ lock[p] = {} /\ lock' = [lock EXCEPT ![p] = {t}]
      /\ todo' = [todo EXCEPT ![t] = @ \ {p}]
      /\ seen' = [seen EXCEPT ![t][p] = Row(p)]
      /\ pc[t] = "lock"
      /\ UNCHANGED <<db, opened, entry, pc, job, gone, left>>
  BY DEF LockItem
<1>5. Row(p) \in [onHand : Nat, reserved : Nat] /\ Row(p)' = Row(p)
  <2>1. TypeOK
    BY <1>2, IInvGivesTypes
  <2>2. p[1] \in Warehouses /\ p[2] \in Skus
    BY <1>3 DEF Positions
  <2>3. Row(p) \in [onHand : Nat, reserved : Nat]
    BY <2>1, <2>2 DEF TypeOK, Row
  <2> QED
    BY <1>4, <2>3 DEF Row, db, vars, stock
<1>6. TxShape'
  BY <1>2, <1>3, <1>4, <1>5 DEF TxShape
<1>7. Owned(t)' = Owned(t) \cup {p} /\ \A u \in Txs \ {t} : Owned(u)' = Owned(u)
  BY <1>2, <1>3, <1>4 DEF Owned, TxShape
<1>8. Session(t)'
  <2>1. Locks(t)'
    <3>1. \A q \in Owned(t) : seen[t][q] = Row(q) /\ Row(q)' = Row(q) /\ q \in Positions
      BY <1>2, <1>4 DEF Session, Locks, Row, Owned, db, vars, stock
    <3>2. \A q \in Owned(t)' : seen'[t][q] = Row(q)'
      BY <1>2, <1>3, <1>4, <1>5, <1>7, <3>1 DEF TxShape
    <3> QED
      BY <1>2, <1>3, <1>4, <1>7, <3>2 DEF Session, Locks, TxShape
  <2>2. Serves(t)'
    <3>1. HeldItems(job[t].s)' = HeldItems(job[t].s) /\ site' = site
      BY <1>4 DEF HeldItems, HeldSkus, db, vars, rows
    <3>2. Owned(t)' \cup todo'[t] = Owned(t) \cup todo[t]
      BY <1>2, <1>3, <1>4, <1>7 DEF TxShape
    <3> QED
      BY <1>2, <1>4, <3>1, <3>2 DEF Session, Serves
  <2>3. Reclaims(t)' /\ Inserts(t)' /\ Enters(t)'
    BY <1>2, <1>4, <1>7 DEF Session, Reclaims, Inserts, Enters, Reclaimable, db, vars, rows
  <2> QED
    BY <2>1, <2>2, <2>3 DEF Session
<1>9. ASSUME NEW u \in Txs, u # t
      PROVE  Session(u)'
  <2>1. Same(u)
    BY <1>2, <1>4, <1>7, <1>9 DEF Same, TxShape
  <2> QED
    BY <1>1, <2>1, OthersKeep
<1>10. Alone'
  BY <1>2, <1>3, <1>4 DEF TxInv, Alone, TxShape
<1> QED
  BY <1>1, <1>6, <1>8, <1>9, <1>10 DEF TxInv, Tables

LEMMA DecideKeeps ==
  ASSUME TxInv, NEW t \in Txs, Decide(t)
  PROVE  TxInv'
<1> SUFFICES ASSUME NEW b, b = job[t].b,
                    NEW G, G = {l \in Reclaimable : <<site[l[1]], l[2]>> \in Owned(t)}
             PROVE  TxInv'
  OBVIOUS
<1>1. KeepsOthers({}) /\ IInv' /\ (\A s \in Shipments : RowsOf(s)') /\ Unopened'
  BY QuietKeeps DEF Decide
<1>2. TxShape /\ Session(t) /\ IInv
  BY DEF TxInv, Tables
<1>3. /\ pc[t] = "lock" /\ todo[t] = {} /\ job[t].op = "reserve"
      /\ WantedItems(b) \subseteq Owned(t)
      /\ \A p \in Owned(t) :
           b.want[p[2]] <= seen[t][p].onHand - (seen[t][p].reserved - FreedAt(G, p))
      /\ gone' = [gone EXCEPT ![t] = G]
      /\ left' = [left EXCEPT ![t] = b.order]
      /\ pc' = [pc EXCEPT ![t] = "insert"]
      /\ UNCHANGED <<db, opened, lock, entry, job, todo, seen>>
  BY DEF Decide, Serving
<1>4. job[t].s \in Shipments /\ b \in Bodies[job[t].s] /\ Owned(t) \subseteq WantedItems(b)
  BY <1>2, <1>3 DEF Session, Serves
<1>5. G \subseteq Reclaimable /\ Reclaimable' = Reclaimable /\ site' = site
      /\ \A l \in G : <<site[l[1]], l[2]>> \in Owned(t)
  BY <1>3 DEF Reclaimable, db, vars, rows
<1>6. \A p \in Positions : FreedAt(G, p)' = FreedAt(G, p)
  BY <1>3 DEF FreedAt, Freed, Losers, Count, Units, db, vars, rows
<1>7. TxShape'
  BY <1>2, <1>3, <1>5 DEF TxShape, Reclaimable
<1>8. \A u \in Txs : Owned(u)' = Owned(u)
  BY <1>3 DEF Owned
<1>9. pc'[t] = "insert" /\ gone'[t] = G /\ left'[t] = b.order /\ job'[t] = job[t]
  BY <1>2, <1>3 DEF TxShape
<1>10. Session(t)'
  <2>1. Locks(t)'
    BY <1>2, <1>3, <1>8, <1>9 DEF Session, Locks, Row, db, vars, stock
  <2>2. Serves(t)'
    BY <1>3, <1>4, <1>8, <1>9 DEF Serves
  <2>3. Reclaims(t)'
    <3>1. \A p \in Owned(t) : p \in Positions
      BY DEF Owned
    <3>2. \A p \in Owned(t) : FreedAt(gone[t], p)' = FreedAt(G, p)
      BY <1>6, <1>9, <3>1 DEF FreedAt, Freed, Losers
    <3> QED
      BY <1>3, <1>5, <1>8, <1>9, <3>2 DEF Reclaims
  <2>4. Inserts(t)'
    <3>1. /\ b.order \in Seq(Wanted(b))
          /\ \A k \in Wanted(b) : \E i \in 1..Len(b.order) : b.order[i] = k
          /\ \A i, j \in 1..Len(b.order) : b.order[i] = b.order[j] => i = j
      BY <1>4, BodiesTyped, ZenonT(40)
    <3> QED
      BY <1>9, <3>1 DEF Inserts
  <2>5. Enters(t)'
    BY <1>2, <1>3 DEF Session, Enters
  <2> QED
    BY <2>1, <2>2, <2>3, <2>4, <2>5 DEF Session
<1>11. ASSUME NEW u \in Txs, u # t
       PROVE  Session(u)'
  <2>1. Same(u)
    BY <1>2, <1>3, <1>8, <1>11 DEF Same, TxShape
  <2> QED
    BY <1>1, <2>1, OthersKeep
<1>12. Alone'
  BY <1>3 DEF TxInv, Alone
<1> QED
  BY <1>1, <1>7, <1>10, <1>11, <1>12 DEF TxInv, Tables

(* What is left of a list without repetition after its head.               *)
LEMMA WithoutHead ==
  ASSUME NEW S, NEW q \in Seq(S), q # <<>>,
         \A i, j \in 1..Len(q) : q[i] = q[j] => i = j
  PROVE  /\ Head(q) \in S /\ Tail(q) \in Seq(S)
         /\ \A i, j \in 1..Len(Tail(q)) : Tail(q)[i] = Tail(q)[j] => i = j
         /\ \A i \in 1..Len(Tail(q)) : Tail(q)[i] # Head(q)
         /\ \A i \in 1..Len(Tail(q)) : \E j \in 1..Len(q) : Tail(q)[i] = q[j]
         /\ \A j \in 1..Len(q) : q[j] = Head(q) \/ \E i \in 1..Len(Tail(q)) : Tail(q)[i] = q[j]
<1>1. /\ Head(q) = q[1] /\ Len(q) \in Nat /\ Len(q) > 0
      /\ Head(q) \in S /\ Tail(q) \in Seq(S) /\ Len(Tail(q)) = Len(q) - 1
      /\ \A i \in 1..Len(Tail(q)) : Tail(q)[i] = q[i + 1]
  BY HeadTailProperties, EmptySeq
<1>2. \A i \in 1..Len(Tail(q)) : i + 1 \in 1..Len(q)
  BY <1>1
<1>3. \A j \in 1..Len(q) : j = 1 \/ (j - 1 \in 1..Len(Tail(q)) /\ j - 1 + 1 = j)
  BY <1>1
<1> QED
  BY <1>1, <1>2, <1>3

(* An index entry is made: the line was free, and it is past now.          *)
LEMMA InsertRowKeeps ==
  ASSUME TxInv, NEW t \in Txs, InsertRow(t)
  PROVE  TxInv'
<1> SUFFICES ASSUME NEW q, q = left[t] PROVE TxInv'
  OBVIOUS
<1> DEFINE h == Head(q)
           s == job[t].s
           W == Wanted(job[t].b)
<1>1. KeepsOthers({}) /\ IInv' /\ (\A r \in Shipments : RowsOf(r)') /\ Unopened'
  BY QuietKeeps DEF InsertRow
<1>2. TxShape /\ Session(t) /\ IInv
  BY DEF TxInv, Tables
<1>3. /\ pc[t] = "insert" /\ left[t] # <<>>
      /\ status[s][h] = "none" /\ entry[<<s, h>>] = Nobody
      /\ entry' = [entry EXCEPT ![<<s, h>>] = t]
      /\ left' = [left EXCEPT ![t] = Tail(@)]
      /\ UNCHANGED <<db, opened, lock, pc, job, todo, seen, gone>>
  BY DEF InsertRow
<1>4. s \in Shipments /\ q \in Seq(W) /\ q # <<>> /\ \A i, j \in 1..Len(q) : q[i] = q[j] => i = j
  BY <1>2, <1>3 DEF Session, Serves, Inserts
<1>5. /\ h \in W /\ Tail(q) \in Seq(W)
      /\ \A i, j \in 1..Len(Tail(q)) : Tail(q)[i] = Tail(q)[j] => i = j
      /\ \A i \in 1..Len(Tail(q)) : Tail(q)[i] # h
      /\ \A i \in 1..Len(Tail(q)) : \E j \in 1..Len(q) : Tail(q)[i] = q[j]
      /\ \A j \in 1..Len(q) : q[j] = h \/ \E i \in 1..Len(Tail(q)) : Tail(q)[i] = q[j]
  <2> HIDE DEF W
  <2> QED
    BY <1>4, WithoutHead
<1>7. left'[t] = Tail(q)
  BY <1>2, <1>3 DEF TxShape
<1>6. h \in Skus /\ <<s, h>> \in Lines
  BY <1>4, <1>5 DEF Wanted, Lines
<1>8. TxShape'
  BY <1>2, <1>3, <1>6 DEF TxShape
<1>9. \A u \in Txs : Owned(u)' = Owned(u)
  BY <1>3 DEF Owned
<1>10. Session(t)'
  <2>1. Locks(t)'
    BY <1>2, <1>3, <1>9 DEF Session, Locks, Row, db, vars, stock
  <2>2. Serves(t)'
    BY <1>2, <1>3, <1>9 DEF Session, Serves
  <2>3. Reclaims(t)'
    <3>1. \A p \in Owned(t) : FreedAt(gone[t], p)' = FreedAt(gone[t], p)
      BY <1>3 DEF FreedAt, Freed, Losers, Count, Units, db, vars, rows
    <3>2. Reclaimable' = Reclaimable /\ site' = site
      BY <1>3 DEF Reclaimable, db, vars, rows
    <3> QED
      BY <1>2, <1>3, <1>9, <3>1, <3>2 DEF Session, Reclaims
  <2>4. Inserts(t)'
    <3>1. \A k \in W : (\E i \in 1..Len(q) : q[i] = k) \/ status[s][k] = "none"
      BY <1>2, <1>3 DEF Session, Inserts
    <3>2. ASSUME NEW k \in W
          PROVE  (\E i \in 1..Len(Tail(q)) : Tail(q)[i] = k) \/ status[s][k] = "none"
      <4>1. CASE \E j \in 1..Len(q) : q[j] = k
        <5>1. PICK j \in 1..Len(q) : q[j] = k
          BY <4>1
        <5>2. k = h \/ \E i \in 1..Len(Tail(q)) : Tail(q)[i] = k
          BY <1>5, <5>1
        <5> QED
          BY <1>3, <5>2
      <4> QED
        BY <3>1, <4>1
    <3>3. status' = status /\ job' = job
      BY <1>3 DEF db, vars, rows
    <3>4. Wanted(job'[t].b) = W /\ job'[t].s = s
      BY <3>3
    <3>5. left'[t] \in Seq(Wanted(job'[t].b))
      BY <1>5, <1>7, <3>4
    <3>6. \A i, j \in 1..Len(left'[t]) : left'[t][i] = left'[t][j] => i = j
      <4> SUFFICES ASSUME NEW i \in 1..Len(left'[t]), NEW j \in 1..Len(left'[t]),
                          left'[t][i] = left'[t][j]
                   PROVE  i = j
        OBVIOUS
      <4>1. i \in 1..Len(Tail(q)) /\ j \in 1..Len(Tail(q)) /\ Tail(q)[i] = Tail(q)[j]
        BY <1>7, Zenon
      <4> QED
        BY <1>5, <4>1
    <3>7. \A k \in Wanted(job'[t].b) :
            (\E i \in 1..Len(left'[t]) : left'[t][i] = k) \/ status'[job'[t].s][k] = "none"
      BY <1>7, <3>2, <3>3, <3>4, Zenon
    <3> QED
      BY <3>5, <3>6, <3>7, Zenon DEF Inserts
  <2>5. Enters(t)'
    <3>0. pc' = pc /\ job' = job
      BY <1>3
    <3> SUFFICES ASSUME NEW l \in Lines, entry'[l] = t
                 PROVE  /\ pc[t] = "insert" /\ s = l[1]
                        /\ \A i \in 1..Len(Tail(q)) : Tail(q)[i] # l[2]
      BY <1>7, <3>0, Zenon DEF Enters
    <3>1. CASE l = <<s, h>>
      BY <1>3, <1>5, <1>7, <3>1
    <3>2. CASE l # <<s, h>>
      <4>1. entry[l] = t
        BY <1>2, <1>3, <3>2 DEF TxShape
      <4>2. s = l[1] /\ \A j \in 1..Len(q) : q[j] # l[2]
        BY <1>2, <4>1 DEF Session, Enters
      <4> QED
        BY <1>3, <1>5, <1>7, <4>2
    <3> QED
      BY <3>1, <3>2
  <2> QED
    BY <2>1, <2>2, <2>3, <2>4, <2>5 DEF Session
<1>11. ASSUME NEW u \in Txs, u # t
       PROVE  Session(u)'
  <2>1. \A l \in Lines : entry'[l] = u <=> entry[l] = u
    BY <1>2, <1>3, <1>6, <1>11, NobodyFresh DEF TxShape
  <2>2. Same(u)
    BY <1>2, <1>3, <1>9, <1>11, <2>1 DEF Same, TxShape
  <2> QED
    BY <1>1, <2>2, OthersKeep
<1>12. Alone'
  BY <1>3 DEF TxInv, Alone
<1> QED
  BY <1>1, <1>8, <1>10, <1>11, <1>12 DEF TxInv, Tables
-----------------------------------------------------------------------------
(* The handlers, at their commit.                                          *)

LEMMA RowSame ==
  ASSUME NEW s \in Shipments, RowsOf(s), opened \subseteq opened',
         site'[s] = site[s], quantity'[s] = quantity[s],
         \A k \in Skus : status'[s][k] = "none" <=> status[s][k] = "none"
  PROVE  RowsOf(s)'
<1>1. CASE site[s] = NoSite
  BY <1>1 DEF RowsOf
<1>2. CASE site[s] # NoSite
  <2>1. PICK b \in Bodies[s] :
          /\ site[s] = b.w
          /\ \A k \in Skus : status[s][k] # "none" <=> b.want[k] > 0
          /\ WantedItems(b) \subseteq opened
    BY <1>2 DEF RowsOf
  <2> QED
    BY <1>2, <2>1 DEF RowsOf
<1> QED
  BY <1>1, <1>2

LEMMA RowsSame ==
  ASSUME TxInv, site' = site, quantity' = quantity, opened \subseteq opened',
         \A s \in Shipments, k \in Skus : status'[s][k] = "none" <=> status[s][k] = "none"
  PROVE  \A s \in Shipments : RowsOf(s)'
<1> SUFFICES ASSUME NEW s \in Shipments PROVE RowsOf(s)'
  OBVIOUS
<1>1. RowsOf(s)
  BY DEF TxInv, Tables
<1> QED
  BY <1>1, RowSame

(* The values the ORM read are the values there are.                       *)
LEMMA WrittenAt ==
  ASSUME TxInv, NEW t \in Txs, NEW change, NEW w \in Warehouses, NEW k \in Skus
  PROVE  /\ Written(t, "onHand", onHand, change)[w][k]
              = IF <<w, k>> \in Owned(t) THEN onHand[w][k] + change[<<w, k>>] ELSE onHand[w][k]
         /\ Written(t, "reserved", reserved, change)[w][k]
              = IF <<w, k>> \in Owned(t) THEN reserved[w][k] + change[<<w, k>>] ELSE reserved[w][k]
<1>1. <<w, k>> \in Owned(t) =>
        seen[t][<<w, k>>].onHand = onHand[w][k] /\ seen[t][<<w, k>>].reserved = reserved[w][k]
  <2>1. Locks(t)
    BY DEF TxInv, Session
  <2>2. <<w, k>> \in Owned(t) => seen[t][<<w, k>>] = Row(<<w, k>>)
    BY <2>1 DEF Locks
  <2> QED
    BY <2>2 DEF Row
<1> QED
  BY <1>1 DEF Written

LEMMA Committed ==
  ASSUME TxInv, NEW t \in Txs, End(t), KeepsOthers(Owned(t)),
         \A s \in Shipments : RowsOf(s)', [Next]_vars
  PROVE  TxInv'
<1>1. IInv'
  BY NextKeeps DEF TxInv, Tables
<1> QED
  BY <1>1, EndKeeps

(* What confirm, commit and release may rely on.                           *)
LEMMA HeldOwned ==
  ASSUME TxInv, NEW t \in Txs, Serving(t, {"confirm", "commit", "release"})
  PROVE  /\ job[t].s \in Shipments /\ site[job[t].s] \in Warehouses
         /\ HeldItems(job[t].s) \subseteq Owned(t) /\ Owned(t) \subseteq opened /\ opened \subseteq Positions
<1>1. Session(t) /\ pc[t] = "lock" /\ todo[t] = {} /\ job[t].op \in {"confirm", "commit", "release"}
  BY DEF TxInv, Serving
<1>2. Shape /\ opened \subseteq Positions
  BY DEF TxInv, Tables, TxShape, IInv
<1> QED
  BY <1>1, <1>2 DEF Session, Serves, Locks, Shape

LEMMA FinishConfirmKeeps ==
  ASSUME TxInv, NEW t \in Txs, FinishConfirm(t)
  PROVE  [Next]_vars /\ TxInv'
<1> DEFINE s == job[t].s
<1>1. /\ confirmed' = confirmed \cup {<<s, k>> : k \in HeldSkus(s)}
      /\ UNCHANGED <<stock, rows, lapsed, opened>> /\ End(t)
      /\ Serving(t, {"confirm", "commit", "release"})
  BY DEF FinishConfirm, Serving
<1>2. s \in Shipments /\ HeldItems(s) \subseteq Owned(t) /\ Owned(t) \subseteq opened
      /\ opened \subseteq Positions
  BY <1>1, HeldOwned
<1>3. [Next]_vars
  <2>1. CASE HeldSkus(s) = {}
    BY <1>1, <2>1 DEF vars
  <2>2. CASE HeldSkus(s) # {}
    BY <1>1, <1>2, <2>2 DEF Next, Confirm
  <2> QED
    BY <2>1, <2>2
<1>4. \A r \in Shipments : RowsOf(r)'
  BY <1>1, RowsSame DEF rows
<1>5. KeepsOthers(Owned(t))
  <2>1. \A l \in Reclaimable : <<site[l[1]], l[2]>> \notin Owned(t) => l \in Reclaimable'
    <3> SUFFICES ASSUME NEW l \in Reclaimable, <<site[l[1]], l[2]>> \notin Owned(t)
                 PROVE  l \in Reclaimable'
      OBVIOUS
    <3>1. l = <<l[1], l[2]>> /\ status[l[1]][l[2]] = "held" /\ l[1] \in lapsed /\ l \notin confirmed
          /\ l \in Lines /\ l[1] \in Shipments /\ l[2] \in Skus
      BY DEF Reclaimable, Lines
    <3>2. \A k \in HeldSkus(s) : <<s, k>> # l
      BY <1>2, <3>1 DEF HeldItems
    <3> QED
      BY <1>1, <3>1, <3>2 DEF Reclaimable, rows
  <2> QED
    BY <1>1, <1>2, <2>1 DEF KeepsOthers, stock, rows
<1> QED
  BY <1>1, <1>3, <1>4, <1>5, Committed

(* Once the held rows of s are moved, as commit and release move them.     *)
LEMMA MovedKeeps ==
  ASSUME TxInv, NEW t \in Txs, NEW s \in Shipments, NEW to \in {"committed", "released"},
         HeldItems(s) \subseteq Owned(t), Owned(t) \subseteq opened,
         status' = StatusMoved(s, to), site' = site, quantity' = quantity,
         confirmed' = confirmed, lapsed' = lapsed, opened' = opened, received' = received,
         \A w \in Warehouses, k \in Skus : <<w, k>> \notin Owned(t) =>
           onHand'[w][k] = onHand[w][k] /\ reserved'[w][k] = reserved[w][k]
  PROVE  KeepsOthers(Owned(t)) /\ \A r \in Shipments : RowsOf(r)'
<1>1. Shape /\ opened \subseteq Positions
  BY DEF TxInv, Tables, TxShape, IInv
<1>2. \A r \in Shipments, k \in Skus :
        status'[r][k] = IF r = s /\ status[s][k] = "held" THEN to ELSE status[r][k]
  BY <1>1 DEF Shape, StatusMoved, HeldSkus
<1>3. \A r \in Shipments : RowsOf(r)'
  BY <1>2, RowsSame
<1>4. \A l \in Reclaimable : <<site[l[1]], l[2]>> \notin Owned(t) => l \in Reclaimable'
  <2> SUFFICES ASSUME NEW l \in Reclaimable, <<site[l[1]], l[2]>> \notin Owned(t)
               PROVE  l \in Reclaimable'
    OBVIOUS
  <2>1. l = <<l[1], l[2]>> /\ status[l[1]][l[2]] = "held" /\ l[1] \in lapsed /\ l \notin confirmed
        /\ l \in Lines /\ l[1] \in Shipments /\ l[2] \in Skus
    BY DEF Reclaimable, Lines
  <2>2. l[1] # s
    BY <2>1 DEF HeldItems, HeldSkus
  <2> QED
    BY <1>2, <2>1, <2>2 DEF Reclaimable
<1>5. KeepsOthers(Owned(t))
  BY <1>1, <1>2, <1>4 DEF KeepsOthers
<1> QED
  BY <1>3, <1>5

LEMMA HeldAtHere ==
  ASSUME NEW s, NEW w, NEW k
  PROVE  HeldAt(s, <<w, k>>) = HeldHere(s, w, k)
  BY DEF HeldAt, HeldHere, HeldItems

(* The column as Written is the column Shifted, and as it was if s holds   *)
(* nothing any more.                                                       *)
LEMMA WrittenIsShifted ==
  ASSUME TxInv, NEW t \in Txs, NEW s \in Shipments, HeldItems(s) \subseteq Owned(t),
         site[s] \in Warehouses, NEW change, change = [p \in Positions |-> 0 - HeldAt(s, p)]
  PROVE  /\ Written(t, "onHand", onHand, change)
              = IF HeldSkus(s) = {} THEN onHand ELSE Shifted(onHand, s, -1)
         /\ Written(t, "reserved", reserved, change)
              = IF HeldSkus(s) = {} THEN reserved ELSE Shifted(reserved, s, -1)
<1> DEFINE H == Written(t, "onHand", onHand, change)
           R == Written(t, "reserved", reserved, change)
<1>1. IInv /\ onHand \in [Warehouses -> [Skus -> Int]] /\ reserved \in [Warehouses -> [Skus -> Int]]
      /\ \A k \in Skus : quantity[s][k] \in Int
  BY MaxQtyPositive DEF TxInv, Tables, IInv, Shape
<1>2. ASSUME NEW w \in Warehouses, NEW k \in Skus
      PROVE  /\ H[w][k] = onHand[w][k] - HeldHere(s, w, k)
             /\ R[w][k] = reserved[w][k] - HeldHere(s, w, k)
  <2>1. change[<<w, k>>] = 0 - HeldHere(s, w, k)
    BY HeldAtHere DEF Positions
  <2>2. <<w, k>> \notin Owned(t) => HeldHere(s, w, k) = 0
    BY DEF HeldHere, HeldItems
  <2>3. HeldHere(s, w, k) \in Int
    BY <1>1 DEF HeldHere
  <2>4. onHand[w][k] \in Int /\ reserved[w][k] \in Int
    BY <1>1
  <2> QED
    BY <2>1, <2>2, <2>3, <2>4, WrittenAt
<1>3. /\ H = [w \in Warehouses |-> [k \in Skus |-> H[w][k]]]
      /\ R = [w \in Warehouses |-> [k \in Skus |-> R[w][k]]]
  BY DEF Written
<1> HIDE DEF H, R
<1>4. CASE HeldSkus(s) = {}
  <2>1. \A w \in Warehouses, k \in Skus : HeldHere(s, w, k) = 0
    BY <1>4 DEF HeldHere
  <2>2. \A w \in Warehouses, k \in Skus : H[w][k] = onHand[w][k] /\ R[w][k] = reserved[w][k]
    BY <1>1, <1>2, <2>1
  <2>3. H = onHand /\ R = reserved
    BY <1>1, <1>3, <2>2
  <2> QED
    BY <1>4, <2>3 DEF H, R
<1>5. CASE HeldSkus(s) # {}
  <2>1. /\ Shifted(onHand, s, -1) \in [Warehouses -> [Skus -> Int]]
        /\ Shifted(reserved, s, -1) \in [Warehouses -> [Skus -> Int]]
        /\ \A w \in Warehouses, k \in Skus :
             /\ Shifted(onHand, s, -1)[w][k] = onHand[w][k] - HeldHere(s, w, k)
             /\ Shifted(reserved, s, -1)[w][k] = reserved[w][k] - HeldHere(s, w, k)
    BY <1>1, <1>5, ShiftedAt
  <2>2. H = Shifted(onHand, s, -1) /\ R = Shifted(reserved, s, -1)
    BY <1>2, <1>3, <2>1
  <2> QED
    BY <1>5, <2>2 DEF H, R
<1> QED
  BY <1>4, <1>5

LEMMA NothingMoved ==
  ASSUME TxInv, NEW s \in Shipments, HeldSkus(s) = {}, NEW to
  PROVE  StatusMoved(s, to) = status
<1>1. status \in [Shipments -> [Skus -> Status]]
  BY DEF TxInv, Tables, IInv, Shape
<1> QED
  BY <1>1 DEF StatusMoved

LEMMA FinishReleaseKeeps ==
  ASSUME TxInv, NEW t \in Txs, FinishRelease(t)
  PROVE  [Next]_vars /\ TxInv'
<1> SUFFICES ASSUME NEW s, s = job[t].s,
                    NEW change, change = [p \in Positions |-> 0 - HeldAt(s, p)]
             PROVE  [Next]_vars /\ TxInv'
  OBVIOUS
<1>1. /\ reserved' = Written(t, "reserved", reserved, change)
      /\ status' = StatusMoved(s, "released")
      /\ UNCHANGED <<onHand, received, dispatched, site, quantity, confirmed, lapsed, opened>>
      /\ End(t) /\ Serving(t, {"confirm", "commit", "release"})
  BY DEF FinishRelease, Serving
<1>2. s \in Shipments /\ site[s] \in Warehouses /\ HeldItems(s) \subseteq Owned(t)
      /\ Owned(t) \subseteq opened
  BY <1>1, HeldOwned
<1>3. reserved' = IF HeldSkus(s) = {} THEN reserved ELSE Shifted(reserved, s, -1)
  BY <1>1, <1>2, WrittenIsShifted
<1>4. [Next]_vars
  <2>1. CASE HeldSkus(s) = {}
    BY <1>1, <1>2, <1>3, <2>1, NothingMoved DEF vars, stock, rows
  <2>2. CASE HeldSkus(s) # {}
    BY <1>1, <1>2, <1>3, <2>2 DEF Next, Release
  <2> QED
    BY <2>1, <2>2
<1>5. KeepsOthers(Owned(t)) /\ \A r \in Shipments : RowsOf(r)'
  <2>1. \A w \in Warehouses, k \in Skus : <<w, k>> \notin Owned(t) => reserved'[w][k] = reserved[w][k]
    BY <1>1, WrittenAt
  <2> QED
    BY <1>1, <1>2, <2>1, MovedKeeps
<1> QED
  BY <1>1, <1>4, <1>5, Committed

LEMMA FinishCommitKeeps ==
  ASSUME TxInv, NEW t \in Txs, FinishCommit(t)
  PROVE  [Next]_vars /\ TxInv'
<1> SUFFICES ASSUME NEW s, s = job[t].s,
                    NEW change, change = [p \in Positions |-> 0 - HeldAt(s, p)]
             PROVE  [Next]_vars /\ TxInv'
  OBVIOUS
<1>1. /\ onHand' = Written(t, "onHand", onHand, change)
      /\ reserved' = Written(t, "reserved", reserved, change)
      /\ dispatched' = [w \in Warehouses |-> [k \in Skus |-> dispatched[w][k] + HeldAt(s, <<w, k>>)]]
      /\ status' = StatusMoved(s, "committed")
      /\ UNCHANGED <<received, site, quantity, confirmed, lapsed, opened>>
      /\ End(t) /\ Serving(t, {"confirm", "commit", "release"})
  BY DEF FinishCommit, Serving
<1>2. s \in Shipments /\ site[s] \in Warehouses /\ HeldItems(s) \subseteq Owned(t)
      /\ Owned(t) \subseteq opened
  BY <1>1, HeldOwned
<1>3. /\ reserved' = IF HeldSkus(s) = {} THEN reserved ELSE Shifted(reserved, s, -1)
      /\ onHand' = IF HeldSkus(s) = {} THEN onHand ELSE Shifted(onHand, s, -1)
  BY <1>1, <1>2, WrittenIsShifted
<1>4. dispatched' = IF HeldSkus(s) = {} THEN dispatched ELSE Shifted(dispatched, s, 1)
  <2>1. IInv /\ dispatched \in [Warehouses -> [Skus -> Int]]
    BY DEF TxInv, Tables, IInv, Shape
  <2>2. dispatched' = [w \in Warehouses |-> [k \in Skus |-> dispatched[w][k] + HeldHere(s, w, k)]]
    BY <1>1, HeldAtHere
  <2>3. CASE HeldSkus(s) = {}
    <3>1. \A w \in Warehouses, k \in Skus : HeldHere(s, w, k) = 0
      BY <2>3 DEF HeldHere
    <3>2. \A w \in Warehouses, k \in Skus : dispatched[w][k] + HeldHere(s, w, k) = dispatched[w][k]
      BY <2>1, <3>1
    <3> QED
      BY <2>1, <2>2, <2>3, <3>2
  <2>4. CASE HeldSkus(s) # {}
    <3>1. /\ Shifted(dispatched, s, 1) \in [Warehouses -> [Skus -> Int]]
          /\ \A w \in Warehouses, k \in Skus :
               Shifted(dispatched, s, 1)[w][k] = dispatched[w][k] + HeldHere(s, w, k)
      BY <1>2, <2>1, <2>4, ShiftedAt
    <3> QED
      BY <2>2, <2>4, <3>1
  <2> QED
    BY <2>3, <2>4
<1>5. [Next]_vars
  <2>1. CASE HeldSkus(s) = {}
    BY <1>1, <1>2, <1>3, <1>4, <2>1, NothingMoved DEF vars, stock, rows
  <2>2. CASE HeldSkus(s) # {}
    BY <1>1, <1>2, <1>3, <1>4, <2>2 DEF Next, Commit
  <2> QED
    BY <2>1, <2>2
<1>6. KeepsOthers(Owned(t)) /\ \A r \in Shipments : RowsOf(r)'
  <2>1. \A w \in Warehouses, k \in Skus : <<w, k>> \notin Owned(t) =>
          onHand'[w][k] = onHand[w][k] /\ reserved'[w][k] = reserved[w][k]
    BY <1>1, WrittenAt
  <2> QED
    BY <1>1, <1>2, <2>1, MovedKeeps
<1> QED
  BY <1>1, <1>5, <1>6, Committed

(* The rows G, all on items that t has locked, give back what they hold on *)
(* those items and nothing elsewhere.                                      *)
LEMMA FreedWhereOwned ==
  ASSUME TxInv, NEW t \in Txs, NEW G \in SUBSET Reclaimable,
         \A l \in G : <<site[l[1]], l[2]>> \in Owned(t),
         NEW w \in Warehouses, NEW k \in Skus
  PROVE  /\ Freed(G, w, k) \in Nat
         /\ <<w, k>> \notin Owned(t) => Freed(G, w, k) = 0
         /\ onHand[w][k] \in Int /\ reserved[w][k] \in Int
<1>1. IInv /\ onHand[w][k] \in Int /\ reserved[w][k] \in Int
  BY DEF TxInv, Tables, IInv, Shape
<1>2. Freed(G, w, k) \in Nat
  BY <1>1, ExpiredUnits
<1>3. ASSUME <<w, k>> \notin Owned(t) PROVE Freed(G, w, k) = 0
  <2>1. Losers(G, w, k) = {}
    BY <1>3 DEF Losers
  <2> QED
    BY <2>1, CountNone DEF Freed
<1> QED
  BY <1>1, <1>2, <1>3

(* The rows G are the held ones they were picked as, and nobody else's.    *)
LEMMA ReclaimedRows ==
  ASSUME NEW t \in Txs, NEW G \in SUBSET Reclaimable,
         \A l \in G : <<site[l[1]], l[2]>> \in Owned(t),
         NEW s \in Shipments, NEW k \in Skus
  PROVE  /\ StatusWithout(G)[s][k] = "none" <=> status[s][k] = "none"
         /\ StatusWithout(G)[s][k] = "held" => status[s][k] = "held"
         /\ <<site[s], k>> \notin Owned(t) => StatusWithout(G)[s][k] = status[s][k]
<1>1. <<s, k>> \in G => status[s][k] = "held"
  BY DEF Reclaimable
<1> QED
  BY <1>1 DEF StatusWithout

LEMMA NothingReclaimed ==
  ASSUME TxInv
  PROVE  ReservedWithout({}) = reserved /\ StatusWithout({}) = status
<1>1. status \in [Shipments -> [Skus -> Status]] /\ reserved \in [Warehouses -> [Skus -> Int]]
  BY DEF TxInv, Tables, IInv, Shape
<1>2. ASSUME NEW w \in Warehouses, NEW k \in Skus
      PROVE  reserved[w][k] - Freed({}, w, k) = reserved[w][k]
  <2>1. Losers({}, w, k) = {}
    BY DEF Losers
  <2>2. Freed({}, w, k) = 0
    BY <2>1, CountNone DEF Freed
  <2>3. reserved[w][k] \in Int
    BY <1>1
  <2> QED
    BY <2>2, <2>3
<1> QED
  BY <1>1, <1>2 DEF ReservedWithout, StatusWithout

LEMMA FinishSweepKeeps ==
  ASSUME TxInv, NEW t \in Txs, FinishSweep(t)
  PROVE  [Next]_vars /\ TxInv'
<1> SUFFICES ASSUME NEW G, G = {l \in Reclaimable : <<site[l[1]], l[2]>> \in Owned(t)},
                    NEW change, change = [p \in Positions |-> 0 - FreedAt(G, p)]
             PROVE  [Next]_vars /\ TxInv'
  OBVIOUS
<1>1. /\ reserved' = Written(t, "reserved", reserved, change)
      /\ status' = StatusWithout(G)
      /\ UNCHANGED <<onHand, received, dispatched, site, quantity, confirmed, lapsed, opened>>
      /\ End(t)
  BY DEF FinishSweep
<1>2. G \in SUBSET Reclaimable /\ \A l \in G : <<site[l[1]], l[2]>> \in Owned(t)
  OBVIOUS
<1>3. Owned(t) \subseteq opened /\ opened \subseteq Positions
  BY DEF TxInv, Session, Locks, TxShape
<1>4. ASSUME NEW w \in Warehouses, NEW k \in Skus
      PROVE  /\ reserved'[w][k] = reserved[w][k] - Freed(G, w, k)
             /\ <<w, k>> \notin Owned(t) => reserved'[w][k] = reserved[w][k]
  <2>1. change[<<w, k>>] = 0 - Freed(G, w, k)
    BY DEF Positions, FreedAt
  <2>2. reserved'[w][k] = IF <<w, k>> \in Owned(t) THEN reserved[w][k] + change[<<w, k>>]
                          ELSE reserved[w][k]
    BY <1>1, WrittenAt
  <2>3. /\ Freed(G, w, k) \in Nat /\ reserved[w][k] \in Int
        /\ <<w, k>> \notin Owned(t) => Freed(G, w, k) = 0
    BY <1>2, FreedWhereOwned
  <2> QED
    BY <2>1, <2>2, <2>3
<1>5. reserved' = ReservedWithout(G)
  <2>1. reserved' = [w \in Warehouses |-> [k \in Skus |-> reserved'[w][k]]]
    BY <1>1 DEF Written
  <2> QED
    BY <1>4, <2>1 DEF ReservedWithout
<1>6. [Next]_vars
  <2>1. CASE G = {}
    BY <1>1, <1>5, <2>1, NothingReclaimed DEF vars, stock, rows
  <2>2. CASE G # {}
    BY <1>1, <1>2, <1>5, <2>2 DEF Next, Expire
  <2> QED
    BY <2>1, <2>2
<1>7. ASSUME NEW s \in Shipments, NEW k \in Skus
      PROVE  /\ status'[s][k] = "none" <=> status[s][k] = "none"
             /\ status'[s][k] = "held" => status[s][k] = "held"
             /\ <<site[s], k>> \notin Owned(t) => status'[s][k] = status[s][k]
  <2>1. /\ StatusWithout(G)[s][k] = "none" <=> status[s][k] = "none"
        /\ StatusWithout(G)[s][k] = "held" => status[s][k] = "held"
        /\ <<site[s], k>> \notin Owned(t) => StatusWithout(G)[s][k] = status[s][k]
    BY <1>2, ReclaimedRows
  <2> QED
    BY <1>1, <2>1
<1>10. \A s \in Shipments : RowsOf(s)'
  <2>1. \A s \in Shipments, k \in Skus : status'[s][k] = "none" <=> status[s][k] = "none"
    BY <1>7
  <2> QED
    BY <1>1, <2>1, RowsSame
<1>8. \A l \in Reclaimable : <<site[l[1]], l[2]>> \notin Owned(t) => l \in Reclaimable'
  <2> SUFFICES ASSUME NEW l \in Reclaimable, <<site[l[1]], l[2]>> \notin Owned(t)
               PROVE  l \in Reclaimable'
    OBVIOUS
  <2>1. l[1] \in Shipments /\ l[2] \in Skus
    BY DEF Reclaimable, Lines
  <2>2. status'[l[1]][l[2]] = status[l[1]][l[2]]
    BY <1>7, <2>1
  <2> QED
    BY <1>1, <2>2 DEF Reclaimable
<1>9. KeepsOthers(Owned(t))
  BY <1>1, <1>3, <1>4, <1>7, <1>8 DEF KeepsOthers
<1> QED
  BY <1>1, <1>6, <1>9, <1>10, Committed
LEMMA FinishAdjustKeeps ==
  ASSUME TxInv, NEW t \in Txs, FinishAdjust(t)
  PROVE  [Next]_vars /\ TxInv'
<1> SUFFICES ASSUME NEW p, p = job[t].p, NEW delta, delta = job[t].delta,
                    NEW change, change = [q \in Positions |-> delta]
             PROVE  [Next]_vars /\ TxInv'
  OBVIOUS
<1>1. /\ seen[t][p].reserved <= seen[t][p].onHand + delta
      /\ received[p[1]][p[2]] + delta <= MaxStock
      /\ onHand' = Written(t, "onHand", onHand, change)
      /\ received' = [received EXCEPT ![p[1]][p[2]] = @ + delta]
      /\ UNCHANGED <<reserved, dispatched, rows, confirmed, lapsed, opened>>
      /\ End(t)
  BY DEF FinishAdjust
<1>2. /\ p \in Positions /\ delta \in Deltas /\ Owned(t) = {p}
      /\ p \in opened /\ opened \subseteq Positions
      /\ seen[t][p] = Row(p)
  <2>1. Session(t) /\ pc[t] = "lock" /\ todo[t] = {} /\ job[t].op = "adjust" /\ TxShape
    BY DEF TxInv, FinishAdjust, Serving
  <2> QED
    BY <2>1 DEF Session, Serves, Locks, TxShape
<1>3. p[1] \in Warehouses /\ p[2] \in Skus /\ p = <<p[1], p[2]>>
  BY <1>2 DEF Positions
<1>4. /\ onHand \in [Warehouses -> [Skus -> Int]] /\ received \in [Warehouses -> [Skus -> Int]]
      /\ delta \in Int
  BY <1>2, MaxQtyPositive DEF TxInv, Tables, IInv, Shape, Deltas
<1>5. ASSUME NEW w \in Warehouses, NEW k \in Skus
      PROVE  onHand'[w][k] = IF <<w, k>> = p THEN onHand[w][k] + delta ELSE onHand[w][k]
  <2>1. onHand'[w][k] = IF <<w, k>> \in Owned(t) THEN onHand[w][k] + change[<<w, k>>]
                        ELSE onHand[w][k]
    BY <1>1, WrittenAt
  <2>2. change[<<w, k>>] = delta
    BY DEF Positions
  <2> QED
    BY <1>2, <2>1, <2>2
<1>6. onHand' = [onHand EXCEPT ![p[1]][p[2]] = @ + delta]
  <2>1. onHand' = [w \in Warehouses |-> [k \in Skus |-> onHand'[w][k]]]
    BY <1>1 DEF Written
  <2>2. onHand' = [w \in Warehouses |-> [k \in Skus |->
                     IF <<w, k>> = p THEN onHand[w][k] + delta ELSE onHand[w][k]]]
    BY <1>5, <2>1
  <2> SUFFICES ASSUME NEW v \in Warehouses, NEW j \in Skus, v = p[1], j = p[2]
               PROVE  onHand' = [onHand EXCEPT ![v][j] = @ + delta]
    BY <1>3
  <2> DEFINE E == [onHand EXCEPT ![v][j] = @ + delta]
  <2>3. /\ E \in [Warehouses -> [Skus -> Int]]
        /\ \A w \in Warehouses, k \in Skus :
             E[w][k] = IF w = v /\ k = j THEN onHand[w][k] + delta ELSE onHand[w][k]
    BY <1>4
  <2> HIDE DEF E
  <2>4. /\ onHand' \in [Warehouses -> [Skus -> Int]]
        /\ \A w \in Warehouses, k \in Skus :
             onHand'[w][k] = IF w = v /\ k = j THEN onHand[w][k] + delta ELSE onHand[w][k]
    BY <1>3, <1>4, <2>2
  <2>5. onHand' = E
    BY <2>3, <2>4
  <2> QED
    BY <2>5 DEF E
<1>7. Next
  <2>1. reserved[p[1]][p[2]] <= onHand[p[1]][p[2]] + delta
    BY <1>1, <1>2, SMTT(30) DEF Row
  <2>2. Adjust(p[1], p[2], delta)
    BY <1>1, <1>6, <2>1 DEF Adjust
  <2> QED
    BY <1>2, <1>3, <2>2 DEF Next
<1>8. \A s \in Shipments : RowsOf(s)'
  BY <1>1, RowsSame DEF rows
<1>9. KeepsOthers(Owned(t))
  <2>1. Reclaimable' = Reclaimable
    BY <1>1 DEF Reclaimable, rows
  <2>2. \A w \in Warehouses, k \in Skus : <<w, k>> # p =>
          onHand'[w][k] = onHand[w][k] /\ received'[w][k] = received[w][k]
    BY <1>1, <1>3, <1>4, <1>5
  <2> QED
    BY <1>1, <1>2, <2>1, <2>2 DEF KeepsOthers, rows
<1> QED
  BY <1>1, <1>7, <1>8, <1>9, Committed

(* What decide and the index entries together have made sure of when the   *)
(* rows of a reserve are complete.                                         *)
LEMMA MayHold ==
  ASSUME TxInv, NEW t \in Txs, pc[t] = "insert", left[t] = <<>>,
         NEW s, s = job[t].s, NEW b, b = job[t].b
  PROVE  /\ s \in Shipments /\ b \in Bodies[s] /\ Owned(t) = WantedItems(b)
         /\ site[s] = NoSite /\ \A k \in Skus : quantity[s][k] = 0
         /\ \E k \in Skus : b.want[k] > 0
         /\ \A k \in Wanted(b) :
              b.want[k] <= onHand[b.w][k] - (reserved[b.w][k] - Freed(gone[t], b.w, k))
<1>1. Session(t) /\ \A r \in Shipments : RowsOf(r)
  BY DEF TxInv, Tables
<1>2. /\ s \in Shipments /\ b \in Bodies[s] /\ Owned(t) = WantedItems(b)
      /\ \A p \in Owned(t) : seen[t][p] = Row(p)
  BY <1>1 DEF Session, Serves, Locks
<1>3. b.w \in Warehouses /\ b.want \in Wants /\ Wanted(b) # {}
  BY <1>2, BodiesTyped
<1>4. \A k \in Wanted(b) : status[s][k] = "none"
  BY <1>1 DEF Session, Inserts
<1>5. site[s] = NoSite
  <2> SUFFICES ASSUME site[s] # NoSite PROVE FALSE
    OBVIOUS
  <2>1. \A k \in Skus : status[s][k] # "none" <=> b.want[k] > 0
    BY <1>1, <1>2, OneBodyServed
  <2> QED
    BY <1>3, <1>4, <2>1 DEF Wanted
<1>6. \A k \in Skus : quantity[s][k] = 0
  BY <1>1, <1>2, <1>5 DEF RowsOf
<1>7. \E k \in Skus : b.want[k] > 0
  BY <1>3 DEF Wanted
<1>8. ASSUME NEW k \in Wanted(b)
      PROVE  b.want[k] <= onHand[b.w][k] - (reserved[b.w][k] - Freed(gone[t], b.w, k))
  <2>1. \A p \in Owned(t) :
          b.want[p[2]] <= seen[t][p].onHand - (seen[t][p].reserved - FreedAt(gone[t], p))
    BY <1>1 DEF Session, Reclaims
  <2>2. <<b.w, k>> \in Owned(t)
    BY <1>2 DEF WantedItems
  <2>3. /\ seen[t][<<b.w, k>>].onHand = onHand[b.w][k]
        /\ seen[t][<<b.w, k>>].reserved = reserved[b.w][k]
    <3>1. seen[t][<<b.w, k>>] = Row(<<b.w, k>>)
      BY <1>2, <2>2
    <3> QED
      BY <3>1 DEF Row
  <2>4. FreedAt(gone[t], <<b.w, k>>) = Freed(gone[t], b.w, k)
    BY DEF FreedAt
  <2> QED
    BY <2>1, <2>2, <2>3, <2>4
<1> QED
  BY <1>2, <1>5, <1>6, <1>7, <1>8

(* What reserve leaves in reserved_qty.                                    *)
LEMMA HeldOnTop ==
  ASSUME TxInv, NEW t \in Txs, NEW G \in SUBSET Reclaimable, NEW b,
         \A l \in G : <<site[l[1]], l[2]>> \in Owned(t),
         Owned(t) = WantedItems(b), b.w \in Warehouses, b.want \in Wants,
         NEW change, change = [p \in Positions |-> b.want[p[2]] - FreedAt(G, p)]
  PROVE  /\ Written(t, "reserved", reserved, change)
              = [ReservedWithout(G) EXCEPT ![b.w] = [k \in Skus |-> @[k] + b.want[k]]]
         /\ \A w \in Warehouses, k \in Skus : <<w, k>> \notin Owned(t) =>
              Written(t, "reserved", reserved, change)[w][k] = reserved[w][k]
<1> DEFINE R == Written(t, "reserved", reserved, change)
           E == [ReservedWithout(G) EXCEPT ![b.w] = [k \in Skus |-> @[k] + b.want[k]]]
<1>1. ASSUME NEW w \in Warehouses, NEW k \in Skus
      PROVE  /\ R[w][k] = IF w = b.w THEN reserved[w][k] - Freed(G, w, k) + b.want[k]
                          ELSE reserved[w][k] - Freed(G, w, k)
             /\ R[w][k] \in Int
             /\ <<w, k>> \notin Owned(t) => R[w][k] = reserved[w][k]
  <2>1. R[w][k] = IF <<w, k>> \in Owned(t) THEN reserved[w][k] + change[<<w, k>>]
                  ELSE reserved[w][k]
    BY WrittenAt
  <2>2. change[<<w, k>>] = b.want[k] - Freed(G, w, k)
    BY DEF Positions, FreedAt
  <2>3. /\ Freed(G, w, k) \in Nat /\ reserved[w][k] \in Int
        /\ <<w, k>> \notin Owned(t) => Freed(G, w, k) = 0
    BY FreedWhereOwned
  <2>4. b.want[k] \in Nat
    BY MaxQtyPositive DEF Wants
  <2>5. <<w, k>> \in Owned(t) <=> w = b.w /\ b.want[k] > 0
    BY DEF WantedItems, Wanted
  <2> HIDE DEF R
  <2> QED
    BY <2>1, <2>2, <2>3, <2>4, <2>5
<1>2. R = [w \in Warehouses |-> [k \in Skus |-> R[w][k]]]
  BY DEF Written
<1>3. R \in [Warehouses -> [Skus -> Int]]
  <2> HIDE DEF R
  <2>1. \A w \in Warehouses, k \in Skus : R[w][k] \in Int
    BY <1>1
  <2>2. [w \in Warehouses |-> [k \in Skus |-> R[w][k]]] \in [Warehouses -> [Skus -> Int]]
    BY <2>1
  <2> QED
    BY <1>2, <2>2
<1>4. /\ ReservedWithout(G) \in [Warehouses -> [Skus -> Int]]
      /\ \A w \in Warehouses, k \in Skus :
           ReservedWithout(G)[w][k] = reserved[w][k] - Freed(G, w, k)
  <2>1. IInv
    BY DEF TxInv, Tables
  <2>2. ReservedWithout(G) \in [Warehouses -> [Skus -> Int]]
    BY <2>1, ExpiredShape
  <2> QED
    BY <2>2 DEF ReservedWithout
<1>5. /\ E \in [Warehouses -> [Skus -> Int]]
      /\ \A w \in Warehouses, k \in Skus :
           E[w][k] = IF w = b.w THEN reserved[w][k] - Freed(G, w, k) + b.want[k]
                     ELSE reserved[w][k] - Freed(G, w, k)
  <2>1. \A k \in Skus : b.want[k] \in Int
    BY MaxQtyPositive DEF Wants
  <2> QED
    BY <1>4, <2>1
<1> HIDE DEF R, E
<1>6. R = E
  <2>1. \A w \in Warehouses, k \in Skus : R[w][k] = E[w][k]
    <3> SUFFICES ASSUME NEW w \in Warehouses, NEW k \in Skus PROVE R[w][k] = E[w][k]
      OBVIOUS
    <3>1. R[w][k] = IF w = b.w THEN reserved[w][k] - Freed(G, w, k) + b.want[k]
                    ELSE reserved[w][k] - Freed(G, w, k)
      BY <1>1
    <3>2. E[w][k] = IF w = b.w THEN reserved[w][k] - Freed(G, w, k) + b.want[k]
                    ELSE reserved[w][k] - Freed(G, w, k)
      BY <1>5
    <3> QED
      BY <3>1, <3>2, Zenon
  <2> QED
    BY <1>3, <1>5, <2>1
<1> QED
  BY <1>1, <1>6 DEF R, E

LEMMA FinishReserveKeeps ==
  ASSUME TxInv, NEW t \in Txs, FinishReserve(t)
  PROVE  [Next]_vars /\ TxInv'
<1> SUFFICES ASSUME NEW s, s = job[t].s, NEW b, b = job[t].b, NEW G, G = gone[t],
                    NEW change, change = [p \in Positions |-> b.want[p[2]] - FreedAt(G, p)]
             PROVE  [Next]_vars /\ TxInv'
  OBVIOUS
<1>1. /\ reserved' = Written(t, "reserved", reserved, change)
      /\ site' = [site EXCEPT ![s] = b.w]
      /\ quantity' = [quantity EXCEPT ![s] =
           [k \in Skus |-> IF k \in Wanted(b) THEN b.want[k] ELSE @[k]]]
      /\ status' = [StatusWithout(G) EXCEPT ![s] =
           [k \in Skus |-> IF k \in Wanted(b) THEN "held" ELSE @[k]]]
      /\ UNCHANGED <<onHand, received, dispatched, confirmed, lapsed, opened>>
      /\ End(t)
  BY DEF FinishReserve
<1>2. /\ s \in Shipments /\ b \in Bodies[s] /\ Owned(t) = WantedItems(b)
      /\ site[s] = NoSite /\ \A k \in Skus : quantity[s][k] = 0
      /\ \E k \in Skus : b.want[k] > 0
      /\ \A k \in Wanted(b) : b.want[k] <= onHand[b.w][k] - (reserved[b.w][k] - Freed(G, b.w, k))
  BY MayHold DEF FinishReserve
<1>3. b.w \in Warehouses /\ b.want \in Wants
  BY <1>2, BodiesTyped
<1>4. G \in SUBSET Reclaimable /\ \A l \in G : <<site[l[1]], l[2]>> \in Owned(t)
  BY DEF TxInv, Session, Reclaims
<1>5. /\ reserved' = [ReservedWithout(G) EXCEPT ![b.w] = [k \in Skus |-> @[k] + b.want[k]]]
      /\ \A w \in Warehouses, k \in Skus : <<w, k>> \notin Owned(t) => reserved'[w][k] = reserved[w][k]
  <2>1. /\ Written(t, "reserved", reserved, change)
              = [ReservedWithout(G) EXCEPT ![b.w] = [k \in Skus |-> @[k] + b.want[k]]]
        /\ \A w \in Warehouses, k \in Skus : <<w, k>> \notin Owned(t) =>
             Written(t, "reserved", reserved, change)[w][k] = reserved[w][k]
    BY <1>2, <1>3, <1>4, HeldOnTop, SMTT(30)
  <2> QED
    BY <1>1, <2>1
<1>6. /\ IInv /\ TxShape /\ \A r \in Shipments : RowsOf(r)
      /\ quantity \in [Shipments -> [Skus -> 0..MaxQty]]
      /\ site \in [Shipments -> Warehouses \cup {NoSite}]
      /\ opened \subseteq Positions /\ Owned(t) \subseteq opened
  BY DEF TxInv, Tables, IInv, Shape, TxShape, Session, Locks
<1>7. \A k \in Skus : status[s][k] = "none" /\ StatusWithout(G)[s][k] = "none"
  <2>1. \A k \in Skus : status[s][k] = "none"
    BY <1>2, <1>6 DEF IInv, NoRowsNoHolds
  <2>2. \A k \in Skus : <<s, k>> \notin G
    BY <1>4, <2>1 DEF Reclaimable
  <2> QED
    BY <1>2, <2>1, <2>2 DEF StatusWithout
<1>8. quantity' = [quantity EXCEPT ![s] = b.want]
  <2>1. b.want = [k \in Skus |-> IF k \in Wanted(b) THEN b.want[k] ELSE quantity[s][k]]
    <3>1. b.want \in [Skus -> 0..MaxQty]
      BY <1>3 DEF Wants
    <3>2. \A k \in Skus : b.want[k] = IF k \in Wanted(b) THEN b.want[k] ELSE quantity[s][k]
      BY <1>2, <3>1, MaxQtyPositive DEF Wanted
    <3> QED
      BY <3>1, <3>2
  <2> QED
    BY <1>1, <1>2, <1>6, <2>1
<1>9. status' = [StatusWithout(G) EXCEPT ![s] =
                   [k \in Skus |-> IF b.want[k] > 0 THEN "held" ELSE "none"]]
  <2>1. [k \in Skus |-> IF b.want[k] > 0 THEN "held" ELSE "none"]
          = [k \in Skus |-> IF k \in Wanted(b) THEN "held" ELSE StatusWithout(G)[s][k]]
    BY <1>7 DEF Wanted
  <2> QED
    BY <1>1, <2>1
<1>10. Next
  <2>1. ~HasRows(s)
    BY <1>2 DEF HasRows
  <2>2. G \subseteq {l \in Reclaimable : site[l[1]] = b.w /\ b.want[l[2]] > 0}
    BY <1>2, <1>4 DEF WantedItems, Wanted
  <2>3. \A k \in Skus : b.want[k] > 0 => b.want[k] <= Available(G, b.w, k)
    BY <1>2, <1>3 DEF Wanted, Available, ReservedWithout
  <2>4. Hold(s, b.w, b.want, G)
    BY <1>1, <1>2, <1>5, <1>8, <1>9, <2>1, <2>2, <2>3 DEF Hold
  <2> QED
    BY <1>2, <1>3, <1>4, <2>4 DEF Next
<1>11. ASSUME NEW r \in Shipments, NEW k \in Skus
       PROVE  /\ r = s => status'[r][k] = IF k \in Wanted(b) THEN "held" ELSE "none"
              /\ r # s => /\ status'[r][k] = "none" <=> status[r][k] = "none"
                          /\ status'[r][k] = "held" => status[r][k] = "held"
                          /\ <<site[r], k>> \notin Owned(t) => status'[r][k] = status[r][k]
  <2>1. /\ StatusWithout(G)[r][k] = "none" <=> status[r][k] = "none"
        /\ StatusWithout(G)[r][k] = "held" => status[r][k] = "held"
        /\ <<site[r], k>> \notin Owned(t) => StatusWithout(G)[r][k] = status[r][k]
    BY <1>4, ReclaimedRows
  <2>2. DOMAIN StatusWithout(G) = Shipments
    BY DEF StatusWithout
  <2> QED
    BY <1>2, <1>9, <2>1, <2>2 DEF Wanted
<1>12. /\ site'[s] = b.w
       /\ \A r \in Shipments : r # s => site'[r] = site[r] /\ quantity'[r] = quantity[r]
  BY <1>1, <1>2, <1>6, <1>8
<1>13. \A r \in Shipments : RowsOf(r)'
  <2> SUFFICES ASSUME NEW r \in Shipments PROVE RowsOf(r)'
    OBVIOUS
  <2>1. CASE r = s
    <3>1. \A k \in Skus : status'[s][k] # "none" <=> b.want[k] > 0
      BY <1>2, <1>11, ZenonT(40) DEF Wanted
    <3>2. site'[s] # NoSite /\ WantedItems(b) \subseteq opened'
      BY <1>1, <1>2, <1>3, <1>6, <1>12, NoSiteFresh
    <3> QED
      BY <1>2, <1>12, <2>1, <3>1, <3>2 DEF RowsOf
  <2>2. CASE r # s
    BY <1>1, <1>6, <1>11, <1>12, <2>2, RowSame
  <2> QED
    BY <2>1, <2>2
<1>14. \A l \in Reclaimable : <<site[l[1]], l[2]>> \notin Owned(t) => l \in Reclaimable'
  <2> SUFFICES ASSUME NEW l \in Reclaimable, <<site[l[1]], l[2]>> \notin Owned(t)
               PROVE  l \in Reclaimable'
    OBVIOUS
  <2>1. l[1] \in Shipments /\ l[2] \in Skus /\ site[l[1]] # NoSite
    BY <1>6, ReclaimableSited
  <2>2. status'[l[1]][l[2]] = status[l[1]][l[2]]
    BY <1>2, <1>11, <2>1
  <2> QED
    BY <1>1, <2>2 DEF Reclaimable
<1>15. KeepsOthers(Owned(t))
  <2>1. \A r \in Shipments, k \in Skus :
          status[r][k] = "none" /\ status'[r][k] # "none" => <<site'[r], k>> \in Owned(t)
    <3> SUFFICES ASSUME NEW r \in Shipments, NEW k \in Skus,
                        status[r][k] = "none", status'[r][k] # "none"
                 PROVE  <<site'[r], k>> \in Owned(t)
      OBVIOUS
    <3>1. r = s /\ k \in Wanted(b)
      BY <1>11
    <3> QED
      BY <1>2, <1>12, <3>1 DEF WantedItems
  <2>2. \A r \in Shipments, k \in Skus :
          site[r] # NoSite /\ status'[r][k] = "held" => status[r][k] = "held"
    BY <1>2, <1>11
  <2>3. \A r \in Shipments : site[r] # NoSite => site'[r] = site[r] /\ quantity'[r] = quantity[r]
    BY <1>2, <1>12
  <2> QED
    BY <1>1, <1>5, <1>6, <1>14, <2>1, <2>2, <2>3 DEF KeepsOthers
<1> QED
  BY <1>1, <1>10, <1>13, <1>15, Committed
-----------------------------------------------------------------------------
(* Steps outside every transaction.                                        *)

(* A step of no session that meets none.                                   *)
LEMMA AloneKeeps ==
  ASSUME TxInv, NEW O, KeepsOthers(O), UNCHANGED local, [Next]_vars,
         \A s \in Shipments : RowsOf(s)', \A u \in Txs : Owned(u) \cap O = {}
  PROVE  TxInv'
<1>1. IInv' /\ Unopened' /\ opened' \subseteq Positions
  BY NextKeeps, UnopenedKeeps DEF TxInv, Tables, KeepsOthers
<1>2. TxShape' /\ Alone'
  BY <1>1 DEF TxInv, TxShape, Alone, local
<1>3. ASSUME NEW u \in Txs PROVE Session(u)'
  <2>1. Same(u)
    BY DEF Same, local, Owned
  <2> QED
    BY <1>1, <2>1, OthersKeep
<1> QED
  BY <1>1, <1>2, <1>3 DEF TxInv, Tables

LEMMA OpenPositionKeeps ==
  ASSUME TxInv, NEW w \in Warehouses, NEW k \in Skus, NEW n \in 0..MaxQty, OpenPosition(w, k, n)
  PROVE  [Next]_vars /\ TxInv'
<1>1. /\ <<w, k>> \notin opened /\ received[w][k] + n <= MaxStock
      /\ opened' = opened \cup {<<w, k>>}
      /\ onHand' = [onHand EXCEPT ![w][k] = n] /\ received' = [received EXCEPT ![w][k] = n]
      /\ UNCHANGED <<reserved, dispatched, rows, confirmed, lapsed, local>>
  BY DEF OpenPosition
<1>2. /\ onHand[w][k] = 0 /\ reserved[w][k] = 0 /\ received[w][k] = 0
      /\ opened \subseteq Positions /\ <<w, k>> \in Positions
      /\ onHand \in [Warehouses -> [Skus -> Int]] /\ received \in [Warehouses -> [Skus -> Int]]
  BY <1>1 DEF TxInv, Tables, Unopened, TxShape, Positions, IInv, Shape
<1>3. n \in Nat /\ n <= MaxQty
  BY MaxQtyPositive
<1>4. [Next]_vars
  <2>1. CASE n = 0
    <3>1. onHand' = onHand /\ received' = received
      BY <1>1, <1>2, <2>1
    <3> QED
      BY <1>1, <3>1 DEF vars, stock, rows
  <2>2. CASE n # 0
    <3>1. onHand[w][k] + n = n /\ received[w][k] + n = n
      BY <1>2, <1>3
    <3>2. /\ onHand' = [onHand EXCEPT ![w][k] = @ + n]
          /\ received' = [received EXCEPT ![w][k] = @ + n]
      BY <1>1, <1>2, <3>1
    <3>3. reserved[w][k] <= onHand[w][k] + n
      BY <1>2, <1>3
    <3>4. Adjust(w, k, n)
      BY <1>1, <3>2, <3>3 DEF Adjust
    <3>5. n \in Deltas
      BY <1>3, <2>2, MaxQtyPositive DEF Deltas
    <3> QED
      BY <3>4, <3>5 DEF Next
  <2> QED
    BY <2>1, <2>2
<1>5. \A s \in Shipments : RowsOf(s)'
  BY <1>1, RowsSame DEF rows
<1>6. KeepsOthers({<<w, k>>})
  <2>1. Reclaimable' = Reclaimable
    BY <1>1 DEF Reclaimable, rows
  <2>2. \A v \in Warehouses, j \in Skus : <<v, j>> # <<w, k>> =>
          onHand'[v][j] = onHand[v][j] /\ received'[v][j] = received[v][j]
    BY <1>1, <1>2
  <2> QED
    BY <1>1, <1>2, <2>1, <2>2 DEF KeepsOthers, rows
<1>7. \A u \in Txs : Owned(u) \cap {<<w, k>>} = {}
  BY <1>1 DEF TxInv, Session, Locks
<1> QED
  BY <1>1, <1>4, <1>5, <1>6, <1>7, AloneKeeps

LEMMA ClockTickKeeps ==
  ASSUME TxInv, NEW s \in Shipments, ClockTick(s)
  PROVE  [Next]_vars /\ TxInv'
<1>1. /\ lapsed' = lapsed \cup {s} /\ UNCHANGED <<stock, rows, confirmed, opened, local>>
      /\ Next
  BY DEF ClockTick, Lapse, Next
<1>2. \A r \in Shipments : RowsOf(r)'
  BY <1>1, RowsSame DEF rows
<1>3. Reclaimable \subseteq Reclaimable'
  BY <1>1 DEF Reclaimable, rows
<1>4. KeepsOthers({})
  BY <1>1, <1>3 DEF TxInv, TxShape, KeepsOthers, stock, rows
<1> QED
  BY <1>1, <1>2, <1>4, AloneKeeps
-----------------------------------------------------------------------------
LEMMA TxStep ==
  ASSUME TxInv, [TxNext]_txVars
  PROVE  [Next]_vars /\ TxInv'
<1>1. ASSUME NEW t \in Txs, Begin(t) \/ LockItem(t) \/ Decide(t) \/ InsertRow(t) \/ Rollback(t)
      PROVE  [Next]_vars /\ TxInv'
  <2>1. UNCHANGED vars
    BY <1>1 DEF Begin, BeginReserve, BeginHeld, BeginSweep, BeginAdjust, Start, LockItem, Decide,
                InsertRow, Rollback, db
  <2> QED
    BY <1>1, <2>1, BeginKeeps, LockItemKeeps, DecideKeeps, InsertRowKeeps, RollbackKeeps
<1>2. ASSUME NEW t \in Txs,
             FinishReserve(t) \/ FinishConfirm(t) \/ FinishCommit(t) \/ FinishRelease(t)
               \/ FinishSweep(t) \/ FinishAdjust(t)
      PROVE  [Next]_vars /\ TxInv'
  BY <1>2, FinishReserveKeeps, FinishConfirmKeeps, FinishCommitKeeps, FinishReleaseKeeps,
     FinishSweepKeeps, FinishAdjustKeeps
<1>3. ASSUME UNCHANGED txVars
      PROVE  [Next]_vars /\ TxInv'
  <2>1. UNCHANGED <<db, opened>> /\ UNCHANGED local
    BY <1>3 DEF txVars
  <2> QED
    BY <2>1, QuietKeeps, AloneKeeps DEF db
<1> QED
  BY <1>1, <1>2, <1>3, OpenPositionKeeps, ClockTickKeeps DEF TxNext, Step
-----------------------------------------------------------------------------
(* Two sessions never insert rows of one shipment: with one body per       *)
(* shipment, both would hold its items.                                    *)
LEMMA NobodyInTheWay ==
  ASSUME TxInv, NEW t \in Txs, NEW u \in Txs,
         pc[t] = "insert", left[t] # <<>>, NEW q, q = left[t], entry[<<job[t].s, Head(q)>>] = u
  PROVE  FALSE
<1>1. Session(t) /\ Session(u)
  BY DEF TxInv
<1> SUFFICES ASSUME NEW s, s = job[t].s, NEW b, b = job[t].b, NEW h, h = Head(q) PROVE FALSE
  OBVIOUS
<1>2. /\ s \in Shipments /\ b \in Bodies[s] /\ WantedItems(b) \subseteq Owned(t)
      /\ q \in Seq(Wanted(b))
  BY <1>1 DEF Session, Serves, Inserts
<1>3. h \in Wanted(b) /\ h = q[1] /\ 1 \in 1..Len(q)
  <2> HIDE DEF Wanted
  <2> QED
    BY <1>2, HeadTailProperties, EmptySeq
<1>4. <<s, h>> \in Lines
  BY <1>2, <1>3 DEF Wanted, Lines
<1>5. pc[u] = "insert" /\ job[u].s = s /\ \A i \in 1..Len(left[u]) : left[u][i] # h
  BY <1>1, <1>4 DEF Session, Enters
<1>6. t # u
  BY <1>3, <1>5
<1>7. job[u].b \in Bodies[s] /\ WantedItems(job[u].b) \subseteq Owned(u)
  BY <1>1, <1>5 DEF Session, Serves
<1>8. WantedItems(job[u].b) = WantedItems(b)
  BY <1>2, <1>7, OneBody DEF WantedItems, Wanted
<1>9. <<b.w, h>> \in Owned(t) /\ <<b.w, h>> \in Owned(u)
  BY <1>2, <1>3, <1>7, <1>8 DEF WantedItems
<1> QED
  BY <1>6, <1>9 DEF TxInv, Alone, Owned

(* The session that waits for the last item anybody waits for, waits for   *)
(* nobody who waits.                                                       *)
LEMMA NoCycle == TxInv => NoDeadlock
<1> SUFFICES ASSUME TxInv, NEW D \in (SUBSET Txs) \ {{}}, \A t \in D : \E u \in D : WaitsFor(t, u)
             PROVE  FALSE
  BY DEF NoDeadlock
<1> DEFINE A == {NextItem(t) : t \in D}
<1>1. ASSUME NEW t \in D
      PROVE  /\ pc[t] = "lock" /\ NextItem(t) \in todo[t] /\ NextItem(t) \in Positions
             /\ \E u \in D : NextItem(t) \in Owned(u)
  <2>1. PICK u \in D : WaitsFor(t, u)
    OBVIOUS
  <2>2. ~ (pc[t] = "insert" /\ left[t] # <<>> /\ entry[<<job[t].s, Head(left[t])>>] = u)
    BY NobodyInTheWay
  <2>3. pc[t] = "lock" /\ todo[t] # {} /\ u \in lock[NextItem(t)]
    BY <2>1, <2>2 DEF WaitsFor
  <2>4. todo[t] \subseteq Positions
    BY DEF TxInv, TxShape
  <2>5. NextItem(t) \in todo[t]
    BY <2>3, <2>4, NextItemIsFirst
  <2> QED
    BY <2>3, <2>4, <2>5 DEF Owned
<1>2. A \subseteq Positions /\ A # {}
  BY <1>1
<1>3. PICK p \in A : \A q \in A : ItemId[q] <= ItemId[p]
  <2> HIDE DEF A
  <2> QED
    BY <1>2, HasLast
<1>4. PICK t \in D : p = NextItem(t)
  BY <1>3
<1>5. PICK u \in D : p \in Owned(u)
  BY <1>1, <1>4
<1>6. NextItem(u) \in todo[u] /\ NextItem(u) \in A /\ NextItem(u) \in Positions /\ p \in Positions
  BY <1>1, <1>2
<1>7. ItemId[p] < ItemId[NextItem(u)]
  BY <1>5, <1>6 DEF TxInv, Session, Locks
<1>8. ItemId[NextItem(u)] <= ItemId[p]
  BY <1>3, <1>6
<1>9. ItemId[p] \in Int /\ ItemId[NextItem(u)] \in Int
  BY <1>6, ItemIdInjective
<1> QED
  BY <1>7, <1>8, <1>9

LEMMA TxInvGivesTypes == TxInv => TxTypeOK
<1> SUFFICES ASSUME TxInv PROVE TxTypeOK
  OBVIOUS
<1>1. TypeOK
  BY IInvGivesTypes DEF TxInv, Tables
<1>2. \A t \in Txs : Owned(t) \subseteq opened /\ todo[t] \subseteq opened
  BY DEF TxInv, Session, Locks
<1> QED
  BY <1>1, <1>2 DEF TxInv, TxShape, TxTypeOK
-----------------------------------------------------------------------------
(* The tables and every session keep what the handlers rely on.            *)
THEOREM TxInductiveInvariant == TxSpec => []TxInv
<1>1. TxInv /\ [TxNext]_txVars => TxInv'
  BY TxStep
<1> QED
  BY TxInitInv, <1>1, PTL DEF TxSpec

(* Every table and every session keeps its type, whatever the sessions     *)
(* interleave; a session locks only rows that exist.                       *)
THEOREM TxTypesHold == TxSpec => []TxTypeOK
BY TxInductiveInvariant, TxInvGivesTypes, PTL

(* The counters a session read when it locked an item are current until it *)
(* commits, so the absolute values the ORM writes overwrite no other       *)
(* session's update.                                                       *)
THEOREM NoUpdateLost == TxSpec => []NoLostUpdate
<1>1. TxInv => NoLostUpdate
  BY DEF TxInv, Session, Locks, NoLostUpdate
<1> QED
  BY <1>1, TxInductiveInvariant, PTL

(* The rows a reserve has picked to expire stay held, unconfirmed and past *)
(* their deadline until it commits.                                        *)
THEOREM StaysReclaimable == TxSpec => []StillReclaimable
<1>1. TxInv => StillReclaimable
  BY DEF TxInv, Session, Reclaims, StillReclaimable
<1> QED
  BY <1>1, TxInductiveInvariant, PTL

(* Rule 1: locking items in the order of their ids, no set of sessions     *)
(* ever waits in a circle, index entries included.                         *)
THEOREM NeverDeadlocks == TxSpec => []NoDeadlock
BY TxInductiveInvariant, NoCycle, PTL

(* Every handler, locked and interleaved statement by statement, takes     *)
(* effect as one step of the contract, at its commit.                      *)
THEOREM TxImplementsStockHolds == TxSpec => ImplementsStockHolds
<1>1. TxInit => Contract!Init
  BY DEF TxInit, Init, Contract!Init
<1>2. TxInv /\ [TxNext]_txVars => [Next]_vars
  BY TxStep
<1>3. /\ Contract!vars = vars /\ Contract!stock = stock /\ Contract!rows = rows
      /\ Contract!Reclaimable = Reclaimable
      /\ Contract!Deltas = Deltas /\ Contract!Wants = Wants
  BY Zenon DEF vars, stock, rows, Contract!vars, Contract!stock, Contract!rows, Lines, Contract!Lines,
     Reclaimable, Contract!Reclaimable, Deltas, Contract!Deltas, Wants, Contract!Wants
<1>4. ASSUME [Next]_vars PROVE [Contract!Next]_(Contract!vars)
  <2>1. ASSUME NEW w \in Warehouses, NEW k \in Skus, NEW delta \in Deltas, Adjust(w, k, delta)
        PROVE  Contract!Next
    <3>1. Contract!Adjust(w, k, delta)
      BY <2>1, Zenon DEF Adjust, Contract!Adjust, rows, Contract!rows
    <3> QED
      BY <1>3, <3>1, Zenon DEF Contract!Next
  <2>2. ASSUME NEW s \in Shipments, NEW w \in Warehouses, NEW want \in Wants,
               NEW G \in SUBSET Reclaimable, Hold(s, w, want, G)
        PROVE  Contract!Next
    <3>1. Contract!Hold(s, w, want, G)
      BY <2>2, Zenon
      DEF Hold, HasRows, Available, ReservedWithout, StatusWithout, Freed, Losers, Count, Units,
          Reclaimable, Lines, Cardinality, Contract!Cardinality,
          Contract!Hold, Contract!HasRows, Contract!Available, Contract!ReservedWithout,
          Contract!StatusWithout, Contract!Freed, Contract!Losers, Contract!Count, Contract!Units,
          Contract!Reclaimable, Contract!Lines
    <3> QED
      BY <1>3, <3>1, Zenon DEF Contract!Next
  <2>3. ASSUME NEW s \in Shipments, Confirm(s) \/ Commit(s) \/ Release(s) \/ Lapse(s)
        PROVE  Contract!Next
    <3>1. Contract!Confirm(s) \/ Contract!Commit(s) \/ Contract!Release(s) \/ Contract!Lapse(s)
      BY <2>3, Zenon
      DEF Confirm, Commit, Release, Lapse, HeldSkus, StatusMoved, Shifted, stock, rows,
          Contract!Confirm, Contract!Commit, Contract!Release, Contract!Lapse, Contract!HeldSkus,
          Contract!StatusMoved, Contract!Shifted, Contract!stock, Contract!rows
    <3> QED
      BY <3>1, Zenon DEF Contract!Next
  <2>4. ASSUME NEW G \in SUBSET Reclaimable, Expire(G)
        PROVE  Contract!Next
    <3>1. Contract!Expire(G)
      BY <2>4, Zenon
      DEF Expire, ReservedWithout, StatusWithout, Freed, Losers, Count, Units, Reclaimable, Lines,
          Cardinality, Contract!Cardinality,
          Contract!Expire, Contract!ReservedWithout, Contract!StatusWithout, Contract!Freed,
          Contract!Losers, Contract!Count, Contract!Units, Contract!Reclaimable, Contract!Lines
    <3> QED
      BY <1>3, <3>1, Zenon DEF Contract!Next
  <2>5. CASE UNCHANGED vars
    BY <2>5 DEF vars, stock, rows, Contract!vars, Contract!stock, Contract!rows
  <2> QED
    BY <1>4, <2>1, <2>2, <2>3, <2>4, <2>5 DEF Next
<1>5. [Next]_vars => [Contract!Next]_(Contract!vars)
  BY <1>4
<1> QED
  BY <1>1, <1>2, <1>5, TxInductiveInvariant, PTL DEF TxSpec, ImplementsStockHolds, Contract!Spec

(* A confirmed hold never expires, however confirm, reserve and the sweep  *)
(* meet.                                                                   *)
THEOREM TxConfirmedKept == TxSpec => []ConfirmedKept
<1>1. TxInv => ConfirmedKept
  BY DEF TxInv, Tables, IInv
<1> QED
  BY <1>1, TxInductiveInvariant, PTL
=============================================================================
