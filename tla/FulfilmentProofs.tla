---------------------------- MODULE FulfilmentProofs ----------------------------
(***************************************************************************)
(* Shipment and Inventory together, for any number of shipments, SKUs,     *)
(* pods and calls under way: the composition is a use of StockHolds, the   *)
(* stock never runs ahead of a shipment, and a recorded shipment has its   *)
(* stock.                                                                  *)
(***************************************************************************)
EXTENDS Fulfilment, SequenceTheorems, TLAPS

(* The rows of a shipment are typed, and without rows it has no deadline.  *)
RowsTyped ==
  /\ status \in [Shipments -> [Skus -> Status]]
  /\ site \in [Shipments -> Warehouses \cup {NoSite}]
  /\ \A s \in Shipments : site[s] = NoSite =>
       s \notin lapsed /\ \A k \in Skus : status[s][k] = "none"

ShopTyped ==
  /\ pc \in [Pods -> {"idle", "reserving", "recording", "compensating"}]
  /\ serving \in [Pods -> Shipments \cup {NoShipment}]
  /\ \A p \in Pods : pc[p] # "idle" => serving[p] \in Shipments
  /\ claim \in [Shipments -> {"free", "leased", "done"}]
  /\ stray \subseteq Calls
  /\ shipment \in [Shipments -> {"none", "created", "dispatched", "cancelled"}]
  /\ events \in [Shipments -> Seq(Events)]
  /\ late \in [Shipments -> SUBSET Events]

(* An event tells of a status its shipment has reached; the two that end   *)
(* it are true for good.                                                   *)
Reached(s, event) ==
  /\ shipment[s] # "none"
  /\ event \in {"dispatched", "cancelled"} => shipment[s] = event

EventsTrue ==
  \A s \in Shipments :
    /\ \A i \in DOMAIN events[s] : Reached(s, events[s][i])
    /\ \A event \in late[s] : Reached(s, event)

ShopInv == RowsTyped /\ ShopTyped /\ EventsTrue /\ StockFollowsShipment

(* An id without a key is used by one request, whose pod is the only one   *)
(* that calls Inventory for it, unless somebody does by hand: nothing      *)
(* happens to the stock of a shipment that is being recorded, nor to that  *)
(* of a shipment that is, but for the shipment's own events.               *)
Served(s) == \E p \in Pods : serving[p] = s
Called(s) == \E c \in stray : c[2] = s
AllHeld(s) == \A k \in Wanted(s) : status[s][k] = "held"

OneRequest(s) ==
  /\ claim[s] = "free" => site[s] = NoSite /\ ~Served(s) /\ ~Called(s)
  /\ Served(s) => claim[s] = "leased" /\ shipment[s] = "none" /\ ~Called(s)
  /\ Called(s) => shipment[s] = "none"
  /\ \A p, q \in Pods : serving[p] = s /\ serving[q] = s => p = q
  /\ \A p \in Pods : serving[p] = s /\ pc[p] = "reserving" => site[s] = NoSite
  /\ \A p \in Pods : serving[p] = s /\ pc[p] = "recording" => AllHeld(s) /\ s \notin lapsed
  /\ shipment[s] # "none" => s \notin lapsed /\ claim[s] = "done"
  /\ StockOf(s)

IdlePods == \A p \in Pods : pc[p] = "idle" <=> serving[p] = NoShipment

UnkeyedInv == IdlePods /\ \A s \in Shipments \ Keyed : Untouched(s) => OneRequest(s)
-----------------------------------------------------------------------------
(* The composition uses Inventory as StockHolds allows.                    *)

LEMMA CallsAreSteps ==
  ASSUME NEW s \in Shipments
  PROVE  /\ \A w \in Warehouses, want \in Wants : HoldFor(s, w, want) => Next
         /\ TakeHold(s) => Next
         /\ GiveBack(s) => [Next]_vars
         /\ \A event \in Events : Apply(s, event) => [Next]_vars
<1>0. ASSUME NEW w \in Warehouses, NEW want \in Wants, HoldFor(s, w, want) PROVE Next
  <2> DEFINE G == {l \in Reclaimable : site[l[1]] = w /\ want[l[2]] > 0}
  <2>1. Hold(s, w, want, G) /\ G \in SUBSET Reclaimable
    BY <1>0 DEF HoldFor
  <2> QED
    BY <2>1 DEF Next
<1>1. ASSUME TakeHold(s) PROVE Next
  <2>1. Order[s].w \in Warehouses /\ Order[s].want \in Wants
    BY OrdersTyped
  <2> QED
    BY <1>0, <1>1, <2>1 DEF TakeHold
<1>2. ASSUME GiveBack(s) PROVE [Next]_vars
  BY <1>2 DEF GiveBack, Next
<1>3. ASSUME NEW event \in Events, Apply(s, event) PROVE [Next]_vars
  BY <1>2, <1>3 DEF Apply, Events, Next
<1> QED
  BY <1>0, <1>1, <1>2, <1>3

(* The events a consumer may still apply are of the kinds it handles.      *)
LEMMA NextEvent ==
  ASSUME ShopTyped, NEW s \in Shipments, events[s] # <<>>
  PROVE  /\ Head(events[s]) \in Events /\ Head(events[s]) = events[s][1] /\ 1 \in DOMAIN events[s]
         /\ Tail(events[s]) \in Seq(Events)
         /\ \A i \in DOMAIN Tail(events[s]) : i + 1 \in DOMAIN events[s] /\ Tail(events[s])[i] = events[s][i + 1]
  BY HeadTailProperties DEF ShopTyped

LEMMA ShopStepIsStockStep ==
  ASSUME ShopTyped, [ShopNext]_allVars
  PROVE  [Next]_vars
<1>1. CASE UNCHANGED allVars
  BY <1>1 DEF allVars
<1>2. ASSUME NEW p \in Pods,
             \/ \E s \in Shipments : Request(p, s)
             \/ ReserveFails(p) \/ Record(p) \/ RecordUnseen(p) \/ RecordFails(p) \/ Crash(p)
      PROVE  [Next]_vars
  BY <1>2 DEF Request, ReserveFails, Record, RecordUnseen, RecordFails, Crash
<1>3. ASSUME NEW p \in Pods, Reserve(p) PROVE [Next]_vars
  <2>1. serving[p] \in Shipments
    BY <1>3 DEF ShopTyped, Reserve
  <2> QED
    BY <1>3, <2>1, CallsAreSteps DEF Reserve, ReplayHold
<1>4. ASSUME NEW p \in Pods, Compensate(p) PROVE [Next]_vars
  <2>1. serving[p] \in Shipments
    BY <1>4 DEF ShopTyped, Compensate
  <2> QED
    BY <1>4, <2>1, CallsAreSteps DEF Compensate
<1>5. ASSUME NEW s \in Shipments,
             \/ ClaimLapses(s) \/ GiveUp(s)
             \/ \E target \in {"dispatched", "cancelled"} : ChangeStatus(s, target)
      PROVE  [Next]_vars
  BY <1>5 DEF ClaimLapses, ChangeStatus, GiveUp
<1>6. ASSUME NEW s \in Shipments, Deliver(s) PROVE [Next]_vars
  BY <1>6, NextEvent, CallsAreSteps DEF Deliver, TakeEvent
<1>7. ASSUME NEW s \in Shipments, DeliverLate(s) PROVE [Next]_vars
  <2>1. late[s] \subseteq Events
    BY DEF ShopTyped
  <2> QED
    BY <1>7, <2>1, CallsAreSteps DEF DeliverLate
<1>8. ASSUME NEW s \in Shipments, Deadline(s) PROVE [Next]_vars
  BY <1>8 DEF Deadline, Next
<1>9. ASSUME NEW call \in stray, StrayArrives(call) PROVE [Next]_vars
  <2>1. call[2] \in Shipments
    BY DEF ShopTyped, Calls
  <2> QED
    BY <1>9, <2>1, CallsAreSteps DEF StrayArrives
<1>10. ASSUME NEW w \in Warehouses, NEW k \in Skus, Receive(w, k) PROVE [Next]_vars
  <2>1. 1 \in Deltas
    BY MaxQtyPositive DEF Deltas
  <2> QED
    BY <1>10, <2>1 DEF Receive, Next
<1>11. CASE Sweep
  BY <1>11 DEF Sweep, Next
<1>12. ASSUME NEW call \in HandCalls, ByHand(call) PROVE [Next]_vars
  <2>1. call[2] \in Shipments
    BY DEF HandCalls
  <2> QED
    BY <1>12, <2>1, CallsAreSteps DEF ByHand, Next
<1>13. CASE PathStops \/ PathStarts
  BY <1>13 DEF PathStops, PathStarts
<1> QED
  BY <1>1, <1>2, <1>3, <1>4, <1>5, <1>6, <1>7, <1>8, <1>9, <1>10, <1>11, <1>12, <1>13 DEF ShopNext
-----------------------------------------------------------------------------
(* What the steps of Inventory do to the rows of a shipment.               *)

(* They stay, but for the lapsed ones that may be reclaimed.               *)
Kept(r) ==
  /\ site'[r] = site[r]
  /\ \A k \in Skus : status'[r][k] = status[r][k] \/ (r \in lapsed /\ status'[r][k] = "expired")

LEMMA RowsKept ==
  ASSUME RowsTyped, status' = status, site' = site, lapsed' = lapsed
  PROVE  RowsTyped' /\ \A r \in Shipments : Kept(r)
  BY DEF RowsTyped, Kept

LEMMA SweptRows ==
  ASSUME RowsTyped, NEW G \in SUBSET Reclaimable
  PROVE  /\ StatusWithout(G) \in [Shipments -> [Skus -> Status]]
         /\ \A r \in Shipments, k \in Skus :
              \/ StatusWithout(G)[r][k] = status[r][k]
              \/ StatusWithout(G)[r][k] = "expired" /\ r \in lapsed
  BY DEF RowsTyped, StatusWithout, Reclaimable, Status

LEMMA HoldForDoes ==
  ASSUME RowsTyped, NEW s \in Shipments, NEW w \in Warehouses, NEW want, HoldFor(s, w, want)
  PROVE  /\ RowsTyped' /\ lapsed' = lapsed /\ confirmed' = confirmed
         /\ site[s] = NoSite
         /\ \A k \in Skus : status'[s][k] = IF want[k] > 0 THEN "held" ELSE "none"
         /\ \A r \in Shipments \ {s} : Kept(r)
<1> DEFINE G == {l \in Reclaimable : site[l[1]] = w /\ want[l[2]] > 0}
           here == [k \in Skus |-> IF want[k] > 0 THEN "held" ELSE "none"]
<1>1. /\ ~HasRows(s) /\ lapsed' = lapsed /\ confirmed' = confirmed
      /\ site' = [site EXCEPT ![s] = w]
      /\ status' = [StatusWithout(G) EXCEPT ![s] = here]
  BY DEF HoldFor, Hold
<1>3. /\ StatusWithout(G) \in [Shipments -> [Skus -> Status]]
      /\ \A r \in Shipments, k \in Skus :
           \/ StatusWithout(G)[r][k] = status[r][k]
           \/ StatusWithout(G)[r][k] = "expired" /\ r \in lapsed
  BY SweptRows
<1> HIDE DEF G
<1>4. /\ status' \in [Shipments -> [Skus -> Status]] /\ status'[s] = here
      /\ \A r \in Shipments \ {s} : status'[r] = StatusWithout(G)[r]
  BY <1>1, <1>3 DEF Status
<1>5. /\ site' \in [Shipments -> Warehouses \cup {NoSite}] /\ site'[s] # NoSite
      /\ \A r \in Shipments \ {s} : site'[r] = site[r]
  BY <1>1, NoSiteFresh DEF RowsTyped
<1>6. \A r \in Shipments \ {s} : Kept(r)
  BY <1>3, <1>4, <1>5 DEF Kept
<1>7. RowsTyped'
  BY <1>1, <1>4, <1>5, <1>6 DEF RowsTyped, Kept
<1> QED
  BY <1>1, <1>4, <1>6, <1>7 DEF HasRows

LEMMA TakeHoldDoes ==
  ASSUME RowsTyped, NEW s \in Shipments, TakeHold(s)
  PROVE  /\ RowsTyped' /\ lapsed' = lapsed /\ confirmed' = confirmed
         /\ site[s] = NoSite
         /\ \A k \in Skus : status'[s][k] = IF k \in Wanted(s) THEN "held" ELSE "none"
         /\ \A r \in Shipments \ {s} : Kept(r)
<1>1. Order[s].w \in Warehouses
  BY OrdersTyped
<1> QED
  BY <1>1, HoldForDoes DEF TakeHold, Wanted

(* GiveBack(s) is what a cancellation does.                                *)
LEMMA ApplyDoes ==
  ASSUME RowsTyped, NEW s \in Shipments, NEW event \in Events, Apply(s, event)
  PROVE  /\ RowsTyped' /\ lapsed' = lapsed /\ site' = site
         /\ event # "created" => confirmed' = confirmed
         /\ \A r \in Shipments \ {s}, k \in Skus : <<r, k>> \in confirmed' => <<r, k>> \in confirmed
         /\ \A r \in Shipments \ {s} : Kept(r)
         /\ \A k \in Skus :
              \/ status'[s][k] = status[s][k]
              \/ status[s][k] = "held" /\ event = "dispatched" /\ status'[s][k] = "committed"
              \/ status[s][k] = "held" /\ event = "cancelled" /\ status'[s][k] = "released"
<1>1. CASE UNCHANGED vars
  BY <1>1, RowsKept DEF vars, rows
<1>2. ASSUME event = "created", Confirm(s)
      PROVE  /\ RowsTyped' /\ lapsed' = lapsed /\ site' = site /\ status' = status
             /\ \A r \in Shipments : Kept(r)
             /\ \A r \in Shipments \ {s}, k \in Skus : <<r, k>> \in confirmed' => <<r, k>> \in confirmed
  BY <1>2, RowsKept DEF Confirm, rows
<1>3. ASSUME NEW to \in {"committed", "released"}, status' = StatusMoved(s, to),
             HeldSkus(s) # {}, UNCHANGED <<site, confirmed, lapsed>>
      PROVE  /\ RowsTyped'
             /\ \A r \in Shipments \ {s} : Kept(r)
             /\ \A k \in Skus : status'[s][k] = status[s][k] \/ (status[s][k] = "held" /\ status'[s][k] = to)
  <2>1. /\ status' \in [Shipments -> [Skus -> Status]]
        /\ \A r \in Shipments \ {s} : status'[r] = status[r]
        /\ \A k \in Skus : status'[s][k] = IF status[s][k] = "held" THEN to ELSE status[s][k]
    BY <1>3 DEF StatusMoved, HeldSkus, RowsTyped, Status
  <2>2. RowsTyped'
    BY <1>3, <2>1 DEF RowsTyped
  <2> QED
    BY <1>3, <2>1, <2>2 DEF Kept
<1>4. CASE event = "dispatched" /\ Commit(s)
  BY <1>3, <1>4 DEF Commit
<1>5. CASE event = "cancelled" /\ Release(s)
  BY <1>3, <1>5 DEF Release
<1>6. \/ UNCHANGED vars
      \/ event = "created" /\ Confirm(s)
      \/ event = "dispatched" /\ Commit(s)
      \/ event = "cancelled" /\ Release(s)
  BY DEF Apply, Events, GiveBack
<1> QED
  BY <1>1, <1>2, <1>4, <1>5, <1>6

(* A call made by hand concerns one shipment, and only a reserve, commit   *)
(* or release touches its rows.                                            *)
LEMMA ByHandDoes ==
  ASSUME RowsTyped, NEW call \in HandCalls, ByHand(call)
  PROVE  /\ RowsTyped' /\ lapsed' = lapsed /\ byHand' = byHand \cup {call}
         /\ call = <<call[1], call[2]>> /\ call[2] \in Shipments
         /\ \A r \in Shipments : r # call[2] \/ call[1] = "confirm" => Kept(r)
         /\ \A r \in Shipments, k \in Skus :
              /\ status'[r][k] = "committed" => status[r][k] = "committed" \/ <<"commit", r>> = call
              /\ <<r, k>> \in confirmed' => <<r, k>> \in confirmed \/ <<"confirm", r>> = call
<1>1. call = <<call[1], call[2]>> /\ call[2] \in Shipments /\ byHand' = byHand \cup {call}
  BY DEF HandCalls, ByHand
<1>2. CASE call[1] = "reserve"
  <2>1. PICK w \in Warehouses, want \in Wants : HoldFor(call[2], w, want)
    BY <1>2 DEF ByHand
  <2> QED
    BY <1>1, <1>2, <2>1, HoldForDoes DEF Kept
<1>3. CASE call[1] = "confirm"
  <2>1. Apply(call[2], "created") /\ "created" \in Events
    BY <1>3 DEF ByHand, Apply, Confirm, Events
  <2> QED
    BY <1>1, <1>3, <2>1, ApplyDoes DEF Kept
<1>4. CASE call[1] = "commit"
  <2>1. Apply(call[2], "dispatched") /\ "dispatched" \in Events
    BY <1>4 DEF ByHand, Apply, Commit, Events
  <2> QED
    BY <1>1, <1>4, <2>1, ApplyDoes DEF Kept
<1>5. CASE call[1] = "release"
  <2>1. Apply(call[2], "cancelled") /\ "cancelled" \in Events
    BY <1>5 DEF ByHand, Apply, GiveBack, Release, Events
  <2> QED
    BY <1>1, <1>5, <2>1, ApplyDoes DEF Kept
<1> QED
  BY <1>2, <1>3, <1>4, <1>5 DEF ByHand

LEMMA SweepDoes ==
  ASSUME RowsTyped, Sweep
  PROVE  /\ RowsTyped' /\ UNCHANGED <<confirmed, lapsed, shop>>
         /\ \A r \in Shipments : Kept(r)
<1>1. /\ status' = StatusWithout(Reclaimable)
      /\ UNCHANGED <<site, confirmed, lapsed, shop>>
  BY DEF Sweep, Expire
<1>2. \A r \in Shipments : Kept(r)
  BY <1>1, SweptRows DEF Kept
<1>3. RowsTyped'
  BY <1>1, <1>2, SweptRows DEF RowsTyped, Kept
<1> QED
  BY <1>1, <1>2, <1>3

LEMMA DeadlineDoes ==
  ASSUME RowsTyped, NEW s \in Shipments, Deadline(s)
  PROVE  /\ RowsTyped' /\ UNCHANGED <<status, site, confirmed, shop>>
         /\ lapsed' = lapsed \cup {s}
<1>1. UNCHANGED <<status, site, confirmed, shop>> /\ lapsed' = lapsed \cup {s} /\ HeldSkus(s) # {}
  BY DEF Deadline, Lapse, rows
<1>2. site[s] # NoSite
  BY <1>1 DEF RowsTyped, HeldSkus
<1> QED
  BY <1>1, <1>2 DEF RowsTyped
-----------------------------------------------------------------------------
(* The stock never runs ahead of the shipment.                             *)

(* Stock leaves for a dispatched shipment, and is promised for good to a   *)
(* recorded one, or by hand.                                               *)
Follows ==
  /\ RowsTyped'
  /\ \A s \in Shipments, k \in Skus :
       /\ status'[s][k] = "committed" =>
            \/ status[s][k] = "committed"
            \/ shipment[s] = "dispatched"
            \/ <<"commit", s>> \in byHand'
       /\ <<s, k>> \in confirmed' =>
            <<s, k>> \in confirmed \/ shipment[s] # "none" \/ <<"confirm", s>> \in byHand'

LEMMA HandsRemembered == [ShopNext]_allVars => byHand \subseteq byHand'
  BY DEF ShopNext, allVars, shop, Request, Reserve, ReserveFails, Record, RecordUnseen, RecordFails,
     Compensate, Crash, ClaimLapses, ChangeStatus, Deliver, TakeEvent, GiveUp, DeliverLate, Deadline,
     StrayArrives, Receive, Sweep, ByHand, PathStops, PathStarts

LEMMA StillFollows ==
  ASSUME RowsTyped, UNCHANGED vars
  PROVE  Follows
  BY RowsKept DEF Follows, vars, rows

LEMMA TakenFollows ==
  ASSUME RowsTyped, NEW s \in Shipments, TakeHold(s)
  PROVE  Follows
  BY TakeHoldDoes DEF Follows, Kept

LEMMA AppliedFollows ==
  ASSUME RowsTyped, NEW s \in Shipments, NEW event \in Events, Apply(s, event),
         event # "cancelled" => Reached(s, event)
  PROVE  Follows
  BY ApplyDoes DEF Follows, Kept, Reached, Events

LEMMA GivenBackFollows ==
  ASSUME RowsTyped, NEW s \in Shipments, GiveBack(s)
  PROVE  Follows
  BY AppliedFollows DEF Apply, Events

LEMMA StepFollows == ShopInv /\ [ShopNext]_allVars => Follows
<1> SUFFICES ASSUME ShopInv, [ShopNext]_allVars PROVE Follows
  OBVIOUS
<1> USE DEF ShopInv
<1>1. CASE UNCHANGED allVars
  BY <1>1, StillFollows DEF allVars
<1>2. ASSUME NEW p \in Pods,
             \/ \E s \in Shipments : Request(p, s)
             \/ ReserveFails(p) \/ Record(p) \/ RecordUnseen(p) \/ RecordFails(p) \/ Crash(p)
      PROVE  Follows
  BY <1>2, StillFollows DEF Request, ReserveFails, Record, RecordUnseen, RecordFails, Crash
<1>3. ASSUME NEW p \in Pods, Reserve(p) PROVE Follows
  BY <1>3, StillFollows, TakenFollows DEF Reserve, ReplayHold, ShopTyped
<1>4. ASSUME NEW p \in Pods, Compensate(p) PROVE Follows
  BY <1>4, StillFollows, GivenBackFollows DEF Compensate, ShopTyped
<1>5. ASSUME NEW s \in Shipments,
             \/ ClaimLapses(s) \/ GiveUp(s)
             \/ \E target \in {"dispatched", "cancelled"} : ChangeStatus(s, target)
      PROVE  Follows
  BY <1>5, StillFollows DEF ClaimLapses, ChangeStatus, GiveUp
<1>6. ASSUME NEW s \in Shipments, Deliver(s) PROVE Follows
  <2>1. Apply(s, Head(events[s])) /\ events[s] # <<>>
    BY <1>6 DEF Deliver, TakeEvent
  <2>2. Head(events[s]) \in Events /\ Reached(s, Head(events[s]))
    BY <2>1, NextEvent DEF EventsTrue
  <2> QED
    BY <2>1, <2>2, AppliedFollows
<1>7. ASSUME NEW s \in Shipments, DeliverLate(s) PROVE Follows
  <2>1. PICK event \in late[s] : Apply(s, event)
    BY <1>7 DEF DeliverLate
  <2>2. event \in Events /\ Reached(s, event)
    BY DEF ShopTyped, EventsTrue
  <2> QED
    BY <2>1, <2>2, AppliedFollows
<1>8. ASSUME NEW s \in Shipments, Deadline(s) PROVE Follows
  BY <1>8, DeadlineDoes DEF Follows
<1>9. ASSUME NEW call \in stray, StrayArrives(call) PROVE Follows
  <2>1. call[2] \in Shipments
    BY DEF ShopTyped, Calls
  <2> QED
    BY <1>9, <2>1, StillFollows, TakenFollows, GivenBackFollows DEF StrayArrives
<1>10. ASSUME NEW w \in Warehouses, NEW k \in Skus, Receive(w, k) PROVE Follows
  BY <1>10, RowsKept DEF Receive, Adjust, rows, Follows
<1>11. CASE Sweep
  BY <1>11, SweepDoes DEF Follows, Kept
<1>12. ASSUME NEW call \in HandCalls, ByHand(call) PROVE Follows
  BY <1>12, ByHandDoes DEF Follows
<1>13. CASE PathStops \/ PathStarts
  BY <1>13, StillFollows DEF PathStops, PathStarts
<1> QED
  BY <1>1, <1>2, <1>3, <1>4, <1>5, <1>6, <1>7, <1>8, <1>9, <1>10, <1>11, <1>12, <1>13 DEF ShopNext

(* A shipment goes on, and what its events tell stays true.                *)
Onwards ==
  \A s \in Shipments :
    /\ shipment[s] # "none" => shipment'[s] # "none"
    /\ shipment[s] \in {"dispatched", "cancelled"} => shipment'[s] = shipment[s]

LEMMA TrueEvents ==
  ASSUME ShopTyped, EventsTrue, ShopTyped', Onwards,
         \A s \in Shipments :
           /\ \A i \in DOMAIN events'[s] :
                \/ \E j \in DOMAIN events[s] : events'[s][i] = events[s][j]
                \/ Reached(s, events[s][i])'
           /\ \A event \in late'[s] :
                event \in late[s] \/ \E j \in DOMAIN events[s] : event = events[s][j]
  PROVE  EventsTrue'
<1>1. ASSUME NEW s \in Shipments, NEW event, Reached(s, event) PROVE Reached(s, event)'
  BY <1>1 DEF Reached, Onwards
<1>2. ASSUME NEW s \in Shipments, NEW i \in DOMAIN events'[s] PROVE Reached(s, events[s][i])'
  <2>1. CASE \E j \in DOMAIN events[s] : events'[s][i] = events[s][j]
    BY <1>1, <2>1, ZenonT(40) DEF EventsTrue, Reached
  <2> QED
    BY <2>1
<1>3. ASSUME NEW s \in Shipments, NEW event \in late'[s] PROVE Reached(s, event)'
  BY <1>1 DEF EventsTrue
<1> QED
  BY <1>2, <1>3 DEF EventsTrue

LEMMA AbandonTyped ==
  ASSUME ShopTyped, NEW p \in Pods, Abandon(p)
  PROVE  stray' \subseteq Calls
  BY DEF ShopTyped, Abandon, Call, Calls

ShopSteps == ShopTyped' /\ EventsTrue' /\ Onwards

LEMMA SameShop ==
  ASSUME ShopTyped, EventsTrue, UNCHANGED <<pc, serving, claim, shipment, events, late>>, stray' \subseteq Calls
  PROVE  ShopSteps
  BY DEF ShopSteps, ShopTyped, EventsTrue, Reached, Onwards

(* The requests: what a pod does before or after it records the shipment.  *)
LEMMA RequestSteps ==
  ASSUME ShopTyped, EventsTrue, UNCHANGED <<shipment, events, late>>, stray' \subseteq Calls,
         NEW p \in Pods, NEW at \in {"idle", "reserving", "recording", "compensating"},
         NEW s \in Shipments \cup {NoShipment}, at # "idle" => s \in Shipments,
         pc' = [pc EXCEPT ![p] = at], serving' = [serving EXCEPT ![p] = s],
         claim' \in [Shipments -> {"free", "leased", "done"}]
  PROVE  ShopSteps
<1>1. ShopTyped'
  BY DEF ShopTyped
<1>2. EventsTrue' /\ Onwards
  BY DEF EventsTrue, Reached, Onwards
<1> QED
  BY <1>1, <1>2 DEF ShopSteps

(* A shipment changes, and says so.                                        *)
LEMMA ShipmentSteps ==
  ASSUME ShopTyped, EventsTrue, NEW s \in Shipments, NEW to \in Events,
         shipment[s] = IF to = "created" THEN "none" ELSE "created",
         shipment' = [shipment EXCEPT ![s] = to],
         events' = [events EXCEPT ![s] = Append(@, to)],
         UNCHANGED late,
         pc' \in [Pods -> {"idle", "reserving", "recording", "compensating"}],
         serving' \in [Pods -> Shipments \cup {NoShipment}],
         \A p \in Pods : pc'[p] # "idle" => serving'[p] \in Shipments,
         claim' \in [Shipments -> {"free", "leased", "done"}],
         stray' \subseteq Calls
  PROVE  ShopSteps
<1>1. /\ events' \in [Shipments -> Seq(Events)]
      /\ DOMAIN events'[s] = DOMAIN events[s] \cup {Len(events[s]) + 1}
      /\ events'[s][Len(events[s]) + 1] = to
      /\ \A i \in DOMAIN events[s] : events'[s][i] = events[s][i]
      /\ \A r \in Shipments \ {s} : events'[r] = events[r]
  BY AppendProperties DEF ShopTyped
<1>2. shipment' \in [Shipments -> {"none", "created", "dispatched", "cancelled"}]
      /\ shipment'[s] = to /\ \A r \in Shipments \ {s} : shipment'[r] = shipment[r]
  BY DEF ShopTyped, Events
<1>3. ShopTyped'
  BY <1>1, <1>2 DEF ShopTyped
<1>4. Onwards
  BY <1>2 DEF Onwards, Events
<1>5. Reached(s, to)'
  BY <1>2 DEF Reached, Events
<1>6. EventsTrue'
  BY <1>1, <1>3, <1>4, <1>5, TrueEvents
<1> QED
  BY <1>3, <1>4, <1>6 DEF ShopSteps

LEMMA StepOnwards == ShopInv /\ [ShopNext]_allVars => ShopSteps
<1> SUFFICES ASSUME ShopInv, [ShopNext]_allVars PROVE ShopSteps
  OBVIOUS
<1>0. ShopTyped /\ EventsTrue /\ stray \subseteq Calls
  BY DEF ShopInv, ShopTyped
<1>1. CASE UNCHANGED shop
  BY <1>0, <1>1, SameShop DEF shop
<1>2. ASSUME NEW p \in Pods, NEW s \in Shipments, Request(p, s) PROVE ShopSteps
  <2>1. claim' \in [Shipments -> {"free", "leased", "done"}]
    BY <1>0, <1>2 DEF Request, ShopTyped
  <2> QED
    BY <1>0, <1>2, <2>1, RequestSteps DEF Request
<1>3. ASSUME NEW p \in Pods, Reserve(p) \/ RecordFails(p) PROVE ShopSteps
  <2>1. /\ serving[p] \in Shipments /\ serving' = [serving EXCEPT ![p] = serving[p]]
        /\ UNCHANGED <<shipment, events, late>> /\ stray' = stray
        /\ \E at \in {"recording", "compensating"} : pc' = [pc EXCEPT ![p] = at]
    BY <1>0, <1>3 DEF Reserve, RecordFails, ShopTyped
  <2>2. claim' \in [Shipments -> {"free", "leased", "done"}]
    BY <1>0, <1>3 DEF Reserve, RecordFails, ClaimDropped, ShopTyped
  <2> QED
    BY <1>0, <2>1, <2>2, RequestSteps
<1>4. ASSUME NEW p \in Pods, ReserveFails(p) \/ Compensate(p) \/ Crash(p) PROVE ShopSteps
  <2>1. Done(p) /\ UNCHANGED <<shipment, events, late>>
    BY <1>4 DEF ReserveFails, Compensate, Crash
  <2>2. stray' \subseteq Calls
    BY <1>0, <1>4, AbandonTyped DEF ReserveFails, Compensate, Crash
  <2>3. claim' \in [Shipments -> {"free", "leased", "done"}]
    BY <1>0, <1>4 DEF ReserveFails, Compensate, Crash, ClaimDropped, ShopTyped
  <2> QED
    BY <1>0, <2>1, <2>2, <2>3, RequestSteps DEF Done
<1>5. ASSUME NEW p \in Pods, Record(p) \/ RecordUnseen(p) PROVE ShopSteps
  <2>1. serving[p] \in Shipments /\ Committed(serving[p]) /\ UNCHANGED <<stray, late>>
    BY <1>0, <1>5 DEF Record, RecordUnseen, ShopTyped
  <2>2. /\ pc' \in [Pods -> {"idle", "reserving", "recording", "compensating"}]
        /\ serving' \in [Pods -> Shipments \cup {NoShipment}]
        /\ \A q \in Pods : pc'[q] # "idle" => serving'[q] \in Shipments
    BY <1>0, <1>5, <2>1 DEF Record, RecordUnseen, Done, ShopTyped
  <2>3. claim' \in [Shipments -> {"free", "leased", "done"}]
    BY <1>0, <2>1 DEF Committed, ShopTyped
  <2> QED
    BY <1>0, <2>1, <2>2, <2>3, ShipmentSteps DEF Committed, Events
<1>6. ASSUME NEW s \in Shipments, ClaimLapses(s) PROVE ShopSteps
  <2>1. claim' \in [Shipments -> {"free", "leased", "done"}]
    BY <1>0, <1>6 DEF ClaimLapses, ShopTyped
  <2> QED
    BY <1>0, <1>6, <2>1 DEF ClaimLapses, ShopSteps, ShopTyped, EventsTrue, Reached, Onwards
<1>7. ASSUME NEW s \in Shipments, NEW target \in {"dispatched", "cancelled"}, ChangeStatus(s, target)
      PROVE  ShopSteps
  BY <1>0, <1>7, ShipmentSteps DEF ChangeStatus, ShopTyped, Events
<1>8. ASSUME NEW s \in Shipments, TakeEvent(s),
             late' \in {late, [late EXCEPT ![s] = @ \cup {Head(events[s])}]}
      PROVE  ShopSteps
  <2>1. /\ Head(events[s]) \in Events /\ Head(events[s]) = events[s][1] /\ 1 \in DOMAIN events[s]
        /\ events' = [events EXCEPT ![s] = Tail(events[s])] /\ Tail(events[s]) \in Seq(Events)
        /\ \A i \in DOMAIN Tail(events[s]) :
             i + 1 \in DOMAIN events[s] /\ Tail(events[s])[i] = events[s][i + 1]
    BY <1>0, <1>8, NextEvent DEF TakeEvent
  <2>2. late' \in [Shipments -> SUBSET Events] /\ \A r \in Shipments :
          late'[r] \subseteq late[r] \cup (IF r = s THEN {Head(events[s])} ELSE {})
    <3>1. CASE late' = late
      BY <1>0, <3>1 DEF ShopTyped
    <3>2. CASE late' = [late EXCEPT ![s] = @ \cup {Head(events[s])}]
      BY <1>0, <2>1, <3>2 DEF ShopTyped
    <3> QED
      BY <1>8, <3>1, <3>2
  <2>3. ShopTyped' /\ Onwards
    <3>1. events' \in [Shipments -> Seq(Events)]
      BY <1>0, <2>1 DEF ShopTyped
    <3>2. UNCHANGED <<pc, serving, claim, stray, shipment>>
      BY <1>8 DEF TakeEvent
    <3> QED
      BY <1>0, <2>2, <3>1, <3>2 DEF ShopTyped, Onwards
  <2>4. \A r \in Shipments : \A i \in DOMAIN events'[r] :
          \E j \in DOMAIN events[r] : events'[r][i] = events[r][j]
    BY <1>0, <2>1 DEF ShopTyped
  <2>5. \A r \in Shipments : \A event \in late'[r] :
          event \in late[r] \/ \E j \in DOMAIN events[r] : event = events[r][j]
    BY <2>1, <2>2
  <2> QED
    BY <1>0, <2>3, <2>4, <2>5, TrueEvents DEF ShopSteps
<1>9. ASSUME NEW s \in Shipments, DeliverLate(s) PROVE ShopSteps
  <2>1. PICK event \in late[s] : late' = [late EXCEPT ![s] = @ \ {event}]
    BY <1>9 DEF DeliverLate
  <2>2. UNCHANGED <<pc, serving, claim, stray, shipment, events>>
    BY <1>9 DEF DeliverLate
  <2> QED
    BY <1>0, <2>1, <2>2 DEF ShopSteps, ShopTyped, EventsTrue, Reached, Onwards
<1>10. ASSUME NEW call \in stray, StrayArrives(call) PROVE ShopSteps
  BY <1>0, <1>10, SameShop DEF StrayArrives
<1>11. CASE (\E call \in HandCalls : ByHand(call)) \/ PathStops \/ PathStarts
  BY <1>0, <1>11, SameShop DEF ByHand, PathStops, PathStarts
<1> QED
  BY <1>1, <1>2, <1>3, <1>4, <1>5, <1>6, <1>7, <1>8, <1>9, <1>10, <1>11
  DEF ShopNext, allVars, Deliver, GiveUp, Deadline, Receive, Sweep

LEMMA InitShop == ShopInit => ShopInv
  BY DEF ShopInit, Init, ShopInv, RowsTyped, ShopTyped, EventsTrue, StockFollowsShipment, Status

LEMMA ShopKeeps == ShopInv /\ [ShopNext]_allVars => ShopInv'
<1> SUFFICES ASSUME ShopInv, [ShopNext]_allVars PROVE ShopInv'
  OBVIOUS
<1>1. Follows /\ ShopSteps
  BY StepFollows, StepOnwards
<1>2. StockFollowsShipment'
  BY <1>1, HandsRemembered DEF Follows, ShopSteps, Onwards, ShopInv, StockFollowsShipment
<1> QED
  BY <1>1, <1>2 DEF Follows, ShopSteps, ShopInv

THEOREM ShopInvariant == ShopSpec => []ShopInv
  BY InitShop, ShopKeeps, PTL DEF ShopSpec

(* Whatever the two services do together, Inventory does what StockHolds   *)
(* promises: its theorems hold of the stock here.                          *)
THEOREM ShopUsesStockHolds == ShopSpec => Spec
<1>1. ShopInit => Init
  BY DEF ShopInit
<1>2. ShopInv /\ [ShopNext]_allVars => [Next]_vars
  BY ShopStepIsStockStep DEF ShopInv
<1> QED
  BY <1>1, <1>2, ShopInvariant, PTL DEF ShopSpec, Spec

(* Calls and events may be lost, late or repeated, pods and workers may    *)
(* die, deadlines may pass at any time, people may reserve and release by  *)
(* hand: the rows of a shipment are committed only if it is DISPATCHED or  *)
(* somebody committed them by hand, and confirmed only if it is recorded   *)
(* or somebody confirmed them by hand.                                     *)
THEOREM StockAlwaysFollows == ShopSpec => []StockFollowsShipment
<1>1. ShopInv => StockFollowsShipment
  BY DEF ShopInv
<1> QED
  BY <1>1, ShopInvariant, PTL
-----------------------------------------------------------------------------
(* A recorded shipment has its stock.                                      *)

LEMMA InitUnkeyed == ShopInit => UnkeyedInv
  BY PodsDistinct DEF ShopInit, Init, UnkeyedInv, IdlePods, OneRequest, Served, Called, StockOf

LEMMA IdlePodsKept == ShopInv /\ IdlePods /\ [ShopNext]_allVars => IdlePods'
<1> SUFFICES ASSUME ShopTyped, IdlePods, [ShopNext]_allVars PROVE IdlePods'
  BY DEF ShopInv
<1>1. CASE UNCHANGED <<pc, serving>>
  BY <1>1 DEF IdlePods
<1>2. ASSUME NEW p \in Pods, NEW at, NEW r, pc' = [pc EXCEPT ![p] = at],
             serving' = [serving EXCEPT ![p] = r], at = "idle" <=> r = NoShipment
      PROVE  IdlePods'
  BY <1>2 DEF IdlePods, ShopTyped
<1>3. ASSUME NEW p \in Pods, NEW s \in Shipments, Request(p, s) PROVE IdlePods'
  BY <1>2, <1>3, PodsDistinct DEF Request
<1>4. ASSUME NEW p \in Pods, Done(p) PROVE IdlePods'
  BY <1>2, <1>4 DEF Done
<1>5. ASSUME NEW p \in Pods, pc[p] # "idle", serving' = serving,
             pc' \in {[pc EXCEPT ![p] = "recording"], [pc EXCEPT ![p] = "compensating"]}
      PROVE  IdlePods'
  BY <1>5, PodsDistinct DEF IdlePods, ShopTyped
<1>6. ASSUME NEW p \in Pods,
             Reserve(p) \/ ReserveFails(p) \/ Record(p) \/ RecordUnseen(p) \/ RecordFails(p)
               \/ Compensate(p) \/ Crash(p)
      PROVE  IdlePods'
  BY <1>4, <1>5, <1>6 DEF Reserve, ReserveFails, Record, RecordUnseen, RecordFails, Compensate, Crash
<1> QED
  BY <1>1, <1>3, <1>6 DEF ShopNext, allVars, shop, ClaimLapses, ChangeStatus, Deliver, TakeEvent,
     GiveUp, DeliverLate, Deadline, StrayArrives, Receive, Sweep, ByHand, PathStops, PathStarts

(* Nothing is done about s, but that lapsed rows may be reclaimed and that *)
(* the deadline of a hold nobody is recording may pass.                    *)
Undisturbed(s) ==
  /\ claim'[s] = claim[s] /\ shipment'[s] = shipment[s]
  /\ \A p \in Pods : (serving'[p] = s <=> serving[p] = s) /\ (serving[p] = s => pc'[p] = pc[p])
  /\ Called(s)' => Called(s)
  /\ Kept(s)
  /\ s \in lapsed' => s \in lapsed \/ (shipment[s] = "none" /\ ~Served(s))

LEMMA UndisturbedKeeps ==
  ASSUME NEW s \in Shipments, RowsTyped, OneRequest(s), Undisturbed(s)
  PROVE  OneRequest(s)'
<1>1. Served(s)' <=> Served(s)
  BY DEF Undisturbed, Served
<1>2. s \notin lapsed => \A k \in Skus : status'[s][k] = status[s][k]
  BY DEF Undisturbed, Kept
<1>3. StockOf(s)'
  BY <1>2 DEF Undisturbed, OneRequest, StockOf, Wanted
<1>4. \A p \in Pods : serving'[p] = s /\ pc'[p] = "recording" => AllHeld(s)' /\ s \notin lapsed'
  <2> SUFFICES ASSUME NEW p \in Pods, serving'[p] = s, pc'[p] = "recording"
               PROVE  AllHeld(s)' /\ s \notin lapsed'
    OBVIOUS
  <2>1. serving[p] = s /\ pc[p] = "recording" /\ AllHeld(s) /\ s \notin lapsed
    BY DEF Undisturbed, OneRequest
  <2>2. s \notin lapsed'
    BY <2>1 DEF Undisturbed, Served
  <2> QED
    BY <1>2, <2>1, <2>2 DEF AllHeld, Wanted
<1> QED
  BY <1>1, <1>3, <1>4 DEF Undisturbed, OneRequest, Kept

LEMMA AbandonedCalls ==
  ASSUME NEW s \in Shipments, NEW p \in Pods, Abandon(p), serving[p] # s
  PROVE  Called(s)' => Called(s)
  BY DEF Abandon, Call, Called

(* The pods that serve other shipments.                                    *)
LEMMA ServedElsewhere ==
  ASSUME NEW s \in Shipments, ShopInv, NEW p \in Pods, serving[p] # s,
         \/ \E r \in Shipments \ {s} : Request(p, r)
         \/ Reserve(p) \/ ReserveFails(p) \/ Record(p) \/ RecordUnseen(p) \/ RecordFails(p)
         \/ Compensate(p) \/ Crash(p)
  PROVE  Undisturbed(s)
<1> USE DEF ShopInv
<1>1. /\ \A q \in Pods : (serving'[q] = s <=> serving[q] = s) /\ (serving[q] = s => pc'[q] = pc[q])
      /\ claim'[s] = claim[s] /\ shipment'[s] = shipment[s]
  BY PodsDistinct DEF ShopTyped, Request, Reserve, ReserveFails, Record, RecordUnseen, RecordFails,
     Compensate, Crash, Done, ClaimDropped, Committed
<1>2. Called(s)' => Called(s)
  <2>1. CASE stray' = stray
    BY <2>1 DEF Called
  <2>2. CASE Abandon(p)
    BY <2>2, AbandonedCalls
  <2> QED
    BY <2>1, <2>2 DEF Request, Reserve, ReserveFails, Record, RecordUnseen, RecordFails, Compensate, Crash
<1>3. Kept(s) /\ lapsed' = lapsed
  <2>1. CASE UNCHANGED vars
    BY <2>1, RowsKept DEF vars, rows
  <2>2. CASE serving[p] \in Shipments /\ TakeHold(serving[p])
    BY <2>2, TakeHoldDoes
  <2>3. CASE serving[p] \in Shipments /\ GiveBack(serving[p])
    <3>1. Apply(serving[p], "cancelled") /\ "cancelled" \in Events
      BY <2>3 DEF Apply, Events
    <3> QED
      BY <2>3, <3>1, ApplyDoes
  <2> QED
    BY <2>1, <2>2, <2>3 DEF Request, Reserve, ReplayHold, ReserveFails, Record, RecordUnseen, RecordFails,
       Compensate, Crash, ShopTyped
<1> QED
  BY <1>1, <1>2, <1>3 DEF Undisturbed

(* The one pod that serves s.                                              *)
LEMMA ServedHere ==
  ASSUME NEW s \in Shipments \ Keyed, ShopInv, IdlePods, OneRequest(s), ~AcksLost,
         NEW p \in Pods, serving[p] = s,
         Reserve(p) \/ ReserveFails(p) \/ Record(p) \/ RecordUnseen(p) \/ RecordFails(p)
           \/ Compensate(p) \/ Crash(p)
  PROVE  OneRequest(s)'
<1> USE DEF ShopInv
<1>1. /\ claim[s] = "leased" /\ shipment[s] = "none" /\ ~Called(s)
      /\ \A q \in Pods : serving[q] = s => q = p
  BY DEF OneRequest, Served
<1>2. ASSUME Done(p) PROVE \A q \in Pods : serving'[q] # s
  BY <1>1, <1>2, PodsDistinct DEF Done, ShopTyped
<1>3. CASE Reserve(p)
  <2>1. site[s] = NoSite /\ s \notin lapsed
    BY <1>3 DEF Reserve, OneRequest, RowsTyped
  <2>2. TakeHold(s) /\ pc'[p] = "recording" /\ UNCHANGED <<serving, claim, stray, shipment>>
    BY <1>3, <2>1 DEF Reserve, ReplayHold, HasRows, ShopTyped
  <2>3. AllHeld(s)' /\ lapsed' = lapsed
    BY <2>2, TakeHoldDoes DEF AllHeld, Wanted
  <2> QED
    BY <1>1, <2>1, <2>2, <2>3 DEF OneRequest, Served, Called, StockOf
<1>4. CASE Record(p)
  <2>1. /\ AllHeld(s) /\ s \notin lapsed /\ UNCHANGED <<vars, stray>> /\ Done(p)
        /\ shipment'[s] = "created" /\ claim'[s] = "done"
    BY <1>4 DEF Record, Committed, OneRequest, ShopTyped
  <2> QED
    BY <1>1, <1>2, <2>1 DEF OneRequest, Served, Called, StockOf, AllHeld, Wanted, vars, rows
<1>5. CASE RecordFails(p)
  <2>1. /\ UNCHANGED <<vars, serving, stray, shipment>> /\ pc'[p] = "compensating"
        /\ claim'[s] = "leased"
    BY <1>1, <1>5 DEF RecordFails, ClaimDropped, ShopTyped
  <2> QED
    BY <1>1, <2>1 DEF OneRequest, Served, Called, StockOf, vars, rows
<1>6. CASE ReserveFails(p) \/ Compensate(p) \/ Crash(p)
  <2>1. Done(p) /\ shipment'[s] = "none" /\ claim'[s] = "leased"
    BY <1>1, <1>6 DEF ReserveFails, Compensate, Crash, ClaimDropped, ShopTyped
  <2> QED
    BY <1>2, <2>1 DEF OneRequest, Served, StockOf
<1> QED
  BY <1>3, <1>4, <1>5, <1>6 DEF RecordUnseen

(* Its events only confirm or commit what it holds.                        *)
LEMMA EventsHere ==
  ASSUME NEW s \in Shipments \ Keyed, ShopInv, OneRequest(s), NEW event \in Events,
         Reached(s, event), Apply(s, event), UNCHANGED <<pc, serving, claim, stray, shipment>>
  PROVE  OneRequest(s)'
<1> USE DEF ShopInv
<1>1. shipment[s] # "none" /\ ~Served(s) /\ ~Called(s) /\ claim[s] = "done" /\ s \notin lapsed
  BY DEF Reached, OneRequest
<1>2. lapsed' = lapsed /\ ~Served(s)' /\ ~Called(s)'
  BY <1>1, ApplyDoes DEF Served, Called
<1>3. StockOf(s)'
  <2> SUFFICES ASSUME shipment[s] \in {"created", "dispatched"}, NEW k \in Wanted(s)
               PROVE  status'[s][k] \in {"held"} \cup (IF shipment[s] = "dispatched" THEN {"committed"} ELSE {})
    BY DEF StockOf, Wanted
  <2>1. status[s][k] \in {"held"} \cup (IF shipment[s] = "dispatched" THEN {"committed"} ELSE {})
    BY DEF OneRequest, StockOf
  <2>2. event # "cancelled" /\ (event = "dispatched" => shipment[s] = "dispatched") /\ k \in Skus
    BY DEF Reached, Wanted
  <2> QED
    BY <2>1, <2>2, ApplyDoes
<1> QED
  BY <1>1, <1>2, <1>3 DEF OneRequest, Served

LEMMA UnkeyedKept ==
  ASSUME Punctual, ~AcksLost, ShopInv, IdlePods, [ShopNext]_allVars,
         NEW s \in Shipments \ Keyed, Untouched(s)', OneRequest(s)
  PROVE  OneRequest(s)'
<1> USE DEF ShopInv
<1>1. ASSUME Undisturbed(s) PROVE OneRequest(s)'
  BY <1>1, UndisturbedKeeps
<1>2. ASSUME UNCHANGED <<pc, serving, claim, stray, shipment>>, Kept(s), lapsed' = lapsed
      PROVE  Undisturbed(s)
  BY <1>2 DEF Undisturbed, Called
<1>3. ASSUME NEW p \in Pods,
             \/ \E r \in Shipments : Request(p, r)
             \/ Reserve(p) \/ ReserveFails(p) \/ Record(p) \/ RecordUnseen(p) \/ RecordFails(p)
             \/ Compensate(p) \/ Crash(p)
      PROVE  OneRequest(s)'
  <2>1. CASE Request(p, s)
    <3>1. /\ claim[s] = "free" /\ UNCHANGED <<vars, stray, shipment>> /\ claim'[s] = "leased"
          /\ pc' = [pc EXCEPT ![p] = "reserving"] /\ serving' = [serving EXCEPT ![p] = s]
      BY <2>1 DEF Request, ShopTyped
    <3>2. site[s] = NoSite /\ ~Called(s) /\ shipment[s] = "none" /\ \A q \in Pods : serving[q] # s
      BY <3>1 DEF OneRequest, Served
    <3>3. \A q \in Pods : serving'[q] = s => q = p /\ pc'[q] = "reserving"
      BY <3>1, <3>2 DEF ShopTyped
    <3> QED
      BY <3>1, <3>2, <3>3 DEF OneRequest, Called, StockOf, vars, rows
  <2>2. CASE serving[p] # s /\ ~Request(p, s)
    BY <1>1, <1>3, <2>2, ServedElsewhere
  <2>3. CASE serving[p] = s /\ ~Request(p, s)
    <3>1. pc[p] # "idle"
      BY <2>3, PodsDistinct DEF IdlePods
    <3> QED
      BY <1>3, <2>3, <3>1, ServedHere DEF Request
  <2> QED
    BY <2>1, <2>2, <2>3
<1>4. ASSUME NEW r \in Shipments, ClaimLapses(r) PROVE OneRequest(s)'
  <2>1. r # s /\ UNCHANGED <<pc, serving, stray, shipment, vars>> /\ claim'[s] = claim[s]
    BY <1>4 DEF ClaimLapses, ShopTyped
  <2> QED
    BY <1>1, <2>1, RowsKept DEF Undisturbed, Called, vars, rows
<1>5. ASSUME NEW r \in Shipments, NEW target \in {"dispatched", "cancelled"}, ChangeStatus(r, target)
      PROVE  OneRequest(s)'
  <2>1. UNCHANGED <<vars, pc, serving, claim, stray>>
    BY <1>5 DEF ChangeStatus
  <2>2. CASE r # s
    <3>1. shipment'[s] = shipment[s]
      BY <1>5, <2>2 DEF ChangeStatus, ShopTyped
    <3> QED
      BY <1>1, <2>1, <3>1, RowsKept DEF Undisturbed, Called, vars, rows
  <2>3. CASE r = s
    <3>1. shipment[s] = "created" /\ shipment'[s] = target
      BY <1>5, <2>3 DEF ChangeStatus, ShopTyped
    <3> QED
      BY <2>1, <3>1 DEF OneRequest, Served, Called, StockOf, Wanted, vars, rows
  <2> QED
    BY <2>2, <2>3
<1>6. ASSUME NEW r \in Shipments, NEW event \in Events, Reached(r, event), Apply(r, event),
             UNCHANGED <<pc, serving, claim, stray, shipment>>
      PROVE  OneRequest(s)'
  <2>1. CASE r = s
    BY <1>6, <2>1, EventsHere
  <2>2. CASE r # s
    BY <1>1, <1>2, <1>6, <2>2, ApplyDoes
  <2> QED
    BY <2>1, <2>2
<1>7. ASSUME NEW r \in Shipments, Deliver(r) PROVE OneRequest(s)'
  <2>1. Head(events[r]) \in Events /\ Reached(r, Head(events[r]))
    BY <1>7, NextEvent DEF Deliver, TakeEvent, EventsTrue
  <2> QED
    BY <1>6, <1>7, <2>1 DEF Deliver, TakeEvent
<1>8. ASSUME NEW r \in Shipments, DeliverLate(r) PROVE OneRequest(s)'
  <2>1. \A event \in late[r] : event \in Events /\ Reached(r, event)
    BY DEF ShopTyped, EventsTrue
  <2> QED
    BY <1>6, <1>8, <2>1 DEF DeliverLate
<1>9. ASSUME NEW r \in Shipments, Deadline(r) PROVE OneRequest(s)'
  <2>1. shipment[r] = "none" /\ ~Served(r)
    BY <1>9 DEF Deadline, Waiting, Served
  <2> QED
    BY <1>1, <1>9, <2>1, DeadlineDoes DEF Undisturbed, Kept, Called, shop
<1>10. ASSUME NEW call \in stray, StrayArrives(call) PROVE OneRequest(s)'
  <2>1. call[2] \in Shipments /\ stray' \subseteq stray /\ UNCHANGED <<pc, serving, claim, shipment>>
    BY <1>10 DEF StrayArrives, ShopTyped, Calls
  <2>2. CASE call[2] = s
    <3>1. Called(s) /\ claim[s] # "free" /\ shipment[s] = "none" /\ ~Served(s)
      BY <2>2 DEF Called, OneRequest
    <3> QED
      BY <2>1, <3>1 DEF OneRequest, Served, StockOf
  <2>3. CASE call[2] # s
    <3>1. Kept(s) /\ lapsed' = lapsed
      <4>1. CASE UNCHANGED vars
        BY <4>1, RowsKept DEF vars, rows
      <4>2. CASE TakeHold(call[2])
        BY <2>1, <2>3, <4>2, TakeHoldDoes
      <4>3. CASE GiveBack(call[2])
        <5>1. Apply(call[2], "cancelled") /\ "cancelled" \in Events
          BY <4>3 DEF Apply, Events
        <5> QED
          BY <2>1, <2>3, <5>1, ApplyDoes
      <4> QED
        BY <1>10, <4>1, <4>2, <4>3 DEF StrayArrives
    <3> QED
      BY <1>1, <2>1, <3>1 DEF Undisturbed, Called
  <2> QED
    BY <2>2, <2>3
<1>11. CASE Sweep
  BY <1>1, <1>2, <1>11, SweepDoes DEF shop
<1>13. ASSUME NEW call \in HandCalls, ByHand(call) PROVE OneRequest(s)'
  <2>0. call[2] # s \/ call[1] = "confirm"
    <3>1. call = <<call[1], call[2]>> /\ call[1] \in {"reserve", "confirm", "commit", "release"} /\ call \in byHand'
      BY <1>13, ByHandDoes DEF HandCalls
    <3> QED
      BY <3>1 DEF Untouched
  <2>1. Kept(s) /\ lapsed' = lapsed
    BY <1>13, <2>0, ByHandDoes
  <2> QED
    BY <1>1, <1>2, <1>13, <2>1 DEF ByHand
<1>12. CASE UNCHANGED <<status, site, lapsed, pc, serving, claim, stray, shipment>>
  BY <1>1, <1>2, <1>12, RowsKept
<1> QED
  BY <1>3, <1>4, <1>5, <1>7, <1>8, <1>9, <1>10, <1>11, <1>12, <1>13
  DEF ShopNext, allVars, vars, rows, shop, GiveUp, TakeEvent, Receive, Adjust, PathStops, PathStarts

(* Every shipment created without an Idempotency-Key, and not reserved,    *)
(* committed or released by hand, has its stock, as long as its event      *)
(* arrives before the deadline of its hold and no COMMIT is reported as    *)
(* failed; events may be given up, calls, pods and workers may be lost,    *)
(* other creates may be retried and other holds handled by hand.           *)
THEOREM UnkeyedHaveStock ==
  ASSUME Punctual, ~AcksLost
  PROVE  ShopSpec => [](\A s \in Shipments \ Keyed : Untouched(s) => StockOf(s))
<1>1. ShopInv /\ UnkeyedInv /\ [ShopNext]_allVars => UnkeyedInv'
  <2> SUFFICES ASSUME ShopInv, UnkeyedInv, [ShopNext]_allVars PROVE UnkeyedInv'
    OBVIOUS
  <2>1. ASSUME NEW s \in Shipments \ Keyed, Untouched(s)' PROVE OneRequest(s)'
    <3>1. Untouched(s)
      BY <2>1, HandsRemembered DEF Untouched
    <3> QED
      BY <2>1, <3>1, UnkeyedKept DEF UnkeyedInv
  <2> QED
    BY <2>1, IdlePodsKept DEF UnkeyedInv
<1>2. UnkeyedInv => \A s \in Shipments \ Keyed : Untouched(s) => StockOf(s)
  BY DEF UnkeyedInv, OneRequest
<1> QED
  BY <1>1, <1>2, InitUnkeyed, ShopInvariant, PTL DEF ShopSpec

(* reservations.py: "A dispatched shipment therefore always finds its      *)
(* stock still held", under these conditions and where no create carries   *)
(* a key.  Without any of the conditions it may not: retried_create shows  *)
(* a create that is repeated under its key.                                *)
THEOREM DispatchedFindStock ==
  ASSUME Punctual, ~AcksLost, Keyed = {}
  PROVE  ShopSpec => []LiveStock
<1>1. (\A s \in Shipments \ Keyed : Untouched(s) => StockOf(s)) => LiveStock
  BY DEF LiveStock
<1> QED
  BY <1>1, UnkeyedHaveStock, PTL
=============================================================================
