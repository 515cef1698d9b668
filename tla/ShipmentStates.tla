---------------------------- MODULE ShipmentStates ----------------------------
(***************************************************************************)
(* The life of one shipment, one step per committed transaction: the state *)
(* machine, the audit trail and the events.  Two shipments share no row,   *)
(* so one is enough.                                                       *)
(*                                                                         *)
(* Roles and scopes only refuse a request, and shipment.updated has no     *)
(* consumer: both are left out.                                            *)
(***************************************************************************)
EXTENDS Integers, Sequences

VARIABLES
  row,          \* the shipments row: status, version, delivery_attempt_count and
                \* the lifecycle timestamps (the version that wrote them, 0 for NULL)
  history,      \* shipment_status_history, oldest first
  events        \* created and status_changed events, in outbox order

life == <<row, history, events>>

BeforeDispatch == {"created", "ready_for_dispatch", "dispatching", "dispatch_failed"}
AfterDispatch ==
  {"dispatched", "picked_up", "in_transit", "out_for_delivery", "delivered",
   "delivery_failed", "return_initiated", "returned"}
ShipmentStatus == BeforeDispatch \cup AfterDispatch \cup {"cancelled"}

(* Where a shipment may still be cancelled; the mutant allows DISPATCHED ->  *)
(* CANCELLED, as the monolith did.                                          *)
CancellableInMonolith == {"created", "ready_for_dispatch", "dispatch_failed", "dispatched"}
Cancellable == {"created", "ready_for_dispatch", "dispatch_failed"}

Onward(s) ==
  CASE s = "created" -> {"ready_for_dispatch"}
    [] s = "ready_for_dispatch" -> {"dispatching"}
    [] s = "dispatching" -> {"dispatched", "dispatch_failed"}
    [] s = "dispatch_failed" -> {"ready_for_dispatch"}
    [] s = "dispatched" -> {"picked_up"}
    [] s = "picked_up" -> {"in_transit"}
    [] s = "in_transit" -> {"out_for_delivery"}
    [] s = "out_for_delivery" -> {"delivered", "delivery_failed"}
    [] s = "delivery_failed" -> {"out_for_delivery", "return_initiated"}
    [] s = "return_initiated" -> {"returned"}
    [] s \in {"delivered", "returned", "cancelled"} -> {}

(* ALLOWED_TRANSITIONS.                                                     *)
Allowed(s) == Onward(s) \cup (IF s \in Cancellable THEN {"cancelled"} ELSE {})

Editable == {"created", "ready_for_dispatch", "dispatch_failed"}

(* dispatched_at, picked_up_at, delivered_at and cancelled_at, each named  *)
(* for the status that earns it; the mutant thinks every pass through      *)
(* OUT_FOR_DELIVERY is a pick-up.                                          *)
Stamps == {"dispatched", "picked_up", "delivered", "cancelled"}
EarnedTwice(s) == IF s = "out_for_delivery" THEN {"picked_up"} ELSE {s} \cap Stamps
Earned(s) == {s} \cap Stamps

(* The row r as a change to status `target' leaves it.                     *)
Moved(r, target) ==
  [status |-> target,
   version |-> r.version + 1,
   attempts |-> r.attempts + (IF target = "delivery_failed" THEN 1 ELSE 0),
   stamps |-> [s \in Stamps |-> IF s \in Earned(target) THEN r.version + 1 ELSE r.stamps[s]]]

(* ... and as a PATCH of the other columns leaves it.                      *)
Edited(r) == [r EXCEPT !.version = @ + 1]

Init ==
  /\ row = [status |-> "created", version |-> 1, attempts |-> 0,
            stamps |-> [s \in Stamps |-> 0]]
  /\ history = <<[from |-> "none", to |-> "created"]>>
  /\ events = <<[status |-> "created", version |-> 1]>>

Move(target) ==
  /\ target \in Allowed(row.status)
  /\ row' = Moved(row, target)
  /\ history' = Append(history, [from |-> row.status, to |-> target])
  /\ events' = Append(events, [status |-> target, version |-> row.version + 1])

Edit ==
  /\ row.status \in Editable
  /\ row' = Edited(row)
  /\ UNCHANGED <<history, events>>

Next == Edit \/ \E target \in ShipmentStatus : Move(target)

Spec == Init /\ [][Next]_life
-----------------------------------------------------------------------------
LifeTypeOK ==
  /\ row \in [status : ShipmentStatus, version : Nat, attempts : Nat, stamps : [Stamps -> Nat]]
  /\ history \in Seq([from : ShipmentStatus \cup {"none"}, to : ShipmentStatus])
  /\ events \in Seq([status : ShipmentStatus, version : Nat])

(* The audit trail is a path of the state machine that ends at the         *)
(* shipment's status: every change has its history row and its event, in   *)
(* the order of the changes, and no row or event reports a change that did *)
(* not happen or overtook another.                                         *)
TrailIsPath ==
  /\ Len(history) = Len(events) /\ Len(history) > 0
  /\ history[Len(history)].to = row.status
  /\ events[Len(events)].version <= row.version
  /\ \A i \in DOMAIN history : events[i].status = history[i].to
  /\ \A i \in 1..Len(history) - 1 :
       /\ history[i + 1].from = history[i].to
       /\ history[i + 1].to \in Allowed(history[i].to)
       /\ events[i].version < events[i + 1].version

(* database.md: "Each lifecycle timestamp is written once, by the          *)
(* transition that earns it", although DISPATCH_FAILED and DELIVERY_FAILED *)
(* lead back to statuses the shipment had before.                          *)
StampsKept == \A s \in Stamps : row.stamps[s] # 0 => row'.stamps[s] = row.stamps[s]
StampsWrittenOnce == [][StampsKept]_life

(* A shipment is cancelled or its goods leave, never both: what Inventory  *)
(* released it never has to commit, and the other way round.               *)
OneFate ==
  /\ row.stamps["cancelled"] # 0 => row.stamps["dispatched"] = 0
  /\ row.status \in AfterDispatch <=> row.stamps["dispatched"] # 0
  /\ row.status = "cancelled" <=> row.stamps["cancelled"] # 0
=============================================================================
