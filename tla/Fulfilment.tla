----------------------------- MODULE Fulfilment -----------------------------
(***************************************************************************)
(* Shipment and Inventory together: creating a shipment holds stock by a   *)
(* synchronous call, recording it emits shipment.created, and stock        *)
(* follows the shipment's events from then on.                             *)
(*                                                                         *)
(* Inventory is StockHolds: each call or event is one of its steps.  The   *)
(* Shipment service is a set of pods, each serving one create request at a *)
(* time.  Requests and responses between the two may be lost or arrive     *)
(* late, and a pod may die at any point.  An administrator or support may  *)
(* also call Inventory themselves, whatever the shipment says.             *)
(*                                                                         *)
(* Events of one shipment arrive in order and are applied once, the        *)
(* contract of the outbox, the relay and the processed_events table, but   *)
(* only while Shipment's relay and Inventory's consumer both run.          *)
(*                                                                         *)
(* The statuses between CREATED and DISPATCHED do not concern the stock,   *)
(* and neither do those after it: "created" and "dispatched" stand for     *)
(* them.                                                                   *)
(***************************************************************************)
EXTENDS StockHolds, Sequences

CONSTANTS
  Pods,
  NoShipment,
  Order,         \* what the create request of each shipment asks for
  Keyed,         \* ids derived from an Idempotency-Key: their create may be retried
  Punctual,      \* TRUE: shipment.created is applied before the hold lapses
  LossyConsumer, \* TRUE: an event may be given up after max_attempts failures
  AcksLost,      \* TRUE: the COMMIT of a create may succeed and still report failure
  MaxByHand      \* bound on calls people make to Inventory

ASSUME PodsDistinct == NoShipment \notin Shipments
ASSUME KeyedAreShipments == Keyed \subseteq Shipments
ASSUME OrdersTyped == Order \in [Shipments -> [w : Warehouses, want : Wants]]
ASSUME SwitchesBoolean == {Punctual, LossyConsumer, AcksLost} \subseteq BOOLEAN
ASSUME ByHandBound == MaxByHand \in Nat

VARIABLES
  pc,            \* where each pod is in create_shipment
  serving,       \* the shipment id of its request
  claim,         \* the idempotency row of an id: "free", "leased" or "done"
  stray,         \* calls to Inventory that no pod waits for any more
  shipment,      \* the shipments table
  events,        \* events of each shipment Inventory has not applied yet
  late,          \* events it gave up that a redelivery may still apply
  flowing,       \* Shipment's relay and Inventory's consumer are running
  byHand         \* history: what people called Inventory for, of which shipment

shop == <<pc, serving, claim, stray, shipment, events, late, flowing, byHand>>
allVars == <<vars, shop>>

Wanted(s) == {k \in Skus : Order[s].want[k] > 0}
Events == {"created", "dispatched", "cancelled"}
Calls == {"reserve", "release"} \X Shipments
HandCalls == {"reserve", "confirm", "commit", "release"} \X Shipments

ShopInit ==
  /\ Init
  /\ pc = [p \in Pods |-> "idle"]
  /\ serving = [p \in Pods |-> NoShipment]
  /\ claim = [s \in Shipments |-> "free"]
  /\ stray = {}
  /\ shipment = [s \in Shipments |-> "none"]
  /\ events = [s \in Shipments |-> <<>>]
  /\ late = [s \in Shipments |-> {}]
  /\ flowing \in BOOLEAN
  /\ byHand = {}
-----------------------------------------------------------------------------
(* Inventory's side of the calls.                                          *)

(* POST /reservations: take the hold, reclaiming what has lapsed on the    *)
(* wanted positions, or answer with the rows the shipment has already.     *)
HoldFor(s, w, want) ==
  Hold(s, w, want, {l \in Reclaimable : site[l[1]] = w /\ want[l[2]] > 0})

TakeHold(s) == HoldFor(s, Order[s].w, Order[s].want)

(* Rows for anything else are a reservation_mismatch.                      *)
ReplayHold(s) ==
  /\ HasRows(s)
  /\ site[s] = Order[s].w /\ quantity[s] = Order[s].want
  /\ UNCHANGED vars

GiveBack(s) == IF HeldSkus(s) # {} THEN Release(s) ELSE UNCHANGED vars

(* release_expired over every warehouse.                                   *)
Sweep == Expire(Reclaimable) /\ UNCHANGED shop

(* An administrator or customer support posts to /reservations, /confirm,  *)
(* /commit or /release: Inventory knows nothing of the shipment, and asks  *)
(* nobody.                                                                 *)
ByHand(call) ==
  /\ Cardinality(byHand) < MaxByHand
  /\ \/ call[1] = "reserve" /\ \E w \in Warehouses, want \in Wants : HoldFor(call[2], w, want)
     \/ call[1] = "confirm" /\ Confirm(call[2])
     \/ call[1] = "commit" /\ Commit(call[2])
     \/ call[1] = "release" /\ Release(call[2])
  /\ byHand' = byHand \cup {call}
  /\ UNCHANGED <<pc, serving, claim, stray, shipment, events, late, flowing>>

(* Stock arrives.                                                          *)
Receive(w, k) == Adjust(w, k, 1) /\ UNCHANGED shop

Waiting(s) == {p \in Pods : serving[p] = s}

(* The deadline of an unconfirmed hold passes; when Punctual, only if its  *)
(* shipment was never recorded and nobody is about to record it.           *)
Deadline(s) ==
  /\ Punctual => shipment[s] = "none" /\ Waiting(s) = {}
  /\ Lapse(s)
  /\ UNCHANGED shop
-----------------------------------------------------------------------------
(* create_shipment, as run_idempotent and ShipmentService.create run it.   *)

Done(p) == pc' = [pc EXCEPT ![p] = "idle"] /\ serving' = [serving EXCEPT ![p] = NoShipment]

(* Dropping an unfinished claim frees the key of a keyed request; an id    *)
(* without a key is never used again.                                      *)
ClaimDropped(s) ==
  [claim EXCEPT ![s] = IF @ = "leased" /\ s \in Keyed THEN "free" ELSE @]

(* The call pod p waits for, which may outlive its patience.               *)
Call(p) ==
  CASE pc[p] = "reserving" -> {<<"reserve", serving[p]>>}
    [] pc[p] = "compensating" -> {<<"release", serving[p]>>}
    [] OTHER -> {}

Abandon(p) == stray' \in {stray, stray \cup Call(p)}

(* Claim the key.  A completed claim is answered from the stored response  *)
(* and a leased one with 409: neither changes anything.                    *)
Request(p, s) ==
  /\ pc[p] = "idle"
  /\ claim[s] = "free"
  /\ claim' = [claim EXCEPT ![s] = "leased"]
  /\ pc' = [pc EXCEPT ![p] = "reserving"]
  /\ serving' = [serving EXCEPT ![p] = s]
  /\ UNCHANGED <<vars, stray, shipment, events, late, flowing, byHand>>

(* The call reaches Inventory and its answer the pod.                      *)
Reserve(p) ==
  /\ pc[p] = "reserving"
  /\ TakeHold(serving[p]) \/ ReplayHold(serving[p])
  /\ pc' = [pc EXCEPT ![p] = "recording"]
  /\ UNCHANGED <<serving, claim, stray, shipment, events, late, flowing, byHand>>

(* The call fails: refused, or every attempt timed out.  The pod holds     *)
(* nothing that it knows of and does not compensate; an attempt that timed *)
(* out may still be on its way.                                            *)
ReserveFails(p) ==
  /\ pc[p] = "reserving"
  /\ Done(p)
  /\ claim' = ClaimDropped(serving[p])
  /\ Abandon(p)
  /\ UNCHANGED <<vars, shipment, events, late, flowing, byHand>>

(* A call nobody waits for arrives, or is lost after all.                  *)
StrayArrives(call) ==
  /\ stray' = stray \ {call}
  /\ \/ call[1] = "reserve" /\ TakeHold(call[2])
     \/ call[1] = "release" /\ GiveBack(call[2])
     \/ UNCHANGED vars
  /\ UNCHANGED <<pc, serving, claim, shipment, events, late, flowing, byHand>>

(* One transaction: the shipment row, its items and history, the           *)
(* shipment.created event and the stored response.                         *)
Committed(s) ==
  /\ shipment[s] = "none"
  /\ shipment' = [shipment EXCEPT ![s] = "created"]
  /\ events' = [events EXCEPT ![s] = Append(@, "created")]
  /\ claim' = [claim EXCEPT ![s] = "done"]

(* Mutant of Record: compensates in a finally clause, success included.    *)
RecordFinally(p) ==
  /\ pc[p] = "recording"
  /\ Committed(serving[p])
  /\ pc' = [pc EXCEPT ![p] = "compensating"]
  /\ UNCHANGED <<vars, serving, stray, late, flowing, byHand>>

Record(p) ==
  /\ pc[p] = "recording"
  /\ Committed(serving[p])
  /\ Done(p)
  /\ UNCHANGED <<vars, stray, late, flowing, byHand>>

(* The COMMIT took effect but the pod sees an exception.                   *)
RecordUnseen(p) ==
  /\ AcksLost
  /\ pc[p] = "recording"
  /\ Committed(serving[p])
  /\ pc' = [pc EXCEPT ![p] = "compensating"]
  /\ UNCHANGED <<vars, serving, stray, late, flowing, byHand>>

(* The transaction fails, for one because the primary key exists: rolled   *)
(* back, the claim released, and only then the hold compensated.           *)
RecordFails(p) ==
  /\ pc[p] = "recording"
  /\ pc' = [pc EXCEPT ![p] = "compensating"]
  /\ claim' = ClaimDropped(serving[p])
  /\ UNCHANGED <<vars, serving, stray, shipment, events, late, flowing, byHand>>

(* compensate: release the hold, best effort.                              *)
Compensate(p) ==
  /\ pc[p] = "compensating"
  /\ \/ GiveBack(serving[p]) /\ UNCHANGED stray
     \/ UNCHANGED vars /\ Abandon(p)
  /\ Done(p)
  /\ UNCHANGED <<claim, shipment, events, late, flowing, byHand>>

(* A pod dies: its request is forgotten, its claim stays leased.           *)
Crash(p) ==
  /\ pc[p] # "idle"
  /\ Done(p)
  /\ Abandon(p)
  /\ UNCHANGED <<vars, claim, shipment, events, late, flowing, byHand>>

(* The lease of an unfinished claim or the ttl of a completed one runs     *)
(* out: whoever asks next takes the key over.                              *)
ClaimLapses(s) ==
  /\ s \in Keyed
  /\ claim[s] # "free"
  /\ claim' = [claim EXCEPT ![s] = "free"]
  /\ UNCHANGED <<vars, pc, serving, stray, shipment, events, late, flowing, byHand>>
-----------------------------------------------------------------------------
(* Mutant of ChangeStatus: the monolith's DISPATCHED -> CANCELLED.         *)
ChangeStatusAnytime(s, target) ==
  /\ shipment[s] \in {"created", "dispatched"} \ {target}
  /\ shipment' = [shipment EXCEPT ![s] = target]
  /\ events' = [events EXCEPT ![s] = Append(@, target)]
  /\ UNCHANGED <<vars, pc, serving, claim, stray, late, flowing, byHand>>

(* change_status to DISPATCHED or CANCELLED, with its event.               *)
ChangeStatus(s, target) ==
  /\ shipment[s] = "created"
  /\ shipment' = [shipment EXCEPT ![s] = target]
  /\ events' = [events EXCEPT ![s] = Append(@, target)]
  /\ UNCHANGED <<vars, pc, serving, claim, stray, late, flowing, byHand>>

(* Inventory applies the next event of a shipment.  Confirming or          *)
(* releasing a shipment without held rows does nothing; committing one     *)
(* raises unless it was committed before, and the event is given up.       *)
ApplyNoRelease(s, event) ==   \* mutant of Apply: a cancellation is ignored
  CASE event = "created" -> IF HeldSkus(s) # {} THEN Confirm(s) ELSE UNCHANGED vars
    [] event = "dispatched" -> IF HeldSkus(s) # {} THEN Commit(s) ELSE UNCHANGED vars
    [] event = "cancelled" -> UNCHANGED vars

Apply(s, event) ==
  CASE event = "created" -> IF HeldSkus(s) # {} THEN Confirm(s) ELSE UNCHANGED vars
    [] event = "dispatched" -> IF HeldSkus(s) # {} THEN Commit(s) ELSE UNCHANGED vars
    [] event = "cancelled" -> GiveBack(s)

TakeEvent(s) ==
  /\ flowing
  /\ events[s] # <<>>
  /\ events' = [events EXCEPT ![s] = Tail(@)]
  /\ UNCHANGED <<pc, serving, claim, stray, shipment, flowing, byHand>>

Deliver(s) == TakeEvent(s) /\ Apply(s, Head(events[s])) /\ UNCHANGED late

(* The handler failed max_attempts times: the event is logged and skipped. *)
GiveUp(s) ==
  /\ LossyConsumer
  /\ TakeEvent(s)
  /\ late' = [late EXCEPT ![s] = @ \cup {Head(events[s])}]
  /\ UNCHANGED vars

(* Its batch is delivered again, and this time the handler succeeds.       *)
DeliverLate(s) ==
  \E event \in late[s] :
    /\ flowing
    /\ Apply(s, event)
    /\ late' = [late EXCEPT ![s] = @ \ {event}]
    /\ UNCHANGED <<pc, serving, claim, stray, shipment, events, flowing, byHand>>

(* A worker process ends, or a task of it: its loops end with it and what  *)
(* they have not committed is left as it was.                              *)
PathStops ==
  /\ flowing
  /\ flowing' = FALSE
  /\ UNCHANGED <<vars, pc, serving, claim, stray, shipment, events, late, byHand>>

(* Both workers run again.  As committed, shipment/worker.py is empty and  *)
(* this never happens: it is run_worker, as the other services call it.    *)
PathStarts ==
  /\ ~flowing
  /\ flowing' = TRUE
  /\ UNCHANGED <<vars, pc, serving, claim, stray, shipment, events, late, byHand>>

ShopNext ==
  \/ \E p \in Pods :
       \/ \E s \in Shipments : Request(p, s)
       \/ Reserve(p)
       \/ ReserveFails(p)
       \/ Record(p)
       \/ RecordUnseen(p)
       \/ RecordFails(p)
       \/ Compensate(p)
       \/ Crash(p)
  \/ \E s \in Shipments :
       \/ ClaimLapses(s)
       \/ \E target \in {"dispatched", "cancelled"} : ChangeStatus(s, target)
       \/ Deliver(s)
       \/ GiveUp(s)
       \/ DeliverLate(s)
       \/ Deadline(s)
  \/ \E call \in stray : StrayArrives(call)
  \/ \E w \in Warehouses, k \in Skus : Receive(w, k)
  \/ \E call \in HandCalls : ByHand(call)
  \/ Sweep
  \/ PathStops
  \/ PathStarts

(* While they run, the relay and the consumer loop (run_forever, run):     *)
(* whenever an event waits, they go on with it.  Nothing says they run.    *)
ShopSpec ==
  ShopInit /\ [][ShopNext]_allVars /\ \A s \in Shipments : WF_allVars(Deliver(s))
-----------------------------------------------------------------------------
(* reservations.py: "A dispatched shipment therefore always finds its      *)
(* stock still held".  Every line of a recorded, uncancelled shipment is   *)
(* held, or committed once it is dispatched.                               *)
StockOf(s) ==
  shipment[s] \in {"created", "dispatched"} =>
    \A k \in Wanted(s) :
      status[s][k] \in {"held"} \cup (IF shipment[s] = "dispatched" THEN {"committed"} ELSE {})

(* Nobody reserved, committed or released it by hand, which can leave any  *)
(* shipment without its hold.                                              *)
Untouched(s) == byHand \cap ({"reserve", "commit", "release"} \X {s}) = {}

LiveStock == \A s \in Shipments : Untouched(s) => StockOf(s)

(* Whatever is lost, late or repeated, and whoever reserves or releases by *)
(* hand, the stock never runs ahead of the shipment: goods are deducted    *)
(* only for a dispatched shipment and a hold is confirmed only for a       *)
(* recorded one, unless somebody committed or confirmed that very shipment *)
(* by hand.                                                                *)
StockFollowsShipment ==
  \A s \in Shipments, k \in Skus :
    /\ status[s][k] = "committed" => shipment[s] = "dispatched" \/ <<"commit", s>> \in byHand
    /\ <<s, k>> \in confirmed => shipment[s] # "none" \/ <<"confirm", s>> \in byHand

(* If from some point on the relay and the consumer run, stock catches up  *)
(* with the shipment: dispatched goods leave the books and cancelled ones  *)
(* go back on the shelf.                                                   *)
StockCatchesUp ==
  <>[]flowing =>
    \A s \in Shipments :
      /\ shipment[s] = "dispatched"
           ~> (\A k \in Wanted(s) : status[s][k] = "committed") \/ ~Untouched(s)
      /\ shipment[s] = "cancelled" ~> HeldSkus(s) = {}
=============================================================================
