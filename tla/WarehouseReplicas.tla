------------------------- MODULE WarehouseReplicas -------------------------
(***************************************************************************)
(* What other services make of the Warehouse service's events.  Inventory  *)
(* and Shipment keep a copy of the warehouse and admit reservations and    *)
(* shipments by it; Identity keeps which operators are scoped to the       *)
(* warehouse and drops them when it is deleted.                            *)
(*                                                                         *)
(* A consumer sees the events of the warehouse once and in order, but may  *)
(* give one up, and a redelivery may still apply it, after its successors  *)
(* (EventChannel, which EventDelivery implements).                         *)
(***************************************************************************)
EXTENDS Warehouses

CONSTANTS
  Replicas,     \* services with a copy
  Operators,
  MaxDrops,     \* bound on events given up
  MaxAsks       \* bound on assignments asked for

ASSUME BoundsAreNatural == MaxDrops \in Nat /\ MaxAsks \in Nat

VARIABLES
  pos,          \* events a replica is past
  ref,          \* its warehouse_refs row
  late,         \* events it gave up and has not applied since
  idPos,        \* the last warehouse.deleted Identity is past
  idLate,       \* those it gave up and has not applied since
  scoped,       \* committed user_warehouse_assignments
  asking,       \* assignments past the question to the Warehouse service
  raced,        \* history: warehouse.deleted was handled while it was asking
  drops, asks

replicaVars == <<pos, ref, late>>
scopeVars == <<idPos, idLate, scoped, asking, raced>>
allVars == <<ownerVars, replicaVars, scopeVars, drops, asks>>

ReplicasInit ==
  /\ OwnerInit
  /\ pos = [r \in Replicas |-> 0]
  /\ ref = [r \in Replicas |-> NoRow]
  /\ late = [r \in Replicas |-> {}]
  /\ idPos = 0
  /\ idLate = {}
  /\ scoped = {}
  /\ asking = {}
  /\ raced = {}
  /\ drops = 0
  /\ asks = 0
-----------------------------------------------------------------------------
(* Mutant of Upsert: without the WHERE.                                    *)
UpsertAnyway(held, snapshot) == snapshot

(* upsert_warehouse: INSERT .. ON CONFLICT DO UPDATE .. WHERE not older.   *)
Upsert(held, snapshot) ==
  IF held.stamp = 0 \/ held.stamp <= snapshot.stamp THEN snapshot ELSE held

Deliver(r) ==
  /\ pos[r] < Len(log)
  /\ ref' = [ref EXCEPT ![r] = Upsert(@, log[pos[r] + 1].snapshot)]
  /\ pos' = [pos EXCEPT ![r] = @ + 1]
  /\ UNCHANGED <<ownerVars, late, scopeVars, drops, asks>>

(* The handler failed max_attempts times: the event is logged and skipped. *)
Drop(r) ==
  /\ pos[r] < Len(log)
  /\ drops < MaxDrops
  /\ pos' = [pos EXCEPT ![r] = @ + 1]
  /\ late' = [late EXCEPT ![r] = @ \cup {pos'[r]}]
  /\ drops' = drops + 1
  /\ UNCHANGED <<ownerVars, ref, scopeVars, asks>>

(* Its batch is delivered again, and this time the handler succeeds.       *)
DeliverLate(r) ==
  \E i \in late[r] :
    /\ ref' = [ref EXCEPT ![r] = Upsert(@, log[i].snapshot)]
    /\ late' = [late EXCEPT ![r] = @ \ {i}]
    /\ UNCHANGED <<ownerVars, pos, scopeVars, drops, asks>>

(* require_operational, and Warehouse.is_operational behind it.            *)
Operational(r) == r.stamp > 0 /\ r.status = "active" /\ ~r.deleted
-----------------------------------------------------------------------------
(* assign_warehouse asks the Warehouse service, which answers 404 for a    *)
(* soft-deleted warehouse, and inserts later.                              *)

(* Mutant of Ask: the Warehouse service answers for a deleted warehouse.   *)
AskAnyway(u) ==
  /\ asks < MaxAsks
  /\ u \notin asking \cup scoped
  /\ Exists
  /\ asking' = asking \cup {u}
  /\ raced' = raced \ {u}
  /\ asks' = asks + 1
  /\ UNCHANGED <<ownerVars, replicaVars, idPos, idLate, scoped, drops>>

Ask(u) ==
  /\ asks < MaxAsks
  /\ u \notin asking \cup scoped
  /\ Live
  /\ asking' = asking \cup {u}
  /\ raced' = raced \ {u}
  /\ asks' = asks + 1
  /\ UNCHANGED <<ownerVars, replicaVars, idPos, idLate, scoped, drops>>

Assign(u) ==
  /\ u \in asking
  /\ asking' = asking \ {u}
  /\ scoped' = scoped \cup {u}
  /\ UNCHANGED <<ownerVars, replicaVars, idPos, idLate, raced, drops, asks>>

AssignFails(u) ==
  /\ u \in asking
  /\ asking' = asking \ {u}
  /\ raced' = raced \ {u}
  /\ UNCHANGED <<ownerVars, replicaVars, idPos, idLate, scoped, drops, asks>>

Unassign(u) ==
  /\ u \in scoped
  /\ scoped' = scoped \ {u}
  /\ raced' = raced \ {u}
  /\ UNCHANGED <<ownerVars, replicaVars, idPos, idLate, asking, drops, asks>>

(* Identity handles warehouse.deleted only; it passes over the rest.       *)
Deletions == {i \in idPos + 1..Len(log) : log[i].type = "delete"}
First(S) == CHOOSE i \in S : \A j \in S : i <= j

(* on_warehouse_deleted removes the assignments it sees.                   *)
Unscope == scoped' = {} /\ raced' = (raced \ scoped) \cup asking

IdentityDelivers ==
  /\ Deletions # {}
  /\ idPos' = First(Deletions)
  /\ Unscope
  /\ UNCHANGED <<ownerVars, replicaVars, idLate, asking, drops, asks>>

IdentityDrops ==
  /\ Deletions # {}
  /\ drops < MaxDrops
  /\ idPos' = First(Deletions)
  /\ idLate' = idLate \cup {idPos'}
  /\ drops' = drops + 1
  /\ UNCHANGED <<ownerVars, replicaVars, scoped, asking, raced, asks>>

IdentityDeliversLate ==
  \E i \in idLate :
    /\ idLate' = idLate \ {i}
    /\ Unscope
    /\ UNCHANGED <<ownerVars, replicaVars, idPos, asking, drops, asks>>
-----------------------------------------------------------------------------
OwnerStep == OwnerNext /\ UNCHANGED <<replicaVars, scopeVars, drops, asks>>

ReplicasNext ==
  \/ OwnerStep
  \/ \E r \in Replicas : Deliver(r) \/ Drop(r) \/ DeliverLate(r)
  \/ \E u \in Operators : Ask(u) \/ Assign(u) \/ AssignFails(u) \/ Unassign(u)
  \/ IdentityDelivers \/ IdentityDrops \/ IdentityDeliversLate

ReplicasSpec == ReplicasInit /\ [][ReplicasNext]_allVars
-----------------------------------------------------------------------------
ReplicasTypeOK ==
  /\ OwnerTypeOK
  /\ pos \in [Replicas -> 0..Len(log)]
  /\ ref \in [Replicas -> Rows]
  /\ late \in [Replicas -> SUBSET (1..Len(log))]
  /\ idPos \in 0..Len(log)
  /\ idLate \subseteq 1..idPos
  /\ scoped \subseteq Operators
  /\ asking \subseteq Operators \ scoped

(* events.py: "Each carries the warehouse's full public snapshot".  A      *)
(* replica that is past all events and has applied the last one holds the  *)
(* owner's row, so it admits work exactly when the warehouse is open:      *)
(* whatever it gave up, applied late or has yet to apply late, and         *)
(* whichever requests overlapped before, one change that ran alone and     *)
(* reached it repairs it.  (torn: requests overlapped and none ran alone   *)
(* since; an overlap can leave a replica wrong until then.)                *)
InStep ==
  \A r \in Replicas :
    (pos[r] = Len(log) /\ pos[r] \notin late[r] /\ ~torn)
      => ref[r] = row /\ (Operational(ref[r]) <=> Exists /\ Operational(row))

(* models.py: "the assignment is removed when a warehouse.deleted event    *)
(* arrives".  Once Identity has handled the last deletion of a deleted     *)
(* warehouse, the only operators still scoped to it are those whose        *)
(* assignment was between its question and its INSERT when the event was   *)
(* handled.                                                                *)
NoGhostScope ==
  (Exists /\ row.deleted /\ Deletions = {} /\ idPos \notin idLate) => scoped \subseteq raced
=============================================================================
