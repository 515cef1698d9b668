--------------------------- MODULE ShipmentLifecycle ---------------------------
(***************************************************************************)
(* The handlers of ShipmentService on one shipment as Postgres runs them:  *)
(* a session reads the row without a lock, tests what it read, and its     *)
(* UPDATE .. WHERE version = <read> waits for the row and matches only the *)
(* version it read.  History and outbox rows are inserted after it, so in  *)
(* the order the sessions get the row.  A session may be rolled back       *)
(* anywhere; a request the tests refuse changes nothing.                   *)
(*                                                                         *)
(* `row', `history' and `events' are the committed contents.               *)
(***************************************************************************)
EXTENDS ShipmentStates, FiniteSets

CONSTANTS
  Sessions,
  MaxVersion,   \* bound on the changes of the row
  MaxParcels    \* bound on packages rows

ASSUME BoundsNatural == MaxVersion \in Nat /\ MaxParcels \in Nat

VARIABLES
  parcels,      \* sequence_no of each packages row, in order of commit
  pc,           \* where a session is
  read,         \* the row as it read it
  goal,         \* the status it moves to, or "edit"
  number        \* the sequence_no of the parcel it adds

session == <<pc, read, goal, number>>
lifecycle == <<life, parcels, session>>

NoRow == [status |-> "none"]

LifecycleTypeOK ==
  /\ LifeTypeOK
  /\ parcels \in Seq(1..MaxParcels)
  /\ pc \in [Sessions -> {"idle", "changing", "updated", "packing", "numbered", "inserted"}]
  /\ goal \in [Sessions -> ShipmentStatus \cup {"none", "edit"}]
  /\ number \in [Sessions -> 0..MaxParcels]
  /\ \A t \in Sessions : pc[t] = "changing" => read[t].version <= row.version
  /\ \A t, u \in Sessions : pc[t] = "updated" /\ pc[u] = "updated" => t = u

(* create stores the parcels of the request, numbered from 1.              *)
LifecycleInit ==
  /\ Init
  /\ parcels \in {[i \in 1..n |-> i] : n \in 0..MaxParcels}
  /\ pc = [t \in Sessions |-> "idle"]
  /\ read = [t \in Sessions |-> NoRow]
  /\ goal = [t \in Sessions |-> "none"]
  /\ number = [t \in Sessions |-> 0]

End(t) ==
  /\ pc' = [pc EXCEPT ![t] = "idle"]
  /\ read' = [read EXCEPT ![t] = NoRow]
  /\ goal' = [goal EXCEPT ![t] = "none"]
  /\ number' = [number EXCEPT ![t] = 0]

(* The request fails, a stale version or a taken number among the reasons. *)
Rollback(t) == pc[t] # "idle" /\ End(t) /\ UNCHANGED <<life, parcels>>
-----------------------------------------------------------------------------
(* change_status and update.                                               *)

Begin(t, change) ==
  /\ pc[t] = "idle"
  /\ row.version < MaxVersion
  /\ pc' = [pc EXCEPT ![t] = "changing"]
  /\ read' = [read EXCEPT ![t] = row]
  /\ goal' = [goal EXCEPT ![t] = change]
  /\ UNCHANGED <<life, parcels, number>>

BeginMove(t) == \E target \in Allowed(row.status) : Begin(t, target)
BeginEdit(t) == row.status \in Editable /\ Begin(t, "edit")

Free == \A t \in Sessions : pc[t] # "updated"

(* Mutant of Update: no version_id_col.                                    *)
UpdateBlindly(t) ==
  /\ pc[t] = "changing"
  /\ Free
  /\ pc' = [pc EXCEPT ![t] = "updated"]
  /\ UNCHANGED <<life, parcels, read, goal, number>>

(* flush: UPDATE shipments .. WHERE version = <read>.                      *)
Update(t) ==
  /\ pc[t] = "changing"
  /\ Free
  /\ row.version = read[t].version
  /\ pc' = [pc EXCEPT ![t] = "updated"]
  /\ UNCHANGED <<life, parcels, read, goal, number>>

(* Mutant of Trail: previous is taken after the assignment.                *)
TrailOfTarget(r, target) == [from |-> target, to |-> target]

Trail(r, target) == [from |-> r.status, to |-> target]

CommitMove(t) ==
  /\ pc[t] = "updated" /\ goal[t] # "edit"
  /\ row' = Moved(read[t], goal[t])
  /\ history' = Append(history, Trail(read[t], goal[t]))
  /\ events' = Append(events, [status |-> goal[t], version |-> read[t].version + 1])
  /\ End(t)
  /\ UNCHANGED parcels

CommitEdit(t) ==
  /\ pc[t] = "updated" /\ goal[t] = "edit"
  /\ row' = Edited(read[t])
  /\ End(t)
  /\ UNCHANGED <<history, events, parcels>>
-----------------------------------------------------------------------------
(* add_package: test the status, take the next number, insert.  None of it *)
(* touches the shipments row (the foreign key's share lock does not        *)
(* conflict with an UPDATE of other columns).                              *)

BeginPack(t) ==
  /\ pc[t] = "idle"
  /\ row.status \in Editable
  /\ pc' = [pc EXCEPT ![t] = "packing"]
  /\ UNCHANGED <<life, parcels, read, goal, number>>

Numbers == {parcels[i] : i \in DOMAIN parcels}

Highest == CHOOSE n \in Numbers \cup {0} : \A m \in Numbers : m <= n

(* next_package_sequence: the highest committed number, plus one.          *)
NumberParcel(t) ==
  /\ pc[t] = "packing"
  /\ Len(parcels) < MaxParcels
  /\ number' = [number EXCEPT ![t] = Highest + 1]
  /\ pc' = [pc EXCEPT ![t] = "numbered"]
  /\ UNCHANGED <<life, parcels, read, goal>>

(* Mutant of InsertParcel: no uq_package_sequence.                         *)
InsertAnyParcel(t) ==
  /\ pc[t] = "numbered"
  /\ pc' = [pc EXCEPT ![t] = "inserted"]
  /\ UNCHANGED <<life, parcels, read, goal, number>>

(* A committed entry of uq_package_sequence refuses the INSERT (Rollback), *)
(* an uncommitted one makes it wait.                                       *)
InsertParcel(t) ==
  /\ pc[t] = "numbered"
  /\ number[t] \notin Numbers
  /\ \A u \in Sessions : pc[u] = "inserted" => number[u] # number[t]
  /\ pc' = [pc EXCEPT ![t] = "inserted"]
  /\ UNCHANGED <<life, parcels, read, goal, number>>

CommitParcel(t) ==
  /\ pc[t] = "inserted"
  /\ parcels' = Append(parcels, number[t])
  /\ End(t)
  /\ UNCHANGED life

LifecycleNext ==
  \E t \in Sessions :
    \/ BeginMove(t) \/ BeginEdit(t) \/ Update(t) \/ CommitMove(t) \/ CommitEdit(t)
    \/ BeginPack(t) \/ NumberParcel(t) \/ InsertParcel(t) \/ CommitParcel(t)
    \/ Rollback(t)

LifecycleSpec == LifecycleInit /\ [][LifecycleNext]_lifecycle
-----------------------------------------------------------------------------
(* models.py: "two concurrent status changes cannot both apply".  Whatever *)
(* the sessions interleave, the committed shipment goes through the steps  *)
(* of ShipmentStates.                                                      *)
Machine == INSTANCE ShipmentStates
ImplementsShipmentStates == Machine!Spec

(* delivery_attempt_count, incremented from what was read, counts every    *)
(* failed delivery of the trail.                                           *)
Failures == {i \in DOMAIN history : history[i].to = "delivery_failed"}
AttemptsCounted == row.attempts = Cardinality(Failures)

(* The parcels of a shipment are numbered 1, 2, ... without gap or         *)
(* duplicate, whoever packs at the same time.                              *)
ParcelsNumbered == \A i \in DOMAIN parcels : parcels[i] = i
=============================================================================
