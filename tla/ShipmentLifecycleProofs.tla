------------------------ MODULE ShipmentLifecycleProofs ------------------------
(***************************************************************************)
(* The life of a shipment of any length: its trail is a path of the state  *)
(* machine, its timestamps are written once and it has one fate.  Then     *)
(* that any number of sessions, interleaved anyhow, take it through these  *)
(* steps only: the versioned UPDATE is lock enough.                        *)
(***************************************************************************)
EXTENDS ShipmentLifecycle, SequenceTheorems, FiniteSetTheorems, TLAPS

(* What the timestamps say of the statuses still ahead: the goods were not *)
(* picked up before they were dispatched, nor delivered before the end.    *)
StampsAhead ==
  /\ row.status \in BeforeDispatch \cup {"dispatched", "cancelled"} => row.stamps["picked_up"] = 0
  /\ row.status # "delivered" => row.stamps["delivered"] = 0

Lived == LifeTypeOK /\ TrailIsPath /\ OneFate /\ StampsAhead

LEMMA AllowedType ==
  ASSUME NEW s \in ShipmentStatus
  PROVE  Allowed(s) \subseteq ShipmentStatus
  BY DEF Allowed, Onward, Cancellable, ShipmentStatus, BeforeDispatch, AfterDispatch

(* Where each milestone is reached from.                                   *)
LEMMA Sources ==
  ASSUME NEW s \in ShipmentStatus, NEW t \in Allowed(s)
  PROVE  /\ t \in AfterDispatch \ {"dispatched"} => s \in AfterDispatch
         /\ t \notin AfterDispatch => s \in BeforeDispatch
         /\ t = "dispatched" => s = "dispatching"
         /\ t = "picked_up" => s = "dispatched"
         /\ t = "cancelled" => s \in BeforeDispatch
         /\ s \notin {"delivered", "cancelled"}
  BY DEF Allowed, Onward, Cancellable, ShipmentStatus, BeforeDispatch, AfterDispatch

LEMMA InitLived == Init => Lived
  BY DEF Init, Lived, LifeTypeOK, TrailIsPath, OneFate, StampsAhead,
         ShipmentStatus, BeforeDispatch, AfterDispatch, Stamps

LEMMA EditLived == Lived /\ Edit => Lived'
<1> SUFFICES ASSUME Lived, Edit PROVE Lived'
  OBVIOUS
<1> USE DEF Lived, Edit, Edited
<1>1. row \in [status : ShipmentStatus, version : Nat, attempts : Nat, stamps : [Stamps -> Nat]]
  BY DEF LifeTypeOK
<1>2. /\ row'.status = row.status /\ row'.stamps = row.stamps
      /\ row'.version = row.version + 1 /\ row'.attempts = row.attempts
      /\ row' \in [status : ShipmentStatus, version : Nat, attempts : Nat, stamps : [Stamps -> Nat]]
  BY <1>1
<1>3. LifeTypeOK'
  BY <1>2 DEF LifeTypeOK
<1>4. TrailIsPath'
  <2>1. events[Len(events)].version \in Nat
    <3>1. events \in Seq([status : ShipmentStatus, version : Nat]) /\ Len(events) > 0
      BY DEF LifeTypeOK, TrailIsPath
    <3>2. events[Len(events)] \in [status : ShipmentStatus, version : Nat]
      <4>1. Len(events) \in 1..Len(events)
        BY <3>1
      <4> QED
        BY <3>1, <4>1, ElementOfSeq, Zenon
    <3> QED
      BY <3>2
  <2>2. events[Len(events)].version <= row'.version
    BY <1>1, <1>2, <2>1 DEF TrailIsPath
  <2> QED
    BY <1>2, <2>2 DEF TrailIsPath
<1>5. OneFate' /\ StampsAhead'
  BY <1>2 DEF OneFate, StampsAhead
<1> QED
  BY <1>3, <1>4, <1>5

(* What a change to `target' leaves of the row, field by field.            *)
RowMoved(target) ==
  /\ target \in ShipmentStatus
  /\ row'.status = target
  /\ row'.version = row.version + 1
  /\ row'.stamps = [s \in Stamps |-> IF s = target THEN row.version + 1 ELSE row.stamps[s]]
  /\ row' \in [status : ShipmentStatus, version : Nat, attempts : Nat, stamps : [Stamps -> Nat]]

LEMMA MoveRow == ASSUME Lived, NEW target, Move(target) PROVE RowMoved(target)
<1>1. row \in [status : ShipmentStatus, version : Nat, attempts : Nat, stamps : [Stamps -> Nat]]
  BY DEF Lived, LifeTypeOK
<1>2. target \in ShipmentStatus
  BY <1>1, AllowedType DEF Move
<1>3. row'.stamps = [s \in Stamps |-> IF s = target THEN row.version + 1 ELSE row.stamps[s]]
  BY DEF Move, Moved, Earned
<1>4. row'.stamps \in [Stamps -> Nat]
  BY <1>1, <1>3
<1> QED
  BY <1>1, <1>2, <1>3, <1>4 DEF Move, Moved, RowMoved

LEMMA MoveLived == ASSUME Lived, NEW target, Move(target) PROVE Lived'
<1>0. RowMoved(target)
  BY MoveRow
<1>1. row \in [status : ShipmentStatus, version : Nat, attempts : Nat, stamps : [Stamps -> Nat]]
  BY DEF Lived, LifeTypeOK
<1>2. LifeTypeOK'
  <2>1. target \in ShipmentStatus /\ row.status \in ShipmentStatus /\ row.version + 1 \in Nat
    BY <1>0, <1>1 DEF RowMoved
  <2>2. history' \in Seq([from : ShipmentStatus \cup {"none"}, to : ShipmentStatus])
    <3>1. [from |-> row.status, to |-> target]
            \in [from : ShipmentStatus \cup {"none"}, to : ShipmentStatus]
      BY <2>1
    <3> QED
      BY <3>1 DEF Lived, LifeTypeOK, Move
  <2>3. events' \in Seq([status : ShipmentStatus, version : Nat])
    <3>1. [status |-> target, version |-> row.version + 1]
            \in [status : ShipmentStatus, version : Nat]
      BY <2>1
    <3> QED
      BY <3>1 DEF Lived, LifeTypeOK, Move
  <2> QED
    BY <1>0, <2>2, <2>3 DEF LifeTypeOK, RowMoved
<1>3. TrailIsPath'
  <2>1. /\ history \in Seq([from : ShipmentStatus \cup {"none"}, to : ShipmentStatus])
        /\ events \in Seq([status : ShipmentStatus, version : Nat])
        /\ Len(history) = Len(events) /\ Len(history) > 0
        /\ events[Len(events)].version <= row.version
        /\ history[Len(history)].to = row.status
    BY DEF Lived, LifeTypeOK, TrailIsPath
  <2> DEFINE n == Len(history)
             h == [from |-> row.status, to |-> target]
             e == [status |-> target, version |-> row.version + 1]
  <2>2. n \in Nat \ {0}
    BY <2>1
  <2>3. /\ history' = Append(history, h) /\ Len(history') = n + 1 /\ history'[n + 1] = h
        /\ \A i \in 1..n : history'[i] = history[i]
    BY <2>1 DEF Move
  <2>4. /\ events' = Append(events, e) /\ Len(events') = n + 1 /\ events'[n + 1] = e
        /\ \A i \in 1..n : events'[i] = events[i]
    BY <2>1 DEF Move
  <2>5. events[n].version < e.version
    <3>1. events[n] \in [status : ShipmentStatus, version : Nat]
      <4>1. n \in 1..Len(events)
        BY <2>1, <2>2
      <4> QED
        BY <2>1, <4>1, ElementOfSeq, Zenon
    <3> QED
      BY <1>1, <2>1, <3>1
  <2>6. /\ history'[n + 1].from = history'[n].to
        /\ history'[n + 1].to \in Allowed(history'[n].to)
        /\ events'[n].version < events'[n + 1].version
    BY <2>1, <2>2, <2>3, <2>4, <2>5 DEF Move
  <2>7. \A i \in 1..Len(history') - 1 :
          /\ history'[i + 1].from = history'[i].to
          /\ history'[i + 1].to \in Allowed(history'[i].to)
          /\ events'[i].version < events'[i + 1].version
    <3> SUFFICES ASSUME NEW i \in 1..n
                 PROVE  /\ history'[i + 1].from = history'[i].to
                        /\ history'[i + 1].to \in Allowed(history'[i].to)
                        /\ events'[i].version < events'[i + 1].version
      BY <2>2, <2>3
    <3>1. CASE i = n
      BY <2>6, <3>1
    <3>2. CASE i # n
      <4>1. i \in 1..n - 1 /\ i + 1 \in 1..n
        BY <2>2, <3>2
      <4> QED
        BY <2>3, <2>4, <4>1 DEF Lived, TrailIsPath
    <3> QED
      BY <3>1, <3>2
  <2>8. \A i \in DOMAIN history' : events'[i].status = history'[i].to
    <3>1. DOMAIN history' = 1..n + 1 /\ DOMAIN history = 1..n
      BY <2>1, <2>2, <2>3
    <3>2. \A i \in 1..n : events'[i].status = history'[i].to
      BY <2>3, <2>4, <3>1 DEF Lived, TrailIsPath
    <3> QED
      BY <2>2, <2>3, <2>4, <3>1, <3>2
  <2>9. /\ Len(history') = Len(events') /\ Len(history') > 0
        /\ history'[Len(history')].to = row'.status
        /\ events'[Len(events')].version <= row'.version
    BY <1>0, <1>1, <2>2, <2>3, <2>4 DEF RowMoved
  <2> QED
    BY <2>7, <2>8, <2>9 DEF TrailIsPath
<1>4. OneFate' /\ StampsAhead'
  <2>1. target \in Allowed(row.status) /\ row.status \in ShipmentStatus
    BY <1>1 DEF Move
  <2>2. /\ row'.stamps["dispatched"] =
             IF target = "dispatched" THEN row.version + 1 ELSE row.stamps["dispatched"]
        /\ row'.stamps["picked_up"] =
             IF target = "picked_up" THEN row.version + 1 ELSE row.stamps["picked_up"]
        /\ row'.stamps["delivered"] =
             IF target = "delivered" THEN row.version + 1 ELSE row.stamps["delivered"]
        /\ row'.stamps["cancelled"] =
             IF target = "cancelled" THEN row.version + 1 ELSE row.stamps["cancelled"]
    BY <1>0 DEF Stamps, RowMoved
  <2>3. row.version + 1 # 0
    BY <1>1
  <2>4. /\ target \in AfterDispatch \ {"dispatched"} => row.status \in AfterDispatch
        /\ target \notin AfterDispatch => row.status \in BeforeDispatch
        /\ target = "dispatched" => row.status = "dispatching"
        /\ target = "picked_up" => row.status = "dispatched"
        /\ target = "cancelled" => row.status \in BeforeDispatch
        /\ row.status \notin {"delivered", "cancelled"}
    BY <2>1, Sources
  <2>5. row'.status = target /\ target \in ShipmentStatus
    BY <1>0 DEF RowMoved
  <2>6. OneFate'
    BY <2>1, <2>2, <2>3, <2>4, <2>5
    DEF Lived, OneFate, ShipmentStatus, BeforeDispatch, AfterDispatch
  <2>7. StampsAhead'
    BY <2>1, <2>2, <2>4, <2>5
    DEF Lived, StampsAhead, OneFate, ShipmentStatus, BeforeDispatch, AfterDispatch
  <2> QED
    BY <2>6, <2>7
<1> QED
  BY <1>2, <1>3, <1>4 DEF Lived

LEMMA NextLived == Lived /\ [Next]_life => Lived'
<1> SUFFICES ASSUME Lived, [Next]_life PROVE Lived'
  OBVIOUS
<1>1. CASE Edit
  BY <1>1, EditLived
<1>2. ASSUME NEW target \in ShipmentStatus, Move(target) PROVE Lived'
  BY <1>2, MoveLived
<1>3. CASE UNCHANGED life
  BY <1>3 DEF life, Lived, LifeTypeOK, TrailIsPath, OneFate, StampsAhead
<1> QED
  BY <1>1, <1>2, <1>3 DEF Next

(* The inductive invariant.                                                *)
THEOREM AlwaysLived == Spec => []Lived
  BY InitLived, NextLived, PTL DEF Spec

(* The audit trail, the events and the status of a shipment agree and      *)
(* follow ALLOWED_TRANSITIONS, however long the shipment lives.            *)
THEOREM TrailStaysPath == Spec => []TrailIsPath
<1>1. Lived => TrailIsPath
  BY DEF Lived
<1> QED
  BY <1>1, AlwaysLived, PTL

(* A shipment is cancelled or dispatched, never both.                      *)
THEOREM FateIsOne == Spec => []OneFate
<1>1. Lived => OneFate
  BY DEF Lived
<1> QED
  BY <1>1, AlwaysLived, PTL

LEMMA StepKeepsStamps == Lived /\ [Next]_life => [StampsKept]_life
<1> SUFFICES ASSUME Lived, [Next]_life PROVE StampsKept \/ UNCHANGED life
  OBVIOUS
<1>1. CASE Edit
  BY <1>1 DEF Edit, Edited, StampsKept, Lived, LifeTypeOK
<1>2. ASSUME NEW target \in ShipmentStatus, Move(target) PROVE StampsKept
  <2>1. target \in Allowed(row.status) /\ row.status \in ShipmentStatus
    BY <1>2 DEF Move, Lived, LifeTypeOK
  <2>2. ASSUME NEW s \in Stamps, row.stamps[s] # 0 PROVE s # target
    BY <2>1, <2>2, Sources
    DEF Lived, OneFate, StampsAhead, Stamps, ShipmentStatus, BeforeDispatch, AfterDispatch
  <2>3. RowMoved(target)
    BY <1>2, MoveRow
  <2> QED
    BY <2>2, <2>3 DEF StampsKept, RowMoved
<1> QED
  BY <1>1, <1>2 DEF Next

(* No lifecycle timestamp is ever overwritten, whatever loops a shipment   *)
(* goes through.                                                           *)
THEOREM StampsStay == Spec => StampsWrittenOnce
  BY AlwaysLived, StepKeepsStamps, PTL DEF Spec, StampsWrittenOnce
-----------------------------------------------------------------------------
(* The sessions.                                                           *)

Changing(t) == pc[t] \in {"changing", "updated"}

(* A change is one the row it was read from allows.                        *)
Legal(t) ==
  IF goal[t] = "edit" THEN read[t].status \in Editable ELSE goal[t] \in Allowed(read[t].status)

(* What a session read is old, or it is what the row holds: the version    *)
(* tells which.                                                            *)
Telling(t) ==
  /\ read[t].version \in Nat /\ read[t].version <= row.version
  /\ read[t].version = row.version => read[t] = row

(* A session past its UPDATE is alone there, with a fresh copy of the row. *)
Versioned ==
  /\ row.status \in ShipmentStatus /\ row.version \in Nat
  /\ DOMAIN pc = Sessions /\ DOMAIN read = Sessions /\ DOMAIN goal = Sessions
  /\ \A t \in Sessions : Changing(t) => Legal(t) /\ Telling(t)
  /\ \A t \in Sessions : pc[t] = "updated" => read[t] = row
  /\ \A t, u \in Sessions : pc[t] = "updated" /\ pc[u] = "updated" => t = u

LEMMA TargetsTyped ==
  ASSUME NEW s \in ShipmentStatus
  PROVE  Allowed(s) \subseteq ShipmentStatus /\ "edit" \notin Allowed(s)
  BY DEF Allowed, Onward, Cancellable, ShipmentStatus, BeforeDispatch, AfterDispatch

LEMMA InitVersioned == LifecycleInit => Versioned
  BY DEF LifecycleInit, Init, Versioned, Changing, ShipmentStatus, BeforeDispatch

LEMMA BeginVersioned ==
  ASSUME Versioned, NEW t \in Sessions, BeginMove(t) \/ BeginEdit(t)
  PROVE  Versioned'
<1>1. PICK change : /\ Begin(t, change)
                    /\ IF change = "edit" THEN row.status \in Editable
                                          ELSE change \in Allowed(row.status)
  <2>1. CASE BeginMove(t)
    <3>1. PICK change \in Allowed(row.status) : Begin(t, change)
      BY <2>1 DEF BeginMove
    <3>2. change # "edit"
      BY <3>1, TargetsTyped DEF Versioned
    <3> QED
      BY <3>1, <3>2
  <2>2. CASE BeginEdit(t)
    BY <2>2 DEF BeginEdit
  <2> QED
    BY <2>1, <2>2
<1>2. /\ row' = row /\ read'[t] = row /\ goal'[t] = change /\ pc'[t] = "changing"
      /\ \A u \in Sessions \ {t} : read'[u] = read[u] /\ goal'[u] = goal[u] /\ pc'[u] = pc[u]
      /\ DOMAIN pc' = Sessions /\ DOMAIN read' = Sessions /\ DOMAIN goal' = Sessions
  BY <1>1 DEF Begin, Versioned, life
<1>3. Legal(t)' /\ Telling(t)'
  BY <1>1, <1>2 DEF Legal, Telling, Versioned
<1>4. \A u \in Sessions \ {t} : Changing(u)' => Legal(u)' /\ Telling(u)'
  BY <1>2 DEF Legal, Telling, Changing, Versioned
<1> QED
  BY <1>2, <1>3, <1>4 DEF Versioned

(* The optimistic lock: the version found in the row is the version read,  *)
(* hence the row is the row read.                                          *)
LEMMA UpdateVersioned ==
  ASSUME Versioned, NEW t \in Sessions, Update(t)
  PROVE  Versioned'
<1>1. /\ row' = row /\ read' = read /\ goal' = goal /\ pc[t] = "changing" /\ pc'[t] = "updated"
      /\ \A u \in Sessions \ {t} : pc'[u] = pc[u] /\ pc[u] # "updated"
      /\ DOMAIN pc' = Sessions
  BY DEF Update, Free, Versioned, life
<1>2. read[t] = row
  BY <1>1 DEF Update, Versioned, Changing, Telling
<1>3. \A u \in Sessions : Changing(u)' => Legal(u)' /\ Telling(u)'
  BY <1>1 DEF Legal, Telling, Changing, Versioned
<1> QED
  BY <1>1, <1>2, <1>3 DEF Versioned

(* A commit raises the version, which makes every copy read before it old. *)
LEMMA CommitVersioned ==
  ASSUME Versioned, NEW t \in Sessions, CommitMove(t) \/ CommitEdit(t)
  PROVE  Versioned'
<1>1. /\ pc[t] = "updated" /\ read[t] = row /\ Legal(t)
      /\ \A u \in Sessions \ {t} : pc[u] # "updated"
  BY DEF CommitMove, CommitEdit, Versioned, Changing
<1>2. /\ pc'[t] = "idle"
      /\ \A u \in Sessions \ {t} : read'[u] = read[u] /\ goal'[u] = goal[u] /\ pc'[u] = pc[u]
      /\ DOMAIN pc' = Sessions /\ DOMAIN read' = Sessions /\ DOMAIN goal' = Sessions
  BY DEF CommitMove, CommitEdit, End, Versioned
<1>3. row'.version = row.version + 1 /\ row'.status \in ShipmentStatus
  <2>1. CASE CommitMove(t)
    BY <1>1, <2>1, TargetsTyped DEF CommitMove, Moved, Legal, Versioned
  <2>2. CASE CommitEdit(t)
    <3>1. row' = Edited(row)
      BY <1>1, <2>2 DEF CommitEdit
    <3>2. row'.version = row.version + 1 /\ row'.status = row.status
      BY <3>1 DEF Edited
    <3> QED
      BY <3>2 DEF Versioned
  <2> QED
    BY <2>1, <2>2
<1>4. \A u \in Sessions : Changing(u)' => Legal(u)' /\ Telling(u)'
  BY <1>1, <1>2, <1>3 DEF Legal, Telling, Changing, Versioned
<1> QED
  BY <1>1, <1>2, <1>3, <1>4 DEF Versioned

(* The remaining steps neither change the row nor a session that does.     *)
LEMMA OtherVersioned ==
  ASSUME Versioned, NEW t \in Sessions,
         BeginPack(t) \/ NumberParcel(t) \/ InsertParcel(t) \/ CommitParcel(t) \/ Rollback(t)
  PROVE  Versioned'
<1>1. /\ row' = row /\ ~Changing(t)'
      /\ \A u \in Sessions \ {t} : read'[u] = read[u] /\ goal'[u] = goal[u] /\ pc'[u] = pc[u]
      /\ DOMAIN pc' = Sessions /\ DOMAIN read' = Sessions /\ DOMAIN goal' = Sessions
  BY DEF BeginPack, NumberParcel, InsertParcel, CommitParcel, Rollback, End, Versioned, Changing, life
<1>2. \A u \in Sessions : Changing(u)' => Legal(u)' /\ Telling(u)'
  BY <1>1 DEF Legal, Telling, Changing, Versioned
<1> QED
  BY <1>1, <1>2 DEF Versioned, Changing

LEMMA NextVersioned == Versioned /\ [LifecycleNext]_lifecycle => Versioned'
<1> SUFFICES ASSUME Versioned, [LifecycleNext]_lifecycle PROVE Versioned'
  OBVIOUS
<1>1. CASE UNCHANGED lifecycle
  BY <1>1 DEF lifecycle, life, session, Versioned, Changing, Legal, Telling
<1>2. CASE LifecycleNext
  BY <1>2, BeginVersioned, UpdateVersioned, CommitVersioned, OtherVersioned DEF LifecycleNext
<1> QED
  BY <1>1, <1>2

(* The inductive invariant of the optimistic lock.                         *)
THEOREM AlwaysVersioned == LifecycleSpec => []Versioned
  BY InitVersioned, NextVersioned, PTL DEF LifecycleSpec
-----------------------------------------------------------------------------
LEMMA StepsInTurn == Versioned /\ [LifecycleNext]_lifecycle => [Next]_life
<1> SUFFICES ASSUME Versioned, [LifecycleNext]_lifecycle PROVE Next \/ UNCHANGED life
  BY DEF life
<1>1. CASE UNCHANGED lifecycle
  BY <1>1 DEF lifecycle
<1>2. ASSUME NEW t \in Sessions, CommitMove(t) PROVE goal[t] \in ShipmentStatus /\ Move(goal[t])
  <2>1. read[t] = row /\ Legal(t) /\ goal[t] # "edit"
    BY <1>2 DEF CommitMove, Versioned, Changing
  <2>2. goal[t] \in ShipmentStatus
    BY <2>1, TargetsTyped DEF Legal, Versioned
  <2> QED
    BY <1>2, <2>1, <2>2 DEF CommitMove, Move, Legal, Trail
<1>3. ASSUME NEW t \in Sessions, CommitEdit(t) PROVE Edit
  BY <1>3 DEF CommitEdit, Versioned, Changing, Legal, Edit
<1>4. ASSUME NEW t \in Sessions,
             BeginMove(t) \/ BeginEdit(t) \/ Update(t) \/ BeginPack(t) \/ NumberParcel(t)
               \/ InsertParcel(t) \/ CommitParcel(t) \/ Rollback(t)
      PROVE  UNCHANGED life
  BY <1>4 DEF BeginMove, BeginEdit, Begin, Update, BeginPack, NumberParcel, InsertParcel,
     CommitParcel, Rollback
<1> QED
  BY <1>1, <1>2, <1>3, <1>4 DEF LifecycleNext, Next

(* Two concurrent status changes cannot both apply: every behaviour of the *)
(* sessions is one of the state machine, seen through the committed rows.  *)
THEOREM LifecycleImplements == LifecycleSpec => ImplementsShipmentStates
<1>1. LifecycleInit => Machine!Init
  BY DEF LifecycleInit, Init, Machine!Init, Stamps, Machine!Stamps
<1>2. [Next]_life => [Machine!Next]_(Machine!life)
  BY DEF Next, Machine!Next, life, Machine!life, Move, Machine!Move, Allowed, Machine!Allowed,
     Onward, Machine!Onward, Cancellable, Machine!Cancellable, Moved, Machine!Moved,
     Earned, Machine!Earned, Stamps, Machine!Stamps, Edit, Machine!Edit, Edited, Machine!Edited,
     Editable, Machine!Editable, ShipmentStatus, Machine!ShipmentStatus,
     BeforeDispatch, Machine!BeforeDispatch, AfterDispatch, Machine!AfterDispatch
<1> QED
  BY <1>1, <1>2, AlwaysVersioned, StepsInTurn, PTL
  DEF LifecycleSpec, ImplementsShipmentStates, Machine!Spec
-----------------------------------------------------------------------------
(* So the shipment lives under its sessions as it lives alone.             *)
THEOREM LivesUnderSessions == LifecycleSpec => []Lived
<1>1. LifecycleInit => Lived
  BY InitLived DEF LifecycleInit
<1> QED
  BY <1>1, NextLived, AlwaysVersioned, StepsInTurn, PTL DEF LifecycleSpec

(* Whatever the sessions interleave, history and events agree with the     *)
(* status and follow ALLOWED_TRANSITIONS.                                  *)
THEOREM TrailStaysPathUnderSessions == LifecycleSpec => []TrailIsPath
<1>1. Lived => TrailIsPath
  BY DEF Lived
<1> QED
  BY <1>1, LivesUnderSessions, PTL

(* No two sessions, however they overlap, cancel a shipment and let its    *)
(* goods leave.                                                            *)
THEOREM FateIsOneUnderSessions == LifecycleSpec => []OneFate
<1>1. Lived => OneFate
  BY DEF Lived
<1> QED
  BY <1>1, LivesUnderSessions, PTL

(* No session overwrites a lifecycle timestamp another one wrote.          *)
THEOREM StampsStayUnderSessions == LifecycleSpec => StampsWrittenOnce
  BY LivesUnderSessions, AlwaysVersioned, StepsInTurn, StepKeepsStamps, PTL
  DEF LifecycleSpec, StampsWrittenOnce
-----------------------------------------------------------------------------
(* The failed deliveries of the trail grow by one when the counter does.   *)
LEMMA AttemptsStep == Lived /\ AttemptsCounted /\ [Next]_life => AttemptsCounted'
<1> SUFFICES ASSUME Lived, AttemptsCounted, [Next]_life PROVE AttemptsCounted'
  OBVIOUS
<1>1. /\ history \in Seq([from : ShipmentStatus \cup {"none"}, to : ShipmentStatus])
      /\ row.attempts \in Nat
  BY DEF Lived, LifeTypeOK
<1>2. CASE Edit \/ UNCHANGED life
  <2>1. CASE Edit
    <3>1. row' = [row EXCEPT !.version = @ + 1] /\ history' = history
      BY <2>1 DEF Edit, Edited
    <3>2. row'.attempts = row.attempts
      BY <3>1
    <3>3. Failures' = Failures
      BY <3>1 DEF Failures
    <3> QED
      BY <3>2, <3>3 DEF AttemptsCounted
  <2>2. CASE UNCHANGED life
    <3>1. row' = row /\ history' = history
      BY <2>2 DEF life
    <3>2. Failures' = Failures
      BY <3>1 DEF Failures
    <3> QED
      BY <3>1, <3>2 DEF AttemptsCounted
  <2> QED
    BY <1>2, <2>1, <2>2
<1>3. ASSUME NEW target \in ShipmentStatus, Move(target) PROVE AttemptsCounted'
  <2> DEFINE n == Len(history)
             h == [from |-> row.status, to |-> target]
  <2>1. /\ n \in Nat /\ DOMAIN history = 1..n /\ DOMAIN history' = 1..n + 1
        /\ history'[n + 1] = h /\ \A i \in 1..n : history'[i] = history[i]
    BY <1>1, <1>3 DEF Move
  <2>2. IsFiniteSet(Failures)
    <3>1. IsFiniteSet(1..n)
      BY <2>1, FS_Interval
    <3> QED
      BY <2>1, <3>1, FS_Subset DEF Failures
  <2>3. n + 1 \notin Failures
    BY <2>1 DEF Failures
  <2>4. row'.attempts = row.attempts + (IF target = "delivery_failed" THEN 1 ELSE 0)
    BY <1>3 DEF Move, Moved
  <2>5. CASE target = "delivery_failed"
    <3>1. Failures' = Failures \cup {n + 1}
      BY <2>1, <2>5 DEF Failures
    <3>2. Cardinality(Failures') = Cardinality(Failures) + 1
      BY <2>2, <2>3, <3>1, FS_AddElement
    <3> QED
      BY <2>4, <2>5, <3>2 DEF AttemptsCounted
  <2>6. CASE target # "delivery_failed"
    <3>1. Failures' = Failures
      BY <2>1, <2>6 DEF Failures
    <3> QED
      BY <1>1, <2>4, <2>6, <3>1 DEF AttemptsCounted
  <2> QED
    BY <2>5, <2>6
<1> QED
  BY <1>2, <1>3 DEF Next

(* delivery_attempt_count, incremented from what a session read, counts    *)
(* every failed delivery of the trail.                                     *)
THEOREM AttemptsAlwaysCounted == LifecycleSpec => []AttemptsCounted
<1>1. LifecycleInit => AttemptsCounted
  <2> SUFFICES ASSUME LifecycleInit PROVE AttemptsCounted
    OBVIOUS
  <2>1. Failures = {} /\ row.attempts = 0
    BY DEF LifecycleInit, Init, Failures
  <2> QED
    BY <2>1, FS_EmptySet DEF AttemptsCounted
<1> QED
  BY <1>1, AttemptsStep, LivesUnderSessions, AlwaysVersioned, StepsInTurn, PTL DEF LifecycleSpec
-----------------------------------------------------------------------------
(* A parcel past its INSERT has the next number, and the entry of the      *)
(* unique index keeps others out until it is committed.                    *)
Phases == {"idle", "changing", "updated", "packing", "numbered", "inserted"}

Packed ==
  /\ parcels \in Seq(1..MaxParcels) /\ ParcelsNumbered
  /\ pc \in [Sessions -> Phases]
  /\ number \in [Sessions -> 0..MaxParcels]
  /\ \A t \in Sessions : pc[t] \in {"numbered", "inserted"} => number[t] \in 1..Len(parcels) + 1
  /\ \A t \in Sessions : pc[t] = "inserted" => number[t] = Len(parcels) + 1
  /\ \A t, u \in Sessions : pc[t] = "inserted" /\ pc[u] = "inserted" => t = u

LEMMA LeqAntisymmetric == \A m, n \in Nat : m <= n /\ n <= m => n = m
  OBVIOUS

LEMMA HighestIsLast ==
  ASSUME parcels \in Seq(1..MaxParcels), ParcelsNumbered
  PROVE  Numbers = 1..Len(parcels) /\ Highest = Len(parcels) /\ Len(parcels) \in Nat
<1>1. Len(parcels) \in Nat /\ DOMAIN parcels = 1..Len(parcels)
  OBVIOUS
<1>2. Numbers = 1..Len(parcels)
  BY <1>1 DEF ParcelsNumbered, Numbers
<1>3. \A n \in Numbers \cup {0} : (\A m \in Numbers : m <= n) => n = Len(parcels)
  <2> TAKE n \in Numbers \cup {0}
  <2> HAVE \A m \in Numbers : m <= n
  <2>1. n \in Nat /\ n <= Len(parcels)
    BY <1>1, <1>2
  <2>2. CASE Len(parcels) = 0
    BY <2>1, <2>2
  <2>3. CASE Len(parcels) # 0
    <3>1. Len(parcels) \in Numbers
      BY <1>1, <1>2, <2>3
    <3>2. Len(parcels) <= n
      BY <3>1
    <3> QED
      BY <1>1, <2>1, <3>2, LeqAntisymmetric, Zenon
  <2> QED
    BY <2>2, <2>3
<1>4. Len(parcels) \in Numbers \cup {0} /\ \A m \in Numbers : m <= Len(parcels)
  BY <1>1, <1>2
<1> QED
  BY <1>1, <1>2, <1>3, <1>4 DEF Highest

LEMMA PackedStep == Packed /\ [LifecycleNext]_lifecycle => Packed'
<1> SUFFICES ASSUME Packed, [LifecycleNext]_lifecycle PROVE Packed'
  OBVIOUS
<1>1. Numbers = 1..Len(parcels) /\ Highest = Len(parcels) /\ Len(parcels) \in Nat
  BY HighestIsLast DEF Packed
<1>2. CASE UNCHANGED lifecycle
  BY <1>2 DEF lifecycle, session, Packed, ParcelsNumbered
<1>3. ASSUME NEW t \in Sessions,
             BeginMove(t) \/ BeginEdit(t) \/ Update(t) \/ CommitMove(t) \/ CommitEdit(t)
               \/ BeginPack(t) \/ Rollback(t)
      PROVE  Packed'
  <2>1. /\ parcels' = parcels
        /\ pc' \in [Sessions -> Phases]
        /\ pc'[t] \notin {"numbered", "inserted"}
        /\ number' \in [Sessions -> 0..MaxParcels]
        /\ \A u \in Sessions \ {t} : pc'[u] = pc[u] /\ number'[u] = number[u]
    <3>1. ASSUME NEW p \in Phases, pc' = [pc EXCEPT ![t] = p] PROVE pc' \in [Sessions -> Phases]
      BY <3>1 DEF Packed
    <3>2. CASE BeginMove(t) \/ BeginEdit(t) \/ Update(t) \/ BeginPack(t)
      <4>1. PICK p \in {"changing", "updated", "packing"} :
              pc' = [pc EXCEPT ![t] = p] /\ number' = number /\ parcels' = parcels
        BY <3>2 DEF BeginMove, BeginEdit, Begin, Update, BeginPack
      <4> QED
        BY <3>1, <4>1 DEF Packed, Phases
    <3>3. CASE CommitMove(t) \/ CommitEdit(t) \/ Rollback(t)
      <4>1. End(t) /\ parcels' = parcels
        BY <3>3 DEF CommitMove, CommitEdit, Rollback
      <4> QED
        BY <3>1, <4>1, BoundsNatural DEF End, Packed, Phases
    <3> QED
      BY <1>3, <3>2, <3>3
  <2> QED
    BY <2>1 DEF Packed, ParcelsNumbered
<1>4. ASSUME NEW t \in Sessions, NumberParcel(t) PROVE Packed'
  <2>1. /\ parcels' = parcels /\ Len(parcels) < MaxParcels
        /\ pc' \in [Sessions -> Phases]
        /\ pc'[t] = "numbered" /\ number'[t] = Len(parcels) + 1
        /\ number' \in [Sessions -> 0..MaxParcels]
        /\ \A u \in Sessions \ {t} : pc'[u] = pc[u] /\ number'[u] = number[u]
    BY <1>1, <1>4, BoundsNatural DEF NumberParcel, Packed, Phases
  <2>2. \A u \in Sessions : pc'[u] \in {"numbered", "inserted"} => number'[u] \in 1..Len(parcels) + 1
    BY <1>1, <2>1 DEF Packed
  <2>3. \A u \in Sessions : pc'[u] = "inserted" => u # t /\ pc[u] = "inserted" /\ number'[u] = number[u]
    BY <2>1
  <2> QED
    BY <2>1, <2>2, <2>3 DEF Packed, ParcelsNumbered
<1>5. ASSUME NEW t \in Sessions, InsertParcel(t) PROVE Packed'
  <2>1. /\ parcels' = parcels /\ number' = number
        /\ pc' \in [Sessions -> Phases]
        /\ pc[t] = "numbered" /\ pc'[t] = "inserted" /\ number[t] \notin Numbers
        /\ \A u \in Sessions \ {t} : pc'[u] = pc[u]
        /\ \A u \in Sessions : pc[u] = "inserted" => number[u] # number[t]
    BY <1>5 DEF InsertParcel, Packed, Phases
  <2>2. number[t] = Len(parcels) + 1
    BY <1>1, <2>1 DEF Packed
  <2>3. \A u \in Sessions : pc[u] # "inserted"
    BY <2>1, <2>2 DEF Packed
  <2> QED
    BY <2>1, <2>2, <2>3 DEF Packed, ParcelsNumbered
<1>6. ASSUME NEW t \in Sessions, CommitParcel(t) PROVE Packed'
  <2>1. /\ parcels' = Append(parcels, number[t]) /\ pc[t] = "inserted" /\ pc'[t] = "idle"
        /\ pc' \in [Sessions -> Phases]
        /\ number' \in [Sessions -> 0..MaxParcels]
        /\ \A u \in Sessions \ {t} : pc'[u] = pc[u] /\ number'[u] = number[u]
    BY <1>6, BoundsNatural DEF CommitParcel, End, Packed, Phases
  <2>2. number[t] = Len(parcels) + 1 /\ number[t] \in 1..MaxParcels
    BY <1>1, <2>1 DEF Packed
  <2>3. /\ parcels' \in Seq(1..MaxParcels) /\ Len(parcels') = Len(parcels) + 1
        /\ parcels'[Len(parcels) + 1] = Len(parcels) + 1
        /\ \A i \in 1..Len(parcels) : parcels'[i] = parcels[i]
    BY <2>1, <2>2 DEF Packed
  <2>4. ParcelsNumbered'
    BY <1>1, <2>3 DEF ParcelsNumbered, Packed
  <2>5. \A u \in Sessions : pc'[u] # "inserted"
    BY <2>1 DEF Packed
  <2>6. \A u \in Sessions :
          pc'[u] \in {"numbered", "inserted"} => number'[u] \in 1..Len(parcels') + 1
    <3> SUFFICES ASSUME NEW u \in Sessions, pc'[u] \in {"numbered", "inserted"}
                 PROVE  number'[u] \in 1..Len(parcels') + 1
      OBVIOUS
    <3>1. u # t
      BY <2>1
    <3>2. number'[u] \in 1..Len(parcels) + 1
      BY <2>1, <3>1 DEF Packed
    <3> QED
      BY <1>1, <2>3, <3>2
  <2> QED
    BY <2>1, <2>3, <2>4, <2>5, <2>6 DEF Packed
<1> QED
  BY <1>2, <1>3, <1>4, <1>5, <1>6 DEF LifecycleNext

(* uq_package_sequence makes at most one parcel of a number pending.       *)
THEOREM AlwaysPacked == LifecycleSpec => []Packed
<1>1. LifecycleInit => Packed
  <2> SUFFICES ASSUME LifecycleInit PROVE Packed
    OBVIOUS
  <2>1. PICK n \in 0..MaxParcels : parcels = [i \in 1..n |-> i]
    BY DEF LifecycleInit
  <2>2. n \in Nat /\ n <= MaxParcels
    BY <2>1, BoundsNatural
  <2>3. parcels \in Seq(1..MaxParcels) /\ ParcelsNumbered
    BY <2>1, <2>2, BoundsNatural DEF ParcelsNumbered
  <2> QED
    BY <2>3, BoundsNatural DEF LifecycleInit, Packed, Phases
<1> QED
  BY <1>1, PackedStep, PTL DEF LifecycleSpec

(* next_package_sequence reads a committed maximum and uq_package_sequence *)
(* refuses what is taken: numbers are without gap or duplicate.            *)
THEOREM ParcelsAlwaysNumbered == LifecycleSpec => []ParcelsNumbered
<1>1. Packed => ParcelsNumbered
  BY DEF Packed
<1> QED
  BY <1>1, AlwaysPacked, PTL

GoalsTyped == goal \in [Sessions -> ShipmentStatus \cup {"none", "edit"}]

LEMMA GoalsStep == Versioned /\ GoalsTyped /\ [LifecycleNext]_lifecycle => GoalsTyped'
<1> SUFFICES ASSUME Versioned, GoalsTyped, [LifecycleNext]_lifecycle PROVE GoalsTyped'
  OBVIOUS
<1>1. Allowed(row.status) \subseteq ShipmentStatus
  BY TargetsTyped DEF Versioned
<1> QED
  BY <1>1 DEF GoalsTyped, LifecycleNext, lifecycle, session, BeginMove, BeginEdit, Begin, Update,
     CommitMove, CommitEdit, BeginPack, NumberParcel, InsertParcel, CommitParcel, Rollback, End

(* Every row and every session keeps its type, and at most one session is  *)
(* between its UPDATE and its commit.                                      *)
THEOREM LifecycleTypesHold == LifecycleSpec => []LifecycleTypeOK
<1>1. LifecycleInit => GoalsTyped
  BY DEF LifecycleInit, GoalsTyped
<1>2. LifecycleSpec => []GoalsTyped
  BY <1>1, GoalsStep, AlwaysVersioned, PTL DEF LifecycleSpec
<1>3. Lived /\ Versioned /\ Packed /\ GoalsTyped => LifecycleTypeOK
  BY DEF Lived, Versioned, Telling, Changing, Packed, Phases, GoalsTyped, LifecycleTypeOK
<1> QED
  BY <1>2, <1>3, LivesUnderSessions, AlwaysVersioned, AlwaysPacked, PTL
=============================================================================
