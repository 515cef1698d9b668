--------------------------- MODULE WarehousesProofs ---------------------------
(***************************************************************************)
(* The Warehouse service and its replicas, for any number of sessions,     *)
(* zones, days, schedules, replicas and operators.                         *)
(*                                                                         *)
(* The first part is about the owner alone, whose steps the replicas only  *)
(* watch; the last carries its invariant over to them.                     *)
(***************************************************************************)
EXTENDS WarehouseReplicas, FiniteSetTheorems, SequenceTheorems, WellFoundedInduction, TLAPS

RowItem == <<"row">>
ZoneKinds == {"add zone", "update zone", "delete zone"}
Events == [type : Kinds, snapshot : Rows]
Zones == [known : BOOLEAN, active : BOOLEAN, deleted : BOOLEAN]

(* Columns a request may set, of the row and of a zone.                    *)
SetsRow(f) ==
  /\ DOMAIN f \subseteq {"status", "deleted", "name"}
  /\ "status" \in DOMAIN f => f["status"] \in Status
  /\ "deleted" \in DOMAIN f => f["deleted"] \in BOOLEAN
  /\ "name" \in DOMAIN f => f["name"] \in Names
SetsZone(f) == DOMAIN f \subseteq {"active", "deleted"} /\ \A c \in DOMAIN f : f[c] \in BOOLEAN

TablesTyped ==
  /\ row \in Rows /\ row.stamp <= clock
  /\ zones \in [Codes -> Zones]
  /\ hours \in [Days -> 0..requests]
  /\ log \in Seq(Events)
  /\ \A i \in DOMAIN log : log[i].snapshot.stamp <= clock
  /\ clock \in Nat /\ requests \in 0..MaxRequests

SessionsTyped ==
  /\ pc \in [Txs -> {"idle", "read", "update", "ready", "clear", "insert"}]
  /\ copy \in [Txs -> Rows] /\ \A t \in Txs : copy[t].stamp <= clock
  /\ alone \in [Txs -> BOOLEAN] /\ torn \in BOOLEAN
  /\ gone \in [Txs -> SUBSET (Days \X (1..requests))]
  /\ todo \in [Txs -> Seq(Days)]
  /\ locks \in [Things -> Txs \cup {Nobody}]
  /\ DOMAIN job = Txs

(* What a request carries, by its kind.                                    *)
Job(t) ==
  /\ DOMAIN job[t] = {"kind", "set", "what", "no"}
  /\ job[t].kind \in Kinds \cup {"none"} /\ job[t].no \in 0..requests
  /\ job[t].kind = "none" <=> pc[t] = "idle"
  /\ OnRow(t) => pc[t] \in {"read", "update", "ready"} /\ SetsRow(job[t].set)
  /\ job[t].kind = "create" =>
       /\ DOMAIN job[t].set = {"status", "deleted", "name"}
       /\ job[t].what[1] \in SUBSET Codes /\ job[t].what[2] \in {{}, Days}
  /\ job[t].kind \in ZoneKinds =>
       pc[t] \in {"read", "ready"} /\ job[t].what \in Codes /\ SetsZone(job[t].set)
  /\ job[t].kind = "hours" => pc[t] \in {"read", "clear", "insert"} /\ job[t].what \in Weeks
  /\ OnRow(t) /\ job[t].kind # "delete" /\ "deleted" \in DOMAIN job[t].set => ~job[t].set["deleted"]

(* Every request stamps once, so there are no more stamps than requests.   *)
Reading == {t \in Txs : pc[t] = "read"}
StampsCounted == IsFiniteSet(Reading) /\ clock + Cardinality(Reading) <= requests

(* The row exists for all but a create, which holds its index entry.       *)
Owns(t) ==
  /\ job[t].kind \notin {"none", "create"} => Exists
  /\ job[t].kind = "create" /\ pc[t] = "ready" => ~Exists /\ locks[RowItem] = t
  /\ locks[RowItem] = t => OnRow(t) /\ pc[t] = "ready"
  /\ pc[t] = "update" \/ locks[RowItem] = t => copy[t].stamp > 0
  /\ OnRow(t) /\ pc[t] # "read" => \A c \in DOMAIN job[t].set : copy[t][c] = job[t].set[c]

LocksHeld == \A x \in Things : locks[x] # Nobody => pc[locks[x]] # "idle"

OwnerShape ==
  /\ TablesTyped /\ SessionsTyped /\ StampsCounted /\ LocksHeld
  /\ \A t \in Txs : Job(t) /\ Owns(t)

(* A request that runs alone writes what it read, changed as it says.      *)
Changed(t) ==
  /\ copy[t].stamp = clock
  /\ \A i \in DOMAIN log : log[i].snapshot.stamp < clock
  /\ \A c \in {"status", "deleted", "name"} \ DOMAIN job[t].set : copy[t][c] = row[c]
Alone(t) ==
  alone[t] =>
    /\ OnRow(t) /\ Others(t) = {}
    /\ pc[t] = "read" => copy[t] = row
    /\ pc[t] = "update" => Changed(t)
    /\ pc[t] = "ready" => IF locks[RowItem] = t THEN Changed(t) ELSE copy[t] = row

(* The last snapshot is the row, and no other one is as young.             *)
NotAfter(r, q) == r.stamp <= q.stamp /\ (r.stamp = q.stamp => r = q)
Told ==
  /\ log = <<>> <=> row = NoRow
  /\ ~torn /\ log # <<>> =>
       /\ log[Len(log)].snapshot = row
       /\ \A i \in DOMAIN log : NotAfter(log[i].snapshot, row)

Published == (\A t \in Txs : Alone(t)) /\ Told

(* The week.  Requests have their own numbers.                             *)
Filled == {d \in Days : hours[d] # 0}
Present == {<<d, hours[d]>> : d \in Filled}

Numbers(t) ==
  /\ job[t].kind # "none" => job[t].no # 0
  /\ job[t].kind = "hours" => \A d \in Days : hours[d] # job[t].no
  /\ job[t].kind = "hours" => \A u \in Txs : \A v \in gone[u] : v[2] # job[t].no
  /\ \A u \in Txs : job[t].kind # "none" /\ job[u].no = job[t].no => u = t

DaysHeld(t) ==
  /\ pc[t] = "clear" => todo[t] = job[t].what
  /\ pc[t] = "insert" =>
       /\ \A v \in gone[t] : locks[Day(v[1])] = t
       /\ \A d \in Elements(job[t].what) \ Elements(todo[t]) : locks[Day(d)] = t

(* A replacement deletes the whole week it saw.  A week it has not seen    *)
(* was written over days it would delete, or over none of them, and of the *)
(* days they share none is inserted yet.                                   *)
Replaces(t) ==
  /\ pc[t] \notin {"clear", "insert"} => unseen[t] = {}
  /\ pc[t] \in {"clear", "insert"} /\ unseen[t] = {} => gone[t] = Present
  /\ \A d \in unseen[t] : hours[d] # 0
  /\ pc[t] = "clear" => \A v \in gone[t] : v[1] \in unseen[t] => hours[v[1]] # v[2]
  /\ pc[t] = "insert" =>
       /\ unseen[t] \cap Deleted(t) = {}
       /\ unseen[t] \cap Elements(job[t].what) \subseteq Elements(todo[t])

OneWeek == ~patched => \A d, e \in Filled : hours[d] = hours[e]

WeekInv ==
  /\ unseen \in [Txs -> SUBSET Days]
  /\ \A t \in Txs : Numbers(t) /\ DaysHeld(t) /\ Replaces(t)
  /\ OneWeek

(* The replicas.                                                           *)
Copied(r) ==
  /\ late[r] \subseteq 1..pos[r]
  /\ ref[r] = NoRow \/ \E i \in 1..pos[r] : ref[r] = log[i].snapshot
  /\ pos[r] = Len(log) /\ pos[r] \notin late[r] /\ ~torn => ref[r] = row

NoGhost ==
  (Exists /\ row.deleted /\ Deletions = {} /\ idPos \notin idLate) => asking \cup scoped \subseteq raced

ReplicasInv ==
  /\ pos \in [Replicas -> 0..Len(log)] /\ ref \in [Replicas -> Rows]
  /\ late \in [Replicas -> SUBSET (1..Len(log))]
  /\ \A r \in Replicas : Copied(r)
  /\ idPos \in 0..Len(log) /\ idLate \subseteq 1..idPos
  /\ scoped \subseteq Operators /\ asking \subseteq Operators \ scoped
  /\ NoGhost
-----------------------------------------------------------------------------
(* Overlays.                                                               *)
LEMMA RowColumns ==
  ASSUME NEW r \in Rows
  PROVE  /\ DOMAIN r = {"status", "deleted", "name", "stamp"}
         /\ r.status \in Status /\ r.deleted \in BOOLEAN /\ r.name \in Names /\ r.stamp \in 0..MaxRequests
         /\ r = [status |-> r.status, deleted |-> r.deleted, name |-> r.name, stamp |-> r.stamp]
  BY DEF Rows

LEMMA WithRow ==
  ASSUME NEW r \in Rows, NEW f, SetsRow(f)
  PROVE  /\ With(r, f) \in Rows /\ With(r, f).stamp = r.stamp
         /\ \A c \in DOMAIN f : With(r, f)[c] = f[c]
         /\ \A c \in {"status", "deleted", "name"} \ DOMAIN f : With(r, f)[c] = r[c]
  BY RowColumns DEF With, SetsRow, Rows

LEMMA WithZone ==
  ASSUME NEW z \in Zones, NEW f, SetsZone(f)
  PROVE  With(z, f) \in Zones
  BY DEF With, SetsZone, Zones

LEMMA NetSets ==
  ASSUME NEW r, NEW f, SetsRow(f)
  PROVE  /\ SetsRow(Net(r, f))
         /\ \A c : c \in DOMAIN Net(r, f) <=> c \in DOMAIN f /\ f[c] # r[c]
         /\ \A c \in DOMAIN Net(r, f) : Net(r, f)[c] = f[c]
  BY DEF Net, SetsRow

LEMMA NetZone ==
  ASSUME NEW r, NEW f, SetsZone(f)
  PROVE  SetsZone(Net(r, f))
  BY DEF Net, SetsZone

(* A row written over with a copy's stamp and columns.                     *)
Written(r, c, f) == With(r, [x \in {"stamp"} \cup DOMAIN f |-> c[x]])

LEMMA WrittenRow ==
  ASSUME NEW r \in Rows, NEW c \in Rows, NEW f, SetsRow(f)
  PROVE  /\ Written(r, c, f) \in Rows /\ Written(r, c, f).stamp = c.stamp
         /\ \A x \in {"status", "deleted", "name"} :
              Written(r, c, f)[x] = IF x \in DOMAIN f THEN c[x] ELSE r[x]
  BY RowColumns DEF Written, With, SetsRow, Rows

LEMMA SameRow ==
  ASSUME NEW r \in Rows, NEW c \in Rows, r.stamp = c.stamp,
         \A x \in {"status", "deleted", "name"} : r[x] = c[x]
  PROVE  r = c
<1>1. r.status = c.status /\ r.deleted = c.deleted /\ r.name = c.name
  OBVIOUS
<1> QED
  BY <1>1, RowColumns

LEMMA NothingTyped == NoRow \in Rows /\ NoRow.stamp = 0 /\ NoZone \in Zones /\ NewZone \in Zones
<1>1. NoRow.name \in Names
  BY NamesGiven DEF NoRow
<1> QED
  BY <1>1, RequestsPositive DEF NoRow, NoZone, NewZone, Rows, Zones, Status

LEMMA StampedIsThere == ASSUME NEW r, r.stamp # 0 PROVE r # NoRow
  BY NothingTyped

LEMMA ThingsKinds ==
  /\ RowItem \in Things
  /\ \A d \in Days : Day(d) \in Things
  /\ \A c \in Codes : <<"zone", c>> \in Things
  BY DEF RowItem, Things, Day
-----------------------------------------------------------------------------
(* Whatever one session does, the others keep what they have.              *)
Bystander(u) ==
  /\ job'[u] = job[u] /\ pc'[u] = pc[u] /\ copy'[u] = copy[u] /\ gone'[u] = gone[u] /\ todo'[u] = todo[u]
  /\ \A x \in Things : locks'[x] = u <=> locks[x] = u

Locking == locks' \in [Things -> Txs \cup {Nobody}]

LEMMA TakeLocks ==
  ASSUME NEW t \in Txs, NEW X \in SUBSET Things, Free(t, X), Take(t, X), SessionsTyped
  PROVE  /\ Locking
         /\ \A u \in Txs \ {t}, x \in Things : locks'[x] = u <=> locks[x] = u
         /\ \A x \in Things : locks'[x] = t <=> x \in X \/ locks[x] = t
  BY NobodyIsNoTx DEF Free, Take, SessionsTyped, Locking

LEMMA DoneLocks ==
  ASSUME NEW t \in Txs, Done(t), SessionsTyped
  PROVE  /\ Locking
         /\ \A u \in Txs \ {t}, x \in Things : locks'[x] = u <=> locks[x] = u
         /\ \A x \in Things : locks'[x] # t
  BY NobodyIsNoTx DEF Done, LetGo, SessionsTyped, Locking

LEMMA DoneLeaves ==
  ASSUME NEW t \in Txs, Done(t), SessionsTyped
  PROVE  \A u \in Txs \ {t} : Bystander(u)
  BY DoneLocks DEF Done, Bystander, SessionsTyped

(* A request that has read stamps at most once.                            *)
LEMMA StampsLeft ==
  ASSUME OwnerShape, NEW t \in Txs, NEW at, pc' = [pc EXCEPT ![t] = at], at # "read",
         requests' = requests,
         clock' = clock \/ (pc[t] = "read" /\ clock' = clock + 1)
  PROVE  StampsCounted' /\ clock' \in Nat /\ clock' <= requests'
<1>1. Reading' = Reading \ {t}
  BY DEF Reading, OwnerShape, SessionsTyped
<1>2. IsFiniteSet(Reading) /\ Cardinality(Reading) \in Nat
  BY FS_CardinalityType DEF OwnerShape, StampsCounted
<1>3. /\ IsFiniteSet(Reading \ {t})
      /\ Cardinality(Reading \ {t}) = IF t \in Reading THEN Cardinality(Reading) - 1 ELSE Cardinality(Reading)
  BY <1>2, FS_RemoveElement
<1>4. IsFiniteSet(Reading') /\ Cardinality(Reading') = Cardinality(Reading \ {t})
  BY <1>1, <1>3
<1>5. pc[t] = "read" <=> t \in Reading
  BY DEF Reading
<1>6. Cardinality(Reading') \in Nat
  BY <1>4, FS_CardinalityType
<1>7. clock \in Nat /\ requests \in Nat
  BY DEF OwnerShape, TablesTyped
<1> QED
  BY <1>2, <1>3, <1>4, <1>5, <1>6, <1>7 DEF OwnerShape, StampsCounted

LEMMA StampsAwaited ==
  ASSUME OwnerShape, NEW t \in Txs, pc' = [pc EXCEPT ![t] = "read"], pc[t] = "idle",
         requests' = requests + 1, clock' = clock
  PROVE  StampsCounted'
<1>1. Reading' = Reading \cup {t} /\ t \notin Reading
  BY DEF Reading, OwnerShape, SessionsTyped
<1>2. IsFiniteSet(Reading) /\ Cardinality(Reading) \in Nat
  BY FS_CardinalityType DEF OwnerShape, StampsCounted
<1>3. /\ IsFiniteSet(Reading \cup {t})
      /\ Cardinality(Reading \cup {t}) = Cardinality(Reading) + 1
  BY <1>1, <1>2, FS_AddElement
<1>4. IsFiniteSet(Reading') /\ Cardinality(Reading') = Cardinality(Reading) + 1
  BY <1>1, <1>3
<1>5. clock \in Nat /\ requests \in Nat
  BY DEF OwnerShape, TablesTyped
<1> QED
  BY <1>2, <1>4, <1>5 DEF OwnerShape, StampsCounted

(* What a step of one session has to show.                                 *)
LEMMA ShapeKept ==
  ASSUME OwnerShape, NEW t \in Txs,
         TablesTyped', SessionsTyped', StampsCounted', Job(t)', Owns(t)',
         \A x \in Things : locks'[x] = t => pc'[t] # "idle",
         \A u \in Txs \ {t} : Bystander(u),
         requests <= requests', Exists => Exists', ~Exists /\ Exists' => locks[RowItem] = t
  PROVE  OwnerShape'
<1>1. ASSUME NEW u \in Txs \ {t} PROVE Job(u)' /\ Owns(u)'
  <2>1. Bystander(u) /\ Job(u) /\ Owns(u) /\ t # u
    BY DEF OwnerShape
  <2>2. requests \in Nat /\ requests' \in Nat
    BY DEF OwnerShape, TablesTyped
  <2>3. locks'[RowItem] = u <=> locks[RowItem] = u
    BY <2>1, ThingsKinds DEF Bystander
  <2>4. OnRow(u)' = OnRow(u)
    BY <2>1 DEF Bystander, OnRow
  <2>5. Job(u)'
    BY <2>1, <2>2, <2>4 DEF Job, Bystander
  <2>6. Owns(u)'
    BY <2>1, <2>3, <2>4 DEF Owns, Bystander
  <2> QED
    BY <2>5, <2>6
<1>2. LocksHeld'
  <2>1. SUFFICES ASSUME NEW x \in Things, locks'[x] # Nobody PROVE pc'[locks'[x]] # "idle"
    BY DEF LocksHeld
  <2>2. locks'[x] \in Txs
    BY <2>1 DEF SessionsTyped
  <2>3. CASE locks'[x] # t
    BY <2>1, <2>2, <2>3, NobodyIsNoTx DEF Bystander, OwnerShape, LocksHeld
  <2> QED
    BY <2>3
<1> QED
  BY <1>1, <1>2 DEF OwnerShape
-----------------------------------------------------------------------------
(* A request arrives.                                                      *)
Fits(kind, set, what) ==
  /\ kind \in Kinds
  /\ kind = "create" <=> ~Exists
  /\ kind \in RowKinds => SetsRow(set)
  /\ kind = "create" =>
       /\ DOMAIN set = {"status", "deleted", "name"}
       /\ what[1] \in SUBSET Codes /\ what[2] \in {{}, Days}
  /\ kind \in ZoneKinds => what \in Codes /\ SetsZone(set)
  /\ kind = "hours" => what \in Weeks
  /\ kind \in RowKinds /\ kind # "delete" /\ "deleted" \in DOMAIN set => ~set["deleted"]

Arrives(t) ==
  \/ BeginCreate(t) \/ BeginUpdate(t) \/ BeginStatus(t) \/ BeginDelete(t) \/ BeginRestore(t)
  \/ BeginAddZone(t) \/ BeginUpdateZone(t) \/ BeginDeleteZone(t) \/ BeginHours(t)

LEMMA ArrivesFits ==
  ASSUME NEW t \in Txs, Arrives(t)
  PROVE  \E kind, set, what : Begin(t, kind, set, what) /\ Fits(kind, set, what)
<1>1. CASE BeginCreate(t)
  <2>1. PICK n \in Names, Z \in SUBSET Codes, D \in {{}, Days} :
          ~Exists /\ Begin(t, "create", [status |-> "active", deleted |-> FALSE, name |-> n], <<Z, D>>)
    BY <1>1 DEF BeginCreate
  <2>2. Fits("create", [status |-> "active", deleted |-> FALSE, name |-> n], <<Z, D>>)
    BY <2>1 DEF Fits, Kinds, RowKinds, ZoneKinds, SetsRow, Status
  <2> QED
    BY <2>1, <2>2
<1>2. CASE BeginUpdate(t)
  <2>1. PICK n \in Names : Live /\ Begin(t, "update", [name |-> n], {})
    BY <1>2 DEF BeginUpdate
  <2>2. Fits("update", [name |-> n], {})
    BY <2>1 DEF Fits, Kinds, RowKinds, ZoneKinds, SetsRow, Live
  <2> QED
    BY <2>1, <2>2
<1>3. CASE BeginStatus(t)
  <2>1. PICK s \in Status : Live /\ Begin(t, "status", [status |-> s], {})
    BY <1>3 DEF BeginStatus
  <2>2. Fits("status", [status |-> s], {})
    BY <2>1 DEF Fits, Kinds, RowKinds, ZoneKinds, SetsRow, Live
  <2> QED
    BY <2>1, <2>2
<1>4. CASE BeginDelete(t)
  <2>1. Live /\ Begin(t, "delete", [status |-> "inactive", deleted |-> TRUE], {})
    BY <1>4 DEF BeginDelete
  <2>2. Fits("delete", [status |-> "inactive", deleted |-> TRUE], {})
    BY <2>1 DEF Fits, Kinds, RowKinds, ZoneKinds, SetsRow, Live, Status
  <2> QED
    BY <2>1, <2>2
<1>5. CASE BeginRestore(t)
  <2>1. Exists /\ Begin(t, "restore", [status |-> "active", deleted |-> FALSE], {})
    BY <1>5 DEF BeginRestore
  <2>2. Fits("restore", [status |-> "active", deleted |-> FALSE], {})
    BY <2>1 DEF Fits, Kinds, RowKinds, ZoneKinds, SetsRow, Status
  <2> QED
    BY <2>1, <2>2
<1>6. CASE BeginAddZone(t)
  <2>1. PICK c \in Codes : Live /\ Begin(t, "add zone", NoSet, c)
    BY <1>6 DEF BeginAddZone
  <2>2. Fits("add zone", NoSet, c)
    BY <2>1 DEF Fits, Kinds, RowKinds, ZoneKinds, SetsZone, NoSet, Live
  <2> QED
    BY <2>1, <2>2
<1>7. CASE BeginUpdateZone(t)
  <2>1. PICK c \in Codes, a \in BOOLEAN : Live /\ Begin(t, "update zone", Net(zones[c], [active |-> a]), c)
    BY <1>7 DEF BeginUpdateZone
  <2>2. SetsZone([active |-> a])
    BY DEF SetsZone
  <2>3. Fits("update zone", Net(zones[c], [active |-> a]), c)
    BY <2>1, <2>2, NetZone DEF Fits, Kinds, RowKinds, ZoneKinds, Live
  <2> QED
    BY <2>1, <2>3
<1>8. CASE BeginDeleteZone(t)
  <2>1. PICK c \in Codes :
          Live /\ Begin(t, "delete zone", Net(zones[c], [active |-> FALSE, deleted |-> TRUE]), c)
    BY <1>8 DEF BeginDeleteZone
  <2>2. SetsZone([active |-> FALSE, deleted |-> TRUE])
    <3> DEFINE f == [active |-> FALSE, deleted |-> TRUE]
    <3>1. DOMAIN f = {"active", "deleted"} /\ f["active"] = FALSE /\ f["deleted"] = TRUE
      OBVIOUS
    <3> HIDE DEF f
    <3>2. \A x \in DOMAIN f : f[x] \in BOOLEAN
      BY <3>1
    <3>3. SetsZone(f)
      BY <3>1, <3>2 DEF SetsZone
    <3> QED
      BY <3>3 DEF f
  <2>3. Fits("delete zone", Net(zones[c], [active |-> FALSE, deleted |-> TRUE]), c)
    BY <2>1, <2>2, NetZone DEF Fits, Kinds, RowKinds, ZoneKinds, Live
  <2> QED
    BY <2>1, <2>3
<1>9. CASE BeginHours(t)
  <2>1. PICK w \in Weeks : Live /\ Begin(t, "hours", NoSet, w)
    BY <1>9 DEF BeginHours
  <2>2. Fits("hours", NoSet, w)
    BY <2>1 DEF Fits, Kinds, RowKinds, ZoneKinds, Live
  <2> QED
    BY <2>1, <2>2
<1> QED
  BY <1>1, <1>2, <1>3, <1>4, <1>5, <1>6, <1>7, <1>8, <1>9 DEF Arrives

LEMMA IdleHoldsNothing ==
  ASSUME OwnerShape, NEW t \in Txs, pc[t] = "idle"
  PROVE  \A x \in Things : locks[x] # t
  BY NobodyIsNoTx DEF OwnerShape, LocksHeld

LEMMA BeginShape ==
  ASSUME OwnerShape, NEW t \in Txs, NEW kind, NEW set, NEW what,
         Begin(t, kind, set, what), Fits(kind, set, what)
  PROVE  OwnerShape' /\ \A u \in Txs \ {t} : Bystander(u)
<1> USE DEF Begin, layout
<1>1. \A u \in Txs \ {t} : Bystander(u)
  BY DEF Bystander, OwnerShape, SessionsTyped
<1>2. job'[t] = [kind |-> kind, set |-> set, what |-> what, no |-> requests + 1] /\ pc'[t] = "read" /\ copy'[t] = row
  BY DEF OwnerShape, SessionsTyped
<1>3. requests \in Nat /\ requests' \in 0..MaxRequests /\ requests' = requests + 1
  BY RequestsPositive DEF OwnerShape, TablesTyped
<1>4. TablesTyped'
  BY <1>3 DEF OwnerShape, TablesTyped
<1>5. alone' \in [Txs -> BOOLEAN]
  <2>1. \A u \in Txs : (IF kind \notin RowKinds THEN alone[u] ELSE u = t /\ Others(t) = {}) \in BOOLEAN
    BY DEF OwnerShape, SessionsTyped
  <2> QED
    BY <2>1
<1>6. gone' \in [Txs -> SUBSET (Days \X (1..requests'))]
  BY <1>3 DEF OwnerShape, SessionsTyped
<1>7. copy' \in [Txs -> Rows] /\ \A u \in Txs : copy'[u].stamp <= clock'
  BY DEF OwnerShape, SessionsTyped, TablesTyped
<1>8. pc' \in [Txs -> {"idle", "read", "update", "ready", "clear", "insert"}] /\ DOMAIN job' = Txs
  BY DEF OwnerShape, SessionsTyped
<1>9. SessionsTyped'
  BY <1>5, <1>6, <1>7, <1>8 DEF OwnerShape, SessionsTyped
<1>10. StampsCounted'
  BY StampsAwaited
<1>11. Job(t)'
  <2>1. /\ DOMAIN job'[t] = {"kind", "set", "what", "no"} /\ job'[t].kind = kind
        /\ job'[t].set = set /\ job'[t].what = what /\ job'[t].no = requests + 1
    BY <1>2
  <2>2. kind \in Kinds /\ kind # "none"
    BY DEF Fits, Kinds
  <2>3. job'[t].no \in 0..requests'
    BY <1>3, <2>1
  <2>4. OnRow(t)' <=> kind \in RowKinds
    BY <2>1 DEF OnRow
  <2> QED
    BY <1>2, <2>1, <2>2, <2>3, <2>4 DEF Job, Fits
<1>12. Owns(t)'
  <2>1. locks'[RowItem] # t
    BY IdleHoldsNothing, ThingsKinds
  <2> QED
    BY <1>2, <2>1 DEF Owns, Fits, Exists
<1> QED
  BY <1>1, <1>2, <1>3, <1>4, <1>9, <1>10, <1>11, <1>12, ShapeKept DEF Exists
-----------------------------------------------------------------------------
(* A request ends, with or without a commit.                               *)
LEMMA DoneShape ==
  ASSUME OwnerShape, NEW t \in Txs, Done(t), TablesTyped', clock' = clock, requests' = requests,
         torn' \in BOOLEAN, Exists => Exists', ~Exists /\ Exists' => locks[RowItem] = t
  PROVE  OwnerShape'
<1>1. /\ job'[t] = NoJob /\ pc'[t] = "idle" /\ DOMAIN job' = Txs
      /\ pc' \in [Txs -> {"idle", "read", "update", "ready", "clear", "insert"}]
      /\ alone' \in [Txs -> BOOLEAN]
  BY DEF Done, OwnerShape, SessionsTyped
<1>2. gone' \in [Txs -> SUBSET (Days \X (1..requests))] /\ todo' \in [Txs -> Seq(Days)]
  BY EmptySeq DEF Done, OwnerShape, SessionsTyped
<1>3. copy' \in [Txs -> Rows] /\ \A u \in Txs : copy'[u].stamp <= clock
  BY NothingTyped DEF Done, OwnerShape, SessionsTyped, TablesTyped
<1>4. Locking /\ \A x \in Things : locks'[x] # t
  BY DoneLocks DEF OwnerShape
<1>5. SessionsTyped'
  BY <1>1, <1>2, <1>3, <1>4 DEF SessionsTyped, Locking
<1>6. StampsCounted'
  BY StampsLeft DEF Done
<1>7. Job(t)'
  <2>1. /\ DOMAIN job'[t] = {"kind", "set", "what", "no"} /\ job'[t].kind = "none" /\ job'[t].no = 0
    BY <1>1 DEF NoJob
  <2>2. 0 \in 0..requests'
    BY DEF OwnerShape, TablesTyped
  <2> QED
    BY <1>1, <2>1, <2>2 DEF Job, OnRow, RowKinds, ZoneKinds
<1>8. Owns(t)'
  BY <1>1, <1>4, ThingsKinds DEF Owns, OnRow, RowKinds, NoJob
<1>9. \A u \in Txs \ {t} : Bystander(u)
  BY DoneLeaves DEF OwnerShape
<1>10. requests <= requests'
  BY DEF OwnerShape, TablesTyped
<1> QED
  BY <1>4, <1>5, <1>6, <1>7, <1>8, <1>9, <1>10, ShapeKept

LEMMA RollbackShape ==
  ASSUME OwnerShape, NEW t \in Txs, Rollback(t)
  PROVE  OwnerShape'
<1>1. Done(t) /\ UNCHANGED <<row, layout, clock, log, requests, workload, torn>>
  BY DEF Rollback
<1>2. TablesTyped' /\ torn' \in BOOLEAN /\ (Exists <=> Exists')
  BY <1>1 DEF OwnerShape, TablesTyped, SessionsTyped, layout, Exists
<1> QED
  BY <1>1, <1>2, DoneShape

(* What a commit of a request on the row leaves behind.                    *)
LEMMA CommitTables ==
  ASSUME OwnerShape, NEW t \in Txs, Commit(t)
  PROVE  /\ Done(t) /\ TablesTyped' /\ clock' = clock /\ requests' = requests /\ torn' \in BOOLEAN
         /\ row' = IF locks[RowItem] = t THEN Written(row, copy[t], job[t].set) ELSE row
         /\ log' = Append(log, Snapshot(t)) /\ Snapshot(t).snapshot = copy[t]
         /\ Snapshot(t).type = job[t].kind
         /\ Exists => Exists'
         /\ ~Exists /\ Exists' => locks[RowItem] = t
<1>1. /\ OnRow(t) /\ pc[t] = "ready" /\ Done(t) /\ UNCHANGED <<clock, requests>>
      /\ row' = IF locks[RowItem] = t THEN Written(row, copy[t], job[t].set) ELSE row
      /\ log' = Append(log, Snapshot(t))
  BY DEF Commit, Written, RowItem
<1>2. Job(t) /\ Owns(t) /\ SetsRow(job[t].set) /\ copy[t] \in Rows /\ row \in Rows /\ copy[t].stamp <= clock
  BY <1>1 DEF OwnerShape, Job, SessionsTyped, TablesTyped
<1>3. /\ row' \in Rows /\ row'.stamp <= clock
      /\ locks[RowItem] = t => row'.stamp = copy[t].stamp /\ copy[t].stamp > 0
  <2>1. /\ Written(row, copy[t], job[t].set) \in Rows
        /\ Written(row, copy[t], job[t].set).stamp = copy[t].stamp
    BY <1>2, WrittenRow, ZenonT(40)
  <2>2. locks[RowItem] = t => copy[t].stamp > 0
    BY <1>2 DEF Owns
  <2>3. row \in Rows /\ row.stamp <= clock
    BY DEF OwnerShape, TablesTyped
  <2> QED
    BY <1>1, <1>2, <2>1, <2>2, <2>3
<1>4. job[t].kind \in Kinds
  BY <1>1 DEF OnRow, RowKinds, Kinds
<1>5. Snapshot(t) \in Events /\ Snapshot(t).snapshot = copy[t] /\ Snapshot(t).type = job[t].kind
  BY <1>2, <1>4 DEF Snapshot, Events
<1>6. log \in Seq(Events) /\ \A i \in DOMAIN log : log[i].snapshot.stamp <= clock
  BY DEF OwnerShape, TablesTyped
<1>7. log' \in Seq(Events) /\ \A i \in DOMAIN log' : log'[i].snapshot.stamp <= clock
  <2>1. /\ log' \in Seq(Events) /\ Len(log') = Len(log) + 1
        /\ \A i \in 1..Len(log) : log'[i] = log[i]
        /\ log'[Len(log) + 1] = Snapshot(t)
    BY <1>1, <1>5, <1>6
  <2>2. DOMAIN log = 1..Len(log) /\ DOMAIN log' = 1..Len(log) + 1 /\ Len(log) \in Nat
    BY <1>6, <2>1
  <2>3. ASSUME NEW i \in 1..Len(log) + 1 PROVE log'[i].snapshot.stamp <= clock
    <3>1. CASE i \in 1..Len(log)
      BY <1>6, <2>1, <2>2, <3>1
    <3>2. CASE i = Len(log) + 1
      BY <1>2, <1>5, <2>1, <3>2
    <3> QED
      BY <2>2, <3>1, <3>2
  <2> QED
    BY <2>1, <2>2, <2>3
<1>8. zones' \in [Codes -> Zones]
  BY <1>2, NothingTyped DEF Commit, layout, Job, OwnerShape, TablesTyped
<1>9. hours' \in [Days -> 0..requests]
  <2>1. 0 \in 0..requests /\ job[t].no \in 0..requests
    BY <1>2 DEF OwnerShape, TablesTyped, Job
  <2> QED
    BY <2>1 DEF Commit, layout, OwnerShape, TablesTyped
<1>10. torn' \in BOOLEAN
  BY DEF Commit, OwnerShape, SessionsTyped
<1>11. (Exists => Exists') /\ (~Exists /\ Exists' => locks[RowItem] = t)
  BY <1>1, <1>2, <1>3 DEF Exists, Rows
<1>12. TablesTyped'
  BY <1>1, <1>3, <1>7, <1>8, <1>9 DEF TablesTyped, OwnerShape
<1> QED
  BY <1>1, <1>5, <1>10, <1>11, <1>12

LEMMA CommitShape ==
  ASSUME OwnerShape, NEW t \in Txs, Commit(t) PROVE OwnerShape'
  BY CommitTables, DoneShape

LEMMA CommitZoneShape ==
  ASSUME OwnerShape, NEW t \in Txs, CommitZone(t) PROVE OwnerShape'
<1>1. /\ Done(t) /\ UNCHANGED <<row, hours, clock, log, requests, torn>>
      /\ job[t].kind \in ZoneKinds
      /\ zones' = [zones EXCEPT ![job[t].what] =
                     IF job[t].kind = "add zone" THEN NewZone ELSE With(@, job[t].set)]
  BY DEF CommitZone, ZoneKinds
<1>2. job[t].what \in Codes /\ SetsZone(job[t].set)
  BY <1>1 DEF OwnerShape, Job
<1>3. With(zones[job[t].what], job[t].set) \in Zones
  BY <1>2, WithZone DEF OwnerShape, TablesTyped
<1>4. zones' \in [Codes -> Zones]
  BY <1>1, <1>2, <1>3, NothingTyped DEF OwnerShape, TablesTyped
<1>5. TablesTyped' /\ torn' \in BOOLEAN /\ (Exists <=> Exists')
  BY <1>1, <1>4 DEF OwnerShape, TablesTyped, SessionsTyped, Exists
<1> QED
  BY <1>1, <1>5, DoneShape

LEMMA CommitHoursShape ==
  ASSUME OwnerShape, NEW t \in Txs, CommitHours(t) PROVE OwnerShape'
<1>1. /\ Done(t) /\ UNCHANGED <<row, zones, clock, log, requests, torn>>
      /\ hours' = [d \in Days |->
           IF d \in Elements(job[t].what) THEN job[t].no
           ELSE IF d \in Deleted(t) THEN 0 ELSE hours[d]]
  BY DEF CommitHours
<1>2. 0 \in 0..requests /\ job[t].no \in 0..requests /\ hours \in [Days -> 0..requests]
  BY DEF OwnerShape, TablesTyped, Job
<1>3. hours' \in [Days -> 0..requests]
  BY <1>1, <1>2
<1>4. TablesTyped' /\ torn' \in BOOLEAN /\ (Exists <=> Exists')
  BY <1>1, <1>3 DEF OwnerShape, TablesTyped, SessionsTyped, Exists
<1> QED
  BY <1>1, <1>4, DoneShape
-----------------------------------------------------------------------------
(* The statements of a request.                                            *)
LEMMA FlushShape ==
  ASSUME OwnerShape, NEW t \in Txs, Flush(t)
  PROVE  OwnerShape' /\ \A u \in Txs \ {t} : Bystander(u)
<1> DEFINE net == Net(copy[t], job[t].set)
           same == DOMAIN net = {} /\ job[t].kind # "create"
<1>1. /\ pc[t] = "read" /\ OnRow(t)
      /\ IF same
         THEN pc' = [pc EXCEPT ![t] = "ready"] /\ UNCHANGED <<clock, copy, job>>
         ELSE /\ pc' = [pc EXCEPT ![t] = "update"]
              /\ job' = [job EXCEPT ![t].set = IF job[t].kind = "create" THEN @ ELSE net]
              /\ clock' = clock + 1
              /\ copy' = [copy EXCEPT ![t] = [With(@, net) EXCEPT !.stamp = clock']]
      /\ UNCHANGED <<row, zones, hours, locks, gone, todo, log, requests, alone, torn>>
  BY DEF Flush, layout, history
<1>2. Job(t) /\ Owns(t) /\ SetsRow(job[t].set) /\ copy[t] \in Rows
  BY <1>1 DEF OwnerShape, Job, SessionsTyped
<1>3. /\ SetsRow(net)
      /\ \A c : c \in DOMAIN net <=> c \in DOMAIN job[t].set /\ job[t].set[c] # copy[t][c]
      /\ \A c \in DOMAIN net : net[c] = job[t].set[c]
  <2>1. SetsRow(job[t].set)
    BY <1>2
  <2> QED
    BY <2>1, NetSets
<1>4. /\ With(copy[t], net) \in Rows
      /\ \A c \in DOMAIN net : With(copy[t], net)[c] = net[c]
      /\ \A c \in {"status", "deleted", "name"} \ DOMAIN net : With(copy[t], net)[c] = copy[t][c]
  BY <1>2, <1>3, WithRow
<1> HIDE DEF net
<1>5. StampsCounted' /\ clock' \in Nat /\ clock' <= requests'
  <2>1. CASE same
    BY <1>1, <2>1, StampsLeft
  <2>2. CASE ~same
    BY <1>1, <2>2, StampsLeft
  <2> QED
    BY <2>1, <2>2
<1>6. \A u \in Txs \ {t} : Bystander(u)
  BY <1>1 DEF Bystander, OwnerShape, SessionsTyped
<1>7. clock <= clock' /\ clock \in Nat /\ requests \in 0..MaxRequests /\ requests' = requests
  BY <1>1 DEF OwnerShape, TablesTyped
<1>8. TablesTyped'
  <2>1. row.stamp \in Nat /\ row.stamp <= clock'
    <3>1. row.stamp \in 0..MaxRequests /\ row.stamp <= clock
      BY RowColumns DEF OwnerShape, TablesTyped
    <3> QED
      BY <1>5, <1>7, <3>1
  <2>2. \A i \in DOMAIN log : log[i].snapshot.stamp <= clock'
    <3>1. \A i \in DOMAIN log : log[i] \in Events
      BY DEF OwnerShape, TablesTyped
    <3>2. \A i \in DOMAIN log : log[i].snapshot.stamp \in Nat
      BY <3>1 DEF Events, Rows
    <3> QED
      BY <1>5, <1>7, <3>2 DEF OwnerShape, TablesTyped
  <2> QED
    BY <1>1, <1>5, <2>1, <2>2 DEF OwnerShape, TablesTyped
<1>9. CASE same
  <2>1. SessionsTyped'
    BY <1>1, <1>9 DEF OwnerShape, SessionsTyped
  <2>2. pc'[t] = "ready" /\ job' = job /\ copy' = copy /\ locks' = locks /\ locks[RowItem] # t
    BY <1>1, <1>2, <1>9 DEF OwnerShape, SessionsTyped, Owns
  <2>3. Job(t)' /\ Owns(t)'
    <3>1. \A c \in DOMAIN job[t].set : copy[t][c] = job[t].set[c]
      BY <1>3, <1>9
    <3> QED
      BY <1>1, <1>2, <1>9, <2>2, <3>1 DEF Job, Owns, OnRow, RowKinds, ZoneKinds, Exists
  <2>4. \A x \in Things : locks'[x] = t => pc'[t] # "idle"
    BY <2>2
  <2> QED
    BY <1>1, <1>5, <1>6, <1>7, <1>8, <2>1, <2>3, <2>4, ShapeKept DEF Exists
<1>10. CASE ~same
  <2> DEFINE flushed == [With(copy[t], net) EXCEPT !.stamp = clock']
  <2>1. /\ copy' = [copy EXCEPT ![t] = flushed] /\ clock' = clock + 1
        /\ job' = [job EXCEPT ![t].set = IF job[t].kind = "create" THEN @ ELSE net]
        /\ pc' = [pc EXCEPT ![t] = "update"]
    BY <1>1, <1>10
  <2>2. /\ flushed \in Rows /\ flushed.stamp = clock'
        /\ \A c \in {"status", "deleted", "name"} : flushed[c] = With(copy[t], net)[c]
    <3>1. clock' \in 0..MaxRequests
      BY <1>5, <1>7, RequestsPositive
    <3> QED
      BY <1>4, <3>1 DEF Rows
  <2> HIDE DEF flushed
  <2>3. SessionsTyped'
    <3>1. copy' \in [Txs -> Rows] /\ \A u \in Txs : copy'[u].stamp <= clock'
      <4>1. \A u \in Txs : copy[u].stamp \in Nat /\ copy[u].stamp <= clock
        BY DEF OwnerShape, SessionsTyped, Rows
      <4> QED
        BY <1>5, <1>7, <2>1, <2>2, <4>1 DEF OwnerShape, SessionsTyped
    <3> QED
      BY <1>1, <2>1, <3>1 DEF OwnerShape, SessionsTyped
  <2>4. /\ pc'[t] = "update" /\ copy'[t] = flushed /\ job'[t].kind = job[t].kind
        /\ DOMAIN job'[t] = {"kind", "set", "what", "no"} /\ job'[t].no = job[t].no /\ job'[t].what = job[t].what
        /\ job'[t].set = IF job[t].kind = "create" THEN job[t].set ELSE net
    BY <1>2, <2>1 DEF OwnerShape, SessionsTyped, Job
  <2>5. SetsRow(job'[t].set)
    BY <1>2, <1>3, <2>4
  <2>6. Job(t)'
    <3>1. job[t].kind # "create" /\ job[t].kind # "delete" /\ "deleted" \in DOMAIN net => ~net["deleted"]
      BY <1>1, <1>2, <1>3 DEF Job
    <3>2. OnRow(t)'
      BY <1>1, <2>4 DEF OnRow
    <3> QED
      BY <1>1, <1>2, <2>4, <2>5, <3>1, <3>2 DEF Job, OnRow, RowKinds, ZoneKinds
  <2>7. Owns(t)'
    <3>1. \A c \in DOMAIN job'[t].set : flushed[c] = job'[t].set[c]
      BY <1>2, <1>3, <1>4, <2>2, <2>4, <2>5 DEF SetsRow
    <3>2. locks'[RowItem] # t
      BY <1>1, <1>2 DEF Owns
    <3>3. flushed.stamp > 0
      BY <1>7, <2>1, <2>2
    <3> QED
      BY <1>1, <1>2, <2>4, <3>1, <3>2, <3>3 DEF Owns, Exists
  <2> QED
    BY <1>1, <1>5, <1>6, <1>7, <1>8, <2>3, <2>4, <2>6, <2>7, ShapeKept DEF Exists
<1> QED
  BY <1>9, <1>10

(* A statement that only moves the request on, and takes locks.            *)
Steps(t, at) ==
  /\ pc' = [pc EXCEPT ![t] = at]
  /\ UNCHANGED <<row, zones, hours, job, copy, clock, log, requests, alone, torn>>

LEMMA StepsShape ==
  ASSUME OwnerShape, NEW t \in Txs, NEW at \in {"ready", "clear", "insert"}, Steps(t, at),
         pc[t] # "idle",
         OnRow(t) => at = "ready" /\ pc[t] = "update" /\ (job[t].kind = "create" => ~Exists /\ locks'[RowItem] = t),
         job[t].kind \in ZoneKinds => at = "ready",
         job[t].kind = "hours" => at # "ready",
         NEW X \in SUBSET Things, (Free(t, X) /\ Take(t, X)) \/ UNCHANGED locks,
         OnRow(t) \/ locks'[RowItem] = locks[RowItem],
         gone' \in [Txs -> SUBSET (Days \X (1..requests))], todo' \in [Txs -> Seq(Days)],
         \A u \in Txs \ {t} : gone'[u] = gone[u] /\ todo'[u] = todo[u]
  PROVE  OwnerShape' /\ \A u \in Txs \ {t} : Bystander(u)
<1>1. /\ Locking /\ \A u \in Txs \ {t}, x \in Things : locks'[x] = u <=> locks[x] = u
  BY TakeLocks DEF OwnerShape, SessionsTyped, Locking
<1>2. pc'[t] = at /\ \A u \in Txs \ {t} : pc'[u] = pc[u]
  BY DEF Steps, OwnerShape, SessionsTyped
<1>3. \A u \in Txs \ {t} : Bystander(u)
  BY <1>1, <1>2 DEF Bystander, Steps
<1>4. pc' \in [Txs -> {"idle", "read", "update", "ready", "clear", "insert"}]
  BY DEF Steps, OwnerShape, SessionsTyped
<1>5. TablesTyped' /\ SessionsTyped'
  BY <1>1, <1>4 DEF Steps, Locking, OwnerShape, TablesTyped, SessionsTyped
<1>6. StampsCounted'
  BY StampsLeft DEF Steps
<1>7. Job(t) /\ Owns(t)
  BY DEF OwnerShape
<1>8. Job(t)'
  BY <1>2, <1>7 DEF Steps, Job, OnRow, ZoneKinds, RowKinds
<1>9. Owns(t)'
  BY <1>2, <1>7 DEF Steps, Owns, OnRow, Exists, RowKinds
<1>10. requests <= requests'
  BY DEF Steps, OwnerShape, TablesTyped
<1> QED
  BY <1>2, <1>3, <1>5, <1>6, <1>8, <1>9, <1>10, ShapeKept DEF Steps, Exists

LEMMA WriteShape ==
  ASSUME OwnerShape, NEW t \in Txs, Write(t)
  PROVE  OwnerShape' /\ \A u \in Txs \ {t} : Bystander(u)
<1>1. /\ pc[t] = "update" /\ Free(t, {RowItem}) /\ Take(t, {RowItem})
      /\ Steps(t, "ready") /\ UNCHANGED <<gone, todo>>
      /\ job[t].kind = "create" => ~Exists
  BY DEF Write, RowItem, Steps, layout, history
<1>2. {RowItem} \in SUBSET Things
  BY ThingsKinds
<1>3. locks'[RowItem] = t
  BY <1>1, ThingsKinds DEF Take
<1>4. OnRow(t)
  BY <1>1 DEF OwnerShape, Job, OnRow, RowKinds, ZoneKinds, Kinds
<1>5. gone' \in [Txs -> SUBSET (Days \X (1..requests))] /\ todo' \in [Txs -> Seq(Days)]
  BY <1>1 DEF OwnerShape, SessionsTyped
<1> QED
  BY <1>1, <1>2, <1>3, <1>4, <1>5, StepsShape DEF OnRow, RowKinds, ZoneKinds

LEMMA WriteZoneShape ==
  ASSUME OwnerShape, NEW t \in Txs, WriteZone(t)
  PROVE  OwnerShape' /\ \A u \in Txs \ {t} : Bystander(u)
<1>1. /\ pc[t] = "read" /\ job[t].kind \in ZoneKinds /\ Free(t, {Zone(t)}) /\ Take(t, {Zone(t)})
      /\ Steps(t, "ready") /\ UNCHANGED <<gone, todo>>
  BY DEF WriteZone, ZoneKinds, Steps, layout, history
<1>2. Zone(t) \in Things /\ Zone(t) # RowItem
  BY <1>1, ThingsKinds DEF Zone, RowItem, OwnerShape, Job
<1>3. locks'[RowItem] = locks[RowItem]
  BY <1>1, <1>2, ThingsKinds DEF Take
<1>4. gone' \in [Txs -> SUBSET (Days \X (1..requests))] /\ todo' \in [Txs -> Seq(Days)]
  BY <1>1 DEF OwnerShape, SessionsTyped
<1>5. ~OnRow(t) /\ job[t].kind # "hours"
  BY <1>1 DEF OnRow, RowKinds, ZoneKinds
<1>6. {Zone(t)} \in SUBSET Things
  BY <1>2
<1> QED
  BY <1>1, <1>3, <1>4, <1>5, <1>6, StepsShape

(* The days of a week.                                                     *)
LEMMA DaysAreNotTheRow == \A d \in Days : Day(d) \in Things /\ Day(d) # RowItem
  BY ThingsKinds DEF Day, RowItem

LEMMA HoursOnly ==
  ASSUME OwnerShape, NEW t \in Txs, pc[t] \in {"clear", "insert"} \/ job[t].kind = "hours"
  PROVE  job[t].kind = "hours" /\ ~OnRow(t) /\ job[t].kind \notin ZoneKinds /\ job[t].what \in Weeks
         /\ pc[t] \in {"read", "clear", "insert"}
  BY DEF OwnerShape, Job, OnRow, RowKinds, ZoneKinds, Kinds

LEMMA StartClearShape ==
  ASSUME OwnerShape, NEW t \in Txs, StartClear(t)
  PROVE  /\ OwnerShape' /\ \A u \in Txs \ {t} : Bystander(u)
         /\ gone'[t] = Present /\ todo'[t] = job[t].what /\ pc'[t] = "clear" /\ job'[t] = job[t]
<1>1. /\ pc[t] = "read" /\ job[t].kind = "hours"
      /\ gone' = [gone EXCEPT ![t] = Present] /\ todo' = [todo EXCEPT ![t] = job[t].what]
      /\ Steps(t, "clear") /\ UNCHANGED locks
  BY DEF StartClear, Steps, layout, history, Present, Filled
<1>2. Present \in SUBSET (Days \X (1..requests))
  BY DEF Present, Filled, OwnerShape, TablesTyped
<1>3. job[t].what \in Seq(Days)
  BY <1>1, HoursOnly, SchedulesValid
<1>4. gone' \in [Txs -> SUBSET (Days \X (1..requests))] /\ todo' \in [Txs -> Seq(Days)]
      /\ \A u \in Txs \ {t} : gone'[u] = gone[u] /\ todo'[u] = todo[u]
  BY <1>1, <1>2, <1>3 DEF OwnerShape, SessionsTyped
<1>5. OwnerShape' /\ \A u \in Txs \ {t} : Bystander(u)
  <2>1. {} \in SUBSET Things
    OBVIOUS
  <2> QED
    BY <1>1, <1>4, <2>1, HoursOnly, StepsShape
<1> QED
  BY <1>1, <1>5 DEF Steps, OwnerShape, SessionsTyped

LEMMA ClearShape ==
  ASSUME OwnerShape, NEW t \in Txs, Clear(t)
  PROVE  /\ OwnerShape' /\ \A u \in Txs \ {t} : Bystander(u)
         /\ gone'[t] = {v \in gone[t] : hours[v[1]] = v[2]}
         /\ todo'[t] = todo[t] /\ pc'[t] = "insert" /\ job'[t] = job[t]
         /\ \A v \in gone'[t] : locks'[Day(v[1])] = t
<1> DEFINE kept == {v \in gone[t] : hours[v[1]] = v[2]}
           days == {Day(v[1]) : v \in kept}
<1>1. /\ pc[t] = "clear" /\ gone' = [gone EXCEPT ![t] = kept] /\ todo' = todo
      /\ Free(t, days) /\ Take(t, days) /\ Steps(t, "insert")
  BY DEF Clear, Steps, layout, history, Free
<1>2. gone[t] \in SUBSET (Days \X (1..requests))
  BY DEF OwnerShape, SessionsTyped
<1>3. days \in SUBSET Things /\ RowItem \notin days /\ kept \in SUBSET (Days \X (1..requests))
  BY <1>2, DaysAreNotTheRow
<1>4. gone' \in [Txs -> SUBSET (Days \X (1..requests))] /\ todo' \in [Txs -> Seq(Days)]
      /\ \A u \in Txs \ {t} : gone'[u] = gone[u] /\ todo'[u] = todo[u]
  BY <1>1, <1>3 DEF OwnerShape, SessionsTyped
<1>5. locks'[RowItem] = locks[RowItem]
  BY <1>1, <1>3, ThingsKinds DEF Take
<1>6. OwnerShape' /\ \A u \in Txs \ {t} : Bystander(u)
  BY <1>1, <1>3, <1>4, <1>5, HoursOnly, StepsShape
<1>7. \A v \in kept : locks'[Day(v[1])] = t
  BY <1>1, <1>3 DEF Take
<1> QED
  BY <1>1, <1>6, <1>7 DEF Steps, OwnerShape, SessionsTyped

LEMMA InsertDayShape ==
  ASSUME OwnerShape, NEW t \in Txs, InsertDay(t)
  PROVE  /\ OwnerShape' /\ \A u \in Txs \ {t} : Bystander(u)
         /\ todo[t] # <<>> /\ todo'[t] = Tail(todo[t]) /\ Head(todo[t]) \in Days
         /\ gone'[t] = gone[t] /\ pc'[t] = "insert" /\ pc[t] = "insert" /\ job'[t] = job[t]
         /\ hours[Head(todo[t])] = 0 \/ Head(todo[t]) \in Deleted(t)
         /\ locks'[Day(Head(todo[t]))] = t
         /\ \A x \in Things : locks[x] = t => locks'[x] = t
<1> DEFINE d == Head(todo[t])
<1>1. /\ pc[t] = "insert" /\ todo[t] # <<>> /\ Free(t, {Day(d)}) /\ Take(t, {Day(d)})
      /\ hours[d] = 0 \/ d \in Deleted(t)
      /\ todo' = [todo EXCEPT ![t] = Tail(todo[t])] /\ gone' = gone
      /\ pc' = pc /\ UNCHANGED <<row, zones, hours, job, copy, clock, log, requests, alone, torn>>
  BY DEF InsertDay, layout, history
<1>2. todo[t] \in Seq(Days)
  BY DEF OwnerShape, SessionsTyped
<1>3. d \in Days /\ Tail(todo[t]) \in Seq(Days)
  BY <1>1, <1>2, HeadTailProperties
<1> HIDE DEF d
<1>4. Steps(t, "insert")
  BY <1>1 DEF Steps, OwnerShape, SessionsTyped
<1>5. {Day(d)} \in SUBSET Things /\ RowItem \notin {Day(d)}
  BY <1>3, DaysAreNotTheRow
<1>6. gone' \in [Txs -> SUBSET (Days \X (1..requests))] /\ todo' \in [Txs -> Seq(Days)]
      /\ \A u \in Txs \ {t} : gone'[u] = gone[u] /\ todo'[u] = todo[u]
  BY <1>1, <1>3 DEF OwnerShape, SessionsTyped
<1>7. locks'[RowItem] = locks[RowItem]
  BY <1>1, <1>5, ThingsKinds DEF Take
<1>8. OwnerShape' /\ \A u \in Txs \ {t} : Bystander(u)
  BY <1>1, <1>4, <1>5, <1>6, <1>7, HoursOnly, StepsShape
<1>9. locks'[Day(d)] = t /\ \A x \in Things : locks[x] = t => locks'[x] = t
  BY <1>1, <1>5 DEF Take
<1> QED
  BY <1>1, <1>3, <1>8, <1>9 DEF d, OwnerShape, SessionsTyped
-----------------------------------------------------------------------------
LEMMA InitShape == OwnerInit => OwnerShape
<1> SUFFICES ASSUME OwnerInit PROVE OwnerShape
  OBVIOUS
<1> PICK seeded \in BOOLEAN :
      /\ row = IF seeded THEN [NoRow EXCEPT !.status = "active", !.stamp = 1] ELSE NoRow
      /\ zones = [c \in Codes |-> IF seeded THEN NewZone ELSE NoZone]
      /\ hours = [d \in Days |-> IF seeded THEN 1 ELSE 0]
      /\ log = IF seeded THEN <<[type |-> "create", snapshot |-> row]>> ELSE <<>>
      /\ clock = IF seeded THEN 1 ELSE 0
      /\ requests = clock
  BY DEF OwnerInit
<1>1. row \in Rows /\ row.stamp = clock
  <2>1. NoRow \in Rows /\ [NoRow EXCEPT !.status = "active", !.stamp = 1] \in Rows
    <3>1. NoRow \in Rows /\ 1 \in 0..MaxRequests /\ "active" \in Status
      BY NothingTyped, RequestsPositive DEF Status
    <3> QED
      BY <3>1 DEF Rows
  <2> QED
    BY <2>1, NothingTyped DEF Rows
<1>2. clock \in Nat /\ requests \in 0..MaxRequests
  BY RequestsPositive
<1>3. log \in Seq(Events) /\ \A i \in DOMAIN log : log[i].snapshot.stamp <= clock
  <2>1. [type |-> "create", snapshot |-> row] \in Events
    BY <1>1 DEF Events, Kinds
  <2>2. CASE seeded
    <3> DEFINE e == [type |-> "create", snapshot |-> row]
    <3>1. e \in Events /\ e.snapshot = row /\ log = <<e>>
      BY <2>1, <2>2
    <3> HIDE DEF e
    <3>2. log \in Seq(Events) /\ DOMAIN log = {1} /\ log[1] = e
      BY <3>1
    <3>3. e.snapshot.stamp <= clock
      BY <1>1, <1>2, <3>1
    <3>4. \A i \in DOMAIN log : log[i] = e
      BY <3>2
    <3> QED
      BY <3>2, <3>3, <3>4
  <2>3. CASE ~seeded
    BY <2>3
  <2> QED
    BY <2>2, <2>3
<1>4. TablesTyped
  BY <1>1, <1>2, <1>3, NothingTyped DEF TablesTyped
<1>5. SessionsTyped
  <2>1. <<>> \in Seq(Days)
    BY EmptySeq
  <2>2. \A t \in Txs : copy[t] \in Rows /\ copy[t].stamp <= clock
    BY <1>2, NothingTyped DEF OwnerInit
  <2> QED
    BY <2>1, <2>2 DEF OwnerInit, SessionsTyped
<1>6. StampsCounted
  <2>1. Reading = {}
    BY DEF Reading, OwnerInit
  <2>2. IsFiniteSet(Reading) /\ Cardinality(Reading) = 0
    BY <2>1, FS_EmptySet
  <2> QED
    BY <1>2, <2>2 DEF StampsCounted
<1>7. LocksHeld
  BY DEF LocksHeld, OwnerInit
<1>8. ASSUME NEW t \in Txs PROVE Job(t) /\ Owns(t)
  <2>1. /\ pc[t] = "idle" /\ job[t].kind = "none" /\ job[t].no = 0
        /\ DOMAIN job[t] = {"kind", "set", "what", "no"} /\ locks[RowItem] # t
    BY NobodyIsNoTx, ThingsKinds DEF OwnerInit, NoJob
  <2>2. ~OnRow(t)
    BY <2>1 DEF OnRow, RowKinds
  <2>3. 0 \in 0..requests
    BY <1>2
  <2> QED
    BY <2>1, <2>2, <2>3 DEF Job, Owns, ZoneKinds
<1> QED
  BY <1>4, <1>5, <1>6, <1>7, <1>8 DEF OwnerShape

(* The steps of a session, whole.                                          *)
LEMMA Steppers ==
  ASSUME OwnerNext
  PROVE  \E t \in Txs :
           \/ Arrives(t) \/ Flush(t) \/ Write(t) \/ Commit(t)
           \/ WriteZone(t) \/ CommitZone(t)
           \/ StartClear(t) \/ Clear(t) \/ InsertDay(t) \/ CommitHours(t)
           \/ Rollback(t)
  BY DEF OwnerNext, RowRequest, LayoutRequest, Arrives

LEMMA StepShape == OwnerShape /\ [OwnerNext]_ownerVars => OwnerShape'
<1> SUFFICES ASSUME OwnerShape, [OwnerNext]_ownerVars PROVE OwnerShape'
  OBVIOUS
<1>1. CASE UNCHANGED ownerVars
  <2>1. UNCHANGED <<row, zones, hours, locks, pc, job, copy, gone, todo, clock, log, requests, alone, torn>>
    BY <1>1 DEF ownerVars, layout, tx, history
  <2>2. TablesTyped' /\ SessionsTyped' /\ StampsCounted' /\ LocksHeld'
    BY <2>1 DEF OwnerShape, TablesTyped, SessionsTyped, StampsCounted, Reading, LocksHeld
  <2>3. ASSUME NEW t \in Txs PROVE Job(t)' /\ Owns(t)'
    BY <2>1 DEF OwnerShape, Job, Owns, OnRow, Exists
  <2> QED
    BY <2>2, <2>3 DEF OwnerShape
<1>2. ASSUME NEW t \in Txs, Arrives(t) PROVE OwnerShape'
  BY <1>2, ArrivesFits, BeginShape
<1> QED
  BY <1>1, <1>2, Steppers, FlushShape, WriteShape, CommitShape, WriteZoneShape, CommitZoneShape,
     StartClearShape, ClearShape, InsertDayShape, CommitHoursShape, RollbackShape

LEMMA AlwaysInShape == OwnerSpec => []OwnerShape
  BY InitShape, StepShape, PTL DEF OwnerSpec
-----------------------------------------------------------------------------
(* What is published.                                                      *)
LEMMA OthersStay ==
  ASSUME NEW t \in Txs, NEW u \in Txs \ {t}, Bystander(u)
  PROVE  OnRow(u)' <=> OnRow(u)
  BY DEF Bystander, OnRow

(* The others of u, when t moves.                                          *)
LEMMA AloneOther ==
  ASSUME OwnerShape, Published, NEW t \in Txs, NEW u \in Txs \ {t},
         \A w \in Txs \ {t} : Bystander(w), alone'[u] => alone[u],
         ~OnRow(t) => ~OnRow(t)' /\ row' = row /\ clock' = clock /\ log' = log
  PROVE  Alone(u)'
<1>1. SUFFICES ASSUME alone'[u] PROVE Alone(u)'
  BY DEF Alone
<1>2. alone[u] /\ Alone(u) /\ OnRow(u) /\ Others(u) = {}
  BY <1>1 DEF Published, Alone
<1>3. ~OnRow(t)
  BY <1>2 DEF Others
<1>4. OnRow(u)' /\ Others(u)' = {}
  <2>1. \A w \in Txs \ {t} : OnRow(w)' <=> OnRow(w)
    BY OthersStay
  <2>2. ~OnRow(t)'
    BY <1>3
  <2> QED
    BY <1>2, <2>1, <2>2 DEF Others
<1>5. /\ pc'[u] = pc[u] /\ copy'[u] = copy[u] /\ job'[u] = job[u]
      /\ locks'[RowItem] = u <=> locks[RowItem] = u
  BY ThingsKinds DEF Bystander
<1> QED
  BY <1>2, <1>3, <1>4, <1>5 DEF Alone, Changed

LEMMA ToldKept ==
  ASSUME Published, UNCHANGED <<row, log, torn>> PROVE Told'
  BY DEF Published, Told, NotAfter

(* A session that does not work on the row, or ends without a commit.      *)
LEMMA AsidePublished ==
  ASSUME OwnerShape, Published, NEW t \in Txs, UNCHANGED <<row, log, torn, clock>>,
         \A u \in Txs \ {t} : Bystander(u) /\ alone'[u] = alone[u],
         ~OnRow(t)', alone'[t] => alone[t] /\ ~OnRow(t)
  PROVE  Published'
<1>1. ASSUME NEW u \in Txs \ {t} PROVE Alone(u)'
  BY AloneOther
<1>2. ~alone'[t]
  BY DEF Published, Alone
<1> QED
  BY <1>1, <1>2, ToldKept DEF Published, Alone

LEMMA DonePublished ==
  ASSUME OwnerShape, Published, NEW t \in Txs, Done(t), UNCHANGED <<row, log, torn, clock>>
  PROVE  Published'
<1>1. \A u \in Txs \ {t} : Bystander(u) /\ alone'[u] = alone[u]
  BY DoneLeaves DEF OwnerShape, SessionsTyped, Done
<1>2. ~OnRow(t)' /\ ~alone'[t]
  BY DEF Done, OwnerShape, SessionsTyped, OnRow, RowKinds, NoJob
<1> QED
  BY <1>1, <1>2, AsidePublished

LEMMA HoursPublished ==
  ASSUME OwnerShape, Published, NEW t \in Txs, StartClear(t) \/ Clear(t) \/ InsertDay(t) \/ WriteZone(t)
  PROVE  Published'
<1>1. UNCHANGED <<row, log, torn, clock, alone, job>>
  BY DEF StartClear, Clear, InsertDay, WriteZone, layout, history
<1>2. \A u \in Txs \ {t} : Bystander(u)
  BY StartClearShape, ClearShape, InsertDayShape, WriteZoneShape
<1>3. ~OnRow(t)
  BY HoursOnly DEF StartClear, Clear, InsertDay, WriteZone, OnRow, RowKinds
<1>4. ~OnRow(t)'
  BY <1>1, <1>3 DEF OnRow
<1> QED
  BY <1>1, <1>2, <1>3, <1>4, AsidePublished

LEMMA LogStamps ==
  ASSUME OwnerShape, NEW i \in DOMAIN log
  PROVE  log[i] \in Events /\ log[i].snapshot \in Rows /\ log[i].snapshot.stamp \in Nat
<1>1. log[i] \in Events
  BY DEF OwnerShape, TablesTyped
<1>2. log[i].snapshot \in Rows
  BY <1>1 DEF Events
<1> QED
  BY <1>1, <1>2, RowColumns, RequestsPositive

LEMMA BeginPublished ==
  ASSUME OwnerShape, Published, NEW t \in Txs, NEW kind, NEW set, NEW what,
         Begin(t, kind, set, what), Fits(kind, set, what)
  PROVE  Published'
<1>1. /\ UNCHANGED <<row, log, torn, clock>> /\ pc[t] = "idle"
      /\ \A u \in Txs : alone'[u] = IF kind \notin RowKinds THEN alone[u] ELSE u = t /\ Others(t) = {}
      /\ pc'[t] = "read" /\ copy'[t] = row /\ job'[t].kind = kind
  BY DEF Begin, OwnerShape, SessionsTyped
<1>2. \A u \in Txs \ {t} : Bystander(u)
  BY BeginShape
<1>3. ~OnRow(t) /\ ~alone[t]
  BY <1>1 DEF OwnerShape, Job, OnRow, RowKinds, Published, Alone
<1>4. OnRow(t)' <=> kind \in RowKinds
  BY <1>1 DEF OnRow
<1>5. CASE kind \notin RowKinds
  BY <1>1, <1>2, <1>3, <1>4, <1>5, AsidePublished
<1>6. CASE kind \in RowKinds
  <2>1. \A u \in Txs \ {t} : Alone(u)'
    BY <1>1, <1>6 DEF Alone
  <2>2. Alone(t)'
    <3>1. Others(t)' = Others(t)
      <4>1. \A u \in Txs \ {t} : OnRow(u)' <=> OnRow(u)
        BY <1>2, OthersStay
      <4> QED
        BY <4>1 DEF Others
    <3> QED
      BY <1>1, <1>4, <1>6, <3>1 DEF Alone
  <2> QED
    BY <1>1, <2>1, <2>2, ToldKept DEF Published
<1> QED
  BY <1>5, <1>6

LEMMA FlushPublished ==
  ASSUME OwnerShape, Published, NEW t \in Txs, Flush(t)
  PROVE  Published'
<1> DEFINE net == Net(copy[t], job[t].set)
           same == DOMAIN net = {} /\ job[t].kind # "create"
<1>1. /\ pc[t] = "read" /\ OnRow(t)
      /\ IF same
         THEN pc' = [pc EXCEPT ![t] = "ready"] /\ UNCHANGED <<clock, copy, job>>
         ELSE /\ pc' = [pc EXCEPT ![t] = "update"]
              /\ job' = [job EXCEPT ![t].set = IF job[t].kind = "create" THEN @ ELSE net]
              /\ clock' = clock + 1
              /\ copy' = [copy EXCEPT ![t] = [With(@, net) EXCEPT !.stamp = clock']]
      /\ UNCHANGED <<row, locks, log, alone, torn>>
  BY DEF Flush, layout, history
<1>2. Job(t) /\ Owns(t) /\ SetsRow(job[t].set) /\ copy[t] \in Rows
  BY <1>1 DEF OwnerShape, Job, SessionsTyped
<1>3. SetsRow(net)
  <2>1. SetsRow(job[t].set)
    BY <1>2
  <2> QED
    BY <2>1, NetSets
<1>4. /\ With(copy[t], net) \in Rows
      /\ \A c \in {"status", "deleted", "name"} \ DOMAIN net : With(copy[t], net)[c] = copy[t][c]
  BY <1>2, <1>3, WithRow
<1> HIDE DEF net
<1>5. \A u \in Txs \ {t} : Bystander(u)
  BY FlushShape
<1>6. ASSUME NEW u \in Txs \ {t} PROVE Alone(u)'
  BY <1>1, <1>5, AloneOther
<1>7. Alone(t)'
  <2>1. SUFFICES ASSUME alone[t] PROVE Alone(t)'
    BY <1>1 DEF Alone
  <2>2. OnRow(t) /\ Others(t) = {} /\ copy[t] = row /\ locks[RowItem] # t
    BY <1>1, <1>2, <2>1 DEF Published, Alone, Owns
  <2>3. OnRow(t)'
    <3>1. job'[t].kind = job[t].kind
      BY <1>1, <1>2 DEF OwnerShape, SessionsTyped, Job
    <3> QED
      BY <1>1, <3>1 DEF OnRow
  <2>4. Others(t)' = {}
    <3>1. \A u \in Txs \ {t} : OnRow(u)' <=> OnRow(u)
      BY <1>5, OthersStay
    <3> QED
      BY <2>2, <3>1 DEF Others
  <2>5. CASE same
    <3>1. pc'[t] = "ready" /\ copy'[t] = row'
      BY <1>1, <2>2, <2>5 DEF OwnerShape, SessionsTyped
    <3> QED
      BY <1>1, <2>2, <2>3, <2>4, <3>1 DEF Alone
  <2>6. CASE ~same
    <3> DEFINE flushed == [With(copy[t], net) EXCEPT !.stamp = clock']
    <3>1. pc'[t] = "update" /\ copy'[t] = flushed
      BY <1>1, <2>6 DEF OwnerShape, SessionsTyped
    <3>2. flushed.stamp = clock' /\ \A c \in {"status", "deleted", "name"} : flushed[c] = With(copy[t], net)[c]
      BY <1>4 DEF Rows
    <3>3. job'[t].set = IF job[t].kind = "create" THEN job[t].set ELSE net
      BY <1>1, <1>2, <2>6 DEF OwnerShape, SessionsTyped, Job
    <3> HIDE DEF flushed
    <3>4. ASSUME NEW c \in {"status", "deleted", "name"} \ DOMAIN job'[t].set
          PROVE  flushed[c] = row[c]
      <4>1. job[t].kind # "create"
        BY <1>2, <3>3, <3>4 DEF Job
      <4> QED
        BY <1>4, <2>2, <3>2, <3>3, <3>4, <4>1
    <3>5. clock' = clock + 1 /\ clock \in Nat /\ log' = log /\ \A i \in DOMAIN log : log[i].snapshot.stamp <= clock
      BY <1>1, <2>6 DEF OwnerShape, TablesTyped
    <3>6. \A i \in DOMAIN log : log[i].snapshot.stamp \in Nat
      BY LogStamps
    <3>7. \A i \in DOMAIN log' : log'[i].snapshot.stamp < clock'
      BY <3>5, <3>6
    <3>8. Changed(t)'
      BY <1>1, <3>1, <3>2, <3>4, <3>7 DEF Changed
    <3> QED
      BY <2>3, <2>4, <3>1, <3>8 DEF Alone
  <2> QED
    BY <2>5, <2>6
<1> QED
  BY <1>1, <1>6, <1>7, ToldKept DEF Published

LEMMA WritePublished ==
  ASSUME OwnerShape, Published, NEW t \in Txs, Write(t)
  PROVE  Published'
<1>1. /\ pc[t] = "update" /\ pc'[t] = "ready" /\ locks'[RowItem] = t
      /\ UNCHANGED <<row, log, torn, clock, alone, job, copy>>
  BY ThingsKinds DEF Write, Take, RowItem, layout, history, OwnerShape, SessionsTyped
<1>2. \A u \in Txs \ {t} : Bystander(u)
  BY WriteShape
<1>3. OnRow(t) /\ OnRow(t)'
  BY <1>1 DEF OwnerShape, Job, OnRow, RowKinds, ZoneKinds, Kinds
<1>4. ASSUME NEW u \in Txs \ {t} PROVE Alone(u)'
  BY <1>1, <1>2, <1>3, AloneOther
<1>5. Alone(t)'
  <2>1. Others(t)' = Others(t)
    BY <1>1 DEF Others, OnRow
  <2> QED
    BY <1>1, <1>3, <2>1 DEF Published, Alone, Changed
<1> QED
  BY <1>1, <1>4, <1>5, ToldKept DEF Published

LEMMA CommitPublished ==
  ASSUME OwnerShape, Published, NEW t \in Txs, Commit(t)
  PROVE  Published'
<1>1. /\ OnRow(t) /\ pc[t] = "ready" /\ Done(t)
      /\ torn' = IF ~alone[t] THEN TRUE ELSE IF locks[RowItem] = t THEN FALSE ELSE torn
  BY DEF Commit, RowItem
<1>2. /\ row' = IF locks[RowItem] = t THEN Written(row, copy[t], job[t].set) ELSE row
      /\ log' = Append(log, Snapshot(t)) /\ Snapshot(t).snapshot = copy[t]
  BY CommitTables
<1>3. Job(t) /\ Owns(t) /\ SetsRow(job[t].set) /\ copy[t] \in Rows /\ row \in Rows
  BY <1>1 DEF OwnerShape, Job, SessionsTyped, TablesTyped
<1>4. /\ Written(row, copy[t], job[t].set) \in Rows
      /\ Written(row, copy[t], job[t].set).stamp = copy[t].stamp
      /\ \A x \in {"status", "deleted", "name"} :
           Written(row, copy[t], job[t].set)[x] = IF x \in DOMAIN job[t].set THEN copy[t][x] ELSE row[x]
  BY <1>3, WrittenRow, ZenonT(40)
<1>5. ASSUME NEW u \in Txs \ {t} PROVE Alone(u)'
  <2>1. \A w \in Txs \ {t} : Bystander(w)
    BY <1>1, DoneLeaves DEF OwnerShape
  <2>2. alone'[u] = alone[u]
    BY <1>1 DEF Done, OwnerShape, SessionsTyped
  <2> QED
    BY <1>1, <2>1, <2>2, AloneOther
<1>6. Alone(t)'
  BY <1>1 DEF Alone, Done, OwnerShape, SessionsTyped
<1>7. /\ Len(log) \in Nat /\ Len(log') = Len(log) + 1 /\ log' # <<>>
      /\ log'[Len(log')] = Snapshot(t) /\ \A i \in 1..Len(log) : log'[i] = log[i]
      /\ DOMAIN log' = 1..Len(log) + 1 /\ DOMAIN log = 1..Len(log)
  BY <1>2, SMTT(30) DEF OwnerShape, TablesTyped
<1>8. row' # NoRow
  <2>1. Exists'
    <3>1. CASE locks[RowItem] = t
      BY <1>2, <1>3, <1>4, <3>1 DEF Owns, Exists
    <3>2. CASE locks[RowItem] # t
      BY <1>1, <1>2, <1>3, <3>2 DEF Owns, Exists, OnRow, RowKinds
    <3> QED
      BY <3>1, <3>2
  <2> QED
    BY <2>1, NothingTyped DEF Exists
<1>9. ASSUME ~torn'
      PROVE  /\ log'[Len(log')].snapshot = row'
             /\ \A i \in DOMAIN log' : NotAfter(log'[i].snapshot, row')
  <2>1. alone[t] /\ (locks[RowItem] = t \/ ~torn)
    BY <1>1, <1>9
  <2>2. Alone(t)
    BY DEF Published
  <2>3. row' = copy[t] /\ \A i \in 1..Len(log) : NotAfter(log[i].snapshot, row')
    <3>1. CASE locks[RowItem] = t
      <4>1. Changed(t)
        BY <1>1, <2>1, <2>2, <3>1 DEF Alone
      <4>2. \A x \in {"status", "deleted", "name"} : Written(row, copy[t], job[t].set)[x] = copy[t][x]
        BY <1>4, <4>1 DEF Changed
      <4>3. Written(row, copy[t], job[t].set) = copy[t]
        BY <1>3, <1>4, <4>2, SameRow
      <4>4. row' = copy[t] /\ row'.stamp = clock
        BY <1>2, <3>1, <4>1, <4>3 DEF Changed
      <4>5. ASSUME NEW i \in 1..Len(log) PROVE NotAfter(log[i].snapshot, row')
        <5>1. i \in DOMAIN log /\ log[i].snapshot.stamp < clock
          BY <1>7, <4>1 DEF Changed
        <5>2. log[i].snapshot.stamp \in Nat /\ clock \in Nat
          BY <5>1, LogStamps DEF OwnerShape, TablesTyped
        <5> QED
          BY <4>4, <5>1, <5>2 DEF NotAfter
      <4> QED
        BY <4>4, <4>5
    <3>2. CASE locks[RowItem] # t
      <4>1. copy[t] = row /\ row' = row /\ ~torn
        BY <1>1, <1>2, <2>1, <2>2, <3>2 DEF Alone
      <4>2. \A i \in DOMAIN log : NotAfter(log[i].snapshot, row)
        BY <1>7, <4>1 DEF Published, Told
      <4> QED
        BY <1>7, <4>1, <4>2
    <3> QED
      BY <3>1, <3>2
  <2>4. NotAfter(copy[t], row')
    BY <1>3, <2>3, RowColumns, RequestsPositive DEF NotAfter
  <2>5. ASSUME NEW i \in 1..Len(log) + 1 PROVE NotAfter(log'[i].snapshot, row')
    <3>1. CASE i \in 1..Len(log)
      BY <1>7, <2>3, <3>1
    <3>2. CASE i = Len(log) + 1
      BY <1>2, <1>7, <2>4, <3>2
    <3> QED
      BY <1>7, <3>1, <3>2
  <2> QED
    BY <1>2, <1>7, <2>3, <2>5
<1>10. Told'
  BY <1>7, <1>8, <1>9 DEF Told
<1> QED
  BY <1>5, <1>6, <1>10 DEF Published

LEMMA InitPublished == OwnerInit => Published
<1> SUFFICES ASSUME OwnerInit PROVE Published
  OBVIOUS
<1>1. \A t \in Txs : Alone(t)
  BY DEF OwnerInit, Alone
<1>2. \/ row = NoRow /\ log = <<>>
      \/ row.stamp = 1 /\ log = <<[type |-> "create", snapshot |-> row]>>
  BY DEF OwnerInit, NoRow
<1>3. CASE row = NoRow /\ log = <<>>
  BY <1>1, <1>3 DEF Published, Told
<1>4. CASE row.stamp = 1 /\ log = <<[type |-> "create", snapshot |-> row]>>
  <2> DEFINE e == [type |-> "create", snapshot |-> row]
  <2>1. e.snapshot = row /\ log = <<e>> /\ row # NoRow
    BY <1>4, StampedIsThere
  <2> HIDE DEF e
  <2>2. Len(log) = 1 /\ DOMAIN log = {1} /\ log[1] = e /\ log # <<>>
    BY <2>1
  <2> QED
    BY <1>1, <1>4, <2>1, <2>2 DEF Published, Told, NotAfter
<1> QED
  BY <1>2, <1>3, <1>4

LEMMA StepPublished == OwnerShape /\ Published /\ [OwnerNext]_ownerVars => Published'
<1> SUFFICES ASSUME OwnerShape, Published, [OwnerNext]_ownerVars PROVE Published'
  OBVIOUS
<1>1. CASE UNCHANGED ownerVars
  <2>1. UNCHANGED <<row, locks, pc, job, copy, clock, log, alone, torn>>
    BY <1>1 DEF ownerVars, layout, tx, history
  <2>2. ASSUME NEW t \in Txs PROVE Alone(t)'
    <3>1. Others(t)' = Others(t) /\ (OnRow(t)' <=> OnRow(t))
      BY <2>1 DEF Others, OnRow
    <3> QED
      BY <2>1, <3>1 DEF Published, Alone, Changed
  <2> QED
    BY <2>1, <2>2, ToldKept DEF Published
<1>2. ASSUME NEW t \in Txs, Arrives(t) PROVE Published'
  BY <1>2, ArrivesFits, BeginPublished
<1>3. ASSUME NEW t \in Txs, Rollback(t) \/ CommitZone(t) \/ CommitHours(t) PROVE Published'
  BY <1>3, DonePublished DEF Rollback, CommitZone, CommitHours
<1> QED
  BY <1>1, <1>2, <1>3, Steppers, FlushPublished, WritePublished, CommitPublished, HoursPublished
-----------------------------------------------------------------------------
(* The week.  A step writes its own number into days, and deletes.         *)
LEMMA NumbersKept ==
  ASSUME OwnerShape, \A u \in Txs : Numbers(u), NEW t \in Txs,
         \A u \in Txs \ {t} : Bystander(u),
         \/ job'[t].kind = job[t].kind /\ job'[t].no = job[t].no /\ hours' = hours
         \/ job'[t] = NoJob,
         gone'[t] \subseteq gone[t] \cup Present,
         \A d \in Days : hours'[d] \in {hours[d], 0, job[t].no}
  PROVE  \A u \in Txs : Numbers(u)'
<1>1. ASSUME NEW u \in Txs, job'[u].kind # "none"
      PROVE  /\ job'[u].kind = job[u].kind /\ job'[u].no = job[u].no /\ job[u].no # 0
             /\ u = t => hours' = hours
  BY <1>1 DEF Bystander, Numbers, NoJob
<1>2. ASSUME NEW u \in Txs, job'[u].kind = "hours", NEW d \in Days PROVE hours'[d] # job'[u].no
  BY <1>1, <1>2 DEF Numbers
<1>3. ASSUME NEW u \in Txs, job'[u].kind = "hours", NEW w \in Txs, NEW v \in gone'[w]
      PROVE  v[2] # job'[u].no
  <2>1. v \in gone[w] \cup Present
    BY <1>3 DEF Bystander
  <2>2. v \in Present => \E d \in Days : v[2] = hours[d]
    BY DEF Present, Filled
  <2> QED
    BY <1>1, <1>3, <2>1, <2>2 DEF Numbers
<1>4. ASSUME NEW u \in Txs, NEW w \in Txs, job'[u].kind # "none", job'[w].no = job'[u].no
      PROVE  w = u
  <2>1. job[u].no = job[w].no
    <3>1. job'[w].no = job[w].no \/ job'[w].no = 0
      BY DEF Bystander, NoJob
    <3> QED
      BY <1>1, <1>4, <3>1
  <2> QED
    BY <1>1, <1>4, <2>1 DEF Numbers
<1> QED
  BY <1>1, <1>2, <1>3, <1>4 DEF Numbers

LEMMA BystanderHolds ==
  ASSUME OwnerShape, NEW t \in Txs, NEW u \in Txs \ {t}, Bystander(u), DaysHeld(u)
  PROVE  DaysHeld(u)'
<1>1. \A d \in Days : locks'[Day(d)] = u <=> locks[Day(d)] = u
  BY ThingsKinds DEF Bystander
<1>2. \A v \in gone[u] : v[1] \in Days
  BY DEF OwnerShape, SessionsTyped
<1>3. pc[u] = "insert" => Elements(job[u].what) \subseteq Days
  <2>1. SUFFICES ASSUME pc[u] = "insert" PROVE Elements(job[u].what) \subseteq Days
    OBVIOUS
  <2>2. job[u].what \in Seq(Days)
    BY <2>1, HoursOnly, SchedulesValid
  <2> QED
    BY <2>2 DEF Elements
<1> QED
  BY <1>1, <1>2, <1>3 DEF DaysHeld, Bystander

LEMMA WeekDays ==
  ASSUME OwnerShape, NEW t \in Txs, job[t].kind = "hours"
  PROVE  job[t].what \in Weeks /\ Elements(job[t].what) \subseteq Days /\ Elements(job[t].what) # {}
<1>1. job[t].what \in Weeks /\ job[t].what \in Seq(Days) /\ ValidSchedule(job[t].what)
  BY HoursOnly, SchedulesValid
<1>2. job[t].what # <<>> /\ Len(job[t].what) \in Nat /\ DOMAIN job[t].what = 1..Len(job[t].what)
  BY <1>1 DEF ValidSchedule
<1>3. 1 \in DOMAIN job[t].what
  BY <1>1, <1>2, EmptySeq
<1> QED
  BY <1>1, <1>3 DEF Elements

(* A step that leaves the days alone, by the session that takes it.        *)
LEMMA WeekKept ==
  ASSUME OwnerShape, WeekInv, NEW t \in Txs, \A u \in Txs \ {t} : Bystander(u),
         hours' = hours, patched' = patched, unseen' \in {unseen, [unseen EXCEPT ![t] = {}]},
         \A u \in Txs : Numbers(u)', DaysHeld(t)', Replaces(t)'
  PROVE  WeekInv'
<1>1. \A u \in Txs \ {t} : DaysHeld(u)'
  BY BystanderHolds DEF WeekInv
<1>2. Filled' = Filled /\ Present' = Present
  BY DEF Filled, Present
<1>3. unseen' \in [Txs -> SUBSET Days] /\ \A u \in Txs \ {t} : unseen'[u] = unseen[u]
  BY DEF WeekInv
<1>4. ASSUME NEW u \in Txs \ {t} PROVE Replaces(u)'
  BY <1>2, <1>3 DEF WeekInv, Replaces, Deleted, Bystander
<1>5. OneWeek'
  BY <1>2 DEF WeekInv, OneWeek
<1> QED
  BY <1>1, <1>3, <1>4, <1>5 DEF WeekInv

LEMMA DoneWeek ==
  ASSUME OwnerShape, WeekInv, NEW t \in Txs, Done(t), hours' = hours, patched' = patched,
         unseen' = [unseen EXCEPT ![t] = {}] \/ (unseen' = unseen /\ pc[t] = "ready")
  PROVE  WeekInv'
<1>1. \A u \in Txs \ {t} : Bystander(u)
  BY DoneLeaves DEF OwnerShape
<1>2. pc'[t] = "idle" /\ job'[t] = NoJob /\ gone'[t] = {}
  BY DEF Done, OwnerShape, SessionsTyped
<1>3. \A u \in Txs : Numbers(u)'
  BY <1>1, <1>2, NumbersKept DEF WeekInv
<1>4. unseen'[t] = {}
  BY DEF WeekInv, Replaces
<1> QED
  BY <1>1, <1>2, <1>3, <1>4, WeekKept DEF DaysHeld, Replaces

LEMMA BeginWeek ==
  ASSUME OwnerShape, WeekInv, NEW t \in Txs, NEW kind, NEW set, NEW what,
         Begin(t, kind, set, what), Fits(kind, set, what)
  PROVE  WeekInv'
<1>1. /\ job'[t].no = requests + 1 /\ job'[t].kind = kind /\ kind # "none" /\ pc'[t] = "read"
      /\ UNCHANGED <<hours, gone, unseen, patched>> /\ pc[t] = "idle"
  BY DEF Begin, layout, weekHistory, Fits, Kinds, OwnerShape, SessionsTyped
<1>2. \A u \in Txs \ {t} : Bystander(u)
  BY BeginShape
<1>3. /\ requests \in Nat /\ \A d \in Days : hours[d] \in 0..requests
      /\ \A u \in Txs : job[u].no \in 0..requests
      /\ \A u \in Txs : \A v \in gone[u] : v[2] \in 1..requests
  BY DEF OwnerShape, TablesTyped, SessionsTyped, Job
<1>4. ASSUME NEW u \in Txs PROVE Numbers(u)'
  <2>1. CASE u = t
    <3>1. \A w \in Txs \ {t} : job'[w].no # job'[t].no
      BY <1>1, <1>2, <1>3 DEF Bystander
    <3>2. job'[t].no # 0 /\ \A d \in Days : hours'[d] # job'[t].no
      BY <1>1, <1>3
    <3>3. \A w \in Txs : \A v \in gone'[w] : v[2] # job'[t].no
      BY <1>1, <1>3
    <3> QED
      BY <2>1, <3>1, <3>2, <3>3 DEF Numbers
  <2>2. CASE u # t
    <3>1. job'[u] = job[u] /\ Numbers(u) /\ job'[t].no # job[u].no
      BY <1>1, <1>2, <1>3, <2>2 DEF Bystander, WeekInv
    <3>2. \A w \in Txs \ {t} : job'[w] = job[w]
      BY <1>2 DEF Bystander
    <3> QED
      BY <1>1, <3>1, <3>2 DEF Numbers
  <2> QED
    BY <2>1, <2>2
<1>5. unseen'[t] = {}
  BY <1>1 DEF WeekInv, Replaces
<1> QED
  BY <1>1, <1>2, <1>4, <1>5, WeekKept DEF DaysHeld, Replaces

(* A request that has nothing to do with hours moves on.                   *)
LEMMA ElsewhereWeek ==
  ASSUME OwnerShape, WeekInv, NEW t \in Txs, Flush(t) \/ Write(t) \/ WriteZone(t)
  PROVE  WeekInv'
<1>1. \A u \in Txs \ {t} : Bystander(u)
  BY FlushShape, WriteShape, WriteZoneShape
<1>2. /\ UNCHANGED <<hours, gone, unseen, patched>> /\ pc'[t] \in {"ready", "update"}
      /\ pc[t] \in {"read", "update"}
  BY DEF Flush, Write, WriteZone, layout, history, weekHistory, OwnerShape, SessionsTyped
<1>3. job'[t].kind = job[t].kind /\ job'[t].no = job[t].no
  <2>1. job' = job \/ \E f : job' = [job EXCEPT ![t].set = f]
    BY DEF Flush, Write, WriteZone
  <2>2. DOMAIN job = Txs /\ DOMAIN job[t] = {"kind", "set", "what", "no"}
    BY DEF OwnerShape, SessionsTyped, Job
  <2> QED
    BY <2>1, <2>2
<1>4. \A u \in Txs : Numbers(u)'
  BY <1>1, <1>2, <1>3, NumbersKept DEF WeekInv
<1>5. unseen'[t] = {}
  BY <1>2 DEF WeekInv, Replaces
<1> QED
  BY <1>1, <1>2, <1>4, <1>5, WeekKept DEF DaysHeld, Replaces

LEMMA StartClearWeek ==
  ASSUME OwnerShape, WeekInv, NEW t \in Txs, StartClear(t)
  PROVE  WeekInv'
<1>1. /\ \A u \in Txs \ {t} : Bystander(u)
      /\ gone'[t] = Present /\ todo'[t] = job[t].what /\ pc'[t] = "clear" /\ job'[t] = job[t]
  BY StartClearShape
<1>2. UNCHANGED <<hours, unseen, patched>> /\ pc[t] = "read"
  BY DEF StartClear, layout, history, weekHistory
<1>3. \A u \in Txs : Numbers(u)'
  BY <1>1, <1>2, NumbersKept DEF WeekInv
<1>4. Present' = Present /\ unseen'[t] = {}
  BY <1>2 DEF Present, Filled, WeekInv, Replaces
<1> QED
  BY <1>1, <1>2, <1>3, <1>4, WeekKept DEF DaysHeld, Replaces

LEMMA ClearWeek ==
  ASSUME OwnerShape, WeekInv, NEW t \in Txs, Clear(t)
  PROVE  WeekInv'
<1>1. /\ \A u \in Txs \ {t} : Bystander(u)
      /\ gone'[t] = {v \in gone[t] : hours[v[1]] = v[2]}
      /\ todo'[t] = todo[t] /\ pc'[t] = "insert" /\ job'[t] = job[t]
      /\ \A v \in gone'[t] : locks'[Day(v[1])] = t
  BY ClearShape
<1>2. UNCHANGED <<hours, unseen, patched>> /\ pc[t] = "clear"
  BY DEF Clear, layout, history, weekHistory
<1>3. \A u \in Txs : Numbers(u)'
  BY <1>1, <1>2, NumbersKept DEF WeekInv
<1>4. Present' = Present /\ \A v \in Present : hours[v[1]] = v[2]
  BY <1>2 DEF Present, Filled
<1>5. todo[t] = job[t].what
  BY <1>2 DEF WeekInv, DaysHeld
<1>6. DaysHeld(t)'
  BY <1>1, <1>5 DEF DaysHeld
<1>7. Replaces(t)'
  <2>1. Replaces(t)
    BY DEF WeekInv
  <2>2. unseen[t] = {} => gone'[t] = Present'
    BY <1>1, <1>2, <1>4, <2>1 DEF Replaces
  <2>3. unseen[t] \cap Deleted(t)' = {}
    BY <1>1, <1>2, <2>1 DEF Replaces, Deleted
  <2>4. Elements(job'[t].what) = Elements(todo'[t])
    BY <1>1, <1>5
  <2>5. \A d \in unseen'[t] : hours'[d] # 0
    BY <1>2, <2>1 DEF Replaces
  <2> QED
    BY <1>1, <1>2, <2>2, <2>3, <2>4, <2>5 DEF Replaces
<1> QED
  BY <1>1, <1>2, <1>3, <1>6, <1>7, WeekKept

LEMMA HeadAndTail ==
  ASSUME NEW S, NEW s \in Seq(S), s # <<>>
  PROVE  Elements(s) = {Head(s)} \cup Elements(Tail(s))
<1>1. /\ Len(s) \in Nat \ {0} /\ DOMAIN s = 1..Len(s)
      /\ Tail(s) \in Seq(S) /\ Len(Tail(s)) = Len(s) - 1 /\ Head(s) = s[1]
      /\ \A i \in 1..Len(s) - 1 : Tail(s)[i] = s[i + 1]
  BY HeadTailProperties, EmptySeq
<1>2. DOMAIN Tail(s) = 1..Len(s) - 1
  BY <1>1
<1>3. ASSUME NEW i \in DOMAIN s PROVE s[i] \in {Head(s)} \cup Elements(Tail(s))
  <2>1. CASE i = 1
    BY <1>1, <2>1
  <2>2. CASE i # 1
    <3>1. i - 1 \in DOMAIN Tail(s) /\ Tail(s)[i - 1] = s[i]
      BY <1>1, <1>2, <2>2
    <3> QED
      BY <3>1 DEF Elements
  <2> QED
    BY <2>1, <2>2
<1>4. Head(s) \in Elements(s)
  BY <1>1 DEF Elements
<1>5. ASSUME NEW i \in DOMAIN Tail(s) PROVE Tail(s)[i] \in Elements(s)
  <2>1. i + 1 \in DOMAIN s /\ Tail(s)[i] = s[i + 1]
    BY <1>1, <1>2
  <2> QED
    BY <2>1 DEF Elements
<1> QED
  BY <1>3, <1>4, <1>5 DEF Elements

LEMMA InsertDayWeek ==
  ASSUME OwnerShape, WeekInv, NEW t \in Txs, InsertDay(t)
  PROVE  WeekInv'
<1> DEFINE d == Head(todo[t])
<1>1. /\ \A u \in Txs \ {t} : Bystander(u)
      /\ todo[t] # <<>> /\ todo'[t] = Tail(todo[t]) /\ d \in Days
      /\ gone'[t] = gone[t] /\ pc'[t] = "insert" /\ pc[t] = "insert" /\ job'[t] = job[t]
      /\ hours[d] = 0 \/ d \in Deleted(t)
      /\ locks'[Day(d)] = t
      /\ \A x \in Things : locks[x] = t => locks'[x] = t
  BY InsertDayShape
<1>2. UNCHANGED <<hours, unseen, patched>>
  BY DEF InsertDay, layout, history, weekHistory
<1>3. \A u \in Txs : Numbers(u)'
  BY <1>1, <1>2, NumbersKept DEF WeekInv
<1>4. Elements(todo[t]) = {d} \cup Elements(todo'[t])
  BY <1>1, HeadAndTail DEF OwnerShape, SessionsTyped
<1> HIDE DEF d
<1>5. DaysHeld(t)'
  <2>1. DaysHeld(t) /\ Elements(job[t].what) \subseteq Days
    BY <1>1, HoursOnly, WeekDays DEF WeekInv
  <2>2. \A v \in gone[t] : locks'[Day(v[1])] = t
    <3>1. \A v \in gone[t] : v[1] \in Days
      BY DEF OwnerShape, SessionsTyped
    <3> QED
      BY <1>1, <2>1, <3>1, ThingsKinds DEF DaysHeld
  <2>3. \A e \in Elements(job[t].what) \ Elements(todo'[t]) : locks'[Day(e)] = t
    BY <1>1, <1>4, <2>1, ThingsKinds DEF DaysHeld
  <2> QED
    BY <1>1, <2>2, <2>3 DEF DaysHeld
<1>6. Replaces(t)'
  <2>1. Present' = Present /\ Deleted(t)' = Deleted(t)
    BY <1>1, <1>2 DEF Present, Filled, Deleted
  <2>2. Replaces(t)
    BY DEF WeekInv
  <2>3. d \notin unseen[t]
    BY <1>1, <2>2 DEF Replaces
  <2>4. unseen[t] \cap Elements(job[t].what) \subseteq Elements(todo'[t])
    BY <1>1, <1>4, <2>2, <2>3 DEF Replaces
  <2> QED
    BY <1>1, <1>2, <2>1, <2>2, <2>4 DEF Replaces
<1> QED
  BY <1>1, <1>2, <1>3, <1>5, <1>6, WeekKept

(* A replacement that commits unpatched deleted the whole week, so that    *)
(* the week is its own; it holds its days, so that whoever else is under   *)
(* way has not deleted or inserted any of them.                            *)
LEMMA CommitHoursWeek ==
  ASSUME OwnerShape, WeekInv, NEW t \in Txs, CommitHours(t)
  PROVE  WeekInv'
<1> DEFINE mine == Elements(job[t].what)
           n == job[t].no
<1>1. /\ pc[t] = "insert" /\ todo[t] = <<>> /\ Done(t)
      /\ \A d \in Days : hours'[d] = IF d \in mine THEN n ELSE IF d \in Deleted(t) THEN 0 ELSE hours[d]
      /\ patched' = (unseen[t] # {} /\ unseen[t] \cap mine = {})
      /\ unseen' = [u \in Txs |-> IF u = t THEN {}
                                  ELSE IF pc[u] \in {"clear", "insert"} THEN mine ELSE unseen[u]]
  BY DEF CommitHours
<1>2. \A u \in Txs \ {t} : Bystander(u)
  BY <1>1, DoneLeaves DEF OwnerShape
<1>3. pc'[t] = "idle" /\ job'[t] = NoJob /\ gone'[t] = {}
  BY <1>1 DEF Done, OwnerShape, SessionsTyped
<1>4. job[t].kind = "hours" /\ job[t].what \in Weeks /\ mine \subseteq Days /\ mine # {}
  BY <1>1, HoursOnly, WeekDays
<1>5. \A u \in Txs : Numbers(u)'
  BY <1>1, <1>2, <1>3, NumbersKept DEF WeekInv
<1>6. \A u \in Txs \ {t} : DaysHeld(u)'
  BY <1>2, BystanderHolds DEF WeekInv
<1>7. /\ DaysHeld(t) /\ Elements(todo[t]) = {} /\ n # 0
      /\ \A d \in mine : locks[Day(d)] = t
  BY <1>1, <1>4 DEF WeekInv, DaysHeld, Elements, Numbers
<1> HIDE DEF mine, n
<1>8. Replaces(t)
  BY DEF WeekInv
<1>9. OneWeek'
  <2>1. SUFFICES ASSUME ~patched' PROVE \A d, e \in Filled' : hours'[d] = hours'[e]
    BY DEF OneWeek
  <2>2. unseen[t] = {}
    <3>1. unseen[t] \cap mine = {}
      BY <1>1, <1>7, <1>8 DEF Replaces, mine
    <3> QED
      BY <1>1, <2>1, <3>1
  <2>3. gone[t] = Present
    BY <1>1, <1>8, <2>2 DEF Replaces
  <2>4. ASSUME NEW d \in Days, hours[d] # 0 PROVE d \in Deleted(t)
    <3>1. <<d, hours[d]>> \in gone[t] /\ <<d, hours[d]>>[1] = d
      BY <2>3, <2>4 DEF Present, Filled
    <3> QED
      BY <3>1 DEF Deleted
  <2>5. \A d \in Days : hours'[d] = IF d \in mine THEN n ELSE 0
    BY <1>1, <2>4
  <2> QED
    BY <2>5 DEF Filled
<1>10. ASSUME NEW u \in Txs \ {t} PROVE Replaces(u)'
  <2>1. /\ pc'[u] = pc[u] /\ gone'[u] = gone[u] /\ todo'[u] = todo[u] /\ job'[u] = job[u]
        /\ Replaces(u) /\ DaysHeld(u) /\ Deleted(u)' = Deleted(u)
    BY <1>2 DEF Bystander, WeekInv, Deleted
  <2>2. CASE pc[u] \notin {"clear", "insert"}
    <3>1. unseen'[u] = {}
      BY <1>1, <2>1, <2>2 DEF Replaces
    <3> QED
      BY <2>1, <2>2, <3>1 DEF Replaces
  <2>3. CASE pc[u] \in {"clear", "insert"}
    <3>1. unseen'[u] = mine /\ \A d \in mine : hours'[d] = n
      BY <1>1, <1>4, <2>3
    <3>2. \A v \in gone[u] : v[2] # n /\ v[1] \in Days
      <4>1. \A v \in gone[u] : v[2] # n
        BY <1>4 DEF WeekInv, Numbers, n
      <4> QED
        BY <4>1 DEF OwnerShape, SessionsTyped
    <3>3. ASSUME pc[u] = "insert" PROVE mine \cap Deleted(u) = {}
      <4>1. SUFFICES ASSUME NEW v \in gone[u], v[1] \in mine PROVE FALSE
        BY DEF Deleted
      <4>2. locks[Day(v[1])] = u /\ locks[Day(v[1])] = t
        BY <1>7, <2>1, <3>3, <4>1 DEF DaysHeld
      <4> QED
        BY <4>2
    <3>4. ASSUME pc[u] = "insert" PROVE mine \cap Elements(job[u].what) \subseteq Elements(todo[u])
      <4>1. SUFFICES ASSUME NEW d \in mine, d \in Elements(job[u].what) \ Elements(todo[u]) PROVE FALSE
        OBVIOUS
      <4>2. locks[Day(d)] = u /\ locks[Day(d)] = t
        BY <1>7, <2>1, <3>4, <4>1 DEF DaysHeld
      <4> QED
        BY <4>2
    <3> QED
      BY <1>4, <1>7, <2>1, <2>3, <3>1, <3>2, <3>3, <3>4 DEF Replaces
  <2> QED
    BY <2>2, <2>3
<1>11. unseen' \in [Txs -> SUBSET Days] /\ unseen'[t] = {}
  BY <1>1, <1>4 DEF WeekInv
<1> QED
  BY <1>3, <1>5, <1>6, <1>9, <1>10, <1>11 DEF WeekInv, DaysHeld, Replaces

(* A create brings no days or all of them, and nobody replaces any yet.    *)
LEMMA CommitWeek ==
  ASSUME OwnerShape, WeekInv, NEW t \in Txs, Commit(t)
  PROVE  WeekInv'
<1>1. OnRow(t) /\ pc[t] = "ready" /\ Done(t)
  BY DEF Commit
<1>2. CASE job[t].kind # "create"
  <2>1. UNCHANGED <<hours, unseen, patched>>
    BY <1>2 DEF Commit, layout, weekHistory
  <2> QED
    BY <1>1, <2>1, DoneWeek
<1>3. CASE job[t].kind = "create"
  <2>1. \A d \in Days : hours'[d] = IF d \in job[t].what[2] THEN job[t].no ELSE 0
    BY <1>3 DEF Commit
  <2>2. job[t].what[2] \in {{}, Days} /\ ~Exists
    BY <1>1, <1>3 DEF OwnerShape, Job, Owns
  <2>3. \A u \in Txs \ {t} : Bystander(u)
    BY <1>1, DoneLeaves DEF OwnerShape
  <2>4. pc'[t] = "idle" /\ job'[t] = NoJob /\ gone'[t] = {}
    BY <1>1 DEF Done, OwnerShape, SessionsTyped
  <2>5. \A u \in Txs : Numbers(u)'
    BY <2>1, <2>3, <2>4, NumbersKept DEF WeekInv
  <2>6. \A u \in Txs : pc[u] \notin {"clear", "insert"} /\ pc'[u] \notin {"clear", "insert"}
    <3>1. \A u \in Txs : job[u].kind # "hours"
      BY <2>2 DEF OwnerShape, Owns
    <3>2. \A u \in Txs : pc[u] \notin {"clear", "insert"}
      BY <3>1, HoursOnly
    <3> QED
      BY <1>1, <2>3, <2>4, <3>2 DEF Bystander
  <2>7. OneWeek'
    <3>1. Filled' \in {{}, Days} /\ \A d, e \in Filled' : hours'[d] = hours'[e]
      BY <2>1, <2>2 DEF Filled
    <3> QED
      BY <3>1 DEF OneWeek
  <2>8. unseen' = unseen /\ \A u \in Txs : unseen[u] = {}
    BY <2>6 DEF Commit, weekHistory, WeekInv, Replaces
  <2> QED
    BY <2>5, <2>6, <2>7, <2>8 DEF WeekInv, DaysHeld, Replaces
<1> QED
  BY <1>2, <1>3

LEMMA InitWeek == OwnerInit => WeekInv
<1> SUFFICES ASSUME OwnerInit PROVE WeekInv
  OBVIOUS
<1>1. \A t \in Txs : pc[t] = "idle" /\ job[t].kind = "none" /\ gone[t] = {}
  BY DEF OwnerInit, NoJob
<1>2. (\A d \in Days : hours[d] = 0) \/ (\A d \in Days : hours[d] = 1)
  BY DEF OwnerInit
<1>3. OneWeek
  <2>1. \A d, e \in Filled : hours[d] = hours[e]
    BY <1>2 DEF Filled
  <2> QED
    BY <2>1 DEF OneWeek
<1>4. unseen = [t \in Txs |-> {}]
  BY DEF OwnerInit
<1> QED
  BY <1>1, <1>3, <1>4 DEF WeekInv, Numbers, DaysHeld, Replaces

LEMMA StepWeek == OwnerShape /\ WeekInv /\ [OwnerNext]_ownerVars => WeekInv'
<1> SUFFICES ASSUME OwnerShape, WeekInv, [OwnerNext]_ownerVars PROVE WeekInv'
  OBVIOUS
<1>1. CASE UNCHANGED ownerVars
  <2>1. UNCHANGED <<hours, locks, pc, job, gone, todo, unseen, patched>>
    BY <1>1 DEF ownerVars, layout, tx, history, weekHistory
  <2>2. Filled' = Filled /\ Present' = Present
    BY <2>1 DEF Filled, Present
  <2>3. ASSUME NEW t \in Txs PROVE Numbers(t)' /\ DaysHeld(t)' /\ Replaces(t)'
    BY <2>1, <2>2 DEF WeekInv, Numbers, DaysHeld, Replaces, Deleted
  <2>4. OneWeek'
    BY <2>1, <2>2 DEF WeekInv, OneWeek
  <2> QED
    BY <2>1, <2>3, <2>4 DEF WeekInv
<1>2. ASSUME NEW t \in Txs, Arrives(t) PROVE WeekInv'
  BY <1>2, ArrivesFits, BeginWeek
<1>3. ASSUME NEW t \in Txs, Rollback(t) \/ CommitZone(t) PROVE WeekInv'
  BY <1>3, DoneWeek DEF Rollback, CommitZone, layout, weekHistory
<1> QED
  BY <1>1, <1>2, <1>3, Steppers, ElsewhereWeek, CommitWeek, StartClearWeek, ClearWeek, InsertDayWeek,
     CommitHoursWeek

(* "Replaces the whole week at once": whichever schedules clients send and *)
(* however many replacements overlap, the committed week is the work of    *)
(* one request, unless the last to commit shares no day with a week        *)
(* committed since its DELETE.                                             *)
THEOREM WeekAlwaysWhole == OwnerSpec => []WholeWeek
<1>1. OwnerSpec => []WeekInv
  BY InitWeek, StepWeek, AlwaysInShape, PTL DEF OwnerSpec
<1>2. OwnerShape /\ WeekInv => WholeWeek
  <2> DEFINE V == {hours[d] : d \in Days} \ {0}
  <2> SUFFICES ASSUME OwnerShape, WeekInv, ~patched PROVE Cardinality(V) <= 1
    BY DEF WholeWeek
  <2>1. \A v, w \in V : v = w
    BY DEF WeekInv, OneWeek, Filled
  <2>2. CASE V = {}
    BY <2>2, FS_EmptySet
  <2>3. CASE V # {}
    <3>1. PICK v \in V : V = {v}
      BY <2>1, <2>3
    <3> QED
      <4>1. Cardinality({v}) = 1
        BY FS_Singleton
      <4> HIDE DEF V
      <4> QED
        BY <3>1, <4>1
  <2> QED
    BY <2>2, <2>3
<1> QED
  BY <1>1, <1>2, AlwaysInShape, PTL
-----------------------------------------------------------------------------
(* The replicas watch: every step is a step of the owner or none.          *)
LEMMA ReplicasWatch == ReplicasSpec => OwnerSpec
<1>1. ReplicasInit => OwnerInit
  BY DEF ReplicasInit
<1>2. [ReplicasNext]_allVars => [OwnerNext]_ownerVars
  BY DEF ReplicasNext, allVars, OwnerStep, Deliver, Drop, DeliverLate, Ask, Assign, AssignFails,
         Unassign, IdentityDelivers, IdentityDrops, IdentityDeliversLate
<1> QED
  BY <1>1, <1>2, PTL DEF ReplicasSpec, OwnerSpec

LEMMA AlwaysPublished == ReplicasSpec => [](OwnerShape /\ Published)
<1>1. OwnerSpec => []Published
  BY InitPublished, StepPublished, AlwaysInShape, PTL DEF OwnerSpec
<1> QED
  BY <1>1, AlwaysInShape, ReplicasWatch, PTL

COROLLARY WeekWholeForReplicas == ReplicasSpec => []WholeWeek
  BY WeekAlwaysWhole, ReplicasWatch, PTL

(* Only a commit publishes, and only at the end of the log.                *)
Publishes(t) ==
  /\ log' = Append(log, Snapshot(t))
  /\ Len(log') = Len(log) + 1
  /\ \A i \in 1..Len(log) : log'[i] = log[i]
  /\ log'[Len(log) + 1].type = "delete" <=> job[t].kind = "delete"
  /\ job[t].kind # "delete" /\ Exists' /\ row'.deleted => Exists /\ row.deleted

LEMMA CommitPublishes ==
  ASSUME OwnerShape, NEW t \in Txs, Commit(t) PROVE Publishes(t)
<1>1. /\ row' = IF locks[RowItem] = t THEN Written(row, copy[t], job[t].set) ELSE row
      /\ log' = Append(log, Snapshot(t)) /\ Snapshot(t).type = job[t].kind
  BY CommitTables
<1>2. OnRow(t) /\ pc[t] = "ready"
  BY DEF Commit
<1>3. Job(t) /\ Owns(t) /\ SetsRow(job[t].set) /\ copy[t] \in Rows /\ row \in Rows
  BY <1>2 DEF OwnerShape, Job, SessionsTyped, TablesTyped
<1>4. log \in Seq(Events)
  BY DEF OwnerShape, TablesTyped
<1>5. /\ Len(log') = Len(log) + 1 /\ log'[Len(log) + 1] = Snapshot(t)
      /\ \A i \in 1..Len(log) : log'[i] = log[i]
  BY <1>1, <1>4
<1>6. ASSUME job[t].kind # "delete", Exists', row'.deleted PROVE Exists /\ row.deleted
  <2>1. CASE locks[RowItem] # t
    BY <1>1, <1>6, <2>1 DEF Exists
  <2>2. CASE locks[RowItem] = t
    <3>1. row'.deleted = IF "deleted" \in DOMAIN job[t].set THEN copy[t].deleted ELSE row.deleted
      <4>1. row' = Written(row, copy[t], job[t].set)
        BY <1>1, <2>2
      <4>2. Written(row, copy[t], job[t].set).deleted
              = IF "deleted" \in DOMAIN job[t].set THEN copy[t].deleted ELSE row.deleted
        BY <1>3, WrittenRow
      <4> QED
        BY <4>1, <4>2
    <3>2. "deleted" \notin DOMAIN job[t].set
      <4>1. SUFFICES ASSUME "deleted" \in DOMAIN job[t].set PROVE FALSE
        OBVIOUS
      <4>2. copy[t]["deleted"] = job[t].set["deleted"] /\ ~job[t].set["deleted"]
        BY <1>2, <1>3, <1>6, <4>1 DEF Job, Owns
      <4> QED
        BY <1>6, <3>1, <4>1, <4>2
    <3>3. job[t].kind # "create" /\ job[t].kind # "none"
      BY <1>2, <1>3, <3>2 DEF Job, OnRow, RowKinds
    <3> QED
      BY <1>3, <1>6, <3>1, <3>2, <3>3 DEF Owns
  <2> QED
    BY <2>1, <2>2
<1> QED
  BY <1>1, <1>5, <1>6 DEF Publishes

LEMMA OwnerPublishes ==
  ASSUME OwnerShape, OwnerNext
  PROVE  UNCHANGED <<row, log, torn>> \/ \E t \in Txs : Publishes(t)
<1>1. PICK t \in Txs :
        \/ Arrives(t) \/ Flush(t) \/ Write(t) \/ Commit(t)
        \/ WriteZone(t) \/ CommitZone(t)
        \/ StartClear(t) \/ Clear(t) \/ InsertDay(t) \/ CommitHours(t)
        \/ Rollback(t)
  BY Steppers
<1>2. CASE Arrives(t)
  BY <1>2, ArrivesFits DEF Begin
<1>3. CASE Commit(t)
  BY <1>3, CommitPublishes
<1>4. CASE ~Arrives(t) /\ ~Commit(t)
  BY <1>1, <1>4 DEF Flush, Write, WriteZone, CommitZone, StartClear, Clear, InsertDay, CommitHours,
     Rollback, layout, history
<1> QED
  BY <1>2, <1>3, <1>4

Below == {ss \in Nat \X Nat : ss[1] < ss[2]}

LEMMA FirstDeletion ==
  ASSUME OwnerShape, idPos \in 0..Len(log), Deletions # {}
  PROVE  First(Deletions) \in idPos + 1..Len(log)
<1>1. Deletions \subseteq 1..Len(log) /\ 1..Len(log) \subseteq Nat
  BY DEF Deletions, OwnerShape, TablesTyped
<1>2. IsWellFoundedOn(Below, Nat)
  BY NatLessThanWellFounded DEF Below, OpToRel
<1>3. PICK i \in Deletions : \A j \in Deletions : ~(<<j, i>> \in Below)
  BY <1>1, <1>2, WFMin
<1>4. \A j \in Deletions : i \in Nat /\ j \in Nat /\ ~(j < i)
  <2> SUFFICES ASSUME NEW j \in Deletions PROVE i \in Nat /\ j \in Nat /\ ~(j < i)
    OBVIOUS
  <2>1. i \in Nat /\ j \in Nat
    BY <1>1
  <2> QED
    BY <1>3, <2>1 DEF Below
<1>5. \A j \in Deletions : i <= j
  BY <1>4
<1>6. First(Deletions) \in Deletions
  BY <1>5 DEF First
<1> QED
  BY <1>6 DEF Deletions

LEMMA OwnerReplicas ==
  ASSUME OwnerShape, Published, ReplicasInv, OwnerStep PROVE ReplicasInv'
<1>1. UNCHANGED <<pos, ref, late, idPos, idLate, scoped, asking, raced>>
  BY DEF OwnerStep, replicaVars, scopeVars
<1>2. CASE UNCHANGED <<row, log, torn>>
  <2>1. Deletions' = Deletions
    BY <1>1, <1>2 DEF Deletions
  <2>2. NoGhost'
    BY <1>1, <1>2, <2>1 DEF ReplicasInv, NoGhost, Exists
  <2>3. \A r \in Replicas : Copied(r)'
    BY <1>1, <1>2 DEF ReplicasInv, Copied
  <2> QED
    BY <1>1, <1>2, <2>2, <2>3 DEF ReplicasInv
<1>3. ASSUME NEW t \in Txs, Publishes(t) PROVE ReplicasInv'
  <2>1. /\ Len(log) \in Nat /\ Len(log') = Len(log) + 1
        /\ \A i \in 1..Len(log) : log'[i] = log[i]
    BY <1>3 DEF Publishes, OwnerShape, TablesTyped
  <2>2. ASSUME NEW r \in Replicas PROVE Copied(r)'
    <3>1. pos[r] \in 0..Len(log) /\ Copied(r)
      BY DEF ReplicasInv
    <3>2. pos'[r] # Len(log')
      BY <1>1, <2>1, <3>1
    <3>3. ref'[r] = NoRow \/ \E i \in 1..pos'[r] : ref'[r] = log'[i].snapshot
      BY <1>1, <2>1, <3>1 DEF Copied
    <3> QED
      BY <1>1, <3>1, <3>2, <3>3 DEF Copied
  <2>3. NoGhost'
    <3>1. SUFFICES ASSUME Exists', row'.deleted, Deletions' = {}, idPos \notin idLate
                   PROVE  asking \cup scoped \subseteq raced
      BY <1>1 DEF NoGhost
    <3>2. idPos \in 0..Len(log)
      BY DEF ReplicasInv
    <3>3. job[t].kind # "delete"
      <4>1. SUFFICES ASSUME job[t].kind = "delete" PROVE Len(log) + 1 \in Deletions'
        BY <3>1
      <4>2. Len(log) + 1 \in idPos + 1..Len(log) + 1
        BY <2>1, <3>2
      <4> QED
        BY <1>1, <1>3, <2>1, <4>1, <4>2 DEF Deletions, Publishes
    <3>4. Exists /\ row.deleted
      BY <1>3, <3>1, <3>3 DEF Publishes
    <3>5. Deletions = {}
      <4>1. SUFFICES ASSUME NEW i \in Deletions PROVE i \in Deletions'
        BY <3>1
      <4>2. i \in idPos + 1..Len(log) /\ log[i].type = "delete"
        BY DEF Deletions
      <4>3. i \in 1..Len(log) /\ i \in idPos + 1..Len(log) + 1
        BY <2>1, <3>2, <4>2
      <4> QED
        BY <1>1, <2>1, <4>2, <4>3 DEF Deletions
    <3> QED
      BY <3>1, <3>4, <3>5 DEF ReplicasInv, NoGhost
  <2>4. /\ pos' \in [Replicas -> 0..Len(log')] /\ idPos' \in 0..Len(log')
        /\ late' \in [Replicas -> SUBSET (1..Len(log'))]
    BY <1>1, <2>1 DEF ReplicasInv
  <2> QED
    BY <1>1, <2>2, <2>3, <2>4 DEF ReplicasInv
<1> QED
  BY <1>2, <1>3, OwnerPublishes DEF OwnerStep

(* What a handler that applies event i, past the first n, leaves behind:   *)
(* a snapshot of them, and the row if i is the last or the copy was it.    *)
LEMMA UpsertDoes ==
  ASSUME OwnerShape, Published, ReplicasInv, NEW r \in Replicas,
         NEW n \in 0..Len(log), pos[r] <= n, NEW i \in 1..n
  PROVE  LET held == Upsert(ref[r], log[i].snapshot)
         IN /\ held \in Rows
            /\ held = NoRow \/ \E j \in 1..n : held = log[j].snapshot
            /\ ~torn /\ (i = Len(log) \/ ref[r] = row) => held = row
<1> DEFINE s == log[i].snapshot
           held == Upsert(ref[r], s)
<1>1. /\ Len(log) \in Nat /\ DOMAIN log = 1..Len(log) /\ pos[r] \in 0..Len(log)
      /\ ref[r] \in Rows /\ Copied(r)
  BY DEF ReplicasInv, OwnerShape, TablesTyped
<1>2. i \in DOMAIN log /\ s \in Rows /\ s.stamp \in Nat
  BY <1>1, LogStamps
<1>3. ref[r].stamp \in Nat /\ row.stamp \in Nat
  BY <1>1, RowColumns, RequestsPositive DEF OwnerShape, TablesTyped
<1>4. ref[r] = NoRow \/ \E j \in 1..n : ref[r] = log[j].snapshot
  <2>1. \A j \in 1..pos[r] : j \in 1..n
    BY <1>1
  <2> QED
    BY <1>1, <2>1 DEF Copied
<1>5. held = IF ref[r].stamp = 0 \/ ref[r].stamp <= s.stamp THEN s ELSE ref[r]
  BY DEF Upsert
<1>6. ASSUME ~torn PROVE NotAfter(s, row) /\ (i = Len(log) => s = row)
  <2>1. log # <<>>
    BY <1>1, <1>2
  <2>2. log[Len(log)].snapshot = row /\ NotAfter(log[i].snapshot, row)
    BY <1>2, <1>6, <2>1 DEF Published, Told
  <2> QED
    BY <2>2
<1>7. ASSUME ~torn PROVE ref[r] = NoRow \/ NotAfter(ref[r], row)
  <2>1. \A j \in 1..n : j \in DOMAIN log
    BY <1>1
  <2> QED
    BY <1>1, <1>2, <1>4, <1>7, <2>1, EmptySeq DEF Published, Told
<1> HIDE DEF s, held
<1>8. held \in Rows /\ (held = NoRow \/ \E j \in 1..n : held = log[j].snapshot)
  <2>1. held = s \/ held = ref[r]
    BY <1>5
  <2> QED
    BY <1>1, <1>2, <1>4, <2>1 DEF s
<1>9. ASSUME ~torn, i = Len(log) PROVE held = row
  <2>1. s = row
    BY <1>6, <1>9
  <2>2. ref[r].stamp = 0 \/ ref[r].stamp <= s.stamp
    BY <1>7, <1>9, <2>1, NothingTyped DEF NotAfter
  <2> QED
    BY <1>5, <2>1, <2>2
<1>10. ASSUME ~torn, ref[r] = row PROVE held = row
  <2>1. CASE held = s
    <3>1. s.stamp <= row.stamp /\ (s.stamp = row.stamp => s = row)
      BY <1>6, <1>10 DEF NotAfter
    <3>2. CASE row.stamp = 0
      BY <1>2, <2>1, <3>1, <3>2
    <3>3. CASE row.stamp # 0
      BY <1>2, <1>3, <1>5, <1>10, <2>1, <3>1, <3>3
    <3> QED
      BY <3>2, <3>3
  <2>2. CASE held # s
    BY <1>5, <1>10, <2>2
  <2> QED
    BY <2>1, <2>2
<1> QED
  BY <1>8, <1>9, <1>10 DEF held, s

(* A step of one replica, past the events up to its new place.             *)
LEMMA ReplicaReplicas ==
  ASSUME OwnerShape, ReplicasInv, NEW r \in Replicas, UNCHANGED <<ownerVars, scopeVars>>,
         NEW n \in 0..Len(log), pos' = [pos EXCEPT ![r] = n],
         NEW L, late' = [late EXCEPT ![r] = L], L \subseteq 1..n,
         NEW held \in Rows, ref' = [ref EXCEPT ![r] = held],
         held = NoRow \/ \E j \in 1..n : held = log[j].snapshot,
         n = Len(log) /\ n \notin L /\ ~torn => held = row
  PROVE  ReplicasInv'
<1>1. UNCHANGED <<row, log, torn, idPos, idLate, scoped, asking, raced>>
  BY DEF ownerVars, scopeVars, history
<1>2. pos'[r] = n /\ late'[r] = L /\ ref'[r] = held
  BY DEF ReplicasInv
<1>3. Copied(r)'
  BY <1>1, <1>2 DEF Copied
<1>4. ASSUME NEW q \in Replicas \ {r} PROVE Copied(q)'
  BY <1>1 DEF ReplicasInv, Copied
<1>5. NoGhost'
  BY <1>1 DEF ReplicasInv, NoGhost, Exists, Deletions
<1>6. Len(log) \in Nat /\ L \subseteq 1..Len(log)
  BY DEF OwnerShape, TablesTyped
<1>7. /\ pos' \in [Replicas -> 0..Len(log')] /\ ref' \in [Replicas -> Rows]
      /\ late' \in [Replicas -> SUBSET (1..Len(log'))]
  BY <1>1, <1>6 DEF ReplicasInv
<1> QED
  BY <1>1, <1>3, <1>4, <1>5, <1>7 DEF ReplicasInv

LEMMA DeliverReplicas ==
  ASSUME OwnerShape, Published, ReplicasInv, NEW r \in Replicas, Deliver(r) PROVE ReplicasInv'
<1> DEFINE n == pos[r] + 1
           held == Upsert(ref[r], log[n].snapshot)
<1>1. /\ pos[r] < Len(log) /\ ref' = [ref EXCEPT ![r] = held] /\ pos' = [pos EXCEPT ![r] = n]
      /\ late' = late /\ UNCHANGED <<ownerVars, scopeVars>>
  BY DEF Deliver
<1>2. /\ pos[r] \in 0..Len(log) /\ Len(log) \in Nat /\ late[r] \subseteq 1..pos[r]
      /\ late = [late EXCEPT ![r] = late[r]]
  BY DEF ReplicasInv, Copied, OwnerShape, TablesTyped
<1>3. n \in 0..Len(log) /\ pos[r] <= n /\ n \in 1..n /\ late[r] \subseteq 1..n
  BY <1>1, <1>2
<1> HIDE DEF n
<1>4. /\ held \in Rows /\ (held = NoRow \/ \E j \in 1..n : held = log[j].snapshot)
      /\ ~torn /\ n = Len(log) => held = row
  BY <1>3, UpsertDoes
<1> HIDE DEF held
<1> QED
  BY <1>1, <1>2, <1>3, <1>4, ReplicaReplicas

LEMMA DropReplicas ==
  ASSUME OwnerShape, ReplicasInv, NEW r \in Replicas, Drop(r) PROVE ReplicasInv'
<1> DEFINE n == pos[r] + 1
           L == late[r] \cup {n}
<1>1. /\ pos[r] < Len(log) /\ pos' = [pos EXCEPT ![r] = n]
      /\ late' = [late EXCEPT ![r] = late[r] \cup {pos'[r]}]
      /\ ref' = ref /\ UNCHANGED <<ownerVars, scopeVars>>
  BY DEF Drop
<1>2. /\ pos[r] \in 0..Len(log) /\ Len(log) \in Nat /\ Copied(r) /\ late[r] \subseteq 1..pos[r]
      /\ ref = [ref EXCEPT ![r] = ref[r]] /\ ref[r] \in Rows /\ pos \in [Replicas -> 0..Len(log)]
  BY DEF ReplicasInv, Copied, OwnerShape, TablesTyped
<1>3. /\ n \in 0..Len(log) /\ L \subseteq 1..n /\ n \in L
      /\ \A j \in 1..pos[r] : j \in 1..n
  BY <1>1, <1>2
<1>4. late' = [late EXCEPT ![r] = L]
  BY <1>1, <1>2
<1>5. ref[r] = NoRow \/ \E j \in 1..n : ref[r] = log[j].snapshot
  BY <1>2, <1>3 DEF Copied
<1>6. ref' = [ref EXCEPT ![r] = ref[r]]
  BY <1>1, <1>2
<1> HIDE DEF n, L
<1>7. n = Len(log) /\ n \notin L /\ ~torn => ref[r] = row
  BY <1>3
<1> DEFINE held == ref[r]
<1>8. held \in Rows /\ ref' = [ref EXCEPT ![r] = held]
  BY <1>2, <1>6
<1>9. UNCHANGED <<ownerVars, scopeVars>> /\ pos' = [pos EXCEPT ![r] = n]
  BY <1>1
<1> HIDE DEF held
<1> QED
  BY <1>3, <1>4, <1>5, <1>7, <1>8, <1>9, ReplicaReplicas DEF held

LEMMA LateReplicas ==
  ASSUME OwnerShape, Published, ReplicasInv, NEW r \in Replicas, DeliverLate(r) PROVE ReplicasInv'
<1>1. PICK i \in late[r] :
        /\ ref' = [ref EXCEPT ![r] = Upsert(ref[r], log[i].snapshot)]
        /\ late' = [late EXCEPT ![r] = late[r] \ {i}]
        /\ UNCHANGED <<ownerVars, pos, scopeVars>>
  BY DEF DeliverLate
<1> DEFINE held == Upsert(ref[r], log[i].snapshot)
<1>2. /\ pos[r] \in 0..Len(log) /\ Len(log) \in Nat /\ late[r] \subseteq 1..pos[r] /\ Copied(r)
      /\ pos = [pos EXCEPT ![r] = pos[r]]
  BY DEF ReplicasInv, Copied, OwnerShape, TablesTyped
<1>3. i \in 1..pos[r] /\ pos[r] <= pos[r] /\ late[r] \ {i} \subseteq 1..pos[r]
  BY <1>1, <1>2
<1>4. /\ held \in Rows /\ (held = NoRow \/ \E j \in 1..pos[r] : held = log[j].snapshot)
      /\ ~torn /\ (i = Len(log) \/ ref[r] = row) => held = row
  BY <1>2, <1>3, UpsertDoes
<1>5. ASSUME pos[r] = Len(log), pos[r] \notin late[r] \ {i}, ~torn PROVE held = row
  <2>1. i = Len(log) \/ pos[r] \notin late[r]
    BY <1>5
  <2>2. pos[r] \notin late[r] => ref[r] = row
    BY <1>2, <1>5 DEF Copied
  <2> QED
    BY <1>4, <1>5, <2>1, <2>2
<1> HIDE DEF held
<1> QED
  BY <1>1, <1>2, <1>3, <1>4, <1>5, ReplicaReplicas DEF held

(* Identity and its operators.                                             *)
ScopeKept ==
  /\ idPos' \in 0..Len(log) /\ idLate' \subseteq 1..idPos'
  /\ scoped' \subseteq Operators /\ asking' \subseteq Operators \ scoped'
  /\ NoGhost'

LEMMA ScopeReplicas ==
  ASSUME ReplicasInv, UNCHANGED <<row, log, torn, pos, ref, late>>, ScopeKept
  PROVE  ReplicasInv'
  BY DEF ReplicasInv, Copied, ScopeKept

LEMMA OperatorReplicas ==
  ASSUME OwnerShape, ReplicasInv, NEW u \in Operators,
         Ask(u) \/ Assign(u) \/ AssignFails(u) \/ Unassign(u)
  PROVE  ReplicasInv'
<1>1. UNCHANGED <<row, log, torn, pos, ref, late, idPos, idLate>>
  BY DEF Ask, Assign, AssignFails, Unassign, ownerVars, replicaVars, history
<1>2. Deletions' = Deletions /\ (Exists' <=> Exists)
  BY <1>1 DEF Deletions, Exists
<1>3. CASE Ask(u)
  <2>1. NoGhost'
    BY <1>1, <1>2, <1>3 DEF Ask, Live, NoGhost
  <2> QED
    BY <1>1, <1>3, <2>1, ScopeReplicas DEF Ask, ScopeKept, ReplicasInv
<1>4. CASE Assign(u)
  <2>1. asking' \cup scoped' = asking \cup scoped /\ raced' = raced
    BY <1>4 DEF Assign
  <2>2. NoGhost'
    BY <1>1, <1>2, <2>1 DEF ReplicasInv, NoGhost
  <2> QED
    BY <1>1, <1>4, <2>2, ScopeReplicas DEF Assign, ScopeKept, ReplicasInv
<1>5. CASE AssignFails(u) \/ Unassign(u)
  <2>1. asking' \cup scoped' = (asking \cup scoped) \ {u} /\ raced' = raced \ {u}
    BY <1>5 DEF AssignFails, Unassign, ReplicasInv
  <2>2. NoGhost'
    BY <1>1, <1>2, <2>1 DEF ReplicasInv, NoGhost
  <2> QED
    BY <1>1, <1>5, <2>2, ScopeReplicas DEF AssignFails, Unassign, ScopeKept, ReplicasInv
<1> QED
  BY <1>3, <1>4, <1>5

LEMMA IdentityReplicas ==
  ASSUME OwnerShape, ReplicasInv, IdentityDelivers \/ IdentityDrops
  PROVE  ReplicasInv'
<1>1. UNCHANGED <<row, log, torn, pos, ref, late, asking>> /\ Deletions # {} /\ idPos' = First(Deletions)
  BY DEF IdentityDelivers, IdentityDrops, ownerVars, replicaVars, history
<1>2. idPos' \in idPos + 1..Len(log) /\ idPos \in 0..Len(log) /\ idLate \subseteq 1..idPos /\ Len(log) \in Nat
  BY <1>1, FirstDeletion DEF ReplicasInv, OwnerShape, TablesTyped
<1>3. idPos' \in 0..Len(log) /\ idPos' \in 1..idPos' /\ idLate \subseteq 1..idPos'
  BY <1>2
<1>4. idLate' \subseteq 1..idPos'
  BY <1>3 DEF IdentityDelivers, IdentityDrops
<1>5. scoped' \subseteq scoped /\ NoGhost'
  BY DEF IdentityDelivers, IdentityDrops, Unscope, NoGhost
<1> QED
  BY <1>1, <1>3, <1>4, <1>5, ScopeReplicas DEF ScopeKept, ReplicasInv

LEMMA IdentityLateReplicas ==
  ASSUME OwnerShape, ReplicasInv, IdentityDeliversLate PROVE ReplicasInv'
<1>1. UNCHANGED <<row, log, torn, pos, ref, late, idPos, asking>> /\ idLate' \subseteq idLate /\ Unscope
  BY DEF IdentityDeliversLate, ownerVars, replicaVars, history
<1>2. NoGhost'
  BY <1>1 DEF Unscope, NoGhost
<1> QED
  BY <1>1, <1>2, ScopeReplicas DEF Unscope, ScopeKept, ReplicasInv

LEMMA InitReplicas == ReplicasInit => ReplicasInv
<1> SUFFICES ASSUME ReplicasInit PROVE ReplicasInv
  OBVIOUS
<1>1. OwnerShape /\ Published
  BY InitShape, InitPublished DEF ReplicasInit
<1>2. Len(log) \in Nat
  BY <1>1 DEF OwnerShape, TablesTyped
<1>3. ASSUME NEW r \in Replicas PROVE Copied(r)
  <2>1. Len(log) = 0 => row = NoRow
    BY <1>1, EmptySeq DEF Published, Told, OwnerShape, TablesTyped
  <2> QED
    BY <2>1 DEF Copied, ReplicasInit
<1>4. NoGhost
  BY DEF NoGhost, ReplicasInit
<1> QED
  BY <1>2, <1>3, <1>4, NothingTyped DEF ReplicasInv, ReplicasInit

LEMMA StepReplicas == OwnerShape /\ Published /\ ReplicasInv /\ [ReplicasNext]_allVars => ReplicasInv'
<1> SUFFICES ASSUME OwnerShape, Published, ReplicasInv, [ReplicasNext]_allVars PROVE ReplicasInv'
  OBVIOUS
<1>1. CASE UNCHANGED allVars
  BY <1>1, ScopeReplicas DEF allVars, ownerVars, replicaVars, scopeVars, history, ScopeKept, ReplicasInv,
     NoGhost, Deletions, Exists
<1> QED
  BY <1>1, OwnerReplicas, DeliverReplicas, DropReplicas, LateReplicas, OperatorReplicas, IdentityReplicas,
     IdentityLateReplicas DEF ReplicasNext

LEMMA AlwaysReplicas == ReplicasSpec => [](OwnerShape /\ Published /\ ReplicasInv)
  BY InitReplicas, StepReplicas, AlwaysPublished, PTL DEF ReplicasSpec

(* The owner's tables, its sessions, the copies and the scopes keep their  *)
(* types: stamps are bounded, locks are held by requests at work.          *)
THEOREM ReplicasTypesHold == ReplicasSpec => []ReplicasTypeOK
<1>1. OwnerShape => OwnerTypeOK
  <2> SUFFICES ASSUME OwnerShape PROVE OwnerTypeOK
    OBVIOUS
  <2>1. clock \in 0..requests /\ requests \in 0..MaxRequests
    <3>1. Cardinality(Reading) \in Nat
      BY FS_CardinalityType DEF OwnerShape, StampsCounted
    <3> QED
      BY <3>1 DEF OwnerShape, StampsCounted, TablesTyped
  <2>2. hours \in [Days -> 0..MaxRequests]
    BY <2>1, RequestsPositive DEF OwnerShape, TablesTyped
  <2>3. \A x \in Things : locks[x] # Nobody => locks[x] \in Txs /\ pc[locks[x]] # "idle"
    BY DEF OwnerShape, SessionsTyped, LocksHeld
  <2>4. \A t \in Txs : job[t].kind \in Kinds \cup {"none"} /\ job[t].no \in 0..requests
    BY DEF OwnerShape, Job
  <2> QED
    BY <2>1, <2>2, <2>3, <2>4 DEF OwnerShape, TablesTyped, SessionsTyped, Zones, OwnerTypeOK
<1>2. OwnerShape /\ ReplicasInv => ReplicasTypeOK
  BY <1>1 DEF ReplicasInv, ReplicasTypeOK
<1> QED
  BY <1>2, AlwaysReplicas, PTL

(* "Each carries the warehouse's full public snapshot": a replica past all *)
(* events that has applied the last one holds the owner's row, whatever    *)
(* overlapped, was given up, was applied late or is yet to be, once a      *)
(* change that ran alone is among them.                                    *)
THEOREM AlwaysInStep == ReplicasSpec => []InStep
<1>1. ReplicasInv => InStep
  BY DEF ReplicasInv, Copied, InStep, Operational, Exists
<1> QED
  BY <1>1, AlwaysReplicas, PTL

(* "The assignment is removed when a warehouse.deleted event arrives": no  *)
(* operator stays scoped to a deleted warehouse whose last deletion was    *)
(* handled, but one whose assignment was between its question and its      *)
(* INSERT when that event, or an earlier one late, was handled.            *)
THEOREM NeverGhostScope == ReplicasSpec => []NoGhostScope
<1>1. ReplicasInv => NoGhostScope
  BY DEF ReplicasInv, NoGhost, NoGhostScope
<1> QED
  BY <1>1, AlwaysReplicas, PTL
===============================================================================
