----------------------------- MODULE Warehouses -----------------------------
(***************************************************************************)
(* The Warehouse service, for one warehouse: its row, its zones and its    *)
(* week of operating hours, and the snapshots it publishes.                *)
(*                                                                         *)
(* Handlers read the warehouse without a lock.  A flush computes           *)
(* updated_at in Python, writes the columns that changed (and waits for    *)
(* the row lock to do so), and emit copies the session's own, possibly     *)
(* outdated object into the event: the row, its updated_at and the order   *)
(* of the snapshots can disagree when two requests overlap.                *)
(***************************************************************************)
EXTENDS Integers, Sequences, FiniteSets

CONSTANTS
  Txs,          \* requests in progress: one database session each
  Nobody,
  Names,        \* values of the columns update may write
  Codes,        \* zone codes
  Days,
  Weeks,        \* schedules clients send: sequences of distinct days
  Workloads,    \* sets of kinds of requests; a behaviour has one of them
  MaxRequests   \* bound on requests

Kinds == {"create", "update", "status", "delete", "restore",
          "add zone", "update zone", "delete zone", "hours"}

ASSUME NobodyIsNoTx == Nobody \notin Txs
ASSUME WorkloadKinds == Workloads \subseteq SUBSET Kinds
ASSUME RequestsPositive == MaxRequests \in Nat \ {0}
ASSUME NamesGiven == Names # {}

(* A schedule names at least one weekday and none twice.                   *)
ValidSchedule(w) == w # <<>> /\ \A i, j \in DOMAIN w : w[i] = w[j] => i = j
ASSUME SchedulesValid == \A w \in Weeks : w \in Seq(Days) /\ ValidSchedule(w)

VARIABLES
  row,          \* the committed row; stamp, its updated_at, is 0 before create
  zones,        \* committed zones by code
  hours,        \* by day, the request that wrote the committed row, 0 if none
  locks,        \* who holds the row, an index entry or an uncommitted delete
  pc, job,      \* where a request is, and what it is
  copy,         \* the session's object, as read and then as flushed
  gone, todo,   \* hours a request deleted, days it has yet to insert
  clock,        \* utcnow
  log,          \* committed snapshots
  requests, workload,
  alone, torn,  \* history: nobody else works on the row; see InStep
  unseen,       \* history: days of the last week committed since a DELETE's snapshot
  patched       \* history: the last week was added to one unseen; see WholeWeek

tx == <<locks, pc, job, copy, gone, todo>>
layout == <<zones, hours>>
weekHistory == <<unseen, patched>>
history == <<alone, torn, weekHistory>>
ownerVars == <<row, layout, tx, clock, log, requests, workload, history>>

Status == {"active", "maintenance", "inactive"}
RowKinds == {"create", "update", "status", "delete", "restore"}

NoRow == [status |-> "inactive", deleted |-> FALSE, name |-> CHOOSE n \in Names : TRUE,
          stamp |-> 0]
NoZone == [known |-> FALSE, active |-> FALSE, deleted |-> FALSE]
NoJob == [kind |-> "none", set |-> [x \in {} |-> x], what |-> {}, no |-> 0]

NewZone == [known |-> TRUE, active |-> TRUE, deleted |-> FALSE]

Things == {<<"row">>} \cup ({"zone"} \X Codes) \cup ({"day"} \X Days)

(* The service starts empty or with what seed.py inserts in one            *)
(* transaction: an active warehouse, its zones, its week and its event.    *)
OwnerInit ==
  /\ \E seeded \in BOOLEAN :
       /\ row = IF seeded THEN [NoRow EXCEPT !.status = "active", !.stamp = 1] ELSE NoRow
       /\ zones = [c \in Codes |-> IF seeded THEN NewZone ELSE NoZone]
       /\ hours = [d \in Days |-> IF seeded THEN 1 ELSE 0]
       /\ log = IF seeded THEN <<[type |-> "create", snapshot |-> row]>> ELSE <<>>
       /\ clock = IF seeded THEN 1 ELSE 0
       /\ requests = clock
  /\ locks = [x \in Things |-> Nobody]
  /\ pc = [t \in Txs |-> "idle"]
  /\ job = [t \in Txs |-> NoJob]
  /\ copy = [t \in Txs |-> NoRow]
  /\ gone = [t \in Txs |-> {}]
  /\ todo = [t \in Txs |-> <<>>]
  /\ workload \in Workloads
  /\ alone = [t \in Txs |-> FALSE]
  /\ torn = FALSE
  /\ unseen = [t \in Txs |-> {}]
  /\ patched = FALSE

Exists == row.stamp > 0
Live == Exists /\ ~row.deleted

(* Overlay of a record by the columns in f.                                *)
With(r, f) == [c \in DOMAIN r |-> IF c \in DOMAIN f THEN f[c] ELSE r[c]]
(* The unit of work writes the columns whose value differs from the copy.  *)
Net(r, f) == [c \in {x \in DOMAIN f : f[x] # r[x]} |-> f[c]]

OnRow(t) == job[t].kind \in RowKinds
Others(t) == {u \in Txs \ {t} : OnRow(u)}
-----------------------------------------------------------------------------
(* A request arrives and reads: repo.get leaves soft-deleted rows out but  *)
(* for restore; get_zone leaves removed zones out.                         *)

Begin(t, kind, set, what) ==
  /\ kind \in workload
  /\ requests < MaxRequests
  /\ pc[t] = "idle"
  /\ requests' = requests + 1
  /\ pc' = [pc EXCEPT ![t] = "read"]
  /\ job' = [job EXCEPT ![t] = [kind |-> kind, set |-> set, what |-> what, no |-> requests + 1]]
  /\ copy' = [copy EXCEPT ![t] = row]
  /\ alone' = [u \in Txs |-> IF kind \notin RowKinds THEN alone[u]
                             ELSE u = t /\ Others(t) = {}]
  /\ UNCHANGED <<row, layout, locks, gone, todo, clock, log, workload, torn, weekHistory>>

NoSet == [x \in {} |-> x]

BeginUpdate(t) == \E n \in Names : Live /\ Begin(t, "update", [name |-> n], {})
BeginStatus(t) == \E s \in Status : Live /\ Begin(t, "status", [status |-> s], {})
BeginDelete(t) ==
  Live /\ Begin(t, "delete", [status |-> "inactive", deleted |-> TRUE], {})
BeginRestore(t) ==
  Exists /\ Begin(t, "restore", [status |-> "active", deleted |-> FALSE], {})

BeginCreate(t) ==
  \E n \in Names, Z \in SUBSET Codes, D \in {{}, Days} :
    /\ ~Exists
    /\ Begin(t, "create", [status |-> "active", deleted |-> FALSE, name |-> n], <<Z, D>>)

BeginAddZone(t) == \E c \in Codes : Live /\ Begin(t, "add zone", NoSet, c)

ZoneLive(c) == zones[c].known /\ ~zones[c].deleted
BeginUpdateZone(t) ==
  \E c \in Codes, a \in BOOLEAN :
    Live /\ ZoneLive(c) /\ Begin(t, "update zone", Net(zones[c], [active |-> a]), c)
BeginDeleteZone(t) ==
  \E c \in Codes :
    Live /\ ZoneLive(c) /\
      Begin(t, "delete zone", Net(zones[c], [active |-> FALSE, deleted |-> TRUE]), c)

BeginHours(t) == \E w \in Weeks : Live /\ Begin(t, "hours", NoSet, w)
-----------------------------------------------------------------------------
Free(t, X) == \A x \in X : locks[x] \in {Nobody, t}
Take(t, X) == locks' = [x \in Things |-> IF x \in X THEN t ELSE locks[x]]
(* Mutant of LetGo: the session goes back to the pool with its transaction.*)
KeepLocks(t) == locks
LetGo(t) == [x \in Things |-> IF locks[x] = t THEN Nobody ELSE locks[x]]

Done(t) ==
  /\ locks' = LetGo(t)
  /\ pc' = [pc EXCEPT ![t] = "idle"]
  /\ job' = [job EXCEPT ![t] = NoJob]
  /\ copy' = [copy EXCEPT ![t] = NoRow]
  /\ gone' = [gone EXCEPT ![t] = {}]
  /\ todo' = [todo EXCEPT ![t] = <<>>]
  /\ alone' = [alone EXCEPT ![t] = FALSE]

(* The request fails (a constraint, a deadlock, a crash): nothing stays.   *)
Rollback(t) ==
  /\ pc[t] # "idle"
  /\ Done(t)
  /\ unseen' = [unseen EXCEPT ![t] = {}]
  /\ UNCHANGED <<row, layout, clock, log, requests, workload, torn, patched>>

(* session.flush, up to the statement: onupdate=utcnow stamps the object.  *)
Flush(t) ==
  /\ pc[t] = "read" /\ OnRow(t)
  /\ LET net == Net(copy[t], job[t].set)
     IN IF DOMAIN net = {} /\ job[t].kind # "create"
        THEN /\ pc' = [pc EXCEPT ![t] = "ready"]
             /\ UNCHANGED <<clock, copy, job>>
        ELSE /\ pc' = [pc EXCEPT ![t] = "update"]
             /\ job' = [job EXCEPT ![t].set = IF job[t].kind = "create" THEN @ ELSE net]
             /\ clock' = clock + 1
             /\ copy' = [copy EXCEPT ![t] = [With(@, net) EXCEPT !.stamp = clock']]
  /\ UNCHANGED <<row, layout, locks, gone, todo, log, requests, workload, history>>

(* INSERT waits for an index entry, UPDATE for the row; a second create of *)
(* the code fails.                                                         *)
Write(t) ==
  /\ pc[t] = "update"
  /\ Free(t, {<<"row">>})
  /\ job[t].kind = "create" => ~Exists
  /\ Take(t, {<<"row">>})
  /\ pc' = [pc EXCEPT ![t] = "ready"]
  /\ UNCHANGED <<row, layout, job, copy, gone, todo, clock, log, requests, workload, history>>

(* emit: the event carries the object as this session flushed it.          *)
Snapshot(t) == [type |-> job[t].kind, snapshot |-> copy[t]]

Commit(t) ==
  /\ pc[t] = "ready" /\ OnRow(t)
  /\ LET wrote == locks[<<"row">>] = t
     IN /\ row' = IF ~wrote THEN row
                  ELSE With(row, [c \in {"stamp"} \cup DOMAIN job[t].set |-> copy[t][c]])
        /\ torn' = IF ~alone[t] THEN TRUE ELSE IF wrote THEN FALSE ELSE torn
  /\ log' = Append(log, Snapshot(t))
  /\ IF job[t].kind = "create"
     THEN /\ zones' = [c \in Codes |-> IF c \in job[t].what[1] THEN NewZone ELSE NoZone]
          /\ hours' = [d \in Days |-> IF d \in job[t].what[2] THEN job[t].no ELSE 0]
     ELSE UNCHANGED layout
  /\ Done(t)
  /\ UNCHANGED <<clock, requests, workload, weekHistory>>
-----------------------------------------------------------------------------
(* Zones: the unique index on the code covers removed zones too.           *)

Zone(t) == <<"zone", job[t].what>>

WriteZone(t) ==
  /\ pc[t] = "read" /\ job[t].kind \in {"add zone", "update zone", "delete zone"}
  /\ Free(t, {Zone(t)})
  /\ job[t].kind = "add zone" => ~zones[job[t].what].known
  /\ Take(t, {Zone(t)})
  /\ pc' = [pc EXCEPT ![t] = "ready"]
  /\ UNCHANGED <<row, layout, job, copy, gone, todo, clock, log, requests, workload, history>>

CommitZone(t) ==
  /\ pc[t] = "ready" /\ job[t].kind \in {"add zone", "update zone", "delete zone"}
  /\ zones' = [zones EXCEPT ![job[t].what] =
       IF job[t].kind = "add zone" THEN NewZone
       ELSE With(@, job[t].set)]
  /\ Done(t)
  /\ UNCHANGED <<row, hours, clock, log, requests, workload, torn, weekHistory>>
-----------------------------------------------------------------------------
(* replace_hours: DELETE the rows the statement sees, then one INSERT per  *)
(* day.                                                                    *)

Elements(s) == {s[i] : i \in DOMAIN s}
Day(d) == <<"day", d>>

(* The DELETE's snapshot: rows by day and version.                         *)
StartClear(t) ==
  /\ pc[t] = "read" /\ job[t].kind = "hours"
  /\ gone' = [gone EXCEPT ![t] = {<<d, hours[d]>> : d \in {e \in Days : hours[e] # 0}}]
  /\ todo' = [todo EXCEPT ![t] = job[t].what]
  /\ pc' = [pc EXCEPT ![t] = "clear"]
  /\ UNCHANGED <<row, layout, locks, job, copy, clock, log, requests, workload, history>>

(* It waits for the rows another request is deleting; those that are gone  *)
(* by then are skipped, and rows inserted meanwhile are not seen.          *)
Clear(t) ==
  /\ pc[t] = "clear"
  /\ Free(t, {Day(v[1]) : v \in gone[t]})
  /\ LET left == {v \in gone[t] : hours[v[1]] = v[2]}
     IN /\ gone' = [gone EXCEPT ![t] = left]
        /\ Take(t, {Day(v[1]) : v \in left})
  /\ pc' = [pc EXCEPT ![t] = "insert"]
  /\ UNCHANGED <<row, layout, job, copy, todo, clock, log, requests, workload, history>>

Deleted(t) == {v[1] : v \in gone[t]}

(* Mutant of InsertDay: no uq_warehouse_operating_day, the row is replaced.*)
InsertAnyDay(t) ==
  /\ pc[t] = "insert" /\ todo[t] # <<>>
  /\ Free(t, {Day(Head(todo[t]))})
  /\ Take(t, {Day(Head(todo[t]))})
  /\ todo' = [todo EXCEPT ![t] = Tail(@)]
  /\ UNCHANGED <<row, layout, pc, job, copy, gone, clock, log, requests, workload, history>>

(* uq_warehouse_operating_day: wait for whoever writes the day, and fail   *)
(* (Rollback) on a row that is there.                                      *)
InsertDay(t) ==
  /\ pc[t] = "insert" /\ todo[t] # <<>>
  /\ LET d == Head(todo[t])
     IN /\ Free(t, {Day(d)})
        /\ hours[d] = 0 \/ d \in Deleted(t)
        /\ Take(t, {Day(d)})
  /\ todo' = [todo EXCEPT ![t] = Tail(@)]
  /\ UNCHANGED <<row, layout, pc, job, copy, gone, clock, log, requests, workload, history>>

CommitHours(t) ==
  /\ pc[t] = "insert" /\ todo[t] = <<>>
  /\ hours' = [d \in Days |->
       IF d \in Elements(job[t].what) THEN job[t].no
       ELSE IF d \in Deleted(t) THEN 0 ELSE hours[d]]
  /\ Done(t)
  /\ patched' = (unseen[t] # {} /\ unseen[t] \cap Elements(job[t].what) = {})
  /\ unseen' = [u \in Txs |-> IF u = t THEN {}
                              ELSE IF pc[u] \in {"clear", "insert"} THEN Elements(job[t].what)
                              ELSE unseen[u]]
  /\ UNCHANGED <<row, zones, clock, log, requests, workload, torn>>
-----------------------------------------------------------------------------
RowRequest(t) ==
  \/ BeginCreate(t) \/ BeginUpdate(t) \/ BeginStatus(t) \/ BeginDelete(t) \/ BeginRestore(t)
  \/ Flush(t) \/ Write(t) \/ Commit(t)

LayoutRequest(t) ==
  \/ BeginAddZone(t) \/ BeginUpdateZone(t) \/ BeginDeleteZone(t) \/ WriteZone(t) \/ CommitZone(t)
  \/ BeginHours(t) \/ StartClear(t) \/ Clear(t) \/ InsertDay(t) \/ CommitHours(t)

OwnerNext == \E t \in Txs : RowRequest(t) \/ LayoutRequest(t) \/ Rollback(t)

OwnerSpec == OwnerInit /\ [][OwnerNext]_ownerVars
-----------------------------------------------------------------------------
Rows == [status : Status, deleted : BOOLEAN, name : Names, stamp : 0..MaxRequests]

OwnerTypeOK ==
  /\ row \in Rows /\ row.stamp <= clock
  /\ zones \in [Codes -> [known : BOOLEAN, active : BOOLEAN, deleted : BOOLEAN]]
  /\ hours \in [Days -> 0..MaxRequests]
  /\ \A x \in Things : locks[x] # Nobody => locks[x] \in Txs /\ pc[locks[x]] # "idle"
  /\ pc \in [Txs -> {"idle", "read", "update", "ready", "clear", "insert"}]
  /\ \A t \in Txs : job[t].kind \in Kinds \cup {"none"} /\ job[t].no \in 0..requests
  /\ copy \in [Txs -> Rows]
  /\ clock \in 0..requests
  /\ requests \in 0..MaxRequests

(* schemas.py: "Replaces the whole week at once."  Whatever the            *)
(* interleaving of replacements, the committed week is the work of one     *)
(* request: of two that overlap and share a day, the unique day makes the  *)
(* second fail.  Two disjoint weeks do mix, the second having seen nothing *)
(* of the first (patched), until a replacement that overlaps none.         *)
WholeWeek == ~patched => Cardinality({hours[d] : d \in Days} \ {0}) <= 1
=============================================================================
