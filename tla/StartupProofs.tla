---------------------------- MODULE StartupProofs ----------------------------
(***************************************************************************)
(* Any number of containers that migrate and seed one database, dying and  *)
(* starting again at will: each row is inserted once and announced once,   *)
(* and the version always tells the schema.                                *)
(***************************************************************************)
EXTENDS Startup, SequenceTheorems, TLAPS

(* What an uncommitted seed has inserted is in no other seed and not       *)
(* committed: the unique keys see to both.                                 *)
SeedsApart ==
  /\ DOMAIN inserted = Pods /\ DOMAIN announced = Codes
  /\ \A p \in Pods : inserted[p] \cap rows = {}
  /\ \A p, q \in Pods : p # q => inserted[p] \cap inserted[q] = {}

SeedInv == SeedsApart /\ SeededOnce

LEMMA SeedInit == Init => SeedInv
  BY DEF Init, SeedInv, SeedsApart, SeededOnce

(* A seed that ends, one way or another, leaves nothing in the air.        *)
LEMMA ClearKeeps ==
  ASSUME SeedsApart, NEW S, ClearTx(S), rows' = rows, announced' = announced
  PROVE  SeedsApart'
<1>1. \A p \in Pods : inserted'[p] = IF p \in S THEN {} ELSE inserted[p]
  BY DEF ClearTx
<1>2. DOMAIN inserted' = Pods
  BY DEF ClearTx
<1> QED
  BY <1>1, <1>2 DEF SeedsApart

LEMMA RowKeeps ==
  ASSUME SeedInv, NEW p \in Pods, SeedRow(p)
  PROVE  SeedInv'
<1>1. /\ NextRow(p) \notin rows
      /\ \A q \in Pods \ {p} : NextRow(p) \notin inserted[q]
      /\ inserted' = [inserted EXCEPT ![p] = @ \cup {NextRow(p)}]
      /\ rows' = rows /\ announced' = announced
  BY DEF SeedRow, db
<1>2. SeededOnce'
  BY <1>1 DEF SeedInv, SeededOnce
<1>3. inserted'[p] = inserted[p] \cup {NextRow(p)} /\ \A q \in Pods \ {p} : inserted'[q] = inserted[q]
  BY <1>1 DEF SeedInv, SeedsApart
<1>4. SeedsApart'
  BY <1>1, <1>3 DEF SeedInv, SeedsApart
<1> QED
  BY <1>2, <1>4 DEF SeedInv

LEMMA CommitKeeps ==
  ASSUME SeedInv, NEW p \in Pods, CommitSeed(p)
  PROVE  SeedInv'
<1>1. /\ rows' = rows \cup inserted[p]
      /\ announced' = [c \in Codes |-> announced[c] + (IF c \in inserted[p] THEN 1 ELSE 0)]
      /\ \A q \in Pods : inserted'[q] = IF q = p THEN {} ELSE inserted[q]
      /\ DOMAIN inserted' = Pods
  BY DEF CommitSeed, ClearTx
<1>2. SeededOnce'
  <2>1. ASSUME NEW c \in Codes
        PROVE  announced'[c] = IF c \in rows' THEN 1 ELSE 0
    <3>1. announced[c] = IF c \in rows THEN 1 ELSE 0
      BY DEF SeedInv, SeededOnce
    <3>2. c \in inserted[p] => c \notin rows
      BY DEF SeedInv, SeedsApart
    <3> QED
      BY <1>1, <3>1, <3>2
  <2> QED
    BY <2>1 DEF SeededOnce
<1>3. SeedsApart'
  BY <1>1 DEF SeedInv, SeedsApart
<1> QED
  BY <1>2, <1>3 DEF SeedInv

LEMMA DowngradeKeeps ==
  ASSUME SeedInv, NEW p \in Pods, CommitDowngrade(p)
  PROVE  SeedInv'
<1>1. /\ rows' = {} /\ announced' = [c \in Codes |-> 0]
      /\ \A q \in Pods : inserted'[q] = IF q = p THEN {} ELSE inserted[q]
      /\ DOMAIN inserted' = Pods
  BY DEF CommitDowngrade, ClearTx
<1> QED
  BY <1>1 DEF SeedInv, SeedsApart, SeededOnce

LEMMA SeedStep == SeedInv /\ [Next]_vars => SeedInv'
<1> SUFFICES ASSUME SeedInv, [Next]_vars PROVE SeedInv'
  OBVIOUS
<1>1. CASE UNCHANGED <<rows, announced, inserted>>
  BY <1>1 DEF SeedInv, SeedsApart, SeededOnce
<1>2. CASE rows' = rows /\ announced' = announced /\ \E S : ClearTx(S)
  <2>1. SeedsApart'
    BY <1>2, ClearKeeps DEF SeedInv
  <2> QED
    BY <1>2, <2>1 DEF SeedInv, SeededOnce
<1>3. CASE \E p \in Pods : SeedRow(p)
  BY <1>3, RowKeeps
<1>4. CASE \E p \in Pods : CommitSeed(p)
  BY <1>4, CommitKeeps
<1>5. CASE \E p \in Pods : CommitDowngrade(p)
  BY <1>5, DowngradeKeeps
<1>6. ASSUME NEW p \in Pods,
             Start(p) \/ Connect(p) \/ Migrate(p) \/ Execute(p) \/ SeedReads(p)
               \/ WaitTimesOut(p) \/ StartDowngrade(p) \/ Exits(p)
      PROVE  UNCHANGED <<rows, announced, inserted>>
  BY <1>6 DEF Start, Connect, Migrate, Execute, SeedReads, WaitTimesOut, StartDowngrade, Exits,
     db, tx
<1>7. ASSUME NEW p \in Pods,
             ExecuteFails(p) \/ CommitMigration(p) \/ SeedFails(p) \/ Crash(p)
      PROVE  rows' = rows /\ announced' = announced /\ ClearTx({p})
  BY <1>7 DEF ExecuteFails, CommitMigration, SeedFails, Crash, db
<1>8. DbStarts \/ UNCHANGED vars => UNCHANGED <<rows, announced, inserted>>
  BY DEF DbStarts, vars, db, tx
<1>9. DbStops => rows' = rows /\ announced' = announced /\ ClearTx(Pods)
  BY DEF DbStops, db
<1> QED
  BY <1>1, <1>2, <1>3, <1>4, <1>5, <1>6, <1>7, <1>8, <1>9 DEF Next, Proceeds

(* seed.py: seeding again, or several containers at once, repeats no row   *)
(* and no created event, for any set of containers and rows.               *)
THEOREM SeededOnceAlways == Spec => []SeededOnce
<1>1. SeedInv => SeededOnce
  BY DEF SeedInv
<1> QED
  BY <1>1, SeedInit, SeedStep, PTL DEF Spec
-----------------------------------------------------------------------------
(* The schema.  Sequences of statements are used as sets: what matters of  *)
(* a migration is which statements it has run, and which comes first.      *)
Listed(q) == {q[i] : i \in DOMAIN q}
IsList(q) == q \in Seq(Listed(q))

Steps == Listed(Upgrade(service))
Objects == {VersionTable} \cup UNION {s.makes : s \in Steps}

(* What the first statement makes of whoever migrates an empty database.   *)
First == IF VersionTable \in catalog THEN Head(Upgrade(service)).makes ELSE {VersionTable}

(* A migration that found the schema, one that has not begun, and the one  *)
(* that has: it alone, since it has made the first object.                 *)
NothingToDo(p) == head /\ todo[p] = <<>> /\ made[p] = {}
Fresh(p) ==
  /\ made[p] = {}
  /\ todo[p] # <<>>
  /\ Steps \subseteq Listed(todo[p])
  /\ head => Head(todo[p]).makes # {} /\ Head(todo[p]).makes \subseteq catalog
  /\ ~head => Head(todo[p]).makes = First
Underway(p) ==
  /\ ~head
  /\ First \subseteq made[p]
  /\ \A s \in Steps : s \in Listed(todo[p]) \/ s.makes \subseteq made[p]

Migrates(p) ==
  /\ gone[p] = {} /\ made[p] \subseteq Objects
  /\ IsList(todo[p]) /\ Listed(todo[p]) \subseteq {CreateVersionTable} \cup Steps
  /\ NothingToDo(p) \/ Fresh(p) \/ Underway(p)

Downgrades(p) ==
  /\ head /\ up = {} /\ made[p] = {}
  /\ \A q \in Pods \ {p} : pc[q] = "down"
  /\ IsList(todo[p]) /\ Listed(todo[p]) \subseteq Listed(Downgrade(service))
  /\ \A d \in Listed(Downgrade(service)) :
       d \in Listed(todo[p]) \/ Dropped(d, catalog) \subseteq gone[p]

Schema ==
  /\ head => Objects \subseteq catalog
  /\ ~head => catalog \subseteq {VersionTable}
  /\ catalog \subseteq Objects

Alone == \A p, q \in Pods :
  pc[p] = "migrating" /\ pc[q] = "migrating" /\ Underway(p) /\ Underway(q) => p = q

Places ==
  /\ service \in Services
  /\ DOMAIN pc = Pods /\ DOMAIN todo = Pods /\ DOMAIN made = Pods /\ DOMAIN gone = Pods
  /\ \A p \in Pods :
       /\ pc[p] \in {"seed", "seeding", "serving"} => head
       /\ pc[p] = "waiting" => p \in up
       /\ p \in up /\ p \notin Http => head
       /\ pc[p] \notin {"migrating", "downgrading"} => made[p] = {} /\ gone[p] = {}
       /\ pc[p] = "migrating" => Migrates(p)
       /\ pc[p] = "downgrading" => Downgrades(p)

SchemaInv == Schema /\ Alone /\ Places
-----------------------------------------------------------------------------
(* Lists.                                                                  *)

LEMMA NoList == IsList(<<>>) /\ Listed(<<>>) = {}
  BY DEF IsList, Listed

LEMMA TailList ==
  ASSUME NEW q, IsList(q), q # <<>>
  PROVE  /\ Head(q) \in Listed(q)
         /\ IsList(Tail(q))
         /\ Listed(q) = {Head(q)} \cup Listed(Tail(q))
<1>1. /\ q \in Seq(Listed(q)) /\ Len(q) \in Nat \ {0} /\ DOMAIN q = 1..Len(q)
      /\ Tail(q) \in Seq(Listed(q)) /\ Len(Tail(q)) = Len(q) - 1
      /\ Head(q) = q[1] /\ \A i \in 1..Len(q) - 1 : Tail(q)[i] = q[i + 1]
  BY DEF IsList
<1>2. DOMAIN Tail(q) = 1..Len(q) - 1
  BY <1>1
<1>3. Tail(q) \in Seq(Listed(Tail(q)))
  <2> DEFINE f == Tail(q)
             n == Len(q) - 1
  <2>1. n \in Nat /\ DOMAIN f = 1..n /\ f \in Seq(Listed(q))
    BY <1>1, <1>2
  <2>2. f \in [1..n -> Listed(q)]
    BY <1>1, <2>1, LenProperties
  <2> HIDE DEF f, n
  <2>3. f \in [1..n -> Listed(f)]
    BY <2>1, <2>2 DEF Listed
  <2>4. f \in Seq(Listed(f))
    BY <2>1, <2>3
  <2> QED
    BY <2>4 DEF f
<1>4. \A x : x \in Listed(q) <=> x = Head(q) \/ x \in Listed(Tail(q))
  <2>1. ASSUME NEW i \in 1..Len(q), i # 1 PROVE q[i] \in Listed(Tail(q))
    <3>1. i - 1 \in 1..Len(q) - 1 /\ Tail(q)[i - 1] = q[i]
      BY <1>1, <2>1
    <3> QED
      BY <3>1, <1>2 DEF Listed
  <2>2. ASSUME NEW i \in 1..Len(q) - 1 PROVE Tail(q)[i] \in Listed(q)
    BY <1>1, <2>2 DEF Listed
  <2> QED
    BY <1>1, <1>2, <2>1, <2>2, SMTT(30) DEF Listed
<1> QED
  BY <1>1, <1>3, <1>4 DEF IsList

LEMMA JoinLists ==
  ASSUME NEW a, NEW b, IsList(a), IsList(b)
  PROVE  /\ IsList(a \o b)
         /\ Listed(a \o b) = Listed(a) \cup Listed(b)
         /\ a # <<>> => a \o b # <<>> /\ Head(a \o b) = Head(a)
<1> DEFINE S == Listed(a) \cup Listed(b)
<1>1. a \in Seq(S) /\ b \in Seq(S)
  BY DEF IsList
<1>2. /\ a \o b \in Seq(S) /\ Len(a \o b) = Len(a) + Len(b)
      /\ \A i \in 1..Len(a) + Len(b) : (a \o b)[i] = IF i <= Len(a) THEN a[i] ELSE b[i - Len(a)]
      /\ Len(a) \in Nat /\ Len(b) \in Nat /\ DOMAIN a = 1..Len(a) /\ DOMAIN b = 1..Len(b)
  BY <1>1
<1>3. DOMAIN (a \o b) = 1..Len(a) + Len(b)
  BY <1>2
<1>4. ASSUME NEW i \in 1..Len(a) PROVE a[i] \in Listed(a \o b)
  <2>1. i \in 1..Len(a) + Len(b) /\ (a \o b)[i] = a[i]
    BY <1>2
  <2> QED
    BY <2>1, <1>3 DEF Listed
<1>5. ASSUME NEW i \in 1..Len(b) PROVE b[i] \in Listed(a \o b)
  <2>1. i + Len(a) \in 1..Len(a) + Len(b) /\ (a \o b)[i + Len(a)] = b[i]
    BY <1>2
  <2> QED
    BY <2>1, <1>3 DEF Listed
<1>6. Listed(a \o b) \subseteq S
  BY <1>2, <1>3 DEF Listed
<1>7. S \subseteq Listed(a \o b)
  BY <1>2, <1>4, <1>5 DEF Listed
<1>8. Listed(a \o b) = S
  BY <1>6, <1>7
<1>9. a # <<>> => a \o b # <<>> /\ Head(a \o b) = Head(a)
  <2> SUFFICES ASSUME a # <<>> PROVE a \o b # <<>> /\ Head(a \o b) = Head(a)
    OBVIOUS
  <2>1. Len(a) # 0
    BY <1>1
  <2>2. 1 \in 1..Len(a) + Len(b) /\ 1 <= Len(a) /\ Len(a \o b) # 0
    BY <1>2, <2>1
  <2>3. (a \o b)[1] = a[1]
    BY <1>2, <2>2
  <2> QED
    BY <1>1, <1>2, <2>2, <2>3
<1> QED
  BY <1>2, <1>8, <1>9 DEF IsList

LEMMA ListOfOne ==
  ASSUME NEW a
  PROVE  /\ IsList(<<a>>) /\ Listed(<<a>>) = {a}
         /\ <<a>> # <<>> /\ Head(<<a>>) = a
  BY DEF IsList, Listed

LEMMA ListOfTwo ==
  ASSUME NEW a, NEW b
  PROVE  /\ IsList(<<a, b>>) /\ Listed(<<a, b>>) = {a, b}
         /\ <<a, b>> # <<>> /\ Head(<<a, b>>) = a
  BY DEF IsList, Listed

LEMMA ListOfThree ==
  ASSUME NEW a, NEW b, NEW c
  PROVE  /\ IsList(<<a, b, c>>) /\ Listed(<<a, b, c>>) = {a, b, c}
         /\ <<a, b, c>> # <<>> /\ Head(<<a, b, c>>) = a
  BY DEF IsList, Listed

LEMMA ListOfFive ==
  ASSUME NEW a, NEW b, NEW c, NEW d, NEW e
  PROVE  /\ IsList(<<a, b, c, d, e>>) /\ Listed(<<a, b, c, d, e>>) = {a, b, c, d, e}
         /\ <<a, b, c, d, e>> # <<>> /\ Head(<<a, b, c, d, e>>) = a
  BY DEF IsList, Listed

LEMMA ListOfSix ==
  ASSUME NEW a, NEW b, NEW c, NEW d, NEW e, NEW f
  PROVE  /\ IsList(<<a, b, c, d, e, f>>) /\ Listed(<<a, b, c, d, e, f>>) = {a, b, c, d, e, f}
         /\ <<a, b, c, d, e, f>> # <<>> /\ Head(<<a, b, c, d, e, f>>) = a
  BY DEF IsList, Listed
-----------------------------------------------------------------------------
(* The migrations.  Every statement of an upgrade makes something, and     *)
(* only for tables and types that some statement of the downgrade drops.   *)
Creates(s, tables) ==
  /\ s.makes # {} /\ s.drops = {}
  /\ \A o \in s.makes : o.of \in tables
Makes(s, name) == \E o \in s.makes : o.name = name

Built(q, tables, names) ==
  /\ IsList(q) /\ q # <<>>
  /\ \A s \in Listed(q) : Creates(s, tables)
  /\ \A n \in names : \E s \in Listed(q) : Makes(s, n)

Razed(q, tables) ==
  /\ IsList(q)
  /\ \A d \in Listed(q) : d.makes = {}
  /\ \A t \in tables : \E d \in Listed(q) : t \in d.drops

LEMMA CreateBuilds ==
  ASSUME NEW table, NEW refs, NEW types, NEW uniques,
         NEW tables, {table} \cup types \subseteq tables
  PROVE  /\ Creates(Create(table, refs, types, uniques), tables)
         /\ \A n \in uniques : Makes(Create(table, refs, types, uniques), n)
<1> DEFINE s == Create(table, refs, types, uniques)
<1>1. /\ s.drops = {} /\ Object(table, table, refs) \in s.makes
      /\ s.makes = {Object(table, table, refs)} \cup {Object(y, y, {}) : y \in types}
                      \cup {Object(u, table, {}) : u \in uniques}
  BY DEF Create, Statement
<1>2. \A n, of, r : Object(n, of, r).name = n /\ Object(n, of, r).of = of
  BY DEF Object
<1> QED
  BY <1>1, <1>2 DEF Creates, Makes

LEMMA CreateSequenceBuilds ==
  ASSUME NEW q, NEW tables, q \in tables
  PROVE  Creates(CreateSequence(q), tables) /\ Makes(CreateSequence(q), q)
<1> DEFINE o == Object(q, q, {})
<1>1. CreateSequence(q).makes = {o} /\ CreateSequence(q).drops = {}
  BY DEF CreateSequence, Statement
<1>2. o.name = q /\ o.of = q
  BY DEF Object
<1> QED
  BY <1>1, <1>2 DEF Creates, Makes

LEMMA DropRazes ==
  \A x : /\ Drop(x).makes = {} /\ DropIfExists(x).makes = {}
         /\ x \in Drop(x).drops /\ x \in DropIfExists(x).drops
  BY DEF Drop, DropIfExists, Statement

LEMMA BuiltThree ==
  ASSUME NEW a, NEW b, NEW c, NEW tables, NEW names,
         Creates(a, tables), Creates(b, tables), Creates(c, tables),
         \A n \in names : Makes(a, n) \/ Makes(b, n) \/ Makes(c, n)
  PROVE  Built(<<a, b, c>>, tables, names)
  BY ListOfThree DEF Built

LEMMA BuiltOne ==
  ASSUME NEW a, NEW tables, NEW names, Creates(a, tables), \A n \in names : Makes(a, n)
  PROVE  Built(<<a>>, tables, names)
  BY ListOfOne DEF Built

LEMMA BuiltTwo ==
  ASSUME NEW a, NEW b, NEW tables, NEW names,
         Creates(a, tables), Creates(b, tables),
         \A n \in names : Makes(a, n) \/ Makes(b, n)
  PROVE  Built(<<a, b>>, tables, names)
  BY ListOfTwo DEF Built

LEMMA BuiltJoins ==
  ASSUME NEW a, NEW b, NEW tables, NEW na, NEW nb, Built(a, tables, na), Built(b, tables, nb)
  PROVE  Built(a \o b, tables, na \cup nb)
  BY JoinLists DEF Built, Creates

LEMMA BuiltGrows ==
  ASSUME NEW q, NEW tables, NEW names, Built(q, tables, names),
         NEW more, tables \subseteq more, NEW less, less \subseteq names
  PROVE  Built(q, more, less)
  BY DEF Built, Creates

LEMMA RazedShrinks ==
  ASSUME NEW q, NEW tables, Razed(q, tables), NEW less, less \subseteq tables
  PROVE  Razed(q, less)
  BY DEF Razed

LEMMA RazedJoins ==
  ASSUME NEW a, NEW b, NEW ta, NEW tb, Razed(a, ta), Razed(b, tb)
  PROVE  Razed(a \o b, ta \cup tb)
  BY JoinLists DEF Razed

PlatformNames == {"idempotency_keys", "outbox_events", "processed_events"}

LEMMA Platform ==
  /\ Built(PlatformTables, PlatformNames, {"uq_idempotency_keys_owner_key"})
  /\ Razed(PlatformDrops, PlatformNames)
<1>1. Built(PlatformTables, PlatformNames, {"uq_idempotency_keys_owner_key"})
  <2> DEFINE a == Create("idempotency_keys", {}, {}, {"uq_idempotency_keys_owner_key"})
             b == Create("outbox_events", {}, {}, {"uq_outbox_events_event_id"})
             c == Create("processed_events", {}, {}, {})
  <2>1. Creates(a, PlatformNames) /\ Makes(a, "uq_idempotency_keys_owner_key")
    BY CreateBuilds DEF PlatformNames
  <2>2. Creates(b, PlatformNames)
    BY CreateBuilds DEF PlatformNames
  <2>3. Creates(c, PlatformNames)
    BY CreateBuilds DEF PlatformNames
  <2> HIDE DEF a, b, c
  <2>4. Built(<<a, b, c>>, PlatformNames, {"uq_idempotency_keys_owner_key"})
    BY <2>1, <2>2, <2>3, BuiltThree
  <2> QED
    BY <2>4 DEF PlatformTables, a, b, c
<1>2. Razed(PlatformDrops, PlatformNames)
  BY ListOfThree, DropRazes DEF Razed, PlatformDrops, PlatformNames
<1> QED
  BY <1>1, <1>2

WarehouseNames == {"warehouses", "warehouse_type", "warehouse_status",
                   "warehouse_operating_hours", "warehouse_zones",
                   "zone_type"}

LEMMA WarehouseMigration ==
  /\ Built(WarehouseUpgrade, PlatformNames \cup WarehouseNames, ReliedOn("warehouse"))
  /\ Razed(WarehouseDrops, PlatformNames \cup WarehouseNames)
<1> DEFINE N == WarehouseNames
<1>1. Built(WarehouseRow, N, {"ix_warehouses_code"})
  <2> DEFINE a == Create("warehouses", {},
                         {"warehouse_type", "warehouse_status"},
                         {"ix_warehouses_code"})
  <2>1. Creates(a, N) /\ Makes(a, "ix_warehouses_code")
    <3>1. {"warehouses"} \cup {"warehouse_type", "warehouse_status"} \subseteq N
      BY DEF WarehouseNames
    <3> QED
      BY <3>1, CreateBuilds
  <2> HIDE DEF N, a
  <2>2. Built(<<a>>, N, {"ix_warehouses_code"})
    BY <2>1, BuiltOne
  <2> QED
    BY <2>2 DEF WarehouseRow, a
<1>2. Built(WarehouseParts, N, {"uq_warehouse_operating_day", "uq_warehouse_zone_code"})
  <2> DEFINE a == Create("warehouse_operating_hours", {"warehouses"},
                         {},
                         {"uq_warehouse_operating_day"})
             b == Create("warehouse_zones", {"warehouses"},
                         {"zone_type"},
                         {"uq_warehouse_zone_code"})
  <2>1. Creates(a, N) /\ Makes(a, "uq_warehouse_operating_day")
    BY CreateBuilds DEF WarehouseNames
  <2>2. Creates(b, N) /\ Makes(b, "uq_warehouse_zone_code")
    <3>1. {"warehouse_zones"} \cup {"zone_type"} \subseteq N
      BY DEF WarehouseNames
    <3> QED
      BY <3>1, CreateBuilds
  <2> HIDE DEF N, a, b
  <2>3. Built(<<a, b>>, N, {"uq_warehouse_operating_day", "uq_warehouse_zone_code"})
    BY <2>1, <2>2, BuiltTwo
  <2> QED
    BY <2>3 DEF WarehouseParts, a, b
<1>3. Razed(<<Drop("warehouse_zones"), Drop("warehouse_operating_hours"), Drop("warehouses")>>,
             {"warehouse_zones", "warehouse_operating_hours", "warehouses"})
  BY ListOfThree, DropRazes DEF Razed
<1>4. Razed(<<DropIfExists("zone_type"), DropIfExists("warehouse_status"), DropIfExists("warehouse_type")>>,
             {"zone_type", "warehouse_status", "warehouse_type"})
  BY ListOfThree, DropRazes DEF Razed
<1> HIDE DEF N
<1> DEFINE T == PlatformNames \cup N
<1>5. /\ Built(PlatformTables, T, {"uq_idempotency_keys_owner_key"})
      /\ Built(WarehouseRow, T, {"ix_warehouses_code"})
      /\ Built(WarehouseParts, T, {"uq_warehouse_operating_day", "uq_warehouse_zone_code"})
  BY Platform, <1>1, <1>2, BuiltGrows
<1> HIDE DEF T
<1>6. Built(PlatformTables \o WarehouseRow, T,
             {"uq_idempotency_keys_owner_key"} \cup {"ix_warehouses_code"})
  BY <1>5, BuiltJoins
<1>7. Built(PlatformTables \o WarehouseRow \o WarehouseParts, T,
             {"uq_idempotency_keys_owner_key"}
               \cup {"ix_warehouses_code"} \cup {"uq_warehouse_operating_day", "uq_warehouse_zone_code"})
  BY <1>5, <1>6, BuiltJoins
<1>8. Built(WarehouseUpgrade, T, ReliedOn("warehouse"))
  BY <1>7, BuiltGrows DEF WarehouseUpgrade, ReliedOn
<1>9. Razed(WarehouseDrops,
             {"warehouse_zones", "warehouse_operating_hours", "warehouses"}
               \cup PlatformNames
               \cup {"zone_type", "warehouse_status", "warehouse_type"})
  BY <1>3, <1>4, Platform, RazedJoins DEF WarehouseDrops
<1>10. Razed(WarehouseDrops, T)
  BY <1>9, RazedShrinks DEF WarehouseNames, N, T
<1> QED
  BY <1>8, <1>10 DEF N, T

InventoryNames == {"skus", "warehouse_refs", "inventory_items",
                   "inventory_reservations", "reservation_status",
                   "stock_movements", "stock_movement_type"}

LEMMA InventoryMigration ==
  /\ Built(InventoryUpgrade, PlatformNames \cup InventoryNames, ReliedOn("inventory"))
  /\ Razed(InventoryDrops, PlatformNames \cup InventoryNames)
<1> DEFINE N == InventoryNames
<1>1. Built(InventoryCatalogue, N, {"ix_skus_code", "uq_inventory_warehouse_sku"})
  <2> DEFINE a == Create("skus", {}, {}, {"ix_skus_code"})
             b == Create("warehouse_refs", {}, {}, {})
             c == Create("inventory_items", {"skus"},
                         {},
                         {"uq_inventory_warehouse_sku"})
  <2>1. Creates(a, N) /\ Makes(a, "ix_skus_code")
    BY CreateBuilds DEF InventoryNames
  <2>2. Creates(b, N)
    BY CreateBuilds DEF InventoryNames
  <2>3. Creates(c, N) /\ Makes(c, "uq_inventory_warehouse_sku")
    BY CreateBuilds DEF InventoryNames
  <2> HIDE DEF N, a, b, c
  <2>4. Built(<<a, b, c>>, N, {"ix_skus_code", "uq_inventory_warehouse_sku"})
    BY <2>1, <2>2, <2>3, BuiltThree
  <2> QED
    BY <2>4 DEF InventoryCatalogue, a, b, c
<1>2. Built(InventoryLedger, N, {"uq_reservation_shipment_sku"})
  <2> DEFINE a == Create("inventory_reservations", {"inventory_items", "skus"},
                         {"reservation_status"},
                         {"uq_reservation_shipment_sku"})
             b == Create("stock_movements", {"inventory_items", "skus"},
                         {"stock_movement_type"},
                         {})
  <2>1. Creates(a, N) /\ Makes(a, "uq_reservation_shipment_sku")
    <3>1. {"inventory_reservations"} \cup {"reservation_status"} \subseteq N
      BY DEF InventoryNames
    <3> QED
      BY <3>1, CreateBuilds
  <2>2. Creates(b, N)
    <3>1. {"stock_movements"} \cup {"stock_movement_type"} \subseteq N
      BY DEF InventoryNames
    <3> QED
      BY <3>1, CreateBuilds
  <2> HIDE DEF N, a, b
  <2>3. Built(<<a, b>>, N, {"uq_reservation_shipment_sku"})
    BY <2>1, <2>2, BuiltTwo
  <2> QED
    BY <2>3 DEF InventoryLedger, a, b
<1>3. Razed(<<Drop("stock_movements"), Drop("inventory_reservations"), Drop("inventory_items"),
         Drop("warehouse_refs"), Drop("skus")>>,
             {"stock_movements", "inventory_reservations", "inventory_items", "warehouse_refs", "skus"})
  BY ListOfFive, DropRazes DEF Razed
<1>4. Razed(<<DropIfExists("stock_movement_type"), DropIfExists("reservation_status")>>,
             {"stock_movement_type", "reservation_status"})
  BY ListOfTwo, DropRazes DEF Razed
<1> HIDE DEF N
<1> DEFINE T == PlatformNames \cup N
<1>5. /\ Built(PlatformTables, T, {"uq_idempotency_keys_owner_key"})
      /\ Built(InventoryCatalogue, T, {"ix_skus_code", "uq_inventory_warehouse_sku"})
      /\ Built(InventoryLedger, T, {"uq_reservation_shipment_sku"})
  BY Platform, <1>1, <1>2, BuiltGrows
<1> HIDE DEF T
<1>6. Built(PlatformTables \o InventoryCatalogue, T,
             {"uq_idempotency_keys_owner_key"}
               \cup {"ix_skus_code", "uq_inventory_warehouse_sku"})
  BY <1>5, BuiltJoins
<1>7. Built(PlatformTables \o InventoryCatalogue \o InventoryLedger, T,
             {"uq_idempotency_keys_owner_key"}
               \cup {"ix_skus_code", "uq_inventory_warehouse_sku"} \cup {"uq_reservation_shipment_sku"})
  BY <1>5, <1>6, BuiltJoins
<1>8. Built(InventoryUpgrade, T, ReliedOn("inventory"))
  BY <1>7, BuiltGrows DEF InventoryUpgrade, ReliedOn
<1>9. Razed(InventoryDrops,
             {"stock_movements", "inventory_reservations", "inventory_items", "warehouse_refs", "skus"}
               \cup PlatformNames
               \cup {"stock_movement_type", "reservation_status"})
  BY <1>3, <1>4, Platform, RazedJoins DEF InventoryDrops
<1>10. Razed(InventoryDrops, T)
  BY <1>9, RazedShrinks DEF InventoryNames, N, T
<1> QED
  BY <1>8, <1>10 DEF N, T

ShipmentNames == {"shipment_reference_seq", "addresses", "warehouse_refs",
                  "shipments", "shipment_status", "service_level",
                  "shipment_priority", "packages", "package_status",
                  "shipment_items", "shipment_status_history"}

LEMMA ShipmentMigration ==
  /\ Built(ShipmentUpgrade, PlatformNames \cup ShipmentNames, ReliedOn("shipment"))
  /\ Razed(ShipmentDrops, PlatformNames \cup ShipmentNames)
<1> DEFINE N == ShipmentNames
<1>1. Built(ShipmentAddresses, N, {"shipment_reference_seq"})
  <2> DEFINE a == CreateSequence("shipment_reference_seq")
             b == Create("addresses", {}, {}, {})
  <2>1. Creates(a, N) /\ Makes(a, "shipment_reference_seq")
    BY CreateSequenceBuilds DEF ShipmentNames
  <2>2. Creates(b, N)
    BY CreateBuilds DEF ShipmentNames
  <2> HIDE DEF N, a, b
  <2>3. Built(<<a, b>>, N, {"shipment_reference_seq"})
    BY <2>1, <2>2, BuiltTwo
  <2> QED
    BY <2>3 DEF ShipmentAddresses, a, b
<1>2. Built(ShipmentRow, N, {"ix_shipments_reference_no"})
  <2> DEFINE a == Create("warehouse_refs", {}, {}, {})
             b == Create("shipments", {"addresses"},
                         {"shipment_status", "service_level", "shipment_priority"},
                         {"ix_shipments_reference_no"})
  <2>1. Creates(a, N)
    BY CreateBuilds DEF ShipmentNames
  <2>2. Creates(b, N) /\ Makes(b, "ix_shipments_reference_no")
    <3>1. {"shipments"} \cup {"shipment_status", "service_level", "shipment_priority"} \subseteq N
      BY DEF ShipmentNames
    <3>2. Creates(b, N)
      BY <3>1, CreateBuilds
    <3>3. Makes(b, "ix_shipments_reference_no")
      BY <3>1, CreateBuilds, ZenonT(40)
    <3> QED
      BY <3>2, <3>3
  <2> HIDE DEF N, a, b
  <2>3. Built(<<a, b>>, N, {"ix_shipments_reference_no"})
    BY <2>1, <2>2, BuiltTwo
  <2> QED
    BY <2>3 DEF ShipmentRow, a, b
<1>3. Built(ShipmentParts, N, {"uq_package_sequence", "ix_packages_barcode", "uq_shipment_item_sku"})
  <2> DEFINE a == Create("packages", {"shipments"},
                         {"package_status"},
                         {"uq_package_sequence", "ix_packages_barcode"})
             b == Create("shipment_items", {"shipments"},
                         {},
                         {"uq_shipment_item_sku"})
             c == Create("shipment_status_history", {"shipments"}, {}, {})
  <2>1. Creates(a, N) /\ Makes(a, "uq_package_sequence") /\ Makes(a, "ix_packages_barcode")
    <3>1. {"packages"} \cup {"package_status"} \subseteq N
      BY DEF ShipmentNames
    <3> QED
      BY <3>1, CreateBuilds
  <2>2. Creates(b, N) /\ Makes(b, "uq_shipment_item_sku")
    BY CreateBuilds DEF ShipmentNames
  <2>3. Creates(c, N)
    BY CreateBuilds DEF ShipmentNames
  <2> HIDE DEF N, a, b, c
  <2>4. Built(<<a, b, c>>, N, {"uq_package_sequence", "ix_packages_barcode", "uq_shipment_item_sku"})
    BY <2>1, <2>2, <2>3, BuiltThree
  <2> QED
    BY <2>4 DEF ShipmentParts, a, b, c
<1>4. Razed(<<Drop("shipment_status_history"), Drop("shipment_items"), Drop("packages"),
         Drop("shipments"), Drop("warehouse_refs")>>,
             {"shipment_status_history", "shipment_items", "packages", "shipments", "warehouse_refs"})
  BY ListOfFive, DropRazes DEF Razed
<1>5. Razed(<<Drop("addresses"), DropIfExists("shipment_reference_seq"),
            DropIfExists("package_status"), DropIfExists("shipment_priority"),
            DropIfExists("service_level"), DropIfExists("shipment_status")>>,
             {"addresses", "shipment_reference_seq", "package_status", "shipment_priority", "service_level", "shipment_status"})
  BY ListOfSix, DropRazes DEF Razed
<1> HIDE DEF N
<1> DEFINE T == PlatformNames \cup N
<1>6. /\ Built(ShipmentAddresses, T, {"shipment_reference_seq"})
      /\ Built(PlatformTables, T, {"uq_idempotency_keys_owner_key"})
      /\ Built(ShipmentRow, T, {"ix_shipments_reference_no"})
      /\ Built(ShipmentParts, T, {"uq_package_sequence", "ix_packages_barcode", "uq_shipment_item_sku"})
  BY <1>1, Platform, <1>2, <1>3, BuiltGrows
<1> HIDE DEF T
<1>7. Built(ShipmentAddresses \o PlatformTables, T,
             {"shipment_reference_seq"} \cup {"uq_idempotency_keys_owner_key"})
  BY <1>6, BuiltJoins
<1>8. Built(ShipmentAddresses \o PlatformTables \o ShipmentRow, T,
             {"shipment_reference_seq"}
               \cup {"uq_idempotency_keys_owner_key"} \cup {"ix_shipments_reference_no"})
  BY <1>6, <1>7, BuiltJoins
<1>9. Built(ShipmentAddresses \o PlatformTables \o ShipmentRow \o ShipmentParts, T,
             {"shipment_reference_seq"}
               \cup {"uq_idempotency_keys_owner_key"} \cup {"ix_shipments_reference_no"} \cup {"uq_package_sequence", "ix_packages_barcode", "uq_shipment_item_sku"})
  BY <1>6, <1>8, BuiltJoins
<1>10. Built(ShipmentUpgrade, T, ReliedOn("shipment"))
  BY <1>9, BuiltGrows DEF ShipmentUpgrade, ReliedOn
<1>11. Razed(ShipmentDrops,
             {"shipment_status_history", "shipment_items", "packages", "shipments", "warehouse_refs"}
               \cup PlatformNames
               \cup {"addresses", "shipment_reference_seq", "package_status", "shipment_priority", "service_level", "shipment_status"})
  BY <1>4, <1>5, Platform, RazedJoins DEF ShipmentDrops
<1>12. Razed(ShipmentDrops, T)
  BY <1>11, RazedShrinks DEF ShipmentNames, N, T
<1> QED
  BY <1>10, <1>12 DEF N, T

IdentityNames == {"users", "user_role", "user_status", "refresh_tokens",
                  "user_warehouse_assignments"}

LEMMA IdentityMigration ==
  /\ Built(IdentityUpgrade, PlatformNames \cup IdentityNames, ReliedOn("identity"))
  /\ Razed(IdentityDrops, PlatformNames \cup IdentityNames)
<1> DEFINE N == IdentityNames
<1>1. Built(IdentityTables, N, {"ix_users_email", "uq_users_courier_id", "uq_user_warehouse_assignment"})
  <2> DEFINE a == Create("users", {},
                         {"user_role", "user_status"},
                         {"ix_users_email", "uq_users_courier_id"})
             b == Create("refresh_tokens", {"users"},
                         {},
                         {"uq_refresh_tokens_token_hash"})
             c == Create("user_warehouse_assignments", {"users"},
                         {},
                         {"uq_user_warehouse_assignment"})
  <2>1. Creates(a, N) /\ Makes(a, "ix_users_email") /\ Makes(a, "uq_users_courier_id")
    <3>1. {"users"} \cup {"user_role", "user_status"} \subseteq N
      BY DEF IdentityNames
    <3>2. Creates(a, N)
      BY <3>1, CreateBuilds
    <3>3. Makes(a, "ix_users_email")
      BY <3>1, CreateBuilds
    <3>4. Makes(a, "uq_users_courier_id")
      BY <3>1, CreateBuilds
    <3> QED
      BY <3>2, <3>3, <3>4
  <2>2. Creates(b, N)
    BY CreateBuilds DEF IdentityNames
  <2>3. Creates(c, N) /\ Makes(c, "uq_user_warehouse_assignment")
    BY CreateBuilds DEF IdentityNames
  <2> HIDE DEF N, a, b, c
  <2>4. Built(<<a, b, c>>, N, {"ix_users_email", "uq_users_courier_id", "uq_user_warehouse_assignment"})
    BY <2>1, <2>2, <2>3, BuiltThree
  <2> QED
    BY <2>4 DEF IdentityTables, a, b, c
<1>2. Razed(<<Drop("user_warehouse_assignments"), Drop("refresh_tokens"), Drop("users")>>,
             {"user_warehouse_assignments", "refresh_tokens", "users"})
  BY ListOfThree, DropRazes DEF Razed
<1>3. Razed(<<DropIfExists("user_status"), DropIfExists("user_role")>>,
             {"user_status", "user_role"})
  BY ListOfTwo, DropRazes DEF Razed
<1> HIDE DEF N
<1> DEFINE T == PlatformNames \cup N
<1>4. /\ Built(PlatformTables, T, {"uq_idempotency_keys_owner_key"})
      /\ Built(IdentityTables, T, {"ix_users_email", "uq_users_courier_id", "uq_user_warehouse_assignment"})
  BY Platform, <1>1, BuiltGrows
<1> HIDE DEF T
<1>5. Built(PlatformTables \o IdentityTables, T,
             {"uq_idempotency_keys_owner_key"}
               \cup {"ix_users_email", "uq_users_courier_id", "uq_user_warehouse_assignment"})
  BY <1>4, BuiltJoins
<1>6. Built(IdentityUpgrade, T, ReliedOn("identity"))
  BY <1>5, BuiltGrows DEF IdentityUpgrade, ReliedOn
<1>7. Razed(IdentityDrops,
             {"user_warehouse_assignments", "refresh_tokens", "users"}
               \cup PlatformNames
               \cup {"user_status", "user_role"})
  BY <1>2, <1>3, Platform, RazedJoins DEF IdentityDrops
<1>8. Razed(IdentityDrops, T)
  BY <1>7, RazedShrinks DEF IdentityNames, N, T
<1> QED
  BY <1>6, <1>8 DEF N, T

LEMMA Migrations ==
  ASSUME NEW s \in Services
  PROVE  \E tables : Built(Upgrade(s), tables, ReliedOn(s)) /\ Razed(Downgrade(s), tables)
<1>1. CASE s = "warehouse"
  BY <1>1, WarehouseMigration DEF Upgrade, Downgrade
<1>2. CASE s = "inventory"
  BY <1>2, InventoryMigration DEF Upgrade, Downgrade
<1>3. CASE s = "shipment"
  BY <1>3, ShipmentMigration DEF Upgrade, Downgrade
<1>4. CASE s = "identity"
  BY <1>4, IdentityMigration DEF Upgrade, Downgrade
<1> QED
  BY <1>1, <1>2, <1>3, <1>4 DEF Services

(* What the invariant needs of them.                                       *)
LEMMA UpgradeMakes ==
  ASSUME service \in Services
  PROVE  /\ IsList(Upgrade(service)) /\ Upgrade(service) # <<>>
         /\ Head(Upgrade(service)) \in Steps
         /\ \A s \in Steps : s.makes # {} /\ s.drops = {} /\ s.makes \subseteq Objects
         /\ ReliedOn(service) \subseteq Names(Objects)
<1>1. PICK tables : Built(Upgrade(service), tables, ReliedOn(service))
  BY Migrations
<1>2. IsList(Upgrade(service)) /\ Upgrade(service) # <<>> /\ Head(Upgrade(service)) \in Steps
  BY <1>1, TailList DEF Built, Steps
<1>3. \A s \in Steps : s.makes # {} /\ s.drops = {} /\ s.makes \subseteq Objects
  BY <1>1 DEF Built, Creates, Steps, Objects
<1>4. ReliedOn(service) \subseteq Names(Objects)
  <2> SUFFICES ASSUME NEW n \in ReliedOn(service) PROVE n \in Names(Objects)
    OBVIOUS
  <2>1. PICK s \in Steps : Makes(s, n)
    BY <1>1 DEF Built, Steps
  <2> QED
    BY <1>3, <2>1 DEF Makes, Names
<1> QED
  BY <1>2, <1>3, <1>4

LEMMA DowngradeDrops ==
  ASSUME service \in Services
  PROVE  /\ IsList(Downgrade(service))
         /\ \A d \in Listed(Downgrade(service)) : d.makes = {}
         /\ \A o \in Objects \ {VersionTable} :
              \E d \in Listed(Downgrade(service)) : \A c : o \in c => o \in Dropped(d, c)
<1>1. PICK tables : /\ Built(Upgrade(service), tables, ReliedOn(service))
                    /\ Razed(Downgrade(service), tables)
  BY Migrations
<1>2. IsList(Downgrade(service)) /\ \A d \in Listed(Downgrade(service)) : d.makes = {}
  BY <1>1 DEF Razed
<1>3. ASSUME NEW o \in Objects \ {VersionTable}
      PROVE  \E d \in Listed(Downgrade(service)) : \A c : o \in c => o \in Dropped(d, c)
  <2>1. PICK s \in Steps : o \in s.makes
    BY <1>3 DEF Objects
  <2>2. o.of \in tables
    BY <1>1, <2>1 DEF Built, Creates, Steps
  <2>3. PICK d \in Listed(Downgrade(service)) : o.of \in d.drops
    BY <1>1, <2>2 DEF Razed
  <2> QED
    BY <2>3 DEF Dropped
<1> QED
  BY <1>2, <1>3

LEMMA VersionStep == CreateVersionTable.makes = {VersionTable} /\ CreateVersionTable.drops = {}
  BY DEF CreateVersionTable, Statement

LEMMA StepMakes ==
  ASSUME service \in Services, NEW s \in {CreateVersionTable} \cup Steps
  PROVE  s.makes # {} /\ s.drops = {} /\ s.makes \subseteq Objects
  BY UpgradeMakes, VersionStep DEF Objects

LEMMA FirstMade ==
  ASSUME service \in Services
  PROVE  First # {} /\ First \subseteq Objects
  BY UpgradeMakes DEF First, Objects

(* upgrade head, when it is wanted and when it is not.                     *)
LEMMA PendingSteps ==
  ASSUME service \in Services, Schema
  PROVE  /\ head => Pending = <<>>
         /\ ~head => /\ IsList(Pending) /\ Pending # <<>>
                     /\ Listed(Pending) \subseteq {CreateVersionTable} \cup Steps
                     /\ Steps \subseteq Listed(Pending)
                     /\ Head(Pending).makes = First
<1> DEFINE U == Upgrade(service)
<1>1. head => Pending = <<>>
  BY DEF Pending, EnsureVersionTable, Schema, Objects
<1>2. CASE ~head /\ VersionTable \in catalog
  <2>1. Pending = <<>> \o U
    BY <1>2 DEF Pending, EnsureVersionTable
  <2>2. Pending = U
    BY <2>1, UpgradeMakes, ConcatEmptySeq DEF IsList
  <2> QED
    BY <1>2, <2>2, UpgradeMakes DEF Steps, First
<1>3. CASE ~head /\ VersionTable \notin catalog
  <2>1. Pending = <<CreateVersionTable>> \o U
    BY <1>3 DEF Pending, EnsureVersionTable
  <2>2. /\ IsList(<<CreateVersionTable>>) /\ Listed(<<CreateVersionTable>>) = {CreateVersionTable}
        /\ <<CreateVersionTable>> # <<>> /\ Head(<<CreateVersionTable>>) = CreateVersionTable
    BY ListOfOne
  <2>3. /\ IsList(Pending) /\ Listed(Pending) = {CreateVersionTable} \cup Listed(U)
        /\ Pending # <<>> /\ Head(Pending) = CreateVersionTable
    BY <2>1, <2>2, UpgradeMakes, JoinLists
  <2> QED
    BY <1>3, <2>3, VersionStep DEF Steps, First
<1> QED
  BY <1>1, <1>2, <1>3
-----------------------------------------------------------------------------
(* The invariant, action by action.                                        *)

Schemes == <<service, catalog, head>>
Pieces(q) == <<todo[q], made[q], gone[q]>>

LEMMA SchemaInit == Init => SchemaInv
<1> SUFFICES ASSUME Init PROVE SchemaInv
  OBVIOUS
<1>1. Schema
  BY DEF Init, Schema, Objects
<1>2. Alone /\ Places
  BY DEF Init, Alone, Places
<1> QED
  BY <1>1, <1>2 DEF SchemaInv

LEMMA SameMigration ==
  ASSUME UNCHANGED Schemes, NEW q, UNCHANGED Pieces(q)
  PROVE  (Migrates(q) <=> Migrates(q)') /\ (Underway(q) <=> Underway(q)')
<1>1. /\ service' = service /\ catalog' = catalog /\ head' = head
      /\ todo[q]' = todo[q] /\ made[q]' = made[q] /\ gone[q]' = gone[q]
  BY DEF Schemes, Pieces
<1>2. Objects' = Objects /\ First' = First /\ Steps' = Steps
  BY <1>1 DEF Objects, First, Steps
<1> QED
  BY <1>1, <1>2 DEF Migrates, Underway, NothingToDo, Fresh

LEMMA SameDowngrade ==
  ASSUME UNCHANGED Schemes, NEW q, UNCHANGED Pieces(q), Downgrades(q), up' = up,
         \A r \in Pods \ {q} : pc[r]' = "down"
  PROVE  Downgrades(q)'
<1>1. /\ service' = service /\ catalog' = catalog /\ head' = head
      /\ todo[q]' = todo[q] /\ made[q]' = made[q] /\ gone[q]' = gone[q]
  BY DEF Schemes, Pieces
<1> QED
  BY <1>1 DEF Downgrades

LEMMA SameSchema ==
  ASSUME UNCHANGED Schemes
  PROVE  (Schema => Schema') /\ Objects' = Objects /\ Steps' = Steps /\ First' = First
<1>1. service' = service /\ catalog' = catalog /\ head' = head
  BY DEF Schemes
<1>2. Objects' = Objects /\ Steps' = Steps /\ First' = First
  BY <1>1 DEF Objects, Steps, First
<1> QED
  BY <1>1, <1>2 DEF Schema

(* A container in a place where no migration is open moves to another.     *)
LEMMA MovesOn ==
  ASSUME SchemaInv, NEW p \in Pods, NEW at,
         pc[p] \notin {"migrating", "downgrading"}, at \notin {"migrating", "downgrading"},
         pc' = [pc EXCEPT ![p] = at],
         \A q \in Pods : pc[q] # "downgrading" \/ at = "down",
         UNCHANGED Schemes, todo' = todo, made' = made, gone' = gone,
         up' = up \/ (up' = up \cup {p} /\ at = "waiting" /\ (p \notin Http => head)),
         at \in {"seed", "seeding", "serving"} => head, at = "waiting" => p \in up'
  PROVE  SchemaInv'
<1>1. pc[p]' = at /\ \A q \in Pods \ {p} : pc[q]' = pc[q]
  BY DEF SchemaInv, Places
<1>2. \A q \in Pods : UNCHANGED Pieces(q)
  BY DEF Pieces
<1>3. Schema'
  BY SameSchema DEF SchemaInv
<1>4. Alone'
  <2> SUFFICES ASSUME NEW q \in Pods, NEW r \in Pods, pc[q]' = "migrating", pc[r]' = "migrating",
                      Underway(q)', Underway(r)'
               PROVE  q = r
    BY DEF Alone
  <2>1. Underway(q) /\ Underway(r)
    BY <1>2, SameMigration
  <2>2. pc[q] = "migrating" /\ pc[r] = "migrating"
    BY <1>1
  <2> QED
    BY <2>1, <2>2 DEF SchemaInv, Alone
<1>5. ASSUME NEW q \in Pods, pc[q]' = "migrating" PROVE Migrates(q)'
  <2>1. pc[q] = "migrating"
    BY <1>1, <1>5
  <2> QED
    BY <2>1, <1>2, SameMigration DEF SchemaInv, Places
<1>6. ASSUME NEW q \in Pods, pc[q]' = "downgrading" PROVE Downgrades(q)'
  <2>1. pc[q] = "downgrading" /\ q # p /\ at = "down"
    BY <1>1, <1>6
  <2>2. Downgrades(q)
    BY <2>1 DEF SchemaInv, Places
  <2>3. \A r \in Pods \ {q} : pc[r]' = "down"
    BY <1>1, <2>1, <2>2 DEF Downgrades
  <2> QED
    BY <1>2, <2>1, <2>2, <2>3, SameDowngrade
<1>7. /\ service' = service /\ head' = head
      /\ DOMAIN pc' = Pods /\ DOMAIN todo' = Pods /\ DOMAIN made' = Pods /\ DOMAIN gone' = Pods
  BY DEF Schemes, SchemaInv, Places
<1>8. ASSUME NEW q \in Pods
      PROVE  /\ pc'[q] \in {"seed", "seeding", "serving"} => head'
             /\ pc'[q] = "waiting" => q \in up'
             /\ q \in up' /\ q \notin Http => head'
             /\ pc'[q] \notin {"migrating", "downgrading"} => made'[q] = {} /\ gone'[q] = {}
  BY <1>1, <1>7 DEF SchemaInv, Places
<1>9. Places'
  BY <1>5, <1>6, <1>7, <1>8 DEF SchemaInv, Places
<1> QED
  BY <1>3, <1>4, <1>9 DEF SchemaInv

(* A script ends and what it had open is gone.                             *)
LEMMA GivesUp ==
  ASSUME SchemaInv, NEW S \in SUBSET Pods, ClearTx(S),
         DOMAIN pc' = Pods,
         \A q \in S : pc'[q] = "down" \/ (pc'[q] = pc[q] /\ pc[q] \notin {"migrating", "downgrading"})
                       \/ (pc'[q] = "serving" /\ pc[q] = "seeding"),
         \A q \in Pods \ S : pc'[q] = pc[q],
         UNCHANGED Schemes, up' = up
  PROVE  SchemaInv'
<1>1. \A q \in S : made'[q] = {} /\ gone'[q] = {}
  BY DEF ClearTx
<1>2. ASSUME NEW q \in Pods \ S PROVE UNCHANGED Pieces(q)
  BY <1>2 DEF ClearTx, Pieces
<1>3. Schema'
  BY SameSchema DEF SchemaInv
<1>4. ASSUME NEW q \in Pods, pc'[q] \in {"migrating", "downgrading"}
      PROVE  q \notin S /\ pc'[q] = pc[q]
  BY <1>4
<1>5. Alone'
  <2> SUFFICES ASSUME NEW q \in Pods, NEW r \in Pods, pc[q]' = "migrating", pc[r]' = "migrating",
                      Underway(q)', Underway(r)'
               PROVE  q = r
    BY DEF Alone
  <2>1. q \notin S /\ r \notin S /\ pc[q] = "migrating" /\ pc[r] = "migrating"
    BY <1>4
  <2>2. Underway(q) /\ Underway(r)
    BY <1>2, <2>1, SameMigration
  <2> QED
    BY <2>1, <2>2 DEF SchemaInv, Alone
<1>6. ASSUME NEW q \in Pods, pc[q]' = "migrating" PROVE Migrates(q)'
  <2>1. q \notin S /\ pc[q] = "migrating"
    BY <1>4, <1>6
  <2> QED
    BY <2>1, <1>2, SameMigration DEF SchemaInv, Places
<1>7. ASSUME NEW q \in Pods, pc[q]' = "downgrading" PROVE Downgrades(q)'
  <2>1. q \notin S /\ pc[q] = "downgrading"
    BY <1>4, <1>7
  <2>2. Downgrades(q)
    BY <2>1 DEF SchemaInv, Places
  <2>3. \A r \in Pods \ {q} : pc[r]' = "down"
    BY <2>2 DEF Downgrades
  <2> QED
    BY <1>2, <2>1, <2>2, <2>3, SameDowngrade
<1>8. /\ service' = service /\ head' = head
      /\ DOMAIN pc' = Pods /\ DOMAIN todo' = Pods /\ DOMAIN made' = Pods /\ DOMAIN gone' = Pods
  BY DEF Schemes, SchemaInv, Places, ClearTx
<1>9. ASSUME NEW q \in Pods
      PROVE  /\ pc'[q] \in {"seed", "seeding", "serving"} => head'
             /\ pc'[q] = "waiting" => q \in up'
             /\ q \in up' /\ q \notin Http => head'
             /\ pc'[q] \notin {"migrating", "downgrading"} => made'[q] = {} /\ gone'[q] = {}
  <2>1. CASE q \in S
    BY <1>1, <1>8, <2>1 DEF SchemaInv, Places
  <2>2. CASE q \notin S
    BY <1>2, <1>8, <2>2 DEF SchemaInv, Places, Pieces
  <2> QED
    BY <2>1, <2>2
<1>10. Places'
  BY <1>6, <1>7, <1>8, <1>9 DEF SchemaInv, Places
<1> QED
  BY <1>3, <1>5, <1>10 DEF SchemaInv

LEMMA NobodyDowngrades ==
  ASSUME SchemaInv, NEW p \in Pods, pc[p] \notin {"down", "downgrading"}
  PROVE  \A q \in Pods : pc[q] # "downgrading"
  BY DEF SchemaInv, Places, Downgrades

LEMMA MigrateKeeps ==
  ASSUME SchemaInv, NEW p \in Pods, Migrate(p)
  PROVE  SchemaInv'
<1>1. /\ pc[p] = "migrate" /\ pc' = [pc EXCEPT ![p] = "migrating"]
      /\ todo' = [todo EXCEPT ![p] = Pending]
      /\ UNCHANGED Schemes /\ made' = made /\ gone' = gone /\ up' = up
  BY DEF Migrate, Goto, Schemes, db
<1>2. /\ pc[p]' = "migrating" /\ todo[p]' = Pending
      /\ \A q \in Pods \ {p} : pc[q]' = pc[q] /\ UNCHANGED Pieces(q)
  BY <1>1 DEF SchemaInv, Places, Pieces
<1>3. /\ Schema' /\ Steps' = Steps /\ First' = First /\ Objects' = Objects
      /\ head' = head /\ catalog' = catalog /\ service' = service
  BY <1>1, SameSchema DEF SchemaInv, Schemes
<1>4. made[p] = {} /\ gone[p] = {} /\ made[p]' = {} /\ gone[p]' = {}
  BY <1>1 DEF SchemaInv, Places
<1>5. service \in Services /\ Schema
  BY DEF SchemaInv, Places
<1>6. Migrates(p)'
  <2>1. CASE head
    <3>1. todo[p]' = <<>>
      BY <1>2, <1>5, <2>1, PendingSteps
    <3> QED
      BY <1>3, <1>4, <2>1, <3>1, NoList DEF Migrates, NothingToDo
  <2>2. CASE ~head
    <3>1. /\ IsList(todo[p]') /\ todo[p]' # <<>>
          /\ Listed(todo[p]') \subseteq {CreateVersionTable} \cup Steps
          /\ Steps \subseteq Listed(todo[p]')
          /\ Head(todo[p]').makes = First
      BY <1>2, <1>5, <2>2, PendingSteps
    <3>2. Fresh(p)'
      BY <1>3, <1>4, <2>2, <3>1 DEF Fresh
    <3> QED
      BY <1>3, <1>4, <3>1, <3>2 DEF Migrates
  <2> QED
    BY <2>1, <2>2
<1>7. ~Underway(p)'
  BY <1>3, <1>4, <1>5, FirstMade DEF Underway
<1>8. Alone'
  <2> SUFFICES ASSUME NEW q \in Pods, NEW r \in Pods, pc[q]' = "migrating", pc[r]' = "migrating",
                      Underway(q)', Underway(r)'
               PROVE  q = r
    BY DEF Alone
  <2>1. q # p /\ r # p
    BY <1>7
  <2>2. Underway(q) /\ Underway(r) /\ pc[q] = "migrating" /\ pc[r] = "migrating"
    BY <1>1, <1>2, <2>1, SameMigration
  <2> QED
    BY <2>2 DEF SchemaInv, Alone
<1>9. ASSUME NEW q \in Pods, pc[q]' = "migrating" PROVE Migrates(q)'
  <2>1. CASE q # p
    BY <1>1, <1>2, <1>9, <2>1, SameMigration DEF SchemaInv, Places
  <2> QED
    BY <1>6, <2>1
<1>10. ASSUME NEW q \in Pods PROVE pc[q]' # "downgrading"
  BY <1>1, <1>2, NobodyDowngrades
<1>11. ASSUME NEW q \in Pods
       PROVE  /\ pc'[q] \in {"seed", "seeding", "serving"} => head'
              /\ pc'[q] = "waiting" => q \in up'
              /\ q \in up' /\ q \notin Http => head'
              /\ pc'[q] \notin {"migrating", "downgrading"} => made'[q] = {} /\ gone'[q] = {}
  BY <1>1, <1>2, <1>3 DEF SchemaInv, Places
<1>12. Places'
  BY <1>1, <1>3, <1>9, <1>10, <1>11 DEF SchemaInv, Places
<1> QED
  BY <1>3, <1>8, <1>12 DEF SchemaInv

LEMMA ExecuteKeeps ==
  ASSUME SchemaInv, NEW p \in Pods, Execute(p)
  PROVE  SchemaInv'
<1> DEFINE s == Head(todo[p])
<1>1. /\ pc[p] \in {"migrating", "downgrading"} /\ todo[p] # <<>> /\ pc' = pc
      /\ ~InTheWay(p, s) /\ Runs(s, View(p))
      /\ made' = [made EXCEPT ![p] = (made[p] \ Dropped(s, made[p])) \cup s.makes]
      /\ gone' = [gone EXCEPT ![p] = gone[p] \cup Dropped(s, catalog)]
      /\ todo' = [todo EXCEPT ![p] = Tail(todo[p])]
      /\ UNCHANGED Schemes /\ up' = up
  BY DEF Execute, Schemes, db
<1>2. /\ todo[p]' = Tail(todo[p])
      /\ made[p]' = (made[p] \ Dropped(s, made[p])) \cup s.makes
      /\ gone[p]' = gone[p] \cup Dropped(s, catalog)
      /\ \A q \in Pods \ {p} : UNCHANGED Pieces(q)
  BY <1>1 DEF SchemaInv, Places, Pieces
<1>3. /\ Schema' /\ Steps' = Steps /\ First' = First /\ Objects' = Objects
      /\ head' = head /\ catalog' = catalog /\ service' = service
  BY <1>1, SameSchema DEF SchemaInv, Schemes
<1>4. service \in Services /\ Schema
  BY DEF SchemaInv, Places
<1>5. CASE pc[p] = "migrating"
  <2>1. Migrates(p)
    BY <1>5 DEF SchemaInv, Places
  <2>2. /\ s \in Listed(todo[p]) /\ IsList(Tail(todo[p]))
        /\ Listed(todo[p]) = {s} \cup Listed(Tail(todo[p]))
    BY <1>1, <2>1, TailList DEF Migrates
  <2>3. s.makes # {} /\ s.drops = {} /\ s.makes \subseteq Objects
    BY <1>4, <2>1, <2>2, StepMakes DEF Migrates
  <2>4. made[p]' = made[p] \cup s.makes /\ gone[p]' = {}
    BY <1>2, <2>1, <2>3 DEF Dropped, Migrates
  <2>5. ~NothingToDo(p)
    BY <1>1 DEF NothingToDo
  <2>6. ASSUME Fresh(p)
        PROVE  Underway(p)' /\ \A q \in Pods \ {p} : pc[q] = "migrating" => ~Underway(q)'
    <3>1. ~head
      <4>1. SUFFICES ASSUME head PROVE FALSE
        OBVIOUS
      <4>2. View(p) = catalog
        BY <2>1, <2>6 DEF View, Migrates, Fresh
      <4>3. PICK o \in s.makes : o \in catalog
        BY <2>6, <4>1 DEF Fresh
      <4>4. o.name \in Names(s.makes) /\ o.name \in Names(catalog)
        BY <4>3 DEF Names
      <4> QED
        BY <1>1, <4>2, <4>4 DEF Runs
    <3>2. s.makes = First
      BY <2>6, <3>1 DEF Fresh
    <3>3. Underway(p)'
      BY <1>2, <1>3, <2>2, <2>4, <2>6, <3>1, <3>2 DEF Underway, Fresh
    <3>4. ASSUME NEW q \in Pods \ {p} PROVE ~Underway(q)
      <4>1. SUFFICES ASSUME Underway(q) PROVE FALSE
        OBVIOUS
      <4>2. PICK o : o \in s.makes /\ o \in made[q]
        BY <2>3, <3>2, <4>1 DEF Underway
      <4>3. o.name \in Names(s.makes) /\ o.name \in Names(made[q])
        BY <4>2 DEF Names
      <4> QED
        BY <1>1, <4>3 DEF InTheWay
    <3>5. ASSUME NEW q \in Pods \ {p} PROVE ~Underway(q)'
      BY <1>1, <1>2, <3>4, <3>5, SameMigration
    <3> QED
      BY <3>3, <3>5
  <2>7. ASSUME Underway(p)
        PROVE  Underway(p)' /\ \A q \in Pods \ {p} : pc[q] = "migrating" => ~Underway(q)'
    <3>1. Underway(p)'
      BY <1>2, <1>3, <2>2, <2>4, <2>7 DEF Underway
    <3>2. ASSUME NEW q \in Pods \ {p}, pc[q] = "migrating" PROVE ~Underway(q)'
      <4>1. ~Underway(q)
        BY <1>5, <2>7, <3>2 DEF SchemaInv, Alone
      <4> QED
        BY <1>1, <1>2, <3>2, <4>1, SameMigration
    <3> QED
      BY <3>1, <3>2
  <2>8. Underway(p)' /\ \A q \in Pods \ {p} : pc[q] = "migrating" => ~Underway(q)'
    BY <2>1, <2>5, <2>6, <2>7 DEF Migrates
  <2>9. Migrates(p)'
    BY <1>2, <1>3, <2>1, <2>2, <2>3, <2>4, <2>8 DEF Migrates
  <2>10. Alone'
    BY <1>1, <2>8 DEF Alone
  <2>11. ASSUME NEW q \in Pods PROVE pc[q]' # "downgrading"
    BY <1>1, <1>5, NobodyDowngrades
  <2>12. ASSUME NEW q \in Pods, pc[q]' = "migrating" PROVE Migrates(q)'
    <3>1. CASE q # p
      BY <1>1, <1>2, <2>12, <3>1, SameMigration DEF SchemaInv, Places
    <3> QED
      BY <2>9, <3>1
  <2>13. ASSUME NEW q \in Pods
         PROVE  /\ pc'[q] \in {"seed", "seeding", "serving"} => head'
                /\ pc'[q] = "waiting" => q \in up'
                /\ q \in up' /\ q \notin Http => head'
                /\ pc'[q] \notin {"migrating", "downgrading"} => made'[q] = {} /\ gone'[q] = {}
    BY <1>1, <1>2, <1>3, <1>5 DEF SchemaInv, Places, Pieces
  <2>14. Places'
    BY <1>1, <1>3, <2>11, <2>12, <2>13 DEF SchemaInv, Places
  <2> QED
    BY <1>3, <2>10, <2>14 DEF SchemaInv
<1>6. CASE pc[p] = "downgrading"
  <2>1. Downgrades(p)
    BY <1>6 DEF SchemaInv, Places
  <2>2. /\ s \in Listed(todo[p]) /\ IsList(Tail(todo[p]))
        /\ Listed(todo[p]) = {s} \cup Listed(Tail(todo[p]))
    BY <1>1, <2>1, TailList DEF Downgrades
  <2>3. s.makes = {}
    BY <1>4, <2>1, <2>2, DowngradeDrops DEF Downgrades
  <2>4. Downgrades(p)'
    BY <1>1, <1>2, <1>3, <2>1, <2>2, <2>3 DEF Downgrades
  <2>5. \A q \in Pods \ {p} : pc[q]' = "down"
    BY <1>1, <2>1 DEF Downgrades
  <2>6. Alone'
    BY <1>1, <1>6, <2>5 DEF Alone
  <2>7. Places'
    BY <1>1, <1>2, <1>3, <1>6, <2>4, <2>5 DEF SchemaInv, Places, Pieces
  <2> QED
    BY <1>3, <2>6, <2>7 DEF SchemaInv
<1> QED
  BY <1>1, <1>5, <1>6

LEMMA CommitMigrationKeeps ==
  ASSUME SchemaInv, NEW p \in Pods, CommitMigration(p)
  PROVE  SchemaInv'
<1>1. /\ pc[p] = "migrating" /\ todo[p] = <<>>
      /\ catalog' = (catalog \ gone[p]) \cup made[p] /\ head' = TRUE
      /\ ClearTx({p}) /\ pc' = [pc EXCEPT ![p] = AfterMigration(p)]
      /\ service' = service /\ up' = up
  BY DEF CommitMigration, View, Goto
<1>2. Migrates(p) /\ service \in Services /\ Schema
  BY <1>1 DEF SchemaInv, Places
<1>3. Objects' = Objects /\ Steps' = Steps
  BY <1>1 DEF Objects, Steps
<1>4. Objects \subseteq catalog'
  <2>1. CASE head
    BY <1>1, <1>2, <2>1 DEF Migrates, Schema
  <2>2. CASE ~head
    <3>1. Underway(p)
      BY <1>1, <1>2, <2>2 DEF Migrates, NothingToDo, Fresh
    <3>2. \A s \in Steps : s.makes \subseteq made[p]
      BY <1>1, <3>1, NoList DEF Underway
    <3>3. VersionTable \in catalog'
      BY <1>1, <1>2, <3>1 DEF Underway, First, Migrates
    <3> QED
      BY <1>1, <3>2, <3>3 DEF Objects
  <2> QED
    BY <2>1, <2>2
<1>5. catalog' \subseteq Objects
  BY <1>1, <1>2 DEF Migrates, Schema
<1>6. Schema'
  BY <1>1, <1>3, <1>4, <1>5 DEF Schema
<1>7. /\ pc[p]' = AfterMigration(p) /\ made[p]' = {} /\ gone[p]' = {}
      /\ \A q \in Pods \ {p} : pc[q]' = pc[q] /\ UNCHANGED Pieces(q)
      /\ DOMAIN pc' = Pods /\ DOMAIN todo' = Pods /\ DOMAIN made' = Pods /\ DOMAIN gone' = Pods
  BY <1>1 DEF ClearTx, SchemaInv, Places, Pieces
<1>8. AfterMigration(p) \in {"seed", "serving"}
  BY DEF AfterMigration
<1>9. Alone'
  BY <1>1 DEF Alone, Underway
<1>10. ASSUME NEW q \in Pods, pc[q]' = "migrating" PROVE Migrates(q)'
  <2>1. q # p /\ pc[q] = "migrating"
    BY <1>7, <1>8, <1>10
  <2>2. /\ Migrates(q)
        /\ todo[q]' = todo[q] /\ made[q]' = made[q] /\ gone[q]' = gone[q]
    BY <1>7, <2>1 DEF SchemaInv, Places, Pieces
  <2>3. NothingToDo(q)' \/ Fresh(q)'
    <3>1. CASE head
      <4>1. NothingToDo(q) => NothingToDo(q)'
        BY <1>1, <2>2 DEF NothingToDo
      <4>2. Fresh(q) => Fresh(q)'
        <5>1. catalog \subseteq catalog'
          BY <1>4, <1>2 DEF Schema
        <5> QED
          BY <1>1, <1>3, <2>2, <3>1, <5>1 DEF Fresh
      <4>3. ~Underway(q)
        BY <3>1 DEF Underway
      <4> QED
        BY <2>2, <4>1, <4>2, <4>3 DEF Migrates
    <3>2. CASE ~head
      <4>1. Underway(p)
        BY <1>1, <1>2, <3>2 DEF Migrates, NothingToDo, Fresh
      <4>2. ~Underway(q)
        BY <1>1, <2>1, <4>1 DEF SchemaInv, Alone
      <4>3. Fresh(q)
        BY <2>2, <3>2, <4>2 DEF Migrates, NothingToDo
      <4>4. Head(todo[q]).makes = First
        BY <3>2, <4>3 DEF Fresh
      <4>5. Head(todo[q]).makes # {} /\ Head(todo[q]).makes \subseteq catalog'
        BY <1>2, <1>4, <4>4, FirstMade
      <4> QED
        BY <1>1, <1>3, <2>2, <4>3, <4>5 DEF Fresh
    <3> QED
      BY <3>1, <3>2
  <2> QED
    BY <1>3, <2>2, <2>3 DEF Migrates
<1>11. ASSUME NEW q \in Pods PROVE pc[q]' # "downgrading"
  BY <1>1, <1>7, <1>8, NobodyDowngrades
<1>12. ASSUME NEW q \in Pods
       PROVE  /\ pc'[q] = "waiting" => q \in up'
              /\ pc'[q] \notin {"migrating", "downgrading"} => made'[q] = {} /\ gone'[q] = {}
  BY <1>1, <1>7, <1>8 DEF SchemaInv, Places, Pieces
<1>13. Places'
  BY <1>1, <1>2, <1>7, <1>10, <1>11, <1>12 DEF Places
<1> QED
  BY <1>6, <1>9, <1>13 DEF SchemaInv

LEMMA StartDowngradeKeeps ==
  ASSUME SchemaInv, NEW p \in Pods, StartDowngrade(p)
  PROVE  SchemaInv'
<1>1. /\ head /\ \A q \in Pods : pc[q] = "down"
      /\ up' = {} /\ pc' = [pc EXCEPT ![p] = "downgrading"]
      /\ todo' = [todo EXCEPT ![p] = Downgrade(service)]
      /\ UNCHANGED Schemes /\ made' = made /\ gone' = gone
  BY DEF StartDowngrade, Goto, Schemes, db
<1>2. /\ pc[p]' = "downgrading" /\ todo[p]' = Downgrade(service)
      /\ \A q \in Pods \ {p} : pc[q]' = "down"
      /\ \A q \in Pods : made[q]' = {} /\ gone[q]' = {}
      /\ DOMAIN pc' = Pods /\ DOMAIN todo' = Pods /\ DOMAIN made' = Pods /\ DOMAIN gone' = Pods
  BY <1>1 DEF SchemaInv, Places
<1>3. Schema' /\ head' /\ service' = service /\ catalog' = catalog
  BY <1>1, SameSchema DEF SchemaInv, Schemes
<1>4. service \in Services
  BY DEF SchemaInv, Places
<1>5. Downgrades(p)'
  BY <1>1, <1>2, <1>3, <1>4, DowngradeDrops DEF Downgrades
<1>6. Alone'
  BY <1>2 DEF Alone
<1>7. Places'
  BY <1>1, <1>2, <1>3, <1>4, <1>5 DEF Places
<1> QED
  BY <1>3, <1>6, <1>7 DEF SchemaInv

LEMMA CommitDowngradeKeeps ==
  ASSUME SchemaInv, NEW p \in Pods, CommitDowngrade(p)
  PROVE  SchemaInv'
<1>1. /\ pc[p] = "downgrading" /\ todo[p] = <<>>
      /\ catalog' = (catalog \ gone[p]) \cup made[p] /\ head' = FALSE
      /\ ClearTx({p}) /\ pc' = [pc EXCEPT ![p] = "down"]
      /\ service' = service /\ up' = up
  BY DEF CommitDowngrade, View, Goto
<1>2. Downgrades(p) /\ service \in Services /\ Schema
  BY <1>1 DEF SchemaInv, Places
<1>3. /\ \A q \in Pods : pc[q]' = "down"
      /\ \A q \in Pods : made[q]' = {} /\ gone[q]' = {}
      /\ DOMAIN pc' = Pods /\ DOMAIN todo' = Pods /\ DOMAIN made' = Pods /\ DOMAIN gone' = Pods
  BY <1>1, <1>2 DEF ClearTx, SchemaInv, Places, Downgrades
<1>4. catalog' \subseteq {VersionTable}
  <2> SUFFICES ASSUME NEW o \in catalog', o # VersionTable PROVE FALSE
    OBVIOUS
  <2>1. o \in catalog /\ o \notin gone[p]
    BY <1>1, <1>2 DEF Downgrades
  <2>2. o \in Objects
    BY <1>2, <2>1 DEF Schema
  <2>3. PICK d \in Listed(Downgrade(service)) : o \in Dropped(d, catalog)
    BY <1>2, <2>1, <2>2, DowngradeDrops
  <2> QED
    BY <1>1, <1>2, <2>1, <2>3, NoList DEF Downgrades
<1>5. Schema'
  BY <1>1, <1>4 DEF Schema, Objects
<1>6. Alone' /\ Places'
  BY <1>1, <1>2, <1>3 DEF Alone, Places, Downgrades
<1> QED
  BY <1>5, <1>6 DEF SchemaInv

LEMMA SchemaStep == SchemaInv /\ [Next]_vars => SchemaInv'
<1> SUFFICES ASSUME SchemaInv, [Next]_vars PROVE SchemaInv'
  OBVIOUS
<1> USE DEF Schemes, db
<1>1. ASSUME NEW p \in Pods, Start(p) PROVE SchemaInv'
  <2>1. p \notin Http => p \in Workers
    BY DEF Pods
  <2>2. p \notin Http => head
    BY <1>1, <2>1 DEF Start, SchemaInv, Places, Pods
  <2> QED
    BY <1>1, <2>2, MovesOn DEF Start, Goto, tx
<1>2. ASSUME NEW p \in Pods, Connect(p) PROVE SchemaInv'
  <2>1. p \notin Http => head
    BY <1>2 DEF Connect, SchemaInv, Places
  <2>2. \A q \in Pods : pc[q] # "downgrading"
    BY <1>2, NobodyDowngrades DEF Connect
  <2> DEFINE at == IF p \in Http THEN "migrate" ELSE "serving"
  <2>3. /\ pc[p] = "waiting" /\ pc' = [pc EXCEPT ![p] = at]
        /\ UNCHANGED Schemes /\ todo' = todo /\ made' = made /\ gone' = gone /\ up' = up
    BY <1>2 DEF Connect, Goto, tx
  <2>4. at \in {"migrate", "serving"} /\ (at = "serving" => head)
    BY <2>1
  <2> QED
    BY <2>2, <2>3, <2>4, MovesOn
<1>3. ASSUME NEW p \in Pods, WaitTimesOut(p) \/ Exits(p) PROVE SchemaInv'
  BY <1>3, MovesOn DEF WaitTimesOut, Exits, Goto, tx
<1>4. ASSUME NEW p \in Pods, SeedReads(p) PROVE SchemaInv'
  <2>1. \A q \in Pods : pc[q] # "downgrading"
    BY <1>4, NobodyDowngrades DEF SeedReads
  <2>2. head
    BY <1>4 DEF SeedReads, SchemaInv, Places
  <2> QED
    BY <1>4, <2>1, <2>2, MovesOn DEF SeedReads, Goto
<1>5. ASSUME NEW p \in Pods, ExecuteFails(p) \/ SeedFails(p) \/ Crash(p) PROVE SchemaInv'
  <2>1. pc' = [pc EXCEPT ![p] = "down"] /\ ClearTx({p}) /\ UNCHANGED Schemes /\ up' = up
    BY <1>5 DEF ExecuteFails, SeedFails, Crash, Goto
  <2>2. /\ DOMAIN pc' = Pods /\ pc'[p] = "down" /\ \A q \in Pods \ {p} : pc'[q] = pc[q]
    BY <2>1 DEF SchemaInv, Places
  <2> QED
    BY <2>1, <2>2, GivesUp
<1>6. ASSUME NEW p \in Pods, CommitSeed(p) PROVE SchemaInv'
  <2>1. /\ pc[p] = "seeding" /\ pc' = [pc EXCEPT ![p] = "serving"] /\ ClearTx({p})
        /\ UNCHANGED Schemes /\ up' = up
    BY <1>6 DEF CommitSeed, Goto
  <2>2. /\ DOMAIN pc' = Pods /\ pc'[p] = "serving" /\ \A q \in Pods \ {p} : pc'[q] = pc[q]
    BY <2>1 DEF SchemaInv, Places
  <2> QED
    BY <2>1, <2>2, GivesUp
<1>7. CASE DbStops
  <2>1. /\ pc' = [q \in Pods |-> IF pc[q] \in Busy THEN "down" ELSE pc[q]]
        /\ ClearTx(Pods) /\ UNCHANGED Schemes /\ up' = up
    BY <1>7 DEF DbStops
  <2>2. /\ DOMAIN pc' = Pods
        /\ \A q \in Pods : pc'[q] = "down" \/ (pc'[q] = pc[q] /\ pc[q] \notin {"migrating", "downgrading"})
    BY <2>1 DEF Busy
  <2> QED
    BY <2>1, <2>2, GivesUp
<1>8. CASE DbStarts \/ UNCHANGED vars \/ \E p \in Pods : SeedRow(p)
  <2>1. UNCHANGED <<Schemes, pc, todo, made, gone, up>>
    BY <1>8 DEF DbStarts, vars, SeedRow, tx
  <2>2. Schema' /\ Places' /\ Alone'
    BY <2>1, ZenonT(40) DEF SchemaInv, Schema, Places, Alone, Migrates, Downgrades, NothingToDo, Fresh, Underway,
                Objects, Steps, First
  <2> QED
    BY <2>2 DEF SchemaInv
<1>9. ASSUME NEW p \in Pods,
             Migrate(p) \/ Execute(p) \/ CommitMigration(p) \/ StartDowngrade(p) \/ CommitDowngrade(p)
      PROVE  SchemaInv'
  BY <1>9, MigrateKeeps, ExecuteKeeps, CommitMigrationKeeps, StartDowngradeKeeps, CommitDowngradeKeeps
<1> QED
  BY <1>1, <1>2, <1>3, <1>4, <1>5, <1>6, <1>7, <1>8, <1>9 DEF Next, Proceeds

(* Whatever containers migrate one database at once, die, meet its stops   *)
(* or an operator's downgrade: the version tells what the database holds,  *)
(* and a container that serves has the schema.                             *)
THEOREM SchemaAlwaysMatches == Spec => []SchemaMatchesVersion
<1>1. SchemaInv => SchemaMatchesVersion
  <2> SUFFICES ASSUME SchemaInv PROVE SchemaMatchesVersion
    OBVIOUS
  <2>1. service \in Services /\ Schema
    BY DEF SchemaInv, Places
  <2>2. head => ReliedOn(service) \subseteq Names(catalog)
    BY <2>1, UpgradeMakes DEF Schema, Names
  <2>3. head => \A s \in Steps : s.makes \subseteq catalog
    BY <2>1 DEF Schema, Objects
  <2> QED
    BY <2>1, <2>2, <2>3 DEF SchemaMatchesVersion, SchemaInv, Schema, Places, Steps, Listed
<1> QED
  BY <1>1, SchemaInit, SchemaStep, PTL DEF Spec
=============================================================================
