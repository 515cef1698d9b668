------------------------------ MODULE Startup ------------------------------
(***************************************************************************)
(* The containers of one service coming up against its database: the       *)
(* entrypoint (wait, alembic upgrade head, seed, exec), what each does to  *)
(* the database statement by statement, and an operator's downgrade.       *)
(*                                                                         *)
(* A migration is one transaction.  A statement on a name that another     *)
(* transaction has made and not committed waits, and fails if it commits.  *)
(* The entrypoint stops at the first error and docker starts it again; it  *)
(* also starts again what ends by itself.                                  *)
(***************************************************************************)
EXTENDS Integers, Schemas

CONSTANTS
  Http, Workers,   \* containers; the HTTP ones run the migration
  Seeding,         \* containers with RUN_SEED
  Codes,           \* natural keys of the seeded rows: 1, 2, ...
  MaxFaults, MaxDowngrades   \* bounds

Pods == Http \cup Workers

ASSUME HttpOrWorker == Http \cap Workers = {}
ASSUME SeedersArePods == Seeding \subseteq Http
ASSUME CodesNumbered == Codes = 1..Cardinality(Codes)
ASSUME FaultsNatural == {MaxFaults, MaxDowngrades} \subseteq Nat

VARIABLES
  service,
  dbUp,
  catalog, head,      \* committed: the objects, and whether alembic_version is at head
  rows, announced,    \* committed: seeded rows, and created events in the outbox of each
  pc,
  todo, made, gone,   \* of a migration: statements left, objects made, dropped
  missing, inserted,  \* of a seed: rows to insert, and inserted
  up,                 \* containers that were started since the last "up"
  faults, downgrades

db == <<catalog, head, rows, announced>>
tx == <<todo, made, gone, missing, inserted>>
vars == <<service, dbUp, db, pc, tx, up, faults, downgrades>>

VersionTable == Object("alembic_version", "alembic_version", {})

Init ==
  /\ service \in Services
  /\ dbUp = FALSE
  /\ catalog = {} /\ head = FALSE
  /\ rows = {} /\ announced = [c \in Codes |-> 0]
  /\ pc = [p \in Pods |-> "down"]
  /\ todo = [p \in Pods |-> <<>>]
  /\ made = [p \in Pods |-> {}] /\ gone = [p \in Pods |-> {}]
  /\ missing = [p \in Pods |-> {}] /\ inserted = [p \in Pods |-> {}]
  /\ up = {}
  /\ faults = 0 /\ downgrades = 0
-----------------------------------------------------------------------------
Goto(p, at) == pc' = [pc EXCEPT ![p] = at]

ClearTx(S) ==
  /\ todo' = [p \in Pods |-> IF p \in S THEN <<>> ELSE todo[p]]
  /\ made' = [p \in Pods |-> IF p \in S THEN {} ELSE made[p]]
  /\ gone' = [p \in Pods |-> IF p \in S THEN {} ELSE gone[p]]
  /\ missing' = [p \in Pods |-> IF p \in S THEN {} ELSE missing[p]]
  /\ inserted' = [p \in Pods |-> IF p \in S THEN {} ELSE inserted[p]]

(* depends_on: a worker first starts beside a healthy HTTP container.      *)
Start(p) ==
  /\ pc[p] = "down"
  /\ \A q \in Pods : pc[q] # "downgrading"
  /\ p \in Workers /\ p \notin up => \E q \in Http : pc[q] = "serving"
  /\ up' = up \cup {p}
  /\ Goto(p, "waiting")
  /\ UNCHANGED <<service, dbUp, db, tx, faults, downgrades>>

AfterMigration(p) == IF p \in Seeding THEN "seed" ELSE "serving"

Connect(p) ==
  /\ pc[p] = "waiting" /\ dbUp
  /\ Goto(p, IF p \in Http THEN "migrate" ELSE "serving")
  /\ UNCHANGED <<service, dbUp, db, tx, up, faults, downgrades>>

(* What the container runs in the end goes on until it is stopped, but for *)
(* shipment.worker, which is an empty module.                              *)
Endless(p) == ~(service = "shipment" /\ p \in Workers)

Exits(p) ==
  /\ pc[p] = "serving" /\ ~Endless(p)
  /\ Goto(p, "down")
  /\ UNCHANGED <<service, dbUp, db, tx, up, faults, downgrades>>

WaitTimesOut(p) ==
  /\ pc[p] = "waiting" /\ ~dbUp
  /\ Goto(p, "down")
  /\ UNCHANGED <<service, dbUp, db, tx, up, faults, downgrades>>

CreateVersionTable == Statement({VersionTable}, {}, {}, FALSE)
EnsureVersionTable == IF VersionTable \in catalog THEN <<>> ELSE <<CreateVersionTable>>

(* Mutant of Pending: the version is not looked at.                        *)
PendingAlways == EnsureVersionTable \o Upgrade(service)

(* upgrade head: what is left to run.                                      *)
Pending == EnsureVersionTable \o (IF head THEN <<>> ELSE Upgrade(service))

Migrate(p) ==
  /\ pc[p] = "migrate" /\ dbUp
  /\ Goto(p, "migrating")
  /\ todo' = [todo EXCEPT ![p] = Pending]
  /\ UNCHANGED <<service, dbUp, db, made, gone, missing, inserted, up, faults, downgrades>>

View(p) == (catalog \ gone[p]) \cup made[p]
InTheWay(p, s) ==
  \E q \in Pods \ {p} : Names(made[q]) \cap Names(s.makes) # {}

(* The next statement, alone with the names it makes.                      *)
Execute(p) ==
  /\ pc[p] \in {"migrating", "downgrading"} /\ todo[p] # <<>>
  /\ LET s == Head(todo[p])
     IN /\ ~InTheWay(p, s)
        /\ Runs(s, View(p))
        /\ made' = [made EXCEPT ![p] = (@ \ Dropped(s, @)) \cup s.makes]
        /\ gone' = [gone EXCEPT ![p] = @ \cup Dropped(s, catalog)]
  /\ todo' = [todo EXCEPT ![p] = Tail(@)]
  /\ UNCHANGED <<service, dbUp, db, pc, missing, inserted, up, faults, downgrades>>

(* An error in the migration: the script ends, and the container with it.  *)
ExecuteFails(p) ==
  /\ pc[p] \in {"migrating", "downgrading"} /\ todo[p] # <<>>
  /\ ~InTheWay(p, Head(todo[p]))
  /\ ~Runs(Head(todo[p]), View(p))
  /\ ClearTx({p})
  /\ Goto(p, "down")
  /\ UNCHANGED <<service, dbUp, db, up, faults, downgrades>>

CommitMigration(p) ==
  /\ pc[p] = "migrating" /\ todo[p] = <<>>
  /\ catalog' = View(p)
  /\ head' = TRUE
  /\ ClearTx({p})
  /\ Goto(p, AfterMigration(p))
  /\ UNCHANGED <<service, dbUp, rows, announced, up, faults, downgrades>>
-----------------------------------------------------------------------------
(* seed: read what is there, insert the rest with its created events, in   *)
(* one transaction.                                                        *)
SeedReads(p) ==
  /\ pc[p] = "seed"
  /\ missing' = [missing EXCEPT ![p] = Codes \ rows]
  /\ Goto(p, "seeding")
  /\ UNCHANGED <<service, dbUp, db, todo, made, gone, inserted, up, faults, downgrades>>

NextRow(p) == CHOOSE c \in missing[p] : \A d \in missing[p] : c <= d

(* Mutant of SeedRow: a row that came in between is no error.              *)
SeedRowAnyway(p) ==
  /\ pc[p] = "seeding" /\ missing[p] # {}
  /\ \A q \in Pods \ {p} : NextRow(p) \notin inserted[q]
  /\ inserted' = [inserted EXCEPT ![p] = @ \cup {NextRow(p)}]
  /\ missing' = [missing EXCEPT ![p] = @ \ {NextRow(p)}]
  /\ UNCHANGED <<service, dbUp, db, pc, todo, made, gone, up, faults, downgrades>>

SeedRow(p) ==
  /\ pc[p] = "seeding" /\ missing[p] # {}
  /\ NextRow(p) \notin rows
  /\ \A q \in Pods \ {p} : NextRow(p) \notin inserted[q]
  /\ inserted' = [inserted EXCEPT ![p] = @ \cup {NextRow(p)}]
  /\ missing' = [missing EXCEPT ![p] = @ \ {NextRow(p)}]
  /\ UNCHANGED <<service, dbUp, db, pc, todo, made, gone, up, faults, downgrades>>

(* Ids and codes are the same in every run: a row that came in between     *)
(* violates a constraint.                                                  *)
SeedFails(p) ==
  /\ pc[p] = "seeding" /\ missing[p] # {}
  /\ NextRow(p) \in rows
  /\ ClearTx({p})
  /\ Goto(p, "down")
  /\ UNCHANGED <<service, dbUp, db, up, faults, downgrades>>

CommitSeed(p) ==
  /\ pc[p] = "seeding" /\ missing[p] = {}
  /\ rows' = rows \cup inserted[p]
  /\ announced' = [c \in Codes |-> announced[c] + (IF c \in inserted[p] THEN 1 ELSE 0)]
  /\ ClearTx({p})
  /\ Goto(p, "serving")
  /\ UNCHANGED <<service, dbUp, catalog, head, up, faults, downgrades>>
-----------------------------------------------------------------------------
(* alembic downgrade base, with the service stopped.                       *)
StartDowngrade(p) ==
  /\ downgrades < MaxDowngrades
  /\ dbUp /\ head
  /\ p \in Http /\ \A q \in Pods : pc[q] = "down"
  /\ downgrades' = downgrades + 1
  /\ up' = {}
  /\ Goto(p, "downgrading")
  /\ todo' = [todo EXCEPT ![p] = Downgrade(service)]
  /\ UNCHANGED <<service, dbUp, db, made, gone, missing, inserted, faults>>

CommitDowngrade(p) ==
  /\ pc[p] = "downgrading" /\ todo[p] = <<>>
  /\ catalog' = View(p)
  /\ head' = FALSE
  /\ rows' = {} /\ announced' = [c \in Codes |-> 0]
  /\ ClearTx({p})
  /\ Goto(p, "down")
  /\ UNCHANGED <<service, dbUp, up, faults, downgrades>>

DbStarts ==
  /\ ~dbUp
  /\ dbUp' = TRUE
  /\ UNCHANGED <<service, db, pc, tx, up, faults, downgrades>>

Busy == {"migrate", "migrating", "seed", "seeding", "downgrading"}

(* The database stops: what was open is rolled back, and the scripts fail. *)
DbStops ==
  /\ dbUp /\ faults < MaxFaults
  /\ dbUp' = FALSE
  /\ faults' = faults + 1
  /\ pc' = [p \in Pods |-> IF pc[p] \in Busy THEN "down" ELSE pc[p]]
  /\ ClearTx(Pods)
  /\ UNCHANGED <<service, db, up, downgrades>>

Crash(p) ==
  /\ pc[p] # "down" /\ faults < MaxFaults
  /\ faults' = faults + 1
  /\ Goto(p, "down")
  /\ ClearTx({p})
  /\ UNCHANGED <<service, dbUp, db, up, downgrades>>

Proceeds(p) ==
  \/ Start(p) \/ Connect(p) \/ Migrate(p) \/ Execute(p) \/ ExecuteFails(p)
  \/ CommitMigration(p) \/ SeedReads(p) \/ SeedRow(p) \/ SeedFails(p) \/ CommitSeed(p)
  \/ CommitDowngrade(p) \/ Exits(p)

Next ==
  \/ DbStarts \/ DbStops
  \/ \E p \in Pods : Proceeds(p) \/ WaitTimesOut(p) \/ StartDowngrade(p) \/ Crash(p)

Fairness == WF_vars(DbStarts) /\ \A p \in Pods : WF_vars(Proceeds(p))
Spec == Init /\ [][Next]_vars /\ Fairness
-----------------------------------------------------------------------------
(* entrypoint.sh and phase_1.md, "Every migration has a working            *)
(* downgrade": whatever containers migrate at once, fail or die, the       *)
(* version tells what the database holds -- all of the schema, with every  *)
(* name the code relies on, or nothing a later upgrade would stumble on -- *)
(* and a container that serves has the schema.                             *)
SchemaMatchesVersion ==
  /\ head => ReliedOn(service) \subseteq Names(catalog)
  /\ head => \A s \in {Upgrade(service)[i] : i \in DOMAIN Upgrade(service)} : s.makes \subseteq catalog
  /\ ~head => catalog \subseteq {VersionTable}
  /\ \A p \in Pods : pc[p] = "serving" => head

(* Seeding again, or twice at once, repeats no row and no created event.   *)
SeededOnce == \A c \in Codes : announced[c] = IF c \in rows THEN 1 ELSE 0

(* The containers come up and stay up: one that loses a race to migrate or *)
(* to seed is started again and finds the work done.  Shipment's worker    *)
(* does not: it ends each time docker has started it.                      *)
EveryoneServes == <>[](\A p \in Pods : Endless(p) => pc[p] = "serving")
=============================================================================
