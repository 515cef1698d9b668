# Smart Logistics in TLA+

Four FastAPI services (Identity, Warehouse, Inventory, Shipment), each with its own PostgreSQL
database, share the library `sl-platform`. They talk in two ways: synchronous HTTP calls with
timeouts, retries and a circuit breaker, and events that go through a transactional outbox, Kafka
and idempotent consumers. This directory holds TLA+ models of the parts where order and failure
decide whether the system is right, TLC configurations that check them, and TLAPS proofs.
`PROJECT.json` maps each definition to the lines it models.

Paths below are relative to `src/`; `inv/`, `shp/`, `idn/`, `wh/` and `pl/` abbreviate
`services/inventory/src/inventory/`, `services/shipment/src/shipment/`,
`services/identity/src/identity/`, `services/warehouse/src/warehouse/` and
`libs/sl-platform/src/sl_platform/`.

## 1. Inventory of the system

| Component | State | Operations | Talks to | What is hard | What makes it correct |
|---|---|---|---|---|---|
| Inventory reservations `inv/services/reservations.py` | `inventory_reservations`, `inventory_items.reserved_qty` | `reserve`, `confirm`, `commit`, `release`, `release_expired` | called by Shipment; consumes its events | concurrent sessions, denormalised counters, holds that expire, endpoints open to administrators and support | counters equal the rows; nothing oversold; one hold per shipment; confirmed holds never expire; no deadlock |
| Inventory positions `inv/services/stock.py` | `inventory_items`, `stock_movements` | `open_position`, `adjust` | - | races with reservations | ledger and counters reconcile |
| Inventory SKU catalogue `inv/services/skus.py` | `skus` | create, update, queries | - | little | unique code |
| Shipment creation `shp/services/shipments.py`, `shp/api/shipments.py` | `shipments`, `idempotency_keys` | `create`, `compensate`, `run_idempotent` | calls Inventory, emits `shipment.created` | partial failure between two databases, retries, crashes, late calls, calls to Inventory by hand | a recorded shipment has its stock; no stock is held for ever for nothing |
| Shipment lifecycle `shp/state_machine.py`, `shp/repository.py` | status, version, history, packages | `change_status`, `add_package`, scans | emits `shipment.status_changed` | lost updates, unlocked checks | legal paths only; history and events agree with the status |
| Warehouse replicas `*/services/replicas.py` | `warehouse_replicas` | `upsert` of a snapshot | consume `warehouse.*` | out-of-order snapshots, stale reads | converge to the owner's row |
| Warehouse service `wh/services/warehouses.py` | warehouses, zones, hours | create, update, status, delete, restore, zones, `replace_hours` | emits `warehouse.*` | a stamp taken before the row lock, concurrent replacement | snapshots agree with the row; one week of hours; deleted means gone everywhere |
| Identity `idn/services/` | users, sessions, assignments, lockout | login, refresh, revoke, role and scope changes | calls Warehouse; consumes `warehouse.deleted` | refresh racing revocation, counters without locks | a revoked family stays revoked; lockout counts every failure |
| Outbox and relay `pl/outbox.py` | `outbox_events` | `add_event`, `run_once`, `run_forever` | publishes to Kafka | crash between send and commit, several relays | nothing lost, nothing of a rolled-back change, order per key |
| Consumer `pl/consumer.py` | `processed_events`, committed offsets | `process`, `run` | applies handlers | redelivery, rebalance, poison events | effects once and in order |
| Worker processes `*/worker.py`, `pl/worker.py` | running tasks | start, stop | host relay and consumer | a task that ends unnoticed | work goes on while the process is up |
| Idempotency store `pl/idempotency.py` | `idempotency_keys` | `claim`, `complete`, `release` | used by every mutating endpoint | leases and ttl running out under a live request | one effect per key |
| Service client, breaker `pl/http.py` | breaker counters | `request` | - | half-open races, calls that outlive the caller | opens and closes as configured |
| Tokens and JWKS cache `pl/auth.py` | cached keys | verify, refresh keys | Identity | stale keys | a key in use is found, a retired one forgotten |
| Migrations `services/*/migrations` | the catalog of a database, `alembic_version` | upgrade, downgrade | run by every HTTP container | several containers at once, a database that restarts | the version tells the schema |
| Startup `infra/docker/entrypoint.sh`, `*/seed.py` | place of a container in its script, seeded rows | wait, migrate, seed, exec | PostgreSQL | races with other containers, crashes, a container that ends by itself | those that can come up do; nothing is seeded twice |
| Request schemas, endpoints, shell | none of their own | - | - | - | - |

How a shipment runs through it: `POST /shipments` claims the `Idempotency-Key`, calls Inventory's
`reserve` (which commits a hold with a deadline), and then writes shipment, history,
`shipment.created` and the stored response in one transaction; on failure it drops the claim and
releases the hold. The outbox relay publishes `shipment.created`; Inventory's consumer confirms the
hold, which stops its deadline. Dispatch and cancellation travel the same way and commit or release
the hold.

The hazards found while reading, each at its line and with the properties that watch it, are listed
under `hazards` in `PROJECT.json`.

## 2. Modules

```
StockHolds  <--------- implements -------  ReservationTx   (row locks, read-modify-write)
   ^                                          ^
   |                                          +-- ReservationTxProofs (TLAPS, of both)
   |
Fulfilment  --- relies on --->  EventChannel  <--- implements ---  EventDelivery
(Shipment + Inventory)          (ordered, once)                    (outbox, relay, Kafka, consumer)
   ^                                 ^                                ^
   +-- FulfilmentProofs (TLAPS)      |                                +-- EventDeliveryProofs (TLAPS)
                                     |
WarehouseReplicas ---- relies on ----+
(Inventory, Shipment, Identity)
   |
   +-- extends --> Warehouses  (row, zones, hours, snapshots)
   ^
   +-- WarehousesProofs (TLAPS, of both)

ShipmentStates  <----- implements -------  ShipmentLifecycle   (unlocked read, versioned UPDATE)
                                              ^
                                              +-- ShipmentLifecycleProofs (TLAPS, of both)

Sessions  <-- SessionsProofs (TLAPS)       Requests  <-- RequestsProofs (TLAPS)
(one account, its refresh tokens)          (run_idempotent, ServiceClient, breaker)

Startup  -- extends --> Schemas            StartupProofs (TLAPS)
(entrypoint, alembic, seed)
```

**StockHolds** - what Inventory promises, one action per committed transaction. `onHand` and
`reserved` are the columns of `inventory_items`; `received` and `dispatched` are the sums of the
`stock_movements` ledger; `site`, `quantity`, `status`, `confirmed` and `lapsed` are the columns of
`inventory_reservations`. `Hold` is `reserve` with the reclaiming of lapsed rows it does on its way
(`_expire_unconfirmed`), `Confirm`, `Commit`, `Release` and `Expire` are the other methods of
`ReservationService`, `Adjust` covers `open_position` and `adjust`, and `Lapse` is the clock passing
`expires_at`. A status is refined in two places: `none` is a missing row and `expired` a row released
with the reason of the sweep. `Hold` and `Expire` may take any subset of the reclaimable rows on the
positions they lock: a session may have looked before another row's deadline passed.

**ReservationTx** - the same handlers as PostgreSQL runs them at READ COMMITTED: an unlocked read
that chooses the items, `SELECT .. ORDER BY id FOR UPDATE` one item per step, a second read under the
locks (`populate_existing`), the multi-row `INSERT` against `uq_reservation_shipment_sku` one entry
per step, and a commit that writes the absolute values the ORM computed. Each session may be rolled
back anywhere (`Rollback` also stands for every refusal). The variables inherited from StockHolds are
the committed tables.

**Fulfilment** - Shipment pods and Inventory together. `Request`, `Reserve`, `Record`, `RecordFails`,
`Compensate` are the stages of `create_shipment`; `pc`, `serving` are a pod's place in it, `claim` the
row of `idempotency_keys`. `Abandon` and `StrayArrives` are calls that outlive their caller; `Crash` a
dying pod; `RecordUnseen` a COMMIT that succeeds and raises; `ClaimLapses` the lease or the ttl of a
claim. `Deliver`, `GiveUp` and `DeliverLate` are Inventory's consumption of shipment events, with the
promise of EventChannel: `events` are those ahead of the consumer, `late` those it gave up. All three happen
only while `flowing`, that is while Shipment's relay and Inventory's consumer both run; `PathStops` and
`PathStarts` are a worker or a task of it ending and coming back. `ByHand` is a person with the role of an
administrator or of customer support who posts to Inventory's `/reservations`, `/confirm`, `/commit` or
`/release` (`inv/api/reservations.py:33-83`, `inv/api/deps.py:44`): Inventory asks nobody what the shipment
says. `byHand` is the history of these calls. Inventory is StockHolds itself, so every call is one of its
steps.

**EventChannel** - the abstract promise of the event path: per key in order, each event at most once,
an event may be dropped after its handler kept failing, and a dropped one may be applied later.

**EventDelivery** - the path itself. `Stage`/`EndTx` are `add_event` and the transaction around it,
`Claim`, `Send`, `SendFails`, `FinishBatch` the statements of `OutboxRelay.run_once`; `RelayDies` and
`PodDies` are death and restart in one step;
`Fetch`, `Handle`, `Retry`, `GiveUp`, `CommitOffset`, `CommitRefused` those of `KafkaConsumerRunner`
with `EventProcessor.process`; `Join` and `Revoke` are the group coordinator (external).

**ShipmentStates** - one shipment, one step per committed transaction: `Move` is `change_status`
through `ALLOWED_TRANSITIONS`, `Edit` is `update`. `row` holds status, version, delivery attempts and
the four lifecycle timestamps (as the version that wrote them), `history` is
`shipment_status_history`, `events` the created and status_changed events in outbox order. One
shipment is enough, no two share a row. Fulfilment knows only `recorded`, `dispatched` and
`cancelled` of these thirteen statuses; `OneFate` is what makes that sound: goods that left are
never cancelled.

**ShipmentLifecycle** - the same handlers as sessions of PostgreSQL run them. `Begin` is the unlocked
read and the tests on it, `Update` the flush whose `UPDATE .. WHERE version = <read>` waits for the row
and matches or not, `CommitMove` and `CommitEdit` the commit; `BeginPack`, `NumberParcel`,
`InsertParcel`, `CommitParcel` are `add_package`, whose number `uq_package_sequence` guards. `Rollback`
ends a session anywhere. Roles and scopes only refuse; `update_package` changes parcel columns nothing
else reads; `shipment.updated` has no consumer: all three are left out.

**Warehouses** - one warehouse as the Warehouse service's sessions work on it: `row` is its committed
row (`stamp` is `updated_at`), `zones` and `hours` its parts, `log` the snapshots it published. A
request that changes the row reads it (`Begin...`), computes its stamp and its object (`Flush`: only
columns that differ are written, an update that changes nothing writes nothing), waits for the row
(`Write`), and commits the columns it changed with an event that carries the object as this session
had it (`Commit`). Zones wait for an index entry (`WriteZone`, `CommitZone`); `replace_hours` is the
`DELETE` with its snapshot (`StartClear`, `Clear`), one `INSERT` per day (`InsertDay`) and
`CommitHours`. A day's row is known by the request that wrote it, so that a week made of the rows of two
requests shows. A schedule is any the request schema accepts (`wh/schemas.py:69`: one day to seven, none
twice), so two of them may be disjoint. `unseen` and `patched` are history: the days of the last week that was
committed since a replacement's `DELETE` took its snapshot, and whether the last week committed was added to
such a week with no day in common.

**WarehouseReplicas** - what the consumers make of `log`: `Deliver` is `upsert_warehouse` of Inventory
and of Shipment (one code, ordered by `updated_at`). `Drop` is an event given up; it stays in `late`, and
`DeliverLate` applies it after its successors, when its batch is delivered again. Identity's side is
`Ask`/`Assign` (`assign_warehouse` with its question to the Warehouse service and its `INSERT`),
`Unassign`, and `IdentityDelivers`, `IdentityDrops`, `IdentityDeliversLate` for the handler of
`warehouse.deleted` (`Unscope`).

**Sessions** - one account of Identity: `user` is its row, `tokens` the committed refresh tokens.
Requests read the account without a lock (`Begin...`), lock the token they rotate (`LockToken`, which
also finds replays), read the account (`CheckUser`), revoke row by row what the `UPDATE` saw when it
started (`StartSweep`, `SweepRow`, `SweepEnds`), write the account last (`WriteUser`: the session does
not flush before a bulk UPDATE), and commit, issuing a token on login and refresh (`Commit`).

**Requests** - `run_idempotent` around a call through `ServiceClient`, in pods that die. `row` is the
row of one key, with an id that is new at every insert; `Insert` and `Select` are `claim` with its five
outcomes (`Refused`, `Reuse`, `Replay`, `TakeOver`, and the fresh claim); `Call`, `Answered`, `NoAnswer`,
`Again` are the attempts of `ServiceClient.request`, `Failure` and `HalfOpens` the breaker; `Record`,
`Commit`, `CommitUnheard`, `Fails`, `Release`, `GivesUp` how a request ends. `clock` ticks against
`Lease` and `Ttl`. Fulfilment has the same claim with its effect on stock and no clock; this module
has the identity of rows, bodies, takeovers and the breaker.

**Schemas** - the migration of each service as a sequence of statements on a catalog: tables, enum
types, sequences, unique names, and who refers to whom. `Runs` says when PostgreSQL accepts one.
`ReliedOn` lists the names the code asks the database for.

**Startup** - the containers of one service: `Start`, `Connect`/`WaitTimesOut`, `Migrate`, `Execute`,
`CommitMigration`, `SeedReads`, `SeedRow`, `CommitSeed` are the stages of `entrypoint.sh` with what
`alembic` and `seed.py` do at each; `...Fails` is a script that stops at its first error, and docker
starting the container again is `Start`. `Exits` is the worker of Shipment, whose module is empty: it
reaches the end of its script, ends, and is started again, for ever (`Endless` says who does not). `StartDowngrade`/`CommitDowngrade` is an operator's
`alembic downgrade base`.

**MC...** modules give the constants of the larger models values.

## 3. Runs

| Run | Instance | Shows |
|---|---|---|
| `stock_holds` | 2 shipments, 2 SKUs, 1 warehouse, quantities to 2, 3 units of stock | counters equal rows, nothing oversold, ledger reconciles, rows final |
| `reservation_tx` | 2 sessions, 2 shipments sharing a SKU, one with a second line | confirmed rows kept, no lost update, rows picked for expiry stay reclaimable, no deadlock, and every transaction is one StockHolds step |
| `fulfilment` | 2 pods, 2 shipments, no idempotency key, no lost acknowledgement of a `COMMIT`, events before the deadline, no event given up, 1 call to Inventory by hand | a recorded shipment nobody reserved, committed or released by hand keeps its stock; stock catches up with the shipment if relay and consumer run from some point on |
| `fulfilment_faults` | 3 pods, 1 shipment of 2 SKUs under a key, every fault switched on, each of the 4 kinds of call by hand | stock is committed or confirmed ahead of the shipment only by a call by hand that does just that |
| `event_delivery` | 1 relay, 2 consumer pods, 2 keys, 2 events, 2 faults | nothing lost, implements EventChannel, every event is dealt with while a consumer runs |
| `shipment_lifecycle` | 2 sessions on one shipment | two changes of one version never both apply; history, events, attempts and timestamps follow the state machine; parcels are numbered without gap |
| `warehouses` | 2 sessions, 4 requests, 1 replica, 1 operator, 1 event given up, 1 assignment | a replica comes back in step once a change ran alone; a deleted warehouse keeps no operator but for one race; both although the event given up is applied late; a week is one request's work, but for a replacement committed over an unseen week it shares no day with |
| `sessions` | 3 sessions, 5 requests on one account, lock after 2 failures | a token is exchanged once; a revocation reaches every session there was; failures lock the account |
| `requests` | 3 requests at a time in 2 pods, 2 bodies, lease 1, ttl 2, breaker after 2 failures, 1 retry | work and stored response go together, repeats agree, an open breaker lets only the retries under way through |
| `startup` | 2 HTTP containers that seed, 1 worker, 2 rows, 2 faults, 1 downgrade; each of the four services | the version tells the schema, nothing is seeded twice, everyone but Shipment's worker serves in the end |
| `retried_create` (violation) | one keyed shipment | a retry is recorded on a hold that was given back |
| `dead_consumer` (violation) | 1 consumer, 1 fault | a consumer task that ended is never restarted |

The two violations contradict sentences of the repository, quoted under `findings`.

Nine properties hold on a condition that a history variable tracks, because the code does not give
more. Four conditions are cleared when the code has recovered, and the property holds again from then on:
`torn` (`InStep`) by a change that ran alone, `raced` (`NoGhostScope`) of an operator who is unassigned or
asks again, `mixed` (`LockoutCounts`) by a reset that ran alone, and `patched` (`WholeWeek`) by the next week
committed by a replacement that saw the week before it or shares a day with it. Two are never cleared:
`overtaken` (`WorkIsRecorded`, `AnswersAgree`), after which these two say nothing more of that key, and
`byHand` (`LiveStock`, `StockFollowsShipment`, and `StockCatchesUp` for dispatched goods), which exempts the one
shipment somebody called Inventory for, and of it only what that kind of call does. Each names the one way
the unconditional claim fails; "Known gaps" describes them.

### Bounds and why they are enough

* Two shipments compete for a position; a third changes nothing in what a handler may do to another's
  rows, and the proofs cover any number. Two SKUs give a hold lines that can be lost separately.
  Quantities to 2 in `stock_holds` tell a row's units from the row itself.
* `fulfilment_faults` has one shipment. `StockFollowsShipment` is said of each shipment by itself, and another
  one can do only two things to its rows: reclaim them once they lapsed, which `Sweep` does too, and take
  the stock it would need, which is `ReserveFails`. Three pods (an attempt, its retry, and one that takes
  the key over) and two SKUs are what meets on one shipment. The proof covers any number of each.
* `MaxByHand` is 1 in `fulfilment`, where one call is enough to take a shipment's stock or the stock another
  one wants, and 4 in `fulfilment_faults`, so that every subset of the four kinds of call occurs.
* `MCWeeks` has two disjoint weeks and one that overlaps both, so that replacements of any two of these
  relations meet.
* `MaxStock` caps the ledger total. It is below what all shipments ask for (4 units of one SKU against
  3), so refusals happen.
* Two sessions are enough for every pairwise race of `reservation_tx`, and the proofs cover any number.
  `MaxId` stands for the largest key of an item (they are UUIDs). Deadlock needs a cycle; longer cycles than two have
  the same cause, two orders of locking, which is what the order by `ItemId` excludes.
* In EventDelivery `MaxEvents` caps outbox rows, `MaxFaults` failures (a failing attempt, a failing
  send, a dead process, a revocation). Two events of one key are what order needs, two events of
  two keys what independence needs. Two faults give a failed send followed by a revoked batch.
* In `shipment_lifecycle` `MaxVersion` caps the changes of the row: `returned`, the terminal status
  furthest away, has version 10 on its shortest path, so every status and one retry, detour or edit
  on the way is reached. Two parcels are what a duplicate needs.
* `Workloads` (in `warehouses`, `sessions`, `requests`) are the mixes of requests a behaviour draws
  from: each mix has the kinds that touch the same rows, so that they meet within `MaxRequests`, and
  together the mixes have every kind. `MaxRequests` 4 in `warehouses` is a create, two that overlap and
  one alone that repairs. In `sessions` 5 are two logins, a refresh, a revocation and a replay of the
  old token; the proof covers any number. In `requests` `times` of a workload is that bound.
* `MaxClock` 3 is past one `Ttl` (2) and three times the `Lease` (1): a lease lapses under a holder, a
  key expires and is used again.
* `MaxDrops`, `MaxAsks` 1 in `warehouses`: an event of the replica's or of Identity's is given up, and any
  number of later ones are applied before it comes late.
* `MaxDowngrades` 1 and `MaxFaults` 2 in `startup`: a container may die, the
  database may restart while another migrates, and the schema is built again after a downgrade.
* `CHECK_DEADLOCK FALSE` in every run: with all bounds used up and nothing pending the system rests.

### Fairness

* Fulfilment: `WF(Deliver(s))` only, and `Deliver` is enabled only while `flowing`: as long as the relay's
  `run_forever` and the consumer's `run` go round, an event at the head of a shipment's queue is applied in
  the end, which is what EventDelivery's `HandledWhileRunning` shows on the same condition. Nothing forces
  them to run: the specification lets them stop for good (`dead_consumer` shows one way, the empty
  `shipment/worker.py` is another), and `StockCatchesUp` therefore has the premise `<>[]flowing`. Clients,
  pods, people, sweeps and deadlines are never forced.
* EventDelivery: a relay goes on with its batch and looks for the next one, a pod goes on with its
  batch, and the group coordinator gives a free partition to a running consumer. Worker processes
  come back because compose says `restart: unless-stopped`; death itself is never forced, so
  liveness does not lean on a restart. Faults are finite (`MaxFaults`), otherwise a send may fail for ever.
* Startup: a container that can go on does (`WF(Proceeds(p))`: the script, and docker's
  `restart: unless-stopped` for a container that ended), and the database comes up (`WF(DbStarts)`). The
  worker of Shipment proceeds to its end and back again, so `EveryoneServes` leaves it out. A
  wait that times out, a crash and a stop of the database are never forced; the last two are finite.

### Assumptions of the models

* `fulfilment` assumes what its switches say: no retry under an idempotency key, no lost
  acknowledgement of a COMMIT, no event given up, and events applied before the hold's deadline. `LiveStock`
  says nothing of a shipment whose stock somebody reserved, committed or released in Inventory by hand
  (`Untouched`); that they do so for another shipment is part of the run. The
  corresponding failures are real; `fulfilment_faults`, `retried_create` and "Known gaps" say
  what is left without the assumptions.
* `ReservationTx` has one warehouse and one set of lines per shipment id (`OneBody`), an assumption of
  its proofs too: the Shipment service derives the id and its lines from one request. "Known gaps" has
  what happens without it. The order of the lines may differ from body to body.
* A transaction that stages an event has locked its aggregate's row before (`update .. where version`,
  row locks), so at most one open outbox transaction exists per key. The exception is a PATCH that
  changes nothing, which stages an event without touching the row. One partition stands for all: a
  key has one.
* A commit for a partition that was taken away raises, as aiokafka's does. A batch fetched under an
  earlier assignment of the same pod does not move the position of the current one.
* `warehouses`: `utcnow` is a counter, so no two requests take equal stamps; the rows of a `DELETE` are locked
  together, since only which of them are left matters for the committed week.
* `sessions`: a lockout may end at any time (`LockoutEnds`); tokens do not expire, which only refuses.
  `update_profile` writes columns nothing else reads.
* `startup`: compose runs one HTTP container per service; the model has two that seed, as the warning of
  `entrypoint.sh` about several replicas has it. A downgrade runs with the service stopped. Rows of
  two seeds have the same ids and codes, so that the second meets a constraint.
* Checks that only refuse (unknown SKU, closed warehouse, missing role, version conflict) leave no
  effect and are covered by the actions not being taken.

## 4. Proofs

`ReservationTxProofs` proves of StockHolds, for every finite set of shipments, any SKUs and warehouses and any maximal
quantity (assumptions: `ShipmentsFinite`, `NoSiteFresh`, `MaxQtyPositive`, `MaxStockNatural`):

| Theorem | Statement |
|---|---|
| `InductiveInvariant` | `Spec => []IInv` |
| `TypesHold` | `Spec => []TypeOK`: the unsigned columns never go below zero |
| `ReservedIsAlwaysHeld` | `reserved_qty` is the units of the HELD rows |
| `NeverOversold` | `reserved <= onHand` |
| `AlwaysReconciles` | the ledger's outbound movements are the COMMITTED rows, on hand is what came in less what went out |
| `ConfirmedNeverExpires` | a confirmed row is never expired |
| `RowsAreFinal` | rows are written once and leave `held` at most once |

No single property is inductive. That `reserved_qty` does not go below zero needs that it counts
the held rows; that it still does after `Hold` needs `NoRowsNoHolds` (a shipment without rows is in no
set of holders), and that `on_hand_qty` does not go below zero after `Commit` needs
`NothingOversold`. `IInv` is their conjunction, with the columns typed as integers only: that they are
natural follows (`IInvGivesTypes`) instead of being assumed.

The sums are counted, not added: `Count(q, S, k)` is the cardinality of the set of units the rows of
`S` stand for, so that sums split and shrink by facts about finite sets. Five lemmas say how counting
behaves (`CountType`, `CountNone`, `CountSplit`, `CountOne`, `CountSame`), two more what one shipment's
move (`MovedUnits`) and a reclaimed set of rows (`ExpiredUnits`) do to every position, and one lemma per
action puts them together. `Hold` is the long one: it reclaims some shipments' rows and adds one
shipment in the same step.

Of the same handlers with their locks, ReservationTx, it proves for any number of sessions, any
bodies and any numbering of the items (assumptions beside those of StockHolds: `NobodyFresh`,
`ItemIdInjective`, `BodiesTyped`, `OneBody`):

| Theorem | Statement |
|---|---|
| `TxTypesHold` | `TxSpec => []TxTypeOK` |
| `NoUpdateLost` | what a session read under its locks is current until it commits |
| `StaysReclaimable` | rows a reserve has picked to expire are not confirmed, committed or released before it commits |
| `NeverDeadlocks` | no set of sessions waits in a circle |
| `TxConfirmedKept` | a confirmed row never expires |
| `TxImplementsStockHolds` | every transaction is one step of StockHolds |

Its invariant `TxInv` is what the sessions rely on: `Tables` (the invariant of StockHolds, the rows of a
shipment are those of its body, a position nobody opened is empty), `Alone` (a row lock has one holder),
and five parts per session, `Locks` (what it read is what there is, and it goes up in the order of
ids), `Serves` (its locks cover its request), `Reclaims`, `Inserts` (a line it has still to insert
may be refused, one it inserted is free) and `Enters` (index entries belong to inserting sessions).
`KeepsOthers(O)` says what a transaction that holds the items `O` may do to the tables, and one lemma,
`OthersKeep`, that every session that holds none of `O` keeps its parts; each handler then has to show
only that its commit is `KeepsOthers` and a step of StockHolds. Deadlock is excluded by the last item
anybody waits for: its holder waits for an item further on, which contradicts that it is the last.
Index entries do not enter the argument, because two sessions that insert the rows of one shipment
would both hold its items (`NobodyInTheWay`).

`ShipmentLifecycleProofs` proves of ShipmentStates and of ShipmentLifecycle, for any number of sessions, changes and
parcels (assumption: `BoundsNatural`):

| Theorem | Statement |
|---|---|
| `TrailStaysPath` | history and events are a path of the state machine that ends at the status |
| `FateIsOne` | a shipment is cancelled or its goods left, never both |
| `StampsStay` | a lifecycle timestamp is never overwritten |
| `LifecycleImplements` | whatever the sessions interleave, the shipment takes the steps of ShipmentStates only |
| `TrailStaysPathUnderSessions`, `FateIsOneUnderSessions`, `StampsStayUnderSessions` | so the first three hold of a shipment under its sessions |
| `LifecycleTypesHold` | rows and sessions keep their types, and one session at most is past its `UPDATE` |
| `AttemptsAlwaysCounted` | the attempt counter is the number of failed deliveries in the trail |
| `ParcelsAlwaysNumbered` | parcels are numbered without gap or duplicate |

The invariant of the first three is `Lived`: types, `TrailIsPath`, `OneFate` and, for a timestamp
to be written once, that the stamp of a status the shipment can still come to for the first time is
NULL (`StampsAhead`). That of the fourth is `Versioned`: a session's copy has the version of the row
only if it is the row, since every change moves the version up, and after a matching `UPDATE`
nobody else changes the row before the commit. So the commit, computed from the copy, is a step from
the row itself, and every run of the sessions keeps what the state machine keeps (`StepsInTurn`). For the
parcels the invariant is `Packed`: a session past its `INSERT` has the number after the last
committed one, and the unique index lets only one session be there.

`FulfilmentProofs` proves, for any number of pods, shipments, orders and idempotency keys (assumptions
beside those of StockHolds: `OrdersTyped`, `PodsDistinct`):

| Theorem | Statement |
|---|---|
| `ShopUsesStockHolds` | pods and consumer use Inventory by its own steps only, so all that is proved of StockHolds holds of the whole |
| `StockAlwaysFollows` | under every fault, stock is committed only for a shipment that was dispatched or committed by hand, and confirmed only for one that was recorded or confirmed by hand; nothing is said of released rows |
| `UnkeyedHaveStock` | with events in time (`Punctual`) and no `COMMIT` reported as failed (`~AcksLost`), a recorded shipment created without a key has its stock unless it was reserved, committed or released by hand, even if events are given up |
| `DispatchedFindStock` | if no create carries a key, every recorded shipment has its stock, with the same exception |

The invariant of the first two is `ShopInv`: types, and that an event in the log, delivered or not, tells
of a status its shipment did reach (`EventsTrue`), so that a late or repeated one can only bring stock
to where the shipment is. A call by hand does to a shipment what it says and leaves it in `byHand`, and one
that has happened stays there, so the exceptions of `StockFollowsShipment` are never withdrawn. The last
two are by induction over the shipments that are `Untouched`: a call by hand for another one can take the
stock this one wants, which only refuses it, and a `confirm` by hand for this one stops a deadline that
`Punctual` would not let pass either. An id
created without a key is used by one request: `OneRequest` says of each such shipment which of the
stages it is in, from unused, over called (by the pod that serves it and by no stray call) and held, to
recorded with its rows held and unlapsed until confirmed. A stray call or a compensation for it would
need a second request. The conditions are necessary: without `Punctual` a hold is reclaimed before its
event, with `AcksLost` a recorded shipment is compensated, and `retried_create` is the run in which a
create repeated under its key loses the stock ("Known gaps").

`SessionsProofs` proves, for any number of overlapping requests, any workload and no bound on them
(assumptions used: `NobodyFresh`, `FailuresPositive`):

| Theorem | Statement |
|---|---|
| `OneSuccessorAlways` | a refresh token is exchanged at most once, and says for which |
| `SweepReachesAllAlways` | a committed revocation leaves no session alive that was committed before its statement started |
| `LockoutAlwaysCounts` | failures that did not overlap are counted one by one and lock the account |
| `SessionsTypesHold` | account, tokens and requests keep their types, a token is replaced by a later one |

The invariant of the first two is `SessionInv`. `OneSuccessor` needs that a request about to rotate a token has it
locked and that the token is live (`Ticket`), that locks exclude each other, and that a revocation
revokes at its commit only what it locked (`Locking`: `hit` is in `held`). `SweepReachesAll` needs
`Sweeping`: every live token older than a revocation under way is one it has yet to visit or one it
has updated; a token it passes over was revoked when its lock came free, and a token born later is
not older than `started`. The last two have `AccountInv` beside it: what a request is about to write fits
the columns (`Fits`), only password checks write the counter (`Checks`), and one that met no other read the
count that is still there (`CountsOn`): nobody else can have committed one since, though roles,
status and sessions may have changed meanwhile.

`EventDeliveryProofs` proves, for any number of pods, keys, events and failures, batches of any size and, the
first two, any number of relays (assumptions: `BatchPositive`, `AttemptsPositive`, `BoundsNatural`):

| Theorem | Statement |
|---|---|
| `DeliveryTypesHold` | rows, locks, batches and offsets keep their types |
| `NothingIsLost` | what is marked published is in the topic, what lies before the committed offset was handled |
| `DeliveryImplementsChannel` | with one relay, the path takes the steps of EventChannel only: per key in order, each event at most once, nothing rolled back |

The invariant of the second is `Safe`: a row a relay counts as sent is in the topic, which only grows, and what a pod
has passed was handled, because its batch starts at the committed offset. A relay or a pod may die
anywhere, since what it forgets is only what it would have marked or committed.

The third adds `Ordered`: an open row is the youngest of its key, since the change that stages it has its
aggregate locked (`Staged`); what a relay has claimed, what is in the topic and what was handled is
committed (`Travels`); and no older event of a key is left behind, neither outside a batch unpublished nor, in
the topic, later than the younger one (`InTurn`). A pod that handles an event for the first time has therefore
handled every older one of its key, which are before it in the topic, and so takes the head of what is
pending; any other time the marker in `processed_events` makes it a stutter. `OneRelay` is a hypothesis of the
theorem: it says that the rows `SKIP LOCKED` passes over are the relay's own, of which it has none when it
claims. With two relays the other two theorems still hold but not the order ("Known gaps"). What is pending for
a key is listed by rank (`InOrder`), so the proof needs no recursion: the lemmas on `Rank` say that ranks
of a finite set count it through (`Ranked`), that a row younger than all is appended (`InOrderAdds`) and
that taking the oldest away is `Tail` (`InOrderDrops`).

`RequestsProofs` proves, for any number of requests, pods, bodies, mixes of requests, leases and
lifetimes (assumptions: `PodsOfHandlers`, `NoneOfThem`, `ThresholdPositive`, `BoundsNatural`, `WorkloadsOfBodies`,
`LeaseBelowTtl`, `HandlersFinite`):

| Theorem | Statement |
|---|---|
| `WorkIsAlwaysRecorded` | work done for a key since it last expired is done once and has its response stored |
| `AnswersAlwaysAgree` | an answer is of work done for its body, and two answers to one key agree |
| `RequestsTypesHold` | rows, claims, locks and attempts keep their types, a completed row has a response and no lease |
| `BreakerAlwaysStops` | what a pod sends while its breaker is open is retries of calls admitted before |

The first two are limited by the history `overtaken`, as the properties are. The invariant is `Shape`
(types, who has a claim where, that `record` locks the row it completes) and, until a claim was taken
from a living holder, `Held`: a claim has one holder, whose row is there, open and of its era. This is
what makes a commit complete the row, so that nothing is done for the key unrecorded (`Once`). The
answers need `Truthful` on top: every answer and the stored response are of committed work, of the body
in the row (`Honest`, which a lapsed lease does not disturb but a lapsed lifetime does) and of the
current era (`Dated`). Every action is one of four kinds (`Kinds`): it leaves the row alone, takes it,
commits, or drops it, and each part of the invariant is kept once per kind. `BreakerStops` counts over the handlers of a pod,
so its invariant `Limited` counts too: every handler of the pod brings one pair per retry it is
allowed, `Left` is the set of pairs not used up, and the attempts sent since the breaker opened are no
more than the pairs that are gone (`Sparing`). A call that finds the breaker open is refused before its
first attempt, so `Left` only shrinks, by a pair for every attempt that counts, until the breaker half-opens
and counting starts anew.

`StartupProofs` proves, for any containers, rows, faults and downgrades, and each of the four services:

| Theorem | Statement |
|---|---|
| `SeededOnceAlways` | each row is inserted once and announced once |
| `SchemaAlwaysMatches` | the version tells what the database holds, a container that serves has the schema |

For the first, what open seeds have inserted is disjoint, and disjoint from what is committed
(`SeedsApart`), so that a commit adds one announcement to rows that had none. For the second
the invariant is `SchemaInv`: a migration under way has nothing to do, has not begun (`Fresh`) or has made
the first object (`Underway`), and the last only one of them has, since the others wait for its
names. Once it commits, the first statement of the others meets a name that exists. A downgrade runs
alone, and every object of an upgrade belongs to a table or type that some statement of the downgrade
drops: this is a lemma about each service's migration (`WarehouseMigration` and so on), and the one that
forgotten `DROP TYPE`s would break. Sequences of statements are used as sets (`Listed`).

`WarehousesProofs` proves of Warehouses and WarehouseReplicas, for any number of sessions, zones, days,
schedules, replicas and operators and any workload (assumptions used: `NobodyIsNoTx`, `RequestsPositive`,
`NamesGiven`, `SchedulesValid`, `BoundsAreNatural`):

| Theorem | Statement |
|---|---|
| `WeekAlwaysWhole`, `WeekWholeForReplicas` | for any schedules, disjoint ones included: the committed week is the work of one request, unless the last one committed was added to an unseen week it shares no day with (`patched`) |
| `ReplicasTypesHold` | tables, sessions, copies and scopes keep their types |
| `AlwaysInStep` | a replica past all events that has applied the last one holds the owner's row, once a change ran alone, whatever was given up and is applied late |
| `NeverGhostScope` | an operator left scoped to a deleted warehouse was between question and `INSERT` when a deletion was handled, in turn or late |

The typing `OwnerShape` has to bound the stamps: each request takes one when it leaves its read, so
`StampsCounted` has stamps taken and requests still reading together within the requests begun. It also says
whose copy is what (`Owns`): a request with the row lock has not published yet, and a copy has the columns its
request sets. The week needs three parts. Requests have numbers of their own (`Numbers`); a
replacement keeps the days it has deleted or inserted locked (`DaysHeld`); and `Replaces` says how it stands
to the committed week. If nothing was committed since its `DELETE` took the snapshot (`unseen` is empty), it deletes
exactly the week that is there, and what it commits is the whole week. If a week was, then what the `DELETE`
saw and is still there has no day of it, and none of the days the two share is inserted yet: such an
`INSERT` meets the unique day and fails. So a replacement that does commit over an unseen week shares no
day with it, which is what `patched` records. For the replicas, `Alone` says
that a request no other met writes what it read, changed as asked, with a stamp above every one in the log,
and `Told` that, unless requests overlapped (`torn`), the last event of the log is the owner's row and no
other snapshot is as young (`NotAfter`). This is where the comparison in `upsert_warehouse` comes in:
what a replica has is one of the log's snapshots, so the last event replaces it, and an older one that
is applied late does not replace the last (`UpsertDoes`), whatever came before (`Copied`). `NoGhost` is
the ghost scope with the questions under way beside the assignments: an operator asks only about a living
warehouse, and one who asked when an event came, in turn or late, is in `raced`. The replicas only watch: every step of theirs is a step of the owner or leaves it alone
(`ReplicasWatch`), so its invariant is proved once.

Only model-checked: the liveness properties `StockCatchesUp`, `HandledWhileRunning`, `AllHandled` and
`EveryoneServes`, since fairness and ENABLED are out of the prover's reach. Every safety invariant, action
property and refinement that a passing run checks is a theorem.

## 5. Known gaps

What the code allows and no property that holds can exclude. Each was met while modelling; the
property that would state its absence is weakened, or leaves it out by an assumption, as said here.

* **A late confirm.** The deadline of a hold (`inv/services/reservations.py:284`) may pass between
  the recording of the shipment and the consumption of `shipment.created`; the next `reserve` or sweep
  reclaims the hold of a live shipment. `LiveStock` is checked with `Punctual`.
* **A hold reclaimed in part.** `reserve` reclaims lapsed rows on the positions it wants only
  (`reservations.py:71`); the other lines of that shipment stay, and a later confirm and commit go
  through for them. `LiveStock` leaves it out with `Punctual` too.
* **Direct calls to Inventory.** Administrators and customer support may post to `/reservations`, `/confirm`,
  `/commit` and `/release` for any shipment id (`inv/api/reservations.py:33-83`), and nothing there looks
  at the shipment. Stock can so be deducted for a shipment that was never dispatched, confirmed for one that does
  not exist (such a hold is never reclaimed), or released under a live one, which is then dispatched without it: the
  event finds no held rows and is given up. `StockFollowsShipment` excepts the shipment and the kind of call, `LiveStock` the
  shipment.
* **A lagging replica.** `reserve` admits by its replica of the warehouse
  (`inv/services/reservations.py:68`), which may be behind: stock is held at a warehouse that was closed
  or deleted meanwhile, and the shipment recorded there. No module composes the replica with the reservations;
  `InStep` says only when the replica is right, not how long it may be wrong.
* **One shipment id, two warehouses, two orders.** Items are locked in the order of their ids and index
  entries in the order of the request's lines (`reservations.py:103`). Two reserves of one shipment id at
  two warehouses lock disjoint items and, with their lines in opposite orders, wait for each other's
  entries. `NoDeadlock` is checked with one body per id.
* **Two relays.** `SKIP LOCKED` hands consecutive rows of one key to different relays, which may send
  them in either order (`pl/outbox.py:115`). `event_delivery` runs one relay, as compose does.
* **A parcel after dispatch.** `add_package` tests the status it read (`shp/services/shipments.py:265`)
  and takes no lock. No property relates parcels to the status.
* **Revocation against replay.** `revoke_all` locks token by token (`idn/repository.py:86`); a replay
  holds one of them and starts its own. PostgreSQL ends one; it is a `Rollback`, and the revocation
  answers 500.
* **Sessions committed during a revocation** live on: the `UPDATE` does not see rows inserted after it
  started. A refresh under way when a role or a scope changes so issues a session with the old one
  (`idn/services/auth.py:95`). `SweepReachesAll` speaks of those committed before.
* **Overlapping password checks** write the absolute count they read (`idn/services/auth.py:145`):
  failures are lost, and a success that read before a lockout clears it. `LockoutCounts` holds until
  such an overlap (`mixed`) and again after the next reset that ran alone. The model's `locked` does not tell
  an account that was never locked from one whose `locked_until` has passed; in the second case a login
  writes NULL over it (`auth.py:73`), which may also clear a lockout that was committed meanwhile. That needs
  the same overlap.
* **Overlapping warehouse requests** stamp before they hold the row lock, and publish the object they
  read: a replica can ignore the last change or take over a column value nobody committed last.
  `InStep` holds again after one change that ran alone (`torn`).
* **A ghost scope.** `assign_warehouse` asks, `warehouse.deleted` is handled, the assignment is
  inserted (`idn/services/users.py:154`). `NoGhostScope` bounds the damage to exactly these (`raced`).
* **A late deletion.** A `warehouse.deleted` that Identity gave up and applies late removes the assignments
  that were made since, also those to a warehouse restored in the meantime. `NoGhostScope` speaks of operators who
  keep too much, not of those who lose something.
* **Two replacements of hours** whose weeks have no day in common (`{Mon}` and `{Tue}`, which
  `wh/schemas.py:69` accepts) and that both take the snapshot of their `DELETE` before either commits, both
  commit: the second skips the rows the first has deleted and does not see those it has inserted, and the
  week is a mix of the two, against "Replaces the whole week at once" (`wh/schemas.py:63`). `WholeWeek` holds
  but for these (`patched`). Two that insert days in common in opposite orders can wait for each
  other; PostgreSQL ends one, a `Rollback`, and the week is that of the other.
* **A lease or a ttl that runs out on a living holder** gives the key a second effect; the first
  holder's `record` then updates the row of the second or no row, without an error
  (`pl/idempotency.py:157`). `WorkIsRecorded` and `AnswersAgree` exclude it (`overtaken`).
* **The half-open breaker** lets every concurrent call through, not one probe (`pl/http.py:44`).
  `BreakerStops` counts what is sent while it is open, anew each time it half-opens, so it
  bounds nothing of what the probes send.
* **`purge_expired`** is called by nobody: rows of `idempotency_keys` stay for ever.
* **The shipment worker** module is an empty file: the container `shipment-worker` of
  `docker-compose.yml:239` ends at once and is started again, for ever (`Exits`). As shipped no shipment event is
  relayed, so the holds of recorded shipments lapse unconfirmed, dispatched stock stays on the books, and
  Shipment's replica of warehouses is not fed. `EveryoneServes` leaves this worker out. `StockCatchesUp` and
  `LiveStock` describe Shipment with a worker like the other services': as committed `flowing` is never TRUE and
  `Punctual` is false. `StockFollowsShipment` holds as shipped, since `PathStarts` may never happen.
* **`uq_users_email`**, for which Identity's constraint messages have a text, is made by no migration
  (the unique index is `ix_users_email`); `ReliedOn` has the names that exist.

## 6. Not modelled

* The SKU catalogue: plain rows behind a unique code; `reserve` only refuses by it.
* Token verification and the JWKS cache: bounded staleness in wall-clock time that relates to no other
  state. Signing and hashing are library calls.
* Configuration, logging, error rendering, telemetry, the gateway and Kafka's own containers.
* Request and response schemas beyond the schedule and zone rules, and all queries.
* Columns, checks and non-unique indexes in the migrations; the placeholder replica rows that
  Inventory's seed inserts.
* The published stock events (`inv/events.py`) and user events: they have no consumer in the
  repository.

## 7. What is left to do

**Warehouses and Identity together**: the access token's scope, which lives as long as the token does, against
the revocations of `scope`, as a module that composes Sessions with the operators of WarehouseReplicas.
