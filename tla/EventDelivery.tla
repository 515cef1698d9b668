---------------------------- MODULE EventDelivery ----------------------------
(***************************************************************************)
(* How an event travels: add_event stages a row in the outbox within the   *)
(* transaction of the change, OutboxRelay publishes committed rows to a    *)
(* topic, KafkaConsumerRunner reads the topic in batches and               *)
(* EventProcessor applies each event in one transaction with its           *)
(* processed_events row.  Relays and consumers run in worker processes     *)
(* that may die anywhere; the group may take a partition away from a       *)
(* consumer in the middle of a batch.                                      *)
(*                                                                         *)
(* One partition carries all keys: a key has one partition and partitions  *)
(* do not interact.  The business change locks its aggregate's row before  *)
(* it stages the event, so at most one transaction per key is open.        *)
(***************************************************************************)
EXTENDS Integers, Sequences, FiniteSets

CONSTANTS
  Keys,
  Relays,
  Pods,         \* consumer processes of the group
  NoPod,
  BatchSize,    \* rows one relay iteration claims
  MaxAttempts,  \* tries of a failing handler
  MaxEvents,    \* bound on outbox rows
  MaxFaults     \* bound on failures (the last one of GiveUp is not counted)

ASSUME NoPodFresh == NoPod \notin Pods
ASSUME BatchPositive == BatchSize \in Nat \ {0}
ASSUME AttemptsPositive == MaxAttempts \in Nat \ {0}
ASSUME BoundsNatural == MaxEvents \in Nat /\ MaxFaults \in Nat

VARIABLES
  outbox,       \* rows by seq: the key and the fate of its transaction
  published,    \* seqs with a published_at
  claimed,      \* rows a relay has locked
  sent,         \* those of them it has sent
  log,          \* the partition
  offset,       \* committed offset of the group
  owner,        \* the pod the partition is assigned to
  current,      \* the owner's batch was fetched under this assignment
  next, last,   \* what a pod is at, and the end of its batch; 0 without batch
  attempts,     \* failures of the event it is at
  running,      \* its consumer task is alive
  processed,    \* processed_events: the event's effects are committed
  skipped,      \* events given up after MaxAttempts
  faults

producer == <<outbox>>
relay == <<published, claimed, sent>>
reader == <<next, last, attempts>>
group == <<offset, owner, current, running>>
effects == <<processed, skipped>>
allVars == <<producer, relay, log, reader, group, effects, faults>>

Seqs == 1..MaxEvents

DeliveryTypeOK ==
  /\ outbox \in Seq([key : Keys, tx : {"open", "committed", "rolled back"}])
  /\ published \in SUBSET (DOMAIN outbox)
  /\ claimed \in [Relays -> SUBSET (DOMAIN outbox)]
  /\ sent \in [Relays -> SUBSET (DOMAIN outbox)]
  /\ \A r \in Relays : sent[r] \subseteq claimed[r]
  /\ log \in Seq(DOMAIN outbox)
  /\ offset \in 0..Len(log)
  /\ owner \in Pods \cup {NoPod}
  /\ current \in BOOLEAN
  /\ \A c \in Pods : last[c] \in 0..Len(log) /\ next[c] \in 0..last[c] + 1
  /\ attempts \in [Pods -> 0..MaxAttempts - 1]
  /\ running \in [Pods -> BOOLEAN]
  /\ processed \in SUBSET (DOMAIN outbox)
  /\ skipped \in SUBSET (DOMAIN outbox)
  /\ faults \in 0..MaxFaults

DeliveryInit ==
  /\ outbox = <<>>
  /\ published = {}
  /\ claimed = [r \in Relays |-> {}]
  /\ sent = [r \in Relays |-> {}]
  /\ log = <<>>
  /\ offset = 0
  /\ owner = NoPod
  /\ current = FALSE
  /\ next = [c \in Pods |-> 0]
  /\ last = [c \in Pods |-> 0]
  /\ attempts = [c \in Pods |-> 0]
  /\ running = [c \in Pods |-> TRUE]
  /\ processed = {}
  /\ skipped = {}
  /\ faults = 0

Fault == faults < MaxFaults /\ faults' = faults + 1
-----------------------------------------------------------------------------
(* add_event: the INSERT takes the next seq, before the transaction ends.  *)
Stage(k) ==
  /\ Len(outbox) < MaxEvents
  /\ \A i \in DOMAIN outbox : outbox[i].key = k => outbox[i].tx # "open"
  /\ outbox' = Append(outbox, [key |-> k, tx |-> "open"])
  /\ UNCHANGED <<relay, log, reader, group, effects, faults>>

EndTx(i) ==
  /\ outbox[i].tx = "open"
  /\ \E fate \in {"committed", "rolled back"} : outbox' = [outbox EXCEPT ![i].tx = fate]
  /\ UNCHANGED <<relay, log, reader, group, effects, faults>>

Emitted(i) == i \in DOMAIN outbox /\ outbox[i].tx = "committed"
-----------------------------------------------------------------------------
(* run_once.                                                               *)

LockedRows == UNION {claimed[r] : r \in Relays}

(* Rows of S before row i by seq, and the first BatchSize of S.            *)
Rank(S, i) == Cardinality({j \in S : j < i})
FirstRows(S) == {i \in S : Rank(S, i) < BatchSize}

(* SELECT unpublished ORDER BY seq LIMIT batch_size FOR UPDATE SKIP LOCKED *)
Claim(r) ==
  /\ claimed[r] = {}
  /\ LET free == {i \in DOMAIN outbox : Emitted(i)} \ (published \cup LockedRows)
     IN free # {} /\ claimed' = [claimed EXCEPT ![r] = FirstRows(free)]
  /\ UNCHANGED <<producer, published, sent, log, reader, group, effects, faults>>

(* The loop is at row i: every row of the batch before it was sent.        *)
IsNextRow(r, i) ==
  /\ i \in claimed[r] \ sent[r]
  /\ \A j \in claimed[r] \ sent[r] : i <= j

(* Mutant of LetGo: what was sent is taken for a part of the next batch.    *)
LetGoOnly(r) == claimed' = [claimed EXCEPT ![r] = {}] /\ UNCHANGED sent

LetGo(r) == claimed' = [claimed EXCEPT ![r] = {}] /\ sent' = [sent EXCEPT ![r] = {}]

Send(r) ==
  /\ \E i \in claimed[r] :
       /\ IsNextRow(r, i)
       /\ log' = Append(log, i)
       /\ sent' = [sent EXCEPT ![r] = @ \cup {i}]
  /\ UNCHANGED <<producer, published, claimed, reader, group, effects, faults>>

(* Mutant of SendFails: continue instead of break.                         *)
SendFailsOver(r) ==
  /\ Fault
  /\ \E i \in claimed[r] :
       /\ IsNextRow(r, i)
       /\ log' \in {log, Append(log, i)}
       /\ claimed' = [claimed EXCEPT ![r] = @ \ {i}]
  /\ UNCHANGED <<producer, published, sent, reader, group, effects>>

(* Mutant of SendFails: goes on to mark the row it failed to send.         *)
SendFailsMarked(r) ==
  /\ Fault
  /\ \E i \in claimed[r] :
       /\ IsNextRow(r, i)
       /\ log' \in {log, Append(log, i)}
       /\ published' = published \cup sent[r] \cup {i}
  /\ LetGo(r)
  /\ UNCHANGED <<producer, reader, group, effects>>

(* The send fails, whether or not the broker has the message: stop there   *)
(* and commit what was sent.                                               *)
SendFails(r) ==
  /\ Fault
  /\ \E i \in claimed[r] : IsNextRow(r, i) /\ log' \in {log, Append(log, i)}
  /\ published' = published \cup sent[r]
  /\ LetGo(r)
  /\ UNCHANGED <<producer, reader, group, effects>>

FinishBatch(r) ==
  /\ claimed[r] # {}
  /\ sent[r] = claimed[r]
  /\ published' = published \cup sent[r]
  /\ LetGo(r)
  /\ UNCHANGED <<producer, log, reader, group, effects, faults>>

(* The relay dies, or its transaction is rolled back.                      *)
RelayDies(r) ==
  /\ claimed[r] # {}
  /\ Fault
  /\ LetGo(r)
  /\ UNCHANGED <<producer, published, log, reader, group, effects>>
-----------------------------------------------------------------------------
(* KafkaConsumerRunner.run on a pod.                                       *)

Idle(c) == last[c] = 0

Join(c) ==
  /\ owner = NoPod
  /\ running[c]
  /\ owner' = c
  /\ current' = FALSE
  /\ UNCHANGED <<producer, relay, log, reader, offset, running, effects, faults>>

(* Mutant of Fetch: enable_auto_commit, the offset moves with the fetch.   *)
FetchAutoCommit(c) ==
  /\ owner = c /\ running[c]
  /\ Idle(c)
  /\ \E end \in offset + 1..Len(log) :
       /\ next' = [next EXCEPT ![c] = offset + 1]
       /\ last' = [last EXCEPT ![c] = end]
       /\ offset' = end
  /\ current' = TRUE
  /\ UNCHANGED <<producer, relay, log, attempts, owner, running, effects, faults>>

(* getmany: any number of messages from the committed offset on.           *)
Fetch(c) ==
  /\ owner = c /\ running[c]
  /\ Idle(c)
  /\ \E end \in offset + 1..Len(log) :
       /\ next' = [next EXCEPT ![c] = offset + 1]
       /\ last' = [last EXCEPT ![c] = end]
  /\ current' = TRUE
  /\ UNCHANGED <<producer, relay, log, attempts, offset, owner, running, effects, faults>>

Working(c) == ~Idle(c) /\ next[c] <= last[c]
Event(c) == log[next[c]]

Advance(c) ==
  /\ next' = [next EXCEPT ![c] = @ + 1]
  /\ attempts' = [attempts EXCEPT ![c] = 0]

(* process: a duplicate is skipped, any other event applied, in one        *)
(* transaction with its processed_events row.                              *)
Handle(c) ==
  /\ Working(c)
  /\ processed' = processed \cup {Event(c)}
  /\ Advance(c)
  /\ UNCHANGED <<producer, relay, log, last, group, skipped, faults>>

(* The handler raises and is rolled back: try again ...                    *)
Retry(c) ==
  /\ Working(c) /\ Event(c) \notin processed
  /\ attempts[c] + 1 < MaxAttempts
  /\ Fault
  /\ attempts' = [attempts EXCEPT ![c] = @ + 1]
  /\ UNCHANGED <<producer, relay, log, next, last, group, effects>>

(* ... or log the event and go on without it.                              *)
GiveUp(c) ==
  /\ Working(c) /\ Event(c) \notin processed
  /\ attempts[c] + 1 = MaxAttempts
  /\ skipped' = skipped \cup {Event(c)}
  /\ Advance(c)
  /\ UNCHANGED <<producer, relay, log, last, group, processed, faults>>

Finished(c) == ~Idle(c) /\ next[c] = last[c] + 1

Unload(c) == next' = [next EXCEPT ![c] = 0] /\ last' = [last EXCEPT ![c] = 0]

(* consumer.commit: the position of the current assignment, which a batch  *)
(* fetched under an earlier one does not move.                             *)
CommitOffset(c) ==
  /\ Finished(c) /\ owner = c
  /\ offset' = IF current THEN last[c] ELSE offset
  /\ Unload(c)
  /\ UNCHANGED <<producer, relay, log, attempts, owner, current, running, effects, faults>>

(* The partition was taken away: commit raises, run ends and nothing       *)
(* starts it again; run_worker waits for a signal only.                    *)
CommitRefused(c) ==
  /\ Finished(c) /\ owner # c
  /\ running' = [running EXCEPT ![c] = FALSE]
  /\ Unload(c)
  /\ UNCHANGED <<producer, relay, log, attempts, offset, owner, current, effects, faults>>

(* The group loses patience with the owner, whose batch goes on.           *)
Revoke ==
  /\ owner # NoPod
  /\ Fault
  /\ owner' = NoPod
  /\ UNCHANGED <<producer, relay, log, reader, offset, current, running, effects>>

(* The pod's process dies and is restarted.                                *)
PodDies(c) ==
  /\ Fault
  /\ Unload(c)
  /\ attempts' = [attempts EXCEPT ![c] = 0]
  /\ running' = [running EXCEPT ![c] = TRUE]
  /\ owner' = IF owner = c THEN NoPod ELSE owner
  /\ UNCHANGED <<producer, relay, log, offset, current, effects>>
-----------------------------------------------------------------------------
RelayStep(r) == Claim(r) \/ Send(r) \/ FinishBatch(r)
PodStep(c) == Fetch(c) \/ Handle(c) \/ CommitOffset(c) \/ CommitRefused(c)

DeliveryNext ==
  \/ \E k \in Keys : Stage(k)
  \/ \E i \in DOMAIN outbox : EndTx(i)
  \/ \E r \in Relays : RelayStep(r) \/ SendFails(r) \/ RelayDies(r)
  \/ \E c \in Pods :
       \/ PodStep(c) \/ Join(c)
       \/ Retry(c) \/ GiveUp(c) \/ PodDies(c)
  \/ Revoke

(* run_forever and run loop until they are stopped, restart:               *)
(* unless-stopped brings a dead worker back, and the group coordinator     *)
(* assigns a free partition.                                               *)
Fairness ==
  /\ \A r \in Relays : WF_allVars(RelayStep(r))
  /\ \A c \in Pods : WF_allVars(PodStep(c))
  /\ WF_allVars(\E c \in Pods : Join(c))

DeliverySpec == DeliveryInit /\ [][DeliveryNext]_allVars /\ Fairness
-----------------------------------------------------------------------------
InOrder(S) == [n \in 1..Cardinality(S) |-> CHOOSE i \in S : Rank(S, i) = n - 1]

(* The events of a key that no consumer has dealt with yet.                *)
Pending == [k \in Keys |->
  InOrder({i \in DOMAIN outbox : Emitted(i) /\ outbox[i].key = k} \ (processed \cup skipped))]

(* The whole path keeps the promise of EventChannel: nothing of a rolled   *)
(* back change is ever applied, the events of a key are applied in order   *)
(* and once, whatever is resent, refetched or processed by two pods.       *)
Channel == INSTANCE EventChannel WITH
  Events <- Seqs, pending <- Pending, applied <- processed, dropped <- skipped
ImplementsEventChannel == Channel!Spec

(* consumer.py: "never a lost event".  What the relay marks published is   *)
(* in the topic, and what lies before the committed offset was handled, so *)
(* a crash between any two steps leaves each event to be sent or read      *)
(* again.                                                                  *)
NothingLost ==
  /\ \A i \in published : \E j \in DOMAIN log : log[j] = i
  /\ \A i \in 1..offset : log[i] \in processed \cup skipped

(* Every committed event is dealt with, as long as some consumer task is   *)
(* left to do it.                                                          *)
AllHandled == \A e \in Seqs : Emitted(e) ~> (e \in processed \cup skipped)
HandledWhileRunning == ([]<>(\E c \in Pods : running[c])) => AllHandled
=============================================================================
