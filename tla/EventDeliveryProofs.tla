-------------------------- MODULE EventDeliveryProofs --------------------------
(***************************************************************************)
(* Whatever relays and consumers do and wherever they die, an event is     *)
(* where somebody will find it: unpublished in the outbox, past the        *)
(* committed offset of the topic, or handled.                              *)
(***************************************************************************)
EXTENDS EventDelivery, FiniteSetTheorems, SequenceTheorems, TLAPS

Entries == [key : Keys, tx : {"open", "committed", "rolled back"}]
Rows == DOMAIN outbox

RelaysTyped ==
  /\ published \in SUBSET Rows
  /\ claimed \in [Relays -> SUBSET Rows] /\ sent \in [Relays -> SUBSET Rows]
  /\ \A r \in Relays : sent[r] \subseteq claimed[r]

BatchesTyped ==
  /\ offset \in 0..Len(log)
  /\ next \in [Pods -> Nat] /\ last \in [Pods -> Nat]
  /\ \A c \in Pods : last[c] \in 0..Len(log) /\ next[c] \in 0..last[c] + 1
  /\ \A c \in Pods : last[c] # 0 => next[c] # 0

GroupTyped ==
  /\ owner \in Pods \cup {NoPod} /\ current \in BOOLEAN /\ running \in [Pods -> BOOLEAN]
  /\ attempts \in [Pods -> 0..MaxAttempts - 1]

EffectsTyped == processed \in SUBSET Rows /\ skipped \in SUBSET Rows

Typed ==
  /\ outbox \in Seq(Entries) /\ RelaysTyped
  /\ log \in Seq(Rows) /\ BatchesTyped
  /\ GroupTyped /\ EffectsTyped /\ faults \in 0..MaxFaults

OnTopic(i) == \E j \in DOMAIN log : log[j] = i
Handled(e) == e \in processed \cup skipped

(* What a relay counts as sent is in the topic, and a pod has handled what *)
(* it passed in its batch, which starts at the committed offset.           *)
Safe ==
  /\ \A i \in published : OnTopic(i)
  /\ \A r \in Relays : \A i \in sent[r] : OnTopic(i)
  /\ \A j \in 1..offset : Handled(log[j])
  /\ \A c \in Pods : \A j \in 1..next[c] - 1 : Handled(log[j])

LEMMA InitTyped == DeliveryInit => Typed
<1> SUFFICES ASSUME DeliveryInit PROVE Typed
  OBVIOUS
<1>1. outbox \in Seq(Entries) /\ log \in Seq(Rows) /\ Len(log) = 0 /\ faults \in 0..MaxFaults
  BY BoundsNatural DEF DeliveryInit
<1>2. RelaysTyped /\ EffectsTyped
  BY DEF DeliveryInit, RelaysTyped, EffectsTyped
<1>3. BatchesTyped
  BY <1>1 DEF DeliveryInit, BatchesTyped
<1>4. GroupTyped
  <2>1. attempts \in [Pods -> 0..MaxAttempts - 1]
    BY AttemptsPositive DEF DeliveryInit
  <2>2. owner \in Pods \cup {NoPod} /\ current \in BOOLEAN /\ running \in [Pods -> BOOLEAN]
    BY DEF DeliveryInit
  <2> QED
    BY <2>1, <2>2 DEF GroupTyped
<1> QED
  BY <1>1, <1>2, <1>3, <1>4 DEF Typed

LEMMA TypedSuffices == Typed => DeliveryTypeOK
  BY DEF Typed, Entries, Rows, RelaysTyped, BatchesTyped, GroupTyped, EffectsTyped, DeliveryTypeOK

LEMMA InitSafe == DeliveryInit => Safe
  BY DEF DeliveryInit, Safe
-----------------------------------------------------------------------------
(* Producers and relays.                                                   *)

LEMMA IndicesOf ==
  ASSUME NEW S, NEW seq \in Seq(S)
  PROVE  DOMAIN seq = 1..Len(seq)
  OBVIOUS

LEMMA OutboxIndexed == Typed => outbox \in Seq(Entries) /\ Rows = 1..Len(outbox)
  BY IndicesOf, Zenon DEF Typed, Rows

LEMMA StageTyped ==
  ASSUME Typed, (\E k \in Keys : Stage(k)) \/ (\E i \in Rows : EndTx(i))
  PROVE  /\ outbox' \in Seq(Entries)
         /\ Rows \subseteq Rows'
         /\ UNCHANGED <<relay, log, reader, group, effects, faults>>
<1>1. ASSUME NEW k \in Keys, Stage(k)
      PROVE  /\ outbox' \in Seq(Entries)
             /\ Rows \subseteq Rows'
             /\ UNCHANGED <<relay, log, reader, group, effects, faults>>
  <2>1. outbox \in Seq(Entries) /\ [key |-> k, tx |-> "open"] \in Entries
    BY DEF Typed, Entries
  <2>2. outbox' = Append(outbox, [key |-> k, tx |-> "open"])
    BY <1>1 DEF Stage
  <2>3. outbox' \in Seq(Entries) /\ Rows \subseteq Rows'
    BY <2>1, <2>2 DEF Rows
  <2> QED
    BY <1>1, <2>3 DEF Stage
<1>2. ASSUME NEW i \in Rows, EndTx(i)
      PROVE  /\ outbox' \in Seq(Entries)
             /\ Rows \subseteq Rows'
             /\ UNCHANGED <<relay, log, reader, group, effects, faults>>
  <2>1. PICK fate \in {"committed", "rolled back"} : outbox' = [outbox EXCEPT ![i].tx = fate]
    BY <1>2 DEF EndTx
  <2>2. outbox \in Seq(Entries) /\ i \in 1..Len(outbox)
    BY OutboxIndexed, Zenon
  <2>3. outbox[i] \in Entries
    BY <2>2, ElementOfSeq
  <2>4. [outbox[i] EXCEPT !.tx = fate] \in Entries
    BY <2>1, <2>2, <2>3 DEF Entries
  <2>5. outbox' = [outbox EXCEPT ![i] = [outbox[i] EXCEPT !.tx = fate]]
    BY <2>1
  <2>6. outbox' \in Seq(Entries)
    BY <2>2, <2>4, <2>5, ExceptSeq
  <2>7. DOMAIN outbox' = DOMAIN outbox
    BY <2>5
  <2> QED
    BY <1>2, <2>6, <2>7 DEF EndTx, Rows
<1> QED
  BY <1>1, <1>2

(* Any number of rows may be locked, sent or marked: what a relay step     *)
(* does to the rest of the state.                                          *)
RelaySteps(r) ==
  /\ published' \in {published, published \cup sent[r]}
  /\ \/ log' = log /\ sent' = sent /\ \E S \in SUBSET Rows :
          claimed[r] = {} /\ claimed' = [claimed EXCEPT ![r] = S]
     \/ \E i \in claimed[r] : /\ log' = Append(log, i) /\ claimed' = claimed
                              /\ sent' = [sent EXCEPT ![r] = @ \cup {i}]
     \/ LetGo(r) /\ (log' = log \/ \E i \in claimed[r] : log' = Append(log, i))
  /\ faults' \in 0..MaxFaults
  /\ UNCHANGED <<producer, reader, group, effects>>

LEMMA RelayMoves ==
  ASSUME Typed, NEW r \in Relays, RelayStep(r) \/ SendFails(r) \/ RelayDies(r)
  PROVE  RelaySteps(r)
<1>1. faults \in 0..MaxFaults /\ (Fault => faults' \in 0..MaxFaults)
  BY BoundsNatural DEF Typed, Fault
<1>2. CASE Claim(r)
  <2> DEFINE free == {i \in DOMAIN outbox : Emitted(i)} \ (published \cup LockedRows)
  <2>1. claimed[r] = {} /\ claimed' = [claimed EXCEPT ![r] = FirstRows(free)]
        /\ UNCHANGED <<producer, published, sent, log, reader, group, effects, faults>>
    BY <1>2 DEF Claim
  <2>2. FirstRows(free) \in SUBSET Rows
    BY DEF FirstRows, Rows
  <2> QED
    BY <1>1, <2>1, <2>2 DEF RelaySteps
<1>3. CASE Send(r)
  BY <1>1, <1>3 DEF Send, RelaySteps
<1>4. CASE FinishBatch(r)
  BY <1>1, <1>4 DEF FinishBatch, RelaySteps
<1>5. CASE SendFails(r)
  BY <1>1, <1>5 DEF SendFails, RelaySteps
<1>6. CASE RelayDies(r)
  BY <1>1, <1>6 DEF RelayDies, RelaySteps
<1> QED
  BY <1>2, <1>3, <1>4, <1>5, <1>6 DEF RelayStep

(* The topic only grows, by a row of the outbox at its end.                *)
LEMMA TopicGrows ==
  ASSUME Typed, NEW i \in Rows, log' = Append(log, i)
  PROVE  /\ log' \in Seq(Rows) /\ Len(log') = Len(log) + 1 /\ Len(log) \in Nat
         /\ \A j \in 1..Len(log) : log'[j] = log[j]
         /\ log'[Len(log) + 1] = i
  BY DEF Typed

LEMMA RelayTyped ==
  ASSUME Typed, NEW r \in Relays, RelaySteps(r)
  PROVE  Typed'
<1>1. /\ outbox' = outbox /\ offset' = offset /\ owner' = owner /\ current' = current
      /\ next' = next /\ last' = last /\ attempts' = attempts /\ running' = running
      /\ processed' = processed /\ skipped' = skipped /\ faults' \in 0..MaxFaults
  BY DEF RelaySteps, producer, reader, group, effects
<1>2. published' \in SUBSET Rows
  BY DEF RelaySteps, Typed, RelaysTyped
<1>3. /\ claimed' \in [Relays -> SUBSET Rows]
      /\ sent' \in [Relays -> SUBSET Rows]
      /\ \A q \in Relays : sent'[q] \subseteq claimed'[q]
  BY ZenonT(40) DEF RelaySteps, LetGo, Typed, RelaysTyped
<1>4. log' \in Seq(Rows) /\ Len(log) \in Nat /\ Len(log') \in Nat /\ Len(log) <= Len(log')
  <2>1. CASE log' = log
    BY <2>1 DEF Typed
  <2>2. ASSUME NEW i \in claimed[r], log' = Append(log, i)
        PROVE  log' \in Seq(Rows) /\ Len(log) \in Nat /\ Len(log') \in Nat /\ Len(log) <= Len(log')
    BY <2>2, TopicGrows DEF Typed, RelaysTyped
  <2> QED
    BY <2>1, <2>2 DEF RelaySteps
<1>5. offset' \in 0..Len(log') /\ \A c \in Pods : last'[c] \in 0..Len(log') /\ next'[c] \in 0..last'[c] + 1
  BY <1>1, <1>4 DEF Typed, BatchesTyped
<1>6. Rows' = Rows
  BY <1>1 DEF Rows
<1>7. RelaysTyped'
  BY <1>2, <1>3, <1>6 DEF RelaysTyped
<1>8. BatchesTyped' /\ GroupTyped' /\ EffectsTyped'
  BY <1>1, <1>5, <1>6 DEF BatchesTyped, GroupTyped, EffectsTyped, Typed
<1> QED
  BY <1>1, <1>4, <1>6, <1>7, <1>8 DEF Typed

LEMMA RelaySafe ==
  ASSUME Typed, Safe, NEW r \in Relays, RelaySteps(r)
  PROVE  Safe'
<1>1. /\ offset' = offset /\ next' = next /\ processed' = processed /\ skipped' = skipped
  BY DEF RelaySteps, reader, group, effects
<1>2. /\ Len(log) \in Nat /\ Len(log') \in Nat /\ Len(log) <= Len(log')
      /\ DOMAIN log = 1..Len(log) /\ DOMAIN log' = 1..Len(log')
      /\ \A j \in 1..Len(log) : log'[j] = log[j]
  <2>1. CASE log' = log
    BY <2>1 DEF Typed
  <2>2. ASSUME NEW i \in claimed[r], log' = Append(log, i) PROVE <1>2!:
    BY <2>2, TopicGrows DEF Typed, RelaysTyped
  <2> QED
    BY <2>1, <2>2 DEF RelaySteps
<1>3. \A i : OnTopic(i) => OnTopic(i)'
  BY <1>2 DEF OnTopic
<1>4. \A i \in published' : OnTopic(i)'
  BY <1>3 DEF RelaySteps, Safe
<1>5. \A q \in Relays : \A i \in sent'[q] : OnTopic(i)'
  <2>1. CASE sent' = sent
    BY <1>3, <2>1 DEF Safe
  <2>2. ASSUME NEW i \in claimed[r], log' = Append(log, i), sent' = [sent EXCEPT ![r] = @ \cup {i}]
        PROVE  \A q \in Relays : \A k \in sent'[q] : OnTopic(k)'
    <3>1. i \in Rows
      BY DEF Typed, RelaysTyped
    <3>2. OnTopic(i)'
      BY <1>2, <2>2, <3>1, TopicGrows DEF OnTopic
    <3>3. \A q \in Relays : sent'[q] \subseteq sent[q] \cup {i}
      BY <2>2 DEF Typed, RelaysTyped
    <3> QED
      BY <1>3, <3>2, <3>3 DEF Safe
  <2>3. CASE LetGo(r)
    BY <1>3, <2>3 DEF LetGo, Safe, Typed, RelaysTyped
  <2> QED
    BY <2>1, <2>2, <2>3 DEF RelaySteps
<1>6. \A j \in 1..Len(log) : Handled(log[j]) => Handled(log[j])'
  BY <1>1, <1>2 DEF Handled
<1>7. offset \in 0..Len(log) /\ \A c \in Pods : next[c] - 1 <= Len(log) /\ next[c] \in Nat
  BY <1>2 DEF Typed, BatchesTyped
<1>8. \A j \in 1..offset' : Handled(log[j])'
  BY <1>1, <1>2, <1>6, <1>7 DEF Safe
<1>9. \A c \in Pods : \A j \in 1..next'[c] - 1 : Handled(log[j])'
  BY <1>1, <1>2, <1>6, <1>7 DEF Safe
<1> QED
  BY <1>4, <1>5, <1>8, <1>9 DEF Safe
-----------------------------------------------------------------------------
(* Consumers.                                                              *)

PodActs(c) ==
  PodStep(c) \/ Join(c) \/ Retry(c) \/ GiveUp(c) \/ PodDies(c)

(* Any number of pods keeps within the topic.                              *)
LEMMA PodTyped ==
  ASSUME Typed, NEW c \in Pods, PodActs(c)
  PROVE  Typed' /\ log' = log /\ UNCHANGED <<producer, relay>>
<1>1. log' = log /\ UNCHANGED <<producer, relay>>
  BY DEF PodActs, PodStep, Fetch, Handle, CommitOffset, CommitRefused, Join, Retry, GiveUp, PodDies
<1>2. /\ Len(log) \in Nat /\ offset \in Nat /\ MaxFaults \in Nat
      /\ next[c] \in Nat /\ last[c] \in Nat /\ attempts[c] \in 0..MaxAttempts - 1
      /\ (Working(c) => Event(c) \in Rows)
  <2>1. /\ Len(log) \in Nat /\ offset \in Nat /\ MaxFaults \in Nat
        /\ next[c] \in Nat /\ last[c] \in 0..Len(log) /\ attempts[c] \in 0..MaxAttempts - 1
    BY BoundsNatural DEF Typed, BatchesTyped, GroupTyped
  <2>2. ASSUME Working(c) PROVE Event(c) \in Rows
    <3>1. next[c] \in 1..Len(log)
      <4>1. next[c] # 0
        BY <2>2 DEF Working, Idle, Typed, BatchesTyped
      <4> QED
        BY <2>1, <2>2, <4>1 DEF Working
    <3> QED
      BY <3>1 DEF Typed, Event
  <2> QED
    BY <2>1, <2>2
<1>3. faults' \in 0..MaxFaults
  BY <1>2 DEF PodActs, PodStep, Fetch, Handle, CommitOffset, CommitRefused, Join, Retry, GiveUp, PodDies,
     Fault, Typed
<1>4. owner' \in Pods \cup {NoPod} /\ current' \in BOOLEAN /\ running' \in [Pods -> BOOLEAN]
  BY DEF PodActs, PodStep, Fetch, Handle, CommitOffset, CommitRefused, Join, Retry, GiveUp, PodDies,
     group, Typed, GroupTyped
<1>5. processed' \in SUBSET Rows /\ skipped' \in SUBSET Rows
  BY <1>2 DEF PodActs, PodStep, Fetch, Handle, CommitOffset, CommitRefused, Join, Retry, GiveUp, PodDies,
     effects, Typed, EffectsTyped
<1>6. attempts' \in [Pods -> 0..MaxAttempts - 1]
  BY <1>2, AttemptsPositive DEF PodActs, PodStep, Fetch, Handle, CommitOffset, CommitRefused, Join, Retry,
     GiveUp, PodDies, Advance, reader, Typed, GroupTyped
<1>7. offset' \in 0..Len(log)
  BY <1>2 DEF PodActs, PodStep, Fetch, Handle, CommitOffset, CommitRefused, Join, Retry,
     GiveUp, PodDies, group, Typed, BatchesTyped
<1>8. /\ next' \in [Pods -> Nat] /\ last' \in [Pods -> Nat]
      /\ \A p \in Pods : last'[p] \in 0..Len(log) /\ next'[p] \in 0..last'[p] + 1
      /\ \A p \in Pods : last'[p] # 0 => next'[p] # 0
  <2>1. CASE next' = next /\ last' = last
    BY <2>1 DEF Typed, BatchesTyped
  <2>2. CASE Fetch(c)
    <3>1. PICK end \in offset + 1..Len(log) :
            next' = [next EXCEPT ![c] = offset + 1] /\ last' = [last EXCEPT ![c] = end]
      BY <2>2 DEF Fetch
    <3> QED
      BY <1>2, <3>1 DEF Typed, BatchesTyped
  <2>3. CASE Working(c) /\ Advance(c) /\ last' = last
    BY <1>2, <2>3 DEF Working, Advance, Typed, BatchesTyped
  <2>4. CASE Unload(c)
    BY <1>2, <2>4 DEF Unload, Typed, BatchesTyped
  <2> QED
    BY <2>1, <2>2, <2>3, <2>4 DEF PodActs, PodStep, Handle, CommitOffset, CommitRefused, Join, Retry,
       GiveUp, PodDies, reader
<1>9. Rows' = Rows /\ RelaysTyped'
  BY <1>1 DEF Typed, RelaysTyped, Rows, producer, relay
<1>10. BatchesTyped' /\ GroupTyped' /\ EffectsTyped'
  BY <1>1, <1>4, <1>5, <1>6, <1>7, <1>8, <1>9 DEF BatchesTyped, GroupTyped, EffectsTyped
<1> QED
  BY <1>1, <1>3, <1>9, <1>10 DEF Typed, producer

LEMMA PodSafe ==
  ASSUME Typed, Safe, NEW c \in Pods, PodActs(c)
  PROVE  Safe'
<1>1. log' = log /\ published' = published /\ sent' = sent
  BY PodTyped DEF relay
<1>2. processed \subseteq processed' /\ skipped \subseteq skipped'
  BY DEF PodActs, PodStep, Fetch, Handle, CommitOffset, CommitRefused, Join, Retry, GiveUp, PodDies, effects
<1>3. \A e : Handled(e) => Handled(e)'
  BY <1>2 DEF Handled
<1>4. Len(log) \in Nat /\ offset \in Nat /\ next \in [Pods -> Nat] /\ last \in [Pods -> Nat]
  BY DEF Typed, BatchesTyped
<1>5. \A j \in 1..offset' : Handled(log[j])'
  <2>1. CASE offset' = offset
    BY <1>1, <1>3, <2>1 DEF Safe
  <2>2. CASE CommitOffset(c) /\ offset' = last[c]
    <3>1. next[c] - 1 = last[c]
      BY <1>4, <2>2 DEF CommitOffset, Finished
    <3> QED
      BY <1>1, <1>3, <2>2, <3>1 DEF Safe
  <2> QED
    BY <2>1, <2>2 DEF PodActs, PodStep, Fetch, Handle, CommitOffset, CommitRefused, Join, Retry, GiveUp,
       PodDies, group
<1>6. \A p \in Pods : \A j \in 1..next'[p] - 1 : Handled(log[j])'
  <2>1. CASE next' = next
    BY <1>1, <1>3, <2>1 DEF Safe
  <2>2. CASE next' = [next EXCEPT ![c] = offset + 1]
    BY <1>1, <1>3, <1>4, <2>2 DEF Safe
  <2>3. CASE next' = [next EXCEPT ![c] = 0]
    BY <1>1, <1>3, <1>4, <2>3 DEF Safe
  <2>4. CASE next' = [next EXCEPT ![c] = @ + 1] /\ Event(c) \in processed' \cup skipped'
    <3>1. PICK n \in Nat : n = next[c]
      BY <1>4
    <3>2. Handled(log[n])'
      BY <1>1, <2>4, <3>1 DEF Event, Handled
    <3>3. \A j \in 1..n - 1 : Handled(log[j])'
      BY <1>1, <1>3, <3>1 DEF Safe
    <3>4. \A j \in 1..n : j = n \/ j \in 1..n - 1
      OBVIOUS
    <3>5. \A j \in 1..n : Handled(log[j])'
      BY <3>2, <3>3, <3>4
    <3>6. next'[c] = n + 1 /\ \A p \in Pods \ {c} : next'[p] = next[p]
      BY <1>4, <2>4, <3>1
    <3>7. \A p \in Pods \ {c} : \A j \in 1..next'[p] - 1 : Handled(log[j])'
      BY <1>1, <1>3, <3>6 DEF Safe
    <3> QED
      BY <3>5, <3>6, <3>7
  <2>5. CASE Handle(c)
    BY <2>4, <2>5 DEF Handle, Advance
  <2>6. CASE GiveUp(c)
    BY <2>4, <2>6 DEF GiveUp, Advance
  <2> QED
    BY <2>1, <2>2, <2>3, <2>5, <2>6 DEF PodActs, PodStep, Fetch, CommitOffset, CommitRefused, Join,
       Retry, PodDies, Unload, reader
<1> QED
  BY <1>1, <1>5, <1>6 DEF Safe, OnTopic
-----------------------------------------------------------------------------
LEMMA StepTyped == Typed /\ [DeliveryNext]_allVars => Typed'
<1> SUFFICES ASSUME Typed, [DeliveryNext]_allVars PROVE Typed'
  OBVIOUS
<1>1. CASE UNCHANGED allVars
  <2>1. Rows' = Rows
    BY <1>1 DEF allVars, producer, Rows
  <2> QED
    BY <1>1, <2>1 DEF allVars, producer, relay, reader, group, effects, Typed, RelaysTyped, BatchesTyped,
       GroupTyped, EffectsTyped
<1>2. CASE (\E k \in Keys : Stage(k)) \/ (\E i \in Rows : EndTx(i))
  <2>1. /\ outbox' \in Seq(Entries)
        /\ Rows \subseteq Rows'
        /\ UNCHANGED <<relay, log, reader, group, effects, faults>>
    BY <1>2, StageTyped
  <2>2. log' \in Seq(Rows') /\ Len(log') = Len(log)
    BY <2>1 DEF Typed
  <2>3. RelaysTyped' /\ EffectsTyped'
    BY <2>1 DEF relay, effects, Typed, RelaysTyped, EffectsTyped
  <2>4. BatchesTyped' /\ GroupTyped'
    BY <2>1, <2>2 DEF reader, group, Typed, BatchesTyped, GroupTyped
  <2> QED
    BY <2>1, <2>2, <2>3, <2>4 DEF Typed
<1>3. CASE \E r \in Relays : RelayStep(r) \/ SendFails(r) \/ RelayDies(r)
  BY <1>3, RelayMoves, RelayTyped
<1>4. CASE \E c \in Pods : PodActs(c)
  BY <1>4, PodTyped
<1>5. CASE Revoke
  <2>1. Rows' = Rows /\ faults' \in 0..MaxFaults
    BY <1>5, BoundsNatural DEF Revoke, Fault, producer, Rows, Typed
  <2> QED
    BY <1>5, <2>1 DEF Revoke, producer, relay, reader, effects, Typed, RelaysTyped, BatchesTyped,
       GroupTyped, EffectsTyped
<1> QED
  BY <1>1, <1>2, <1>3, <1>4, <1>5 DEF DeliveryNext, PodActs, Rows

(* Every column, lock, batch and offset keeps its type, for any number of  *)
(* relays and pods and whichever of them die.                              *)
THEOREM DeliveryTypesHold == DeliverySpec => []DeliveryTypeOK
<1>1. DeliverySpec => []Typed
  BY InitTyped, StepTyped, PTL DEF DeliverySpec
<1> QED
  BY <1>1, TypedSuffices, PTL

LEMMA StepSafe == Typed /\ Safe /\ [DeliveryNext]_allVars => Safe'
<1> SUFFICES ASSUME Typed, Safe, [DeliveryNext]_allVars PROVE Safe'
  OBVIOUS
<1>1. CASE UNCHANGED <<relay, log, reader, offset, effects>>
  BY <1>1 DEF relay, reader, effects, Safe, OnTopic, Handled
<1>2. CASE (\E k \in Keys : Stage(k)) \/ (\E i \in Rows : EndTx(i))
  BY <1>1, <1>2, StageTyped DEF group
<1>3. CASE \E r \in Relays : RelayStep(r) \/ SendFails(r) \/ RelayDies(r)
  BY <1>3, RelayMoves, RelaySafe
<1>4. CASE \E c \in Pods : PodActs(c)
  BY <1>4, PodSafe
<1>5. CASE Revoke \/ UNCHANGED allVars
  BY <1>1, <1>5 DEF Revoke, allVars, group
<1> QED
  BY <1>2, <1>3, <1>4, <1>5 DEF DeliveryNext, PodActs, Rows

(* consumer.py, "never a lost event": what is marked published is in the   *)
(* topic and what lies before the committed offset was handled, whatever   *)
(* relays and consumers die, resend, refetch or overlap.                   *)
THEOREM NothingIsLost == DeliverySpec => []NothingLost
<1>1. DeliverySpec => []Typed
  BY InitTyped, StepTyped, PTL DEF DeliverySpec
<1>2. DeliverySpec => []Safe
  BY <1>1, InitSafe, StepSafe, PTL DEF DeliverySpec
<1>3. Safe => NothingLost
  BY DEF Safe, OnTopic, Handled, NothingLost
<1> QED
  BY <1>2, <1>3, PTL
-----------------------------------------------------------------------------
(* Rows in the order of their seq.                                         *)

LEMMA RankType ==
  ASSUME NEW S, IsFiniteSet(S), NEW i
  PROVE  /\ Rank(S, i) \in Nat /\ Rank(S, i) <= Cardinality(S)
         /\ IsFiniteSet({j \in S : j < i})
<1>1. {j \in S : j < i} \in SUBSET S
  OBVIOUS
<1> QED
  BY <1>1, FS_Subset, FS_CardinalityType DEF Rank

LEMMA RankGrows ==
  ASSUME NEW S \in SUBSET Nat, IsFiniteSet(S), NEW i \in S, NEW k \in Nat, i < k
  PROVE  Rank(S, i) < Rank(S, k)
<1> DEFINE I == {j \in S : j < i}
           K == {j \in S : j < k}
<1>1. i \notin I /\ I \cup {i} \subseteq K
  <2>1. i \in Nat /\ k \in Nat /\ i \in K
    OBVIOUS
  <2>2. ASSUME NEW j \in I PROVE j \in K
    <3>1. j \in Nat /\ j < i /\ j \in S
      OBVIOUS
    <3>2. j < k
      BY <2>1, <3>1
    <3> QED
      BY <3>1, <3>2
  <2>3. i \notin I
    BY <2>1
  <2> HIDE DEF I, K
  <2> QED
    BY <2>1, <2>2, <2>3
<1>2. /\ IsFiniteSet(I) /\ Cardinality(I) \in Nat /\ Cardinality(I) = Rank(S, i)
      /\ IsFiniteSet(K) /\ Cardinality(K) \in Nat /\ Cardinality(K) = Rank(S, k)
  BY RankType DEF Rank
<1> HIDE DEF I, K
<1>3. IsFiniteSet(I \cup {i}) /\ Cardinality(I \cup {i}) = Cardinality(I) + 1
  BY <1>1, <1>2, FS_AddElement
<1>4. Cardinality(I \cup {i}) <= Cardinality(K)
  BY <1>1, <1>2, FS_Subset
<1> QED
  BY <1>2, <1>3, <1>4

LEMMA RankBelow ==
  ASSUME NEW S \in SUBSET Nat, IsFiniteSet(S), NEW i \in S
  PROVE  Rank(S, i) < Cardinality(S)
<1> DEFINE I == {j \in S : j < i}
<1>1. I \in SUBSET S /\ I # S
  OBVIOUS
<1>2. Cardinality(I) <= Cardinality(S) /\ (Cardinality(S) = Cardinality(I) => S = I)
  BY <1>1, FS_Subset
<1>3. Cardinality(I) \in Nat /\ Cardinality(S) \in Nat /\ Rank(S, i) = Cardinality(I)
  BY RankType, FS_CardinalityType DEF Rank
<1> HIDE DEF I
<1> QED
  BY <1>1, <1>2, <1>3

LEMMA RankTells ==
  ASSUME NEW S \in SUBSET Nat, IsFiniteSet(S), NEW i \in S, NEW k \in S, Rank(S, i) = Rank(S, k)
  PROVE  i = k
<1>1. \A a, b \in S : a < b => Rank(S, a) < Rank(S, b)
  BY RankGrows
<1>2. Rank(S, i) \in Nat /\ i \in Nat /\ k \in Nat
  BY RankType
<1> QED
  BY <1>1, <1>2

(* Every rank is some row's.                                               *)
LEMMA Ranked ==
  ASSUME NEW S \in SUBSET Nat, IsFiniteSet(S), NEW n \in 1..Cardinality(S)
  PROVE  \E i \in S : Rank(S, i) = n - 1
<1> DEFINE c == Cardinality(S)
           T == 0..c - 1
           f == [i \in S |-> Rank(S, i)]
<1>1. c \in Nat /\ n \in 1..c
  BY FS_CardinalityType
<1>2. \A i \in S : Rank(S, i) \in Nat /\ Rank(S, i) < c
  BY RankType, RankBelow
<1> HIDE DEF c
<1>3. IsFiniteSet(T) /\ Cardinality(T) = c
  <2>1. 0 \in Int /\ c - 1 \in Int
    BY <1>1
  <2>2. IsFiniteSet(T) /\ Cardinality(T) = IF 0 > c - 1 THEN 0 ELSE c - 1 - 0 + 1
    BY <2>1, FS_Interval
  <2> QED
    BY <1>1, <2>2
<1>4. \A i \in S : Rank(S, i) \in T
  BY <1>1, <1>2
<1>5. f \in Injection(S, T)
  <2>1. f \in [S -> T]
    BY <1>4
  <2>2. \A i, k \in S : f[i] = f[k] => i = k
    BY RankTells
  <2> QED
    BY <2>1, <2>2 DEF Injection, IsInjective
<1>6. f \in Surjection(S, T)
  <2>1. Cardinality(S) = Cardinality(T)
    BY <1>3 DEF c
  <2> HIDE DEF f, T
  <2> QED
    BY <1>3, <1>5, <2>1, FS_Injection
<1>7. n - 1 \in T
  BY <1>1
<1>8. PICK i \in S : f[i] = n - 1
  BY <1>6, <1>7 DEF Surjection
<1> QED
  BY <1>8

LEMMA InOrderRanks ==
  ASSUME NEW S \in SUBSET Nat, IsFiniteSet(S)
  PROVE  /\ Cardinality(S) \in Nat
         /\ InOrder(S) \in Seq(S) /\ Len(InOrder(S)) = Cardinality(S)
         /\ \A n \in 1..Cardinality(S) : InOrder(S)[n] \in S /\ Rank(S, InOrder(S)[n]) = n - 1
<1>1. Cardinality(S) \in Nat
  BY FS_CardinalityType
<1>2. ASSUME NEW n \in 1..Cardinality(S) PROVE InOrder(S)[n] \in S /\ Rank(S, InOrder(S)[n]) = n - 1
  <2>1. InOrder(S)[n] = CHOOSE i \in S : Rank(S, i) = n - 1
    BY DEF InOrder
  <2>2. \E i \in S : Rank(S, i) = n - 1
    BY Ranked
  <2> QED
    BY <2>1, <2>2
<1>3. InOrder(S) = [n \in 1..Cardinality(S) |-> InOrder(S)[n]]
  BY DEF InOrder
<1>4. InOrder(S) \in [1..Cardinality(S) -> S]
  BY <1>2, <1>3
<1>5. InOrder(S) \in Seq(S) /\ Len(InOrder(S)) = Cardinality(S)
  BY <1>1, <1>4
<1> QED
  BY <1>1, <1>2, <1>5

LEMMA InOrderNone == InOrder({}) = <<>>
<1>1. Cardinality({}) = 0 /\ IsFiniteSet({}) /\ {} \in SUBSET Nat
  BY FS_EmptySet
<1>2. InOrder({}) \in Seq({}) /\ Len(InOrder({})) = 0
  BY <1>1, InOrderRanks
<1> QED
  BY <1>2

(* A row younger than all comes last.                                      *)
LEMMA InOrderAdds ==
  ASSUME NEW S \in SUBSET Nat, IsFiniteSet(S), NEW e \in Nat, \A i \in S : i < e
  PROVE  InOrder(S \cup {e}) = Append(InOrder(S), e)
<1> DEFINE U == S \cup {e}
           c == Cardinality(S)
<1>1. e \notin S /\ U \in SUBSET Nat
  OBVIOUS
<1>2. c \in Nat /\ IsFiniteSet(U) /\ Cardinality(U) = c + 1
  BY <1>1, FS_AddElement, FS_CardinalityType
<1>3. \A i \in S : Rank(U, i) = Rank(S, i)
  <2> SUFFICES ASSUME NEW i \in S PROVE {j \in U : j < i} = {j \in S : j < i}
    BY DEF Rank
  <2> QED
    BY DEF U
<1>4. Rank(U, e) = c
  <2>1. \A j \in U : j < e <=> j \in S
    BY <1>1
  <2>2. S \subseteq U
    OBVIOUS
  <2> HIDE DEF U
  <2>3. {j \in U : j < e} = S
    BY <2>1, <2>2
  <2> QED
    BY <2>3 DEF Rank
<1>5. /\ InOrder(U) \in Seq(U) /\ Len(InOrder(U)) = c + 1
      /\ \A n \in 1..c + 1 : InOrder(U)[n] \in U /\ Rank(U, InOrder(U)[n]) = n - 1
  BY <1>1, <1>2, InOrderRanks
<1>6. /\ InOrder(S) \in Seq(S) /\ Len(InOrder(S)) = c
      /\ \A n \in 1..c : InOrder(S)[n] \in S /\ Rank(S, InOrder(S)[n]) = n - 1
  BY InOrderRanks
<1>7. \A i \in S : Rank(S, i) \in Nat /\ Rank(S, i) < c
  BY RankType, RankBelow
<1>8. \A i \in U : i \in S \/ i = e
  OBVIOUS
<1>9. e \in U /\ InOrder(S) \in Seq(U)
  <2>1. e \in U /\ S \subseteq U
    OBVIOUS
  <2> HIDE DEF U
  <2> QED
    BY <1>6, <2>1, SeqMonotonic
<1> HIDE DEF c, U
<1>10. ASSUME NEW n \in 1..c PROVE InOrder(U)[n] = InOrder(S)[n]
  <2>1. n \in 1..c + 1 /\ n - 1 # c
    BY <1>2
  <2>2. InOrder(U)[n] \in S /\ Rank(S, InOrder(U)[n]) = n - 1
    BY <1>3, <1>4, <1>5, <1>8, <2>1
  <2>3. InOrder(S)[n] \in S /\ Rank(S, InOrder(U)[n]) = Rank(S, InOrder(S)[n])
    BY <1>6, <2>2
  <2>4. \A a, b \in S : Rank(S, a) = Rank(S, b) => a = b
    BY RankTells
  <2> QED
    BY <2>2, <2>3, <2>4
<1>11. InOrder(U)[c + 1] = e
  <2>1. c + 1 \in 1..c + 1 /\ c + 1 - 1 = c
    BY <1>2
  <2>2. InOrder(U)[c + 1] \in U /\ Rank(U, InOrder(U)[c + 1]) = c
    <3>1. PICK n \in 1..c + 1 : n = c + 1
      BY <2>1
    <3>2. InOrder(U)[n] \in U /\ Rank(U, InOrder(U)[n]) = n - 1
      BY <1>5
    <3> QED
      BY <1>2, <3>1, <3>2
  <2>3. \A i \in S : Rank(U, i) # c
    BY <1>2, <1>3, <1>7
  <2> QED
    BY <1>8, <2>2, <2>3
<1>12. /\ Append(InOrder(S), e) \in Seq(U) /\ Len(Append(InOrder(S), e)) = c + 1
       /\ \A n \in 1..c : Append(InOrder(S), e)[n] = InOrder(S)[n]
       /\ Append(InOrder(S), e)[c + 1] = e
  BY <1>2, <1>6, <1>9
<1>13. \A n \in 1..c + 1 : n \in 1..c \/ n = c + 1
  BY <1>2
<1>14. \A n \in 1..c + 1 : InOrder(U)[n] = Append(InOrder(S), e)[n]
  BY <1>10, <1>11, <1>12, <1>13
<1>15. InOrder(U) = Append(InOrder(S), e)
  BY <1>5, <1>12, <1>14, SeqEqual
<1> QED
  BY <1>15 DEF U

(* The oldest row comes first, before the others in their order.           *)
LEMMA InOrderDrops ==
  ASSUME NEW S \in SUBSET Nat, IsFiniteSet(S), NEW e \in S, \A i \in S : e <= i
  PROVE  InOrder(S) # <<>> /\ Head(InOrder(S)) = e /\ Tail(InOrder(S)) = InOrder(S \ {e})
<1> DEFINE U == S \ {e}
           c == Cardinality(S)
<1>1. U \in SUBSET Nat /\ \A i \in U : e < i
  OBVIOUS
<1>2. c \in Nat \ {0} /\ IsFiniteSet(U) /\ Cardinality(U) = c - 1
  BY FS_RemoveElement, FS_CardinalityType, FS_EmptySet
<1>3. Rank(S, e) = 0
  <2>1. \A j \in S : ~(j < e)
    <3> SUFFICES ASSUME NEW j \in S PROVE ~(j < e)
      OBVIOUS
    <3>1. j \in Nat /\ e \in Nat /\ e <= j
      OBVIOUS
    <3> QED
      BY <3>1
  <2>2. {j \in S : j < e} = {}
    BY <2>1
  <2> QED
    BY <2>2, FS_EmptySet DEF Rank
<1>4. \A i \in U : Rank(S, i) = Rank(U, i) + 1
  <2> SUFFICES ASSUME NEW i \in U PROVE Rank(S, i) = Rank(U, i) + 1
    OBVIOUS
  <2>1. {j \in S : j < i} = {j \in U : j < i} \cup {e} /\ e \notin {j \in U : j < i}
    BY <1>1
  <2>2. IsFiniteSet({j \in U : j < i})
    BY <1>2, RankType
  <2> QED
    BY <2>1, <2>2, FS_AddElement DEF Rank
<1>5. \A i \in U : Rank(U, i) \in Nat
  BY <1>2, RankType
<1>6. \A i \in S : i \in U \/ i = e
  OBVIOUS
<1>7. /\ InOrder(U) \in Seq(U) /\ Len(InOrder(U)) = c - 1
      /\ \A n \in 1..c - 1 : InOrder(U)[n] \in U /\ Rank(U, InOrder(U)[n]) = n - 1
  BY <1>1, <1>2, InOrderRanks
<1>8. /\ InOrder(S) \in Seq(S) /\ Len(InOrder(S)) = c
      /\ \A n \in 1..c : InOrder(S)[n] \in S /\ Rank(S, InOrder(S)[n]) = n - 1
  BY InOrderRanks
<1>9. InOrder(U) \in Seq(S)
  <2>1. U \subseteq S
    OBVIOUS
  <2> HIDE DEF U
  <2> QED
    BY <1>7, <2>1, SeqMonotonic
<1> HIDE DEF c, U
<1>10. ASSUME NEW n \in 1..c - 1 PROVE InOrder(S)[n + 1] = InOrder(U)[n]
  <2>1. n + 1 \in 1..c /\ n + 1 - 1 = n /\ n # 0 /\ n \in Nat
    BY <1>2
  <2>2. InOrder(S)[n + 1] \in U
    <3>1. InOrder(S)[n + 1] \in S /\ Rank(S, InOrder(S)[n + 1]) = n
      BY <1>8, <2>1
    <3>2. InOrder(S)[n + 1] # e
      BY <1>3, <2>1, <3>1
    <3> QED
      BY <1>6, <3>1, <3>2
  <2>3. Rank(U, InOrder(S)[n + 1]) + 1 = n /\ Rank(U, InOrder(S)[n + 1]) \in Nat
    BY <1>4, <1>5, <1>8, <2>1, <2>2
  <2>4. Rank(U, InOrder(S)[n + 1]) = Rank(U, InOrder(U)[n]) /\ InOrder(U)[n] \in U
    BY <1>7, <2>1, <2>3
  <2> QED
    <3>1. \A a, b \in U : Rank(U, a) = Rank(U, b) => a = b
      BY <1>1, <1>2, RankTells
    <3> QED
      BY <2>2, <2>4, <3>1
<1>11. InOrder(S)[1] = e
  <2>1. 1 \in 1..c /\ 1 - 1 = 0
    BY <1>2
  <2>2. InOrder(S)[1] \in S /\ Rank(S, InOrder(S)[1]) = 0
    BY <1>8, <2>1
  <2>3. \A i \in U : Rank(S, i) # 0
    BY <1>4, <1>5
  <2> QED
    BY <1>6, <2>2, <2>3
<1>12. InOrder(S) # <<>>
  BY <1>2, <1>8
<1>13. /\ Tail(InOrder(S)) \in Seq(S) /\ Len(Tail(InOrder(S))) = c - 1
       /\ \A n \in 1..c - 1 : Tail(InOrder(S))[n] = InOrder(S)[n + 1]
  BY <1>8, <1>12, HeadTailProperties
<1>14. \A n \in 1..c - 1 : Tail(InOrder(S))[n] = InOrder(U)[n]
  BY <1>10, <1>13
<1>15. Tail(InOrder(S)) = InOrder(U)
  BY <1>7, <1>9, <1>13, <1>14, SeqEqual
<1>16. Head(InOrder(S)) = e
  BY <1>8, <1>11, <1>12
<1> QED
  BY <1>12, <1>15, <1>16 DEF U
-----------------------------------------------------------------------------
(* With one relay, the events of a key are handled in their order.         *)

(* An open row is the youngest of its key; what is committed stays so.     *)
Staged ==
  /\ Len(outbox) <= MaxEvents
  /\ \A i, j \in Rows : outbox[i].tx = "open" /\ outbox[j].key = outbox[i].key => j <= i

(* Only committed rows travel.                                             *)
Travels ==
  /\ \A r \in Relays : \A i \in claimed[r] : Emitted(i)
  /\ \A j \in DOMAIN log : Emitted(log[j])
  /\ \A i \in processed \cup skipped : Emitted(i)

Earlier(e) == {i \in Rows : i < e /\ Emitted(i) /\ outbox[i].key = outbox[e].key}

(* A batch leaves no older event of a key behind, and in the topic each    *)
(* event comes after the older ones of its key.                            *)
InTurn ==
  /\ \A r \in Relays : \A i \in claimed[r] : Earlier(i) \subseteq published \cup claimed[r]
  /\ \A j \in DOMAIN log : \A i \in Earlier(log[j]) : \E h \in 1..j - 1 : log[h] = i

Ordered == Staged /\ Travels /\ InTurn
OneRelay == \A q, r \in Relays : q = r

(* What a producer's step adds to the committed rows.                      *)
Commits(X) ==
  /\ Rows \subseteq Rows' /\ \A j \in Rows : outbox'[j].key = outbox[j].key
  /\ X \subseteq Rows /\ \A j \in X : outbox[j].tx = "open"
  /\ \A j : Emitted(j)' <=> Emitted(j) \/ j \in X
  /\ UNCHANGED <<relay, log, reader, group, effects>>

LEMMA StageCommits ==
  ASSUME Typed, Staged, NEW k \in Keys, Stage(k)
  PROVE  Staged' /\ Commits({})
<1> DEFINE n == Len(outbox) + 1
<1>1. /\ Len(outbox) \in Nat /\ Len(outbox) < MaxEvents /\ MaxEvents \in Nat
      /\ \A i \in Rows : outbox[i].key = k => outbox[i].tx # "open"
      /\ outbox' = Append(outbox, [key |-> k, tx |-> "open"])
      /\ UNCHANGED <<relay, log, reader, group, effects>>
  BY BoundsNatural DEF Stage, Typed, Rows
<1>2. /\ Len(outbox') = n /\ Rows = 1..Len(outbox) /\ Rows' = 1..n
      /\ \A j \in Rows : outbox'[j] = outbox[j]
      /\ outbox'[n] = [key |-> k, tx |-> "open"]
  BY <1>1 DEF Typed, Rows
<1>3. n \notin Rows /\ \A j \in Rows' : j \in Rows \/ j = n
  BY <1>1, <1>2
<1>4. \A j : Emitted(j)' <=> Emitted(j)
  <2>1. outbox'[n].tx # "committed"
    BY <1>2
  <2> QED
    BY <1>2, <1>3, <2>1 DEF Emitted, Rows
<1>5. Rows \subseteq Rows' /\ \A j \in Rows : outbox'[j].key = outbox[j].key
  BY <1>1, <1>2
<1>6. Staged'
  <2>1. Len(outbox') <= MaxEvents
    BY <1>1, <1>2
  <2>2. ASSUME NEW i \in Rows', NEW j \in Rows', outbox'[i].tx = "open", outbox'[j].key = outbox'[i].key
        PROVE  j <= i
    <3>1. CASE i = n
      BY <1>1, <1>2, <3>1
    <3>2. CASE i \in Rows /\ j = n
      <4>1. outbox'[j].key = k
        BY <1>2, <3>2
      <4>2. outbox[i].key = k /\ outbox[i].tx = "open"
        BY <1>2, <2>2, <3>2, <4>1
      <4> QED
        BY <1>1, <3>2, <4>2
    <3>3. CASE i \in Rows /\ j \in Rows
      BY <1>2, <2>2, <3>3 DEF Staged
    <3> QED
      BY <1>3, <3>1, <3>2, <3>3
  <2> QED
    BY <2>1, <2>2 DEF Staged
<1> QED
  BY <1>1, <1>4, <1>5, <1>6 DEF Commits

LEMMA SameRange == ASSUME NEW m \in Nat, NEW n \in Nat, 1..m = 1..n PROVE m = n
<1>1. m <= n
  <2>1. m # 0 => m \in 1..n
    <3>1. m # 0 => m \in 1..m
      OBVIOUS
    <3> QED
      BY <3>1
  <2> QED
    BY <2>1
<1>2. n <= m
  <2>1. n # 0 => n \in 1..m
    <3>1. n # 0 => n \in 1..n
      OBVIOUS
    <3> QED
      BY <3>1
  <2> QED
    BY <2>1
<1> QED
  BY <1>1, <1>2

LEMMA EndTxCommits ==
  ASSUME Typed, Staged, NEW i \in Rows, EndTx(i)
  PROVE  Staged' /\ (Commits({}) \/ Commits({i}))
<1>1. PICK fate \in {"committed", "rolled back"} : outbox' = [outbox EXCEPT ![i].tx = fate]
  BY DEF EndTx
<1>2. outbox[i].tx = "open" /\ UNCHANGED <<relay, log, reader, group, effects>>
  BY DEF EndTx
<1>3. outbox \in Seq(Entries) /\ Rows = 1..Len(outbox) /\ Len(outbox) \in Nat
  <2>1. outbox \in Seq(Entries) /\ Rows = 1..Len(outbox)
    BY OutboxIndexed, Zenon
  <2> QED
    BY <2>1, LenProperties
<1>4. \A j \in Rows : outbox[j] \in Entries
  BY <1>3, ElementOfSeq
<1>5. Rows' = Rows /\ \A j \in Rows : outbox'[j] = IF j = i THEN [outbox[j] EXCEPT !.tx = fate] ELSE outbox[j]
  BY <1>1, <1>3 DEF Rows
<1>6. /\ \A j \in Rows : outbox'[j].key = outbox[j].key
      /\ \A j \in Rows \ {i} : outbox'[j].tx = outbox[j].tx
      /\ outbox'[i].tx = fate
  BY <1>4, <1>5 DEF Entries
<1>7. Len(outbox') = Len(outbox)
  <2>1. DOMAIN outbox' = DOMAIN outbox /\ outbox' \in Seq(Entries)
    BY <1>5, StageTyped DEF Rows
  <2>2. Len(outbox') \in Nat /\ DOMAIN outbox' = 1..Len(outbox')
    BY <2>1, LenProperties
  <2>3. 1..Len(outbox') = 1..Len(outbox)
    BY <1>3, <2>1, <2>2 DEF Rows
  <2> QED
    BY <1>3, <2>2, <2>3, SameRange
<1>8. Staged'
  <2>1. ASSUME NEW a \in Rows, NEW b \in Rows, outbox'[a].tx = "open", outbox'[b].key = outbox'[a].key
        PROVE  b <= a
    <3>1. outbox[a].tx = "open" /\ outbox[b].key = outbox[a].key
      BY <1>6, <2>1
    <3> QED
      BY <3>1 DEF Staged
  <2> QED
    BY <1>5, <1>7, <2>1 DEF Staged
<1>9. \A j : Emitted(j)' <=> Emitted(j) \/ (j = i /\ fate = "committed")
  BY <1>2, <1>5, <1>6 DEF Emitted, Rows
<1>10. CASE fate = "committed"
  <2>1. Commits({i})
    BY <1>2, <1>5, <1>6, <1>9, <1>10 DEF Commits
  <2> QED
    BY <1>8, <2>1
<1>11. CASE fate # "committed"
  <2>1. Commits({})
    BY <1>2, <1>5, <1>6, <1>9, <1>11 DEF Commits
  <2> QED
    BY <1>8, <2>1
<1> QED
  BY <1>10, <1>11

(* A row that commits is the youngest of its key, so that it is older than *)
(* nothing that travels.                                                   *)
LEMMA CommitsOrdered ==
  ASSUME Typed, Ordered, NEW X, Commits(X), Staged'
  PROVE  Ordered'
<1>1. /\ published' = published /\ claimed' = claimed /\ log' = log
      /\ processed' = processed /\ skipped' = skipped
  BY DEF Commits, relay, effects
<1>2. Travels'
  BY <1>1 DEF Commits, Ordered, Travels
<1>3. ASSUME NEW e \in Rows, Emitted(e) PROVE Earlier(e)' \subseteq Earlier(e)
  <2> SUFFICES ASSUME NEW i \in Earlier(e)' PROVE i \in Earlier(e)
    OBVIOUS
  <2>1. i < e /\ Emitted(i)' /\ outbox'[i].key = outbox'[e].key
    BY DEF Earlier
  <2>2. i \in Rows
    BY <2>1 DEF Commits, Emitted, Rows
  <2>3. outbox[i].key = outbox[e].key
    BY <2>1, <2>2 DEF Commits
  <2>4. i \notin X
    <3>1. i \in X => e <= i
      BY <2>2, <2>3 DEF Commits, Ordered, Staged
    <3>2. i \in Nat /\ e \in Nat
      BY <2>2, OutboxIndexed
    <3> QED
      BY <2>1, <3>1, <3>2
  <2> QED
    BY <2>1, <2>2, <2>3, <2>4 DEF Commits, Earlier
<1>4. ASSUME NEW r \in Relays, NEW i \in claimed'[r] PROVE Earlier(i)' \subseteq published' \cup claimed'[r]
  <2>1. i \in claimed[r] /\ i \in Rows /\ Emitted(i)
    BY <1>1, <1>4 DEF Ordered, Travels, Emitted, Rows
  <2> QED
    BY <1>1, <1>3, <2>1 DEF Ordered, InTurn
<1>5. ASSUME NEW j \in DOMAIN log', NEW i \in Earlier(log[j])' PROVE \E h \in 1..j - 1 : log'[h] = i
  <2>1. j \in DOMAIN log /\ log[j] \in Rows /\ Emitted(log[j])
    BY <1>1, <1>5 DEF Ordered, Travels, Emitted, Rows
  <2>2. PICK e \in Rows : e = log[j] /\ e = log'[j]
    BY <1>1, <2>1
  <2>3. i \in Earlier(e)'
    BY <1>5, <2>2 DEF Earlier
  <2>4. i \in Earlier(log[j])
    BY <1>3, <2>1, <2>2, <2>3
  <2> QED
    BY <1>1, <2>1, <2>4 DEF Ordered, InTurn
<1>6. InTurn'
  BY <1>1, <1>4, <1>5 DEF InTurn
<1> QED
  BY <1>2, <1>6 DEF Ordered

LEMMA FirstRowsClosed ==
  ASSUME NEW S \in SUBSET Nat, IsFiniteSet(S), NEW i \in FirstRows(S), NEW k \in S, k < i
  PROVE  k \in FirstRows(S)
<1>1. i \in S /\ i \in Nat /\ Rank(S, i) < BatchSize
  BY DEF FirstRows
<1>2. Rank(S, k) < Rank(S, i) /\ Rank(S, k) \in Nat /\ Rank(S, i) \in Nat
  BY <1>1, RankGrows, RankType
<1>3. Rank(S, k) < BatchSize
  BY <1>1, <1>2, BatchPositive
<1> QED
  BY <1>3 DEF FirstRows

(* What the only relay finds unpublished it may claim, oldest first.       *)
LEMMA ClaimOrdered ==
  ASSUME Typed, Ordered, OneRelay, NEW r \in Relays, Claim(r)
  PROVE  Ordered'
<1> DEFINE free == {i \in DOMAIN outbox : Emitted(i)} \ (published \cup LockedRows)
<1>1. /\ claimed[r] = {} /\ claimed' = [claimed EXCEPT ![r] = FirstRows(free)]
      /\ outbox' = outbox /\ published' = published /\ log' = log
      /\ processed' = processed /\ skipped' = skipped
  BY DEF Claim, producer, effects
<1>2. LockedRows = {}
  <2>1. \A q \in Relays : claimed[q] = {}
    BY <1>1 DEF OneRelay
  <2> QED
    BY <2>1 DEF LockedRows
<1>3. free \in SUBSET Nat /\ IsFiniteSet(free)
  <2>1. Rows = 1..Len(outbox) /\ Len(outbox) \in Nat
    BY OutboxIndexed, LenProperties
  <2>2. IsFiniteSet(1..Len(outbox))
    BY <2>1, FS_Interval
  <2>3. free \in SUBSET (1..Len(outbox))
    BY <2>1 DEF Rows
  <2> HIDE DEF free
  <2>4. free \in SUBSET Nat
    BY <2>1, <2>3
  <2>5. IsFiniteSet(free)
    BY <2>2, <2>3, FS_Subset
  <2> QED
    BY <2>4, <2>5
<1>4. \A i \in free : Emitted(i) /\ i \in Rows
  BY DEF Rows
<1>5. \A i \in Rows : Emitted(i) /\ i \notin published => i \in free
  BY <1>2 DEF Rows
<1> HIDE DEF free
<1>6. \A q \in Relays : q = r /\ claimed'[q] = FirstRows(free)
  BY <1>1 DEF OneRelay, Typed, RelaysTyped
<1>7. ASSUME NEW i \in FirstRows(free), NEW k \in Earlier(i), k \notin published
      PROVE  k \in FirstRows(free)
  <2>1. k \in Rows /\ k < i /\ Emitted(k)
    BY DEF Earlier
  <2>2. k \in free
    BY <1>5, <1>7, <2>1
  <2> QED
    BY <1>3, <2>1, <2>2, FirstRowsClosed
<1>8. FirstRows(free) \subseteq free
  BY DEF FirstRows
<1>9. \A i : (Emitted(i)' <=> Emitted(i)) /\ Earlier(i)' = Earlier(i)
  BY <1>1 DEF Emitted, Earlier, Rows
<1>10. Staged'
  BY <1>1 DEF Ordered, Staged, Rows
<1>11. Travels'
  BY <1>1, <1>4, <1>6, <1>8, <1>9 DEF Ordered, Travels
<1>12. InTurn'
  <2>1. \A q \in Relays : \A i \in claimed'[q] : Earlier(i)' \subseteq published' \cup claimed'[q]
    BY <1>1, <1>6, <1>7, <1>9
  <2>2. \A j \in DOMAIN log' : \A i \in Earlier(log[j])' : \E h \in 1..j - 1 : log'[h] = i
    <3> SUFFICES ASSUME NEW j \in DOMAIN log', NEW i \in Earlier(log[j])' PROVE \E h \in 1..j - 1 : log'[h] = i
      OBVIOUS
    <3>1. j \in DOMAIN log /\ i \in Earlier(log[j])
      BY <1>1 DEF Earlier, Emitted, Rows
    <3> QED
      BY <1>1, <3>1 DEF Ordered, InTurn
  <2> QED
    BY <2>1, <2>2 DEF InTurn
<1> QED
  BY <1>10, <1>11, <1>12 DEF Ordered

(* Before a relay sends a row it has sent or marked the older ones.        *)
LEMMA NextRowInTurn ==
  ASSUME Typed, Safe, Ordered, NEW r \in Relays, NEW i \in claimed[r], IsNextRow(r, i)
  PROVE  Emitted(i) /\ i \in Rows /\ \A k \in Earlier(i) : OnTopic(k)
<1>1. Emitted(i) /\ i \in Rows
  BY DEF Ordered, Travels, Emitted, Rows
<1>2. ASSUME NEW k \in Earlier(i) PROVE OnTopic(k)
  <2>1. k \in Rows /\ k < i /\ k \in published \cup claimed[r]
    BY DEF Earlier, Ordered, InTurn
  <2>2. CASE k \in published
    BY <2>2 DEF Safe
  <2>3. CASE k \in claimed[r] \ sent[r]
    <3>1. i <= k
      BY <2>3 DEF IsNextRow
    <3>2. i \in Nat /\ k \in Nat
      BY <1>1, <2>1, OutboxIndexed
    <3> QED
      BY <2>1, <3>1, <3>2
  <2>4. CASE k \in sent[r]
    BY <2>4 DEF Safe
  <2> QED
    BY <2>1, <2>2, <2>3, <2>4
<1> QED
  BY <1>1, <1>2

LEMMA TopicOrdered ==
  ASSUME Typed, Ordered, outbox' = outbox, NEW i \in Rows, Emitted(i), \A k \in Earlier(i) : OnTopic(k),
         log' = Append(log, i)
  PROVE  /\ \A j \in DOMAIN log' : Emitted(log[j])'
         /\ \A j \in DOMAIN log' : \A k \in Earlier(log[j])' : \E h \in 1..j - 1 : log'[h] = k
<1>1. /\ Len(log) \in Nat /\ DOMAIN log = 1..Len(log) /\ DOMAIN log' = 1..Len(log) + 1
      /\ \A j \in 1..Len(log) : log'[j] = log[j]
      /\ log'[Len(log) + 1] = i
  <2>1. log \in Seq(Rows)
    BY DEF Typed
  <2> QED
    BY <2>1, TopicGrows, LenProperties
<1>2. \A j \in DOMAIN log' : j \in 1..Len(log) \/ j = Len(log) + 1
  BY <1>1
<1>3. \A e : (Emitted(e)' <=> Emitted(e)) /\ Earlier(e)' = Earlier(e)
  BY DEF Emitted, Earlier, Rows
<1>4. \A j \in DOMAIN log' : Emitted(log'[j])
  BY <1>1, <1>2 DEF Ordered, Travels
<1>5. ASSUME NEW j \in DOMAIN log', NEW k \in Earlier(log'[j]) PROVE \E h \in 1..j - 1 : log'[h] = k
  <2>1. CASE j \in 1..Len(log)
    <3>1. PICK h \in 1..j - 1 : log[h] = k
      BY <1>1, <1>5, <2>1 DEF Ordered, InTurn
    <3>2. h \in 1..Len(log)
      BY <1>1, <2>1
    <3> QED
      BY <1>1, <3>1, <3>2
  <2>2. CASE j = Len(log) + 1
    <3>1. PICK h \in DOMAIN log : log[h] = k
      BY <1>1, <1>5, <2>2 DEF OnTopic
    <3>2. h \in 1..j - 1
      BY <1>1, <2>2
    <3> QED
      BY <1>1, <3>1, <3>2
  <2> QED
    BY <1>2, <2>1, <2>2
<1>6. \A j \in DOMAIN log' : Emitted(log[j])'
  BY <1>4 DEF Emitted, Rows
<1>7. \A j \in DOMAIN log' : Earlier(log[j])' = Earlier(log'[j])
  BY DEF Earlier, Emitted, Rows
<1>8. \A j \in DOMAIN log' : \A k \in Earlier(log[j])' : \E h \in 1..j - 1 : log'[h] = k
  <2> SUFFICES ASSUME NEW j \in DOMAIN log', NEW k, k \in Earlier(log[j])'
               PROVE  \E h \in 1..j - 1 : log'[h] = k
    OBVIOUS
  <2>1. k \in Earlier(log'[j])
    BY <1>7
  <2> QED
    BY <1>5, <2>1
<1> QED
  BY <1>6, <1>8

LEMMA RelayOrdered ==
  ASSUME Typed, Safe, Ordered, NEW r \in Relays,
         Send(r) \/ FinishBatch(r) \/ SendFails(r) \/ RelayDies(r)
  PROVE  Ordered'
<1>1. /\ outbox' = outbox /\ processed' = processed /\ skipped' = skipped
      /\ published \subseteq published'
      /\ claimed' = claimed \/ claimed' = [claimed EXCEPT ![r] = {}]
      /\ log' = log \/ \E i \in claimed[r] : IsNextRow(r, i) /\ log' = Append(log, i)
  BY DEF Send, FinishBatch, SendFails, RelayDies, LetGo, producer, effects
<1>2. \A e : (Emitted(e)' <=> Emitted(e)) /\ Earlier(e)' = Earlier(e)
  BY <1>1 DEF Emitted, Earlier, Rows
<1>3. /\ \A j \in DOMAIN log' : Emitted(log[j])'
      /\ \A j \in DOMAIN log' : \A k \in Earlier(log[j])' : \E h \in 1..j - 1 : log'[h] = k
  <2>1. CASE log' = log
    <3>1. \A j \in DOMAIN log : (Emitted(log[j])' <=> Emitted(log[j])) /\ Earlier(log[j])' = Earlier(log[j])
      BY <1>1, <2>1 DEF Emitted, Earlier, Rows
    <3> QED
      BY <2>1, <3>1 DEF Ordered, Travels, InTurn
  <2>2. ASSUME NEW i \in claimed[r], IsNextRow(r, i), log' = Append(log, i) PROVE <1>3!:
    BY <1>1, <2>2, NextRowInTurn, TopicOrdered
  <2> QED
    BY <1>1, <2>1, <2>2
<1>4. \A q \in Relays : claimed'[q] = claimed[q] \/ claimed'[q] = {}
  BY <1>1 DEF Typed, RelaysTyped
<1>5. Travels'
  BY <1>1, <1>2, <1>3, <1>4 DEF Ordered, Travels
<1>6. \A q \in Relays : \A i \in claimed'[q] : Earlier(i)' \subseteq published' \cup claimed'[q]
  BY <1>1, <1>2, <1>4 DEF Ordered, InTurn
<1>7. InTurn'
  BY <1>3, <1>6 DEF InTurn
<1>8. Staged'
  BY <1>1 DEF Ordered, Staged, Rows
<1> QED
  BY <1>5, <1>7, <1>8 DEF Ordered

LEMMA EventEmitted ==
  ASSUME Typed, NEW c \in Pods, Working(c)
  PROVE  next[c] \in DOMAIN log /\ next[c] \in Nat /\ Event(c) = log[next[c]] /\ Event(c) \in Rows
<1>1. /\ next[c] # 0 /\ next[c] \in Nat /\ next[c] <= last[c] /\ last[c] \in 0..Len(log)
      /\ Len(log) \in Nat /\ log \in Seq(Rows)
  BY DEF Working, Idle, Typed, BatchesTyped
<1>2. next[c] \in 1..Len(log)
  BY <1>1
<1> QED
  BY <1>1, <1>2, LenProperties, ElementOfSeq DEF Event

LEMMA PodOrdered ==
  ASSUME Typed, Ordered, NEW c \in Pods, PodActs(c)
  PROVE  Ordered'
<1>1. outbox' = outbox /\ log' = log /\ published' = published /\ claimed' = claimed
  BY PodTyped DEF producer, relay
<1>2. \A e : (Emitted(e)' <=> Emitted(e)) /\ Earlier(e)' = Earlier(e)
  BY <1>1 DEF Emitted, Earlier, Rows
<1>3. \A i \in processed' \cup skipped' : i \in processed \cup skipped \/ (Working(c) /\ i = Event(c))
  BY DEF PodActs, PodStep, Fetch, Handle, CommitOffset, CommitRefused, Join, Retry, GiveUp, PodDies, effects
<1>4. \A i \in processed' \cup skipped' : Emitted(i)
  BY <1>3, EventEmitted DEF Ordered, Travels
<1>5. Travels'
  BY <1>1, <1>2, <1>4 DEF Ordered, Travels, Emitted, Rows
<1>6. Staged'
  BY <1>1 DEF Ordered, Staged, Rows
<1>7. InTurn'
  <2>1. \A j \in DOMAIN log : Earlier(log[j])' = Earlier(log[j])
    BY <1>1 DEF Earlier, Emitted, Rows
  <2> QED
    BY <1>1, <1>2, <2>1 DEF Ordered, InTurn
<1> QED
  BY <1>5, <1>6, <1>7 DEF Ordered

LEMMA StillOrdered ==
  ASSUME Ordered, UNCHANGED <<producer, published, claimed, log, effects>>
  PROVE  Ordered'
<1>1. \A e : (Emitted(e)' <=> Emitted(e)) /\ Earlier(e)' = Earlier(e)
  BY DEF Emitted, Earlier, Rows, producer
<1>2. \A j \in DOMAIN log : (Emitted(log[j])' <=> Emitted(log[j])) /\ Earlier(log[j])' = Earlier(log[j])
  BY DEF Earlier, Emitted, Rows, producer
<1>3. Staged'
  BY DEF Ordered, Staged, Rows, producer
<1>4. Travels'
  BY <1>1, <1>2 DEF Ordered, Travels, effects
<1>5. InTurn'
  BY <1>1, <1>2 DEF Ordered, InTurn
<1> QED
  BY <1>3, <1>4, <1>5 DEF Ordered

LEMMA InitOrdered == DeliveryInit => Ordered
<1> SUFFICES ASSUME DeliveryInit PROVE Ordered
  OBVIOUS
<1>1. Rows = {} /\ Len(outbox) = 0 /\ DOMAIN log = {}
  BY DEF DeliveryInit, Rows
<1>2. Staged
  BY <1>1, BoundsNatural DEF Staged
<1>3. Travels /\ InTurn
  BY <1>1 DEF Travels, InTurn, DeliveryInit
<1> QED
  BY <1>2, <1>3 DEF Ordered

LEMMA StepOrdered ==
  ASSUME OneRelay
  PROVE  Typed /\ Safe /\ Ordered /\ [DeliveryNext]_allVars => Ordered'
<1> SUFFICES ASSUME Typed, Safe, Ordered, [DeliveryNext]_allVars PROVE Ordered'
  OBVIOUS
<1>1. CASE \E k \in Keys : Stage(k)
  BY <1>1, StageCommits, CommitsOrdered DEF Ordered
<1>2. CASE \E i \in Rows : EndTx(i)
  BY <1>2, EndTxCommits, CommitsOrdered DEF Ordered
<1>3. ASSUME NEW r \in Relays, RelayStep(r) \/ SendFails(r) \/ RelayDies(r) PROVE Ordered'
  BY <1>3, ClaimOrdered, RelayOrdered DEF RelayStep
<1>4. CASE \E c \in Pods : PodActs(c)
  BY <1>4, PodOrdered
<1>5. CASE Revoke \/ UNCHANGED allVars
  BY <1>5, StillOrdered DEF Revoke, allVars, relay
<1> QED
  BY <1>1, <1>2, <1>3, <1>4, <1>5 DEF DeliveryNext, PodActs, Rows
-----------------------------------------------------------------------------
(* The steps of the channel.                                               *)

Awaited(k) == {i \in Rows : Emitted(i) /\ outbox[i].key = k} \ (processed \cup skipped)

LEMMA PendingInOrder == Pending = [k \in Keys |-> InOrder(Awaited(k))]
  BY DEF Pending, Awaited, Rows

LEMMA PendingNext == Pending' = [k \in Keys |-> InOrder(Awaited(k)')]
  BY DEF Pending, Awaited, Rows

LEMMA AwaitedRows ==
  ASSUME Typed, NEW k
  PROVE  Awaited(k) \in SUBSET Nat /\ IsFiniteSet(Awaited(k)) /\ \A i \in Awaited(k) : Emitted(i)
<1>1. Rows = 1..Len(outbox) /\ Len(outbox) \in Nat
  BY OutboxIndexed, LenProperties
<1>2. IsFiniteSet(1..Len(outbox))
  BY <1>1, FS_Interval
<1>3. Awaited(k) \in SUBSET (1..Len(outbox)) /\ \A i \in Awaited(k) : Emitted(i)
  BY <1>1 DEF Awaited
<1>4. Awaited(k) \in SUBSET Nat
  BY <1>1, <1>3
<1>5. IsFiniteSet(Awaited(k))
  BY <1>2, <1>3, FS_Subset
<1> QED
  BY <1>3, <1>4, <1>5

LEMMA KeyOfRow == ASSUME Typed, NEW i \in Rows PROVE outbox[i].key \in Keys
<1>1. outbox \in Seq(Entries) /\ i \in 1..Len(outbox)
  BY OutboxIndexed, Zenon
<1>2. outbox[i] \in Entries
  BY <1>1, ElementOfSeq
<1> QED
  BY <1>2 DEF Entries

LEMMA SamePending ==
  ASSUME \A k \in Keys : Awaited(k)' = Awaited(k)
  PROVE  Pending' = Pending
<1>1. Pending' = [k \in Keys |-> InOrder(Awaited(k)')]
  BY PendingNext
<1>2. [k \in Keys |-> InOrder(Awaited(k)')] = [k \in Keys |-> InOrder(Awaited(k))]
  BY Zenon
<1> QED
  BY <1>1, <1>2, PendingInOrder

LEMMA CommitsNothing ==
  ASSUME Typed, Commits({})
  PROVE  UNCHANGED Channel!channel
<1>1. processed' = processed /\ skipped' = skipped /\ \A j : Emitted(j)' <=> Emitted(j)
  BY DEF Commits, effects
<1>2. ASSUME NEW k \in Keys PROVE Awaited(k)' = Awaited(k)
  <2>1. \A j : j \in Awaited(k)' <=> j \in Rows' /\ Emitted(j)' /\ outbox'[j].key = k /\ j \notin processed' \cup skipped'
    BY DEF Awaited
  <2>2. \A j : j \in Awaited(k) <=> j \in Rows /\ Emitted(j) /\ outbox[j].key = k /\ j \notin processed \cup skipped
    BY DEF Awaited
  <2>3. \A j : Emitted(j) => j \in Rows /\ j \in Rows' /\ outbox'[j].key = outbox[j].key
    BY DEF Commits, Emitted, Rows
  <2>4. \A j : j \in Awaited(k)' <=> j \in Awaited(k)
    BY <1>1, <2>1, <2>2, <2>3
  <2> QED
    BY <2>4
<1> QED
  BY <1>1, <1>2, SamePending DEF Channel!channel

LEMMA CommitsOne ==
  ASSUME Typed, Ordered, NEW i \in Rows, Commits({i})
  PROVE  Channel!Emit(outbox[i].key, i) /\ outbox[i].key \in Keys /\ i \in Seqs
<1> DEFINE q == outbox[i].key
<1>1. q \in Keys /\ i \in Seqs
  <2>1. i \in 1..Len(outbox) /\ Len(outbox) \in Nat /\ Len(outbox) <= MaxEvents /\ MaxEvents \in Nat
    BY OutboxIndexed, LenProperties, BoundsNatural DEF Ordered, Staged
  <2> QED
    BY <2>1, KeyOfRow DEF Seqs
<1>2. /\ processed' = processed /\ skipped' = skipped
      /\ \A j : Emitted(j)' <=> Emitted(j) \/ j = i
      /\ outbox[i].tx = "open" /\ ~Emitted(i)
  <2>1. outbox[i].tx = "open" /\ outbox[i].tx # "committed"
    BY DEF Commits
  <2> QED
    BY <2>1 DEF Commits, effects, Emitted
<1>3. i \notin processed \cup skipped
  BY <1>2 DEF Ordered, Travels
<1>4. ASSUME NEW k \in Keys
      PROVE  Awaited(k)' = IF k = q THEN Awaited(k) \cup {i} ELSE Awaited(k)
  <2>1. \A j : j \in Awaited(k)' <=> j \in Rows' /\ Emitted(j)' /\ outbox'[j].key = k /\ j \notin processed' \cup skipped'
    BY DEF Awaited
  <2>2. \A j : j \in Awaited(k) <=> j \in Rows /\ Emitted(j) /\ outbox[j].key = k /\ j \notin processed \cup skipped
    BY DEF Awaited
  <2>3. \A j : Emitted(j) \/ j = i => j \in Rows /\ j \in Rows' /\ outbox'[j].key = outbox[j].key
    BY DEF Commits, Emitted, Rows
  <2>4. \A j : j \in Awaited(k)' <=> j \in Awaited(k) \/ (j = i /\ k = q)
    BY <1>2, <1>3, <2>1, <2>2, <2>3
  <2> QED
    BY <2>4
<1>5. Awaited(q) \in SUBSET Nat /\ IsFiniteSet(Awaited(q)) /\ i \in Nat /\ \A j \in Awaited(q) : j < i
  <2>1. i \in Nat
    BY OutboxIndexed
  <2>2. \A j \in Awaited(q) : j \in Rows /\ outbox[j].key = q /\ j # i
    BY <1>2 DEF Awaited
  <2>3. \A j \in Awaited(q) : j <= i /\ j # i
    BY <1>2, <2>2 DEF Ordered, Staged
  <2>4. Awaited(q) \in SUBSET Nat /\ IsFiniteSet(Awaited(q))
    BY AwaitedRows
  <2> QED
    BY <2>1, <2>3, <2>4
<1>6. InOrder(Awaited(q) \cup {i}) = Append(InOrder(Awaited(q)), i)
  BY <1>5, InOrderAdds
<1> HIDE DEF q
<1>7. Pending' = [k \in Keys |-> InOrder(Awaited(k)')]
  BY PendingNext
<1>8. \A k \in Keys : Pending'[k] = IF k = q THEN Append(Pending[k], i) ELSE Pending[k]
  <2>1. \A k \in Keys : Pending[k] = InOrder(Awaited(k)) /\ Pending'[k] = InOrder(Awaited(k)')
    BY <1>7, PendingInOrder
  <2> QED
    BY <1>4, <1>6, <2>1
<1>9. Pending' = [Pending EXCEPT ![q] = Append(Pending[q], i)]
  BY <1>1, <1>7, <1>8, PendingInOrder
<1>10. ~Channel!Known(i)
  <2>1. ASSUME NEW k \in Keys, NEW n \in DOMAIN Pending[k] PROVE Pending[k][n] # i
    <3>1. Pending[k] = InOrder(Awaited(k))
      BY PendingInOrder
    <3>2. Awaited(k) \in SUBSET Nat /\ IsFiniteSet(Awaited(k))
      BY AwaitedRows
    <3>3. Pending[k] \in Seq(Awaited(k))
      BY <3>1, <3>2, InOrderRanks
    <3>4. Pending[k][n] \in Awaited(k)
      BY <3>3, LenProperties, ElementOfSeq
    <3> QED
      BY <1>2, <3>4, AwaitedRows
  <2> QED
    BY <1>3, <2>1 DEF Channel!Known
<1>11. Channel!Emit(q, i)
  BY <1>2, <1>9, <1>10 DEF Channel!Emit
<1> QED
  BY <1>1, <1>11 DEF q

(* The event a pod is at is the oldest of its key that awaits handling.    *)
LEMMA OldestAwaited ==
  ASSUME Typed, Safe, Ordered, NEW c \in Pods, Working(c), Event(c) \notin processed \cup skipped
  PROVE  LET e == Event(c)
             k == outbox[e].key
         IN  /\ k \in Keys /\ e \in Awaited(k) /\ \A i \in Awaited(k) : e <= i
<1> DEFINE e == Event(c)
           k == outbox[e].key
<1>1. e \in Rows /\ next[c] \in DOMAIN log /\ e = log[next[c]] /\ Emitted(e)
  BY EventEmitted DEF Ordered, Travels
<1>2. k \in Keys
  BY <1>1, KeyOfRow
<1>3. e \in Awaited(k)
  BY <1>1 DEF Awaited
<1>4. ASSUME NEW i \in Awaited(k) PROVE e <= i
  <2>1. i \in Rows /\ Emitted(i) /\ outbox[i].key = k /\ i \notin processed \cup skipped
    BY DEF Awaited
  <2>2. i \notin Earlier(e)
    <3>1. SUFFICES ASSUME i \in Earlier(e) PROVE FALSE
      OBVIOUS
    <3>2. PICK h \in 1..next[c] - 1 : log[h] = i
      BY <1>1, <3>1 DEF Ordered, InTurn
    <3>3. Handled(log[h])
      BY DEF Safe
    <3> QED
      BY <2>1, <3>2, <3>3 DEF Handled
  <2>3. ~(i < e)
    BY <2>1, <2>2 DEF Earlier
  <2>4. i \in Nat /\ e \in Nat
    BY <1>1, <2>1, OutboxIndexed
  <2> QED
    BY <2>3, <2>4
<1> QED
  BY <1>2, <1>3, <1>4

LEMMA TakesNext ==
  ASSUME Typed, Safe, Ordered, outbox' = outbox, NEW c \in Pods, Working(c),
         Event(c) \notin processed \cup skipped,
         processed' \cup skipped' = processed \cup skipped \cup {Event(c)}
  PROVE  \E k \in Keys : Channel!TakeNext(k) /\ Head(Pending[k]) = Event(c)
<1> DEFINE e == Event(c)
           q == outbox[e].key
<1>1. q \in Keys /\ e \in Awaited(q) /\ \A i \in Awaited(q) : e <= i
  BY OldestAwaited
<1>2. e \in Rows
  BY <1>1 DEF Awaited
<1>3. \A j : Emitted(j)' <=> Emitted(j)
  BY DEF Emitted
<1>4. ASSUME NEW k \in Keys
      PROVE  Awaited(k)' = IF k = q THEN Awaited(k) \ {e} ELSE Awaited(k)
  <2>1. \A j : j \in Awaited(k)' <=> j \in Rows /\ Emitted(j) /\ outbox[j].key = k /\ j \notin processed' \cup skipped'
    BY <1>3 DEF Awaited, Rows
  <2>2. \A j : j \in Awaited(k) <=> j \in Rows /\ Emitted(j) /\ outbox[j].key = k /\ j \notin processed \cup skipped
    BY DEF Awaited
  <2>3. \A j : j \in Awaited(k)' <=> j \in Awaited(k) /\ j # e
    BY <2>1, <2>2
  <2>4. k # q => e \notin Awaited(k)
    BY <2>2
  <2> QED
    BY <2>3, <2>4
<1>5. /\ InOrder(Awaited(q)) # <<>> /\ Head(InOrder(Awaited(q))) = e
      /\ Tail(InOrder(Awaited(q))) = InOrder(Awaited(q) \ {e})
  <2>1. Awaited(q) \in SUBSET Nat /\ IsFiniteSet(Awaited(q))
    BY AwaitedRows
  <2> HIDE DEF q, e
  <2> QED
    BY <1>1, <2>1, InOrderDrops
<1> HIDE DEF q, e
<1>6. Pending' = [k \in Keys |-> InOrder(Awaited(k)')]
  BY PendingNext
<1>7. \A k \in Keys : Pending'[k] = IF k = q THEN Tail(Pending[k]) ELSE Pending[k]
  <2>1. \A k \in Keys : Pending[k] = InOrder(Awaited(k)) /\ Pending'[k] = InOrder(Awaited(k)')
    BY <1>6, PendingInOrder
  <2> QED
    BY <1>4, <1>5, <2>1
<1>8. Pending' = [Pending EXCEPT ![q] = Tail(Pending[q])]
  BY <1>1, <1>6, <1>7, PendingInOrder
<1>9. Pending[q] # <<>> /\ Head(Pending[q]) = e
  BY <1>1, <1>5, PendingInOrder
<1>10. Channel!TakeNext(q) /\ Head(Pending[q]) = e
  BY <1>8, <1>9 DEF Channel!TakeNext
<1> QED
  BY <1>1, <1>10 DEF e

LEMMA HandlesSame ==
  ASSUME outbox' = outbox, processed' \cup skipped' = processed \cup skipped
  PROVE  Pending' = Pending
<1>1. \A k \in Keys : Awaited(k)' = Awaited(k)
  BY DEF Awaited, Emitted, Rows
<1> QED
  BY <1>1, SamePending

LEMMA PodSteps ==
  ASSUME Typed, Safe, Ordered, NEW c \in Pods, PodActs(c)
  PROVE  [Channel!Next]_(Channel!channel)
<1>1. outbox' = outbox
  BY PodTyped DEF producer
<1> DEFINE e == Event(c)
<1>2. CASE Handle(c)
  <2>1. Working(c) /\ processed' = processed \cup {e} /\ skipped' = skipped
    BY <1>2 DEF Handle
  <2>2. e \in Seqs
    <3>1. e \in 1..Len(outbox) /\ Len(outbox) \in Nat /\ Len(outbox) <= MaxEvents /\ MaxEvents \in Nat
      BY <2>1, EventEmitted, OutboxIndexed, LenProperties, BoundsNatural DEF Ordered, Staged
    <3> QED
      BY <3>1 DEF Seqs
  <2> HIDE DEF e
  <2>3. CASE e \in processed
    <3>1. processed' = processed
      BY <2>1, <2>3
    <3> QED
      BY <1>1, <2>1, <3>1, HandlesSame DEF Channel!channel
  <2>4. CASE e \in skipped \ processed
    <3>1. processed' \cup skipped' = processed \cup skipped
      BY <2>1, <2>4
    <3>2. Pending' = Pending
      BY <1>1, <3>1, HandlesSame
    <3>3. Channel!ApplyLate(e)
      BY <2>1, <2>4, <3>2 DEF Channel!ApplyLate
    <3> QED
      BY <2>2, <3>3 DEF Channel!Next
  <2>5. CASE e \notin processed \cup skipped
    <3>1. processed' \cup skipped' = processed \cup skipped \cup {e}
      BY <2>1
    <3>2. PICK k \in Keys : Channel!TakeNext(k) /\ Head(Pending[k]) = e
      BY <1>1, <2>1, <2>5, <3>1, TakesNext DEF e
    <3>3. Channel!Apply(k)
      BY <2>1, <3>2 DEF Channel!Apply
    <3> QED
      BY <3>3 DEF Channel!Next
  <2> QED
    BY <2>3, <2>4, <2>5
<1>3. CASE GiveUp(c)
  <2>1. Working(c) /\ e \notin processed /\ skipped' = skipped \cup {e} /\ processed' = processed
    BY <1>3 DEF GiveUp
  <2> HIDE DEF e
  <2>2. CASE e \in skipped
    <3>1. skipped' = skipped
      BY <2>1, <2>2
    <3> QED
      BY <1>1, <2>1, <3>1, HandlesSame DEF Channel!channel
  <2>3. CASE e \notin skipped
    <3>1. processed' \cup skipped' = processed \cup skipped \cup {e}
      BY <2>1
    <3>2. PICK k \in Keys : Channel!TakeNext(k) /\ Head(Pending[k]) = e
      BY <1>1, <2>1, <2>3, <3>1, TakesNext DEF e
    <3>3. Channel!Drop(k)
      BY <2>1, <3>2 DEF Channel!Drop
    <3> QED
      BY <3>3 DEF Channel!Next
  <2> QED
    BY <2>2, <2>3
<1>4. CASE ~Handle(c) /\ ~GiveUp(c)
  <2>1. processed' = processed /\ skipped' = skipped
    BY <1>4 DEF PodActs, PodStep, Fetch, CommitOffset, CommitRefused, Join, Retry, PodDies, effects
  <2> QED
    BY <1>1, <2>1, HandlesSame DEF Channel!channel
<1> QED
  BY <1>2, <1>3, <1>4

LEMMA StepsOfChannel ==
  ASSUME Typed, Safe, Ordered, [DeliveryNext]_allVars
  PROVE  [Channel!Next]_(Channel!channel)
<1>1. ASSUME NEW k \in Keys, Stage(k) PROVE UNCHANGED Channel!channel
  BY <1>1, StageCommits, CommitsNothing DEF Ordered
<1>2. ASSUME NEW i \in Rows, EndTx(i) PROVE [Channel!Next]_(Channel!channel)
  <2>1. CASE Commits({})
    BY <2>1, CommitsNothing
  <2>2. CASE Commits({i})
    <3>1. Channel!Emit(outbox[i].key, i) /\ outbox[i].key \in Keys /\ i \in Seqs
      BY <2>2, CommitsOne
    <3> QED
      BY <3>1 DEF Channel!Next
  <2> QED
    BY <1>2, <2>1, <2>2, EndTxCommits DEF Ordered
<1>3. ASSUME UNCHANGED <<producer, effects>> PROVE UNCHANGED Channel!channel
  BY <1>3, HandlesSame DEF producer, effects, Channel!channel
<1>4. ASSUME NEW r \in Relays, RelayStep(r) \/ SendFails(r) \/ RelayDies(r) PROVE UNCHANGED Channel!channel
  BY <1>3, <1>4, RelayMoves DEF RelaySteps
<1>5. CASE \E c \in Pods : PodActs(c)
  BY <1>5, PodSteps
<1>6. CASE Revoke \/ UNCHANGED allVars
  BY <1>3, <1>6 DEF Revoke, allVars
<1> QED
  BY <1>1, <1>2, <1>4, <1>5, <1>6 DEF DeliveryNext, PodActs, Rows

LEMMA StartsAsChannel == DeliveryInit => Channel!Init
<1> SUFFICES ASSUME DeliveryInit PROVE Channel!Init
  OBVIOUS
<1>1. \A k \in Keys : Awaited(k) = {}
  BY DEF DeliveryInit, Awaited, Rows
<1>2. Pending = [k \in Keys |-> <<>>]
  BY <1>1, PendingInOrder, InOrderNone
<1>3. processed = {} /\ skipped = {}
  BY DEF DeliveryInit
<1> QED
  BY <1>2, <1>3 DEF Channel!Init

(* The outbox, one relay, the topic and any number of consumers are the    *)
(* channel Fulfilment relies on: nothing of a rolled back change is ever   *)
(* applied, the events of a key are applied in order and once, whoever     *)
(* dies and whatever is resent, refetched or handled by two pods at once.  *)
THEOREM DeliveryImplementsChannel ==
  ASSUME OneRelay
  PROVE  DeliverySpec => ImplementsEventChannel
<1>1. DeliverySpec => [](Typed /\ Safe)
  BY InitTyped, StepTyped, InitSafe, StepSafe, PTL DEF DeliverySpec
<1>2. DeliverySpec => []Ordered
  BY <1>1, InitOrdered, StepOrdered, PTL DEF DeliverySpec
<1>3. Typed /\ Safe /\ Ordered /\ [DeliveryNext]_allVars => [Channel!Next]_(Channel!channel)
  BY StepsOfChannel
<1> QED
  BY <1>1, <1>2, <1>3, StartsAsChannel, PTL DEF DeliverySpec, ImplementsEventChannel, Channel!Spec
=============================================================================
