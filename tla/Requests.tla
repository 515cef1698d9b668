------------------------------ MODULE Requests ------------------------------
(***************************************************************************)
(* Creating a shipment, as its HTTP pods do it: run_idempotent around an   *)
(* action whose one slow part is a call to Inventory through the pod's     *)
(* ServiceClient.  One Idempotency-Key, requests that carry it with one    *)
(* body or another, and requests without a key; pods that die, a clock     *)
(* that the lease and the lifetime of the key run against.                 *)
(***************************************************************************)
EXTENDS Integers, Sequences, FiniteSets

CONSTANTS
  Handlers, Pods,   \* requests in progress, and the processes they run in
  PodOf,            \* Handlers -> Pods
  Bodies, NoKey,    \* request hashes; NoKey: a request without the header
  Nobody,
  Workloads,        \* of a behaviour: what is asked, how many times, and
                    \* whether Inventory may fail to answer
  Lease, Ttl,       \* lease_seconds and ttl_hours, in ticks of the clock
  Threshold,        \* failures that open the breaker
  Retries,
  MaxClock          \* bound

ASSUME HandlersFinite == IsFiniteSet(Handlers)
ASSUME PodsOfHandlers == PodOf \in [Handlers -> Pods]
ASSUME NoneOfThem == NoKey \notin Bodies /\ Nobody \notin Handlers
ASSUME WorkloadsOfBodies ==
  \A w \in Workloads : w.asks \subseteq Bodies \cup {NoKey} /\ w.times \in Nat /\ w.flaky \in BOOLEAN
ASSUME LeaseBelowTtl == Lease \in Nat \ {0} /\ Ttl \in Nat /\ Lease < Ttl
ASSUME ThresholdPositive == Threshold \in Nat \ {0}
ASSUME BoundsNatural == {Retries, MaxClock} \subseteq Nat

VARIABLES
  clock,
  row,          \* the key's row, committed; its id is new at every insert
  ids,
  rowLock,
  effects,      \* committed work, in the order of its commits
  pc, asked, now, claim, attempt,   \* of each handler
  breaker,      \* of each pod
  requests, workload,
  era, eraOf,   \* history: times the key expired and was used afresh
  answers,      \* history: answers of success
  overtaken,    \* history: a claim was taken over from a living holder
  hammered      \* history: attempts sent since the breaker opened

store == <<row, ids, era, overtaken>>
handler == <<pc, asked, now, claim, attempt, eraOf>>
env == <<clock, requests, workload>>
upstream == <<breaker, hammered>>
vars == <<store, rowLock, effects, handler, upstream, env, answers>>

NoRow == [id |-> 0, hash |-> NoKey, done |-> FALSE, response |-> 0,
          lockedUntil |-> 0, expiresAt |-> 0]
Closed == [failures |-> 0, state |-> "closed"]

Init ==
  /\ clock = 0 /\ row = NoRow /\ ids = 0
  /\ rowLock = Nobody
  /\ effects = <<>>
  /\ pc = [h \in Handlers |-> "idle"]
  /\ asked = [h \in Handlers |-> NoKey]
  /\ now = [h \in Handlers |-> 0]
  /\ claim = [h \in Handlers |-> 0]
  /\ attempt = [h \in Handlers |-> 0]
  /\ breaker = [p \in Pods |-> Closed]
  /\ requests = 0 /\ workload \in Workloads
  /\ era = 0 /\ eraOf = [h \in Handlers |-> 0]
  /\ answers = {}
  /\ overtaken = "no"
  /\ hammered = [p \in Pods |-> 0]
-----------------------------------------------------------------------------
Goto(h, at) == pc' = [pc EXCEPT ![h] = at]

Done(h) ==
  /\ Goto(h, "idle")
  /\ asked' = [asked EXCEPT ![h] = NoKey]
  /\ now' = [now EXCEPT ![h] = 0]
  /\ claim' = [claim EXCEPT ![h] = 0]
  /\ attempt' = [attempt EXCEPT ![h] = 0]
  /\ eraOf' = [eraOf EXCEPT ![h] = 0]

LetGo(h) == rowLock' = IF rowLock = h THEN Nobody ELSE rowLock

(* A request; claim computes its time before it reaches the database.      *)
Arrive(h) ==
  /\ pc[h] = "idle"
  /\ requests < workload.times
  /\ requests' = requests + 1
  /\ \E b \in workload.asks :
       /\ asked' = [asked EXCEPT ![h] = b]
       /\ Goto(h, IF b = NoKey THEN "work" ELSE "insert")
  /\ now' = [now EXCEPT ![h] = clock]
  /\ UNCHANGED <<store, rowLock, effects, claim, attempt, eraOf, upstream,
                 clock, workload, answers>>

Fresh(id, h) ==
  [NoRow EXCEPT !.id = id, !.hash = asked[h],
                !.lockedUntil = now[h] + Lease, !.expiresAt = now[h] + Ttl]

Holds(h, inEra) ==
  /\ Goto(h, "work")
  /\ claim' = [claim EXCEPT ![h] = row'.id]
  /\ eraOf' = [eraOf EXCEPT ![h] = inEra]

(* claim's INSERT ... ON CONFLICT DO NOTHING                               *)
Insert(h) ==
  /\ pc[h] = "insert"
  /\ IF row = NoRow
     THEN /\ row' = Fresh(ids + 1, h)
          /\ ids' = ids + 1
          /\ Holds(h, era)
     ELSE Goto(h, "select") /\ UNCHANGED <<row, ids, claim, eraOf>>
  /\ UNCHANGED <<rowLock, effects, asked, now, attempt, upstream, env, answers,
                 era, overtaken>>

Alive(id) == \E g \in Handlers : claim[g] = id /\ pc[g] # "idle"
Expired(h) == row.expiresAt <= now[h]
Leased(h) == row.lockedUntil > now[h]

(* The row the SELECT ... FOR UPDATE waited for is gone, holds another     *)
(* request, or is held.                                                    *)
Refused(h) ==
  /\ \/ row = NoRow
     \/ ~Expired(h) /\ (row.hash # asked[h] \/ (~row.done /\ Leased(h)))
  /\ Done(h)
  /\ UNCHANGED <<store, answers>>

(* Mutant of Reuse: the expired response stays in the row.                 *)
ReuseKeeping(h) ==
  /\ row # NoRow /\ Expired(h)
  /\ row' = [row EXCEPT !.hash = asked[h], !.lockedUntil = now[h] + Lease,
                        !.expiresAt = now[h] + Ttl]
  /\ era' = era + 1
  /\ Holds(h, era')
  /\ overtaken' = IF Alive(row.id) THEN "ttl" ELSE overtaken
  /\ UNCHANGED <<ids, asked, now, attempt, answers>>

Reuse(h) ==
  /\ row # NoRow /\ Expired(h)
  /\ row' = Fresh(row.id, h)
  /\ era' = era + 1
  /\ Holds(h, era')
  /\ overtaken' = IF Alive(row.id) THEN "ttl" ELSE overtaken
  /\ UNCHANGED <<ids, asked, now, attempt, answers>>

Replay(h) ==
  /\ row # NoRow /\ ~Expired(h) /\ row.hash = asked[h] /\ row.done
  /\ answers' = answers \cup {[hash |-> asked[h], effect |-> row.response, era |-> era]}
  /\ Done(h)
  /\ UNCHANGED store

(* Mutant of TakeOver: the lease is not looked at.                         *)
TakeOverHeld(h) ==
  /\ row # NoRow /\ ~Expired(h) /\ row.hash = asked[h] /\ ~row.done
  /\ row' = [row EXCEPT !.lockedUntil = now[h] + Lease]
  /\ Holds(h, era)
  /\ overtaken' = IF Alive(row.id) /\ ~Leased(h) THEN "lease" ELSE overtaken
  /\ UNCHANGED <<ids, era, asked, now, attempt, answers>>

TakeOver(h) ==
  /\ row # NoRow /\ ~Expired(h) /\ row.hash = asked[h] /\ ~row.done /\ ~Leased(h)
  /\ row' = [row EXCEPT !.lockedUntil = now[h] + Lease]
  /\ Holds(h, era)
  /\ overtaken' = IF Alive(row.id) /\ overtaken = "no" THEN "lease" ELSE overtaken
  /\ UNCHANGED <<ids, era, asked, now, attempt, answers>>

Select(h) ==
  /\ pc[h] = "select"
  /\ rowLock = Nobody
  /\ Refused(h) \/ Reuse(h) \/ Replay(h) \/ TakeOver(h)
  /\ UNCHANGED <<rowLock, effects, upstream, env>>
-----------------------------------------------------------------------------
(* The action: a call to Inventory.                                        *)

Open(p) == breaker[p].state = "open"

(* Mutant of Call: nobody looks at the breaker.                            *)
CallAnyway(h) ==
  /\ pc[h] = "work"
  /\ Goto(h, "call")
  /\ attempt' = [attempt EXCEPT ![h] = 1]
  /\ hammered' = [hammered EXCEPT ![PodOf[h]] = IF Open(PodOf[h]) THEN @ + 1 ELSE @]
  /\ UNCHANGED <<store, rowLock, effects, asked, now, claim, eraOf, breaker, env, answers>>

(* request asks the breaker once, before its first attempt.                *)
Call(h) ==
  /\ pc[h] = "work"
  /\ ~Open(PodOf[h])
  /\ Goto(h, "call")
  /\ attempt' = [attempt EXCEPT ![h] = 1]
  /\ UNCHANGED <<store, rowLock, effects, asked, now, claim, eraOf, upstream, env, answers>>

(* record_success: the answer is a 2xx, or a refusal of another kind.      *)
Answered(h) ==
  /\ pc[h] = "call"
  /\ breaker' = [breaker EXCEPT ![PodOf[h]] = Closed]
  /\ hammered' = [hammered EXCEPT ![PodOf[h]] = 0]
  /\ attempt' = [attempt EXCEPT ![h] = 0]
  /\ Goto(h, IF claim[h] = 0 THEN "commit" ELSE "record")
  /\ UNCHANGED <<store, rowLock, effects, asked, now, claim, eraOf, env, answers>>

(* record_failure: from the threshold on every failure opens it anew.      *)
Failure(b) ==
  [failures |-> IF b.failures < Threshold THEN b.failures + 1 ELSE Threshold,
   state |-> IF b.failures + 1 >= Threshold THEN "open" ELSE b.state]

(* A transport error, a timeout or a 502 to 504; with attempts left the    *)
(* next one is due.                                                        *)
NoAnswer(h) ==
  /\ pc[h] = "call" /\ workload.flaky
  /\ breaker' = [breaker EXCEPT ![PodOf[h]] = Failure(@)]
  /\ Goto(h, IF attempt[h] <= Retries THEN "sleep" ELSE "failed")
  /\ UNCHANGED <<store, rowLock, effects, asked, now, claim, attempt, eraOf, hammered,
                 env, answers>>

Again(h) ==
  /\ pc[h] = "sleep"
  /\ Goto(h, "call")
  /\ attempt' = [attempt EXCEPT ![h] = @ + 1]
  /\ hammered' = [hammered EXCEPT ![PodOf[h]] = IF Open(PodOf[h]) THEN @ + 1 ELSE @]
  /\ UNCHANGED <<store, rowLock, effects, asked, now, claim, eraOf, breaker, env, answers>>

(* reset_after has passed since the breaker last opened.                   *)
HalfOpens(p) ==
  /\ Open(p)
  /\ breaker' = [breaker EXCEPT ![p].state = "half"]
  /\ hammered' = [hammered EXCEPT ![p] = 0]
  /\ UNCHANGED <<store, rowLock, effects, handler, env, answers>>
-----------------------------------------------------------------------------
(* record: UPDATE ... WHERE id, in the transaction of the work; no row, no *)
(* error.                                                                  *)
Record(h) ==
  /\ pc[h] = "record"
  /\ IF row.id = claim[h] THEN rowLock = Nobody /\ rowLock' = h ELSE UNCHANGED rowLock
  /\ Goto(h, "commit")
  /\ UNCHANGED <<store, effects, asked, now, claim, attempt, eraOf, upstream, env, answers>>

(* The work, and with it the response where record found the row.          *)
Committed(h) ==
  /\ pc[h] = "commit"
  /\ effects' = Append(effects, [hash |-> asked[h], era |-> eraOf[h]])
  /\ row' = IF rowLock # h THEN row
            ELSE [row EXCEPT !.done = TRUE, !.response = Len(effects'), !.lockedUntil = 0]
  /\ LetGo(h)
  /\ UNCHANGED <<ids, era, overtaken, upstream, env>>

(* Mutant of Commit: the response is stored in a transaction of its own,   *)
(* which may not come.                                                     *)
CommitApart(h) ==
  /\ pc[h] = "commit"
  /\ effects' = Append(effects, [hash |-> asked[h], era |-> eraOf[h]])
  /\ LetGo(h)
  /\ Done(h)
  /\ answers' = answers \cup {[hash |-> asked[h], effect |-> Len(effects'), era |-> eraOf[h]]}
  /\ UNCHANGED <<store, upstream, env>>

Commit(h) ==
  /\ Committed(h)
  /\ Done(h)
  /\ answers' = IF asked[h] = NoKey THEN answers
                ELSE answers \cup {[hash |-> asked[h], effect |-> Len(effects'), era |-> eraOf[h]]}

(* The connection is lost after the COMMIT and before its answer.          *)
CommitUnheard(h) ==
  /\ Committed(h)
  /\ Goto(h, "failed")
  /\ UNCHANGED <<asked, now, claim, attempt, eraOf, answers>>

(* An exception on the way: Inventory refuses or cannot be reached, the    *)
(* database fails.                                                         *)
Fails(h) ==
  /\ pc[h] \in {"work", "call", "record", "commit"}
  /\ breaker' = IF pc[h] = "call" THEN [breaker EXCEPT ![PodOf[h]] = Closed] ELSE breaker
  /\ hammered' = IF pc[h] = "call" THEN [hammered EXCEPT ![PodOf[h]] = 0] ELSE hammered
  /\ LetGo(h)
  /\ Goto(h, "failed")
  /\ UNCHANGED <<store, effects, asked, now, claim, attempt, eraOf, env, answers>>

(* Mutant of Release: a completed claim is dropped too.                    *)
ReleaseAny(h) ==
  /\ pc[h] = "failed"
  /\ IF claim[h] # 0 /\ row.id = claim[h] THEN rowLock = Nobody /\ row' = NoRow ELSE UNCHANGED row
  /\ Done(h)
  /\ UNCHANGED <<ids, era, overtaken, rowLock, effects, upstream, env, answers>>

(* release: DELETE ... WHERE id AND completed_at IS NULL, which waits for  *)
(* a record not committed yet.                                             *)
Release(h) ==
  /\ pc[h] = "failed"
  /\ IF claim[h] # 0 /\ row.id = claim[h] /\ ~row.done
     THEN rowLock = Nobody /\ row' = NoRow
     ELSE UNCHANGED row
  /\ Done(h)
  /\ UNCHANGED <<ids, era, overtaken, rowLock, effects, upstream, env, answers>>

(* claim fails, or release does: the claim stays.                          *)
GivesUp(h) ==
  /\ pc[h] \in {"insert", "select", "failed"}
  /\ Done(h)
  /\ UNCHANGED <<store, rowLock, effects, upstream, env, answers>>

(* A pod dies with its requests; the database rolls them back.             *)
Crash(p) ==
  LET its == {h \in Handlers : PodOf[h] = p}
      Reset(f, v) == [h \in Handlers |-> IF h \in its THEN v ELSE f[h]]
  IN /\ \E h \in its : pc[h] # "idle"
     /\ pc' = Reset(pc, "idle")
     /\ asked' = Reset(asked, NoKey)
     /\ now' = Reset(now, 0)
     /\ claim' = Reset(claim, 0)
     /\ attempt' = Reset(attempt, 0)
     /\ eraOf' = Reset(eraOf, 0)
     /\ rowLock' = IF rowLock \in its THEN Nobody ELSE rowLock
     /\ breaker' = [breaker EXCEPT ![p] = Closed]
     /\ hammered' = [hammered EXCEPT ![p] = 0]
     /\ UNCHANGED <<store, effects, env, answers>>

Tick ==
  /\ clock < MaxClock
  /\ clock' = clock + 1
  /\ UNCHANGED <<store, rowLock, effects, handler, upstream, requests, workload, answers>>

Next ==
  \/ Tick
  \/ \E p \in Pods : HalfOpens(p) \/ Crash(p)
  \/ \E h \in Handlers :
       \/ Arrive(h) \/ Insert(h) \/ Select(h) \/ GivesUp(h)
       \/ Call(h) \/ Answered(h) \/ NoAnswer(h) \/ Again(h) \/ Fails(h)
       \/ Record(h) \/ Commit(h) \/ CommitUnheard(h) \/ Release(h)

Spec == Init /\ [][Next]_vars
-----------------------------------------------------------------------------
RequestsTypeOK ==
  /\ row.id \in 0..ids /\ row.response \in 0..Len(effects)
  /\ row.done => row.lockedUntil = 0 /\ row.response # 0
  /\ rowLock # Nobody => pc[rowLock] = "commit" /\ claim[rowLock] = row.id /\ row.id # 0
  /\ \A h \in Handlers : claim[h] \in 0..ids /\ attempt[h] \in 0..Retries + 1
  /\ \A h \in Handlers : pc[h] \in {"record", "commit"} => attempt[h] = 0
  /\ \A p \in Pods : breaker[p] \in [failures : 0..Threshold, state : {"closed", "open", "half"}]

(* idempotency.py: "Work and stored response are atomic: there is no       *)
(* window where one exists without the other".  While no claim was taken   *)
(* from a holder that still lives, the work done for the key since it last *)
(* expired is done once and its response is stored; a repeat finds it.     *)
WorkIsRecorded ==
  overtaken = "no" =>
    \A i \in DOMAIN effects :
      effects[i].hash # NoKey /\ effects[i].era = era => row.done /\ row.response = i

(* "A repeat with the same key and body returns the original response":    *)
(* an answer belongs to work done for that body, and two answers to one    *)
(* key agree, unless a lease lapsed on a living holder.                    *)
AnswersAgree ==
  \A a \in answers :
    /\ overtaken # "ttl" => effects[a.effect].hash = a.hash
    /\ \A b \in answers : overtaken = "no" /\ a.era = b.era => a = b

(* http.py: "a circuit breaker stops hammering a service that keeps        *)
(* failing".  The calls under way when it opens go on to retry, and no     *)
(* others: a pod sends no more than their retries until it half-opens.     *)
BreakerStops ==
  \A p \in Pods : hammered[p] <= Retries * Cardinality({h \in Handlers : PodOf[h] = p})
=============================================================================
