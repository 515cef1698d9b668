---------------------------- MODULE RequestsProofs ----------------------------
(***************************************************************************)
(* What an Idempotency-Key guarantees, for any number of requests, pods,   *)
(* crashes and lapsed leases.  Two histories limit it, the same as in the  *)
(* properties: a lease, or the lifetime of the key, that ran out on a      *)
(* holder still at work.                                                   *)
(***************************************************************************)
EXTENDS Requests, FiniteSetTheorems, SequenceTheorems, TLAPS

Phases == {"idle", "insert", "select", "work", "call", "sleep", "record", "commit", "failed"}
AtWork == {"work", "call", "sleep", "record", "commit"}
Hashes == Bodies \cup {NoKey}
Effects == [hash : Hashes, era : Nat]
RowsOfKey == [id : Nat, hash : Hashes, done : BOOLEAN, response : Nat, lockedUntil : Int, expiresAt : Int]

HandlersTyped ==
  /\ pc \in [Handlers -> Phases] /\ asked \in [Handlers -> Hashes]
  /\ claim \in [Handlers -> Nat] /\ eraOf \in [Handlers -> Nat]
  /\ now \in [Handlers -> Nat] /\ clock \in Nat /\ workload \in Workloads

StoreTyped ==
  /\ ids \in Nat /\ era \in Nat
  /\ row \in RowsOfKey /\ row.id <= ids
  /\ row.id = 0 => row = NoRow
  /\ row.id # 0 => row.hash # NoKey
  /\ effects \in Seq(Effects)
  /\ overtaken \in {"no", "lease", "ttl"}

(* A claim is made by a request with a key, on a row of an id and an era   *)
(* that existed; record locks the row it completes.                        *)
Claims ==
  /\ \A h \in Handlers : pc[h] \in {"idle", "insert", "select"} => claim[h] = 0
  /\ \A h \in Handlers : pc[h] \in {"insert", "select"} => asked[h] # NoKey
  /\ \A h \in Handlers : pc[h] \in AtWork => (claim[h] = 0 <=> asked[h] = NoKey)
  /\ \A h \in Handlers : pc[h] = "record" => claim[h] # 0
  /\ \A h \in Handlers : claim[h] <= ids /\ eraOf[h] <= era
  /\ \A i \in DOMAIN effects : effects[i].era <= era

Locked ==
  /\ rowLock \in Handlers \cup {Nobody}
  /\ \A h \in Handlers : rowLock = h => pc[h] = "commit" /\ claim[h] = row.id /\ claim[h] # 0

Shape == HandlersTyped /\ StoreTyped /\ Claims /\ Locked

(* Until a claim is taken from a living holder, a claim has one holder,    *)
(* whose row is there and open, and which completes it when it commits.    *)
Held ==
  /\ \A g, h \in Handlers : claim[g] = claim[h] /\ claim[g] # 0 => g = h
  /\ \A h \in Handlers : pc[h] \in AtWork /\ claim[h] # 0 =>
       claim[h] = row.id /\ ~row.done /\ eraOf[h] = era
  /\ \A h \in Handlers : pc[h] = "commit" /\ claim[h] # 0 => rowLock = h

(* Work done for the key is done once in an era, and recorded.             *)
Once ==
  /\ \A i \in DOMAIN effects : effects[i].hash # NoKey /\ effects[i].era = era =>
       row.done /\ row.response = i
  /\ \A i, j \in DOMAIN effects :
       effects[i].hash # NoKey /\ effects[j].hash # NoKey /\ effects[i].era = effects[j].era => i = j

Undisturbed == overtaken = "no" => Held /\ Once

LEMMA InitShape == Init => Shape /\ Undisturbed
<1> SUFFICES ASSUME Init PROVE Shape /\ Undisturbed
  OBVIOUS
<1>1. HandlersTyped
  BY DEF Init, HandlersTyped, Phases, Hashes
<1>2. StoreTyped
  BY DEF Init, StoreTyped, NoRow, RowsOfKey, Hashes
<1>3. Claims /\ Locked
  BY NoneOfThem DEF Init, Claims, Locked, AtWork
<1>4. Held /\ Once
  BY DEF Init, Held, Once, AtWork
<1> QED
  BY <1>1, <1>2, <1>3, <1>4 DEF Shape, Undisturbed
-----------------------------------------------------------------------------
(* Steps that leave the row of the key and the work alone: a handler goes  *)
(* on, or ends and forgets its claim.                                      *)
Quiet ==
  /\ UNCHANGED <<store, effects>>
  /\ HandlersTyped'
  /\ \A g \in Handlers : /\ claim'[g] \in {claim[g], 0} /\ eraOf'[g] \in {eraOf[g], 0}
                         /\ claim'[g] # 0 => asked'[g] = asked[g] /\ eraOf'[g] = eraOf[g]
                         /\ claim'[g] # 0 /\ pc'[g] \in AtWork => pc[g] \in AtWork
                         /\ pc'[g] \in {"idle", "insert", "select"} => claim'[g] = 0
                         /\ pc'[g] \in {"insert", "select"} => asked'[g] # NoKey
                         /\ pc'[g] \in AtWork => (claim'[g] = 0 <=> asked'[g] = NoKey)
                         /\ pc'[g] = "record" => claim'[g] # 0
  /\ Locked'
  /\ Held => \A g \in Handlers : pc'[g] = "commit" /\ claim'[g] # 0 => rowLock' = g

LEMMA QuietKeeps ==
  ASSUME Shape, Undisturbed, Quiet
  PROVE  Shape' /\ Undisturbed'
<1>1. /\ row' = row /\ ids' = ids /\ era' = era /\ overtaken' = overtaken /\ effects' = effects
  BY DEF Quiet, store
<1>2. StoreTyped'
  BY <1>1 DEF Shape, StoreTyped
<1>3. Claims'
  <2>1. \A g \in Handlers : claim[g] \in 0..ids /\ eraOf[g] \in 0..era
    BY DEF Shape, Claims, HandlersTyped, StoreTyped
  <2>2. \A g \in Handlers : claim'[g] <= ids /\ eraOf'[g] <= era
    BY <2>1 DEF Quiet, Shape, StoreTyped
  <2>3. \A i \in DOMAIN effects : effects[i].era <= era
    BY DEF Shape, Claims
  <2> QED
    BY <1>1, <2>2, <2>3 DEF Quiet, Claims
<1>4. Shape'
  BY <1>2, <1>3 DEF Quiet, Shape
<1>5. ASSUME Held PROVE Held'
  BY <1>1, <1>5 DEF Quiet, Held
<1>6. ASSUME Once PROVE Once'
  BY <1>1, <1>6 DEF Once
<1> QED
  BY <1>1, <1>4, <1>5, <1>6 DEF Undisturbed
-----------------------------------------------------------------------------
(* A request ends.                                                         *)
LEMMA DoneIsQuiet ==
  ASSUME Shape, NEW h \in Handlers, Done(h), rowLock # h, UNCHANGED <<store, rowLock, effects, clock, workload>>
  PROVE  Quiet
<1>1. /\ pc' = [pc EXCEPT ![h] = "idle"] /\ asked' = [asked EXCEPT ![h] = NoKey]
      /\ claim' = [claim EXCEPT ![h] = 0] /\ eraOf' = [eraOf EXCEPT ![h] = 0]
      /\ now' = [now EXCEPT ![h] = 0]
  BY DEF Done, Goto
<1>2. HandlersTyped'
  BY <1>1 DEF Shape, HandlersTyped, Phases, Hashes
<1>3. /\ pc'[h] = "idle" /\ claim'[h] = 0 /\ eraOf'[h] = 0
      /\ \A g \in Handlers \ {h} : /\ pc'[g] = pc[g] /\ asked'[g] = asked[g]
                                   /\ claim'[g] = claim[g] /\ eraOf'[g] = eraOf[g]
  BY <1>1 DEF Shape, HandlersTyped
<1>4. Locked'
  BY <1>3 DEF Shape, Locked, store
<1>5. \A g \in Handlers : /\ claim'[g] \in {claim[g], 0} /\ eraOf'[g] \in {eraOf[g], 0}
                          /\ claim'[g] # 0 => asked'[g] = asked[g] /\ eraOf'[g] = eraOf[g]
                          /\ claim'[g] # 0 /\ pc'[g] \in AtWork => pc[g] \in AtWork
                          /\ pc'[g] \in {"idle", "insert", "select"} => claim'[g] = 0
                          /\ pc'[g] \in {"insert", "select"} => asked'[g] # NoKey
                          /\ pc'[g] \in AtWork => (claim'[g] = 0 <=> asked'[g] = NoKey)
                          /\ pc'[g] = "record" => claim'[g] # 0
  BY <1>3 DEF Shape, Claims, AtWork
<1>6. Held => \A g \in Handlers : pc'[g] = "commit" /\ claim'[g] # 0 => rowLock' = g
  BY <1>3 DEF Held
<1> QED
  BY <1>2, <1>4, <1>5, <1>6 DEF Quiet

(* A request goes from one phase to another and keeps what it holds.       *)
LEMMA MoveIsQuiet ==
  ASSUME Shape, NEW h \in Handlers, NEW at \in Phases, Goto(h, at),
         at \in AtWork => pc[h] \in AtWork,
         at = "record" => claim[h] # 0,
         at \in {"idle", "insert", "select"} => pc[h] \in {"insert", "select"} /\ at # "idle",
         rowLock' = h => at = "commit" /\ claim[h] = row.id /\ claim[h] # 0,
         rowLock' \in {rowLock, h} \/ (rowLock = h /\ rowLock' = Nobody),
         rowLock' = h => rowLock \in {Nobody, h},
         at = "commit" /\ claim[h] # 0 /\ claim[h] = row.id => rowLock' = h,
         UNCHANGED <<store, effects, asked, claim, eraOf, now, clock, workload>>
  PROVE  Quiet
<1>1. pc' = [pc EXCEPT ![h] = at]
  BY DEF Goto
<1>2. pc'[h] = at /\ \A g \in Handlers \ {h} : pc'[g] = pc[g]
  BY <1>1 DEF Shape, HandlersTyped
<1>3. HandlersTyped'
  BY <1>1 DEF Shape, HandlersTyped
<1>4. row' = row /\ rowLock' \in Handlers \cup {Nobody}
  BY DEF Shape, Locked, store
<1>5. \A g \in Handlers : rowLock' = g => pc'[g] = "commit" /\ claim'[g] = row'.id /\ claim'[g] # 0
  <2> SUFFICES ASSUME NEW g \in Handlers, rowLock' = g
               PROVE  pc'[g] = "commit" /\ claim'[g] = row'.id /\ claim'[g] # 0
    OBVIOUS
  <2>1. CASE g = h
    BY <1>2, <1>4, <2>1
  <2>2. CASE g # h
    BY <1>2, <1>4, <2>2, NoneOfThem DEF Shape, Locked
  <2> QED
    BY <2>1, <2>2
<1>6. Held => \A g \in Handlers : pc'[g] = "commit" /\ claim'[g] # 0 => rowLock' = g
  <2> SUFFICES ASSUME Held, NEW g \in Handlers, pc'[g] = "commit", claim'[g] # 0 PROVE rowLock' = g
    OBVIOUS
  <2>1. CASE g = h
    <3>1. claim[h] = row.id
      BY <1>2, <2>1 DEF Held, AtWork
    <3> QED
      BY <1>2, <2>1, <3>1
  <2>2. CASE g # h
    BY <1>2, <2>2, NoneOfThem DEF Held
  <2> QED
    BY <2>1, <2>2
<1>7. \A g \in Handlers : /\ claim'[g] \in {claim[g], 0} /\ eraOf'[g] \in {eraOf[g], 0}
                          /\ claim'[g] # 0 => asked'[g] = asked[g] /\ eraOf'[g] = eraOf[g]
                          /\ claim'[g] # 0 /\ pc'[g] \in AtWork => pc[g] \in AtWork
                          /\ pc'[g] \in {"idle", "insert", "select"} => claim'[g] = 0
                          /\ pc'[g] \in {"insert", "select"} => asked'[g] # NoKey
                          /\ pc'[g] \in AtWork => (claim'[g] = 0 <=> asked'[g] = NoKey)
                          /\ pc'[g] = "record" => claim'[g] # 0
  BY <1>2 DEF Shape, Claims, AtWork
<1> QED
  BY <1>3, <1>4, <1>5, <1>6, <1>7 DEF Quiet, Locked

LEMMA ArriveIsQuiet ==
  ASSUME Shape, NEW h \in Handlers, Arrive(h)
  PROVE  Quiet
<1>1. PICK b \in workload.asks :
        /\ asked' = [asked EXCEPT ![h] = b]
        /\ pc' = [pc EXCEPT ![h] = IF b = NoKey THEN "work" ELSE "insert"]
  BY DEF Arrive, Goto
<1>2. b \in Hashes
  BY <1>1, WorkloadsOfBodies DEF Hashes, Shape, HandlersTyped
<1>3. now' = [now EXCEPT ![h] = clock] /\ claim' = claim /\ eraOf' = eraOf /\ clock' = clock
      /\ workload' = workload
  BY DEF Arrive
<1>4. HandlersTyped'
  BY <1>1, <1>2, <1>3 DEF Shape, HandlersTyped, Phases
<1>5. pc[h] = "idle" /\ claim[h] = 0
  BY DEF Arrive, Shape, Claims
<1>6. /\ asked'[h] = b /\ pc'[h] = (IF b = NoKey THEN "work" ELSE "insert")
      /\ \A g \in Handlers \ {h} : pc'[g] = pc[g] /\ asked'[g] = asked[g]
  BY <1>1 DEF Shape, HandlersTyped
<1>7. Locked'
  BY <1>3, <1>5, <1>6 DEF Arrive, Shape, Locked, store
<1>8. \A g \in Handlers : /\ claim'[g] \in {claim[g], 0} /\ eraOf'[g] \in {eraOf[g], 0}
                          /\ claim'[g] # 0 => asked'[g] = asked[g] /\ eraOf'[g] = eraOf[g]
                          /\ claim'[g] # 0 /\ pc'[g] \in AtWork => pc[g] \in AtWork
                          /\ pc'[g] \in {"idle", "insert", "select"} => claim'[g] = 0
                          /\ pc'[g] \in {"insert", "select"} => asked'[g] # NoKey
                          /\ pc'[g] \in AtWork => (claim'[g] = 0 <=> asked'[g] = NoKey)
                          /\ pc'[g] = "record" => claim'[g] # 0
  BY <1>3, <1>5, <1>6 DEF Shape, Claims, AtWork
<1>9. Held => \A g \in Handlers : pc'[g] = "commit" /\ claim'[g] # 0 => rowLock' = g
  BY <1>3, <1>5, <1>6 DEF Arrive, Held
<1> QED
  BY <1>4, <1>7, <1>8, <1>9 DEF Quiet, Arrive

LEMMA CrashIsQuiet ==
  ASSUME Shape, NEW p \in Pods, Crash(p)
  PROVE  Quiet
<1> DEFINE its == {h \in Handlers : PodOf[h] = p}
<1>1. /\ pc' = [h \in Handlers |-> IF h \in its THEN "idle" ELSE pc[h]]
      /\ asked' = [h \in Handlers |-> IF h \in its THEN NoKey ELSE asked[h]]
      /\ now' = [h \in Handlers |-> IF h \in its THEN 0 ELSE now[h]]
      /\ claim' = [h \in Handlers |-> IF h \in its THEN 0 ELSE claim[h]]
      /\ eraOf' = [h \in Handlers |-> IF h \in its THEN 0 ELSE eraOf[h]]
      /\ rowLock' = IF rowLock \in its THEN Nobody ELSE rowLock
      /\ UNCHANGED <<store, effects, clock, workload>>
  BY DEF Crash, env
<1> HIDE DEF its
<1>2. HandlersTyped'
  BY <1>1 DEF Shape, HandlersTyped, Phases, Hashes
<1>3. Locked'
  BY <1>1, NoneOfThem DEF Shape, Locked, store
<1>4. \A g \in Handlers : /\ claim'[g] \in {claim[g], 0} /\ eraOf'[g] \in {eraOf[g], 0}
                          /\ claim'[g] # 0 => asked'[g] = asked[g] /\ eraOf'[g] = eraOf[g]
                          /\ claim'[g] # 0 /\ pc'[g] \in AtWork => pc[g] \in AtWork
                          /\ pc'[g] \in {"idle", "insert", "select"} => claim'[g] = 0
                          /\ pc'[g] \in {"insert", "select"} => asked'[g] # NoKey
                          /\ pc'[g] \in AtWork => (claim'[g] = 0 <=> asked'[g] = NoKey)
                          /\ pc'[g] = "record" => claim'[g] # 0
  BY <1>1 DEF Shape, Claims, AtWork
<1>5. Held => \A g \in Handlers : pc'[g] = "commit" /\ claim'[g] # 0 => rowLock' = g
  BY <1>1 DEF Held
<1> QED
  BY <1>1, <1>2, <1>3, <1>4, <1>5 DEF Quiet

(* The call to Inventory, and everything else that is no write of the key. *)
LEMMA WorkIsQuiet ==
  ASSUME Shape, NEW h \in Handlers, Call(h) \/ Answered(h) \/ NoAnswer(h) \/ Again(h) \/ Fails(h) \/ Record(h)
  PROVE  Quiet
<1>1. CASE Call(h)
  <2>1. rowLock # h
    BY <1>1 DEF Call, Shape, Locked
  <2> QED
    BY <1>1, <2>1, MoveIsQuiet DEF Call, Phases, AtWork, env
<1>2. CASE Answered(h)
  <2>1. rowLock # h
    BY <1>2 DEF Answered, Shape, Locked
  <2>2. CASE claim[h] = 0
    <3>1. Goto(h, "commit")
      BY <1>2, <2>2 DEF Answered
    <3> QED
      BY <1>2, <2>1, <2>2, <3>1, MoveIsQuiet DEF Answered, Phases, AtWork, env
  <2>3. CASE claim[h] # 0
    <3>1. Goto(h, "record")
      BY <1>2, <2>3 DEF Answered
    <3> QED
      BY <1>2, <2>1, <3>1, MoveIsQuiet DEF Answered, Phases, AtWork, env
  <2> QED
    BY <2>2, <2>3
<1>3. CASE NoAnswer(h)
  <2>1. rowLock # h
    BY <1>3 DEF NoAnswer, Shape, Locked
  <2>2. PICK at \in {"sleep", "failed"} : Goto(h, at)
    BY <1>3 DEF NoAnswer
  <2> QED
    BY <1>3, <2>1, <2>2, MoveIsQuiet DEF NoAnswer, Phases, AtWork, env
<1>4. CASE Again(h)
  <2>1. rowLock # h
    BY <1>4 DEF Again, Shape, Locked
  <2> QED
    BY <1>4, <2>1, MoveIsQuiet DEF Again, Phases, AtWork, env
<1>5. CASE Fails(h)
  <2>1. Goto(h, "failed") /\ pc[h] \in AtWork
        /\ rowLock' = (IF rowLock = h THEN Nobody ELSE rowLock)
        /\ UNCHANGED <<store, effects, asked, claim, eraOf, now, clock, workload>>
    BY <1>5 DEF Fails, LetGo, AtWork, env
  <2> QED
    BY <2>1, MoveIsQuiet, NoneOfThem DEF Phases, AtWork
<1>6. CASE Record(h)
  <2>1. Goto(h, "commit") /\ pc[h] \in AtWork /\ rowLock # h /\ claim[h] # 0
        /\ UNCHANGED <<store, effects, asked, claim, eraOf, now, clock, workload>>
    BY <1>6 DEF Record, Shape, Locked, Claims, AtWork, env
  <2> QED
    BY <1>6, <2>1, MoveIsQuiet DEF Record, Phases, AtWork
<1> QED
  BY <1>1, <1>2, <1>3, <1>4, <1>5, <1>6

(* The clock and the breakers are none of the key's business.              *)
LEMMA RestIsQuiet ==
  ASSUME Shape, UNCHANGED <<store, rowLock, effects, handler, workload>>, clock' \in Nat
  PROVE  Quiet
<1>1. HandlersTyped' /\ Locked'
  BY DEF handler, store, Shape, HandlersTyped, Locked
<1> QED
  BY <1>1 DEF Quiet, Shape, Claims, Held, handler

(* Claims that are refused or fail, and answers from the stored response.  *)
LEMMA EndIsQuiet ==
  ASSUME Shape, NEW h \in Handlers, pc[h] # "commit", Done(h),
         UNCHANGED <<store, rowLock, effects, clock, workload>>
  PROVE  Quiet
<1>1. rowLock # h
  BY DEF Shape, Locked
<1> QED
  BY <1>1, DoneIsQuiet

LEMMA LookIsQuiet ==
  ASSUME Shape, NEW h \in Handlers, Insert(h), row # NoRow
  PROVE  Quiet
<1>1. Goto(h, "select") /\ UNCHANGED <<store, rowLock, effects, asked, claim, eraOf, now, clock, workload>>
  BY DEF Insert, store, env
<1>2. pc[h] = "insert" /\ rowLock # h
  BY DEF Insert, Shape, Locked
<1> QED
  BY <1>1, <1>2, MoveIsQuiet DEF Phases, AtWork
-----------------------------------------------------------------------------
(* A handler takes the row: nobody it could disturb holds it, or           *)
(* `overtaken' says so, and nothing is recorded for the era it works in.   *)
TakesRow(h) ==
  /\ pc[h] \in {"insert", "select"} /\ pc' = [pc EXCEPT ![h] = "work"]
  /\ claim' = [claim EXCEPT ![h] = row'.id] /\ eraOf' = [eraOf EXCEPT ![h] = era']
  /\ UNCHANGED <<asked, now, clock, workload, effects, rowLock>>
  /\ rowLock = Nobody
  /\ row' \in RowsOfKey /\ row'.id \in 1..ids' /\ row'.hash = asked[h] /\ ~row'.done
  /\ ids' \in Nat /\ ids <= ids' /\ era' \in Nat /\ era <= era'
  /\ row'.response = 0 \/ row'.response = row.response
  /\ overtaken' \in {"no", "lease", "ttl"}
  /\ overtaken' # "ttl" =>
       /\ overtaken # "ttl"
       /\ (\A g \in Handlers : claim[g] # row'.id) \/ (row'.id = row.id /\ row'.hash = row.hash)
  /\ overtaken' = "no" =>
       /\ overtaken = "no"
       /\ \A g \in Handlers : claim[g] # row'.id
       /\ Held => \A g \in Handlers : pc[g] \in AtWork => claim[g] = 0
       /\ era' = era => ~row.done

LEMMA ErasTyped ==
  ASSUME Shape
  PROVE  \A i \in DOMAIN effects :
           effects[i] \in Effects /\ effects[i].era \in Nat /\ effects[i].era <= era
<1>1. effects \in Seq(Effects) /\ DOMAIN effects = 1..Len(effects)
  BY DEF Shape, StoreTyped
<1>2. \A i \in DOMAIN effects : effects[i] \in Effects
  BY <1>1, ElementOfSeq
<1> QED
  BY <1>2 DEF Effects, Shape, Claims

LEMMA TakingKeeps ==
  ASSUME Shape, Undisturbed, NEW h \in Handlers, TakesRow(h)
  PROVE  Shape' /\ Undisturbed'
<1>1. /\ pc'[h] = "work" /\ claim'[h] = row'.id /\ eraOf'[h] = era' /\ asked[h] # NoKey
      /\ \A g \in Handlers \ {h} : pc'[g] = pc[g] /\ claim'[g] = claim[g] /\ eraOf'[g] = eraOf[g]
      /\ asked' = asked /\ effects' = effects
      /\ row'.id \in Nat /\ row'.id # 0 /\ row'.id <= ids'
  BY DEF TakesRow, Shape, HandlersTyped, Claims
<1>2. HandlersTyped'
  BY <1>1 DEF TakesRow, Shape, HandlersTyped, Phases
<1>3. StoreTyped'
  BY <1>1 DEF TakesRow, Shape, StoreTyped
<1>4. Claims'
  <2>1. \A g \in Handlers : claim[g] \in Nat /\ claim[g] <= ids /\ eraOf[g] \in Nat /\ eraOf[g] <= era
    BY DEF Shape, Claims, HandlersTyped
  <2>2. ids \in Nat /\ era \in Nat /\ ids' \in Nat /\ era' \in Nat /\ ids <= ids' /\ era <= era'
    BY DEF TakesRow, Shape, StoreTyped
  <2>3. \A g \in Handlers : claim'[g] <= ids' /\ eraOf'[g] <= era'
    BY <1>1, <2>1, <2>2
  <2>4. \A i \in DOMAIN effects : effects[i].era \in Nat /\ effects[i].era <= era
    BY ErasTyped
  <2>5. \A i \in DOMAIN effects : effects[i].era <= era'
    BY <2>2, <2>4
  <2> QED
    BY <1>1, <2>3, <2>5 DEF Shape, Claims, AtWork
<1>5. Locked'
  BY NoneOfThem DEF TakesRow, Locked
<1>6. ASSUME overtaken' = "no" PROVE Held' /\ Once'
  <2>1. /\ Held /\ Once
        /\ \A g \in Handlers : claim[g] # row'.id /\ (pc[g] \in AtWork => claim[g] = 0)
        /\ (era' = era => ~row.done)
    BY <1>6 DEF TakesRow, Undisturbed
  <2>2. Held'
    <3>1. \A g, k \in Handlers : claim'[g] = claim'[k] /\ claim'[g] # 0 => g = k
      BY <1>1, <2>1 DEF Held
    <3>2. \A g \in Handlers : pc'[g] \in AtWork /\ claim'[g] # 0 => g = h
      BY <1>1, <2>1
    <3>3. ~row'.done /\ "work" # "commit"
      BY DEF TakesRow
    <3>4. \A g \in Handlers : pc'[g] \in AtWork /\ claim'[g] # 0 =>
            claim'[g] = row'.id /\ ~row'.done /\ eraOf'[g] = era'
      BY <1>1, <3>2, <3>3
    <3>5. \A g \in Handlers : pc'[g] = "commit" => claim'[g] = 0
      BY <1>1, <3>2 DEF AtWork
    <3> QED
      BY <3>1, <3>4, <3>5 DEF Held
  <2>3. \A i \in DOMAIN effects : effects[i].hash # NoKey => effects[i].era # era'
    <3>1. \A i \in DOMAIN effects : effects[i].era \in Nat /\ effects[i].era <= era
      BY ErasTyped
    <3>2. era \in Nat /\ era' \in Nat /\ era <= era'
      BY DEF TakesRow, Shape, StoreTyped
    <3>3. CASE era' = era
      BY <2>1, <3>3 DEF Once
    <3>4. CASE era' # era
      BY <3>1, <3>2, <3>4
    <3> QED
      BY <3>3, <3>4
  <2> QED
    BY <1>1, <2>1, <2>2, <2>3 DEF Once
<1> QED
  BY <1>2, <1>3, <1>4, <1>5, <1>6 DEF Shape, Undisturbed

LEMMA FreshRow ==
  ASSUME Shape, NEW h \in Handlers, NEW id \in Nat
  PROVE  /\ Fresh(id, h) \in RowsOfKey /\ Fresh(id, h).id = id
         /\ Fresh(id, h).hash = asked[h] /\ ~Fresh(id, h).done /\ Fresh(id, h).response = 0
<1>1. asked[h] \in Hashes /\ now[h] + Lease \in Int /\ now[h] + Ttl \in Int
  BY LeaseBelowTtl DEF Shape, HandlersTyped
<1>2. NoRow \in RowsOfKey /\ ~NoRow.done /\ NoRow.response = 0
  BY DEF NoRow, RowsOfKey, Hashes
<1>3. Fresh(id, h) \in RowsOfKey
  BY <1>1, <1>2 DEF Fresh, RowsOfKey
<1> QED
  BY <1>2, <1>3 DEF Fresh, RowsOfKey

LEMMA InsertTakes ==
  ASSUME Shape, Undisturbed, NEW h \in Handlers, Insert(h), row = NoRow
  PROVE  TakesRow(h)
<1>1. /\ row' = Fresh(ids + 1, h) /\ ids' = ids + 1 /\ Holds(h, era)
      /\ UNCHANGED <<rowLock, effects, asked, now, clock, workload, era, overtaken>>
  BY DEF Insert, env
<1>2. row.id = 0 /\ ~row.done
  BY DEF NoRow
<1>3. rowLock = Nobody
  BY <1>2 DEF Shape, Locked
<1>4. ids \in Nat /\ era \in Nat /\ overtaken \in {"no", "lease", "ttl"}
  BY DEF Shape, StoreTyped
<1>5. row' \in RowsOfKey /\ row'.id = ids + 1 /\ row'.hash = asked[h] /\ ~row'.done /\ row'.response = 0
  BY <1>1, <1>4, FreshRow
<1>6. \A g \in Handlers : claim[g] # ids + 1
  BY <1>4 DEF Shape, Claims, HandlersTyped
<1>7. Held => \A g \in Handlers : pc[g] \in AtWork => claim[g] = 0
  BY <1>2 DEF Held
<1> QED
  BY <1>1, <1>2, <1>3, <1>4, <1>5, <1>6, <1>7 DEF TakesRow, Insert, Holds, Goto

(* Without a living holder there is no claim on the row, nor any at work.  *)
LEMMA NotAlive ==
  ASSUME Shape, ~Alive(row.id), row # NoRow
  PROVE  /\ \A g \in Handlers : claim[g] # row.id
         /\ Held => \A g \in Handlers : pc[g] \in AtWork => claim[g] = 0
<1>1. row.id # 0
  BY DEF Shape, StoreTyped
<1>2. \A g \in Handlers : claim[g] # row.id
  BY <1>1 DEF Alive, Shape, Claims
<1> QED
  BY <1>2 DEF Held

LEMMA SelectTakes ==
  ASSUME Shape, Undisturbed, NEW h \in Handlers, Select(h), Reuse(h) \/ TakeOver(h)
  PROVE  TakesRow(h)
<1>1. /\ pc[h] = "select" /\ rowLock = Nobody
      /\ UNCHANGED <<rowLock, effects, clock, workload, asked, now, ids>> /\ row # NoRow
  BY DEF Select, Reuse, TakeOver, env
<1>2. /\ row \in RowsOfKey /\ row.id \in Nat /\ row.id # 0 /\ row.id <= ids /\ ids \in Nat /\ era \in Nat
      /\ overtaken \in {"no", "lease", "ttl"}
  BY <1>1 DEF Shape, StoreTyped, RowsOfKey
<1>3. CASE Reuse(h)
  <2>1. row' = Fresh(row.id, h) /\ era' = era + 1 /\ Holds(h, era')
        /\ overtaken' = IF Alive(row.id) THEN "ttl" ELSE overtaken
    BY <1>3 DEF Reuse
  <2>2. row' \in RowsOfKey /\ row'.id = row.id /\ row'.hash = asked[h] /\ ~row'.done /\ row'.response = 0
    BY <1>2, <2>1, FreshRow
  <2>3. overtaken' # "ttl" => overtaken' = overtaken /\ ~Alive(row.id)
    BY <2>1
  <2> QED
    BY <1>1, <1>2, <2>1, <2>2, <2>3, NotAlive DEF TakesRow, Holds, Goto
<1>4. CASE TakeOver(h)
  <2>1. row' = [row EXCEPT !.lockedUntil = now[h] + Lease] /\ era' = era /\ Holds(h, era)
        /\ row.hash = asked[h] /\ ~row.done
        /\ overtaken' = IF Alive(row.id) /\ overtaken = "no" THEN "lease" ELSE overtaken
    BY <1>4 DEF TakeOver
  <2>2. now[h] + Lease \in Int
    BY LeaseBelowTtl DEF Shape, HandlersTyped
  <2>3. row' \in RowsOfKey /\ row'.id = row.id /\ row'.hash = asked[h] /\ ~row'.done
        /\ row'.response = row.response
    BY <1>2, <2>1, <2>2 DEF RowsOfKey
  <2>4. overtaken' = "no" => overtaken = "no" /\ ~Alive(row.id)
    BY <2>1
  <2>5. overtaken' \in {"no", "lease", "ttl"} /\ (overtaken' # "ttl" => overtaken # "ttl")
    BY <1>2, <2>1
  <2> QED
    BY <1>1, <1>2, <2>1, <2>3, <2>4, <2>5, NotAlive DEF TakesRow, Holds, Goto
<1> QED
  BY <1>3, <1>4
-----------------------------------------------------------------------------
(* The commit of the work, which writes the response if record found the   *)
(* row.                                                                    *)
Commits(h) ==
  /\ Committed(h)
  /\ HandlersTyped' /\ pc'[h] \in {"idle", "failed"}
  /\ claim'[h] \in {claim[h], 0} /\ (pc'[h] = "idle" => claim'[h] = 0)
  /\ eraOf'[h] \in {eraOf[h], 0}
  /\ \A g \in Handlers \ {h} : /\ pc'[g] = pc[g] /\ claim'[g] = claim[g]
                               /\ eraOf'[g] = eraOf[g] /\ asked'[g] = asked[g]

LEMMA CommitCommits ==
  ASSUME Shape, NEW h \in Handlers, Commit(h) \/ CommitUnheard(h)
  PROVE  Commits(h)
<1>1. Committed(h) /\ clock' = clock /\ workload' = workload
  BY DEF Commit, CommitUnheard, Committed, env
<1>2. CASE Commit(h)
  <2>1. /\ pc' = [pc EXCEPT ![h] = "idle"] /\ asked' = [asked EXCEPT ![h] = NoKey]
        /\ claim' = [claim EXCEPT ![h] = 0] /\ eraOf' = [eraOf EXCEPT ![h] = 0]
        /\ now' = [now EXCEPT ![h] = 0]
    BY <1>2 DEF Commit, Done, Goto
  <2>2. HandlersTyped'
    BY <1>1, <2>1 DEF Shape, HandlersTyped, Phases, Hashes
  <2> QED
    BY <1>1, <2>1, <2>2 DEF Commits, Shape, HandlersTyped
<1>3. CASE CommitUnheard(h)
  <2>1. pc' = [pc EXCEPT ![h] = "failed"] /\ UNCHANGED <<asked, now, claim, eraOf>>
    BY <1>3 DEF CommitUnheard, Goto
  <2>2. HandlersTyped'
    BY <1>1, <2>1 DEF Shape, HandlersTyped, Phases
  <2> QED
    BY <1>1, <2>1, <2>2 DEF Commits, Shape, HandlersTyped
<1> QED
  BY <1>2, <1>3

LEMMA RowTyped ==
  ASSUME NEW r \in RowsOfKey, NEW i \in Nat, NEW b \in BOOLEAN, NEW z \in Int
  PROVE  [r EXCEPT !.done = b, !.response = i, !.lockedUntil = z] \in RowsOfKey
  BY Zenon DEF RowsOfKey

LEMMA CompletedRow ==
  ASSUME NEW r \in RowsOfKey, NEW i \in Nat
  PROVE  LET c == [r EXCEPT !.done = TRUE, !.response = i, !.lockedUntil = 0]
         IN  c \in RowsOfKey /\ c.id = r.id /\ c.hash = r.hash /\ c.done /\ c.response = i
             /\ c.lockedUntil = 0
<1> DEFINE c == [r EXCEPT !.done = TRUE, !.response = i, !.lockedUntil = 0]
<1>1. c \in RowsOfKey
  <2>1. 0 \in Int /\ TRUE \in BOOLEAN
    OBVIOUS
  <2> QED
    BY <2>1, RowTyped, Zenon
<1>2. c.done
  BY Zenon DEF RowsOfKey
<1>3. c.id = r.id /\ c.hash = r.hash /\ c.response = i /\ c.lockedUntil = 0
  BY DEF RowsOfKey
<1> QED
  BY <1>1, <1>2, <1>3

(* What a commit does to the work and to the row.                          *)
LEMMA CommitWrites ==
  ASSUME Shape, NEW h \in Handlers, Committed(h)
  PROVE  /\ effects' \in Seq(Effects) /\ Len(effects) \in Nat /\ Len(effects') = Len(effects) + 1
         /\ DOMAIN effects = 1..Len(effects) /\ DOMAIN effects' = 1..Len(effects) + 1
         /\ \A i \in 1..Len(effects) : effects'[i] = effects[i]
         /\ effects'[Len(effects) + 1] = [hash |-> asked[h], era |-> eraOf[h]]
         /\ row' \in RowsOfKey /\ row'.id = row.id /\ row'.hash = row.hash
         /\ rowLock # h => row' = row
         /\ rowLock = h => row'.done /\ row'.response = Len(effects) + 1 /\ row'.lockedUntil = 0
<1>1. effects \in Seq(Effects) /\ [hash |-> asked[h], era |-> eraOf[h]] \in Effects
  BY DEF Shape, StoreTyped, HandlersTyped, Effects
<1>2. effects' = Append(effects, [hash |-> asked[h], era |-> eraOf[h]])
  BY DEF Committed
<1>3. /\ effects' \in Seq(Effects) /\ Len(effects) \in Nat /\ Len(effects') = Len(effects) + 1
      /\ DOMAIN effects = 1..Len(effects) /\ DOMAIN effects' = 1..Len(effects) + 1
      /\ \A i \in 1..Len(effects) : effects'[i] = effects[i]
      /\ effects'[Len(effects) + 1] = [hash |-> asked[h], era |-> eraOf[h]]
  BY <1>1, <1>2
<1>4. row \in RowsOfKey
  BY DEF Shape, StoreTyped
<1>5. row' = IF rowLock # h THEN row
             ELSE [row EXCEPT !.done = TRUE, !.response = Len(effects'), !.lockedUntil = 0]
  BY DEF Committed
<1>6. Len(effects') \in Nat
  BY <1>3
<1>7. CASE rowLock = h
  <2>1. row' = [row EXCEPT !.done = TRUE, !.response = Len(effects'), !.lockedUntil = 0]
    BY <1>5, <1>7
  <2>2. row' \in RowsOfKey /\ row'.id = row.id /\ row'.hash = row.hash /\ row'.done
        /\ row'.response = Len(effects') /\ row'.lockedUntil = 0
    BY <1>4, <1>6, <2>1, CompletedRow, Zenon
  <2> QED
    BY <1>3, <1>7, <2>2
<1>8. CASE rowLock # h
  BY <1>3, <1>4, <1>5, <1>8
<1> QED
  BY <1>7, <1>8

LEMMA CommitKeeps ==
  ASSUME Shape, Undisturbed, NEW h \in Handlers, Commits(h)
  PROVE  Shape' /\ Undisturbed'
<1> DEFINE n == Len(effects)
<1>1. /\ pc[h] = "commit" /\ ids' = ids /\ era' = era /\ overtaken' = overtaken
      /\ rowLock' = IF rowLock = h THEN Nobody ELSE rowLock
  BY DEF Commits, Committed, LetGo
<1>2. /\ effects' \in Seq(Effects) /\ n \in Nat
      /\ DOMAIN effects = 1..n /\ DOMAIN effects' = 1..n + 1
      /\ \A i \in 1..n : effects'[i] = effects[i]
      /\ effects'[n + 1].hash = asked[h] /\ effects'[n + 1].era = eraOf[h]
      /\ row' \in RowsOfKey /\ row'.id = row.id /\ row'.hash = row.hash
      /\ rowLock # h => row' = row
      /\ rowLock = h => row'.done /\ row'.response = n + 1
  <2>1. Committed(h)
    BY DEF Commits
  <2>2. effects'[n + 1] = [hash |-> asked[h], era |-> eraOf[h]]
    BY <2>1, CommitWrites
  <2>3. effects'[n + 1].hash = asked[h] /\ effects'[n + 1].era = eraOf[h]
    BY <2>2
  <2> QED
    BY <2>1, <2>3, CommitWrites
<1> HIDE DEF n
<1>3. StoreTyped'
  <2>1. row.id = 0 => rowLock # h
    BY DEF Shape, Locked
  <2> QED
    BY <1>1, <1>2, <2>1 DEF Shape, StoreTyped
<1>4. Claims'
  <2>1. \A g \in Handlers : claim[g] \in 0..ids /\ eraOf[g] \in 0..era
    BY DEF Shape, Claims, HandlersTyped, StoreTyped
  <2>2. \A g \in Handlers : claim'[g] <= ids /\ eraOf'[g] <= era
    BY <2>1 DEF Commits, Shape, StoreTyped
  <2>3. \A i \in 1..n : effects[i].era <= era
    BY <1>2 DEF Shape, Claims
  <2>4. \A i \in 1..n + 1 : effects'[i].era <= era
    <3>1. \A i \in 1..n + 1 : i \in 1..n \/ i = n + 1
      BY <1>2
    <3> QED
      BY <1>2, <2>1, <2>3, <3>1
  <2> QED
    BY <1>1, <1>2, <2>2, <2>4 DEF Commits, Shape, Claims, AtWork
<1>5. Locked'
  BY <1>1, <1>2, NoneOfThem DEF Commits, Shape, Locked
<1>6. ASSUME overtaken = "no" PROVE Held' /\ Once'
  <2>1. Held /\ Once
    BY <1>6 DEF Undisturbed
  <2>2. CASE claim[h] = 0
    <3>1. rowLock # h /\ row' = row /\ rowLock' = rowLock /\ asked[h] = NoKey
      BY <1>1, <1>2, <2>2 DEF Shape, Locked, Claims, AtWork
    <3>2. Held'
      BY <1>1, <2>1, <2>2, <3>1 DEF Held, Commits, AtWork
    <3>3. \A i \in 1..n + 1 : effects'[i].hash # NoKey => i \in 1..n /\ effects'[i] = effects[i]
      <4>1. \A i \in 1..n + 1 : i \in 1..n \/ i = n + 1
        BY <1>2
      <4> QED
        BY <1>2, <3>1, <4>1
    <3>4. Once'
      BY <1>1, <1>2, <2>1, <3>1, <3>3 DEF Once
    <3> QED
      BY <3>2, <3>4
  <2>3. CASE claim[h] # 0
    <3>1. rowLock = h /\ claim[h] = row.id /\ ~row.done /\ eraOf[h] = era /\ asked[h] # NoKey
      BY <1>1, <2>1, <2>3 DEF Held, Shape, Claims, AtWork
    <3>2. \A g \in Handlers \ {h} : pc[g] \in AtWork => claim[g] = 0
      BY <2>1, <2>3, <3>1 DEF Held
    <3>3. \A g \in Handlers : pc'[g] \in AtWork => claim'[g] = 0
      BY <3>2 DEF Commits, AtWork
    <3>4. \A g, k \in Handlers : claim'[g] = claim'[k] /\ claim'[g] # 0 => g = k
      <4>1. \A g \in Handlers : claim'[g] # 0 => claim'[g] = claim[g]
        BY DEF Commits
      <4> QED
        BY <2>1, <4>1 DEF Held
    <3>5. Held'
      BY <3>3, <3>4 DEF Held, AtWork
    <3>6. \A i \in 1..n : effects[i].hash # NoKey => effects[i].era # era
      BY <1>2, <2>1, <3>1 DEF Once
    <3>7. \A i \in 1..n + 1 : i \in 1..n \/ i = n + 1
      BY <1>2
    <3>8. row'.done /\ row'.response = n + 1
      BY <1>2, <3>1
    <3>9. Once'
      BY <1>1, <1>2, <2>1, <3>1, <3>6, <3>7, <3>8 DEF Once
    <3> QED
      BY <3>5, <3>9
  <2> QED
    BY <2>2, <2>3
<1> QED
  BY <1>1, <1>3, <1>4, <1>5, <1>6 DEF Shape, Undisturbed, Commits
-----------------------------------------------------------------------------
(* release drops an open claim, whose only holder is the one that failed.  *)
LEMMA DropKeeps ==
  ASSUME Shape, Undisturbed, NEW h \in Handlers, Release(h),
         claim[h] # 0, row.id = claim[h], ~row.done
  PROVE  Shape' /\ Undisturbed'
<1>1. /\ pc[h] = "failed" /\ rowLock = Nobody /\ row' = NoRow
      /\ UNCHANGED <<ids, era, overtaken, rowLock, effects, clock, workload>>
      /\ pc' = [pc EXCEPT ![h] = "idle"] /\ asked' = [asked EXCEPT ![h] = NoKey]
      /\ claim' = [claim EXCEPT ![h] = 0] /\ eraOf' = [eraOf EXCEPT ![h] = 0]
      /\ now' = [now EXCEPT ![h] = 0]
  BY DEF Release, Done, Goto, env
<1>2. /\ pc'[h] = "idle" /\ claim'[h] = 0 /\ eraOf'[h] = 0
      /\ \A g \in Handlers \ {h} : /\ pc'[g] = pc[g] /\ asked'[g] = asked[g]
                                   /\ claim'[g] = claim[g] /\ eraOf'[g] = eraOf[g]
  BY <1>1 DEF Shape, HandlersTyped
<1>3. HandlersTyped'
  BY <1>1 DEF Shape, HandlersTyped, Phases, Hashes
<1>4. StoreTyped'
  BY <1>1 DEF Shape, StoreTyped, NoRow, RowsOfKey, Hashes
<1>5. Claims'
  BY <1>1, <1>2 DEF Shape, Claims, AtWork, StoreTyped
<1>6. Locked'
  BY <1>1, NoneOfThem DEF Locked
<1>7. ASSUME overtaken = "no" PROVE Held' /\ Once'
  <2>1. Held /\ Once
    BY <1>7 DEF Undisturbed
  <2>2. \A g \in Handlers : pc'[g] \in AtWork => claim'[g] = 0
    <3>1. \A g \in Handlers : pc[g] \in AtWork /\ claim[g] # 0 => g = h
      BY <2>1 DEF Held
    <3> QED
      BY <1>1, <1>2, <3>1 DEF AtWork
  <2>3. \A g, k \in Handlers : claim'[g] = claim'[k] /\ claim'[g] # 0 => g = k
    BY <1>2, <2>1 DEF Held
  <2>4. Once'
    BY <1>1, <2>1 DEF Once
  <2> QED
    BY <2>2, <2>3, <2>4 DEF Held, AtWork
<1> QED
  BY <1>1, <1>3, <1>4, <1>5, <1>6, <1>7 DEF Shape, Undisturbed
-----------------------------------------------------------------------------
(* A step is one of five kinds, as far as the key is concerned.            *)
Drops(h) == Release(h) /\ claim[h] # 0 /\ row.id = claim[h] /\ ~row.done

Answers(h) ==
  answers' = answers \cup {[hash |-> asked[h], effect |-> Len(effects'), era |-> eraOf[h]]}

LEMMA Kinds ==
  ASSUME Shape, Undisturbed, [Next]_vars
  PROVE  \/ Quiet /\ answers' = answers
         \/ \E h \in Handlers : Replay(h) /\ pc[h] = "select" /\ Quiet
         \/ \E h \in Handlers : TakesRow(h) /\ answers' = answers
         \/ \E h \in Handlers : Commits(h) /\ (answers' = answers \/ (asked[h] # NoKey /\ Answers(h)))
         \/ \E h \in Handlers : Drops(h)
<1> DEFINE Conclusion ==
           \/ Quiet /\ answers' = answers
           \/ \E h \in Handlers : Replay(h) /\ pc[h] = "select" /\ Quiet
           \/ \E h \in Handlers : TakesRow(h) /\ answers' = answers
           \/ \E h \in Handlers : Commits(h) /\ (answers' = answers \/ (asked[h] # NoKey /\ Answers(h)))
           \/ \E h \in Handlers : Drops(h)
<1>1. CASE UNCHANGED vars \/ Tick \/ \E p \in Pods : HalfOpens(p)
  <2>1. clock' \in Nat /\ UNCHANGED <<store, rowLock, effects, handler, workload, answers>>
    BY <1>1 DEF vars, env, Tick, HalfOpens, Shape, HandlersTyped
  <2> QED
    BY <2>1, RestIsQuiet
<1>2. ASSUME NEW p \in Pods, Crash(p) PROVE Conclusion
  BY <1>2, CrashIsQuiet DEF Crash
<1>3. ASSUME NEW h \in Handlers,
             Arrive(h) \/ Call(h) \/ Answered(h) \/ NoAnswer(h) \/ Again(h) \/ Fails(h) \/ Record(h)
      PROVE  Conclusion
  <2>1. answers' = answers
    BY <1>3 DEF Arrive, Call, Answered, NoAnswer, Again, Fails, Record
  <2> QED
    BY <1>3, <2>1, ArriveIsQuiet, WorkIsQuiet
<1>4. ASSUME NEW h \in Handlers, Insert(h) PROVE Conclusion
  <2>1. answers' = answers
    BY <1>4 DEF Insert
  <2> QED
    BY <1>4, <2>1, LookIsQuiet, InsertTakes
<1>5. ASSUME NEW h \in Handlers, Select(h) PROVE Conclusion
  <2>1. CASE Reuse(h) \/ TakeOver(h)
    <3>1. answers' = answers
      BY <2>1 DEF Reuse, TakeOver
    <3> QED
      BY <1>5, <2>1, <3>1, SelectTakes
  <2>2. CASE Refused(h) \/ Replay(h)
    <3>1. pc[h] = "select" /\ Done(h) /\ UNCHANGED <<store, rowLock, effects, clock, workload>>
      BY <1>5, <2>2 DEF Select, Refused, Replay, env
    <3>2. Quiet
      BY <3>1, EndIsQuiet
    <3> QED
      BY <2>2, <3>1, <3>2 DEF Refused
  <2> QED
    BY <1>5, <2>1, <2>2 DEF Select
<1>6. ASSUME NEW h \in Handlers, GivesUp(h) PROVE Conclusion
  <2>1. pc[h] # "commit" /\ Done(h) /\ UNCHANGED <<store, rowLock, effects, clock, workload, answers>>
    BY <1>6 DEF GivesUp, env
  <2> QED
    BY <2>1, EndIsQuiet
<1>7. ASSUME NEW h \in Handlers, Commit(h) \/ CommitUnheard(h) PROVE Conclusion
  <2>1. answers' = answers \/ (asked[h] # NoKey /\ Answers(h))
    <3>1. CASE Commit(h) /\ asked[h] = NoKey
      BY <3>1 DEF Commit, Answers
    <3>2. CASE Commit(h) /\ asked[h] # NoKey
      BY <3>2 DEF Commit, Answers
    <3>3. CASE CommitUnheard(h)
      BY <3>3 DEF CommitUnheard, Answers
    <3> QED
      BY <1>7, <3>1, <3>2, <3>3
  <2> QED
    BY <1>7, <2>1, CommitCommits
<1>8. ASSUME NEW h \in Handlers, Release(h) PROVE Conclusion
  <2>1. CASE ~Drops(h)
    <3>1. pc[h] # "commit" /\ Done(h) /\ UNCHANGED <<store, rowLock, effects, clock, workload, answers>>
      BY <1>8, <2>1 DEF Release, Drops, store, env
    <3> QED
      BY <3>1, EndIsQuiet
  <2> QED
    BY <2>1
<1> QED
  BY <1>1, <1>2, <1>3, <1>4, <1>5, <1>6, <1>7, <1>8 DEF Next

LEMMA StepKeeps == Shape /\ Undisturbed /\ [Next]_vars => Shape' /\ Undisturbed'
  BY Kinds, QuietKeeps, TakingKeeps, CommitKeeps, DropKeeps DEF Drops

(* The inductive invariant.                                                *)
THEOREM AlwaysInShape == Spec => [](Shape /\ Undisturbed)
  BY InitShape, StepKeeps, PTL DEF Spec

(* idempotency.py: "Work and stored response are atomic".  However many    *)
(* requests carry the key and wherever they or their pods fail, the work   *)
(* done for it since it last expired is done once and its response stored, *)
(* until a claim is taken from a holder that still lives.                  *)
THEOREM WorkIsAlwaysRecorded == Spec => []WorkIsRecorded
<1>1. Shape /\ Undisturbed => WorkIsRecorded
  BY DEF Undisturbed, Once, WorkIsRecorded
<1> QED
  BY <1>1, AlwaysInShape, PTL
-----------------------------------------------------------------------------
(* Every answer, and the response in the row, is of work that was done ... *)
Backed ==
  /\ answers \in SUBSET [hash : Hashes, effect : Nat, era : Nat]
  /\ \A a \in answers : a.effect \in DOMAIN effects
  /\ row.response \in 0..Len(effects) /\ (row.done => row.response # 0)

(* ... for the body of the request, as long as no key expired under its    *)
(* holder ...                                                              *)
Honest ==
  /\ \A a \in answers : effects[a.effect].hash = a.hash
  /\ row.done => effects[row.response].hash = row.hash
  /\ \A h \in Handlers : pc[h] \in AtWork /\ claim[h] # 0 /\ claim[h] = row.id =>
       asked[h] = row.hash

(* ... and in the era it is remembered for, as long as no claim was taken. *)
Dated ==
  /\ \A a \in answers : a.hash # NoKey /\ effects[a.effect].era = a.era
  /\ row.done => effects[row.response].era = era

Truthful == Backed /\ (overtaken # "ttl" => Honest) /\ (overtaken = "no" => Dated)

LEMMA InitTrue == Init => Truthful
  BY DEF Init, Truthful, Backed, Honest, Dated, NoRow, AtWork

LEMMA QuietTrue ==
  ASSUME Shape, Truthful, Quiet, answers' = answers
  PROVE  Truthful'
<1>1. row' = row /\ era' = era /\ overtaken' = overtaken /\ effects' = effects
  BY DEF Quiet, store
<1>2. \A g \in Handlers : pc'[g] \in AtWork /\ claim'[g] # 0 =>
        pc[g] \in AtWork /\ claim'[g] = claim[g] /\ asked'[g] = asked[g]
  BY DEF Quiet
<1>3. Backed'
  BY <1>1 DEF Truthful, Backed
<1>4. Honest => Honest'
  BY <1>1, <1>2 DEF Honest
<1>5. Dated => Dated'
  BY <1>1 DEF Dated
<1> QED
  BY <1>1, <1>3, <1>4, <1>5 DEF Truthful

LEMMA ReplayTrue ==
  ASSUME Shape, Truthful, NEW h \in Handlers, Replay(h), pc[h] = "select", Quiet
  PROVE  Truthful'
<1> DEFINE new == [hash |-> asked[h], effect |-> row.response, era |-> era]
<1>1. row' = row /\ era' = era /\ overtaken' = overtaken /\ effects' = effects
  BY DEF Quiet, store
<1>2. \A g \in Handlers : pc'[g] \in AtWork /\ claim'[g] # 0 =>
        pc[g] \in AtWork /\ claim'[g] = claim[g] /\ asked'[g] = asked[g]
  BY DEF Quiet
<1>3. answers' = answers \cup {new} /\ row.done /\ row.hash = asked[h] /\ asked[h] # NoKey
  BY DEF Replay, Shape, Claims
<1>4. new \in [hash : Hashes, effect : Nat, era : Nat]
      /\ new.hash = asked[h] /\ new.effect = row.response /\ new.era = era
  BY DEF Shape, HandlersTyped, StoreTyped, RowsOfKey
<1>5. row.response \in DOMAIN effects
  BY <1>3 DEF Truthful, Backed, Shape, StoreTyped
<1> HIDE DEF new
<1>6. Backed'
  BY <1>1, <1>3, <1>4, <1>5 DEF Truthful, Backed
<1>7. Honest => Honest'
  BY <1>1, <1>2, <1>3, <1>4 DEF Honest
<1>8. Dated => Dated'
  BY <1>1, <1>3, <1>4 DEF Dated
<1> QED
  BY <1>1, <1>6, <1>7, <1>8 DEF Truthful

LEMMA TakingTrue ==
  ASSUME Shape, Truthful, NEW h \in Handlers, TakesRow(h), answers' = answers
  PROVE  Truthful'
<1>1. /\ effects' = effects /\ asked' = asked /\ ~row'.done /\ row'.hash = asked[h]
      /\ row'.response = 0 \/ row'.response = row.response
      /\ overtaken' # "ttl" => /\ overtaken # "ttl"
                               /\ \/ \A g \in Handlers : claim[g] # row'.id
                                  \/ row'.id = row.id /\ row'.hash = row.hash
      /\ overtaken' = "no" => overtaken = "no"
      /\ pc'[h] = "work" /\ \A g \in Handlers \ {h} : pc'[g] = pc[g] /\ claim'[g] = claim[g]
  BY DEF TakesRow, Shape, HandlersTyped
<1>2. Backed'
  <2>1. Len(effects) \in Nat
    BY DEF Shape, StoreTyped
  <2> QED
    BY <1>1, <2>1 DEF Truthful, Backed
<1>3. ASSUME overtaken' # "ttl" PROVE Honest'
  <2>1. Honest
    BY <1>1, <1>3 DEF Truthful
  <2>2. \A g \in Handlers : pc'[g] \in AtWork /\ claim'[g] # 0 /\ claim'[g] = row'.id =>
          asked'[g] = row'.hash
    BY <1>1, <1>3, <2>1 DEF Honest
  <2> QED
    BY <1>1, <2>1, <2>2 DEF Honest
<1>4. ASSUME overtaken' = "no" PROVE Dated'
  BY <1>1, <1>4 DEF Truthful, Dated
<1> QED
  BY <1>2, <1>3, <1>4 DEF Truthful

LEMMA CommitTrue ==
  ASSUME Shape, Undisturbed, Truthful, NEW h \in Handlers, Commits(h),
         answers' = answers \/ (asked[h] # NoKey /\ Answers(h))
  PROVE  Truthful'
<1> DEFINE n == Len(effects)
           new == [hash |-> asked[h], effect |-> n + 1, era |-> eraOf[h]]
<1>1. /\ pc[h] = "commit" /\ era' = era /\ overtaken' = overtaken /\ Committed(h)
      /\ \A g \in Handlers \ {h} : pc'[g] = pc[g] /\ claim'[g] = claim[g] /\ asked'[g] = asked[g]
      /\ pc'[h] \notin AtWork
  BY DEF Commits, Committed, AtWork
<1>2. effects'[n + 1] = [hash |-> asked[h], era |-> eraOf[h]]
  BY <1>1, CommitWrites
<1>3. /\ n \in Nat /\ Len(effects') = n + 1 /\ DOMAIN effects = 1..n /\ DOMAIN effects' = 1..n + 1
      /\ \A i \in 1..n : effects'[i] = effects[i]
      /\ row'.id = row.id /\ row'.hash = row.hash
      /\ rowLock # h => row' = row
      /\ rowLock = h => row'.done /\ row'.response = n + 1
  BY <1>1, CommitWrites
<1>4. effects'[n + 1].hash = asked[h] /\ effects'[n + 1].era = eraOf[h]
  BY <1>2
<1>5. answers' \in SUBSET (answers \cup {new}) /\ (new \in answers' \ answers => asked[h] # NoKey)
  BY <1>3 DEF Answers
<1>6. new \in [hash : Hashes, effect : Nat, era : Nat]
      /\ new.hash = asked[h] /\ new.effect = n + 1 /\ new.era = eraOf[h]
  BY <1>3 DEF Shape, HandlersTyped
<1> HIDE DEF n, new
<1>7. Backed'
  <2>1. \A a \in answers' : a.effect \in 1..n + 1
    BY <1>3, <1>5, <1>6 DEF Truthful, Backed
  <2>2. row'.response \in 0..n + 1 /\ (row'.done => row'.response # 0)
    BY <1>3 DEF Truthful, Backed, n
  <2> QED
    BY <1>3, <1>5, <1>6, <2>1, <2>2 DEF Truthful, Backed
<1>8. \A a \in answers : effects'[a.effect] = effects[a.effect]
  BY <1>3 DEF Truthful, Backed
<1>9. row.done => effects'[row.response] = effects[row.response]
  BY <1>3 DEF Truthful, Backed, n
<1>10. ASSUME overtaken # "ttl" PROVE Honest'
  <2>1. Honest
    BY <1>10 DEF Truthful
  <2>2. \A a \in answers' : effects'[a.effect].hash = a.hash
    BY <1>4, <1>5, <1>6, <1>8, <2>1 DEF Honest
  <2>3. row'.done => effects'[row'.response].hash = row'.hash
    <3>1. CASE rowLock = h
      <4>1. claim[h] = row.id /\ claim[h] # 0
        BY <3>1 DEF Shape, Locked
      <4> QED
        BY <1>1, <1>3, <1>4, <2>1, <3>1, <4>1 DEF Honest, AtWork
    <3>2. CASE rowLock # h
      BY <1>3, <1>9, <2>1, <3>2 DEF Honest
    <3> QED
      BY <3>1, <3>2
  <2>4. \A g \in Handlers : pc'[g] \in AtWork /\ claim'[g] # 0 /\ claim'[g] = row'.id =>
          asked'[g] = row'.hash
    BY <1>1, <1>3, <2>1 DEF Honest
  <2> QED
    BY <2>2, <2>3, <2>4 DEF Honest
<1>11. ASSUME overtaken = "no" PROVE Dated'
  <2>1. Dated /\ Held
    BY <1>11 DEF Truthful, Undisturbed
  <2>2. \A a \in answers' : a.hash # NoKey /\ effects'[a.effect].era = a.era
    BY <1>4, <1>5, <1>6, <1>8, <2>1 DEF Dated
  <2>3. row'.done => effects'[row'.response].era = era
    <3>1. CASE rowLock = h
      <4>1. eraOf[h] = era
        BY <1>1, <2>1, <3>1 DEF Held, AtWork, Shape, Locked
      <4> QED
        BY <1>3, <1>4, <3>1, <4>1
    <3>2. CASE rowLock # h
      BY <1>3, <1>9, <2>1, <3>2 DEF Dated
    <3> QED
      BY <3>1, <3>2
  <2> QED
    BY <1>1, <2>2, <2>3 DEF Dated
<1> QED
  BY <1>1, <1>7, <1>10, <1>11 DEF Truthful

LEMMA DropTrue ==
  ASSUME Shape, Truthful, NEW h \in Handlers, Drops(h)
  PROVE  Truthful'
<1>1. row' = NoRow /\ UNCHANGED <<era, overtaken, effects, answers>>
  BY DEF Drops, Release
<1>2. row'.id = 0 /\ ~row'.done /\ row'.response = 0
  BY <1>1 DEF NoRow
<1>3. Backed'
  <2>1. Len(effects) \in Nat
    BY DEF Shape, StoreTyped
  <2> QED
    BY <1>1, <1>2, <2>1 DEF Truthful, Backed
<1> QED
  BY <1>1, <1>2, <1>3 DEF Truthful, Honest, Dated

LEMMA StepTrue == Shape /\ Undisturbed /\ Truthful /\ [Next]_vars => Truthful'
  BY Kinds, QuietTrue, ReplayTrue, TakingTrue, CommitTrue, DropTrue

(* "A repeat with the same key and body returns the original response": an *)
(* answer is of work done for the body asked for, and an era of the key    *)
(* has one answer, with the exceptions `overtaken' records.                *)
THEOREM AnswersAlwaysAgree == Spec => []AnswersAgree
<1>1. Spec => []Truthful
  BY InitTrue, StepTrue, AlwaysInShape, PTL DEF Spec
<1>2. Undisturbed /\ Truthful => AnswersAgree
  <2> SUFFICES ASSUME Undisturbed, Truthful PROVE AnswersAgree
    OBVIOUS
  <2>1. \A a \in answers : overtaken # "ttl" => effects[a.effect].hash = a.hash
    BY DEF Truthful, Honest
  <2>2. ASSUME NEW a \in answers, NEW b \in answers, overtaken = "no", a.era = b.era
        PROVE  a = b
    <3>1. Once /\ Dated /\ Honest
      BY <2>2 DEF Undisturbed, Truthful
    <3>2. a.effect = b.effect
      BY <2>2, <3>1 DEF Once, Dated, Honest, Truthful, Backed
    <3>3. a.hash = b.hash
      BY <3>1, <3>2 DEF Honest
    <3> QED
      BY <2>2, <3>2, <3>3 DEF Truthful, Backed
  <2> QED
    BY <2>1, <2>2 DEF AnswersAgree
<1> QED
  BY <1>1, <1>2, AlwaysInShape, PTL
-----------------------------------------------------------------------------
(* The calls to Inventory, and the lease of a completed row.               *)
Breakers == [failures : 0..Threshold, state : {"closed", "open", "half"}]

(* Where a handler has no call under way that counts.                      *)
Uncounted == {"idle", "insert", "select", "work", "record", "commit"}
UnderWay == {"call", "sleep"}

Calling ==
  /\ attempt \in [Handlers -> 0..Retries + 1]
  /\ \A h \in Handlers : pc[h] = "sleep" => attempt[h] <= Retries
  /\ \A h \in Handlers : pc[h] \in Uncounted => attempt[h] = 0
  /\ \A h \in Handlers : pc[h] \in UnderWay => attempt[h] # 0
  /\ breaker \in [Pods -> Breakers]

Released == row.done => row.lockedUntil = 0

LEMMA ClosedTyped == Closed \in Breakers
  BY ThresholdPositive DEF Closed, Breakers

LEMMA InitCalling == Init => Calling /\ Released
  BY ClosedTyped, BoundsNatural DEF Init, Calling, Released, NoRow, UnderWay

LEMMA StepReleased == Shape /\ Undisturbed /\ Released /\ [Next]_vars => Released'
<1> SUFFICES ASSUME Shape, Undisturbed, Released, [Next]_vars PROVE Released'
  OBVIOUS
<1>1. CASE Quiet
  BY <1>1 DEF Quiet, store, Released
<1>2. ASSUME NEW h \in Handlers, TakesRow(h) PROVE Released'
  BY <1>2 DEF TakesRow, Released
<1>3. ASSUME NEW h \in Handlers, Commits(h) PROVE Released'
  BY <1>3, CommitWrites DEF Commits, Released
<1>4. ASSUME NEW h \in Handlers, Drops(h) PROVE Released'
  BY <1>4 DEF Drops, Release, NoRow, Released
<1> QED
  BY <1>1, <1>2, <1>3, <1>4, Kinds

(* One handler moves, and counts an attempt or forgets those it counted.   *)
Counts(h, at, k) ==
  /\ pc' = [pc EXCEPT ![h] = at] /\ attempt' = [attempt EXCEPT ![h] = k]

LEMMA CountingKeeps ==
  ASSUME Shape, Calling, NEW h \in Handlers, NEW at \in Phases, NEW k \in 0..Retries + 1,
         Counts(h, at, k), breaker' \in [Pods -> Breakers],
         at = "sleep" => k <= Retries,
         at \in Uncounted => k = 0,
         at \in UnderWay => k # 0
  PROVE  Calling'
<1>1. attempt' \in [Handlers -> 0..Retries + 1]
  BY DEF Calling, Counts
<1>2. /\ pc'[h] = at /\ attempt'[h] = k
      /\ \A g \in Handlers \ {h} : pc'[g] = pc[g] /\ attempt'[g] = attempt[g]
  BY DEF Counts, Calling, Shape, HandlersTyped
<1> QED
  BY <1>1, <1>2 DEF Calling, Shape, HandlersTyped

LEMMA FailureTyped == ASSUME NEW b \in Breakers PROVE Failure(b) \in Breakers
  BY ThresholdPositive DEF Failure, Breakers

LEMMA StepCalling == Shape /\ Calling /\ [Next]_vars => Calling'
<1> SUFFICES ASSUME Shape, Calling, [Next]_vars PROVE Calling'
  OBVIOUS
<1>1. CASE UNCHANGED vars \/ Tick
  BY <1>1 DEF vars, Tick, handler, upstream, Calling
<1>2. ASSUME NEW p \in Pods, HalfOpens(p) PROVE Calling'
  <2>1. [breaker[p] EXCEPT !.state = "half"] \in Breakers
    BY DEF Calling, Breakers
  <2>2. breaker' = [breaker EXCEPT ![p] = [breaker[p] EXCEPT !.state = "half"]]
    BY <1>2 DEF HalfOpens
  <2>3. breaker' \in [Pods -> Breakers]
    BY <2>1, <2>2 DEF Calling
  <2> QED
    BY <1>2, <2>3 DEF HalfOpens, handler, Calling
<1>3. ASSUME NEW p \in Pods, Crash(p) PROVE Calling'
  <2> DEFINE its == {h \in Handlers : PodOf[h] = p}
  <2>1. /\ pc' = [h \in Handlers |-> IF h \in its THEN "idle" ELSE pc[h]]
        /\ attempt' = [h \in Handlers |-> IF h \in its THEN 0 ELSE attempt[h]]
        /\ breaker' = [breaker EXCEPT ![p] = Closed]
    BY <1>3 DEF Crash
  <2> HIDE DEF its
  <2>2. breaker' \in [Pods -> Breakers]
    BY <2>1, ThresholdPositive DEF Calling, Closed, Breakers
  <2> QED
    BY <2>1, <2>2, BoundsNatural DEF Calling, UnderWay
<1>4. ASSUME NEW h \in Handlers, Done(h), breaker' = breaker PROVE Calling'
  <2>1. Counts(h, "idle", 0)
    BY <1>4 DEF Done, Goto, Counts
  <2>2. breaker' \in [Pods -> Breakers]
    BY <1>4 DEF Calling
  <2>3. "idle" \in Phases /\ "idle" \notin UnderWay /\ 0 \in 0..Retries + 1
    BY BoundsNatural DEF Phases, UnderWay
  <2> QED
    BY <2>1, <2>2, <2>3, CountingKeeps
<1>5. ASSUME NEW h \in Handlers, NEW at \in Phases, Goto(h, at), attempt' = attempt,
             attempt[h] = 0 \/ at = "failed", at \notin UnderWay, breaker' \in [Pods -> Breakers]
      PROVE  Calling'
  <2>1. Counts(h, at, attempt[h]) /\ attempt[h] \in 0..Retries + 1
    BY <1>5 DEF Goto, Counts, Calling
  <2> QED
    BY <1>5, <2>1, CountingKeeps, BoundsNatural DEF Uncounted
<1>6. ASSUME NEW h \in Handlers,
             Arrive(h) \/ Insert(h) \/ Select(h) \/ GivesUp(h) \/ Release(h) \/ Record(h)
               \/ Commit(h) \/ CommitUnheard(h)
      PROVE  Calling'
  <2>1. breaker' = breaker
    BY <1>6 DEF Arrive, Insert, Select, GivesUp, Release, Record, Commit, CommitUnheard, Committed, upstream
  <2>2. CASE Done(h)
    BY <1>4, <2>1, <2>2
  <2>3. CASE ~Done(h)
    <3>1. PICK at \in Phases \ UnderWay : Goto(h, at) /\ attempt' = attempt
      BY <1>6, <2>3 DEF Arrive, Insert, Select, GivesUp, Release, Record, Commit, CommitUnheard,
         Refused, Reuse, Replay, TakeOver, Holds, Phases, UnderWay
    <3>2. attempt[h] = 0 \/ at = "failed"
      <4>1. CASE pc[h] \in Uncounted
        BY <4>1 DEF Calling
      <4>2. CASE pc[h] \notin Uncounted
        BY <1>6, <2>3, <4>2 DEF Arrive, Insert, Select, GivesUp, Release, Record, Commit,
           CommitUnheard, Committed, Uncounted
      <4> QED
        BY <4>1, <4>2
    <3> QED
      BY <1>5, <2>1, <3>1, <3>2 DEF Calling
  <2> QED
    BY <2>2, <2>3
<1>7. ASSUME NEW h \in Handlers, Call(h) PROVE Calling'
  <2>1. Goto(h, "call") /\ attempt' = [attempt EXCEPT ![h] = 1] /\ breaker' = breaker
    BY <1>7 DEF Call, upstream
  <2>2. Counts(h, "call", 1) /\ breaker' \in [Pods -> Breakers]
    BY <2>1 DEF Goto, Counts, Calling
  <2>3. "call" \in Phases /\ "call" \notin Uncounted /\ 1 \in 0..Retries + 1
    BY BoundsNatural DEF Phases, Uncounted
  <2> QED
    BY <2>2, <2>3, CountingKeeps
<1>8. ASSUME NEW h \in Handlers, Answered(h) PROVE Calling'
  <2>1. PICK at \in {"record", "commit"} : Goto(h, at) /\ attempt' = [attempt EXCEPT ![h] = 0]
    BY <1>8 DEF Answered
  <2>2. breaker' \in [Pods -> Breakers]
    BY <1>8, ClosedTyped, PodsOfHandlers DEF Answered, Calling
  <2>3. Counts(h, at, 0)
    BY <2>1 DEF Goto, Counts
  <2>4. at \in Phases /\ at \notin UnderWay /\ at # "sleep" /\ 0 \in 0..Retries + 1
    BY BoundsNatural DEF Phases, UnderWay
  <2> QED
    BY <2>2, <2>3, <2>4, CountingKeeps
<1>9. ASSUME NEW h \in Handlers, NoAnswer(h) PROVE Calling'
  <2>1. breaker' \in [Pods -> Breakers]
    <3>1. PodOf[h] \in Pods
      BY PodsOfHandlers
    <3>2. Failure(breaker[PodOf[h]]) \in Breakers
      BY <3>1, FailureTyped DEF Calling
    <3> QED
      BY <1>9, <3>1, <3>2 DEF NoAnswer, Calling
  <2>2. CASE attempt[h] <= Retries
    <3>1. Counts(h, "sleep", attempt[h]) /\ attempt[h] \in 0..Retries + 1
      BY <1>9, <2>2 DEF NoAnswer, Goto, Counts, Calling
    <3> QED
      BY <1>9, <2>1, <2>2, <3>1, CountingKeeps DEF NoAnswer, Calling, Phases, Uncounted, UnderWay
  <2>3. CASE ~(attempt[h] <= Retries)
    <3>1. Goto(h, "failed") /\ attempt' = attempt
      BY <1>9, <2>3 DEF NoAnswer
    <3> QED
      BY <1>5, <2>1, <3>1 DEF Phases, UnderWay
  <2> QED
    BY <2>2, <2>3
<1>10. ASSUME NEW h \in Handlers, Again(h) PROVE Calling'
  <2>1. /\ pc[h] = "sleep" /\ attempt[h] \in 0..Retries + 1 /\ attempt[h] <= Retries
        /\ Counts(h, "call", attempt[h] + 1) /\ breaker' = breaker
    BY <1>10 DEF Again, Goto, Counts, Calling
  <2>2. attempt[h] + 1 \in 0..Retries + 1
    BY <2>1, BoundsNatural
  <2> QED
    BY <2>1, <2>2, CountingKeeps DEF Phases, Calling, Uncounted
<1>11. ASSUME NEW h \in Handlers, Fails(h) PROVE Calling'
  <2>1. breaker' \in [Pods -> Breakers]
    BY <1>11, ClosedTyped, PodsOfHandlers DEF Fails, Calling
  <2> QED
    BY <1>5, <1>11, <2>1 DEF Fails, Phases, UnderWay
<1> QED
  BY <1>1, <1>2, <1>3, <1>6, <1>7, <1>8, <1>9, <1>10, <1>11 DEF Next

(* The row, its lock, every claim and every count of attempts keep their   *)
(* types; a completed row has a response and no lease.                     *)
THEOREM RequestsTypesHold == Spec => []RequestsTypeOK
<1>1. Spec => [](Truthful /\ Released /\ Calling)
  BY InitTrue, StepTrue, InitCalling, StepReleased, StepCalling, AlwaysInShape, PTL DEF Spec
<1>2. Shape /\ Truthful /\ Released /\ Calling => RequestsTypeOK
  <2> SUFFICES ASSUME Shape, Truthful, Released, Calling PROVE RequestsTypeOK
    OBVIOUS
  <2>1. row.id \in 0..ids /\ \A h \in Handlers : claim[h] \in 0..ids
    BY DEF Shape, StoreTyped, RowsOfKey, HandlersTyped, Claims
  <2>2. rowLock # Nobody => pc[rowLock] = "commit" /\ claim[rowLock] = row.id /\ row.id # 0
    BY DEF Shape, Locked
  <2> QED
    BY <2>1, <2>2 DEF Truthful, Backed, Released, Calling, Breakers, Uncounted, RequestsTypeOK
<1> QED
  BY <1>1, <1>2, AlwaysInShape, PTL
-----------------------------------------------------------------------------
(* The breaker.  A call under way may send again until it has no retry     *)
(* left; while the breaker is open no call begins, so that every attempt   *)
(* sent uses up a retry that was left when it opened.                      *)
RunsIn(p) == {h \in Handlers : PodOf[h] = p}
RetriesOf(p) == RunsIn(p) \X (1..Retries)
Left(p) == {r \in RetriesOf(p) : pc[r[1]] \in UnderWay /\ attempt[r[1]] <= r[2]}

Sparing(p) ==
  /\ hammered[p] \in Nat
  /\ ~Open(p) => hammered[p] = 0
  /\ hammered[p] + Cardinality(Left(p)) <= Cardinality(RetriesOf(p))

Limited ==
  /\ hammered \in [Pods -> Nat]
  /\ \A p \in Pods : Sparing(p)

LEMMA RetriesCounted ==
  ASSUME NEW p \in Pods
  PROVE  /\ IsFiniteSet(RetriesOf(p))
         /\ Cardinality(RetriesOf(p)) = Retries * Cardinality(RunsIn(p))
<1>1. IsFiniteSet(RunsIn(p))
  BY HandlersFinite, FS_Subset DEF RunsIn
<1>2. IsFiniteSet(1..Retries) /\ Cardinality(1..Retries) = Retries
  BY BoundsNatural, FS_Interval
<1>3. IsFiniteSet(RetriesOf(p)) /\ Cardinality(RetriesOf(p)) = Cardinality(RunsIn(p)) * Cardinality(1..Retries)
  BY <1>1, <1>2, FS_Product DEF RetriesOf
<1>4. Cardinality(RunsIn(p)) \in Nat
  BY <1>1, FS_CardinalityType
<1> QED
  BY <1>2, <1>3, <1>4, BoundsNatural

(* What is left is part of what there is, before a step and after it.      *)
LEMMA LeftFits ==
  ASSUME NEW p \in Pods, NEW S \in SUBSET RetriesOf(p)
  PROVE  /\ IsFiniteSet(S) /\ Cardinality(S) \in Nat
         /\ Cardinality(S) <= Cardinality(RetriesOf(p))
<1>1. IsFiniteSet(RetriesOf(p))
  BY RetriesCounted
<1>2. IsFiniteSet(S) /\ Cardinality(S) <= Cardinality(RetriesOf(p))
  BY <1>1, FS_Subset
<1> QED
  BY <1>2, FS_CardinalityType

(* The three things a step does to a pod.                                  *)
Rests(p) == hammered'[p] = 0
Spares(p) == hammered'[p] = hammered[p] /\ Left(p)' \subseteq Left(p)
Spends(p) ==
  /\ hammered'[p] = hammered[p] + 1
  /\ \E r \in Left(p) : Left(p)' \subseteq Left(p) \ {r}

LEMMA SparingKept ==
  ASSUME NEW p \in Pods, Sparing(p), ~Open(p)' => hammered'[p] = 0,
         Rests(p) \/ Spares(p) \/ Spends(p)
  PROVE  Sparing(p)'
<1> USE DEF Sparing
<1>1. Left(p) \in SUBSET RetriesOf(p) /\ Left(p)' \in SUBSET RetriesOf(p)
  BY DEF Left, RetriesOf, RunsIn
<1>2. RetriesOf(p)' = RetriesOf(p)
  BY DEF RetriesOf, RunsIn
<1>3. /\ IsFiniteSet(Left(p)) /\ Cardinality(Left(p)) \in Nat
      /\ Cardinality(Left(p)') \in Nat /\ Cardinality(Left(p)') <= Cardinality(RetriesOf(p))
      /\ Cardinality(RetriesOf(p)) \in Nat
  BY <1>1, LeftFits, RetriesCounted, FS_CardinalityType
<1>4. CASE Rests(p)
  BY <1>2, <1>3, <1>4 DEF Rests
<1>5. CASE Spares(p)
  <2>1. Cardinality(Left(p)') <= Cardinality(Left(p))
    BY <1>3, <1>5, FS_Subset DEF Spares
  <2> QED
    BY <1>2, <1>3, <1>5, <2>1 DEF Spares
<1>6. CASE Spends(p)
  <2>1. PICK r \in Left(p) : Left(p)' \subseteq Left(p) \ {r}
    BY <1>6 DEF Spends
  <2>2. IsFiniteSet(Left(p) \ {r}) /\ Cardinality(Left(p) \ {r}) = Cardinality(Left(p)) - 1
    BY <1>3, FS_RemoveElement
  <2>3. Cardinality(Left(p)') <= Cardinality(Left(p) \ {r})
    BY <2>1, <2>2, FS_Subset
  <2> QED
    BY <1>2, <1>3, <1>6, <2>2, <2>3 DEF Spends
<1> QED
  BY <1>4, <1>5, <1>6

LEMMA PodsKept ==
  ASSUME Limited, hammered' \in [Pods -> Nat],
         \A p \in Pods : ~Open(p)' => hammered'[p] = 0,
         \A p \in Pods : Rests(p) \/ Spares(p) \/ Spends(p)
  PROVE  Limited'
<1>1. ASSUME NEW p \in Pods PROVE Sparing(p)'
  BY SparingKept DEF Limited
<1> QED
  BY <1>1 DEF Limited

(* A handler that moves leaves no more to its pod, unless it begins a call. *)
LEMMA MoveSpares ==
  ASSUME Shape, Calling, NEW h \in Handlers, NEW at, NEW k \in Int, Counts(h, at, k), NEW p \in Pods,
         PodOf[h] # p \/ at \notin UnderWay \/ (pc[h] \in UnderWay /\ attempt[h] <= k)
  PROVE  Left(p)' \subseteq Left(p)
<1>1. /\ pc'[h] = at /\ attempt'[h] = k
      /\ \A g \in Handlers \ {h} : pc'[g] = pc[g] /\ attempt'[g] = attempt[g]
  BY DEF Counts, Calling, Shape, HandlersTyped
<1>2. SUFFICES ASSUME NEW r \in RetriesOf(p), pc'[r[1]] \in UnderWay, attempt'[r[1]] <= r[2]
               PROVE  pc[r[1]] \in UnderWay /\ attempt[r[1]] <= r[2]
  BY DEF Left, RetriesOf, RunsIn
<1>3. r[1] \in Handlers /\ PodOf[r[1]] = p /\ r[2] \in Int
  BY DEF RetriesOf, RunsIn
<1>4. CASE r[1] = h
  BY <1>1, <1>2, <1>3, <1>4 DEF Calling
<1>5. CASE r[1] # h
  BY <1>1, <1>2, <1>3, <1>5
<1> QED
  BY <1>4, <1>5

LEMMA MovesOff ==
  ASSUME NEW h \in Handlers, NEW at, Goto(h, at), at \notin UnderWay, attempt' = attempt, Shape, Calling,
         NEW p \in Pods
  PROVE  Left(p)' \subseteq Left(p)
<1>1. Counts(h, at, attempt[h]) /\ attempt[h] \in Int
  BY BoundsNatural DEF Goto, Counts, Calling
<1> QED
  BY <1>1, MoveSpares

LEMMA DoneSpares ==
  ASSUME NEW h \in Handlers, Done(h), Shape, Calling, NEW p \in Pods
  PROVE  Left(p)' \subseteq Left(p)
<1>1. Counts(h, "idle", 0)
  BY DEF Done, Goto, Counts
<1> QED
  BY <1>1, MoveSpares DEF UnderWay

(* What has nothing to do with the breaker.                                *)
LEMMA AsideLimited ==
  ASSUME Shape, Calling, Limited, UNCHANGED upstream,
         \A p \in Pods : Left(p)' \subseteq Left(p)
  PROVE  Limited'
<1>1. hammered' = hammered /\ breaker' = breaker
  BY DEF upstream
<1>2. ASSUME NEW p \in Pods PROVE Spares(p) /\ (~Open(p)' => hammered'[p] = 0)
  BY <1>1, <1>2 DEF Spares, Limited, Sparing, Open
<1> QED
  BY <1>1, <1>2, PodsKept DEF Limited

(* What the breaker of one pod learns, whose handler begins no call.       *)
LEMMA RestsLimited ==
  ASSUME Shape, Calling, Limited, NEW q \in Pods,
         hammered' = [hammered EXCEPT ![q] = 0],
         \A p \in Pods \ {q} : breaker'[p] = breaker[p] /\ Left(p)' \subseteq Left(p)
  PROVE  Limited'
<1>1. hammered' \in [Pods -> Nat] /\ hammered'[q] = 0 /\ \A p \in Pods \ {q} : hammered'[p] = hammered[p]
  BY DEF Limited
<1>2. ASSUME NEW p \in Pods PROVE (Rests(p) \/ Spares(p)) /\ (~Open(p)' => hammered'[p] = 0)
  <2>1. CASE p = q
    BY <1>1, <2>1 DEF Rests
  <2>2. CASE p # q
    BY <1>1, <2>2 DEF Spares, Limited, Sparing, Open
  <2> QED
    BY <2>1, <2>2
<1> QED
  BY <1>1, <1>2, PodsKept

LEMMA NoAnswerLimited ==
  ASSUME Shape, Calling, Limited, NEW h \in Handlers, NoAnswer(h) PROVE Limited'
<1>1. /\ pc[h] = "call" /\ attempt' = attempt /\ hammered' = hammered
      /\ breaker' = [breaker EXCEPT ![PodOf[h]] = Failure(@)]
      /\ Goto(h, IF attempt[h] <= Retries THEN "sleep" ELSE "failed")
  BY DEF NoAnswer
<1>2. attempt[h] \in Int
  BY BoundsNatural DEF Calling
<1>3. Counts(h, IF attempt[h] <= Retries THEN "sleep" ELSE "failed", attempt[h])
  BY <1>1 DEF Goto, Counts, Calling
<1>4. ASSUME NEW p \in Pods PROVE Spares(p) /\ (~Open(p)' => hammered'[p] = 0)
  <2>1. Left(p)' \subseteq Left(p)
    <3>1. pc[h] \in UnderWay /\ attempt[h] <= attempt[h]
      BY <1>1, <1>2 DEF UnderWay
    <3> QED
      BY <1>2, <1>3, <3>1, MoveSpares
  <2>2. Open(p) => Open(p)'
    BY <1>1 DEF Open, Failure, Calling
  <2> QED
    BY <1>1, <2>1, <2>2 DEF Spares, Limited, Sparing
<1> QED
  BY <1>1, <1>4, PodsKept DEF Limited

LEMMA CallLimited ==
  ASSUME Shape, Calling, Limited, NEW h \in Handlers, Call(h) PROVE Limited'
<1>1. hammered' = hammered /\ breaker' = breaker /\ ~Open(PodOf[h]) /\ Counts(h, "call", 1)
  BY DEF Call, upstream, Goto, Counts
<1>2. ASSUME NEW p \in Pods PROVE (Rests(p) \/ Spares(p)) /\ (~Open(p)' => hammered'[p] = 0)
  <2>1. CASE p = PodOf[h]
    BY <1>1, <2>1 DEF Rests, Limited, Sparing
  <2>2. CASE p # PodOf[h]
    <3>1. Left(p)' \subseteq Left(p)
      BY <1>1, <2>2, MoveSpares
    <3> QED
      BY <1>1, <3>1 DEF Spares, Limited, Sparing, Open
  <2> QED
    BY <2>1, <2>2
<1> QED
  BY <1>1, <1>2, PodsKept DEF Limited

(* A retry while the breaker is open uses up one that was left.            *)
LEMMA AgainLimited ==
  ASSUME Shape, Calling, Limited, NEW h \in Handlers, Again(h) PROVE Limited'
<1> DEFINE q == PodOf[h]
           sent == <<h, attempt[h]>>
<1>1. /\ pc[h] = "sleep" /\ breaker' = breaker
      /\ hammered' = [hammered EXCEPT ![q] = IF Open(q) THEN @ + 1 ELSE @]
  BY DEF Again
<1>2. q \in Pods
  BY PodsOfHandlers
<1>3. attempt[h] \in 1..Retries
  BY <1>1, BoundsNatural DEF Calling, UnderWay
<1>4. Counts(h, "call", attempt[h] + 1)
  BY <1>3 DEF Again, Goto, Counts, Calling
<1>5. \A p \in Pods : Left(p)' \subseteq Left(p)
  <2>1. pc[h] \in UnderWay /\ attempt[h] <= attempt[h] + 1 /\ attempt[h] + 1 \in Int
    BY <1>1, <1>3 DEF UnderWay
  <2> QED
    BY <1>4, <2>1, MoveSpares
<1>6. sent \in Left(q) /\ sent \notin Left(q)'
  <2>1. sent \in RetriesOf(q) /\ sent[1] = h /\ sent[2] = attempt[h]
    BY <1>3 DEF RetriesOf, RunsIn
  <2>2. attempt'[h] = attempt[h] + 1
    BY <1>4 DEF Counts, Calling
  <2>3. sent \in Left(q)
    BY <1>1, <1>3, <2>1 DEF Left, UnderWay
  <2>4. sent \notin Left(q)'
    BY <1>3, <2>1, <2>2 DEF Left
  <2> QED
    BY <2>3, <2>4
<1>7. hammered' \in [Pods -> Nat]
  BY <1>1, <1>2 DEF Limited
<1>8. ASSUME NEW p \in Pods
      PROVE  (Rests(p) \/ Spares(p) \/ Spends(p)) /\ (~Open(p)' => hammered'[p] = 0)
  <2>1. CASE p = q /\ Open(q)
    <3>1. Left(q)' \subseteq Left(q) \ {sent}
      BY <1>2, <1>5, <1>6
    <3>2. hammered'[q] = hammered[q] + 1
      BY <1>1, <1>2, <2>1 DEF Limited
    <3>3. Spends(p)
      BY <1>6, <2>1, <3>1, <3>2 DEF Spends
    <3> QED
      BY <1>1, <2>1, <3>3 DEF Open
  <2>2. CASE ~(p = q /\ Open(q))
    <3>1. hammered'[p] = hammered[p] /\ Open(p)' = Open(p)
      BY <1>1, <1>2, <2>2 DEF Limited, Open
    <3> QED
      BY <1>5, <3>1 DEF Spares, Limited, Sparing
  <2> QED
    BY <2>1, <2>2
<1> QED
  BY <1>7, <1>8, PodsKept

LEMMA InitLimited == Init => Limited
<1> SUFFICES ASSUME Init PROVE Limited
  OBVIOUS
<1>1. ASSUME NEW p \in Pods PROVE Sparing(p)
  <2>1. hammered[p] = 0
    BY DEF Init
  <2>2. Left(p) \in SUBSET RetriesOf(p)
    BY DEF Left
  <2> QED
    BY <2>1, <2>2, LeftFits DEF Sparing
<1> QED
  BY <1>1 DEF Limited, Init

LEMMA StepLimited == Shape /\ Calling /\ Limited /\ [Next]_vars => Limited'
<1> SUFFICES ASSUME Shape, Calling, Limited, [Next]_vars PROVE Limited'
  OBVIOUS
<1>1. CASE UNCHANGED vars \/ Tick
  <2>1. UNCHANGED <<pc, attempt, upstream>>
    BY <1>1 DEF vars, Tick, handler
  <2>2. \A p \in Pods : Left(p)' = Left(p)
    BY <2>1 DEF Left, RetriesOf, RunsIn
  <2> QED
    BY <2>1, <2>2, AsideLimited
<1>2. ASSUME NEW q \in Pods, HalfOpens(q) PROVE Limited'
  <2>1. /\ UNCHANGED <<pc, attempt>> /\ hammered' = [hammered EXCEPT ![q] = 0]
        /\ \A p \in Pods \ {q} : breaker'[p] = breaker[p]
    BY <1>2 DEF HalfOpens, handler, Calling
  <2>2. \A p \in Pods : Left(p)' = Left(p)
    BY <2>1 DEF Left, RetriesOf, RunsIn
  <2> QED
    BY <2>1, <2>2, RestsLimited
<1>3. ASSUME NEW q \in Pods, Crash(q) PROVE Limited'
  <2>1. /\ hammered' = [hammered EXCEPT ![q] = 0]
        /\ \A p \in Pods \ {q} : breaker'[p] = breaker[p]
        /\ \A h \in Handlers : PodOf[h] # q => pc'[h] = pc[h] /\ attempt'[h] = attempt[h]
    BY <1>3 DEF Crash, Calling
  <2>2. ASSUME NEW p \in Pods \ {q} PROVE Left(p)' \subseteq Left(p)
    <3>1. \A r \in RetriesOf(p) : pc'[r[1]] = pc[r[1]] /\ attempt'[r[1]] = attempt[r[1]]
      BY <2>1, <2>2 DEF RetriesOf, RunsIn
    <3> QED
      BY <3>1 DEF Left, RetriesOf, RunsIn
  <2> QED
    BY <2>1, <2>2, RestsLimited
<1>4. ASSUME NEW h \in Handlers,
             Arrive(h) \/ Insert(h) \/ Select(h) \/ GivesUp(h) \/ Release(h) \/ Record(h)
               \/ Commit(h) \/ CommitUnheard(h)
      PROVE  Limited'
  <2>1. UNCHANGED upstream
    BY <1>4 DEF Arrive, Insert, Select, GivesUp, Release, Record, Commit, CommitUnheard, Committed
  <2>2. CASE Done(h)
    BY <2>1, <2>2, DoneSpares, AsideLimited
  <2>3. CASE ~Done(h)
    <3>1. PICK at \in Phases \ UnderWay : Goto(h, at) /\ attempt' = attempt
      BY <1>4, <2>3 DEF Arrive, Insert, Select, GivesUp, Release, Record, Commit, CommitUnheard,
         Refused, Reuse, Replay, TakeOver, Holds, Phases, UnderWay
    <3> QED
      BY <2>1, <3>1, MovesOff, AsideLimited
  <2> QED
    BY <2>2, <2>3
<1>5. ASSUME NEW h \in Handlers, Answered(h) PROVE Limited'
  <2>1. PICK at \in {"record", "commit"} : Counts(h, at, 0)
    BY <1>5 DEF Answered, Goto, Counts
  <2>2. \A p \in Pods : Left(p)' \subseteq Left(p)
    BY <2>1, MoveSpares DEF UnderWay
  <2>3. /\ hammered' = [hammered EXCEPT ![PodOf[h]] = 0]
        /\ \A p \in Pods \ {PodOf[h]} : breaker'[p] = breaker[p]
    BY <1>5 DEF Answered, Calling
  <2> QED
    BY <2>2, <2>3, PodsOfHandlers, RestsLimited
<1>6. ASSUME NEW h \in Handlers, Fails(h) PROVE Limited'
  <2>1. \A p \in Pods : Left(p)' \subseteq Left(p)
    BY <1>6, MovesOff DEF Fails, UnderWay
  <2>2. CASE pc[h] = "call"
    <3>1. /\ hammered' = [hammered EXCEPT ![PodOf[h]] = 0]
          /\ \A p \in Pods \ {PodOf[h]} : breaker'[p] = breaker[p]
      BY <1>6, <2>2 DEF Fails, Calling
    <3> QED
      BY <2>1, <3>1, PodsOfHandlers, RestsLimited
  <2>3. CASE pc[h] # "call"
    <3>1. UNCHANGED upstream
      BY <1>6, <2>3 DEF Fails, upstream
    <3> QED
      BY <2>1, <3>1, AsideLimited
  <2> QED
    BY <2>2, <2>3
<1> QED
  BY <1>1, <1>2, <1>3, <1>4, <1>5, <1>6, CallLimited, NoAnswerLimited, AgainLimited DEF Next

(* "A circuit breaker stops hammering a service that keeps failing": from  *)
(* the failure that opens a pod's breaker to its half-opening, the pod     *)
(* sends no more attempts than the retries of the requests it runs.        *)
THEOREM BreakerAlwaysStops == Spec => []BreakerStops
<1>1. Spec => [](Calling /\ Limited)
  BY InitCalling, StepCalling, InitLimited, StepLimited, AlwaysInShape, PTL DEF Spec
<1>2. Limited => BreakerStops
  <2> SUFFICES ASSUME Limited, NEW p \in Pods
               PROVE  hammered[p] <= Retries * Cardinality(RunsIn(p))
    BY DEF BreakerStops, RunsIn
  <2>1. Left(p) \in SUBSET RetriesOf(p)
    BY DEF Left
  <2>2. Cardinality(Left(p)) \in Nat
    BY <2>1, LeftFits
  <2>3. Cardinality(RetriesOf(p)) \in Nat
    BY RetriesCounted, FS_CardinalityType
  <2> QED
    BY <2>2, <2>3, RetriesCounted DEF Limited, Sparing
<1> QED
  BY <1>1, <1>2, PTL
=============================================================================
