---------------------------- MODULE SessionsProofs ----------------------------
(***************************************************************************)
(* For any number of overlapping requests on an account: a refresh token   *)
(* is exchanged at most once, a revocation reaches every session committed *)
(* before its statement started, and failures that do not overlap count.   *)
(***************************************************************************)
EXTENDS Sessions, WellFoundedInduction, TLAPS

TokenFields == {"revoked", "replacedBy", "from", "role", "born"}

(* The committed tokens are numbered, and a token comes from an earlier    *)
(* one or from a login.                                                    *)
TokenRows ==
  /\ \E n \in Nat : tokens = [k \in 1..n |-> tokens[k]]
  /\ \A k \in Ids : DOMAIN tokens[k] = TokenFields
                    /\ tokens[k].from \in {0} \cup Ids /\ tokens[k].born \in Nat

(* Row locks exclude each other; revoke_all updates what it has locked.    *)
Locking ==
  /\ DOMAIN pc = Txs /\ DOMAIN job = Txs /\ DOMAIN held = Txs
  /\ DOMAIN hit = Txs /\ DOMAIN victims = Txs /\ DOMAIN sweep = Txs
  /\ \A t \in Txs : DOMAIN job[t] = {"kind", "token", "set"}
  /\ \A t \in Txs : hit[t] \subseteq held[t]
  /\ \A t, u \in Txs : t # u => held[t] \cap held[u] = {}
  /\ \A t \in Txs : pc[t] \in {"idle", "token", "check", "sweep"} => hit[t] = {}

(* What a request that rotates or ends one session has in its hands.       *)
Ticket(t) ==
  /\ pc[t] = "token" => job[t].kind \in {"refresh", "logout"} /\ job[t].token \in Ids
  /\ pc[t] = "check" => job[t].kind = "refresh"
  /\ pc[t] \in {"check", "commit"} /\ job[t].kind \in {"refresh", "logout"}
       => job[t].token \in Ids /\ job[t].token \in held[t]
  /\ pc[t] \in {"check", "commit"} /\ job[t].kind = "refresh" => ~tokens[job[t].token].revoked
  /\ pc[t] \in {"sweep", "sweeping", "user"} => job[t].kind \notin {"refresh", "logout"}
  /\ job[t].kind = "login" => job[t].token = 0

Reach(t) == \A k \in LiveTokens : tokens[k].born < sweep[t] => k \in victims[t] \cup hit[t]

(* A revocation under way has yet to visit, or has updated, every live     *)
(* token from before its start.                                            *)
Sweeping ==
  /\ started \in Nat /\ swept \in Nat /\ swept <= started
  /\ \A t \in Txs : sweep[t] \in Nat /\ sweep[t] <= started
  /\ \A t \in Txs : pc[t] # "sweeping" => victims[t] = {}
  /\ \A t \in Txs : Reach(t)

SessionInv ==
  /\ TokenRows /\ Locking /\ (\A t \in Txs : Ticket(t)) /\ Sweeping
  /\ OneSuccessor /\ SweepReachesAll
-----------------------------------------------------------------------------
LEMMA Longer ==
  ASSUME NEW s, NEW n \in Nat, s = [k \in 1..n |-> s[k]], NEW e, NEW u, u = s \o <<e>>
  PROVE  /\ u = [k \in 1..(n + 1) |-> u[k]] /\ DOMAIN u = 1..(n + 1) /\ Len(s) = n
         /\ u[n + 1] = e /\ \A k \in 1..n : u[k] = s[k]
<1> DEFINE S == {s[k] : k \in 1..n} \cup {e}
<1>1. s \in Seq(S) /\ <<e>> \in Seq(S)
  BY SMTT(30)
<1> QED
  BY <1>1

LEMMA AsLong ==
  ASSUME NEW s, NEW n \in Nat, s = [k \in 1..n |-> s[k]]
  PROVE  s \o <<>> = s /\ Len(s) = n
<1> DEFINE S == {s[k] : k \in 1..n}
<1>1. s \in Seq(S) /\ <<>> \in Seq(S)
  OBVIOUS
<1> QED
  BY <1>1

LEMMA SessionInit == Init => SessionInv
<1> SUFFICES ASSUME Init PROVE SessionInv
  OBVIOUS
<1>0. tokens \in Seq({}) /\ Len(tokens) = 0
  <2>1. <<>> \in Seq({}) /\ Len(<<>>) = 0
    OBVIOUS
  <2> QED
    BY <2>1 DEF Init
<1>1. Ids = {} /\ LiveTokens = {}
  BY <1>0 DEF Ids, LiveTokens
<1>2. TokenRows
  <2>1. tokens = [k \in 1..0 |-> tokens[k]]
    BY <1>0
  <2> QED
    BY <1>1, <2>1 DEF TokenRows
<1>3. Locking /\ \A t \in Txs : Ticket(t)
  BY DEF Init, Locking, Ticket, NoJob
<1>4. Sweeping
  <2>1. started = 0 /\ swept = 0 /\ \A t \in Txs : sweep[t] = 0 /\ victims[t] = {}
    BY DEF Init
  <2> QED
    BY <1>1, <2>1 DEF Sweeping, Reach
<1>5. OneSuccessor /\ SweepReachesAll
  BY <1>1 DEF OneSuccessor, SweepReachesAll
<1> QED
  BY <1>2, <1>3, <1>4, <1>5 DEF SessionInv
-----------------------------------------------------------------------------
LEMMA BeginKeeps ==
  ASSUME SessionInv, NEW t \in Txs, NEW kind, NEW token, NEW set, NEW at,
         Begin(t, kind, token, set, at), at \in {"token", "sweep", "user"},
         IF at = "token" THEN kind \in {"refresh", "logout"} /\ token \in Ids
                         ELSE kind \notin {"refresh", "logout"},
         kind = "login" => token = 0
  PROVE  SessionInv'
<1>1. /\ tokens' = tokens /\ held' = held /\ hit' = hit /\ victims' = victims
      /\ started' = started /\ swept' = swept /\ sweep' = sweep
      /\ pc[t] = "idle"
      /\ pc' = [pc EXCEPT ![t] = at]
      /\ job' = [job EXCEPT ![t] = [kind |-> kind, token |-> token, set |-> Net(user, set)]]
  BY DEF Begin
<1>2. Ids' = Ids /\ LiveTokens' = LiveTokens
  BY <1>1 DEF Ids, LiveTokens
<1>3. TokenRows' /\ OneSuccessor' /\ SweepReachesAll'
  BY <1>1, <1>2 DEF SessionInv, TokenRows, OneSuccessor, SweepReachesAll
<1>4. /\ pc'[t] = at /\ job'[t].kind = kind /\ job'[t].token = token
      /\ DOMAIN job'[t] = {"kind", "token", "set"}
      /\ \A u \in Txs \ {t} : pc'[u] = pc[u] /\ job'[u] = job[u]
  BY <1>1 DEF SessionInv, Locking
<1>5. Locking'
  BY <1>1, <1>4 DEF SessionInv, Locking
<1>6. \A u \in Txs : Ticket(u)'
  BY <1>1, <1>2, <1>4 DEF SessionInv, Ticket
<1>7. Sweeping'
  BY <1>1, <1>2, <1>4 DEF SessionInv, Sweeping, Reach
<1> QED
  BY <1>3, <1>5, <1>6, <1>7 DEF SessionInv

LEMMA ArrivesKeeps ==
  ASSUME SessionInv, NEW t \in Txs, Arrives(t)
  PROVE  SessionInv'
<1>1. CASE BeginLogin(t)
  BY <1>1, BeginKeeps DEF BeginLogin
<1>2. CASE BeginWrong(t)
  BY <1>2, BeginKeeps DEF BeginWrong
<1>3. CASE BeginRefresh(t)
  BY <1>3, BeginKeeps DEF BeginRefresh
<1>4. CASE BeginLogout(t)
  BY <1>4, BeginKeeps DEF BeginLogout, LiveTokens
<1>5. CASE BeginLogoutAll(t)
  BY <1>5, BeginKeeps DEF BeginLogoutAll
<1>6. CASE BeginChangePassword(t)
  BY <1>6, BeginKeeps DEF BeginChangePassword
<1>7. CASE BeginChangeRole(t)
  BY <1>7, BeginKeeps DEF BeginChangeRole
<1>8. CASE BeginChangeStatus(t)
  BY <1>8, BeginKeeps DEF BeginChangeStatus
<1>9. CASE BeginDelete(t)
  BY <1>9, BeginKeeps DEF BeginDelete
<1>10. CASE BeginRestore(t)
  BY <1>10, BeginKeeps DEF BeginRestore
<1>11. CASE BeginScope(t)
  BY <1>11, BeginKeeps DEF BeginScope
<1> QED
  BY <1>1, <1>2, <1>3, <1>4, <1>5, <1>6, <1>7, <1>8, <1>9, <1>10, <1>11 DEF Arrives

(* A request that ends leaves nothing behind.                              *)
LEMMA DoneClears ==
  ASSUME Locking, NEW t \in Txs, Done(t)
  PROVE  /\ pc'[t] = "idle" /\ job'[t] = NoJob /\ held'[t] = {} /\ hit'[t] = {}
         /\ victims'[t] = {} /\ sweep'[t] = 0
         /\ \A u \in Txs \ {t} :
              /\ pc'[u] = pc[u] /\ job'[u] = job[u] /\ held'[u] = held[u]
              /\ hit'[u] = hit[u] /\ victims'[u] = victims[u] /\ sweep'[u] = sweep[u]
         /\ DOMAIN pc' = Txs /\ DOMAIN job' = Txs /\ DOMAIN held' = Txs
         /\ DOMAIN hit' = Txs /\ DOMAIN victims' = Txs /\ DOMAIN sweep' = Txs
  BY DEF Done, Release, Locking

LEMMA DoneLocking ==
  ASSUME Locking, NEW t \in Txs, Done(t)
  PROVE  Locking'
<1>1. DOMAIN job'[t] = {"kind", "token", "set"}
  BY DoneClears DEF NoJob
<1> QED
  BY <1>1, DoneClears DEF Locking

LEMMA RollbackKeeps ==
  ASSUME SessionInv, NEW t \in Txs, Rollback(t)
  PROVE  SessionInv'
<1>1. Locking /\ Done(t) /\ tokens' = tokens /\ started' = started /\ swept' = swept
  BY DEF SessionInv, Rollback
<1>2. Ids' = Ids /\ LiveTokens' = LiveTokens
  BY <1>1 DEF Ids, LiveTokens
<1>3. TokenRows' /\ OneSuccessor' /\ SweepReachesAll'
  BY <1>1, <1>2 DEF SessionInv, TokenRows, OneSuccessor, SweepReachesAll
<1>4. \A u \in Txs : Ticket(u)'
  BY <1>1, <1>2, DoneClears DEF SessionInv, Ticket, NoJob
<1>5. \A u \in Txs : sweep'[u] \in Nat /\ sweep'[u] <= started
                     /\ (pc'[u] # "sweeping" => victims'[u] = {})
  BY <1>1, DoneClears DEF SessionInv, Sweeping
<1>6. \A u \in Txs : Reach(u)'
  <2>1. Reach(t)'
    BY <1>1, <1>2, DoneClears DEF SessionInv, Reach, TokenRows, LiveTokens
  <2>2. \A u \in Txs \ {t} : Reach(u)'
    BY <1>1, <1>2, DoneClears DEF SessionInv, Sweeping, Reach
  <2> QED
    BY <2>1, <2>2
<1>7. Sweeping'
  BY <1>1, <1>5, <1>6 DEF SessionInv, Sweeping
<1> QED
  BY <1>1, <1>3, <1>4, <1>7, DoneLocking DEF SessionInv
-----------------------------------------------------------------------------
(* A step that leaves the tokens and the committed revocations alone.      *)
LEMMA SameTokens ==
  ASSUME SessionInv, tokens' = tokens, swept' = swept
  PROVE  /\ Ids' = Ids /\ LiveTokens' = LiveTokens
         /\ TokenRows' /\ OneSuccessor' /\ SweepReachesAll'
<1>1. Ids' = Ids /\ LiveTokens' = LiveTokens
  BY DEF Ids, LiveTokens
<1> QED
  BY <1>1 DEF SessionInv, TokenRows, OneSuccessor, SweepReachesAll

LEMMA LockTokenKeeps ==
  ASSUME SessionInv, NEW t \in Txs, LockToken(t)
  PROVE  SessionInv'
<1> DEFINE k == job[t].token
           at == IF job[t].kind = "logout" THEN "commit"
                 ELSE IF tokens[k].revoked THEN "sweep" ELSE "check"
<1>1. /\ tokens' = tokens /\ swept' = swept /\ started' = started
      /\ hit' = hit /\ victims' = victims /\ sweep' = sweep
      /\ pc[t] = "token" /\ k \in Ids /\ job[t].kind \in {"refresh", "logout"}
      /\ \A u \in Txs : k \notin held[u]
  BY DEF LockToken, Rest, SessionInv, Ticket
<1>2. /\ pc'[t] = at /\ held'[t] = {k} /\ hit[t] = {}
      /\ DOMAIN pc' = Txs /\ DOMAIN held' = Txs
      /\ \A u \in Txs \ {t} : pc'[u] = pc[u] /\ held'[u] = held[u]
  BY <1>1 DEF LockToken, Goto, SessionInv, Locking
<1>3. /\ DOMAIN job' = Txs /\ DOMAIN job'[t] = {"kind", "token", "set"}
      /\ job'[t].token = k
      /\ job'[t].kind = IF at = "sweep" THEN "replay" ELSE job[t].kind
      /\ \A u \in Txs \ {t} : job'[u] = job[u]
  BY <1>1, <1>2 DEF LockToken, SessionInv, Locking
<1>4. Locking'
  BY <1>1, <1>2, <1>3 DEF SessionInv, Locking
<1>5. Ticket(t)'
  BY <1>1, <1>2, <1>3, SameTokens DEF Ticket
<1>6. \A u \in Txs \ {t} : Ticket(u)'
  BY <1>1, <1>2, <1>3, SameTokens DEF SessionInv, Ticket
<1>7. Sweeping'
  BY <1>1, <1>2, SameTokens DEF SessionInv, Sweeping, Reach
<1> QED
  BY <1>1, <1>4, <1>5, <1>6, <1>7, SameTokens DEF SessionInv

LEMMA CheckUserKeeps ==
  ASSUME SessionInv, NEW t \in Txs, CheckUser(t)
  PROVE  SessionInv'
<1>1. /\ tokens' = tokens /\ swept' = swept /\ started' = started
      /\ hit' = hit /\ victims' = victims /\ sweep' = sweep /\ job' = job /\ held' = held
      /\ pc[t] = "check" /\ pc'[t] = "commit" /\ DOMAIN pc' = Txs
      /\ \A u \in Txs \ {t} : pc'[u] = pc[u]
  BY DEF CheckUser, Rest, Goto, SessionInv, Locking
<1>2. Locking'
  BY <1>1 DEF SessionInv, Locking
<1>3. \A u \in Txs : Ticket(u)'
  BY <1>1, SameTokens DEF SessionInv, Ticket
<1>4. Sweeping'
  BY <1>1, SameTokens DEF SessionInv, Sweeping, Reach
<1> QED
  BY <1>1, <1>2, <1>3, <1>4, SameTokens DEF SessionInv

LEMMA WriteUserKeeps ==
  ASSUME SessionInv, NEW t \in Txs, WriteUser(t)
  PROVE  SessionInv'
<1>1. /\ tokens' = tokens /\ swept' = swept /\ started' = started
      /\ hit' = hit /\ victims' = victims /\ sweep' = sweep /\ job' = job /\ held' = held
      /\ pc[t] = "user" /\ pc'[t] = "commit" /\ DOMAIN pc' = Txs
      /\ \A u \in Txs \ {t} : pc'[u] = pc[u]
  BY DEF WriteUser, Rest, Goto, SessionInv, Locking
<1>2. Locking'
  BY <1>1 DEF SessionInv, Locking
<1>3. \A u \in Txs : Ticket(u)'
  BY <1>1, SameTokens DEF SessionInv, Ticket
<1>4. Sweeping'
  BY <1>1, SameTokens DEF SessionInv, Sweeping, Reach
<1> QED
  BY <1>1, <1>2, <1>3, <1>4, SameTokens DEF SessionInv

LEMMA SweepEndsKeeps ==
  ASSUME SessionInv, NEW t \in Txs, SweepEnds(t)
  PROVE  SessionInv'
<1>1. /\ tokens' = tokens /\ swept' = swept /\ started' = started
      /\ hit' = hit /\ victims' = victims /\ sweep' = sweep /\ job' = job /\ held' = held
      /\ pc[t] = "sweeping" /\ pc'[t] \in {"commit", "user"} /\ DOMAIN pc' = Txs
      /\ victims[t] = {}
      /\ \A u \in Txs \ {t} : pc'[u] = pc[u]
  BY DEF SweepEnds, Rest, Goto, SessionInv, Locking
<1>2. Locking'
  BY <1>1 DEF SessionInv, Locking
<1>3. \A u \in Txs : Ticket(u)'
  BY <1>1, SameTokens DEF SessionInv, Ticket
<1>4. Sweeping'
  BY <1>1, SameTokens DEF SessionInv, Sweeping, Reach
<1> QED
  BY <1>1, <1>2, <1>3, <1>4, SameTokens DEF SessionInv
-----------------------------------------------------------------------------
LEMMA StartSweepKeeps ==
  ASSUME SessionInv, NEW t \in Txs, StartSweep(t)
  PROVE  SessionInv'
<1>1. /\ tokens' = tokens /\ swept' = swept /\ started' = started + 1
      /\ hit' = hit /\ job' = job /\ held' = held
      /\ pc[t] = "sweep"
  BY DEF StartSweep, Rest
<1>2. /\ pc'[t] = "sweeping" /\ victims'[t] = LiveTokens /\ sweep'[t] = started + 1
      /\ DOMAIN pc' = Txs /\ DOMAIN victims' = Txs /\ DOMAIN sweep' = Txs
      /\ \A u \in Txs \ {t} : pc'[u] = pc[u] /\ victims'[u] = victims[u] /\ sweep'[u] = sweep[u]
  BY <1>1 DEF StartSweep, Goto, SessionInv, Locking
<1>3. Locking'
  BY <1>1, <1>2 DEF SessionInv, Locking
<1>4. \A u \in Txs : Ticket(u)'
  BY <1>1, <1>2, SameTokens DEF SessionInv, Ticket
<1>5. \A u \in Txs : Reach(u)'
  <2>1. Reach(t)'
    BY <1>1, <1>2, SameTokens DEF Reach
  <2>2. \A u \in Txs \ {t} : Reach(u)'
    BY <1>1, <1>2, SameTokens DEF SessionInv, Sweeping, Reach
  <2> QED
    BY <2>1, <2>2
<1>6. Sweeping'
  BY <1>1, <1>2, <1>5 DEF SessionInv, Sweeping
<1> QED
  BY <1>1, <1>3, <1>4, <1>6, SameTokens DEF SessionInv

LEMMA SweepRowKeeps ==
  ASSUME SessionInv, NEW t \in Txs, SweepRow(t)
  PROVE  SessionInv'
<1> DEFINE k == Lowest(victims[t])
<1>1. /\ tokens' = tokens /\ swept' = swept /\ started' = started
      /\ job' = job /\ pc' = pc /\ sweep' = sweep
      /\ pc[t] = "sweeping"
      /\ \A u \in Txs \ {t} : k \notin held[u]
  BY DEF SweepRow, Rest
<1>2. /\ victims'[t] = victims[t] \ {k} /\ DOMAIN victims' = Txs
      /\ \A u \in Txs \ {t} : victims'[u] = victims[u]
  BY <1>1 DEF SweepRow, SessionInv, Locking
<1>3. /\ DOMAIN held' = Txs /\ DOMAIN hit' = Txs
      /\ \A u \in Txs \ {t} : held'[u] = held[u] /\ hit'[u] = hit[u]
      /\ held'[t] = IF tokens[k].revoked THEN held[t] ELSE held[t] \cup {k}
      /\ hit'[t] = IF tokens[k].revoked THEN hit[t] ELSE hit[t] \cup {k}
  <2>1. CASE tokens[k].revoked
    BY <2>1 DEF SweepRow, SessionInv, Locking
  <2>2. CASE ~tokens[k].revoked
    BY <2>2 DEF SweepRow, SessionInv, Locking
  <2> QED
    BY <2>1, <2>2
<1>4. Locking'
  <2>1. \A u \in Txs : hit'[u] \subseteq held'[u]
    BY <1>3 DEF SessionInv, Locking
  <2>2. \A u, v \in Txs : u # v => held'[u] \cap held'[v] = {}
    <3>1. \A u \in Txs \ {t} : held'[t] \cap held'[u] = {}
      BY <1>1, <1>3 DEF SessionInv, Locking
    <3> QED
      BY <1>3, <3>1 DEF SessionInv, Locking
  <2>3. \A u \in Txs : pc'[u] \in {"idle", "token", "check", "sweep"} => hit'[u] = {}
    BY <1>1, <1>3 DEF SessionInv, Locking
  <2> QED
    BY <1>1, <1>2, <1>3, <2>1, <2>2, <2>3 DEF SessionInv, Locking
<1>5. \A u \in Txs : Ticket(u)'
  BY <1>1, <1>3, SameTokens DEF SessionInv, Ticket
<1>6. \A u \in Txs : Reach(u)'
  <2>1. Reach(t)'
    BY <1>1, <1>2, <1>3, SameTokens DEF SessionInv, Sweeping, Reach, LiveTokens
  <2>2. \A u \in Txs \ {t} : Reach(u)'
    BY <1>1, <1>2, <1>3, SameTokens DEF SessionInv, Sweeping, Reach
  <2> QED
    BY <2>1, <2>2
<1>7. Sweeping'
  BY <1>1, <1>2, <1>6 DEF SessionInv, Sweeping
<1> QED
  BY <1>1, <1>4, <1>5, <1>7, SameTokens DEF SessionInv
-----------------------------------------------------------------------------
LEMMA Updated ==
  ASSUME NEW r, DOMAIN r = TokenFields, NEW b, NEW x
  PROVE  LET s == [r EXCEPT !.revoked = b, !.replacedBy = x]
         IN /\ DOMAIN s = TokenFields /\ s.from = r.from /\ s.born = r.born
            /\ s.revoked = b /\ s.replacedBy = x
<1> DEFINE a == [r EXCEPT !.revoked = b]
           s == [a EXCEPT !.replacedBy = x]
<1>1. /\ DOMAIN a = TokenFields /\ a.from = r.from /\ a.born = r.born
      /\ a.revoked = b
  BY DEF TokenFields
<1> HIDE DEF a
<1>2. /\ DOMAIN s = TokenFields /\ s.from = a.from /\ s.born = a.born
      /\ s.revoked = a.revoked /\ s.replacedBy = x
  BY <1>1 DEF TokenFields
<1> USE DEF a
<1>3. s = [r EXCEPT !.revoked = b, !.replacedBy = x]
  OBVIOUS
<1> QED
  BY <1>1, <1>2, <1>3

(* What a commit does to the rows that were there, and to the new one.     *)
LEMMA CommitRows ==
  ASSUME SessionInv, NEW t \in Txs, Commit(t)
  PROVE  \E n \in Nat :
    /\ Ids = 1..n
    /\ Len(tokens) = n
    /\ \A k \in 1..n :
         /\ DOMAIN tokens'[k] = TokenFields
         /\ tokens'[k].from = tokens[k].from /\ tokens'[k].born = tokens[k].born
         /\ (tokens'[k].revoked <=> tokens[k].revoked \/ k \in Revoked(t))
         /\ tokens'[k].replacedBy =
              IF job[t].kind = "refresh" /\ k = job[t].token THEN n + 1 ELSE tokens[k].replacedBy
    /\ \/ /\ job[t].kind \notin {"login", "refresh"}
          /\ Ids' = 1..n /\ tokens' = [k \in 1..n |-> tokens'[k]]
       \/ /\ job[t].kind \in {"login", "refresh"}
          /\ Ids' = 1..(n + 1) /\ tokens' = [k \in 1..(n + 1) |-> tokens'[k]]
          /\ DOMAIN tokens'[n + 1] = TokenFields
          /\ ~tokens'[n + 1].revoked /\ tokens'[n + 1].replacedBy = 0
          /\ tokens'[n + 1].from = job[t].token /\ tokens'[n + 1].born = started
<1>1. PICK n \in Nat : tokens = [k \in 1..n |-> tokens[k]]
  BY DEF SessionInv, TokenRows
<1>2. Ids = 1..n
  BY <1>1 DEF Ids
<1>3. Len(tokens) = n
  BY <1>1, AsLong
<1> DEFINE Row(k) == [tokens[k] EXCEPT
             !.revoked = @ \/ k \in Revoked(t),
             !.replacedBy = IF job[t].kind = "refresh" /\ k = job[t].token THEN Len(tokens) + 1 ELSE @]
           old == [k \in 1..n |-> Row(k)]
<1>4. tokens' = old \o Issued(t)
  BY <1>2 DEF Commit
<1>5. \A k \in 1..n :
        /\ DOMAIN old[k] = TokenFields
        /\ old[k].from = tokens[k].from /\ old[k].born = tokens[k].born
        /\ (old[k].revoked <=> tokens[k].revoked \/ k \in Revoked(t))
        /\ old[k].replacedBy =
             IF job[t].kind = "refresh" /\ k = job[t].token THEN n + 1 ELSE tokens[k].replacedBy
  <2> SUFFICES ASSUME NEW k \in 1..n
               PROVE  /\ DOMAIN old[k] = TokenFields
                      /\ old[k].from = tokens[k].from /\ old[k].born = tokens[k].born
                      /\ (old[k].revoked <=> tokens[k].revoked \/ k \in Revoked(t))
                      /\ old[k].replacedBy = IF job[t].kind = "refresh" /\ k = job[t].token
                                            THEN n + 1 ELSE tokens[k].replacedBy
    OBVIOUS
  <2> DEFINE b == tokens[k].revoked \/ k \in Revoked(t)
             x == IF job[t].kind = "refresh" /\ k = job[t].token THEN Len(tokens) + 1
                  ELSE tokens[k].replacedBy
  <2>1. DOMAIN tokens[k] = TokenFields
    BY <1>2 DEF SessionInv, TokenRows
  <2>2. old[k] = [tokens[k] EXCEPT !.revoked = b, !.replacedBy = x]
    OBVIOUS
  <2>3. x = IF job[t].kind = "refresh" /\ k = job[t].token THEN n + 1 ELSE tokens[k].replacedBy
    BY <1>3
  <2> HIDE DEF old, b, x
  <2>4. /\ DOMAIN old[k] = TokenFields
        /\ old[k].from = tokens[k].from /\ old[k].born = tokens[k].born
        /\ old[k].revoked = b /\ old[k].replacedBy = x
    BY <2>1, <2>2, Updated
  <2>5. old[k].revoked <=> b
    BY <2>4
  <2>6. b <=> tokens[k].revoked \/ k \in Revoked(t)
    BY DEF b
  <2> QED
    BY <2>3, <2>4, <2>5, <2>6
<1>6. old = [k \in 1..n |-> old[k]]
  OBVIOUS
<1> HIDE DEF old
<1>7. CASE job[t].kind \notin {"login", "refresh"}
  <2>1. tokens' = old
    BY <1>4, <1>6, <1>7, AsLong DEF Issued
  <2>2. Ids' = 1..n
    BY <1>6, <2>1 DEF Ids
  <2> QED
    BY <1>2, <1>3, <1>5, <1>6, <1>7, <2>1, <2>2
<1>8. CASE job[t].kind \in {"login", "refresh"}
  <2> DEFINE new == [revoked |-> FALSE, replacedBy |-> 0, from |-> job[t].token,
                     role |-> copy[t].role, born |-> started]
  <2>1. tokens' = old \o <<new>>
    BY <1>4, <1>8 DEF Issued
  <2>2. /\ DOMAIN new = TokenFields /\ ~new.revoked
        /\ new.from = job[t].token /\ new.born = started /\ new.replacedBy = 0
    BY DEF TokenFields
  <2> HIDE DEF new
  <2>3. /\ tokens' = [k \in 1..(n + 1) |-> tokens'[k]] /\ DOMAIN tokens' = 1..(n + 1)
        /\ tokens'[n + 1] = new /\ \A k \in 1..n : tokens'[k] = old[k]
    BY <1>6, <2>1, Longer
  <2> QED
    BY <1>2, <1>3, <1>5, <1>8, <2>2, <2>3 DEF Ids
<1> QED
  BY <1>7, <1>8

LEMMA CommitKeeps ==
  ASSUME SessionInv, NEW t \in Txs, Commit(t)
  PROVE  SessionInv'
<1>1. PICK n \in Nat :
    /\ Ids = 1..n
    /\ Len(tokens) = n
    /\ \A k \in 1..n :
         /\ DOMAIN tokens'[k] = TokenFields
         /\ tokens'[k].from = tokens[k].from /\ tokens'[k].born = tokens[k].born
         /\ (tokens'[k].revoked <=> tokens[k].revoked \/ k \in Revoked(t))
         /\ tokens'[k].replacedBy =
              IF job[t].kind = "refresh" /\ k = job[t].token THEN n + 1 ELSE tokens[k].replacedBy
    /\ \/ /\ job[t].kind \notin {"login", "refresh"}
          /\ Ids' = 1..n /\ tokens' = [k \in 1..n |-> tokens'[k]]
       \/ /\ job[t].kind \in {"login", "refresh"}
          /\ Ids' = 1..(n + 1) /\ tokens' = [k \in 1..(n + 1) |-> tokens'[k]]
          /\ DOMAIN tokens'[n + 1] = TokenFields
          /\ ~tokens'[n + 1].revoked
          /\ tokens'[n + 1].from = job[t].token /\ tokens'[n + 1].born = started
  BY CommitRows
<1>2. /\ Locking /\ Done(t) /\ pc[t] = "commit" /\ Ticket(t) /\ Reach(t) /\ victims[t] = {}
      /\ started' = started
      /\ swept' = IF sweep[t] > swept THEN sweep[t] ELSE swept
      /\ started \in Nat /\ swept \in Nat /\ swept <= started
      /\ sweep[t] \in Nat /\ sweep[t] <= started
  BY DEF SessionInv, Commit, Sweeping
<1>3. /\ Ids' = 1..n \/ Ids' = 1..(n + 1)
      /\ n + 1 \notin Ids
      /\ n + 1 \in Ids' => /\ DOMAIN tokens'[n + 1] = TokenFields
                           /\ ~tokens'[n + 1].revoked
                           /\ tokens'[n + 1].from = job[t].token
                           /\ tokens'[n + 1].born = started
                           /\ job[t].kind \in {"login", "refresh"}
  BY <1>1
<1>4. job[t].token \in {0} \cup 1..n \/ job[t].kind \notin {"login", "refresh"}
  BY <1>1, <1>2 DEF Ticket
<1>5. TokenRows'
  <2>1. \E m \in Nat : tokens' = [k \in 1..m |-> tokens'[k]]
    BY <1>1
  <2>2. \A k \in Ids : tokens[k].from \in {0} \cup 1..n /\ tokens[k].born \in Nat
    BY <1>1 DEF SessionInv, TokenRows
  <2>3. \A k \in Ids' : DOMAIN tokens'[k] = TokenFields
                        /\ tokens'[k].from \in {0} \cup 1..n /\ tokens'[k].born \in Nat
    <3>1. ASSUME NEW k \in Ids
          PROVE  DOMAIN tokens'[k] = TokenFields
                 /\ tokens'[k].from \in {0} \cup 1..n /\ tokens'[k].born \in Nat
      BY <1>1, <2>2, <3>1
    <3>2. \A k \in Ids' : k \in Ids \/ k = n + 1
      BY <1>1, <1>3
    <3> QED
      BY <1>2, <1>3, <1>4, <3>1, <3>2
  <2> QED
    BY <1>3, <2>1, <2>3 DEF TokenRows
(* The rows another request holds are not among those updated here.        *)
<1>6. Revoked(t) \subseteq held[t]
  BY <1>2 DEF Revoked, Locking, Ticket
<1>7. \A u \in Txs \ {t} : Ticket(u)'
  <2> SUFFICES ASSUME NEW u \in Txs \ {t} PROVE Ticket(u)'
    OBVIOUS
  <2>1. /\ Ticket(u) /\ pc'[u] = pc[u] /\ job'[u] = job[u] /\ held'[u] = held[u]
        /\ held[u] \cap held[t] = {} /\ Ids \subseteq Ids'
    BY <1>1, <1>2, <1>3, DoneClears DEF SessionInv, Locking
  <2>2. job[u].token \in Ids /\ job[u].token \in held[u]
          => (tokens'[job[u].token].revoked <=> tokens[job[u].token].revoked)
    BY <1>1, <1>6, <2>1
  <2> QED
    BY <2>1, <2>2 DEF Ticket
<1>8. Ticket(t)'
  BY <1>2, DoneClears DEF Ticket, NoJob
<1>9. OneSuccessor'
  <2> SUFFICES ASSUME NEW j \in Ids', tokens'[j].from # 0
               PROVE  /\ tokens'[tokens'[j].from].revoked
                      /\ tokens'[tokens'[j].from].replacedBy = j
    BY DEF OneSuccessor
  <2>1. CASE j \in Ids
    <3>1. /\ tokens'[j].from = tokens[j].from /\ tokens[j].from \in 1..n
          /\ tokens[tokens[j].from].revoked /\ tokens[tokens[j].from].replacedBy = j
      <4>1. tokens'[j].from = tokens[j].from /\ tokens[j].from # 0
        BY <1>1, <2>1
      <4>2. tokens[j].from \in {0} \cup Ids
        BY <2>1 DEF SessionInv, TokenRows
      <4> QED
        BY <1>1, <2>1, <4>1, <4>2 DEF SessionInv, OneSuccessor
    <3>2. ~(job[t].kind = "refresh" /\ tokens[j].from = job[t].token)
      BY <1>2, <3>1 DEF Ticket
    <3> QED
      BY <1>1, <3>1, <3>2
  <2>2. CASE j = n + 1
    <3>1. job[t].kind = "refresh" /\ job[t].token \in 1..n /\ tokens'[j].from = job[t].token
      BY <1>1, <1>2, <1>3, <2>2 DEF Ticket
    <3>2. job[t].token \in Revoked(t)
      BY <3>1 DEF Revoked
    <3> QED
      BY <1>1, <2>2, <3>1, <3>2
  <2> QED
    BY <1>1, <1>3, <2>1, <2>2
<1>10. SweepReachesAll'
  <2> SUFFICES ASSUME NEW k \in LiveTokens' PROVE tokens'[k].born >= swept'
    BY DEF SweepReachesAll
  <2>0. k \in Ids' /\ ~tokens'[k].revoked
    BY DEF LiveTokens
  <2>1. CASE k \in Ids
    <3>1. k \in LiveTokens /\ k \notin hit[t] /\ tokens'[k].born = tokens[k].born
      BY <1>1, <2>0, <2>1 DEF LiveTokens, Revoked
    <3>2. tokens[k].born \in Nat /\ tokens[k].born >= swept
      BY <2>1, <3>1 DEF SessionInv, TokenRows, SweepReachesAll
    <3>3. ~(tokens[k].born < sweep[t])
      BY <1>2, <3>1 DEF Reach
    <3> QED
      BY <1>2, <3>1, <3>2, <3>3
  <2>2. CASE k = n + 1
    BY <1>2, <1>3, <2>0, <2>2
  <2> QED
    BY <1>1, <1>3, <2>0, <2>1, <2>2
<1>11. \A u \in Txs : Reach(u)'
  <2> SUFFICES ASSUME NEW u \in Txs, NEW k \in LiveTokens', tokens'[k].born < sweep'[u]
               PROVE  k \in victims'[u] \cup hit'[u]
    BY DEF Reach
  <2>0. k \in Ids' /\ ~tokens'[k].revoked /\ tokens'[k].born \in Nat
    BY <1>5 DEF LiveTokens, TokenRows
  <2>1. u # t
    BY <1>2, <2>0, DoneClears
  <2>2. /\ sweep'[u] = sweep[u] /\ victims'[u] = victims[u] /\ hit'[u] = hit[u]
        /\ sweep[u] \in Nat /\ sweep[u] <= started /\ Reach(u)
    BY <1>2, <2>1, DoneClears DEF SessionInv, Sweeping
  <2>3. k \in Ids
    BY <1>1, <1>2, <1>3, <2>0, <2>2
  <2>4. k \in LiveTokens /\ tokens'[k].born = tokens[k].born
    BY <1>1, <2>0, <2>3 DEF LiveTokens
  <2> QED
    BY <2>2, <2>4 DEF Reach
<1>12. Sweeping'
  <2>1. swept' \in Nat /\ swept' <= started'
    BY <1>2
  <2>2. \A u \in Txs : sweep'[u] \in Nat /\ sweep'[u] <= started'
                       /\ (pc'[u] # "sweeping" => victims'[u] = {})
    BY <1>2, DoneClears DEF SessionInv, Sweeping
  <2> QED
    BY <1>2, <1>11, <2>1, <2>2 DEF Sweeping
<1> QED
  BY <1>2, <1>5, <1>7, <1>8, <1>9, <1>10, <1>12, DoneLocking DEF SessionInv
-----------------------------------------------------------------------------
LEMMA SessionStep == SessionInv /\ [Next]_vars => SessionInv'
<1> SUFFICES ASSUME SessionInv, [Next]_vars PROVE SessionInv'
  OBVIOUS
<1>1. ASSUME NEW t \in Txs, Arrives(t) PROVE SessionInv'
  BY <1>1, ArrivesKeeps
<1>2. ASSUME NEW t \in Txs, Proceeds(t) PROVE SessionInv'
  BY <1>2, LockTokenKeeps, CheckUserKeeps, StartSweepKeeps, SweepRowKeeps, SweepEndsKeeps,
     WriteUserKeeps, CommitKeeps DEF Proceeds
<1>3. ASSUME NEW t \in Txs, Rollback(t) PROVE SessionInv'
  BY <1>3, RollbackKeeps
<1>4. CASE LockoutEnds \/ UNCHANGED vars
  <2>1. /\ tokens' = tokens /\ held' = held /\ pc' = pc /\ job' = job /\ victims' = victims
        /\ hit' = hit /\ started' = started /\ sweep' = sweep /\ swept' = swept
    BY <1>4 DEF LockoutEnds, vars, work
  <2>2. Locking' /\ \A t \in Txs : Ticket(t)'
    BY <2>1, SameTokens DEF SessionInv, Locking, Ticket
  <2>3. Sweeping'
    BY <2>1, SameTokens DEF SessionInv, Sweeping, Reach
  <2> QED
    BY <2>1, <2>2, <2>3, SameTokens DEF SessionInv
<1> QED
  BY <1>1, <1>2, <1>3, <1>4 DEF Next

THEOREM SessionInvariant == Spec => []SessionInv
BY SessionInit, SessionStep, PTL DEF Spec

(* A refresh token is exchanged at most once (repository.py, get_by_token),*)
(* whatever overlaps.                                                      *)
THEOREM OneSuccessorAlways == Spec => []OneSuccessor
<1>1. SessionInv => OneSuccessor
  BY DEF SessionInv
<1> QED
  BY <1>1, SessionInvariant, PTL

(* A committed revocation has ended every session committed before its     *)
(* statement started (repository.py, revoke_all).                          *)
THEOREM SweepReachesAllAlways == Spec => []SweepReachesAll
<1>1. SessionInv => SweepReachesAll
  BY DEF SessionInv
<1> QED
  BY <1>1, SessionInvariant, PTL
-----------------------------------------------------------------------------
(* The account.  What a request is about to write fits the columns, and    *)
(* only password checks write the counter.                                 *)
UserFields == {"role", "status", "deleted", "failed", "locked", "password"}

Fits(f) ==
  /\ DOMAIN f \subseteq UserFields
  /\ "role" \in DOMAIN f => f["role"] \in Roles
  /\ "status" \in DOMAIN f => f["status"] \in Status
  /\ "deleted" \in DOMAIN f => f["deleted"] \in BOOLEAN
  /\ "failed" \in DOMAIN f => f["failed"] \in 0..MaxFailed - 1
  /\ "locked" \in DOMAIN f => f["locked"] \in BOOLEAN
  /\ "password" \in DOMAIN f => f["password"] \in 0..1

Columns ==
  /\ user \in Users /\ copy \in [Txs -> Users]
  /\ userLock \in Txs \cup {Nobody}
  /\ \A t \in Txs : Fits(job[t].set)

(* A password check writes the account last, and then holds its row unless *)
(* it has nothing to write.                                                *)
Checks(t) ==
  /\ ~Password(t) => "failed" \notin DOMAIN job[t].set
  /\ Password(t) => pc[t] \in {"user", "commit"}
  /\ Password(t) /\ pc[t] = "commit" => userLock = t \/ DOMAIN job[t].set = {}

(* One that met no other read the count that is still there, and will      *)
(* write the next.                                                         *)
Outcome(t) == IF "failed" \in DOMAIN job[t].set THEN job[t].set["failed"] ELSE user.failed

CountsOn(t) ==
  /\ Password(t) /\ OtherLogins(t) = {}
  /\ job[t].kind = "login" => Outcome(t) = 0
  /\ job[t].kind = "wrong" =>
       IF "locked" \in DOMAIN job[t].set THEN Outcome(t) = 0
       ELSE Outcome(t) = user.failed + 1 /\ user.failed + 1 < MaxFailed

Tokens ==
  /\ \A k \in Ids : /\ tokens[k].from \in 0..k - 1
                    /\ tokens[k].replacedBy \in {0} \cup k + 1..Len(tokens)
  /\ \A t \in Txs : victims[t] \cup hit[t] \cup held[t] \subseteq Ids

AccountInv ==
  /\ Columns /\ Tokens
  /\ wrong \in Nat /\ DOMAIN alone = Txs
  /\ \A t \in Txs : Checks(t) /\ (alone[t] => CountsOn(t))
  /\ LockoutCounts
-----------------------------------------------------------------------------
LEMMA UserRow ==
  ASSUME NEW r
  PROVE  r \in Users <=> /\ r = [c \in UserFields |-> r[c]]
                         /\ r.role \in Roles /\ r.status \in Status /\ r.deleted \in BOOLEAN
                         /\ r.failed \in 0..MaxFailed - 1 /\ r.locked \in BOOLEAN
                         /\ r.password \in 0..1
  BY DEF Users, UserFields

LEMMA WithFits ==
  ASSUME NEW r \in Users, NEW f, Fits(f)
  PROVE  /\ With(r, f) \in Users
         /\ With(r, f).failed = IF "failed" \in DOMAIN f THEN f["failed"] ELSE r.failed
<1> DEFINE w == With(r, f)
<1>1. /\ DOMAIN r = UserFields
      /\ r.role \in Roles /\ r.status \in Status /\ r.deleted \in BOOLEAN
      /\ r.failed \in 0..MaxFailed - 1 /\ r.locked \in BOOLEAN /\ r.password \in 0..1
  BY UserRow
<1>2. w = [c \in UserFields |-> IF c \in DOMAIN f THEN f[c] ELSE r[c]]
  BY <1>1 DEF With
<1>3. w = [c \in UserFields |-> w[c]]
  BY <1>2
<1>4. \A c \in UserFields : w[c] = IF c \in DOMAIN f THEN f[c] ELSE r[c]
  BY <1>2
<1> HIDE DEF w
<1>5. /\ w.role \in Roles /\ w.status \in Status /\ w.deleted \in BOOLEAN
      /\ w.failed \in 0..MaxFailed - 1 /\ w.locked \in BOOLEAN /\ w.password \in 0..1
  BY <1>1, <1>4 DEF Fits, UserFields
<1>6. w \in Users
  BY <1>3, <1>5, UserRow
<1>7. w.failed = IF "failed" \in DOMAIN f THEN f["failed"] ELSE r.failed
  BY <1>4 DEF UserFields
<1> QED
  BY <1>6, <1>7 DEF w

LEMMA NetFits ==
  ASSUME NEW r, NEW f, Fits(f)
  PROVE  /\ Fits(Net(r, f)) /\ DOMAIN Net(r, f) = {c \in DOMAIN f : f[c] # r[c]}
         /\ \A c \in DOMAIN Net(r, f) : Net(r, f)[c] = f[c]
<1>1. /\ DOMAIN Net(r, f) = {c \in DOMAIN f : f[c] # r[c]}
      /\ \A c \in DOMAIN Net(r, f) : Net(r, f)[c] = f[c]
  BY DEF Net
<1> QED
  BY <1>1 DEF Fits

LEMMA NothingFits == Fits(Nothing) /\ DOMAIN Nothing = {} /\ \A r : DOMAIN Net(r, Nothing) = {}
  BY DEF Fits, Nothing, Net

LEMMA NoCopyTyped == Roles # {} => NoCopy \in Users
  BY FailuresPositive DEF NoCopy, Users, Status

LEMMA AccountInit == Init => AccountInv
<1> SUFFICES ASSUME Init PROVE AccountInv
  OBVIOUS
<1>1. user \in Users /\ user.failed = 0 /\ Roles # {}
  <2>1. PICK r \in Roles, s \in {"active", "suspended"} :
          user = [NoCopy EXCEPT !.role = r, !.status = s]
    BY DEF Init
  <2>2. NoCopy \in Users /\ NoCopy.failed = 0
    BY NoCopyTyped DEF NoCopy
  <2> QED
    BY <2>1, <2>2 DEF Users, Status
<1>2. \A t \in Txs : job[t] = NoJob /\ copy[t] = NoCopy
  BY DEF Init
<1>3. copy \in [Txs -> Users]
  BY <1>1, NoCopyTyped DEF Init
<1>4. Columns
  BY <1>1, <1>2, <1>3, NothingFits DEF Init, Columns, NoJob
<1>5. tokens \in Seq({}) /\ Len(tokens) = 0
  <2>1. <<>> \in Seq({}) /\ Len(<<>>) = 0
    OBVIOUS
  <2> QED
    BY <2>1 DEF Init
<1>6. Ids = {}
  BY <1>5 DEF Ids
<1>7. Tokens
  BY <1>6 DEF Init, Tokens
<1>8. \A t \in Txs : Checks(t) /\ ~alone[t]
  BY <1>2, NothingFits DEF Init, Checks, Password, NoJob
<1>9. wrong \in Nat /\ DOMAIN alone = Txs /\ LockoutCounts
  <2>1. wrong = 0 /\ DOMAIN alone = Txs
    BY DEF Init
  <2> QED
    BY <1>1, <2>1, FailuresPositive DEF LockoutCounts
<1> QED
  BY <1>4, <1>7, <1>8, <1>9 DEF AccountInv
-----------------------------------------------------------------------------
(* What a request has to show of the values it is to write.                *)
Writes(kind, set) ==
  /\ Fits(set)
  /\ kind \notin {"login", "wrong"} => "failed" \notin DOMAIN set
  /\ kind = "login" => "failed" \in DOMAIN set /\ set["failed"] = 0
  /\ kind = "wrong" =>
       /\ ~user.locked /\ "failed" \in DOMAIN set
       /\ \/ /\ "locked" \in DOMAIN set /\ set["locked"] = TRUE /\ set["failed"] = 0
          \/ /\ "locked" \notin DOMAIN set /\ set["failed"] = user.failed + 1
             /\ user.failed + 1 < MaxFailed

LEMMA BeginCounts ==
  ASSUME SessionInv, AccountInv, NEW t \in Txs, NEW kind, NEW token, NEW set, NEW at,
         Begin(t, kind, token, set, at), Writes(kind, set),
         kind \in {"login", "wrong"} => at = "user"
  PROVE  AccountInv'
<1> DEFINE net == Net(user, set)
<1>1. /\ job' = [job EXCEPT ![t] = [kind |-> kind, token |-> token, set |-> net]]
      /\ copy' = [copy EXCEPT ![t] = user] /\ pc' = [pc EXCEPT ![t] = at]
      /\ alone' = [u \in Txs |-> IF kind \notin {"login", "wrong"} THEN alone[u]
                                 ELSE u = t /\ OtherLogins(t) = {}]
      /\ UNCHANGED <<user, tokens, userLock, held, victims, hit, wrong, mixed>>
      /\ pc[t] = "idle"
  BY DEF Begin
<1>2. /\ job'[t].kind = kind /\ job'[t].set = net /\ pc'[t] = at
      /\ \A u \in Txs \ {t} : job'[u] = job[u] /\ pc'[u] = pc[u]
  BY <1>1 DEF SessionInv, Locking
<1>3. /\ Fits(net) /\ DOMAIN net = {c \in DOMAIN set : set[c] # user[c]}
      /\ \A c \in DOMAIN net : net[c] = set[c]
  BY NetFits DEF Writes
<1>4. Columns'
  BY <1>1, <1>2, <1>3 DEF AccountInv, Columns
<1>5. Tokens'
  BY <1>1 DEF AccountInv, Tokens, Ids
<1>6. LockoutCounts' /\ wrong' \in Nat /\ DOMAIN alone' = Txs
  BY <1>1 DEF AccountInv, LockoutCounts
<1>7. ~Password(t)
  BY <1>1 DEF AccountInv, Checks
<1>8. ASSUME NEW u \in Txs PROVE Checks(u)'
  <2>1. CASE u = t
    BY <1>1, <1>2, <1>3, <2>1 DEF Checks, Password, Writes
  <2>2. CASE u # t
    BY <1>1, <1>2, <2>2 DEF AccountInv, Checks, Password
  <2> QED
    BY <2>1, <2>2
<1>9. ASSUME NEW u \in Txs, alone'[u] PROVE CountsOn(u)'
  <2>1. CASE kind \notin {"login", "wrong"}
    <3>1. ~Password(t)'
      BY <1>2, <2>1 DEF Password
    <3>2. \A v \in Txs : Password(v)' <=> Password(v)
      BY <1>2, <1>7, <3>1 DEF Password
    <3>3. alone[u] /\ CountsOn(u) /\ u # t
      BY <1>1, <1>7, <1>9, <2>1 DEF AccountInv, CountsOn
    <3>4. OtherLogins(u)' = {} /\ Outcome(u)' = Outcome(u) /\ job'[u] = job[u]
      BY <1>1, <1>2, <3>2, <3>3 DEF OtherLogins, Outcome, CountsOn
    <3> QED
      BY <1>1, <3>2, <3>3, <3>4 DEF CountsOn
  <2>2. CASE kind \in {"login", "wrong"}
    <3>1. u = t /\ OtherLogins(t) = {}
      BY <1>1, <1>9, <2>2
    <3>2. OtherLogins(t)' = {}
      BY <1>2, <3>1 DEF OtherLogins, Password
    <3>3. Password(t)'
      BY <1>2, <2>2 DEF Password
    <3>4. Outcome(t)' = set["failed"]
      BY <1>1, <1>2, <1>3, <2>2 DEF Outcome, Writes
    <3>5. kind = "wrong" => ("locked" \in DOMAIN net <=> "locked" \in DOMAIN set)
      BY <1>3 DEF Writes
    <3> QED
      BY <1>1, <1>2, <2>2, <3>1, <3>2, <3>3, <3>4, <3>5 DEF CountsOn, Writes
  <2> QED
    BY <2>1, <2>2
<1> QED
  BY <1>4, <1>5, <1>6, <1>8, <1>9 DEF AccountInv

LEMMA ArrivesCounts ==
  ASSUME SessionInv, AccountInv, NEW t \in Txs, Arrives(t)
  PROVE  AccountInv'
<1>0. user \in Users /\ user.failed \in 0..MaxFailed - 1 /\ MaxFailed \in Nat \ {0}
      /\ user.password \in 0..1 /\ user.locked \in BOOLEAN
  BY FailuresPositive DEF AccountInv, Columns, Users
<1>1. CASE BeginLogin(t)
  <2> DEFINE set == [failed |-> 0, locked |-> FALSE]
  <2>1. Writes("login", set)
    BY <1>0 DEF Writes, Fits, UserFields
  <2> HIDE DEF set
  <2>2. Begin(t, "login", 0, set, "user")
    BY <1>1 DEF BeginLogin, set
  <2> QED
    BY <2>1, <2>2, BeginCounts
<1>2. CASE BeginWrong(t)
  <2>1. Writes("wrong", Failed(user))
    <3>1. CASE user.failed + 1 >= MaxFailed
      <4>1. Failed(user) = [failed |-> 0, locked |-> TRUE]
        BY <3>1 DEF Failed
      <4> QED
        BY <1>0, <1>2, <4>1 DEF Writes, Fits, UserFields, BeginWrong
    <3>2. CASE ~(user.failed + 1 >= MaxFailed)
      <4>1. Failed(user) = [failed |-> user.failed + 1]
        BY <3>2 DEF Failed
      <4> QED
        BY <1>0, <1>2, <3>2, <4>1 DEF Writes, Fits, UserFields, BeginWrong
    <3> QED
      BY <3>1, <3>2
  <2> QED
    BY <1>2, <2>1, BeginCounts DEF BeginWrong
<1>3. \A kind : kind \notin {"login", "wrong"} => Writes(kind, Nothing)
  BY NothingFits DEF Writes
<1>4. CASE BeginRefresh(t)
  BY <1>3, <1>4, BeginCounts DEF BeginRefresh
<1>5. CASE BeginLogout(t)
  BY <1>3, <1>5, BeginCounts DEF BeginLogout
<1>6. CASE BeginLogoutAll(t) \/ BeginScope(t)
  BY <1>3, <1>6, BeginCounts DEF BeginLogoutAll, BeginScope
<1>7. CASE BeginChangePassword(t)
  <2> DEFINE set == [password |-> 1 - user.password]
  <2>1. Writes("password", set)
    BY <1>0 DEF Writes, Fits, UserFields
  <2> HIDE DEF set
  <2>2. Begin(t, "password", 0, set, "sweep")
    BY <1>7 DEF BeginChangePassword, set
  <2> QED
    BY <2>1, <2>2, BeginCounts
<1>8. CASE BeginChangeRole(t)
  <2>1. PICK r \in Roles : Begin(t, "role", 0, [role |-> r], "sweep")
    BY <1>8 DEF BeginChangeRole
  <2>2. Writes("role", [role |-> r])
    BY DEF Writes, Fits, UserFields
  <2> QED
    BY <2>1, <2>2, BeginCounts
<1>9. CASE BeginChangeStatus(t)
  <2>1. Writes("suspend", [status |-> "suspended"]) /\ Writes("activate", [status |-> "active"])
    BY DEF Writes, Fits, UserFields, Status
  <2> QED
    BY <1>9, <2>1, BeginCounts DEF BeginChangeStatus
<1>10. CASE BeginDelete(t)
  <2> DEFINE set == [status |-> "deactivated", deleted |-> TRUE]
  <2>1. Writes("delete", set)
    BY DEF Writes, Fits, UserFields, Status
  <2> HIDE DEF set
  <2>2. Begin(t, "delete", 0, set, "sweep")
    BY <1>10 DEF BeginDelete, set
  <2> QED
    BY <2>1, <2>2, BeginCounts
<1>11. CASE BeginRestore(t)
  <2> DEFINE set == [status |-> "active", deleted |-> FALSE]
  <2>1. Writes("restore", set)
    BY DEF Writes, Fits, UserFields, Status
  <2> HIDE DEF set
  <2>2. Begin(t, "restore", 0, set, "user")
    BY <1>11 DEF BeginRestore, set
  <2> QED
    BY <2>1, <2>2, BeginCounts
<1> QED
  BY <1>1, <1>2, <1>4, <1>5, <1>6, <1>7, <1>8, <1>9, <1>10, <1>11 DEF Arrives

Below == {ss \in Nat \X Nat : ss[1] < ss[2]}

LEMMA LowestIn ==
  ASSUME NEW S, S \subseteq Nat, S # {}
  PROVE  Lowest(S) \in S
<1>1. IsWellFoundedOn(Below, Nat)
  BY NatLessThanWellFounded DEF OpToRel, Below
<1>2. PICK k \in S : \A j \in S : ~ (<<j, k>> \in Below)
  BY <1>1, WFMin
<1>3. \A j \in S : k \in Nat /\ j \in Nat /\ ~ (j < k)
  <2> SUFFICES ASSUME NEW j \in S PROVE k \in Nat /\ j \in Nat /\ ~ (j < k)
    OBVIOUS
  <2>1. k \in Nat /\ j \in Nat
    OBVIOUS
  <2> QED
    BY <1>2, <2>1 DEF Below
<1>4. \A j \in S : k <= j
  BY <1>3
<1> QED
  BY <1>4 DEF Lowest

(* Another request moves on or ends: what t is about to count is the same. *)
LEMMA CountsStay ==
  ASSUME NEW t \in Txs, CountsOn(t), job'[t] = job[t], user'.failed = user.failed,
         \A u \in Txs : Password(u)' => Password(u)
  PROVE  CountsOn(t)'
<1>1. Password(t)' /\ OtherLogins(t)' = {} /\ Outcome(t)' = Outcome(t)
  BY DEF CountsOn, Password, OtherLogins, Outcome
<1> QED
  BY <1>1 DEF CountsOn

LEMMA StepCounts ==
  ASSUME SessionInv, AccountInv, NEW t \in Txs,
         LockToken(t) \/ CheckUser(t) \/ StartSweep(t) \/ SweepRow(t) \/ SweepEnds(t) \/ WriteUser(t)
  PROVE  AccountInv'
<1>1. /\ UNCHANGED <<user, tokens, wrong, mixed, alone>>
      /\ \A u \in Txs \ {t} : job'[u] = job[u] /\ pc'[u] = pc[u]
      /\ job'[t].set = job[t].set
      /\ Password(t)' <=> Password(t)
      /\ Password(t) => job'[t] = job[t]
  <2>1. CASE LockToken(t)
    <3>1. job[t].kind \in {"refresh", "logout"} /\ pc[t] = "token"
      BY <2>1 DEF LockToken, SessionInv, Ticket
    <3>2. /\ job' = [job EXCEPT ![t].kind = IF pc'[t] = "sweep" THEN "replay" ELSE job[t].kind]
          /\ DOMAIN job = Txs /\ DOMAIN job[t] = {"kind", "token", "set"}
          /\ \A u \in Txs \ {t} : pc'[u] = pc[u]
      BY <2>1 DEF LockToken, Goto, SessionInv, Locking
    <3>3. /\ job'[t].kind = IF pc'[t] = "sweep" THEN "replay" ELSE job[t].kind
          /\ job'[t].set = job[t].set /\ \A u \in Txs \ {t} : job'[u] = job[u]
      BY <3>2
    <3> QED
      BY <2>1, <3>1, <3>2, <3>3 DEF LockToken, Rest, Password
  <2>2. CASE CheckUser(t) \/ StartSweep(t) \/ SweepRow(t) \/ SweepEnds(t) \/ WriteUser(t)
    BY <2>2 DEF CheckUser, StartSweep, SweepRow, SweepEnds, WriteUser, Goto, Rest, Password,
                SessionInv, Locking
  <2> QED
    BY <2>1, <2>2
<1>2. \A u \in Txs : job'[u].set = job[u].set /\ (Password(u)' <=> Password(u))
  BY <1>1 DEF Password
<1>3. /\ userLock' = userLock \/ (WriteUser(t) /\ userLock = Nobody /\ userLock' = t)
      /\ copy' = copy \/ copy' = [copy EXCEPT ![t] = user]
  BY DEF LockToken, CheckUser, StartSweep, SweepRow, SweepEnds, WriteUser
<1>4. Columns'
  BY <1>1, <1>2, <1>3 DEF AccountInv, Columns
<1>5. LockoutCounts' /\ wrong' \in Nat /\ DOMAIN alone' = Txs
  BY <1>1 DEF AccountInv, LockoutCounts
<1>6. ASSUME NEW u \in Txs PROVE Checks(u)'
  <2>1. CASE u # t
    BY <1>1, <1>2, <1>3, <2>1, NobodyFresh DEF AccountInv, Checks
  <2>2. CASE u = t /\ ~Password(t)
    BY <1>2, <2>2 DEF AccountInv, Checks
  <2>3. CASE u = t /\ Password(t)
    <3>1. pc[t] \in {"user", "commit"}
      BY <2>3 DEF AccountInv, Checks
    <3>2. WriteUser(t)
      BY <3>1 DEF LockToken, CheckUser, StartSweep, SweepRow, SweepEnds
    <3>3. pc'[t] = "commit" /\ (DOMAIN job[t].set = {} \/ userLock' = t)
      BY <3>2 DEF WriteUser, Goto, SessionInv, Locking
    <3> QED
      BY <1>2, <2>3, <3>3 DEF Checks
  <2> QED
    BY <2>1, <2>2, <2>3
<1>7. ASSUME NEW u \in Txs, alone'[u] PROVE CountsOn(u)'
  <2>1. CountsOn(u)
    BY <1>1, <1>7 DEF AccountInv
  <2>2. job'[u] = job[u]
    BY <1>1, <2>1 DEF CountsOn
  <2> QED
    BY <1>1, <1>2, <2>1, <2>2, CountsStay
<1>8. Tokens'
  <2>1. \A u \in Txs : victims'[u] \cup hit'[u] \cup held'[u] \subseteq Ids
    <3>1. CASE LockToken(t)
      BY <3>1 DEF LockToken, SessionInv, Ticket, Locking, AccountInv, Tokens
    <3>2. CASE CheckUser(t) \/ SweepEnds(t) \/ WriteUser(t)
      BY <3>2 DEF CheckUser, SweepEnds, WriteUser, AccountInv, Tokens
    <3>3. CASE StartSweep(t)
      BY <3>3 DEF StartSweep, AccountInv, Tokens, LiveTokens, SessionInv, Locking
    <3>4. CASE SweepRow(t)
      <4> DEFINE k == Lowest(victims[t])
      <4>1. k \in Ids
        <5>1. victims[t] # {} /\ victims[t] \subseteq Ids
          BY <3>4 DEF SweepRow, AccountInv, Tokens
        <5>2. Ids \subseteq Nat
          BY DEF SessionInv, TokenRows, Ids
        <5> QED
          BY <5>1, <5>2, LowestIn
      <4> HIDE DEF k
      <4>2. /\ victims' = [victims EXCEPT ![t] = victims[t] \ {k}]
            /\ \/ held' = held /\ hit' = hit
               \/ /\ held' = [held EXCEPT ![t] = held[t] \cup {k}]
                  /\ hit' = [hit EXCEPT ![t] = hit[t] \cup {k}]
        BY <3>4 DEF SweepRow, k
      <4> QED
        BY <4>1, <4>2 DEF AccountInv, Tokens, SessionInv, Locking
    <3> QED
      BY <3>1, <3>2, <3>3, <3>4
  <2> QED
    BY <1>1, <2>1 DEF AccountInv, Tokens, Ids
<1> QED
  BY <1>4, <1>5, <1>6, <1>7, <1>8 DEF AccountInv

(* A request that ends, having changed at most the row and the tokens.     *)
LEMMA EndCounts ==
  ASSUME SessionInv, AccountInv, NEW t \in Txs, Done(t),
         user' \in Users, Tokens', LockoutCounts', wrong' \in Nat,
         user'.failed = user.failed \/ Password(t)
  PROVE  AccountInv'
<1>1. /\ \A u \in Txs \ {t} : job'[u] = job[u] /\ pc'[u] = pc[u]
      /\ job'[t] = NoJob /\ pc'[t] = "idle"
  BY DoneClears DEF SessionInv
<1>2. ~Password(t)' /\ DOMAIN NoJob.set = {} /\ Fits(NoJob.set)
  BY <1>1, NothingFits DEF Password, NoJob
<1>3. /\ userLock' = IF userLock = t THEN Nobody ELSE userLock
      /\ copy' = [copy EXCEPT ![t] = NoCopy] /\ alone' = [alone EXCEPT ![t] = FALSE]
  BY DEF Done, Release
<1>4. NoCopy \in Users
  <2>1. user \in Users
    BY DEF AccountInv, Columns
  <2>2. Roles # {}
    BY <2>1 DEF Users
  <2> QED
    BY <2>2, NoCopyTyped
<1>5. Columns'
  <2>1. copy' \in [Txs -> Users] /\ userLock' \in Txs \cup {Nobody}
    BY <1>3, <1>4 DEF AccountInv, Columns
  <2>2. \A u \in Txs : Fits(job'[u].set)
    BY <1>1, <1>2 DEF AccountInv, Columns
  <2> QED
    BY <2>1, <2>2 DEF Columns
<1>6. ASSUME NEW u \in Txs PROVE Checks(u)'
  <2>1. CASE u = t
    BY <1>1, <1>2, <2>1 DEF Checks
  <2>2. CASE u # t
    <3>1. Checks(u) /\ job'[u] = job[u] /\ pc'[u] = pc[u] /\ (userLock = u => userLock' = u)
      BY <1>1, <1>3, <2>2 DEF AccountInv
    <3> QED
      BY <3>1 DEF Checks, Password
  <2> QED
    BY <2>1, <2>2
<1>7. ASSUME NEW u \in Txs, alone'[u] PROVE CountsOn(u)'
  <2>1. u # t /\ CountsOn(u)
    BY <1>3, <1>7 DEF AccountInv
  <2>2. ~Password(t)
    BY <2>1 DEF CountsOn, OtherLogins
  <2>3. \A v \in Txs : Password(v)' => Password(v)
    BY <1>1, <1>2 DEF Password
  <2> QED
    BY <1>1, <2>1, <2>2, <2>3, CountsStay
<1>8. DOMAIN alone' = Txs
  BY <1>3 DEF AccountInv
<1> QED
  BY <1>5, <1>6, <1>7, <1>8 DEF AccountInv

LEMMA RollbackCounts ==
  ASSUME SessionInv, AccountInv, NEW t \in Txs, Rollback(t)
  PROVE  AccountInv'
<1>1. Done(t) /\ UNCHANGED <<user, tokens, wrong, mixed>>
  BY DEF Rollback
<1>2. user' \in Users /\ LockoutCounts' /\ wrong' \in Nat /\ user'.failed = user.failed
  BY <1>1 DEF AccountInv, Columns, LockoutCounts
<1>3. Tokens'
  BY <1>1, DoneClears DEF AccountInv, Tokens, Ids, SessionInv
<1> QED
  BY <1>1, <1>2, <1>3, EndCounts

LEMMA CommitCounts ==
  ASSUME SessionInv, AccountInv, NEW t \in Txs, Commit(t)
  PROVE  AccountInv'
<1>1. /\ pc[t] = "commit" /\ Done(t)
      /\ user' = IF userLock = t THEN With(user, job[t].set) ELSE user
      /\ wrong' = CASE job[t].kind = "login" -> 0
                    [] job[t].kind = "wrong" -> IF "locked" \in DOMAIN job[t].set THEN 0 ELSE wrong + 1
                    [] OTHER -> wrong
      /\ mixed' = IF ~Password(t) THEN mixed ELSE ~alone[t] \/ (mixed /\ wrong' # 0)
  BY DEF Commit
<1>2. /\ user \in Users /\ Fits(job[t].set) /\ Checks(t) /\ wrong \in Nat
      /\ LockoutCounts /\ (alone[t] => CountsOn(t))
  BY DEF AccountInv, Columns
<1>3. user' \in Users
  BY <1>1, <1>2, WithFits
<1>4. Password(t) => user'.failed = Outcome(t)
  BY <1>1, <1>2, WithFits DEF Checks, Outcome
<1>5. ~Password(t) => user'.failed = user.failed
  BY <1>1, <1>2, WithFits DEF Checks
<1>6. wrong' \in Nat
  BY <1>1, <1>2
<1>7. LockoutCounts'
  <2>1. CASE ~Password(t)
    BY <1>1, <1>2, <1>5, <2>1 DEF LockoutCounts, Password
  <2>2. CASE Password(t)
    <3> SUFFICES ASSUME ~mixed' PROVE user'.failed = wrong' /\ wrong' < MaxFailed
      BY DEF LockoutCounts
    <3>1. alone[t] /\ CountsOn(t) /\ (~mixed \/ wrong' = 0)
      BY <1>1, <1>2, <2>2
    <3>2. CASE wrong' = 0
      <4>1. Outcome(t) = 0
        BY <1>1, <1>2, <2>2, <3>1, <3>2 DEF CountsOn, Password
      <4> QED
        BY <1>4, <2>2, <3>2, <4>1, FailuresPositive
    <3>3. CASE wrong' # 0
      <4>1. job[t].kind = "wrong" /\ "locked" \notin DOMAIN job[t].set /\ wrong' = wrong + 1
        BY <1>1, <2>2, <3>3 DEF Password
      <4>2. Outcome(t) = user.failed + 1 /\ user.failed + 1 < MaxFailed
        BY <3>1, <4>1 DEF CountsOn
      <4>3. user.failed = wrong
        BY <1>2, <3>1, <3>3 DEF LockoutCounts
      <4> QED
        BY <1>4, <2>2, <4>1, <4>2, <4>3
    <3> QED
      BY <3>2, <3>3
  <2> QED
    BY <2>1, <2>2
<1>8. Tokens'
  <2>1. PICK n \in Nat :
          /\ Ids = 1..n /\ Len(tokens) = n
          /\ \A k \in 1..n :
               /\ tokens'[k].from = tokens[k].from
               /\ tokens'[k].replacedBy =
                    IF job[t].kind = "refresh" /\ k = job[t].token THEN n + 1 ELSE tokens[k].replacedBy
          /\ \/ /\ job[t].kind \notin {"login", "refresh"}
                /\ Ids' = 1..n /\ tokens' = [k \in 1..n |-> tokens'[k]]
             \/ /\ Ids' = 1..(n + 1) /\ tokens' = [k \in 1..(n + 1) |-> tokens'[k]]
                /\ tokens'[n + 1].from = job[t].token
                /\ tokens'[n + 1].replacedBy = 0
                /\ job[t].kind \in {"login", "refresh"}
    BY CommitRows
  <2>2. job[t].kind \in {"login", "refresh"} => job[t].token \in 0..n
    BY <1>1, <2>1 DEF SessionInv, Ticket
  <2>3. \/ Len(tokens') = n /\ Ids' = 1..n /\ job[t].kind # "refresh"
        \/ Len(tokens') = n + 1 /\ Ids' = 1..(n + 1)
    BY <2>1, AsLong
  <2>4. ASSUME NEW k \in Ids'
        PROVE  tokens'[k].from \in 0..k - 1 /\ tokens'[k].replacedBy \in {0} \cup k + 1..Len(tokens')
    <3>1. CASE k \in 1..n
      <4>1. tokens[k].from \in 0..k - 1 /\ tokens[k].replacedBy \in {0} \cup k + 1..n
        BY <2>1, <3>1 DEF AccountInv, Tokens
      <4> QED
        BY <2>1, <2>3, <3>1, <4>1
    <3>2. CASE k \notin 1..n
      <4>1. k = n + 1
        BY <2>3, <3>2
      <4> QED
        BY <2>1, <2>2, <3>2, <4>1
    <3> QED
      BY <3>1, <3>2
  <2>5. Ids \subseteq Ids'
    BY <2>1, <2>3
  <2>6. \A u \in Txs : victims'[u] \cup hit'[u] \cup held'[u] \subseteq Ids'
    BY <1>1, <2>5, DoneClears DEF AccountInv, Tokens, SessionInv
  <2> QED
    BY <2>4, <2>6 DEF Tokens
<1> QED
  BY <1>1, <1>3, <1>5, <1>6, <1>7, <1>8, EndCounts

LEMMA AccountStep == SessionInv /\ AccountInv /\ [Next]_vars => AccountInv'
<1> SUFFICES ASSUME SessionInv, AccountInv, [Next]_vars PROVE AccountInv'
  OBVIOUS
<1>1. CASE LockoutEnds \/ UNCHANGED vars
  <2>1. /\ UNCHANGED <<tokens, userLock, held, pc, job, copy, victims, hit, alone, wrong, mixed>>
        /\ user' = user \/ user' = [user EXCEPT !.locked = FALSE]
    BY <1>1 DEF LockoutEnds, vars, work
  <2>2. user' \in Users /\ user'.failed = user.failed
    BY <2>1 DEF AccountInv, Columns, Users
  <2>3. Columns' /\ Tokens' /\ LockoutCounts' /\ wrong' \in Nat /\ DOMAIN alone' = Txs
    BY <2>1, <2>2 DEF AccountInv, Columns, Tokens, LockoutCounts, Ids
  <2>4. \A t \in Txs : Checks(t)' /\ (Password(t)' <=> Password(t))
    BY <2>1 DEF AccountInv, Checks, Password
  <2>5. ASSUME NEW t \in Txs, alone'[t] PROVE CountsOn(t)'
    BY <2>1, <2>2, <2>4, <2>5, CountsStay DEF AccountInv
  <2> QED
    BY <2>3, <2>4, <2>5 DEF AccountInv
<1>2. ASSUME NEW t \in Txs, Arrives(t) \/ Proceeds(t) \/ Rollback(t) PROVE AccountInv'
  BY <1>2, ArrivesCounts, StepCounts, CommitCounts, RollbackCounts DEF Proceeds
<1> QED
  BY <1>1, <1>2 DEF Next

THEOREM AccountInvariant == Spec => []AccountInv
BY SessionInvariant, AccountInit, AccountStep, PTL DEF Spec

(* The rows of the account and what the requests hold keep their types; a  *)
(* token comes from an earlier one and is replaced by a later one.         *)
THEOREM SessionsTypesHold == Spec => []SessionsTypeOK
<1>1. SessionInv /\ AccountInv => SessionsTypeOK
  BY DEF SessionInv, Sweeping, AccountInv, Columns, Tokens, SessionsTypeOK
<1> QED
  BY <1>1, SessionInvariant, AccountInvariant, PTL

(* auth.py, _register_failed_attempt: a failure is counted and the account *)
(* is locked after MaxFailed, unless checks of its password overlapped     *)
(* since the counter was last reset.                                       *)
THEOREM LockoutAlwaysCounts == Spec => []LockoutCounts
<1>1. AccountInv => LockoutCounts
  BY DEF AccountInv
<1> QED
  BY <1>1, AccountInvariant, PTL
=============================================================================
