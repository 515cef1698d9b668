------------------------------ MODULE Sessions ------------------------------
(***************************************************************************)
(* The Identity service, for one account: its users row, its refresh       *)
(* tokens and the requests that touch them, statement by statement.        *)
(*                                                                         *)
(* The account is read without a lock and written column by column.        *)
(* refresh locks the token it rotates; revoke_all is one UPDATE that finds *)
(* the live tokens when it starts, waits for each that another transaction *)
(* holds, looks at it again, and does not see tokens inserted meanwhile.   *)
(* The ORM does not flush before it: the account is written after the      *)
(* tokens.                                                                 *)
(***************************************************************************)
EXTENDS Integers, Sequences, FiniteSets

CONSTANTS
  Txs,          \* requests in progress
  Nobody,
  Roles,
  MaxFailed,    \* max_failed_login_attempts
  Workloads,    \* sets of kinds of requests; a behaviour has one of them
  MaxRequests   \* bound on requests

Sweeps == {"logout all", "password", "role", "suspend", "delete", "scope", "replay"}
Kinds == {"login", "wrong", "refresh", "logout", "activate", "restore"} \cup Sweeps

ASSUME NobodyFresh == Nobody \notin Txs
ASSUME FailuresPositive == MaxFailed \in Nat \ {0}
ASSUME WorkloadKinds == Workloads \subseteq SUBSET Kinds
ASSUME RequestsNatural == MaxRequests \in Nat

VARIABLES
  user,         \* the committed users row
  tokens,       \* committed refresh_tokens rows in the order of their commits
  userLock,
  held,         \* tokens each transaction has locked
  pc, job,      \* where a request is, and what it is
  copy,         \* the session's User object, with its changes
  victims, hit, \* rows revoke_all has yet to visit, rows it updated
  requests, workload,
  started,      \* history: revoke_all statements started ...
  sweep, swept, \* ... the one of a request, and the last one committed
  wrong,        \* history: wrong passwords since the last reset
  alone, mixed  \* history: see LockoutCounts

work == <<userLock, held, pc, job, copy, victims, hit, sweep, alone>>
env == <<requests, workload>>
vars == <<user, tokens, work, env, started, swept, wrong, mixed>>

Status == {"active", "suspended", "deactivated"}
Live(u) == ~u.deleted
Active(u) == u.status = "active" /\ ~u.deleted

Ids == DOMAIN tokens
LiveTokens == {k \in Ids : ~tokens[k].revoked}

Nothing == [x \in {} |-> x]
NoJob == [kind |-> "none", token |-> 0, set |-> Nothing]
NoCopy == [role |-> CHOOSE r \in Roles : TRUE, status |-> "active", deleted |-> FALSE,
           failed |-> 0, locked |-> FALSE, password |-> 0]

(* An account as create or seed.py leaves it.                              *)
Init ==
  /\ \E r \in Roles, s \in {"active", "suspended"} :
       user = [NoCopy EXCEPT !.role = r, !.status = s]
  /\ tokens = <<>>
  /\ userLock = Nobody
  /\ held = [t \in Txs |-> {}]
  /\ pc = [t \in Txs |-> "idle"]
  /\ job = [t \in Txs |-> NoJob]
  /\ copy = [t \in Txs |-> NoCopy]
  /\ victims = [t \in Txs |-> {}]
  /\ hit = [t \in Txs |-> {}]
  /\ requests = 0
  /\ workload \in Workloads
  /\ started = 0
  /\ sweep = [t \in Txs |-> 0]
  /\ swept = 0
  /\ wrong = 0
  /\ alone = [t \in Txs |-> FALSE]
  /\ mixed = FALSE

With(r, f) == [c \in DOMAIN r |-> IF c \in DOMAIN f THEN f[c] ELSE r[c]]
Net(r, f) == [c \in {x \in DOMAIN f : f[x] # r[x]} |-> f[c]]
-----------------------------------------------------------------------------
(* A request arrives; requests on the account read it.                     *)

Password(t) == job[t].kind \in {"login", "wrong"}
OtherLogins(t) == {u \in Txs \ {t} : Password(u)}

Begin(t, kind, token, set, at) ==
  /\ kind \in workload
  /\ requests < MaxRequests
  /\ pc[t] = "idle"
  /\ requests' = requests + 1
  /\ job' = [job EXCEPT ![t] = [kind |-> kind, token |-> token, set |-> Net(user, set)]]
  /\ copy' = [copy EXCEPT ![t] = user]
  /\ pc' = [pc EXCEPT ![t] = at]
  /\ alone' = [u \in Txs |-> IF kind \notin {"login", "wrong"} THEN alone[u]
                             ELSE u = t /\ OtherLogins(t) = {}]
  /\ UNCHANGED <<user, tokens, userLock, held, victims, hit, workload,
                 started, sweep, swept, wrong, mixed>>

(* Mutant of Failed: one attempt more.                                     *)
FailedLate(u) == IF u.failed + 1 > MaxFailed THEN [failed |-> 0, locked |-> TRUE]
                 ELSE [failed |-> u.failed + 1]

(* _register_failed_attempt                                                *)
Failed(u) == IF u.failed + 1 >= MaxFailed THEN [failed |-> 0, locked |-> TRUE]
             ELSE [failed |-> u.failed + 1]

(* Mutant of BeginLogin: a success does not forgive the failures.          *)
BeginLoginKeeping(t) ==
  /\ Active(user) /\ ~user.locked
  /\ Begin(t, "login", 0, [locked |-> FALSE], "user")

BeginLogin(t) ==
  /\ Active(user) /\ ~user.locked
  /\ Begin(t, "login", 0, [failed |-> 0, locked |-> FALSE], "user")

BeginWrong(t) ==
  /\ Live(user) /\ ~user.locked
  /\ Begin(t, "wrong", 0, Failed(user), "user")

BeginRefresh(t) == \E k \in Ids : Begin(t, "refresh", k, Nothing, "token")
BeginLogout(t) == \E k \in LiveTokens : Begin(t, "logout", k, Nothing, "token")
BeginLogoutAll(t) == Begin(t, "logout all", 0, Nothing, "sweep")

BeginChangePassword(t) ==
  Active(user) /\ Begin(t, "password", 0, [password |-> 1 - user.password], "sweep")

BeginChangeRole(t) ==
  \E r \in Roles : Live(user) /\ Begin(t, "role", 0, [role |-> r], "sweep")

BeginChangeStatus(t) ==
  /\ Live(user)
  /\ \/ Begin(t, "suspend", 0, [status |-> "suspended"], "sweep")
     \/ Begin(t, "activate", 0, [status |-> "active"], "user")

BeginDelete(t) ==
  Live(user) /\ Begin(t, "delete", 0, [status |-> "deactivated", deleted |-> TRUE], "sweep")

BeginRestore(t) ==
  Begin(t, "restore", 0, [status |-> "active", deleted |-> FALSE], "user")

(* assign_warehouse, unassign_warehouse, on_warehouse_deleted              *)
BeginScope(t) == Live(user) /\ Begin(t, "scope", 0, Nothing, "sweep")
-----------------------------------------------------------------------------
Release(t) ==
  /\ userLock' = IF userLock = t THEN Nobody ELSE userLock
  /\ held' = [held EXCEPT ![t] = {}]

Done(t) ==
  /\ Release(t)
  /\ pc' = [pc EXCEPT ![t] = "idle"]
  /\ job' = [job EXCEPT ![t] = NoJob]
  /\ copy' = [copy EXCEPT ![t] = NoCopy]
  /\ victims' = [victims EXCEPT ![t] = {}]
  /\ hit' = [hit EXCEPT ![t] = {}]
  /\ sweep' = [sweep EXCEPT ![t] = 0]
  /\ alone' = [alone EXCEPT ![t] = FALSE]

(* The request is refused or fails, or the database ends a deadlock.       *)
Rollback(t) ==
  /\ pc[t] # "idle"
  /\ Done(t)
  /\ UNCHANGED <<user, tokens, env, started, swept, wrong, mixed>>

Goto(t, at) == pc' = [pc EXCEPT ![t] = at]
Rest == <<user, tokens, env, swept, wrong, mixed, alone>>

(* Mutant of LockToken: get_by_token does not lock.                        *)
ReadToken(t) ==
  /\ pc[t] = "token"
  /\ Goto(t, IF job[t].kind = "logout" THEN "commit"
             ELSE IF tokens[job[t].token].revoked THEN "sweep" ELSE "check")
  /\ job' = [job EXCEPT ![t].kind = IF pc'[t] = "sweep" THEN "replay" ELSE @]
  /\ UNCHANGED <<Rest, userLock, held, copy, victims, hit, started, sweep>>

(* get_by_token: refresh locks and sees the latest version; a token that   *)
(* was revoked is a replay.  logout read it before and now updates it.     *)
LockToken(t) ==
  /\ pc[t] = "token"
  /\ \A u \in Txs : job[t].token \notin held[u]
  /\ held' = [held EXCEPT ![t] = {job[t].token}]
  /\ Goto(t, IF job[t].kind = "logout" THEN "commit"
             ELSE IF tokens[job[t].token].revoked THEN "sweep" ELSE "check")
  /\ job' = [job EXCEPT ![t].kind = IF pc'[t] = "sweep" THEN "replay" ELSE @]
  /\ UNCHANGED <<Rest, userLock, copy, victims, hit, started, sweep>>

(* refresh: the account must be active when it is read.                    *)
CheckUser(t) ==
  /\ pc[t] = "check"
  /\ Active(user)
  /\ copy' = [copy EXCEPT ![t] = user]
  /\ Goto(t, "commit")
  /\ UNCHANGED <<Rest, userLock, held, job, victims, hit, started, sweep>>

(* revoke_all starts: the rows its snapshot shows live.                    *)
StartSweep(t) ==
  /\ pc[t] = "sweep"
  /\ victims' = [victims EXCEPT ![t] = LiveTokens]
  /\ started' = started + 1
  /\ sweep' = [sweep EXCEPT ![t] = started']
  /\ Goto(t, "sweeping")
  /\ UNCHANGED <<Rest, userLock, held, job, copy, hit>>

Lowest(S) == CHOOSE k \in S : \A j \in S : k <= j

(* The next row: wait for its lock, then test the WHERE clause again.      *)
SweepRow(t) ==
  /\ pc[t] = "sweeping" /\ victims[t] # {}
  /\ LET k == Lowest(victims[t])
     IN /\ \A u \in Txs \ {t} : k \notin held[u]
        /\ victims' = [victims EXCEPT ![t] = @ \ {k}]
        /\ IF tokens[k].revoked THEN UNCHANGED <<held, hit>>
           ELSE /\ held' = [held EXCEPT ![t] = @ \cup {k}]
                /\ hit' = [hit EXCEPT ![t] = @ \cup {k}]
  /\ UNCHANGED <<Rest, userLock, pc, job, copy, started, sweep>>

SweepEnds(t) ==
  /\ pc[t] = "sweeping" /\ victims[t] = {}
  /\ Goto(t, IF DOMAIN job[t].set = {} THEN "commit" ELSE "user")
  /\ UNCHANGED <<Rest, userLock, held, job, copy, victims, hit, started, sweep>>

(* UPDATE users; login always writes last_login_at.                        *)
WriteUser(t) ==
  /\ pc[t] = "user"
  /\ IF DOMAIN job[t].set = {} /\ job[t].kind # "login" THEN UNCHANGED userLock
     ELSE userLock = Nobody /\ userLock' = t
  /\ Goto(t, "commit")
  /\ UNCHANGED <<Rest, held, job, copy, victims, hit, started, sweep>>

(* Mutant of Revoked: a suspension leaves the sessions alone.              *)
RevokedUnlessSuspended(t) ==
  IF job[t].kind = "suspend" THEN {}
  ELSE hit[t] \cup (IF job[t].kind \in {"refresh", "logout"} THEN {job[t].token} ELSE {})

Revoked(t) ==
  hit[t] \cup (IF job[t].kind \in {"refresh", "logout"} THEN {job[t].token} ELSE {})

(* _issue: the new session, with the role of the access token beside it.   *)
Issued(t) ==
  IF job[t].kind \notin {"login", "refresh"} THEN <<>>
  ELSE <<[revoked |-> FALSE, replacedBy |-> 0, from |-> job[t].token,
          role |-> copy[t].role, born |-> started]>>

Commit(t) ==
  /\ pc[t] = "commit"
  /\ user' = IF userLock = t THEN With(user, job[t].set) ELSE user
  /\ tokens' = [k \in Ids |-> [tokens[k] EXCEPT
        !.revoked = @ \/ k \in Revoked(t),
        !.replacedBy = IF job[t].kind = "refresh" /\ k = job[t].token THEN Len(tokens) + 1 ELSE @]]
      \o Issued(t)
  /\ swept' = IF sweep[t] > swept THEN sweep[t] ELSE swept
  /\ wrong' = CASE job[t].kind = "login" -> 0
                [] job[t].kind = "wrong" -> IF "locked" \in DOMAIN job[t].set THEN 0 ELSE wrong + 1
                [] OTHER -> wrong
  /\ mixed' = IF ~Password(t) THEN mixed
              ELSE ~alone[t] \/ (mixed /\ wrong' # 0)
  /\ Done(t)
  /\ UNCHANGED <<env, started>>

(* locked_until passes.                                                    *)
LockoutEnds ==
  /\ user.locked
  /\ user' = [user EXCEPT !.locked = FALSE]
  /\ UNCHANGED <<tokens, work, env, started, swept, wrong, mixed>>
-----------------------------------------------------------------------------
Arrives(t) ==
  \/ BeginLogin(t) \/ BeginWrong(t) \/ BeginRefresh(t) \/ BeginLogout(t) \/ BeginLogoutAll(t)
  \/ BeginChangePassword(t) \/ BeginChangeRole(t) \/ BeginChangeStatus(t)
  \/ BeginDelete(t) \/ BeginRestore(t) \/ BeginScope(t)

Proceeds(t) ==
  \/ LockToken(t) \/ CheckUser(t) \/ StartSweep(t) \/ SweepRow(t) \/ SweepEnds(t)
  \/ WriteUser(t) \/ Commit(t)

Next == LockoutEnds \/ \E t \in Txs : Arrives(t) \/ Proceeds(t) \/ Rollback(t)

Spec == Init /\ [][Next]_vars
-----------------------------------------------------------------------------
Users == [role : Roles, status : Status, deleted : BOOLEAN, failed : 0..MaxFailed - 1,
          locked : BOOLEAN, password : 0..1]

SessionsTypeOK ==
  /\ user \in Users
  /\ \A k \in Ids : tokens[k].from \in 0..k - 1 /\ tokens[k].replacedBy \in {0} \cup k + 1..Len(tokens)
  /\ userLock \in Txs \cup {Nobody}
  /\ copy \in [Txs -> Users]
  /\ \A t \in Txs : victims[t] \cup hit[t] \cup held[t] \subseteq Ids
  /\ swept \in 0..started

(* repository.py: "Two concurrent refreshes with the same token serialise  *)
(* here; the second sees it already rotated".  A refresh token is          *)
(* exchanged at most once, and replaced_by_id names what it was exchanged  *)
(* for.                                                                    *)
OneSuccessor ==
  \A j \in Ids : tokens[j].from # 0 =>
    /\ tokens[tokens[j].from].revoked
    /\ tokens[tokens[j].from].replacedBy = j

(* users.py: "revoke sessions so the next refresh carries the new one";    *)
(* api/auth.py: "Replaying a rotated token revokes every session".  Every  *)
(* session committed before a revocation's statement started is dead once  *)
(* that revocation is committed.  (One committed while it runs lives on.)  *)
SweepReachesAll == \A k \in LiveTokens : tokens[k].born >= swept

(* The account's failures are counted and lock it after MaxFailed, except  *)
(* where password checks overlapped since the last reset: both write the   *)
(* absolute count they read.                                               *)
LockoutCounts == ~mixed => (user.failed = wrong /\ wrong < MaxFailed)
=============================================================================
