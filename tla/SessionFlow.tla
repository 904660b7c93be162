----------------------------- MODULE SessionFlow -----------------------------
(***************************************************************************)
(* authenticate(), getSession() and revokeSession() of the core running    *)
(* concurrently with account and credential administration and session     *)
(* cleanup over the PostgreSQL stores.  authenticate() verifies a proof    *)
(* against a credential it read outside any transaction, then opens one,   *)
(* reads credential and account again FOR SHARE, may replace the           *)
(* credential's material, and creates the session.  getSession() reads     *)
(* session, account and clock one after the other, without a transaction.  *)
(* An account stands for itself, its one identity and its one credential.  *)
(***************************************************************************)
EXTENDS Naturals, FiniteSets

CONSTANTS
  Accounts,    \* accounts that exist, each with an identity and a credential
  Ops,         \* calls; a call that creates a session also names it
  NoOp,        \* no call: the row is not locked for update
  NoTarget,    \* the call has no account or session yet
  MaxVersion,  \* administration stops at this credential version
  Horizon      \* the clock stops here; a session may outlive it by one

ASSUME NoOpAssumption == NoOp \notin Ops
ASSUME NoTargetAssumption == NoTarget \notin Accounts \cup Ops
ASSUME BoundsAssumption == MaxVersion \in Nat \ {0} /\ Horizon \in Nat

VARIABLES
  clock,      \* what readNow() returns
  account,    \* committed account statuses
  cred,       \* committed credentials
  session,    \* committed session rows
  acctShare,  \* calls whose transaction holds the account row FOR SHARE
  credShare,  \* calls whose transaction holds the credential row FOR SHARE
  credOwner,  \* the call whose transaction updated the credential row
  pc,         \* where each call is
  target,     \* the account of an authenticate, the session of another call
  seen,       \* the credential an authenticate verified its proof against
  at,         \* the clock reading a call holds
  rehash,     \* whether the method returned replacement material
  write,      \* the session row an open transaction would insert
  rehashed,   \* history: calls whose replacement material was committed
  liveness,   \* history: what was usable while a getSession ran
  result      \* what the call returned

rows == <<account, cred, session, rehashed>>
locks == <<acctShare, credShare, credOwner>>
call == <<target, seen, at, rehash, write>>
vars == <<clock, rows, locks, pc, call, liveness, result>>

-----------------------------------------------------------------------------
(* Rows                                                                    *)

AccountStatus == {"active", "disabled", "deleted"}

Credential == [status : {"none", "active", "disabled"}, version : Nat]

Session == [status : {"none", "active", "revoked", "expired"},
            account : Accounts \cup {NoTarget},
            expiresAt : 0..(Horizon + 1)]

NoCredential == [status |-> "none", version |-> 0]

NoSession == [status |-> "none", account |-> NoTarget, expiresAt |-> 0]

NewSession(a, e) == [status |-> "active", account |-> a, expiresAt |-> e]

Replaced(c) == [c EXCEPT !.version = @ + 1]

-----------------------------------------------------------------------------
(* Calls.  Definitions named Slip... are plausible coding slips of the     *)
(* definition after them; no specification uses them.                      *)

Transaction == {"a_credential", "a_rehash", "a_account", "a_session", "commit", "rollback"}
Resolving == {"g_session", "g_account", "g_clock"}
Active == {"a_find", "a_run", "a_tx"} \cup Transaction \cup Resolving
            \cup {"report", "r_find", "r_select", "r_update"}
Phase == Active \cup {"idle", "returned", "crashed"}

Results == {"none", "success", "failed", "transaction-failed",
            "resolved", "no-session", "revoked", "ignored", "inconsistent"}

Goto(p, phase) == pc' = [pc EXCEPT ![p] = phase]

\* The clock is rounded up.
SlipReadClock(p) == at' = [at EXCEPT ![p] = clock + 1]

ReadClock(p) == at' = [at EXCEPT ![p] = clock]

Return(p, outcome) ==
  /\ Goto(p, "returned")
  /\ result' = [result EXCEPT ![p] = outcome]

\* The provider forgets to release the connection of a failed transaction.
SlipEndTx(p) ==
  /\ write' = [write EXCEPT ![p] = NoSession]
  /\ UNCHANGED locks

\* The transaction of p ends: its locks are released and its writes are gone.
EndTx(p) ==
  /\ acctShare' = [a \in Accounts |-> acctShare[a] \ {p}]
  /\ credShare' = [a \in Accounts |-> credShare[a] \ {p}]
  /\ credOwner' = [a \in Accounts |-> IF credOwner[a] = p THEN NoOp ELSE credOwner[a]]
  /\ write' = [write EXCEPT ![p] = NoSession]

Init ==
  /\ clock = 0
  /\ account = [a \in Accounts |-> "active"]
  /\ cred = [a \in Accounts |-> [status |-> "active", version |-> 1]]
  /\ session = [p \in Ops |-> NoSession]
  /\ acctShare = [a \in Accounts |-> {}]
  /\ credShare = [a \in Accounts |-> {}]
  /\ credOwner = [a \in Accounts |-> NoOp]
  /\ pc = [p \in Ops |-> "idle"]
  /\ target = [p \in Ops |-> NoTarget]
  /\ seen = [p \in Ops |-> NoCredential]
  /\ at = [p \in Ops |-> 0]
  /\ rehash = [p \in Ops |-> FALSE]
  /\ write = [p \in Ops |-> NoSession]
  /\ rehashed = [a \in Accounts |-> {}]
  /\ liveness = [p \in Ops |-> [session |-> FALSE, account |-> FALSE]]
  /\ result = [p \in Ops |-> "none"]

-----------------------------------------------------------------------------
(* authenticate()                                                          *)

AuthCall(p, a) ==
  /\ pc[p] = "idle"
  /\ Goto(p, "a_find")
  /\ target' = [target EXCEPT ![p] = a]
  /\ UNCHANGED <<clock, rows, locks, seen, at, rehash, write, liveness, result>>

\* Identity and credential are read outside a transaction; a credential that is
\* not active is treated as absent.
FindCredential(p) ==
  LET c == cred[target[p]] IN
  /\ pc[p] = "a_find"
  /\ seen' = [seen EXCEPT ![p] = IF c.status = "active" THEN c ELSE NoCredential]
  /\ Goto(p, "a_run")
  /\ UNCHANGED <<clock, rows, locks, target, at, rehash, write, liveness, result>>

\* The method accepts the proof, and may ask for its material to be replaced.
AuthRun(p) ==
  /\ pc[p] = "a_run"
  /\ seen[p] # NoCredential
  /\ \E r \in BOOLEAN : rehash' = [rehash EXCEPT ![p] = r]
  /\ Goto(p, "a_tx")
  /\ UNCHANGED <<clock, rows, locks, target, seen, at, write, liveness, result>>

\* Validation, guard, lookup, the proof, policy or a check of the method's
\* output fails, or there was no usable credential to verify against.
AuthRejected(p) ==
  /\ pc[p] \in {"a_find", "a_run"}
  /\ Return(p, "failed")
  /\ UNCHANGED <<clock, rows, locks, call, liveness>>

\* The transaction opens and reads the clock it will issue the session at.
AuthTx(p) ==
  /\ pc[p] = "a_tx"
  /\ ReadClock(p)
  /\ Goto(p, "a_credential") \/ Goto(p, "rollback")
  /\ UNCHANGED <<clock, rows, locks, target, seen, rehash, write, liveness, result>>

\* The credential is read without a row lock.
SlipTxCredential(p) ==
  LET a == target[p] IN
  /\ pc[p] = "a_credential"
  /\ Goto(p, IF cred[a] # seen[p] THEN "rollback"
             ELSE IF rehash[p] THEN "a_rehash" ELSE "a_account")
  /\ UNCHANGED <<clock, rows, locks, call, liveness, result>>

\* The credential is read again FOR SHARE: same status, same version.
TxCredential(p) ==
  LET a == target[p] IN
  /\ pc[p] = "a_credential"
  /\ credOwner[a] = NoOp
  /\ credShare' = [credShare EXCEPT ![a] = @ \cup {p}]
  /\ Goto(p, IF cred[a] # seen[p] THEN "rollback"
             ELSE IF rehash[p] THEN "a_rehash" ELSE "a_account")
  /\ UNCHANGED <<clock, rows, acctShare, credOwner, call, liveness, result>>

\* The conditional update upgrades the share lock, so it waits for the others.
ReplaceMaterial(p) ==
  LET a == target[p] IN
  /\ pc[p] = "a_rehash"
  /\ credShare[a] \subseteq {p}
  /\ credOwner[a] = NoOp
  /\ IF cred[a].version = seen[p].version
     THEN /\ credOwner' = [credOwner EXCEPT ![a] = p]
          /\ Goto(p, "a_account")
     ELSE /\ UNCHANGED credOwner
          /\ Goto(p, "rollback")
  /\ UNCHANGED <<clock, rows, acctShare, credShare, call, liveness, result>>

\* Two transactions that both hold the row FOR SHARE and both wait to update it
\* wait for each other: the database aborts one of them.
DeadlockAbort(p) ==
  LET a == target[p] IN
  /\ pc[p] = "a_rehash"
  /\ \E q \in credShare[a] \ {p} : pc[q] = "a_rehash"
  /\ Goto(p, "rollback")
  /\ UNCHANGED <<clock, rows, locks, call, liveness, result>>

\* The account is read without a row lock.
SlipTxAccount(p) ==
  LET a == target[p] IN
  /\ pc[p] = "a_account"
  /\ Goto(p, IF account[a] = "active" THEN "a_session" ELSE "rollback")
  /\ UNCHANGED <<clock, rows, locks, call, liveness, result>>

\* The account is read FOR SHARE and must be active.
TxAccount(p) ==
  LET a == target[p] IN
  /\ pc[p] = "a_account"
  /\ acctShare' = [acctShare EXCEPT ![a] = @ \cup {p}]
  /\ Goto(p, IF account[a] = "active" THEN "a_session" ELSE "rollback")
  /\ UNCHANGED <<clock, rows, credShare, credOwner, call, liveness, result>>

\* Required effects, then the session if one was requested: it expires after the
\* reading the transaction started from and must outlast a last reading.
CreateSession(p) ==
  /\ pc[p] = "a_session"
  /\ \/ Goto(p, "commit") /\ UNCHANGED write
     \/ \E e \in (at[p] + 1)..(Horizon + 1) :
          IF e > clock
          THEN /\ write' = [write EXCEPT ![p] = NewSession(target[p], e)]
               /\ Goto(p, "commit")
          ELSE Goto(p, "rollback") /\ UNCHANGED write
  /\ UNCHANGED <<clock, rows, locks, target, seen, at, rehash, liveness, result>>

\* A statement fails, or the effects, the policy, the token or a later clock
\* reading refuses: the callback returns a failure.
TxFails(p) ==
  /\ pc[p] \in {"a_credential", "a_rehash", "a_account", "a_session", "commit"}
  /\ Goto(p, "rollback")
  /\ UNCHANGED <<clock, rows, locks, call, liveness, result>>

\* Replacement and session are written on two connections.
SlipInstall(p) ==
  LET a == target[p] IN
  /\ session' = [session EXCEPT ![p] = write[p]]
  /\ UNCHANGED <<cred, rehashed, account>>

\* The writes of p's transaction become visible.
Install(p) ==
  LET a == target[p] IN
  /\ session' = [session EXCEPT ![p] = write[p]]
  /\ IF credOwner[a] = p
     THEN /\ cred' = [cred EXCEPT ![a] = Replaced(@)]
          /\ rehashed' = [rehashed EXCEPT ![a] = @ \cup {p}]
     ELSE UNCHANGED <<cred, rehashed>>
  /\ UNCHANGED account

Commit(p) ==
  /\ pc[p] = "commit"
  /\ Install(p)
  /\ EndTx(p)
  /\ Goto(p, "report")
  /\ UNCHANGED <<clock, target, seen, at, rehash, liveness, result>>

\* The provider throws: the commit was applied, or it was not.
CommitFails(p) ==
  /\ pc[p] = "commit"
  /\ Install(p) \/ UNCHANGED rows
  /\ EndTx(p)
  /\ Return(p, "transaction-failed")
  /\ UNCHANGED <<clock, target, seen, at, rehash, liveness>>

Rollback(p) ==
  /\ pc[p] = "rollback"
  /\ EndTx(p)
  /\ Return(p, "failed") \/ Return(p, "transaction-failed")
  /\ UNCHANGED <<clock, rows, target, seen, at, rehash, liveness>>

\* Best-effort effects and reports, which cannot fail the call any more.
Succeed(p) ==
  /\ pc[p] = "report"
  /\ Return(p, "success")
  /\ UNCHANGED <<clock, rows, locks, call, liveness>>

-----------------------------------------------------------------------------
(* getSession()                                                            *)

\* The caller holds the token of session s, so the call that issued it returned.
GetCall(p, s) ==
  /\ pc[p] = "idle"
  /\ result[s] = "success"
  /\ session[s].status # "none"
  /\ Goto(p, "g_session")
  /\ target' = [target EXCEPT ![p] = s]
  /\ liveness' = [liveness EXCEPT ![p] =
        [session |-> session[s].status = "active",
         account |-> account[session[s].account] = "active"]]
  /\ UNCHANGED <<clock, rows, locks, seen, at, rehash, write, result>>

GetFindSession(p) ==
  /\ pc[p] = "g_session"
  /\ IF session[target[p]].status = "active"
     THEN Goto(p, "g_account") /\ UNCHANGED result
     ELSE Return(p, "no-session")
  /\ UNCHANGED <<clock, rows, locks, call, liveness>>

\* The account is not looked at.
SlipGetFindAccount(p) ==
  /\ pc[p] = "g_account"
  /\ Goto(p, "g_clock")
  /\ UNCHANGED <<clock, rows, locks, call, liveness, result>>

GetFindAccount(p) ==
  /\ pc[p] = "g_account"
  /\ IF account[session[target[p]].account] = "active"
     THEN Goto(p, "g_clock") /\ UNCHANGED result
     ELSE Return(p, "no-session")
  /\ UNCHANGED <<clock, rows, locks, call, liveness>>

\* The clock is read last, and the session must still run.
GetResolve(p) ==
  /\ pc[p] = "g_clock"
  /\ ReadClock(p)
  /\ Return(p, IF session[target[p]].expiresAt > clock THEN "resolved" ELSE "no-session")
  /\ UNCHANGED <<clock, rows, locks, target, seen, rehash, write, liveness>>

-----------------------------------------------------------------------------
(* revokeSession()                                                         *)

RevokeCall(p, s) ==
  /\ pc[p] = "idle"
  /\ s # p
  /\ Goto(p, "r_find")
  /\ target' = [target EXCEPT ![p] = s]
  /\ UNCHANGED <<clock, rows, locks, seen, at, rehash, write, liveness, result>>

\* A missing session, or one the actor may not revoke, is silently ignored; the
\* policy may refuse.
RevokeFind(p) ==
  /\ pc[p] = "r_find"
  /\ \/ /\ session[target[p]].status # "none"
        /\ Goto(p, "r_select")
        /\ UNCHANGED result
     \/ Return(p, "ignored")
     \/ /\ session[target[p]].status # "none"
        /\ Return(p, "failed")
  /\ UNCHANGED <<clock, rows, locks, call, liveness>>

\* What the core makes of the row the store returns: any status but "revoked" is
\* an internal failure.
RevokeAnswer(s) == IF session[s].status = "expired" THEN "inconsistent" ELSE "revoked"

\* The store selects the row again and leaves it alone unless it is active.
RevokeSelect(p) ==
  /\ pc[p] = "r_select"
  /\ IF session[target[p]].status = "active"
     THEN Goto(p, "r_update") /\ UNCHANGED result
     ELSE Return(p, RevokeAnswer(target[p]))
  /\ UNCHANGED <<clock, rows, locks, call, liveness>>

\* A session past its expiry is left to the cleanup.
SlipRevoke(s) ==
  session' = IF session[s].status = "active" /\ session[s].expiresAt > clock
             THEN [session EXCEPT ![s].status = "revoked"] ELSE session

\* UPDATE ... WHERE status = 'active'
Revoke(s) ==
  session' = IF session[s].status = "active"
             THEN [session EXCEPT ![s].status = "revoked"] ELSE session

\* The update is keyed by the session alone.
SlipRevokeUpdate(p) ==
  /\ pc[p] = "r_update"
  /\ session' = [session EXCEPT ![target[p]].status = "revoked"]
  /\ Return(p, "revoked")
  /\ UNCHANGED <<clock, account, cred, rehashed, locks, call, liveness>>

RevokeUpdate(p) ==
  /\ pc[p] = "r_update"
  /\ Revoke(target[p])
  /\ Return(p, RevokeAnswer(target[p]))
  /\ UNCHANGED <<clock, account, cred, rehashed, locks, call, liveness>>

-----------------------------------------------------------------------------
(* Failures                                                                *)

\* A read of getSession or revokeSession fails, or the answer to the update of
\* a revocation is lost.
ReadFails(p) ==
  /\ \/ pc[p] \in Resolving \cup {"r_find", "r_select", "r_update"} /\ UNCHANGED session
     \/ pc[p] = "r_update" /\ Revoke(target[p])
  /\ Return(p, "failed")
  /\ UNCHANGED <<clock, account, cred, rehashed, locks, call, liveness>>

\* The process running p dies: the database rolls its transaction back.
Crash(p) ==
  /\ pc[p] \in Active
  /\ EndTx(p)
  /\ Goto(p, "crashed")
  /\ UNCHANGED <<clock, rows, target, seen, at, rehash, liveness, result>>

-----------------------------------------------------------------------------
(* Administration and cleanup                                              *)

\* accounts.updateStatus waits for the row's share locks.  A getSession in
\* progress has now had its account usable, if it becomes active.
SetAccountStatus(a, status) ==
  /\ acctShare[a] = {}
  /\ \/ account[a] = "active" /\ status \in {"disabled", "deleted"}
     \/ account[a] = "disabled" /\ status \in {"active", "deleted"}
  /\ account' = [account EXCEPT ![a] = status]
  /\ liveness' = [p \in Ops |->
        IF pc[p] \in Resolving /\ session[target[p]].account = a /\ status = "active"
        THEN [liveness[p] EXCEPT !.account = TRUE] ELSE liveness[p]]
  /\ UNCHANGED <<clock, cred, session, rehashed, locks, pc, call, result>>

\* credentials.updateStatus with the version it read.
SetCredentialStatus(a) ==
  /\ credShare[a] = {}
  /\ credOwner[a] = NoOp
  /\ cred[a].version < MaxVersion
  /\ cred' = [cred EXCEPT ![a] =
        [status |-> IF @.status = "active" THEN "disabled" ELSE "active",
         version |-> @.version + 1]]
  /\ UNCHANGED <<clock, account, session, rehashed, locks, pc, call, liveness, result>>

\* sessions.cleanupExpired, one row of its batch.
CleanupExpired(s) ==
  /\ session[s].status = "active"
  /\ session[s].expiresAt <= clock
  /\ session' = [session EXCEPT ![s].status = "expired"]
  /\ UNCHANGED <<clock, account, cred, rehashed, locks, pc, call, liveness, result>>

Tick ==
  /\ clock < Horizon
  /\ clock' = clock + 1
  /\ UNCHANGED <<rows, locks, pc, call, liveness, result>>

AuthStep(p) ==
  \/ FindCredential(p) \/ AuthRun(p) \/ AuthRejected(p) \/ AuthTx(p)
  \/ TxCredential(p) \/ ReplaceMaterial(p) \/ TxAccount(p) \/ CreateSession(p)
  \/ Commit(p) \/ CommitFails(p) \/ Rollback(p) \/ Succeed(p)

SessionStep(p) ==
  \/ GetFindSession(p) \/ GetFindAccount(p) \/ GetResolve(p)
  \/ RevokeFind(p) \/ RevokeSelect(p) \/ RevokeUpdate(p)

\* What the code, and the database's deadlock detector, do by themselves.
Step(p) == AuthStep(p) \/ SessionStep(p) \/ DeadlockAbort(p)

Next ==
  \/ \E p \in Ops, a \in Accounts : AuthCall(p, a)
  \/ \E p \in Ops, s \in Ops : GetCall(p, s) \/ RevokeCall(p, s)
  \/ \E p \in Ops : Step(p) \/ TxFails(p) \/ ReadFails(p) \/ Crash(p)
  \/ \E a \in Accounts, status \in AccountStatus : SetAccountStatus(a, status)
  \/ \E a \in Accounts : SetCredentialStatus(a)
  \/ \E s \in Ops : CleanupExpired(s)
  \/ Tick

Spec == Init /\ [][Next]_vars

\* Awaited promises settle and the database detects deadlocks; no statement has
\* to fail for a call to get on.
FairSpec == Spec /\ \A p \in Ops : WF_vars(Step(p))

-----------------------------------------------------------------------------
(* Properties                                                              *)

\* Every variable keeps its type.
TypeOK ==
  /\ clock \in 0..Horizon
  /\ account \in [Accounts -> AccountStatus]
  /\ cred \in [Accounts -> Credential]
  /\ session \in [Ops -> Session]
  /\ acctShare \in [Accounts -> SUBSET Ops]
  /\ credShare \in [Accounts -> SUBSET Ops]
  /\ credOwner \in [Accounts -> Ops \cup {NoOp}]
  /\ pc \in [Ops -> Phase]
  /\ target \in [Ops -> Accounts \cup Ops \cup {NoTarget}]
  /\ seen \in [Ops -> Credential]
  /\ at \in [Ops -> 0..Horizon]
  /\ rehash \in [Ops -> BOOLEAN]
  /\ write \in [Ops -> Session]
  /\ rehashed \in [Accounts -> SUBSET Ops]
  /\ liveness \in [Ops -> [session : BOOLEAN, account : BOOLEAN]]
  /\ result \in [Ops -> Results]

\* When an authentication is about to commit, everything it checked still holds:
\* the account is active and the credential is, status and version, the one the
\* method verified the proof against, however long ago it was read and whatever
\* administration or another login's rehash did meanwhile.
CommitChecksHold ==
  \A p \in Ops : pc[p] = "commit" =>
    /\ account[target[p]] = "active"
    /\ cred[target[p]] = seen[p]

\* A login's session and its replacement of the credential commit together, and
\* a login that reported a failure of its own committed neither.
AtomicAuthentication ==
  \A p \in Ops :
    LET touched == session[p].status # "none" \/ \E a \in Accounts : p \in rehashed[a] IN
    /\ touched => \/ result[p] \in {"success", "transaction-failed"}
                  \/ pc[p] \in {"report", "crashed"}
    /\ touched /\ rehash[p] => p \in rehashed[target[p]]
    /\ result[p] = "success" /\ rehash[p] => p \in rehashed[target[p]]

\* getSession, reading session, account and clock at three moments, never
\* resolves a session that had ended before the call, nor one whose account was
\* unusable during the whole call, nor one past its expiry.
ResolvedWasLive ==
  \A p \in Ops : result[p] = "resolved" =>
    /\ liveness[p].session
    /\ liveness[p].account
    /\ session[target[p]].expiresAt > at[p]

\* A revocation that was let through and answered leaves no active session,
\* whatever expiry or other revocations ran beside it.
RevokedIsGone ==
  \A p \in Ops : result[p] \in {"revoked", "inconsistent"} =>
    session[target[p]].status \in {"revoked", "expired"}

\* A session leaves "active" once: cleanup and revocation, each acting on a row
\* it selected earlier, never rewrite a session that has ended.
EndedSessionsFinal ==
  [][\A s \in Ops :
       session[s].status \in {"revoked", "expired"} => session'[s] = session[s]]_vars

\* docs/02-FLOWS.md:339 promises that revoking an expired session answers ok.
RevokingExpiredSucceeds ==
  \A p \in Ops :
    pc[p] = "returned" /\ target[p] \in Ops /\ session[target[p]].status = "expired"
      => result[p] # "inconsistent"

\* No call waits for ever on a row lock, not even two logins that both upgrade
\* their share lock of one credential.
EveryCallReturns ==
  \A p \in Ops : pc[p] \in Active ~> pc[p] \in {"returned", "crashed"}

=============================================================================
