-------------------------- MODULE SessionFlowProofs --------------------------
(***************************************************************************)
(* For any accounts, any concurrent calls and any bounds: what an          *)
(* authentication checked holds when it commits, its writes are one, and   *)
(* what getSession and revokeSession answer is true of the session.        *)
(***************************************************************************)
EXTENDS SessionFlow, TLAPS

USE NoOpAssumption, NoTargetAssumption, BoundsAssumption

-----------------------------------------------------------------------------
(* Types                                                                   *)

\* The rows of nothing are rows.
LEMMA NoRowTypes == NoSession \in Session /\ NoCredential \in Credential
  BY DEF NoSession, Session, NoCredential, Credential

\* A session that is created is a row.
LEMMA NewSessionType ==
  ASSUME NEW a \in Accounts, NEW e \in 1..(Horizon + 1)
  PROVE  NewSession(a, e) \in Session
  BY DEF NewSession, Session

\* Replacing material yields a credential.
LEMMA ReplacedType ==
  ASSUME NEW c \in Credential
  PROVE  Replaced(c) \in Credential /\ Replaced(c).status = c.status
  BY DEF Replaced, Credential

\* The end of a transaction keeps the types of locks and writes.
LEMMA EndTxType ==
  ASSUME TypeOK, NEW p \in Ops, EndTx(p)
  PROVE  /\ acctShare' \in [Accounts -> SUBSET Ops] /\ credShare' \in [Accounts -> SUBSET Ops]
         /\ credOwner' \in [Accounts -> Ops \cup {NoOp}] /\ write' \in [Ops -> Session]
  BY NoRowTypes DEF EndTx, TypeOK

\* A commit keeps the types of rows.
LEMMA InstallType ==
  ASSUME TypeOK, NEW p \in Ops, Install(p)
  PROVE  /\ account' \in [Accounts -> AccountStatus] /\ cred' \in [Accounts -> Credential]
         /\ session' \in [Ops -> Session] /\ rehashed' \in [Accounts -> SUBSET Ops]
  <1>1. \A a \in Accounts : Replaced(cred[a]) \in Credential
    BY ReplacedType DEF TypeOK
  <1>2. session' \in [Ops -> Session] /\ account' \in [Accounts -> AccountStatus]
    BY DEF Install, TypeOK
  <1>3. CASE UNCHANGED <<cred, rehashed>>
    BY <1>2, <1>3 DEF TypeOK
  <1>4. CASE /\ cred' = [cred EXCEPT ![target[p]] = Replaced(@)]
             /\ rehashed' = [rehashed EXCEPT ![target[p]] = @ \cup {p}]
    <2>1. cred' \in [Accounts -> Credential]
      BY <1>1, <1>4 DEF TypeOK
    <2>2. rehashed' \in [Accounts -> SUBSET Ops]
      BY <1>4 DEF TypeOK
    <2> QED BY <1>2, <2>1, <2>2
  <1> QED BY <1>3, <1>4 DEF Install

\* A session that ends is a row.
LEMMA EndedType ==
  ASSUME TypeOK, NEW s \in Ops, NEW x \in {"revoked", "expired"}
  PROVE  [session EXCEPT ![s].status = x] \in [Ops -> Session]
  <1>1. session[s] \in Session
    BY DEF TypeOK
  <1>2. [session[s] EXCEPT !.status = x] \in Session
    BY <1>1 DEF Session
  <1> QED BY <1>2 DEF TypeOK

Logins == {"a_find", "a_run", "a_tx", "a_credential", "a_rehash", "a_account", "a_session", "commit"}
Lookups == {"g_session", "g_account", "g_clock", "r_find", "r_select", "r_update"}

\* A call has the target its operation needs, and no result before it returns.
Targets ==
  \A p \in Ops :
    /\ pc[p] \in Logins => target[p] \in Accounts
    /\ pc[p] \in Lookups => target[p] \in Ops
    /\ pc[p] # "returned" => result[p] = "none"

\* A call goes from phase to phase.
LEMMA GotoType ==
  ASSUME TypeOK, NEW p \in Ops,
         NEW ph \in Logins \cup Lookups \cup {"report", "rollback", "returned", "crashed"},
         Goto(p, ph)
  PROVE  pc' \in [Ops -> Phase]
  <1>1. ph \in Phase
    BY DEF Logins, Lookups, Phase, Active, Transaction, Resolving
  <1> QED BY <1>1 DEF Goto, TypeOK

\* A call returns with a result.
LEMMA ReturnType ==
  ASSUME TypeOK, NEW p \in Ops, NEW outcome \in Results, Return(p, outcome)
  PROVE  pc' \in [Ops -> Phase] /\ result' \in [Ops -> Results]
  <1>1. pc' \in [Ops -> Phase]
    BY GotoType DEF Return
  <1>2. result' \in [Ops -> Results]
    BY DEF Return, TypeOK
  <1> QED BY <1>1, <1>2

\* Every step keeps the types.
LEMMA TypeStep ==
  ASSUME TypeOK, Targets, Next
  PROVE  TypeOK'
  <1> USE DEF Goto, Return, Phase, Active, Transaction, Resolving, Results
  <1>1. ASSUME NEW p \in Ops, NEW a \in Accounts, AuthCall(p, a) PROVE TypeOK'
    BY <1>1 DEF AuthCall, TypeOK, rows, locks
  <1>2. ASSUME NEW p \in Ops, NEW s \in Ops, GetCall(p, s) PROVE TypeOK'
    BY <1>2 DEF GetCall, TypeOK, rows, locks
  <1>3. ASSUME NEW p \in Ops, NEW s \in Ops, RevokeCall(p, s) PROVE TypeOK'
    BY <1>3 DEF RevokeCall, TypeOK, rows, locks
  <1>4. ASSUME NEW p \in Ops, FindCredential(p) PROVE TypeOK'
    <2>1. target[p] \in Accounts
      BY <1>4 DEF FindCredential, Targets, Logins
    <2> QED BY <1>4, <2>1, NoRowTypes DEF FindCredential, TypeOK, rows, locks
  <1>5. ASSUME NEW p \in Ops, AuthRun(p) PROVE TypeOK'
    BY <1>5 DEF AuthRun, TypeOK, rows, locks
  <1>6. ASSUME NEW p \in Ops, \/ AuthRejected(p) \/ TxFails(p) \/ DeadlockAbort(p) \/ Succeed(p)
                              \/ GetFindSession(p) \/ GetFindAccount(p)
                              \/ RevokeFind(p) \/ RevokeSelect(p)
        PROVE  TypeOK'
    <2>1. UNCHANGED <<clock, rows, call, liveness, acctShare, credShare, credOwner>>
      BY <1>6 DEF AuthRejected, TxFails, DeadlockAbort, Succeed, GetFindSession, GetFindAccount,
                  RevokeFind, RevokeSelect, locks
    <2>2. \E ph \in {"returned", "rollback", "g_account", "g_clock", "r_select", "r_update"} : Goto(p, ph)
      BY <1>6 DEF AuthRejected, TxFails, DeadlockAbort, Succeed, GetFindSession, GetFindAccount,
                  RevokeFind, RevokeSelect
    <2>3. result' \in [Ops -> Results]
      BY <1>6 DEF AuthRejected, TxFails, DeadlockAbort, Succeed, GetFindSession, GetFindAccount,
                  RevokeFind, RevokeSelect, RevokeAnswer, TypeOK
    <2> QED BY <2>1, <2>2, <2>3, GotoType DEF Lookups, TypeOK, rows, call
  <1>7. ASSUME NEW p \in Ops, AuthTx(p) PROVE TypeOK'
    <2>1. pc' \in [Ops -> Phase] /\ at' \in [Ops -> 0..Horizon]
      <3>1. \E ph \in {"a_credential", "rollback"} : Goto(p, ph)
        BY <1>7 DEF AuthTx
      <3> QED BY <1>7, <3>1, GotoType DEF Logins, AuthTx, ReadClock, TypeOK
    <2> QED BY <1>7, <2>1 DEF AuthTx, TypeOK, rows, locks
  <1>8. ASSUME NEW p \in Ops, TxCredential(p) PROVE TypeOK'
    BY <1>8 DEF TxCredential, TypeOK, rows, call
  <1>9. ASSUME NEW p \in Ops, ReplaceMaterial(p) PROVE TypeOK'
    <2>1. pc' \in [Ops -> Phase]
      <3>1. \E ph \in {"a_account", "rollback"} : Goto(p, ph)
        BY <1>9 DEF ReplaceMaterial
      <3> QED BY <3>1, GotoType DEF Logins
    <2>2. credOwner' \in [Accounts -> Ops \cup {NoOp}]
      <3>1. UNCHANGED credOwner \/ credOwner' = [credOwner EXCEPT ![target[p]] = p]
        BY <1>9 DEF ReplaceMaterial
      <3> QED BY <3>1 DEF TypeOK
    <2> QED BY <1>9, <2>1, <2>2 DEF ReplaceMaterial, TypeOK, rows, call
  <1>10. ASSUME NEW p \in Ops, TxAccount(p) PROVE TypeOK'
    BY <1>10 DEF TxAccount, TypeOK, rows, call
  <1>11. ASSUME NEW p \in Ops, CreateSession(p) PROVE TypeOK'
    <2>1. target[p] \in Accounts
      BY <1>11 DEF CreateSession, Targets, Logins
    <2>2. ASSUME NEW e \in (at[p] + 1)..(Horizon + 1) PROVE NewSession(target[p], e) \in Session
      <3>1. e \in 1..(Horizon + 1)
        BY DEF TypeOK
      <3> QED BY <2>1, <3>1, NewSessionType
    <2>3. write' \in [Ops -> Session]
      <3>1. \/ UNCHANGED write
            \/ \E e \in (at[p] + 1)..(Horizon + 1) :
                 write' = [write EXCEPT ![p] = NewSession(target[p], e)]
        BY <1>11 DEF CreateSession
      <3> HIDE <1>11 DEF NewSession
      <3>2. write \in [Ops -> Session]
        BY DEF TypeOK
      <3> QED BY <2>2, <3>1, <3>2
    <2>4. pc' \in [Ops -> Phase]
      <3>1. \E ph \in {"commit", "rollback"} : Goto(p, ph)
        BY <1>11 DEF CreateSession
      <3> QED BY <3>1, GotoType DEF Logins
    <2>5. UNCHANGED <<clock, rows, locks, target, seen, at, rehash, liveness, result>>
      BY <1>11 DEF CreateSession
    <2> QED BY <2>3, <2>4, <2>5 DEF TypeOK, rows, locks
  <1>12. ASSUME NEW p \in Ops, Commit(p) PROVE TypeOK'
    <2>1. pc' \in [Ops -> Phase]
      BY <1>12, GotoType DEF Commit
    <2>2. Install(p) /\ EndTx(p) /\ UNCHANGED <<clock, target, seen, at, rehash, liveness, result>>
      BY <1>12 DEF Commit
    <2> QED BY <2>1, <2>2, EndTxType, InstallType DEF TypeOK
  <1>13. ASSUME NEW p \in Ops, CommitFails(p) PROVE TypeOK'
    <2>1. pc' \in [Ops -> Phase] /\ result' \in [Ops -> Results]
      BY <1>13, ReturnType DEF CommitFails
    <2>2. EndTx(p) /\ UNCHANGED <<clock, target, seen, at, rehash, liveness>>
      BY <1>13 DEF CommitFails
    <2>3. /\ account' \in [Accounts -> AccountStatus] /\ cred' \in [Accounts -> Credential]
          /\ session' \in [Ops -> Session] /\ rehashed' \in [Accounts -> SUBSET Ops]
      <3>1. CASE Install(p)
        BY <3>1, InstallType
      <3>2. CASE UNCHANGED rows
        BY <3>2 DEF TypeOK, rows
      <3> QED BY <1>13, <3>1, <3>2 DEF CommitFails
    <2> QED BY <2>1, <2>2, <2>3, EndTxType DEF TypeOK
  <1>14. ASSUME NEW p \in Ops, Rollback(p) PROVE TypeOK'
    <2>1. \E o \in {"failed", "transaction-failed"} : Return(p, o)
      BY <1>14 DEF Rollback
    <2>2. pc' \in [Ops -> Phase] /\ result' \in [Ops -> Results]
      BY <2>1, ReturnType
    <2>3. EndTx(p) /\ UNCHANGED <<clock, rows, target, seen, at, rehash, liveness>>
      BY <1>14 DEF Rollback
    <2> QED BY <2>2, <2>3, EndTxType DEF TypeOK, rows
  <1>22. ASSUME NEW p \in Ops, Crash(p) PROVE TypeOK'
    <2>1. pc' \in [Ops -> Phase]
      BY <1>22, GotoType DEF Crash
    <2>2. EndTx(p) /\ UNCHANGED <<clock, rows, target, seen, at, rehash, liveness, result>>
      BY <1>22 DEF Crash
    <2> QED BY <2>1, <2>2, EndTxType DEF TypeOK, rows
  <1>15. ASSUME NEW p \in Ops, GetResolve(p) PROVE TypeOK'
    BY <1>15 DEF GetResolve, ReadClock, TypeOK, rows, locks
  <1>16. ASSUME NEW p \in Ops, RevokeUpdate(p) PROVE TypeOK'
    <2>1. session' \in [Ops -> Session]
      <3>1. target[p] \in Ops
        BY <1>16 DEF RevokeUpdate, Targets, Lookups
      <3> QED BY <1>16, <3>1, EndedType DEF RevokeUpdate, Revoke, TypeOK
    <2> QED BY <1>16, <2>1 DEF RevokeUpdate, RevokeAnswer, TypeOK, locks, call
  <1>17. ASSUME NEW p \in Ops, ReadFails(p) PROVE TypeOK'
    <2>1. session' \in [Ops -> Session]
      <3>1. pc[p] = "r_update" => target[p] \in Ops
        BY DEF Targets, Lookups
      <3>2. UNCHANGED session \/ (pc[p] = "r_update" /\ Revoke(target[p]))
        BY <1>17 DEF ReadFails
      <3>3. CASE UNCHANGED session
        BY <3>3 DEF TypeOK
      <3>4. CASE pc[p] = "r_update" /\ Revoke(target[p])
        BY <3>1, <3>4, EndedType DEF Revoke, TypeOK
      <3> QED BY <3>2, <3>3, <3>4
    <2> QED BY <1>17, <2>1 DEF ReadFails, TypeOK, locks, call
  <1>18. ASSUME NEW a \in Accounts, NEW status \in AccountStatus, SetAccountStatus(a, status)
         PROVE  TypeOK'
    <2>1. account' \in [Accounts -> AccountStatus]
      BY <1>18 DEF SetAccountStatus, TypeOK
    <2>2. liveness' \in [Ops -> [session : BOOLEAN, account : BOOLEAN]]
      <3>1. \A p \in Ops : /\ liveness[p] \in [session : BOOLEAN, account : BOOLEAN]
                          /\ [liveness[p] EXCEPT !.account = TRUE]
                               \in [session : BOOLEAN, account : BOOLEAN]
        <4>1. \A p \in Ops : liveness[p] \in [session : BOOLEAN, account : BOOLEAN]
          BY DEF TypeOK
        <4>2. ASSUME NEW r \in [session : BOOLEAN, account : BOOLEAN]
              PROVE  [r EXCEPT !.account = TRUE] \in [session : BOOLEAN, account : BOOLEAN]
          OBVIOUS
        <4> QED BY <4>1, <4>2
      <3>2. liveness' = [p \in Ops |-> liveness'[p]]
        BY <1>18 DEF SetAccountStatus
      <3>3. \A p \in Ops : \/ liveness'[p] = liveness[p]
                          \/ liveness'[p] = [liveness[p] EXCEPT !.account = TRUE]
        BY <1>18 DEF SetAccountStatus
      <3>4. \A p \in Ops : liveness'[p] \in [session : BOOLEAN, account : BOOLEAN]
        BY <3>1, <3>3
      <3> QED BY <3>2, <3>4
    <2>3. UNCHANGED <<clock, cred, session, rehashed, locks, pc, call, result>>
      BY <1>18 DEF SetAccountStatus
    <2> QED BY <2>1, <2>2, <2>3 DEF TypeOK, locks, call
  <1>19. ASSUME NEW a \in Accounts, SetCredentialStatus(a) PROVE TypeOK'
    BY <1>19 DEF SetCredentialStatus, TypeOK, Credential, locks, call
  <1>20. ASSUME NEW s \in Ops, CleanupExpired(s) PROVE TypeOK'
    <2>1. session' \in [Ops -> Session]
      BY <1>20, EndedType DEF CleanupExpired
    <2> QED BY <1>20, <2>1 DEF CleanupExpired, TypeOK, locks, call
  <1>21. CASE Tick
    BY <1>21 DEF Tick, TypeOK, rows, locks, call
  <1> QED BY <1>1, <1>2, <1>3, <1>4, <1>5, <1>6, <1>7, <1>8, <1>9, <1>10, <1>11, <1>12, <1>13,
             <1>14, <1>15, <1>16, <1>17, <1>18, <1>19, <1>20, <1>21, <1>22
      DEF Next, Step, AuthStep, SessionStep

-----------------------------------------------------------------------------
(* Targets                                                                 *)

Aimed(p) ==
  /\ pc[p] \in Logins => target[p] \in Accounts
  /\ pc[p] \in Lookups => target[p] \in Ops
  /\ pc[p] # "returned" => result[p] = "none"

\* Every step keeps targets and silence.
LEMMA TargetsStep ==
  ASSUME TypeOK, Targets, Next
  PROVE  Targets'
  <1> USE DEF Goto, Return
  <1> SUFFICES ASSUME NEW q \in Ops PROVE Aimed(q)'
    BY DEF Targets, Aimed
  <1>0. Aimed(q)
    BY DEF Targets, Aimed
  <1>1. ASSUME UNCHANGED <<pc, target, result>> PROVE Aimed(q)'
    BY <1>0, <1>1 DEF Aimed
  <1>2. ASSUME NEW p \in Ops, NEW ph, pc' = [pc EXCEPT ![p] = ph], UNCHANGED <<target, result>>,
               pc[p] # "returned",
               \/ ph \in Logins /\ pc[p] \in Logins
               \/ ph \in Lookups /\ pc[p] \in Lookups
               \/ ph \in {"rollback", "report", "crashed"}
        PROVE  Aimed(q)'
    BY <1>0, <1>2 DEF Aimed, Logins, Lookups, TypeOK
  <1>3. ASSUME NEW p \in Ops, NEW r, pc' = [pc EXCEPT ![p] = "returned"],
               result' = [result EXCEPT ![p] = r], UNCHANGED target
        PROVE  Aimed(q)'
    BY <1>0, <1>3 DEF Aimed, Logins, Lookups, TypeOK
  <1>4. ASSUME NEW p \in Ops, NEW a \in Accounts, AuthCall(p, a) PROVE Aimed(q)'
    BY <1>0, <1>4 DEF AuthCall, Aimed, Logins, Lookups, TypeOK
  <1>5. ASSUME NEW p \in Ops, NEW s \in Ops, GetCall(p, s) \/ RevokeCall(p, s) PROVE Aimed(q)'
    BY <1>0, <1>5 DEF GetCall, RevokeCall, Aimed, Logins, Lookups, TypeOK
  <1>6. ASSUME NEW p \in Ops, FindCredential(p) \/ AuthRun(p) \/ AuthTx(p) PROVE Aimed(q)'
    BY <1>2, <1>6 DEF FindCredential, AuthRun, AuthTx, Logins
  <1>7. ASSUME NEW p \in Ops, TxCredential(p) PROVE Aimed(q)'
    BY <1>2, <1>7 DEF TxCredential, Logins, call
  <1>8. ASSUME NEW p \in Ops, ReplaceMaterial(p) \/ TxAccount(p) PROVE Aimed(q)'
    BY <1>2, <1>8 DEF ReplaceMaterial, TxAccount, Logins, call
  <1>9. ASSUME NEW p \in Ops, CreateSession(p) PROVE Aimed(q)'
    <2>1. Goto(p, "commit") \/ Goto(p, "rollback")
      BY <1>9 DEF CreateSession
    <2> QED BY <1>2, <1>9, <2>1 DEF CreateSession, Logins
  <1>10. ASSUME NEW p \in Ops, TxFails(p) \/ DeadlockAbort(p) PROVE Aimed(q)'
    BY <1>2, <1>10 DEF TxFails, DeadlockAbort, call
  <1>11. ASSUME NEW p \in Ops, Commit(p) PROVE Aimed(q)'
    BY <1>2, <1>11 DEF Commit
  <1>12. ASSUME NEW p \in Ops, Crash(p) PROVE Aimed(q)'
    BY <1>2, <1>12 DEF Crash, Active, Transaction, Resolving
  <1>13. ASSUME NEW p \in Ops, AuthRejected(p) \/ CommitFails(p) \/ Rollback(p) \/ Succeed(p)
         PROVE  Aimed(q)'
    BY <1>3, <1>13 DEF AuthRejected, CommitFails, Rollback, Succeed, call
  <1>14. ASSUME NEW p \in Ops, GetFindSession(p) \/ GetFindAccount(p) PROVE Aimed(q)'
    BY <1>2, <1>3, <1>14 DEF GetFindSession, GetFindAccount, Lookups, call
  <1>15. ASSUME NEW p \in Ops, GetResolve(p) \/ RevokeUpdate(p) \/ ReadFails(p) PROVE Aimed(q)'
    BY <1>3, <1>15 DEF GetResolve, RevokeUpdate, ReadFails, call
  <1>16. ASSUME NEW p \in Ops, RevokeFind(p) \/ RevokeSelect(p) PROVE Aimed(q)'
    BY <1>2, <1>3, <1>16 DEF RevokeFind, RevokeSelect, Lookups, call
  <1>17. ASSUME NEW a \in Accounts, NEW status \in AccountStatus, SetAccountStatus(a, status)
         PROVE  Aimed(q)'
    BY <1>1, <1>17 DEF SetAccountStatus, call
  <1>18. ASSUME NEW s \in Ops, CleanupExpired(s) PROVE Aimed(q)'
    BY <1>1, <1>18 DEF CleanupExpired, call
  <1>19. CASE Tick
    BY <1>1, <1>19 DEF Tick, call
  <1>20. ASSUME NEW a \in Accounts, SetCredentialStatus(a) PROVE Aimed(q)'
    BY <1>1, <1>20 DEF SetCredentialStatus, call
  <1> QED BY <1>4, <1>5, <1>6, <1>7, <1>8, <1>9, <1>10, <1>11, <1>12, <1>13, <1>14, <1>15,
             <1>16, <1>17, <1>18, <1>19, <1>20 DEF Next, Step, AuthStep, SessionStep

-----------------------------------------------------------------------------
(* Locks                                                                   *)

\* What an authentication checked, it has locked, and it has upgraded its lock of
\* the credential if it replaces the material.
Locked(q) ==
  /\ pc[q] \in {"a_rehash", "a_account", "a_session", "commit"} =>
       q \in credShare[target[q]] /\ cred[target[q]] = seen[q]
  /\ pc[q] \in {"a_session", "commit"} =>
       q \in acctShare[target[q]] /\ account[target[q]] = "active"
  /\ pc[q] \in {"a_account", "a_session", "commit"} /\ rehash[q] => credOwner[target[q]] = q

\* An upgraded lock is shared with nobody.
Upgraded == \A a \in Accounts, q \in Ops : credOwner[a] = q => credShare[a] \subseteq {q}

Locking == Upgraded /\ \A q \in Ops : Locked(q)

\* The variables of q and the rows and locks it relies on stay.
Untouched(q) ==
  /\ pc'[q] = pc[q] /\ target'[q] = target[q] /\ seen'[q] = seen[q] /\ rehash'[q] = rehash[q]
  /\ \A a \in Accounts :
       /\ q \in credShare[a] => q \in credShare'[a] /\ cred'[a] = cred[a]
       /\ q \in acctShare[a] => q \in acctShare'[a] /\ account'[a] = account[a]
       /\ credOwner[a] = q => credOwner'[a] = q

\* Then what it checked stays true.
LEMMA UntouchedLocked ==
  ASSUME Targets, NEW q \in Ops, Locked(q), Untouched(q)
  PROVE  Locked(q)'
  <1>1. pc[q] \in Logins => target[q] \in Accounts
    BY DEF Targets
  <1> QED BY <1>1 DEF Locked, Untouched, Logins

\* The locks of an ended transaction are gone, those of others stay.
LEMMA EndTxLocks ==
  ASSUME TypeOK, NEW p \in Ops, EndTx(p), NEW q \in Ops, q # p, NEW a \in Accounts
  PROVE  /\ q \in credShare'[a] <=> q \in credShare[a]
         /\ q \in acctShare'[a] <=> q \in acctShare[a]
         /\ credOwner'[a] = q <=> credOwner[a] = q
  BY DEF EndTx, TypeOK

\* Whose material a commit replaces has nobody else looking at it.
LEMMA InstallLocks ==
  ASSUME TypeOK, Locking, NEW p \in Ops, Install(p), NEW q \in Ops, q # p, NEW a \in Accounts
  PROVE  account'[a] = account[a] /\ (q \in credShare[a] => cred'[a] = cred[a])
  <1>1. account' = account
    BY DEF Install
  <1>2. CASE UNCHANGED cred
    BY <1>1, <1>2
  <1>3. CASE credOwner[target[p]] = p /\ cred' = [cred EXCEPT ![target[p]] = Replaced(@)]
    <2>1. q \in credShare[a] => a # target[p]
      BY <1>3 DEF Locking, Upgraded
    <2> QED BY <1>1, <1>3, <2>1 DEF TypeOK
  <1> QED BY <1>2, <1>3 DEF Install

\* Every step keeps the locks.
LEMMA LockedStep ==
  ASSUME TypeOK, Targets, Locking, Next, NEW q \in Ops
  PROVE  Locked(q)'
  <1> USE DEF Goto, Return
  <1>0. Locked(q)
    BY DEF Locking
  <1>1. ASSUME Untouched(q) PROVE Locked(q)'
    BY <1>0, <1>1, UntouchedLocked
  <1>2. ASSUME pc'[q] \notin {"a_rehash", "a_account", "a_session", "commit"} PROVE Locked(q)'
    BY <1>2 DEF Locked
  <1>3. ASSUME UNCHANGED <<pc, target, seen, rehash, account, cred, acctShare, credShare, credOwner>>
        PROVE  Locked(q)'
    BY <1>1, <1>3 DEF Untouched
  <1>4. ASSUME NEW p \in Ops, NEW ph, pc' = [pc EXCEPT ![p] = ph],
               ph \notin {"a_rehash", "a_account", "a_session", "commit"},
               p # q => Untouched(q)
        PROVE  Locked(q)'
    <2>1. p = q => pc'[q] = ph
      BY <1>4 DEF TypeOK
    <2> QED BY <1>1, <1>2, <1>4, <2>1
  <1>5. ASSUME NEW p \in Ops, NEW ph, pc' = [pc EXCEPT ![p] = ph],
               ph \notin {"a_rehash", "a_account", "a_session", "commit"},
               UNCHANGED <<account, cred, locks>>,
               \A r \in Ops \ {p} : /\ target'[r] = target[r] /\ seen'[r] = seen[r]
                                   /\ rehash'[r] = rehash[r]
        PROVE  Locked(q)'
    <2>1. p # q => Untouched(q)
      BY <1>5 DEF Untouched, TypeOK, locks
    <2> QED BY <1>4, <1>5, <2>1
  <1>6. ASSUME NEW p \in Ops, NEW a \in Accounts, AuthCall(p, a) PROVE Locked(q)'
    BY <1>5, <1>6 DEF AuthCall, TypeOK, rows
  <1>7. ASSUME NEW p \in Ops, NEW s \in Ops, GetCall(p, s) \/ RevokeCall(p, s) PROVE Locked(q)'
    BY <1>5, <1>7 DEF GetCall, RevokeCall, TypeOK, rows
  <1>8. ASSUME NEW p \in Ops, FindCredential(p) \/ AuthRun(p) PROVE Locked(q)'
    BY <1>5, <1>8 DEF FindCredential, AuthRun, TypeOK, rows
  <1>9. ASSUME NEW p \in Ops, \/ AuthRejected(p) \/ TxFails(p) \/ DeadlockAbort(p) \/ Succeed(p)
                              \/ GetFindSession(p) \/ GetFindAccount(p)
                              \/ RevokeFind(p) \/ RevokeSelect(p)
        PROVE  Locked(q)'
    <2>1. UNCHANGED <<account, cred, locks, target, seen, rehash>>
      BY <1>9 DEF AuthRejected, TxFails, DeadlockAbort, Succeed, GetFindSession, GetFindAccount,
                  RevokeFind, RevokeSelect, rows, call
    <2>2. \E ph \in {"returned", "rollback", "g_account", "g_clock", "r_select", "r_update"} : Goto(p, ph)
      BY <1>9 DEF AuthRejected, TxFails, DeadlockAbort, Succeed, GetFindSession, GetFindAccount,
                  RevokeFind, RevokeSelect
    <2> QED BY <1>5, <2>1, <2>2
  <1>10. ASSUME NEW p \in Ops, AuthTx(p) PROVE Locked(q)'
    BY <1>5, <1>10 DEF AuthTx, rows
  <1>11. ASSUME NEW p \in Ops, TxCredential(p) PROVE Locked(q)'
    <2>1. credShare' = [credShare EXCEPT ![target[p]] = @ \cup {p}] /\ target[p] \in Accounts
      BY <1>11 DEF TxCredential, Targets, Logins
    <2>2. UNCHANGED <<account, cred, acctShare, credOwner, target, seen, rehash>>
      BY <1>11 DEF TxCredential, rows, call
    <2>3. CASE p # q
      BY <1>1, <1>11, <2>1, <2>2, <2>3 DEF TxCredential, Untouched, TypeOK
    <2>4. CASE p = q
      <3>1. pc'[q] \in {"rollback", "a_rehash", "a_account"}
        BY <1>11, <2>4 DEF TxCredential, TypeOK
      <3>2. pc'[q] \in {"a_rehash", "a_account"} => cred[target[q]] = seen[q]
        BY <1>11, <2>4 DEF TxCredential, TypeOK
      <3>3. pc'[q] = "a_account" => ~rehash[q]
        BY <1>11, <2>4 DEF TxCredential, TypeOK
      <3>4. q \in credShare'[target[q]]
        BY <2>1, <2>4 DEF TypeOK
      <3> QED BY <2>2, <3>1, <3>2, <3>3, <3>4 DEF Locked
    <2> QED BY <2>3, <2>4
  <1>12. ASSUME NEW p \in Ops, ReplaceMaterial(p) PROVE Locked(q)'
    <2>1. UNCHANGED <<account, cred, acctShare, credShare, target, seen, rehash>>
      BY <1>12 DEF ReplaceMaterial, rows, call
    <2>2. /\ pc[p] = "a_rehash" /\ credOwner[target[p]] = NoOp /\ target[p] \in Accounts
          /\ \/ credOwner' = [credOwner EXCEPT ![target[p]] = p] /\ pc' = [pc EXCEPT ![p] = "a_account"]
             \/ UNCHANGED credOwner /\ pc' = [pc EXCEPT ![p] = "rollback"]
      BY <1>12 DEF ReplaceMaterial, Targets, Logins
    <2>3. CASE p # q
      BY <1>1, <2>1, <2>2, <2>3 DEF Untouched, TypeOK
    <2>4. CASE p = q
      BY <1>0, <2>1, <2>2, <2>4 DEF Locked, TypeOK
    <2> QED BY <2>3, <2>4
  <1>13. ASSUME NEW p \in Ops, TxAccount(p) PROVE Locked(q)'
    <2>1. UNCHANGED <<account, cred, credOwner, credShare, target, seen, rehash>>
      BY <1>13 DEF TxAccount, rows, call
    <2>2. /\ pc[p] = "a_account" /\ target[p] \in Accounts
          /\ acctShare' = [acctShare EXCEPT ![target[p]] = @ \cup {p}]
          /\ \/ pc' = [pc EXCEPT ![p] = "a_session"] /\ account[target[p]] = "active"
             \/ pc' = [pc EXCEPT ![p] = "rollback"]
      BY <1>13 DEF TxAccount, Targets, Logins
    <2>3. CASE p # q
      BY <1>1, <2>1, <2>2, <2>3 DEF Untouched, TypeOK
    <2>4. CASE p = q
      BY <1>0, <2>1, <2>2, <2>4 DEF Locked, TypeOK
    <2> QED BY <2>3, <2>4
  <1>14. ASSUME NEW p \in Ops, CreateSession(p) PROVE Locked(q)'
    <2>1. UNCHANGED <<account, cred, locks, target, seen, rehash>> /\ pc[p] = "a_session"
      BY <1>14 DEF CreateSession, rows
    <2>2. pc' = [pc EXCEPT ![p] = "commit"] \/ pc' = [pc EXCEPT ![p] = "rollback"]
      BY <1>14 DEF CreateSession
    <2> QED BY <1>0, <1>5, <2>1, <2>2 DEF Locked, locks, TypeOK
  <1>15. ASSUME NEW p \in Ops, EndTx(p), Install(p) \/ UNCHANGED rows, UNCHANGED <<target, seen, rehash>>,
                \E ph \in {"report", "returned", "crashed"} : pc' = [pc EXCEPT ![p] = ph]
         PROVE  Locked(q)'
    <2>1. PICK ph \in {"report", "returned", "crashed"} : pc' = [pc EXCEPT ![p] = ph]
      BY <1>15
    <2>2. ASSUME p # q PROVE Untouched(q)
      <3>1. \A a \in Accounts : /\ q \in credShare'[a] <=> q \in credShare[a]
                                /\ q \in acctShare'[a] <=> q \in acctShare[a]
                                /\ credOwner'[a] = q <=> credOwner[a] = q
        BY <1>15, <2>2, EndTxLocks
      <3>2. \A a \in Accounts : account'[a] = account[a] /\ (q \in credShare[a] => cred'[a] = cred[a])
        BY <1>15, <2>2, InstallLocks DEF rows
      <3> QED BY <1>15, <2>1, <2>2, <3>1, <3>2 DEF Untouched, TypeOK
    <2> QED BY <1>4, <2>1, <2>2
  <1>16. ASSUME NEW p \in Ops, Commit(p) \/ CommitFails(p) \/ Rollback(p) \/ Crash(p) PROVE Locked(q)'
    BY <1>15, <1>16 DEF Commit, CommitFails, Rollback, Crash
  <1>17. ASSUME NEW p \in Ops, GetResolve(p) \/ RevokeUpdate(p) \/ ReadFails(p) PROVE Locked(q)'
    BY <1>5, <1>17 DEF GetResolve, RevokeUpdate, ReadFails, rows, call
  <1>18. ASSUME NEW a \in Accounts, NEW status \in AccountStatus, SetAccountStatus(a, status)
         PROVE  Locked(q)'
    <2>1. Untouched(q)
      BY <1>18 DEF SetAccountStatus, Untouched, TypeOK, locks, call
    <2> QED BY <1>1, <2>1
  <1>19. ASSUME NEW a \in Accounts, SetCredentialStatus(a) PROVE Locked(q)'
    <2>1. Untouched(q)
      BY <1>19 DEF SetCredentialStatus, Untouched, TypeOK, locks, call
    <2> QED BY <1>1, <2>1
  <1>20. ASSUME NEW s \in Ops, CleanupExpired(s) PROVE Locked(q)'
    BY <1>3, <1>20 DEF CleanupExpired, locks, call
  <1>21. CASE Tick
    BY <1>3, <1>21 DEF Tick, rows, locks, call
  <1> QED BY <1>6, <1>7, <1>8, <1>9, <1>10, <1>11, <1>12, <1>13, <1>14, <1>16, <1>17, <1>18, <1>19,
             <1>20, <1>21 DEF Next, Step, AuthStep, SessionStep

\* Every step keeps upgraded locks exclusive.
LEMMA UpgradedStep ==
  ASSUME TypeOK, Targets, Locking, Next
  PROVE  Upgraded'
  <1>0. Upgraded
    BY DEF Locking
  <1>1. ASSUME UNCHANGED <<credShare, credOwner>> PROVE Upgraded'
    BY <1>0, <1>1 DEF Upgraded
  <1>2. ASSUME NEW p \in Ops, EndTx(p) PROVE Upgraded'
    <2>1. \A a \in Accounts : credShare'[a] \subseteq credShare[a]
      BY <1>2 DEF EndTx
    <2>2. \A a \in Accounts, q \in Ops : credOwner'[a] = q => credOwner[a] = q
      BY <1>2 DEF EndTx
    <2> QED BY <1>0, <2>1, <2>2 DEF Upgraded
  <1>3. ASSUME NEW p \in Ops, TxCredential(p) PROVE Upgraded'
    <2>1. credShare' = [credShare EXCEPT ![target[p]] = @ \cup {p}] /\ UNCHANGED credOwner
      BY <1>3 DEF TxCredential
    <2>2. credOwner[target[p]] = NoOp
      BY <1>3 DEF TxCredential
    <2> QED BY <1>0, <2>1, <2>2 DEF Upgraded, TypeOK
  <1>4. ASSUME NEW p \in Ops, ReplaceMaterial(p) PROVE Upgraded'
    <2>1. UNCHANGED credShare /\ credShare[target[p]] \subseteq {p}
      BY <1>4 DEF ReplaceMaterial
    <2>2. UNCHANGED credOwner \/ credOwner' = [credOwner EXCEPT ![target[p]] = p]
      BY <1>4 DEF ReplaceMaterial
    <2>3. CASE UNCHANGED credOwner
      BY <1>1, <2>1, <2>3
    <2>4. CASE credOwner' = [credOwner EXCEPT ![target[p]] = p]
      <3>1. \A a \in Accounts : credOwner'[a] = credOwner[a] \/ (a = target[p] /\ credOwner'[a] = p)
        BY <2>4 DEF TypeOK
      <3> QED BY <1>0, <2>1, <3>1 DEF Upgraded
    <2> QED BY <2>2, <2>3, <2>4
  <1>5. ASSUME NEW p \in Ops, Commit(p) \/ CommitFails(p) \/ Rollback(p) \/ Crash(p) PROVE Upgraded'
    BY <1>2, <1>5 DEF Commit, CommitFails, Rollback, Crash
  <1>6. ASSUME NEW p \in Ops, \/ \E a \in Accounts : AuthCall(p, a)
                              \/ \E s \in Ops : GetCall(p, s) \/ RevokeCall(p, s)
        PROVE  Upgraded'
    BY <1>1, <1>6 DEF AuthCall, GetCall, RevokeCall, locks
  <1>7. ASSUME NEW p \in Ops, \/ FindCredential(p) \/ AuthRun(p) \/ AuthRejected(p) \/ AuthTx(p)
                              \/ TxAccount(p) \/ CreateSession(p) \/ Succeed(p) \/ TxFails(p)
                              \/ DeadlockAbort(p)
        PROVE  Upgraded'
    BY <1>1, <1>7 DEF FindCredential, AuthRun, AuthRejected, AuthTx, TxAccount, CreateSession,
                      Succeed, TxFails, DeadlockAbort, locks
  <1>8. ASSUME NEW p \in Ops, SessionStep(p) \/ ReadFails(p) PROVE Upgraded'
    BY <1>1, <1>8 DEF SessionStep, GetFindSession, GetFindAccount, GetResolve, RevokeFind,
                      RevokeSelect, RevokeUpdate, ReadFails, locks
  <1>9. ASSUME NEW a \in Accounts, NEW status \in AccountStatus, SetAccountStatus(a, status)
        PROVE  Upgraded'
    BY <1>1, <1>9 DEF SetAccountStatus, locks
  <1>10. ASSUME NEW a \in Accounts, SetCredentialStatus(a) PROVE Upgraded'
    BY <1>1, <1>10 DEF SetCredentialStatus, locks
  <1>11. ASSUME NEW s \in Ops, CleanupExpired(s) PROVE Upgraded'
    BY <1>1, <1>11 DEF CleanupExpired, locks
  <1>12. CASE Tick
    BY <1>1, <1>12 DEF Tick, locks
  <1> QED BY <1>3, <1>4, <1>5, <1>6, <1>7, <1>8, <1>9, <1>10, <1>11, <1>12 DEF Next, Step, AuthStep

-----------------------------------------------------------------------------
(* The writes of an authentication                                         *)

Touched(p) == session[p].status # "none" \/ \E a \in Accounts : p \in rehashed[a]

\* Only a committed authentication has written, and then all it had to.
Written(p) ==
  /\ Touched(p) => /\ pc[p] \in {"report", "returned", "crashed"}
                   /\ pc[p] = "returned" => result[p] \in {"success", "transaction-failed"}
  /\ Touched(p) /\ rehash[p] => p \in rehashed[target[p]]
  /\ (pc[p] = "report" \/ result[p] = "success") /\ rehash[p] => p \in rehashed[target[p]]

Writing == \A p \in Ops : Written(p)

\* Only an authentication's method asks for replacement.
Rehashing == \A p \in Ops : rehash[p] => target[p] \in Accounts /\ pc[p] # "idle"

\* Every step keeps that.
LEMMA RehashingStep ==
  ASSUME TypeOK, Targets, Rehashing, Next
  PROVE  Rehashing'
  <1> USE DEF Goto, Return
  <1>1. ASSUME UNCHANGED <<target, rehash>>, \A p \in Ops : pc'[p] = "idle" => pc[p] = "idle"
        PROVE  Rehashing'
    BY <1>1 DEF Rehashing
  <1>2. ASSUME UNCHANGED <<target, rehash>>,
               UNCHANGED pc \/ \E p \in Ops : \E ph : pc' = [pc EXCEPT ![p] = ph] /\ ph # "idle"
        PROVE  Rehashing'
    BY <1>1, <1>2 DEF TypeOK
  <1>3. ASSUME NEW p \in Ops, NEW a \in Accounts, AuthCall(p, a) PROVE Rehashing'
    BY <1>3 DEF AuthCall, Rehashing, TypeOK
  <1>4. ASSUME NEW p \in Ops, NEW s \in Ops, GetCall(p, s) \/ RevokeCall(p, s) PROVE Rehashing'
    BY <1>4 DEF GetCall, RevokeCall, Rehashing, TypeOK
  <1>5. ASSUME NEW p \in Ops, AuthRun(p) PROVE Rehashing'
    <2>1. target[p] \in Accounts
      BY <1>5 DEF AuthRun, Targets, Logins
    <2> QED BY <1>5, <2>1 DEF AuthRun, Rehashing, TypeOK
  <1>6. ASSUME NEW p \in Ops, \/ FindCredential(p) \/ AuthRejected(p) \/ Succeed(p) \/ TxFails(p)
                              \/ DeadlockAbort(p) \/ TxCredential(p) \/ ReplaceMaterial(p)
                              \/ TxAccount(p)
        PROVE  Rehashing'
    <2>1. UNCHANGED <<target, rehash>>
      BY <1>6 DEF FindCredential, AuthRejected, Succeed, TxFails, DeadlockAbort, TxCredential,
                  ReplaceMaterial, TxAccount, call
    <2>2. \E ph \in {"a_run", "returned", "rollback", "a_rehash", "a_account", "a_session"} : Goto(p, ph)
      BY <1>6 DEF FindCredential, AuthRejected, Succeed, TxFails, DeadlockAbort, TxCredential,
                  ReplaceMaterial, TxAccount
    <2> QED BY <1>2, <2>1, <2>2
  <1>7. ASSUME NEW p \in Ops, AuthTx(p) \/ CreateSession(p) PROVE Rehashing'
    <2>1. \E ph \in {"a_credential", "rollback", "commit"} : Goto(p, ph)
      BY <1>7 DEF AuthTx, CreateSession
    <2> QED BY <1>2, <1>7, <2>1 DEF AuthTx, CreateSession
  <1>8. ASSUME NEW p \in Ops, Commit(p) \/ CommitFails(p) \/ Rollback(p) \/ Crash(p) PROVE Rehashing'
    BY <1>2, <1>8 DEF Commit, CommitFails, Rollback, Crash
  <1>9. ASSUME NEW p \in Ops, SessionStep(p) \/ ReadFails(p) PROVE Rehashing'
    <2>1. UNCHANGED <<target, rehash>>
      BY <1>9 DEF SessionStep, GetFindSession, GetFindAccount, GetResolve, RevokeFind,
                  RevokeSelect, RevokeUpdate, ReadFails, call
    <2>2. \E ph \in {"returned", "g_account", "g_clock", "r_select", "r_update"} : Goto(p, ph)
      BY <1>9 DEF SessionStep, GetFindSession, GetFindAccount, GetResolve, RevokeFind,
                  RevokeSelect, RevokeUpdate, ReadFails
    <2> QED BY <1>2, <2>1, <2>2
  <1>10. ASSUME NEW a \in Accounts, NEW status \in AccountStatus, SetAccountStatus(a, status)
         PROVE  Rehashing'
    BY <1>2, <1>10 DEF SetAccountStatus, call
  <1>11. ASSUME NEW a \in Accounts, SetCredentialStatus(a) PROVE Rehashing'
    BY <1>2, <1>11 DEF SetCredentialStatus, call
  <1>12. ASSUME NEW s \in Ops, CleanupExpired(s) PROVE Rehashing'
    BY <1>2, <1>12 DEF CleanupExpired, call
  <1>13. CASE Tick
    BY <1>2, <1>13 DEF Tick, call
  <1> QED BY <1>3, <1>4, <1>5, <1>6, <1>7, <1>8, <1>9, <1>10, <1>11, <1>12, <1>13
      DEF Next, Step, AuthStep

\* A session ends, by revocation or by expiry.
Ends(s) ==
  /\ session[s].status = "active"
  /\ \E x \in {"revoked", "expired"} : session' = [session EXCEPT ![s].status = x]

\* Sessions only end.
NoNewWrites == UNCHANGED rehashed /\ (UNCHANGED session \/ \E s \in Ops : Ends(s))

\* Then who has written has not changed.
LEMMA SameWriters ==
  ASSUME TypeOK, NoNewWrites, NEW q \in Ops
  PROVE  Touched(q)' <=> Touched(q)
  <1>1. ASSUME NEW s \in Ops, Ends(s) PROVE session'[q].status = "none" <=> session[q].status = "none"
    BY <1>1 DEF Ends, TypeOK, Session
  <1> QED BY <1>1 DEF NoNewWrites, Touched

\* A revocation ends an active session or does nothing.
LEMMA RevokeEnds ==
  ASSUME Targets, NEW p \in Ops, pc[p] = "r_update", Revoke(target[p])
  PROVE  UNCHANGED session \/ \E s \in Ops : Ends(s)
  <1>1. target[p] \in Ops
    BY DEF Targets, Lookups
  <1> QED BY <1>1 DEF Revoke, Ends

\* Every step keeps that writes belong to committed authentications.
LEMMA WrittenStep ==
  ASSUME TypeOK, Targets, Rehashing, Locking, Writing, Next, NEW q \in Ops
  PROVE  Written(q)'
  <1> USE DEF Goto, Return
  <1>0. Written(q) /\ (pc[q] # "returned" => result[q] = "none")
    BY DEF Writing, Targets
  <1>1. ASSUME NoNewWrites, pc'[q] = pc[q], result'[q] = result[q], target'[q] = target[q],
               rehash'[q] = rehash[q]
        PROVE  Written(q)'
    BY <1>0, <1>1, SameWriters DEF Written, NoNewWrites
  <1>2. ASSUME NoNewWrites, pc[q] \notin {"report", "returned", "crashed"},
               pc'[q] # "report", result'[q] # "success"
        PROVE  Written(q)'
    BY <1>0, <1>2, SameWriters DEF Written
  <1>3. ASSUME NEW p \in Ops, NEW ph, pc' = [pc EXCEPT ![p] = ph], ph # "report",
               pc[p] \notin {"report", "returned", "crashed"}, NoNewWrites,
               \/ UNCHANGED result
               \/ \E r : result' = [result EXCEPT ![p] = r] /\ r # "success",
               \A r \in Ops \ {p} : target'[r] = target[r] /\ rehash'[r] = rehash[r]
        PROVE  Written(q)'
    <2>1. CASE p = q
      <3>1. pc'[q] # "report" /\ result'[q] # "success"
        BY <1>0, <1>3, <2>1 DEF TypeOK
      <3> QED BY <1>2, <1>3, <2>1, <3>1
    <2>2. CASE p # q
      BY <1>1, <1>3, <2>2 DEF TypeOK
    <2> QED BY <2>1, <2>2
  <1>22. ASSUME NEW p \in Ops, NEW r \in {"failed", "transaction-failed"}, Return(p, r), NoNewWrites,
                pc[p] \notin {"report", "returned", "crashed"}, UNCHANGED <<target, rehash>>
         PROVE  Written(q)'
    <2>1. r # "success"
      OBVIOUS
    <2>2. \E x : result' = [result EXCEPT ![p] = x] /\ x # "success"
      BY <1>22, <2>1
    <2> QED BY <1>3, <1>22, <2>2
  <1>4. ASSUME NEW p \in Ops, NEW a \in Accounts, AuthCall(p, a) PROVE Written(q)'
    BY <1>3, <1>4 DEF AuthCall, NoNewWrites, TypeOK, rows
  <1>5. ASSUME NEW p \in Ops, NEW s \in Ops, GetCall(p, s) \/ RevokeCall(p, s) PROVE Written(q)'
    BY <1>3, <1>5 DEF GetCall, RevokeCall, NoNewWrites, TypeOK, rows
  <1>6. ASSUME NEW p \in Ops, FindCredential(p) \/ AuthRun(p) PROVE Written(q)'
    BY <1>3, <1>6 DEF FindCredential, AuthRun, NoNewWrites, TypeOK, rows
  <1>7. ASSUME NEW p \in Ops, AuthTx(p) \/ CreateSession(p) PROVE Written(q)'
    <2>1. \E ph \in {"a_credential", "rollback", "commit"} : pc' = [pc EXCEPT ![p] = ph]
      BY <1>7 DEF AuthTx, CreateSession
    <2> QED BY <1>3, <1>7, <2>1 DEF AuthTx, CreateSession, NoNewWrites, rows
  <1>8. ASSUME NEW p \in Ops, \/ AuthRejected(p) \/ TxFails(p) \/ DeadlockAbort(p)
                              \/ GetFindSession(p) \/ GetFindAccount(p)
                              \/ RevokeFind(p) \/ RevokeSelect(p)
                              \/ TxCredential(p) \/ ReplaceMaterial(p) \/ TxAccount(p)
        PROVE  Written(q)'
    <2>1. NoNewWrites /\ UNCHANGED <<target, rehash>> /\ pc[p] \notin {"report", "returned", "crashed"}
      BY <1>8 DEF AuthRejected, TxFails, DeadlockAbort, GetFindSession, GetFindAccount,
                  RevokeFind, RevokeSelect, TxCredential, ReplaceMaterial, TxAccount,
                  rows, call, NoNewWrites
    <2>2. \E ph \in {"returned", "rollback", "g_account", "g_clock", "r_select", "r_update",
                    "a_rehash", "a_account", "a_session"} : Goto(p, ph)
      BY <1>8 DEF AuthRejected, TxFails, DeadlockAbort, GetFindSession, GetFindAccount,
                  RevokeFind, RevokeSelect, TxCredential, ReplaceMaterial, TxAccount
    <2>3. UNCHANGED result \/ \E r : result' = [result EXCEPT ![p] = r] /\ r # "success"
      BY <1>8 DEF AuthRejected, TxFails, DeadlockAbort, GetFindSession, GetFindAccount,
                  RevokeFind, RevokeSelect, RevokeAnswer, TxCredential, ReplaceMaterial, TxAccount
    <2> QED BY <1>3, <2>1, <2>2, <2>3
  <1>9. ASSUME NEW p \in Ops, Install(p), pc[p] = "commit", UNCHANGED <<target, rehash>>,
               \/ pc' = [pc EXCEPT ![p] = "report"] /\ UNCHANGED result
               \/ /\ pc' = [pc EXCEPT ![p] = "returned"]
                  /\ result' = [result EXCEPT ![p] = "transaction-failed"]
        PROVE  Written(q)'
    <2>1. session' = [session EXCEPT ![p] = write[p]]
      BY <1>9 DEF Install
    <2>2. \/ UNCHANGED rehashed /\ credOwner[target[p]] # p
          \/ rehashed' = [rehashed EXCEPT ![target[p]] = @ \cup {p}]
      BY <1>9 DEF Install
    <2>3. target[p] \in Accounts /\ (rehash[p] => credOwner[target[p]] = p)
      BY <1>9 DEF Targets, Logins, Locking, Locked
    <2>4. CASE p # q
      <3>1. session'[q] = session[q]
        BY <2>1, <2>4 DEF TypeOK
      <3>2. \A a \in Accounts : q \in rehashed'[a] <=> q \in rehashed[a]
        <4>1. CASE UNCHANGED rehashed
          BY <4>1
        <4>2. CASE rehashed' = [rehashed EXCEPT ![target[p]] = @ \cup {p}]
          BY <2>4, <4>2 DEF TypeOK
        <4> QED BY <2>2, <4>1, <4>2
      <3>3. pc'[q] = pc[q] /\ result'[q] = result[q]
        BY <1>9, <2>4 DEF TypeOK
      <3>4. rehash[q] => target[q] \in Accounts
        BY DEF Rehashing
      <3>5. Touched(q)' <=> Touched(q)
        BY <3>1, <3>2 DEF Touched
      <3> QED BY <1>0, <1>9, <3>2, <3>3, <3>4, <3>5 DEF Written
    <2>5. CASE p = q
      <3>1. rehash[q] => q \in rehashed'[target[q]]
        BY <2>2, <2>3, <2>5 DEF TypeOK
      <3>2. /\ pc'[q] \in {"report", "returned"}
            /\ pc'[q] = "returned" => result'[q] = "transaction-failed"
        BY <1>9, <2>5 DEF TypeOK
      <3> QED BY <1>9, <3>1, <3>2 DEF Written
    <2> QED BY <2>4, <2>5
  <1>10. ASSUME NEW p \in Ops, Commit(p) PROVE Written(q)'
    BY <1>9, <1>10 DEF Commit
  <1>11. ASSUME NEW p \in Ops, CommitFails(p) PROVE Written(q)'
    <2>1. CASE Install(p)
      BY <1>9, <1>11, <2>1 DEF CommitFails
    <2>2. CASE UNCHANGED rows
      <3>1. NoNewWrites /\ UNCHANGED <<target, rehash>> /\ pc[p] \notin {"report", "returned", "crashed"}
        BY <1>11, <2>2 DEF CommitFails, NoNewWrites, rows
      <3>2. Return(p, "transaction-failed")
        BY <1>11 DEF CommitFails
      <3> QED BY <1>22, <3>1, <3>2
    <2> QED BY <1>11, <2>1, <2>2 DEF CommitFails
  <1>12. ASSUME NEW p \in Ops, Rollback(p) PROVE Written(q)'
    BY <1>3, <1>12 DEF Rollback, NoNewWrites, rows
  <1>13. ASSUME NEW p \in Ops, Succeed(p) PROVE Written(q)'
    <2>1. NoNewWrites /\ UNCHANGED <<target, rehash, rehashed>>
      BY <1>13 DEF Succeed, NoNewWrites, rows, call
    <2>2. CASE p = q
      <3>1. pc[q] = "report" /\ pc'[q] = "returned" /\ result'[q] = "success"
        BY <1>13, <2>2 DEF Succeed, TypeOK
      <3> QED BY <1>0, <2>1, <3>1, SameWriters DEF Written
    <2>3. CASE p # q
      BY <1>1, <1>13, <2>1, <2>3 DEF Succeed, TypeOK
    <2> QED BY <2>2, <2>3
  <1>14. ASSUME NEW p \in Ops, Crash(p) PROVE Written(q)'
    <2>1. NoNewWrites /\ UNCHANGED <<target, rehash, rehashed, result>>
      BY <1>14 DEF Crash, NoNewWrites, rows
    <2>2. CASE p = q
      <3>1. pc'[q] = "crashed" /\ result'[q] # "success"
        BY <1>0, <1>14, <2>2 DEF Crash, Active, Transaction, Resolving, TypeOK
      <3> QED BY <1>0, <2>1, <3>1, SameWriters DEF Written
    <2>3. CASE p # q
      BY <1>1, <1>14, <2>1, <2>3 DEF Crash, TypeOK
    <2> QED BY <2>2, <2>3
  <1>15. ASSUME NEW p \in Ops, GetResolve(p) PROVE Written(q)'
    <2> DEFINE answer == IF session[target[p]].expiresAt > clock THEN "resolved" ELSE "no-session"
    <2>1. \E r : result' = [result EXCEPT ![p] = r] /\ r # "success"
      <3>1. result' = [result EXCEPT ![p] = answer]
        BY <1>15 DEF GetResolve
      <3>2. answer # "success"
        OBVIOUS
      <3> HIDE DEF answer
      <3> QED BY <3>1, <3>2
    <2> QED BY <1>3, <1>15, <2>1 DEF GetResolve, NoNewWrites, rows
  <1>16. ASSUME NEW p \in Ops, RevokeUpdate(p) PROVE Written(q)'
    <2>1. NoNewWrites /\ UNCHANGED <<target, rehash>>
      BY <1>16, RevokeEnds DEF RevokeUpdate, NoNewWrites, call
    <2>2. \E r : result' = [result EXCEPT ![p] = r] /\ r # "success"
      <3>1. result' = [result EXCEPT ![p] = RevokeAnswer(target[p])]
        BY <1>16 DEF RevokeUpdate
      <3>2. RevokeAnswer(target[p]) # "success"
        BY DEF RevokeAnswer
      <3> QED BY <3>1, <3>2
    <2> QED BY <1>3, <1>16, <2>1, <2>2 DEF RevokeUpdate
  <1>17. ASSUME NEW p \in Ops, ReadFails(p) PROVE Written(q)'
    <2>1. NoNewWrites /\ UNCHANGED <<target, rehash>>
      BY <1>17, RevokeEnds DEF ReadFails, NoNewWrites, call
    <2>2. pc[p] \notin {"report", "returned", "crashed"}
      BY <1>17 DEF ReadFails, Resolving
    <2>3. Return(p, "failed")
      BY <1>17 DEF ReadFails
    <2> QED BY <1>22, <2>1, <2>2, <2>3
  <1>18. ASSUME NEW a \in Accounts, NEW status \in AccountStatus, SetAccountStatus(a, status)
         PROVE  Written(q)'
    BY <1>1, <1>18 DEF SetAccountStatus, NoNewWrites, call
  <1>19. ASSUME NEW a \in Accounts, SetCredentialStatus(a) PROVE Written(q)'
    BY <1>1, <1>19 DEF SetCredentialStatus, NoNewWrites, call
  <1>20. ASSUME NEW s \in Ops, CleanupExpired(s) PROVE Written(q)'
    BY <1>1, <1>20 DEF CleanupExpired, Ends, NoNewWrites, call
  <1>21. CASE Tick
    BY <1>1, <1>21 DEF Tick, NoNewWrites, rows, call
  <1> QED BY <1>4, <1>5, <1>6, <1>7, <1>8, <1>10, <1>11, <1>12, <1>13, <1>14, <1>15, <1>16, <1>17,
             <1>18, <1>19, <1>20, <1>21 DEF Next, Step, AuthStep, SessionStep

-----------------------------------------------------------------------------
(* Sessions                                                                *)

\* A session that exists belongs to an account, and so does one to be created.
Owned == \A s \in Ops : /\ session[s].status # "none" => session[s].account \in Accounts
                        /\ write[s].status # "none" => write[s].account \in Accounts

\* How a step changes the sessions.
SessionMoves ==
  \/ UNCHANGED session
  \/ \E s \in Ops : Ends(s)
  \/ \E p \in Ops : pc[p] = "commit" /\ session' = [session EXCEPT ![p] = write[p]]

\* Every step is one of these moves.
LEMMA SessionMove ==
  ASSUME Targets, Next
  PROVE  SessionMoves
  <1>1. ASSUME NEW p \in Ops, \/ \E a \in Accounts : AuthCall(p, a)
                              \/ \E s \in Ops : GetCall(p, s) \/ RevokeCall(p, s)
        PROVE  SessionMoves
    BY <1>1 DEF AuthCall, GetCall, RevokeCall, rows, SessionMoves
  <1>2. ASSUME NEW p \in Ops, \/ FindCredential(p) \/ AuthRun(p) \/ AuthRejected(p) \/ AuthTx(p)
                              \/ TxCredential(p) \/ ReplaceMaterial(p) \/ TxAccount(p)
                              \/ CreateSession(p) \/ Rollback(p) \/ Succeed(p) \/ TxFails(p)
                              \/ DeadlockAbort(p) \/ Crash(p)
        PROVE  SessionMoves
    BY <1>2 DEF FindCredential, AuthRun, AuthRejected, AuthTx, TxCredential, ReplaceMaterial,
                TxAccount, CreateSession, Rollback, Succeed, TxFails, DeadlockAbort, Crash,
                rows, SessionMoves
  <1>3. ASSUME NEW p \in Ops, Commit(p) \/ CommitFails(p) PROVE SessionMoves
    BY <1>3 DEF Commit, CommitFails, Install, rows, SessionMoves
  <1>4. ASSUME NEW p \in Ops, \/ GetFindSession(p) \/ GetFindAccount(p) \/ GetResolve(p)
                              \/ RevokeFind(p) \/ RevokeSelect(p)
        PROVE  SessionMoves
    BY <1>4 DEF GetFindSession, GetFindAccount, GetResolve, RevokeFind, RevokeSelect, rows,
                SessionMoves
  <1>5. ASSUME NEW p \in Ops, RevokeUpdate(p) \/ ReadFails(p) PROVE SessionMoves
    BY <1>5, RevokeEnds DEF RevokeUpdate, ReadFails, SessionMoves
  <1>6. ASSUME NEW a \in Accounts, \/ \E status \in AccountStatus : SetAccountStatus(a, status)
                                   \/ SetCredentialStatus(a)
        PROVE  SessionMoves
    BY <1>6 DEF SetAccountStatus, SetCredentialStatus, SessionMoves
  <1>7. ASSUME NEW s \in Ops, CleanupExpired(s) PROVE SessionMoves
    BY <1>7 DEF CleanupExpired, Ends, SessionMoves
  <1>8. CASE Tick
    BY <1>8 DEF Tick, rows, SessionMoves
  <1> QED BY <1>1, <1>2, <1>3, <1>4, <1>5, <1>6, <1>7, <1>8 DEF Next, Step, AuthStep, SessionStep

\* A session keeps its account and expiry, and once ended all of itself.
Kept(s) ==
  session[s].status # "none" =>
    /\ session'[s].status # "none"
    /\ session'[s].account = session[s].account
    /\ session'[s].expiresAt = session[s].expiresAt
    /\ session[s].status \in {"revoked", "expired"} => session'[s] = session[s]

\* Every step keeps every session so: a call that commits had none yet.
LEMMA SessionsKept ==
  ASSUME TypeOK, Targets, Writing, Next, NEW s \in Ops
  PROVE  Kept(s)
  <1>1. CASE UNCHANGED session
    BY <1>1 DEF Kept
  <1>2. ASSUME NEW x \in Ops, Ends(x) PROVE Kept(s)
    BY <1>2 DEF Ends, Kept, TypeOK, Session
  <1>3. ASSUME NEW p \in Ops, pc[p] = "commit", session' = [session EXCEPT ![p] = write[p]]
        PROVE  Kept(s)
    <2>1. session[p].status = "none"
      BY <1>3 DEF Writing, Written, Touched
    <2> QED BY <1>3, <2>1 DEF Kept, TypeOK
  <1> QED BY <1>1, <1>2, <1>3, SessionMove DEF SessionMoves

\* How a step changes the row a transaction would insert.
WriteMoves ==
  \A s \in Ops : \/ write'[s] = write[s]
                 \/ write'[s] = NoSession
                 \/ target[s] \in Accounts /\ \E e \in Nat : write'[s] = NewSession(target[s], e)

\* Every step is one of these moves.
LEMMA WriteMove ==
  ASSUME TypeOK, Targets, Next
  PROVE  WriteMoves
  <1>1. ASSUME UNCHANGED write PROVE WriteMoves
    BY <1>1 DEF WriteMoves
  <1>2. ASSUME NEW p \in Ops, EndTx(p) PROVE WriteMoves
    BY <1>2 DEF EndTx, WriteMoves, TypeOK
  <1>3. ASSUME NEW p \in Ops, CreateSession(p) PROVE WriteMoves
    <2>1. target[p] \in Accounts
      BY <1>3 DEF CreateSession, Targets, Logins
    <2>2. UNCHANGED write \/ \E e \in (at[p] + 1)..(Horizon + 1) :
            write' = [write EXCEPT ![p] = NewSession(target[p], e)]
      BY <1>3 DEF CreateSession
    <2>3. ASSUME NEW e \in (at[p] + 1)..(Horizon + 1),
                 write' = [write EXCEPT ![p] = NewSession(target[p], e)]
          PROVE  WriteMoves
      <3>1. e \in Nat
        BY DEF TypeOK
      <3> QED BY <2>1, <2>3, <3>1 DEF WriteMoves, TypeOK
    <2> QED BY <1>1, <2>2, <2>3
  <1>4. ASSUME NEW p \in Ops, Commit(p) \/ CommitFails(p) \/ Rollback(p) \/ Crash(p) PROVE WriteMoves
    BY <1>2, <1>4 DEF Commit, CommitFails, Rollback, Crash
  <1>5. ASSUME NEW p \in Ops, \/ \E a \in Accounts : AuthCall(p, a)
                              \/ \E s \in Ops : GetCall(p, s) \/ RevokeCall(p, s)
        PROVE  WriteMoves
    BY <1>1, <1>5 DEF AuthCall, GetCall, RevokeCall
  <1>6. ASSUME NEW p \in Ops, \/ FindCredential(p) \/ AuthRun(p) \/ AuthRejected(p) \/ AuthTx(p)
                              \/ TxCredential(p) \/ ReplaceMaterial(p) \/ TxAccount(p)
                              \/ Succeed(p) \/ TxFails(p) \/ DeadlockAbort(p)
        PROVE  WriteMoves
    BY <1>1, <1>6 DEF FindCredential, AuthRun, AuthRejected, AuthTx, TxCredential, ReplaceMaterial,
                      TxAccount, Succeed, TxFails, DeadlockAbort, call
  <1>7. ASSUME NEW p \in Ops, SessionStep(p) \/ ReadFails(p) PROVE WriteMoves
    BY <1>1, <1>7 DEF SessionStep, GetFindSession, GetFindAccount, GetResolve, RevokeFind,
                      RevokeSelect, RevokeUpdate, ReadFails, call
  <1>8. ASSUME NEW a \in Accounts, \/ \E status \in AccountStatus : SetAccountStatus(a, status)
                                   \/ SetCredentialStatus(a)
        PROVE  WriteMoves
    BY <1>1, <1>8 DEF SetAccountStatus, SetCredentialStatus, call
  <1>9. ASSUME NEW s \in Ops, CleanupExpired(s) PROVE WriteMoves
    BY <1>1, <1>9 DEF CleanupExpired, call
  <1>10. CASE Tick
    BY <1>1, <1>10 DEF Tick, call
  <1> QED BY <1>3, <1>4, <1>5, <1>6, <1>7, <1>8, <1>9, <1>10 DEF Next, Step, AuthStep

\* Every step keeps sessions owned.
LEMMA OwnedStep ==
  ASSUME TypeOK, Targets, Writing, Owned, Next
  PROVE  Owned'
  <1> SUFFICES ASSUME NEW s \in Ops
               PROVE  /\ session'[s].status # "none" => session'[s].account \in Accounts
                      /\ write'[s].status # "none" => write'[s].account \in Accounts
    BY DEF Owned
  <1>1. /\ session[s].status # "none" => session[s].account \in Accounts
        /\ write[s].status # "none" => write[s].account \in Accounts
    BY DEF Owned
  <1>2. write'[s].status # "none" => write'[s].account \in Accounts
    <2>1. CASE write'[s] = write[s]
      BY <1>1, <2>1
    <2>2. CASE write'[s] = NoSession
      BY <2>2 DEF NoSession
    <2>3. ASSUME NEW e \in Nat, target[s] \in Accounts, write'[s] = NewSession(target[s], e)
          PROVE  write'[s].account \in Accounts
      BY <2>3 DEF NewSession
    <2> QED BY <2>1, <2>2, <2>3, WriteMove DEF WriteMoves
  <1>3. session'[s].status # "none" => session'[s].account \in Accounts
    <2>1. CASE session[s].status # "none"
      BY <1>1, <2>1, SessionsKept DEF Kept
    <2>2. CASE session[s].status = "none"
      <3>1. ASSUME NEW x \in Ops, Ends(x) PROVE session'[s] = session[s]
        BY <2>2, <3>1 DEF Ends, TypeOK
      <3>2. ASSUME NEW p \in Ops, session' = [session EXCEPT ![p] = write[p]]
            PROVE  session'[s] \in {session[s], write[s]}
        BY <3>2 DEF TypeOK
      <3> QED BY <1>1, <3>1, <3>2, SessionMove DEF SessionMoves
    <2> QED BY <2>1, <2>2
  <1> QED BY <1>2, <1>3

-----------------------------------------------------------------------------
(* What getSession and revokeSession know of the session                   *)

\* A call on a session that it found: the session exists, and what a getSession
\* has seen, or still can see, its history records.
Answering(q) ==
  /\ pc[q] \in {"g_session", "g_account", "g_clock", "r_select", "r_update"} =>
       session[target[q]].status # "none"
  /\ pc[q] \in Resolving /\ session[target[q]].status = "active" => liveness[q].session
  /\ pc[q] \in Resolving /\ account[session[target[q]].account] = "active" => liveness[q].account
  /\ pc[q] \in {"g_account", "g_clock"} => liveness[q].session
  /\ pc[q] = "g_clock" => liveness[q].account
  /\ result[q] = "resolved" =>
       /\ target[q] \in Ops /\ session[target[q]].status # "none"
       /\ liveness[q].session /\ liveness[q].account
       /\ session[target[q]].expiresAt > at[q]
  /\ result[q] \in {"revoked", "inconsistent"} =>
       target[q] \in Ops /\ session[target[q]].status \in {"revoked", "expired"}

\* The variables of q stay.
Idles(q) == /\ pc'[q] = pc[q] /\ target'[q] = target[q] /\ at'[q] = at[q]
            /\ result'[q] = result[q]

\* Whoever idles keeps it, whatever happens to the sessions of others.
LEMMA IdlesAnswering ==
  ASSUME TypeOK, Targets, NEW q \in Ops, Answering(q), \A s \in Ops : Kept(s), Idles(q),
         liveness'[q] = liveness[q], UNCHANGED account
  PROVE  Answering(q)'
  <1>1. pc[q] \in Lookups => target[q] \in Ops
    BY DEF Targets
  <1>2. CASE pc[q] \in Lookups
    <2>1. Kept(target[q]) /\ result[q] = "none"
      BY <1>1, <1>2 DEF Targets, Lookups
    <2>2. session[target[q]].status # "none" =>
            /\ session'[target[q]].status # "none"
            /\ session'[target[q]].account = session[target[q]].account
            /\ session'[target[q]].status = "active" => session[target[q]].status = "active"
      BY <1>1, <1>2, <2>1 DEF Kept, TypeOK, Session
    <2> QED BY <1>2, <2>1, <2>2 DEF Answering, Idles, Lookups, Resolving
  <1>3. CASE pc[q] \notin Lookups
    <2>1. result[q] \in {"resolved", "revoked", "inconsistent"} => Kept(target[q])
      BY DEF Answering
    <2> QED BY <1>3, <2>1 DEF Answering, Idles, Kept, Lookups, Resolving
  <1> QED BY <1>2, <1>3

Getting == \A q \in Ops : Answering(q)

\* Calls in other phases, with other results, know nothing of a session.
LEMMA SilentAnswering ==
  ASSUME NEW q \in Ops, pc'[q] \notin Lookups \/ pc'[q] = "r_find",
         result'[q] \notin {"resolved", "revoked", "inconsistent"}
  PROVE  Answering(q)'
  BY DEF Answering, Lookups, Resolving

\* Every step keeps what is known.
LEMMA AnsweringStep ==
  ASSUME TypeOK, Targets, Writing, Owned, Getting, Next, NEW q \in Ops
  PROVE  Answering(q)'
  <1> USE DEF Goto, Return
  <1>0. Answering(q) /\ \A s \in Ops : Kept(s)
    BY SessionsKept DEF Getting
  <1>1. ASSUME NEW p \in Ops, UNCHANGED account, p # q => Idles(q) /\ liveness'[q] = liveness[q],
               p = q => Answering(q)'
        PROVE  Answering(q)'
    BY <1>0, <1>1, IdlesAnswering
  <1>2. /\ pc[q] # "returned" => result[q] = "none"
        /\ pc[q] \in Lookups => target[q] \in Ops
    BY DEF Targets
  <1>3. ASSUME NEW p \in Ops, NEW a \in Accounts, AuthCall(p, a) PROVE Answering(q)'
    <2>1. p # q => Idles(q) /\ liveness'[q] = liveness[q]
      BY <1>3 DEF AuthCall, Idles, TypeOK
    <2>2. p = q => pc'[q] \notin Lookups /\ result'[q] = "none"
      BY <1>2, <1>3 DEF AuthCall, Lookups, TypeOK
    <2> QED BY <1>1, <1>3, <2>1, <2>2, SilentAnswering DEF AuthCall, rows
  <1>4. ASSUME NEW p \in Ops, NEW s \in Ops, RevokeCall(p, s) PROVE Answering(q)'
    <2>1. p # q => Idles(q) /\ liveness'[q] = liveness[q]
      BY <1>4 DEF RevokeCall, Idles, TypeOK
    <2>2. p = q => pc'[q] = "r_find" /\ result'[q] = "none"
      BY <1>2, <1>4 DEF RevokeCall, TypeOK
    <2> QED BY <1>1, <1>4, <2>1, <2>2, SilentAnswering DEF RevokeCall, rows
  <1>5. ASSUME NEW p \in Ops, NEW s \in Ops, GetCall(p, s) PROVE Answering(q)'
    <2>1. p # q => Idles(q) /\ liveness'[q] = liveness[q]
      BY <1>5 DEF GetCall, Idles, TypeOK
    <2>2. ASSUME p = q PROVE Answering(q)'
      <3>1. /\ pc'[q] = "g_session" /\ target'[q] = s /\ result'[q] = "none"
            /\ liveness'[q].session = (session[s].status = "active")
            /\ liveness'[q].account = (account[session[s].account] = "active")
            /\ UNCHANGED <<session, account>> /\ session[s].status # "none"
        BY <1>2, <1>5, <2>2 DEF GetCall, TypeOK, rows
      <3> QED BY <3>1 DEF Answering
    <2> QED BY <1>1, <1>5, <2>1, <2>2 DEF GetCall, rows
  <1>6. ASSUME NEW p \in Ops, NEW ph, pc' = [pc EXCEPT ![p] = ph], ph \notin Lookups, pc[p] # "returned",
               UNCHANGED <<result, account, liveness>>,
               \A r \in Ops \ {p} : target'[r] = target[r] /\ at'[r] = at[r]
        PROVE  Answering(q)'
    <2>1. p # q => Idles(q) /\ liveness'[q] = liveness[q]
      BY <1>6 DEF Idles, TypeOK
    <2>2. p = q => pc'[q] \notin Lookups /\ result'[q] = "none"
      BY <1>2, <1>6 DEF TypeOK
    <2> QED BY <1>1, <1>6, <2>1, <2>2, SilentAnswering
  <1>7. ASSUME NEW p \in Ops, NEW r \in {"failed", "transaction-failed", "success", "no-session", "ignored"},
               Return(p, r), UNCHANGED <<account, liveness, target>>,
               \A x \in Ops \ {p} : at'[x] = at[x]
        PROVE  Answering(q)'
    <2>1. p # q => Idles(q) /\ liveness'[q] = liveness[q]
      BY <1>7 DEF Idles, TypeOK
    <2>2. p = q => pc'[q] = "returned" /\ result'[q] = r
      BY <1>7 DEF TypeOK
    <2> QED BY <1>1, <1>7, <2>1, <2>2, SilentAnswering DEF Lookups
  <1>8. ASSUME NEW p \in Ops, FindCredential(p) \/ AuthRun(p) \/ AuthTx(p) PROVE Answering(q)'
    <2>1. \E ph \in {"a_run", "a_tx", "a_credential", "rollback"} : pc' = [pc EXCEPT ![p] = ph]
      BY <1>8 DEF FindCredential, AuthRun, AuthTx
    <2>2. /\ pc[p] # "returned" /\ UNCHANGED <<result, account, liveness>>
          /\ \A r \in Ops \ {p} : target'[r] = target[r] /\ at'[r] = at[r]
      BY <1>8 DEF FindCredential, AuthRun, AuthTx, ReadClock, rows, TypeOK
    <2> QED BY <1>6, <2>1, <2>2 DEF Lookups
  <1>9. ASSUME NEW p \in Ops, \/ TxCredential(p) \/ ReplaceMaterial(p) \/ TxAccount(p)
                              \/ CreateSession(p) \/ TxFails(p) \/ DeadlockAbort(p)
        PROVE  Answering(q)'
    <2>1. \E ph \in {"a_rehash", "a_account", "a_session", "commit", "rollback"} : pc' = [pc EXCEPT ![p] = ph]
      BY <1>9 DEF TxCredential, ReplaceMaterial, TxAccount, CreateSession, TxFails, DeadlockAbort
    <2>2. pc[p] # "returned" /\ UNCHANGED <<result, account, liveness, target, at>>
      BY <1>9 DEF TxCredential, ReplaceMaterial, TxAccount, CreateSession, TxFails, DeadlockAbort,
                  rows, call
    <2> QED BY <1>6, <2>1, <2>2 DEF Lookups
  <1>10. ASSUME NEW p \in Ops, Commit(p) \/ Crash(p) PROVE Answering(q)'
    <2>1. \E ph \in {"report", "crashed"} : pc' = [pc EXCEPT ![p] = ph]
      BY <1>10 DEF Commit, Crash
    <2>2. pc[p] # "returned" /\ UNCHANGED <<result, account, liveness, target, at>>
      BY <1>10 DEF Commit, Crash, Install, Active, Transaction, Resolving, rows
    <2> QED BY <1>6, <2>1, <2>2 DEF Lookups
  <1>11. ASSUME NEW p \in Ops, AuthRejected(p) \/ Succeed(p) \/ Rollback(p) \/ CommitFails(p)
         PROVE  Answering(q)'
    <2>1. \E r \in {"failed", "transaction-failed", "success"} : Return(p, r)
      BY <1>11 DEF AuthRejected, Succeed, Rollback, CommitFails
    <2>2. UNCHANGED <<account, liveness, target, at>>
      BY <1>11 DEF AuthRejected, Succeed, Rollback, CommitFails, Install, rows, call
    <2> QED BY <1>7, <2>1, <2>2
  <1>12. ASSUME NEW p \in Ops, \/ GetFindSession(p) \/ GetFindAccount(p)
                               \/ RevokeFind(p) \/ RevokeSelect(p)
         PROVE  Answering(q)'
    <2>1. UNCHANGED <<account, session, liveness, target, at>>
      BY <1>12 DEF GetFindSession, GetFindAccount, RevokeFind, RevokeSelect, rows, call
    <2>2. p # q => Idles(q) /\ liveness'[q] = liveness[q]
      BY <1>12, <2>1 DEF GetFindSession, GetFindAccount, RevokeFind, RevokeSelect, Idles, TypeOK
    <2>3. CASE p = q /\ GetFindSession(p)
      <3>1. CASE session[target[q]].status = "active"
        <4>1. pc[q] = "g_session" /\ pc'[q] = "g_account" /\ result'[q] = "none"
          BY <1>2, <2>3, <3>1 DEF GetFindSession, TypeOK
        <4> QED BY <1>0, <2>1, <3>1, <4>1 DEF Answering, Resolving
      <3>2. CASE session[target[q]].status # "active"
        BY <1>7, <2>1, <2>3, <3>2 DEF GetFindSession
      <3> QED BY <3>1, <3>2
    <2>4. CASE p = q /\ GetFindAccount(p)
      <3>1. CASE account[session[target[q]].account] = "active"
        <4>1. pc[q] = "g_account" /\ pc'[q] = "g_clock" /\ result'[q] = "none"
          BY <1>2, <2>4, <3>1 DEF GetFindAccount, TypeOK
        <4> QED BY <1>0, <2>1, <3>1, <4>1 DEF Answering, Resolving
      <3>2. CASE account[session[target[q]].account] # "active"
        BY <1>7, <2>1, <2>4, <3>2 DEF GetFindAccount
      <3> QED BY <3>1, <3>2
    <2>5. CASE p = q /\ RevokeFind(p)
      <3>1. CASE session[target[p]].status # "none" /\ Goto(p, "r_select") /\ UNCHANGED result
        <4>1. pc'[q] = "r_select" /\ result'[q] = "none"
          BY <1>2, <2>5, <3>1 DEF RevokeFind, TypeOK
        <4> QED BY <2>1, <2>5, <3>1, <4>1 DEF Answering, Resolving
      <3>2. CASE Return(p, "ignored") \/ Return(p, "failed")
        BY <1>7, <2>1, <3>2
      <3> QED BY <2>5, <3>1, <3>2 DEF RevokeFind
    <2>6. CASE p = q /\ RevokeSelect(p)
      <3>1. target[q] \in Ops /\ session[target[q]].status # "none"
        BY <1>0, <1>2, <2>6 DEF RevokeSelect, Answering, Lookups
      <3>2. CASE session[target[q]].status = "active"
        <4>1. pc'[q] = "r_update" /\ result'[q] = "none"
          BY <1>2, <2>6, <3>2 DEF RevokeSelect, TypeOK
        <4> QED BY <2>1, <3>1, <4>1 DEF Answering, Resolving
      <3>3. CASE session[target[q]].status # "active"
        <4>1. session[target[q]].status \in {"revoked", "expired"}
          BY <3>1, <3>3 DEF TypeOK, Session
        <4>2. pc'[q] = "returned" /\ result'[q] \in {"revoked", "inconsistent"}
          BY <2>6, <3>3 DEF RevokeSelect, RevokeAnswer, TypeOK
        <4> QED BY <2>1, <3>1, <4>1, <4>2 DEF Answering, Resolving
      <3> QED BY <3>2, <3>3
    <2>7. p = q => Answering(q)'
      BY <1>12, <2>3, <2>4, <2>5, <2>6
    <2> QED BY <1>1, <2>1, <2>2, <2>7
  <1>13. ASSUME NEW p \in Ops, GetResolve(p) PROVE Answering(q)'
    <2>1. UNCHANGED <<account, session, liveness, target>> /\ at' = [at EXCEPT ![p] = clock]
      BY <1>13 DEF GetResolve, ReadClock, rows
    <2>2. p # q => Idles(q) /\ liveness'[q] = liveness[q]
      BY <1>13, <2>1 DEF GetResolve, Idles, TypeOK
    <2>3. ASSUME p = q PROVE Answering(q)'
      <3>1. CASE session[target[q]].expiresAt > clock
        <4>1. pc'[q] = "returned" /\ result'[q] = "resolved" /\ at'[q] = clock /\ pc[q] = "g_clock"
          BY <1>13, <2>1, <2>3, <3>1 DEF GetResolve, TypeOK
        <4> QED BY <1>0, <1>2, <2>1, <3>1, <4>1 DEF Answering, Lookups, Resolving
      <3>2. CASE ~(session[target[q]].expiresAt > clock)
        <4>1. pc'[q] = "returned" /\ result'[q] = "no-session"
          BY <1>13, <2>3, <3>2 DEF GetResolve, TypeOK
        <4> QED BY <4>1, SilentAnswering DEF Lookups
      <3> QED BY <3>1, <3>2
    <2> QED BY <1>1, <2>1, <2>2, <2>3
  <1>14. ASSUME NEW p \in Ops, RevokeUpdate(p) PROVE Answering(q)'
    <2>1. UNCHANGED <<account, liveness, target, at>>
      BY <1>14 DEF RevokeUpdate, call
    <2>2. p # q => Idles(q) /\ liveness'[q] = liveness[q]
      BY <1>14, <2>1 DEF RevokeUpdate, Idles, TypeOK
    <2>3. ASSUME p = q PROVE Answering(q)'
      <3>1. target[q] \in Ops /\ session[target[q]].status # "none"
        BY <1>0, <1>2, <1>14, <2>3 DEF RevokeUpdate, Answering, Lookups
      <3>2. session'[target[q]].status \in {"revoked", "expired"}
        BY <1>14, <2>3, <3>1 DEF RevokeUpdate, Revoke, TypeOK, Session
      <3>3. pc'[q] = "returned" /\ result'[q] \in {"revoked", "inconsistent"}
        BY <1>14, <2>3 DEF RevokeUpdate, RevokeAnswer, TypeOK
      <3> QED BY <2>1, <3>1, <3>2, <3>3 DEF Answering, Resolving
    <2> QED BY <1>1, <2>1, <2>2, <2>3
  <1>15. ASSUME NEW p \in Ops, ReadFails(p) PROVE Answering(q)'
    BY <1>7, <1>15 DEF ReadFails, call
  <1>16. ASSUME NEW a \in Accounts, NEW status \in AccountStatus, SetAccountStatus(a, status)
         PROVE  Answering(q)'
    <2>1. /\ UNCHANGED <<session, pc, target, at, result>>
          /\ account' = [account EXCEPT ![a] = status]
          /\ liveness'[q] = IF pc[q] \in Resolving /\ session[target[q]].account = a /\ status = "active"
                            THEN [liveness[q] EXCEPT !.account = TRUE] ELSE liveness[q]
      BY <1>16 DEF SetAccountStatus, call
    <2>2. /\ liveness'[q].session = liveness[q].session
          /\ liveness[q].account => liveness'[q].account
          /\ pc[q] \in Resolving /\ session[target[q]].account = a /\ status = "active" => liveness'[q].account
      <3>1. liveness[q] \in [session : BOOLEAN, account : BOOLEAN]
        BY DEF TypeOK
      <3> QED BY <2>1, <3>1
    <2>3. pc[q] \in Resolving => session[target[q]].account \in Accounts
      BY <1>0, <1>2 DEF Owned, Answering, Resolving, Lookups
    <2>4. pc[q] \in Resolving /\ account'[session[target[q]].account] = "active" => liveness'[q].account
      BY <1>0, <2>1, <2>2, <2>3 DEF Answering, TypeOK
    <2> QED BY <1>0, <2>1, <2>2, <2>4 DEF Answering
  <1>17. ASSUME UNCHANGED <<pc, target, at, result, liveness, account>> PROVE Answering(q)'
    BY <1>0, <1>17, IdlesAnswering DEF Idles
  <1>18. ASSUME NEW a \in Accounts, SetCredentialStatus(a) PROVE Answering(q)'
    BY <1>17, <1>18 DEF SetCredentialStatus, call
  <1>19. ASSUME NEW s \in Ops, CleanupExpired(s) PROVE Answering(q)'
    BY <1>17, <1>19 DEF CleanupExpired, call
  <1>20. CASE Tick
    BY <1>17, <1>20 DEF Tick, rows, call
  <1> QED BY <1>3, <1>4, <1>5, <1>8, <1>9, <1>10, <1>11, <1>12, <1>13, <1>14, <1>15, <1>16, <1>18,
             <1>19, <1>20 DEF Next, Step, AuthStep, SessionStep

-----------------------------------------------------------------------------
(* Theorems                                                                *)

\* The inductive invariant.
IInv == TypeOK /\ Targets /\ Locking /\ Rehashing /\ Writing /\ Owned /\ Getting

\* It holds initially.
LEMMA Initially == Init => IInv
  <1> SUFFICES ASSUME Init PROVE IInv
    OBVIOUS
  <1>1. TypeOK
    <2>1. "idle" \in Phase
      BY DEF Phase
    <2> QED BY <2>1, NoRowTypes DEF Init, TypeOK, AccountStatus, Credential, Results
  <1>2. \A q \in Ops : /\ pc[q] = "idle" /\ target[q] = NoTarget /\ result[q] = "none" /\ ~rehash[q]
                       /\ session[q] = NoSession /\ write[q] = NoSession
    BY DEF Init
  <1>3. Targets /\ Rehashing /\ Getting
    BY <1>2 DEF Targets, Logins, Lookups, Rehashing, Getting, Answering, Resolving
  <1>4. Locking
    BY <1>2 DEF Init, Locking, Upgraded, Locked
  <1>5. Writing
    <2>1. \A q \in Ops : ~Touched(q)
      BY <1>2 DEF Init, Touched, NoSession
    <2> QED BY <1>2, <2>1 DEF Writing, Written
  <1>6. Owned
    BY <1>2 DEF Owned, NoSession
  <1> QED BY <1>1, <1>3, <1>4, <1>5, <1>6 DEF IInv

\* Every step keeps it.
LEMMA Inductive == IInv /\ [Next]_vars => IInv'
  <1> SUFFICES ASSUME IInv, [Next]_vars PROVE IInv'
    OBVIOUS
  <1>1. CASE Next
    <2>1. TypeOK' /\ Targets' /\ Rehashing'
      BY <1>1, TypeStep, TargetsStep, RehashingStep DEF IInv
    <2>2. Locking'
      BY <1>1, UpgradedStep, LockedStep DEF IInv, Locking
    <2>3. Writing'
      BY <1>1, WrittenStep DEF IInv, Writing
    <2>4. Owned'
      BY <1>1, OwnedStep DEF IInv
    <2>5. Getting'
      BY <1>1, AnsweringStep DEF IInv, Getting
    <2> QED BY <2>1, <2>2, <2>3, <2>4, <2>5 DEF IInv
  <1>2. CASE UNCHANGED vars
    BY <1>2 DEF IInv, vars, rows, locks, call, TypeOK, Targets, Locking, Upgraded, Locked, Rehashing,
                Writing, Written, Touched, Owned, Getting, Answering
  <1> QED BY <1>1, <1>2

\* The invariant holds for ever.
LEMMA Invariance == Spec => []IInv
  BY Initially, Inductive, PTL DEF Spec

\* Every variable keeps its type.
THEOREM TypeCorrect == Spec => []TypeOK
  <1>1. IInv => TypeOK
    BY DEF IInv
  <1> QED BY <1>1, Invariance, PTL

\* The row locks carry an authentication's checks, however old, to its commit.
THEOREM ChecksCarried == Spec => []CommitChecksHold
  <1>1. IInv => CommitChecksHold
    BY DEF IInv, Locking, Locked, CommitChecksHold
  <1> QED BY <1>1, Invariance, PTL

\* Session and replaced material commit together, and never under a failure.
THEOREM OneTransaction == Spec => []AtomicAuthentication
  <1>1. IInv => AtomicAuthentication
    BY DEF IInv, Targets, Writing, Written, Touched, AtomicAuthentication
  <1> QED BY <1>1, Invariance, PTL

\* A resolved session was live, its account usable and its expiry ahead.
THEOREM ResolvedLive == Spec => []ResolvedWasLive
  <1>1. IInv => ResolvedWasLive
    BY DEF IInv, Getting, Answering, ResolvedWasLive
  <1> QED BY <1>1, Invariance, PTL

\* A revocation that was let through and answered leaves the session ended.
THEOREM RevocationEnds == Spec => []RevokedIsGone
  <1>1. IInv => RevokedIsGone
    BY DEF IInv, Getting, Answering, RevokedIsGone
  <1> QED BY <1>1, Invariance, PTL

\* A session that has ended is never written again.
THEOREM EndedFinal == Spec => EndedSessionsFinal
  <1>1. ASSUME IInv, [Next]_vars
        PROVE  [\A s \in Ops :
                  session[s].status \in {"revoked", "expired"} => session'[s] = session[s]]_vars
    BY <1>1, SessionsKept DEF IInv, Kept
  <1> QED BY <1>1, Invariance, PTL DEF Spec, EndedSessionsFinal

=============================================================================
