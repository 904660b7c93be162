-------------------------- MODULE AccountFlowProofs --------------------------
(***************************************************************************)
(* For any subjects, accounts and concurrent calls: no account without an  *)
(* identity, answers that name the owner, accounts that are usable at the  *)
(* commit, and the registry as the abstraction of it all.                  *)
(***************************************************************************)
EXTENDS AccountFlow, TLAPS

USE NamesAssumption

-----------------------------------------------------------------------------
(* Invariants of one call                                                  *)

Resolved == Transaction \ {"resolve"}
After == {"lookup", "insert", "rest", "commit"}

\* What is meaningful where a call is, and that an account that bears its name
\* is its own work.
Placed(p) ==
  /\ pc[p] # "idle" => call[p] \in Call
  /\ pc[p] \in {"idle", "resolve", "account", "create", "returned", "crashed"} => staged[p] = {}
  /\ pc[p] \in Transaction \cup {"idle"} => result[p] = "none"
  /\ pc[p] \in {"rollback", "returned"} => result[p] # "none"
  /\ result[p] = "success" => pc[p] = "returned"
  /\ pc[p] \notin {"returned", "crashed"} => account[p] = "none"

\* What the call read holds, and agrees with what it resolved.
Knows(p) ==
  pc[p] \in Resolved =>
    /\ found[p].account # NoAccount =>
         resolved[p] = found[p].account /\ bound[call[p].subject] = found[p].account
    /\ found[p].verified => verified[call[p].subject]
    /\ pc[p] = "create" => found[p].account = NoAccount
    /\ pc[p] # "create" => resolved[p] \in Accounts
    /\ "account" \in staged[p] => resolved[p] = p /\ found[p].account = NoAccount
    /\ "verified" \in staged[p] => found[p].account # NoAccount

\* A call past the identity has what its kind requires.
Ready(p) ==
  /\ pc[p] \in After =>
       /\ "identity" \in staged[p] \/ found[p].account # NoAccount
       /\ call[p].verifies => "identity" \in staged[p] \/ "verified" \in staged[p] \/ found[p].verified
  /\ pc[p] \in {"rest", "commit"} /\ call[p].material => "credential" \in staged[p]

\* The account it resolved is its own or locked, and then active.
Usable(p) ==
  pc[p] \in After \cup {"identity"} =>
    \/ "account" \in staged[p]
    \/ p \in share[resolved[p]] /\ account[resolved[p]] = "active"

\* The keys it has inserted are free in the committed rows.
Free(p) ==
  /\ "identity" \in staged[p] => bound[call[p].subject] = NoAccount
  /\ "credential" \in staged[p] => credential[call[p].subject] = NoAccount

\* Its answer names the owner.
Answered(p) ==
  result[p] = "success" =>
    /\ resolved[p] \in Accounts
    /\ bound[call[p].subject] = resolved[p]
    /\ call[p].material => credential[call[p].subject] = resolved[p]
    /\ call[p].verifies => verified[call[p].subject]

\* The account it created owns its subject.
Owns(p) == account[p] # "none" => pc[p] # "idle" /\ bound[call[p].subject] = p

Calls(p) == Placed(p) /\ Knows(p) /\ Ready(p) /\ Usable(p) /\ Free(p) /\ Answered(p) /\ Owns(p)

\* No two open transactions have inserted one key.
Exclusive ==
  \A p, q \in Ops, w \in {"identity", "credential"} :
    w \in staged[p] /\ w \in staged[q] /\ call[p].subject = call[q].subject => p = q

\* Only an identity there is can be verified.
Sane == \A s \in Subjects : verified[s] => bound[s] # NoAccount

\* The inductive invariant.
IInv == TypeOK /\ (\A p \in Ops : Calls(p)) /\ Exclusive /\ Sane

-----------------------------------------------------------------------------
(* Types                                                                   *)

\* The names of accounts, and what a call may be.
LEMMA Names ==
  /\ NoAccount \notin Accounts /\ Existing \subseteq Accounts /\ Ops \subseteq Accounts
  /\ \A c \in Call : /\ c.subject \in Subjects /\ c.actor \in Accounts \cup {NoAccount}
                     /\ c.material \in BOOLEAN /\ c.verifies \in BOOLEAN
                     /\ c.mode = "link-to-actor-account" => c.actor \in Accounts
  BY DEF Accounts, Call

\* A refusal is an answer, and no success.
LEMMA RefusalType ==
  ASSUME NEW c, NEW identity
  PROVE  Refusal(c, identity) \in {"conflict", "unauthenticated", "denied", "none"}
  BY DEF Refusal

\* The end of a transaction keeps the types, and touches only its own.
LEMMA EndTxType ==
  ASSUME TypeOK, NEW p \in Ops, EndTx(p)
  PROVE  /\ share' \in [Accounts -> SUBSET Ops] /\ staged' \in [Ops -> SUBSET Writes]
         /\ staged'[p] = {} /\ \A q \in Ops \ {p} : staged'[q] = staged[q]
         /\ \A q \in Ops \ {p}, a \in Accounts : q \in share'[a] <=> q \in share[a]
  BY DEF EndTx, TypeOK

\* A commit keeps the types of rows, and changes only those of its subject.
LEMMA InstallType ==
  ASSUME TypeOK, NEW p \in Ops, Install(p), call[p] \in Call, resolved[p] \in Accounts
  PROVE  /\ account' \in [Accounts -> {"none", "active", "disabled", "deleted"}]
         /\ bound' \in [Subjects -> Accounts \cup {NoAccount}]
         /\ verified' \in [Subjects -> BOOLEAN]
         /\ credential' \in [Subjects -> Accounts \cup {NoAccount}]
         /\ \A a \in Accounts :
              account'[a] = IF a = p /\ "account" \in staged[p] THEN "active" ELSE account[a]
         /\ \A s \in Subjects \ {call[p].subject} :
              bound'[s] = bound[s] /\ verified'[s] = verified[s] /\ credential'[s] = credential[s]
         /\ bound'[call[p].subject] =
              IF "identity" \in staged[p] THEN resolved[p] ELSE bound[call[p].subject]
         /\ credential'[call[p].subject] =
              IF "credential" \in staged[p] THEN resolved[p] ELSE credential[call[p].subject]
         /\ verified'[call[p].subject] <=>
              \/ "verified" \in staged[p]
              \/ IF "identity" \in staged[p] THEN call[p].verifies ELSE verified[call[p].subject]
  <1>1. call[p].subject \in Subjects /\ call[p].verifies \in BOOLEAN /\ p \in Accounts
    BY Names
  <1>2. /\ account' \in [Accounts -> {"none", "active", "disabled", "deleted"}]
        /\ \A a \in Accounts :
             account'[a] = IF a = p /\ "account" \in staged[p] THEN "active" ELSE account[a]
    BY <1>1 DEF Install, TypeOK
  <1>3. /\ bound' \in [Subjects -> Accounts \cup {NoAccount}]
        /\ credential' \in [Subjects -> Accounts \cup {NoAccount}]
    BY <1>1 DEF Install, TypeOK
  <1>4. verified' \in [Subjects -> BOOLEAN]
    BY <1>1 DEF Install, TypeOK
  <1>5. \A s \in Subjects \ {call[p].subject} :
          bound'[s] = bound[s] /\ verified'[s] = verified[s] /\ credential'[s] = credential[s]
    BY <1>1 DEF Install, TypeOK
  <1>6. /\ bound'[call[p].subject] =
             IF "identity" \in staged[p] THEN resolved[p] ELSE bound[call[p].subject]
        /\ credential'[call[p].subject] =
             IF "credential" \in staged[p] THEN resolved[p] ELSE credential[call[p].subject]
    BY <1>1 DEF Install, TypeOK
  <1>7. verified'[call[p].subject] <=>
          \/ "verified" \in staged[p]
          \/ IF "identity" \in staged[p] THEN call[p].verifies ELSE verified[call[p].subject]
    BY <1>1 DEF Install, TypeOK
  <1> QED BY <1>2, <1>3, <1>4, <1>5, <1>6, <1>7

\* A call that commits has what Install needs.
LEMMA AtCommit ==
  ASSUME NEW p \in Ops, Calls(p), pc[p] = "commit"
  PROVE  call[p] \in Call /\ resolved[p] \in Accounts
  BY DEF Calls, Placed, Knows, Resolved, Transaction

\* Every step keeps the types.
LEMMA TypeStep ==
  ASSUME IInv, Next
  PROVE  TypeOK'
  <1> USE DEF IInv, Goto, Reject, Stage
  <1>1. ASSUME NEW p \in Ops, NEW c \in Call, Open(p, c) PROVE TypeOK'
    BY <1>1 DEF Open, TypeOK, Phase, Transaction, rows
  <1>2. ASSUME NEW p \in Ops, ResolveIdentity(p) PROVE TypeOK'
    <2>1. call[p].subject \in Subjects /\ call[p].actor \in Accounts \cup {NoAccount}
      BY <1>2, Names DEF ResolveIdentity, Calls, Placed
    <2>2. /\ found' \in [Ops -> [account : Accounts \cup {NoAccount}, verified : BOOLEAN]]
          /\ resolved' \in [Ops -> Accounts \cup {NoAccount}]
      BY <1>2, <2>1 DEF ResolveIdentity, TypeOK
    <2>3. \E ph \in {"rollback", "create", "account"} : pc' = [pc EXCEPT ![p] = ph]
      BY <1>2 DEF ResolveIdentity
    <2>4. \/ UNCHANGED result
          \/ \E r \in {"conflict", "unauthenticated", "denied"} : result' = [result EXCEPT ![p] = r]
      BY <1>2, RefusalType DEF ResolveIdentity
    <2>5. pc' \in [Ops -> Phase] /\ result' \in [Ops -> Results]
      <3>1. \A ph \in {"rollback", "create", "account"} : ph \in Phase
        BY DEF Phase, Transaction
      <3>2. \A r \in {"conflict", "unauthenticated", "denied"} : r \in Results
        BY DEF Results
      <3> QED BY <2>3, <2>4, <3>1, <3>2 DEF TypeOK
    <2>6. \A x \in Ops : pc'[x] = "returned" => result'[x] # "none"
      BY <2>3, <2>4 DEF TypeOK
    <2> QED BY <1>2, <2>2, <2>5, <2>6 DEF ResolveIdentity, TypeOK, rows
  <1>3. ASSUME NEW p \in Ops, CheckAccount(p) PROVE TypeOK'
    <2>1. share' \in [Accounts -> SUBSET Ops]
      BY <1>3 DEF CheckAccount, TypeOK
    <2>2. \/ pc' = [pc EXCEPT ![p] = "identity"] /\ UNCHANGED result
          \/ /\ pc' = [pc EXCEPT ![p] = "rollback"]
             /\ result' = [result EXCEPT ![p] = "unavailable"]
      BY <1>3 DEF CheckAccount, Goto, Reject
    <2>3. pc' \in [Ops -> Phase] /\ result' \in [Ops -> Results]
      <3>1. {"identity", "rollback"} \subseteq Phase /\ "unavailable" \in Results
        BY DEF Phase, Transaction, Results
      <3> QED BY <2>2, <3>1 DEF TypeOK
    <2>4. \A x \in Ops : pc'[x] = "returned" => result'[x] # "none"
      BY <2>2 DEF TypeOK
    <2>5. UNCHANGED <<rows, call, found, resolved, staged>>
      BY <1>3 DEF CheckAccount
    <2> QED BY <2>1, <2>3, <2>4, <2>5 DEF TypeOK, rows
  <1>4. ASSUME NEW p \in Ops, CreateAccount(p) PROVE TypeOK'
    BY <1>4 DEF CreateAccount, TypeOK, Phase, Transaction, Writes, Accounts, rows
  <1>5. ASSUME NEW p \in Ops, UNCHANGED <<rows, share, call, found, resolved>>,
               NEW ph \in After \cup {"identity", "rollback"}, pc' = [pc EXCEPT ![p] = ph],
               UNCHANGED staged \/ \E w \in Writes : Stage(p, w),
               UNCHANGED result \/ \E r \in {"conflict", "failed"} : result' = [result EXCEPT ![p] = r]
        PROVE  TypeOK'
    <2>1. ph \in Phase /\ ph # "returned"
      BY DEF After, Phase, Transaction
    <2>2. staged' \in [Ops -> SUBSET Writes]
      <3>1. CASE UNCHANGED staged
        BY <3>1 DEF TypeOK
      <3>2. ASSUME NEW w \in Writes, Stage(p, w) PROVE staged' \in [Ops -> SUBSET Writes]
        BY <3>2 DEF Stage, TypeOK
      <3> QED BY <1>5, <3>1, <3>2
    <2>3. /\ result' \in [Ops -> Results]
          /\ \A x \in Ops : pc'[x] = "returned" => result'[x] # "none"
      BY <1>5, <2>1 DEF TypeOK, Results
    <2>4. pc' \in [Ops -> Phase]
      BY <1>5, <2>1 DEF TypeOK
    <2> QED BY <1>5, <2>2, <2>3, <2>4 DEF TypeOK, rows
  <1>6. ASSUME NEW p \in Ops, \/ KeepIdentity(p) \/ MarkVerified(p) \/ InsertIdentity(p)
                              \/ FindCredential(p) \/ InsertCredential(p) \/ PersistRest(p) \/ Fails(p)
        PROVE  TypeOK'
    <2>1. UNCHANGED <<rows, share, call, found, resolved>>
      BY <1>6 DEF KeepIdentity, MarkVerified, InsertIdentity, FindCredential, InsertCredential,
                  PersistRest, Fails
    <2>2. \E ph \in After \cup {"identity", "rollback"} : pc' = [pc EXCEPT ![p] = ph]
      BY <1>6 DEF KeepIdentity, MarkVerified, InsertIdentity, FindCredential, InsertCredential,
                  PersistRest, Fails, AfterIdentity, After
    <2>3. UNCHANGED staged \/ \E w \in Writes : Stage(p, w)
      BY <1>6 DEF KeepIdentity, MarkVerified, InsertIdentity, FindCredential, InsertCredential,
                  PersistRest, Fails, Writes
    <2>4. UNCHANGED result \/ \E r \in {"conflict", "failed"} : result' = [result EXCEPT ![p] = r]
      BY <1>6 DEF KeepIdentity, MarkVerified, InsertIdentity, FindCredential, InsertCredential,
                  PersistRest, Fails
    <2> QED BY <1>5, <2>1, <2>2, <2>3, <2>4
  <1>7. ASSUME NEW p \in Ops, Commit(p) \/ CommitFails(p) PROVE TypeOK'
    <2>1. EndTx(p) /\ UNCHANGED <<call, found, resolved>> /\ pc[p] = "commit"
      BY <1>7 DEF Commit, CommitFails
    <2>2. \E r \in {"success", "transaction-failed"} : Return(p, r)
      BY <1>7 DEF Commit, CommitFails
    <2>3. /\ account' \in [Accounts -> {"none", "active", "disabled", "deleted"}]
          /\ bound' \in [Subjects -> Accounts \cup {NoAccount}]
          /\ verified' \in [Subjects -> BOOLEAN]
          /\ credential' \in [Subjects -> Accounts \cup {NoAccount}]
      <3>1. Install(p) \/ UNCHANGED rows
        BY <1>7 DEF Commit, CommitFails
      <3>2. CASE Install(p)
        BY <2>1, <3>2, AtCommit, InstallType
      <3>3. CASE UNCHANGED rows
        BY <3>3 DEF TypeOK, rows
      <3> QED BY <3>1, <3>2, <3>3
    <2>4. /\ pc' \in [Ops -> Phase] /\ result' \in [Ops -> Results]
          /\ \A x \in Ops : pc'[x] = "returned" => result'[x] # "none"
      BY <2>2 DEF Return, TypeOK, Phase, Results
    <2> QED BY <2>1, <2>3, <2>4, EndTxType DEF TypeOK
  <1>8. ASSUME NEW p \in Ops, Rollback(p) PROVE TypeOK'
    <2>1. result[p] # "none"
      BY <1>8 DEF Rollback, Calls, Placed
    <2>2. /\ pc' \in [Ops -> Phase] /\ result' \in [Ops -> Results]
          /\ \A x \in Ops : pc'[x] = "returned" => result'[x] # "none"
      <3>1. pc' = [pc EXCEPT ![p] = "returned"]
        BY <1>8 DEF Rollback, Return, Goto
      <3>2. PICK o \in Results \ {"none"} : result' = [result EXCEPT ![p] = o]
        BY <1>8, <2>1 DEF Rollback, Return, TypeOK, Results
      <3> QED BY <3>1, <3>2 DEF TypeOK, Phase
    <2> QED BY <1>8, <2>2, EndTxType DEF Rollback, TypeOK, rows
  <1>9. ASSUME NEW p \in Ops, Crash(p) PROVE TypeOK'
    BY <1>9, EndTxType DEF Crash, TypeOK, Phase, rows
  <1>10. ASSUME NEW a \in Accounts, NEW status \in {"active", "disabled", "deleted"},
                SetAccountStatus(a, status)
         PROVE  TypeOK'
    BY <1>10 DEF SetAccountStatus, TypeOK
  <1> QED BY <1>1, <1>2, <1>3, <1>4, <1>6, <1>7, <1>8, <1>9, <1>10 DEF Next, Step

-----------------------------------------------------------------------------
(* Calls beside the one that moves                                         *)

\* The variables of q and what it relies on stay.
Beside(q) ==
  /\ pc'[q] = pc[q] /\ call'[q] = call[q] /\ found'[q] = found[q] /\ resolved'[q] = resolved[q]
  /\ staged'[q] = staged[q] /\ result'[q] = result[q]
  /\ account'[q] = "none" <=> account[q] = "none"
  /\ \A s \in Subjects : /\ bound[s] # NoAccount => bound'[s] = bound[s]
                         /\ credential[s] # NoAccount => credential'[s] = credential[s]
                         /\ verified[s] => verified'[s]
  /\ \A a \in Accounts : q \in share[a] /\ account[a] = "active" => q \in share'[a] /\ account'[a] = "active"
  /\ "identity" \in staged[q] => bound'[call[q].subject] = bound[call[q].subject]
  /\ "credential" \in staged[q] => credential'[call[q].subject] = credential[call[q].subject]

\* Then it keeps its invariants.
LEMMA BesideCalls ==
  ASSUME TypeOK, NEW q \in Ops, Calls(q), Beside(q)
  PROVE  Calls(q)'
  <1>1. pc[q] # "idle" => call[q] \in Call /\ call[q].subject \in Subjects
    BY Names DEF Calls, Placed
  <1>2. Placed(q)'
    BY DEF Calls, Placed, Beside
  <1>3. Knows(q)'
    BY <1>1 DEF Calls, Knows, Beside, Resolved, Transaction, TypeOK
  <1>4. Ready(q)'
    BY DEF Calls, Ready, Beside
  <1>5. Usable(q)'
    <2>1. pc[q] \in After \cup {"identity"} => resolved[q] \in Accounts
      BY DEF Calls, Knows, Resolved, Transaction, After
    <2> QED BY <2>1 DEF Calls, Usable, Beside
  <1>6. Free(q)'
    BY DEF Calls, Free, Beside
  <1>7. Answered(q)'
    <2>1. result[q] = "success" => call[q].subject \in Subjects
      BY <1>1 DEF Calls, Placed
    <2> QED BY <2>1, Names DEF Calls, Answered, Beside
  <1>8. Owns(q)'
    <2>1. q \in Accounts
      BY Names
    <2> QED BY <1>1, <2>1, Names DEF Calls, Owns, Beside
  <1> QED BY <1>2, <1>3, <1>4, <1>5, <1>6, <1>7, <1>8 DEF Calls

\* A step of p that leaves the rows alone has the others beside it.
LEMMA OthersBeside ==
  ASSUME TypeOK, NEW p \in Ops, NEW q \in Ops, p # q, UNCHANGED rows,
         pc'[q] = pc[q], call'[q] = call[q], found'[q] = found[q], resolved'[q] = resolved[q],
         staged'[q] = staged[q], result'[q] = result[q],
         \A a \in Accounts : q \in share[a] => q \in share'[a]
  PROVE  Beside(q)
  BY DEF Beside, rows

\* So does a commit, as the keys p has inserted are no other call's.
LEMMA InstallBeside ==
  ASSUME IInv, NEW p \in Ops, NEW q \in Ops, p # q, pc[p] = "commit", Install(p), EndTx(p),
         pc'[q] = pc[q], call'[q] = call[q], found'[q] = found[q], resolved'[q] = resolved[q],
         result'[q] = result[q]
  PROVE  Beside(q)
  <1>1. Calls(p) /\ Calls(q) /\ TypeOK /\ call[p] \in Call /\ resolved[p] \in Accounts
    BY AtCommit DEF IInv
  <1>2. staged'[q] = staged[q] /\ \A a \in Accounts : q \in share'[a] <=> q \in share[a]
    BY <1>1, EndTxType
  <1>3. q \in Accounts /\ call[p].subject \in Subjects
    BY <1>1, Names
  <1>4. \A a \in Accounts : account'[a] = IF a = p /\ "account" \in staged[p] THEN "active" ELSE account[a]
    BY <1>1, InstallType
  <1>5. ASSUME NEW s \in Subjects
        PROVE  /\ bound[s] # NoAccount => bound'[s] = bound[s]
               /\ credential[s] # NoAccount => credential'[s] = credential[s]
               /\ verified[s] => verified'[s]
    <2>1. CASE s # call[p].subject
      BY <1>1, <2>1, InstallType
    <2>2. CASE s = call[p].subject
      <3>1. "identity" \in staged[p] => bound[s] = NoAccount /\ ~verified[s]
        BY <1>1, <2>2 DEF Calls, Free, IInv, Sane
      <3>2. "credential" \in staged[p] => credential[s] = NoAccount
        BY <1>1, <2>2 DEF Calls, Free
      <3> QED BY <1>1, <2>2, <3>1, <3>2, InstallType
    <2> QED BY <2>1, <2>2
  <1>6. /\ "identity" \in staged[q] => bound'[call[q].subject] = bound[call[q].subject]
        /\ "credential" \in staged[q] => credential'[call[q].subject] = credential[call[q].subject]
    <2>1. staged[q] # {} => call[q].subject \in Subjects
      BY <1>1, Names DEF Calls, Placed
    <2>2. CASE call[q].subject # call[p].subject
      BY <1>1, <2>1, <2>2, InstallType
    <2>3. CASE call[q].subject = call[p].subject
      <3>1. /\ "identity" \in staged[q] => "identity" \notin staged[p]
            /\ "credential" \in staged[q] => "credential" \notin staged[p]
        BY <2>3 DEF IInv, Exclusive
      <3> QED BY <1>1, <2>3, <3>1, InstallType
    <2> QED BY <2>2, <2>3
  <1> QED BY <1>2, <1>3, <1>4, <1>5, <1>6 DEF Beside

-----------------------------------------------------------------------------
(* The call that moves                                                     *)

\* In a phase of the transaction, where nothing has been answered.
LEMMA MovesCalls ==
  ASSUME TypeOK, NEW p \in Ops, Calls(p), UNCHANGED <<rows, result, call>>,
         pc[p] \in Transaction, pc'[p] \in Transaction,
         staged'[p] # {} => pc'[p] \notin {"resolve", "account", "create"},
         Knows(p)', Ready(p)', Usable(p)', Free(p)'
  PROVE  Calls(p)'
  <1>1. /\ pc[p] \notin {"idle", "rollback", "returned", "crashed"}
        /\ pc'[p] \notin {"idle", "rollback", "returned", "crashed"}
    BY DEF Transaction
  <1>2. result'[p] = "none" /\ call'[p] = call[p] /\ call[p] \in Call /\ account'[p] = "none"
    BY <1>1 DEF Calls, Placed, rows
  <1>3. Placed(p)'
    BY <1>1, <1>2 DEF Placed
  <1>4. Answered(p)' /\ Owns(p)'
    BY <1>2 DEF Answered, Owns
  <1> QED BY <1>3, <1>4 DEF Calls

\* A call that fails.
LEMMA RejectCalls ==
  ASSUME TypeOK, NEW p \in Ops, Calls(p), UNCHANGED <<rows, call, staged>>,
         pc[p] \in Transaction, NEW r, Reject(p, r), r \notin {"none", "success"}
  PROVE  Calls(p)'
  <1>1. pc'[p] = "rollback" /\ result'[p] = r
    BY DEF Reject, Goto, TypeOK
  <1>2. pc[p] \notin {"idle", "rollback", "returned", "crashed"}
    BY DEF Transaction
  <1>3. Placed(p)'
    BY <1>1, <1>2 DEF Calls, Placed, Transaction, rows
  <1>4. Knows(p)' /\ Ready(p)' /\ Usable(p)'
    BY <1>1 DEF Knows, Ready, Usable, Resolved, After, Transaction
  <1>5. Free(p)' /\ Answered(p)' /\ Owns(p)'
    BY <1>1, <1>2 DEF Calls, Placed, Free, Answered, Owns, rows
  <1> QED BY <1>3, <1>4, <1>5 DEF Calls

\* A call that ends without having committed.
LEMMA EndsCalls ==
  ASSUME TypeOK, NEW p \in Ops, Calls(p), UNCHANGED <<rows, call>>, EndTx(p),
         pc[p] \in Transaction \cup {"rollback"}, pc'[p] \in {"returned", "crashed"},
         pc'[p] = "returned" => result'[p] # "none", result'[p] # "success"
  PROVE  Calls(p)'
  <1>1. staged'[p] = {}
    BY EndTxType
  <1>2. pc[p] \notin {"idle", "returned", "crashed"}
    BY DEF Transaction
  <1>3. Placed(p)'
    BY <1>1, <1>2 DEF Calls, Placed, Transaction, rows
  <1>4. Knows(p)' /\ Ready(p)' /\ Usable(p)'
    BY DEF Knows, Ready, Usable, Resolved, After, Transaction
  <1>5. Free(p)' /\ Answered(p)' /\ Owns(p)'
    BY <1>1, <1>2 DEF Calls, Placed, Free, Answered, Owns, rows
  <1> QED BY <1>3, <1>4, <1>5 DEF Calls

\* A commit binds the subject to the resolved account, and an account that was
\* created to its subject.
LEMMA InstallCalls ==
  ASSUME IInv, NEW p \in Ops, pc[p] = "commit", Install(p), EndTx(p),
         UNCHANGED <<call, found, resolved>>, pc'[p] = "returned",
         result'[p] \in {"success", "transaction-failed"}
  PROVE  Calls(p)'
  <1>1. Calls(p) /\ TypeOK /\ call[p] \in Call /\ resolved[p] \in Accounts /\ staged'[p] = {}
    BY AtCommit, EndTxType DEF IInv
  <1>2. call[p].subject \in Subjects /\ p \in Accounts
    BY <1>1, Names
  <1>3. /\ "identity" \in staged[p] \/ found[p].account # NoAccount
        /\ call[p].verifies => "identity" \in staged[p] \/ "verified" \in staged[p] \/ found[p].verified
        /\ call[p].material => "credential" \in staged[p]
        /\ found[p].account # NoAccount =>
             resolved[p] = found[p].account /\ bound[call[p].subject] = found[p].account
        /\ found[p].verified => verified[call[p].subject]
        /\ "account" \in staged[p] => resolved[p] = p /\ found[p].account = NoAccount
        /\ account[p] = "none"
        /\ "identity" \in staged[p] => bound[call[p].subject] = NoAccount
    BY <1>1 DEF Calls, Placed, Knows, Ready, Free, Resolved, After, Transaction
  <1>4. bound'[call[p].subject] = resolved[p]
    BY <1>1, <1>3, InstallType
  <1>5. call[p].material => credential'[call[p].subject] = resolved[p]
    BY <1>1, <1>3, InstallType
  <1>6. call[p].verifies => verified'[call[p].subject]
    <2>1. "identity" \in staged[p] => ~verified[call[p].subject]
      BY <1>2, <1>3 DEF IInv, Sane
    <2> QED BY <1>1, <1>3, <2>1, InstallType
  <1>7. account'[p] # "none" => resolved[p] = p
    BY <1>1, <1>2, <1>3, InstallType
  <1>8. Placed(p)'
    BY <1>1 DEF Placed, Transaction
  <1>9. Knows(p)' /\ Ready(p)' /\ Usable(p)'
    BY DEF Knows, Ready, Usable, Resolved, After, Transaction
  <1>10. Free(p)'
    BY <1>1 DEF Free
  <1>11. Answered(p)'
    BY <1>1, <1>4, <1>5, <1>6 DEF Answered
  <1>12. Owns(p)'
    BY <1>4, <1>7 DEF Owns
  <1> QED BY <1>8, <1>9, <1>10, <1>11, <1>12 DEF Calls

\* A link that is let through finds no identity, or one of the actor.
LEMMA LetThrough ==
  ASSUME NEW c, NEW identity, Refusal(c, identity) = "none", c.mode = "link-to-actor-account"
  PROVE  identity.account \in {NoAccount, c.actor}
  BY DEF Refusal

\* What a call has read and resolved when it goes on.
LEMMA ResolveCalls ==
  ASSUME TypeOK, NEW p \in Ops, Calls(p), ResolveIdentity(p)
  PROVE  Calls(p)'
  <1> DEFINE c == call[p]
             identity == [account |-> bound[c.subject], verified |-> verified[c.subject]]
             owner == IF c.mode = "link-to-actor-account" THEN c.actor ELSE identity.account
  <1>1. /\ pc[p] = "resolve" /\ pc[p] \in Transaction /\ UNCHANGED <<rows, call, staged>>
        /\ found'[p] = identity /\ resolved'[p] = owner
        /\ staged[p] = {} /\ c \in Call
    BY DEF ResolveIdentity, Transaction, TypeOK, Calls, Placed
  <1>2. /\ bound[c.subject] \in Accounts \cup {NoAccount}
        /\ c.mode = "link-to-actor-account" => c.actor \in Accounts
    BY <1>1, Names DEF TypeOK
  <1>3. CASE Refusal(c, identity) # "none"
    <2>1. Reject(p, Refusal(c, identity))
      BY <1>3 DEF ResolveIdentity
    <2>2. Refusal(c, identity) # "success"
      BY RefusalType
    <2> HIDE DEF c, identity
    <2> QED BY <1>1, <1>3, <2>1, <2>2, RejectCalls
  <1>4. CASE Refusal(c, identity) = "none"
    <2>1. pc'[p] = IF owner = NoAccount THEN "create" ELSE "account"
      BY <1>4 DEF ResolveIdentity, Goto, TypeOK
    <2>2. UNCHANGED result
      BY <1>4 DEF ResolveIdentity
    <2>3. bound[c.subject] # NoAccount => owner = bound[c.subject]
      BY <1>4, LetThrough
    <2>4. owner = NoAccount => bound[c.subject] = NoAccount
      BY <1>2, Names
    <2>5. owner # NoAccount => owner \in Accounts
      BY <1>2
    <2>6. Knows(p)'
      <3>1. /\ found'[p].account = bound[c.subject] /\ found'[p].verified = verified[c.subject]
            /\ call'[p] = c /\ UNCHANGED <<bound, verified>> /\ staged'[p] = {}
        BY <1>1 DEF rows
      <3> HIDE DEF c, owner, identity
      <3> QED BY <1>1, <2>1, <2>3, <2>4, <2>5, <3>1 DEF Knows
    <2>7. /\ pc'[p] \in {"create", "account"} /\ staged'[p] = {} /\ pc'[p] \in Transaction
      BY <1>1, <2>1 DEF Transaction
    <2>8. Ready(p)' /\ Usable(p)' /\ Free(p)'
      BY <2>7 DEF Ready, Usable, Free, After
    <2> QED BY <1>1, <2>2, <2>6, <2>7, <2>8, MovesCalls
  <1> QED BY <1>3, <1>4

\* The account it finds active it has locked; the one it creates is its own.
LEMMA AccountCalls ==
  ASSUME TypeOK, NEW p \in Ops, Calls(p), CheckAccount(p) \/ CreateAccount(p)
  PROVE  Calls(p)'
  <1>1. CASE CheckAccount(p)
    <2>1. /\ pc[p] = "account" /\ pc[p] \in Transaction /\ UNCHANGED <<rows, call, found, resolved, staged>>
          /\ staged[p] = {} /\ resolved[p] \in Accounts
      BY <1>1 DEF CheckAccount, Transaction, Calls, Placed, Knows, Resolved
    <2>2. CASE account[resolved[p]] = "active"
      <3>1. /\ pc'[p] = "identity" /\ pc'[p] \in Transaction /\ UNCHANGED result
            /\ p \in share'[resolved[p]]
        BY <1>1, <2>1, <2>2 DEF CheckAccount, Goto, TypeOK, Transaction
      <3>2. Knows(p)' /\ Ready(p)' /\ Usable(p)' /\ Free(p)'
        BY <2>1, <2>2, <3>1 DEF Calls, Knows, Ready, Usable, Free, Resolved, After, Transaction, rows
      <3> QED BY <2>1, <3>1, <3>2, MovesCalls
    <2>3. CASE account[resolved[p]] # "active"
      BY <1>1, <2>1, <2>3, RejectCalls DEF CheckAccount
    <2> QED BY <2>2, <2>3
  <1>2. CASE CreateAccount(p)
    <2>1. /\ pc[p] = "create" /\ pc[p] \in Transaction /\ UNCHANGED <<rows, call, found, result>>
          /\ resolved'[p] = p /\ staged'[p] = {"account"} /\ found[p].account = NoAccount
          /\ pc'[p] = "identity" /\ pc'[p] \in Transaction
      BY <1>2 DEF CreateAccount, Stage, Goto, Transaction, TypeOK, Calls, Placed, Knows, Resolved
    <2>2. Knows(p)'
      BY <2>1, Names DEF Calls, Knows, Resolved, Transaction, rows
    <2>3. Ready(p)' /\ Usable(p)' /\ Free(p)'
      BY <2>1 DEF Ready, Usable, Free, After
    <2> QED BY <2>1, <2>2, <2>3, MovesCalls
  <1> QED BY <1>1, <1>2

\* A call that goes on past its identity, with one row more.
LEMMA ProceedsCalls ==
  ASSUME TypeOK, NEW p \in Ops, Calls(p), UNCHANGED <<rows, share, call, found, resolved, result>>,
         pc[p] \in {"identity"} \cup After, pc'[p] \in After,
         NEW W \in SUBSET (Writes \ {"account"}), staged'[p] = staged[p] \cup W,
         "verified" \in W => found[p].account # NoAccount,
         Ready(p)', Free(p)'
  PROVE  Calls(p)'
  <1>1. /\ pc[p] \in Resolved /\ pc'[p] \in Resolved /\ pc[p] # "create" /\ pc'[p] # "create"
        /\ pc[p] \in Transaction /\ pc'[p] \in Transaction
        /\ pc'[p] \notin {"resolve", "account", "create"}
    BY DEF Resolved, After, Transaction
  <1>2. "account" \in staged'[p] <=> "account" \in staged[p]
    OBVIOUS
  <1>3. Knows(p)'
    BY <1>1, <1>2 DEF Calls, Knows, rows
  <1>4. Usable(p)'
    BY <1>2 DEF Calls, Usable, rows
  <1> QED BY <1>1, <1>3, <1>4, MovesCalls

\* The identity: kept, verified, or inserted under a free key.
LEMMA IdentityCalls ==
  ASSUME TypeOK, NEW p \in Ops, Calls(p), KeepIdentity(p) \/ MarkVerified(p) \/ InsertIdentity(p)
  PROVE  Calls(p)'
  <1>1. /\ pc[p] = "identity" /\ pc[p] \in Transaction /\ call[p] \in Call
        /\ UNCHANGED <<rows, share, call, found, resolved>>
    BY DEF KeepIdentity, MarkVerified, InsertIdentity, Transaction, Calls, Placed
  <1>2. ASSUME pc'[p] = AfterIdentity(p) PROVE pc'[p] \in {"lookup", "rest"} /\ (pc'[p] = "rest" => ~call[p].material)
    BY <1>2 DEF AfterIdentity
  <1>3. CASE KeepIdentity(p)
    <2>1. /\ pc'[p] = AfterIdentity(p) /\ UNCHANGED <<staged, result>> /\ staged'[p] = staged[p] \cup {}
          /\ found[p].account # NoAccount /\ (~call[p].verifies \/ found[p].verified)
      BY <1>3 DEF KeepIdentity, Goto, TypeOK
    <2>2. Ready(p)'
      BY <1>1, <1>2, <2>1 DEF Ready
    <2>3. Free(p)'
      BY <1>1, <2>1 DEF Calls, Free, rows
    <2>4. pc'[p] \in After /\ {} \in SUBSET (Writes \ {"account"})
      BY <1>2, <2>1 DEF After
    <2> QED BY <1>1, <2>1, <2>2, <2>3, <2>4, ProceedsCalls
  <1>4. CASE MarkVerified(p)
    <2>1. /\ pc'[p] = AfterIdentity(p) /\ UNCHANGED result /\ staged'[p] = staged[p] \cup {"verified"}
          /\ found[p].account # NoAccount
      BY <1>4 DEF MarkVerified, Goto, Stage, TypeOK
    <2>2. Ready(p)'
      BY <1>1, <1>2, <2>1 DEF Ready
    <2>3. Free(p)'
      BY <1>1, <2>1 DEF Calls, Free, rows
    <2>4. pc'[p] \in After /\ {"verified"} \in SUBSET (Writes \ {"account"})
      BY <1>2, <2>1 DEF After, Writes
    <2> QED BY <1>1, <2>1, <2>2, <2>3, <2>4, ProceedsCalls
  <1>5. CASE InsertIdentity(p)
    <2>1. CASE bound[call[p].subject] # NoAccount
      BY <1>1, <1>5, <2>1, RejectCalls DEF InsertIdentity
    <2>2. CASE bound[call[p].subject] = NoAccount
      <3>1. /\ pc'[p] = AfterIdentity(p) /\ UNCHANGED result /\ staged'[p] = staged[p] \cup {"identity"}
        BY <1>5, <2>2 DEF InsertIdentity, Goto, Stage, TypeOK
      <3>2. Ready(p)'
        BY <1>1, <1>2, <3>1 DEF Ready
      <3>3. Free(p)'
        BY <1>1, <2>2, <3>1 DEF Calls, Free, rows
      <3>4. pc'[p] \in After /\ {"identity"} \in SUBSET (Writes \ {"account"})
        BY <1>2, <3>1 DEF After, Writes
      <3> QED BY <1>1, <3>1, <3>2, <3>3, <3>4, ProceedsCalls
    <2> QED BY <2>1, <2>2
  <1> QED BY <1>3, <1>4, <1>5

\* The credential, likewise, and the rest of the transaction.
LEMMA CredentialCalls ==
  ASSUME TypeOK, NEW p \in Ops, Calls(p), FindCredential(p) \/ InsertCredential(p) \/ PersistRest(p)
  PROVE  Calls(p)'
  <1>1. /\ pc[p] \in {"lookup", "insert", "rest"} /\ pc[p] \in Transaction /\ pc[p] \in After
        /\ UNCHANGED <<rows, share, call, found, resolved>>
    BY DEF FindCredential, InsertCredential, PersistRest, Transaction, After
  <1>2. CASE credential[call[p].subject] # NoAccount /\ ~PersistRest(p)
    BY <1>1, <1>2, RejectCalls DEF FindCredential, InsertCredential
  <1>3. CASE credential[call[p].subject] = NoAccount /\ FindCredential(p)
    <2>1. pc'[p] = "insert" /\ UNCHANGED <<staged, result>> /\ staged'[p] = staged[p] \cup {}
      BY <1>3 DEF FindCredential, Goto, TypeOK
    <2>2. Ready(p)' /\ Free(p)'
      BY <1>1, <2>1 DEF Calls, Ready, Free, After, rows
    <2>3. pc'[p] \in After /\ {} \in SUBSET (Writes \ {"account"})
      BY <2>1 DEF After
    <2> QED BY <1>1, <2>1, <2>2, <2>3, ProceedsCalls
  <1>4. CASE credential[call[p].subject] = NoAccount /\ InsertCredential(p)
    <2>1. pc'[p] = "rest" /\ UNCHANGED result /\ staged'[p] = staged[p] \cup {"credential"}
      BY <1>4 DEF InsertCredential, Goto, Stage, TypeOK
    <2>2. Ready(p)' /\ Free(p)'
      BY <1>1, <1>4, <2>1 DEF Calls, Ready, Free, After, rows
    <2>3. pc'[p] \in After /\ {"credential"} \in SUBSET (Writes \ {"account"})
      BY <2>1 DEF After, Writes
    <2> QED BY <1>1, <2>1, <2>2, <2>3, ProceedsCalls
  <1>5. CASE PersistRest(p)
    <2>1. pc[p] = "rest" /\ pc'[p] = "commit" /\ UNCHANGED <<staged, result>> /\ staged'[p] = staged[p] \cup {}
      BY <1>5 DEF PersistRest, Goto, TypeOK
    <2>2. Ready(p)' /\ Free(p)'
      BY <1>1, <2>1 DEF Calls, Ready, Free, After, rows
    <2>3. pc'[p] \in After /\ {} \in SUBSET (Writes \ {"account"})
      BY <2>1 DEF After
    <2> QED BY <1>1, <2>1, <2>2, <2>3, ProceedsCalls
  <1> QED BY <1>2, <1>3, <1>4, <1>5

\* Every step keeps the invariants of every call.
LEMMA CallsStep ==
  ASSUME IInv, Next, NEW q \in Ops
  PROVE  Calls(q)'
  <1>0. Calls(q) /\ TypeOK
    BY DEF IInv
  <1>1. ASSUME Beside(q) PROVE Calls(q)'
    BY <1>0, <1>1, BesideCalls
  <1>2. ASSUME NEW p \in Ops, UNCHANGED rows, p = q => Calls(q)',
               p # q => /\ pc'[q] = pc[q] /\ call'[q] = call[q] /\ found'[q] = found[q]
                        /\ resolved'[q] = resolved[q] /\ staged'[q] = staged[q] /\ result'[q] = result[q]
                        /\ \A a \in Accounts : q \in share[a] => q \in share'[a]
        PROVE  Calls(q)'
    BY <1>0, <1>1, <1>2, OthersBeside
  <1>3. ASSUME NEW p \in Ops, NEW c \in Call, Open(p, c) PROVE Calls(q)'
    <2>1. ASSUME p = q PROVE Calls(q)'
      <3>1. /\ pc[q] = "idle" /\ pc'[q] = "resolve" /\ call'[q] = c
            /\ UNCHANGED <<account, staged, result>>
        BY <1>0, <1>3, <2>1 DEF Open, Goto, TypeOK, rows
      <3>2. staged[q] = {} /\ result[q] = "none" /\ account[q] = "none"
        BY <1>0, <3>1 DEF Calls, Placed
      <3>3. Placed(q)' /\ Free(q)' /\ Answered(q)' /\ Owns(q)'
        BY <3>1, <3>2 DEF Placed, Free, Answered, Owns
      <3>4. Knows(q)' /\ Ready(q)' /\ Usable(q)'
        BY <3>1 DEF Knows, Ready, Usable, Resolved, After, Transaction
      <3> QED BY <3>3, <3>4 DEF Calls
    <2> QED BY <1>0, <1>2, <1>3, <2>1 DEF Open, Goto, TypeOK
  <1>4. ASSUME NEW p \in Ops, ResolveIdentity(p) PROVE Calls(q)'
    <2>1. p # q => pc'[q] = pc[q] /\ result'[q] = result[q] /\ found'[q] = found[q] /\ resolved'[q] = resolved[q]
      BY <1>0, <1>4 DEF ResolveIdentity, Goto, Reject, TypeOK
    <2>2. UNCHANGED <<rows, share, call, staged>>
      BY <1>4 DEF ResolveIdentity
    <2>3. p = q => Calls(q)'
      BY <1>0, <1>4, ResolveCalls
    <2> QED BY <1>2, <2>1, <2>2, <2>3
  <1>5. ASSUME NEW p \in Ops, CheckAccount(p) \/ CreateAccount(p) PROVE Calls(q)'
    <2>1. p # q => /\ pc'[q] = pc[q] /\ result'[q] = result[q] /\ found'[q] = found[q]
                   /\ resolved'[q] = resolved[q] /\ staged'[q] = staged[q]
                   /\ \A a \in Accounts : q \in share[a] => q \in share'[a]
      BY <1>0, <1>5 DEF CheckAccount, CreateAccount, Goto, Reject, Stage, TypeOK
    <2>2. UNCHANGED <<rows, call>>
      BY <1>5 DEF CheckAccount, CreateAccount
    <2>3. p = q => Calls(q)'
      BY <1>0, <1>5, AccountCalls
    <2> QED BY <1>2, <2>1, <2>2, <2>3
  <1>6. ASSUME NEW p \in Ops, \/ KeepIdentity(p) \/ MarkVerified(p) \/ InsertIdentity(p)
                              \/ FindCredential(p) \/ InsertCredential(p) \/ PersistRest(p)
        PROVE  Calls(q)'
    <2>1. p # q => pc'[q] = pc[q] /\ result'[q] = result[q] /\ staged'[q] = staged[q]
      BY <1>0, <1>6 DEF KeepIdentity, MarkVerified, InsertIdentity, FindCredential, InsertCredential,
                        PersistRest, Goto, Reject, Stage, TypeOK
    <2>2. UNCHANGED <<rows, call, share, found, resolved>>
      BY <1>6 DEF KeepIdentity, MarkVerified, InsertIdentity, FindCredential, InsertCredential,
                  PersistRest
    <2>3. p = q => Calls(q)'
      BY <1>0, <1>6, IdentityCalls, CredentialCalls
    <2> QED BY <1>2, <2>1, <2>2, <2>3
  <1>7. ASSUME NEW p \in Ops, Fails(p) PROVE Calls(q)'
    <2>1. /\ UNCHANGED <<rows, share, call, found, resolved, staged>>
          /\ Reject(p, "failed") /\ pc[p] \in Transaction
      BY <1>7 DEF Fails
    <2>2. p # q => pc'[q] = pc[q] /\ result'[q] = result[q]
      BY <1>0, <2>1 DEF Goto, Reject, TypeOK
    <2>3. p = q => Calls(q)'
      BY <1>0, <2>1, RejectCalls
    <2> QED BY <1>2, <2>1, <2>2, <2>3
  <1>8. ASSUME NEW p \in Ops, pc[p] = "commit", Install(p), EndTx(p), UNCHANGED <<call, found, resolved>>,
               NEW r \in {"success", "transaction-failed"}, Return(p, r)
        PROVE  Calls(q)'
    <2>1. CASE p = q
      <3>1. pc'[q] = "returned" /\ result'[q] = r
        BY <1>0, <1>8, <2>1 DEF Return, Goto, TypeOK
      <3> QED BY <1>8, <2>1, <3>1, InstallCalls
    <2>2. CASE p # q
      <3>1. pc'[q] = pc[q] /\ result'[q] = result[q]
        BY <1>0, <1>8, <2>2 DEF Return, Goto, TypeOK
      <3> QED BY <1>1, <1>8, <2>2, <3>1, InstallBeside
    <2> QED BY <2>1, <2>2
  <1>9. ASSUME NEW p \in Ops, UNCHANGED <<rows, call, found, resolved>>, EndTx(p),
               pc[p] \in Transaction \cup {"rollback"},
               NEW ph \in {"returned", "crashed"}, pc' = [pc EXCEPT ![p] = ph],
               \A x \in Ops \ {p} : result'[x] = result[x],
               ph = "returned" => result'[p] # "none", result'[p] # "success"
        PROVE  Calls(q)'
    <2>1. p = q => Calls(q)'
      BY <1>0, <1>9, EndsCalls DEF TypeOK
    <2>2. p # q => pc'[q] = pc[q] /\ result'[q] = result[q]
      BY <1>0, <1>9 DEF TypeOK
    <2>3. p # q => staged'[q] = staged[q] /\ \A a \in Accounts : q \in share[a] => q \in share'[a]
      BY <1>0, <1>9, EndTxType
    <2> QED BY <1>2, <1>9, <2>1, <2>2, <2>3
  <1>10. ASSUME NEW p \in Ops, Commit(p) PROVE Calls(q)'
    BY <1>8, <1>10 DEF Commit
  <1>11. ASSUME NEW p \in Ops, CommitFails(p) PROVE Calls(q)'
    <2>1. /\ pc[p] = "commit" /\ pc[p] \in Transaction /\ EndTx(p) /\ UNCHANGED <<call, found, resolved>>
          /\ Return(p, "transaction-failed")
      BY <1>11 DEF CommitFails, Transaction
    <2>2. CASE Install(p)
      BY <1>8, <2>1, <2>2
    <2>3. CASE UNCHANGED rows
      <3>1. /\ pc' = [pc EXCEPT ![p] = "returned"] /\ result'[p] = "transaction-failed"
            /\ \A x \in Ops \ {p} : result'[x] = result[x]
        BY <1>0, <2>1 DEF Return, Goto, TypeOK
      <3> QED BY <1>9, <2>1, <2>3, <3>1
    <2> QED BY <1>11, <2>2, <2>3 DEF CommitFails
  <1>12. ASSUME NEW p \in Ops, Rollback(p) PROVE Calls(q)'
    <2>1. pc[p] = "rollback" /\ EndTx(p) /\ UNCHANGED <<rows, call, found, resolved>>
      BY <1>12 DEF Rollback
    <2>2. result[p] # "none" /\ result[p] # "success"
      BY <2>1 DEF IInv, Calls, Placed
    <2>3. /\ pc' = [pc EXCEPT ![p] = "returned"] /\ result'[p] \in {result[p], "transaction-failed"}
          /\ \A x \in Ops \ {p} : result'[x] = result[x]
      BY <1>0, <1>12 DEF Rollback, Return, Goto, TypeOK
    <2> QED BY <1>9, <2>1, <2>2, <2>3
  <1>13. ASSUME NEW p \in Ops, Crash(p) PROVE Calls(q)'
    <2>1. /\ pc[p] \in Transaction \cup {"rollback"} /\ EndTx(p)
          /\ UNCHANGED <<rows, call, found, resolved, result>> /\ pc' = [pc EXCEPT ![p] = "crashed"]
      BY <1>13 DEF Crash, Goto
    <2>2. result'[p] # "success"
      BY <2>1 DEF IInv, Calls, Placed, Transaction
    <2> QED BY <1>9, <2>1, <2>2
  <1>14. ASSUME NEW a \in Accounts, NEW status \in {"active", "disabled", "deleted"},
                SetAccountStatus(a, status)
         PROVE  Calls(q)'
    <2>1. /\ UNCHANGED <<bound, verified, credential, share, pc, call, found, resolved, staged, result>>
          /\ share[a] = {} /\ account[a] # "none" /\ account' = [account EXCEPT ![a] = status]
      BY <1>14 DEF SetAccountStatus
    <2>2. q \in Accounts
      BY Names
    <2> QED BY <1>0, <1>1, <2>1, <2>2 DEF Beside, TypeOK
  <1> QED BY <1>3, <1>4, <1>5, <1>6, <1>7, <1>10, <1>11, <1>12, <1>13, <1>14 DEF Next, Step

-----------------------------------------------------------------------------
(* Keys and rows                                                           *)

\* What a step stages for a key was not locked.
LEMMA StagedKeys ==
  ASSUME IInv, Next, NEW q \in Ops, NEW w \in {"identity", "credential"}, w \in staged'[q]
  PROVE  /\ call'[q] = call[q]
         /\ w \in staged[q] \/ ~Locked(q, w)
         /\ w \in staged[q] \/ \A x \in Ops \ {q} : staged'[x] = staged[x] /\ call'[x] = call[x]
  <1>0. TypeOK /\ \A x \in Ops : pc[x] = "idle" => staged[x] = {}
    BY DEF IInv, Calls, Placed
  <1>1. ASSUME UNCHANGED <<staged, call>>
        PROVE  w \in staged[q] /\ call'[q] = call[q]
    BY <1>1
  <1>2. ASSUME NEW p \in Ops, NEW x, Stage(p, x), UNCHANGED call, x \in {"identity", "credential"} => ~Locked(p, x)
        PROVE  /\ call'[q] = call[q]
               /\ w \in staged[q] \/ ~Locked(q, w)
               /\ w \in staged[q] \/ \A y \in Ops \ {q} : staged'[y] = staged[y] /\ call'[y] = call[y]
    BY <1>0, <1>2 DEF Stage, TypeOK
  <1>3. ASSUME NEW p \in Ops, EndTx(p), UNCHANGED call
        PROVE  w \in staged[q] /\ call'[q] = call[q]
    <2>1. staged'[p] = {} /\ \A x \in Ops \ {p} : staged'[x] = staged[x]
      BY <1>0, <1>3, EndTxType
    <2> QED BY <1>3, <2>1
  <1>4. ASSUME NEW p \in Ops, NEW c \in Call, Open(p, c)
        PROVE  w \in staged[q] /\ call'[q] = call[q]
    BY <1>0, <1>4 DEF Open, TypeOK
  <1>5. ASSUME NEW p \in Ops, \/ ResolveIdentity(p) \/ CheckAccount(p) \/ KeepIdentity(p)
                              \/ FindCredential(p) \/ PersistRest(p) \/ Fails(p)
        PROVE  UNCHANGED <<staged, call>>
    BY <1>5 DEF ResolveIdentity, CheckAccount, KeepIdentity, FindCredential, PersistRest, Fails
  <1>6. ASSUME NEW p \in Ops, CreateAccount(p) \/ MarkVerified(p)
        PROVE  UNCHANGED call /\ \E x : Stage(p, x) /\ x \notin {"identity", "credential"}
    BY <1>6 DEF CreateAccount, MarkVerified
  <1>7. ASSUME NEW p \in Ops, InsertIdentity(p) \/ InsertCredential(p)
        PROVE  UNCHANGED call /\ (UNCHANGED staged \/ \E x : Stage(p, x) /\ ~Locked(p, x))
    BY <1>7 DEF InsertIdentity, InsertCredential
  <1>8. ASSUME NEW p \in Ops, Commit(p) \/ CommitFails(p) \/ Rollback(p) \/ Crash(p)
        PROVE  EndTx(p) /\ UNCHANGED call
    BY <1>8 DEF Commit, CommitFails, Rollback, Crash
  <1>9. ASSUME NEW a \in Accounts, NEW status \in {"active", "disabled", "deleted"},
               SetAccountStatus(a, status)
        PROVE  UNCHANGED <<staged, call>>
    BY <1>9 DEF SetAccountStatus
  <1> QED BY <1>1, <1>2, <1>3, <1>4, <1>5, <1>6, <1>7, <1>8, <1>9 DEF Next, Step

\* Every step keeps keys exclusive.
LEMMA ExclusiveStep ==
  ASSUME IInv, Next
  PROVE  Exclusive'
  <1> SUFFICES ASSUME NEW p \in Ops, NEW q \in Ops, NEW w \in {"identity", "credential"},
                      w \in staged'[p], w \in staged'[q], call'[p].subject = call'[q].subject, p # q
               PROVE  FALSE
    BY DEF Exclusive
  <1>1. call'[p] = call[p] /\ call'[q] = call[q]
    BY StagedKeys
  <1>2. CASE w \in staged[p] /\ w \in staged[q]
    BY <1>1, <1>2 DEF IInv, Exclusive
  <1>3. ASSUME NEW x \in Ops, NEW y \in Ops, x # y, w \in staged'[x], w \in staged'[y],
               call[x].subject = call[y].subject, w \notin staged[x]
        PROVE  FALSE
    <2>1. ~Locked(x, w) /\ staged'[y] = staged[y]
      BY <1>3, StagedKeys
    <2> QED BY <1>3, <2>1 DEF Locked
  <1> QED BY <1>1, <1>2, <1>3

\* The rows change by commits and by administration.
LEMMA RowMoves ==
  ASSUME Next
  PROVE  \/ UNCHANGED rows
         \/ \E p \in Ops : pc[p] = "commit" /\ Install(p)
         \/ \E a \in Accounts, status \in {"active", "disabled", "deleted"} : SetAccountStatus(a, status)
  BY DEF Next, Step, Open, ResolveIdentity, CheckAccount, CreateAccount, KeepIdentity, MarkVerified,
         InsertIdentity, FindCredential, InsertCredential, PersistRest, Commit, CommitFails, Rollback,
         Fails, Crash

\* Every step verifies only identities there are.
LEMMA SaneStep ==
  ASSUME IInv, Next
  PROVE  Sane'
  <1>0. Sane
    BY DEF IInv
  <1>1. CASE UNCHANGED rows
    BY <1>0, <1>1 DEF Sane, rows
  <1>2. ASSUME NEW p \in Ops, pc[p] = "commit", Install(p) PROVE Sane'
    <2>1. Calls(p) /\ TypeOK /\ call[p] \in Call /\ resolved[p] \in Accounts
      BY <1>2, AtCommit DEF IInv
    <2>2. "verified" \in staged[p] => bound[call[p].subject] # NoAccount
      <3>1. "verified" \in staged[p] => bound[call[p].subject] = found[p].account /\ found[p].account # NoAccount
        BY <1>2, <2>1 DEF Calls, Knows, Resolved, Transaction
      <3> QED BY <3>1
    <2>3. resolved[p] # NoAccount
      BY <2>1, Names
    <2> SUFFICES ASSUME NEW s \in Subjects, verified'[s] PROVE bound'[s] # NoAccount
      BY DEF Sane
    <2>4. CASE s # call[p].subject
      BY <1>0, <1>2, <2>1, <2>4, InstallType DEF Sane
    <2>5. CASE s = call[p].subject
      <3>1. bound'[s] = IF "identity" \in staged[p] THEN resolved[p] ELSE bound[s]
        BY <1>2, <2>1, <2>5, InstallType
      <3>2. verified'[s] <=> \/ "verified" \in staged[p]
                             \/ IF "identity" \in staged[p] THEN call[p].verifies ELSE verified[s]
        BY <1>2, <2>1, <2>5, InstallType
      <3> QED BY <1>0, <2>2, <2>3, <2>5, <3>1, <3>2 DEF Sane
    <2> QED BY <2>4, <2>5
  <1>3. ASSUME NEW a \in Accounts, NEW status \in {"active", "disabled", "deleted"},
               SetAccountStatus(a, status)
        PROVE  Sane'
    BY <1>0, <1>3 DEF SetAccountStatus, Sane
  <1> QED BY <1>1, <1>2, <1>3, RowMoves

-----------------------------------------------------------------------------
(* The registry                                                            *)

\* A commit is one resolution of the registry.
LEMMA InstallResolves ==
  ASSUME IInv, NEW p \in Ops, pc[p] = "commit", Install(p)
  PROVE  Registry!Resolve(call[p].subject, resolved[p], "credential" \in staged[p])
  <1> DEFINE s == call[p].subject
             a == resolved[p]
  <1>1. Calls(p) /\ TypeOK /\ call[p] \in Call /\ a \in Accounts /\ s \in Subjects
    BY AtCommit, Names DEF IInv
  <1>2. /\ "identity" \in staged[p] \/ found[p].account # NoAccount
        /\ found[p].account # NoAccount => a = found[p].account /\ bound[s] = found[p].account
        /\ "account" \in staged[p] => a = p /\ found[p].account = NoAccount
        /\ "account" \in staged[p] \/ account[a] = "active"
        /\ account[p] = "none"
        /\ "identity" \in staged[p] => bound[s] = NoAccount
        /\ "credential" \in staged[p] => credential[s] = NoAccount
    BY <1>1 DEF Calls, Placed, Knows, Ready, Usable, Free, Resolved, After, Transaction
  <1>3. bound' = [bound EXCEPT ![s] = a]
    <2>1. bound' = [bound EXCEPT ![s] = IF "identity" \in staged[p] THEN a ELSE bound[s]]
      BY DEF Install
    <2>2. (IF "identity" \in staged[p] THEN a ELSE bound[s]) = a
      BY <1>2
    <2> HIDE DEF a, s
    <2> QED BY <2>1, <2>2
  <1>4. Registry!Register(s, a) \/ Registry!Link(s, a)
    <2>1. CASE "account" \in staged[p]
      <3>1. account' = [account EXCEPT ![a] = "active"]
        BY <1>2, <2>1 DEF Install
      <3> QED BY <1>2, <1>3, <2>1, <3>1 DEF Registry!Register
    <2>2. CASE "account" \notin staged[p]
      <3>1. account' = account
        BY <2>2 DEF Install
      <3> QED BY <1>2, <1>3, <2>2, <3>1 DEF Registry!Link
    <2> QED BY <2>1, <2>2
  <1>5. IF "credential" \in staged[p]
        THEN credential[s] = NoAccount /\ credential' = [credential EXCEPT ![s] = a]
        ELSE UNCHANGED credential
    <2>1. credential' = [credential EXCEPT ![s] = IF "credential" \in staged[p] THEN a ELSE credential[s]]
      BY DEF Install
    <2>2. CASE "credential" \in staged[p]
      BY <1>2, <2>1, <2>2
    <2>3. CASE "credential" \notin staged[p]
      BY <1>1, <2>1, <2>3 DEF TypeOK
    <2> QED BY <2>2, <2>3
  <1> QED BY <1>4, <1>5 DEF Registry!Resolve

\* Every step is one of the registry, or changes nothing there.
LEMMA RegistryStep ==
  ASSUME IInv, Next
  PROVE  [Registry!Next]_(Registry!vars)
  <1>1. CASE UNCHANGED rows
    BY <1>1 DEF rows, Registry!vars
  <1>2. ASSUME NEW p \in Ops, pc[p] = "commit", Install(p) PROVE Registry!Next
    <2>1. call[p].subject \in Subjects /\ resolved[p] \in Accounts /\ ("credential" \in staged[p]) \in BOOLEAN
      BY <1>2, AtCommit, Names DEF IInv
    <2> QED BY <1>2, <2>1, InstallResolves DEF Registry!Next
  <1>3. ASSUME NEW a \in Accounts, NEW status \in {"active", "disabled", "deleted"},
               SetAccountStatus(a, status)
        PROVE  Registry!Next
    BY <1>3 DEF SetAccountStatus, Registry!Next, Registry!SetStatus
  <1> QED BY <1>1, <1>2, <1>3, RowMoves

-----------------------------------------------------------------------------
(* Theorems                                                                *)

\* The invariant holds initially.
LEMMA Initially == Init => IInv
  <1> SUFFICES ASSUME Init PROVE IInv
    OBVIOUS
  <1>1. TypeOK
    <2>1. "idle" \in Phase /\ Missing \in [account : Accounts \cup {NoAccount}, verified : BOOLEAN]
      BY DEF Phase, Missing
    <2> QED BY <2>1, Names DEF Init, TypeOK, Results
  <1>2. \A p \in Ops : Calls(p)
    <2>1. \A p \in Ops : account[p] = "none" /\ pc[p] = "idle" /\ staged[p] = {} /\ result[p] = "none"
      BY Names DEF Init
    <2> QED BY <2>1 DEF Calls, Placed, Knows, Ready, Usable, Free, Answered, Owns,
                        Resolved, After, Transaction
  <1>3. Exclusive /\ Sane
    BY DEF Init, Exclusive, Sane
  <1> QED BY <1>1, <1>2, <1>3 DEF IInv

\* Every step keeps it.
LEMMA Inductive == IInv /\ [Next]_vars => IInv'
  <1> SUFFICES ASSUME IInv, [Next]_vars PROVE IInv'
    OBVIOUS
  <1>1. CASE Next
    BY <1>1, TypeStep, CallsStep, ExclusiveStep, SaneStep DEF IInv
  <1>2. CASE UNCHANGED vars
    BY <1>2 DEF IInv, vars, rows, TypeOK, Calls, Placed, Knows, Ready, Usable, Free, Answered, Owns,
                Exclusive, Sane
  <1> QED BY <1>1, <1>2

\* The invariant holds for ever.
LEMMA Invariance == Spec => []IInv
  BY Initially, Inductive, PTL DEF Spec

\* Every variable keeps its type.
THEOREM TypeCorrect == Spec => []TypeOK
  <1>1. IInv => TypeOK
    BY DEF IInv
  <1> QED BY <1>1, Invariance, PTL

\* No call leaves an account without its identity, whatever fails or crashes.
THEOREM NoOrphans == Spec => []NoOrphanAccount
  <1>1. IInv => NoOrphanAccount
    BY DEF IInv, Calls, Owns, NoOrphanAccount
  <1> QED BY <1>1, Invariance, PTL

\* A success is answered for the owner of the subject, now and ever after.
THEOREM OwnerAnswered == Spec => []AnswerNamesOwner
  <1>1. IInv => AnswerNamesOwner
    BY DEF IInv, Calls, Answered, AnswerNamesOwner
  <1> QED BY <1>1, Invariance, PTL

\* The account a call commits for is its own, or locked and active.
THEOREM CommitsUsable == Spec => []UsableAtCommit
  <1>1. IInv => UsableAtCommit
    BY DEF IInv, Calls, Usable, After, UsableAtCommit
  <1> QED BY <1>1, Invariance, PTL

\* The concurrent transactions implement the registry.
THEOREM Refinement == Spec => ImplementsRegistry
  <1>1. Init => Registry!Init
    BY Names DEF Init, Registry!Init
  <1>2. ASSUME IInv, [Next]_vars PROVE [Registry!Next]_(Registry!vars)
    <2>1. CASE Next
      BY <1>2, <2>1, RegistryStep
    <2>2. CASE UNCHANGED vars
      BY <2>2 DEF vars, rows, Registry!vars
    <2> QED BY <1>2, <2>1, <2>2
  <1> QED BY <1>1, <1>2, Invariance, PTL DEF Spec, ImplementsRegistry, Registry!Spec

=============================================================================
