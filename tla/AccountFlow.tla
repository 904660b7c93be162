----------------------------- MODULE AccountFlow -----------------------------
(***************************************************************************)
(* The account side of enroll() and of complete(): inside its transaction  *)
(* a call resolves the account of a subject, creates the account and the   *)
(* identity where its mode says so, and adds a credential when it enrolls. *)
(* The identity is read without a lock, so between two calls only the      *)
(* unique constraints decide: an insert waits for the open transaction     *)
(* that inserted the same key, and fails if that one commits.  Challenge   *)
(* rows, sessions, effects and all that comes before the transaction are   *)
(* in ChallengeFlow and SessionFlow.                                       *)
(***************************************************************************)
CONSTANTS
  Subjects,   \* subjects of one method and tenant
  Existing,   \* accounts there are from the start
  Ops,        \* calls; a call that creates an account also names it
  NoAccount

ASSUME NamesAssumption == Existing \cap Ops = {} /\ NoAccount \notin Existing \cup Ops

VARIABLES
  account,     \* committed account statuses
  bound,       \* per subject: the account of its committed identity
  verified,    \* per subject: whether that identity is verified
  credential,  \* per subject: the account of its identity's credential
  share,       \* per account: calls whose transaction holds the row FOR SHARE
  pc,          \* where each call is
  call,        \* what each call was asked for
  found,       \* the identity a call read
  resolved,    \* the account a call resolved
  staged,      \* the kinds of rows its open transaction has written
  result       \* what the call returned, or will when it has rolled back

rows == <<account, bound, verified, credential>>
vars == <<rows, share, pc, call, found, resolved, staged, result>>

-----------------------------------------------------------------------------

Accounts == Existing \cup Ops

EnrollModes == {"create-new-account", "link-to-actor-account"}
Modes == EnrollModes \cup {"require-existing-identity", "create-account-if-identity-missing"}

\* enroll() may come with credential material, complete() with a proof that
\* verifies the identity.
Call == {c \in [kind : {"enroll", "complete"}, mode : Modes, subject : Subjects,
                actor : Existing \cup {NoAccount}, material : BOOLEAN, verifies : BOOLEAN] :
           /\ c.kind = "enroll" => c.mode \in EnrollModes /\ ~c.verifies
           /\ c.kind = "complete" => ~c.material
           /\ c.actor # NoAccount <=> c.mode = "link-to-actor-account"}

NoCall == [kind |-> "none"]

Missing == [account |-> NoAccount, verified |-> FALSE]

Writes == {"account", "identity", "verified", "credential"}

Transaction == {"resolve", "account", "create", "identity", "lookup", "insert", "rest", "commit"}
Phase == Transaction \cup {"idle", "rollback", "returned", "crashed"}

Results == {"none", "success", "conflict", "denied", "unauthenticated",
            "unavailable", "failed", "transaction-failed"}

Goto(p, phase) == pc' = [pc EXCEPT ![p] = phase]

\* The callback returns a failure, so the transaction is rolled back.
Reject(p, reason) ==
  /\ Goto(p, "rollback")
  /\ result' = [result EXCEPT ![p] = reason]

Stage(p, write) == staged' = [staged EXCEPT ![p] = @ \cup {write}]

\* Another open transaction has written that row of the subject.
Locked(p, write) ==
  \E q \in Ops \ {p} : write \in staged[q] /\ call[q].subject = call[p].subject

\* Definitions named Slip... are plausible coding slips of the definition after
\* them; no specification uses them.

EndTx(p) ==
  /\ share' = [a \in Accounts |-> share[a] \ {p}]
  /\ staged' = [staged EXCEPT ![p] = {}]

Init ==
  /\ account = [a \in Accounts |-> IF a \in Existing THEN "active" ELSE "none"]
  /\ bound \in [Subjects -> Existing \cup {NoAccount}]
  /\ verified \in [Subjects -> BOOLEAN]
  /\ credential \in [Subjects -> Existing \cup {NoAccount}]
  /\ \A s \in Subjects :
       /\ verified[s] => bound[s] # NoAccount
       /\ credential[s] \in {NoAccount, bound[s]}
  /\ share = [a \in Accounts |-> {}]
  /\ pc = [p \in Ops |-> "idle"]
  /\ call = [p \in Ops |-> NoCall]
  /\ found = [p \in Ops |-> Missing]
  /\ resolved = [p \in Ops |-> NoAccount]
  /\ staged = [p \in Ops |-> {}]
  /\ result = [p \in Ops |-> "none"]

\* The transaction opens.
Open(p, c) ==
  /\ pc[p] = "idle"
  /\ Goto(p, "resolve")
  /\ call' = [call EXCEPT ![p] = c]
  /\ UNCHANGED <<rows, share, found, resolved, staged, result>>

-----------------------------------------------------------------------------
(* resolveAccount                                                          *)

\* The owner of an existing identity is not compared with the actor.
SlipRefusal(c, identity) ==
  CASE c.mode = "create-new-account" /\ identity.account # NoAccount -> "conflict"
    [] c.mode = "require-existing-identity" /\ identity.account = NoAccount -> "unauthenticated"
    [] OTHER -> "none"

Refusal(c, identity) ==
  CASE c.mode = "create-new-account" /\ identity.account # NoAccount -> "conflict"
    [] c.mode = "require-existing-identity" /\ identity.account = NoAccount -> "unauthenticated"
    [] c.mode = "link-to-actor-account" /\ identity.account \notin {NoAccount, c.actor} -> "denied"
    [] OTHER -> "none"

\* findBySubject, and what the mode makes of its answer.
ResolveIdentity(p) ==
  LET c == call[p]
      identity == [account |-> bound[c.subject], verified |-> verified[c.subject]]
      owner == IF c.mode = "link-to-actor-account" THEN c.actor ELSE identity.account
  IN
  /\ pc[p] = "resolve"
  /\ found' = [found EXCEPT ![p] = identity]
  /\ resolved' = [resolved EXCEPT ![p] = owner]
  /\ IF Refusal(c, identity) # "none" THEN Reject(p, Refusal(c, identity))
     ELSE /\ Goto(p, IF owner = NoAccount THEN "create" ELSE "account")
          /\ UNCHANGED result
  /\ UNCHANGED <<rows, share, call, staged>>

\* The account is read without a row lock.
SlipCheckAccount(p) ==
  /\ pc[p] = "account"
  /\ IF account[resolved[p]] = "active" THEN Goto(p, "identity") /\ UNCHANGED result
     ELSE Reject(p, "unavailable")
  /\ UNCHANGED <<rows, share, call, found, resolved, staged>>

\* The account is read FOR SHARE and must be active.
CheckAccount(p) ==
  /\ pc[p] = "account"
  /\ share' = [share EXCEPT ![resolved[p]] = @ \cup {p}]
  /\ IF account[resolved[p]] = "active" THEN Goto(p, "identity") /\ UNCHANGED result
     ELSE Reject(p, "unavailable")
  /\ UNCHANGED <<rows, call, found, resolved, staged>>

\* The account is created outside the transaction.
SlipCreateAccount(p) ==
  /\ pc[p] = "create"
  /\ account' = [account EXCEPT ![p] = "active"]
  /\ resolved' = [resolved EXCEPT ![p] = p]
  /\ Goto(p, "identity")
  /\ UNCHANGED <<bound, verified, credential, share, call, found, staged, result>>

\* A fresh account identifier never collides.
CreateAccount(p) ==
  /\ pc[p] = "create"
  /\ Stage(p, "account")
  /\ resolved' = [resolved EXCEPT ![p] = p]
  /\ Goto(p, "identity")
  /\ UNCHANGED <<rows, share, call, found, result>>

-----------------------------------------------------------------------------
(* The identity and the credential                                         *)

AfterIdentity(p) == IF call[p].material THEN "lookup" ELSE "rest"

\* An identity found by resolveAccount is kept.
KeepIdentity(p) ==
  /\ pc[p] = "identity"
  /\ found[p].account # NoAccount
  /\ ~call[p].verifies \/ found[p].verified
  /\ Goto(p, AfterIdentity(p))
  /\ UNCHANGED <<rows, share, call, found, resolved, staged, result>>

\* markVerified waits for other updates of the row.
MarkVerified(p) ==
  /\ pc[p] = "identity"
  /\ found[p].account # NoAccount
  /\ call[p].verifies /\ ~found[p].verified
  /\ ~Locked(p, "verified")
  /\ Stage(p, "verified")
  /\ Goto(p, AfterIdentity(p))
  /\ UNCHANGED <<rows, share, call, found, resolved, result>>

\* The unique constraint on the subject is missing: the last insert counts.
SlipInsertIdentity(p) ==
  /\ pc[p] = "identity"
  /\ found[p].account = NoAccount
  /\ Stage(p, "identity")
  /\ Goto(p, AfterIdentity(p))
  /\ UNCHANGED <<rows, share, call, found, resolved, result>>

\* The insert of a subject that had no identity when it was looked up.
InsertIdentity(p) ==
  /\ pc[p] = "identity"
  /\ found[p].account = NoAccount
  /\ ~Locked(p, "identity")
  /\ IF bound[call[p].subject] # NoAccount
     THEN Reject(p, "conflict") /\ UNCHANGED staged
     ELSE Stage(p, "identity") /\ Goto(p, AfterIdentity(p)) /\ UNCHANGED result
  /\ UNCHANGED <<rows, share, call, found, resolved>>

\* findForIdentity: an identity has one credential per method.
FindCredential(p) ==
  /\ pc[p] = "lookup"
  /\ IF credential[call[p].subject] # NoAccount
     THEN Reject(p, "conflict")
     ELSE Goto(p, "insert") /\ UNCHANGED result
  /\ UNCHANGED <<rows, share, call, found, resolved, staged>>

\* The unique constraint on identity and method decides between two inserts.
InsertCredential(p) ==
  /\ pc[p] = "insert"
  /\ ~Locked(p, "credential")
  /\ IF credential[call[p].subject] # NoAccount
     THEN Reject(p, "conflict") /\ UNCHANGED staged
     ELSE Stage(p, "credential") /\ Goto(p, "rest") /\ UNCHANGED result
  /\ UNCHANGED <<rows, share, call, found, resolved>>

\* Required effects and the session of the resolved account.
PersistRest(p) ==
  /\ pc[p] = "rest"
  /\ Goto(p, "commit")
  /\ UNCHANGED <<rows, share, call, found, resolved, staged, result>>

\* A step's failure is not passed on.
SlipFails(p) ==
  /\ pc[p] \in Transaction
  /\ Goto(p, "rollback")
  /\ UNCHANGED <<rows, share, call, found, resolved, staged, result>>

\* Policy, a statement, an effect or the session fails, or the proof expired.
Fails(p) ==
  /\ pc[p] \in Transaction
  /\ Reject(p, "failed")
  /\ UNCHANGED <<rows, share, call, found, resolved, staged>>

-----------------------------------------------------------------------------
(* The end of the transaction                                              *)

\* The writes of p's transaction become visible.
Install(p) ==
  LET s == call[p].subject
      new(write, old, value) == IF write \in staged[p] THEN value ELSE old
  IN
  /\ account' = IF "account" \in staged[p] THEN [account EXCEPT ![p] = "active"] ELSE account
  /\ bound' = [bound EXCEPT ![s] = new("identity", @, resolved[p])]
  /\ verified' = [verified EXCEPT ![s] =
        new("identity", @, call[p].verifies) \/ "verified" \in staged[p]]
  /\ credential' = [credential EXCEPT ![s] = new("credential", @, resolved[p])]

Return(p, outcome) ==
  /\ Goto(p, "returned")
  /\ result' = [result EXCEPT ![p] = outcome]

Commit(p) ==
  /\ pc[p] = "commit"
  /\ Install(p)
  /\ EndTx(p)
  /\ Return(p, "success")
  /\ UNCHANGED <<call, found, resolved>>

\* The identity is written outside the transaction: it survives without the
\* account and the credential.
SlipCommitFails(p) ==
  /\ pc[p] = "commit"
  /\ \/ Install(p)
     \/ /\ "identity" \in staged[p]
        /\ bound' = [bound EXCEPT ![call[p].subject] = resolved[p]]
        /\ UNCHANGED <<account, verified, credential>>
     \/ UNCHANGED rows
  /\ EndTx(p)
  /\ Return(p, "transaction-failed")
  /\ UNCHANGED <<call, found, resolved>>

\* The provider throws: the commit was applied, or it was not.
CommitFails(p) ==
  /\ pc[p] = "commit"
  /\ Install(p) \/ UNCHANGED rows
  /\ EndTx(p)
  /\ Return(p, "transaction-failed")
  /\ UNCHANGED <<call, found, resolved>>

\* The callback's failure is returned, or the provider throws on top of it.
Rollback(p) ==
  /\ pc[p] = "rollback"
  /\ EndTx(p)
  /\ Return(p, result[p]) \/ Return(p, "transaction-failed")
  /\ UNCHANGED <<rows, call, found, resolved>>

\* The process running p dies: the database rolls its transaction back.
Crash(p) ==
  /\ pc[p] \in Transaction \cup {"rollback"}
  /\ EndTx(p)
  /\ Goto(p, "crashed")
  /\ UNCHANGED <<rows, call, found, resolved, result>>

\* accounts.updateStatus waits for the share locks of the row.
SetAccountStatus(a, status) ==
  /\ share[a] = {}
  /\ \/ account[a] = "active" /\ status \in {"disabled", "deleted"}
     \/ account[a] = "disabled" /\ status \in {"active", "deleted"}
  /\ account' = [account EXCEPT ![a] = status]
  /\ UNCHANGED <<bound, verified, credential, share, pc, call, found, resolved, staged, result>>

Step(p) ==
  \/ ResolveIdentity(p) \/ CheckAccount(p) \/ CreateAccount(p)
  \/ KeepIdentity(p) \/ MarkVerified(p) \/ InsertIdentity(p)
  \/ FindCredential(p) \/ InsertCredential(p) \/ PersistRest(p)
  \/ Commit(p) \/ CommitFails(p) \/ Rollback(p)

Next ==
  \/ \E p \in Ops, c \in Call : Open(p, c)
  \/ \E p \in Ops : Step(p) \/ Fails(p) \/ Crash(p)
  \/ \E a \in Accounts, status \in {"active", "disabled", "deleted"} : SetAccountStatus(a, status)

Spec == Init /\ [][Next]_vars

-----------------------------------------------------------------------------
(* Properties                                                              *)

\* Every variable keeps its type, and a call that has returned has an answer.
TypeOK ==
  /\ account \in [Accounts -> {"none", "active", "disabled", "deleted"}]
  /\ bound \in [Subjects -> Accounts \cup {NoAccount}]
  /\ verified \in [Subjects -> BOOLEAN]
  /\ credential \in [Subjects -> Accounts \cup {NoAccount}]
  /\ share \in [Accounts -> SUBSET Ops]
  /\ pc \in [Ops -> Phase]
  /\ call \in [Ops -> Call \cup {NoCall}]
  /\ found \in [Ops -> [account : Accounts \cup {NoAccount}, verified : BOOLEAN]]
  /\ resolved \in [Ops -> Accounts \cup {NoAccount}]
  /\ staged \in [Ops -> SUBSET Writes]
  /\ result \in [Ops -> Results]
  /\ \A p \in Ops : pc[p] = "returned" => result[p] # "none"

\* However many calls register one subject at once, and whether they fail,
\* crash or lose their answer, none leaves an account without an identity
\* behind: an account a call has created owns the call's subject.
NoOrphanAccount ==
  \A p \in Ops : account[p] # "none" =>
    /\ pc[p] # "idle"
    /\ bound[call[p].subject] = p

\* A call that returned success is answered, and given a session, for the
\* account that owns the subject, now and ever after; and its proof, where it
\* verifies the identity, has verified it.
AnswerNamesOwner ==
  \A p \in Ops : result[p] = "success" =>
    /\ bound[call[p].subject] = resolved[p]
    /\ call[p].material => credential[call[p].subject] = resolved[p]
    /\ call[p].verifies => verified[call[p].subject]

\* The account a call is about to commit for is active, its own or locked
\* against administration, however long ago it was resolved.
UsableAtCommit ==
  \A p \in Ops : pc[p] = "commit" =>
    "account" \in staged[p] \/ account[resolved[p]] = "active"

\* Reads without locks, share locks and unique constraints together implement
\* the registry, where a call takes effect in one step.
Registry == INSTANCE AccountRegistry WITH bound <- bound

ImplementsRegistry == Registry!Spec

\* docs/02-FLOWS.md:367 promises a conflict to a call that links an identity of
\* another account.
LinkConflictAnswered ==
  \A p \in Ops :
    pc[p] = "returned" /\ call[p].mode = "link-to-actor-account"
      /\ found[p].account \notin {NoAccount, call[p].actor}
      => result[p] \in {"conflict", "failed", "transaction-failed"}

=============================================================================
