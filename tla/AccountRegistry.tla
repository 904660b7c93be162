-------------------------- MODULE AccountRegistry ---------------------------
(***************************************************************************)
(* What enroll() and complete() promise about accounts, identities and     *)
(* credentials, without reads, locks or transactions: in one step a call   *)
(* binds a subject to a usable account, creating the account only together *)
(* with its identity, and a binding or a credential is never replaced.     *)
(***************************************************************************)
CONSTANTS
  Subjects,    \* (method, subject) pairs of one tenant
  Accounts,
  NoAccount

VARIABLES
  account,     \* [Accounts -> {"none", "active", "disabled", "deleted"}]
  bound,       \* [Subjects -> Accounts \cup {NoAccount}]: the identity's account
  credential   \* likewise, the account of its identity's credential

vars == <<account, bound, credential>>

Init ==
  /\ account \in [Accounts -> {"none", "active"}]
  /\ bound \in [Subjects -> {a \in Accounts : account[a] = "active"} \cup {NoAccount}]
  /\ credential \in [Subjects -> Accounts \cup {NoAccount}]
  /\ \A s \in Subjects : credential[s] \in {NoAccount, bound[s]}

\* A new account comes with its first identity.
Register(s, a) ==
  /\ account[a] = "none"
  /\ bound[s] = NoAccount
  /\ account' = [account EXCEPT ![a] = "active"]
  /\ bound' = [bound EXCEPT ![s] = a]

\* An account that is used, or linked to, is active at that moment.
Link(s, a) ==
  /\ account[a] = "active"
  /\ bound[s] \in {NoAccount, a}
  /\ bound' = [bound EXCEPT ![s] = a]
  /\ UNCHANGED account

Resolve(s, a, withCredential) ==
  /\ Register(s, a) \/ Link(s, a)
  /\ IF withCredential
     THEN /\ credential[s] = NoAccount
          /\ credential' = [credential EXCEPT ![s] = a]
     ELSE UNCHANGED credential

SetStatus(a) ==
  /\ \/ account[a] = "active" /\ \E x \in {"disabled", "deleted"} : account' = [account EXCEPT ![a] = x]
     \/ account[a] = "disabled" /\ \E x \in {"active", "deleted"} : account' = [account EXCEPT ![a] = x]
  /\ UNCHANGED <<bound, credential>>

Next ==
  \/ \E s \in Subjects, a \in Accounts, c \in BOOLEAN : Resolve(s, a, c)
  \/ \E a \in Accounts : SetStatus(a)

Spec == Init /\ [][Next]_vars

=============================================================================
