-------------------------- MODULE AuthStackProofs --------------------------
(***************************************************************************)
(* Theorems about AuthStack, for any clients, any scenes and any bounds:   *)
(* the indexes of the in-memory stores agree with their rows, the core     *)
(* accepts every row, and a transaction that commits is as good as one     *)
(* that ran alone at its commit.                                           *)
(***************************************************************************)
EXTENDS AuthStack, LoopsProofs

-----------------------------------------------------------------------------
(* The maps as a record                                                    *)

MapFields == {"accounts", "identities", "subjects", "credentials", "byIdentity",
              "sessions", "byToken", "challenges", "messages", "keys"}

Fields == MapFields \cup {"order", "leaseSequence"}

IsMap(m) == m = [k \in DOMAIN m |-> m[k]]

IsDb(db) == /\ db = [f \in Fields |-> db[f]]
            /\ \A f \in MapFields : IsMap(db[f])
            /\ IsList(db.order)

\* The fields of R as in w, the others as in db.
Merged(db, w, R) == [f \in Fields |-> IF f \in R THEN w[f] ELSE db[f]]

Agree(e, d, R) == \A f \in R : e[f] = d[f]

\* The same call made on e and on d, which agree on R, has given q and r.
Alike(q, r, e, R) ==
  q.answer = r.answer /\ q.wrote = r.wrote /\ q.db = Merged(e, r.db, R)

\* A call on d has changed nothing outside R.
Framed(r, d, R) ==
  /\ IsDb(r.db)
  /\ \A f \in Fields \ R : r.db[f] = d[f]
  /\ \A f \in MapFields \ R : \A k : <<f, k>> \notin r.wrote

\* What an operation returns.
IsResult(r) == r = [db |-> r.db, wrote |-> r.wrote, answer |-> r.answer]

LEMMA MergedSame ==
  ASSUME NEW e, NEW d, NEW R, IsDb(e), Agree(e, d, R)
  PROVE  Merged(e, d, R) = e
  BY DEF Merged, Agree, IsDb

LEMMA PutIsMap ==
  ASSUME NEW m, NEW k, NEW v
  PROVE  IsMap(Put(m, k, v)) /\ DOMAIN Put(m, k, v) = DOMAIN m \cup {k}
         /\ \A x \in DOMAIN m \cup {k} : Put(m, k, v)[x] = IF x = k THEN v ELSE m[x]
  BY DEF IsMap, Put

LEMMA OverIsMap ==
  ASSUME NEW m, NEW n
  PROVE  IsMap(Over(n, m)) /\ DOMAIN Over(n, m) = DOMAIN n \cup DOMAIN m
         /\ \A x \in DOMAIN n \cup DOMAIN m : Over(n, m)[x] = IF x \in DOMAIN n THEN n[x] ELSE m[x]
  BY DEF IsMap, Over

\* One map of db replaced.
LEMMA DbPut ==
  ASSUME NEW db, IsDb(db), NEW f \in MapFields, NEW m, IsMap(m)
  PROVE  /\ IsDb([db EXCEPT ![f] = m])
         /\ [db EXCEPT ![f] = m][f] = m
         /\ \A g \in Fields : g # f => [db EXCEPT ![f] = m][g] = db[g]
  BY DEF IsDb, Fields, MapFields

LEMMA AnswersAlike ==
  ASSUME NEW e, NEW d, NEW R, IsDb(e), Agree(e, d, R), NEW a
  PROVE  Alike(Answers(e, a), Answers(d, a), e, R)
  BY MergedSame DEF Alike, Answers

LEMMA AnswersFramed ==
  ASSUME NEW d, NEW R, IsDb(d), NEW a
  PROVE  Framed(Answers(d, a), d, R)
  BY DEF Framed, Answers

LEMMA StoresAlike ==
  ASSUME NEW e, NEW d, NEW R, IsDb(e), IsDb(d), Agree(e, d, R),
         NEW f \in R \cap MapFields, NEW k, NEW v, NEW a
  PROVE  Alike(Stores(e, f, k, v, a), Stores(d, f, k, v, a), e, R)
  <1>1. e[f] = d[f] BY DEF Agree
  <1>2. [e EXCEPT ![f] = Put(@, k, v)] = Merged(e, [d EXCEPT ![f] = Put(@, k, v)], R)
    BY <1>1 DEF Merged, Agree, IsDb, Fields
  <1> QED BY <1>2 DEF Alike, Stores

LEMMA StoresFramed ==
  ASSUME NEW d, NEW R, IsDb(d), NEW f \in R \cap MapFields, NEW k, NEW v, NEW a
  PROVE  Framed(Stores(d, f, k, v, a), d, R)
  <1>1. IsMap(Put(d[f], k, v)) BY PutIsMap
  <1>2. Stores(d, f, k, v, a) = [db |-> [d EXCEPT ![f] = Put(d[f], k, v)], wrote |-> {<<f, k>>}, answer |-> a]
    BY DEF Stores
  <1> DEFINE n == [d EXCEPT ![f] = Put(d[f], k, v)]
  <1>3. IsDb(n) /\ \A g \in Fields : g # f => n[g] = d[g]
    BY ONLY <1>1, DbPut, IsDb(d), f \in R \cap MapFields
  <1>4. \A g \in MapFields \ R : \A x : <<g, x>> \notin {<<f, k>>}
    OBVIOUS
  <1>5. Stores(d, f, k, v, a) = [db |-> n, wrote |-> {<<f, k>>}, answer |-> a]
    BY <1>2
  <1> HIDE DEF n
  <1> QED BY <1>5, <1>3, <1>4 DEF Framed

LEMMA StoresIndexedAlike ==
  ASSUME NEW e, NEW d, NEW R, IsDb(e), IsDb(d), Agree(e, d, R),
         NEW f \in R \cap MapFields, NEW k, NEW v, NEW g \in R \cap MapFields, NEW ik, f # g
  PROVE  Alike(StoresIndexed(e, f, k, v, g, ik), StoresIndexed(d, f, k, v, g, ik), e, R)
  <1>1. e[f] = d[f] /\ e[g] = d[g] BY DEF Agree
  <1>2. [e EXCEPT ![f] = Put(@, k, v), ![g] = Put(@, ik, k)]
          = Merged(e, [d EXCEPT ![f] = Put(@, k, v), ![g] = Put(@, ik, k)], R)
    BY <1>1 DEF Merged, Agree, IsDb, Fields
  <1> QED BY <1>2 DEF Alike, StoresIndexed

LEMMA StoresIndexedFramed ==
  ASSUME NEW d, NEW R, IsDb(d), NEW f \in R \cap MapFields, NEW k, NEW v,
         NEW g \in R \cap MapFields, NEW ik, f # g
  PROVE  Framed(StoresIndexed(d, f, k, v, g, ik), d, R)
  <1>1. IsMap(Put(d[f], k, v)) /\ IsMap(Put(d[g], ik, k)) BY PutIsMap
  <1>2. StoresIndexed(d, f, k, v, g, ik) =
          [db |-> [[d EXCEPT ![f] = Put(d[f], k, v)] EXCEPT ![g] = Put(d[g], ik, k)],
           wrote |-> {<<f, k>>}, answer |-> "ok"]
    BY DEF StoresIndexed, IsDb
  <1> DEFINE n == [d EXCEPT ![f] = Put(d[f], k, v)]
             m == [n EXCEPT ![g] = Put(d[g], ik, k)]
  <1>3. IsDb(n) /\ \A x \in Fields : x # f => n[x] = d[x]
    BY ONLY <1>1, DbPut, IsDb(d), f \in R \cap MapFields
  <1> HIDE DEF n
  <1>4. IsDb(m) /\ \A x \in Fields : x # g => m[x] = n[x]
    BY ONLY <1>1, <1>3, DbPut, g \in R \cap MapFields
  <1>5. \A h \in MapFields \ R : \A x : <<h, x>> \notin {<<f, k>>}
    OBVIOUS
  <1>6. StoresIndexed(d, f, k, v, g, ik) = [db |-> m, wrote |-> {<<f, k>>}, answer |-> "ok"]
    BY <1>2 DEF n
  <1> HIDE DEF m
  <1> QED BY <1>3, <1>4, <1>5, <1>6 DEF Framed

-----------------------------------------------------------------------------
(* What a call inside a transaction reads and writes                       *)

\* The maps a transaction has answered for when it commits.
Region(covers) ==
  {f \in Fields : \E s \in covers : f \in scopeStateKeys(s)}
    \cup {"messages", "keys", "order", "leaseSequence"}

LEMMA RegionHas ==
  ASSUME NEW covers \in SUBSET Scopes
  PROVE  /\ Region(covers) \subseteq Fields
         /\ "accounts" \in covers => "accounts" \in Region(covers)
         /\ "identities" \in covers => {"identities", "subjects"} \subseteq Region(covers)
         /\ "credentials" \in covers => {"credentials", "byIdentity"} \subseteq Region(covers)
         /\ "sessions" \in covers => {"sessions", "byToken"} \subseteq Region(covers)
         /\ "challenges" \in covers => "challenges" \in Region(covers)
         /\ {"messages", "keys", "order", "leaseSequence"} \subseteq Region(covers)
  <1>1. /\ scopeStateKeys("accounts") = {"accounts"}
        /\ scopeStateKeys("identities") = {"identities", "subjects"}
        /\ scopeStateKeys("credentials") = {"credentials", "byIdentity"}
        /\ scopeStateKeys("sessions") = {"sessions", "byToken"}
        /\ scopeStateKeys("challenges") = {"challenges"}
        /\ scopeStateKeys("outbox") = {}
    BY DEF scopeStateKeys
  <1>2. Region(covers) \subseteq Fields /\ {"messages", "keys", "order", "leaseSequence"} \subseteq Region(covers)
    BY DEF Region, Fields, MapFields
  <1>3. ASSUME NEW s \in covers, NEW f \in Fields, f \in scopeStateKeys(s) PROVE f \in Region(covers)
    BY <1>3 DEF Region
  <1> QED BY <1>1, <1>2, <1>3 DEF Fields, MapFields

\* Calls on e and on d, which agree on R, do the same, and nothing outside R.
Local(q, r, e, d, R) == Alike(q, r, e, R) /\ Framed(r, d, R)

\* What LocalCall assumes of two databases and the scopes of a transaction.
Twins(e, d, covers) ==
  /\ IsDb(e) /\ IsDb(d) /\ covers \in SUBSET Scopes /\ Agree(e, d, Region(covers))

LEMMA ResultsLocal ==
  ASSUME NEW e, NEW d, NEW R, R \subseteq Fields, IsDb(e), IsDb(d), Agree(e, d, R)
  PROVE  /\ \A a : Local(Answers(e, a), Answers(d, a), e, d, R)
         /\ \A f \in R \cap MapFields : \A k, v, a :
              Local(Stores(e, f, k, v, a), Stores(d, f, k, v, a), e, d, R)
         /\ \A f, g \in R \cap MapFields : f # g => \A k, v, ik :
              Local(StoresIndexed(e, f, k, v, g, ik), StoresIndexed(d, f, k, v, g, ik), e, d, R)
  <1>1. ASSUME NEW a PROVE Local(Answers(e, a), Answers(d, a), e, d, R)
    BY AnswersAlike, AnswersFramed DEF Local
  <1>2. ASSUME NEW f \in R \cap MapFields, NEW k, NEW v, NEW a
        PROVE  Local(Stores(e, f, k, v, a), Stores(d, f, k, v, a), e, d, R)
    BY StoresAlike, StoresFramed DEF Local
  <1>3. ASSUME NEW f \in R \cap MapFields, NEW g \in R \cap MapFields, f # g, NEW k, NEW v, NEW ik
        PROVE  Local(StoresIndexed(e, f, k, v, g, ik), StoresIndexed(d, f, k, v, g, ik), e, d, R)
    BY <1>3, StoresIndexedAlike, StoresIndexedFramed DEF Local
  <1> QED BY <1>1, <1>2, <1>3

LEMMA AccountCallsLocal ==
  ASSUME NEW e, NEW d, NEW covers, Twins(e, d, covers), {"accounts"} \subseteq covers, NEW c, NEW t
  PROVE  /\ Local(createAccount(e, c, t), createAccount(d, c, t), e, d, Region(covers))
         /\ Local(findAccount(e, c, t), findAccount(d, c, t), e, d, Region(covers))
         /\ Local(updateAccountStatus(e, c, t), updateAccountStatus(d, c, t), e, d, Region(covers))
  <1> DEFINE R == Region(covers)
  <1>1. R \subseteq Fields /\ {"accounts"} \subseteq R
    BY RegionHas DEF Twins
  <1>2. IsDb(e) /\ IsDb(d) /\ Agree(e, d, R) BY DEF Twins
  <1> HIDE DEF R
  <1>m0. e.accounts = d.accounts /\ "accounts" \in R \cap MapFields BY <1>1, <1>2 DEF Agree, MapFields
  <1>3. /\ \A a : Local(Answers(e, a), Answers(d, a), e, d, R)
        /\ \A f \in R \cap MapFields : \A k, v, a :
             Local(Stores(e, f, k, v, a), Stores(d, f, k, v, a), e, d, R)
        /\ \A f, g \in R \cap MapFields : f # g => \A k, v, ik :
             Local(StoresIndexed(e, f, k, v, g, ik), StoresIndexed(d, f, k, v, g, ik), e, d, R)
    BY <1>1, <1>2, ResultsLocal
  <1>o0. Local(createAccount(e, c, t), createAccount(d, c, t), e, d, R)
    BY ONLY <1>m0, <1>3 DEF createAccount
  <1>o1. Local(findAccount(e, c, t), findAccount(d, c, t), e, d, R)
    BY ONLY <1>m0, <1>3 DEF findAccount
  <1>o2. Local(updateAccountStatus(e, c, t), updateAccountStatus(d, c, t), e, d, R)
    BY ONLY <1>m0, <1>3 DEF updateAccountStatus
  <1> QED BY <1>o0, <1>o1, <1>o2 DEF R

LEMMA CreateIdentityLocal ==
  ASSUME NEW e, NEW d, NEW covers, Twins(e, d, covers), {"identities", "accounts"} \subseteq covers, NEW c, NEW t
  PROVE  /\ Local(createIdentity(e, c, t), createIdentity(d, c, t), e, d, Region(covers))
  <1> DEFINE R == Region(covers)
  <1>1. R \subseteq Fields /\ {"accounts", "identities", "subjects"} \subseteq R
    BY RegionHas DEF Twins
  <1>2. IsDb(e) /\ IsDb(d) /\ Agree(e, d, R) BY DEF Twins
  <1> HIDE DEF R
  <1>m0. e.accounts = d.accounts /\ "accounts" \in R \cap MapFields BY <1>1, <1>2 DEF Agree, MapFields
  <1>m1. e.identities = d.identities /\ "identities" \in R \cap MapFields BY <1>1, <1>2 DEF Agree, MapFields
  <1>m2. e.subjects = d.subjects /\ "subjects" \in R \cap MapFields BY <1>1, <1>2 DEF Agree, MapFields
  <1>3. /\ \A a : Local(Answers(e, a), Answers(d, a), e, d, R)
        /\ \A f \in R \cap MapFields : \A k, v, a :
             Local(Stores(e, f, k, v, a), Stores(d, f, k, v, a), e, d, R)
        /\ \A f, g \in R \cap MapFields : f # g => \A k, v, ik :
             Local(StoresIndexed(e, f, k, v, g, ik), StoresIndexed(d, f, k, v, g, ik), e, d, R)
    BY <1>1, <1>2, ResultsLocal
  <1>o0. Local(createIdentity(e, c, t), createIdentity(d, c, t), e, d, R)
    BY ONLY <1>m0, <1>m1, <1>m2, <1>3 DEF createIdentity
  <1> QED BY <1>o0 DEF R

LEMMA IdentityCallsLocal ==
  ASSUME NEW e, NEW d, NEW covers, Twins(e, d, covers), {"identities"} \subseteq covers, NEW c, NEW t
  PROVE  /\ Local(findBySubject(e, c, t), findBySubject(d, c, t), e, d, Region(covers))
         /\ Local(markVerified(e, c, t), markVerified(d, c, t), e, d, Region(covers))
  <1> DEFINE R == Region(covers)
  <1>1. R \subseteq Fields /\ {"identities", "subjects"} \subseteq R
    BY RegionHas DEF Twins
  <1>2. IsDb(e) /\ IsDb(d) /\ Agree(e, d, R) BY DEF Twins
  <1> HIDE DEF R
  <1>m0. e.identities = d.identities /\ "identities" \in R \cap MapFields BY <1>1, <1>2 DEF Agree, MapFields
  <1>m1. e.subjects = d.subjects /\ "subjects" \in R \cap MapFields BY <1>1, <1>2 DEF Agree, MapFields
  <1>3. /\ \A a : Local(Answers(e, a), Answers(d, a), e, d, R)
        /\ \A f \in R \cap MapFields : \A k, v, a :
             Local(Stores(e, f, k, v, a), Stores(d, f, k, v, a), e, d, R)
        /\ \A f, g \in R \cap MapFields : f # g => \A k, v, ik :
             Local(StoresIndexed(e, f, k, v, g, ik), StoresIndexed(d, f, k, v, g, ik), e, d, R)
    BY <1>1, <1>2, ResultsLocal
  <1>o0. Local(findBySubject(e, c, t), findBySubject(d, c, t), e, d, R)
    BY ONLY <1>m0, <1>m1, <1>3 DEF findBySubject, FoundBy, Has
  <1>o1. Local(markVerified(e, c, t), markVerified(d, c, t), e, d, R)
    BY ONLY <1>m0, <1>m1, <1>3 DEF markVerified
  <1> QED BY <1>o0, <1>o1 DEF R

LEMMA CreateCredentialLocal ==
  ASSUME NEW e, NEW d, NEW covers, Twins(e, d, covers), {"credentials", "accounts", "identities"} \subseteq covers, NEW c, NEW t
  PROVE  /\ Local(createCredential(e, c, t), createCredential(d, c, t), e, d, Region(covers))
  <1> DEFINE R == Region(covers)
  <1>1. R \subseteq Fields /\ {"accounts", "identities", "credentials", "byIdentity"} \subseteq R
    BY RegionHas DEF Twins
  <1>2. IsDb(e) /\ IsDb(d) /\ Agree(e, d, R) BY DEF Twins
  <1> HIDE DEF R
  <1>m0. e.accounts = d.accounts /\ "accounts" \in R \cap MapFields BY <1>1, <1>2 DEF Agree, MapFields
  <1>m1. e.identities = d.identities /\ "identities" \in R \cap MapFields BY <1>1, <1>2 DEF Agree, MapFields
  <1>m2. e.credentials = d.credentials /\ "credentials" \in R \cap MapFields BY <1>1, <1>2 DEF Agree, MapFields
  <1>m3. e.byIdentity = d.byIdentity /\ "byIdentity" \in R \cap MapFields BY <1>1, <1>2 DEF Agree, MapFields
  <1>3. /\ \A a : Local(Answers(e, a), Answers(d, a), e, d, R)
        /\ \A f \in R \cap MapFields : \A k, v, a :
             Local(Stores(e, f, k, v, a), Stores(d, f, k, v, a), e, d, R)
        /\ \A f, g \in R \cap MapFields : f # g => \A k, v, ik :
             Local(StoresIndexed(e, f, k, v, g, ik), StoresIndexed(d, f, k, v, g, ik), e, d, R)
    BY <1>1, <1>2, ResultsLocal
  <1>o0. Local(createCredential(e, c, t), createCredential(d, c, t), e, d, R)
    BY ONLY <1>m0, <1>m1, <1>m2, <1>m3, <1>3 DEF createCredential
  <1> QED BY <1>o0 DEF R

LEMMA CredentialCallsLocal ==
  ASSUME NEW e, NEW d, NEW covers, Twins(e, d, covers), {"credentials"} \subseteq covers, NEW c, NEW t
  PROVE  /\ Local(findForIdentity(e, c, t), findForIdentity(d, c, t), e, d, Region(covers))
         /\ Local(replaceMaterial(e, c, t), replaceMaterial(d, c, t), e, d, Region(covers))
         /\ Local(updateCredentialStatus(e, c, t), updateCredentialStatus(d, c, t), e, d, Region(covers))
  <1> DEFINE R == Region(covers)
  <1>1. R \subseteq Fields /\ {"credentials", "byIdentity"} \subseteq R
    BY RegionHas DEF Twins
  <1>2. IsDb(e) /\ IsDb(d) /\ Agree(e, d, R) BY DEF Twins
  <1> HIDE DEF R
  <1>m0. e.credentials = d.credentials /\ "credentials" \in R \cap MapFields BY <1>1, <1>2 DEF Agree, MapFields
  <1>m1. e.byIdentity = d.byIdentity /\ "byIdentity" \in R \cap MapFields BY <1>1, <1>2 DEF Agree, MapFields
  <1>3. /\ \A a : Local(Answers(e, a), Answers(d, a), e, d, R)
        /\ \A f \in R \cap MapFields : \A k, v, a :
             Local(Stores(e, f, k, v, a), Stores(d, f, k, v, a), e, d, R)
        /\ \A f, g \in R \cap MapFields : f # g => \A k, v, ik :
             Local(StoresIndexed(e, f, k, v, g, ik), StoresIndexed(d, f, k, v, g, ik), e, d, R)
    BY <1>1, <1>2, ResultsLocal
  <1>o0. Local(findForIdentity(e, c, t), findForIdentity(d, c, t), e, d, R)
    BY ONLY <1>m0, <1>m1, <1>3 DEF findForIdentity, FoundBy, Has
  <1>o1. Local(replaceMaterial(e, c, t), replaceMaterial(d, c, t), e, d, R)
    BY ONLY <1>m0, <1>m1, <1>3 DEF replaceMaterial, Versioned
  <1>o2. Local(updateCredentialStatus(e, c, t), updateCredentialStatus(d, c, t), e, d, R)
    BY ONLY <1>m0, <1>m1, <1>3 DEF updateCredentialStatus, Versioned
  <1> QED BY <1>o0, <1>o1, <1>o2 DEF R

LEMMA CreateSessionLocal ==
  ASSUME NEW e, NEW d, NEW covers, Twins(e, d, covers), {"sessions", "accounts"} \subseteq covers, NEW c, NEW t
  PROVE  /\ Local(createSession(e, c, t), createSession(d, c, t), e, d, Region(covers))
  <1> DEFINE R == Region(covers)
  <1>1. R \subseteq Fields /\ {"accounts", "sessions", "byToken"} \subseteq R
    BY RegionHas DEF Twins
  <1>2. IsDb(e) /\ IsDb(d) /\ Agree(e, d, R) BY DEF Twins
  <1> HIDE DEF R
  <1>m0. e.accounts = d.accounts /\ "accounts" \in R \cap MapFields BY <1>1, <1>2 DEF Agree, MapFields
  <1>m1. e.sessions = d.sessions /\ "sessions" \in R \cap MapFields BY <1>1, <1>2 DEF Agree, MapFields
  <1>m2. e.byToken = d.byToken /\ "byToken" \in R \cap MapFields BY <1>1, <1>2 DEF Agree, MapFields
  <1>3. /\ \A a : Local(Answers(e, a), Answers(d, a), e, d, R)
        /\ \A f \in R \cap MapFields : \A k, v, a :
             Local(Stores(e, f, k, v, a), Stores(d, f, k, v, a), e, d, R)
        /\ \A f, g \in R \cap MapFields : f # g => \A k, v, ik :
             Local(StoresIndexed(e, f, k, v, g, ik), StoresIndexed(d, f, k, v, g, ik), e, d, R)
    BY <1>1, <1>2, ResultsLocal
  <1>o0. Local(createSession(e, c, t), createSession(d, c, t), e, d, R)
    BY ONLY <1>m0, <1>m1, <1>m2, <1>3 DEF createSession
  <1> QED BY <1>o0 DEF R

LEMMA SessionCallsLocal ==
  ASSUME NEW e, NEW d, NEW covers, Twins(e, d, covers), {"sessions"} \subseteq covers, NEW c, NEW t
  PROVE  /\ Local(findByTokenHash(e, c, t), findByTokenHash(d, c, t), e, d, Region(covers))
         /\ Local(revoke(e, c, t), revoke(d, c, t), e, d, Region(covers))
  <1> DEFINE R == Region(covers)
  <1>1. R \subseteq Fields /\ {"sessions", "byToken"} \subseteq R
    BY RegionHas DEF Twins
  <1>2. IsDb(e) /\ IsDb(d) /\ Agree(e, d, R) BY DEF Twins
  <1> HIDE DEF R
  <1>m0. e.sessions = d.sessions /\ "sessions" \in R \cap MapFields BY <1>1, <1>2 DEF Agree, MapFields
  <1>m1. e.byToken = d.byToken /\ "byToken" \in R \cap MapFields BY <1>1, <1>2 DEF Agree, MapFields
  <1>3. /\ \A a : Local(Answers(e, a), Answers(d, a), e, d, R)
        /\ \A f \in R \cap MapFields : \A k, v, a :
             Local(Stores(e, f, k, v, a), Stores(d, f, k, v, a), e, d, R)
        /\ \A f, g \in R \cap MapFields : f # g => \A k, v, ik :
             Local(StoresIndexed(e, f, k, v, g, ik), StoresIndexed(d, f, k, v, g, ik), e, d, R)
    BY <1>1, <1>2, ResultsLocal
  <1>o0. Local(findByTokenHash(e, c, t), findByTokenHash(d, c, t), e, d, R)
    BY ONLY <1>m0, <1>m1, <1>3 DEF findByTokenHash, FoundBy, Has
  <1>o1. Local(revoke(e, c, t), revoke(d, c, t), e, d, R)
    BY ONLY <1>m0, <1>m1, <1>3 DEF revoke
  <1> QED BY <1>o0, <1>o1 DEF R

LEMMA ChallengeCallsLocal ==
  ASSUME NEW e, NEW d, NEW covers, Twins(e, d, covers), {"challenges"} \subseteq covers, NEW c, NEW t
  PROVE  /\ Local(createChallenge(e, c, t), createChallenge(d, c, t), e, d, Region(covers))
         /\ Local(findChallenge(e, c, t), findChallenge(d, c, t), e, d, Region(covers))
         /\ Local(recordFailedAttempt(e, c, t), recordFailedAttempt(d, c, t), e, d, Region(covers))
         /\ Local(consumePending(e, c, t), consumePending(d, c, t), e, d, Region(covers))
  <1> DEFINE R == Region(covers)
  <1>1. R \subseteq Fields /\ {"challenges"} \subseteq R
    BY RegionHas DEF Twins
  <1>2. IsDb(e) /\ IsDb(d) /\ Agree(e, d, R) BY DEF Twins
  <1> HIDE DEF R
  <1>m0. e.challenges = d.challenges /\ "challenges" \in R \cap MapFields BY <1>1, <1>2 DEF Agree, MapFields
  <1>3. /\ \A a : Local(Answers(e, a), Answers(d, a), e, d, R)
        /\ \A f \in R \cap MapFields : \A k, v, a :
             Local(Stores(e, f, k, v, a), Stores(d, f, k, v, a), e, d, R)
        /\ \A f, g \in R \cap MapFields : f # g => \A k, v, ik :
             Local(StoresIndexed(e, f, k, v, g, ik), StoresIndexed(d, f, k, v, g, ik), e, d, R)
    BY <1>1, <1>2, ResultsLocal
  <1>o0. Local(createChallenge(e, c, t), createChallenge(d, c, t), e, d, R)
    BY ONLY <1>m0, <1>3 DEF createChallenge
  <1>o1. Local(findChallenge(e, c, t), findChallenge(d, c, t), e, d, R)
    BY ONLY <1>m0, <1>3 DEF findChallenge
  <1>o2. Local(recordFailedAttempt(e, c, t), recordFailedAttempt(d, c, t), e, d, R)
    BY ONLY <1>m0, <1>3 DEF recordFailedAttempt, Moves
  <1>o3. Local(consumePending(e, c, t), consumePending(d, c, t), e, d, R)
    BY ONLY <1>m0, <1>3 DEF consumePending, Moves
  <1> QED BY <1>o0, <1>o1, <1>o2, <1>o3 DEF R

\* The result of a cleanup, its rows being those of new.
Expired(db, f, new) ==
  [db |-> [db EXCEPT ![f] = Over(new, @)], wrote |-> {<<f, k>> : k \in DOMAIN new},
   answer |-> Cardinality(DOMAIN new)]

LEMMA ExpiredLocal ==
  ASSUME NEW e, NEW d, NEW R, R \subseteq Fields, IsDb(e), IsDb(d), Agree(e, d, R),
         NEW f \in R \cap MapFields, NEW new
  PROVE  Local(Expired(e, f, new), Expired(d, f, new), e, d, R)
  <1>1. e[f] = d[f] BY DEF Agree
  <1>2. [e EXCEPT ![f] = Over(new, @)] = Merged(e, [d EXCEPT ![f] = Over(new, @)], R)
    BY <1>1 DEF Merged, Agree, IsDb, Fields
  <1>3. Alike(Expired(e, f, new), Expired(d, f, new), e, R)
    BY <1>2 DEF Alike, Expired
  <1> DEFINE n == [d EXCEPT ![f] = Over(new, d[f])]
  <1>4. IsMap(Over(new, d[f])) BY OverIsMap
  <1>5. IsDb(n) /\ \A g \in Fields : g # f => n[g] = d[g]
    BY ONLY <1>4, DbPut, IsDb(d), f \in R \cap MapFields
  <1>6. /\ Expired(d, f, new).db = n
        /\ Expired(d, f, new).wrote = {<<f, k>> : k \in DOMAIN new}
    BY DEF Expired
  <1> HIDE DEF n
  <1>7. \A g \in MapFields \ R : \A x : <<g, x>> \notin {<<f, k>> : k \in DOMAIN new}
    OBVIOUS
  <1> QED BY <1>3, <1>5, <1>6, <1>7 DEF Local, Framed

LEMMA CleanupsLocal ==
  ASSUME NEW e, NEW d, NEW covers, Twins(e, d, covers), NEW c, NEW t
  PROVE  /\ "sessions" \in covers =>
              Local(cleanupExpiredSessions(e, c, t), cleanupExpiredSessions(d, c, t), e, d, Region(covers))
         /\ "challenges" \in covers =>
              Local(cleanupExpiredChallenges(e, c, t), cleanupExpiredChallenges(d, c, t), e, d, Region(covers))
  <1> DEFINE R == Region(covers)
  <1>1. /\ R \subseteq Fields
        /\ "sessions" \in covers => "sessions" \in R
        /\ "challenges" \in covers => "challenges" \in R
    BY RegionHas DEF Twins
  <1>2. IsDb(e) /\ IsDb(d) /\ Agree(e, d, R) BY DEF Twins
  <1> HIDE DEF R
  <1>3. \A f \in R \cap MapFields : \A new : Local(Expired(e, f, new), Expired(d, f, new), e, d, R)
    BY <1>1, <1>2, ExpiredLocal
  <1>4. ASSUME "sessions" \in covers
        PROVE  Local(cleanupExpiredSessions(e, c, t), cleanupExpiredSessions(d, c, t), e, d, R)
    <2> DEFINE due == {s \in DOMAIN d.sessions :
                         d.sessions[s].status = "active" /\ d.sessions[s].expiresAt <= t}
               new == [k \in due |-> [[d.sessions[k] EXCEPT !.updated = t] EXCEPT !.status = "expired"]]
    <2>1. e.sessions = d.sessions /\ "sessions" \in R \cap MapFields
      BY <1>1, <1>2, <1>4 DEF Agree, MapFields
    <2>2. cleanupExpiredSessions(e, c, t) = Expired(e, "sessions", new)
      BY <2>1 DEF cleanupExpiredSessions, Expires, Expired
    <2>3. cleanupExpiredSessions(d, c, t) = Expired(d, "sessions", new)
      BY DEF cleanupExpiredSessions, Expires, Expired
    <2> QED BY ONLY <1>3, <2>1, <2>2, <2>3
  <1>5. ASSUME "challenges" \in covers
        PROVE  Local(cleanupExpiredChallenges(e, c, t), cleanupExpiredChallenges(d, c, t), e, d, R)
    <2> DEFINE due == {h \in DOMAIN d.challenges :
                         d.challenges[h].status = "pending" /\ d.challenges[h].expiresAt <= t}
               new == [k \in due |-> [Aged(d.challenges[k], t) EXCEPT !.status = "expired"]]
    <2>1. e.challenges = d.challenges /\ "challenges" \in R \cap MapFields
      BY <1>1, <1>2, <1>5 DEF Agree, MapFields
    <2>2. cleanupExpiredChallenges(e, c, t) = Expired(e, "challenges", new)
      BY <2>1 DEF cleanupExpiredChallenges, Expires, Expired
    <2>3. cleanupExpiredChallenges(d, c, t) = Expired(d, "challenges", new)
      BY DEF cleanupExpiredChallenges, Expires, Expired
    <2> QED BY ONLY <1>3, <2>1, <2>2, <2>3
  <1> QED BY <1>4, <1>5 DEF R

\* A batch that is accepted, with what it adds.
Enqueued(db, new, keys, ids, a) ==
  [db |-> [db EXCEPT !.messages = Over(new, @), !.order = @ \o ids, !.keys = Over(keys, @)],
   wrote |-> {<<"messages", id>> : id \in DOMAIN new}, answer |-> a]

LEMMA ConcatIsList ==
  ASSUME NEW s, NEW r, IsList(s), IsList(r)
  PROVE  IsList(s \o r)
  <1>1. s \in Seq(ToSet(s)) /\ r \in Seq(ToSet(r)) BY DEF IsList
  <1>2. \A i \in 1..Len(s) : (s \o r)[i] = s[i] BY <1>1
  <1>3. \A i \in 1..Len(r) : (s \o r)[Len(s) + i] = r[i] BY <1>1
  <1>4. DOMAIN (s \o r) = 1..(Len(s) + Len(r)) /\ Len(s) \in Nat /\ Len(r) \in Nat BY <1>1
  <1>5. ToSet(s) \cup ToSet(r) \subseteq ToSet(s \o r)
    <2>1. ASSUME NEW i \in DOMAIN s PROVE s[i] \in ToSet(s \o r)
      <3>1. i \in 1..Len(s) /\ i \in DOMAIN (s \o r) BY <1>1, <1>4
      <3> QED BY <3>1, <1>2 DEF ToSet
    <2>2. ASSUME NEW i \in DOMAIN r PROVE r[i] \in ToSet(s \o r)
      <3>1. i \in 1..Len(r) BY <1>1
      <3>2. Len(s) + i \in DOMAIN (s \o r) BY <3>1, <1>4
      <3> QED BY <3>1, <3>2, <1>3 DEF ToSet
    <2> QED BY <2>1, <2>2 DEF ToSet
  <1>6. s \in Seq(ToSet(s \o r)) /\ r \in Seq(ToSet(s \o r)) BY <1>1, <1>5
  <1> QED BY <1>6 DEF IsList

LEMMA EnqueuedLocal ==
  ASSUME NEW e, NEW d, NEW R, R \subseteq Fields, IsDb(e), IsDb(d), Agree(e, d, R),
         {"messages", "keys", "order"} \subseteq R,
         NEW new, NEW keys, NEW ids, IsList(ids), NEW a
  PROVE  Local(Enqueued(e, new, keys, ids, a), Enqueued(d, new, keys, ids, a), e, d, R)
  <1>1. e.messages = d.messages /\ e.keys = d.keys /\ e.order = d.order BY DEF Agree
  <1> DEFINE n(x) == [x EXCEPT !.messages = Over(new, d.messages), !.order = d.order \o ids,
                               !.keys = Over(keys, d.keys)]
  <1>2. /\ Enqueued(e, new, keys, ids, a)
             = [db |-> n(e), wrote |-> {<<"messages", id>> : id \in DOMAIN new}, answer |-> a]
        /\ Enqueued(d, new, keys, ids, a)
             = [db |-> n(d), wrote |-> {<<"messages", id>> : id \in DOMAIN new}, answer |-> a]
    BY <1>1 DEF Enqueued
  <1>3. n(e) = Merged(e, n(d), R)
    BY <1>1 DEF Merged, Agree, IsDb, Fields, MapFields
  <1>4. IsMap(Over(new, d.messages)) /\ IsMap(Over(keys, d.keys)) BY OverIsMap
  <1>5. IsList(d.order \o ids) BY ConcatIsList DEF IsDb
  <1>6. IsDb(n(d)) /\ \A g \in Fields \ R : n(d)[g] = d[g]
    BY <1>4, <1>5 DEF IsDb, Fields, MapFields
  <1> HIDE DEF n
  <1>7. \A g \in MapFields \ R : \A x : <<g, x>> \notin {<<"messages", k>> : k \in DOMAIN new}
    OBVIOUS
  <1> QED BY <1>2, <1>3, <1>6, <1>7 DEF Local, Framed, Alike

-----------------------------------------------------------------------------
(* enqueueBatch, by what it adds                                           *)

\* The messages of a batch that are not known by their keys.
Novel(db, batch) == Only(batch, {m \in ToSet(batch) : ~Known(db, m)})

NovelIds(db, batch) == [i \in DOMAIN Novel(db, batch) |-> Novel(db, batch)[i].id]

NovelRows(db, batch, t) ==
  [id \in {Novel(db, batch)[i].id : i \in DOMAIN Novel(db, batch)} |->
     Pending(Novel(db, batch)[CHOOSE i \in DOMAIN Novel(db, batch) : Novel(db, batch)[i].id = id], t)]

Keyed(db, batch) == {i \in DOMAIN Novel(db, batch) : Novel(db, batch)[i].key # None}

NovelKeys(db, batch) ==
  [k \in {Novel(db, batch)[i].key : i \in Keyed(db, batch)} |->
     Novel(db, batch)[CHOOSE i \in Keyed(db, batch) : Novel(db, batch)[i].key = k].id]

Acknowledged(db, batch, t) == [i \in DOMAIN batch |-> Acknowledgement(db, batch[i], t)]

LEMMA EnqueueIs ==
  ASSUME NEW db, NEW c, NEW t
  PROVE  /\ Refused(db, c.batch) => enqueueBatch(db, c, t) = Answers(db, <<>>)
         /\ ~Refused(db, c.batch) =>
              enqueueBatch(db, c, t) =
                Enqueued(db, NovelRows(db, c.batch, t), NovelKeys(db, c.batch), NovelIds(db, c.batch),
                         Acknowledged(db, c.batch, t))
  BY DEF enqueueBatch, Enqueued, NovelRows, NovelKeys, NovelIds, Keyed, Novel, Acknowledged

\* The elements of a selection are elements of the sequence, at increasing places.
LEMMA NovelFacts ==
  ASSUME NEW db, NEW batch, IsList(batch)
  PROVE  /\ Novel(db, batch) \in Seq(ToSet(batch))
         /\ \A i \in DOMAIN Novel(db, batch) : ~Known(db, Novel(db, batch)[i])
         /\ \E m \in [DOMAIN Novel(db, batch) -> DOMAIN batch] :
              /\ \A i \in DOMAIN Novel(db, batch) : Novel(db, batch)[i] = batch[m[i]]
              /\ \A i, j \in DOMAIN Novel(db, batch) : i < j => m[i] < m[j]
  <1> DEFINE T == ToSet(batch)
             S == {m \in T : ~Known(db, m)}
  <1>1. batch \in Seq(T) BY DEF IsList
  <1>2. Novel(db, batch) = Only(batch, S) BY DEF Novel
  <1>0. \A x \in S : ~Known(db, x) OBVIOUS
  <1> HIDE DEF S
  <1>3. /\ Only(batch, S) \in Seq(T)
        /\ \A i \in 1..Len(Only(batch, S)) : Only(batch, S)[i] \in S
        /\ \E m : Selects(m, Only(batch, S), batch)
    BY <1>1, OnlyFacts
  <1>4. PICK m : Selects(m, Only(batch, S), batch) BY <1>3
  <1>5. DOMAIN Only(batch, S) = 1..Len(Only(batch, S)) /\ DOMAIN batch = 1..Len(batch) BY <1>1, <1>3
  <1>6. /\ m \in [DOMAIN Only(batch, S) -> DOMAIN batch]
        /\ \A i \in DOMAIN Only(batch, S) : Only(batch, S)[i] = batch[m[i]]
        /\ \A i, j \in DOMAIN Only(batch, S) : i < j => m[i] < m[j]
    BY <1>4, <1>5 DEF Selects
  <1> QED BY <1>2, <1>3, <1>5, <1>6, <1>0

LEMMA EnqueueLocal ==
  ASSUME NEW e, NEW d, NEW covers, Twins(e, d, covers), NEW c, NEW t, IsList(c.batch)
  PROVE  Local(enqueueBatch(e, c, t), enqueueBatch(d, c, t), e, d, Region(covers))
  <1> DEFINE R == Region(covers)
             b == c.batch
  <1>1. R \subseteq Fields /\ {"messages", "keys", "order"} \subseteq R
    BY RegionHas DEF Twins
  <1>2. IsDb(e) /\ IsDb(d) /\ Agree(e, d, R) BY DEF Twins
  <1> HIDE DEF R
  <1>3. e.messages = d.messages /\ e.keys = d.keys BY <1>1, <1>2 DEF Agree
  <1>4. \A m : Known(e, m) <=> Known(d, m) BY <1>3 DEF Known
  <1>5. Refused(e, b) <=> Refused(d, b) BY <1>3, <1>4 DEF Refused
  <1>6. Novel(e, b) = Novel(d, b)
    <2>1. {m \in ToSet(b) : ~Known(e, m)} = {m \in ToSet(b) : ~Known(d, m)} BY <1>4
    <2> QED BY <2>1 DEF Novel
  <1>7. /\ NovelRows(e, b, t) = NovelRows(d, b, t)
        /\ NovelKeys(e, b) = NovelKeys(d, b)
        /\ NovelIds(e, b) = NovelIds(d, b)
    BY <1>6 DEF NovelRows, NovelKeys, NovelIds, Keyed
  <1>8. Acknowledged(e, b, t) = Acknowledged(d, b, t)
    <2>1. ASSUME NEW m PROVE Acknowledgement(e, m, t) = Acknowledgement(d, m, t)
      BY ONLY <1>3 DEF Acknowledgement, Known, Has
    <2> QED BY <2>1 DEF Acknowledged
  <1>9. IsList(NovelIds(d, b))
    <2>1. Novel(d, b) \in Seq(ToSet(b)) BY NovelFacts
    <2>2. DOMAIN Novel(d, b) = 1..Len(Novel(d, b)) /\ Len(Novel(d, b)) \in Nat BY <2>1
    <2>3. NovelIds(d, b) \in Seq(ToSet(NovelIds(d, b))) BY <2>2 DEF NovelIds, ToSet
    <2> QED BY <2>3 DEF IsList
  <1>10. Local(Answers(e, <<>>), Answers(d, <<>>), e, d, R) BY <1>1, <1>2, ResultsLocal
  <1>11. Local(Enqueued(e, NovelRows(d, b, t), NovelKeys(d, b), NovelIds(d, b), Acknowledged(d, b, t)),
               Enqueued(d, NovelRows(d, b, t), NovelKeys(d, b), NovelIds(d, b), Acknowledged(d, b, t)),
               e, d, R)
    BY ONLY <1>1, <1>2, <1>9, EnqueuedLocal
  <1>12. CASE Refused(d, b)
    BY ONLY <1>12, <1>5, <1>10, EnqueueIs DEF R
  <1>13. CASE ~Refused(d, b)
    BY ONLY <1>13, <1>5, <1>7, <1>8, <1>11, EnqueueIs DEF R
  <1> QED BY <1>12, <1>13

\* A call of a transaction does the same on maps that agree on what it covers.
LEMMA CallLocal ==
  ASSUME NEW e, NEW d, NEW covers, Twins(e, d, covers), NEW c, IsCall(c), c.op \notin WorkerOps,
         Needs(c.op) \subseteq covers, NEW t
  PROVE  Local(Perform(e, c, t), Perform(d, c, t), e, d, Region(covers))
  <1>1. CASE c.op = "createAccount"
    <2>1. Perform(e, c, t) = createAccount(e, c, t) /\ Perform(d, c, t) = createAccount(d, c, t)
      BY ONLY <1>1 DEF Perform
    <2>2. {"accounts"} \subseteq covers BY <1>1 DEF Needs
    <2>3. Local(createAccount(e, c, t), createAccount(d, c, t), e, d, Region(covers))
      BY ONLY Twins(e, d, covers), <2>2, AccountCallsLocal
    <2> QED BY <2>1, <2>3
  <1>2. CASE c.op = "findAccount"
    <2>1. Perform(e, c, t) = findAccount(e, c, t) /\ Perform(d, c, t) = findAccount(d, c, t)
      BY ONLY <1>2 DEF Perform
    <2>2. {"accounts"} \subseteq covers BY <1>2 DEF Needs
    <2>3. Local(findAccount(e, c, t), findAccount(d, c, t), e, d, Region(covers))
      BY ONLY Twins(e, d, covers), <2>2, AccountCallsLocal
    <2> QED BY <2>1, <2>3
  <1>3. CASE c.op = "updateAccountStatus"
    <2>1. Perform(e, c, t) = updateAccountStatus(e, c, t) /\ Perform(d, c, t) = updateAccountStatus(d, c, t)
      BY ONLY <1>3 DEF Perform
    <2>2. {"accounts"} \subseteq covers BY <1>3 DEF Needs
    <2>3. Local(updateAccountStatus(e, c, t), updateAccountStatus(d, c, t), e, d, Region(covers))
      BY ONLY Twins(e, d, covers), <2>2, AccountCallsLocal
    <2> QED BY <2>1, <2>3
  <1>4. CASE c.op = "createIdentity"
    <2>1. Perform(e, c, t) = createIdentity(e, c, t) /\ Perform(d, c, t) = createIdentity(d, c, t)
      BY ONLY <1>4 DEF Perform
    <2>2. {"identities", "accounts"} \subseteq covers BY <1>4 DEF Needs
    <2>3. Local(createIdentity(e, c, t), createIdentity(d, c, t), e, d, Region(covers))
      BY ONLY Twins(e, d, covers), <2>2, CreateIdentityLocal
    <2> QED BY <2>1, <2>3
  <1>5. CASE c.op = "findBySubject"
    <2>1. Perform(e, c, t) = findBySubject(e, c, t) /\ Perform(d, c, t) = findBySubject(d, c, t)
      BY ONLY <1>5 DEF Perform
    <2>2. {"identities"} \subseteq covers BY <1>5 DEF Needs
    <2>3. Local(findBySubject(e, c, t), findBySubject(d, c, t), e, d, Region(covers))
      BY ONLY Twins(e, d, covers), <2>2, IdentityCallsLocal
    <2> QED BY <2>1, <2>3
  <1>6. CASE c.op = "markVerified"
    <2>1. Perform(e, c, t) = markVerified(e, c, t) /\ Perform(d, c, t) = markVerified(d, c, t)
      BY ONLY <1>6 DEF Perform
    <2>2. {"identities"} \subseteq covers BY <1>6 DEF Needs
    <2>3. Local(markVerified(e, c, t), markVerified(d, c, t), e, d, Region(covers))
      BY ONLY Twins(e, d, covers), <2>2, IdentityCallsLocal
    <2> QED BY <2>1, <2>3
  <1>7. CASE c.op = "createCredential"
    <2>1. Perform(e, c, t) = createCredential(e, c, t) /\ Perform(d, c, t) = createCredential(d, c, t)
      BY ONLY <1>7 DEF Perform
    <2>2. {"credentials", "accounts", "identities"} \subseteq covers BY <1>7 DEF Needs
    <2>3. Local(createCredential(e, c, t), createCredential(d, c, t), e, d, Region(covers))
      BY ONLY Twins(e, d, covers), <2>2, CreateCredentialLocal
    <2> QED BY <2>1, <2>3
  <1>8. CASE c.op = "findForIdentity"
    <2>1. Perform(e, c, t) = findForIdentity(e, c, t) /\ Perform(d, c, t) = findForIdentity(d, c, t)
      BY ONLY <1>8 DEF Perform
    <2>2. {"credentials"} \subseteq covers BY <1>8 DEF Needs
    <2>3. Local(findForIdentity(e, c, t), findForIdentity(d, c, t), e, d, Region(covers))
      BY ONLY Twins(e, d, covers), <2>2, CredentialCallsLocal
    <2> QED BY <2>1, <2>3
  <1>9. CASE c.op = "replaceMaterial"
    <2>1. Perform(e, c, t) = replaceMaterial(e, c, t) /\ Perform(d, c, t) = replaceMaterial(d, c, t)
      BY ONLY <1>9 DEF Perform
    <2>2. {"credentials"} \subseteq covers BY <1>9 DEF Needs
    <2>3. Local(replaceMaterial(e, c, t), replaceMaterial(d, c, t), e, d, Region(covers))
      BY ONLY Twins(e, d, covers), <2>2, CredentialCallsLocal
    <2> QED BY <2>1, <2>3
  <1>10. CASE c.op = "updateCredentialStatus"
    <2>1. Perform(e, c, t) = updateCredentialStatus(e, c, t) /\ Perform(d, c, t) = updateCredentialStatus(d, c, t)
      BY ONLY <1>10 DEF Perform
    <2>2. {"credentials"} \subseteq covers BY <1>10 DEF Needs
    <2>3. Local(updateCredentialStatus(e, c, t), updateCredentialStatus(d, c, t), e, d, Region(covers))
      BY ONLY Twins(e, d, covers), <2>2, CredentialCallsLocal
    <2> QED BY <2>1, <2>3
  <1>11. CASE c.op = "createSession"
    <2>1. Perform(e, c, t) = createSession(e, c, t) /\ Perform(d, c, t) = createSession(d, c, t)
      BY ONLY <1>11 DEF Perform
    <2>2. {"sessions", "accounts"} \subseteq covers BY <1>11 DEF Needs
    <2>3. Local(createSession(e, c, t), createSession(d, c, t), e, d, Region(covers))
      BY ONLY Twins(e, d, covers), <2>2, CreateSessionLocal
    <2> QED BY <2>1, <2>3
  <1>12. CASE c.op = "findByTokenHash"
    <2>1. Perform(e, c, t) = findByTokenHash(e, c, t) /\ Perform(d, c, t) = findByTokenHash(d, c, t)
      BY ONLY <1>12 DEF Perform
    <2>2. {"sessions"} \subseteq covers BY <1>12 DEF Needs
    <2>3. Local(findByTokenHash(e, c, t), findByTokenHash(d, c, t), e, d, Region(covers))
      BY ONLY Twins(e, d, covers), <2>2, SessionCallsLocal
    <2> QED BY <2>1, <2>3
  <1>13. CASE c.op = "revoke"
    <2>1. Perform(e, c, t) = revoke(e, c, t) /\ Perform(d, c, t) = revoke(d, c, t)
      BY ONLY <1>13 DEF Perform
    <2>2. {"sessions"} \subseteq covers BY <1>13 DEF Needs
    <2>3. Local(revoke(e, c, t), revoke(d, c, t), e, d, Region(covers))
      BY ONLY Twins(e, d, covers), <2>2, SessionCallsLocal
    <2> QED BY <2>1, <2>3
  <1>14. CASE c.op = "createChallenge"
    <2>1. Perform(e, c, t) = createChallenge(e, c, t) /\ Perform(d, c, t) = createChallenge(d, c, t)
      BY ONLY <1>14 DEF Perform
    <2>2. {"challenges"} \subseteq covers BY <1>14 DEF Needs
    <2>3. Local(createChallenge(e, c, t), createChallenge(d, c, t), e, d, Region(covers))
      BY ONLY Twins(e, d, covers), <2>2, ChallengeCallsLocal
    <2> QED BY <2>1, <2>3
  <1>15. CASE c.op = "findChallenge"
    <2>1. Perform(e, c, t) = findChallenge(e, c, t) /\ Perform(d, c, t) = findChallenge(d, c, t)
      BY ONLY <1>15 DEF Perform
    <2>2. {"challenges"} \subseteq covers BY <1>15 DEF Needs
    <2>3. Local(findChallenge(e, c, t), findChallenge(d, c, t), e, d, Region(covers))
      BY ONLY Twins(e, d, covers), <2>2, ChallengeCallsLocal
    <2> QED BY <2>1, <2>3
  <1>16. CASE c.op = "recordFailedAttempt"
    <2>1. Perform(e, c, t) = recordFailedAttempt(e, c, t) /\ Perform(d, c, t) = recordFailedAttempt(d, c, t)
      BY ONLY <1>16 DEF Perform
    <2>2. {"challenges"} \subseteq covers BY <1>16 DEF Needs
    <2>3. Local(recordFailedAttempt(e, c, t), recordFailedAttempt(d, c, t), e, d, Region(covers))
      BY ONLY Twins(e, d, covers), <2>2, ChallengeCallsLocal
    <2> QED BY <2>1, <2>3
  <1>17. CASE c.op = "consumePending"
    <2>1. Perform(e, c, t) = consumePending(e, c, t) /\ Perform(d, c, t) = consumePending(d, c, t)
      BY ONLY <1>17 DEF Perform
    <2>2. {"challenges"} \subseteq covers BY <1>17 DEF Needs
    <2>3. Local(consumePending(e, c, t), consumePending(d, c, t), e, d, Region(covers))
      BY ONLY Twins(e, d, covers), <2>2, ChallengeCallsLocal
    <2> QED BY <2>1, <2>3
  <1>18. CASE c.op = "cleanupExpiredSessions"
    <2>1. Perform(e, c, t) = cleanupExpiredSessions(e, c, t) /\ Perform(d, c, t) = cleanupExpiredSessions(d, c, t)
      BY ONLY <1>18 DEF Perform
    <2>2. {"sessions"} \subseteq covers BY <1>18 DEF Needs
    <2>3. Local(cleanupExpiredSessions(e, c, t), cleanupExpiredSessions(d, c, t), e, d, Region(covers))
      BY ONLY Twins(e, d, covers), <2>2, CleanupsLocal
    <2> QED BY <2>1, <2>3
  <1>19. CASE c.op = "cleanupExpiredChallenges"
    <2>1. Perform(e, c, t) = cleanupExpiredChallenges(e, c, t) /\ Perform(d, c, t) = cleanupExpiredChallenges(d, c, t)
      BY ONLY <1>19 DEF Perform
    <2>2. {"challenges"} \subseteq covers BY <1>19 DEF Needs
    <2>3. Local(cleanupExpiredChallenges(e, c, t), cleanupExpiredChallenges(d, c, t), e, d, Region(covers))
      BY ONLY Twins(e, d, covers), <2>2, CleanupsLocal
    <2> QED BY <2>1, <2>3
  <1>20. CASE c.op = "enqueueBatch"
    <2>1. Perform(e, c, t) = enqueueBatch(e, c, t) /\ Perform(d, c, t) = enqueueBatch(d, c, t)
      BY ONLY <1>20 DEF Perform
    <2>2. IsList(c.batch) BY <1>20 DEF IsCall
    <2>3. Local(enqueueBatch(e, c, t), enqueueBatch(d, c, t), e, d, Region(covers))
      BY ONLY Twins(e, d, covers), <2>2, EnqueueLocal
    <2> QED BY <2>1, <2>3
  <1> QED BY <1>1, <1>2, <1>3, <1>4, <1>5, <1>6, <1>7, <1>8, <1>9, <1>10, <1>11, <1>12, <1>13, <1>14, <1>15, <1>16, <1>17, <1>18, <1>19, <1>20 DEF IsCall, StoreOps

-----------------------------------------------------------------------------
(* Logs of calls                                                           *)

\* f is the history of the first n calls of the log.
IsHistory(f, db, log, n) ==
  f = [k \in 0..n |-> IF k = 0 THEN db ELSE Perform(f[k - 1], log[k].call, log[k].at).db]

LEMMA HistoryExists ==
  ASSUME NEW db, NEW log, NEW N \in Nat
  PROVE  \E f : IsHistory(f, db, log, N)
  <1> DEFINE T == {n \in Nat : \E f : IsHistory(f, db, log, n)}
  <1>1. 0 \in T
    <2>1. IsHistory([k \in 0..0 |-> db], db, log, 0) BY DEF IsHistory
    <2> QED BY <2>1
  <1>2. ASSUME NEW n \in Nat, n \in T PROVE n + 1 \in T
    <2>1. PICK f : IsHistory(f, db, log, n) BY <1>2
    <2> DEFINE g == [k \in 0..(n + 1) |->
                       IF k = n + 1 THEN Perform(f[n], log[n + 1].call, log[n + 1].at).db ELSE f[k]]
    <2>2. DOMAIN f = 0..n /\ f[0] = db
          /\ \A k \in 1..n : f[k] = Perform(f[k - 1], log[k].call, log[k].at).db
      BY <2>1 DEF IsHistory
    <2>3. DOMAIN g = 0..(n + 1) /\ g[0] = db /\ g = [k \in 0..(n + 1) |-> g[k]]
      BY <2>2
    <2>4. ASSUME NEW k \in 1..(n + 1) PROVE g[k] = Perform(g[k - 1], log[k].call, log[k].at).db
      <3>1. CASE k = n + 1
        <4>1. g[k - 1] = f[n] BY <3>1
        <4>2. g[k] = Perform(f[n], log[n + 1].call, log[n + 1].at).db BY <3>1
        <4> HIDE DEF g
        <4> QED BY <4>1, <4>2, <3>1
      <3>2. CASE k # n + 1
        <4>1. k \in 1..n /\ g[k] = f[k] /\ g[k - 1] = f[k - 1] BY <3>2
        <4> HIDE DEF g
        <4> QED BY <4>1, <2>2
      <3> QED BY <3>1, <3>2
    <2> HIDE DEF g
    <2>5. ASSUME NEW k \in 0..(n + 1)
          PROVE  g[k] = IF k = 0 THEN db ELSE Perform(g[k - 1], log[k].call, log[k].at).db
      <3>1. CASE k = 0 BY <3>1, <2>3
      <3>2. CASE k # 0 BY <3>2, <2>4
      <3> QED BY <3>1, <3>2
    <2>6. IsHistory(g, db, log, n + 1) BY <2>3, <2>5 DEF IsHistory
    <2> QED BY <2>6
  <1> HIDE DEF T
  <1>3. Nat \subseteq T BY ONLY <1>1, <1>2, Induction
  <1> QED BY <1>3 DEF T

LEMMA HistoryFacts ==
  ASSUME NEW db, NEW log, Len(log) \in Nat
  PROVE  /\ History(db, log)[0] = db
         /\ \A k \in 1..Len(log) :
              History(db, log)[k] = Perform(History(db, log)[k - 1], log[k].call, log[k].at).db
  <1> DEFINE F == CHOOSE f : IsHistory(f, db, log, Len(log))
  <1>1. History(db, log) = F BY DEF History, IsHistory
  <1>2. IsHistory(F, db, log, Len(log)) BY HistoryExists
  <1> HIDE DEF F
  <1>3. F[0] = db /\ \A k \in 1..Len(log) : F[k] = Perform(F[k - 1], log[k].call, log[k].at).db
    BY <1>2 DEF IsHistory
  <1> QED BY <1>1, <1>3

LEMMA HistoryAppend ==
  ASSUME NEW db, NEW T, NEW log \in Seq(T), NEW x \in T
  PROVE  /\ \A k \in 0..Len(log) : History(db, Append(log, x))[k] = History(db, log)[k]
         /\ History(db, Append(log, x))[Len(log) + 1] = Perform(History(db, log)[Len(log)], x.call, x.at).db
  <1> DEFINE f == History(db, log)
             g == History(db, Append(log, x))
             m == Len(log)
  <1>0. m \in Nat /\ Len(Append(log, x)) = m + 1 /\ Append(log, x)[m + 1] = x
        /\ \A k \in 1..m : Append(log, x)[k] = log[k]
    OBVIOUS
  <1>1. f[0] = db /\ \A k \in 1..m : f[k] = Perform(f[k - 1], log[k].call, log[k].at).db
    BY <1>0, HistoryFacts
  <1>2. g[0] = db /\ \A k \in 1..(m + 1) :
          g[k] = Perform(g[k - 1], Append(log, x)[k].call, Append(log, x)[k].at).db
    <2> DEFINE l == Append(log, x)
    <2>1. Len(l) = m + 1 /\ Len(l) \in Nat BY <1>0
    <2> HIDE DEF l, m
    <2>2. /\ History(db, l)[0] = db
          /\ \A k \in 1..Len(l) :
               History(db, l)[k] = Perform(History(db, l)[k - 1], l[k].call, l[k].at).db
      BY ONLY <2>1, HistoryFacts
    <2> QED BY ONLY <2>1, <2>2 DEF l
  <1> DEFINE S == {k \in Nat : k <= m => g[k] = f[k]}
  <1> HIDE DEF f, g, m
  <1>3. 0 \in S BY <1>1, <1>2
  <1>4. ASSUME NEW k \in Nat, k \in S PROVE k + 1 \in S
    <2> SUFFICES ASSUME k + 1 <= m PROVE g[k + 1] = f[k + 1]
      OBVIOUS
    <2>1. k + 1 \in 1..m /\ (k + 1) - 1 = k /\ g[k] = f[k] BY <1>4, <1>0
    <2>2. k + 1 \in 1..(m + 1) BY <2>1, <1>0
    <2>3. g[k + 1] = Perform(g[k], log[k + 1].call, log[k + 1].at).db BY <2>1, <2>2, <1>2, <1>0
    <2> QED BY <2>1, <2>3, <1>1
  <1> HIDE DEF S
  <1>5. Nat \subseteq S BY ONLY <1>3, <1>4, Induction
  <1>6. \A k \in 0..m : g[k] = f[k] BY <1>5, <1>0 DEF S
  <1>7. g[m + 1] = Perform(f[m], x.call, x.at).db
    <2>1. m + 1 \in 1..(m + 1) /\ (m + 1) - 1 = m /\ m \in 0..m BY <1>0
    <2>2. g[m + 1] = Perform(g[m], x.call, x.at).db BY <2>1, <1>0, <1>2
    <2> QED BY <2>1, <2>2, <1>6
  <1> QED BY <1>6, <1>7 DEF f, g, m

LEMMA ReplaysNothing ==
  ASSUME NEW db
  PROVE  Replays(db, <<>>, db)
  <1>1. Len(<<>>) = 0 OBVIOUS
  <1> QED BY <1>1, HistoryFacts DEF Replays

LEMMA ReplaysAppend ==
  ASSUME NEW db, NEW T, NEW log \in Seq(T), NEW x \in T, NEW now1, Replays(db, log, now1),
         Perform(now1, x.call, x.at).answer = x.answer
  PROVE  Replays(db, Append(log, x), Perform(now1, x.call, x.at).db)
  <1> DEFINE g == History(db, Append(log, x))
             m == Len(log)
  <1>1. m \in Nat /\ Len(Append(log, x)) = m + 1 /\ Append(log, x)[m + 1] = x
        /\ \A k \in 1..m : Append(log, x)[k] = log[k]
    OBVIOUS
  <1>2. /\ \A k \in 0..m : g[k] = History(db, log)[k]
        /\ g[m + 1] = Perform(History(db, log)[m], x.call, x.at).db
    BY HistoryAppend
  <1>3. History(db, log)[m] = now1
        /\ \A k \in 1..m : Perform(History(db, log)[k - 1], log[k].call, log[k].at).answer = log[k].answer
    BY DEF Replays
  <1> HIDE DEF g, m
  <1>4. g[m + 1] = Perform(now1, x.call, x.at).db BY <1>2, <1>3
  <1>5. ASSUME NEW k \in 1..(m + 1)
        PROVE  Perform(g[k - 1], Append(log, x)[k].call, Append(log, x)[k].at).answer = Append(log, x)[k].answer
    <2>1. CASE k = m + 1
      <3>1. k - 1 = m /\ m \in 0..m BY <2>1, <1>1
      <3>2. g[k - 1] = now1 BY <3>1, <1>2, <1>3
      <3> QED BY <3>2, <2>1, <1>1
    <2>2. CASE k # m + 1
      <3>1. k \in 1..m /\ k - 1 \in 0..m BY <2>2, <1>1
      <3> QED BY <3>1, <1>1, <1>2, <1>3
    <2> QED BY <2>1, <2>2
  <1> QED BY <1>1, <1>4, <1>5 DEF g, m, Replays

-----------------------------------------------------------------------------
(* The indexes                                                             *)

RowFields == [
  accounts |-> {"status", "created", "updated"},
  identities |-> {"account", "subject", "verifiedAt", "created", "updated"},
  credentials |-> {"account", "identity", "status", "version", "created", "updated"},
  sessions |-> {"account", "token", "status", "issuedAt", "expiresAt", "revokedAt", "created", "updated"},
  challenges |-> {"status", "attempts", "version", "expiresAt", "consumedAt", "created", "updated"},
  messages |-> {"key", "policy", "content", "expiresAt", "status", "attempts", "availableAt",
                "updatedAt", "lease"}]

\* Every row has the fields of its kind.
Shaped(db) == \A f \in RecordMaps : \A k \in DOMAIN db[f] : DOMAIN db[f][k] = RowFields[f]

Sound(db) == IsDb(db) /\ Shaped(db) /\ Indexed(db)

\* The fields by which rows refer to rows, and by which they are indexed.
References == {"account", "subject", "identity", "token", "key"}

SameReferences(row, old) ==
  DOMAIN row = DOMAIN old /\ \A x \in References \cap DOMAIN old : row[x] = old[x]

\* Rows change, but for the fields the indexes are about.
Quiet(db, n) ==
  /\ IsDb(n)
  /\ \A f \in {"subjects", "byIdentity", "byToken", "keys", "order"} : n[f] = db[f]
  /\ \A f \in RecordMaps : /\ DOMAIN n[f] = DOMAIN db[f]
                           /\ \A k \in DOMAIN db[f] : SameReferences(n[f][k], db[f][k])
  /\ n.leaseSequence \in Nat

LEMMA QuietSound ==
  ASSUME NEW db, Sound(db), NEW n, Quiet(db, n)
  PROVE  Sound(n)
  <1>1. Shaped(db) /\ Indexed(db) BY DEF Sound
  <1>2. \A f \in RecordMaps : /\ DOMAIN n[f] = DOMAIN db[f]
                              /\ \A k \in DOMAIN db[f] : SameReferences(n[f][k], db[f][k])
    BY DEF Quiet
  <1>3. Shaped(n) BY <1>1, <1>2 DEF Shaped, SameReferences
  <1>4. /\ DOMAIN n.accounts = DOMAIN db.accounts
        /\ DOMAIN n.identities = DOMAIN db.identities
        /\ DOMAIN n.credentials = DOMAIN db.credentials
        /\ DOMAIN n.sessions = DOMAIN db.sessions
        /\ DOMAIN n.messages = DOMAIN db.messages
    BY <1>2 DEF RecordMaps
  <1>5. \A k \in DOMAIN db.identities : /\ n.identities[k].account = db.identities[k].account
                                        /\ n.identities[k].subject = db.identities[k].subject
    <2>1. \A k \in DOMAIN db.identities : /\ SameReferences(n.identities[k], db.identities[k])
                                          /\ DOMAIN db.identities[k] = RowFields.identities
      BY <1>1, <1>2 DEF Shaped, RecordMaps
    <2> QED BY ONLY <2>1 DEF SameReferences, References, RowFields
  <1>6. \A k \in DOMAIN db.credentials : /\ n.credentials[k].account = db.credentials[k].account
                                         /\ n.credentials[k].identity = db.credentials[k].identity
    <2>1. \A k \in DOMAIN db.credentials : /\ SameReferences(n.credentials[k], db.credentials[k])
                                           /\ DOMAIN db.credentials[k] = RowFields.credentials
      BY <1>1, <1>2 DEF Shaped, RecordMaps
    <2> QED BY ONLY <2>1 DEF SameReferences, References, RowFields
  <1>7. \A k \in DOMAIN db.sessions : /\ n.sessions[k].account = db.sessions[k].account
                                      /\ n.sessions[k].token = db.sessions[k].token
    <2>1. \A k \in DOMAIN db.sessions : /\ SameReferences(n.sessions[k], db.sessions[k])
                                        /\ DOMAIN db.sessions[k] = RowFields.sessions
      BY <1>1, <1>2 DEF Shaped, RecordMaps
    <2> QED BY ONLY <2>1 DEF SameReferences, References, RowFields
  <1>8. \A k \in DOMAIN db.messages : n.messages[k].key = db.messages[k].key
    <2>1. \A k \in DOMAIN db.messages : /\ SameReferences(n.messages[k], db.messages[k])
                                        /\ DOMAIN db.messages[k] = RowFields.messages
      BY <1>1, <1>2 DEF Shaped, RecordMaps
    <2> QED BY ONLY <2>1 DEF SameReferences, References, RowFields
  <1>9. /\ n.subjects = db.subjects /\ n.byIdentity = db.byIdentity /\ n.byToken = db.byToken
        /\ n.keys = db.keys /\ n.order = db.order /\ n.leaseSequence \in Nat
    BY DEF Quiet
  <1>10. Inverts(n.subjects, n.identities, "subject")
    BY <1>1, <1>4, <1>5, <1>9 DEF Indexed, Inverts
  <1>11. Inverts(n.byIdentity, n.credentials, "identity")
    BY SMTT(30), <1>1, <1>4, <1>6, <1>9 DEF Indexed, Inverts
  <1>12. Inverts(n.byToken, n.sessions, "token")
    BY <1>1, <1>4, <1>7, <1>9 DEF Indexed, Inverts
  <1>13. KeysInvert(n)
    BY <1>1, <1>4, <1>8, <1>9 DEF Indexed, KeysInvert
  <1>14. OwnersExist(n)
    <2>1. OwnersExist(db) BY <1>1 DEF Indexed
    <2> QED BY <2>1, <1>4, <1>5, <1>6, <1>7 DEF OwnersExist
  <1>15. IsInjective(n.order) /\ ToSet(n.order) = DOMAIN n.messages /\ n.leaseSequence \in Nat
    BY <1>1, <1>4, <1>9 DEF Indexed
  <1>16. Indexed(n) BY <1>10, <1>11, <1>12, <1>13, <1>14, <1>15 DEF Indexed
  <1> QED BY <1>3, <1>16 DEF Sound, Quiet

\* Some rows of one map replaced.
LEMMA UpdateSound ==
  ASSUME NEW db, Sound(db), NEW f \in RecordMaps, NEW new, DOMAIN new \subseteq DOMAIN db[f],
         \A k \in DOMAIN new : SameReferences(new[k], db[f][k])
  PROVE  Sound([db EXCEPT ![f] = Over(new, db[f])])
  <1> DEFINE n == [db EXCEPT ![f] = Over(new, db[f])]
  <1>1. IsDb(db) /\ f \in MapFields BY DEF Sound, RecordMaps, MapFields
  <1>2. IsMap(Over(new, db[f])) /\ DOMAIN Over(new, db[f]) = DOMAIN db[f]
        /\ \A x \in DOMAIN db[f] : Over(new, db[f])[x] = IF x \in DOMAIN new THEN new[x] ELSE db[f][x]
    <2>1. DOMAIN new \cup DOMAIN db[f] = DOMAIN db[f] OBVIOUS
    <2>2. IsMap(Over(new, db[f])) /\ DOMAIN Over(new, db[f]) = DOMAIN new \cup DOMAIN db[f]
          /\ \A x \in DOMAIN new \cup DOMAIN db[f] :
               Over(new, db[f])[x] = IF x \in DOMAIN new THEN new[x] ELSE db[f][x]
      BY ONLY OverIsMap
    <2> QED BY ONLY <2>1, <2>2
  <1>3. IsDb(n) /\ n[f] = Over(new, db[f]) /\ \A g \in Fields : g # f => n[g] = db[g]
    BY ONLY <1>1, <1>2, DbPut
  <1> HIDE DEF n
  <1>4. ASSUME NEW k \in DOMAIN db[f] PROVE SameReferences(n[f][k], db[f][k])
    <2>1. CASE k \in DOMAIN new
      <3>1. n[f][k] = new[k] BY <1>2, <1>3, <2>1
      <3> QED BY <3>1, <2>1
    <2>2. CASE k \notin DOMAIN new
      <3>1. n[f][k] = db[f][k] BY <1>2, <1>3, <2>2
      <3> QED BY <3>1 DEF SameReferences
    <2> QED BY <2>1, <2>2
  <1>5. ASSUME NEW g \in RecordMaps
        PROVE  DOMAIN n[g] = DOMAIN db[g] /\ \A k \in DOMAIN db[g] : SameReferences(n[g][k], db[g][k])
    <2>1. CASE g = f BY <2>1, <1>2, <1>3, <1>4
    <2>2. CASE g # f
      <3>1. n[g] = db[g] BY <2>2, <1>3 DEF RecordMaps, Fields, MapFields
      <3> QED BY <3>1 DEF SameReferences
    <2> QED BY <2>1, <2>2
  <1>6. \A g \in {"subjects", "byIdentity", "byToken", "keys", "order", "leaseSequence"} : n[g] = db[g]
    BY <1>3 DEF RecordMaps, Fields, MapFields
  <1>7. n.leaseSequence \in Nat BY <1>6 DEF Sound, Indexed
  <1>8. Quiet(db, n) BY <1>3, <1>5, <1>6, <1>7 DEF Quiet
  <1>9. Sound(n) BY <1>8, QuietSound
  <1> QED BY <1>9 DEF n

\* One row replaced.
LEMMA StoresSound ==
  ASSUME NEW db, Sound(db), NEW f \in RecordMaps, NEW k \in DOMAIN db[f], NEW v,
         SameReferences(v, db[f][k]), NEW a
  PROVE  Sound(Stores(db, f, k, v, a).db)
  <1> DEFINE new == [x \in {k} |-> v]
  <1>1. Put(db[f], k, v) = Over(new, db[f]) BY DEF Put, Over
  <1>2. Stores(db, f, k, v, a).db = [db EXCEPT ![f] = Over(new, db[f])]
    BY <1>1 DEF Stores
  <1>3. DOMAIN new \subseteq DOMAIN db[f] /\ \A x \in DOMAIN new : SameReferences(new[x], db[f][x])
    OBVIOUS
  <1> HIDE DEF new
  <1> QED BY ONLY Sound(db), f \in RecordMaps, <1>2, <1>3, UpdateSound

\* An operation that answers without a change.
LEMMA AnswersSound ==
  ASSUME NEW db, Sound(db), NEW a
  PROVE  Sound(Answers(db, a).db)
  BY DEF Answers

\* References are not among the fields that change.
LEMMA ReferencesStay ==
  ASSUME NEW row, NEW a, NEW b, NEW x, NEW y
  PROVE  /\ SameReferences([row EXCEPT !.status = a, !.updated = b], row)
         /\ SameReferences([row EXCEPT !.verifiedAt = a, !.updated = b], row)
         /\ SameReferences([row EXCEPT !.version = a, !.updated = b], row)
         /\ SameReferences([[row EXCEPT !.status = x] EXCEPT !.version = a, !.updated = b], row)
         /\ SameReferences([row EXCEPT !.status = a, !.revokedAt = b, !.updated = x], row)
         /\ SameReferences([[row EXCEPT !.updated = a] EXCEPT !.status = b], row)
         /\ SameReferences([[row EXCEPT !.version = x, !.updated = a] EXCEPT !.status = b], row)
  BY DEF SameReferences, References

LEMMA updateAccountStatusSound ==
  ASSUME NEW db, Sound(db), NEW c, NEW t
  PROVE  Sound(updateAccountStatus(db, c, t).db)
  <1>1. "accounts" \in RecordMaps BY DEF RecordMaps
  <1> DEFINE row == db.accounts[c.account]
  <1>2. \A v, a : c.account \in DOMAIN db.accounts /\ SameReferences(v, row)
                  => Sound(Stores(db, "accounts", c.account, v, a).db)
    BY <1>1, StoresSound
  <1>3. \A a : Sound(Answers(db, a).db) BY AnswersSound
  <1> HIDE DEF row
  <1>4. \A s : SameReferences([row EXCEPT !.status = s, !.updated = t], row)
    BY ReferencesStay
  <1> QED BY ONLY <1>2, <1>3, <1>4 DEF updateAccountStatus, Has, row

LEMMA markVerifiedSound ==
  ASSUME NEW db, Sound(db), NEW c, NEW t
  PROVE  Sound(markVerified(db, c, t).db)
  <1>1. "identities" \in RecordMaps BY DEF RecordMaps
  <1> DEFINE row == db.identities[c.identity]
  <1>2. \A v, a : c.identity \in DOMAIN db.identities /\ SameReferences(v, row)
                  => Sound(Stores(db, "identities", c.identity, v, a).db)
    BY <1>1, StoresSound
  <1>3. \A a : Sound(Answers(db, a).db) BY AnswersSound
  <1> HIDE DEF row
  <1>4. SameReferences([row EXCEPT !.verifiedAt = t, !.updated = t], row)
    BY ReferencesStay
  <1> QED BY ONLY <1>2, <1>3, <1>4 DEF markVerified, Has, row

LEMMA replaceMaterialSound ==
  ASSUME NEW db, Sound(db), NEW c, NEW t
  PROVE  Sound(replaceMaterial(db, c, t).db)
  <1>1. "credentials" \in RecordMaps BY DEF RecordMaps
  <1> DEFINE row == db.credentials[c.credential]
  <1>2. \A v, a : c.credential \in DOMAIN db.credentials /\ SameReferences(v, row)
                  => Sound(Stores(db, "credentials", c.credential, v, a).db)
    BY <1>1, StoresSound
  <1>3. \A a : Sound(Answers(db, a).db) BY AnswersSound
  <1> HIDE DEF row
  <1>4. SameReferences([row EXCEPT !.version = row.version + 1, !.updated = t], row)
    BY ReferencesStay
  <1> QED BY ONLY <1>2, <1>3, <1>4 DEF replaceMaterial, Versioned, Has, row

LEMMA updateCredentialStatusSound ==
  ASSUME NEW db, Sound(db), NEW c, NEW t
  PROVE  Sound(updateCredentialStatus(db, c, t).db)
  <1>1. "credentials" \in RecordMaps BY DEF RecordMaps
  <1> DEFINE row == db.credentials[c.credential]
  <1>2. \A v, a : c.credential \in DOMAIN db.credentials /\ SameReferences(v, row)
                  => Sound(Stores(db, "credentials", c.credential, v, a).db)
    BY <1>1, StoresSound
  <1>3. \A a : Sound(Answers(db, a).db) BY AnswersSound
  <1> HIDE DEF row
  <1> DEFINE aged == [[row EXCEPT !.status = c.status] EXCEPT !.version = @ + 1, !.updated = t]
  <1>4. SameReferences(aged, row)
    BY DEF SameReferences, References
  <1> QED BY ONLY <1>2, <1>3, <1>4 DEF updateCredentialStatus, Versioned, Has, row

LEMMA revokeSound ==
  ASSUME NEW db, Sound(db), NEW c, NEW t
  PROVE  Sound(revoke(db, c, t).db)
  <1>1. "sessions" \in RecordMaps BY DEF RecordMaps
  <1> DEFINE row == db.sessions[c.session]
  <1>2. \A v, a : c.session \in DOMAIN db.sessions /\ SameReferences(v, row)
                  => Sound(Stores(db, "sessions", c.session, v, a).db)
    BY <1>1, StoresSound
  <1>3. \A a : Sound(Answers(db, a).db) BY AnswersSound
  <1> HIDE DEF row
  <1>4. SameReferences([row EXCEPT !.status = "revoked", !.revokedAt = t, !.updated = t], row)
    BY ReferencesStay
  <1> QED BY ONLY <1>2, <1>3, <1>4 DEF revoke, Has, row

LEMMA recordFailedAttemptSound ==
  ASSUME NEW db, Sound(db), NEW c, NEW t
  PROVE  Sound(recordFailedAttempt(db, c, t).db)
  <1>1. "challenges" \in RecordMaps BY DEF RecordMaps
  <1> DEFINE row == db.challenges[c.challenge]
  <1>2. \A v, a : c.challenge \in DOMAIN db.challenges /\ SameReferences(v, row)
                  => Sound(Stores(db, "challenges", c.challenge, v, a).db)
    BY <1>1, StoresSound
  <1>3. \A a : Sound(Answers(db, a).db) BY AnswersSound
  <1> HIDE DEF row
  <1> DEFINE failing == Aged([row EXCEPT !.attempts = @ + 1, !.status = "failed"], t)
             counted == Aged([row EXCEPT !.attempts = @ + 1], t)
             expired == Aged([row EXCEPT !.status = "expired"], t)
             consumed == Aged([row EXCEPT !.status = "consumed", !.consumedAt = t], t)
  <1>4. /\ SameReferences(failing, row) /\ SameReferences(counted, row)
        /\ SameReferences(expired, row) /\ SameReferences(consumed, row)
    BY DEF SameReferences, References, Aged
  <1> QED BY ONLY <1>2, <1>3, <1>4 DEF recordFailedAttempt, Moves, Has, row

LEMMA consumePendingSound ==
  ASSUME NEW db, Sound(db), NEW c, NEW t
  PROVE  Sound(consumePending(db, c, t).db)
  <1>1. "challenges" \in RecordMaps BY DEF RecordMaps
  <1> DEFINE row == db.challenges[c.challenge]
  <1>2. \A v, a : c.challenge \in DOMAIN db.challenges /\ SameReferences(v, row)
                  => Sound(Stores(db, "challenges", c.challenge, v, a).db)
    BY <1>1, StoresSound
  <1>3. \A a : Sound(Answers(db, a).db) BY AnswersSound
  <1> HIDE DEF row
  <1> DEFINE failing == Aged([row EXCEPT !.attempts = @ + 1, !.status = "failed"], t)
             counted == Aged([row EXCEPT !.attempts = @ + 1], t)
             expired == Aged([row EXCEPT !.status = "expired"], t)
             consumed == Aged([row EXCEPT !.status = "consumed", !.consumedAt = t], t)
  <1>4. /\ SameReferences(failing, row) /\ SameReferences(counted, row)
        /\ SameReferences(expired, row) /\ SameReferences(consumed, row)
    BY DEF SameReferences, References, Aged
  <1> QED BY ONLY <1>2, <1>3, <1>4 DEF consumePending, Moves, Has, row

LEMMA renewLeaseSound ==
  ASSUME NEW db, Sound(db), NEW c, NEW t
  PROVE  Sound(renewLease(db, c, t).db)
  <1>1. "messages" \in RecordMaps BY DEF RecordMaps
  <1> DEFINE row == db.messages[c.id]
  <1>2. \A v, a : c.id \in DOMAIN db.messages /\ SameReferences(v, row)
                  => Sound(Stores(db, "messages", c.id, v, a).db)
    BY <1>1, StoresSound
  <1>3. \A a : Sound(Answers(db, a).db) BY AnswersSound
  <1> HIDE DEF row
  <1> DEFINE until == [[row EXCEPT !.lease.until = Later(t, LeaseSeconds)] EXCEPT !.updatedAt = t]
             sent == [[row EXCEPT !.status = "dispatched", !.lease = NoLease] EXCEPT !.updatedAt = t]
             ended(s) == [[Charged(row, s) EXCEPT !.availableAt = t] EXCEPT !.updatedAt = t]
  <1>4. /\ SameReferences(until, row) /\ SameReferences(sent, row)
        /\ \A s : SameReferences(ended(s), row)
    BY DEF SameReferences, References, Charged
  <1> QED BY ONLY <1>2, <1>3, <1>4 DEF renewLease, UnderLease, validOutboxLease, Has, row

LEMMA markDispatchedSound ==
  ASSUME NEW db, Sound(db), NEW c, NEW t
  PROVE  Sound(markDispatched(db, c, t).db)
  <1>1. "messages" \in RecordMaps BY DEF RecordMaps
  <1> DEFINE row == db.messages[c.id]
  <1>2. \A v, a : c.id \in DOMAIN db.messages /\ SameReferences(v, row)
                  => Sound(Stores(db, "messages", c.id, v, a).db)
    BY <1>1, StoresSound
  <1>3. \A a : Sound(Answers(db, a).db) BY AnswersSound
  <1> HIDE DEF row
  <1> DEFINE until == [[row EXCEPT !.lease.until = Later(t, LeaseSeconds)] EXCEPT !.updatedAt = t]
             sent == [[row EXCEPT !.status = "dispatched", !.lease = NoLease] EXCEPT !.updatedAt = t]
             ended(s) == [[Charged(row, s) EXCEPT !.availableAt = t] EXCEPT !.updatedAt = t]
  <1>4. /\ SameReferences(until, row) /\ SameReferences(sent, row)
        /\ \A s : SameReferences(ended(s), row)
    BY DEF SameReferences, References, Charged
  <1> QED BY ONLY <1>2, <1>3, <1>4 DEF markDispatched, UnderLease, validOutboxLease, Has, row

LEMMA markFailedSound ==
  ASSUME NEW db, Sound(db), NEW c, NEW t
  PROVE  Sound(markFailed(db, c, t).db)
  <1>1. "messages" \in RecordMaps BY DEF RecordMaps
  <1> DEFINE row == db.messages[c.id]
  <1>2. \A v, a : c.id \in DOMAIN db.messages /\ SameReferences(v, row)
                  => Sound(Stores(db, "messages", c.id, v, a).db)
    BY <1>1, StoresSound
  <1>3. \A a : Sound(Answers(db, a).db) BY AnswersSound
  <1> HIDE DEF row
  <1> DEFINE until == [[row EXCEPT !.lease.until = Later(t, LeaseSeconds)] EXCEPT !.updatedAt = t]
             sent == [[row EXCEPT !.status = "dispatched", !.lease = NoLease] EXCEPT !.updatedAt = t]
             ended(s) == [[Charged(row, s) EXCEPT !.availableAt = t] EXCEPT !.updatedAt = t]
  <1>4. /\ SameReferences(until, row) /\ SameReferences(sent, row)
        /\ \A s : SameReferences(ended(s), row)
    BY DEF SameReferences, References, Charged
  <1> QED BY ONLY <1>2, <1>3, <1>4 DEF markFailed, UnderLease, validOutboxLease, Has, row

LEMMA cleanupExpiredSessionsSound ==
  ASSUME NEW db, Sound(db), NEW c, NEW t
  PROVE  Sound(cleanupExpiredSessions(db, c, t).db)
  <1> DEFINE due == {k \in DOMAIN db.sessions : db.sessions[k].status = "active" /\ db.sessions[k].expiresAt <= t}
             new == [k \in due |-> [[db.sessions[k] EXCEPT !.updated = t] EXCEPT !.status = "expired"]]
  <1>1. "sessions" \in RecordMaps BY DEF RecordMaps
  <1>2. cleanupExpiredSessions(db, c, t).db = [db EXCEPT !["sessions"] = Over(new, db["sessions"])]
    BY DEF cleanupExpiredSessions, Expires
  <1>3. \A k \in DOMAIN new : SameReferences(new[k], db.sessions[k])
    BY DEF SameReferences, References, Aged
  <1>4. DOMAIN new \subseteq DOMAIN db.sessions OBVIOUS
  <1> HIDE DEF new
  <1> QED BY <1>1, <1>2, <1>3, <1>4, UpdateSound

LEMMA cleanupExpiredChallengesSound ==
  ASSUME NEW db, Sound(db), NEW c, NEW t
  PROVE  Sound(cleanupExpiredChallenges(db, c, t).db)
  <1> DEFINE due == {k \in DOMAIN db.challenges : db.challenges[k].status = "pending" /\ db.challenges[k].expiresAt <= t}
             new == [k \in due |-> [Aged(db.challenges[k], t) EXCEPT !.status = "expired"]]
  <1>1. "challenges" \in RecordMaps BY DEF RecordMaps
  <1>2. cleanupExpiredChallenges(db, c, t).db = [db EXCEPT !["challenges"] = Over(new, db["challenges"])]
    BY DEF cleanupExpiredChallenges, Expires
  <1>3. \A k \in DOMAIN new : SameReferences(new[k], db.challenges[k])
    BY DEF SameReferences, References, Aged
  <1>4. DOMAIN new \subseteq DOMAIN db.challenges OBVIOUS
  <1> HIDE DEF new
  <1> QED BY <1>1, <1>2, <1>3, <1>4, UpdateSound

-----------------------------------------------------------------------------
(* The indexes when a row is created                                       *)

\* One row put into a map of rows.
LEMMA ShapedPut ==
  ASSUME NEW db, IsDb(db), Shaped(db), NEW f \in RecordMaps, NEW k, NEW v, DOMAIN v = RowFields[f]
  PROVE  LET n == [db EXCEPT ![f] = Put(db[f], k, v)]
         IN IsDb(n) /\ Shaped(n) /\ n[f] = Put(db[f], k, v) /\ \A g \in Fields : g # f => n[g] = db[g]
  <1> DEFINE n == [db EXCEPT ![f] = Put(db[f], k, v)]
  <1>1. f \in MapFields BY DEF RecordMaps, MapFields
  <1>2. IsMap(Put(db[f], k, v)) /\ DOMAIN Put(db[f], k, v) = DOMAIN db[f] \cup {k}
        /\ \A x \in DOMAIN db[f] \cup {k} : Put(db[f], k, v)[x] = IF x = k THEN v ELSE db[f][x]
    BY DEF IsMap, Put
  <1>3. IsDb(n) /\ n[f] = Put(db[f], k, v) /\ \A g \in Fields : g # f => n[g] = db[g]
    BY ONLY <1>1, <1>2, IsDb(db), DbPut
  <1> HIDE DEF n
  <1>4. ASSUME NEW g \in RecordMaps, NEW x \in DOMAIN n[g] PROVE DOMAIN n[g][x] = RowFields[g]
    <2>1. CASE g = f
      <3>1. x \in DOMAIN db[f] \cup {k} BY <2>1, <1>2, <1>3
      <3>2. n[g][x] = IF x = k THEN v ELSE db[f][x] BY <3>1, <2>1, <1>2, <1>3
      <3>3. x # k => DOMAIN db[f][x] = RowFields[f] BY <3>1 DEF Shaped
      <3> QED BY <3>2, <3>3, <2>1
    <2>2. CASE g # f
      <3>1. n[g] = db[g] BY <2>2, <1>3 DEF RecordMaps, Fields, MapFields
      <3> QED BY <3>1 DEF Shaped
    <2> QED BY <2>1, <2>2
  <1>5. Shaped(n) BY <1>4 DEF Shaped
  <1> QED BY <1>3, <1>5 DEF n

\* n is db with one more row, and its entry in an index.
HasIndexed(n, db, f, k, v, g, ik) ==
  /\ IsDb(n) /\ Shaped(n) /\ n[f] = Put(db[f], k, v) /\ n[g] = Put(db[g], ik, k)
  /\ \A h \in Fields \ {f, g} : n[h] = db[h]

LEMMA ShapedIndexedPut ==
  ASSUME NEW db, IsDb(db), Shaped(db), NEW f \in RecordMaps, NEW k, NEW v, DOMAIN v = RowFields[f],
         NEW g \in {"subjects", "byIdentity", "byToken"}, NEW ik
  PROVE  HasIndexed(StoresIndexed(db, f, k, v, g, ik).db, db, f, k, v, g, ik)
  <1> DEFINE m == [db EXCEPT ![f] = Put(db[f], k, v)]
             n == [m EXCEPT ![g] = Put(db[g], ik, k)]
  <1>1. IsDb(m) /\ Shaped(m) /\ m[f] = Put(db[f], k, v) /\ \A h \in Fields : h # f => m[h] = db[h]
    BY ShapedPut
  <1>2. g \in MapFields /\ g \notin RecordMaps /\ f # g /\ f \in Fields
    BY DEF MapFields, RecordMaps, Fields
  <1>3. StoresIndexed(db, f, k, v, g, ik).db = n
    BY <1>2 DEF StoresIndexed, IsDb
  <1> HIDE DEF m
  <1>4. IsMap(Put(db[g], ik, k)) BY PutIsMap
  <1>5. IsDb(n) /\ n[g] = Put(db[g], ik, k) /\ \A h \in Fields : h # g => n[h] = m[h]
    BY ONLY <1>1, <1>2, <1>4, DbPut
  <1> HIDE DEF n
  <1>6. Shaped(n)
    <2>1. \A h \in RecordMaps : n[h] = m[h] BY <1>2, <1>5 DEF RecordMaps, Fields, MapFields
    <2> QED BY <1>1, <2>1 DEF Shaped
  <1>7. n[f] = m[f] /\ \A h \in Fields \ {f, g} : n[h] = db[h] BY <1>1, <1>2, <1>5
  <1> QED BY <1>1, <1>3, <1>5, <1>6, <1>7 DEF HasIndexed

LEMMA createAccountSound ==
  ASSUME NEW db, Sound(db), NEW c, NEW t
  PROVE  Sound(createAccount(db, c, t).db)
  <1> DEFINE row == [status |-> c.status, created |-> t, updated |-> t]
             n == [db EXCEPT !["accounts"] = Put(db["accounts"], c.account, row)]
  <1>1. IsDb(db) /\ Shaped(db) /\ Indexed(db) BY DEF Sound
  <1>2. "accounts" \in RecordMaps /\ DOMAIN row = RowFields["accounts"] BY DEF RecordMaps, RowFields
  <1> HIDE DEF row
  <1>3. IsDb(n) /\ Shaped(n) /\ n.accounts = Put(db.accounts, c.account, row)
        /\ \A g \in Fields : g # "accounts" => n[g] = db[g]
    BY <1>1, <1>2, ShapedPut
  <1> HIDE DEF n
  <1>4. DOMAIN db.accounts \subseteq DOMAIN n.accounts BY <1>3 DEF Put
  <1>5. /\ n.subjects = db.subjects /\ n.byIdentity = db.byIdentity /\ n.byToken = db.byToken
        /\ n.keys = db.keys /\ n.order = db.order /\ n.leaseSequence = db.leaseSequence
        /\ n.identities = db.identities /\ n.credentials = db.credentials
        /\ n.sessions = db.sessions /\ n.messages = db.messages
    BY <1>3 DEF Fields, MapFields
  <1>6. OwnersExist(n) BY <1>1, <1>4, <1>5 DEF OwnersExist, Indexed
  <1>7. Indexed(n) BY <1>1, <1>5, <1>6 DEF Indexed, KeysInvert
  <1>8. Sound(n) BY <1>3, <1>7 DEF Sound
  <1>9. Sound(Stores(db, "accounts", c.account, row, "ok").db) BY <1>8 DEF Stores, n
  <1>10. \A a : Sound(Answers(db, a).db) BY AnswersSound
  <1> QED BY ONLY <1>9, <1>10 DEF createAccount, row

LEMMA createChallengeSound ==
  ASSUME NEW db, Sound(db), NEW c, NEW t
  PROVE  Sound(createChallenge(db, c, t).db)
  <1> DEFINE row == [status |-> "pending", attempts |-> 0, version |-> 1, expiresAt |-> c.expiresAt,
                     consumedAt |-> Never, created |-> t, updated |-> t]
             n == [db EXCEPT !["challenges"] = Put(db["challenges"], c.challenge, row)]
  <1>1. IsDb(db) /\ Shaped(db) /\ Indexed(db) BY DEF Sound
  <1>2. "challenges" \in RecordMaps /\ DOMAIN row = RowFields["challenges"] BY DEF RecordMaps, RowFields
  <1> HIDE DEF row
  <1>3. IsDb(n) /\ Shaped(n) /\ \A g \in Fields : g # "challenges" => n[g] = db[g]
    BY <1>1, <1>2, ShapedPut
  <1> HIDE DEF n
  <1>5. /\ n.subjects = db.subjects /\ n.byIdentity = db.byIdentity /\ n.byToken = db.byToken
        /\ n.keys = db.keys /\ n.order = db.order /\ n.leaseSequence = db.leaseSequence
        /\ n.identities = db.identities /\ n.credentials = db.credentials
        /\ n.sessions = db.sessions /\ n.messages = db.messages /\ n.accounts = db.accounts
    BY <1>3 DEF Fields, MapFields
  <1>7. Indexed(n) BY <1>1, <1>5 DEF Indexed, KeysInvert, OwnersExist
  <1>8. Sound(n) BY <1>3, <1>7 DEF Sound
  <1>9. Sound(Stores(db, "challenges", c.challenge, row, "ok").db) BY <1>8 DEF Stores, n
  <1>10. \A a : Sound(Answers(db, a).db) BY AnswersSound
  <1> QED BY ONLY <1>9, <1>10 DEF createChallenge, row

\* A new row with a new value of its index.
LEMMA InvertsPut ==
  ASSUME NEW index, NEW map, NEW field, Inverts(index, map, field),
         NEW k, k \notin DOMAIN map, NEW v, v[field] \notin DOMAIN index
  PROVE  Inverts(Put(index, v[field], k), Put(map, k, v), field)
  <1> DEFINE ni == Put(index, v[field], k)
             nm == Put(map, k, v)
  <1>1. /\ DOMAIN ni = DOMAIN index \cup {v[field]} /\ ni[v[field]] = k
        /\ \A x \in DOMAIN index : ni[x] = index[x]
        /\ DOMAIN nm = DOMAIN map \cup {k} /\ nm[k] = v
        /\ \A x \in DOMAIN map : nm[x] = map[x]
    BY DEF Put
  <1> HIDE DEF ni, nm
  <1>2. ASSUME NEW x \in DOMAIN ni PROVE ni[x] \in DOMAIN nm /\ nm[ni[x]][field] = x
    <2>1. CASE x = v[field] BY <2>1, <1>1
    <2>2. CASE x \in DOMAIN index
      <3>1. index[x] \in DOMAIN map /\ map[index[x]][field] = x BY <2>2 DEF Inverts
      <3> QED BY <3>1, <2>2, <1>1
    <2> QED BY <2>1, <2>2, <1>1
  <1>3. ASSUME NEW x \in DOMAIN nm PROVE nm[x][field] \in DOMAIN ni /\ ni[nm[x][field]] = x
    <2>1. CASE x = k BY <2>1, <1>1
    <2>2. CASE x \in DOMAIN map
      <3>1. map[x][field] \in DOMAIN index /\ index[map[x][field]] = x BY <2>2 DEF Inverts
      <3> QED BY <3>1, <2>2, <1>1
    <2> QED BY <2>1, <2>2, <1>1
  <1> QED BY <1>2, <1>3 DEF Inverts, ni, nm

LEMMA createIdentitySound ==
  ASSUME NEW db, Sound(db), NEW c, NEW t
  PROVE  Sound(createIdentity(db, c, t).db)
  <1> DEFINE row == [account |-> c.account, subject |-> c.subject, verifiedAt |-> Never,
                     created |-> t, updated |-> t]
             n == StoresIndexed(db, "identities", c.identity, row, "subjects", c.subject).db
  <1>1. IsDb(db) /\ Shaped(db) /\ Indexed(db) BY DEF Sound
  <1>2. /\ "identities" \in RecordMaps /\ DOMAIN row = RowFields["identities"]
        /\ row["subject"] = c.subject /\ row.account = c.account
    BY DEF RecordMaps, RowFields
  <1> HIDE DEF row
  <1>3. ASSUME c.identity \notin DOMAIN db.identities, c.subject \notin DOMAIN db.subjects, c.account \in DOMAIN db.accounts
        PROVE  Sound(n)
    <2>0. "subjects" \in {"subjects", "byIdentity", "byToken"} OBVIOUS
    <2>1. HasIndexed(n, db, "identities", c.identity, row, "subjects", c.subject)
      BY ONLY <1>1, <1>2, <2>0, ShapedIndexedPut
    <2> HIDE DEF n
    <2>7. /\ IsDb(n) /\ Shaped(n)
          /\ n.identities = Put(db.identities, c.identity, row) /\ n.subjects = Put(db.subjects, c.subject, c.identity)
          /\ \A h \in Fields \ {"identities", "subjects"} : n[h] = db[h]
      BY <2>1 DEF HasIndexed
    <2>2. /\ n.accounts = db.accounts /\ n.credentials = db.credentials /\ n.sessions = db.sessions /\ n.messages = db.messages /\ n.byIdentity = db.byIdentity
          /\ n.byToken = db.byToken /\ n.keys = db.keys /\ n.order = db.order /\ n.leaseSequence = db.leaseSequence
      BY <2>7 DEF Fields, MapFields
    <2>3. Inverts(n.subjects, n.identities, "subject")
      <3>1. Inverts(db.subjects, db.identities, "subject") BY <1>1 DEF Indexed
      <3>2. Inverts(Put(db.subjects, row["subject"], c.identity), Put(db.identities, c.identity, row), "subject")
        BY ONLY <3>1, <1>2, <1>3, InvertsPut
      <3> QED BY <3>2, <2>7, <1>2
    <2>4. DOMAIN n.identities = DOMAIN db.identities \cup {c.identity} /\ n.identities[c.identity] = row
          /\ \A x \in DOMAIN db.identities : x # c.identity /\ n.identities[x] = db.identities[x]
      BY <2>7, <1>3 DEF Put
    <2>5. OwnersExist(n)
      <3>1. OwnersExist(db) BY <1>1 DEF Indexed
      <3> QED BY ONLY <3>1, <2>2, <2>4, <1>2, <1>3 DEF OwnersExist
    <2>6. Indexed(n) BY <1>1, <2>2, <2>3, <2>5 DEF Indexed, KeysInvert
    <2> QED BY <2>7, <2>6 DEF Sound
  <1>4. \A a : Sound(Answers(db, a).db) BY AnswersSound
  <1> HIDE DEF n
  <1> QED BY <1>3, <1>4 DEF createIdentity, Has, row, n

LEMMA createCredentialSound ==
  ASSUME NEW db, Sound(db), NEW c, NEW t
  PROVE  Sound(createCredential(db, c, t).db)
  <1> DEFINE row == [account |-> c.account, identity |-> c.identity, status |-> "active", version |-> 1,
                     created |-> t, updated |-> t]
             n == StoresIndexed(db, "credentials", c.credential, row, "byIdentity", c.identity).db
  <1>1. IsDb(db) /\ Shaped(db) /\ Indexed(db) BY DEF Sound
  <1>2. /\ "credentials" \in RecordMaps /\ DOMAIN row = RowFields["credentials"]
        /\ row["identity"] = c.identity /\ row.account = c.account
    BY DEF RecordMaps, RowFields
  <1> HIDE DEF row
  <1>3. ASSUME c.credential \notin DOMAIN db.credentials, c.identity \notin DOMAIN db.byIdentity, c.account \in DOMAIN db.accounts,
               c.identity \in DOMAIN db.identities, db.identities[c.identity].account = c.account
        PROVE  Sound(n)
    <2>0. "byIdentity" \in {"subjects", "byIdentity", "byToken"} OBVIOUS
    <2>1. HasIndexed(n, db, "credentials", c.credential, row, "byIdentity", c.identity)
      BY ONLY <1>1, <1>2, <2>0, ShapedIndexedPut
    <2> HIDE DEF n
    <2>7. /\ IsDb(n) /\ Shaped(n)
          /\ n.credentials = Put(db.credentials, c.credential, row) /\ n.byIdentity = Put(db.byIdentity, c.identity, c.credential)
          /\ \A h \in Fields \ {"credentials", "byIdentity"} : n[h] = db[h]
      BY <2>1 DEF HasIndexed
    <2>2. /\ n.accounts = db.accounts /\ n.identities = db.identities /\ n.sessions = db.sessions /\ n.messages = db.messages /\ n.subjects = db.subjects
          /\ n.byToken = db.byToken /\ n.keys = db.keys /\ n.order = db.order /\ n.leaseSequence = db.leaseSequence
      BY <2>7 DEF Fields, MapFields
    <2>3. Inverts(n.byIdentity, n.credentials, "identity")
      <3>1. Inverts(db.byIdentity, db.credentials, "identity") BY <1>1 DEF Indexed
      <3>2. Inverts(Put(db.byIdentity, row["identity"], c.credential), Put(db.credentials, c.credential, row), "identity")
        BY ONLY <3>1, <1>2, <1>3, InvertsPut
      <3> QED BY <3>2, <2>7, <1>2
    <2>4. DOMAIN n.credentials = DOMAIN db.credentials \cup {c.credential} /\ n.credentials[c.credential] = row
          /\ \A x \in DOMAIN db.credentials : x # c.credential /\ n.credentials[x] = db.credentials[x]
      BY <2>7, <1>3 DEF Put
    <2>5. OwnersExist(n)
      <3>1. OwnersExist(db) BY <1>1 DEF Indexed
      <3> QED BY ONLY <3>1, <2>2, <2>4, <1>2, <1>3 DEF OwnersExist
    <2>6. Indexed(n) BY <1>1, <2>2, <2>3, <2>5 DEF Indexed, KeysInvert
    <2> QED BY <2>7, <2>6 DEF Sound
  <1>4. \A a : Sound(Answers(db, a).db) BY AnswersSound
  <1> HIDE DEF n
  <1> QED BY <1>3, <1>4 DEF createCredential, Has, row, n

LEMMA createSessionSound ==
  ASSUME NEW db, Sound(db), NEW c, NEW t
  PROVE  Sound(createSession(db, c, t).db)
  <1> DEFINE row == [account |-> c.account, token |-> c.token, status |-> "active", issuedAt |-> t,
                     expiresAt |-> c.expiresAt, revokedAt |-> Never, created |-> t, updated |-> t]
             n == StoresIndexed(db, "sessions", c.session, row, "byToken", c.token).db
  <1>1. IsDb(db) /\ Shaped(db) /\ Indexed(db) BY DEF Sound
  <1>2. /\ "sessions" \in RecordMaps /\ DOMAIN row = RowFields["sessions"]
        /\ row["token"] = c.token /\ row.account = c.account
    BY DEF RecordMaps, RowFields
  <1> HIDE DEF row
  <1>3. ASSUME c.session \notin DOMAIN db.sessions, c.token \notin DOMAIN db.byToken, c.account \in DOMAIN db.accounts
        PROVE  Sound(n)
    <2>0. "byToken" \in {"subjects", "byIdentity", "byToken"} OBVIOUS
    <2>1. HasIndexed(n, db, "sessions", c.session, row, "byToken", c.token)
      BY ONLY <1>1, <1>2, <2>0, ShapedIndexedPut
    <2> HIDE DEF n
    <2>7. /\ IsDb(n) /\ Shaped(n)
          /\ n.sessions = Put(db.sessions, c.session, row) /\ n.byToken = Put(db.byToken, c.token, c.session)
          /\ \A h \in Fields \ {"sessions", "byToken"} : n[h] = db[h]
      BY <2>1 DEF HasIndexed
    <2>2. /\ n.accounts = db.accounts /\ n.identities = db.identities /\ n.credentials = db.credentials /\ n.messages = db.messages /\ n.subjects = db.subjects
          /\ n.byIdentity = db.byIdentity /\ n.keys = db.keys /\ n.order = db.order /\ n.leaseSequence = db.leaseSequence
      BY <2>7 DEF Fields, MapFields
    <2>3. Inverts(n.byToken, n.sessions, "token")
      <3>1. Inverts(db.byToken, db.sessions, "token") BY <1>1 DEF Indexed
      <3>2. Inverts(Put(db.byToken, row["token"], c.session), Put(db.sessions, c.session, row), "token")
        BY ONLY <3>1, <1>2, <1>3, InvertsPut
      <3> QED BY <3>2, <2>7, <1>2
    <2>4. DOMAIN n.sessions = DOMAIN db.sessions \cup {c.session} /\ n.sessions[c.session] = row
          /\ \A x \in DOMAIN db.sessions : x # c.session /\ n.sessions[x] = db.sessions[x]
      BY <2>7, <1>3 DEF Put
    <2>5. OwnersExist(n)
      <3>1. OwnersExist(db) BY <1>1 DEF Indexed
      <3> QED BY ONLY <3>1, <2>2, <2>4, <1>2, <1>3 DEF OwnersExist
    <2>6. Indexed(n) BY <1>1, <2>2, <2>3, <2>5 DEF Indexed, KeysInvert
    <2> QED BY <2>7, <2>6 DEF Sound
  <1>4. \A a : Sound(Answers(db, a).db) BY AnswersSound
  <1> HIDE DEF n
  <1> QED BY <1>3, <1>4 DEF createSession, Has, row, n

-----------------------------------------------------------------------------
(* The indexes when messages are stored and deleted                        *)

\* New messages, their identifiers and their keys.
AddsMessages(db, rows, keys, ids) ==
  /\ IsList(ids) /\ IsInjective(ids) /\ ToSet(ids) = DOMAIN rows
  /\ \A id \in DOMAIN rows : id \notin DOMAIN db.messages /\ DOMAIN rows[id] = RowFields.messages
  /\ \A k \in DOMAIN keys : k \notin DOMAIN db.keys /\ keys[k] \in DOMAIN rows /\ rows[keys[k]].key = k
  /\ \A id \in DOMAIN rows :
       rows[id].key # None => rows[id].key \in DOMAIN keys /\ keys[rows[id].key] = id

LEMMA ConcatInjective ==
  ASSUME NEW s, NEW r, IsList(s), IsList(r), IsInjective(s), IsInjective(r), ToSet(s) \cap ToSet(r) = {}
  PROVE  IsInjective(s \o r) /\ ToSet(s \o r) = ToSet(s) \cup ToSet(r)
  <1> DEFINE u == s \o r
             n == Len(s)
             m == Len(r)
  <1>1. s \in Seq(ToSet(s)) /\ r \in Seq(ToSet(r)) BY DEF IsList
  <1>2. n \in Nat /\ m \in Nat /\ DOMAIN s = 1..n /\ DOMAIN r = 1..m BY <1>1
  <1>3. DOMAIN u = 1..(n + m) BY <1>1, <1>2
  <1>4. \A i \in 1..n : u[i] = s[i] BY <1>1
  <1>5. \A i \in (n + 1)..(n + m) : u[i] = r[i - n] BY <1>1, <1>2
  <1>6. \A i \in (n + 1)..(n + m) : i - n \in 1..m BY <1>2
  <1>7. (\A i \in 1..n : s[i] \in ToSet(s)) /\ \A i \in 1..m : r[i] \in ToSet(r)
    BY <1>2 DEF ToSet
  <1>8. /\ \A i, j \in 1..n : s[i] = s[j] => i = j
        /\ \A i, j \in 1..m : r[i] = r[j] => i = j
    BY <1>2 DEF IsInjective
  <1> HIDE DEF u, n, m
  <1>9. ASSUME NEW i \in 1..(n + m), NEW j \in 1..(n + m), u[i] = u[j] PROVE i = j
    <2>1. CASE i \in 1..n /\ j \in 1..n BY <2>1, <1>9, <1>4, <1>8
    <2>2. CASE i \in (n + 1)..(n + m) /\ j \in (n + 1)..(n + m)
      <3>1. i - n = j - n BY ONLY <2>2, <1>9, <1>5, <1>6, <1>8
      <3> QED BY <3>1, <2>2, <1>2
    <2>3. CASE i \in 1..n /\ j \in (n + 1)..(n + m)
      <3>1. u[i] \in ToSet(s) /\ u[j] \in ToSet(r) BY ONLY <2>3, <1>4, <1>5, <1>6, <1>7
      <3> QED BY <3>1, <1>9
    <2>4. CASE i \in (n + 1)..(n + m) /\ j \in 1..n
      <3>1. u[j] \in ToSet(s) /\ u[i] \in ToSet(r) BY ONLY <2>4, <1>4, <1>5, <1>6, <1>7
      <3> QED BY <3>1, <1>9
    <2> QED BY <2>1, <2>2, <2>3, <2>4, <1>2
  <1>10. IsInjective(u) BY <1>3, <1>9 DEF IsInjective
  <1>11. ToSet(u) \subseteq ToSet(s) \cup ToSet(r)
    <2>1. ASSUME NEW i \in 1..(n + m) PROVE u[i] \in ToSet(s) \cup ToSet(r)
      <3>1. CASE i \in 1..n BY <3>1, <1>4, <1>7
      <3>2. CASE i \in (n + 1)..(n + m) BY ONLY <3>2, <1>5, <1>6, <1>7
      <3> QED BY <3>1, <3>2, <1>2
    <2> QED BY <2>1, <1>3 DEF ToSet
  <1>12. ToSet(s) \cup ToSet(r) \subseteq ToSet(u)
    <2>1. ASSUME NEW i \in 1..n PROVE s[i] \in ToSet(u)
      <3>1. i \in 1..(n + m) /\ u[i] = s[i] BY <1>2, <1>4
      <3> QED BY <3>1, <1>3 DEF ToSet
    <2>2. ASSUME NEW i \in 1..m PROVE r[i] \in ToSet(u)
      <3>1. n + i \in (n + 1)..(n + m) /\ (n + i) - n = i /\ n + i \in 1..(n + m) BY <1>2
      <3>2. u[n + i] = r[i] BY ONLY <3>1, <1>5
      <3> QED BY <3>1, <3>2, <1>3 DEF ToSet
    <2> QED BY <2>1, <2>2, <1>2 DEF ToSet
  <1> QED BY <1>10, <1>11, <1>12 DEF u

LEMMA EnqueuedSound ==
  ASSUME NEW db, Sound(db), NEW rows, NEW keys, NEW ids, AddsMessages(db, rows, keys, ids), NEW a
  PROVE  Sound(Enqueued(db, rows, keys, ids, a).db)
  <1> DEFINE n == [db EXCEPT !.messages = Over(rows, @), !.order = @ \o ids, !.keys = Over(keys, @)]
  <1>1. IsDb(db) /\ Shaped(db) /\ Indexed(db) BY DEF Sound
  <1>2. /\ n.messages = Over(rows, db.messages) /\ n.keys = Over(keys, db.keys)
        /\ n.order = db.order \o ids
        /\ \A f \in Fields \ {"messages", "keys", "order"} : n[f] = db[f]
    BY <1>1 DEF IsDb, Fields, MapFields
  <1>3. IsMap(Over(rows, db.messages)) /\ IsMap(Over(keys, db.keys)) BY OverIsMap
  <1>4. IsList(db.order \o ids) BY <1>1, ConcatIsList DEF IsDb, AddsMessages
  <1>5. IsDb(n) BY <1>1, <1>3, <1>4 DEF IsDb, Fields, MapFields
  <1>6. Enqueued(db, rows, keys, ids, a).db = n BY DEF Enqueued
  <1> HIDE DEF n
  <1>7. /\ DOMAIN n.messages = DOMAIN rows \cup DOMAIN db.messages
        /\ \A id \in DOMAIN rows : n.messages[id] = rows[id]
        /\ \A id \in DOMAIN db.messages : id \notin DOMAIN rows /\ n.messages[id] = db.messages[id]
    BY <1>2 DEF Over, AddsMessages
  <1>8. /\ DOMAIN n.keys = DOMAIN keys \cup DOMAIN db.keys
        /\ \A k \in DOMAIN keys : n.keys[k] = keys[k]
        /\ \A k \in DOMAIN db.keys : k \notin DOMAIN keys /\ n.keys[k] = db.keys[k]
    BY <1>2 DEF Over, AddsMessages
  <1>9. /\ n.subjects = db.subjects /\ n.byIdentity = db.byIdentity /\ n.byToken = db.byToken
        /\ n.identities = db.identities /\ n.credentials = db.credentials
        /\ n.sessions = db.sessions /\ n.accounts = db.accounts /\ n.leaseSequence = db.leaseSequence
    BY <1>2 DEF Fields, MapFields
  <1>10. KeysInvert(n)
    <2>1. KeysInvert(db) BY <1>1 DEF Indexed
    <2>2. ASSUME NEW k \in DOMAIN n.keys
          PROVE  n.keys[k] \in DOMAIN n.messages /\ n.messages[n.keys[k]].key = k
      <3>1. CASE k \in DOMAIN keys BY <3>1, <1>7, <1>8 DEF AddsMessages
      <3>2. CASE k \in DOMAIN db.keys
        <4>1. db.keys[k] \in DOMAIN db.messages /\ db.messages[db.keys[k]].key = k
          BY <2>1, <3>2 DEF KeysInvert
        <4> QED BY <4>1, <3>2, <1>7, <1>8
      <3> QED BY <3>1, <3>2, <1>8
    <2>3. ASSUME NEW id \in DOMAIN n.messages, n.messages[id].key # None
          PROVE  n.messages[id].key \in DOMAIN n.keys /\ n.keys[n.messages[id].key] = id
      <3>1. CASE id \in DOMAIN rows
        <4>1. rows[id].key \in DOMAIN keys /\ keys[rows[id].key] = id
          BY <3>1, <2>3, <1>7 DEF AddsMessages
        <4> QED BY <4>1, <3>1, <1>7, <1>8
      <3>2. CASE id \in DOMAIN db.messages
        <4>1. db.messages[id].key \in DOMAIN db.keys /\ db.keys[db.messages[id].key] = id
          BY <2>1, <3>2, <2>3, <1>7 DEF KeysInvert
        <4> QED BY <4>1, <3>2, <1>7, <1>8
      <3> QED BY <3>1, <3>2, <1>7
    <2> QED BY <2>2, <2>3 DEF KeysInvert
  <1>11. IsInjective(n.order) /\ ToSet(n.order) = DOMAIN n.messages
    <2>1. IsInjective(db.order) /\ ToSet(db.order) = DOMAIN db.messages /\ IsList(db.order)
      BY <1>1 DEF Indexed, IsDb
    <2>2. IsInjective(ids) /\ ToSet(ids) = DOMAIN rows /\ IsList(ids)
          /\ DOMAIN rows \cap DOMAIN db.messages = {}
      BY DEF AddsMessages
    <2>3. ToSet(db.order) \cap ToSet(ids) = {} BY <2>1, <2>2
    <2>4. IsInjective(db.order \o ids) /\ ToSet(db.order \o ids) = ToSet(db.order) \cup ToSet(ids)
      BY ONLY <2>1, <2>2, <2>3, ConcatInjective
    <2> QED BY <2>1, <2>2, <2>4, <1>2, <1>7
  <1>12. OwnersExist(n) BY <1>1, <1>9 DEF Indexed, OwnersExist
  <1>13. Indexed(n) BY <1>1, <1>9, <1>10, <1>11, <1>12 DEF Indexed
  <1>14. Shaped(n)
    <2>1. \A id \in DOMAIN n.messages : DOMAIN n.messages[id] = RowFields["messages"]
      BY <1>1, <1>7 DEF Shaped, RecordMaps, AddsMessages
    <2>2. \A f \in RecordMaps : f # "messages" => n[f] = db[f]
      BY <1>2 DEF RecordMaps, Fields, MapFields
    <2> QED BY <2>1, <2>2, <1>1 DEF Shaped
  <1> QED BY <1>5, <1>6, <1>13, <1>14 DEF Sound

\* A message of a batch that is not known is a new one.
LEMMA NovelAdds ==
  ASSUME NEW db, NEW batch, IsList(batch), ~Refused(db, batch), NEW t
  PROVE  AddsMessages(db, NovelRows(db, batch, t), NovelKeys(db, batch), NovelIds(db, batch))
  <1> DEFINE d == Novel(db, batch)
             D == DOMAIN d
             rows == NovelRows(db, batch, t)
             keys == NovelKeys(db, batch)
             ids == NovelIds(db, batch)
  <1>1. d \in Seq(ToSet(batch)) /\ \A i \in D : ~Known(db, d[i]) BY NovelFacts
  <1>2. PICK m \in [D -> DOMAIN batch] :
              /\ \A i \in D : d[i] = batch[m[i]]
              /\ \A i, j \in D : i < j => m[i] < m[j]
    BY NovelFacts
  <1>3. D = 1..Len(d) /\ Len(d) \in Nat BY <1>1
  <1>4. batch \in Seq(ToSet(batch)) BY DEF IsList
  <1>5. DOMAIN batch = 1..Len(batch) /\ Len(batch) \in Nat BY <1>4
  <1>6. \A j \in DOMAIN batch : \A i \in 1..(j - 1) : batch[i].id # batch[j].id
    BY DEF Refused, Repeats
  <1>7. \A j \in DOMAIN batch : \A i \in 1..(j - 1) : batch[j].key # None => batch[i].key # batch[j].key
    BY DEF Refused, Repeats
  <1>8. \A j \in DOMAIN batch : ~Known(db, batch[j]) => batch[j].id \notin DOMAIN db.messages
    BY DEF Refused, Has
  <1> HIDE DEF d
  <1>9. \A i, j \in D : i < j => m[i] \in 1..(m[j] - 1) /\ m[j] \in DOMAIN batch
    <2>1. ASSUME NEW i \in D, NEW j \in D, i < j PROVE m[i] \in 1..(m[j] - 1)
      <3>1. m[i] \in 1..Len(batch) /\ m[j] \in 1..Len(batch) /\ m[i] < m[j] BY <2>1, <1>2, <1>5
      <3> QED BY <3>1, <1>5
    <2> QED BY <2>1, <1>2
  <1>10. ASSUME NEW i \in D, NEW j \in D, i < j
         PROVE  d[i].id # d[j].id /\ (d[j].key # None => d[i].key # d[j].key)
    BY ONLY <1>10, <1>2, <1>6, <1>7, <1>9
  <1>11. ASSUME NEW i \in D, NEW j \in D, d[i].id = d[j].id PROVE i = j
    <2>1. i \in Nat /\ j \in Nat BY <1>3
    <2> QED BY <2>1, <1>10, <1>11
  <1>12. ASSUME NEW i \in D, NEW j \in D, d[i].key = d[j].key, d[i].key # None PROVE i = j
    <2>1. i \in Nat /\ j \in Nat BY <1>3
    <2> QED BY <2>1, <1>10, <1>12
  <1>13. \A i \in D : d[i].id \notin DOMAIN db.messages BY <1>1, <1>2, <1>8
  <1>14. /\ DOMAIN rows = {d[i].id : i \in D}
         /\ \A i \in D : rows[d[i].id] = Pending(d[i], t)
    <2>1. rows = [id \in {d[i].id : i \in D} |-> Pending(d[CHOOSE i \in D : d[i].id = id], t)]
      BY DEF NovelRows, d
    <2>2. ASSUME NEW i \in D PROVE (CHOOSE j \in D : d[j].id = d[i].id) = i BY <1>11
    <2> HIDE DEF rows
    <2> QED BY <2>1, <2>2
  <1>15. /\ DOMAIN keys = {d[i].key : i \in Keyed(db, batch)}
         /\ \A i \in Keyed(db, batch) : keys[d[i].key] = d[i].id
    <2>0. Keyed(db, batch) = {i \in D : d[i].key # None} BY DEF Keyed, d
    <2>1. keys = [k \in {d[i].key : i \in Keyed(db, batch)} |-> d[CHOOSE i \in Keyed(db, batch) : d[i].key = k].id]
      BY DEF NovelKeys, d
    <2>2. ASSUME NEW i \in Keyed(db, batch)
          PROVE (CHOOSE j \in Keyed(db, batch) : d[j].key = d[i].key) = i
      BY <1>12, <2>0
    <2> HIDE DEF keys
    <2> QED BY <2>1, <2>2
  <1>16. DOMAIN ids = D /\ \A i \in D : ids[i] = d[i].id BY DEF NovelIds, d
  <1>17. Keyed(db, batch) = {i \in D : d[i].key # None} BY DEF Keyed, d
  <1>18. IsList(ids)
    <2>1. ids \in Seq(ToSet(ids)) BY <1>3 DEF NovelIds, ToSet, d
    <2> QED BY <2>1 DEF IsList
  <1>19. \A i \in D : Pending(d[i], t).key = d[i].key /\ DOMAIN Pending(d[i], t) = RowFields.messages
    BY DEF Pending, RowFields
  <1> HIDE DEF rows, keys, ids, D
  <1>20. IsInjective(ids) /\ ToSet(ids) = DOMAIN rows
    <2>1. IsInjective(ids) BY ONLY <1>16, <1>11 DEF IsInjective
    <2>2. ToSet(ids) = DOMAIN rows BY ONLY <1>16, <1>14 DEF ToSet
    <2> QED BY <2>1, <2>2
  <1>21. ASSUME NEW id \in DOMAIN rows
         PROVE  /\ id \notin DOMAIN db.messages /\ DOMAIN rows[id] = RowFields.messages
                /\ rows[id].key # None => rows[id].key \in DOMAIN keys /\ keys[rows[id].key] = id
    <2>1. PICK i \in D : id = d[i].id BY <1>14
    <2>2. rows[id].key = d[i].key /\ DOMAIN rows[id] = RowFields.messages BY <2>1, <1>14, <1>19
    <2>3. d[i].key # None => i \in Keyed(db, batch) BY <1>17
    <2> QED BY <2>1, <2>2, <2>3, <1>13, <1>15
  <1>22. ASSUME NEW k \in DOMAIN keys
         PROVE  k \notin DOMAIN db.keys /\ keys[k] \in DOMAIN rows /\ rows[keys[k]].key = k
    <2>1. PICK i \in Keyed(db, batch) : k = d[i].key BY <1>15
    <2>2. i \in D /\ d[i].key # None BY <1>17
    <2>3. k \notin DOMAIN db.keys BY <2>1, <2>2, <1>1 DEF Known, Has
    <2> QED BY <2>1, <2>2, <2>3, <1>14, <1>15, <1>19
  <1> QED BY <1>18, <1>20, <1>21, <1>22 DEF AddsMessages, rows, keys, ids

LEMMA enqueueBatchSound ==
  ASSUME NEW db, Sound(db), NEW c, IsList(c.batch), NEW t
  PROVE  Sound(enqueueBatch(db, c, t).db)
  <1>1. CASE Refused(db, c.batch) BY <1>1, EnqueueIs, AnswersSound
  <1>2. CASE ~Refused(db, c.batch)
    <2>1. AddsMessages(db, NovelRows(db, c.batch, t), NovelKeys(db, c.batch), NovelIds(db, c.batch))
      BY <1>2, NovelAdds
    <2>2. Sound(Enqueued(db, NovelRows(db, c.batch, t), NovelKeys(db, c.batch), NovelIds(db, c.batch),
                         Acknowledged(db, c.batch, t)).db)
      BY <2>1, EnqueuedSound
    <2> QED BY <1>2, <2>2, EnqueueIs
  <1> QED BY <1>1, <1>2

LEMMA OnlyList ==
  ASSUME NEW s, IsList(s), NEW A
  PROVE  /\ IsList(Only(s, A)) /\ ToSet(Only(s, A)) = ToSet(s) \cap A
         /\ IsInjective(s) => IsInjective(Only(s, A))
  <1> DEFINE T == ToSet(s)
             r == Only(s, A)
  <1>1. s \in Seq(T) BY DEF IsList
  <1>2. T = {s[j] : j \in DOMAIN s} BY DEF ToSet
  <1> HIDE DEF T
  <1>3. /\ r \in Seq(T)
        /\ \A i \in 1..Len(r) : r[i] \in A
        /\ \A j \in 1..Len(s) : s[j] \in A => \E i \in 1..Len(r) : r[i] = s[j]
    BY <1>1, OnlyFacts
  <1>4. PICK m : Selects(m, r, s) BY <1>1, OnlyFacts
  <1> HIDE DEF r
  <1>5. DOMAIN r = 1..Len(r) /\ DOMAIN s = 1..Len(s) /\ Len(r) \in Nat /\ Len(s) \in Nat BY <1>1, <1>3
  <1>6. ToSet(r) = T \cap A
    <2>1. ToSet(r) = {r[i] : i \in 1..Len(r)} BY <1>5 DEF ToSet
    <2>2. \A i \in 1..Len(r) : r[i] \in T BY <1>3
    <2>3. ASSUME NEW x \in T \cap A PROVE x \in ToSet(r)
      <3>1. PICK j \in 1..Len(s) : x = s[j] BY <1>2, <1>5
      <3>2. PICK i \in 1..Len(r) : r[i] = s[j] BY <3>1, <1>3
      <3> QED BY <3>1, <3>2, <2>1
    <2> QED BY <2>1, <2>2, <2>3, <1>3
  <1>7. IsList(r)
    <2>1. r \in Seq(ToSet(r))
      <3>1. \A i \in 1..Len(r) : r[i] \in ToSet(r) BY <1>5 DEF ToSet
      <3> QED BY <1>3, <1>5, <3>1
    <2> QED BY <2>1 DEF IsList
  <1>8. ASSUME IsInjective(s) PROVE IsInjective(r)
    <2>1. /\ m \in [1..Len(r) -> 1..Len(s)]
          /\ \A i \in 1..Len(r) : r[i] = s[m[i]]
          /\ \A i, j \in 1..Len(r) : i < j => m[i] < m[j]
      BY <1>4 DEF Selects
    <2>2. ASSUME NEW i \in 1..Len(r), NEW j \in 1..Len(r), r[i] = r[j] PROVE i = j
      <3>1. m[i] \in 1..Len(s) /\ m[j] \in 1..Len(s) BY <2>1
      <3>2. s[m[i]] = s[m[j]] BY <2>1, <2>2
      <3>3. m[i] = m[j] BY <3>1, <3>2, <1>5, <1>8 DEF IsInjective
      <3>4. i \in Nat /\ j \in Nat /\ m[i] \in Nat /\ m[j] \in Nat BY <3>1
      <3>5. (i < j => m[i] < m[j]) /\ (j < i => m[j] < m[i]) BY <2>1
      <3> QED BY ONLY <3>3, <3>4, <3>5
    <2> QED BY <2>2, <1>5 DEF IsInjective
  <1> QED BY <1>6, <1>7, <1>8 DEF r, T

LEMMA LeaseSound ==
  ASSUME NEW db, Sound(db), NEW x \in Nat
  PROVE  Sound([db EXCEPT !.leaseSequence = x])
  <1> DEFINE n == [db EXCEPT !.leaseSequence = x]
  <1>1. IsDb(db) BY DEF Sound
  <1>2. n.leaseSequence = x /\ \A f \in Fields : f # "leaseSequence" => n[f] = db[f]
    BY <1>1 DEF IsDb, Fields
  <1>3. IsDb(n) BY <1>1 DEF IsDb, Fields, MapFields
  <1> HIDE DEF n
  <1>4. \A f \in RecordMaps \cup {"subjects", "byIdentity", "byToken", "keys", "order"} : n[f] = db[f]
    BY <1>2 DEF RecordMaps, Fields, MapFields
  <1>5. \A row : SameReferences(row, row) BY DEF SameReferences
  <1>6. Quiet(db, n) BY <1>2, <1>3, <1>4, <1>5 DEF Quiet
  <1> QED BY <1>6, QuietSound DEF n

LEMMA claimBatchSound ==
  ASSUME NEW db, Sound(db), NEW c, c.limit \in Nat, NEW t
  PROVE  Sound(claimBatch(db, c, t).db)
  <1> DEFINE eligible == Only(db.order, {id \in DOMAIN db.messages : Eligible(db.messages[id], t)})
             taken == SubSeq(eligible, 1, Min({c.limit, Len(eligible)}))
             walked == {db.order[i] : i \in {i \in DOMAIN db.order :
                          Len(taken) = c.limit =>
                            \E j \in DOMAIN db.order : j >= i /\ db.order[j] = Last(taken)}}
             lease(id) == db.leaseSequence + CHOOSE n \in DOMAIN taken : taken[n] = id
             new == [id \in walked |->
                       IF id \in ToSet(taken)
                       THEN Leased(Swept(db.messages[id], t), c.worker, lease(id), t)
                       ELSE Swept(db.messages[id], t)]
  <1>1. IsDb(db) /\ ToSet(db.order) = DOMAIN db.messages /\ db.leaseSequence \in Nat
    BY DEF Sound, Indexed
  <1>2. claimBatch(db, c, t).db
          = [db EXCEPT !.messages = Over(new, db.messages), !.leaseSequence = db.leaseSequence + Len(taken)]
    BY DEF claimBatch
  <1>3. walked \subseteq DOMAIN db.messages
    BY <1>1 DEF ToSet
  <1>4. Len(taken) \in Nat
    <2>1. IsList(eligible) BY <1>1, OnlyList DEF IsDb
    <2>2. eligible \in Seq(ToSet(eligible)) BY <2>1 DEF IsList
    <2> HIDE DEF eligible
    <2>3. Len(eligible) \in Nat BY <2>2
    <2>4. Min({c.limit, Len(eligible)}) \in {c.limit, Len(eligible)}
      BY <2>3 DEF Min
    <2>5. Min({c.limit, Len(eligible)}) \in Nat BY <2>3, <2>4
    <2> QED BY <2>2, <2>5
  <1> HIDE DEF taken, eligible
  <1>5. \A row, w, l : /\ SameReferences(Swept(row, t), row)
                       /\ SameReferences(Leased(Swept(row, t), w, l, t), row)
    <2>1. ASSUME NEW row PROVE SameReferences(Swept(row, t), row)
      <3> DEFINE s == Swept(row, t)
      <3>1. \/ s = [row EXCEPT !.status = "dead", !.lease = NoLease, !.updatedAt = t]
            \/ s = [Charged(row, "dead") EXCEPT !.updatedAt = t]
            \/ s = [Charged(row, "failed") EXCEPT !.updatedAt = t, !.availableAt = t]
            \/ s = row
        BY ONLY TRUE DEF Swept
      <3> HIDE DEF s
      <3>2. DOMAIN s = DOMAIN row BY ONLY <3>1 DEF Charged
      <3>3. \A x \in References \cap DOMAIN row : s[x] = row[x]
        BY ONLY <3>1 DEF Charged, References
      <3> QED BY ONLY <3>2, <3>3 DEF SameReferences, s
    <2>2. ASSUME NEW row, NEW old, NEW w, NEW l, SameReferences(row, old)
          PROVE  SameReferences(Leased(row, w, l, t), old)
      <3>1. DOMAIN Leased(row, w, l, t) = DOMAIN row BY ONLY TRUE DEF Leased
      <3>2. \A x \in References \cap DOMAIN row : Leased(row, w, l, t)[x] = row[x]
        BY ONLY TRUE DEF Leased, References
      <3> QED BY ONLY <2>2, <3>1, <3>2 DEF SameReferences
    <2> QED BY <2>1, <2>2
  <1> HIDE DEF walked, lease
  <1>6. DOMAIN new = walked /\ \A id \in walked : SameReferences(new[id], db.messages[id])
    BY <1>5
  <1> HIDE DEF new
  <1> DEFINE n == [db EXCEPT !["messages"] = Over(new, db["messages"])]
  <1>7. "messages" \in RecordMaps BY DEF RecordMaps
  <1>8. Sound(n) BY <1>3, <1>6, <1>7, UpdateSound
  <1>9. [db EXCEPT !.messages = Over(new, db.messages), !.leaseSequence = db.leaseSequence + Len(taken)]
          = [n EXCEPT !.leaseSequence = db.leaseSequence + Len(taken)]
    BY <1>1 DEF IsDb, Fields, MapFields
  <1> HIDE DEF n
  <1>10. db.leaseSequence + Len(taken) \in Nat BY <1>1, <1>4
  <1>11. Sound([n EXCEPT !.leaseSequence = db.leaseSequence + Len(taken)]) BY <1>8, <1>10, LeaseSound
  <1> QED BY <1>2, <1>9, <1>11

LEMMA cleanupTerminalSound ==
  ASSUME NEW db, Sound(db), NEW c, NEW t
  PROVE  Sound(cleanupTerminal(db, c, t).db)
  <1> DEFINE old == {id \in DOMAIN db.messages :
                       /\ db.messages[id].status \in {"dispatched", "dead"}
                       /\ db.messages[id].updatedAt <= t}
             freed == {k \in DOMAIN db.keys : \E id \in old : db.messages[id].key = k /\ db.keys[k] = id}
             n == [db EXCEPT !.messages = Without(@, old),
                             !.order = Only(@, DOMAIN db.messages \ old), !.keys = Without(@, freed)]
  <1>1. IsDb(db) /\ Shaped(db) /\ Indexed(db) BY DEF Sound
  <1>2. cleanupTerminal(db, c, t).db = n BY DEF cleanupTerminal
  <1>3. /\ n.messages = Without(db.messages, old) /\ n.keys = Without(db.keys, freed)
        /\ n.order = Only(db.order, DOMAIN db.messages \ old)
        /\ \A f \in Fields \ {"messages", "keys", "order"} : n[f] = db[f]
    BY <1>1 DEF IsDb, Fields, MapFields
  <1>4. IsMap(Without(db.messages, old)) /\ IsMap(Without(db.keys, freed)) BY DEF Without, IsMap
  <1>5. IsDb(n)
    <2>1. IsList(Only(db.order, DOMAIN db.messages \ old)) BY <1>1, OnlyList DEF IsDb
    <2>2. n = [f \in Fields |-> n[f]] BY <1>1 DEF IsDb
    <2>3. \A f \in MapFields : IsMap(n[f]) BY <1>1, <1>3, <1>4 DEF IsDb, Fields, MapFields
    <2> QED BY <2>1, <2>2, <2>3, <1>3 DEF IsDb
  <1>6. old \subseteq DOMAIN db.messages OBVIOUS
  <1>7. \A k \in DOMAIN db.keys : k \in freed <=> \E id \in old : db.messages[id].key = k /\ db.keys[k] = id
    OBVIOUS
  <1> HIDE DEF n, old, freed
  <1>8. /\ DOMAIN n.messages = DOMAIN db.messages \ old
        /\ \A id \in DOMAIN db.messages \ old : n.messages[id] = db.messages[id]
        /\ DOMAIN n.keys = DOMAIN db.keys \ freed
        /\ \A k \in DOMAIN db.keys \ freed : n.keys[k] = db.keys[k]
    BY <1>3 DEF Without
  <1>9. /\ n.subjects = db.subjects /\ n.byIdentity = db.byIdentity /\ n.byToken = db.byToken
        /\ n.identities = db.identities /\ n.credentials = db.credentials
        /\ n.sessions = db.sessions /\ n.accounts = db.accounts /\ n.leaseSequence = db.leaseSequence
    BY <1>3 DEF Fields, MapFields
  <1>10. KeysInvert(n)
    <2>1. KeysInvert(db) BY <1>1 DEF Indexed
    <2>2. ASSUME NEW k \in DOMAIN n.keys
          PROVE  n.keys[k] \in DOMAIN n.messages /\ n.messages[n.keys[k]].key = k
      <3>1. k \in DOMAIN db.keys /\ k \notin freed /\ n.keys[k] = db.keys[k] BY <1>8
      <3>2. db.keys[k] \in DOMAIN db.messages /\ db.messages[db.keys[k]].key = k
        BY <2>1, <3>1 DEF KeysInvert
      <3>3. db.keys[k] \notin old BY <3>1, <3>2, <1>7
      <3> QED BY <3>1, <3>2, <3>3, <1>8
    <2>3. ASSUME NEW id \in DOMAIN n.messages, n.messages[id].key # None
          PROVE  n.messages[id].key \in DOMAIN n.keys /\ n.keys[n.messages[id].key] = id
      <3>1. id \in DOMAIN db.messages /\ id \notin old /\ n.messages[id] = db.messages[id] BY <1>8
      <3>2. db.messages[id].key \in DOMAIN db.keys /\ db.keys[db.messages[id].key] = id
        BY <2>1, <3>1, <2>3 DEF KeysInvert
      <3>3. db.messages[id].key \notin freed BY <3>1, <3>2, <1>7
      <3> QED BY <3>1, <3>2, <3>3, <1>8
    <2> QED BY <2>2, <2>3 DEF KeysInvert
  <1>11. IsInjective(n.order) /\ ToSet(n.order) = DOMAIN n.messages
    <2>1. IsInjective(db.order) /\ ToSet(db.order) = DOMAIN db.messages /\ IsList(db.order)
      BY <1>1 DEF Indexed, IsDb
    <2>2. /\ ToSet(n.order) = ToSet(db.order) \cap (DOMAIN db.messages \ old)
          /\ IsInjective(n.order)
      BY <2>1, <1>3, OnlyList
    <2> QED BY <2>1, <2>2, <1>8
  <1>12. OwnersExist(n) BY <1>1, <1>9 DEF Indexed, OwnersExist
  <1>13. Indexed(n) BY <1>1, <1>9, <1>10, <1>11, <1>12 DEF Indexed
  <1>14. Shaped(n)
    <2>1. \A id \in DOMAIN n.messages : DOMAIN n.messages[id] = RowFields["messages"]
      BY <1>1, <1>8 DEF Shaped, RecordMaps
    <2>2. \A f \in RecordMaps : f # "messages" => n[f] = db[f]
      BY <1>3 DEF RecordMaps, Fields, MapFields
    <2> QED BY <2>1, <2>2, <1>1 DEF Shaped
  <1> QED BY <1>2, <1>5, <1>13, <1>14 DEF Sound

-----------------------------------------------------------------------------
(* Calls and logs of calls keep the indexes                                *)

LEMMA CallSound ==
  ASSUME NEW db, Sound(db), NEW c, IsCall(c), NEW t
  PROVE  Sound(Perform(db, c, t).db)
  <1>1. CASE c.op = "createAccount"
    <2>1. Perform(db, c, t) = createAccount(db, c, t) BY ONLY <1>1 DEF Perform
    <2>2. Sound(createAccount(db, c, t).db) BY ONLY Sound(db), createAccountSound
    <2> QED BY ONLY <2>1, <2>2
  <1>2. CASE c.op = "updateAccountStatus"
    <2>1. Perform(db, c, t) = updateAccountStatus(db, c, t) BY ONLY <1>2 DEF Perform
    <2>2. Sound(updateAccountStatus(db, c, t).db) BY ONLY Sound(db), updateAccountStatusSound
    <2> QED BY ONLY <2>1, <2>2
  <1>3. CASE c.op = "createIdentity"
    <2>1. Perform(db, c, t) = createIdentity(db, c, t) BY ONLY <1>3 DEF Perform
    <2>2. Sound(createIdentity(db, c, t).db) BY ONLY Sound(db), createIdentitySound
    <2> QED BY ONLY <2>1, <2>2
  <1>4. CASE c.op = "markVerified"
    <2>1. Perform(db, c, t) = markVerified(db, c, t) BY ONLY <1>4 DEF Perform
    <2>2. Sound(markVerified(db, c, t).db) BY ONLY Sound(db), markVerifiedSound
    <2> QED BY ONLY <2>1, <2>2
  <1>5. CASE c.op = "createCredential"
    <2>1. Perform(db, c, t) = createCredential(db, c, t) BY ONLY <1>5 DEF Perform
    <2>2. Sound(createCredential(db, c, t).db) BY ONLY Sound(db), createCredentialSound
    <2> QED BY ONLY <2>1, <2>2
  <1>6. CASE c.op = "replaceMaterial"
    <2>1. Perform(db, c, t) = replaceMaterial(db, c, t) BY ONLY <1>6 DEF Perform
    <2>2. Sound(replaceMaterial(db, c, t).db) BY ONLY Sound(db), replaceMaterialSound
    <2> QED BY ONLY <2>1, <2>2
  <1>7. CASE c.op = "updateCredentialStatus"
    <2>1. Perform(db, c, t) = updateCredentialStatus(db, c, t) BY ONLY <1>7 DEF Perform
    <2>2. Sound(updateCredentialStatus(db, c, t).db) BY ONLY Sound(db), updateCredentialStatusSound
    <2> QED BY ONLY <2>1, <2>2
  <1>8. CASE c.op = "createSession"
    <2>1. Perform(db, c, t) = createSession(db, c, t) BY ONLY <1>8 DEF Perform
    <2>2. Sound(createSession(db, c, t).db) BY ONLY Sound(db), createSessionSound
    <2> QED BY ONLY <2>1, <2>2
  <1>9. CASE c.op = "revoke"
    <2>1. Perform(db, c, t) = revoke(db, c, t) BY ONLY <1>9 DEF Perform
    <2>2. Sound(revoke(db, c, t).db) BY ONLY Sound(db), revokeSound
    <2> QED BY ONLY <2>1, <2>2
  <1>10. CASE c.op = "cleanupExpiredSessions"
    <2>1. Perform(db, c, t) = cleanupExpiredSessions(db, c, t) BY ONLY <1>10 DEF Perform
    <2>2. Sound(cleanupExpiredSessions(db, c, t).db) BY ONLY Sound(db), cleanupExpiredSessionsSound
    <2> QED BY ONLY <2>1, <2>2
  <1>11. CASE c.op = "createChallenge"
    <2>1. Perform(db, c, t) = createChallenge(db, c, t) BY ONLY <1>11 DEF Perform
    <2>2. Sound(createChallenge(db, c, t).db) BY ONLY Sound(db), createChallengeSound
    <2> QED BY ONLY <2>1, <2>2
  <1>12. CASE c.op = "recordFailedAttempt"
    <2>1. Perform(db, c, t) = recordFailedAttempt(db, c, t) BY ONLY <1>12 DEF Perform
    <2>2. Sound(recordFailedAttempt(db, c, t).db) BY ONLY Sound(db), recordFailedAttemptSound
    <2> QED BY ONLY <2>1, <2>2
  <1>13. CASE c.op = "consumePending"
    <2>1. Perform(db, c, t) = consumePending(db, c, t) BY ONLY <1>13 DEF Perform
    <2>2. Sound(consumePending(db, c, t).db) BY ONLY Sound(db), consumePendingSound
    <2> QED BY ONLY <2>1, <2>2
  <1>14. CASE c.op = "cleanupExpiredChallenges"
    <2>1. Perform(db, c, t) = cleanupExpiredChallenges(db, c, t) BY ONLY <1>14 DEF Perform
    <2>2. Sound(cleanupExpiredChallenges(db, c, t).db) BY ONLY Sound(db), cleanupExpiredChallengesSound
    <2> QED BY ONLY <2>1, <2>2
  <1>15. CASE c.op = "renewLease"
    <2>1. Perform(db, c, t) = renewLease(db, c, t) BY ONLY <1>15 DEF Perform
    <2>2. Sound(renewLease(db, c, t).db) BY ONLY Sound(db), renewLeaseSound
    <2> QED BY ONLY <2>1, <2>2
  <1>16. CASE c.op = "markDispatched"
    <2>1. Perform(db, c, t) = markDispatched(db, c, t) BY ONLY <1>16 DEF Perform
    <2>2. Sound(markDispatched(db, c, t).db) BY ONLY Sound(db), markDispatchedSound
    <2> QED BY ONLY <2>1, <2>2
  <1>17. CASE c.op = "markFailed"
    <2>1. Perform(db, c, t) = markFailed(db, c, t) BY ONLY <1>17 DEF Perform
    <2>2. Sound(markFailed(db, c, t).db) BY ONLY Sound(db), markFailedSound
    <2> QED BY ONLY <2>1, <2>2
  <1>18. CASE c.op = "cleanupTerminal"
    <2>1. Perform(db, c, t) = cleanupTerminal(db, c, t) BY ONLY <1>18 DEF Perform
    <2>2. Sound(cleanupTerminal(db, c, t).db) BY ONLY Sound(db), cleanupTerminalSound
    <2> QED BY ONLY <2>1, <2>2
  <1>19. CASE c.op = "findAccount"
    <2>1. Perform(db, c, t) = findAccount(db, c, t) BY ONLY <1>19 DEF Perform
    <2>2. Sound(findAccount(db, c, t).db) BY ONLY Sound(db), AnswersSound DEF findAccount
    <2> QED BY ONLY <2>1, <2>2
  <1>20. CASE c.op = "findBySubject"
    <2>1. Perform(db, c, t) = findBySubject(db, c, t) BY ONLY <1>20 DEF Perform
    <2>2. Sound(findBySubject(db, c, t).db) BY ONLY Sound(db), AnswersSound DEF findBySubject
    <2> QED BY ONLY <2>1, <2>2
  <1>21. CASE c.op = "findForIdentity"
    <2>1. Perform(db, c, t) = findForIdentity(db, c, t) BY ONLY <1>21 DEF Perform
    <2>2. Sound(findForIdentity(db, c, t).db) BY ONLY Sound(db), AnswersSound DEF findForIdentity
    <2> QED BY ONLY <2>1, <2>2
  <1>22. CASE c.op = "findByTokenHash"
    <2>1. Perform(db, c, t) = findByTokenHash(db, c, t) BY ONLY <1>22 DEF Perform
    <2>2. Sound(findByTokenHash(db, c, t).db) BY ONLY Sound(db), AnswersSound DEF findByTokenHash
    <2> QED BY ONLY <2>1, <2>2
  <1>23. CASE c.op = "findChallenge"
    <2>1. Perform(db, c, t) = findChallenge(db, c, t) BY ONLY <1>23 DEF Perform
    <2>2. Sound(findChallenge(db, c, t).db) BY ONLY Sound(db), AnswersSound DEF findChallenge
    <2> QED BY ONLY <2>1, <2>2
  <1>24. CASE c.op = "enqueueBatch"
    <2>1. Perform(db, c, t) = enqueueBatch(db, c, t) BY ONLY <1>24 DEF Perform
    <2>2. IsList(c.batch) BY <1>24 DEF IsCall
    <2>3. Sound(enqueueBatch(db, c, t).db) BY ONLY Sound(db), <2>2, enqueueBatchSound
    <2> QED BY ONLY <2>1, <2>3
  <1>25. CASE c.op = "claimBatch"
    <2>1. Perform(db, c, t) = claimBatch(db, c, t) BY ONLY <1>25 DEF Perform
    <2>2. c.limit \in Nat BY <1>25 DEF IsCall
    <2>3. Sound(claimBatch(db, c, t).db) BY ONLY Sound(db), <2>2, claimBatchSound
    <2> QED BY ONLY <2>1, <2>3
  <1> QED
    BY <1>1, <1>2, <1>3, <1>4, <1>5, <1>6, <1>7, <1>8, <1>9, <1>10, <1>11, <1>12, <1>13,
       <1>14, <1>15, <1>16, <1>17, <1>18, <1>19, <1>20, <1>21, <1>22, <1>23, <1>24, <1>25
       DEF IsCall, StoreOps, WorkerOps

LEMMA HistorySound ==
  ASSUME NEW db, Sound(db), NEW log, Len(log) \in Nat, \A k \in 1..Len(log) : IsCall(log[k].call)
  PROVE  \A k \in 0..Len(log) : Sound(History(db, log)[k])
  <1> DEFINE h == History(db, log)
             m == Len(log)
             S == {k \in Nat : k <= m => Sound(h[k])}
  <1>1. h[0] = db /\ \A k \in 1..m : h[k] = Perform(h[k - 1], log[k].call, log[k].at).db
    BY HistoryFacts
  <1>0. m \in Nat /\ \A k \in 1..m : IsCall(log[k].call) OBVIOUS
  <1> HIDE DEF h, m
  <1>2. 0 \in S BY <1>1
  <1>3. ASSUME NEW k \in Nat, k \in S PROVE k + 1 \in S
    <2> SUFFICES ASSUME k + 1 <= m PROVE Sound(h[k + 1])
      OBVIOUS
    <2>1. k + 1 \in 1..m /\ (k + 1) - 1 = k /\ Sound(h[k]) BY <1>3, <1>0
    <2>2. h[k + 1] = Perform(h[k], log[k + 1].call, log[k + 1].at).db BY <2>1, <1>1
    <2>3. IsCall(log[k + 1].call) BY <2>1, <1>0
    <2>4. Sound(Perform(h[k], log[k + 1].call, log[k + 1].at).db)
      BY ONLY <2>1, <2>3, CallSound
    <2> QED BY ONLY <2>2, <2>4
  <1> HIDE DEF S
  <1>4. Nat \subseteq S BY ONLY <1>2, <1>3, Induction
  <1> QED BY <1>4, <1>0 DEF S, h, m

LEMMA EmptySound == Sound(createEmptyState)
  <1> DEFINE d == createEmptyState
  <1>1. IsDb(d)
    <2>1. d = [f \in Fields |-> d[f]] BY DEF createEmptyState, Fields, MapFields
    <2>2. \A f \in MapFields : d[f] = EmptyMap BY DEF createEmptyState, MapFields
    <2>3. IsMap(EmptyMap) BY DEF IsMap, EmptyMap
    <2>4. d.order = <<>> BY DEF createEmptyState
    <2>5. IsList(<<>>) BY DEF IsList
    <2> HIDE DEF d
    <2> QED BY <2>1, <2>2, <2>3, <2>4, <2>5 DEF IsDb
  <1>2. \A f \in MapFields : DOMAIN d[f] = {} BY DEF createEmptyState, MapFields, EmptyMap
  <1>3. d.order = <<>> /\ d.leaseSequence = 0 BY DEF createEmptyState
  <1> HIDE DEF d
  <1>4. Shaped(d) BY <1>2 DEF Shaped, RecordMaps, MapFields
  <1>5. IsInjective(<<>>) /\ ToSet(<<>>) = {} BY DEF IsInjective, ToSet
  <1>6. Indexed(d)
    <2>1. /\ DOMAIN d.accounts = {} /\ DOMAIN d.identities = {} /\ DOMAIN d.subjects = {}
          /\ DOMAIN d.credentials = {} /\ DOMAIN d.byIdentity = {} /\ DOMAIN d.sessions = {}
          /\ DOMAIN d.byToken = {} /\ DOMAIN d.messages = {} /\ DOMAIN d.keys = {}
      BY ONLY <1>2 DEF MapFields
    <2>2. /\ Inverts(d.subjects, d.identities, "subject")
          /\ Inverts(d.byIdentity, d.credentials, "identity")
          /\ Inverts(d.byToken, d.sessions, "token")
      BY ONLY <2>1 DEF Inverts
    <2>3. KeysInvert(d) /\ OwnersExist(d) BY ONLY <2>1 DEF KeysInvert, OwnersExist
    <2>4. IsInjective(d.order) /\ ToSet(d.order) = DOMAIN d.messages BY ONLY <1>3, <1>5, <2>1
    <2>5. d.leaseSequence \in Nat BY <1>3
    <2> QED BY ONLY <2>2, <2>3, <2>4, <2>5 DEF Indexed
  <1> QED BY <1>1, <1>4, <1>6 DEF Sound, d

-----------------------------------------------------------------------------
(* The order of the messages                                               *)

\* The call has left the messages alone.
Aside(n, db) ==
  n.messages = db.messages /\ n.order = db.order /\ n.leaseSequence = db.leaseSequence

LEMMA ResultsAside ==
  ASSUME NEW db, IsDb(db)
  PROVE  /\ \A a : Aside(Answers(db, a).db, db)
         /\ \A f \in MapFields \ {"messages", "keys"} : \A k, v, a : Aside(Stores(db, f, k, v, a).db, db)
         /\ \A f, g \in MapFields \ {"messages", "keys"} : \A k, v, ik :
              Aside(StoresIndexed(db, f, k, v, g, ik).db, db)
         /\ \A f \in MapFields \ {"messages", "keys"} : \A new :
              Aside([db EXCEPT ![f] = new], db)
  BY DEF Aside, Answers, Stores, StoresIndexed, IsDb, Fields, MapFields

\* A call that is not the outbox's leaves the messages alone.
LEMMA CallAside ==
  ASSUME NEW db, IsDb(db), NEW c, IsCall(c), c.op \notin WorkerOps, c.op # "enqueueBatch", NEW t
  PROVE  Aside(Perform(db, c, t).db, db)
  <1>a. /\ \A a : Aside(Answers(db, a).db, db)
        /\ \A f \in MapFields \ {"messages", "keys"} : \A k, v, a : Aside(Stores(db, f, k, v, a).db, db)
        /\ \A f, g \in MapFields \ {"messages", "keys"} : \A k, v, ik :
             Aside(StoresIndexed(db, f, k, v, g, ik).db, db)
        /\ \A f \in MapFields \ {"messages", "keys"} : \A new :
             Aside([db EXCEPT ![f] = new], db)
    BY ResultsAside
  <1>b. {"accounts", "identities", "subjects", "credentials", "byIdentity", "sessions", "byToken",
         "challenges"} \subseteq MapFields \ {"messages", "keys"}
    BY DEF MapFields
  <1>1. CASE c.op = "createAccount"
    <2>1. Perform(db, c, t) = createAccount(db, c, t) BY ONLY <1>1 DEF Perform
    <2>2. Aside(createAccount(db, c, t).db, db) BY ONLY <1>a, <1>b DEF createAccount
    <2> QED BY ONLY <2>1, <2>2
  <1>2. CASE c.op = "findAccount"
    <2>1. Perform(db, c, t) = findAccount(db, c, t) BY ONLY <1>2 DEF Perform
    <2>2. Aside(findAccount(db, c, t).db, db) BY ONLY <1>a, <1>b DEF findAccount
    <2> QED BY ONLY <2>1, <2>2
  <1>3. CASE c.op = "updateAccountStatus"
    <2>1. Perform(db, c, t) = updateAccountStatus(db, c, t) BY ONLY <1>3 DEF Perform
    <2>2. Aside(updateAccountStatus(db, c, t).db, db) BY ONLY <1>a, <1>b DEF updateAccountStatus
    <2> QED BY ONLY <2>1, <2>2
  <1>4. CASE c.op = "createIdentity"
    <2>1. Perform(db, c, t) = createIdentity(db, c, t) BY ONLY <1>4 DEF Perform
    <2>2. Aside(createIdentity(db, c, t).db, db) BY ONLY <1>a, <1>b DEF createIdentity
    <2> QED BY ONLY <2>1, <2>2
  <1>5. CASE c.op = "findBySubject"
    <2>1. Perform(db, c, t) = findBySubject(db, c, t) BY ONLY <1>5 DEF Perform
    <2>2. Aside(findBySubject(db, c, t).db, db) BY ONLY <1>a, <1>b DEF findBySubject
    <2> QED BY ONLY <2>1, <2>2
  <1>6. CASE c.op = "markVerified"
    <2>1. Perform(db, c, t) = markVerified(db, c, t) BY ONLY <1>6 DEF Perform
    <2>2. Aside(markVerified(db, c, t).db, db) BY ONLY <1>a, <1>b DEF markVerified
    <2> QED BY ONLY <2>1, <2>2
  <1>7. CASE c.op = "createCredential"
    <2>1. Perform(db, c, t) = createCredential(db, c, t) BY ONLY <1>7 DEF Perform
    <2>2. Aside(createCredential(db, c, t).db, db) BY ONLY <1>a, <1>b DEF createCredential
    <2> QED BY ONLY <2>1, <2>2
  <1>8. CASE c.op = "findForIdentity"
    <2>1. Perform(db, c, t) = findForIdentity(db, c, t) BY ONLY <1>8 DEF Perform
    <2>2. Aside(findForIdentity(db, c, t).db, db) BY ONLY <1>a, <1>b DEF findForIdentity
    <2> QED BY ONLY <2>1, <2>2
  <1>9. CASE c.op = "replaceMaterial"
    <2>1. Perform(db, c, t) = replaceMaterial(db, c, t) BY ONLY <1>9 DEF Perform
    <2>2. Aside(replaceMaterial(db, c, t).db, db) BY ONLY <1>a, <1>b DEF replaceMaterial, Versioned
    <2> QED BY ONLY <2>1, <2>2
  <1>10. CASE c.op = "updateCredentialStatus"
    <2>1. Perform(db, c, t) = updateCredentialStatus(db, c, t) BY ONLY <1>10 DEF Perform
    <2>2. Aside(updateCredentialStatus(db, c, t).db, db) BY ONLY <1>a, <1>b DEF updateCredentialStatus, Versioned
    <2> QED BY ONLY <2>1, <2>2
  <1>11. CASE c.op = "createSession"
    <2>1. Perform(db, c, t) = createSession(db, c, t) BY ONLY <1>11 DEF Perform
    <2>2. Aside(createSession(db, c, t).db, db) BY ONLY <1>a, <1>b DEF createSession
    <2> QED BY ONLY <2>1, <2>2
  <1>12. CASE c.op = "findByTokenHash"
    <2>1. Perform(db, c, t) = findByTokenHash(db, c, t) BY ONLY <1>12 DEF Perform
    <2>2. Aside(findByTokenHash(db, c, t).db, db) BY ONLY <1>a, <1>b DEF findByTokenHash
    <2> QED BY ONLY <2>1, <2>2
  <1>13. CASE c.op = "revoke"
    <2>1. Perform(db, c, t) = revoke(db, c, t) BY ONLY <1>13 DEF Perform
    <2>2. Aside(revoke(db, c, t).db, db) BY ONLY <1>a, <1>b DEF revoke
    <2> QED BY ONLY <2>1, <2>2
  <1>14. CASE c.op = "cleanupExpiredSessions"
    <2>1. Perform(db, c, t) = cleanupExpiredSessions(db, c, t) BY ONLY <1>14 DEF Perform
    <2>2. Aside(cleanupExpiredSessions(db, c, t).db, db) BY ONLY <1>a, <1>b DEF cleanupExpiredSessions, Expires
    <2> QED BY ONLY <2>1, <2>2
  <1>15. CASE c.op = "createChallenge"
    <2>1. Perform(db, c, t) = createChallenge(db, c, t) BY ONLY <1>15 DEF Perform
    <2>2. Aside(createChallenge(db, c, t).db, db) BY ONLY <1>a, <1>b DEF createChallenge
    <2> QED BY ONLY <2>1, <2>2
  <1>16. CASE c.op = "findChallenge"
    <2>1. Perform(db, c, t) = findChallenge(db, c, t) BY ONLY <1>16 DEF Perform
    <2>2. Aside(findChallenge(db, c, t).db, db) BY ONLY <1>a, <1>b DEF findChallenge
    <2> QED BY ONLY <2>1, <2>2
  <1>17. CASE c.op = "recordFailedAttempt"
    <2>1. Perform(db, c, t) = recordFailedAttempt(db, c, t) BY ONLY <1>17 DEF Perform
    <2>2. Aside(recordFailedAttempt(db, c, t).db, db) BY ONLY <1>a, <1>b DEF recordFailedAttempt, Moves
    <2> QED BY ONLY <2>1, <2>2
  <1>18. CASE c.op = "consumePending"
    <2>1. Perform(db, c, t) = consumePending(db, c, t) BY ONLY <1>18 DEF Perform
    <2>2. Aside(consumePending(db, c, t).db, db) BY ONLY <1>a, <1>b DEF consumePending, Moves
    <2> QED BY ONLY <2>1, <2>2
  <1>19. CASE c.op = "cleanupExpiredChallenges"
    <2>1. Perform(db, c, t) = cleanupExpiredChallenges(db, c, t) BY ONLY <1>19 DEF Perform
    <2>2. Aside(cleanupExpiredChallenges(db, c, t).db, db) BY ONLY <1>a, <1>b DEF cleanupExpiredChallenges, Expires
    <2> QED BY ONLY <2>1, <2>2
  <1> QED
    BY <1>1, <1>2, <1>3, <1>4, <1>5, <1>6, <1>7, <1>8, <1>9, <1>10,
       <1>11, <1>12, <1>13, <1>14, <1>15, <1>16, <1>17, <1>18, <1>19
       DEF IsCall, StoreOps

\* The concatenation of lists, in either grouping.
Groups(a, b, c) == (a \o b) \o c = a \o (b \o c)

LEMMA ListsGroup ==
  ASSUME NEW a, NEW b, NEW c, IsList(a), IsList(b), IsList(c)
  PROVE  Groups(a, b, c)
  <1> DEFINE T == ToSet(a) \cup ToSet(b) \cup ToSet(c)
             u == (a \o b) \o c
             v == a \o (b \o c)
  <1>1. a \in Seq(T) /\ b \in Seq(T) /\ c \in Seq(T)
    <2>1. a \in Seq(ToSet(a)) /\ b \in Seq(ToSet(b)) /\ c \in Seq(ToSet(c)) BY DEF IsList
    <2>2. ToSet(a) \subseteq T /\ ToSet(b) \subseteq T /\ ToSet(c) \subseteq T OBVIOUS
    <2> HIDE DEF T
    <2> QED BY ONLY <2>1, <2>2
  <1> HIDE DEF T
  <1>2. /\ u \in Seq(T) /\ v \in Seq(T) /\ Len(u) = Len(v)
    BY ONLY <1>1
  <1>3. \A i \in 1..Len(u) : u[i] = v[i]
    BY ONLY <1>1
  <1> HIDE DEF u, v
  <1>4. u = v BY ONLY <1>2, <1>3
  <1> QED BY <1>4 DEF u, v, Groups

LEMMA ConcatSet ==
  ASSUME NEW s, NEW r, IsList(s), IsList(r)
  PROVE  ToSet(s \o r) = ToSet(s) \cup ToSet(r)
  <1> DEFINE u == s \o r
             n == Len(s)
             m == Len(r)
  <1>1. /\ DOMAIN u = 1..(n + m) /\ n \in Nat /\ m \in Nat /\ DOMAIN s = 1..n /\ DOMAIN r = 1..m
        /\ (\A i \in 1..n : u[i] = s[i]) /\ \A i \in 1..m : u[n + i] = r[i]
    BY DEF IsList
  <1> HIDE DEF u, n, m
  <1>2. ASSUME NEW i \in 1..(n + m) PROVE u[i] \in ToSet(s) \cup ToSet(r)
    <2>1. CASE i \in 1..n BY <2>1, <1>1 DEF ToSet
    <2>2. CASE i \notin 1..n
      <3>1. i - n \in 1..m /\ n + (i - n) = i BY <2>2, <1>1
      <3>2. u[i] = r[i - n] BY <3>1, <1>1
      <3> QED BY <3>1, <3>2, <1>1 DEF ToSet
    <2> QED BY <2>1, <2>2
  <1>3. ASSUME NEW i \in 1..n PROVE s[i] \in ToSet(u)
    BY <1>1 DEF ToSet
  <1>4. ASSUME NEW i \in 1..m PROVE r[i] \in ToSet(u)
    <2>1. n + i \in 1..(n + m) /\ u[n + i] = r[i] BY <1>1
    <2> QED BY <2>1, <1>1 DEF ToSet
  <1>5. ToSet(u) \subseteq ToSet(s) \cup ToSet(r) BY <1>1, <1>2 DEF ToSet
  <1>6. ToSet(s) \cup ToSet(r) \subseteq ToSet(u) BY <1>1, <1>3, <1>4 DEF ToSet
  <1> QED BY <1>5, <1>6 DEF u

\* Messages have only been added, after the others.
Grows(n, db) ==
  /\ n.leaseSequence = db.leaseSequence /\ DOMAIN db.messages \subseteq DOMAIN n.messages
  /\ \E ids : IsList(ids) /\ n.order = db.order \o ids /\ ToSet(ids) \cap DOMAIN db.messages = {}

LEMMA AsideGrows ==
  ASSUME NEW db, IsDb(db), NEW n, Aside(n, db)
  PROVE  Grows(n, db)
  <1>1. IsList(db.order) BY DEF IsDb
  <1>2. db.order \o <<>> = db.order BY <1>1 DEF IsList
  <1>3. IsList(<<>>) /\ ToSet(<<>>) = {} BY DEF IsList, ToSet
  <1>4. n.order = db.order \o <<>> BY <1>2 DEF Aside
  <1> QED BY <1>3, <1>4 DEF Grows, Aside

LEMMA GrowsOn ==
  ASSUME NEW db, IsDb(db), NEW n, NEW m, Grows(n, db), Grows(m, n)
  PROVE  Grows(m, db)
  <1>1. PICK a : IsList(a) /\ n.order = db.order \o a /\ ToSet(a) \cap DOMAIN db.messages = {}
    BY DEF Grows
  <1>2. PICK b : IsList(b) /\ m.order = n.order \o b /\ ToSet(b) \cap DOMAIN n.messages = {}
    BY DEF Grows
  <1>3. IsList(db.order) BY DEF IsDb
  <1>4. Groups(db.order, a, b) BY <1>1, <1>2, <1>3, ListsGroup
  <1>5. m.order = db.order \o (a \o b) BY <1>1, <1>2, <1>4 DEF Groups
  <1>6. IsList(a \o b) BY <1>1, <1>2, ConcatIsList
  <1>7. ToSet(a \o b) = ToSet(a) \cup ToSet(b) BY <1>1, <1>2, ConcatSet
  <1>8. ToSet(a \o b) \cap DOMAIN db.messages = {} BY <1>1, <1>2, <1>7 DEF Grows
  <1> QED BY <1>5, <1>6, <1>8 DEF Grows

\* The messages the call has not written keep their order.
KeepsOrder(r, db) ==
  \A V : (\A id \in V : <<"messages", id>> \notin r.wrote) => Only(r.db.order, V) = Only(db.order, V)

LEMMA EnqueueOrder ==
  ASSUME NEW db, Sound(db), NEW c, IsList(c.batch), NEW t
  PROVE  Grows(enqueueBatch(db, c, t).db, db) /\ KeepsOrder(enqueueBatch(db, c, t), db)
  <1>0. IsDb(db) /\ IsList(db.order) BY DEF Sound, IsDb
  <1>1. CASE Refused(db, c.batch)
    <2>1. enqueueBatch(db, c, t).db = db BY <1>1, EnqueueIs DEF Answers
    <2>2. Aside(db, db) BY DEF Aside
    <2>3. Grows(db, db) BY ONLY <2>2, <1>0, AsideGrows
    <2> QED BY <2>1, <2>3 DEF KeepsOrder
  <1>2. CASE ~Refused(db, c.batch)
    <2> DEFINE rows == NovelRows(db, c.batch, t)
               keys == NovelKeys(db, c.batch)
               ids == NovelIds(db, c.batch)
               r == Enqueued(db, rows, keys, ids, Acknowledged(db, c.batch, t))
    <2>1. AddsMessages(db, rows, keys, ids) BY <1>2, NovelAdds
    <2>2. enqueueBatch(db, c, t) = r BY <1>2, EnqueueIs
    <2> HIDE DEF rows, keys, ids
    <2>3. /\ r.db.messages = Over(rows, db.messages) /\ r.db.order = db.order \o ids
          /\ r.db.leaseSequence = db.leaseSequence
          /\ r.wrote = {<<"messages", id>> : id \in DOMAIN rows}
      BY <1>0 DEF Enqueued, IsDb, Fields, MapFields
    <2> HIDE DEF r
    <2>4. IsList(ids) /\ ToSet(ids) = DOMAIN rows /\ DOMAIN rows \cap DOMAIN db.messages = {}
      BY <2>1 DEF AddsMessages
    <2>5. DOMAIN db.messages \subseteq DOMAIN r.db.messages BY <2>3 DEF Over
    <2>6. Grows(r.db, db) BY <2>3, <2>4, <2>5 DEF Grows
    <2>7. ASSUME NEW V, \A id \in V : <<"messages", id>> \notin r.wrote
          PROVE  Only(r.db.order, V) = Only(db.order, V)
      <3> DEFINE T == ToSet(db.order) \cup ToSet(ids)
      <3>1. db.order \in Seq(T) /\ ids \in Seq(T)
        <4>1. db.order \in Seq(ToSet(db.order)) /\ ids \in Seq(ToSet(ids)) BY <1>0, <2>4 DEF IsList
        <4>2. ToSet(db.order) \subseteq T /\ ToSet(ids) \subseteq T OBVIOUS
        <4> HIDE DEF T
        <4> QED BY ONLY <4>1, <4>2
      <3> HIDE DEF T
      <3>2. OnlySplits(db.order, ids, V) BY ONLY <3>1, OnlyConcat
      <3>3. \A i \in 1..Len(ids) : ids[i] \notin V
        <4>1. \A id \in V : id \notin DOMAIN rows BY <2>7, <2>3
        <4>2. \A i \in 1..Len(ids) : ids[i] \in ToSet(ids) BY <3>1 DEF ToSet
        <4> QED BY <4>1, <4>2, <2>4
      <3>4. Only(ids, V) = <<>> BY ONLY <3>1, <3>3, OnlyNone
      <3>5. Only(db.order, V) \in Seq(T) BY ONLY <3>1, OnlyFacts
      <3>6. Only(db.order, V) \o <<>> = Only(db.order, V) BY <3>5
      <3> QED BY <3>2, <3>4, <3>6, <2>3 DEF OnlySplits
    <2> QED BY <2>2, <2>6, <2>7 DEF KeepsOrder
  <1> QED BY <1>1, <1>2

\* What a transaction calls adds messages after the others.
LEMMA CallGrows ==
  ASSUME NEW db, Sound(db), NEW c, IsCall(c), c.op \notin WorkerOps, NEW t
  PROVE  Grows(Perform(db, c, t).db, db)
  <1>0. IsDb(db) BY DEF Sound
  <1>1. CASE c.op = "enqueueBatch"
    <2>1. Perform(db, c, t) = enqueueBatch(db, c, t) BY ONLY <1>1 DEF Perform
    <2>2. IsList(c.batch) BY <1>1 DEF IsCall
    <2> QED BY <2>1, <2>2, EnqueueOrder
  <1>2. CASE c.op # "enqueueBatch"
    <2>1. Aside(Perform(db, c, t).db, db) BY <1>0, <1>2, CallAside
    <2> QED BY <2>1, <1>0, AsideGrows
  <1> QED BY <1>1, <1>2

LEMMA CleanupOrder ==
  ASSUME NEW db, Sound(db), NEW c, NEW t
  PROVE  KeepsOrder(cleanupTerminal(db, c, t), db)
  <1> DEFINE old == {id \in DOMAIN db.messages :
                       /\ db.messages[id].status \in {"dispatched", "dead"}
                       /\ db.messages[id].updatedAt <= t}
             r == cleanupTerminal(db, c, t)
  <1>1. /\ r.db.order = Only(db.order, DOMAIN db.messages \ old)
        /\ r.wrote = {<<"messages", id>> : id \in old}
    BY DEF cleanupTerminal, Sound, IsDb, Fields
  <1>2. IsList(db.order) /\ ToSet(db.order) = DOMAIN db.messages BY DEF Sound, IsDb, Indexed
  <1> HIDE DEF r, old
  <1>3. ASSUME NEW V, \A id \in V : <<"messages", id>> \notin r.wrote
        PROVE  Only(r.db.order, V) = Only(db.order, V)
    <2> DEFINE A == DOMAIN db.messages \ old
               T == ToSet(db.order)
    <2>1. db.order \in Seq(T) BY <1>2 DEF IsList
    <2>2. \A id \in V : id \notin old BY <1>3, <1>1
    <2>3. \A i \in 1..Len(db.order) : db.order[i] \in DOMAIN db.messages
      BY <1>2 DEF IsList, ToSet
    <2>4. \A i \in 1..Len(db.order) : db.order[i] \in A \cap V <=> db.order[i] \in V
      BY <2>2, <2>3
    <2>5. r.db.order = Only(db.order, A) BY <1>1
    <2> HIDE DEF A, T
    <2>6. Only(Only(db.order, A), V) = Only(db.order, A \cap V) BY ONLY <2>1, OnlyOnly
    <2>7. Only(db.order, A \cap V) = Only(db.order, V) BY ONLY <2>1, <2>4, OnlySame
    <2> QED BY <2>5, <2>6, <2>7
  <1> QED BY <1>3 DEF KeepsOrder, r

LEMMA CallKeepsOrder ==
  ASSUME NEW db, Sound(db), NEW c, IsCall(c), NEW t
  PROVE  KeepsOrder(Perform(db, c, t), db)
  <1>0. IsDb(db) BY DEF Sound
  <1>a. /\ \A a : Answers(db, a).db.order = db.order
        /\ \A k, v, a : Stores(db, "messages", k, v, a).db.order = db.order
    BY <1>0 DEF Answers, Stores, IsDb, Fields, MapFields
  <1>1. CASE c.op = "enqueueBatch"
    <2>1. Perform(db, c, t) = enqueueBatch(db, c, t) BY ONLY <1>1 DEF Perform
    <2>2. IsList(c.batch) BY <1>1 DEF IsCall
    <2> QED BY <2>1, <2>2, EnqueueOrder
  <1>2. CASE c.op = "cleanupTerminal"
    <2>1. Perform(db, c, t) = cleanupTerminal(db, c, t) BY ONLY <1>2 DEF Perform
    <2> QED BY <2>1, CleanupOrder
  <1>3. CASE c.op \notin {"enqueueBatch", "cleanupTerminal"}
    <2> SUFFICES Perform(db, c, t).db.order = db.order
      BY DEF KeepsOrder
    <2>1. CASE c.op = "renewLease"
      <3>1. Perform(db, c, t) = renewLease(db, c, t) BY ONLY <2>1 DEF Perform
      <3> QED BY ONLY <3>1, <1>a DEF renewLease, UnderLease
    <2>2. CASE c.op = "markDispatched"
      <3>1. Perform(db, c, t) = markDispatched(db, c, t) BY ONLY <2>2 DEF Perform
      <3> QED BY ONLY <3>1, <1>a DEF markDispatched, UnderLease
    <2>3. CASE c.op = "markFailed"
      <3>1. Perform(db, c, t) = markFailed(db, c, t) BY ONLY <2>3 DEF Perform
      <3> QED BY ONLY <3>1, <1>a DEF markFailed, UnderLease
    <2>4. CASE c.op = "claimBatch"
      <3>1. Perform(db, c, t) = claimBatch(db, c, t) BY ONLY <2>4 DEF Perform
      <3>2. claimBatch(db, c, t).db.order = db.order BY ONLY <1>0 DEF claimBatch, IsDb, Fields, MapFields
      <3> QED BY ONLY <3>1, <3>2
    <2>5. CASE c.op \notin WorkerOps
      <3>1. Aside(Perform(db, c, t).db, db) BY <1>0, <1>3, <2>5, CallAside
      <3> QED BY <3>1 DEF Aside
    <2> QED BY <1>3, <2>1, <2>2, <2>3, <2>4, <2>5 DEF WorkerOps
  <1> QED BY <1>1, <1>2, <1>3

-----------------------------------------------------------------------------
(* The transaction that has its turn                                       *)

\* What a transaction knows of its calls: they changed the copy in the maps it
\* covers, and would do so to any maps that agree there with those it began with.
Turn(t) ==
  /\ t.covers \in SUBSET Scopes
  /\ IsList(t.log) /\ \A k \in 1..Len(t.log) : IsCall(t.log[k].call)
  /\ Sound(t.before) /\ Sound(t.working)
  /\ Grows(t.working, t.before)
  /\ \A f \in Fields \ Region(t.covers) : t.working[f] = t.before[f]
  /\ \A f \in MapFields \ Region(t.covers) : \A k : <<f, k>> \notin t.wrote
  /\ \A e : IsDb(e) /\ Agree(e, t.before, Region(t.covers))
       => Replays(e, t.log, Merged(e, t.working, Region(t.covers)))

\* The messages nobody has replaced since the transaction began.
Untouched(t) == {id \in DOMAIN t.before.messages : <<"messages", id>> \notin t.touched}

\* They are where they were.
Beside(db, t) == Only(db.order, Untouched(t)) = Only(t.before.order, Untouched(t))

LEMMA MergedIsDb ==
  ASSUME NEW e, NEW w, NEW R, R \subseteq Fields, IsDb(e), IsDb(w)
  PROVE  IsDb(Merged(e, w, R)) /\ \A f \in R : Merged(e, w, R)[f] = w[f]
  <1> DEFINE m == Merged(e, w, R)
  <1>1. \A f \in Fields : m[f] = IF f \in R THEN w[f] ELSE e[f] BY DEF Merged
  <1>2. m = [f \in Fields |-> m[f]] BY DEF Merged
  <1> HIDE DEF m
  <1>3. \A f \in MapFields : IsMap(m[f]) BY <1>1 DEF IsDb, Fields
  <1>4. IsList(m.order) BY <1>1 DEF IsDb, Fields
  <1> QED BY <1>1, <1>2, <1>3, <1>4 DEF IsDb, m

LEMMA CloneTurn ==
  ASSUME NEW db, Sound(db), NEW covers \in SUBSET Scopes, NEW p
  PROVE  Turn(cloneState(p, db, covers)) /\ Beside(db, cloneState(p, db, covers))
  <1> DEFINE t == cloneState(p, db, covers)
             R == Region(covers)
  <1>1. /\ t.covers = covers /\ t.log = <<>> /\ t.wrote = {} /\ t.before = db /\ t.working = db
    BY DEF cloneState
  <1> HIDE DEF t
  <1>2. IsDb(db) BY DEF Sound
  <1>3. IsList(<<>>) /\ Len(<<>>) = 0 BY DEF IsList
  <1>4. Grows(db, db)
    <2>1. Aside(db, db) BY DEF Aside
    <2> QED BY ONLY <2>1, <1>2, AsideGrows
  <1>5. ASSUME NEW e, IsDb(e), Agree(e, db, R) PROVE Replays(e, <<>>, Merged(e, db, R))
    BY <1>5, MergedSame, ReplaysNothing
  <1> QED BY <1>1, <1>3, <1>4, <1>5 DEF Turn, Beside, t

\* A call inside the transaction.
\* A transaction is a record.
IsTurn(t) == t = [f \in DOMAIN NoTurn |-> t[f]]

LEMMA CallsIs ==
  ASSUME NEW c, IsTurn(tx)
  PROVE  LET t == Calls(c).tx
             r == Perform(tx.working, c, now)
         IN /\ IsTurn(t)
            /\ t.owner = tx.owner /\ t.covers = tx.covers /\ t.before = tx.before
            /\ t.touched = tx.touched
            /\ Needs(c.op) \subseteq tx.covers =>
                 /\ t.working = r.db /\ t.wrote = tx.wrote \cup r.wrote
                 /\ t.log = Append(tx.log, [call |-> c, at |-> now, answer |-> r.answer])
            /\ ~(Needs(c.op) \subseteq tx.covers) => t = tx
  <1>1. DOMAIN NoTurn = {"owner", "covers", "log", "wrote", "touched", "before", "working"}
    BY DEF NoTurn
  <1> DEFINE r == Perform(tx.working, c, now)
  <1> HIDE DEF r
  <1>2. CASE Needs(c.op) \subseteq tx.covers
    <2>1. Within(tx, c, now) =
            [tx |-> [tx EXCEPT !.working = r.db, !.wrote = @ \cup r.wrote], answer |-> r.answer]
      BY <1>2 DEF Within, r
    <2> DEFINE A == [tx EXCEPT !.working = r.db, !.wrote = @ \cup r.wrote]
               w == [tx |-> A, answer |-> r.answer]
               l == [call |-> c, at |-> now, answer |-> r.answer]
    <2>2. Calls(c) = [w EXCEPT !.tx.log = Append(@, l)]
      BY ONLY <2>1, <1>2 DEF Calls
    <2>3. Calls(c).tx = [A EXCEPT !.log = Append(@, l)] BY ONLY <2>2
    <2>4. /\ IsTurn(A) /\ A.owner = tx.owner /\ A.covers = tx.covers
          /\ A.before = tx.before /\ A.touched = tx.touched /\ A.log = tx.log
          /\ A.working = r.db /\ A.wrote = tx.wrote \cup r.wrote
      BY ONLY <1>1, IsTurn(tx) DEF IsTurn
    <2> HIDE DEF A, l
    <2>5. IsTurn(Calls(c).tx) BY ONLY <2>3, <2>4, <1>1 DEF IsTurn
    <2> QED BY ONLY <2>3, <2>4, <2>5, <1>1, <1>2 DEF r, l, IsTurn
  <1>3. CASE ~(Needs(c.op) \subseteq tx.covers)
    <2> DEFINE w == [tx |-> tx, answer |-> Within(tx, c, now).answer]
    <2>1. Within(tx, c, now) = w BY <1>3 DEF Within
    <2>2. Calls(c) = [w EXCEPT !.tx.log = @] BY ONLY <2>1, <1>3 DEF Calls
    <2>3. Calls(c).tx = [tx EXCEPT !.log = @] BY ONLY <2>2
    <2>4. tx = [f \in DOMAIN NoTurn |-> tx[f]] BY DEF IsTurn
    <2>5. Calls(c).tx = tx BY ONLY <2>3, <2>4, <1>1
    <2> QED BY ONLY <2>5, <1>3, IsTurn(tx)
  <1> QED BY <1>2, <1>3

\* What appending an element does, and that the calls of a log replay one call more.
AppendIs(log, x) ==
  /\ Len(log) \in Nat /\ Len(Append(log, x)) = Len(log) + 1 /\ Append(log, x)[Len(log) + 1] = x
  /\ IsList(Append(log, x)) /\ \A k \in 1..Len(log) : Append(log, x)[k] = log[k]

LEMMA AppendFacts ==
  ASSUME NEW log, IsList(log), NEW x
  PROVE  AppendIs(log, x)
  <1>1. /\ Len(log) \in Nat /\ Len(Append(log, x)) = Len(log) + 1 /\ Append(log, x)[Len(log) + 1] = x
        /\ \A k \in 1..Len(log) : Append(log, x)[k] = log[k]
        /\ DOMAIN Append(log, x) = 1..(Len(log) + 1)
        /\ Append(log, x) = [k \in 1..(Len(log) + 1) |-> Append(log, x)[k]]
    <2> DEFINE T == ToSet(log) \cup {x}
    <2>1. log \in Seq(ToSet(log)) /\ ToSet(log) \subseteq T /\ x \in T BY DEF IsList
    <2> HIDE DEF T
    <2> DEFINE a == Append(log, x)
    <2>2. log \in Seq(T) BY ONLY <2>1
    <2>3. /\ a \in Seq(T) /\ Len(log) \in Nat /\ Len(a) = Len(log) + 1 /\ a[Len(log) + 1] = x
          /\ \A k \in 1..Len(log) : a[k] = log[k]
      BY ONLY <2>1, <2>2
    <2> HIDE DEF a
    <2>4. DOMAIN a = 1..Len(a) /\ a = [k \in 1..Len(a) |-> a[k]] BY ONLY <2>3
    <2> QED BY ONLY <2>3, <2>4 DEF a
  <1>2. IsList(Append(log, x))
    <2> DEFINE a == Append(log, x)
               n == Len(log) + 1
    <2>1. a = [k \in 1..n |-> a[k]] /\ n \in Nat /\ DOMAIN a = 1..n BY <1>1
    <2> HIDE DEF a, n
    <2>2. \A k \in 1..n : a[k] \in ToSet(a) BY <2>1 DEF ToSet
    <2> QED BY <2>1, <2>2 DEF IsList, a
  <1> QED BY <1>1, <1>2 DEF AppendIs

Extended(e, log, x, m) == Replays(e, Append(log, x), Perform(m, x.call, x.at).db)

LEMMA ReplaysExtended ==
  ASSUME NEW e, NEW T, NEW log \in Seq(T), NEW x \in T, NEW m, Replays(e, log, m),
         Perform(m, x.call, x.at).answer = x.answer
  PROVE  Extended(e, log, x, m)
  BY ReplaysAppend DEF Extended

LEMMA CallTurn ==
  ASSUME IsTurn(tx), Turn(tx), NEW c, IsCall(c), c.op \notin WorkerOps
  PROVE  Turn(Calls(c).tx)
  <1> DEFINE t == Calls(c).tx
             r == Perform(tx.working, c, now)
             R == Region(tx.covers)
             x == [call |-> c, at |-> now, answer |-> r.answer]
  <1>1. CASE ~(Needs(c.op) \subseteq tx.covers)
    <2>1. t = tx BY <1>1, CallsIs
    <2> QED BY <2>1
  <1>2. CASE Needs(c.op) \subseteq tx.covers
    <2>1. /\ t.covers = tx.covers /\ t.before = tx.before /\ t.working = r.db
          /\ t.wrote = tx.wrote \cup r.wrote /\ t.log = Append(tx.log, x)
      BY <1>2, CallsIs
    <2>2. x.call = c /\ x.at = now /\ x.answer = r.answer OBVIOUS
    <2>3. r = Perform(tx.working, x.call, x.at) BY <2>2
    <2> HIDE DEF t, r, x
    <2>4. tx.covers \in SUBSET Scopes /\ Sound(tx.before) /\ Sound(tx.working) /\ IsList(tx.log)
      BY DEF Turn
    <2>5. IsDb(tx.before) /\ IsDb(tx.working) BY <2>4 DEF Sound
    <2>6. R \subseteq Fields BY <2>4, RegionHas
    <2> HIDE DEF R
    <2>7. Sound(r.db) BY <2>4, CallSound DEF r
    <2>8. Grows(r.db, tx.before)
      <3>1. Grows(r.db, tx.working) BY <2>4, CallGrows DEF r
      <3>2. Grows(tx.working, tx.before) BY DEF Turn
      <3> QED BY ONLY <2>5, <3>1, <3>2, GrowsOn
    <2>9. ASSUME NEW e, Twins(e, tx.working, tx.covers)
          PROVE  Local(Perform(e, c, now), r, e, tx.working, R)
      BY <2>9, <1>2, CallLocal DEF r, R
    <2>10. Framed(r, tx.working, R)
      <3>1. Twins(tx.working, tx.working, tx.covers) BY <2>4, <2>5 DEF Twins, Agree
      <3> QED BY <3>1, <2>9 DEF Local
    <2>11. \A f \in Fields \ R : r.db[f] = tx.before[f]
      <3>1. \A f \in Fields \ R : tx.working[f] = tx.before[f] BY DEF Turn, R
      <3> QED BY <3>1, <2>10 DEF Framed
    <2>12. \A f \in MapFields \ R : \A k : <<f, k>> \notin tx.wrote \cup r.wrote
      <3>1. \A f \in MapFields \ R : \A k : <<f, k>> \notin tx.wrote BY DEF Turn, R
      <3> QED BY <3>1, <2>10 DEF Framed
    <2>13. ASSUME NEW e, IsDb(e), Agree(e, tx.before, R)
           PROVE  Replays(e, Append(tx.log, x), Merged(e, r.db, R))
      <3> DEFINE m == Merged(e, tx.working, R)
                 q == Perform(m, c, now)
      <3>1. Replays(e, tx.log, m) BY <2>13 DEF Turn, R
      <3>2. IsDb(m) /\ \A f \in R : m[f] = tx.working[f] BY <2>5, <2>6, <2>13, MergedIsDb
      <3>3. \A f \in Fields \ R : m[f] = e[f] BY DEF Merged
      <3> HIDE DEF m
      <3>4. Twins(m, tx.working, tx.covers) BY <2>4, <2>5, <3>2 DEF Twins, Agree, R
      <3>5. Local(q, r, m, tx.working, R) BY <3>4, <2>9
      <3>6. q.answer = x.answer /\ q.db = Merged(m, r.db, R) BY <3>5, <2>2 DEF Local, Alike
      <3>7. Merged(m, r.db, R) = Merged(e, r.db, R) BY <3>3 DEF Merged
      <3>8. q = Perform(m, x.call, x.at) BY <2>2
      <3> HIDE DEF q
      <3> DEFINE T == ToSet(tx.log) \cup {x}
      <3>9. tx.log \in Seq(T) /\ x \in T
        <4>1. tx.log \in Seq(ToSet(tx.log)) /\ ToSet(tx.log) \subseteq T BY <2>4 DEF IsList
        <4>2. x \in T OBVIOUS
        <4> HIDE DEF T
        <4> QED BY ONLY <4>1, <4>2
      <3> HIDE DEF T
      <3>10. Perform(m, x.call, x.at).answer = x.answer BY <3>6, <3>8
      <3>11. Extended(e, tx.log, x, m) BY ONLY <3>1, <3>9, <3>10, ReplaysExtended
      <3> QED BY <3>11, <3>6, <3>7, <3>8 DEF Extended
    <2>14. IsList(Append(tx.log, x)) /\ \A k \in 1..Len(Append(tx.log, x)) : IsCall(Append(tx.log, x)[k].call)
      <3>1. \A k \in 1..Len(tx.log) : IsCall(tx.log[k].call) BY DEF Turn
      <3>2. AppendIs(tx.log, x) BY ONLY <2>4, AppendFacts
      <3>3. Len(Append(tx.log, x)) = Len(tx.log) + 1 /\ Append(tx.log, x)[Len(tx.log) + 1] = x
            /\ Len(tx.log) \in Nat /\ IsList(Append(tx.log, x))
            /\ \A k \in 1..Len(tx.log) : Append(tx.log, x)[k] = tx.log[k]
        BY <3>2 DEF AppendIs
      <3> HIDE DEF x
      <3>4. ASSUME NEW k \in 1..(Len(tx.log) + 1) PROVE IsCall(Append(tx.log, x)[k].call)
        <4>1. CASE k = Len(tx.log) + 1 BY <4>1, <3>3, <2>2
        <4>2. CASE k # Len(tx.log) + 1
          <5>1. k \in 1..Len(tx.log) BY <4>2, <3>3
          <5> QED BY <5>1, <3>1, <3>3
        <4> QED BY <4>1, <4>2
      <3> QED BY <3>3, <3>4
    <2>15. \A e : IsDb(e) /\ Agree(e, t.before, R) => Replays(e, t.log, Merged(e, t.working, R))
      BY ONLY <2>1, <2>13
    <2>16. IsList(t.log) /\ \A k \in 1..Len(t.log) : IsCall(t.log[k].call)
      BY ONLY <2>1, <2>14
    <2>17. /\ t.covers \in SUBSET Scopes /\ Sound(t.before) /\ Sound(t.working)
           /\ Grows(t.working, t.before)
           /\ \A f \in Fields \ R : t.working[f] = t.before[f]
           /\ \A f \in MapFields \ R : \A k : <<f, k>> \notin t.wrote
      BY ONLY <2>1, <2>4, <2>7, <2>8, <2>11, <2>12
    <2>18. R = Region(t.covers) BY ONLY <2>1 DEF R
    <2> HIDE DEF R
    <2> QED BY ONLY <2>15, <2>16, <2>17, <2>18 DEF Turn, t
  <1> QED BY <1>1, <1>2

LEMMA TouchIs ==
  ASSUME IsTurn(tx), NEW wrote
  PROVE  LET t == Touch(wrote)
         IN /\ IsTurn(t)
            /\ t.owner = tx.owner /\ t.covers = tx.covers /\ t.before = tx.before
            /\ t.working = tx.working /\ t.wrote = tx.wrote /\ t.log = tx.log
            /\ tx.owner # None => t.touched = tx.touched \cup wrote
  <1>1. DOMAIN NoTurn = {"owner", "covers", "log", "wrote", "touched", "before", "working"}
    BY DEF NoTurn
  <1>2. CASE tx.owner = None BY <1>2 DEF Touch
  <1>3. CASE tx.owner # None
    <2> DEFINE A == [tx EXCEPT !.touched = @ \cup wrote]
    <2>1. Touch(wrote) = A BY <1>3 DEF Touch
    <2>2. IsTurn(A) BY ONLY <1>1, IsTurn(tx) DEF IsTurn
    <2>3. /\ A.owner = tx.owner /\ A.covers = tx.covers /\ A.before = tx.before
          /\ A.working = tx.working /\ A.wrote = tx.wrote /\ A.log = tx.log
          /\ A.touched = tx.touched \cup wrote
      BY ONLY <1>1, IsTurn(tx) DEF IsTurn
    <2> HIDE DEF A
    <2> QED BY ONLY <2>1, <2>2, <2>3
  <1> QED BY <1>2, <1>3

\* A call outside the transaction.
LEMMA TouchTurn ==
  ASSUME IsTurn(tx), Turn(tx), tx.owner # None, Sound(base), Beside(base, tx), NEW c, IsCall(c)
  PROVE  LET r == Perform(base, c, now)
         IN Turn(Touch(r.wrote)) /\ Beside(r.db, Touch(r.wrote))
  <1> DEFINE r == Perform(base, c, now)
             t == Touch(r.wrote)
             U == Untouched(tx)
             V == Untouched(t)
  <1>1. /\ t.covers = tx.covers /\ t.before = tx.before /\ t.working = tx.working
        /\ t.wrote = tx.wrote /\ t.log = tx.log /\ t.touched = tx.touched \cup r.wrote
    BY TouchIs
  <1> HIDE DEF t
  <1>2. Turn(t) BY <1>1 DEF Turn
  <1>3. KeepsOrder(r, base) BY CallKeepsOrder
  <1>4. \A id \in V : <<"messages", id>> \notin r.wrote BY <1>1 DEF Untouched
  <1>5. V \subseteq U BY <1>1 DEF Untouched
  <1>6. Only(base.order, U) = Only(tx.before.order, U) BY DEF Beside
  <1>7. IsList(base.order) /\ IsList(tx.before.order) BY DEF Turn, Sound, IsDb
  <1> HIDE DEF r, U, V
  <1>8. Only(r.db.order, V) = Only(base.order, V) BY ONLY <1>3, <1>4 DEF KeepsOrder
  <1>9. Only(base.order, V) = Only(tx.before.order, V)
    <2>1. U \cap V = V BY <1>5
    <2>2. ASSUME NEW s, IsList(s) PROVE Only(Only(s, U), V) = Only(s, V)
      <3>1. s \in Seq(ToSet(s)) BY <2>2 DEF IsList
      <3>2. Only(Only(s, U), V) = Only(s, U \cap V) BY ONLY <3>1, OnlyOnly
      <3> QED BY ONLY <3>2, <2>1
    <2> QED BY ONLY <2>2, <1>6, <1>7
  <1>10. Only(r.db.order, V) = Only(t.before.order, V) BY <1>1, <1>8, <1>9
  <1> QED BY <1>2, <1>10 DEF Beside, V, r, t

-----------------------------------------------------------------------------
(* What a commit leaves                                                    *)

LEMMA MatchIs ==
  ASSUME NEW db, NEW t, NEW map, mapsMatch(db, t, map), IsMap(db[map]), IsMap(t.before[map])
  PROVE  db[map] = t.before[map] /\ \A k \in DOMAIN t.before[map] : <<map, k>> \notin t.touched
  <1> DEFINE a == db[map]
             b == t.before[map]
  <1>1. \A k \in DOMAIN a \cup DOMAIN b :
          /\ k \in DOMAIN a <=> k \in DOMAIN b
          /\ k \in DOMAIN a => <<map, k>> \notin t.touched /\ a[k] = b[k]
    BY DEF mapsMatch, entryMatches, Has
  <1>2. a = [k \in DOMAIN a |-> a[k]] /\ b = [k \in DOMAIN b |-> b[k]] BY DEF IsMap
  <1> HIDE DEF a, b
  <1>3. DOMAIN a = DOMAIN b BY <1>1
  <1>4. a = b BY <1>1, <1>2, <1>3
  <1> QED BY <1>1, <1>3, <1>4 DEF a, b

LEMMA ChangesApplied ==
  ASSUME NEW db, NEW t, NEW map, db[map] = t.before[map], IsMap(t.before[map]), IsMap(t.working[map])
  PROVE  applyChanges(db, t, map) = t.working[map]
  <1> DEFINE b == t.before[map]
             w == t.working[map]
             changed == Changed(t, map)
             set == changed \cap DOMAIN w
             r == applyChanges(db, t, map)
  <1>1. /\ \A k \in DOMAIN b \cup DOMAIN w : k \notin changed =>
             (k \in DOMAIN b <=> k \in DOMAIN w) /\ (k \in DOMAIN b => b[k] = w[k])
        /\ \A k \in DOMAIN b \cup DOMAIN w :
             ~(k \in DOMAIN b <=> k \in DOMAIN w) => k \in changed
        /\ changed \subseteq DOMAIN b \cup DOMAIN w
    BY DEF Changed, entryMatches, Has
  <1>2. r = Over([k \in set |-> w[k]], Without(b, changed \ set))
    BY DEF applyChanges
  <1>3. w = [k \in DOMAIN w |-> w[k]] BY DEF IsMap
  <1> HIDE DEF b, w, changed, r
  <1>4. /\ DOMAIN r = set \cup (DOMAIN b \ (changed \ set))
        /\ r = [k \in DOMAIN r |-> r[k]]
        /\ \A k \in DOMAIN r : r[k] = IF k \in set THEN w[k] ELSE b[k]
    BY <1>2 DEF Over, Without
  <1>5. DOMAIN r = DOMAIN w BY <1>1, <1>4
  <1>6. ASSUME NEW k \in DOMAIN w PROVE r[k] = w[k]
    <2>1. CASE k \in changed BY <2>1, <1>4, <1>5
    <2>2. CASE k \notin changed BY <2>2, <1>1, <1>4, <1>5
    <2> QED BY <2>1, <2>2
  <1>7. r = w BY <1>3, <1>4, <1>5, <1>6
  <1> QED BY <1>7 DEF r, w

LEMMA NothingApplied ==
  ASSUME NEW db, NEW t, NEW map, t.working[map] = t.before[map], IsMap(db[map]),
         \A k : <<map, k>> \notin t.wrote
  PROVE  applyChanges(db, t, map) = db[map]
  <1> DEFINE w == t.working[map]
             d == db[map]
             none == [k \in {} \cap DOMAIN w |-> w[k]]
  <1>1. Changed(t, map) = {} BY DEF Changed, entryMatches, Has
  <1>2. applyChanges(db, t, map) = Over(none, Without(d, {} \ ({} \cap DOMAIN w)))
    BY <1>1 DEF applyChanges
  <1>3. d = [k \in DOMAIN d |-> d[k]] BY DEF IsMap
  <1>4. DOMAIN none = {} OBVIOUS
  <1> HIDE DEF w, d, none
  <1>5. Without(d, {} \ ({} \cap DOMAIN w)) = d BY <1>3 DEF Without
  <1>6. Over(none, d) = d BY <1>3, <1>4 DEF Over
  <1> QED BY <1>2, <1>5, <1>6 DEF d

\* What a transaction may commit to: maps that are as it found them.
LEMMA CommitFinds ==
  ASSUME NEW db, NEW t, Sound(db), Turn(t), Beside(db, t),
         canCommitTransactionState(db, t), canCommitMemoryOutboxState(db, t)
  PROVE  Agree(db, t.before, Region(t.covers))
  <1>1. IsDb(db) /\ IsDb(t.before) /\ t.covers \in SUBSET Scopes BY DEF Turn, Sound
  <1>2. ASSUME NEW f \in MapFields, mapsMatch(db, t, f) PROVE db[f] = t.before[f]
    <2>1. IsMap(db[f]) /\ IsMap(t.before[f]) BY <1>1 DEF IsDb
    <2> QED BY ONLY <2>1, <1>2, MatchIs
  <1>3. ASSUME NEW s \in t.covers, NEW f \in scopeStateKeys(s) PROVE db[f] = t.before[f]
    <2>1. mapsMatch(db, t, f) BY <1>3 DEF canCommitTransactionState
    <2>2. scopeStateKeys(s) \subseteq MapFields BY <1>1 DEF scopeStateKeys, Scopes, MapFields
    <2> QED BY <2>1, <2>2, <1>2
  <1>4. mapsMatch(db, t, "messages") /\ mapsMatch(db, t, "keys") /\ db.leaseSequence = t.before.leaseSequence
    BY DEF canCommitMemoryOutboxState, outboxKeys
  <1>5. db["messages"] = t.before["messages"] /\ db["keys"] = t.before["keys"]
    BY <1>2, <1>4 DEF MapFields
  <1>6. db.order = t.before.order
    <2>1. IsMap(db["messages"]) /\ IsMap(t.before["messages"]) BY <1>1 DEF IsDb, MapFields
    <2>2. \A id \in DOMAIN t.before["messages"] : <<"messages", id>> \notin t.touched
      BY ONLY <1>4, <2>1, MatchIs
    <2>3. Untouched(t) = DOMAIN t.before.messages BY <2>2 DEF Untouched
    <2>4. ASSUME NEW d, Sound(d), DOMAIN d.messages = DOMAIN t.before.messages
          PROVE  Only(d.order, Untouched(t)) = d.order
      <3>1. IsList(d.order) /\ ToSet(d.order) = DOMAIN d.messages
        BY <2>4 DEF Sound, Indexed, IsDb
      <3>2. d.order \in Seq(ToSet(d.order)) BY <3>1 DEF IsList
      <3>3. \A i \in 1..Len(d.order) : d.order[i] \in Untouched(t)
        BY <3>1, <3>2, <2>3, <2>4 DEF ToSet
      <3> QED BY ONLY <3>2, <3>3, OnlyAll
    <2>5. Sound(t.before) BY DEF Turn
    <2>6. Only(db.order, Untouched(t)) = db.order BY <2>4, <1>5
    <2>7. Only(t.before.order, Untouched(t)) = t.before.order BY <2>4, <2>5
    <2> QED BY <2>6, <2>7 DEF Beside
  <1>7. ASSUME NEW f \in Region(t.covers) PROVE db[f] = t.before[f]
    <2>1. CASE \E s \in t.covers : f \in scopeStateKeys(s) BY <2>1, <1>3
    <2>2. CASE f \in {"messages", "keys", "order", "leaseSequence"} BY <2>2, <1>4, <1>5, <1>6
    <2> QED BY <2>1, <2>2 DEF Region
  <1> QED BY <1>7 DEF Agree

LEMMA CommitLeaves ==
  ASSUME NEW db, NEW t, Sound(db), Turn(t), Agree(db, t.before, Region(t.covers))
  PROVE  applyTransactionState(db, t) = Merged(db, t.working, Region(t.covers))
  <1> DEFINE R == Region(t.covers)
             a == applyTransactionState(db, t)
  <1>1. IsDb(db) /\ IsDb(t.before) /\ IsDb(t.working) /\ t.covers \in SUBSET Scopes
    BY DEF Turn, Sound
  <1>2. R \subseteq Fields /\ {"messages", "keys", "order", "leaseSequence"} \subseteq R
    BY <1>1, RegionHas
  <1>3. stateKeys \cup outboxKeys = MapFields BY DEF stateKeys, outboxKeys, MapFields
  <1>4. DOMAIN db = Fields BY <1>1 DEF IsDb
  <1>5. a = [f \in Fields |-> a[f]] BY <1>4 DEF applyTransactionState
  <1>6. \A f \in MapFields : a[f] = applyChanges(db, t, f)
    BY <1>3, <1>4 DEF applyTransactionState, Fields
  <1>7. /\ a["order"] = Only(db.order, DOMAIN applyChanges(db, t, "messages"))
                          \o Only(t.working.order, DOMAIN t.working.messages \ DOMAIN db.messages)
        /\ a["leaseSequence"] = IF t.working.leaseSequence # t.before.leaseSequence
                                THEN t.working.leaseSequence ELSE db.leaseSequence
    BY <1>3, <1>4 DEF applyTransactionState, Fields, MapFields
  <1>8. /\ \A f \in Fields \ R : t.working[f] = t.before[f]
        /\ \A f \in MapFields \ R : \A k : <<f, k>> \notin t.wrote
        /\ Grows(t.working, t.before) /\ Sound(t.before) /\ Sound(t.working)
    BY DEF Turn
  <1>9. \A f \in R : db[f] = t.before[f] BY DEF Agree
  <1> HIDE DEF a, R
  <1>10. ASSUME NEW f \in MapFields PROVE a[f] = IF f \in R THEN t.working[f] ELSE db[f]
    <2>1. IsMap(db[f]) /\ IsMap(t.before[f]) /\ IsMap(t.working[f]) BY <1>1 DEF IsDb
    <2>2. CASE f \in R
      <3>1. db[f] = t.before[f] BY <2>2, <1>9
      <3>2. applyChanges(db, t, f) = t.working[f] BY ONLY <2>1, <3>1, ChangesApplied
      <3> QED BY <2>2, <3>2, <1>6
    <2>3. CASE f \notin R
      <3>1. t.working[f] = t.before[f] /\ \A k : <<f, k>> \notin t.wrote
        BY <2>3, <1>8 DEF Fields
      <3>2. applyChanges(db, t, f) = db[f] BY ONLY <2>1, <3>1, NothingApplied
      <3> QED BY <2>3, <3>2, <1>6
    <2> QED BY <2>2, <2>3
  <1>11. a["leaseSequence"] = t.working["leaseSequence"]
    BY <1>2, <1>7, <1>8, <1>9 DEF Grows
  <1>12. a["order"] = t.working["order"]
    <2> DEFINE W == DOMAIN t.working.messages
               B == DOMAIN db.messages
               s == t.before.order
    <2>1. db.order = s /\ B = DOMAIN t.before.messages BY <1>2, <1>9
    <2>2. a["order"] = Only(s, W) \o Only(t.working.order, W \ B)
      <3>1. applyChanges(db, t, "messages") = t.working.messages
        BY <1>2, <1>6, <1>10 DEF MapFields
      <3> QED BY <3>1, <2>1, <1>7
    <2>3. PICK ids : IsList(ids) /\ t.working.order = s \o ids /\ ToSet(ids) \cap DOMAIN t.before.messages = {}
      BY <1>8 DEF Grows
    <2>4. DOMAIN t.before.messages \subseteq W BY <1>8 DEF Grows
    <2>5. IsList(s) /\ ToSet(s) = B BY <1>8, <2>1 DEF Sound, Indexed, IsDb
    <2>6. ToSet(t.working.order) = W BY <1>8 DEF Sound, Indexed
    <2>7. ToSet(t.working.order) = ToSet(s) \cup ToSet(ids) BY <2>3, <2>5, ConcatSet
    <2> DEFINE T == ToSet(s) \cup ToSet(ids)
    <2>8. /\ s \in Seq(T) /\ ids \in Seq(T)
          /\ \A i \in 1..Len(s) : s[i] \in ToSet(s)
          /\ \A i \in 1..Len(ids) : ids[i] \in ToSet(ids)
      <3>1. s \in Seq(ToSet(s)) /\ ids \in Seq(ToSet(ids)) BY <2>3, <2>5 DEF IsList
      <3>2. ToSet(s) \subseteq T /\ ToSet(ids) \subseteq T OBVIOUS
      <3> HIDE DEF T, s
      <3>3. s \in Seq(T) /\ ids \in Seq(T) BY ONLY <3>1, <3>2
      <3> QED BY ONLY <3>1, <3>3 DEF ToSet
    <2> HIDE DEF T, W, B, s
    <2>9. Only(s, W) = s
      <3>1. \A i \in 1..Len(s) : s[i] \in W BY <2>1, <2>4, <2>5, <2>8
      <3> QED BY ONLY <2>8, <3>1, OnlyAll
    <2>10. Only(s, W \ B) = <<>>
      <3>1. \A i \in 1..Len(s) : s[i] \notin W \ B BY <2>5, <2>8
      <3> QED BY ONLY <2>8, <3>1, OnlyNone
    <2>11. Only(ids, W \ B) = ids
      <3>1. \A i \in 1..Len(ids) : ids[i] \in W \ B BY <2>1, <2>3, <2>6, <2>7, <2>8
      <3> QED BY ONLY <2>8, <3>1, OnlyAll
    <2>12. OnlySplits(s, ids, W \ B) BY ONLY <2>8, OnlyConcat
    <2>13. <<>> \o ids = ids BY <2>8
    <2>14. Only(t.working.order, W \ B) = ids
      BY ONLY <2>3, <2>10, <2>11, <2>12, <2>13 DEF OnlySplits
    <2> QED BY <2>2, <2>3, <2>9, <2>14
  <1>13. ASSUME NEW f \in Fields PROVE a[f] = IF f \in R THEN t.working[f] ELSE db[f]
    BY <1>2, <1>10, <1>11, <1>12 DEF Fields
  <1>14. a = Merged(db, t.working, R) BY <1>5, <1>13 DEF Merged
  <1> QED BY <1>14 DEF a, R

\* A commit leaves what the calls of the transaction, made then, would leave.
LEMMA CommitIs ==
  ASSUME NEW db, NEW t, Sound(db), Turn(t), Beside(db, t),
         canCommitTransactionState(db, t), canCommitMemoryOutboxState(db, t)
  PROVE  /\ Replays(db, t.log, applyTransactionState(db, t))
         /\ Sound(applyTransactionState(db, t))
         /\ \A f \in Fields : applyTransactionState(db, t)[f] \in {db[f], t.working[f]}
  <1> DEFINE R == Region(t.covers)
             a == applyTransactionState(db, t)
  <1>1. Agree(db, t.before, R) BY CommitFinds
  <1>2. a = Merged(db, t.working, R) BY <1>1, CommitLeaves
  <1>3. IsDb(db) BY DEF Sound
  <1> HIDE DEF a
  <1>4. Replays(db, t.log, a) BY <1>1, <1>2, <1>3 DEF Turn
  <1>5. Sound(a)
    <2>1. a = History(db, t.log)[Len(t.log)] BY <1>4 DEF Replays
    <2>2. Len(t.log) \in Nat /\ \A k \in 1..Len(t.log) : IsCall(t.log[k].call) BY DEF Turn, IsList
    <2>3. \A k \in 0..Len(t.log) : Sound(History(db, t.log)[k])
      BY ONLY <2>2, Sound(db), HistorySound
    <2>4. Len(t.log) \in 0..Len(t.log) BY <2>2
    <2> QED BY ONLY <2>1, <2>3, <2>4
  <1>6. \A f \in Fields : a[f] \in {db[f], t.working[f]} BY <1>2 DEF Merged
  <1> QED BY <1>4, <1>5, <1>6 DEF a

-----------------------------------------------------------------------------
(* What the clients are doing                                              *)

DispatchFields ==
  {"owner", "policy", "effects", "at", "failed", "prepared", "sent", "batch", "answer"}

IsDispatch(d) == d = [f \in DispatchFields |-> d[f]] /\ IsList(d.prepared)

\* What a client keeps of its call.
IsWork(w) ==
  /\ w = [f \in DOMAIN Idle |-> w[f]]
  /\ w.covers \in SUBSET Scopes /\ IsList(w.effects)
  /\ IsList(w.calls)
  /\ \A k \in 1..Len(w.calls) : IsCall(w.calls[k]) /\ w.calls[k].op \notin WorkerOps
  /\ w.kind = "begin" /\ w.pc \in {"queued", "run"} => w.expiresAt \in Time
  /\ w.pc \in {"prepare", "expire", "enqueue", "acknowledge", "send"} => IsDispatch(w.dispatch)
  /\ w.pc = "send" => w.dispatch.policy = "best-effort"

\* The client has the turn.
Turning(w) ==
  \/ w.pc \in {"run", "recheck", "commit"}
  \/ w.pc \in {"prepare", "expire", "enqueue", "acknowledge"} /\ w.dispatch.policy = "required"

Working ==
  /\ scene \in DOMAIN Scenes
  /\ IsTurn(tx)
  /\ proc = [p \in Clients |-> proc[p]]
  /\ \A p \in Clients : IsWork(proc[p]) /\ (Turning(proc[p]) => tx.owner = p)

\* What a step does to the maps and to the transaction.
CallsOutside ==
  \E c : /\ IsCall(c)
         /\ base' = Perform(base, c, now).db /\ tx' = Touch(Perform(base, c, now).wrote)

CallsInside ==
  \E c : /\ IsCall(c) /\ c.op \notin WorkerOps
         /\ tx.owner # None /\ tx' = Calls(c).tx /\ base' = base

TakesTurn ==
  \E p \in Clients, covers \in SUBSET Scopes :
    tx.owner = None /\ tx' = cloneState(p, base, covers) /\ base' = base

Commits == tx.owner # None /\ canCommit /\ base' = applyTransactionState(base, tx) /\ tx' = NoTurn

GivesUp ==
  /\ tx' = NoTurn /\ base' = base
  /\ tx.owner # None /\ proc'[tx.owner].outcome \notin {None, "committed"}

Effect ==
  \/ tx' = tx /\ base' = base
  \/ CallsOutside \/ CallsInside \/ TakesTurn \/ Commits \/ GivesUp

\* A step of the client p.
Steps(p, w) ==
  /\ proc' = [proc EXCEPT ![p] = w] /\ IsWork(w)
  /\ Turning(w) => tx'.owner = p
  /\ tx'.owner = tx.owner \/ tx.owner \in {None, p}
  /\ IsTurn(tx') /\ Effect

IsStep(p) == \E w : Steps(p, w)

IdleFields == {"pc", "kind", "covers", "calls", "effects", "expiresAt", "at", "dispatch", "report",
               "sends", "outcome"}

LEMMA IdleIs == DOMAIN Idle = IdleFields
  BY DEF Idle, IdleFields

\* A call that is over.
LEMMA OverIsWork ==
  /\ \A why : IsWork(Failed(why)) /\ ~Turning(Failed(why)) /\ Failed(why).outcome = why
  /\ \A p, report : IsWork(proc[p]) =>
       /\ IsWork(Done(p)) /\ ~Turning(Done(p))
       /\ IsWork([Done(p) EXCEPT !.report = report]) /\ ~Turning([Done(p) EXCEPT !.report = report])
  <1>1. IsList(<<>>) /\ Len(<<>>) = 0 BY DEF IsList
  <1>2. ASSUME NEW why PROVE IsWork(Failed(why)) /\ ~Turning(Failed(why)) /\ Failed(why).outcome = why
    <2> DEFINE w == Failed(why)
    <2>1. /\ w.pc = "done" /\ w.outcome = why /\ w.covers = {} /\ w.calls = <<>> /\ w.effects = <<>>
          /\ w = [f \in DOMAIN Idle |-> w[f]]
      BY DEF Failed, Idle
    <2> HIDE DEF w
    <2> QED BY <1>1, <2>1 DEF IsWork, Turning, w
  <1>3. ASSUME NEW p, NEW report, IsWork(proc[p])
        PROVE  /\ IsWork(Done(p)) /\ ~Turning(Done(p))
               /\ IsWork([Done(p) EXCEPT !.report = report]) /\ ~Turning([Done(p) EXCEPT !.report = report])
    <2> DEFINE w == Done(p)
               v == [w EXCEPT !.report = report]
    <2>1. /\ w.pc = "done" /\ w.covers = {} /\ w.calls = <<>> /\ w.effects = proc[p].effects
          /\ w = [f \in DOMAIN Idle |-> w[f]]
      <3>1. w.pc = "done" /\ w.covers = {} /\ w.calls = <<>> /\ w.effects = proc[p].effects
        BY ONLY TRUE DEF Done, Idle
      <3>2. w = [f \in DOMAIN Idle |-> w[f]] BY ONLY TRUE DEF Done
      <3> QED BY ONLY <3>1, <3>2
    <2>2. IsList(proc[p].effects) BY <1>3 DEF IsWork
    <2> HIDE DEF w
    <2>3. /\ v.pc = "done" /\ v.covers = {} /\ v.calls = <<>> /\ v.effects = proc[p].effects
          /\ v = [f \in DOMAIN Idle |-> v[f]]
      BY ONLY <2>1, IdleIs DEF IdleFields
    <2> HIDE DEF v
    <2>4. IsWork(w) /\ ~Turning(w) BY ONLY <1>1, <2>1, <2>2 DEF IsWork, Turning
    <2>5. IsWork(v) /\ ~Turning(v) BY ONLY <1>1, <2>2, <2>3 DEF IsWork, Turning
    <2> QED BY <2>4, <2>5 DEF w, v
  <1> QED BY <1>2, <1>3

LEMMA ReasonsFail == \A why \in Reasons : why \notin {None, "committed"}
  <1>1. "committed" \notin Reasons BY DEF Reasons
  <1>2. None \notin Reasons BY StackAssumption
  <1> QED BY <1>1, <1>2

LEMMA NoTurnIs == IsTurn(NoTurn) /\ NoTurn.owner = None
  BY DEF IsTurn, NoTurn

\* A transaction ends without a trace.
LEMMA RollsBackStep ==
  ASSUME Working, NEW p \in Clients, tx.owner = p, NEW why, why \notin {None, "committed"},
         RollsBack(p, why)
  PROVE  IsStep(p)
  <1>1. /\ tx' = NoTurn /\ base' = base /\ proc' = [proc EXCEPT ![p] = Failed(why)]
    BY DEF RollsBack, Release
  <1>2. IsWork(Failed(why)) /\ ~Turning(Failed(why)) /\ Failed(why).outcome = why BY OverIsWork
  <1>3. IsTurn(NoTurn) /\ NoTurn.owner = None BY NoTurnIs
  <1>4. proc'[p] = Failed(why) BY <1>1 DEF Working
  <1>5. tx.owner # None BY StackAssumption
  <1>6. GivesUp BY <1>1, <1>2, <1>4, <1>5 DEF GivesUp
  <1>7. Steps(p, Failed(why)) BY <1>1, <1>2, <1>3, <1>6 DEF Steps, Effect
  <1> QED BY <1>7 DEF IsStep

\* The callback answers with a success.
LEMMA SettlesStep ==
  ASSUME Working, NEW p \in Clients, tx.owner = p, NEW w, IsWork(w), ~Turning(w), Settles(p, w)
  PROVE  IsStep(p)
  <1>1. CASE ~canCommit
    <2>1. RollsBack(p, "TRANSACTION_FAILED") BY <1>1 DEF Settles
    <2>2. "TRANSACTION_FAILED" \notin {None, "committed"} BY ReasonsFail DEF Reasons
    <2> QED BY <2>1, <2>2, RollsBackStep
  <1>2. CASE canCommit
    <2>1. /\ base' = applyTransactionState(base, tx) /\ tx' = NoTurn /\ proc' = [proc EXCEPT ![p] = w]
      BY <1>2 DEF Settles, Keeps, Release
    <2>2. IsTurn(NoTurn) /\ NoTurn.owner = None BY NoTurnIs
    <2>3. tx.owner # None BY StackAssumption
    <2>4. Commits BY <1>2, <2>1, <2>3 DEF Commits
    <2>5. Steps(p, w) BY <2>1, <2>2, <2>4 DEF Steps, Effect
    <2> QED BY <2>5 DEF IsStep
  <1> QED BY <1>1, <1>2

\* A step that is about the client alone.
LEMMA QuietStep ==
  ASSUME Working, NEW p \in Clients, NEW w, IsWork(w), Turning(w) => tx.owner = p,
         proc' = [proc EXCEPT ![p] = w], tx' = tx, base' = base
  PROVE  IsStep(p)
  <1>1. Steps(p, w) BY DEF Steps, Effect, Working
  <1> QED BY <1>1 DEF IsStep

-----------------------------------------------------------------------------
(* Dispatches                                                              *)

\* A part of a sequence of indexes.
LEMMA SelectedIsList ==
  ASSUME NEW effects, IsList(effects), NEW policy
  PROVE  IsList(Selected(effects, policy))
  <1> DEFINE s == [i \in DOMAIN effects |-> i]
  <1>1. Len(effects) \in Nat /\ DOMAIN effects = 1..Len(effects) BY DEF IsList
  <1>2. s \in Seq(Nat) BY <1>1
  <1>3. \A i \in 1..Len(effects) : s[i] = i BY <1>1
  <1>4. DOMAIN s = 1..Len(effects) BY <1>1
  <1> HIDE DEF s
  <1>5. s \in Seq(ToSet(s))
    <2>1. s = [i \in 1..Len(effects) |-> s[i]] BY <1>2, <1>4
    <2>2. \A i \in 1..Len(effects) : s[i] \in ToSet(s) BY <1>4 DEF ToSet
    <2> QED BY <1>1, <2>1, <2>2
  <1>6. IsList(s) BY <1>5 DEF IsList
  <1>7. IsList(Only(s, {i \in DOMAIN effects : effects[i].policy = policy})) BY <1>6, OnlyList
  <1> QED BY <1>7 DEF Selected, s

\* A function on the first numbers is a list.
LEMMA FunIsList ==
  ASSUME NEW n \in Nat, NEW s, s = [i \in 1..n |-> s[i]]
  PROVE  IsList(s) /\ Len(s) = n
  <1>1. \A i \in 1..n : s[i] \in ToSet(s) BY DEF ToSet
  <1>2. s \in Seq(ToSet(s)) BY <1>1
  <1> QED BY <1>2 DEF IsList

LEMMA EffectsAreList ==
  ASSUME NEW p, IsWork(proc[p]), NEW policy
  PROVE  IsList(Effects(p, policy))
  <1> DEFINE o == Selected(proc[p].effects, policy)
             s == Effects(p, policy)
  <1>1. IsList(proc[p].effects) BY DEF IsWork
  <1>2. IsList(o) BY <1>1, SelectedIsList
  <1>3. s = [k \in DOMAIN o |-> proc[p].effects[o[k]]] BY DEF Effects, Originals
  <1>4. DOMAIN o = 1..Len(o) /\ Len(o) \in Nat BY <1>2 DEF IsList
  <1> HIDE DEF o
  <1>5. s = [k \in 1..Len(o) |-> s[k]] BY <1>3, <1>4
  <1> HIDE DEF s
  <1>6. IsList(s) BY ONLY <1>4, <1>5, FunIsList
  <1> QED BY <1>6 DEF s

LEMMA DispatchesIs ==
  ASSUME NEW p, IsWork(proc[p]), NEW policy, NEW at
  PROVE  IsDispatch(Dispatches(p, policy, at)) /\ Dispatches(p, policy, at).policy = policy
  <1> DEFINE e == Effects(p, policy)
             d == Dispatches(p, policy, at)
             s == [i \in DOMAIN e |-> i]
  <1>1. IsList(e) BY EffectsAreList
  <1> HIDE DEF e
  <1>2. d.policy = policy /\ d.prepared = s /\ d = [f \in DispatchFields |-> d[f]]
    BY DEF Dispatches, Prepared, Dispatch, DispatchFields, e
  <1>3. DOMAIN e = 1..Len(e) /\ Len(e) \in Nat BY <1>1 DEF IsList
  <1>4. s = [i \in 1..Len(e) |-> s[i]] BY <1>3
  <1> HIDE DEF d, s
  <1>5. IsList(s) BY ONLY <1>3, <1>4, FunIsList
  <1> QED BY <1>2, <1>5 DEF IsDispatch, d

\* A dispatch after some of its effects have been dropped.
Dropped(d, out) ==
  [d EXCEPT !.failed = @ \o Only(d.prepared, out), !.prepared = Only(@, DOMAIN d.effects \ out)]

LEMMA DroppedIs ==
  ASSUME NEW d, IsDispatch(d), NEW out
  PROVE  IsDispatch(Dropped(d, out)) /\ Dropped(d, out).policy = d.policy
  <1> DEFINE f == d.failed \o Only(d.prepared, out)
             s == Only(d.prepared, DOMAIN d.effects \ out)
             n == Dropped(d, out)
  <1>1. IsList(s) BY OnlyList DEF IsDispatch
  <1>2. n = [d EXCEPT !.failed = f, !.prepared = s] BY DEF Dropped
  <1> HIDE DEF n, f, s
  <1>3. n.prepared = s /\ n.policy = d.policy /\ n = [x \in DispatchFields |-> n[x]]
    BY <1>2 DEF IsDispatch, DispatchFields
  <1> QED BY <1>1, <1>3 DEF IsDispatch, n

\* What an operation that ends after a dispatch makes of an answer.
FinalReason(answer) ==
  /\ answer = [ok |-> answer.ok, report |-> answer.report, reason |-> answer.reason]
  /\ answer.ok \/ answer.reason \in Reasons

LEMMA SelectedReason ==
  ASSUME NEW answer, FinalReason(answer), NEW effects, NEW originals,
         ~dispatchSelectedSideEffects(answer, effects, originals).ok
  PROVE  dispatchSelectedSideEffects(answer, effects, originals).reason \in Reasons
  <1> DEFINE es == [k \in DOMAIN originals |-> effects[originals[k]]]
             r == dispatchSideEffects(answer, es)
             x == Report(remapItems(r.report.dispatched, originals),
                         remapItems(r.report.deferred, originals),
                         remapItems(r.report.failed, originals))
  <1>1. dispatchSelectedSideEffects(answer, effects, originals) = [r EXCEPT !.report = x]
    BY DEF dispatchSelectedSideEffects
  <1> HIDE DEF es, x
  <1>2. /\ r = answer \/ r = Failure("SIDE_EFFECT_FAILED") \/ r = Success(NoReport)
    BY DEF dispatchSideEffects
  <1> HIDE DEF r
  <1>3. "ok" # "report" /\ "reason" # "report" OBVIOUS
  <1> DEFINE v == [r EXCEPT !.report = x]
  <1>4. "SIDE_EFFECT_FAILED" \in Reasons BY DEF Reasons
  <1>5. CASE r = Failure("SIDE_EFFECT_FAILED") BY <1>1, <1>4, <1>5 DEF Failure
  <1>6. CASE r = Success(NoReport) BY <1>1, <1>6 DEF Success
  <1>7. CASE r = answer
    BY <1>1, <1>7 DEF FinalReason
  <1> QED BY <1>2, <1>5, <1>6, <1>7

\* begin goes on with the answer of the dispatcher.
LEMMA AnsweredStep ==
  ASSUME Working, NEW p \in Clients, proc[p].dispatch.policy = "required" => tx.owner = p,
         NEW answer, FinalReason(answer), Answered(p, answer)
  PROVE  IsStep(p)
  <1> DEFINE policy == proc[p].dispatch.policy
             result == dispatchSelectedSideEffects(answer, proc[p].effects, Originals(p, policy))
             report == mergeSideEffectResults(proc[p].report, result.report)
  <1>0. IsWork(proc[p]) BY DEF Working
  <1>d. \/ /\ policy = "required" /\ result.ok
           /\ proc' = [proc EXCEPT ![p].pc = "recheck", ![p].report = report, ![p].dispatch = None]
           /\ UNCHANGED <<base, queue, tx, stored>>
        \/ /\ policy = "required" /\ ~result.ok
           /\ RollsBack(p, result.reason)
        \/ /\ policy = "best-effort"
           /\ proc' = [proc EXCEPT ![p] = [Done(p) EXCEPT !.report = report]]
           /\ UNCHANGED <<base, queue, tx, stored>>
    BY DEF Answered
  <1>a. ~result.ok => result.reason \in Reasons BY SelectedReason
  <1> HIDE DEF result, report
  <1>1. CASE /\ policy = "required" /\ result.ok
             /\ proc' = [proc EXCEPT ![p].pc = "recheck", ![p].report = report, ![p].dispatch = None]
             /\ UNCHANGED <<base, queue, tx, stored>>
    <2> DEFINE w == [proc[p] EXCEPT !.pc = "recheck", !.report = report, !.dispatch = None]
    <2>1. proc' = [proc EXCEPT ![p] = w] BY <1>1 DEF Working
    <2>2. /\ w = [f \in DOMAIN Idle |-> w[f]] /\ w.pc = "recheck" /\ w.covers = proc[p].covers
          /\ w.calls = proc[p].calls /\ w.effects = proc[p].effects
      BY <1>0, IdleIs DEF IsWork, IdleFields
    <2> HIDE DEF w
    <2>3. IsWork(w) BY <2>2, <1>0 DEF IsWork
    <2> QED BY <1>1, <2>1, <2>3, QuietStep
  <1>2. CASE policy = "required" /\ ~result.ok /\ RollsBack(p, result.reason)
    <2>1. result.reason \notin {None, "committed"} BY <1>2, <1>a, ReasonsFail
    <2> QED BY <1>2, <2>1, RollsBackStep
  <1>3. CASE /\ policy = "best-effort"
             /\ proc' = [proc EXCEPT ![p] = [Done(p) EXCEPT !.report = report]]
             /\ UNCHANGED <<base, queue, tx, stored>>
    <2>1. IsWork([Done(p) EXCEPT !.report = report]) /\ ~Turning([Done(p) EXCEPT !.report = report])
      BY <1>0, OverIsWork
    <2> QED BY <1>3, <2>1, QuietStep
  <1> QED BY <1>d, <1>1, <1>2, <1>3

\* The dispatch goes on, or ends.
LEMMA ContinuesStep ==
  ASSUME Working, NEW p \in Clients, NEW d, IsDispatch(d), d.policy = proc[p].dispatch.policy,
         d.policy = "required" => tx.owner = p, NEW pc \in {"expire", "enqueue"}, Continues(p, pc, d)
  PROVE  IsStep(p)
  <1>0. IsWork(proc[p]) BY DEF Working
  <1>1. CASE d.prepared = <<>>
    <2>1. FinalReason(DispatchReport(d)) BY DEF FinalReason, DispatchReport, Success
    <2>2. Answered(p, DispatchReport(d)) BY <1>1 DEF Continues
    <2> QED BY <2>1, <2>2, AnsweredStep
  <1>2. CASE d.prepared # <<>>
    <2> DEFINE w == [proc[p] EXCEPT !.pc = pc, !.dispatch = d]
    <2>1. /\ proc' = [proc EXCEPT ![p].pc = pc, ![p].dispatch = d]
          /\ UNCHANGED <<base, queue, tx, stored>>
      BY <1>2 DEF Continues
    <2>2. proc' = [proc EXCEPT ![p] = w] BY <2>1 DEF Working
    <2>3. /\ w = [f \in DOMAIN Idle |-> w[f]] /\ w.pc = pc /\ w.covers = proc[p].covers
          /\ w.calls = proc[p].calls /\ w.effects = proc[p].effects /\ w.dispatch = d
      BY <1>0, IdleIs DEF IsWork, IdleFields
    <2> HIDE DEF w
    <2>4. IsWork(w) BY <2>3, <1>0 DEF IsWork
    <2>5. Turning(w) => tx.owner = p BY <2>3 DEF Turning
    <2> QED BY <2>1, <2>2, <2>4, <2>5, QuietStep
  <1> QED BY <1>1, <1>2

-----------------------------------------------------------------------------
(* The steps of a client                                                   *)

\* A step that queues a call.
LEMMA QueuesStep ==
  ASSUME Working, NEW p \in Clients, NEW w, IsWork(w), w.pc = "queued", Queues(p, w),
         tx' = tx, base' = base
  PROVE  IsStep(p)
  <1>1. ~Turning(w) BY DEF Turning
  <1>2. proc' = [proc EXCEPT ![p] = w] BY DEF Queues
  <1> QED BY <1>1, <1>2, QuietStep

LEMMA RefusalsStep ==
  ASSUME Working, NEW p \in Clients, RefuseRequest(p) \/ RefuseBegin(p)
  PROVE  IsStep(p)
  <1>1. PICK why : proc' = [proc EXCEPT ![p] = Failed(why)]
    BY DEF RefuseRequest, RefuseBegin
  <1>2. tx' = tx /\ base' = base BY DEF RefuseRequest, RefuseBegin
  <1>3. IsWork(Failed(why)) /\ ~Turning(Failed(why)) BY OverIsWork
  <1> QED BY <1>1, <1>2, <1>3, QuietStep

LEMMA RunScriptStep ==
  ASSUME Working, NEW p \in Clients, RunScript(p)
  PROVE  IsStep(p)
  <1>1. PICK s \in Scenes[scene].scripts :
          Queues(p, [Idle EXCEPT !.pc = "queued", !.kind = "script", !.covers = s.covers, !.calls = s.calls])
    BY DEF RunScript
  <1> DEFINE w == [Idle EXCEPT !.pc = "queued", !.kind = "script", !.covers = s.covers, !.calls = s.calls]
  <1>2. /\ w = [f \in DOMAIN Idle |-> w[f]] /\ w.pc = "queued" /\ w.kind = "script"
        /\ w.covers = s.covers /\ w.calls = s.calls /\ w.effects = <<>>
    BY DEF Idle
  <1>3. IsScene(Scenes[scene]) BY ScenesAssumption DEF Working
  <1>4. /\ IsList(s.calls) /\ s.covers \in SUBSET Scopes
        /\ \A k \in DOMAIN s.calls : IsCall(s.calls[k]) /\ s.calls[k].op \notin WorkerOps
    BY <1>3 DEF IsScene
  <1>5. DOMAIN s.calls = 1..Len(s.calls) BY <1>4 DEF IsList
  <1>6. IsList(<<>>) BY DEF IsList
  <1> HIDE DEF w
  <1>7. IsWork(w) BY <1>2, <1>4, <1>5, <1>6 DEF IsWork
  <1>8. tx' = tx /\ base' = base BY DEF RunScript
  <1>9. Queues(p, w) BY <1>1 DEF w
  <1> QED BY <1>2, <1>7, <1>8, <1>9, QueuesStep

LEMMA BeginChallengeStep ==
  ASSUME Working, NEW p \in Clients, BeginChallenge(p)
  PROVE  IsStep(p)
  <1> DEFINE covers(o) == {"challenges"} \cup sideEffectScopes(o.effects, dispatcher)
             work(o) == [Idle EXCEPT !.pc = "queued", !.kind = "begin", !.effects = o.effects,
                                      !.expiresAt = o.expiresAt, !.covers = covers(o)]
  <1>1. PICK o \in Scenes[scene].outputs : Queues(p, work(o))
    BY DEF BeginChallenge
  <1>2. covers(o) \in SUBSET Scopes BY DEF sideEffectScopes, Scopes
  <1> DEFINE w == work(o)
  <1> HIDE DEF covers
  <1>3. /\ w = [f \in DOMAIN Idle |-> w[f]] /\ w.pc = "queued" /\ w.kind = "begin"
        /\ w.covers = covers(o) /\ w.calls = <<>> /\ w.effects = o.effects /\ w.expiresAt = o.expiresAt
    BY DEF Idle
  <1>4. IsScene(Scenes[scene]) BY ScenesAssumption DEF Working
  <1>5. IsList(o.effects) /\ o.expiresAt \in Time BY <1>4 DEF IsScene
  <1>6. IsList(<<>>) /\ Len(<<>>) = 0 BY DEF IsList
  <1>7. Queues(p, w) BY <1>1
  <1> HIDE DEF w, work
  <1>8. IsWork(w) BY <1>2, <1>3, <1>5, <1>6 DEF IsWork
  <1>9. tx' = tx /\ base' = base BY DEF BeginChallenge
  <1> QED BY <1>3, <1>7, <1>8, <1>9, QueuesStep

LEMMA TakeTurnStep ==
  ASSUME Working, NEW p \in Clients, TakeTurn(p)
  PROVE  IsStep(p)
  <1> DEFINE w == [proc[p] EXCEPT !.pc = "run"]
  <1>0. IsWork(proc[p]) BY DEF Working
  <1>1. /\ proc[p].pc = "queued" /\ tx.owner = None /\ base' = base
        /\ tx' = cloneState(p, base, proc[p].covers)
        /\ proc' = [proc EXCEPT ![p] = w]
    BY DEF TakeTurn, At, Working
  <1>2. /\ w = [f \in DOMAIN Idle |-> w[f]] /\ w.pc = "run" /\ w.covers = proc[p].covers
        /\ w.calls = proc[p].calls /\ w.effects = proc[p].effects /\ w.kind = proc[p].kind
        /\ w.expiresAt = proc[p].expiresAt
    BY <1>0, IdleIs DEF IsWork, IdleFields
  <1> HIDE DEF w
  <1>3. IsWork(w) BY <1>0, <1>1, <1>2 DEF IsWork
  <1>4. tx'.owner = p /\ IsTurn(tx') BY <1>1 DEF cloneState, IsTurn, NoTurn
  <1>5. proc[p].covers \in SUBSET Scopes BY <1>0 DEF IsWork
  <1>6. TakesTurn BY <1>1, <1>5 DEF TakesTurn
  <1>7. Steps(p, w) BY <1>1, <1>3, <1>4, <1>6 DEF Steps, Effect
  <1> QED BY <1>7 DEF IsStep

\* A step of the client that has the turn, with a call inside its transaction.
LEMMA InsideStep ==
  ASSUME Working, NEW p \in Clients, tx.owner = p, NEW c, IsCall(c), c.op \notin WorkerOps,
         NEW w, IsWork(w), proc' = [proc EXCEPT ![p] = w], tx' = Calls(c).tx, base' = base
  PROVE  IsStep(p)
  <1>1. tx'.owner = tx.owner /\ IsTurn(tx') BY CallsIs DEF Working
  <1>2. tx.owner # None BY StackAssumption
  <1>3. CallsInside BY <1>2 DEF CallsInside
  <1>4. Steps(p, w) BY <1>1, <1>3 DEF Steps, Effect
  <1> QED BY <1>4 DEF IsStep

LEMMA CallStoreStep ==
  ASSUME Working, NEW p \in Clients, CallStore(p)
  PROVE  IsStep(p)
  <1> DEFINE w == [proc[p] EXCEPT !.calls = Tail(@)]
             c == Head(proc[p].calls)
             s == proc[p].calls
  <1>0. IsWork(proc[p]) BY DEF Working
  <1>1. /\ proc[p].pc = "run" /\ proc[p].kind = "script" /\ s # <<>>
        /\ tx' = Calls(c).tx /\ base' = base
        /\ proc' = [proc EXCEPT ![p] = w]
    BY DEF CallStore, At, Working
  <1>2. tx.owner = p BY <1>1 DEF Working, Turning
  <1>3. IsList(s) /\ \A k \in 1..Len(s) : IsCall(s[k]) /\ s[k].op \notin WorkerOps
    BY <1>0 DEF IsWork
  <1>4. /\ w = [f \in DOMAIN Idle |-> w[f]] /\ w.pc = "run" /\ w.covers = proc[p].covers
        /\ w.calls = Tail(s) /\ w.effects = proc[p].effects /\ w.kind = "script"
    BY <1>0, <1>1, IdleIs DEF IsWork, IdleFields
  <1> HIDE DEF w, s
  <1>5. /\ Len(s) \in Nat \ {0} /\ Len(Tail(s)) = Len(s) - 1 /\ Head(s) = s[1]
        /\ \A k \in 1..(Len(s) - 1) : Tail(s)[k] = s[k + 1]
        /\ Tail(s) = [k \in 1..(Len(s) - 1) |-> Tail(s)[k]]
    <2> DEFINE t == Tail(s)
               T == ToSet(s)
    <2>1. s \in Seq(T) /\ s # <<>> BY <1>1, <1>3 DEF IsList
    <2> HIDE DEF T
    <2>2. /\ Len(s) \in Nat \ {0} /\ t \in Seq(T) /\ Len(t) = Len(s) - 1 /\ Head(s) = s[1]
          /\ \A k \in 1..(Len(s) - 1) : t[k] = s[k + 1]
      BY ONLY <2>1
    <2> HIDE DEF t
    <2>3. t = [k \in 1..(Len(s) - 1) |-> t[k]] BY ONLY <2>2
    <2> QED BY ONLY <2>2, <2>3 DEF t
  <1>6. IsCall(c) /\ c.op \notin WorkerOps BY <1>3, <1>5 DEF s
  <1>7. IsList(Tail(s)) /\ \A k \in 1..Len(Tail(s)) : IsCall(Tail(s)[k]) /\ Tail(s)[k].op \notin WorkerOps
    <2> DEFINE t == Tail(s)
               n == Len(s) - 1
    <2>1. n \in Nat /\ t = [k \in 1..n |-> t[k]] BY <1>5
    <2>2. ASSUME NEW k \in 1..n PROVE IsCall(t[k]) /\ t[k].op \notin WorkerOps
      <3>1. k + 1 \in 1..Len(s) /\ t[k] = s[k + 1] BY <1>5
      <3> QED BY <3>1, <1>3
    <2> HIDE DEF t, n
    <2>3. IsList(t) /\ Len(t) = n BY ONLY <2>1, FunIsList
    <2> QED BY ONLY <2>2, <2>3 DEF t
  <1>8. IsWork(w) BY <1>0, <1>4, <1>7 DEF IsWork
  <1> HIDE DEF c
  <1> QED BY <1>1, <1>2, <1>6, <1>8, InsideStep

LEMMA ReturnStep ==
  ASSUME Working, NEW p \in Clients, Return(p)
  PROVE  IsStep(p)
  <1>1. proc[p].pc = "run" /\ Settles(p, Done(p)) BY DEF Return, At
  <1>2. tx.owner = p BY <1>1 DEF Working, Turning
  <1>3. IsWork(Done(p)) /\ ~Turning(Done(p)) BY OverIsWork DEF Working
  <1> QED BY <1>1, <1>2, <1>3, SettlesStep

LEMMA GiveUpStep ==
  ASSUME Working, NEW p \in Clients, GiveUp(p)
  PROVE  IsStep(p)
  <1>1. proc[p].pc = "run" /\ RollsBack(p, "callback-failure") BY DEF GiveUp, At
  <1>2. tx.owner = p BY <1>1 DEF Working, Turning
  <1>3. "callback-failure" \notin {None, "committed"} BY ReasonsFail DEF Reasons
  <1> QED BY <1>1, <1>2, <1>3, RollsBackStep

ChallengeCall(p) == [op |-> "createChallenge", challenge |-> p, expiresAt |-> proc[p].expiresAt]

LEMMA ChallengeAnswers ==
  ASSUME NEW p
  PROVE  Calls(ChallengeCall(p)).answer \in {"ok", "STORE_UNAVAILABLE"}
  <1> DEFINE c == ChallengeCall(p)
             w == Within(tx, c, now)
  <1>1. c.op = "createChallenge" BY DEF ChallengeCall
  <1> HIDE DEF c
  <1>2. Perform(tx.working, c, now).answer \in {"ok", "STORE_UNAVAILABLE"}
    <2>1. Perform(tx.working, c, now) = createChallenge(tx.working, c, now) BY ONLY <1>1 DEF Perform
    <2>2. createChallenge(tx.working, c, now).answer \in {"ok", "STORE_UNAVAILABLE"}
      BY DEF createChallenge, Answers, Stores
    <2> QED BY ONLY <2>1, <2>2
  <1>3. w.answer \in {"ok", "STORE_UNAVAILABLE"} BY <1>1, <1>2 DEF Within
  <1>4. w = [tx |-> w.tx, answer |-> w.answer] BY DEF Within
  <1>5. Calls(c).answer = w.answer
    <2> DEFINE l == IF Needs(c.op) \subseteq tx.covers
                    THEN Append(w.tx.log, [call |-> c, at |-> now, answer |-> w.answer]) ELSE w.tx.log
    <2>1. Calls(c) = [w EXCEPT !.tx = [w.tx EXCEPT !.log = l]] BY DEF Calls
    <2> HIDE DEF w, l
    <2> QED BY ONLY <2>1, <1>4
  <1> QED BY <1>3, <1>5 DEF c

LEMMA CreateChallengeStep ==
  ASSUME Working, NEW p \in Clients, CreateChallenge(p)
  PROVE  IsStep(p)
  <1> DEFINE c == ChallengeCall(p)
             r == Calls(c)
             recheck == [proc[p] EXCEPT !.pc = "recheck"]
             prepare == [proc[p] EXCEPT !.pc = "prepare", !.dispatch = Dispatches(p, "required", now)]
  <1>0. IsWork(proc[p]) BY DEF Working
  <1>1. proc[p].pc = "run" /\ proc[p].kind = "begin" BY DEF CreateChallenge, At
  <1>2. tx.owner = p BY <1>1 DEF Working, Turning
  <1>3. r.answer \in {"ok", "STORE_UNAVAILABLE"} BY ChallengeAnswers
  <1>4. \/ RollsBack(p, "CHALLENGE_EXPIRED")
        \/ r.answer # "ok" /\ RollsBack(p, r.answer)
        \/ tx' = r.tx /\ base' = base
             /\ (proc' = [proc EXCEPT ![p] = prepare] \/ proc' = [proc EXCEPT ![p] = recheck])
    <2>1. proc = [q \in Clients |-> proc[q]] BY DEF Working
    <2>2. \/ RollsBack(p, "CHALLENGE_EXPIRED")
          \/ r.answer # "ok" /\ RollsBack(p, r.answer)
          \/ /\ tx' = r.tx
             /\ IF HasRequired(proc[p].effects)
                THEN proc' = [proc EXCEPT ![p].pc = "prepare",
                                          ![p].dispatch = Dispatches(p, "required", now)]
                ELSE proc' = [proc EXCEPT ![p].pc = "recheck"]
             /\ UNCHANGED <<base, queue, stored>>
      BY DEF CreateChallenge, ChallengeCall
    <2> HIDE DEF r
    <2> QED BY ONLY <2>1, <2>2, p \in Clients
  <1>5. CASE RollsBack(p, "CHALLENGE_EXPIRED")
    <2>1. "CHALLENGE_EXPIRED" \notin {None, "committed"} BY ReasonsFail DEF Reasons
    <2> QED BY <1>2, <1>5, <2>1, RollsBackStep
  <1>6. CASE r.answer # "ok" /\ RollsBack(p, r.answer)
    <2>1. r.answer \notin {None, "committed"} BY <1>3, <1>6, ReasonsFail DEF Reasons
    <2> HIDE DEF r
    <2> QED BY <1>2, <1>6, <2>1, RollsBackStep
  <1>7. IsCall(c) /\ c.op \notin WorkerOps
    <2>1. proc[p].expiresAt \in Time BY <1>0, <1>1 DEF IsWork
    <2> QED BY <2>1 DEF IsCall, ChallengeCall, StoreOps, WorkerOps
  <1>8. IsWork(recheck)
    <2>1. /\ recheck = [f \in DOMAIN Idle |-> recheck[f]] /\ recheck.pc = "recheck"
          /\ recheck.covers = proc[p].covers /\ recheck.calls = proc[p].calls
          /\ recheck.effects = proc[p].effects
      BY <1>0, IdleIs DEF IsWork, IdleFields
    <2> HIDE DEF recheck
    <2> QED BY <1>0, <2>1 DEF IsWork
  <1>9. IsWork(prepare)
    <2> DEFINE d == Dispatches(p, "required", now)
    <2>1. IsDispatch(d) BY <1>0, DispatchesIs
    <2> HIDE DEF d
    <2>2. /\ prepare = [f \in DOMAIN Idle |-> prepare[f]] /\ prepare.pc = "prepare"
          /\ prepare.covers = proc[p].covers /\ prepare.calls = proc[p].calls
          /\ prepare.effects = proc[p].effects /\ prepare.dispatch = d
      BY <1>0, IdleIs DEF IsWork, IdleFields, d
    <2> HIDE DEF prepare
    <2> QED BY <1>0, <2>1, <2>2 DEF IsWork
  <1>10. CASE tx' = r.tx /\ base' = base
                /\ (proc' = [proc EXCEPT ![p] = prepare] \/ proc' = [proc EXCEPT ![p] = recheck])
    <2> HIDE DEF c, prepare, recheck
    <2> QED BY <1>2, <1>7, <1>8, <1>9, <1>10, InsideStep
  <1> QED BY <1>4, <1>5, <1>6, <1>10

LEMMA RecheckStep ==
  ASSUME Working, NEW p \in Clients, Recheck(p)
  PROVE  IsStep(p)
  <1> DEFINE w == [proc[p] EXCEPT !.pc = "commit", !.at = now]
  <1>0. IsWork(proc[p]) BY DEF Working
  <1>1. proc[p].pc = "recheck" BY DEF Recheck, At
  <1>2. tx.owner = p BY <1>1 DEF Working, Turning
  <1>3. \/ RollsBack(p, "CHALLENGE_EXPIRED")
        \/ proc' = [proc EXCEPT ![p] = w] /\ tx' = tx /\ base' = base
    BY DEF Recheck, Working
  <1>4. "CHALLENGE_EXPIRED" \notin {None, "committed"} BY ReasonsFail DEF Reasons
  <1>5. /\ w = [f \in DOMAIN Idle |-> w[f]] /\ w.pc = "commit"
        /\ w.covers = proc[p].covers /\ w.calls = proc[p].calls /\ w.effects = proc[p].effects
    BY <1>0, IdleIs DEF IsWork, IdleFields
  <1> HIDE DEF w
  <1>6. IsWork(w) BY <1>0, <1>5 DEF IsWork
  <1>7. CASE RollsBack(p, "CHALLENGE_EXPIRED") BY <1>2, <1>4, <1>7, RollsBackStep
  <1>8. CASE proc' = [proc EXCEPT ![p] = w] /\ tx' = tx /\ base' = base
    BY <1>2, <1>6, <1>8, QuietStep
  <1> QED BY <1>3, <1>7, <1>8

LEMMA CommitStep ==
  ASSUME Working, NEW p \in Clients, Commit(p)
  PROVE  IsStep(p)
  <1> DEFINE d == Dispatches(p, "best-effort", proc[p].at)
             out == {i \in DOMAIN d.effects : Undeliverable(d.effects[i], d)}
             prepare == [proc[p] EXCEPT !.pc = "prepare", !.dispatch = d]
             send == [proc[p] EXCEPT !.pc = "send", !.dispatch = Dropped(d, out)]
  <1>0. IsWork(proc[p]) BY DEF Working
  <1>1. proc[p].pc = "commit" BY DEF Commit, At
  <1>2. tx.owner = p BY <1>1 DEF Working, Turning
  <1>3. Drop(d, LAMBDA e : Undeliverable(e, d)) = Dropped(d, out) BY DEF Drop, Dropped
  <1>4. Settles(p, Done(p)) \/ Settles(p, prepare) \/ Settles(p, send)
    BY <1>3 DEF Commit
  <1>5. IsDispatch(d) /\ d.policy = "best-effort" BY <1>0, DispatchesIs
  <1> HIDE DEF d, out
  <1>6. IsDispatch(Dropped(d, out)) /\ Dropped(d, out).policy = "best-effort" BY <1>5, DroppedIs
  <1>7. /\ prepare = [f \in DOMAIN Idle |-> prepare[f]] /\ prepare.pc = "prepare"
        /\ prepare.covers = proc[p].covers /\ prepare.calls = proc[p].calls
        /\ prepare.effects = proc[p].effects /\ prepare.dispatch = d
    BY <1>0, IdleIs DEF IsWork, IdleFields
  <1>8. /\ send = [f \in DOMAIN Idle |-> send[f]] /\ send.pc = "send"
        /\ send.covers = proc[p].covers /\ send.calls = proc[p].calls
        /\ send.effects = proc[p].effects /\ send.dispatch = Dropped(d, out)
    BY <1>0, IdleIs DEF IsWork, IdleFields
  <1> HIDE DEF prepare, send
  <1>9. IsWork(prepare) /\ ~Turning(prepare) BY <1>0, <1>5, <1>7 DEF IsWork, Turning
  <1>10. IsWork(send) /\ ~Turning(send) BY <1>0, <1>6, <1>8 DEF IsWork, Turning
  <1>11. IsWork(Done(p)) /\ ~Turning(Done(p)) BY <1>0, OverIsWork
  <1> QED BY <1>2, <1>4, <1>9, <1>10, <1>11, SettlesStep

LEMMA PrepareStep ==
  ASSUME Working, NEW p \in Clients, PrepareEffects(p)
  PROVE  IsStep(p)
  <1> DEFINE d == proc[p].dispatch
             out == {i \in DOMAIN d.effects : Unusable(d.effects[i], d, now)}
  <1>0. IsWork(proc[p]) BY DEF Working
  <1>1. proc[p].pc = "prepare" BY DEF PrepareEffects, At
  <1>2. IsDispatch(d) BY <1>0, <1>1 DEF IsWork
  <1>3. d.policy = "required" => tx.owner = p BY <1>1 DEF Working, Turning
  <1>4. Answered(p, Failure("SIDE_EFFECT_FAILED")) \/ Continues(p, "expire", Dropped(d, out))
    BY DEF PrepareEffects, Drop, Dropped
  <1>5. FinalReason(Failure("SIDE_EFFECT_FAILED")) BY DEF FinalReason, Failure, Reasons
  <1>6. IsDispatch(Dropped(d, out)) /\ Dropped(d, out).policy = d.policy BY <1>2, DroppedIs
  <1> DEFINE n == Dropped(d, out)
  <1> HIDE DEF n
  <1>7. CASE Answered(p, Failure("SIDE_EFFECT_FAILED")) BY <1>3, <1>5, <1>7, AnsweredStep
  <1>8. CASE Continues(p, "expire", n)
    <2>1. IsDispatch(n) /\ n.policy = proc[p].dispatch.policy BY <1>6 DEF n
    <2> QED BY <1>3, <1>8, <2>1, ContinuesStep
  <1> QED BY <1>4, <1>7, <1>8 DEF n

LEMMA ExpireStep ==
  ASSUME Working, NEW p \in Clients, ExpireEffects(p)
  PROVE  IsStep(p)
  <1> DEFINE d == proc[p].dispatch
             out == {i \in DOMAIN d.effects : Gone(d.effects[i], now)}
  <1>0. IsWork(proc[p]) BY DEF Working
  <1>1. proc[p].pc = "expire" BY DEF ExpireEffects, At
  <1>2. IsDispatch(d) BY <1>0, <1>1 DEF IsWork
  <1>3. d.policy = "required" => tx.owner = p BY <1>1 DEF Working, Turning
  <1>4. Answered(p, Failure("SIDE_EFFECT_FAILED")) \/ Continues(p, "enqueue", Dropped(d, out))
    BY DEF ExpireEffects, Drop, Dropped
  <1>5. FinalReason(Failure("SIDE_EFFECT_FAILED")) BY DEF FinalReason, Failure, Reasons
  <1>6. IsDispatch(Dropped(d, out)) /\ Dropped(d, out).policy = d.policy BY <1>2, DroppedIs
  <1> DEFINE n == Dropped(d, out)
  <1> HIDE DEF n
  <1>7. CASE Answered(p, Failure("SIDE_EFFECT_FAILED")) BY <1>3, <1>5, <1>7, AnsweredStep
  <1>8. CASE Continues(p, "enqueue", n)
    <2>1. IsDispatch(n) /\ n.policy = proc[p].dispatch.policy BY <1>6 DEF n
    <2> QED BY <1>3, <1>8, <2>1, ContinuesStep
  <1> QED BY <1>4, <1>7, <1>8 DEF n

LEMMA EnqueueStep ==
  ASSUME Working, NEW p \in Clients, EnqueueEffects(p)
  PROVE  IsStep(p)
  <1> DEFINE d == proc[p].dispatch
             c == EnqueueCall(d)
             inside == Calls(c)
             outside == Perform(base, c, now)
             answer == IF ~StorableBatch(d) THEN <<>>
                       ELSE IF d.policy = "required" THEN inside.answer ELSE outside.answer
             why == safeEnqueueBatch(Batch(d), answer)
             next == [d EXCEPT !.batch = Batch(d), !.answer = answer]
             w == [proc[p] EXCEPT !.pc = "acknowledge", !.dispatch = next]
  <1>0. IsWork(proc[p]) BY DEF Working
  <1>1. proc[p].pc = "enqueue" BY DEF EnqueueEffects, At
  <1>2. IsDispatch(d) BY <1>0, <1>1 DEF IsWork
  <1>3. d.policy = "required" => tx.owner = p BY <1>1 DEF Working, Turning
  <1>4. IsCall(c) /\ c.op \notin WorkerOps
    <2> DEFINE b == Batch(d)
    <2>1. DOMAIN d.prepared = 1..Len(d.prepared) /\ Len(d.prepared) \in Nat BY <1>2 DEF IsDispatch, IsList
    <2>2. b = [k \in 1..Len(d.prepared) |-> b[k]] BY <2>1 DEF Batch
    <2> HIDE DEF b
    <2>3. IsList(b) BY ONLY <2>1, <2>2, FunIsList
    <2>4. c.op = "enqueueBatch" /\ c.batch = b BY DEF EnqueueCall, b
    <2> QED BY ONLY <2>3, <2>4 DEF IsCall, StoreOps, WorkerOps
  <1>5. why # None => why \in Reasons BY DEF safeEnqueueBatch, Reasons
  <1>6. \/ why # None /\ Answered(p, Failure(why))
        \/ Answered(p, DispatchReport(AllFailed(d)))
        \/ /\ IF d.policy = "required" THEN tx' = inside.tx /\ base' = base
              ELSE tx' = Touch(outside.wrote) /\ base' = outside.db
           /\ proc' = [proc EXCEPT ![p].pc = "acknowledge", ![p].dispatch.batch = Batch(d),
                                   ![p].dispatch.answer = answer]
    BY DEF EnqueueEffects, Keeps
  <1>7. CASE why # None /\ Answered(p, Failure(why))
    <2>1. FinalReason(Failure(why)) BY <1>5, <1>7 DEF FinalReason, Failure
    <2> HIDE DEF why
    <2> QED BY <1>3, <1>7, <2>1, AnsweredStep
  <1>8. CASE Answered(p, DispatchReport(AllFailed(d)))
    <2>1. FinalReason(DispatchReport(AllFailed(d))) BY DEF FinalReason, DispatchReport, Success
    <2> QED BY <1>3, <1>8, <2>1, AnsweredStep
  <1>9. CASE /\ IF d.policy = "required" THEN tx' = inside.tx /\ base' = base
                ELSE tx' = Touch(outside.wrote) /\ base' = outside.db
             /\ proc' = [proc EXCEPT ![p].pc = "acknowledge", ![p].dispatch.batch = Batch(d),
                                     ![p].dispatch.answer = answer]
    <2> HIDE DEF answer, why
    <2>1. proc' = [proc EXCEPT ![p] = w]
      <3> DEFINE b == Batch(d)
      <3>1. proc' = [proc EXCEPT ![p].pc = "acknowledge", ![p].dispatch.batch = b,
                                 ![p].dispatch.answer = answer]
        BY ONLY <1>9
      <3>2. proc = [q \in Clients |-> proc[q]] BY DEF Working
      <3>3. proc[p] = [f \in IdleFields |-> proc[p][f]] BY <1>0, IdleIs DEF IsWork
      <3>4. d = [f \in DispatchFields |-> d[f]] BY <1>2 DEF IsDispatch
      <3>5. w = [proc[p] EXCEPT !.pc = "acknowledge", !.dispatch = [d EXCEPT !.batch = b, !.answer = answer]]
        OBVIOUS
      <3> HIDE DEF b, w
      <3> QED BY ONLY <3>1, <3>2, <3>3, <3>4, <3>5, p \in Clients DEF IdleFields
    <2>2. next.prepared = d.prepared /\ next.policy = d.policy /\ next = [f \in DispatchFields |-> next[f]]
      BY <1>2 DEF IsDispatch, DispatchFields
    <2>3. IsDispatch(next)
      <3> HIDE DEF next
      <3> QED BY <1>2, <2>2 DEF IsDispatch
    <2>4. /\ w = [f \in DOMAIN Idle |-> w[f]] /\ w.pc = "acknowledge"
          /\ w.covers = proc[p].covers /\ w.calls = proc[p].calls
          /\ w.effects = proc[p].effects /\ w.dispatch = next
      <3> HIDE DEF next
      <3> QED BY <1>0, IdleIs DEF IsWork, IdleFields
    <2> HIDE DEF w, next
    <2>5. IsWork(w) BY <1>0, <2>3, <2>4 DEF IsWork
    <2>6. CASE d.policy = "required"
      <3>1. tx' = Calls(c).tx /\ base' = base BY <1>9, <2>6
      <3>2. tx.owner = p BY <1>3, <2>6
      <3> HIDE DEF c, inside, outside
      <3> QED BY ONLY Working, p \in Clients, <1>4, <2>1, <2>5, <3>1, <3>2, InsideStep
    <2>7. CASE d.policy # "required"
      <3>1. tx' = Touch(outside.wrote) /\ base' = outside.db BY <1>9, <2>7
      <3>2. ~Turning(w) BY <2>2, <2>4, <2>7 DEF Turning
      <3> HIDE DEF c
      <3>3. CallsOutside BY ONLY <1>4, <3>1 DEF CallsOutside
      <3>4. IsTurn(tx') /\ tx'.owner = tx.owner BY <3>1, TouchIs DEF Working
      <3>5. Steps(p, w) BY <2>1, <2>5, <3>2, <3>3, <3>4 DEF Steps, Effect
      <3> QED BY <3>5 DEF IsStep
    <2> QED BY <2>6, <2>7
  <1> QED BY <1>6, <1>7, <1>8, <1>9

LEMMA AcknowledgeStep ==
  ASSUME Working, NEW p \in Clients, Acknowledge(p)
  PROVE  IsStep(p)
  <1> DEFINE d == proc[p].dispatch
  <1>1. proc[p].pc = "acknowledge" BY DEF Acknowledge, At
  <1>2. d.policy = "required" => tx.owner = p BY <1>1 DEF Working, Turning
  <1>3. PICK a \in {DispatchReport(d), Failure("STORE_UNAVAILABLE"), DispatchReport(AllFailed(d))} :
          Answered(p, a)
    BY DEF Acknowledge
  <1>4. FinalReason(a) BY DEF FinalReason, DispatchReport, Success, Failure, Reasons
  <1> QED BY <1>2, <1>3, <1>4, AnsweredStep

LEMMA ClockFailsStep ==
  ASSUME Working, NEW p \in Clients, ClockFails(p)
  PROVE  IsStep(p)
  <1> DEFINE d == proc[p].dispatch
  <1>1. proc[p].pc \in {"prepare", "expire", "acknowledge", "send"}
        /\ Answered(p, Failure("SIDE_EFFECT_FAILED"))
    BY DEF ClockFails
  <1>2. IsWork(proc[p]) BY DEF Working
  <1>3. d.policy = "required" => tx.owner = p
    <2>1. "best-effort" # "required" OBVIOUS
    <2>2. CASE proc[p].pc = "send" BY <1>2, <2>1, <2>2 DEF IsWork
    <2>3. CASE proc[p].pc # "send" BY <1>1, <2>3 DEF Working, Turning
    <2> QED BY <2>2, <2>3
  <1>4. FinalReason(Failure("SIDE_EFFECT_FAILED")) BY DEF FinalReason, Failure, Reasons
  <1> QED BY <1>1, <1>3, <1>4, AnsweredStep

LEMMA SendStep ==
  ASSUME Working, NEW p \in Clients, Send(p)
  PROVE  IsStep(p)
  <1> DEFINE d == proc[p].dispatch
             s == d.prepared
             i == NextToSend(d)
             n(accepted) == AfterSend(d, accepted)
             to(accepted) == IF accepted THEN proc[p].sends \cup {Originals(p, d.policy)[i]} ELSE proc[p].sends
             v(accepted) == [proc[p] EXCEPT !.dispatch = n(accepted), !.sends = to(accepted)]
  <1>0. IsWork(proc[p]) BY DEF Working
  <1>1. proc[p].pc = "send" /\ s # <<>> /\ tx' = tx /\ base' = base BY DEF Send, At
  <1>2. IsDispatch(d) /\ d.policy = "best-effort" BY <1>0, <1>1 DEF IsWork
  <1>3. PICK accepted \in BOOLEAN : proc' = [proc EXCEPT ![p] = v(accepted)]
    <2>1. PICK accepted \in BOOLEAN :
            proc' = [proc EXCEPT ![p].dispatch = n(accepted),
                                 ![p].sends = IF accepted THEN @ \cup {Originals(p, d.policy)[i]} ELSE @]
      BY DEF Send
    <2>2. proc = [q \in Clients |-> proc[q]] BY DEF Working
    <2>3. proc[p] = [f \in IdleFields |-> proc[p][f]] BY <1>0, IdleIs DEF IsWork
    <2> DEFINE x == n(accepted)
               y == Originals(p, d.policy)[i]
    <2>4. proc' = [proc EXCEPT ![p].dispatch = x, ![p].sends = IF accepted THEN @ \cup {y} ELSE @]
      BY ONLY <2>1
    <2>5. v(accepted) = [proc[p] EXCEPT !.dispatch = x,
                           !.sends = IF accepted THEN proc[p].sends \cup {y} ELSE proc[p].sends]
      OBVIOUS
    <2> HIDE DEF x, y, v, n, to
    <2>6. proc' = [proc EXCEPT ![p] = v(accepted)]
      BY ONLY <2>2, <2>3, <2>4, <2>5, p \in Clients DEF IdleFields
    <2> QED BY <2>6
  <1>4. IsList(Tail(s))
    <2> DEFINE T == ToSet(s)
               t == Tail(s)
    <2>1. s \in Seq(T) /\ s # <<>> BY <1>1, <1>2 DEF IsDispatch, IsList
    <2> HIDE DEF T
    <2>2. t \in Seq(T) BY ONLY <2>1
    <2> HIDE DEF t
    <2>3. t = [k \in 1..Len(t) |-> t[k]] /\ Len(t) \in Nat BY ONLY <2>2
    <2>4. IsList(t) BY ONLY <2>3, FunIsList
    <2> QED BY <2>4 DEF t
  <1> DEFINE x == n(accepted)
             w == v(accepted)
  <1>5. x.prepared = Tail(s) /\ x.policy = d.policy /\ x = [f \in DispatchFields |-> x[f]]
    BY <1>2 DEF IsDispatch, DispatchFields, AfterSend
  <1>6. /\ w = [f \in DOMAIN Idle |-> w[f]] /\ w.pc = "send"
        /\ w.covers = proc[p].covers /\ w.calls = proc[p].calls
        /\ w.effects = proc[p].effects /\ w.dispatch = x
    <2> HIDE DEF n, to
    <2> QED BY <1>0, <1>1, IdleIs DEF IsWork, IdleFields
  <1>7. proc' = [proc EXCEPT ![p] = w] BY <1>3
  <1> HIDE DEF x, w, v, n, to
  <1>8. IsDispatch(x) BY <1>4, <1>5 DEF IsDispatch
  <1>9. IsWork(w) /\ ~Turning(w) BY <1>0, <1>2, <1>5, <1>6, <1>8 DEF IsWork, Turning
  <1> QED BY <1>1, <1>7, <1>9, QuietStep

LEMMA FinishSendingStep ==
  ASSUME Working, NEW p \in Clients, FinishSending(p)
  PROVE  IsStep(p)
  <1> DEFINE d == proc[p].dispatch
  <1>1. proc[p].pc = "send" /\ Answered(p, SyncReport(d)) BY DEF FinishSending, At
  <1>2. IsWork(proc[p]) BY DEF Working
  <1>3. d.policy = "best-effort" BY <1>1, <1>2 DEF IsWork
  <1>4. FinalReason(SyncReport(d)) BY DEF FinalReason, SyncReport, Success
  <1> QED BY <1>1, <1>3, <1>4, AnsweredStep

\* Whatever happens is one of these steps.
LEMMA StepIs ==
  ASSUME Working, NEW p \in Clients, Step(p)
  PROVE  IsStep(p)
  <1>1. CASE RefuseRequest(p) \/ RefuseBegin(p) BY <1>1, RefusalsStep
  <1>2. CASE RunScript(p) BY <1>2, RunScriptStep
  <1>3. CASE BeginChallenge(p) BY <1>3, BeginChallengeStep
  <1>4. CASE TakeTurn(p) BY <1>4, TakeTurnStep
  <1>5. CASE CallStore(p) BY <1>5, CallStoreStep
  <1>6. CASE Return(p) BY <1>6, ReturnStep
  <1>7. CASE GiveUp(p) BY <1>7, GiveUpStep
  <1>8. CASE CreateChallenge(p) BY <1>8, CreateChallengeStep
  <1>9. CASE Recheck(p) BY <1>9, RecheckStep
  <1>10. CASE Commit(p) BY <1>10, CommitStep
  <1>11. CASE PrepareEffects(p) BY <1>11, PrepareStep
  <1>12. CASE ExpireEffects(p) BY <1>12, ExpireStep
  <1>13. CASE EnqueueEffects(p) BY <1>13, EnqueueStep
  <1>14. CASE Acknowledge(p) BY <1>14, AcknowledgeStep
  <1>15. CASE ClockFails(p) BY <1>15, ClockFailsStep
  <1>16. CASE Send(p) BY <1>16, SendStep
  <1>17. CASE FinishSending(p) BY <1>17, FinishSendingStep
  <1> QED
    BY <1>1, <1>2, <1>3, <1>4, <1>5, <1>6, <1>7, <1>8, <1>9, <1>10, <1>11, <1>12, <1>13, <1>14,
       <1>15, <1>16, <1>17
       DEF Step

-----------------------------------------------------------------------------
(* The invariant                                                           *)

\* What holds of the maps and of the transaction that has its turn.
Trusted == Sound(base) /\ (tx.owner # None => Turn(tx) /\ Beside(base, tx))

Invariant == now \in Time /\ Working /\ Trusted

LEMMA SceneStays ==
  ASSUME NEW p, Step(p)
  PROVE  scene' = scene /\ now' = now
  BY DEF Step, RefuseRequest, RunScript, TakeTurn, CallStore, Return, GiveUp, RefuseBegin,
         BeginChallenge, CreateChallenge, Recheck, Commit, PrepareEffects, ExpireEffects,
         EnqueueEffects, Acknowledge, ClockFails, Send, FinishSending

LEMMA WorkingStep ==
  ASSUME Working, NEW p \in Clients, IsStep(p), scene' = scene
  PROVE  Working'
  <1>1. PICK w : Steps(p, w) BY DEF IsStep
  <1>2. proc' = [proc EXCEPT ![p] = w] /\ IsWork(w) BY <1>1 DEF Steps
  <1>3. proc' = [q \in Clients |-> proc'[q]] BY <1>2 DEF Working
  <1>4. ASSUME NEW q \in Clients
        PROVE  IsWork(proc'[q]) /\ (Turning(proc'[q]) => tx'.owner = q)
    <2>1. CASE q = p
      <3>1. proc'[q] = w BY <2>1, <1>2 DEF Working
      <3> QED BY <3>1, <2>1, <1>1 DEF Steps
    <2>2. CASE q # p
      <3>1. proc'[q] = proc[q] BY <2>2, <1>2 DEF Working
      <3>2. IsWork(proc[q]) /\ (Turning(proc[q]) => tx.owner = q) BY DEF Working
      <3>3. tx'.owner = tx.owner \/ tx.owner \in {None, p} BY <1>1 DEF Steps
      <3>4. q # None BY StackAssumption
      <3> QED BY ONLY <2>2, <3>1, <3>2, <3>3, <3>4
    <2> QED BY <2>1, <2>2
  <1>5. IsTurn(tx') BY <1>1 DEF Steps
  <1> QED BY <1>3, <1>4, <1>5 DEF Working, IsWork, Turning, IsDispatch, IsTurn

\* Every effect keeps what is known of the maps and of the transaction.
LEMMA EffectTrusted ==
  ASSUME IsTurn(tx), Trusted, Effect
  PROVE  Sound(base') /\ (tx'.owner # None => Turn(tx') /\ Beside(base', tx'))
  <1>0. Sound(base) BY DEF Trusted
  <1>1. CASE tx' = tx /\ base' = base BY <1>1 DEF Trusted
  <1>2. CASE CallsOutside
    <2>1. PICK c : /\ IsCall(c) /\ base' = Perform(base, c, now).db
                   /\ tx' = Touch(Perform(base, c, now).wrote)
      BY <1>2 DEF CallsOutside
    <2>2. Sound(base') BY <1>0, <2>1, CallSound
    <2>3. CASE tx.owner = None
      <3>1. tx' = tx BY <2>1, <2>3 DEF Touch
      <3> QED BY <2>2, <2>3, <3>1
    <2>4. CASE tx.owner # None
      <3>1. Turn(tx) /\ Beside(base, tx) BY <2>4 DEF Trusted
      <3>2. Turn(tx') /\ Beside(base', tx')
        BY ONLY IsTurn(tx), <1>0, <2>1, <2>4, <3>1, TouchTurn
      <3> QED BY <2>2, <3>2
    <2> QED BY <2>3, <2>4
  <1>3. CASE CallsInside
    <2>1. PICK c : IsCall(c) /\ c.op \notin WorkerOps /\ tx' = Calls(c).tx
      BY <1>3 DEF CallsInside
    <2>2. tx.owner # None /\ base' = base BY <1>3 DEF CallsInside
    <2>3. Turn(tx) /\ Beside(base, tx) BY <2>2 DEF Trusted
    <2>4. Turn(tx') BY ONLY IsTurn(tx), <2>1, <2>3, CallTurn
    <2>5. tx'.before = tx.before /\ tx'.touched = tx.touched BY ONLY IsTurn(tx), <2>1, CallsIs
    <2>6. Beside(base', tx') BY ONLY <2>2, <2>3, <2>5 DEF Beside, Untouched
    <2> QED BY <1>0, <2>2, <2>4, <2>6
  <1>4. CASE TakesTurn
    <2>1. PICK p \in Clients, covers \in SUBSET Scopes :
            tx' = cloneState(p, base, covers) /\ base' = base
      BY <1>4 DEF TakesTurn
    <2> QED BY <1>0, <2>1, CloneTurn
  <1>5. CASE Commits
    <2>1. /\ tx.owner # None /\ base' = applyTransactionState(base, tx) /\ tx' = NoTurn
          /\ canCommitTransactionState(base, tx) /\ canCommitMemoryOutboxState(base, tx)
      BY <1>5 DEF Commits, canCommit
    <2>2. Turn(tx) /\ Beside(base, tx) BY <2>1 DEF Trusted
    <2>3. Sound(base') BY ONLY <1>0, <2>1, <2>2, CommitIs
    <2> QED BY <2>1, <2>3, NoTurnIs
  <1>6. CASE GivesUp BY <1>0, <1>6, NoTurnIs DEF GivesUp
  <1> QED BY <1>1, <1>2, <1>3, <1>4, <1>5, <1>6 DEF Effect

\* A step of any other kind is a direct call or about the clock alone.
LEMMA OthersIs ==
  ASSUME Working, Tick \/ DirectCall \/ Finished \/ UNCHANGED vars
  PROVE  scene' = scene /\ proc' = proc /\ IsTurn(tx') /\ tx'.owner = tx.owner /\ Effect
  <1>0. IsTurn(tx) BY DEF Working
  <1>1. CASE Tick \/ Finished \/ UNCHANGED vars
    <2>1. scene' = scene /\ proc' = proc /\ tx' = tx /\ base' = base
      BY <1>1 DEF Tick, Finished, vars
    <2> QED BY <1>0, <2>1 DEF Effect
  <1>2. CASE DirectCall
    <2>1. PICK c \in Scenes[scene].direct :
            /\ base' = Perform(base, c, now).db /\ tx' = Touch(Perform(base, c, now).wrote)
      BY <1>2 DEF DirectCall, Keeps
    <2>2. scene' = scene /\ proc' = proc BY <1>2 DEF DirectCall
    <2>3. IsCall(c) BY ScenesAssumption DEF Working, IsScene
    <2>4. CallsOutside BY <2>1, <2>3 DEF CallsOutside
    <2>5. IsTurn(tx') /\ tx'.owner = tx.owner BY ONLY <1>0, <2>1, TouchIs
    <2> QED BY <2>2, <2>4, <2>5 DEF Effect
  <1> QED BY <1>1, <1>2

LEMMA NextEffect ==
  ASSUME Working, [Next]_vars
  PROVE  Working' /\ Effect
  <1>1. CASE Tick \/ DirectCall \/ Finished \/ UNCHANGED vars
    <2>1. scene' = scene /\ proc' = proc /\ IsTurn(tx') /\ tx'.owner = tx.owner /\ Effect
      BY <1>1, OthersIs
    <2> QED BY <2>1 DEF Working, IsWork, Turning, IsDispatch, IsTurn
  <1>2. ASSUME NEW p \in Clients, Step(p) PROVE Working' /\ Effect
    <2>1. IsStep(p) BY <1>2, StepIs
    <2>2. Effect BY <2>1 DEF IsStep, Steps
    <2>3. scene' = scene BY <1>2, SceneStays
    <2>4. Working' BY <2>1, <2>3, WorkingStep
    <2> QED BY <2>2, <2>4
  <1> QED BY <1>1, <1>2 DEF Next

LEMMA NowStep ==
  ASSUME now \in Time, [Next]_vars
  PROVE  now' \in Time /\ now <= now'
  <1>1. CASE Tick BY <1>1, MemoryAssumption DEF Tick, Time
  <1>2. CASE DirectCall \/ Finished \/ UNCHANGED vars
    BY <1>2, MemoryAssumption DEF DirectCall, Finished, vars, Time
  <1>3. ASSUME NEW p \in Clients, Step(p) PROVE now' = now BY <1>3, SceneStays
  <1> QED BY <1>1, <1>2, <1>3, MemoryAssumption DEF Next, Time

LEMMA SeedSound ==
  ASSUME NEW s \in DOMAIN Scenes
  PROVE  Sound(Seed(Scenes[s].seed))
  <1> DEFINE calls == Scenes[s].seed
             log == [k \in DOMAIN calls |-> [call |-> calls[k], at |-> 0]]
  <1>1. IsList(calls) /\ \A k \in DOMAIN calls : IsCall(calls[k]) BY ScenesAssumption DEF IsScene
  <1> HIDE DEF calls
  <1>2. DOMAIN calls = 1..Len(calls) /\ Len(calls) \in Nat BY <1>1 DEF IsList
  <1>3. Len(log) = Len(calls) /\ \A k \in 1..Len(log) : log[k].call = calls[k] BY <1>2
  <1> HIDE DEF log
  <1>4. Len(log) \in Nat /\ \A k \in 1..Len(log) : IsCall(log[k].call) BY <1>1, <1>2, <1>3
  <1>5. \A k \in 0..Len(log) : Sound(History(createEmptyState, log)[k])
    BY ONLY <1>4, EmptySound, HistorySound
  <1>6. Len(log) \in 0..Len(log) BY <1>4
  <1>7. Seed(calls) = History(createEmptyState, log)[Len(calls)] BY DEF Seed, log
  <1> QED BY <1>3, <1>5, <1>6, <1>7 DEF calls

LEMMA InitInvariant ==
  ASSUME Init
  PROVE  Invariant
  <1>1. now \in Time BY MemoryAssumption DEF Init, Time
  <1>2. IsWork(Idle) /\ ~Turning(Idle)
    <2>1. IsList(<<>>) /\ Len(<<>>) = 0 BY DEF IsList
    <2>2. /\ Idle.pc = "idle" /\ Idle.covers = {} /\ Idle.calls = <<>> /\ Idle.effects = <<>>
          /\ Idle = [f \in DOMAIN Idle |-> Idle[f]]
      BY DEF Idle
    <2> QED BY <2>1, <2>2 DEF IsWork, Turning
  <1>3. Working BY <1>2, NoTurnIs DEF Init, Working
  <1>4. Trusted BY SeedSound, NoTurnIs DEF Init, Trusted
  <1> QED BY <1>1, <1>3, <1>4 DEF Invariant

LEMMA NextInvariant ==
  ASSUME Invariant, [Next]_vars
  PROVE  Invariant'
  <1>1. now' \in Time BY NowStep DEF Invariant
  <1>2. Working' /\ Effect BY NextEffect DEF Invariant
  <1>3. IsTurn(tx) BY DEF Invariant, Working
  <1>4. Sound(base') /\ (tx'.owner # None => Turn(tx') /\ Beside(base', tx'))
    BY <1>2, <1>3, EffectTrusted DEF Invariant
  <1> QED BY <1>1, <1>2, <1>4 DEF Invariant, Trusted, Sound, IsDb, Shaped, Indexed

-----------------------------------------------------------------------------
(* Theorems                                                                *)

\* The invariant holds of every behaviour: what the clients do keeps to the
\* shape of a step, and what the running transaction knows of its calls stays
\* true while direct calls go on beside it (run and the stores of the testkit).
THEOREM Invariance == Spec => []Invariant
  <1>1. Init => Invariant BY InitInvariant
  <1>2. Invariant /\ [Next]_vars => Invariant' BY NextInvariant
  <1> QED BY <1>1, <1>2, PTL DEF Spec

\* Every index leads to the row that has the indexed value, and every row a row
\* refers to is there, after commits, refused commits, direct writes and
\* cleanups in any order (applyTransactionState, MemoryState, MemoryOutboxState).
THEOREM IndexesHold == Spec => []IndexesAgree
  <1>1. Invariant => IndexesAgree BY DEF Invariant, Trusted, Sound, IndexesAgree
  <1> QED BY <1>1, Invariance, PTL

\* A transaction that commits is as good as one that ran alone at its commit:
\* its calls, made then on the committed maps, give the same answers and leave
\* what the commit leaves (canCommitTransactionState, applyTransactionState).
THEOREM CommitIsSerial == Spec => CommitsReplay
  <1>1. ASSUME Invariant, [Next]_vars, Committing PROVE Replays(base, tx.log, base')
    <2>1. IsTurn(tx) /\ Trusted BY <1>1 DEF Invariant, Working
    <2>2. /\ tx.owner # None /\ tx'.owner = None
          /\ proc'[tx.owner].outcome \in {None, "committed"}
      BY <1>1 DEF Committing
    <2>3. Effect BY <1>1, NextEffect DEF Invariant
    <2>4. ~(tx' = tx /\ base' = base) BY <2>2
    <2>5. ~CallsOutside
      <3> SUFFICES ASSUME NEW c, tx' = Touch(Perform(base, c, now).wrote) PROVE FALSE
        BY DEF CallsOutside
      <3> QED BY ONLY <2>1, <2>2, tx' = Touch(Perform(base, c, now).wrote), TouchIs
    <2>6. ~CallsInside
      <3> SUFFICES ASSUME NEW c, tx' = Calls(c).tx PROVE FALSE
        BY DEF CallsInside
      <3> QED BY ONLY <2>1, <2>2, tx' = Calls(c).tx, CallsIs
    <2>7. ~TakesTurn BY <2>2 DEF TakesTurn
    <2>8. ~GivesUp BY <2>2 DEF GivesUp
    <2>9. Commits BY <2>3, <2>4, <2>5, <2>6, <2>7, <2>8 DEF Effect
    <2>10. /\ canCommitTransactionState(base, tx) /\ canCommitMemoryOutboxState(base, tx)
           /\ base' = applyTransactionState(base, tx)
      BY <2>9 DEF Commits, canCommit
    <2>11. Sound(base) /\ Turn(tx) /\ Beside(base, tx) BY <2>1, <2>2 DEF Trusted
    <2> QED BY ONLY <2>10, <2>11, CommitIs
  <1>2. Invariant /\ [Next]_vars => [Committing => Replays(base, tx.log, base')]_vars
    BY <1>1
  <1> QED BY <1>2, Invariance, PTL DEF Spec, CommitsReplay

-----------------------------------------------------------------------------
(* What the core accepts of the rows                                       *)

RowMaps == {"accounts", "identities", "credentials", "sessions", "challenges"}

\* A row the core accepts, last changed at t or before.  A challenge is pending
\* while it has attempts left.
RowOk(f, row, t) ==
  /\ row.updated <= t
  /\ f = "accounts" => Core!isAccountRecord(row)
  /\ f = "identities" => Core!isIdentityRecord(row)
  /\ f = "credentials" => Core!isCredentialRecord(row)
  /\ f = "sessions" => Core!isSessionRecord(row)
  /\ f = "challenges" => /\ Core!isChallengeRecord(row)
                         /\ row.status = "pending" => row.attempts < MaxAttempts

Acceptable(db, t) == \A f \in RowMaps : \A k \in DOMAIN db[f] : RowOk(f, db[f][k], t)

\* What an operation leaves is acceptable if what it was given is.
AcceptsOn(db, t) == IsDb(db) /\ Acceptable(db, t) /\ t \in Time

LEMMA RowLater ==
  ASSUME NEW f \in RowMaps, NEW row, NEW t \in Time, NEW u \in Time, t <= u, RowOk(f, row, t)
  PROVE  RowOk(f, row, u)
  <1>1. row.updated \in Time
    BY DEF RowOk, RowMaps, Core!isAccountRecord, Core!isIdentityRecord, Core!isCredentialRecord,
           Core!isSessionRecord, Core!isChallengeRecord, Core!isDateOrder, Core!isValidDate, Time
  <1>2. row.updated <= u BY <1>1, MemoryAssumption DEF RowOk, Time
  <1> QED BY <1>2 DEF RowOk

LEMMA LaterAcceptable ==
  ASSUME NEW db, NEW t \in Time, NEW u \in Time, t <= u, Acceptable(db, t)
  PROVE  Acceptable(db, u)
  BY RowLater DEF Acceptable

LEMMA StoresAcceptable ==
  ASSUME NEW db, NEW t, AcceptsOn(db, t)
  PROVE  /\ \A a : Acceptable(Answers(db, a).db, t)
         /\ \A f \in RowMaps : \A k, v, a :
              RowOk(f, v, t) => Acceptable(Stores(db, f, k, v, a).db, t)
         /\ \A f \in RowMaps : \A g \in MapFields \ RowMaps : \A k, v, ik :
              RowOk(f, v, t) => Acceptable(StoresIndexed(db, f, k, v, g, ik).db, t)
  <1>0. RowMaps \subseteq Fields /\ MapFields \subseteq Fields BY DEF RowMaps, Fields, MapFields
  <1>1. \A a : Acceptable(Answers(db, a).db, t) BY DEF AcceptsOn, Answers
  <1>2. ASSUME NEW f \in RowMaps, NEW k, NEW v, RowOk(f, v, t)
        PROVE  /\ \A a : Acceptable(Stores(db, f, k, v, a).db, t)
               /\ \A g \in MapFields \ RowMaps : \A ik :
                    Acceptable(StoresIndexed(db, f, k, v, g, ik).db, t)
    <2> DEFINE m == Put(db[f], k, v)
    <2>1. \A x \in DOMAIN m : RowOk(f, m[x], t) BY <1>2 DEF Put, AcceptsOn, Acceptable
    <2>2. db = [x \in Fields |-> db[x]] BY DEF AcceptsOn, IsDb
    <2>3. ASSUME NEW n, n[f] = m, \A x \in RowMaps : x # f => n[x] = db[x]
          PROVE  Acceptable(n, t)
      BY <2>1, <2>3 DEF AcceptsOn, Acceptable
    <2> HIDE DEF m
    <2>4. ASSUME NEW a PROVE Acceptable(Stores(db, f, k, v, a).db, t)
      <3> DEFINE n == [db EXCEPT ![f] = m]
      <3>1. n[f] = m /\ \A x \in RowMaps : x # f => n[x] = db[x] BY ONLY <1>0, <2>2, f \in RowMaps
      <3>2. Stores(db, f, k, v, a).db = n BY DEF Stores, m
      <3> HIDE DEF n
      <3> QED BY <3>1, <3>2, <2>3
    <2>5. ASSUME NEW g \in MapFields \ RowMaps, NEW ik
          PROVE  Acceptable(StoresIndexed(db, f, k, v, g, ik).db, t)
      <3> DEFINE n == [db EXCEPT ![f] = m, ![g] = Put(@, ik, k)]
      <3>1. n[f] = m /\ \A x \in RowMaps : x # f => n[x] = db[x]
        BY ONLY <1>0, <2>2, f \in RowMaps, g \in MapFields \ RowMaps
      <3>2. StoresIndexed(db, f, k, v, g, ik).db = n BY DEF StoresIndexed, m
      <3> HIDE DEF n
      <3> QED BY <3>1, <3>2, <2>3
    <2> QED BY <2>4, <2>5
  <1> QED BY <1>1, <1>2

\* The rules of the core, for the kinds of rows and for a change of a row.
LEMMA RowRules ==
  ASSUME NEW t \in Time
  PROVE  /\ \A row : RowOk("accounts", row, t) <=> row.updated <= t /\ Core!isAccountRecord(row)
         /\ \A row : RowOk("identities", row, t) <=> row.updated <= t /\ Core!isIdentityRecord(row)
         /\ \A row : RowOk("credentials", row, t) <=> row.updated <= t /\ Core!isCredentialRecord(row)
         /\ \A row : RowOk("sessions", row, t) <=> row.updated <= t /\ Core!isSessionRecord(row)
         /\ \A row : RowOk("challenges", row, t) <=>
              /\ row.updated <= t /\ Core!isChallengeRecord(row)
              /\ row.status = "pending" => row.attempts < MaxAttempts
  BY DEF RowOk

LEMMA AccountRows ==
  ASSUME NEW t \in Time, NEW s \in {"active", "disabled", "deleted"}
  PROVE  /\ RowOk("accounts", [status |-> s, created |-> t, updated |-> t], t)
         /\ \A row : RowOk("accounts", row, t)
              => RowOk("accounts", [row EXCEPT !.status = s, !.updated = t], t)
  <1> DEFINE first == [status |-> s, created |-> t, updated |-> t]
  <1>1. first.status = s /\ first.created = t /\ first.updated = t OBVIOUS
  <1> HIDE DEF first
  <1>2. RowOk("accounts", first, t)
    BY <1>1, RowRules, MemoryAssumption
       DEF Core!isAccountRecord, Core!isDateOrder, Core!isValidDate, Time
  <1>3. ASSUME NEW row, RowOk("accounts", row, t)
        PROVE  RowOk("accounts", [row EXCEPT !.status = s, !.updated = t], t)
    <2> DEFINE new == [row EXCEPT !.status = s, !.updated = t]
    <2>0. row.updated <= t /\ Core!isAccountRecord(row) BY ONLY <1>3, t \in Time, RowRules
    <2>1. new.status = s /\ new.updated = t /\ new.created = row.created
      BY ONLY <2>0 DEF Core!isAccountRecord
    <2> HIDE DEF new
    <2>2. Core!isDateOrder(new) /\ new.updated <= t
      BY ONLY <2>0, <2>1, t \in Time, MemoryAssumption
         DEF Core!isAccountRecord, Core!isDateOrder, Core!isValidDate, Time
    <2>3. Core!isAccountRecord(new)
      BY ONLY <2>1, <2>2, s \in {"active", "disabled", "deleted"} DEF Core!isAccountRecord
    <2> QED BY ONLY <2>2, <2>3, t \in Time, RowRules DEF new
  <1> QED BY <1>2, <1>3 DEF first

\* A row that is changed at t, or made at t, has its dates in order.
LEMMA DatesKept ==
  ASSUME NEW t \in Time, NEW new, new.updated = t
  PROVE  /\ new.created = t => Core!isDateOrder(new) /\ new.updated <= t
         /\ \A row : Core!isDateOrder(row) /\ row.updated <= t /\ new.created = row.created
              => Core!isDateOrder(new) /\ new.updated <= t
  BY MemoryAssumption DEF Core!isDateOrder, Core!isValidDate, Time

LEMMA IdentityRows ==
  ASSUME NEW t \in Time
  PROVE  /\ \A a, s : RowOk("identities", [account |-> a, subject |-> s, verifiedAt |-> Never,
                                           created |-> t, updated |-> t], t)
         /\ \A row : RowOk("identities", row, t)
              => RowOk("identities", [row EXCEPT !.verifiedAt = t, !.updated = t], t)
  <1>0. Never \in 0..(Horizon + 1) /\ t \in 0..(Horizon + 1) BY MemoryAssumption DEF Never, Time
  <1>1. ASSUME NEW a, NEW s
        PROVE  RowOk("identities", [account |-> a, subject |-> s, verifiedAt |-> Never,
                                    created |-> t, updated |-> t], t)
    <2> DEFINE new == [account |-> a, subject |-> s, verifiedAt |-> Never,
                       created |-> t, updated |-> t]
    <2>1. new.verifiedAt = Never /\ new.created = t /\ new.updated = t OBVIOUS
    <2> HIDE DEF new
    <2>2. Core!isDateOrder(new) /\ new.updated <= t BY ONLY <2>1, t \in Time, DatesKept
    <2> QED BY <1>0, <2>1, <2>2, RowRules DEF Core!isIdentityRecord, Core!isOptionalDate, new
  <1>2. ASSUME NEW row, RowOk("identities", row, t)
        PROVE  RowOk("identities", [row EXCEPT !.verifiedAt = t, !.updated = t], t)
    <2> DEFINE new == [row EXCEPT !.verifiedAt = t, !.updated = t]
    <2>0. row.updated <= t /\ Core!isIdentityRecord(row) BY ONLY <1>2, t \in Time, RowRules
    <2>1. new.verifiedAt = t /\ new.updated = t /\ new.created = row.created
      BY ONLY <2>0 DEF Core!isIdentityRecord
    <2> HIDE DEF new
    <2>2. Core!isDateOrder(new) /\ new.updated <= t
      BY ONLY <2>0, <2>1, t \in Time, DatesKept DEF Core!isIdentityRecord
    <2> QED BY <1>0, <2>1, <2>2, RowRules DEF Core!isIdentityRecord, Core!isOptionalDate, new
  <1> QED BY <1>1, <1>2

LEMMA CredentialRows ==
  ASSUME NEW t \in Time
  PROVE  /\ \A a, i : RowOk("credentials", [account |-> a, identity |-> i, status |-> "active",
                                            version |-> 1, created |-> t, updated |-> t], t)
         /\ \A row : RowOk("credentials", row, t)
              => /\ RowOk("credentials", [row EXCEPT !.version = @ + 1, !.updated = t], t)
                 /\ \A s \in {"active", "disabled"} :
                      RowOk("credentials", [[row EXCEPT !.status = s]
                                               EXCEPT !.version = @ + 1, !.updated = t], t)
  <1>1. ASSUME NEW a, NEW i
        PROVE  RowOk("credentials", [account |-> a, identity |-> i, status |-> "active",
                                     version |-> 1, created |-> t, updated |-> t], t)
    <2> DEFINE new == [account |-> a, identity |-> i, status |-> "active",
                       version |-> 1, created |-> t, updated |-> t]
    <2>1. new.status = "active" /\ new.version = 1 /\ new.created = t /\ new.updated = t OBVIOUS
    <2> HIDE DEF new
    <2>2. Core!isDateOrder(new) /\ new.updated <= t BY ONLY <2>1, t \in Time, DatesKept
    <2> QED BY <2>1, <2>2, RowRules DEF Core!isCredentialRecord, Core!isPositiveInteger, new
  <1>2. ASSUME NEW row, RowOk("credentials", row, t)
        PROVE  /\ RowOk("credentials", [row EXCEPT !.version = @ + 1, !.updated = t], t)
               /\ \A s \in {"active", "disabled"} :
                    RowOk("credentials", [[row EXCEPT !.status = s]
                                             EXCEPT !.version = @ + 1, !.updated = t], t)
    <2>0. row.updated <= t /\ Core!isCredentialRecord(row) BY ONLY <1>2, t \in Time, RowRules
    <2>1. ASSUME NEW new, new.status \in {"active", "disabled"}, new.version = row.version + 1,
                 new.created = row.created, new.updated = t
          PROVE  RowOk("credentials", new, t)
      <3>1. Core!isDateOrder(new) /\ new.updated <= t
        BY ONLY <2>0, <2>1, t \in Time, DatesKept DEF Core!isCredentialRecord
      <3>2. new.version \in Nat \ {0}
        BY ONLY <2>0, <2>1 DEF Core!isCredentialRecord, Core!isPositiveInteger
      <3> QED BY <2>1, <3>1, <3>2, RowRules DEF Core!isCredentialRecord, Core!isPositiveInteger
    <2>2. RowOk("credentials", [row EXCEPT !.version = @ + 1, !.updated = t], t)
      <3> DEFINE new == [row EXCEPT !.version = @ + 1, !.updated = t]
      <3>1. /\ new.status = row.status /\ new.version = row.version + 1
            /\ new.created = row.created /\ new.updated = t
        BY ONLY <2>0 DEF Core!isCredentialRecord
      <3>2. row.status \in {"active", "disabled"} BY <2>0 DEF Core!isCredentialRecord
      <3> HIDE DEF new
      <3>3. RowOk("credentials", new, t) BY ONLY <3>1, <3>2, <2>1
      <3> QED BY ONLY <3>3 DEF new
    <2>3. ASSUME NEW s \in {"active", "disabled"}
          PROVE  RowOk("credentials", [[row EXCEPT !.status = s]
                                          EXCEPT !.version = @ + 1, !.updated = t], t)
      <3> DEFINE new == [[row EXCEPT !.status = s] EXCEPT !.version = @ + 1, !.updated = t]
      <3>1. /\ new.status = s /\ new.version = row.version + 1
            /\ new.created = row.created /\ new.updated = t
        BY ONLY <2>0 DEF Core!isCredentialRecord
      <3> HIDE DEF new
      <3>2. RowOk("credentials", new, t) BY ONLY <2>3, <3>1, <2>1
      <3> QED BY ONLY <3>2 DEF new
    <2> QED BY <2>2, <2>3
  <1> QED BY <1>1, <1>2

LEMMA SessionRows ==
  ASSUME NEW t \in Time
  PROVE  /\ \A a, k : \A e \in Time : e > t
              => RowOk("sessions", [account |-> a, token |-> k, status |-> "active", issuedAt |-> t,
                         expiresAt |-> e, revokedAt |-> Never, created |-> t, updated |-> t], t)
         /\ \A row : RowOk("sessions", row, t)
              => /\ RowOk("sessions", [row EXCEPT !.status = "revoked", !.revokedAt = t,
                                                  !.updated = t], t)
                 /\ RowOk("sessions", [[row EXCEPT !.updated = t] EXCEPT !.status = "expired"], t)
  <1>0. Never \in 0..(Horizon + 1) /\ t \in 0..(Horizon + 1) BY MemoryAssumption DEF Never, Time
  <1>1. ASSUME NEW a, NEW k, NEW e \in Time, e > t
        PROVE  RowOk("sessions", [account |-> a, token |-> k, status |-> "active", issuedAt |-> t,
                         expiresAt |-> e, revokedAt |-> Never, created |-> t, updated |-> t], t)
    <2> DEFINE new == [account |-> a, token |-> k, status |-> "active", issuedAt |-> t,
                       expiresAt |-> e, revokedAt |-> Never, created |-> t, updated |-> t]
    <2>1. /\ new.status = "active" /\ new.issuedAt = t /\ new.expiresAt = e
          /\ new.revokedAt = Never /\ new.created = t /\ new.updated = t
      OBVIOUS
    <2> HIDE DEF new
    <2>2. Core!isDateOrder(new) /\ new.updated <= t BY ONLY <2>1, t \in Time, DatesKept
    <2>3. t \in 0..Horizon /\ e \in 0..Horizon /\ t <= e BY <1>1, MemoryAssumption DEF Time
    <2>4. Core!isSessionRecord(new)
      BY ONLY <1>0, <2>1, <2>2, <2>3 DEF Core!isSessionRecord, Core!isOptionalDate, Core!isValidDate
    <2> QED BY <2>2, <2>4, RowRules DEF new
  <1>2. ASSUME NEW row, RowOk("sessions", row, t)
        PROVE  /\ RowOk("sessions", [row EXCEPT !.status = "revoked", !.revokedAt = t,
                                                !.updated = t], t)
               /\ RowOk("sessions", [[row EXCEPT !.updated = t] EXCEPT !.status = "expired"], t)
    <2>0. row.updated <= t /\ Core!isSessionRecord(row) BY ONLY <1>2, t \in Time, RowRules
    <2>1. ASSUME NEW new, new.status \in {"revoked", "expired"},
                 new.revokedAt \in {t, row.revokedAt},
                 new.issuedAt = row.issuedAt, new.expiresAt = row.expiresAt,
                 new.created = row.created, new.updated = t
          PROVE  RowOk("sessions", new, t)
      <3>1. Core!isDateOrder(new) /\ new.updated <= t
        BY ONLY <2>0, <2>1, t \in Time, DatesKept DEF Core!isSessionRecord
      <3>2. Core!isSessionRecord(new)
        BY ONLY <1>0, <2>0, <2>1, <3>1
           DEF Core!isSessionRecord, Core!isOptionalDate, Core!isValidDate
      <3> QED BY <3>1, <3>2, RowRules
    <2>2. RowOk("sessions", [row EXCEPT !.status = "revoked", !.revokedAt = t, !.updated = t], t)
      <3> DEFINE new == [row EXCEPT !.status = "revoked", !.revokedAt = t, !.updated = t]
      <3>1. /\ new.status = "revoked" /\ new.revokedAt = t /\ new.issuedAt = row.issuedAt
            /\ new.expiresAt = row.expiresAt /\ new.created = row.created /\ new.updated = t
        BY ONLY <2>0 DEF Core!isSessionRecord
      <3> HIDE DEF new
      <3>2. RowOk("sessions", new, t) BY ONLY <3>1, <2>1
      <3> QED BY ONLY <3>2 DEF new
    <2>3. RowOk("sessions", [[row EXCEPT !.updated = t] EXCEPT !.status = "expired"], t)
      <3> DEFINE new == [[row EXCEPT !.updated = t] EXCEPT !.status = "expired"]
      <3>1. /\ new.status = "expired" /\ new.revokedAt = row.revokedAt
            /\ new.issuedAt = row.issuedAt /\ new.expiresAt = row.expiresAt
            /\ new.created = row.created /\ new.updated = t
        BY ONLY <2>0 DEF Core!isSessionRecord
      <3> HIDE DEF new
      <3>2. RowOk("sessions", new, t) BY ONLY <3>1, <2>1
      <3> QED BY ONLY <3>2 DEF new
    <2> QED BY <2>2, <2>3
  <1> QED BY <1>1, <1>2

LEMMA ChallengeMoves ==
  ASSUME NEW t \in Time, NEW row, RowOk("challenges", row, t), NEW new,
         new.status \in {"pending", "consumed", "expired", "failed"},
         new.attempts \in Nat, new.attempts <= MaxAttempts,
         new.status = "pending" => new.attempts < MaxAttempts,
         new.version = row.version + 1, new.expiresAt = row.expiresAt,
         new.consumedAt \in {t, row.consumedAt}, new.created = row.created, new.updated = t
  PROVE  RowOk("challenges", new, t)
  <1>0. t \in 0..(Horizon + 1) BY MemoryAssumption DEF Time
  <1>1. row.updated <= t /\ Core!isChallengeRecord(row) BY RowRules
  <1>2. Core!isDateOrder(new) /\ new.updated <= t
    BY ONLY <1>1, t \in Time, new.created = row.created, new.updated = t, DatesKept
       DEF Core!isChallengeRecord
  <1>3. new.version \in Nat \ {0}
    BY ONLY <1>1, new.version = row.version + 1 DEF Core!isChallengeRecord, Core!isPositiveInteger
  <1>4. Core!isValidDate(new.expiresAt) /\ Core!isOptionalDate(new.consumedAt)
    BY <1>0, <1>1 DEF Core!isChallengeRecord, Core!isOptionalDate
  <1>5. Core!isChallengeRecord(new)
    BY <1>2, <1>3, <1>4
       DEF Core!isChallengeRecord, Core!isPositiveInteger, Core!isNonNegativeInteger
  <1> QED BY <1>2, <1>5, RowRules

LEMMA ChallengeRows ==
  ASSUME NEW t \in Time
  PROVE  /\ \A e \in Time :
              RowOk("challenges", [status |-> "pending", attempts |-> 0, version |-> 1,
                expiresAt |-> e, consumedAt |-> Never, created |-> t, updated |-> t], t)
         /\ \A row : RowOk("challenges", row, t) =>
              /\ RowOk("challenges", Aged([row EXCEPT !.status = "expired"], t), t)
              /\ RowOk("challenges", [Aged(row, t) EXCEPT !.status = "expired"], t)
              /\ RowOk("challenges", Aged([row EXCEPT !.status = "consumed", !.consumedAt = t], t), t)
              /\ row.attempts < MaxAttempts =>
                   RowOk("challenges",
                         Aged([row EXCEPT !.attempts = @ + 1, !.status = "failed"], t), t)
              /\ row.attempts + 1 < MaxAttempts =>
                   RowOk("challenges", Aged([row EXCEPT !.attempts = @ + 1], t), t)
  <1>1. ASSUME NEW e \in Time
        PROVE  RowOk("challenges", [status |-> "pending", attempts |-> 0, version |-> 1,
                 expiresAt |-> e, consumedAt |-> Never, created |-> t, updated |-> t], t)
    <2> DEFINE new == [status |-> "pending", attempts |-> 0, version |-> 1,
                 expiresAt |-> e, consumedAt |-> Never, created |-> t, updated |-> t]
    <2>1. /\ new.status = "pending" /\ new.attempts = 0 /\ new.version = 1 /\ new.expiresAt = e
          /\ new.consumedAt = Never /\ new.created = t /\ new.updated = t
      OBVIOUS
    <2> HIDE DEF new
    <2>2. Core!isDateOrder(new) /\ new.updated <= t BY ONLY <2>1, t \in Time, DatesKept
    <2>3. /\ Core!isValidDate(new.expiresAt) /\ Core!isOptionalDate(new.consumedAt)
          /\ new.attempts \in Nat /\ new.attempts < MaxAttempts /\ new.attempts <= MaxAttempts
          /\ new.version \in Nat \ {0}
      BY <2>1, MemoryAssumption DEF Core!isValidDate, Core!isOptionalDate, Never, Time
    <2>4. Core!isChallengeRecord(new)
      BY ONLY <2>1, <2>2, <2>3
         DEF Core!isChallengeRecord, Core!isPositiveInteger, Core!isNonNegativeInteger
    <2>5. RowOk("challenges", new, t) BY <2>2, <2>3, <2>4, RowRules
    <2> QED BY ONLY <2>5 DEF new
  <1>2. ASSUME NEW row, RowOk("challenges", row, t)
        PROVE  /\ RowOk("challenges", Aged([row EXCEPT !.status = "expired"], t), t)
               /\ RowOk("challenges", [Aged(row, t) EXCEPT !.status = "expired"], t)
               /\ RowOk("challenges", Aged([row EXCEPT !.status = "consumed", !.consumedAt = t], t), t)
               /\ row.attempts < MaxAttempts =>
                    RowOk("challenges",
                          Aged([row EXCEPT !.attempts = @ + 1, !.status = "failed"], t), t)
               /\ row.attempts + 1 < MaxAttempts =>
                    RowOk("challenges", Aged([row EXCEPT !.attempts = @ + 1], t), t)
    <2>0. Core!isChallengeRecord(row) /\ (row.status = "pending" => row.attempts < MaxAttempts)
      BY ONLY <1>2, t \in Time, RowRules
    <2>1. /\ row.status \in {"pending", "consumed", "expired", "failed"}
          /\ row.attempts \in Nat /\ row.attempts <= MaxAttempts
      BY ONLY <2>0 DEF Core!isChallengeRecord, Core!isNonNegativeInteger
    <2> DEFINE Moved(new, status, attempts, consumedAt) ==
          /\ new.status = status /\ new.attempts = attempts /\ new.version = row.version + 1
          /\ new.expiresAt = row.expiresAt /\ new.consumedAt = consumedAt
          /\ new.created = row.created /\ new.updated = t
    <2>2. ASSUME NEW new, NEW status \in {"consumed", "expired"}, NEW at \in {t, row.consumedAt},
                 Moved(new, status, row.attempts, at)
          PROVE  RowOk("challenges", new, t)
      BY ONLY <1>2, <2>1, <2>2, t \in Time, ChallengeMoves
    <2>3. ASSUME NEW new, NEW status \in {"pending", "consumed", "expired", "failed"},
                 row.attempts < MaxAttempts,
                 status = "pending" => row.attempts + 1 < MaxAttempts,
                 Moved(new, status, row.attempts + 1, row.consumedAt)
          PROVE  RowOk("challenges", new, t)
      <3>1. row.attempts + 1 \in Nat /\ row.attempts + 1 <= MaxAttempts
        BY ONLY <2>1, <2>3, MemoryAssumption
      <3> QED BY ONLY <1>2, <3>1, <2>3, t \in Time, ChallengeMoves
    <2> DEFINE expired == Aged([row EXCEPT !.status = "expired"], t)
               swept == [Aged(row, t) EXCEPT !.status = "expired"]
               consumed == Aged([row EXCEPT !.status = "consumed", !.consumedAt = t], t)
               failing == Aged([row EXCEPT !.attempts = @ + 1, !.status = "failed"], t)
               counted == Aged([row EXCEPT !.attempts = @ + 1], t)
    <2>4. Moved(expired, "expired", row.attempts, row.consumedAt)
      BY ONLY <2>0 DEF Aged, Core!isChallengeRecord
    <2>5. Moved(swept, "expired", row.attempts, row.consumedAt)
      BY ONLY <2>0 DEF Aged, Core!isChallengeRecord
    <2>6. Moved(consumed, "consumed", row.attempts, t)
      BY ONLY <2>0 DEF Aged, Core!isChallengeRecord
    <2>7. Moved(failing, "failed", row.attempts + 1, row.consumedAt)
      BY ONLY <2>0 DEF Aged, Core!isChallengeRecord
    <2>8. Moved(counted, row.status, row.attempts + 1, row.consumedAt)
      BY ONLY <2>0 DEF Aged, Core!isChallengeRecord
    <2> HIDE DEF Moved, expired, swept, consumed, failing, counted
    <2>9. /\ RowOk("challenges", expired, t) /\ RowOk("challenges", swept, t)
          /\ RowOk("challenges", consumed, t)
      BY ONLY <2>2, <2>4, <2>5, <2>6
    <2>10. row.attempts < MaxAttempts => RowOk("challenges", failing, t)
      BY ONLY <2>3, <2>7
    <2>11. row.attempts + 1 < MaxAttempts => RowOk("challenges", counted, t)
      <3> SUFFICES ASSUME row.attempts + 1 < MaxAttempts PROVE RowOk("challenges", counted, t)
        OBVIOUS
      <3>1. row.attempts < MaxAttempts BY ONLY <2>1, row.attempts + 1 < MaxAttempts, MemoryAssumption
      <3> QED BY ONLY <2>1, <2>3, <2>8, <3>1, row.attempts + 1 < MaxAttempts
    <2> QED BY <2>9, <2>10, <2>11 DEF expired, swept, consumed, failing, counted
  <1> QED BY <1>1, <1>2

-----------------------------------------------------------------------------
(* Calls and logs of calls keep the rows acceptable                        *)

\* An operation that answers without a change, or puts one good row.
LEMMA AccountCallsAccept ==
  ASSUME NEW db, NEW t, AcceptsOn(db, t), NEW c
  PROVE  /\ Acceptable(createAccount(db, c, t).db, t)
         /\ Acceptable(findAccount(db, c, t).db, t)
         /\ Acceptable(updateAccountStatus(db, c, t).db, t)
  <1>1. \A a : Acceptable(Answers(db, a).db, t) BY StoresAcceptable
  <1>2. \A k, v, a : RowOk("accounts", v, t) => Acceptable(Stores(db, "accounts", k, v, a).db, t)
    BY StoresAcceptable DEF RowMaps
  <1>3. t \in Time BY DEF AcceptsOn
  <1>4. \A k \in DOMAIN db.accounts : RowOk("accounts", db.accounts[k], t)
    BY DEF AcceptsOn, Acceptable, RowMaps
  <1>5. Acceptable(createAccount(db, c, t).db, t)
    <2> DEFINE row == [status |-> c.status, created |-> t, updated |-> t]
    <2>1. isAccountRecord(row) => RowOk("accounts", row, t)
      <3>1. isAccountRecord(row) => c.status \in {"active", "disabled", "deleted"}
        BY DEF isAccountRecord
      <3> QED BY ONLY <3>1, <1>3, AccountRows
    <2> HIDE DEF row
    <2> QED BY ONLY <1>1, <1>2, <2>1 DEF createAccount, row
  <1>6. Acceptable(findAccount(db, c, t).db, t) BY ONLY <1>1 DEF findAccount
  <1>7. Acceptable(updateAccountStatus(db, c, t).db, t)
    <2> DEFINE row == db.accounts[c.account]
    <2>1. Has(db.accounts, c.account) => RowOk("accounts", row, t) BY <1>4 DEF Has
    <2> HIDE DEF row
    <2>2. canTransitionAccountStatus(row.status, c.status) => c.status \in {"active", "disabled", "deleted"}
      BY DEF canTransitionAccountStatus
    <2>3. RowOk("accounts", row, t) /\ canTransitionAccountStatus(row.status, c.status)
            => RowOk("accounts", [row EXCEPT !.status = c.status, !.updated = t], t)
      BY ONLY <2>2, <1>3, AccountRows
    <2> QED BY ONLY <1>1, <1>2, <2>1, <2>3 DEF updateAccountStatus, row
  <1> QED BY <1>5, <1>6, <1>7

LEMMA IdentityCallsAccept ==
  ASSUME NEW db, NEW t, AcceptsOn(db, t), NEW c
  PROVE  /\ Acceptable(createIdentity(db, c, t).db, t)
         /\ Acceptable(findBySubject(db, c, t).db, t)
         /\ Acceptable(markVerified(db, c, t).db, t)
  <1>1. \A a : Acceptable(Answers(db, a).db, t) BY StoresAcceptable
  <1>2. \A k, v, a : RowOk("identities", v, t) => Acceptable(Stores(db, "identities", k, v, a).db, t)
    BY StoresAcceptable DEF RowMaps
  <1>3. \A k, v, ik : RowOk("identities", v, t)
          => Acceptable(StoresIndexed(db, "identities", k, v, "subjects", ik).db, t)
    BY StoresAcceptable DEF RowMaps, MapFields
  <1>4. t \in Time BY DEF AcceptsOn
  <1>5. \A k \in DOMAIN db.identities : RowOk("identities", db.identities[k], t)
    BY DEF AcceptsOn, Acceptable, RowMaps
  <1>6. Acceptable(createIdentity(db, c, t).db, t)
    <2> DEFINE row == [account |-> c.account, subject |-> c.subject, verifiedAt |-> Never,
                       created |-> t, updated |-> t]
    <2>1. RowOk("identities", row, t) BY ONLY <1>4, IdentityRows
    <2> HIDE DEF row
    <2> QED BY ONLY <1>1, <1>3, <2>1 DEF createIdentity, row
  <1>7. Acceptable(findBySubject(db, c, t).db, t) BY ONLY <1>1 DEF findBySubject
  <1>8. Acceptable(markVerified(db, c, t).db, t)
    <2> DEFINE row == db.identities[c.identity]
    <2>1. Has(db.identities, c.identity) => RowOk("identities", row, t) BY <1>5 DEF Has
    <2> HIDE DEF row
    <2>2. RowOk("identities", row, t)
            => RowOk("identities", [row EXCEPT !.verifiedAt = t, !.updated = t], t)
      BY ONLY <1>4, IdentityRows
    <2> QED BY ONLY <1>1, <1>2, <2>1, <2>2 DEF markVerified, row
  <1> QED BY <1>6, <1>7, <1>8

LEMMA CredentialCallsAccept ==
  ASSUME NEW db, NEW t, AcceptsOn(db, t), NEW c
  PROVE  /\ Acceptable(createCredential(db, c, t).db, t)
         /\ Acceptable(findForIdentity(db, c, t).db, t)
         /\ Acceptable(replaceMaterial(db, c, t).db, t)
         /\ Acceptable(updateCredentialStatus(db, c, t).db, t)
  <1>1. \A a : Acceptable(Answers(db, a).db, t) BY StoresAcceptable
  <1>2. \A k, v, a : RowOk("credentials", v, t) => Acceptable(Stores(db, "credentials", k, v, a).db, t)
    BY StoresAcceptable DEF RowMaps
  <1>3. \A k, v, ik : RowOk("credentials", v, t)
          => Acceptable(StoresIndexed(db, "credentials", k, v, "byIdentity", ik).db, t)
    BY StoresAcceptable DEF RowMaps, MapFields
  <1>4. t \in Time BY DEF AcceptsOn
  <1>5. \A k \in DOMAIN db.credentials : RowOk("credentials", db.credentials[k], t)
    BY DEF AcceptsOn, Acceptable, RowMaps
  <1>6. Acceptable(createCredential(db, c, t).db, t)
    <2> DEFINE row == [account |-> c.account, identity |-> c.identity, status |-> "active",
                       version |-> 1, created |-> t, updated |-> t]
    <2>1. RowOk("credentials", row, t) BY ONLY <1>4, CredentialRows
    <2> HIDE DEF row
    <2> QED BY ONLY <1>1, <1>3, <2>1 DEF createCredential, row
  <1>7. Acceptable(findForIdentity(db, c, t).db, t) BY ONLY <1>1 DEF findForIdentity
  <1> DEFINE row == db.credentials[c.credential]
  <1>8. Has(db.credentials, c.credential) => RowOk("credentials", row, t) BY <1>5 DEF Has
  <1> HIDE DEF row
  <1>9. Acceptable(replaceMaterial(db, c, t).db, t)
    <2>1. RowOk("credentials", row, t)
            => RowOk("credentials", [row EXCEPT !.version = @ + 1, !.updated = t], t)
      BY ONLY <1>4, CredentialRows
    <2> QED BY ONLY <1>1, <1>2, <1>8, <2>1 DEF replaceMaterial, Versioned, row
  <1>10. Acceptable(updateCredentialStatus(db, c, t).db, t)
    <2> DEFINE new == [[row EXCEPT !.status = c.status] EXCEPT !.version = @ + 1, !.updated = t]
    <2>1. canTransitionCredentialStatus(row.status, c.status) => c.status \in {"active", "disabled"}
      BY DEF canTransitionCredentialStatus
    <2>2. RowOk("credentials", row, t) /\ canTransitionCredentialStatus(row.status, c.status)
            => RowOk("credentials", new, t)
      BY ONLY <2>1, <1>4, CredentialRows
    <2> QED BY ONLY <1>1, <1>2, <1>8, <2>2 DEF updateCredentialStatus, Versioned, row
  <1> QED BY <1>6, <1>7, <1>9, <1>10

LEMMA SessionCallsAccept ==
  ASSUME NEW db, NEW t, AcceptsOn(db, t), NEW c
  PROVE  /\ c.expiresAt \in Time => Acceptable(createSession(db, c, t).db, t)
         /\ Acceptable(findByTokenHash(db, c, t).db, t)
         /\ Acceptable(revoke(db, c, t).db, t)
  <1>1. \A a : Acceptable(Answers(db, a).db, t) BY StoresAcceptable
  <1>2. \A k, v, a : RowOk("sessions", v, t) => Acceptable(Stores(db, "sessions", k, v, a).db, t)
    BY StoresAcceptable DEF RowMaps
  <1>3. \A k, v, ik : RowOk("sessions", v, t)
          => Acceptable(StoresIndexed(db, "sessions", k, v, "byToken", ik).db, t)
    BY StoresAcceptable DEF RowMaps, MapFields
  <1>4. t \in Time BY DEF AcceptsOn
  <1>5. \A k \in DOMAIN db.sessions : RowOk("sessions", db.sessions[k], t)
    BY DEF AcceptsOn, Acceptable, RowMaps
  <1>6. c.expiresAt \in Time => Acceptable(createSession(db, c, t).db, t)
    <2> DEFINE row == [account |-> c.account, token |-> c.token, status |-> "active",
                       issuedAt |-> t, expiresAt |-> c.expiresAt, revokedAt |-> Never,
                       created |-> t, updated |-> t]
    <2>1. isSessionRecord(row) => c.expiresAt > t BY DEF isSessionRecord
    <2>2. c.expiresAt \in Time /\ c.expiresAt > t => RowOk("sessions", row, t)
      BY ONLY <1>4, SessionRows
    <2> HIDE DEF row
    <2> QED BY ONLY <1>1, <1>3, <2>1, <2>2 DEF createSession, row
  <1>7. Acceptable(findByTokenHash(db, c, t).db, t) BY ONLY <1>1 DEF findByTokenHash
  <1>8. Acceptable(revoke(db, c, t).db, t)
    <2> DEFINE row == db.sessions[c.session]
    <2>1. Has(db.sessions, c.session) => RowOk("sessions", row, t) BY <1>5 DEF Has
    <2> HIDE DEF row
    <2>2. RowOk("sessions", row, t)
            => RowOk("sessions", [row EXCEPT !.status = "revoked", !.revokedAt = t, !.updated = t], t)
      BY ONLY <1>4, SessionRows
    <2> QED BY ONLY <1>1, <1>2, <2>1, <2>2 DEF revoke, row
  <1> QED BY <1>6, <1>7, <1>8

LEMMA ChallengeCallsAccept ==
  ASSUME NEW db, NEW t, AcceptsOn(db, t), NEW c
  PROVE  /\ c.expiresAt \in Time => Acceptable(createChallenge(db, c, t).db, t)
         /\ Acceptable(findChallenge(db, c, t).db, t)
         /\ Acceptable(recordFailedAttempt(db, c, t).db, t)
         /\ Acceptable(consumePending(db, c, t).db, t)
  <1>1. \A a : Acceptable(Answers(db, a).db, t) BY StoresAcceptable
  <1>2. \A k, v, a : RowOk("challenges", v, t) => Acceptable(Stores(db, "challenges", k, v, a).db, t)
    BY StoresAcceptable DEF RowMaps
  <1>3. t \in Time BY DEF AcceptsOn
  <1>4. c.expiresAt \in Time => Acceptable(createChallenge(db, c, t).db, t)
    <2> DEFINE row == [status |-> "pending", attempts |-> 0, version |-> 1,
                       expiresAt |-> c.expiresAt, consumedAt |-> Never,
                       created |-> t, updated |-> t]
    <2>1. c.expiresAt \in Time => RowOk("challenges", row, t) BY ONLY <1>3, ChallengeRows
    <2> HIDE DEF row
    <2> QED BY ONLY <1>1, <1>2, <2>1 DEF createChallenge, row
  <1>5. Acceptable(findChallenge(db, c, t).db, t) BY ONLY <1>1 DEF findChallenge
  <1> DEFINE row == db.challenges[c.challenge]
             expired == Aged([row EXCEPT !.status = "expired"], t)
             consumed == Aged([row EXCEPT !.status = "consumed", !.consumedAt = t], t)
             failing == Aged([row EXCEPT !.attempts = @ + 1, !.status = "failed"], t)
             counted == Aged([row EXCEPT !.attempts = @ + 1], t)
  <1>6. Has(db.challenges, c.challenge) => RowOk("challenges", row, t)
    BY DEF AcceptsOn, Acceptable, RowMaps, Has
  <1> HIDE DEF row
  <1>7. RowOk("challenges", row, t) =>
          /\ RowOk("challenges", expired, t) /\ RowOk("challenges", consumed, t)
          /\ row.attempts < MaxAttempts => RowOk("challenges", failing, t)
          /\ row.attempts + 1 < MaxAttempts => RowOk("challenges", counted, t)
    BY ONLY <1>3, ChallengeRows
  <1>8. RowOk("challenges", row, t) => row.attempts \in Nat
    BY ONLY <1>3, RowRules DEF Core!isChallengeRecord, Core!isNonNegativeInteger
  <1> HIDE DEF expired, consumed, failing, counted
  <1>9. MaxAttempts \in Nat BY MemoryAssumption
  <1>10. Acceptable(recordFailedAttempt(db, c, t).db, t)
    <2>1. CASE ~Has(db.challenges, c.challenge) BY ONLY <1>1, <2>1 DEF recordFailedAttempt
    <2>2. CASE Has(db.challenges, c.challenge)
      <3>1. \A a : /\ Acceptable(Moves(db, c, [row EXCEPT !.status = "expired"], t, a).db, t)
                   /\ row.attempts < MaxAttempts => Acceptable(Moves(db, c,
                        [row EXCEPT !.attempts = @ + 1, !.status = "failed"], t, a).db, t)
                   /\ row.attempts + 1 < MaxAttempts => Acceptable(Moves(db, c,
                        [row EXCEPT !.attempts = @ + 1], t, a).db, t)
        BY ONLY <1>2, <1>6, <1>7, <2>2 DEF Moves, expired, failing, counted
      <3>2. row.attempts \in Nat BY ONLY <1>6, <1>8, <2>2
      <3>3. (~(row.attempts >= MaxAttempts) => row.attempts < MaxAttempts)
            /\ (~(row.attempts + 1 >= MaxAttempts) => row.attempts + 1 < MaxAttempts)
        BY ONLY <3>2, <1>9
      <3> QED BY ONLY <1>1, <2>2, <3>1, <3>3 DEF recordFailedAttempt, row
    <2> QED BY <2>1, <2>2
  <1>11. Acceptable(consumePending(db, c, t).db, t)
    <2>1. CASE ~Has(db.challenges, c.challenge) BY ONLY <1>1, <2>1 DEF consumePending
    <2>2. CASE Has(db.challenges, c.challenge)
      <3>1. \A a : /\ Acceptable(Moves(db, c, [row EXCEPT !.status = "expired"], t, a).db, t)
                   /\ Acceptable(Moves(db, c,
                        [row EXCEPT !.status = "consumed", !.consumedAt = t], t, a).db, t)
        BY ONLY <1>2, <1>6, <1>7, <2>2 DEF Moves, expired, consumed
      <3> QED BY ONLY <1>1, <2>2, <3>1 DEF consumePending, row
    <2> QED BY <2>1, <2>2
  <1> QED BY <1>4, <1>5, <1>10, <1>11

\* A cleanup changes the rows that are due.
LEMMA CleanupsAccept ==
  ASSUME NEW db, NEW t, AcceptsOn(db, t), NEW c
  PROVE  /\ Acceptable(cleanupExpiredSessions(db, c, t).db, t)
         /\ Acceptable(cleanupExpiredChallenges(db, c, t).db, t)
  <1>0. t \in Time /\ db = [x \in Fields |-> db[x]] BY DEF AcceptsOn, IsDb
  <1>1. RowMaps \subseteq Fields BY DEF RowMaps, Fields, MapFields
  <1>2. ASSUME NEW f \in RowMaps, NEW new, \A k \in DOMAIN new : RowOk(f, new[k], t)
        PROVE  Acceptable([db EXCEPT ![f] = Over(new, db[f])], t)
    <2> DEFINE n == [db EXCEPT ![f] = Over(new, db[f])]
    <2>1. n[f] = Over(new, db[f]) /\ \A x \in RowMaps : x # f => n[x] = db[x]
      BY ONLY <1>0, <1>1, f \in RowMaps
    <2>2. \A k \in DOMAIN Over(new, db[f]) : RowOk(f, Over(new, db[f])[k], t)
      BY <1>2 DEF Over, AcceptsOn, Acceptable
    <2> HIDE DEF n
    <2>3. Acceptable(n, t) BY <2>1, <2>2 DEF AcceptsOn, Acceptable
    <2> QED BY <2>3 DEF n
  <1>3. Acceptable(cleanupExpiredSessions(db, c, t).db, t)
    <2> DEFINE due == {k \in DOMAIN db.sessions :
                         db.sessions[k].status = "active" /\ db.sessions[k].expiresAt <= t}
               new == [k \in due |->
                         [[db.sessions[k] EXCEPT !.updated = t] EXCEPT !.status = "expired"]]
    <2>1. cleanupExpiredSessions(db, c, t).db = [db EXCEPT !["sessions"] = Over(new, db["sessions"])]
      BY DEF cleanupExpiredSessions, Expires
    <2>2. \A k \in DOMAIN db.sessions : RowOk("sessions", db.sessions[k], t)
      BY DEF AcceptsOn, Acceptable, RowMaps
    <2>3. \A row : RowOk("sessions", row, t)
            => RowOk("sessions", [[row EXCEPT !.updated = t] EXCEPT !.status = "expired"], t)
      BY ONLY <1>0, SessionRows
    <2>4. \A k \in DOMAIN new : RowOk("sessions", new[k], t) BY ONLY <2>2, <2>3
    <2>5. "sessions" \in RowMaps BY DEF RowMaps
    <2> HIDE DEF new
    <2> QED BY ONLY <1>2, <2>1, <2>4, <2>5
  <1>4. Acceptable(cleanupExpiredChallenges(db, c, t).db, t)
    <2> DEFINE due == {k \in DOMAIN db.challenges :
                         db.challenges[k].status = "pending" /\ db.challenges[k].expiresAt <= t}
               new == [k \in due |-> [Aged(db.challenges[k], t) EXCEPT !.status = "expired"]]
    <2>1. cleanupExpiredChallenges(db, c, t).db
            = [db EXCEPT !["challenges"] = Over(new, db["challenges"])]
      BY DEF cleanupExpiredChallenges, Expires
    <2>2. \A k \in DOMAIN db.challenges : RowOk("challenges", db.challenges[k], t)
      BY DEF AcceptsOn, Acceptable, RowMaps
    <2>3. \A row : RowOk("challenges", row, t)
            => RowOk("challenges", [Aged(row, t) EXCEPT !.status = "expired"], t)
      BY ONLY <1>0, ChallengeRows
    <2>4. \A k \in DOMAIN new : RowOk("challenges", new[k], t) BY ONLY <2>2, <2>3
    <2>5. "challenges" \in RowMaps BY DEF RowMaps
    <2> HIDE DEF new
    <2> QED BY ONLY <1>2, <2>1, <2>4, <2>5
  <1> QED BY <1>3, <1>4

\* Calls about messages leave the other rows alone.
LEMMA MessageCallsAccept ==
  ASSUME NEW db, NEW t, AcceptsOn(db, t), NEW c
  PROVE  /\ Acceptable(enqueueBatch(db, c, t).db, t) /\ Acceptable(claimBatch(db, c, t).db, t)
         /\ Acceptable(renewLease(db, c, t).db, t) /\ Acceptable(markDispatched(db, c, t).db, t)
         /\ Acceptable(markFailed(db, c, t).db, t) /\ Acceptable(cleanupTerminal(db, c, t).db, t)
  <1>1. ASSUME NEW n, \A f \in RowMaps : n[f] = db[f] PROVE Acceptable(n, t)
    BY <1>1 DEF AcceptsOn, Acceptable
  <1>2. {"messages", "order", "keys", "leaseSequence"} \cap RowMaps = {} BY DEF RowMaps
  <1>3. db = [x \in Fields |-> db[x]] /\ RowMaps \subseteq Fields
    BY DEF AcceptsOn, IsDb, RowMaps, Fields, MapFields
  <1>5. \A f \in RowMaps : enqueueBatch(db, c, t).db[f] = db[f]
    <2>1. CASE Refused(db, c.batch) BY ONLY <2>1 DEF enqueueBatch, Answers
    <2>2. CASE ~Refused(db, c.batch)
      <3> DEFINE rows == NovelRows(db, c.batch, t)
                 keys == NovelKeys(db, c.batch)
                 ids == NovelIds(db, c.batch)
      <3>1. enqueueBatch(db, c, t) = Enqueued(db, rows, keys, ids, Acknowledged(db, c.batch, t))
        BY ONLY <2>2, EnqueueIs
      <3> DEFINE order == db.order \o ids
                 n == [db EXCEPT !.messages = Over(rows, @), !.order = order, !.keys = Over(keys, @)]
      <3>2. enqueueBatch(db, c, t).db = n BY ONLY <3>1 DEF Enqueued
      <3> HIDE DEF rows, keys, ids, order
      <3>3. \A f \in RowMaps : n[f] = db[f] BY ONLY <1>2, <1>3
      <3> HIDE DEF n
      <3> QED BY ONLY <3>2, <3>3
    <2> QED BY <2>1, <2>2
  <1>6. \A f \in RowMaps : claimBatch(db, c, t).db[f] = db[f]
    <2> DEFINE eligible == Only(db.order, {id \in DOMAIN db.messages : Eligible(db.messages[id], t)})
               taken == SubSeq(eligible, 1, Min({c.limit, Len(eligible)}))
               walked == {db.order[i] : i \in {i \in DOMAIN db.order :
                            Len(taken) = c.limit =>
                              \E j \in DOMAIN db.order : j >= i /\ db.order[j] = Last(taken)}}
               lease(id) == db.leaseSequence + CHOOSE n \in DOMAIN taken : taken[n] = id
               new == [id \in walked |->
                         IF id \in ToSet(taken)
                         THEN Leased(Swept(db.messages[id], t), c.worker, lease(id), t)
                         ELSE Swept(db.messages[id], t)]
    <2>1. claimBatch(db, c, t).db
            = [db EXCEPT !.messages = Over(new, @), !.leaseSequence = @ + Len(taken)]
      BY DEF claimBatch
    <2> HIDE DEF new, taken
    <2> QED BY ONLY <1>2, <1>3, <2>1
  <1>7. \A f \in RowMaps : cleanupTerminal(db, c, t).db[f] = db[f]
    <2> DEFINE old == {id \in DOMAIN db.messages :
                         /\ db.messages[id].status \in {"dispatched", "dead"}
                         /\ db.messages[id].updatedAt <= t}
               freed == {k \in DOMAIN db.keys :
                           \E id \in old : db.messages[id].key = k /\ db.keys[k] = id}
    <2>1. cleanupTerminal(db, c, t).db
            = [db EXCEPT !.messages = Without(@, old), !.order = Only(@, DOMAIN db.messages \ old),
                         !.keys = Without(@, freed)]
      BY DEF cleanupTerminal
    <2> HIDE DEF old, freed
    <2> QED BY ONLY <1>2, <1>3, <2>1
  <1>8. \A f \in RowMaps : \A k, v, a : Stores(db, "messages", k, v, a).db[f] = db[f]
    BY ONLY <1>2 DEF Stores
  <1>9. \A f \in RowMaps : \A a : Answers(db, a).db[f] = db[f] BY DEF Answers
  <1>10. /\ \A f \in RowMaps : renewLease(db, c, t).db[f] = db[f]
         /\ \A f \in RowMaps : markDispatched(db, c, t).db[f] = db[f]
         /\ \A f \in RowMaps : markFailed(db, c, t).db[f] = db[f]
    BY ONLY <1>8, <1>9 DEF renewLease, markDispatched, markFailed, UnderLease
  <1> QED BY ONLY <1>1, <1>5, <1>6, <1>7, <1>10

LEMMA CallAccepts ==
  ASSUME NEW db, NEW t, AcceptsOn(db, t), NEW c, IsCall(c)
  PROVE  Acceptable(Perform(db, c, t).db, t)
  <1>0. c.op \in {"createSession", "createChallenge"} => c.expiresAt \in Time BY DEF IsCall
  <1>1. CASE c.op \in {"createAccount", "findAccount", "updateAccountStatus"}
    <2>1. CASE c.op = "createAccount"
      <3>1. Perform(db, c, t) = createAccount(db, c, t) BY ONLY <2>1 DEF Perform
      <3>2. Acceptable(createAccount(db, c, t).db, t) BY ONLY AcceptsOn(db, t), AccountCallsAccept
      <3> QED BY ONLY <3>1, <3>2
    <2>2. CASE c.op = "findAccount"
      <3>1. Perform(db, c, t) = findAccount(db, c, t) BY ONLY <2>2 DEF Perform
      <3>2. Acceptable(findAccount(db, c, t).db, t) BY ONLY AcceptsOn(db, t), AccountCallsAccept
      <3> QED BY ONLY <3>1, <3>2
    <2>3. CASE c.op = "updateAccountStatus"
      <3>1. Perform(db, c, t) = updateAccountStatus(db, c, t) BY ONLY <2>3 DEF Perform
      <3>2. Acceptable(updateAccountStatus(db, c, t).db, t) BY ONLY AcceptsOn(db, t), AccountCallsAccept
      <3> QED BY ONLY <3>1, <3>2
    <2> QED BY ONLY <1>1, <2>1, <2>2, <2>3
  <1>2. CASE c.op \in {"createIdentity", "findBySubject", "markVerified"}
    <2>1. CASE c.op = "createIdentity"
      <3>1. Perform(db, c, t) = createIdentity(db, c, t) BY ONLY <2>1 DEF Perform
      <3>2. Acceptable(createIdentity(db, c, t).db, t) BY ONLY AcceptsOn(db, t), IdentityCallsAccept
      <3> QED BY ONLY <3>1, <3>2
    <2>2. CASE c.op = "findBySubject"
      <3>1. Perform(db, c, t) = findBySubject(db, c, t) BY ONLY <2>2 DEF Perform
      <3>2. Acceptable(findBySubject(db, c, t).db, t) BY ONLY AcceptsOn(db, t), IdentityCallsAccept
      <3> QED BY ONLY <3>1, <3>2
    <2>3. CASE c.op = "markVerified"
      <3>1. Perform(db, c, t) = markVerified(db, c, t) BY ONLY <2>3 DEF Perform
      <3>2. Acceptable(markVerified(db, c, t).db, t) BY ONLY AcceptsOn(db, t), IdentityCallsAccept
      <3> QED BY ONLY <3>1, <3>2
    <2> QED BY ONLY <1>2, <2>1, <2>2, <2>3
  <1>3. CASE c.op \in {"createCredential", "findForIdentity", "replaceMaterial", "updateCredentialStatus"}
    <2>1. CASE c.op = "createCredential"
      <3>1. Perform(db, c, t) = createCredential(db, c, t) BY ONLY <2>1 DEF Perform
      <3>2. Acceptable(createCredential(db, c, t).db, t) BY ONLY AcceptsOn(db, t), CredentialCallsAccept
      <3> QED BY ONLY <3>1, <3>2
    <2>2. CASE c.op = "findForIdentity"
      <3>1. Perform(db, c, t) = findForIdentity(db, c, t) BY ONLY <2>2 DEF Perform
      <3>2. Acceptable(findForIdentity(db, c, t).db, t) BY ONLY AcceptsOn(db, t), CredentialCallsAccept
      <3> QED BY ONLY <3>1, <3>2
    <2>3. CASE c.op = "replaceMaterial"
      <3>1. Perform(db, c, t) = replaceMaterial(db, c, t) BY ONLY <2>3 DEF Perform
      <3>2. Acceptable(replaceMaterial(db, c, t).db, t) BY ONLY AcceptsOn(db, t), CredentialCallsAccept
      <3> QED BY ONLY <3>1, <3>2
    <2>4. CASE c.op = "updateCredentialStatus"
      <3>1. Perform(db, c, t) = updateCredentialStatus(db, c, t) BY ONLY <2>4 DEF Perform
      <3>2. Acceptable(updateCredentialStatus(db, c, t).db, t) BY ONLY AcceptsOn(db, t), CredentialCallsAccept
      <3> QED BY ONLY <3>1, <3>2
    <2> QED BY ONLY <1>3, <2>1, <2>2, <2>3, <2>4
  <1>4. CASE c.op \in {"createSession", "findByTokenHash", "revoke"}
    <2>1. CASE c.op = "createSession"
      <3>1. Perform(db, c, t) = createSession(db, c, t) BY ONLY <2>1 DEF Perform
      <3>2. Acceptable(createSession(db, c, t).db, t) BY ONLY AcceptsOn(db, t), <1>0, <2>1, SessionCallsAccept
      <3> QED BY ONLY <3>1, <3>2
    <2>2. CASE c.op = "findByTokenHash"
      <3>1. Perform(db, c, t) = findByTokenHash(db, c, t) BY ONLY <2>2 DEF Perform
      <3>2. Acceptable(findByTokenHash(db, c, t).db, t) BY ONLY AcceptsOn(db, t), SessionCallsAccept
      <3> QED BY ONLY <3>1, <3>2
    <2>3. CASE c.op = "revoke"
      <3>1. Perform(db, c, t) = revoke(db, c, t) BY ONLY <2>3 DEF Perform
      <3>2. Acceptable(revoke(db, c, t).db, t) BY ONLY AcceptsOn(db, t), SessionCallsAccept
      <3> QED BY ONLY <3>1, <3>2
    <2> QED BY ONLY <1>4, <2>1, <2>2, <2>3
  <1>5. CASE c.op \in {"createChallenge", "findChallenge", "recordFailedAttempt", "consumePending"}
    <2>1. CASE c.op = "createChallenge"
      <3>1. Perform(db, c, t) = createChallenge(db, c, t) BY ONLY <2>1 DEF Perform
      <3>2. Acceptable(createChallenge(db, c, t).db, t) BY ONLY AcceptsOn(db, t), <1>0, <2>1, ChallengeCallsAccept
      <3> QED BY ONLY <3>1, <3>2
    <2>2. CASE c.op = "findChallenge"
      <3>1. Perform(db, c, t) = findChallenge(db, c, t) BY ONLY <2>2 DEF Perform
      <3>2. Acceptable(findChallenge(db, c, t).db, t) BY ONLY AcceptsOn(db, t), ChallengeCallsAccept
      <3> QED BY ONLY <3>1, <3>2
    <2>3. CASE c.op = "recordFailedAttempt"
      <3>1. Perform(db, c, t) = recordFailedAttempt(db, c, t) BY ONLY <2>3 DEF Perform
      <3>2. Acceptable(recordFailedAttempt(db, c, t).db, t) BY ONLY AcceptsOn(db, t), ChallengeCallsAccept
      <3> QED BY ONLY <3>1, <3>2
    <2>4. CASE c.op = "consumePending"
      <3>1. Perform(db, c, t) = consumePending(db, c, t) BY ONLY <2>4 DEF Perform
      <3>2. Acceptable(consumePending(db, c, t).db, t) BY ONLY AcceptsOn(db, t), ChallengeCallsAccept
      <3> QED BY ONLY <3>1, <3>2
    <2> QED BY ONLY <1>5, <2>1, <2>2, <2>3, <2>4
  <1>6. CASE c.op \in {"cleanupExpiredSessions", "cleanupExpiredChallenges"}
    <2>1. CASE c.op = "cleanupExpiredSessions"
      <3>1. Perform(db, c, t) = cleanupExpiredSessions(db, c, t) BY ONLY <2>1 DEF Perform
      <3>2. Acceptable(cleanupExpiredSessions(db, c, t).db, t) BY ONLY AcceptsOn(db, t), CleanupsAccept
      <3> QED BY ONLY <3>1, <3>2
    <2>2. CASE c.op = "cleanupExpiredChallenges"
      <3>1. Perform(db, c, t) = cleanupExpiredChallenges(db, c, t) BY ONLY <2>2 DEF Perform
      <3>2. Acceptable(cleanupExpiredChallenges(db, c, t).db, t) BY ONLY AcceptsOn(db, t), CleanupsAccept
      <3> QED BY ONLY <3>1, <3>2
    <2> QED BY ONLY <1>6, <2>1, <2>2
  <1>7. CASE c.op \in {"enqueueBatch", "claimBatch", "renewLease", "markDispatched", "markFailed", "cleanupTerminal"}
    <2>1. CASE c.op = "enqueueBatch"
      <3>1. Perform(db, c, t) = enqueueBatch(db, c, t) BY ONLY <2>1 DEF Perform
      <3>2. Acceptable(enqueueBatch(db, c, t).db, t) BY ONLY AcceptsOn(db, t), MessageCallsAccept
      <3> QED BY ONLY <3>1, <3>2
    <2>2. CASE c.op = "claimBatch"
      <3>1. Perform(db, c, t) = claimBatch(db, c, t) BY ONLY <2>2 DEF Perform
      <3>2. Acceptable(claimBatch(db, c, t).db, t) BY ONLY AcceptsOn(db, t), MessageCallsAccept
      <3> QED BY ONLY <3>1, <3>2
    <2>3. CASE c.op = "renewLease"
      <3>1. Perform(db, c, t) = renewLease(db, c, t) BY ONLY <2>3 DEF Perform
      <3>2. Acceptable(renewLease(db, c, t).db, t) BY ONLY AcceptsOn(db, t), MessageCallsAccept
      <3> QED BY ONLY <3>1, <3>2
    <2>4. CASE c.op = "markDispatched"
      <3>1. Perform(db, c, t) = markDispatched(db, c, t) BY ONLY <2>4 DEF Perform
      <3>2. Acceptable(markDispatched(db, c, t).db, t) BY ONLY AcceptsOn(db, t), MessageCallsAccept
      <3> QED BY ONLY <3>1, <3>2
    <2>5. CASE c.op = "markFailed"
      <3>1. Perform(db, c, t) = markFailed(db, c, t) BY ONLY <2>5 DEF Perform
      <3>2. Acceptable(markFailed(db, c, t).db, t) BY ONLY AcceptsOn(db, t), MessageCallsAccept
      <3> QED BY ONLY <3>1, <3>2
    <2>6. CASE c.op = "cleanupTerminal"
      <3>1. Perform(db, c, t) = cleanupTerminal(db, c, t) BY ONLY <2>6 DEF Perform
      <3>2. Acceptable(cleanupTerminal(db, c, t).db, t) BY ONLY AcceptsOn(db, t), MessageCallsAccept
      <3> QED BY ONLY <3>1, <3>2
    <2> QED BY ONLY <1>7, <2>1, <2>2, <2>3, <2>4, <2>5, <2>6
  <1> QED BY ONLY IsCall(c), <1>1, <1>2, <1>3, <1>4, <1>5, <1>6, <1>7 DEF IsCall, StoreOps, WorkerOps

\* The rows left by calls made at one time.
LEMMA HistoryAccepts ==
  ASSUME NEW db, Sound(db), NEW t \in Time, Acceptable(db, t), NEW log, Len(log) \in Nat,
         \A k \in 1..Len(log) : IsCall(log[k].call) /\ log[k].at = t
  PROVE  \A k \in 0..Len(log) : Acceptable(History(db, log)[k], t)
  <1> DEFINE h == History(db, log)
             m == Len(log)
             S == {k \in Nat : k <= m => Acceptable(h[k], t)}
  <1>0. /\ m \in Nat /\ \A k \in 1..m : IsCall(log[k].call) /\ log[k].at = t
        /\ \A k \in 0..m : Sound(h[k])
    BY HistorySound
  <1>1. h[0] = db /\ \A k \in 1..m : h[k] = Perform(h[k - 1], log[k].call, log[k].at).db
    BY HistoryFacts
  <1> HIDE DEF h, m
  <1>2. 0 \in S BY <1>1
  <1>3. ASSUME NEW k \in Nat, k \in S PROVE k + 1 \in S
    <2> SUFFICES ASSUME k + 1 <= m PROVE Acceptable(h[k + 1], t)
      OBVIOUS
    <2>1. k + 1 \in 1..m /\ (k + 1) - 1 = k /\ k \in 0..m /\ Acceptable(h[k], t) BY <1>3, <1>0
    <2>2. h[k + 1] = Perform(h[k], log[k + 1].call, t).db /\ IsCall(log[k + 1].call)
      BY <2>1, <1>0, <1>1
    <2>3. AcceptsOn(h[k], t) BY <2>1, <1>0 DEF AcceptsOn, Sound
    <2>4. Acceptable(Perform(h[k], log[k + 1].call, t).db, t) BY ONLY <2>2, <2>3, CallAccepts
    <2> QED BY ONLY <2>2, <2>4
  <1> HIDE DEF S
  <1>4. Nat \subseteq S BY ONLY <1>2, <1>3, Induction
  <1> QED BY <1>4, <1>0 DEF S, h, m

LEMMA SeedAccepts ==
  ASSUME NEW s \in DOMAIN Scenes
  PROVE  Acceptable(Seed(Scenes[s].seed), 0)
  <1> DEFINE calls == Scenes[s].seed
             log == [k \in DOMAIN calls |-> [call |-> calls[k], at |-> 0]]
  <1>1. IsList(calls) /\ \A k \in DOMAIN calls : IsCall(calls[k]) BY ScenesAssumption DEF IsScene
  <1> HIDE DEF calls
  <1>2. DOMAIN calls = 1..Len(calls) /\ Len(calls) \in Nat BY <1>1 DEF IsList
  <1>3. Len(log) = Len(calls) /\ \A k \in 1..Len(log) : log[k].call = calls[k] /\ log[k].at = 0
    BY <1>2
  <1> HIDE DEF log
  <1>4. Len(log) \in Nat /\ \A k \in 1..Len(log) : IsCall(log[k].call) /\ log[k].at = 0
    BY <1>1, <1>2, <1>3
  <1>5. Acceptable(createEmptyState, 0)
    BY DEF Acceptable, RowMaps, createEmptyState, EmptyMap
  <1>6. 0 \in Time BY MemoryAssumption DEF Time
  <1>7. \A k \in 0..Len(log) : Acceptable(History(createEmptyState, log)[k], 0)
    BY ONLY <1>4, <1>5, <1>6, EmptySound, HistoryAccepts
  <1>8. Len(log) \in 0..Len(log) BY <1>4
  <1>9. Seed(calls) = History(createEmptyState, log)[Len(calls)] BY DEF Seed, log
  <1> QED BY <1>3, <1>7, <1>8, <1>9 DEF calls

\* The stores answer about an acceptable challenge what the core expects.
LEMMA AttemptsAccept ==
  ASSUME NEW db, NEW t, AcceptsOn(db, t)
  PROVE  AttemptsAccepted(db, t)
  <1> SUFFICES ASSUME NEW h \in DOMAIN db.challenges
               PROVE  LET row == db.challenges[h]
                          call == [challenge |-> h, version |-> row.version]
                          failed == recordFailedAttempt(db, call, t)
                      IN /\ Core!isConsumePendingResult(consumePending(db, call, t).answer)
                         /\ row.status = "pending" =>
                              Core!isRecordFailedAttemptTransition(
                                row, failed.answer, failed.db.challenges[h], t)
    BY DEF AttemptsAccepted
  <1> DEFINE row == db.challenges[h]
             call == [challenge |-> h, version |-> row.version]
             failed == recordFailedAttempt(db, call, t)
             new == failed.db.challenges[h]
  <1>0. t \in Time /\ db = [x \in Fields |-> db[x]] /\ "challenges" \in Fields
    BY DEF AcceptsOn, IsDb, Fields, MapFields
  <1>1. RowOk("challenges", row, t) BY DEF AcceptsOn, Acceptable, RowMaps
  <1>2. /\ Core!isChallengeRecord(row)
        /\ row.status = "pending" => row.attempts < MaxAttempts
    BY ONLY <1>0, <1>1, RowRules
  <1>3. Has(db.challenges, h) /\ call.challenge = h /\ call.version = row.version BY DEF Has
  <1> HIDE DEF call
  <1>4. Core!isConsumePendingResult(consumePending(db, call, t).answer)
    BY ONLY <1>3 DEF consumePending, Answers, Moves, Stores, Core!isConsumePendingResult, row
  <1>5. ASSUME row.status = "pending"
        PROVE  Core!isRecordFailedAttemptTransition(row, failed.answer, new, t)
    <2> DEFINE expired == Aged([row EXCEPT !.status = "expired"], t)
               failing == Aged([row EXCEPT !.attempts = @ + 1, !.status = "failed"], t)
               counted == Aged([row EXCEPT !.attempts = @ + 1], t)
               Moved(n, status, attempts) ==
                 /\ n.status = status /\ n.attempts = attempts /\ n.version = row.version + 1
                 /\ n.updated = t /\ Core!sameChallengePayload(row, n)
    <2>1. row.attempts \in Nat /\ row.attempts < MaxAttempts /\ MaxAttempts \in Nat
      BY ONLY <1>2, <1>5, MemoryAssumption DEF Core!isChallengeRecord, Core!isNonNegativeInteger
    <2>2. /\ Moved(expired, "expired", row.attempts)
          /\ Moved(failing, "failed", row.attempts + 1)
          /\ Moved(counted, "pending", row.attempts + 1)
      BY ONLY <1>2, <1>5 DEF Aged, Core!isChallengeRecord, Core!sameChallengePayload
    <2>3. /\ RowOk("challenges", expired, t) /\ RowOk("challenges", failing, t)
          /\ row.attempts + 1 < MaxAttempts => RowOk("challenges", counted, t)
      BY ONLY <1>0, <1>1, <2>1, ChallengeRows
    <2>4. \A n : RowOk("challenges", n, t) => Core!isChallengeRecord(n) BY ONLY <1>0, RowRules
    <2>5. \A v, a : Stores(db, "challenges", h, v, a).db.challenges[h] = v
                    /\ Stores(db, "challenges", h, v, a).answer = a
      BY ONLY <1>0 DEF Stores, Put
    <2> HIDE DEF expired, failing, counted
    <2>6. \/ row.expiresAt <= t /\ failed = Stores(db, "challenges", h, expired, "expired")
          \/ /\ row.attempts + 1 >= MaxAttempts
             /\ failed = Stores(db, "challenges", h, failing, "attempts-exceeded")
          \/ /\ ~(row.attempts + 1 >= MaxAttempts)
             /\ failed = Stores(db, "challenges", h, counted, "recorded")
      <3>1. ~(row.attempts >= MaxAttempts) BY ONLY <2>1
      <3> QED
        BY ONLY <1>3, <1>5, <3>1
           DEF recordFailedAttempt, Moves, row, expired, failing, counted
    <2> HIDE DEF Moved, row, failed
    <2>7. CASE row.expiresAt <= t /\ failed = Stores(db, "challenges", h, expired, "expired")
      <3>1. new = expired /\ failed.answer = "expired" BY ONLY <2>5, <2>7
      <3>2. Core!isChallengeRecord(new) BY ONLY <2>3, <2>4, <3>1
      <3>3. Moved(new, "expired", row.attempts) BY ONLY <2>2, <3>1
      <3> HIDE DEF new
      <3> QED
        BY ONLY <2>7, <3>1, <3>2, <3>3
           DEF Core!isRecordFailedAttemptTransition, Core!isRecordFailedAttemptResult, Moved
    <2>8. CASE /\ row.attempts + 1 >= MaxAttempts
               /\ failed = Stores(db, "challenges", h, failing, "attempts-exceeded")
      <3>1. new = failing /\ failed.answer = "attempts-exceeded" BY ONLY <2>5, <2>8
      <3>2. Core!isChallengeRecord(new) BY ONLY <2>3, <2>4, <3>1
      <3>3. Moved(new, "failed", row.attempts + 1) BY ONLY <2>2, <3>1
      <3>4. row.attempts + 1 = MaxAttempts BY ONLY <2>1, <2>8
      <3> HIDE DEF new
      <3> QED
        BY ONLY <3>1, <3>2, <3>3, <3>4
           DEF Core!isRecordFailedAttemptTransition, Core!isRecordFailedAttemptResult, Moved
    <2>9. CASE /\ ~(row.attempts + 1 >= MaxAttempts)
               /\ failed = Stores(db, "challenges", h, counted, "recorded")
      <3>1. new = counted /\ failed.answer = "recorded" BY ONLY <2>5, <2>9
      <3>4. row.attempts + 1 < MaxAttempts BY ONLY <2>1, <2>9
      <3>2. Core!isChallengeRecord(new) BY ONLY <2>3, <2>4, <3>1, <3>4
      <3>3. Moved(new, "pending", row.attempts + 1) BY ONLY <2>2, <3>1
      <3> HIDE DEF new
      <3> QED
        BY ONLY <3>1, <3>2, <3>3, <3>4
           DEF Core!isRecordFailedAttemptTransition, Core!isRecordFailedAttemptResult, Moved
    <2> QED BY ONLY <2>6, <2>7, <2>8, <2>9
  <1> QED BY <1>4, <1>5 DEF call

-----------------------------------------------------------------------------
(* The rows stay acceptable                                                *)

\* The committed rows, and those of the copy a transaction works on.
Readable == Acceptable(base, now) /\ (tx.owner # None => Acceptable(tx.working, now))

LEMMA EffectReadable ==
  ASSUME Invariant, Readable, Effect
  PROVE  Acceptable(base', now) /\ (tx'.owner # None => Acceptable(tx'.working, now))
  <1>1. now \in Time /\ IsTurn(tx) /\ Trusted BY DEF Invariant, Working
  <1>2. Acceptable(base, now) /\ (tx.owner # None => Acceptable(tx.working, now)) BY DEF Readable
  <1>3. AcceptsOn(base, now) BY <1>1, <1>2 DEF AcceptsOn, Trusted, Sound
  <1>4. CASE tx' = tx /\ base' = base BY <1>2, <1>4
  <1>5. CASE CallsOutside
    <2>1. PICK c : /\ IsCall(c) /\ base' = Perform(base, c, now).db
                   /\ tx' = Touch(Perform(base, c, now).wrote)
      BY <1>5 DEF CallsOutside
    <2>2. Acceptable(base', now) BY ONLY <1>3, <2>1, CallAccepts
    <2>3. tx'.owner = tx.owner /\ tx'.working = tx.working BY ONLY <1>1, <2>1, TouchIs
    <2> QED BY ONLY <1>2, <2>2, <2>3
  <1>6. CASE CallsInside
    <2>1. PICK c : IsCall(c) /\ tx' = Calls(c).tx BY <1>6 DEF CallsInside
    <2>2. tx.owner # None /\ base' = base BY <1>6 DEF CallsInside
    <2>3. AcceptsOn(tx.working, now) BY <1>1, <1>2, <2>2 DEF AcceptsOn, Trusted, Turn, Sound
    <2>4. Acceptable(Perform(tx.working, c, now).db, now) BY ONLY <2>1, <2>3, CallAccepts
    <2>5. tx' = tx \/ tx'.working = Perform(tx.working, c, now).db BY ONLY <1>1, <2>1, CallsIs
    <2> QED BY ONLY <1>2, <2>2, <2>4, <2>5
  <1>7. CASE TakesTurn
    <2>1. PICK p \in Clients, covers \in SUBSET Scopes :
            tx' = cloneState(p, base, covers) /\ base' = base
      BY <1>7 DEF TakesTurn
    <2>2. tx'.working = base BY <2>1 DEF cloneState
    <2> QED BY <1>2, <2>1, <2>2
  <1>8. CASE Commits
    <2>1. /\ tx.owner # None /\ base' = applyTransactionState(base, tx) /\ tx' = NoTurn
          /\ canCommitTransactionState(base, tx) /\ canCommitMemoryOutboxState(base, tx)
      BY <1>8 DEF Commits, canCommit
    <2>2. Sound(base) /\ Turn(tx) /\ Beside(base, tx) BY <1>1, <2>1 DEF Trusted
    <2>3. \A f \in Fields : base'[f] \in {base[f], tx.working[f]} BY ONLY <2>1, <2>2, CommitIs
    <2>4. RowMaps \subseteq Fields BY DEF RowMaps, Fields, MapFields
    <2>5. Acceptable(base', now) BY <1>2, <2>1, <2>3, <2>4 DEF Acceptable
    <2> QED BY <2>1, <2>5, NoTurnIs
  <1>9. CASE GivesUp BY <1>2, <1>9, NoTurnIs DEF GivesUp
  <1> QED BY <1>4, <1>5, <1>6, <1>7, <1>8, <1>9 DEF Effect

LEMMA NextReadable ==
  ASSUME Invariant, Readable, [Next]_vars
  PROVE  Readable'
  <1>1. now \in Time BY DEF Invariant
  <1>2. now' \in Time /\ now <= now' BY <1>1, NowStep
  <1>3. Effect BY NextEffect DEF Invariant
  <1>4. Acceptable(base', now) /\ (tx'.owner # None => Acceptable(tx'.working, now))
    BY <1>3, EffectReadable
  <1>5. Acceptable(base', now') BY ONLY <1>1, <1>2, <1>4, LaterAcceptable
  <1>6. tx'.owner # None => Acceptable(tx'.working, now') BY ONLY <1>1, <1>2, <1>4, LaterAcceptable
  <1> QED
    BY <1>5, <1>6
       DEF Readable, Acceptable, RowOk, Core!isAccountRecord, Core!isIdentityRecord,
           Core!isCredentialRecord, Core!isSessionRecord, Core!isChallengeRecord

\* Whatever the in-memory stores have written can be read back by the core: no
\* row fails its checks, nor does what the stores answer about a challenge, and
\* that is so of a transaction's copy as well (validation/store.ts against the
\* stores of the testkit).
THEOREM RowsStayAcceptable == Spec => []RowsAcceptedByCore
  <1>1. Init => Readable
    <2> SUFFICES ASSUME Init PROVE Readable
      OBVIOUS
    <2>1. scene \in DOMAIN Scenes /\ base = Seed(Scenes[scene].seed) /\ now = 0 BY DEF Init
    <2>2. tx.owner = None BY NoTurnIs DEF Init
    <2> QED BY <2>1, <2>2, SeedAccepts DEF Readable
  <1>2. Invariant /\ Readable /\ [Next]_vars => Readable' BY NextReadable
  <1>3. Invariant /\ Readable => RowsAcceptedByCore
    <2> SUFFICES ASSUME Invariant, Readable PROVE RowsAcceptedByCore
      OBVIOUS
    <2>1. AcceptsOn(base, now) BY DEF AcceptsOn, Invariant, Trusted, Sound, Readable
    <2>2. AttemptsAccepted(base, now) BY <2>1, AttemptsAccept
    <2>3. /\ \A a \in DOMAIN base.accounts : RowOk("accounts", base.accounts[a], now)
          /\ \A i \in DOMAIN base.identities : RowOk("identities", base.identities[i], now)
          /\ \A k \in DOMAIN base.credentials : RowOk("credentials", base.credentials[k], now)
          /\ \A s \in DOMAIN base.sessions : RowOk("sessions", base.sessions[s], now)
          /\ \A h \in DOMAIN base.challenges : RowOk("challenges", base.challenges[h], now)
      BY DEF Readable, Acceptable, RowMaps
    <2> QED BY <2>2, <2>3, RowRules DEF RowsAcceptedByCore, Invariant
  <1> QED BY <1>1, <1>2, <1>3, Invariance, PTL DEF Spec

=============================================================================
