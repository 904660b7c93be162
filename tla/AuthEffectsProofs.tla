------------------------- MODULE AuthEffectsProofs -------------------------
(***************************************************************************)
(* For any scenes, any clients and any bounds of AuthStack: a message that *)
(* is stored can be delivered, a challenge comes with its required         *)
(* messages, and the report of a begin tells the truth about its effects.  *)
(***************************************************************************)
EXTENDS AuthStackProofs

-----------------------------------------------------------------------------
(* Delivery data                                                           *)

Plus == [p \in Nat \X Nat |-> p[1] + p[2]]

Added(s) == Folded(Plus, 0, s)

\* A sum of numbers is a number, and grows with them.
LEMMA SumLe ==
  ASSUME NEW s, NEW t, NEW n \in Nat, Len(s) = n, Len(t) = n,
         \A k \in 1..n : s[k] \in Nat /\ t[k] \in Nat /\ s[k] <= t[k]
  PROVE  Added(s) \in Nat /\ Added(t) \in Nat /\ Added(s) <= Added(t)
  <1>1. PICK f : FoldsAs(f, Nat, Plus, 0, s)
    <2>1. \A x \in Nat : \A k \in 1..Len(s) : Plus[<<x, s[k]>>] \in Nat BY DEF Plus
    <2> QED BY <2>1, FoldedFacts
  <1>2. PICK g : FoldsAs(g, Nat, Plus, 0, t)
    <2>1. \A x \in Nat : \A k \in 1..Len(t) : Plus[<<x, t[k]>>] \in Nat BY DEF Plus
    <2> QED BY <2>1, FoldedFacts
  <1>3. /\ f[0] = 0 /\ g[0] = 0 /\ Added(s) = f[n] /\ Added(t) = g[n]
        /\ \A k \in 0..n : f[k] \in Nat /\ g[k] \in Nat
        /\ \A k \in 1..n : f[k] = Plus[<<f[k - 1], s[k]>>] /\ g[k] = Plus[<<g[k - 1], t[k]>>]
    BY <1>1, <1>2 DEF FoldsAs, Added
  <1> DEFINE U == {k \in Nat : k <= n => f[k] <= g[k]}
  <1>4. 0 \in U BY <1>3
  <1>5. ASSUME NEW k \in Nat, k \in U PROVE k + 1 \in U
    <2> SUFFICES ASSUME k + 1 <= n PROVE f[k + 1] <= g[k + 1] OBVIOUS
    <2>1. k + 1 \in 1..n /\ (k + 1) - 1 = k /\ k \in 0..n /\ f[k] <= g[k] BY <1>5
    <2>2. f[k + 1] = f[k] + s[k + 1] /\ g[k + 1] = g[k] + t[k + 1]
      <3>1. \A x, y \in Nat : Plus[<<x, y>>] = x + y BY DEF Plus
      <3>2. f[k + 1] = Plus[<<f[k], s[k + 1]>>] /\ g[k + 1] = Plus[<<g[k], t[k + 1]>>]
        <4>1. /\ f[k + 1] = Plus[<<f[(k + 1) - 1], s[k + 1]>>]
              /\ g[k + 1] = Plus[<<g[(k + 1) - 1], t[k + 1]>>]
          BY ONLY <1>3, <2>1
        <4> QED BY ONLY <4>1, <2>1
      <3>3. f[k] \in Nat /\ g[k] \in Nat /\ s[k + 1] \in Nat /\ t[k + 1] \in Nat BY <1>3, <2>1
      <3> QED BY ONLY <3>1, <3>2, <3>3
    <2>3. /\ f[k] \in Nat /\ g[k] \in Nat /\ s[k + 1] \in Nat /\ t[k + 1] \in Nat
          /\ s[k + 1] <= t[k + 1]
      BY <1>3, <2>1
    <2> QED BY ONLY <2>1, <2>2, <2>3
  <1> HIDE DEF U
  <1>6. Nat \subseteq U BY <1>4, <1>5, Induction
  <1>7. n \in 0..n OBVIOUS
  <1> QED BY <1>3, <1>6, <1>7 DEF U

\* The pipeline's loops are those of the rest.
LEMMA PipelineFolded ==
  \A round, start, s : Pipeline!Folded(round, start, s) = Folded(round, start, s)
  BY DEF Pipeline!Folded, Folded

\* For numbers of entries, a total of what is at most as much is at most as much.
LEMMA TotalLe ==
  ASSUME NEW g, Pipeline!IsGroups(g), NEW f, NEW h,
         \A k \in DOMAIN g : f[k] \in Nat /\ h[k] \in Nat /\ f[k] <= h[k]
  PROVE  LET a == Added([k \in DOMAIN g |-> g[k].count * f[k]])
             b == Added([k \in DOMAIN g |-> g[k].count * h[k]])
         IN a \in Nat /\ b \in Nat /\ a <= b
  <1> DEFINE s == [k \in DOMAIN g |-> g[k].count * f[k]]
             t == [k \in DOMAIN g |-> g[k].count * h[k]]
             n == Len(g)
  <1>1. n \in Nat /\ DOMAIN g = 1..n /\ \A k \in 1..n : g[k].count \in Nat
    BY DEF Pipeline!IsGroups
  <1>2. Len(s) = n /\ Len(t) = n BY <1>1
  <1>3. ASSUME NEW a \in Nat, NEW b \in Nat, NEW c \in Nat, b <= c
        PROVE  a * b \in Nat /\ a * c \in Nat /\ a * b <= a * c
    BY <1>3
  <1>4. \A k \in 1..n : s[k] \in Nat /\ t[k] \in Nat /\ s[k] <= t[k]
    <2> SUFFICES ASSUME NEW k \in 1..n PROVE s[k] \in Nat /\ t[k] \in Nat /\ s[k] <= t[k] OBVIOUS
    <2>1. s[k] = g[k].count * f[k] /\ t[k] = g[k].count * h[k] BY <1>1
    <2> QED BY <1>1, <1>3, <2>1
  <1> HIDE DEF s, t, n
  <1>5. Added(s) \in Nat /\ Added(t) \in Nat /\ Added(s) <= Added(t) BY <1>1, <1>2, <1>4, SumLe
  <1> QED BY <1>5 DEF s, t

\* What the core, the dispatcher and a store have let through, the worker and its
\* unsealing let through, and the transport's check too when it is for one mailbox.
LEMMA PersistableStoppedByAddress ==
  ASSUME NEW m, Pipeline!IsMessage(m), Pipeline!Persistable(m)
  PROVE  Pipeline!StoppedByAddressOnly(m)
  <1> DEFINE g == m.data
             chars == [k \in DOMAIN g |-> IF g[k].item.secret THEN 0 ELSE g[k].item.chars + IF FALSE THEN g[k].item.key ELSE 0]
             wire == [k \in DOMAIN g |-> g[k].item.key + IF g[k].item.secret THEN g[k].item.cipher ELSE g[k].item.chars]
             sent == [k \in DOMAIN g |-> g[k].item.key + IF g[k].item.secret THEN 0 ELSE g[k].item.chars]
             count(f) == [k \in DOMAIN g |-> g[k].count * f[k]]
  <1>0. Pipeline!MaxCharacters \in Nat BY SMT DEF Pipeline!MaxCharacters
  <1>1. Pipeline!IsGroups(g) BY DEF Pipeline!IsMessage
  <1>2. \A k \in DOMAIN g : /\ chars[k] \in Nat /\ wire[k] \in Nat /\ sent[k] \in Nat
                            /\ chars[k] <= wire[k] /\ sent[k] <= wire[k]
    <2> SUFFICES ASSUME NEW k \in DOMAIN g
                 PROVE  /\ chars[k] \in Nat /\ wire[k] \in Nat /\ sent[k] \in Nat
                        /\ chars[k] <= wire[k] /\ sent[k] <= wire[k]
      OBVIOUS
    <2> DEFINE i == g[k].item
    <2>1. Pipeline!IsItem(i) BY <1>1 DEF Pipeline!IsGroups
    <2>2. /\ i.secret \in BOOLEAN /\ i.key \in Nat /\ (i.secret => i.cipher \in Nat)
          /\ (~i.secret => i.chars \in Nat)
      BY ONLY <2>1 DEF Pipeline!IsItem
    <2>3. /\ chars[k] = IF i.secret THEN 0 ELSE i.chars + 0
          /\ wire[k] = i.key + IF i.secret THEN i.cipher ELSE i.chars
          /\ sent[k] = i.key + IF i.secret THEN 0 ELSE i.chars
      OBVIOUS
    <2> HIDE DEF i, chars, wire, sent
    <2>4. CASE i.secret BY ONLY <2>2, <2>3, <2>4
    <2>5. CASE ~i.secret BY ONLY <2>2, <2>3, <2>5
    <2> QED BY <2>4, <2>5
  <1>3. Added(count(chars)) <= Added(count(wire)) /\ Added(count(sent)) <= Added(count(wire))
    <2> HIDE DEF chars, wire, sent
    <2> QED BY <1>1, <1>2, TotalLe
  <1>4. Added(count(wire)) <= Pipeline!MaxCharacters
    BY PipelineFolded DEF Added, Plus, Pipeline!Persistable, Pipeline!isPersistableDeliveryMessage,
       Pipeline!isPersistableDeliveryData, Pipeline!Total
  <1>5. Added(count(chars)) <= Pipeline!MaxCharacters /\ Added(count(sent)) <= Pipeline!MaxCharacters
    <2> DEFINE a == Added(count(chars))
               b == Added(count(sent))
               c == Added(count(wire))
    <2>1. a \in Nat /\ b \in Nat /\ c \in Nat
      <3> HIDE DEF chars, wire, sent
      <3> QED BY <1>1, <1>2, TotalLe
    <2>2. a <= c /\ b <= c /\ c <= Pipeline!MaxCharacters BY <1>3, <1>4
    <2> HIDE DEF chars, wire, sent, count
    <2> QED BY ONLY <1>0, <2>1, <2>2
  <1>11. \A x \in 1..Pipeline!MaxCharacters : x > 0 BY ONLY <1>0
  <1>6. Pipeline!CoreAccepts(m) /\ Pipeline!DispatcherAccepts(m) /\ Pipeline!isPersistableDeliveryMessage(m)
    BY DEF Pipeline!Persistable
  <1>7. Pipeline!isPublicData(m.metadata) BY <1>6 DEF Pipeline!CoreAccepts
  <1>8. Pipeline!snapshotPersistedDeliveryMessage(m)
    <2>1. Pipeline!Entries(g) <= Pipeline!MaxEntries /\ Pipeline!EachJson(g, Pipeline!Alone)
      BY <1>6 DEF Pipeline!DispatcherAccepts, Pipeline!snapshotDeliveryEffect, Pipeline!snapshotDeliveryData,
                  Pipeline!EachJson, Pipeline!EachSecret, Pipeline!Each, Pipeline!SecretTotal, Pipeline!Total
    <2>2. Pipeline!Shared(g, FALSE)
      BY <1>5, <1>6, PipelineFolded
         DEF Pipeline!isPersistableDeliveryMessage, Pipeline!isPersistableDeliveryData, Pipeline!Shared,
             Pipeline!EachJson, Pipeline!EachSecret, Pipeline!Each, Pipeline!JsonTotal, Pipeline!Total,
             Added, Plus
    <2> QED
      BY <1>6, <1>7, <1>11, <2>1, <2>2
         DEF Pipeline!snapshotPersistedDeliveryMessage, Pipeline!DispatcherAccepts,
             Pipeline!sealDeliveryMessage, Pipeline!snapshotPersistableDeliveryMessage,
             Pipeline!isPersistableDeliveryMessage, Pipeline!isPersistableDeliveryData,
             Pipeline!EachJson, Pipeline!EachSecret, Pipeline!Each, Pipeline!SecretTotal,
             Pipeline!JsonTotal, Pipeline!Total
  <1>9. Pipeline!unsealDeliveryData(m)
    BY <1>6 DEF Pipeline!DispatcherAccepts, Pipeline!snapshotDeliveryEffect,
                Pipeline!snapshotDeliveryData, Pipeline!unsealDeliveryData,
                Pipeline!EachJson, Pipeline!EachSecret, Pipeline!Each, Pipeline!SecretTotal, Pipeline!Total
  <1>10. Pipeline!isDeliveryMessage(m) <=> Pipeline!ToOneMailbox(m.to)
    <2>1. Pipeline!TransportData(g)
      BY <1>5, <1>6, PipelineFolded
         DEF Pipeline!isPersistableDeliveryMessage, Pipeline!isPersistableDeliveryData,
             Pipeline!TransportData, Pipeline!EachJson, Pipeline!EachSecret, Pipeline!Each,
             Pipeline!JsonTotal, Pipeline!Total, Added, Plus
    <2> QED BY <1>7, <2>1 DEF Pipeline!isDeliveryMessage, Pipeline!isSafeAddress, Pipeline!ToOneMailbox
  <1> QED BY <1>8, <1>9, <1>10 DEF Pipeline!StoppedByAddressOnly, Pipeline!WorkerAccepts, Pipeline!Deliverable

-----------------------------------------------------------------------------
(* What the steps of a client do                                           *)

\* The two know the same but for the fields in F.
SameBut(w, v, F) == \A f \in IdleFields \ F : w[f] = v[f]

Still == base' = base /\ tx' = tx /\ stored' = stored

\* The call is over without an effect.
Fails(p, w) ==
  /\ \E why : w = Failed(why)
  /\ base' = base /\ stored' = stored
  /\ \/ ~Turning(proc[p]) /\ tx' = tx
     \/ tx.owner = p /\ tx' = NoTurn

Waits(p, w) ==
  /\ Still /\ proc[p].pc = "idle" /\ w.pc = "queued" /\ w.report = NoReport /\ w.outcome = None
  /\ \/ /\ w.kind = "script" /\ w.effects = <<>>
        /\ \E s \in Scenes[scene].scripts : w.calls = s.calls
     \/ /\ w.kind = "begin" /\ w.calls = <<>>
        /\ \E o \in Scenes[scene].outputs : CanBegin(o) /\ w.effects = o.effects

Starts(p, w) ==
  /\ proc[p].pc = "queued" /\ w.pc = "run" /\ SameBut(w, proc[p], {"pc"})
  /\ tx.owner = None /\ tx' = cloneState(p, base, proc[p].covers)
  /\ base' = base /\ stored' = stored

Asks(p, w) ==
  /\ proc[p].kind = "script" /\ proc[p].pc = "run" /\ proc[p].calls # <<>>
  /\ SameBut(w, proc[p], {"calls"}) /\ w.calls = Tail(proc[p].calls)
  /\ tx' = Calls(Head(proc[p].calls)).tx /\ base' = base /\ stored' = stored

\* The transaction commits, and the best-effort effects may have their turn.
Settled(p, w) ==
  /\ tx.owner = p /\ canCommit /\ Keeps(applyTransactionState(base, tx)) /\ tx' = NoTurn
  /\ \/ w = Done(p) /\ (proc[p].pc = "commit" \/ proc[p].kind = "script")
     \/ /\ proc[p].pc = "commit" /\ SameBut(w, proc[p], {"pc", "dispatch"})
        /\ LET d == Dispatches(p, "best-effort", proc[p].at) IN
           \/ w.pc = "prepare" /\ w.dispatch = d
           \/ w.pc = "send" /\ \E out \in SUBSET DOMAIN d.effects : w.dispatch = Dropped(d, out)

Creates(p, w) ==
  /\ proc[p].pc = "run" /\ proc[p].kind = "begin"
  /\ Calls(ChallengeCall(p)).answer = "ok" /\ tx' = Calls(ChallengeCall(p)).tx
  /\ base' = base /\ stored' = stored /\ SameBut(w, proc[p], {"pc", "dispatch"})
  /\ \/ w.pc = "prepare" /\ w.dispatch = Dispatches(p, "required", now)
     \/ w.pc = "recheck" /\ ~HasRequired(proc[p].effects)

Rechecks(p, w) ==
  Still /\ proc[p].pc = "recheck" /\ w.pc = "commit" /\ SameBut(w, proc[p], {"pc", "at"})

\* The core goes on with an answer of the dispatcher that it accepts.
Replies(p, w, answer) ==
  LET policy == proc[p].dispatch.policy
      result == dispatchSelectedSideEffects(answer, proc[p].effects, Originals(p, policy))
      report == mergeSideEffectResults(proc[p].report, result.report)
  IN /\ Still
     /\ \/ /\ policy = "required" /\ result.ok
           /\ w.pc = "recheck" /\ w.report = report
           /\ SameBut(w, proc[p], {"pc", "report", "dispatch"})
        \/ policy = "best-effort" /\ w = [Done(p) EXCEPT !.report = report]

\* The answers of the two dispatchers.
IsAnswer(d, pc, answer) ==
  \/ \E why : answer = Failure(why)
  \/ /\ pc \in {"prepare", "expire"}
     /\ \E out \in SUBSET DOMAIN d.effects :
          Dropped(d, out).prepared = <<>> /\ answer = DispatchReport(Dropped(d, out))
  \/ /\ pc \in {"enqueue", "acknowledge"} /\ d.policy = "best-effort"
     /\ answer = DispatchReport(AllFailed(d))
  \/ pc = "acknowledge" /\ verifyEnqueueAcknowledgements(d, now) /\ answer = DispatchReport(d)
  \/ pc = "send" /\ d.prepared = <<>> /\ answer = SyncReport(d)

Answering(p, w) ==
  /\ proc[p].pc \in {"prepare", "expire", "enqueue", "acknowledge", "send"}
  /\ \E answer : IsAnswer(proc[p].dispatch, proc[p].pc, answer) /\ Replies(p, w, answer)

\* Some of the prepared effects go on to the next step.
Goes(p, w) ==
  /\ Still /\ SameBut(w, proc[p], {"pc", "dispatch"})
  /\ LET d == proc[p].dispatch IN
     \E out \in SUBSET DOMAIN d.effects :
       /\ w.dispatch = Dropped(d, out)
       /\ \/ /\ proc[p].pc = "prepare" /\ w.pc = "expire"
             /\ \A i \in DOMAIN d.effects \ out : d.effects[i].content \in AcceptedByDispatcher
          \/ proc[p].pc = "expire" /\ w.pc = "enqueue"

Enqueues(p, w) ==
  LET d == proc[p].dispatch
      c == EnqueueCall(d)
      outside == Perform(base, c, now)
  IN /\ proc[p].pc = "enqueue" /\ StorableBatch(d)
     /\ w.pc = "acknowledge" /\ SameBut(w, proc[p], {"pc", "dispatch"})
     /\ \E answer :
          /\ w.dispatch = [d EXCEPT !.batch = Batch(d), !.answer = answer]
          /\ safeEnqueueBatch(Batch(d), answer) = None
          /\ \/ /\ d.policy = "required" /\ answer = Calls(c).answer
                /\ tx' = Calls(c).tx /\ base' = base /\ stored' = stored
             \/ /\ d.policy # "required" /\ answer = outside.answer
                /\ tx' = Touch(outside.wrote) /\ Keeps(outside.db)

Sends(p, w) ==
  LET d == proc[p].dispatch IN
  /\ Still /\ proc[p].pc = "send" /\ d.prepared # <<>> /\ SameBut(w, proc[p], {"dispatch", "sends"})
  /\ \/ /\ w.dispatch = AfterSend(d, TRUE)
        /\ w.sends = proc[p].sends \cup {Originals(p, d.policy)[NextToSend(d)]}
     \/ w.dispatch = AfterSend(d, FALSE) /\ w.sends = proc[p].sends

Does(p, w) ==
  \/ Fails(p, w) \/ Waits(p, w) \/ Starts(p, w) \/ Asks(p, w) \/ Settled(p, w) \/ Creates(p, w)
  \/ Rechecks(p, w) \/ Answering(p, w) \/ Goes(p, w) \/ Enqueues(p, w) \/ Sends(p, w)

IsDone(p) == \E w : proc' = [proc EXCEPT ![p] = w] /\ Does(p, w)

LEMMA WorkIs ==
  ASSUME Working, NEW p \in Clients
  PROVE  proc[p] = [f \in IdleFields |-> proc[p][f]] /\ proc = [q \in Clients |-> proc[q]]
  BY IdleIs DEF Working, IsWork

LEMMA RollsBackDone ==
  ASSUME NEW p, tx.owner = p, NEW why, RollsBack(p, why)
  PROVE  IsDone(p)
  <1>1. Fails(p, Failed(why)) BY DEF RollsBack, Release, Fails
  <1>2. proc' = [proc EXCEPT ![p] = Failed(why)] BY DEF RollsBack
  <1> QED BY <1>1, <1>2 DEF IsDone, Does

LEMMA SettlesDone ==
  ASSUME NEW p, tx.owner = p, NEW w, Settles(p, w),
         canCommit /\ Keeps(applyTransactionState(base, tx)) /\ tx' = NoTurn => Settled(p, w)
  PROVE  IsDone(p)
  <1>1. CASE RollsBack(p, "TRANSACTION_FAILED") BY <1>1, RollsBackDone
  <1>2. CASE ~RollsBack(p, "TRANSACTION_FAILED")
    <2>1. /\ canCommit /\ Keeps(applyTransactionState(base, tx)) /\ tx' = NoTurn
          /\ proc' = [proc EXCEPT ![p] = w]
      BY <1>2 DEF Settles, Release
    <2> QED BY <2>1 DEF IsDone, Does
  <1> QED BY <1>1, <1>2

\* The steps that queue a call or refuse it.
LEMMA RefusalsDone ==
  ASSUME Working, NEW p \in Clients, RefuseRequest(p) \/ RefuseBegin(p)
  PROVE  IsDone(p)
  <1>1. PICK why : proc' = [proc EXCEPT ![p] = Failed(why)] BY DEF RefuseRequest, RefuseBegin
  <1>2. proc[p].pc = "idle" /\ base' = base /\ tx' = tx /\ stored' = stored
    BY DEF RefuseRequest, RefuseBegin, At
  <1>3. ~Turning(proc[p]) BY <1>2 DEF Turning
  <1>4. Fails(p, Failed(why)) BY <1>2, <1>3 DEF Fails
  <1> QED BY <1>1, <1>4 DEF IsDone, Does

LEMMA RunScriptDone ==
  ASSUME Working, NEW p \in Clients, RunScript(p)
  PROVE  IsDone(p)
  <1> DEFINE w(s) == [Idle EXCEPT !.pc = "queued", !.kind = "script", !.covers = s.covers,
                                  !.calls = s.calls]
  <1>1. PICK s \in Scenes[scene].scripts : proc' = [proc EXCEPT ![p] = w(s)]
    BY DEF RunScript, Queues
  <1>2. Still /\ proc[p].pc = "idle" BY DEF RunScript, Still, At
  <1>3. /\ w(s).pc = "queued" /\ w(s).kind = "script" /\ w(s).calls = s.calls /\ w(s).effects = <<>>
        /\ w(s).report = NoReport /\ w(s).outcome = None
    BY DEF Idle
  <1> HIDE DEF w
  <1>4. Waits(p, w(s)) BY <1>2, <1>3 DEF Waits
  <1> QED BY <1>1, <1>4 DEF IsDone, Does

LEMMA BeginDone ==
  ASSUME Working, NEW p \in Clients, BeginChallenge(p)
  PROVE  IsDone(p)
  <1> DEFINE covers(o) == {"challenges"} \cup sideEffectScopes(o.effects, dispatcher)
             w(o) == [Idle EXCEPT !.pc = "queued", !.kind = "begin", !.effects = o.effects,
                                  !.expiresAt = o.expiresAt, !.covers = covers(o)]
  <1>1. PICK o \in Scenes[scene].outputs : CanBegin(o) /\ proc' = [proc EXCEPT ![p] = w(o)]
    BY DEF BeginChallenge, Queues
  <1>2. Still /\ proc[p].pc = "idle" BY DEF BeginChallenge, Still, At
  <1> HIDE DEF covers
  <1>3. /\ w(o).pc = "queued" /\ w(o).kind = "begin" /\ w(o).calls = <<>> /\ w(o).effects = o.effects
        /\ w(o).report = NoReport /\ w(o).outcome = None
    BY DEF Idle
  <1> HIDE DEF w
  <1>4. Waits(p, w(o)) BY <1>1, <1>2, <1>3 DEF Waits
  <1> QED BY <1>1, <1>4 DEF IsDone, Does

\* The steps of a transaction that has its turn.
LEMMA TakeTurnDone ==
  ASSUME Working, NEW p \in Clients, TakeTurn(p)
  PROVE  IsDone(p)
  <1> DEFINE w == [proc[p] EXCEPT !.pc = "run"]
  <1>1. proc' = [proc EXCEPT ![p] = w] BY DEF TakeTurn, Working
  <1>2. w.pc = "run" /\ SameBut(w, proc[p], {"pc"}) BY WorkIs DEF SameBut, IdleFields
  <1> HIDE DEF w
  <1>3. Starts(p, w) BY <1>2 DEF TakeTurn, Starts, At
  <1> QED BY <1>1, <1>3 DEF IsDone, Does

LEMMA CallStoreDone ==
  ASSUME Working, NEW p \in Clients, CallStore(p)
  PROVE  IsDone(p)
  <1> DEFINE w == [proc[p] EXCEPT !.calls = Tail(@)]
  <1>1. proc' = [proc EXCEPT ![p] = w] BY DEF CallStore, Working
  <1>2. w.calls = Tail(proc[p].calls) /\ SameBut(w, proc[p], {"calls"})
    <2> DEFINE t == Tail(proc[p].calls)
    <2>1. w = [proc[p] EXCEPT !.calls = t] OBVIOUS
    <2> HIDE DEF t, w
    <2>2. w.calls = t /\ SameBut(w, proc[p], {"calls"}) BY <2>1, WorkIs DEF SameBut, IdleFields
    <2> QED BY <2>2 DEF t
  <1> HIDE DEF w
  <1>3. Asks(p, w) BY <1>2 DEF CallStore, Asks, At
  <1> QED BY <1>1, <1>3 DEF IsDone, Does

LEMMA EndsDone ==
  ASSUME Working, NEW p \in Clients, Return(p) \/ GiveUp(p)
  PROVE  IsDone(p)
  <1>1. tx.owner = p BY DEF Return, GiveUp, At, Working, Turning
  <1>2. CASE GiveUp(p) BY <1>1, <1>2, RollsBackDone DEF GiveUp
  <1>3. CASE Return(p)
    <2>1. proc[p].kind = "script" /\ Settles(p, Done(p)) BY <1>3 DEF Return
    <2>2. canCommit /\ Keeps(applyTransactionState(base, tx)) /\ tx' = NoTurn => Settled(p, Done(p))
      BY <1>1, <2>1 DEF Settled
    <2> QED BY <1>1, <2>1, <2>2, SettlesDone
  <1> QED BY <1>2, <1>3

LEMMA CreateDone ==
  ASSUME Working, NEW p \in Clients, CreateChallenge(p)
  PROVE  IsDone(p)
  <1> DEFINE r == Calls(ChallengeCall(p))
             d == Dispatches(p, "required", now)
             recheck == [proc[p] EXCEPT !.pc = "recheck"]
             prepare == [proc[p] EXCEPT !.pc = "prepare", !.dispatch = d]
  <1>1. proc[p].pc = "run" /\ proc[p].kind = "begin" BY DEF CreateChallenge, At
  <1>2. tx.owner = p BY <1>1 DEF Working, Turning
  <1> HIDE DEF d
  <1>3. \/ RollsBack(p, "CHALLENGE_EXPIRED") \/ RollsBack(p, r.answer)
        \/ /\ r.answer = "ok" /\ tx' = r.tx /\ base' = base /\ stored' = stored
           /\ \/ proc' = [proc EXCEPT ![p] = prepare]
              \/ ~HasRequired(proc[p].effects) /\ proc' = [proc EXCEPT ![p] = recheck]
    <2>1. proc = [q \in Clients |-> proc[q]] BY DEF Working
    <2>2. \/ RollsBack(p, "CHALLENGE_EXPIRED") \/ RollsBack(p, r.answer)
          \/ /\ r.answer = "ok" /\ tx' = r.tx
             /\ IF HasRequired(proc[p].effects)
                THEN proc' = [proc EXCEPT ![p].pc = "prepare", ![p].dispatch = d]
                ELSE proc' = [proc EXCEPT ![p].pc = "recheck"]
             /\ UNCHANGED <<base, queue, stored>>
      BY DEF CreateChallenge, ChallengeCall, d
    <2> HIDE DEF r
    <2> QED BY ONLY <2>1, <2>2, p \in Clients
  <1>4. /\ recheck.pc = "recheck" /\ SameBut(recheck, proc[p], {"pc", "dispatch"})
        /\ prepare.pc = "prepare" /\ prepare.dispatch = d /\ SameBut(prepare, proc[p], {"pc", "dispatch"})
    BY WorkIs DEF SameBut, IdleFields
  <1> HIDE DEF recheck, prepare
  <1>5. CASE RollsBack(p, "CHALLENGE_EXPIRED") \/ RollsBack(p, r.answer)
    <2> HIDE DEF r
    <2> QED BY <1>2, <1>5, RollsBackDone
  <1>6. CASE r.answer = "ok" /\ tx' = r.tx /\ base' = base /\ stored' = stored
    <2>1. Creates(p, prepare) BY <1>1, <1>4, <1>6 DEF Creates, d
    <2>2. ~HasRequired(proc[p].effects) => Creates(p, recheck) BY <1>1, <1>4, <1>6 DEF Creates
    <2>3. CASE proc' = [proc EXCEPT ![p] = prepare] BY <2>1, <2>3 DEF IsDone, Does
    <2>4. CASE ~HasRequired(proc[p].effects) /\ proc' = [proc EXCEPT ![p] = recheck]
      BY <2>2, <2>4 DEF IsDone, Does
    <2>5. CASE RollsBack(p, "CHALLENGE_EXPIRED") \/ RollsBack(p, r.answer) BY <1>5, <2>5
    <2> QED BY <1>3, <2>3, <2>4, <2>5
  <1> QED BY <1>3, <1>5, <1>6

LEMMA RecheckDone ==
  ASSUME Working, NEW p \in Clients, Recheck(p)
  PROVE  IsDone(p)
  <1> DEFINE w == [proc[p] EXCEPT !.pc = "commit", !.at = now]
  <1>1. proc[p].pc = "recheck" BY DEF Recheck, At
  <1>2. tx.owner = p BY <1>1 DEF Working, Turning
  <1>3. RollsBack(p, "CHALLENGE_EXPIRED") \/ (proc' = [proc EXCEPT ![p] = w] /\ Still)
    BY DEF Recheck, Working, Still
  <1>4. w.pc = "commit" /\ SameBut(w, proc[p], {"pc", "at"}) BY WorkIs DEF SameBut, IdleFields
  <1> HIDE DEF w
  <1>5. Still => Rechecks(p, w) BY <1>1, <1>4 DEF Rechecks
  <1>6. CASE RollsBack(p, "CHALLENGE_EXPIRED") BY <1>2, <1>6, RollsBackDone
  <1>7. CASE proc' = [proc EXCEPT ![p] = w] /\ Still BY <1>5, <1>7 DEF IsDone, Does
  <1> QED BY <1>3, <1>6, <1>7

LEMMA CommitDone ==
  ASSUME Working, NEW p \in Clients, Commit(p)
  PROVE  IsDone(p)
  <1> DEFINE d == Dispatches(p, "best-effort", proc[p].at)
             out == {i \in DOMAIN d.effects : Undeliverable(d.effects[i], d)}
             prepare == [proc[p] EXCEPT !.pc = "prepare", !.dispatch = d]
             send == [proc[p] EXCEPT !.pc = "send", !.dispatch = Dropped(d, out)]
  <1>1. proc[p].pc = "commit" BY DEF Commit, At
  <1>2. tx.owner = p BY <1>1 DEF Working, Turning
  <1>3. Drop(d, LAMBDA e : Undeliverable(e, d)) = Dropped(d, out) BY DEF Drop, Dropped
  <1>4. Settles(p, Done(p)) \/ Settles(p, prepare) \/ Settles(p, send) BY <1>3 DEF Commit
  <1>5. out \in SUBSET DOMAIN d.effects OBVIOUS
  <1> DEFINE Left == canCommit /\ Keeps(applyTransactionState(base, tx)) /\ tx' = NoTurn
  <1>6. Left => Settled(p, Done(p)) BY <1>1, <1>2 DEF Settled
  <1> HIDE DEF out
  <1>7. /\ prepare.pc = "prepare" /\ prepare.dispatch = d /\ SameBut(prepare, proc[p], {"pc", "dispatch"})
        /\ send.pc = "send" /\ send.dispatch = Dropped(d, out) /\ SameBut(send, proc[p], {"pc", "dispatch"})
    <2> DEFINE x == Dropped(d, out)
    <2> HIDE DEF d, x
    <2> QED BY WorkIs DEF SameBut, IdleFields, x
  <1> HIDE DEF prepare, send
  <1>8. Left => Settled(p, prepare) /\ Settled(p, send) BY <1>1, <1>2, <1>5, <1>7 DEF Settled
  <1>9. CASE Settles(p, Done(p)) BY <1>2, <1>6, <1>9, SettlesDone
  <1>10. CASE Settles(p, prepare) BY <1>2, <1>8, <1>10, SettlesDone
  <1>11. CASE Settles(p, send) BY <1>2, <1>8, <1>11, SettlesDone
  <1> QED BY <1>4, <1>9, <1>10, <1>11

\* The steps of a dispatch.
LEMMA AnsweredDone ==
  ASSUME Working, NEW p \in Clients, proc[p].dispatch.policy = "required" => tx.owner = p,
         proc[p].pc \in {"prepare", "expire", "enqueue", "acknowledge", "send"},
         NEW answer, IsAnswer(proc[p].dispatch, proc[p].pc, answer), Answered(p, answer)
  PROVE  IsDone(p)
  <1> DEFINE policy == proc[p].dispatch.policy
             result == dispatchSelectedSideEffects(answer, proc[p].effects, Originals(p, policy))
             report == mergeSideEffectResults(proc[p].report, result.report)
             w == [proc[p] EXCEPT !.pc = "recheck", !.report = report, !.dispatch = None]
             v == [Done(p) EXCEPT !.report = report]
  <1>1. \/ /\ policy = "required" /\ result.ok
           /\ proc' = [proc EXCEPT ![p].pc = "recheck", ![p].report = report, ![p].dispatch = None]
           /\ Still
        \/ policy = "required" /\ RollsBack(p, result.reason)
        \/ policy = "best-effort" /\ proc' = [proc EXCEPT ![p] = v] /\ Still
    BY DEF Answered, Still
  <1>2. Answering(p, w) \/ ~(policy = "required" /\ result.ok /\ Still)
    <2>1. w.pc = "recheck" /\ w.report = report /\ SameBut(w, proc[p], {"pc", "report", "dispatch"})
      <3> HIDE DEF report
      <3> QED BY WorkIs DEF SameBut, IdleFields
    <2> HIDE DEF w
    <2> QED BY <2>1 DEF Answering, Replies
  <1>3. Answering(p, v) \/ ~(policy = "best-effort" /\ Still) BY DEF Answering, Replies
  <1> HIDE DEF result, report
  <1>4. CASE /\ policy = "required" /\ result.ok
             /\ proc' = [proc EXCEPT ![p].pc = "recheck", ![p].report = report, ![p].dispatch = None]
             /\ Still
    <2>1. proc' = [proc EXCEPT ![p] = w] BY <1>4, WorkIs
    <2> HIDE DEF w
    <2> QED BY <1>2, <1>4, <2>1 DEF IsDone, Does
  <1>5. CASE policy = "required" /\ RollsBack(p, result.reason) BY <1>5, RollsBackDone
  <1>6. CASE policy = "best-effort" /\ proc' = [proc EXCEPT ![p] = v] /\ Still
    <2> HIDE DEF v
    <2> QED BY <1>3, <1>6 DEF IsDone, Does
  <1> QED BY <1>1, <1>4, <1>5, <1>6

LEMMA ContinuesDone ==
  ASSUME Working, NEW p \in Clients, proc[p].dispatch.policy = "required" => tx.owner = p,
         NEW pc, NEW out \in SUBSET DOMAIN proc[p].dispatch.effects,
         \/ /\ proc[p].pc = "prepare" /\ pc = "expire"
            /\ \A i \in DOMAIN proc[p].dispatch.effects \ out :
                 proc[p].dispatch.effects[i].content \in AcceptedByDispatcher
         \/ proc[p].pc = "expire" /\ pc = "enqueue",
         Continues(p, pc, Dropped(proc[p].dispatch, out))
  PROVE  IsDone(p)
  <1> DEFINE d == proc[p].dispatch
             n == Dropped(d, out)
             w == [proc[p] EXCEPT !.pc = pc, !.dispatch = n]
  <1>1. proc[p].pc \in {"prepare", "expire"} OBVIOUS
  <1>2. CASE n.prepared = <<>>
    <2>1. Answered(p, DispatchReport(n)) BY <1>2 DEF Continues
    <2>2. IsAnswer(d, proc[p].pc, DispatchReport(n)) BY <1>1, <1>2 DEF IsAnswer
    <2> HIDE DEF n
    <2> QED BY <1>1, <2>1, <2>2, AnsweredDone
  <1>3. CASE n.prepared # <<>>
    <2>1. proc' = [proc EXCEPT ![p].pc = pc, ![p].dispatch = n] /\ Still
      BY <1>3 DEF Continues, Still
    <2> HIDE DEF n
    <2>2. proc' = [proc EXCEPT ![p] = w] BY <2>1, WorkIs
    <2>3. w.pc = pc /\ w.dispatch = n /\ SameBut(w, proc[p], {"pc", "dispatch"})
      BY WorkIs DEF SameBut, IdleFields
    <2> HIDE DEF w
    <2>4. Goes(p, w) BY <2>1, <2>3 DEF Goes, n
    <2> QED BY <2>2, <2>4 DEF IsDone, Does
  <1> QED BY <1>2, <1>3

LEMMA PrepareDone ==
  ASSUME Working, NEW p \in Clients, PrepareEffects(p) \/ ExpireEffects(p)
  PROVE  IsDone(p)
  <1> DEFINE d == proc[p].dispatch
             unusable == {i \in DOMAIN d.effects : Unusable(d.effects[i], d, now)}
             gone == {i \in DOMAIN d.effects : Gone(d.effects[i], now)}
  <1>1. proc[p].pc \in {"prepare", "expire"} BY DEF PrepareEffects, ExpireEffects, At
  <1>2. d.policy = "required" => tx.owner = p BY <1>1 DEF Working, Turning
  <1>3. \/ Answered(p, Failure("SIDE_EFFECT_FAILED"))
        \/ proc[p].pc = "prepare" /\ Continues(p, "expire", Dropped(d, unusable))
        \/ proc[p].pc = "expire" /\ Continues(p, "enqueue", Dropped(d, gone))
    BY DEF PrepareEffects, ExpireEffects, Drop, Dropped, At
  <1>4. CASE Answered(p, Failure("SIDE_EFFECT_FAILED"))
    <2>1. IsAnswer(d, proc[p].pc, Failure("SIDE_EFFECT_FAILED")) BY DEF IsAnswer
    <2> QED BY <1>1, <1>2, <1>4, <2>1, AnsweredDone
  <1>5. CASE proc[p].pc = "prepare" /\ Continues(p, "expire", Dropped(d, unusable))
    <2>1. \A i \in DOMAIN d.effects \ unusable : d.effects[i].content \in AcceptedByDispatcher
      BY DEF Unusable
    <2>2. unusable \in SUBSET DOMAIN d.effects OBVIOUS
    <2> HIDE DEF unusable
    <2> QED BY <1>2, <1>5, <2>1, <2>2, ContinuesDone
  <1>6. CASE proc[p].pc = "expire" /\ Continues(p, "enqueue", Dropped(d, gone))
    <2>1. gone \in SUBSET DOMAIN d.effects OBVIOUS
    <2> HIDE DEF gone
    <2> QED BY <1>2, <1>6, <2>1, ContinuesDone
  <1> QED BY <1>3, <1>4, <1>5, <1>6

LEMMA EnqueueDone ==
  ASSUME Working, NEW p \in Clients, EnqueueEffects(p)
  PROVE  IsDone(p)
  <1> DEFINE d == proc[p].dispatch
             c == EnqueueCall(d)
             b == Batch(d)
             outside == Perform(base, c, now)
             given == IF d.policy = "required" THEN Calls(c).answer ELSE outside.answer
             answer == IF ~StorableBatch(d) THEN <<>> ELSE given
             why == safeEnqueueBatch(b, answer)
             next == [d EXCEPT !.batch = b, !.answer = answer]
             w == [proc[p] EXCEPT !.pc = "acknowledge", !.dispatch = next]
  <1>0. IsWork(proc[p]) BY DEF Working
  <1>1. proc[p].pc = "enqueue" BY DEF EnqueueEffects, At
  <1>2. IsDispatch(d) BY <1>0, <1>1 DEF IsWork
  <1>3. d.policy = "required" => tx.owner = p BY <1>1 DEF Working, Turning
  <1>4. \/ Answered(p, Failure(why))
        \/ d.policy = "best-effort" /\ Answered(p, DispatchReport(AllFailed(d)))
        \/ /\ why = None
           /\ IF d.policy = "required" THEN tx' = Calls(c).tx /\ base' = base /\ stored' = stored
              ELSE tx' = Touch(outside.wrote) /\ Keeps(outside.db)
           /\ proc' = [proc EXCEPT ![p].pc = "acknowledge", ![p].dispatch.batch = b,
                                   ![p].dispatch.answer = answer]
    BY DEF EnqueueEffects
  <1>5. CASE Answered(p, Failure(why))
    <2>1. IsAnswer(d, proc[p].pc, Failure(why)) BY DEF IsAnswer
    <2> HIDE DEF why
    <2> QED BY <1>1, <1>3, <1>5, <2>1, AnsweredDone
  <1>6. CASE d.policy = "best-effort" /\ Answered(p, DispatchReport(AllFailed(d)))
    <2>1. IsAnswer(d, proc[p].pc, DispatchReport(AllFailed(d))) BY <1>1, <1>6 DEF IsAnswer
    <2> QED BY <1>1, <1>3, <1>6, <2>1, AnsweredDone
  <1>7. CASE /\ why = None
             /\ IF d.policy = "required" THEN tx' = Calls(c).tx /\ base' = base /\ stored' = stored
                ELSE tx' = Touch(outside.wrote) /\ Keeps(outside.db)
             /\ proc' = [proc EXCEPT ![p].pc = "acknowledge", ![p].dispatch.batch = b,
                                     ![p].dispatch.answer = answer]
    <2>1. StorableBatch(d)
      <3>1. "OUTBOX_ENQUEUE_FAILED" # None BY StackAssumption DEF Reasons
      <3>2. safeEnqueueBatch(b, <<>>) = "OUTBOX_ENQUEUE_FAILED" BY DEF safeEnqueueBatch
      <3> HIDE DEF b, c, outside, given
      <3> QED BY <1>7, <3>1, <3>2
    <2>2. answer = given BY <2>1
    <2> HIDE DEF answer
    <2>3. proc' = [proc EXCEPT ![p] = w]
      <3>1. proc' = [proc EXCEPT ![p].pc = "acknowledge", ![p].dispatch.batch = b,
                                 ![p].dispatch.answer = answer]
        BY ONLY <1>7
      <3>2. proc = [q \in Clients |-> proc[q]] /\ proc[p] = [f \in IdleFields |-> proc[p][f]] BY WorkIs
      <3>3. d = [f \in DispatchFields |-> d[f]] BY <1>2 DEF IsDispatch
      <3>4. w = [proc[p] EXCEPT !.pc = "acknowledge", !.dispatch = [d EXCEPT !.batch = b, !.answer = answer]]
        OBVIOUS
      <3> HIDE DEF b, w
      <3> QED BY ONLY <3>1, <3>2, <3>3, <3>4, p \in Clients DEF IdleFields
    <2>4. w.pc = "acknowledge" /\ w.dispatch = next /\ SameBut(w, proc[p], {"pc", "dispatch"})
      <3> HIDE DEF next
      <3> QED BY WorkIs DEF SameBut, IdleFields
    <2> HIDE DEF w
    <2>5. Enqueues(p, w)
      <3>1. /\ w.dispatch = [d EXCEPT !.batch = b, !.answer = answer] /\ safeEnqueueBatch(b, answer) = None
            /\ \/ /\ d.policy = "required" /\ answer = Calls(c).answer
                  /\ tx' = Calls(c).tx /\ base' = base /\ stored' = stored
               \/ /\ d.policy # "required" /\ answer = outside.answer
                  /\ tx' = Touch(outside.wrote) /\ Keeps(outside.db)
        BY <1>7, <2>2, <2>4
      <3> QED BY <1>1, <2>1, <2>4, <3>1 DEF Enqueues
    <2> QED BY <2>3, <2>5 DEF IsDone, Does
  <1> QED BY <1>4, <1>5, <1>6, <1>7

LEMMA AcknowledgeDone ==
  ASSUME Working, NEW p \in Clients, Acknowledge(p)
  PROVE  IsDone(p)
  <1> DEFINE d == proc[p].dispatch
  <1>1. proc[p].pc = "acknowledge" BY DEF Acknowledge, At
  <1>2. d.policy = "required" => tx.owner = p BY <1>1 DEF Working, Turning
  <1>3. \/ verifyEnqueueAcknowledgements(d, now) /\ Answered(p, DispatchReport(d))
        \/ Answered(p, Failure("STORE_UNAVAILABLE"))
        \/ d.policy = "best-effort" /\ Answered(p, DispatchReport(AllFailed(d)))
    BY DEF Acknowledge
  <1>4. /\ verifyEnqueueAcknowledgements(d, now) => IsAnswer(d, proc[p].pc, DispatchReport(d))
        /\ IsAnswer(d, proc[p].pc, Failure("STORE_UNAVAILABLE"))
        /\ d.policy = "best-effort" => IsAnswer(d, proc[p].pc, DispatchReport(AllFailed(d)))
    BY <1>1 DEF IsAnswer
  <1> QED BY <1>1, <1>2, <1>3, <1>4, AnsweredDone

LEMMA ClockFailsDone ==
  ASSUME Working, NEW p \in Clients, ClockFails(p)
  PROVE  IsDone(p)
  <1>1. /\ proc[p].pc \in {"prepare", "expire", "acknowledge", "send"}
        /\ Answered(p, Failure("SIDE_EFFECT_FAILED"))
    BY DEF ClockFails
  <1>2. IsWork(proc[p]) BY DEF Working
  <1>3. proc[p].dispatch.policy = "required" => tx.owner = p
    BY <1>1, <1>2 DEF IsWork, Working, Turning
  <1>4. IsAnswer(proc[p].dispatch, proc[p].pc, Failure("SIDE_EFFECT_FAILED")) BY DEF IsAnswer
  <1> QED BY <1>1, <1>3, <1>4, AnsweredDone

LEMMA SendDone ==
  ASSUME Working, NEW p \in Clients, Send(p) \/ FinishSending(p)
  PROVE  IsDone(p)
  <1> DEFINE d == proc[p].dispatch
             y == Originals(p, d.policy)[NextToSend(d)]
             v == [proc[p] EXCEPT !.dispatch = AfterSend(d, TRUE), !.sends = proc[p].sends \cup {y}]
             w == [proc[p] EXCEPT !.dispatch = AfterSend(d, FALSE), !.sends = proc[p].sends]
  <1>1. proc[p].pc = "send" BY DEF Send, FinishSending, At
  <1>2. IsWork(proc[p]) BY DEF Working
  <1>3. d.policy = "best-effort" BY <1>1, <1>2 DEF IsWork
  <1>4. CASE FinishSending(p)
    <2>1. d.prepared = <<>> /\ Answered(p, SyncReport(d)) BY <1>4 DEF FinishSending
    <2>2. IsAnswer(d, proc[p].pc, SyncReport(d)) BY <1>1, <2>1 DEF IsAnswer
    <2> QED BY <1>1, <1>3, <2>1, <2>2, AnsweredDone
  <1>5. CASE Send(p)
    <2>1. PICK accepted \in BOOLEAN :
            proc' = [proc EXCEPT ![p].dispatch = AfterSend(d, accepted),
                                 ![p].sends = IF accepted THEN @ \cup {y} ELSE @]
      BY <1>5 DEF Send
    <2>2. d.prepared # <<>> /\ Still BY <1>5 DEF Send, Still
    <2> DEFINE a == AfterSend(d, TRUE)
               b == AfterSend(d, FALSE)
    <2>3. \/ proc' = [proc EXCEPT ![p].dispatch = a, ![p].sends = proc[p].sends \cup {y}]
          \/ proc' = [proc EXCEPT ![p].dispatch = b, ![p].sends = proc[p].sends]
      <3>1. CASE accepted = TRUE
        <4>1. proc' = [proc EXCEPT ![p].dispatch = a, ![p].sends = IF TRUE THEN @ \cup {y} ELSE @]
          BY ONLY <2>1, <3>1
        <4> HIDE DEF a, y
        <4> QED BY <4>1, WorkIs DEF IdleFields
      <3>2. CASE accepted = FALSE
        <4>1. proc' = [proc EXCEPT ![p].dispatch = b, ![p].sends = IF FALSE THEN @ \cup {y} ELSE @]
          BY ONLY <2>1, <3>2
        <4> HIDE DEF b, y
        <4> QED BY <4>1, WorkIs DEF IdleFields
      <3> QED BY <3>1, <3>2
    <2>4. /\ v.dispatch = a /\ v.sends = proc[p].sends \cup {y} /\ SameBut(v, proc[p], {"dispatch", "sends"})
          /\ w.dispatch = b /\ w.sends = proc[p].sends /\ SameBut(w, proc[p], {"dispatch", "sends"})
      <3> HIDE DEF a, b, y
      <3> QED BY WorkIs DEF SameBut, IdleFields, a, b
    <2>5. proc' = [proc EXCEPT ![p] = v] \/ proc' = [proc EXCEPT ![p] = w]
      <3> HIDE DEF a, b, y
      <3> QED BY <2>3, WorkIs DEF a, b
    <2> HIDE DEF v, w
    <2>6. Sends(p, v) /\ Sends(p, w) BY <1>1, <2>2, <2>4 DEF Sends
    <2> QED BY <2>5, <2>6 DEF IsDone, Does
  <1> QED BY <1>4, <1>5

\* Every step of a client is one of these.
LEMMA StepDone ==
  ASSUME Working, NEW p \in Clients, Step(p)
  PROVE  IsDone(p)
  <1>1. CASE RefuseRequest(p) \/ RefuseBegin(p) BY <1>1, RefusalsDone
  <1>2. CASE RunScript(p) BY <1>2, RunScriptDone
  <1>3. CASE BeginChallenge(p) BY <1>3, BeginDone
  <1>4. CASE TakeTurn(p) BY <1>4, TakeTurnDone
  <1>5. CASE CallStore(p) BY <1>5, CallStoreDone
  <1>6. CASE Return(p) \/ GiveUp(p) BY <1>6, EndsDone
  <1>7. CASE CreateChallenge(p) BY <1>7, CreateDone
  <1>8. CASE Recheck(p) BY <1>8, RecheckDone
  <1>9. CASE Commit(p) BY <1>9, CommitDone
  <1>10. CASE PrepareEffects(p) \/ ExpireEffects(p) BY <1>10, PrepareDone
  <1>11. CASE EnqueueEffects(p) BY <1>11, EnqueueDone
  <1>12. CASE Acknowledge(p) BY <1>12, AcknowledgeDone
  <1>13. CASE ClockFails(p) BY <1>13, ClockFailsDone
  <1>14. CASE Send(p) \/ FinishSending(p) BY <1>14, SendDone
  <1> QED
    BY <1>1, <1>2, <1>3, <1>4, <1>5, <1>6, <1>7, <1>8, <1>9, <1>10, <1>11, <1>12, <1>13, <1>14 DEF Step

-----------------------------------------------------------------------------
(* What the calls of a store do to challenges and messages                 *)

\* What a message says: of an effect, a message, a row or an acknowledgement.
Meaning(m) == [key |-> m.key, policy |-> m.policy, content |-> m.content]

\* The acknowledgement is the row it is about.
Confirms(db, a) ==
  /\ a.id \in DOMAIN db.messages
  /\ Meaning(db.messages[a.id]) = Meaning(a) /\ db.messages[a.id].status = a.status

SameMessages(n, db) ==
  /\ DOMAIN n.messages \subseteq DOMAIN db.messages
  /\ \A id \in DOMAIN n.messages : n.messages[id].content = db.messages[id].content

\* The messages of a batch are added, or are there already.
EnqueuesRows(n, db, batch, t) ==
  /\ DOMAIN db.messages \subseteq DOMAIN n.messages
  /\ n.challenges = db.challenges
  /\ \A id \in DOMAIN n.messages :
       \/ id \in DOMAIN db.messages /\ n.messages[id] = db.messages[id]
       \/ \E k \in DOMAIN batch : id = batch[k].id /\ n.messages[id] = Pending(batch[k], t)

LEMMA EnqueueRows ==
  ASSUME NEW db, IsDb(db), NEW c, IsList(c.batch), NEW t
  PROVE  /\ EnqueuesRows(enqueueBatch(db, c, t).db, db, c.batch, t)
         /\ LET r == enqueueBatch(db, c, t) IN
            r.answer # <<>> =>
              DOMAIN r.answer = DOMAIN c.batch /\ \A k \in DOMAIN c.batch : Confirms(r.db, r.answer[k])
  <1> DEFINE b == c.batch
             r == enqueueBatch(db, c, t)
             rows == NovelRows(db, b, t)
             d == Novel(db, b)
  <1>1. CASE Refused(db, b)
    <2>1. r.db = db /\ r.answer = <<>> BY <1>1, EnqueueIs DEF Answers
    <2> HIDE DEF r
    <2> QED BY <2>1 DEF EnqueuesRows, r
  <1>2. CASE ~Refused(db, b)
    <2>1. AddsMessages(db, rows, NovelKeys(db, b), NovelIds(db, b)) BY <1>2, NovelAdds
    <2>2. /\ r.db.messages = Over(rows, db.messages) /\ r.db.challenges = db.challenges
          /\ r.answer = Acknowledged(db, b, t)
      <3>1. r = Enqueued(db, rows, NovelKeys(db, b), NovelIds(db, b), Acknowledged(db, b, t))
        BY <1>2, EnqueueIs
      <3> HIDE DEF r, rows
      <3> QED BY <3>1 DEF Enqueued, IsDb, Fields, MapFields
    <2>3. PICK m \in [DOMAIN d -> DOMAIN b] : \A i \in DOMAIN d : d[i] = b[m[i]] BY NovelFacts
    <2>4. /\ DOMAIN rows = {d[i].id : i \in DOMAIN d}
          /\ \A id \in DOMAIN rows : \E i \in DOMAIN d : d[i].id = id /\ rows[id] = Pending(d[i], t)
      BY DEF NovelRows
    <2>5. \A id \in DOMAIN rows : \E k \in DOMAIN b : id = b[k].id /\ rows[id] = Pending(b[k], t)
      <3> HIDE DEF d, rows
      <3> QED BY <2>3, <2>4
    <2>6. b \in Seq(ToSet(b)) BY DEF IsList
    <2>7. ASSUME NEW i \in DOMAIN b, NEW j \in DOMAIN b, b[i].id = b[j].id PROVE i = j
      <3>1. \A v \in DOMAIN b : \A u \in 1..(v - 1) : b[u].id # b[v].id BY <1>2 DEF Refused, Repeats
      <3>2. i \in Nat /\ j \in Nat /\ i >= 1 /\ j >= 1 BY <2>6
      <3>3. i < j => i \in 1..(j - 1) BY <3>2
      <3>4. j < i => j \in 1..(i - 1) BY <3>2
      <3> HIDE DEF b
      <3> QED BY <2>7, <3>1, <3>2, <3>3, <3>4
    <2>8. ASSUME NEW k \in DOMAIN b, ~Known(db, b[k])
          PROVE  b[k].id \in DOMAIN rows /\ rows[b[k].id] = Pending(b[k], t)
      <3>1. b[k] \in ToSet(d)
        <4>1. ToSet(d) = ToSet(b) \cap {x \in ToSet(b) : ~Known(db, x)} BY OnlyList DEF Novel
        <4>2. b[k] \in ToSet(b) BY DEF ToSet
        <4> HIDE DEF d, b
        <4> QED BY <2>8, <4>1, <4>2
      <3>2. \E i \in DOMAIN d : d[i] = b[k] BY <3>1 DEF ToSet
      <3>3. b[k].id \in DOMAIN rows
        <4> HIDE DEF d, rows, b
        <4> QED BY <2>4, <3>2
      <3>4. PICK l \in DOMAIN b : b[k].id = b[l].id /\ rows[b[k].id] = Pending(b[l], t) BY <2>5, <3>3
      <3>5. k = l BY <3>4, <2>7
      <3> QED BY <3>3, <3>4, <3>5
    <2>9. /\ DOMAIN r.db.messages = DOMAIN rows \cup DOMAIN db.messages
          /\ \A id \in DOMAIN rows : r.db.messages[id] = rows[id]
          /\ \A id \in DOMAIN db.messages : r.db.messages[id] = db.messages[id]
      <3>1. DOMAIN rows \cap DOMAIN db.messages = {} BY <2>1 DEF AddsMessages
      <3> HIDE DEF r, rows
      <3> QED BY <2>2, <3>1 DEF Over
    <2>10. DOMAIN r.answer = DOMAIN b /\ \A k \in DOMAIN b : r.answer[k] = Acknowledgement(db, b[k], t)
      BY <2>2 DEF Acknowledged
    <2> HIDE DEF r, rows, d
    <2>11. ASSUME NEW k \in DOMAIN b PROVE Confirms(r.db, r.answer[k])
      <3> DEFINE a == r.answer[k]
                 id == IF Known(db, b[k]) THEN db.keys[b[k].key] ELSE b[k].id
                 row == IF Known(db, b[k]) THEN db.messages[id] ELSE Pending(b[k], t)
      <3>1. /\ a.id = id /\ a.status = row.status
            /\ a.key = row.key /\ a.policy = row.policy /\ a.content = row.content
        <4> DEFINE x == [id |-> id, key |-> row.key, policy |-> row.policy, content |-> row.content,
                         expiresAt |-> row.expiresAt, status |-> row.status,
                         attempts |-> row.attempts, replayed |-> Known(db, b[k])]
        <4>1. Acknowledgement(db, b[k], t) = x BY ONLY DEF Acknowledgement
        <4>2. a = x BY <2>10, <4>1
        <4> HIDE DEF a, id, row
        <4> QED BY <4>2
      <3>2. id \in DOMAIN r.db.messages /\ r.db.messages[id] = row
        <4>1. CASE Known(db, b[k])
          <5>1. db.keys[b[k].key] \in DOMAIN db.messages BY <1>2, <4>1 DEF Refused, Has
          <5> QED BY <4>1, <5>1, <2>9
        <4>2. CASE ~Known(db, b[k]) BY <4>2, <2>8, <2>9
        <4> QED BY <4>1, <4>2
      <3> HIDE DEF a, id, row
      <3> QED BY <3>1, <3>2 DEF Confirms, Meaning, a
    <2>12. EnqueuesRows(r.db, db, b, t) BY <2>2, <2>5, <2>9 DEF EnqueuesRows
    <2> QED BY <2>10, <2>11, <2>12 DEF r
  <1> QED BY <1>1, <1>2

\* What the worker asks of the outbox leaves every message its content.
LEMMA WorkerRows ==
  ASSUME NEW db, Sound(db), NEW c, IsCall(c), c.op \in WorkerOps, NEW t
  PROVE  /\ SameMessages(Perform(db, c, t).db, db)
         /\ Perform(db, c, t).db.challenges = db.challenges
  <1> DEFINE n == Perform(db, c, t).db
  <1>0. IsDb(db) BY DEF Sound
  <1>1. CASE c.op = "claimBatch"
    <2> DEFINE eligible == Only(db.order, {id \in DOMAIN db.messages : Eligible(db.messages[id], t)})
               taken == SubSeq(eligible, 1, Min({c.limit, Len(eligible)}))
               walked == {db.order[i] : i \in {i \in DOMAIN db.order :
                            Len(taken) = c.limit =>
                              \E j \in DOMAIN db.order : j >= i /\ db.order[j] = Last(taken)}}
               lease(id) == db.leaseSequence + CHOOSE m \in DOMAIN taken : taken[m] = id
               new == [id \in walked |->
                         IF id \in ToSet(taken)
                         THEN Leased(Swept(db.messages[id], t), c.worker, lease(id), t)
                         ELSE Swept(db.messages[id], t)]
    <2>1. Perform(db, c, t) = claimBatch(db, c, t) BY ONLY <1>1 DEF Perform
    <2>2. claimBatch(db, c, t).db
            = [db EXCEPT !.messages = Over(new, db.messages), !.leaseSequence = db.leaseSequence + Len(taken)]
      BY DEF claimBatch
    <2>3. walked \subseteq DOMAIN db.messages
      <3>1. ToSet(db.order) = DOMAIN db.messages BY DEF Sound, Indexed
      <3> QED BY <3>1 DEF ToSet
    <2> HIDE DEF walked, lease, taken, eligible
    <2>4. \A id \in walked : new[id].content = db.messages[id].content
      <3>1. \A row : Swept(row, t).content = row.content BY DEF Swept, Charged
      <3>2. \A row, w, l : Leased(row, w, l, t).content = row.content BY DEF Leased
      <3>3. \A id \in walked : \/ new[id] = Swept(db.messages[id], t)
                               \/ new[id] = Leased(Swept(db.messages[id], t), c.worker, lease(id), t)
        OBVIOUS
      <3> HIDE DEF new
      <3> QED BY ONLY <3>1, <3>2, <3>3
    <2>5. DOMAIN new = walked OBVIOUS
    <2> HIDE DEF new
    <2>6. n.messages = Over(new, db.messages) /\ n.challenges = db.challenges
      BY <2>1, <2>2, <1>0 DEF IsDb, Fields, MapFields
    <2> HIDE DEF n
    <2>7. SameMessages(n, db) BY <2>3, <2>4, <2>5, <2>6 DEF SameMessages, Over
    <2> QED BY <2>6, <2>7 DEF n
  <1>2. CASE c.op = "cleanupTerminal"
    <2>1. Perform(db, c, t) = cleanupTerminal(db, c, t) BY ONLY <1>2 DEF Perform
    <2> DEFINE old == {id \in DOMAIN db.messages :
                         /\ db.messages[id].status \in {"dispatched", "dead"}
                         /\ db.messages[id].updatedAt <= t}
    <2>2. n.messages = Without(db.messages, old) /\ n.challenges = db.challenges
      <3> DEFINE o == Only(db.order, DOMAIN db.messages \ old)
                 k == Without(db.keys, {k \in DOMAIN db.keys :
                                          \E id \in old : db.messages[id].key = k /\ db.keys[k] = id})
                 m == Without(db.messages, old)
      <3>1. n = [db EXCEPT !.messages = m, !.order = o, !.keys = k] BY <2>1 DEF cleanupTerminal
      <3> HIDE DEF n, m, o, k
      <3>2. n.messages = m /\ n.challenges = db.challenges BY <3>1, <1>0 DEF IsDb, Fields, MapFields
      <3> QED BY <3>2 DEF m
    <2> HIDE DEF n, old
    <2> QED BY <2>2 DEF SameMessages, Without, n
  <1>3. CASE c.op \in {"renewLease", "markDispatched", "markFailed"}
    <2> DEFINE row == db.messages[c.id]
               until == [[row EXCEPT !.lease.until = Later(t, LeaseSeconds)] EXCEPT !.updatedAt = t]
               sent == [[row EXCEPT !.status = "dispatched", !.lease = NoLease] EXCEPT !.updatedAt = t]
               ended(s) == [[Charged(row, s) EXCEPT !.availableAt = t] EXCEPT !.updatedAt = t]
    <2>1. /\ until.content = row.content /\ sent.content = row.content
          /\ \A s : ended(s).content = row.content
      BY DEF Charged
    <2>2. \/ n = db
          \/ c.id \in DOMAIN db.messages /\ \E v, a : v.content = row.content
               /\ n = Stores(db, "messages", c.id, v, a).db
      <3> HIDE DEF n, row
      <3>1. \/ Perform(db, c, t) = renewLease(db, c, t)
            \/ Perform(db, c, t) = markDispatched(db, c, t)
            \/ Perform(db, c, t) = markFailed(db, c, t)
        BY ONLY <1>3 DEF Perform
      <3>2. \A a : Answers(db, a).db = db BY DEF Answers
      <3>3. CASE Perform(db, c, t) = renewLease(db, c, t)
        BY ONLY <2>1, <3>2, <3>3 DEF renewLease, UnderLease, validOutboxLease, Has, row, n
      <3>4. CASE Perform(db, c, t) = markDispatched(db, c, t)
        BY ONLY <2>1, <3>2, <3>4 DEF markDispatched, UnderLease, validOutboxLease, Has, row, n
      <3>5. CASE Perform(db, c, t) = markFailed(db, c, t)
        BY ONLY <2>1, <3>2, <3>5 DEF markFailed, UnderLease, validOutboxLease, Has, row, n
      <3> QED BY <3>1, <3>3, <3>4, <3>5
    <2>3. CASE n = db BY <2>3 DEF SameMessages
    <2>4. CASE c.id \in DOMAIN db.messages /\ \E v, a : v.content = row.content
                 /\ n = Stores(db, "messages", c.id, v, a).db
      <3>1. PICK v, a : v.content = row.content /\ n = Stores(db, "messages", c.id, v, a).db BY <2>4
      <3> HIDE DEF n
      <3>2. n.messages = Put(db.messages, c.id, v) /\ n.challenges = db.challenges
        BY <3>1, <1>0 DEF Stores, IsDb, Fields, MapFields
      <3>3. DOMAIN n.messages = DOMAIN db.messages BY <2>4, <3>2 DEF Put
      <3>4. \A id \in DOMAIN n.messages : n.messages[id].content = db.messages[id].content
        BY <3>1, <3>2 DEF Put
      <3> QED BY <3>2, <3>3, <3>4 DEF SameMessages, n
    <2> QED BY <2>2, <2>3, <2>4
  <1> QED BY <1>1, <1>2, <1>3 DEF WorkerOps

\* Only a batch adds messages.
LEMMA CallMessages ==
  ASSUME NEW db, Sound(db), NEW c, IsCall(c), c.op # "enqueueBatch", NEW t
  PROVE  SameMessages(Perform(db, c, t).db, db)
  <1>1. CASE c.op \in WorkerOps BY <1>1, WorkerRows
  <1>2. CASE c.op \notin WorkerOps
    <2>1. Aside(Perform(db, c, t).db, db) BY <1>2, CallAside DEF Sound
    <2> QED BY <2>1 DEF Aside, SameMessages
  <1> QED BY <1>1, <1>2

\* Only createChallenge adds a challenge, and then the one it is asked for.
LEMMA CallChallenges ==
  ASSUME NEW db, Sound(db), NEW c, IsCall(c), NEW t
  PROVE  LET r == Perform(db, c, t) IN
         /\ c.op # "createChallenge" => DOMAIN r.db.challenges = DOMAIN db.challenges
         /\ c.op = "createChallenge" =>
              /\ DOMAIN r.db.challenges \subseteq DOMAIN db.challenges \cup {c.challenge}
              /\ r.answer = "ok" => c.challenge \in DOMAIN r.db.challenges \ DOMAIN db.challenges
  <1> DEFINE r == Perform(db, c, t)
             n == r.db
             h == c.challenge
  <1>0. IsDb(db) BY DEF Sound
  <1>1. CASE c.op \in WorkerOps
    <2>1. n.challenges = db.challenges BY <1>1, WorkerRows
    <2> QED BY <1>1, <2>1 DEF WorkerOps
  <1>2. CASE c.op = "enqueueBatch"
    <2>1. r = enqueueBatch(db, c, t) BY ONLY <1>2 DEF Perform
    <2>2. IsList(c.batch) BY <1>2 DEF IsCall
    <2>3. n.challenges = db.challenges BY <1>0, <2>1, <2>2, EnqueueRows DEF EnqueuesRows
    <2> QED BY <1>2, <2>3
  <1>3. ASSUME NEW v, NEW a PROVE Stores(db, "challenges", h, v, a).db.challenges = Put(db.challenges, h, v)
    BY <1>0 DEF Stores, IsDb, Fields, MapFields
  <1>4. \A v : DOMAIN Put(db.challenges, h, v) = DOMAIN db.challenges \cup {h} BY DEF Put
  <1>5. \A a : Answers(db, a).db.challenges = db.challenges /\ Answers(db, a).answer = a BY DEF Answers
  <1>6. CASE c.op = "createChallenge"
    <2>1. r = createChallenge(db, c, t) BY ONLY <1>6 DEF Perform
    <2>2. \/ r = Answers(db, "STORE_UNAVAILABLE")
          \/ h \notin DOMAIN db.challenges /\ \E v : r = Stores(db, "challenges", h, v, "ok")
      BY <2>1 DEF createChallenge, Has
    <2> HIDE DEF r
    <2>3. CASE r = Answers(db, "STORE_UNAVAILABLE") BY <1>5, <1>6, <2>3 DEF r
    <2>4. CASE h \notin DOMAIN db.challenges /\ \E v : r = Stores(db, "challenges", h, v, "ok")
      <3>1. PICK v : r = Stores(db, "challenges", h, v, "ok") BY <2>4
      <3>2. DOMAIN n.challenges = DOMAIN db.challenges \cup {h} BY <3>1, <1>3, <1>4
      <3> QED BY <1>6, <2>4, <3>2 DEF r
    <2> QED BY <2>2, <2>3, <2>4
  <1>7. CASE c.op \in {"findChallenge", "recordFailedAttempt", "consumePending"}
    <2>1. \/ r = findChallenge(db, c, t) \/ r = recordFailedAttempt(db, c, t) \/ r = consumePending(db, c, t)
      BY ONLY <1>7 DEF Perform
    <2>2. (\E a : r = Answers(db, a)) \/ (h \in DOMAIN db.challenges /\ \E v, a : r = Stores(db, "challenges", h, v, a))
      <3> HIDE DEF r
      <3>1. CASE r = findChallenge(db, c, t) BY <3>1 DEF findChallenge
      <3>2. CASE r = recordFailedAttempt(db, c, t) BY <3>2 DEF recordFailedAttempt, Moves, Has
      <3>3. CASE r = consumePending(db, c, t) BY <3>3 DEF consumePending, Moves, Has
      <3> QED BY <2>1, <3>1, <3>2, <3>3
    <2> HIDE DEF r
    <2>3. CASE \E a : r = Answers(db, a)
      <3>1. DOMAIN n.challenges = DOMAIN db.challenges BY <2>3, <1>5
      <3> QED BY <1>7, <3>1 DEF r
    <2>4. CASE h \in DOMAIN db.challenges /\ \E v, a : r = Stores(db, "challenges", h, v, a)
      <3>1. PICK v, a : r = Stores(db, "challenges", h, v, a) BY <2>4
      <3>2. n.challenges = Put(db.challenges, h, v) BY <3>1, <1>3
      <3>3. DOMAIN n.challenges = DOMAIN db.challenges BY <2>4, <3>2, <1>4
      <3> QED BY <1>7, <3>3 DEF r
    <2> QED BY <2>2, <2>3, <2>4
  <1>8. CASE c.op = "cleanupExpiredChallenges"
    <2> DEFINE due == {k \in DOMAIN db.challenges :
                         db.challenges[k].status = "pending" /\ db.challenges[k].expiresAt <= t}
    <2>1. r = cleanupExpiredChallenges(db, c, t) BY ONLY <1>8 DEF Perform
    <2>2. n.challenges = Over([k \in due |-> [Aged(db.challenges[k], t) EXCEPT !.status = "expired"]], db.challenges)
      BY <2>1, <1>0 DEF cleanupExpiredChallenges, Expires, IsDb, Fields, MapFields
    <2> HIDE DEF r
    <2>3. DOMAIN n.challenges = DOMAIN db.challenges BY <2>2 DEF Over
    <2> QED BY <1>8, <2>3 DEF r
  <1>9. CASE c.op \notin WorkerOps \cup {"enqueueBatch", "createChallenge", "findChallenge",
                "recordFailedAttempt", "consumePending", "cleanupExpiredChallenges"}
    <2> DEFINE covers == Needs(c.op)
    <2>1. covers \in SUBSET (Scopes \ {"challenges"}) BY <1>9 DEF IsCall, StoreOps, WorkerOps, Needs, Scopes
    <2> HIDE DEF covers
    <2>2. Twins(db, db, covers) BY <1>0, <2>1 DEF Twins, Agree
    <2>3. Local(r, r, db, db, Region(covers)) BY <1>9, <2>2, CallLocal DEF covers
    <2>4. "challenges" \in Fields \ Region(covers)
      BY <2>1 DEF Region, Fields, MapFields, scopeStateKeys, Scopes
    <2> HIDE DEF r
    <2>5. n.challenges = db.challenges BY <2>3, <2>4 DEF Local, Framed
    <2> QED BY <1>9, <2>5 DEF r
  <1> QED BY <1>1, <1>2, <1>6, <1>7, <1>8, <1>9

-----------------------------------------------------------------------------
(* What is stored can be delivered                                         *)

InDispatch == {"prepare", "expire", "enqueue", "acknowledge", "send"}

AllSealed(db) == \A id \in DOMAIN db.messages : db.messages[id].content \in PersistableContents

\* What a client has yet to store has passed the checks on its way.
SealedWork(w) ==
  /\ \A k \in DOMAIN w.calls : Sealed(w.calls[k])
  /\ \A i \in DOMAIN w.effects : w.effects[i].content \in AcceptedByCore
  /\ w.pc \in InDispatch =>
       \A i \in ToSet(w.dispatch.prepared) :
         /\ w.dispatch.effects[i].content \in AcceptedByCore
         /\ w.pc \in {"expire", "enqueue"} => w.dispatch.effects[i].content \in AcceptedByDispatcher

Persisting ==
  /\ AllSealed(base) /\ (tx.owner # None => AllSealed(tx.working))
  /\ \A p \in Clients : SealedWork(proc[p])

LEMMA CallSealed ==
  ASSUME NEW db, Sound(db), AllSealed(db), NEW c, IsCall(c), Sealed(c), NEW t
  PROVE  AllSealed(Perform(db, c, t).db)
  <1> DEFINE n == Perform(db, c, t).db
  <1>1. CASE c.op = "enqueueBatch"
    <2>1. n = enqueueBatch(db, c, t).db BY ONLY <1>1 DEF Perform
    <2>2. IsList(c.batch) /\ IsDb(db) BY <1>1 DEF IsCall, Sound
    <2>3. EnqueuesRows(n, db, c.batch, t) BY <2>1, <2>2, EnqueueRows
    <2>4. \A k \in DOMAIN c.batch : Pending(c.batch[k], t).content \in PersistableContents
      BY <1>1 DEF Sealed, Pending
    <2> HIDE DEF n
    <2> QED BY <2>3, <2>4 DEF EnqueuesRows, AllSealed, n
  <1>2. CASE c.op # "enqueueBatch"
    <2>1. SameMessages(n, db) BY <1>2, CallMessages
    <2> HIDE DEF n
    <2> QED BY <2>1 DEF SameMessages, AllSealed, n
  <1> QED BY <1>1, <1>2

LEMMA SeedSealed ==
  ASSUME NEW s \in DOMAIN Scenes
  PROVE  AllSealed(Seed(Scenes[s].seed))
  <1> DEFINE calls == Scenes[s].seed
             log == [k \in DOMAIN calls |-> [call |-> calls[k], at |-> 0]]
             h == History(createEmptyState, log)
             m == Len(calls)
             S == {k \in Nat : k <= m => AllSealed(h[k])}
  <1>1. IsList(calls) /\ \A k \in DOMAIN calls : IsCall(calls[k]) /\ Sealed(calls[k])
    BY ScenesAssumption DEF IsScene
  <1>2. Seed(calls) = h[m] BY DEF Seed
  <1> HIDE DEF calls
  <1>3. DOMAIN calls = 1..m /\ m \in Nat BY <1>1 DEF IsList
  <1>4. Len(log) = m /\ \A k \in 1..m : log[k].call = calls[k] BY <1>3
  <1> HIDE DEF log, m
  <1>5. Len(log) \in Nat /\ \A k \in 1..Len(log) : IsCall(log[k].call) BY <1>1, <1>3, <1>4
  <1>6. \A k \in 0..Len(log) : Sound(h[k]) BY ONLY <1>5, EmptySound, HistorySound
  <1>7. h[0] = createEmptyState /\ \A k \in 1..m : h[k] = Perform(h[k - 1], log[k].call, log[k].at).db
    BY <1>4, <1>5, HistoryFacts
  <1> HIDE DEF h
  <1>8. 0 \in S
    <2>1. AllSealed(createEmptyState) BY DEF AllSealed, createEmptyState, EmptyMap
    <2> QED BY <1>7, <2>1
  <1>9. ASSUME NEW k \in Nat, k \in S PROVE k + 1 \in S
    <2> SUFFICES ASSUME k + 1 <= m PROVE AllSealed(h[k + 1])
      OBVIOUS
    <2>1. k + 1 \in 1..m /\ (k + 1) - 1 = k /\ k \in 0..m /\ AllSealed(h[k]) BY <1>3, <1>9
    <2>2. h[k + 1] = Perform(h[k], calls[k + 1], log[k + 1].at).db BY <2>1, <1>4, <1>7
    <2>3. IsCall(calls[k + 1]) /\ Sealed(calls[k + 1]) /\ Sound(h[k]) BY <2>1, <1>1, <1>3, <1>4, <1>6
    <2>4. AllSealed(Perform(h[k], calls[k + 1], log[k + 1].at).db) BY ONLY <2>1, <2>3, CallSealed
    <2> QED BY ONLY <2>2, <2>4
  <1> HIDE DEF S
  <1>10. Nat \subseteq S BY ONLY <1>8, <1>9, Induction
  <1> QED BY <1>2, <1>3, <1>10 DEF S, calls

\* What is left of a call that is over.
LEMMA OverIs ==
  /\ \A why : LET w == Failed(why) IN
       /\ w.pc = "done" /\ w.kind = "none" /\ w.calls = <<>> /\ w.effects = <<>> /\ w.outcome = why
  /\ \A p, report : LET w == [Done(p) EXCEPT !.report = report] IN
       /\ w.pc = "done" /\ w.kind = proc[p].kind /\ w.calls = <<>> /\ w.effects = proc[p].effects
       /\ w.report = report /\ w.sends = proc[p].sends /\ w.outcome = "committed"
  /\ \A p : LET w == Done(p) IN
       /\ w.pc = "done" /\ w.kind = proc[p].kind /\ w.calls = <<>> /\ w.effects = proc[p].effects
       /\ w.report = proc[p].report /\ w.sends = proc[p].sends /\ w.outcome = "committed"
  BY DEF Failed, Done, Idle

\* The indexes of the effects of one policy.
Indexes(w, policy) == {i \in DOMAIN w.effects : w.effects[i].policy = policy}

LEMMA SelectedFacts ==
  ASSUME NEW effects, IsList(effects), NEW policy
  PROVE  LET o == Selected(effects, policy) IN
         /\ IsList(o) /\ IsInjective(o)
         /\ ToSet(o) = {i \in DOMAIN effects : effects[i].policy = policy}
  <1> DEFINE n == Len(effects)
             s == [i \in DOMAIN effects |-> i]
  <1>1. n \in Nat /\ DOMAIN effects = 1..n BY DEF IsList
  <1>2. s = [i \in 1..n |-> s[i]] BY <1>1
  <1>3. IsInjective(s) /\ ToSet(s) = DOMAIN effects BY DEF IsInjective, ToSet
  <1> HIDE DEF s, n
  <1>4. IsList(s) BY ONLY <1>1, <1>2, FunIsList
  <1> DEFINE A == {i \in DOMAIN effects : effects[i].policy = policy}
  <1>5. Selected(effects, policy) = Only(s, A) BY DEF Selected, s
  <1>6. A \subseteq DOMAIN effects OBVIOUS
  <1> HIDE DEF A
  <1>7. IsList(Only(s, A)) /\ IsInjective(Only(s, A)) /\ ToSet(Only(s, A)) = A
    <2>1. /\ IsList(Only(s, A)) /\ IsInjective(Only(s, A))
          /\ ToSet(Only(s, A)) = ToSet(s) \cap A
      BY ONLY <1>3, <1>4, OnlyList
    <2> QED BY ONLY <1>3, <1>6, <2>1
  <1> QED BY <1>5, <1>7 DEF A

\* A dispatch is about the effects of one policy, in their order.
LEMMA DispatchesAre ==
  ASSUME NEW p, IsWork(proc[p]), NEW policy, NEW at
  PROVE  LET d == Dispatches(p, policy, at) IN
         /\ d.effects = Effects(p, policy) /\ ToSet(d.prepared) = DOMAIN d.effects
         /\ d.owner = p /\ d.failed = <<>> /\ d.sent = <<>> /\ IsInjective(d.prepared)
         /\ \A i \in DOMAIN d.effects :
              /\ Originals(p, policy)[i] \in Indexes(proc[p], policy)
              /\ d.effects[i] = proc[p].effects[Originals(p, policy)[i]]
         /\ DOMAIN d.effects = DOMAIN Originals(p, policy)
  <1> DEFINE d == Dispatches(p, policy, at)
             e == Effects(p, policy)
             o == Originals(p, policy)
             s == [i \in DOMAIN e |-> i]
  <1>1. IsList(proc[p].effects) BY DEF IsWork
  <1>2. IsList(o) /\ IsInjective(o) /\ ToSet(o) = Indexes(proc[p], policy)
    BY <1>1, SelectedFacts DEF Originals, Indexes
  <1>3. DOMAIN e = DOMAIN o /\ \A i \in DOMAIN e : e[i] = proc[p].effects[o[i]] BY DEF Effects
  <1>4. \A i \in DOMAIN o : o[i] \in Indexes(proc[p], policy) BY <1>2 DEF ToSet
  <1> HIDE DEF e, o
  <1>5. /\ d.effects = e /\ d.prepared = s /\ d.owner = p /\ d.failed = <<>> /\ d.sent = <<>>
    BY DEF Dispatches, Prepared, Dispatch, e
  <1>6. ToSet(s) = DOMAIN e /\ IsInjective(s) BY DEF ToSet, IsInjective
  <1> HIDE DEF d, s
  <1> QED BY <1>3, <1>4, <1>5, <1>6 DEF d, e, o

LEMMA DroppedFacts ==
  ASSUME NEW d, IsDispatch(d), NEW out
  PROVE  LET n == Dropped(d, out) IN
         /\ n.effects = d.effects /\ n.policy = d.policy /\ n.owner = d.owner /\ n.sent = d.sent
         /\ n.failed = d.failed \o Only(d.prepared, out)
         /\ n.prepared = Only(d.prepared, DOMAIN d.effects \ out)
  <1> DEFINE f == d.failed \o Only(d.prepared, out)
             s == Only(d.prepared, DOMAIN d.effects \ out)
             n == Dropped(d, out)
  <1>1. n = [d EXCEPT !.failed = f, !.prepared = s] BY DEF Dropped
  <1> HIDE DEF n, f, s
  <1>2. /\ n.effects = d.effects /\ n.policy = d.policy /\ n.owner = d.owner /\ n.sent = d.sent
        /\ n.failed = f /\ n.prepared = s
    BY <1>1 DEF IsDispatch, DispatchFields
  <1> QED BY <1>2 DEF n, f, s

LEMMA DroppedLeaves ==
  ASSUME NEW d, IsDispatch(d), NEW out
  PROVE  /\ Dropped(d, out).effects = d.effects
         /\ ToSet(Dropped(d, out).prepared) = ToSet(d.prepared) \cap (DOMAIN d.effects \ out)
  <1>1. /\ Dropped(d, out).effects = d.effects
        /\ Dropped(d, out).prepared = Only(d.prepared, DOMAIN d.effects \ out)
    BY DroppedFacts
  <1>2. ToSet(Only(d.prepared, DOMAIN d.effects \ out)) = ToSet(d.prepared) \cap (DOMAIN d.effects \ out)
    BY OnlyList DEF IsDispatch
  <1> QED BY <1>1, <1>2

LEMMA AfterSendFacts ==
  ASSUME NEW d, IsDispatch(d), d.prepared # <<>>, NEW accepted \in BOOLEAN
  PROVE  LET n == AfterSend(d, accepted) IN
         /\ n.effects = d.effects /\ n.policy = d.policy /\ n.owner = d.owner
         /\ n.prepared = Tail(d.prepared)
         /\ n.sent = IF accepted THEN Append(d.sent, d.prepared[1]) ELSE d.sent
         /\ n.failed = IF accepted THEN d.failed ELSE Append(d.failed, d.prepared[1])
  <1> DEFINE s == IF accepted THEN Append(d.sent, d.prepared[1]) ELSE d.sent
             f == IF accepted THEN d.failed ELSE Append(d.failed, d.prepared[1])
             r == Tail(d.prepared)
             n == AfterSend(d, accepted)
  <1>1. n = [d EXCEPT !.prepared = r, !.sent = s, !.failed = f] BY DEF AfterSend, NextToSend
  <1> HIDE DEF n, f, s, r
  <1>2. /\ n.effects = d.effects /\ n.policy = d.policy /\ n.owner = d.owner
        /\ n.prepared = r /\ n.sent = s /\ n.failed = f
    BY <1>1 DEF IsDispatch, DispatchFields
  <1> QED BY <1>2 DEF n, f, s, r

\* The first of a list without repetition is not in its tail.
LEMMA TailFacts ==
  ASSUME NEW s, IsList(s), s # <<>>
  PROVE  /\ IsList(Tail(s)) /\ ToSet(Tail(s)) \subseteq ToSet(s) /\ s[1] \in ToSet(s)
         /\ \A k \in DOMAIN Tail(s) : k + 1 \in DOMAIN s /\ Tail(s)[k] = s[k + 1]
         /\ IsInjective(s) =>
              IsInjective(Tail(s)) /\ ToSet(Tail(s)) = ToSet(s) \ {s[1]}
  <1> DEFINE T == ToSet(s)
             t == Tail(s)
             n == Len(s)
  <1>1. s \in Seq(T) BY DEF IsList
  <1>2. n \in Nat /\ n >= 1 /\ DOMAIN s = 1..n BY <1>1
  <1>3. t \in Seq(T) /\ DOMAIN t = 1..(n - 1) /\ \A k \in 1..(n - 1) : t[k] = s[k + 1] BY <1>1, <1>2
  <1> HIDE DEF t
  <1>4. \A x \in T : \E k \in 1..n : s[k] = x BY <1>2 DEF ToSet
  <1>5. \A k \in 1..n : s[k] \in T BY <1>2 DEF ToSet
  <1> HIDE DEF T, n
  <1>6. \A k \in 1..(n - 1) : k + 1 \in 1..n BY <1>2
  <1>7. IsList(t)
    <2>1. Len(t) = n - 1 /\ n - 1 \in Nat BY <1>2, <1>3
    <2>2. t = [k \in 1..(n - 1) |-> t[k]] BY <1>3
    <2> QED BY ONLY <2>1, <2>2, FunIsList
  <1>8. ToSet(t) \subseteq T BY <1>3, <1>5, <1>6 DEF ToSet
  <1>9. 1 \in 1..n BY <1>2
  <1>10. ASSUME IsInjective(s) PROVE IsInjective(t) /\ ToSet(t) = T \ {s[1]}
    <2>1. \A i, j \in 1..n : s[i] = s[j] => i = j BY <1>2, <1>10 DEF IsInjective
    <2>2. \A i, j \in 1..(n - 1) : i + 1 = j + 1 => i = j BY <1>2
    <2>3. IsInjective(t) BY <1>3, <1>6, <2>1, <2>2 DEF IsInjective
    <2>4. ASSUME NEW k \in 1..(n - 1) PROVE t[k] # s[1]
      <3>1. k + 1 \in 1..n /\ k + 1 # 1 BY <1>2
      <3> QED BY <1>3, <1>9, <2>1, <3>1
    <2>5. ASSUME NEW x \in T, x # s[1] PROVE x \in ToSet(t)
      <3>1. PICK k \in 1..n : s[k] = x BY <1>4
      <3>2. k # 1 BY <2>5, <3>1
      <3>3. k - 1 \in 1..(n - 1) /\ (k - 1) + 1 = k BY <1>2, <3>2
      <3>4. t[k - 1] = x BY <1>3, <3>1, <3>3
      <3> QED BY <1>3, <3>3, <3>4 DEF ToSet
    <2>6. ToSet(t) \subseteq T \ {s[1]} BY <1>3, <1>8, <2>4 DEF ToSet
    <2> QED BY <2>3, <2>5, <2>6
  <1> QED BY <1>2, <1>3, <1>5, <1>6, <1>7, <1>8, <1>9, <1>10 DEF T, t

LEMMA SealedNext ==
  ASSUME Working, NEW p \in Clients, SealedWork(proc[p]), NEW w, Does(p, w)
  PROVE  SealedWork(w)
  <1> DEFINE v == proc[p]
             d == v.dispatch
  <1>0. IsWork(v) BY DEF Working
  <1>1. /\ \A k \in DOMAIN v.calls : Sealed(v.calls[k])
        /\ \A i \in DOMAIN v.effects : v.effects[i].content \in AcceptedByCore
    BY DEF SealedWork
  <1>2. ASSUME w.calls = v.calls \/ w.calls = <<>>, w.effects = v.effects \/ w.effects = <<>>,
               w.pc \notin InDispatch
        PROVE  SealedWork(w)
    BY <1>1, <1>2 DEF SealedWork
  <1>3. v.pc \in InDispatch => IsDispatch(d) BY <1>0 DEF IsWork, InDispatch
  <1> HIDE DEF v, d
  <1>4. CASE Fails(p, w)
    <2>1. PICK why : w = Failed(why) BY <1>4 DEF Fails
    <2>2. w.pc \notin InDispatch /\ w.calls = <<>> /\ w.effects = <<>> BY <2>1, OverIs DEF InDispatch
    <2> QED BY <1>2, <2>2
  <1>5. CASE Waits(p, w)
    <2>1. w.pc \notin InDispatch BY <1>5 DEF Waits, InDispatch
    <2>2. CASE w.kind = "script"
      <3>1. PICK s \in Scenes[scene].scripts : w.calls = s.calls /\ w.effects = <<>> BY <1>5, <2>2 DEF Waits
      <3>2. \A k \in DOMAIN s.calls : Sealed(s.calls[k]) BY ScenesAssumption DEF Working, IsScene
      <3> QED BY <2>1, <3>1, <3>2 DEF SealedWork
    <2>3. CASE w.kind = "begin"
      <3>1. PICK o \in Scenes[scene].outputs : CanBegin(o) /\ w.effects = o.effects /\ w.calls = <<>>
        BY <1>5, <2>3 DEF Waits
      <3>2. \A i \in DOMAIN o.effects : o.effects[i].content \in AcceptedByCore
        BY <3>1 DEF CanBegin, AcceptsOutput, isSideEffects
      <3> QED BY <2>1, <3>1, <3>2 DEF SealedWork
    <2> QED BY <1>5, <2>2, <2>3 DEF Waits
  <1>6. CASE Starts(p, w) \/ Rechecks(p, w)
    <2>1. w.pc \notin InDispatch BY <1>6 DEF Starts, Rechecks, InDispatch
    <2>2. w.calls = v.calls /\ w.effects = v.effects BY <1>6 DEF Starts, Rechecks, SameBut, IdleFields, v
    <2> QED BY <1>2, <2>1, <2>2
  <1>7. CASE Asks(p, w)
    <2>1. w.pc = "run" /\ w.effects = v.effects /\ w.calls = Tail(v.calls) /\ v.calls # <<>>
      BY <1>7 DEF Asks, SameBut, IdleFields, v
    <2>2. IsList(v.calls) BY <1>0 DEF IsWork
    <2>3. \A k \in DOMAIN w.calls : Sealed(w.calls[k]) BY <1>1, <2>1, <2>2, TailFacts
    <2> QED BY <1>1, <2>1, <2>3 DEF SealedWork, InDispatch
  <1>8. ASSUME NEW policy, NEW at, NEW n, n = Dispatches(p, policy, at) \/ \E out : n = Dropped(Dispatches(p, policy, at), out),
               w.dispatch = n, w.calls = v.calls, w.effects = v.effects, w.pc \in {"prepare", "send"}
        PROVE  SealedWork(w)
    <2> DEFINE e == Dispatches(p, policy, at)
    <2>1. IsDispatch(e) BY <1>0, DispatchesIs DEF v
    <2>2. ToSet(e.prepared) = DOMAIN e.effects /\ \A i \in DOMAIN e.effects : e.effects[i].content \in AcceptedByCore
      <3>1. ToSet(e.prepared) = DOMAIN e.effects BY <1>0, DispatchesAre DEF v
      <3>2. ASSUME NEW i \in DOMAIN e.effects PROVE e.effects[i].content \in AcceptedByCore
        <4>1. /\ Originals(p, policy)[i] \in Indexes(v, policy)
              /\ e.effects[i] = v.effects[Originals(p, policy)[i]]
          BY <1>0, DispatchesAre DEF v
        <4> HIDE DEF e
        <4> QED BY <1>1, <4>1 DEF Indexes
      <3> QED BY <3>1, <3>2
    <2> HIDE DEF e
    <2>3. n.effects = e.effects /\ ToSet(n.prepared) \subseteq DOMAIN e.effects
      <3>1. \A out : /\ Dropped(e, out).effects = e.effects
                     /\ ToSet(Dropped(e, out).prepared) \subseteq ToSet(e.prepared)
        BY <2>1, DroppedLeaves
      <3>2. n = e \/ \E out : n = Dropped(e, out) BY <1>8 DEF e
      <3> QED BY ONLY <2>2, <3>1, <3>2
    <2> QED BY <1>1, <1>8, <2>2, <2>3 DEF SealedWork
  <1>9. CASE Settled(p, w)
    <2>1. CASE w = Done(p) BY <1>2, <2>1, OverIs DEF InDispatch, v
    <2>2. CASE w # Done(p)
      <3>1. SameBut(w, v, {"pc", "dispatch"}) BY <1>9, <2>2 DEF Settled, v
      <3>2. w.calls = v.calls /\ w.effects = v.effects BY <3>1 DEF SameBut, IdleFields
      <3>3. /\ w.pc \in {"prepare", "send"}
            /\ \/ w.dispatch = Dispatches(p, "best-effort", v.at)
               \/ \E out : w.dispatch = Dropped(Dispatches(p, "best-effort", v.at), out)
        BY <1>9, <2>2 DEF Settled, v
      <3> QED BY <1>8, <3>2, <3>3
    <2> QED BY <2>1, <2>2
  <1>10. CASE Creates(p, w)
    <2>1. w.calls = v.calls /\ w.effects = v.effects BY <1>10 DEF Creates, SameBut, IdleFields, v
    <2>2. CASE w.pc = "recheck" BY <1>2, <2>1, <2>2 DEF InDispatch
    <2>3. CASE w.pc = "prepare"
      <3>1. w.dispatch = Dispatches(p, "required", now) BY <1>10, <2>3 DEF Creates
      <3> QED BY <1>8, <2>1, <2>3, <3>1
    <2> QED BY <1>10, <2>2, <2>3 DEF Creates
  <1>11. CASE Answering(p, w)
    <2>1. PICK answer : Replies(p, w, answer) BY <1>11 DEF Answering
    <2>2. \/ w.pc = "recheck" /\ SameBut(w, v, {"pc", "report", "dispatch"})
          \/ \E report : w = [Done(p) EXCEPT !.report = report]
      BY <2>1 DEF Replies, v
    <2>3. CASE w.pc = "recheck" /\ SameBut(w, v, {"pc", "report", "dispatch"})
      BY <1>2, <2>3 DEF SameBut, IdleFields, InDispatch
    <2>4. CASE \E report : w = [Done(p) EXCEPT !.report = report]
      <3>1. w.pc = "done" /\ w.calls = <<>> /\ w.effects = v.effects BY <2>4, OverIs DEF v
      <3> QED BY <1>2, <3>1 DEF InDispatch
    <2> QED BY <2>2, <2>3, <2>4
  <1>12. CASE Goes(p, w)
    <2>1. PICK out \in SUBSET DOMAIN d.effects :
            /\ w.dispatch = Dropped(d, out)
            /\ \/ /\ v.pc = "prepare" /\ w.pc = "expire"
                  /\ \A i \in DOMAIN d.effects \ out : d.effects[i].content \in AcceptedByDispatcher
               \/ v.pc = "expire" /\ w.pc = "enqueue"
      BY <1>12 DEF Goes, v, d
    <2>2. w.calls = v.calls /\ w.effects = v.effects BY <1>12 DEF Goes, SameBut, IdleFields, v
    <2>3. v.pc \in InDispatch BY <2>1 DEF InDispatch
    <2>4. /\ w.dispatch.effects = d.effects
          /\ ToSet(w.dispatch.prepared) = ToSet(d.prepared) \cap (DOMAIN d.effects \ out)
      <3>1. IsDispatch(d) BY <1>3, <2>3
      <3>2. w.dispatch = Dropped(d, out) BY <2>1
      <3> QED BY ONLY <3>1, <3>2, DroppedLeaves
    <2>5. \A i \in ToSet(d.prepared) : /\ d.effects[i].content \in AcceptedByCore
                                       /\ v.pc = "expire" => d.effects[i].content \in AcceptedByDispatcher
      BY <2>3 DEF SealedWork, v, d
    <2> QED BY <1>1, <2>1, <2>2, <2>4, <2>5 DEF SealedWork
  <1>13. CASE Enqueues(p, w)
    <2>1. PICK answer : w.dispatch = [d EXCEPT !.batch = Batch(d), !.answer = answer]
      BY <1>13 DEF Enqueues, d, v
    <2>2. v.pc = "enqueue" /\ w.pc = "acknowledge" /\ w.calls = v.calls /\ w.effects = v.effects
      BY <1>13 DEF Enqueues, SameBut, IdleFields, v
    <2>3. v.pc \in InDispatch BY <2>2 DEF InDispatch
    <2>4. w.dispatch.effects = d.effects /\ w.dispatch.prepared = d.prepared
      <3> DEFINE b == Batch(d)
                 n == w.dispatch
      <3>1. n = [d EXCEPT !.batch = b, !.answer = answer] BY <2>1
      <3> HIDE DEF n, b
      <3>2. n.effects = d.effects /\ n.prepared = d.prepared BY <1>3, <2>3, <3>1 DEF IsDispatch, DispatchFields
      <3> QED BY <3>2 DEF n
    <2>5. \A i \in ToSet(d.prepared) : d.effects[i].content \in AcceptedByCore BY <2>3 DEF SealedWork, v, d
    <2> QED BY <1>1, <2>2, <2>4, <2>5 DEF SealedWork
  <1>14. CASE Sends(p, w)
    <2>1. PICK accepted \in BOOLEAN : w.dispatch = AfterSend(d, accepted) BY <1>14 DEF Sends, d, v
    <2>2. v.pc = "send" /\ d.prepared # <<>> /\ w.pc = v.pc /\ w.calls = v.calls /\ w.effects = v.effects
      BY <1>14 DEF Sends, SameBut, IdleFields, v, d
    <2>3. v.pc \in InDispatch BY <2>2 DEF InDispatch
    <2>4. w.dispatch.effects = d.effects /\ w.dispatch.prepared = Tail(d.prepared)
      BY <1>3, <2>1, <2>2, <2>3, AfterSendFacts
    <2>5. ToSet(Tail(d.prepared)) \subseteq ToSet(d.prepared) BY <1>3, <2>2, <2>3, TailFacts DEF IsDispatch
    <2>6. \A i \in ToSet(d.prepared) : d.effects[i].content \in AcceptedByCore BY <2>3 DEF SealedWork, v, d
    <2> QED BY <1>1, <2>2, <2>4, <2>5, <2>6 DEF SealedWork
  <1> QED BY <1>4, <1>5, <1>6, <1>7, <1>9, <1>10, <1>11, <1>12, <1>13, <1>14 DEF Does

\* What goes into the outbox has passed every check on the way.
LEMMA BatchSealed ==
  ASSUME NEW w, SealedWork(w), w.pc = "enqueue", StorableBatch(w.dispatch)
  PROVE  Sealed(EnqueueCall(w.dispatch))
  <1> DEFINE d == w.dispatch
             b == Batch(d)
  <1>1. ASSUME NEW k \in DOMAIN d.prepared PROVE b[k].content \in PersistableContents
    <2> DEFINE x == d.effects[d.prepared[k]].content
    <2>1. d.prepared[k] \in ToSet(d.prepared) BY DEF ToSet
    <2>2. x \in AcceptedByCore /\ x \in AcceptedByDispatcher
      <3> HIDE DEF d
      <3> QED BY <2>1 DEF SealedWork, InDispatch, d
    <2>3. x \in AcceptedByStore BY DEF StorableBatch
    <2>4. b[k].content = x BY DEF Batch, outboxMessage
    <2> HIDE DEF x
    <2> QED BY <2>2, <2>3, <2>4 DEF AcceptedByCore, AcceptedByDispatcher, AcceptedByStore,
         PersistableContents, Pipeline!Persistable
  <1>2. EnqueueCall(d).batch = b /\ DOMAIN b = DOMAIN d.prepared BY DEF EnqueueCall, Batch
  <1> HIDE DEF b, d
  <1> QED BY <1>1, <1>2 DEF Sealed, d

LEMMA BatchCall ==
  ASSUME NEW d, IsDispatch(d)
  PROVE  /\ IsCall(EnqueueCall(d)) /\ EnqueueCall(d).op = "enqueueBatch"
         /\ EnqueueCall(d).batch = Batch(d) /\ IsList(Batch(d)) /\ DOMAIN Batch(d) = DOMAIN d.prepared
  <1> DEFINE b == Batch(d)
  <1>1. DOMAIN d.prepared = 1..Len(d.prepared) /\ Len(d.prepared) \in Nat BY DEF IsDispatch, IsList
  <1>2. b = [k \in 1..Len(d.prepared) |-> b[k]] BY <1>1 DEF Batch
  <1> HIDE DEF b
  <1>3. IsList(b) BY ONLY <1>1, <1>2, FunIsList
  <1>4. EnqueueCall(d).op = "enqueueBatch" /\ EnqueueCall(d).batch = b BY DEF EnqueueCall, b
  <1>5. DOMAIN b = DOMAIN d.prepared BY <1>1, <1>2
  <1> QED BY <1>3, <1>4, <1>5 DEF IsCall, StoreOps, WorkerOps, b

LEMMA ChallengeIsCall ==
  ASSUME Working, NEW p \in Clients, proc[p].pc = "run", proc[p].kind = "begin"
  PROVE  /\ IsCall(ChallengeCall(p)) /\ ChallengeCall(p).op = "createChallenge"
         /\ ChallengeCall(p).challenge = p
  <1>1. proc[p].expiresAt \in Time BY DEF Working, IsWork
  <1>2. /\ ChallengeCall(p).op = "createChallenge" /\ ChallengeCall(p).challenge = p
        /\ ChallengeCall(p).expiresAt = proc[p].expiresAt
    BY DEF ChallengeCall
  <1> QED BY <1>1, <1>2 DEF IsCall, StoreOps, WorkerOps

\* A call inside the transaction changes its maps as the call says, or is refused.
LEMMA InsideGoes ==
  ASSUME Working, NEW c
  PROVE  /\ Calls(c).tx.owner = tx.owner /\ Calls(c).tx.before = tx.before
         /\ Calls(c).tx.covers = tx.covers
         /\ Calls(c).tx.working \in {tx.working, Perform(tx.working, c, now).db}
  BY CallsIs DEF Working

LEMMA MapsSealed ==
  ASSUME Invariant, Persisting, NEW p \in Clients, NEW w, Does(p, w)
  PROVE  AllSealed(base') /\ (tx'.owner # None => AllSealed(tx'.working))
  <1>0. Working /\ Trusted /\ IsTurn(tx) /\ Sound(base) BY DEF Invariant, Working, Trusted
  <1>1. AllSealed(base) /\ (tx.owner # None => AllSealed(tx.working) /\ Sound(tx.working)) /\ SealedWork(proc[p])
    BY <1>0 DEF Persisting, Trusted, Turn
  <1>2. p # None BY StackAssumption
  <1>3. ASSUME NEW c, IsCall(c), Sealed(c), tx.owner = p, tx' = Calls(c).tx
        PROVE  tx'.owner # None => AllSealed(tx'.working)
    <2>1. AllSealed(Perform(tx.working, c, now).db) BY <1>1, <1>2, <1>3, CallSealed
    <2> QED BY <1>0, <1>1, <1>2, <1>3, <2>1, InsideGoes
  <1>4. CASE Still BY <1>1, <1>4 DEF Still
  <1>5. CASE Fails(p, w) BY <1>1, <1>5, NoTurnIs DEF Fails
  <1>6. CASE Starts(p, w)
    <2>1. tx'.working = base /\ base' = base BY <1>6 DEF Starts, cloneState
    <2> QED BY <1>1, <2>1
  <1>7. CASE Asks(p, w)
    <2> DEFINE c == Head(proc[p].calls)
    <2>1. base' = base /\ tx' = Calls(c).tx /\ proc[p].calls # <<>> /\ proc[p].pc = "run" BY <1>7 DEF Asks
    <2>2. IsList(proc[p].calls) /\ \A k \in 1..Len(proc[p].calls) : IsCall(proc[p].calls[k])
      BY <1>0 DEF Working, IsWork
    <2>3. 1 \in DOMAIN proc[p].calls /\ c = proc[p].calls[1] /\ 1 \in 1..Len(proc[p].calls)
      BY <2>1, <2>2 DEF IsList
    <2>4. IsCall(c) /\ Sealed(c) BY <1>1, <2>2, <2>3 DEF SealedWork
    <2>5. tx.owner = p BY <1>0, <2>1 DEF Working, Turning
    <2> HIDE DEF c
    <2> QED BY <1>1, <1>3, <2>1, <2>4, <2>5
  <1>8. CASE Settled(p, w)
    <2>1. /\ tx.owner = p /\ base' = applyTransactionState(base, tx) /\ tx' = NoTurn
          /\ canCommitTransactionState(base, tx) /\ canCommitMemoryOutboxState(base, tx)
      BY <1>8 DEF Settled, canCommit, Keeps
    <2>2. Turn(tx) /\ Beside(base, tx) BY <1>0, <1>2, <2>1 DEF Trusted
    <2>3. base'["messages"] \in {base["messages"], tx.working["messages"]}
      BY <1>0, <2>1, <2>2, CommitIs DEF Fields, MapFields
    <2> QED BY <1>1, <1>2, <2>1, <2>3, NoTurnIs DEF AllSealed
  <1>9. CASE Creates(p, w)
    <2>1. /\ base' = base /\ tx' = Calls(ChallengeCall(p)).tx
          /\ proc[p].pc = "run" /\ proc[p].kind = "begin"
      BY <1>9 DEF Creates
    <2>2. IsCall(ChallengeCall(p)) /\ Sealed(ChallengeCall(p)) BY <1>0, <2>1, ChallengeIsCall DEF Sealed
    <2>3. tx.owner = p BY <1>0, <2>1 DEF Working, Turning
    <2> QED BY <1>1, <1>3, <2>1, <2>2, <2>3
  <1>10. CASE Enqueues(p, w)
    <2> DEFINE d == proc[p].dispatch
               c == EnqueueCall(d)
    <2>1. /\ proc[p].pc = "enqueue" /\ StorableBatch(d)
          /\ \/ d.policy = "required" /\ tx' = Calls(c).tx /\ base' = base
             \/ tx' = Touch(Perform(base, c, now).wrote) /\ base' = Perform(base, c, now).db
      BY <1>10 DEF Enqueues, Keeps
    <2>2. IsDispatch(d) BY <1>0, <2>1 DEF Working, IsWork
    <2>3. IsCall(c) /\ Sealed(c) BY <1>1, <2>1, <2>2, BatchCall, BatchSealed
    <2>4. d.policy = "required" => tx.owner = p BY <1>0, <2>1 DEF Working, Turning
    <2> HIDE DEF c, d
    <2>5. CASE d.policy = "required" /\ tx' = Calls(c).tx /\ base' = base
      BY <1>1, <1>3, <2>3, <2>4, <2>5
    <2>6. CASE tx' = Touch(Perform(base, c, now).wrote) /\ base' = Perform(base, c, now).db
      <3>1. AllSealed(base') BY <1>0, <1>1, <2>3, <2>6, CallSealed
      <3>2. tx'.owner = tx.owner /\ tx'.working = tx.working BY <1>0, <2>6, TouchIs
      <3> QED BY <1>1, <3>1, <3>2
    <2> QED BY <2>1, <2>5, <2>6
  <1> QED BY <1>4, <1>5, <1>6, <1>7, <1>8, <1>9, <1>10 DEF Does, Waits, Rechecks, Answering, Replies, Goes, Sends

\* A direct call.
LEMMA DirectCallIs ==
  ASSUME Working, DirectCall
  PROVE  \E c : /\ IsCall(c) /\ Sealed(c) /\ Foreign(c)
                /\ base' = Perform(base, c, now).db /\ stored' = stored \cup Held(base')
                /\ tx' = Touch(Perform(base, c, now).wrote) /\ proc' = proc
  <1>1. PICK c \in Scenes[scene].direct :
          /\ Keeps(Perform(base, c, now).db) /\ tx' = Touch(Perform(base, c, now).wrote)
    BY DEF DirectCall
  <1>2. proc' = proc BY DEF DirectCall
  <1>3. IsCall(c) /\ Sealed(c) /\ Foreign(c) BY ScenesAssumption DEF Working, IsScene
  <1> QED BY <1>1, <1>2, <1>3 DEF Keeps

LEMMA NextPersisting ==
  ASSUME Invariant, Persisting, [Next]_vars
  PROVE  Persisting'
  <1>0. Working /\ Sound(base) /\ IsTurn(tx) BY DEF Invariant, Working, Trusted
  <1>1. CASE Tick \/ Finished \/ UNCHANGED vars
    <2>1. base' = base /\ tx' = tx /\ proc' = proc BY <1>1 DEF Tick, Finished, vars
    <2> QED BY <2>1 DEF Persisting, AllSealed, SealedWork, Sealed
  <1>2. CASE DirectCall
    <2>1. PICK c : /\ IsCall(c) /\ Sealed(c) /\ base' = Perform(base, c, now).db
                   /\ tx' = Touch(Perform(base, c, now).wrote) /\ proc' = proc
      BY <1>0, <1>2, DirectCallIs
    <2>2. AllSealed(base') BY <1>0, <2>1, CallSealed DEF Persisting
    <2>3. tx'.owner = tx.owner /\ tx'.working = tx.working BY <1>0, <2>1, TouchIs
    <2> QED BY <2>1, <2>2, <2>3 DEF Persisting, AllSealed, SealedWork, Sealed
  <1>3. ASSUME NEW p \in Clients, Step(p) PROVE Persisting'
    <2>1. PICK w : proc' = [proc EXCEPT ![p] = w] /\ Does(p, w) BY <1>0, <1>3, StepDone DEF IsDone
    <2>2. AllSealed(base') /\ (tx'.owner # None => AllSealed(tx'.working)) BY <2>1, MapsSealed
    <2>3. \A q \in Clients : SealedWork(proc[q]) BY DEF Persisting
    <2>4. SealedWork(w) BY <1>0, <2>1, <2>3, SealedNext
    <2>5. \A q \in Clients : proc'[q] = IF q = p THEN w ELSE proc[q] BY <1>0, <2>1 DEF Working
    <2>6. \A q \in Clients : SealedWork(proc'[q]) BY <2>3, <2>4, <2>5
    <2> QED BY <2>2, <2>6 DEF Persisting, AllSealed, SealedWork, Sealed
  <1> QED BY <1>1, <1>2, <1>3 DEF Next

\* A message the core, the dispatcher and the in-memory store have let through
\* is one the worker and its unsealing let through, and the transport's check
\* too exactly when it is for one mailbox, so that nothing else about it can be
\* found wrong later; and the PostgreSQL store judges every message as the
\* in-memory store does (the seven validators of delivery messages, each with
\* its own counters).
THEOREM PersistedStoppedByAddress == Spec => []OnlyAddressStopsPersisted
  <1>1. Init => Persisting
    <2> SUFFICES ASSUME Init PROVE Persisting
      OBVIOUS
    <2>1. AllSealed(base) BY SeedSealed DEF Init
    <2>2. tx.owner = None BY NoTurnIs DEF Init
    <2>3. \A p \in Clients : proc[p] = Idle BY DEF Init
    <2>4. Idle.calls = <<>> /\ Idle.effects = <<>> /\ Idle.pc = "idle" BY DEF Idle
    <2>5. SealedWork(Idle) BY <2>4 DEF SealedWork, InDispatch
    <2> QED BY <2>1, <2>2, <2>3, <2>5 DEF Persisting
  <1>2. Invariant /\ Persisting /\ [Next]_vars => Persisting' BY NextPersisting
  <1>3. Persisting => OnlyAddressStopsPersisted
    <2>1. PersistableContents \subseteq AddressBoundContents
      <3> SUFFICES ASSUME NEW c \in DOMAIN Shapes, Pipeline!Persistable(Shapes[c])
                   PROVE  Pipeline!StoppedByAddressOnly(Shapes[c])
        BY DEF PersistableContents, AddressBoundContents
      <3>1. Pipeline!IsMessage(Shapes[c]) BY ShapesAssumption
      <3> QED BY ONLY <3>1, Pipeline!Persistable(Shapes[c]), PersistableStoppedByAddress
    <2>2. SamplesDeliverable
      <3> SUFFICES ASSUME NEW m \in Samples
                   PROVE  /\ Pipeline!Persistable(m) => Pipeline!StoppedByAddressOnly(m)
                          /\ Pipeline!isPersistableDeliveryMessage(m) <=> Pipeline!isPersistableOutboxMessage(m)
        BY DEF SamplesDeliverable
      <3>1. Pipeline!IsMessage(m) BY ShapesAssumption
      <3>2. Pipeline!Persistable(m) => Pipeline!StoppedByAddressOnly(m) BY ONLY <3>1, PersistableStoppedByAddress
      <3>3. Pipeline!isPersistableDeliveryMessage(m) <=> Pipeline!isPersistableOutboxMessage(m)
        BY DEF Pipeline!isPersistableDeliveryMessage, Pipeline!isPersistableDeliveryData, Pipeline!isPersistableOutboxMessage
      <3> QED BY <3>2, <3>3
    <2> QED BY <2>1, <2>2 DEF Persisting, AllSealed, OnlyAddressStopsPersisted
  <1> QED BY <1>1, <1>2, <1>3, Invariance, PTL DEF Spec

-----------------------------------------------------------------------------
(* What a begin knows of its effects                                       *)

\* What stays of what the client has stored, if its transaction commits.
Kept(p) == stored \cup IF Turning(proc[p]) THEN Held(tx.working) ELSE {}

\* The effects of one policy.
Chosen(w, policy) ==
  [k \in DOMAIN Selected(w.effects, policy) |-> w.effects[Selected(w.effects, policy)[k]]]

\* Some of the indexes, each once.
IsPart(s, set) == IsList(s) /\ IsInjective(s) /\ ToSet(s) \subseteq set

Apart(a, b, c) ==
  ToSet(a) \cap ToSet(b) = {} /\ ToSet(a) \cap ToSet(c) = {} /\ ToSet(b) \cap ToSet(c) = {}

\* Three lists of indexes that have none in common.
Divides(a, b, c, set) == IsPart(a, set) /\ IsPart(b, set) /\ IsPart(c, set) /\ Apart(a, b, c)

\* The dispatch of a client is about the effects of its policy, each of which
\* is still to do, has failed or was sent.
Dispatching(p, w) ==
  LET d == w.dispatch IN
  /\ d.owner = p /\ d.effects = Chosen(w, d.policy)
  /\ Divides(d.prepared, d.failed, d.sent, DOMAIN d.effects)

\* What the store has acknowledged is kept.
Acked(w, S) ==
  LET d == w.dispatch IN
  /\ d.batch = Batch(d)
  /\ \A k \in DOMAIN d.batch : d.answer[k].key = d.batch[k].key /\ Meaning(d.answer[k]) \in S

\* The required effects are stored, and the report says so and no more.
RequiredDone(w, S) ==
  /\ w.report.dispatched = <<>> /\ w.report.failed = <<>>
  /\ IsPart(w.report.deferred, DOMAIN w.effects)
  /\ ToSet(w.report.deferred) = Indexes(w, "required")
  /\ \A i \in Indexes(w, "required") : Meaning(w.effects[i]) \in S

\* The report of a begin that has committed.
Truthful(w, S) ==
  LET r == w.report IN
  /\ Divides(r.dispatched, r.deferred, r.failed, DOMAIN w.effects)
  /\ Indexes(w, "required") \subseteq ToSet(r.deferred)
  /\ ToSet(r.failed) \subseteq Indexes(w, "best-effort")
  /\ \A i \in ToSet(r.deferred) : Meaning(w.effects[i]) \in S
  /\ ToSet(r.dispatched) \subseteq w.sends

Sent(w) == {Selected(w.effects, w.dispatch.policy)[i] : i \in ToSet(w.dispatch.sent)}

\* What a begin knows of its effects, from its first step to its last.
Accounted(p, w, S) ==
  w.kind = "begin" =>
    /\ w.pc # "done" => w.outcome = None
    /\ w.pc \in {"queued", "run"} => w.report = NoReport
    /\ w.pc \in InDispatch =>
         /\ Dispatching(p, w)
         /\ w.dispatch.policy = "required" => w.report = NoReport
         /\ w.dispatch.policy = "best-effort" => RequiredDone(w, S)
    /\ w.pc = "acknowledge" => Acked(w, S)
    /\ w.pc = "send" => Sent(w) \subseteq w.sends
    /\ w.pc \in {"recheck", "commit"} => RequiredDone(w, S)
    /\ w.pc = "done" => Truthful(w, S)

Told == \A p \in Clients : Accounted(p, proc[p], Kept(p))

\* The original indexes of some of the effects of one policy.
LEMMA RemapFacts ==
  ASSUME NEW o, IsList(o), IsInjective(o), NEW s, IsPart(s, DOMAIN o)
  PROVE  /\ IsPart(remapItems(s, o), ToSet(o))
         /\ \A x : x \in ToSet(remapItems(s, o)) <=> \E i \in ToSet(s) : x = o[i]
  <1> DEFINE r == remapItems(s, o)
             n == Len(s)
  <1>1. n \in Nat /\ DOMAIN s = 1..n BY DEF IsPart, IsList
  <1>2. \A k \in 1..n : s[k] \in ToSet(s) /\ s[k] \in DOMAIN o BY <1>1 DEF IsPart, ToSet
  <1>3. \A x \in ToSet(s) : \E k \in 1..n : x = s[k] BY <1>1 DEF ToSet
  <1>4. DOMAIN r = 1..n /\ \A k \in 1..n : r[k] = o[s[k]] BY <1>1 DEF remapItems
  <1>5. r = [k \in 1..n |-> r[k]] BY <1>1 DEF remapItems
  <1> HIDE DEF r, n
  <1>6. IsList(r) BY ONLY <1>1, <1>5, FunIsList
  <1>7. \A i, j \in DOMAIN o : o[i] = o[j] => i = j BY DEF IsInjective
  <1>8. \A i, j \in 1..n : s[i] = s[j] => i = j BY <1>1 DEF IsPart, IsInjective
  <1>9. IsInjective(r) BY <1>2, <1>4, <1>7, <1>8 DEF IsInjective
  <1>10. \A x : x \in ToSet(r) <=> \E i \in ToSet(s) : x = o[i]
    <2>1. \A x : x \in ToSet(r) <=> \E k \in 1..n : x = r[k] BY <1>4 DEF ToSet
    <2> QED BY <1>2, <1>3, <1>4, <2>1
  <1>11. ToSet(r) \subseteq ToSet(o)
    <2>1. \A i \in ToSet(s) : o[i] \in ToSet(o) BY DEF IsPart, ToSet
    <2> QED BY <1>10, <2>1
  <1> QED BY <1>6, <1>9, <1>10, <1>11 DEF IsPart, r

LEMMA RemapDivides ==
  ASSUME NEW o, IsList(o), IsInjective(o), NEW a, NEW b, NEW c, Divides(a, b, c, DOMAIN o)
  PROVE  Divides(remapItems(a, o), remapItems(b, o), remapItems(c, o), ToSet(o))
  <1> DEFINE x == remapItems(a, o)
             y == remapItems(b, o)
             z == remapItems(c, o)
  <1>1. IsPart(a, DOMAIN o) /\ IsPart(b, DOMAIN o) /\ IsPart(c, DOMAIN o) /\ Apart(a, b, c) BY DEF Divides
  <1>2. /\ IsPart(x, ToSet(o)) /\ \A v : v \in ToSet(x) <=> \E i \in ToSet(a) : v = o[i]
        /\ IsPart(y, ToSet(o)) /\ \A v : v \in ToSet(y) <=> \E i \in ToSet(b) : v = o[i]
        /\ IsPart(z, ToSet(o)) /\ \A v : v \in ToSet(z) <=> \E i \in ToSet(c) : v = o[i]
    BY <1>1, RemapFacts
  <1>3. \A i, j \in DOMAIN o : o[i] = o[j] => i = j BY DEF IsInjective
  <1>4. ToSet(a) \subseteq DOMAIN o /\ ToSet(b) \subseteq DOMAIN o /\ ToSet(c) \subseteq DOMAIN o
    BY <1>1 DEF IsPart
  <1> HIDE DEF x, y, z
  <1>5. Apart(x, y, z) BY <1>1, <1>2, <1>3, <1>4 DEF Apart
  <1> QED BY <1>2, <1>5 DEF Divides, x, y, z

LEMMA EmptyPart == \A set : IsPart(<<>>, set) /\ ToSet(<<>>) = {}
  <1>1. IsList(<<>>) /\ ToSet(<<>>) = {} BY DEF IsList, ToSet
  <1>2. IsInjective(<<>>) BY DEF IsInjective
  <1> QED BY <1>1, <1>2 DEF IsPart

\* Two parts that have nothing in common, one after the other.
LEMMA PartsConcat ==
  ASSUME NEW a, NEW b, NEW set, IsPart(a, set), IsPart(b, set), ToSet(a) \cap ToSet(b) = {}
  PROVE  IsPart(a \o b, set) /\ ToSet(a \o b) = ToSet(a) \cup ToSet(b)
  <1>1. IsList(a) /\ IsList(b) /\ IsInjective(a) /\ IsInjective(b) BY DEF IsPart
  <1> DEFINE u == a \o b
  <1>2. IsList(u) BY <1>1, ConcatIsList
  <1>3. IsInjective(u) /\ ToSet(u) = ToSet(a) \cup ToSet(b) BY <1>1, ConcatInjective
  <1> HIDE DEF u
  <1>4. ToSet(a) \subseteq set /\ ToSet(b) \subseteq set BY DEF IsPart
  <1> QED BY <1>2, <1>3, <1>4 DEF IsPart, u

LEMMA EmptyConcat ==
  ASSUME NEW s, IsList(s)
  PROVE  <<>> \o s = s /\ s \o <<>> = s
  BY DEF IsList

\* Some of the effects that are still to do fail.
LEMMA DroppedDivides ==
  ASSUME NEW d, IsDispatch(d), NEW set, Divides(d.prepared, d.failed, d.sent, set), NEW out
  PROVE  LET n == Dropped(d, out) IN Divides(n.prepared, n.failed, n.sent, set)
  <1> DEFINE r == Only(d.prepared, DOMAIN d.effects \ out)
             g == Only(d.prepared, out)
             f == d.failed \o g
  <1>1. /\ IsPart(d.prepared, set) /\ IsPart(d.failed, set) /\ IsPart(d.sent, set)
        /\ Apart(d.prepared, d.failed, d.sent)
    BY DEF Divides
  <1>2. IsList(d.prepared) /\ IsInjective(d.prepared) /\ ToSet(d.prepared) \subseteq set BY <1>1 DEF IsPart
  <1>3. /\ IsList(r) /\ IsInjective(r) /\ ToSet(r) = ToSet(d.prepared) \cap (DOMAIN d.effects \ out)
        /\ IsList(g) /\ IsInjective(g) /\ ToSet(g) = ToSet(d.prepared) \cap out
    BY <1>2, OnlyList
  <1> HIDE DEF r, g
  <1>4. IsPart(r, set) /\ IsPart(g, set) BY <1>2, <1>3 DEF IsPart
  <1>5. ToSet(d.failed) \cap ToSet(g) = {} BY <1>1, <1>3 DEF Apart
  <1>6. IsPart(f, set) /\ ToSet(f) = ToSet(d.failed) \cup ToSet(g) BY <1>1, <1>4, <1>5, PartsConcat
  <1> HIDE DEF f
  <1>7. Apart(r, f, d.sent) BY <1>1, <1>3, <1>6 DEF Apart
  <1>8. Divides(r, f, d.sent, set) BY <1>1, <1>4, <1>6, <1>7 DEF Divides
  <1>9. Dropped(d, out).prepared = r /\ Dropped(d, out).failed = f /\ Dropped(d, out).sent = d.sent
    BY DroppedFacts DEF r, f, g
  <1> QED BY <1>8, <1>9

\* The next effect is sent, or fails.
LEMMA SendDivides ==
  ASSUME NEW d, IsDispatch(d), NEW set, Divides(d.prepared, d.failed, d.sent, set),
         d.prepared # <<>>, NEW accepted \in BOOLEAN
  PROVE  LET n == AfterSend(d, accepted) IN
         /\ Divides(n.prepared, n.failed, n.sent, set)
         /\ ToSet(n.sent) = IF accepted THEN ToSet(d.sent) \cup {d.prepared[1]} ELSE ToSet(d.sent)
  <1> DEFINE x == d.prepared[1]
             r == Tail(d.prepared)
             n == AfterSend(d, accepted)
  <1>1. /\ IsPart(d.prepared, set) /\ IsPart(d.failed, set) /\ IsPart(d.sent, set)
        /\ Apart(d.prepared, d.failed, d.sent)
    BY DEF Divides
  <1>2. IsList(r) /\ IsInjective(r) /\ ToSet(r) = ToSet(d.prepared) \ {x} /\ x \in ToSet(d.prepared)
    BY <1>1, TailFacts DEF IsPart
  <1>3. n.prepared = r /\ n.sent = (IF accepted THEN Append(d.sent, x) ELSE d.sent)
        /\ n.failed = (IF accepted THEN d.failed ELSE Append(d.failed, x))
    BY AfterSendFacts
  <1> HIDE DEF x, r, n
  <1>4. IsPart(r, set) /\ x \in set BY <1>1, <1>2 DEF IsPart
  <1>6. ASSUME NEW s, IsPart(s, set), x \notin ToSet(s)
        PROVE  IsPart(Append(s, x), set) /\ ToSet(Append(s, x)) = ToSet(s) \cup {x}
    <2> DEFINE u == Append(s, x)
               m == Len(s)
    <2>1. IsList(s) /\ IsInjective(s) /\ ToSet(s) \subseteq set BY <1>6 DEF IsPart
    <2>2. /\ m \in Nat /\ DOMAIN s = 1..m /\ Len(u) = m + 1 /\ u[m + 1] = x
          /\ IsList(u) /\ \A k \in 1..m : u[k] = s[k]
      BY <2>1, AppendFacts DEF AppendIs, IsList
    <2> HIDE DEF u, m
    <2>3. DOMAIN u = 1..(m + 1) /\ m + 1 \in 1..(m + 1) /\ 1..m \subseteq 1..(m + 1) BY <2>2 DEF IsList
    <2>4. \A k \in 1..(m + 1) : k \in 1..m \/ k = m + 1 BY <2>2
    <2>5. \A k \in 1..m : s[k] \in ToSet(s) BY <2>2 DEF ToSet
    <2>6. \A y \in ToSet(s) : \E k \in 1..m : s[k] = y BY <2>2 DEF ToSet
    <2>7. \A y : y \in ToSet(u) <=> \E k \in 1..(m + 1) : u[k] = y BY <2>3 DEF ToSet
    <2>8. ToSet(u) = ToSet(s) \cup {x} BY <2>2, <2>3, <2>4, <2>5, <2>6, <2>7
    <2>9. \A i, j \in 1..m : s[i] = s[j] => i = j BY <2>1, <2>2 DEF IsInjective
    <2>10. IsInjective(u) BY <1>6, <2>2, <2>3, <2>4, <2>5, <2>9 DEF IsInjective
    <2> QED BY <1>4, <2>1, <2>2, <2>8, <2>10 DEF IsPart, u
  <1>7. x \notin ToSet(d.failed) /\ x \notin ToSet(d.sent) BY <1>1, <1>2 DEF Apart
  <1>8. CASE accepted
    <2>1. /\ IsPart(n.sent, set) /\ ToSet(n.sent) = ToSet(d.sent) \cup {x}
          /\ n.failed = d.failed /\ n.prepared = r
      BY <1>1, <1>3, <1>6, <1>7, <1>8
    <2>2. Apart(n.prepared, n.failed, n.sent) BY <1>1, <1>2, <1>7, <2>1 DEF Apart
    <2> QED BY <1>1, <1>4, <1>8, <2>1, <2>2 DEF Divides, n, x
  <1>9. CASE ~accepted
    <2>1. /\ IsPart(n.failed, set) /\ ToSet(n.failed) = ToSet(d.failed) \cup {x}
          /\ n.sent = d.sent /\ n.prepared = r
      BY <1>1, <1>3, <1>6, <1>7, <1>9
    <2>2. Apart(n.prepared, n.failed, n.sent) BY <1>1, <1>2, <1>7, <2>1 DEF Apart
    <2> QED BY <1>1, <1>4, <1>9, <2>1, <2>2 DEF Divides, n
  <1> QED BY <1>8, <1>9

\* An answer of a dispatcher says nothing, or divides the effects of its
\* dispatch into those that were sent, are kept and have failed.
Reports(w, S, answer) ==
  LET d == w.dispatch
      r == answer.report
  IN \/ ~answer.ok /\ r = NoReport
     \/ /\ Divides(r.dispatched, r.deferred, r.failed, DOMAIN d.effects)
        /\ \A i \in ToSet(r.deferred) : Meaning(d.effects[i]) \in S
        /\ \A i \in ToSet(r.dispatched) : Selected(w.effects, d.policy)[i] \in w.sends
        /\ d.policy = "required" => r.dispatched = <<>>

LEMMA AnswerReports ==
  ASSUME NEW p, NEW w, NEW S, IsDispatch(w.dispatch), Dispatching(p, w),
         \A i \in DOMAIN w.dispatch.effects : w.dispatch.effects[i].policy = w.dispatch.policy,
         w.pc = "acknowledge" /\ verifyEnqueueAcknowledgements(w.dispatch, now) => Acked(w, S),
         w.pc = "send" => Sent(w) \subseteq w.sends /\ w.dispatch.policy # "required",
         NEW answer, IsAnswer(w.dispatch, w.pc, answer)
  PROVE  Reports(w, S, answer)
  <1> DEFINE d == w.dispatch
             D == DOMAIN d.effects
             r == answer.report
  <1>1. Divides(d.prepared, d.failed, d.sent, D) BY DEF Dispatching
  <1>2. /\ IsPart(d.prepared, D) /\ IsPart(d.failed, D) /\ IsPart(d.sent, D)
        /\ Apart(d.prepared, d.failed, d.sent)
    BY <1>1 DEF Divides
  <1>3. ASSUME NEW f, IsPart(f, D), r = Report(<<>>, <<>>, f) PROVE Reports(w, S, answer)
    <2>1. r.dispatched = <<>> /\ r.deferred = <<>> /\ r.failed = f BY <1>3 DEF Report
    <2> HIDE DEF r
    <2>2. Divides(r.dispatched, r.deferred, r.failed, D) BY <1>3, <2>1, EmptyPart DEF Divides, Apart
    <2> QED BY <2>1, <2>2, EmptyPart DEF Reports, r
  <1>4. CASE \E why : answer = Failure(why)
    <2>1. ~answer.ok /\ r = NoReport BY <1>4 DEF Failure
    <2> QED BY <2>1 DEF Reports
  <1>5. CASE \E out \in SUBSET D : Dropped(d, out).prepared = <<>> /\ answer = DispatchReport(Dropped(d, out))
    <2>1. PICK out : Dropped(d, out).prepared = <<>> /\ answer = DispatchReport(Dropped(d, out)) BY <1>5
    <2>2. IsPart(Dropped(d, out).failed, D) BY <1>1, DroppedDivides DEF Divides
    <2>3. r = Report(<<>>, <<>>, Dropped(d, out).failed) BY <2>1 DEF DispatchReport, Success
    <2> QED BY <1>3, <2>2, <2>3
  <1>6. CASE answer = DispatchReport(AllFailed(d))
    <2> DEFINE f == d.failed \o d.prepared
    <2>1. ToSet(d.failed) \cap ToSet(d.prepared) = {} BY <1>2 DEF Apart
    <2>2. IsPart(f, D) BY <1>2, <2>1, PartsConcat
    <2>3. r = Report(<<>>, <<>>, f)
      <3> DEFINE n == AllFailed(d)
      <3>1. n = [d EXCEPT !.failed = f, !.prepared = <<>>] BY DEF AllFailed
      <3> HIDE DEF n, f
      <3>2. n.failed = f /\ n.prepared = <<>> BY <3>1 DEF IsDispatch, DispatchFields
      <3> QED BY <1>6, <3>2 DEF DispatchReport, Success, n
    <2> HIDE DEF f
    <2> QED BY <1>3, <2>2, <2>3
  <1>7. CASE w.pc = "acknowledge" /\ verifyEnqueueAcknowledgements(d, now) /\ answer = DispatchReport(d)
    <2>1. r.dispatched = <<>> /\ r.deferred = d.prepared /\ r.failed = d.failed
      BY <1>7 DEF DispatchReport, Success, Report
    <2>2. Divides(<<>>, d.prepared, d.failed, D) BY <1>2, EmptyPart DEF Divides, Apart
    <2>3. ASSUME NEW i \in ToSet(d.prepared) PROVE Meaning(d.effects[i]) \in S
      <3>1. PICK k \in DOMAIN d.prepared : i = d.prepared[k] BY DEF ToSet
      <3>2. /\ k \in DOMAIN d.batch /\ d.batch[k].key = d.effects[i].key
            /\ d.batch[k].policy = d.policy /\ d.batch[k].content = d.effects[i].content
        BY SMTT(30), <1>7, <3>1 DEF Acked, Batch, outboxMessage
      <3>3. d.answer[k].policy = d.batch[k].policy /\ d.answer[k].content = d.batch[k].content
        BY <1>7, <3>2 DEF verifyEnqueueAcknowledgements, isMatchingAcknowledgement
      <3>4. d.answer[k].key = d.batch[k].key /\ Meaning(d.answer[k]) \in S BY <1>7, <3>2 DEF Acked
      <3>5. i \in D BY <1>2 DEF IsPart
      <3>6. d.effects[i].policy = d.policy BY <3>5
      <3>7. Meaning(d.effects[i]) = Meaning(d.answer[k]) BY <3>2, <3>3, <3>4, <3>6 DEF Meaning
      <3> QED BY <3>4, <3>7
    <2> HIDE DEF d, r, D
    <2> QED BY <2>1, <2>2, <2>3, EmptyPart DEF Reports, d, r, D
  <1>8. CASE w.pc = "send" /\ d.prepared = <<>> /\ answer = SyncReport(d)
    <2>1. r.dispatched = d.sent /\ r.deferred = <<>> /\ r.failed = d.failed
      BY <1>8 DEF SyncReport, Success, Report
    <2>2. Divides(d.sent, <<>>, d.failed, D) BY <1>2, EmptyPart DEF Divides, Apart
    <2>3. \A i \in ToSet(d.sent) : Selected(w.effects, d.policy)[i] \in w.sends BY <1>8 DEF Sent
    <2>4. d.policy # "required" BY <1>8
    <2> HIDE DEF d, r, D
    <2> QED BY <2>1, <2>2, <2>3, <2>4, EmptyPart DEF Reports, d, r, D
  <1> QED BY <1>4, <1>5, <1>6, <1>7, <1>8 DEF IsAnswer

LEMMA AnswerIs ==
  ASSUME NEW d, NEW pc, NEW answer, IsAnswer(d, pc, answer)
  PROVE  /\ answer = [ok |-> answer.ok, report |-> answer.report, reason |-> answer.reason]
         /\ ~answer.ok => answer.report = NoReport
  BY DEF IsAnswer, Failure, Success, DispatchReport, SyncReport

\* The report of a selection in terms of the effects of the operation.
Mapped(report, o) ==
  Report(remapItems(report.dispatched, o), remapItems(report.deferred, o), remapItems(report.failed, o))

\* What the core makes of an answer is nothing, or its report when it is one
\* about exactly the effects of the selection.
LEMMA SelectedResult ==
  ASSUME NEW answer, NEW effects, NEW o,
         answer = [ok |-> answer.ok, report |-> answer.report, reason |-> answer.reason],
         ~answer.ok => answer.report = NoReport
  PROVE  LET E == [k \in DOMAIN o |-> effects[o[k]]]
             r == dispatchSelectedSideEffects(answer, effects, o)
         IN \/ r.report = NoReport /\ (r.ok => ~HasRequired(E))
            \/ answer.ok /\ isDispatchResult(answer.report, E) /\ r.report = Mapped(answer.report, o)
  <1> DEFINE E == [k \in DOMAIN o |-> effects[o[k]]]
             R == dispatchSideEffects(answer, E)
             r == dispatchSelectedSideEffects(answer, effects, o)
             x == Mapped(R.report, o)
  <1>1. r = [R EXCEPT !.report = x] BY DEF dispatchSelectedSideEffects, Mapped
  <1>2. \/ R = Failure("SIDE_EFFECT_FAILED")
        \/ R = answer /\ ~answer.ok
        \/ R = answer /\ answer.ok /\ isDispatchResult(answer.report, E)
        \/ R = Success(NoReport) /\ ~HasRequired(E)
    BY DEF dispatchSideEffects, Failure
  <1>3. R = [ok |-> R.ok, report |-> R.report, reason |-> R.reason]
    <2> HIDE DEF R, E
    <2> QED BY <1>2 DEF Failure, Success
  <1>4. \/ R.report = NoReport /\ (R.ok => ~HasRequired(E))
        \/ R = answer /\ answer.ok /\ isDispatchResult(answer.report, E)
    <2> HIDE DEF R, E
    <2> QED BY <1>2 DEF Failure, Success
  <1>5. Mapped(NoReport, o) = NoReport
    <2>1. remapItems(<<>>, o) = <<>> BY DEF remapItems
    <2> QED BY <2>1 DEF Mapped, NoReport, Report
  <1> HIDE DEF r, x, R, E
  <1>6. r.ok = R.ok /\ r.report = x BY ONLY <1>1, <1>3
  <1> QED BY <1>4, <1>5, <1>6 DEF r, x, E

LEMMA ChosenIs ==
  ASSUME NEW w, IsList(w.effects), NEW policy
  PROVE  LET o == Selected(w.effects, policy)
             E == Chosen(w, policy)
         IN /\ IsList(o) /\ IsInjective(o) /\ ToSet(o) = Indexes(w, policy)
            /\ DOMAIN E = DOMAIN o /\ IsList(E)
            /\ \A i \in DOMAIN E : o[i] \in Indexes(w, policy) /\ E[i] = w.effects[o[i]] /\ E[i].policy = policy
  <1> DEFINE o == Selected(w.effects, policy)
             E == Chosen(w, policy)
  <1>1. IsList(o) /\ IsInjective(o) /\ ToSet(o) = Indexes(w, policy) BY SelectedFacts DEF Indexes
  <1>2. E = [k \in DOMAIN o |-> w.effects[o[k]]] BY DEF Chosen
  <1>3. DOMAIN o = 1..Len(o) /\ Len(o) \in Nat BY <1>1 DEF IsList
  <1> HIDE DEF o, E
  <1>4. E = [k \in 1..Len(o) |-> E[k]] BY <1>2, <1>3
  <1>5. IsList(E) BY ONLY <1>3, <1>4, FunIsList
  <1>6. \A i \in DOMAIN o : o[i] \in Indexes(w, policy) BY <1>1 DEF ToSet
  <1>7. \A i \in DOMAIN o : E[i] = w.effects[o[i]] /\ E[i].policy = policy
    BY <1>2, <1>6 DEF Indexes
  <1> QED BY <1>1, <1>2, <1>5, <1>6, <1>7 DEF o, E

LEMMA NothingRequired ==
  ASSUME NEW E, IsList(E), \A i \in DOMAIN E : E[i].policy = "required", ~HasRequired(E)
  PROVE  DOMAIN E = {}
  <1>1. ToSet(Selected(E, "required")) = {i \in DOMAIN E : E[i].policy = "required"} BY SelectedFacts
  <1>2. Selected(E, "required") = <<>> BY DEF HasRequired
  <1>3. {i \in DOMAIN E : E[i].policy = "required"} = {} BY <1>1, <1>2, EmptyPart
  <1> QED BY <1>3

\* The report that is left of a merge.
LEMMA MergeIs ==
  ASSUME NEW a, NEW b, NEW m, m = mergeSideEffectResults(a, b)
  PROVE  /\ m.dispatched = a.dispatched \o b.dispatched
         /\ m.deferred = a.deferred \o b.deferred /\ m.failed = a.failed \o b.failed
  BY DEF mergeSideEffectResults, Report

\* After an accepted answer about the required effects all of them are kept.
LEMMA RequiredReplied ==
  ASSUME NEW v, NEW w, NEW S, IsList(v.effects), v.report = NoReport,
         v.dispatch.policy = "required", v.dispatch.effects = Chosen(v, "required"),
         NEW answer, Reports(v, S, answer),
         answer = [ok |-> answer.ok, report |-> answer.report, reason |-> answer.reason],
         ~answer.ok => answer.report = NoReport,
         NEW r, r = dispatchSelectedSideEffects(answer, v.effects, Selected(v.effects, "required")), r.ok,
         w.effects = v.effects, w.report = mergeSideEffectResults(v.report, r.report)
  PROVE  RequiredDone(w, S)
  <1> DEFINE o == Selected(v.effects, "required")
             E == Chosen(v, "required")
             x == answer.report
  <1>1. /\ IsList(o) /\ IsInjective(o) /\ ToSet(o) = Indexes(v, "required")
        /\ DOMAIN E = DOMAIN o /\ IsList(E)
        /\ \A i \in DOMAIN E : o[i] \in Indexes(v, "required") /\ E[i] = v.effects[o[i]] /\ E[i].policy = "required"
    BY ChosenIs
  <1>2. \/ r.report = NoReport /\ ~HasRequired(E)
        \/ answer.ok /\ isDispatchResult(x, E) /\ r.report = Mapped(x, o)
    BY SelectedResult DEF Chosen
  <1> HIDE DEF o, E, x
  <1>3. NoReport.dispatched = <<>> /\ NoReport.deferred = <<>> /\ NoReport.failed = <<>>
    BY DEF NoReport, Report
  <1>4. Indexes(w, "required") = Indexes(v, "required") BY DEF Indexes
  <1>5. IsList(<<>>) BY EmptyPart DEF IsPart
  <1>6. \A s : IsList(s) => <<>> \o s = s BY EmptyConcat
  <1>7. ASSUME NEW g, IsPart(g, ToSet(o)), ToSet(g) = ToSet(o), r.report.deferred = g,
               r.report.dispatched = <<>>, r.report.failed = <<>>,
               \A i \in DOMAIN E : Meaning(E[i]) \in S
        PROVE  RequiredDone(w, S)
    <2>1. w.report.dispatched = <<>> /\ w.report.failed = <<>> /\ w.report.deferred = g
      <3>1. /\ w.report.dispatched = v.report.dispatched \o r.report.dispatched
            /\ w.report.deferred = v.report.deferred \o r.report.deferred
            /\ w.report.failed = v.report.failed \o r.report.failed
        <4> DEFINE X == r.report
                   Y == v.report
                   Z == w.report
        <4>1. Z = mergeSideEffectResults(Y, X) OBVIOUS
        <4> HIDE DEF X, Y, Z
        <4>2. /\ Z.dispatched = Y.dispatched \o X.dispatched
              /\ Z.deferred = Y.deferred \o X.deferred /\ Z.failed = Y.failed \o X.failed
          BY ONLY <4>1, MergeIs
        <4> QED BY ONLY <4>2 DEF X, Y, Z
      <3>2. IsList(g) BY <1>7 DEF IsPart
      <3>3. /\ w.report.dispatched = <<>> \o <<>> /\ w.report.deferred = <<>> \o g
            /\ w.report.failed = <<>> \o <<>>
        BY <1>3, <1>7, <3>1
      <3> QED BY ONLY <1>5, <1>6, <3>2, <3>3
    <2>2. IsPart(g, DOMAIN w.effects) /\ ToSet(g) = Indexes(w, "required")
      BY <1>1, <1>4, <1>7 DEF IsPart, Indexes
    <2>3. ASSUME NEW i \in Indexes(w, "required") PROVE Meaning(w.effects[i]) \in S
      <3>1. PICK k \in DOMAIN o : i = o[k] BY <1>1, <1>4 DEF ToSet
      <3> QED BY <1>1, <1>7, <3>1
    <2> QED BY <2>1, <2>2, <2>3 DEF RequiredDone
  <1>8. CASE DOMAIN E = {} /\ r.report.dispatched = <<>> /\ r.report.deferred = <<>> /\ r.report.failed = <<>>
    <2>1. ToSet(o) = {} BY <1>1, <1>8 DEF ToSet
    <2> QED BY <1>7, <1>8, <2>1, EmptyPart
  <1>9. CASE r.report = NoReport /\ ~HasRequired(E)
    <2>1. DOMAIN E = {} BY <1>1, <1>9, NothingRequired
    <2> QED BY <1>3, <1>8, <1>9, <2>1
  <1>10. CASE answer.ok /\ isDispatchResult(x, E) /\ r.report = Mapped(x, o)
    <2>1. /\ Divides(x.dispatched, x.deferred, x.failed, DOMAIN E)
          /\ \A i \in ToSet(x.deferred) : Meaning(E[i]) \in S
          /\ x.dispatched = <<>>
      BY <1>10 DEF Reports, E, x
    <2>2. /\ IsPart(x.deferred, DOMAIN E) /\ IsPart(x.failed, DOMAIN E) BY <2>1 DEF Divides
    <2>3. x.failed = <<>>
      <3>1. \A k \in DOMAIN x.failed : x.failed[k] \in DOMAIN E BY <2>2 DEF IsPart, ToSet
      <3>2. \A k \in DOMAIN x.failed : E[x.failed[k]].policy = "best-effort" BY <1>10 DEF isDispatchResult
      <3>3. DOMAIN x.failed = {} BY <1>1, <3>1, <3>2
      <3>4. IsList(x.failed) BY <2>2 DEF IsPart
      <3>5. Len(x.failed) \in Nat /\ DOMAIN x.failed = 1..Len(x.failed) BY <3>4 DEF IsList
      <3>6. Len(x.failed) = 0
        <4> DEFINE n == Len(x.failed)
        <4>1. n \in Nat /\ 1..n = {} BY <3>3, <3>5
        <4> HIDE DEF n
        <4>2. n >= 1 => 1 \in 1..n BY <4>1
        <4>3. n = 0 BY <4>1, <4>2
        <4> QED BY <4>3 DEF n
      <3> QED BY <3>4, <3>6 DEF IsList
    <2>4. ToSet(x.deferred) = DOMAIN E
      <3>1. Items(x) = x.deferred
        <4>1. IsList(x.deferred) BY <2>2 DEF IsPart
        <4>2. Items(x) = (<<>> \o x.deferred) \o <<>> BY <2>1, <2>3 DEF Items
        <4> QED BY <4>1, <4>2, EmptyConcat
      <3> QED BY <1>10, <3>1 DEF isDispatchResult
    <2> DEFINE g == remapItems(x.deferred, o)
    <2>5. IsPart(g, ToSet(o)) /\ \A y : y \in ToSet(g) <=> \E i \in ToSet(x.deferred) : y = o[i]
      BY <1>1, <2>2, RemapFacts
    <2>6. ToSet(g) = ToSet(o)
      <3>1. \A y : y \in ToSet(o) <=> \E i \in DOMAIN o : y = o[i] BY DEF ToSet
      <3>2. ToSet(x.deferred) = DOMAIN o BY <1>1, <2>4
      <3> HIDE DEF g
      <3>3. \A y : y \in ToSet(g) <=> y \in ToSet(o) BY ONLY <2>5, <3>1, <3>2
      <3> QED BY ONLY <3>3
    <2>7. remapItems(<<>>, o) = <<>> BY DEF remapItems
    <2>8. r.report.deferred = g /\ r.report.dispatched = <<>> /\ r.report.failed = <<>>
      BY <1>10, <2>1, <2>3, <2>7 DEF Mapped, Report
    <2> HIDE DEF g
    <2> QED BY <1>7, <2>1, <2>4, <2>5, <2>6, <2>8
  <1> QED BY <1>2, <1>9, <1>10

\* After the answer about the other effects the report is complete.
LEMMA OthersReplied ==
  ASSUME NEW v, NEW w, NEW S, IsList(v.effects), RequiredDone(v, S),
         v.dispatch.policy = "best-effort", v.dispatch.effects = Chosen(v, "best-effort"),
         NEW answer, Reports(v, S, answer),
         answer = [ok |-> answer.ok, report |-> answer.report, reason |-> answer.reason],
         ~answer.ok => answer.report = NoReport,
         NEW r, r = dispatchSelectedSideEffects(answer, v.effects, Selected(v.effects, "best-effort")),
         w.effects = v.effects, w.sends = v.sends, w.report = mergeSideEffectResults(v.report, r.report)
  PROVE  Truthful(w, S)
  <1> DEFINE o == Selected(v.effects, "best-effort")
             E == Chosen(v, "best-effort")
             x == answer.report
             X == r.report
             R == Indexes(v, "required")
             B == Indexes(v, "best-effort")
             g == v.report.deferred
             D == DOMAIN v.effects
  <1>1. /\ IsList(o) /\ IsInjective(o) /\ ToSet(o) = B /\ DOMAIN E = DOMAIN o /\ IsList(E)
        /\ \A i \in DOMAIN E : E[i] = v.effects[o[i]]
    BY ChosenIs
  <1>2. \/ X = NoReport
        \/ answer.ok /\ X = Mapped(x, o)
    BY SelectedResult DEF Chosen
  <1>3. NoReport.dispatched = <<>> /\ NoReport.deferred = <<>> /\ NoReport.failed = <<>>
    BY DEF NoReport, Report
  <1>4. Indexes(w, "required") = R /\ Indexes(w, "best-effort") = B BY DEF Indexes
  <1>5. R \subseteq D /\ B \subseteq D /\ R \cap B = {} BY DEF Indexes
  <1>6. /\ IsPart(g, D) /\ ToSet(g) = R /\ v.report.dispatched = <<>> /\ v.report.failed = <<>>
        /\ \A i \in R : Meaning(v.effects[i]) \in S
    BY DEF RequiredDone
  <1> HIDE DEF o, E, x, X, R, B, g, D
  <1>7. /\ Divides(X.dispatched, X.deferred, X.failed, B)
        /\ \A i \in ToSet(X.deferred) : Meaning(v.effects[i]) \in S
        /\ ToSet(X.dispatched) \subseteq v.sends
    <2>1. CASE X = NoReport BY <1>3, <2>1, EmptyPart DEF Divides, Apart
    <2>2. CASE answer.ok /\ X = Mapped(x, o)
      <3>1. /\ Divides(x.dispatched, x.deferred, x.failed, DOMAIN E)
            /\ \A i \in ToSet(x.deferred) : Meaning(E[i]) \in S
            /\ \A i \in ToSet(x.dispatched) : o[i] \in v.sends
        BY <2>2 DEF Reports, E, x, o
      <3>2. /\ X.dispatched = remapItems(x.dispatched, o) /\ X.deferred = remapItems(x.deferred, o)
            /\ X.failed = remapItems(x.failed, o)
        BY <2>2 DEF Mapped, Report
      <3>3. Divides(X.dispatched, X.deferred, X.failed, B) BY <1>1, <3>1, <3>2, RemapDivides
      <3>4. IsPart(x.dispatched, DOMAIN o) /\ IsPart(x.deferred, DOMAIN o) BY <1>1, <3>1 DEF Divides
      <3>5. /\ \A y \in ToSet(X.deferred) : \E i \in ToSet(x.deferred) : y = o[i]
            /\ \A y \in ToSet(X.dispatched) : \E i \in ToSet(x.dispatched) : y = o[i]
        BY <1>1, <3>2, <3>4, RemapFacts
      <3>6. \A i \in ToSet(x.deferred) : Meaning(v.effects[o[i]]) \in S BY <1>1, <3>1, <3>4 DEF IsPart
      <3> QED BY <3>1, <3>3, <3>5, <3>6
    <2> QED BY <1>2, <2>1, <2>2
  <1>8. /\ IsPart(X.dispatched, B) /\ IsPart(X.deferred, B) /\ IsPart(X.failed, B)
        /\ Apart(X.dispatched, X.deferred, X.failed)
    BY <1>7 DEF Divides
  <1>9. w.report.dispatched = X.dispatched /\ w.report.failed = X.failed /\ w.report.deferred = g \o X.deferred
    <2>1. /\ w.report.dispatched = v.report.dispatched \o X.dispatched
          /\ w.report.deferred = g \o X.deferred
          /\ w.report.failed = v.report.failed \o X.failed
      <3>1. w.report = mergeSideEffectResults(v.report, X) BY DEF X
      <3> QED BY ONLY <3>1, MergeIs DEF g
    <2>2. IsList(X.dispatched) /\ IsList(X.failed) BY <1>8 DEF IsPart
    <2>3. <<>> \o X.dispatched = X.dispatched /\ <<>> \o X.failed = X.failed BY <2>2, EmptyConcat
    <2> QED BY <1>6, <2>1, <2>3
  <1>10. /\ IsPart(X.dispatched, D) /\ IsPart(X.deferred, D) /\ IsPart(X.failed, D) BY <1>5, <1>8 DEF IsPart
  <1>11. ToSet(g) \cap ToSet(X.deferred) = {} BY <1>5, <1>6, <1>8 DEF IsPart
  <1> DEFINE h == g \o X.deferred
  <1>12. IsPart(h, D) /\ ToSet(h) = R \cup ToSet(X.deferred) BY <1>6, <1>10, <1>11, PartsConcat
  <1> HIDE DEF h
  <1>13. Apart(X.dispatched, h, X.failed) BY <1>5, <1>8, <1>12 DEF Apart, IsPart
  <1>14. Divides(X.dispatched, h, X.failed, D) BY <1>10, <1>12, <1>13 DEF Divides
  <1>15. ToSet(X.failed) \subseteq B BY <1>8 DEF IsPart
  <1> QED BY <1>4, <1>6, <1>7, <1>9, <1>12, <1>14, <1>15 DEF Truthful, h, D

\* What is stored of a client after a step that leaves it in the state w.
After(w) == stored' \cup IF Turning(w) THEN Held(tx'.working) ELSE {}

\* A begin remembers what it knows when more is stored.
LEMMA AccountedMore ==
  ASSUME NEW p, NEW w, NEW S, NEW T, S \subseteq T, Accounted(p, w, S)
  PROVE  Accounted(p, w, T)
  <1>1. RequiredDone(w, S) => RequiredDone(w, T) BY DEF RequiredDone
  <1>2. Truthful(w, S) => Truthful(w, T) BY DEF Truthful
  <1>3. Acked(w, S) => Acked(w, T) BY DEF Acked
  <1> QED BY <1>1, <1>2, <1>3 DEF Accounted

\* The steps before the first write, and those of a script.
LEMMA EarlyTold ==
  ASSUME NEW p, NEW w, NEW S, Accounted(p, proc[p], S), NEW T,
         Fails(p, w) \/ Waits(p, w) \/ Starts(p, w) \/ Asks(p, w)
  PROVE  Accounted(p, w, T)
  <1>1. CASE Fails(p, w)
    <2>1. w.kind = "none" BY <1>1, OverIs DEF Fails
    <2> QED BY <2>1 DEF Accounted
  <1>2. CASE Waits(p, w)
    BY <1>2 DEF Waits, Accounted, InDispatch
  <1>3. CASE Starts(p, w)
    <2>1. /\ w.pc = "run" /\ proc[p].pc = "queued" /\ w.kind = proc[p].kind
          /\ w.outcome = proc[p].outcome /\ w.report = proc[p].report
      BY <1>3 DEF Starts, SameBut, IdleFields
    <2> QED BY <2>1 DEF Accounted, InDispatch
  <1>4. CASE Asks(p, w)
    <2>1. w.kind = proc[p].kind BY <1>4 DEF Asks, SameBut, IdleFields
    <2> QED BY <1>4, <2>1 DEF Asks, Accounted
  <1> QED BY <1>1, <1>2, <1>3, <1>4

\* Nothing has happened to the effects of a dispatch that begins.
LEMMA DispatchBegins ==
  ASSUME NEW p, IsWork(proc[p]), NEW policy, NEW at, NEW w,
         w.effects = proc[p].effects, w.dispatch = Dispatches(p, policy, at)
  PROVE  /\ Dispatching(p, w) /\ w.dispatch.policy = policy /\ IsDispatch(w.dispatch)
         /\ w.dispatch.failed = <<>> /\ w.dispatch.sent = <<>>
  <1> DEFINE d == w.dispatch
  <1>1. /\ d.effects = Effects(p, policy) /\ ToSet(d.prepared) = DOMAIN d.effects
        /\ d.owner = p /\ d.failed = <<>> /\ d.sent = <<>> /\ IsInjective(d.prepared)
    BY DispatchesAre
  <1>2. d.policy = policy /\ IsDispatch(d) BY DispatchesIs
  <1>3. d.effects = Chosen(w, policy) BY <1>1 DEF Effects, Originals, Chosen
  <1> HIDE DEF d
  <1>4. IsPart(d.prepared, DOMAIN d.effects) BY <1>1, <1>2 DEF IsPart, IsDispatch
  <1>5. Divides(d.prepared, d.failed, d.sent, DOMAIN d.effects)
    BY <1>1, <1>4, EmptyPart DEF Divides, Apart
  <1> QED BY <1>1, <1>2, <1>3, <1>5 DEF Dispatching, d

LEMMA CreatesTold ==
  ASSUME NEW p, IsWork(proc[p]), NEW w, NEW S, Accounted(p, proc[p], S), Creates(p, w), NEW T
  PROVE  Accounted(p, w, T)
  <1>1. /\ proc[p].pc = "run" /\ w.kind = proc[p].kind /\ w.kind = "begin"
        /\ w.outcome = proc[p].outcome /\ w.report = proc[p].report /\ w.effects = proc[p].effects
    BY DEF Creates, SameBut, IdleFields
  <1>2. w.outcome = None /\ w.report = NoReport BY <1>1 DEF Accounted
  <1>3. CASE w.pc = "prepare" /\ w.dispatch = Dispatches(p, "required", now)
    <2>1. Dispatching(p, w) /\ w.dispatch.policy = "required" BY <1>1, <1>3, DispatchBegins
    <2> QED BY <1>2, <1>3, <2>1 DEF Accounted
  <1>4. CASE w.pc = "recheck" /\ ~HasRequired(proc[p].effects)
    <2>1. Indexes(w, "required") = {}
      <3>1. IsList(w.effects) BY <1>1 DEF IsWork
      <3>2. ToSet(Selected(w.effects, "required")) = Indexes(w, "required") BY <3>1, ChosenIs
      <3>3. Selected(w.effects, "required") = <<>> BY <1>1, <1>4 DEF HasRequired
      <3>4. ToSet(<<>>) = {} BY EmptyPart
      <3> QED BY <3>2, <3>3, <3>4
    <2>2. RequiredDone(w, T)
      <3> DEFINE r == w.report
      <3>1. r.dispatched = <<>> /\ r.failed = <<>> /\ r.deferred = <<>> BY <1>2 DEF NoReport, Report
      <3> HIDE DEF r
      <3>2. IsPart(r.deferred, DOMAIN w.effects) /\ ToSet(r.deferred) = {} BY <3>1, EmptyPart
      <3> QED BY <2>1, <3>1, <3>2 DEF RequiredDone, r
    <2> QED BY <1>2, <1>4, <2>2 DEF Accounted, InDispatch
  <1> QED BY <1>3, <1>4 DEF Creates

LEMMA RechecksTold ==
  ASSUME NEW p, NEW w, NEW S, Accounted(p, proc[p], S), Rechecks(p, w)
  PROVE  Accounted(p, w, S)
  <1>1. /\ w.pc = "commit" /\ proc[p].pc = "recheck" /\ w.kind = proc[p].kind
        /\ w.outcome = proc[p].outcome /\ w.report = proc[p].report /\ w.effects = proc[p].effects
    BY DEF Rechecks, SameBut, IdleFields
  <1> QED BY <1>1 DEF Accounted, InDispatch, RequiredDone, Indexes

LEMMA GoesTold ==
  ASSUME NEW p, IsWork(proc[p]), NEW w, NEW S, Accounted(p, proc[p], S), Goes(p, w)
  PROVE  Accounted(p, w, S)
  <1> DEFINE d == proc[p].dispatch
  <1>1. PICK out : /\ w.dispatch = Dropped(d, out)
                   /\ \/ proc[p].pc = "prepare" /\ w.pc = "expire"
                      \/ proc[p].pc = "expire" /\ w.pc = "enqueue"
    BY DEF Goes
  <1>2. /\ w.kind = proc[p].kind /\ w.outcome = proc[p].outcome
        /\ w.report = proc[p].report /\ w.effects = proc[p].effects
    BY DEF Goes, SameBut, IdleFields
  <1>3. IsDispatch(d) BY <1>1 DEF IsWork
  <1>4. w.dispatch.effects = d.effects /\ w.dispatch.policy = d.policy /\ w.dispatch.owner = d.owner
    <2> HIDE DEF d
    <2>1. /\ Dropped(d, out).effects = d.effects /\ Dropped(d, out).policy = d.policy
          /\ Dropped(d, out).owner = d.owner
      BY ONLY <1>3, DroppedFacts
    <2> QED BY <1>1, <2>1
  <1> SUFFICES ASSUME w.kind = "begin" PROVE Accounted(p, w, S)
    BY DEF Accounted
  <1>5. Dispatching(p, proc[p]) BY <1>1, <1>2 DEF Accounted, InDispatch
  <1>6. Divides(d.prepared, d.failed, d.sent, DOMAIN d.effects) BY <1>5 DEF Dispatching
  <1>7. Divides(w.dispatch.prepared, w.dispatch.failed, w.dispatch.sent, DOMAIN d.effects)
    BY <1>1, <1>3, <1>6, DroppedDivides
  <1>8. Dispatching(p, w) BY <1>2, <1>4, <1>5, <1>7 DEF Dispatching, Chosen
  <1>9. RequiredDone(proc[p], S) => RequiredDone(w, S) BY <1>2 DEF RequiredDone, Indexes
  <1> QED BY <1>1, <1>2, <1>4, <1>8, <1>9 DEF Accounted, InDispatch

LEMMA SendsTold ==
  ASSUME NEW p, IsWork(proc[p]), NEW w, NEW S, Accounted(p, proc[p], S), Sends(p, w)
  PROVE  Accounted(p, w, S)
  <1> DEFINE d == proc[p].dispatch
             o == Selected(proc[p].effects, d.policy)
             x == d.prepared[1]
  <1>1. /\ w.kind = proc[p].kind /\ w.outcome = proc[p].outcome /\ w.pc = proc[p].pc
        /\ w.report = proc[p].report /\ w.effects = proc[p].effects
        /\ proc[p].pc = "send" /\ d.prepared # <<>>
    BY DEF Sends, SameBut, IdleFields
  <1>2. PICK accepted \in BOOLEAN :
          /\ w.dispatch = AfterSend(d, accepted)
          /\ w.sends = IF accepted THEN proc[p].sends \cup {o[x]} ELSE proc[p].sends
    BY DEF Sends, NextToSend, Originals
  <1>3. IsDispatch(d) /\ d.policy = "best-effort" BY <1>1 DEF IsWork
  <1>4. w.dispatch.effects = d.effects /\ w.dispatch.policy = d.policy /\ w.dispatch.owner = d.owner
    BY <1>1, <1>2, <1>3, AfterSendFacts
  <1> SUFFICES ASSUME w.kind = "begin" PROVE Accounted(p, w, S)
    BY DEF Accounted
  <1>5. Dispatching(p, proc[p]) /\ Sent(proc[p]) \subseteq proc[p].sends /\ RequiredDone(proc[p], S)
    BY <1>1, <1>3 DEF Accounted, InDispatch
  <1>6. Divides(d.prepared, d.failed, d.sent, DOMAIN d.effects) BY <1>5 DEF Dispatching
  <1>7. /\ Divides(w.dispatch.prepared, w.dispatch.failed, w.dispatch.sent, DOMAIN d.effects)
        /\ ToSet(w.dispatch.sent) = IF accepted THEN ToSet(d.sent) \cup {x} ELSE ToSet(d.sent)
    BY <1>1, <1>2, <1>3, <1>6, SendDivides
  <1>8. Dispatching(p, w) BY <1>1, <1>4, <1>5, <1>7 DEF Dispatching, Chosen
  <1>9. RequiredDone(w, S) BY <1>1, <1>5 DEF RequiredDone, Indexes
  <1>10. Sent(w) \subseteq w.sends
    <2>1. Sent(w) = {o[i] : i \in ToSet(w.dispatch.sent)} BY <1>1, <1>4 DEF Sent
    <2>2. {o[i] : i \in ToSet(d.sent)} \subseteq proc[p].sends BY <1>5 DEF Sent
    <2> HIDE DEF o, x, d
    <2> QED BY <1>2, <1>7, <2>1, <2>2
  <1>11. w.outcome = None BY <1>1 DEF Accounted
  <1> QED BY <1>1, <1>3, <1>4, <1>8, <1>9, <1>10, <1>11 DEF Accounted, InDispatch

\* What a begin knows after an answer it accepts.
LEMMA AnswersKnown ==
  ASSUME NEW p, IsWork(proc[p]), NEW w, NEW S, Answering(p, w), Dispatching(p, proc[p]),
         proc[p].dispatch.policy = "required" => proc[p].report = NoReport,
         proc[p].dispatch.policy = "best-effort" => RequiredDone(proc[p], S),
         proc[p].pc = "acknowledge" /\ verifyEnqueueAcknowledgements(proc[p].dispatch, now)
           => Acked(proc[p], S),
         proc[p].pc = "send" => Sent(proc[p]) \subseteq proc[p].sends
  PROVE  /\ w.kind = proc[p].kind /\ w.effects = proc[p].effects
         /\ \/ /\ proc[p].dispatch.policy = "required" /\ w.pc = "recheck" /\ RequiredDone(w, S)
               /\ w.outcome = proc[p].outcome /\ w.calls = proc[p].calls
            \/ /\ proc[p].dispatch.policy = "best-effort" /\ w.pc = "done" /\ Truthful(w, S)
               /\ w.calls = <<>>
  <1> DEFINE v == proc[p]
             d == v.dispatch
  <1>1. PICK answer : IsAnswer(d, v.pc, answer) /\ Replies(p, w, answer) BY DEF Answering
  <1>2. v.pc \in InDispatch BY DEF Answering, InDispatch
  <1>3. IsDispatch(d) /\ IsList(v.effects) /\ (v.pc = "send" => d.policy = "best-effort")
    BY <1>2 DEF IsWork, InDispatch
  <1> DEFINE r == dispatchSelectedSideEffects(answer, v.effects, Selected(v.effects, d.policy))
             report == mergeSideEffectResults(v.report, r.report)
  <1>4. \/ /\ d.policy = "required" /\ r.ok /\ w.pc = "recheck" /\ w.report = report
           /\ SameBut(w, v, {"pc", "report", "dispatch"})
        \/ d.policy = "best-effort" /\ w = [Done(p) EXCEPT !.report = report]
    BY <1>1 DEF Replies, Originals
  <1> HIDE DEF r, report
  <1>7. d.effects = Chosen(v, d.policy) BY DEF Dispatching
  <1>8. \A i \in DOMAIN d.effects : d.effects[i].policy = d.policy
    <2>1. \A i \in DOMAIN Chosen(v, d.policy) : Chosen(v, d.policy)[i].policy = d.policy BY <1>3, ChosenIs
    <2> QED BY <1>7, <2>1
  <1>9. Reports(v, S, answer)
    <2> HIDE DEF v
    <2>1. v.pc = "send" => Sent(v) \subseteq v.sends /\ v.dispatch.policy # "required" BY <1>3 DEF v
    <2>2. v.pc = "acknowledge" /\ verifyEnqueueAcknowledgements(v.dispatch, now) => Acked(v, S) BY DEF v
    <2>3. Dispatching(p, v) BY DEF v
    <2> QED BY <1>1, <1>3, <1>8, <2>1, <2>2, <2>3, AnswerReports
  <1>10. /\ answer = [ok |-> answer.ok, report |-> answer.report, reason |-> answer.reason]
         /\ ~answer.ok => answer.report = NoReport
    BY <1>1, AnswerIs
  <1>11. CASE /\ d.policy = "required" /\ r.ok /\ w.pc = "recheck" /\ w.report = report
              /\ SameBut(w, v, {"pc", "report", "dispatch"})
    <2>1. w.effects = v.effects /\ w.outcome = v.outcome /\ w.calls = v.calls /\ w.kind = v.kind
      BY <1>11 DEF SameBut, IdleFields
    <2>2. RequiredDone(w, S)
      <3>1. v.report = NoReport BY <1>11
      <3> HIDE DEF v
      <3>2. r = dispatchSelectedSideEffects(answer, v.effects, Selected(v.effects, "required"))
        BY <1>11 DEF r
      <3>3. w.report = mergeSideEffectResults(v.report, r.report) BY <1>11 DEF report
      <3> QED BY <1>3, <1>7, <1>9, <1>10, <1>11, <2>1, <3>1, <3>2, <3>3, RequiredReplied
    <2> QED BY <1>11, <2>1, <2>2
  <1>12. CASE d.policy = "best-effort" /\ w = [Done(p) EXCEPT !.report = report]
    <2>1. /\ w.pc = "done" /\ w.effects = v.effects /\ w.report = report /\ w.sends = v.sends
          /\ w.kind = v.kind /\ w.calls = <<>>
      BY <1>12, OverIs
    <2>2. Truthful(w, S)
      <3>1. RequiredDone(v, S) BY <1>12
      <3> HIDE DEF v
      <3>2. r = dispatchSelectedSideEffects(answer, v.effects, Selected(v.effects, "best-effort"))
        BY <1>12 DEF r
      <3>3. w.report = mergeSideEffectResults(v.report, r.report) BY <2>1 DEF report
      <3>4. /\ IsList(v.effects) /\ v.dispatch.policy = "best-effort"
            /\ v.dispatch.effects = Chosen(v, "best-effort")
        BY <1>3, <1>7, <1>12
      <3>5. w.effects = v.effects /\ w.sends = v.sends BY <2>1
      <3> QED BY ONLY <1>9, <1>10, <3>1, <3>2, <3>3, <3>4, <3>5, OthersReplied
    <2> QED BY <1>12, <2>1, <2>2
  <1> QED BY <1>4, <1>11, <1>12

LEMMA AnswersTold ==
  ASSUME NEW p, IsWork(proc[p]), NEW w, NEW S, Accounted(p, proc[p], S), Answering(p, w)
  PROVE  Accounted(p, w, S)
  <1> DEFINE v == proc[p]
             d == v.dispatch
  <1>1. v.pc \in InDispatch BY DEF Answering, InDispatch
  <1>2. w.kind = v.kind
    <2>1. SameBut(w, v, {"pc", "report", "dispatch"}) => w.kind = v.kind BY DEF SameBut, IdleFields
    <2>2. \A report : [Done(p) EXCEPT !.report = report].kind = v.kind BY OverIs
    <2> QED BY <2>1, <2>2 DEF Answering, Replies
  <1> SUFFICES ASSUME w.kind = "begin" PROVE Accounted(p, w, S)
    BY DEF Accounted
  <1>3. /\ Dispatching(p, v) /\ (d.policy = "required" => v.report = NoReport)
        /\ (d.policy = "best-effort" => RequiredDone(v, S))
        /\ (v.pc = "acknowledge" => Acked(v, S)) /\ (v.pc = "send" => Sent(v) \subseteq v.sends)
        /\ v.outcome = None
    BY <1>1, <1>2 DEF Accounted, InDispatch
  <1>4. \/ w.pc = "recheck" /\ RequiredDone(w, S) /\ w.outcome = v.outcome
        \/ w.pc = "done" /\ Truthful(w, S)
    BY <1>3, AnswersKnown
  <1> QED BY <1>3, <1>4 DEF Accounted, InDispatch

\* What a transaction holds is stored when it commits.
LEMMA CommitStores ==
  ASSUME Invariant, NEW p \in Clients, tx.owner = p, canCommit, Keeps(applyTransactionState(base, tx))
  PROVE  /\ base'.messages = tx.working.messages /\ base.messages = tx.before.messages
         /\ Kept(p) \subseteq stored'
         /\ base' = Merged(base, tx.working, Region(tx.covers))
         /\ Agree(base, tx.before, Region(tx.covers))
  <1>1. p # None BY StackAssumption
  <1>2. Sound(base) /\ Turn(tx) /\ Beside(base, tx) BY <1>1 DEF Invariant, Trusted
  <1>3. canCommitTransactionState(base, tx) /\ canCommitMemoryOutboxState(base, tx) BY DEF canCommit
  <1>4. Agree(base, tx.before, Region(tx.covers)) BY <1>2, <1>3, CommitFinds
  <1>5. base' = Merged(base, tx.working, Region(tx.covers)) BY <1>2, <1>4, CommitLeaves DEF Keeps
  <1>6. "messages" \in Region(tx.covers) /\ "messages" \in Fields
    BY <1>2, RegionHas DEF Turn, Fields, MapFields
  <1>7. base'.messages = tx.working.messages BY <1>5, <1>6 DEF Merged
  <1>8. base.messages = tx.before.messages BY <1>4, <1>6 DEF Agree
  <1>9. stored' = stored \cup Held(base') /\ Held(base') = Held(tx.working)
    BY <1>7 DEF Keeps, Held
  <1> QED BY <1>4, <1>5, <1>7, <1>8, <1>9 DEF Kept

LEMMA SettlesTold ==
  ASSUME Invariant, NEW p \in Clients, NEW w, Accounted(p, proc[p], Kept(p)), Settled(p, w)
  PROVE  Accounted(p, w, stored')
  <1> DEFINE v == proc[p]
  <1>1. IsWork(v) BY DEF Invariant, Working
  <1>2. Kept(p) \subseteq stored' BY CommitStores DEF Settled
  <1>3. Accounted(p, v, stored') BY <1>2, AccountedMore
  <1> SUFFICES ASSUME w.kind = "begin" PROVE Accounted(p, w, stored')
    BY DEF Accounted
  <1>4. CASE w = Done(p)
    <2>1. /\ w.pc = "done" /\ w.kind = v.kind /\ w.effects = v.effects
          /\ w.report = v.report /\ w.sends = v.sends
      BY <1>4, OverIs
    <2>2. v.pc = "commit" BY <2>1 DEF Settled, SameBut, IdleFields
    <2>3. RequiredDone(v, stored') BY <1>3, <2>1, <2>2 DEF Accounted
    <2>4. Truthful(w, stored')
      <3> DEFINE r == w.report
                 D == DOMAIN w.effects
      <3>1. /\ r.dispatched = <<>> /\ r.failed = <<>> /\ IsPart(r.deferred, D)
            /\ ToSet(r.deferred) = Indexes(w, "required")
            /\ \A i \in Indexes(w, "required") : Meaning(w.effects[i]) \in stored'
        BY <2>1, <2>3 DEF RequiredDone, Indexes
      <3> HIDE DEF r, D
      <3>2. Divides(r.dispatched, r.deferred, r.failed, D) BY <3>1, EmptyPart DEF Divides, Apart
      <3> QED BY <3>1, <3>2, EmptyPart DEF Truthful, r, D
    <2> QED BY <2>1, <2>4 DEF Accounted, InDispatch
  <1> DEFINE d == Dispatches(p, "best-effort", v.at)
  <1>5. CASE /\ v.pc = "commit" /\ SameBut(w, v, {"pc", "dispatch"})
             /\ \/ w.pc = "prepare" /\ w.dispatch = d
                \/ w.pc = "send" /\ \E out \in SUBSET DOMAIN d.effects : w.dispatch = Dropped(d, out)
    <2>1. /\ w.kind = v.kind /\ w.outcome = v.outcome /\ w.report = v.report /\ w.effects = v.effects
      BY <1>5 DEF SameBut, IdleFields
    <2>2. RequiredDone(w, stored') /\ w.outcome = None
      BY <1>3, <1>5, <2>1 DEF Accounted, RequiredDone, Indexes
    <2> DEFINE u == [effects |-> v.effects, dispatch |-> d]
    <2>3. /\ Dispatching(p, u) /\ d.policy = "best-effort" /\ IsDispatch(d)
          /\ d.failed = <<>> /\ d.sent = <<>>
      <3> HIDE DEF d
      <3>1. u.effects = v.effects /\ u.dispatch = d BY DEF u
      <3> HIDE DEF u
      <3> QED BY <1>1, <3>1, DispatchBegins DEF d
    <2> HIDE DEF d, v
    <2>4. /\ d.owner = p /\ d.effects = Chosen(w, "best-effort")
          /\ Divides(d.prepared, d.failed, d.sent, DOMAIN d.effects)
      BY <2>1, <2>3 DEF Dispatching, Chosen
    <2>5. CASE w.pc = "prepare" /\ w.dispatch = d
      <3>1. Dispatching(p, w) BY <2>3, <2>4, <2>5 DEF Dispatching
      <3> QED BY <2>2, <2>3, <2>5, <3>1 DEF Accounted, InDispatch
    <2>6. CASE w.pc = "send" /\ \E out \in SUBSET DOMAIN d.effects : w.dispatch = Dropped(d, out)
      <3>1. PICK out : w.dispatch = Dropped(d, out) BY <2>6
      <3> DEFINE n == Dropped(d, out)
      <3>2. n.effects = d.effects /\ n.policy = d.policy /\ n.owner = d.owner /\ n.sent = d.sent
        BY <2>3, DroppedFacts
      <3>3. Divides(n.prepared, n.failed, n.sent, DOMAIN d.effects) BY <2>3, <2>4, DroppedDivides
      <3> HIDE DEF n
      <3>4. Dispatching(p, w) BY <2>3, <2>4, <3>1, <3>2, <3>3 DEF Dispatching, n
      <3>5. Sent(w) = {} BY <2>3, <3>1, <3>2, EmptyPart DEF Sent, n
      <3> QED BY <2>2, <2>3, <2>6, <3>1, <3>2, <3>4, <3>5 DEF Accounted, InDispatch, n
    <2> QED BY <1>5, <2>5, <2>6
  <1> QED BY <1>4, <1>5 DEF Settled

\* A batch that a transaction has an answer for was asked of its maps.
LEMMA InsideAnswers ==
  ASSUME IsTurn(tx), NEW c, c.op = "enqueueBatch", Calls(c).answer # <<>>
  PROVE  /\ Calls(c).answer = Perform(tx.working, c, now).answer
         /\ Calls(c).tx.working = Perform(tx.working, c, now).db
         /\ Calls(c).tx.before = tx.before /\ Calls(c).tx.owner = tx.owner
  <1> DEFINE w == Within(tx, c, now)
  <1>1. Calls(c).answer = w.answer BY DEF Calls
  <1>2. Needs(c.op) \subseteq tx.covers BY <1>1 DEF Within
  <1>3. w.answer = Perform(tx.working, c, now).answer BY <1>2 DEF Within
  <1> HIDE DEF w
  <1> QED BY <1>1, <1>2, <1>3, CallsIs

\* The dispatch of a client whose batch has an answer.
LEMMA EnqueuesDispatch ==
  ASSUME Working, NEW p \in Clients, NEW w, Enqueues(p, w)
  PROVE  LET d == proc[p].dispatch
             e == w.dispatch
         IN /\ IsDispatch(d) /\ IsCall(EnqueueCall(d)) /\ EnqueueCall(d).op = "enqueueBatch"
            /\ EnqueueCall(d).batch = Batch(d) /\ IsList(Batch(d))
            /\ e.effects = d.effects /\ e.policy = d.policy /\ e.owner = d.owner
            /\ e.prepared = d.prepared /\ e.failed = d.failed /\ e.sent = d.sent
            /\ e.batch = Batch(d) /\ Batch(e) = Batch(d)
            /\ safeEnqueueBatch(Batch(d), e.answer) = None /\ e.answer # <<>>
            /\ \/ /\ d.policy = "required" /\ e.answer = Calls(EnqueueCall(d)).answer
                  /\ tx' = Calls(EnqueueCall(d)).tx /\ base' = base /\ stored' = stored
               \/ /\ d.policy # "required" /\ e.answer = Perform(base, EnqueueCall(d), now).answer
                  /\ tx' = Touch(Perform(base, EnqueueCall(d), now).wrote)
                  /\ base' = Perform(base, EnqueueCall(d), now).db /\ stored' = stored \cup Held(base')
  <1> DEFINE d == proc[p].dispatch
             b == Batch(d)
             c == EnqueueCall(d)
  <1>1. IsDispatch(d) BY DEF Enqueues, Working, IsWork
  <1>2. PICK answer :
          /\ w.dispatch = [d EXCEPT !.batch = b, !.answer = answer]
          /\ safeEnqueueBatch(b, answer) = None
          /\ \/ /\ d.policy = "required" /\ answer = Calls(c).answer
                /\ tx' = Calls(c).tx /\ base' = base /\ stored' = stored
             \/ /\ d.policy # "required" /\ answer = Perform(base, c, now).answer
                /\ tx' = Touch(Perform(base, c, now).wrote)
                /\ base' = Perform(base, c, now).db /\ stored' = stored \cup Held(base')
    BY DEF Enqueues, Keeps
  <1>3. IsCall(c) /\ c.op = "enqueueBatch" /\ c.batch = b /\ IsList(b) BY <1>1, BatchCall
  <1> HIDE DEF d, c
  <1>4. answer # <<>>
    <2> HIDE DEF b
    <2>1. "OUTBOX_ENQUEUE_FAILED" # None BY StackAssumption DEF Reasons
    <2> QED BY <1>2, <2>1 DEF safeEnqueueBatch
  <1>5. LET e == w.dispatch IN
        /\ e.effects = d.effects /\ e.policy = d.policy /\ e.owner = d.owner
        /\ e.prepared = d.prepared /\ e.failed = d.failed /\ e.sent = d.sent
        /\ e.batch = b /\ e.answer = answer
    <2> HIDE DEF b
    <2> QED BY ONLY <1>1, <1>2 DEF IsDispatch, DispatchFields
  <1>6. Batch(w.dispatch) = b BY <1>5 DEF Batch, outboxMessage, messageId
  <1> HIDE DEF b
  <1> QED BY <1>1, <1>2, <1>3, <1>4, <1>5, <1>6 DEF b, c, d

LEMMA EnqueuesTold ==
  ASSUME Invariant, NEW p \in Clients, NEW w, Accounted(p, proc[p], Kept(p)), Enqueues(p, w)
  PROVE  Accounted(p, w, After(w))
  <1> DEFINE v == proc[p]
             d == v.dispatch
             e == w.dispatch
             b == Batch(d)
             c == EnqueueCall(d)
  <1>1. Working /\ Sound(base) /\ IsTurn(tx) BY DEF Invariant, Working, Trusted
  <1>2. /\ IsDispatch(d) /\ IsCall(c) /\ c.op = "enqueueBatch" /\ c.batch = b /\ IsList(b)
        /\ e.effects = d.effects /\ e.policy = d.policy /\ e.owner = d.owner
        /\ e.prepared = d.prepared /\ e.failed = d.failed /\ e.sent = d.sent
        /\ e.batch = b /\ Batch(e) = b
        /\ safeEnqueueBatch(b, e.answer) = None /\ e.answer # <<>>
        /\ \/ /\ d.policy = "required" /\ e.answer = Calls(c).answer
              /\ tx' = Calls(c).tx /\ base' = base /\ stored' = stored
           \/ /\ d.policy # "required" /\ e.answer = Perform(base, c, now).answer
              /\ tx' = Touch(Perform(base, c, now).wrote)
              /\ base' = Perform(base, c, now).db /\ stored' = stored \cup Held(base')
    BY <1>1, EnqueuesDispatch
  <1>3. /\ v.pc = "enqueue" /\ w.pc = "acknowledge" /\ w.kind = v.kind /\ w.outcome = v.outcome
        /\ w.report = v.report /\ w.effects = v.effects
    BY DEF Enqueues, SameBut, IdleFields
  <1> SUFFICES ASSUME w.kind = "begin" PROVE Accounted(p, w, After(w))
    BY DEF Accounted
  <1>4. /\ Dispatching(p, v) /\ (d.policy = "required" => v.report = NoReport)
        /\ (d.policy = "best-effort" => RequiredDone(v, Kept(p))) /\ w.outcome = None
    BY <1>3 DEF Accounted, InDispatch
  <1> HIDE DEF b, c, d, e, v
  <1>5. Dispatching(p, w) BY <1>2, <1>3, <1>4 DEF Dispatching, Chosen, d, e
  <1>6. \A k \in DOMAIN b : e.answer[k].key = b[k].key
    <2>1. \A why \in {"OUTBOX_ENQUEUE_FAILED", "STORE_UNAVAILABLE"} : why # None
      BY StackAssumption DEF Reasons
    <2> QED BY <1>2, <2>1 DEF safeEnqueueBatch, snapshotAcknowledgedMessage
  <1>7. ASSUME NEW db, Sound(db), e.answer = Perform(db, c, now).answer
        PROVE  \A k \in DOMAIN b : Meaning(e.answer[k]) \in Held(Perform(db, c, now).db)
    <2> DEFINE r == Perform(db, c, now)
    <2>1. r = enqueueBatch(db, c, now) BY <1>2 DEF Perform
    <2>2. IsDb(db) /\ IsList(c.batch) BY <1>2, <1>7 DEF Sound
    <2>3. \A k \in DOMAIN b : Confirms(r.db, r.answer[k]) BY <1>2, <1>7, <2>1, <2>2, EnqueueRows
    <2> HIDE DEF r
    <2>4. \A k \in DOMAIN b : Meaning(r.answer[k]) \in Held(r.db)
      BY <2>3 DEF Confirms, Held, Meaning
    <2> QED BY <1>7, <2>4 DEF r
  <1>8. ASSUME NEW S, \A k \in DOMAIN b : Meaning(e.answer[k]) \in S PROVE Acked(w, S)
    BY <1>2, <1>6, <1>8 DEF Acked, e
  <1>9. CASE /\ d.policy = "required" /\ e.answer = Calls(c).answer
             /\ tx' = Calls(c).tx /\ base' = base /\ stored' = stored
    <2>1. tx.owner = p BY <1>1, <1>3, <1>9 DEF Working, Turning, d, v
    <2>2. Sound(tx.working)
      <3>1. p # None BY StackAssumption
      <3> QED BY <2>1, <3>1 DEF Invariant, Trusted, Turn
    <2>3. /\ e.answer = Perform(tx.working, c, now).answer
          /\ tx'.working = Perform(tx.working, c, now).db
      BY <1>1, <1>2, <1>9, InsideAnswers
    <2>4. \A k \in DOMAIN b : Meaning(e.answer[k]) \in Held(tx'.working) BY <1>7, <2>2, <2>3
    <2>5. Turning(w) BY <1>2, <1>3, <1>9 DEF Turning, e
    <2>6. Acked(w, After(w)) BY <1>8, <2>4, <2>5 DEF After
    <2>7. w.dispatch.policy = "required" /\ w.report = NoReport BY <1>2, <1>3, <1>4, <1>9 DEF e
    <2> QED BY <1>3, <1>4, <1>5, <2>6, <2>7 DEF Accounted, InDispatch
  <1>10. CASE /\ d.policy # "required" /\ e.answer = Perform(base, c, now).answer
              /\ tx' = Touch(Perform(base, c, now).wrote)
              /\ base' = Perform(base, c, now).db /\ stored' = stored \cup Held(base')
    <2>1. \A k \in DOMAIN b : Meaning(e.answer[k]) \in Held(base') BY <1>1, <1>7, <1>10
    <2>2. Acked(w, After(w)) BY <1>8, <1>10, <2>1 DEF After
    <2>3. Kept(p) \subseteq After(w)
      <3>1. ~Turning(v) BY <1>3, <1>10 DEF Turning, d
      <3>2. Kept(p) = stored BY <3>1 DEF Kept, v
      <3> QED BY <1>10, <3>2 DEF After
    <2>4. d.policy = "best-effort" => RequiredDone(w, After(w)) BY <1>3, <1>4, <2>3 DEF RequiredDone, Indexes
    <2> QED BY <1>2, <1>3, <1>4, <1>5, <1>10, <2>2, <2>4 DEF Accounted, InDispatch, e
  <1> QED BY <1>2, <1>9, <1>10

\* What the client that takes a step knows of its effects is true after it.
LEMMA OwnTold ==
  ASSUME Invariant, NEW p \in Clients, NEW w, Accounted(p, proc[p], Kept(p)), Does(p, w)
  PROVE  Accounted(p, w, After(w))
  <1>0. Working /\ IsWork(proc[p]) BY DEF Invariant, Working
  <1>1. ASSUME Still, Turning(w) = Turning(proc[p]) PROVE Kept(p) = After(w)
    BY <1>1 DEF Still, Kept, After
  <1>2. CASE Fails(p, w) \/ Waits(p, w) \/ Starts(p, w) \/ Asks(p, w) BY <1>2, EarlyTold
  <1>3. CASE Settled(p, w)
    <2>1. Accounted(p, w, stored') BY <1>3, SettlesTold
    <2>2. stored' \subseteq After(w) BY DEF After
    <2> QED BY <2>1, <2>2, AccountedMore
  <1>4. CASE Creates(p, w) BY <1>0, <1>4, CreatesTold
  <1>5. CASE Rechecks(p, w)
    <2>1. Still /\ Turning(w) /\ Turning(proc[p]) BY <1>5 DEF Rechecks, Turning
    <2>2. Kept(p) = After(w) BY <1>1, <2>1
    <2> QED BY <1>5, <2>2, RechecksTold
  <1>6. CASE Answering(p, w)
    <2>1. Still /\ (Turning(proc[p]) => Turning(w))
      <3>1. Still BY <1>6 DEF Answering, Replies
      <3>2. proc[p].dispatch.policy = "required" => w.pc = "recheck" BY <1>6 DEF Answering, Replies
      <3> QED BY <1>6, <3>1, <3>2 DEF Answering, Turning
    <2>2. Kept(p) \subseteq After(w) BY <2>1 DEF Still, Kept, After
    <2>3. Accounted(p, w, Kept(p)) BY <1>0, <1>6, AnswersTold
    <2> QED BY <2>2, <2>3, AccountedMore
  <1>7. CASE Goes(p, w)
    <2>1. PICK out : /\ w.dispatch = Dropped(proc[p].dispatch, out)
                     /\ \/ proc[p].pc = "prepare" /\ w.pc = "expire"
                        \/ proc[p].pc = "expire" /\ w.pc = "enqueue"
      BY <1>7 DEF Goes
    <2>2. IsDispatch(proc[p].dispatch) BY <1>0, <2>1 DEF IsWork
    <2>3. w.dispatch.policy = proc[p].dispatch.policy BY <2>1, <2>2, DroppedIs
    <2>4. Still /\ Turning(w) = Turning(proc[p]) BY <1>7, <2>1, <2>3 DEF Goes, Turning
    <2>5. Kept(p) = After(w) BY <1>1, <2>4
    <2> QED BY <1>0, <1>7, <2>5, GoesTold
  <1>8. CASE Enqueues(p, w) BY <1>8, EnqueuesTold
  <1>9. CASE Sends(p, w)
    <2>1. Still /\ proc[p].pc = "send" /\ w.pc = "send" BY <1>9 DEF Sends, SameBut, IdleFields
    <2>2. Turning(w) = Turning(proc[p]) BY <2>1 DEF Turning
    <2>3. Kept(p) = After(w) BY <1>1, <2>1, <2>2
    <2> QED BY <1>0, <1>9, <2>3, SendsTold
  <1> QED BY <1>2, <1>3, <1>4, <1>5, <1>6, <1>7, <1>8, <1>9 DEF Does

\* A step of a client leaves alone the transaction that is another's.
LEMMA OthersTurn ==
  ASSUME Invariant, NEW p \in Clients, NEW w, Does(p, w), tx.owner # p, tx.owner # None
  PROVE  /\ tx'.owner = tx.owner /\ tx'.working = tx.working /\ tx'.before = tx.before
         /\ tx'.covers = tx.covers
  <1>1. Working /\ IsTurn(tx) /\ ~Turning(proc[p]) BY DEF Invariant, Working
  <1>2. CASE tx' = tx BY <1>2
  <1>3. CASE \E wrote : tx' = Touch(wrote) BY <1>1, <1>3, TouchIs
  <1>4. Fails(p, w) => tx' = tx BY DEF Fails
  <1>5. ~Starts(p, w) /\ ~Settled(p, w) BY DEF Starts, Settled
  <1>6. ~Asks(p, w) /\ ~Creates(p, w) BY <1>1 DEF Asks, Creates, Turning
  <1>7. Waits(p, w) \/ Rechecks(p, w) \/ Answering(p, w) \/ Goes(p, w) \/ Sends(p, w) => tx' = tx
    BY DEF Waits, Rechecks, Answering, Replies, Goes, Sends, Still
  <1>8. Enqueues(p, w) => \E wrote : tx' = Touch(wrote) BY <1>1 DEF Enqueues, Turning
  <1> QED BY <1>2, <1>3, <1>4, <1>5, <1>6, <1>7, <1>8 DEF Does

\* What is stored stays in the history.
LEMMA StoredGrows ==
  ASSUME NEW p, NEW w, Does(p, w)
  PROVE  stored \subseteq stored'
  BY DEF Does, Fails, Waits, Starts, Asks, Settled, Creates, Rechecks, Answering, Replies, Goes,
         Enqueues, Sends, Still, Keeps

LEMMA NextTold ==
  ASSUME Invariant, Told, [Next]_vars
  PROVE  Told'
  <1>0. Working /\ IsTurn(tx) BY DEF Invariant, Working
  <1>1. ASSUME proc' = proc, tx'.owner = tx.owner, tx'.working = tx.working, stored \subseteq stored'
        PROVE  Told'
    <2>1. ASSUME NEW p \in Clients PROVE Accounted(p, proc'[p], Kept(p)')
      <3>1. Accounted(p, proc[p], Kept(p)) BY DEF Told
      <3>2. Kept(p) \subseteq Kept(p)' BY <1>1 DEF Kept
      <3>3. Accounted(p, proc[p], Kept(p)') BY ONLY <3>1, <3>2, AccountedMore
      <3> QED BY <1>1, <3>3
    <2> QED BY ONLY <2>1 DEF Told
  <1>2. CASE Tick \/ Finished \/ UNCHANGED vars
    BY <1>1, <1>2 DEF Tick, Finished, vars
  <1>3. CASE DirectCall
    <2>1. PICK c : /\ stored' = stored \cup Held(base') /\ proc' = proc
                   /\ tx' = Touch(Perform(base, c, now).wrote)
      BY <1>0, <1>3, DirectCallIs
    <2>2. tx'.owner = tx.owner /\ tx'.working = tx.working BY <1>0, <2>1, TouchIs
    <2> QED BY <1>1, <2>1, <2>2
  <1>4. ASSUME NEW p \in Clients, Step(p) PROVE Told'
    <2>1. PICK w : proc' = [proc EXCEPT ![p] = w] /\ Does(p, w) BY <1>0, <1>4, StepDone DEF IsDone
    <2>2. \A q \in Clients : proc'[q] = IF q = p THEN w ELSE proc[q] BY <1>0, <2>1 DEF Working
    <2>3. Accounted(p, w, After(w))
      <3>1. Accounted(p, proc[p], Kept(p)) BY DEF Told
      <3> QED BY <2>1, <3>1, OwnTold
    <2>4. Kept(p)' = After(w)
      <3>1. proc'[p] = w BY <2>2
      <3> QED BY <3>1 DEF Kept, After
    <2>5. ASSUME NEW q \in Clients, q # p PROVE Accounted(q, proc[q], Kept(q)')
      <3>1. Accounted(q, proc[q], Kept(q)) BY DEF Told
      <3>2. stored \subseteq stored' BY <2>1, StoredGrows
      <3>3. proc'[q] = proc[q] BY <2>2, <2>5
      <3>4. Turning(proc[q]) => tx'.working = tx.working
        <4>1. Turning(proc[q]) => tx.owner = q BY <1>0 DEF Working
        <4>2. q # None BY StackAssumption
        <4> QED BY <2>1, <2>5, <4>1, <4>2, OthersTurn
      <3>5. Kept(q) \subseteq Kept(q)' BY <3>2, <3>3, <3>4 DEF Kept
      <3> QED BY ONLY <3>1, <3>5, AccountedMore
    <2>6. ASSUME NEW q \in Clients PROVE Accounted(q, proc'[q], Kept(q)')
      <3>1. CASE q = p BY <2>2, <2>3, <2>4, <3>1
      <3>2. CASE q # p BY <2>2, <2>5, <3>2
      <3> QED BY <3>1, <3>2
    <2> QED BY ONLY <2>6 DEF Told
  <1> QED BY <1>2, <1>3, <1>4 DEF Next

\* A list without repetition names an index at most once.
LEMMA OccursOnce ==
  ASSUME NEW report, NEW set,
         Divides(report.dispatched, report.deferred, report.failed, set)
  PROVE  ToSet(Items(report)) \subseteq set /\ \A i : IndexOccurs(report, i) <= 1
  <1> DEFINE a == report.dispatched
             b == report.deferred
             c == report.failed
             s == a \o b
             t == s \o c
  <1>1. IsPart(a, set) /\ IsPart(b, set) /\ IsPart(c, set) /\ Apart(a, b, c) BY DEF Divides
  <1>2. Items(report) = t BY DEF Items
  <1> HIDE DEF a, b, c, s, t
  <1>3. IsPart(s, set) /\ ToSet(s) = ToSet(a) \cup ToSet(b) BY <1>1, PartsConcat DEF Apart, s
  <1>4. ToSet(s) \cap ToSet(c) = {} BY <1>1, <1>3 DEF Apart
  <1>5. IsPart(t, set) BY <1>1, <1>3, <1>4, PartsConcat DEF t
  <1>6. \A m, n \in DOMAIN t : t[m] = t[n] => m = n BY <1>5 DEF IsPart, IsInjective
  <1>7. ASSUME NEW i PROVE IndexOccurs(report, i) <= 1
    <2> DEFINE N == {n \in DOMAIN t : t[n] = i}
    <2>1. IndexOccurs(report, i) = Cardinality(N) BY <1>2 DEF IndexOccurs
    <2>2. N = {} \/ \E n : N = {n} BY <1>6
    <2> HIDE DEF N
    <2>3. Cardinality(N) = 0 \/ Cardinality(N) = 1 BY <2>2, FS_EmptySet, FS_Singleton
    <2> QED BY <2>1, <2>3
  <1> QED BY <1>2, <1>5, <1>7 DEF IsPart

\* The events and the report of a completed begin tell the truth: an effect
\* is named at most once and by its own index, every required one as deferred,
\* a deferred one was stored with its content and policy, one reported as
\* dispatched was accepted by the transport, and only a best-effort one is
\* reported as failed (dispatchSelectedSideEffects, mergeSideEffectResults).
THEOREM ReportsTellTruth == Spec => []EffectsAccounted
  <1>1. Init => Told
    <2> SUFFICES ASSUME Init PROVE Told
      OBVIOUS
    <2>1. \A p \in Clients : proc[p] = Idle BY DEF Init
    <2>2. Idle.kind = "none" BY DEF Idle
    <2> QED BY <2>1, <2>2 DEF Told, Accounted
  <1>2. Invariant /\ Told /\ [Next]_vars => Told' BY NextTold
  <1>3. Invariant /\ Told => EffectsAccounted
    <2> SUFFICES ASSUME Invariant, Told, NEW p \in Clients,
                        proc[p].kind = "begin", proc[p].outcome = "committed"
                 PROVE  LET report == proc[p].report
                            effects == proc[p].effects
                        IN /\ ToSet(Items(report)) \subseteq DOMAIN effects
                           /\ \A i \in DOMAIN effects : IndexOccurs(report, i) <= 1
                           /\ ToSet(Originals(p, "required")) \subseteq ToSet(report.deferred)
                           /\ ToSet(report.failed) \subseteq ToSet(Originals(p, "best-effort"))
                           /\ \A i \in ToSet(report.deferred) :
                                [key |-> effects[i].key, policy |-> effects[i].policy,
                                 content |-> effects[i].content] \in stored
                           /\ ToSet(report.dispatched) \subseteq proc[p].sends
      BY DEF EffectsAccounted
    <2> DEFINE v == proc[p]
    <2>1. IsList(v.effects) BY DEF Invariant, Working, IsWork
    <2>2. Accounted(p, v, Kept(p)) BY DEF Told
    <2>3. v.pc = "done" BY <2>2, StackAssumption DEF Accounted
    <2>4. Kept(p) = stored BY <2>3 DEF Kept, Turning
    <2>5. Truthful(v, stored) BY <2>2, <2>3, <2>4 DEF Accounted
    <2>6. /\ ToSet(Originals(p, "required")) = Indexes(v, "required")
          /\ ToSet(Originals(p, "best-effort")) = Indexes(v, "best-effort")
      BY <2>1, ChosenIs DEF Originals
    <2> HIDE DEF v
    <2>7. ToSet(Items(v.report)) \subseteq DOMAIN v.effects /\ \A i : IndexOccurs(v.report, i) <= 1
      BY <2>5, OccursOnce DEF Truthful
    <2> QED BY <2>5, <2>6, <2>7 DEF Truthful, Meaning, v
  <1> QED BY <1>1, <1>2, <1>3, Invariance, PTL DEF Spec

-----------------------------------------------------------------------------
(* A challenge and its required messages                                   *)

\* The keys a transaction has added to a map.
New(t, map) == DOMAIN t.working[map] \ DOMAIN t.before[map]

\* What the messages that are not given up say.
Live(db) == {Meaning(db.messages[id]) : id \in {id \in DOMAIN db.messages : db.messages[id].status # "dead"}}

\* What a begin holds in its transaction: its challenge from the moment it is
\* created, then what the store has acknowledged, then all its required messages.
Bound(w, t, p) ==
  w.kind = "begin" /\ Turning(w) =>
    /\ w.pc = "run" => t.working = t.before
    /\ w.pc # "run" => p \in New(t, "challenges")
    /\ w.pc = "acknowledge" =>
         \A k \in DOMAIN w.dispatch.batch : Confirms(t.working, w.dispatch.answer[k])
    /\ w.pc \in {"recheck", "commit"} => RequiredDone(w, Live(t.working))

\* A begin that has created its challenge and not yet committed.
Holding(w) == w.kind = "begin" /\ w.pc # "run" /\ Turning(w)

IsOf(id, p) == id[1] = p /\ id[2] = "required"

\* The transaction has added something that bears the name of p.
Bears(t, p) == p \in New(t, "challenges") \/ \E id \in New(t, "messages") : IsOf(id, p)

\* Then the transaction is that of p.
Owned(w, t, p) == t.owner # None /\ Bears(t, p) => t.owner = p /\ Holding(w)

\* A script uses no identifier of a begin, and a required effect has a key.
Formed(w) ==
  /\ \A k \in DOMAIN w.calls : Foreign(w.calls[k])
  /\ \A i \in DOMAIN w.effects : w.effects[i].policy = "required" => w.effects[i].key # None
  /\ w.pc \in InDispatch \cup {"recheck", "commit"} => w.kind = "begin"

Together == \A p \in Clients : Bound(proc[p], tx, p) /\ Owned(proc[p], tx, p) /\ Formed(proc[p])

\* The turn is the same but for what others have replaced.
SameTurn(u, t) == u.owner = t.owner /\ u.working = t.working /\ u.before = t.before

LEMMA SameTurnIs ==
  ASSUME NEW t, NEW u, SameTurn(u, t), NEW w, NEW p
  PROVE  /\ Bound(w, t, p) => Bound(w, u, p)
         /\ Owned(w, t, p) => Owned(w, u, p)
         /\ Bears(u, p) => Bears(t, p)
  BY DEF SameTurn, Bound, Owned, Bears, New

LEMMA FormedNext ==
  ASSUME Invariant, NEW p \in Clients, NEW w, Formed(proc[p]), Does(p, w)
  PROVE  Formed(w)
  <1> DEFINE v == proc[p]
  <1>0. IsWork(v) /\ scene \in DOMAIN Scenes BY DEF Invariant, Working
  <1>1. ASSUME w.calls = <<>>, w.effects = <<>>, w.pc \notin InDispatch \cup {"recheck", "commit"} PROVE Formed(w)
    BY <1>1 DEF Formed
  <1>2. ASSUME w.calls \in {v.calls, <<>>}, w.effects = v.effects, w.kind = v.kind,
               v.kind = "begin" \/ w.pc \notin InDispatch \cup {"recheck", "commit"}
        PROVE  Formed(w)
    BY <1>2 DEF Formed
  <1>3. CASE Fails(p, w) BY <1>1, <1>3, OverIs DEF Fails, InDispatch
  <1>4. CASE Waits(p, w)
    <2>1. CASE w.kind = "script" /\ w.effects = <<>> /\ \E s \in Scenes[scene].scripts : w.calls = s.calls
      <3>1. PICK s \in Scenes[scene].scripts : w.calls = s.calls BY <2>1
      <3>2. \A k \in DOMAIN s.calls : Foreign(s.calls[k]) BY <1>0, ScenesAssumption DEF IsScene
      <3> QED BY <1>4, <2>1, <3>1, <3>2 DEF Waits, Formed, InDispatch
    <2>2. CASE w.kind = "begin" /\ w.calls = <<>> /\ \E o \in Scenes[scene].outputs : CanBegin(o) /\ w.effects = o.effects
      <3>1. PICK o \in Scenes[scene].outputs : CanBegin(o) /\ w.effects = o.effects BY <2>2
      <3>2. \A i \in DOMAIN o.effects : o.effects[i].policy = "required" => o.effects[i].key # None
        BY <3>1 DEF CanBegin, AcceptsOutput, isSideEffects
      <3> QED BY <1>4, <2>2, <3>1, <3>2 DEF Waits, Formed, InDispatch
    <2> QED BY <1>4, <2>1, <2>2 DEF Waits
  <1>5. CASE Starts(p, w) BY <1>2, <1>5 DEF Starts, SameBut, IdleFields, InDispatch
  <1>6. CASE Asks(p, w)
    <2>1. /\ w.calls = Tail(v.calls) /\ v.calls # <<>> /\ w.effects = v.effects /\ w.pc = "run"
      BY <1>6 DEF Asks, SameBut, IdleFields
    <2>2. \A k \in DOMAIN Tail(v.calls) : k + 1 \in DOMAIN v.calls /\ Tail(v.calls)[k] = v.calls[k + 1]
      BY <1>0, <2>1, TailFacts DEF IsWork
    <2> HIDE DEF v
    <2> QED BY <2>1, <2>2 DEF Formed, InDispatch, v
  <1>7. CASE Settled(p, w)
    <2>1. CASE w = Done(p)
      <3>1. w.calls = <<>> /\ w.effects = v.effects /\ w.kind = v.kind /\ w.pc = "done" BY <2>1, OverIs
      <3> QED BY <1>2, <3>1 DEF InDispatch
    <2>2. CASE v.pc = "commit" /\ SameBut(w, v, {"pc", "dispatch"})
      <3>1. w.calls = v.calls /\ w.effects = v.effects /\ w.kind = v.kind BY <2>2 DEF SameBut, IdleFields
      <3>2. v.kind = "begin" BY <2>2 DEF Formed
      <3> QED BY <1>2, <3>1, <3>2
    <2> QED BY <1>7, <2>1, <2>2 DEF Settled
  <1>8. CASE Creates(p, w) BY <1>2, <1>8 DEF Creates, SameBut, IdleFields
  <1>9. CASE Rechecks(p, w)
    <2>1. w.calls = v.calls /\ w.effects = v.effects /\ w.kind = v.kind /\ v.pc = "recheck"
      BY <1>9 DEF Rechecks, SameBut, IdleFields
    <2> QED BY <1>2, <2>1 DEF Formed
  <1>10. CASE Answering(p, w)
    <2>1. /\ w.calls \in {v.calls, <<>>} /\ w.effects = v.effects /\ w.kind = v.kind
      <3>1. SameBut(w, v, {"pc", "report", "dispatch"}) =>
              w.kind = v.kind /\ w.calls = v.calls /\ w.effects = v.effects
        BY DEF SameBut, IdleFields
      <3>2. \A report : LET u == [Done(p) EXCEPT !.report = report] IN
              u.kind = v.kind /\ u.calls = <<>> /\ u.effects = v.effects
        BY OverIs
      <3> QED BY <1>10, <3>1, <3>2 DEF Answering, Replies
    <2>2. v.kind = "begin" BY <1>10 DEF Answering, Formed, InDispatch
    <2> QED BY <1>2, <2>1, <2>2
  <1>11. CASE Goes(p, w) \/ Enqueues(p, w) \/ Sends(p, w)
    <2>1. w.calls = v.calls /\ w.effects = v.effects /\ w.kind = v.kind
      BY <1>11 DEF Goes, Enqueues, Sends, SameBut, IdleFields
    <2>2. v.pc \in InDispatch BY <1>11 DEF Goes, Enqueues, Sends, InDispatch
    <2>3. v.kind = "begin" BY <2>2 DEF Formed
    <2> QED BY <1>2, <2>1, <2>3
  <1> QED BY <1>3, <1>4, <1>5, <1>6, <1>7, <1>8, <1>9, <1>10, <1>11 DEF Does

\* What a foreign call adds bears no name of a client.
LEMMA ForeignAdds ==
  ASSUME NEW db, Sound(db), NEW c, IsCall(c), Foreign(c), NEW t, NEW p \in Clients
  PROVE  LET n == Perform(db, c, t).db IN
         /\ p \in DOMAIN n.challenges => p \in DOMAIN db.challenges
         /\ \A id \in DOMAIN n.messages : IsOf(id, p) => id \in DOMAIN db.messages
  <1> DEFINE n == Perform(db, c, t).db
  <1>1. p \in DOMAIN n.challenges => p \in DOMAIN db.challenges
    <2>1. c.op = "createChallenge" => c.challenge # p BY DEF Foreign
    <2>2. /\ c.op # "createChallenge" => DOMAIN n.challenges = DOMAIN db.challenges
          /\ c.op = "createChallenge" => DOMAIN n.challenges \subseteq DOMAIN db.challenges \cup {c.challenge}
      BY CallChallenges
    <2> HIDE DEF n
    <2> QED BY <2>1, <2>2
  <1>2. CASE c.op = "enqueueBatch"
    <2>1. n = enqueueBatch(db, c, t).db BY ONLY <1>2 DEF Perform
    <2>2. IsList(c.batch) /\ IsDb(db) BY <1>2 DEF IsCall, Sound
    <2>3. EnqueuesRows(n, db, c.batch, t) BY <2>1, <2>2, EnqueueRows
    <2>4. \A k \in DOMAIN c.batch : ~IsOf(c.batch[k].id, p) BY <1>2 DEF Foreign, IsOf
    <2> HIDE DEF n
    <2> QED BY <1>1, <2>3, <2>4 DEF EnqueuesRows, n
  <1>3. CASE c.op # "enqueueBatch"
    <2>1. SameMessages(n, db) BY <1>3, CallMessages
    <2> HIDE DEF n
    <2> QED BY <1>1, <2>1 DEF SameMessages, n
  <1> QED BY <1>2, <1>3

\* What holds of the transaction after a step of p that leaves it in the state w.
Keeping(p, w, t) ==
  Bound(w, t, p) /\ \A q \in Clients : Owned(IF q = p THEN w ELSE proc[q], t, q)

LEMMA KeepingIs ==
  ASSUME Together, NEW p \in Clients, NEW w, NEW t
  PROVE  /\ /\ SameTurn(t, tx) /\ Bound(w, tx, p)
            /\ tx.owner = p /\ Holding(proc[p]) => Holding(w)
            => Keeping(p, w, t)
         /\ t.owner = None /\ ~Turning(w) => Keeping(p, w, t)
         /\ /\ t.owner = p /\ Bound(w, t, p)
            /\ \A q \in Clients : Bears(t, q) => q = p /\ Holding(w)
            => Keeping(p, w, t)
  <1>1. ASSUME SameTurn(t, tx), Bound(w, tx, p), tx.owner = p /\ Holding(proc[p]) => Holding(w)
        PROVE  Keeping(p, w, t)
    <2>1. Bound(w, t, p) BY <1>1, SameTurnIs
    <2>2. t.owner = tx.owner BY <1>1 DEF SameTurn
    <2>3. ASSUME NEW q \in Clients, t.owner # None, Bears(t, q)
          PROVE  t.owner = q /\ Holding(IF q = p THEN w ELSE proc[q])
      <3>1. Bears(tx, q) BY <1>1, <2>3, SameTurnIs
      <3>2. tx.owner = q /\ Holding(proc[q]) BY <2>2, <2>3, <3>1 DEF Together, Owned
      <3> QED BY <1>1, <2>2, <3>2
    <2> QED BY <2>1, <2>3 DEF Keeping, Owned
  <1>2. ASSUME t.owner = None, ~Turning(w) PROVE Keeping(p, w, t)
    BY <1>2 DEF Keeping, Owned, Bound
  <1>3. ASSUME t.owner = p, Bound(w, t, p), \A q \in Clients : Bears(t, q) => q = p /\ Holding(w)
        PROVE  Keeping(p, w, t)
    BY <1>3 DEF Keeping, Owned
  <1> QED BY <1>1, <1>2, <1>3

\* The steps before the challenge is created, and those of a script.
LEMMA EarlyTogether ==
  ASSUME Invariant, Together, NEW p \in Clients, NEW w,
         Fails(p, w) \/ Waits(p, w) \/ Starts(p, w) \/ Asks(p, w) \/ Settled(p, w)
  PROVE  Keeping(p, w, tx')
  <1> DEFINE v == proc[p]
  <1>0. Working /\ IsTurn(tx) /\ IsWork(v) BY DEF Invariant, Working
  <1>1. SameTurn(tx, tx) BY DEF SameTurn
  <1>2. NoTurn.owner = None BY NoTurnIs
  <1>3. CASE Fails(p, w)
    <2>1. ~Turning(w) BY <1>3, OverIsWork DEF Fails
    <2>2. Bound(w, tx, p) BY <2>1 DEF Bound
    <2>3. CASE ~Turning(v) /\ tx' = tx BY <1>1, <2>2, <2>3, KeepingIs DEF Holding
    <2>4. CASE tx' = NoTurn BY <1>2, <2>1, <2>4, KeepingIs
    <2> QED BY <1>3, <2>3, <2>4 DEF Fails
  <1>4. CASE Waits(p, w)
    <2>1. ~Turning(w) /\ ~Turning(v) /\ tx' = tx BY <1>4 DEF Waits, Still, Turning
    <2>2. Bound(w, tx, p) BY <2>1 DEF Bound
    <2> QED BY <1>1, <2>1, <2>2, KeepingIs DEF Holding
  <1>5. CASE Starts(p, w)
    <2>1. w.pc = "run" /\ tx' = cloneState(p, base, v.covers) BY <1>5 DEF Starts
    <2>2. tx'.owner = p /\ tx'.working = base /\ tx'.before = base BY <2>1 DEF cloneState
    <2>3. Bound(w, tx', p) BY <2>1, <2>2 DEF Bound
    <2>4. \A q : ~Bears(tx', q) BY <2>2 DEF Bears, New
    <2> QED BY <2>2, <2>3, <2>4, KeepingIs
  <1>6. CASE Asks(p, w)
    <2> DEFINE c == Head(v.calls)
    <2>1. /\ tx' = Calls(c).tx /\ v.calls # <<>> /\ v.pc = "run" /\ v.kind = "script" /\ w.kind = "script"
      BY <1>6 DEF Asks, SameBut, IdleFields
    <2>2. IsList(v.calls) /\ \A k \in 1..Len(v.calls) : IsCall(v.calls[k]) BY <1>0 DEF IsWork
    <2>3. 1 \in DOMAIN v.calls /\ c = v.calls[1] /\ 1 \in 1..Len(v.calls)
      BY <2>1, <2>2 DEF IsList
    <2>4. IsCall(c) /\ Foreign(c)
      <3>1. Formed(v) BY DEF Together
      <3> QED BY <2>2, <2>3, <3>1 DEF Formed
    <2>5. tx.owner = p /\ p # None BY <1>0, <2>1, StackAssumption DEF Working, Turning
    <2> HIDE DEF c, v
    <2>6. /\ tx'.owner = p /\ tx'.before = tx.before
          /\ tx'.working \in {tx.working, Perform(tx.working, c, now).db}
      BY <1>0, <2>1, <2>5, InsideGoes
    <2>7. Sound(tx.working) BY <2>5 DEF Invariant, Trusted, Turn
    <2>8. ASSUME NEW q \in Clients, Bears(tx', q) PROVE FALSE
      <3>1. /\ q \in DOMAIN tx'.working.challenges => q \in DOMAIN tx.working.challenges
            /\ \A id \in DOMAIN tx'.working.messages : IsOf(id, q) => id \in DOMAIN tx.working.messages
        BY <2>4, <2>6, <2>7, ForeignAdds
      <3>2. Bears(tx, q) BY <2>6, <2>8, <3>1 DEF Bears, New
      <3>3. tx.owner = q /\ Holding(proc[q]) BY <2>5, <3>2 DEF Together, Owned
      <3> QED BY <2>1, <2>5, <3>3 DEF Holding, v
    <2>9. Bound(w, tx', p) BY <2>1 DEF Bound
    <2> QED BY <2>6, <2>8, <2>9, KeepingIs
  <1>7. CASE Settled(p, w)
    <2>1. tx' = NoTurn BY <1>7 DEF Settled
    <2>2. ~Turning(w)
      <3>1. CASE w = Done(p) BY <1>0, <3>1, OverIsWork
      <3>2. CASE w.pc = "send" BY <3>2 DEF Turning
      <3>3. CASE w.pc = "prepare" /\ w.dispatch = Dispatches(p, "best-effort", v.at)
        <4>1. w.dispatch.policy = "best-effort" BY <1>0, <3>3, DispatchesIs
        <4> QED BY <3>3, <4>1 DEF Turning
      <3> QED BY <1>7, <3>1, <3>2, <3>3 DEF Settled
    <2> QED BY <1>2, <2>1, <2>2, KeepingIs
  <1> QED BY <1>3, <1>4, <1>5, <1>6, <1>7

LEMMA CreatesTogether ==
  ASSUME Invariant, Told, Together, NEW p \in Clients, NEW w, Creates(p, w)
  PROVE  Keeping(p, w, tx')
  <1> DEFINE v == proc[p]
             c == ChallengeCall(p)
             r == Perform(tx.working, c, now)
  <1>0. Working /\ IsTurn(tx) /\ IsWork(v) BY DEF Invariant, Working
  <1>1. /\ v.pc = "run" /\ v.kind = "begin" /\ w.kind = "begin" /\ w.effects = v.effects
        /\ Calls(c).answer = "ok" /\ tx' = Calls(c).tx
        /\ \/ w.pc = "prepare" /\ w.dispatch = Dispatches(p, "required", now)
           \/ w.pc = "recheck"
    BY DEF Creates, SameBut, IdleFields
  <1>2. tx.owner = p /\ p # None BY <1>0, <1>1, StackAssumption DEF Working, Turning
  <1>3. Sound(tx.working) BY <1>2 DEF Invariant, Trusted, Turn
  <1>4. tx.working = tx.before
    <2>1. Bound(v, tx, p) BY DEF Together
    <2> QED BY <1>1, <2>1 DEF Bound, Turning
  <1>5. IsCall(c) /\ c.op = "createChallenge" /\ c.challenge = p BY <1>0, <1>1, ChallengeIsCall
  <1> HIDE DEF c
  <1>6. Needs(c.op) \subseteq tx.covers /\ r.answer = "ok"
    <2>1. Within(tx, c, now).answer = "ok" BY <1>1 DEF Calls
    <2>2. "STORE_UNAVAILABLE" # "ok" OBVIOUS
    <2> QED BY <1>5, <2>1, <2>2 DEF Within
  <1>7. tx'.owner = p /\ tx'.before = tx.before /\ tx'.working = r.db
    BY <1>0, <1>1, <1>2, <1>6, CallsIs
  <1>8. /\ DOMAIN r.db.challenges \subseteq DOMAIN tx.working.challenges \cup {p}
        /\ p \in DOMAIN r.db.challenges \ DOMAIN tx.working.challenges
    BY <1>3, <1>5, <1>6, CallChallenges
  <1>9. SameMessages(r.db, tx.working) BY <1>3, <1>5, CallMessages
  <1> HIDE DEF r
  <1>10. New(tx', "challenges") = {p} /\ New(tx', "messages") = {}
    BY <1>4, <1>7, <1>8, <1>9 DEF New, SameMessages
  <1>11. Turning(w)
    <2>1. w.pc = "prepare" => w.dispatch.policy = "required" BY <1>0, <1>1, DispatchesIs
    <2> QED BY <1>1, <2>1 DEF Turning
  <1>12. Accounted(p, w, Live(tx'.working))
    <2>1. Accounted(p, v, Kept(p)) BY DEF Told
    <2> QED BY <1>0, <2>1, CreatesTold
  <1>13. Bound(w, tx', p)
    <2>1. w.pc = "recheck" => RequiredDone(w, Live(tx'.working)) BY <1>1, <1>12 DEF Accounted
    <2> QED BY <1>1, <1>10, <2>1 DEF Bound
  <1>14. \A q \in Clients : Bears(tx', q) => q = p /\ Holding(w)
    BY <1>1, <1>10, <1>11 DEF Bears, Holding
  <1> QED BY <1>7, <1>13, <1>14, KeepingIs

\* What the core accepts about the required effects is live in the transaction.
LEMMA AnswersTogether ==
  ASSUME Invariant, Told, Together, NEW p \in Clients, NEW w, Answering(p, w)
  PROVE  Keeping(p, w, tx')
  <1> DEFINE v == proc[p]
             d == v.dispatch
             S == Live(tx.working)
  <1>0. Working /\ IsWork(v) BY DEF Invariant, Working
  <1>1. v.pc \in InDispatch /\ tx' = tx /\ SameTurn(tx', tx)
    BY DEF Answering, Replies, Still, InDispatch, SameTurn
  <1>2. v.kind = "begin" BY <1>1 DEF Together, Formed
  <1>3. /\ Dispatching(p, v) /\ (d.policy = "required" => v.report = NoReport)
        /\ (d.policy = "best-effort" => RequiredDone(v, Kept(p)))
        /\ (v.pc = "acknowledge" => Acked(v, Kept(p))) /\ (v.pc = "send" => Sent(v) \subseteq v.sends)
    BY <1>1, <1>2 DEF Told, Accounted
  <1>4. CASE d.policy = "required"
    <2>1. v.pc # "send" BY <1>0, <1>4 DEF IsWork
    <2>2. Turning(v) BY <1>1, <1>4, <2>1 DEF Turning, InDispatch
    <2>3. ASSUME v.pc = "acknowledge", verifyEnqueueAcknowledgements(d, now) PROVE Acked(v, S)
      <3>1. d.batch = Batch(d) /\ \A k \in DOMAIN d.batch : d.answer[k].key = d.batch[k].key
        BY <1>3, <2>3 DEF Acked
      <3>2. Bound(v, tx, p) BY DEF Together
      <3>3. \A k \in DOMAIN d.batch : Confirms(tx.working, d.answer[k])
        BY <1>2, <2>2, <2>3, <3>2 DEF Bound
      <3>4. \A k \in DOMAIN d.batch : d.answer[k].status # "dead"
        BY <2>3 DEF verifyEnqueueAcknowledgements, isMatchingAcknowledgement
      <3> HIDE DEF d
      <3>5. ASSUME NEW k \in DOMAIN d.batch PROVE Meaning(d.answer[k]) \in S
        <4> DEFINE a == d.answer[k]
                   row == tx.working.messages[a.id]
        <4>1. a.id \in DOMAIN tx.working.messages /\ Meaning(row) = Meaning(a) /\ row.status = a.status
          BY <3>3, <3>5 DEF Confirms
        <4>2. a.status # "dead" BY <3>4, <3>5
        <4> HIDE DEF a
        <4> QED BY <4>1, <4>2 DEF Live, a
      <3> HIDE DEF S
      <3> QED BY <3>1, <3>5 DEF Acked, d
    <2>4. w.kind = v.kind /\ w.pc = "recheck" /\ RequiredDone(w, S)
      <3> HIDE DEF S
      <3>1. "required" # "best-effort" OBVIOUS
      <3> QED BY <1>0, <1>3, <1>4, <2>1, <2>3, <3>1, AnswersKnown
    <2>5. Bound(w, tx, p)
      <3>1. Bound(v, tx, p) BY DEF Together
      <3>2. p \in New(tx, "challenges") BY <1>1, <1>2, <2>2, <3>1 DEF Bound, InDispatch
      <3> QED BY <2>4, <3>2 DEF Bound
    <2>6. Holding(w) BY <1>2, <2>4 DEF Holding, Turning
    <2> QED BY <1>1, <2>5, <2>6, KeepingIs
  <1>5. CASE d.policy = "best-effort"
    <2>1. w.pc = "done"
      <3>1. v.pc = "acknowledge" /\ verifyEnqueueAcknowledgements(d, now) => Acked(v, Kept(p)) BY <1>3
      <3> QED BY <1>0, <1>3, <1>5, <3>1, AnswersKnown
    <2>2. Bound(w, tx, p) BY <2>1 DEF Bound, Turning
    <2>3. ~Holding(v) BY <1>1, <1>5 DEF Holding, Turning, InDispatch
    <2> QED BY <1>1, <2>2, <2>3, KeepingIs
  <1> QED BY <1>4, <1>5 DEF Answering, Replies

LEMMA EnqueuesTogether ==
  ASSUME Invariant, Told, Together, NEW p \in Clients, NEW w, Enqueues(p, w)
  PROVE  Keeping(p, w, tx')
  <1> DEFINE v == proc[p]
             d == v.dispatch
             e == w.dispatch
             b == Batch(d)
             c == EnqueueCall(d)
  <1>0. Working /\ IsTurn(tx) /\ IsWork(v) BY DEF Invariant, Working
  <1>1. /\ IsDispatch(d) /\ IsCall(c) /\ c.op = "enqueueBatch" /\ c.batch = b /\ IsList(b)
        /\ e.policy = d.policy /\ e.batch = b /\ e.answer # <<>>
        /\ \/ d.policy = "required" /\ e.answer = Calls(c).answer /\ tx' = Calls(c).tx
           \/ d.policy # "required" /\ tx' = Touch(Perform(base, c, now).wrote)
    BY <1>0, EnqueuesDispatch
  <1>2. v.pc = "enqueue" /\ w.pc = "acknowledge" /\ w.kind = v.kind
    BY DEF Enqueues, SameBut, IdleFields
  <1>3. v.kind = "begin" BY <1>2 DEF Together, Formed, InDispatch
  <1>4. d.owner = p
    <2>1. Dispatching(p, v) BY <1>2, <1>3 DEF Told, Accounted, InDispatch
    <2> QED BY <2>1 DEF Dispatching
  <1>5. \A k \in DOMAIN b : b[k].id[1] = p BY <1>4 DEF Batch, outboxMessage, messageId
  <1> HIDE DEF b, c
  <1>6. CASE d.policy # "required" /\ tx' = Touch(Perform(base, c, now).wrote)
    <2>1. SameTurn(tx', tx) BY <1>0, <1>6, TouchIs DEF SameTurn
    <2>2. ~Holding(v) /\ ~Turning(w) BY <1>1, <1>2, <1>6 DEF Holding, Turning
    <2>3. Bound(w, tx, p) BY <2>2 DEF Bound
    <2> QED BY <2>1, <2>2, <2>3, KeepingIs
  <1>7. CASE d.policy = "required" /\ e.answer = Calls(c).answer /\ tx' = Calls(c).tx
    <2> DEFINE r == Perform(tx.working, c, now)
    <2>1. Turning(v) /\ Turning(w) BY <1>1, <1>2, <1>7 DEF Turning
    <2>2. tx.owner = p /\ p # None BY <1>0, <2>1, StackAssumption DEF Working
    <2>3. Sound(tx.working) /\ IsDb(tx.working) BY <2>2 DEF Invariant, Trusted, Turn, Sound
    <2>4. e.answer = r.answer /\ tx'.working = r.db /\ tx'.before = tx.before /\ tx'.owner = p
      BY <1>0, <1>1, <1>7, <2>2, InsideAnswers
    <2>5. r = enqueueBatch(tx.working, c, now) BY <1>1 DEF Perform
    <2>6. /\ EnqueuesRows(r.db, tx.working, b, now)
          /\ \A k \in DOMAIN b : Confirms(r.db, r.answer[k])
      BY <1>1, <2>3, <2>4, <2>5, EnqueueRows
    <2> HIDE DEF r
    <2>7. Bound(v, tx, p) BY DEF Together
    <2>8. p \in New(tx, "challenges") BY <1>2, <1>3, <2>1, <2>7 DEF Bound
    <2>9. New(tx', "challenges") = New(tx, "challenges") BY <2>4, <2>6 DEF New, EnqueuesRows
    <2>10. Bound(w, tx', p) BY <1>1, <1>2, <2>4, <2>6, <2>8, <2>9 DEF Bound
    <2>11. ASSUME NEW q \in Clients, Bears(tx', q) PROVE q = p /\ Holding(w)
      <3>1. Bears(tx, q) => q = p BY <2>2 DEF Together, Owned
      <3>2. ASSUME NEW id \in New(tx', "messages"), IsOf(id, q) PROVE q = p
        <4>1. id \in New(tx, "messages") \/ \E k \in DOMAIN b : id = b[k].id
          BY <2>4, <2>6, <3>2 DEF New, EnqueuesRows
        <4>2. CASE id \in New(tx, "messages") BY <3>1, <3>2, <4>2 DEF Bears
        <4>3. CASE \E k \in DOMAIN b : id = b[k].id BY <1>5, <3>2, <4>3 DEF IsOf
        <4> QED BY <4>1, <4>2, <4>3
      <3>3. q \in New(tx', "challenges") => Bears(tx, q) BY <2>9 DEF Bears
      <3>4. Holding(w) BY <1>2, <1>3, <2>1 DEF Holding
      <3> QED BY <2>11, <3>1, <3>2, <3>3, <3>4 DEF Bears
    <2> QED BY <2>4, <2>10, <2>11, KeepingIs
  <1> QED BY <1>1, <1>6, <1>7

\* The steps that only the client knows of.
LEMMA StillTogether ==
  ASSUME Invariant, Together, NEW p \in Clients, NEW w, Rechecks(p, w) \/ Goes(p, w) \/ Sends(p, w)
  PROVE  Keeping(p, w, tx')
  <1> DEFINE v == proc[p]
  <1>0. IsWork(v) /\ Bound(v, tx, p) BY DEF Invariant, Working, Together
  <1>1. SameTurn(tx', tx) BY DEF Rechecks, Goes, Sends, Still, SameTurn
  <1>2. CASE Rechecks(p, w)
    <2>1. /\ v.pc = "recheck" /\ w.pc = "commit" /\ w.kind = v.kind
          /\ w.report = v.report /\ w.effects = v.effects
      BY <1>2 DEF Rechecks, SameBut, IdleFields
    <2>2. RequiredDone(v, Live(tx.working)) => RequiredDone(w, Live(tx.working))
      BY <2>1 DEF RequiredDone, Indexes
    <2>3. Bound(w, tx, p) BY <1>0, <2>1, <2>2 DEF Bound, Turning
    <2>4. Holding(v) => Holding(w) BY <2>1 DEF Holding, Turning
    <2> QED BY <1>1, <2>3, <2>4, KeepingIs
  <1>3. CASE Goes(p, w)
    <2>1. /\ w.kind = v.kind /\ \E out : w.dispatch = Dropped(v.dispatch, out)
          /\ v.pc \in {"prepare", "expire"} /\ w.pc \in {"expire", "enqueue"}
      BY <1>3 DEF Goes, SameBut, IdleFields
    <2>2. IsDispatch(v.dispatch) BY <1>0, <2>1 DEF IsWork
    <2>3. w.dispatch.policy = v.dispatch.policy BY <2>1, <2>2, DroppedIs
    <2>4. Turning(w) = Turning(v) BY <2>1, <2>3 DEF Turning
    <2>5. Bound(w, tx, p) BY <1>0, <2>1, <2>4 DEF Bound
    <2>6. Holding(v) => Holding(w) BY <2>1, <2>4 DEF Holding
    <2> QED BY <1>1, <2>5, <2>6, KeepingIs
  <1>4. CASE Sends(p, w)
    <2>1. v.pc = "send" /\ w.pc = "send" BY <1>4 DEF Sends, SameBut, IdleFields
    <2>2. ~Turning(v) /\ ~Turning(w) BY <2>1 DEF Turning
    <2> QED BY <1>1, <2>2, KeepingIs DEF Bound, Holding
  <1> QED BY <1>2, <1>3, <1>4

LEMMA NextTogether ==
  ASSUME Invariant, Told, Together, [Next]_vars
  PROVE  Together'
  <1>0. Working /\ IsTurn(tx) /\ Sound(base) BY DEF Invariant, Working, Trusted
  <1>1. ASSUME proc' = proc, SameTurn(tx', tx) PROVE Together'
    <2>1. ASSUME NEW p \in Clients
          PROVE  Bound(proc'[p], tx', p) /\ Owned(proc'[p], tx', p) /\ Formed(proc'[p])
      <3>1. Bound(proc[p], tx, p) /\ Owned(proc[p], tx, p) /\ Formed(proc[p]) BY DEF Together
      <3> QED BY <1>1, <3>1, SameTurnIs
    <2> QED BY ONLY <2>1 DEF Together
  <1>2. CASE Tick \/ Finished \/ UNCHANGED vars
    BY <1>1, <1>2 DEF Tick, Finished, vars, SameTurn
  <1>3. CASE DirectCall
    <2>1. PICK c : proc' = proc /\ tx' = Touch(Perform(base, c, now).wrote)
      BY <1>0, <1>3, DirectCallIs
    <2>2. SameTurn(tx', tx) BY <1>0, <2>1, TouchIs DEF SameTurn
    <2> QED BY <1>1, <2>1, <2>2
  <1>4. ASSUME NEW p \in Clients, Step(p) PROVE Together'
    <2>1. PICK w : proc' = [proc EXCEPT ![p] = w] /\ Does(p, w) BY <1>0, <1>4, StepDone DEF IsDone
    <2>2. \A q \in Clients : proc'[q] = IF q = p THEN w ELSE proc[q] BY <1>0, <2>1 DEF Working
    <2>3. Formed(w)
      <3>1. Formed(proc[p]) BY DEF Together
      <3> QED BY <2>1, <3>1, FormedNext
    <2>4. Keeping(p, w, tx')
      BY <2>1, EarlyTogether, CreatesTogether, AnswersTogether, EnqueuesTogether, StillTogether DEF Does
    <2>5. ASSUME NEW q \in Clients, q # p PROVE Bound(proc[q], tx', q)
      <3>1. Bound(proc[q], tx, q) BY DEF Together
      <3>2. CASE ~Turning(proc[q]) BY <3>2 DEF Bound
      <3>3. CASE Turning(proc[q])
        <4>1. tx.owner = q /\ q # None BY <1>0, <3>3, StackAssumption DEF Working
        <4>2. SameTurn(tx', tx) BY <2>1, <2>5, <4>1, OthersTurn DEF SameTurn
        <4> QED BY <3>1, <4>2, SameTurnIs
      <3> QED BY <3>2, <3>3
    <2>6. ASSUME NEW q \in Clients
          PROVE  Bound(proc'[q], tx', q) /\ Owned(proc'[q], tx', q) /\ Formed(proc'[q])
      <3>1. Owned(proc'[q], tx', q) BY <2>2, <2>4 DEF Keeping
      <3>2. CASE q = p BY <2>2, <2>3, <2>4, <3>1, <3>2 DEF Keeping
      <3>3. CASE q # p
        <4>1. proc'[q] = proc[q] BY <2>2, <3>3
        <4>2. Formed(proc[q]) BY DEF Together
        <4> QED BY <2>5, <3>1, <3>3, <4>1, <4>2
      <3> QED BY <3>2, <3>3
    <2> QED BY ONLY <2>6 DEF Together
  <1> QED BY <1>2, <1>3, <1>4 DEF Next

\* What a step may add to the maps.
AddsTogether ==
  \A p \in Clients :
    /\ (p \in DOMAIN base'.challenges /\ p \notin DOMAIN base.challenges
          => \A k \in DOMAIN Effects(p, "required") : Delivers(base', p, k))
    /\ \A id \in DOMAIN base'.messages \ DOMAIN base.messages :
         id[1] = p /\ id[2] = "required" => p \in DOMAIN base'.challenges

\* A begin that has all its required messages delivers each of its effects.
LEMMA DoneDelivers ==
  ASSUME Invariant, Together, NEW p \in Clients, NEW db,
         RequiredDone(proc[p], Live(db)), NEW k \in DOMAIN Effects(p, "required")
  PROVE  Delivers(db, p, k)
  <1> DEFINE v == proc[p]
             E == Effects(p, "required")
             o == Selected(v.effects, "required")
             e == v.effects[o[k]]
  <1>1. IsList(v.effects) /\ Formed(v) BY DEF Invariant, Working, IsWork, Together
  <1>2. E = Chosen(v, "required") BY DEF Effects, Originals, Chosen
  <1>3. o[k] \in Indexes(v, "required") /\ E[k] = e /\ e.policy = "required"
    BY <1>1, <1>2, ChosenIs
  <1>4. o[k] \in DOMAIN v.effects BY <1>3 DEF Indexes
  <1>5. e.key # None BY <1>1, <1>3, <1>4 DEF Formed
  <1>6. Meaning(e) \in Live(db) BY <1>3 DEF RequiredDone
  <1> HIDE DEF v, o, e, E
  <1>7. PICK id \in DOMAIN db.messages :
          db.messages[id].status # "dead" /\ Meaning(db.messages[id]) = Meaning(e)
    BY <1>6 DEF Live
  <1>8. /\ db.messages[id].key = e.key /\ db.messages[id].policy = e.policy
        /\ db.messages[id].content = e.content
    BY <1>7 DEF Meaning
  <1>9. E[k].key # None /\ db.messages[id].key = E[k].key BY <1>3, <1>5, <1>8
  <1>10. db.messages[id].content = E[k].content /\ db.messages[id].policy = "required" BY <1>3, <1>8
  <1>11. Delivers(db, p, k) <=>
           \E i \in {i \in DOMAIN db.messages : \/ i = <<p, "required", k>>
                                                \/ E[k].key # None /\ db.messages[i].key = E[k].key} :
             /\ db.messages[i].content = E[k].content
             /\ db.messages[i].policy = "required" /\ db.messages[i].status # "dead"
    BY DEF Delivers, E
  <1> QED BY <1>7, <1>9, <1>10, <1>11

LEMMA SettlesAdds ==
  ASSUME Invariant, Together, NEW p \in Clients, NEW w, Settled(p, w)
  PROVE  AddsTogether
  <1> DEFINE R == Region(tx.covers)
  <1>1. tx.owner = p /\ p # None BY StackAssumption DEF Settled
  <1>2. Turn(tx) BY <1>1 DEF Invariant, Trusted
  <1>3. /\ base'.messages = tx.working.messages /\ base.messages = tx.before.messages
        /\ base' = Merged(base, tx.working, R) /\ Agree(base, tx.before, R)
    BY CommitStores DEF Settled
  <1>4. "challenges" \in Fields BY DEF Fields, MapFields
  <1> HIDE DEF R
  <1>5. IF "challenges" \in R
        THEN base'.challenges = tx.working.challenges /\ base.challenges = tx.before.challenges
        ELSE base'.challenges = base.challenges /\ tx.working.challenges = tx.before.challenges
    <2>1. base'.challenges = IF "challenges" \in R THEN tx.working.challenges ELSE base.challenges
      BY <1>3, <1>4 DEF Merged
    <2>2. CASE "challenges" \in R BY <1>3, <2>1, <2>2 DEF Agree
    <2>3. CASE "challenges" \notin R BY <1>2, <1>4, <2>1, <2>3 DEF Turn, R
    <2> QED BY <2>2, <2>3
  <1>6. ASSUME NEW q \in Clients, Bears(tx, q)
        PROVE  q = p /\ proc[q].kind = "begin" /\ proc[q].pc # "run" /\ Turning(proc[q])
    BY <1>1, <1>6 DEF Together, Owned, Holding
  <1>7. ASSUME NEW q \in Clients, q \in DOMAIN base'.challenges, q \notin DOMAIN base.challenges,
               NEW k \in DOMAIN Effects(q, "required")
        PROVE  Delivers(base', q, k)
    <2>1. Bears(tx, q) BY <1>5, <1>7 DEF Bears, New
    <2>2. q = p /\ proc[q].kind = "begin" /\ Turning(proc[q]) BY <1>6, <2>1
    <2>3. proc[q].pc = "commit" BY <2>2 DEF Settled
    <2>4. RequiredDone(proc[q], Live(tx.working)) BY <2>2, <2>3 DEF Together, Bound
    <2>5. Live(base') = Live(tx.working) BY <1>3 DEF Live
    <2>6. RequiredDone(proc[q], Live(base')) BY ONLY <2>4, <2>5
    <2> DEFINE db == base'
    <2>7. RequiredDone(proc[q], Live(db)) BY <2>6
    <2> HIDE DEF db
    <2>8. Delivers(db, q, k) BY <1>7, <2>7, DoneDelivers
    <2> QED BY <2>8 DEF db
  <1>8. ASSUME NEW q \in Clients, NEW id \in DOMAIN base'.messages \ DOMAIN base.messages,
               id[1] = q, id[2] = "required"
        PROVE  q \in DOMAIN base'.challenges
    <2>1. Bears(tx, q) BY <1>3, <1>8 DEF Bears, New, IsOf
    <2>2. q = p /\ proc[q].kind = "begin" /\ proc[q].pc # "run" /\ Turning(proc[q]) BY <1>6, <2>1
    <2>3. q \in New(tx, "challenges") BY <2>2 DEF Together, Bound
    <2> QED BY <1>5, <2>3 DEF New
  <1> QED BY <1>7, <1>8 DEF AddsTogether

\* Outside a transaction a begin enqueues best-effort messages only.
LEMMA EnqueuesAdds ==
  ASSUME Invariant, NEW p \in Clients, NEW w, Enqueues(p, w)
  PROVE  AddsTogether
  <1> DEFINE d == proc[p].dispatch
             b == Batch(d)
             c == EnqueueCall(d)
  <1>0. Working /\ Sound(base) /\ IsDb(base) BY DEF Invariant, Working, Trusted, Sound
  <1>1. /\ IsCall(c) /\ c.op = "enqueueBatch" /\ c.batch = b /\ IsList(b)
        /\ \/ base' = base
           \/ d.policy # "required" /\ base' = Perform(base, c, now).db
    BY <1>0, EnqueuesDispatch
  <1>2. CASE base' = base BY <1>2 DEF AddsTogether
  <1>3. CASE d.policy # "required" /\ base' = Perform(base, c, now).db
    <2>1. \A k \in DOMAIN b : b[k].id[2] # "required"
      BY <1>3 DEF Batch, outboxMessage, messageId
    <2> HIDE DEF b, c
    <2>2. base' = enqueueBatch(base, c, now).db BY <1>1, <1>3 DEF Perform
    <2>3. EnqueuesRows(base', base, b, now) BY <1>0, <1>1, <2>2, EnqueueRows
    <2> QED BY <2>1, <2>3 DEF EnqueuesRows, AddsTogether
  <1> QED BY <1>1, <1>2, <1>3

LEMMA NextAdds ==
  ASSUME Invariant, Together, [Next]_vars
  PROVE  AddsTogether
  <1>0. Working /\ Sound(base) BY DEF Invariant, Working, Trusted
  <1>1. ASSUME base' = base PROVE AddsTogether BY <1>1 DEF AddsTogether
  <1>2. CASE Tick \/ Finished \/ UNCHANGED vars BY <1>1, <1>2 DEF Tick, Finished, vars
  <1>3. CASE DirectCall
    <2>1. PICK c : IsCall(c) /\ Foreign(c) /\ base' = Perform(base, c, now).db
      BY <1>0, <1>3, DirectCallIs
    <2> DEFINE n == Perform(base, c, now).db
    <2>2. \A p \in Clients : /\ p \in DOMAIN n.challenges => p \in DOMAIN base.challenges
                             /\ \A id \in DOMAIN n.messages : IsOf(id, p) => id \in DOMAIN base.messages
      BY <1>0, <2>1, ForeignAdds
    <2> HIDE DEF n
    <2> QED BY <2>1, <2>2 DEF AddsTogether, IsOf, n
  <1>4. ASSUME NEW p \in Clients, Step(p) PROVE AddsTogether
    <2>1. PICK w : Does(p, w) BY <1>0, <1>4, StepDone DEF IsDone
    <2>2. \/ Settled(p, w) \/ Enqueues(p, w) \/ base' = base
      BY <2>1 DEF Does, Fails, Waits, Starts, Asks, Creates, Rechecks, Answering, Replies, Goes, Sends, Still
    <2> QED BY <1>1, <2>2, SettlesAdds, EnqueuesAdds
  <1> QED BY <1>2, <1>3, <1>4 DEF Next

\* A challenge appears together with a live message for each of its required
\* effects, and such a message never appears without its challenge (begin:
\* one transaction; the dispatcher's check of what the store acknowledged).
THEOREM ChallengeWithMessages == Spec => AuthWithRequired
  <1>1. Init => Told /\ Together
    <2> SUFFICES ASSUME Init PROVE Told /\ Together
      OBVIOUS
    <2>1. \A p \in Clients : proc[p] = Idle BY DEF Init
    <2>2. Idle.kind = "none" /\ Idle.pc = "idle" /\ Idle.calls = <<>> /\ Idle.effects = <<>> BY DEF Idle
    <2>3. tx.owner = None BY NoTurnIs DEF Init
    <2>4. Told BY <2>1, <2>2 DEF Told, Accounted
    <2>5. ASSUME NEW p \in Clients PROVE Bound(Idle, tx, p) /\ Owned(Idle, tx, p) /\ Formed(Idle)
      BY <2>2, <2>3 DEF Bound, Owned, Formed, InDispatch
    <2> QED BY <2>1, <2>4, <2>5 DEF Together
  <1>2. Invariant /\ Told /\ Together /\ [Next]_vars => Told' /\ Together' BY NextTold, NextTogether
  <1>3. Invariant /\ Together /\ [Next]_vars => [AddsTogether]_vars BY NextAdds
  <1>4. [AddsTogether]_vars <=> [\A p \in Clients :
          /\ (p \in DOMAIN base'.challenges /\ p \notin DOMAIN base.challenges
                => \A k \in DOMAIN Effects(p, "required") : Delivers(base', p, k))
          /\ \A id \in DOMAIN base'.messages \ DOMAIN base.messages :
               id[1] = p /\ id[2] = "required" => p \in DOMAIN base'.challenges]_vars
    BY DEF AddsTogether
  <1> QED BY <1>1, <1>2, <1>3, <1>4, Invariance, PTL DEF Spec, AuthWithRequired

=============================================================================
