----------------------------- MODULE GuardMemory -----------------------------
(***************************************************************************)
(* The in-memory attempt guard: a sliding window of counted failures per   *)
(* key, pruned lazily through a binary heap of expirations, in a map of    *)
(* bounded size.  beforeAttempt and afterAttempt contain no await, so each *)
(* is one atomic action; what interleaves is the attempts between them.    *)
(***************************************************************************)
EXTENDS Integers, Sequences, SequencesExt, Loops

CONSTANTS
  Keys,          \* attempt keys: tenant, operation, challenge, method, subject
  MaxFailures,
  Window,        \* windowMs, in ticks of the clock
  Second,        \* ticks in a second; the window need not be whole seconds
  MaxKeys,
  HeapFactor,    \* the heap is rebuilt beyond MaxKeys * HeapFactor entries
  MaxInFlight,   \* bound on concurrently running attempts of a key
  Horizon        \* the clock stops here

ASSUME OptionsAssumption ==
  /\ MaxFailures \in Nat \ {0} /\ Window \in Nat \ {0} /\ Second \in Nat \ {0}
  /\ MaxKeys \in Nat \ {0} /\ HeapFactor \in Nat \ {0}
  /\ MaxInFlight \in Nat /\ Horizon \in Nat

VARIABLES
  now,      \* what nowProvider returns; it never goes back
  guard,    \* the guard's own state
  running,  \* per key: attempts that were allowed and have not ended
  log       \* history, per key: failures counted within the window, in order

vars == <<now, guard, running, log>>

-----------------------------------------------------------------------------
(* The heap of expirations, an array with the earliest in front            *)

Entry == [key : Keys, expiresAt : Nat]

\* An array with a hole into which a value is to be put.
Sifting == {s \in [heap : Seq(Entry), hole : Nat] : s.hole \in DOMAIN s.heap}

Filled(s, value) == [s.heap EXCEPT ![s.hole] = value]

\* The hole moves to i, whose entry moves into it.
HoleTo(s, i) == [heap |-> [s.heap EXCEPT ![s.hole] = s.heap[i]], hole |-> i]

SiftUp(value) ==
  [s \in Sifting |->
     IF s.hole = 1 \/ s.heap[s.hole \div 2].expiresAt <= value.expiresAt
     THEN s ELSE HoleTo(s, s.hole \div 2)]

heapPush(heap, value) ==
  LET n == Len(heap) + 1
  IN Filled(Rounds(SiftUp(value), [heap |-> Append(heap, value), hole |-> n], n), value)

EarlierChild(heap, i) ==
  IF 2 * i < Len(heap) /\ heap[2 * i + 1].expiresAt < heap[2 * i].expiresAt
  THEN 2 * i + 1 ELSE 2 * i

SiftDown(value) ==
  [s \in Sifting |->
     LET child == EarlierChild(s.heap, s.hole) IN
     IF child > Len(s.heap) \/ s.heap[child].expiresAt >= value.expiresAt
     THEN s ELSE HoleTo(s, child)]

\* Definitions named Slip... are plausible coding slips of the definition after
\* them; no specification uses them.

\* The last entry is left at the root.
SlipHeapPop(heap) ==
  IF Len(heap) = 1 THEN <<>> ELSE [Front(heap) EXCEPT ![1] = Last(heap)]

heapPop(heap) ==
  IF Len(heap) = 1 THEN <<>>
  ELSE Filled(Rounds(SiftDown(Last(heap)), [heap |-> Front(heap), hole |-> 1], Len(heap)),
              Last(heap))

-----------------------------------------------------------------------------
(* The guard's state: attempts maps a key to the times of its failures, and *)
(* order lists the keys of that map as a JavaScript Map iterates them.      *)

GuardState == [attempts : [Keys -> Seq(Nat)], order : Seq(Keys), heap : Seq(Entry)]

Fresh == [attempts |-> [k \in Keys |-> <<>>], order |-> <<>>, heap |-> <<>>]

Expiration(key, times) == [key |-> key, expiresAt |-> times[1] + Window]

Forget(g, key) ==
  [g EXCEPT !.attempts[key] = <<>>, !.order = Only(@, Keys \ {key})]

Recent(times, t) == Only(times, {time \in Nat : t - time < Window})

\* One round of pruneExpired, for the entry at the root of the heap.  An entry
\* whose key was reset or has newer failures is stale and only dropped.
Pop(g, t) ==
  LET key == g.heap[1].key
      times == g.attempts[key]
      recent == Recent(times, t)
      popped == [g EXCEPT !.heap = heapPop(@)]
  IN IF times = <<>> \/ Head(times) + Window > t THEN popped
     ELSE IF recent = <<>> THEN Forget(popped, key)
     ELSE [popped EXCEPT !.attempts[key] = recent,
                         !.heap = heapPush(@, Expiration(key, recent))]

\* A round takes a due entry away and adds none, so there are no more rounds
\* than entries.
pruneExpired(g, t) ==
  LET round == [h \in GuardState |->
                  IF h.heap = <<>> \/ h.heap[1].expiresAt > t THEN h ELSE Pop(h, t)]
  IN Rounds(round, g, Len(g.heap))

\* The map may grow one key too far.
SlipVictims(g, key) ==
  IF g.attempts[key] # <<>> \/ Len(g.order) <= MaxKeys THEN {} ELSE {Head(g.order)}

\* At capacity a new key displaces the first one of the map.
Victims(g, key) ==
  IF g.attempts[key] # <<>> \/ Len(g.order) < MaxKeys THEN {} ELSE {Head(g.order)}

ensureCapacity(g, key) ==
  IF Victims(g, key) = {} THEN g ELSE Forget(g, Head(g.order))

LastN(s, n) == IF Len(s) <= n THEN s ELSE SubSeq(s, Len(s) - n + 1, Len(s))

rebuildExpirations(g) ==
  Folded([p \in Seq(Entry) \X Keys |-> heapPush(p[1], Expiration(p[2], g.attempts[p[2]]))],
         <<>>, g.order)

\* Setting a key of the map leaves it where it was.
SlipPlace(order, key) == IF Contains(order, key) THEN order ELSE Append(order, key)

\* The key is deleted from the map first, so it moves to its end.
Place(order, key) == Append(Only(order, Keys \ {key}), key)

\* The heap entry of a full window is not renewed when the window slides.
SlipAdd(g, key, t) ==
  LET times == LastN(Append(g.attempts[key], t), MaxFailures) IN
  [g EXCEPT !.attempts[key] = times,
            !.order = Place(@, key),
            !.heap = IF g.attempts[key] = <<>> THEN heapPush(@, Expiration(key, times)) ELSE @]

\* A failure at time t is added to the window of its key.
Add(g, key, t) ==
  LET times == LastN(Append(g.attempts[key], t), MaxFailures)
      added == [g EXCEPT !.attempts[key] = times,
                         !.order = Place(@, key),
                         !.heap = heapPush(@, Expiration(key, times))]
  IN IF Len(added.heap) > MaxKeys * HeapFactor
     THEN [added EXCEPT !.heap = rebuildExpirations(added)] ELSE added

Read(g, t) == pruneExpired(g, t)

Denies(g, key) == Len(g.attempts[key]) >= MaxFailures

\* Time until the first failure that counts leaves the window.
Remaining(g, key, t) == Head(g.attempts[key]) + Window - t

Ceil(a, b) == (a + b - 1) \div b

\* The started second is left out.
SlipRetryAfter(g, key, t) == Max({1, Remaining(g, key, t) \div Second})

\* retryAfterSeconds when the option does not fix it: whole seconds, rounded up.
RetryAfter(g, key, t) == Max({1, Ceil(Remaining(g, key, t), Second)})

-----------------------------------------------------------------------------

Init ==
  /\ now = 0
  /\ guard = Fresh
  /\ running = [k \in Keys |-> 0]
  /\ log = [k \in Keys |-> <<>>]

\* A denied attempt is reported as a failure that does not count.
beforeAttempt(k) ==
  /\ running[k] < MaxInFlight
  /\ guard' = Read(guard, now)
  /\ running' = [running EXCEPT ![k] = IF Denies(guard', k) THEN @ ELSE @ + 1]
  /\ UNCHANGED <<now, log>>

Ends(k) ==
  /\ running[k] > 0
  /\ running' = [running EXCEPT ![k] = @ - 1]
  /\ UNCHANGED now

AfterFailure(k) ==
  LET pruned == Read(guard, now) IN
  /\ Ends(k)
  /\ guard' = Add(ensureCapacity(pruned, k), k, now)
  /\ log' = [j \in Keys |-> IF j = k THEN Append(log[k], now)
                            ELSE IF j \in Victims(pruned, k) THEN <<>> ELSE log[j]]

AfterUncounted(k) == Ends(k) /\ UNCHANGED <<guard, log>>

AfterSuccess(k) ==
  /\ Ends(k)
  /\ guard' = Forget(guard, k)
  /\ log' = [log EXCEPT ![k] = <<>>]

Tick ==
  /\ now < Horizon
  /\ now' = now + 1
  /\ log' = [k \in Keys |-> Recent(log[k], now')]
  /\ UNCHANGED <<guard, running>>

Next ==
  \/ \E k \in Keys : beforeAttempt(k) \/ AfterFailure(k) \/ AfterUncounted(k) \/ AfterSuccess(k)
  \/ Tick

Spec == Init /\ [][Next]_vars

-----------------------------------------------------------------------------
(* Properties                                                              *)

\* The guard's memory is bounded: the map holds at most maxKeys keys, each with
\* at most maxFailures times, and the heap stays within its limit.
TypeOK ==
  /\ now \in 0..Horizon
  /\ running \in [Keys -> 0..MaxInFlight]
  /\ guard.attempts \in [Keys -> Seq(0..Horizon)]
  /\ \A k \in Keys : Len(guard.attempts[k]) <= MaxFailures
  /\ Len(guard.order) <= MaxKeys
  /\ ToSet(guard.order) = {k \in Keys : guard.attempts[k] # <<>>}
  /\ \A i \in DOMAIN guard.heap : guard.heap[i].key \in Keys
  /\ Len(guard.heap) <= MaxKeys * HeapFactor

\* The lazily pruned heap and map decide as the plain definition of a sliding
\* window does: an attempt is denied exactly when maxFailures failures of its
\* key were counted within the window, since its last success or eviction.  And
\* attempts that pass the check together, before the first of them is recorded,
\* exceed the limit by no more than those beside it: however they interleave, the
\* window never counts MaxFailures more failures than run at once.
DecisionMatchesWindow ==
  \A k \in Keys :
    /\ Denies(Read(guard, now), k) <=> Len(log[k]) >= MaxFailures
    /\ Len(log[k]) + running[k] < MaxFailures + MaxInFlight

\* No failure outlives its window unnoticed: whatever resets, evictions and
\* rebuilds left behind, the earliest expiration of the heap is in front, and
\* every tracked key has an entry due when its first failure expires.
HeapSound ==
  /\ \A i \in DOMAIN guard.heap \ {1} :
       guard.heap[i \div 2].expiresAt <= guard.heap[i].expiresAt
  /\ \A k \in ToSet(guard.order) :
       Expiration(k, guard.attempts[k]) \in ToSet(guard.heap)

\* Eviction forgets the key that has been quiet for longest: the map is ordered
\* by each key's latest failure.
EvictsQuietest ==
  \A i, j \in DOMAIN guard.order : i < j =>
    Last(guard.attempts[guard.order[i]]) <= Last(guard.attempts[guard.order[j]])

\* A denial says how many seconds to wait, and the number is exact: the key is
\* still denied one second less than that later, and no longer denied that many
\* seconds later, if no attempt that was running failed meanwhile.
RetryAfterExact ==
  \A k \in Keys :
    LET g == Read(guard, now)
        seconds == RetryAfter(g, k, now)
    IN Denies(g, k) =>
         /\ seconds >= 1
         /\ Denies(Read(g, now + (seconds - 1) * Second), k)
         /\ ~Denies(Read(g, now + seconds * Second), k)

=============================================================================
