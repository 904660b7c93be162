------------------------- MODULE GuardMemoryProofs -------------------------
(***************************************************************************)
(* The in-memory attempt guard, for every value of its constants: its heap *)
(* stays a heap, and its lazily pruned window decides as the plain         *)
(* definition of a sliding window does.                                    *)
(***************************************************************************)
EXTENDS GuardMemory, LoopsProofs

-----------------------------------------------------------------------------
(* Positions of the heap                                                   *)

\* The parent of a position comes before it, and it is one of its two children.
LEMMA Half ==
  ASSUME NEW i \in Nat, i >= 2
  PROVE  /\ i \div 2 \in Nat /\ i \div 2 >= 1 /\ i \div 2 < i
         /\ i = 2 * (i \div 2) \/ i = 2 * (i \div 2) + 1
  OBVIOUS

\* The children of a position.
LEMMA Children ==
  ASSUME NEW i \in Nat, i >= 1
  PROVE  (2 * i) \div 2 = i /\ (2 * i + 1) \div 2 = i
  OBVIOUS

-----------------------------------------------------------------------------
(* Rearrangements                                                          *)

\* m tells for each place of a from which place of b its element came.
Rearranges(m, a, b) ==
  /\ Len(a) = Len(b)
  /\ m \in [1..Len(b) -> 1..Len(b)]
  /\ \A i, j \in 1..Len(b) : m[i] = m[j] => i = j
  /\ \A j \in 1..Len(b) : \E i \in 1..Len(b) : m[i] = j
  /\ \A i \in 1..Len(b) : a[i] = b[m[i]]

Shuffled(a, b) == \E m : Rearranges(m, a, b)

\* A sequence is a shuffle of itself.
LEMMA ShuffledSelf ==
  ASSUME NEW T, NEW a \in Seq(T)
  PROVE  Shuffled(a, a)
  <1>1. Rearranges([i \in 1..Len(a) |-> i], a, a)
    BY DEF Rearranges
  <1> QED BY <1>1 DEF Shuffled

\* Two places may change their elements.
LEMMA ShuffledSwap ==
  ASSUME NEW T, NEW a \in Seq(T), NEW b \in Seq(T), NEW c \in Seq(T), Shuffled(a, b),
         NEW p \in 1..Len(a), NEW q \in 1..Len(a),
         Len(c) = Len(a), c[p] = a[q], c[q] = a[p],
         \A i \in 1..Len(a) : i # p /\ i # q => c[i] = a[i]
  PROVE  Shuffled(c, b)
  <1>1. PICK m : Rearranges(m, a, b)
    BY DEF Shuffled
  <1>0. Len(b) \in Nat
    OBVIOUS
  <1>2. /\ Len(a) = Len(b)
        /\ m \in [1..Len(b) -> 1..Len(b)]
        /\ \A i, j \in 1..Len(b) : m[i] = m[j] => i = j
        /\ \A j \in 1..Len(b) : \E i \in 1..Len(b) : m[i] = j
        /\ \A i \in 1..Len(b) : a[i] = b[m[i]]
    BY <1>1 DEF Rearranges
  <1> DEFINE N == 1..Len(b)
  <1> DEFINE s == [i \in N |-> IF i = p THEN q ELSE IF i = q THEN p ELSE i]
  <1> DEFINE w == [i \in N |-> m[s[i]]]
  <1>3. p \in N /\ q \in N
    BY <1>0, <1>2
  <1>4. \A i \in N : s[i] \in N /\ s[s[i]] = i
    BY <1>3
  <1>5. \A i \in N : c[i] = a[s[i]]
    BY <1>2
  <1>9. \A i \in N : m[i] \in N
    BY <1>2
  <1> HIDE DEF s, N
  <1>6. w \in [N -> N]
    BY <1>4, <1>9
  <1>7. \A i, j \in N : w[i] = w[j] => i = j
    <2> SUFFICES ASSUME NEW i \in N, NEW j \in N, m[s[i]] = m[s[j]] PROVE i = j
      OBVIOUS
    <2>1. s[i] = s[j]
      BY <1>2, <1>4 DEF N
    <2> QED BY <1>4, <2>1
  <1>8. \A j \in N : \E i \in N : w[i] = j
    <2> TAKE j \in N
    <2>1. PICK i \in N : m[i] = j
      BY <1>2 DEF N
    <2>2. s[i] \in N /\ w[s[i]] = j
      BY <1>4, <2>1
    <2> QED BY <2>2
  <1>10. \A i \in N : c[i] = b[w[i]]
    BY <1>2, <1>4, <1>5 DEF N
  <1> HIDE DEF w
  <1>11. Rearranges(w, c, b)
    BY <1>2, <1>6, <1>7, <1>8, <1>10 DEF Rearranges, N
  <1> QED BY <1>11 DEF Shuffled

\* The same elements are there.
LEMMA ShuffledSame ==
  ASSUME NEW T, NEW a \in Seq(T), NEW b \in Seq(T), Shuffled(a, b)
  PROVE  Len(a) = Len(b) /\ ToSet(a) = ToSet(b)
  <1>1. PICK m : Rearranges(m, a, b)
    BY DEF Shuffled
  <1>2. Len(a) = Len(b) /\ Len(b) \in Nat
    BY <1>1 DEF Rearranges
  <1>3. ASSUME NEW i \in 1..Len(a) PROVE \E j \in 1..Len(b) : a[i] = b[j]
    BY <1>1, <1>2 DEF Rearranges
  <1>4. ASSUME NEW j \in 1..Len(b) PROVE \E i \in 1..Len(a) : a[i] = b[j]
    <2>1. PICK i \in 1..Len(b) : m[i] = j
      BY <1>1 DEF Rearranges
    <2>2. a[i] = b[j]
      BY <1>1, <2>1 DEF Rearranges
    <2> QED BY <1>2, <2>2
  <1>5. DOMAIN a = 1..Len(a) /\ DOMAIN b = 1..Len(b)
    OBVIOUS
  <1>6. ToSet(a) \subseteq ToSet(b)
    BY <1>3, <1>5 DEF ToSet
  <1>7. ToSet(b) \subseteq ToSet(a)
    BY <1>4, <1>5 DEF ToSet
  <1> QED BY <1>2, <1>6, <1>7

\* The places of the entries that are due.
Due(h, t) == {i \in 1..Len(h) : h[i].expiresAt <= t}

\* Only so many entries are due as there are.
LEMMA DueFinite ==
  ASSUME NEW h \in Seq(Entry), NEW t
  PROVE  /\ IsFiniteSet(Due(h, t)) /\ Cardinality(Due(h, t)) \in Nat
         /\ Cardinality(Due(h, t)) <= Len(h)
  <1>1. Len(h) \in Nat
    OBVIOUS
  <1>2. IsFiniteSet(1..Len(h)) /\ Cardinality(1..Len(h)) = Len(h)
    BY <1>1, FS_Interval
  <1>3. Due(h, t) \subseteq 1..Len(h)
    BY DEF Due
  <1> QED BY <1>2, <1>3, FS_Subset, FS_CardinalityType

\* A rearrangement has as many entries due.
LEMMA ShuffledDue ==
  ASSUME NEW a \in Seq(Entry), NEW b \in Seq(Entry), Shuffled(a, b), NEW t
  PROVE  Cardinality(Due(a, t)) <= Cardinality(Due(b, t))
  <1>1. PICK m : Rearranges(m, a, b)
    BY DEF Shuffled
  <1> DEFINE f == [i \in Due(a, t) |-> m[i]]
  <1>2. \A i \in Due(a, t) : i \in 1..Len(b) /\ m[i] \in Due(b, t)
    BY <1>1 DEF Rearranges, Due
  <1>3. f \in [Due(a, t) -> Due(b, t)]
    BY <1>2
  <1>4. \A i, j \in Due(a, t) : f[i] = f[j] => i = j
    BY <1>1, <1>2 DEF Rearranges
  <1>5. f \in Injection(Due(a, t), Due(b, t))
    BY <1>3, <1>4 DEF Injection, IsInjective
  <1>6. IsFiniteSet(Due(b, t))
    BY DueFinite
  <1> HIDE DEF f
  <1> QED BY <1>5, <1>6, FS_Injection

-----------------------------------------------------------------------------
(* Sifting                                                                 *)

\* The heap is a heap: no entry expires before its parent.
Ordered(h) == \A i \in 2..Len(h) : h[i \div 2].expiresAt <= h[i].expiresAt

\* The entries of a heap have times.
LEMMA EntryTimes ==
  ASSUME NEW h \in Seq(Entry)
  PROVE  Len(h) \in Nat /\ \A i \in 1..Len(h) : h[i] \in Entry /\ h[i].expiresAt \in Nat
  <1>1. \A i \in 1..Len(h) : h[i] \in Entry
    OBVIOUS
  <1> QED BY <1>1 DEF Entry

\* The fields of an array with a hole.
LEMMA SiftingFacts ==
  ASSUME NEW s \in Sifting
  PROVE  s.heap \in Seq(Entry) /\ s.hole \in 1..Len(s.heap) /\ Len(s.heap) \in Nat
  BY DEF Sifting

\* Putting a value into the hole.
LEMMA FilledFacts ==
  ASSUME NEW s \in Sifting, NEW v \in Entry
  PROVE  /\ Filled(s, v) \in Seq(Entry) /\ Len(Filled(s, v)) = Len(s.heap)
         /\ Filled(s, v)[s.hole] = v
         /\ \A i \in 1..Len(s.heap) : i # s.hole => Filled(s, v)[i] = s.heap[i]
  <1>1. s.heap \in Seq(Entry) /\ s.hole \in 1..Len(s.heap)
    BY SiftingFacts
  <1> QED BY <1>1 DEF Filled

\* Moving the hole.
LEMMA HoleToFacts ==
  ASSUME NEW s \in Sifting, NEW i \in 1..Len(s.heap)
  PROVE  /\ HoleTo(s, i) \in Sifting /\ HoleTo(s, i).hole = i
         /\ Len(HoleTo(s, i).heap) = Len(s.heap)
         /\ HoleTo(s, i).heap[s.hole] = s.heap[i]
         /\ \A j \in 1..Len(s.heap) : j # s.hole => HoleTo(s, i).heap[j] = s.heap[j]
  <1>1. s.heap \in Seq(Entry) /\ s.hole \in 1..Len(s.heap)
    BY SiftingFacts
  <1>2. s.heap[i] \in Entry
    BY <1>1
  <1> DEFINE h == [s.heap EXCEPT ![s.hole] = s.heap[i]]
  <1>3. /\ h \in Seq(Entry) /\ Len(h) = Len(s.heap) /\ h[s.hole] = s.heap[i]
        /\ \A j \in 1..Len(s.heap) : j # s.hole => h[j] = s.heap[j]
    BY <1>1, <1>2
  <1>4. HoleTo(s, i) = [heap |-> h, hole |-> i]
    BY DEF HoleTo
  <1> HIDE DEF h
  <1>5. i \in DOMAIN h /\ i \in Nat
    BY <1>3
  <1> QED BY <1>3, <1>4, <1>5 DEF Sifting

\* Moving the hole rearranges the heap that is filled in the end.
LEMMA HoleToShuffles ==
  ASSUME NEW s \in Sifting, NEW v \in Entry, NEW i \in 1..Len(s.heap), i # s.hole,
         NEW b \in Seq(Entry), Shuffled(Filled(s, v), b)
  PROVE  Shuffled(Filled(HoleTo(s, i), v), b)
  <1> DEFINE a == Filled(s, v)  w == HoleTo(s, i)  c == Filled(w, v)
  <1>1. s.hole \in 1..Len(s.heap)
    BY SiftingFacts
  <1>2. /\ w \in Sifting /\ w.hole = i /\ Len(w.heap) = Len(s.heap)
        /\ w.heap[s.hole] = s.heap[i]
        /\ \A j \in 1..Len(s.heap) : j # s.hole => w.heap[j] = s.heap[j]
    BY HoleToFacts
  <1>3. /\ a \in Seq(Entry) /\ Len(a) = Len(s.heap) /\ a[s.hole] = v
        /\ \A j \in 1..Len(s.heap) : j # s.hole => a[j] = s.heap[j]
    BY FilledFacts
  <1> HIDE DEF w
  <1>4. /\ c \in Seq(Entry) /\ Len(c) = Len(w.heap) /\ c[w.hole] = v
        /\ \A j \in 1..Len(w.heap) : j # w.hole => c[j] = w.heap[j]
    BY <1>2, FilledFacts
  <1> HIDE DEF c, a
  <1>5. c[s.hole] = a[i] /\ c[i] = a[s.hole]
    BY <1>1, <1>2, <1>3, <1>4
  <1>6. \A j \in 1..Len(a) : j # s.hole /\ j # i => c[j] = a[j]
    BY <1>2, <1>3, <1>4
  <1>7. Shuffled(a, b)
    BY DEF a
  <1>8. s.hole \in 1..Len(a) /\ i \in 1..Len(a) /\ Len(c) = Len(a)
    BY <1>1, <1>2, <1>3, <1>4
  <1>9. Shuffled(c, b)
    BY ONLY b \in Seq(Entry), <1>3, <1>4, <1>5, <1>6, <1>7, <1>8, ShuffledSwap
  <1> QED BY <1>9 DEF c, w

-----------------------------------------------------------------------------
(* Sifting up                                                              *)

\* The heap is ordered but for the hole, above which its value may belong.
UpOrder(s, v) ==
  \A i \in 2..Len(s.heap) :
    /\ i # s.hole /\ i \div 2 # s.hole => s.heap[i \div 2].expiresAt <= s.heap[i].expiresAt
    /\ i \div 2 = s.hole =>
         /\ v.expiresAt <= s.heap[i].expiresAt
         /\ s.hole # 1 => s.heap[s.hole \div 2].expiresAt <= s.heap[i].expiresAt

\* Where sifting up ends.
AtTop(s, v) == s.hole = 1 \/ s.heap[s.hole \div 2].expiresAt <= v.expiresAt

\* A round that goes on moves the hole to the parent and keeps the order.
LEMMA SiftUpStep ==
  ASSUME NEW s \in Sifting, NEW v \in Entry, ~AtTop(s, v)
  PROVE  /\ s.hole \div 2 \in 1..Len(s.heap) /\ s.hole \div 2 < s.hole
         /\ UpOrder(s, v) => UpOrder(HoleTo(s, s.hole \div 2), v)
  <1> DEFINE N == Len(s.heap)  o == s.hole  p == o \div 2  w == HoleTo(s, p)
  <1>1. s.heap \in Seq(Entry) /\ o \in 1..N /\ N \in Nat
    BY SiftingFacts
  <1>2. /\ o \in Nat /\ o >= 2 /\ p \in Nat /\ p >= 1 /\ p < o /\ p \in 1..N
    <2>1. o \in Nat /\ o >= 2
      BY <1>1 DEF AtTop
    <2>2. p \in Nat /\ p >= 1 /\ p < o
      BY <2>1, Half
    <2> QED BY <1>1, <2>1, <2>2
  <1>3. v.expiresAt \in Nat /\ \A i \in 1..N : s.heap[i].expiresAt \in Nat
    BY <1>1, EntryTimes DEF Entry
  <1>4. v.expiresAt < s.heap[p].expiresAt
    BY <1>2, <1>3 DEF AtTop
  <1>5. /\ w.hole = p /\ Len(w.heap) = N /\ w.heap[o] = s.heap[p]
        /\ \A j \in 1..N : j # o => w.heap[j] = s.heap[j]
    BY <1>2, HoleToFacts
  <1>6. \A i \in 2..N : i \in 1..N /\ i \div 2 \in 1..N /\ i \div 2 < i
    BY <1>1, Half
  <1> HIDE DEF w
  <1>7. ASSUME UpOrder(s, v) PROVE UpOrder(w, v)
    <2> SUFFICES ASSUME NEW i \in 2..N
                 PROVE  /\ i # p /\ i \div 2 # p => w.heap[i \div 2].expiresAt <= w.heap[i].expiresAt
                        /\ i \div 2 = p =>
                             /\ v.expiresAt <= w.heap[i].expiresAt
                             /\ p # 1 => w.heap[p \div 2].expiresAt <= w.heap[i].expiresAt
      BY <1>5 DEF UpOrder
    <2>1. i \in 1..N /\ i \div 2 \in 1..N /\ i \div 2 < i
      BY <1>6
    <2>2. /\ i # o /\ i \div 2 # o => s.heap[i \div 2].expiresAt <= s.heap[i].expiresAt
          /\ i \div 2 = o => /\ v.expiresAt <= s.heap[i].expiresAt
                             /\ s.heap[p].expiresAt <= s.heap[i].expiresAt
      BY <1>2, <1>7 DEF UpOrder
    <2>3. ASSUME i # p, i \div 2 # p PROVE w.heap[i \div 2].expiresAt <= w.heap[i].expiresAt
      <3>1. i # o
        BY <2>3
      <3>2. CASE i \div 2 = o
        BY <1>5, <2>1, <2>2, <3>1, <3>2
      <3>3. CASE i \div 2 # o
        BY <1>5, <2>1, <2>2, <3>1, <3>3
      <3> QED BY <3>2, <3>3
    <2>4. ASSUME i \div 2 = p PROVE s.heap[p].expiresAt <= w.heap[i].expiresAt
      <3>1. CASE i = o
        BY <1>2, <1>3, <1>5, <3>1
      <3>2. CASE i # o
        BY <1>2, <1>5, <2>1, <2>2, <2>4, <3>2
      <3> QED BY <3>1, <3>2
    <2>5. w.heap[i].expiresAt \in Nat
      <3>1. CASE i = o
        BY <1>2, <1>3, <1>5, <3>1
      <3>2. CASE i # o
        BY <1>3, <1>5, <2>1, <3>2
      <3> QED BY <3>1, <3>2
    <2>6. ASSUME i \div 2 = p PROVE v.expiresAt <= w.heap[i].expiresAt
      <3>1. s.heap[p].expiresAt \in Nat
        BY <1>2, <1>3
      <3> QED BY <1>3, <1>4, <2>4, <2>5, <2>6, <3>1
    <2>7. ASSUME i \div 2 = p, p # 1 PROVE w.heap[p \div 2].expiresAt <= w.heap[i].expiresAt
      <3>1. p \in 2..N /\ p # o /\ p \div 2 \in 1..N /\ p \div 2 < p /\ p \div 2 # o
        BY <1>2, <1>6, <2>7
      <3>2. s.heap[p \div 2].expiresAt <= s.heap[p].expiresAt
        BY <1>7, <3>1 DEF UpOrder
      <3>3. w.heap[p \div 2] = s.heap[p \div 2]
        BY <1>5, <3>1
      <3>4. s.heap[p].expiresAt <= w.heap[i].expiresAt
        BY <2>4, <2>7
      <3>5. s.heap[p].expiresAt \in Nat /\ s.heap[p \div 2].expiresAt \in Nat
        BY <1>2, <1>3, <3>1
      <3> QED BY <2>5, <3>2, <3>3, <3>4, <3>5
    <2> QED BY <2>3, <2>6, <2>7
  <1> QED BY <1>2, <1>7 DEF w

\* Where it ends, the value goes into the hole.
LEMMA SiftUpEnd ==
  ASSUME NEW s \in Sifting, NEW v \in Entry, AtTop(s, v), UpOrder(s, v)
  PROVE  Ordered(Filled(s, v))
  <1> DEFINE N == Len(s.heap)  o == s.hole  c == Filled(s, v)
  <1>1. s.heap \in Seq(Entry) /\ o \in 1..N /\ N \in Nat
    BY SiftingFacts
  <1>2. /\ Len(c) = N /\ c[o] = v /\ \A j \in 1..N : j # o => c[j] = s.heap[j]
    BY FilledFacts
  <1> HIDE DEF c
  <1> SUFFICES ASSUME NEW i \in 2..N PROVE c[i \div 2].expiresAt <= c[i].expiresAt
    BY <1>2 DEF Ordered, c
  <1>3. i \in 1..N /\ i \div 2 \in 1..N /\ i \div 2 < i
    BY <1>1, Half
  <1>4. CASE i = o
    <2>1. s.heap[i \div 2].expiresAt <= v.expiresAt
      BY <1>4 DEF AtTop
    <2> QED BY <1>2, <1>3, <1>4, <2>1
  <1>5. CASE i \div 2 = o
    <2>1. v.expiresAt <= s.heap[i].expiresAt
      BY <1>5 DEF UpOrder
    <2> QED BY <1>2, <1>3, <1>5, <2>1
  <1>6. CASE i # o /\ i \div 2 # o
    <2>1. s.heap[i \div 2].expiresAt <= s.heap[i].expiresAt
      BY <1>6 DEF UpOrder
    <2> QED BY <1>2, <1>3, <1>6, <2>1
  <1> QED BY <1>4, <1>5, <1>6

\* A round of sifting up.
LEMMA SiftUpRound ==
  ASSUME NEW v \in Entry
  PROVE  /\ SiftUp(v) \in [Sifting -> Sifting]
         /\ \A s \in Sifting :
              SiftUp(v)[s] = IF AtTop(s, v) THEN s ELSE HoleTo(s, s.hole \div 2)
  <1>1. \A s \in Sifting : SiftUp(v)[s] = IF AtTop(s, v) THEN s ELSE HoleTo(s, s.hole \div 2)
    BY DEF SiftUp, AtTop
  <1>2. ASSUME NEW s \in Sifting PROVE SiftUp(v)[s] \in Sifting
    <2>1. CASE AtTop(s, v)
      BY <1>1, <2>1
    <2>2. CASE ~AtTop(s, v)
      <3>1. s.hole \div 2 \in 1..Len(s.heap)
        BY <2>2, SiftUpStep
      <3>2. HoleTo(s, s.hole \div 2) \in Sifting
        BY <3>1, HoleToFacts
      <3> QED BY <1>1, <2>2, <3>2
    <2> QED BY <2>1, <2>2
  <1>3. SiftUp(v) = [s \in Sifting |-> SiftUp(v)[s]]
    BY DEF SiftUp
  <1> QED BY <1>1, <1>2, <1>3

\* What pushing onto the heap does: the entry is added, the heap stays a heap,
\* and nothing more is due unless the entry is.
LEMMA PushFacts ==
  ASSUME NEW h \in Seq(Entry), NEW v \in Entry
  PROVE  /\ heapPush(h, v) \in Seq(Entry) /\ Len(heapPush(h, v)) = Len(h) + 1
         /\ ToSet(heapPush(h, v)) = ToSet(h) \cup {v}
         /\ Ordered(h) => Ordered(heapPush(h, v))
         /\ \A t \in Nat : t < v.expiresAt =>
              Cardinality(Due(heapPush(h, v), t)) <= Cardinality(Due(h, t))
  <1> DEFINE n == Len(h) + 1  b == Append(h, v)
             s0 == [heap |-> b, hole |-> n]  round == SiftUp(v)
             z == Rounds(round, s0, n)
  <1>1. Len(h) \in Nat /\ n \in Nat /\ n >= 1
    OBVIOUS
  <1>2. /\ b \in Seq(Entry) /\ Len(b) = n /\ b[n] = v
        /\ \A i \in 1..Len(h) : b[i] = h[i]
    OBVIOUS
  <1> HIDE DEF b
  <1>3. s0 \in Sifting
    <2>1. n \in DOMAIN b
      BY <1>1, <1>2
    <2> QED BY <1>1, <1>2, <2>1 DEF Sifting
  <1>4. s0.heap = b /\ s0.hole = n
    OBVIOUS
  <1> HIDE DEF s0
  <1> DEFINE I == {s \in Sifting : /\ Shuffled(Filled(s, v), b)
                                   /\ Ordered(h) => UpOrder(s, v)}
  <1>5. s0 \in I
    <2>1. Filled(s0, v) = b
      <3>1. Filled(s0, v) = [b EXCEPT ![n] = v]
        BY <1>4 DEF Filled
      <3> QED BY <1>2, <3>1
    <2>2. Shuffled(Filled(s0, v), b)
      BY <1>2, <2>1, ShuffledSelf
    <2>3. ASSUME Ordered(h) PROVE UpOrder(s0, v)
      <3> SUFFICES ASSUME NEW i \in 2..n
                   PROVE  /\ i # n => b[i \div 2].expiresAt <= b[i].expiresAt
                          /\ i \div 2 # n
        BY <1>2, <1>4 DEF UpOrder
      <3>1. i \div 2 \in Nat /\ i \div 2 >= 1 /\ i \div 2 < i
        BY <1>1, Half
      <3>2. ASSUME i # n PROVE b[i \div 2].expiresAt <= b[i].expiresAt
        <4>1. i \in 2..Len(h) /\ i \in 1..Len(h) /\ i \div 2 \in 1..Len(h)
          BY <1>1, <3>1, <3>2
        <4>2. h[i \div 2].expiresAt <= h[i].expiresAt
          BY <2>3, <4>1 DEF Ordered
        <4> QED BY <1>2, <4>1, <4>2
      <3> QED BY <1>1, <3>1, <3>2
    <2> QED BY <1>3, <2>2, <2>3
  <1>6. ASSUME NEW s \in Sifting, ~AtTop(s, v)
        PROVE  /\ round[s] \in Sifting /\ round[s].hole < s.hole
               /\ s \in I => round[s] \in I
    <2> DEFINE p == s.hole \div 2
    <2>1. p \in 1..Len(s.heap) /\ p < s.hole /\ (UpOrder(s, v) => UpOrder(HoleTo(s, p), v))
      BY <1>6, SiftUpStep
    <2>2. round[s] = HoleTo(s, p)
      BY <1>6, SiftUpRound
    <2>3. HoleTo(s, p) \in Sifting /\ HoleTo(s, p).hole = p
      BY <2>1, HoleToFacts
    <2>4. s.hole \in Nat /\ p # s.hole
      <3>1. s.hole \in 1..Len(s.heap)
        BY SiftingFacts
      <3>2. p \in Int
        BY <2>1
      <3> QED BY <2>1, <3>1, <3>2
    <2> HIDE DEF p, round
    <2>5. ASSUME s \in I PROVE HoleTo(s, p) \in I
      <3>1. Shuffled(Filled(s, v), b)
        BY <2>5
      <3>2. Shuffled(Filled(HoleTo(s, p), v), b)
        BY <1>2, <2>1, <2>4, <3>1, HoleToShuffles
      <3> QED BY <2>1, <2>3, <2>5, <3>2
    <2> QED BY <2>1, <2>2, <2>3, <2>5
  <1>7. ASSUME NEW s \in Sifting, AtTop(s, v) PROVE round[s] = s
    BY <1>7, SiftUpRound
  <1>8. round \in [Sifting -> Sifting]
    BY SiftUpRound
  <1> HIDE DEF round
  <1>9. \A s \in I \cap Sifting : round[s] \in I
    BY <1>6, <1>7
  <1> DEFINE left == [s \in Sifting |-> s.hole]
  <1>10. left \in [Sifting -> Nat]
    BY DEF Sifting
  <1>11. \A s \in I \cap Sifting : round[s] = s \/ left[round[s]] < left[s]
    BY <1>6, <1>7
  <1>12. left[s0] <= n
    BY <1>1, <1>3, <1>4
  <1> HIDE DEF I, left
  <1>13. Progresses(round, Sifting, I, left)
    BY <1>8, <1>9, <1>10, <1>11 DEF Progresses
  <1>14. s0 \in I \cap Sifting
    BY <1>3, <1>5
  <1>15. z \in Sifting /\ z \in I /\ round[z] = z
    <2> HIDE DEF n
    <2>1. /\ Rounds(round, s0, n) \in I \cap Sifting
          /\ round[Rounds(round, s0, n)] = Rounds(round, s0, n)
      BY ONLY <1>1, <1>12, <1>13, <1>14, RoundsEnd
    <2> QED BY <2>1
  <1> HIDE DEF z
  <1>16. AtTop(z, v)
    <2> SUFFICES ASSUME ~AtTop(z, v) PROVE FALSE
      OBVIOUS
    <2>1. round[z].hole < z.hole
      BY <1>6, <1>15
    <2>2. z.hole \in 1..Len(z.heap)
      BY <1>15, SiftingFacts
    <2> QED BY <1>15, <2>1, <2>2
  <1> DEFINE a == Filled(z, v)
  <1>17. heapPush(h, v) = a
    BY DEF heapPush, z, s0, b, round
  <1>18. a \in Seq(Entry)
    BY <1>15, FilledFacts
  <1>19. Shuffled(a, b) /\ (Ordered(h) => UpOrder(z, v))
    BY <1>15 DEF I
  <1>20. ASSUME Ordered(h) PROVE Ordered(a)
    BY <1>15, <1>16, <1>19, <1>20, SiftUpEnd
  <1> HIDE DEF a
  <1>21. Len(a) = Len(b) /\ ToSet(a) = ToSet(b)
    BY <1>2, <1>18, <1>19, ShuffledSame
  <1>22. ToSet(b) = ToSet(h) \cup {v}
    <2>1. DOMAIN b = 1..n /\ DOMAIN h = 1..Len(h)
      BY <1>2
    <2>2. \A i \in 1..n : i = n \/ i \in 1..Len(h)
      BY <1>1
    <2>3. ToSet(b) \subseteq ToSet(h) \cup {v}
      BY <1>2, <2>1, <2>2 DEF ToSet
    <2>4. n \in 1..n /\ \A i \in 1..Len(h) : i \in 1..n
      BY <1>1
    <2>5. ToSet(h) \cup {v} \subseteq ToSet(b)
      BY <1>2, <2>1, <2>4 DEF ToSet
    <2> QED BY <2>3, <2>5
  <1>23. ASSUME NEW t \in Nat, t < v.expiresAt
         PROVE  Cardinality(Due(a, t)) <= Cardinality(Due(h, t))
    <2>1. Due(b, t) \subseteq Due(h, t)
      <3> SUFFICES ASSUME NEW i \in 1..n, b[i].expiresAt <= t
                   PROVE  i \in 1..Len(h) /\ h[i].expiresAt <= t
        BY <1>2 DEF Due
      <3>1. i # n
        <4>1. v.expiresAt \in Nat
          BY DEF Entry
        <4> QED BY <1>2, <1>23, <4>1
      <3>2. i \in 1..Len(h)
        BY <1>1, <3>1
      <3> QED BY <1>2, <3>2
    <2>2. Cardinality(Due(b, t)) <= Cardinality(Due(h, t))
      BY <2>1, DueFinite, FS_Subset
    <2>3. Cardinality(Due(a, t)) <= Cardinality(Due(b, t))
      BY <1>2, <1>18, <1>19, ShuffledDue
    <2>4. /\ Cardinality(Due(a, t)) \in Nat /\ Cardinality(Due(b, t)) \in Nat
          /\ Cardinality(Due(h, t)) \in Nat
      BY <1>2, <1>18, DueFinite
    <2> QED BY <2>2, <2>3, <2>4
  <1>24. /\ a \in Seq(Entry) /\ Len(a) = Len(h) + 1
         /\ ToSet(a) = ToSet(h) \cup {v}
         /\ Ordered(h) => Ordered(a)
    BY <1>2, <1>18, <1>20, <1>21, <1>22
  <1> QED BY <1>17, <1>23, <1>24

-----------------------------------------------------------------------------
(* Sifting down                                                            *)

\* The earlier child of a position is one of its children, if there is any, and
\* none expires before it.
LEMMA EarlierChildFacts ==
  ASSUME NEW h \in Seq(Entry), NEW i \in 1..Len(h)
  PROVE  /\ EarlierChild(h, i) \in Nat /\ EarlierChild(h, i) > i /\ EarlierChild(h, i) >= 2
         /\ EarlierChild(h, i) \div 2 = i
         /\ \A j \in 2..Len(h) : j \div 2 = i =>
              /\ EarlierChild(h, i) <= Len(h)
              /\ h[EarlierChild(h, i)].expiresAt <= h[j].expiresAt
  <1> DEFINE c == EarlierChild(h, i)
  <1>1. Len(h) \in Nat /\ i \in Nat /\ i >= 1 /\ \A j \in 1..Len(h) : h[j].expiresAt \in Nat
    BY EntryTimes
  <1>2. (2 * i) \div 2 = i /\ (2 * i + 1) \div 2 = i
    BY <1>1, Children
  <1>3. \A j \in 2..Len(h) : j \div 2 = i => j = 2 * i \/ j = 2 * i + 1
    <2> SUFFICES ASSUME NEW j \in 2..Len(h), j \div 2 = i PROVE j = 2 * i \/ j = 2 * i + 1
      OBVIOUS
    <2>1. j \in Nat /\ j >= 2
      BY <1>1
    <2> QED BY <2>1, Half
  <1>4. CASE 2 * i < Len(h) /\ h[2 * i + 1].expiresAt < h[2 * i].expiresAt
    <2>1. c = 2 * i + 1
      BY <1>4 DEF EarlierChild
    <2>2. 2 * i \in 1..Len(h) /\ 2 * i + 1 \in 1..Len(h)
      BY <1>1, <1>4
    <2>3. h[2 * i].expiresAt \in Nat /\ h[2 * i + 1].expiresAt \in Nat
      BY <1>1, <2>2
    <2>4. \A j \in 2..Len(h) : j \div 2 = i => h[2 * i + 1].expiresAt <= h[j].expiresAt
      BY <1>3, <1>4, <2>3
    <2> HIDE DEF c
    <2>5. c \div 2 = i
      BY <1>2, <2>1
    <2>6. c \in Nat /\ c > i /\ c >= 2 /\ c <= Len(h)
      BY <1>1, <2>1, <2>2
    <2> QED BY <2>1, <2>4, <2>5, <2>6 DEF c
  <1>5. CASE ~(2 * i < Len(h) /\ h[2 * i + 1].expiresAt < h[2 * i].expiresAt)
    <2>1. c = 2 * i
      BY <1>5 DEF EarlierChild
    <2>2. ASSUME NEW j \in 2..Len(h), j \div 2 = i
          PROVE  2 * i <= Len(h) /\ h[2 * i].expiresAt <= h[j].expiresAt
      <3>1. j \in Nat /\ j <= Len(h) /\ 2 * i \in 1..j /\ 2 * i \in 1..Len(h)
        BY <1>1, <1>3, <2>2
      <3>2. h[2 * i].expiresAt \in Nat
        BY <1>1, <3>1
      <3>3. CASE j = 2 * i
        BY <3>1, <3>2, <3>3
      <3>4. CASE j = 2 * i + 1
        <4>1. 2 * i < Len(h) /\ 2 * i + 1 \in 1..Len(h)
          BY <1>1, <3>1, <3>4
        <4>2. h[2 * i + 1].expiresAt \in Nat
          BY <1>1, <4>1
        <4> QED BY <1>5, <3>1, <3>2, <3>4, <4>1, <4>2
      <3> QED BY <1>3, <2>2, <3>3, <3>4
    <2> HIDE DEF c
    <2>3. c \in Nat /\ c > i /\ c >= 2 /\ c \div 2 = i
      BY <1>1, <1>2, <2>1
    <2> QED BY <2>1, <2>2, <2>3 DEF c
  <1> QED BY <1>4, <1>5

\* The heap is ordered but for the hole, below which its value may belong.
DownOrder(s, v) ==
  /\ \A i \in 2..Len(s.heap) :
       /\ i # s.hole /\ i \div 2 # s.hole => s.heap[i \div 2].expiresAt <= s.heap[i].expiresAt
       /\ i \div 2 = s.hole /\ s.hole # 1 =>
            s.heap[s.hole \div 2].expiresAt <= s.heap[i].expiresAt
  /\ s.hole # 1 => s.heap[s.hole \div 2].expiresAt <= v.expiresAt

\* Where sifting down ends.
AtBottom(s, v) ==
  \/ EarlierChild(s.heap, s.hole) > Len(s.heap)
  \/ s.heap[EarlierChild(s.heap, s.hole)].expiresAt >= v.expiresAt

\* A round that goes on moves the hole to the earlier child and keeps the order.
LEMMA SiftDownStep ==
  ASSUME NEW s \in Sifting, NEW v \in Entry, ~AtBottom(s, v)
  PROVE  /\ EarlierChild(s.heap, s.hole) \in 1..Len(s.heap)
         /\ s.hole < EarlierChild(s.heap, s.hole)
         /\ DownOrder(s, v) => DownOrder(HoleTo(s, EarlierChild(s.heap, s.hole)), v)
  <1> DEFINE N == Len(s.heap)  o == s.hole  c == EarlierChild(s.heap, o)  w == HoleTo(s, c)
  <1>1. s.heap \in Seq(Entry) /\ o \in 1..N /\ N \in Nat
    BY SiftingFacts
  <1>2. /\ c \in Nat /\ c > o /\ c >= 2 /\ c \div 2 = o
        /\ \A j \in 2..N : j \div 2 = o => s.heap[c].expiresAt <= s.heap[j].expiresAt
    BY <1>1, EarlierChildFacts
  <1>3. v.expiresAt \in Nat /\ \A i \in 1..N : s.heap[i].expiresAt \in Nat
    BY <1>1, EntryTimes DEF Entry
  <1>4. c <= N /\ ~(s.heap[c].expiresAt >= v.expiresAt)
    BY <1>1, <1>2 DEF AtBottom
  <1> HIDE DEF c
  <1>5. c \in 1..N /\ c \in 2..N /\ c # o
    BY <1>1, <1>2, <1>4
  <1>6. s.heap[c].expiresAt < v.expiresAt
    BY <1>3, <1>4, <1>5
  <1>7. /\ w.hole = c /\ Len(w.heap) = N /\ w.heap[o] = s.heap[c]
        /\ \A j \in 1..N : j # o => w.heap[j] = s.heap[j]
    BY <1>5, HoleToFacts
  <1>8. \A i \in 2..N : i \in 1..N /\ i \div 2 \in 1..N /\ i \div 2 < i
    BY <1>1, Half
  <1> HIDE DEF w
  <1>9. ASSUME DownOrder(s, v) PROVE DownOrder(w, v)
    <2>1. w.heap[c \div 2].expiresAt <= v.expiresAt
      <3>1. s.heap[c].expiresAt \in Nat
        BY <1>3, <1>5
      <3>2. w.heap[c \div 2] = s.heap[c]
        BY <1>2, <1>7
      <3> QED BY <1>3, <1>6, <3>1, <3>2
    <2>2. ASSUME NEW i \in 2..N, i # c, i \div 2 # c
          PROVE  w.heap[i \div 2].expiresAt <= w.heap[i].expiresAt
      <3>1. i \in 1..N /\ i \div 2 \in 1..N /\ i \div 2 < i
        BY <1>8
      <3>2. CASE i = o
        <4>1. o # 1 /\ s.heap[o \div 2].expiresAt <= s.heap[c].expiresAt
          BY <1>1, <1>2, <1>5, <1>9, <3>2 DEF DownOrder
        <4>2. w.heap[o \div 2] = s.heap[o \div 2]
          BY <1>7, <3>1, <3>2
        <4> QED BY <1>7, <3>2, <4>1, <4>2
      <3>3. CASE i # o /\ i \div 2 = o
        BY <1>2, <1>7, <3>1, <3>3
      <3>4. CASE i # o /\ i \div 2 # o
        <4>1. s.heap[i \div 2].expiresAt <= s.heap[i].expiresAt
          BY <1>9, <3>4 DEF DownOrder
        <4> QED BY <1>7, <3>1, <3>4, <4>1
      <3> QED BY <3>2, <3>3, <3>4
    <2>3. ASSUME NEW i \in 2..N, i \div 2 = c
          PROVE  w.heap[c \div 2].expiresAt <= w.heap[i].expiresAt
      <3>1. i \in 1..N /\ i # o /\ i \div 2 # o
        BY <1>2, <1>5, <1>8, <2>3
      <3>2. s.heap[c].expiresAt <= s.heap[i].expiresAt
        BY <1>9, <2>3, <3>1 DEF DownOrder
      <3> QED BY <1>2, <1>7, <3>1, <3>2
    <2> QED BY <1>7, <2>1, <2>2, <2>3 DEF DownOrder
  <1> QED BY <1>2, <1>5, <1>9 DEF w, c

\* Where it ends, the value goes into the hole.
LEMMA SiftDownEnd ==
  ASSUME NEW s \in Sifting, NEW v \in Entry, AtBottom(s, v), DownOrder(s, v)
  PROVE  Ordered(Filled(s, v))
  <1> DEFINE N == Len(s.heap)  o == s.hole  a == Filled(s, v)  c == EarlierChild(s.heap, o)
  <1>1. s.heap \in Seq(Entry) /\ o \in 1..N /\ N \in Nat
    BY SiftingFacts
  <1>2. /\ Len(a) = N /\ a[o] = v /\ \A j \in 1..N : j # o => a[j] = s.heap[j]
    BY FilledFacts
  <1>3. v.expiresAt \in Nat /\ \A i \in 1..N : s.heap[i].expiresAt \in Nat
    BY <1>1, EntryTimes DEF Entry
  <1>4. /\ c \in Nat /\ c >= 2
        /\ \A j \in 2..N : j \div 2 = o => c <= N /\ s.heap[c].expiresAt <= s.heap[j].expiresAt
    BY <1>1, EarlierChildFacts
  <1>5. c > N \/ s.heap[c].expiresAt >= v.expiresAt
    BY DEF AtBottom
  <1> HIDE DEF a, c
  <1> SUFFICES ASSUME NEW i \in 2..N PROVE a[i \div 2].expiresAt <= a[i].expiresAt
    BY <1>2 DEF Ordered, a
  <1>6. i \in 1..N /\ i \div 2 \in 1..N /\ i \div 2 < i
    BY <1>1, Half
  <1>7. CASE i = o
    <2>1. s.heap[o \div 2].expiresAt <= v.expiresAt
      BY <1>6, <1>7 DEF DownOrder
    <2> QED BY <1>2, <1>6, <1>7, <2>1
  <1>8. CASE i \div 2 = o
    <2>1. c <= N /\ s.heap[c].expiresAt <= s.heap[i].expiresAt
      BY <1>4, <1>8
    <2>2. c \in 1..N
      BY <1>1, <1>4, <2>1
    <2>3. s.heap[c].expiresAt >= v.expiresAt
      BY <1>1, <1>4, <1>5, <2>1
    <2>4. v.expiresAt <= s.heap[i].expiresAt
      BY <1>3, <1>6, <2>1, <2>2, <2>3
    <2> QED BY <1>2, <1>6, <1>8, <2>4
  <1>9. CASE i # o /\ i \div 2 # o
    <2>1. s.heap[i \div 2].expiresAt <= s.heap[i].expiresAt
      BY <1>9 DEF DownOrder
    <2> QED BY <1>2, <1>6, <1>9, <2>1
  <1> QED BY <1>7, <1>8, <1>9

\* A round of sifting down.
LEMMA SiftDownRound ==
  ASSUME NEW v \in Entry
  PROVE  /\ SiftDown(v) \in [Sifting -> Sifting]
         /\ \A s \in Sifting :
              SiftDown(v)[s] = IF AtBottom(s, v) THEN s
                               ELSE HoleTo(s, EarlierChild(s.heap, s.hole))
  <1>1. \A s \in Sifting : SiftDown(v)[s] = IF AtBottom(s, v) THEN s
                                            ELSE HoleTo(s, EarlierChild(s.heap, s.hole))
    BY DEF SiftDown, AtBottom
  <1>2. ASSUME NEW s \in Sifting PROVE SiftDown(v)[s] \in Sifting
    <2>1. CASE AtBottom(s, v)
      BY <1>1, <2>1
    <2>2. CASE ~AtBottom(s, v)
      <3>1. EarlierChild(s.heap, s.hole) \in 1..Len(s.heap)
        BY <2>2, SiftDownStep
      <3>2. HoleTo(s, EarlierChild(s.heap, s.hole)) \in Sifting
        BY <3>1, HoleToFacts
      <3> QED BY <1>1, <2>2, <3>2
    <2> QED BY <2>1, <2>2
  <1>3. SiftDown(v) = [s \in Sifting |-> SiftDown(v)[s]]
    BY DEF SiftDown
  <1> QED BY <1>1, <1>2, <1>3

\* The heap without its root, whose place the last entry takes.
LEMMA RootReplaced ==
  ASSUME NEW h \in Seq(Entry), Len(h) >= 2, NEW b \in Seq(Entry), Len(b) = Len(h) - 1,
         b[1] = h[Len(h)], \A i \in 2..Len(b) : b[i] = h[i]
  PROVE  /\ ToSet(b) \subseteq ToSet(h)
         /\ \A e \in ToSet(h) : e # h[1] => e \in ToSet(b)
         /\ \A t \in Nat : h[1].expiresAt <= t =>
              Cardinality(Due(b, t)) < Cardinality(Due(h, t))
  <1> DEFINE n == Len(h)
  <1>1. n \in Nat /\ n >= 2 /\ Len(b) \in Nat /\ Len(b) = n - 1
    OBVIOUS
  <1>2. DOMAIN b = 1..Len(b) /\ DOMAIN h = 1..n
    OBVIOUS
  <1>3. ASSUME NEW i \in 1..Len(b)
        PROVE  (IF i = 1 THEN n ELSE i) \in 2..n /\ b[i] = h[IF i = 1 THEN n ELSE i]
    <2>1. CASE i = 1
      BY <1>1, <2>1
    <2>2. CASE i # 1
      BY <1>1, <2>2
    <2> QED BY <2>1, <2>2
  <1>4. ToSet(b) \subseteq ToSet(h)
    <2>1. \A i \in 1..Len(b) : \E j \in 1..n : b[i] = h[j]
      <3> TAKE i \in 1..Len(b)
      <3>1. (IF i = 1 THEN n ELSE i) \in 1..n
        BY <1>1, <1>3
      <3> QED BY <1>3, <3>1
    <2> QED BY <1>2, <2>1 DEF ToSet
  <1>5. ASSUME NEW e \in ToSet(h), e # h[1] PROVE e \in ToSet(b)
    <2>1. PICK j \in 1..n : e = h[j]
      BY <1>2 DEF ToSet
    <2>2. \E i \in 1..Len(b) : e = b[i]
      <3>1. CASE j = n
        <4>1. 1 \in 1..Len(b) /\ e = b[1]
          BY <1>1, <2>1, <3>1
        <4> QED BY <4>1
      <3>2. CASE j # n
        <4>1. j \in 2..Len(b) /\ j \in 1..Len(b)
          BY <1>1, <1>5, <2>1, <3>2
        <4> QED BY <2>1, <4>1
      <3> QED BY <3>1, <3>2
    <2> QED BY <1>2, <2>2 DEF ToSet
  <1>6. ASSUME NEW t \in Nat, h[1].expiresAt <= t
        PROVE  Cardinality(Due(b, t)) < Cardinality(Due(h, t))
    <2> DEFINE R == Due(h, t) \ {1}
               f == [i \in Due(b, t) |-> IF i = 1 THEN n ELSE i]
    <2>1. \A i \in Due(b, t) : i \in 1..Len(b) /\ b[i].expiresAt <= t
      BY DEF Due
    <2>2. ASSUME NEW i \in Due(b, t) PROVE f[i] \in R
      <3>1. f[i] \in 2..n /\ b[i] = h[f[i]] /\ b[i].expiresAt <= t
        BY <1>3, <2>1
      <3>2. f[i] \in 1..n /\ f[i] # 1
        BY <1>1, <3>1
      <3> HIDE DEF f
      <3> QED BY <3>1, <3>2 DEF Due
    <2>3. f \in [Due(b, t) -> R]
      <3> HIDE DEF R
      <3> QED BY <2>2
    <2>4. \A i, j \in Due(b, t) : f[i] = f[j] => i = j
      <3> SUFFICES ASSUME NEW i \in Due(b, t), NEW j \in Due(b, t), f[i] = f[j] PROVE i = j
        OBVIOUS
      <3>1. i \in 1..Len(b) /\ j \in 1..Len(b) /\ i # n /\ j # n
        BY <1>1, <2>1
      <3> QED BY <3>1
    <2>5. f \in Injection(Due(b, t), R)
      <3> HIDE DEF R
      <3> QED BY <2>3, <2>4 DEF Injection, IsInjective
    <2>6. 1 \in Due(h, t) /\ IsFiniteSet(Due(h, t)) /\ Cardinality(Due(h, t)) \in Nat
      <3>1. 1 \in 1..n
        BY <1>1
      <3> QED BY <1>6, <3>1, DueFinite DEF Due
    <2>7. IsFiniteSet(R) /\ Cardinality(R) = Cardinality(Due(h, t)) - 1
      BY <2>6, FS_RemoveElement
    <2> HIDE DEF R, f
    <2>8. Cardinality(Due(b, t)) <= Cardinality(R)
      BY <2>5, <2>7, FS_Injection
    <2>9. Cardinality(Due(b, t)) \in Nat
      BY DueFinite
    <2> QED BY <2>6, <2>7, <2>8, <2>9
  <1> QED BY <1>4, <1>5, <1>6

\* A number that is neither zero nor one is two or more.
LEMMA AtLeastTwo ==
  ASSUME NEW k \in Nat, k # 0, k # 1
  PROVE  k >= 2
  OBVIOUS

\* What popping the heap does: its root goes and nothing else, the heap stays a
\* heap, and where the root was due, less is.
LEMMA PopFacts ==
  ASSUME NEW h \in Seq(Entry), h # <<>>
  PROVE  /\ heapPop(h) \in Seq(Entry) /\ Len(heapPop(h)) = Len(h) - 1
         /\ ToSet(heapPop(h)) \subseteq ToSet(h)
         /\ \A e \in ToSet(h) : e # h[1] => e \in ToSet(heapPop(h))
         /\ Ordered(h) => Ordered(heapPop(h))
         /\ \A t \in Nat : h[1].expiresAt <= t =>
              Cardinality(Due(heapPop(h), t)) < Cardinality(Due(h, t))
  <1>0. Len(h) \in Nat /\ Len(h) # 0
    OBVIOUS
  <1>1. CASE Len(h) = 1
    <2>1. heapPop(h) = <<>>
      BY <1>1 DEF heapPop
    <2>2. ToSet(<<>>) = {}
      BY DEF ToSet
    <2>3. \A e \in ToSet(h) : e = h[1]
      BY <1>1 DEF ToSet
    <2>4. Ordered(<<>>)
      BY DEF Ordered
    <2>5. ASSUME NEW t \in Nat, h[1].expiresAt <= t
          PROVE  Cardinality(Due(<<>>, t)) < Cardinality(Due(h, t))
      <3>1. Due(<<>>, t) = {}
        BY DEF Due
      <3>2. Due(h, t) # {}
        <4>1. 1 \in Due(h, t)
          BY <1>1, <2>5 DEF Due
        <4> QED BY <4>1
      <3>3. IsFiniteSet(Due(h, t)) /\ Cardinality(Due(h, t)) \in Nat
        BY DueFinite
      <3>4. Cardinality(Due(h, t)) # 0
        BY <3>2, <3>3, FS_EmptySet
      <3>5. Cardinality(Due(<<>>, t)) = 0
        BY <3>1, FS_EmptySet
      <3>6. 0 < Cardinality(Due(h, t))
        BY <3>3, <3>4
      <3> QED BY <3>5, <3>6
    <2>6. <<>> \in Seq(Entry) /\ Len(<<>>) = Len(h) - 1
      BY <1>1
    <2> QED BY <2>1, <2>2, <2>3, <2>4, <2>5, <2>6
  <1>2. CASE Len(h) # 1
    <2>0. Len(h) \in Nat /\ Len(h) >= 2
      BY <1>0, <1>2, AtLeastTwo
    <2> DEFINE n == Len(h)  v == Last(h)  s0 == [heap |-> Front(h), hole |-> 1]
               b == Filled(s0, v)  round == SiftDown(v)  z == Rounds(round, s0, n)
    <2>1. n \in Nat /\ n >= 2
      BY <2>0
    <2>2. v = h[n] /\ v \in Entry
      BY <2>1 DEF Last
    <2>3. /\ Front(h) \in Seq(Entry) /\ Len(Front(h)) = n - 1
          /\ \A i \in 1..(n - 1) : Front(h)[i] = h[i]
      BY <2>1 DEF Front
    <2> HIDE DEF v
    <2>4. s0 \in Sifting /\ s0.heap = Front(h) /\ s0.hole = 1
      <3>1. 1 \in DOMAIN Front(h)
        BY <2>1, <2>3
      <3> QED BY <2>3, <3>1 DEF Sifting
    <2> HIDE DEF s0
    <2>5. /\ b \in Seq(Entry) /\ Len(b) = n - 1 /\ b[1] = h[n]
          /\ \A i \in 2..Len(b) : b[i] = h[i]
      <3>1. /\ b \in Seq(Entry) /\ Len(b) = n - 1 /\ b[1] = v
            /\ \A i \in 1..(n - 1) : i # 1 => b[i] = Front(h)[i]
        <4>1. /\ b \in Seq(Entry) /\ Len(b) = Len(s0.heap) /\ b[s0.hole] = v
              /\ \A i \in 1..Len(s0.heap) : i # s0.hole => b[i] = s0.heap[i]
          BY <2>2, <2>4, FilledFacts
        <4> HIDE DEF b, n
        <4> QED BY <2>3, <2>4, <4>1
      <3> HIDE DEF b
      <3>2. ASSUME NEW i \in 2..Len(b) PROVE i \in 1..(n - 1) /\ i # 1
        BY <2>1, <3>1
      <3> QED BY <2>2, <2>3, <3>1, <3>2
    <2> HIDE DEF b
    <2> DEFINE I == {s \in Sifting : /\ Shuffled(Filled(s, v), b)
                                     /\ Ordered(h) => DownOrder(s, v)}
    <2>6. s0 \in I
      <3>1. Shuffled(Filled(s0, v), b)
        BY <2>5, ShuffledSelf DEF b
      <3>2. ASSUME Ordered(h) PROVE DownOrder(s0, v)
        <4> SUFFICES ASSUME NEW i \in 2..(n - 1), i \div 2 # 1
                     PROVE  Front(h)[i \div 2].expiresAt <= Front(h)[i].expiresAt
          BY <2>3, <2>4 DEF DownOrder
        <4>1. i \in 2..n /\ i \in 1..(n - 1) /\ i \div 2 \in 1..(n - 1)
          BY <2>1, Half
        <4>2. h[i \div 2].expiresAt <= h[i].expiresAt
          BY <3>2, <4>1 DEF Ordered
        <4> QED BY <2>3, <4>1, <4>2
      <3> QED BY <2>4, <3>1, <3>2
    <2>7. ASSUME NEW s \in Sifting, ~AtBottom(s, v)
          PROVE  /\ round[s] \in Sifting /\ Len(round[s].heap) - round[s].hole < Len(s.heap) - s.hole
                 /\ s \in I => round[s] \in I
      <3> DEFINE c == EarlierChild(s.heap, s.hole)
      <3>1. c \in 1..Len(s.heap) /\ s.hole < c /\ (DownOrder(s, v) => DownOrder(HoleTo(s, c), v))
        BY <2>2, <2>7, SiftDownStep
      <3>2. round[s] = HoleTo(s, c)
        BY <2>2, <2>7, SiftDownRound
      <3>3. HoleTo(s, c) \in Sifting /\ HoleTo(s, c).hole = c /\ Len(HoleTo(s, c).heap) = Len(s.heap)
        BY <3>1, HoleToFacts
      <3>4. s.hole \in 1..Len(s.heap) /\ Len(s.heap) \in Nat
        BY SiftingFacts
      <3> HIDE DEF c, round
      <3>5. c # s.hole /\ Len(s.heap) - c < Len(s.heap) - s.hole
        BY <3>1, <3>4
      <3>6. ASSUME s \in I PROVE HoleTo(s, c) \in I
        <4>1. Shuffled(Filled(s, v), b)
          BY <3>6
        <4>2. Shuffled(Filled(HoleTo(s, c), v), b)
          BY <2>2, <2>5, <3>1, <3>5, <4>1, HoleToShuffles
        <4> QED BY <3>1, <3>3, <3>6, <4>2
      <3> QED BY <3>2, <3>3, <3>5, <3>6
    <2>8. ASSUME NEW s \in Sifting, AtBottom(s, v) PROVE round[s] = s
      BY <2>2, <2>8, SiftDownRound
    <2>9. round \in [Sifting -> Sifting]
      BY <2>2, SiftDownRound
    <2> HIDE DEF round
    <2>10. \A s \in I \cap Sifting : round[s] \in I
      BY <2>7, <2>8
    <2> DEFINE left == [s \in Sifting |-> Len(s.heap) - s.hole]
    <2>11. left \in [Sifting -> Nat]
      <3>1. \A s \in Sifting : Len(s.heap) - s.hole \in Nat
        BY SiftingFacts
      <3> QED BY <3>1
    <2>12. \A s \in I \cap Sifting : round[s] = s \/ left[round[s]] < left[s]
      BY <2>7, <2>8
    <2>13. left[s0] <= n
      BY <2>1, <2>3, <2>4
    <2> HIDE DEF I, left, n
    <2>14. Progresses(round, Sifting, I, left)
      BY <2>9, <2>10, <2>11, <2>12 DEF Progresses
    <2>15. n \in Nat /\ s0 \in I \cap Sifting
      BY <2>1, <2>4, <2>6
    <2>16. z \in Sifting /\ z \in I /\ round[z] = z
      <3>1. /\ Rounds(round, s0, n) \in I \cap Sifting
            /\ round[Rounds(round, s0, n)] = Rounds(round, s0, n)
        BY ONLY <2>13, <2>14, <2>15, RoundsEnd
      <3> QED BY <3>1
    <2> HIDE DEF z
    <2>17. AtBottom(z, v)
      <3> SUFFICES ASSUME ~AtBottom(z, v) PROVE FALSE
        OBVIOUS
      <3>1. Len(round[z].heap) - round[z].hole < Len(z.heap) - z.hole
        BY <2>7, <2>16
      <3>2. z.hole \in 1..Len(z.heap) /\ Len(z.heap) \in Nat
        BY <2>16, SiftingFacts
      <3> QED BY <2>16, <3>1, <3>2
    <2> DEFINE a == Filled(z, v)
    <2>18. heapPop(h) = a
      BY <1>2 DEF heapPop, z, s0, v, round, n
    <2>19. a \in Seq(Entry)
      BY <2>2, <2>16, FilledFacts
    <2>20. Shuffled(a, b) /\ (Ordered(h) => DownOrder(z, v))
      BY <2>16 DEF I
    <2>21. ASSUME Ordered(h) PROVE Ordered(a)
      BY <2>2, <2>16, <2>17, <2>20, <2>21, SiftDownEnd
    <2> HIDE DEF a
    <2>22. Len(a) = Len(b) /\ ToSet(a) = ToSet(b)
      BY <2>5, <2>19, <2>20, ShuffledSame
    <2>23. /\ ToSet(b) \subseteq ToSet(h)
           /\ \A e \in ToSet(h) : e # h[1] => e \in ToSet(b)
           /\ \A t \in Nat : h[1].expiresAt <= t =>
                Cardinality(Due(b, t)) < Cardinality(Due(h, t))
      BY <2>1, <2>5, RootReplaced DEF n
    <2>24. ASSUME NEW t \in Nat, h[1].expiresAt <= t
           PROVE  Cardinality(Due(a, t)) < Cardinality(Due(h, t))
      <3>1. Cardinality(Due(a, t)) <= Cardinality(Due(b, t))
        BY <2>5, <2>19, <2>20, ShuffledDue
      <3>2. Cardinality(Due(b, t)) < Cardinality(Due(h, t))
        BY <2>23, <2>24
      <3>3. /\ Cardinality(Due(a, t)) \in Nat /\ Cardinality(Due(b, t)) \in Nat
            /\ Cardinality(Due(h, t)) \in Nat
        BY <2>5, <2>19, DueFinite
      <3> QED BY <3>1, <3>2, <3>3
    <2>25. Len(a) = Len(h) - 1
      BY <2>5, <2>22 DEF n
    <2> QED BY <2>18, <2>19, <2>21, <2>22, <2>23, <2>24, <2>25
  <1> QED BY <1>1, <1>2

\* The root of a heap expires first.
LEMMA RootFirst ==
  ASSUME NEW h \in Seq(Entry), Ordered(h)
  PROVE  \A i \in 1..Len(h) : h[1].expiresAt <= h[i].expiresAt
  <1>1. Len(h) \in Nat /\ \A i \in 1..Len(h) : h[i].expiresAt \in Nat
    BY EntryTimes
  <1> DEFINE U == {n \in Nat : \A i \in 1..Len(h) : i <= n => h[1].expiresAt <= h[i].expiresAt}
  <1>2. 0 \in U
    BY <1>1
  <1>3. ASSUME NEW n \in Nat, n \in U PROVE n + 1 \in U
    <2> SUFFICES ASSUME NEW i \in 1..Len(h), i <= n + 1 PROVE h[1].expiresAt <= h[i].expiresAt
      OBVIOUS
    <2>1. i \in Nat /\ i >= 1 /\ 1 \in 1..Len(h)
      BY <1>1
    <2>2. CASE i = 1
      BY <1>1, <2>1, <2>2
    <2>3. CASE i # 1
      <3>1. i >= 2 /\ i \in 2..Len(h)
        BY <1>1, <2>1, <2>3
      <3>2. i \div 2 \in Nat /\ i \div 2 >= 1 /\ i \div 2 < i
        BY <2>1, <3>1, Half
      <3>3. i \div 2 \in 1..Len(h) /\ i \div 2 <= n
        BY <1>1, <2>1, <3>2
      <3>4. h[1].expiresAt <= h[i \div 2].expiresAt
        BY <1>3, <3>3
      <3>5. h[i \div 2].expiresAt <= h[i].expiresAt
        BY <3>1 DEF Ordered
      <3>6. h[1].expiresAt \in Nat /\ h[i \div 2].expiresAt \in Nat /\ h[i].expiresAt \in Nat
        BY <1>1, <2>1, <3>3
      <3> QED BY <3>4, <3>5, <3>6
    <2> QED BY <2>2, <2>3
  <1>4. Nat \subseteq U
    <2> HIDE DEF U
    <2> QED BY <1>2, <1>3, Induction
  <1>5. Len(h) \in U
    BY <1>1, <1>4
  <1> QED BY <1>1, <1>5

-----------------------------------------------------------------------------
(* The times of a key                                                      *)

\* In the order of time.
Ascending(a) == \A i, j \in 1..Len(a) : i < j => a[i] <= a[j]

\* a is what is left of b once some of its first times, which have expired at t,
\* are gone.
DropsExpired(a, b, t) ==
  /\ Len(a) <= Len(b)
  /\ \A i \in 1..Len(a) : a[i] = b[Len(b) - Len(a) + i]
  /\ \A j \in 1..(Len(b) - Len(a)) : b[j] + Window <= t

\* Nothing need be dropped.
LEMMA DropsNothing ==
  ASSUME NEW a \in Seq(Nat), NEW t
  PROVE  DropsExpired(a, a, t)
  <1>1. Len(a) \in Nat /\ Len(a) - Len(a) = 0
    OBVIOUS
  <1>2. \A i \in 1..Len(a) : a[i] = a[Len(a) - Len(a) + i]
    BY <1>1
  <1> QED BY <1>1, <1>2 DEF DropsExpired

\* What is dropped in two rounds.
LEMMA DropsMore ==
  ASSUME NEW a \in Seq(Nat), NEW b \in Seq(Nat), NEW c \in Seq(Nat), NEW t \in Nat,
         DropsExpired(a, b, t), DropsExpired(b, c, t)
  PROVE  DropsExpired(a, c, t)
  <1> DEFINE d == Len(b) - Len(a)  e == Len(c) - Len(b)  f == Len(c) - Len(a)
  <1>1. Len(a) \in Nat /\ Len(b) \in Nat /\ Len(c) \in Nat
    OBVIOUS
  <1>2. Len(a) <= Len(b) /\ Len(b) <= Len(c)
    BY DEF DropsExpired
  <1>3. d \in Nat /\ e \in Nat /\ f = d + e
    BY <1>1, <1>2
  <1>4. /\ \A i \in 1..Len(a) : a[i] = b[d + i]
        /\ \A j \in 1..d : b[j] + Window <= t
        /\ \A i \in 1..Len(b) : b[i] = c[e + i]
        /\ \A j \in 1..e : c[j] + Window <= t
    BY DEF DropsExpired
  <1>5. d + Len(a) = Len(b)
    BY <1>1
  <1> HIDE DEF d, e, f
  <1>6. ASSUME NEW i \in 1..Len(a) PROVE a[i] = c[f + i]
    <2>1. d + i \in 1..Len(b)
      BY <1>1, <1>3, <1>5
    <2>2. e + (d + i) = f + i
      BY <1>3
    <2> QED BY <1>4, <2>1, <2>2
  <1>7. ASSUME NEW j \in 1..f PROVE c[j] + Window <= t
    <2>1. CASE j <= e
      BY <1>3, <1>4, <2>1
    <2>2. CASE j > e
      <3>1. j - e \in 1..d /\ e + (j - e) = j
        BY <1>3, <2>2
      <3>2. j - e \in 1..Len(b)
        BY <1>1, <1>3, <1>5, <3>1
      <3>3. b[j - e] = c[j] /\ b[j - e] + Window <= t
        BY <1>4, <3>1, <3>2
      <3> QED BY <3>3
    <2> QED BY <1>3, <2>1, <2>2
  <1> QED BY <1>1, <1>2, <1>6, <1>7 DEF DropsExpired, f

\* What is left is in the order it was in and ends with the same time.
LEMMA DropsFacts ==
  ASSUME NEW a \in Seq(Nat), NEW b \in Seq(Nat), NEW t, DropsExpired(a, b, t)
  PROVE  /\ Ascending(b) => Ascending(a)
         /\ \A u \in Nat : (\A i \in 1..Len(b) : b[i] <= u) => \A i \in 1..Len(a) : a[i] <= u
         /\ a # <<>> => b # <<>> /\ Last(a) = Last(b)
  <1> DEFINE d == Len(b) - Len(a)
  <1>1. Len(a) \in Nat /\ Len(b) \in Nat
    OBVIOUS
  <1>2. Len(a) <= Len(b) /\ \A i \in 1..Len(a) : a[i] = b[d + i]
    BY DEF DropsExpired
  <1>3. d \in Nat /\ d + Len(a) = Len(b)
    BY <1>1, <1>2
  <1> HIDE DEF d
  <1>4. \A i \in 1..Len(a) : d + i \in 1..Len(b)
    BY <1>1, <1>3
  <1>5. ASSUME Ascending(b) PROVE Ascending(a)
    <2> SUFFICES ASSUME NEW i \in 1..Len(a), NEW j \in 1..Len(a), i < j PROVE a[i] <= a[j]
      BY DEF Ascending
    <2>1. d + i < d + j
      BY <1>3
    <2> QED BY <1>2, <1>4, <1>5, <2>1 DEF Ascending
  <1>6. ASSUME a # <<>> PROVE b # <<>> /\ Last(a) = Last(b)
    <2>1. Len(a) # 0
      BY <1>6
    <2>2. Len(a) \in 1..Len(a) /\ Len(b) # 0
      BY <1>1, <1>2, <2>1
    <2>3. a[Len(a)] = b[Len(b)]
      BY <1>2, <1>3, <2>2
    <2> QED BY <2>2, <2>3 DEF Last
  <1> QED BY <1>2, <1>4, <1>5, <1>6

\* What the window of a key keeps: its expired times are dropped, the others stay.
LEMMA RecentFacts ==
  ASSUME NEW a \in Seq(Nat), NEW t \in Nat
  PROVE  /\ Recent(a, t) \in Seq(Nat)
         /\ \A i \in 1..Len(Recent(a, t)) : Recent(a, t)[i] + Window > t
         /\ Ascending(a) => DropsExpired(Recent(a, t), a, t)
  <1> DEFINE set == {time \in Nat : t - time < Window}  r == Only(a, set)
  <1>1. Recent(a, t) = r
    BY DEF Recent
  <1>2. Window \in Nat
    BY OptionsAssumption
  <1>3. \A x \in Nat : x \in set <=> x + Window > t
    BY <1>2
  <1> HIDE DEF set
  <1>4. r \in Seq(Nat) /\ Len(r) <= Len(a) /\ \A i \in 1..Len(r) : r[i] \in set
    BY OnlyFacts
  <1>5. ASSUME Ascending(a) PROVE DropsExpired(r, a, t)
    <2>1. \A i, j \in 1..Len(a) : i < j /\ a[i] \in set => a[j] \in set
      <3> SUFFICES ASSUME NEW i \in 1..Len(a), NEW j \in 1..Len(a), i < j, a[i] \in set
                   PROVE  a[j] \in set
        OBVIOUS
      <3>1. a[i] \in Nat /\ a[j] \in Nat /\ a[i] <= a[j]
        BY <1>5 DEF Ascending
      <3>2. a[j] + Window > t
        BY <1>2, <1>3, <3>1
      <3> QED BY <1>3, <3>1, <3>2
    <2>2. /\ \A i \in 1..Len(r) : r[i] = a[Len(a) - Len(r) + i]
          /\ \A j \in 1..(Len(a) - Len(r)) : a[j] \notin set
      BY <2>1, OnlySuffix
    <2> HIDE DEF r
    <2>3. ASSUME NEW j \in 1..(Len(a) - Len(r)) PROVE a[j] + Window <= t
      <3>1. j \in 1..Len(a)
        BY <1>4
      <3>2. a[j] \in Nat /\ a[j] \notin set
        BY <2>2, <3>1
      <3> QED BY <1>2, <1>3, <3>2
    <2> QED BY <1>4, <2>2, <2>3 DEF DropsExpired
  <1> HIDE DEF r
  <1>6. \A i \in 1..Len(r) : r[i] + Window > t
    BY <1>3, <1>4
  <1> QED BY <1>1, <1>4, <1>5, <1>6

-----------------------------------------------------------------------------
(* The map's order                                                         *)

\* The order lists the tracked keys, each once, the one whose latest failure is
\* oldest first.
OrderPart(attempts, order) ==
  /\ \A i, j \in 1..Len(order) : order[i] = order[j] => i = j
  /\ ToSet(order) = {k \in Keys : attempts[k] # <<>>}
  /\ \A i, j \in 1..Len(order) : i < j => Last(attempts[order[i]]) <= Last(attempts[order[j]])

\* Whether a key is in the order.
LEMMA InOrder ==
  ASSUME NEW order \in Seq(Keys), NEW k
  PROVE  k \in ToSet(order) <=> \E i \in 1..Len(order) : order[i] = k
  <1>1. DOMAIN order = 1..Len(order)
    OBVIOUS
  <1> QED BY <1>1 DEF ToSet

\* The order without a key.
LEMMA OrderWithout ==
  ASSUME NEW order \in Seq(Keys), NEW k \in Keys
  PROVE  LET r == Only(order, Keys \ {k}) IN
         /\ r \in Seq(Keys) /\ Len(r) <= Len(order)
         /\ k \in ToSet(order) => Len(r) < Len(order)
         /\ ToSet(r) = ToSet(order) \ {k}
         /\ \E m : Selects(m, r, order)
  <1> DEFINE r == Only(order, Keys \ {k})
  <1>1. /\ r \in Seq(Keys) /\ Len(r) <= Len(order)
        /\ \A i \in 1..Len(r) : r[i] \in Keys \ {k}
        /\ \A j \in 1..Len(order) : order[j] \in Keys \ {k} => \E i \in 1..Len(r) : r[i] = order[j]
        /\ \A j \in 1..Len(order) : order[j] \notin Keys \ {k} => Len(r) < Len(order)
        /\ \E m : Selects(m, r, order)
    BY OnlyFacts
  <1> HIDE DEF r
  <1>2. \A j \in 1..Len(order) : order[j] \in Keys
    OBVIOUS
  <1>3. ASSUME k \in ToSet(order) PROVE Len(r) < Len(order)
    <2>1. PICK j \in 1..Len(order) : order[j] = k
      BY <1>3, InOrder
    <2> QED BY <1>1, <2>1
  <1>4. PICK m : Selects(m, r, order)
    BY <1>1
  <1>5. ASSUME NEW x \in ToSet(r) PROVE x \in ToSet(order) \ {k}
    <2>1. PICK i \in 1..Len(r) : r[i] = x
      BY <1>1, <1>5, InOrder
    <2>2. m[i] \in 1..Len(order) /\ order[m[i]] = x
      BY <1>4, <2>1 DEF Selects
    <2>3. x \in ToSet(order)
      BY <2>2, InOrder
    <2> QED BY <1>1, <2>1, <2>3
  <1>6. ASSUME NEW x \in ToSet(order), x # k PROVE x \in ToSet(r)
    <2>1. PICK j \in 1..Len(order) : order[j] = x
      BY <1>6, InOrder
    <2>2. \E i \in 1..Len(r) : r[i] = x
      BY <1>1, <1>2, <1>6, <2>1
    <2> QED BY <1>1, <2>2, InOrder
  <1>7. ToSet(r) = ToSet(order) \ {k}
    BY <1>5, <1>6
  <1> QED BY <1>1, <1>3, <1>7 DEF r

\* A selection of the order lists no key twice, and in the same order.
LEMMA OrderSelected ==
  ASSUME NEW attempts, NEW order \in Seq(Keys), OrderPart(attempts, order),
         NEW r \in Seq(Keys), NEW m, Selects(m, r, order)
  PROVE  /\ \A i, j \in 1..Len(r) : r[i] = r[j] => i = j
         /\ \A i, j \in 1..Len(r) : i < j => Last(attempts[r[i]]) <= Last(attempts[r[j]])
  <1>1. /\ \A i \in 1..Len(r) : m[i] \in 1..Len(order) /\ r[i] = order[m[i]]
        /\ \A i, j \in 1..Len(r) : i < j => m[i] < m[j]
    BY DEF Selects
  <1>2. ASSUME NEW i \in 1..Len(r), NEW j \in 1..Len(r), i < j
        PROVE  Last(attempts[r[i]]) <= Last(attempts[r[j]]) /\ r[i] # r[j]
    <2>1. m[i] \in 1..Len(order) /\ m[j] \in 1..Len(order) /\ m[i] < m[j]
      BY <1>1, <1>2
    <2>2. m[i] # m[j]
      BY <2>1
    <2> QED BY <1>1, <2>1, <2>2 DEF OrderPart
  <1>3. ASSUME NEW i \in 1..Len(r), NEW j \in 1..Len(r), r[i] = r[j] PROVE i = j
    <2>1. Len(r) \in Nat
      OBVIOUS
    <2>2. ~(i < j) /\ ~(j < i)
      BY <1>2, <1>3
    <2> QED BY <2>1, <2>2
  <1> QED BY <1>2, <1>3

\* Deleting a key of the map.
LEMMA OrderForgets ==
  ASSUME NEW attempts \in [Keys -> Seq(Nat)], NEW order \in Seq(Keys),
         OrderPart(attempts, order), NEW k \in Keys
  PROVE  OrderPart([attempts EXCEPT ![k] = <<>>], Only(order, Keys \ {k}))
  <1> DEFINE r == Only(order, Keys \ {k})  a == [attempts EXCEPT ![k] = <<>>]
  <1>1. r \in Seq(Keys) /\ ToSet(r) = ToSet(order) \ {k} /\ \E m : Selects(m, r, order)
    BY OrderWithout
  <1> HIDE DEF r
  <1>2. PICK m : Selects(m, r, order)
    BY <1>1
  <1>3. /\ \A i, j \in 1..Len(r) : r[i] = r[j] => i = j
        /\ \A i, j \in 1..Len(r) : i < j => Last(attempts[r[i]]) <= Last(attempts[r[j]])
    BY <1>1, <1>2, OrderSelected
  <1>4. a[k] = <<>> /\ \A j \in Keys : j # k => a[j] = attempts[j]
    OBVIOUS
  <1> HIDE DEF a
  <1>5. ToSet(r) = {j \in Keys : a[j] # <<>>}
    BY <1>1, <1>4 DEF OrderPart
  <1>6. \A i \in 1..Len(r) : a[r[i]] = attempts[r[i]]
    <2> TAKE i \in 1..Len(r)
    <2>1. r[i] \in ToSet(r)
      BY <1>1, InOrder
    <2>2. r[i] \in Keys /\ r[i] # k
      BY <1>1, <2>1 DEF OrderPart
    <2> QED BY <1>4, <2>2
  <1> QED BY <1>3, <1>5, <1>6 DEF OrderPart, a, r

\* Setting a key of the map whose failure is the latest.
LEMMA OrderPlaces ==
  ASSUME NEW attempts \in [Keys -> Seq(Nat)], NEW order \in Seq(Keys),
         OrderPart(attempts, order), NEW k \in Keys,
         NEW times \in Seq(Nat), times # <<>>,
         \A j \in Keys : attempts[j] # <<>> => Last(attempts[j]) <= Last(times)
  PROVE  /\ Place(order, k) \in Seq(Keys)
         /\ Len(Place(order, k)) <= Len(order) + 1
         /\ attempts[k] # <<>> => Len(Place(order, k)) <= Len(order)
         /\ OrderPart([attempts EXCEPT ![k] = times], Place(order, k))
  <1> DEFINE r == Only(order, Keys \ {k})  a == [attempts EXCEPT ![k] = times]
             p == Append(r, k)  n == Len(r)
  <1>0. Place(order, k) = p
    BY DEF Place
  <1>1. /\ r \in Seq(Keys) /\ ToSet(r) = ToSet(order) \ {k} /\ Len(r) <= Len(order)
        /\ k \in ToSet(order) => Len(r) < Len(order)
        /\ \E m : Selects(m, r, order)
    BY OrderWithout
  <1> HIDE DEF r
  <1>2. PICK m : Selects(m, r, order)
    BY <1>1
  <1>3. /\ \A i, j \in 1..n : r[i] = r[j] => i = j
        /\ \A i, j \in 1..n : i < j => Last(attempts[r[i]]) <= Last(attempts[r[j]])
    BY <1>1, <1>2, OrderSelected
  <1>4. a[k] = times /\ \A j \in Keys : j # k => a[j] = attempts[j]
    OBVIOUS
  <1>5. p \in Seq(Keys) /\ Len(p) = n + 1 /\ p[n + 1] = k /\ \A i \in 1..n : p[i] = r[i]
    BY <1>1
  <1>6. n \in Nat /\ Len(order) \in Nat
    BY <1>1
  <1> HIDE DEF a, p
  <1>7. \A i \in 1..n : r[i] \in Keys /\ r[i] # k /\ a[r[i]] = attempts[r[i]] /\ attempts[r[i]] # <<>>
    <2> TAKE i \in 1..n
    <2>1. r[i] \in ToSet(r)
      BY <1>1, InOrder
    <2>2. r[i] \in Keys /\ r[i] # k /\ attempts[r[i]] # <<>>
      BY <1>1, <2>1 DEF OrderPart
    <2> QED BY <1>4, <2>2
  <1>8. \A i \in 1..(n + 1) : i = n + 1 \/ i \in 1..n
    BY <1>6
  <1>9. ASSUME NEW i \in 1..(n + 1), NEW j \in 1..(n + 1), p[i] = p[j] PROVE i = j
    <2>1. CASE i = n + 1
      BY <1>5, <1>7, <1>8, <1>9, <2>1
    <2>2. CASE i # n + 1 /\ j = n + 1
      BY <1>5, <1>7, <1>8, <1>9, <2>2
    <2>3. CASE i # n + 1 /\ j # n + 1
      BY <1>3, <1>5, <1>8, <1>9, <2>3
    <2> QED BY <2>1, <2>2, <2>3
  <1>10. ASSUME NEW i \in 1..(n + 1), NEW j \in 1..(n + 1), i < j
         PROVE  Last(a[p[i]]) <= Last(a[p[j]])
    <2>1. i \in 1..n
      <3>1. n \in Nat /\ i \in 1..(n + 1) /\ j \in 1..(n + 1) /\ i < j
        BY <1>6, <1>10
      <3> HIDE DEF n
      <3> QED BY ONLY <3>1
    <2>2. CASE j = n + 1
      <3>1. p[i] = r[i] /\ p[j] = k /\ a[k] = times
        BY <1>4, <1>5, <2>1, <2>2
      <3>2. r[i] \in Keys /\ a[r[i]] = attempts[r[i]] /\ attempts[r[i]] # <<>>
        BY <1>7, <2>1
      <3>3. Last(attempts[r[i]]) <= Last(times)
        BY <3>2
      <3> QED BY ONLY <3>1, <3>2, <3>3
    <2>3. CASE j # n + 1
      <3>1. j \in 1..n
        BY <1>8, <2>3
      <3> QED BY <1>3, <1>5, <1>7, <1>10, <2>1, <3>1
    <2> QED BY <2>2, <2>3
  <1>11. ASSUME NEW x PROVE x \in ToSet(p) <=> x \in ToSet(r) \cup {k}
    <2>1. x \in ToSet(p) <=> \E i \in 1..(n + 1) : p[i] = x
      BY <1>5, InOrder
    <2>2. x \in ToSet(r) <=> \E i \in 1..n : r[i] = x
      BY <1>1, InOrder
    <2>3. n + 1 \in 1..(n + 1) /\ \A i \in 1..n : i \in 1..(n + 1)
      BY <1>6
    <2> QED BY <1>5, <1>8, <2>1, <2>2, <2>3
  <1>12. ToSet(p) = {j \in Keys : a[j] # <<>>}
    <2>1. ToSet(order) = {j \in Keys : attempts[j] # <<>>}
      BY DEF OrderPart
    <2> QED BY <1>1, <1>4, <1>11, <2>1
  <1>13. OrderPart(a, p)
    BY <1>5, <1>9, <1>10, <1>12 DEF OrderPart
  <1>14. ASSUME attempts[k] # <<>> PROVE Len(r) < Len(order)
    BY <1>1, <1>14 DEF OrderPart
  <1> QED BY <1>0, <1>1, <1>5, <1>6, <1>13, <1>14 DEF a

\* Dropping times that are not the last of their key leaves the order alone.
LEMMA OrderKept ==
  ASSUME NEW a \in [Keys -> Seq(Nat)], NEW b \in [Keys -> Seq(Nat)], NEW order \in Seq(Keys),
         OrderPart(a, order),
         \A k \in Keys : (b[k] = <<>> <=> a[k] = <<>>) /\ (a[k] # <<>> => Last(b[k]) = Last(a[k]))
  PROVE  OrderPart(b, order)
  <1>1. ToSet(order) = {k \in Keys : b[k] # <<>>}
    BY DEF OrderPart
  <1>2. \A i \in 1..Len(order) : Last(b[order[i]]) = Last(a[order[i]])
    <2> TAKE i \in 1..Len(order)
    <2>1. order[i] \in ToSet(order)
      BY InOrder
    <2>2. order[i] \in Keys /\ a[order[i]] # <<>>
      BY <2>1 DEF OrderPart
    <2> QED BY <2>2
  <1> QED BY <1>1, <1>2 DEF OrderPart

-----------------------------------------------------------------------------
(* Pruning                                                                 *)

\* The heap is a heap, and has an entry for when the first failure of each
\* tracked key expires.
HeapPart(attempts, heap) ==
  /\ Ordered(heap)
  /\ \A k \in Keys : attempts[k] # <<>> => Expiration(k, attempts[k]) \in ToSet(heap)

\* The failures of a key are in the order of their times, and none is to come.
TimesPart(attempts, t) ==
  \A k \in Keys : Ascending(attempts[k]) /\ \A i \in 1..Len(attempts[k]) : attempts[k][i] <= t

Consistent(g, t) ==
  /\ HeapPart(g.attempts, g.heap)
  /\ TimesPart(g.attempts, t)
  /\ OrderPart(g.attempts, g.order)

\* The fields of the guard's state.
LEMMA GuardFields ==
  ASSUME NEW g \in GuardState
  PROVE  /\ g.attempts \in [Keys -> Seq(Nat)] /\ g.order \in Seq(Keys) /\ g.heap \in Seq(Entry)
         /\ \A k \in Keys : g.attempts[k] \in Seq(Nat)
  BY DEF GuardState

\* The heap entry of a key's failures.
LEMMA ExpirationFacts ==
  ASSUME NEW k \in Keys, NEW a \in Seq(Nat), a # <<>>
  PROVE  /\ Expiration(k, a) \in Entry /\ Expiration(k, a).key = k
         /\ Expiration(k, a).expiresAt = a[1] + Window
         /\ a[1] \in Nat /\ Head(a) = a[1] /\ 1 \in 1..Len(a)
  <1>1. 1 \in 1..Len(a) /\ a[1] \in Nat /\ Head(a) = a[1]
    OBVIOUS
  <1>2. a[1] + Window \in Nat
    BY <1>1, OptionsAssumption
  <1> QED BY <1>1, <1>2 DEF Expiration, Entry

\* Forgetting a key.
LEMMA ForgetFacts ==
  ASSUME NEW g \in GuardState, NEW k \in Keys
  PROVE  /\ Forget(g, k) \in GuardState
         /\ Forget(g, k).attempts = [g.attempts EXCEPT ![k] = <<>>]
         /\ Forget(g, k).order = Only(g.order, Keys \ {k})
         /\ Forget(g, k).heap = g.heap
         /\ Len(Forget(g, k).order) <= Len(g.order)
         /\ k \in ToSet(g.order) => Len(Forget(g, k).order) < Len(g.order)
  <1> DEFINE r == Only(g.order, Keys \ {k})  a == [g.attempts EXCEPT ![k] = <<>>]
  <1>1. g.attempts \in [Keys -> Seq(Nat)] /\ g.order \in Seq(Keys) /\ g.heap \in Seq(Entry)
    BY GuardFields
  <1>2. r \in Seq(Keys) /\ Len(r) <= Len(g.order) /\ (k \in ToSet(g.order) => Len(r) < Len(g.order))
    BY <1>1, OrderWithout
  <1>3. Forget(g, k) = [g EXCEPT !.attempts = a, !.order = r]
    BY DEF Forget
  <1>4. a \in [Keys -> Seq(Nat)]
    BY <1>1
  <1> HIDE DEF a, r
  <1>5. /\ Forget(g, k) \in GuardState
        /\ Forget(g, k).attempts = a /\ Forget(g, k).order = r /\ Forget(g, k).heap = g.heap
    BY <1>2, <1>3, <1>4 DEF GuardState
  <1> QED BY <1>2, <1>5 DEF a, r

\* A guard that forgets a key stays consistent.
LEMMA ForgetConsistent ==
  ASSUME NEW g \in GuardState, NEW t, Consistent(g, t), NEW k \in Keys
  PROVE  Consistent(Forget(g, k), t)
  <1> DEFINE f == Forget(g, k)
  <1>1. /\ f.attempts = [g.attempts EXCEPT ![k] = <<>>] /\ f.order = Only(g.order, Keys \ {k})
        /\ f.heap = g.heap
    BY ForgetFacts
  <1>2. g.attempts \in [Keys -> Seq(Nat)] /\ g.order \in Seq(Keys)
    BY GuardFields
  <1> HIDE DEF f
  <1>3. f.attempts[k] = <<>> /\ \A j \in Keys : j # k => f.attempts[j] = g.attempts[j]
    BY <1>1, <1>2
  <1>4. OrderPart(f.attempts, f.order)
    <2>1. k \in Keys /\ OrderPart(g.attempts, g.order)
      BY DEF Consistent
    <2>2. OrderPart([g.attempts EXCEPT ![k] = <<>>], Only(g.order, Keys \ {k}))
      BY ONLY <1>2, <2>1, OrderForgets
    <2> QED BY ONLY <1>1, <2>2
  <1>5. HeapPart(f.attempts, f.heap)
    BY <1>1, <1>3 DEF Consistent, HeapPart
  <1>6. TimesPart(f.attempts, t)
    <2> SUFFICES ASSUME NEW j \in Keys
                 PROVE  Ascending(f.attempts[j]) /\ \A i \in 1..Len(f.attempts[j]) : f.attempts[j][i] <= t
      BY DEF TimesPart
    <2>1. CASE j = k
      BY <1>3, <2>1 DEF Ascending
    <2>2. CASE j # k
      BY <1>3, <2>2 DEF Consistent, TimesPart
    <2> QED BY <2>1, <2>2
  <1> QED BY <1>4, <1>5, <1>6 DEF Consistent, f

\* The key and the times a round of pruneExpired is about.
RootKey(g) == g.heap[1].key
RootTimes(g) == g.attempts[RootKey(g)]
RootStale(g, t) == RootTimes(g) = <<>> \/ Head(RootTimes(g)) + Window > t

\* What a round of pruneExpired does in each of its cases.
LEMMA PopCases ==
  ASSUME NEW g \in GuardState, NEW t \in Nat, g.heap # <<>>
  PROVE  /\ RootKey(g) \in Keys /\ RootTimes(g) \in Seq(Nat) /\ Recent(RootTimes(g), t) \in Seq(Nat)
         /\ Pop(g, t) \in GuardState
         /\ RootStale(g, t) =>
              /\ Pop(g, t).attempts = g.attempts /\ Pop(g, t).order = g.order
              /\ Pop(g, t).heap = heapPop(g.heap)
         /\ ~RootStale(g, t) /\ Recent(RootTimes(g), t) = <<>> =>
              /\ Pop(g, t).attempts = [g.attempts EXCEPT ![RootKey(g)] = <<>>]
              /\ Pop(g, t).order = Only(g.order, Keys \ {RootKey(g)})
              /\ Pop(g, t).heap = heapPop(g.heap)
         /\ ~RootStale(g, t) /\ Recent(RootTimes(g), t) # <<>> =>
              /\ Pop(g, t).attempts = [g.attempts EXCEPT ![RootKey(g)] = Recent(RootTimes(g), t)]
              /\ Pop(g, t).order = g.order
              /\ Pop(g, t).heap =
                   heapPush(heapPop(g.heap), Expiration(RootKey(g), Recent(RootTimes(g), t)))
  <1> DEFINE key == RootKey(g)  times == RootTimes(g)  recent == Recent(times, t)
             popped == [g EXCEPT !.heap = heapPop(@)]
  <1>1. g.attempts \in [Keys -> Seq(Nat)] /\ g.order \in Seq(Keys) /\ g.heap \in Seq(Entry)
    BY GuardFields
  <1>2. key \in Keys
    <2>1. g.heap[1] \in Entry
      BY <1>1
    <2> QED BY <2>1 DEF Entry, RootKey
  <1>3. times \in Seq(Nat)
    BY <1>1, <1>2 DEF RootTimes
  <1>4. recent \in Seq(Nat)
    BY <1>3, RecentFacts
  <1>5. heapPop(g.heap) \in Seq(Entry)
    BY <1>1, PopFacts
  <1>6. popped \in GuardState /\ popped.attempts = g.attempts /\ popped.order = g.order
        /\ popped.heap = heapPop(g.heap)
    BY <1>5 DEF GuardState
  <1>7. Pop(g, t) = IF RootStale(g, t) THEN popped
                    ELSE IF recent = <<>> THEN Forget(popped, key)
                    ELSE [popped EXCEPT !.attempts = [@ EXCEPT ![key] = recent],
                                        !.heap = heapPush(@, Expiration(key, recent))]
    BY DEF Pop, RootStale, RootTimes, RootKey
  <1> HIDE DEF key, times, recent, popped
  <1>8. CASE RootStale(g, t)
    <2>1. Pop(g, t) = popped
      BY <1>7, <1>8
    <2> QED BY <1>2, <1>3, <1>4, <1>6, <1>8, <2>1 DEF key, times, recent
  <1>9. CASE ~RootStale(g, t) /\ recent = <<>>
    <2>1. Pop(g, t) = Forget(popped, key)
      BY <1>7, <1>9
    <2>2. /\ Forget(popped, key) \in GuardState
          /\ Forget(popped, key).attempts = [popped.attempts EXCEPT ![key] = <<>>]
          /\ Forget(popped, key).order = Only(popped.order, Keys \ {key})
          /\ Forget(popped, key).heap = popped.heap
      BY <1>2, <1>6, ForgetFacts
    <2> QED BY <1>2, <1>3, <1>4, <1>6, <1>9, <2>1, <2>2 DEF key, times, recent
  <1>10. CASE ~RootStale(g, t) /\ recent # <<>>
    <2> DEFINE a == [g.attempts EXCEPT ![key] = recent]
               h == heapPush(heapPop(g.heap), Expiration(key, recent))
    <2>1. Pop(g, t) = [popped EXCEPT !.attempts = a, !.heap = h]
      BY <1>6, <1>7, <1>10
    <2>2. a \in [Keys -> Seq(Nat)]
      BY <1>1, <1>2, <1>4
    <2>3. h \in Seq(Entry)
      <3>1. Expiration(key, recent) \in Entry
        BY <1>2, <1>4, <1>10, ExpirationFacts
      <3> QED BY <1>5, <3>1, PushFacts
    <2> HIDE DEF a, h
    <2>4. /\ Pop(g, t) \in GuardState /\ Pop(g, t).attempts = a
          /\ Pop(g, t).order = popped.order /\ Pop(g, t).heap = h
      BY <1>6, <2>1, <2>2, <2>3 DEF GuardState
    <2> QED BY <1>2, <1>3, <1>4, <1>6, <1>10, <2>4 DEF key, times, recent, a, h
  <1> QED BY <1>8, <1>9, <1>10

\* A round takes a due entry away and adds none.
LEMMA PopLessDue ==
  ASSUME NEW g \in GuardState, NEW t \in Nat, g.heap # <<>>, g.heap[1].expiresAt <= t
  PROVE  /\ Cardinality(Due(Pop(g, t).heap, t)) < Cardinality(Due(g.heap, t))
         /\ Len(Pop(g, t).heap) <= Len(g.heap)
  <1> DEFINE h == heapPop(g.heap)  recent == Recent(RootTimes(g), t)  key == RootKey(g)
  <1>1. g.heap \in Seq(Entry)
    BY GuardFields
  <1>2. /\ h \in Seq(Entry) /\ Len(h) = Len(g.heap) - 1
        /\ Cardinality(Due(h, t)) < Cardinality(Due(g.heap, t))
    BY <1>1, PopFacts
  <1>3. Len(g.heap) \in Nat /\ Len(h) \in Nat
    BY <1>1, <1>2
  <1>4. key \in Keys /\ RootTimes(g) \in Seq(Nat) /\ recent \in Seq(Nat)
    BY PopCases
  <1>5. CASE Pop(g, t).heap = h
    BY <1>2, <1>3, <1>5
  <1>6. CASE ~RootStale(g, t) /\ recent # <<>>
    <2> DEFINE v == Expiration(key, recent)
    <2>1. v \in Entry /\ v.expiresAt = recent[1] + Window /\ 1 \in 1..Len(recent)
      BY <1>4, <1>6, ExpirationFacts
    <2>2. recent[1] + Window > t
      BY <1>4, <2>1, RecentFacts
    <2>3. v.expiresAt \in Nat /\ t < v.expiresAt
      BY <1>4, <2>1, <2>2 DEF Entry
    <2> HIDE DEF v
    <2>4. /\ Len(heapPush(h, v)) = Len(h) + 1
          /\ Cardinality(Due(heapPush(h, v), t)) <= Cardinality(Due(h, t))
          /\ heapPush(h, v) \in Seq(Entry)
      BY <1>2, <2>1, <2>3, PushFacts
    <2>5. Pop(g, t).heap = heapPush(h, v)
      BY <1>6, PopCases DEF v
    <2>6. /\ Cardinality(Due(heapPush(h, v), t)) \in Nat /\ Cardinality(Due(h, t)) \in Nat
          /\ Cardinality(Due(g.heap, t)) \in Nat
      BY <1>1, <1>2, <2>4, DueFinite
    <2>7. Cardinality(Due(heapPush(h, v), t)) < Cardinality(Due(g.heap, t))
      BY <1>2, <2>4, <2>6
    <2>8. Len(heapPush(h, v)) <= Len(g.heap)
      BY <1>2, <1>3, <2>4
    <2> QED BY <2>5, <2>7, <2>8
  <1>7. CASE RootStale(g, t) \/ recent = <<>>
    BY <1>5, <1>7, PopCases
  <1> QED BY <1>6, <1>7

\* h is what pruning has made of g: only expired times are gone.
PrunedFrom(h, g, t) ==
  /\ Consistent(h, t)
  /\ \A k \in Keys : DropsExpired(h.attempts[k], g.attempts[k], t)
  /\ Len(h.heap) <= Len(g.heap) /\ Len(h.order) <= Len(g.order)

\* A round keeps the guard consistent and drops expired times only.
LEMMA PopConsistent ==
  ASSUME NEW g \in GuardState, NEW t \in Nat, Consistent(g, t),
         g.heap # <<>>, g.heap[1].expiresAt <= t
  PROVE  PrunedFrom(Pop(g, t), g, t)
  <1> DEFINE p == Pop(g, t)  key == RootKey(g)  times == RootTimes(g)
             recent == Recent(times, t)  h == heapPop(g.heap)
  <1>1. g.attempts \in [Keys -> Seq(Nat)] /\ g.order \in Seq(Keys) /\ g.heap \in Seq(Entry)
    BY GuardFields
  <1>2. /\ key \in Keys /\ times \in Seq(Nat) /\ recent \in Seq(Nat)
        /\ times = g.attempts[key] /\ key = g.heap[1].key
    BY PopCases DEF RootTimes, RootKey
  <1>3. /\ h \in Seq(Entry) /\ Ordered(h)
        /\ \A e \in ToSet(g.heap) : e # g.heap[1] => e \in ToSet(h)
    BY <1>1, PopFacts DEF Consistent, HeapPart
  <1>4. Len(p.heap) <= Len(g.heap)
    BY PopLessDue
  <1>5. Len(g.order) \in Nat
    BY <1>1
  <1>6. g.heap[1].expiresAt \in Nat
    <2>1. 1 \in 1..Len(g.heap)
      BY <1>1
    <2> QED BY <1>1, <2>1, EntryTimes
  <1>7. ASSUME NEW k \in Keys PROVE g.attempts[k] \in Seq(Nat) /\ DropsExpired(g.attempts[k], g.attempts[k], t)
    BY <1>1, DropsNothing
  <1>8. ASSUME NEW k \in Keys, g.attempts[k] # <<>>, k # key
        PROVE  Expiration(k, g.attempts[k]) \in ToSet(h)
    <2>1. Expiration(k, g.attempts[k]) \in ToSet(g.heap)
      BY <1>8 DEF Consistent, HeapPart
    <2>2. Expiration(k, g.attempts[k]).key = k
      BY <1>1, <1>8, ExpirationFacts
    <2> QED BY <1>2, <1>3, <1>8, <2>1, <2>2
  <1>9. Ascending(times) /\ DropsExpired(recent, times, t)
    <2>1. Ascending(times)
      BY <1>2 DEF Consistent, TimesPart
    <2> QED BY <1>2, <2>1, RecentFacts
  <1> HIDE DEF p, key, times, recent, h
  <1>10. CASE RootStale(g, t)
    <2>1. p.attempts = g.attempts /\ p.order = g.order /\ p.heap = h
      BY <1>10, PopCases DEF p, h
    <2>2. ASSUME times # <<>> PROVE Expiration(key, times) \in ToSet(h)
      <3>1. Expiration(key, times) \in ToSet(g.heap)
        BY <1>2, <2>2 DEF Consistent, HeapPart
      <3>2. /\ Expiration(key, times).expiresAt = times[1] + Window
            /\ Head(times) = times[1] /\ times[1] \in Nat
        BY <1>2, <2>2, ExpirationFacts
      <3>3. Head(times) + Window > t
        BY <1>10, <2>2 DEF RootStale, times
      <3>4. Window \in Nat
        BY OptionsAssumption
      <3>5. Expiration(key, times).expiresAt # g.heap[1].expiresAt
        BY <1>6, <3>2, <3>3, <3>4
      <3> QED BY <1>3, <3>1, <3>5
    <2>3. HeapPart(p.attempts, p.heap)
      BY <1>2, <1>3, <1>8, <2>1, <2>2 DEF HeapPart
    <2>4. Consistent(p, t)
      BY <2>1, <2>3 DEF Consistent
    <2> QED BY <1>4, <1>5, <1>7, <2>1, <2>4 DEF PrunedFrom, p
  <1>11. CASE ~RootStale(g, t) /\ recent = <<>>
    <2>1. /\ p.attempts = [g.attempts EXCEPT ![key] = <<>>]
          /\ p.order = Only(g.order, Keys \ {key}) /\ p.heap = h
      BY <1>11, PopCases DEF p, h, key, recent, times
    <2>2. p.attempts[key] = <<>> /\ \A k \in Keys : k # key => p.attempts[k] = g.attempts[k]
      BY <1>1, <1>2, <2>1
    <2>3. OrderPart(p.attempts, p.order) /\ Len(p.order) <= Len(g.order)
      <3>1. OrderPart(g.attempts, g.order)
        BY DEF Consistent
      <3>2. OrderPart([g.attempts EXCEPT ![key] = <<>>], Only(g.order, Keys \ {key}))
        BY ONLY <1>1, <1>2, <3>1, OrderForgets
      <3>3. Len(Only(g.order, Keys \ {key})) <= Len(g.order)
        BY ONLY <1>1, <1>2, OrderWithout
      <3> QED BY <2>1, <3>2, <3>3
    <2>4. HeapPart(p.attempts, p.heap)
      BY <1>3, <1>8, <2>1, <2>2 DEF HeapPart
    <2>5. ASSUME NEW k \in Keys
          PROVE  /\ DropsExpired(p.attempts[k], g.attempts[k], t)
                 /\ Ascending(p.attempts[k]) /\ \A i \in 1..Len(p.attempts[k]) : p.attempts[k][i] <= t
      <3>1. CASE k = key
        <4>1. p.attempts[k] = <<>> /\ <<>> \in Seq(Nat)
          BY <2>2, <3>1
        <4>2. DropsExpired(<<>>, times, t)
          BY <1>9, <1>11
        <4>3. Ascending(<<>>) /\ \A i \in 1..Len(<<>>) : <<>>[i] <= t
          BY DEF Ascending
        <4> QED BY ONLY <1>2, <3>1, <4>1, <4>2, <4>3
      <3>2. CASE k # key
        BY <1>7, <2>2, <3>2 DEF Consistent, TimesPart
      <3> QED BY <3>1, <3>2
    <2>6. TimesPart(p.attempts, t)
      BY <2>5 DEF TimesPart
    <2> QED BY <1>4, <2>3, <2>4, <2>5, <2>6 DEF PrunedFrom, Consistent, p
  <1>12. CASE ~RootStale(g, t) /\ recent # <<>>
    <2> DEFINE v == Expiration(key, recent)
    <2>1. /\ p.attempts = [g.attempts EXCEPT ![key] = recent]
          /\ p.order = g.order /\ p.heap = heapPush(h, v)
      BY <1>12, PopCases DEF p, h, key, recent, times
    <2>2. p.attempts[key] = recent /\ \A k \in Keys : k # key => p.attempts[k] = g.attempts[k]
      BY <1>1, <1>2, <2>1
    <2>3. v \in Entry
      BY <1>2, <1>12, ExpirationFacts
    <2>4. Ordered(heapPush(h, v)) /\ ToSet(heapPush(h, v)) = ToSet(h) \cup {v}
      BY <1>3, <2>3, PushFacts
    <2>5. HeapPart(p.attempts, p.heap)
      <3> SUFFICES ASSUME NEW k \in Keys, p.attempts[k] # <<>>
                   PROVE  Expiration(k, p.attempts[k]) \in ToSet(p.heap)
        BY <2>1, <2>4 DEF HeapPart
      <3>1. CASE k = key
        BY <2>1, <2>2, <2>4, <3>1
      <3>2. CASE k # key
        BY <1>8, <2>1, <2>2, <2>4, <3>2
      <3> QED BY <3>1, <3>2
    <2> HIDE DEF v
    <2>6. times # <<>> /\ Last(recent) = Last(times)
      BY <1>2, <1>9, <1>12, DropsFacts
    <2>7. p.attempts \in [Keys -> Seq(Nat)]
      BY <1>1, <1>2, <2>1
    <2>8. OrderPart(p.attempts, p.order)
      <3>1. \A k \in Keys : /\ p.attempts[k] = <<>> <=> g.attempts[k] = <<>>
                            /\ g.attempts[k] # <<>> => Last(p.attempts[k]) = Last(g.attempts[k])
        BY <1>2, <1>12, <2>2, <2>6
      <3>2. OrderPart(g.attempts, g.order)
        BY DEF Consistent
      <3>3. OrderPart(p.attempts, g.order)
        BY ONLY <1>1, <2>7, <3>1, <3>2, OrderKept
      <3> QED BY ONLY <2>1, <3>3
    <2>9. ASSUME NEW k \in Keys
          PROVE  /\ DropsExpired(p.attempts[k], g.attempts[k], t)
                 /\ Ascending(p.attempts[k]) /\ \A i \in 1..Len(p.attempts[k]) : p.attempts[k][i] <= t
      <3>1. CASE k = key
        <4>1. \A i \in 1..Len(times) : times[i] <= t
          BY <1>2 DEF Consistent, TimesPart
        <4>2. Ascending(recent) /\ \A i \in 1..Len(recent) : recent[i] <= t
          BY <1>2, <1>9, <4>1, DropsFacts
        <4> QED BY <1>2, <1>9, <2>2, <3>1, <4>2
      <3>2. CASE k # key
        BY <1>7, <2>2, <3>2 DEF Consistent, TimesPart
      <3> QED BY <3>1, <3>2
    <2>10. TimesPart(p.attempts, t)
      BY <2>9 DEF TimesPart
    <2> QED BY <1>4, <1>5, <2>1, <2>5, <2>8, <2>9, <2>10 DEF PrunedFrom, Consistent, p
  <1> QED BY <1>10, <1>11, <1>12 DEF p

\* Pruning in steps is pruning.
LEMMA PrunedMore ==
  ASSUME NEW a \in GuardState, NEW b \in GuardState, NEW c \in GuardState, NEW t \in Nat,
         PrunedFrom(a, b, t), PrunedFrom(b, c, t)
  PROVE  PrunedFrom(a, c, t)
  <1>1. \A k \in Keys : a.attempts[k] \in Seq(Nat) /\ b.attempts[k] \in Seq(Nat) /\ c.attempts[k] \in Seq(Nat)
    BY GuardFields
  <1>2. \A k \in Keys : DropsExpired(a.attempts[k], c.attempts[k], t)
    <2> TAKE k \in Keys
    <2>1. DropsExpired(a.attempts[k], b.attempts[k], t) /\ DropsExpired(b.attempts[k], c.attempts[k], t)
      BY DEF PrunedFrom
    <2> QED BY <1>1, <2>1, DropsMore
  <1>3. \A x \in GuardState : Len(x.heap) \in Nat /\ Len(x.order) \in Nat
    BY GuardFields
  <1>4. Len(a.heap) <= Len(c.heap) /\ Len(a.order) <= Len(c.order)
    BY <1>3 DEF PrunedFrom
  <1> QED BY <1>2, <1>4 DEF PrunedFrom

\* What is due has been pruned.
NoneDue(g, t) == g.heap = <<>> \/ g.heap[1].expiresAt > t

\* Pruning keeps the guard consistent, drops expired times only, and ends when
\* nothing is due.
LEMMA ReadPrunes ==
  ASSUME NEW g \in GuardState, NEW t \in Nat, Consistent(g, t)
  PROVE  /\ Read(g, t) \in GuardState
         /\ PrunedFrom(Read(g, t), g, t)
         /\ NoneDue(Read(g, t), t)
  <1> DEFINE round == [h \in GuardState |->
                         IF h.heap = <<>> \/ h.heap[1].expiresAt > t THEN h ELSE Pop(h, t)]
             I == {h \in GuardState : PrunedFrom(h, g, t)}
             left == [h \in GuardState |-> Cardinality(Due(h.heap, t))]
             n == Len(g.heap)  z == Rounds(round, g, n)
  <1>1. Read(g, t) = z
    BY DEF Read, pruneExpired
  <1>2. \A h \in GuardState : h.heap \in Seq(Entry) /\ (h.heap # <<>> => h.heap[1].expiresAt \in Nat)
    <2> TAKE h \in GuardState
    <2>1. h.heap \in Seq(Entry)
      BY GuardFields
    <2>2. ASSUME h.heap # <<>> PROVE h.heap[1].expiresAt \in Nat
      <3>1. 1 \in 1..Len(h.heap)
        BY <2>1, <2>2
      <3> QED BY <2>1, <3>1, EntryTimes
    <2> QED BY <2>1, <2>2
  <1>3. ASSUME NEW h \in GuardState, NoneDue(h, t) PROVE round[h] = h
    BY <1>3 DEF NoneDue
  <1>4. ASSUME NEW h \in GuardState, ~NoneDue(h, t)
        PROVE  /\ round[h] = Pop(h, t) /\ round[h] \in GuardState
               /\ left[round[h]] < left[h]
               /\ h \in I => round[h] \in I
    <2>1. h.heap # <<>> /\ h.heap[1].expiresAt <= t
      BY <1>2, <1>4 DEF NoneDue
    <2>2. round[h] = Pop(h, t)
      BY <1>4 DEF NoneDue
    <2>3. Pop(h, t) \in GuardState
      BY <2>1, PopCases
    <2>4. Cardinality(Due(Pop(h, t).heap, t)) < Cardinality(Due(h.heap, t))
      BY <2>1, PopLessDue
    <2> HIDE DEF round
    <2>5. left[round[h]] < left[h]
      BY <2>2, <2>3, <2>4
    <2>6. ASSUME h \in I PROVE Pop(h, t) \in I
      <3>1. PrunedFrom(h, g, t) /\ Consistent(h, t)
        BY <2>6 DEF PrunedFrom
      <3>2. PrunedFrom(Pop(h, t), h, t)
        BY <2>1, <3>1, PopConsistent
      <3>3. PrunedFrom(Pop(h, t), g, t)
        BY <2>3, <3>1, <3>2, PrunedMore
      <3> QED BY <2>3, <3>3
    <2> HIDE DEF I, left
    <2> QED BY <2>2, <2>3, <2>5, <2>6
  <1>5. round \in [GuardState -> GuardState]
    <2>1. \A h \in GuardState : round[h] \in GuardState
      BY <1>3, <1>4
    <2> QED BY <2>1
  <1>6. left \in [GuardState -> Nat]
    <2>1. \A h \in GuardState : Cardinality(Due(h.heap, t)) \in Nat
      BY <1>2, DueFinite
    <2> QED BY <2>1
  <1> HIDE DEF round
  <1>7. g \in I
    <2>1. \A k \in Keys : DropsExpired(g.attempts[k], g.attempts[k], t)
      BY GuardFields, DropsNothing
    <2>2. Len(g.heap) \in Nat /\ Len(g.order) \in Nat
      BY GuardFields
    <2> QED BY <2>1, <2>2 DEF PrunedFrom
  <1>8. n \in Nat /\ left[g] <= n
    BY <1>2, DueFinite
  <1> HIDE DEF left
  <1>9. \A h \in I \cap GuardState : round[h] \in I /\ (round[h] = h \/ left[round[h]] < left[h])
    BY <1>3, <1>4
  <1> HIDE DEF I, n
  <1>10. Progresses(round, GuardState, I, left)
    BY <1>5, <1>6, <1>9 DEF Progresses
  <1>11. g \in I \cap GuardState
    BY <1>7
  <1>12. z \in I \cap GuardState /\ round[z] = z
    BY ONLY <1>8, <1>10, <1>11, RoundsEnd
  <1> HIDE DEF z
  <1>13. NoneDue(z, t)
    <2> SUFFICES ASSUME ~NoneDue(z, t) PROVE FALSE
      OBVIOUS
    <2>1. left[round[z]] < left[z]
      BY <1>4, <1>12
    <2>2. left[z] \in Nat
      BY <1>6, <1>12
    <2> QED BY <1>12, <2>1, <2>2
  <1> QED BY <1>1, <1>12, <1>13 DEF I

\* After pruning, what is left in the window of a key is within it.
LEMMA WithinWindow ==
  ASSUME NEW g \in GuardState, NEW t \in Nat, Consistent(g, t), NoneDue(g, t), NEW k \in Keys
  PROVE  \A i \in 1..Len(g.attempts[k]) : g.attempts[k][i] + Window > t
  <1> SUFFICES ASSUME NEW i \in 1..Len(g.attempts[k]) PROVE g.attempts[k][i] + Window > t
    OBVIOUS
  <1> DEFINE a == g.attempts[k]
  <1>1. a \in Seq(Nat) /\ g.heap \in Seq(Entry)
    BY GuardFields
  <1>2. a # <<>> /\ Ascending(a)
    <2>1. a # <<>>
      OBVIOUS
    <2> QED BY <2>1 DEF Consistent, TimesPart
  <1>3. Expiration(k, a) \in ToSet(g.heap) /\ Ordered(g.heap)
    BY <1>2 DEF Consistent, HeapPart
  <1> HIDE DEF a
  <1>4. Expiration(k, a).expiresAt = a[1] + Window /\ a[1] \in Nat /\ 1 \in 1..Len(a)
    BY <1>1, <1>2, ExpirationFacts
  <1>5. PICK j \in 1..Len(g.heap) : g.heap[j] = Expiration(k, a)
    <2>1. DOMAIN g.heap = 1..Len(g.heap)
      BY <1>1
    <2> QED BY <1>3, <2>1 DEF ToSet
  <1>6. g.heap[1].expiresAt <= g.heap[j].expiresAt
    BY <1>1, <1>3, RootFirst
  <1>7. g.heap[1].expiresAt > t
    <2>1. g.heap # <<>>
      BY <1>1, <1>5
    <2> QED BY <2>1 DEF NoneDue
  <1>8. g.heap[1].expiresAt \in Nat /\ Window \in Nat
    <2>1. 1 \in 1..Len(g.heap)
      BY <1>1, <1>5
    <2> QED BY <1>1, <2>1, EntryTimes, OptionsAssumption
  <1>9. a[1] + Window > t
    BY <1>4, <1>5, <1>6, <1>7, <1>8
  <1>10. i \in 1..Len(a) /\ a[i] \in Nat
    BY <1>1 DEF a
  <1>11. a[1] <= a[i]
    <2>1. CASE i = 1
      BY <1>10, <2>1
    <2>2. CASE i # 1
      <3>1. 1 < i
        BY <1>1, <1>10, <2>2
      <3> QED BY <1>2, <1>4, <1>10, <3>1 DEF Ascending
    <2> QED BY <2>1, <2>2
  <1> QED BY <1>4, <1>8, <1>9, <1>10, <1>11 DEF a

-----------------------------------------------------------------------------
(* Adding a failure                                                        *)

\* The heap is built anew, with an entry for each key of the map.
LEMMA RebuildFacts ==
  ASSUME NEW g \in GuardState, OrderPart(g.attempts, g.order)
  PROVE  /\ rebuildExpirations(g) \in Seq(Entry)
         /\ Len(rebuildExpirations(g)) = Len(g.order)
         /\ HeapPart(g.attempts, rebuildExpirations(g))
  <1> DEFINE T == ToSet(g.order)  S == Seq(Entry)
             round == [p \in Seq(Entry) \X Keys |-> heapPush(p[1], Expiration(p[2], g.attempts[p[2]]))]
             I == {p \in Nat \X Seq(Entry) :
                     /\ Len(p[2]) = p[1] /\ Ordered(p[2])
                     /\ \A i \in 1..p[1] :
                          Expiration(g.order[i], g.attempts[g.order[i]]) \in ToSet(p[2])}
             z == Folded(round, <<>>, g.order)
  <1>1. g.attempts \in [Keys -> Seq(Nat)] /\ g.order \in Seq(Keys) /\ Len(g.order) \in Nat
    BY GuardFields
  <1>2. T = {k \in Keys : g.attempts[k] # <<>>}
    BY DEF OrderPart
  <1>3. \A i \in 1..Len(g.order) : g.order[i] \in T
    BY <1>1, InOrder
  <1> HIDE DEF T
  <1>4. ASSUME NEW k \in T PROVE k \in Keys /\ Expiration(k, g.attempts[k]) \in Entry
    <2>1. k \in Keys /\ g.attempts[k] # <<>> /\ g.attempts[k] \in Seq(Nat)
      BY <1>1, <1>2
    <2> QED BY <2>1, ExpirationFacts
  <1>5. ASSUME NEW h \in S, NEW k \in T
        PROVE  round[<<h, k>>] = heapPush(h, Expiration(k, g.attempts[k])) /\ round[<<h, k>>] \in S
    <2>1. round[<<h, k>>] = heapPush(h, Expiration(k, g.attempts[k]))
      BY <1>4
    <2> QED BY <1>4, <2>1, PushFacts
  <1>6. <<>> \in S
    OBVIOUS
  <1> HIDE DEF round
  <1>7. <<0, <<>>>> \in I
    <2>1. Len(<<>>) = 0 /\ Ordered(<<>>)
      BY DEF Ordered
    <2>2. \A i \in 1..0 : FALSE
      OBVIOUS
    <2> DEFINE q == <<0, <<>>>>
    <2>3. q[1] = 0 /\ q[2] = <<>> /\ q \in Nat \X Seq(Entry)
      BY <1>6
    <2> HIDE DEF q
    <2>4. q \in I
      BY <2>1, <2>2, <2>3
    <2> QED BY <2>4 DEF q
  <1>8. ASSUME NEW k \in 1..Len(g.order), NEW h \in S, <<k - 1, h>> \in I
        PROVE  <<k, round[<<h, g.order[k]>>]>> \in I
    <2> DEFINE x == g.order[k]  v == Expiration(x, g.attempts[x])  b == heapPush(h, v)
    <2>1. x \in T
      BY <1>3
    <2>2. v \in Entry
      BY <1>4, <2>1
    <2>3. round[<<h, x>>] = b
      BY <1>5, <2>1
    <2>4. /\ Len(h) = k - 1 /\ Ordered(h)
          /\ \A i \in 1..(k - 1) : Expiration(g.order[i], g.attempts[g.order[i]]) \in ToSet(h)
      BY <1>8
    <2>5. b \in Seq(Entry) /\ Len(b) = Len(h) + 1 /\ ToSet(b) = ToSet(h) \cup {v} /\ Ordered(b)
      BY <2>2, <2>4, PushFacts
    <2>6. k \in Nat /\ Len(b) = k
      BY <2>4, <2>5
    <2> HIDE DEF b
    <2>7. ASSUME NEW i \in 1..k
          PROVE  Expiration(g.order[i], g.attempts[g.order[i]]) \in ToSet(b)
      <3>1. CASE i = k
        BY <2>5, <3>1
      <3>2. CASE i # k
        <4>1. i \in 1..(k - 1)
          BY <3>2
        <4> QED BY <2>4, <2>5, <4>1
      <3> QED BY <3>1, <3>2
    <2> HIDE DEF x, v
    <2>8. <<k, b>> \in I
      BY <2>5, <2>6, <2>7
    <2> QED BY <2>3, <2>8 DEF x
  <1> HIDE DEF I
  <1>9. z \in S /\ <<Len(g.order), z>> \in I
    <2>1. \A h \in S : \A k \in 1..Len(g.order) : round[<<h, g.order[k]>>] \in S
      BY <1>3, <1>5
    <2>2. \A k \in 1..Len(g.order) : \A h \in S :
            <<k - 1, h>> \in I => <<k, round[<<h, g.order[k]>>]>> \in I
      BY <1>8
    <2> HIDE DEF S
    <2> QED BY ONLY <1>1, <1>6, <1>7, <2>1, <2>2, FoldedInvariant
  <1>10. rebuildExpirations(g) = z
    BY DEF rebuildExpirations, round
  <1> HIDE DEF z
  <1>11. /\ Len(z) = Len(g.order) /\ Ordered(z)
         /\ \A i \in 1..Len(g.order) : Expiration(g.order[i], g.attempts[g.order[i]]) \in ToSet(z)
    BY <1>9 DEF I
  <1>12. ASSUME NEW k \in Keys, g.attempts[k] # <<>> PROVE Expiration(k, g.attempts[k]) \in ToSet(z)
    <2>1. k \in ToSet(g.order)
      BY <1>2, <1>12 DEF T
    <2>2. PICK i \in 1..Len(g.order) : g.order[i] = k
      BY <1>1, <2>1, InOrder
    <2> QED BY <1>11, <2>2
  <1> QED BY <1>9, <1>10, <1>11, <1>12 DEF HeapPart

\* The last elements of a sequence.
LEMMA LastNFacts ==
  ASSUME NEW s \in Seq(Nat), NEW n \in Nat, n >= 1
  PROVE  /\ LastN(s, n) \in Seq(Nat)
         /\ Len(LastN(s, n)) = IF Len(s) <= n THEN Len(s) ELSE n
         /\ \A i \in 1..Len(LastN(s, n)) : LastN(s, n)[i] = s[Len(s) - Len(LastN(s, n)) + i]
  <1>1. Len(s) \in Nat
    OBVIOUS
  <1>2. CASE Len(s) <= n
    <2>1. LastN(s, n) = s
      BY <1>2 DEF LastN
    <2>2. \A i \in 1..Len(s) : s[i] = s[Len(s) - Len(s) + i]
      BY <1>1
    <2> QED BY <1>2, <2>1, <2>2
  <1>3. CASE ~(Len(s) <= n)
    <2> DEFINE m == Len(s) - n + 1  r == SubSeq(s, m, Len(s))
    <2>1. LastN(s, n) = r
      BY <1>3 DEF LastN
    <2>2. m \in 1..Len(s) /\ Len(s) - m + 1 = n
      BY <1>1, <1>3
    <2>3. r \in Seq(Nat) /\ Len(r) = n /\ \A i \in 1..n : r[i] = s[m + i - 1]
      <3> HIDE DEF m
      <3>1. \A i \in m..Len(s) : s[i] \in Nat
        BY <2>2
      <3> QED BY <1>1, <2>2, <3>1
    <2> HIDE DEF r
    <2>4. \A i \in 1..n : m + i - 1 = Len(s) - n + i
      BY <1>1
    <2> QED BY <1>3, <2>1, <2>3, <2>4
  <1> QED BY <1>2, <1>3

\* The times of a key with a failure added at t: the latest MaxFailures.
Added(times, t) == LastN(Append(times, t), MaxFailures)

\* The times with a failure added: the latest of them, and the new one last.
LEMMA AddedFacts ==
  ASSUME NEW times \in Seq(Nat), NEW t \in Nat
  PROVE  LET a == Added(times, t)  d == Len(times) + 1 - Len(a) IN
         /\ a \in Seq(Nat) /\ a # <<>> /\ Last(a) = t
         /\ Len(a) = IF Len(times) + 1 <= MaxFailures THEN Len(times) + 1 ELSE MaxFailures
         /\ \A i \in 1..(Len(a) - 1) : a[i] = times[d + i] /\ d + i \in 1..Len(times)
         /\ a[Len(a)] = t
  <1> DEFINE s == Append(times, t)  a == Added(times, t)  d == Len(times) + 1 - Len(a)
  <1>1. MaxFailures \in Nat /\ MaxFailures >= 1
    BY OptionsAssumption
  <1>2. /\ s \in Seq(Nat) /\ Len(s) = Len(times) + 1 /\ s[Len(times) + 1] = t
        /\ \A i \in 1..Len(times) : s[i] = times[i]
    OBVIOUS
  <1> HIDE DEF s
  <1>3. /\ a \in Seq(Nat)
        /\ Len(a) = IF Len(s) <= MaxFailures THEN Len(s) ELSE MaxFailures
        /\ \A i \in 1..Len(a) : a[i] = s[Len(s) - Len(a) + i]
    BY <1>1, <1>2, LastNFacts DEF Added, s
  <1>4. Len(times) \in Nat
    OBVIOUS
  <1> HIDE DEF a
  <1>5. Len(a) \in Nat /\ Len(a) >= 1 /\ Len(a) <= Len(times) + 1
    BY <1>1, <1>2, <1>3, <1>4
  <1>6. a[Len(a)] = t
    <2>1. Len(a) \in 1..Len(a) /\ Len(s) - Len(a) + Len(a) = Len(times) + 1
      BY <1>2, <1>4, <1>5
    <2> QED BY <1>2, <1>3, <2>1
  <1>7. a # <<>> /\ Last(a) = t
    BY <1>5, <1>6 DEF Last
  <1>8. ASSUME NEW i \in 1..(Len(a) - 1) PROVE a[i] = times[d + i] /\ d + i \in 1..Len(times)
    <2>1. i \in 1..Len(a) /\ d + i \in 1..Len(times) /\ Len(s) - Len(a) + i = d + i
      BY <1>2, <1>4, <1>5
    <2> HIDE DEF d
    <2> QED BY <1>2, <1>3, <2>1
  <1> QED BY <1>2, <1>3, <1>6, <1>7, <1>8 DEF a

\* A table no smaller than the map.
LEMMA RoomForKeys ==
  MaxKeys \in Nat /\ MaxKeys >= 1 /\ MaxKeys * HeapFactor \in Nat /\ MaxKeys <= MaxKeys * HeapFactor
  <1>1. MaxKeys \in Nat /\ MaxKeys >= 1 /\ HeapFactor \in Nat /\ HeapFactor >= 1
    BY OptionsAssumption
  <1>2. \A m, n \in Nat : n >= 1 => m * n \in Nat /\ m <= m * n
    OBVIOUS
  <1> QED BY <1>1, <1>2

\* The record that Add makes before it looks at the size of the heap.
AddedTo(g, k, t) ==
  [attempts |-> [g.attempts EXCEPT ![k] = Added(g.attempts[k], t)],
   order    |-> Place(g.order, k),
   heap     |-> heapPush(g.heap, Expiration(k, Added(g.attempts[k], t)))]

\* A failure added at its own time leaves the guard consistent.
LEMMA AddedConsistent ==
  ASSUME NEW g \in GuardState, NEW t \in Nat, Consistent(g, t), NEW k \in Keys
  PROVE  /\ AddedTo(g, k, t) \in GuardState
         /\ Consistent(AddedTo(g, k, t), t)
         /\ Len(AddedTo(g, k, t).order) <= Len(g.order) + 1
         /\ g.attempts[k] # <<>> => Len(AddedTo(g, k, t).order) <= Len(g.order)
  <1> DEFINE times == Added(g.attempts[k], t)  a == [g.attempts EXCEPT ![k] = times]
             v == Expiration(k, times)  h == heapPush(g.heap, v)  o == Place(g.order, k)
             b == AddedTo(g, k, t)  d == Len(g.attempts[k]) + 1 - Len(times)
  <1>1. /\ g.attempts \in [Keys -> Seq(Nat)] /\ g.order \in Seq(Keys) /\ g.heap \in Seq(Entry)
        /\ \A j \in Keys : g.attempts[j] \in Seq(Nat)
    BY GuardFields
  <1>2. /\ times \in Seq(Nat) /\ times # <<>> /\ Last(times) = t
        /\ \A i \in 1..(Len(times) - 1) :
             times[i] = g.attempts[k][d + i] /\ d + i \in 1..Len(g.attempts[k])
        /\ times[Len(times)] = t
    BY <1>1, AddedFacts
  <1>3. /\ HeapPart(g.attempts, g.heap) /\ TimesPart(g.attempts, t) /\ OrderPart(g.attempts, g.order)
    BY DEF Consistent
  <1> HIDE DEF times
  <1>4. v \in Entry
    BY <1>2, ExpirationFacts
  <1>5. h \in Seq(Entry) /\ ToSet(h) = ToSet(g.heap) \cup {v} /\ Ordered(h)
    BY <1>1, <1>3, <1>4, PushFacts DEF HeapPart
  <1>6. a \in [Keys -> Seq(Nat)] /\ a[k] = times /\ \A j \in Keys : j # k => a[j] = g.attempts[j]
    BY <1>1, <1>2
  <1>7. \A j \in Keys : g.attempts[j] # <<>> => Last(g.attempts[j]) <= t
    <2> TAKE j \in Keys
    <2> HAVE g.attempts[j] # <<>>
    <2>1. Len(g.attempts[j]) \in Nat /\ Len(g.attempts[j]) # 0
      BY <1>1
    <2>2. Len(g.attempts[j]) \in 1..Len(g.attempts[j])
      BY <2>1
    <2>3. g.attempts[j][Len(g.attempts[j])] <= t
      BY <1>3, <2>2 DEF TimesPart
    <2> QED BY <2>3 DEF Last
  <1>8. /\ o \in Seq(Keys) /\ Len(o) <= Len(g.order) + 1
        /\ g.attempts[k] # <<>> => Len(o) <= Len(g.order)
        /\ OrderPart(a, o)
    <2>1. t \in Nat /\ k \in Keys
      OBVIOUS
    <2>2. \A j \in Keys : g.attempts[j] # <<>> => Last(g.attempts[j]) <= Last(times)
      BY <1>2, <1>7
    <2> QED BY ONLY <1>1, <1>2, <1>3, <2>1, <2>2, OrderPlaces
  <1>9. b = [attempts |-> a, order |-> o, heap |-> h]
    BY DEF AddedTo, times
  <1> HIDE DEF a, h, o, b
  <1>10. b \in GuardState /\ b.attempts = a /\ b.order = o /\ b.heap = h
    BY <1>5, <1>6, <1>8, <1>9 DEF GuardState
  <1>11. HeapPart(a, h)
    <2> SUFFICES ASSUME NEW j \in Keys, a[j] # <<>> PROVE Expiration(j, a[j]) \in ToSet(h)
      BY <1>5 DEF HeapPart
    <2>1. CASE j = k
      BY <1>5, <1>6, <2>1
    <2>2. CASE j # k
      BY <1>3, <1>5, <1>6, <2>2 DEF HeapPart
    <2> QED BY <2>1, <2>2
  <1>12. Len(times) \in Nat /\ Len(g.attempts[k]) \in Nat /\ Len(times) >= 1
    BY <1>1, <1>2
  <1>13. \A i \in 1..Len(times) : i = Len(times) \/ i \in 1..(Len(times) - 1)
    BY <1>12
  <1>14. Ascending(g.attempts[k]) /\ \A i \in 1..Len(g.attempts[k]) : g.attempts[k][i] <= t
    BY <1>3 DEF TimesPart
  <1>15. d \in Int
    BY <1>12
  <1> HIDE DEF d
  <1>16. \A i \in 1..Len(times) : times[i] <= t
    <2> TAKE i \in 1..Len(times)
    <2>1. CASE i = Len(times)
      BY <1>2, <2>1
    <2>2. CASE i # Len(times)
      <3>1. times[i] = g.attempts[k][d + i] /\ d + i \in 1..Len(g.attempts[k])
        BY <1>2, <1>13, <2>2
      <3> QED BY <1>14, <3>1
    <2> QED BY <2>1, <2>2
  <1>17. Ascending(times)
    <2> SUFFICES ASSUME NEW i \in 1..Len(times), NEW j \in 1..Len(times), i < j
                 PROVE  times[i] <= times[j]
      BY DEF Ascending
    <2>1. i \in 1..(Len(times) - 1)
      BY <1>12
    <2>2. CASE j = Len(times)
      BY <1>2, <1>16, <2>2
    <2>3. CASE j # Len(times)
      <3>1. j \in 1..(Len(times) - 1) /\ d + i < d + j
        BY <1>13, <1>15, <2>3
      <3> QED BY <1>2, <1>14, <2>1, <3>1 DEF Ascending
    <2> QED BY <2>2, <2>3
  <1>18. TimesPart(a, t)
    <2> SUFFICES ASSUME NEW j \in Keys
                 PROVE  Ascending(a[j]) /\ \A i \in 1..Len(a[j]) : a[j][i] <= t
      BY DEF TimesPart
    <2>1. CASE j = k
      BY <1>6, <1>16, <1>17, <2>1
    <2>2. CASE j # k
      BY <1>3, <1>6, <2>2 DEF TimesPart
    <2> QED BY <2>1, <2>2
  <1> QED BY <1>8, <1>10, <1>11, <1>18 DEF Consistent, b

\* Adding a failure to a map with room for its key.
LEMMA AddFacts ==
  ASSUME NEW g \in GuardState, NEW t \in Nat, Consistent(g, t), NEW k \in Keys,
         Len(g.order) <= MaxKeys, g.attempts[k] = <<>> => Len(g.order) < MaxKeys
  PROVE  /\ Add(g, k, t) \in GuardState
         /\ Consistent(Add(g, k, t), t)
         /\ Add(g, k, t).attempts = [g.attempts EXCEPT ![k] = Added(g.attempts[k], t)]
         /\ Len(Add(g, k, t).order) <= MaxKeys
         /\ Len(Add(g, k, t).heap) <= MaxKeys * HeapFactor
  <1> DEFINE b == AddedTo(g, k, t)  r == rebuildExpirations(b)
  <1>1. /\ b \in GuardState /\ Consistent(b, t)
        /\ Len(b.order) <= Len(g.order) + 1
        /\ g.attempts[k] # <<>> => Len(b.order) <= Len(g.order)
    BY AddedConsistent
  <1>2. b.attempts = [g.attempts EXCEPT ![k] = Added(g.attempts[k], t)]
    BY DEF AddedTo
  <1>3. Len(b.order) <= MaxKeys
    <2>1. Len(b.order) \in Nat /\ Len(g.order) \in Nat
      BY <1>1, GuardFields
    <2> HIDE DEF b
    <2> QED BY <1>1, <2>1, RoomForKeys
  <1>4. Add(g, k, t) = IF Len(b.heap) > MaxKeys * HeapFactor THEN [b EXCEPT !.heap = r] ELSE b
    <2>1. b = [g EXCEPT !.attempts = [@ EXCEPT ![k] = Added(g.attempts[k], t)],
                        !.order = Place(@, k),
                        !.heap = heapPush(@, Expiration(k, Added(g.attempts[k], t)))]
      <3>1. ASSUME NEW a \in [Keys -> Seq(Nat)], NEW o \in Seq(Keys), NEW h \in Seq(Entry)
            PROVE  [g EXCEPT !.attempts = a, !.order = o, !.heap = h] =
                     [attempts |-> a, order |-> o, heap |-> h]
        <4> DEFINE e == [g EXCEPT !.attempts = a, !.order = o, !.heap = h]
        <4>1. e \in GuardState /\ e.attempts = a /\ e.order = o /\ e.heap = h
          BY DEF GuardState
        <4> HIDE DEF e
        <4>2. e = [attempts |-> e.attempts, order |-> e.order, heap |-> e.heap]
          BY <4>1 DEF GuardState
        <4> QED BY <4>1, <4>2 DEF e
      <3>2. b.attempts \in [Keys -> Seq(Nat)] /\ b.order \in Seq(Keys) /\ b.heap \in Seq(Entry)
        BY <1>1, GuardFields
      <3> QED BY <3>1, <3>2 DEF AddedTo
    <2> HIDE DEF b
    <2> QED BY <2>1 DEF Add, Added
  <1>5. r \in Seq(Entry) /\ Len(r) = Len(b.order) /\ HeapPart(b.attempts, r)
    BY <1>1, RebuildFacts DEF Consistent
  <1>6. Len(b.heap) \in Nat /\ Len(b.order) \in Nat
    BY <1>1, GuardFields
  <1> HIDE DEF b, r
  <1>7. CASE Len(b.heap) > MaxKeys * HeapFactor
    <2> DEFINE c == [b EXCEPT !.heap = r]
    <2>1. c \in GuardState /\ c.attempts = b.attempts /\ c.order = b.order /\ c.heap = r
      BY <1>1, <1>5 DEF GuardState
    <2>2. Add(g, k, t) = c
      BY <1>4, <1>7
    <2> HIDE DEF c
    <2>3. Consistent(c, t)
      BY <1>1, <1>5, <2>1 DEF Consistent
    <2>4. Len(r) <= MaxKeys * HeapFactor
      BY <1>3, <1>5, <1>6, RoomForKeys
    <2> QED BY <1>2, <1>3, <2>1, <2>2, <2>3, <2>4
  <1>8. CASE ~(Len(b.heap) > MaxKeys * HeapFactor)
    <2>1. Len(b.heap) <= MaxKeys * HeapFactor
      BY <1>6, <1>8, RoomForKeys
    <2>2. Add(g, k, t) = b
      BY <1>4, <1>8
    <2> QED BY <1>1, <1>2, <1>3, <2>1, <2>2
  <1> QED BY <1>7, <1>8

\* Making room: only the first key of a full map is forgotten, and only for a
\* key that is not in it.
LEMMA CapacityFacts ==
  ASSUME NEW g \in GuardState, NEW t, Consistent(g, t), NEW k \in Keys, Len(g.order) <= MaxKeys
  PROVE  LET c == ensureCapacity(g, k) IN
         /\ c \in GuardState /\ Consistent(c, t)
         /\ Len(c.order) <= MaxKeys /\ (c.attempts[k] = <<>> => Len(c.order) < MaxKeys)
         /\ k \notin Victims(g, k)
         /\ \A j \in Keys : c.attempts[j] = IF j \in Victims(g, k) THEN <<>> ELSE g.attempts[j]
  <1> DEFINE c == ensureCapacity(g, k)  V == Victims(g, k)
  <1>1. /\ g.attempts \in [Keys -> Seq(Nat)] /\ g.order \in Seq(Keys) /\ Len(g.order) \in Nat
    BY GuardFields
  <1>2. CASE V = {}
    <2>1. c = g
      BY <1>2 DEF ensureCapacity
    <2>2. g.attempts[k] = <<>> => Len(g.order) < MaxKeys
      BY <1>2 DEF Victims
    <2> QED BY <1>2, <2>1, <2>2
  <1>3. CASE V # {}
    <2> DEFINE x == Head(g.order)
    <2>1. g.attempts[k] = <<>> /\ ~(Len(g.order) < MaxKeys) /\ V = {x}
      BY <1>3 DEF Victims
    <2>2. Len(g.order) = MaxKeys /\ 1 \in 1..Len(g.order)
      BY <1>1, <2>1, RoomForKeys
    <2>3. x = g.order[1] /\ x \in Keys
      BY <1>1, <2>2
    <2>4. c = Forget(g, x)
      BY <1>3 DEF ensureCapacity
    <2> HIDE DEF x, V
    <2>5. x \in ToSet(g.order)
      BY <1>1, <2>2, <2>3, InOrder
    <2>6. x # k
      <3>1. g.attempts[x] # <<>>
        BY <2>5 DEF Consistent, OrderPart
      <3> QED BY <2>1, <3>1
    <2>7. /\ c \in GuardState /\ c.attempts = [g.attempts EXCEPT ![x] = <<>>]
          /\ Len(c.order) < Len(g.order)
      <3>1. g \in GuardState
        OBVIOUS
      <3>2. x \in Keys
        BY <2>3
      <3>3. /\ Forget(g, x) \in GuardState
            /\ Forget(g, x).attempts = [g.attempts EXCEPT ![x] = <<>>]
            /\ x \in ToSet(g.order) => Len(Forget(g, x).order) < Len(g.order)
        BY ONLY <3>1, <3>2, ForgetFacts
      <3> QED BY ONLY <2>4, <2>5, <3>3
    <2>8. Consistent(c, t)
      BY <2>3, <2>4, ForgetConsistent
    <2> HIDE DEF c
    <2>9. \A j \in Keys : c.attempts[j] = IF j \in V THEN <<>> ELSE g.attempts[j]
      BY <1>1, <2>1, <2>7
    <2>10. Len(c.order) < MaxKeys /\ Len(c.order) <= MaxKeys
      <3>1. Len(c.order) \in Nat
        BY <2>7, GuardFields
      <3> QED BY <2>2, <2>7, <3>1, RoomForKeys
    <2>11. k \notin V
      BY <2>1, <2>6
    <2> QED BY <2>7, <2>8, <2>9, <2>10, <2>11 DEF c, V
  <1> QED BY <1>2, <1>3

-----------------------------------------------------------------------------
(* The inductive invariant                                                 *)

\* The plain window: its failures are in order, have happened and are within it.
LogPart(l, t) ==
  /\ Ascending(l)
  /\ \A i \in 1..Len(l) : l[i] <= t /\ l[i] + Window > t

\* How many failures of the window the guard needs.
Needed(l) == IF Len(l) <= MaxFailures THEN Len(l) ELSE MaxFailures

\* The guard's times end with the latest failures of the window, as many as it
\* needs; what precedes them has expired.
Remembers(a, l, t) ==
  /\ Needed(l) <= Len(a)
  /\ \A i \in 0..(Needed(l) - 1) : a[Len(a) - i] = l[Len(l) - i]
  /\ \A j \in 1..(Len(a) - Needed(l)) : a[j] + Window <= t

GuardInv ==
  /\ guard \in GuardState
  /\ Consistent(guard, now)
  /\ Len(guard.order) <= MaxKeys
  /\ Len(guard.heap) <= MaxKeys * HeapFactor
  /\ \A k \in Keys : Len(guard.attempts[k]) <= MaxFailures

WindowInv ==
  \A k \in Keys :
    /\ LogPart(log[k], now)
    /\ Remembers(guard.attempts[k], log[k], now)
    /\ Len(log[k]) + running[k] < MaxFailures + MaxInFlight

\* What every step keeps: the types, the guard's structure, and that what it
\* remembers of each key agrees with the plain window.
Inv ==
  /\ now \in 0..Horizon
  /\ running \in [Keys -> 0..MaxInFlight]
  /\ log \in [Keys -> Seq(Nat)]
  /\ GuardInv
  /\ WindowInv

\* The needed failures are as many as the limit exactly when those of the window are.
LEMMA NeededFacts ==
  ASSUME NEW l \in Seq(Nat)
  PROVE  /\ Len(l) \in Nat /\ Needed(l) \in Nat /\ Needed(l) <= Len(l) /\ Needed(l) <= MaxFailures
         /\ MaxFailures \in Nat /\ MaxFailures >= 1
         /\ Needed(l) = Len(l) \/ Needed(l) = MaxFailures
         /\ Needed(l) >= MaxFailures <=> Len(l) >= MaxFailures
  <1>1. Len(l) \in Nat /\ MaxFailures \in Nat /\ MaxFailures >= 1
    BY OptionsAssumption
  <1> QED BY <1>1 DEF Needed

\* Dropping expired times drops none that the guard needs, and where it has
\* dropped all of them what it needs is left.
LEMMA RemembersPruned ==
  ASSUME NEW a \in Seq(Nat), NEW b \in Seq(Nat), NEW l \in Seq(Nat), NEW t \in Nat,
         LogPart(l, t), Remembers(a, l, t), DropsExpired(b, a, t)
  PROVE  /\ Remembers(b, l, t)
         /\ (\A i \in 1..Len(b) : b[i] + Window > t) => Len(b) = Needed(l)
  <1> DEFINE n == Needed(l)  d == Len(a) - Len(b)
  <1>1. n \in Nat /\ Len(l) \in Nat /\ n <= Len(l) /\ Len(a) \in Nat /\ Len(b) \in Nat /\ Window \in Nat
    BY NeededFacts, OptionsAssumption
  <1>2. /\ n <= Len(a)
        /\ \A i \in 0..(n - 1) : a[Len(a) - i] = l[Len(l) - i]
        /\ \A j \in 1..(Len(a) - n) : a[j] + Window <= t
    BY DEF Remembers
  <1>3. /\ Len(b) <= Len(a)
        /\ \A i \in 1..Len(b) : b[i] = a[d + i]
        /\ \A j \in 1..d : a[j] + Window <= t
    BY DEF DropsExpired
  <1>4. d \in Nat /\ d + Len(b) = Len(a)
    BY <1>1, <1>3
  <1> HIDE DEF n, d
  <1>5. n <= Len(b)
    <2> SUFFICES ASSUME ~(n <= Len(b)) PROVE FALSE
      OBVIOUS
    <2>1. /\ n - 1 \in 0..(n - 1) /\ Len(l) - (n - 1) \in 1..Len(l)
          /\ Len(a) - (n - 1) \in 1..d
      BY <1>1, <1>2, <1>4
    <2>2. a[Len(a) - (n - 1)] = l[Len(l) - (n - 1)]
      BY <1>2, <2>1
    <2>3. l[Len(l) - (n - 1)] + Window > t /\ l[Len(l) - (n - 1)] \in Nat
      BY <2>1 DEF LogPart
    <2>4. a[Len(a) - (n - 1)] + Window <= t
      BY <1>3, <2>1
    <2> QED BY <1>1, <2>2, <2>3, <2>4
  <1>6. ASSUME NEW i \in 0..(n - 1) PROVE b[Len(b) - i] = l[Len(l) - i]
    <2>1. Len(b) - i \in 1..Len(b) /\ d + (Len(b) - i) = Len(a) - i
      BY <1>1, <1>4, <1>5
    <2> QED BY <1>2, <1>3, <2>1
  <1>7. ASSUME NEW j \in 1..(Len(b) - n) PROVE b[j] + Window <= t
    <2>1. j \in 1..Len(b) /\ d + j \in 1..(Len(a) - n)
      BY <1>1, <1>4, <1>5
    <2> QED BY <1>2, <1>3, <2>1
  <1>8. ASSUME \A i \in 1..Len(b) : b[i] + Window > t PROVE Len(b) = n
    <2> SUFFICES ASSUME Len(b) # n PROVE FALSE
      OBVIOUS
    <2>1. 1 \in 1..(Len(b) - n) /\ 1 \in 1..Len(b)
      BY <1>1, <1>5
    <2>2. b[1] \in Nat
      BY <2>1
    <2> QED BY <1>1, <1>7, <1>8, <2>1, <2>2
  <1> QED BY <1>5, <1>6, <1>7, <1>8 DEF Remembers, n

\* A failure added to both.
LEMMA RemembersAdded ==
  ASSUME NEW a \in Seq(Nat), NEW l \in Seq(Nat), NEW t \in Nat,
         Remembers(a, l, t), Len(a) = Needed(l)
  PROVE  Remembers(Added(a, t), Append(l, t), t) /\ Len(Added(a, t)) <= MaxFailures
  <1> DEFINE b == Added(a, t)  m == Append(l, t)  d == Len(a) + 1 - Len(b)
  <1>1. /\ Len(l) \in Nat /\ Needed(l) \in Nat /\ Needed(l) <= Len(l) /\ Needed(l) <= MaxFailures
        /\ MaxFailures \in Nat /\ MaxFailures >= 1
        /\ Needed(l) >= MaxFailures <=> Len(l) >= MaxFailures
        /\ Needed(l) = Len(l) \/ Needed(l) = MaxFailures
    BY NeededFacts
  <1>2. /\ b \in Seq(Nat)
        /\ Len(b) = IF Len(a) + 1 <= MaxFailures THEN Len(a) + 1 ELSE MaxFailures
        /\ \A i \in 1..(Len(b) - 1) : b[i] = a[d + i] /\ d + i \in 1..Len(a)
        /\ b[Len(b)] = t
    BY AddedFacts
  <1>3. /\ m \in Seq(Nat) /\ Len(m) = Len(l) + 1 /\ m[Len(l) + 1] = t
        /\ \A i \in 1..Len(l) : m[i] = l[i]
    OBVIOUS
  <1> HIDE DEF b, m
  <1>4. Needed(m) = IF Len(l) + 1 <= MaxFailures THEN Len(l) + 1 ELSE MaxFailures
    BY <1>3 DEF Needed
  <1>5. /\ Len(b) = Needed(m) /\ Len(b) \in Nat /\ Len(b) >= 1 /\ Len(b) <= Len(a) + 1
        /\ Len(b) <= MaxFailures
    BY <1>1, <1>2, <1>4
  <1>6. d + Len(b) = Len(a) + 1 /\ d \in Nat /\ Len(a) \in Nat
    BY <1>1, <1>5
  <1> HIDE DEF d
  <1>7. ASSUME NEW i \in 0..(Needed(m) - 1) PROVE b[Len(b) - i] = m[Len(m) - i]
    <2>1. CASE i = 0
      <3>1. Len(b) - i = Len(b) /\ Len(m) - i = Len(l) + 1
        BY <1>1, <1>3, <1>5, <2>1
      <3> QED BY <1>2, <1>3, <3>1
    <2>2. CASE i # 0
      <3>0. i \in Nat /\ i >= 1 /\ i <= Len(b) - 1 /\ i - 1 <= Len(a) - 1
        BY <1>5, <1>6, <2>2
      <3>1. i - 1 \in 0..(Needed(l) - 1) /\ Len(b) - i \in 1..(Len(b) - 1)
        <4>1. i - 1 \in 0..(Len(a) - 1)
          BY <1>6, <3>0
        <4>2. Len(b) - i \in 1..(Len(b) - 1)
          BY <1>5, <3>0
        <4> QED BY <4>1, <4>2
      <3>2. d + (Len(b) - i) = Len(a) - (i - 1) /\ Len(m) - i = Len(l) - (i - 1)
        <4>0. Len(b) \in Int /\ Len(a) \in Int /\ i \in Int
          BY <1>5, <1>6, <3>0
        <4>1. d + (Len(b) - i) = Len(a) - (i - 1)
          BY <4>0 DEF d
        <4>2. Len(m) - i = Len(l) - (i - 1)
          BY <1>1, <1>3, <3>0
        <4> QED BY <4>1, <4>2
      <3>3. Len(l) - (i - 1) \in 1..Len(l)
        BY <1>1, <3>1
      <3>4. a[Len(a) - (i - 1)] = l[Len(l) - (i - 1)]
        BY <3>1 DEF Remembers
      <3>5. b[Len(b) - i] = a[Len(a) - (i - 1)]
        BY <1>2, <3>1, <3>2
      <3> QED BY <1>3, <3>2, <3>3, <3>4, <3>5
    <2> QED BY <2>1, <2>2
  <1>8. \A j \in 1..(Len(b) - Needed(m)) : b[j] + Window <= t
    <2>1. Len(b) - Needed(m) = 0
      BY <1>5
    <2> QED BY <2>1
  <1>9. Needed(m) <= Len(b)
    BY <1>5
  <1>10. Remembers(b, m, t)
    BY <1>7, <1>8, <1>9 DEF Remembers
  <1> QED BY <1>5, <1>10 DEF b, m

\* Nothing is needed for a window without failures.
LEMMA RemembersNothing ==
  ASSUME NEW t
  PROVE  Remembers(<<>>, <<>>, t) /\ LogPart(<<>>, t)
  <1>1. Needed(<<>>) = 0
    BY OptionsAssumption DEF Needed
  <1> QED BY <1>1 DEF Remembers, LogPart, Ascending

\* The window slides.
LEMMA RemembersTick ==
  ASSUME NEW a \in Seq(Nat), NEW l \in Seq(Nat), NEW t \in Nat, LogPart(l, t), Remembers(a, l, t)
  PROVE  /\ Remembers(a, Recent(l, t + 1), t + 1) /\ LogPart(Recent(l, t + 1), t + 1)
         /\ Recent(l, t + 1) \in Seq(Nat) /\ Len(Recent(l, t + 1)) <= Len(l)
  <1> DEFINE m == Recent(l, t + 1)  e == Len(l) - Len(m)  n == Needed(l)  w == Needed(m)
  <1>1. t + 1 \in Nat
    OBVIOUS
  <1>2. /\ m \in Seq(Nat) /\ \A i \in 1..Len(m) : m[i] + Window > t + 1
        /\ DropsExpired(m, l, t + 1)
    BY <1>1, RecentFacts DEF LogPart
  <1> HIDE DEF m
  <1>3. /\ Len(m) <= Len(l)
        /\ \A i \in 1..Len(m) : m[i] = l[e + i]
        /\ \A j \in 1..e : l[j] + Window <= t + 1
    BY <1>2 DEF DropsExpired
  <1>4. /\ Len(l) \in Nat /\ n \in Nat /\ n <= Len(l) /\ n <= MaxFailures
        /\ Len(m) \in Nat /\ w \in Nat /\ w <= Len(m)
        /\ w = Len(m) \/ w = MaxFailures
        /\ n = Len(l) \/ n = MaxFailures
        /\ MaxFailures \in Nat
    BY <1>2, NeededFacts
  <1>5. e \in Nat /\ e + Len(m) = Len(l) /\ Len(a) \in Nat
    BY <1>3, <1>4
  <1>6. /\ n <= Len(a)
        /\ \A i \in 0..(n - 1) : a[Len(a) - i] = l[Len(l) - i]
        /\ \A j \in 1..(Len(a) - n) : a[j] + Window <= t
    BY DEF Remembers
  <1>7. w <= n
    <2>1. w <= MaxFailures
      BY <1>2, NeededFacts
    <2> QED BY <1>3, <1>4, <2>1
  <1>8. LogPart(m, t + 1)
    <2>1. Ascending(l) /\ \A i \in 1..Len(l) : l[i] <= t
      BY DEF LogPart
    <2>2. Ascending(m) /\ \A i \in 1..Len(m) : m[i] <= t
      BY <1>2, <2>1, DropsFacts
    <2>3. \A i \in 1..Len(m) : m[i] \in Nat
      BY <1>2
    <2>4. \A i \in 1..Len(m) : m[i] <= t + 1
      BY <2>2, <2>3
    <2> QED BY <1>2, <2>2, <2>4 DEF LogPart
  <1> HIDE DEF e, n, w
  <1>9. ASSUME NEW i \in 0..(w - 1) PROVE a[Len(a) - i] = m[Len(m) - i]
    <2>1. i \in 0..(n - 1) /\ Len(m) - i \in 1..Len(m) /\ e + (Len(m) - i) = Len(l) - i
      BY <1>4, <1>5, <1>7
    <2> QED BY <1>3, <1>6, <2>1
  <1>10. ASSUME NEW j \in 1..(Len(a) - w) PROVE a[j] + Window <= t + 1
    <2>0. j \in 1..Len(a)
      BY <1>4, <1>5
    <2>1. a[j] \in Nat /\ Window \in Nat
      BY <2>0, OptionsAssumption
    <2>2. CASE j <= Len(a) - n
      <3>1. j \in 1..(Len(a) - n)
        BY <1>4, <1>5, <2>2
      <3>2. a[j] + Window <= t
        BY <1>6, <3>1
      <3> QED BY <2>1, <3>2
    <2>3. CASE ~(j <= Len(a) - n)
      <3> DEFINE i == Len(a) - j
      <3>0. /\ j \in Nat /\ j >= 1 /\ j <= Len(a) - w /\ j > Len(a) - n
            /\ n \in Nat /\ w \in Nat /\ Len(a) \in Nat /\ Len(l) \in Nat /\ Len(m) \in Nat
            /\ n <= Len(a) /\ n <= Len(l) /\ n <= MaxFailures /\ MaxFailures \in Nat
            /\ w = Len(m) \/ w = MaxFailures
            /\ e \in Nat /\ e + Len(m) = Len(l)
        BY <1>4, <1>5, <1>6, <2>0, <2>3
      <3>1. i \in w..(n - 1) /\ i \in 0..(n - 1) /\ Len(a) - i = j
        <4>1. i \in Int /\ i + j = Len(a)
          BY ONLY <3>0
        <4> HIDE DEF i
        <4>2. /\ j \in Int /\ Len(a) \in Int /\ n \in Nat /\ w \in Nat
              /\ j <= Len(a) - w /\ j > Len(a) - n
          BY ONLY <3>0
        <4>3. i >= w /\ Len(a) - i = j
          BY ONLY <4>1, <4>2
        <4>4. i <= n - 1
          BY ONLY <4>1, <4>2
        <4> QED BY ONLY <4>1, <4>2, <4>3, <4>4
      <3>2. w = Len(m)
        BY ONLY <3>0, <3>1
      <3>3. Len(l) - i \in 1..e
        <4>1. i \in Nat /\ i >= Len(m) /\ i <= n - 1
          BY ONLY <3>0, <3>1, <3>2
        <4> HIDE DEF i
        <4> QED BY ONLY <3>0, <4>1
      <3>4. a[j] = l[Len(l) - i]
        BY <1>6, <3>1
      <3> QED BY <1>3, <3>3, <3>4
    <2> QED BY <2>2, <2>3
  <1>11. Remembers(a, m, t + 1)
    BY <1>4, <1>6, <1>7, <1>9, <1>10 DEF Remembers, w
  <1> QED BY <1>2, <1>3, <1>8, <1>11 DEF m

\* A failure now is in the window.
LEMMA LogAdded ==
  ASSUME NEW l \in Seq(Nat), NEW t \in Nat, LogPart(l, t)
  PROVE  LogPart(Append(l, t), t) /\ Append(l, t) \in Seq(Nat) /\ Len(Append(l, t)) = Len(l) + 1
  <1> DEFINE m == Append(l, t)
  <1>1. /\ m \in Seq(Nat) /\ Len(m) = Len(l) + 1 /\ m[Len(l) + 1] = t
        /\ \A i \in 1..Len(l) : m[i] = l[i]
    OBVIOUS
  <1>2. Len(l) \in Nat /\ t + Window > t
    BY OptionsAssumption
  <1> HIDE DEF m
  <1>3. \A i \in 1..Len(m) : i = Len(l) + 1 \/ i \in 1..Len(l)
    BY <1>1, <1>2
  <1>4. \A i \in 1..Len(m) : m[i] <= t /\ m[i] + Window > t
    <2> TAKE i \in 1..Len(m)
    <2>1. CASE i = Len(l) + 1
      BY <1>1, <1>2, <2>1
    <2>2. CASE i # Len(l) + 1
      <3>1. i \in 1..Len(l) /\ m[i] = l[i]
        BY <1>1, <1>3, <2>2
      <3> QED BY <3>1 DEF LogPart
    <2> QED BY <2>1, <2>2
  <1>5. Ascending(m)
    <2> SUFFICES ASSUME NEW i \in 1..Len(m), NEW j \in 1..Len(m), i < j PROVE m[i] <= m[j]
      BY DEF Ascending
    <2>1. i \in 1..Len(l)
      BY <1>1, <1>2
    <2>2. CASE j = Len(l) + 1
      BY <1>1, <1>4, <2>2
    <2>3. CASE j # Len(l) + 1
      <3>1. j \in 1..Len(l)
        BY <1>3, <2>3
      <3> QED BY <1>1, <2>1, <3>1 DEF LogPart, Ascending
    <2> QED BY <2>2, <2>3
  <1> QED BY <1>1, <1>4, <1>5 DEF LogPart, m

-----------------------------------------------------------------------------
(* The steps                                                               *)

\* What the invariant says of the fields and of each key.
LEMMA InvFacts ==
  ASSUME Inv
  PROVE  /\ now \in Nat /\ now <= Horizon /\ Horizon \in Nat
         /\ guard \in GuardState /\ Consistent(guard, now)
         /\ guard.attempts \in [Keys -> Seq(Nat)]
         /\ \A k \in Keys : /\ guard.attempts[k] \in Seq(Nat) /\ log[k] \in Seq(Nat)
                            /\ Len(guard.attempts[k]) <= MaxFailures
                            /\ LogPart(log[k], now) /\ Remembers(guard.attempts[k], log[k], now)
                            /\ running[k] \in 0..MaxInFlight
                            /\ Len(log[k]) + running[k] < MaxFailures + MaxInFlight
  <1>1. now \in Nat /\ now <= Horizon /\ Horizon \in Nat
    BY OptionsAssumption DEF Inv
  <1>2. guard \in GuardState
    BY DEF Inv, GuardInv
  <1>3. guard.attempts \in [Keys -> Seq(Nat)] /\ \A k \in Keys : guard.attempts[k] \in Seq(Nat)
    BY <1>2, GuardFields
  <1> QED BY <1>1, <1>2, <1>3 DEF Inv, GuardInv, WindowInv

\* What an operation sees once it has pruned.
LEMMA ReadFacts ==
  ASSUME Inv
  PROVE  LET r == Read(guard, now) IN
         /\ r \in GuardState /\ Consistent(r, now) /\ NoneDue(r, now)
         /\ Len(r.order) <= MaxKeys /\ Len(r.heap) <= MaxKeys * HeapFactor
         /\ \A k \in Keys : /\ r.attempts[k] \in Seq(Nat)
                            /\ Len(r.attempts[k]) = Needed(log[k])
                            /\ Len(r.attempts[k]) <= MaxFailures
                            /\ Remembers(r.attempts[k], log[k], now)
                            /\ \A i \in 1..Len(r.attempts[k]) : r.attempts[k][i] + Window > now
  <1> DEFINE r == Read(guard, now)
  <1>1. now \in Nat /\ guard \in GuardState /\ Consistent(guard, now)
    BY InvFacts
  <1>2. r \in GuardState /\ PrunedFrom(r, guard, now) /\ NoneDue(r, now)
    BY <1>1, ReadPrunes
  <1> HIDE DEF r
  <1>3. Consistent(r, now) /\ Len(r.order) <= Len(guard.order) /\ Len(r.heap) <= Len(guard.heap)
    BY <1>2 DEF PrunedFrom
  <1>4. /\ Len(r.order) \in Nat /\ Len(r.heap) \in Nat
        /\ Len(guard.order) \in Nat /\ Len(guard.heap) \in Nat
        /\ \A k \in Keys : r.attempts[k] \in Seq(Nat)
    BY <1>1, <1>2, GuardFields
  <1>5. Len(guard.order) <= MaxKeys /\ Len(guard.heap) <= MaxKeys * HeapFactor
    BY DEF Inv, GuardInv
  <1>6. Len(r.order) <= MaxKeys
    BY <1>3, <1>4, <1>5, RoomForKeys
  <1>7. Len(r.heap) <= MaxKeys * HeapFactor
    <2>1. MaxKeys * HeapFactor \in Nat
      BY RoomForKeys
    <2> DEFINE m == MaxKeys * HeapFactor
    <2> HIDE DEF m
    <2>2. Len(guard.heap) <= m /\ m \in Nat
      BY <1>5, <2>1 DEF m
    <2>3. Len(r.heap) <= m
      BY <1>3, <1>4, <2>2
    <2> QED BY <2>3 DEF m
  <1>8. ASSUME NEW k \in Keys
        PROVE  /\ \A i \in 1..Len(r.attempts[k]) : r.attempts[k][i] + Window > now
               /\ Remembers(r.attempts[k], log[k], now)
               /\ Len(r.attempts[k]) = Needed(log[k])
               /\ Len(r.attempts[k]) <= MaxFailures
    <2>1. \A i \in 1..Len(r.attempts[k]) : r.attempts[k][i] + Window > now
      BY <1>1, <1>2, <1>3, WithinWindow
    <2>2. /\ guard.attempts[k] \in Seq(Nat) /\ log[k] \in Seq(Nat)
          /\ LogPart(log[k], now) /\ Remembers(guard.attempts[k], log[k], now)
      BY InvFacts
    <2>3. DropsExpired(r.attempts[k], guard.attempts[k], now)
      BY <1>2 DEF PrunedFrom
    <2>4. r.attempts[k] \in Seq(Nat)
      BY <1>4
    <2>5. Remembers(r.attempts[k], log[k], now) /\ Len(r.attempts[k]) = Needed(log[k])
      <3> DEFINE a == guard.attempts[k]  b == r.attempts[k]  l == log[k]
      <3>1. /\ a \in Seq(Nat) /\ b \in Seq(Nat) /\ l \in Seq(Nat) /\ now \in Nat
            /\ LogPart(l, now) /\ Remembers(a, l, now) /\ DropsExpired(b, a, now)
            /\ \A i \in 1..Len(b) : b[i] + Window > now
        BY <1>1, <2>1, <2>2, <2>3, <2>4
      <3> HIDE DEF a, b, l
      <3>2. Remembers(b, l, now) /\ Len(b) = Needed(l)
        BY ONLY <3>1, RemembersPruned
      <3> QED BY <3>2 DEF b, l
    <2> QED BY <2>1, <2>2, <2>5, NeededFacts
  <1> QED BY <1>2, <1>3, <1>4, <1>6, <1>7, <1>8 DEF r

\* The invariant holds of a guard that has seen nothing.
LEMMA InitInv == Init => Inv
  <1> SUFFICES ASSUME Init PROVE Inv
    OBVIOUS
  <1>1. /\ now = 0 /\ guard = Fresh /\ running = [k \in Keys |-> 0] /\ log = [k \in Keys |-> <<>>]
    BY DEF Init
  <1>2. /\ guard \in GuardState /\ guard.order = <<>> /\ guard.heap = <<>>
        /\ guard.attempts = [k \in Keys |-> <<>>]
    BY <1>1 DEF Fresh, GuardState
  <1>3. \A k \in Keys : guard.attempts[k] = <<>> /\ log[k] = <<>> /\ running[k] = 0
    BY <1>1, <1>2
  <1>4. HeapPart(guard.attempts, guard.heap)
    BY <1>2, <1>3 DEF HeapPart, Ordered
  <1>5. TimesPart(guard.attempts, now)
    BY <1>3 DEF TimesPart, Ascending
  <1>6. OrderPart(guard.attempts, guard.order)
    <2>1. ToSet(guard.order) = {}
      BY <1>2 DEF ToSet
    <2> QED BY <1>2, <1>3, <2>1 DEF OrderPart
  <1>7. \A k \in Keys : Len(guard.attempts[k]) <= MaxFailures
    BY <1>3, OptionsAssumption
  <1>8. Len(guard.order) <= MaxKeys /\ Len(guard.heap) <= MaxKeys * HeapFactor
    <2>1. 0 <= MaxKeys /\ 0 <= MaxKeys * HeapFactor
      BY RoomForKeys
    <2> QED BY <1>2, <2>1
  <1>9. GuardInv
    BY <1>2, <1>4, <1>5, <1>6, <1>7, <1>8 DEF GuardInv, Consistent
  <1>10. WindowInv
    <2>1. 0 < MaxFailures + MaxInFlight
      BY OptionsAssumption
    <2>2. Remembers(<<>>, <<>>, now) /\ LogPart(<<>>, now)
      BY RemembersNothing
    <2> QED BY <1>3, <2>1, <2>2 DEF WindowInv
  <1>11. now \in 0..Horizon /\ running \in [Keys -> 0..MaxInFlight] /\ log \in [Keys -> Seq(Nat)]
    BY <1>1, OptionsAssumption
  <1> QED BY <1>9, <1>10, <1>11 DEF Inv

\* An attempt is checked.
LEMMA BeforeInv ==
  ASSUME Inv, NEW k \in Keys, beforeAttempt(k)
  PROVE  Inv'
  <1> DEFINE r == Read(guard, now)
  <1>1. /\ guard' = r /\ now' = now /\ log' = log /\ running[k] < MaxInFlight
        /\ running' = [running EXCEPT ![k] = IF Denies(guard', k) THEN @ ELSE @ + 1]
    BY DEF beforeAttempt
  <1>2. /\ r \in GuardState /\ Consistent(r, now)
        /\ Len(r.order) <= MaxKeys /\ Len(r.heap) <= MaxKeys * HeapFactor
        /\ \A j \in Keys : /\ Len(r.attempts[j]) = Needed(log[j])
                           /\ Len(r.attempts[j]) <= MaxFailures
                           /\ Remembers(r.attempts[j], log[j], now)
    BY ReadFacts
  <1> HIDE DEF r
  <1>3. GuardInv'
    BY <1>1, <1>2 DEF GuardInv
  <1>4. /\ now \in 0..Horizon /\ running \in [Keys -> 0..MaxInFlight]
        /\ log \in [Keys -> Seq(Nat)] /\ MaxInFlight \in Nat
    BY OptionsAssumption DEF Inv
  <1>5. running' \in [Keys -> 0..MaxInFlight] /\ \A j \in Keys : j # k => running'[j] = running[j]
    <2>1. running[k] + 1 \in 0..MaxInFlight
      BY <1>1, <1>4
    <2> QED BY <1>1, <1>4, <2>1
  <1>6. ASSUME NEW j \in Keys PROVE Len(log[j]) + running'[j] < MaxFailures + MaxInFlight
    <2>1. Len(log[j]) + running[j] < MaxFailures + MaxInFlight
      BY InvFacts
    <2>2. CASE j # k \/ Denies(guard', k)
      <3>1. running'[j] = running[j]
        BY <1>1, <1>4, <1>5, <2>2
      <3> QED BY <2>1, <3>1
    <2>3. CASE j = k /\ ~Denies(guard', k)
      <3>1. running'[k] = running[k] + 1 /\ running[k] \in Nat
        BY <1>1, <1>4, <2>3
      <3>2. ~(Needed(log[k]) >= MaxFailures)
        BY <1>1, <1>2, <2>3 DEF Denies
      <3>3. Len(log[k]) \in Nat /\ MaxFailures \in Nat /\ Len(log[k]) < MaxFailures
        <4>1. log[k] \in Seq(Nat)
          BY InvFacts
        <4> QED BY <3>2, <4>1, NeededFacts
      <3> QED BY <1>1, <1>4, <2>3, <3>1, <3>3
    <2> QED BY <2>2, <2>3
  <1>7. \A j \in Keys : LogPart(log[j], now)
    BY InvFacts
  <1>8. WindowInv'
    BY <1>1, <1>2, <1>6, <1>7 DEF WindowInv
  <1> QED BY <1>1, <1>3, <1>4, <1>5, <1>8 DEF Inv

\* An attempt ends.
LEMMA EndsFacts ==
  ASSUME Inv, NEW k \in Keys, Ends(k)
  PROVE  /\ now' = now /\ running' \in [Keys -> 0..MaxInFlight]
         /\ running'[k] = running[k] - 1 /\ running[k] \in Nat
         /\ \A j \in Keys : running'[j] <= running[j] /\ running'[j] \in Nat /\ running[j] \in Nat
         /\ \A j \in Keys : j # k => running'[j] = running[j]
  <1>1. running \in [Keys -> 0..MaxInFlight] /\ MaxInFlight \in Nat
    BY OptionsAssumption DEF Inv
  <1>2. /\ now' = now /\ running[k] > 0 /\ running' = [running EXCEPT ![k] = @ - 1]
    BY DEF Ends
  <1>3. running[k] - 1 \in 0..MaxInFlight /\ running[k] - 1 <= running[k]
    BY <1>1, <1>2
  <1>4. running' \in [Keys -> 0..MaxInFlight]
    BY <1>1, <1>2, <1>3
  <1>5. running'[k] = running[k] - 1 /\ \A j \in Keys : j # k => running'[j] = running[j]
    BY <1>1, <1>2
  <1>6. \A j \in Keys : running'[j] \in Nat /\ running[j] \in Nat
    BY <1>1, <1>4
  <1>7. \A j \in Keys : running'[j] <= running[j]
    <2> TAKE j \in Keys
    <2>1. CASE j = k
      BY <1>3, <1>5, <2>1
    <2>2. CASE j # k
      BY <1>5, <1>6, <2>2
    <2> QED BY <2>1, <2>2
  <1> QED BY <1>2, <1>4, <1>5, <1>6, <1>7

\* A failure is counted.
LEMMA FailureInv ==
  ASSUME Inv, NEW k \in Keys, AfterFailure(k)
  PROVE  Inv'
  <1> DEFINE r == Read(guard, now)  c == ensureCapacity(r, k)  g == Add(c, k, now)
             V == Victims(r, k)
  <1>1. /\ Ends(k) /\ guard' = g
        /\ log' = [j \in Keys |-> IF j = k THEN Append(log[k], now)
                                  ELSE IF j \in V THEN <<>> ELSE log[j]]
    BY DEF AfterFailure
  <1>2. /\ now' = now /\ running' \in [Keys -> 0..MaxInFlight]
        /\ running'[k] = running[k] - 1 /\ running[k] \in Nat
        /\ \A j \in Keys : running'[j] <= running[j] /\ running'[j] \in Nat /\ running[j] \in Nat
    BY <1>1, EndsFacts
  <1>3. /\ r \in GuardState /\ Consistent(r, now) /\ Len(r.order) <= MaxKeys
        /\ \A j \in Keys : /\ r.attempts[j] \in Seq(Nat)
                           /\ Len(r.attempts[j]) = Needed(log[j])
                           /\ Len(r.attempts[j]) <= MaxFailures
                           /\ Remembers(r.attempts[j], log[j], now)
    BY ReadFacts
  <1> HIDE DEF r
  <1>4. /\ c \in GuardState /\ Consistent(c, now)
        /\ Len(c.order) <= MaxKeys /\ (c.attempts[k] = <<>> => Len(c.order) < MaxKeys)
        /\ k \notin V
        /\ \A j \in Keys : c.attempts[j] = IF j \in V THEN <<>> ELSE r.attempts[j]
    BY <1>3, CapacityFacts
  <1> HIDE DEF c, V
  <1>5. now \in Nat /\ now \in 0..Horizon
    BY InvFacts DEF Inv
  <1>6. /\ g \in GuardState /\ Consistent(g, now)
        /\ g.attempts = [c.attempts EXCEPT ![k] = Added(c.attempts[k], now)]
        /\ Len(g.order) <= MaxKeys /\ Len(g.heap) <= MaxKeys * HeapFactor
    BY <1>4, <1>5, AddFacts
  <1> HIDE DEF g
  <1>7. c.attempts \in [Keys -> Seq(Nat)]
    BY <1>4, GuardFields
  <1>8. g.attempts[k] = Added(r.attempts[k], now)
    BY <1>4, <1>6, <1>7
  <1>9. \A j \in Keys : j # k => g.attempts[j] = IF j \in V THEN <<>> ELSE r.attempts[j]
    BY <1>4, <1>6, <1>7
  <1>10. \A j \in Keys : /\ log[j] \in Seq(Nat) /\ LogPart(log[j], now)
                         /\ Len(log[j]) + running[j] < MaxFailures + MaxInFlight
    BY InvFacts
  <1>11. /\ Remembers(Added(r.attempts[k], now), Append(log[k], now), now)
         /\ Len(Added(r.attempts[k], now)) <= MaxFailures
    BY <1>3, <1>5, <1>10, RemembersAdded
  <1>12. /\ LogPart(Append(log[k], now), now) /\ Append(log[k], now) \in Seq(Nat)
         /\ Len(Append(log[k], now)) = Len(log[k]) + 1
    BY <1>5, <1>10, LogAdded
  <1>13. /\ log'[k] = Append(log[k], now)
         /\ \A j \in Keys : j # k => log'[j] = IF j \in V THEN <<>> ELSE log[j]
    BY <1>1
  <1>14. MaxFailures \in Nat /\ MaxFailures >= 1 /\ MaxInFlight \in Nat
    BY OptionsAssumption
  <1>15. ASSUME NEW j \in Keys
         PROVE  /\ Len(g.attempts[j]) <= MaxFailures
                /\ LogPart(log'[j], now) /\ Remembers(g.attempts[j], log'[j], now)
                /\ log'[j] \in Seq(Nat)
                /\ Len(log'[j]) + running'[j] < MaxFailures + MaxInFlight
    <2>1. CASE j = k
      <3>1. Len(log[k]) \in Nat /\ Len(log[k]) + running[k] < MaxFailures + MaxInFlight
        BY <1>10
      <3>2. Len(log'[k]) + running'[k] < MaxFailures + MaxInFlight
        BY <1>2, <1>12, <1>13, <1>14, <3>1
      <3> QED BY <1>8, <1>11, <1>12, <1>13, <2>1, <3>2
    <2>2. CASE j # k /\ j \in V
      <3>1. g.attempts[j] = <<>> /\ log'[j] = <<>>
        BY <1>9, <1>13, <2>2
      <3>2. Remembers(<<>>, <<>>, now) /\ LogPart(<<>>, now)
        BY RemembersNothing
      <3>3. Len(log[j]) \in Nat /\ Len(log[j]) + running[j] < MaxFailures + MaxInFlight
        BY <1>10
      <3>4. 0 + running'[j] < MaxFailures + MaxInFlight
        BY <1>2, <1>14, <3>3
      <3>5. Len(<<>>) = 0 /\ <<>> \in Seq(Nat)
        OBVIOUS
      <3> QED BY <1>14, <3>1, <3>2, <3>4, <3>5
    <2>3. CASE j # k /\ j \notin V
      <3>1. g.attempts[j] = r.attempts[j] /\ log'[j] = log[j]
        BY <1>9, <1>13, <2>3
      <3>2. Len(log[j]) \in Nat /\ Len(log[j]) + running[j] < MaxFailures + MaxInFlight
        BY <1>10
      <3>3. Len(log[j]) + running'[j] < MaxFailures + MaxInFlight
        BY <1>2, <1>14, <3>2
      <3> QED BY <1>3, <1>10, <3>1, <3>3
    <2> QED BY <2>1, <2>2, <2>3
  <1>16. GuardInv'
    BY <1>1, <1>2, <1>6, <1>15 DEF GuardInv
  <1>17. WindowInv'
    BY <1>1, <1>2, <1>15 DEF WindowInv
  <1>18. log' \in [Keys -> Seq(Nat)]
    <2>1. log' = [j \in Keys |-> log'[j]]
      BY <1>1
    <2> QED BY <1>15, <2>1
  <1> QED BY <1>2, <1>5, <1>16, <1>17, <1>18 DEF Inv

\* A success is recorded.
LEMMA SuccessInv ==
  ASSUME Inv, NEW k \in Keys, AfterSuccess(k)
  PROVE  Inv'
  <1> DEFINE g == Forget(guard, k)
  <1>1. Ends(k) /\ guard' = g /\ log' = [log EXCEPT ![k] = <<>>]
    BY DEF AfterSuccess
  <1>2. /\ now' = now /\ running' \in [Keys -> 0..MaxInFlight]
        /\ \A j \in Keys : running'[j] <= running[j] /\ running'[j] \in Nat /\ running[j] \in Nat
    BY <1>1, EndsFacts
  <1>3. guard \in GuardState /\ Consistent(guard, now) /\ guard.attempts \in [Keys -> Seq(Nat)]
    BY InvFacts
  <1>4. /\ g \in GuardState /\ g.attempts = [guard.attempts EXCEPT ![k] = <<>>]
        /\ g.heap = guard.heap /\ Len(g.order) <= Len(guard.order)
    BY <1>3, ForgetFacts
  <1>5. Consistent(g, now)
    BY <1>3, ForgetConsistent
  <1> HIDE DEF g
  <1>6. /\ log \in [Keys -> Seq(Nat)] /\ now \in 0..Horizon
        /\ Len(guard.order) <= MaxKeys /\ Len(guard.heap) <= MaxKeys * HeapFactor
    BY DEF Inv, GuardInv
  <1>7. Len(g.order) <= MaxKeys
    <2>1. Len(g.order) \in Nat /\ Len(guard.order) \in Nat
      BY <1>3, <1>4, GuardFields
    <2> QED BY <1>4, <1>6, <2>1, RoomForKeys
  <1>8. /\ g.attempts[k] = <<>> /\ log'[k] = <<>>
        /\ \A j \in Keys : j # k => g.attempts[j] = guard.attempts[j] /\ log'[j] = log[j]
    BY <1>1, <1>3, <1>4, <1>6
  <1>9. MaxFailures \in Nat /\ MaxInFlight \in Nat /\ Len(<<>>) = 0
    BY OptionsAssumption
  <1>10. ASSUME NEW j \in Keys
         PROVE  /\ Len(g.attempts[j]) <= MaxFailures
                /\ LogPart(log'[j], now) /\ Remembers(g.attempts[j], log'[j], now)
                /\ Len(log'[j]) + running'[j] < MaxFailures + MaxInFlight
    <2>1. /\ Len(log[j]) \in Nat /\ Len(log[j]) + running[j] < MaxFailures + MaxInFlight
          /\ LogPart(log[j], now) /\ Remembers(guard.attempts[j], log[j], now)
          /\ Len(guard.attempts[j]) <= MaxFailures
      BY InvFacts
    <2>2. CASE j = k
      <3>1. Remembers(<<>>, <<>>, now) /\ LogPart(<<>>, now)
        BY RemembersNothing
      <3>2. 0 + running'[j] < MaxFailures + MaxInFlight /\ 0 <= MaxFailures
        BY <1>2, <1>9, <2>1
      <3> QED BY <1>8, <1>9, <2>2, <3>1, <3>2
    <2>3. CASE j # k
      <3>1. Len(log[j]) + running'[j] < MaxFailures + MaxInFlight
        BY <1>2, <1>9, <2>1
      <3> QED BY <1>8, <2>1, <2>3, <3>1
    <2> QED BY <2>2, <2>3
  <1>11. GuardInv'
    BY <1>1, <1>2, <1>4, <1>5, <1>6, <1>7, <1>10 DEF GuardInv
  <1>12. WindowInv'
    BY <1>1, <1>2, <1>10 DEF WindowInv
  <1>13. log' \in [Keys -> Seq(Nat)]
    BY <1>1, <1>6
  <1> QED BY <1>2, <1>6, <1>11, <1>12, <1>13 DEF Inv

\* An attempt ends and does not count.
LEMMA UncountedInv ==
  ASSUME Inv, NEW k \in Keys, AfterUncounted(k)
  PROVE  Inv'
  <1>1. Ends(k) /\ guard' = guard /\ log' = log
    BY DEF AfterUncounted
  <1>2. /\ now' = now /\ running' \in [Keys -> 0..MaxInFlight]
        /\ \A j \in Keys : running'[j] <= running[j] /\ running'[j] \in Nat /\ running[j] \in Nat
    BY <1>1, EndsFacts
  <1>3. MaxFailures \in Nat /\ MaxInFlight \in Nat
    BY OptionsAssumption
  <1>4. ASSUME NEW j \in Keys
        PROVE  /\ LogPart(log[j], now) /\ Remembers(guard.attempts[j], log[j], now)
               /\ Len(log[j]) + running'[j] < MaxFailures + MaxInFlight
    <2>1. /\ Len(log[j]) \in Nat /\ Len(log[j]) + running[j] < MaxFailures + MaxInFlight
          /\ LogPart(log[j], now) /\ Remembers(guard.attempts[j], log[j], now)
      BY InvFacts
    <2>2. Len(log[j]) + running'[j] < MaxFailures + MaxInFlight
      BY <1>2, <1>3, <2>1
    <2> QED BY <2>1, <2>2
  <1>5. WindowInv'
    BY <1>1, <1>2, <1>4 DEF WindowInv
  <1>6. GuardInv'
    BY <1>1, <1>2 DEF Inv, GuardInv
  <1> QED BY <1>1, <1>2, <1>5, <1>6 DEF Inv

\* What is consistent stays so as time passes.
LEMMA ConsistentLater ==
  ASSUME NEW g \in GuardState, NEW t \in Nat, NEW u \in Nat, t <= u, Consistent(g, t)
  PROVE  Consistent(g, u)
  <1>1. TimesPart(g.attempts, u)
    <2> SUFFICES ASSUME NEW k \in Keys, NEW i \in 1..Len(g.attempts[k])
                 PROVE  g.attempts[k][i] <= u
      BY DEF Consistent, TimesPart
    <2>1. g.attempts[k] \in Seq(Nat)
      BY GuardFields
    <2>2. g.attempts[k][i] \in Nat /\ g.attempts[k][i] <= t
      BY <2>1 DEF Consistent, TimesPart
    <2> QED BY <2>2
  <1> QED BY <1>1 DEF Consistent

\* The clock ticks.
LEMMA TickInv ==
  ASSUME Inv, Tick
  PROVE  Inv'
  <1>1. /\ now < Horizon /\ now' = now + 1 /\ guard' = guard /\ running' = running
        /\ log' = [k \in Keys |-> Recent(log[k], now')]
    BY DEF Tick
  <1>2. now \in Nat /\ Horizon \in Nat /\ guard \in GuardState /\ Consistent(guard, now)
    BY InvFacts
  <1>3. now' \in Nat /\ now' \in 0..Horizon /\ now <= now'
    BY <1>1, <1>2
  <1>4. Consistent(guard, now')
    BY <1>2, <1>3, ConsistentLater
  <1>5. GuardInv'
    BY <1>1, <1>4 DEF Inv, GuardInv
  <1>6. ASSUME NEW k \in Keys
        PROVE  /\ Remembers(guard.attempts[k], log'[k], now') /\ LogPart(log'[k], now')
               /\ log'[k] \in Seq(Nat)
               /\ Len(log'[k]) + running[k] < MaxFailures + MaxInFlight
    <2>1. /\ guard.attempts[k] \in Seq(Nat) /\ log[k] \in Seq(Nat)
          /\ LogPart(log[k], now) /\ Remembers(guard.attempts[k], log[k], now)
          /\ Len(log[k]) + running[k] < MaxFailures + MaxInFlight
          /\ running[k] \in 0..MaxInFlight
      BY InvFacts
    <2>2. log'[k] = Recent(log[k], now + 1)
      BY <1>1
    <2>3. /\ Remembers(guard.attempts[k], log'[k], now + 1) /\ LogPart(log'[k], now + 1)
          /\ log'[k] \in Seq(Nat) /\ Len(log'[k]) <= Len(log[k])
      BY <1>2, <2>1, <2>2, RemembersTick
    <2>4. Len(log'[k]) \in Nat /\ Len(log[k]) \in Nat /\ running[k] \in Nat
      BY <2>1, <2>3
    <2>5. MaxFailures \in Nat /\ MaxInFlight \in Nat
      BY OptionsAssumption
    <2>6. Len(log'[k]) + running[k] < MaxFailures + MaxInFlight
      BY <2>1, <2>3, <2>4, <2>5
    <2> QED BY <1>1, <2>3, <2>6
  <1>7. WindowInv'
    BY <1>1, <1>6 DEF WindowInv
  <1>8. log' \in [Keys -> Seq(Nat)]
    <2>1. log' = [k \in Keys |-> log'[k]]
      BY <1>1
    <2> QED BY <1>6, <2>1
  <1> QED BY <1>1, <1>3, <1>5, <1>7, <1>8 DEF Inv

\* Every step keeps the invariant.
LEMMA NextInv ==
  ASSUME Inv, [Next]_vars
  PROVE  Inv'
  <1>1. ASSUME NEW k \in Keys, beforeAttempt(k) PROVE Inv'
    BY <1>1, BeforeInv
  <1>2. ASSUME NEW k \in Keys, AfterFailure(k) PROVE Inv'
    BY <1>2, FailureInv
  <1>3. ASSUME NEW k \in Keys, AfterUncounted(k) PROVE Inv'
    BY <1>3, UncountedInv
  <1>4. ASSUME NEW k \in Keys, AfterSuccess(k) PROVE Inv'
    BY <1>4, SuccessInv
  <1>5. ASSUME Tick PROVE Inv'
    BY <1>5, TickInv
  <1>6. ASSUME UNCHANGED vars PROVE Inv'
    <2>1. now' = now /\ guard' = guard /\ running' = running /\ log' = log
      BY <1>6 DEF vars
    <2>2. GuardInv'
      BY <2>1 DEF Inv, GuardInv
    <2>3. WindowInv'
      BY <2>1 DEF Inv, WindowInv
    <2> QED BY <2>1, <2>2, <2>3 DEF Inv
  <1> QED BY <1>1, <1>2, <1>3, <1>4, <1>5, <1>6 DEF Next

\* In every reachable state the heap, the map and the plain window agree.
THEOREM Invariance == Spec => []Inv
  <1>1. Init => Inv
    BY InitInv
  <1>2. Inv /\ [Next]_vars => Inv'
    BY NextInv
  <1> QED BY <1>1, <1>2, PTL DEF Spec

-----------------------------------------------------------------------------
(* What the guard promises                                                 *)

\* A sequence whose elements are in T is a sequence over T.
LEMMA Narrowed ==
  ASSUME NEW S, NEW T, NEW a \in Seq(S), \A i \in 1..Len(a) : a[i] \in T
  PROVE  a \in Seq(T)
  <1>1. Len(a) \in Nat /\ a = [i \in 1..Len(a) |-> a[i]]
    OBVIOUS
  <1>2. a \in [1..Len(a) -> T]
    BY <1>1
  <1> QED BY <1>1, <1>2

\* However many failures arrive, the map keeps within maxKeys, the heap within
\* its factor of that, and a key within maxFailures times.
THEOREM MemoryBounded == Spec => []TypeOK
  <1>1. ASSUME Inv PROVE TypeOK
    <2>1. /\ now \in 0..Horizon /\ running \in [Keys -> 0..MaxInFlight]
          /\ Len(guard.order) <= MaxKeys /\ Len(guard.heap) <= MaxKeys * HeapFactor
          /\ \A k \in Keys : Len(guard.attempts[k]) <= MaxFailures
      BY <1>1 DEF Inv, GuardInv
    <2>2. /\ guard \in GuardState /\ Consistent(guard, now)
          /\ now \in Nat /\ now <= Horizon /\ Horizon \in Nat
      BY <1>1, InvFacts
    <2>3. /\ guard.attempts \in [Keys -> Seq(Nat)] /\ guard.heap \in Seq(Entry)
          /\ \A k \in Keys : guard.attempts[k] \in Seq(Nat)
      BY <2>2, GuardFields
    <2>4. ASSUME NEW k \in Keys PROVE guard.attempts[k] \in Seq(0..Horizon)
      <3> DEFINE a == guard.attempts[k]
      <3>1. a \in Seq(Nat) /\ \A i \in 1..Len(a) : a[i] <= now
        BY <2>2, <2>3 DEF Consistent, TimesPart
      <3> HIDE DEF a
      <3>2. \A i \in 1..Len(a) : a[i] \in 0..Horizon
        <4> TAKE i \in 1..Len(a)
        <4>1. a[i] \in Nat /\ a[i] <= now
          BY <3>1
        <4> QED BY <2>2, <4>1
      <3>3. a \in Seq(0..Horizon)
        BY ONLY <3>1, <3>2, Narrowed
      <3> QED BY <3>3 DEF a
    <2>5. guard.attempts \in [Keys -> Seq(0..Horizon)]
      BY <2>3, <2>4
    <2>6. ToSet(guard.order) = {k \in Keys : guard.attempts[k] # <<>>}
      BY <2>2 DEF Consistent, OrderPart
    <2>7. \A i \in DOMAIN guard.heap : guard.heap[i].key \in Keys
      <3>1. \A i \in DOMAIN guard.heap : guard.heap[i] \in Entry
        BY <2>3
      <3> QED BY <3>1 DEF Entry
    <2> QED BY <2>1, <2>5, <2>6, <2>7 DEF TypeOK
  <1> QED BY <1>1, Invariance, PTL

\* The earliest expiration is at the root of the heap, and every tracked key has
\* its entry, whatever was reset, displaced or rebuilt.
THEOREM HeapIsSound == Spec => []HeapSound
  <1>1. ASSUME Inv PROVE HeapSound
    <2>1. /\ guard \in GuardState /\ Ordered(guard.heap)
          /\ \A k \in Keys : guard.attempts[k] # <<>> =>
               Expiration(k, guard.attempts[k]) \in ToSet(guard.heap)
          /\ ToSet(guard.order) = {k \in Keys : guard.attempts[k] # <<>>}
      BY <1>1, InvFacts DEF Consistent, HeapPart, OrderPart
    <2>2. guard.heap \in Seq(Entry)
      BY <2>1, GuardFields
    <2>3. ASSUME NEW i \in DOMAIN guard.heap \ {1}
          PROVE  guard.heap[i \div 2].expiresAt <= guard.heap[i].expiresAt
      <3>1. i \in 2..Len(guard.heap)
        BY <2>2
      <3> QED BY <2>1, <3>1 DEF Ordered
    <2> QED BY <2>1, <2>3 DEF HeapSound
  <1> QED BY <1>1, Invariance, PTL

\* The key that a full map gives up is the one that has been quiet for longest.
THEOREM QuietestEvicted == Spec => []EvictsQuietest
  <1>1. ASSUME Inv PROVE EvictsQuietest
    <2>1. guard.order \in Seq(Keys) /\ OrderPart(guard.attempts, guard.order)
      BY <1>1, InvFacts, GuardFields DEF Consistent
    <2>2. DOMAIN guard.order = 1..Len(guard.order)
      BY <2>1
    <2> QED BY <2>1, <2>2 DEF EvictsQuietest, OrderPart
  <1> QED BY <1>1, Invariance, PTL

\* The lazily pruned heap and map decide every attempt as the plain sliding window
\* does, and attempts in flight exceed the limit by no more than those beside them.
THEOREM DecidesAsWindow == Spec => []DecisionMatchesWindow
  <1>1. ASSUME Inv PROVE DecisionMatchesWindow
    <2> SUFFICES ASSUME NEW k \in Keys
                 PROVE  /\ Denies(Read(guard, now), k) <=> Len(log[k]) >= MaxFailures
                        /\ Len(log[k]) + running[k] < MaxFailures + MaxInFlight
      BY DEF DecisionMatchesWindow
    <2>1. log[k] \in Seq(Nat) /\ Len(log[k]) + running[k] < MaxFailures + MaxInFlight
      BY <1>1, InvFacts
    <2>2. Len(Read(guard, now).attempts[k]) = Needed(log[k])
      BY <1>1, ReadFacts
    <2>3. Needed(log[k]) >= MaxFailures <=> Len(log[k]) >= MaxFailures
      BY <2>1, NeededFacts
    <2> QED BY <2>1, <2>2, <2>3 DEF Denies
  <1> QED BY <1>1, Invariance, PTL

\* What \div answers.
LEMMA Quotient ==
  ASSUME NEW a \in Nat, NEW b \in Nat \ {0}
  PROVE  /\ a \div b \in Int /\ a % b \in 0..(b - 1)
         /\ a = b * (a \div b) + (a % b)
  OBVIOUS

\* What * answers.
LEMMA ProductIsNat == ASSUME NEW a \in Nat, NEW b \in Nat PROVE a * b \in Nat
  OBVIOUS

\* Rounded up, a wait is the least number of whole seconds that covers it.
LEMMA CeilFacts ==
  ASSUME NEW wait \in Nat \ {0}, NEW second \in Nat \ {0}
  PROVE  LET n == Max({1, Ceil(wait, second)})
         IN n \in Nat /\ n >= 1 /\ (n - 1) * second < wait /\ wait <= n * second
  <1> DEFINE c == Ceil(wait, second)
  <1>1. c \in Nat /\ c >= 1 /\ (c - 1) * second < wait /\ wait <= c * second
    <2> DEFINE w == wait + second - 1
    <2>1. w \in Nat /\ w >= second
      OBVIOUS
    <2>2. c = w \div second
      BY DEF Ceil
    <2> HIDE DEF w
    <2>3. /\ c \in Int /\ w = second * c + (w % second) /\ w % second \in 0..(second - 1)
      BY <2>1, <2>2, Quotient
    <2> HIDE DEF c
    <2>4. c * second = second * c /\ (c - 1) * second = c * second - second
      BY <2>3
    <2>5. c * second \in Int
      BY <2>3
    <2>6. wait <= c * second /\ c * second - second < wait
      BY <2>3, <2>4, <2>5 DEF w
    <2>7. c >= 1
      BY <2>3, <2>6
    <2> QED BY <2>3, <2>4, <2>6, <2>7
  <1> HIDE DEF c
  <1>2. Max({1, c}) = c
    BY <1>1 DEF Max
  <1> QED BY <1>1, <1>2 DEF c

\* A denied attempt that waits as many seconds as it is told is allowed, and one
\* second less would not do.
THEOREM WaitIsExact == Spec => []RetryAfterExact
  <1>1. ASSUME Inv PROVE RetryAfterExact
    <2> SUFFICES ASSUME NEW k \in Keys, Denies(Read(guard, now), k)
                 PROVE  LET g == Read(guard, now)
                            seconds == RetryAfter(g, k, now)
                        IN /\ seconds >= 1
                           /\ Denies(Read(g, now + (seconds - 1) * Second), k)
                           /\ ~Denies(Read(g, now + seconds * Second), k)
      BY DEF RetryAfterExact
    <2> DEFINE g == Read(guard, now)  a == g.attempts[k]  seconds == RetryAfter(g, k, now)
               soon == now + (seconds - 1) * Second  late == now + seconds * Second
    <2>1. /\ now \in Nat /\ Window \in Nat /\ MaxFailures \in Nat /\ MaxFailures >= 1
          /\ Second \in Nat \ {0}
      BY <1>1, InvFacts, OptionsAssumption
    <2>2. /\ g \in GuardState /\ Consistent(g, now)
          /\ a \in Seq(Nat) /\ Len(a) <= MaxFailures
          /\ \A i \in 1..Len(a) : a[i] + Window > now
      BY <1>1, ReadFacts
    <2>3. Len(a) >= MaxFailures
      BY DEF Denies
    <2> HIDE DEF g
    <2>4. Len(a) \in Nat /\ Len(a) = MaxFailures /\ a # <<>>
      BY <2>1, <2>2, <2>3
    <2>5. 1 \in 1..Len(a) /\ a[1] \in Nat /\ Head(a) = a[1]
      BY <2>2, <2>4
    <2>6. /\ seconds \in Nat /\ seconds >= 1
          /\ (seconds - 1) * Second < a[1] + Window - now
          /\ a[1] + Window - now <= seconds * Second
      <3>1. Remaining(g, k, now) = a[1] + Window - now
        BY <2>5 DEF Remaining
      <3>2. a[1] + Window > now
        BY <2>2, <2>5
      <3>3. a[1] + Window - now \in Nat \ {0}
        BY ONLY <2>1, <2>5, <3>2
      <3> DEFINE wait == a[1] + Window - now
      <3>4. seconds = Max({1, Ceil(wait, Second)})
        BY <3>1 DEF RetryAfter
      <3> HIDE DEF seconds, wait
      <3>5. wait \in Nat \ {0}
        BY <3>3 DEF wait
      <3>6. /\ seconds \in Nat /\ seconds >= 1
            /\ (seconds - 1) * Second < wait /\ wait <= seconds * Second
        BY <2>1, <3>4, <3>5, CeilFacts
      <3> QED BY <3>6 DEF wait
    <2> HIDE DEF seconds
    <2>7. /\ soon \in Nat /\ now <= soon /\ soon < a[1] + Window
          /\ late \in Nat /\ now <= late /\ a[1] + Window <= late
      <3>1. seconds - 1 \in Nat /\ seconds \in Nat /\ Second \in Nat
        BY <2>1, <2>6
      <3>2. (seconds - 1) * Second \in Nat /\ seconds * Second \in Nat
        BY <3>1, ProductIsNat
      <3> DEFINE wait == a[1] + Window - now  x == (seconds - 1) * Second  y == seconds * Second
      <3>3. x \in Nat /\ y \in Nat /\ x < wait /\ wait <= y
        BY <2>6, <3>2
      <3>4. soon = now + x /\ late = now + y /\ now + wait = a[1] + Window /\ wait \in Int
        BY <2>1, <2>5
      <3> HIDE DEF wait, x, y, soon, late
      <3> QED BY ONLY <2>1, <3>3, <3>4
    <2> HIDE DEF soon, late
    <2>8. Consistent(g, soon) /\ Consistent(g, late)
      BY <2>1, <2>2, <2>7, ConsistentLater
    <2>9. Denies(Read(g, soon), k)
      <3> DEFINE b == Read(g, soon).attempts[k]
      <3>1. Read(g, soon) \in GuardState /\ PrunedFrom(Read(g, soon), g, soon)
        BY <2>2, <2>7, <2>8, ReadPrunes
      <3>2. b \in Seq(Nat) /\ DropsExpired(b, a, soon)
        BY <3>1, GuardFields DEF PrunedFrom
      <3> HIDE DEF b, a
      <3>3. /\ Len(b) \in Nat /\ Len(b) <= Len(a)
            /\ \A j \in 1..(Len(a) - Len(b)) : a[j] + Window <= soon
        BY <3>2 DEF DropsExpired
      <3>4. Len(b) = Len(a)
        <4> SUFFICES ASSUME Len(b) # Len(a) PROVE FALSE
          OBVIOUS
        <4>1. 1 \in 1..(Len(a) - Len(b))
          BY <2>4, <3>3
        <4>2. a[1] + Window <= soon
          BY <3>3, <4>1
        <4> QED BY <2>1, <2>5, <2>7, <4>2
      <3>5. Len(b) >= MaxFailures
        BY <2>3, <3>4
      <3> QED BY <3>5 DEF Denies, b
    <2>10. ~Denies(Read(g, late), k)
      <3> DEFINE h == Read(g, late)  b == h.attempts[k]
      <3>1. h \in GuardState /\ PrunedFrom(h, g, late) /\ NoneDue(h, late)
        BY <2>2, <2>7, <2>8, ReadPrunes
      <3> HIDE DEF h
      <3>2. b \in Seq(Nat) /\ DropsExpired(b, a, late) /\ Consistent(h, late)
        BY <3>1, GuardFields DEF PrunedFrom
      <3>3. \A i \in 1..Len(b) : b[i] + Window > late
        BY <2>7, <3>1, <3>2, WithinWindow
      <3> HIDE DEF b, a
      <3>4. /\ Len(b) \in Nat /\ Len(b) <= Len(a)
            /\ \A i \in 1..Len(b) : b[i] = a[Len(a) - Len(b) + i]
        BY <3>2 DEF DropsExpired
      <3>5. ~(Len(b) >= MaxFailures)
        <4> SUFFICES ASSUME Len(b) >= MaxFailures PROVE FALSE
          OBVIOUS
        <4>1. Len(b) = Len(a) /\ 1 \in 1..Len(b) /\ Len(a) - Len(b) + 1 = 1
          BY <2>1, <2>4, <3>4
        <4>2. b[1] = a[1] /\ b[1] + Window > late
          BY <3>3, <3>4, <4>1
        <4> QED BY <2>1, <2>5, <2>7, <4>2
      <3> QED BY <3>5 DEF Denies, b, h
    <2> QED BY <2>6, <2>9, <2>10 DEF g, seconds, soon, late
  <1> QED BY <1>1, Invariance, PTL

=============================================================================
