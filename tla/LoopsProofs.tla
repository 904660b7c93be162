---------------------------- MODULE LoopsProofs ----------------------------
(***************************************************************************)
(* What the loops of module Loops compute, for every input.  Induction and *)
(* recursion over the numbers are derived from the library's theorem that  *)
(* a well-founded relation has minimal elements, so that every lemma takes *)
(* sets and functions, never operators, and can be cited by name.          *)
(***************************************************************************)
EXTENDS Loops, Integers, FiniteSetTheorems, WellFoundedInduction, TLAPS

\* A set of numbers that is not empty has a least one.
LEMMA Least ==
  ASSUME NEW T \in SUBSET Nat, T # {}
  PROVE  \E n \in T : \A m \in T : n <= m
  <1>1. IsWellFoundedOn(OpToRel(<, Nat), Nat)
    BY NatLessThanWellFounded
  <1>2. PICK x \in T : \A y \in T : <<y, x>> \notin OpToRel(<, Nat)
    BY <1>1, WFMin
  <1>3. \A y \in T : ~(y < x)
    BY <1>2 DEF OpToRel
  <1> QED BY <1>3

\* Induction, for a set: it holds every number if it holds zero and with a number
\* the next.
LEMMA Induction ==
  ASSUME NEW T, 0 \in T, \A n \in Nat : n \in T => n + 1 \in T
  PROVE  Nat \subseteq T
  <1> SUFFICES ASSUME Nat \ T # {} PROVE FALSE
    OBVIOUS
  <1>1. PICK n \in Nat \ T : \A m \in Nat \ T : n <= m
    BY Least
  <1>2. n # 0 /\ n - 1 \in Nat
    BY <1>1
  <1>3. n - 1 \in T
    BY <1>1, <1>2
  <1> QED BY <1>1, <1>2, <1>3

\* The function f starts with s0 and goes on as next says.
RunsAs(f, S, s0, next) ==
  f \in [Nat -> S] /\ f[0] = s0 /\ \A n \in Nat : f[n + 1] = next[n][f[n]]

\* Recursion: a function that starts and goes on as it is told exists.
LEMMA Recursion ==
  ASSUME NEW S, NEW s0 \in S, NEW next \in [Nat -> [S -> S]]
  PROVE  \E f : RunsAs(f, S, s0, next)
  <1> DEFINE Good(n, f) == f \in [0..n -> S] /\ f[0] = s0 /\ \A m \in 0..(n - 1) : f[m + 1] = next[m][f[m]]
  <1> DEFINE T == {n \in Nat : \E f \in [0..n -> S] : Good(n, f)}
  <1>1. 0 \in T
    <2>1. Good(0, [m \in 0..0 |-> s0])
      OBVIOUS
    <2> QED BY <2>1
  <1>2. ASSUME NEW n \in Nat, n \in T PROVE n + 1 \in T
    <2>1. PICK f \in [0..n -> S] : Good(n, f)
      BY <1>2
    <2> DEFINE g == [m \in 0..(n + 1) |-> IF m = n + 1 THEN next[n][f[n]] ELSE f[m]]
    <2>2. g \in [0..(n + 1) -> S]
      <3>1. next[n][f[n]] \in S /\ \A m \in 0..n : f[m] \in S
        BY <2>1
      <3>2. ASSUME NEW m \in 0..(n + 1), m # n + 1 PROVE m \in 0..n
        BY <3>2
      <3> QED BY <3>1, <3>2
    <2>3. g[0] = s0
      BY <2>1
    <2>4. ASSUME NEW m \in 0..n PROVE g[m + 1] = next[m][g[m]]
      <3>1. m \in 0..(n + 1) /\ m + 1 \in 0..(n + 1) /\ m # n + 1
        OBVIOUS
      <3>2. g[m] = f[m]
        BY <3>1
      <3>3. CASE m = n
        BY <3>1, <3>2, <3>3
      <3>4. CASE m # n
        <4>1. m \in 0..(n - 1) /\ m + 1 # n + 1
          BY <3>4
        <4>2. g[m + 1] = f[m + 1]
          BY <3>1, <4>1
        <4>3. f[m + 1] = next[m][f[m]]
          BY <2>1, <4>1
        <4> QED BY <3>2, <4>2, <4>3
      <3> QED BY <3>3, <3>4
    <2> HIDE DEF g
    <2>5. \A m \in 0..n : g[m + 1] = next[m][g[m]]
      BY <2>4
    <2>6. 0..((n + 1) - 1) = 0..n
      OBVIOUS
    <2>7. \A m \in 0..((n + 1) - 1) : g[m + 1] = next[m][g[m]]
      BY <2>5, <2>6
    <2>8. Good(n + 1, g)
      BY <2>2, <2>3, <2>7
    <2>9. n + 1 \in Nat
      OBVIOUS
    <2> HIDE DEF Good
    <2> QED BY <2>2, <2>8, <2>9
  <1>3. Nat \subseteq T
    <2> HIDE DEF T
    <2> QED BY <1>1, <1>2, Induction
  <1>4. \A n \in Nat : \E f \in [0..n -> S] : Good(n, f)
    BY <1>3
  <1> DEFINE F(n) == CHOOSE f \in [0..n -> S] : Good(n, f)
  <1>5. \A n \in Nat : Good(n, F(n))
    BY <1>4
  <1> HIDE DEF F
  <1>6. ASSUME NEW n \in Nat, NEW k \in Nat PROVE \A m \in 0..n : m <= n + k => F(n)[m] = F(n + k)[m]
    <2> DEFINE U == {m \in Nat : m <= n => F(n)[m] = F(n + k)[m]}
    <2>1. Good(n, F(n)) /\ Good(n + k, F(n + k))
      BY <1>5
    <2>2. 0 \in U
      BY <2>1
    <2>3. ASSUME NEW m \in Nat, m \in U PROVE m + 1 \in U
      <3> SUFFICES ASSUME m + 1 <= n PROVE F(n)[m + 1] = F(n + k)[m + 1]
        OBVIOUS
      <3>1. F(n)[m] = F(n + k)[m]
        BY <2>3
      <3>2. m \in 0..(n - 1) /\ m \in 0..(n + k - 1)
        OBVIOUS
      <3>3. F(n)[m + 1] = next[m][F(n)[m]]
        BY <2>1, <3>2
      <3>4. F(n + k)[m + 1] = next[m][F(n + k)[m]]
        BY <2>1, <3>2
      <3> QED BY <3>1, <3>3, <3>4
    <2>4. Nat \subseteq U
      <3> HIDE DEF U
      <3> QED BY <2>2, <2>3, Induction
    <2> QED BY <2>4
  <1> DEFINE h == [n \in Nat |-> F(n)[n]]
  <1>7. h \in [Nat -> S] /\ h[0] = s0
    BY <1>5
  <1>8. ASSUME NEW n \in Nat PROVE h[n + 1] = next[n][h[n]]
    <2>1. F(n)[n] = F(n + 1)[n]
      BY <1>6
    <2>2. F(n + 1)[n + 1] = next[n][F(n + 1)[n]]
      BY <1>5
    <2> QED BY <2>1, <2>2
  <1> QED BY <1>7, <1>8 DEF RunsAs

-----------------------------------------------------------------------------
(* Rounds                                                                  *)

\* A loop starts with its start, and each round makes one step.
LEMMA RoundsFacts ==
  ASSUME NEW S, NEW start \in S, NEW round \in [S -> S]
  PROVE  /\ Rounds(round, start, 0) = start
         /\ \A n \in Nat : /\ Rounds(round, start, n) \in S
                           /\ Rounds(round, start, n + 1) = round[Rounds(round, start, n)]
  <1> DEFINE IsRun(f) == f = [k \in Nat |-> IF k = 0 THEN start ELSE round[f[k - 1]]]
  <1>1. \E f : IsRun(f)
    <2> DEFINE next == [n \in Nat |-> round]
    <2>1. next \in [Nat -> [S -> S]]
      OBVIOUS
    <2>2. PICK f \in [Nat -> S] : f[0] = start /\ \A n \in Nat : f[n + 1] = next[n][f[n]]
      <3> HIDE DEF next, IsRun
      <3>1. \E h : RunsAs(h, S, start, next)
        BY <2>1, Recursion
      <3> QED BY <3>1 DEF RunsAs
    <2>3. \A k \in Nat : f[k] = IF k = 0 THEN start ELSE round[f[k - 1]]
      <3> SUFFICES ASSUME NEW k \in Nat, k # 0 PROVE f[k] = round[f[k - 1]]
        BY <2>2
      <3>1. k - 1 \in Nat /\ (k - 1) + 1 = k
        OBVIOUS
      <3>2. f[k] = next[k - 1][f[k - 1]]
        BY <2>2, <3>1
      <3> QED BY <3>1, <3>2
    <2> QED BY <2>2, <2>3
  <1> DEFINE run == CHOOSE f : IsRun(f)
  <1>2. IsRun(run)
    BY <1>1
  <1>3. \A n : Rounds(round, start, n) = run[n]
    BY DEF Rounds
  <1> HIDE DEF run
  <1>4. run[0] = start
    BY <1>2
  <1>5. ASSUME NEW n \in Nat PROVE run[n + 1] = round[run[n]]
    <2>1. n + 1 \in Nat /\ n + 1 # 0 /\ (n + 1) - 1 = n
      OBVIOUS
    <2> QED BY <1>2, <2>1
  <1>6. \A n \in Nat : run[n] \in S
    <2> DEFINE T == {n \in Nat : run[n] \in S}
    <2>1. 0 \in T
      BY <1>4
    <2>2. ASSUME NEW n \in Nat, n \in T PROVE n + 1 \in T
      BY <1>5, <2>2
    <2>3. Nat \subseteq T
      <3> HIDE DEF T
      <3> QED BY <2>1, <2>2, Induction
    <2> QED BY <2>3
  <1> QED BY <1>3, <1>4, <1>5, <1>6

\* What holds at the start and is kept by each round holds in the end.
LEMMA RoundsInvariant ==
  ASSUME NEW S, NEW start \in S, NEW round \in [S -> S],
         NEW I, start \in I, \A s \in I \cap S : round[s] \in I
  PROVE  \A n \in Nat : Rounds(round, start, n) \in I
  <1> DEFINE T == {n \in Nat : Rounds(round, start, n) \in I}
  <1>1. 0 \in T
    BY RoundsFacts
  <1>2. ASSUME NEW n \in Nat, n \in T PROVE n + 1 \in T
    BY <1>2, RoundsFacts
  <1>3. Nat \subseteq T
    <2> HIDE DEF T
    <2> QED BY <1>1, <1>2, Induction
  <1> QED BY <1>3

\* The rounds keep I, and those that change something bring a number nearer to
\* zero.
Progresses(round, S, I, left) ==
  /\ round \in [S -> S] /\ left \in [S -> Nat]
  /\ \A s \in I \cap S : round[s] \in I /\ (round[s] = s \/ left[round[s]] < left[s])

\* Such a loop has come to rest after that number of rounds.
LEMMA RoundsEnd ==
  ASSUME NEW S, NEW I, NEW start \in I \cap S, NEW round, NEW left,
         Progresses(round, S, I, left),
         NEW n \in Nat, left[start] <= n
  PROVE  /\ Rounds(round, start, n) \in I \cap S
         /\ round[Rounds(round, start, n)] = Rounds(round, start, n)
  <1>1. /\ round \in [S -> S] /\ left \in [S -> Nat] /\ start \in S /\ start \in I
        /\ \A s \in I \cap S : round[s] \in I
        /\ \A s \in I \cap S : round[s] = s \/ left[round[s]] < left[s]
    BY DEF Progresses
  <1>2. start \in S /\ round \in [S -> S]
    BY <1>1
  <1>3. /\ Rounds(round, start, 0) = start
        /\ \A k \in Nat : /\ Rounds(round, start, k) \in S
                          /\ Rounds(round, start, k + 1) = round[Rounds(round, start, k)]
    BY ONLY <1>2, RoundsFacts
  <1> DEFINE R(k) == Rounds(round, start, k)
  <1>4. \A k \in Nat : R(k) \in I \cap S /\ R(k + 1) = round[R(k)]
    <2>1. \A k \in Nat : R(k) \in I
      BY ONLY <1>1, RoundsInvariant
    <2> QED BY <1>3, <2>1
  <1>5. R(0) = start
    BY <1>3
  <1> HIDE DEF R
  <1> DEFINE U == {k \in Nat : round[R(k)] = R(k) \/ left[R(k)] + k <= left[start]}
  <1>6. 0 \in U
    BY <1>1, <1>5
  <1>7. ASSUME NEW k \in Nat, k \in U PROVE k + 1 \in U
    <2>1. R(k) \in I \cap S /\ R(k + 1) = round[R(k)] /\ R(k + 1) \in S
      BY <1>1, <1>4
    <2>2. left[R(k)] \in Nat /\ left[R(k + 1)] \in Nat /\ left[start] \in Nat
      BY <1>1, <2>1
    <2>3. CASE round[R(k)] = R(k)
      BY <2>1, <2>3
    <2>4. CASE round[R(k)] # R(k)
      <3>1. left[R(k)] + k <= left[start] /\ left[R(k + 1)] < left[R(k)]
        BY <1>1, <1>7, <2>1, <2>4
      <3> QED BY <2>2, <3>1
    <2> QED BY <2>3, <2>4
  <1>8. Nat \subseteq U
    <2> HIDE DEF U
    <2> QED BY <1>6, <1>7, Induction
  <1>9. CASE left[R(n)] + n <= left[start]
    <2>1. R(n) \in I \cap S /\ round[R(n)] \in S
      BY <1>1, <1>4
    <2>2. left[R(n)] \in Nat /\ left[round[R(n)]] \in Nat /\ left[start] \in Nat
      BY <1>1, <2>1
    <2>3. ~(left[round[R(n)]] < left[R(n)])
      BY <1>9, <2>2
    <2> QED BY <1>1, <2>1, <2>3 DEF R
  <1>10. CASE round[R(n)] = R(n)
    BY <1>4, <1>10 DEF R
  <1> QED BY <1>8, <1>9, <1>10

-----------------------------------------------------------------------------
(* Loops over a sequence                                                   *)

\* What a loop over s has computed before each of its rounds, and in the end.
FoldsAs(f, S, round, start, s) ==
  /\ f \in [0..Len(s) -> S]
  /\ f[0] = start
  /\ \A k \in 1..Len(s) : f[k] = round[<<f[k - 1], s[k]>>]
  /\ Folded(round, start, s) = f[Len(s)]

\* A loop over a sequence makes its rounds one after the other.
LEMMA FoldedFacts ==
  ASSUME NEW S, NEW start \in S, NEW s, Len(s) \in Nat, NEW round,
         \A x \in S : \A k \in 1..Len(s) : round[<<x, s[k]>>] \in S
  PROVE  \E f : FoldsAs(f, S, round, start, s)
  <1> DEFINE IsRun(f) ==
        f = [k \in 0..Len(s) |-> IF k = 0 THEN start ELSE round[<<f[k - 1], s[k]>>]]
  <1>0. Len(s) \in Nat
    OBVIOUS
  <1>1. \E f \in [0..Len(s) -> S] : IsRun(f)
    <2> DEFINE next == 
              [n \in Nat |-> [x \in S |-> IF n < Len(s) THEN round[<<x, s[n + 1]>>] ELSE x]]
    <2>1. next \in [Nat -> [S -> S]]
      <3> SUFFICES ASSUME NEW n \in Nat, NEW x \in S, n < Len(s) PROVE round[<<x, s[n + 1]>>] \in S
        OBVIOUS
      <3>1. n + 1 \in 1..Len(s)
        OBVIOUS
      <3> QED BY <3>1
    <2>2. PICK g \in [Nat -> S] : g[0] = start /\ \A n \in Nat : g[n + 1] = next[n][g[n]]
      <3> HIDE DEF next, IsRun
      <3>1. \E h : RunsAs(h, S, start, next)
        BY <2>1, Recursion
      <3> QED BY <3>1 DEF RunsAs
    <2> DEFINE f == [k \in 0..Len(s) |-> g[k]]
    <2>3. f \in [0..Len(s) -> S]
      BY <1>0
    <2>4. ASSUME NEW k \in 0..Len(s), k # 0 PROVE f[k] = round[<<f[k - 1], s[k]>>]
      <3>1. k - 1 \in Nat /\ (k - 1) + 1 = k /\ k - 1 < Len(s) /\ k - 1 \in 0..Len(s)
        BY <1>0, <2>4
      <3>2. f[k - 1] = g[k - 1] /\ f[k] = g[k]
        BY <3>1
      <3>3. g[k] = next[k - 1][g[k - 1]]
        BY <2>2, <3>1
      <3> QED BY <3>1, <3>2, <3>3
    <2>5. f[0] = start
      BY <1>0, <2>2
    <2> HIDE DEF f
    <2> QED BY <2>3, <2>4, <2>5
  <1> DEFINE run == CHOOSE f : IsRun(f)
  <1>2. IsRun(run)
    BY <1>1
  <1>3. Folded(round, start, s) = run[Len(s)]
    BY DEF Folded
  <1> HIDE DEF run
  <1>4. run[0] = start
    BY <1>0, <1>2
  <1>5. ASSUME NEW k \in 1..Len(s) PROVE run[k] = round[<<run[k - 1], s[k]>>]
    <2>1. k \in 0..Len(s) /\ k # 0
      BY <1>0
    <2> QED BY <1>2, <2>1
  <1>6. \A k \in 0..Len(s) : run[k] \in S
    <2> DEFINE U == {n \in Nat : n <= Len(s) => run[n] \in S}
    <2>1. 0 \in U
      BY <1>4
    <2>2. ASSUME NEW n \in Nat, n \in U PROVE n + 1 \in U
      <3> SUFFICES ASSUME n + 1 <= Len(s) PROVE run[n + 1] \in S
        OBVIOUS
      <3>1. n + 1 \in 1..Len(s) /\ (n + 1) - 1 = n /\ run[n] \in S
        BY <1>0, <2>2
      <3>2. run[n + 1] = round[<<run[n], s[n + 1]>>]
        BY <1>5, <3>1
      <3> QED BY <3>1, <3>2
    <2>3. Nat \subseteq U
      <3> HIDE DEF U
      <3> QED BY <2>1, <2>2, Induction
    <2> QED BY <1>0, <2>3
  <1>7. run \in [0..Len(s) -> S]
    BY <1>2, <1>6
  <1> QED BY <1>3, <1>4, <1>5, <1>7 DEF FoldsAs

\* What holds at the start and is kept by each round holds in the end; what is
\* meant may depend on the number of rounds.
LEMMA FoldedInvariant ==
  ASSUME NEW S, NEW start \in S, NEW s, Len(s) \in Nat, NEW round,
         \A x \in S : \A k \in 1..Len(s) : round[<<x, s[k]>>] \in S,
         NEW I, <<0, start>> \in I,
         \A k \in 1..Len(s) : \A x \in S : <<k - 1, x>> \in I => <<k, round[<<x, s[k]>>]>> \in I
  PROVE  Folded(round, start, s) \in S /\ <<Len(s), Folded(round, start, s)>> \in I
  <1>1. PICK f \in [0..Len(s) -> S] :
           /\ f[0] = start
           /\ \A k \in 1..Len(s) : f[k] = round[<<f[k - 1], s[k]>>]
           /\ Folded(round, start, s) = f[Len(s)]
    <2>1. PICK f : FoldsAs(f, S, round, start, s)
      BY FoldedFacts
    <2> QED BY <2>1 DEF FoldsAs
  <1>0. Len(s) \in Nat
    OBVIOUS
  <1> DEFINE U == {n \in Nat : n <= Len(s) => <<n, f[n]>> \in I}
  <1>2. 0 \in U
    BY <1>1
  <1>3. ASSUME NEW n \in Nat, n \in U PROVE n + 1 \in U
    <2> SUFFICES ASSUME n + 1 <= Len(s) PROVE <<n + 1, f[n + 1]>> \in I
      OBVIOUS
    <2>1. n + 1 \in 1..Len(s) /\ (n + 1) - 1 = n /\ n \in 0..Len(s) /\ <<n, f[n]>> \in I
      BY <1>0, <1>3
    <2>2. f[n] \in S
      BY <2>1
    <2>3. f[n + 1] = round[<<f[n], s[n + 1]>>]
      BY <1>1, <2>1
    <2>4. <<n + 1, round[<<f[n], s[n + 1]>>]>> \in I
      BY <2>1, <2>2
    <2> QED BY <2>3, <2>4
  <1>4. Nat \subseteq U
    <2> HIDE DEF U
    <2> QED BY <1>2, <1>3, Induction
  <1> QED BY <1>0, <1>1, <1>4

-----------------------------------------------------------------------------
(* Filters                                                                 *)

\* What the filter has kept of the first elements.
IsKept(f, s, set) ==
  /\ f[0] = <<>>
  /\ \A k \in 1..Len(s) : f[k] = IF s[k] \in set THEN Append(f[k - 1], s[k]) ELSE f[k - 1]

\* The filter goes over the sequence from its first element to its last.
LEMMA OnlyRun ==
  ASSUME NEW T, NEW s \in Seq(T), NEW set
  PROVE  \E f \in [0..Len(s) -> Seq(T)] : IsKept(f, s, set) /\ Only(s, set) = f[Len(s)]
  <1> DEFINE round == [p \in Seq(T) \X T |-> IF p[2] \in set THEN Append(p[1], p[2]) ELSE p[1]]
  <1>0. Len(s) \in Nat /\ \A k \in 1..Len(s) : s[k] \in T
    OBVIOUS
  <1>1. \A x \in Seq(T) : \A k \in 1..Len(s) : round[<<x, s[k]>>] \in Seq(T)
    BY <1>0
  <1>2. <<>> \in Seq(T)
    OBVIOUS
  <1>3. PICK f \in [0..Len(s) -> Seq(T)] :
           f[0] = <<>> /\ \A k \in 1..Len(s) : f[k] = round[<<f[k - 1], s[k]>>]
    <2> HIDE DEF round
    <2>1. PICK f : FoldsAs(f, Seq(T), round, <<>>, s)
      BY <1>0, <1>1, <1>2, FoldedFacts
    <2> QED BY <2>1 DEF FoldsAs
  <1>4. IsKept(f, s, set)
    <2> SUFFICES ASSUME NEW k \in 1..Len(s)
                 PROVE  f[k] = IF s[k] \in set THEN Append(f[k - 1], s[k]) ELSE f[k - 1]
      BY <1>3 DEF IsKept
    <2>1. k - 1 \in 0..Len(s)
      BY <1>0
    <2>2. f[k - 1] \in Seq(T) /\ s[k] \in T
      BY <1>0, <2>1
    <2>3. f[k] = round[<<f[k - 1], s[k]>>]
      BY <1>3
    <2> QED BY <2>2, <2>3
  <1> DEFINE IsRun(g) ==
        g = [k \in 0..Len(s) |->
               IF k = 0 THEN <<>>
               ELSE IF s[k] \in set THEN Append(g[k - 1], s[k]) ELSE g[k - 1]]
  <1>5. IsRun(f)
    <2>1. \A k \in 0..Len(s) : k # 0 => k \in 1..Len(s)
      BY <1>0
    <2>2. \A k \in 0..Len(s) :
             f[k] = IF k = 0 THEN <<>>
                    ELSE IF s[k] \in set THEN Append(f[k - 1], s[k]) ELSE f[k - 1]
      BY <1>4, <2>1 DEF IsKept
    <2>3. f = [k \in 0..Len(s) |-> f[k]]
      OBVIOUS
    <2> QED BY <2>2, <2>3
  <1> DEFINE run == CHOOSE g : IsRun(g)
  <1>6. IsRun(run)
    BY <1>5
  <1>7. Only(s, set) = run[Len(s)]
    BY DEF Only
  <1> HIDE DEF run
  <1>8. \A k \in 0..Len(s) : run[k] = f[k]
    <2> DEFINE U == {n \in Nat : n <= Len(s) => run[n] = f[n]}
    <2>1. 0 \in U
      BY <1>0, <1>3, <1>6
    <2>2. ASSUME NEW n \in Nat, n \in U PROVE n + 1 \in U
      <3> SUFFICES ASSUME n + 1 <= Len(s) PROVE run[n + 1] = f[n + 1]
        OBVIOUS
      <3>1. n + 1 \in 1..Len(s) /\ n + 1 \in 0..Len(s) /\ n + 1 # 0 /\ (n + 1) - 1 = n /\ run[n] = f[n]
        BY <1>0, <2>2
      <3>2. f[n + 1] = IF s[n + 1] \in set THEN Append(f[n], s[n + 1]) ELSE f[n]
        BY <1>4, <3>1 DEF IsKept
      <3>3. run[n + 1] = IF s[n + 1] \in set THEN Append(run[n], s[n + 1]) ELSE run[n]
        BY <1>6, <3>1
      <3> QED BY <3>1, <3>2, <3>3
    <2>3. Nat \subseteq U
      <3> HIDE DEF U
      <3> QED BY <2>1, <2>2, Induction
    <2> QED BY <1>0, <2>3
  <1> QED BY <1>0, <1>4, <1>7, <1>8

\* r is a selection of elements of s, in their order.
Selects(m, r, s) ==
  /\ m \in [1..Len(r) -> 1..Len(s)]
  /\ \A i \in 1..Len(r) : r[i] = s[m[i]]
  /\ \A i, j \in 1..Len(r) : i < j => m[i] < m[j]

\* What a filter keeps: elements of the set, all of them, in their order, and
\* fewer than there were unless they all are in the set.
LEMMA OnlyFacts ==
  ASSUME NEW T, NEW s \in Seq(T), NEW set
  PROVE  /\ Only(s, set) \in Seq(T) /\ Len(Only(s, set)) <= Len(s)
         /\ \A i \in 1..Len(Only(s, set)) : Only(s, set)[i] \in set
         /\ \A j \in 1..Len(s) : s[j] \in set => \E i \in 1..Len(Only(s, set)) : Only(s, set)[i] = s[j]
         /\ \A j \in 1..Len(s) : s[j] \notin set => Len(Only(s, set)) < Len(s)
         /\ \E m : Selects(m, Only(s, set), s)
  <1>1. PICK f \in [0..Len(s) -> Seq(T)] : IsKept(f, s, set) /\ Only(s, set) = f[Len(s)]
    BY OnlyRun
  <1>0. Len(s) \in Nat /\ \A k \in 1..Len(s) : s[k] \in T
    OBVIOUS
  <1> DEFINE Sound(n) ==
        /\ Len(f[n]) <= n
        /\ \A i \in 1..Len(f[n]) : f[n][i] \in set
        /\ \A j \in 1..n : s[j] \in set => \E i \in 1..Len(f[n]) : f[n][i] = s[j]
        /\ \A j \in 1..n : s[j] \notin set => Len(f[n]) < n
        /\ \E m \in [1..Len(f[n]) -> 1..n] :
             /\ \A i \in 1..Len(f[n]) : f[n][i] = s[m[i]]
             /\ \A i, j \in 1..Len(f[n]) : i < j => m[i] < m[j]
  <1> DEFINE U == {n \in Nat : n <= Len(s) => Sound(n)}
  <1>2. 0 \in U
    <2>1. f[0] = <<>>
      BY <1>1 DEF IsKept
    <2>2. Sound(0)
      BY <2>1
    <2> QED BY <2>2
  <1>3. ASSUME NEW n \in Nat, n \in U PROVE n + 1 \in U
    <2> SUFFICES ASSUME n + 1 <= Len(s) PROVE Sound(n + 1)
      <3> HIDE DEF Sound
      <3> QED OBVIOUS
    <2>1. n + 1 \in 1..Len(s) /\ n \in 0..Len(s) /\ n + 1 \in 0..Len(s) /\ (n + 1) - 1 = n /\ n <= Len(s)
      BY <1>0
    <2>2. Sound(n)
      BY <1>3, <2>1
    <2>3. f[n] \in Seq(T) /\ f[n + 1] \in Seq(T) /\ s[n + 1] \in T
      BY <1>0, <2>1
    <2> DEFINE old == f[n]  new == f[n + 1]  x == s[n + 1]
    <2>4. new = IF x \in set THEN Append(old, x) ELSE old
      BY <1>1, <2>1 DEF IsKept
    <2>5. PICK m \in [1..Len(old) -> 1..n] :
             /\ \A i \in 1..Len(old) : old[i] = s[m[i]]
             /\ \A i, j \in 1..Len(old) : i < j => m[i] < m[j]
      BY <2>2
    <2>6. /\ Len(old) \in Nat /\ Len(old) <= n
          /\ \A i \in 1..Len(old) : old[i] \in set
          /\ \A j \in 1..n : s[j] \in set => \E i \in 1..Len(old) : old[i] = s[j]
          /\ \A j \in 1..n : s[j] \notin set => Len(old) < n
      BY <2>2, <2>3
    <2> HIDE DEF old, new, x, U
    <2>7. CASE x \in set
      <3>1. /\ Len(new) = Len(old) + 1 /\ new[Len(old) + 1] = x
            /\ \A i \in 1..Len(old) : new[i] = old[i]
        BY <2>3, <2>4, <2>7 DEF old
      <3>2. Len(new) <= n + 1
        BY <2>6, <3>1
      <3>3. ASSUME NEW i \in 1..Len(new) PROVE new[i] \in set
        <4>1. CASE i = Len(old) + 1
          BY <2>7, <3>1, <4>1
        <4>2. CASE i # Len(old) + 1
          <5>1. i \in 1..Len(old)
            BY <2>6, <3>1, <4>2
          <5> QED BY <2>6, <3>1, <5>1
        <4> QED BY <4>1, <4>2
      <3>4. ASSUME NEW j \in 1..(n + 1), s[j] \in set PROVE \E i \in 1..Len(new) : new[i] = s[j]
        <4>1. CASE j = n + 1
          BY <2>6, <3>1, <4>1 DEF x
        <4>2. CASE j # n + 1
          <5>1. PICK i \in 1..Len(old) : old[i] = s[j]
            BY <2>6, <3>4, <4>2
          <5>2. i \in 1..Len(new) /\ new[i] = s[j]
            BY <2>6, <3>1, <5>1
          <5> QED BY <5>2
        <4> QED BY <4>1, <4>2
      <3>5. ASSUME NEW j \in 1..(n + 1), s[j] \notin set PROVE Len(new) < n + 1
        <4>1. j \in 1..n
          BY <2>7, <3>5 DEF x
        <4> QED BY <2>6, <3>1, <3>5, <4>1
      <3> DEFINE mm == [i \in 1..Len(new) |-> IF i = Len(old) + 1 THEN n + 1 ELSE m[i]]
      <3>6. \A i \in 1..Len(new) : i # Len(old) + 1 => i \in 1..Len(old) /\ m[i] \in 1..n
        <4> SUFFICES ASSUME NEW i \in 1..Len(new), i # Len(old) + 1
                     PROVE  i \in 1..Len(old) /\ m[i] \in 1..n
          OBVIOUS
        <4>1. i \in 1..Len(old)
          BY <2>6, <3>1
        <4> QED BY <2>5, <4>1
      <3>7. mm \in [1..Len(new) -> 1..(n + 1)]
        BY <3>6
      <3>8. \A i \in 1..Len(new) : new[i] = s[mm[i]]
        <4> SUFFICES ASSUME NEW i \in 1..Len(new) PROVE new[i] = s[mm[i]]
          OBVIOUS
        <4>1. CASE i = Len(old) + 1
          BY <3>1, <4>1 DEF x
        <4>2. CASE i # Len(old) + 1
          BY <2>5, <3>1, <3>6, <4>2
        <4> QED BY <4>1, <4>2
      <3>9. ASSUME NEW i \in 1..Len(new), NEW j \in 1..Len(new), i < j PROVE mm[i] < mm[j]
        <4>1. i # Len(old) + 1 /\ i \in 1..Len(old) /\ mm[i] = m[i] /\ m[i] \in 1..n
          BY <2>6, <3>1, <3>6, <3>9
        <4>2. CASE j = Len(old) + 1
          BY <4>1, <4>2
        <4>3. CASE j # Len(old) + 1
          BY <2>5, <3>6, <3>9, <4>1, <4>3
        <4> QED BY <4>2, <4>3
      <3> HIDE DEF mm
      <3> QED BY <3>2, <3>3, <3>4, <3>5, <3>7, <3>8, <3>9 DEF new
    <2>8. CASE x \notin set
      <3>1. new = old
        BY <2>4, <2>8
      <3>2. Len(new) <= n + 1 /\ Len(new) < n + 1
        BY <2>6, <3>1
      <3>3. ASSUME NEW j \in 1..(n + 1), s[j] \in set PROVE \E i \in 1..Len(new) : new[i] = s[j]
        <4>1. j \in 1..n
          BY <2>8, <3>3 DEF x
        <4> QED BY <2>6, <3>1, <3>3, <4>1
      <3>4. m \in [1..Len(new) -> 1..(n + 1)]
        BY <3>1
      <3> QED BY <2>5, <2>6, <3>1, <3>2, <3>3, <3>4 DEF new
    <2> QED BY <2>7, <2>8
  <1>4. Nat \subseteq U
    <2> HIDE DEF U
    <2> QED BY <1>2, <1>3, Induction
  <1>5. Sound(Len(s))
    <2> HIDE DEF Sound
    <2> QED BY <1>0, <1>4
  <1>6. f[Len(s)] \in Seq(T)
    BY <1>0
  <1> HIDE DEF U
  <1> DEFINE r == Only(s, set)
  <1>7. r = f[Len(s)]
    BY <1>1
  <1> HIDE DEF r
  <1>8. \E m \in [1..Len(r) -> 1..Len(s)] :
          /\ \A i \in 1..Len(r) : r[i] = s[m[i]]
          /\ \A i, j \in 1..Len(r) : i < j => m[i] < m[j]
    BY <1>5, <1>7
  <1>9. \E m : Selects(m, r, s)
    BY <1>8 DEF Selects
  <1>10. /\ Len(r) <= Len(s)
         /\ \A i \in 1..Len(r) : r[i] \in set
         /\ \A j \in 1..Len(s) : s[j] \in set => \E i \in 1..Len(r) : r[i] = s[j]
         /\ \A j \in 1..Len(s) : s[j] \notin set => Len(r) < Len(s)
    BY <1>5, <1>7
  <1>11. r \in Seq(T)
    BY <1>6, <1>7
  <1> QED BY <1>9, <1>10, <1>11 DEF r

\* Where the elements of the set are the last ones, what is kept is the end of
\* the sequence.
LEMMA OnlySuffix ==
  ASSUME NEW T, NEW s \in Seq(T), NEW set,
         \A i, j \in 1..Len(s) : i < j /\ s[i] \in set => s[j] \in set
  PROVE  LET r == Only(s, set)
             d == Len(s) - Len(r)
         IN /\ \A i \in 1..Len(r) : r[i] = s[d + i]
            /\ \A j \in 1..d : s[j] \notin set
            /\ \A j \in (d + 1)..Len(s) : s[j] \in set
  <1>1. PICK f \in [0..Len(s) -> Seq(T)] : IsKept(f, s, set) /\ Only(s, set) = f[Len(s)]
    BY OnlyRun
  <1>0. Len(s) \in Nat
    OBVIOUS
  <1> DEFINE Sound(n) ==
        /\ Len(f[n]) <= n
        /\ \A i \in 1..Len(f[n]) : f[n][i] = s[n - Len(f[n]) + i]
        /\ \A j \in 1..(n - Len(f[n])) : s[j] \notin set
        /\ \A j \in (n - Len(f[n]) + 1)..n : s[j] \in set
  <1> DEFINE U == {n \in Nat : n <= Len(s) => Sound(n)}
  <1>2. 0 \in U
    <2>1. f[0] = <<>>
      BY <1>1 DEF IsKept
    <2>2. Sound(0)
      BY <2>1
    <2> QED BY <2>2
  <1>3. ASSUME NEW n \in Nat, n \in U PROVE n + 1 \in U
    <2> SUFFICES ASSUME n + 1 <= Len(s) PROVE Sound(n + 1)
      <3> HIDE DEF Sound
      <3> QED OBVIOUS
    <2>1. n + 1 \in 1..Len(s) /\ n \in 0..Len(s) /\ n + 1 \in 0..Len(s) /\ (n + 1) - 1 = n /\ n <= Len(s)
      BY <1>0
    <2>2. Sound(n)
      BY <1>3, <2>1
    <2>3. f[n] \in Seq(T) /\ f[n + 1] \in Seq(T)
      BY <2>1
    <2> DEFINE old == f[n]  new == f[n + 1]  x == s[n + 1]
    <2>4. new = IF x \in set THEN Append(old, x) ELSE old
      BY <1>1, <2>1 DEF IsKept
    <2>5. /\ Len(old) \in Nat /\ Len(old) <= n
          /\ \A i \in 1..Len(old) : old[i] = s[n - Len(old) + i]
          /\ \A j \in 1..(n - Len(old)) : s[j] \notin set
          /\ \A j \in (n - Len(old) + 1)..n : s[j] \in set
      <3>1. Len(old) \in Nat
        BY <2>3
      <3> HIDE DEF U
      <3> QED BY <2>2, <3>1
    <2> HIDE DEF old, new, x, U
    <2>6. CASE x \in set
      <3>1. /\ Len(new) = Len(old) + 1 /\ new[Len(old) + 1] = x
            /\ \A i \in 1..Len(old) : new[i] = old[i]
        BY <2>3, <2>4, <2>6 DEF old
      <3>2. n + 1 - Len(new) = n - Len(old)
        BY <2>5, <3>1
      <3>3. ASSUME NEW i \in 1..Len(new) PROVE new[i] = s[n + 1 - Len(new) + i]
        <4>1. CASE i = Len(old) + 1
          BY <2>5, <3>1, <3>2, <4>1 DEF x
        <4>2. CASE i # Len(old) + 1
          <5>1. i \in 1..Len(old)
            BY <2>5, <3>1, <4>2
          <5>2. new[i] = s[n - Len(old) + i]
            BY <2>5, <3>1, <5>1
          <5> QED BY <3>2, <5>2
        <4> QED BY <4>1, <4>2
      <3>4. \A j \in (n + 1 - Len(new) + 1)..(n + 1) : s[j] \in set
        BY <2>5, <2>6, <3>2 DEF x
      <3> QED BY <2>5, <3>1, <3>2, <3>3, <3>4 DEF new
    <2>7. CASE x \notin set
      <3>1. \A j \in 1..n : s[j] \notin set
        BY <2>1, <2>7 DEF x
      <3>2. Len(old) = 0
        <4> SUFFICES ASSUME Len(old) # 0 PROVE FALSE
          OBVIOUS
        <4>1. n \in (n - Len(old) + 1)..n /\ n \in 1..n
          BY <2>5
        <4> QED BY <2>5, <3>1, <4>1
      <3>3. new = old
        BY <2>4, <2>7
      <3>4. \A j \in 1..(n + 1) : s[j] \notin set
        BY <3>1, <2>7 DEF x
      <3> QED BY <3>2, <3>3, <3>4 DEF new
    <2> QED BY <2>6, <2>7
  <1>4. Nat \subseteq U
    <2> HIDE DEF U
    <2> QED BY <1>2, <1>3, Induction
  <1>5. Sound(Len(s))
    <2> HIDE DEF Sound
    <2> QED BY <1>0, <1>4
  <1> HIDE DEF U
  <1> QED BY <1>1, <1>5

\* The filter sees no more of the set than the elements of the sequence.
LEMMA OnlySame ==
  ASSUME NEW T, NEW s \in Seq(T), NEW A, NEW B,
         \A i \in 1..Len(s) : s[i] \in A <=> s[i] \in B
  PROVE  Only(s, A) = Only(s, B)
  <1>1. PICK f \in [0..Len(s) -> Seq(T)] : IsKept(f, s, A) /\ Only(s, A) = f[Len(s)]
    BY OnlyRun
  <1>2. PICK g \in [0..Len(s) -> Seq(T)] : IsKept(g, s, B) /\ Only(s, B) = g[Len(s)]
    BY OnlyRun
  <1> DEFINE S == {k \in Nat : k <= Len(s) => f[k] = g[k]}
  <1>3. 0 \in S BY <1>1, <1>2 DEF IsKept
  <1>4. ASSUME NEW k \in Nat, k \in S PROVE k + 1 \in S
    <2> SUFFICES ASSUME k + 1 <= Len(s) PROVE f[k + 1] = g[k + 1]
      OBVIOUS
    <2>1. k + 1 \in 1..Len(s) /\ (k + 1) - 1 = k /\ f[k] = g[k] BY <1>4
    <2> QED BY <2>1, <1>1, <1>2 DEF IsKept
  <1> HIDE DEF S
  <1>5. Nat \subseteq S BY ONLY <1>3, <1>4, Induction
  <1>6. Len(s) \in Nat OBVIOUS
  <1> QED BY <1>1, <1>2, <1>5, <1>6 DEF S

LEMMA OnlyNone ==
  ASSUME NEW T, NEW s \in Seq(T), NEW set, \A i \in 1..Len(s) : s[i] \notin set
  PROVE  Only(s, set) = <<>>
  <1>1. PICK f \in [0..Len(s) -> Seq(T)] : IsKept(f, s, set) /\ Only(s, set) = f[Len(s)]
    BY OnlyRun
  <1> DEFINE S == {k \in Nat : k <= Len(s) => f[k] = <<>>}
  <1>3. 0 \in S BY <1>1 DEF IsKept
  <1>4. ASSUME NEW k \in Nat, k \in S PROVE k + 1 \in S
    <2> SUFFICES ASSUME k + 1 <= Len(s) PROVE f[k + 1] = <<>>
      OBVIOUS
    <2>1. k + 1 \in 1..Len(s) /\ (k + 1) - 1 = k /\ f[k] = <<>> BY <1>4
    <2> QED BY <2>1, <1>1 DEF IsKept
  <1> HIDE DEF S
  <1>5. Nat \subseteq S BY ONLY <1>3, <1>4, Induction
  <1>6. Len(s) \in Nat OBVIOUS
  <1> QED BY <1>1, <1>5, <1>6 DEF S

LEMMA OnlyAll ==
  ASSUME NEW T, NEW s \in Seq(T), NEW set, \A i \in 1..Len(s) : s[i] \in set
  PROVE  Only(s, set) = s
  <1>1. PICK f \in [0..Len(s) -> Seq(T)] : IsKept(f, s, set) /\ Only(s, set) = f[Len(s)]
    BY OnlyRun
  <1> DEFINE S == {k \in Nat : k <= Len(s) => Len(f[k]) = k /\ \A i \in 1..k : f[k][i] = s[i]}
  <1>3. 0 \in S BY <1>1 DEF IsKept
  <1>4. ASSUME NEW k \in Nat, k \in S PROVE k + 1 \in S
    <2> SUFFICES ASSUME k + 1 <= Len(s)
                 PROVE  Len(f[k + 1]) = k + 1 /\ \A i \in 1..(k + 1) : f[k + 1][i] = s[i]
      OBVIOUS
    <2>1. k + 1 \in 1..Len(s) /\ (k + 1) - 1 = k /\ k \in 0..Len(s) BY <1>4
    <2>2. Len(f[k]) = k /\ \A i \in 1..k : f[k][i] = s[i] BY <1>4, <2>1
    <2>3. f[k + 1] = Append(f[k], s[k + 1]) BY <2>1, <1>1 DEF IsKept
    <2>4. f[k] \in Seq(T) BY <2>1
    <2>5. Len(f[k + 1]) = k + 1 BY <2>2, <2>3, <2>4
    <2>6. f[k + 1][k + 1] = s[k + 1] BY <2>2, <2>3, <2>4
    <2>7. \A i \in 1..k : f[k + 1][i] = s[i] BY <2>2, <2>3, <2>4
    <2> QED BY <2>5, <2>6, <2>7
  <1> HIDE DEF S
  <1>5. Nat \subseteq S BY ONLY <1>3, <1>4, Induction
  <1>6. Len(s) \in Nat OBVIOUS
  <1>7. Len(Only(s, set)) = Len(s) /\ \A i \in 1..Len(s) : Only(s, set)[i] = s[i]
    BY <1>1, <1>5, <1>6 DEF S
  <1>8. Only(s, set) \in Seq(T) BY <1>1, <1>6
  <1> QED BY <1>7, <1>8

Shifts(a, b, x) == Append(a \o b, x) = a \o Append(b, x)

LEMMA AppendConcat ==
  ASSUME NEW T, NEW a \in Seq(T), NEW b \in Seq(T), NEW x \in T
  PROVE  Shifts(a, b, x)
  <1> DEFINE l == Append(a \o b, x)
             r == a \o Append(b, x)
             n == Len(a)
             m == Len(b)
  <1>1. n \in Nat /\ m \in Nat /\ a \o b \in Seq(T) /\ Append(b, x) \in Seq(T)
        /\ Len(a \o b) = n + m /\ Len(Append(b, x)) = m + 1
    OBVIOUS
  <1>2. l \in Seq(T) /\ r \in Seq(T) /\ Len(l) = n + m + 1 /\ Len(r) = n + (m + 1) BY <1>1
  <1>3. ASSUME NEW i \in 1..(n + m + 1) PROVE l[i] = r[i]
    <2>1. CASE i \in 1..n BY <2>1, <1>1
    <2>2. CASE i \in (n + 1)..(n + m)
      <3>1. i - n \in 1..m /\ i \in 1..(n + m) /\ i - n \in 1..(m + 1) BY <2>2, <1>1
      <3>2. l[i] = b[i - n] BY <2>2, <3>1, <1>1
      <3>3. r[i] = Append(b, x)[i - n] BY <2>2, <3>1, <1>1
      <3> QED BY <3>1, <3>2, <3>3
    <2>3. CASE i = n + m + 1
      <3>1. l[i] = x BY <2>3, <1>1
      <3>2. r[i] = Append(b, x)[m + 1] BY <2>3, <1>1
      <3> QED BY <3>1, <3>2
    <2> QED BY <1>1, <2>1, <2>2, <2>3
  <1> HIDE DEF l, r, n, m
  <1>4. l = r BY ONLY <1>1, <1>2, <1>3
  <1> QED BY <1>4 DEF l, r, Shifts

OnlySplits(s, r, set) == Only(s \o r, set) = Only(s, set) \o Only(r, set)

LEMMA OnlyConcat ==
  ASSUME NEW T, NEW s \in Seq(T), NEW r \in Seq(T), NEW set
  PROVE  OnlySplits(s, r, set)
  <1> DEFINE u == s \o r
             n == Len(s)
             m == Len(r)
  <1>1. PICK g \in [0..n -> Seq(T)] : IsKept(g, s, set) /\ Only(s, set) = g[n]
    BY OnlyRun
  <1>2. PICK h \in [0..m -> Seq(T)] : IsKept(h, r, set) /\ Only(r, set) = h[m]
    BY OnlyRun
  <1>3. u \in Seq(T) /\ n \in Nat /\ m \in Nat /\ Len(u) = n + m OBVIOUS
  <1>4. (\A i \in 1..n : u[i] = s[i]) /\ \A i \in 1..m : u[n + i] = r[i] OBVIOUS
  <1> HIDE DEF u
  <1>5. PICK f \in [0..Len(u) -> Seq(T)] : IsKept(f, u, set) /\ Only(u, set) = f[Len(u)]
    BY <1>3, OnlyRun
  <1>6. /\ f[0] = <<>> /\ g[0] = <<>> /\ h[0] = <<>>
        /\ \A k \in 1..(n + m) : f[k] = IF u[k] \in set THEN Append(f[k - 1], u[k]) ELSE f[k - 1]
        /\ \A k \in 1..n : g[k] = IF s[k] \in set THEN Append(g[k - 1], s[k]) ELSE g[k - 1]
        /\ \A k \in 1..m : h[k] = IF r[k] \in set THEN Append(h[k - 1], r[k]) ELSE h[k - 1]
    BY <1>1, <1>2, <1>3, <1>5 DEF IsKept
  <1>7. (\A k \in 1..n : s[k] \in T) /\ \A k \in 1..m : r[k] \in T OBVIOUS
  <1> HIDE DEF n, m
  <1> DEFINE S == {k \in Nat : k <= n => f[k] = g[k]}
  <1>8. 0 \in S BY <1>6
  <1>9. ASSUME NEW k \in Nat, k \in S PROVE k + 1 \in S
    <2> SUFFICES ASSUME k + 1 <= n PROVE f[k + 1] = g[k + 1]
      OBVIOUS
    <2>1. k + 1 \in 1..n /\ k + 1 \in 1..(n + m) /\ (k + 1) - 1 = k /\ f[k] = g[k] BY <1>9, <1>3
    <2>2. u[k + 1] = s[k + 1] BY ONLY <2>1, <1>4
    <2>3. f[k + 1] = IF u[k + 1] \in set THEN Append(f[k], u[k + 1]) ELSE f[k] BY ONLY <2>1, <1>6
    <2>4. g[k + 1] = IF s[k + 1] \in set THEN Append(g[k], s[k + 1]) ELSE g[k] BY ONLY <2>1, <1>6
    <2> QED BY ONLY <2>1, <2>2, <2>3, <2>4
  <1> HIDE DEF S
  <1>10. Nat \subseteq S BY ONLY <1>8, <1>9, Induction
  <1>11. f[n] = g[n] BY <1>10, <1>3 DEF S
  <1> DEFINE Extends(k) == f[n + k] = g[n] \o h[k]
             R == {k \in Nat : k <= m => Extends(k)}
  <1> HIDE DEF Extends
  <1>12. g[n] \in Seq(T) /\ \A k \in 0..m : h[k] \in Seq(T) BY <1>3
  <1>13. 0 \in R
    <2>1. n + 0 = n /\ g[n] \o <<>> = g[n] BY <1>3, <1>12
    <2> QED BY <2>1, <1>6, <1>11 DEF Extends
  <1>14. ASSUME NEW k \in Nat, k \in R PROVE k + 1 \in R
    <2> SUFFICES ASSUME k + 1 <= m PROVE Extends(k + 1)
      OBVIOUS
    <2>1. /\ k + 1 \in 1..m /\ n + (k + 1) \in 1..(n + m) /\ (k + 1) - 1 = k
          /\ (n + (k + 1)) - 1 = n + k /\ k \in 0..m
      BY <1>3
    <2>2. f[n + k] = g[n] \o h[k] BY <1>14, <2>1 DEF Extends
    <2>3. u[n + (k + 1)] = r[k + 1] /\ r[k + 1] \in T BY <2>1, <1>4, <1>7
    <2>4. f[n + (k + 1)] = IF r[k + 1] \in set THEN Append(f[n + k], r[k + 1]) ELSE f[n + k]
      BY <2>1, <2>3, <1>6
    <2>5. h[k + 1] = IF r[k + 1] \in set THEN Append(h[k], r[k + 1]) ELSE h[k]
      BY <2>1, <1>6
    <2>6. Append(g[n] \o h[k], r[k + 1]) = g[n] \o Append(h[k], r[k + 1])
      <3> DEFINE a == g[n]
                 b == h[k]
                 x == r[k + 1]
      <3>1. a \in Seq(T) /\ b \in Seq(T) /\ x \in T BY <1>12, <2>1, <2>3
      <3> HIDE DEF a, b, x
      <3>2. Shifts(a, b, x) BY ONLY <3>1, AppendConcat
      <3> QED BY <3>2 DEF a, b, x, Shifts
    <2> QED BY <2>2, <2>4, <2>5, <2>6 DEF Extends
  <1> HIDE DEF R
  <1>15. Nat \subseteq R BY ONLY <1>13, <1>14, Induction
  <1>16. f[n + m] = g[n] \o h[m] BY <1>15, <1>3 DEF R, Extends
  <1> QED BY <1>1, <1>2, <1>3, <1>5, <1>16 DEF u, OnlySplits

LEMMA OnlyAppend ==
  ASSUME NEW T, NEW s \in Seq(T), NEW x \in T, NEW set
  PROVE  Only(Append(s, x), set) = IF x \in set THEN Append(Only(s, set), x) ELSE Only(s, set)
  <1>0. <<>> \in Seq(T) /\ s \o <<>> = s /\ Append(<<>>, x) = <<x>> OBVIOUS
  <1>3. Shifts(s, <<>>, x) BY ONLY <1>0, s \in Seq(T), x \in T, AppendConcat
  <1>1. Append(s, x) = s \o <<x>> /\ <<x>> \in Seq(T) BY <1>0, <1>3 DEF Shifts
  <1>7. OnlySplits(s, <<x>>, set) BY <1>1, OnlyConcat
  <1>2. Only(Append(s, x), set) = Only(s, set) \o Only(<<x>>, set) BY <1>1, <1>7 DEF OnlySplits
  <1>6. Only(s, set) \in Seq(T) BY OnlyFacts
  <1>4. CASE x \in set
    <2>1. Only(<<x>>, set) = <<x>>
      <3>1. \A i \in 1..Len(<<x>>) : <<x>>[i] \in set BY <1>4
      <3> QED BY ONLY <3>1, <1>1, OnlyAll
    <2>2. Only(s, set) \o <<x>> = Append(Only(s, set), x) BY <1>6
    <2> QED BY <2>1, <2>2, <1>2, <1>4
  <1>5. CASE x \notin set
    <2>1. Only(<<x>>, set) = <<>>
      <3>1. \A i \in 1..Len(<<x>>) : <<x>>[i] \notin set BY <1>5
      <3> QED BY ONLY <3>1, <1>1, OnlyNone
    <2>2. Only(s, set) \o <<>> = Only(s, set) BY <1>6
    <2> QED BY <2>1, <2>2, <1>2, <1>5
  <1> QED BY <1>4, <1>5

LEMMA OnlyOnly ==
  ASSUME NEW T, NEW s \in Seq(T), NEW A, NEW B
  PROVE  Only(Only(s, A), B) = Only(s, A \cap B)
  <1>1. PICK f \in [0..Len(s) -> Seq(T)] : IsKept(f, s, A) /\ Only(s, A) = f[Len(s)]
    BY OnlyRun
  <1>2. PICK g \in [0..Len(s) -> Seq(T)] : IsKept(g, s, A \cap B) /\ Only(s, A \cap B) = g[Len(s)]
    BY OnlyRun
  <1>0. <<>> \in Seq(T) /\ \A i \in 1..Len(<<>>) : <<>>[i] \notin B OBVIOUS
  <1>3. Only(<<>>, B) = <<>> BY ONLY <1>0, OnlyNone
  <1> DEFINE S == {k \in Nat : k <= Len(s) => Only(f[k], B) = g[k]}
  <1>4. 0 \in S BY <1>1, <1>2, <1>3 DEF IsKept
  <1>5. ASSUME NEW k \in Nat, k \in S PROVE k + 1 \in S
    <2> SUFFICES ASSUME k + 1 <= Len(s) PROVE Only(f[k + 1], B) = g[k + 1]
      OBVIOUS
    <2>1. k + 1 \in 1..Len(s) /\ (k + 1) - 1 = k /\ k \in 0..Len(s) /\ Only(f[k], B) = g[k] BY <1>5
    <2>2. f[k] \in Seq(T) /\ s[k + 1] \in T BY <2>1
    <2>3. f[k + 1] = IF s[k + 1] \in A THEN Append(f[k], s[k + 1]) ELSE f[k]
      BY <2>1, <1>1 DEF IsKept
    <2>4. g[k + 1] = IF s[k + 1] \in A \cap B THEN Append(g[k], s[k + 1]) ELSE g[k]
      BY <2>1, <1>2 DEF IsKept
    <2>5. Only(Append(f[k], s[k + 1]), B)
            = IF s[k + 1] \in B THEN Append(Only(f[k], B), s[k + 1]) ELSE Only(f[k], B)
      <3> DEFINE a == f[k]
                 x == s[k + 1]
      <3>1. a \in Seq(T) /\ x \in T BY <2>2
      <3> HIDE DEF a, x
      <3>2. Only(Append(a, x), B) = IF x \in B THEN Append(Only(a, B), x) ELSE Only(a, B)
        BY ONLY <3>1, OnlyAppend
      <3> QED BY <3>2 DEF a, x
    <2> QED BY ONLY <2>1, <2>3, <2>4, <2>5
  <1> HIDE DEF S
  <1>6. Nat \subseteq S BY ONLY <1>4, <1>5, Induction
  <1>7. Len(s) \in Nat OBVIOUS
  <1> QED BY <1>1, <1>2, <1>6, <1>7 DEF S

=============================================================================
