------------------------- MODULE ReferenceChecksProofs -------------------------
(***************************************************************************)
(* Proofs about the pure functions against their reference definitions:    *)
(* for files, lists of fills, grids and collections of any size.           *)
(***************************************************************************)
EXTENDS ReferenceChecks, TLAPS, FiniteSetTheorems, SequenceTheorems,
        NaturalsInduction, WellFoundedInduction

(* Numbers and finite sets of them *)

\* Induction, for a set of numbers: the smallest number outside the set has a
\* predecessor.
LEMMA NumbersFromZero ==
    ASSUME NEW T, 0 \in T, \A n \in Nat : n \in T => n + 1 \in T
    PROVE  \A n \in Nat : n \in T
<1> SUFFICES ASSUME {n \in Nat : n \notin T} # {} PROVE FALSE
  OBVIOUS
<1> DEFINE S == {n \in Nat : n \notin T}
<1>1. PICK m \in S : \A k \in S : <<k, m>> \notin OpToRel(<, Nat)
  <2>1. S \subseteq Nat /\ S # {}
    OBVIOUS
  <2> HIDE DEF S
  <2> QED  BY <2>1, NatLessThanWellFounded, WFMin
<1>2. m - 1 \in Nat /\ m - 1 < m
  <2>1. m # 0
    OBVIOUS
  <2> QED  BY <2>1
<1>3. <<m - 1, m>> \in OpToRel(<, Nat)
  BY <1>2 DEF OpToRel
<1>4. m - 1 \in T
  BY <1>1, <1>2, <1>3
<1> QED  BY <1>2, <1>4

\* A finite set of numbers has a greatest element: a smallest subset without one
\* would have one after all.
LEMMA GreatestExists ==
    ASSUME NEW S \in SUBSET Int, IsFiniteSet(S), S # {}
    PROVE  \E m \in S : \A x \in S : m >= x
<1> DEFINE Endless == {T \in SUBSET S : /\ T # {}
                                        /\ ~ \E m \in T : \A x \in T : m >= x}
<1>1. SUFFICES ASSUME Endless # {} PROVE FALSE
  <2>1. Endless = {}
    BY <1>1
  <2> QED  BY <2>1
<1>2. PICK T \in Endless : \A U \in Endless : <<U, T>> \notin StrictSubsetOrdering(S)
  <2>1. IsWellFoundedOn(StrictSubsetOrdering(S), SUBSET S)
    BY FS_StrictSubsetOrderingWellFounded, FS_FiniteSubsetsOfFinite
  <2> HIDE DEF Endless
  <2>2. Endless \subseteq SUBSET S
    BY DEF Endless
  <2> QED  BY <1>1, <2>1, <2>2, WFMin
<1>3. PICK a \in T : a \in Int
  OBVIOUS
<1> DEFINE U == T \ {a}
<1>4. U \notin Endless
  <2>1. U \in SUBSET S /\ T \in SUBSET S /\ U \subseteq T /\ U # T
    BY <1>3
  <2>2. <<U, T>> \in StrictSubsetOrdering(S)
    <3> HIDE DEF U, Endless
    <3> QED  BY <2>1 DEF StrictSubsetOrdering
  <2> QED  BY <1>2, <2>2
<1>5. CASE U = {}
  BY <1>3, <1>5
<1>6. CASE U # {}
  <2>1. PICK m \in U : \A x \in U : m >= x
    BY <1>4, <1>6
  <2>2. CASE m >= a
    BY <1>3, <2>1, <2>2
  <2>3. CASE a >= m
    <3>1. \A x \in T : x \in Int /\ (x \in U \/ x = a)
      OBVIOUS
    <3>2. \A x \in T : a >= x
      BY <1>3, <2>1, <2>3, <3>1
    <3> QED  BY <1>3, <3>2
  <2>4. m \in Int
    OBVIOUS
  <2> QED  BY <1>3, <2>2, <2>3, <2>4
<1> QED  BY <1>5, <1>6

LEMMA MaxOfFinite ==
    ASSUME NEW S \in SUBSET Int, IsFiniteSet(S), S # {}
    PROVE  Max(S) \in S /\ Max(S) \in Int /\ \A x \in S : Max(S) >= x
<1>1. \E m \in S : \A x \in S : m >= x
  BY GreatestExists
<1> QED  BY <1>1 DEF Max

\* The same for the smallest one, by the negatives.
LEMMA MinOfFinite ==
    ASSUME NEW S \in SUBSET Int, IsFiniteSet(S), S # {}
    PROVE  Min(S) \in S /\ Min(S) \in Int /\ \A x \in S : Min(S) <= x
<1> DEFINE N == {-x : x \in S}
           f == [x \in S |-> -x]
<1>1. N \in SUBSET Int /\ N # {}
  OBVIOUS
<1>2. IsFiniteSet(N)
  <2>1. f \in Surjection(S, N)
    BY DEF Surjection
  <2> HIDE DEF f, N
  <2> QED  BY <2>1, FS_Surjection
<1>3. PICK m \in N : \A x \in N : m >= x
  <2> HIDE DEF N
  <2> QED  BY <1>1, <1>2, GreatestExists
<1>4. PICK s \in S : m = -s
  OBVIOUS
<1>5. \A x \in S : s <= x
  <2> TAKE x \in S
  <2>1. m >= -x /\ x \in Int /\ s \in Int
    BY <1>3
  <2> QED  BY <1>4, <2>1
<1>6. \E s1 \in S : \A x \in S : s1 <= x
  BY <1>5
<1> QED  BY <1>6 DEF Min

\* The greatest element is known by what it is.
LEMMA MaxIs ==
    ASSUME NEW S \in SUBSET Int, NEW m \in S, \A x \in S : m >= x
    PROVE  Max(S) = m
<1>1. \A k \in S : (\A x \in S : k >= x) => k = m
  OBVIOUS
<1> QED  BY <1>1 DEF Max

LEMMA MaxOfPair ==
    ASSUME NEW a \in Int, NEW b \in Int, a <= b
    PROVE  Max({a, b}) = b
<1> DEFINE S == {a, b}
<1>1. S \in SUBSET Int /\ b \in S /\ \A x \in S : b >= x
  OBVIOUS
<1> HIDE DEF S
<1>2. Max(S) = b
  BY <1>1, MaxIs
<1> QED  BY <1>2 DEF S

\* A loop of N turns that computes a value of S after each of them, from the
\* value before.
IsLoop(N, S, start, next) ==
    N \in Nat /\ start \in S /\ next \in [(1 .. N) \X S -> S]

Computes(N, S, start, next, g) ==
    /\ g \in [0 .. N -> S]
    /\ g[0] = start
    /\ \A n \in 1 .. N : g[n] = next[<<n, g[n - 1]>>]

LEMMA Iteration ==
    ASSUME NEW N, NEW S, NEW start, NEW next, IsLoop(N, S, start, next)
    PROVE  \E g : Computes(N, S, start, next, g)
<1> USE DEF IsLoop
<1> DEFINE Until(k, g) == /\ g \in [0 .. k -> S]
                          /\ g[0] = start
                          /\ \A n \in 1 .. k : g[n] = next[<<n, g[n - 1]>>]
           T == {k \in Nat : k <= N => \E g : Until(k, g)}
<1>1. 0 \in T
  <2> DEFINE g == [n \in 0 .. 0 |-> start]
  <2>1. Until(0, g)
    OBVIOUS
  <2> QED  BY <2>1
<1>2. ASSUME NEW k \in Nat, k \in T
      PROVE  k + 1 \in T
  <2> SUFFICES ASSUME k + 1 <= N PROVE \E g : Until(k + 1, g)
    OBVIOUS
  <2>1. PICK g : Until(k, g)
    BY <1>2
  <2>2. <<k + 1, g[k]>> \in (1 .. N) \X S
    BY <2>1
  <2>3. next[<<k + 1, g[k]>>] \in S
    BY <2>2
  <2> DEFINE h == [n \in 0 .. k + 1 |-> IF n = k + 1 THEN next[<<k + 1, g[k]>>]
                                        ELSE g[n]]
  <2>4. /\ h \in [0 .. k + 1 -> S]
        /\ \A n \in 0 .. k : h[n] = g[n]
        /\ h[k + 1] = next[<<k + 1, g[k]>>]
    BY <2>1, <2>3
  <2> HIDE DEF h
  <2>5. \A n \in 1 .. k + 1 : h[n] = next[<<n, h[n - 1]>>]
    <3> TAKE n \in 1 .. k + 1
    <3>1. CASE n = k + 1
      BY <2>4, <3>1
    <3>2. CASE n \in 1 .. k
      <4>1. n - 1 \in 0 .. k /\ n \in 0 .. k
        BY <3>2
      <4> QED  BY <2>1, <2>4, <3>2, <4>1
    <3> QED  BY <3>1, <3>2
  <2> QED  BY <2>1, <2>4, <2>5
<1> HIDE DEF T
<1>3. N \in T
  BY <1>1, <1>2, NumbersFromZero
<1>4. PICK g : Until(N, g)
  BY <1>3 DEF T
<1> QED  BY <1>4 DEF Computes

\* Two loops that do the same turn by turn compute the same.
Alike(N, g, h) ==
    /\ N \in Nat /\ g[0] = h[0]
    /\ \A n \in 1 .. N : g[n - 1] = h[n - 1] => g[n] = h[n]

LEMMA SameTurns ==
    ASSUME NEW N, NEW g, NEW h, Alike(N, g, h)
    PROVE  \A n \in 0 .. N : g[n] = h[n]
<1> USE DEF Alike
<1> DEFINE T == {n \in Nat : n <= N => g[n] = h[n]}
<1>1. 0 \in T
  OBVIOUS
<1>2. ASSUME NEW n \in Nat, n \in T
      PROVE  n + 1 \in T
  <2>1. n + 1 <= N => n + 1 \in 1 .. N /\ (n + 1) - 1 = n /\ n <= N
    OBVIOUS
  <2> QED  BY <1>2, <2>1
<1> HIDE DEF T
<1>3. \A n \in Nat : n \in T
  BY <1>1, <1>2, NumbersFromZero
<1> QED  BY <1>3 DEF T

\* As many values as arguments at most.
LEMMA ImageFinite ==
    ASSUME NEW D, IsFiniteSet(D), NEW f, NEW S, S = {f[x] : x \in D}
    PROVE  IsFiniteSet(S)
<1> DEFINE g == [x \in D |-> f[x]]
<1>1. g \in Surjection(D, S)
  BY DEF Surjection
<1> HIDE DEF g
<1> QED  BY <1>1, FS_Surjection

--------------------------------------------------------------------------------
(* Strategies *)

\* What is asked for is made of base kinds with numbers.
Described(p) ==
    /\ p.kind \notin BaseKinds => p.conditions \in Seq(Indicators(p))
    /\ \A c \in Indicators(p) : c.kind \in BaseKinds /\ Fields(c) \subseteq Int

\* A single kind: its indicators have a value by the end of its warm-up, and the
\* form counts as the server does.
LEMMA BaseKind ==
    ASSUME NEW c, c.kind \in BaseKinds, Fields(c) \subseteq Int, ValidBase(c)
    PROVE  /\ WarmUp(c) \in Int /\ 1 <= WarmUp(c)
           /\ FirstValue(c) \in Int /\ FirstValue(c) <= WarmUp(c)
           /\ FormWarmUp(c) = WarmUp(c)
           /\ \A number \in Fields(c) : number >= 1
           /\ ~CrossFieldError(c)
<1>1. CASE c.kind = "sma_crossover"
  <2>1. /\ c.fast \in Int /\ c.slow \in Int /\ 1 <= c.fast /\ c.fast < c.slow
        /\ Fields(c) = {c.fast, c.slow}
    BY <1>1 DEF Fields, ValidBase
  <2>2. Max({c.fast, c.slow}) = c.slow
    BY <2>1, MaxOfPair
  <2> QED  BY <1>1, <2>1, <2>2 DEF WarmUp, FirstValue, FormWarmUp, CrossFieldError
<1>2. CASE c.kind = "rsi_threshold"
  <2>1. /\ c.period \in Int /\ c.oversold \in Int /\ c.overbought \in Int
        /\ 2 <= c.period /\ 0 < c.oversold /\ c.oversold < c.overbought
        /\ Fields(c) = {c.period, c.oversold, c.overbought}
    BY <1>2 DEF Fields, ValidBase
  <2> QED  BY <1>2, <2>1 DEF WarmUp, FirstValue, FormWarmUp, CrossFieldError
<1>3. CASE c.kind = "macd_crossover"
  <2>1. /\ c.fast \in Int /\ c.slow \in Int /\ c.signal \in Int
        /\ 1 <= c.fast /\ c.fast < c.slow /\ 1 <= c.signal
        /\ Fields(c) = {c.fast, c.slow, c.signal}
    BY <1>3 DEF Fields, ValidBase
  <2>2. Max({c.fast, c.slow}) = c.slow
    BY <2>1, MaxOfPair
  <2> QED  BY <1>3, <2>1, <2>2 DEF WarmUp, FirstValue, FormWarmUp, CrossFieldError
<1>4. CASE c.kind = "bollinger_breakout"
  <2>1. /\ c.period \in Int /\ c.deviations \in 1 .. 4 /\ 2 <= c.period
        /\ Fields(c) = {c.period, c.deviations}
    BY <1>4 DEF Fields, ValidBase
  <2> QED  BY <1>4, <2>1 DEF WarmUp, FirstValue, FormWarmUp, CrossFieldError
<1> QED  BY <1>1, <1>2, <1>3, <1>4 DEF BaseKinds

LEMMA AllKinds ==
    ASSUME NEW p, Described(p), ValidParameters(p)
    PROVE  /\ IsFiniteSet(Indicators(p)) /\ Indicators(p) # {}
           /\ \A c \in Indicators(p) :
                 /\ WarmUp(c) \in Int /\ 1 <= WarmUp(c)
                 /\ FirstValue(c) \in Int /\ FirstValue(c) <= WarmUp(c)
                 /\ FormWarmUp(c) = WarmUp(c)
                 /\ \A number \in Fields(c) : number >= 1
                 /\ ~CrossFieldError(c)
<1>1. IsFiniteSet(Indicators(p)) /\ Indicators(p) # {}
  <2>1. CASE p.kind \in BaseKinds
    BY <2>1, FS_Singleton DEF Indicators
  <2>2. CASE p.kind \notin BaseKinds
    <3>1. /\ p.conditions \in Seq(Indicators(p)) /\ Len(p.conditions) \in 2 .. 3
          /\ Indicators(p) = {p.conditions[i] : i \in DOMAIN p.conditions}
      BY <2>2 DEF Described, ValidParameters, Indicators
    <3>2. DOMAIN p.conditions = 1 .. Len(p.conditions) /\ 1 \in DOMAIN p.conditions
      BY <3>1
    <3>3. IsFiniteSet(DOMAIN p.conditions)
      BY <3>1, <3>2, FS_Interval
    <3>4. IsFiniteSet(Indicators(p))
      <4> DEFINE f == p.conditions
                 D == DOMAIN p.conditions
      <4>1. Indicators(p) = {f[i] : i \in D} /\ IsFiniteSet(D)
        BY <3>1, <3>3
      <4> HIDE DEF f, D
      <4> QED  BY <4>1, ImageFinite
    <3>5. Indicators(p) # {}
      BY <3>1, <3>2
    <3> QED  BY <3>4, <3>5
  <2> QED  BY <2>1, <2>2
<1>2. \A c \in Indicators(p) :
         c.kind \in BaseKinds /\ Fields(c) \subseteq Int /\ ValidBase(c)
  BY DEF Described, ValidParameters, Indicators
<1> QED  BY <1>1, <1>2, BaseKind

\* The warm-up that is required covers that of every indicator.
LEMMA EnoughWarmUp ==
    ASSUME NEW p, Described(p), ValidParameters(p)
    PROVE  /\ RequiredWarmUp(p) \in Int /\ 1 <= RequiredWarmUp(p)
           /\ \A c \in Indicators(p) : WarmUp(c) <= RequiredWarmUp(p)
           /\ FormEligible(p) = RequiredWarmUp(p)
<1> DEFINE warmUps == {WarmUp(c) : c \in Indicators(p)}
<1>1. /\ IsFiniteSet(Indicators(p)) /\ Indicators(p) # {}
      /\ \A c \in Indicators(p) : /\ WarmUp(c) \in Int /\ 1 <= WarmUp(c)
                                  /\ FormWarmUp(c) = WarmUp(c)
  BY AllKinds
<1>2. warmUps \in SUBSET Int /\ warmUps # {}
  BY <1>1
<1>3. IsFiniteSet(warmUps)
  <2> DEFINE f == [c \in Indicators(p) |-> WarmUp(c)]
  <2>1. f \in Surjection(Indicators(p), warmUps)
    BY DEF Surjection
  <2> HIDE DEF f, warmUps
  <2> QED  BY <1>1, <2>1, FS_Surjection
<1>4. Max(warmUps) \in warmUps /\ Max(warmUps) \in Int
      /\ \A x \in warmUps : Max(warmUps) >= x
  <2> HIDE DEF warmUps
  <2> QED  BY <1>2, <1>3, MaxOfFinite
<1>5. RequiredWarmUp(p) = Max(warmUps)
  BY DEF RequiredWarmUp
<1>6. FormEligible(p) = Max(warmUps)
  <2>1. {FormWarmUp(c) : c \in Indicators(p)} = warmUps
    BY <1>1
  <2> QED  BY <2>1 DEF FormEligible
<1>7. 1 <= Max(warmUps) /\ \A c \in Indicators(p) : WarmUp(c) <= Max(warmUps)
  <2>1. \A x \in warmUps : 1 <= x
    BY <1>1
  <2>2. \A c \in Indicators(p) : WarmUp(c) \in warmUps
    OBVIOUS
  <2> HIDE DEF warmUps
  <2> QED  BY <1>1, <1>4, <2>1, <2>2
<1> QED  BY <1>4, <1>5, <1>6, <1>7

LEMMA AcceptedIsWarm ==
    ASSUME NEW p, NEW e \in Int, Described(p), AcceptsStrategy(p, e)
    PROVE  FirstDecision(p, e) \in e .. e + 1
<1> DEFINE days == {e} \cup {FirstValue(c) + 1 : c \in Indicators(p)}
<1>1. /\ IsFiniteSet(Indicators(p))
      /\ \A c \in Indicators(p) : FirstValue(c) \in Int /\ FirstValue(c) <= WarmUp(c)
                                  /\ WarmUp(c) \in Int
  BY AllKinds DEF AcceptsStrategy
<1>2. /\ RequiredWarmUp(p) \in Int /\ RequiredWarmUp(p) <= e
      /\ \A c \in Indicators(p) : WarmUp(c) <= RequiredWarmUp(p)
  BY EnoughWarmUp DEF AcceptsStrategy
<1>3. days \in SUBSET Int /\ e \in days
  BY <1>1
<1>4. IsFiniteSet(days)
  <2> DEFINE S == {FirstValue(c) + 1 : c \in Indicators(p)}
             f == [c \in Indicators(p) |-> FirstValue(c) + 1]
  <2>1. f \in Surjection(Indicators(p), S)
    BY DEF Surjection
  <2>2. IsFiniteSet(S)
    <3> HIDE DEF f, S
    <3> QED  BY <1>1, <2>1, FS_Surjection
  <2>3. IsFiniteSet({e})
    BY FS_Singleton
  <2> QED  BY <2>2, <2>3, FS_Union
<1>5. \A x \in days : x <= e + 1
  <2>1. \A c \in Indicators(p) : FirstValue(c) + 1 <= e + 1
    BY <1>1, <1>2
  <2> QED  BY <2>1
<1>6. Max(days) \in days /\ Max(days) \in Int /\ Max(days) >= e
  <2> HIDE DEF days
  <2> QED  BY <1>3, <1>4, MaxOfFinite
<1>7. FirstDecision(p, e) = Max(days)
  BY DEF FirstDecision
<1> HIDE DEF days
<1> QED  BY <1>5, <1>6, <1>7

\* The kinds of a valid combination are as many as its conditions.
LEMMA KindsDiffer ==
    ASSUME NEW p, Described(p), ValidParameters(p), p.kind \notin BaseKinds
    PROVE  Cardinality({c.kind : c \in Indicators(p)}) = Len(p.conditions)
<1> DEFINE D == 1 .. Len(p.conditions)
           S == {c.kind : c \in Indicators(p)}
           f == [i \in D |-> p.conditions[i].kind]
<1>1. /\ p.conditions \in Seq(Indicators(p)) /\ Len(p.conditions) \in Nat
      /\ DOMAIN p.conditions = D
  BY DEF Described
<1>2. S = {p.conditions[i].kind : i \in D}
  BY <1>1 DEF Indicators
<1>3. \A i, j \in D : f[i] = f[j] => i = j
  BY <1>1 DEF ValidParameters
<1>4. f \in Bijection(D, S)
  <2>1. f \in [D -> S] /\ \A y \in S : \E i \in D : f[i] = y
    BY <1>2
  <2> HIDE DEF f, S, D
  <2> QED  BY <1>3, <2>1 DEF Bijection, Injection, IsInjective, Surjection
<1>5. IsFiniteSet(D) /\ Cardinality(D) = Len(p.conditions)
  BY <1>1, FS_Interval
<1> HIDE DEF f, S, D
<1>6. Cardinality(S) = Cardinality(D)
  BY <1>4, <1>5, FS_Bijection DEF ExistsBijection
<1> QED  BY <1>5, <1>6 DEF S

LEMMA FormSendsAccepted ==
    ASSUME NEW p, NEW e \in Int, Described(p), AcceptsStrategy(p, e)
    PROVE  /\ FormSendsStrategy(p)
           /\ FormEligible(p) <= e
           /\ AcceptsStrategy(p, FormEligible(p))
<1>1. ValidParameters(p) /\ RequiredWarmUp(p) <= e
  BY DEF AcceptsStrategy
<1>2. FormSendsStrategy(p)
  <2>1. \A c \in Indicators(p) :
           (\A number \in Fields(c) : number >= 1) /\ ~CrossFieldError(c)
    BY <1>1, AllKinds
  <2>2. p.kind \notin BaseKinds =>
           /\ Len(p.conditions) \in 2 .. 3
           /\ Cardinality({c.kind : c \in Indicators(p)}) = Len(p.conditions)
    BY <1>1, KindsDiffer DEF ValidParameters
  <2> QED  BY <2>1, <2>2 DEF FormSendsStrategy
<1> QED  BY <1>1, <1>2, EnoughWarmUp DEF AcceptsStrategy

--------------------------------------------------------------------------------
(* Optimizations *)

\* What is asked for has finitely many windows and days, all of them numbers.
Requested(q, days) ==
    /\ \A numbers \in {days, q.fastWindows, q.slowWindows} :
          numbers \subseteq Int /\ IsFiniteSet(numbers)
    /\ \A period \in {q.train, q.validation, q.holdout} :
          period.from \in Int /\ period.to \in Int

LEMMA SnapshotFinite ==
    ASSUME NEW days \in SUBSET Int, IsFiniteSet(days), NEW period
    PROVE  /\ IsFiniteSet(Snapshot(days, period))
           /\ Cardinality(Snapshot(days, period)) \in Nat
<1>1. Snapshot(days, period) \subseteq days
  BY DEF Snapshot
<1> QED  BY <1>1, FS_Subset, FS_CardinalityType

\* A candidate is accepted, and decides by the bar after its slow window.
LEMMA CandidateAccepted ==
    ASSUME NEW q, NEW days, Requested(q, days), ValidGrid(q),
           NEW c \in ValidPairs(q)
    PROVE  /\ AcceptsStrategy(CandidateStrategy(c), c[2])
           /\ c[2] \in Int /\ 1 <= c[2]
           /\ FirstDecision(CandidateStrategy(c), c[2]) \in c[2] .. c[2] + 1
<1> DEFINE p == CandidateStrategy(c)
<1>1. /\ c[1] \in Int /\ c[2] \in Int /\ 1 <= c[1] /\ c[1] < c[2] /\ 1 <= c[2]
      /\ c[2] \in q.slowWindows
  BY DEF Requested, ValidGrid, ValidPairs, Pairs
<1>2. /\ p.kind = "sma_crossover" /\ p.priceField = "close"
      /\ p.fast = c[1] /\ p.slow = c[2] /\ p.kind \in BaseKinds
  BY DEF CandidateStrategy, BaseKinds
<1> HIDE DEF p
<1>3. Indicators(p) = {p}
  BY <1>2 DEF Indicators
<1>4. Fields(p) = {c[1], c[2]}
  BY <1>2 DEF Fields
<1>5. Described(p)
  BY <1>1, <1>2, <1>3, <1>4 DEF Described
<1>6. ValidParameters(p)
  BY <1>1, <1>2 DEF ValidParameters, ValidBase
<1>7. RequiredWarmUp(p) = c[2]
  <2>1. WarmUp(p) = c[2]
    BY <1>2 DEF WarmUp
  <2>2. {WarmUp(x) : x \in Indicators(p)} = {c[2], c[2]}
    BY <1>3, <2>1
  <2> QED  BY <1>1, <2>2, MaxOfPair DEF RequiredWarmUp
<1>8. AcceptsStrategy(p, c[2])
  BY <1>1, <1>6, <1>7 DEF AcceptsStrategy
<1> QED  BY <1>1, <1>5, <1>8, AcceptedIsWarm DEF p

LEMMA LargestWindow ==
    ASSUME NEW q, NEW days, Requested(q, days), ValidGrid(q)
    PROVE  /\ LargestSlowWindow(q) \in Int /\ 1 <= LargestSlowWindow(q)
           /\ \A c \in ValidPairs(q) : c[2] <= LargestSlowWindow(q)
<1> DEFINE S == IF ValidPairs(q) = {} THEN q.slowWindows
                ELSE {c[2] : c \in ValidPairs(q)}
<1>1. /\ q.slowWindows \subseteq Int /\ IsFiniteSet(q.slowWindows)
      /\ q.slowWindows # {} /\ \A w \in q.slowWindows : w >= 1
  BY DEF Requested, ValidGrid
<1>2. \A c \in ValidPairs(q) : c[2] \in q.slowWindows
  BY DEF ValidPairs, Pairs
<1>3. S \subseteq q.slowWindows /\ S # {}
  BY <1>1, <1>2
<1>4. \A c \in ValidPairs(q) : c[2] \in S
  OBVIOUS
<1>5. LargestSlowWindow(q) = Max(S)
  BY DEF LargestSlowWindow
<1> HIDE DEF S
<1>6. IsFiniteSet(S) /\ S \in SUBSET Int
  BY <1>1, <1>3, FS_Subset
<1>7. Max(S) \in S /\ Max(S) \in Int /\ \A x \in S : Max(S) >= x
  BY <1>3, <1>6, MaxOfFinite
<1> QED  BY <1>1, <1>3, <1>4, <1>5, <1>6, <1>7

\* Each of the three periods of an accepted optimization has the bars it needs.
LEMMA PeriodsAreCovered ==
    ASSUME NEW q, NEW days, AcceptsOptimization(q, days), NEW leg \in {"train", "validation", "holdout"}
    PROVE  Cardinality(Snapshot(days, Period(q, leg))) >= LargestSlowWindow(q) + 2
BY DEF AcceptsOptimization, MinimumBars, Period

\* The validation period lies within what the dataset covers: there are days
\* before it and days after it, and more than one in it.
LEMMA ValidationIsCovered ==
    ASSUME NEW q, NEW days, Requested(q, days), AcceptsOptimization(q, days)
    PROVE  /\ WithinCoverage(days, q.validation)
           /\ q.validation.from < q.validation.to
<1>1. ValidGrid(q) /\ ValidPartitions(q)
  BY DEF AcceptsOptimization
<1>2. days \in SUBSET Int /\ IsFiniteSet(days)
  BY DEF Requested
<1>3. \A period \in {q.train, q.validation, q.holdout} :
         /\ IsFiniteSet(Snapshot(days, period))
         /\ Cardinality(Snapshot(days, period)) \in Nat
         /\ Cardinality(Snapshot(days, period)) >= 3
  <2>1. LargestSlowWindow(q) \in Int /\ 1 <= LargestSlowWindow(q)
    BY <1>1, LargestWindow
  <2> TAKE period \in {q.train, q.validation, q.holdout}
  <2>2. Cardinality(Snapshot(days, period)) >= LargestSlowWindow(q) + 2
    BY DEF AcceptsOptimization, MinimumBars
  <2> QED  BY <1>2, <2>1, <2>2, SnapshotFinite
<1>4. \A period \in {q.train, q.validation, q.holdout} :
         Snapshot(days, period) # {}
  BY <1>3, FS_EmptySet
<1>5. PICK before \in Snapshot(days, q.train) : TRUE
  BY <1>4
<1>6. PICK after \in Snapshot(days, q.holdout) : TRUE
  BY <1>4
<1>7. /\ before \in days /\ before \in Int /\ before <= q.train.to
      /\ after \in days /\ after \in Int /\ q.holdout.from <= after
  BY <1>2, <1>5, <1>6 DEF Snapshot, Requested
<1>8. /\ Min(days) \in Int /\ Min(days) <= before
      /\ Max(days) \in Int /\ Max(days) >= after
  BY <1>2, <1>7, MinOfFinite, MaxOfFinite
<1>9. /\ q.train.to \in Int /\ q.validation.from \in Int
      /\ q.validation.to \in Int /\ q.holdout.from \in Int
      /\ q.train.to < q.validation.from /\ q.validation.to < q.holdout.from
      /\ q.validation.from <= q.validation.to
  BY <1>1 DEF Requested, ValidPartitions
<1>10. WithinCoverage(days, q.validation)
  BY <1>7, <1>8, <1>9 DEF WithinCoverage
<1>11. q.validation.from # q.validation.to
  <2>1. SUFFICES ASSUME q.validation.from = q.validation.to PROVE FALSE
    OBVIOUS
  <2>2. Snapshot(days, q.validation) \subseteq {q.validation.from}
    BY <1>9, <2>1 DEF Snapshot
  <2>3. Cardinality(Snapshot(days, q.validation)) <= 1
    <3> DEFINE S == {q.validation.from}
               T == Snapshot(days, q.validation)
    <3>1. IsFiniteSet(S) /\ Cardinality(S) = 1
      BY FS_Singleton
    <3>2. T \in SUBSET S
      BY <2>2
    <3> HIDE DEF S, T
    <3>3. Cardinality(T) <= Cardinality(S)
      BY <3>1, <3>2, FS_Subset
    <3> QED  BY <3>1, <3>3 DEF T
  <2> QED  BY <1>3, <2>3
<1> QED  BY <1>9, <1>10, <1>11

LEMMA CandidatesRoom ==
    ASSUME NEW q, NEW days, Requested(q, days), AcceptsOptimization(q, days)
    PROVE  /\ \A c \in ValidPairs(q) :
                 /\ AcceptsStrategy(CandidateStrategy(c), c[2])
                 /\ \A leg \in RunnableLegs(q, days) :
                       FirstDecision(CandidateStrategy(c), c[2]) + 1
                           <= Cardinality(Snapshot(days, Period(q, leg)))
           /\ RunnableLegs(q, days) # {} => "validation" \in RunnableLegs(q, days)
<1>1. ValidGrid(q)
  BY DEF AcceptsOptimization
<1>2. LargestSlowWindow(q) \in Int
  BY <1>1, LargestWindow
<1>3. ASSUME NEW c \in ValidPairs(q), NEW leg \in RunnableLegs(q, days)
      PROVE  FirstDecision(CandidateStrategy(c), c[2]) + 1
                 <= Cardinality(Snapshot(days, Period(q, leg)))
  <2>1. /\ c[2] \in Int
        /\ FirstDecision(CandidateStrategy(c), c[2]) \in c[2] .. c[2] + 1
    BY <1>1, CandidateAccepted
  <2>2. c[2] <= LargestSlowWindow(q)
    BY <1>1, LargestWindow
  <2>3. Cardinality(Snapshot(days, Period(q, leg))) >= LargestSlowWindow(q) + 2
    BY PeriodsAreCovered DEF RunnableLegs
  <2>4. Cardinality(Snapshot(days, Period(q, leg))) \in Nat
    BY SnapshotFinite DEF Requested
  <2> QED  BY <1>2, <2>1, <2>2, <2>3, <2>4
<1>4. ASSUME NEW leg \in RunnableLegs(q, days)
      PROVE  "validation" \in RunnableLegs(q, days)
  <2>1. ValidSettings(StoredSettings(q.settings))
    BY DEF RunnableLegs, AcceptsRun
  <2>2. Period(q, "validation") = q.validation
    BY DEF Period
  <2> QED  BY <2>1, <2>2, ValidationIsCovered DEF RunnableLegs, AcceptsRun
<1> QED  BY <1>1, <1>3, <1>4, CandidateAccepted

LEMMA FormsForOptimizations ==
    ASSUME NEW q, NEW days, Requested(q, days)
    PROVE  /\ FormSendsOptimization(q) <=> ValidGrid(q) /\ ValidPartitions(q)
           /\ \A leg \in RunnableLegs(q, days) :
                 FormSendsRun(Period(q, leg), StoredSettings(q.settings))
<1>1. FormSendsOptimization(q) <=> ValidGrid(q) /\ ValidPartitions(q)
  BY DEF FormSendsOptimization, ValidGrid, ValidPartitions
<1>2. ASSUME NEW leg \in RunnableLegs(q, days)
      PROVE  FormSendsRun(Period(q, leg), StoredSettings(q.settings))
  <2>1. /\ Period(q, leg).from < Period(q, leg).to
        /\ ValidSettings(StoredSettings(q.settings))
    BY DEF RunnableLegs, AcceptsRun
  <2>2. Period(q, leg).from \in Int /\ Period(q, leg).to \in Int
    BY DEF Requested, Period, RunnableLegs
  <2> QED  BY <2>1, <2>2 DEF FormSendsRun, ValidSettings
<1> QED  BY <1>1, <1>2

--------------------------------------------------------------------------------
(* Requests in a behaviour *)

\* What was asked for is one of the requests, and is never replaced.
AskedOK ==
    \/ asked = <<>>
    \/ \E spec \in Strategies : asked = <<"strategy", spec>>
    \/ \E optimization \in Optimizations : asked = <<"optimization", optimization>>

LEMMA AskedIsARequest == Spec => []AskedOK
<1>1. Init => AskedOK
  BY DEF Init, AskedOK
<1>2. AskedOK /\ [Next]_vars => AskedOK'
  <2> SUFFICES ASSUME AskedOK, [Next]_vars PROVE AskedOK'
    OBVIOUS
  <2>1. CASE UNCHANGED asked
    BY <2>1 DEF AskedOK
  <2>2. CASE AskForStrategy \/ AskForOptimization
    BY <2>2 DEF AskForStrategy, AskForOptimization, Ask, AskedOK
  <2> QED  BY <2>1, <2>2 DEF Next, vars, AppendRow, Buy, Sell, Fill, ReadTable
<1> QED  BY <1>1, <1>2, PTL DEF Spec

\* What is known of a request when there is one.
LEMMA AskedStrategy ==
    ASSUME AskedOK, asked # <<>>, asked[1] = "strategy"
    PROVE  /\ Described(asked[2].parameters)
           /\ asked[2].eligibleAfter \in Int
<1>1. PICK spec \in Strategies : asked = <<"strategy", spec>>
  BY DEF AskedOK
<1> QED  BY <1>1, StrategiesAssumption DEF Described

LEMMA AskedOptimization ==
    ASSUME AskedOK, asked # <<>>, asked[1] = "optimization"
    PROVE  Requested(asked[2].request, asked[2].days)
<1>1. PICK optimization \in Optimizations : asked = <<"optimization", optimization>>
  BY DEF AskedOK
<1> QED  BY <1>1, OptimizationsAssumption DEF Requested

\* StrategiesAreWarm: for strategies of any numbers and combinations of them,
\* required_warmup_bars covers what the engine's indicators need.
THEOREM StrategiesWarm == Spec => []StrategiesAreWarm
<1>1. AskedOK => StrategiesAreWarm
  BY AskedStrategy, AcceptedIsWarm DEF StrategiesAreWarm
<1> QED  BY <1>1, AskedIsARequest, PTL

\* CandidatesHaveRoom: for grids, periods and datasets of any size,
\* validate_partition_bar_coverage leaves each candidate a bar to decide on and
\* one to fill the order on.
THEOREM CandidatesDecide == Spec => []CandidatesHaveRoom
<1>1. AskedOK => CandidatesHaveRoom
  BY AskedOptimization, CandidatesRoom DEF CandidatesHaveRoom
<1> QED  BY <1>1, AskedIsARequest, PTL

\* FormsAgreeWithTheServer: whatever is typed into the forms.
THEOREM FormsAgree == Spec => []FormsAgreeWithTheServer
<1>1. AskedOK => FormsAgreeWithTheServer
  <2>1. ASSUME AskedOK, asked # <<>>, asked[1] = "strategy",
               AcceptsStrategy(asked[2].parameters, asked[2].eligibleAfter)
        PROVE  /\ FormSendsStrategy(asked[2].parameters)
               /\ FormEligible(asked[2].parameters) <= asked[2].eligibleAfter
               /\ AcceptsStrategy(asked[2].parameters,
                                  FormEligible(asked[2].parameters))
    BY <2>1, AskedStrategy, FormSendsAccepted
  <2>2. ASSUME AskedOK, asked # <<>>, asked[1] = "optimization"
        PROVE  LET q == asked[2].request
                   days == asked[2].days
               IN  /\ FormSendsOptimization(q) <=> ValidGrid(q) /\ ValidPartitions(q)
                   /\ \A leg \in RunnableLegs(q, days) :
                         FormSendsRun(Period(q, leg), StoredSettings(q.settings))
    BY <2>2, AskedOptimization, FormsForOptimizations
  <2> QED  BY <2>1, <2>2 DEF FormsAgreeWithTheServer
<1> QED  BY <1>1, AskedIsARequest, PTL

--------------------------------------------------------------------------------
(* Files.  The loop is defined by recursion: a function that satisfies its
   equation exists for every length. *)

ReadersEquation(rows, N, g) ==
    g = [n \in 0 .. N |-> IF n = 0 THEN Unread ELSE ReadRow(g[n - 1], rows[n])]

LEMMA ReadersExist ==
    ASSUME NEW rows, NEW N \in Nat
    PROVE  \E g : ReadersEquation(rows, N, g)
<1> DEFINE T == {k \in Nat : \E g : ReadersEquation(rows, k, g)}
<1>1. 0 \in T
  <2> DEFINE g == [n \in 0 .. 0 |-> Unread]
  <2>1. g = [n \in 0 .. 0 |-> IF n = 0 THEN Unread ELSE ReadRow(g[n - 1], rows[n])]
    OBVIOUS
  <2> QED  BY <2>1 DEF ReadersEquation
<1>2. ASSUME NEW k \in Nat, k \in T
      PROVE  k + 1 \in T
  <2>1. PICK g : g = [n \in 0 .. k |-> IF n = 0 THEN Unread
                                        ELSE ReadRow(g[n - 1], rows[n])]
    BY <1>2 DEF ReadersEquation
  <2> DEFINE h == [n \in 0 .. k + 1 |-> IF n = k + 1 THEN ReadRow(g[k], rows[n])
                                        ELSE g[n]]
  <2>2. /\ \A n \in 0 .. k : h[n] = g[n]
        /\ h[k + 1] = ReadRow(g[k], rows[k + 1])
        /\ h = [n \in 0 .. k + 1 |-> h[n]]
    OBVIOUS
  <2> HIDE DEF h
  <2>3. ASSUME NEW n \in 0 .. k + 1
        PROVE  h[n] = IF n = 0 THEN Unread ELSE ReadRow(h[n - 1], rows[n])
    <3>1. CASE n = 0
      <4>1. 0 \in 0 .. k /\ g[0] = Unread
        BY <2>1
      <4> QED  BY <2>2, <3>1, <4>1
    <3>2. CASE n \in 1 .. k
      <4>1. n - 1 \in 0 .. k /\ n \in 0 .. k /\ n # 0
        BY <3>2
      <4>2. g[n] = ReadRow(g[n - 1], rows[n])
        BY <2>1, <4>1
      <4>3. h[n] = g[n] /\ h[n - 1] = g[n - 1]
        BY <2>2, <4>1
      <4> QED  BY <4>1, <4>2, <4>3
    <3>3. CASE n = k + 1
      <4>1. n - 1 = k /\ k \in 0 .. k /\ n # 0
        BY <3>3
      <4> QED  BY <2>2, <3>3, <4>1
    <3> QED  BY <3>1, <3>2, <3>3
  <2>4. ReadersEquation(rows, k + 1, h)
    BY <2>2, <2>3 DEF ReadersEquation
  <2> QED  BY <2>4
<1> HIDE DEF T
<1>3. N \in T
  BY <1>1, <1>2, NumbersFromZero
<1> QED  BY <1>3 DEF T

\* What the loop of parse_csv knows after each row.
LEMMA ReadersUnfold ==
    ASSUME NEW rows, Len(rows) \in Nat
    PROVE  /\ Readers(rows)[0] = Unread
           /\ \A n \in 1 .. Len(rows) :
                 Readers(rows)[n] = ReadRow(Readers(rows)[n - 1], rows[n])
<1>1. Readers(rows) = CHOOSE g : ReadersEquation(rows, Len(rows), g)
  BY DEF Readers, ReadersEquation
<1>2. ReadersEquation(rows, Len(rows), Readers(rows))
  BY <1>1, ReadersExist
<1>3. DOMAIN Readers(rows) = 0 .. Len(rows)
  BY <1>2 DEF ReadersEquation
<1> QED  BY <1>2, <1>3 DEF ReadersEquation

\* A row is refused for itself exactly when it has a defect, with one of them.
LEMMA RowsOwnDefects ==
    ASSUME NEW row, row.defects \subseteq ToSet(Checks)
    PROVE  /\ ParseRow(row) = "none" <=> row.defects = {}
           /\ row.defects # {} => ParseRow(row) \in row.defects
<1> DEFINE found == {n \in DOMAIN Checks : Checks[n] \in row.defects}
<1>1. DOMAIN Checks = 1 .. 6 /\ \A n \in 1 .. 6 : Checks[n] # "none"
  BY DEF Checks
<1>2. ToSet(Checks) = {Checks[n] : n \in DOMAIN Checks}
  BY DEF ToSet
<1>3. found = {} <=> row.defects = {}
  BY <1>2
<1>4. CASE found = {}
  BY <1>3, <1>4 DEF ParseRow
<1>5. CASE found # {}
  <2>1. found \in SUBSET (1 .. 6) /\ found \in SUBSET Int
    BY <1>1
  <2>2. IsFiniteSet(found)
    <3> HIDE DEF found
    <3>1. \A x \in found : x <= 6
      BY <2>1
    <3>2. found \in SUBSET Nat /\ 6 \in Nat
      BY <2>1
    <3> QED  BY <3>1, <3>2, FS_BoundedSetOfNaturals
  <2>3. Min(found) \in found
    <3> HIDE DEF found
    <3> QED  BY <1>5, <2>1, <2>2, MinOfFinite
  <2>4. ParseRow(row) = Checks[Min(found)]
    BY <1>5 DEF ParseRow
  <2> QED  BY <1>1, <1>3, <1>5, <2>1, <2>3, <2>4
<1> QED  BY <1>4, <1>5

FileOK ==
    /\ file \in Seq(Rows)
    /\ \A n \in DOMAIN file : /\ file[n].time \in Nat
                               /\ file[n].defects \subseteq ToSet(Checks)

Repeated(at) ==
    \E m \in 1 .. at - 1 : Same(m, at) /\ file[m].time = file[at].time

\* A violation with this code is what the contract says of the row.
FirstOffence(at, code) ==
    /\ ~Sound(at) /\ \A n \in 1 .. at - 1 : Sound(n)
    /\ code # "none"
    /\ code \in file[at].defects <=> file[at].defects # {}
    /\ file[at].defects = {} =>
          code = IF Repeated(at) THEN "duplicate_row" ELSE "unsorted_rows"

\* What the loop knows after n rows: of every instrument the greatest time, and
\* the keys of all rows; or the first offence.
Known(n, reader) ==
    /\ reader = [seen |-> reader.seen, last |-> reader.last,
                 count |-> reader.count, verdict |-> reader.verdict]
    /\ reader.verdict = Accepted =>
          /\ reader.count = n
          /\ \A m \in 1 .. n : Sound(m)
          /\ reader.seen = {<<file[m].instrument, file[m].time>> : m \in 1 .. n}
          /\ DOMAIN reader.last = {file[m].instrument : m \in 1 .. n}
          /\ \A m \in 1 .. n : file[m].time <= reader.last[file[m].instrument]
          /\ \A i \in DOMAIN reader.last : \E m \in 1 .. n :
                file[m].instrument = i /\ reader.last[i] = file[m].time
    /\ reader.verdict # Accepted =>
          \E at \in 1 .. n :
              /\ reader.verdict = Violation(reader.verdict.code, at + 1)
              /\ FirstOffence(at, reader.verdict.code)

\* A row that is refused after sound ones is the first offence.
LEMMA RefusedIsOffence ==
    ASSUME FileOK, NEW n \in Nat, n + 1 \in DOMAIN file, NEW reader,
           Known(n, reader), reader.verdict = Accepted, NEW code,
           code = (IF ParseRow(file[n + 1]) # "none" THEN ParseRow(file[n + 1])
                   ELSE UniqueAndSorted(reader, file[n + 1]))
    PROVE  /\ code # "none" => FirstOffence(n + 1, code)
           /\ code = "none" => Sound(n + 1)
<1> DEFINE row == file[n + 1]
<1>1. /\ row.time \in Nat /\ row.defects \subseteq ToSet(Checks)
      /\ \A m \in 1 .. n : file[m].time \in Nat
  BY DEF FileOK
<1>2. (n + 1) - 1 = n
  OBVIOUS
<1>3. /\ \A m \in 1 .. n : Sound(m)
      /\ reader.seen = {<<file[m].instrument, file[m].time>> : m \in 1 .. n}
      /\ DOMAIN reader.last = {file[m].instrument : m \in 1 .. n}
      /\ \A m \in 1 .. n : file[m].time <= reader.last[file[m].instrument]
      /\ \A i \in DOMAIN reader.last : \E m \in 1 .. n :
            file[m].instrument = i /\ reader.last[i] = file[m].time
  BY DEF Known
<1>4. CASE row.defects # {}
  <2>1. code = ParseRow(row) /\ code \in row.defects /\ code # "none"
    BY <1>1, <1>4, RowsOwnDefects
  <2>2. ~Sound(n + 1)
    BY <1>4 DEF Sound
  <2> QED  BY <1>2, <1>3, <1>4, <2>1, <2>2 DEF FirstOffence
<1>5. CASE row.defects = {}
  <2>1. code = UniqueAndSorted(reader, row)
    BY <1>1, <1>5, RowsOwnDefects
  <2>2. <<row.instrument, row.time>> \in reader.seen <=> Repeated(n + 1)
    BY <1>2, <1>3 DEF Repeated, Same
  <2>3. Sound(n + 1) <=> \A m \in 1 .. n : Same(m, n + 1) => file[m].time < row.time
    BY <1>2, <1>5 DEF Sound
  <2>4. CASE Repeated(n + 1)
    <3>1. code = "duplicate_row"
      BY <2>1, <2>2, <2>4 DEF UniqueAndSorted
    <3>2. ~Sound(n + 1)
      BY <1>1, <1>2, <2>3, <2>4 DEF Repeated
    <3> QED  BY <1>2, <1>3, <1>5, <2>4, <3>1, <3>2 DEF FirstOffence
  <2>5. CASE ~Repeated(n + 1) /\ /\ row.instrument \in DOMAIN reader.last
                                /\ row.time <= reader.last[row.instrument]
    <3>1. code = "unsorted_rows"
      BY <2>1, <2>2, <2>5 DEF UniqueAndSorted
    <3>2. PICK m \in 1 .. n : /\ file[m].instrument = row.instrument
                              /\ row.time <= file[m].time
      BY <1>3, <2>5
    <3>3. ~Sound(n + 1)
      BY <1>1, <2>3, <3>2 DEF Same
    <3> QED  BY <1>2, <1>3, <1>5, <2>5, <3>1, <3>3 DEF FirstOffence
  <2>6. CASE ~Repeated(n + 1) /\ ~(/\ row.instrument \in DOMAIN reader.last
                                  /\ row.time <= reader.last[row.instrument])
    <3>1. code = "none"
      BY <2>1, <2>2, <2>6 DEF UniqueAndSorted
    <3>2. ASSUME NEW m \in 1 .. n, Same(m, n + 1)
          PROVE  file[m].time < row.time
      <4>1. row.instrument \in DOMAIN reader.last /\ file[m].instrument = row.instrument
        BY <1>3, <3>2 DEF Same
      <4>2. file[m].time <= reader.last[row.instrument] /\ reader.last[row.instrument] \in Nat
        BY <1>1, <1>3, <4>1
      <4> QED  BY <1>1, <2>6, <4>1, <4>2
    <3> QED  BY <2>3, <3>1, <3>2
  <2> QED  BY <2>4, <2>5, <2>6
<1> QED  BY <1>4, <1>5

LEMMA KnowsOneMore ==
    ASSUME FileOK, NEW n \in Nat, n + 1 \in DOMAIN file,
           NEW reader, Known(n, reader)
    PROVE  Known(n + 1, ReadRow(reader, file[n + 1]))
<1> DEFINE row == file[n + 1]
           more == ReadRow(reader, row)
<1>1. /\ row.time \in Nat /\ \A m \in 1 .. n : file[m].time \in Nat
      /\ \A m \in 1 .. n + 1 : m \in 1 .. n \/ m = n + 1
  BY DEF FileOK
<1>2. CASE reader.verdict # Accepted
  BY <1>2 DEF Known, ReadRow
<1>3. CASE reader.verdict = Accepted
  <2> DEFINE code == IF ParseRow(row) # "none" THEN ParseRow(row)
                     ELSE UniqueAndSorted(reader, row)
  <2>0. /\ code # "none" => FirstOffence(n + 1, code)
        /\ code = "none" => Sound(n + 1)
    BY <1>3, RefusedIsOffence
  <2>1. CASE code # "none"
    <3>1. more = [reader EXCEPT !.verdict = Violation(code, reader.count + 2)]
      BY <1>3, <2>1 DEF ReadRow
    <3>2. /\ more = [seen |-> more.seen, last |-> more.last,
                     count |-> more.count, verdict |-> more.verdict]
          /\ more.verdict = Violation(code, reader.count + 2)
      BY <3>1 DEF Known
    <3>3. reader.count = n
      BY <1>3 DEF Known
    <3>4. /\ more.verdict = Violation(code, (n + 1) + 1) /\ more.verdict.code = code
          /\ more.verdict # Accepted
      BY <2>1, <3>2, <3>3 DEF Violation, Accepted
    <3>5. FirstOffence(n + 1, code) /\ n + 1 \in 1 .. n + 1
      BY <2>0, <2>1
    <3> HIDE DEF code, more
    <3> QED  BY <3>2, <3>4, <3>5 DEF Known, more
  <2>2. CASE code = "none"
    <3>1. more = [seen |-> reader.seen \cup {<<row.instrument, row.time>>},
                  last |-> [i \in DOMAIN reader.last \cup {row.instrument} |->
                               IF i = row.instrument THEN row.time
                               ELSE reader.last[i]],
                  count |-> reader.count + 1,
                  verdict |-> Accepted]
      BY <1>3, <2>2 DEF ReadRow
    <3>2. Sound(n + 1)
      BY <2>0, <2>2
    <3>3. \A m \in 1 .. n : file[m].instrument = row.instrument => file[m].time < row.time
      BY <3>2 DEF Sound, Same
    <3>4. /\ reader.count = n
          /\ \A m \in 1 .. n : Sound(m)
          /\ reader.seen = {<<file[m].instrument, file[m].time>> : m \in 1 .. n}
          /\ DOMAIN reader.last = {file[m].instrument : m \in 1 .. n}
          /\ \A m \in 1 .. n : file[m].time <= reader.last[file[m].instrument]
          /\ \A i \in DOMAIN reader.last : \E m \in 1 .. n :
                file[m].instrument = i /\ reader.last[i] = file[m].time
      BY <1>3 DEF Known
    <3>5. /\ more = [seen |-> more.seen, last |-> more.last,
                     count |-> more.count, verdict |-> more.verdict]
          /\ more.verdict = Accepted /\ more.count = n + 1
      BY <3>1, <3>4
    <3>6. \A m \in 1 .. n + 1 : Sound(m)
      BY <1>1, <3>2, <3>4
    <3>7. more.seen = {<<file[m].instrument, file[m].time>> : m \in 1 .. n + 1}
      <4>1. more.seen = reader.seen \cup {<<row.instrument, row.time>>}
        BY <3>1
      <4> HIDE DEF more
      <4> QED  BY <1>1, <3>4, <4>1
    <3>8. /\ DOMAIN more.last = DOMAIN reader.last \cup {row.instrument}
          /\ more.last[row.instrument] = row.time
          /\ \A i \in DOMAIN reader.last : i # row.instrument =>
                more.last[i] = reader.last[i]
      BY <3>1
    <3> HIDE DEF more
    <3>9. DOMAIN more.last = {file[m].instrument : m \in 1 .. n + 1}
      <4>1. \A i : i \in DOMAIN more.last <=>
               (\E m \in 1 .. n : file[m].instrument = i) \/ i = row.instrument
        BY <3>4, <3>8
      <4>2. n + 1 \in 1 .. n + 1 /\ \A m \in 1 .. n : m \in 1 .. n + 1
        OBVIOUS
      <4>3. \A i : (\E m \in 1 .. n : file[m].instrument = i) \/ i = row.instrument
               <=> \E m \in 1 .. n + 1 : file[m].instrument = i
        BY <1>1, <4>2
      <4> QED  BY <4>1, <4>3
    <3>10. ASSUME NEW m \in 1 .. n + 1
           PROVE  file[m].time <= more.last[file[m].instrument]
      <4>1. CASE file[m].instrument = row.instrument
        BY <1>1, <3>3, <3>8, <4>1
      <4>2. CASE file[m].instrument # row.instrument
        <5>1. m \in 1 .. n /\ file[m].instrument \in DOMAIN reader.last
          BY <1>1, <3>4, <4>2
        <5> QED  BY <3>4, <3>8, <4>2, <5>1
      <4> QED  BY <4>1, <4>2
    <3>11. ASSUME NEW i \in DOMAIN more.last
           PROVE  \E m \in 1 .. n + 1 :
                      file[m].instrument = i /\ more.last[i] = file[m].time
      <4>1. CASE i = row.instrument
        <5>1. n + 1 \in 1 .. n + 1
          OBVIOUS
        <5> QED  BY <3>8, <4>1, <5>1
      <4>2. CASE i # row.instrument
        <5>1. i \in DOMAIN reader.last
          BY <3>8, <4>2
        <5>2. PICK m \in 1 .. n : file[m].instrument = i /\ reader.last[i] = file[m].time
          BY <3>4, <5>1
        <5> QED  BY <3>8, <4>2, <5>1, <5>2
      <4> QED  BY <4>1, <4>2
    <3> QED  BY <3>5, <3>6, <3>7, <3>9, <3>10, <3>11 DEF Known, more
  <2> QED  BY <2>1, <2>2
<1> QED  BY <1>2, <1>3

LEMMA FileIsKnown ==
    ASSUME FileOK
    PROVE  Known(Len(file), Readers(file)[Len(file)])
<1> DEFINE N == Len(file)
           T == {n \in Nat : n <= N => Known(n, Readers(file)[n])}
<1>1. N \in Nat /\ DOMAIN file = 1 .. N
  BY DEF FileOK
<1>2. 0 \in T
  <2>1. Known(0, Unread)
    BY DEF Known, Unread
  <2> QED  BY <1>1, <2>1, ReadersUnfold
<1>3. ASSUME NEW n \in Nat, n \in T
      PROVE  n + 1 \in T
  <2> SUFFICES ASSUME n + 1 <= N PROVE Known(n + 1, Readers(file)[n + 1])
    OBVIOUS
  <2>1. n + 1 \in 1 .. N /\ (n + 1) - 1 = n /\ n <= N
    BY <1>1
  <2>2. Readers(file)[n + 1] = ReadRow(Readers(file)[n], file[n + 1])
    BY <1>1, <2>1, ReadersUnfold
  <2> QED  BY <1>1, <1>3, <2>1, <2>2, KnowsOneMore
<1> HIDE DEF T
<1>4. N \in T
  BY <1>1, <1>2, <1>3, NumbersFromZero
<1> QED  BY <1>1, <1>4 DEF T

LEMMA OffenceReported == FileOK => FirstOffenceIsReported
<1> SUFFICES ASSUME FileOK PROVE FirstOffenceIsReported
  OBVIOUS
<1> DEFINE verdict == ParseCsv(file)
           at == verdict.row - 1
           reader == Readers(file)[Len(file)]
<1>1. CASE file = <<>>
  BY <1>1 DEF FirstOffenceIsReported, ParseCsv, Violation
<1>2. CASE file # <<>>
  <2>1. verdict = reader.verdict
    BY <1>2 DEF ParseCsv
  <2>2. Known(Len(file), reader) /\ DOMAIN file = 1 .. Len(file)
    BY FileIsKnown DEF FileOK
  <2> HIDE DEF reader
  <2>3. CASE verdict = Accepted
    <3>1. verdict.code = "none" /\ \A n \in DOMAIN file : Sound(n)
      BY <2>1, <2>2, <2>3 DEF Known, Accepted
    <3> QED  BY <1>2, <3>1 DEF FirstOffenceIsReported
  <2>4. CASE verdict # Accepted
    <3>1. PICK k \in 1 .. Len(file) :
              /\ verdict = Violation(verdict.code, k + 1)
              /\ FirstOffence(k, verdict.code)
      BY <2>1, <2>2, <2>4 DEF Known
    <3>2. at = k
      BY <3>1 DEF Violation
    <3>3. FirstOffence(at, verdict.code) /\ verdict.code # "none"
      BY <3>1, <3>2 DEF FirstOffence
    <3> HIDE DEF verdict
    <3> QED  BY <1>2, <3>3 DEF FirstOffenceIsReported, FirstOffence, Repeated, verdict
  <2> QED  BY <2>3, <2>4
<1> QED  BY <1>1, <1>2

LEMMA FilesAreFiles == Spec => []FileOK
<1>1. Init => FileOK
  BY DEF Init, FileOK
<1>2. FileOK /\ [Next]_vars => FileOK'
  <2> SUFFICES ASSUME FileOK, [Next]_vars PROVE FileOK'
    OBVIOUS
  <2>1. CASE UNCHANGED file
    BY <2>1 DEF FileOK
  <2>2. CASE AppendRow
    <3>1. PICK row \in Rows : file' = Append(file, row)
      BY <2>2 DEF AppendRow
    <3>2. row.time \in Nat /\ row.defects \subseteq ToSet(Checks)
      BY FilesAssumption DEF Rows
    <3>3. /\ Append(file, row) \in Seq(Rows)
          /\ \A n \in DOMAIN Append(file, row) : /\ Append(file, row)[n].time \in Nat
                                             /\ Append(file, row)[n].defects \subseteq ToSet(Checks)
      BY <3>2, AppendProperties DEF FileOK
    <3> QED  BY <3>1, <3>3 DEF FileOK
  <2> QED  BY <2>1, <2>2 DEF Next, vars, Buy, Sell, Fill, AskForStrategy,
                             AskForOptimization, Ask, ReadTable
<1> QED  BY <1>1, <1>2, PTL DEF Spec

\* FirstOffenceIsReported: parse_csv against the contract, for files of any
\* length, any instruments and any times.
THEOREM OffencesReported == Spec => []FirstOffenceIsReported
BY OffenceReported, FilesAreFiles, PTL

--------------------------------------------------------------------------------
(* Walks *)

\* The tables are finite and never lose a row.
Growing(tables) ==
    /\ tables \in Seq(SUBSET Places)
    /\ \A i, j \in DOMAIN tables : i <= j => tables[i] \subseteq tables[j]

LEMMA PlacesFinite ==
    ASSUME NEW S \in SUBSET Places
    PROVE  S \in SUBSET Nat /\ IsFiniteSet(S) /\ Cardinality(S) \in Nat
BY WalksAssumption, FS_Subset, FS_CardinalityType

Rank(table, row) == Cardinality({r \in table : r <= row})

LEMMA RankInTable ==
    ASSUME NEW table \in SUBSET Places, NEW row \in table
    PROVE  Rank(table, row) \in Nat /\ 1 <= Rank(table, row)
<1> DEFINE S == {r \in table : r <= row}
<1>1. S \in SUBSET Places /\ row \in S
  BY PlacesFinite
<1>2. IsFiniteSet(S) /\ Cardinality(S) \in Nat
  BY <1>1, PlacesFinite
<1> HIDE DEF S
<1>3. Cardinality(S) # 0
  BY <1>1, <1>2, FS_EmptySet
<1> QED  BY <1>2, <1>3 DEF Rank, S

\* A row that keeps its place keeps its rank only if no smaller one got in.
LEMMA RankGrows ==
    ASSUME NEW table \in SUBSET Places, NEW later \in SUBSET Places,
           table \subseteq later, NEW row \in table
    PROVE  /\ Rank(table, row) <= Rank(later, row)
           /\ Smaller(row, later \ table) = {} => Rank(table, row) = Rank(later, row)
<1> DEFINE S == {r \in table : r <= row}
           U == {r \in later : r <= row}
<1>1. S \subseteq U /\ U \in SUBSET Places
  OBVIOUS
<1>2. IsFiniteSet(U)
  BY <1>1, PlacesFinite
<1>3. ASSUME Smaller(row, later \ table) = {} PROVE S = U
  <2>1. ASSUME NEW r \in later, r <= row PROVE r \in table
    <3>1. r \in Nat /\ row \in Nat
      BY PlacesFinite
    <3>2. CASE r = row
      BY <3>2
    <3>3. CASE r < row
      BY <1>3, <3>3 DEF Smaller
    <3> QED  BY <2>1, <3>1, <3>2, <3>3
  <2> QED  BY <2>1
<1> HIDE DEF S, U
<1>4. Cardinality(S) <= Cardinality(U)
  BY <1>1, <1>2, FS_Subset
<1> QED  BY <1>3, <1>4 DEF Rank, S, U

\* Ranks are contiguous: when a row is beyond an offset, some row is the first
\* beyond it.
LEMMA FirstBeyond ==
    ASSUME NEW table \in SUBSET Places, NEW row \in table, NEW offset \in Nat,
           Rank(table, row) > offset
    PROVE  \E r \in table : Rank(table, r) = offset + 1
<1> DEFINE beyond == {r \in table : Rank(table, r) > offset}
<1>1. beyond \in SUBSET Int /\ IsFiniteSet(beyond) /\ beyond # {}
  <2>1. beyond \in SUBSET Places
    OBVIOUS
  <2>2. beyond # {}
    OBVIOUS
  <2> HIDE DEF beyond
  <2> QED  BY <2>1, <2>2, PlacesFinite
<1>2. PICK m \in beyond : \A r \in beyond : m <= r
  <2> HIDE DEF beyond
  <2> QED  BY <1>1, MinOfFinite
<1>3. m \in table /\ m \in Nat /\ Rank(table, m) > offset
  BY PlacesFinite
<1>4. \A r \in table : r \in Nat /\ Rank(table, r) \in Nat
  BY PlacesFinite, RankInTable
<1>5. \A r \in table : r < m => Rank(table, r) <= offset
  BY <1>2, <1>3, <1>4
<1> DEFINE before == {r \in table : r < m}
<1>6. /\ before \in SUBSET Places /\ m \notin before /\ IsFiniteSet(before)
      /\ before \in SUBSET Int
  <2>1. before \in SUBSET Places /\ m \notin before
    <3>1. before \subseteq table /\ ~(m < m)
      BY <1>3
    <3>2. m \notin before
      BY <3>1
    <3> QED  BY <3>1, <3>2
  <2> HIDE DEF before
  <2>2. before \in SUBSET Nat /\ IsFiniteSet(before)
    BY <2>1, PlacesFinite
  <2> QED  BY <2>1, <2>2
<1>7. Rank(table, m) = Cardinality(before) + 1
  <2>1. {r \in table : r <= m} = before \cup {m}
    <3>1. \A r \in table : r <= m <=> r < m \/ r = m
      BY <1>3, <1>4
    <3> QED  BY <1>3, <3>1
  <2> HIDE DEF before
  <2>2. Cardinality(before \cup {m}) = Cardinality(before) + 1
    BY <1>6, FS_AddElement
  <2> QED  BY <2>1, <2>2 DEF Rank
<1>8. Cardinality(before) <= offset
  <2>1. CASE before = {}
    BY <2>1, FS_EmptySet
  <2>2. CASE before # {}
    <3>1. PICK g \in before : \A r \in before : g >= r
      <4> HIDE DEF before
      <4> QED  BY <1>6, <2>2, GreatestExists
    <3>2. before = {r \in table : r <= g}
      <4>1. \A r \in table : r < m => r <= g
        BY <3>1
      <4>2. g \in table /\ g < m
        BY <3>1
      <4>3. \A r \in table : r <= g => r < m
        BY <1>3, <1>4, <4>2
      <4>4. \A r \in table : r < m <=> r <= g
        BY <4>1, <4>3
      <4> QED  BY <4>4
    <3>3. Cardinality(before) = Rank(table, g)
      BY <3>2 DEF Rank
    <3> QED  BY <1>5, <3>3
  <2> QED  BY <2>1, <2>2
<1>9. Cardinality(before) \in Nat
  BY <1>6, PlacesFinite
<1> HIDE DEF before
<1> QED  BY <1>3, <1>7, <1>8, <1>9

Walks == [pages : Seq(SUBSET Places), offset : Nat, more : BOOLEAN]

LEMMA Turned ==
    ASSUME NEW walk \in Walks, NEW limit \in Nat, NEW counted,
           NEW selected \in SUBSET Places
    PROVE  Turn(walk, limit, counted, selected) \in Walks
<1> DEFINE shown == PageAt(selected, limit, walk.offset)
           further == shown # {} /\ HasNext(limit, walk.offset, Cardinality(counted))
<1>1. /\ walk.pages \in Seq(SUBSET Places) /\ walk.offset \in Nat
      /\ walk.more \in BOOLEAN
  BY DEF Walks
<1>2. shown \in SUBSET Places
  BY DEF PageAt
<1>3. CASE ~walk.more
  BY <1>3 DEF Turn
<1>4. CASE walk.more
  <2>1. Turn(walk, limit, counted, selected)
          = [pages |-> Append(walk.pages, shown), offset |-> walk.offset + limit,
             more |-> further]
    BY <1>4 DEF Turn
  <2>2. further \in BOOLEAN
    OBVIOUS
  <2> HIDE DEF shown, further
  <2>3. Append(walk.pages, shown) \in Seq(SUBSET Places) /\ walk.offset + limit \in Nat
    BY <1>1, <1>2
  <2> QED  BY <2>1, <2>2, <2>3 DEF Walks
<1> QED  BY <1>3, <1>4

\* The walk, request by request.
LEMMA WalkLoop ==
    ASSUME NEW limit \in Nat, NEW tables, Growing(tables)
    PROVE  \E g \in [0 .. Len(tables) \div 2 -> Walks] :
              /\ g[0] = Opened
              /\ \A n \in 1 .. Len(tables) \div 2 :
                    g[n] = Turn(g[n - 1], limit, tables[2 * n - 1], tables[2 * n])
              /\ Walk(limit, tables) = g[Len(tables) \div 2]
<1> DEFINE N == Len(tables) \div 2
           turn(w, n) == Turn(w, limit, tables[2 * n - 1], tables[2 * n])
           next == [p \in (1 .. N) \X Walks |-> turn(p[2], p[1])]
           Loop(g) == g = [n \in 0 .. N |-> IF n = 0 THEN Opened
                                           ELSE turn(g[n - 1], n)]
<1>0. Walk(limit, tables) = (CHOOSE g : Loop(g))[N]
  BY DEF Walk
<1>1. N \in Nat /\ \A n \in 1 .. N : tables[2 * n] \in SUBSET Places
  <2>1. tables \in Seq(SUBSET Places) /\ Len(tables) \in Nat
    BY DEF Growing
  <2>2. \A n \in 1 .. N : 2 * n \in 1 .. Len(tables)
    BY <2>1
  <2> QED  BY <2>1, <2>2
<1>2. Opened \in Walks
  <2>1. <<>> \in Seq(SUBSET Places)
    OBVIOUS
  <2> QED  BY <2>1 DEF Opened, Walks
<1> HIDE DEF N
<1>3. \A n \in 1 .. N, w \in Walks : turn(w, n) \in Walks
  BY <1>1, Turned
<1>4. \A n \in 1 .. N : \A w : turn(w, n) = Turn(w, limit, tables[2 * n - 1], tables[2 * n])
  OBVIOUS
<1> HIDE DEF turn
<1>5. next \in [(1 .. N) \X Walks -> Walks]
  BY <1>3
<1>6. PICK f : /\ f \in [0 .. N -> Walks] /\ f[0] = Opened
               /\ \A n \in 1 .. N : f[n] = next[<<n, f[n - 1]>>]
  <2>1. IsLoop(N, Walks, Opened, next)
    BY <1>1, <1>2, <1>5 DEF IsLoop
  <2>2. PICK f : Computes(N, Walks, Opened, next, f)
    BY <2>1, Iteration
  <2> QED  BY <2>2 DEF Computes
<1>7. \A n \in 1 .. N : f[n] = turn(f[n - 1], n)
  <2> TAKE n \in 1 .. N
  <2>1. n - 1 \in 0 .. N
    BY <1>1
  <2>2. <<n, f[n - 1]>> \in (1 .. N) \X Walks
    BY <1>6, <2>1
  <2> QED  BY <1>6, <2>2
<1>8. Loop(f)
  BY <1>1, <1>6, <1>7
<1> DEFINE g == CHOOSE h : Loop(h)
<1>9. Loop(g)
  BY <1>8
<1>10. Walk(limit, tables) = g[N]
  BY <1>0
<1> HIDE DEF g, next
<1>11. /\ DOMAIN g = 0 .. N /\ g[0] = Opened
       /\ \A n \in 1 .. N : g[n] = turn(g[n - 1], n)
  BY <1>1, <1>9
<1>12. \A n \in 0 .. N : g[n] = f[n]
  <2>1. Alike(N, g, f)
    BY <1>1, <1>6, <1>7, <1>11 DEF Alike
  <2> QED  BY <2>1, SameTurns
<1>13. g \in [0 .. N -> Walks]
  BY <1>6, <1>9, <1>12
<1> QED  BY <1>4, <1>10, <1>11, <1>13 DEF N

\* What a walk of n requests has shown: its pages follow each other, and it ended
\* with an empty page or one that reaches the number of rows that was counted.
Walked(limit, tables, n, walk) ==
    LET end == Len(walk.pages) IN
    /\ walk \in Walks /\ end <= n
    /\ walk.more => end = n /\ walk.offset = n * limit
    /\ \A k \in 1 .. end :
          walk.pages[k] = PageAt(tables[2 * k], limit, (k - 1) * limit)
    /\ ~walk.more =>
          /\ end >= 1
          /\ \/ walk.pages[end] = {}
             \/ ~HasNext(limit, (end - 1) * limit, Cardinality(tables[2 * end - 1]))

LEMMA WalkedOneMore ==
    ASSUME NEW limit \in Nat, NEW tables, Growing(tables), NEW n \in Nat,
           n + 1 <= Len(tables) \div 2, NEW walk, Walked(limit, tables, n, walk)
    PROVE  Walked(limit, tables, n + 1,
                  Turn(walk, limit, tables[2 * (n + 1) - 1], tables[2 * (n + 1)]))
<1> DEFINE counted == tables[2 * (n + 1) - 1]
           selected == tables[2 * (n + 1)]
           more == Turn(walk, limit, counted, selected)
           shown == PageAt(selected, limit, walk.offset)
           further == shown # {} /\ HasNext(limit, walk.offset, Cardinality(counted))
<1>1. walk \in Walks /\ walk.pages \in Seq(SUBSET Places)
  BY DEF Walked, Walks
<1>2. CASE ~walk.more
  <2>1. more = walk
    BY <1>2 DEF Turn
  <2>2. Len(walk.pages) <= n + 1
    BY <1>1 DEF Walked
  <2> HIDE DEF more
  <2> QED  BY <1>2, <2>1, <2>2 DEF Walked, more
<1>3. CASE walk.more
  <2>1. more = [pages |-> Append(walk.pages, shown), offset |-> walk.offset + limit,
                more |-> further]
    BY <1>3 DEF Turn
  <2>2. more \in Walks
    <3>1. Len(tables) \in Nat /\ tables \in Seq(SUBSET Places)
      BY DEF Growing
    <3>2. 2 * (n + 1) \in 1 .. Len(tables)
      BY <3>1
    <3>3. selected \in SUBSET Places
      BY <3>1, <3>2
    <3> HIDE DEF selected, counted
    <3> QED  BY <1>1, <3>3, Turned
  <2>3. /\ Len(walk.pages) = n /\ walk.offset = n * limit
        /\ \A k \in 1 .. n :
              walk.pages[k] = PageAt(tables[2 * k], limit, (k - 1) * limit)
    BY <1>3 DEF Walked
  <2>4. shown = PageAt(tables[2 * (n + 1)], limit, ((n + 1) - 1) * limit)
    <3>1. (n + 1) - 1 = n
      OBVIOUS
    <3> QED  BY <2>3, <3>1
  <2>5. further => shown # {} /\ HasNext(limit, ((n + 1) - 1) * limit, Cardinality(counted))
    BY <2>3
  <2>6. ~further => \/ shown = {}
                    \/ ~HasNext(limit, ((n + 1) - 1) * limit, Cardinality(counted))
    <3>1. (n + 1) - 1 = n
      OBVIOUS
    <3> QED  BY <2>3, <3>1
  <2>7. /\ more.pages = Append(walk.pages, shown) /\ more.offset = walk.offset + limit
        /\ more.more = further
    BY <2>1
  <2>8. walk.offset + limit = (n + 1) * limit
    BY <2>3
  <2> HIDE DEF more, shown, further
  <2>9. /\ Len(more.pages) = n + 1 /\ more.pages[n + 1] = shown
        /\ \A k \in 1 .. n : more.pages[k] = walk.pages[k]
    BY <1>1, <2>3, <2>7
  <2>10. \A k \in 1 .. n + 1 :
           more.pages[k] = PageAt(tables[2 * k], limit, (k - 1) * limit)
    <3>1. \A k \in 1 .. n + 1 : k \in 1 .. n \/ k = n + 1
      OBVIOUS
    <3> QED  BY <2>3, <2>4, <2>9, <3>1
  <2>11. ~more.more => \/ more.pages[n + 1] = {}
                       \/ ~HasNext(limit, ((n + 1) - 1) * limit, Cardinality(counted))
    BY <2>6, <2>7, <2>9
  <2>12. n + 1 <= n + 1 /\ n + 1 >= 1
    OBVIOUS
  <2>13. more.offset = (n + 1) * limit
    BY <2>7, <2>8
  <2> QED  BY <2>2, <2>9, <2>10, <2>11, <2>12, <2>13 DEF Walked, more
<1> QED  BY <1>2, <1>3

LEMMA WalkIsWalked ==
    ASSUME NEW limit \in Nat, NEW tables, Growing(tables)
    PROVE  Walked(limit, tables, Len(tables) \div 2, Walk(limit, tables))
<1> DEFINE N == Len(tables) \div 2
<1>1. PICK g :
         /\ g \in [0 .. N -> Walks] /\ g[0] = Opened
         /\ \A n \in 1 .. N : g[n] = Turn(g[n - 1], limit, tables[2 * n - 1], tables[2 * n])
         /\ Walk(limit, tables) = g[N]
  BY WalkLoop
<1> DEFINE T == {n \in Nat : n <= N => Walked(limit, tables, n, g[n])}
<1>2. N \in Nat
  <2>1. Len(tables) \in Nat
    BY DEF Growing
  <2> QED  BY <2>1
<1>3. 0 \in T
  <2>1. g[0] \in Walks
    BY <1>1, <1>2
  <2>2. Walked(limit, tables, 0, Opened)
    <3>1. <<>> \in Seq(SUBSET Places) /\ Len(<<>>) = 0 /\ 0 = 0 * limit
      OBVIOUS
    <3>2. /\ Opened.pages = <<>> /\ Opened.offset = 0 /\ Opened.more
          /\ Opened \in Walks
      BY <1>1, <2>1 DEF Opened
    <3> QED  BY <3>1, <3>2 DEF Walked
  <2> QED  BY <1>1, <2>2
<1>4. ASSUME NEW n \in Nat, n \in T
      PROVE  n + 1 \in T
  <2> SUFFICES ASSUME n + 1 <= N PROVE Walked(limit, tables, n + 1, g[n + 1])
    OBVIOUS
  <2>1. n + 1 \in 1 .. N /\ (n + 1) - 1 = n /\ n <= N
    BY <1>2
  <2>2. g[n + 1] = Turn(g[n], limit, tables[2 * (n + 1) - 1], tables[2 * (n + 1)])
    BY <1>1, <2>1
  <2>3. Walked(limit, tables, n, g[n])
    BY <1>4, <2>1
  <2> QED  BY <2>1, <2>2, <2>3, WalkedOneMore
<1> HIDE DEF T
<1>5. N \in T
  BY <1>2, <1>3, <1>4, NumbersFromZero
<1> QED  BY <1>1, <1>2, <1>5 DEF T

LEMMA TableOf ==
    ASSUME NEW tables, Growing(tables), NEW i \in DOMAIN tables
    PROVE  /\ tables[i] \in SUBSET Places
           /\ i \in 1 .. Len(tables) /\ Len(tables) \in Nat
           /\ \A j \in DOMAIN tables : i <= j => tables[i] \subseteq tables[j]
BY DEF Growing

\* A row that was there from the start and is on none of the pages has come after
\* all of them.
LEMMA MissedIsLater ==
    ASSUME NEW limit \in Nat \ {0}, NEW tables, Growing(tables), tables # <<>>,
           NEW row \in tables[1], NEW end \in Nat, 2 * end <= Len(tables),
           \A k \in 1 .. end : row \notin PageAt(tables[2 * k], limit, (k - 1) * limit)
    PROVE  \A n \in 1 .. end : /\ row \in tables[2 * n]
                                /\ Rank(tables[2 * n], row) > n * limit
<1>0. /\ 1 \in DOMAIN tables /\ DOMAIN tables = 1 .. Len(tables)
      /\ Len(tables) \in Nat
  BY DEF Growing
<1>1. ASSUME NEW n \in 1 .. end
      PROVE  /\ 2 * n \in DOMAIN tables /\ tables[2 * n] \in SUBSET Places
             /\ row \in tables[2 * n]
             /\ Rank(tables[2 * n], row) \in Nat /\ 1 <= Rank(tables[2 * n], row)
             /\ Rank(tables[2 * n], row) \notin (n - 1) * limit + 1 .. (n - 1) * limit + limit
  <2>1. 2 * n \in DOMAIN tables
    BY <1>0
  <2>2. tables[1] \subseteq tables[2 * n] /\ tables[2 * n] \in SUBSET Places
    BY <1>0, <2>1, TableOf
  <2>3. row \in tables[2 * n]
    BY <2>2
  <2>4. row \notin PageAt(tables[2 * n], limit, (n - 1) * limit)
    OBVIOUS
  <2>5. Rank(tables[2 * n], row)
           \notin (n - 1) * limit + 1 .. (n - 1) * limit + limit
    BY <2>3, <2>4 DEF PageAt, Rank
  <2> QED  BY <2>1, <2>2, <2>3, <2>5, RankInTable
<1> DEFINE T == {n \in Nat : n \in 1 .. end => Rank(tables[2 * n], row) > n * limit}
<1>2. 0 \in T
  OBVIOUS
<1>3. ASSUME NEW n \in Nat, n \in T
      PROVE  n + 1 \in T
  <2> SUFFICES ASSUME n + 1 \in 1 .. end
               PROVE  Rank(tables[2 * (n + 1)], row) > (n + 1) * limit
    OBVIOUS
  <2> DEFINE was == Rank(tables[2 * n], row)
             is == Rank(tables[2 * (n + 1)], row)
  <2>1. /\ is \in Nat /\ 1 <= is
        /\ is \notin n * limit + 1 .. n * limit + limit
    <3>1. (n + 1) - 1 = n
      OBVIOUS
    <3> QED  BY <1>1, <3>1
  <2>2. is >= n * limit + 1
    <3>1. CASE n = 0
      BY <2>1, <3>1
    <3>2. CASE n # 0
      <4>1. n \in 1 .. end
        BY <3>2
      <4>2. was > n * limit /\ was \in Nat
        BY <1>1, <1>3, <4>1
      <4>3. was <= is
        <5>1. /\ 2 * n \in DOMAIN tables /\ 2 * (n + 1) \in DOMAIN tables
              /\ 2 * n <= 2 * (n + 1)
          BY <1>1, <4>1
        <5>2. /\ tables[2 * n] \subseteq tables[2 * (n + 1)]
              /\ tables[2 * n] \in SUBSET Places
              /\ tables[2 * (n + 1)] \in SUBSET Places /\ row \in tables[2 * n]
          <6>1. /\ tables[2 * n] \subseteq tables[2 * (n + 1)]
                /\ tables[2 * (n + 1)] \in SUBSET Places
            BY <5>1, TableOf
          <6>2. tables[2 * n] \in SUBSET Places /\ row \in tables[2 * n]
            BY <1>1, <4>1, <5>1, TableOf
          <6> QED  BY <6>1, <6>2
        <5> QED  BY <5>2, RankGrows
      <4> HIDE DEF was, is
      <4>4. n * limit \in Nat
        OBVIOUS
      <4> QED  BY <2>1, <4>2, <4>3, <4>4
    <3> QED  BY <3>1, <3>2
  <2> HIDE DEF is
  <2>3. n * limit \in Nat /\ (n + 1) * limit = n * limit + limit
    OBVIOUS
  <2>4. is > n * limit + limit
    BY <2>1, <2>2, <2>3
  <2> QED  BY <2>3, <2>4 DEF is
<1> HIDE DEF T
<1>4. \A n \in Nat : n \in T
  BY <1>2, <1>3, NumbersFromZero
<1> QED  BY <1>1, <1>4 DEF T

\* When the last page ended the walk, such a row was counted out by another one
\* that got in before it.
LEMMA MissedIsOvertaken ==
    ASSUME NEW limit \in Nat \ {0}, NEW tables, Growing(tables), tables # <<>>,
           NEW N, NEW walk, Walked(limit, tables, N, walk), N = Len(tables) \div 2,
           ~walk.more, NEW row \in tables[1],
           \A k \in 1 .. Len(walk.pages) : row \notin walk.pages[k]
    PROVE  LET end == Len(walk.pages)
           IN  Smaller(row, tables[2 * end] \ tables[2 * end - 1]) # {}
<1> DEFINE end == Len(walk.pages)
           counted == tables[2 * end - 1]
           selected == tables[2 * end]
<1>1. /\ end \in Nat /\ end >= 1 /\ end <= N /\ Len(tables) \in Nat
      /\ 2 * end <= Len(tables) /\ DOMAIN tables = 1 .. Len(tables)
  <2>1. walk.pages \in Seq(SUBSET Places)
    BY DEF Walked, Walks
  <2>2. end \in Nat /\ end >= 1 /\ end <= N
    BY <2>1 DEF Walked
  <2>3. Len(tables) \in Nat /\ DOMAIN tables = 1 .. Len(tables)
    BY DEF Growing
  <2> HIDE DEF end
  <2> QED  BY <2>2, <2>3
<1>2. \A k \in 1 .. end :
         walk.pages[k] = PageAt(tables[2 * k], limit, (k - 1) * limit)
  BY DEF Walked
<1>3. \/ walk.pages[end] = {}
      \/ ~HasNext(limit, (end - 1) * limit, Cardinality(counted))
  BY DEF Walked
<1> HIDE DEF end
<1>4. row \in selected /\ Rank(selected, row) > end * limit
  <2>1. \A n \in 1 .. end : /\ row \in tables[2 * n]
                             /\ Rank(tables[2 * n], row) > n * limit
    <3>1. \A k \in 1 .. end : row \notin PageAt(tables[2 * k], limit, (k - 1) * limit)
      BY <1>2 DEF end
    <3> QED  BY <1>1, <3>1, MissedIsLater
  <2> QED  BY <1>1, <2>1
<1>5. /\ counted \in SUBSET Places /\ selected \in SUBSET Places
      /\ counted \subseteq selected /\ row \in counted
  <2>1. /\ 2 * end \in DOMAIN tables /\ 2 * end - 1 \in DOMAIN tables
        /\ 1 \in DOMAIN tables /\ 1 <= 2 * end - 1 /\ 2 * end - 1 <= 2 * end
    BY <1>1
  <2>2. tables[1] \subseteq counted
    BY <2>1, TableOf
  <2> QED  BY <2>1, <2>2, TableOf
<1> HIDE DEF counted, selected
<1>6. /\ end * limit \in Nat /\ (end - 1) * limit \in Nat
      /\ (end - 1) * limit + limit = end * limit
  <2>1. end - 1 \in Nat
    BY <1>1
  <2>2. (end - 1) * limit + limit = ((end - 1) + 1) * limit
    BY <2>1
  <2>3. (end - 1) + 1 = end
    BY <1>1
  <2> QED  BY <1>1, <2>1, <2>2, <2>3
<1>7. Rank(selected, row) \in Nat
  BY <1>4, <1>5, RankInTable
<1>8. CASE walk.pages[end] = {}
  <2>1. Rank(selected, row) > (end - 1) * limit
    BY <1>4, <1>6, <1>7
  <2>2. PICK r \in selected : Rank(selected, r) = (end - 1) * limit + 1
    BY <1>4, <1>5, <1>6, <2>1, FirstBeyond
  <2>3. Rank(selected, r) \in (end - 1) * limit + 1 .. (end - 1) * limit + limit
    BY <1>6, <2>2
  <2>4. r \in PageAt(selected, limit, (end - 1) * limit)
    BY <2>2, <2>3 DEF PageAt, Rank
  <2>5. walk.pages[end] = PageAt(selected, limit, (end - 1) * limit)
    BY <1>1, <1>2 DEF selected
  <2> QED  BY <1>8, <2>4, <2>5
<1>9. CASE ~HasNext(limit, (end - 1) * limit, Cardinality(counted))
  <2>1. Cardinality(counted) \in Nat /\ IsFiniteSet(counted)
    BY <1>5, PlacesFinite
  <2>2. Cardinality(counted) <= end * limit
    BY <1>6, <1>9, <2>1 DEF HasNext
  <2>3. Rank(counted, row) <= Cardinality(counted)
    <3>1. {r \in counted : r <= row} \in SUBSET counted
      OBVIOUS
    <3> QED  BY <2>1, <3>1, FS_Subset DEF Rank
  <2>4. Rank(counted, row) # Rank(selected, row)
    <3>1. Rank(counted, row) \in Nat
      BY <1>5, RankInTable
    <3> QED  BY <1>4, <1>6, <1>7, <2>1, <2>2, <2>3, <3>1
  <2> QED  BY <1>5, <2>4, RankGrows DEF counted, selected, end
<1> QED  BY <1>3, <1>8, <1>9

\* A row that is on two pages has been overtaken between them.
LEMMA RepeatedIsOvertaken ==
    ASSUME NEW limit \in Nat \ {0}, NEW tables, Growing(tables),
           NEW N, NEW walk, Walked(limit, tables, N, walk), N = Len(tables) \div 2,
           NEW m \in 1 .. Len(walk.pages), NEW n \in 1 .. Len(walk.pages), m < n,
           NEW row \in walk.pages[m] \cap walk.pages[n]
    PROVE  Smaller(row, tables[2 * n] \ tables[2 * m]) # {}
<1>1. /\ Len(walk.pages) \in Nat /\ Len(walk.pages) <= N
      /\ Len(tables) \in Nat /\ DOMAIN tables = 1 .. Len(tables)
  <2>1. walk.pages \in Seq(SUBSET Places)
    BY DEF Walked, Walks
  <2>2. Len(walk.pages) \in Nat
    BY <2>1
  <2>3. Len(walk.pages) <= N
    BY DEF Walked
  <2>4. Len(tables) \in Nat /\ DOMAIN tables = 1 .. Len(tables)
    BY DEF Growing
  <2> QED  BY <2>2, <2>3, <2>4
<1>2. /\ 2 * m \in DOMAIN tables /\ 2 * n \in DOMAIN tables /\ 2 * m <= 2 * n
      /\ m \in Nat /\ n \in Nat
  BY <1>1
<1>3. /\ tables[2 * m] \in SUBSET Places /\ tables[2 * n] \in SUBSET Places
      /\ tables[2 * m] \subseteq tables[2 * n]
  BY <1>2, TableOf
<1>4. /\ row \in PageAt(tables[2 * m], limit, (m - 1) * limit)
      /\ row \in PageAt(tables[2 * n], limit, (n - 1) * limit)
  BY DEF Walked
<1>5. /\ row \in tables[2 * m] /\ row \in tables[2 * n]
      /\ Rank(tables[2 * m], row) \in (m - 1) * limit + 1 .. (m - 1) * limit + limit
      /\ Rank(tables[2 * n], row) \in (n - 1) * limit + 1 .. (n - 1) * limit + limit
  BY <1>4 DEF PageAt, Rank
<1>6. /\ (m - 1) * limit \in Nat /\ (n - 1) * limit \in Nat
      /\ (m - 1) * limit + limit <= (n - 1) * limit
  <2>1. m - 1 \in Nat /\ n - 1 \in Nat /\ (n - 1) - m \in Nat
    BY <1>2
  <2>2. ((n - 1) - m) * limit \in Nat
    BY <2>1
  <2>3. (n - 1) * limit = ((n - 1) - m) * limit + m * limit
    BY <1>2
  <2>4. (m - 1) * limit + limit = m * limit
    BY <1>2
  <2> QED  BY <1>2, <2>1, <2>2, <2>3, <2>4
<1>7. Rank(tables[2 * m], row) # Rank(tables[2 * n], row)
  <2> DEFINE low == (m - 1) * limit
             high == (n - 1) * limit
  <2>1. /\ low \in Nat /\ high \in Nat /\ low + limit <= high
        /\ Rank(tables[2 * m], row) \in low + 1 .. low + limit
        /\ Rank(tables[2 * n], row) \in high + 1 .. high + limit
    BY <1>5, <1>6
  <2> HIDE DEF low, high
  <2> QED  BY <2>1
<1> QED  BY <1>3, <1>5, <1>7, RankGrows

LEMMA TablesGrow == Spec => []Growing(reads)
<1>1. Init => Growing(reads)
  BY DEF Init, Growing
<1>2. Growing(reads) /\ [Next]_vars => Growing(reads)'
  <2> SUFFICES ASSUME Growing(reads), [Next]_vars PROVE Growing(reads)'
    OBVIOUS
  <2>1. CASE UNCHANGED reads
    BY <2>1 DEF Growing
  <2>2. CASE ReadTable
    <3>1. PICK new \in SUBSET Places :
              reads' = Append(reads, IF reads = <<>> THEN new ELSE new \cup Last(reads))
      BY <2>2 DEF ReadTable
    <3> DEFINE table == IF reads = <<>> THEN new ELSE new \cup Last(reads)
               L == Len(reads)
    <3>2. /\ reads \in Seq(SUBSET Places) /\ L \in Nat /\ DOMAIN reads = 1 .. L
          /\ \A i, j \in DOMAIN reads : i <= j => reads[i] \subseteq reads[j]
      BY DEF Growing
    <3>3. reads # <<>> => L \in DOMAIN reads /\ Last(reads) = reads[L]
      BY <3>2 DEF Last
    <3>4. table \in SUBSET Places
      BY <3>2, <3>3
    <3>5. \A i \in DOMAIN reads : reads[i] \subseteq table
      BY <3>2, <3>3
    <3> HIDE DEF table
    <3>6. /\ reads' \in Seq(SUBSET Places) /\ DOMAIN reads' = 1 .. L + 1
          /\ reads'[L + 1] = table /\ \A i \in 1 .. L : reads'[i] = reads[i]
      BY <3>1, <3>2, <3>4 DEF table
    <3>7. ASSUME NEW i \in 1 .. L + 1, NEW j \in 1 .. L + 1, i <= j
          PROVE  reads'[i] \subseteq reads'[j]
      <4>1. CASE j = L + 1 /\ i = L + 1
        BY <4>1
      <4>2. CASE j = L + 1 /\ i \in 1 .. L
        BY <3>2, <3>5, <3>6, <4>2
      <4>3. CASE j \in 1 .. L
        <5>1. i \in 1 .. L
          BY <3>2, <3>7, <4>3
        <5> QED  BY <3>2, <3>6, <3>7, <4>3, <5>1
      <4> QED  BY <3>2, <4>1, <4>2, <4>3
    <3> QED  BY <3>6, <3>7 DEF Growing
  <2> QED  BY <2>1, <2>2 DEF Next, vars, AppendRow, Buy, Sell, Fill, AskForStrategy,
                             AskForOptimization, Ask
<1> QED  BY <1>1, <1>2, PTL DEF Spec

LEMMA GrowingIsComplete == Growing(reads) => WalksAreComplete
<1> SUFFICES ASSUME Growing(reads), NEW limit \in PageSizes
             PROVE  LET pages == Walk(limit, reads).pages
                        table(n) == reads[2 * n]
                        end == Len(pages)
                        shown == UNION ToSet(pages)
                    IN  /\ reads # <<>> /\ ~Walk(limit, reads).more =>
                              \A row \in reads[1] \ shown :
                                  Smaller(row, table(end) \ reads[2 * end - 1]) # {}
                        /\ \A m, n \in DOMAIN pages : m < n =>
                              \A row \in pages[m] \cap pages[n] :
                                  Smaller(row, table(n) \ table(m)) # {}
  BY DEF WalksAreComplete
<1> DEFINE walk == Walk(limit, reads)
           N == Len(reads) \div 2
<1>1. limit \in Nat \ {0}
  BY WalksAssumption
<1>2. Walked(limit, reads, N, walk)
  BY <1>1, WalkIsWalked
<1>3. walk.pages \in Seq(SUBSET Places) /\ DOMAIN walk.pages = 1 .. Len(walk.pages)
  BY <1>2 DEF Walked, Walks
<1> HIDE DEF walk, N
<1>4. ASSUME reads # <<>>, ~walk.more, NEW row \in reads[1],
             row \notin UNION ToSet(walk.pages)
      PROVE  Smaller(row, reads[2 * Len(walk.pages)]
                              \ reads[2 * Len(walk.pages) - 1]) # {}
  <2>1. \A k \in 1 .. Len(walk.pages) : row \notin walk.pages[k]
    BY <1>3, <1>4 DEF ToSet
  <2> QED  BY <1>1, <1>2, <1>4, <2>1, MissedIsOvertaken DEF N
<1>5. ASSUME NEW m \in DOMAIN walk.pages, NEW n \in DOMAIN walk.pages, m < n,
             NEW row \in walk.pages[m] \cap walk.pages[n]
      PROVE  Smaller(row, reads[2 * n] \ reads[2 * m]) # {}
  BY <1>1, <1>2, <1>3, <1>5, RepeatedIsOvertaken DEF N
<1> QED  BY <1>4, <1>5 DEF walk

\* WalksAreComplete: the pages of a collection of any size, however it grows
\* between the statements.
THEOREM WalksComplete == Spec => []WalksAreComplete
BY GrowingIsComplete, TablesGrow, PTL

--------------------------------------------------------------------------------
(* The loops over lots, fills and numbers *)

LEMMA MinOfTwo ==
    ASSUME NEW a \in Int, NEW b \in Int
    PROVE  Min({a, b}) = IF a <= b THEN a ELSE b
<1> DEFINE m == IF a <= b THEN a ELSE b
<1>1. m \in {a, b} /\ \A y \in {a, b} : m <= y
  OBVIOUS
<1>2. \A x \in {a, b} : (\A y \in {a, b} : x <= y) => x = m
  OBVIOUS
<1> HIDE DEF m
<1>3. Min({a, b}) = m
  BY <1>1, <1>2 DEF Min
<1> QED  BY <1>3 DEF m

Lots == [quantity : Nat, price : Int]
Sales == [price : Int, remaining : Nat, pnl : Int, open : Seq(Lots)]
Books == [lots : Seq(Lots), realized : Seq(Int)]
Trades == [side : {"buy", "sell"}, quantity : Nat, price : Int]

\* One lot against a sale; one of the quantity that is left settles it.
LEMMA LotMatched ==
    ASSUME NEW sale \in Sales, NEW lot \in Lots
    PROVE  /\ MatchLot(sale, lot) \in Sales
           /\ sale.remaining = lot.quantity =>
                 /\ MatchLot(sale, lot).open = sale.open
                 /\ MatchLot(sale, lot).pnl
                       = sale.pnl + lot.quantity * (sale.price - lot.price)
<1> DEFINE matched == Min({sale.remaining, lot.quantity})
           gain == matched * (sale.price - lot.price)
           rest == [lot EXCEPT !.quantity = @ - matched]
<1>1. /\ sale.price \in Int /\ sale.remaining \in Nat /\ sale.pnl \in Int
      /\ sale.open \in Seq(Lots) /\ lot.quantity \in Nat /\ lot.price \in Int
  BY DEF Sales, Lots
<1>2. /\ matched \in Nat /\ matched <= sale.remaining /\ matched <= lot.quantity
      /\ sale.remaining = lot.quantity => matched = lot.quantity
  <2>1. matched = IF sale.remaining <= lot.quantity THEN sale.remaining
                  ELSE lot.quantity
    BY <1>1, MinOfTwo
  <2> HIDE DEF matched
  <2> QED  BY <1>1, <2>1
<1>3. MatchLot(sale, lot)
        = [price |-> sale.price, remaining |-> sale.remaining - matched,
           pnl |-> sale.pnl + gain,
           open |-> IF matched = lot.quantity THEN sale.open
                    ELSE Append(sale.open, rest)]
  BY DEF MatchLot
<1> HIDE DEF matched
<1>4. gain \in Int /\ sale.remaining - matched \in Nat
  BY <1>1, <1>2
<1>5. rest \in Lots
  <2>1. /\ lot.quantity - matched \in Nat
        /\ lot = [quantity |-> lot.quantity, price |-> lot.price]
    BY <1>1, <1>2 DEF Lots
  <2>2. rest = [quantity |-> lot.quantity - matched, price |-> lot.price]
    BY <2>1
  <2> QED  BY <1>1, <2>1, <2>2 DEF Lots
<1>6. gain = matched * (sale.price - lot.price)
  OBVIOUS
<1> HIDE DEF gain, rest
<1>7. Append(sale.open, rest) \in Seq(Lots)
  BY <1>1, <1>5
<1>8. MatchLot(sale, lot) \in Sales
  BY <1>1, <1>3, <1>4, <1>7 DEF Sales
<1> QED  BY <1>2, <1>3, <1>6, <1>8

\* The loop over the open lots.
LEMMA SaleLoop ==
    ASSUME NEW fill, fill.quantity \in Nat, fill.price \in Int,
           NEW lots \in Seq(Lots)
    PROVE  \E g \in [0 .. Len(lots) -> Sales] :
              /\ g[0] = [price |-> fill.price, remaining |-> fill.quantity,
                         pnl |-> 0, open |-> <<>>]
              /\ \A n \in 1 .. Len(lots) : g[n] = MatchLot(g[n - 1], lots[n])
              /\ SaleOver(fill, lots) = g[Len(lots)]
<1> DEFINE N == Len(lots)
           start == [price |-> fill.price, remaining |-> fill.quantity,
                     pnl |-> 0, open |-> <<>>]
           next == [p \in (1 .. N) \X Sales |-> MatchLot(p[2], lots[p[1]])]
           Loop(g) == g = [n \in 0 .. N |-> IF n = 0 THEN start
                                           ELSE MatchLot(g[n - 1], lots[n])]
<1>1. N \in Nat /\ \A n \in 1 .. N : lots[n] \in Lots
  OBVIOUS
<1>2. start \in Sales
  BY DEF Sales
<1>3. next \in [(1 .. N) \X Sales -> Sales]
  BY <1>1, LotMatched
<1>4. PICK f \in [0 .. N -> Sales] : /\ f[0] = start
                                    /\ \A n \in 1 .. N : f[n] = next[<<n, f[n - 1]>>]
  <2>1. IsLoop(N, Sales, start, next)
    BY <1>1, <1>2, <1>3 DEF IsLoop
  <2>2. PICK f : Computes(N, Sales, start, next, f)
    BY <2>1, Iteration
  <2> QED  BY <2>2 DEF Computes
<1>5. \A n \in 1 .. N : f[n] = MatchLot(f[n - 1], lots[n])
  <2> TAKE n \in 1 .. N
  <2>1. n - 1 \in 0 .. N
    BY <1>1
  <2>2. <<n, f[n - 1]>> \in (1 .. N) \X Sales
    BY <1>4, <2>1
  <2> QED  BY <1>4, <2>2
<1>6. Loop(f)
  BY <1>1, <1>4, <1>5
<1> DEFINE g == CHOOSE h : Loop(h)
<1>7. Loop(g)
  BY <1>6
<1>8. SaleOver(fill, lots) = g[N]
  BY DEF SaleOver
<1> HIDE DEF g, start, next
<1>9. /\ DOMAIN g = 0 .. N /\ g[0] = start
      /\ \A n \in 1 .. N : g[n] = MatchLot(g[n - 1], lots[n])
  BY <1>1, <1>7
<1>10. \A n \in 0 .. N : g[n] = f[n]
  <2>1. Alike(N, g, f)
    BY <1>1, <1>4, <1>5, <1>9 DEF Alike
  <2> QED  BY <2>1, SameTurns
<1>11. g \in [0 .. N -> Sales]
  BY <1>4, <1>7, <1>10
<1> QED  BY <1>8, <1>9, <1>11 DEF start

LEMMA FillMatched ==
    ASSUME NEW book \in Books,
           NEW fill, fill.quantity \in Nat, fill.price \in Int
    PROVE  MatchFill(book, fill) \in Books
<1>1. book.lots \in Seq(Lots) /\ book.realized \in Seq(Int)
  BY DEF Books
<1>2. CASE fill.side = "buy"
  <2>1. [quantity |-> fill.quantity, price |-> fill.price] \in Lots
    BY DEF Lots
  <2>2. Append(book.lots, [quantity |-> fill.quantity, price |-> fill.price])
           \in Seq(Lots)
    BY <1>1, <2>1
  <2> QED  BY <1>1, <1>2, <2>2 DEF MatchFill, Books
<1>3. CASE fill.side # "buy"
  <2> DEFINE sale == SaleOver(fill, book.lots)
  <2>1. sale \in Sales
    <3>1. PICK g \in [0 .. Len(book.lots) -> Sales] : sale = g[Len(book.lots)]
      BY <1>1, SaleLoop
    <3>2. Len(book.lots) \in 0 .. Len(book.lots)
      BY <1>1
    <3> QED  BY <3>1, <3>2
  <2>2. MatchFill(book, fill)
          = [lots |-> sale.open, realized |-> Append(book.realized, sale.pnl)]
    BY <1>3 DEF MatchFill
  <2> HIDE DEF sale
  <2>3. sale.open \in Seq(Lots) /\ sale.pnl \in Int
    BY <2>1 DEF Sales
  <2>4. Append(book.realized, sale.pnl) \in Seq(Int)
    BY <1>1, <2>3
  <2> QED  BY <2>2, <2>3, <2>4 DEF Books
<1> QED  BY <1>2, <1>3

\* The loop over the fills.
LEMMA BookLoop ==
    ASSUME NEW list \in Seq(Trades)
    PROVE  /\ FifoBooks(list) \in [0 .. Len(list) -> Books]
           /\ FifoBooks(list)[0] = NoBook
           /\ \A n \in 1 .. Len(list) :
                 FifoBooks(list)[n] = MatchFill(FifoBooks(list)[n - 1], list[n])
<1> DEFINE N == Len(list)
           next == [p \in (1 .. N) \X Books |-> MatchFill(p[2], list[p[1]])]
           Loop(g) == g = [n \in 0 .. N |-> IF n = 0 THEN NoBook
                                           ELSE MatchFill(g[n - 1], list[n])]
<1>1. N \in Nat
      /\ \A n \in 1 .. N : list[n].quantity \in Nat /\ list[n].price \in Int
  <2>1. N \in Nat /\ \A n \in 1 .. N : list[n] \in Trades
    OBVIOUS
  <2> QED  BY <2>1 DEF Trades
<1>2. NoBook \in Books
  <2>1. <<>> \in Seq(Lots) /\ <<>> \in Seq(Int)
    OBVIOUS
  <2> QED  BY <2>1 DEF NoBook, Books
<1>3. next \in [(1 .. N) \X Books -> Books]
  BY <1>1, FillMatched
<1>4. PICK f \in [0 .. N -> Books] : /\ f[0] = NoBook
                                    /\ \A n \in 1 .. N : f[n] = next[<<n, f[n - 1]>>]
  <2>1. IsLoop(N, Books, NoBook, next)
    BY <1>1, <1>2, <1>3 DEF IsLoop
  <2>2. PICK f : Computes(N, Books, NoBook, next, f)
    BY <2>1, Iteration
  <2> QED  BY <2>2 DEF Computes
<1>5. \A n \in 1 .. N : f[n] = MatchFill(f[n - 1], list[n])
  <2> TAKE n \in 1 .. N
  <2>1. n - 1 \in 0 .. N
    BY <1>1
  <2>2. <<n, f[n - 1]>> \in (1 .. N) \X Books
    BY <1>4, <2>1
  <2> QED  BY <1>4, <2>2
<1>6. Loop(f)
  <2>1. N \in Nat /\ DOMAIN f = 0 .. N
    BY <1>1, <1>4
  <2>2. \A n \in 0 .. N : f[n] = IF n = 0 THEN NoBook ELSE MatchFill(f[n - 1], list[n])
    BY <1>4, <1>5, <2>1
  <2>3. f = [n \in 0 .. N |-> f[n]]
    BY <1>4
  <2> QED  BY <2>2, <2>3
<1> DEFINE g == CHOOSE h : Loop(h)
<1>7. Loop(g)
  BY <1>6
<1>8. FifoBooks(list) = g
  BY DEF FifoBooks
<1> HIDE DEF g, next
<1>9. /\ DOMAIN g = 0 .. N /\ g[0] = NoBook
      /\ \A n \in 1 .. N : g[n] = MatchFill(g[n - 1], list[n])
  BY <1>1, <1>7
<1>10. \A n \in 0 .. N : g[n] = f[n]
  <2>1. Alike(N, g, f)
    BY <1>1, <1>4, <1>5, <1>9 DEF Alike
  <2> QED  BY <2>1, SameTurns
<1>11. g \in [0 .. N -> Books]
  BY <1>4, <1>7, <1>10
<1> QED  BY <1>8, <1>9, <1>11

LEMMA NoFillMatched == FifoBook(<<>>) = NoBook
<1>1. <<>> \in Seq(Trades) /\ Len(<<>>) = 0
  OBVIOUS
<1> QED  BY <1>1, BookLoop DEF FifoBook

\* One more fill is matched after all others.
LEMMA BookAppended ==
    ASSUME NEW list \in Seq(Trades), NEW fill \in Trades
    PROVE  /\ FifoBook(list) \in Books
           /\ FifoBook(Append(list, fill)) = MatchFill(FifoBook(list), fill)
<1> DEFINE more == Append(list, fill)
           N == Len(list)
           g == FifoBooks(list)
           h == FifoBooks(more)
<1>1. /\ N \in Nat /\ more \in Seq(Trades) /\ Len(more) = N + 1
      /\ more[N + 1] = fill /\ \A n \in 1 .. N : more[n] = list[n]
  OBVIOUS
<1>2. /\ g \in [0 .. N -> Books] /\ g[0] = NoBook
      /\ \A n \in 1 .. N : g[n] = MatchFill(g[n - 1], list[n])
  BY BookLoop
<1> HIDE DEF more
<1>3. h[0] = NoBook /\ \A n \in 1 .. N + 1 : h[n] = MatchFill(h[n - 1], more[n])
  BY <1>1, BookLoop
<1>4. FifoBook(list) = g[N] /\ FifoBook(more) = h[N + 1]
  BY <1>1 DEF FifoBook
<1> HIDE DEF g, h
<1>5. h[N] = g[N]
  <2>1. Alike(N, g, h)
    BY <1>1, <1>2, <1>3 DEF Alike
  <2> QED  BY <1>1, <2>1, SameTurns
<1>6. h[N + 1] = MatchFill(h[(N + 1) - 1], more[N + 1]) /\ (N + 1) - 1 = N
  BY <1>1, <1>3
<1> QED  BY <1>1, <1>2, <1>4, <1>5, <1>6 DEF more

LEMMA SumLoop ==
    ASSUME NEW numbers \in Seq(Int)
    PROVE  \E g \in [0 .. Len(numbers) -> Int] :
              /\ g[0] = 0
              /\ \A n \in 1 .. Len(numbers) : g[n] = g[n - 1] + numbers[n]
              /\ Total(numbers) = g[Len(numbers)]
<1> DEFINE N == Len(numbers)
           next == [p \in (1 .. N) \X Int |-> p[2] + numbers[p[1]]]
           Loop(g) == g = [n \in 0 .. N |-> IF n = 0 THEN 0
                                           ELSE g[n - 1] + numbers[n]]
<1>1. N \in Nat /\ \A n \in 1 .. N : numbers[n] \in Int
  OBVIOUS
<1>2. next \in [(1 .. N) \X Int -> Int]
  BY <1>1
<1>3. PICK f \in [0 .. N -> Int] : /\ f[0] = 0
                                  /\ \A n \in 1 .. N : f[n] = next[<<n, f[n - 1]>>]
  <2>1. IsLoop(N, Int, 0, next)
    BY <1>1, <1>2 DEF IsLoop
  <2>2. PICK f : Computes(N, Int, 0, next, f)
    BY <2>1, Iteration
  <2> QED  BY <2>2 DEF Computes
<1>4. \A n \in 1 .. N : f[n] = f[n - 1] + numbers[n]
  <2> TAKE n \in 1 .. N
  <2>1. n - 1 \in 0 .. N
    BY <1>1
  <2>2. <<n, f[n - 1]>> \in (1 .. N) \X Int
    BY <1>3, <2>1
  <2> QED  BY <1>3, <2>2
<1>5. Loop(f)
  BY <1>1, <1>3, <1>4
<1> DEFINE g == CHOOSE h : Loop(h)
<1>6. Loop(g)
  BY <1>5
<1>7. Total(numbers) = g[N]
  BY DEF Total
<1> HIDE DEF g, next
<1>8. /\ DOMAIN g = 0 .. N /\ g[0] = 0
      /\ \A n \in 1 .. N : g[n] = g[n - 1] + numbers[n]
  <2>1. N \in Nat /\ g = [n \in 0 .. N |-> IF n = 0 THEN 0
                                          ELSE g[n - 1] + numbers[n]]
    BY <1>1, <1>6
  <2> HIDE DEF N
  <2>2. DOMAIN g = 0 .. N /\ \A n \in 0 .. N :
           g[n] = IF n = 0 THEN 0 ELSE g[n - 1] + numbers[n]
    BY <2>1, Zenon
  <2> QED  BY <2>1, <2>2
<1>9. \A n \in 0 .. N : g[n] = f[n]
  <2>1. Alike(N, g, f)
    BY <1>1, <1>3, <1>4, <1>8 DEF Alike
  <2> QED  BY <2>1, SameTurns
<1>10. g \in [0 .. N -> Int]
  BY <1>3, <1>6, <1>9
<1> QED  BY <1>7, <1>8, <1>10

--------------------------------------------------------------------------------
(* Shares one by one *)

Marked == [side : {"buy", "sell", "lot"}, quantity : Nat, price : Int]

LEMMA SharesTyped ==
    ASSUME NEW fill, fill.quantity \in Nat, fill.price \in Int
    PROVE  /\ Shares(fill) \in Seq(Int) /\ Len(Shares(fill)) = fill.quantity
           /\ \A k \in 1 .. fill.quantity : Shares(fill)[k] = fill.price
BY DEF Shares

\* What one more fill adds to the shares of a side.
Added(side, fill, shares) == IF fill.side = side THEN shares \o Shares(fill) ELSE shares

LEMMA AddedTyped ==
    ASSUME NEW side, NEW fill \in Marked, NEW shares \in Seq(Int)
    PROVE  Added(side, fill, shares) \in Seq(Int)
<1>1. fill.quantity \in Nat /\ fill.price \in Int
  BY DEF Marked
<1>2. Shares(fill) \in Seq(Int)
  BY <1>1, SharesTyped
<1>3. shares \o Shares(fill) \in Seq(Int)
  BY <1>2, ConcatProperties
<1> QED  BY <1>3 DEF Added

LEMMA SharesLoop ==
    ASSUME NEW side, NEW list \in Seq(Marked)
    PROVE  \E g \in [0 .. Len(list) -> Seq(Int)] :
              /\ g[0] = <<>>
              /\ \A n \in 1 .. Len(list) : g[n] = Added(side, list[n], g[n - 1])
              /\ SharesOf(side, list) = g[Len(list)]
<1> DEFINE N == Len(list)
           S == Seq(Int)
           next == [p \in (1 .. N) \X S |-> Added(side, list[p[1]], p[2])]
           Loop(g) == g = [n \in 0 .. N |-> IF n = 0 THEN <<>>
                                           ELSE IF list[n].side = side
                                           THEN g[n - 1] \o Shares(list[n])
                                           ELSE g[n - 1]]
<1>0. SharesOf(side, list) = (CHOOSE g : Loop(g))[N]
  BY DEF SharesOf
<1>1. N \in Nat /\ \A n \in 1 .. N : list[n] \in Marked
  OBVIOUS
<1>2. \A g : Loop(g) <=> g = [n \in 0 .. N |-> IF n = 0 THEN <<>>
                                              ELSE Added(side, list[n], g[n - 1])]
  BY DEF Added
<1> HIDE DEF Loop, N
<1>3. <<>> \in S
  OBVIOUS
<1>4. next \in [(1 .. N) \X S -> S]
  BY <1>1, AddedTyped
<1> HIDE DEF S
<1>5. PICK f : /\ f \in [0 .. N -> S] /\ f[0] = <<>>
               /\ \A n \in 1 .. N : f[n] = next[<<n, f[n - 1]>>]
  <2>1. IsLoop(N, S, <<>>, next)
    BY <1>1, <1>3, <1>4 DEF IsLoop
  <2>2. PICK f : Computes(N, S, <<>>, next, f)
    BY <2>1, Iteration
  <2> QED  BY <2>2 DEF Computes
<1>6. \A n \in 1 .. N : f[n] = Added(side, list[n], f[n - 1])
  <2> TAKE n \in 1 .. N
  <2>1. n - 1 \in 0 .. N
    BY <1>1
  <2>2. <<n, f[n - 1]>> \in (1 .. N) \X S
    BY <1>5, <2>1
  <2> QED  BY <1>5, <2>2
<1>7. Loop(f)
  <2>1. \A n \in 0 .. N : f[n] = IF n = 0 THEN <<>> ELSE Added(side, list[n], f[n - 1])
    BY <1>1, <1>5, <1>6
  <2>2. f = [n \in 0 .. N |-> f[n]]
    BY <1>5
  <2> QED  BY <1>2, <2>1, <2>2
<1> DEFINE g == CHOOSE h : Loop(h)
<1>8. Loop(g)
  BY <1>7
<1>9. SharesOf(side, list) = g[N]
  BY <1>0
<1> HIDE DEF g, next
<1>10. /\ DOMAIN g = 0 .. N /\ g[0] = <<>>
       /\ \A n \in 1 .. N : g[n] = Added(side, list[n], g[n - 1])
       /\ g = [n \in 0 .. N |-> g[n]]
  <2>1. g = [n \in 0 .. N |-> IF n = 0 THEN <<>> ELSE Added(side, list[n], g[n - 1])]
    BY <1>2, <1>8
  <2>2. DOMAIN g = 0 .. N
    BY <2>1
  <2>3. \A n \in 0 .. N : g[n] = IF n = 0 THEN <<>> ELSE Added(side, list[n], g[n - 1])
    BY <2>1, Zenon
  <2>4. g = [n \in 0 .. N |-> g[n]]
    BY <2>1, <2>2, <2>3
  <2>5. g[0] = <<>> /\ \A n \in 1 .. N : g[n] = Added(side, list[n], g[n - 1])
    BY <1>1, <2>3
  <2> QED  BY <2>2, <2>4, <2>5
<1>11. \A n \in 0 .. N : g[n] = f[n]
  <2>1. Alike(N, g, f)
    BY <1>1, <1>5, <1>6, <1>10 DEF Alike
  <2> QED  BY <2>1, SameTurns
<1>12. g \in [0 .. N -> S]
  BY <1>5, <1>10, <1>11
<1> QED  BY <1>9, <1>10, <1>12 DEF N, S

LEMMA SharesAppended ==
    ASSUME NEW side, NEW list \in Seq(Marked), NEW fill \in Marked
    PROVE  /\ SharesOf(side, list) \in Seq(Int)
           /\ SharesOf(side, <<>>) = <<>>
           /\ SharesOf(side, Append(list, fill)) = Added(side, fill, SharesOf(side, list))
<1> DEFINE more == Append(list, fill)
           N == Len(list)
<1>1. /\ N \in Nat /\ more \in Seq(Marked) /\ Len(more) = N + 1
      /\ more[N + 1] = fill /\ \A n \in 1 .. N : more[n] = list[n]
  OBVIOUS
<1> HIDE DEF more
<1>2. PICK g :
         /\ g \in [0 .. N -> Seq(Int)]
         /\ g[0] = <<>>
         /\ \A n \in 1 .. N : g[n] = Added(side, list[n], g[n - 1])
         /\ SharesOf(side, list) = g[N]
  BY SharesLoop
<1>3. PICK h :
         /\ h \in [0 .. N + 1 -> Seq(Int)]
         /\ h[0] = <<>>
         /\ \A n \in 1 .. N + 1 : h[n] = Added(side, more[n], h[n - 1])
         /\ SharesOf(side, more) = h[N + 1]
  <2> DEFINE M == N + 1
  <2>1. Len(more) = M
    BY <1>1
  <2> HIDE DEF M
  <2>2. \E h : /\ h \in [0 .. M -> Seq(Int)]
               /\ h[0] = <<>>
               /\ \A n \in 1 .. M : h[n] = Added(side, more[n], h[n - 1])
               /\ SharesOf(side, more) = h[M]
    BY <1>1, <2>1, SharesLoop
  <2> QED  BY <2>2 DEF M
<1>4. SharesOf(side, <<>>) = <<>>
  <2> DEFINE none == <<>>
  <2>1. none \in Seq(Marked) /\ Len(none) = 0
    OBVIOUS
  <2> HIDE DEF none
  <2>2. PICK f \in [0 .. Len(none) -> Seq(Int)] :
            f[0] = <<>> /\ SharesOf(side, none) = f[Len(none)]
    BY <2>1, SharesLoop
  <2> QED  BY <2>1, <2>2 DEF none
<1> HIDE DEF N
<1>5. h[N] = g[N]
  <2>1. Alike(N, g, h)
    BY <1>1, <1>2, <1>3 DEF Alike
  <2>2. \A n \in 0 .. N : g[n] = h[n]
    BY <2>1, SameTurns
  <2>3. N \in 0 .. N
    BY <1>1
  <2> QED  BY <2>2, <2>3
<1>6. h[N + 1] = Added(side, more[N + 1], h[(N + 1) - 1]) /\ (N + 1) - 1 = N
  BY <1>1, <1>3
<1>7. g[N] \in Seq(Int)
  BY <1>1, <1>2
<1> QED  BY <1>1, <1>2, <1>3, <1>4, <1>5, <1>6, <1>7 DEF more

\* The shares of open lots, in their order.
AllShares(lots) ==
    SharesOf("lot", [k \in 1 .. Len(lots) |->
        [side |-> "lot", quantity |-> lots[k].quantity, price |-> lots[k].price]])

LEMMA LotAppended ==
    ASSUME NEW lots \in Seq(Lots), NEW lot \in Lots
    PROVE  /\ AllShares(lots) \in Seq(Int)
           /\ AllShares(<<>>) = <<>>
           /\ AllShares(Append(lots, lot)) = AllShares(lots) \o Shares(lot)
<1> DEFINE Mark(l) == [side |-> "lot", quantity |-> l.quantity, price |-> l.price]
           N == Len(lots)
           list == [k \in 1 .. N |-> Mark(lots[k])]
           more == Append(lots, lot)
           longer == [k \in 1 .. Len(more) |-> Mark(more[k])]
<1>1. \A l \in Lots : Mark(l) \in Marked
  BY DEF Lots, Marked
<1>2. /\ N \in Nat /\ \A k \in 1 .. N : lots[k] \in Lots
      /\ Len(more) = N + 1 /\ more[N + 1] = lot
      /\ \A k \in 1 .. N : more[k] = lots[k]
  OBVIOUS
<1>3. AllShares(lots) = SharesOf("lot", list) /\ AllShares(more) = SharesOf("lot", longer)
  BY DEF AllShares
<1> HIDE DEF Mark, more, N
<1>4. list \in Seq(Marked) /\ Len(list) = N
  BY <1>1, <1>2
<1>5. longer = Append(list, Mark(lot))
  <2>1. Append(list, Mark(lot)) \in Seq(Marked)
    BY <1>1, <1>4
  <2>2. longer \in Seq(Marked) /\ Len(longer) = N + 1
    BY <1>1, <1>2
  <2>3. Len(Append(list, Mark(lot))) = N + 1
    <3> HIDE DEF list
    <3> QED  BY <1>1, <1>4, AppendProperties
  <2>4. \A k \in 1 .. N + 1 : longer[k] = Append(list, Mark(lot))[k]
    <3> TAKE k \in 1 .. N + 1
    <3>1. CASE k = N + 1
      BY <1>2, <1>4, <3>1
    <3>2. CASE k \in 1 .. N
      BY <1>2, <1>4, <3>2
    <3> QED  BY <1>2, <3>1, <3>2
  <2> HIDE DEF longer, list
  <2> QED  BY <2>1, <2>2, <2>3, <2>4, SeqEqual
<1> HIDE DEF longer, list
<1>6. SharesOf("lot", longer) = SharesOf("lot", list) \o Shares(Mark(lot))
  <2>1. Mark(lot).side = "lot"
    BY DEF Mark
  <2> QED  BY <1>1, <1>4, <1>5, <2>1, SharesAppended DEF Added
<1>7. Shares(Mark(lot)) = Shares(lot)
  BY DEF Shares, Mark
<1>8. AllShares(<<>>) = <<>>
  <2>1. Len(<<>>) = 0 /\ [k \in 1 .. 0 |-> Mark(<<>>[k])] = <<>>
    OBVIOUS
  <2>2. AllShares(<<>>) = SharesOf("lot", [k \in 1 .. Len(<<>>) |-> Mark(<<>>[k])])
    BY DEF AllShares, Mark
  <2> QED  BY <1>1, <1>4, <2>1, <2>2, SharesAppended
<1> QED  BY <1>1, <1>3, <1>4, <1>6, <1>7, <1>8, SharesAppended DEF more

--------------------------------------------------------------------------------
(* A sale against the open shares *)

\* What is left of shares when the first n are gone.
After(s, n) == SubSeq(s, n + 1, Len(s))

LEMMA AfterIs ==
    ASSUME NEW s \in Seq(Int), NEW n \in 0 .. Len(s)
    PROVE  /\ After(s, n) \in Seq(Int) /\ Len(After(s, n)) = Len(s) - n
           /\ \A k \in 1 .. Len(s) - n : After(s, n)[k] = s[n + k]
           /\ \A t \in Seq(Int) :
                 /\ Len(t) = Len(s) - n
                 /\ \A k \in 1 .. Len(s) - n : t[k] = s[n + k]
                 => t = After(s, n)
<1> DEFINE u == After(s, n)
<1>1. Len(s) \in Nat /\ n \in Nat /\ n <= Len(s) /\ \A k \in 1 .. Len(s) : s[k] \in Int
  OBVIOUS
<1>2. /\ u \in Seq(Int) /\ Len(u) = Len(s) - n
      /\ \A k \in 1 .. Len(s) - n : u[k] = s[n + k]
  <2> DEFINE L == Len(s)
  <2>1. L \in Nat /\ n + 1 \in Int /\ \A i \in n + 1 .. L : s[i] \in Int
    BY <1>1
  <2>2. u = SubSeq(s, n + 1, L)
    BY DEF After
  <2> HIDE DEF u, L
  <2>3. /\ u \in Seq(Int) /\ Len(u) = IF n + 1 <= L THEN L - (n + 1) + 1 ELSE 0
        /\ \A i \in 1 .. L - (n + 1) + 1 : u[i] = s[(n + 1) + i - 1]
    BY <2>1, <2>2, SubSeqProperties
  <2>4. L - (n + 1) + 1 = L - n /\ \A i \in Int : (n + 1) + i - 1 = n + i
    BY <1>1, <2>1
  <2>5. Len(u) = L - n
    <3>1. n <= L /\ n \in Nat
      BY <1>1 DEF L
    <3>2. CASE n = L
      BY <2>1, <2>3, <3>1, <3>2
    <3>3. CASE n + 1 <= L
      BY <2>1, <2>3, <2>4, <3>1, <3>3
    <3> QED  BY <2>1, <3>1, <3>2, <3>3
  <2>6. \A k \in 1 .. L - n : u[k] = s[n + k]
    BY <2>1, <2>3, <2>4
  <2> QED  BY <2>3, <2>5, <2>6 DEF L
<1> HIDE DEF u
<1>3. ASSUME NEW t \in Seq(Int), Len(t) = Len(s) - n,
             \A k \in 1 .. Len(s) - n : t[k] = s[n + k]
      PROVE  t = u
  <2>1. Len(t) = Len(u) /\ \A k \in 1 .. Len(t) : t[k] = u[k]
    BY <1>2, <1>3
  <2> QED  BY <1>2, <2>1, SeqEqual
<1> QED  BY <1>2, <1>3 DEF u

\* A sum that goes on with the same number.
LEMMA TotalOfBlock ==
    ASSUME NEW s \in Seq(Int), NEW t \in Seq(Int), NEW x \in Int, NEW m \in Nat,
           Len(t) = Len(s) + m,
           \A k \in 1 .. Len(s) : t[k] = s[k],
           \A k \in Len(s) + 1 .. Len(s) + m : t[k] = x
    PROVE  Total(t) = Total(s) + m * x
<1> DEFINE N == Len(s)
<1>1. N \in Nat /\ Len(t) = N + m
  OBVIOUS
<1>2. PICK g : /\ g \in [0 .. N -> Int] /\ g[0] = 0
               /\ \A n \in 1 .. N : g[n] = g[n - 1] + s[n]
               /\ Total(s) = g[N]
  BY SumLoop
<1>3. PICK h : /\ h \in [0 .. Len(t) -> Int] /\ h[0] = 0
               /\ \A n \in 1 .. Len(t) : h[n] = h[n - 1] + t[n]
               /\ Total(t) = h[Len(t)]
  BY SumLoop
<1>4. /\ \A k \in 1 .. N : t[k] = s[k]
      /\ \A k \in N + 1 .. N + m : t[k] = x
  OBVIOUS
<1> HIDE DEF N
<1>5. h[N] = g[N] /\ g[N] \in Int
  <2>1. Alike(N, g, h)
    BY <1>1, <1>2, <1>3, <1>4 DEF Alike
  <2>2. \A n \in 0 .. N : g[n] = h[n]
    BY <2>1, SameTurns
  <2>3. N \in 0 .. N
    BY <1>1
  <2> QED  BY <1>2, <2>2, <2>3
<1> DEFINE T == {j \in Nat : j <= m => h[N + j] = g[N] + j * x}
<1>6. 0 \in T
  BY <1>1, <1>5
<1>7. ASSUME NEW j \in Nat, j \in T
      PROVE  j + 1 \in T
  <2> SUFFICES ASSUME j + 1 <= m PROVE h[N + (j + 1)] = g[N] + (j + 1) * x
    OBVIOUS
  <2>1. /\ N + (j + 1) \in 1 .. Len(t) /\ (N + (j + 1)) - 1 = N + j
        /\ N + (j + 1) \in N + 1 .. N + m /\ j <= m
    BY <1>1
  <2>2. h[N + (j + 1)] = h[(N + (j + 1)) - 1] + t[N + (j + 1)]
    <3> DEFINE i == N + (j + 1)
    <3>1. i \in 1 .. Len(t)
      BY <2>1
    <3> HIDE DEF i
    <3>2. h[i] = h[i - 1] + t[i]
      BY <1>3, <3>1
    <3> QED  BY <3>2 DEF i
  <2>3. h[N + (j + 1)] = h[N + j] + x
    BY <1>4, <2>1, <2>2
  <2>4. h[N + j] = g[N] + j * x
    BY <1>7, <2>1
  <2>5. (j + 1) * x = j * x + x /\ j * x \in Int
    OBVIOUS
  <2> QED  BY <1>5, <2>3, <2>4, <2>5
<1> HIDE DEF T
<1>8. m \in T
  BY <1>6, <1>7, NumbersFromZero
<1> QED  BY <1>1, <1>2, <1>3, <1>5, <1>8 DEF T

\* What the first n of some shares bring when they are sold at a price.
Gains(price, shares, n) == [k \in 1 .. n |-> price - shares[k]]

LEMMA GainsTyped ==
    ASSUME NEW price \in Int, NEW shares \in Seq(Int), NEW n \in 0 .. Len(shares)
    PROVE  /\ Gains(price, shares, n) \in Seq(Int) /\ Len(Gains(price, shares, n)) = n
           /\ \A k \in 1 .. n : Gains(price, shares, n)[k] = price - shares[k]
<1>1. n \in Nat /\ \A k \in 1 .. n : shares[k] \in Int
  OBVIOUS
<1> QED  BY <1>1 DEF Gains

\* A sale has taken the oldest of these shares, one by one, until it was settled
\* or they were gone.
Settled(shares, quantity, price, sale) ==
    LET taken == quantity - sale.remaining IN
    /\ sale \in Sales /\ sale.price = price /\ sale.remaining \in 0 .. quantity
    /\ taken <= Len(shares)
    /\ sale.remaining > 0 => taken = Len(shares)
    /\ AllShares(sale.open) = After(shares, taken)
    /\ sale.pnl = Total(Gains(price, shares, taken))

LEMMA SettledByLot ==
    ASSUME NEW shares \in Seq(Int), NEW quantity \in Nat, NEW price \in Int,
           NEW sale, Settled(shares, quantity, price, sale), NEW lot \in Lots
    PROVE  Settled(shares \o Shares(lot), quantity, price, MatchLot(sale, lot))
<1> DEFINE matched == Min({sale.remaining, lot.quantity})
           rest == [lot EXCEPT !.quantity = @ - matched]
           more == MatchLot(sale, lot)
           all == shares \o Shares(lot)
           taken == quantity - sale.remaining
           N == Len(shares)
           L == lot.quantity
<1>1. /\ sale.price = price /\ sale.remaining \in Nat /\ sale.pnl \in Int
      /\ sale.open \in Seq(Lots) /\ L \in Nat /\ lot.price \in Int
      /\ lot = [quantity |-> lot.quantity, price |-> lot.price]
      /\ sale \in Sales /\ more \in Sales /\ N \in Nat
      /\ taken \in Nat /\ taken <= N /\ sale.remaining <= quantity
      /\ sale.remaining > 0 => taken = N
      /\ AllShares(sale.open) = After(shares, taken)
      /\ sale.pnl = Total(Gains(price, shares, taken))
  <2>1. /\ sale.price = price /\ sale.remaining \in Nat /\ sale.pnl \in Int
        /\ sale.open \in Seq(Lots) /\ sale \in Sales
    BY DEF Settled, Sales
  <2>2. /\ L \in Nat /\ lot.price \in Int
        /\ lot = [quantity |-> lot.quantity, price |-> lot.price]
    BY DEF Lots
  <2>3. more \in Sales
    BY <2>1, LotMatched
  <2>4. /\ N \in Nat /\ sale.remaining \in 0 .. quantity /\ taken <= N
        /\ sale.remaining > 0 => taken = N
        /\ AllShares(sale.open) = After(shares, taken)
        /\ sale.pnl = Total(Gains(price, shares, taken))
    BY DEF Settled
  <2>5. taken \in Nat /\ sale.remaining <= quantity
    BY <2>1, <2>4
  <2> QED  BY <2>1, <2>2, <2>3, <2>4, <2>5
<1>2. /\ matched \in Nat /\ matched <= sale.remaining /\ matched <= L
      /\ matched = sale.remaining \/ matched = L
  <2>1. matched = IF sale.remaining <= L THEN sale.remaining ELSE L
    <3>1. sale.remaining \in Int /\ lot.quantity \in Int
      BY <1>1
    <3> QED  BY <3>1, MinOfTwo
  <2> HIDE DEF matched
  <2> QED  BY <1>1, <2>1
<1>3. /\ more.price = price /\ more.remaining = sale.remaining - matched
      /\ more.pnl = sale.pnl + matched * (price - lot.price)
      /\ more.open = IF matched = L THEN sale.open ELSE Append(sale.open, rest)
  BY <1>1 DEF MatchLot
<1>4. /\ all \in Seq(Int) /\ Len(all) = N + L
      /\ \A k \in 1 .. N : all[k] = shares[k]
      /\ \A k \in N + 1 .. N + L : all[k] = lot.price
  <2>1. /\ Shares(lot) \in Seq(Int) /\ Len(Shares(lot)) = L
        /\ \A k \in 1 .. L : Shares(lot)[k] = lot.price
    BY <1>1, SharesTyped
  <2> HIDE DEF L
  <2>2. /\ all \in Seq(Int) /\ Len(all) = N + L
        /\ \A i \in 1 .. N + L : all[i] = IF i <= N THEN shares[i]
                                          ELSE Shares(lot)[i - N]
    BY <2>1, ConcatProperties
  <2> HIDE DEF all, N
  <2>3. \A k \in 1 .. N : all[k] = shares[k]
    <3> TAKE k \in 1 .. N
    <3>1. N \in Nat /\ L \in Nat
      BY <1>1
    <3>2. k \in 1 .. N + L /\ k <= N
      BY <3>1
    <3> QED  BY <2>2, <3>2
  <2>4. \A k \in N + 1 .. N + L : all[k] = lot.price
    <3> TAKE k \in N + 1 .. N + L
    <3>1. k \in 1 .. N + L /\ ~(k <= N) /\ k - N \in 1 .. L
      <4>1. N \in Nat /\ L \in Nat
        BY <1>1
      <4> QED  BY <4>1
    <3>2. all[k] = Shares(lot)[k - N]
      BY <2>2, <3>1
    <3> QED  BY <2>1, <3>1, <3>2
  <2> QED  BY <2>2, <2>3, <2>4
<1>5. rest \in Lots /\ rest.quantity = L - matched /\ rest.price = lot.price
  <2>1. rest = [quantity |-> L - matched, price |-> lot.price]
    BY <1>1
  <2>2. L - matched \in Nat
    BY <1>1, <1>2
  <2> HIDE DEF matched, rest, L
  <2> QED  BY <1>1, <2>1, <2>2 DEF Lots
<1> HIDE DEF matched, rest, more, all
<1> DEFINE now == quantity - more.remaining
<1>6. /\ more.remaining \in 0 .. quantity /\ now = taken + matched
      /\ now \in 0 .. N + L
      /\ more.remaining > 0 => now = N + L
      /\ matched > 0 => taken = N
  <2> DEFINE r == sale.remaining
             r2 == more.remaining
  <2>1. /\ r \in Nat /\ quantity \in Nat /\ taken = quantity - r /\ now = quantity - r2
        /\ r2 = r - matched /\ r <= quantity /\ taken <= N
        /\ (r > 0 => taken = N) /\ N \in Nat /\ L \in Nat
        /\ matched \in Nat /\ matched <= r /\ matched <= L
        /\ matched = r \/ matched = L
    BY <1>1, <1>2, <1>3
  <2> HIDE DEF N, L, r, r2, taken, now
  <2>2. r2 \in 0 .. quantity /\ now = taken + matched
    BY <2>1
  <2>3. matched > 0 => taken = N
    BY <2>1
  <2>4. r2 > 0 => now = N + L
    BY <2>1, <2>2, <2>3
  <2>5. now \in 0 .. N + L
    BY <2>1, <2>2, <2>3
  <2> QED  BY <2>2, <2>3, <2>4, <2>5 DEF r2
<1>7. AllShares(more.open) = After(all, now)
  <2> DEFINE was == AllShares(sale.open)
             is == AllShares(more.open)
  <2>1. /\ was \in Seq(Int) /\ Len(was) = N - taken
        /\ \A k \in 1 .. N - taken : was[k] = shares[taken + k]
    <3>1. taken \in 0 .. Len(shares) /\ was = After(shares, taken)
      BY <1>1
    <3> HIDE DEF was, taken
    <3> QED  BY <3>1, AfterIs
  <2>2. /\ is \in Seq(Int) /\ Len(is) = N - taken + L - matched
        /\ \A k \in 1 .. N - taken : is[k] = was[k]
        /\ \A k \in (N - taken) + 1 .. (N - taken) + (L - matched) : is[k] = lot.price
    <3>1. CASE matched = L
      <4>1. is = was
        BY <1>3, <3>1
      <4>2. (N - taken + L) - matched = N - taken /\ L - matched = 0
        BY <1>1, <1>2, <3>1
      <4>3. N - taken \in Int
        BY <1>1
      <4> HIDE DEF is, was, N, L, taken
      <4>4. (N - taken) + 1 .. (N - taken) + (L - matched) = {}
        BY <4>2, <4>3
      <4> QED  BY <2>1, <4>1, <4>2, <4>4
    <3>2. CASE matched # L
      <4>1. is = was \o Shares(rest)
        BY <1>1, <1>3, <1>5, <3>2, LotAppended
      <4>2. /\ Shares(rest) \in Seq(Int) /\ Len(Shares(rest)) = L - matched
            /\ \A k \in 1 .. L - matched : Shares(rest)[k] = lot.price
        <5>1. rest.quantity \in Nat /\ rest.price \in Int
          BY <1>5 DEF Lots
        <5> QED  BY <1>5, <5>1, SharesTyped
      <4> HIDE DEF is, was
      <4>3. /\ is \in Seq(Int) /\ Len(is) = Len(was) + Len(Shares(rest))
            /\ \A i \in 1 .. Len(was) + Len(Shares(rest)) :
                  is[i] = IF i <= Len(was) THEN was[i] ELSE Shares(rest)[i - Len(was)]
        BY <2>1, <4>1, <4>2, ConcatProperties
      <4> DEFINE A == N - taken
                 B == L - matched
      <4>4. A \in Nat /\ B \in Nat /\ N - taken + L - matched = A + B
        <5>1. /\ N \in Nat /\ taken \in Nat /\ taken <= N /\ L \in Nat
              /\ matched \in Nat /\ matched <= L
          BY <1>1, <1>2
        <5> HIDE DEF N, L, taken
        <5> QED  BY <5>1
      <4>5. /\ Len(was) = A /\ Len(Shares(rest)) = B
            /\ \A k \in 1 .. B : Shares(rest)[k] = lot.price
        <5> HIDE DEF was, N, L, taken
        <5> QED  BY <2>1, <4>2
      <4> HIDE DEF A, B, N, L
      <4>6. /\ is \in Seq(Int) /\ Len(is) = A + B
            /\ \A k \in 1 .. A : is[k] = was[k]
        <5>1. \A k \in 1 .. A : k \in 1 .. A + B /\ k <= A
          BY <4>4
        <5> QED  BY <4>3, <4>5, <5>1
      <4>7. \A k \in A + 1 .. A + B : is[k] = lot.price
        <5> TAKE k \in A + 1 .. A + B
        <5>1. k \in 1 .. A + B /\ ~(k <= A) /\ k - A \in 1 .. B
          BY <4>4
        <5>2. is[k] = Shares(rest)[k - A]
          BY <4>3, <4>5, <5>1
        <5> QED  BY <4>5, <5>1, <5>2
      <4> QED  BY <4>4, <4>6, <4>7 DEF A, B
    <3> QED  BY <3>1, <3>2
  <2> HIDE DEF was, is, N, L, taken, now
  <2>3. Len(is) = Len(all) - now
    BY <1>1, <1>2, <1>4, <1>6, <2>2
  <2>4. \A k \in 1 .. Len(all) - now : is[k] = all[now + k]
    <3> TAKE k \in 1 .. Len(all) - now
    <3>1. CASE k <= N - taken
      <4>1. now = taken
        <5>1. matched > 0 => N - taken < 1
          BY <1>1, <1>6
        <5>2. k \in Nat /\ k >= 1
          BY <1>4, <1>6
        <5>3. /\ N - taken \in Int /\ taken \in Nat /\ matched \in Nat
              /\ now = taken + matched
          BY <1>1, <1>2, <1>6
        <5>4. ~(matched > 0)
          BY <3>1, <5>1, <5>2, <5>3
        <5> QED  BY <5>3, <5>4
      <4>2. k \in 1 .. N - taken /\ taken + k \in 1 .. N
        BY <1>1, <3>1
      <4> QED  BY <1>4, <2>1, <2>2, <4>1, <4>2
    <3>2. CASE k > N - taken
      <4>1. /\ k \in (N - taken) + 1 .. (N - taken) + (L - matched)
            /\ now + k \in N + 1 .. N + L
        <5>1. /\ N \in Nat /\ L \in Nat /\ taken \in Nat /\ taken <= N
              /\ matched \in Nat /\ matched <= L /\ now = taken + matched
              /\ matched > 0 => taken = N
              /\ k \in 1 .. (N + L) - now /\ k > N - taken
          BY <1>1, <1>2, <1>4, <1>6, <3>2
        <5>2. CASE matched = 0
          BY <5>1, <5>2
        <5>3. CASE matched > 0
          BY <5>1, <5>3
        <5> QED  BY <5>1, <5>2, <5>3
      <4> QED  BY <1>4, <2>2, <4>1
    <3> QED  BY <1>1, <3>1, <3>2
  <2>5. now \in 0 .. Len(all)
    BY <1>4, <1>6
  <2> QED  BY <1>4, <2>2, <2>3, <2>4, <2>5, AfterIs DEF is
<1>8. more.pnl = Total(Gains(price, all, now))
  <2> DEFINE was == Gains(price, shares, taken)
             is == Gains(price, all, now)
             x == price - lot.price
  <2>1. /\ was \in Seq(Int) /\ Len(was) = taken
        /\ \A k \in 1 .. taken : was[k] = price - shares[k]
    BY <1>1, GainsTyped
  <2>2. /\ is \in Seq(Int) /\ Len(is) = now
        /\ \A k \in 1 .. now : is[k] = price - all[k]
    BY <1>4, <1>6, GainsTyped
  <2> HIDE DEF was, is, N, L, taken, now
  <2>3. \A k \in 1 .. taken : is[k] = was[k]
    <3> TAKE k \in 1 .. taken
    <3>1. k \in 1 .. N /\ k \in 1 .. now
      BY <1>1, <1>2, <1>6
    <3> QED  BY <1>4, <2>1, <2>2, <3>1
  <2>4. \A k \in taken + 1 .. taken + matched : is[k] = x
    <3> TAKE k \in taken + 1 .. taken + matched
    <3>1. k \in N + 1 .. N + L /\ k \in 1 .. now
      <4>1. /\ N \in Nat /\ L \in Nat /\ taken \in Nat
            /\ matched \in Nat /\ matched <= L /\ now = taken + matched
        BY <1>1, <1>2, <1>6
      <4>2. taken = N
        <5>1. matched > 0
          BY <4>1
        <5> QED  BY <1>6, <5>1
      <4> QED  BY <4>1, <4>2
    <3> QED  BY <1>4, <2>2, <3>1
  <2>5. x \in Int /\ Len(is) = Len(was) + matched
    BY <1>1, <1>6, <2>1, <2>2
  <2> HIDE DEF x
  <2>6. Total(is) = Total(was) + matched * x
    BY <1>2, <2>1, <2>2, <2>3, <2>4, <2>5, TotalOfBlock
  <2> QED  BY <1>1, <1>3, <2>6 DEF was, is, x
<1>9. now <= Len(all) /\ (more.remaining > 0 => now = Len(all))
  BY <1>4, <1>6
<1> QED  BY <1>1, <1>3, <1>6, <1>7, <1>8, <1>9 DEF Settled, more, all

\* The first elements, one more at a time.
LEMMA PrefixGrows ==
    ASSUME NEW S, NEW s \in Seq(S), NEW n \in Nat, n + 1 <= Len(s)
    PROVE  /\ SubSeq(s, 1, n) \in Seq(S)
           /\ s[n + 1] \in S
           /\ SubSeq(s, 1, n + 1) = Append(SubSeq(s, 1, n), s[n + 1])
<1> DEFINE t == SubSeq(s, 1, n)
           u == SubSeq(s, 1, n + 1)
<1>1. Len(s) \in Nat /\ \A i \in 1 .. Len(s) : s[i] \in S
  OBVIOUS
<1>2. /\ \A i \in 1 .. n : s[i] \in S
      /\ \A i \in 1 .. n + 1 : s[i] \in S
      /\ s[n + 1] \in S
  BY <1>1
<1>3. /\ t \in Seq(S) /\ Len(t) = n /\ \A i \in 1 .. n : t[i] = s[i]
  <2>1. /\ t \in Seq(S) /\ Len(t) = IF 1 <= n THEN n - 1 + 1 ELSE 0
        /\ \A i \in 1 .. n - 1 + 1 : t[i] = s[1 + i - 1]
    <3>1. 1 \in Int /\ n \in Int
      OBVIOUS
    <3> QED  BY <1>2, <3>1, SubSeqProperties
  <2> HIDE DEF t
  <2>2. n - 1 + 1 = n /\ \A i \in 1 .. n : 1 + i - 1 = i
    OBVIOUS
  <2>3. CASE n = 0
    BY <2>1, <2>3
  <2>4. CASE n # 0
    BY <2>1, <2>2, <2>4
  <2> QED  BY <2>3, <2>4
<1>4. /\ u \in Seq(S) /\ Len(u) = n + 1 /\ \A i \in 1 .. n + 1 : u[i] = s[i]
  <2>1. /\ u \in Seq(S) /\ Len(u) = IF 1 <= n + 1 THEN (n + 1) - 1 + 1 ELSE 0
        /\ \A i \in 1 .. (n + 1) - 1 + 1 : u[i] = s[1 + i - 1]
    <3>1. 1 \in Int /\ n + 1 \in Int
      OBVIOUS
    <3> QED  BY <1>2, <3>1, SubSeqProperties
  <2> HIDE DEF u
  <2>2. (n + 1) - 1 + 1 = n + 1 /\ 1 <= n + 1 /\ \A i \in 1 .. n + 1 : 1 + i - 1 = i
    OBVIOUS
  <2> QED  BY <2>1, <2>2
<1> HIDE DEF t, u
<1>5. /\ Append(t, s[n + 1]) \in Seq(S) /\ Len(Append(t, s[n + 1])) = n + 1
      /\ \A i \in 1 .. n : Append(t, s[n + 1])[i] = t[i]
      /\ Append(t, s[n + 1])[n + 1] = s[n + 1]
  BY <1>2, <1>3, AppendProperties
<1>6. \A i \in 1 .. n + 1 : u[i] = Append(t, s[n + 1])[i]
  <2> TAKE i \in 1 .. n + 1
  <2>1. i \in 1 .. n \/ i = n + 1
    OBVIOUS
  <2> QED  BY <1>3, <1>4, <1>5, <2>1
<1>7. u = Append(t, s[n + 1])
  BY <1>4, <1>5, <1>6, SeqEqual
<1> QED  BY <1>2, <1>3, <1>7 DEF t, u

\* A sale of no more shares than are open takes the oldest ones.
LEMMA SaleTakesOldest ==
    ASSUME NEW lots \in Seq(Lots), NEW fill,
           fill.quantity \in Nat, fill.price \in Int,
           fill.quantity <= Len(AllShares(lots))
    PROVE  LET sale == SaleOver(fill, lots)
           IN  /\ sale \in Sales
               /\ AllShares(sale.open) = After(AllShares(lots), fill.quantity)
               /\ sale.pnl = Total(Gains(fill.price, AllShares(lots), fill.quantity))
<1> DEFINE N == Len(lots)
           first(n) == SubSeq(lots, 1, n)
           q == fill.quantity
           start == [price |-> fill.price, remaining |-> q, pnl |-> 0, open |-> <<>>]
<1>1. PICK g : /\ g \in [0 .. N -> Sales] /\ g[0] = start
               /\ \A n \in 1 .. N : g[n] = MatchLot(g[n - 1], lots[n])
               /\ SaleOver(fill, lots) = g[N]
  BY SaleLoop
<1> DEFINE T == {n \in Nat : n <= N => Settled(AllShares(first(n)), q, fill.price, g[n])}
<1>2. N \in Nat
  OBVIOUS
<1>3. 0 \in T
  <2>1. first(0) = <<>>
    <3>1. 1 \in Int /\ 0 \in Int /\ 0 < 1
      OBVIOUS
    <3> QED  BY <3>1, SubSeqEmpty
  <2>2. /\ start.price = fill.price /\ start.remaining = q /\ start.pnl = 0
        /\ start.open = <<>> /\ g[0] \in Sales
    BY <1>1, <1>2
  <2>3. AllShares(<<>>) = <<>>
    <3>1. <<>> \in Seq(Lots) /\ [quantity |-> 0, price |-> 0] \in Lots
      BY DEF Lots
    <3> QED  BY <3>1, LotAppended
  <2>4. After(<<>>, 0) = <<>>
    <3>1. Len(<<>>) = 0
      OBVIOUS
    <3> QED  BY <3>1, SubSeqEmpty DEF After
  <2>5. Total(Gains(fill.price, <<>>, 0)) = 0
    <3>1. Gains(fill.price, <<>>, 0) = <<>>
      BY DEF Gains
    <3>2. <<>> \in Seq(Int) /\ Len(<<>>) = 0
      OBVIOUS
    <3> QED  BY <3>1, <3>2, SumLoop
  <2>6. q - q = 0 /\ Len(<<>>) = 0 /\ q \in 0 .. q
    OBVIOUS
  <2> HIDE DEF start, q
  <2>7. Settled(<<>>, q, fill.price, g[0])
    BY <1>1, <2>2, <2>3, <2>4, <2>5, <2>6 DEF Settled
  <2> QED  BY <2>1, <2>3, <2>7
<1>4. ASSUME NEW n \in Nat, n \in T
      PROVE  n + 1 \in T
  <2> SUFFICES ASSUME n + 1 <= N
               PROVE  Settled(AllShares(first(n + 1)), q, fill.price, g[n + 1])
    OBVIOUS
  <2>1. n + 1 \in 1 .. N /\ (n + 1) - 1 = n /\ n <= N
    BY <1>2
  <2>2. g[n + 1] = MatchLot(g[n], lots[n + 1])
    BY <1>1, <2>1
  <2>3. Settled(AllShares(first(n)), q, fill.price, g[n])
    BY <1>4, <2>1
  <2>4. /\ first(n) \in Seq(Lots) /\ lots[n + 1] \in Lots
        /\ first(n + 1) = Append(first(n), lots[n + 1])
    BY PrefixGrows
  <2> HIDE DEF first, q, T
  <2>5. /\ AllShares(first(n)) \in Seq(Int)
        /\ AllShares(first(n + 1)) = AllShares(first(n)) \o Shares(lots[n + 1])
    BY <2>4, LotAppended
  <2> QED  BY <2>2, <2>3, <2>4, <2>5, SettledByLot DEF q
<1> HIDE DEF T
<1>5. N \in T
  BY <1>2, <1>3, <1>4, NumbersFromZero
<1>6. Settled(AllShares(lots), q, fill.price, g[N])
  <2>1. first(N) = lots
    BY SubSeqFull
  <2>2. N <= N => Settled(AllShares(first(N)), q, fill.price, g[N])
    BY <1>5 DEF T
  <2>3. N <= N
    BY <1>2
  <2> HIDE DEF first, q
  <2> QED  BY <2>1, <2>2, <2>3
<1>7. g[N].remaining = 0 /\ g[N] \in Sales
  <2>1. g[N].remaining \in 0 .. q
    BY <1>6 DEF Settled
  <2>2. g[N].remaining > 0 => q - g[N].remaining = Len(AllShares(lots))
    BY <1>6 DEF Settled
  <2>3. g[N].remaining > 0 => FALSE
    BY <2>1, <2>2
  <2> QED  BY <1>6, <2>1, <2>3 DEF Settled
<1>8. q - 0 = q
  OBVIOUS
<1> QED  BY <1>1, <1>6, <1>7, <1>8 DEF Settled

--------------------------------------------------------------------------------
(* Fills in a behaviour *)

SoldBefore(list, i) == Len(SharesOf("sell", SubSeq(list, 1, i - 1)))
SalesTo(list, n) == {i \in 1 .. n : list[i].side = "sell"}

\* The profit of a sale, share by share.
ProfitOf(list, i) ==
    Total([k \in 1 .. list[i].quantity |->
              list[i].price - SharesOf("buy", list)[SoldBefore(list, i) + k]])

\* What is open are the youngest shares; what is sold was bought; and each sale has
\* the profit of its own shares.
MatchedByShares(list) ==
    LET bought == SharesOf("buy", list)
        sold == Len(SharesOf("sell", list))
        book == FifoBook(list)
    IN  /\ list \in Seq(Trades)
        /\ sold <= Len(bought)
        /\ AllShares(book.lots) = After(bought, sold)
        /\ Len(book.realized) = Cardinality(SalesTo(list, Len(list)))
        /\ \A i \in SalesTo(list, Len(list)) :
              /\ SoldBefore(list, i) + list[i].quantity <= sold
              /\ book.realized[Cardinality(SalesTo(list, i))] = ProfitOf(list, i)

LEMMA TradesAreMarked ==
    ASSUME NEW list \in Seq(Trades)
    PROVE  /\ list \in Seq(Marked)
           /\ \A side : SharesOf(side, list) \in Seq(Int) /\ Len(SharesOf(side, list)) \in Nat
<1>1. Trades \subseteq Marked
  BY DEF Trades, Marked
<1>2. list \in Seq(Marked)
  BY <1>1, SeqMonotonic
<1>3. [side |-> "lot", quantity |-> 0, price |-> 0] \in Marked
  BY DEF Marked
<1> QED  BY <1>2, <1>3, SharesAppended

\* The first trades are the same after another one.
LEMMA TradesBefore ==
    ASSUME NEW list \in Seq(Trades), NEW fill \in Trades
    PROVE  LET more == Append(list, fill)
           IN  /\ \A i \in 1 .. Len(list) : SoldBefore(more, i) = SoldBefore(list, i)
               /\ \A n \in 0 .. Len(list) : SalesTo(more, n) = SalesTo(list, n)
               /\ SoldBefore(more, Len(list) + 1) = Len(SharesOf("sell", list))
               /\ SalesTo(more, Len(list) + 1)
                      = IF fill.side = "sell"
                        THEN SalesTo(list, Len(list)) \cup {Len(list) + 1}
                        ELSE SalesTo(list, Len(list))
               /\ \A i \in 1 .. Len(list) : SoldBefore(list, i) \in Nat
<1> DEFINE more == Append(list, fill)
           N == Len(list)
<1>1. /\ more \in Seq(Trades) /\ Len(more) = N + 1 /\ more[N + 1] = fill /\ N \in Nat
      /\ \A i \in 1 .. N : more[i] = list[i]
  OBVIOUS
<1> HIDE DEF more
<1>2. ASSUME NEW n \in 0 .. N
      PROVE  /\ SubSeq(more, 1, n) = SubSeq(list, 1, n)
             /\ SubSeq(list, 1, n) \in Seq(Trades)
  <2> DEFINE s == SubSeq(more, 1, n)
             t == SubSeq(list, 1, n)
  <2>1. /\ \A i \in 1 .. n : more[i] \in Trades /\ list[i] \in Trades
        /\ 1 \in Int /\ n \in Int
    BY <1>1
  <2>2. /\ s \in Seq(Trades) /\ Len(s) = IF 1 <= n THEN n - 1 + 1 ELSE 0
        /\ \A i \in 1 .. n - 1 + 1 : s[i] = more[1 + i - 1]
    BY <2>1, SubSeqProperties
  <2>3. /\ t \in Seq(Trades) /\ Len(t) = IF 1 <= n THEN n - 1 + 1 ELSE 0
        /\ \A i \in 1 .. n - 1 + 1 : t[i] = list[1 + i - 1]
    BY <2>1, SubSeqProperties
  <2> HIDE DEF s, t
  <2>4. Len(s) = Len(t) /\ \A i \in 1 .. Len(s) : s[i] = t[i]
    <3>1. \A i \in 1 .. n : 1 + i - 1 = i
      OBVIOUS
    <3> QED  BY <1>1, <2>2, <2>3, <3>1
  <2> QED  BY <2>2, <2>3, <2>4, SeqEqual DEF s, t
<1>3. \A i \in 1 .. N : SoldBefore(more, i) = SoldBefore(list, i)
  <2>1. \A i \in 1 .. N : i - 1 \in 0 .. N
    BY <1>1
  <2> QED  BY <1>2, <2>1 DEF SoldBefore
<1>4. \A n \in 0 .. N : SalesTo(more, n) = SalesTo(list, n)
  BY <1>1 DEF SalesTo
<1>5. SoldBefore(more, N + 1) = Len(SharesOf("sell", list))
  <2>1. (N + 1) - 1 = N /\ N \in 0 .. N
    BY <1>1
  <2>2. SubSeq(more, 1, N) = list
    BY <1>2, <2>1, SubSeqFull
  <2> QED  BY <2>1, <2>2 DEF SoldBefore
<1>6. SalesTo(more, N + 1) = IF fill.side = "sell"
                             THEN SalesTo(list, N) \cup {N + 1} ELSE SalesTo(list, N)
  <2>1. \A i \in 1 .. N + 1 : i \in 1 .. N \/ i = N + 1
    BY <1>1
  <2>2. N + 1 \in 1 .. N + 1 /\ N + 1 \notin 1 .. N
    BY <1>1
  <2> QED  BY <1>1, <2>1, <2>2 DEF SalesTo
<1>7. \A i \in 1 .. N : SoldBefore(list, i) \in Nat
  <2> TAKE i \in 1 .. N
  <2>1. i - 1 \in 0 .. N
    BY <1>1
  <2>2. SubSeq(list, 1, i - 1) \in Seq(Trades)
    BY <1>2, <2>1
  <2> QED  BY <2>2, TradesAreMarked DEF SoldBefore
<1> QED  BY <1>3, <1>4, <1>5, <1>6, <1>7 DEF more

\* The sales up to a fill are finitely many, and no more than there are.
LEMMA SalesToFinite ==
    ASSUME NEW list, NEW n \in Nat, NEW i \in 0 .. n
    PROVE  /\ IsFiniteSet(SalesTo(list, n)) /\ Cardinality(SalesTo(list, n)) \in Nat
           /\ n + 1 \notin SalesTo(list, n)
           /\ Cardinality(SalesTo(list, i)) <= Cardinality(SalesTo(list, n))
           /\ i \in SalesTo(list, n) => Cardinality(SalesTo(list, i)) >= 1
<1>1. /\ SalesTo(list, n) \in SUBSET Nat /\ \A x \in SalesTo(list, n) : x <= n
      /\ n + 1 \notin SalesTo(list, n)
  BY DEF SalesTo
<1>2. IsFiniteSet(SalesTo(list, n)) /\ Cardinality(SalesTo(list, n)) \in Nat
  BY <1>1, FS_BoundedSetOfNaturals, FS_CardinalityType
<1>3. SalesTo(list, i) \in SUBSET SalesTo(list, n)
  BY DEF SalesTo
<1>4. /\ IsFiniteSet(SalesTo(list, i))
      /\ Cardinality(SalesTo(list, i)) <= Cardinality(SalesTo(list, n))
  BY <1>2, <1>3, FS_Subset
<1>5. ASSUME i \in SalesTo(list, n)
      PROVE  Cardinality(SalesTo(list, i)) >= 1
  <2>1. i \in SalesTo(list, i)
    BY <1>5 DEF SalesTo
  <2>2. Cardinality(SalesTo(list, i)) \in Nat /\ Cardinality(SalesTo(list, i)) # 0
    BY <1>4, <2>1, FS_EmptySet, FS_CardinalityType
  <2> QED  BY <2>2
<1> QED  BY <1>1, <1>2, <1>4, <1>5

\* The profit of an earlier sale depends on shares bought before it.
LEMMA ProfitStays ==
    ASSUME NEW list, MatchedByShares(list), NEW fill \in Trades,
           NEW i \in SalesTo(list, Len(list))
    PROVE  ProfitOf(Append(list, fill), i) = ProfitOf(list, i)
<1> DEFINE more == Append(list, fill)
           bought == SharesOf("buy", list)
           later == SharesOf("buy", more)
           before == SoldBefore(list, i)
           q == list[i].quantity
<1>1. list \in Seq(Trades) /\ i \in 1 .. Len(list) /\ list[i] \in Trades
  BY DEF MatchedByShares, SalesTo
<1>2. /\ q \in Nat /\ before \in Nat /\ before + q <= Len(bought)
      /\ bought \in Seq(Int) /\ Len(bought) \in Nat
  <2>1. Len(SharesOf("sell", list)) \in Nat /\ bought \in Seq(Int) /\ Len(bought) \in Nat
    BY <1>1, TradesAreMarked
  <2>2. /\ before + q <= Len(SharesOf("sell", list))
        /\ Len(SharesOf("sell", list)) <= Len(bought)
    BY DEF MatchedByShares
  <2>3. q \in Nat /\ before \in Nat
    BY <1>1, TradesBefore DEF Trades
  <2> HIDE DEF q, before, bought
  <2> QED  BY <2>1, <2>2, <2>3
<1>3. \A k \in 1 .. Len(bought) : later[k] = bought[k]
  <2>1. /\ fill \in Marked /\ list \in Seq(Marked)
        /\ fill.quantity \in Nat /\ fill.price \in Int
    BY <1>1, TradesAreMarked DEF Trades, Marked
  <2>2. later = Added("buy", fill, bought)
    BY <2>1, SharesAppended
  <2>3. Shares(fill) \in Seq(Int) /\ Len(Shares(fill)) \in Nat
    BY <2>1, SharesTyped
  <2> HIDE DEF later, bought
  <2>4. \A k \in 1 .. Len(bought) : (bought \o Shares(fill))[k] = bought[k]
    BY <1>2, <2>3, ConcatProperties
  <2> QED  BY <2>2, <2>4 DEF Added
<1>4. more[i] = list[i] /\ SoldBefore(more, i) = before
  <2>1. more[i] = list[i]
    BY <1>1
  <2> QED  BY <1>1, <2>1, TradesBefore
<1> DEFINE f == [k \in 1 .. q |-> list[i].price - bought[before + k]]
           g == [k \in 1 .. q |-> list[i].price - later[before + k]]
<1>5. ProfitOf(list, i) = Total(f)
  BY DEF ProfitOf
<1>6. ProfitOf(more, i) = Total(g)
  BY <1>4 DEF ProfitOf
<1> HIDE DEF bought, later, before, q
<1>7. f = g
  <2>1. \A k \in 1 .. q : before + k \in 1 .. Len(bought)
    BY <1>2
  <2> QED  BY <1>3, <2>1
<1> QED  BY <1>5, <1>6, <1>7

LEMMA BuyMatched ==
    ASSUME NEW list, MatchedByShares(list), NEW fill \in Trades, fill.side = "buy"
    PROVE  MatchedByShares(Append(list, fill))
<1> DEFINE more == Append(list, fill)
           N == Len(list)
           bought == SharesOf("buy", list)
           sold == Len(SharesOf("sell", list))
           book == FifoBook(list)
           lot == [quantity |-> fill.quantity, price |-> fill.price]
<1>1. /\ list \in Seq(Trades) /\ N \in Nat /\ sold <= Len(bought)
      /\ AllShares(book.lots) = After(bought, sold)
      /\ Len(book.realized) = Cardinality(SalesTo(list, N))
      /\ \A i \in SalesTo(list, N) :
            /\ SoldBefore(list, i) + list[i].quantity <= sold
            /\ book.realized[Cardinality(SalesTo(list, i))] = ProfitOf(list, i)
  BY DEF MatchedByShares
<1>2. /\ more \in Seq(Trades) /\ Len(more) = N + 1
      /\ \A i \in 1 .. N : more[i] = list[i]
  BY <1>1
<1>3. /\ fill \in Marked /\ list \in Seq(Marked) /\ lot \in Lots
      /\ fill.quantity \in Nat /\ fill.price \in Int
      /\ bought \in Seq(Int) /\ Len(bought) \in Nat /\ sold \in Nat
  BY <1>1, TradesAreMarked DEF Trades, Marked, Lots
<1>4. /\ SharesOf("buy", more) = bought \o Shares(fill)
      /\ SharesOf("sell", more) = SharesOf("sell", list)
  BY <1>3, SharesAppended DEF Added
<1>5. /\ book \in Books /\ FifoBook(more).lots = Append(book.lots, lot)
      /\ FifoBook(more).realized = book.realized
  BY <1>1, BookAppended DEF MatchFill
<1>6. Shares(lot) = Shares(fill)
  BY DEF Shares
<1> HIDE DEF more, bought, book, lot
<1>7. AllShares(FifoBook(more).lots) = After(bought, sold) \o Shares(fill)
  <2>1. book.lots \in Seq(Lots)
    BY <1>5 DEF Books
  <2> QED  BY <1>1, <1>3, <1>5, <1>6, <2>1, LotAppended
<1>8. After(bought \o Shares(fill), sold) = After(bought, sold) \o Shares(fill)
  <2> DEFINE A == After(bought, sold)
             S == Shares(fill)
             all == bought \o S
             rest == A \o S
  <2>1. S \in Seq(Int) /\ Len(S) \in Nat
    BY <1>3, SharesTyped
  <2>2. /\ A \in Seq(Int) /\ Len(A) = Len(bought) - sold
        /\ \A k \in 1 .. Len(bought) - sold : A[k] = bought[sold + k]
    <3>1. sold \in 0 .. Len(bought)
      BY <1>1, <1>3
    <3> HIDE DEF A, sold
    <3> QED  BY <1>3, <3>1, AfterIs DEF A
  <2> HIDE DEF A, S, sold
  <2>3. /\ all \in Seq(Int) /\ Len(all) = Len(bought) + Len(S)
        /\ \A i \in 1 .. Len(bought) + Len(S) :
              all[i] = IF i <= Len(bought) THEN bought[i] ELSE S[i - Len(bought)]
    BY <1>3, <2>1, ConcatProperties
  <2>4. /\ rest \in Seq(Int) /\ Len(rest) = Len(A) + Len(S)
        /\ \A i \in 1 .. Len(A) + Len(S) :
              rest[i] = IF i <= Len(A) THEN A[i] ELSE S[i - Len(A)]
    BY <2>1, <2>2, ConcatProperties
  <2> HIDE DEF all, rest
  <2>5. Len(rest) = Len(all) - sold /\ sold \in 0 .. Len(all)
    BY <1>1, <1>3, <2>1, <2>2, <2>3, <2>4
  <2>6. \A k \in 1 .. Len(all) - sold : rest[k] = all[sold + k]
    <3> TAKE k \in 1 .. Len(all) - sold
    <3>0. /\ k \in 1 .. Len(A) + Len(S) /\ sold + k \in 1 .. Len(bought) + Len(S)
      <4> DEFINE a == Len(A)
                 b == Len(bought)
                 c == Len(S)
      <4>1. /\ a \in Nat /\ b \in Nat /\ c \in Nat /\ sold \in Nat
            /\ a = b - sold /\ k \in 1 .. (b + c) - sold
        BY <1>1, <1>3, <2>1, <2>2, <2>3
      <4> HIDE DEF a, b, c
      <4>2. k \in 1 .. a + c /\ sold + k \in 1 .. b + c
        BY <4>1
      <4> QED  BY <4>2 DEF a, b, c
    <3>1. CASE k <= Len(A)
      <4>1. k \in 1 .. Len(bought) - sold /\ sold + k <= Len(bought)
        BY <1>1, <1>3, <2>2, <3>1
      <4> QED  BY <2>2, <2>3, <2>4, <3>0, <3>1, <4>1
    <3>2. CASE ~(k <= Len(A))
      <4>1. ~(sold + k <= Len(bought)) /\ (sold + k) - Len(bought) = k - Len(A)
        BY <1>1, <1>3, <2>2, <3>0, <3>2
      <4> QED  BY <2>3, <2>4, <3>0, <3>2, <4>1
    <3> QED  BY <3>1, <3>2
  <2>7. rest = After(all, sold)
    BY <2>3, <2>4, <2>5, <2>6, AfterIs
  <2> QED  BY <2>7 DEF all, rest, A, S
<1>9. sold <= Len(bought \o Shares(fill))
  <2>1. Shares(fill) \in Seq(Int) /\ Len(Shares(fill)) \in Nat
    BY <1>3, SharesTyped
  <2>2. Len(bought \o Shares(fill)) = Len(bought) + Len(Shares(fill))
    BY <1>3, <2>1, ConcatProperties
  <2> HIDE DEF sold
  <2> QED  BY <1>1, <1>3, <2>1, <2>2
<1>10. SalesTo(more, N + 1) = SalesTo(list, N)
  BY <1>1, TradesBefore DEF more
<1>11. ASSUME NEW i \in SalesTo(list, N)
       PROVE  /\ SoldBefore(more, i) + more[i].quantity <= sold
              /\ FifoBook(more).realized[Cardinality(SalesTo(more, i))] = ProfitOf(more, i)
  <2>1. i \in 1 .. N /\ i \in 0 .. N
    BY DEF SalesTo
  <2>2. /\ SoldBefore(more, i) = SoldBefore(list, i) /\ more[i] = list[i]
        /\ SalesTo(more, i) = SalesTo(list, i)
    BY <1>1, <1>2, <2>1, TradesBefore DEF more
  <2>3. ProfitOf(more, i) = ProfitOf(list, i)
    BY ProfitStays DEF more
  <2> HIDE DEF N, sold
  <2> QED  BY <1>1, <1>5, <2>2, <2>3
<1> HIDE DEF sold, N
<1>12. Len(SharesOf("sell", more)) = sold
  BY <1>4 DEF sold
<1> QED  BY <1>1, <1>2, <1>4, <1>5, <1>7, <1>8, <1>9, <1>10, <1>11, <1>12
         DEF MatchedByShares, more

LEMMA SellMatched ==
    ASSUME NEW list, MatchedByShares(list), NEW fill \in Trades, fill.side = "sell",
           fill.quantity <= Len(SharesOf("buy", list)) - Len(SharesOf("sell", list))
    PROVE  MatchedByShares(Append(list, fill))
<1> DEFINE more == Append(list, fill)
           N == Len(list)
           bought == SharesOf("buy", list)
           sold == Len(SharesOf("sell", list))
           book == FifoBook(list)
           open == AllShares(book.lots)
           sale == SaleOver(fill, book.lots)
           q == fill.quantity
<1>1. /\ list \in Seq(Trades) /\ N \in Nat /\ sold <= Len(bought)
      /\ open = After(bought, sold)
      /\ Len(book.realized) = Cardinality(SalesTo(list, N))
      /\ \A i \in SalesTo(list, N) :
            /\ SoldBefore(list, i) + list[i].quantity <= sold
            /\ book.realized[Cardinality(SalesTo(list, i))] = ProfitOf(list, i)
  BY DEF MatchedByShares
<1>2. /\ more \in Seq(Trades) /\ Len(more) = N + 1 /\ more[N + 1] = fill
      /\ \A i \in 1 .. N : more[i] = list[i]
  BY <1>1
<1>3. /\ fill \in Marked /\ list \in Seq(Marked) /\ SharesOf("sell", list) \in Seq(Int)
      /\ q \in Nat /\ fill.price \in Int /\ q <= Len(bought) - sold
      /\ bought \in Seq(Int) /\ Len(bought) \in Nat /\ sold \in Nat
  BY <1>1, TradesAreMarked DEF Trades, Marked
<1>4. /\ SharesOf("buy", more) = bought
      /\ Len(SharesOf("sell", more)) = sold + q
  <2>1. /\ SharesOf("buy", more) = bought
        /\ SharesOf("sell", more) = SharesOf("sell", list) \o Shares(fill)
    BY <1>3, SharesAppended DEF Added
  <2>2. Shares(fill) \in Seq(Int) /\ Len(Shares(fill)) = q
    BY <1>3, SharesTyped
  <2>3. SharesOf("sell", list) \in Seq(Int) /\ Len(SharesOf("sell", list)) = sold
    BY <1>3
  <2> HIDE DEF more, bought, sold, q
  <2>4. Len(SharesOf("sell", list) \o Shares(fill)) = sold + q
    BY <2>2, <2>3, ConcatProperties
  <2> QED  BY <2>1, <2>4
<1>5. /\ book \in Books /\ FifoBook(more).lots = sale.open
      /\ FifoBook(more).realized = Append(book.realized, sale.pnl)
  <2>1. book \in Books /\ FifoBook(more) = MatchFill(book, fill)
    BY <1>1, BookAppended
  <2>2. MatchFill(book, fill)
           = [lots |-> sale.open, realized |-> Append(book.realized, sale.pnl)]
    BY DEF MatchFill
  <2> HIDE DEF book, sale, more
  <2> QED  BY <2>1, <2>2
<1>6. book.lots \in Seq(Lots) /\ book.realized \in Seq(Int)
  BY <1>5 DEF Books
<1>7. /\ open \in Seq(Int) /\ Len(open) = Len(bought) - sold
      /\ \A k \in 1 .. Len(bought) - sold : open[k] = bought[sold + k]
  <2>1. sold \in 0 .. Len(bought)
    BY <1>1, <1>3
  <2> HIDE DEF open, sold, bought
  <2> QED  BY <1>1, <1>3, <2>1, AfterIs
<1>8. /\ sale \in Sales
      /\ AllShares(sale.open) = After(open, q)
      /\ sale.pnl = Total(Gains(fill.price, open, q))
  <2>1. q <= Len(open)
    BY <1>3, <1>7
  <2> HIDE DEF book
  <2> QED  BY <1>3, <1>6, <2>1, SaleTakesOldest
<1> HIDE DEF open, book, sale, more
<1>9. After(open, q) = After(bought, sold + q)
  <2> DEFINE rest == After(open, q)
             L == Len(bought)
  <2>1. q \in 0 .. Len(open) /\ sold + q \in 0 .. L
    BY <1>1, <1>3, <1>7
  <2>2. /\ rest \in Seq(Int) /\ Len(rest) = Len(open) - q
        /\ \A k \in 1 .. Len(open) - q : rest[k] = open[q + k]
    BY <1>7, <2>1, AfterIs
  <2> HIDE DEF rest, bought, sold, q
  <2>3. Len(rest) = L - (sold + q)
    BY <1>3, <1>7, <2>2
  <2>4. \A k \in 1 .. L - (sold + q) : rest[k] = bought[(sold + q) + k]
    <3> TAKE k \in 1 .. L - (sold + q)
    <3>1. /\ k \in 1 .. Len(open) - q /\ q + k \in 1 .. L - sold
          /\ sold + (q + k) = (sold + q) + k
      BY <1>3, <1>7
    <3>2. rest[k] = open[q + k] /\ open[q + k] = bought[sold + (q + k)]
      BY <1>7, <2>2, <3>1
    <3> QED  BY <3>1, <3>2
  <2> DEFINE n == sold + q
  <2>5. n \in 0 .. L /\ Len(rest) = L - n
        /\ \A k \in 1 .. L - n : rest[k] = bought[n + k]
    BY <2>1, <2>3, <2>4
  <2> HIDE DEF n
  <2>6. rest = After(bought, n)
    BY <1>3, <2>2, <2>5, AfterIs
  <2> QED  BY <2>6 DEF rest, n
<1>10. /\ SalesTo(more, N + 1) = SalesTo(list, N) \cup {N + 1}
       /\ SoldBefore(more, N + 1) = sold
  BY <1>1, TradesBefore DEF more
<1>11. /\ Cardinality(SalesTo(list, N)) \in Nat
       /\ Cardinality(SalesTo(more, N + 1)) = Cardinality(SalesTo(list, N)) + 1
  <2>1. /\ IsFiniteSet(SalesTo(list, N)) /\ Cardinality(SalesTo(list, N)) \in Nat
        /\ N + 1 \notin SalesTo(list, N)
    <3>1. N \in 0 .. N
      BY <1>1
    <3> QED  BY <1>1, <3>1, SalesToFinite
  <2> QED  BY <1>10, <2>1, FS_AddElement
<1>12. ProfitOf(more, N + 1) = sale.pnl
  <2> DEFINE f == [k \in 1 .. q |-> fill.price - bought[sold + k]]
  <2>1. ProfitOf(more, N + 1) = Total(f)
    BY <1>2, <1>4, <1>10 DEF ProfitOf
  <2>2. f = Gains(fill.price, open, q)
    <3>1. \A k \in 1 .. q : k \in 1 .. Len(bought) - sold
      BY <1>3
    <3> HIDE DEF bought, sold, q
    <3>2. \A k \in 1 .. q : open[k] = bought[sold + k]
      BY <1>7, <3>1
    <3> QED  BY <3>2 DEF Gains
  <2> QED  BY <1>8, <2>1, <2>2
<1>13. /\ Len(FifoBook(more).realized) = Cardinality(SalesTo(list, N)) + 1
       /\ FifoBook(more).realized[Cardinality(SalesTo(list, N)) + 1] = sale.pnl
       /\ \A k \in 1 .. Cardinality(SalesTo(list, N)) :
             FifoBook(more).realized[k] = book.realized[k]
  <2>1. sale.pnl \in Int
    BY <1>8 DEF Sales
  <2> QED  BY <1>1, <1>5, <1>6, <2>1, AppendProperties
<1>14. ASSUME NEW i \in SalesTo(list, N)
       PROVE  /\ SoldBefore(more, i) + more[i].quantity <= sold + q
              /\ FifoBook(more).realized[Cardinality(SalesTo(more, i))] = ProfitOf(more, i)
  <2>1. i \in 1 .. N /\ i \in 0 .. N
    BY DEF SalesTo
  <2>2. /\ SoldBefore(more, i) = SoldBefore(list, i) /\ more[i] = list[i]
        /\ SalesTo(more, i) = SalesTo(list, i) /\ SoldBefore(list, i) \in Nat
    BY <1>1, <1>2, <2>1, TradesBefore DEF more
  <2>3. ProfitOf(more, i) = ProfitOf(list, i)
    BY ProfitStays DEF more
  <2>4. list[i].quantity \in Nat
    <3>1. list[i] \in Trades
      BY <1>1, <2>1
    <3> QED  BY <3>1 DEF Trades
  <2>5. Cardinality(SalesTo(list, i)) \in 1 .. Cardinality(SalesTo(list, N))
    <3>1. /\ Cardinality(SalesTo(list, i)) <= Cardinality(SalesTo(list, N))
          /\ Cardinality(SalesTo(list, i)) >= 1
      BY <1>1, <2>1, SalesToFinite
    <3>2. Cardinality(SalesTo(list, i)) \in Nat
      <4>1. i \in Nat /\ i \in 0 .. i
        BY <2>1
      <4> QED  BY <4>1, SalesToFinite
    <3> QED  BY <1>11, <3>1, <3>2
  <2>6. SoldBefore(list, i) + list[i].quantity <= sold
    BY <1>1
  <2> HIDE DEF N, sold, q
  <2>7. SoldBefore(more, i) + more[i].quantity <= sold + q
    BY <1>3, <2>2, <2>4, <2>6
  <2> QED  BY <1>1, <1>13, <2>2, <2>3, <2>5, <2>7
<1>15. /\ SoldBefore(more, N + 1) + more[N + 1].quantity <= sold + q
       /\ FifoBook(more).realized[Cardinality(SalesTo(more, N + 1))]
             = ProfitOf(more, N + 1)
  BY <1>2, <1>3, <1>10, <1>11, <1>12, <1>13
<1>16. sold + q <= Len(bought)
  BY <1>3
<1> HIDE DEF N, sold, q, bought
<1>17. AllShares(FifoBook(more).lots) = After(bought, sold + q)
  BY <1>5, <1>8, <1>9
<1> QED  BY <1>2, <1>4, <1>10, <1>11, <1>13, <1>14, <1>15, <1>16, <1>17
         DEF MatchedByShares, more

LEMMA NothingMatched == MatchedByShares(<<>>)
<1>1. /\ <<>> \in Seq(Trades) /\ <<>> \in Seq(Int) /\ <<>> \in Seq(Lots)
      /\ Len(<<>>) = 0
  OBVIOUS
<1>2. \A side : SharesOf(side, <<>>) = <<>>
  <2>1. [side |-> "lot", quantity |-> 0, price |-> 0] \in Marked
    BY DEF Marked
  <2>2. <<>> \in Seq(Marked)
    OBVIOUS
  <2> QED  BY <2>1, <2>2, SharesAppended
<1>3. FifoBook(<<>>).lots = <<>> /\ FifoBook(<<>>).realized = <<>>
  BY NoFillMatched DEF NoBook
<1>4. AllShares(<<>>) = <<>>
  <2>1. [quantity |-> 0, price |-> 0] \in Lots
    BY DEF Lots
  <2> QED  BY <1>1, <2>1, LotAppended
<1>5. After(<<>>, 0) = <<>>
  BY <1>1, SubSeqEmpty DEF After
<1>6. SalesTo(<<>>, 0) = {} /\ Cardinality({}) = 0
  BY FS_EmptySet DEF SalesTo
<1> DEFINE none == <<>>
<1>7. /\ none \in Seq(Trades) /\ Len(none) = 0
      /\ SharesOf("buy", none) = none /\ SharesOf("sell", none) = none
      /\ AllShares(FifoBook(none).lots) = After(none, 0)
      /\ Len(FifoBook(none).realized) = 0
      /\ SalesTo(none, 0) = {}
  BY <1>1, <1>2, <1>3, <1>4, <1>5, <1>6
<1> HIDE DEF none
<1>8. MatchedByShares(none)
  <2>1. After(none, 0) = After(none, Len(none)) /\ 0 <= Len(none)
    BY <1>7
  <2>2. /\ SalesTo(none, Len(none)) = {}
        /\ Len(FifoBook(none).realized) = Cardinality(SalesTo(none, Len(none)))
    BY <1>6, <1>7
  <2> QED  BY <1>7, <2>1, <2>2, SMTT(30) DEF MatchedByShares
<1> QED  BY <1>8 DEF none

LEMMA FillsAreMatched == Spec => []MatchedByShares(fills)
<1>1. Init => MatchedByShares(fills)
  BY NothingMatched DEF Init
<1>2. MatchedByShares(fills) /\ [Next]_vars => MatchedByShares(fills)'
  <2> SUFFICES ASSUME MatchedByShares(fills), [Next]_vars
               PROVE  MatchedByShares(fills')
    BY DEF MatchedByShares, SalesTo, ProfitOf, SoldBefore
  <2>1. CASE UNCHANGED fills
    BY <2>1
  <2>2. CASE Buy
    <3>1. PICK q \in Quantities, p \in Prices :
              fills' = Append(fills, [side |-> "buy", quantity |-> q, price |-> p])
      BY <2>2 DEF Buy, Fill
    <3>2. [side |-> "buy", quantity |-> q, price |-> p] \in Trades
      BY FillsAssumption DEF Trades
    <3> QED  BY <3>1, <3>2, BuyMatched
  <2>3. CASE Sell
    <3>1. PICK q \in 1 .. Open(fills), p \in Prices :
              fills' = Append(fills, [side |-> "sell", quantity |-> q, price |-> p])
      BY <2>3 DEF Sell, Fill
    <3>2. /\ q \in Nat
          /\ q <= Len(SharesOf("buy", fills)) - Len(SharesOf("sell", fills))
      <4>1. fills \in Seq(Trades)
        BY DEF MatchedByShares
      <4>2. /\ Len(SharesOf("buy", fills)) \in Nat
            /\ Len(SharesOf("sell", fills)) \in Nat
        BY <4>1, TradesAreMarked
      <4> QED  BY <4>2 DEF Open
    <3>3. [side |-> "sell", quantity |-> q, price |-> p] \in Trades
      BY <3>2, FillsAssumption DEF Trades
    <3> QED  BY <3>1, <3>2, <3>3, SellMatched
  <2> QED  BY <2>1, <2>2, <2>3 DEF Next, vars, AppendRow, AskForStrategy,
                                   AskForOptimization, Ask, ReadTable
<1> QED  BY <1>1, <1>2, PTL DEF Spec

LEMMA MatchedShareByShare == MatchedByShares(fills) => MatchesShareByShare
<1> SUFFICES ASSUME MatchedByShares(fills) PROVE MatchesShareByShare
  OBVIOUS
<1> DEFINE bought == SharesOf("buy", fills)
           sold == Len(SharesOf("sell", fills))
<1>1. /\ fills \in Seq(Trades)
      /\ AllShares(FifoBook(fills).lots) = After(bought, sold)
      /\ Len(FifoBook(fills).realized) = Cardinality(SalesTo(fills, Len(fills)))
      /\ \A i \in SalesTo(fills, Len(fills)) :
            FifoBook(fills).realized[Cardinality(SalesTo(fills, i))] = ProfitOf(fills, i)
  BY DEF MatchedByShares
<1>2. (Len(bought) - Open(fills)) + 1 = sold + 1
  <2>1. Len(bought) \in Nat /\ sold \in Nat
    BY <1>1, TradesAreMarked
  <2>2. Open(fills) = Len(bought) - sold
    BY DEF Open
  <2> HIDE DEF bought, sold
  <2> QED  BY <2>1, <2>2
<1>3. SubSeq(bought, (Len(bought) - Open(fills)) + 1, Len(bought))
         = AllShares(FifoBook(fills).lots)
  BY <1>1, <1>2 DEF After
<1> HIDE DEF bought, sold
<1> QED  BY <1>1, <1>3 DEF MatchesShareByShare, SalesTo, ProfitOf, SoldBefore, AllShares,
                           FifoRealizedPnl, bought

\* MatchesShareByShare: compute_fifo_realized_pnl against shares matched one by
\* one, for any number of fills, whatever their prices and quantities.
THEOREM SharesMatched == Spec => []MatchesShareByShare
BY MatchedShareByShare, FillsAreMatched, PTL

================================================================================
