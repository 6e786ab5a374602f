-------------------------- MODULE ArithmeticProofs --------------------------
(***************************************************************************)
(* The arithmetic the other proofs rest on: minima, maxima, ranks and sums *)
(* of numbers, what the window arithmetic guarantees for every window      *)
(* size, threshold and amount, powers of two, and what roundings add up    *)
(* to.  The proofs about the components cite these lemmas and expand no    *)
(* fold themselves.                                                        *)
(***************************************************************************)
EXTENDS Window, SortedSets, SequencesExt, FiniteSetTheorems, WellFoundedInduction, TLAPS

(* Minima and maxima *)

\* A set of naturals has its minimum.
LEMMA MinIsLeast ==
  ASSUME NEW S, S \subseteq Nat, S # {}
  PROVE  Min(S) \in S /\ \A y \in S : Min(S) <= y
<1>1. PICK x \in S : \A y \in S : ~ (<<y, x>> \in OpToRel(<, Nat))
  BY NatLessThanWellFounded, WFMin, Zenon
<1>2. ASSUME NEW y \in S, y < x
      PROVE  FALSE
  <2>1. <<y, x>> \in Nat \X Nat
    OBVIOUS
  <2>2. <<y, x>>[1] < <<y, x>>[2]
    BY <1>2
  <2>3. <<y, x>> \in OpToRel(<, Nat)
    BY <2>1, <2>2 DEF OpToRel
  <2> QED BY <1>1, <2>3
<1>3. \A y \in S : x <= y
  BY <1>2
<1> QED BY <1>3 DEF Min

\* A bounded set of naturals has its maximum.
LEMMA MaxIsGreatest ==
  ASSUME NEW S, S \subseteq Nat, S # {}, NEW b \in Nat, \A y \in S : y <= b
  PROVE  Max(S) \in S /\ \A y \in S : y <= Max(S)
<1> DEFINE Above == {d \in 0 .. b : b - d \in S}
<1>1. Above \subseteq Nat /\ Above # {}
  <2>1. PICK y \in S : TRUE
    OBVIOUS
  <2>2. y \in Nat /\ y <= b
    BY <2>1
  <2>3. b - y \in 0 .. b /\ b - (b - y) = y
    BY <2>2
  <2>4. b - y \in Above
    BY <2>1, <2>3
  <2>5. Above \subseteq Nat
    OBVIOUS
  <2> QED BY <2>4, <2>5
<1>2. Min(Above) \in Above /\ \A d \in Above : Min(Above) <= d
  <2> HIDE DEF Above
  <2> QED BY <1>1, MinIsLeast
<1>3. b - Min(Above) \in S
  BY <1>2
<1>4. ASSUME NEW y \in S PROVE y <= b - Min(Above)
  <2>1. y \in Nat /\ y <= b /\ b - y \in 0 .. b /\ b - (b - y) = y
    OBVIOUS
  <2>2. b - y \in Above
    BY <2>1
  <2>3. Min(Above) \in Nat /\ Min(Above) <= b - y
    BY <1>1, <1>2, <2>2
  <2> QED BY <2>1, <2>3
<1> QED BY <1>3, <1>4 DEF Max

-----------------------------------------------------------------------------
(* Sums *)

\* A sum of naturals, counted: every x of S is paired with 1, 2, ..., f[x].
Units(f, S) == UNION {{x} \X (1 .. f[x]) : x \in S}
Total(f, S) == Cardinality(Units(f, S))

LEMMA UpToIsFinite ==
  ASSUME NEW n \in Nat
  PROVE  IsFiniteSet(1 .. n) /\ Cardinality(1 .. n) = n
<1>1. n \in Int /\ 1 \in Int
  OBVIOUS
<1> QED BY <1>1, FS_Interval

\* There are finitely many units.
LEMMA UnitsFinite ==
  ASSUME NEW S, IsFiniteSet(S), NEW f, \A x \in S : f[x] \in Nat
  PROVE  IsFiniteSet(Units(f, S))
<1> DEFINE part == [x \in S |-> {x} \X (1 .. f[x])]
           T == {{x} \X (1 .. f[x]) : x \in S}
<1>1. part \in Surjection(S, T)
  BY DEF Surjection
<1>2. IsFiniteSet(T)
  <2> HIDE DEF part, T
  <2> QED BY <1>1, FS_Surjection
<1>3. \A t \in T : IsFiniteSet(t)
  <2> SUFFICES ASSUME NEW x \in S PROVE IsFiniteSet({x} \X (1 .. f[x]))
    OBVIOUS
  <2>1. IsFiniteSet({x})
    BY FS_Singleton
  <2>2. IsFiniteSet(1 .. f[x])
    BY UpToIsFinite
  <2> QED BY <2>1, <2>2, FS_Product
<1> QED BY <1>2, <1>3, FS_UNION DEF Units

\* Nothing adds up to nothing.
LEMMA TotalEmpty == ASSUME NEW f PROVE Total(f, {}) = 0
<1>1. Units(f, {}) = {}
  BY DEF Units
<1> QED BY <1>1, FS_EmptySet DEF Total

\* A sum is one term and the sum of the others.
LEMMA TotalStep ==
  ASSUME NEW S, IsFiniteSet(S), NEW f, \A y \in S : f[y] \in Nat, NEW x \in S
  PROVE  /\ Total(f, S) \in Nat /\ Total(f, S \ {x}) \in Nat
         /\ Total(f, S) = f[x] + Total(f, S \ {x})
<1> DEFINE A == Units(f, S \ {x})
           B == {x} \X (1 .. f[x])
<1>1. IsFiniteSet(S \ {x})
  BY FS_RemoveElement
<1>2. IsFiniteSet(A) /\ IsFiniteSet(Units(f, S))
  BY <1>1, UnitsFinite
<1>3. IsFiniteSet(B) /\ Cardinality(B) = f[x]
  <2>1. IsFiniteSet({x}) /\ Cardinality({x}) = 1
    BY FS_Singleton
  <2>2. IsFiniteSet(1 .. f[x]) /\ Cardinality(1 .. f[x]) = f[x]
    BY FS_Interval
  <2> QED BY <2>1, <2>2, FS_Product
<1>4. Units(f, S) = A \cup B
  BY DEF Units
<1>5. A \cap B = {}
  BY DEF Units
<1>6. Cardinality(A) \in Nat /\ Cardinality(Units(f, S)) \in Nat
  BY <1>2, FS_CardinalityType
<1>7. Cardinality(A \cup B) = Cardinality(A) + Cardinality(B) - Cardinality({})
  <2> HIDE DEF A, B
  <2> QED BY <1>2, <1>3, <1>5, FS_Union
<1> HIDE DEF A, B
<1>8. Cardinality({}) = 0
  BY FS_EmptySet
<1>9. Cardinality(Units(f, S)) = f[x] + Cardinality(A)
  BY <1>3, <1>4, <1>6, <1>7, <1>8
<1> QED BY <1>6, <1>9 DEF Total, A

\* Larger terms, or more of them, make a larger sum.
LEMMA TotalGrows ==
  ASSUME NEW S, IsFiniteSet(S), NEW T, T \subseteq S, NEW f, NEW g,
         \A x \in S : g[x] \in Nat, \A x \in T : f[x] \in Nat /\ f[x] <= g[x]
  PROVE  Total(f, T) \in Nat /\ Total(g, S) \in Nat /\ Total(f, T) <= Total(g, S)
<1>1. Units(f, T) \subseteq Units(g, S)
  <2> SUFFICES ASSUME NEW x \in T, NEW u \in {x} \X (1 .. f[x])
               PROVE  u \in {x} \X (1 .. g[x])
    BY DEF Units
  <2>1. 1 .. f[x] \subseteq 1 .. g[x]
    OBVIOUS
  <2> QED BY <2>1
<1>2. IsFiniteSet(Units(g, S))
  BY UnitsFinite
<1> QED BY <1>1, <1>2, FS_Subset, FS_CardinalityType DEF Total

\* The sum tells nothing but the terms.
LEMMA TotalSame ==
  ASSUME NEW S, NEW f, NEW g, \A x \in S : f[x] = g[x]
  PROVE  Total(f, S) = Total(g, S)
  BY DEF Total, Units

\* One term changed, or added.
LEMMA TotalChange ==
  ASSUME NEW S, IsFiniteSet(S), NEW f, NEW g, NEW x \in S,
         \A y \in S : f[y] \in Nat /\ g[y] \in Nat,
         \A y \in S \ {x} : f[y] = g[y]
  PROVE  /\ Total(f, S) \in Nat /\ Total(g, S) \in Nat
         /\ Total(g, S) + f[x] = Total(f, S) + g[x]
<1>1. Total(f, S) = f[x] + Total(f, S \ {x}) /\ Total(f, S \ {x}) \in Nat
  BY TotalStep
<1>2. Total(g, S) = g[x] + Total(g, S \ {x}) /\ Total(g, S \ {x}) \in Nat
  BY TotalStep
<1>3. Total(f, S \ {x}) = Total(g, S \ {x})
  BY TotalSame
<1> QED BY <1>1, <1>2, <1>3

\* The sum of a set's subsets is a solution of the recursion that the folds are defined by, ...
Pick(s) == CHOOSE x \in s : TRUE
SumsUp(f, S, it) == it = [s \in SUBSET S |-> IF s = {} THEN 0 ELSE f[Pick(s)] + it[s \ {Pick(s)}]]

LEMMA TotalSumsUp ==
  ASSUME NEW f, NEW S, IsFiniteSet(S), \A y \in S : f[y] \in Nat
  PROVE  SumsUp(f, S, [s \in SUBSET S |-> Total(f, s)])
<1> DEFINE total == [s \in SUBSET S |-> Total(f, s)]
<1> SUFFICES ASSUME NEW s \in SUBSET S
             PROVE  Total(f, s) = IF s = {} THEN 0 ELSE f[Pick(s)] + total[s \ {Pick(s)}]
  BY DEF SumsUp
<1>1. CASE s = {}
  BY <1>1, TotalEmpty
<1>2. CASE s # {}
  <2>1. Pick(s) \in s /\ s \ {Pick(s)} \in SUBSET S
    BY <1>2 DEF Pick
  <2>2. IsFiniteSet(s)
    BY FS_Subset
  <2>3. Total(f, s) = f[Pick(s)] + Total(f, s \ {Pick(s)})
    BY <2>1, <2>2, TotalStep
  <2> QED BY <1>2, <2>1, <2>3
<1> QED BY <1>1, <1>2

\* ... and the only one: of the subsets of S that could refute it, one has no smaller one.
LEMMA SumsUpToTotal ==
  ASSUME NEW f, NEW S, IsFiniteSet(S), \A y \in S : f[y] \in Nat, NEW it, SumsUp(f, S, it)
  PROVE  it[S] = Total(f, S)
<1> SUFFICES ASSUME it[S] # Total(f, S) PROVE FALSE
  OBVIOUS
<1> DEFINE Bad == {s \in SUBSET S : it[s] # Total(f, s)}
<1>1. FiniteSubsetsOf(S) = SUBSET S
  BY FS_FiniteSubsetsOfFinite
<1>2. PICK s \in Bad : \A t \in Bad : ~ (<<t, s>> \in StrictSubsetOrdering(S))
  <2>1. Bad \subseteq FiniteSubsetsOf(S) /\ Bad # {}
    BY <1>1
  <2> HIDE DEF Bad
  <2> QED BY <2>1, FS_StrictSubsetOrderingWellFounded, WFMin
<1>3. s # {}
  <2>1. it[{}] = 0
    BY DEF SumsUp
  <2> QED BY <2>1, TotalEmpty
<1>4. it[s] = f[Pick(s)] + it[s \ {Pick(s)}]
  BY <1>3 DEF SumsUp
<1>5. Pick(s) \in s
  BY <1>3 DEF Pick
<1>6. it[s \ {Pick(s)}] = Total(f, s \ {Pick(s)})
  <2>1. <<s \ {Pick(s)}, s>> \in StrictSubsetOrdering(S)
    BY <1>5 DEF StrictSubsetOrdering
  <2> QED BY <1>2, <2>1
<1>7. Total(f, s) = f[Pick(s)] + Total(f, s \ {Pick(s)})
  BY <1>5, FS_Subset, TotalStep
<1> QED BY <1>4, <1>6, <1>7

\* What SumFunctionOnSet folds is the number of units.
LEMMA SumIsTotal ==
  ASSUME NEW f, NEW S, IsFiniteSet(S), \A y \in S : f[y] \in Nat
  PROVE  SumFunctionOnSet(f, S) = Total(f, S)
<1> DEFINE iter == CHOOSE it : SumsUp(f, S, it)
<1>1. SumsUp(f, S, iter)
  BY TotalSumsUp
<1>2. SumFunctionOnSet(f, S) = iter[S]
  BY DEF SumFunctionOnSet, FoldFunctionOnSet, MapThenFoldSet, SumsUp, Pick
<1> HIDE DEF iter
<1> QED BY <1>1, <1>2, SumsUpToTotal

-----------------------------------------------------------------------------
(* The window *)

LEMMA DivisionFacts ==
  ASSUME NEW n \in Nat, NEW w \in Nat \ {0}
  PROVE  /\ n \div w \in Nat
         /\ w * (n \div w) <= n
         /\ n < w * (n \div w) + w
  OBVIOUS

\* What is left of an aggregate never exceeds it, and w times what decayed in e
\* seconds is at most w - 1 (lost to the division) and a (decayed) a second.
LEMMA DecayStep ==
  ASSUME NEW w \in Nat \ {0}, NEW a \in Nat, NEW e \in Nat, NEW r \in Nat,
         r = IF e < w THEN w - e ELSE 0
  PROVE  /\ (a * r) \div w \in Nat
         /\ (a * r) \div w <= a
         /\ w * (a - ((a * r) \div w)) <= (a + w - 1) * e
<1> DEFINE q == (a * r) \div w
<1>1. /\ q \in Nat
      /\ w * q <= a * r
      /\ a * r < w * q + w
  BY DivisionFacts, a * r \in Nat
<1> HIDE DEF q
<1>2. q <= a
  <2>1. a * r <= a * w
    OBVIOUS
  <2>2. w * q <= w * a
    BY <1>1, <2>1
  <2> QED BY <1>1, <2>2
<1>3. CASE e = 0
  <2>1. w * a < w * (q + 1)
    BY <1>1, <1>3
  <2> QED BY <1>1, <1>2, <1>3, <2>1 DEF q
<1>4. CASE e > 0
  <2>1. a * (w - r) <= a * e
    OBVIOUS
  <2>2. w - 1 <= (w - 1) * e
    BY <1>4
  <2>3. w * (a - q) <= a * (w - r) + (w - 1)
    BY <1>1
  <2> QED BY <1>1, <1>2, <2>1, <2>2, <2>3 DEF q
<1> QED BY <1>3, <1>4

LEMMA RemainingType ==
  ASSUME NEW config \in ConfigType, NEW window \in WindowType, NEW now \in Nat,
         DecayDefined(config, window, now)
  PROVE  Remaining(config, window, now) \in Nat
  BY DEF Remaining, DecayDefined, ConfigType, WindowType

\* The lemma the breakers cite: what is left of the aggregate, and what the time
\* since the last enforcement took from it.
LEMMA Decayed ==
  ASSUME NEW config \in ConfigType, NEW window \in WindowType, NEW now \in Nat,
         DecayDefined(config, window, now)
  PROVE  LET w == config.window_size_seconds
             a == window.last_aggregated_value
             e == now - window.last_unix_timestamp
             q == TimeDecayPreviousValue(config, window, now)
         IN /\ w \in Nat \ {0}
            /\ a \in Nat
            /\ e \in Nat
            /\ q \in Nat
            /\ q <= a
            /\ w * (a - q) <= (a + w - 1) * e
<1> DEFINE w == config.window_size_seconds
           a == window.last_aggregated_value
           e == now - window.last_unix_timestamp
           r == Remaining(config, window, now)
<1>1. w \in Nat \ {0} /\ a \in Nat /\ e \in Nat /\ r \in Nat
  BY RemainingType, U64MaxAssumption DEF DecayDefined, ConfigType, WindowType, U64
<1>2. r = IF e < w THEN w - e ELSE 0
  BY DEF Remaining
<1>3. TimeDecayPreviousValue(config, window, now) = (a * r) \div w
  BY DEF TimeDecayPreviousValue
<1> HIDE DEF w, a, e, r
<1>4. /\ (a * r) \div w \in Nat
      /\ (a * r) \div w <= a
      /\ w * (a - ((a * r) \div w)) <= (a + w - 1) * e
  BY <1>1, <1>2, DecayStep
<1> QED BY <1>1, <1>3, <1>4 DEF w, a, e

LEMMA ThresholdBound ==
  ASSUME NEW config \in ConfigType, NEW value \in U64
  PROVE  GetThreshold(config, value) \in U64
<1> DEFINE p == value * config.threshold
<1>1. U64Max \in Nat \ {0} /\ config.threshold \in 0 .. U64Max /\ value \in 0 .. U64Max
  BY U64MaxAssumption DEF ConfigType, U64
<1>2. p \in Nat /\ p <= U64Max * U64Max
  BY <1>1
<1> HIDE DEF p
<1>3. p \div U64Max \in Nat /\ U64Max * (p \div U64Max) <= p
  BY <1>1, <1>2, DivisionFacts
<1>4. p \div U64Max <= U64Max
  BY <1>1, <1>2, <1>3
<1> QED BY <1>1, <1>3, <1>4 DEF GetThreshold, U64, p

\* enforce_window returns a well-formed window whose aggregate is within the
\* threshold, holds the new amount in full, and carries the current time.
LEMMA Enforcement ==
  ASSUME NEW config \in ConfigType, NEW window \in WindowType, NEW now \in Nat,
         NEW amount \in U64, NEW value \in U64,
         Enforceable(config, window, amount, value, now)
  PROVE  LET new == EnforcedWindow(config, window, amount, now)
         IN /\ new \in WindowType
            /\ new.last_unix_timestamp = now
            /\ new.last_aggregated_value =
                 amount + TimeDecayPreviousValue(config, window, now)
            /\ new.last_aggregated_value >= amount
            /\ new.last_aggregated_value <= GetThreshold(config, value)
<1>1. DecayDefined(config, window, now)
  BY DEF Enforceable
<1>2. TimeDecayPreviousValue(config, window, now) \in Nat
  BY <1>1, Decayed
<1> QED
  BY <1>2, U64MaxAssumption
  DEF Enforceable, EnforcedWindow, NewAggregate, WindowType, U64

LEMMA NothingSeenAccounts ==
  ASSUME NEW config, NEW window
  PROVE  NothingSeen \in ObservationType /\ SpanAccounting(config, window, NothingSeen)
  BY U64MaxAssumption DEF NothingSeen, ObservationType, SpanAccounting, U64

\* The accounting survives an enforcement, whatever the amount: what decayed since
\* the last one is within the budget of the time that passed.
LEMMA SpanStep ==
  ASSUME NEW config \in ConfigType, NEW window \in WindowType, NEW now \in Nat,
         NEW amount \in U64, NEW value \in U64, NEW obs \in ObservationType,
         Enforceable(config, window, amount, value, now),
         SpanAccounting(config, window, obs)
  PROVE  LET seen == Seeing(obs, amount, GetThreshold(config, value), now)
         IN /\ seen \in ObservationType
            /\ SpanAccounting(config, EnforcedWindow(config, window, amount, now), seen)
<1> DEFINE t == GetThreshold(config, value)
           seen == Seeing(obs, amount, t, now)
           new == EnforcedWindow(config, window, amount, now)
           w == config.window_size_seconds
           a == window.last_aggregated_value
           e == now - window.last_unix_timestamp
           q == TimeDecayPreviousValue(config, window, now)
<1>1. /\ w \in Nat \ {0} /\ a \in Nat /\ e \in Nat
      /\ q \in Nat /\ q <= a
      /\ w * (a - q) <= (a + w - 1) * e
  BY Decayed DEF Enforceable
<1>2. /\ new.last_unix_timestamp = now
      /\ new.last_aggregated_value = amount + q
      /\ amount + q <= t
  BY Enforcement
<1>3. amount \in Nat /\ t \in Nat /\ t \in U64 /\ window.last_unix_timestamp \in Nat
  BY ThresholdBound, U64MaxAssumption DEF U64, WindowType
<1>4. /\ obs.since \in Nat /\ obs.passed \in Nat /\ obs.cap \in Nat /\ obs.cap \in U64
  BY U64MaxAssumption DEF ObservationType, U64
<1>5. seen \in ObservationType
  BY <1>3, <1>4 DEF Seeing, ObservationType
<1>6. SpanAccounting(config, new, seen)
  <2>1. CASE obs.passed = 0 /\ amount = 0
    BY <2>1 DEF Seeing, SpanAccounting
  <2>2. CASE obs.passed = 0 /\ amount > 0
    <3>1. seen.since = now /\ seen.passed = amount /\ seen.cap \in Nat /\ t <= seen.cap
      BY <1>3, <1>4, <2>2 DEF Seeing
    <3>2. w * amount <= w * (amount + q)
      BY <1>1, <1>3
    <3> QED BY <1>1, <1>2, <1>3, <3>1, <3>2 DEF SpanAccounting
  <2>3. CASE obs.passed > 0
    <3> DEFINE c == seen.cap
               d == window.last_unix_timestamp - obs.since
    <3>1. /\ a <= obs.cap
          /\ obs.since <= window.last_unix_timestamp
          /\ w * obs.passed <= w * a + (obs.cap + w - 1) * d
      BY <2>3 DEF SpanAccounting
    <3>2. /\ seen.since = obs.since
          /\ seen.passed = obs.passed + amount
          /\ c \in Nat /\ obs.cap <= c
          /\ q + amount <= c
      BY <1>1, <1>2, <1>3, <1>4, <2>3, <3>1 DEF Seeing
    <3>3. d \in Nat /\ e + d = now - obs.since
      BY <1>3, <1>4, <3>1
    <3> HIDE DEF c, d, e, q, a, w, t, seen, new
    <3>4. (a + w - 1) * e <= (c + w - 1) * e
      BY <1>1, <1>4, <3>1, <3>2
    <3>5. (obs.cap + w - 1) * d <= (c + w - 1) * d
      BY <1>1, <1>4, <3>2, <3>3
    <3>6. w * (obs.passed + amount) <= w * (q + amount) + (c + w - 1) * (e + d)
      <4>1. w * obs.passed + w * amount
              <= w * a + w * amount + (c + w - 1) * d
        BY <1>1, <1>3, <1>4, <3>1, <3>2, <3>3, <3>5
      <4>2. w * a <= w * q + (c + w - 1) * e
        BY <1>1, <1>4, <3>2, <3>4
      <4> QED BY <1>1, <1>3, <1>4, <3>2, <3>3, <4>1, <4>2
    <3> QED BY <1>1, <1>2, <1>3, <1>4, <3>1, <3>2, <3>3, <3>6
            DEF SpanAccounting, c, d, e, w
  <2> QED BY <1>3, <1>4, <2>1, <2>2, <2>3
<1> QED BY <1>5, <1>6 DEF t, seen, new

\* The accounting is the budget, as long as the aggregate is within the cap.
LEMMA AccountingIsBudget ==
  ASSUME NEW config \in ConfigType, NEW window \in WindowType,
         NEW obs \in ObservationType, obs.passed > 0,
         SpanAccounting(config, window, obs)
  PROVE  LET w == config.window_size_seconds
         IN w * obs.passed
              <= Budget(w, obs.cap, window.last_unix_timestamp - obs.since)
<1> DEFINE w == config.window_size_seconds
           a == window.last_aggregated_value
           s == (obs.cap + w - 1) * (window.last_unix_timestamp - obs.since)
<1>1. /\ w \in Nat /\ a \in Nat /\ obs.cap \in Nat /\ obs.passed \in Nat
      /\ s \in Int
      /\ a <= obs.cap
      /\ w * obs.passed <= w * a + s
  BY U64MaxAssumption
  DEF SpanAccounting, ConfigType, WindowType, ObservationType, U64
<1> HIDE DEF w, a, s
<1>2. w * a <= w * obs.cap
  BY <1>1
<1>3. w * obs.passed <= w * obs.cap + s
  BY <1>1, <1>2
<1> QED BY <1>3 DEF Budget, w, s
-----------------------------------------------------------------------------
(* Ranks: what is proved of a sorted set *)

\* Of two elements the greater one has the higher rank.
LEMMA RankLess ==
  ASSUME NEW A, A \subseteq Int, IsFiniteSet(A), NEW x \in A, NEW y \in A, x < y
  PROVE  Rank(A, x) < Rank(A, y)
<1> DEFINE X == {b \in A : b <= x}
           Y == {b \in A : b <= y}
<1>1. IsFiniteSet(Y)
  <2>1. Y \in SUBSET A
    OBVIOUS
  <2> QED BY <2>1, FS_Subset
<1>2. X \in SUBSET Y /\ X # Y
  <2>1. y \in Y /\ y \notin X
    OBVIOUS
  <2>2. \A b \in X : b \in Y
    OBVIOUS
  <2> QED BY <2>1, <2>2
<1>3. Cardinality(X) <= Cardinality(Y) /\ Cardinality(X) # Cardinality(Y)
  <2> HIDE DEF X, Y
  <2> QED BY <1>1, <1>2, FS_Subset
<1>4. Cardinality(X) \in Nat /\ Cardinality(Y) \in Nat
  <2> HIDE DEF X, Y
  <2> QED BY <1>1, <1>2, FS_Subset, FS_CardinalityType
<1> QED BY <1>3, <1>4 DEF Rank

\* A rank is a place in the sorted set.
LEMMA RankType ==
  ASSUME NEW A, A \subseteq Int, IsFiniteSet(A), NEW x \in A
  PROVE  Rank(A, x) \in 1 .. Cardinality(A)
<1> DEFINE X == {b \in A : b <= x}
<1>1. X \in SUBSET A /\ x \in X
  OBVIOUS
<1> HIDE DEF X
<1>2. IsFiniteSet(X) /\ Cardinality(X) \in Nat /\ Cardinality(A) \in Nat
      /\ Cardinality(X) <= Cardinality(A)
  BY <1>1, FS_Subset, FS_CardinalityType
<1>3. Cardinality(X) # 0
  BY <1>1, <1>2, FS_EmptySet
<1> QED BY <1>2, <1>3 DEF Rank, X

\* Every place has its element.
LEMMA RankReached ==
  ASSUME NEW A, A \subseteq Int, IsFiniteSet(A), NEW k \in 1 .. Cardinality(A)
  PROVE  \E a \in A : Rank(A, a) = k
<1> DEFINE n == Cardinality(A)
           rank == [a \in A |-> Rank(A, a)]
<1>1. n \in Nat
  BY FS_CardinalityType
<1>2. IsFiniteSet(1 .. n) /\ Cardinality(1 .. n) = n
  BY <1>1, FS_Interval
<1>3. rank \in [A -> 1 .. n]
  BY RankType
<1>4. ASSUME NEW a \in A, NEW b \in A, rank[a] = rank[b] PROVE a = b
  <2>1. Rank(A, a) = Rank(A, b)
    BY <1>4
  <2>2. Rank(A, a) \in Nat /\ ~ (Rank(A, a) < Rank(A, a))
    <3>1. Rank(A, a) \in 1 .. n
      BY RankType
    <3> QED BY <1>1, <3>1
  <2>3. ~ (a < b)
    BY <2>1, <2>2, RankLess
  <2>4. ~ (b < a)
    BY <2>1, <2>2, RankLess
  <2> QED BY <2>3, <2>4
<1>5. rank \in Injection(A, 1 .. n)
  BY <1>3, <1>4 DEF Injection, IsInjective
<1>6. rank \in Surjection(A, 1 .. n)
  BY <1>2, <1>5, FS_Injection
<1> QED BY <1>6 DEF Surjection

\* The sorted set: every element at the place of its rank, and nothing else.
LEMMA SortedByRank ==
  ASSUME NEW A, A \subseteq Int, IsFiniteSet(A)
  PROVE  /\ Cardinality(A) \in Nat
         /\ Sorted(A) \in Seq(A) /\ Len(Sorted(A)) = Cardinality(A)
         /\ DOMAIN Sorted(A) = 1 .. Cardinality(A)
         /\ \A k \in 1 .. Cardinality(A) : Sorted(A)[k] \in A /\ Rank(A, Sorted(A)[k]) = k
         /\ \A a \in A : Rank(A, a) \in 1 .. Cardinality(A) /\ Sorted(A)[Rank(A, a)] = a
         /\ ToSet(Sorted(A)) = A
<1>1. Cardinality(A) \in Nat
  BY FS_CardinalityType
<1>2. ASSUME NEW k \in 1 .. Cardinality(A)
      PROVE  Sorted(A)[k] \in A /\ Rank(A, Sorted(A)[k]) = k
  BY RankReached DEF Sorted
<1>3. Sorted(A) \in [1 .. Cardinality(A) -> A]
  BY <1>2 DEF Sorted
<1>4. Sorted(A) \in Seq(A) /\ Len(Sorted(A)) = Cardinality(A)
      /\ DOMAIN Sorted(A) = 1 .. Cardinality(A)
  BY <1>1, <1>3
<1>5. ASSUME NEW a \in A
      PROVE  Rank(A, a) \in 1 .. Cardinality(A) /\ Sorted(A)[Rank(A, a)] = a
  <2> DEFINE k == Rank(A, a)
             b == Sorted(A)[k]
  <2>1. k \in 1 .. Cardinality(A)
    BY RankType
  <2>2. b \in A /\ Rank(A, b) = k
    BY <2>1, <1>2
  <2>3. ~ (a < b) /\ ~ (b < a)
    <3> HIDE DEF b
    <3>1. k \in Nat /\ ~ (k < k)
      BY <2>1, <1>1
    <3> QED BY <2>2, <3>1, RankLess
  <2>4. a = b
    <3> HIDE DEF b
    <3> QED BY <2>2, <2>3
  <2> QED BY <2>1, <2>4
<1>6. ToSet(Sorted(A)) = A
  BY <1>2, <1>4, <1>5 DEF ToSet
<1> QED BY <1>1, <1>2, <1>4, <1>5, <1>6

\* Of two places the later one has the greater element.
LEMMA SortedAscends ==
  ASSUME NEW A, A \subseteq Int, IsFiniteSet(A),
         NEW j \in 1 .. Cardinality(A), NEW k \in 1 .. Cardinality(A), j < k
  PROVE  Sorted(A)[j] < Sorted(A)[k]
<1>1. Cardinality(A) \in Nat
  BY FS_CardinalityType
<1>2. /\ Sorted(A)[j] \in A /\ Rank(A, Sorted(A)[j]) = j
      /\ Sorted(A)[k] \in A /\ Rank(A, Sorted(A)[k]) = k
  BY SortedByRank
<1>3. PICK x \in A : x = Sorted(A)[j] /\ Rank(A, x) = j
  BY <1>2
<1>4. PICK y \in A : y = Sorted(A)[k] /\ Rank(A, y) = k
  BY <1>2
<1>5. j \in Nat /\ k \in Nat /\ ~ (k < j)
  BY <1>1
<1>6. ~ (y < x)
  BY <1>3, <1>4, <1>5, RankLess
<1>7. x # y
  BY <1>3, <1>4, <1>5
<1> QED BY <1>3, <1>4, <1>6, <1>7

-----------------------------------------------------------------------------
(* Powers of two: 2^n is the number of subsets of a set of n *)

LEMMA PowerOfTwo ==
  ASSUME NEW n \in Nat
  PROVE  2 ^ n \in Nat /\ 2 ^ n > 0
<1>1. IsFiniteSet(SUBSET (1 .. n)) /\ Cardinality(SUBSET (1 .. n)) = 2 ^ n
  BY UpToIsFinite, FS_SUBSET
<1>2. Cardinality(SUBSET (1 .. n)) \in Nat
  BY <1>1, FS_CardinalityType
<1>3. SUBSET (1 .. n) # {}
  OBVIOUS
<1>4. Cardinality(SUBSET (1 .. n)) # 0
  BY <1>1, <1>3, FS_EmptySet
<1> QED BY <1>1, <1>2, <1>4

LEMMA PowerOfSum ==
  ASSUME NEW a \in Nat, NEW b \in Nat
  PROVE  2 ^ (a + b) = 2 ^ a * 2 ^ b
<1> DEFINE A == 1 .. a
           B == (a + 1) .. (a + b)
           halves == [X \in SUBSET (A \cup B) |-> <<X \cap A, X \cap B>>]
<1>1. /\ IsFiniteSet(A) /\ Cardinality(A) = a
      /\ IsFiniteSet(B) /\ Cardinality(B) = b
      /\ IsFiniteSet(1 .. (a + b)) /\ Cardinality(1 .. (a + b)) = a + b
  <2>1. IsFiniteSet(B) /\ Cardinality(B) = b
    BY FS_Interval
  <2> QED BY <2>1, UpToIsFinite
<1>2. A \cup B = 1 .. (a + b) /\ A \cap B = {}
  OBVIOUS
<1> HIDE DEF A, B
<1>3. halves \in Bijection(SUBSET (A \cup B), (SUBSET A) \X (SUBSET B))
  <2>1. ASSUME NEW X \in SUBSET (A \cup B), NEW Y \in SUBSET (A \cup B), halves[X] = halves[Y]
        PROVE  X = Y
    <3>1. X \cap A = Y \cap A /\ X \cap B = Y \cap B
      BY <2>1
    <3> QED BY <3>1
  <2>2. ASSUME NEW Z \in (SUBSET A) \X (SUBSET B)
        PROVE  \E X \in SUBSET (A \cup B) : halves[X] = Z
    <3>1. Z = <<Z[1], Z[2]>> /\ Z[1] \subseteq A /\ Z[2] \subseteq B
      OBVIOUS
    <3>2. /\ (Z[1] \cup Z[2]) \cap A = Z[1] /\ (Z[1] \cup Z[2]) \cap B = Z[2]
          /\ Z[1] \cup Z[2] \in SUBSET (A \cup B)
      BY <1>2, <3>1
    <3> QED BY <3>1, <3>2
  <2>3. halves \in [SUBSET (A \cup B) -> (SUBSET A) \X (SUBSET B)]
    OBVIOUS
  <2> HIDE DEF halves
  <2>4. halves \in Injection(SUBSET (A \cup B), (SUBSET A) \X (SUBSET B))
    BY <2>1, <2>3 DEF Injection, IsInjective
  <2>5. halves \in Surjection(SUBSET (A \cup B), (SUBSET A) \X (SUBSET B))
    BY <2>2, <2>3, Zenon DEF Surjection
  <2> QED BY <2>4, <2>5 DEF Bijection
<1>4. /\ IsFiniteSet(SUBSET A) /\ Cardinality(SUBSET A) = 2 ^ a
      /\ IsFiniteSet(SUBSET B) /\ Cardinality(SUBSET B) = 2 ^ b
      /\ IsFiniteSet(SUBSET (A \cup B)) /\ Cardinality(SUBSET (A \cup B)) = 2 ^ (a + b)
  BY <1>1, <1>2, FS_SUBSET
<1>5. Cardinality((SUBSET A) \X (SUBSET B)) = 2 ^ a * 2 ^ b
  <2>1. Cardinality((SUBSET A) \X (SUBSET B)) = Cardinality(SUBSET A) * Cardinality(SUBSET B)
    BY <1>4, FS_Product, Zenon
  <2> QED BY <1>4, <2>1
<1>6. Cardinality(SUBSET (A \cup B)) = Cardinality((SUBSET A) \X (SUBSET B))
  <2> HIDE DEF halves
  <2>1. ExistsBijection(SUBSET (A \cup B), (SUBSET A) \X (SUBSET B))
    BY <1>3, Zenon DEF ExistsBijection
  <2> QED BY <1>4, <2>1, FS_Bijection, Zenon
<1> QED BY <1>4, <1>5, <1>6

-----------------------------------------------------------------------------
(* Roundings *)

\* What is less times as much is less.
LEMMA TimesCancels ==
  ASSUME NEW m \in Nat, m > 0, NEW u \in Int, NEW v \in Int
  PROVE  (m * u < m * v => u < v) /\ (m * u <= m * v => u <= v)
<1>1. ASSUME u >= v PROVE m * u >= m * v
  <2>1. u - v \in Nat
    BY <1>1
  <2>2. m * (u - v) >= 0
    BY <2>1
  <2>3. m * (u - v) = m * u - m * v
    OBVIOUS
  <2> QED BY <2>2, <2>3
<1>2. ASSUME u > v PROVE m * u > m * v
  <2>1. PICK k \in Nat : u = v + k /\ k > 0
    <3>1. u - v \in Nat /\ u = v + (u - v) /\ u - v > 0
      BY <1>2
    <3> QED BY <3>1
  <2>2. m * k > 0
    BY <2>1
  <2>3. m * (v + k) = m * v + m * k
    OBVIOUS
  <2> QED BY <2>1, <2>2, <2>3
<1>3. m * u \in Int /\ m * v \in Int
  OBVIOUS
<1> QED BY <1>1, <1>2, <1>3

\* A quotient is known by the multiples its dividend is between.
LEMMA QuotientIs ==
  ASSUME NEW c \in Int, NEW u \in Nat, u > 0, NEW v \in Int, c * u <= v, v < c * u + u
  PROVE  v \div u = c
<1>1. v = u * (v \div u) + (v % u) /\ v % u \in 0 .. (u - 1) /\ v \div u \in Int
  OBVIOUS
<1>2. PICK q, r : q = v \div u /\ r = v % u
  OBVIOUS
<1>3. q \in Int /\ r \in Nat /\ r < u /\ v = u * q + r
  BY <1>1, <1>2
<1>4. u * (q + 1) = u * q + u /\ u * (c + 1) = u * c + u /\ u * c = c * u
  BY <1>3
<1>5. q < c + 1
  <2>1. u * q < u * (c + 1)
    BY <1>3, <1>4
  <2> QED BY <1>3, <2>1, TimesCancels
<1>6. c < q + 1
  <2>1. u * c < u * (q + 1)
    BY <1>3, <1>4
  <2> QED BY <1>3, <2>1, TimesCancels
<1> QED BY <1>2, <1>3, <1>5, <1>6

LEMMA QuotientAndRest ==
  ASSUME NEW n \in Nat, NEW d \in Nat, d > 0
  PROVE  /\ n \div d \in Nat /\ n % d \in Nat /\ n % d < d
         /\ n = (n \div d) * d + (n % d)
<1> PICK q, r : q = n \div d /\ r = n % d
  OBVIOUS
<1>1. q \in Nat /\ r \in Nat /\ r < d /\ n = d * q + r
  OBVIOUS
<1>2. d * q = q * d
  BY <1>1
<1> QED BY <1>1, <1>2

\* x is n but for a p-th of it.
Near(p, x, n) == p * (x - n) <= n /\ p * (n - x) <= n

LEMMA NearTimes ==
  ASSUME NEW p \in Nat, NEW x \in Int, NEW n \in Int, NEW m \in Nat, Near(p, x, n)
  PROVE  Near(p, x * m, n * m)
<1>1. /\ p * (x * m - n * m) = (p * (x - n)) * m
      /\ p * (n * m - x * m) = (p * (n - x)) * m
  OBVIOUS
<1>2. ASSUME NEW u \in Int, u <= n PROVE u * m <= n * m
  <2>1. PICK k \in Nat : n = u + k
    <3>1. n - u \in Nat /\ n = u + (n - u)
      BY <1>2
    <3> QED BY <3>1
  <2>2. (u + k) * m = u * m + k * m /\ k * m >= 0 /\ u * m \in Int /\ k * m \in Int
    OBVIOUS
  <2> QED BY <2>1, <2>2
<1>3. p * (x - n) \in Int /\ p * (n - x) \in Int
  OBVIOUS
<1> QED BY <1>1, <1>2, <1>3 DEF Near

\* Nothing is rounded to nothing.
LEMMA NearNothing ==
  ASSUME NEW p \in Nat, p > 0, NEW x \in Int, Near(p, x, 0)
  PROVE  x = 0
<1>1. p * (x - 0) <= p * 0 /\ p * (0 - x) <= p * 0
  BY DEF Near
<1> QED BY <1>1, TimesCancels

\* A rounding of fewer than p units costs less than a unit.
LEMMA NearUnit ==
  ASSUME NEW p \in Nat, NEW u \in Nat, u > 0, NEW n \in Nat, n < p, NEW x \in Int, Near(p, x, n * u)
  PROVE  x < n * u + u
<1>1. p - n \in Nat /\ p - n > 0
  OBVIOUS
<1>2. (p - n) * u > 0 /\ (p - n) * u = p * u - n * u /\ n * u \in Int /\ p * u \in Int
  BY <1>1
<1>3. PICK i : i = x - n * u
  OBVIOUS
<1>4. i \in Int /\ p * i <= n * u
  BY <1>2, <1>3 DEF Near
<1>5. p * i < p * u
  <2>1. p * i \in Int
    BY <1>4
  <2> QED BY <1>2, <1>4, <2>1
<1>6. i < u
  BY <1>4, <1>5, TimesCancels
<1> QED BY <1>2, <1>3, <1>4, <1>6

\* A number of at most n units that is rounded once, and in part once more, is off by less than a half.
LEMMA RoundedTwice ==
  ASSUME NEW p \in Nat, NEW u \in Nat, u > 0, NEW n \in Nat, 4 * n + 4 <= p,
         NEW x \in Nat, Near(p, x, n * u),
         NEW part \in Nat, part <= x, NEW g \in Int, Near(p, g, part)
  PROVE  2 * (x - part + g - n * u) < u /\ 2 * (n * u - (x - part + g)) < u
<1> DEFINE N == n * u
<1>1. N \in Nat /\ 4 * N + 4 * u <= p * u
  <2>1. PICK k \in Nat : p = 4 * n + 4 + k
    <3>1. p - (4 * n + 4) \in Nat /\ p = 4 * n + 4 + (p - (4 * n + 4))
      OBVIOUS
    <3> QED BY <3>1
  <2>2. (4 * n + 4 + k) * u = 4 * (n * u) + 4 * u + k * u /\ k * u \in Nat /\ n * u \in Nat
    OBVIOUS
  <2> QED BY <2>1, <2>2
<1> HIDE DEF N
<1>2. p * (x - N) <= N /\ p * (N - x) <= N /\ p * (g - part) <= part /\ p * (part - g) <= part
  BY DEF Near, N
<1>3. p \in Nat /\ p > 0
  OBVIOUS
<1>4. 4 * (x - N) < u
  <2>1. p * (4 * (x - N)) = 4 * (p * (x - N)) /\ p * (x - N) \in Int /\ p * u \in Int
    BY <1>1
  <2>2. p * (4 * (x - N)) < p * u
    BY <1>1, <1>2, <2>1
  <2> QED BY <1>1, <1>3, <2>2, TimesCancels
<1>5. ASSUME NEW d \in Int, NEW e \in Int, p * d <= N, p * e <= part
      PROVE  2 * (d + e) < u
  <2>1. p * (2 * (d + e)) = 2 * (p * d) + 2 * (p * e) /\ p * d \in Int /\ p * e \in Int
    OBVIOUS
  <2>2. 2 * (p * d) + 2 * (p * e) <= 2 * N + 2 * x
    BY <1>1, <1>5, <2>1
  <2>3. 2 * N + 2 * x < 4 * N + 4 * u
    BY <1>1, <1>4
  <2>4. p * (2 * (d + e)) < p * u
    BY <1>1, <2>1, <2>2, <2>3
  <2> QED BY <1>3, <2>4, TimesCancels
<1>6. 2 * ((x - N) + (g - part)) < u
  BY <1>1, <1>2, <1>5
<1>7. 2 * ((N - x) + (part - g)) < u
  BY <1>1, <1>2, <1>5
<1> QED BY <1>1, <1>6, <1>7 DEF N

\* A number of n units in which the rest is rounded before the sum is: the rest is less than half of it, and
\* stays above the whole part.
LEMMA RoundedThrice ==
  ASSUME NEW p \in Nat, NEW u \in Nat, u > 0,
         NEW f \in Nat, f > 0, NEW w \in Nat, w > 0, NEW r \in Nat, r < f,
         NEW n \in Nat, n = w * f + r, 4 * n + 4 <= p,
         NEW rest \in Nat, Near(p, rest, r * u),
         NEW x \in Nat, Near(p, x, w * (f * u) + rest),
         NEW part \in Nat, part < f * u, NEW whole \in Nat, x = whole * (f * u) + part,
         NEW g \in Int, Near(p, g, part)
  PROVE  2 * (x - part + g - n * u) < u /\ 2 * (n * u - (x - part + g)) < u
<1> DEFINE N == n * u
           R == r * u
           V == f * u
           C == w * V
<1>1. N \in Nat /\ R \in Nat /\ V \in Nat /\ C \in Nat /\ N = C + R
  <2>1. (w * f + r) * u = w * (f * u) + r * u
    OBVIOUS
  <2> QED BY <2>1
<1>2. 4 * N + 4 * u <= p * u /\ 2 * R + u <= N /\ (r > 0 => R >= u)
  <2>1. PICK k \in Nat : p = 4 * n + 4 + k
    <3>1. p - (4 * n + 4) \in Nat /\ p = 4 * n + 4 + (p - (4 * n + 4))
      OBVIOUS
    <3> QED BY <3>1
  <2>2. (4 * n + 4 + k) * u = 4 * (n * u) + 4 * u + k * u /\ k * u \in Nat
    OBVIOUS
  <2>3. w * f >= f
    <3>1. w - 1 \in Nat /\ (w - 1) * f >= 0 /\ (w - 1) * f = w * f - f
      OBVIOUS
    <3> QED BY <3>1
  <2>4. PICK l \in Nat : n = 2 * r + 1 + l
    <3>1. n >= 2 * r + 1
      BY <2>3
    <3>2. n - (2 * r + 1) \in Nat /\ n = 2 * r + 1 + (n - (2 * r + 1))
      BY <3>1
    <3> QED BY <3>2
  <2>5. (2 * r + 1 + l) * u = 2 * (r * u) + u + l * u /\ l * u \in Nat
    OBVIOUS
  <2>6. ASSUME r > 0 PROVE r * u >= u
    <3>1. r - 1 \in Nat /\ (r - 1) * u >= 0 /\ (r - 1) * u = r * u - u
      BY <2>6
    <3> QED BY <3>1
  <2> QED BY <2>1, <2>2, <2>4, <2>5, <2>6
<1>3. Near(p, rest, R) /\ Near(p, x, C + rest) /\ x = whole * V + part /\ part < V
  OBVIOUS
<1>4. CASE r = 0
  <2>1. R = 0 /\ p > 0
    BY <1>4
  <2>2. rest = 0
    BY <1>3, <2>1, NearNothing
  <2>3. Near(p, x, n * u)
    BY <1>1, <1>3, <2>1, <2>2
  <2>4. part <= x
    <3>1. whole * V \in Nat
      BY <1>1
    <3> QED BY <1>3, <3>1
  <2> QED BY <2>3, <2>4, RoundedTwice
<1>5. CASE r > 0
  <2> HIDE DEF N, R, V, C
  <2>1. p \in Nat /\ p > 0
    OBVIOUS
  <2>2. /\ p * (rest - R) <= R /\ p * (R - rest) <= R
        /\ p * (x - (C + rest)) <= C + rest /\ p * ((C + rest) - x) <= C + rest
        /\ p * (g - part) <= part /\ p * (part - g) <= part
    BY <1>3 DEF Near
  <2>3. ASSUME NEW i \in Int, p * i <= R PROVE 8 * i < u
    <3>1. p * (8 * i) = 8 * (p * i) /\ p * i \in Int /\ p * u \in Int
      OBVIOUS
    <3>2. p * (8 * i) < p * u
      BY <1>1, <1>2, <2>3, <3>1
    <3> QED BY <2>1, <3>2, TimesCancels
  <2> DEFINE d == rest - R
             e == x - (C + rest)
             h == g - part
  <2>4. /\ d \in Int /\ -d \in Int /\ e \in Int /\ -e \in Int /\ h \in Int /\ -h \in Int
         /\ -d = R - rest /\ -e = (C + rest) - x /\ -h = part - g
    BY <1>1
  <2> HIDE DEF d, e, h
  <2>5. /\ p * d <= R /\ p * (-d) <= R /\ p * e <= C + rest /\ p * (-e) <= C + rest
         /\ p * h <= part /\ p * (-h) <= part
    BY <2>2, <2>4 DEF d, e, h
  <2>6. 8 * d < u /\ 8 * (-d) < u
    BY <2>3, <2>4, <2>5
  <2>7. ASSUME NEW i \in Int, p * i <= C + rest PROVE 4 * i < u
    <3>1. p * (4 * i) = 4 * (p * i) /\ p * i \in Int /\ p * u \in Int
      OBVIOUS
    <3>2. 4 * (C + rest) < 4 * N + 4 * u
      BY <1>1, <2>6, <2>4
    <3>3. p * (4 * i) < p * u
      BY <1>1, <1>2, <2>7, <3>1, <3>2
    <3> QED BY <2>1, <3>3, TimesCancels
  <2>8. 4 * e < u /\ 4 * (-e) < u
    BY <2>7, <2>4, <2>5
  <2>9. x > C
    BY <1>1, <1>2, <1>5, <2>6, <2>8, <2>4
  <2>10. part <= x - C
    <3>1. w * V < (whole + 1) * V
      <4>1. (whole + 1) * V = whole * V + V /\ whole * V \in Nat
        BY <1>1
      <4> QED BY <1>1, <1>3, <2>9, <4>1 DEF C
    <3>2. V \in Nat /\ V > 0
      BY <1>1, <1>3
    <3>3. w < whole + 1
      <4>1. V * w = w * V /\ V * (whole + 1) = (whole + 1) * V
        BY <3>2
      <4> QED BY <3>1, <3>2, <4>1, TimesCancels
    <3>4. (whole - w) * V >= 0 /\ (whole - w) * V = whole * V - w * V
      <4>1. whole - w \in Nat
        BY <3>3
      <4>2. (whole - w) * V >= 0
        BY <3>2, <4>1
      <4> QED BY <3>2, <4>2
    <3> QED BY <1>1, <1>3, <3>4 DEF C
  <2>11. ASSUME NEW i \in Int, NEW j \in Int, NEW k \in Int,
               p * i <= R, p * j <= C + rest, p * k <= part
        PROVE  2 * (i + j + k) < u
    <3>1. /\ p * (2 * (i + j + k)) = 2 * (p * i) + 2 * (p * j) + 2 * (p * k)
          /\ p * i \in Int /\ p * j \in Int /\ p * k \in Int
      OBVIOUS
    <3>2. 2 * (p * i) + 2 * (p * j) + 2 * (p * k) <= 2 * R + 2 * (C + rest) + 2 * (x - C)
      BY <1>1, <2>10, <2>11, <3>1
    <3>3. 2 * R + 2 * (C + rest) + 2 * (x - C) < 4 * N + 4 * u
      BY <1>1, <1>2, <2>6, <2>8, <2>4 DEF d, e
    <3>4. p * (2 * (i + j + k)) < p * u
      BY <1>1, <1>2, <3>1, <3>2, <3>3
    <3> QED BY <2>1, <3>4, TimesCancels
  <2>12. 2 * (d + e + h) < u /\ 2 * ((-d) + (-e) + (-h)) < u
    BY <2>11, <2>4, <2>5
  <2> QED BY <1>1, <2>12, <2>4 DEF N, d, e, h
<1> QED BY <1>4, <1>5

\* What is less than half a unit off n units, and is rounded, has n whole units or one less.
LEMMA CutToUnits ==
  ASSUME NEW p \in Nat, NEW u \in Nat, u > 0, NEW n \in Nat, 4 * n + 4 <= p,
         NEW x \in Nat, 2 * (x - n * u) < u, 2 * (n * u - x) < u,
         NEW g \in Nat, Near(p, g, x)
  PROVE  g \div u \in Nat /\ g \div u \in (n - 1) .. n
<1> DEFINE N == n * u
           q == g \div u
           d == g - x
<1>1. N \in Nat /\ 4 * N + 4 * u <= p * u
  <2>1. PICK k \in Nat : p = 4 * n + 4 + k
    <3>1. p - (4 * n + 4) \in Nat /\ p = 4 * n + 4 + (p - (4 * n + 4))
      OBVIOUS
    <3> QED BY <3>1
  <2>2. (4 * n + 4 + k) * u = 4 * (n * u) + 4 * u + k * u /\ k * u \in Nat /\ n * u \in Nat
    OBVIOUS
  <2> QED BY <2>1, <2>2
<1>2. 2 * (x - N) < u /\ 2 * (N - x) < u
  OBVIOUS
<1>3. q \in Nat /\ q * u <= g /\ g < q * u + u
  <2>1. g = u * q + (g % u) /\ g % u \in 0 .. (u - 1) /\ q \in Nat
    OBVIOUS
  <2>2. u * q = q * u /\ q * u \in Nat
    BY <2>1
  <2> QED BY <2>1, <2>2
<1>4. d \in Int /\ -d \in Int /\ p * d <= x /\ p * (-d) <= x /\ p \in Nat /\ p > 0
  BY DEF Near
<1> HIDE DEF N, q, d
<1>5. ASSUME NEW i \in Int, p * i <= x PROVE 4 * i < u
  <2>1. p * (4 * i) = 4 * (p * i) /\ p * i \in Int /\ p * u \in Int
    OBVIOUS
  <2>2. p * (4 * i) < p * u
    BY <1>1, <1>2, <1>5, <2>1
  <2> QED BY <1>4, <2>2, TimesCancels
<1>6. 4 * d < u /\ 4 * (-d) < u
  BY <1>4, <1>5
<1>7. q * u < N + u /\ N < q * u + 2 * u
  <2>1. g < N + u /\ N < g + u
    BY <1>1, <1>2, <1>4, <1>6 DEF d
  <2> QED BY <1>1, <1>3, <2>1
<1>8. u * q < u * (n + 1) /\ u * n < u * (q + 2)
  <2>1. u * q = q * u /\ u * (n + 1) = n * u + u /\ u * n = n * u /\ u * (q + 2) = q * u + 2 * u
    BY <1>3
  <2> QED BY <1>7, <2>1 DEF N
<1>9. q < n + 1 /\ n < q + 2
  BY <1>3, <1>8, TimesCancels
<1> QED BY <1>3, <1>9 DEF q

\* Of n units, r <= n may be told in digits of k units each: no digit too many, and at most one
\* less than there are of one unit less.
LEMMA DigitsOfManyUnits ==
  ASSUME NEW p \in Nat, NEW u \in Nat, u > 0, NEW s \in Nat, s > 0, NEW k \in Nat, k > 0,
         NEW n \in Nat, 4 * n + 4 <= p, NEW r \in Nat, r \in (n - 1) .. n,
         NEW x \in Nat, Near(p, x * (s * k), r * u),
         NEW g \in Nat, Near(p, g, x * s)
  PROVE  /\ (n * s) \div (s * k) \in Int /\ ((n - 1) * s) \div (s * k) \in Int
         /\ g \div u \in Nat
         /\ g \div u \in (((n - 1) * s) \div (s * k) - 1) .. ((n * s) \div (s * k))
<1>1. 2 * (g * k - r * u) < u /\ 2 * (r * u - g * k) < u
  <2>1. Near(p, g * k, (x * s) * k)
    <3>1. x * s \in Int /\ g \in Int
      OBVIOUS
    <3>2. PICK y : y = x * s
      OBVIOUS
    <3>3. y \in Int /\ Near(p, g, y)
      BY <3>1, <3>2
    <3>4. Near(p, g * k, y * k)
      BY <3>1, <3>3, NearTimes
    <3> QED BY <3>2, <3>4
  <2>2. (x * s) * k = x * (s * k) /\ x * (s * k) \in Nat /\ g * k \in Int
    OBVIOUS
  <2>3. 4 * r + 4 <= p
    OBVIOUS
  <2> DEFINE y == x * (s * k)
             h == g * k
  <2>4. y \in Nat /\ Near(p, y, r * u) /\ h \in Int /\ Near(p, h, y) /\ y <= y
    BY <2>1, <2>2
  <2> HIDE DEF y, h
  <2>5. 2 * (y - y + h - r * u) < u /\ 2 * (r * u - (y - y + h)) < u
    BY <2>3, <2>4, RoundedTwice
  <2> QED BY <2>2, <2>4, <2>5 DEF h
<1> DEFINE q == g \div u
<1>2. q \in Nat /\ q * u <= g /\ g < q * u + u
  <2>1. g = u * q + (g % u) /\ g % u \in 0 .. (u - 1) /\ q \in Nat
    OBVIOUS
  <2>2. u * q = q * u /\ q * u \in Nat
    BY <2>1
  <2> QED BY <2>1, <2>2
<1> HIDE DEF q
<1>3. ASSUME NEW m \in Int
      PROVE  LET c == m \div k IN
             c \in Int /\ c * k <= m /\ m < c * k + k /\ (m * s) \div (s * k) = c
  <2> DEFINE c == m \div k
  <2>1. m = k * c + (m % k) /\ m % k \in 0 .. (k - 1) /\ c \in Int
    OBVIOUS
  <2> HIDE DEF c
  <2>2. k * c = c * k /\ c * k \in Int
    BY <2>1
  <2>3. c * k <= m /\ m < c * k + k
    BY <2>1, <2>2
  <2>4. PICK l \in Nat, j \in Nat : m = c * k + l /\ c * k + k = m + j /\ j > 0
    <3>1. m - c * k \in Nat /\ c * k + k - m \in Nat /\ c * k + k - m > 0
      BY <2>2, <2>3
    <3>2. m = c * k + (m - c * k) /\ c * k + k = m + (c * k + k - m)
      BY <2>2
    <3> QED BY <3>1, <3>2
  <2>5. m * s = c * (s * k) + l * s /\ c * (s * k) + s * k = m * s + j * s
    <3>1. (c * k + l) * s = c * (s * k) + l * s
      BY <2>1
    <3>2. (c * k + k) * s = c * (s * k) + s * k /\ (m + j) * s = m * s + j * s
      BY <2>1
    <3> QED BY <2>4, <3>1, <3>2
  <2>6. l * s >= 0 /\ j * s > 0 /\ l * s \in Int /\ j * s \in Int /\ m * s \in Int /\ s * k \in Nat
        /\ s * k > 0 /\ c * (s * k) \in Int
    BY <2>1, <2>4
  <2>7. c * (s * k) <= m * s /\ m * s < c * (s * k) + s * k
    BY <2>5, <2>6
  <2>8. (m * s) \div (s * k) = c
    BY <2>1, <2>6, <2>7, QuotientIs
  <2> QED BY <2>1, <2>3, <2>8 DEF c
<1> DEFINE a == n \div k
           b == (n - 1) \div k
<1>4. /\ a \in Int /\ n < a * k + k /\ (n * s) \div (s * k) = a
      /\ b \in Int /\ b * k <= n - 1 /\ ((n - 1) * s) \div (s * k) = b
  BY <1>3
<1> HIDE DEF a, b
<1>5. (q * k) * u <= g * k /\ g * k < (q * k + k) * u
  <2>1. PICK l \in Nat, j \in Nat : g = q * u + l /\ q * u + u = g + j /\ j > 0
    <3>1. g - q * u \in Nat /\ q * u + u - g \in Nat /\ q * u + u - g > 0
      BY <1>2
    <3>2. g = q * u + (g - q * u) /\ q * u + u = g + (q * u + u - g)
      BY <1>2
    <3> QED BY <3>1, <3>2
  <2>2. (q * u + l) * k = (q * k) * u + l * k /\ (q * u + u) * k = (q * k + k) * u
    BY <1>2
  <2>3. (g + j) * k = g * k + j * k
    BY <2>1
  <2>4. l * k >= 0 /\ j * k > 0 /\ l * k \in Int /\ j * k \in Int /\ g * k \in Int /\ (q * k) * u \in Int
    BY <1>2, <2>1
  <2> QED BY <2>1, <2>2, <2>3, <2>4
<1>6. q * k < r + 1 /\ r - 1 < q * k + k
  <2>1. /\ u * (q * k) = (q * k) * u /\ u * (r + 1) = r * u + u /\ u * (r - 1) = r * u - u
        /\ u * (q * k + k) = (q * k + k) * u
        /\ q * k \in Int /\ r * u \in Int /\ g * k \in Int /\ (q * k) * u \in Int
        /\ (q * k + k) * u \in Int
    BY <1>2
  <2>2. u * (q * k) < u * (r + 1) /\ u * (r - 1) < u * (q * k + k)
    BY <1>1, <1>5, <2>1
  <2> QED BY <2>1, <2>2, TimesCancels
<1>7. q < a + 1 /\ b <= q + 1
  <2>1. /\ k * q = q * k /\ k * (a + 1) = a * k + k /\ k * b = b * k /\ k * (q + 1) = q * k + k
        /\ q * k \in Int /\ a * k \in Int /\ b * k \in Int
    BY <1>2, <1>4
  <2>2. k * q < k * (a + 1) /\ k * b <= k * (q + 1)
    BY <1>4, <1>6, <2>1
  <2> QED BY <1>2, <1>4, <2>2, TimesCancels
<1> QED BY <1>2, <1>4, <1>7 DEF q

\* The same when a unit makes k digits, and the digits are fewer than the bound.
LEMMA DigitsOfOneUnit ==
  ASSUME NEW p \in Nat, NEW u \in Nat, u > 0, NEW f \in Nat, f > 0, NEW k \in Nat, k > 0,
         NEW n \in Nat, 4 * ((n * (f * k)) \div f) + 4 <= p, NEW r \in Nat, r \in (n - 1) .. n,
         NEW x \in Nat, Near(p, x * f, r * u),
         NEW g \in Nat, Near(p, g, x * (f * k))
  PROVE  /\ (n * (f * k)) \div f \in Int /\ ((n - 1) * (f * k)) \div f \in Int
         /\ g \div u \in Nat
         /\ g \div u \in (((n - 1) * (f * k)) \div f - 1) .. ((n * (f * k)) \div f)
<1>1. ASSUME NEW m \in Int
      PROVE  (m * (f * k)) \div f = m * k
  <2>1. m * (f * k) = (m * k) * f /\ m * k \in Int /\ (m * k) * f \in Int
    OBVIOUS
  <2> QED BY <2>1, QuotientIs
<1>2. (n * (f * k)) \div f = n * k /\ ((n - 1) * (f * k)) \div f = (n - 1) * k
  BY <1>1
<1> DEFINE c == r * k
           y == (x * f) * k
           q == g \div u
<1>3. c \in Nat /\ c <= n * k /\ (n - 1) * k <= c /\ n * k \in Nat /\ (n - 1) * k \in Int
  <2>1. /\ (n - r) * k >= 0 /\ (n - r) * k = n * k - r * k
        /\ (r - (n - 1)) * k >= 0 /\ (r - (n - 1)) * k = r * k - (n - 1) * k
    <3>1. n - r \in Nat /\ r - (n - 1) \in Nat
      OBVIOUS
    <3>2. (n - r) * k >= 0 /\ (r - (n - 1)) * k >= 0
      BY <3>1
    <3> QED BY <3>2
  <2> QED BY <2>1
<1>4. y \in Nat /\ Near(p, y, c * u) /\ Near(p, g, y)
  <2>1. Near(p, (x * f) * k, (r * u) * k)
    <3>1. x * f \in Int /\ r * u \in Int
      OBVIOUS
    <3> QED BY <3>1, NearTimes
  <2>2. (r * u) * k = (r * k) * u /\ x * (f * k) = (x * f) * k /\ (x * f) * k \in Nat
    OBVIOUS
  <2> QED BY <2>1, <2>2
<1>5. q \in Nat /\ q * u <= g /\ g < q * u + u
  <2>1. g = u * q + (g % u) /\ g % u \in 0 .. (u - 1) /\ q \in Nat
    OBVIOUS
  <2>2. u * q = q * u /\ q * u \in Nat
    BY <2>1
  <2> QED BY <2>1, <2>2
<1> HIDE DEF c, y, q
<1>6. 2 * (g - c * u) < u /\ 2 * (c * u - g) < u
  <2>1. 4 * c + 4 <= p
    BY <1>2, <1>3
  <2>2. y <= y /\ g \in Int
    BY <1>4
  <2>3. 2 * (y - y + g - c * u) < u /\ 2 * (c * u - (y - y + g)) < u
    BY <1>3, <1>4, <2>1, <2>2, RoundedTwice
  <2>4. PICK d : d = c * u
    OBVIOUS
  <2>5. d \in Int /\ y \in Int /\ 2 * (y - y + g - d) < u /\ 2 * (d - (y - y + g)) < u
    BY <1>3, <1>4, <2>3, <2>4
  <2>6. 2 * (g - d) < u /\ 2 * (d - g) < u
    BY <2>5
  <2> QED BY <2>4, <2>6
<1>7. q < c + 1 /\ c - 1 < q + 1
  <2>1. /\ u * q = q * u /\ u * (c + 1) = c * u + u /\ u * (c - 1) = c * u - u
        /\ u * (q + 1) = q * u + u /\ q * u \in Int /\ c * u \in Int
    BY <1>3, <1>5
  <2>2. u * q < u * (c + 1) /\ u * (c - 1) < u * (q + 1)
    BY <1>5, <1>6, <2>1
  <2> QED BY <1>3, <1>5, <2>2, TimesCancels
<1> QED BY <1>2, <1>3, <1>5, <1>7 DEF q

\* What q digits are rounded to is read as q digits.
LEMMA DigitsAreRead ==
  ASSUME NEW p \in Nat, NEW u \in Nat, u > 0, NEW q \in Nat, 4 * q + 4 <= p,
         NEW z \in Nat, Near(p, z, q * u)
  PROVE  (2 * z + u) \div (2 * u) = q
<1>1. Near(p, 0, 0) /\ 0 \in Nat /\ 0 <= z /\ 0 \in Int
  BY DEF Near
<1>2. 2 * (z - 0 + 0 - q * u) < u /\ 2 * (q * u - (z - 0 + 0)) < u
  BY <1>1, RoundedTwice
<1>3. q * (2 * u) = 2 * (q * u) /\ q * u \in Nat
  OBVIOUS
<1>4. q * (2 * u) <= 2 * z + u /\ 2 * z + u < q * (2 * u) + 2 * u
  BY <1>2, <1>3
<1> QED BY <1>4, QuotientIs
=============================================================================
