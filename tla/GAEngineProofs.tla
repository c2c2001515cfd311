--------------------------- MODULE GAEngineProofs ---------------------------
(***************************************************************************)
(* Proofs about the genetic search of GAEngine: its score buffer, its      *)
(* result and its statistics are sound for every population size, number   *)
(* of workers and plan, and every step is one of the sequential GASearch.  *)
(***************************************************************************)
EXTENDS GAEngine, FiniteSetTheorems, TLAPS

\* Every non-empty set of naturals has a least element.
LEMMA LeastNat ==
    ASSUME NEW T, T \subseteq Nat, T # {}
    PROVE  \E m \in T : \A n \in T : m <= n
  <1>1. PICK x \in T : \A y \in T : ~ (<<y, x>> \in OpToRel(<, Nat))
    BY NatLessThanWellFounded, WFMin
  <1>2. \A y \in T : ~(y < x)
    BY <1>1 DEF OpToRel
  <1> QED
    BY <1>2

\* A non-empty finite set of integers has a greatest element: the one with the
\* fewest above it.
LEMMA GreatestInt ==
    ASSUME NEW T, IsFiniteSet(T), T \subseteq Int, T # {}
    PROVE  \E x \in T : \A y \in T : x >= y
  <1> DEFINE Above(x) == {y \in T : y > x}
             C == {Cardinality(Above(x)) : x \in T}
  <1>1. \A x \in T : IsFiniteSet(Above(x)) /\ Cardinality(Above(x)) \in Nat
    BY FS_Subset, FS_CardinalityType
  <1>2. PICK m \in C : \A n \in C : m <= n
    <2>1. C \subseteq Nat /\ C # {}
      BY <1>1
    <2> QED
      BY <2>1, LeastNat
  <1>3. PICK x \in T : m = Cardinality(Above(x))
    BY <1>2
  <1>4. SUFFICES ASSUME NEW y \in T, y > x PROVE FALSE
    BY <1>3
  <1>5. Above(y) \subseteq Above(x) /\ y \in Above(x) /\ y \notin Above(y)
    BY <1>3, <1>4
  <1>6. Cardinality(Above(y)) < Cardinality(Above(x))
    <2>1. /\ Cardinality(Above(y)) <= Cardinality(Above(x))
          /\ Cardinality(Above(y)) = Cardinality(Above(x)) => Above(x) = Above(y)
      <3> HIDE DEF Above
      <3> QED
        BY <1>1, <1>3, <1>5, FS_Subset
    <2> QED
      BY <1>1, <1>3, <1>5, <2>1
  <1>7. Cardinality(Above(y)) \in C
    BY <1>4
  <1> HIDE DEF C, Above
  <1> QED
    BY <1>1, <1>2, <1>3, <1>4, <1>6, <1>7

\* And a least one.
LEMMA LeastInt ==
    ASSUME NEW T, IsFiniteSet(T), T \subseteq Int, T # {}
    PROVE  \E x \in T : \A y \in T : x <= y
  <1> DEFINE Below(x) == {y \in T : y < x}
             C == {Cardinality(Below(x)) : x \in T}
  <1>1. \A x \in T : IsFiniteSet(Below(x)) /\ Cardinality(Below(x)) \in Nat
    BY FS_Subset, FS_CardinalityType
  <1>2. PICK m \in C : \A n \in C : m <= n
    <2>1. C \subseteq Nat /\ C # {}
      BY <1>1
    <2> QED
      BY <2>1, LeastNat
  <1>3. PICK x \in T : m = Cardinality(Below(x))
    BY <1>2
  <1>4. SUFFICES ASSUME NEW y \in T, y < x PROVE FALSE
    BY <1>3
  <1>5. Below(y) \subseteq Below(x) /\ y \in Below(x) /\ y \notin Below(y)
    BY <1>3, <1>4
  <1>6. Cardinality(Below(y)) < Cardinality(Below(x))
    <2>1. /\ Cardinality(Below(y)) <= Cardinality(Below(x))
          /\ Cardinality(Below(y)) = Cardinality(Below(x)) => Below(x) = Below(y)
      <3> HIDE DEF Below
      <3> QED
        BY <1>1, <1>3, <1>5, FS_Subset
    <2> QED
      BY <1>1, <1>3, <1>5, <2>1
  <1>7. Cardinality(Below(y)) \in C
    BY <1>4
  <1> HIDE DEF C, Below
  <1> QED
    BY <1>1, <1>2, <1>3, <1>4, <1>6, <1>7

\* The sum of AggregateScoreTotal over a finite set of windows.
WeightedSum(raw, ws) == MapThenSumSet(LAMBDA w : Weight[w] * raw[w].value, ws)

\* The recursive function behind that sum is well defined and gives integers: built
\* up over the cardinality of its arguments, which has no least counterexample.
LEMMA SumType ==
    ASSUME NEW raw, NEW ws, IsFiniteSet(ws),
           \A w \in ws : Weight[w] * raw[w].value \in Int
    PROVE  WeightedSum(raw, ws) \in Int
  <1> DEFINE pick(s) == CHOOSE x \in s : TRUE
             F(x) == Weight[x] * raw[x].value
             Step(f, s) == IF s = {} THEN 0 ELSE F(pick(s)) + f[s \ {pick(s)}]
             D(n) == {s \in SUBSET ws : Cardinality(s) <= n}
             Good(n) == \E f \in [D(n) -> Int] : \A s \in D(n) : f[s] = Step(f, s)
             it == CHOOSE f : f = [s \in SUBSET ws |-> Step(f, s)]
  <1>1. WeightedSum(raw, ws) = it[ws]
    BY DEF WeightedSum, MapThenSumSet, MapThenFoldSet
  <1>2. \A s \in SUBSET ws : IsFiniteSet(s) /\ Cardinality(s) \in Nat
    BY FS_Subset, FS_CardinalityType
  <1>3. ASSUME NEW s \in SUBSET ws, s # {}
        PROVE  /\ pick(s) \in s /\ F(pick(s)) \in Int
               /\ s \ {pick(s)} \in SUBSET ws /\ Cardinality(s \ {pick(s)}) = Cardinality(s) - 1
    <2>1. pick(s) \in s
      BY <1>3
    <2> HIDE DEF pick
    <2> QED
      BY <1>2, <2>1, FS_RemoveElement
  <1>4. Good(0)
    <2>1. \A s \in D(0) : s = {}
      BY <1>2, FS_EmptySet
    <2> DEFINE f == [s \in D(0) |-> 0]
    <2>2. f \in [D(0) -> Int] /\ \A s \in D(0) : f[s] = Step(f, s)
      BY <2>1
    <2> QED
      BY <2>2
  <1>5. ASSUME NEW n \in Nat, Good(n) PROVE Good(n + 1)
    <2>1. PICK f \in [D(n) -> Int] : \A s \in D(n) : f[s] = Step(f, s)
      BY <1>5
    <2> DEFINE g == [s \in D(n + 1) |-> Step(f, s)]
    <2>2. ASSUME NEW s \in D(n + 1), s # {}
          PROVE  s \ {pick(s)} \in D(n) /\ F(pick(s)) \in Int
      <3>1. s \in SUBSET ws /\ Cardinality(s) <= n + 1 /\ Cardinality(s) \in Nat
        BY <1>2
      <3>2. /\ F(pick(s)) \in Int /\ s \ {pick(s)} \in SUBSET ws
            /\ Cardinality(s \ {pick(s)}) = Cardinality(s) - 1
        BY <1>3, <2>2, <3>1
      <3> HIDE DEF pick, F
      <3> QED
        BY <3>1, <3>2
    <2>3. g \in [D(n + 1) -> Int]
      <3> HIDE DEF D, F, pick
      <3>1. ASSUME NEW s \in D(n + 1) PROVE Step(f, s) \in Int
        <4>1. CASE s = {}
          BY <4>1
        <4>2. CASE s # {}
          <5>1. f[s \ {pick(s)}] \in Int /\ F(pick(s)) \in Int
            BY <2>1, <2>2, <4>2
          <5> QED
            BY <4>2, <5>1
        <4> QED
          BY <4>1, <4>2
      <3> HIDE DEF Step
      <3> QED
        BY <3>1
    <2>4. D(n) \subseteq D(n + 1)
      BY <1>2
    <2>5. \A s \in D(n) : g[s] = f[s]
      <3> HIDE DEF D, Step
      <3> QED
        BY <2>1, <2>4
    <2>6. \A s \in D(n + 1) : g[s] = Step(g, s)
      <3> HIDE DEF D, F, pick, g
      <3>1. \A s \in D(n + 1) : g[s] = Step(f, s)
        BY DEF g
      <3> QED
        BY <2>2, <2>5, <3>1
    <2> HIDE DEF g, D, Step
    <2> QED
      BY <2>3, <2>6
  <1>6. Good(Cardinality(ws))
    <2> HIDE DEF Good
    <2> DEFINE Bad == {n \in Nat : ~Good(n)}
    <2>1. Bad = {}
      <3>1. SUFFICES ASSUME Bad # {} PROVE FALSE
        OBVIOUS
      <3>2. PICK m \in Bad : \A n \in Bad : m <= n
        <4>1. Bad \subseteq Nat
          OBVIOUS
        <4> HIDE DEF Bad
        <4> QED
          BY <3>1, <4>1, LeastNat
      <3>3. m \in Nat /\ m # 0 /\ ~Good(m)
        BY <1>4
      <3>4. m - 1 \in Nat /\ m - 1 \notin Bad
        BY <3>2, <3>3
      <3>5. Good(m - 1)
        BY <3>4
      <3>6. Good((m - 1) + 1)
        BY <1>5, <3>4, <3>5
      <3>7. (m - 1) + 1 = m
        BY <3>3
      <3> QED
        BY <3>3, <3>6, <3>7
    <2> QED
      BY <1>2, <2>1
  <1>7. PICK f \in [SUBSET ws -> Int] : \A s \in SUBSET ws : f[s] = Step(f, s)
    <2>1. D(Cardinality(ws)) = SUBSET ws
      BY FS_Subset, FS_CardinalityType
    <2> HIDE DEF D, Step
    <2> QED
      BY <1>6, <2>1
  <1>8. it = [s \in SUBSET ws |-> Step(it, s)]
    <2>1. f = [s \in SUBSET ws |-> Step(f, s)]
      <3> HIDE DEF Step
      <3> QED
        BY <1>7
    <2> HIDE DEF Step
    <2> QED
      BY <2>1
  <1>9. \A s \in SUBSET ws : it[s] = f[s]
    <2> DEFINE Off == {s \in SUBSET ws : it[s] # f[s]}
               N == {Cardinality(s) : s \in Off}
    <2> HIDE DEF it
    <2>1. SUFFICES ASSUME Off # {} PROVE FALSE
      OBVIOUS
    <2>2. PICK m \in N : \A n \in N : m <= n
      <3>1. N \subseteq Nat /\ N # {}
        BY <1>2, <2>1
      <3> HIDE DEF N
      <3> QED
        BY <3>1, LeastNat
    <2>3. PICK s \in Off : m = Cardinality(s)
      BY <2>2
    <2>4. s # {}
      BY <1>7, <1>8, <2>3
    <2>5. /\ s \ {pick(s)} \in SUBSET ws /\ Cardinality(s \ {pick(s)}) = Cardinality(s) - 1
          /\ Cardinality(s) \in Nat
      BY <1>2, <1>3, <2>3, <2>4
    <2>6. s \ {pick(s)} \notin Off
      <3>1. s \ {pick(s)} \in Off => Cardinality(s \ {pick(s)}) \in N
        OBVIOUS
      <3> HIDE DEF N, Off, pick
      <3> QED
        BY <2>2, <2>3, <2>5, <3>1
    <2>7. it[s \ {pick(s)}] = f[s \ {pick(s)}]
      BY <2>5, <2>6
    <2>8. Step(it, s) = Step(f, s)
      BY <2>4, <2>7
    <2> HIDE DEF Step
    <2> QED
      BY <1>7, <1>8, <2>3, <2>8
  <1>10. ws \in SUBSET ws
    OBVIOUS
  <1> HIDE DEF it, Step
  <1> QED
    BY <1>1, <1>7, <1>9, <1>10
---------------------------------------------------------------------------
(* Scores *)

\* ScoreTotal.
ScoreType == [fatal : BOOLEAN, nil : BOOLEAN, value : Int]

\* What one window gives.
LEMMA WindowType ==
    ASSUME NEW g \in Genes, NEW w \in Windows
    PROVE  EvaluateWindow(g, w) \in [kind : {"fatal", "normal"}, value : Int]
  <1> DEFINE nav == Nav[g][w]
  <1>1. nav \in Seq(Int) /\ nav # <<>>
    BY GAEngineAssumption DEF Windows
  <1>2. nav[Len(nav)] - nav[1] \in Int
    <2>1. 1 \in 1 .. Len(nav) /\ Len(nav) \in 1 .. Len(nav)
      BY <1>1
    <2> HIDE DEF nav
    <2> QED
      BY <1>1, <2>1
  <1> HIDE DEF nav
  <1>3. \/ EvaluateWindow(g, w) = [kind |-> "fatal", value |-> 0]
        \/ EvaluateWindow(g, w) = [kind |-> "normal", value |-> nav[Len(nav)] - nav[1]]
    BY DEF EvaluateWindow, nav
  <1> QED
    BY <1>2, <1>3

\* What Evaluate returns.
LEMMA RawType ==
    ASSUME NEW g \in Genes
    PROVE  RawEvaluate(g) \in [Windows -> [kind : {"fatal", "normal", "skipped"}, value : Int]]
  <1>1. ASSUME NEW w \in Windows
        PROVE  \/ RawEvaluate(g)[w] = [kind |-> "skipped", value |-> 0]
               \/ RawEvaluate(g)[w] = EvaluateWindow(g, w)
    BY DEF RawEvaluate
  <1>2. ASSUME NEW w \in Windows
        PROVE  RawEvaluate(g)[w] \in [kind : {"fatal", "normal", "skipped"}, value : Int]
    BY <1>1, <1>2, WindowType
  <1>3. RawEvaluate(g) = [w \in Windows |-> RawEvaluate(g)[w]]
    BY DEF RawEvaluate
  <1> QED
    BY <1>2, <1>3

\* The spread of finitely many integers.
LEMMA SpreadType ==
    ASSUME NEW vs, IsFiniteSet(vs), vs \subseteq Int
    PROVE  Spread(vs) \in Int
  <1>1. CASE vs = {}
    BY <1>1 DEF Spread
  <1>2. CASE vs # {}
    <2>1. Max(vs) \in vs
      BY <1>2, GreatestInt DEF Max
    <2>2. Min(vs) \in vs
      BY <1>2, LeastInt DEF Min
    <2>3. Spread(vs) = Max(vs) - Min(vs)
      BY <1>2 DEF Spread
    <2>4. ASSUME NEW x \in Int, NEW y \in Int PROVE x - y \in Int
      OBVIOUS
    <2> QED
      BY <2>1, <2>2, <2>3, <2>4, Zenon
  <1> QED
    BY <1>1, <1>2

\* The score of a gene is a ScoreTotal; a fatal one has no value.
LEMMA FitnessType ==
    ASSUME NEW g \in Genes
    PROVE  Fitness[g] \in ScoreType
  <1> DEFINE raw == RawEvaluate(g)
             ws == {w \in Windows : raw[w].kind = "normal"}
             vs == {raw[w].value : w \in ws}
  <1>1. \A w \in Windows : raw[w].value \in Int /\ Weight[w] \in Int
    BY RawType, GAEngineAssumption DEF Windows
  <1>2. IsFiniteSet(ws) /\ ws \subseteq Windows
    <2>1. Windows = 1 .. Len(Weight) /\ Len(Weight) \in Nat
      BY GAEngineAssumption DEF Windows
    <2>2. IsFiniteSet(1 .. Len(Weight))
      BY <2>1, FS_Interval
    <2> QED
      BY <2>1, <2>2, FS_Subset
  <1> HIDE DEF raw
  <1>3. IsFiniteSet(vs) /\ vs \subseteq Int
    <2> DEFINE f == [w \in ws |-> raw[w].value]
    <2>1. f \in Surjection(ws, vs)
      BY DEF Surjection
    <2> HIDE DEF f, ws
    <2>2. IsFiniteSet(vs)
      BY <1>2, <2>1, FS_Surjection
    <2> QED
      BY <1>1, <1>2, <2>2
  <1>4. WeightedSum(raw, ws) \in Int
    <2>1. \A w \in ws : Weight[w] * raw[w].value \in Int
      BY <1>1
    <2> HIDE DEF ws
    <2> QED
      BY <1>2, <2>1, SumType
  <1>5. WeightedSum(raw, ws) - Lambda * Spread(vs) \in Int
    <2>1. Spread(vs) \in Int
      BY <1>3, SpreadType
    <2> HIDE DEF vs, ws
    <2> QED
      BY <1>4, <2>1, GAEngineAssumption
  <1>6. \/ AggregateScoreTotal(raw) = FatalScore
        \/ AggregateScoreTotal(raw) = Score(WeightedSum(raw, ws) - Lambda * Spread(vs))
    BY DEF AggregateScoreTotal, WeightedSum
  <1>7. Fitness[g] = AggregateScoreTotal(raw)
    BY DEF Fitness, raw
  <1> DEFINE v == WeightedSum(raw, ws) - Lambda * Spread(vs)
  <1>8. v \in Int /\ (AggregateScoreTotal(raw) = FatalScore \/ AggregateScoreTotal(raw) = Score(v))
    BY <1>5, <1>6
  <1> HIDE DEF v
  <1>9. FatalScore \in ScoreType
    BY DEF FatalScore, ScoreType
  <1>10. Score(v) \in ScoreType
    BY <1>8 DEF Score, ScoreType
  <1> QED
    BY <1>7, <1>8, <1>9, <1>10

\* So are all scores a buffer, the convergence state or a report can hold.
LEMMA ScoresType ==
    /\ Scores \subseteq ScoreType /\ NoScore \in ScoreType /\ FatalScore \in ScoreType
    /\ S!Fatal = FatalScore
  BY FitnessType DEF Scores, NoScore, FatalScore, ScoreType, S!Fatal

\* NotWorse is a total preorder.
LEMMA NotWorseOrder ==
    ASSUME NEW s \in ScoreType, NEW t \in ScoreType, NEW u \in ScoreType
    PROVE  /\ S!NotWorse(s, s)
           /\ S!NotWorse(s, t) /\ S!NotWorse(t, u) => S!NotWorse(s, u)
  BY DEF S!NotWorse, ScoreType
---------------------------------------------------------------------------
(* Ranking *)

\* The tables the ranking reads.
Rankable == scores \in [Idx -> ScoreType] /\ pop \in [Idx -> Genes]

\* Before is a strict total order.
LEMMA BeforeOrder ==
    ASSUME Rankable, NEW a \in Idx, NEW b \in Idx, NEW c \in Idx
    PROVE  /\ ~Before(a, a)
           /\ a # b => Before(a, b) \/ Before(b, a)
           /\ Before(a, b) /\ Before(b, c) => Before(a, c)
  <1> DEFINE typed(x) == /\ scores[x].fatal \in BOOLEAN /\ scores[x].value \in Int
                         /\ Fingerprint[pop[x]] \in Int /\ x \in Int
  <1>0. Fingerprint \in [Genes -> Int] /\ Idx \subseteq Int
    BY GAEngineAssumption DEF Idx
  <1>1. typed(a) /\ typed(b) /\ typed(c)
    BY <1>0 DEF Rankable, ScoreType
  <1> QED
    BY <1>1 DEF Before, Beats

\* How many come before an entry.
Place(a) == Cardinality({b \in Idx : Before(b, a)})

\* Those are fewer than the population.
LEMMA PlaceFinite ==
    ASSUME Rankable, NEW a \in Idx
    PROVE  LET T == {b \in Idx : Before(b, a)} IN
           IsFiniteSet(T) /\ Cardinality(T) \in Nat /\ Cardinality(T) < PopSize
  <1> DEFINE T == {b \in Idx : Before(b, a)}
  <1>1. IsFiniteSet(Idx) /\ Cardinality(Idx) = PopSize /\ PopSize \in Nat
    BY GAEngineAssumption, FS_Interval DEF Idx
  <1>2. T \subseteq Idx /\ a \notin T
    BY BeforeOrder
  <1> HIDE DEF T
  <1>3. IsFiniteSet(T) /\ Cardinality(T) \in Nat /\ Cardinality(T) < PopSize
    BY <1>1, <1>2, FS_Subset, FS_CardinalityType
  <1> QED
    BY <1>3 DEF T

\* So that a place is a number below PopSize.
LEMMA PlaceType ==
    ASSUME Rankable, NEW a \in Idx
    PROVE  Place(a) \in Nat /\ Place(a) < PopSize
  BY PlaceFinite DEF Place

\* An earlier entry has the smaller place.
LEMMA PlaceOrder ==
    ASSUME Rankable, NEW a \in Idx, NEW b \in Idx, Before(a, b)
    PROVE  Place(a) < Place(b)
  <1> DEFINE T(x) == {y \in Idx : Before(y, x)}
  <1>1. T(a) \subseteq T(b)
    BY BeforeOrder
  <1>2. a \in T(b) /\ a \notin T(a)
    BY BeforeOrder
  <1>3. IsFiniteSet(T(b)) /\ Cardinality(T(a)) \in Nat /\ Cardinality(T(b)) \in Nat
    BY PlaceFinite
  <1>4. Place(a) = Cardinality(T(a)) /\ Place(b) = Cardinality(T(b))
    BY DEF Place
  <1> HIDE DEF T
  <1>5. Cardinality(T(a)) <= Cardinality(T(b)) /\ Cardinality(T(a)) # Cardinality(T(b))
    BY <1>1, <1>2, <1>3, FS_Subset
  <1> QED
    BY <1>3, <1>4, <1>5

\* Every place is taken, so that Order lists the population, and nobody comes
\* before its first entry.
LEMMA OrderType ==
    ASSUME Rankable
    PROVE  /\ Order \in [Idx -> Idx]
           /\ \A b \in Idx : ~Before(b, Order[1])
  <1> DEFINE f == [a \in Idx |-> Place(a) + 1]
  <1>1. PopSize \in Nat /\ PopSize >= 2 /\ Idx = 1 .. PopSize /\ IsFiniteSet(Idx)
    BY GAEngineAssumption, FS_Interval DEF Idx
  <1>2. f \in [Idx -> Idx]
    <2>1. ASSUME NEW a \in Idx PROVE Place(a) + 1 \in Idx
      BY <1>1, PlaceType
    <2> QED
      BY <2>1
  <1>3. \A a, b \in Idx : f[a] = f[b] => a = b
    <2>1. SUFFICES ASSUME NEW a \in Idx, NEW b \in Idx, Place(a) + 1 = Place(b) + 1 PROVE a = b
      OBVIOUS
    <2>2. Place(a) \in Int /\ Place(b) \in Int
      BY PlaceType
    <2>3. ~(Place(a) < Place(b)) /\ ~(Place(b) < Place(a))
      BY <2>1, <2>2
    <2> QED
      BY <2>3, BeforeOrder, PlaceOrder
  <1>4. f \in Surjection(Idx, Idx)
    <2> HIDE DEF f
    <2>1. f \in Injection(Idx, Idx)
      BY <1>2, <1>3 DEF Injection, IsInjective
    <2> QED
      BY <1>1, <2>1, FS_Injection
  <1>5. ASSUME NEW k \in Idx
        PROVE  Order[k] \in Idx /\ Place(Order[k]) = k - 1
    <2>1. PICK a \in Idx : f[a] = k
      BY <1>4 DEF Surjection
    <2>2. Place(a) = k - 1
      BY <1>1, <2>1, PlaceType
    <2>3. Order[k] = CHOOSE x \in Idx : Place(x) = k - 1
      BY DEF Order, Place
    <2> HIDE DEF f
    <2> QED
      BY <2>2, <2>3
  <1>6. Order \in [Idx -> Idx]
    <2>1. Order = [k \in Idx |-> CHOOSE a \in Idx : Place(a) = k - 1]
      BY DEF Order, Place
    <2> QED
      BY <1>5, <2>1
  <1>7. ASSUME NEW b \in Idx PROVE ~Before(b, Order[1])
    <2>1. 1 \in Idx
      BY <1>1
    <2>2. Order[1] \in Idx /\ Place(Order[1]) = 0
      BY <1>5, <2>1
    <2>3. {x \in Idx : Before(x, Order[1])} = {}
      BY <2>2, PlaceFinite, FS_EmptySet DEF Place
    <2> QED
      BY <2>3
  <1> QED
    BY <1>6, <1>7

\* The first of the ranking is not worse than any other entry.
LEMMA FirstIsBest ==
    ASSUME Rankable
    PROVE  Order[1] \in Idx /\ \A b \in Idx : S!NotWorse(scores[Order[1]], scores[b])
  <1>1. 1 \in Idx
    BY GAEngineAssumption DEF Idx
  <1>2. Order[1] \in Idx /\ \A b \in Idx : ~Before(b, Order[1])
    BY <1>1, OrderType
  <1>3. ASSUME NEW a \in Idx, NEW b \in Idx, ~Before(b, a)
        PROVE  S!NotWorse(scores[a], scores[b])
    <2>1. /\ scores[a].fatal \in BOOLEAN /\ scores[a].value \in Int
          /\ scores[b].fatal \in BOOLEAN /\ scores[b].value \in Int
          /\ Fingerprint[pop[a]] \in Int /\ Fingerprint[pop[b]] \in Int
          /\ a \in Int /\ b \in Int
      BY GAEngineAssumption DEF Rankable, ScoreType, Idx
    <2> QED
      BY <1>3, <2>1 DEF Before, Beats, S!NotWorse
  <1> QED
    BY <1>2, <1>3
---------------------------------------------------------------------------
(* The mark *)

\* Mark is well defined, one entry at a time.
LEMMA MarkRec ==
    ASSUME NEW h \in Seq(ScoreType)
    PROVE  \A i \in 1 .. Len(h) + 1 :
             /\ S!Mark(h)[i] \in ScoreType
             /\ S!Mark(h)[i] = IF i = 1 THEN FatalScore
                               ELSE IF S!Improves(h[i - 1], S!Mark(h)[i - 1]) THEN h[i - 1]
                               ELSE S!Mark(h)[i - 1]
  <1> DEFINE L == Len(h) + 1
             Step(f, i) == IF i = 1 THEN FatalScore
                           ELSE IF S!Improves(h[i - 1], f[i - 1]) THEN h[i - 1] ELSE f[i - 1]
             Good(n) == \E f \in [1 .. n -> ScoreType] : \A i \in 1 .. n : f[i] = Step(f, i)
             it == CHOOSE f : f = [i \in 1 .. L |-> Step(f, i)]
  <1>1. S!Mark(h) = it
    BY ScoresType DEF S!Mark
  <1>2. L \in Nat \ {0} /\ \A i \in 1 .. L : i # 1 => h[i - 1] \in ScoreType
    OBVIOUS
  <1>3. FatalScore \in ScoreType
    BY ScoresType
  <1>4. Good(0)
    <2> DEFINE e == [i \in 1 .. 0 |-> FatalScore]
    <2>1. e \in [1 .. 0 -> ScoreType] /\ \A i \in 1 .. 0 : e[i] = Step(e, i)
      BY <1>3
    <2> HIDE DEF e, Step
    <2> QED
      BY <2>1
  <1>5. ASSUME NEW n \in Nat, n < L, Good(n) PROVE Good(n + 1)
    <2>1. PICK f \in [1 .. n -> ScoreType] : \A i \in 1 .. n : f[i] = Step(f, i)
      BY <1>5
    <2> DEFINE g == [i \in 1 .. n + 1 |-> Step(f, i)]
    <2>2. ASSUME NEW i \in 1 .. n + 1 PROVE Step(f, i) \in ScoreType
      <3>1. CASE i = 1
        BY <1>3, <3>1
      <3>2. CASE i # 1
        <4>1. h[i - 1] \in ScoreType /\ f[i - 1] \in ScoreType
          <5>1. i \in 1 .. L /\ i - 1 \in 1 .. n
            BY <1>2, <1>5, <3>2
          <5> QED
            BY <1>2, <2>1, <3>2, <5>1
        <4> QED
          BY <3>2, <4>1
      <3> QED
        BY <3>1, <3>2
    <2>3. g \in [1 .. n + 1 -> ScoreType]
      <3> HIDE DEF Step
      <3> QED
        BY <2>2
    <2>4. \A i \in 1 .. n : g[i] = f[i]
      <3> HIDE DEF Step
      <3> QED
        BY <2>1
    <2>5. ASSUME NEW i \in 1 .. n + 1 PROVE g[i] = Step(g, i)
      <3>1. g[i] = Step(f, i)
        OBVIOUS
      <3> HIDE DEF g
      <3>2. i # 1 => f[i - 1] = g[i - 1]
        BY <2>4
      <3> QED
        BY <3>1, <3>2
    <2> HIDE DEF g, Step
    <2> QED
      BY <2>3, <2>5
  <1>6. Good(L)
    <2> HIDE DEF Good, L
    <2> DEFINE Bad == {n \in Nat : n <= L /\ ~Good(n)}
    <2>1. Bad = {}
      <3>1. SUFFICES ASSUME Bad # {} PROVE FALSE
        OBVIOUS
      <3>2. PICK m \in Bad : \A n \in Bad : m <= n
        <4>1. Bad \subseteq Nat
          OBVIOUS
        <4> HIDE DEF Bad
        <4> QED
          BY <3>1, <4>1, LeastNat
      <3>3. m \in Nat /\ m # 0 /\ m <= L /\ ~Good(m)
        BY <1>4
      <3>4. m - 1 \in Nat /\ m - 1 < L /\ m - 1 \notin Bad
        BY <1>2, <3>2, <3>3
      <3>5. Good(m - 1)
        BY <1>2, <3>4
      <3>6. Good((m - 1) + 1)
        BY <1>5, <3>4, <3>5
      <3>7. (m - 1) + 1 = m
        BY <3>3
      <3> QED
        BY <3>3, <3>6, <3>7
    <2> QED
      BY <1>2, <2>1
  <1>7. PICK f \in [1 .. L -> ScoreType] : \A i \in 1 .. L : f[i] = Step(f, i)
    BY <1>6
  <1>8. it = [i \in 1 .. L |-> Step(it, i)]
    <2> HIDE DEF Step, L
    <2>1. f = [i \in 1 .. L |-> Step(f, i)]
      BY <1>7
    <2> QED
      BY <2>1
  <1>9. \A i \in 1 .. L : it[i] = f[i]
    <2> HIDE DEF it
    <2> DEFINE Off == {i \in 1 .. L : it[i] # f[i]}
    <2>1. SUFFICES ASSUME Off # {} PROVE FALSE
      OBVIOUS
    <2>2. PICK m \in Off : \A n \in Off : m <= n
      <3>1. Off \subseteq Nat
        OBVIOUS
      <3> HIDE DEF Off
      <3> QED
        BY <2>1, <3>1, LeastNat
    <2>3. m \in 1 .. L /\ (m # 1 => m - 1 \in 1 .. L)
      BY <1>2
    <2>4. m # 1 => it[m - 1] = f[m - 1]
      <3> HIDE DEF L
      <3> QED
        BY <1>2, <2>2, <2>3
    <2>5. Step(it, m) = Step(f, m)
      BY <2>4
    <2> HIDE DEF Step, L
    <2> QED
      BY <1>7, <1>8, <2>2, <2>3, <2>5
  <1>10. ASSUME NEW i \in 1 .. L
         PROVE  it[i] \in ScoreType /\ it[i] = Step(it, i)
    <2> HIDE DEF it, Step, L
    <2> QED
      BY <1>7, <1>8, <1>9
  <1> HIDE DEF it
  <1> QED
    BY <1>1, <1>10

\* A further score leaves the earlier marks as they were.
LEMMA MarkAppend ==
    ASSUME NEW h \in Seq(ScoreType), NEW s \in ScoreType
    PROVE  \A i \in 1 .. Len(h) + 1 : S!Mark(Append(h, s))[i] = S!Mark(h)[i]
  <1> DEFINE j == Append(h, s)  p == S!Mark(h)  q == S!Mark(j)
             Off == {i \in 1 .. Len(h) + 1 : q[i] # p[i]}
  <1>1. /\ j \in Seq(ScoreType) /\ Len(j) = Len(h) + 1 /\ Len(h) \in Nat
        /\ \A i \in 1 .. Len(h) : j[i] = h[i]
    OBVIOUS
  <1>2. SUFFICES ASSUME Off # {} PROVE FALSE
    OBVIOUS
  <1>3. PICK m \in Off : \A n \in Off : m <= n
    <2>1. Off \subseteq Nat
      OBVIOUS
    <2> HIDE DEF Off
    <2> QED
      BY <1>2, <2>1, LeastNat
  <1>4. m \in 1 .. Len(h) + 1 /\ m \in 1 .. Len(j) + 1
    BY <1>1
  <1>5. m # 1 => m - 1 \in 1 .. Len(h) /\ q[m - 1] = p[m - 1] /\ j[m - 1] = h[m - 1]
    <2> HIDE DEF p, q, j
    <2> QED
      BY <1>1, <1>3, <1>4
  <1>6. p[m] = IF m = 1 THEN FatalScore
               ELSE IF S!Improves(h[m - 1], p[m - 1]) THEN h[m - 1] ELSE p[m - 1]
    BY <1>4, MarkRec
  <1>7. q[m] = IF m = 1 THEN FatalScore
               ELSE IF S!Improves(j[m - 1], q[m - 1]) THEN j[m - 1] ELSE q[m - 1]
    <2> HIDE DEF j
    <2> QED
      BY <1>1, <1>4, MarkRec
  <1>8. q[m] # p[m]
    BY <1>3
  <1> HIDE DEF p, q, j
  <1> QED
    BY <1>5, <1>6, <1>7, <1>8

\* convergenceState.
ConvType == [noImprove : Nat, best : ScoreType]

\* observe keeps the convergence state what the reports say.
LEMMA ConvStep ==
    ASSUME NEW h \in Seq(ScoreType), NEW s \in ScoreType, NEW c \in ConvType, ConvFits(c, h),
           NEW d, d = IF S!Improves(s, c.best) THEN [noImprove |-> 0, best |-> s]
                      ELSE [c EXCEPT !.noImprove = @ + 1]
    PROVE  ConvFits(d, Append(h, s))
  <1> DEFINE j == Append(h, s)  p == S!Mark(h)  q == S!Mark(j)  n == Len(h)
  <1>1. /\ j \in Seq(ScoreType) /\ Len(j) = n + 1 /\ n \in Nat /\ j[n + 1] = s
        /\ \A i \in 1 .. n : j[i] = h[i]
    OBVIOUS
  <1>2. \A i \in 1 .. n + 1 : q[i] = p[i]
    BY MarkAppend
  <1>3. q[n + 2] = IF S!Improves(s, q[n + 1]) THEN s ELSE q[n + 1]
    <2> HIDE DEF j, n
    <2>1. \A i \in 1 .. Len(j) + 1 : q[i] = IF i = 1 THEN FatalScore
                         ELSE IF S!Improves(j[i - 1], q[i - 1]) THEN j[i - 1] ELSE q[i - 1]
      BY <1>1, MarkRec
    <2>2. n + 2 \in 1 .. Len(j) + 1 /\ n + 2 # 1 /\ (n + 2) - 1 = n + 1
      BY <1>1
    <2> HIDE DEF q
    <2> QED
      BY <1>1, <2>1, <2>2
  <1>4. /\ c.best = p[n + 1] /\ c.noImprove <= n /\ c.noImprove \in Nat
        /\ \A i \in n - c.noImprove + 1 .. n : ~S!Improves(h[i], p[i])
        /\ c.noImprove < n => S!Improves(h[n - c.noImprove], p[n - c.noImprove])
    BY DEF ConvFits, ConvType
  <1>5. q[n + 1] = c.best
    BY <1>1, <1>2, <1>4
  <1> HIDE DEF j, p, q, n
  <1>6. CASE S!Improves(s, c.best)
    <2>1. d.noImprove = 0 /\ d.best = s
      BY <1>6
    <2>2. d.best = q[(n + 1) + 1]
      BY <1>1, <1>3, <1>5, <1>6, <2>1
    <2>3. S!Improves(j[n + 1], q[n + 1])
      BY <1>1, <1>5, <1>6
    <2>4. (n + 1) - 0 = n + 1 /\ 0 <= n + 1 /\ ((n + 1) - 0) + 1 .. n + 1 = {}
      BY <1>1
    <2> QED
      BY <1>1, <2>1, <2>2, <2>3, <2>4 DEF ConvFits, q, j
  <1>7. CASE ~S!Improves(s, c.best)
    <2> DEFINE k == c.noImprove
    <2>0. c.noImprove \in Nat /\ n \in Nat /\ c.noImprove <= n
      BY <1>1, <1>4
    <2>1. d.noImprove = k + 1 /\ d.best = c.best
      BY <1>7 DEF ConvType
    <2>2. d.best = q[(n + 1) + 1]
      BY <1>1, <1>3, <1>5, <1>7, <2>1
    <2>3. k + 1 <= n + 1
      BY <1>1, <1>4
    <2>4. ASSUME NEW i \in (n + 1) - (k + 1) + 1 .. n + 1 PROVE ~S!Improves(j[i], q[i])
      <3>1. CASE i = n + 1
        BY <1>1, <1>5, <1>7, <3>1
      <3>2. CASE i # n + 1
        <4>1. i \in n - k + 1 .. n /\ i \in 1 .. n /\ i \in 1 .. n + 1
          BY <2>0, <2>4, <3>2 DEF k
        <4> QED
          BY <1>1, <1>2, <1>4, <4>1
      <3> QED
        BY <3>1, <3>2
    <2>5. k + 1 < n + 1 => S!Improves(j[(n + 1) - (k + 1)], q[(n + 1) - (k + 1)])
      <3>1. SUFFICES ASSUME k + 1 < n + 1
                     PROVE  S!Improves(j[(n + 1) - (k + 1)], q[(n + 1) - (k + 1)])
        OBVIOUS
      <3>2. (n + 1) - (k + 1) = n - k /\ n - k \in 1 .. n /\ n - k \in 1 .. n + 1 /\ k < n
        BY <2>0, <3>1 DEF k
      <3> QED
        BY <1>1, <1>2, <1>4, <3>2
    <2> HIDE DEF k
    <2> QED
      BY <1>1, <2>1, <2>2, <2>3, <2>4, <2>5 DEF ConvFits, q, j
  <1> QED
    BY <1>6, <1>7

\* The counter stops the search exactly when the reports show stagnation.
LEMMA StopIsStagnation ==
    ASSUME NEW h \in Seq(ScoreType), NEW c \in ConvType, ConvFits(c, h)
    PROVE  S!Stagnant(h) <=> ShouldStop(c)
  <1> DEFINE n == Len(h)  k == c.noImprove  m == S!Mark(h)  P == Patience
             Bad(i) == S!Improves(h[i], m[i])
  <1>1. n \in Nat /\ k \in Nat /\ P \in Nat
    BY GAEngineAssumption DEF ConvType
  <1>2. k <= n /\ (\A i \in n - k + 1 .. n : ~Bad(i)) /\ (k < n => Bad(n - k))
    BY DEF ConvFits
  <1>3. S!Stagnant(h) <=> P > 0 /\ n >= P /\ \A i \in n - P + 1 .. n : ~Bad(i)
    BY DEF S!Stagnant
  <1>4. ShouldStop(c) <=> P > 0 /\ k >= P
    BY DEF ShouldStop
  <1> HIDE DEF n, k, P, Bad
  <1>5. CASE k >= P
    BY <1>1, <1>2, <1>3, <1>4, <1>5
  <1>6. CASE k < P
    <2>1. n >= P => Bad(n - k) /\ n - k \in n - P + 1 .. n
      BY <1>1, <1>2, <1>6
    <2> QED
      BY <1>1, <1>3, <1>4, <1>6, <2>1
  <1> QED
    BY <1>1, <1>5, <1>6
---------------------------------------------------------------------------
(* The pass *)

\* calcEliteCount leaves at least one elite and at most the whole population.
LEMMA NEliteType == NElite \in 1 .. PopSize
  <1> DEFINE ne == (PopSize * EliteNum) \div EliteDen
  <1>1. PopSize * EliteNum \in Int
    BY GAEngineAssumption
  <1>2. ne \in Int
    <2> DEFINE x == PopSize * EliteNum
    <2>1. x \in Int /\ EliteDen \in Nat \ {0}
      BY <1>1, GAEngineAssumption
    <2> HIDE DEF x
    <2>2. x \div EliteDen \in Int
      BY <2>1
    <2> QED
      BY <2>2 DEF x
  <1>3. NElite = IF ne < 1 THEN 1 ELSE IF ne > PopSize THEN PopSize ELSE ne
    BY DEF NElite
  <1> HIDE DEF ne
  <1> QED
    BY <1>2, <1>3, GAEngineAssumption

\* The entries of a pass.
LEMMA FreshType == Fresh \subseteq Idx /\ IsFiniteSet(Fresh)
  <1>1. Fresh \subseteq Idx
    BY NEliteType, GAEngineAssumption DEF Fresh, Idx
  <1>2. IsFiniteSet(Idx)
    BY GAEngineAssumption, FS_Interval DEF Idx
  <1> QED
    BY <1>1, <1>2, FS_Subset

\* The ranking's tables are well typed.
LEMMA TypeRankable == TypeOK => Rankable
  BY ScoresType DEF TypeOK, Rankable

\* What evaluating entry i does: the buffer and the counters get the gene's own score,
\* or the worker ends with an error.
Evaluates(w, i) ==
    /\ i \in Fresh /\ i \in Idx /\ i < job /\ pop[i] \in Genes /\ phase = "eval"
    /\ UNCHANGED <<phase, main, job, cancelled>>
    /\ \/ /\ scores' = [scores EXCEPT ![i] = Fitness[pop[i]]]
          /\ calls' = [evals |-> calls.evals + 1,
                       fatal |-> calls.fatal + (IF Fitness[pop[i]].fatal THEN 1 ELSE 0)]
          /\ used' = used \cup {w} /\ seen' = seen \cup {pop[i]}
          /\ worker' = [worker EXCEPT ![w] = 0] /\ UNCHANGED <<errs, faults>>
       \/ /\ errs' = TRUE /\ worker' = [worker EXCEPT ![w] = -1]
          /\ faults' = faults \/ (faults' = faults + 1 /\ faults < MaxFaults)
          /\ UNCHANGED <<scores, used, ghosts>>

\* Evaluate does that to the index in hand.
LEMMA EvaluateEffect ==
    ASSUME TypeOK, JobsSound, NEW w \in Workers, Evaluate(w)
    PROVE  Evaluates(w, worker[w])
  <1> DEFINE i == worker[w]
  <1>1. i \in Fresh /\ i \in Idx /\ i < job /\ pop[i] \in Genes /\ phase = "eval"
    BY FreshType DEF Evaluate, JobsSound, Passing, TypeOK
  <1>2. Evaluations(pop[i], w) = {Fitness[pop[i]]}
    BY DEF Evaluations, AfterReset
  <1>3. UNCHANGED <<phase, main, job, cancelled>>
    BY DEF Evaluate
  <1>4. CASE /\ \E s \in Evaluations(pop[i], w) :
                  /\ scores' = [scores EXCEPT ![i] = s]
                  /\ calls' = [evals |-> calls.evals + 1,
                               fatal |-> calls.fatal + (IF s.fatal THEN 1 ELSE 0)]
             /\ used' = AfterReset(w) \cup {w} /\ seen' = seen \cup {pop[i]}
             /\ worker' = [worker EXCEPT ![w] = 0] /\ UNCHANGED <<errs, faults>>
    <2>1. /\ scores' = [scores EXCEPT ![i] = Fitness[pop[i]]]
          /\ calls' = [evals |-> calls.evals + 1, fatal |-> calls.fatal +
                         (IF Fitness[pop[i]].fatal THEN 1 ELSE 0)]
      BY <1>2, <1>4
    <2>2. used' = used \cup {w}
      BY <1>4 DEF AfterReset
    <2> QED
      BY <1>1, <1>3, <1>4, <2>1, <2>2 DEF Evaluates
  <1>5. CASE /\ ValidateForIS(RawEvaluate(pop[i])) => faults < MaxFaults
             /\ faults' = IF ValidateForIS(RawEvaluate(pop[i])) THEN faults + 1 ELSE faults
             /\ errs' = TRUE /\ worker' = [worker EXCEPT ![w] = -1]
             /\ UNCHANGED <<scores, used, ghosts>>
    BY <1>1, <1>3, <1>5 DEF Evaluates
  <1> QED
    BY <1>4, <1>5 DEF Evaluate

\* What a receive does.
Takes(w) ==
    /\ phase = "eval" /\ worker[w] = 0
    /\ UNCHANGED <<phase, main, scores, used, cancelled, ghosts, faults>>
    /\ \/ job = PopSize + 1 /\ worker' = [worker EXCEPT ![w] = -1] /\ UNCHANGED <<job, errs>>
       \/ /\ job \in Fresh /\ job' = job + 1 /\ errs' = TRUE
          /\ worker' = [worker EXCEPT ![w] = -1]
       \/ /\ job \in Fresh /\ job' = job + 1 /\ UNCHANGED errs
          /\ worker' = [worker EXCEPT ![w] = job]

\* Take does that.
LEMMA TakeEffect ==
    ASSUME TypeOK, JobsSound, NEW w \in Workers, Take(w)
    PROVE  Takes(w)
  <1>1. job \in 1 .. PopSize + 1 /\ PopSize \in Nat /\ gen \in 1 .. MaxGenerations
    BY GAEngineAssumption DEF TypeOK
  <1>2. CASE JobReady
    <2>1. job \in Fresh
      BY <1>1, <1>2, NEliteType DEF JobReady, Fresh, Idx, JobsSound, Passing, Take
    <2> QED
      BY <1>2, <2>1 DEF Take, Takes, TypeOK
  <1>3. CASE ~JobReady
    <2>1. job = PopSize + 1
      BY <1>1, <1>3 DEF JobReady
    <2> QED
      BY <1>3, <2>1 DEF Take, Takes
  <1> QED
    BY <1>2, <1>3

\* Start, Cancel and Reevaluate change no buffer and no counter.
LEMMA QuietEffect ==
    ASSUME Start \/ Cancel \/ Reevaluate \/ UNCHANGED vars
    PROVE  /\ UNCHANGED <<gen, pop, conv, progress, stats, scores, job, worker, used, errs, ghosts>>
           /\ Order' = Order /\ Evaluated' = Evaluated /\ Fresh' = Fresh
  <1>1. UNCHANGED <<gen, pop, conv, progress, stats, scores, job, worker, used, errs, ghosts>>
    BY DEF Start, Cancel, Reevaluate, vars, main, ghosts
  <1>2. Order' = Order
    BY <1>1 DEF Order, Before, Beats
  <1>3. Evaluated' = Evaluated /\ Fresh' = Fresh
    BY <1>1 DEF Evaluated, Fresh
  <1> QED
    BY <1>1, <1>2, <1>3

\* The type invariant is inductive with what is known of jobs and generations.
LEMMA TypeStep == IInv /\ [Next]_vars => TypeOK'
  <1> SUFFICES ASSUME IInv, [Next]_vars PROVE TypeOK'
    OBVIOUS
  <1>0. TypeOK /\ GenSound /\ JobsSound /\ ConvSound /\ ScoresMatchGenes
    BY DEF IInv
  <1>00. PopSize \in Nat /\ MaxFaults \in Nat /\ MaxGenerations \in Nat \ {0}
    BY GAEngineAssumption
  <1>01. calls \in [evals : Nat, fatal : Nat] /\ stats \in [evals : Nat, fatal : Nat]
    BY <1>0 DEF TypeOK
  <1>02. /\ faults \in 0 .. MaxFaults /\ gen \in 1 .. MaxGenerations
         /\ conv \in [noImprove : 0 .. MaxGenerations, best : Scores \cup {FatalScore}]
    BY <1>0 DEF TypeOK
  <1> USE DEF main, ghosts
  <1>1. ASSUME Start PROVE TypeOK'
    <2>1. faults' \in 0 .. MaxFaults
      BY <1>0, <1>00, <1>1 DEF TypeOK, Start
    <2> QED
      BY <1>0, <1>1, <2>1 DEF TypeOK, Start
  <1>2. ASSUME Cancel PROVE TypeOK'
    BY <1>0, <1>2 DEF TypeOK, Cancel
  <1>3. ASSUME NEW w \in Workers, Take(w) PROVE TypeOK'
    <2>0. Takes(w)
      BY <1>0, <1>3, TakeEffect
    <2>1. /\ job \in 1 .. PopSize + 1 /\ worker \in [Workers -> -1 .. PopSize] /\ errs \in BOOLEAN
          /\ \A u, v \in Workers : u # v => worker[u] # worker[v] \/ worker[u] \in {-1, 0}
      BY <1>0 DEF TypeOK
    <2>2. job \in Fresh => job \in 1 .. PopSize
      BY FreshType DEF Idx
    <2>3. errs' \in BOOLEAN /\ job' \in 1 .. PopSize + 1
      <3>1. job' = job \/ (job \in Fresh /\ job' = job + 1)
        BY <2>0 DEF Takes
      <3>2. errs' = errs \/ errs' = TRUE
        BY <2>0 DEF Takes
      <3>3. job' \in 1 .. PopSize + 1
        BY <1>00, <2>1, <2>2, <3>1
      <3> QED
        BY <2>1, <3>2, <3>3
    <2>4. \/ worker' = [worker EXCEPT ![w] = -1]
          \/ worker' = [worker EXCEPT ![w] = job] /\ job \in 1 .. PopSize
      BY <2>0, <2>2 DEF Takes
    <2>5. worker' \in [Workers -> -1 .. PopSize]
      BY <1>00, <2>1, <2>4
    <2>6. \A v \in Workers : worker[v] > 0 => worker[v] < job
      BY <1>0, <2>0 DEF JobsSound, Passing, Takes
    <2>7. \A u, v \in Workers : u # v => worker'[u] # worker'[v] \/ worker'[u] \in {-1, 0}
      BY <1>00, <2>1, <2>4, <2>6
    <2>8. UNCHANGED <<phase, main, scores, used, cancelled, ghosts, faults>>
      BY <2>0 DEF Takes
    <2> QED
      BY <1>0, <2>3, <2>5, <2>7, <2>8 DEF TypeOK
  <1>4. ASSUME NEW w \in Workers, Evaluate(w) PROVE TypeOK'
    <2> DEFINE i == worker[w]
    <2>0. Evaluates(w, i)
      BY <1>0, <1>4, EvaluateEffect
    <2> HIDE DEF i
    <2>1. i \in Idx /\ Fitness[pop[i]] \in Scores /\ pop[i] \in Genes
      BY <2>0 DEF Evaluates, Scores
    <2>2. scores' \in [Idx -> Scores \cup {NoScore}]
      <3>1. scores' = [scores EXCEPT ![i] = Fitness[pop[i]]] \/ scores' = scores
        BY <2>0 DEF Evaluates
      <3> QED
        BY <1>0, <2>1, <3>1 DEF TypeOK
    <2>3. calls' \in [evals : Nat, fatal : Nat]
      <3>1. calls.evals + 1 \in Nat /\ calls.fatal + 1 \in Nat /\ calls.fatal + 0 \in Nat
        BY <1>01
      <3>2. \/ calls' = [evals |-> calls.evals + 1, fatal |-> calls.fatal + 1]
            \/ calls' = [evals |-> calls.evals + 1, fatal |-> calls.fatal + 0]
            \/ calls' = calls
        BY <2>0 DEF Evaluates
      <3> QED
        BY <1>01, <3>1, <3>2
    <2>4. /\ worker' \in [Workers -> -1 .. PopSize]
          /\ \A u, v \in Workers : u # v => worker'[u] # worker'[v] \/ worker'[u] \in {-1, 0}
      <3>1. /\ worker \in [Workers -> -1 .. PopSize]
            /\ \A u, v \in Workers : u # v => worker[u] # worker[v] \/ worker[u] \in {-1, 0}
        BY <1>0 DEF TypeOK
      <3>2. worker' = [worker EXCEPT ![w] = 0] \/ worker' = [worker EXCEPT ![w] = -1]
        BY <2>0 DEF Evaluates
      <3> QED
        BY <1>00, <3>1, <3>2
    <2>5. used' \subseteq Workers /\ seen' \subseteq Genes /\ errs' \in BOOLEAN
      BY <1>0, <2>0, <2>1 DEF TypeOK, Evaluates
    <2>6. faults' \in 0 .. MaxFaults
      <3>1. faults' = faults \/ (faults' = faults + 1 /\ faults < MaxFaults)
        BY <2>0 DEF Evaluates
      <3> QED
        BY <1>00, <1>02, <3>1
    <2>7. UNCHANGED <<phase, main, job, cancelled>>
      BY <2>0 DEF Evaluates
    <2> QED
      BY <1>0, <2>2, <2>3, <2>4, <2>5, <2>6, <2>7 DEF TypeOK
  <1>5. ASSUME Join PROVE TypeOK'
    <2>1. Counted \in [evals : Nat, fatal : Nat]
      <3>1. /\ Cardinality(Fresh) \in Nat
            /\ Cardinality({i \in Fresh : scores[i].fatal}) \in Nat
        BY FreshType, FS_Subset, FS_CardinalityType
      <3> QED
        BY <1>01, <3>1 DEF Counted
    <2> QED
      BY <1>0, <1>5, <2>1 DEF TypeOK, Join
  <1>6. ASSUME Rank PROVE TypeOK'
    <2> DEFINE s == scores[Order[1]]
    <2>1. s \in Scores
      BY <1>0, <1>6, TypeRankable, FirstIsBest DEF Rank, ScoresMatchGenes, Scores, TypeOK
    <2>2. progress' \in Seq(Scores) /\ Len(progress') = gen
      BY <1>0, <1>6, <2>1 DEF Rank, TypeOK, GenSound
    <2>3. conv.noImprove + 1 \in 0 .. MaxGenerations
      <3>1. conv.noImprove <= Len(progress) /\ Len(progress) = gen - 1
        BY <1>0, <1>6 DEF Rank, GenSound, ConvSound, ConvFits
      <3> QED
        BY <1>00, <1>02, <3>1
    <2>4. conv' \in [noImprove : 0 .. MaxGenerations, best : Scores \cup {FatalScore}]
      <3>1. conv' = [noImprove |-> 0, best |-> s] \/ conv' = [conv EXCEPT !.noImprove = @ + 1]
        BY <1>6 DEF Rank, Observe
      <3> HIDE DEF s
      <3>2. 0 \in 0 .. MaxGenerations
        BY <1>00
      <3> QED
        <4>1. CASE conv' = [noImprove |-> 0, best |-> s]
          BY <2>1, <3>2, <4>1
        <4>2. CASE conv' = [conv EXCEPT !.noImprove = @ + 1]
          BY <1>02, <2>3, <4>2
        <4> QED
          BY <3>1, <4>1, <4>2
    <2>5. UNCHANGED <<gen, pop, stats, result, scores, job, worker, used, errs, cancelled, calls,
                      seen, faults>> /\ phase' \in {"reeval", "breed"}
      BY <1>6 DEF Rank
    <2> QED
      BY <1>0, <2>2, <2>4, <2>5 DEF TypeOK
  <1>7. ASSUME Breed PROVE TypeOK'
    <2>1. Order \in [Idx -> Idx]
      BY <1>0, TypeRankable, OrderType
    <2>2. pop' \in [Idx -> Genes]
      <3>1. PICK child \in Offspring :
              pop' = [i \in Idx |-> IF i <= NElite THEN pop[Order[i]] ELSE child[i]]
        BY <1>7 DEF Breed
      <3>2. ASSUME NEW i \in Idx, ~(i <= NElite) PROVE child[i] \in Genes
        BY <3>2, NEliteType DEF Offspring, Idx
      <3> QED
        BY <1>0, <2>1, <3>1, <3>2 DEF TypeOK
    <2>3. scores' \in [Idx -> Scores \cup {NoScore}]
      BY <1>0, <1>7, <2>1 DEF Breed, CarryScores, TypeOK
    <2>4. job' \in 1 .. PopSize + 1 /\ worker' = [w \in Workers |-> 0]
      BY <1>7, NEliteType, GAEngineAssumption DEF Breed
    <2>5. gen' \in 1 .. MaxGenerations
      BY <1>0, <1>7, GAEngineAssumption DEF Breed, GenSound, TypeOK
    <2>6. /\ worker' \in [Workers -> -1 .. PopSize]
          /\ \A u, v \in Workers : u # v => worker'[u] # worker'[v] \/ worker'[u] \in {-1, 0}
      BY <2>4, GAEngineAssumption
    <2>7. UNCHANGED <<conv, progress, stats, result, used, errs, cancelled, calls, seen, faults>>
          /\ phase' = "eval"
      BY <1>7 DEF Breed
    <2> QED
      BY <1>0, <2>2, <2>3, <2>4, <2>5, <2>6, <2>7 DEF TypeOK
  <1>8. ASSUME Reevaluate PROVE TypeOK'
    <2>1. Len(result') <= 1
      <3>1. CASE result' = result
        BY <1>0, <3>1 DEF TypeOK
      <3>2. CASE \E r : result' = <<r>>
        BY <3>2
      <3> QED
        BY <1>8, <3>1, <3>2 DEF Reevaluate
    <2>2. faults' \in 0 .. MaxFaults /\ phase' \in {"done", "failed"}
      BY <1>0, <1>00, <1>8 DEF TypeOK, Reevaluate
    <2>3. UNCHANGED <<gen, pop, conv, progress, stats, scores, job, worker, used, errs, cancelled,
                      ghosts>>
      BY <1>8 DEF Reevaluate
    <2> QED
      BY <1>0, <2>1, <2>2, <2>3 DEF TypeOK
  <1>9. CASE UNCHANGED vars
    BY <1>0, <1>9 DEF vars, TypeOK
  <1> QED
    BY <1>1, <1>2, <1>3, <1>4, <1>5, <1>6, <1>7, <1>8, <1>9 DEF Next, MainStep, WorkerStep

\* Each ranked generation reports one score.
LEMMA GenStep == IInv /\ [Next]_vars => GenSound'
  <1> SUFFICES ASSUME IInv, [Next]_vars PROVE GenSound'
    OBVIOUS
  <1>0. TypeOK /\ GenSound /\ JobsSound
    BY DEF IInv
  <1>00. gen \in 1 .. MaxGenerations /\ MaxGenerations \in Nat \ {0} /\ Len(progress) \in Nat
    BY <1>0, GAEngineAssumption DEF TypeOK
  <1> USE DEF main, ghosts
  <1>1. ASSUME Start PROVE GenSound'
    BY <1>0, <1>1 DEF GenSound, Start
  <1>2. ASSUME Cancel PROVE GenSound'
    BY <1>0, <1>2 DEF GenSound, Cancel
  <1>3. ASSUME NEW w \in Workers, WorkerStep(w) PROVE GenSound'
    BY <1>0, <1>3 DEF GenSound, WorkerStep, Take, Evaluate
  <1>4. ASSUME Join PROVE GenSound'
    BY <1>0, <1>4 DEF GenSound, Join
  <1>5. ASSUME Rank PROVE GenSound'
    <2>1. /\ Len(progress') = Len(progress) + 1 /\ Len(progress) = gen - 1 /\ gen' = gen
          /\ phase' = "reeval" \/ (phase' = "breed" /\ gen # MaxGenerations)
      BY <1>0, <1>5 DEF GenSound, Rank, TypeOK
    <2> QED
      BY <1>00, <2>1 DEF GenSound
  <1>6. ASSUME Breed PROVE GenSound'
    BY <1>0, <1>00, <1>6 DEF GenSound, Breed
  <1>7. ASSUME Reevaluate PROVE GenSound'
    BY <1>0, <1>7 DEF GenSound, Reevaluate
  <1>8. CASE UNCHANGED vars
    BY <1>0, <1>8 DEF vars, GenSound
  <1> QED
    BY <1>1, <1>2, <1>3, <1>4, <1>5, <1>6, <1>7, <1>8 DEF Next, MainStep

\* Indices are handed out once each.
LEMMA JobsStep == IInv /\ [Next]_vars => JobsSound'
  <1> SUFFICES ASSUME IInv, [Next]_vars PROVE JobsSound'
    OBVIOUS
  <1>0. TypeOK /\ JobsSound /\ BufferSound
    BY DEF IInv
  <1>00. /\ gen \in 1 .. MaxGenerations /\ MaxGenerations \in Nat \ {0} /\ PopSize \in Nat
         /\ job \in 1 .. PopSize + 1 /\ worker \in [Workers -> -1 .. PopSize]
    BY <1>0, GAEngineAssumption DEF TypeOK
  <1> USE DEF main, ghosts
  <1>1. ASSUME Start \/ Cancel \/ Reevaluate \/ UNCHANGED vars PROVE JobsSound'
    <2>1. /\ UNCHANGED <<gen, job, worker, errs>> /\ Fresh' = Fresh
          /\ phase' = "start" => phase = "start"
          /\ Passing' => Passing
      BY <1>1, QuietEffect DEF Start, Cancel, Reevaluate, Passing, vars
    <2> QED
      BY <1>0, <2>1 DEF JobsSound, JobReady
  <1>2. ASSUME NEW w \in Workers, Take(w) PROVE JobsSound'
    <2>0. Takes(w) /\ Passing
      BY <1>0, <1>2, TakeEffect DEF Passing, Take
    <2>1. /\ gen' = gen /\ Fresh' = Fresh /\ Passing' /\ phase' # "start"
          /\ job' = job \/ job' = job + 1
      BY <2>0 DEF Takes, Fresh, Passing
    <2>2. gen' > 1 => job' > NElite
      BY <1>0, <1>00, <2>0, <2>1, NEliteType DEF JobsSound
    <2>3. ASSUME NEW v \in Workers, worker'[v] > 0 PROVE worker'[v] \in Fresh /\ worker'[v] < job'
      <3>1. CASE v = w
        <4>1. worker'[w] = job /\ job \in Fresh /\ job' = job + 1
          BY <1>00, <2>0, <2>3, <3>1 DEF Takes
        <4> QED
          BY <1>00, <3>1, <4>1
      <3>2. CASE v # w
        <4>1. worker'[v] = worker[v]
          BY <1>00, <2>0, <3>2 DEF Takes
        <4>2. worker[v] \in Fresh /\ worker[v] < job
          BY <1>0, <2>0, <2>3, <4>1 DEF JobsSound
        <4> QED
          BY <1>00, <2>1, <4>1, <4>2
      <3> QED
        BY <3>1, <3>2
    <2>4. ASSUME NEW v \in Workers, ~errs', worker'[v] = -1 PROVE ~JobReady'
      <3>1. CASE v = w
        <4>1. job = PopSize + 1 /\ job' = job
          BY <1>00, <2>0, <2>4, <3>1 DEF Takes
        <4> QED
          BY <1>00, <4>1 DEF JobReady
      <3>2. CASE v # w
        <4>1. worker[v] = -1 /\ ~errs
          BY <1>00, <2>0, <2>4, <3>2 DEF Takes
        <4>2. job > PopSize
          BY <1>0, <1>00, <2>0, <4>1 DEF JobsSound, JobReady
        <4> QED
          BY <1>00, <2>1, <4>2 DEF JobReady
      <3> QED
        BY <3>1, <3>2
    <2> QED
      BY <2>1, <2>2, <2>3, <2>4 DEF JobsSound
  <1>3. ASSUME NEW w \in Workers, Evaluate(w) PROVE JobsSound'
    <2> DEFINE i == worker[w]
    <2>0. Evaluates(w, i)
      BY <1>0, <1>3, EvaluateEffect
    <2>1. /\ UNCHANGED <<phase, gen, job>> /\ Fresh' = Fresh /\ Passing' /\ phase' # "start"
          /\ \/ worker' = [worker EXCEPT ![w] = 0] /\ errs' = errs
             \/ worker' = [worker EXCEPT ![w] = -1] /\ errs' = TRUE
      BY <2>0 DEF Evaluates, Fresh, Passing
    <2> QED
      BY <1>0, <1>00, <2>1 DEF JobsSound, JobReady, Passing
  <1>4. ASSUME Join \/ Rank PROVE JobsSound'
    <2>1. ~Passing'
      BY <1>4 DEF Join, Rank, Passing
    <2> QED
      BY <2>1 DEF JobsSound, Passing
  <1>5. ASSUME Breed PROVE JobsSound'
    <2>1. phase' = "eval" /\ job' = NElite + 1 /\ worker' = [w \in Workers |-> 0]
      BY <1>5 DEF Breed
    <2> QED
      BY <2>1, NEliteType, GAEngineAssumption DEF JobsSound
  <1> QED
    BY <1>1, <1>2, <1>3, <1>4, <1>5 DEF Next, MainStep, WorkerStep

\* How the set of evaluated entries moves: only a successful evaluation adds to it,
\* and a new pass starts with none.
LEMMA EvaluatedStep ==
    ASSUME IInv
    PROVE  /\ Evaluated \subseteq Fresh /\ IsFiniteSet(Evaluated)
           /\ \A w \in Workers : Take(w) /\ ~errs' => Evaluated' = Evaluated
           /\ \A w \in Workers : Evaluate(w) /\ ~errs' =>
                worker[w] \notin Evaluated /\ Evaluated' = Evaluated \cup {worker[w]}
           /\ Breed => Evaluated' = {}
           /\ Join /\ ~errs => Evaluated = Fresh
  <1>0. TypeOK /\ JobsSound
    BY DEF IInv
  <1>00. /\ gen \in 1 .. MaxGenerations /\ MaxGenerations \in Nat \ {0} /\ PopSize \in Nat
         /\ job \in 1 .. PopSize + 1 /\ worker \in [Workers -> -1 .. PopSize]
         /\ Fresh \subseteq 1 .. PopSize
    BY <1>0, GAEngineAssumption, FreshType DEF TypeOK, Idx
  <1>1. Evaluated \subseteq Fresh /\ IsFiniteSet(Evaluated)
    <2>1. Evaluated \subseteq Fresh
      BY DEF Evaluated
    <2> QED
      BY <2>1, FreshType, FS_Subset
  <1>2. ASSUME NEW w \in Workers, Take(w), ~errs' PROVE Evaluated' = Evaluated
    <2>0. Takes(w)
      BY <1>0, <1>2, TakeEffect
    <2>1. Fresh' = Fresh
      BY <2>0 DEF Takes, Fresh, main
    <2>2. worker[w] = 0 /\ \/ job' = job /\ worker' = [worker EXCEPT ![w] = -1]
                           \/ job' = job + 1 /\ worker' = [worker EXCEPT ![w] = job]
      BY <1>2, <2>0 DEF Takes
    <2>3. ASSUME NEW i \in Fresh
          PROVE  (i < job' /\ \A v \in Workers : worker'[v] # i)
                   <=> (i < job /\ \A v \in Workers : worker[v] # i)
      BY <1>00, <2>2
    <2> QED
      BY <2>1, <2>3 DEF Evaluated
  <1>3. ASSUME NEW w \in Workers, Evaluate(w), ~errs'
        PROVE  worker[w] \notin Evaluated /\ Evaluated' = Evaluated \cup {worker[w]}
    <2>0. Evaluates(w, worker[w])
      BY <1>0, <1>3, EvaluateEffect
    <2>1. Fresh' = Fresh /\ job' = job
      BY <2>0 DEF Evaluates, Fresh, main
    <2>2. /\ worker[w] \in Fresh /\ worker[w] < job
          /\ worker' = [worker EXCEPT ![w] = 0]
      BY <1>3, <2>0 DEF Evaluates
    <2>3. \A v \in Workers : v # w => worker[v] # worker[w]
      <3>1. \A u, v \in Workers : u # v => worker[u] # worker[v] \/ worker[u] \in {-1, 0}
        BY <1>0 DEF TypeOK
      <3>2. worker[w] \notin {-1, 0}
        BY <1>00, <2>2
      <3> QED
        BY <3>1, <3>2
    <2>4. ASSUME NEW i \in Fresh
          PROVE  (\A v \in Workers : worker'[v] # i)
                   <=> (i = worker[w] \/ \A v \in Workers : worker[v] # i)
      BY <1>00, <2>2, <2>3
    <2> QED
      BY <2>1, <2>2, <2>4 DEF Evaluated
  <1>4. ASSUME Breed PROVE Evaluated' = {}
    <2>1. gen' = gen + 1 /\ job' = NElite + 1
      BY <1>4 DEF Breed
    <2>2. Fresh' = NElite + 1 .. PopSize
      BY <1>00, <2>1 DEF Fresh
    <2>3. NElite \in Int
      BY NEliteType
    <2> QED
      BY <1>00, <2>1, <2>2, <2>3 DEF Evaluated
  <1>5. ASSUME Join, ~errs PROVE Evaluated = Fresh
    <2>1. \A w \in Workers : worker[w] = -1
      BY <1>5 DEF Join
    <2>2. ~JobReady
      BY <1>0, <1>5, <2>1, GAEngineAssumption DEF JobsSound, Passing, Join
    <2>3. \A i \in Fresh : i < job /\ i # -1
      BY <1>00, <2>2 DEF JobReady
    <2> QED
      BY <2>1, <2>3 DEF Evaluated
  <1> QED
    BY <1>1, <1>2, <1>3, <1>4, <1>5

\* The buffer holds true scores wherever it is read.
LEMMA BufferStep == IInv /\ [Next]_vars => BufferSound' /\ ScoresMatchGenes'
  <1> DEFINE Goal == BufferSound' /\ ScoresMatchGenes'
             True(i) == scores[i] = Fitness[pop[i]]
  <1> SUFFICES ASSUME IInv, [Next]_vars PROVE Goal
    OBVIOUS
  <1>0. TypeOK /\ JobsSound /\ BufferSound /\ ScoresMatchGenes
    BY DEF IInv
  <1>00. scores \in [Idx -> Scores \cup {NoScore}] /\ pop \in [Idx -> Genes] /\ errs \in BOOLEAN
    BY <1>0 DEF TypeOK
  <1> USE DEF main, ghosts
  <1>1. ASSUME Start \/ Cancel \/ Reevaluate \/ UNCHANGED vars PROVE Goal
    <2>1. /\ UNCHANGED <<pop, scores, errs>> /\ Fresh' = Fresh /\ Evaluated' = Evaluated
          /\ Passing' => Passing
          /\ Complete' => Complete
          /\ phase' \in {"rank", "breed", "reeval", "done"} =>
               phase \in {"rank", "breed", "reeval", "done"}
      BY <1>1, QuietEffect DEF Start, Cancel, Reevaluate, Passing, Complete, vars
    <2> QED
      BY <1>0, <2>1 DEF BufferSound, ScoresMatchGenes
  <1>2. ASSUME NEW w \in Workers, Take(w) PROVE Goal
    <2>0. Takes(w)
      BY <1>0, <1>2, TakeEffect
    <2>1. /\ UNCHANGED <<phase, pop, scores>> /\ Fresh' = Fresh /\ phase = "eval"
          /\ ~errs' => ~errs /\ Evaluated' = Evaluated
      BY <1>2, <2>0, EvaluatedStep DEF Takes, Fresh
    <2> QED
      BY <1>0, <2>1 DEF BufferSound, ScoresMatchGenes, Passing, Complete
  <1>3. ASSUME NEW w \in Workers, Evaluate(w) PROVE Goal
    <2> DEFINE i == worker[w]
    <2>0. Evaluates(w, i)
      BY <1>0, <1>3, EvaluateEffect
    <2>1. UNCHANGED <<phase, pop>> /\ Fresh' = Fresh /\ phase = "eval"
      BY <2>0 DEF Evaluates, Fresh
    <2>2. CASE errs'
      BY <2>1, <2>2 DEF BufferSound, ScoresMatchGenes, Complete
    <2>3. CASE ~errs'
      <3>1. Evaluated' = Evaluated \cup {i} /\ i \in Fresh
        BY <1>3, <2>0, <2>3, EvaluatedStep DEF Evaluates
      <3>2. /\ scores' = [scores EXCEPT ![i] = Fitness[pop[i]]] /\ ~errs
            /\ i \in Idx
        BY <2>0, <2>3 DEF Evaluates
      <3>3. scores'[i] = Fitness[pop[i]] /\ \A j \in Idx : j # i => scores'[j] = scores[j]
        BY <1>00, <3>2
      <3>4. \A j \in Idx : j \in Evaluated \/ j \notin Fresh => True(j)
        BY <1>0, <2>1, <3>2 DEF BufferSound, Passing
      <3>5. \A j \in Idx : j \in Evaluated' \/ j \notin Fresh' => scores'[j] = Fitness[pop'[j]]
        BY <2>1, <3>1, <3>3, <3>4
      <3> QED
        BY <2>1, <3>5 DEF BufferSound, ScoresMatchGenes, Complete
    <2> QED
      BY <2>2, <2>3
  <1>4. ASSUME Join PROVE Goal
    <2>1. UNCHANGED <<pop, scores, errs>> /\ phase = "eval"
      BY <1>4 DEF Join
    <2>2. CASE errs
      BY <1>4, <2>2 DEF Join, BufferSound, ScoresMatchGenes, Passing, Complete
    <2>3. CASE ~errs
      <3>1. Evaluated = Fresh
        BY <1>4, <2>3, EvaluatedStep
      <3>2. \A j \in Idx : True(j)
        BY <1>0, <2>1, <2>3, <3>1 DEF BufferSound, Passing
      <3> QED
        BY <1>4, <2>1, <2>3, <3>2 DEF Join, BufferSound, ScoresMatchGenes, Passing, Complete
    <2> QED
      BY <2>2, <2>3
  <1>5. ASSUME Rank PROVE Goal
    BY <1>0, <1>5 DEF Rank, BufferSound, ScoresMatchGenes, Passing, Complete
  <1>6. ASSUME Breed PROVE Goal
    <2>1. Evaluated' = {} /\ Order \in [Idx -> Idx]
      BY <1>0, <1>6, EvaluatedStep, TypeRankable, OrderType
    <2>2. gen' # 1 /\ NElite \in Int
      BY <1>0, <1>6, NEliteType DEF Breed, TypeOK
    <2>3. PICK child \in Offspring :
            pop' = [i \in Idx |-> IF i <= NElite THEN pop[Order[i]] ELSE child[i]]
      BY <1>6 DEF Breed
    <2>4. ASSUME NEW i \in Idx, i \notin Fresh' PROVE scores'[i] = Fitness[pop'[i]]
      <3>1. i <= NElite
        BY <2>2, <2>4, GAEngineAssumption DEF Fresh, Idx
      <3>2. scores'[i] = scores[Order[i]] /\ pop'[i] = pop[Order[i]]
        BY <1>6, <2>3, <3>1 DEF Breed, CarryScores
      <3> QED
        BY <1>0, <1>6, <2>1, <3>2 DEF ScoresMatchGenes, Breed
    <2>5. phase' = "eval" /\ errs' = errs
      BY <1>6 DEF Breed
    <2> QED
      BY <2>1, <2>4, <2>5 DEF BufferSound, ScoresMatchGenes, Complete
  <1> HIDE DEF Goal
  <1> QED
    BY <1>1, <1>2, <1>3, <1>4, <1>5, <1>6 DEF Next, MainStep, WorkerStep

\* SearchStats follow the evaluations.
LEMMA CountStep == IInv /\ [Next]_vars => CountSound'
  <1> SUFFICES ASSUME IInv, [Next]_vars PROVE CountSound'
    OBVIOUS
  <1> DEFINE Fatal == {i \in Evaluated : scores[i].fatal}
  <1>0. TypeOK /\ JobsSound /\ BufferSound /\ CountSound
    BY DEF IInv
  <1>00. /\ scores \in [Idx -> Scores \cup {NoScore}] /\ pop \in [Idx -> Genes]
         /\ calls \in [evals : Nat, fatal : Nat] /\ stats \in [evals : Nat, fatal : Nat]
         /\ Evaluated \subseteq Idx /\ IsFiniteSet(Evaluated)
    BY <1>0, EvaluatedStep, FreshType DEF TypeOK
  <1> USE DEF main, ghosts
  <1>1. ASSUME Start \/ Cancel \/ Reevaluate \/ UNCHANGED vars PROVE CountSound'
    <2>1. /\ UNCHANGED <<scores, errs, stats, calls>> /\ Evaluated' = Evaluated
          /\ Passing' => Passing
          /\ Complete' => Complete
      BY <1>1, QuietEffect DEF Start, Cancel, Reevaluate, Passing, Complete, vars
    <2> QED
      BY <1>0, <2>1 DEF CountSound
  <1>2. ASSUME NEW w \in Workers, Take(w) PROVE CountSound'
    <2>0. Takes(w)
      BY <1>0, <1>2, TakeEffect
    <2>1. /\ UNCHANGED <<phase, scores, stats, calls>> /\ phase = "eval"
          /\ ~errs' => ~errs /\ Evaluated' = Evaluated
      BY <1>2, <2>0, EvaluatedStep DEF Takes
    <2> QED
      BY <1>0, <2>1 DEF CountSound, Passing, Complete
  <1>3. ASSUME NEW w \in Workers, Evaluate(w) PROVE CountSound'
    <2> DEFINE i == worker[w]  f == Fitness[pop[i]].fatal
    <2>0. Evaluates(w, i)
      BY <1>0, <1>3, EvaluateEffect
    <2>1. phase' = "eval" /\ stats' = stats /\ phase = "eval"
      BY <2>0 DEF Evaluates
    <2>2. CASE errs'
      BY <2>1, <2>2 DEF CountSound, Complete
    <2>3. CASE ~errs'
      <3>1. Evaluated' = Evaluated \cup {i} /\ i \notin Evaluated /\ i \in Idx
        BY <1>3, <2>0, <2>3, EvaluatedStep DEF Evaluates
      <3>2. /\ scores' = [scores EXCEPT ![i] = Fitness[pop[i]]] /\ ~errs
            /\ calls' = [evals |-> calls.evals + 1, fatal |-> calls.fatal + (IF f THEN 1 ELSE 0)]
        BY <2>0, <2>3 DEF Evaluates
      <3>3. scores'[i] = Fitness[pop[i]] /\ \A j \in Idx : j # i => scores'[j] = scores[j]
        BY <1>00, <3>1, <3>2
      <3>4. Fatal' = IF f THEN Fatal \cup {i} ELSE Fatal
        BY <1>00, <3>1, <3>3
      <3>5. i \notin Fatal /\ IsFiniteSet(Fatal) /\ Cardinality(Fatal) \in Nat
        BY <1>00, <3>1, FS_Subset, FS_CardinalityType
      <3>6. Cardinality(Evaluated') = Cardinality(Evaluated) + 1 /\ Cardinality(Evaluated) \in Nat
        BY <1>00, <3>1, FS_AddElement, FS_CardinalityType
      <3> HIDE DEF f, Fatal
      <3>7. Cardinality(Fatal') = Cardinality(Fatal) + (IF f THEN 1 ELSE 0)
        <4>1. CASE f
          BY <3>4, <3>5, <4>1, FS_AddElement
        <4>2. CASE ~f
          BY <3>4, <3>5, <4>2
        <4> QED
          BY <4>1, <4>2
      <3>8. calls.evals = stats.evals + Cardinality(Evaluated)
            /\ calls.fatal = stats.fatal + Cardinality(Fatal)
        BY <1>0, <2>1, <3>2 DEF CountSound, Passing, Fatal
      <3>9. /\ calls'.evals = stats'.evals + Cardinality(Evaluated')
            /\ calls'.fatal = stats'.fatal + Cardinality(Fatal')
        BY <1>00, <2>1, <3>2, <3>5, <3>6, <3>7, <3>8
      <3> QED
        BY <2>1, <3>9 DEF CountSound, Complete, Fatal
    <2> QED
      BY <2>2, <2>3
  <1>4. ASSUME Join PROVE CountSound'
    <2>1. UNCHANGED <<scores, calls, errs>> /\ phase = "eval"
      BY <1>4 DEF Join
    <2>2. CASE errs
      BY <1>4, <2>2 DEF Join, CountSound, Passing, Complete
    <2>3. CASE ~errs
      <3>1. Evaluated = Fresh
        BY <1>4, <2>3, EvaluatedStep
      <3>2. /\ calls.evals = stats.evals + Cardinality(Fresh)
            /\ calls.fatal = stats.fatal + Cardinality({i \in Fresh : scores[i].fatal})
        BY <1>0, <2>1, <2>3, <3>1 DEF CountSound, Passing
      <3>3. Counted = calls
        <4>1. calls = [evals |-> calls.evals, fatal |-> calls.fatal]
          BY <1>00
        <4> QED
          BY <3>2, <4>1 DEF Counted
      <3> QED
        BY <1>4, <2>3, <3>3 DEF Join, CountSound, Passing
    <2> QED
      BY <2>2, <2>3
  <1>5. ASSUME Rank PROVE CountSound'
    BY <1>0, <1>5 DEF Rank, CountSound, Passing, Complete
  <1>6. ASSUME Breed PROVE CountSound'
    <2>1. Evaluated' = {} /\ phase' = "eval" /\ UNCHANGED <<stats, calls>>
      BY <1>6, EvaluatedStep DEF Breed
    <2>2. stats = calls
      BY <1>0, <1>6 DEF CountSound, Complete, Breed
    <2>3. {i \in Evaluated' : scores'[i].fatal} = {} /\ Cardinality({}) = 0
      BY <2>1, FS_EmptySet
    <2>4. stats.evals = stats.evals + 0 /\ stats.fatal = stats.fatal + 0
      BY <1>00
    <2> QED
      BY <2>1, <2>2, <2>3, <2>4 DEF CountSound, Complete
  <1> QED
    BY <1>1, <1>2, <1>3, <1>4, <1>5, <1>6 DEF Next, MainStep, WorkerStep
---------------------------------------------------------------------------
(* The reports *)

\* The score ranked first is the reported one, and the first elite's.
LEMMA BestStep == IInv /\ [Next]_vars => BestSound'
  <1> SUFFICES ASSUME IInv, [Next]_vars PROVE BestSound'
    OBVIOUS
  <1>0. TypeOK /\ GenSound /\ JobsSound /\ BestSound
    BY DEF IInv
  <1>00. /\ scores \in [Idx -> Scores \cup {NoScore}] /\ progress \in Seq(Scores)
         /\ NElite \in 1 .. PopSize /\ PopSize \in Nat /\ gen \in Nat
    BY <1>0, NEliteType, GAEngineAssumption DEF TypeOK
  <1> USE DEF main, ghosts
  <1>1. ASSUME Start \/ Cancel \/ Reevaluate \/ UNCHANGED vars PROVE BestSound'
    <2>1. /\ UNCHANGED <<scores, progress>> /\ Order' = Order
          /\ phase' \in {"start", "eval", "rank"} => phase \in {"start", "eval", "rank"}
          /\ phase' \in {"breed", "reeval", "done"} => phase \in {"breed", "reeval", "done"}
      BY <1>1, QuietEffect DEF Start, Cancel, Reevaluate, vars
    <2> QED
      BY <1>0, <2>1 DEF BestSound
  <1>2. ASSUME NEW w \in Workers, Take(w) PROVE BestSound'
    BY <1>0, <1>2 DEF Take, BestSound
  <1>3. ASSUME NEW w \in Workers, Evaluate(w) PROVE BestSound'
    <2> DEFINE i == worker[w]
    <2>0. Evaluates(w, i)
      BY <1>0, <1>3, EvaluateEffect
    <2>1. /\ phase' = "eval" /\ phase = "eval" /\ progress' = progress /\ i \in Fresh
          /\ scores' = scores \/ scores' = [scores EXCEPT ![i] = Fitness[pop[i]]]
      BY <2>0 DEF Evaluates
    <2>2. progress # <<>> => gen # 1
      BY <1>0, <1>00, <2>1 DEF GenSound
    <2>3. progress # <<>> => i # 1
      BY <1>00, <2>1, <2>2 DEF Fresh
    <2>4. progress # <<>> => scores'[1] = scores[1]
      BY <1>00, <2>1, <2>3 DEF Idx
    <2> QED
      BY <1>0, <2>1, <2>4 DEF BestSound
  <1>4. ASSUME Join PROVE BestSound'
    BY <1>0, <1>4 DEF Join, BestSound
  <1>5. ASSUME Rank PROVE BestSound'
    <2>1. /\ progress' = Append(progress, scores[Order[1]]) /\ UNCHANGED <<scores, pop>>
          /\ phase' \in {"breed", "reeval"}
      BY <1>5 DEF Rank
    <2>2. Order' = Order
      BY <2>1 DEF Order, Before, Beats
    <2>3. Len(progress') = Len(progress) + 1 /\ progress'[Len(progress) + 1] = scores[Order[1]]
      BY <1>00, <2>1
    <2> QED
      BY <2>1, <2>2, <2>3 DEF BestSound
  <1>6. ASSUME Breed PROVE BestSound'
    <2>1. scores' = CarryScores /\ progress' = progress /\ phase' = "eval" /\ phase = "breed"
      BY <1>6 DEF Breed
    <2>2. scores'[1] = scores[Order[1]]
      BY <1>00, <2>1 DEF CarryScores, Idx
    <2> QED
      BY <1>0, <2>1, <2>2 DEF BestSound
  <1> QED
    BY <1>1, <1>2, <1>3, <1>4, <1>5, <1>6 DEF Next, MainStep, WorkerStep

\* The score ranked first is one of the genes', not worse than any entry's nor
\* than the last one reported.
LEMMA RankedFirst ==
    ASSUME IInv, phase = "rank"
    PROVE  /\ Order[1] \in Idx /\ scores[Order[1]] \in Scores
           /\ \A i \in Idx : S!NotWorse(scores[Order[1]], Fitness[pop[i]])
           /\ progress # <<>> => S!NotWorse(scores[Order[1]], progress[Len(progress)])
  <1>0. TypeOK /\ ScoresMatchGenes /\ BestSound
    BY DEF IInv
  <1>1. Order[1] \in Idx /\ \A b \in Idx : S!NotWorse(scores[Order[1]], scores[b])
    BY <1>0, TypeRankable, FirstIsBest
  <1>2. \A i \in Idx : scores[i] = Fitness[pop[i]] /\ pop[i] \in Genes
    BY <1>0 DEF ScoresMatchGenes, TypeOK
  <1>3. progress # <<>> => scores[1] = progress[Len(progress)]
    BY <1>0 DEF BestSound
  <1>4. 1 \in Idx
    BY GAEngineAssumption DEF Idx
  <1> HIDE DEF IInv
  <1> QED
    BY <1>1, <1>2, <1>3, <1>4 DEF Scores

\* No gene seen is better than the last report.
LEMMA SeenStep == IInv /\ [Next]_vars => SeenSound'
  <1> SUFFICES ASSUME IInv, [Next]_vars PROVE SeenSound'
    OBVIOUS
  <1>0. TypeOK /\ GenSound /\ JobsSound /\ SeenSound
    BY DEF IInv
  <1>00. progress \in Seq(Scores) /\ seen \subseteq Genes /\ gen \in Nat \ {0}
    BY <1>0 DEF TypeOK
  <1> USE DEF main, ghosts
  <1>1. ASSUME Start \/ Cancel \/ Reevaluate \/ UNCHANGED vars PROVE SeenSound'
    <2>1. /\ UNCHANGED <<pop, progress, seen>>
          /\ phase' \in {"start", "eval", "rank"} => phase \in {"start", "eval", "rank"}
          /\ phase' \in {"breed", "reeval", "done"} => phase \in {"breed", "reeval", "done"}
      BY <1>1, QuietEffect DEF Start, Cancel, Reevaluate, vars
    <2> QED
      BY <1>0, <2>1 DEF SeenSound
  <1>2. ASSUME NEW w \in Workers, Take(w) PROVE SeenSound'
    BY <1>0, <1>2 DEF Take, SeenSound
  <1>3. ASSUME NEW w \in Workers, Evaluate(w) PROVE SeenSound'
    <2> DEFINE i == worker[w]
    <2>0. Evaluates(w, i)
      BY <1>0, <1>3, EvaluateEffect
    <2> HIDE DEF i
    <2>1. /\ phase' = "eval" /\ phase = "eval" /\ UNCHANGED <<progress, pop>> /\ i \in Idx
          /\ seen' = seen \/ seen' = seen \cup {pop[i]}
      BY <2>0 DEF Evaluates
    <2> QED
      BY <1>0, <2>1 DEF SeenSound
  <1>4. ASSUME Join PROVE SeenSound'
    BY <1>0, <1>4 DEF Join, SeenSound
  <1>5. ASSUME Rank PROVE SeenSound'
    <2> DEFINE s == scores[Order[1]]  last == progress[Len(progress)]
    <2>1. /\ progress' = Append(progress, s) /\ UNCHANGED <<pop, seen>>
          /\ phase' \in {"breed", "reeval"} /\ phase = "rank"
      BY <1>5 DEF Rank
    <2>2. /\ s \in Scores /\ \A i \in Idx : S!NotWorse(s, Fitness[pop[i]])
          /\ progress # <<>> => S!NotWorse(s, last)
      BY <2>1, RankedFirst
    <2>3. progress'[Len(progress')] = s
      <3> HIDE DEF s
      <3> QED
        BY <1>00, <2>1, <2>2
    <2>4. ASSUME NEW g \in seen PROVE S!NotWorse(s, Fitness[g])
      <3>1. CASE \E i \in Idx : pop[i] = g
        BY <2>2, <3>1
      <3>2. CASE progress # <<>> /\ S!NotWorse(last, Fitness[g])
        <4>1. last \in Scores /\ Fitness[g] \in Scores
          <5>1. last \in Scores
            BY <1>00, <3>2
          <5> QED
            BY <1>00, <5>1 DEF Scores
        <4>2. s \in ScoreType /\ last \in ScoreType /\ Fitness[g] \in ScoreType
          BY <2>2, <4>1, ScoresType
        <4> HIDE DEF s, last
        <4> QED
          BY <2>2, <3>2, <4>2, NotWorseOrder
      <3> QED
        BY <1>0, <2>1, <3>1, <3>2 DEF SeenSound
    <2> QED
      BY <2>1, <2>3, <2>4 DEF SeenSound
  <1>6. ASSUME Breed PROVE SeenSound'
    <2>1. UNCHANGED <<progress, seen>> /\ phase' = "eval" /\ phase = "breed"
      BY <1>6 DEF Breed
    <2>2. progress # <<>>
      BY <1>0, <1>00, <2>1 DEF GenSound
    <2> QED
      BY <1>0, <2>1, <2>2 DEF SeenSound
  <1> QED
    BY <1>1, <1>2, <1>3, <1>4, <1>5, <1>6 DEF Next, MainStep, WorkerStep

\* The convergence state follows the reports.
LEMMA ConvSoundStep == IInv /\ [Next]_vars => ConvSound'
  <1> SUFFICES ASSUME IInv, [Next]_vars PROVE ConvSound'
    OBVIOUS
  <1>0. TypeOK /\ ConvSound
    BY DEF IInv
  <1>1. ASSUME Rank PROVE ConvSound'
    <2> DEFINE s == scores[Order[1]]
    <2>1. progress' = Append(progress, s) /\ conv' = Observe(s) /\ phase = "rank"
      BY <1>1 DEF Rank
    <2>2. s \in ScoreType
      BY <2>1, RankedFirst, ScoresType
    <2> HIDE DEF s
    <2>3. progress \in Seq(ScoreType) /\ conv \in ConvType
      BY <1>0, ScoresType, GAEngineAssumption DEF TypeOK, ConvType
    <2>4. conv' = IF S!Improves(s, conv.best) THEN [noImprove |-> 0, best |-> s]
                  ELSE [conv EXCEPT !.noImprove = @ + 1]
      BY <2>1 DEF Observe, IsImprovement, S!Improves
    <2>5. ConvFits(conv', Append(progress, s))
      BY <1>0, <2>2, <2>3, <2>4, ConvStep DEF ConvSound
    <2> QED
      BY <2>1, <2>5 DEF ConvSound
  <1>2. CASE UNCHANGED <<conv, progress>>
    BY <1>0, <1>2 DEF ConvSound
  <1> QED
    BY <1>1, <1>2 DEF Next, MainStep, WorkerStep, vars, main, Start, Cancel, Take, Evaluate, Join,
       Breed, Reevaluate

\* The result is sound when it is made, and stays.
LEMMA ResultStep == IInv /\ [Next]_vars => ResultSound'
  <1> SUFFICES ASSUME IInv, [Next]_vars PROVE ResultSound'
    OBVIOUS
  <1>0. TypeOK /\ BufferSound /\ CountSound /\ BestSound /\ SeenSound /\ ScoresMatchGenes
        /\ ResultSound
    BY DEF IInv
  <1> USE DEF main, ghosts
  <1>1. ASSUME Reevaluate, phase' = "done" PROVE ResultSound'
    <2> DEFINE o == Order[1]  r == [gene |-> pop[o], score |-> scores[o],
                                    raw |-> RawEvaluate(pop[o]), generations |-> gen]
    <2>1. phase = "reeval" /\ result' = <<r>> /\ UNCHANGED <<errs, stats, calls, seen>>
      BY <1>1 DEF Reevaluate
    <2>2. result'[1].score = scores[o] /\ result'[1].raw = RawEvaluate(pop[o])
      <3>1. result'[1] = r
        BY <2>1
      <3> QED
        BY <3>1
    <2>3. o \in Idx /\ pop[o] \in Genes
      BY <1>0, TypeRankable, FirstIsBest DEF TypeOK
    <2>4. scores[o] = AggregateScoreTotal(RawEvaluate(pop[o]))
      <3>1. scores[o] = Fitness[pop[o]]
        BY <1>0, <2>1, <2>3 DEF ScoresMatchGenes
      <3> QED
        BY <2>3, <3>1 DEF Fitness
    <2>5. \A g \in seen : S!NotWorse(scores[o], Fitness[g])
      BY <1>0, <2>1 DEF BestSound, SeenSound
    <2>6. ~errs /\ stats = calls
      BY <1>0, <2>1 DEF BufferSound, CountSound, Complete
    <2> HIDE DEF o, r
    <2> QED
      BY <2>1, <2>2, <2>4, <2>5, <2>6 DEF ResultSound
  <1>2. CASE UNCHANGED <<phase, result, errs, stats, calls, seen>>
    BY <1>0, <1>2 DEF ResultSound
  <1>3. CASE phase' # "done"
    BY <1>3 DEF ResultSound
  <1> QED
    <2>1. CASE phase' = "done" /\ ~Reevaluate
      <3>1. UNCHANGED <<phase, result, errs, stats, calls, seen>>
        BY <2>1 DEF Next, MainStep, WorkerStep, vars, Start, Cancel, Take, Evaluate, Join, Rank,
           Breed
      <3> QED
        BY <1>2, <3>1
    <2> QED
      BY <1>1, <1>3, <2>1
---------------------------------------------------------------------------
(* The theorems *)

\* IInv holds when RunEpoch has sampled its population.
LEMMA InitInv == Init => IInv
  <1> SUFFICES ASSUME Init PROVE IInv
    OBVIOUS
  <1>00. /\ PopSize \in Nat /\ PopSize >= 2 /\ MaxGenerations \in Nat \ {0} /\ MaxFaults \in Nat
    BY GAEngineAssumption
  <1>1. TypeOK
    <2>1. conv \in [noImprove : 0 .. MaxGenerations, best : Scores \cup {FatalScore}]
      BY <1>00 DEF Init, NewConvergence
    <2>2. job \in 1 .. PopSize + 1 /\ worker \in [Workers -> -1 .. PopSize]
      BY <1>00 DEF Init
    <2>3. stats \in [evals : Nat, fatal : Nat] /\ calls \in [evals : Nat, fatal : Nat]
      BY DEF Init
    <2>4. progress \in Seq(Scores) /\ Len(progress) <= MaxGenerations /\ Len(result) <= 1
      BY <1>00 DEF Init
    <2>5. gen \in 1 .. MaxGenerations /\ faults \in 0 .. MaxFaults
      BY <1>00 DEF Init
    <2>6. scores \in [Idx -> Scores \cup {NoScore}]
      BY DEF Init
    <2>7. \A v, w \in Workers : v # w => worker[v] # worker[w] \/ worker[v] \in {-1, 0}
      BY DEF Init
    <2> QED
      BY <2>1, <2>2, <2>3, <2>4, <2>5, <2>6, <2>7 DEF Init, TypeOK
  <1>2. GenSound /\ JobsSound
    BY DEF Init, GenSound, JobsSound, Passing
  <1>3. Evaluated = {} /\ Fresh = Idx
    BY <1>00 DEF Init, Evaluated, Fresh, Idx
  <1>4. BufferSound
    BY <1>3 DEF Init, BufferSound, Complete
  <1>5. CountSound
    <2>1. {i \in Evaluated : scores[i].fatal} = {} /\ Cardinality({}) = 0
      BY <1>3, FS_EmptySet
    <2> QED
      BY <1>3, <2>1 DEF Init, CountSound, Complete
  <1>6. BestSound /\ SeenSound /\ ScoresMatchGenes /\ ResultSound
    BY DEF Init, BestSound, SeenSound, ScoresMatchGenes, ResultSound
  <1>7. ConvSound
    <2>1. S!Mark(<<>>)[1] = FatalScore
      <3>1. <<>> \in Seq(ScoreType) /\ 1 \in 1 .. Len(<<>>) + 1
        OBVIOUS
      <3> QED
        BY <3>1, MarkRec
    <2>2. conv.best = FatalScore /\ conv.noImprove = 0 /\ progress = <<>> /\ Len(progress) = 0
      BY DEF Init, NewConvergence
    <2> QED
      BY <2>1, <2>2 DEF ConvSound, ConvFits
  <1> QED
    BY <1>1, <1>2, <1>4, <1>5, <1>6, <1>7 DEF IInv

\* Every step preserves it.
LEMMA InvStep == IInv /\ [Next]_vars => IInv'
  BY TypeStep, GenStep, JobsStep, BufferStep, CountStep, BestStep, SeenStep, ConvSoundStep,
     ResultStep DEF IInv

\* RunEpoch with its workers keeps IInv.
THEOREM Invariance == Spec => []IInv
  BY InitInv, InvStep, PTL DEF Spec

\* The state of RunEpoch is well typed, and no index is in the hands of two workers
\* (the jobs channel of evaluatePopulation).
THEOREM Typing == Spec => []TypeOK
  <1>1. IInv => TypeOK
    BY DEF IInv
  <1> QED
    BY <1>1, Invariance, PTL

\* Whenever a generation is ranked, bred from or reported, every score in the reused
\* buffer is the score of the gene beside it (evaluatePopulation and the elite
\* carry-over of RunEpoch).
THEOREM BufferTrue == Spec => []ScoresMatchGenes
  <1>1. IInv => ScoresMatchGenes
    BY DEF IInv
  <1> QED
    BY <1>1, Invariance, PTL

\* A result is the best of all genes ever evaluated, with the score of its raw
\* windows, from complete passes, and with SearchStats that count the evaluations
\* made (RunEpoch).
THEOREM ResultTrue == Spec => []ResultSound
  <1>1. IInv => ResultSound
    BY DEF IInv
  <1> QED
    BY <1>1, Invariance, PTL

\* The refinement of GASearch: initial states map to initial states.
LEMMA SearchInit == Init => S!Init
  BY DEF Init, S!Init

\* Every step of the engine is one of the search, or changes nothing it shows: Rank is
\* Generation, the end of Reevaluate is Finish, and an error is Fail.
LEMMA SearchStep == IInv /\ [Next]_vars => [S!Next]_(S!vars)
  <1> SUFFICES ASSUME IInv, [Next]_vars PROVE [S!Next]_(S!vars)
    OBVIOUS
  <1>0. TypeOK /\ GenSound /\ BestSound /\ ConvSound
    BY DEF IInv
  <1> USE DEF main, ghosts
  <1>1. ASSUME phase' = phase, progress' = progress, result' = result
        PROVE  UNCHANGED S!vars
    BY <1>1 DEF S!vars
  <1>2. ASSUME Start PROVE [S!Next]_(S!vars)
    BY <1>2 DEF Start, S!vars, S!Next, S!Fail
  <1>3. ASSUME Join PROVE [S!Next]_(S!vars)
    BY <1>3 DEF Join, S!vars, S!Next, S!Fail
  <1>4. ASSUME Breed PROVE UNCHANGED S!vars
    BY <1>4 DEF Breed, S!vars
  <1>5. ASSUME Rank PROVE S!Generation
    <2> DEFINE s == scores[Order[1]]
    <2>1. /\ progress' = Append(progress, s) /\ conv' = Observe(s) /\ phase = "rank"
          /\ phase' = IF ShouldStop(conv') \/ gen = MaxGenerations THEN "reeval" ELSE "breed"
          /\ UNCHANGED result
      BY <1>5 DEF Rank
    <2>2. s \in Scores /\ (progress = <<>> \/ S!NotWorse(s, progress[Len(progress)]))
      BY <2>1, RankedFirst
    <2> HIDE DEF s
    <2>3. Len(progress') = gen
      BY <1>0, <2>1 DEF TypeOK, GenSound
    <2>4. S!Stagnant(progress') <=> ShouldStop(conv')
      <3>1. progress' \in Seq(ScoreType) /\ conv' \in ConvType /\ ConvFits(conv', progress')
        <4>1. TypeOK' /\ ConvSound'
          BY TypeStep, ConvSoundStep
        <4>2. /\ progress' \in Seq(Scores) /\ Scores \cup {FatalScore} \subseteq ScoreType
              /\ conv' \in [noImprove : 0 .. MaxGenerations, best : Scores \cup {FatalScore}]
          BY <4>1, ScoresType DEF TypeOK
        <4>3. progress' \in Seq(ScoreType)
          BY <4>2
        <4>4. conv' \in ConvType
          BY <4>2, GAEngineAssumption DEF ConvType
        <4> QED
          BY <4>1, <4>3, <4>4 DEF ConvSound
      <3> QED
        BY <3>1, StopIsStagnation
    <2> QED
      BY <2>1, <2>2, <2>3, <2>4 DEF S!Generation
  <1>6. ASSUME Reevaluate PROVE [S!Next]_(S!vars)
    <2>1. CASE phase' = "failed"
      BY <1>6, <2>1 DEF Reevaluate, S!Next, S!Fail
    <2>2. CASE phase' = "done"
      <3>1. /\ phase = "reeval" /\ progress' = progress
            /\ result' = <<[gene |-> pop[Order[1]], score |-> scores[Order[1]],
                            raw |-> RawEvaluate(pop[Order[1]]), generations |-> gen]>>
        BY <1>6, <2>2 DEF Reevaluate
      <3>2. result'[1].score = scores[Order[1]]
        BY <3>1
      <3>3. scores[Order[1]] = progress[Len(progress)]
        BY <1>0, <3>1 DEF BestSound
      <3> QED
        BY <2>2, <3>1, <3>2, <3>3 DEF S!Next, S!Finish
    <2> QED
      BY <1>6, <2>1, <2>2 DEF Reevaluate
  <1> QED
    BY <1>1, <1>2, <1>3, <1>4, <1>5, <1>6 DEF Next, MainStep, WorkerStep, vars, Cancel, Take,
       Evaluate, S!Next

\* The parallel engine takes only steps of the sequential search: reports never get
\* worse, and it stops exactly on stagnation or after MaxGenerations (RunEpoch,
\* observe).  That it ends is left to TLC.
THEOREM ImplementsSafety == Spec => S!Init /\ [][S!Next]_(S!vars)
  BY SearchInit, SearchStep, Invariance, PTL DEF Spec
==============================================================================
