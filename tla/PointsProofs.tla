----------------------------- MODULE PointsProofs -----------------------------
(* The lock of the points, and what it makes of the log and of the scores: the *)
(* changes between two boards lead a reader from the one to the other, and     *)
(* between a move's two boards nobody else writes.  What the board and the     *)
(* bounties compute is proved by least counterexamples.                        *)
EXTENDS Points, FiniteSetTheorems, TLAPS

-------------------------------------------------------------------------------
(* What a fold over a finite set computes.                                     *)

\* A set of numbers has a least one.
LEMMA LeastNumber ==
    ASSUME NEW N \in SUBSET Nat, N # {}
    PROVE  \E n \in N : \A m \in N : n <= m
<1>1. PICK n \in N : \A m \in N : ~(<<m, n>> \in OpToRel(<, Nat))
  BY NatLessThanWellFounded, WFMin
<1>2. \A m \in N : ~(m < n)
  BY <1>1 DEF OpToRel
<1> QED
  BY <1>2

\* A set of subsets of a finite set has one with no other below it.
LEMMA MinimalSubset ==
    ASSUME NEW S, IsFiniteSet(S), NEW F \in SUBSET SUBSET S, F # {}
    PROVE  \E T \in F : \A U \in F : U \subseteq T => U = T
<1>1. F \subseteq FiniteSubsetsOf(S)
  BY FS_FiniteSubsetsOfFinite
<1>2. PICK T \in F : \A U \in F : ~(<<U, T>> \in StrictSubsetOrdering(S))
  BY <1>1, FS_StrictSubsetOrderingWellFounded, WFMin
<1> QED
  BY <1>2 DEF StrictSubsetOrdering

\* What a fold has for a set: its start for none, and else one step more than for the set
\* without the element it takes first.
FoldStep(start, step, first, U, g) ==
    IF U = {} THEN start ELSE step[first[U]][g[U \ {first[U]}]]

IsFold(S, R, start, step, first, g) ==
    /\ g \in [SUBSET S -> R]
    /\ \A U \in SUBSET S : g[U] = FoldStep(start, step, first, U, g)

\* The recursive function a fold is made with exists.
LEMMA FoldExists ==
    ASSUME NEW S, IsFiniteSet(S), NEW R, NEW start \in R,
           NEW step, \A x \in S, r \in R : step[x][r] \in R,
           NEW first, \A U \in SUBSET S : U # {} => first[U] \in U
    PROVE  \E g : IsFold(S, R, start, step, first, g)
<1> DEFINE Upto(n) == \E g \in [SUBSET S -> R] : \A U \in SUBSET S :
                         Cardinality(U) <= n => g[U] = FoldStep(start, step, first, U, g)
           Failing == {n \in Nat : ~Upto(n)}
<1>1. \A U \in SUBSET S : /\ IsFiniteSet(U) /\ Cardinality(U) \in Nat
                          /\ Cardinality(U) <= Cardinality(S)
                          /\ Cardinality(U) = 0 <=> U = {}
  BY FS_Subset, FS_CardinalityType, FS_EmptySet
<1>2. \A U \in SUBSET S : U # {} => Cardinality(U \ {first[U]}) = Cardinality(U) - 1
  BY <1>1, FS_RemoveElement
<1>3. Upto(0)
  <2> DEFINE h == [U \in SUBSET S |-> start]
  <2>1. h \in [SUBSET S -> R]
    OBVIOUS
  <2>2. ASSUME NEW U \in SUBSET S, Cardinality(U) <= 0
        PROVE  h[U] = FoldStep(start, step, first, U, h)
    BY <1>1, <2>2 DEF FoldStep
  <2> HIDE DEF h
  <2> QED
    BY <2>1, <2>2
<1>4. ASSUME NEW n \in Nat \ {0}, Upto(n - 1) PROVE Upto(n)
  <2>1. PICK g \in [SUBSET S -> R] : \A U \in SUBSET S :
               Cardinality(U) <= n - 1 => g[U] = FoldStep(start, step, first, U, g)
    BY <1>4
  <2> DEFINE h == [U \in SUBSET S |-> IF Cardinality(U) < n THEN g[U]
                                      ELSE FoldStep(start, step, first, U, g)]
  <2>2. h \in [SUBSET S -> R]
    <3>1. ASSUME NEW U \in SUBSET S PROVE FoldStep(start, step, first, U, g) \in R
      BY <2>1 DEF FoldStep
    <3> QED
      BY <2>1, <3>1
  <2>3. ASSUME NEW U \in SUBSET S, Cardinality(U) <= n
        PROVE  h[U] = FoldStep(start, step, first, U, h)
    <3>1. U # {} => h[U \ {first[U]}] = g[U \ {first[U]}]
      BY <1>1, <1>2, <2>3
    <3>2. FoldStep(start, step, first, U, h) = FoldStep(start, step, first, U, g)
      BY <3>1 DEF FoldStep
    <3> QED
      BY <1>1, <2>1, <2>3, <3>2
  <2> HIDE DEF h
  <2> QED
    BY <2>2, <2>3
<1> HIDE DEF Upto
<1>5. Failing = {}
  <2> SUFFICES ASSUME Failing # {} PROVE FALSE
    OBVIOUS
  <2>1. PICK n \in Failing : \A m \in Failing : n <= m
    BY LeastNumber
  <2>2. n # 0 /\ Upto(n - 1)
    BY <1>3, <2>1
  <2> QED
    BY <1>4, <2>1, <2>2
<1>6. Upto(Cardinality(S))
  BY <1>1, <1>5
<1> QED
  BY <1>1, <1>6 DEF Upto, IsFold

Pick(U) == CHOOSE x \in U : TRUE
SumStep(v, U, g) == IF U = {} THEN 0 ELSE v[Pick(U)] + g[U \ {Pick(U)}]

\* A sum of natural numbers is one.
LEMMA SumsExist ==
    ASSUME NEW S, IsFiniteSet(S), NEW v \in [S -> Nat]
    PROVE  /\ \E g : g = [U \in SUBSET S |-> SumStep(v, U, g)]
           /\ \A g : g = [U \in SUBSET S |-> SumStep(v, U, g)] => g[S] \in Nat
<1> DEFINE first == [U \in SUBSET S |-> Pick(U)]
           step  == [x \in S |-> [n \in Nat |-> v[x] + n]]
<1>1. \A U \in SUBSET S : U # {} => first[U] = Pick(U) /\ Pick(U) \in U
  BY DEF Pick
<1>2. \A x \in S, n \in Nat : step[x][n] \in Nat
  OBVIOUS
<1>3. \A x \in S, n \in Nat : step[x][n] = v[x] + n
  OBVIOUS
<1> HIDE DEF first, step
<1>4. PICK g : IsFold(S, Nat, 0, step, first, g)
  <2>1. \A U \in SUBSET S : U # {} => first[U] \in U
    BY <1>1
  <2>2. ASSUME NEW R, NEW start \in R, \A x \in S, r \in R : step[x][r] \in R
        PROVE  \E g : IsFold(S, R, start, step, first, g)
    BY <2>1, <2>2, FoldExists
  <2> QED
    BY <1>2, <2>2
<1>5. ASSUME NEW U \in SUBSET S PROVE g[U] = SumStep(v, U, g)
  <2>1. U # {} => Pick(U) \in S /\ g[U \ {Pick(U)}] \in Nat
    BY <1>1, <1>4 DEF IsFold
  <2> QED
    BY <1>1, <1>3, <1>4, <2>1 DEF IsFold, FoldStep, SumStep
<1>6. g = [U \in SUBSET S |-> SumStep(v, U, g)]
  BY <1>4, <1>5 DEF IsFold
<1>7. ASSUME NEW h, h = [U \in SUBSET S |-> SumStep(v, U, h)] PROVE h[S] \in Nat
  <2> DEFINE Bad == {U \in SUBSET S : h[U] \notin Nat}
  <2>1. Bad \in SUBSET SUBSET S
    OBVIOUS
  <2>2. ASSUME Bad # {} PROVE FALSE
    <3>1. PICK T \in Bad : \A U \in Bad : U \subseteq T => U = T
      <4> HIDE DEF Bad
      <4> QED
        BY <2>1, <2>2, MinimalSubset
    <3>2. h[T] = SumStep(v, T, h)
      BY <1>7
    <3>3. T # {}
      BY <3>1, <3>2 DEF SumStep
    <3>4. Pick(T) \in T
      BY <1>1, <3>3
    <3>5. h[T \ {Pick(T)}] \in Nat
      BY <3>1, <3>4
    <3> QED
      BY <3>1, <3>2, <3>4, <3>5 DEF SumStep
  <2> QED
    BY <2>2
<1> QED
  BY <1>6, <1>7

\* The XP and the points of some runs.
XpOf(c, S) == MapThenSumSet(LAMBDA r : c[r].xp, S)
PointsOf(c, S) == MapThenSumSet(LAMBDA r : c[r].points, S)

\* The XP of a member are a natural number.
LEMMA SumOfXp ==
    ASSUME NEW c, NEW S, IsFiniteSet(S), \A r \in S : c[r].xp \in Nat
    PROVE  XpOf(c, S) \in Nat
<1> DEFINE v == [r \in S |-> c[r].xp]
           Row(U, g) == IF U = {} THEN 0 ELSE c[Pick(U)].xp + g[U \ {Pick(U)}]
<1>1. \A g, U : U \in SUBSET S => Row(U, g) = SumStep(v, U, g)
  BY DEF SumStep, Pick
<1>2. \A g : [U \in SUBSET S |-> Row(U, g)] = [U \in SUBSET S |-> SumStep(v, U, g)]
  BY <1>1
<1>3. v \in [S -> Nat]
  OBVIOUS
<1>4. /\ \E g : g = [U \in SUBSET S |-> Row(U, g)]
      /\ \A g : g = [U \in SUBSET S |-> Row(U, g)] => g[S] \in Nat
  <2> HIDE DEF v, Row
  <2>1. /\ \E g : g = [U \in SUBSET S |-> SumStep(v, U, g)]
        /\ \A g : g = [U \in SUBSET S |-> SumStep(v, U, g)] => g[S] \in Nat
    BY <1>3, SumsExist
  <2> QED
    BY <1>2, <2>1
<1>5. XpOf(c, S) = (CHOOSE g : g = [U \in SUBSET S |-> Row(U, g)])[S]
  BY DEF XpOf, MapThenSumSet, MapThenFoldSet, Pick
<1> QED
  BY <1>4, <1>5

\* So are the points.
LEMMA SumOfPoints ==
    ASSUME NEW c, NEW S, IsFiniteSet(S), \A r \in S : c[r].points \in Nat
    PROVE  PointsOf(c, S) \in Nat
<1> DEFINE v == [r \in S |-> c[r].points]
           Row(U, g) == IF U = {} THEN 0 ELSE c[Pick(U)].points + g[U \ {Pick(U)}]
<1>1. \A g, U : U \in SUBSET S => Row(U, g) = SumStep(v, U, g)
  BY DEF SumStep, Pick
<1>2. \A g : [U \in SUBSET S |-> Row(U, g)] = [U \in SUBSET S |-> SumStep(v, U, g)]
  BY <1>1
<1>3. v \in [S -> Nat]
  OBVIOUS
<1>4. /\ \E g : g = [U \in SUBSET S |-> Row(U, g)]
      /\ \A g : g = [U \in SUBSET S |-> Row(U, g)] => g[S] \in Nat
  <2> HIDE DEF v, Row
  <2>1. /\ \E g : g = [U \in SUBSET S |-> SumStep(v, U, g)]
        /\ \A g : g = [U \in SUBSET S |-> SumStep(v, U, g)] => g[S] \in Nat
    BY <1>3, SumsExist
  <2> QED
    BY <1>2, <2>1
<1>5. PointsOf(c, S) = (CHOOSE g : g = [U \in SUBSET S |-> Row(U, g)])[S]
  BY DEF PointsOf, MapThenSumSet, MapThenFoldSet, Pick
<1> QED
  BY <1>4, <1>5

\* The last of some days is one of them.
LEMMA LastDay ==
    ASSUME NEW D, D \subseteq Days, D # {}
    PROVE  Max(D) \in Days
<1> DEFINE N == {MaxDay - d : d \in D}
<1>1. MaxDay \in Nat /\ D \subseteq 0..MaxDay
  BY PointsAssumption DEF Days
<1>2. N \in SUBSET Nat /\ N # {}
  <2>1. \A d \in D : d \in 0..MaxDay
    BY <1>1
  <2>2. \A d \in D : MaxDay - d \in Nat
    BY <1>1, <2>1
  <2> QED
    BY <2>2
<1>3. \E x \in D : \A y \in D : x >= y
  <2>1. PICK n \in N : \A m \in N : n <= m
    <3> HIDE DEF N
    <3> QED
      BY <1>2, LeastNumber
  <2>2. PICK x \in D : n = MaxDay - x
    BY <2>1
  <2>3. ASSUME NEW y \in D PROVE x >= y
    <3>1. x \in 0..MaxDay /\ y \in 0..MaxDay
      BY <1>1
    <3>2. MaxDay - x <= MaxDay - y
      BY <2>1, <2>2
    <3> QED
      BY <1>1, <3>1, <3>2
  <2> QED
    BY <2>3
<1> QED
  BY <1>1, <1>3 DEF Max, Days

-------------------------------------------------------------------------------
(* What a run is worth.                                                        *)

\* Of finitely many things one has the largest number.
LEMMA LargestOne ==
    ASSUME NEW S, IsFiniteSet(S), S # {}, NEW f \in [S -> Int]
    PROVE  \E x \in S : \A y \in S : f[y] <= f[x]
<1> DEFINE Over(x) == {y \in S : f[y] > f[x]}
           N       == {Cardinality(Over(x)) : x \in S}
<1>1. \A x \in S : /\ Over(x) \in SUBSET S /\ IsFiniteSet(Over(x))
                   /\ Cardinality(Over(x)) \in Nat
  BY FS_Subset, FS_CardinalityType
<1>2. \A x, y \in S : f[y] > f[x] => Over(y) \in SUBSET Over(x) /\ y \in Over(x) /\ y \notin Over(y)
  OBVIOUS
<1> HIDE DEF Over
<1>3. ASSUME NEW x \in S, NEW y \in S, f[y] > f[x]
      PROVE  Cardinality(Over(y)) < Cardinality(Over(x))
  <2>1. Cardinality(Over(y)) <= Cardinality(Over(x))
    BY <1>1, <1>2, <1>3, FS_Subset
  <2>2. Cardinality(Over(y)) # Cardinality(Over(x))
    BY <1>1, <1>2, <1>3, FS_Subset
  <2> QED
    BY <1>1, <2>1, <2>2
<1>4. PICK n \in N : \A m \in N : n <= m
  <2>1. N \in SUBSET Nat /\ N # {}
    BY <1>1
  <2> HIDE DEF N
  <2> QED
    BY <2>1, LeastNumber
<1>5. PICK x \in S : n = Cardinality(Over(x))
  BY <1>4
<1>6. ASSUME NEW y \in S PROVE f[y] <= f[x]
  <2>1. ~(Cardinality(Over(y)) < Cardinality(Over(x)))
    BY <1>1, <1>4, <1>5
  <2> QED
    BY <1>3, <2>1
<1> QED
  BY <1>6

\* The XP of a run are a natural number: the tiers are finitely many, and so one is the highest.
LEMMA XpTyped ==
    ASSUME NEW seconds
    PROVE  XpFor(seconds, Rules.tiers, Rules.low, Rules.high) \in Nat
<1> DEFINE reached == {t \in Rules.tiers : t.floor <= seconds}
           Highest(t) == \A u \in reached : u.floor <= t.floor
           best == IF reached = {} THEN 0 ELSE (CHOOSE t \in reached : Highest(t)).xp
<1>1. best \in Nat
  <2>1. CASE reached = {}
    BY <2>1
  <2>2. CASE reached # {}
    <3>1. IsFiniteSet(reached) /\ \A t \in reached : t.floor \in Nat /\ t.xp \in Nat
      BY ScoreAssumption, FS_Subset
    <3>2. \E t \in reached : Highest(t)
      <4> DEFINE f == [t \in reached |-> t.floor]
      <4>1. f \in [reached -> Int]
        BY <3>1
      <4>2. \A t \in reached : f[t] = t.floor
        OBVIOUS
      <4> HIDE DEF f, reached
      <4>3. PICK x \in reached : \A y \in reached : f[y] <= f[x]
        BY <2>2, <3>1, <4>1, LargestOne
      <4> QED
        BY <4>2, <4>3
    <3> QED
      BY <2>2, <3>1, <3>2
  <2> QED
    BY <2>1, <2>2
<1> HIDE DEF best
<1>2. \A a, b \in Nat : Max({a, b}) \in Nat /\ Min({a, b}) \in Nat
  <2>1. ASSUME NEW a \in Nat, NEW b \in Nat
        PROVE  \E x \in {a, b} : \A y \in {a, b} : x >= y
    <3>1. CASE a >= b
      BY <3>1
    <3>2. CASE b >= a
      BY <3>2
    <3> QED
      BY <3>1, <3>2
  <2>2. ASSUME NEW a \in Nat, NEW b \in Nat
        PROVE  \E x \in {a, b} : \A y \in {a, b} : x =< y
    <3>1. CASE a >= b
      BY <3>1
    <3>2. CASE b >= a
      BY <3>2
    <3> QED
      BY <3>1, <3>2
  <2> QED
    BY <2>1, <2>2 DEF Max, Min
<1>3. Min({Max({best, Rules.low}), Rules.high}) \in Nat
  BY <1>1, <1>2, ScoreAssumption
<1> QED
  BY <1>3 DEF XpFor, best

\* The offer of a bounty is a number.
LEMMA BonusTyped ==
    ASSUME NEW b \in Bounties
    PROVE  WithBonus(Rules.perRun, b) \in Int
<1>1. Rules.perRun \in Nat /\ b.amount \in Nat
  BY ScoreAssumption
<1>2. \A x \in Int : (2 * Rules.perRun * b.amount + 10) \in Int
  BY <1>1
<1>3. \A x \in Int : x \div 20 \in Int /\ x \div 10 \in Int
  OBVIOUS
<1> QED
  BY <1>1, <1>2, <1>3 DEF WithBonus

\* What is known of the bounty a run was given, out of some offers.
BestOf(base, offers, given) ==
    /\ given \in [points : Int, bounty : Nat]
    /\ given.points >= base
    /\ \A b \in offers : WithBonus(base, b) <= given.points
    /\ given.points = base => given.bounty = 0
    /\ given.points # base =>
         \E b \in offers : /\ given.bounty = b.id /\ given.points = WithBonus(base, b)
                           /\ \A o \in offers : WithBonus(base, o) = given.points => b.id <= o.id

Newest(bs) == CHOOSE b \in bs : \A o \in bs : o.id <= b.id

\* Of some bounties one is the newest.
LEMMA NewestIsThere ==
    ASSUME NEW bs \in SUBSET Bounties, bs # {}
    PROVE  /\ Newest(bs) \in bs /\ \A o \in bs : o.id <= Newest(bs).id
           /\ \A o \in bs \ {Newest(bs)} : o.id < Newest(bs).id
<1> DEFINE f == [b \in bs |-> b.id]
<1>1. IsFiniteSet(bs) /\ f \in [bs -> Int] /\ \A b \in bs : f[b] = b.id /\ b.id \in Nat
  BY ScoreAssumption, FS_Subset
<1>2. PICK x \in bs : \A y \in bs : f[y] <= f[x]
  <2> HIDE DEF f
  <2> QED
    BY <1>1, LargestOne
<1>3. \E b \in bs : \A o \in bs : o.id <= b.id
  BY <1>1, <1>2
<1>4. Newest(bs) \in bs /\ \A o \in bs : o.id <= Newest(bs).id
  BY <1>3 DEF Newest
<1>5. \A o \in bs \ {Newest(bs)} : o.id # Newest(bs).id
  BY <1>4, ScoreAssumption
<1> QED
  BY <1>1, <1>4, <1>5

\* One more bounty, newer than those before, keeps the best of them or is better.
LEMMA BetterIsBest ==
    ASSUME NEW bs \in SUBSET Bounties, NEW b \in Bounties, \A o \in bs : o.id < b.id,
           NEW given, BestOf(Rules.perRun, bs, given)
    PROVE  BestOf(Rules.perRun, bs \cup {b}, Better(Rules.perRun, given, b))
<1> DEFINE base == Rules.perRun
           new  == Better(base, given, b)
           Value(o) == WithBonus(base, o)
<1>1. /\ base \in Nat /\ \A o \in bs \cup {b} : o \in Bounties /\ o.id \in Nat \ {0} /\ Value(o) \in Int
  BY ScoreAssumption, BonusTyped
<1>2. /\ given \in [points : Int, bounty : Nat] /\ given.points >= base
      /\ \A o \in bs : Value(o) <= given.points
      /\ given.points = base => given.bounty = 0
      /\ given.points # base =>
           \E a \in bs : /\ given.bounty = a.id /\ given.points = Value(a)
                         /\ \A o \in bs : Value(o) = given.points => a.id <= o.id
  BY DEF BestOf
<1>3. new = IF Value(b) > given.points THEN [points |-> Value(b), bounty |-> b.id] ELSE given
  BY DEF Better
<1> HIDE DEF base, new, Value
<1>4. CASE Value(b) > given.points
  <2>1. new.points = Value(b) /\ new.bounty = b.id /\ new \in [points : Int, bounty : Nat]
    BY <1>1, <1>3, <1>4
  <2>2. new.points > base /\ \A o \in bs : Value(o) < new.points
    BY <1>1, <1>2, <1>4, <2>1
  <2>3. \A o \in bs \cup {b} : Value(o) <= new.points /\ (Value(o) = new.points => b.id <= o.id)
    BY <1>1, <2>1, <2>2
  <2> QED
    BY <1>1, <2>1, <2>2, <2>3 DEF BestOf, new, base, Value
<1>5. CASE ~(Value(b) > given.points)
  <2>1. new = given
    BY <1>3, <1>5
  <2>2. \A o \in bs \cup {b} : Value(o) <= new.points
    BY <1>1, <1>2, <1>5, <2>1
  <2>3. ASSUME new.points # base
        PROVE  \E a \in bs \cup {b} : /\ new.bounty = a.id /\ new.points = Value(a)
                  /\ \A o \in bs \cup {b} : Value(o) = new.points => a.id <= o.id
    <3>1. PICK a \in bs : /\ given.bounty = a.id /\ given.points = Value(a)
                          /\ \A o \in bs : Value(o) = given.points => a.id <= o.id
      BY <1>2, <2>1, <2>3
    <3>2. a.id < b.id
      OBVIOUS
    <3>3. \A o \in bs \cup {b} : Value(o) = new.points => a.id <= o.id
      BY <1>1, <2>1, <3>1, <3>2
    <3> QED
      BY <2>1, <3>1, <3>3
  <2> QED
    BY <1>2, <2>1, <2>2, <2>3 DEF BestOf, new, base, Value
<1> QED
  BY <1>4, <1>5 DEF base, new

\* The fold of points_for, step by step.
OfferStep(U, g) == IF U = {} THEN [points |-> Rules.perRun, bounty |-> 0]
                   ELSE Better(Rules.perRun, g[U \ {Newest(U)}], Newest(U))

\* What points_for gives is the best of the offers.
LEMMA PointsForIsBest ==
    ASSUME NEW game, NEW day, NEW live \in SUBSET Bounties
    PROVE  BestOf(Rules.perRun, Offers(game, day, live),
                  PointsFor(Rules.perRun, game, day, live))
<1> DEFINE S     == Offers(game, day, live)
           base  == Rules.perRun
           R     == [points : Int, bounty : Nat]
           zero  == [points |-> base, bounty |-> 0]
           first == [U \in SUBSET S |-> Newest(U)]
           step  == [b \in S |-> [r \in R |-> Better(base, r, b)]]
<1>1. S \subseteq Bounties /\ IsFiniteSet(S) /\ base \in Nat
  BY ScoreAssumption, FS_Subset DEF Offers
<1> HIDE DEF S
<1>2. \A U \in SUBSET S : U # {} => first[U] \in U /\ first[U] = Newest(U)
  BY <1>1, NewestIsThere
<1>3. zero \in R
  BY <1>1
<1>4. \A b \in S, r \in R : step[b][r] \in R /\ step[b][r] = Better(base, r, b)
  <2>1. ASSUME NEW b \in S, NEW r \in R PROVE Better(base, r, b) \in R
    BY <1>1, ScoreAssumption, BonusTyped DEF Better
  <2> QED
    BY <2>1
<1>5. PICK g : IsFold(S, R, zero, step, first, g)
  <2> HIDE DEF R, zero, step, first
  <2>1. \A U \in SUBSET S : U # {} => first[U] \in U
    BY <1>2
  <2>2. \A b \in S, r \in R : step[b][r] \in R
    BY <1>4
  <2> QED
    BY <1>1, <1>3, <2>1, <2>2, FoldExists
<1> HIDE DEF R, zero, step, first
<1>6. g = [U \in SUBSET S |-> OfferStep(U, g)]
  <2>1. ASSUME NEW U \in SUBSET S PROVE g[U] = OfferStep(U, g)
    <3>1. U # {} => Newest(U) \in S /\ g[U \ {Newest(U)}] \in R
      BY <1>2, <1>5 DEF IsFold
    <3> QED
      BY <1>2, <1>4, <1>5, <2>1, <3>1 DEF IsFold, FoldStep, OfferStep, zero
  <2> QED
    BY <1>5, <2>1 DEF IsFold
<1>7. ASSUME NEW h, h = [U \in SUBSET S |-> OfferStep(U, h)] PROVE BestOf(base, S, h[S])
  <2> DEFINE Bad == {U \in SUBSET S : ~BestOf(base, U, h[U])}
  <2>1. Bad \in SUBSET SUBSET S
    OBVIOUS
  <2>2. ASSUME Bad # {} PROVE FALSE
    <3>1. PICK T \in Bad : \A U \in Bad : U \subseteq T => U = T
      <4> HIDE DEF Bad
      <4> QED
        BY <1>1, <2>1, <2>2, MinimalSubset
    <3>2. h[T] = OfferStep(T, h)
      BY <1>7
    <3>3. T # {}
      <4> SUFFICES ASSUME T = {} PROVE FALSE
        OBVIOUS
      <4>1. h[T].points = base /\ h[T].bounty = 0 /\ h[T] \in [points : Int, bounty : Nat]
        BY <1>1, <3>2 DEF OfferStep
      <4> QED
        BY <1>1, <3>1, <4>1 DEF BestOf
    <3> DEFINE b == Newest(T)
    <3>4. b \in T /\ \A o \in T \ {b} : o.id < b.id
      BY <1>1, <3>1, <3>3, NewestIsThere
    <3> HIDE DEF b
    <3>5. BestOf(base, T \ {b}, h[T \ {b}])
      BY <3>1, <3>4
    <3>6. BestOf(base, (T \ {b}) \cup {b}, Better(base, h[T \ {b}], b))
      BY <1>1, <3>1, <3>4, <3>5, BetterIsBest
    <3>7. (T \ {b}) \cup {b} = T
      BY <3>4
    <3>8. h[T] = Better(base, h[T \ {b}], b)
      BY <3>2, <3>3 DEF OfferStep, b
    <3> QED
      BY <3>1, <3>6, <3>7, <3>8
  <2> QED
    BY <2>2
<1>8. PointsFor(base, game, day, live) = (CHOOSE h : h = [U \in SUBSET S |-> OfferStep(U, h)])[S]
  BY DEF PointsFor, MapThenFoldSet, OfferStep, Newest, S
<1> QED
  BY <1>6, <1>7, <1>8 DEF S

\* What a run is worth are numbers.
LEMMA WorthTyped ==
    \A f \in Feats, live \in SUBSET Bounties, d \in Days :
        Worth(f, live, d) \in [xp : Nat, points : Nat]
<1> SUFFICES ASSUME NEW f \in Feats, NEW live \in SUBSET Bounties, NEW d \in Days
             PROVE  Worth(f, live, d) \in [xp : Nat, points : Nat]
  OBVIOUS
<1>1. XpFor(f.seconds, Rules.tiers, Rules.low, Rules.high) \in Nat
  BY XpTyped
<1>2. PointsFor(Rules.perRun, f.game, d, live).points \in Nat
  <2>1. BestOf(Rules.perRun, Offers(f.game, d, live), PointsFor(Rules.perRun, f.game, d, live))
    BY PointsForIsBest
  <2> QED
    BY <2>1, ScoreAssumption DEF BestOf
<1> QED
  BY <1>1, <1>2 DEF Worth, Score

\* The best of the offers is given, and of those that are as good the oldest.
LEMMA GetsIt ==
    ASSUME NEW game, NEW day, NEW live \in SUBSET Bounties
    PROVE  GetsTheBest(Rules.perRun, game, day, live)
<1> DEFINE base   == Rules.perRun
           offers == Offers(game, day, live)
           given  == PointsFor(base, game, day, live)
           worths == {base} \cup {WithBonus(base, b) : b \in offers}
           equal  == {b.id : b \in {o \in offers : WithBonus(base, o) = given.points}}
<1>1. BestOf(base, offers, given)
  BY PointsForIsBest
<1>2. /\ base \in Int /\ \A b \in offers : WithBonus(base, b) \in Int /\ b.id \in Nat
  BY ScoreAssumption, BonusTyped DEF Offers
<1> HIDE DEF offers, given, base
<1>3. /\ given.points \in Int /\ given.points >= base
      /\ \A b \in offers : WithBonus(base, b) <= given.points
      /\ given.points = base \/ \E b \in offers : given.points = WithBonus(base, b)
  BY <1>1 DEF BestOf
<1>4. worths \subseteq Int /\ given.points \in worths /\ \A w \in worths : given.points >= w
  <2>1. given.points \in worths
    BY <1>3
  <2>2. \A w \in worths : w = base \/ \E b \in offers : w = WithBonus(base, b)
    OBVIOUS
  <2>3. ASSUME NEW w \in worths PROVE w \in Int /\ given.points >= w
    BY <1>2, <1>3, <2>2, <2>3
  <2> QED
    BY <2>1, <2>3
<1>5. given.points = Max(worths)
  <2> HIDE DEF worths
  <2>1. Max(worths) \in worths /\ \A w \in worths : Max(worths) >= w
    BY <1>4 DEF Max
  <2>2. Max(worths) \in Int /\ given.points \in Int /\ Max(worths) >= given.points
        /\ given.points >= Max(worths)
    BY <1>4, <2>1
  <2> QED
    BY <2>2
<1>6. given.points = base => given.bounty = 0
  BY <1>1 DEF BestOf
<1>7. ASSUME given.points # base PROVE given.bounty = Min(equal)
  <2>1. PICK b \in offers : /\ given.bounty = b.id /\ given.points = WithBonus(base, b)
               /\ \A o \in offers : WithBonus(base, o) = given.points => b.id <= o.id
    BY <1>1, <1>7 DEF BestOf
  <2>2. equal \subseteq Nat /\ given.bounty \in equal /\ \A i \in equal : given.bounty <= i
    BY <1>2, <2>1
  <2> HIDE DEF equal
  <2>3. Min(equal) \in equal /\ \A i \in equal : Min(equal) <= i
    BY <2>2 DEF Min
  <2>4. Min(equal) \in Nat /\ given.bounty \in Nat /\ Min(equal) <= given.bounty
        /\ given.bounty <= Min(equal)
    BY <2>2, <2>3
  <2> QED
    BY <2>4
<1>8. given.bounty = IF given.points = base THEN 0 ELSE Min(equal)
  BY <1>6, <1>7
<1> QED
  BY <1>5, <1>8 DEF GetsTheBest, offers, given, base

-------------------------------------------------------------------------------
(* The board.                                                                  *)

RowsOf(totals) == /\ DOMAIN totals \subseteq Nat /\ IsFiniteSet(DOMAIN totals)
                  /\ totals \in [DOMAIN totals -> [xp : Nat, points : Nat, last : Days]]

Above(totals, m) == {o \in DOMAIN totals : Beats(totals, o, m)}

\* order_key orders the members: of two one beats the other, and nobody both.
LEMMA BeatsOrders ==
    ASSUME NEW totals, RowsOf(totals), NEW a \in DOMAIN totals, NEW b \in DOMAIN totals
    PROVE  /\ ~Beats(totals, a, a)
           /\ a # b => Beats(totals, a, b) \/ Beats(totals, b, a)
           /\ \A c \in DOMAIN totals :
                Beats(totals, c, a) /\ Beats(totals, a, b) => Beats(totals, c, b)
<1>1. \A m \in DOMAIN totals :
         /\ totals[m].points \in Int /\ totals[m].xp \in Int /\ totals[m].last \in Int /\ m \in Int
         /\ totals[m] \in [xp : Nat, points : Nat, last : Days]
  BY DEF RowsOf, Days
<1>2. \A m, o \in DOMAIN totals : totals[m] = totals[o] <=>
         /\ totals[m].points = totals[o].points /\ totals[m].xp = totals[o].xp
         /\ totals[m].last = totals[o].last
  BY <1>1
<1>3. ~Beats(totals, a, a)
  BY <1>1 DEF Beats
<1>4. a # b => Beats(totals, a, b) \/ Beats(totals, b, a)
  BY <1>1, <1>2 DEF Beats
<1>5. ASSUME NEW c \in DOMAIN totals, Beats(totals, c, a), Beats(totals, a, b)
      PROVE  Beats(totals, c, b)
  BY <1>1, <1>2, <1>5 DEF Beats
<1> QED
  BY <1>3, <1>4, <1>5

\* The places of any board are 1, 2, 3 and so on, each of one member.
LEMMA PlacesOfRows ==
    ASSUME NEW totals, RowsOf(totals)
    PROVE  Standings(totals) \in Bijection(DOMAIN totals, 1..Cardinality(DOMAIN totals))
<1> DEFINE M == DOMAIN totals
           places == Standings(totals)
<1>1. IsFiniteSet(M) /\ Cardinality(M) \in Nat
  BY FS_CardinalityType DEF RowsOf
<1>2. \A m \in M : /\ places[m] = 1 + Cardinality(Above(totals, m))
                   /\ Above(totals, m) \in SUBSET M /\ m \notin Above(totals, m)
                   /\ IsFiniteSet(Above(totals, m)) /\ Cardinality(Above(totals, m)) \in Nat
  BY <1>1, BeatsOrders, FS_Subset, FS_CardinalityType DEF Standings, Above
<1>3. DOMAIN places = M
  BY DEF Standings
<1>4. ASSUME NEW m \in M PROVE places[m] \in 1..Cardinality(M)
  <2>1. Cardinality(Above(totals, m)) <= Cardinality(M)
    BY <1>1, <1>2, FS_Subset
  <2>2. Cardinality(Above(totals, m)) # Cardinality(M)
    BY <1>1, <1>2, FS_Subset
  <2> QED
    BY <1>1, <1>2, <2>1, <2>2
<1>5. ASSUME NEW a \in M, NEW b \in M, Beats(totals, a, b) PROVE places[a] < places[b]
  <2>1. Above(totals, a) \in SUBSET Above(totals, b) /\ a \in Above(totals, b)
    BY <1>5, BeatsOrders DEF Above
  <2>2. Cardinality(Above(totals, a)) <= Cardinality(Above(totals, b))
    BY <1>2, <2>1, FS_Subset
  <2>3. Cardinality(Above(totals, a)) # Cardinality(Above(totals, b))
    BY <1>2, <2>1, FS_Subset
  <2> QED
    BY <1>2, <2>2, <2>3
<1>6. \A a, b \in M : a # b => places[a] # places[b]
  BY <1>2, <1>5, BeatsOrders
<1>7. places \in Injection(M, 1..Cardinality(M))
  <2>1. places \in [M -> 1..Cardinality(M)]
    BY <1>3, <1>4 DEF Standings
  <2> HIDE DEF places, M
  <2> QED
    BY <1>6, <2>1 DEF Injection, IsInjective
<1>8. IsFiniteSet(1..Cardinality(M)) /\ Cardinality(1..Cardinality(M)) = Cardinality(M)
  BY <1>1, FS_Interval
<1>9. places \in Surjection(M, 1..Cardinality(M))
  <2> HIDE DEF places, M
  <2> QED
    BY <1>7, <1>8, FS_Injection
<1> QED
  BY <1>7, <1>9 DEF Bijection

\* Every row of the board is made of numbers, and it belongs to a member.
LEMMA TotalsTyped ==
    ASSUME TypeOK
    PROVE  LET totals == Totals(Counted(run))
           IN  /\ DOMAIN totals \subseteq Users /\ IsFiniteSet(DOMAIN totals)
               /\ totals \in [DOMAIN totals -> [xp : Nat, points : Nat, last : Days]]
<1> DEFINE counted == Counted(run)
<1>1. /\ DOMAIN counted = Approved(run) /\ DOMAIN counted \subseteq Runs
      /\ IsFiniteSet(DOMAIN counted)
      /\ \A r \in DOMAIN counted :
           /\ counted[r].who \in Users /\ counted[r].at \in Days
           /\ counted[r].xp \in Nat /\ counted[r].points \in Nat
  BY PointsAssumption, FS_Subset DEF TypeOK, Counted, Approved, RunRows
<1> HIDE DEF counted
<1>2. /\ Members(counted) \subseteq Users /\ IsFiniteSet(Members(counted))
  BY <1>1, PointsAssumption, FS_Subset DEF Members
<1>3. ASSUME NEW m \in Members(counted)
      PROVE  [xp     |-> MapThenSumSet(LAMBDA r : counted[r].xp, Of(counted, m)),
              points |-> MapThenSumSet(LAMBDA r : counted[r].points, Of(counted, m)),
              last   |-> Max({counted[r].at : r \in Of(counted, m)})]
                \in [xp : Nat, points : Nat, last : Days]
  <2>1. Of(counted, m) \subseteq DOMAIN counted /\ Of(counted, m) # {}
    BY <1>3 DEF Of, Members
  <2>2. IsFiniteSet(Of(counted, m))
    BY <1>1, <2>1, FS_Subset
  <2>3. XpOf(counted, Of(counted, m)) \in Nat
    BY <1>1, <2>1, <2>2, SumOfXp
  <2>4. PointsOf(counted, Of(counted, m)) \in Nat
    BY <1>1, <2>1, <2>2, SumOfPoints
  <2>5. Max({counted[r].at : r \in Of(counted, m)}) \in Days
    <3> DEFINE D == {counted[r].at : r \in Of(counted, m)}
    <3>1. D \subseteq Days /\ D # {}
      BY <1>1, <2>1
    <3> QED
      BY <3>1, LastDay
  <2> QED
    BY <2>3, <2>4, <2>5 DEF XpOf, PointsOf
<1> QED
  BY <1>2, <1>3 DEF Totals, counted

-------------------------------------------------------------------------------
(* The log and the types.                                                      *)

\* A reader who knows the top of a board and replays its changes knows the next one's.
LEMMA DiffReplays ==
    ASSUME NEW old, NEW new, NEW top
    PROVE  Replay(TopOf(old, top), Diff(old, new, top)) = TopOf(new, top)
<1> DEFINE changes == Diff(old, new, top)
           known   == TopOf(old, top)
           left    == {m \in DOMAIN changes : changes[m].kind = "left"}
<1>1. DOMAIN known = {m \in DOMAIN old : old[m] <= top}
  BY DEF TopOf
<1>2. DOMAIN changes = {m \in DOMAIN old \cup DOMAIN new :
                          \/ Inside(old, m, top) # Inside(new, m, top)
                          \/ Inside(old, m, top) /\ old[m] # new[m]}
  BY DEF Diff
<1>3. ASSUME NEW m \in DOMAIN changes
      PROVE  /\ changes[m].kind = "left" <=> ~Inside(new, m, top)
             /\ Inside(new, m, top) => changes[m].now = new[m]
  BY <1>3 DEF Diff
<1>4. left = {m \in DOMAIN changes : ~Inside(new, m, top)}
  BY <1>3
<1>5. (DOMAIN known \cup DOMAIN changes) \ left = {m \in DOMAIN new : new[m] <= top}
  BY <1>1, <1>2, <1>4 DEF Inside
<1>6. ASSUME NEW m \in DOMAIN new, new[m] <= top
      PROVE  (IF m \in DOMAIN changes THEN changes[m].now ELSE known[m]) = new[m]
  BY <1>1, <1>2, <1>3, <1>6 DEF Inside, TopOf
<1>7. Replay(known, changes) = [m \in (DOMAIN known \cup DOMAIN changes) \ left |->
                                  IF m \in DOMAIN changes THEN changes[m].now ELSE known[m]]
  BY DEF Replay
<1> HIDE DEF changes, known, left
<1>8. Replay(known, changes) = [m \in {n \in DOMAIN new : new[n] <= top} |-> new[m]]
  BY <1>5, <1>6, <1>7
<1> QED
  BY <1>8 DEF TopOf, changes, known

\* The board is made of approved runs only.
LEMMA CountedSame ==
    ASSUME run \in [Runs -> RunRows], NEW r \in Runs, NEW row,
           run' = [run EXCEPT ![r] = row],
           run[r].state # "approved", row.state # "approved"
    PROVE  Counted(run') = Counted(run)
<1>1. Approved(run') = Approved(run)
  BY DEF Approved
<1>2. \A x \in Approved(run) : run'[x] = run[x]
  BY DEF Approved
<1> QED
  BY <1>1, <1>2 DEF Counted

\* A board gives each of its members a number.
LEMMA BoardTyped ==
    ASSUME run \in [Runs -> RunRows]
    PROVE  IsBoard(Board(Counted(run)))
<1> DEFINE totals == Totals(Counted(run))
<1>1. DOMAIN totals \subseteq Users
  BY DEF Totals, Members, Counted, Approved, RunRows
<1>2. IsFiniteSet(Users)
  BY PointsAssumption
<1>3. IsFiniteSet(DOMAIN totals)
  BY <1>1, <1>2, FS_Subset
<1>4. ASSUME NEW m \in DOMAIN totals
      PROVE  Cardinality({o \in DOMAIN totals : Beats(totals, o, m)}) \in Nat
  <2>1. {o \in DOMAIN totals : Beats(totals, o, m)} \subseteq DOMAIN totals
    OBVIOUS
  <2> QED
    BY <1>3, <2>1, FS_Subset, FS_CardinalityType
<1> HIDE DEF totals
<1>5. Board(Counted(run)) = Standings(totals)
  BY DEF Board, totals
<1> QED
  BY <1>1, <1>4, <1>5 DEF Standings, IsBoard

-------------------------------------------------------------------------------
(* Types.                                                                      *)

\* What the constants and the helpers are made of.
LEMMA Defaults ==
    /\ NoRun \in RunRows /\ NoWork \in Work /\ IsBoard(Empty)
    /\ AFeat \in Feats /\ \A r \in Runs : MayBe(r) \subseteq Feats
<1>1. AFeat \in Feats /\ AUser \in Users /\ 0 \in Days
  BY PointsAssumption DEF AFeat, AUser, Days
<1>2. NoRun \in RunRows
  BY <1>1 DEF NoRun, RunRows
<1>3. NoWork \in Work
  BY <1>1, <1>2 DEF NoWork, Work
<1>4. IsBoard(Empty)
  BY DEF IsBoard, Empty
<1> QED
  BY <1>1, <1>2, <1>3, <1>4 DEF MayBe

\* A task that is through leaves what it kept typed.
LEMMA FinishTyped ==
    ASSUME TypeOK, NEW p \in Tasks, Finish(p)
    PROVE  /\ pc' \in [Tasks -> Labels] /\ op' \in [Tasks -> AllOperations \cup {"none"}]
           /\ mine' \in [Tasks -> Work]
           /\ DOMAIN before' = Tasks /\ \A q \in Tasks : IsBoard(before'[q])
  BY Defaults DEF TypeOK, Finish, Labels

\* A move writes a row.
LEMMA WrittenTyped ==
    ASSUME TypeOK, NEW p \in Tasks, mine[p].r \in Runs
    PROVE  Written(p) \in RunRows
<1>1. run[mine[p].r] \in RunRows /\ mine[p] \in Work /\ mine[p].row \in RunRows
  BY DEF TypeOK, Work
<1> DEFINE day == Judged(mine[p].row, mine[p].day)
<1>2. /\ Worth(mine[p].row.feat, mine[p].live, day) \in [xp : Nat, points : Nat]
      /\ Worth(mine[p].feat, mine[p].live, day) \in [xp : Nat, points : Nat]
  BY <1>1, WorthTyped DEF Work, RunRows, Judged
<1>3. 0 \in Days
  BY PointsAssumption DEF Days
<1> QED
  BY <1>1, <1>2, <1>3 DEF Written, Scored, RunRows, Work

\* A rescored run is still a run.
LEMMA RescoredTyped ==
    ASSUME TypeOK, NEW p \in Tasks, NEW r \in Runs
    PROVE  Scored(run[r], Worth(run[r].feat, mine[p].live, Judged(run[r], run[r].at))) \in RunRows
<1>1. run[r] \in RunRows /\ mine[p] \in Work
  BY DEF TypeOK
<1>2. Worth(run[r].feat, mine[p].live, Judged(run[r], run[r].at)) \in [xp : Nat, points : Nat]
  BY <1>1, WorthTyped DEF Work, RunRows, Judged
<1> QED
  BY <1>1, <1>2 DEF Scored, RunRows

\* The replayed changes are numbers as well.
LEMMA ReplayTyped ==
    ASSUME NEW known, IsBoard(known), NEW old, IsBoard(old), NEW new, IsBoard(new)
    PROVE  IsBoard(Replay(known, Diff(old, new, Top)))
<1> DEFINE changes == Diff(old, new, Top)
<1>1. DOMAIN changes \subseteq Users
  BY DEF Diff, IsBoard
<1>2. ASSUME NEW m \in DOMAIN changes PROVE changes[m].now \in Nat
  BY <1>2 DEF Diff, IsBoard, Inside
<1> HIDE DEF changes
<1>3. IsBoard(Replay(known, changes))
  BY <1>1, <1>2 DEF Replay, IsBoard
<1> QED
  BY <1>3 DEF changes

\* No step breaks the types, given that a move at its write has a run.
LEMMA TypeOKStep ==
    ASSUME TypeOK, [Next]_vars,
           \A p \in Tasks : pc[p] = "write" => mine[p].r \in Runs
    PROVE  TypeOK'
<1>1. ASSUME NEW r \in Runs, Submit(r) PROVE TypeOK'
  <2>0. PICK u \in Users, f \in Feats :
          run' = [run EXCEPT ![r] = [NoRun EXCEPT !.state = "pending", !.who = u, !.feat = f,
                                     !.sent = IF Clock = "submitted" THEN today ELSE 0]]
    BY <1>1 DEF Submit
  <2>a. ASSUME NEW day \in Days
        PROVE  [NoRun EXCEPT !.state = "pending", !.who = u, !.feat = f, !.sent = day] \in RunRows
    BY Defaults DEF RunRows
  <2>b. (IF Clock = "submitted" THEN today ELSE 0) \in Days
    BY PointsAssumption DEF TypeOK, Days
  <2>1. run' \in [Runs -> RunRows]
    BY <2>0, <2>a, <2>b DEF TypeOK
  <2> QED
    BY <1>1, <2>1 DEF Submit, TypeOK, taskVars
<1>2. ASSUME NEW b \in Switched, SwitchBounty(b) PROVE TypeOK'
  <2>1. history' \in [lost : BOOLEAN, stale : BOOLEAN]
    BY <1>2, ScoreAssumption DEF SwitchBounty, TypeOK
  <2>2. bounties' \subseteq Bounties
    BY <1>2, ScoreAssumption DEF SwitchBounty, TypeOK
  <2> QED
    BY <1>2, <2>1, <2>2 DEF SwitchBounty, TypeOK, taskVars
<1>3. ASSUME NEW p \in Tasks, Lock(p) PROVE TypeOK'
  <2>1. PICK o \in Operations \ {"recompute"}, r \in Runs :
          \E f \in IF o = "edit" THEN MayBe(r) ELSE {AFeat} : Load(p, o, r, f)
    BY <1>3 DEF Lock
  <2>2. PICK f \in Feats : Load(p, o, r, f)
    BY <2>1, Defaults
  <2>a. run[r] \in RunRows /\ mine[p] \in Work
    BY DEF TypeOK
  <2>b. [mine[p] EXCEPT !.r = r, !.feat = f, !.row = run[r]] \in Work
    BY <2>a DEF Work
  <2>c. mine' = [mine EXCEPT ![p] = [mine[p] EXCEPT !.r = r, !.feat = f, !.row = run[r]]]
    BY <2>2 DEF Load
  <2>3. mine' \in [Tasks -> Work]
    BY <2>b, <2>c DEF TypeOK
  <2>4. pc' \in [Tasks -> Labels] /\ op' \in [Tasks -> AllOperations \cup {"none"}]
    BY <2>2, PointsAssumption DEF Load, TypeOK, Goto, Labels, Held
  <2> QED
    BY <1>3, <2>3, <2>4 DEF Lock, TypeOK
<1>4. ASSUME NEW p \in Tasks, LockRecompute(p) PROVE TypeOK'
  BY <1>4 DEF LockRecompute, TypeOK, Goto, Labels, Held, AllOperations
<1>5. ASSUME NEW p \in Tasks, ReadBoard(p) PROVE TypeOK'
  <2>1. IsBoard(Board(Counted(run)))
    BY BoardTyped DEF TypeOK
  <2>2. DOMAIN before' = Tasks /\ \A q \in Tasks : IsBoard(before'[q])
    BY <1>5, <2>1 DEF ReadBoard, TypeOK
  <2>3. pc' \in [Tasks -> Labels]
    BY <1>5 DEF ReadBoard, TypeOK, Goto, Labels, Held
  <2>4. DayOf(p) \in Days
    BY PointsAssumption DEF DayOf, TypeOK, Work, RunRows, Days
  <2>5. mine' \in [Tasks -> Work]
    BY <1>5, <2>4 DEF ReadBoard, TypeOK, Work
  <2> QED
    BY <1>5, <2>2, <2>3, <2>5 DEF ReadBoard, TypeOK
<1>6. ASSUME NEW p \in Tasks, ReadBounties(p) PROVE TypeOK'
  <2> DEFINE todo == IF op[p] = "recompute" THEN Approved(run) ELSE {}
             kept == [mine[p] EXCEPT !.live = bounties, !.todo = todo]
  <2>a. mine[p] \in Work /\ todo \subseteq Runs /\ bounties \subseteq Bounties
    BY DEF TypeOK, Work, RunRows, Approved
  <2>b. mine' = [mine EXCEPT ![p] = kept]
    BY <1>6 DEF ReadBounties
  <2> HIDE DEF todo
  <2>c. kept \in Work
    BY <2>a DEF Work
  <2> HIDE DEF kept
  <2>1. mine' \in [Tasks -> Work]
    BY <2>b, <2>c DEF TypeOK
  <2>2. pc' \in [Tasks -> Labels]
    BY <1>6 DEF ReadBounties, TypeOK, Goto, Labels, Held
  <2> QED
    BY <1>6, <2>1, <2>2 DEF ReadBounties, TypeOK
<1>7. ASSUME NEW p \in Tasks, Write(p) PROVE TypeOK'
  <2>1. run' \in [Runs -> RunRows]
    BY <1>7, WrittenTyped DEF Write, TypeOK
  <2>2. CASE Finish(p) /\ lock' = Nobody
    BY <1>7, <2>1, <2>2, FinishTyped DEF Write, TypeOK
  <2>3. CASE Goto(p, "moved") /\ UNCHANGED <<op, mine, before, lock>>
    BY <1>7, <2>1, <2>3 DEF Write, TypeOK, Goto, Labels, Held
  <2> QED
    BY <1>7, <2>2, <2>3 DEF Write
<1>8. ASSUME NEW p \in Tasks, Rescore(p) PROVE TypeOK'
  <2>1. PICK r \in mine[p].todo :
          /\ run' = IF run[r].state = "approved"
                     THEN [run EXCEPT ![r] = Scored(@, Worth(@.feat, mine[p].live, Judged(@, @.at)))]
                     ELSE run
          /\ mine' = [mine EXCEPT ![p].todo = @ \ {r}]
    BY <1>8 DEF Rescore
  <2>2. r \in Runs
    BY DEF TypeOK, Work
  <2>3. run' \in [Runs -> RunRows]
    BY <2>1, <2>2, RescoredTyped DEF TypeOK
  <2>4. mine' \in [Tasks -> Work]
    BY <2>1 DEF TypeOK, Work
  <2> QED
    BY <1>8, <2>3, <2>4 DEF Rescore, TypeOK
<1>9. ASSUME NEW p \in Tasks, Rescored(p) PROVE TypeOK'
  BY <1>9 DEF Rescored, TypeOK, Goto, Labels, Held
<1>10. ASSUME NEW p \in Tasks, Record(p) \/ RecordLost(p) PROVE TypeOK'
  <2>1. IsBoard(recorded')
    BY <1>10, BoardTyped, ReplayTyped DEF Record, RecordLost, TypeOK
  <2>2. Ended(p) \in BOOLEAN
    BY DEF Ended, TypeOK
  <2>3. history' \in [lost : BOOLEAN, stale : BOOLEAN]
    <3>1. CASE Record(p)
      BY <2>2, <3>1 DEF Record, TypeOK
    <3>2. CASE RecordLost(p)
      BY <2>2, <3>2 DEF RecordLost
    <3> QED
      BY <1>10, <3>1, <3>2
  <2> QED
    BY <1>10, <2>1, <2>3, FinishTyped DEF Record, RecordLost, TypeOK
<1>11. ASSUME NextDay PROVE TypeOK'
  <2>1. today' \in Days
    BY <1>11, PointsAssumption DEF NextDay, TypeOK, Days
  <2> QED
    BY <1>11, <2>1 DEF NextDay, TypeOK, taskVars
<1>12. ASSUME Crash PROVE TypeOK'
  <2>1. history' \in [lost : BOOLEAN, stale : BOOLEAN]
    BY <1>12 DEF Crash, TypeOK
  <2>2. /\ pc' \in [Tasks -> Labels] /\ op' \in [Tasks -> AllOperations \cup {"none"}]
        /\ mine' \in [Tasks -> Work]
        /\ DOMAIN before' = Tasks /\ \A q \in Tasks : IsBoard(before'[q])
    BY <1>12, Defaults DEF Crash, Labels
  <2> QED
    BY <1>12, <2>1, <2>2 DEF Crash, TypeOK
<1>13. CASE UNCHANGED vars
  BY <1>13 DEF vars, TypeOK
<1> QED
  BY <1>1, <1>2, <1>3, <1>4, <1>5, <1>6, <1>7, <1>8, <1>9, <1>10, <1>11, <1>12, <1>13
  DEF Next, Proceed

-------------------------------------------------------------------------------
(* The lock.                                                                   *)

\* Who is making a move has the lock, and the other way round.
Locked == \A p \in Tasks : pc[p] \in Held <=> lock = p

\* Which moves get where.
Path == \A p \in Tasks : /\ pc[p] \in Held => op[p] \in AllOperations
                         /\ pc[p] = "score" => Scores(p)
                         /\ pc[p] = "write" => op[p] # "recompute"
                         /\ pc[p] = "before" => op[p] # "reject"
                         /\ pc[p] = "rescore" => op[p] = "recompute"

\* The row a move has read is the row of the database until it writes.
Fresh == \A p \in Tasks : pc[p] \in {"before", "score", "write"} /\ op[p] # "recompute" =>
            /\ mine[p].r \in Runs /\ run[mine[p].r] = mine[p].row
            /\ Allowed(op[p], mine[p].row.state)

LockInv == TypeOK /\ Locked /\ Path /\ Fresh

\* Two moves are never made at once.
LEMMA Alone ==
    ASSUME Locked, NEW p \in Tasks, NEW q \in Tasks, pc[p] \in Held, pc[q] \in Held
    PROVE  p = q
  BY DEF Locked

\* No run that is moved is one that is yet to be submitted.
LEMMA AllowedIsThere ==
    ASSUME NEW o \in AllOperations, NEW state, Allowed(o, state)
    PROVE  /\ state # "none"
           /\ o \in {"approve", "reject"} => state = "pending"
           /\ o = "remove" => state = "approved"
  BY DEF Allowed, AllOperations

\* Nobody takes the lock from another, and nobody writes a run that another has read.
LEMMA LockInvStep == LockInv /\ [Next]_vars => LockInv'
<1> SUFFICES ASSUME LockInv, [Next]_vars PROVE LockInv'
  OBVIOUS
<1> USE DEF LockInv
<1>0. TypeOK'
  BY TypeOKStep DEF Path, Fresh
<1>t. Nobody \notin Tasks
  BY PointsAssumption
<1>1. ASSUME NEW r \in Runs, Submit(r) PROVE Locked' /\ Path' /\ Fresh'
  <2>1. UNCHANGED <<pc, op, mine, lock>>
    BY <1>1 DEF Submit, taskVars
  <2>2. \A x \in Runs : x # r => run'[x] = run[x]
    BY <1>1 DEF Submit, TypeOK
  <2>3. ASSUME NEW p \in Tasks, pc[p] \in {"before", "score", "write"}, op[p] # "recompute"
        PROVE  mine[p].r # r
    BY <1>1, <2>3, AllowedIsThere DEF Submit, Fresh, Path, Held
  <2>4. Fresh'
    BY <2>1, <2>2, <2>3 DEF Fresh
  <2> QED
    BY <2>1, <2>4 DEF Locked, Path, Scores
<1>2. ASSUME NEW b \in Switched, SwitchBounty(b) PROVE Locked' /\ Path' /\ Fresh'
  BY <1>2 DEF SwitchBounty, taskVars, Locked, Path, Fresh, Scores
<1>3. ASSUME NEW p \in Tasks, Lock(p) PROVE Locked' /\ Path' /\ Fresh'
  <2>1. PICK o \in Operations \ {"recompute"}, r \in Runs :
          \E f \in IF o = "edit" THEN MayBe(r) ELSE {AFeat} : Load(p, o, r, f)
    BY <1>3 DEF Lock
  <2>2. PICK f : Load(p, o, r, f)
    BY <2>1
  <2>3. /\ o \in AllOperations \ {"recompute"} /\ Allowed(o, run[r].state)
        /\ op' = [op EXCEPT ![p] = o] /\ lock' = p /\ lock = Nobody /\ UNCHANGED run
        /\ pc' = [pc EXCEPT ![p] = IF o = "reject" THEN "write" ELSE "before"]
    BY <1>3, <2>2, PointsAssumption DEF Lock, Load, Goto
  <2>4. mine'[p].r = r /\ mine'[p].row = run[r] /\ \A q \in Tasks : q # p => mine'[q] = mine[q]
    BY <2>2 DEF Load, TypeOK, Work
  <2>5. \A q \in Tasks : pc[q] \notin Held
    BY <1>t, <2>3 DEF Locked
  <2>6. /\ pc'[p] = IF o = "reject" THEN "write" ELSE "before"
        /\ op'[p] = o /\ \A q \in Tasks : q # p => pc'[q] = pc[q] /\ op'[q] = op[q]
    BY <2>3 DEF TypeOK
  <2>7. Locked'
    BY <1>t, <2>3, <2>5, <2>6 DEF Locked, Held
  <2>8. Path'
    BY <2>3, <2>5, <2>6 DEF Path, Held
  <2>9. Fresh'
    BY <2>3, <2>4, <2>5, <2>6 DEF Fresh, Held
  <2> QED
    BY <2>7, <2>8, <2>9
<1>4. ASSUME NEW p \in Tasks, LockRecompute(p) PROVE Locked' /\ Path' /\ Fresh'
  <2>1. \A q \in Tasks : pc[q] \notin Held
    BY <1>4, <1>t DEF LockRecompute, Locked
  <2>2. /\ pc'[p] = "before" /\ op'[p] = "recompute" /\ lock' = p /\ UNCHANGED <<run, mine>>
        /\ \A q \in Tasks : q # p => pc'[q] = pc[q] /\ op'[q] = op[q]
    BY <1>4 DEF LockRecompute, Goto, TypeOK
  <2>3. Locked'
    BY <1>t, <2>1, <2>2 DEF Locked, Held
  <2>4. Path'
    BY <2>1, <2>2 DEF Path, Held, AllOperations
  <2>5. Fresh'
    BY <2>1, <2>2 DEF Fresh, Held
  <2> QED
    BY <2>3, <2>4, <2>5
<1>5. ASSUME NEW p \in Tasks, ReadBoard(p) PROVE Locked' /\ Path' /\ Fresh'
  <2>1. /\ UNCHANGED <<run, op, lock>> /\ pc[p] = "before"
        /\ pc'[p] = IF Scores(p) THEN "score" ELSE "write"
        /\ \A q \in Tasks : q # p => pc'[q] = pc[q]
    BY <1>5 DEF ReadBoard, Goto, TypeOK
  <2>0. \A q \in Tasks : mine'[q].r = mine[q].r /\ mine'[q].row = mine[q].row
    BY <1>5 DEF ReadBoard, TypeOK, Work
  <2>2. op[p] = "recompute" => Scores(p)
    BY DEF Scores
  <2>3. Locked'
    BY <2>1 DEF Locked, Held
  <2>4. Path'
    BY <2>0, <2>1, <2>2 DEF Path, Held, Scores
  <2>5. Fresh'
    BY <2>0, <2>1 DEF Fresh
  <2> QED
    BY <2>3, <2>4, <2>5
<1>6. ASSUME NEW p \in Tasks, ReadBounties(p) PROVE Locked' /\ Path' /\ Fresh'
  <2>1. /\ UNCHANGED <<run, op, lock>> /\ pc[p] = "score"
        /\ pc'[p] = IF op[p] = "recompute" THEN "rescore" ELSE "write"
        /\ \A q \in Tasks : q # p => pc'[q] = pc[q]
    BY <1>6 DEF ReadBounties, Goto, TypeOK
  <2>2. /\ mine'[p].r = mine[p].r /\ mine'[p].row = mine[p].row
        /\ \A q \in Tasks : q # p => mine'[q] = mine[q]
    BY <1>6 DEF ReadBounties, TypeOK, Work
  <2>3. Locked'
    BY <2>1 DEF Locked, Held
  <2>4. Path'
    BY <2>1, <2>2 DEF Path, Held, Scores
  <2>5. Fresh'
    BY <2>1, <2>2 DEF Fresh
  <2> QED
    BY <2>3, <2>4, <2>5
<1>7. ASSUME NEW p \in Tasks, Write(p) PROVE Locked' /\ Path' /\ Fresh'
  <2>1. \A q \in Tasks : q # p => /\ pc[q] \notin Held
                                  /\ pc'[q] = pc[q] /\ op'[q] = op[q] /\ mine'[q] = mine[q]
    BY <1>7, Alone DEF Write, Held, Finish, Goto, TypeOK
  <2>2. \/ pc'[p] = "moved" /\ UNCHANGED <<op, mine, lock>>
        \/ pc'[p] = "idle" /\ lock' = Nobody
    BY <1>7 DEF Write, Finish, Goto, TypeOK
  <2>3. lock = p /\ pc[p] = "write"
    BY <1>7 DEF Write, Locked, Held
  <2>4. Locked'
    BY <1>t, <2>1, <2>2, <2>3 DEF Locked, Held
  <2>5. Path'
    BY <2>1, <2>2, <2>3 DEF Path, Held
  <2>6. Fresh'
    BY <2>1, <2>2 DEF Fresh, Held
  <2> QED
    BY <2>4, <2>5, <2>6
<1>8. ASSUME NEW p \in Tasks, Rescore(p) PROVE Locked' /\ Path' /\ Fresh'
  <2>1. \A q \in Tasks : q # p => pc[q] \notin Held /\ mine'[q] = mine[q]
    BY <1>8, Alone DEF Rescore, Held, TypeOK
  <2>2. UNCHANGED <<pc, op, lock>> /\ pc[p] = "rescore"
    BY <1>8 DEF Rescore
  <2>3. Locked'
    BY <2>2 DEF Locked
  <2>4. Path'
    BY <2>1, <2>2 DEF Path, Held
  <2>5. Fresh'
    BY <2>1, <2>2 DEF Fresh, Held
  <2> QED
    BY <2>3, <2>4, <2>5
<1>9. ASSUME NEW p \in Tasks, Rescored(p) PROVE Locked' /\ Path' /\ Fresh'
  <2>1. /\ UNCHANGED <<run, op, mine, lock>> /\ pc[p] = "rescore" /\ pc'[p] = "moved"
        /\ \A q \in Tasks : q # p => pc'[q] = pc[q]
    BY <1>9 DEF Rescored, Goto, TypeOK
  <2>2. Locked'
    BY <2>1 DEF Locked, Held
  <2>3. Path'
    BY <2>1 DEF Path, Held, Scores
  <2>4. Fresh'
    BY <2>1 DEF Fresh
  <2> QED
    BY <2>2, <2>3, <2>4
<1>10. ASSUME NEW p \in Tasks, Record(p) \/ RecordLost(p) PROVE Locked' /\ Path' /\ Fresh'
  <2>1. \A q \in Tasks : q # p => pc[q] \notin Held /\ pc'[q] = pc[q]
    BY <1>10, Alone DEF Record, RecordLost, Held, Finish, TypeOK
  <2>2. lock = p /\ pc'[p] = "idle" /\ lock' = Nobody
    BY <1>10 DEF Record, RecordLost, Locked, Held, Finish, TypeOK
  <2>3. Locked'
    BY <1>t, <2>1, <2>2 DEF Locked, Held
  <2>4. Path'
    BY <2>1, <2>2 DEF Path, Held
  <2>5. Fresh'
    BY <2>1, <2>2 DEF Fresh, Held
  <2> QED
    BY <2>3, <2>4, <2>5
<1>11. ASSUME NextDay PROVE Locked' /\ Path' /\ Fresh'
  BY <1>11 DEF NextDay, taskVars, Locked, Path, Fresh, Scores
<1>12. ASSUME Crash PROVE Locked' /\ Path' /\ Fresh'
  BY <1>12, <1>t DEF Crash, Locked, Path, Fresh, Held
<1>13. ASSUME UNCHANGED vars PROVE Locked' /\ Path' /\ Fresh'
  BY <1>13 DEF vars, Locked, Path, Fresh, Scores
<1> QED
  BY <1>0, <1>1, <1>2, <1>3, <1>4, <1>5, <1>6, <1>7, <1>8, <1>9, <1>10, <1>11, <1>12, <1>13
  DEF Next, Proceed

\* The program starts with the lock free.
LEMMA LockInvInit == Init => LockInv
<1> SUFFICES ASSUME Init PROVE LockInv
  OBVIOUS
<1>1. Nobody \notin Tasks /\ 0 \in Days
  BY PointsAssumption DEF Days
<1>2. TypeOK
  BY <1>1, Defaults DEF Init, TypeOK, Labels
<1>3. Locked /\ Path /\ Fresh
  BY <1>1 DEF Init, Locked, Path, Fresh, Held
<1> QED
  BY <1>2, <1>3 DEF LockInv

\* Between two awaits of a move nobody else makes one, and what it has read stays so.
THEOREM LockHeld == Spec => []LockInv
  BY LockInvInit, LockInvStep, PTL DEF Spec

\* Every variable of Points keeps its kind of value.
THEOREM PointsTyped == Spec => []TypeOK
<1>1. LockInv => TypeOK
  BY DEF LockInv
<1> QED
  BY <1>1, LockHeld, PTL

\* The run a decision writes is the run it has read, for any number of tasks and runs.
THEOREM DecidesWhatItRead == Spec => []NobodyIsRaced
<1>1. LockInv => NobodyIsRaced
  BY DEF LockInv, Path, Fresh, NobodyIsRaced
<1> QED
  BY <1>1, LockHeld, PTL
-------------------------------------------------------------------------------
(* The log of the top places.                                                  *)

TheBoard == Board(Counted(run))

\* The board of before is the board until the move writes.
ReadInv == \A p \in Tasks : pc[p] \in {"score", "write"} /\ op[p] # "reject" => before[p] = TheBoard

\* While a move writes, the log is at the board of before.
WriteInv == \A p \in Tasks :
               pc[p] \in {"rescore", "moved"} /\ ~history.lost => recorded = TopOf(before[p], Top)

\* Between two moves the log is at the board.
RestInv == ~history.lost /\ (\A p \in Tasks : pc[p] \notin {"rescore", "moved"})
             => recorded = TopOf(TheBoard, Top)

LogInv == LockInv /\ ReadInv /\ WriteInv /\ RestInv

\* A move that does not touch the board leaves every approved run.
LEMMA QuietWrite ==
    ASSUME LockInv, NEW p \in Tasks, Write(p), pc'[p] # "moved"
    PROVE  Counted(run') = Counted(run)
<1>1. /\ run' = run \/ run' = [run EXCEPT ![mine[p].r] = Written(p)]
      /\ pc[p] = "write" /\ p \in DOMAIN pc
  BY DEF Write, LockInv, TypeOK
<1>2. /\ op[p] \in {"approve", "reject", "remove", "edit"} /\ mine[p].r \in Runs
      /\ run[mine[p].r] = mine[p].row /\ Allowed(op[p], mine[p].row.state)
  BY <1>1 DEF LockInv, Path, Fresh, Held, AllOperations
<1>3. CASE run' = run
  BY <1>3
<1>4. CASE run' # run
  <2>1. ~MovesTheBoard(p)
    BY <1>1, <1>4 DEF Write, Goto
  <2>2. op[p] \in {"reject", "edit"} /\ mine[p].row.state # "approved"
    BY <1>2, <2>1, AllowedIsThere DEF MovesTheBoard, Scores, AllOperations
  <2>3. Written(p).state # "approved"
    BY <1>2, <2>2 DEF Written, LockInv, TypeOK, RunRows
  <2> QED
    BY <1>1, <1>2, <1>4, <2>2, <2>3, CountedSame DEF LockInv, TypeOK
<1> QED
  BY <1>3, <1>4

\* Every change of the board is in the log before the next move reads it.
LEMMA LogInvStep == LogInv /\ [Next]_vars => LogInv'
<1> SUFFICES ASSUME LogInv, [Next]_vars PROVE LogInv'
  OBVIOUS
<1> USE DEF LogInv
<1>0. LockInv' /\ LockInv
  BY LockInvStep
<1>t. TypeOK /\ Locked /\ Path
  BY DEF LockInv
<1>1. ASSUME NEW r \in Runs, Submit(r) PROVE ReadInv' /\ WriteInv' /\ RestInv'
  <2>1. Counted(run') = Counted(run)
    <3>1. PICK u \in Users, f \in Feats :
            run' = [run EXCEPT ![r] = [NoRun EXCEPT !.state = "pending", !.who = u, !.feat = f,
                                       !.sent = IF Clock = "submitted" THEN today ELSE 0]]
      BY <1>1 DEF Submit
    <3>2. \A day : [NoRun EXCEPT !.state = "pending", !.who = u, !.feat = f,
                                 !.sent = day].state = "pending"
      BY DEF NoRun
    <3> QED
      BY <1>1, <1>t, <3>1, <3>2, CountedSame DEF Submit, TypeOK
  <2>2. TheBoard' = TheBoard
    BY <2>1 DEF TheBoard
  <2> QED
    BY <1>1, <2>2 DEF Submit, taskVars, ReadInv, WriteInv, RestInv
<1>2. ASSUME NEW b \in Switched, SwitchBounty(b) PROVE ReadInv' /\ WriteInv' /\ RestInv'
  <2>1. history'.lost = history.lost
    BY <1>2, <1>t DEF SwitchBounty, TypeOK
  <2> QED
    BY <1>2, <2>1 DEF SwitchBounty, taskVars, ReadInv, WriteInv, RestInv, TheBoard
<1>3. ASSUME NEW p \in Tasks, Lock(p) \/ LockRecompute(p) PROVE ReadInv' /\ WriteInv' /\ RestInv'
  <2>1. /\ UNCHANGED <<run, recorded, before, history>>
        /\ pc[p] = "idle" /\ pc'[p] \in {"before", "write"} /\ (pc'[p] = "write" => op'[p] = "reject")
        /\ \A q \in Tasks : q # p => pc'[q] = pc[q] /\ op'[q] = op[q]
    BY <1>3, <1>t DEF Lock, LockRecompute, Load, Goto, TypeOK
  <2> QED
    BY <2>1 DEF ReadInv, WriteInv, RestInv, TheBoard
<1>4. ASSUME NEW p \in Tasks, ReadBoard(p) PROVE ReadInv' /\ WriteInv' /\ RestInv'
  <2>1. /\ UNCHANGED <<run, recorded, op, history>> /\ before'[p] = TheBoard
        /\ pc[p] = "before" /\ pc'[p] \in {"score", "write"}
        /\ \A q \in Tasks : q # p => pc'[q] = pc[q] /\ before'[q] = before[q]
    BY <1>4, <1>t DEF ReadBoard, Goto, TypeOK, TheBoard
  <2> QED
    BY <2>1 DEF ReadInv, WriteInv, RestInv, TheBoard
<1>5. ASSUME NEW p \in Tasks, ReadBounties(p) PROVE ReadInv' /\ WriteInv' /\ RestInv'
  <2>1. /\ UNCHANGED <<run, recorded, op, before, history>> /\ pc[p] = "score"
        /\ pc'[p] = IF op[p] = "recompute" THEN "rescore" ELSE "write"
        /\ \A q \in Tasks : q # p => pc'[q] = pc[q]
    BY <1>5, <1>t DEF ReadBounties, Goto, TypeOK
  <2>2. before[p] = TheBoard
    BY <1>t, <2>1 DEF ReadInv, Path, Scores
  <2>3. \A q \in Tasks : pc[q] \notin {"rescore", "moved"}
    BY <1>t, <2>1, Alone DEF Held
  <2> QED
    BY <2>1, <2>2, <2>3 DEF ReadInv, WriteInv, RestInv, TheBoard
<1>6. ASSUME NEW p \in Tasks, Write(p) PROVE ReadInv' /\ WriteInv' /\ RestInv'
  <2>1. /\ UNCHANGED <<recorded, history>> /\ pc[p] = "write"
        /\ \A q \in Tasks : q # p => pc[q] \notin Held /\ pc'[q] = pc[q]
    BY <1>6, <1>t, Alone DEF Write, Goto, Finish, Held, TypeOK
  <2>2. CASE pc'[p] = "moved"
    <3>1. before'[p] = before[p] /\ MovesTheBoard(p)
      BY <1>6, <1>t, <2>2 DEF Write, Finish, TypeOK
    <3>2. before[p] = TheBoard
      BY <2>1, <3>1 DEF ReadInv, MovesTheBoard, Scores
    <3> QED
      BY <2>1, <2>2, <3>1, <3>2 DEF ReadInv, WriteInv, RestInv, Held
  <2>3. CASE pc'[p] # "moved"
    <3>1. pc'[p] = "idle"
      BY <1>6, <1>t, <2>3 DEF Write, Finish, Goto, TypeOK
    <3>2. TheBoard' = TheBoard
      BY <1>0, <1>6, <2>3, QuietWrite DEF TheBoard
    <3> QED
      BY <2>1, <3>1, <3>2 DEF ReadInv, WriteInv, RestInv, Held
  <2> QED
    BY <2>2, <2>3
<1>7. ASSUME NEW p \in Tasks, Rescore(p) \/ Rescored(p) PROVE ReadInv' /\ WriteInv' /\ RestInv'
  <2>1. /\ UNCHANGED <<recorded, before, history>>
        /\ pc[p] = "rescore" /\ pc'[p] \in {"rescore", "moved"}
        /\ \A q \in Tasks : q # p => pc[q] \notin Held /\ pc'[q] = pc[q]
    BY <1>7, <1>t, Alone DEF Rescore, Rescored, Goto, Held, TypeOK
  <2> QED
    BY <2>1 DEF ReadInv, WriteInv, RestInv, Held
<1>8. ASSUME NEW p \in Tasks, Record(p) PROVE ReadInv' /\ WriteInv' /\ RestInv'
  <2>1. /\ UNCHANGED run /\ pc[p] = "moved" /\ pc'[p] = "idle"
        /\ recorded' = Replay(recorded, Diff(before[p], TheBoard, Top))
        /\ \A q \in Tasks : q # p => pc[q] \notin Held /\ pc'[q] = pc[q]
    BY <1>8, <1>t, Alone DEF Record, Finish, Held, TypeOK, TheBoard
  <2>2. history'.lost = history.lost
    BY <1>8, <1>t DEF Record, TypeOK
  <2>3. ~history.lost => recorded = TopOf(before[p], Top)
    BY <2>1 DEF WriteInv
  <2>4. ~history.lost => recorded' = TopOf(TheBoard, Top)
    BY <2>1, <2>3, DiffReplays
  <2> QED
    BY <2>1, <2>2, <2>4 DEF ReadInv, WriteInv, RestInv, Held, TheBoard
<1>12. ASSUME NEW p \in Tasks, RecordLost(p) PROVE ReadInv' /\ WriteInv' /\ RestInv'
  <2>1. /\ UNCHANGED run /\ pc'[p] = "idle" /\ pc[p] = "moved" /\ history'.lost
        /\ \A q \in Tasks : q # p => pc[q] \notin Held /\ pc'[q] = pc[q]
    BY <1>12, <1>t, Alone DEF RecordLost, Finish, Held, TypeOK
  <2> QED
    BY <2>1 DEF ReadInv, WriteInv, RestInv, Held
<1>9. ASSUME NextDay PROVE ReadInv' /\ WriteInv' /\ RestInv'
  BY <1>9 DEF NextDay, taskVars, ReadInv, WriteInv, RestInv, TheBoard
<1>10. ASSUME Crash PROVE ReadInv' /\ WriteInv' /\ RestInv'
  <2>1. /\ UNCHANGED <<run, recorded>> /\ \A q \in Tasks : pc'[q] = "idle"
    BY <1>10 DEF Crash
  <2>2. history'.lost = (history.lost \/ \E q \in Tasks : pc[q] \in {"rescore", "moved"})
    BY <1>10, <1>t, Zenon DEF Crash, TypeOK
  <2> QED
    BY <2>1, <2>2 DEF ReadInv, WriteInv, RestInv, TheBoard
<1>11. ASSUME UNCHANGED vars PROVE ReadInv' /\ WriteInv' /\ RestInv'
  BY <1>11 DEF vars, ReadInv, WriteInv, RestInv, TheBoard
<1> QED
  BY <1>0, <1>1, <1>2, <1>3, <1>4, <1>5, <1>6, <1>7, <1>8, <1>9, <1>10, <1>11, <1>12
  DEF Next, Proceed

\* The first board is empty, and so is the log.
LEMMA LogInvInit == Init => LogInv
<1> SUFFICES ASSUME Init PROVE LogInv
  OBVIOUS
<1>1. LockInv
  BY LockInvInit
<1>2. Approved(run) = {}
  BY DEF Init, Approved, NoRun
<1>3. DOMAIN Counted(run) = {}
  BY <1>2 DEF Counted
<1>4. DOMAIN TheBoard = {}
  BY <1>3 DEF TheBoard, Board, Standings, Totals, Members
<1>5. TopOf(TheBoard, Top) = Empty
  BY <1>4 DEF TopOf, Empty
<1>6. ReadInv /\ WriteInv /\ RestInv
  BY <1>5 DEF Init, ReadInv, WriteInv, RestInv
<1> QED
  BY <1>1, <1>6 DEF LogInv

\* Whoever replays the log has the top places whenever no move is under way, for any number
\* of members, runs and top places, unless a crash fell between a score and its row or the
\* row could not be written.
THEOREM TheLogAddsUp == Spec => []TopIsRecorded
<1>1. LogInv => TopIsRecorded
  <2> SUFFICES ASSUME LogInv, lock = Nobody, ~history.lost
               PROVE  recorded = TopOf(TheBoard, Top)
    BY DEF TopIsRecorded, TheBoard
  <2>1. \A p \in Tasks : pc[p] \notin Held
    BY PointsAssumption DEF LogInv, LockInv, Locked
  <2> QED
    BY <2>1 DEF LogInv, RestInv, Held
<1>2. Spec => []LogInv
  BY LogInvInit, LogInvStep, PTL DEF Spec
<1> QED
  BY <1>1, <1>2, PTL
-------------------------------------------------------------------------------
(* What the runs are worth.                                                    *)

\* A scored move that has yet to write judges by the bounties that hold.
LiveInv == \A p \in Tasks : pc[p] \in {"write", "rescore"} /\ Scores(p) /\ ~history.stale =>
              mine[p].live = bounties

\* A corrected run keeps its day.
DayInv == \A p \in Tasks : pc[p] \in {"score", "write"} /\ op[p] = "edit" /\ Scores(p) =>
             mine[p].day = mine[p].row.at

\* What a recompute has been through counts what it is worth.
JudgedInv == \A p \in Tasks : pc[p] \in {"rescore", "moved"} /\ op[p] = "recompute" =>
                /\ pc[p] = "moved" => mine[p].todo = {}
                /\ \A r \in Approved(run) \ mine[p].todo : Counts(run[r], mine[p].live)

WorthInv == LockInv /\ LiveInv /\ DayInv /\ JudgedInv /\ RecomputedIsCurrent

\* A scored row counts what it is worth.
LEMMA ScoredCounts ==
    ASSUME NEW row \in RunRows, NEW live \in SUBSET Bounties
    PROVE  Counts(Scored(row, Worth(row.feat, live, Judged(row, row.at))), live)
<1>1. Worth(row.feat, live, Judged(row, row.at)) \in [xp : Nat, points : Nat]
  BY WorthTyped DEF RunRows, Judged
<1> QED
  BY <1>1 DEF Counts, Scored, RunRows, Judged

\* A run a decision leaves approved counts what it is worth under the bounties of the move.
LEMMA WrittenCounts ==
    ASSUME WorthInv, NEW p \in Tasks, pc[p] = "write", Written(p).state = "approved"
    PROVE  Scores(p) /\ Counts(Written(p), mine[p].live)
<1> DEFINE row == run[mine[p].r]
<1>1. /\ op[p] \in {"approve", "reject", "remove", "edit"} /\ mine[p].r \in Runs
      /\ row = mine[p].row /\ Allowed(op[p], mine[p].row.state)
  BY DEF WorthInv, LockInv, Path, Fresh, Held, AllOperations
<1>2. row \in RunRows /\ mine[p] \in Work /\ mine[p].live \in SUBSET Bounties /\ mine[p].day \in Days
      /\ mine[p].feat \in Feats
  BY <1>1 DEF WorthInv, LockInv, TypeOK, Work
<1>3. op[p] # "reject" /\ op[p] # "remove"
  BY <1>1, <1>2 DEF Written, RunRows
<1>4. CASE op[p] = "approve"
  <2> DEFINE new == [row EXCEPT !.state = "approved", !.at = mine[p].day]
  <2>1. new \in RunRows /\ new.feat = mine[p].row.feat /\ new.at = mine[p].day
    BY <1>1, <1>2 DEF RunRows
  <2>0. Judged(new, new.at) = Judged(mine[p].row, mine[p].day)
    BY <1>1, <1>2, <2>1 DEF RunRows, Judged
  <2>2. Written(p) = Scored(new, Worth(new.feat, mine[p].live, Judged(new, new.at)))
    BY <1>4, <2>0, <2>1 DEF Written
  <2> HIDE DEF new
  <2>3. Counts(Written(p), mine[p].live)
    BY <1>2, <2>1, <2>2, ScoredCounts
  <2> QED
    BY <1>4, <2>3 DEF Scores
<1>5. CASE op[p] = "edit"
  <2> DEFINE new == [row EXCEPT !.feat = mine[p].feat]
  <2>1. mine[p].row.state = "approved"
    BY <1>1, <1>2, <1>5 DEF Written, RunRows
  <2>2. Scores(p) /\ mine[p].day = row.at
    BY <1>1, <1>5, <2>1 DEF Scores, WorthInv, DayInv
  <2>3. new \in RunRows /\ new.feat = mine[p].feat /\ new.at = mine[p].day
    BY <1>2, <2>2 DEF RunRows
  <2>5. Judged(new, new.at) = Judged(mine[p].row, mine[p].day)
    BY <1>1, <1>2, <2>3 DEF RunRows, Judged
  <2>4. Written(p) = Scored(new, Worth(new.feat, mine[p].live, Judged(new, new.at)))
    BY <1>5, <2>1, <2>3, <2>5 DEF Written
  <2> HIDE DEF new
  <2> QED
    BY <1>2, <2>2, <2>3, <2>4, ScoredCounts
<1> QED
  BY <1>1, <1>3, <1>4, <1>5

\* No move leaves a run with a score of other bounties than hold, unless they were switched.
LEMMA WorthInvStep == WorthInv /\ [Next]_vars => WorthInv'
<1> SUFFICES ASSUME WorthInv, [Next]_vars PROVE WorthInv'
  OBVIOUS
<1> USE DEF WorthInv
<1> DEFINE Others == LiveInv' /\ DayInv' /\ JudgedInv' /\ RecomputedIsCurrent'
<1>0. LockInv' /\ LockInv
  BY LockInvStep
<1>t. TypeOK /\ Locked /\ Path
  BY DEF LockInv
<1>1. ASSUME NEW r \in Runs, Submit(r) PROVE Others
  <2>1. UNCHANGED <<bounties, pc, op, mine, history>>
    BY <1>1 DEF Submit, taskVars
  <2>2. \A x \in Runs : x # r => run'[x] = run[x]
    BY <1>1, <1>t DEF Submit, TypeOK
  <2>3. run'[r].state = "pending" /\ run[r].state = "none"
    BY <1>1, <1>t DEF Submit, TypeOK, NoRun
  <2>4. Approved(run') = Approved(run) /\ \A x \in Approved(run) : run'[x] = run[x]
    BY <2>2, <2>3 DEF Approved
  <2> QED
    BY <2>1, <2>4 DEF LiveInv, DayInv, JudgedInv, RecomputedIsCurrent, Scores
<1>2. ASSUME NEW b \in Switched, SwitchBounty(b) PROVE Others
  <2>1. history'.stale /\ UNCHANGED <<run, pc, op, mine>>
    BY <1>2, <1>t DEF SwitchBounty, taskVars, TypeOK
  <2> QED
    BY <2>1 DEF LiveInv, DayInv, JudgedInv, RecomputedIsCurrent, Scores
<1>3. ASSUME NEW p \in Tasks, Lock(p) \/ LockRecompute(p) PROVE Others
  <2>1. /\ UNCHANGED <<run, bounties, history>>
        /\ pc'[p] \in {"before", "write"} /\ (pc'[p] = "write" => op'[p] = "reject")
        /\ \A q \in Tasks : q # p => pc'[q] = pc[q] /\ op'[q] = op[q]
    BY <1>3, <1>t DEF Lock, LockRecompute, Load, Goto, TypeOK
  <2>2. \A q \in Tasks : q # p => mine'[q] = mine[q]
    <3>1. CASE Lock(p)
      BY <1>t, <3>1 DEF Lock, Load, TypeOK
    <3>2. CASE LockRecompute(p)
      BY <3>2 DEF LockRecompute
    <3> QED
      BY <1>3, <3>1, <3>2
  <2> QED
    BY <2>1, <2>2 DEF LiveInv, DayInv, JudgedInv, RecomputedIsCurrent, Scores
<1>4. ASSUME NEW p \in Tasks, ReadBoard(p) PROVE Others
  <2>1. /\ UNCHANGED <<run, bounties, op, history>>
        /\ pc'[p] \in {"score", "write"} /\ (pc'[p] = "write" => ~Scores(p))
        /\ \A q \in Tasks : q # p => pc'[q] = pc[q] /\ mine'[q] = mine[q]
    BY <1>4, <1>t DEF ReadBoard, Goto, TypeOK
  <2>2. mine'[p].row = mine[p].row /\ (op[p] = "edit" => mine'[p].day = mine[p].row.at)
    BY <1>4, <1>t DEF ReadBoard, DayOf, TypeOK, Work
  <2> QED
    BY <2>1, <2>2 DEF LiveInv, DayInv, JudgedInv, RecomputedIsCurrent, Scores
<1>5. ASSUME NEW p \in Tasks, ReadBounties(p) PROVE Others
  <2>1. /\ UNCHANGED <<run, bounties, op, history>>
        /\ pc'[p] \in {"rescore", "write"}
        /\ mine'[p].live = bounties /\ mine'[p].row = mine[p].row
        /\ pc[p] = "score" /\ mine'[p].day = mine[p].day
        /\ op[p] = "recompute" => mine'[p].todo = Approved(run)
        /\ \A q \in Tasks : q # p => pc'[q] = pc[q] /\ mine'[q] = mine[q]
    BY <1>5, <1>t DEF ReadBounties, Goto, TypeOK, Work
  <2> QED
    BY <2>1 DEF LiveInv, DayInv, JudgedInv, RecomputedIsCurrent, Scores
<1>6. ASSUME NEW p \in Tasks, Write(p) PROVE Others
  <2>1. /\ UNCHANGED <<bounties, history>> /\ pc[p] = "write" /\ op[p] # "recompute"
        /\ \A q \in Tasks : q # p => /\ pc[q] \notin Held /\ pc'[q] = pc[q]
    BY <1>6, <1>t, Alone DEF Write, Goto, Finish, Held, TypeOK, Path
  <2>2. pc'[p] = "idle" \/ (pc'[p] = "moved" /\ op'[p] = op[p])
    BY <1>6, <1>t DEF Write, Goto, Finish, TypeOK
  <2>3. LiveInv' /\ DayInv' /\ JudgedInv'
    BY <2>1, <2>2 DEF LiveInv, DayInv, JudgedInv, Held
  <2>4. ASSUME ~history.stale, NEW r \in Approved(run') PROVE Counts(run'[r], bounties)
    <3>1. CASE run'[r] = run[r]
      BY <2>4, <3>1 DEF Approved, RecomputedIsCurrent
    <3>2. CASE run'[r] # run[r]
      <4>1. r = mine[p].r /\ run'[r] = Written(p)
        BY <1>6, <1>t, <3>2 DEF Write, TypeOK, Approved
      <4>2. Written(p).state = "approved"
        BY <4>1 DEF Approved
      <4>3. mine[p].live = bounties
        BY <2>1, <2>4, <4>2, WrittenCounts DEF LiveInv
      <4> QED
        BY <2>1, <4>1, <4>2, <4>3, WrittenCounts
    <3> QED
      BY <3>1, <3>2
  <2> QED
    BY <2>1, <2>3, <2>4 DEF RecomputedIsCurrent
<1>7. ASSUME NEW p \in Tasks, Rescore(p) PROVE Others
  <2>1. /\ UNCHANGED <<bounties, history, pc, op>> /\ pc[p] = "rescore" /\ op[p] = "recompute"
        /\ \A q \in Tasks : q # p => pc[q] \notin Held
    BY <1>7, <1>t, Alone DEF Rescore, Held, Path
  <2>2. PICK r \in mine[p].todo :
          /\ run' = IF run[r].state = "approved"
                     THEN [run EXCEPT ![r] = Scored(@, Worth(@.feat, mine[p].live, Judged(@, @.at)))]
                     ELSE run
          /\ mine' = [mine EXCEPT ![p].todo = @ \ {r}]
    BY <1>7 DEF Rescore
  <2>3. r \in Runs /\ run[r] \in RunRows /\ mine[p].live \in SUBSET Bounties
    BY <1>t DEF TypeOK, Work
  <2>4. mine'[p].todo = mine[p].todo \ {r} /\ mine'[p].live = mine[p].live /\ mine'[p].row = mine[p].row
    BY <1>t, <2>2 DEF TypeOK, Work
  <2>5. /\ run[r].state = "approved" => Counts(run'[r], mine[p].live)
        /\ run'[r].state = run[r].state
        /\ \A x \in Runs : x # r => run'[x] = run[x]
    BY <1>t, <2>2, <2>3, ScoredCounts DEF TypeOK, Scored, RunRows
  <2>6. LiveInv' /\ DayInv'
    BY <2>1, <2>4 DEF LiveInv, DayInv, Scores, Held
  <2>7. JudgedInv'
    BY <2>1, <2>4, <2>5 DEF JudgedInv, Held, Approved
  <2>8. ~history.stale => mine[p].live = bounties
    BY <2>1 DEF LiveInv, Scores
  <2>9. RecomputedIsCurrent'
    BY <2>1, <2>5, <2>8 DEF RecomputedIsCurrent, Approved
  <2> QED
    BY <2>6, <2>7, <2>9
<1>8. ASSUME NEW p \in Tasks, Rescored(p) PROVE Others
  <2>1. /\ UNCHANGED <<run, bounties, history, op, mine>>
        /\ pc[p] = "rescore" /\ mine[p].todo = {} /\ pc'[p] = "moved"
        /\ \A q \in Tasks : q # p => pc'[q] = pc[q]
    BY <1>8, <1>t DEF Rescored, Goto, TypeOK
  <2> QED
    BY <2>1 DEF LiveInv, DayInv, JudgedInv, RecomputedIsCurrent, Scores
<1>9. ASSUME NEW p \in Tasks, Record(p) \/ RecordLost(p) PROVE Others
  <2>1. /\ UNCHANGED <<run, bounties>> /\ pc[p] = "moved" /\ pc'[p] = "idle"
        /\ \A q \in Tasks : q # p => pc[q] \notin Held /\ pc'[q] = pc[q]
    BY <1>9, <1>t, Alone DEF Record, RecordLost, Finish, Held, TypeOK
  <2>2. LiveInv' /\ DayInv' /\ JudgedInv'
    BY <2>1 DEF LiveInv, DayInv, JudgedInv, Held
  <2>3. CASE op[p] = "recompute"
    <3>1. history'.stale = (mine[p].live # bounties)
      BY <1>9, <1>t, <2>3 DEF Record, RecordLost, Ended, TypeOK
    <3>2. \A r \in Approved(run) : Counts(run[r], mine[p].live)
      BY <2>1, <2>3 DEF JudgedInv
    <3> QED
      BY <2>1, <2>2, <3>1, <3>2 DEF RecomputedIsCurrent
  <2>4. CASE op[p] # "recompute"
    <3>1. history'.stale = history.stale
      BY <1>9, <1>t, <2>4 DEF Record, RecordLost, Ended, TypeOK
    <3> QED
      BY <2>1, <2>2, <3>1 DEF RecomputedIsCurrent
  <2> QED
    BY <2>3, <2>4
<1>10. ASSUME NextDay PROVE Others
  BY <1>10 DEF NextDay, taskVars, LiveInv, DayInv, JudgedInv, RecomputedIsCurrent, Scores
<1>11. ASSUME Crash PROVE Others
  <2>1. /\ UNCHANGED <<run, bounties>> /\ \A q \in Tasks : pc'[q] = "idle"
    BY <1>11 DEF Crash
  <2>2. history'.stale = history.stale
    BY <1>11, <1>t DEF Crash, TypeOK
  <2> QED
    BY <2>1, <2>2 DEF LiveInv, DayInv, JudgedInv, RecomputedIsCurrent
<1>12. ASSUME UNCHANGED vars PROVE Others
  BY <1>12 DEF vars, LiveInv, DayInv, JudgedInv, RecomputedIsCurrent, Scores
<1> QED
  BY <1>0, <1>1, <1>2, <1>3, <1>4, <1>5, <1>6, <1>7, <1>8, <1>9, <1>10, <1>11, <1>12
  DEF Next, Proceed

\* Nothing is approved in the beginning.
LEMMA WorthInvInit == Init => WorthInv
<1> SUFFICES ASSUME Init PROVE WorthInv
  OBVIOUS
<1>1. Approved(run) = {}
  BY DEF Init, Approved, NoRun
<1>2. LiveInv /\ DayInv /\ JudgedInv /\ RecomputedIsCurrent
  BY <1>1 DEF Init, LiveInv, DayInv, JudgedInv, RecomputedIsCurrent
<1> QED
  BY <1>2, LockInvInit DEF WorthInv

\* After a recompute every run counts what it is worth on its own day, as long as no bounty
\* is switched, for any number of runs, tasks and bounties and wherever a crash falls.
THEOREM RecomputeIsKept == Spec => []RecomputedIsCurrent
<1>1. Spec => []WorthInv
  BY WorthInvInit, WorthInvStep, PTL DEF Spec
<1>2. WorthInv => RecomputedIsCurrent
  BY DEF WorthInv
<1> QED
  BY <1>1, <1>2, PTL

-------------------------------------------------------------------------------
(* The gap, the places and the bounties.                                       *)

\* "What passing it takes": the points the card of a member names take them to the place of
\* the one above or further up, whatever is tied, on any board; this holds for every member
\* above and so for the last place of the top as well (to_top).
LEMMA GapPasses ==
    ASSUME NEW totals, RowsOf(totals), NEW u \in DOMAIN totals, NEW v \in DOMAIN totals
    PROVE  Standings([totals EXCEPT ![u].points = @ + Gap(totals, v, u)])[u]
             <= Standings(totals)[v]
<1> DEFINE passed == [totals EXCEPT ![u].points = @ + Gap(totals, v, u)]
<1>1. \A m \in DOMAIN totals : /\ totals[m].points \in Nat /\ totals[m].xp \in Nat
                               /\ totals[m].last \in Int /\ m \in Nat
  BY DEF RowsOf, Days
<1>2. /\ DOMAIN passed = DOMAIN totals
      /\ \A o \in DOMAIN totals : o # u => passed[o] = totals[o]
      /\ passed[u].points = totals[v].points + 1
      /\ passed[u].xp = totals[u].xp /\ passed[u].last = totals[u].last
  BY <1>1 DEF Gap, RowsOf
<1> HIDE DEF passed
<1>3. ~Beats(passed, u, u)
  BY <1>1, <1>2 DEF Beats
<1>4. ASSUME NEW o \in DOMAIN totals, o # u, Beats(passed, o, u) PROVE Beats(totals, o, v)
  <2>1. totals[o].points >= totals[v].points + 1
    BY <1>1, <1>2, <1>4 DEF Beats
  <2> QED
    BY <1>1, <2>1 DEF Beats
<1>5. Above(passed, u) \in SUBSET Above(totals, v)
  BY <1>2, <1>3, <1>4 DEF Above
<1>6. /\ Cardinality(Above(totals, v)) \in Nat /\ Cardinality(Above(passed, u)) \in Nat
      /\ Cardinality(Above(passed, u)) <= Cardinality(Above(totals, v))
  <2>1. Above(totals, v) \in SUBSET DOMAIN totals /\ IsFiniteSet(DOMAIN totals)
    BY DEF Above, RowsOf
  <2> QED
    BY <1>5, <2>1, FS_Subset, FS_CardinalityType
<1>7. /\ Standings(totals)[v] = 1 + Cardinality(Above(totals, v))
      /\ Standings(passed)[u] = 1 + Cardinality(Above(passed, u))
  BY <1>2 DEF Standings, Above
<1>8. Standings(passed)[u] <= Standings(totals)[v]
  BY <1>6, <1>7
<1> QED
  BY <1>8 DEF passed

\* Whichever runs are approved, by whichever bounties and on whichever days: the gap the card
\* of a member shows is one that passes the place above.
THEOREM TheGapSuffices == Spec => []GapPassesThePlaceAbove
<1>1. TypeOK => GapPassesThePlaceAbove
  <2> SUFFICES ASSUME TypeOK PROVE GapPassesThePlaceAbove
    OBVIOUS
  <2> DEFINE totals == Totals(Counted(run))
  <2>1. RowsOf(totals)
    BY TotalsTyped, PointsAssumption DEF RowsOf
  <2> HIDE DEF totals
  <2>2. Standings(totals) \in [DOMAIN totals -> 1..Cardinality(DOMAIN totals)]
    BY <2>1, PlacesOfRows DEF Bijection, Injection
  <2>3. \A m \in DOMAIN totals : Standings(totals)[m] \in Int
    BY <2>2
  <2>4. ASSUME NEW u \in DOMAIN totals, NEW v \in DOMAIN totals,
               Standings(totals)[v] = Standings(totals)[u] - 1
        PROVE  Standings([totals EXCEPT ![u].points = @ + Gap(totals, v, u)])[u]
                 < Standings(totals)[u]
    <3> DEFINE place == Standings([totals EXCEPT ![u].points = @ + Gap(totals, v, u)])[u]
    <3>1. place <= Standings(totals)[v]
      BY <2>1, GapPasses
    <3>2. place \in Int
      <4> DEFINE passed == [totals EXCEPT ![u].points = @ + Gap(totals, v, u)]
      <4>1. DOMAIN passed = DOMAIN totals
        OBVIOUS
      <4> HIDE DEF passed
      <4>2. Cardinality({o \in DOMAIN passed : Beats(passed, o, u)}) \in Int
        <5>1. {o \in DOMAIN passed : Beats(passed, o, u)} \in SUBSET DOMAIN totals
          BY <4>1
        <5> QED
          BY <2>1, <5>1, FS_Subset, FS_CardinalityType DEF RowsOf
      <4>3. Standings(passed)[u] \in Int
        BY <4>1, <4>2 DEF Standings
      <4> QED
        BY <4>3 DEF passed
    <3> HIDE DEF place
    <3>3. place < Standings(totals)[u]
      BY <2>3, <2>4, <3>1, <3>2
    <3> QED
      BY <3>3 DEF place
  <2> QED
    BY <2>2, <2>4 DEF GapPassesThePlaceAbove, totals
<1> QED
  BY <1>1, PointsTyped, PTL

\* Whatever is tied, the places of the board are 1, 2, 3 and so on, none of them twice and
\* none left out: for any members and any runs.
THEOREM PlacesAreTaken ==
    Spec => [](Board(Counted(run)) \in
                   Bijection(Members(Counted(run)), 1..Cardinality(Members(Counted(run)))))
<1> DEFINE counted == Counted(run)
<1>1. TypeOK => Board(counted) \in Bijection(Members(counted), 1..Cardinality(Members(counted)))
  <2> SUFFICES ASSUME TypeOK
               PROVE  Board(counted) \in
                         Bijection(Members(counted), 1..Cardinality(Members(counted)))
    OBVIOUS
  <2>1. RowsOf(Totals(counted))
    BY TotalsTyped, PointsAssumption DEF RowsOf
  <2>2. DOMAIN Totals(counted) = Members(counted)
    BY DEF Totals
  <2> HIDE DEF counted
  <2>3. Standings(Totals(counted)) \in
           Bijection(DOMAIN Totals(counted), 1..Cardinality(DOMAIN Totals(counted)))
    BY <2>1, PlacesOfRows
  <2> QED
    BY <2>2, <2>3 DEF Board
<1> QED
  BY <1>1, PointsTyped, PTL

\* Whatever bounties are set, the best offer takes a run that is approved, and the oldest of
\* those that are as good: for any rules, any finite number of bounties and any day.
THEOREM TheBestBountyWins == Spec => []BestBountyWins
<1>1. BestBountyWins
  BY GetsIt DEF BestBountyWins
<1> QED
  BY <1>1, PTL
================================================================================
