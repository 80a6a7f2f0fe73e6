--------------------------- MODULE RankingProofs ---------------------------
(***************************************************************************)
(* What is left out of a table, for every set of entries, score, order and *)
(* limit; and the laws of sums over finite sets that the counts of the     *)
(* reports rest on.                                                        *)
(***************************************************************************)
EXTENDS Ranking, Sums, FiniteSetTheorems, WellFoundedInduction, TLAPS

LEMMA LeastOf ==
    ASSUME NEW N, N \subseteq Nat, N # {}
    PROVE  \E c \in N : \A d \in N : c <= d
<1>1. PICK c \in N : \A d \in N : ~(<<d, c>> \in OpToRel(<, Nat))
  BY NatLessThanWellFounded, WFMin
<1>2. \A d \in N : ~(d < c)
  BY <1>1 DEF OpToRel
<1>. QED
  BY <1>2

\* The comparator is a strict order on the entries.
LEMMA BeforeIsStrict ==
    ASSUME NEW S, IsFiniteSet(S), NEW score \in [S -> Int], NEW order \in [S -> Int],
           NEW x \in S, NEW y \in Before(S, x, score, order)
    PROVE  Before(S, y, score, order) \subseteq Before(S, x, score, order) \ {y}
BY DEF Before

LEMMA BeforeIsFinite ==
    ASSUME NEW S, IsFiniteSet(S), NEW score, NEW order, NEW x
    PROVE  /\ IsFiniteSet(Before(S, x, score, order))
           /\ Cardinality(Before(S, x, score, order)) \in Nat
<1>1. Before(S, x, score, order) \in SUBSET S
  BY DEF Before
<1>. QED
  BY <1>1, FS_Subset, FS_CardinalityType

LEMMA EarlierIsFewer ==
    ASSUME NEW S, IsFiniteSet(S), NEW score \in [S -> Int], NEW order \in [S -> Int],
           NEW x \in S, NEW y \in Before(S, x, score, order)
    PROVE  Cardinality(Before(S, y, score, order)) < Cardinality(Before(S, x, score, order))
<1> DEFINE bx == Before(S, x, score, order)
           by == Before(S, y, score, order)
<1>1. by \in SUBSET (bx \ {y})
  BY BeforeIsStrict
<1>2. IsFiniteSet(bx) /\ Cardinality(bx) \in Nat /\ Cardinality(by) \in Nat
  BY BeforeIsFinite
<1>3. y \in bx
  OBVIOUS
<1>. HIDE DEF bx, by
<1>4. IsFiniteSet(bx \ {y}) /\ Cardinality(bx \ {y}) = Cardinality(bx) - 1
  BY <1>2, <1>3, FS_RemoveElement
<1>5. Cardinality(by) <= Cardinality(bx \ {y})
  BY <1>1, <1>4, FS_Subset
<1>6. Cardinality(by) < Cardinality(bx)
  BY <1>2, <1>4, <1>5
<1>. QED
  BY <1>6 DEF bx, by

\* An entry left out has at most the score of every entry shown.
THEOREM LeftOutScoresLess ==
    ASSUME NEW S, IsFiniteSet(S), NEW score \in [S -> Int], NEW order \in [S -> Int],
           NEW limit \in Nat,
           NEW x \in Shown(S, score, order, limit),
           NEW y \in S, y \notin Shown(S, score, order, limit)
    PROVE  score[y] <= score[x]
<1>1. x \in S /\ score[x] \in Int /\ score[y] \in Int
  BY DEF Shown
<1>2. SUFFICES ASSUME score[y] > score[x] PROVE FALSE
  BY <1>1
<1>3. y \in Before(S, x, score, order)
  BY <1>2 DEF Before
<1>4. Cardinality(Before(S, y, score, order)) < Cardinality(Before(S, x, score, order))
  BY <1>1, <1>3, EarlierIsFewer
<1>5. /\ Cardinality(Before(S, x, score, order)) \in Nat
      /\ Cardinality(Before(S, y, score, order)) \in Nat
  BY BeforeIsFinite
<1>6. Cardinality(Before(S, x, score, order)) < limit
  BY DEF Shown
<1>7. ~(Cardinality(Before(S, y, score, order)) < limit)
  BY DEF Shown
<1>. QED
  BY <1>4, <1>5, <1>6, <1>7

\* Something is left out only of a full table.
THEOREM LeftOutOfFullTable ==
    ASSUME NEW S, IsFiniteSet(S), NEW score \in [S -> Int], NEW order \in [S -> Int],
           NEW limit \in Nat,
           NEW y \in S, y \notin Shown(S, score, order, limit)
    PROVE  /\ Cardinality(Shown(S, score, order, limit)) >= limit
           /\ IsFiniteSet(Shown(S, score, order, limit))
<1> DEFINE shown == Shown(S, score, order, limit)
           rank(x) == Cardinality(Before(S, x, score, order))
           ranks == { rank(x) : x \in S \ shown }
<1>1. \A x \in S : rank(x) \in Nat
  BY BeforeIsFinite
<1>2. ranks \subseteq Nat /\ ranks # {}
  BY <1>1
<1>3. PICK x \in S \ shown : \A z \in S \ shown : rank(x) <= rank(z)
  <2>. HIDE DEF rank
  <2>1. PICK c \in ranks : \A d \in ranks : c <= d
    BY <1>2, LeastOf
  <2>. QED
    BY <2>1
<1>4. Before(S, x, score, order) \in SUBSET shown
  <2>1. SUFFICES ASSUME NEW z \in Before(S, x, score, order) PROVE z \in shown
    OBVIOUS
  <2>2. z \in S /\ rank(z) < rank(x)
    BY <2>1, EarlierIsFewer DEF Before
  <2>3. rank(z) \in Nat /\ rank(x) \in Nat
    BY <1>1, <2>2
  <2>. HIDE DEF rank, shown
  <2>. QED
    BY <1>3, <2>2, <2>3
<1>5. IsFiniteSet(shown) /\ Cardinality(shown) \in Nat
  <2>1. shown \in SUBSET S
    BY DEF Shown
  <2>. HIDE DEF shown
  <2>. QED
    BY <2>1, FS_Subset, FS_CardinalityType
<1>6. Cardinality(Before(S, x, score, order)) <= Cardinality(shown)
  <2>. HIDE DEF shown
  <2>. QED
    BY <1>4, <1>5, FS_Subset
<1>7. ~(rank(x) < limit)
  BY <1>3 DEF Shown
<1>. QED
  BY <1>1, <1>3, <1>5, <1>6, <1>7

-----------------------------------------------------------------------------
(***************************************************************************)
(* Sums over finite sets.  MapThenSumSet is a recursive function on the    *)
(* subsets of its set that takes its elements in an order it chooses: the  *)
(* function exists, and the order makes no difference.                     *)
(***************************************************************************)
Pick(s) == CHOOSE x \in s : TRUE
Rest(s) == s \ {Pick(s)}

SumTable(g, f, S) ==
    g = [s \in SUBSET S |-> IF s = {} THEN 0 ELSE f[Pick(s)] + g[Rest(s)]]

LEMMA SmallestOf ==
    ASSUME NEW S, IsFiniteSet(S), NEW B, B \subseteq SUBSET S, B # {}
    PROVE  \E T \in B : \A V \in B : V \subseteq T => V = T
<1>1. B \subseteq FiniteSubsetsOf(S)
  BY FS_FiniteSubsetsOfFinite
<1>2. PICK T \in B : \A V \in B : ~ (<<V, T>> \in StrictSubsetOrdering(S))
  BY <1>1, FS_StrictSubsetOrderingWellFounded, WFMin
<1> QED BY <1>2 DEF StrictSubsetOrdering

LEMMA PickAndRest ==
    ASSUME NEW s, s # {}
    PROVE  /\ Pick(s) \in s /\ Rest(s) \subseteq s /\ Rest(s) # s
           /\ s = Rest(s) \cup {Pick(s)} /\ Pick(s) \notin Rest(s)
BY DEF Pick, Rest

LEMMA SumUnfold ==
    ASSUME NEW f, NEW S
    PROVE  SumOver(f, S) = (CHOOSE g : SumTable(g, f, S))[S]
BY DEF SumOver, MapThenSumSet, MapThenFoldSet, SumTable, Pick, Rest

LEMMA SumTableAt ==
    ASSUME NEW f, NEW S, NEW g, SumTable(g, f, S), NEW s \in SUBSET S
    PROVE  g[s] = IF s = {} THEN 0 ELSE f[Pick(s)] + g[Rest(s)]
<1> DEFINE F(t) == IF t = {} THEN 0 ELSE f[Pick(t)] + g[Rest(t)]
<1>1. g = [t \in SUBSET S |-> F(t)]
  BY DEF SumTable
<1> HIDE DEF F
<1>2. g[s] = F(s)
  BY <1>1
<1> QED BY <1>2 DEF F

\* Two such functions agree where both are defined.
LEMMA SumTablesAgree ==
    ASSUME NEW f, NEW S, IsFiniteSet(S), NEW T \in SUBSET S, NEW g, NEW h,
           SumTable(g, f, S), SumTable(h, f, T)
    PROVE  g[T] = h[T]
<1> DEFINE B == { s \in SUBSET T : g[s] # h[s] }
<1> SUFFICES ASSUME B # {} PROVE FALSE
  OBVIOUS
<1>1. B \subseteq SUBSET S
  OBVIOUS
<1>2. PICK s \in B : \A V \in B : V \subseteq s => V = s
  <2> HIDE DEF B
  <2> QED BY <1>1, SmallestOf
<1>3. s \in SUBSET T /\ s \in SUBSET S /\ g[s] # h[s]
  OBVIOUS
<1>4. /\ g[s] = IF s = {} THEN 0 ELSE f[Pick(s)] + g[Rest(s)]
      /\ h[s] = IF s = {} THEN 0 ELSE f[Pick(s)] + h[Rest(s)]
  BY <1>3, SumTableAt
<1>5. s # {}
  BY <1>3, <1>4
<1>6. Rest(s) \in SUBSET T /\ Rest(s) \notin B
  BY <1>2, <1>3, <1>5, PickAndRest
<1>7. g[Rest(s)] = h[Rest(s)]
  BY <1>6
<1> QED BY <1>3, <1>4, <1>5, <1>7

LEMMA SumTableExists ==
    ASSUME NEW f, NEW S, IsFiniteSet(S)
    PROVE  \E g : SumTable(g, f, S)
<1> DEFINE B == { T \in SUBSET S : ~ \E g : SumTable(g, f, T) }
<1> SUFFICES ASSUME B # {} PROVE FALSE
  OBVIOUS
<1>1. PICK T \in B : \A V \in B : V \subseteq T => V = T
  <2>1. B \subseteq SUBSET S
    OBVIOUS
  <2> HIDE DEF B
  <2> QED BY <2>1, SmallestOf
<1>2. T \in SUBSET S /\ ~ \E g : SumTable(g, f, T)
  OBVIOUS
<1> DEFINE h(u) == CHOOSE g : SumTable(g, f, u)
<1>3. ASSUME NEW u \in SUBSET T, u # T
      PROVE  SumTable(h(u), f, u) /\ IsFiniteSet(u)
  <2>1. u \in SUBSET S /\ u \notin B
    BY <1>1, <1>2, <1>3
  <2>2. \E g : SumTable(g, f, u)
    BY <2>1
  <2> QED BY <2>1, <2>2, FS_Subset
<1> HIDE DEF h, B
<1> DEFINE v(s) == IF s = {} THEN 0 ELSE f[Pick(s)] + h(Rest(s))[Rest(s)]
           G == [s \in SUBSET T |-> v(s)]
<1>4. ASSUME NEW w \in SUBSET T, w # T
      PROVE  v(w) = h(w)[w]
  <2>1. h(w)[w] = IF w = {} THEN 0 ELSE f[Pick(w)] + h(w)[Rest(w)]
    BY <1>3, <1>4, SumTableAt
  <2>2. CASE w = {}
    BY <2>1, <2>2
  <2>3. CASE w # {}
    <3>1. Rest(w) \in SUBSET w /\ Rest(w) \in SUBSET T /\ Rest(w) # T
      BY <1>4, <2>3, PickAndRest
    <3>2. SumTable(h(w), f, w) /\ IsFiniteSet(w) /\ SumTable(h(Rest(w)), f, Rest(w))
      BY <1>3, <1>4, <3>1
    <3>3. h(w)[Rest(w)] = h(Rest(w))[Rest(w)]
      BY <3>1, <3>2, SumTablesAgree
    <3> QED BY <2>1, <2>3, <3>3
  <2> QED BY <2>2, <2>3
<1>5. ASSUME NEW s \in SUBSET T, s # {}
      PROVE  v(s) = f[Pick(s)] + G[Rest(s)]
  <2>1. Rest(s) \in SUBSET T /\ Rest(s) # T
    BY <1>5, PickAndRest
  <2>2. G[Rest(s)] = h(Rest(s))[Rest(s)]
    BY <1>4, <2>1
  <2> QED BY <1>5, <2>2
<1>6. G = [s \in SUBSET T |-> IF s = {} THEN 0 ELSE f[Pick(s)] + G[Rest(s)]]
  <2>1. \A s \in SUBSET T : v(s) = IF s = {} THEN 0 ELSE f[Pick(s)] + G[Rest(s)]
    BY <1>5
  <2> QED BY <2>1, Zenon
<1> QED BY <1>2, <1>6 DEF SumTable

-----------------------------------------------------------------------------
LEMMA SumOfNone ==
    ASSUME NEW f PROVE SumOver(f, {}) = 0
<1>1. PICK g : SumTable(g, f, {})
  BY FS_EmptySet, SumTableExists
<1>2. SumTable(CHOOSE h : SumTable(h, f, {}), f, {})
  BY <1>1
<1>3. (CHOOSE h : SumTable(h, f, {}))[{}] = 0
  BY <1>2, SumTableAt
<1> QED BY <1>3, SumUnfold

LEMMA SumStep ==
    ASSUME NEW f, NEW S, IsFiniteSet(S), S # {}
    PROVE  SumOver(f, S) = f[Pick(S)] + SumOver(f, Rest(S))
<1> DEFINE h(u) == CHOOSE g : SumTable(g, f, u)
<1>1. Rest(S) \in SUBSET S /\ IsFiniteSet(Rest(S))
  BY PickAndRest, FS_Subset
<1>2. SumTable(h(S), f, S) /\ SumTable(h(Rest(S)), f, Rest(S))
  BY <1>1, SumTableExists
<1>3. SumOver(f, S) = h(S)[S] /\ SumOver(f, Rest(S)) = h(Rest(S))[Rest(S)]
  BY SumUnfold
<1> HIDE DEF h
<1>4. h(S)[S] = f[Pick(S)] + h(S)[Rest(S)]
  BY <1>2, SumTableAt
<1>5. h(S)[Rest(S)] = h(Rest(S))[Rest(S)]
  BY <1>1, <1>2, SumTablesAgree
<1> QED BY <1>3, <1>4, <1>5

LEMMA SumIsInt ==
    ASSUME NEW f, NEW S, IsFiniteSet(S), \A y \in S : f[y] \in Int
    PROVE  SumOver(f, S) \in Int
<1> DEFINE B == { T \in SUBSET S : SumOver(f, T) \notin Int }
<1> SUFFICES ASSUME B # {} PROVE FALSE
  OBVIOUS
<1>1. PICK T \in B : \A V \in B : V \subseteq T => V = T
  <2>1. B \subseteq SUBSET S
    OBVIOUS
  <2> HIDE DEF B
  <2> QED BY <2>1, SmallestOf
<1>2. T \in SUBSET S /\ SumOver(f, T) \notin Int /\ IsFiniteSet(T)
  BY FS_Subset
<1>3. T # {}
  BY <1>2, SumOfNone
<1>4. Rest(T) \in SUBSET S /\ Rest(T) \notin B /\ f[Pick(T)] \in Int
  BY <1>1, <1>2, <1>3, PickAndRest
<1>5. SumOver(f, Rest(T)) \in Int
  BY <1>4
<1> QED BY <1>2, <1>3, <1>4, <1>5, SumStep

\* The order makes no difference: any element may be taken out.
LEMMA SumTakeOut ==
    ASSUME NEW f, NEW S, IsFiniteSet(S), \A y \in S : f[y] \in Int, NEW x \in S
    PROVE  SumOver(f, S) = SumOver(f, S \ {x}) + f[x]
<1> DEFINE Good(T, e) == SumOver(f, T) = SumOver(f, T \ {e}) + f[e]
           B == { T \in SUBSET S : \E e \in T : ~ Good(T, e) }
<1> SUFFICES ASSUME B # {} PROVE FALSE
  OBVIOUS
<1>1. PICK T \in B : \A V \in B : V \subseteq T => V = T
  <2>1. B \subseteq SUBSET S
    OBVIOUS
  <2> HIDE DEF B
  <2> QED BY <2>1, SmallestOf
<1>2. T \in SUBSET S /\ IsFiniteSet(T) /\ (\E e \in T : ~ Good(T, e))
  BY FS_Subset
<1>3. PICK e \in T : ~ Good(T, e)
  BY <1>2
<1> DEFINE p == Pick(T)
<1>4. p \in T /\ Rest(T) = T \ {p} /\ Rest(T) # T
  BY <1>3, PickAndRest DEF Rest
<1>5. SumOver(f, T) = f[p] + SumOver(f, T \ {p})
  BY <1>2, <1>4, SumStep
<1> HIDE DEF p
<1>6. /\ \A V \in SUBSET T : IsFiniteSet(V) /\ SumOver(f, V) \in Int
      /\ f[p] \in Int /\ f[e] \in Int
  BY <1>2, <1>4, FS_Subset, SumIsInt
<1>7. \A V \in SUBSET T : \A d \in V : V # T => Good(V, d)
  BY <1>1, <1>2
<1>8. SumOver(f, (T \ {e}) \ {p}) \in Int /\ SumOver(f, T \ {e}) \in Int /\ SumOver(f, T \ {p}) \in Int
  <2>1. (T \ {e}) \ {p} \in SUBSET T /\ T \ {e} \in SUBSET T /\ T \ {p} \in SUBSET T
    OBVIOUS
  <2> QED BY <1>6, <2>1
<1>9. e # p
  <2> DEFINE sum == SumOver(f, T \ {p})
             fp  == f[p]
  <2>1. sum \in Int /\ fp \in Int /\ SumOver(f, T) = fp + sum
    BY <1>5, <1>6, <1>8
  <2> HIDE DEF sum, fp
  <2>2. SumOver(f, T) = sum + fp
    BY <2>1
  <2>3. Good(T, p)
    BY <2>2, Zenon DEF sum, fp
  <2> QED BY <1>3, <2>3
<1>10. /\ SumOver(f, T \ {p}) = SumOver(f, (T \ {p}) \ {e}) + f[e]
       /\ SumOver(f, T \ {e}) = SumOver(f, (T \ {e}) \ {p}) + f[p]
  BY <1>3, <1>4, <1>7, <1>9
<1>11. (T \ {p}) \ {e} = (T \ {e}) \ {p}
  OBVIOUS
<1>12. Good(T, e)
  <2> DEFINE both == SumOver(f, (T \ {e}) \ {p})
             noP  == SumOver(f, T \ {p})
             noE  == SumOver(f, T \ {e})
             fp   == f[p]
             fe   == f[e]
  <2>1. /\ both \in Int /\ fp \in Int /\ fe \in Int
        /\ SumOver(f, T) = fp + noP /\ noP = both + fe /\ noE = both + fp
    BY <1>5, <1>6, <1>8, <1>10, <1>11
  <2> HIDE DEF both, noP, noE, fp, fe
  <2>2. SumOver(f, T) = noE + fe
    BY <2>1
  <2> QED BY <2>2, Zenon DEF noE, fe
<1> QED BY <1>3, <1>12

\* One element more.
LEMMA SumPut ==
    ASSUME NEW f, NEW S, IsFiniteSet(S), NEW x, x \notin S, f[x] \in Int,
           \A y \in S : f[y] \in Int
    PROVE  /\ SumOver(f, S \cup {x}) = SumOver(f, S) + f[x]
           /\ SumOver(f, S) \in Int
<1> DEFINE T == S \cup {x}
<1>1. IsFiniteSet(T) /\ x \in T /\ T \ {x} = S
  BY FS_AddElement
<1>2. \A y \in T : f[y] \in Int
  OBVIOUS
<1> HIDE DEF T
<1>3. SumOver(f, T) = SumOver(f, T \ {x}) + f[x]
  BY <1>1, <1>2, SumTakeOut
<1> QED BY <1>1, <1>3, SumIsInt DEF T

\* Only the values on the set count.
LEMMA SumSame ==
    ASSUME NEW f, NEW g, NEW S, IsFiniteSet(S), \A y \in S : f[y] = g[y]
    PROVE  SumOver(f, S) = SumOver(g, S)
<1> DEFINE B == { T \in SUBSET S : SumOver(f, T) # SumOver(g, T) }
<1> SUFFICES ASSUME B # {} PROVE FALSE
  OBVIOUS
<1>1. PICK T \in B : \A V \in B : V \subseteq T => V = T
  <2>1. B \subseteq SUBSET S
    OBVIOUS
  <2> HIDE DEF B
  <2> QED BY <2>1, SmallestOf
<1>2. T \in SUBSET S /\ IsFiniteSet(T) /\ SumOver(f, T) # SumOver(g, T)
  BY FS_Subset
<1>3. T # {}
  BY <1>2, SumOfNone
<1>4. /\ SumOver(f, T) = f[Pick(T)] + SumOver(f, Rest(T))
      /\ SumOver(g, T) = g[Pick(T)] + SumOver(g, Rest(T))
  BY <1>2, <1>3, SumStep
<1>5. Pick(T) \in S /\ Rest(T) \in SUBSET S /\ Rest(T) \notin B
  BY <1>1, <1>2, <1>3, PickAndRest
<1>6. f[Pick(T)] = g[Pick(T)] /\ SumOver(f, Rest(T)) = SumOver(g, Rest(T))
  BY <1>5
<1> QED BY <1>2, <1>4, <1>6

\* One value raised.
LEMMA SumRaise ==
    ASSUME NEW f, NEW g, NEW S, IsFiniteSet(S), NEW x \in S, NEW d \in Int,
           \A y \in S : f[y] \in Int,
           \A y \in S : g[y] = IF y = x THEN f[y] + d ELSE f[y]
    PROVE  SumOver(g, S) = SumOver(f, S) + d
<1> DEFINE T == S \ {x}
<1>1. IsFiniteSet(T) /\ \A y \in T : g[y] = f[y]
  BY FS_RemoveElement
<1>2. \A y \in S : g[y] \in Int
  OBVIOUS
<1>3. /\ SumOver(f, S) = SumOver(f, T) + f[x]
      /\ SumOver(g, S) = SumOver(g, T) + g[x]
  BY <1>2, SumTakeOut
<1> DEFINE restF == SumOver(f, T)
           restG == SumOver(g, T)
           fx == f[x]
           gx == g[x]
<1>4. restF \in Int /\ fx \in Int
  BY <1>1, SumIsInt
<1> HIDE DEF T
<1>5. restG = restF
  BY <1>1, SumSame
<1>6. gx = fx + d
  OBVIOUS
<1> HIDE DEF restF, restG, fx, gx
<1>7. restF + (fx + d) = (restF + fx) + d
  BY <1>4
<1>8. SumOver(f, S) = restF + fx /\ SumOver(g, S) = restG + gx
  BY <1>3 DEF restF, restG, fx, gx
<1> QED BY <1>5, <1>6, <1>7, <1>8

\* Values of at least c each.
LEMMA SumAtLeast ==
    ASSUME NEW f, NEW S, IsFiniteSet(S), NEW c \in Nat,
           \A y \in S : f[y] \in Int /\ c <= f[y]
    PROVE  c * Cardinality(S) <= SumOver(f, S)
<1> DEFINE B == { T \in SUBSET S : ~ (c * Cardinality(T) <= SumOver(f, T)) }
<1> SUFFICES ASSUME B # {} PROVE FALSE
  BY Zenon
<1>1. PICK T \in B : \A V \in B : V \subseteq T => V = T
  <2>1. B \subseteq SUBSET S
    OBVIOUS
  <2> HIDE DEF B
  <2> QED BY <2>1, SmallestOf
<1>2. T \in SUBSET S /\ IsFiniteSet(T) /\ ~ (c * Cardinality(T) <= SumOver(f, T))
  BY FS_Subset
<1>3. T # {}
  <2>1. c * 0 = 0
    OBVIOUS
  <2>2. SumOver(f, {}) = 0 /\ Cardinality({}) = 0
    BY SumOfNone, FS_EmptySet
  <2> QED BY <1>2, <2>1, <2>2
<1>4. /\ Pick(T) \in T /\ Rest(T) \in SUBSET S /\ Rest(T) \notin B
      /\ Rest(T) = T \ {Pick(T)} /\ IsFiniteSet(Rest(T))
  BY <1>1, <1>2, <1>3, PickAndRest, FS_Subset DEF Rest
<1> DEFINE n == Cardinality(Rest(T))
           sum == SumOver(f, Rest(T))
           fp == f[Pick(T)]
<1>5. c * n <= sum
  BY <1>4
<1>6. n \in Nat /\ Cardinality(T) = n + 1
  BY <1>2, <1>4, FS_RemoveElement, FS_CardinalityType
<1>7. sum \in Int /\ fp \in Int /\ c <= fp
  BY <1>2, <1>4, SumIsInt
<1>8. SumOver(f, T) = fp + sum
  BY <1>2, <1>3, SumStep
<1> HIDE DEF n, sum, fp
<1>9. c * (n + 1) = c * n + c /\ c * n \in Int
  BY <1>6
<1>10. c * n + c <= fp + sum
  BY <1>5, <1>7, <1>9
<1> QED BY <1>2, <1>6, <1>8, <1>9, <1>10
=============================================================================
