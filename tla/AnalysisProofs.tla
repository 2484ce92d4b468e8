--------------------------- MODULE AnalysisProofs ---------------------------
(***************************************************************************)
(* Proofs about the correlation and the fraud worker: the episodes that    *)
(* are stored, the alerts and the audit chain (Analysis).                  *)
(***************************************************************************)
EXTENDS Analysis, FiniteSetTheorems, SequenceTheorems, WellFoundedInduction, TLAPS

-----------------------------------------------------------------------------
(* Loops over finite sets.                                                 *)

(* A set of subsets of a finite set that is not empty has a smallest member. *)
LEMMA SmallestSubset ==
    ASSUME NEW S, IsFiniteSet(S), NEW B, B \subseteq SUBSET S, B # {}
    PROVE  \E s \in B : \A u \in B : u \subseteq s => u = s
<1>1. IsWellFoundedOn(StrictSubsetOrdering(S), SUBSET S)
  BY FS_StrictSubsetOrderingWellFounded, FS_FiniteSubsetsOfFinite
<1>2. PICK s \in B : \A u \in B : ~(<<u, s>> \in StrictSubsetOrdering(S))
  BY <1>1, WFMin
<1>3. ASSUME NEW u \in B, u \subseteq s, u # s  PROVE FALSE
  <2>1. <<u, s>> \in StrictSubsetOrdering(S)
    BY <1>3 DEF StrictSubsetOrdering
  <2> QED  BY <1>2, <2>1
<1> QED  BY <1>3

(* What holds before the loop and is kept by every pass holds after it.      *)
LEMMA LoopKeeps ==
    ASSUME NEW S, IsFiniteSet(S), NEW h, NEW G, h[{}] \in G[{}],
           \A s \in SUBSET S : s # {} => \E x \in s : h[s \ {x}] \in G[s \ {x}] => h[s] \in G[s]
    PROVE  \A s \in SUBSET S : h[s] \in G[s]
<1> DEFINE B == {s \in SUBSET S : h[s] \notin G[s]}
<1> SUFFICES ASSUME B # {} PROVE FALSE
  OBVIOUS
<1>1. PICK s \in B : \A u \in B : u \subseteq s => u = s
  <2>1. B \subseteq SUBSET S
    OBVIOUS
  <2> HIDE DEF B
  <2> QED  BY <2>1, SmallestSubset
<1>2. s # {}
  BY <1>1
<1>3. PICK x \in s : h[s \ {x}] \in G[s \ {x}] => h[s] \in G[s]
  BY <1>2
<1>4. s \ {x} \in SUBSET S /\ s \ {x} \subseteq s /\ s \ {x} # s
  BY <1>3
<1>5. s \ {x} \notin B
  BY <1>1, <1>4
<1> QED  BY <1>1, <1>3, <1>4, <1>5

Passes(h, T, start, op, pick) ==
    h = [s \in T |-> IF s = {} THEN start ELSE op[pick[s], h[s \ {pick[s]}]]]

UpTo(S, n) == {s \in SUBSET S : Cardinality(s) <= n}
Solved(S, V, start, op, pick, n) ==
    \E h \in [UpTo(S, n) -> V] : Passes(h, UpTo(S, n), start, op, pick)

(* A loop over sets of up to n elements extends to sets of one more.         *)
LEMMA LoopGrows ==
    ASSUME NEW S, IsFiniteSet(S), NEW V, NEW start \in V, NEW op \in [S \X V -> V],
           NEW pick, \A s \in SUBSET S : s # {} => pick[s] \in s,
           NEW n \in Nat, Solved(S, V, start, op, pick, n)
    PROVE  Solved(S, V, start, op, pick, n + 1)
<1> DEFINE U == UpTo(S, n)
           W == UpTo(S, n + 1)
<1>0. \A s \in SUBSET S : IsFiniteSet(s) /\ Cardinality(s) \in Nat
  BY FS_Subset, FS_CardinalityType
<1>1. \A s \in SUBSET S : s # {} =>
         s \ {pick[s]} \in SUBSET S /\ Cardinality(s \ {pick[s]}) = Cardinality(s) - 1
  BY <1>0, FS_RemoveElement
<1>2. \A s \in W : s # {} => s \ {pick[s]} \in U /\ pick[s] \in S
  BY <1>0, <1>1 DEF UpTo
<1>3. \A s \in U : s \in W
  BY <1>0 DEF UpTo
<1> HIDE DEF U, W
<1>4. PICK h \in [U -> V] : Passes(h, U, start, op, pick)
  BY DEF Solved, U
<1>5. \A s \in U : h[s] = IF s = {} THEN start ELSE op[pick[s], h[s \ {pick[s]}]]
  BY <1>4 DEF Passes
<1> DEFINE g == [s \in W |-> IF s = {} THEN start ELSE op[pick[s], h[s \ {pick[s]}]]]
<1>6. \A s \in W : s # {} => op[pick[s], h[s \ {pick[s]}]] \in V
  <2> SUFFICES ASSUME NEW s \in W, s # {} PROVE op[pick[s], h[s \ {pick[s]}]] \in V
    OBVIOUS
  <2>1. h[s \ {pick[s]}] \in V /\ pick[s] \in S
    BY <1>2, <1>4
  <2>2. <<pick[s], h[s \ {pick[s]}]>> \in S \X V
    BY <2>1
  <2> QED  BY <2>2
<1>7. g \in [W -> V]
  BY <1>6
<1>8. \A s \in U : g[s] = h[s]
  BY <1>3, <1>5
<1>9. \A s \in W : s # {} => g[s \ {pick[s]}] = h[s \ {pick[s]}]
  BY <1>2, <1>8
<1>10. Passes(g, W, start, op, pick)
  BY <1>9 DEF Passes
<1> HIDE DEF g
<1> QED  BY <1>7, <1>10 DEF Solved, W

(* The recursive definition of a loop over a finite set has a solution.      *)
LEMMA LoopExists ==
    ASSUME NEW S, IsFiniteSet(S), NEW V, NEW start \in V, NEW op \in [S \X V -> V],
           NEW pick, \A s \in SUBSET S : s # {} => pick[s] \in s
    PROVE  \E h \in [SUBSET S -> V] : Passes(h, SUBSET S, start, op, pick)
<1> DEFINE T == {n \in Nat : Solved(S, V, start, op, pick, n)}
           N == Cardinality(S)
<1>0. /\ N \in Nat
      /\ \A s \in SUBSET S : IsFiniteSet(s) /\ Cardinality(s) \in Nat /\ Cardinality(s) <= N
  BY FS_Subset, FS_CardinalityType
<1>1. 0 \in T
  <2> DEFINE U == UpTo(S, 0)
             h == [s \in U |-> start]
  <2>1. \A s \in U : s = {}
    BY <1>0, FS_EmptySet DEF UpTo
  <2> HIDE DEF U
  <2>2. h \in [U -> V] /\ Passes(h, U, start, op, pick)
    BY <2>1 DEF Passes
  <2> HIDE DEF h
  <2>3. Solved(S, V, start, op, pick, 0)
    BY <2>2 DEF Solved, U
  <2> QED  BY <2>3
<1>2. \A n \in Nat : n \in T => n + 1 \in T
  BY LoopGrows
<1> HIDE DEF T
<1>3. Nat \subseteq T
  <2> SUFFICES ASSUME Nat \ T # {} PROVE FALSE
    OBVIOUS
  <2>2. PICK n \in Nat \ T : \A m \in Nat \ T : ~(<<m, n>> \in OpToRel(<, Nat))
    <3> DEFINE B == Nat \ T
    <3>1. B \subseteq Nat /\ B # {}
      OBVIOUS
    <3> HIDE DEF B
    <3>2. \E n \in B : \A m \in B : ~(<<m, n>> \in OpToRel(<, Nat))
      BY <3>1, WFMin, NatLessThanWellFounded
    <3> QED  BY <3>2 DEF B
  <2>3. n # 0 /\ n - 1 \in Nat /\ n - 1 < n /\ (n - 1) + 1 = n
    <3>1. n \in Nat /\ n \notin T /\ n # 0
      BY <1>1
    <3> QED  BY <3>1
  <2>4. n - 1 \in T
    BY <2>2, <2>3 DEF OpToRel
  <2> QED  BY <1>2, <2>2, <2>3, <2>4
<1>4. UpTo(S, N) = SUBSET S
  BY <1>0 DEF UpTo
<1>5. Solved(S, V, start, op, pick, N)
  BY <1>0, <1>3 DEF T
<1> QED  BY <1>4, <1>5 DEF Solved

(* A finite set has a first element in a total order.                        *)
LEMMA FirstExists ==
    ASSUME NEW S, IsFiniteSet(S), S # {}, NEW R,
           \A x, y \in S : x = y \/ <<x, y>> \in R \/ <<y, x>> \in R,
           \A x, y, z \in S : <<x, y>> \in R /\ <<y, z>> \in R => <<x, z>> \in R
    PROVE  \E x \in S : \A y \in S : y = x \/ <<x, y>> \in R
<1> DEFINE B == {s \in SUBSET S : s # {} /\ ~\E x \in s : \A y \in s : y = x \/ <<x, y>> \in R}
<1> SUFFICES ASSUME B # {} PROVE FALSE
  OBVIOUS
<1>1. PICK s \in B : \A u \in B : u \subseteq s => u = s
  <2>1. B \subseteq SUBSET S
    OBVIOUS
  <2> HIDE DEF B
  <2> QED  BY <2>1, SmallestSubset
<1>2. PICK x \in s : TRUE
  BY <1>1
<1>3. s \ {x} \in SUBSET S /\ s \ {x} \subseteq s /\ s \ {x} # s /\ s \ {x} \notin B
  <2>1. s \ {x} \in SUBSET S /\ s \ {x} \subseteq s /\ s \ {x} # s
    BY <1>1, <1>2
  <2> HIDE DEF B
  <2> QED  BY <1>1, <2>1
<1>4. CASE s \ {x} = {}
  BY <1>1, <1>2, <1>4
<1>5. CASE s \ {x} # {}
  <2>1. PICK y \in s \ {x} : \A z \in s \ {x} : z = y \/ <<y, z>> \in R
    BY <1>3, <1>5
  <2>2. x \in S /\ y \in S /\ x # y /\ \A z \in s : z \in S
    BY <1>1, <1>2, <2>1
  <2>3. CASE <<y, x>> \in R
    <3>1. \A z \in s : z = y \/ <<y, z>> \in R
      BY <2>1, <2>3
    <3> QED  BY <1>1, <2>1, <3>1
  <2>4. CASE <<x, y>> \in R
    <3>1. \A z \in s : z = x \/ <<x, z>> \in R
      <4> SUFFICES ASSUME NEW z \in s, z # x PROVE <<x, z>> \in R
        OBVIOUS
      <4>1. z = y \/ <<y, z>> \in R
        BY <2>1
      <4> QED  BY <2>2, <2>4, <4>1
    <3> QED  BY <1>1, <1>2, <3>1
  <2> QED  BY <2>2, <2>3, <2>4
<1> QED  BY <1>4, <1>5

(* The image of a finite set is finite.                                      *)
LEMMA FiniteImage ==
    ASSUME NEW S, IsFiniteSet(S), NEW f, DOMAIN f = S
    PROVE  IsFiniteSet({f[x] : x \in S})
<1> DEFINE T == {f[x] : x \in S}
           g == [x \in S |-> f[x]]
<1>1. g \in Surjection(S, T)
  BY DEF Surjection
<1> HIDE DEF T, g
<1>2. IsFiniteSet(T)
  BY <1>1, FS_Surjection
<1> QED  BY <1>2 DEF T

-----------------------------------------------------------------------------
(* The score of two documents.                                             *)

Dated(a) == a.at \in Nat /\ IsFiniteSet(Keys(a))

LEMMA WeightType ==
    ASSUME NEW w \in Nat, NEW condition
    PROVE  Weight(w, condition) \in Nat
BY DEF Weight

LEMMA DeltaSymmetric ==
    ASSUME NEW a, NEW b, a.at \in Nat, b.at \in Nat
    PROVE  Delta(a, b) \in Nat /\ Delta(a, b) = Delta(b, a)
BY DEF Delta, Abs

LEMMA ConflictSymmetric ==
    ASSUME NEW a, NEW b
    PROVE  Conflict(a, b) <=> Conflict(b, a)
BY DEF Conflict, IdentityConflict, EpisodeBoundaryConflict, Differ

(* Two documents take at most one direction of a directed rule.              *)
LEMMA CommercialReferenceDirected ==
    ASSUME NEW a, NEW b
    PROVE  /\ CommercialReference(a, b) \in Nat
           /\ CommercialReference(a, b) = 0 \/ CommercialReference(b, a) = 0
<1>1. ASSUME NEW r, NEW f
      PROVE  /\ CommercialReference(r, f) \in {0, 95, 100}
             /\ CommercialReference(r, f) # 0 => OneOfEach(r, f, CopyTypes \cup {"MANAGEMENT_DOCUMENT"}, FiscalTypes)
  BY DEF CommercialReference, Weight
<1> QED  BY <1>1 DEF OneOfEach, CopyTypes, FiscalTypes

LEMMA TableSaleSequenceDirected ==
    ASSUME NEW a, NEW b
    PROVE  /\ TableSaleSequence(a, b) \in Nat
           /\ TableSaleSequence(a, b) = 0 \/ TableSaleSequence(b, a) = 0
BY DEF TableSaleSequence, Weight, IsPrebillSource, IsFiscal, IsManagement, FiscalTypes

LEMMA KitchenBaselineDirected ==
    ASSUME NEW a, NEW b
    PROVE  /\ KitchenManagementBaseline(a, b) \in Nat
           /\ KitchenManagementBaseline(a, b) = 0 \/ KitchenManagementBaseline(b, a) = 0
BY DEF KitchenManagementBaseline, Weight, IsKitchen, IsManagement

LEMMA SameTableChangeDirected ==
    ASSUME NEW a, NEW b
    PROVE  /\ SameTableChange(a, b) \in Nat
           /\ SameTableChange(a, b) = 0 \/ SameTableChange(b, a) = 0
BY DEF SameTableChange, Weight, IsKitchen

LEMMA LinkedSymmetric ==
    ASSUME NEW a, NEW b, a.at \in Nat, b.at \in Nat
    PROVE  Linked(a, b) \in Nat /\ Linked(a, b) = Linked(b, a)
<1> DEFINE Directed(v, w) == v \in Nat /\ w \in Nat /\ (v = 0 \/ w = 0)
<1>1. \A v, w : Directed(v, w) => Else(v, w) \in Nat /\ Else(v, w) = Else(w, v)
  BY DEF Else
<1>2. /\ Directed(CommercialReference(a, b), CommercialReference(b, a))
      /\ Directed(TableSaleSequence(a, b), TableSaleSequence(b, a))
      /\ Directed(KitchenManagementBaseline(a, b), KitchenManagementBaseline(b, a))
      /\ Directed(SameTableChange(a, b), SameTableChange(b, a))
  BY CommercialReferenceDirected, TableSaleSequenceDirected, KitchenBaselineDirected, SameTableChangeDirected
<1>3. FiscalSiblings(a, b) \in Nat /\ FiscalSiblings(a, b) = FiscalSiblings(b, a)
  BY DeltaSymmetric DEF FiscalSiblings, Weight, OneOfEach, Same
<1>4. CrossDepartmentDispatch(a, b) \in Nat /\ CrossDepartmentDispatch(a, b) = CrossDepartmentDispatch(b, a)
  BY DeltaSymmetric DEF CrossDepartmentDispatch, Weight, Same
<1>5. \A v, w \in Nat : Else(v, w) \in Nat
  BY DEF Else
<1> HIDE DEF Directed
<1>6. /\ Else(CommercialReference(a, b), CommercialReference(b, a)) \in Nat
      /\ Else(CommercialReference(a, b), CommercialReference(b, a)) = Else(CommercialReference(b, a), CommercialReference(a, b))
      /\ Else(TableSaleSequence(a, b), TableSaleSequence(b, a)) \in Nat
      /\ Else(TableSaleSequence(a, b), TableSaleSequence(b, a)) = Else(TableSaleSequence(b, a), TableSaleSequence(a, b))
      /\ Else(KitchenManagementBaseline(a, b), KitchenManagementBaseline(b, a)) \in Nat
      /\ Else(KitchenManagementBaseline(a, b), KitchenManagementBaseline(b, a))
           = Else(KitchenManagementBaseline(b, a), KitchenManagementBaseline(a, b))
      /\ Else(SameTableChange(a, b), SameTableChange(b, a)) \in Nat
      /\ Else(SameTableChange(a, b), SameTableChange(b, a)) = Else(SameTableChange(b, a), SameTableChange(a, b))
  BY <1>1, <1>2
<1> QED  BY <1>3, <1>4, <1>5, <1>6 DEF Linked

LEMMA LineWeightSymmetric ==
    ASSUME NEW a, NEW b, IsFiniteSet(Keys(a)), IsFiniteSet(Keys(b))
    PROVE  LineWeight(a, b) \in Int /\ LineWeight(a, b) = LineWeight(b, a)
<1> DEFINE common == Cardinality(Keys(a) \cap Keys(b))
           all == Cardinality(Keys(a) \cup Keys(b))
<1>1. Keys(a) \cap Keys(b) = Keys(b) \cap Keys(a) /\ Keys(a) \cup Keys(b) = Keys(b) \cup Keys(a)
  OBVIOUS
<1>2. LineWeight(a, b) = LineWeight(b, a)
  BY <1>1 DEF LineWeight
<1>3. CASE Keys(a) = {} \/ Keys(b) = {}
  BY <1>2, <1>3 DEF LineWeight
<1>4. CASE Keys(a) # {} /\ Keys(b) # {}
  <2>1. IsFiniteSet(Keys(a) \cap Keys(b)) /\ IsFiniteSet(Keys(a) \cup Keys(b))
    BY FS_Union, FS_Intersection
  <2>2. common \in Nat /\ all \in Nat
    BY <2>1, FS_CardinalityType
  <2>3. all > 0
    BY <1>4, <2>1, <2>2, FS_EmptySet
  <2> HIDE DEF common, all
  <2>4. 24 * common + all \in Int /\ 2 * all \in Int /\ 2 * all > 0
    BY <2>2, <2>3
  <2>5. (24 * common + all) \div (2 * all) \in Int
    BY <2>4
  <2>6. \A c : Weight(1, c) \in Nat
    BY WeightType
  <2>7. LineWeight(a, b) =
          ((24 * common + all) \div (2 * all))
            - Weight(1, (24 * common + all) % (2 * all) = 0 /\ ((24 * common + all) \div (2 * all)) % 2 = 1)
    BY <1>4 DEF LineWeight, common, all
  <2>8. LineWeight(a, b) \in Int
    BY <2>5, <2>6, <2>7
  <2> QED  BY <1>2, <2>8
<1> QED  BY <1>3, <1>4

LEMMA ScorePairSymmetric ==
    ASSUME NEW a, NEW b, Dated(a), Dated(b)
    PROVE  ScorePair(a, b) \in Int /\ ScorePair(a, b) = ScorePair(b, a)
<1> DEFINE w1(x, y) == Weight(35, Same(x.order, y.order))
           w2(x, y) == Weight(15, SameProgressive(x, y))
           w3(x, y) == Weight(12, Same(x.table, y.table))
           w4(x, y) == Weight(5, Same(x.op, y.op))
           w5(x, y) == Weight(4, Same(x.term, y.term))
           w6(x, y) == Weight(20, Same(x.ref, y.ref))
           w7(x, y) == Weight(3, x.at \div 86400 = y.at \div 86400)
           w8(x, y) == Weight(2, x.dev = y.dev)
           Sum(x, y) == w1(x, y) + w2(x, y) + w3(x, y) + w4(x, y) + w5(x, y) + w6(x, y) + TimeWeight(x, y)
                          + w7(x, y) + AmountWeight(x, y) + LineWeight(x, y) + 8 + w8(x, y)
<1>1. /\ w1(a, b) \in Nat /\ w2(a, b) \in Nat /\ w3(a, b) \in Nat /\ w4(a, b) \in Nat
      /\ w5(a, b) \in Nat /\ w6(a, b) \in Nat /\ w7(a, b) \in Nat /\ w8(a, b) \in Nat
  BY WeightType
<1>2. /\ w1(a, b) = w1(b, a) /\ w2(a, b) = w2(b, a) /\ w3(a, b) = w3(b, a) /\ w4(a, b) = w4(b, a)
      /\ w5(a, b) = w5(b, a) /\ w6(a, b) = w6(b, a) /\ w7(a, b) = w7(b, a) /\ w8(a, b) = w8(b, a)
  BY DEF Weight, Same, SameProgressive
<1>3. Delta(a, b) \in Nat /\ Delta(a, b) = Delta(b, a)
  BY DeltaSymmetric DEF Dated
<1>4. TimeWeight(a, b) \in Nat /\ TimeWeight(a, b) = TimeWeight(b, a)
  BY <1>3 DEF TimeWeight, Weight
<1>5. AmountWeight(a, b) \in Nat /\ AmountWeight(a, b) = AmountWeight(b, a)
  BY DEF AmountWeight
<1>6. LineWeight(a, b) \in Int /\ LineWeight(a, b) = LineWeight(b, a)
  BY LineWeightSymmetric DEF Dated
<1>7. Compatible(a, b) <=> Compatible(b, a)
  <2>1. {a.type, b.type} = {b.type, a.type}
    OBVIOUS
  <2> QED  BY <2>1 DEF Compatible, OneOfEach
<1>8. \A x, y : ScorePair(x, y) = IF Compatible(x, y) /\ Delta(x, y) <= TimeWindow
                                  THEN IF Sum(x, y) > 100 THEN 100 ELSE Sum(x, y)
                                  ELSE 0
  BY DEF ScorePair
<1> HIDE DEF w1, w2, w3, w4, w5, w6, w7, w8
<1>9. Sum(a, b) \in Int /\ Sum(a, b) = Sum(b, a)
  BY <1>1, <1>2, <1>4, <1>5, <1>6
<1> HIDE DEF Sum
<1> QED  BY <1>3, <1>7, <1>8, <1>9

(* The score of two documents is a number that does not depend on which of   *)
(* them is taken first.                                                      *)
LEMMA ScoreSymmetric ==
    ASSUME NEW a, NEW b, Dated(a), Dated(b)
    PROVE  ScoreCandidatePair(a, b) \in Int /\ ScoreCandidatePair(a, b) = ScoreCandidatePair(b, a)
<1>1. {a.type, b.type} = {b.type, a.type}
  OBVIOUS
<1>2. DeviceResponse(a, b) \in Int /\ DeviceResponse(a, b) = DeviceResponse(b, a)
  BY DeltaSymmetric DEF DeviceResponse, Dated, Weight, Same
<1>3. Conflict(a, b) <=> Conflict(b, a)
  BY ConflictSymmetric
<1>4. Linked(a, b) \in Nat /\ Linked(a, b) = Linked(b, a)
  BY LinkedSymmetric DEF Dated
<1>5. ScorePair(a, b) \in Int /\ ScorePair(a, b) = ScorePair(b, a)
  BY ScorePairSymmetric
<1>6. Else(Linked(a, b), ScorePair(a, b)) \in Int
  BY <1>4, <1>5 DEF Else
<1> QED  BY <1>1, <1>2, <1>3, <1>4, <1>5, <1>6 DEF ScoreCandidatePair

-----------------------------------------------------------------------------
(* Grouping: the union of two components.                                  *)

Batch(D) == IsFiniteSet(DOMAIN D) /\ DOMAIN D \subseteq Nat /\ \A i \in DOMAIN D : Dated(D[i])
Core(D) == {k \in DOMAIN D : ~IsAuxiliary(D[k])}
Auxiliaries(D) == {k \in DOMAIN D : IsAuxiliary(D[k])}
Matches(D, i, j) == ScoreCandidatePair(D[i], D[j]) >= MinimumScore

\* No component holds two documents that contradict each other.
Peaceful(D, part) == \A i, j \in DOMAIN D : part[i] = part[j] => ~Conflict(D[i], D[j])

\* However the core documents are cut in two, a component that is cut has a
\* match across the cut.
Joined(D, part) ==
    \A X \in SUBSET Core(D) : \A i \in X, j \in Core(D) \ X :
       part[i] = part[j] =>
          \E k \in X, l \in Core(D) \ X : part[k] = part[i] /\ part[l] = part[i] /\ Matches(D, k, l)

Alone(D, part, y) == \A k \in DOMAIN D : part[k] = part[y] => k = y

Parts(D, s) == {part \in [DOMAIN D -> DOMAIN D] :
                  /\ Peaceful(D, part) /\ Joined(D, part)
                  /\ \A y \in Auxiliaries(D) \ s : Alone(D, part, y)}

(* What a union does.                                                        *)
LEMMA UnionEffect ==
    ASSUME NEW D, DOMAIN D \subseteq Nat, NEW part \in [DOMAIN D -> DOMAIN D],
           NEW i \in DOMAIN D, NEW j \in DOMAIN D, NEW q, q = Union(D, part, i, j)
    PROVE  /\ q \in [DOMAIN D -> DOMAIN D]
           /\ \/ q = part
              \/ /\ \A k \in DOMAIN D : part[k] \notin {part[i], part[j]} => q[k] = part[k]
                 /\ \A k \in DOMAIN D : part[k] \in {part[i], part[j]} => q[k] = q[i]
                 /\ q[i] \in {part[i], part[j]}
                 /\ \A k, l \in DOMAIN D :
                       part[k] \in {part[i], part[j]} /\ part[l] \in {part[i], part[j]} => ~Conflict(D[k], D[l])
<1> DEFINE members == {k \in DOMAIN D : part[k] \in {part[i], part[j]}}
           r == Lesser(part[i], part[j])
<1>1. r \in {part[i], part[j]} /\ r \in DOMAIN D
  BY DEF Lesser
<1>2. CASE part[i] = part[j] \/ Refused({D[k] : k \in members})
  BY <1>2 DEF Union
<1>3. CASE part[i] # part[j] /\ ~Refused({D[k] : k \in members})
  <2> HIDE DEF r
  <2>1. q = [k \in DOMAIN D |-> IF k \in members THEN r ELSE part[k]]
    BY <1>3 DEF Union, r
  <2>2. ~AnyConflict({D[k] : k \in members})
    BY <1>3 DEF Refused
  <2>3. \A k, l \in members : ~Conflict(D[k], D[l])
    BY <2>2 DEF AnyConflict
  <2> QED  BY <1>1, <2>1, <2>3
<1> QED  BY <1>2, <1>3

LEMMA UnionPeaceful ==
    ASSUME NEW D, DOMAIN D \subseteq Nat, NEW part \in [DOMAIN D -> DOMAIN D], Peaceful(D, part),
           NEW i \in DOMAIN D, NEW j \in DOMAIN D
    PROVE  Peaceful(D, Union(D, part, i, j))
<1>1. PICK q : q = Union(D, part, i, j)
  OBVIOUS
<1>2. CASE q = part
  BY <1>1, <1>2
<1>3. CASE q # part
  <2>1. /\ \A k \in DOMAIN D : part[k] \notin {part[i], part[j]} => q[k] = part[k]
        /\ \A k \in DOMAIN D : part[k] \in {part[i], part[j]} => q[k] = q[i]
        /\ q[i] \in {part[i], part[j]}
    BY <1>1, <1>3, UnionEffect, SMTT(30)
  <2>2. \A k, l \in DOMAIN D :
           part[k] \in {part[i], part[j]} /\ part[l] \in {part[i], part[j]} => ~Conflict(D[k], D[l])
    BY <1>1, <1>3, UnionEffect
  <2> SUFFICES ASSUME NEW k \in DOMAIN D, NEW l \in DOMAIN D, q[k] = q[l] PROVE ~Conflict(D[k], D[l])
    BY <1>1 DEF Peaceful
  <2>3. CASE part[k] = part[l]
    BY <2>3 DEF Peaceful
  <2>4. CASE part[k] # part[l]
    <3>1. part[k] \in {part[i], part[j]} /\ part[l] \in {part[i], part[j]}
      BY <2>1, <2>4
    <3> QED  BY <2>2, <3>1
  <2> QED  BY <2>3, <2>4
<1> QED  BY <1>2, <1>3

LEMMA UnionAlone ==
    ASSUME NEW D, DOMAIN D \subseteq Nat, NEW part \in [DOMAIN D -> DOMAIN D],
           NEW i \in DOMAIN D, NEW j \in DOMAIN D, NEW y \in DOMAIN D, y # i, y # j, Alone(D, part, y)
    PROVE  Alone(D, Union(D, part, i, j), y)
<1>1. PICK q : q = Union(D, part, i, j)
  OBVIOUS
<1>2. CASE q = part
  BY <1>1, <1>2
<1>3. CASE q # part
  <2>1. /\ \A k \in DOMAIN D : part[k] \notin {part[i], part[j]} => q[k] = part[k]
        /\ \A k \in DOMAIN D : part[k] \in {part[i], part[j]} => q[k] = q[i]
        /\ q[i] \in {part[i], part[j]}
    BY <1>1, <1>3, UnionEffect, SMTT(30)
  <2>2. part[y] \notin {part[i], part[j]}
    BY DEF Alone
  <2> SUFFICES ASSUME NEW k \in DOMAIN D, q[k] = q[y] PROVE k = y
    BY <1>1 DEF Alone
  <2>3. part[k] = part[y]
    BY <2>1, <2>2
  <2> QED  BY <2>3 DEF Alone
<1> QED  BY <1>2, <1>3

(* A union of two core documents that match keeps components joined.         *)
LEMMA UnionJoined ==
    ASSUME NEW D, Batch(D), NEW part \in [DOMAIN D -> DOMAIN D], Joined(D, part),
           NEW i \in Core(D), NEW j \in Core(D), Matches(D, i, j)
    PROVE  Joined(D, Union(D, part, i, j))
<1>1. PICK q : q = Union(D, part, i, j)
  OBVIOUS
<1>2. CASE q = part
  BY <1>1, <1>2
<1>3. CASE q # part
  <2>0. i \in DOMAIN D /\ j \in DOMAIN D /\ DOMAIN D \subseteq Nat
    BY DEF Core, Batch
  <2>1. /\ \A k \in DOMAIN D : part[k] \notin {part[i], part[j]} => q[k] = part[k]
        /\ \A k \in DOMAIN D : part[k] \in {part[i], part[j]} => q[k] = q[i]
        /\ q[i] \in {part[i], part[j]}
    BY <1>1, <1>3, <2>0, UnionEffect, SMTT(30)
  <2>2. Matches(D, j, i)
    BY <2>0, ScoreSymmetric DEF Matches, Batch
  <2> SUFFICES ASSUME NEW X \in SUBSET Core(D), NEW a \in X, NEW b \in Core(D) \ X, q[a] = q[b]
               PROVE  \E k \in X, l \in Core(D) \ X : q[k] = q[a] /\ q[l] = q[a] /\ Matches(D, k, l)
    BY <1>1 DEF Joined
  <2>3. a \in DOMAIN D /\ b \in DOMAIN D /\ \A k \in X : k \in DOMAIN D
    BY DEF Core
  <2>4. ASSUME NEW u \in X, NEW v \in Core(D) \ X, part[u] = part[v], q[u] = q[a]
        PROVE  \E k \in X, l \in Core(D) \ X : q[k] = q[a] /\ q[l] = q[a] /\ Matches(D, k, l)
    <3>1. PICK k \in X, l \in Core(D) \ X : part[k] = part[u] /\ part[l] = part[u] /\ Matches(D, k, l)
      BY <2>4 DEF Joined
    <3>2. k \in DOMAIN D /\ l \in DOMAIN D /\ u \in DOMAIN D
      BY DEF Core
    <3>3. q[k] = q[u] /\ q[l] = q[u]
      BY <2>1, <3>1, <3>2
    <3> QED  BY <2>4, <3>1, <3>3
  <2>5. CASE part[a] = part[b]
    BY <2>4, <2>5
  <2>6. CASE part[a] # part[b]
    <3>1. part[a] \in {part[i], part[j]} /\ part[b] \in {part[i], part[j]}
      BY <2>1, <2>3, <2>6
    <3>2. q[i] = q[a] /\ q[j] = q[a]
      BY <2>0, <2>1, <2>3, <3>1
    <3>3. CASE i \in X /\ j \notin X
      BY <3>2, <3>3
    <3>4. CASE i \notin X /\ j \in X
      BY <2>2, <3>2, <3>4
    <3>5. CASE i \in X /\ j \in X
      BY <2>4, <3>1, <3>2, <3>5
    <3>6. CASE i \notin X /\ j \notin X
      BY <2>4, <3>1, <3>2, <3>6
    <3> QED  BY <3>3, <3>4, <3>5, <3>6
  <2> QED  BY <2>5, <2>6
<1> QED  BY <1>2, <1>3

(* A document that is in no component of others brings none together.        *)
LEMMA AttachJoined ==
    ASSUME NEW D, DOMAIN D \subseteq Nat, NEW part \in [DOMAIN D -> DOMAIN D], Joined(D, part),
           NEW x \in Auxiliaries(D), Alone(D, part, x), NEW j \in DOMAIN D
    PROVE  Joined(D, Union(D, part, x, j))
<1>1. PICK q : q = Union(D, part, x, j)
  OBVIOUS
<1>2. CASE q = part
  BY <1>1, <1>2
<1>3. CASE q # part
  <2>0. x \in DOMAIN D /\ x \notin Core(D) /\ \A k \in Core(D) : k \in DOMAIN D
    BY DEF Core, Auxiliaries
  <2>1. /\ \A k \in DOMAIN D : part[k] \notin {part[x], part[j]} => q[k] = part[k]
        /\ \A k \in DOMAIN D : part[k] \in {part[x], part[j]} => q[k] = q[x]
        /\ q[x] \in {part[x], part[j]}
    BY <1>1, <1>3, <2>0, UnionEffect
  <2>2. \A k \in Core(D) : part[k] # part[x]
    BY <2>0 DEF Alone
  <2>3. ASSUME NEW k \in Core(D), NEW l \in Core(D)
        PROVE  q[k] = q[l] <=> part[k] = part[l]
    BY <2>0, <2>1, <2>2
  <2> SUFFICES ASSUME NEW X \in SUBSET Core(D), NEW a \in X, NEW b \in Core(D) \ X, q[a] = q[b]
               PROVE  \E k \in X, l \in Core(D) \ X : q[k] = q[a] /\ q[l] = q[a] /\ Matches(D, k, l)
    BY <1>1 DEF Joined
  <2>4. part[a] = part[b]
    BY <2>3
  <2>5. PICK k \in X, l \in Core(D) \ X : part[k] = part[a] /\ part[l] = part[a] /\ Matches(D, k, l)
    BY <2>4 DEF Joined
  <2> QED  BY <2>3, <2>5
<1> QED  BY <1>2, <1>3

-----------------------------------------------------------------------------
(* Grouping: the loops over the edges and over the auxiliary documents.    *)

Quads == Int \X Int \X Int \X Int

(* The order of the edges is a total one.                                    *)
LEMMA BeforeOrders ==
    ASSUME NEW S, S \subseteq Quads
    PROVE  /\ \A e, f \in S : e = f \/ Before(e, f) \/ Before(f, e)
           /\ \A e, f, g \in S : Before(e, f) /\ Before(f, g) => Before(e, g)
<1>1. \A e \in S : /\ e[1] \in Int /\ e[2] \in Int /\ e[3] \in Int /\ e[4] \in Int
                   /\ e = <<e[1], e[2], e[3], e[4]>>
  BY DEF Quads
<1>2. ASSUME NEW e \in S, NEW f \in S
      PROVE  e = f \/ Before(e, f) \/ Before(f, e)
  <2>1. (e[1] = f[1] /\ e[2] = f[2] /\ e[3] = f[3] /\ e[4] = f[4]) => e = f
    BY <1>1
  <2> QED  BY <1>1, <2>1 DEF Before
<1>3. ASSUME NEW e \in S, NEW f \in S, NEW g \in S, Before(e, f), Before(f, g)
      PROVE  Before(e, g)
  BY <1>1, <1>3 DEF Before
<1> QED  BY <1>2, <1>3

(* So edges have a best and a worst one.                                     *)
LEMMA EdgeEnds ==
    ASSUME NEW S, IsFiniteSet(S), S # {}, S \subseteq Quads
    PROVE  FirstBy(S, Before) \in S /\ LastBy(S, Before) \in S
<1>0. /\ \A e, f \in S : e = f \/ Before(e, f) \/ Before(f, e)
      /\ \A e, f, g \in S : Before(e, f) /\ Before(f, g) => Before(e, g)
  BY BeforeOrders
<1>1. \E x \in S : \A y \in S : y = x \/ Before(x, y)
  <2> DEFINE R == {p \in S \X S : Before(p[1], p[2])}
  <2>1. \A x, y \in S : <<x, y>> \in R <=> Before(x, y)
    OBVIOUS
  <2> HIDE DEF R
  <2>2. /\ \A x, y \in S : x = y \/ <<x, y>> \in R \/ <<y, x>> \in R
        /\ \A x, y, z \in S : <<x, y>> \in R /\ <<y, z>> \in R => <<x, z>> \in R
    BY <1>0, <2>1
  <2>3. \E x \in S : \A y \in S : y = x \/ <<x, y>> \in R
    BY <2>2, FirstExists
  <2> QED  BY <2>1, <2>3
<1>2. \E x \in S : \A y \in S : y = x \/ Before(y, x)
  <2> DEFINE R == {p \in S \X S : Before(p[2], p[1])}
  <2>1. \A x, y \in S : <<x, y>> \in R <=> Before(y, x)
    OBVIOUS
  <2> HIDE DEF R
  <2>2. /\ \A x, y \in S : x = y \/ <<x, y>> \in R \/ <<y, x>> \in R
        /\ \A x, y, z \in S : <<x, y>> \in R /\ <<y, z>> \in R => <<x, z>> \in R
    BY <1>0, <2>1
  <2>3. \E x \in S : \A y \in S : y = x \/ <<x, y>> \in R
    BY <2>2, FirstExists
  <2> QED  BY <2>1, <2>3
<1> QED  BY <1>1, <1>2 DEF FirstBy, LastBy

(* And ids a greatest one.                                                   *)
LEMMA LastId ==
    ASSUME NEW S, IsFiniteSet(S), S # {}, S \subseteq Nat
    PROVE  LastBy(S, <) \in S
<1> DEFINE R == {p \in S \X S : p[1] > p[2]}
<1>1. \A x, y \in S : <<x, y>> \in R <=> x > y
  OBVIOUS
<1> HIDE DEF R
<1>2. /\ \A x, y \in S : x = y \/ <<x, y>> \in R \/ <<y, x>> \in R
      /\ \A x, y, z \in S : <<x, y>> \in R /\ <<y, z>> \in R => <<x, z>> \in R
  BY <1>1
<1>3. \E x \in S : \A y \in S : y = x \/ <<x, y>> \in R
  BY <1>2, FirstExists, ZenonT(60)
<1>4. \E x \in S : \A y \in S : y = x \/ y < x
  BY <1>1, <1>3
<1> QED  BY <1>4 DEF LastBy

(* The edges are finitely many, between documents that match.                *)
LEMMA EdgesKnown ==
    ASSUME NEW D, Batch(D), NEW P
    PROVE  /\ IsFiniteSet(Edges(D, P)) /\ Edges(D, P) \subseteq Quads
           /\ \A e \in Edges(D, P) : /\ e[3] \in DOMAIN D /\ e[4] \in DOMAIN D
                                     /\ Matches(D, e[3], e[4])
<1> DEFINE Q == {q \in (DOMAIN D) \X (DOMAIN D) : q[1] < q[2] /\ {q[1], q[2]} \in P}
           f == [p \in Q |-> <<ScoreCandidatePair(D[p[1]], D[p[2]]), Delta(D[p[1]], D[p[2]]), p[1], p[2]>>]
           T == {f[p] : p \in Q}
<1>1. IsFiniteSet(Q)
  <2>1. IsFiniteSet((DOMAIN D) \X (DOMAIN D))
    BY FS_Product DEF Batch
  <2>2. Q \in SUBSET ((DOMAIN D) \X (DOMAIN D))
    OBVIOUS
  <2> HIDE DEF Q
  <2> QED  BY <2>1, <2>2, FS_Subset
<1>2. IsFiniteSet(T)
  <2>1. DOMAIN f = Q
    OBVIOUS
  <2> HIDE DEF Q, f
  <2> QED  BY <1>1, <2>1, FiniteImage
<1>3. Edges(D, P) = {e \in T : e[1] >= MinimumScore}
  BY DEF Edges
<1>4. IsFiniteSet(Edges(D, P))
  <2>1. Edges(D, P) \in SUBSET T
    BY <1>3
  <2> HIDE DEF T
  <2> QED  BY <1>2, <2>1, FS_Subset
<1>5. ASSUME NEW e \in Edges(D, P)
      PROVE  e \in Quads /\ e[3] \in DOMAIN D /\ e[4] \in DOMAIN D /\ Matches(D, e[3], e[4])
  <2>1. PICK p \in Q : e = <<ScoreCandidatePair(D[p[1]], D[p[2]]), Delta(D[p[1]], D[p[2]]), p[1], p[2]>>
    BY <1>3
  <2>2. p[1] \in DOMAIN D /\ p[2] \in DOMAIN D
    BY <2>1
  <2>3. Dated(D[p[1]]) /\ Dated(D[p[2]]) /\ p[1] \in Int /\ p[2] \in Int
    BY <2>2 DEF Batch
  <2>4. ScoreCandidatePair(D[p[1]], D[p[2]]) \in Int /\ Delta(D[p[1]], D[p[2]]) \in Int
    BY <2>3, ScoreSymmetric, DeltaSymmetric DEF Dated
  <2>5. e[1] = ScoreCandidatePair(D[p[1]], D[p[2]]) /\ e[3] = p[1] /\ e[4] = p[2] /\ e[1] >= MinimumScore
    BY <1>3, <2>1
  <2>6. e \in Quads
    BY <2>1, <2>3, <2>4 DEF Quads
  <2> QED  BY <2>2, <2>5, <2>6 DEF Matches
<1> QED  BY <1>4, <1>5

CoreLoop(D, P, h) ==
    h = [s \in SUBSET CoreEdges(D, P) |->
           IF s = {} THEN [k \in DOMAIN D |-> k]
           ELSE Union(D, h[s \ {LastBy(s, Before)}], LastBy(s, Before)[3], LastBy(s, Before)[4])]

(* Before the first union every document is a component.                     *)
LEMMA SingletonsGood ==
    ASSUME NEW D
    PROVE  [k \in DOMAIN D |-> k] \in Parts(D, {})
<1> DEFINE part == [k \in DOMAIN D |-> k]
<1>1. \A a : ~Conflict(a, a)
  BY DEF Conflict, IdentityConflict, EpisodeBoundaryConflict, Differ, Reopens, IsFiscal, FiscalTypes,
         IsEconomicClose, IsManagement
<1>2. part \in [DOMAIN D -> DOMAIN D] /\ \A k \in DOMAIN D : part[k] = k
  OBVIOUS
<1> HIDE DEF part
<1>3. Peaceful(D, part)
  BY <1>1, <1>2 DEF Peaceful
<1>4. Joined(D, part)
  BY <1>2 DEF Joined, Core
<1>5. \A y \in Auxiliaries(D) : Alone(D, part, y)
  BY <1>2 DEF Alone, Auxiliaries
<1>6. part \in Parts(D, {})
  BY <1>2, <1>3, <1>4, <1>5 DEF Parts
<1> QED  BY <1>6 DEF part

(* The core components: peaceful, joined by matches, and without auxiliary   *)
(* documents.                                                                *)
LEMMA CorePartitionGood ==
    ASSUME NEW D, Batch(D), NEW P
    PROVE  CorePartition(D, P) \in Parts(D, {})
<1> DEFINE S == CoreEdges(D, P)
           V == [DOMAIN D -> DOMAIN D]
           start == [k \in DOMAIN D |-> k]
           op == [p \in S \X V |-> Union(D, p[2], p[1][3], p[1][4])]
           pick == [s \in SUBSET S |-> LastBy(s, Before)]
           good == [s \in SUBSET S |-> Parts(D, {})]
<1>0. DOMAIN D \subseteq Nat
  BY DEF Batch
<1>1. /\ IsFiniteSet(S) /\ S \subseteq Quads
      /\ \A e \in S : e[3] \in Core(D) /\ e[4] \in Core(D) /\ Matches(D, e[3], e[4])
  <2>1. S \in SUBSET Edges(D, P)
    BY DEF CoreEdges
  <2>2. /\ IsFiniteSet(Edges(D, P)) /\ Edges(D, P) \subseteq Quads
        /\ \A e \in Edges(D, P) : e[3] \in DOMAIN D /\ e[4] \in DOMAIN D /\ Matches(D, e[3], e[4])
    BY EdgesKnown
  <2>3. IsFiniteSet(S)
    BY <2>1, <2>2, FS_Subset
  <2> QED  BY <2>1, <2>2, <2>3 DEF CoreEdges, Core
<1>2. \A s \in SUBSET S : s # {} => LastBy(s, Before) \in s
  <2> SUFFICES ASSUME NEW s \in SUBSET S, s # {} PROVE LastBy(s, Before) \in s
    OBVIOUS
  <2>1. IsFiniteSet(s) /\ s \subseteq Quads
    BY <1>1, FS_Subset
  <2> QED  BY <2>1, EdgeEnds
<1>3. start \in Parts(D, {}) /\ start \in V
  BY SingletonsGood
<1>4. \A e \in S, part \in V : Union(D, part, e[3], e[4]) \in V
  BY <1>0, <1>1, UnionEffect DEF Core
<1> HIDE DEF S, V, start
<1>5. op \in [S \X V -> V]
  BY <1>4
<1>6. \A s \in SUBSET S : s # {} => pick[s] \in s
  BY <1>2
<1>7. PICK h \in [SUBSET S -> V] : Passes(h, SUBSET S, start, op, pick)
  <2> HIDE DEF op, pick
  <2> QED  BY <1>1, <1>3, <1>5, <1>6, LoopExists
<1>8. CoreLoop(D, P, h)
  <2>1. ASSUME NEW s \in SUBSET S, s # {}
        PROVE  op[pick[s], h[s \ {pick[s]}]]
                 = Union(D, h[s \ {LastBy(s, Before)}], LastBy(s, Before)[3], LastBy(s, Before)[4])
    <3>1. pick[s] = LastBy(s, Before) /\ LastBy(s, Before) \in S /\ s \ {LastBy(s, Before)} \in SUBSET S
      BY <1>2, <2>1
    <3>2. h[s \ {LastBy(s, Before)}] \in V
      BY <1>7, <3>1
    <3> QED  BY <3>1, <3>2
  <2>2. h = [s \in SUBSET S |-> IF s = {} THEN start ELSE op[pick[s], h[s \ {pick[s]}]]]
    BY <1>7 DEF Passes
  <2> HIDE DEF op, pick
  <2> QED  BY <2>1, <2>2 DEF CoreLoop, S, start
<1>9. PICK g : g = CHOOSE c : CoreLoop(D, P, c)
  OBVIOUS
<1>10. CoreLoop(D, P, g)
  BY <1>8, <1>9
<1>11. CorePartition(D, P) = g[S]
  BY <1>9 DEF CorePartition, InOrder, MapThenFoldSet, CoreLoop, S
<1>12. g[{}] = start
  BY <1>10 DEF CoreLoop, S, start
<1>13. ASSUME NEW s \in SUBSET S, s # {}
       PROVE  \E x \in s : g[s \ {x}] \in Parts(D, {}) => g[s] \in Parts(D, {})
  <2>1. PICK x : x = LastBy(s, Before)
    OBVIOUS
  <2>2. x \in s /\ x \in S
    BY <1>2, <1>13, <2>1
  <2>3. g[s] = Union(D, g[s \ {x}], x[3], x[4])
    BY <1>10, <1>13, <2>1 DEF CoreLoop, S
  <2> SUFFICES ASSUME g[s \ {x}] \in Parts(D, {}) PROVE g[s] \in Parts(D, {})
    BY <2>2
  <2>4. PICK part : part = g[s \ {x}]
    OBVIOUS
  <2>5. /\ part \in [DOMAIN D -> DOMAIN D] /\ Peaceful(D, part) /\ Joined(D, part)
        /\ \A y \in Auxiliaries(D) : Alone(D, part, y)
    BY <2>4 DEF Parts
  <2>6. /\ x[3] \in Core(D) /\ x[4] \in Core(D) /\ Matches(D, x[3], x[4])
        /\ x[3] \in DOMAIN D /\ x[4] \in DOMAIN D
    BY <1>1, <2>2 DEF Core
  <2>7. PICK q : q = Union(D, part, x[3], x[4])
    OBVIOUS
  <2>8. q \in [DOMAIN D -> DOMAIN D]
    BY <1>0, <2>5, <2>6, <2>7, UnionEffect
  <2>9. Peaceful(D, q)
    BY <1>0, <2>5, <2>6, <2>7, UnionPeaceful
  <2>10. Joined(D, q)
    BY <2>5, <2>6, <2>7, UnionJoined
  <2>11. ASSUME NEW y \in Auxiliaries(D) PROVE Alone(D, q, y)
    <3>1. y \in DOMAIN D /\ y # x[3] /\ y # x[4]
      BY <2>6 DEF Auxiliaries, Core
    <3> QED  BY <1>0, <2>5, <2>6, <2>7, <3>1, UnionAlone
  <2>12. q \in Parts(D, {})
    BY <2>8, <2>9, <2>10, <2>11 DEF Parts
  <2> QED  BY <2>3, <2>4, <2>7, <2>12
<1>14. \A s \in SUBSET S : g[s] \in good[s]
  <2>1. g[{}] \in good[{}]
    BY <1>3, <1>12
  <2>2. \A s \in SUBSET S : s # {} => \E x \in s : g[s \ {x}] \in good[s \ {x}] => g[s] \in good[s]
    <3> SUFFICES ASSUME NEW s \in SUBSET S, s # {}
                 PROVE  \E x \in s : g[s \ {x}] \in good[s \ {x}] => g[s] \in good[s]
      OBVIOUS
    <3>1. PICK x \in s : g[s \ {x}] \in Parts(D, {}) => g[s] \in Parts(D, {})
      BY <1>13
    <3>2. good[s] = Parts(D, {}) /\ good[s \ {x}] = Parts(D, {})
      OBVIOUS
    <3> QED  BY <3>1, <3>2
  <2> HIDE DEF good
  <2> QED  BY <1>1, <2>1, <2>2, LoopKeeps
<1> QED  BY <1>11, <1>14

(* An auxiliary document is attached to a core document or not at all.       *)
LEMMA AttachKnown ==
    ASSUME NEW D, Batch(D), NEW P, NEW x \in Auxiliaries(D)
    PROVE  \/ \A part : Attach(D, P, part, x) = part
           \/ \E j \in Core(D) : \A part : Attach(D, P, part, x) = Union(D, part, x, j)
<1> DEFINE A == AuxiliaryEdges(D, P, x)
           F == {f \in Edges(D, P) : x \in {f[3], f[4]} /\ ~(\A k \in {f[3], f[4]} : IsAuxiliary(D[k]))}
           g == [e \in F |-> <<e[1], e[2], x, IF e[3] = x THEN e[4] ELSE e[3]>>]
<1>1. CASE A = {}
  BY <1>1 DEF Attach
<1>2. CASE A # {}
  <2>1. /\ IsFiniteSet(Edges(D, P)) /\ Edges(D, P) \subseteq Quads
        /\ \A e \in Edges(D, P) : e[3] \in DOMAIN D /\ e[4] \in DOMAIN D
    BY EdgesKnown
  <2>2. x \in DOMAIN D /\ IsAuxiliary(D[x]) /\ x \in Int
    BY DEF Auxiliaries, Batch
  <2>3. A = {g[e] : e \in F}
    BY DEF AuxiliaryEdges
  <2>4. IsFiniteSet(A)
    <3>1. F \in SUBSET Edges(D, P) /\ DOMAIN g = F
      OBVIOUS
    <3> HIDE DEF F, g, A
    <3>2. IsFiniteSet(F)
      BY <2>1, <3>1, FS_Subset
    <3>3. IsFiniteSet({g[e] : e \in F})
      BY <3>1, <3>2, FiniteImage
    <3> QED  BY <2>3, <3>3
  <2>5. ASSUME NEW a \in A PROVE a \in Quads /\ a[4] \in Core(D)
    <3>1. PICK e \in F : a = <<e[1], e[2], x, IF e[3] = x THEN e[4] ELSE e[3]>>
      BY <2>3
    <3>2. e[1] \in Int /\ e[2] \in Int /\ e[3] \in Int /\ e[4] \in Int /\ e[3] \in DOMAIN D /\ e[4] \in DOMAIN D
      BY <2>1 DEF Quads
    <3>3. (IF e[3] = x THEN e[4] ELSE e[3]) \in Core(D)
      BY <2>2, <3>1, <3>2 DEF Core
    <3> QED  BY <2>2, <3>1, <3>2, <3>3 DEF Quads
  <2> HIDE DEF A
  <2>6. FirstBy(A, Before) \in A
    BY <1>2, <2>4, <2>5, EdgeEnds
  <2>7. FirstBy(A, Before)[4] \in Core(D)
    BY <2>5, <2>6
  <2>8. \A part : Attach(D, P, part, x) = Union(D, part, x, FirstBy(A, Before)[4])
    BY <1>2 DEF Attach, A
  <2> QED  BY <2>7, <2>8
<1> QED  BY <1>1, <1>2

(* An attachment keeps the components as good as they are.                   *)
LEMMA AttachGood ==
    ASSUME NEW D, Batch(D), NEW P, NEW x \in Auxiliaries(D), NEW s, x \notin s,
           NEW part \in Parts(D, s)
    PROVE  Attach(D, P, part, x) \in Parts(D, s \cup {x})
<1>0. DOMAIN D \subseteq Nat /\ x \in DOMAIN D
  BY DEF Batch, Auxiliaries
<1>1. /\ part \in [DOMAIN D -> DOMAIN D] /\ Peaceful(D, part) /\ Joined(D, part)
      /\ \A y \in Auxiliaries(D) \ s : Alone(D, part, y)
  BY DEF Parts
<1>2. CASE Attach(D, P, part, x) = part
  BY <1>1, <1>2 DEF Parts
<1>3. ASSUME NEW j \in Core(D), Attach(D, P, part, x) = Union(D, part, x, j)
      PROVE  Attach(D, P, part, x) \in Parts(D, s \cup {x})
  <2>1. PICK q : q = Union(D, part, x, j)
    OBVIOUS
  <2>2. j \in DOMAIN D
    BY DEF Core
  <2>3. q \in [DOMAIN D -> DOMAIN D]
    BY <1>0, <1>1, <2>1, <2>2, UnionEffect
  <2>4. Peaceful(D, q)
    BY <1>0, <1>1, <2>1, <2>2, UnionPeaceful
  <2>5. Joined(D, q)
    BY <1>0, <1>1, <2>1, <2>2, AttachJoined
  <2>6. ASSUME NEW y \in Auxiliaries(D) \ (s \cup {x}) PROVE Alone(D, q, y)
    <3>1. y \in DOMAIN D /\ y # x /\ y # j /\ Alone(D, part, y)
      BY <1>1 DEF Auxiliaries, Core
    <3> QED  BY <1>0, <1>1, <2>1, <2>2, <3>1, UnionAlone
  <2>7. q \in Parts(D, s \cup {x})
    BY <2>3, <2>4, <2>5, <2>6 DEF Parts
  <2> QED  BY <1>3, <2>1, <2>7
<1> QED  BY <1>2, <1>3, AttachKnown

LEMMA AttachType ==
    ASSUME NEW D, Batch(D), NEW P, NEW x \in Auxiliaries(D), NEW part \in [DOMAIN D -> DOMAIN D]
    PROVE  Attach(D, P, part, x) \in [DOMAIN D -> DOMAIN D]
<1>1. DOMAIN D \subseteq Nat /\ x \in DOMAIN D /\ \A j \in Core(D) : j \in DOMAIN D
  BY DEF Batch, Auxiliaries, Core
<1>2. \A j \in Core(D) : Union(D, part, x, j) \in [DOMAIN D -> DOMAIN D]
  BY <1>1, UnionEffect
<1> QED  BY <1>2, AttachKnown

AuxiliaryLoop(D, P, h) ==
    h = [s \in SUBSET Auxiliaries(D) |->
           IF s = {} THEN CorePartition(D, P)
           ELSE Attach(D, P, h[s \ {LastBy(s, <)}], LastBy(s, <))]

(* The components are peaceful, and joined by matches of core documents.     *)
LEMMA PartitionGood ==
    ASSUME NEW D, Batch(D), NEW P
    PROVE  Partition(D, P) \in Parts(D, Auxiliaries(D))
<1> DEFINE S == Auxiliaries(D)
           V == [DOMAIN D -> DOMAIN D]
           start == CorePartition(D, P)
           op == [p \in S \X V |-> Attach(D, P, p[2], p[1])]
           pick == [s \in SUBSET S |-> LastBy(s, <)]
           good == [s \in SUBSET S |-> Parts(D, s)]
<1>1. IsFiniteSet(S) /\ S \subseteq Nat
  <2>1. S \in SUBSET DOMAIN D
    BY DEF Auxiliaries
  <2> QED  BY <2>1, FS_Subset DEF Batch
<1>2. \A s \in SUBSET S : s # {} => LastBy(s, <) \in s
  <2> SUFFICES ASSUME NEW s \in SUBSET S, s # {} PROVE LastBy(s, <) \in s
    OBVIOUS
  <2>1. IsFiniteSet(s) /\ s \subseteq Nat
    BY <1>1, FS_Subset
  <2> QED  BY <2>1, LastId
<1>3. start \in Parts(D, {}) /\ start \in V
  BY CorePartitionGood DEF Parts
<1>4. \A x \in S, part \in V : Attach(D, P, part, x) \in V
  BY AttachType
<1> HIDE DEF S, V, start
<1>5. op \in [S \X V -> V]
  BY <1>4
<1>6. \A s \in SUBSET S : s # {} => pick[s] \in s
  BY <1>2
<1>7. PICK h \in [SUBSET S -> V] : Passes(h, SUBSET S, start, op, pick)
  <2> HIDE DEF op, pick
  <2> QED  BY <1>1, <1>3, <1>5, <1>6, LoopExists
<1>8. AuxiliaryLoop(D, P, h)
  <2>1. ASSUME NEW s \in SUBSET S, s # {}
        PROVE  op[pick[s], h[s \ {pick[s]}]] = Attach(D, P, h[s \ {LastBy(s, <)}], LastBy(s, <))
    <3>1. pick[s] = LastBy(s, <) /\ LastBy(s, <) \in S /\ s \ {LastBy(s, <)} \in SUBSET S
      BY <1>2, <2>1
    <3>2. h[s \ {LastBy(s, <)}] \in V
      BY <1>7, <3>1
    <3> QED  BY <3>1, <3>2
  <2>2. h = [s \in SUBSET S |-> IF s = {} THEN start ELSE op[pick[s], h[s \ {pick[s]}]]]
    BY <1>7 DEF Passes
  <2> HIDE DEF op, pick
  <2> QED  BY <2>1, <2>2 DEF AuxiliaryLoop, S, start
<1>9. PICK g : g = CHOOSE c : AuxiliaryLoop(D, P, c)
  OBVIOUS
<1>10. AuxiliaryLoop(D, P, g)
  BY <1>8, <1>9
<1>11. Partition(D, P) = g[S]
  BY <1>9 DEF Partition, InOrder, MapThenFoldSet, AuxiliaryLoop, Auxiliaries, S
<1>12. g[{}] = start
  BY <1>10 DEF AuxiliaryLoop, S, start
<1>13. ASSUME NEW s \in SUBSET S, s # {}
       PROVE  \E x \in s : g[s \ {x}] \in Parts(D, s \ {x}) => g[s] \in Parts(D, s)
  <2>1. PICK x : x = LastBy(s, <)
    OBVIOUS
  <2>2. x \in s /\ x \in Auxiliaries(D) /\ x \notin s \ {x} /\ (s \ {x}) \cup {x} = s
    BY <1>2, <1>13, <2>1 DEF S
  <2>3. g[s] = Attach(D, P, g[s \ {x}], x)
    BY <1>10, <1>13, <2>1 DEF AuxiliaryLoop, S
  <2>4. g[s \ {x}] \in Parts(D, s \ {x}) => g[s] \in Parts(D, (s \ {x}) \cup {x})
    BY <2>2, <2>3, AttachGood
  <2> QED  BY <2>2, <2>4
<1>14. \A s \in SUBSET S : g[s] \in good[s]
  <2>1. g[{}] \in good[{}]
    BY <1>3, <1>12
  <2>2. \A s \in SUBSET S : s # {} => \E x \in s : g[s \ {x}] \in good[s \ {x}] => g[s] \in good[s]
    <3> SUFFICES ASSUME NEW s \in SUBSET S, s # {}
                 PROVE  \E x \in s : g[s \ {x}] \in good[s \ {x}] => g[s] \in good[s]
      OBVIOUS
    <3>1. PICK x \in s : g[s \ {x}] \in Parts(D, s \ {x}) => g[s] \in Parts(D, s)
      BY <1>13
    <3>2. good[s] = Parts(D, s) /\ good[s \ {x}] = Parts(D, s \ {x})
      OBVIOUS
    <3> QED  BY <3>1, <3>2
  <2> HIDE DEF good
  <2> QED  BY <1>1, <2>1, <2>2, LoopKeeps
<1> QED  BY <1>11, <1>14 DEF S

GroupGood(D, g) ==
    /\ g \subseteq DOMAIN D
    /\ \A i, j \in g : ~Conflict(D[i], D[j])
    /\ \A X \in (SUBSET (g \cap Core(D))) \ {{}, g \cap Core(D)} :
          \E i \in X, j \in (g \cap Core(D)) \ X : Matches(D, i, j)

(* What the engine makes of a batch, whatever pairs it is given: groups in   *)
(* which no document contradicts another one, and whose core documents hang  *)
(* together by their own matches (_correlate_pairs).                         *)
THEOREM EngineGroups ==
    ASSUME NEW D, Batch(D), NEW P
    PROVE  /\ IsFiniteSet(CorrelateCandidates(D, P))
           /\ \A g \in CorrelateCandidates(D, P) : GroupGood(D, g)
<1>1. PICK part : part = Partition(D, P)
  OBVIOUS
<1>2. part \in [DOMAIN D -> DOMAIN D] /\ Peaceful(D, part) /\ Joined(D, part)
  BY <1>1, PartitionGood DEF Parts
<1>3. DOMAIN part = DOMAIN D
  BY <1>2
<1> DEFINE f == [j \in DOMAIN D |-> {k \in DOMAIN D : part[k] = part[j]}]
<1>4. CorrelateCandidates(D, P) = {f[j] : j \in DOMAIN D}
  BY <1>1, <1>3 DEF CorrelateCandidates, Classes
<1>5. IsFiniteSet(CorrelateCandidates(D, P))
  <2>1. DOMAIN f = DOMAIN D /\ IsFiniteSet(DOMAIN D)
    BY DEF Batch
  <2> HIDE DEF f
  <2> QED  BY <1>4, <2>1, FiniteImage
<1>6. ASSUME NEW g \in CorrelateCandidates(D, P) PROVE GroupGood(D, g)
  <2>1. PICK j \in DOMAIN D : g = {k \in DOMAIN D : part[k] = part[j]}
    BY <1>4
  <2>2. \A a, b \in g : ~Conflict(D[a], D[b])
    BY <1>2, <2>1 DEF Peaceful
  <2>3. ASSUME NEW X \in SUBSET (g \cap Core(D)), X # {}, X # g \cap Core(D)
        PROVE  \E k \in X, l \in (g \cap Core(D)) \ X : Matches(D, k, l)
    <3>1. PICK a \in X : TRUE
      BY <2>3
    <3>2. PICK b \in (g \cap Core(D)) \ X : TRUE
      BY <2>3
    <3>3. X \in SUBSET Core(D) /\ b \in Core(D) \ X /\ part[a] = part[b] /\ part[a] = part[j]
      BY <2>1, <2>3, <3>1, <3>2
    <3>4. PICK k \in X, l \in Core(D) \ X : part[k] = part[a] /\ part[l] = part[a] /\ Matches(D, k, l)
      BY <1>2, <3>1, <3>3 DEF Joined
    <3>5. l \in g \cap Core(D)
      BY <2>1, <3>3, <3>4 DEF Core
    <3> QED  BY <3>4, <3>5
  <2>4. g \subseteq DOMAIN D
    BY <2>1
  <2>5. \A X \in (SUBSET (g \cap Core(D))) \ {{}, g \cap Core(D)} :
           \E k \in X, l \in (g \cap Core(D)) \ X : Matches(D, k, l)
    BY <2>3
  <2> QED  BY <2>2, <2>4, <2>5 DEF GroupGood
<1> QED  BY <1>5, <1>6

-----------------------------------------------------------------------------
(* A run of the correlation worker.                                        *)

(* What the worker loads is a batch.                                         *)
LEMMA LoadedBatch ==
    ASSUME VersionsInv, NEW S
    PROVE  /\ Batch(Loaded(S)) /\ DOMAIN Loaded(S) = S \cap Visible
           /\ \A i \in S \cap Visible : Loaded(S)[i] = world.docs[i][Build(i)]
<1>1. /\ IsFiniteSet(Docs) /\ Docs \subseteq Nat
      /\ \A i \in Docs : \A b \in DOMAIN world.docs[i] : Dated(world.docs[i][b])
  BY ScenarioAssumption DEF VersionsInv, Docs, Dated
<1>2. \A i \in Visible : i \in Docs /\ stored[i] # <<>>
  BY DEF Visible
<1>3. \A i \in Visible : Build(i) \in DOMAIN world.docs[i]
  <2> SUFFICES ASSUME NEW i \in Visible PROVE Build(i) \in DOMAIN world.docs[i]
    OBVIOUS
  <2> DEFINE B == DOMAIN world.docs[i]
  <2>1. stored[i] \in Seq(B) /\ stored[i] # <<>>
    BY <1>2 DEF VersionsInv
  <2> HIDE DEF B
  <2>2. Last(stored[i]) \in B /\ \A b \in Range(stored[i]) : b \in B
    BY <2>1 DEF Last, Range
  <2>3. Build(i) \in B
    BY <2>2 DEF Build
  <2> QED  BY <2>3 DEF B
<1>4. DOMAIN Loaded(S) = S \cap Visible /\ \A i \in S \cap Visible : Loaded(S)[i] = world.docs[i][Build(i)]
  BY DEF Loaded, Doc
<1>5. IsFiniteSet(S \cap Visible)
  <2>1. S \cap Visible \in SUBSET Docs
    BY <1>2
  <2> QED  BY <1>1, <2>1, FS_Subset
<1> QED  BY <1>1, <1>2, <1>3, <1>4, <1>5 DEF Batch

(* A good group is stored as a good episode.                                 *)
LEMMA StoredEpisode ==
    ASSUME NEW D, NEW g, GroupGood(D, g), \A i \in g : D[i] = world.docs[i][Build(i)],
           NEW c, c = {Version(i) : i \in g}
    PROVE  Consistent(c) /\ Unbridged(c)
<1>0. c = {<<i, Build(i)>> : i \in g}
  BY DEF Version
<1>1. Members(c) = g
  <2>1. \A i : i \in Members(c) <=> \E m \in c : m[1] = i
    BY DEF Members
  <2>2. \A i \in g : <<i, Build(i)>> \in c /\ <<i, Build(i)>>[1] = i
    BY <1>0
  <2>3. \A m \in c : m[1] \in g
    BY <1>0
  <2> QED  BY <2>1, <2>2, <2>3
<1>2. \A i \in g : (CHOOSE m \in c : m[1] = i) = <<i, Build(i)>>
  BY <1>0
<1>3. PICK E : E = Episode(c)
  OBVIOUS
<1>4. E = [i \in g |-> D[i]]
  <2>0. \A i : <<i, Build(i)>>[2] = Build(i)
    OBVIOUS
  <2>1. \A i \in g : (CHOOSE m \in c : m[1] = i)[2] = Build(i)
    BY <1>2, <2>0, Zenon
  <2>2. E = [i \in g |-> world.docs[i][(CHOOSE m \in c : m[1] = i)[2]]]
    BY <1>1, <1>3 DEF Episode
  <2> QED  BY <2>1, <2>2
<1>5. DOMAIN E = g /\ \A i \in g : E[i] = D[i]
  BY <1>4
<1>6. Consistent(c)
  <2>1. \A a, b \in Range(E) : ~Conflict(a, b)
    BY <1>5 DEF Range, GroupGood
  <2> QED  BY <1>3, <2>1 DEF Consistent
<1>7. Unbridged(c)
  <2> DEFINE core == {i \in DOMAIN E : ~IsAuxiliary(E[i])}
  <2>1. core = g \cap Core(D)
    BY <1>5 DEF Core, GroupGood
  <2>2. \A X \in (SUBSET core) \ {{}, core} :
           \E i \in X, j \in core \ X : ScoreCandidatePair(E[i], E[j]) >= MinimumScore
    <3> HIDE DEF core
    <3> SUFFICES ASSUME NEW X \in (SUBSET core) \ {{}, core}
                 PROVE  \E i \in X, j \in core \ X : ScoreCandidatePair(E[i], E[j]) >= MinimumScore
      OBVIOUS
    <3>1. PICK i \in X, j \in core \ X : Matches(D, i, j)
      BY <2>1 DEF GroupGood
    <3>2. E[i] = D[i] /\ E[j] = D[j]
      BY <1>5, <2>1
    <3> QED  BY <3>1, <3>2 DEF Matches
  <2>3. Connected(E)
    BY <2>2 DEF Connected
  <2> QED  BY <1>3, <2>3 DEF Unbridged
<1> QED  BY <1>6, <1>7

LEMMA CorrBeginGood ==
    ASSUME VersionsInv, CorrBegin
    PROVE  IsFiniteSet(cw'.groups) /\ \A c \in cw'.groups : Consistent(c) /\ Unbridged(c)
<1> DEFINE near == Neighbours(Seeds)
           nonSale == {i \in near : Doc(i).type \in NonSaleTypes}
           freed == UNION {Members(c) : c \in {d \in current : Members(d) \cap nonSale # {}}}
           seeds == Seeds \cup freed
           sale == {i \in (near \cup freed) \cap Visible : Doc(i).type \notin NonSaleTypes}
           D == Loaded(sale)
           C == CorrelateCandidates(D, CandidatePairs(D, seeds))
           groups == {g \in C : g \cap seeds # {}}
           f == [g \in groups |-> {Version(i) : i \in g}]
<1>1. cw'.groups = {{Version(i) : i \in g} : g \in groups}
  BY DEF CorrBegin
<1>2. Batch(D) /\ \A i \in DOMAIN D : D[i] = world.docs[i][Build(i)]
  BY LoadedBatch
<1> HIDE DEF D, seeds
<1>3. IsFiniteSet(C) /\ \A g \in C : GroupGood(D, g)
  BY <1>2, EngineGroups
<1>4. IsFiniteSet(groups) /\ \A g \in groups : GroupGood(D, g)
  <2>1. groups \in SUBSET C
    OBVIOUS
  <2> HIDE DEF C, groups
  <2> QED  BY <1>3, <2>1, FS_Subset
<1> HIDE DEF groups, C
<1>5. cw'.groups = {f[g] : g \in groups} /\ DOMAIN f = groups
  BY <1>1
<1>6. IsFiniteSet(cw'.groups)
  <2> HIDE DEF f
  <2> QED  BY <1>4, <1>5, FiniteImage
<1>7. ASSUME NEW c \in cw'.groups PROVE Consistent(c) /\ Unbridged(c)
  <2>1. PICK g \in groups : c = {Version(i) : i \in g}
    BY <1>1
  <2>2. GroupGood(D, g) /\ \A i \in g : D[i] = world.docs[i][Build(i)]
    BY <1>2, <1>4 DEF GroupGood
  <2> QED  BY <2>1, <2>2, StoredEpisode
<1> QED  BY <1>6, <1>7

-----------------------------------------------------------------------------
(* A run of the fraud worker.                                              *)

LEMMA FewFinite ==
    ASSUME NEW a, NEW b, NEW c, NEW d, NEW e
    PROVE  IsFiniteSet({a, b, c, d, e})
<1>1. IsFiniteSet({a})
  BY FS_Singleton
<1>2. IsFiniteSet({a} \cup {b})
  BY <1>1, FS_AddElement
<1>3. IsFiniteSet(({a} \cup {b}) \cup {c})
  BY <1>2, FS_AddElement
<1>4. IsFiniteSet((({a} \cup {b}) \cup {c}) \cup {d})
  BY <1>3, FS_AddElement
<1>5. IsFiniteSet(((({a} \cup {b}) \cup {c}) \cup {d}) \cup {e})
  BY <1>4, FS_AddElement
<1>6. ((({a} \cup {b}) \cup {c}) \cup {d}) \cup {e} = {a, b, c, d, e}
  OBVIOUS
<1> QED  BY <1>5, <1>6

LEMMA RulesFinite == IsFiniteSet(Rules)
<1> DEFINE R1 == {"ORDER_WITHOUT_FISCAL_CLOSE", "FISCAL_WITHOUT_SOURCE_ORDER",
                  "EXCESSIVE_VOID_OR_CANCELLATION", "REPRINT_OR_COPY_ANOMALY",
                  "DOCUMENT_SEQUENCE_GAP"}
           R2 == {"DUPLICATE_DOCUMENT", "LATE_ORDER_MODIFICATION",
                  "NEGATIVE_OR_ZERO_VALUE_ITEM", "TOTAL_LINE_MISMATCH",
                  "PAYMENT_TOTAL_MISMATCH"}
           R3 == {"UNUSUAL_OPERATOR_PATTERN"}
<1>1. IsFiniteSet(R1) /\ IsFiniteSet(R2) /\ IsFiniteSet(Secondary)
  BY FewFinite DEF Secondary
<1>2. IsFiniteSet(R3) /\ IsFiniteSet({Primary})
  BY FS_Singleton
<1>3. Rules = (({Primary} \cup Secondary) \cup (R1 \cup R2)) \cup R3
  BY DEF Rules
<1> HIDE DEF R1, R2, R3
<1>4. IsFiniteSet({Primary} \cup Secondary) /\ IsFiniteSet(R1 \cup R2)
  BY <1>1, <1>2, FS_Union
<1>5. IsFiniteSet(({Primary} \cup Secondary) \cup (R1 \cup R2))
  BY <1>4, FS_Union
<1>6. IsFiniteSet((({Primary} \cup Secondary) \cup (R1 \cup R2)) \cup R3)
  BY <1>2, <1>5, FS_Union
<1> QED  BY <1>3, <1>6

(* A rule has at most one finding in an episode.                             *)
LEMMA FindingsFinite ==
    ASSUME NEW D, NEW E, NEW C, NEW S, NEW enabled \in SUBSET Rules, NEW due
    PROVE  IsFiniteSet(Findings(D, E, C, S, enabled, due))
<1> DEFINE R == {q \in Applicable(D, enabled) : Evidence(q, D, E, C, S, due) # {}}
           f == [r \in R |-> <<r, Evidence(r, D, E, C, S, due)>>]
<1>1. R \in SUBSET Rules
  BY DEF Applicable
<1>2. Findings(D, E, C, S, enabled, due) = {f[r] : r \in R}
  BY DEF Findings
<1>3. DOMAIN f = R
  OBVIOUS
<1> HIDE DEF R, f
<1>4. IsFiniteSet(R)
  BY <1>1, RulesFinite, FS_Subset
<1> QED  BY <1>2, <1>3, <1>4, FiniteImage

LEMMA FoundFinite ==
    ASSUME IsFiniteSet(current), rules.enabled \subseteq Rules, FraudBegin
    PROVE  IsFiniteSet(fw'.found)
<1> DEFINE C == {d \in current : Reproduced(d)}
           Of(c) == {<<f[1], f[2], c, Suppressed(c, f[1])>> : f \in FindingsOf(c)}
           of == [c \in C |-> Of(c)]
<1>1. fw'.found = UNION {Of(c) : c \in C}
  BY DEF FraudBegin
<1>2. ASSUME NEW c PROVE IsFiniteSet(Of(c))
  <2> DEFINE F == FindingsOf(c)
             g == [f \in F |-> <<f[1], f[2], c, Suppressed(c, f[1])>>]
  <2>1. IsFiniteSet(F)
    BY FindingsFinite DEF FindingsOf
  <2>2. Of(c) = {g[f] : f \in F} /\ DOMAIN g = F
    OBVIOUS
  <2> HIDE DEF F, g, Of
  <2> QED  BY <2>1, <2>2, FiniteImage
<1>3. IsFiniteSet(C)
  <2>1. C \in SUBSET current
    OBVIOUS
  <2> HIDE DEF C
  <2> QED  BY <2>1, FS_Subset
<1> HIDE DEF C, Of
<1>4. {Of(c) : c \in C} = {of[c] : c \in C} /\ DOMAIN of = C
  OBVIOUS
<1>5. IsFiniteSet({Of(c) : c \in C})
  <2> HIDE DEF of
  <2> QED  BY <1>3, <1>4, FiniteImage
<1>6. \A T \in {Of(c) : c \in C} : IsFiniteSet(T)
  BY <1>2
<1> DEFINE all == {Of(c) : c \in C}
<1>7. IsFiniteSet(UNION all)
  <2> HIDE DEF all
  <2>1. IsFiniteSet(all) /\ \A T \in all : IsFiniteSet(T)
    BY <1>5, <1>6 DEF all
  <2> QED  BY <2>1, FS_UNION
<1> QED  BY <1>1, <1>7

FindingKey(f) == <<f[1], rules.ver[f[1]], f[3], f[2]>>
Human(a) == a.status \in Decided /\ a.last = "ALERT_UPDATED"

\* From A to B no alert is lost, what a person decided stands, and a loss is
\* still one incident.
Advances(A, B) ==
    /\ DOMAIN A \subseteq DOMAIN B
    /\ \A k \in DOMAIN A : Human(A[k]) => B[k] = A[k]
    /\ OneLossEach(B)

LEMMA PersistKeeps ==
    ASSUME NEW A, A \in [DOMAIN A -> AlertStates], NEW f, NEW B, B = PersistFinding(A, f)
    PROVE  /\ B \in [DOMAIN B -> AlertStates]
           /\ DOMAIN B \subseteq DOMAIN A \cup {FindingKey(f)}
           /\ OneLossEach(A) => Advances(A, B)
<1>1. PICK k : k = FindingKey(f)
  OBVIOUS
<1> DEFINE E == Existing(A, k)
           reopened == {h \in E : ~f[4] /\ Reopens1(A[h])}
           fresh == IF f[4] THEN [status |-> "JUSTIFIED", last |-> "ALERT_SUPPRESSED"]
                    ELSE [status |-> "OPEN", last |-> "ALERT_OPENED"]
           again == [status |-> "OPEN", last |-> "ALERT_AUTO_REOPENED_AFTER_JOB_REVIEW"]
<1>2. fresh \in AlertStates /\ again \in AlertStates
  BY DEF AlertStates, Operational, Decided
<1>3. \A h \in reopened : ~Human(A[h])
  BY DEF Reopens1, Human
<1>4. B = IF E = {} THEN [h \in DOMAIN A \cup {k} |-> IF h = k THEN fresh ELSE A[h]]
          ELSE [h \in DOMAIN A |-> IF h \in reopened THEN again ELSE A[h]]
  BY <1>1 DEF PersistFinding, FindingKey
<1>5. E = {} => k \notin DOMAIN A
  BY DEF Existing
<1>6. E = {} => \A h \in DOMAIN A :
                   ~(RuleOf(k) = Primary /\ RuleOf(h) = Primary /\ CorrelationOf(h) = CorrelationOf(k))
  BY DEF Existing
<1> HIDE DEF E, reopened, fresh, again
<1>7. CASE E = {}
  <2>1. DOMAIN B = DOMAIN A \cup {k} /\ \A h \in DOMAIN B : B[h] = IF h = k THEN fresh ELSE A[h]
    BY <1>4, <1>7
  <2>2. B \in [DOMAIN B -> AlertStates]
    BY <1>2, <1>4, <1>7
  <2>3. OneLossEach(A) => OneLossEach(B)
    BY <1>6, <1>7, <2>1 DEF OneLossEach
  <2> QED  BY <1>1, <1>5, <1>7, <2>1, <2>2, <2>3 DEF Advances
<1>8. CASE E # {}
  <2>1. DOMAIN B = DOMAIN A /\ \A h \in DOMAIN B : B[h] = IF h \in reopened THEN again ELSE A[h]
    BY <1>4, <1>8
  <2>2. B \in [DOMAIN B -> AlertStates]
    BY <1>2, <1>4, <1>8
  <2>3. OneLossEach(A) => OneLossEach(B)
    BY <2>1 DEF OneLossEach
  <2> QED  BY <1>3, <2>1, <2>2, <2>3 DEF Advances
<1> QED  BY <1>7, <1>8

LEMMA AdvancesTransitive ==
    ASSUME NEW A, NEW B, NEW C, Advances(A, B), Advances(B, C)
    PROVE  Advances(A, C)
BY DEF Advances

\* FoldSet's function over the findings.
PersistLoop(F, h) ==
    h = [s \in SUBSET F |-> IF s = {} THEN alerts
                            ELSE PersistFinding(h[s \ {CHOOSE x \in s : TRUE}], CHOOSE x \in s : TRUE)]

(* A run stores its findings one after the other.                            *)
LEMMA PersistAll ==
    ASSUME NEW F, IsFiniteSet(F), alerts \in [DOMAIN alerts -> AlertStates], OneLossEach(alerts),
           NEW B, B = FoldSet(LAMBDA f, A : PersistFinding(A, f), alerts, F)
    PROVE  B \in [DOMAIN B -> AlertStates] /\ Advances(alerts, B)
<1> DEFINE K == DOMAIN alerts \cup {FindingKey(f) : f \in F}
           V == UNION {[T -> AlertStates] : T \in SUBSET K}
           op == [p \in F \X V |-> PersistFinding(p[2], p[1])]
           pick == [s \in SUBSET F |-> CHOOSE x \in s : TRUE]
           good == [s \in SUBSET F |-> {A \in V : Advances(alerts, A)}]
<1>1. \A A \in V : A \in [DOMAIN A -> AlertStates] /\ DOMAIN A \subseteq K
  OBVIOUS
<1>2. \A A : A \in [DOMAIN A -> AlertStates] /\ DOMAIN A \subseteq K => A \in V
  OBVIOUS
<1>3. alerts \in V
  BY <1>2
<1>4. \A f \in F : FindingKey(f) \in K
  OBVIOUS
<1> HIDE DEF K, V
<1>5. ASSUME NEW f \in F, NEW A \in V
      PROVE  PersistFinding(A, f) \in V /\ (OneLossEach(A) => Advances(A, PersistFinding(A, f)))
  <2>1. PICK C : C = PersistFinding(A, f)
    OBVIOUS
  <2>2. /\ C \in [DOMAIN C -> AlertStates] /\ DOMAIN C \subseteq DOMAIN A \cup {FindingKey(f)}
        /\ OneLossEach(A) => Advances(A, C)
    BY <1>1, <2>1, PersistKeeps
  <2>3. DOMAIN C \subseteq K
    BY <1>1, <1>4, <2>2
  <2> QED  BY <1>2, <2>1, <2>2, <2>3
<1>6. op \in [F \X V -> V]
  BY <1>5
<1>7. \A s \in SUBSET F : s # {} => pick[s] \in s /\ pick[s] = CHOOSE x \in s : TRUE
  OBVIOUS
<1>8. PICK h \in [SUBSET F -> V] : Passes(h, SUBSET F, alerts, op, pick)
  <2> HIDE DEF op, pick
  <2> QED  BY <1>3, <1>6, <1>7, LoopExists
<1>9. PersistLoop(F, h)
  <2>1. ASSUME NEW s \in SUBSET F, s # {}
        PROVE  op[pick[s], h[s \ {pick[s]}]]
                 = PersistFinding(h[s \ {CHOOSE x \in s : TRUE}], CHOOSE x \in s : TRUE)
    <3>1. PICK x : x = CHOOSE y \in s : TRUE
      OBVIOUS
    <3>2. x \in F /\ s \ {x} \in SUBSET F /\ pick[s] = x
      BY <1>7, <2>1, <3>1
    <3>3. h[s \ {x}] \in V
      BY <1>8, <3>2
    <3>4. op[x, h[s \ {x}]] = PersistFinding(h[s \ {x}], x)
      <4>1. ASSUME NEW A \in V PROVE op[x, A] = PersistFinding(A, x)
        <5>1. <<x, A>> \in F \X V
          <6>1. x \in F
            BY <3>2
          <6> QED  BY <6>1
        <5>2. <<x, A>>[1] = x /\ <<x, A>>[2] = A
          OBVIOUS
        <5>3. PICK p : p = <<x, A>>
          OBVIOUS
        <5>4. op[p] = PersistFinding(p[2], p[1])
          BY <5>1, <5>3
        <5> QED  BY <5>2, <5>3, <5>4
      <4> QED  BY <3>3, <4>1, Zenon
    <3> QED  BY <3>1, <3>2, <3>4
  <2>2. h = [s \in SUBSET F |-> IF s = {} THEN alerts ELSE op[pick[s], h[s \ {pick[s]}]]]
    BY <1>8 DEF Passes
  <2> HIDE DEF op, pick
  <2> QED  BY <2>1, <2>2 DEF PersistLoop
<1>10. PICK g : g = CHOOSE c : PersistLoop(F, c)
  OBVIOUS
<1>11. PersistLoop(F, g)
  BY <1>9, <1>10
<1>12. B = g[F]
  BY <1>10 DEF FoldSet, MapThenFoldSet, PersistLoop
<1>13. g[{}] = alerts /\ alerts \in good[{}]
  <2>1. g[{}] = alerts
    BY <1>11 DEF PersistLoop
  <2>2. Advances(alerts, alerts)
    BY DEF Advances
  <2> QED  BY <1>3, <2>1, <2>2
<1>14. \A s \in SUBSET F : s # {} => \E x \in s : g[s \ {x}] \in good[s \ {x}] => g[s] \in good[s]
  <2> SUFFICES ASSUME NEW s \in SUBSET F, s # {}
               PROVE  \E x \in s : g[s \ {x}] \in good[s \ {x}] => g[s] \in good[s]
    OBVIOUS
  <2>1. PICK x : x = CHOOSE y \in s : TRUE
    OBVIOUS
  <2>2. x \in s /\ x \in F /\ s \ {x} \in SUBSET F
    BY <2>1
  <2>3. g[s] = PersistFinding(g[s \ {x}], x)
    BY <1>11, <2>1 DEF PersistLoop
  <2>4. ASSUME g[s \ {x}] \in V, Advances(alerts, g[s \ {x}])
        PROVE  g[s] \in V /\ Advances(alerts, g[s])
    <3>1. OneLossEach(g[s \ {x}])
      BY <2>4 DEF Advances
    <3>2. g[s] \in V /\ Advances(g[s \ {x}], g[s])
      BY <1>5, <2>2, <2>3, <2>4, <3>1
    <3> QED  BY <2>4, <3>2, AdvancesTransitive
  <2>5. /\ good[s] = {A \in V : Advances(alerts, A)}
        /\ good[s \ {x}] = {A \in V : Advances(alerts, A)}
    BY <2>2
  <2>6. g[s \ {x}] \in good[s \ {x}] => g[s] \in good[s]
    BY <2>4, <2>5
  <2> QED  BY <2>2, <2>6
<1>15. g[F] \in good[F]
  <2>1. g[{}] \in good[{}]
    BY <1>13
  <2> HIDE DEF good
  <2>2. \A s \in SUBSET F : g[s] \in good[s]
    BY <1>14, <2>1, LoopKeeps
  <2> QED  BY <2>2
<1> QED  BY <1>1, <1>12, <1>15

LEMMA ResolveKeeps ==
    ASSUME NEW A, A \in [DOMAIN A -> AlertStates], OneLossEach(A), NEW B, B = ResolveSuperseded(A)
    PROVE  B \in [DOMAIN B -> AlertStates] /\ Advances(A, B)
<1>1. PICK S : S = Stale(A)
  OBVIOUS
<1>2. \A k \in S : ~Human(A[k])
  BY <1>1 DEF Stale, Human, Operational, Decided
<1>3. B = [k \in DOMAIN A |-> IF k \in S
                              THEN [status |-> "JUSTIFIED", last |-> "ALERT_AUTO_SUPERSEDED"]
                              ELSE A[k]]
  BY <1>1 DEF ResolveSuperseded
<1>4. [status |-> "JUSTIFIED", last |-> "ALERT_AUTO_SUPERSEDED"] \in AlertStates
  BY DEF AlertStates, Decided
<1>5. B \in [DOMAIN A -> AlertStates]
  BY <1>3, <1>4
<1>6. Advances(A, B)
  BY <1>2, <1>3 DEF Advances, OneLossEach
<1> QED  BY <1>5, <1>6

(* What a run stores.                                                        *)
LEMMA FraudCommitGood ==
    ASSUME AlertsInv, FraudCommit
    PROVE  alerts' \in [DOMAIN alerts' -> AlertStates] /\ Advances(alerts, alerts')
<1>1. PICK B : B = FoldSet(LAMBDA f, A : PersistFinding(A, f), alerts, fw.found)
  OBVIOUS
<1>2. PICK F : F = fw.found
  OBVIOUS
<1>3. IsFiniteSet(F) /\ alerts \in [DOMAIN alerts -> AlertStates] /\ OneLossEach(alerts)
  BY <1>2 DEF AlertsInv
<1>4. B = FoldSet(LAMBDA f, A : PersistFinding(A, f), alerts, F)
  BY <1>1, <1>2
<1>5. B \in [DOMAIN B -> AlertStates] /\ Advances(alerts, B)
  BY <1>3, <1>4, PersistAll
<1>6. alerts' = ResolveSuperseded(B)
  BY <1>1, Zenon DEF FraudCommit
<1>7. OneLossEach(B)
  BY <1>5 DEF Advances
<1>8. alerts' \in [DOMAIN alerts' -> AlertStates] /\ Advances(B, alerts')
  BY <1>5, <1>6, <1>7, ResolveKeeps
<1> QED  BY <1>5, <1>8, AdvancesTransitive

-----------------------------------------------------------------------------
(* The steps of the whole system, one part of the invariant after the      *)
(* other.                                                                  *)

LEMMA VersionsStep ==
    ASSUME VersionsInv, [Next]_vars
    PROVE  VersionsInv' /\ world' = world
<1>1. ASSUME UNCHANGED <<world, stored>> PROVE VersionsInv' /\ world' = world
  BY <1>1 DEF VersionsInv, Docs
<1>2. ASSUME NEW i \in Docs, NEW b \in DOMAIN world.docs[i], ParseSome(i, b)
      PROVE  VersionsInv' /\ world' = world
  <2>1. /\ world' = world /\ stored' = [stored EXCEPT ![i] = Append(@, b)]
    BY <1>2 DEF ParseSome, Parse
  <2>2. /\ DOMAIN stored' = Docs
        /\ \A j \in Docs : stored'[j] = IF j = i THEN Append(stored[i], b) ELSE stored[j]
    BY <2>1 DEF VersionsInv
  <2>3. Append(stored[i], b) \in Seq(DOMAIN world.docs[i])
    <3> DEFINE B == DOMAIN world.docs[i]
    <3>1. stored[i] \in Seq(B) /\ b \in B
      BY DEF VersionsInv
    <3> HIDE DEF B
    <3>2. Append(stored[i], b) \in Seq(B)
      BY <3>1
    <3> QED  BY <3>2 DEF B
  <2>4. Docs' = Docs
    BY <2>1 DEF Docs
  <2>5. \A j \in Docs : stored'[j] \in Seq(DOMAIN world.docs[j])
    BY <2>2, <2>3 DEF VersionsInv
  <2> QED  BY <2>1, <2>2, <2>4, <2>5 DEF VersionsInv
<1>3. CASE UNCHANGED vars
  BY <1>1, <1>3 DEF vars, workerVars
<1>4. CASE Correlate1
  BY <1>1, <1>4 DEF Correlate1, CorrBegin, CorrCommit
<1>5. CASE Evaluate1
  BY <1>1, <1>5 DEF Evaluate1, FraudBegin, FraudCommit, workerVars
<1>6. CASE ReviewCommit \/ ReviewLost
  BY <1>1, <1>6 DEF ReviewCommit, ReviewLost, workerVars
<1>7. CASE ActivateCommit \/ ActivateLost
  BY <1>1, <1>7 DEF ActivateCommit, ActivateLost, workerVars
<1>8. CASE Wait \/ BreakDeadlock
  BY <1>1, <1>8 DEF Wait, CloseTimePasses, BreakDeadlock, workerVars
<1>9. CASE Fault
  BY <1>1, <1>9 DEF Fault, CorrRollback, FraudRollback, workerVars
<1>10. ASSUME NEW j, NEW d, ReviewBegin(j, d) PROVE VersionsInv' /\ world' = world
  BY <1>1, <1>10 DEF ReviewBegin, workerVars
<1>11. ASSUME NEW b, NEW rewind, ActivateBegin(b, rewind) PROVE VersionsInv' /\ world' = world
  BY <1>1, <1>11 DEF ActivateBegin, workerVars
<1>12. ASSUME NEW k, NEW status, Decide(k, status) PROVE VersionsInv' /\ world' = world
  BY <1>1, <1>12 DEF Decide, UpdateAlert, workerVars
<1>13. ASSUME NEW r, Toggle(r) PROVE VersionsInv' /\ world' = world
  BY <1>1, <1>13 DEF Toggle, SetRuleEnabled, workerVars
<1> QED
  BY <1>2, <1>3, <1>4, <1>5, <1>6, <1>7, <1>8, <1>9, <1>10, <1>11, <1>12, <1>13 DEF Next

(* What an episode holds is decided when it is grouped.                      *)
LEMMA EpisodeStands ==
    ASSUME world' = world, NEW c, Consistent(c), Unbridged(c)
    PROVE  Consistent(c)' /\ Unbridged(c)'
<1>1. Episode(c)' = Episode(c)
  BY DEF Episode, Members
<1>2. PICK E : E = Episode(c)
  OBVIOUS
<1>3. Consistent(c)'
  BY <1>1 DEF Consistent
<1>4. Unbridged(c)'
  BY <1>1 DEF Unbridged
<1> QED  BY <1>3, <1>4

LEMMA EpisodesStep ==
    ASSUME VersionsInv, EpisodesInv, [Next]_vars, world' = world
    PROVE  EpisodesInv'
<1> DEFINE Good(c) == Consistent(c) /\ Unbridged(c)
<1>0. \A c : Good(c) => Good(c)'
  BY EpisodeStands
<1>1. ASSUME IsFiniteSet(current'), IsFiniteSet(cw'.groups), \A c \in current' \cup cw'.groups : Good(c)
      PROVE  EpisodesInv'
  BY <1>0, <1>1 DEF EpisodesInv
<1>2. IsFiniteSet(current) /\ IsFiniteSet(cw.groups) /\ \A c \in current \cup cw.groups : Good(c)
  BY DEF EpisodesInv
<1>3. IsFiniteSet(NoRun.groups) /\ NoRun.groups = {}
  BY FS_EmptySet DEF NoRun
<1> HIDE DEF Good
<1>4. ASSUME UNCHANGED <<current, cw>> PROVE EpisodesInv'
  BY <1>1, <1>2, <1>4
<1>5. ASSUME current' \subseteq current, cw' = cw \/ cw' = NoRun PROVE EpisodesInv'
  <2>1. IsFiniteSet(current')
    BY <1>2, <1>5, FS_Subset
  <2> QED  BY <1>1, <1>2, <1>3, <1>5, <2>1
<1>6. CASE UNCHANGED vars
  BY <1>4, <1>6 DEF vars, workerVars
<1>7. CASE CorrBegin
  <2>1. current' = current
    BY <1>7 DEF CorrBegin
  <2>2. IsFiniteSet(cw'.groups) /\ \A c \in cw'.groups : Good(c)
    BY <1>7, CorrBeginGood DEF Good
  <2> QED  BY <1>1, <1>2, <2>1, <2>2
<1>8. CASE CorrCommit
  <2>1. current' = (current \ Retiring) \cup cw.groups /\ cw' = NoRun
    BY <1>8 DEF CorrCommit
  <2>2. IsFiniteSet(current \ Retiring)
    BY <1>2, FS_Subset
  <2>3. IsFiniteSet(current')
    BY <1>2, <2>1, <2>2, FS_Union
  <2> QED  BY <1>1, <1>2, <1>3, <2>1, <2>3
<1>9. CASE Evaluate1
  BY <1>4, <1>9 DEF Evaluate1, FraudBegin, FraudCommit, workerVars
<1>10. CASE ReviewCommit
  <2>1. current' \subseteq current /\ cw' = cw
    BY <1>10 DEF ReviewCommit
  <2> QED  BY <1>5, <2>1
<1>11. CASE ReviewLost \/ ActivateCommit \/ ActivateLost
  BY <1>4, <1>11 DEF ReviewLost, ActivateCommit, ActivateLost, workerVars
<1>12. CASE Wait
  BY <1>4, <1>12 DEF Wait, CloseTimePasses, workerVars
<1>13. CASE BreakDeadlock
  <2>1. current' = current /\ (cw' = cw \/ cw' = NoRun)
    BY <1>13 DEF BreakDeadlock
  <2> QED  BY <1>5, <2>1
<1>14. CASE Fault
  <2>1. current' = current /\ (cw' = cw \/ cw' = NoRun)
    BY <1>14 DEF Fault, CorrRollback, FraudRollback, workerVars
  <2> QED  BY <1>5, <2>1
<1>15. ASSUME NEW i, NEW b, ParseSome(i, b) PROVE EpisodesInv'
  BY <1>4, <1>15 DEF ParseSome, Parse
<1>16. ASSUME NEW j, NEW d, ReviewBegin(j, d) PROVE EpisodesInv'
  BY <1>4, <1>16 DEF ReviewBegin, workerVars
<1>17. ASSUME NEW b, NEW rewind, ActivateBegin(b, rewind) PROVE EpisodesInv'
  BY <1>4, <1>17 DEF ActivateBegin, workerVars
<1>18. ASSUME NEW k, NEW status, Decide(k, status) PROVE EpisodesInv'
  BY <1>4, <1>18 DEF Decide, UpdateAlert, workerVars
<1>19. ASSUME NEW r, Toggle(r) PROVE EpisodesInv'
  BY <1>4, <1>19 DEF Toggle, SetRuleEnabled, workerVars
<1>20. CASE Correlate1
  BY <1>7, <1>8, <1>20 DEF Correlate1
<1> QED
  BY <1>6, <1>9, <1>10, <1>11, <1>12, <1>13, <1>14, <1>15, <1>16, <1>17, <1>18, <1>19, <1>20 DEF Next

\* What a step does with the alerts, whatever else it does: it loses none,
\* leaves what a person decided or overwrites it as a person, and keeps the
\* ones a review is about to close as the review saw them.
Kept ==
    /\ AlertsInv'
    /\ \A k \in DOMAIN alerts : Human(alerts[k]) => alerts'[k].last = "ALERT_UPDATED"

LEMMA AlertsStep ==
    ASSUME VersionsInv, EpisodesInv, AlertsInv, [Next]_vars
    PROVE  Kept
<1>0. /\ alerts \in [DOMAIN alerts -> AlertStates] /\ OneLossEach(alerts) /\ IsFiniteSet(fw.found)
      /\ rules.enabled \subseteq Rules /\ req.alerts \subseteq OperationalAlerts
  BY DEF AlertsInv
<1>1. IsFiniteSet(NoEvaluation.found) /\ NoRequest.alerts = {}
  BY FS_EmptySet DEF NoEvaluation, NoRequest
<1>2. ASSUME UNCHANGED <<alerts, rules>>, IsFiniteSet(fw'.found), req'.alerts \subseteq OperationalAlerts
      PROVE  Kept
  <2>1. OperationalAlerts' = OperationalAlerts
    BY <1>2 DEF OperationalAlerts
  <2>2. AlertsInv'
    BY <1>0, <1>2, <2>1 DEF AlertsInv
  <2> QED  BY <1>2, <2>2 DEF Kept, Human
<1>3. ASSUME UNCHANGED <<alerts, rules, fw, req>> PROVE Kept
  BY <1>0, <1>2, <1>3
<1>4. ASSUME UNCHANGED <<alerts, rules, fw>>, req' = NoRequest PROVE Kept
  BY <1>0, <1>1, <1>2, <1>4
<1>5. CASE UNCHANGED vars
  BY <1>3, <1>5 DEF vars, fraudVars
<1>6. CASE Correlate1
  BY <1>3, <1>6 DEF Correlate1, fraudVars, others
<1>7. CASE FraudBegin /\ UNCHANGED others
  <2>1. IsFiniteSet(fw'.found)
    BY <1>0, <1>7, FoundFinite DEF EpisodesInv
  <2>2. UNCHANGED <<alerts, rules, req>>
    BY <1>7 DEF FraudBegin, others
  <2> QED  BY <1>0, <1>2, <2>1, <2>2
<1>8. CASE FraudCommit /\ (\A k \in req.alerts : alerts'[k] = alerts[k]) /\ UNCHANGED others
  <2>1. alerts' \in [DOMAIN alerts' -> AlertStates] /\ Advances(alerts, alerts')
    BY <1>8, FraudCommitGood
  <2>2. fw' = NoEvaluation /\ rules' = rules /\ req' = req
    BY <1>8 DEF FraudCommit, others
  <2>3. req.alerts \subseteq OperationalAlerts'
    BY <1>0, <1>8, <2>1 DEF OperationalAlerts, Advances
  <2>4. AlertsInv'
    BY <1>0, <1>1, <2>1, <2>2, <2>3 DEF AlertsInv, Advances
  <2> QED  BY <2>1, <2>4 DEF Kept, Human, Advances
<1>9. CASE ReviewCommit
  <2>1. /\ alerts' = [k \in DOMAIN alerts |->
                        IF k \in req.alerts THEN [status |-> "JUSTIFIED", last |-> "ALERT_JOB_EXCLUDED"]
                        ELSE alerts[k]]
        /\ req' = NoRequest /\ UNCHANGED <<rules, fw>>
    BY <1>9 DEF ReviewCommit
  <2>2. [status |-> "JUSTIFIED", last |-> "ALERT_JOB_EXCLUDED"] \in AlertStates
    BY DEF AlertStates, Decided
  <2>3. alerts' \in [DOMAIN alerts -> AlertStates]
    BY <1>0, <2>1, <2>2
  <2>4. OneLossEach(alerts')
    BY <1>0, <2>1 DEF OneLossEach
  <2>5. AlertsInv'
    BY <1>0, <1>1, <2>1, <2>3, <2>4 DEF AlertsInv
  <2>6. \A k \in req.alerts : ~Human(alerts[k])
    BY <1>0 DEF OperationalAlerts, Human, Operational, Decided
  <2> QED  BY <2>1, <2>5, <2>6 DEF Kept, Human
<1>10. CASE ReviewLost
  BY <1>4, <1>10 DEF ReviewLost, fraudVars
<1>11. CASE ActivateCommit \/ ActivateLost
  BY <1>3, <1>11 DEF ActivateCommit, ActivateLost, fraudVars
<1>12. CASE Wait
  BY <1>3, <1>12 DEF Wait, CloseTimePasses
<1>13. CASE BreakDeadlock
  BY <1>3, <1>4, <1>13 DEF BreakDeadlock, fraudVars
<1>14. CASE Fault
  <2>1. UNCHANGED <<alerts, rules, req>> /\ (fw' = fw \/ fw' = NoEvaluation)
    BY <1>14 DEF Fault, CorrRollback, FraudRollback, fraudVars
  <2> QED  BY <1>0, <1>1, <1>2, <2>1
<1>15. ASSUME NEW i, NEW b, ParseSome(i, b) PROVE Kept
  BY <1>3, <1>15 DEF ParseSome, fraudVars, others
<1>16. ASSUME NEW j, NEW d, ReviewBegin(j, d) PROVE Kept
  <2>1. UNCHANGED <<alerts, rules, fw>> /\ req'.alerts = If(d[2], OperationalAlerts \cap About(j))
    BY <1>16 DEF ReviewBegin, fraudVars
  <2>2. req'.alerts \subseteq OperationalAlerts
    BY <2>1 DEF If
  <2> QED  BY <1>0, <1>2, <2>1, <2>2
<1>17. ASSUME NEW b, NEW rewind, ActivateBegin(b, rewind) PROVE Kept
  BY <1>3, <1>17 DEF ActivateBegin, fraudVars
<1>18. ASSUME NEW k \in DOMAIN alerts, NEW status \in Operational \cup Decided, Decide(k, status)
       PROVE  Kept
  <2>1. /\ alerts' = [alerts EXCEPT ![k] = [status |-> status, last |-> "ALERT_UPDATED"]]
        /\ UNCHANGED <<rules, fw, req>> /\ k \notin req.alerts
    BY <1>18 DEF Decide, UpdateAlert
  <2>2. [status |-> status, last |-> "ALERT_UPDATED"] \in AlertStates
    BY DEF AlertStates
  <2>3. /\ DOMAIN alerts' = DOMAIN alerts
        /\ \A h \in DOMAIN alerts :
              alerts'[h] = IF h = k THEN [status |-> status, last |-> "ALERT_UPDATED"] ELSE alerts[h]
    BY <2>1
  <2>4. alerts' \in [DOMAIN alerts' -> AlertStates] /\ OneLossEach(alerts')
    BY <1>0, <2>1, <2>2, <2>3 DEF OneLossEach
  <2>5. req.alerts \subseteq OperationalAlerts'
    BY <1>0, <2>1, <2>3 DEF OperationalAlerts
  <2>6. AlertsInv'
    BY <1>0, <2>1, <2>4, <2>5 DEF AlertsInv
  <2> QED  BY <2>3, <2>6 DEF Kept, Human
<1>19. ASSUME NEW r \in world.switched, Toggle(r) PROVE Kept
  <2>1. r \in Rules
    BY ScenarioAssumption DEF VersionsInv
  <2>2. UNCHANGED <<alerts, fw, req>> /\ rules'.enabled \subseteq Rules
    BY <1>0, <1>19, <2>1 DEF Toggle, SetRuleEnabled
  <2>3. OperationalAlerts' = OperationalAlerts
    BY <2>2 DEF OperationalAlerts
  <2>4. AlertsInv'
    BY <1>0, <2>2, <2>3 DEF AlertsInv
  <2> QED  BY <2>2, <2>4 DEF Kept, Human
<1>20. CASE Evaluate1
  BY <1>7, <1>8, <1>20 DEF Evaluate1
<1> QED
  BY <1>5, <1>6, <1>9, <1>10, <1>11, <1>12, <1>13, <1>14, <1>15, <1>16, <1>17, <1>18, <1>19, <1>20 DEF Next

LEMMA AppendRange ==
    ASSUME NEW s, s \in Seq(Range(s)), NEW x, NEW t, t = Append(s, x)
    PROVE  t \in Seq(Range(t)) /\ Len(t) = Len(s) + 1 /\ Len(s) \in Nat
<1>1. PICK R : R = Range(s) \cup {x}
  OBVIOUS
<1>2. PICK r : r = Range(s)
  OBVIOUS
<1>3. s \in Seq(r) /\ r \subseteq R /\ x \in R
  BY <1>1, <1>2
<1>4. t \in Seq(R) /\ Len(t) = Len(s) + 1 /\ Len(s) \in Nat
  <2>1. s \in Seq(R) /\ Len(s) \in Nat
    BY <1>3, SeqMonotonic
  <2> QED  BY <1>3, <2>1, AppendProperties
<1>5. t \in [1..Len(t) -> R] /\ Len(t) \in Nat
  BY <1>4, LenProperties
<1>6. PICK T : T = Range(t)
  OBVIOUS
<1>7. \A n \in 1..Len(t) : t[n] \in T
  BY <1>5, <1>6 DEF Range
<1>8. t \in [1..Len(t) -> T]
  BY <1>5, <1>7
<1>9. t \in Seq(T)
  BY <1>5, <1>8, SeqDef, ZenonT(60)
<1> QED  BY <1>4, <1>6, <1>9

LEMMA AuditStep ==
    ASSUME AuditInv, [Next]_vars
    PROVE  AuditInv'
<1>0. /\ audit \in Seq(Range(audit)) /\ Len(audit) \in Nat
      /\ req.head \in 0..Len(audit) /\ cli.head \in 0..Len(audit)
      /\ req.on /\ req.head # Len(audit) => req.head = 0
      /\ cli.on /\ cli.head # Len(audit) => cli.head = 0
      /\ ~(req.on /\ req.head > 0 /\ cli.on /\ cli.head > 0)
  BY DEF AuditInv
<1>1. /\ NoRequest.head = 0 /\ ~NoRequest.on
      /\ NoActivation.head = 0 /\ ~NoActivation.on
  BY DEF NoRequest, NoActivation
<1>2. ASSUME UNCHANGED <<audit, req, cli>> PROVE AuditInv'
  BY <1>2 DEF AuditInv
<1>3. ASSUME audit' = audit, req' = NoRequest, cli' = cli PROVE AuditInv'
  BY <1>0, <1>1, <1>3 DEF AuditInv
<1>4. ASSUME audit' = audit, cli' = NoActivation, req' = req PROVE AuditInv'
  BY <1>0, <1>1, <1>4 DEF AuditInv
<1>5. CASE UNCHANGED vars
  BY <1>2, <1>5 DEF vars
<1>6. CASE Correlate1 \/ Evaluate1
  BY <1>2, <1>6 DEF Correlate1, Evaluate1, others
<1>7. CASE ReviewCommit
  <2>1. /\ req.on /\ req.head = Len(audit) /\ req' = NoRequest /\ cli' = cli
        /\ audit' = Append(audit, <<"JOB_REVIEW", req.job>>)
    BY <1>7 DEF ReviewCommit
  <2>2. audit' \in Seq(Range(audit')) /\ Len(audit') = Len(audit) + 1
    BY <1>0, <2>1, AppendRange
  <2>3. cli.on => cli.head = 0
    BY <1>0, <2>1
  <2> QED  BY <1>0, <1>1, <2>1, <2>2, <2>3 DEF AuditInv
<1>8. CASE ActivateCommit
  <2>1. /\ cli.on /\ cli.head = Len(audit) /\ cli' = NoActivation /\ req' = req
        /\ audit' = Append(audit, <<"PARSER_ACTIVATED", cli.build>>)
    BY <1>8 DEF ActivateCommit
  <2>2. audit' \in Seq(Range(audit')) /\ Len(audit') = Len(audit) + 1
    BY <1>0, <2>1, AppendRange
  <2>3. req.on => req.head = 0
    BY <1>0, <2>1
  <2> QED  BY <1>0, <1>1, <2>1, <2>2, <2>3 DEF AuditInv
<1>9. CASE ReviewLost
  BY <1>3, <1>9 DEF ReviewLost
<1>10. CASE ActivateLost
  BY <1>4, <1>10 DEF ActivateLost
<1>11. CASE Wait \/ Fault
  BY <1>2, <1>11 DEF Wait, Fault
<1>12. CASE BreakDeadlock
  BY <1>2, <1>3, <1>12 DEF BreakDeadlock
<1>13. ASSUME NEW i, NEW b, ParseSome(i, b) PROVE AuditInv'
  BY <1>2, <1>13 DEF ParseSome, others
<1>14. ASSUME NEW j, NEW d, ReviewBegin(j, d) PROVE AuditInv'
  <2>1. UNCHANGED <<audit, cli>> /\ req'.head = Len(audit) /\ HeadReadable(Len(audit))
    BY <1>14 DEF ReviewBegin
  <2>2. Len(audit) > 0 => ~(cli.on /\ cli.head > 0)
    BY <2>1 DEF HeadReadable
  <2> QED  BY <1>0, <2>1, <2>2 DEF AuditInv
<1>15. ASSUME NEW b, NEW rewind, ActivateBegin(b, rewind) PROVE AuditInv'
  <2>1. UNCHANGED <<audit, req>> /\ cli'.head = Len(audit) /\ HeadReadable(Len(audit))
    BY <1>15 DEF ActivateBegin
  <2>2. Len(audit) > 0 => ~(req.on /\ req.head > 0)
    BY <2>1 DEF HeadReadable
  <2> QED  BY <1>0, <2>1, <2>2 DEF AuditInv
<1>16. ASSUME NEW k, NEW status, Decide(k, status) PROVE AuditInv'
  BY <1>2, <1>16 DEF Decide
<1>17. ASSUME NEW r, Toggle(r) PROVE AuditInv'
  BY <1>2, <1>17 DEF Toggle
<1> QED
  BY <1>5, <1>6, <1>7, <1>8, <1>9, <1>10, <1>11, <1>12, <1>13, <1>14, <1>15, <1>16, <1>17 DEF Next

-----------------------------------------------------------------------------
(* Theorems.                                                               *)

LEMMA AnalysisStart == Init => AnalysisInv
<1> SUFFICES ASSUME Init PROVE AnalysisInv
  OBVIOUS
<1>1. VersionsInv
  BY DEF Init, WorkerInit, VersionsInv
<1>2. EpisodesInv
  BY FS_EmptySet DEF Init, WorkerInit, EpisodesInv, NoRun
<1>3. AlertsInv
  <2>1. alerts = <<>> /\ DOMAIN alerts = {}
    BY DEF Init, FraudInit
  <2>2. alerts \in [DOMAIN alerts -> AlertStates] /\ OneLossEach(alerts)
    BY <2>1 DEF OneLossEach
  <2> QED  BY <2>2, FS_EmptySet DEF Init, FraudInit, AlertsInv, NoEvaluation, NoRequest
<1>4. AuditInv
  <2>1. audit = <<>> /\ audit \in Seq(Range(audit)) /\ Len(audit) = 0
    BY DEF Init
  <2> QED  BY <2>1 DEF Init, AuditInv, NoRequest, NoActivation
<1> QED  BY <1>1, <1>2, <1>3, <1>4 DEF AnalysisInv

LEMMA AnalysisStep ==
    ASSUME AnalysisInv, [Next]_vars
    PROVE  AnalysisInv'
<1>1. VersionsInv /\ EpisodesInv /\ AlertsInv /\ AuditInv
  BY DEF AnalysisInv
<1>2. VersionsInv' /\ world' = world
  BY <1>1, VersionsStep
<1>3. EpisodesInv'
  BY <1>1, <1>2, EpisodesStep
<1>4. AlertsInv'
  BY <1>1, AlertsStep DEF Kept
<1>5. AuditInv'
  BY <1>1, AuditStep
<1> QED  BY <1>2, <1>3, <1>4, <1>5 DEF AnalysisInv

(* The inductive invariant of the two workers, a review and an activation.   *)
THEOREM AnalysisInvariant == Spec => []AnalysisInv
BY AnalysisStart, AnalysisStep, PTL DEF Spec

(* Whatever is printed, parsed late, excluded, replayed or rolled back: no   *)
(* stored episode holds documents that contradict each other                 *)
(* (_correlate_pairs, run_once).                                             *)
THEOREM EpisodesConsistent == Spec => []EpisodesAreConsistent
<1>1. AnalysisInv => EpisodesAreConsistent
  BY DEF AnalysisInv, EpisodesInv, EpisodesAreConsistent
<1> QED  BY <1>1, AnalysisInvariant, PTL

(* Copies, responses and refunds never hold two sales together               *)
(* (_correlate_pairs, run_once).                                             *)
THEOREM NoBridges == Spec => []AuxiliaryNeverBridges
<1>1. AnalysisInv => AuxiliaryNeverBridges
  BY DEF AnalysisInv, EpisodesInv, AuxiliaryNeverBridges
<1> QED  BY <1>1, AnalysisInvariant, PTL

(* A loss is one incident of its correlation, through every version of the   *)
(* rule and every order in which findings are stored (_persist_finding).     *)
THEOREM OneAlertPerLoss == Spec => []LossHasOneAlert
<1>1. AnalysisInv => LossHasOneAlert
  <2> SUFFICES ASSUME AnalysisInv, NEW c
               PROVE  Cardinality({k \in DOMAIN alerts : RuleOf(k) = Primary /\ CorrelationOf(k) = c}) <= 1
    BY DEF LossHasOneAlert
  <2> DEFINE K == {k \in DOMAIN alerts : RuleOf(k) = Primary /\ CorrelationOf(k) = c}
  <2>1. \A h, k \in K : h = k
    BY DEF AnalysisInv, AlertsInv, OneLossEach
  <2>2. K = {} \/ \E k : K = {k}
    BY <2>1
  <2> HIDE DEF K
  <2>3. Cardinality(K) \in {0, 1}
    BY <2>2, FS_EmptySet, FS_Singleton
  <2> QED  BY <2>3 DEF K
<1> QED  BY <1>1, AnalysisInvariant, PTL

(* Only the first entry of the audit chain can be lost to another one        *)
(* (_append_audit_session).                                                  *)
THEOREM AuditRace == Spec => []AuditRaceOnlyAtFirst
<1>1. AnalysisInv => AuditRaceOnlyAtFirst
  BY DEF AnalysisInv, AuditInv, AuditRaceOnlyAtFirst
<1> QED  BY <1>1, AnalysisInvariant, PTL

(* What a person decided about an alert is changed by a person only          *)
(* (_persist_finding, _resolve_superseded_alerts, review_job).               *)
THEOREM ClosureStands == Spec => HumanClosureStands
<1>1. AnalysisInv /\ [Next]_vars =>
        [\A k \in DOMAIN alerts :
           alerts[k].status \in Decided /\ alerts[k].last = "ALERT_UPDATED"
              => alerts'[k].last = "ALERT_UPDATED"]_alerts
  BY AlertsStep DEF AnalysisInv, Kept, Human
<1> QED  BY <1>1, AnalysisInvariant, PTL DEF Spec, HumanClosureStands

=============================================================================
