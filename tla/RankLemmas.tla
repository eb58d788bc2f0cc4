----------------------------- MODULE RankLemmas -----------------------------
(***************************************************************************)
(* Ranks in a finite set with a strict total order, given as a set of      *)
(* pairs.  A statement with ORDER BY, and the order in which a stream      *)
(* hears of captures, are both modelled as the elements of a set by rank.  *)
(***************************************************************************)
EXTENDS FiniteSetTheorems, TLAPS

StrictTotalOrder(S, R) ==
    /\ \A x \in S : <<x, x>> \notin R
    /\ \A x, y \in S : x # y => <<x, y>> \in R \/ <<y, x>> \in R
    /\ \A x, y, z \in S : <<x, y>> \in R /\ <<y, z>> \in R => <<x, z>> \in R

Before(S, R, x) == {y \in S : <<y, x>> \in R}

Rank(S, R, x) == Cardinality(Before(S, R, x))

\* A rank is a natural number below the size of the set.
LEMMA RankType ==
    ASSUME NEW S, IsFiniteSet(S), NEW R, StrictTotalOrder(S, R), NEW x \in S
    PROVE  Rank(S, R, x) \in 0..(Cardinality(S) - 1)
<1>1. Before(S, R, x) \subseteq S /\ x \notin Before(S, R, x)
  BY DEF Before, StrictTotalOrder
<1>2. /\ IsFiniteSet(Before(S, R, x))
      /\ Cardinality(Before(S, R, x)) <= Cardinality(S)
      /\ Cardinality(Before(S, R, x)) # Cardinality(S)
  BY <1>1, FS_Subset
<1>3. Cardinality(Before(S, R, x)) \in Nat /\ Cardinality(S) \in Nat
  BY <1>2, FS_CardinalityType
<1> QED
  BY <1>2, <1>3 DEF Rank

\* What comes earlier in the order has the smaller rank.
LEMMA RankIncreases ==
    ASSUME NEW S, IsFiniteSet(S), NEW R, StrictTotalOrder(S, R),
           NEW x \in S, NEW y \in S, <<x, y>> \in R
    PROVE  Rank(S, R, x) < Rank(S, R, y)
<1>1. Before(S, R, x) \subseteq Before(S, R, y)
  BY DEF Before, StrictTotalOrder
<1>2. x \in Before(S, R, y) /\ x \notin Before(S, R, x)
  BY DEF Before, StrictTotalOrder
<1>3. IsFiniteSet(Before(S, R, y))
  BY FS_Subset DEF Before
<1>4. /\ IsFiniteSet(Before(S, R, x))
      /\ Cardinality(Before(S, R, x)) <= Cardinality(Before(S, R, y))
      /\ Cardinality(Before(S, R, x)) # Cardinality(Before(S, R, y))
  BY <1>1, <1>2, <1>3, FS_Subset
<1>5. Cardinality(Before(S, R, x)) \in Nat /\ Cardinality(Before(S, R, y)) \in Nat
  BY <1>3, <1>4, FS_CardinalityType
<1> QED
  BY <1>4, <1>5 DEF Rank

\* The order can be read off the ranks; no two elements have the same.
LEMMA RankOrders ==
    ASSUME NEW S, IsFiniteSet(S), NEW R, StrictTotalOrder(S, R),
           NEW x \in S, NEW y \in S
    PROVE  /\ Rank(S, R, x) < Rank(S, R, y) => <<x, y>> \in R
           /\ Rank(S, R, x) = Rank(S, R, y) => x = y
<1>1. Rank(S, R, x) \in Int /\ Rank(S, R, y) \in Int
  BY RankType
<1>2. CASE x = y
  BY <1>1, <1>2
<1>3. CASE x # y /\ <<x, y>> \in R
  BY <1>1, <1>3, RankIncreases
<1>4. CASE x # y /\ <<y, x>> \in R
  BY <1>1, <1>4, RankIncreases
<1> QED
  BY <1>2, <1>3, <1>4 DEF StrictTotalOrder

\* Every number below the size of the set is the rank of some element.
LEMMA RankExists ==
    ASSUME NEW S, IsFiniteSet(S), NEW R, StrictTotalOrder(S, R),
           NEW n \in 0..(Cardinality(S) - 1)
    PROVE  \E x \in S : Rank(S, R, x) = n
<1> DEFINE Ranks == 0..(Cardinality(S) - 1)
           rank == [x \in S |-> Rank(S, R, x)]
<1>1. Cardinality(S) \in Nat
  BY FS_CardinalityType
<1>2. IsFiniteSet(Ranks) /\ Cardinality(Ranks) = Cardinality(S)
  <2>1. /\ IsFiniteSet(0..(Cardinality(S) - 1))
        /\ Cardinality(0..(Cardinality(S) - 1)) =
              IF 0 > Cardinality(S) - 1 THEN 0 ELSE (Cardinality(S) - 1) - 0 + 1
    BY <1>1, FS_Interval, 0 \in Int, Cardinality(S) - 1 \in Int
  <2> QED
    BY <1>1, <2>1
<1>3. rank \in [S -> Ranks]
  BY RankType
<1>4. rank \in Injection(S, Ranks)
  <2>1. \A x, y \in S : rank[x] = rank[y] => x = y
    BY RankOrders
  <2> QED
    BY <1>3, <2>1 DEF Injection, IsInjective
<1>5. rank \in Surjection(S, Ranks)
  <2> HIDE DEF rank, Ranks
  <2> QED
    BY <1>2, <1>4, FS_Injection
<1>6. \E x \in S : rank[x] = n
  BY <1>5 DEF Surjection
<1> QED
  BY <1>6
=============================================================================
