---------------------------- MODULE BitmapTheorems ----------------------------
(***************************************************************************)
(* Facts about rank, select and the nearest-clear searches over any finite *)
(* bitmap, cited by the proofs about the arrays built on them.             *)
(***************************************************************************)
EXTENDS Bitmaps, FiniteSetTheorems, FunctionTheorems, TLAPS

IsBitmap(S) == IsFiniteSet(S) /\ S \subseteq Nat

(* A rank counts some of the set bits. *)
LEMMA RankType ==
  ASSUME NEW S, IsBitmap(S), NEW i \in Int
  PROVE  /\ Rank(S, i) \in Nat
         /\ Cardinality(S) \in Nat
         /\ Rank(S, i) <= Cardinality(S)
  <1>1. {j \in S : j < i} \in SUBSET S
    OBVIOUS
  <1>2. IsFiniteSet({j \in S : j < i})
        /\ Cardinality({j \in S : j < i}) <= Cardinality(S)
    BY <1>1, FS_Subset DEF IsBitmap
  <1> QED
    BY <1>2, FS_CardinalityType DEF Rank, IsBitmap

(* A set bit is counted by the rank of every later position. *)
LEMMA RankIncreases ==
  ASSUME NEW S, IsBitmap(S), NEW p \in S, NEW q \in Int, p < q
  PROVE  Rank(S, p) < Rank(S, q)
  <1> DEFINE P == {j \in S : j < p}
             Q == {j \in S : j < q}
  <1>1. IsFiniteSet(P) /\ IsFiniteSet(Q)
    BY FS_Subset DEF IsBitmap
  <1>0. p \in Int /\ S \subseteq Int
    BY DEF IsBitmap
  <1>2. P \cup {p} \in SUBSET Q
    <2>1. p \in Q
      BY <1>0
    <2>2. \A j \in P : j \in Q
      BY <1>0
    <2> QED
      BY <2>1, <2>2
  <1>3. Cardinality(P \cup {p}) <= Cardinality(Q)
    BY <1>1, <1>2, FS_Subset
  <1>4. Cardinality(P \cup {p}) = Cardinality(P) + 1
    <2>1. p \notin P
      BY <1>0
    <2> HIDE DEF P
    <2> QED
      BY <1>1, <2>1, FS_AddElement
  <1>5. Cardinality(P) \in Nat /\ Cardinality(Q) \in Nat
    BY <1>1, FS_CardinalityType
  <1> QED
    BY <1>3, <1>4, <1>5 DEF Rank

(* The rank of a set bit is below the popcount. *)
LEMMA RankOfMember ==
  ASSUME NEW S, IsBitmap(S), NEW p \in S
  PROVE  Rank(S, p) \in 0 .. Cardinality(S) - 1
  <1>1. p \in Int /\ p + 1 \in Int /\ p < p + 1
    BY DEF IsBitmap
  <1>2. Rank(S, p) < Rank(S, p + 1)
    BY <1>1, RankIncreases
  <1> QED
    BY <1>1, <1>2, RankType

(* Distinct set bits have distinct ranks, in their own order. *)
LEMMA RankOrders ==
  ASSUME NEW S, IsBitmap(S), NEW p \in S, NEW q \in S
  PROVE  /\ p < q <=> Rank(S, p) < Rank(S, q)
         /\ p = q <=> Rank(S, p) = Rank(S, q)
  <1>1. p \in Nat /\ q \in Nat
    BY DEF IsBitmap
  <1>2. Rank(S, p) \in Nat /\ Rank(S, q) \in Nat
    BY <1>1, RankType
  <1>3. p < q => Rank(S, p) < Rank(S, q)
    BY <1>1, RankIncreases
  <1>4. q < p => Rank(S, q) < Rank(S, p)
    BY <1>1, RankIncreases
  <1> QED
    BY <1>1, <1>2, <1>3, <1>4

(* select finds a set bit of every rank below the popcount: ranks map the  *)
(* set bits injectively into as many numbers, hence onto them.             *)
LEMMA SelectMember ==
  ASSUME NEW S, IsBitmap(S), NEW r \in 0 .. Cardinality(S) - 1
  PROVE  Select(S, r) \in S /\ Rank(S, Select(S, r)) = r
  <1> DEFINE n == Cardinality(S)
             T == 0 .. n - 1
             f == [p \in S |-> Rank(S, p)]
  <1>1. n \in Nat
    BY FS_CardinalityType DEF IsBitmap
  <1>2. IsFiniteSet(T) /\ Cardinality(T) = n
    BY <1>1, FS_Interval
  <1>3. f \in [S -> T]
    BY RankOfMember
  <1>4. \A p, q \in S : f[p] = f[q] => p = q
    BY RankOrders
  <1>5. f \in Injection(S, T)
    BY <1>3, <1>4 DEF Injection, IsInjective
  <1>6. f \in Surjection(S, T)
    BY <1>2, <1>5, FS_Injection
  <1>7. PICK p \in S : Rank(S, p) = r
    BY <1>6 DEF Surjection
  <1> QED
    BY <1>7 DEF Select

(* select inverts rank on the set bits. *)
LEMMA SelectOfRank ==
  ASSUME NEW S, IsBitmap(S), NEW p \in S
  PROVE  Select(S, Rank(S, p)) = p
  <1>1. Rank(S, p) \in 0 .. Cardinality(S) - 1
    BY RankOfMember
  <1>2. Select(S, Rank(S, p)) \in S /\ Rank(S, Select(S, Rank(S, p))) = Rank(S, p)
    BY <1>1, SelectMember
  <1> QED
    BY <1>2, RankOrders

(* select is strictly increasing. *)
LEMMA SelectIncreases ==
  ASSUME NEW S, IsBitmap(S),
         NEW r \in 0 .. Cardinality(S) - 1, NEW s \in 0 .. Cardinality(S) - 1, r < s
  PROVE  Select(S, r) < Select(S, s)
  BY SelectMember, RankOrders

(* A bit more below i raises the rank of i by one.                         *)
LEMMA RankWith ==
  ASSUME NEW S, IsBitmap(S), NEW a \in Nat, a \notin S, NEW i \in Int
  PROVE  /\ IsBitmap(S \cup {a})
         /\ Cardinality(S \cup {a}) = Cardinality(S) + 1
         /\ a < i => Rank(S \cup {a}, i) = Rank(S, i) + 1
         /\ i <= a => Rank(S \cup {a}, i) = Rank(S, i)
  <1> DEFINE P == {j \in S : j < i}
             Q == {j \in S \cup {a} : j < i}
  <1>1. IsFiniteSet(P) /\ a \notin P
    BY FS_Subset DEF IsBitmap
  <1>2. IsBitmap(S \cup {a}) /\ Cardinality(S \cup {a}) = Cardinality(S) + 1
    BY FS_AddElement DEF IsBitmap
  <1>3. CASE a < i
    <2>1. Q = P \cup {a}
      BY <1>3
    <2> HIDE DEF P, Q
    <2>2. Cardinality(Q) = Cardinality(P) + 1
      BY <1>1, <2>1, FS_AddElement
    <2> QED
      BY <1>2, <1>3, <2>2 DEF Rank, P, Q
  <1>4. CASE i <= a
    <2>1. Q = P
      BY <1>4
    <2> QED
      BY <1>2, <1>4, <2>1 DEF Rank
  <1> QED
    BY <1>2, <1>3, <1>4

(* Between two positions lie at most as many set bits as positions. *)
LEMMA RankSpan ==
  ASSUME NEW S, IsBitmap(S), NEW p \in Int, NEW q \in Int, p <= q
  PROVE  /\ Rank(S, q) <= Rank(S, p) + (q - p)
         /\ p .. q - 1 \subseteq S => Rank(S, q) = Rank(S, p) + (q - p)
  <1> DEFINE P == {j \in S : j < p}
             Q == {j \in S : j < q}
             B == S \cap (p .. q - 1)
  <1>1. IsFiniteSet(P) /\ IsFiniteSet(B) /\ S \subseteq Int
    BY FS_Subset DEF IsBitmap
  <1>2. Q = P \cup B /\ P \cap B = {}
    <2>1. \A j \in S : (j < q <=> j < p \/ j \in p .. q - 1) /\ ~(j < p /\ j \in p .. q - 1)
      BY <1>1
    <2> QED
      BY <2>1
  <1>3. IsFiniteSet(p .. q - 1) /\ Cardinality(p .. q - 1) = q - p
    <2>1. IsFiniteSet(p .. q - 1) /\ q - 1 \in Int
      BY FS_Interval
    <2>2. Cardinality(p .. q - 1) = IF p > q - 1 THEN 0 ELSE (q - 1) - p + 1
      BY <2>1, FS_Interval
    <2> QED
      BY <2>1, <2>2
  <1>4. B \subseteq p .. q - 1 /\ (p .. q - 1 \subseteq S => B = p .. q - 1)
    OBVIOUS
  <1> HIDE DEF P, Q, B
  <1>5. Cardinality(Q) = Cardinality(P) + Cardinality(B)
    <2>1. Cardinality(P \cap B) = 0
      BY <1>2, FS_EmptySet
    <2>2. Cardinality(Q) = Cardinality(P) + Cardinality(B) - Cardinality(P \cap B)
      BY <1>1, <1>2, FS_Union
    <2>3. Cardinality(P) \in Nat /\ Cardinality(B) \in Nat
      BY <1>1, FS_CardinalityType
    <2> QED
      BY <2>1, <2>2, <2>3
  <1>6. Cardinality(B) <= q - p /\ Cardinality(P) \in Nat /\ Cardinality(B) \in Nat
    <2>1. Cardinality(B) <= Cardinality(p .. q - 1)
      BY <1>3, <1>4, FS_Subset
    <2> QED
      BY <1>1, <1>3, <2>1, FS_CardinalityType
  <1>7. Rank(S, p) = Cardinality(P) /\ Rank(S, q) = Cardinality(Q)
    BY DEF Rank, P, Q
  <1> QED
    BY <1>3, <1>4, <1>5, <1>6, <1>7

LEMMA RankOfNew ==
  ASSUME NEW S, IsBitmap(S), NEW a \in Nat, a \notin S
  PROVE  /\ Rank(S \cup {a}, a) = Rank(S, a)
         /\ Rank(S, a) \in 0 .. Cardinality(S)
         /\ \A i \in S : /\ Rank(S, i) \in 0 .. Cardinality(S) - 1
                         /\ i < a => /\ Rank(S \cup {a}, i) = Rank(S, i)
                                     /\ Rank(S, i) < Rank(S, a)
                         /\ a < i => /\ Rank(S \cup {a}, i) = Rank(S, i) + 1
                                     /\ Rank(S, a) <= Rank(S, i)
  <1>1. a \in Int /\ a <= a
    OBVIOUS
  <1>2. Rank(S \cup {a}, a) = Rank(S, a)
    BY <1>1, RankWith
  <1>3. Rank(S, a) \in 0 .. Cardinality(S) /\ Cardinality(S) \in Nat
    BY <1>1, RankType
  <1>4. ASSUME NEW i \in S
        PROVE  /\ Rank(S, i) \in 0 .. Cardinality(S) - 1
               /\ i < a => /\ Rank(S \cup {a}, i) = Rank(S, i)
                           /\ Rank(S, i) < Rank(S, a)
               /\ a < i => /\ Rank(S \cup {a}, i) = Rank(S, i) + 1
                           /\ Rank(S, a) <= Rank(S, i)
    <2>1. i \in Int /\ i \in S \cup {a} /\ a \in S \cup {a}
      BY DEF IsBitmap
    <2>2. Rank(S, i) \in 0 .. Cardinality(S) - 1
      BY RankOfMember
    <2>3. i < a => i <= a /\ Rank(S, i) < Rank(S, a)
      BY <1>1, <2>1, RankIncreases
    <2>4. i <= a => Rank(S \cup {a}, i) = Rank(S, i)
      BY <2>1, RankWith
    <2>5. a < i => Rank(S \cup {a}, i) = Rank(S, i) + 1
      BY <2>1, RankWith
    <2>6. a < i => Rank(S \cup {a}, a) < Rank(S \cup {a}, i)
      <3>1. IsBitmap(S \cup {a})
        BY <1>1, RankWith
      <3> QED
        BY <2>1, <3>1, RankIncreases
    <2> QED
      BY <1>2, <1>3, <2>2, <2>3, <2>4, <2>5, <2>6
  <1> QED
    BY <1>2, <1>3, <1>4

(* Pairing equal ranks is a bijection between bitmaps of equal popcount.   *)
LEMMA EqualRanksPair ==
  ASSUME NEW S, NEW T, IsBitmap(S), IsBitmap(T), Cardinality(S) = Cardinality(T)
  PROVE  /\ \A p \in S : Select(T, Rank(S, p)) \in T
         /\ \A p, q \in S : Select(T, Rank(S, p)) = Select(T, Rank(S, q)) => p = q
         /\ \A t \in T : \E p \in S : Select(T, Rank(S, p)) = t
  <1>1. \A p \in S : Rank(S, p) \in 0 .. Cardinality(T) - 1
    BY RankOfMember
  <1>2. \A p \in S : /\ Select(T, Rank(S, p)) \in T
                     /\ Rank(T, Select(T, Rank(S, p))) = Rank(S, p)
    BY <1>1, SelectMember
  <1>3. \A p, q \in S : Select(T, Rank(S, p)) = Select(T, Rank(S, q)) => p = q
    BY <1>2, RankOrders
  <1>4. ASSUME NEW t \in T
        PROVE  \E p \in S : Select(T, Rank(S, p)) = t
    <2>1. Rank(T, t) \in 0 .. Cardinality(S) - 1
      BY RankOfMember
    <2>2. Select(S, Rank(T, t)) \in S /\ Rank(S, Select(S, Rank(T, t))) = Rank(T, t)
      BY <2>1, SelectMember
    <2>3. Select(T, Rank(T, t)) = t
      BY SelectOfRank
    <2> QED
      BY <2>2, <2>3
  <1> QED
    BY <1>2, <1>3, <1>4

LEMMA EqualRanksCover ==
  ASSUME NEW S, NEW T, IsBitmap(S), IsBitmap(T), Cardinality(S) = Cardinality(T),
         NEW t \in T
  PROVE  \E p \in S : Select(T, Rank(S, p)) = t
  BY EqualRanksPair

(* The same when S has one more bit, whose rank k is skipped.              *)
Skip(r, k) == IF r < k THEN r ELSE r - 1

LEMMA SkippedRanksPair ==
  ASSUME NEW S, NEW T, IsBitmap(S), IsBitmap(T), Cardinality(S) = Cardinality(T) + 1,
         NEW k \in 0 .. Cardinality(T)
  PROVE  /\ \A p \in S : Rank(S, p) # k => Select(T, Skip(Rank(S, p), k)) \in T
         /\ \A p, q \in S : /\ Rank(S, p) # k /\ Rank(S, q) # k
                            /\ Select(T, Skip(Rank(S, p), k)) = Select(T, Skip(Rank(S, q), k))
                            => p = q
         /\ \A t \in T : \E p \in S : Rank(S, p) # k /\ Select(T, Skip(Rank(S, p), k)) = t
  <1> DEFINE n == Cardinality(T)
  <1>1. n \in Nat
    BY FS_CardinalityType DEF IsBitmap
  <1>2. \A p \in S : Rank(S, p) \in 0 .. n
    BY <1>1, RankOfMember
  <1> HIDE DEF n
  <1>3. k \in 0 .. n
    BY DEF n
  <1>4. \A p \in S : Rank(S, p) # k => Skip(Rank(S, p), k) \in 0 .. n - 1
    BY <1>1, <1>2, <1>3 DEF Skip
  <1>5. \A p \in S : Rank(S, p) # k =>
          /\ Select(T, Skip(Rank(S, p), k)) \in T
          /\ Rank(T, Select(T, Skip(Rank(S, p), k))) = Skip(Rank(S, p), k)
    BY <1>4, SelectMember DEF n
  <1>6. \A a, b \in 0 .. n : a # k /\ b # k /\ Skip(a, k) = Skip(b, k) => a = b
    BY <1>1, <1>3 DEF Skip
  <1>7. ASSUME NEW p \in S, NEW q \in S, Rank(S, p) # k, Rank(S, q) # k,
               Select(T, Skip(Rank(S, p), k)) = Select(T, Skip(Rank(S, q), k))
        PROVE  p = q
    <2>1. Skip(Rank(S, p), k) = Skip(Rank(S, q), k)
      BY <1>5, <1>7
    <2>2. Rank(S, p) = Rank(S, q)
      BY <1>2, <1>6, <1>7, <2>1
    <2> QED
      BY <2>2, RankOrders
  <1>8. ASSUME NEW t \in T
        PROVE  \E p \in S : Rank(S, p) # k /\ Select(T, Skip(Rank(S, p), k)) = t
    <2> DEFINE r == Rank(T, t)
               s == IF r < k THEN r ELSE r + 1
    <2>1. r \in 0 .. n - 1
      BY RankOfMember DEF n
    <2>2. s \in 0 .. n /\ s # k /\ Skip(s, k) = r
      BY <1>1, <1>3, <2>1 DEF Skip
    <2>3. s \in 0 .. Cardinality(S) - 1
      BY <1>1, <2>2 DEF n
    <2> HIDE DEF s
    <2>4. Select(S, s) \in S /\ Rank(S, Select(S, s)) = s
      BY <2>3, SelectMember
    <2>5. Select(T, r) = t
      BY SelectOfRank
    <2> QED
      BY <2>2, <2>4, <2>5
  <1> QED
    BY <1>5, <1>7, <1>8

(* An order-preserving map between bitmaps of equal popcount pairs equal   *)
(* ranks: there is no other way to keep the order.                         *)
LEMMA OrderPairsRanks ==
  ASSUME NEW S, NEW T, IsBitmap(S), IsBitmap(T), Cardinality(S) = Cardinality(T),
         NEW f \in [S -> T], \A p, q \in S : p < q => f[p] < f[q],
         NEW p \in S
  PROVE  Select(T, Rank(S, p)) = f[p]
  <1> DEFINE A == {j \in S : j < p}
             B == {j \in T : j < f[p]}
             g == [j \in A |-> f[j]]
  <1>1. /\ \A i \in S : i \in Int /\ f[i] \in T /\ f[i] \in Int
        /\ T \subseteq Int
    <2>1. (\A i \in S : i \in Int) /\ T \subseteq Int
      BY DEF IsBitmap
    <2>2. \A i \in S : f[i] \in T
      OBVIOUS
    <2> QED
      BY <2>1, <2>2
  <1>2. ASSUME NEW i \in S, NEW j \in S, f[i] = f[j] PROVE i = j
    <2>1. ~(f[i] < f[j]) /\ ~(f[j] < f[i])
      BY <1>1, <1>2
    <2>2. ~(i < j) /\ ~(j < i)
      BY <2>1
    <2> QED
      BY <1>1, <2>2
  <1>3. f \in Surjection(S, T)
    <2>1. f \in Injection(S, T)
      BY <1>2 DEF Injection, IsInjective
    <2> QED
      BY <2>1, FS_Injection DEF IsBitmap
  <1>4. g \in [A -> B]
    <2>1. \A j \in A : f[j] \in T /\ f[j] < f[p]
      OBVIOUS
    <2> QED
      BY <2>1
  <1>5. \A i, j \in A : g[i] = g[j] => i = j
    BY <1>2
  <1>6. ASSUME NEW t \in B PROVE \E j \in A : g[j] = t
    <2>1. PICK j \in S : f[j] = t
      BY <1>3 DEF Surjection
    <2>2. j < p
      <3>1. f[j] < f[p]
        BY <2>1
      <3>2. ~(f[p] < f[j]) /\ f[j] # f[p]
        BY <1>1, <3>1
      <3>3. ~(p < j) /\ j # p
        BY <3>2
      <3> QED
        BY <1>1, <3>3
    <2> QED
      BY <2>1, <2>2
  <1>7. IsFiniteSet(A)
    BY FS_Subset DEF IsBitmap
  <1> HIDE DEF A, B, g
  <1>8. g \in Bijection(A, B)
    BY <1>4, <1>5, <1>6 DEF Bijection, Injection, Surjection, IsInjective
  <1>9. Cardinality(A) = Cardinality(B)
    BY <1>7, <1>8, FS_Bijection DEF ExistsBijection
  <1>10. Rank(S, p) = Rank(T, f[p])
    BY <1>9 DEF Rank, A, B
  <1> QED
    BY <1>1, <1>10, SelectOfRank

(* Every non-empty finite set of positions has a lowest member. *)
LEMMA LowestMember ==
  ASSUME NEW P, IsBitmap(P), P # {}
  PROVE  /\ Lowest(P) \in P
         /\ \A q \in P : Lowest(P) <= q
  <1>1. Cardinality(P) \in Nat /\ Cardinality(P) # 0
    BY FS_CardinalityType, FS_EmptySet DEF IsBitmap
  <1> DEFINE p == Select(P, 0)
  <1>2. p \in P /\ Rank(P, p) = 0
    BY <1>1, SelectMember
  <1>3. ASSUME NEW q \in P PROVE p <= q
    <2>1. p \in Nat /\ q \in Nat
      BY <1>2 DEF IsBitmap
    <2>2. Rank(P, q) \in Nat
      BY <2>1, RankType
    <2> QED
      BY <1>2, <2>1, <2>2, RankOrders
  <1> HIDE DEF p
  <1> QED
    BY <1>2, <1>3 DEF Lowest

(* ... and a highest one. *)
LEMMA HighestMember ==
  ASSUME NEW P, IsBitmap(P), P # {}
  PROVE  /\ Highest(P) \in P
         /\ \A q \in P : q <= Highest(P)
  <1> DEFINE n == Cardinality(P)
  <1>1. n \in Nat /\ n # 0
    BY FS_CardinalityType, FS_EmptySet DEF IsBitmap
  <1> DEFINE p == Select(P, n - 1)
  <1>2. p \in P /\ Rank(P, p) = n - 1
    BY <1>1, SelectMember
  <1>3. ASSUME NEW q \in P PROVE q <= p
    <2>1. p \in Nat /\ q \in Nat
      BY <1>2 DEF IsBitmap
    <2>2. Rank(P, q) \in 0 .. n - 1
      BY RankOfMember
    <2>3. ~(p < q)
      BY <1>1, <1>2, <2>2, RankOrders
    <2> QED
      BY <2>1, <2>3
  <1> HIDE DEF p, n
  <1> QED
    BY <1>2, <1>3 DEF Highest

(* The upward search finds the first clear bit of the window, if any. *)
LEMMA NearestClearInFinds ==
  ASSUME NEW S, NEW lo \in Nat, NEW hi \in Int
  PROVE  LET h == NearestClearIn(S, lo, hi)
         IN  \/ h = NoBit /\ \A p \in lo .. hi - 1 : p \in S
             \/ /\ h \in lo .. hi - 1
                /\ h \notin S
                /\ \A p \in lo .. h - 1 : p \in S
  <1> DEFINE P == ClearIn(S, lo, hi)
             h == NearestClearIn(S, lo, hi)
  <1>1. IsBitmap(P)
    <2>1. IsFiniteSet(lo .. hi - 1)
      BY FS_Interval
    <2> QED
      BY <2>1, FS_Subset DEF ClearIn, IsBitmap
  <1>2. CASE P = {}
    BY <1>2 DEF NearestClearIn, Lowest, ClearIn
  <1>3. CASE P # {}
    <2>1. h \in P /\ \A q \in P : h <= q
      BY <1>1, <1>3, LowestMember DEF NearestClearIn
    <2> HIDE DEF h
    <2>2. h \in lo .. hi - 1 /\ h \notin S
      BY <2>1 DEF ClearIn
    <2>3. ASSUME NEW p \in lo .. h - 1 PROVE p \in S
      <3>1. p \in lo .. hi - 1 /\ ~(h <= p)
        BY <2>2
      <3> QED
        BY <2>1, <3>1 DEF ClearIn
    <2> QED
      BY <2>2, <2>3 DEF h
  <1> QED
    BY <1>2, <1>3

(* The downward search finds the last clear bit up to `from`, if any. *)
LEMMA NearestClearBelowFinds ==
  ASSUME NEW S, NEW from \in Int
  PROVE  LET h == NearestClearAtOrBelow(S, from)
         IN  \/ h = NoBit /\ \A p \in 0 .. from : p \in S
             \/ /\ h \in 0 .. from
                /\ h \notin S
                /\ \A p \in h + 1 .. from : p \in S
  <1> DEFINE P == ClearIn(S, 0, from + 1)
             h == NearestClearAtOrBelow(S, from)
  <1>1. IsBitmap(P)
    <2>1. IsFiniteSet(0 .. from + 1 - 1)
      BY FS_Interval
    <2> QED
      BY <2>1, FS_Subset DEF ClearIn, IsBitmap
  <1>2. CASE P = {}
    BY <1>2 DEF NearestClearAtOrBelow, Highest, ClearIn
  <1>3. CASE P # {}
    <2>1. h \in P /\ \A q \in P : q <= h
      BY <1>1, <1>3, HighestMember DEF NearestClearAtOrBelow
    <2> HIDE DEF h
    <2>2. h \in 0 .. from /\ h \notin S
      BY <2>1 DEF ClearIn
    <2>3. ASSUME NEW p \in h + 1 .. from PROVE p \in S
      <3>1. p \in 0 .. from + 1 - 1 /\ ~(p <= h)
        BY <2>2
      <3> QED
        BY <2>1, <3>1 DEF ClearIn
    <2> QED
      BY <2>2, <2>3 DEF h
  <1> QED
    BY <1>2, <1>3

=============================================================================
