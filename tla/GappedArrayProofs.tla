-------------------------- MODULE GappedArrayProofs --------------------------
(***************************************************************************)
(* For every arity, every set of elements and every pattern of calls, the  *)
(* gapped array keeps its layout and its elements, implements the owned    *)
(* sparse map, never moves an element when another is deleted, and changes *)
(* its capacity only as documented; an insert moves as few elements as any *)
(* layout of the block could.                                              *)
(***************************************************************************)
EXTENDS GappedArray, BitmapTheorems

-----------------------------------------------------------------------------
(* The layout arithmetic.                                                  *)

(* A quotient is characterised by the interval it spans. *)
LEMMA QuotientBounds ==
  ASSUME NEW a \in Nat, NEW n \in Nat \ {0}
  PROVE  /\ a \div n \in Nat
         /\ n * (a \div n) <= a
         /\ a < n * (a \div n) + n
  OBVIOUS

(* Spreading at most c elements over c slots gives each rank a slot of the *)
(* block, and later ranks later slots.                                     *)
LEMMA SpreadPosIncreases ==
  ASSUME NEW n \in Nat \ {0}, NEW c \in Nat, n <= c,
         NEW r \in 0 .. n - 1
  PROVE  /\ SpreadPos(r, n, c) \in 0 .. c - 1
         /\ \A s \in 0 .. n - 1 : r < s => SpreadPos(r, n, c) < SpreadPos(s, n, c)
  <1> DEFINE p == (r * c) \div n
  <1>1. r * c \in Nat
    OBVIOUS
  <1>2. p \in Nat /\ n * p <= r * c
    BY <1>1, QuotientBounds
  <1> HIDE DEF p
  <1>3. p < c
    <2>1. SUFFICES ASSUME c <= p PROVE FALSE
      BY <1>2
    <2>2. n * c <= n * p
      BY <1>2, <2>1
    <2>3. r * c < n * c
      BY <1>1
    <2> QED
      BY <1>1, <1>2, <2>2, <2>3
  <1>4. ASSUME NEW s \in 0 .. n - 1, r < s
        PROVE  p < (s * c) \div n
    <2> DEFINE q == (s * c) \div n
    <2>1. s * c \in Nat
      OBVIOUS
    <2>2. q \in Nat /\ s * c < n * q + n
      BY <2>1, QuotientBounds
    <2> HIDE DEF q
    <2>3. r * c + n <= s * c
      <3>1. (r + 1) * c <= s * c
        BY <1>4
      <3>2. (r + 1) * c = r * c + c
        OBVIOUS
      <3> QED
        BY <1>1, <2>1, <3>1, <3>2
    <2>4. SUFFICES ASSUME q <= p PROVE FALSE
      BY <1>2, <2>2 DEF q
    <2>5. n * q <= n * p
      BY <1>2, <2>2, <2>4
    <2> QED
      BY <1>1, <1>2, <2>1, <2>2, <2>3, <2>5
  <1> QED
    BY <1>2, <1>3, <1>4 DEF SpreadPos, p

(* A spread fills exactly as many slots as there are elements. *)
LEMMA SpreadCardinality ==
  ASSUME NEW n \in Nat, NEW c \in Nat, n <= c
  PROVE  /\ Spread(n, c) \subseteq 0 .. c - 1
         /\ IsBitmap(Spread(n, c))
         /\ Cardinality(Spread(n, c)) = n
  <1> DEFINE f == [r \in 0 .. n - 1 |-> SpreadPos(r, n, c)]
             T == Spread(n, c)
  <1>1. CASE n = 0
    <2>1. 0 .. n - 1 = {}
      BY <1>1
    <2>2. T = {}
      BY <2>1 DEF Spread
    <2> QED
      BY <1>1, <2>2, FS_EmptySet DEF IsBitmap
  <1>2. CASE n # 0
    <2>1. n \in Nat \ {0}
      BY <1>2
    <2>2. \A r \in 0 .. n - 1 : SpreadPos(r, n, c) \in 0 .. c - 1
      BY <2>1, SpreadPosIncreases
    <2>3. T \subseteq 0 .. c - 1
      BY <2>2 DEF Spread
    <2>4. \A r, s \in 0 .. n - 1 : SpreadPos(r, n, c) = SpreadPos(s, n, c) => r = s
      <3>1. SUFFICES ASSUME NEW r \in 0 .. n - 1, NEW s \in 0 .. n - 1,
                            SpreadPos(r, n, c) = SpreadPos(s, n, c), r # s
                     PROVE  FALSE
        OBVIOUS
      <3>2. r < s \/ s < r
        BY <3>1
      <3>3. SpreadPos(r, n, c) < SpreadPos(s, n, c) \/ SpreadPos(s, n, c) < SpreadPos(r, n, c)
        BY <2>1, <3>2, SpreadPosIncreases
      <3> QED
        BY <2>2, <3>1, <3>3
    <2>5. f \in Bijection(0 .. n - 1, T)
      BY <2>4 DEF Spread, Bijection, Injection, Surjection, IsInjective
    <2>6. ExistsBijection(0 .. n - 1, T)
      BY <2>5 DEF ExistsBijection
    <2>7. IsFiniteSet(0 .. n - 1) /\ Cardinality(0 .. n - 1) = n
      BY FS_Interval
    <2>8. IsFiniteSet(T) /\ Cardinality(T) = n
      BY <2>6, <2>7, FS_Bijection
    <2> QED
      BY <2>3, <2>8 DEF IsBitmap
  <1> QED
    BY <1>1, <1>2

(* Below the arity, pow2_cap_for is the least power of two that holds n.   *)
LEMMA Pow2CapForLeast ==
  ASSUME NEW n \in Nat \ {0}, n < N
  PROVE  /\ Pow2CapFor(n) \in Powers /\ Pow2CapFor(n) >= n
         /\ \A d \in Powers : d >= n => Pow2CapFor(n) <= d
  <1> DEFINE Fits(c) == c >= n /\ \A d \in Powers : d >= n => c <= d
  <1>1. N \in Nat /\ N <= 256
    BY ArityAssumption DEF Powers
  <1>2. 0 < n /\ n <= 1 => 1 \in Powers /\ Fits(1)
    BY DEF Powers
  <1>3. 1 < n /\ n <= 2 => 2 \in Powers /\ Fits(2)
    BY DEF Powers
  <1>4. 2 < n /\ n <= 4 => 4 \in Powers /\ Fits(4)
    BY DEF Powers
  <1>5. 4 < n /\ n <= 8 => 8 \in Powers /\ Fits(8)
    BY DEF Powers
  <1>6. 8 < n /\ n <= 16 => 16 \in Powers /\ Fits(16)
    BY DEF Powers
  <1>7. 16 < n /\ n <= 32 => 32 \in Powers /\ Fits(32)
    BY DEF Powers
  <1>8. 32 < n /\ n <= 64 => 64 \in Powers /\ Fits(64)
    BY DEF Powers
  <1>9. 64 < n /\ n <= 128 => 128 \in Powers /\ Fits(128)
    BY DEF Powers
  <1>10. 128 < n /\ n <= 256 => 256 \in Powers /\ Fits(256)
    BY DEF Powers
  <1> HIDE DEF Fits
  <1>11. \E c \in Powers : Fits(c)
    BY <1>1, <1>2, <1>3, <1>4, <1>5, <1>6, <1>7, <1>8, <1>9, <1>10
  <1>12. Pow2CapFor(n) = CHOOSE c \in Powers : Fits(c)
    BY <1>1 DEF Pow2CapFor, Fits
  <1>13. Pow2CapFor(n) \in Powers /\ Fits(Pow2CapFor(n))
    BY <1>11, <1>12
  <1> QED
    BY <1>13 DEF Fits

(* pow2_cap_for: a power of two that holds n, unless n = 0 or n > N. *)
LEMMA Pow2CapForHolds ==
  ASSUME NEW n \in Nat
  PROVE  LET c == Pow2CapFor(n)
         IN  /\ c \in Nat /\ c <= N
             /\ n = 0 => c = 0
             /\ n # 0 => c \in Powers
             /\ n <= N => n <= c
  <1>1. N \in Nat /\ N <= 256
    BY ArityAssumption DEF Powers
  <1>2. CASE n = 0
    BY <1>1, <1>2 DEF Pow2CapFor
  <1>3. CASE n # 0 /\ n >= N
    BY <1>1, <1>3, ArityAssumption DEF Pow2CapFor
  <1>4. CASE n # 0 /\ n < N
    <2>1. /\ Pow2CapFor(n) \in Powers /\ Pow2CapFor(n) >= n
          /\ \A d \in Powers : d >= n => Pow2CapFor(n) <= d
      BY <1>4, Pow2CapForLeast
    <2>2. Pow2CapFor(n) <= N
      BY <1>1, <1>4, <2>1, ArityAssumption
    <2>3. Powers \subseteq Nat
      BY DEF Powers
    <2> QED
      BY <1>4, <2>1, <2>2, <2>3
  <1> QED
    BY <1>1, <1>2, <1>3, <1>4

-----------------------------------------------------------------------------
(* The inductive invariant of the header and the element array.            *)

IInv == TypeOK /\ EqualPopcount /\ LiveIsInitialised

(* Both bitmaps are finite and hold at most `cap` bits. *)
LEMMA BlockFacts ==
  ASSUME TypeOK, EqualPopcount
  PROVE  /\ N \in Nat \ {0} /\ cap \in Nat /\ cap <= N
         /\ IsBitmap(occ) /\ IsBitmap(live)
         /\ Count \in Nat /\ Count <= cap
         /\ Cardinality(live) = Count
  <1>1. N \in Nat \ {0} /\ cap \in Nat /\ cap <= N
    BY ArityAssumption DEF TypeOK, Powers
  <1>2. IsFiniteSet(0 .. N - 1) /\ IsFiniteSet(0 .. cap - 1)
        /\ Cardinality(0 .. cap - 1) = cap
    BY <1>1, FS_Interval
  <1>3. IsBitmap(occ)
    <2>1. occ \in SUBSET (0 .. N - 1)
      BY DEF TypeOK, Index
    <2>2. IsFiniteSet(occ)
      BY <1>2, <2>1, FS_Subset
    <2> QED
      BY <2>1, <2>2 DEF IsBitmap
  <1>4. IsBitmap(live) /\ Cardinality(live) <= cap
    <2>1. live \in SUBSET (0 .. cap - 1)
      BY DEF TypeOK
    <2>2. IsFiniteSet(live) /\ Cardinality(live) <= cap
      BY <1>2, <2>1, FS_Subset
    <2> QED
      BY <2>1, <2>2 DEF IsBitmap
  <1> QED
    BY <1>1, <1>3, <1>4, FS_CardinalityType DEF EqualPopcount, Count, IsBitmap

(* Whatever is read is an element or nothing, and a live slot reads as an  *)
(* element.                                                                *)
LEMMA ReadFacts ==
  ASSUME IInv
  PROVE  /\ \A p : Read(p) \in Elem \cup {Uninit}
         /\ \A p \in live : Read(p) = slots[p] /\ Read(p) \in Elem
  BY BlockFacts DEF IInv, TypeOK, LiveIsInitialised, Read, Phys

(* The slot of a present index is live: `expect("present => ..")` holds. *)
LEMMA SlotOfPresent ==
  ASSUME IInv, NEW i \in occ
  PROVE  SlotOf(i) \in live
  <1>1. IsBitmap(occ) /\ IsBitmap(live) /\ Cardinality(live) = Cardinality(occ)
    BY BlockFacts DEF IInv, Count
  <1>2. Rank(occ, i) \in 0 .. Cardinality(live) - 1
    BY <1>1, RankOfMember
  <1> QED
    BY <1>1, <1>2, SelectMember DEF SlotOf

(* neighbor_bounds brackets the new element's position. *)
LEMMA NeighbourBounds ==
  ASSUME IInv, NEW i \in Index
  PROVE  /\ PLo(i) \in -1 .. cap - 1
         /\ PHi(i) \in 0 .. cap
         /\ PLo(i) < PHi(i)
         /\ PHi(i) < cap => PHi(i) \in live
         /\ PLo(i) # -1 => PLo(i) \in live
  <1> DEFINE r == Rank(occ, i)
  <1>1. /\ IsBitmap(occ) /\ IsBitmap(live) /\ cap \in Nat /\ Count \in Nat
        /\ Cardinality(live) = Count /\ Cardinality(occ) = Count
        /\ live \subseteq 0 .. cap - 1
    BY BlockFacts DEF IInv, TypeOK, Count
  <1>2. i \in Int
    BY BlockFacts DEF IInv, Index
  <1>3. r \in 0 .. Count
    BY <1>1, <1>2, RankType
  <1> HIDE DEF r
  <1>4. r # 0 => r - 1 \in 0 .. Cardinality(live) - 1
    BY <1>1, <1>3
  <1>5. r # Count => r \in 0 .. Cardinality(live) - 1
    BY <1>1, <1>3
  <1>6. r # 0 => Select(live, r - 1) \in live
    BY <1>1, <1>4, SelectMember
  <1>7. r # Count => Select(live, r) \in live
    BY <1>1, <1>5, SelectMember
  <1>8. r # 0 /\ r # Count => Select(live, r - 1) < Select(live, r)
    BY <1>1, <1>3, <1>4, <1>5, SelectIncreases
  <1>9. PLo(i) = IF r = 0 THEN -1 ELSE Select(live, r - 1)
    BY DEF PLo, r
  <1>10. PHi(i) = IF r = Count THEN cap ELSE Select(live, r)
    BY DEF PHi, r
  <1>11. PLo(i) = -1 \/ PLo(i) \in live
    BY <1>6, <1>9
  <1>12. PHi(i) = cap \/ PHi(i) \in live
    BY <1>7, <1>10
  <1>13. \A p \in live : p \in 0 .. cap - 1
    BY <1>1
  <1>14. PLo(i) \in -1 .. cap - 1
    <2>1. CASE PLo(i) = -1
      BY <1>1, <2>1
    <2>2. CASE PLo(i) \in live
      <3>1. PLo(i) \in 0 .. cap - 1
        BY <1>13, <2>2
      <3> QED
        BY <1>1, <3>1
    <2> QED
      BY <1>11, <2>1, <2>2
  <1>15. PHi(i) \in 0 .. cap
    <2>1. CASE PHi(i) = cap
      BY <1>1, <2>1
    <2>2. CASE PHi(i) \in live
      <3>1. PHi(i) \in 0 .. cap - 1
        BY <1>13, <2>2
      <3> QED
        BY <1>1, <3>1
    <2> QED
      BY <1>12, <2>1, <2>2
  <1>16. PLo(i) < PHi(i)
    <2>1. CASE r = 0
      <3>1. PLo(i) = -1
        BY <1>9, <2>1
      <3> QED
        BY <1>1, <1>15, <3>1
    <2>2. CASE r # 0 /\ r = Count
      <3>1. PLo(i) \in 0 .. cap - 1 /\ PHi(i) = cap
        BY <1>6, <1>9, <1>10, <1>13, <2>2
      <3> QED
        BY <1>1, <3>1
    <2>3. CASE r # 0 /\ r # Count
      BY <1>8, <1>9, <1>10, <2>3
    <2> QED
      BY <2>1, <2>2, <2>3
  <1> QED
    BY <1>1, <1>11, <1>12, <1>14, <1>15, <1>16

(* The window between the neighbours is searched completely.              *)
LEMMA HoleBetweenFinds ==
  ASSUME IInv, NEW i \in Index
  PROVE  \/ /\ HoleBetween(i) = NoBit
            /\ \A p \in PLo(i) + 1 .. PHi(i) - 1 : p \in live
         \/ /\ HoleBetween(i) # NoBit
            /\ HoleBetween(i) \in PLo(i) + 1 .. PHi(i) - 1
            /\ HoleBetween(i) \notin live
  <1> DEFINE lo == PLo(i) + 1
             hi == PHi(i)
             hb == HoleBetween(i)
  <1>1. lo \in Nat /\ hi \in Int
    BY NeighbourBounds, BlockFacts DEF IInv
  <1>2. hb = NearestClearIn(live, lo, hi)
    BY DEF HoleBetween
  <1> HIDE DEF lo, hi, hb
  <1>3. \/ hb = NoBit /\ \A p \in lo .. hi - 1 : p \in live
        \/ hb \in lo .. hi - 1 /\ hb \notin live
    BY <1>1, <1>2, NearestClearInFinds
  <1>4. hb \in lo .. hi - 1 => hb # NoBit
    BY <1>1 DEF NoBit
  <1> QED
    BY <1>3, <1>4 DEF lo, hi, hb

-----------------------------------------------------------------------------
(* Respread never wins.                                                    *)

(* A run of live slots is no longer than the count. *)
LEMMA RunBound ==
  ASSUME IInv, NEW a \in Int, NEW b \in Int, a .. b \subseteq live
  PROVE  b - a + 1 <= Count
  <1>1. IsFiniteSet(live) /\ Cardinality(live) = Count /\ Count \in Nat
    BY BlockFacts DEF IInv, IsBitmap
  <1>2. Cardinality(a .. b) <= Count
    BY <1>1, FS_Subset
  <1> QED
    BY <1>1, <1>2, FS_Interval

(* With a clear slot in the block, one of the three searches finds a hole, *)
(* and the shift to it crosses at most `Count` elements.                   *)
LEMMA RoomMeansNoRespread ==
  ASSUME IInv, NEW i \in Index, Count < cap
  PROVE  Strategy(i) # "respread"
  <1> DEFINE lo == PLo(i)
             hi == PHi(i)
             hl == HoleLeft(i)
             hr == HoleRight(i)
             hb == HoleBetween(i)
  <1>1. /\ N \in Nat /\ cap \in Nat /\ cap <= N /\ Count \in Nat
        /\ IsBitmap(live) /\ Cardinality(live) = Count
    BY BlockFacts DEF IInv
  <1>2. lo \in -1 .. cap - 1 /\ hi \in 0 .. cap /\ lo < hi
    BY NeighbourBounds
  <1>3. \/ hb = NoBit /\ \A p \in lo + 1 .. hi - 1 : p \in live
        \/ hb # NoBit
    BY HoleBetweenFinds
  <1>4. \/ hl = NoBit /\ \A p \in 0 .. lo : p \in live
        \/ hl \in 0 .. lo /\ \A p \in hl + 1 .. lo : p \in live
    BY <1>2, NearestClearBelowFinds DEF HoleLeft
  <1>5. \/ hr = NoBit /\ \A p \in hi .. cap - 1 : p \in live
        \/ hr \in hi .. cap - 1 /\ \A p \in hi .. hr - 1 : p \in live
    BY <1>1, <1>2, NearestClearInFinds DEF HoleRight
  <1> SUFFICES ASSUME Strategy(i) = "respread" PROVE FALSE
    OBVIOUS
  <1>6. /\ hb = NoBit
        /\ ~(LeftCost(i) <= RightCost(i) /\ LeftCost(i) <= Count)
        /\ ~(RightCost(i) <= Count)
    BY DEF Strategy
  <1>7. /\ LeftCost(i) = IF hl = NoBit THEN N + 1 ELSE lo - hl
        /\ RightCost(i) = IF hr = NoBit THEN N + 1 ELSE hr - hi
    BY DEF LeftCost, RightCost, Unreachable
  <1> HIDE DEF lo, hi, hl, hr, hb
  <1>8. hl # NoBit => lo - hl <= Count
    <2> SUFFICES ASSUME hl # NoBit PROVE lo - hl <= Count
      OBVIOUS
    <2>1. hl \in 0 .. lo /\ hl + 1 .. lo \subseteq live
      BY <1>4
    <2>2. hl + 1 \in Int /\ lo \in Int
      BY <1>1, <1>2, <2>1
    <2>3. lo - (hl + 1) + 1 <= Count
      BY <2>1, <2>2, RunBound
    <2> QED
      BY <1>2, <2>1, <2>2, <2>3
  <1>9. hr # NoBit => hr - hi <= Count
    <2> SUFFICES ASSUME hr # NoBit PROVE hr - hi <= Count
      OBVIOUS
    <2>1. hr \in hi .. cap - 1 /\ hi .. hr - 1 \subseteq live
      BY <1>5
    <2>2. (hr - 1) - hi + 1 <= Count
      BY <1>2, <2>1, RunBound
    <2> QED
      BY <1>2, <2>1, <2>2
  <1>10. hl = NoBit /\ hr = NoBit
    BY <1>1, <1>2, <1>4, <1>5, <1>6, <1>7, <1>8, <1>9 DEF NoBit
  <1>11. \A p \in 0 .. cap - 1 : p \in live
    BY <1>1, <1>2, <1>3, <1>4, <1>5, <1>6, <1>10 DEF NoBit
  <1>12. (cap - 1) - 0 + 1 <= Count
    BY <1>1, <1>11, RunBound
  <1> QED
    BY <1>1, <1>12

-----------------------------------------------------------------------------
(* Each way of changing the block preserves the invariant.                 *)

(* The r-th old element is found for every rank of a fresh spread.         *)
LEMMA OldElementFound ==
  ASSUME IInv, NEW r \in 0 .. Count - 1
  PROVE  /\ Select(live, r) \in live
         /\ Read(Select(live, r)) \in Elem
  BY BlockFacts, SelectMember, ReadFacts DEF IInv

(* Adding an absent index, or taking a present one away, changes the count *)
(* by one.                                                                 *)
LEMMA CountChanges ==
  ASSUME IInv, NEW i \in Index
  PROVE  /\ i \notin occ => Cardinality(occ \cup {i}) = Count + 1
         /\ i \in occ => Cardinality(occ \ {i}) = Count - 1
         /\ \A p : p \notin live => Cardinality(live \cup {p}) = Count + 1
         /\ \A p : p \in live => Cardinality(live \ {p}) = Count - 1
  <1>1. /\ IsFiniteSet(occ) /\ Cardinality(occ) = Count
        /\ IsFiniteSet(live) /\ Cardinality(live) = Count
    BY BlockFacts DEF IInv, IsBitmap, Count
  <1>2. i \notin occ => Cardinality(occ \cup {i}) = Count + 1
    BY <1>1, FS_AddElement
  <1>3. i \in occ => Cardinality(occ \ {i}) = Count - 1
    BY <1>1, FS_RemoveElement
  <1>4. \A p : p \notin live => Cardinality(live \cup {p}) = Count + 1
    BY <1>1, FS_AddElement
  <1>5. \A p : p \in live => Cardinality(live \ {p}) = Count - 1
    BY <1>1, FS_RemoveElement
  <1> QED
    BY <1>2, <1>3, <1>4, <1>5

(* An absent index leaves the count below the arity. *)
LEMMA AbsentMeansRoom ==
  ASSUME IInv, NEW i \in Index \ occ
  PROVE  Count + 1 <= N
  <1>1. IsFiniteSet(Index) /\ Cardinality(Index) = N
    BY BlockFacts, FS_Interval DEF IInv, Index
  <1>2. occ \cup {i} \in SUBSET Index
    BY DEF IInv, TypeOK
  <1>3. Cardinality(occ \cup {i}) = Count + 1
    BY CountChanges
  <1>4. Cardinality(occ \cup {i}) <= Cardinality(Index)
    BY <1>1, <1>2, FS_Subset
  <1> QED
    BY <1>1, <1>3, <1>4

LEMMA RebuildToPreserves ==
  ASSUME IInv, NEW c \in Powers, c <= N, Count <= c, RebuildTo(c), UNCHANGED outside
  PROVE  IInv'
  <1> DEFINE L == Spread(Count, c)
  <1>1. Count \in Nat /\ c \in Nat /\ N \in Nat
    BY BlockFacts DEF IInv, Powers
  <1>2. L \subseteq 0 .. c - 1 /\ IsBitmap(L) /\ Cardinality(L) = Count
    BY <1>1, SpreadCardinality
  <1> HIDE DEF L
  <1>3. /\ cap' = c /\ live' = L /\ occ' = occ /\ outside' = outside
        /\ slots' = [p \in Phys |-> IF p \in L THEN Read(Select(live, Rank(L, p))) ELSE Uninit]
    BY DEF RebuildTo, L
  <1>4. \A p \in L : Read(Select(live, Rank(L, p))) \in Elem
    BY <1>2, RankOfMember, OldElementFound
  <1>5. L \subseteq Phys
    BY <1>1, <1>2 DEF Phys
  <1>6. TypeOK'
    BY <1>2, <1>3, <1>4 DEF IInv, TypeOK
  <1>7. EqualPopcount'
    BY <1>2, <1>3 DEF EqualPopcount, Count
  <1>8. LiveIsInitialised'
    BY <1>3, <1>4, UninitAssumption DEF LiveIsInitialised
  <1> QED
    BY <1>6, <1>7, <1>8 DEF IInv

LEMMA RebuildWithInsertPreserves ==
  ASSUME IInv, NEW i \in Index \ occ, NEW e \in Elem,
         NEW c \in Powers, c <= N, Count + 1 <= c,
         RebuildWithInsert(i, e, c), outside' = outside \ {e}
  PROVE  IInv'
  <1> DEFINE L == Spread(Count + 1, c)
             rank == Rank(occ \cup {i}, i)
             Old(r) == Read(Select(live, IF r < rank THEN r ELSE r - 1))
  <1>1. Count \in Nat /\ c \in Nat /\ N \in Nat /\ IsBitmap(occ)
    BY BlockFacts DEF IInv, Powers
  <1>2. L \subseteq 0 .. c - 1 /\ IsBitmap(L) /\ Cardinality(L) = Count + 1
    BY <1>1, SpreadCardinality
  <1>3. rank \in 0 .. Count
    <2>1. IsBitmap(occ \cup {i}) /\ Cardinality(occ \cup {i}) = Count + 1
      <3>1. i \in Index /\ i \in Nat
        BY <1>1 DEF Index
      <3>2. IsFiniteSet(occ \cup {i})
        BY <1>1, FS_AddElement DEF IsBitmap
      <3> QED
        BY <1>1, <3>1, <3>2, CountChanges DEF IsBitmap
    <2> QED
      BY <1>1, <2>1, RankOfMember
  <1> HIDE DEF L, rank
  <1>4. /\ cap' = c /\ live' = L /\ occ' = occ \cup {i}
        /\ slots' = [p \in Phys |-> IF p \notin L THEN Uninit
                                    ELSE IF Rank(L, p) = rank THEN e
                                    ELSE Old(Rank(L, p))]
    BY DEF RebuildWithInsert, L, rank
  <1>5. \A p \in L : Rank(L, p) # rank => Old(Rank(L, p)) \in Elem
    <2> SUFFICES ASSUME NEW p \in L, Rank(L, p) # rank
                 PROVE  Old(Rank(L, p)) \in Elem
      OBVIOUS
    <2> DEFINE r == Rank(L, p)
    <2>1. r \in 0 .. Count
      BY <1>1, <1>2, RankOfMember
    <2>2. (IF r < rank THEN r ELSE r - 1) \in 0 .. Count - 1
      BY <1>1, <1>3, <2>1
    <2> QED
      BY <2>2, OldElementFound
  <1> HIDE DEF Old
  <1>6. TypeOK'
    BY <1>2, <1>4, <1>5 DEF IInv, TypeOK
  <1>7. EqualPopcount'
    BY <1>2, <1>4, CountChanges DEF EqualPopcount
  <1>8. LiveIsInitialised'
    BY <1>4, <1>5, UninitAssumption DEF LiveIsInitialised
  <1> QED
    BY <1>6, <1>7, <1>8 DEF IInv

(* Filling one hole of the block keeps the two popcounts equal; what is    *)
(* left to show is that the new element array is filled where it must be.  *)
LEMMA InPlacePreserves ==
  ASSUME IInv, NEW i \in Index \ occ, NEW hole \in (0 .. cap - 1) \ live,
         NEW newSlots \in [Phys -> Elem \cup {Uninit}],
         \A p \in Phys : p \in live \cup {hole} <=> newSlots[p] # Uninit,
         InPlace(i, hole, newSlots), outside' \subseteq Elem
  PROVE  IInv'
  <1>1. TypeOK'
    BY DEF IInv, TypeOK, InPlace
  <1>2. EqualPopcount'
    BY CountChanges DEF EqualPopcount, InPlace
  <1>3. LiveIsInitialised'
    BY DEF LiveIsInitialised, InPlace
  <1> QED
    BY <1>1, <1>2, <1>3 DEF IInv

(* The plans of place_absent: where the hole is, and that the run between  *)
(* it and the new element's place is live.                                 *)
LEMMA HolePlan ==
  ASSUME IInv, NEW i \in Index, Strategy(i) = "hole"
  PROVE  HoleBetween(i) \in (0 .. cap - 1) \ live
  <1> DEFINE lo == PLo(i)
             hi == PHi(i)
             hb == HoleBetween(i)
  <1>1. cap \in Nat /\ lo \in -1 .. cap - 1 /\ hi \in 0 .. cap
    BY NeighbourBounds, BlockFacts DEF IInv
  <1>2. hb # NoBit
    BY DEF Strategy
  <1>3. hb \in lo + 1 .. hi - 1 /\ hb \notin live
    BY <1>2, HoleBetweenFinds
  <1> HIDE DEF lo, hi, hb
  <1>4. hb \in 0 .. cap - 1
    BY <1>1, <1>3
  <1> QED
    BY <1>3, <1>4 DEF hb

LEMMA LeftPlan ==
  ASSUME IInv, NEW i \in Index, Strategy(i) = "left"
  PROVE  /\ HoleLeft(i) \in (0 .. cap - 1) \ live
         /\ PHi(i) \in HoleLeft(i) + 1 .. cap
         /\ \A p \in HoleLeft(i) + 1 .. PHi(i) - 1 : p \in live
  <1> DEFINE lo == PLo(i)
             hi == PHi(i)
             hl == HoleLeft(i)
  <1>1. N \in Nat /\ cap \in Nat /\ cap <= N /\ Count \in Nat /\ Count <= N
    BY BlockFacts DEF IInv
  <1>2. lo \in -1 .. cap - 1 /\ hi \in 0 .. cap /\ lo < hi
    BY NeighbourBounds
  <1>3. HoleBetween(i) = NoBit /\ LeftCost(i) <= Count
    BY DEF Strategy
  <1>4. hl # NoBit
    BY <1>1, <1>3 DEF LeftCost, Unreachable
  <1>5. \A p \in lo + 1 .. hi - 1 : p \in live
    BY <1>3, HoleBetweenFinds
  <1> HIDE DEF hl
  <1>6. hl \in 0 .. lo /\ hl \notin live /\ \A p \in hl + 1 .. lo : p \in live
    BY <1>2, <1>4, NearestClearBelowFinds DEF HoleLeft, hl
  <1> HIDE DEF lo, hi
  <1>7. hl \in (0 .. cap - 1) \ live /\ hi \in hl + 1 .. cap
    BY <1>1, <1>2, <1>6
  <1>8. \A p \in hl + 1 .. hi - 1 : p \in live
    BY <1>1, <1>2, <1>5, <1>6
  <1> QED
    BY <1>7, <1>8 DEF hl, hi

LEMMA RightPlan ==
  ASSUME IInv, NEW i \in Index, Strategy(i) = "right"
  PROVE  /\ HoleRight(i) \in (0 .. cap - 1) \ live
         /\ PHi(i) \in 0 .. HoleRight(i)
         /\ \A p \in PHi(i) .. HoleRight(i) - 1 : p \in live
  <1> DEFINE hi == PHi(i)
             hr == HoleRight(i)
  <1>1. N \in Nat /\ cap \in Nat /\ cap <= N /\ Count \in Nat /\ Count <= N
    BY BlockFacts DEF IInv
  <1>2. hi \in 0 .. cap
    BY NeighbourBounds
  <1>3. RightCost(i) <= Count
    BY DEF Strategy
  <1>4. hr # NoBit
    BY <1>1, <1>3 DEF RightCost, Unreachable
  <1> HIDE DEF hr
  <1>5. hr \in hi .. cap - 1 /\ hr \notin live /\ \A p \in hi .. hr - 1 : p \in live
    BY <1>1, <1>2, <1>4, NearestClearInFinds DEF HoleRight, hr
  <1> HIDE DEF hi
  <1>6. hr \in (0 .. cap - 1) \ live /\ hi \in 0 .. hr
    BY <1>1, <1>2, <1>5
  <1> QED
    BY <1>5, <1>6 DEF hr, hi

LEMMA PlaceAbsentPreserves ==
  ASSUME IInv, NEW i \in Index \ occ, NEW e \in Elem, Count < cap,
         PlaceAbsent(i, e), outside' = outside \ {e}
  PROVE  IInv'
  <1> DEFINE hi == PHi(i)
             hl == HoleLeft(i)
             hr == HoleRight(i)
             hb == HoleBetween(i)
  <1>1. /\ N \in Nat /\ cap \in Nat /\ cap <= N /\ i \in Index
        /\ outside' \subseteq Elem
    BY BlockFacts DEF IInv, TypeOK
  <1>2. slots \in [Phys -> Elem \cup {Uninit}] /\ e # Uninit
        /\ \A p \in Phys : p \in live <=> slots[p] # Uninit
    BY UninitAssumption DEF IInv, TypeOK, LiveIsInitialised
  <1>3. Phys = 0 .. N - 1
    BY DEF Phys
  <1>4. CASE Strategy(i) = "hole"
    <2>1. InPlace(i, hb, WriteIntoHole(hb, e))
      BY <1>4 DEF PlaceAbsent
    <2>2. hb \in (0 .. cap - 1) \ live
      BY <1>4, HolePlan
    <2> HIDE DEF hb
    <2>3. /\ WriteIntoHole(hb, e) \in [Phys -> Elem \cup {Uninit}]
          /\ \A p \in Phys : p \in live \cup {hb} <=> WriteIntoHole(hb, e)[p] # Uninit
      BY <1>1, <1>2, <1>3, <2>2 DEF WriteIntoHole
    <2> QED
      BY <1>1, <2>1, <2>2, <2>3, InPlacePreserves
  <1>5. CASE Strategy(i) = "left"
    <2> DEFINE S == ShiftLeft(hl, hi, e)
    <2>1. InPlace(i, hl, S)
      BY <1>5 DEF PlaceAbsent
    <2>2. /\ hl \in (0 .. cap - 1) \ live /\ hi \in hl + 1 .. cap
          /\ \A p \in hl + 1 .. hi - 1 : p \in live
      BY <1>5, LeftPlan
    <2> HIDE DEF hl, hi
    <2>3. S \in [Phys -> Elem \cup {Uninit}]
      BY <1>1, <1>2, <1>3, <2>2 DEF ShiftLeft
    <2>4. ASSUME NEW p \in Phys
          PROVE  p \in live \cup {hl} <=> S[p] # Uninit
      <3>1. S[p] = IF p \in hl .. hi - 2 THEN slots[p + 1]
                   ELSE IF p = hi - 1 THEN e ELSE slots[p]
        BY DEF ShiftLeft
      <3>2. CASE p \in hl .. hi - 2
        <4>1. p + 1 \in hl + 1 .. hi - 1 /\ p + 1 \in Phys
          BY <1>1, <1>3, <2>2, <3>2
        <4>2. slots[p + 1] # Uninit
          BY <1>2, <2>2, <4>1
        <4>3. p = hl \/ p \in hl + 1 .. hi - 1
          BY <1>1, <2>2, <3>2
        <4> QED
          BY <2>2, <3>1, <3>2, <4>2, <4>3
      <3>3. CASE p \notin hl .. hi - 2 /\ p = hi - 1
        <4>1. p = hl \/ p \in hl + 1 .. hi - 1
          BY <1>1, <2>2, <3>3
        <4> QED
          BY <1>2, <2>2, <3>1, <3>3, <4>1
      <3>4. CASE p \notin hl .. hi - 2 /\ p # hi - 1
        <4>1. p # hl
          BY <1>1, <2>2, <3>4
        <4> QED
          BY <1>2, <3>1, <3>4, <4>1
      <3> QED
        BY <3>2, <3>3, <3>4
    <2> QED
      BY <1>1, <2>1, <2>2, <2>3, <2>4, InPlacePreserves
  <1>6. CASE Strategy(i) = "right"
    <2> DEFINE S == ShiftRight(hi, hr, e)
    <2>1. InPlace(i, hr, S)
      BY <1>6 DEF PlaceAbsent
    <2>2. /\ hr \in (0 .. cap - 1) \ live /\ hi \in 0 .. hr
          /\ \A p \in hi .. hr - 1 : p \in live
      BY <1>6, RightPlan
    <2> HIDE DEF hr, hi
    <2>3. S \in [Phys -> Elem \cup {Uninit}]
      BY <1>1, <1>2, <1>3, <2>2 DEF ShiftRight
    <2>4. ASSUME NEW p \in Phys
          PROVE  p \in live \cup {hr} <=> S[p] # Uninit
      <3>1. S[p] = IF p \in hi + 1 .. hr THEN slots[p - 1]
                   ELSE IF p = hi THEN e ELSE slots[p]
        BY DEF ShiftRight
      <3>2. CASE p \in hi + 1 .. hr
        <4>1. p - 1 \in hi .. hr - 1 /\ p - 1 \in Phys
          BY <1>1, <1>3, <2>2, <3>2
        <4>2. slots[p - 1] # Uninit
          BY <1>2, <2>2, <4>1
        <4>3. p = hr \/ p \in hi .. hr - 1
          BY <1>1, <2>2, <3>2
        <4> QED
          BY <2>2, <3>1, <3>2, <4>2, <4>3
      <3>3. CASE p \notin hi + 1 .. hr /\ p = hi
        <4>1. p = hr \/ p \in hi .. hr - 1
          BY <1>1, <2>2, <3>3
        <4> QED
          BY <1>2, <2>2, <3>1, <3>3, <4>1
      <3>4. CASE p \notin hi + 1 .. hr /\ p # hi
        <4>1. p # hr
          BY <1>1, <2>2, <3>4
        <4> QED
          BY <1>2, <3>1, <3>4, <4>1
      <3> QED
        BY <3>2, <3>3, <3>4
    <2> QED
      BY <1>1, <2>1, <2>2, <2>3, <2>4, InPlacePreserves
  <1>7. Strategy(i) \in {"hole", "left", "right"}
    BY <1>1, RoomMeansNoRespread DEF Strategy
  <1> QED
    BY <1>4, <1>5, <1>6, <1>7

LEMMA RemovePreserves ==
  ASSUME IInv, NEW i \in Index, Remove(i)
  PROVE  IInv'
  <1> DEFINE p == SlotOf(i)
  <1>1. i \in occ /\ p \in live /\ Read(p) \in Elem
    BY SlotOfPresent, ReadFacts DEF Remove
  <1> HIDE DEF p
  <1>2. /\ cap' = cap /\ occ' = occ \ {i} /\ live' = live \ {p}
        /\ slots' = [slots EXCEPT ![p] = Uninit]
        /\ outside' = outside \cup {Read(p)}
    BY DEF Remove, p
  <1>3. TypeOK'
    BY <1>1, <1>2 DEF IInv, TypeOK
  <1>4. EqualPopcount'
    BY <1>1, <1>2, CountChanges DEF EqualPopcount
  <1>5. LiveIsInitialised'
    BY <1>2 DEF IInv, TypeOK, LiveIsInitialised
  <1> QED
    BY <1>3, <1>4, <1>5 DEF IInv

LEMMA InsertPreserves ==
  ASSUME IInv, NEW i \in Index, NEW e \in Elem, Insert(i, e)
  PROVE  IInv'
  <1>1. /\ N \in Nat \ {0} /\ cap \in Nat /\ cap <= N /\ Count \in Nat /\ Count <= cap
        /\ e # Uninit
    BY BlockFacts, UninitAssumption DEF IInv
  <1>2. CASE InsertFirst(i, e)
    <2>1. /\ cap' = 1 /\ occ' = {i} /\ live' = {0}
          /\ slots' = [slots EXCEPT ![0] = e] /\ outside' = outside \ {e} /\ cap = 0
      BY <1>2 DEF InsertFirst
    <2>2. live = {}
      BY <2>1 DEF IInv, TypeOK
    <2>3. 0 \in Phys
      BY <1>1 DEF Phys
    <2>4. TypeOK'
      BY <1>1, <2>1, <2>3 DEF IInv, TypeOK, Powers
    <2>5. EqualPopcount'
      BY <2>1, FS_Singleton DEF EqualPopcount
    <2>6. LiveIsInitialised'
      BY <1>1, <2>1, <2>2, <2>3 DEF IInv, TypeOK, LiveIsInitialised
    <2> QED
      BY <2>4, <2>5, <2>6 DEF IInv
  <1>3. CASE Overwrite(i, e)
    <2> DEFINE p == SlotOf(i)
    <2>1. p \in live /\ Read(p) \in Elem
      BY <1>3, SlotOfPresent, ReadFacts DEF Overwrite
    <2> HIDE DEF p
    <2>2. /\ slots' = [slots EXCEPT ![p] = e]
          /\ outside' = (outside \ {e}) \cup {Read(p)}
          /\ UNCHANGED <<cap, occ, live>>
      BY <1>3 DEF Overwrite, p
    <2> QED
      BY <1>1, <2>1, <2>2
      DEF IInv, TypeOK, EqualPopcount, LiveIsInitialised
  <1>4. CASE InsertIntoFull(i, e)
    <2> DEFINE c == Pow2CapFor(Count + 1)
    <2>1. Count + 1 <= N
      BY <1>4, AbsentMeansRoom DEF InsertIntoFull
    <2>2. c \in Powers /\ c <= N /\ Count + 1 <= c
      BY <1>1, <2>1, Pow2CapForHolds
    <2> QED
      BY <1>4, <2>2, RebuildWithInsertPreserves DEF InsertIntoFull
  <1>5. CASE InsertWithRoom(i, e)
    BY <1>1, <1>5, PlaceAbsentPreserves DEF InsertWithRoom
  <1> QED
    BY <1>2, <1>3, <1>4, <1>5 DEF Insert

LEMMA ReservePreserves ==
  ASSUME IInv, NEW n \in Nat, Reserve(n)
  PROVE  IInv'
  <1> DEFINE target == Pow2CapFor(Count + n)
  <1>1. /\ N \in Nat \ {0} /\ cap \in Nat /\ cap <= N /\ Count \in Nat /\ Count <= cap
    BY BlockFacts DEF IInv
  <1>2. target \in Nat /\ target <= N /\ target > cap
    BY <1>1, Pow2CapForHolds DEF Reserve
  <1>3. target \in Powers
    BY <1>1, <1>2, Pow2CapForHolds
  <1>4. CASE cap = 0 /\ cap' = target /\ UNCHANGED <<occ, live, slots>>
    <2>1. live = {}
      BY <1>4 DEF IInv, TypeOK
    <2>2. TypeOK'
      BY <1>2, <1>3, <1>4, <2>1 DEF Reserve, IInv, TypeOK
    <2> QED
      BY <1>4, <2>2 DEF IInv, EqualPopcount, LiveIsInitialised
  <1>5. CASE cap > 0 /\ RebuildTo(target)
    BY <1>1, <1>2, <1>3, <1>5, RebuildToPreserves DEF Reserve
  <1> QED
    BY <1>4, <1>5 DEF Reserve

LEMMA ShrinkToFitPreserves ==
  ASSUME IInv, ShrinkToFit
  PROVE  IInv'
  <1>1. /\ N \in Nat \ {0} /\ cap \in Nat /\ cap <= N /\ Count \in Nat /\ Count <= cap
        /\ IsBitmap(live) /\ Cardinality(live) = Count
    BY BlockFacts DEF IInv
  <1>2. CASE Count = 0 /\ cap' = 0 /\ slots' = [p \in Phys |-> Uninit]
             /\ UNCHANGED <<occ, live, outside>>
    <2>1. live = {}
      BY <1>1, <1>2, FS_EmptySet DEF IsBitmap
    <2> QED
      BY <1>2, <2>1 DEF IInv, TypeOK, EqualPopcount, LiveIsInitialised
  <1>3. CASE Count > 0 /\ RebuildTo(Pow2CapFor(Count)) /\ UNCHANGED outside
    <2>1. Pow2CapFor(Count) \in Powers /\ Pow2CapFor(Count) <= N /\ Count <= Pow2CapFor(Count)
      BY <1>1, <1>3, Pow2CapForHolds
    <2> QED
      BY <1>3, <2>1, RebuildToPreserves
  <1> QED
    BY <1>2, <1>3 DEF ShrinkToFit

LEMMA ClearPreserves ==
  ASSUME IInv, Clear
  PROVE  IInv'
  <1>1. \A p \in live : Read(p) \in Elem
    BY ReadFacts
  <1>2. TypeOK'
    BY <1>1 DEF Clear, IInv, TypeOK
  <1> QED
    BY <1>2 DEF Clear, IInv, EqualPopcount, LiveIsInitialised

LEMMA ThroughFixedPreserves ==
  ASSUME IInv, ThroughFixed
  PROVE  IInv'
  <1> DEFINE c == Pow2CapFor(Count)
             L == IF Count = 0 THEN {} ELSE Spread(Count, c)
  <1>1. /\ N \in Nat \ {0} /\ cap \in Nat /\ cap <= N /\ Count \in Nat /\ Count <= cap
        /\ IsBitmap(occ) /\ Cardinality(occ) = Count
    BY BlockFacts DEF IInv, Count
  <1>2. /\ c \in Nat /\ c <= N /\ Count <= c
        /\ Count # 0 => c \in Powers
        /\ Count = 0 => c = 0
    BY <1>1, Pow2CapForHolds
  <1>3. L \subseteq 0 .. c - 1 /\ IsBitmap(L) /\ Cardinality(L) = Count
    BY <1>1, <1>2, SpreadCardinality, FS_EmptySet DEF IsBitmap
  <1> HIDE DEF L, c
  <1>4. /\ cap' = c /\ occ' = occ /\ live' = L /\ outside' = outside
        /\ slots' = [p \in Phys |-> IF p \in L THEN Fixed(Select(occ, Rank(L, p))) ELSE Uninit]
    BY DEF ThroughFixed, Count, L, c
  <1>5. \A p \in L : Fixed(Select(occ, Rank(L, p))) \in Elem
    <2> SUFFICES ASSUME NEW p \in L
                 PROVE  Fixed(Select(occ, Rank(L, p))) \in Elem
      OBVIOUS
    <2>1. Rank(L, p) \in 0 .. Count - 1
      BY <1>3, RankOfMember
    <2>2. Rank(occ, Select(occ, Rank(L, p))) = Rank(L, p)
      BY <1>1, <2>1, SelectMember
    <2> QED
      BY <2>1, <2>2, OldElementFound DEF Fixed
  <1>6. TypeOK'
    BY <1>2, <1>3, <1>4, <1>5 DEF IInv, TypeOK
  <1>7. EqualPopcount'
    BY <1>1, <1>3, <1>4 DEF EqualPopcount
  <1>8. LiveIsInitialised'
    BY <1>4, <1>5, UninitAssumption DEF LiveIsInitialised
  <1> QED
    BY <1>6, <1>7, <1>8 DEF IInv

-----------------------------------------------------------------------------
(* The invariant holds in every reachable state.                           *)

LEMMA InitEstablishes == Init => IInv
  <1> SUFFICES ASSUME Init PROVE IInv
    OBVIOUS
  <1>1. PICK n \in Requests \cup {0} : cap = Pow2CapFor(n)
    BY DEF Init
  <1>2. cap \in {0} \cup {c \in Powers : c <= N}
    BY <1>1, Pow2CapForHolds, RequestsAssumption
  <1> QED
    BY <1>2 DEF Init, IInv, TypeOK, EqualPopcount, LiveIsInitialised

LEMMA StepPreserves == IInv /\ [Next]_vars => IInv'
  <1> SUFFICES ASSUME IInv, [Next]_vars PROVE IInv'
    OBVIOUS
  <1>1. ASSUME NEW i \in Index, NEW e \in Elem, Insert(i, e) PROVE IInv'
    BY <1>1, InsertPreserves
  <1>2. ASSUME NEW i \in Index, Remove(i) PROVE IInv'
    BY <1>2, RemovePreserves
  <1>3. CASE TakeOnlyChild
    <2>1. Lowest(occ) \in Index
      <3>1. IsBitmap(occ) /\ occ # {}
        BY <1>3, BlockFacts, FS_EmptySet DEF TakeOnlyChild, IInv, Count
      <3> QED
        BY <3>1, LowestMember DEF IInv, TypeOK
    <2> QED
      BY <1>3, <2>1, RemovePreserves DEF TakeOnlyChild
  <1>4. ASSUME NEW n \in Requests, Reserve(n) PROVE IInv'
    BY <1>4, ReservePreserves, RequestsAssumption
  <1>5. CASE ShrinkToFit
    BY <1>5, ShrinkToFitPreserves
  <1>6. CASE Clear
    BY <1>6, ClearPreserves
  <1>7. CASE ThroughFixed
    BY <1>7, ThroughFixedPreserves
  <1>8. CASE UNCHANGED vars
    BY <1>8 DEF vars, IInv, TypeOK, EqualPopcount, LiveIsInitialised
  <1> QED
    BY <1>1, <1>2, <1>3, <1>4, <1>5, <1>6, <1>7, <1>8 DEF Next

LEMMA Invariance == Spec => []IInv
  BY InitEstablishes, StepPreserves, PTL DEF Spec

(* For every arity, element set and pattern of calls: capacity, bitmaps    *)
(* and element array keep their types and the live bits stay in the block. *)
THEOREM TypeCorrect == Spec => []TypeOK
  BY Invariance, PTL DEF IInv

(* The popcounts of `occupancy` and `live` are always equal, so none of    *)
(* the `expect`s on a selected slot can panic.                             *)
THEOREM PopcountsAgree == Spec => []EqualPopcount
  BY Invariance, PTL DEF IInv

(* `live` marks exactly the initialised slots in every reachable state.    *)
THEOREM LiveSlotsInitialised == Spec => []LiveIsInitialised
  BY Invariance, PTL DEF IInv

(* The respread arm of place_absent is dead code, at every arity.          *)
THEOREM RespreadUnreachable == Spec => []RespreadNeverWins
  <1>1. IInv => RespreadNeverWins
    BY RoomMeansNoRespread DEF RespreadNeverWins
  <1> QED
    BY <1>1, Invariance, PTL

-----------------------------------------------------------------------------
(* Elements are never lost, duplicated or invented.                        *)

(* Ownership said over the live slots: `Stored` is what the block owns.    *)
Stored == {slots[p] : p \in live}

Owned ==
  /\ outside \cup Stored = Elem
  /\ outside \cap Stored = {}
  /\ \A p, q \in live : slots[p] = slots[q] => p = q

LEMMA OwnedIsConserved == IInv => (ElementsConserved <=> Owned)
  <1> SUFFICES ASSUME IInv PROVE ElementsConserved <=> Owned
    OBVIOUS
  <1>1. live = {q \in Phys : slots[q] # Uninit}
    <2>1. live \subseteq Phys
      BY BlockFacts DEF IInv, TypeOK, Phys
    <2> QED
      BY <2>1 DEF IInv, LiveIsInitialised
  <1>2. Uninit \notin outside
    BY UninitAssumption DEF IInv, TypeOK
  <1> QED
    BY <1>1, <1>2 DEF ElementsConserved, Owned, Stored

(* When the elements are only moved to other slots, ownership is kept:     *)
(* `from` names the old slot of each new one.                              *)
LEMMA Relocation ==
  ASSUME Owned, outside' = outside,
         NEW from,
         \A p \in live' : from[p] \in live /\ slots'[p] = slots[from[p]],
         \A p, q \in live' : from[p] = from[q] => p = q,
         \A o \in live : \E p \in live' : from[p] = o
  PROVE  Owned'
  <1>1. Stored' = Stored
    <2>1. \A p \in live' : slots'[p] \in Stored
      BY DEF Stored
    <2>2. ASSUME NEW o \in live PROVE slots[o] \in Stored'
      <3>1. PICK p \in live' : from[p] = o
        OBVIOUS
      <3>2. slots'[p] = slots[o]
        BY <3>1
      <3> QED
        BY <3>2 DEF Stored
    <2> QED
      BY <2>1, <2>2 DEF Stored
  <1>2. \A p, q \in live' : slots'[p] = slots'[q] => p = q
    BY DEF Owned
  <1> QED
    BY <1>1, <1>2 DEF Owned

(* The same when the caller's element e also enters, in slot `dest`.       *)
LEMMA RelocationWithInsert ==
  ASSUME Owned, NEW e \in outside, outside' = outside \ {e},
         NEW dest \in live', slots'[dest] = e,
         NEW from,
         \A p \in live' : p # dest => from[p] \in live /\ slots'[p] = slots[from[p]],
         \A p, q \in live' : p # dest /\ q # dest /\ from[p] = from[q] => p = q,
         \A o \in live : \E p \in live' : p # dest /\ from[p] = o
  PROVE  Owned'
  <1>1. Stored' = Stored \cup {e}
    <2>1. \A p \in live' : slots'[p] \in Stored \cup {e}
      BY DEF Stored
    <2>2. ASSUME NEW o \in live PROVE slots[o] \in Stored'
      <3>1. PICK p \in live' : p # dest /\ from[p] = o
        OBVIOUS
      <3>2. slots'[p] = slots[o]
        BY <3>1
      <3> QED
        BY <3>2 DEF Stored
    <2>3. e \in Stored'
      BY DEF Stored
    <2> QED
      BY <2>1, <2>2, <2>3 DEF Stored
  <1>2. \A p \in live' : p # dest => slots'[p] # e
    BY DEF Owned, Stored
  <1>3. \A p, q \in live' : slots'[p] = slots'[q] => p = q
    <2> SUFFICES ASSUME NEW p \in live', NEW q \in live', slots'[p] = slots'[q]
                 PROVE  p = q
      OBVIOUS
    <2>1. p = dest <=> q = dest
      BY <1>2
    <2>2. CASE p # dest /\ q # dest
      <3>1. from[p] = from[q]
        BY <2>2 DEF Owned
      <3> QED
        BY <2>2, <3>1
    <2> QED
      BY <2>1, <2>2
  <1> QED
    BY <1>1, <1>3 DEF Owned

LEMMA RebuildToKeepsOwned ==
  ASSUME IInv, Owned, NEW c \in Powers, c <= N, Count <= c, RebuildTo(c), outside' = outside
  PROVE  Owned'
  <1> DEFINE L == Spread(Count, c)
             from == [p \in L |-> Select(live, Rank(L, p))]
  <1>1. /\ Count \in Nat /\ c \in Nat /\ N \in Nat
        /\ IsBitmap(live) /\ Cardinality(live) = Count
    BY BlockFacts DEF IInv, Powers
  <1>2. L \subseteq 0 .. c - 1 /\ IsBitmap(L) /\ Cardinality(L) = Count
    BY <1>1, SpreadCardinality
  <1> HIDE DEF L
  <1>3. live' = L /\ L \subseteq Phys
        /\ slots' = [p \in Phys |-> IF p \in L THEN Read(Select(live, Rank(L, p))) ELSE Uninit]
    BY <1>1, <1>2 DEF RebuildTo, L, Phys
  <1>4. /\ \A p \in L : from[p] \in live
        /\ \A p, q \in L : from[p] = from[q] => p = q
        /\ \A o \in live : \E p \in L : from[p] = o
    <2>1. \A p \in L : Select(live, Rank(L, p)) \in live
      BY <1>1, <1>2, EqualRanksPair
    <2>2. \A p, q \in L : Select(live, Rank(L, p)) = Select(live, Rank(L, q)) => p = q
      BY <1>1, <1>2, EqualRanksPair
    <2>3. \A o \in live : \E p \in L : Select(live, Rank(L, p)) = o
      <3>1. Cardinality(L) = Cardinality(live) /\ IsBitmap(L) /\ IsBitmap(live)
        BY <1>1, <1>2
      <3> QED
        BY <3>1, EqualRanksCover
    <2> QED
      BY <2>1, <2>2, <2>3
  <1>5. \A p \in L : slots'[p] = slots[from[p]]
    BY <1>3, <1>4, ReadFacts
  <1> HIDE DEF from
  <1> QED
    BY <1>3, <1>4, <1>5, Relocation

LEMMA ThroughFixedKeepsOwned ==
  ASSUME IInv, Owned, ThroughFixed
  PROVE  Owned'
  <1> DEFINE c == Pow2CapFor(Count)
             L == IF Count = 0 THEN {} ELSE Spread(Count, c)
             from == [p \in L |-> Select(live, Rank(L, p))]
  <1>1. /\ N \in Nat \ {0} /\ cap \in Nat /\ cap <= N /\ Count \in Nat /\ Count <= cap
        /\ IsBitmap(occ) /\ Cardinality(occ) = Count
        /\ IsBitmap(live) /\ Cardinality(live) = Count
    BY BlockFacts DEF IInv, Count
  <1>2. c \in Nat /\ c <= N /\ Count <= c
    BY <1>1, Pow2CapForHolds
  <1>3. L \subseteq 0 .. c - 1 /\ IsBitmap(L) /\ Cardinality(L) = Count
    BY <1>1, <1>2, SpreadCardinality, FS_EmptySet DEF IsBitmap
  <1> HIDE DEF L, c
  <1>4. /\ live' = L /\ outside' = outside /\ L \subseteq Phys
        /\ slots' = [p \in Phys |-> IF p \in L THEN Fixed(Select(occ, Rank(L, p))) ELSE Uninit]
    BY <1>1, <1>2, <1>3 DEF ThroughFixed, Count, L, c, Phys
  <1>5. /\ \A p \in L : from[p] \in live
        /\ \A p, q \in L : from[p] = from[q] => p = q
        /\ \A o \in live : \E p \in L : from[p] = o
    <2>1. \A p \in L : Select(live, Rank(L, p)) \in live
      BY <1>1, <1>3, EqualRanksPair
    <2>2. \A p, q \in L : Select(live, Rank(L, p)) = Select(live, Rank(L, q)) => p = q
      BY <1>1, <1>3, EqualRanksPair
    <2>3. \A o \in live : \E p \in L : Select(live, Rank(L, p)) = o
      <3>1. Cardinality(L) = Cardinality(live) /\ IsBitmap(L) /\ IsBitmap(live)
        BY <1>1, <1>3
      <3> QED
        BY <3>1, EqualRanksCover
    <2> QED
      BY <2>1, <2>2, <2>3
  <1>6. ASSUME NEW p \in L PROVE slots'[p] = slots[from[p]]
    <2>1. Rank(L, p) \in 0 .. Count - 1
      BY <1>3, RankOfMember
    <2>2. Rank(occ, Select(occ, Rank(L, p))) = Rank(L, p)
      BY <1>1, <2>1, SelectMember
    <2>3. slots'[p] = Read(from[p])
      BY <1>4, <2>2 DEF Fixed
    <2> QED
      BY <1>5, <2>3, ReadFacts
  <1> HIDE DEF from
  <1> QED
    BY <1>4, <1>5, <1>6, Relocation

LEMMA RebuildWithInsertKeepsOwned ==
  ASSUME IInv, Owned, NEW i \in Index \ occ, NEW e \in outside,
         NEW c \in Powers, c <= N, Count + 1 <= c,
         RebuildWithInsert(i, e, c), outside' = outside \ {e}
  PROVE  Owned'
  <1> DEFINE L == Spread(Count + 1, c)
             k == Rank(occ \cup {i}, i)
             dest == Select(L, k)
             from == [p \in L |-> Select(live, Skip(Rank(L, p), k))]
  <1>1. /\ Count \in Nat /\ c \in Nat /\ N \in Nat /\ IsBitmap(occ)
        /\ IsBitmap(live) /\ Cardinality(live) = Count
    BY BlockFacts DEF IInv, Powers
  <1>2. L \subseteq 0 .. c - 1 /\ IsBitmap(L) /\ Cardinality(L) = Count + 1
    BY <1>1, SpreadCardinality
  <1>3. k \in 0 .. Count
    <2>1. i \in Index /\ i \in Nat
      BY <1>1 DEF Index
    <2>2. IsBitmap(occ \cup {i}) /\ Cardinality(occ \cup {i}) = Count + 1
      BY <1>1, <2>1, CountChanges, FS_AddElement DEF IsBitmap
    <2> QED
      BY <1>1, <2>2, RankOfMember
  <1> HIDE DEF L, k
  <1>4. /\ live' = L /\ L \subseteq Phys
        /\ slots' = [p \in Phys |-> IF p \notin L THEN Uninit
                                    ELSE IF Rank(L, p) = k THEN e
                                    ELSE Read(Select(live, Skip(Rank(L, p), k)))]
    BY <1>1, <1>2 DEF RebuildWithInsert, L, k, Skip, Phys
  <1>5. dest \in L /\ \A p \in L : Rank(L, p) = k <=> p = dest
    BY <1>1, <1>2, <1>3, SelectMember, RankOrders
  <1>6. /\ \A p \in L : p # dest => from[p] \in live
        /\ \A p, q \in L : p # dest /\ q # dest /\ from[p] = from[q] => p = q
        /\ \A o \in live : \E p \in L : p # dest /\ from[p] = o
    <2> DEFINE Old(p) == Select(live, Skip(Rank(L, p), k))
    <2>1. k \in 0 .. Cardinality(live) /\ Cardinality(L) = Cardinality(live) + 1
      BY <1>1, <1>2, <1>3
    <2>2. \A p \in L : Rank(L, p) # k => Old(p) \in live
      BY <1>1, <1>2, <2>1, SkippedRanksPair
    <2>3. \A p, q \in L : Rank(L, p) # k /\ Rank(L, q) # k /\ Old(p) = Old(q) => p = q
      BY <1>1, <1>2, <2>1, SkippedRanksPair
    <2>4. \A o \in live : \E p \in L : Rank(L, p) # k /\ Old(p) = o
      BY <1>1, <1>2, <2>1, SkippedRanksPair
    <2>5. \A p \in L : from[p] = Old(p)
      OBVIOUS
    <2> HIDE DEF from, Old, dest
    <2> QED
      BY <1>5, <2>2, <2>3, <2>4, <2>5
  <1>7. \A p \in L : p # dest => slots'[p] = slots[from[p]]
    BY <1>4, <1>5, <1>6, ReadFacts
  <1>8. slots'[dest] = e
    BY <1>4, <1>5
  <1> HIDE DEF from, dest
  <1> QED
    BY <1>4, <1>5, <1>6, <1>7, <1>8, RelocationWithInsert

LEMMA PlaceAbsentKeepsOwned ==
  ASSUME IInv, IInv', Owned, NEW i \in Index \ occ, NEW e \in outside, Count < cap,
         PlaceAbsent(i, e), outside' = outside \ {e}
  PROVE  Owned'
  <1> DEFINE hi == PHi(i)
             hl == HoleLeft(i)
             hr == HoleRight(i)
             hb == HoleBetween(i)
  <1>1. /\ N \in Nat /\ cap \in Nat /\ cap <= N /\ i \in Index
        /\ live \subseteq 0 .. cap - 1
    BY BlockFacts DEF IInv, TypeOK
  <1>2. slots \in [Phys -> Elem \cup {Uninit}] /\ Phys = 0 .. N - 1
    BY DEF IInv, TypeOK, Phys
  <1>3. CASE Strategy(i) = "hole"
    <2>1. live' = live \cup {hb} /\ slots' = [slots EXCEPT ![hb] = e]
      BY <1>3 DEF PlaceAbsent, InPlace, WriteIntoHole
    <2>2. hb \in (0 .. cap - 1) \ live
      BY <1>3, HolePlan
    <2> HIDE DEF hb
    <2> DEFINE from == [p \in live |-> p]
    <2>3. slots'[hb] = e /\ hb \in live'
      BY <1>1, <1>2, <2>1, <2>2
    <2>4. \A p \in live' : p # hb => from[p] \in live /\ slots'[p] = slots[from[p]]
      BY <1>1, <1>2, <2>1, <2>2
    <2>5. \A p, q \in live' : p # hb /\ q # hb /\ from[p] = from[q] => p = q
      BY <2>1
    <2>6. \A o \in live : \E p \in live' : p # hb /\ from[p] = o
      BY <2>1, <2>2
    <2> HIDE DEF from
    <2> QED
      BY <2>3, <2>4, <2>5, <2>6, RelocationWithInsert
  <1>4. CASE Strategy(i) = "left"
    <2>1. live' = live \cup {hl} /\ slots' = ShiftLeft(hl, hi, e)
      BY <1>4 DEF PlaceAbsent, InPlace
    <2>2. /\ hl \in (0 .. cap - 1) \ live /\ hi \in hl + 1 .. cap
          /\ \A p \in hl + 1 .. hi - 1 : p \in live
      BY <1>4, LeftPlan
    <2> HIDE DEF hl, hi
    <2> DEFINE dest == hi - 1
               from == [p \in live' |-> IF p \in hl .. hi - 2 THEN p + 1 ELSE p]
    <2>3. \A p \in live' : p \in Phys /\ p \in Int
      BY <1>1, <1>2, <2>1, <2>2
    <2>4. dest \in live' /\ slots'[dest] = e
      BY <1>1, <1>2, <2>1, <2>2 DEF ShiftLeft
    <2>5. ASSUME NEW p \in live', p # dest
          PROVE  from[p] \in live /\ slots'[p] = slots[from[p]]
      <3>1. slots'[p] = slots[from[p]]
        BY <2>1, <2>3, <2>5 DEF ShiftLeft
      <3>2. CASE p \in hl .. hi - 2
        <4>1. p + 1 \in hl + 1 .. hi - 1
          BY <2>2, <3>2
        <4> QED
          BY <2>2, <3>1, <3>2, <4>1
      <3>3. CASE p \notin hl .. hi - 2
        <4>1. p # hl
          BY <1>1, <2>2, <2>5, <3>3
        <4> QED
          BY <2>1, <3>1, <3>3, <4>1
      <3> QED
        BY <3>2, <3>3
    <2>6. \A p, q \in live' : p # dest /\ q # dest /\ from[p] = from[q] => p = q
      BY <1>1, <2>2, <2>3
    <2>7. ASSUME NEW o \in live
          PROVE  \E p \in live' : p # dest /\ from[p] = o
      <3>1. o \in Int
        BY <1>1
      <3>2. CASE o \in hl + 1 .. hi - 1
        <4>1. o - 1 \in hl .. hi - 2 /\ (o - 1) + 1 = o /\ o - 1 # dest
          BY <1>1, <2>2, <3>2
        <4>2. o - 1 \in live'
          BY <2>1, <2>2, <4>1
        <4> QED
          BY <4>1, <4>2
      <3>3. CASE o \notin hl + 1 .. hi - 1
        <4>1. o \notin hl .. hi - 2 /\ o # dest
          BY <1>1, <2>2, <3>1, <3>3
        <4> QED
          BY <2>1, <4>1
      <3> QED
        BY <3>2, <3>3
    <2> HIDE DEF from, dest
    <2> QED
      BY <2>4, <2>5, <2>6, <2>7, RelocationWithInsert
  <1>5. CASE Strategy(i) = "right"
    <2>1. live' = live \cup {hr} /\ slots' = ShiftRight(hi, hr, e)
      BY <1>5 DEF PlaceAbsent, InPlace
    <2>2. /\ hr \in (0 .. cap - 1) \ live /\ hi \in 0 .. hr
          /\ \A p \in hi .. hr - 1 : p \in live
      BY <1>5, RightPlan
    <2> HIDE DEF hr, hi
    <2> DEFINE from == [p \in live' |-> IF p \in hi + 1 .. hr THEN p - 1 ELSE p]
    <2>3. \A p \in live' : p \in Phys /\ p \in Int
      BY <1>1, <1>2, <2>1, <2>2
    <2>4. hi \in live' /\ slots'[hi] = e
      BY <1>1, <1>2, <2>1, <2>2 DEF ShiftRight
    <2>5. ASSUME NEW p \in live', p # hi
          PROVE  from[p] \in live /\ slots'[p] = slots[from[p]]
      <3>1. slots'[p] = slots[from[p]]
        BY <2>1, <2>3, <2>5 DEF ShiftRight
      <3>2. CASE p \in hi + 1 .. hr
        <4>1. p - 1 \in hi .. hr - 1
          BY <2>2, <3>2
        <4> QED
          BY <2>2, <3>1, <3>2, <4>1
      <3>3. CASE p \notin hi + 1 .. hr
        <4>1. p # hr
          BY <1>1, <2>2, <2>5, <3>3
        <4> QED
          BY <2>1, <3>1, <3>3, <4>1
      <3> QED
        BY <3>2, <3>3
    <2>6. \A p, q \in live' : p # hi /\ q # hi /\ from[p] = from[q] => p = q
      BY <1>1, <2>2, <2>3
    <2>7. ASSUME NEW o \in live
          PROVE  \E p \in live' : p # hi /\ from[p] = o
      <3>1. o \in Int
        BY <1>1
      <3>2. CASE o \in hi .. hr - 1
        <4>1. o + 1 \in hi + 1 .. hr /\ (o + 1) - 1 = o /\ o + 1 # hi
          BY <1>1, <2>2, <3>2
        <4>2. o + 1 \in live'
          BY <2>1, <2>2, <4>1
        <4> QED
          BY <4>1, <4>2
      <3>3. CASE o \notin hi .. hr - 1
        <4>1. o \notin hi + 1 .. hr /\ o # hi
          BY <1>1, <2>2, <3>1, <3>3
        <4> QED
          BY <2>1, <4>1
      <3> QED
        BY <3>2, <3>3
    <2> HIDE DEF from
    <2> QED
      BY <2>4, <2>5, <2>6, <2>7, RelocationWithInsert
  <1>6. Strategy(i) \in {"hole", "left", "right"}
    BY <1>1, RoomMeansNoRespread DEF Strategy
  <1> QED
    BY <1>3, <1>4, <1>5, <1>6

LEMMA RemoveKeepsOwned ==
  ASSUME IInv, Owned, NEW i \in Index, Remove(i)
  PROVE  Owned'
  <1> DEFINE p == SlotOf(i)
  <1>1. p \in live /\ Read(p) = slots[p] /\ p \in Phys /\ live \subseteq Phys
    <2>1. i \in occ
      BY DEF Remove
    <2>2. p \in live /\ Read(p) = slots[p]
      BY <2>1, SlotOfPresent, ReadFacts
    <2>3. live \subseteq Phys
      BY BlockFacts DEF IInv, TypeOK, Phys
    <2> QED
      BY <2>2, <2>3
  <1> HIDE DEF p
  <1>2. /\ live' = live \ {p}
        /\ slots' = [slots EXCEPT ![p] = Uninit]
        /\ outside' = outside \cup {slots[p]}
    BY <1>1 DEF Remove, p
  <1>3. \A q \in live' : slots'[q] = slots[q]
    BY <1>1, <1>2 DEF IInv, TypeOK
  <1>4. Stored' = Stored \ {slots[p]}
    BY <1>1, <1>2, <1>3 DEF Stored, Owned
  <1>5. slots[p] \in Stored
    BY <1>1 DEF Stored
  <1> QED
    BY <1>2, <1>3, <1>4, <1>5 DEF Owned

LEMMA OverwriteKeepsOwned ==
  ASSUME IInv, Owned, NEW i \in Index, NEW e \in outside, Overwrite(i, e)
  PROVE  Owned'
  <1> DEFINE p == SlotOf(i)
  <1>1. p \in live /\ Read(p) = slots[p] /\ p \in Phys /\ live \subseteq Phys
    <2>1. p \in live /\ Read(p) = slots[p]
      BY SlotOfPresent, ReadFacts DEF Overwrite
    <2>2. live \subseteq Phys
      BY BlockFacts DEF IInv, TypeOK, Phys
    <2> QED
      BY <2>1, <2>2
  <1> HIDE DEF p
  <1>2. /\ live' = live
        /\ slots' = [slots EXCEPT ![p] = e]
        /\ outside' = (outside \ {e}) \cup {slots[p]}
    BY <1>1 DEF Overwrite, p
  <1>3. \A q \in live : slots'[q] = IF q = p THEN e ELSE slots[q]
    BY <1>1, <1>2 DEF IInv, TypeOK
  <1>4. slots[p] \in Stored /\ e \notin Stored
    BY <1>1 DEF Stored, Owned
  <1>5. Stored' = (Stored \ {slots[p]}) \cup {e}
    BY <1>1, <1>2, <1>3, <1>4 DEF Stored, Owned
  <1>6. \A q, r \in live' : slots'[q] = slots'[r] => q = r
    BY <1>2, <1>3, <1>4 DEF Stored, Owned
  <1> QED
    BY <1>2, <1>4, <1>5, <1>6 DEF Owned

LEMMA InsertKeepsOwned ==
  ASSUME IInv, IInv', Owned, NEW i \in Index, NEW e \in Elem, Insert(i, e)
  PROVE  Owned'
  <1>1. /\ N \in Nat \ {0} /\ cap \in Nat /\ cap <= N /\ Count \in Nat /\ Count <= cap
        /\ e \in outside
    BY BlockFacts DEF IInv, Insert
  <1>2. CASE InsertFirst(i, e)
    <2>1. live = {} /\ live' = {0}
      BY <1>2 DEF InsertFirst, IInv, TypeOK
    <2>2. slots'[0] = e /\ outside' = outside \ {e}
      BY <1>1, <1>2 DEF InsertFirst, IInv, TypeOK, Phys
    <2> QED
      BY <1>1, <2>1, <2>2 DEF Owned, Stored
  <1>3. CASE Overwrite(i, e)
    BY <1>1, <1>3, OverwriteKeepsOwned
  <1>4. CASE InsertIntoFull(i, e)
    <2> DEFINE c == Pow2CapFor(Count + 1)
    <2>1. Count + 1 <= N
      BY <1>4, AbsentMeansRoom DEF InsertIntoFull
    <2>2. c \in Powers /\ c <= N /\ Count + 1 <= c
      BY <1>1, <2>1, Pow2CapForHolds
    <2> QED
      BY <1>1, <1>4, <2>2, RebuildWithInsertKeepsOwned DEF InsertIntoFull
  <1>5. CASE InsertWithRoom(i, e)
    BY <1>1, <1>5, PlaceAbsentKeepsOwned DEF InsertWithRoom
  <1> QED
    BY <1>2, <1>3, <1>4, <1>5 DEF Insert

LEMMA ReserveKeepsOwned ==
  ASSUME IInv, Owned, NEW n \in Nat, Reserve(n)
  PROVE  Owned'
  <1> DEFINE target == Pow2CapFor(Count + n)
  <1>1. /\ N \in Nat \ {0} /\ cap \in Nat /\ cap <= N /\ Count \in Nat /\ Count <= cap
    BY BlockFacts DEF IInv
  <1>2. target \in Nat /\ target <= N /\ target > cap
    BY <1>1, Pow2CapForHolds DEF Reserve
  <1>3. target \in Powers
    BY <1>1, <1>2, Pow2CapForHolds
  <1>4. CASE UNCHANGED <<occ, live, slots>>
    BY <1>4 DEF Reserve, Owned, Stored
  <1>5. CASE RebuildTo(target)
    BY <1>1, <1>2, <1>3, <1>5, RebuildToKeepsOwned DEF Reserve
  <1> QED
    BY <1>4, <1>5 DEF Reserve

LEMMA ShrinkToFitKeepsOwned ==
  ASSUME IInv, Owned, ShrinkToFit
  PROVE  Owned'
  <1>1. Count \in Nat /\ Cardinality(live) = Count /\ IsFiniteSet(live)
    BY BlockFacts DEF IInv, IsBitmap
  <1>2. CASE Count = 0 /\ live' = live /\ outside' = outside
    <2>1. live = {}
      BY <1>1, <1>2, FS_EmptySet
    <2> QED
      BY <1>2, <2>1 DEF Owned, Stored
  <1>3. CASE Count > 0 /\ RebuildTo(Pow2CapFor(Count)) /\ UNCHANGED outside
    <2>1. Pow2CapFor(Count) \in Powers /\ Pow2CapFor(Count) <= N /\ Count <= Pow2CapFor(Count)
      BY <1>1, <1>3, Pow2CapForHolds, BlockFacts DEF IInv
    <2> QED
      BY <1>3, <2>1, RebuildToKeepsOwned
  <1> QED
    BY <1>2, <1>3 DEF ShrinkToFit

LEMMA ClearKeepsOwned ==
  ASSUME IInv, Owned, Clear
  PROVE  Owned'
  <1>1. \A p \in live : Read(p) = slots[p]
    BY ReadFacts
  <1>2. live' = {} /\ outside' = outside \cup Stored
    BY <1>1 DEF Clear, Stored
  <1> QED
    BY <1>2 DEF Owned, Stored

LEMMA StepKeepsOwned == IInv /\ IInv' /\ Owned /\ [Next]_vars => Owned'
  <1> SUFFICES ASSUME IInv, IInv', Owned, [Next]_vars PROVE Owned'
    OBVIOUS
  <1>1. ASSUME NEW i \in Index, NEW e \in Elem, Insert(i, e) PROVE Owned'
    BY <1>1, InsertKeepsOwned
  <1>2. ASSUME NEW i \in Index, Remove(i) PROVE Owned'
    BY <1>2, RemoveKeepsOwned
  <1>3. CASE TakeOnlyChild
    <2>1. Lowest(occ) \in Index
      BY <1>3 DEF TakeOnlyChild, Remove, IInv, TypeOK
    <2> QED
      BY <1>3, <2>1, RemoveKeepsOwned DEF TakeOnlyChild
  <1>4. ASSUME NEW n \in Requests, Reserve(n) PROVE Owned'
    BY <1>4, ReserveKeepsOwned, RequestsAssumption
  <1>5. CASE ShrinkToFit
    BY <1>5, ShrinkToFitKeepsOwned
  <1>6. CASE Clear
    BY <1>6, ClearKeepsOwned
  <1>7. CASE ThroughFixed
    BY <1>7, ThroughFixedKeepsOwned
  <1>8. CASE UNCHANGED vars
    BY <1>8 DEF vars, Owned, Stored
  <1> QED
    BY <1>1, <1>2, <1>3, <1>4, <1>5, <1>6, <1>7, <1>8 DEF Next

(* For every arity and every sequence of calls, each element is in exactly *)
(* one live slot or with the caller: no operation leaks or doubles one.    *)
THEOREM Conservation == Spec => []ElementsConserved
  <1>1. Init => Owned
    BY DEF Init, Owned, Stored
  <1>2. Spec => []Owned
    BY <1>1, Invariance, StepKeepsOwned, PTL DEF Spec
  <1> QED
    BY <1>2, Invariance, OwnedIsConserved, PTL

-----------------------------------------------------------------------------
(* What `get` finds, in one state and in the next.                         *)

Header ==
  /\ IsBitmap(occ) /\ IsBitmap(live) /\ Cardinality(occ) = Cardinality(live)
  /\ occ \subseteq Index /\ live \subseteq 0 .. cap - 1 /\ cap \in Nat
  /\ Phys = 0 .. N - 1 /\ N \in Nat /\ cap <= N

Found ==
  \A j \in Index : /\ j \in occ => Get(j) = slots[SlotOf(j)]
                   /\ j \notin occ => Get(j) = Uninit

LEMMA HeaderFacts == IInv => Header
  BY BlockFacts DEF IInv, TypeOK, EqualPopcount, Phys, Header

LEMMA HeaderFactsNext == IInv' => Header'
  BY HeaderFacts, PTL

LEMMA GetReads == IInv => Found
  BY SlotOfPresent, ReadFacts DEF Get, Found

LEMMA GetReadsNext == IInv' => Found'
  BY GetReads, PTL

LEMMA PresentIsElement ==
  ASSUME IInv, NEW j \in occ
  PROVE  SlotOf(j) \in live /\ Get(j) \in Elem /\ Get(j) # Uninit
  BY SlotOfPresent, ReadFacts, UninitAssumption DEF Get

(* Earlier indices own earlier slots. *)
LEMMA SlotOfIncreases ==
  ASSUME IInv, NEW j \in occ, NEW k \in occ, j < k
  PROVE  SlotOf(j) < SlotOf(k)
  <1>1. Rank(occ, j) < Rank(occ, k)
    BY HeaderFacts, RankOrders DEF Header
  <1>2. /\ Rank(occ, j) \in 0 .. Cardinality(live) - 1
        /\ Rank(occ, k) \in 0 .. Cardinality(live) - 1
    BY HeaderFacts, RankOfMember DEF Header
  <1> QED
    BY <1>1, <1>2, HeaderFacts, SelectIncreases DEF SlotOf, Header

(* A new layout that keeps the order of the indices is the one `get` sees. *)
LEMMA LayoutIsSeen ==
  ASSUME IInv', NEW f \in [occ' -> live'], \A j, k \in occ' : j < k => f[j] < f[k]
  PROVE  \A j \in occ' : SlotOf(j)' = f[j]
  BY HeaderFactsNext, OrderPairsRanks DEF SlotOf, Header

(* The neighbours of an absent index bound every slot on their side. *)
LEMMA NeighbourSides ==
  ASSUME IInv, NEW i \in Index \ occ, NEW j \in occ
  PROVE  /\ j < i => SlotOf(j) <= PLo(i)
         /\ i < j => PHi(i) <= SlotOf(j)
  <1> DEFINE r == Rank(occ, i)
             s == Rank(occ, j)
             n == Cardinality(live)
  <1>1. /\ IsBitmap(occ) /\ IsBitmap(live) /\ Count = n /\ n \in Nat
    BY HeaderFacts, FS_CardinalityType DEF Count, IsBitmap, Header
  <1>2. i \in Nat /\ j \in Nat
    BY HeaderFacts DEF Index, IsBitmap, Header
  <1>3. /\ r \in 0 .. n /\ s \in 0 .. n - 1
        /\ j < i => s < r
        /\ i < j => r <= s
    BY <1>1, <1>2, RankOfNew DEF Count
  <1>4. SlotOf(j) = Select(live, s)
    BY DEF SlotOf
  <1>5. /\ PLo(i) = IF r = 0 THEN -1 ELSE Select(live, r - 1)
        /\ PHi(i) = IF r = n THEN cap ELSE Select(live, r)
    BY <1>1 DEF PLo, PHi
  <1> HIDE DEF r, s, n
  <1>6. \A a, b \in 0 .. n - 1 : a <= b => Select(live, a) <= Select(live, b)
    <2> SUFFICES ASSUME NEW a \in 0 .. n - 1, NEW b \in 0 .. n - 1, a <= b
                 PROVE  Select(live, a) <= Select(live, b)
      OBVIOUS
    <2>1. Select(live, a) \in Nat /\ Select(live, b) \in Nat
      BY <1>1, SelectMember DEF n, IsBitmap
    <2>2. a < b => Select(live, a) < Select(live, b)
      BY <1>1, SelectIncreases DEF n
    <2>3. a < b \/ a = b
      OBVIOUS
    <2> QED
      BY <2>1, <2>2, <2>3
  <1>7. j < i => SlotOf(j) <= PLo(i)
    <2> SUFFICES ASSUME j < i PROVE SlotOf(j) <= PLo(i)
      OBVIOUS
    <2>1. r # 0 /\ r - 1 \in 0 .. n - 1 /\ s <= r - 1
      BY <1>1, <1>3
    <2> QED
      BY <1>3, <1>4, <1>5, <1>6, <2>1
  <1>8. i < j => PHi(i) <= SlotOf(j)
    <2> SUFFICES ASSUME i < j PROVE PHi(i) <= SlotOf(j)
      OBVIOUS
    <2>1. r # n /\ r \in 0 .. n - 1 /\ r <= s
      BY <1>1, <1>3
    <2> QED
      BY <1>3, <1>4, <1>5, <1>6, <2>1
  <1> QED
    BY <1>7, <1>8

-----------------------------------------------------------------------------
(* What each operation does to the map the callers see.                    *)

Puts(i, e) ==
  /\ e \in outside
  /\ outside' = (outside \ {e}) \cup ({Get(i)} \ {Uninit})
  /\ \A j \in Index : Get(j)' = IF j = i THEN e ELSE Get(j)

Gives(i) ==
  /\ Get(i) # Uninit
  /\ outside' = outside \cup {Get(i)}
  /\ \A j \in Index : Get(j)' = IF j = i THEN Uninit ELSE Get(j)

Empties ==
  /\ outside' = outside \cup {Get(j) : j \in occ}
  /\ \A j \in Index : Get(j)' = Uninit

Same == outside' = outside /\ \A j \in Index : Get(j)' = Get(j)

(* Adding i to an order-preserving layout that carries the old elements    *)
(* over and holds e at i puts e there.                                     *)
LEMMA LayoutPuts ==
  ASSUME IInv, IInv', NEW i \in Index \ occ, NEW e \in outside,
         outside' = outside \ {e}, occ' = occ \cup {i},
         NEW f \in [occ' -> live'], \A j, k \in occ' : j < k => f[j] < f[k],
         slots'[f[i]] = e,
         \A j \in occ : slots'[f[j]] = slots[SlotOf(j)]
  PROVE  Puts(i, e)
  <1>1. \A j \in occ' : SlotOf(j)' = f[j]
    BY LayoutIsSeen
  <1>2. Get(i) = Uninit
    BY GetReads DEF Found
  <1>3. ASSUME NEW j \in Index PROVE Get(j)' = IF j = i THEN e ELSE Get(j)
    <2>1. CASE j = i
      BY <1>1, <2>1, GetReadsNext DEF Found
    <2>2. CASE j \in occ
      BY <1>1, <2>2, GetReads, GetReadsNext DEF Found
    <2>3. CASE j # i /\ j \notin occ
      BY <2>3, GetReads, GetReadsNext DEF Found
    <2> QED
      BY <2>1, <2>2, <2>3
  <1> QED
    BY <1>2, <1>3 DEF Puts

(* Rebuilding at another capacity changes nothing a caller sees. *)
LEMMA RankedCopyIsSame ==
  ASSUME IInv, IInv', occ' = occ, outside' = outside,
         \A p \in live' : slots'[p] = Read(Select(live, Rank(live', p)))
  PROVE  Same
  <1>1. ASSUME NEW j \in occ PROVE Get(j)' = Get(j)
    <2>1. SlotOf(j)' = Select(live', Rank(occ, j))
      BY DEF SlotOf
    <2>2. Rank(occ, j) \in 0 .. Cardinality(live') - 1
      BY HeaderFactsNext, RankOfMember DEF Header
    <2>3. SlotOf(j)' \in live' /\ Rank(live', SlotOf(j)') = Rank(occ, j)
      BY <2>1, <2>2, HeaderFactsNext, SelectMember DEF Header
    <2>4. slots'[SlotOf(j)'] = Read(SlotOf(j))
      BY <2>3 DEF SlotOf
    <2> QED
      BY <2>4, HeaderFacts, GetReadsNext DEF Get, Header, Found
  <1>2. ASSUME NEW j \in Index, j \notin occ PROVE Get(j)' = Get(j)
    BY <1>2, GetReads, GetReadsNext DEF Found
  <1> QED
    BY <1>1, <1>2 DEF Same

LEMMA RebuildWithInsertPuts ==
  ASSUME IInv, IInv', NEW i \in Index \ occ, NEW e \in outside,
         NEW c \in Nat, c <= N, Count + 1 <= c,
         RebuildWithInsert(i, e, c), outside' = outside \ {e}
  PROVE  Puts(i, e)
  <1> DEFINE k == Rank(occ, i)
             f == [j \in occ' |-> Select(live', Rank(occ', j))]
  <1>1. /\ IsBitmap(occ) /\ IsBitmap(live) /\ Cardinality(live) = Cardinality(occ)
        /\ IsBitmap(occ') /\ IsBitmap(live') /\ Cardinality(live') = Cardinality(occ')
        /\ i \in Nat /\ i \notin occ /\ Phys = 0 .. N - 1 /\ cap' = c
        /\ live' \subseteq 0 .. c - 1 /\ occ \subseteq Nat
    BY HeaderFacts, HeaderFactsNext DEF Header, Index, RebuildWithInsert, IsBitmap
  <1>2. /\ occ' = occ \cup {i} /\ Rank(occ', i) = k
        /\ \A p \in live' :
             slots'[p] = IF Rank(live', p) = k THEN e
                         ELSE Read(Select(live, Skip(Rank(live', p), k)))
    <2>1. occ' = occ \cup {i} /\ Rank(occ \cup {i}, i) = k
      BY <1>1, RankOfNew DEF RebuildWithInsert
    <2>2. live' \subseteq Phys /\ N \in Nat
      BY <1>1, HeaderFacts DEF Header
    <2> HIDE DEF k
    <2> QED
      BY <2>1, <2>2 DEF RebuildWithInsert, Skip
  <1>3. \A j \in occ' : Rank(occ', j) \in 0 .. Cardinality(live') - 1
    BY <1>1, RankOfMember
  <1>4. \A j \in occ' : f[j] \in live' /\ Rank(live', f[j]) = Rank(occ', j)
    BY <1>1, <1>3, SelectMember
  <1>5. \A j, m \in occ' : j < m => f[j] < f[m]
    <2> SUFFICES ASSUME NEW j \in occ', NEW m \in occ', j < m PROVE f[j] < f[m]
      OBVIOUS
    <2>1. Rank(occ', j) < Rank(occ', m)
      BY <1>1, RankOrders
    <2> QED
      BY <1>1, <1>3, <2>1, SelectIncreases
  <1>6. f \in [occ' -> live']
    BY <1>4
  <1> HIDE DEF f
  <1>7. slots'[f[i]] = e
    BY <1>2, <1>4
  <1>8. ASSUME NEW j \in occ PROVE slots'[f[j]] = slots[SlotOf(j)]
    <2>1. /\ Rank(occ, j) \in Nat /\ k \in Nat /\ (j < i \/ i < j)
          /\ j < i => Rank(occ', j) = Rank(occ, j) /\ Rank(occ, j) < k
          /\ i < j => Rank(occ', j) = Rank(occ, j) + 1 /\ k <= Rank(occ, j)
      <3>1. j \in Nat /\ j # i /\ j \in Int /\ i \in Int
        BY <1>1
      <3>2. /\ Rank(occ, j) \in Nat /\ k \in Nat
            /\ j < i => Rank(occ \cup {i}, j) = Rank(occ, j) /\ Rank(occ, j) < k
            /\ i < j => Rank(occ \cup {i}, j) = Rank(occ, j) + 1 /\ k <= Rank(occ, j)
        BY <1>1, <3>1, RankOfNew, RankType
      <3> QED
        BY <1>2, <3>1, <3>2
    <2> HIDE DEF k
    <2>2. Rank(occ', j) # k /\ Skip(Rank(occ', j), k) = Rank(occ, j)
      BY <2>1 DEF Skip
    <2>3. j \in occ'
      BY <1>2
    <2>4. slots'[f[j]] = Read(SlotOf(j))
      BY <1>2, <1>4, <2>2, <2>3 DEF SlotOf
    <2> QED
      BY <2>4, PresentIsElement, ReadFacts
  <1> QED
    BY <1>2, <1>5, <1>6, <1>7, <1>8, LayoutPuts

(* The three placements of place_absent. In each, f says where every index *)
(* ends up: outside the shifted run, where it was.                         *)
LEMMA HolePuts ==
  ASSUME IInv, IInv', NEW i \in Index \ occ, NEW e \in outside,
         outside' = outside \ {e}, Strategy(i) = "hole", PlaceAbsent(i, e)
  PROVE  Puts(i, e)
  <1> DEFINE hb == HoleBetween(i)
             f == [j \in occ' |-> IF j = i THEN hb ELSE SlotOf(j)]
  <1>1. /\ occ' = occ \cup {i} /\ live' = live \cup {hb}
        /\ slots' = [slots EXCEPT ![hb] = e]
    BY DEF PlaceAbsent, InPlace, WriteIntoHole
  <1>2. hb \in (0 .. cap - 1) \ live
    BY HolePlan
  <1>3. /\ occ \subseteq Int /\ i \in Int /\ live \subseteq 0 .. cap - 1 /\ live \subseteq Int
        /\ Phys = 0 .. N - 1 /\ N \in Nat /\ cap \in Nat /\ cap <= N
    BY HeaderFacts DEF Header, Index
  <1>4. PLo(i) < hb /\ hb < PHi(i) /\ PLo(i) \in Int /\ PHi(i) \in Int
    <2>1. HoleBetween(i) # NoBit
      BY DEF Strategy
    <2>2. HoleBetween(i) \in PLo(i) + 1 .. PHi(i) - 1
      BY <2>1, HoleBetweenFinds
    <2>3. PLo(i) \in Int /\ PHi(i) \in Int
      BY <1>3, NeighbourBounds
    <2> QED
      BY <2>2, <2>3
  <1> HIDE DEF hb
  <1>5. \A j \in occ : /\ SlotOf(j) \in live /\ SlotOf(j) \in Int
                       /\ f[j] = SlotOf(j) /\ j \in occ'
    BY <1>1, <1>3, PresentIsElement
  <1>6. f \in [occ' -> live'] /\ f[i] = hb
    BY <1>1, <1>5
  <1>7. \A j, k \in occ' : j < k => f[j] < f[k]
    <2> SUFFICES ASSUME NEW j \in occ', NEW k \in occ', j < k PROVE f[j] < f[k]
      OBVIOUS
    <2>1. CASE j \in occ /\ k \in occ
      BY <1>5, <2>1, SlotOfIncreases
    <2>2. CASE j = i /\ k \in occ
      <3>1. PHi(i) <= SlotOf(k) /\ SlotOf(k) \in Int
        BY <1>5, <2>2, NeighbourSides
      <3> QED
        BY <1>2, <1>4, <1>5, <1>6, <2>2, <3>1
    <2>3. CASE j \in occ /\ k = i
      <3>1. SlotOf(j) <= PLo(i) /\ SlotOf(j) \in Int
        BY <1>5, <2>3, NeighbourSides
      <3> QED
        BY <1>2, <1>4, <1>5, <1>6, <2>3, <3>1
    <2>4. j # i \/ k # i
      BY <1>1, <1>3
    <2> QED
      BY <1>1, <2>1, <2>2, <2>3, <2>4
  <1> HIDE DEF f
  <1>8. slots'[f[i]] = e
    BY <1>1, <1>2, <1>3, <1>6 DEF IInv, TypeOK
  <1>9. \A j \in occ : slots'[f[j]] = slots[SlotOf(j)]
    BY <1>1, <1>2, <1>3, <1>5 DEF IInv, TypeOK
  <1> QED
    BY <1>1, <1>6, <1>7, <1>8, <1>9, LayoutPuts

LEMMA ShiftLeftPuts ==
  ASSUME IInv, IInv', NEW i \in Index \ occ, NEW e \in outside,
         outside' = outside \ {e}, Strategy(i) = "left", PlaceAbsent(i, e)
  PROVE  Puts(i, e)
  <1> DEFINE hole == HoleLeft(i)
             lo == PLo(i)
             hi == PHi(i)
             f == [j \in occ' |-> IF j = i THEN hi - 1
                                  ELSE IF SlotOf(j) \in hole + 1 .. hi - 1 THEN SlotOf(j) - 1
                                  ELSE SlotOf(j)]
  <1>1. /\ occ' = occ \cup {i} /\ live' = live \cup {hole}
        /\ slots' = ShiftLeft(hole, hi, e)
    BY DEF PlaceAbsent, InPlace
  <1>2. /\ hole \in (0 .. cap - 1) \ live /\ hi \in hole + 1 .. cap
        /\ \A p \in hole + 1 .. hi - 1 : p \in live
    BY LeftPlan
  <1>3. /\ occ \subseteq Int /\ i \in Int /\ live \subseteq 0 .. cap - 1 /\ live \subseteq Int
        /\ Phys = 0 .. N - 1 /\ N \in Nat /\ cap \in Nat /\ cap <= N
    BY HeaderFacts DEF Header, Index
  <1>4. lo \in Int /\ hi \in Int /\ lo < hi
    BY <1>3, NeighbourBounds
  <1>5. \A j \in occ : /\ SlotOf(j) \in live /\ SlotOf(j) \in Int /\ SlotOf(j) # hole
                       /\ j \in occ' /\ j # i
    BY <1>1, <1>2, <1>3, PresentIsElement
  <1>6. \A j \in occ : /\ j < i => SlotOf(j) < hi
                       /\ i < j => hi <= SlotOf(j)
    BY <1>4, <1>5, NeighbourSides
  <1> HIDE DEF hole, lo, hi
  <1>7. f[i] = hi - 1 /\ hi - 1 \in live'
    BY <1>1, <1>2, <1>3, <1>4
  <1>8. \A j \in occ : f[j] = IF SlotOf(j) \in hole + 1 .. hi - 1 THEN SlotOf(j) - 1 ELSE SlotOf(j)
    BY <1>5
  <1>9. \A j \in occ : f[j] \in live'
    BY <1>1, <1>2, <1>3, <1>4, <1>5, <1>8
  <1>10. f \in [occ' -> live']
    BY <1>1, <1>7, <1>9
  <1> HIDE DEF f
  <1>11. \A j, k \in occ' : j < k => f[j] < f[k]
    <2> SUFFICES ASSUME NEW j \in occ', NEW k \in occ', j < k PROVE f[j] < f[k]
      OBVIOUS
    <2>1. CASE j \in occ /\ k \in occ
      <3>1. SlotOf(j) < SlotOf(k)
        BY <2>1, SlotOfIncreases
      <3> QED
        BY <1>2, <1>3, <1>4, <1>5, <1>8, <2>1, <3>1
    <2>2. CASE j = i /\ k \in occ
      <3>1. hi <= SlotOf(k) /\ SlotOf(k) \in Int /\ SlotOf(k) # hole
        BY <1>5, <1>6, <2>2
      <3>2. /\ f[j] = hi - 1
            /\ f[k] = IF SlotOf(k) \in hole + 1 .. hi - 1 THEN SlotOf(k) - 1 ELSE SlotOf(k)
        BY <1>7, <1>8, <2>2
      <3> QED
        BY <1>2, <1>3, <1>4, <3>1, <3>2
    <2>3. CASE j \in occ /\ k = i
      <3>1. SlotOf(j) < hi /\ SlotOf(j) \in Int /\ SlotOf(j) # hole
        BY <1>5, <1>6, <2>3
      <3>2. /\ f[k] = hi - 1
            /\ f[j] = IF SlotOf(j) \in hole + 1 .. hi - 1 THEN SlotOf(j) - 1 ELSE SlotOf(j)
        BY <1>7, <1>8, <2>3
      <3> QED
        BY <1>2, <1>3, <1>4, <3>1, <3>2
    <2>4. j # i \/ k # i
      BY <1>1, <1>3
    <2> QED
      BY <1>1, <2>1, <2>2, <2>3, <2>4
  <1>12. slots'[f[i]] = e
    BY <1>1, <1>2, <1>3, <1>4, <1>7 DEF ShiftLeft
  <1>13. ASSUME NEW j \in occ PROVE slots'[f[j]] = slots[SlotOf(j)]
    <2> DEFINE p == SlotOf(j)
    <2>1. p \in live /\ p \in Int /\ p # hole /\ p \in 0 .. N - 1
      BY <1>3, <1>5
    <2>2. f[j] = IF p \in hole + 1 .. hi - 1 THEN p - 1 ELSE p
      BY <1>8
    <2> HIDE DEF p
    <2>3. CASE p \in hole + 1 .. hi - 1
      <3>1. /\ p - 1 \in 0 .. N - 1 /\ p - 1 \in hole .. hi - 2 /\ (p - 1) + 1 = p
        BY <1>2, <1>3, <2>1, <2>3
      <3>2. slots'[p - 1] = slots[(p - 1) + 1]
        BY <1>1, <1>3, <3>1 DEF ShiftLeft
      <3> QED
        BY <2>2, <2>3, <3>1, <3>2 DEF p
    <2>4. CASE p \notin hole + 1 .. hi - 1
      <3>1. p \notin hole .. hi - 2 /\ p # hi - 1
        BY <1>2, <1>3, <1>4, <2>1, <2>4
      <3>2. slots'[p] = slots[p]
        BY <1>1, <1>3, <2>1, <3>1 DEF ShiftLeft
      <3> QED
        BY <2>2, <2>4, <3>2 DEF p
    <2> QED
      BY <2>3, <2>4
  <1> QED
    BY <1>1, <1>10, <1>11, <1>12, <1>13, LayoutPuts

LEMMA ShiftRightPuts ==
  ASSUME IInv, IInv', NEW i \in Index \ occ, NEW e \in outside,
         outside' = outside \ {e}, Strategy(i) = "right", PlaceAbsent(i, e)
  PROVE  Puts(i, e)
  <1> DEFINE hole == HoleRight(i)
             lo == PLo(i)
             hi == PHi(i)
             f == [j \in occ' |-> IF j = i THEN hi
                                  ELSE IF SlotOf(j) \in hi .. hole - 1 THEN SlotOf(j) + 1
                                  ELSE SlotOf(j)]
  <1>1. /\ occ' = occ \cup {i} /\ live' = live \cup {hole}
        /\ slots' = ShiftRight(hi, hole, e)
    BY DEF PlaceAbsent, InPlace
  <1>2. /\ hole \in (0 .. cap - 1) \ live /\ hi \in 0 .. hole
        /\ \A p \in hi .. hole - 1 : p \in live
    BY RightPlan
  <1>3. /\ occ \subseteq Int /\ i \in Int /\ live \subseteq 0 .. cap - 1 /\ live \subseteq Int
        /\ Phys = 0 .. N - 1 /\ N \in Nat /\ cap \in Nat /\ cap <= N
    BY HeaderFacts DEF Header, Index
  <1>4. lo \in Int /\ hi \in Int /\ lo < hi
    BY <1>3, NeighbourBounds
  <1>5. \A j \in occ : /\ SlotOf(j) \in live /\ SlotOf(j) \in Int /\ SlotOf(j) # hole
                       /\ j \in occ' /\ j # i
    BY <1>1, <1>2, <1>3, PresentIsElement
  <1>6. \A j \in occ : /\ j < i => SlotOf(j) < hi
                       /\ i < j => hi <= SlotOf(j)
    BY <1>4, <1>5, NeighbourSides
  <1> HIDE DEF hole, lo, hi
  <1>7. f[i] = hi /\ hi \in live'
    BY <1>1, <1>2, <1>3, <1>4
  <1>8. \A j \in occ : f[j] = IF SlotOf(j) \in hi .. hole - 1 THEN SlotOf(j) + 1 ELSE SlotOf(j)
    BY <1>5
  <1>9. \A j \in occ : f[j] \in live'
    BY <1>1, <1>2, <1>3, <1>4, <1>5, <1>8
  <1>10. f \in [occ' -> live']
    BY <1>1, <1>7, <1>9
  <1> HIDE DEF f
  <1>11. \A j, k \in occ' : j < k => f[j] < f[k]
    <2> SUFFICES ASSUME NEW j \in occ', NEW k \in occ', j < k PROVE f[j] < f[k]
      OBVIOUS
    <2>1. CASE j \in occ /\ k \in occ
      <3>1. SlotOf(j) < SlotOf(k)
        BY <2>1, SlotOfIncreases
      <3> QED
        BY <1>2, <1>3, <1>4, <1>5, <1>8, <2>1, <3>1
    <2>2. CASE j = i /\ k \in occ
      <3>1. hi <= SlotOf(k) /\ SlotOf(k) \in Int /\ SlotOf(k) # hole
        BY <1>5, <1>6, <2>2
      <3>2. /\ f[j] = hi
            /\ f[k] = IF SlotOf(k) \in hi .. hole - 1 THEN SlotOf(k) + 1 ELSE SlotOf(k)
        BY <1>7, <1>8, <2>2
      <3> QED
        BY <1>2, <1>3, <1>4, <3>1, <3>2
    <2>3. CASE j \in occ /\ k = i
      <3>1. SlotOf(j) < hi /\ SlotOf(j) \in Int /\ SlotOf(j) # hole
        BY <1>5, <1>6, <2>3
      <3>2. /\ f[k] = hi
            /\ f[j] = IF SlotOf(j) \in hi .. hole - 1 THEN SlotOf(j) + 1 ELSE SlotOf(j)
        BY <1>7, <1>8, <2>3
      <3> QED
        BY <1>2, <1>3, <1>4, <3>1, <3>2
    <2>4. j # i \/ k # i
      BY <1>1, <1>3
    <2> QED
      BY <1>1, <2>1, <2>2, <2>3, <2>4
  <1>12. slots'[f[i]] = e
    BY <1>1, <1>2, <1>3, <1>4, <1>7 DEF ShiftRight
  <1>13. \A j \in occ : slots'[f[j]] = slots[SlotOf(j)]
    BY <1>1, <1>2, <1>3, <1>4, <1>5, <1>8 DEF ShiftRight
  <1> QED
    BY <1>1, <1>10, <1>11, <1>12, <1>13, LayoutPuts

LEMMA InsertPuts ==
  ASSUME IInv, IInv', NEW i \in Index, NEW e \in Elem, Insert(i, e)
  PROVE  Puts(i, e)
  <1>1. /\ e \in outside /\ Count \in Nat /\ Count <= cap /\ cap \in Nat
        /\ Cardinality(occ) = Count /\ IsFiniteSet(occ) /\ N \in Nat \ {0}
        /\ slots \in [0 .. N - 1 -> Elem \cup {Uninit}]
    BY BlockFacts DEF IInv, Insert, Count, IsBitmap, TypeOK, Phys
  <1>2. CASE InsertFirst(i, e)
    <2>1. occ = {}
      BY <1>1, <1>2, FS_EmptySet DEF InsertFirst
    <2>2. /\ i \in Index \ occ /\ outside' = outside \ {e} /\ occ' = occ \cup {i}
          /\ live' = {0} /\ slots'[0] = e
      BY <1>1, <1>2, <2>1 DEF InsertFirst
    <2> DEFINE f == [j \in occ' |-> 0]
    <2>3. f \in [occ' -> live'] /\ f[i] = 0
      BY <2>2
    <2>4. \A j, k \in occ' : j < k => f[j] < f[k]
      <3>1. i \in Int
        BY <1>1 DEF Index
      <3> QED
        BY <2>1, <2>2, <3>1
    <2> HIDE DEF f
    <2>5. slots'[f[i]] = e /\ \A j \in occ : slots'[f[j]] = slots[SlotOf(j)]
      BY <2>1, <2>2, <2>3
    <2> QED
      BY <1>1, <2>2, <2>3, <2>4, <2>5, LayoutPuts
  <1>3. CASE Overwrite(i, e)
    <2>1. /\ i \in occ /\ occ' = occ /\ live' = live
          /\ slots' = [slots EXCEPT ![SlotOf(i)] = e]
          /\ outside' = (outside \ {e}) \cup {Read(SlotOf(i))}
      BY <1>3 DEF Overwrite
    <2>2. outside' = (outside \ {e}) \cup ({Get(i)} \ {Uninit})
      BY <2>1, PresentIsElement DEF Get
    <2>3. /\ \A j \in occ : SlotOf(j)' = SlotOf(j) /\ SlotOf(j) \in DOMAIN slots
          /\ \A j \in occ : SlotOf(j) = SlotOf(i) => j = i
      <3>1. \A j \in occ : SlotOf(j)' = SlotOf(j)
        BY <2>1 DEF SlotOf
      <3>2. \A j \in occ : SlotOf(j) \in live /\ SlotOf(j) \in Int /\ SlotOf(j) \in DOMAIN slots
        BY <1>1, PresentIsElement, HeaderFacts DEF Header
      <3>3. ASSUME NEW j \in occ, SlotOf(j) = SlotOf(i) PROVE j = i
        <4>1. j \in Int /\ i \in Int
          BY <1>1, HeaderFacts DEF Header, Index
        <4>2. ~(j < i) /\ ~(i < j)
          BY <2>1, <3>2, <3>3, SlotOfIncreases
        <4> QED
          BY <4>1, <4>2
      <3> QED
        BY <3>1, <3>2, <3>3
    <2>4. ASSUME NEW j \in Index PROVE Get(j)' = IF j = i THEN e ELSE Get(j)
      <3>1. CASE j \in occ
        BY <2>1, <2>3, <3>1, GetReads, GetReadsNext DEF Found
      <3>2. CASE j \notin occ
        BY <2>1, <3>2, GetReads, GetReadsNext DEF Found
      <3> QED
        BY <3>1, <3>2
    <2> QED
      BY <1>1, <2>2, <2>4 DEF Puts
  <1>4. CASE InsertIntoFull(i, e)
    <2>1. i \in Index \ occ
      BY <1>4 DEF InsertIntoFull
    <2>2. Count + 1 <= N
      BY <2>1, AbsentMeansRoom
    <2>3. Pow2CapFor(Count + 1) \in Nat /\ Pow2CapFor(Count + 1) <= N
          /\ Count + 1 <= Pow2CapFor(Count + 1)
      BY <1>1, <2>2, Pow2CapForHolds
    <2> QED
      BY <1>1, <1>4, <2>1, <2>3, RebuildWithInsertPuts DEF InsertIntoFull
  <1>5. CASE InsertWithRoom(i, e)
    <2>1. i \in Index \ occ /\ Count < cap /\ PlaceAbsent(i, e) /\ outside' = outside \ {e}
      BY <1>1, <1>5 DEF InsertWithRoom
    <2>2. Strategy(i) \in {"hole", "left", "right"}
      BY <2>1, RoomMeansNoRespread DEF Strategy
    <2> QED
      BY <1>1, <2>1, <2>2, HolePuts, ShiftLeftPuts, ShiftRightPuts
  <1> QED
    BY <1>2, <1>3, <1>4, <1>5 DEF Insert

(* A removal leaves every other element in its slot. *)
LEMMA RemoveKeepsSlots ==
  ASSUME IInv, IInv', NEW i \in Index, Remove(i)
  PROVE  \A j \in occ' : SlotOf(j)' = SlotOf(j)
  <1> DEFINE f == [j \in occ' |-> SlotOf(j)]
  <1>1. i \in occ /\ occ' = occ \ {i} /\ live' = live \ {SlotOf(i)}
    BY DEF Remove
  <1>2. \A j, k \in occ : j < k => SlotOf(j) < SlotOf(k)
    BY SlotOfIncreases
  <1>3. \A j \in occ : SlotOf(j) \in live /\ SlotOf(j) \in Int /\ j \in Int
    BY PresentIsElement, HeaderFacts DEF Header, Index
  <1>4. ASSUME NEW j \in occ' PROVE SlotOf(j) \in live'
    <2>1. j \in occ /\ (j < i \/ i < j)
      BY <1>1, <1>3
    <2>2. SlotOf(j) # SlotOf(i)
      <3>1. SlotOf(j) < SlotOf(i) \/ SlotOf(i) < SlotOf(j)
        BY <1>1, <1>2, <2>1
      <3> QED
        BY <1>1, <1>3, <2>1, <3>1
    <2> QED
      BY <1>1, <1>3, <2>1, <2>2
  <1>5. f \in [occ' -> live'] /\ \A j, k \in occ' : j < k => f[j] < f[k]
    BY <1>1, <1>2, <1>4
  <1>6. \A j \in occ' : f[j] = SlotOf(j)
    OBVIOUS
  <1> HIDE DEF f
  <1> QED
    BY <1>5, <1>6, LayoutIsSeen

LEMMA RemoveGives ==
  ASSUME IInv, IInv', NEW i \in Index, Remove(i)
  PROVE  Gives(i)
  <1>1. /\ i \in occ /\ occ' = occ \ {i} /\ live' = live \ {SlotOf(i)}
        /\ slots' = [slots EXCEPT ![SlotOf(i)] = Uninit]
        /\ outside' = outside \cup {Get(i)} /\ Get(i) # Uninit
    BY PresentIsElement DEF Remove, Get
  <1>2. ASSUME NEW j \in occ' PROVE Get(j)' = Get(j)
    <2>1. j \in occ /\ j \in Index
      BY <1>1, HeaderFacts DEF Header
    <2>2. SlotOf(j)' = SlotOf(j)
      BY RemoveKeepsSlots
    <2>3. SlotOf(j)' \in live'
      BY HeaderFactsNext, RankOfMember, SelectMember DEF Header, SlotOf
    <2>4. SlotOf(j) # SlotOf(i) /\ SlotOf(j) \in DOMAIN slots
      BY <1>1, <2>2, <2>3, HeaderFacts DEF Header, IInv, TypeOK
    <2>5. slots'[SlotOf(j)] = slots[SlotOf(j)]
      BY <1>1, <2>4
    <2> QED
      BY <2>1, <2>2, <2>5, GetReads, GetReadsNext DEF Found
  <1>3. ASSUME NEW j \in Index PROVE Get(j)' = IF j = i THEN Uninit ELSE Get(j)
    <2>1. CASE j \in occ'
      BY <1>1, <1>2, <2>1
    <2>2. CASE j \notin occ'
      BY <1>1, <2>2, GetReads, GetReadsNext DEF Found
    <2> QED
      BY <2>1, <2>2
  <1> QED
    BY <1>1, <1>3 DEF Gives

LEMMA ClearEmpties ==
  ASSUME IInv, IInv', Clear
  PROVE  Empties
  <1>1. occ' = {} /\ outside' = outside \cup {Read(p) : p \in live}
    BY DEF Clear
  <1>2. {Read(p) : p \in live} = {Get(j) : j \in occ}
    <2>1. \A j \in occ : SlotOf(j) \in live /\ Get(j) = Read(SlotOf(j))
      BY PresentIsElement DEF Get
    <2>2. ASSUME NEW p \in live PROVE \E j \in occ : SlotOf(j) = p
      BY HeaderFacts, EqualRanksCover DEF Header, SlotOf
    <2> QED
      BY <2>1, <2>2
  <1>3. \A j \in Index : Get(j)' = Uninit
    BY <1>1, GetReadsNext DEF Found
  <1> QED
    BY <1>1, <1>2, <1>3 DEF Empties

LEMMA RebuildToIsSame ==
  ASSUME IInv, IInv', NEW c \in Nat, c <= N, RebuildTo(c), outside' = outside
  PROVE  Same
  <1>1. occ' = occ /\ live' \subseteq Phys
    BY HeaderFacts, HeaderFactsNext DEF Header, RebuildTo
  <1>2. \A p \in live' : slots'[p] = Read(Select(live, Rank(live', p)))
    BY <1>1 DEF RebuildTo
  <1> QED
    BY <1>1, <1>2, RankedCopyIsSame

(* The block is emptied or stays empty: every index stays absent. *)
LEMMA EmptyIsSame ==
  ASSUME IInv, IInv', occ = {}, occ' = {}, outside' = outside
  PROVE  Same
  BY GetReads, GetReadsNext DEF Same, Found

LEMMA CountZero == IInv /\ Count = 0 => occ = {}
  BY BlockFacts, FS_EmptySet DEF IInv, IsBitmap, Count

LEMMA ReserveIsSame ==
  ASSUME IInv, IInv', NEW n \in Nat, Reserve(n)
  PROVE  Same
  <1>1. /\ Count \in Nat /\ Count <= cap /\ cap \in Nat /\ outside' = outside
        /\ Pow2CapFor(Count + n) \in Nat /\ Pow2CapFor(Count + n) <= N
    BY BlockFacts, Pow2CapForHolds DEF IInv, Reserve
  <1>2. CASE cap = 0 /\ UNCHANGED occ
    <2>1. occ = {}
      BY <1>1, <1>2, CountZero
    <2> QED
      BY <1>1, <1>2, <2>1, EmptyIsSame
  <1>3. CASE RebuildTo(Pow2CapFor(Count + n))
    BY <1>1, <1>3, RebuildToIsSame
  <1> QED
    BY <1>2, <1>3 DEF Reserve

LEMMA ShrinkToFitIsSame ==
  ASSUME IInv, IInv', ShrinkToFit
  PROVE  Same
  <1>1. /\ Count \in Nat /\ outside' = outside
        /\ Pow2CapFor(Count) \in Nat /\ Pow2CapFor(Count) <= N
    BY BlockFacts, Pow2CapForHolds DEF IInv, ShrinkToFit
  <1>2. CASE Count = 0 /\ UNCHANGED occ
    BY <1>1, <1>2, CountZero, EmptyIsSame
  <1>3. CASE RebuildTo(Pow2CapFor(Count))
    BY <1>1, <1>3, RebuildToIsSame
  <1> QED
    BY <1>2, <1>3 DEF ShrinkToFit

LEMMA ThroughFixedIsSame ==
  ASSUME IInv, IInv', ThroughFixed
  PROVE  Same
  <1>1. occ' = occ /\ outside' = outside /\ live' \subseteq Phys
    BY HeaderFacts, HeaderFactsNext DEF Header, ThroughFixed
  <1>2. \A p \in live' : slots'[p] = Fixed(Select(occ, Rank(live', p)))
    BY <1>1 DEF ThroughFixed
  <1>3. ASSUME NEW p \in live' PROVE slots'[p] = Read(Select(live, Rank(live', p)))
    <2>1. Rank(live', p) \in 0 .. Cardinality(occ) - 1
      BY <1>1, HeaderFactsNext, RankOfMember DEF Header
    <2>2. Rank(occ, Select(occ, Rank(live', p))) = Rank(live', p)
      BY <2>1, HeaderFacts, SelectMember DEF Header
    <2> QED
      BY <1>2, <2>2 DEF Fixed
  <1> QED
    BY <1>1, <1>3, RankedCopyIsSame

Effect ==
  \/ Same
  \/ \E i \in Index, e \in Elem : Puts(i, e)
  \/ \E i \in Index : Gives(i)
  \/ Empties

LEMMA TakesPresent ==
  ASSUME IInv, TakeOnlyChild
  PROVE  Lowest(occ) \in Index /\ Remove(Lowest(occ))
  <1>1. occ # {}
    BY FS_EmptySet DEF TakeOnlyChild, Count
  <1>2. IsBitmap(occ) /\ occ \subseteq Index
    BY HeaderFacts DEF Header
  <1> QED
    BY <1>1, <1>2, LowestMember DEF TakeOnlyChild

LEMMA StepEffect == IInv /\ [Next]_vars => Effect
  <1> SUFFICES ASSUME IInv, [Next]_vars PROVE Effect
    OBVIOUS
  <1>0. IInv'
    BY StepPreserves
  <1>1. ASSUME NEW i \in Index, NEW e \in Elem, Insert(i, e) PROVE Effect
    BY <1>0, <1>1, InsertPuts DEF Effect
  <1>2. ASSUME NEW i \in Index, Remove(i) PROVE Effect
    BY <1>0, <1>2, RemoveGives DEF Effect
  <1>3. CASE TakeOnlyChild
    BY <1>2, <1>3, TakesPresent
  <1>4. ASSUME NEW n \in Requests, Reserve(n) PROVE Effect
    BY <1>0, <1>4, ReserveIsSame, RequestsAssumption DEF Effect
  <1>5. CASE ShrinkToFit
    BY <1>0, <1>5, ShrinkToFitIsSame DEF Effect
  <1>6. CASE Clear
    BY <1>0, <1>6, ClearEmpties DEF Effect
  <1>7. CASE ThroughFixed
    BY <1>0, <1>7, ThroughFixedIsSame DEF Effect
  <1>8. CASE UNCHANGED vars
    <2>1. Same
      BY <1>8 DEF vars, Same, Get, Read, SlotOf
    <2> QED
      BY <2>1 DEF Effect
  <1> QED
    BY <1>1, <1>2, <1>3, <1>4, <1>5, <1>6, <1>7, <1>8 DEF Next

(* The gapped array implements the owned sparse map: through every shift,  *)
(* respread, growth, shrink and conversion, `get` finds at each index the  *)
(* element that was put there, and what is taken out is what was in.       *)
THEOREM Refinement == Spec => RefinesMap
  <1>1. Init => Map!Init
    BY DEF Init, Map!Init, Get
  <1>2. IInv /\ [Next]_vars => [Map!Next]_Map!vars
    <2> SUFFICES ASSUME IInv, Effect PROVE [Map!Next]_Map!vars
      BY StepEffect
    <2>1. CASE Same
      BY <2>1 DEF Same, Map!vars
    <2>2. ASSUME NEW i \in Index, NEW e \in Elem, Puts(i, e) PROVE Map!Insert(i, e)
      BY <2>2 DEF Map!Insert, Puts
    <2>3. ASSUME NEW i \in Index, Gives(i) PROVE Map!Remove(i)
      BY <2>3 DEF Map!Remove, Map!Present, Gives
    <2>4. CASE Empties
      <3>1. occ = {i \in Index : Get(i) # Uninit}
        BY HeaderFacts, GetReads, PresentIsElement DEF Header, Found
      <3>2. Map!Clear
        BY <2>4, <3>1 DEF Map!Clear, Map!Present, Empties
      <3> QED
        BY <3>2 DEF Map!Next
    <2> QED
      BY <2>1, <2>2, <2>3, <2>4 DEF Effect, Map!Next
  <1> QED
    BY <1>1, <1>2, Invariance, PTL DEF RefinesMap, Spec, Map!Spec

-----------------------------------------------------------------------------
(* Deleting.                                                               *)

(* Whatever disappears (remove, take_only_child, clear), every element     *)
(* that remains stays in its slot and the block keeps its capacity.        *)
THEOREM DeletesStayPut == Spec => DeleteNeverMoves
  <1> DEFINE StaysPut == occ' # occ /\ occ' \subseteq occ
                           => cap' = cap /\ \A i \in occ' : SlotOf(i)' = SlotOf(i)
  <1>1. IInv /\ [Next]_vars => [StaysPut]_vars
    <2> SUFFICES ASSUME IInv, Next, occ' # occ, occ' \subseteq occ
                 PROVE  cap' = cap /\ \A i \in occ' : SlotOf(i)' = SlotOf(i)
      OBVIOUS
    <2>0. IInv'
      BY StepPreserves
    <2>1. ASSUME NEW i \in Index, NEW e \in Elem, Insert(i, e) PROVE FALSE
      <3>1. CASE InsertFirst(i, e)
        <4>1. Count = 0
          BY <3>1, BlockFacts DEF IInv, InsertFirst
        <4> QED
          BY <4>1, CountZero
      <3>2. CASE Overwrite(i, e) \/ InsertIntoFull(i, e) \/ InsertWithRoom(i, e)
        BY <3>2 DEF Overwrite, InsertIntoFull, InsertWithRoom, PlaceAbsent, InPlace,
                    RebuildWithInsert
      <3> QED
        BY <2>1, <3>1, <3>2 DEF Insert
    <2>2. ASSUME NEW i \in Index, Remove(i)
          PROVE  cap' = cap /\ \A j \in occ' : SlotOf(j)' = SlotOf(j)
      <3>1. cap' = cap
        BY <2>2 DEF Remove
      <3> QED
        BY <2>0, <2>2, <3>1, RemoveKeepsSlots
    <2>3. CASE TakeOnlyChild
      BY <2>2, <2>3, TakesPresent
    <2>4. CASE Clear
      BY <2>4 DEF Clear
    <2>5. CASE \E n \in Requests : Reserve(n)
      BY <2>5 DEF Reserve, RebuildTo
    <2>6. CASE ShrinkToFit \/ ThroughFixed
      BY <2>6 DEF ShrinkToFit, ThroughFixed, RebuildTo
    <2> QED
      BY <2>1, <2>2, <2>3, <2>4, <2>5, <2>6 DEF Next
  <1> QED
    BY <1>1, Invariance, PTL DEF Spec, DeleteNeverMoves

-----------------------------------------------------------------------------
(* Capacity.                                                               *)

(* pow2_cap_for wastes less than half of the block it sizes. *)
LEMMA Pow2CapForTight ==
  ASSUME NEW n \in Nat \ {0}
  PROVE  n <= N => Pow2CapFor(n) < 2 * n
  <1> SUFFICES ASSUME n <= N PROVE Pow2CapFor(n) < 2 * n
    OBVIOUS
  <1>1. N \in Nat /\ N <= 256
    BY ArityAssumption DEF Powers
  <1>2. CASE n = N
    BY <1>1, <1>2 DEF Pow2CapFor
  <1>3. CASE n < N
    <2>1. /\ Pow2CapFor(n) \in Powers /\ Pow2CapFor(n) >= n
          /\ \A d \in Powers : d >= n => Pow2CapFor(n) <= d
      BY <1>3, Pow2CapForLeast
    <2>2. \A c \in Powers : c \in Nat /\ (c = 1 \/ \E d \in Powers : c = 2 * d)
      BY DEF Powers
    <2> QED
      BY <2>1, <2>2
  <1> QED
    BY <1>1, <1>2, <1>3

(* ... so the block after a full one is twice as large. *)
LEMMA Pow2CapForDoubles ==
  ASSUME NEW c \in Powers, c + 1 <= N
  PROVE  Pow2CapFor(c + 1) = 2 * c
  <1>1. /\ \A a, b \in Powers : a < b => 2 * a <= b
        /\ \A a \in Powers : a \in Nat /\ a # 0 /\ (a # 256 => 2 * a \in Powers)
    BY DEF Powers
  <1>2. N \in Nat /\ N \in Powers /\ N <= 256
    BY ArityAssumption DEF Powers
  <1>3. c < N /\ c \in Nat \ {0} /\ 2 * c \in Powers /\ 2 * c <= N
    BY <1>1, <1>2
  <1>4. CASE c + 1 = N
    <2>1. Pow2CapFor(c + 1) = N
      BY <1>2, <1>3, <1>4 DEF Pow2CapFor
    <2> QED
      BY <1>3, <1>4, <2>1
  <1>5. CASE c + 1 < N
    <2>1. /\ Pow2CapFor(c + 1) \in Powers /\ Pow2CapFor(c + 1) >= c + 1
          /\ \A d \in Powers : d >= c + 1 => Pow2CapFor(c + 1) <= d
      BY <1>3, <1>5, Pow2CapForLeast
    <2>2. 2 * c >= c + 1
      BY <1>3
    <2>3. Pow2CapFor(c + 1) \in Nat /\ c < Pow2CapFor(c + 1)
      <3>1. Pow2CapFor(c + 1) \in Nat
        BY <1>1, <2>1
      <3> QED
        BY <1>3, <2>1, <3>1
    <2>4. 2 * c <= Pow2CapFor(c + 1) /\ Pow2CapFor(c + 1) <= 2 * c
      BY <1>1, <1>3, <2>1, <2>2, <2>3
    <2> QED
      BY <1>3, <2>3, <2>4
  <1> QED
    BY <1>2, <1>3, <1>4, <1>5

(* A capacity changes only to double a full block on insert, to grow on    *)
(* reserve, or to shrink to the least power of two that holds the elements.*)
THEOREM CapacityAsDocumented == Spec => CapacityDiscipline
  <1> DEFINE Grows   == occ' # occ /\ Count = cap /\ cap' = IF cap = 0 THEN 1 ELSE 2 * cap
             Widens  == occ' = occ /\ cap' > cap
             Shrinks == /\ occ' = occ /\ cap' < cap /\ Count <= cap'
                        /\ (cap' < 2 * Count \/ cap' = 0)
             Allowed == cap' # cap => Grows \/ Widens \/ Shrinks
  <1>1. IInv /\ [Next]_vars => [Allowed]_vars
    <2> SUFFICES ASSUME IInv, Next, cap' # cap PROVE Grows \/ Widens \/ Shrinks
      OBVIOUS
    <2>1. /\ Count \in Nat /\ Count <= cap /\ cap \in Nat /\ cap <= N /\ N \in Nat \ {0}
          /\ cap # 0 => cap \in Powers
      BY BlockFacts DEF IInv, TypeOK
    <2>2. ASSUME NEW i \in Index, NEW e \in Elem, Insert(i, e) PROVE Grows
      <3>1. CASE InsertFirst(i, e)
        <4>1. cap = 0 /\ Count = cap /\ cap' = 1
          BY <2>1, <3>1 DEF InsertFirst
        <4>2. occ = {} /\ occ' = {i}
          BY <2>1, <3>1, <4>1, CountZero DEF InsertFirst
        <4> QED
          BY <4>1, <4>2
      <3>2. CASE InsertIntoFull(i, e)
        <4>1. /\ i \in Index \ occ /\ Count = cap /\ cap > 0
              /\ cap' = Pow2CapFor(cap + 1) /\ occ' = occ \cup {i}
          BY <3>2 DEF InsertIntoFull, RebuildWithInsert
        <4>2. cap + 1 <= N
          BY <4>1, AbsentMeansRoom
        <4>3. cap' = 2 * cap
          BY <2>1, <4>1, <4>2, Pow2CapForDoubles
        <4> QED
          BY <4>1, <4>3
      <3>3. CASE Overwrite(i, e) \/ InsertWithRoom(i, e)
        BY <3>3 DEF Overwrite, InsertWithRoom, PlaceAbsent, InPlace, RebuildWithInsert
      <3> QED
        BY <2>2, <3>1, <3>2, <3>3 DEF Insert
    <2>3. CASE \E n \in Requests : Reserve(n)
      BY <2>1, <2>3 DEF Reserve, RebuildTo
    <2>4. Count # 0 => /\ Pow2CapFor(Count) \in Nat /\ Count <= Pow2CapFor(Count)
                       /\ Pow2CapFor(Count) < 2 * Count
      BY <2>1, Pow2CapForHolds, Pow2CapForTight
    <2>5. CASE ShrinkToFit
      BY <2>1, <2>4, <2>5 DEF ShrinkToFit, RebuildTo
    <2>6. CASE ThroughFixed
      <3>1. occ' = occ /\ cap' = Pow2CapFor(Count)
        BY <2>6 DEF ThroughFixed
      <3>2. Count = 0 => cap' = 0
        BY <3>1, Pow2CapForHolds
      <3> QED
        BY <2>1, <2>4, <3>1, <3>2
    <2>7. CASE Clear \/ TakeOnlyChild \/ \E i \in Index : Remove(i)
      BY <2>7 DEF Clear, TakeOnlyChild, Remove
    <2> QED
      BY <2>2, <2>3, <2>5, <2>6, <2>7 DEF Next
  <1> QED
    BY <1>1, Invariance, PTL DEF Spec, CapacityDiscipline

-----------------------------------------------------------------------------
(* How many elements an insert moves.                                      *)

(* Old elements that a layout leaves where they are keep their rank in it, *)
(* one higher above the new index.                                         *)
Stays(L, i, j) == Select(L, Rank(occ \cup {i}, j)) = SlotOf(j)

LEMMA IndexRanks ==
  ASSUME IInv, NEW i \in Index \ occ, NEW j \in occ
  PROVE  /\ SlotOf(j) \in live /\ SlotOf(j) \in 0 .. cap - 1
         /\ i \in Int /\ j \in Int /\ (j < i \/ i < j)
         /\ Rank(occ, j) = Rank(live, SlotOf(j)) /\ Rank(occ, j) \in 0 .. Count - 1
         /\ Rank(occ \cup {i}, j) = Rank(occ, j) + (IF i < j THEN 1 ELSE 0)
  <1>1. /\ IsBitmap(occ) /\ IsBitmap(live) /\ Cardinality(live) = Cardinality(occ)
        /\ live \subseteq 0 .. cap - 1
        /\ i \in Nat /\ j \in Nat /\ i \notin occ /\ Count = Cardinality(occ)
    BY HeaderFacts DEF Header, Index, IsBitmap, Count
  <1>2. SlotOf(j) \in live
    BY PresentIsElement
  <1>3. Rank(occ, j) \in 0 .. Cardinality(live) - 1
    BY <1>1, RankOfMember
  <1>4. Rank(live, SlotOf(j)) = Rank(occ, j)
    BY <1>1, <1>3, SelectMember DEF SlotOf
  <1>5. /\ j < i => Rank(occ \cup {i}, j) = Rank(occ, j)
        /\ i < j => Rank(occ \cup {i}, j) = Rank(occ, j) + 1
    BY <1>1, RankOfNew
  <1>6. i \in Int /\ j \in Int /\ (j < i \/ i < j)
    BY <1>1
  <1>7. Rank(occ, j) \in 0 .. Count - 1
    BY <1>1, <1>3
  <1>8. Rank(occ \cup {i}, j) = Rank(occ, j) + (IF i < j THEN 1 ELSE 0)
    BY <1>5, <1>6, <1>7
  <1>9. SlotOf(j) \in 0 .. cap - 1
    BY <1>1, <1>2
  <1> QED
    BY <1>2, <1>4, <1>6, <1>7, <1>8, <1>9

LEMMA LayoutFacts ==
  ASSUME IInv, NEW i \in Index \ occ, NEW L \in Layouts(Count + 1, cap)
  PROVE  /\ IsBitmap(L) /\ L \subseteq 0 .. cap - 1 /\ Cardinality(L) = Count + 1
         /\ Rank(L, 0) = 0 /\ Rank(L, cap) = Count + 1
         /\ \A j \in occ : Stays(L, i, j) =>
              Rank(L, SlotOf(j)) = Rank(live, SlotOf(j)) + (IF i < j THEN 1 ELSE 0)
  <1>1. /\ L \subseteq 0 .. cap - 1 /\ Cardinality(L) = Count + 1
        /\ cap \in Nat /\ Count \in Nat
    BY BlockFacts DEF IInv, Layouts
  <1>2. IsBitmap(L) /\ \A j \in L : ~(j < 0) /\ j < cap
    <2>1. IsFiniteSet(0 .. cap - 1)
      BY <1>1, FS_Interval
    <2>2. IsFiniteSet(L)
      BY <1>1, <2>1, FS_Subset
    <2>3. \A j \in 0 .. cap - 1 : j \in Nat /\ ~(j < 0) /\ j < cap
      BY <1>1
    <2> QED
      BY <1>1, <2>2, <2>3 DEF IsBitmap
  <1>3. Rank(L, 0) = 0
    <2>1. {j \in L : j < 0} = {}
      BY <1>2
    <2> QED
      BY <2>1, FS_EmptySet DEF Rank
  <1>4. Rank(L, cap) = Count + 1
    <2>1. {j \in L : j < cap} = L
      BY <1>2
    <2> QED
      BY <1>1, <2>1 DEF Rank
  <1>5. ASSUME NEW j \in occ, Stays(L, i, j)
        PROVE  Rank(L, SlotOf(j)) = Rank(live, SlotOf(j)) + (IF i < j THEN 1 ELSE 0)
    <2> DEFINE r == Rank(occ \cup {i}, j)
    <2>1. /\ r = Rank(live, SlotOf(j)) + (IF i < j THEN 1 ELSE 0)
          /\ Rank(live, SlotOf(j)) \in 0 .. Count - 1
      BY IndexRanks
    <2>2. r \in 0 .. Cardinality(L) - 1
      BY <1>1, <2>1
    <2> HIDE DEF r
    <2>3. Rank(L, Select(L, r)) = r
      BY <1>2, <2>2, SelectMember
    <2>4. Select(L, r) = SlotOf(j)
      BY <1>5 DEF Stays, r
    <2> QED
      BY <2>1, <2>3, <2>4
  <1> QED
    BY <1>1, <1>2, <1>3, <1>4, <1>5

(* Between two places with live slots all the way no layout finds room for *)
(* one element more.                                                       *)
LEMMA NoSlack ==
  ASSUME IInv, NEW L, IsBitmap(L), NEW p \in Int, NEW q \in Int, p <= q,
         p .. q - 1 \subseteq live
  PROVE  ~(Rank(L, p) = Rank(live, p) /\ Rank(L, q) = Rank(live, q) + 1)
  <1>1. IsBitmap(live)
    BY HeaderFacts DEF Header
  <1>2. Rank(live, q) = Rank(live, p) + (q - p) /\ Rank(L, q) <= Rank(L, p) + (q - p)
    BY <1>1, RankSpan
  <1>3. Rank(live, p) \in Nat
    BY <1>1, RankType
  <1> QED
    BY <1>2, <1>3

(* Distinct elements are in distinct slots, and each slot of a run has     *)
(* one: elements are counted by the slots they are in.                     *)
LEMMA MovesAtMost ==
  ASSUME IInv, NEW M \in SUBSET occ, NEW a \in Int, NEW b \in Int, a <= b + 1,
         \A j \in M : SlotOf(j) \in a .. b
  PROVE  Cardinality(M) <= b - a + 1
  <1> DEFINE f == [j \in M |-> SlotOf(j)]
             T == a .. b
  <1>1. IsFiniteSet(T) /\ Cardinality(T) = b - a + 1
    BY FS_Interval
  <1>2. ASSUME NEW j \in M, NEW k \in M, SlotOf(j) = SlotOf(k) PROVE j = k
    <2>1. j \in Int /\ k \in Int /\ SlotOf(j) \in Int
      BY HeaderFacts DEF Header, Index
    <2>2. ~(j < k) /\ ~(k < j)
      BY <1>2, <2>1, SlotOfIncreases
    <2> QED
      BY <2>1, <2>2
  <1> HIDE DEF T
  <1>3. f \in Injection(M, T)
    BY <1>2 DEF Injection, IsInjective, T
  <1> HIDE DEF f
  <1>4. Cardinality(M) <= Cardinality(T)
    BY <1>1, <1>3, FS_Injection
  <1> QED
    BY <1>1, <1>4

LEMMA MovesAtLeast ==
  ASSUME IInv, NEW M \in SUBSET occ, NEW a \in Int, NEW b \in Int, a <= b + 1,
         a .. b \subseteq live, \A j \in occ : SlotOf(j) \in a .. b => j \in M
  PROVE  Cardinality(M) >= b - a + 1 /\ Cardinality(M) \in Nat
  <1> DEFINE T == a .. b
             K == {j \in M : SlotOf(j) \in T}
             f == [j \in K |-> SlotOf(j)]
  <1>1. IsFiniteSet(T) /\ Cardinality(T) = b - a + 1
    BY FS_Interval
  <1>2. IsFiniteSet(M) /\ IsFiniteSet(K) /\ Cardinality(K) <= Cardinality(M)
    <2>1. IsFiniteSet(M)
      BY HeaderFacts, FS_Subset DEF Header, IsBitmap
    <2> HIDE DEF T
    <2> QED
      BY <2>1, FS_Subset
  <1>3. ASSUME NEW t \in T PROVE \E j \in K : SlotOf(j) = t
    <2>1. PICK j \in occ : SlotOf(j) = t
      BY HeaderFacts, EqualRanksCover DEF Header, SlotOf
    <2> QED
      BY <2>1
  <1> HIDE DEF T
  <1>4. f \in Surjection(K, T)
    BY <1>3 DEF Surjection
  <1> HIDE DEF f, K
  <1>5. Cardinality(T) <= Cardinality(K)
    BY <1>2, <1>4, FS_Surjection
  <1>6. Cardinality(K) \in Nat /\ Cardinality(M) \in Nat
    BY <1>2, FS_CardinalityType
  <1> QED
    BY <1>1, <1>2, <1>5, <1>6

(* An element stays if the hole that fills is on the same side of it as    *)
(* the new index.                                                          *)
LEMMA StaysBeside ==
  ASSUME IInv, NEW i \in Index \ occ, NEW hole \in (0 .. cap - 1) \ live, NEW j \in occ,
         i < j <=> hole < SlotOf(j)
  PROVE  Stays(live \cup {hole}, i, j)
  <1> DEFINE s == SlotOf(j)
             L == live \cup {hole}
  <1>1. /\ s \in live /\ s \in 0 .. cap - 1 /\ Rank(occ, j) = Rank(live, s)
        /\ Rank(occ \cup {i}, j) = Rank(occ, j) + (IF i < j THEN 1 ELSE 0)
        /\ Rank(occ, j) \in 0 .. Count - 1
    BY IndexRanks
  <1>2. IsBitmap(live) /\ hole \in Nat /\ hole \notin live
    BY HeaderFacts DEF Header
  <1> HIDE DEF s
  <1>3. /\ IsBitmap(L)
        /\ hole < s => Rank(L, s) = Rank(live, s) + 1
        /\ s <= hole => Rank(L, s) = Rank(live, s)
    <2>1. s \in Int
      BY <1>1
    <2> QED
      BY <1>2, <2>1, RankWith
  <1>4. Rank(L, s) = Rank(occ \cup {i}, j)
    BY <1>1, <1>2, <1>3 DEF s
  <1>5. s \in L
    BY <1>1
  <1> HIDE DEF L
  <1>6. Select(L, Rank(L, s)) = s
    BY <1>3, <1>5, SelectOfRank
  <1> QED
    BY <1>4, <1>6 DEF Stays, s, L

(* The runs between the new element's place and the nearest hole, or the   *)
(* end of the block, on either side.                                       *)
LeftEnd(i)  == HoleLeft(i) + 1
RightEnd(i) == IF HoleRight(i) = NoBit THEN cap ELSE HoleRight(i)

LEMMA AdjacentRuns ==
  ASSUME IInv, NEW i \in Index \ occ, HoleBetween(i) = NoBit
  PROVE  /\ cap \in Nat /\ PLo(i) \in Int /\ PHi(i) \in Int /\ PLo(i) < PHi(i)
         /\ LeftEnd(i) \in Nat /\ LeftEnd(i) <= PLo(i) + 1
         /\ RightEnd(i) \in Nat /\ PHi(i) <= RightEnd(i) /\ RightEnd(i) <= cap
         /\ LeftEnd(i) .. RightEnd(i) - 1 \subseteq live
  <1> DEFINE lo == PLo(i)
             hi == PHi(i)
             hl == HoleLeft(i)
             hr == HoleRight(i)
  <1>1. /\ cap \in Nat /\ lo \in -1 .. cap - 1 /\ hi \in 0 .. cap /\ lo < hi
    BY NeighbourBounds, HeaderFacts DEF Header
  <1>2. \A p \in lo + 1 .. hi - 1 : p \in live
    BY HoleBetweenFinds
  <1>3. \/ hl = NoBit /\ \A p \in 0 .. lo : p \in live
        \/ hl \in 0 .. lo /\ \A p \in hl + 1 .. lo : p \in live
    BY <1>1, NearestClearBelowFinds DEF HoleLeft
  <1>4. \/ hr = NoBit /\ \A p \in hi .. cap - 1 : p \in live
        \/ hr \in hi .. cap - 1 /\ \A p \in hi .. hr - 1 : p \in live
    BY <1>1, NearestClearInFinds DEF HoleRight
  <1>5. LeftEnd(i) = hl + 1 /\ RightEnd(i) = IF hr = NoBit THEN cap ELSE hr
    BY DEF LeftEnd, RightEnd
  <1> HIDE DEF lo, hi, hl, hr
  <1>6. /\ LeftEnd(i) \in Nat /\ LeftEnd(i) <= lo + 1
        /\ \A p \in LeftEnd(i) .. lo : p \in live
    BY <1>1, <1>3, <1>5 DEF NoBit
  <1>7. /\ RightEnd(i) \in Nat /\ hi <= RightEnd(i) /\ RightEnd(i) <= cap
        /\ \A p \in hi .. RightEnd(i) - 1 : p \in live
    <2>1. CASE hr = NoBit
      BY <1>1, <1>4, <1>5, <2>1 DEF NoBit
    <2>2. CASE hr # NoBit
      BY <1>1, <1>4, <1>5, <2>2
    <2> QED
      BY <2>1, <2>2
  <1>8. ASSUME NEW p \in LeftEnd(i) .. RightEnd(i) - 1 PROVE p \in live
    <2>1. p \in LeftEnd(i) .. lo \/ p \in lo + 1 .. hi - 1 \/ p \in hi .. RightEnd(i) - 1
      BY <1>1, <1>6, <1>7
    <2> QED
      BY <1>2, <1>6, <1>7, <2>1
  <1>9. lo \in Int /\ hi \in Int
    BY <1>1
  <1> QED
    BY <1>1, <1>6, <1>7, <1>8, <1>9 DEF lo, hi

(* In any layout the elements of one of the two runs all move, and there   *)
(* is a hole for them to move into.                                        *)
LEMMA OneRunMoves ==
  ASSUME IInv, NEW i \in Index \ occ, HoleBetween(i) = NoBit,
         NEW L \in Layouts(Count + 1, cap)
  PROVE  /\ \A j \in occ : Stays(L, i, j) /\ SlotOf(j) \in LeftEnd(i) .. PLo(i)
              => HoleRight(i) # NoBit
         /\ \A k \in occ : Stays(L, i, k) /\ SlotOf(k) \in PHi(i) .. RightEnd(i) - 1
              => HoleLeft(i) # NoBit
         /\ \A j, k \in occ : ~ /\ Stays(L, i, j) /\ SlotOf(j) \in LeftEnd(i) .. PLo(i)
                                /\ Stays(L, i, k) /\ SlotOf(k) \in PHi(i) .. RightEnd(i) - 1
  <1> DEFINE a == LeftEnd(i)
             b == RightEnd(i)
  <1>1. /\ cap \in Nat /\ PLo(i) \in Int /\ PHi(i) \in Int /\ PLo(i) < PHi(i)
        /\ a \in Nat /\ a <= PLo(i) + 1
        /\ b \in Nat /\ PHi(i) <= b /\ b <= cap
        /\ a .. b - 1 \subseteq live
    BY AdjacentRuns
  <1>2. /\ IsBitmap(L) /\ Rank(L, 0) = 0 /\ Rank(L, cap) = Count + 1
        /\ \A j \in occ : Stays(L, i, j) =>
             Rank(L, SlotOf(j)) = Rank(live, SlotOf(j)) + (IF i < j THEN 1 ELSE 0)
    BY LayoutFacts
  <1>3. Rank(live, 0) = 0 /\ Rank(live, cap) = Count
    <2>1. \A j \in live : ~(j < 0) /\ j < cap
      BY HeaderFacts DEF Header
    <2>2. {j \in live : j < 0} = {} /\ {j \in live : j < cap} = live
      BY <2>1
    <2>3. Cardinality(live) = Count
      BY HeaderFacts DEF Header, Count
    <2> QED
      BY <2>2, <2>3, FS_EmptySet DEF Rank
  <1>4. ASSUME NEW j \in occ, Stays(L, i, j), SlotOf(j) \in a .. PLo(i)
        PROVE  Rank(L, SlotOf(j)) = Rank(live, SlotOf(j)) /\ Rank(live, SlotOf(j)) \in Nat
    <2>0. /\ i \in Int /\ j \in Int /\ SlotOf(j) \in 0 .. cap - 1
          /\ Rank(live, SlotOf(j)) \in 0 .. Count - 1 /\ (j < i \/ i < j)
      BY IndexRanks
    <2>1. /\ i \in Int /\ j \in Int /\ SlotOf(j) \in Int
          /\ Rank(live, SlotOf(j)) \in Nat /\ (j < i \/ i < j)
      BY <2>0
    <2>2. ~(i < j)
      BY <1>1, <1>4, <2>1, NeighbourSides
    <2> QED
      BY <1>2, <1>4, <2>1, <2>2
  <1>5. ASSUME NEW k \in occ, Stays(L, i, k), SlotOf(k) \in PHi(i) .. b - 1
        PROVE  Rank(L, SlotOf(k)) = Rank(live, SlotOf(k)) + 1
    <2>0. /\ i \in Int /\ k \in Int /\ SlotOf(k) \in 0 .. cap - 1
          /\ Rank(live, SlotOf(k)) \in 0 .. Count - 1 /\ (k < i \/ i < k)
      BY IndexRanks
    <2>1. /\ i \in Int /\ k \in Int /\ SlotOf(k) \in Int
          /\ Rank(live, SlotOf(k)) \in Nat /\ (k < i \/ i < k)
      BY <2>0
    <2>2. i < k
      BY <1>1, <1>5, <2>1, NeighbourSides
    <2> QED
      BY <1>2, <1>5, <2>1, <2>2
  <1> HIDE DEF a, b
  <1>6. ASSUME NEW j \in occ, Stays(L, i, j), SlotOf(j) \in a .. PLo(i), b = cap
        PROVE  FALSE
    <2> DEFINE p == SlotOf(j)
    <2>1. p \in Int /\ p <= cap /\ p .. cap - 1 \subseteq live /\ cap \in Int
      BY <1>1, <1>6
    <2>2. Rank(L, p) = Rank(live, p)
      BY <1>4, <1>6
    <2> HIDE DEF p
    <2>3. ~(Rank(L, p) = Rank(live, p) /\ Rank(L, cap) = Rank(live, cap) + 1)
      BY <1>2, <2>1, NoSlack
    <2> QED
      BY <1>2, <1>3, <2>2, <2>3
  <1>7. ASSUME NEW k \in occ, Stays(L, i, k), SlotOf(k) \in PHi(i) .. b - 1, a = 0
        PROVE  FALSE
    <2> DEFINE q == SlotOf(k)
    <2>1. q \in Int /\ 0 <= q /\ 0 .. q - 1 \subseteq live
      BY <1>1, <1>7
    <2>2. Rank(L, q) = Rank(live, q) + 1
      BY <1>5, <1>7
    <2> HIDE DEF q
    <2>3. ~(Rank(L, 0) = Rank(live, 0) /\ Rank(L, q) = Rank(live, q) + 1)
      BY <1>2, <2>1, NoSlack
    <2> QED
      BY <1>2, <1>3, <2>2, <2>3
  <1>8. ASSUME NEW j \in occ, Stays(L, i, j), SlotOf(j) \in a .. PLo(i),
               NEW k \in occ, Stays(L, i, k), SlotOf(k) \in PHi(i) .. b - 1
        PROVE  FALSE
    <2> DEFINE p == SlotOf(j)
               q == SlotOf(k)
    <2>1. p \in Int /\ q \in Int /\ p <= q /\ p .. q - 1 \subseteq live
      BY <1>1, <1>8
    <2>2. Rank(L, p) = Rank(live, p) /\ Rank(L, q) = Rank(live, q) + 1
      BY <1>4, <1>5, <1>8
    <2> HIDE DEF p, q
    <2> QED
      BY <1>2, <2>1, <2>2, NoSlack
  <1>9. (HoleRight(i) = NoBit => b = cap) /\ (HoleLeft(i) = NoBit => a = 0)
    BY DEF LeftEnd, RightEnd, NoBit, a, b
  <1> QED
    BY <1>6, <1>7, <1>8, <1>9 DEF a, b

(* What moves in the three placements of place_absent.                     *)
LEMMA Placed ==
  ASSUME IInv, NEW i \in Index \ occ, NEW e \in Elem, Count < cap, PlaceAbsent(i, e)
  PROVE  /\ occ' = occ \cup {i}
         /\ \/ /\ Strategy(i) = "hole"
               /\ \A j \in occ : Stays(live', i, j)
            \/ /\ Strategy(i) = "left" /\ HoleBetween(i) = NoBit /\ HoleLeft(i) # NoBit
               /\ \A j \in occ : ~Stays(live', i, j) => SlotOf(j) \in LeftEnd(i) .. PLo(i)
            \/ /\ Strategy(i) = "right" /\ HoleBetween(i) = NoBit /\ HoleRight(i) # NoBit
               /\ \A j \in occ : ~Stays(live', i, j) => SlotOf(j) \in PHi(i) .. RightEnd(i) - 1
  <1>1. /\ cap \in Nat /\ PLo(i) \in -1 .. cap - 1 /\ PHi(i) \in 0 .. cap /\ PLo(i) < PHi(i)
        /\ N \in Nat /\ cap <= N /\ Count \in Nat
    BY NeighbourBounds, BlockFacts DEF IInv
  <1>2. \A j \in occ : /\ i \in Int /\ j \in Int /\ (j < i \/ i < j)
                       /\ SlotOf(j) \in live /\ SlotOf(j) \in 0 .. cap - 1
                       /\ j < i => SlotOf(j) <= PLo(i)
                       /\ i < j => PHi(i) <= SlotOf(j)
    BY IndexRanks, NeighbourSides
  <1>3. CASE Strategy(i) = "hole"
    <2> DEFINE h == HoleBetween(i)
    <2>1. occ' = occ \cup {i} /\ live' = live \cup {h} /\ h \in (0 .. cap - 1) \ live
      BY <1>3, HolePlan DEF PlaceAbsent, InPlace
    <2>2. h \in PLo(i) + 1 .. PHi(i) - 1
      BY <1>3, HoleBetweenFinds DEF Strategy
    <2> HIDE DEF h
    <2>3. ASSUME NEW j \in occ PROVE Stays(live', i, j)
      <3>1. i < j <=> h < SlotOf(j)
        BY <1>1, <1>2, <2>2
      <3> QED
        BY <2>1, <3>1, StaysBeside
    <2> QED
      BY <1>3, <2>1, <2>3
  <1>4. CASE Strategy(i) = "left"
    <2> DEFINE h == HoleLeft(i)
    <2>1. /\ occ' = occ \cup {i} /\ live' = live \cup {h} /\ h \in (0 .. cap - 1) \ live
          /\ PHi(i) \in h + 1 .. cap
      BY <1>4, LeftPlan DEF PlaceAbsent, InPlace
    <2>2. HoleBetween(i) = NoBit
      BY <1>4 DEF Strategy
    <2>3. h # NoBit /\ LeftEnd(i) = h + 1
      BY <2>1 DEF NoBit, LeftEnd
    <2> HIDE DEF h
    <2>4. ASSUME NEW j \in occ, ~Stays(live', i, j) PROVE SlotOf(j) \in LeftEnd(i) .. PLo(i)
      <3>1. ~(i < j <=> h < SlotOf(j))
        BY <2>1, <2>4, StaysBeside
      <3> QED
        BY <1>1, <1>2, <2>1, <2>3, <3>1
    <2> QED
      BY <1>4, <2>1, <2>2, <2>3, <2>4 DEF h
  <1>5. CASE Strategy(i) = "right"
    <2> DEFINE h == HoleRight(i)
    <2>1. /\ occ' = occ \cup {i} /\ live' = live \cup {h} /\ h \in (0 .. cap - 1) \ live
          /\ PHi(i) \in 0 .. h
      BY <1>5, RightPlan DEF PlaceAbsent, InPlace
    <2>2. HoleBetween(i) = NoBit
      BY <1>5 DEF Strategy
    <2>3. h # NoBit /\ RightEnd(i) = h
      BY <2>1 DEF NoBit, RightEnd
    <2> HIDE DEF h
    <2>4. ASSUME NEW j \in occ, ~Stays(live', i, j) PROVE SlotOf(j) \in PHi(i) .. RightEnd(i) - 1
      <3>1. ~(i < j <=> h < SlotOf(j))
        BY <2>1, <2>4, StaysBeside
      <3> QED
        BY <1>1, <1>2, <2>1, <2>3, <3>1
    <2> QED
      BY <1>5, <2>1, <2>2, <2>3, <2>4 DEF h
  <1>6. Strategy(i) \in {"hole", "left", "right"}
    BY RoomMeansNoRespread DEF Strategy
  <1> QED
    BY <1>3, <1>4, <1>5, <1>6

LEMMA PlacedMovesFewest ==
  ASSUME IInv, NEW i \in Index \ occ, NEW e \in Elem, Count < cap, PlaceAbsent(i, e),
         NEW L \in Layouts(Count + 1, cap)
  PROVE  Cardinality(MovesTo(L, occ')) >= Cardinality(MovesTo(live', occ'))
  <1> DEFINE M == {j \in occ : ~Stays(L, i, j)}
             K == {j \in occ : ~Stays(live', i, j)}
             m == Cardinality(M)
             k == Cardinality(K)
  <1>1. occ' = occ \cup {i}
    BY Placed
  <1>2. MovesTo(L, occ') = M /\ MovesTo(live', occ') = K
    BY <1>1 DEF MovesTo, Stays
  <1>3. M \in SUBSET occ /\ K \in SUBSET occ /\ m \in Nat
    <2>1. IsFiniteSet(M)
      BY HeaderFacts, FS_Subset DEF Header, IsBitmap
    <2> HIDE DEF M
    <2> QED
      BY <2>1, FS_CardinalityType DEF M
  <1>4. CASE Strategy(i) = "hole"
    <2>1. K = {}
      BY <1>4, Placed
    <2>2. k = 0
      BY <2>1, FS_EmptySet
    <2> HIDE DEF m, k
    <2> QED
      BY <1>2, <1>3, <2>2 DEF m, k
  <1> DEFINE a == LeftEnd(i)
             b == RightEnd(i)
             lo == PLo(i)
             hi == PHi(i)
  <1>5. ASSUME HoleBetween(i) = NoBit
        PROVE  /\ cap \in Nat /\ lo \in Int /\ hi \in Int /\ lo < hi
               /\ a \in Nat /\ a <= lo + 1 /\ b \in Nat /\ hi <= b /\ b <= cap
               /\ a .. lo \subseteq live /\ hi .. b - 1 \subseteq live
    <2>1. /\ cap \in Nat /\ lo \in Int /\ hi \in Int /\ lo < hi
          /\ a \in Nat /\ a <= lo + 1 /\ b \in Nat /\ hi <= b /\ b <= cap
          /\ a .. b - 1 \subseteq live
      BY <1>5, AdjacentRuns
    <2> HIDE DEF a, b, lo, hi
    <2>2. a .. lo \subseteq a .. b - 1 /\ hi .. b - 1 \subseteq a .. b - 1
      BY <2>1
    <2> QED
      BY <2>1, <2>2
  <1>6. /\ N \in Nat /\ cap \in Nat /\ cap <= N /\ Count \in Nat /\ Count <= N
    BY BlockFacts DEF IInv
  <1>7. /\ HoleLeft(i) # NoBit => LeftCost(i) = lo - a + 1
        /\ HoleRight(i) # NoBit => RightCost(i) = b - hi
    <2>1. HoleLeft(i) # NoBit => LeftCost(i) = PLo(i) - HoleLeft(i)
      BY DEF LeftCost
    <2>2. HoleRight(i) # NoBit => RightCost(i) = HoleRight(i) - PHi(i)
      BY DEF RightCost
    <2>3. a = HoleLeft(i) + 1 /\ (HoleRight(i) # NoBit => b = HoleRight(i))
      BY DEF LeftEnd, RightEnd
    <2>4. PLo(i) \in Int /\ HoleLeft(i) \in Int
      BY NeighbourBounds, NearestClearBelowFinds, <1>6 DEF HoleLeft, NoBit
    <2> QED
      BY <2>1, <2>2, <2>3, <2>4
  <1>8. ASSUME HoleBetween(i) = NoBit
        PROVE  /\ \A j \in occ : j \notin M /\ SlotOf(j) \in a .. lo => HoleRight(i) # NoBit
               /\ \A j \in occ : j \notin M /\ SlotOf(j) \in hi .. b - 1 => HoleLeft(i) # NoBit
               /\ \A x, y \in occ : ~ /\ x \notin M /\ SlotOf(x) \in a .. lo
                                      /\ y \notin M /\ SlotOf(y) \in hi .. b - 1
    BY <1>8, OneRunMoves
  <1> HIDE DEF M, K, a, b, lo, hi
  <1>9. ASSUME HoleBetween(i) = NoBit
        PROVE  /\ (\A j \in occ : SlotOf(j) \in a .. lo => j \in M) => m >= lo - a + 1
               /\ (\A j \in occ : SlotOf(j) \in hi .. b - 1 => j \in M) => m >= b - hi
    <2>1. /\ lo \in Int /\ a \in Int /\ a <= lo + 1 /\ a .. lo \subseteq live
          /\ hi \in Int /\ b - 1 \in Int /\ hi <= (b - 1) + 1 /\ hi .. b - 1 \subseteq live
          /\ (b - 1) - hi + 1 = b - hi
      BY <1>5, <1>9
    <2>2. (\A j \in occ : SlotOf(j) \in a .. lo => j \in M) => m >= lo - a + 1
      BY <1>3, <2>1, MovesAtLeast
    <2>3. (\A j \in occ : SlotOf(j) \in hi .. b - 1 => j \in M) => m >= (b - 1) - hi + 1
      BY <1>3, <2>1, MovesAtLeast
    <2> QED
      BY <2>1, <2>2, <2>3
  <1>10. CASE Strategy(i) = "left"
    <2>1. HoleBetween(i) = NoBit /\ HoleLeft(i) # NoBit /\ \A j \in K : SlotOf(j) \in a .. lo
      BY <1>10, Placed DEF K, a, lo
    <2>2. LeftCost(i) <= RightCost(i)
      BY <1>10 DEF Strategy
    <2>3. lo \in Int /\ a \in Int /\ a <= lo + 1 /\ b \in Int /\ hi \in Int
      BY <1>5, <2>1
    <2>4. k <= lo - a + 1
      BY <1>3, <2>1, <2>3, MovesAtMost
    <2>5. k \in Nat
      BY <1>3, HeaderFacts, FS_Subset, FS_CardinalityType DEF Header, IsBitmap
    <2>6. CASE \A j \in occ : SlotOf(j) \in a .. lo => j \in M
      <3>1. m >= lo - a + 1
        BY <1>9, <2>1, <2>6
      <3> HIDE DEF m, k
      <3> QED
        BY <1>2, <1>3, <2>3, <2>4, <2>5, <3>1 DEF m, k
    <2>7. CASE \E j \in occ : SlotOf(j) \in a .. lo /\ j \notin M
      <3>1. HoleRight(i) # NoBit /\ \A j \in occ : SlotOf(j) \in hi .. b - 1 => j \in M
        BY <1>8, <2>1, <2>7
      <3>2. m >= b - hi
        BY <1>9, <2>1, <3>1
      <3>3. lo - a + 1 <= b - hi
        BY <1>7, <2>1, <2>2, <3>1
      <3> HIDE DEF m, k
      <3>4. m >= k
        BY <1>3, <2>3, <2>4, <2>5, <3>2, <3>3
      <3> QED
        BY <1>2, <3>4 DEF m, k
    <2> QED
      BY <2>6, <2>7
  <1>11. CASE Strategy(i) = "right"
    <2>1. /\ HoleBetween(i) = NoBit /\ HoleRight(i) # NoBit
          /\ \A j \in K : SlotOf(j) \in hi .. b - 1
      BY <1>11, Placed DEF K, hi, b
    <2>2. /\ RightCost(i) <= Count
          /\ ~(LeftCost(i) <= RightCost(i) /\ LeftCost(i) <= Count)
      BY <1>11 DEF Strategy
    <2>3. /\ lo \in Int /\ a \in Int /\ b \in Int /\ hi \in Int /\ b - 1 \in Int
          /\ hi <= (b - 1) + 1 /\ (b - 1) - hi + 1 = b - hi
      BY <1>5, <2>1
    <2>4. k <= (b - 1) - hi + 1
      BY <1>3, <2>1, <2>3, MovesAtMost
    <2>5. k \in Nat
      BY <1>3, HeaderFacts, FS_Subset, FS_CardinalityType DEF Header, IsBitmap
    <2>6. CASE \A j \in occ : SlotOf(j) \in hi .. b - 1 => j \in M
      <3>1. m >= b - hi
        BY <1>9, <2>1, <2>6
      <3> HIDE DEF m, k
      <3>2. m >= k
        BY <1>3, <2>3, <2>4, <2>5, <3>1
      <3> QED
        BY <1>2, <3>2 DEF m, k
    <2>7. CASE \E j \in occ : SlotOf(j) \in hi .. b - 1 /\ j \notin M
      <3>1. HoleLeft(i) # NoBit /\ \A j \in occ : SlotOf(j) \in a .. lo => j \in M
        BY <1>8, <2>1, <2>7
      <3>2. m >= lo - a + 1
        BY <1>9, <2>1, <3>1
      <3>3. b - hi <= lo - a + 1
        BY <1>6, <1>7, <2>1, <2>2, <2>3, <3>1
      <3> HIDE DEF m, k
      <3>4. m >= k
        BY <1>3, <2>3, <2>4, <2>5, <3>2, <3>3
      <3> QED
        BY <1>2, <3>4 DEF m, k
    <2> QED
      BY <2>6, <2>7
  <1>12. Strategy(i) \in {"hole", "left", "right"}
    BY RoomMeansNoRespread DEF Strategy
  <1> QED
    BY <1>4, <1>10, <1>11, <1>12

(* An insert into a block with room moves no more elements than any other  *)
(* arrangement of the block would: place_absent's three strategies, with   *)
(* ties to the left, leave nothing to gain.                                *)
THEOREM InsertsMoveFewest == Spec => InsertMovesFewest
  <1> DEFINE Fewest ==
        occ \subseteq occ' /\ occ' # occ /\ Count < cap
          => \A L \in Layouts(Count + 1, cap) :
               Cardinality(MovesTo(L, occ')) >= Cardinality(MovesTo(live', occ'))
  <1>1. IInv /\ [Next]_vars => [Fewest]_vars
    <2> SUFFICES ASSUME IInv, Next, occ \subseteq occ', occ' # occ, Count < cap,
                        NEW L \in Layouts(Count + 1, cap)
                 PROVE  Cardinality(MovesTo(L, occ')) >= Cardinality(MovesTo(live', occ'))
      OBVIOUS
    <2>1. ASSUME NEW i \in Index, NEW e \in Elem, Insert(i, e)
          PROVE  Cardinality(MovesTo(L, occ')) >= Cardinality(MovesTo(live', occ'))
      <3>1. Count \in Nat /\ cap \in Nat
        BY BlockFacts DEF IInv
      <3>2. ~InsertFirst(i, e) /\ ~Overwrite(i, e) /\ ~InsertIntoFull(i, e)
        BY <3>1 DEF InsertFirst, Overwrite, InsertIntoFull
      <3>3. InsertWithRoom(i, e)
        BY <2>1, <3>2 DEF Insert
      <3> QED
        BY <3>3, PlacedMovesFewest DEF InsertWithRoom
    <2>2. ASSUME NEW i \in Index, Remove(i) PROVE FALSE
      BY <2>2 DEF Remove
    <2>3. CASE TakeOnlyChild
      BY <2>2, <2>3, TakesPresent
    <2>4. CASE Clear
      BY <2>4 DEF Clear
    <2>5. CASE \E n \in Requests : Reserve(n)
      BY <2>5 DEF Reserve, RebuildTo
    <2>6. CASE ShrinkToFit \/ ThroughFixed
      BY <2>6 DEF ShrinkToFit, ThroughFixed, RebuildTo
    <2> QED
      BY <2>1, <2>2, <2>3, <2>4, <2>5, <2>6 DEF Next
  <1> QED
    BY <1>1, Invariance, PTL DEF Spec, InsertMovesFewest

=============================================================================
