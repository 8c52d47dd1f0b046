-------------------------- MODULE PackedArrayProofs --------------------------
(***************************************************************************)
(* A packed array of any arity is dense and owns each of its elements once *)
(* at every point where a call may unwind, and it implements the owned     *)
(* sparse map, failed allocations included (PackedArray).                  *)
(*                                                                         *)
(* The argument is about views: the map from indices to elements that a    *)
(* block stands for.  A block is dense throughout; Fill and Take give the  *)
(* new block the view the call is to end with; everything the properties   *)
(* say of blocks follows from what holds of their views.                   *)
(***************************************************************************)
EXTENDS PackedArray, BitmapTheorems

-----------------------------------------------------------------------------
(* Blocks and their views.                                                 *)

Dense(b) ==
  /\ b.size = Cardinality(b.bits)
  /\ \A r \in Index : b.data[r] # Uninit <=> r < b.size

ViewAt(b, i) ==
  IF i \in b.bits /\ Rank(b.bits, i) < b.size THEN b.data[Rank(b.bits, i)] ELSE Uninit

View(b) == [i \in Index |-> ViewAt(b, i)]

Once(f) == \A i, j \in Index : f[i] = f[j] /\ f[i] # Uninit => i = j

LEMMA IndexBits ==
  ASSUME NEW S \in SUBSET Index
  PROVE  /\ IsFiniteSet(S) /\ IsBitmap(S)
         /\ Cardinality(S) \in 0 .. N
         /\ (Cardinality(S) = 0) <=> (S = {})
  <1>1. IsFiniteSet(Index) /\ Cardinality(Index) = N
    BY ArityAssumption, FS_Interval DEF Index
  <1>2. IsFiniteSet(S) /\ Cardinality(S) <= N
    BY <1>1, FS_Subset
  <1>3. Cardinality(S) \in Nat
    BY <1>2, FS_CardinalityType
  <1>4. (Cardinality(S) = 0) <=> (S = {})
    BY <1>2, FS_EmptySet
  <1>5. Cardinality(S) \in 0 .. N
    BY <1>2, <1>3, ArityAssumption
  <1>6. S \subseteq Nat
    BY DEF Index
  <1> QED
    BY <1>2, <1>4, <1>5, <1>6 DEF IsBitmap

LEMMA DenseView ==
  ASSUME NEW b \in Blocks, Dense(b)
  PROVE  /\ \A i \in b.bits : /\ Rank(b.bits, i) \in Index /\ Rank(b.bits, i) < b.size
                              /\ View(b)[i] = b.data[Rank(b.bits, i)]
                              /\ View(b)[i] \in Elem
         /\ \A i \in Index \ b.bits : View(b)[i] = Uninit
         /\ \A r \in 0 .. b.size - 1 : \E i \in b.bits : Rank(b.bits, i) = r
  <1>1. /\ b.bits \in SUBSET Index /\ IsBitmap(b.bits)
        /\ b.size = Cardinality(b.bits) /\ b.size \in 0 .. N
        /\ b.data \in [Index -> Elem \cup {Uninit}]
    BY IndexBits DEF Blocks, Dense
  <1>2. ASSUME NEW i \in b.bits
        PROVE  /\ Rank(b.bits, i) \in Index /\ Rank(b.bits, i) < b.size
               /\ View(b)[i] = b.data[Rank(b.bits, i)]
               /\ View(b)[i] \in Elem
    <2>1. Rank(b.bits, i) \in 0 .. b.size - 1
      BY <1>1, RankOfMember
    <2>2. Rank(b.bits, i) \in Index /\ Rank(b.bits, i) < b.size /\ i \in Index
      BY <1>1, <2>1, ArityAssumption DEF Index
    <2>3. View(b)[i] = b.data[Rank(b.bits, i)]
      BY <2>2 DEF View, ViewAt
    <2> QED
      BY <1>1, <2>2, <2>3 DEF Dense
  <1>3. \A i \in Index \ b.bits : View(b)[i] = Uninit
    BY DEF View, ViewAt
  <1>4. \A r \in 0 .. b.size - 1 : \E i \in b.bits : Rank(b.bits, i) = r
    BY <1>1, SelectMember
  <1> QED
    BY <1>2, <1>3, <1>4

(* The view of a dense block holds what the block holds, and repeats an    *)
(* element exactly when the block does.                                    *)
LEMMA ViewContents ==
  ASSUME NEW b \in Blocks, Dense(b)
  PROVE  /\ Contents(View(b)) = Contents(b.data)
         /\ Contents(b.data) \in SUBSET Elem
         /\ View(b) \in [Index -> Elem \cup {Uninit}]
         /\ Once(View(b)) <=> Once(b.data)
  <1>1. /\ b.bits \in SUBSET Index /\ IsBitmap(b.bits)
        /\ b.size \in 0 .. N /\ b.data \in [Index -> Elem \cup {Uninit}]
    BY IndexBits DEF Blocks, Dense
  <1>2. /\ \A i \in b.bits : /\ Rank(b.bits, i) \in Index /\ Rank(b.bits, i) < b.size
                             /\ View(b)[i] = b.data[Rank(b.bits, i)]
                             /\ View(b)[i] \in Elem
        /\ \A i \in Index \ b.bits : View(b)[i] = Uninit
    BY DenseView
  <1>3. \A r \in Index : b.data[r] # Uninit => \E i \in b.bits : Rank(b.bits, i) = r
    BY <1>1, DenseView DEF Dense, Index
  <1>4. Contents(View(b)) = Contents(b.data)
    <2>1. ASSUME NEW i \in Index, View(b)[i] # Uninit
          PROVE  \E r \in Index : b.data[r] = View(b)[i]
      BY <1>2, <2>1
    <2>2. ASSUME NEW r \in Index, b.data[r] # Uninit
          PROVE  \E i \in Index : View(b)[i] = b.data[r]
      BY <1>1, <1>2, <1>3, <2>2
    <2> QED
      BY <2>1, <2>2 DEF Contents
  <1>5. Once(View(b)) <=> Once(b.data)
    <2>1. \A i, j \in b.bits : Rank(b.bits, i) = Rank(b.bits, j) => i = j
      BY <1>1, RankOrders
    <2>2. ASSUME Once(b.data), NEW i \in Index, NEW j \in Index,
                 View(b)[i] = View(b)[j], View(b)[i] # Uninit
          PROVE  i = j
      <3>1. i \in b.bits /\ j \in b.bits
        BY <1>2, <2>2
      <3> QED
        BY <1>2, <2>1, <2>2, <3>1 DEF Once
    <2>3. ASSUME Once(View(b)), NEW r \in Index, NEW s \in Index,
                 b.data[r] = b.data[s], b.data[r] # Uninit
          PROVE  r = s
      <3>1. PICK i \in b.bits : Rank(b.bits, i) = r
        BY <1>3, <2>3
      <3>2. PICK j \in b.bits : Rank(b.bits, j) = s
        BY <1>3, <2>3
      <3>3. View(b)[i] = View(b)[j] /\ View(b)[i] # Uninit /\ i \in Index /\ j \in Index
        BY <1>1, <1>2, <2>3, <3>1, <3>2
      <3> QED
        BY <2>3, <3>1, <3>2, <3>3 DEF Once
    <2> QED
      BY <2>2, <2>3 DEF Once
  <1>6. View(b) \in [Index -> Elem \cup {Uninit}]
    <2>1. \A i \in Index : ViewAt(b, i) \in Elem \cup {Uninit}
      BY <1>2 DEF View
    <2> QED
      BY <2>1 DEF View
  <1> QED
    BY <1>1, <1>4, <1>5, <1>6 DEF Contents

LEMMA EmptyBlock ==
  /\ NoBlock \in Blocks /\ Dense(NoBlock)
  /\ View(NoBlock) = Vacant
  /\ Vacant \in [Index -> Elem \cup {Uninit}] /\ Contents(Vacant) = {} /\ Once(Vacant)
  <1>1. Cardinality({}) = 0
    BY FS_EmptySet
  <1>2. NoBlock \in Blocks /\ Dense(NoBlock)
    BY <1>1, ArityAssumption DEF NoBlock, Blocks, Dense, Vacant, Index
  <1> QED
    BY <1>2 DEF View, ViewAt, NoBlock, Vacant, Contents, Once

-----------------------------------------------------------------------------
(* What the operations do to a block is what they mean for its view.       *)

LEMMA WriteInPlace ==
  ASSUME NEW b \in Blocks, Dense(b), NEW i \in b.bits, NEW e \in Elem
  PROVE  LET nb == [b EXCEPT !.data[Rank(b.bits, i)] = e]
         IN  nb \in Blocks /\ Dense(nb) /\ View(nb) = [View(b) EXCEPT ![i] = e]
  <1> DEFINE q == Rank(b.bits, i)
             nb == [b EXCEPT !.data[q] = e]
  <1>1. /\ b.bits \in SUBSET Index /\ IsBitmap(b.bits)
        /\ b.size \in 0 .. N /\ b.data \in [Index -> Elem \cup {Uninit}]
    BY IndexBits DEF Blocks, Dense
  <1>2. /\ \A j \in b.bits : /\ Rank(b.bits, j) \in Index /\ Rank(b.bits, j) < b.size
                             /\ View(b)[j] = b.data[Rank(b.bits, j)]
        /\ \A j \in Index \ b.bits : View(b)[j] = Uninit
    BY DenseView
  <1>3. \A j \in b.bits : Rank(b.bits, j) = q <=> j = i
    BY <1>1, RankOrders
  <1>4. q \in Index /\ q < b.size
    BY <1>2
  <1> HIDE DEF q
  <1>5. /\ nb.size = b.size /\ nb.bits = b.bits /\ nb.data = [b.data EXCEPT ![q] = e]
        /\ nb \in Blocks
    BY <1>1, <1>4 DEF Blocks
  <1> HIDE DEF nb
  <1>6. Dense(nb)
    BY <1>1, <1>4, <1>5, UninitAssumption DEF Dense
  <1>7. \A j \in Index : View(nb)[j] = IF j = i THEN e ELSE View(b)[j]
    BY <1>1, <1>2, <1>3, <1>4, <1>5 DEF View, ViewAt
  <1>8. View(nb) = [View(b) EXCEPT ![i] = e]
    BY <1>1, <1>7 DEF View
  <1> QED
    BY <1>5, <1>6, <1>8 DEF q, nb

(* Fill: the elements above the new one's rank are one slot further up.    *)
Opened(b, a, e) ==
  [AllocBlock(b.bits \cup {a}, Cardinality(b.bits) + 1) EXCEPT !.data =
     [r \in Index |-> IF r < Rank(b.bits, a) THEN b.data[r]
                      ELSE IF r = Rank(b.bits, a) THEN e
                      ELSE IF r < Cardinality(b.bits) + 1 THEN b.data[r - 1]
                      ELSE Uninit]]

LEMMA GapOpened ==
  ASSUME NEW b \in Blocks, Dense(b), NEW a \in Index \ b.bits, NEW e \in Elem
  PROVE  /\ Opened(b, a, e) \in Blocks /\ Dense(Opened(b, a, e))
         /\ View(Opened(b, a, e)) = [View(b) EXCEPT ![a] = e]
  <1> DEFINE nb == Opened(b, a, e)
             S == b.bits
             n == Cardinality(b.bits)
             q == Rank(b.bits, a)
  <1>a. S \in SUBSET Index /\ IsBitmap(S) /\ a \in Nat \ S /\ a \in Index /\ Index \subseteq Nat
    BY IndexBits DEF Blocks, Index
  <1>1. /\ b.data \in [Index -> Elem \cup {Uninit}]
        /\ b.size = n /\ n \in 0 .. N
        /\ \A r \in Index : b.data[r] # Uninit <=> r < n
    BY IndexBits DEF Blocks, Dense
  <1>0. b.bits = S /\ n = Cardinality(S) /\ q = Rank(S, a)
    OBVIOUS
  <1> HIDE DEF S, n, q
  <1>2. Cardinality(S \cup {a}) = n + 1
    BY <1>0, <1>a, RankWith
  <1>3. n + 1 \in 0 .. N
    <2>1. S \cup {a} \in SUBSET Index
      BY <1>a
    <2> QED
      BY <1>2, <2>1, IndexBits
  <1>4. q \in 0 .. n /\ Rank(S \cup {a}, a) = q
    BY <1>0, <1>a, RankOfNew
  <1>5. \A i \in S : /\ Rank(S, i) \in 0 .. n - 1
                     /\ i < a => Rank(S \cup {a}, i) = Rank(S, i) /\ Rank(S, i) < q
                     /\ a < i => Rank(S \cup {a}, i) = Rank(S, i) + 1 /\ q <= Rank(S, i)
    BY <1>0, <1>a, RankOfNew
  <1>6. /\ nb.size = n + 1 /\ nb.bits = S \cup {a}
        /\ nb.data = [r \in Index |-> IF r < q THEN b.data[r]
                                      ELSE IF r = q THEN e
                                      ELSE IF r < n + 1 THEN b.data[r - 1]
                                      ELSE Uninit]
        /\ nb = [size |-> nb.size, bits |-> nb.bits, data |-> nb.data]
    BY <1>0 DEF AllocBlock, Opened
  <1> HIDE DEF nb
  <1>7. /\ nb.data \in [Index -> Elem \cup {Uninit}]
        /\ \A r \in Index : nb.data[r] # Uninit <=> r < n + 1
    <2> SUFFICES ASSUME NEW r \in Index
                 PROVE  /\ nb.data[r] \in Elem \cup {Uninit}
                        /\ nb.data[r] # Uninit <=> r < n + 1
      BY <1>6
    <2>1. CASE r < q
      BY <1>a, <1>1, <1>4, <1>6, <2>1
    <2>2. CASE r = q
      BY <1>a, <1>1, <1>4, <1>6, <2>2, UninitAssumption
    <2>3. CASE q < r /\ r < n + 1
      <3>1. r - 1 \in Index /\ r - 1 < n
        BY <1>a, <1>1, <1>4, <2>3, ArityAssumption DEF Index
      <3> QED
        BY <1>a, <1>1, <1>4, <1>6, <2>3, <3>1
    <2>4. CASE q < r /\ n + 1 <= r
      BY <1>a, <1>1, <1>4, <1>6, <2>4
    <2> QED
      BY <1>a, <1>1, <1>4, <2>1, <2>2, <2>3, <2>4
  <1>8. nb \in Blocks /\ Dense(nb)
    BY <1>0, <1>a, <1>1, <1>2, <1>3, <1>6, <1>7 DEF Blocks, Dense
  <1>9. \A i \in Index : View(nb)[i] = IF i = a THEN e ELSE View(b)[i]
    <2> SUFFICES ASSUME NEW i \in Index PROVE ViewAt(nb, i) = IF i = a THEN e ELSE ViewAt(b, i)
      BY DEF View
    <2>0. /\ ViewAt(b, i) = IF i \in S /\ Rank(S, i) < n THEN b.data[Rank(S, i)] ELSE Uninit
          /\ ViewAt(nb, i) = IF i \in S \cup {a} /\ Rank(S \cup {a}, i) < n + 1
                             THEN nb.data[Rank(S \cup {a}, i)] ELSE Uninit
      BY <1>0, <1>a, <1>1, <1>6 DEF ViewAt
    <2>1. CASE i = a
      <3>1. Rank(S \cup {a}, a) = q
        BY <1>4
      <3>2. q < n + 1 /\ q \in Index
        BY <1>a, <1>1, <1>3, <1>4, ArityAssumption DEF Index
      <3> QED
        BY <1>a, <1>1, <1>4, <1>6, <2>0, <2>1, <3>1, <3>2
    <2>2. CASE i # a /\ i \notin S
      BY <2>0, <2>2
    <2>3. CASE i \in S /\ i < a
      <3>0. Rank(S \cup {a}, i) = Rank(S, i) /\ Rank(S, i) < q /\ Rank(S, i) \in 0 .. n - 1
        BY <1>5, <2>3, Zenon
      <3>1. Rank(S, i) < n /\ Rank(S, i) \in Nat
        BY <1>1, <3>0, ArityAssumption
      <3>2. Rank(S, i) \in Index
        BY <1>a, <1>1, <3>1, ArityAssumption DEF Index
      <3>3. nb.data[Rank(S, i)] = b.data[Rank(S, i)]
        BY <1>6, <3>0, <3>1, <3>2
      <3> QED
        BY <1>a, <1>1, <2>0, <2>3, <3>0, <3>1, <3>3
    <2>4. CASE i \in S /\ a < i
      <3>0. /\ Rank(S \cup {a}, i) = Rank(S, i) + 1
            /\ q <= Rank(S, i) /\ Rank(S, i) \in 0 .. n - 1
        BY <1>5, <2>4, Zenon
      <3>1. Rank(S, i) < n /\ Rank(S, i) \in Nat
        BY <1>1, <3>0, ArityAssumption
      <3>2. Rank(S, i) + 1 \in Index
        BY <1>a, <1>1, <1>3, <3>1, ArityAssumption DEF Index
      <3>3. nb.data[Rank(S, i) + 1] = b.data[Rank(S, i) + 1 - 1]
        BY <1>a, <1>1, <1>4, <1>6, <3>0, <3>1, <3>2
      <3> QED
        BY <1>a, <1>1, <2>0, <2>4, <3>0, <3>1, <3>3
    <2> QED
      BY <1>a, <1>1, <2>1, <2>2, <2>3, <2>4
  <1>10. View(nb) = [View(b) EXCEPT ![a] = e]
    BY <1>9 DEF View
  <1> QED
    BY <1>8, <1>10 DEF nb

(* Take: the elements above the removed one's rank are one slot lower.     *)
Closed(b, a) ==
  [AllocBlock(b.bits \ {a}, Cardinality(b.bits) - 1) EXCEPT !.data =
     [r \in Index |-> IF r < Rank(b.bits, a) THEN b.data[r]
                      ELSE IF r < Cardinality(b.bits) - 1 THEN b.data[r + 1]
                      ELSE Uninit]]

LEMMA GapClosed ==
  ASSUME NEW b \in Blocks, Dense(b), NEW a \in b.bits
  PROVE  /\ Closed(b, a) \in Blocks /\ Dense(Closed(b, a))
         /\ View(Closed(b, a)) = [View(b) EXCEPT ![a] = Uninit]
  <1> DEFINE nb == Closed(b, a)
             S == b.bits \ {a}
             n == Cardinality(b.bits) - 1
             q == Rank(b.bits, a)
  <1>a. /\ S \in SUBSET Index /\ IsBitmap(S) /\ Index \subseteq Nat
        /\ a \in Nat /\ a \notin S /\ a \in Index
    BY IndexBits DEF Blocks, Index
  <1>1. /\ b.data \in [Index -> Elem \cup {Uninit}]
        /\ b.size = n + 1 /\ n + 1 \in 0 .. N
        /\ \A r \in Index : b.data[r] # Uninit <=> r < n + 1
    BY IndexBits DEF Blocks, Dense
  <1>0. /\ b.bits = S \cup {a} /\ q = Rank(S, a) /\ q = Rank(S \cup {a}, a)
        /\ n = Cardinality(S)
    <2>1. b.bits = S \cup {a}
      OBVIOUS
    <2>2. Cardinality(S \cup {a}) = Cardinality(S) + 1 /\ Rank(S \cup {a}, a) = Rank(S, a)
          /\ Cardinality(S) \in Nat
      BY <1>a, RankWith, RankOfNew, IndexBits
    <2> HIDE DEF S
    <2> QED
      BY <2>1, <2>2
  <1> HIDE DEF S, n, q
  <1>2. n \in 0 .. N
    BY <1>0, <1>a, IndexBits
  <1>4. q \in 0 .. n
    BY <1>0, <1>a, RankOfNew
  <1>5. \A i \in S : /\ Rank(S, i) \in 0 .. n - 1
                     /\ i < a => Rank(S \cup {a}, i) = Rank(S, i) /\ Rank(S, i) < q
                     /\ a < i => Rank(S \cup {a}, i) = Rank(S, i) + 1 /\ q <= Rank(S, i)
    BY <1>0, <1>a, RankOfNew
  <1>6. /\ nb.size = n /\ nb.bits = S
        /\ nb.data = [r \in Index |-> IF r < q THEN b.data[r]
                                      ELSE IF r < n THEN b.data[r + 1]
                                      ELSE Uninit]
        /\ nb = [size |-> nb.size, bits |-> nb.bits, data |-> nb.data]
    BY DEF AllocBlock, Closed, S, n, q
  <1> HIDE DEF nb
  <1>7. /\ nb.data \in [Index -> Elem \cup {Uninit}]
        /\ \A r \in Index : nb.data[r] # Uninit <=> r < n
    <2> SUFFICES ASSUME NEW r \in Index
                 PROVE  /\ nb.data[r] \in Elem \cup {Uninit}
                        /\ nb.data[r] # Uninit <=> r < n
      BY <1>6
    <2>1. CASE r < q
      BY <1>a, <1>1, <1>2, <1>4, <1>6, <2>1, ArityAssumption
    <2>2. CASE q <= r /\ r < n
      <3>1. r + 1 \in Index /\ r + 1 < n + 1
        BY <1>a, <1>1, <1>2, <1>4, <2>2, ArityAssumption DEF Index
      <3> QED
        BY <1>a, <1>1, <1>4, <1>6, <2>2, <3>1
    <2>3. CASE q <= r /\ n <= r
      BY <1>a, <1>1, <1>2, <1>4, <1>6, <2>3
    <2> QED
      BY <1>a, <1>2, <1>4, <2>1, <2>2, <2>3, ArityAssumption
  <1>8. nb \in Blocks /\ Dense(nb)
    <2>1. Dense(nb)
      BY <1>0, <1>6, <1>7 DEF Dense
    <2>2. nb \in Blocks
      BY <1>a, <1>2, <1>6, <1>7 DEF Blocks
    <2> QED
      BY <2>1, <2>2
  <1>9. \A i \in Index : View(nb)[i] = IF i = a THEN Uninit ELSE View(b)[i]
    <2> SUFFICES ASSUME NEW i \in Index
                 PROVE  ViewAt(nb, i) = IF i = a THEN Uninit ELSE ViewAt(b, i)
      BY DEF View
    <2>0. /\ ViewAt(nb, i) = IF i \in S /\ Rank(S, i) < n THEN nb.data[Rank(S, i)] ELSE Uninit
          /\ ViewAt(b, i) = IF i \in S \cup {a} /\ Rank(S \cup {a}, i) < n + 1
                            THEN b.data[Rank(S \cup {a}, i)] ELSE Uninit
      <3>1. b.bits = S \cup {a} /\ b.size = n + 1
        BY <1>0, <1>1
      <3> QED
        BY <1>6, <3>1 DEF ViewAt
    <2>1. CASE i = a
      BY <1>a, <2>0, <2>1
    <2>2. CASE i # a /\ i \notin S
      BY <2>0, <2>2
    <2>3. CASE i \in S /\ i < a
      <3>0. Rank(S \cup {a}, i) = Rank(S, i) /\ Rank(S, i) < q /\ Rank(S, i) \in 0 .. n - 1
        BY <1>5, <2>3, Zenon
      <3>1. Rank(S, i) < n /\ Rank(S, i) < n + 1 /\ Rank(S, i) \in Index
        BY <1>1, <1>2, <3>0, ArityAssumption DEF Index
      <3>2. nb.data[Rank(S, i)] = b.data[Rank(S, i)]
        BY <1>6, <3>0, <3>1
      <3> QED
        BY <1>a, <2>0, <2>3, <3>0, <3>1, <3>2
    <2>4. CASE i \in S /\ a < i
      <3>0. /\ Rank(S \cup {a}, i) = Rank(S, i) + 1
            /\ q <= Rank(S, i) /\ Rank(S, i) \in 0 .. n - 1
        BY <1>5, <2>4, Zenon
      <3>1. /\ Rank(S, i) < n /\ Rank(S, i) + 1 < n + 1 /\ Rank(S, i) \in Index
            /\ ~(Rank(S, i) < q)
        BY <1>1, <1>2, <1>4, <3>0, ArityAssumption DEF Index
      <3>2. nb.data[Rank(S, i)] = b.data[Rank(S, i) + 1]
        BY <1>6, <3>0, <3>1
      <3> QED
        BY <1>a, <2>0, <2>4, <3>0, <3>1, <3>2
    <2> QED
      BY <1>a, <2>1, <2>2, <2>3, <2>4
  <1>10. View(nb) = [View(b) EXCEPT ![a] = Uninit]
    BY <1>9 DEF View
  <1> QED
    BY <1>8, <1>10 DEF nb

(* From<FixedArray>: the i-th `Some` in the next dense slot.               *)
Packed(f, S) ==
  [AllocBlock(S, Cardinality(S)) EXCEPT !.data =
     [r \in Index |-> IF r < Cardinality(S) THEN f[Select(S, r)] ELSE Uninit]]

LEMMA PackedView ==
  ASSUME NEW f \in [Index -> Elem \cup {Uninit}],
         NEW S, S = {i \in Index : f[i] # Uninit}
  PROVE  Packed(f, S) \in Blocks /\ Dense(Packed(f, S)) /\ View(Packed(f, S)) = f
  <1> DEFINE nb == Packed(f, S)
             n == Cardinality(S)
  <1>1. S \in SUBSET Index /\ IsBitmap(S) /\ n \in 0 .. N
    BY IndexBits
  <1>2. \A r \in Index : r < n => Select(S, r) \in S
    BY <1>1, SelectMember DEF Index
  <1>3. \A i \in S : Rank(S, i) \in 0 .. n - 1 /\ Select(S, Rank(S, i)) = i
    BY <1>1, RankOfMember, SelectOfRank
  <1>4. /\ nb.size = n /\ nb.bits = S
        /\ nb.data = [r \in Index |-> IF r < n THEN f[Select(S, r)] ELSE Uninit]
        /\ nb = [size |-> nb.size, bits |-> nb.bits, data |-> nb.data]
    <2> DEFINE data == [r \in Index |-> IF r < n THEN f[Select(S, r)] ELSE Uninit]
    <2>1. nb = [AllocBlock(S, n) EXCEPT !.data = data]
      BY DEF Packed
    <2> HIDE DEF nb, n, data
    <2>2. nb.size = n /\ nb.bits = S /\ nb.data = data
          /\ nb = [size |-> nb.size, bits |-> nb.bits, data |-> nb.data]
      BY <2>1 DEF AllocBlock
    <2> QED
      BY <2>2 DEF data
  <1> HIDE DEF n, nb
  <1>5. \A r \in Index : /\ nb.data[r] \in Elem \cup {Uninit}
                         /\ nb.data[r] # Uninit <=> r < n
    BY <1>2, <1>4
  <1>6. nb.data \in [Index -> Elem \cup {Uninit}]
    BY <1>4, <1>5
  <1>7. nb \in Blocks /\ Dense(nb)
    BY <1>1, <1>4, <1>5, <1>6 DEF Blocks, Dense, n
  <1>8. ASSUME NEW i \in Index PROVE ViewAt(nb, i) = f[i]
    <2>1. CASE i \in S
      <3>1. Rank(S, i) < n /\ Rank(S, i) \in Index /\ Select(S, Rank(S, i)) = i
        <4>1. Rank(S, i) \in 0 .. n - 1 /\ Select(S, Rank(S, i)) = i
          BY <1>3, <2>1
        <4> QED
          BY <1>1, <4>1, ArityAssumption DEF Index
      <3> QED
        BY <1>4, <2>1, <3>1 DEF ViewAt
    <2>2. CASE i \notin S
      BY <1>4, <2>2 DEF ViewAt
    <2> QED
      BY <2>1, <2>2
  <1>9. View(nb) = f
    BY <1>8 DEF View
  <1> QED
    BY <1>7, <1>9 DEF nb

-----------------------------------------------------------------------------
(* The inductive invariant.                                                *)

MapOf(s, f, p) == [i \in Index |-> IF p = "staged" THEN f[i] ELSE ViewAt(s, i)]
MapNow == MapOf(self, staged, pc)

OutOf(s, h, o) == o \cup (h \ Contents(s.data))
OutNow == OutOf(self, held, outside)

Owned(m, o) ==
  /\ Once(m)
  /\ Contents(m) \cap o = {}
  /\ Contents(m) \cup o = Elem

(* A new block that is ready stands for the array the call ends with. *)
Ready ==
  /\ Dense(fresh)
  /\ \/ /\ at \notin self.bits
        /\ \E e \in Elem : /\ held = {e} /\ e \notin Contents(View(self))
                           /\ View(fresh) = [View(self) EXCEPT ![at] = e]
     \/ /\ at \in self.bits
        /\ held = {View(self)[at]}
        /\ View(fresh) = [View(self) EXCEPT ![at] = Uninit]

(* How far the running call is. *)
Progress ==
  /\ pc \in {"idle", "remove", "staged", "take"} => held = {}
  /\ IF pc = "staged" THEN self = NoBlock ELSE staged = Vacant
  /\ pc \in {"insert", "fill"} => /\ at \notin self.bits
                                  /\ \E e \in Elem : held = {e} /\ e \notin Contents(View(self))
  /\ pc \in {"remove", "take"} => at \in self.bits
  /\ pc = "fill" => fresh = AllocBlock(self.bits \cup {at}, Count + 1)
  /\ pc = "take" => fresh = AllocBlock(self.bits \ {at}, Count - 1)
  /\ pc = "publish" => Ready

IInv ==
  /\ TypeOK /\ Dense(self)
  /\ Progress
  /\ held \cap outside = {}
  /\ Owned(MapNow, OutNow)

(* What a step may do to the map and to what its caller owns. *)
Puts(i, e) ==
  /\ e \in OutNow
  /\ MapNow' = [MapNow EXCEPT ![i] = e]
  /\ OutNow' = (OutNow \ {e}) \cup ({MapNow[i]} \ {Uninit})
Gives(i) ==
  /\ MapNow[i] # Uninit
  /\ MapNow' = [MapNow EXCEPT ![i] = Uninit]
  /\ OutNow' = OutNow \cup {MapNow[i]}
Empties ==
  /\ MapNow' = Vacant
  /\ OutNow' = OutNow \cup Contents(MapNow)
Moves ==
  \/ UNCHANGED <<MapNow, OutNow>>
  \/ \E i \in Index, e \in Elem : Puts(i, e)
  \/ \E i \in Index : Gives(i)
  \/ Empties

Kept ==
  /\ TypeOK' /\ Dense(self') /\ Progress'
  /\ held' \cap outside' = {}
  /\ Moves

LEMMA MapIs ==
  ASSUME NEW s \in Blocks, NEW f \in [Index -> Elem \cup {Uninit}], NEW p
  PROVE  MapOf(s, f, p) = IF p = "staged" THEN f ELSE View(s)
  BY DEF MapOf, View

LEMMA MapNowIs ==
  ASSUME TypeOK
  PROVE  /\ MapNow = IF pc = "staged" THEN staged ELSE View(self)
         /\ self \in Blocks /\ staged \in [Index -> Elem \cup {Uninit}]
  BY MapIs DEF MapNow, TypeOK

LEMMA MapNowWillBe ==
  ASSUME TypeOK'
  PROVE  /\ MapNow' = IF pc' = "staged" THEN staged' ELSE View(self')
         /\ self' \in Blocks /\ staged' \in [Index -> Elem \cup {Uninit}]
  BY MapIs DEF MapNow, TypeOK

(* What the invariant says of the array between calls and during them.     *)
LEMMA CallFacts ==
  ASSUME IInv
  PROVE  /\ self \in Blocks /\ Dense(self) /\ View(self) \in [Index -> Elem \cup {Uninit}]
         /\ Contents(View(self)) = Contents(self.data) /\ Contents(View(self)) \in SUBSET Elem
         /\ self.bits \in SUBSET Index /\ Count \in 0 .. N
         /\ pc # "staged" => MapNow = View(self) /\ staged = Vacant
         /\ pc = "staged" => MapNow = staged /\ self = NoBlock
         /\ held = {} => OutNow = outside
         /\ \A i \in Index : Get(i) = View(self)[i]
  <1>1. self \in Blocks /\ Dense(self) /\ self.bits \in SUBSET Index
    BY DEF IInv, TypeOK, Blocks
  <1>2. Count \in 0 .. N
    BY <1>1, IndexBits DEF Count
  <1>3. \A i \in Index : Get(i) = View(self)[i]
    BY DEF Get, View, ViewAt
  <1>4. held = {} => OutNow = outside
    BY DEF OutNow, OutOf
  <1>5. MapNow = IF pc = "staged" THEN staged ELSE View(self)
    BY MapNowIs DEF IInv
  <1> QED
    BY <1>1, <1>2, <1>3, <1>4, <1>5, ViewContents DEF IInv, Progress

LEMMA OwnedMoves ==
  ASSUME NEW m \in [Index -> Elem \cup {Uninit}], NEW o \in SUBSET Elem, Owned(m, o)
  PROVE  /\ \A i \in Index : \A e \in o :
              Owned([m EXCEPT ![i] = e], (o \ {e}) \cup ({m[i]} \ {Uninit}))
         /\ \A i \in Index :
              m[i] # Uninit => Owned([m EXCEPT ![i] = Uninit], o \cup {m[i]})
         /\ Owned(Vacant, o \cup Contents(m))
  <1>1. ASSUME NEW i \in Index, NEW e \in o
        PROVE  Owned([m EXCEPT ![i] = e], (o \ {e}) \cup ({m[i]} \ {Uninit}))
    <2> DEFINE f == [m EXCEPT ![i] = e]
    <2>1. f[i] = e /\ e # Uninit /\ \A j \in Index : j # i => f[j] = m[j] /\ m[j] # e
      BY UninitAssumption DEF Owned, Contents
    <2>2. \A j \in Index : j # i /\ m[j] # Uninit => m[j] # m[i]
      BY DEF Owned, Once
    <2> HIDE DEF f
    <2>3. Once(f)
      BY <2>1 DEF Owned, Once
    <2>4. Contents(f) = (Contents(m) \ {m[i]}) \cup {e}
      BY <2>1, <2>2 DEF Contents
    <2>5. m[i] \in Contents(m) \/ m[i] = Uninit
      BY DEF Contents
    <2>6. Uninit \notin Contents(m) /\ Uninit \notin o
      BY UninitAssumption DEF Contents
    <2> QED
      BY <2>3, <2>4, <2>5, <2>6 DEF Owned, f
  <1>2. ASSUME NEW i \in Index, m[i] # Uninit
        PROVE  Owned([m EXCEPT ![i] = Uninit], o \cup {m[i]})
    <2> DEFINE f == [m EXCEPT ![i] = Uninit]
    <2>1. f[i] = Uninit /\ \A j \in Index : j # i => f[j] = m[j]
      OBVIOUS
    <2>2. \A j \in Index : j # i /\ m[j] # Uninit => m[j] # m[i]
      BY DEF Owned, Once
    <2> HIDE DEF f
    <2>3. Once(f)
      BY <2>1 DEF Owned, Once
    <2>4. Contents(f) = Contents(m) \ {m[i]} /\ m[i] \in Contents(m)
      BY <1>2, <2>1, <2>2 DEF Contents
    <2> QED
      BY <2>3, <2>4 DEF Owned, f
  <1>3. Owned(Vacant, o \cup Contents(m))
    BY EmptyBlock DEF Owned
  <1> QED
    BY <1>1, <1>2, <1>3

-----------------------------------------------------------------------------
(* The operations between two calls.                                       *)

LEMMA OverwriteKeeps ==
  ASSUME IInv, NEW i \in Index, NEW e \in Elem, Overwrite(i, e)
  PROVE  Kept
  <1>1. /\ pc = "idle" /\ i \in self.bits /\ e \in outside /\ held = {}
        /\ MapNow = View(self) /\ OutNow = outside /\ Get(i) = View(self)[i]
        /\ self \in Blocks /\ Dense(self) /\ outside \subseteq Elem
    BY CallFacts DEF Overwrite, IInv, Progress, TypeOK
  <1>2. self' \in Blocks /\ Dense(self') /\ View(self') = [View(self) EXCEPT ![i] = e]
        /\ self'.bits = self.bits
    <2>1. self' = [self EXCEPT !.data[Rank(self.bits, i)] = e]
      BY DEF Overwrite
    <2>2. self'.bits = self.bits
      BY <1>1, <2>1 DEF Blocks
    <2> QED
      BY <1>1, <2>1, <2>2, WriteInPlace
  <1>3. View(self)[i] \in Elem
    BY <1>1, DenseView
  <1>4. TypeOK'
    BY <1>1, <1>2, <1>3 DEF Overwrite, IInv, TypeOK
  <1>5. Progress' /\ held' = {}
    BY <1>1 DEF Overwrite, IInv, Progress
  <1>6. OutNow' = outside'
    BY <1>5 DEF OutNow, OutOf
  <1>7. MapNow' = View(self')
    BY <1>1, <1>4, MapNowWillBe DEF Overwrite
  <1>8. Puts(i, e)
    BY <1>1, <1>2, <1>3, <1>6, <1>7, UninitAssumption DEF Overwrite, Puts
  <1> QED
    BY <1>2, <1>4, <1>5, <1>8 DEF Kept, Moves

(* StartInsert, StartRemove, and an allocation that is made or fails: the  *)
(* array and what its caller may expect back are as before.                *)
LEMMA BeginKeeps ==
  ASSUME IInv,
         \/ \E i \in Index, e \in Elem : StartInsert(i, e)
         \/ \E i \in Index : StartRemove(i)
         \/ AllocationFails
  PROVE  Kept
  <1>1. /\ self \in Blocks /\ Dense(self) /\ Contents(View(self)) = Contents(self.data)
        /\ UNCHANGED <<self, fresh, staged>>
        /\ pc # "staged" /\ pc' # "staged" /\ staged = Vacant
        /\ MapNow = View(self)
    BY CallFacts DEF StartInsert, StartRemove, AllocationFails
  <1>2. TypeOK'
    BY <1>1 DEF StartInsert, StartRemove, AllocationFails, IInv, TypeOK, Steps
  <1>3. MapNow' = MapNow
    BY <1>1, <1>2, MapNowWillBe
  <1>4. /\ Progress' /\ held' \cap outside' = {} /\ OutNow' = OutNow
    <2>1. ASSUME NEW i \in Index, NEW e \in Elem, StartInsert(i, e)
          PROVE  Progress' /\ held' \cap outside' = {} /\ OutNow' = OutNow
      <3>1. held = {} /\ OutNow = outside /\ e \in outside
        BY <2>1, CallFacts DEF StartInsert, IInv, Progress
      <3>2. e \notin Contents(View(self))
        BY <1>1, <3>1 DEF IInv, Owned
      <3>3. held' = {e} /\ outside' = outside \ {e}
        BY <2>1 DEF StartInsert
      <3>4. OutNow' = outside
        BY <1>1, <3>1, <3>2, <3>3 DEF OutNow, OutOf
      <3>5. Progress'
        BY <1>1, <2>1, <3>2, <3>3 DEF StartInsert, Progress
      <3> QED
        BY <3>1, <3>3, <3>4, <3>5
    <2>2. ASSUME NEW i \in Index, StartRemove(i)
          PROVE  Progress' /\ held' \cap outside' = {} /\ OutNow' = OutNow
      <3>1. held = {}
        BY <2>2 DEF StartRemove, IInv, Progress
      <3>2. Progress'
        BY <1>1, <2>2, <3>1 DEF StartRemove, Progress
      <3> QED
        BY <1>1, <2>2, <3>1, <3>2 DEF StartRemove, OutNow, OutOf
    <2>3. CASE AllocationFails
      <3>1. held \cap Contents(self.data) = {}
        BY <1>1, <2>3 DEF AllocationFails, IInv, Progress
      <3>2. held' = {} /\ outside' = outside \cup held /\ pc' = "idle"
        BY <2>3 DEF AllocationFails
      <3>3. OutNow' = OutNow
        BY <1>1, <3>1, <3>2 DEF OutNow, OutOf
      <3>4. Progress'
        BY <1>1, <3>2 DEF Progress
      <3> QED
        BY <3>2, <3>3, <3>4
    <2> QED
      BY <2>1, <2>2, <2>3
  <1> QED
    BY <1>1, <1>2, <1>3, <1>4 DEF Kept, Moves

LEMMA AllocateKeeps ==
  ASSUME IInv, Allocate
  PROVE  Kept
  <1>1. /\ self \in Blocks /\ Dense(self) /\ pc \in {"insert", "remove"} /\ pc' \in {"fill", "take"}
        /\ UNCHANGED <<self, staged, at, held, outside>> /\ staged = Vacant
        /\ MapNow = View(self) /\ self.bits \in SUBSET Index /\ at \in Index
    BY CallFacts DEF Allocate, IInv, TypeOK
  <1>2. fresh' \in Blocks
    <2>1. CASE pc = "insert"
      <3>1. at \in Nat /\ at \notin self.bits /\ IsBitmap(self.bits)
            /\ self.bits \cup {at} \in SUBSET Index
        BY <1>1, <2>1, IndexBits DEF IInv, Progress, Index
      <3>2. Count + 1 \in 0 .. N
        <4>1. Cardinality(self.bits \cup {at}) = Count + 1
          BY <3>1, RankWith, at \in Int DEF Count
        <4> QED
          BY <3>1, <4>1, IndexBits
      <3> QED
        BY <2>1, <3>1, <3>2, EmptyBlock DEF Allocate, AllocBlock, Blocks
    <2>2. CASE pc = "remove"
      <3>1. self.bits \ {at} \in SUBSET Index /\ IsFiniteSet(self.bits) /\ at \in self.bits
        BY <1>1, <2>2, IndexBits DEF IInv, Progress
      <3>2. Count - 1 \in 0 .. N
        <4>1. Cardinality(self.bits \ {at}) = Count - 1
          BY <3>1, FS_RemoveElement DEF Count
        <4> QED
          BY <3>1, <4>1, IndexBits
      <3> QED
        BY <2>2, <3>1, <3>2, EmptyBlock DEF Allocate, AllocBlock, Blocks
    <2> QED
      BY <1>1, <2>1, <2>2
  <1>3. TypeOK'
    BY <1>1, <1>2 DEF IInv, TypeOK, Steps
  <1>4. Progress'
    BY <1>1 DEF Allocate, IInv, Progress, Count
  <1>5. MapNow' = MapNow
    BY <1>1, <1>3, MapNowWillBe
  <1> QED
    BY <1>1, <1>3, <1>4, <1>5 DEF Kept, Moves, IInv, OutNow, OutOf

(* Fill and Take make the new block ready.                                 *)
LEMMA FillKeeps ==
  ASSUME IInv, Fill
  PROVE  Kept
  <1>1. /\ self \in Blocks /\ Dense(self) /\ pc = "fill" /\ pc' = "publish"
        /\ UNCHANGED <<self, staged, at, held, outside>> /\ staged = Vacant
        /\ MapNow = View(self) /\ at \in Index \ self.bits
        /\ fresh = AllocBlock(self.bits \cup {at}, Cardinality(self.bits) + 1)
    BY CallFacts DEF Fill, IInv, TypeOK, Progress, Count
  <1>2. PICK e \in Elem : held = {e} /\ e \notin Contents(View(self))
    BY <1>1 DEF IInv, Progress
  <1>3. fresh' \in Blocks /\ Dense(fresh') /\ View(fresh') = [View(self) EXCEPT ![at] = e]
    <2>1. fresh.size = Cardinality(self.bits) + 1
      BY <1>1 DEF AllocBlock
    <2>2. fresh' = Opened(self, at, e)
      BY <1>1, <1>2, <2>1 DEF Fill, Opened
    <2> QED
      BY <1>1, <2>2, GapOpened
  <1>4. TypeOK'
    BY <1>1, <1>3 DEF IInv, TypeOK, Steps
  <1>5. Progress'
    BY <1>1, <1>2, <1>3 DEF Progress, Ready
  <1>6. MapNow' = MapNow
    BY <1>1, <1>4, MapNowWillBe
  <1> QED
    BY <1>1, <1>4, <1>5, <1>6 DEF Kept, Moves, IInv, OutNow, OutOf

LEMMA TakeKeeps ==
  ASSUME IInv, Take
  PROVE  Kept
  <1>1. /\ self \in Blocks /\ Dense(self) /\ pc = "take" /\ pc' = "publish"
        /\ UNCHANGED <<self, staged, at, outside>> /\ staged = Vacant
        /\ MapNow = View(self) /\ OutNow = outside /\ at \in self.bits /\ at \in Index
        /\ fresh = AllocBlock(self.bits \ {at}, Cardinality(self.bits) - 1)
        /\ Contents(View(self)) = Contents(self.data)
    BY CallFacts DEF Take, IInv, TypeOK, Progress, Count
  <1>2. fresh' \in Blocks /\ Dense(fresh') /\ View(fresh') = [View(self) EXCEPT ![at] = Uninit]
    <2>1. fresh.size = Cardinality(self.bits) - 1
      BY <1>1 DEF AllocBlock
    <2>2. fresh' = Closed(self, at)
      BY <1>1, <2>1 DEF Take, Closed
    <2> QED
      BY <1>1, <2>2, GapClosed
  <1>3. held' = {View(self)[at]} /\ View(self)[at] \in Elem
    BY <1>1, DenseView DEF Take
  <1>4. View(self)[at] \in Contents(self.data)
    BY <1>1, <1>3, UninitAssumption DEF Contents
  <1>5. TypeOK'
    BY <1>1, <1>2, <1>3 DEF IInv, TypeOK, Steps
  <1>6. Progress'
    BY <1>1, <1>2, <1>3 DEF Progress, Ready
  <1>7. MapNow' = MapNow
    BY <1>1, <1>5, MapNowWillBe
  <1>8. held' \cap outside' = {} /\ OutNow' = OutNow
    BY <1>1, <1>3, <1>4 DEF IInv, Owned, OutNow, OutOf
  <1> QED
    BY <1>1, <1>5, <1>6, <1>7, <1>8 DEF Kept, Moves, IInv

(* The block is published: an inserted element is in it, a removed one     *)
(* goes to the caller.                                                     *)
LEMMA PublishKeeps ==
  ASSUME IInv, Publish
  PROVE  Kept
  <1>1. /\ self \in Blocks /\ Dense(self) /\ fresh \in Blocks
        /\ View(self) \in [Index -> Elem \cup {Uninit}] /\ at \in Index
        /\ held \subseteq Elem /\ outside \subseteq Elem /\ held \cap outside = {}
        /\ Contents(View(self)) = Contents(self.data)
        /\ pc = "publish" /\ pc' = "idle" /\ self' = fresh /\ held' = {}
        /\ outside' = outside \cup (held \ Contents(fresh.data))
        /\ UNCHANGED <<staged, at>> /\ staged = Vacant
        /\ MapNow = View(self) /\ Ready
    BY CallFacts DEF Publish, IInv, TypeOK, Progress
  <1>2. TypeOK'
    BY <1>1, EmptyBlock DEF Publish, IInv, TypeOK, Steps
  <1>3. Progress' /\ Dense(self')
    BY <1>1 DEF Progress, Ready
  <1>4. MapNow' = View(fresh) /\ Contents(View(fresh)) = Contents(fresh.data)
        /\ OutNow' = outside'
    BY <1>1, <1>2, MapNowWillBe, ViewContents DEF Ready, OutNow, OutOf
  <1>5. Moves
    <2>1. CASE at \notin self.bits
      <3>1. PICK e \in Elem : /\ held = {e} /\ e \notin Contents(View(self))
                              /\ View(fresh) = [View(self) EXCEPT ![at] = e]
        BY <1>1, <2>1 DEF Ready
      <3>2. e \in Contents(fresh.data)
        BY <1>1, <1>4, <3>1, UninitAssumption DEF Contents
      <3>3. outside' = outside /\ OutNow = outside \cup {e} /\ e \notin outside
        BY <1>1, <3>1, <3>2 DEF OutNow, OutOf
      <3>4. MapNow[at] = Uninit
        BY <1>1, <2>1, DenseView
      <3>5. Puts(at, e)
        BY <1>1, <1>4, <3>1, <3>3, <3>4 DEF Puts
      <3> QED
        BY <1>1, <3>5 DEF Moves
    <2>2. CASE at \in self.bits
      <3>1. /\ held = {View(self)[at]}
            /\ View(fresh) = [View(self) EXCEPT ![at] = Uninit]
        BY <1>1, <2>2 DEF Ready
      <3>2. View(self)[at] \in Elem /\ View(self)[at] # Uninit
        BY <1>1, <2>2, DenseView, UninitAssumption
      <3>3. View(self)[at] \in Contents(self.data)
        BY <1>1, <3>2 DEF Contents
      <3>4. Once(View(self))
        BY <1>1 DEF IInv, Owned
      <3>5. View(self)[at] \notin Contents(View(fresh))
        BY <1>1, <3>1, <3>2, <3>4 DEF Contents, Once
      <3>6. OutNow = outside /\ outside' = outside \cup {View(self)[at]}
        BY <1>1, <1>4, <3>1, <3>3, <3>5 DEF OutNow, OutOf
      <3>7. Gives(at)
        BY <1>1, <1>4, <3>1, <3>2, <3>6 DEF Gives
      <3> QED
        BY <1>1, <3>7 DEF Moves
    <2> QED
      BY <2>1, <2>2
  <1> QED
    BY <1>1, <1>2, <1>3, <1>5 DEF Kept

LEMMA RemoveLastKeeps ==
  ASSUME IInv, NEW i \in Index, RemoveLast(i)
  PROVE  Kept
  <1>1. /\ pc = "idle" /\ pc' = "idle" /\ i \in self.bits /\ held = {} /\ held' = {}
        /\ Count = 1 /\ MapNow = View(self) /\ OutNow = outside /\ Get(i) = View(self)[i]
        /\ self \in Blocks /\ Dense(self) /\ self' = NoBlock
        /\ outside' = outside \cup {Get(i)} /\ UNCHANGED <<fresh, staged, at>>
        /\ staged = Vacant
    BY CallFacts DEF RemoveLast, IInv, Progress
  <1>2. View(self)[i] \in Elem /\ View(self)[i] # Uninit
    BY <1>1, DenseView, UninitAssumption
  <1>3. TypeOK' /\ Dense(self')
    BY <1>1, <1>2, EmptyBlock DEF IInv, TypeOK
  <1>4. Progress'
    BY <1>1 DEF Progress
  <1>5. MapNow' = Vacant /\ OutNow' = outside'
    BY <1>1, <1>3, MapNowWillBe, EmptyBlock DEF OutNow, OutOf
  <1>6. self.bits = {i}
    <2>1. IsFiniteSet(self.bits) /\ Cardinality(self.bits) = 1
      BY <1>1, IndexBits DEF Count, Blocks
    <2>2. IsFiniteSet(self.bits \ {i}) /\ Cardinality(self.bits \ {i}) = Cardinality(self.bits) - 1
      BY <1>1, <2>1, FS_RemoveElement
    <2>3. self.bits \ {i} = {}
      BY <2>1, <2>2, FS_EmptySet
    <2> QED
      BY <1>1, <2>3
  <1>7. \A j \in Index : j # i => View(self)[j] = Uninit
    BY <1>1, <1>6, DenseView
  <1>8. [View(self) EXCEPT ![i] = Uninit] = Vacant
    BY <1>7 DEF View, Vacant
  <1>9. Gives(i)
    BY <1>1, <1>2, <1>5, <1>8 DEF Gives
  <1> QED
    BY <1>1, <1>3, <1>4, <1>9 DEF Kept, Moves

-----------------------------------------------------------------------------
(* The conversions.                                                        *)

LEMMA UnpackKeeps ==
  ASSUME IInv, Unpack
  PROVE  Kept
  <1>1. /\ pc = "idle" /\ pc' = "staged" /\ held = {} /\ held' = {}
        /\ MapNow = View(self) /\ OutNow = outside /\ self' = NoBlock
        /\ UNCHANGED <<fresh, at, outside>>
        /\ View(self) \in [Index -> Elem \cup {Uninit}]
        /\ \A i \in Index : Get(i) = View(self)[i]
    BY CallFacts DEF Unpack, IInv, Progress
  <1>2. staged' = View(self)
    BY <1>1 DEF Unpack
  <1>3. TypeOK' /\ Dense(self')
    BY <1>1, <1>2, EmptyBlock DEF IInv, TypeOK, Steps
  <1>4. Progress'
    BY <1>1 DEF Progress
  <1>5. UNCHANGED <<MapNow, OutNow>>
    BY <1>1, <1>2, <1>3, MapNowWillBe DEF OutNow, OutOf
  <1> QED
    BY <1>1, <1>3, <1>4, <1>5 DEF Kept, Moves

LEMMA StageKeeps ==
  ASSUME IInv, NEW i \in Index, NEW e \in Elem, Stage(i, e)
  PROVE  Kept
  <1>1. /\ pc = "staged" /\ pc' = "staged" /\ held = {} /\ held' = {} /\ e \in outside
        /\ MapNow = staged /\ OutNow = outside /\ self = NoBlock
        /\ staged' = [staged EXCEPT ![i] = e]
        /\ outside' = (outside \ {e}) \cup ({staged[i]} \ {Uninit})
        /\ UNCHANGED <<self, fresh, at>>
        /\ staged \in [Index -> Elem \cup {Uninit}]
    BY CallFacts DEF Stage, IInv, TypeOK, Progress
  <1>2. TypeOK'
    BY <1>1 DEF IInv, TypeOK
  <1>3. Progress'
    BY <1>1 DEF Progress
  <1>4. MapNow' = staged' /\ OutNow' = outside'
    BY <1>1, <1>2, MapNowWillBe DEF OutNow, OutOf
  <1>5. Puts(i, e)
    BY <1>1, <1>4 DEF Puts
  <1> QED
    BY <1>1, <1>2, <1>3, <1>5 DEF Kept, Moves, IInv

LEMMA PackKeeps ==
  ASSUME IInv, Pack \/ PackFails
  PROVE  Kept
  <1>1. /\ pc = "staged" /\ pc' = "idle" /\ held = {} /\ held' = {}
        /\ MapNow = staged /\ OutNow = outside
        /\ staged' = Vacant /\ UNCHANGED <<fresh, at>>
        /\ staged \in [Index -> Elem \cup {Uninit}] /\ Contents(staged) \subseteq Elem
    BY CallFacts DEF Pack, PackFails, IInv, TypeOK, Progress, Contents
  <1>2. Progress'
    BY <1>1 DEF Progress
  <1>3. OutNow' = outside'
    BY <1>1 DEF OutNow, OutOf
  <1>4. CASE Pack
    <2> DEFINE S == {i \in Index : staged[i] # Uninit}
    <2>1. self' \in Blocks /\ Dense(self') /\ View(self') = staged
      <3>1. CASE Cardinality(S) = 0
        <4>1. S = {}
          BY <3>1, IndexBits
        <4>2. \A i \in Index : staged[i] = Uninit
          BY <4>1
        <4>3. staged = Vacant
          BY <1>1, <4>2 DEF Vacant
        <4>4. self' = NoBlock
          BY <1>4, <3>1 DEF Pack
        <4> QED
          BY <4>3, <4>4, EmptyBlock
      <3>2. CASE Cardinality(S) # 0
        <4>1. self' = Packed(staged, S)
          BY <1>4, <3>2 DEF Pack, Packed
        <4> QED
          BY <1>1, <4>1, PackedView
      <3> QED
        BY <3>1, <3>2
    <2>2. outside' = outside
      BY <1>4 DEF Pack
    <2>3. TypeOK'
      BY <1>1, <2>1, <2>2, EmptyBlock DEF IInv, TypeOK, Steps
    <2>4. UNCHANGED <<MapNow, OutNow>>
      BY <1>1, <1>3, <2>1, <2>2, <2>3, MapNowWillBe
    <2> QED
      BY <1>1, <1>2, <2>1, <2>3, <2>4 DEF Kept, Moves
  <1>5. CASE PackFails
    <2>1. self' = self /\ self = NoBlock /\ outside' = outside \cup Contents(staged)
      BY <1>1, <1>5, CallFacts DEF PackFails
    <2>2. TypeOK' /\ Dense(self')
      BY <1>1, <2>1, EmptyBlock DEF IInv, TypeOK, Steps
    <2>3. Empties
      BY <1>1, <1>3, <2>1, <2>2, MapNowWillBe, EmptyBlock DEF Empties
    <2> QED
      BY <1>1, <1>2, <2>2, <2>3 DEF Kept, Moves
  <1> QED
    BY <1>4, <1>5

-----------------------------------------------------------------------------
LEMMA Initial == Init => IInv /\ MapNow = Vacant /\ OutNow = Elem
  <1> SUFFICES ASSUME Init PROVE IInv /\ MapNow = Vacant /\ OutNow = Elem
    OBVIOUS
  <1>1. TypeOK
    BY EmptyBlock, ArityAssumption DEF Init, TypeOK, Steps, Index
  <1>2. Dense(self) /\ Progress
    BY EmptyBlock DEF Init, Progress
  <1>3. MapNow = Vacant /\ OutNow = Elem
    BY <1>1, MapNowIs, EmptyBlock DEF Init, OutNow, OutOf
  <1>4. Owned(MapNow, OutNow)
    BY <1>3, EmptyBlock DEF Owned
  <1> QED
    BY <1>1, <1>2, <1>3, <1>4 DEF Init, IInv

LEMMA StepKeeps == IInv /\ [Next]_vars => Kept
  <1> SUFFICES ASSUME IInv, [Next]_vars PROVE Kept
    OBVIOUS
  <1>1. ASSUME NEW i \in Index, NEW e \in Elem, Overwrite(i, e) PROVE Kept
    BY <1>1, OverwriteKeeps
  <1>2. CASE \/ \E i \in Index, e \in Elem : StartInsert(i, e)
             \/ \E i \in Index : StartRemove(i)
             \/ AllocationFails
    BY <1>2, BeginKeeps
  <1>3. CASE Allocate
    BY <1>3, AllocateKeeps
  <1>4. CASE Fill
    BY <1>4, FillKeeps
  <1>5. CASE Take
    BY <1>5, TakeKeeps
  <1>6. CASE Publish
    BY <1>6, PublishKeeps
  <1>7. ASSUME NEW i \in Index, RemoveLast(i) PROVE Kept
    BY <1>7, RemoveLastKeeps
  <1>8. CASE TakeOnlyChild
    <2>1. RemoveLast(Lowest(self.bits)) /\ Lowest(self.bits) \in self.bits
      BY <1>8 DEF TakeOnlyChild, RemoveLast
    <2>2. Lowest(self.bits) \in Index
      BY <2>1, CallFacts
    <2> QED
      BY <2>1, <2>2, RemoveLastKeeps
  <1>9. CASE Unpack
    BY <1>9, UnpackKeeps
  <1>10. ASSUME NEW i \in Index, NEW e \in Elem, Stage(i, e) PROVE Kept
    BY <1>10, StageKeeps
  <1>11. CASE Pack \/ PackFails
    BY <1>11, PackKeeps
  <1>12. CASE UNCHANGED vars
    BY <1>12 DEF vars, IInv, TypeOK, Progress, Ready, Count, Kept, Moves, MapNow, OutNow
  <1> QED
    BY <1>1, <1>2, <1>3, <1>4, <1>5, <1>6, <1>7, <1>8, <1>9, <1>10, <1>11, <1>12 DEF Next

LEMMA Invariance == Spec => []IInv
  <1>1. IInv /\ [Next]_vars => IInv'
    <2> SUFFICES ASSUME IInv, Kept PROVE IInv'
      BY StepKeeps
    <2>1. /\ MapNow \in [Index -> Elem \cup {Uninit}] /\ OutNow \in SUBSET Elem
          /\ Owned(MapNow, OutNow)
      BY MapNowIs, CallFacts DEF IInv, TypeOK, OutNow, OutOf
    <2>2. Owned(MapNow', OutNow')
      <3>1. CASE UNCHANGED <<MapNow, OutNow>>
        BY <2>1, <3>1
      <3>2. ASSUME NEW i \in Index, NEW e \in Elem, Puts(i, e)
            PROVE  Owned(MapNow', OutNow')
        BY <2>1, <3>2, OwnedMoves DEF Puts
      <3>3. ASSUME NEW i \in Index, Gives(i)
            PROVE  Owned(MapNow', OutNow')
        BY <2>1, <3>3, OwnedMoves DEF Gives
      <3>4. CASE Empties
        BY <2>1, <3>4, OwnedMoves DEF Empties
      <3> QED
        BY <3>1, <3>2, <3>3, <3>4 DEF Kept, Moves
    <2> QED
      BY <2>2 DEF Kept, IInv, Owned, Once, Contents, MapNow, OutNow
  <1> QED
    BY <1>1, Initial, PTL DEF Spec

-----------------------------------------------------------------------------
(* Whenever the array can be seen or dropped, for every arity and every    *)
(* sequence of calls and allocation failures, its block has one            *)
(* initialised slot per bit, dense from 0: what get, remove and drop read  *)
(* without checking (packed.rs).                                           *)
THEOREM AlwaysDense == Spec => []DenseBlock
  <1>1. IInv => DenseBlock
    BY DEF IInv, DenseBlock, Dense, Count
  <1> QED
    BY <1>1, Invariance, PTL

(* Wherever a call may unwind, dropping the block, the call's locals, the  *)
(* staged array and what the caller owns drops each element exactly once.  *)
THEOREM Conservation == Spec => []OneOwner
  <1>1. IInv => OneOwner
    <2> SUFFICES ASSUME IInv, Droppable PROVE OneOwner
      BY DEF OneOwner
    <2>1. /\ Contents(View(self)) = Contents(self.data)
          /\ Once(View(self)) <=> Once(self.data)
          /\ pc # "staged" => MapNow = View(self) /\ staged = Vacant
          /\ pc = "staged" => MapNow = staged /\ self = NoBlock
          /\ Owned(MapNow, OutNow)
      BY CallFacts, ViewContents DEF IInv
    <2>2. held \cap Contents(self.data) = {} /\ OutNow = outside \cup held
      BY <2>1 DEF IInv, Progress, Droppable, OutNow, OutOf
    <2>3. CASE pc = "staged"
      <3>1. Contents(self.data) = {} /\ Once(self.data)
        BY <2>1, <2>3, EmptyBlock, ViewContents DEF NoBlock
      <3> QED
        BY <2>1, <2>2, <2>3, <3>1 DEF OneOwner, Owned, Once, IInv
    <2>4. CASE pc # "staged"
      <3>1. Contents(staged) = {} /\ Once(staged)
        BY <2>1, <2>4, EmptyBlock
      <3> QED
        BY <2>1, <2>2, <2>4, <3>1 DEF OneOwner, Owned, Once, IInv
    <2> QED
      BY <2>3, <2>4
  <1> QED
    BY <1>1, Invariance, PTL

(* The packed array implements the owned sparse map: a call takes effect   *)
(* at once, when its new block is published, or, if its allocation fails,  *)
(* not at all.                                                             *)
THEOREM Refinement == Spec => RefinesMap
  <1>1. Init => Map!Init
    BY Initial DEF Map!Init, MapNow, OutNow, MapOf, OutOf, Get, ViewAt, Vacant
  <1>2. IInv /\ [Next]_vars => [Map!Next]_Map!vars
    <2> SUFFICES ASSUME IInv, Kept PROVE [Map!Next]_Map!vars
      BY StepKeeps
    <2>1. CASE UNCHANGED <<MapNow, OutNow>>
      BY <2>1 DEF Map!vars, MapNow, OutNow, MapOf, OutOf, Get, ViewAt
    <2>2. ASSUME NEW i \in Index, NEW e \in Elem, Puts(i, e) PROVE Map!Insert(i, e)
      BY <2>2 DEF Map!Insert, Puts, MapNow, OutNow, MapOf, OutOf, Get, ViewAt
    <2>3. ASSUME NEW i \in Index, Gives(i) PROVE Map!Remove(i)
      BY <2>3 DEF Map!Remove, Map!Present, Gives, MapNow, OutNow, MapOf, OutOf, Get, ViewAt
    <2>4. CASE Empties
      <3>1. Contents(MapNow) = {MapNow[i] : i \in {j \in Index : MapNow[j] # Uninit}}
        BY DEF Contents
      <3>2. Map!Clear
        BY <2>4, <3>1 DEF Map!Clear, Map!Present, Empties, MapNow, OutNow, MapOf, OutOf,
                          Get, ViewAt, Vacant
      <3> QED
        BY <3>2 DEF Map!Next
    <2> QED
      BY <2>1, <2>2, <2>3, <2>4 DEF Kept, Moves, Map!Next
  <1> QED
    BY <1>1, <1>2, Invariance, PTL DEF RefinesMap, Spec, Map!Spec

=============================================================================
