---------------------------- MODULE TrieTheorems ----------------------------
(***************************************************************************)
(* Facts about paths and their prefixes, about the slots of a trie and     *)
(* what an edit makes of them, and about the keys it holds: what is found, *)
(* what is recovered, and what an edit adds and removes.                   *)
(***************************************************************************)
EXTENDS TrieNodes, BitmapTheorems, SequenceTheorems

LEMMA FrontAppend ==
  ASSUME NEW S, NEW p \in Seq(S), NEW e \in S
  PROVE  /\ Front(Append(p, e)) = p
         /\ Last(Append(p, e)) = e
  BY DEF Front, Last

LEMMA FrontType ==
  ASSUME NEW S, NEW p \in Seq(S), p # << >>
  PROVE  /\ Front(p) \in Seq(S) /\ Last(p) \in S
         /\ Len(p) \in Nat \ {0} /\ Len(Front(p)) = Len(p) - 1
         /\ \A n \in 1 .. Len(p) - 1 : Front(p)[n] = p[n]
         /\ p = Append(Front(p), Last(p))
  <1>1. Len(p) \in Nat \ {0} /\ Last(p) \in S
    BY DEF Last
  <1>2. /\ Front(p) \in Seq(S) /\ Len(Front(p)) = Len(p) - 1
        /\ \A n \in 1 .. Len(p) - 1 : Front(p)[n] = p[n]
    <2>1. \A n \in 1 .. Len(p) - 1 : p[n] \in S
      BY <1>1
    <2> DEFINE m == Len(p) - 1
    <2>2. m \in Nat /\ 1 \in Int
      BY <1>1
    <2> HIDE DEF m
    <2>3. /\ SubSeq(p, 1, m) \in Seq(S)
          /\ Len(SubSeq(p, 1, m)) = IF 1 <= m THEN m - 1 + 1 ELSE 0
          /\ \A n \in 1 .. m - 1 + 1 : SubSeq(p, 1, m)[n] = p[1 + n - 1]
      <3>1. \A n \in 1 .. m : p[n] \in S
        BY <2>1 DEF m
      <3> QED
        BY <2>2, <3>1, SubSeqProperties
    <2>4. /\ Len(SubSeq(p, 1, m)) = m
          /\ \A n \in 1 .. m : SubSeq(p, 1, m)[n] = p[n]
      BY <2>2, <2>3
    <2> QED
      BY <2>3, <2>4 DEF Front, m
  <1>3. \A n \in 1 .. Len(p) : Append(Front(p), Last(p))[n] = p[n]
    BY <1>1, <1>2, AppendProperties DEF Last
  <1>4. Append(Front(p), Last(p)) \in Seq(S) /\ Len(Append(Front(p), Last(p))) = Len(p)
    BY <1>1, <1>2, AppendProperties
  <1> QED
    BY <1>1, <1>2, <1>3, <1>4, SeqEqual

(* The full path of a node is a path. *)
LEMMA FullType ==
  ASSUME NEW t, IsTrie(t), NEW s \in DOMAIN t
  PROVE  /\ s \in Seq(Index) /\ t[s].partial \in Seq(Index)
         /\ Full(t, s) \in Seq(Index)
         /\ Len(Full(t, s)) = Len(s) + Len(t[s].partial)
  BY DEF IsTrie, Full

(* The slot of a child hangs off the full path of its parent. *)
LEMMA ChildHangs ==
  ASSUME NEW t, IsTrie(t), NEW s \in DOMAIN t, NEW i \in Kids(t, s)
  PROVE  /\ i \in Index
         /\ Child(t, s, i) \in DOMAIN t
         /\ Child(t, s, i) # << >>
         /\ Front(Child(t, s, i)) = Full(t, s)
         /\ Last(Child(t, s, i)) = i
  <1>1. i \in Index /\ Child(t, s, i) \in DOMAIN t
    BY DEF Kids
  <1>2. Full(t, s) \in Seq(Index)
    BY FullType
  <1>3. /\ Front(Append(Full(t, s), i)) = Full(t, s)
        /\ Last(Append(Full(t, s), i)) = i
        /\ Append(Full(t, s), i) # << >>
    BY <1>1, <1>2, FrontAppend, AppendProperties
  <1> QED
    BY <1>1, <1>3 DEF Child

(* The children of a node are finitely many, and one of them is lowest. *)
LEMMA LowestKid ==
  ASSUME NEW K \in SUBSET Index, K # {}
  PROVE  /\ IsFiniteSet(K)
         /\ (CHOOSE i \in K : \A j \in K : i <= j) \in K
  <1>1. IsBitmap(K)
    BY IndexAssumption, FS_Subset DEF IsBitmap
  <1> QED
    BY <1>1, LowestMember DEF Lowest, IsBitmap

-----------------------------------------------------------------------------
(* Prefixes.                                                               *)

LEMMA Initial ==
  ASSUME NEW S, NEW p \in Seq(S), NEW n \in 0 .. Len(p)
  PROVE  /\ SubSeq(p, 1, n) \in Seq(S)
         /\ Len(SubSeq(p, 1, n)) = n
         /\ \A k \in 1 .. n : SubSeq(p, 1, n)[k] = p[k]
  <1>1. \A k \in 1 .. n : p[k] \in S
    <2>1. Len(p) \in Nat /\ \A k \in 1 .. Len(p) : p[k] \in S
      BY ElementOfSeq, LenProperties
    <2> QED
      BY <2>1
  <1>2. n \in Int /\ 1 \in Int /\ n >= 0
    OBVIOUS
  <1>3. /\ SubSeq(p, 1, n) \in Seq(S)
        /\ Len(SubSeq(p, 1, n)) = IF 1 <= n THEN n - 1 + 1 ELSE 0
        /\ \A k \in 1 .. n - 1 + 1 : SubSeq(p, 1, n)[k] = p[1 + k - 1]
    BY <1>1, <1>2, SubSeqProperties
  <1> QED
    BY <1>2, <1>3

LEMMA PrefixByIndex ==
  ASSUME NEW S, NEW p \in Seq(S), NEW q \in Seq(S)
  PROVE  IsPrefix(p, q) <=> /\ Len(p) <= Len(q)
                            /\ \A k \in 1 .. Len(p) : p[k] = q[k]
  <1>1. Len(p) \in Nat /\ Len(q) \in Nat
    BY LenProperties
  <1>2. SUFFICES ASSUME Len(p) <= Len(q)
                 PROVE  SubSeq(p, 1, Len(p)) = SubSeq(q, 1, Len(p))
                          <=> \A k \in 1 .. Len(p) : p[k] = q[k]
    BY DEF IsPrefix
  <1>3. SubSeq(p, 1, Len(p)) = p
    BY SubSeqFull
  <1>4. /\ SubSeq(q, 1, Len(p)) \in Seq(S) /\ Len(SubSeq(q, 1, Len(p))) = Len(p)
        /\ \A k \in 1 .. Len(p) : SubSeq(q, 1, Len(p))[k] = q[k]
    BY <1>1, <1>2, Initial
  <1>5. ASSUME \A k \in 1 .. Len(p) : p[k] = q[k] PROVE p = SubSeq(q, 1, Len(p))
    BY <1>1, <1>4, <1>5, SeqEqual
  <1> QED
    BY <1>3, <1>4, <1>5

LEMMA PrefixOrder ==
  ASSUME NEW S, NEW p \in Seq(S), NEW q \in Seq(S)
  PROVE  /\ Len(p) \in Nat /\ IsPrefix(p, p)
         /\ IsPrefix(p, q) => Len(p) <= Len(q)
         /\ IsPrefix(p, q) /\ Len(p) >= Len(q) => p = q
         /\ IsPrefix(<< >>, p)
  <1>1. Len(p) \in Nat /\ Len(q) \in Nat
    BY LenProperties
  <1>2. ASSUME IsPrefix(p, q), Len(p) >= Len(q) PROVE p = q
    <2>1. Len(p) = Len(q) /\ \A k \in 1 .. Len(p) : p[k] = q[k]
      BY <1>1, <1>2, PrefixByIndex
    <2> QED
      BY <2>1, SeqEqual
  <1>3. << >> \in Seq(S) /\ Len(<< >>) = 0
    BY EmptySeq
  <1>4. IsPrefix(p, p)
    <2>1. Len(p) <= Len(p)
      BY <1>1
    <2> QED
      BY <2>1, PrefixByIndex
  <1>5. IsPrefix(<< >>, p)
    <2> DEFINE e == << >>
    <2>1. e \in Seq(S) /\ Len(e) = 0
      BY <1>3
    <2> HIDE DEF e
    <2>2. Len(e) <= Len(p) /\ \A k \in 1 .. Len(e) : e[k] = p[k]
      BY <1>1, <2>1
    <2>3. IsPrefix(e, p)
      BY <2>1, <2>2, PrefixByIndex
    <2> QED
      BY <2>3 DEF e
  <1> QED
    BY <1>1, <1>2, <1>4, <1>5, PrefixByIndex

LEMMA PrefixTransitive ==
  ASSUME NEW S, NEW p \in Seq(S), NEW q \in Seq(S), NEW r \in Seq(S),
         IsPrefix(p, q), IsPrefix(q, r)
  PROVE  IsPrefix(p, r)
  <1>1. Len(p) \in Nat /\ Len(q) \in Nat /\ Len(r) \in Nat
    BY LenProperties
  <1>2. /\ Len(p) <= Len(q) /\ \A k \in 1 .. Len(p) : p[k] = q[k]
        /\ Len(q) <= Len(r) /\ \A k \in 1 .. Len(q) : q[k] = r[k]
    BY PrefixByIndex
  <1>3. Len(p) <= Len(r) /\ \A k \in 1 .. Len(p) : p[k] = r[k]
    BY <1>1, <1>2
  <1> QED
    BY <1>3, PrefixByIndex

(* Two prefixes of one path are prefixes of one another. *)
LEMMA PrefixesAgree ==
  ASSUME NEW S, NEW p \in Seq(S), NEW q \in Seq(S), NEW r \in Seq(S),
         IsPrefix(p, r), IsPrefix(q, r), Len(p) <= Len(q)
  PROVE  IsPrefix(p, q)
  <1>1. Len(p) \in Nat /\ Len(q) \in Nat /\ Len(r) \in Nat
    BY LenProperties
  <1>2. /\ Len(p) <= Len(r) /\ \A k \in 1 .. Len(p) : p[k] = r[k]
        /\ Len(q) <= Len(r) /\ \A k \in 1 .. Len(q) : q[k] = r[k]
    BY PrefixByIndex
  <1>3. \A k \in 1 .. Len(p) : p[k] = q[k]
    BY <1>1, <1>2
  <1> QED
    BY <1>3, PrefixByIndex

LEMMA PrefixOfAppend ==
  ASSUME NEW S, NEW p \in Seq(S), NEW q \in Seq(S), NEW e \in S
  PROVE  /\ IsPrefix(q, Append(q, e))
         /\ IsPrefix(p, Append(q, e)) <=> IsPrefix(p, q) \/ p = Append(q, e)
  <1> DEFINE r == Append(q, e)
  <1>1. /\ Len(p) \in Nat /\ Len(q) \in Nat /\ r \in Seq(S)
        /\ Len(r) = Len(q) + 1
        /\ \A k \in 1 .. Len(q) : r[k] = q[k]
    BY AppendProperties, LenProperties
  <1> HIDE DEF r
  <1>2. IsPrefix(q, r)
    <2>1. Len(q) <= Len(r) /\ \A k \in 1 .. Len(q) : q[k] = r[k]
      BY <1>1
    <2> QED
      BY <1>1, <2>1, PrefixByIndex
  <1>3. IsPrefix(p, q) => IsPrefix(p, r)
    BY <1>1, <1>2, PrefixTransitive
  <1>4. IsPrefix(r, r)
    BY <1>1, PrefixOrder
  <1>5. ASSUME IsPrefix(p, r) PROVE IsPrefix(p, q) \/ p = r
    <2>1. CASE Len(p) <= Len(q)
      BY <1>1, <1>2, <1>5, <2>1, PrefixesAgree
    <2>2. CASE Len(p) > Len(q)
      <3>1. Len(p) >= Len(r)
        BY <1>1, <2>2
      <3> QED
        BY <1>1, <1>5, <3>1, PrefixOrder
    <2> QED
      BY <1>1, <2>1, <2>2
  <1> QED
    BY <1>2, <1>3, <1>4, <1>5 DEF r

LEMMA PrefixOfConcat ==
  ASSUME NEW S, NEW p \in Seq(S), NEW q \in Seq(S)
  PROVE  IsPrefix(p, p \o q)
  <1> DEFINE r == p \o q
  <1>1. /\ Len(p) \in Nat /\ Len(q) \in Nat /\ r \in Seq(S)
        /\ Len(r) = Len(p) + Len(q)
        /\ \A k \in 1 .. Len(p) + Len(q) :
             r[k] = IF k <= Len(p) THEN p[k] ELSE q[k - Len(p)]
    BY ConcatProperties, LenProperties
  <1> HIDE DEF r
  <1>2. Len(p) <= Len(r) /\ \A k \in 1 .. Len(p) : p[k] = r[k]
    BY <1>1
  <1>3. IsPrefix(p, r)
    BY <1>1, <1>2, PrefixByIndex
  <1> QED
    BY <1>3 DEF r

(* A longer path continues a prefix of it with one of its indices. *)
LEMMA PrefixContinues ==
  ASSUME NEW S, NEW p \in Seq(S), NEW q \in Seq(S), IsPrefix(p, q), Len(p) < Len(q)
  PROVE  /\ q[Len(p) + 1] \in S
         /\ IsPrefix(Append(p, q[Len(p) + 1]), q)
         /\ Append(p, q[Len(p) + 1]) = SubSeq(q, 1, Len(p) + 1)
  <1> DEFINE n == Len(p) + 1
             c == Append(p, q[n])
  <1>1. Len(p) \in Nat /\ Len(q) \in Nat /\ n \in 1 .. Len(q)
    BY LenProperties
  <1>2. q[n] \in S
    BY <1>1, ElementOfSeq
  <1>3. /\ c \in Seq(S) /\ Len(c) = n /\ c[n] = q[n]
        /\ \A k \in 1 .. Len(p) : c[k] = p[k]
    BY <1>2, AppendProperties
  <1>4. \A k \in 1 .. Len(p) : p[k] = q[k]
    BY PrefixByIndex
  <1> HIDE DEF c
  <1>5. \A k \in 1 .. n : c[k] = q[k]
    BY <1>1, <1>3, <1>4
  <1>6. IsPrefix(c, q)
    BY <1>1, <1>3, <1>5, PrefixByIndex
  <1>7. /\ SubSeq(q, 1, n) \in Seq(S) /\ Len(SubSeq(q, 1, n)) = n
        /\ \A k \in 1 .. n : SubSeq(q, 1, n)[k] = q[k]
    BY <1>1, Initial
  <1>8. c = SubSeq(q, 1, n)
    BY <1>3, <1>5, <1>7, SeqEqual
  <1> QED
    BY <1>2, <1>6, <1>8 DEF c

(* The initial parts of a path are its prefixes. *)
LEMMA PrefixIsInitial ==
  ASSUME NEW S, NEW q \in Seq(S), NEW n \in 0 .. Len(q)
  PROVE  /\ SubSeq(q, 1, n) \in Seq(S) /\ Len(SubSeq(q, 1, n)) = n
         /\ IsPrefix(SubSeq(q, 1, n), q)
         /\ \A p \in Seq(S) : IsPrefix(p, q) /\ Len(p) = n => p = SubSeq(q, 1, n)
  <1> DEFINE r == SubSeq(q, 1, n)
  <1>1. /\ Len(q) \in Nat
        /\ r \in Seq(S) /\ Len(r) = n
        /\ \A k \in 1 .. n : r[k] = q[k]
    BY Initial, LenProperties
  <1> HIDE DEF r
  <1>2. IsPrefix(r, q)
    <2>1. Len(r) <= Len(q) /\ \A k \in 1 .. Len(r) : r[k] = q[k]
      BY <1>1
    <2> QED
      BY <1>1, <2>1, PrefixByIndex
  <1>3. ASSUME NEW p \in Seq(S), IsPrefix(p, q), Len(p) = n
        PROVE  p = r
    <2>1. Len(p) <= Len(r) /\ Len(p) >= Len(r)
      BY <1>1, <1>3
    <2>2. IsPrefix(p, r)
      BY <1>1, <1>2, <1>3, <2>1, PrefixesAgree
    <2> QED
      BY <1>1, <1>3, <2>1, <2>2, PrefixOrder
  <1> QED
    BY <1>1, <1>2, <1>3 DEF r

(* Where two paths part. *)
LEMMA PathsPart ==
  ASSUME NEW S, NEW p \in Seq(S), NEW q \in Seq(S), ~IsPrefix(p, q), ~IsPrefix(q, p)
  PROVE  LET n == Len(LongestCommonPrefix({p, q}))
         IN  /\ n \in Nat /\ n < Len(p) /\ n < Len(q)
             /\ SubSeq(p, 1, n) = SubSeq(q, 1, n)
             /\ p[n + 1] # q[n + 1]
             /\ \A m \in Seq(S) : IsPrefix(m, p) /\ IsPrefix(m, q) => Len(m) <= n
  <1> DEFINE C == CommonPrefixes({p, q})
             L == {n \in 0 .. Len(p) : \E m \in C : Len(m) = n}
             l == LongestCommonPrefix({p, q})
  <1>1. Len(p) \in Nat /\ Len(q) \in Nat
    BY PrefixOrder
  <1>2. \A m \in C : m \in Seq(S) /\ IsPrefix(m, p) /\ IsPrefix(m, q)
    <2>1. ASSUME NEW m \in C PROVE m \in Seq(S)
      <3>1. PICK r \in {p, q} : m \in Prefixes(r)
        BY DEF CommonPrefixes
      <3>2. PICK n \in 0 .. Len(r) : m = SubSeq(r, 1, n)
        BY <3>1 DEF Prefixes
      <3> QED
        BY <3>2, PrefixIsInitial
    <2> QED
      BY <2>1 DEF CommonPrefixes
  <1>3. ASSUME NEW m \in Seq(S), IsPrefix(m, p), IsPrefix(m, q)
        PROVE  m \in C /\ Len(m) \in L
    <2>1. Len(m) \in 0 .. Len(p)
      BY <1>1, <1>3, PrefixOrder
    <2>2. m = SubSeq(p, 1, Len(m))
      BY <1>3, <2>1, PrefixIsInitial
    <2>3. m \in Prefixes(p)
      BY <2>1, <2>2 DEF Prefixes
    <2>4. m \in C
      BY <1>3, <2>3 DEF CommonPrefixes
    <2> QED
      BY <2>1, <2>4
  <1>4. Highest(L) \in L /\ \A n \in L : n <= Highest(L)
    <2>1. Len(<< >>) \in L
      BY <1>3, PrefixOrder, EmptySeq
    <2>2. IsBitmap(L)
      <3>1. IsFiniteSet(0 .. Len(p)) /\ L \subseteq 0 .. Len(p)
        BY <1>1, FS_Interval
      <3> QED
        BY <3>1, FS_Subset DEF IsBitmap
    <2> HIDE DEF L
    <2> QED
      BY <2>1, <2>2, HighestMember
  <1>5. l \in C /\ \A m \in C : Len(m) <= Len(l)
    <2>1. PICK m \in C : Len(m) = Highest(L)
      BY <1>4
    <2>2. \A o \in C : Len(o) <= Len(m)
      BY <1>2, <1>3, <1>4, <2>1
    <2> HIDE DEF C
    <2> QED
      BY <2>1, <2>2 DEF LongestCommonPrefix, C
  <1> DEFINE n == Len(l)
  <1>6. /\ l \in Seq(S) /\ IsPrefix(l, p) /\ IsPrefix(l, q) /\ n \in Nat
        /\ n <= Len(p) /\ n <= Len(q)
        /\ \A m \in Seq(S) : IsPrefix(m, p) /\ IsPrefix(m, q) => Len(m) <= n
    BY <1>2, <1>3, <1>5, PrefixOrder
  <1> HIDE DEF l, C
  <1>7. n < Len(p) /\ n < Len(q)
    <2>1. n # Len(p)
      <3>1. SUFFICES ASSUME n = Len(p) PROVE FALSE
        OBVIOUS
      <3>2. l = p
        BY <1>1, <1>6, <3>1, PrefixOrder
      <3> QED
        BY <1>6, <3>2
    <2>2. n # Len(q)
      <3>1. SUFFICES ASSUME n = Len(q) PROVE FALSE
        OBVIOUS
      <3>2. l = q
        BY <1>1, <1>6, <3>1, PrefixOrder
      <3> QED
        BY <1>6, <3>2
    <2> QED
      BY <1>1, <1>6, <2>1, <2>2
  <1>8. SubSeq(p, 1, n) = l /\ SubSeq(q, 1, n) = l
    <2>1. n \in 0 .. Len(p) /\ n \in 0 .. Len(q)
      BY <1>1, <1>6
    <2> QED
      BY <1>6, <2>1, PrefixIsInitial
  <1>9. p[n + 1] # q[n + 1]
    <2>1. SUFFICES ASSUME p[n + 1] = q[n + 1] PROVE FALSE
      OBVIOUS
    <2> DEFINE m == Append(l, p[n + 1])
    <2>2. p[n + 1] \in S /\ IsPrefix(m, p) /\ IsPrefix(m, q)
      BY <1>6, <1>7, <2>1, PrefixContinues
    <2>3. m \in Seq(S) /\ Len(m) = n + 1
      BY <1>6, <2>2, AppendProperties
    <2> HIDE DEF m
    <2>4. n + 1 <= n
      BY <1>6, <2>2, <2>3
    <2> QED
      BY <1>6, <2>4
  <1> QED
    BY <1>6, <1>7, <1>8, <1>9 DEF l

(* A proper prefix is a prefix of the front. *)
LEMMA PrefixOfFront ==
  ASSUME NEW S, NEW p \in Seq(S), NEW q \in Seq(S), q # << >>
  PROVE  /\ IsPrefix(Front(q), q)
         /\ IsPrefix(p, q) /\ p # q => IsPrefix(p, Front(q))
  <1>1. Front(q) \in Seq(S) /\ Last(q) \in S /\ q = Append(Front(q), Last(q))
    BY FrontType
  <1> QED
    BY <1>1, PrefixOfAppend

-----------------------------------------------------------------------------
(* The nodes of a tree and the paths that lead to them.                    *)

IsTree(t) == IsTrie(t) /\ Apart(t) /\ NoOrphans(t)

LEMMA FullExtends ==
  ASSUME NEW t, IsTrie(t), NEW s \in DOMAIN t
  PROVE  /\ s \in Seq(Index) /\ Full(t, s) \in Seq(Index)
         /\ Len(s) \in Nat /\ Len(Full(t, s)) \in Nat /\ Len(s) <= Len(Full(t, s))
         /\ IsPrefix(s, Full(t, s))
  <1>1. s \in Seq(Index) /\ t[s].partial \in Seq(Index) /\ Full(t, s) \in Seq(Index)
    BY FullType
  <1>2. IsPrefix(s, Full(t, s))
    BY <1>1, PrefixOfConcat DEF Full
  <1> QED
    BY <1>1, <1>2, PrefixOrder

LEMMA HasRoot ==
  ASSUME NEW t, IsTrie(t), NEW s \in DOMAIN t
  PROVE  t # EmptyTrie /\ Root \in DOMAIN t
  <1>1. t # EmptyTrie
    BY DEF EmptyTrie
  <1> QED
    BY <1>1 DEF IsTrie

(* A slot below another lies below its node too. *)
LEMMA Below ==
  ASSUME NEW t, IsTree(t), NEW s \in DOMAIN t, NEW u \in DOMAIN t,
         IsPrefix(s, u), s # u
  PROVE  /\ IsPrefix(Full(t, s), u) /\ Len(Full(t, s)) < Len(u)
         /\ Len(s) < Len(u)
  <1>1. /\ s \in Seq(Index) /\ Full(t, s) \in Seq(Index) /\ u \in Seq(Index)
        /\ Len(s) \in Nat /\ Len(Full(t, s)) \in Nat /\ Len(u) \in Nat
        /\ Len(s) <= Len(Full(t, s))
    BY FullExtends DEF IsTree
  <1>2. IsPrefix(Full(t, s), u) /\ Full(t, s) # u
    BY DEF IsTree, Apart, IsStrictPrefix
  <1>3. Len(Full(t, s)) < Len(u)
    BY <1>1, <1>2, PrefixOrder
  <1> QED
    BY <1>1, <1>2, <1>3

(* The slots on the way to a node are its own and those of its ancestors,  *)
(* whose paths end above its slot.                                         *)
LEMMA OnTheWay ==
  ASSUME NEW t, IsTree(t), NEW s \in DOMAIN t, NEW x \in DOMAIN t,
         IsPrefix(x, Full(t, s)), x # s
  PROVE  /\ IsPrefix(x, s) /\ IsPrefix(Full(t, x), s)
         /\ Len(Full(t, x)) < Len(s)
  <1>1. /\ s \in Seq(Index) /\ x \in Seq(Index) /\ Full(t, s) \in Seq(Index)
        /\ Len(s) \in Nat /\ Len(x) \in Nat /\ Len(Full(t, s)) \in Nat
        /\ IsPrefix(s, Full(t, s))
    BY FullExtends DEF IsTree
  <1>2. CASE Len(x) <= Len(s)
    <2>1. IsPrefix(x, s)
      BY <1>1, <1>2, PrefixesAgree
    <2> QED
      BY <2>1, Below
  <1>3. CASE Len(s) <= Len(x)
    <2>1. IsPrefix(s, x)
      BY <1>1, <1>3, PrefixesAgree
    <2>2. Len(Full(t, s)) < Len(x)
      BY <2>1, Below
    <2>3. Len(x) <= Len(Full(t, s))
      BY <1>1, PrefixOrder
    <2> QED
      BY <1>1, <2>2, <2>3
  <1> QED
    BY <1>1, <1>2, <1>3

(* No two nodes have the same full path, so no slot has two parents. *)
LEMMA FullIsUnique ==
  ASSUME NEW t, IsTree(t), NEW s \in DOMAIN t, NEW x \in DOMAIN t,
         Full(t, x) = Full(t, s)
  PROVE  x = s
  <1> SUFFICES ASSUME x # s PROVE FALSE
    OBVIOUS
  <1>1. /\ IsPrefix(x, Full(t, s)) /\ Len(s) \in Nat /\ Len(Full(t, s)) \in Nat
        /\ Len(s) <= Len(Full(t, s))
    BY FullExtends DEF IsTree
  <1>2. Len(Full(t, s)) < Len(s)
    BY <1>1, OnTheWay
  <1> QED
    BY <1>1, <1>2

LEMMA ChildType ==
  ASSUME NEW t, IsTrie(t), NEW s \in DOMAIN t, NEW i \in Index
  PROVE  /\ Child(t, s, i) \in Seq(Index)
         /\ Len(Child(t, s, i)) = Len(Full(t, s)) + 1
         /\ Front(Child(t, s, i)) = Full(t, s) /\ Last(Child(t, s, i)) = i
         /\ IsPrefix(Full(t, s), Child(t, s, i)) /\ IsPrefix(s, Child(t, s, i))
         /\ Child(t, s, i) # s /\ Child(t, s, i) # Root
  <1> DEFINE f == Full(t, s)
             c == Append(f, i)
  <1>1. /\ s \in Seq(Index) /\ f \in Seq(Index) /\ IsPrefix(s, f)
        /\ Len(s) \in Nat /\ Len(f) \in Nat /\ Len(s) <= Len(f)
    BY FullExtends
  <1> HIDE DEF f
  <1>2. /\ c \in Seq(Index) /\ Len(c) = Len(f) + 1 /\ c # << >>
        /\ Front(c) = f /\ Last(c) = i
    BY <1>1, AppendProperties, FrontAppend
  <1>3. IsPrefix(f, c) /\ IsPrefix(s, c)
    BY <1>1, PrefixOfAppend
  <1>4. c # s
    BY <1>1, <1>2
  <1> QED
    BY <1>2, <1>3, <1>4 DEF f, Child, Root

LEMMA ParentIsUnique ==
  ASSUME NEW t, IsTree(t), NEW s \in DOMAIN t, NEW x \in DOMAIN t,
         NEW i \in Index, NEW j \in Index, Child(t, x, j) = Child(t, s, i)
  PROVE  x = s /\ j = i
  <1>1. Full(t, x) = Full(t, s) /\ j = i
    BY ChildType DEF IsTree
  <1> QED
    BY <1>1, FullIsUnique

(* What lies below a node lies below one of its children. *)
LEMMA BelowAChild ==
  ASSUME NEW t, IsTree(t), NEW d \in DOMAIN t, NEW s \in DOMAIN t,
         IsPrefix(d, s), d # s
  PROVE  \E i \in Kids(t, d) : IsPrefix(Child(t, d, i), s)
  <1> DEFINE f == Full(t, d)
             i == s[Len(f) + 1]
             c == Child(t, d, i)
             L == {n \in 0 .. Len(s) : \E u \in DOMAIN t : Len(u) = n /\ IsPrefix(c, u)}
  <1>1. /\ f \in Seq(Index) /\ s \in Seq(Index) /\ Len(f) \in Nat /\ Len(s) \in Nat
        /\ IsPrefix(f, s) /\ Len(f) < Len(s)
    BY FullExtends, Below DEF IsTree
  <1>2. i \in Index /\ IsPrefix(c, s)
    BY <1>1, PrefixContinues DEF Child
  <1>3. /\ c \in Seq(Index) /\ Len(c) = Len(f) + 1
        /\ IsPrefix(d, c) /\ IsPrefix(f, c)
    BY <1>2, ChildType DEF IsTree
  <1> SUFFICES c \in DOMAIN t
    BY <1>2 DEF Kids
  <1> HIDE DEF f, i, c
  <1>4. Lowest(L) \in L /\ \A n \in L : Lowest(L) <= n
    <2>1. Len(s) \in L
      BY <1>1, <1>2
    <2>2. IsBitmap(L)
      <3>1. IsFiniteSet(0 .. Len(s)) /\ L \subseteq 0 .. Len(s)
        BY <1>1, FS_Interval
      <3> QED
        BY <3>1, FS_Subset DEF IsBitmap
    <2> HIDE DEF L
    <2> QED
      BY <2>1, <2>2, LowestMember
  <1>5. PICK u \in DOMAIN t : /\ Len(u) \in 0 .. Len(s) /\ IsPrefix(c, u)
                              /\ \A v \in DOMAIN t : /\ Len(v) \in 0 .. Len(s)
                                                     /\ IsPrefix(c, v)
                                   => Len(u) <= Len(v)
    BY <1>4
  <1>6. SUFFICES ASSUME u # c PROVE FALSE
    BY <1>5
  <1>7. u \in Seq(Index) /\ Len(u) \in Nat /\ u # << >>
    <2>1. u \in Seq(Index) /\ Len(u) \in Nat
      BY FullExtends DEF IsTree
    <2>2. Len(c) <= Len(u)
      BY <1>3, <1>5, <2>1, PrefixOrder
    <2> QED
      BY <1>1, <1>3, <2>1, <2>2
  <1>8. PICK p \in DOMAIN t : Full(t, p) = Front(u)
    BY <1>7 DEF IsTree, NoOrphans, Root
  <1>9. /\ p \in Seq(Index) /\ Full(t, p) \in Seq(Index) /\ Len(p) \in Nat
        /\ Len(p) <= Len(Full(t, p)) /\ Len(Full(t, p)) = Len(u) - 1
        /\ IsPrefix(p, Full(t, p))
    BY <1>7, <1>8, FullExtends, FrontType DEF IsTree
  <1>10. IsPrefix(c, Full(t, p))
    BY <1>3, <1>5, <1>6, <1>7, <1>8, PrefixOfFront
  <1>11. ~IsPrefix(c, p)
    <2>1. Len(p) \in 0 .. Len(s) /\ ~(Len(u) <= Len(p))
      BY <1>1, <1>5, <1>7, <1>9
    <2> QED
      BY <1>5, <2>1
  <1>12. IsPrefix(d, Full(t, p))
    <2>1. d \in Seq(Index)
      BY FullExtends DEF IsTree
    <2> QED
      BY <1>3, <1>9, <1>10, <2>1, PrefixTransitive
  <1>13. CASE d = p
    <2>1. Len(c) <= Len(f)
      BY <1>3, <1>9, <1>10, <1>13, PrefixOrder DEF f
    <2> QED
      BY <1>1, <1>3, <2>1
  <1>14. CASE d # p
    <2>1. Len(f) < Len(p)
      BY <1>12, <1>14, OnTheWay DEF f
    <2>2. Len(c) <= Len(p)
      BY <1>1, <1>3, <1>9, <2>1
    <2>3. IsPrefix(c, p)
      BY <1>3, <1>9, <1>10, <2>2, PrefixesAgree
    <2> QED
      BY <1>11, <2>3
  <1> QED
    BY <1>13, <1>14

-----------------------------------------------------------------------------
(* Edits that move no node.                                                *)

IsNode(r) == /\ r = [partial |-> r.partial, value |-> r.value, hash |-> r.hash]
             /\ r.partial \in Seq(Index)

SameShape(t, u) ==
  /\ DOMAIN u = DOMAIN t
  /\ \A s \in DOMAIN t : IsNode(u[s]) /\ u[s].partial = t[s].partial

LEMMA ShapeKept ==
  ASSUME NEW t, IsTree(t), t # EmptyTrie, NEW u, SameShape(t, u)
  PROVE  /\ IsTree(u)
         /\ \A s \in DOMAIN t : /\ Full(u, s) = Full(t, s) /\ Kids(u, s) = Kids(t, s)
                                /\ \A i : Child(u, s, i) = Child(t, s, i)
  <1>1. \A s \in DOMAIN t : Full(u, s) = Full(t, s)
    BY DEF SameShape, Full
  <1>2. \A s \in DOMAIN t : \A i : Child(u, s, i) = Child(t, s, i)
    BY <1>1 DEF Child
  <1>3. \A s \in DOMAIN t : Kids(u, s) = Kids(t, s)
    BY <1>2 DEF Kids, SameShape
  <1>4. IsTrie(u)
    BY DEF IsTree, IsTrie, SameShape, IsNode
  <1>5. Apart(u)
    BY <1>1 DEF IsTree, Apart, SameShape
  <1>6. NoOrphans(u)
    BY <1>1 DEF IsTree, NoOrphans, SameShape
  <1> QED
    BY <1>1, <1>2, <1>3, <1>4, <1>5, <1>6 DEF IsTree

LEMMA NodeOfTrie ==
  ASSUME NEW t, IsTrie(t), NEW s \in DOMAIN t
  PROVE  IsNode(t[s])
  BY DEF IsTrie, IsNode

(* Hashes and values can be rewritten anywhere. *)
HashPut(t, s, h) == [t EXCEPT ![s].hash = h]
ValuePut(t, s, v) == [t EXCEPT ![s].value = v]

LEMMA HashSet ==
  ASSUME NEW t, IsTrie(t), NEW s \in DOMAIN t, NEW h
  PROVE  /\ SameShape(t, HashPut(t, s, h))
         /\ \A x \in DOMAIN t :
              /\ HashPut(t, s, h)[x].value = t[x].value
              /\ x # s => HashPut(t, s, h)[x].hash = t[x].hash
         /\ HashPut(t, s, h)[s].hash = h
  <1> DEFINE u == HashPut(t, s, h)
  <1>1. /\ DOMAIN u = DOMAIN t
        /\ \A x \in DOMAIN t : u[x] = IF x = s THEN [t[x] EXCEPT !.hash = h] ELSE t[x]
    BY DEF HashPut
  <1> HIDE DEF u
  <1>2. ASSUME NEW x \in DOMAIN t
        PROVE  /\ IsNode(u[x]) /\ u[x].partial = t[x].partial /\ u[x].value = t[x].value
               /\ x # s => u[x].hash = t[x].hash
               /\ x = s => u[x].hash = h
    <2>1. IsNode(t[x])
      BY NodeOfTrie
    <2> QED
      BY <1>1, <2>1 DEF IsNode
  <1> QED
    BY <1>1, <1>2 DEF SameShape, u

LEMMA ValueSet ==
  ASSUME NEW t, IsTrie(t), NEW s \in DOMAIN t, NEW v
  PROVE  /\ SameShape(t, ValuePut(t, s, v))
         /\ \A x \in DOMAIN t :
              /\ ValuePut(t, s, v)[x].hash = t[x].hash
              /\ x # s => ValuePut(t, s, v)[x].value = t[x].value
         /\ ValuePut(t, s, v)[s].value = v
  <1> DEFINE u == ValuePut(t, s, v)
  <1>1. /\ DOMAIN u = DOMAIN t
        /\ \A x \in DOMAIN t : u[x] = IF x = s THEN [t[x] EXCEPT !.value = v] ELSE t[x]
    BY DEF ValuePut
  <1> HIDE DEF u
  <1>2. ASSUME NEW x \in DOMAIN t
        PROVE  /\ IsNode(u[x]) /\ u[x].partial = t[x].partial /\ u[x].hash = t[x].hash
               /\ x # s => u[x].value = t[x].value
               /\ x = s => u[x].value = v
    <2>1. IsNode(t[x])
      BY NodeOfTrie
    <2> QED
      BY <1>1, <2>1 DEF IsNode
  <1> QED
    BY <1>1, <1>2 DEF SameShape, u

-----------------------------------------------------------------------------
(* A new leaf under a free index.                                          *)

(* u is t with the node r as a child of s, under the free index i. *)
IsGrown(t, s, i, r, u) ==
  LET k == Child(t, s, i)
  IN  /\ IsTree(u) /\ u # EmptyTrie
      /\ k \notin DOMAIN t
      /\ DOMAIN u = DOMAIN t \cup {k} /\ u[k] = r
      /\ \A x \in DOMAIN t : /\ u[x] = t[x] /\ Full(u, x) = Full(t, x)
                             /\ \A j : Child(u, x, j) = Child(t, x, j)
                             /\ x # s => Kids(u, x) = Kids(t, x)
      /\ Kids(u, s) = Kids(t, s) \cup {i} /\ Kids(u, k) = {}

LEMMA LeafHangs ==
  ASSUME NEW t, IsTree(t), NEW s \in DOMAIN t, NEW i \in Index \ Kids(t, s),
         NEW r, IsNode(r)
  PROVE  IsGrown(t, s, i, r, Holding(t, Child(t, s, i), r))
  <1> DEFINE u == Holding(t, Child(t, s, i), r)
             k == Child(t, s, i)
             f == Full(t, s)
  <1>1. /\ k \in Seq(Index) /\ Len(k) = Len(f) + 1 /\ Len(f) \in Nat /\ f \in Seq(Index)
        /\ Front(k) = f /\ IsPrefix(f, k) /\ IsPrefix(s, k) /\ k # s /\ k # Root
        /\ s \in Seq(Index) /\ Last(k) = i /\ k = Append(f, i) /\ Len(k) \in Nat
    BY ChildType, FullExtends DEF IsTree, Child
  <1>2. k \notin DOMAIN t
    BY DEF Kids
  <1> HIDE DEF k
  <1>3. /\ DOMAIN u = DOMAIN t \cup {k} /\ u[k] = r
        /\ \A x \in DOMAIN t : u[x] = t[x]
    BY <1>2 DEF Holding, k
  <1> HIDE DEF u
  <1>4. /\ \A x \in DOMAIN t : Full(u, x) = Full(t, x)
        /\ \A x \in DOMAIN t : \A j : Child(u, x, j) = Child(t, x, j)
    BY <1>3 DEF Full, Child
  <1>5. u # EmptyTrie /\ IsTrie(u)
    <2>1. u # EmptyTrie /\ Root \in DOMAIN t
      BY <1>3, HasRoot DEF EmptyTrie, IsTree
    <2>2. \A x \in DOMAIN u : x \in Seq(Index) /\ IsNode(u[x])
      BY <1>1, <1>3, NodeOfTrie, FullExtends DEF IsTree
    <2> QED
      BY <1>3, <2>1, <2>2 DEF IsTrie, IsNode
  <1>6. ASSUME NEW x \in DOMAIN t PROVE ~IsPrefix(k, x)
    <2>1. SUFFICES ASSUME IsPrefix(k, x) PROVE FALSE
      OBVIOUS
    <2>2. x \in Seq(Index) /\ Len(x) \in Nat /\ Len(k) <= Len(x)
      BY <1>1, <2>1, FullExtends, PrefixOrder DEF IsTree
    <2>3. IsPrefix(s, x) /\ s # x
      <3>1. Len(s) \in Nat /\ Len(s) <= Len(f)
        BY FullExtends DEF IsTree
      <3>2. Len(s) # Len(x)
        BY <1>1, <2>2, <3>1
      <3> QED
        BY <1>1, <2>1, <2>2, <3>2, PrefixTransitive
    <2>4. PICK j \in Kids(t, s) : IsPrefix(Child(t, s, j), x)
      BY <2>3, BelowAChild
    <2>5. /\ Child(t, s, j) \in DOMAIN t /\ Child(t, s, j) \in Seq(Index)
          /\ Len(Child(t, s, j)) = Len(k)
      BY <1>1, ChildType DEF Kids, IsTree
    <2>6. Child(t, s, j) = k
      <3>1. Len(Child(t, s, j)) <= Len(k) /\ Len(Child(t, s, j)) >= Len(k)
        BY <1>1, <2>5
      <3>2. IsPrefix(Child(t, s, j), k)
        BY <1>1, <2>1, <2>2, <2>4, <2>5, <3>1, PrefixesAgree
      <3> QED
        BY <1>1, <2>5, <3>1, <3>2, PrefixOrder
    <2> QED
      BY <1>2, <2>5, <2>6
  <1>7. Apart(u)
    <2>1. ASSUME NEW x \in DOMAIN t, IsPrefix(x, k)
          PROVE  IsPrefix(Full(t, x), k) /\ Full(t, x) # k
      <3>1. x # k /\ x \in Seq(Index) /\ Full(t, x) \in Seq(Index)
        BY <1>2, FullExtends DEF IsTree
      <3>2. IsPrefix(x, f)
        BY <1>1, <2>1, <3>1, PrefixOfAppend
      <3>3. CASE x = s
        BY <1>1, <3>3
      <3>4. CASE x # s
        <4>1. IsPrefix(Full(t, x), s) /\ Len(Full(t, x)) < Len(s)
          BY <3>2, <3>4, OnTheWay
        <4>2. IsPrefix(Full(t, x), k)
          BY <1>1, <3>1, <4>1, PrefixTransitive
        <4>3. Len(s) <= Len(f) /\ Len(s) \in Nat /\ Len(Full(t, x)) \in Nat
          BY FullExtends DEF IsTree
        <4>4. Len(Full(t, x)) # Len(k)
          BY <1>1, <4>1, <4>3
        <4> QED
          BY <4>2, <4>4
      <3> QED
        BY <3>3, <3>4
    <2> QED
      BY <1>3, <1>4, <1>6, <2>1 DEF Apart, IsStrictPrefix, IsTree
  <1>8. NoOrphans(u)
    <2>1. Full(u, s) = Front(k)
      BY <1>1, <1>4
    <2> QED
      BY <1>3, <1>4, <2>1 DEF NoOrphans, IsTree
  <1>9. ASSUME NEW x \in DOMAIN t, x # s PROVE Kids(u, x) = Kids(t, x)
    <2>1. \A j \in Index : Child(t, x, j) # k
      BY <1>9, ParentIsUnique DEF k
    <2> QED
      BY <1>3, <1>4, <2>1 DEF Kids
  <1>10. Kids(u, s) = Kids(t, s) \cup {i}
    <2>1. \A j \in Index : Child(t, s, j) = k <=> j = i
      BY ParentIsUnique DEF k
    <2> QED
      BY <1>3, <1>4, <2>1 DEF Kids
  <1>11. Kids(u, k) = {}
    <2> SUFFICES ASSUME NEW j \in Kids(u, k) PROVE FALSE
      OBVIOUS
    <2>1. k \in DOMAIN u /\ j \in Index /\ Child(u, k, j) \in DOMAIN u
      BY <1>3 DEF Kids
    <2>2. IsPrefix(k, Child(u, k, j)) /\ Child(u, k, j) # k
      BY <1>5, <2>1, ChildType
    <2> QED
      BY <1>3, <1>6, <2>1, <2>2
  <1> QED
    BY <1>2, <1>3, <1>4, <1>5, <1>7, <1>8, <1>9, <1>10, <1>11
       DEF IsGrown, IsTree, u, k

-----------------------------------------------------------------------------
(* A node split in two inside its partial path.                            *)

LEMMA PathSplit ==
  ASSUME NEW S, NEW q \in Seq(S), NEW p \in Seq(S), IsPrefix(p, q),
         NEW n \in Len(p) .. Len(q)
  PROVE  /\ SubSeq(q, Len(p) + 1, n) \in Seq(S)
         /\ p \o SubSeq(q, Len(p) + 1, n) = SubSeq(q, 1, n)
  <1>1. Len(p) \in Nat /\ Len(q) \in Nat /\ Len(p) <= Len(q)
    BY PrefixOrder
  <1>2. p = SubSeq(q, 1, Len(p))
    BY <1>1, PrefixIsInitial
  <1>3. 1 \in 1 .. Len(q) + 1 /\ Len(p) \in 1 - 1 .. Len(q) /\ n \in Len(p) .. Len(q)
    BY <1>1
  <1>4. SubSeq(q, 1, Len(p)) \o SubSeq(q, Len(p) + 1, n) = SubSeq(q, 1, n)
    BY <1>3, ConcatAdjacentSubSeq
  <1>5. SubSeq(q, Len(p) + 1, n) \in Seq(S)
    <2>1. \A k \in Len(p) + 1 .. n : q[k] \in S
      <3>1. \A k \in Len(p) + 1 .. n : k \in 1 .. Len(q)
        BY <1>1
      <3> QED
        BY <3>1, ElementOfSeq
    <2>2. Len(p) + 1 \in Int /\ n \in Int
      BY <1>1
    <2> QED
      BY <2>1, <2>2, SubSeqProperties
  <1> QED
    BY <1>2, <1>4, <1>5

(* u is t with the node of s pushed to the slot m, n indices below it, and *)
(* the node new in its place.                                              *)
IsPushed(t, s, n, m, new, old, u) ==
  /\ IsTree(u) /\ u # EmptyTrie
  /\ m \notin DOMAIN t
  /\ DOMAIN u = DOMAIN t \cup {m} /\ u[m] = old /\ u[s] = new
  /\ Full(u, s) = SubSeq(Full(t, s), 1, n) /\ Full(u, m) = Full(t, s)
  /\ Kids(u, m) = Kids(t, s) /\ Kids(u, s) = {Full(t, s)[n + 1]}
  /\ Child(u, s, Full(t, s)[n + 1]) = m
  /\ \A x \in DOMAIN t \ {s} : /\ u[x] = t[x] /\ Full(u, x) = Full(t, x)
                               /\ \A j : Child(u, x, j) = Child(t, x, j)
                               /\ Kids(u, x) = Kids(t, x)
  /\ \A j : Child(u, m, j) = Child(t, s, j)

LEMMA NodePushed ==
  ASSUME NEW t, IsTree(t), NEW s \in DOMAIN t,
         NEW n \in Len(s) .. Len(Full(t, s)) - 1,
         NEW new, IsNode(new), new.partial = SubSeq(Full(t, s), Len(s) + 1, n),
         NEW old, IsNode(old), old.partial = Beyond(Full(t, s), n + 1)
  PROVE  LET m == SubSeq(Full(t, s), 1, n + 1)
         IN  IsPushed(t, s, n, m, new, old, Holding(Holding(t, s, new), m, old))
  <1> DEFINE f == Full(t, s)
             m == SubSeq(f, 1, n + 1)
             h == SubSeq(f, 1, n)
             i == f[n + 1]
             u == Holding(Holding(t, s, new), m, old)
  <1>1. /\ s \in Seq(Index) /\ f \in Seq(Index) /\ IsPrefix(s, f)
        /\ Len(s) \in Nat /\ Len(f) \in Nat /\ Len(s) <= Len(f)
        /\ n \in Nat /\ n + 1 <= Len(f) /\ Len(s) <= n
    BY FullExtends DEF IsTree
  <1> HIDE DEF f
  <1>2. /\ h \in Seq(Index) /\ Len(h) = n /\ IsPrefix(h, f)
        /\ m \in Seq(Index) /\ Len(m) = n + 1 /\ IsPrefix(m, f)
    <2>1. n \in 0 .. Len(f) /\ n + 1 \in 0 .. Len(f)
      BY <1>1
    <2> QED
      BY <1>1, <2>1, PrefixIsInitial
  <1> HIDE DEF h, m
  <1>3. i \in Index /\ m = Append(h, i) /\ Front(m) = h /\ IsPrefix(h, m) /\ m # << >>
    <2>1. i \in Index /\ Append(h, i) = SubSeq(f, 1, n + 1)
      <3>1. Len(h) < Len(f)
        BY <1>1, <1>2
      <3>2. /\ f[Len(h) + 1] \in Index
            /\ Append(h, f[Len(h) + 1]) = SubSeq(f, 1, Len(h) + 1)
        BY <1>1, <1>2, <3>1, PrefixContinues
      <3> QED
        BY <1>2, <3>2
    <2>2. i \in Index /\ m = Append(h, i)
      BY <2>1 DEF m
    <2> HIDE DEF i
    <2> QED
      BY <1>2, <2>2, FrontAppend, PrefixOfAppend, AppendProperties
  <1>4. IsPrefix(s, h) /\ IsPrefix(s, m) /\ s # m
    <2>1. Len(s) <= Len(h) /\ Len(s) <= Len(m) /\ Len(s) # Len(m)
      BY <1>1, <1>2
    <2> QED
      BY <1>1, <1>2, <2>1, PrefixesAgree
  <1>5. m \notin DOMAIN t
    <2>1. SUFFICES ASSUME m \in DOMAIN t PROVE FALSE
      OBVIOUS
    <2>2. Len(f) < Len(m)
      BY <1>4, <2>1, Below DEF f
    <2> QED
      BY <1>1, <1>2, <2>2
  <1>6. /\ DOMAIN u = DOMAIN t \cup {m} /\ u[m] = old /\ u[s] = new
        /\ \A x \in DOMAIN t \ {s} : u[x] = t[x]
    BY <1>4, <1>5 DEF Holding
  <1> HIDE DEF u
  <1>7. Full(u, s) = h /\ Full(u, m) = f
    <2>1. s \o SubSeq(f, Len(s) + 1, n) = h
      <3>1. n \in Len(s) .. Len(f)
        BY <1>1
      <3> QED
        BY <1>1, <3>1, PathSplit DEF h
    <2>2. m \o SubSeq(f, Len(m) + 1, Len(f)) = f
      <3>1. Len(f) \in Len(m) .. Len(f)
        BY <1>1, <1>2
      <3>2. m \o SubSeq(f, Len(m) + 1, Len(f)) = SubSeq(f, 1, Len(f))
        BY <1>1, <1>2, <3>1, PathSplit
      <3> QED
        BY <1>1, <3>2, SubSeqFull
    <2> QED
      BY <1>2, <1>6, <2>1, <2>2 DEF Full, Beyond, f
  <1>8. \A x \in DOMAIN t \ {s} : /\ Full(u, x) = Full(t, x)
                                  /\ \A j : Child(u, x, j) = Child(t, x, j)
    BY <1>6 DEF Full, Child
  <1>9. \A j : Child(u, m, j) = Child(t, s, j)
    BY <1>7 DEF Child, f
  <1>10. u # EmptyTrie /\ IsTrie(u)
    <2>1. u # EmptyTrie /\ Root \in DOMAIN t
      BY <1>6, HasRoot DEF EmptyTrie, IsTree
    <2>2. \A x \in DOMAIN u : x \in Seq(Index) /\ IsNode(u[x])
      BY <1>2, <1>6, NodeOfTrie, FullExtends DEF IsTree
    <2> QED
      BY <1>6, <2>1, <2>2 DEF IsTrie, IsNode
  (* Another node's slot on the way to the old path lies above s. *)
  <1>11. ASSUME NEW x \in DOMAIN t \ {s}, IsPrefix(x, f)
         PROVE  IsPrefix(Full(t, x), s) /\ Len(Full(t, x)) < Len(s)
    BY <1>11, OnTheWay DEF f
  <1>12. Apart(u)
    <2>1. ASSUME NEW x \in DOMAIN t \ {s}, IsPrefix(x, m)
          PROVE  IsPrefix(Full(u, x), m) /\ Full(u, x) # m
      <3>1. x \in Seq(Index) /\ Full(t, x) \in Seq(Index) /\ Len(Full(t, x)) \in Nat
        BY FullExtends DEF IsTree
      <3>2. IsPrefix(x, f)
        BY <1>1, <1>2, <2>1, <3>1, PrefixTransitive
      <3>3. IsPrefix(Full(t, x), s) /\ Len(Full(t, x)) < Len(s)
        BY <1>11, <3>2
      <3>4. IsPrefix(Full(t, x), m) /\ Len(Full(t, x)) # Len(m)
        BY <1>1, <1>2, <1>4, <3>1, <3>3, PrefixTransitive
      <3> QED
        BY <1>8, <3>4
    <2>2. ASSUME NEW x \in DOMAIN t, IsPrefix(s, x), x # s
          PROVE  IsPrefix(f, x) /\ f # x /\ IsPrefix(h, x) /\ h # x
      <3>1. x \in Seq(Index) /\ Len(x) \in Nat
        BY FullExtends DEF IsTree
      <3>2. IsPrefix(f, x) /\ Len(f) < Len(x)
        BY <2>2, Below DEF f
      <3>3. IsPrefix(h, x) /\ Len(h) # Len(x)
        BY <1>1, <1>2, <3>1, <3>2, PrefixTransitive
      <3> QED
        BY <1>1, <3>1, <3>2, <3>3
    <2>3. ASSUME NEW x \in DOMAIN t, IsPrefix(m, x)
          PROVE  IsPrefix(s, x) /\ x # s
      <3>1. x \in Seq(Index) /\ Len(m) <= Len(x)
        BY <1>2, <2>3, FullExtends, PrefixOrder DEF IsTree
      <3>2. Len(s) # Len(x)
        BY <1>1, <1>2, <3>1
      <3> QED
        BY <1>1, <1>2, <1>4, <2>3, <3>1, <3>2, PrefixTransitive
    <2>4. h # m
      BY <1>1, <1>2
    <2>5. ASSUME NEW x \in DOMAIN u, NEW y \in DOMAIN u, IsPrefix(x, y), x # y
          PROVE  IsPrefix(Full(u, x), y) /\ Full(u, x) # y
      <3>1. CASE x \in DOMAIN t \ {s} /\ y \in DOMAIN t
        <4>1. IsPrefix(Full(t, x), y) /\ Full(t, x) # y
          BY <2>5, <3>1 DEF IsTree, Apart, IsStrictPrefix
        <4> QED
          BY <1>8, <3>1, <4>1
      <3>2. CASE x \in DOMAIN t \ {s} /\ y = m
        BY <2>1, <2>5, <3>2
      <3>3. CASE x = s /\ y = m
        BY <1>3, <1>7, <2>4, <3>3
      <3>4. CASE x = s /\ y \in DOMAIN t
        BY <1>7, <2>2, <2>5, <3>4
      <3>5. CASE x = m /\ y \in DOMAIN t
        BY <1>7, <2>2, <2>3, <2>5, <3>5
      <3> QED
        BY <1>6, <2>5, <3>1, <3>2, <3>3, <3>4, <3>5
    <2> QED
      BY <2>5 DEF Apart, IsStrictPrefix
  <1>13. NoOrphans(u)
    <2>1. ASSUME NEW x \in DOMAIN t, x # Root
          PROVE  \E p \in DOMAIN u : Full(u, p) = Front(x)
      <3>1. PICK p \in DOMAIN t : Full(t, p) = Front(x)
        BY <2>1 DEF IsTree, NoOrphans
      <3>2. CASE p = s
        BY <1>6, <1>7, <3>1, <3>2 DEF f
      <3>3. CASE p # s
        BY <1>6, <1>8, <3>1, <3>3
      <3> QED
        BY <3>2, <3>3
    <2>2. Full(u, s) = Front(m)
      BY <1>3, <1>7
    <2> QED
      BY <1>6, <2>1, <2>2 DEF NoOrphans
  <1>14. ASSUME NEW x \in DOMAIN t \ {s} PROVE Kids(u, x) = Kids(t, x)
    <2>1. ASSUME NEW j \in Index, Child(t, x, j) = m PROVE FALSE
      <3>1. Full(t, x) = h /\ x \in Seq(Index) /\ IsPrefix(x, Full(t, x))
        BY <1>3, <2>1, ChildType, FullExtends DEF IsTree
      <3>2. IsPrefix(x, f)
        BY <1>1, <1>2, <3>1, PrefixTransitive
      <3>3. Len(h) < Len(s)
        BY <1>11, <3>1, <3>2
      <3> QED
        BY <1>1, <1>2, <3>3
    <2> QED
      BY <1>6, <1>8, <2>1 DEF Kids
  <1>15. Kids(u, m) = Kids(t, s)
    <2>1. ASSUME NEW j \in Index PROVE Child(t, s, j) # m
      <3>1. Len(Child(t, s, j)) = Len(f) + 1
        BY ChildType DEF IsTree, f
      <3> QED
        BY <1>1, <1>2, <3>1
    <2> QED
      BY <1>6, <1>9, <2>1 DEF Kids
  <1>16. Kids(u, s) = {i} /\ Child(u, s, i) = m
    <2>1. Child(u, s, i) = m
      BY <1>3, <1>7 DEF Child
    <2>2. ASSUME NEW j \in Index, Child(u, s, j) \in DOMAIN u PROVE j = i
      <3>1. /\ Append(h, j) \in Seq(Index) /\ Len(Append(h, j)) = n + 1
            /\ Last(Append(h, j)) = j
        BY <1>2, AppendProperties, FrontAppend
      <3>2. Child(u, s, j) = Append(h, j)
        BY <1>7 DEF Child
      <3>3. Append(h, j) \notin DOMAIN t
        <4>1. SUFFICES ASSUME Append(h, j) \in DOMAIN t PROVE FALSE
          OBVIOUS
        <4>2. IsPrefix(s, Append(h, j))
          BY <1>1, <1>2, <1>4, PrefixOfAppend
        <4>3. Append(h, j) # s
          BY <1>1, <3>1
        <4>4. Len(f) < Len(Append(h, j))
          BY <4>1, <4>2, <4>3, Below DEF f
        <4> QED
          BY <1>1, <3>1, <4>4
      <3>4. Append(h, j) = Append(h, i)
        BY <1>3, <1>6, <2>2, <3>2, <3>3
      <3> QED
        BY <1>2, <1>3, <3>4, AppendInjective
    <2> QED
      BY <1>3, <1>6, <2>1, <2>2 DEF Kids
  <1> QED
    BY <1>5, <1>6, <1>7, <1>8, <1>9, <1>10, <1>12, <1>13, <1>14, <1>15, <1>16
       DEF IsPushed, IsTree, u, m, f, h

-----------------------------------------------------------------------------
(* An only child that takes its parent's place.                            *)

(* u is t with the child of s under i in the place of s. *)
IsMerged(t, s, i, u) ==
  LET c == Child(t, s, i)
  IN  /\ OnlyChild(t, s) = c /\ c \in DOMAIN t /\ c # s /\ c # Root
      /\ IsTree(u) /\ u # EmptyTrie
      /\ DOMAIN u = DOMAIN t \ {c}
      /\ u[s].value = t[c].value /\ u[s].hash = t[s].hash
      /\ Full(u, s) = Full(t, c) /\ Kids(u, s) = Kids(t, c)
      /\ \A j : Child(u, s, j) = Child(t, c, j)
      /\ \A x \in DOMAIN t \ {s, c} :
           /\ u[x] = t[x] /\ Full(u, x) = Full(t, x)
           /\ \A j : Child(u, x, j) = Child(t, x, j)
           /\ Kids(u, x) = Kids(t, x)

LEMMA ChildMerged ==
  ASSUME NEW t, IsTree(t), NEW s \in DOMAIN t, NEW i \in Index, Kids(t, s) = {i}
  PROVE  IsMerged(t, s, i, MergeOnlyChild(t, s))
  <1> DEFINE f == Full(t, s)
             c == Child(t, s, i)
             u == MergeOnlyChild(t, s)
             path == Join(t[s].partial, i, t[c].partial)
  <1>1. c \in DOMAIN t /\ OnlyChild(t, s) = c
    BY DEF Kids, OnlyChild
  <1>2. /\ s \in Seq(Index) /\ f \in Seq(Index) /\ c \in Seq(Index)
        /\ t[s].partial \in Seq(Index) /\ t[c].partial \in Seq(Index)
        /\ Full(t, c) \in Seq(Index)
        /\ Len(s) \in Nat /\ Len(f) \in Nat /\ Len(c) = Len(f) + 1 /\ Len(s) <= Len(f)
        /\ Len(Full(t, c)) \in Nat /\ Len(c) <= Len(Full(t, c))
        /\ IsPrefix(s, c) /\ c # s /\ c # Root /\ Last(c) = i /\ Front(c) = f
        /\ c = Append(f, i)
    BY <1>1, FullType, FullExtends, ChildType DEF IsTree, Child
  <1> HIDE DEF c
  <1>3. path \in Seq(Index) /\ s \o path = Full(t, c)
    <2> DEFINE p == t[s].partial
               q == t[c].partial
    <2> DEFINE e == <<i>>
               pe == p \o e
    <2>1. p \in Seq(Index) /\ q \in Seq(Index) /\ e \in Seq(Index)
      BY <1>2
    <2>2. f = s \o p /\ Full(t, c) = c \o q
      BY DEF Full
    <2>3. path = pe \o q
      BY DEF Join
    <2> HIDE DEF p, q, f, path
    <2>4. c = f \o e
      BY <1>2, AppendIsConcat
    <2> HIDE DEF e
    <2>5. pe \in Seq(Index)
      BY <2>1, ConcatProperties
    <2>6. s \in Seq(Index)
      BY <1>2
    <2>7. (s \o p) \o e = s \o pe
      BY <2>1, <2>6, ConcatAssociative
    <2> HIDE DEF pe
    <2>8. pe \o q \in Seq(Index)
      BY <2>1, <2>5, ConcatProperties
    <2>9. (s \o pe) \o q = s \o (pe \o q)
      <3>1. \A x, y, z \in Seq(Index) : (x \o y) \o z = x \o (y \o z)
        BY ConcatAssociative
      <3> QED
        BY <2>1, <2>5, <2>6, <3>1, Zenon
    <2>10. Full(t, c) = ((s \o p) \o e) \o q
      BY <2>2, <2>4
    <2>11. Full(t, c) = s \o path
      BY <2>3, <2>7, <2>9, <2>10
    <2>12. path \in Seq(Index)
      BY <2>3, <2>8
    <2> QED
      BY <2>11, <2>12
  <1>4. /\ DOMAIN u = DOMAIN t \ {c}
        /\ u[s] = [partial |-> path, value |-> t[c].value, hash |-> t[s].hash]
        /\ \A x \in DOMAIN t \ {s, c} : u[x] = t[x]
    BY <1>1, <1>2 DEF MergeOnlyChild
  <1> HIDE DEF u, path, f
  <1>5. /\ u[s].value = t[c].value /\ u[s].hash = t[s].hash /\ u[s].partial = path
        /\ IsNode(u[s]) /\ Full(u, s) = Full(t, c)
    BY <1>3, <1>4 DEF IsNode, Full
  <1>6. /\ \A x \in DOMAIN t \ {s, c} : /\ Full(u, x) = Full(t, x)
                                        /\ \A j : Child(u, x, j) = Child(t, x, j)
        /\ \A j : Child(u, s, j) = Child(t, c, j)
    BY <1>4, <1>5 DEF Full, Child
  <1>7. u # EmptyTrie /\ IsTrie(u)
    <2>1. u # EmptyTrie /\ Root \in DOMAIN u
      <3>1. Root \in DOMAIN t
        BY HasRoot DEF IsTree
      <3>2. Root \in DOMAIN u
        BY <1>2, <1>4, <3>1
      <3> QED
        BY <3>2 DEF EmptyTrie
    <2>2. \A x \in DOMAIN u : x \in Seq(Index) /\ IsNode(u[x])
      BY <1>2, <1>4, <1>5, NodeOfTrie, FullExtends DEF IsTree
    <2> QED
      BY <2>1, <2>2 DEF IsTrie, IsNode
  <1>8. Apart(u)
    <2>1. ASSUME NEW y \in DOMAIN t \ {c}, IsPrefix(s, y), s # y
          PROVE  IsPrefix(Full(t, c), y) /\ Full(t, c) # y
      <3>1. IsPrefix(c, y)
        BY <2>1, BelowAChild DEF c
      <3>2. Len(Full(t, c)) < Len(y) /\ IsPrefix(Full(t, c), y)
        BY <1>1, <2>1, <3>1, Below
      <3> QED
        BY <1>2, <3>2
    <2>2. ASSUME NEW x \in DOMAIN u, NEW y \in DOMAIN u, IsPrefix(x, y), x # y
          PROVE  IsPrefix(Full(u, x), y) /\ Full(u, x) # y
      <3>1. CASE x = s
        BY <1>4, <1>5, <2>1, <2>2, <3>1
      <3>2. CASE x # s
        <4>1. IsPrefix(Full(t, x), y) /\ Full(t, x) # y
          BY <1>4, <2>2 DEF IsTree, Apart, IsStrictPrefix
        <4> QED
          BY <1>4, <1>6, <3>2, <4>1
      <3> QED
        BY <3>1, <3>2
    <2> QED
      BY <2>2 DEF Apart, IsStrictPrefix
  <1>9. ASSUME NEW x \in DOMAIN t \ {s, c}, NEW j \in Index
        PROVE  Child(t, x, j) # c
    <2>1. i \in Index /\ x # s
      BY <1>9
    <2> QED
      BY <2>1, ParentIsUnique DEF c
  <1>10. NoOrphans(u)
    <2>1. ASSUME NEW x \in DOMAIN t \ {c}, x # Root
          PROVE  \E p \in DOMAIN u : Full(u, p) = Front(x)
      <3>1. PICK p \in DOMAIN t : Full(t, p) = Front(x)
        BY <2>1 DEF IsTree, NoOrphans
      <3>2. CASE p = c
        BY <1>2, <1>4, <1>5, <3>1, <3>2
      <3>3. CASE p = s
        <4>1. x \in Seq(Index)
          BY FullExtends DEF IsTree
        <4>2. x = Append(f, Last(x)) /\ Last(x) \in Index
          BY <2>1, <3>1, <3>3, <4>1, FrontType DEF f, Root
        <4>3. Child(t, s, Last(x)) = x
          BY <4>2 DEF Child, f
        <4>4. Last(x) = i
          BY <4>2, <4>3 DEF Kids
        <4> QED
          BY <1>2, <2>1, <4>2, <4>4
      <3>4. CASE p # c /\ p # s
        BY <1>4, <1>6, <3>1, <3>4
      <3> QED
        BY <3>2, <3>3, <3>4
    <2> QED
      BY <1>4, <2>1 DEF NoOrphans
  <1>11. \A x \in DOMAIN t \ {s, c} : Kids(u, x) = Kids(t, x)
    BY <1>4, <1>6, <1>9 DEF Kids
  <1>12. Kids(u, s) = Kids(t, c)
    <2>1. \A j \in Index : Child(t, c, j) # c
      BY <1>1, ChildType DEF IsTree
    <2> QED
      BY <1>4, <1>6, <2>1 DEF Kids
  <1> QED
    BY <1>1, <1>2, <1>4, <1>5, <1>6, <1>7, <1>8, <1>10, <1>11, <1>12
       DEF IsMerged, IsTree, u, c

-----------------------------------------------------------------------------
(* A subtree that leaves.                                                  *)

(* u is t without the slot d and what is under it. *)
IsCut(t, d, u) ==
  /\ IsTree(u) /\ u # EmptyTrie
  /\ DOMAIN u = {s \in DOMAIN t : ~IsPrefix(d, s)}
  /\ \A x \in DOMAIN u :
       /\ u[x] = t[x] /\ Full(u, x) = Full(t, x)
       /\ \A j : Child(u, x, j) = Child(t, x, j)
       /\ Kids(u, x) = {j \in Kids(t, x) : Child(t, x, j) # d}

LEMMA SubtreeDetached ==
  ASSUME NEW t, IsTree(t), NEW d \in DOMAIN t, d # Root
  PROVE  IsCut(t, d, Detached(t, d))
  <1> DEFINE u == Detached(t, d)
  <1>1. /\ DOMAIN u = {s \in DOMAIN t : ~IsPrefix(d, s)}
        /\ \A x \in DOMAIN u : u[x] = t[x]
    BY DEF Detached, Restrict
  <1> HIDE DEF u
  <1>2. d \in Seq(Index) /\ Len(d) \in Nat
    BY FullExtends DEF IsTree
  <1>3. Root \in DOMAIN u
    <2>1. Root \in DOMAIN t /\ Root \in Seq(Index) /\ Len(Root) = 0
      BY HasRoot DEF IsTree, Root
    <2>2. ~IsPrefix(d, Root)
      <3>1. SUFFICES ASSUME IsPrefix(d, Root) PROVE d = Root
        OBVIOUS
      <3>2. Len(d) >= Len(Root)
        BY <1>2, <2>1
      <3> QED
        BY <1>2, <2>1, <3>1, <3>2, PrefixOrder
    <2> QED
      BY <1>1, <2>1, <2>2
  <1>4. \A x \in DOMAIN u : /\ Full(u, x) = Full(t, x)
                            /\ \A j : Child(u, x, j) = Child(t, x, j)
    BY <1>1 DEF Full, Child
  <1>5. u # EmptyTrie /\ IsTrie(u)
    <2>1. \A x \in DOMAIN u : x \in Seq(Index) /\ IsNode(u[x])
      BY <1>1, NodeOfTrie, FullExtends DEF IsTree
    <2> QED
      BY <1>3, <2>1 DEF IsTrie, IsNode, EmptyTrie
  <1>6. Apart(u)
    BY <1>1, <1>4 DEF Apart, IsTree
  <1>7. NoOrphans(u)
    <2>1. ASSUME NEW x \in DOMAIN u, x # Root
          PROVE  \E p \in DOMAIN u : Full(u, p) = Front(x)
      <3>1. PICK p \in DOMAIN t : Full(t, p) = Front(x)
        BY <1>1, <2>1 DEF IsTree, NoOrphans
      <3>2. /\ x \in Seq(Index) /\ Front(x) \in Seq(Index) /\ IsPrefix(Front(x), x)
            /\ p \in Seq(Index) /\ IsPrefix(p, Front(x))
        BY <1>1, <2>1, <3>1, FullExtends, FrontType, PrefixOfFront DEF IsTree, Root
      <3>3. IsPrefix(p, x)
        BY <3>2, PrefixTransitive
      <3>4. ~IsPrefix(d, p)
        BY <1>1, <1>2, <2>1, <3>2, <3>3, PrefixTransitive
      <3> QED
        BY <1>1, <1>4, <3>1, <3>4
    <2> QED
      BY <2>1 DEF NoOrphans
  <1>8. ASSUME NEW x \in DOMAIN u
        PROVE  Kids(u, x) = {j \in Kids(t, x) : Child(t, x, j) # d}
    <2>1. ASSUME NEW j \in Index, IsPrefix(d, Child(t, x, j)) PROVE Child(t, x, j) = d
      <3>1. SUFFICES ASSUME Child(t, x, j) # d PROVE FALSE
        OBVIOUS
      <3>2. x \in DOMAIN t /\ ~IsPrefix(d, x)
        BY <1>1
      <3>3. Full(t, x) \in Seq(Index) /\ Child(t, x, j) = Append(Full(t, x), j)
        BY <3>2, FullExtends DEF IsTree, Child
      <3>4. IsPrefix(d, Full(t, x))
        BY <1>2, <2>1, <3>1, <3>3, PrefixOfAppend
      <3>5. d # x
        BY <1>2, <3>2, PrefixOrder
      <3> QED
        BY <3>2, <3>4, <3>5, OnTheWay
    <2>2. IsPrefix(d, d)
      BY <1>2, PrefixOrder
    <2> QED
      BY <1>1, <1>4, <2>1, <2>2 DEF Kids
  <1> QED
    BY <1>1, <1>4, <1>5, <1>6, <1>7, <1>8 DEF IsCut, IsTree, u

-----------------------------------------------------------------------------
(* What Lookup finds.                                                      *)

(* What a node answers when the key is its own. *)
Answer(r) == IF r.value = None THEN None ELSE r.value.data

(* The recursion of Lookup: f answers for the nodes below s. *)
LookupAt(t, k, f, s) ==
  IF Full(t, s) = k THEN Answer(t[s])
  ELSE IF IsPrefix(Full(t, s), k) /\ k[Len(Full(t, s)) + 1] \in Kids(t, s)
    THEN f[Child(t, s, k[Len(Full(t, s)) + 1])]
  ELSE None

LookupFrom(t, k) == CHOOSE f : f = [s \in DOMAIN t |-> LookupAt(t, k, f, s)]

LEMMA LookupIsFrom ==
  ASSUME NEW t, NEW k
  PROVE  Lookup(t, k) = IF t = EmptyTrie THEN None ELSE LookupFrom(t, k)[Root]
  BY DEF Lookup, LookupFrom, LookupAt, Answer

(* The way to the node whose full path is k leads through the child under  *)
(* the next index of k.                                                    *)
LEMMA KeyLeadsDown ==
  ASSUME NEW t, IsTree(t), NEW s \in DOMAIN t, NEW x \in DOMAIN t,
         IsPrefix(s, x), Full(t, s) # Full(t, x)
  PROVE  LET k == Full(t, x)
             i == k[Len(Full(t, s)) + 1]
         IN  /\ IsPrefix(Full(t, s), k) /\ i \in Kids(t, s)
             /\ IsPrefix(Child(t, s, i), x)
  <1> DEFINE f == Full(t, s)
             k == Full(t, x)
  <1>1. /\ s \in Seq(Index) /\ f \in Seq(Index) /\ Len(f) \in Nat
        /\ x \in Seq(Index) /\ k \in Seq(Index) /\ IsPrefix(x, k)
    BY FullExtends DEF IsTree
  <1>2. PICK i \in Kids(t, s) : IsPrefix(Child(t, s, i), x)
    BY BelowAChild
  <1> DEFINE c == Child(t, s, i)
  <1>3. i \in Index
    BY DEF Kids
  <1>4. c = Append(f, i)
    BY DEF Child
  <1> HIDE DEF f, k
  <1>5. /\ c \in Seq(Index) /\ Len(c) = Len(f) + 1 /\ IsPrefix(f, c) /\ c[Len(f) + 1] = i
    BY <1>1, <1>3, <1>4, AppendProperties, PrefixOfAppend
  <1> HIDE DEF c
  <1>6. IsPrefix(c, k)
    BY <1>1, <1>2, <1>5, PrefixTransitive DEF c
  <1>7. IsPrefix(f, k)
    BY <1>1, <1>5, <1>6, PrefixTransitive
  <1>8. k[Len(f) + 1] = i
    <2>1. \A n \in 1 .. Len(c) : c[n] = k[n]
      BY <1>1, <1>5, <1>6, PrefixByIndex
    <2> QED
      BY <1>1, <1>5, <2>1
  <1> QED
    BY <1>2, <1>7, <1>8 DEF f, k, c

(* Below a child lies what lies below its parent. *)
LEMMA BelowChild ==
  ASSUME NEW t, IsTree(t), NEW s \in DOMAIN t, NEW i \in Kids(t, s), NEW x \in DOMAIN t,
         IsPrefix(Child(t, s, i), x)
  PROVE  IsPrefix(s, x) /\ x # s /\ Full(t, x) # Full(t, s)
  <1>1. /\ i \in Index /\ s \in Seq(Index) /\ x \in Seq(Index) /\ IsTrie(t)
        /\ Len(s) \in Nat /\ Len(Full(t, s)) \in Nat /\ Len(s) <= Len(Full(t, s))
    BY FullExtends DEF IsTree, Kids
  <1> DEFINE c == Child(t, s, i)
  <1>2. c \in Seq(Index) /\ IsPrefix(s, c) /\ Len(c) = Len(Full(t, s)) + 1
    BY <1>1, ChildType
  <1>3. IsPrefix(c, x)
    OBVIOUS
  <1> HIDE DEF c
  <1>4. IsPrefix(s, x)
    BY <1>1, <1>2, <1>3, PrefixTransitive
  <1>5. Len(c) <= Len(x)
    BY <1>1, <1>2, <1>3, PrefixOrder
  <1>6. x # s
    BY <1>1, <1>2, <1>5
  <1> QED
    BY <1>4, <1>6, FullIsUnique

Found(t, k, s) == {x \in DOMAIN t : IsPrefix(s, x) /\ Full(t, x) = k}

LookupValue(t, k, s) ==
  IF Found(t, k, s) = {} THEN None ELSE Answer(t[CHOOSE x \in Found(t, k, s) : TRUE])

LEMMA LookupSolves ==
  ASSUME NEW t, IsTree(t), NEW k
  PROVE  \A s \in DOMAIN t :
           LookupValue(t, k, s)
             = LookupAt(t, k, [u \in DOMAIN t |-> LookupValue(t, k, u)], s)
  <1> SUFFICES ASSUME NEW s \in DOMAIN t
               PROVE  LookupValue(t, k, s)
                        = LookupAt(t, k, [u \in DOMAIN t |-> LookupValue(t, k, u)], s)
    OBVIOUS
  <1> DEFINE g == [u \in DOMAIN t |-> LookupValue(t, k, u)]
             i == k[Len(Full(t, s)) + 1]
             c == Child(t, s, i)
  <1>0. s \in Seq(Index) /\ IsPrefix(s, s)
    BY FullExtends, PrefixOrder DEF IsTree
  <1>1. CASE Full(t, s) = k
    <2>1. Found(t, k, s) = {s}
      BY <1>0, <1>1, FullIsUnique DEF Found
    <2> QED
      BY <1>1, <2>1 DEF LookupValue, LookupAt
  <1>2. CASE Full(t, s) # k /\ IsPrefix(Full(t, s), k) /\ i \in Kids(t, s)
    <2>1. c \in DOMAIN t
      BY <1>2 DEF Kids
    <2>2. Found(t, k, s) = Found(t, k, c)
      <3>1. ASSUME NEW x \in Found(t, k, s) PROVE x \in Found(t, k, c)
        BY <1>2, <3>1, KeyLeadsDown DEF Found
      <3>2. ASSUME NEW x \in Found(t, k, c) PROVE x \in Found(t, k, s)
        BY <1>2, <3>2, BelowChild DEF Found
      <3> QED
        BY <3>1, <3>2
    <2>3. LookupValue(t, k, s) = LookupValue(t, k, c)
      BY <2>2 DEF LookupValue
    <2>4. g[c] = LookupValue(t, k, c)
      BY <2>1
    <2>5. LookupAt(t, k, g, s) = g[c]
      BY <1>2 DEF LookupAt
    <2> QED
      BY <2>3, <2>4, <2>5
  <1>3. CASE Full(t, s) # k /\ ~(IsPrefix(Full(t, s), k) /\ i \in Kids(t, s))
    <2>1. Found(t, k, s) = {}
      BY <1>3, KeyLeadsDown DEF Found
    <2> QED
      BY <1>3, <2>1 DEF LookupValue, LookupAt
  <1> QED
    BY <1>1, <1>2, <1>3

(* Of slots of bounded length one is longest. *)
LEMMA Longest ==
  ASSUME NEW B, B # {}, NEW n \in Nat, \A x \in B : Len(x) \in 0 .. n
  PROVE  \E x \in B : \A y \in B : Len(y) <= Len(x)
  <1> DEFINE L == {m \in 0 .. n : \E x \in B : m = n - Len(x)}
  <1>1. IsBitmap(L)
    <2>1. IsFiniteSet(0 .. n) /\ L \subseteq 0 .. n
      BY FS_Interval
    <2> QED
      BY <2>1, FS_Subset DEF IsBitmap
  <1>2. L # {}
    <2>1. PICK x \in B : TRUE
      OBVIOUS
    <2>2. n - Len(x) \in 0 .. n
      OBVIOUS
    <2> QED
      BY <2>2
  <1>3. Lowest(L) \in L /\ \A m \in L : Lowest(L) <= m
    <2> HIDE DEF L
    <2> QED
      BY <1>1, <1>2, LowestMember
  <1>4. PICK x \in B : Lowest(L) = n - Len(x)
    BY <1>3
  <1>5. ASSUME NEW y \in B PROVE Len(y) <= Len(x)
    <2>1. n - Len(y) \in L
      OBVIOUS
    <2>2. n - Len(x) <= n - Len(y)
      BY <1>3, <1>4, <2>1
    <2> QED
      BY <2>2
  <1> QED
    BY <1>5

(* Whatever solves the recursion answers as LookupValue does. *)
LEMMA LookupHasOneSolution ==
  ASSUME NEW t, IsTree(t), NEW k \in Seq(Index),
         NEW f, \A s \in DOMAIN t : f[s] = LookupAt(t, k, f, s)
  PROVE  t # EmptyTrie => f[Root] = LookupValue(t, k, Root)
  <1> DEFINE g == [s \in DOMAIN t |-> LookupValue(t, k, s)]
             B == {s \in DOMAIN t : IsPrefix(s, k) /\ f[s] # LookupValue(t, k, s)}
  <1> SUFFICES ASSUME t # EmptyTrie, f[Root] # LookupValue(t, k, Root) PROVE FALSE
    OBVIOUS
  <1>1. /\ Root \in DOMAIN t
        /\ Len(k) \in Nat
        /\ \A s \in DOMAIN t : s \in Seq(Index) /\ Len(s) \in Nat
    BY FullExtends, PrefixOrder DEF IsTree, IsTrie
  <1>2. Root \in B
    BY <1>1, PrefixOrder DEF Root
  <1>3. \A s \in B : Len(s) \in 0 .. Len(k)
    BY <1>1, PrefixOrder
  <1>4. PICK s \in B : \A u \in B : Len(u) <= Len(s)
    <2> HIDE DEF B
    <2> QED
      BY <1>1, <1>2, <1>3, Longest
  <1> DEFINE i == k[Len(Full(t, s)) + 1]
             c == Child(t, s, i)
  <1>5. s \in DOMAIN t /\ f[s] # LookupValue(t, k, s)
    BY <1>4
  <1>6. f[s] = LookupAt(t, k, f, s) /\ LookupValue(t, k, s) = LookupAt(t, k, g, s)
    BY <1>5, LookupSolves
  <1>7. Full(t, s) # k /\ IsPrefix(Full(t, s), k) /\ i \in Kids(t, s) /\ f[c] # g[c]
    <2> HIDE DEF g, c
    <2> QED
      BY <1>5, <1>6 DEF LookupAt, c
  <1>8. c \in DOMAIN t /\ f[c] # LookupValue(t, k, c)
    <2>1. c \in DOMAIN t
      BY <1>7 DEF Kids
    <2> QED
      BY <1>7, <2>1
  <1>9. /\ Full(t, s) \in Seq(Index) /\ Len(Full(t, s)) \in Nat /\ Len(s) \in Nat
        /\ Len(s) <= Len(Full(t, s))
    BY <1>5, FullExtends DEF IsTree
  <1>10. IsPrefix(c, k) /\ Len(c) = Len(Full(t, s)) + 1
    <2> DEFINE p == Full(t, s)
    <2>1. Len(p) < Len(k)
      BY <1>1, <1>7, <1>9, PrefixOrder
    <2>2. k[Len(p) + 1] \in Index /\ IsPrefix(Append(p, k[Len(p) + 1]), k)
      <3> HIDE DEF p
      <3> QED
        BY <1>7, <1>9, <2>1, PrefixContinues DEF p
    <2> QED
      BY <1>5, <2>2, ChildType DEF Child, IsTree
  <1>11. c \in B
    BY <1>8, <1>10
  <1> QED
    BY <1>4, <1>9, <1>10, <1>11

LEMMA LookupAnswers ==
  ASSUME NEW t, IsTree(t), t # EmptyTrie, NEW k \in Seq(Index)
  PROVE  Lookup(t, k) = LookupValue(t, k, Root)
  <1> DEFINE g == [s \in DOMAIN t |-> LookupValue(t, k, s)]
             Solves(f) == f = [s \in DOMAIN t |-> LookupAt(t, k, f, s)]
  <1>1. Solves(g)
    BY LookupSolves
  <1>2. LookupFrom(t, k) = CHOOSE f : Solves(f)
    BY DEF LookupFrom
  <1>3. Solves(LookupFrom(t, k))
    <2> HIDE DEF Solves
    <2> QED
      BY <1>1, <1>2
  <1>4. \A s \in DOMAIN t : LookupFrom(t, k)[s] = LookupAt(t, k, LookupFrom(t, k), s)
    BY <1>3
  <1> QED
    BY <1>4, LookupHasOneSolution, LookupIsFrom

(* `get` finds the node whose full path is the key, wherever it hangs.     *)
LEMMA LookupFinds ==
  ASSUME NEW t, IsTree(t), NEW k \in Seq(Index)
  PROVE  /\ \A x \in DOMAIN t : Full(t, x) = k => Lookup(t, k) = Answer(t[x])
         /\ (\A x \in DOMAIN t : Full(t, x) # k) => Lookup(t, k) = None
  <1>1. CASE t = EmptyTrie
    BY <1>1, LookupIsFrom DEF EmptyTrie
  <1>2. CASE t # EmptyTrie
    <2>1. Lookup(t, k) = LookupValue(t, k, Root)
      BY <1>2, LookupAnswers
    <2>2. \A x \in DOMAIN t : IsPrefix(Root, x)
      BY FullExtends, PrefixOrder DEF IsTree, Root
    <2>3. ASSUME NEW x \in DOMAIN t, Full(t, x) = k PROVE Lookup(t, k) = Answer(t[x])
      <3>1. Found(t, k, Root) = {x}
        BY <2>2, <2>3, FullIsUnique DEF Found
      <3> QED
        BY <2>1, <3>1 DEF LookupValue
    <2>4. ASSUME \A x \in DOMAIN t : Full(t, x) # k PROVE Lookup(t, k) = None
      <3>1. Found(t, k, Root) = {}
        BY <2>4 DEF Found
      <3> QED
        BY <2>1, <3>1 DEF LookupValue
    <2> QED
      BY <2>3, <2>4
  <1> QED
    BY <1>1, <1>2

-----------------------------------------------------------------------------
(* What Recover finds.                                                     *)

(* From s down to z every node but z is valueless with one child.          *)
ThinWay(t, s, z) ==
  /\ IsPrefix(s, z) /\ t[z].value # None
  /\ \A x \in DOMAIN t : IsPrefix(s, x) /\ IsPrefix(x, z) /\ x # z =>
       t[x].value = None /\ Cardinality(Kids(t, x)) = 1

RecoverAt(t, f, s) ==
  IF t[s].value # None THEN t[s].value.data
  ELSE IF Cardinality(Kids(t, s)) = 1 THEN f[OnlyChild(t, s)]
  ELSE None

RecoverFrom(t) == CHOOSE f : f = [s \in DOMAIN t |-> RecoverAt(t, f, s)]

LEMMA RecoverIsFrom ==
  ASSUME NEW t, NEW d
  PROVE  Recover(t, d) = RecoverFrom(t)[d]
  BY DEF Recover, RecoverFrom, RecoverAt

ThinEnds(t, s) == {z \in DOMAIN t : ThinWay(t, s, z)}

RecoverValue(t, s) ==
  IF ThinEnds(t, s) = {} THEN None ELSE t[CHOOSE z \in ThinEnds(t, s) : TRUE].value.data

(* The only child of a valueless node leads to where the node leads.       *)
LEMMA OnlyWayDown ==
  ASSUME NEW t, IsTree(t), NEW s \in DOMAIN t, t[s].value = None,
         Cardinality(Kids(t, s)) = 1
  PROVE  /\ OnlyChild(t, s) \in DOMAIN t
         /\ ThinEnds(t, s) = ThinEnds(t, OnlyChild(t, s))
         /\ Len(s) < Len(OnlyChild(t, s))
  <1> DEFINE c == OnlyChild(t, s)
  <1>1. PICK i \in Index : Kids(t, s) = {i}
    <2>1. Kids(t, s) \in SUBSET Index /\ IsFiniteSet(Kids(t, s))
      BY IndexAssumption, FS_Subset DEF Kids
    <2> QED
      BY <2>1, FS_Singleton
  <1>2. c = Child(t, s, i) /\ c \in DOMAIN t
    BY <1>1 DEF OnlyChild, Kids
  <1>3. /\ IsTrie(t) /\ s \in Seq(Index) /\ Len(s) \in Nat
        /\ Len(c) = Len(Full(t, s)) + 1 /\ IsPrefix(s, c)
        /\ Len(Full(t, s)) \in Nat /\ Len(s) <= Len(Full(t, s)) /\ c \in Seq(Index)
    BY <1>2, FullExtends, ChildType DEF IsTree
  <1>4. ASSUME NEW x \in DOMAIN t
        PROVE  IsPrefix(s, x) <=> x = s \/ IsPrefix(c, x)
    <2>1. IsPrefix(s, x) /\ x # s => IsPrefix(c, x)
      BY <1>1, <1>2, BelowAChild
    <2>2. IsPrefix(c, x) => IsPrefix(s, x)
      BY <1>1, <1>2, BelowChild
    <2> QED
      BY <1>3, <2>1, <2>2, PrefixOrder
  <1>5. ASSUME NEW z \in DOMAIN t PROVE ThinWay(t, s, z) <=> ThinWay(t, c, z)
    <2>1. t[z].value # None => z # s
      OBVIOUS
    <2> HIDE DEF c
    <2> QED
      BY <1>4, <2>1 DEF ThinWay
  <1> QED
    BY <1>2, <1>3, <1>5 DEF ThinEnds

LEMMA RecoverSolves ==
  ASSUME NEW t, IsTree(t)
  PROVE  \A s \in DOMAIN t :
           RecoverValue(t, s) = RecoverAt(t, [u \in DOMAIN t |-> RecoverValue(t, u)], s)
  <1> SUFFICES ASSUME NEW s \in DOMAIN t
               PROVE  RecoverValue(t, s)
                        = RecoverAt(t, [u \in DOMAIN t |-> RecoverValue(t, u)], s)
    OBVIOUS
  <1>0. s \in Seq(Index) /\ IsPrefix(s, s)
    BY FullExtends, PrefixOrder DEF IsTree
  <1>1. CASE t[s].value # None
    <2>1. ASSUME NEW x \in DOMAIN t, IsPrefix(s, x), IsPrefix(x, s) PROVE x = s
      <3>1. x \in Seq(Index)
        BY FullExtends DEF IsTree
      <3>2. Len(x) \in Nat /\ Len(s) \in Nat /\ Len(s) <= Len(x)
        BY <1>0, <2>1, <3>1, PrefixOrder
      <3> QED
        BY <1>0, <2>1, <3>1, <3>2, PrefixOrder
    <2>2. ThinEnds(t, s) = {s}
      BY <1>0, <1>1, <2>1 DEF ThinEnds, ThinWay
    <2> QED
      BY <1>1, <2>2 DEF RecoverValue, RecoverAt
  <1>2. CASE t[s].value = None /\ Cardinality(Kids(t, s)) = 1
    <2>1. OnlyChild(t, s) \in DOMAIN t /\ ThinEnds(t, s) = ThinEnds(t, OnlyChild(t, s))
      BY <1>2, OnlyWayDown
    <2> QED
      BY <1>2, <2>1 DEF RecoverValue, RecoverAt
  <1>3. CASE t[s].value = None /\ Cardinality(Kids(t, s)) # 1
    <2>1. ThinEnds(t, s) = {}
      BY <1>0, <1>3 DEF ThinEnds, ThinWay
    <2> QED
      BY <1>3, <2>1 DEF RecoverValue, RecoverAt
  <1> QED
    BY <1>1, <1>2, <1>3

(* A value at the end of a thin way is recovered. *)
LEMMA RecoverFinds ==
  ASSUME NEW t, IsTree(t), NEW s \in DOMAIN t, NEW z \in DOMAIN t, ThinWay(t, s, z)
  PROVE  Recover(t, s) = t[z].value.data
  <1> DEFINE f == RecoverFrom(t)
             g == [u \in DOMAIN t |-> RecoverValue(t, u)]
             Solves(h) == h = [u \in DOMAIN t |-> RecoverAt(t, h, u)]
             B == {u \in DOMAIN t : ThinWay(t, u, z) /\ f[u] # t[z].value.data}
  <1>1. Solves(f)
    <2>1. Solves(g)
      BY RecoverSolves
    <2>2. f = CHOOSE h : Solves(h)
      BY DEF RecoverFrom
    <2> HIDE DEF Solves, f, g
    <2> QED
      BY <2>1, <2>2
  <1>2. \A u \in DOMAIN t : f[u] = RecoverAt(t, f, u)
    BY <1>1
  <1>3. SUFFICES ASSUME B # {} PROVE FALSE
    <2>1. s \notin B
      BY <1>3
    <2> QED
      BY <2>1, RecoverIsFrom
  <1>4. Len(z) \in Nat /\ z \in Seq(Index)
    BY FullExtends DEF IsTree
  <1>5. \A u \in B : Len(u) \in 0 .. Len(z)
    <2>1. \A u \in DOMAIN t : u \in Seq(Index) /\ Len(u) \in Nat
      BY FullExtends DEF IsTree
    <2> QED
      BY <1>4, <2>1, PrefixOrder DEF ThinWay
  <1>6. PICK u \in B : \A y \in B : Len(y) <= Len(u)
    <2> HIDE DEF B
    <2> QED
      BY <1>3, <1>4, <1>5, Longest
  <1> HIDE DEF f
  <1>7. u \in DOMAIN t /\ ThinWay(t, u, z) /\ f[u] # t[z].value.data
    BY <1>6
  <1>8. u # z
    BY <1>2, <1>7 DEF RecoverAt, ThinWay
  <1>9. t[u].value = None /\ Cardinality(Kids(t, u)) = 1
    <2>1. u \in Seq(Index) /\ IsPrefix(u, u)
      BY <1>7, FullExtends, PrefixOrder DEF IsTree
    <2> QED
      BY <1>7, <1>8, <2>1 DEF ThinWay
  <1> DEFINE c == OnlyChild(t, u)
  <1>10. c \in DOMAIN t /\ ThinEnds(t, u) = ThinEnds(t, c) /\ Len(u) < Len(c)
    BY <1>7, <1>9, OnlyWayDown
  <1>11. f[u] = f[c]
    BY <1>2, <1>7, <1>9 DEF RecoverAt
  <1>12. ThinWay(t, c, z)
    <2>1. z \in ThinEnds(t, u)
      BY <1>7 DEF ThinEnds
    <2> HIDE DEF c
    <2> QED
      BY <1>10, <2>1 DEF ThinEnds
  <1>13. c \in B /\ Len(c) <= Len(u)
    BY <1>6, <1>7, <1>10, <1>11, <1>12
  <1>14. Len(u) \in Nat /\ Len(c) \in Nat
    BY <1>7, <1>10, FullExtends DEF IsTree
  <1> QED
    BY <1>10, <1>13, <1>14

-----------------------------------------------------------------------------
(* What an edit does to the keys and values of a trie.                     *)

Has(t, k, d) ==
  \E x \in DOMAIN t : Full(t, x) = k /\ t[x].value # None /\ t[x].value.data = d

Keeps(t, u) == \A k, d : Has(u, k, d) <=> Has(t, k, d)

Puts(t, u, k, v) == \A j, d : Has(u, j, d) <=> IF j = k THEN d = v ELSE Has(t, j, d)

Loses(t, u, K) == \A j, d : Has(u, j, d) <=> Has(t, j, d) /\ j \notin K

LEMMA HasOne ==
  ASSUME NEW t, IsTree(t), NEW x \in DOMAIN t, NEW d
  PROVE  Has(t, Full(t, x), d) <=> t[x].value # None /\ t[x].value.data = d
  BY FullIsUnique DEF Has

(* Values keep their data where only hashes and splices change.            *)
LEMMA SameValuesKeep ==
  ASSUME NEW t, NEW u, DOMAIN u = DOMAIN t,
         \A x \in DOMAIN t : /\ Full(u, x) = Full(t, x)
                             /\ u[x].value = None <=> t[x].value = None
                             /\ t[x].value # None => u[x].value.data = t[x].value.data
  PROVE  Keeps(t, u)
  BY DEF Keeps, Has

LEMMA ValuePutPuts ==
  ASSUME NEW t, IsTree(t), NEW s \in DOMAIN t, NEW u, DOMAIN u = DOMAIN t, NEW v,
         u[s].value # None, u[s].value.data = v,
         \A x \in DOMAIN t : /\ Full(u, x) = Full(t, x)
                             /\ x # s => u[x].value = t[x].value
  PROVE  Puts(t, u, Full(t, s), v)
  <1>1. \A x \in DOMAIN t : Full(t, x) = Full(t, s) <=> x = s
    BY FullIsUnique
  <1> QED
    BY <1>1 DEF Puts, Has

LEMMA ValueClearLoses ==
  ASSUME NEW t, IsTree(t), NEW s \in DOMAIN t, NEW u, DOMAIN u = DOMAIN t,
         u[s].value = None,
         \A x \in DOMAIN t : /\ Full(u, x) = Full(t, x)
                             /\ x # s => u[x].value = t[x].value
  PROVE  Loses(t, u, {Full(t, s)})
  <1>1. \A x \in DOMAIN t : Full(t, x) = Full(t, s) <=> x = s
    BY FullIsUnique
  <1> QED
    BY <1>1 DEF Loses, Has

LEMMA GrownPuts ==
  ASSUME NEW t, NEW s, NEW i, NEW r, NEW u, IsGrown(t, s, i, r, u),
         r.value # None
  PROVE  Puts(t, u, Full(u, Child(t, s, i)), r.value.data)
  <1> DEFINE c == Child(t, s, i)
             k == Full(u, c)
  <1>1. /\ IsTree(u) /\ c \notin DOMAIN t /\ DOMAIN u = DOMAIN t \cup {c} /\ u[c] = r
        /\ \A x \in DOMAIN t : u[x] = t[x] /\ Full(u, x) = Full(t, x)
    BY DEF IsGrown
  <1> HIDE DEF c
  <1>2. \A x \in DOMAIN u : Full(u, x) = k <=> x = c
    BY <1>1, FullIsUnique
  <1> HIDE DEF k
  <1>3. ASSUME NEW j, NEW d
        PROVE  Has(u, j, d) <=> IF j = k THEN d = r.value.data ELSE Has(t, j, d)
    <2>1. CASE j = k
      BY <1>1, <1>2, <2>1 DEF Has
    <2>2. CASE j # k
      BY <1>1, <1>2, <2>2 DEF Has
    <2> QED
      BY <2>1, <2>2
  <1> QED
    BY <1>3 DEF Puts, k, c

LEMMA PushedPuts ==
  ASSUME NEW t, NEW s \in DOMAIN t, NEW n, NEW m, NEW new, NEW old, NEW u,
         IsPushed(t, s, n, m, new, old, u), old.value = t[s].value
  PROVE  /\ new.value # None => Puts(t, u, Full(u, s), new.value.data)
         /\ new.value = None => Keeps(t, u)
  <1> DEFINE k == Full(u, s)
  <1>1. /\ IsTree(u) /\ m \notin DOMAIN t /\ DOMAIN u = DOMAIN t \cup {m}
        /\ u[m] = old /\ u[s] = new /\ Full(u, m) = Full(t, s) /\ s # m
        /\ \A x \in DOMAIN t \ {s} : u[x] = t[x] /\ Full(u, x) = Full(t, x)
    BY DEF IsPushed
  <1>2. \A x \in DOMAIN u : Full(u, x) = k <=> x = s
    BY <1>1, FullIsUnique
  <1> HIDE DEF k
  <1>3. ASSUME NEW j, NEW d
        PROVE  Has(t, j, d) <=> \E x \in DOMAIN u \ {s} :
                                  Full(u, x) = j /\ u[x].value # None /\ u[x].value.data = d
    <2>1. ASSUME Has(t, j, d)
          PROVE  \E x \in DOMAIN u \ {s} :
                   Full(u, x) = j /\ u[x].value # None /\ u[x].value.data = d
      <3>1. PICK x \in DOMAIN t : Full(t, x) = j /\ t[x].value # None /\ t[x].value.data = d
        BY <2>1 DEF Has
      <3>2. CASE x = s
        <4>1. m \in DOMAIN u \ {s} /\ u[m].value = t[s].value
          BY <1>1
        <4> QED
          BY <1>1, <3>1, <3>2, <4>1
      <3>3. CASE x # s
        BY <1>1, <3>1, <3>3
      <3> QED
        BY <3>2, <3>3
    <2>2. ASSUME NEW x \in DOMAIN u \ {s}, Full(u, x) = j, u[x].value # None,
                 u[x].value.data = d
          PROVE  Has(t, j, d)
      <3>1. CASE x = m
        BY <1>1, <2>2, <3>1 DEF Has
      <3>2. CASE x # m
        BY <1>1, <2>2, <3>2 DEF Has
      <3> QED
        BY <3>1, <3>2
    <2> QED
      BY <2>1, <2>2
  <1>4. ASSUME NEW j, NEW d
        PROVE  Has(u, j, d) <=> \/ Has(t, j, d)
                                \/ j = k /\ new.value # None /\ new.value.data = d
    BY <1>1, <1>2, <1>3 DEF Has
  <1>5. ASSUME NEW d PROVE ~Has(t, k, d)
    BY <1>2, <1>3
  <1> QED
    BY <1>4, <1>5 DEF Puts, Keeps, k

LEMMA MergedLoses ==
  ASSUME NEW t, IsTree(t), NEW s \in DOMAIN t, NEW i, NEW u, IsMerged(t, s, i, u)
  PROVE  /\ Loses(t, u, {Full(t, s)})
         /\ t[s].value = None => Keeps(t, u)
  <1> DEFINE c == Child(t, s, i)
             k == Full(t, s)
  <1>1. /\ c \in DOMAIN t /\ c # s /\ DOMAIN u = DOMAIN t \ {c}
        /\ u[s].value = t[c].value /\ Full(u, s) = Full(t, c)
        /\ \A x \in DOMAIN t \ {s, c} : u[x] = t[x] /\ Full(u, x) = Full(t, x)
    BY DEF IsMerged
  <1> HIDE DEF c
  <1>2. \A x \in DOMAIN t : Full(t, x) = k <=> x = s
    BY FullIsUnique
  <1> HIDE DEF k
  <1>3. ASSUME NEW j, NEW d
        PROVE  Has(u, j, d) <=> \E x \in DOMAIN t \ {s} :
                                  Full(t, x) = j /\ t[x].value # None /\ t[x].value.data = d
    <2>1. ASSUME NEW x \in DOMAIN u, Full(u, x) = j, u[x].value # None,
                 u[x].value.data = d
          PROVE  \E y \in DOMAIN t \ {s} :
                   Full(t, y) = j /\ t[y].value # None /\ t[y].value.data = d
      <3>1. CASE x = s
        BY <1>1, <2>1, <3>1
      <3>2. CASE x # s
        BY <1>1, <2>1, <3>2
      <3> QED
        BY <3>1, <3>2
    <2>2. ASSUME NEW y \in DOMAIN t \ {s}, Full(t, y) = j, t[y].value # None,
                 t[y].value.data = d
          PROVE  Has(u, j, d)
      <3>1. CASE y = c
        <4>1. s \in DOMAIN u
          BY <1>1
        <4> QED
          BY <1>1, <2>2, <3>1, <4>1 DEF Has
      <3>2. CASE y # c
        BY <1>1, <2>2, <3>2 DEF Has
      <3> QED
        BY <3>1, <3>2
    <2> QED
      BY <2>1, <2>2 DEF Has
  <1>4. ASSUME NEW j, NEW d
        PROVE  Has(u, j, d) <=> Has(t, j, d) /\ j # k
    <2>1. (\E x \in DOMAIN t \ {s} : Full(t, x) = j /\ t[x].value # None /\ t[x].value.data = d)
            <=> Has(t, j, d) /\ j # k
      BY <1>2 DEF Has
    <2> QED
      BY <1>3, <2>1
  <1>5. t[s].value = None => \A d : ~Has(t, k, d)
    BY <1>2 DEF Has
  <1> QED
    BY <1>4, <1>5 DEF Loses, Keeps, k

LEMMA CutLoses ==
  ASSUME NEW t, NEW d, NEW u, IsCut(t, d, u), NEW K,
         \A x \in DOMAIN t : t[x].value # None => (IsPrefix(d, x) <=> Full(t, x) \in K)
  PROVE  Loses(t, u, K)
  <1>1. /\ DOMAIN u = {x \in DOMAIN t : ~IsPrefix(d, x)}
        /\ \A x \in DOMAIN u : u[x] = t[x] /\ Full(u, x) = Full(t, x)
    BY DEF IsCut
  <1>2. ASSUME NEW j, NEW e
        PROVE  Has(u, j, e) <=> Has(t, j, e) /\ j \notin K
    <2>1. ASSUME Has(u, j, e) PROVE Has(t, j, e) /\ j \notin K
      BY <1>1, <2>1 DEF Has
    <2>2. ASSUME Has(t, j, e), j \notin K PROVE Has(u, j, e)
      BY <1>1, <2>2 DEF Has
    <2> QED
      BY <2>1, <2>2
  <1> QED
    BY <1>2 DEF Loses

-----------------------------------------------------------------------------
(* Tries in which a valueless node has two children or more.               *)

Branches(t, s) == t[s].value = None => Cardinality(Kids(t, s)) >= 2
Branching(t) == \A s \in DOMAIN t : Branches(t, s)

(* No slot is deeper than some depth: what a program holds in memory.      *)
Shallow(t) == \E n \in Nat : \A s \in DOMAIN t : Len(s) <= n

LEMMA ShallowGrows ==
  ASSUME NEW t, IsTrie(t), Shallow(t), NEW c \in Seq(Index),
         NEW u, DOMAIN u \subseteq DOMAIN t \cup {c}
  PROVE  Shallow(u)
  <1>1. PICK n \in Nat : \A s \in DOMAIN t : Len(s) <= n
    BY DEF Shallow
  <1>2. Len(c) \in Nat
    OBVIOUS
  <1>3. \A s \in DOMAIN t : Len(s) \in Nat
    BY FullExtends
  <1>4. \A s \in DOMAIN u : Len(s) <= n + Len(c)
    <2> DEFINE m == Len(c)
    <2> HIDE DEF m
    <2>2. \A s \in DOMAIN t : Len(s) <= n + m
      BY <1>1, <1>2, <1>3 DEF m
    <2>3. m <= n + m
      BY <1>2 DEF m
    <2>4. \A s \in DOMAIN u : s \in DOMAIN t \/ Len(s) = m
      BY DEF m
    <2> QED
      BY <2>2, <2>3, <2>4 DEF m
  <1>5. n + Len(c) \in Nat
    BY <1>2
  <1> QED
    BY <1>4, <1>5 DEF Shallow

LEMMA KidsAreFew ==
  ASSUME NEW t, NEW s
  PROVE  /\ IsFiniteSet(Kids(t, s)) /\ Cardinality(Kids(t, s)) \in Nat
         /\ Kids(t, s) = {} <=> Cardinality(Kids(t, s)) = 0
  <1>1. IsFiniteSet(Kids(t, s))
    BY IndexAssumption, FS_Subset DEF Kids
  <1> QED
    BY <1>1, FS_CardinalityType, FS_EmptySet

(* Below every node lies a value. *)
LEMMA LeadsToValue ==
  ASSUME NEW t, IsTree(t), Branching(t), Shallow(t), NEW x \in DOMAIN t
  PROVE  \E y \in DOMAIN t : IsPrefix(x, y) /\ t[y].value # None
  <1> DEFINE B == {y \in DOMAIN t : IsPrefix(x, y)}
  <1>1. PICK n \in Nat : \A s \in DOMAIN t : Len(s) <= n
    BY DEF Shallow
  <1>2. \A s \in DOMAIN t : s \in Seq(Index) /\ Len(s) \in Nat
    BY FullExtends DEF IsTree
  <1>3. x \in B
    BY <1>2, PrefixOrder
  <1>4. PICK y \in B : \A z \in B : Len(z) <= Len(y)
    <2>1. \A z \in B : Len(z) \in 0 .. n
      BY <1>1, <1>2
    <2> HIDE DEF B
    <2> QED
      BY <1>3, <2>1, Longest
  <1>5. y \in DOMAIN t /\ IsPrefix(x, y)
    BY <1>4
  <1>6. ASSUME NEW i \in Kids(t, y) PROVE FALSE
    <2> DEFINE c == Child(t, y, i)
    <2>1. c \in DOMAIN t /\ i \in Index
      BY DEF Kids
    <2>2. c \in Seq(Index) /\ IsPrefix(y, c) /\ Len(c) = Len(Full(t, y)) + 1
      BY <1>5, <2>1, ChildType DEF IsTree
    <2>3. Len(y) \in Nat /\ Len(Full(t, y)) \in Nat /\ Len(y) <= Len(Full(t, y))
      BY <1>5, FullExtends DEF IsTree
    <2> HIDE DEF c
    <2>4. IsPrefix(x, c)
      BY <1>2, <1>5, <2>2, PrefixTransitive
    <2>5. Len(c) <= Len(y)
      BY <1>4, <2>1, <2>4
    <2> QED
      BY <2>2, <2>3, <2>5
  <1>7. Cardinality(Kids(t, y)) = 0
    BY <1>6, KidsAreFew
  <1>8. t[y].value # None
    BY <1>5, <1>7 DEF Branching, Branches
  <1> QED
    BY <1>5, <1>8

(* A valued leaf is a child more for a node that has a value or a child.   *)
LEMMA GrownBranches ==
  ASSUME NEW t, IsTrie(t), Shallow(t), NEW s \in DOMAIN t, NEW i \in Index,
         NEW r, r.value # None, NEW u, IsGrown(t, s, i, r, u),
         \A x \in DOMAIN t \ {s} : Branches(t, x),
         t[s].value = None => Cardinality(Kids(t, s)) >= 1
  PROVE  Branching(u) /\ Shallow(u)
  <1> DEFINE c == Child(t, s, i)
  <1>1. /\ DOMAIN u = DOMAIN t \cup {c} /\ u[c] = r /\ c \notin DOMAIN t
        /\ \A x \in DOMAIN t : /\ u[x] = t[x]
                               /\ x # s => Kids(u, x) = Kids(t, x)
        /\ Kids(u, s) = Kids(t, s) \cup {i}
        /\ IsTree(u)
    BY DEF IsGrown
  <1>2. i \notin Kids(t, s)
    BY <1>1 DEF Kids
  <1> HIDE DEF c
  <1>3. Cardinality(Kids(u, s)) = Cardinality(Kids(t, s)) + 1
    BY <1>1, <1>2, KidsAreFew, FS_AddElement
  <1>4. Branches(u, s)
    BY <1>1, <1>3, KidsAreFew DEF Branches
  <1>5. \A x \in DOMAIN t \ {s} : Branches(u, x)
    BY <1>1 DEF Branches
  <1>6. Branches(u, c)
    BY <1>1 DEF Branches
  <1>7. Branching(u)
    BY <1>1, <1>4, <1>5, <1>6 DEF Branching
  <1>8. c \in Seq(Index)
    BY <1>1 DEF IsTree, IsTrie
  <1>9. Shallow(u)
    BY <1>1, <1>8, ShallowGrows
  <1> QED
    BY <1>7, <1>9

LEMMA PushedBranches ==
  ASSUME NEW t, IsTrie(t), Branching(t), Shallow(t), NEW s \in DOMAIN t,
         NEW n, NEW m, NEW new, NEW old, NEW u,
         IsPushed(t, s, n, m, new, old, u), old.value = t[s].value
  PROVE  /\ \A x \in DOMAIN u \ {s} : Branches(u, x)
         /\ Cardinality(Kids(u, s)) = 1
         /\ Shallow(u)
  <1>1. /\ DOMAIN u = DOMAIN t \cup {m} /\ u[m] = old /\ Kids(u, m) = Kids(t, s)
        /\ \A x \in DOMAIN t \ {s} : u[x] = t[x] /\ Kids(u, x) = Kids(t, x)
        /\ IsTree(u)
    BY DEF IsPushed
  <1>2. Cardinality(Kids(u, s)) = 1
    BY FS_Singleton DEF IsPushed
  <1>3. Branches(u, m)
    BY <1>1 DEF Branching, Branches
  <1>4. \A x \in DOMAIN t \ {s} : Branches(u, x)
    BY <1>1 DEF Branching, Branches
  <1>5. m \in Seq(Index)
    BY <1>1 DEF IsTree, IsTrie
  <1>6. Shallow(u)
    BY <1>1, <1>5, ShallowGrows
  <1> QED
    BY <1>1, <1>2, <1>3, <1>4, <1>6

LEMMA MergedBranches ==
  ASSUME NEW t, Shallow(t), NEW s \in DOMAIN t, NEW i, NEW u, IsMerged(t, s, i, u),
         \A x \in DOMAIN t \ {s} : Branches(t, x)
  PROVE  Branching(u) /\ Shallow(u)
  <1> DEFINE c == Child(t, s, i)
  <1>1. /\ c \in DOMAIN t \ {s} /\ DOMAIN u = DOMAIN t \ {c}
        /\ u[s].value = t[c].value /\ Kids(u, s) = Kids(t, c)
        /\ \A x \in DOMAIN t \ {s, c} : u[x] = t[x] /\ Kids(u, x) = Kids(t, x)
    BY DEF IsMerged
  <1> HIDE DEF c
  <1>2. Branches(u, s)
    BY <1>1 DEF Branches
  <1>3. \A x \in DOMAIN t \ {s, c} : Branches(u, x)
    BY <1>1 DEF Branches
  <1>4. Branching(u)
    BY <1>1, <1>2, <1>3 DEF Branching
  <1>5. Shallow(u)
    BY <1>1 DEF Shallow
  <1> QED
    BY <1>4, <1>5

(* Only the parent of what leaves has a child less. *)
LEMMA CutBranches ==
  ASSUME NEW t, IsTree(t), Branching(t), Shallow(t), NEW p \in DOMAIN t,
         NEW j \in Kids(t, p), NEW u, IsCut(t, Child(t, p, j), u)
  PROVE  /\ Shallow(u)
         /\ \A x \in DOMAIN u \ {p} : Branches(u, x)
         /\ t[p].value # None \/ Cardinality(Kids(t, p)) >= 3 => Branching(u)
  <1> DEFINE d == Child(t, p, j)
  <1>1. /\ DOMAIN u \subseteq DOMAIN t
        /\ \A x \in DOMAIN u : /\ u[x] = t[x]
                               /\ Kids(u, x) = {i \in Kids(t, x) : Child(t, x, i) # d}
    BY DEF IsCut
  <1>2. j \in Index /\ \A x : Kids(t, x) \subseteq Index
    BY DEF Kids
  <1>3. ASSUME NEW x \in DOMAIN u \ {p} PROVE Branches(u, x)
    <2>1. \A i \in Kids(t, x) : Child(t, x, i) # d
      BY <1>1, <1>2, ParentIsUnique
    <2>2. Kids(u, x) = Kids(t, x)
      BY <1>1, <2>1
    <2> QED
      BY <1>1, <2>2 DEF Branching, Branches
  <1>4. ASSUME t[p].value # None \/ Cardinality(Kids(t, p)) >= 3, p \in DOMAIN u
        PROVE  Branches(u, p)
    <2>1. \A i \in Kids(t, p) : Child(t, p, i) # d <=> i # j
      BY <1>2, ParentIsUnique
    <2>2. Kids(u, p) = Kids(t, p) \ {j}
      BY <1>1, <1>4, <2>1
    <2>3. Cardinality(Kids(u, p)) = Cardinality(Kids(t, p)) - 1
      BY <2>2, KidsAreFew, FS_RemoveElement
    <2> QED
      BY <1>1, <1>4, <2>3, KidsAreFew DEF Branches
  <1>5. Shallow(u)
    BY <1>1 DEF Shallow
  <1> QED
    BY <1>3, <1>4, <1>5 DEF Branching

=============================================================================
