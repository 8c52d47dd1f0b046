-------------------------- MODULE SubtreeDropProofs --------------------------
(***************************************************************************)
(* A subtree of any size and shape drops on a stack of three frames, each  *)
(* value once, whichever destructor panics (SubtreeDrop).                  *)
(***************************************************************************)
EXTENDS SubtreeDrop, BitmapTheorems, SequenceTheorems

Frames == [kind : {"glue", "list"}, edges : Seq(Node), cleanup : BOOLEAN, panicking : BOOLEAN]

Trees == {p \in [Node \ {1} -> Node] : \A n \in Node \ {1} : p[n] < n}

-----------------------------------------------------------------------------
(* Sequences and the members they hold, each once.                         *)

LEMMA SeqEnds ==
  ASSUME NEW S, NEW p \in Seq(S), p # << >>
  PROVE  /\ Front(p) \in Seq(S) /\ Last(p) \in S
         /\ Len(p) \in Nat \ {0} /\ Len(Front(p)) = Len(p) - 1
         /\ \A n \in 1 .. Len(p) - 1 : Front(p)[n] = p[n]
         /\ Last(p) = p[Len(p)]
  <1>1. Len(p) \in Nat \ {0} /\ Last(p) \in S /\ Last(p) = p[Len(p)]
    BY DEF Last
  <1>2. /\ Front(p) \in Seq(S) /\ Len(Front(p)) = Len(p) - 1
        /\ \A n \in 1 .. Len(p) - 1 : Front(p)[n] = p[n]
    <2>1. \A n \in 1 .. Len(p) - 1 : p[n] \in S
      BY <1>1
    <2> DEFINE m == Len(p) - 1
    <2>2. m \in Nat /\ \A n \in 1 .. m : p[n] \in S
      BY <1>1, <2>1
    <2>3. Front(p) = SubSeq(p, 1, m)
      BY DEF Front
    <2> HIDE DEF m
    <2>4. /\ SubSeq(p, 1, m) \in Seq(S) /\ Len(SubSeq(p, 1, m)) = m
          /\ \A n \in 1 .. m : SubSeq(p, 1, m)[n] = p[n]
      BY <2>2
    <2> QED
      BY <2>2, <2>3, <2>4 DEF m
  <1> QED
    BY <1>1, <1>2

(* A sequence that names nothing twice. *)
Once(p) == \A a, b \in DOMAIN p : p[a] = p[b] => a = b

LEMMA HeadApart ==
  ASSUME NEW S, NEW p \in Seq(S), p # << >>
  PROVE  /\ Head(p) \in S /\ Tail(p) \in Seq(S)
         /\ Range(p) = {Head(p)} \cup Range(Tail(p))
         /\ Once(p) => Once(Tail(p)) /\ Head(p) \notin Range(Tail(p))
  <1>1. /\ Len(p) \in Nat \ {0} /\ Tail(p) \in Seq(S) /\ Len(Tail(p)) = Len(p) - 1
        /\ \A n \in 1 .. Len(p) - 1 : Tail(p)[n] = p[n + 1]
        /\ Head(p) = p[1] /\ p[1] \in S
    OBVIOUS
  <1>2. \A n \in 2 .. Len(p) : n - 1 \in DOMAIN Tail(p) /\ Tail(p)[n - 1] = p[n]
    BY <1>1
  <1>3. \A n \in DOMAIN Tail(p) : n + 1 \in DOMAIN p /\ Tail(p)[n] = p[n + 1] /\ n + 1 # 1
    BY <1>1
  <1>4. DOMAIN p = {1} \cup (2 .. Len(p)) /\ DOMAIN Tail(p) \subseteq Nat
    BY <1>1
  <1>5. Range(p) = {Head(p)} \cup Range(Tail(p))
    <2>1. ASSUME NEW x \in Range(p) PROVE x \in {Head(p)} \cup Range(Tail(p))
      <3>1. PICK n \in DOMAIN p : x = p[n]
        BY <2>1 DEF Range
      <3>2. CASE n = 1
        BY <1>1, <3>1, <3>2
      <3>3. CASE n \in 2 .. Len(p)
        <4>1. n - 1 \in DOMAIN Tail(p) /\ Tail(p)[n - 1] = x
          BY <1>2, <3>1, <3>3
        <4> QED
          BY <4>1 DEF Range
      <3> QED
        BY <1>4, <3>1, <3>2, <3>3
    <2>2. ASSUME NEW x \in {Head(p)} \cup Range(Tail(p)) PROVE x \in Range(p)
      BY <1>1, <1>3, <1>4, <2>2 DEF Range
    <2> QED
      BY <2>1, <2>2
  <1>6. ASSUME Once(p) PROVE Once(Tail(p)) /\ Head(p) \notin Range(Tail(p))
    BY <1>1, <1>3, <1>4, <1>6 DEF Once, Range
  <1> QED
    BY <1>1, <1>5, <1>6

LEMMA LastApart ==
  ASSUME NEW S, NEW p \in Seq(S), p # << >>
  PROVE  /\ Last(p) \in S /\ Front(p) \in Seq(S)
         /\ Range(p) = {Last(p)} \cup Range(Front(p))
         /\ Once(p) => Once(Front(p)) /\ Last(p) \notin Range(Front(p))
  <1>1. /\ Front(p) \in Seq(S) /\ Last(p) \in S
        /\ Len(p) \in Nat \ {0} /\ Len(Front(p)) = Len(p) - 1
        /\ \A n \in 1 .. Len(p) - 1 : Front(p)[n] = p[n]
        /\ Last(p) = p[Len(p)]
    BY SeqEnds
  <1>2. /\ DOMAIN p = {Len(p)} \cup DOMAIN Front(p) /\ Len(p) \notin DOMAIN Front(p)
        /\ \A n \in DOMAIN Front(p) : Front(p)[n] = p[n]
    BY <1>1
  <1>3. Range(p) = {Last(p)} \cup Range(Front(p))
    BY <1>1, <1>2 DEF Range
  <1>4. Once(p) => Once(Front(p)) /\ Last(p) \notin Range(Front(p))
    BY <1>1, <1>2 DEF Once, Range
  <1> QED
    BY <1>1, <1>3, <1>4

LEMMA Joined ==
  ASSUME NEW S, NEW p \in Seq(S), NEW q \in Seq(S)
  PROVE  /\ p \o q \in Seq(S)
         /\ Range(p \o q) = Range(p) \cup Range(q)
         /\ Once(p) /\ Once(q) /\ Range(p) \cap Range(q) = {} => Once(p \o q)
  <1> DEFINE r == p \o q
             n == Len(p)
  <1>1. /\ r \in Seq(S) /\ n \in Nat /\ Len(q) \in Nat /\ Len(r) = n + Len(q)
        /\ \A k \in 1 .. n : r[k] = p[k]
        /\ \A k \in 1 .. Len(q) : r[n + k] = q[k]
        /\ DOMAIN p = 1 .. n /\ DOMAIN q = 1 .. Len(q) /\ DOMAIN r = 1 .. n + Len(q)
    OBVIOUS
  <1> HIDE DEF r, n
  <1>2. \A k \in DOMAIN r : \/ k \in DOMAIN p /\ r[k] = p[k]
                            \/ k - n \in DOMAIN q /\ r[k] = q[k - n] /\ k \notin DOMAIN p
    <2> SUFFICES ASSUME NEW k \in DOMAIN r, k \notin DOMAIN p
                 PROVE  k - n \in DOMAIN q /\ r[k] = q[k - n]
      BY <1>1
    <2>1. k - n \in 1 .. Len(q) /\ n + (k - n) = k
      BY <1>1
    <2> QED
      BY <1>1, <2>1
  <1>3. Range(r) = Range(p) \cup Range(q)
    <2>1. ASSUME NEW x \in Range(r) PROVE x \in Range(p) \cup Range(q)
      BY <1>2, <2>1 DEF Range
    <2>2. ASSUME NEW x \in Range(p) PROVE x \in Range(r)
      <3>1. \A k \in DOMAIN p : k \in DOMAIN r /\ r[k] = p[k]
        BY <1>1
      <3> QED
        BY <2>2, <3>1 DEF Range
    <2>3. ASSUME NEW x \in Range(q) PROVE x \in Range(r)
      <3>1. \A k \in DOMAIN q : n + k \in DOMAIN r /\ r[n + k] = q[k]
        BY <1>1
      <3> QED
        BY <2>3, <3>1 DEF Range
    <2> QED
      BY <2>1, <2>2, <2>3
  <1>4. ASSUME Once(p), Once(q), Range(p) \cap Range(q) = {},
               NEW a \in DOMAIN r, NEW b \in DOMAIN r, r[a] = r[b]
        PROVE  a = b
    <2>1. CASE a \in DOMAIN p /\ r[a] = p[a] /\ b \in DOMAIN p /\ r[b] = p[b]
      BY <1>4, <2>1 DEF Once
    <2>2. CASE /\ a - n \in DOMAIN q /\ r[a] = q[a - n]
               /\ b - n \in DOMAIN q /\ r[b] = q[b - n]
      <3>1. a - n = b - n
        BY <1>4, <2>2 DEF Once
      <3> QED
        BY <1>1, <3>1
    <2>3. CASE \/ /\ a \in DOMAIN p /\ r[a] = p[a] /\ b - n \in DOMAIN q /\ r[b] = q[b - n]
               \/ /\ b \in DOMAIN p /\ r[b] = p[b] /\ a - n \in DOMAIN q /\ r[a] = q[a - n]
      BY <1>4, <2>3 DEF Range
    <2> QED
      BY <1>2, <2>1, <2>2, <2>3
  <1> QED
    BY <1>1, <1>3, <1>4 DEF Once, r

(* The edges of a node taken apart are its children, each once.            *)
LEMMA EdgesOnce ==
  ASSUME NEW S \in SUBSET Node
  PROVE  Edges(S) \in Seq(Node) /\ Range(Edges(S)) = S /\ Once(Edges(S))
  <1>1. IsBitmap(S)
    <2>1. IsFiniteSet(Node) /\ Node \subseteq Nat
      BY SizeAssumption, FS_Interval DEF Node
    <2> QED
      BY <2>1, FS_Subset DEF IsBitmap
  <1>2. Cardinality(S) \in Nat
    BY <1>1, FS_CardinalityType DEF IsBitmap
  <1> DEFINE n == Cardinality(S)
             e == Edges(S)
  <1>3. \A k \in 1 .. n : k - 1 \in 0 .. n - 1
    BY <1>2
  <1>4. \A k \in 1 .. n : Select(S, k - 1) \in S /\ Rank(S, Select(S, k - 1)) = k - 1
    BY <1>1, <1>3, SelectMember
  <1>5. /\ DOMAIN e = 1 .. n /\ \A k \in 1 .. n : e[k] = Select(S, k - 1)
        /\ e = [k \in 1 .. n |-> Select(S, k - 1)]
    BY DEF Edges
  <1> HIDE DEF n, e
  <1>6. e \in [1 .. n -> Node]
    BY <1>4, <1>5
  <1>7. e \in Seq(Node)
    BY <1>2, <1>6 DEF n
  <1>8. ASSUME NEW p \in S PROVE p \in Range(e)
    <2>1. Rank(S, p) \in 0 .. Cardinality(S) - 1
      BY <1>1, RankOfMember
    <2>2. Select(S, Rank(S, p)) = p
      BY <1>1, SelectOfRank
    <2>3. PICK k \in 1 .. n : k - 1 = Rank(S, p)
      BY <1>2, <2>1 DEF n
    <2>4. e[k] = p
      BY <1>5, <2>2, <2>3
    <2> QED
      BY <1>5, <2>4 DEF Range
  <1>9. Range(e) = S
    BY <1>4, <1>5, <1>8 DEF Range
  <1>10. ASSUME NEW a \in DOMAIN e, NEW b \in DOMAIN e, e[a] = e[b] PROVE a = b
    <2>1. a - 1 = b - 1
      BY <1>4, <1>5, <1>10
    <2> QED
      BY <1>5, <2>1
  <1> QED
    BY <1>7, <1>9, <1>10 DEF Once, e
-----------------------------------------------------------------------------
(* The stack of drops: which edges it holds, and none twice.               *)

Holds(s) == {n \in Node : \E k \in DOMAIN s : n \in Range(s[k].edges)}

Tidy(s) ==
  /\ \A k \in DOMAIN s : Once(s[k].edges)
  /\ \A j, k \in DOMAIN s : j # k => Range(s[j].edges) \cap Range(s[k].edges) = {}

LEMMA TidyIsDistinct ==
  ASSUME NEW s \in Seq(Frames)
  PROVE  Tidy(s) <=>
           \A j, k \in DOMAIN s : \A a \in DOMAIN s[j].edges, b \in DOMAIN s[k].edges :
             <<j, a>> # <<k, b>> => s[j].edges[a] # s[k].edges[b]
  <1>1. ASSUME Tidy(s), NEW j \in DOMAIN s, NEW k \in DOMAIN s,
               NEW a \in DOMAIN s[j].edges, NEW b \in DOMAIN s[k].edges, <<j, a>> # <<k, b>>
        PROVE  s[j].edges[a] # s[k].edges[b]
    <2>1. CASE j = k
      BY <1>1, <2>1 DEF Tidy, Once
    <2>2. CASE j # k
      BY <1>1, <2>2 DEF Tidy, Range
    <2> QED
      BY <2>1, <2>2
  <1>2. ASSUME \A j, k \in DOMAIN s :
                 \A a \in DOMAIN s[j].edges, b \in DOMAIN s[k].edges :
                   <<j, a>> # <<k, b>> => s[j].edges[a] # s[k].edges[b]
        PROVE  Tidy(s)
    <2>1. ASSUME NEW k \in DOMAIN s PROVE Once(s[k].edges)
      BY <1>2 DEF Once
    <2>2. ASSUME NEW j \in DOMAIN s, NEW k \in DOMAIN s, j # k
          PROVE  Range(s[j].edges) \cap Range(s[k].edges) = {}
      BY <1>2, <2>2 DEF Range
    <2> QED
      BY <2>1, <2>2 DEF Tidy
  <1> QED
    BY <1>1, <1>2

LEMMA EmptyHolds == << >> \in Seq(Frames) /\ Holds(<< >>) = {} /\ Tidy(<< >>)
  BY DEF Holds, Tidy

LEMMA FrameEdges ==
  ASSUME NEW f \in Frames
  PROVE  f.edges \in Seq(Node) /\ Range(f.edges) \subseteq Node
  <1>1. f.edges \in Seq(Node)
    BY DEF Frames
  <1> QED
    BY <1>1 DEF Range

LEMMA PushHolds ==
  ASSUME NEW s \in Seq(Frames), NEW f \in Frames
  PROVE  LET r == Append(s, f)
         IN  /\ r \in Seq(Frames) /\ r # << >> /\ Len(r) = Len(s) + 1 /\ r[Len(r)] = f
             /\ \A k \in 1 .. Len(s) : r[k] = s[k]
             /\ Holds(r) = Holds(s) \cup Range(f.edges)
             /\ Tidy(r) <=> /\ Tidy(s) /\ Once(f.edges)
                            /\ Holds(s) \cap Range(f.edges) = {}
  <1> DEFINE r == Append(s, f)
             m == Len(s) + 1
  <1>1. /\ r \in Seq(Frames) /\ r # << >> /\ Len(r) = m /\ r[m] = f
        /\ \A k \in 1 .. Len(s) : r[k] = s[k]
    OBVIOUS
  <1>2. /\ DOMAIN r = DOMAIN s \cup {m} /\ m \notin DOMAIN s
        /\ \A k \in DOMAIN s : r[k] = s[k] /\ s[k] \in Frames
    BY <1>1
  <1> HIDE DEF r, m
  <1>3. Range(f.edges) \subseteq Node /\ \A k \in DOMAIN s : Range(s[k].edges) \subseteq Node
    BY <1>2, FrameEdges
  <1>4. Holds(r) = Holds(s) \cup Range(f.edges)
    BY <1>1, <1>2, <1>3 DEF Holds
  <1>5. ASSUME Tidy(r)
        PROVE  Tidy(s) /\ Once(f.edges) /\ Holds(s) \cap Range(f.edges) = {}
    BY <1>1, <1>2, <1>5 DEF Tidy, Holds
  <1>6. ASSUME Tidy(s), Once(f.edges), Holds(s) \cap Range(f.edges) = {}
        PROVE  Tidy(r)
    <2>1. \A k \in DOMAIN r : Once(r[k].edges)
      BY <1>1, <1>2, <1>6 DEF Tidy
    <2>2. \A k \in DOMAIN s : Range(s[k].edges) \cap Range(f.edges) = {}
      BY <1>3, <1>6 DEF Holds
    <2>3. ASSUME NEW j \in DOMAIN r, NEW k \in DOMAIN r, j # k
          PROVE  Range(r[j].edges) \cap Range(r[k].edges) = {}
      <3>1. CASE j \in DOMAIN s /\ k \in DOMAIN s
        BY <1>2, <1>6, <2>3, <3>1 DEF Tidy
      <3>2. CASE j = m \/ k = m
        BY <1>1, <1>2, <2>2, <2>3, <3>2
      <3> QED
        BY <1>2, <3>1, <3>2
    <2> QED
      BY <2>1, <2>3 DEF Tidy
  <1> QED
    BY <1>1, <1>4, <1>5, <1>6 DEF r, m

LEMMA TopApart ==
  ASSUME NEW s \in Seq(Frames), s # << >>
  PROVE  /\ Front(s) \in Seq(Frames) /\ Last(s) \in Frames
         /\ Len(s) \in Nat \ {0} /\ Len(Front(s)) = Len(s) - 1
         /\ Last(s) = s[Len(s)] /\ \A k \in 1 .. Len(s) - 1 : Front(s)[k] = s[k]
         /\ Holds(s) = Holds(Front(s)) \cup Range(Last(s).edges)
         /\ Tidy(s) <=> /\ Tidy(Front(s)) /\ Once(Last(s).edges)
                        /\ Holds(Front(s)) \cap Range(Last(s).edges) = {}
  <1>1. /\ Front(s) \in Seq(Frames) /\ Last(s) \in Frames
        /\ Len(s) \in Nat \ {0} /\ Len(Front(s)) = Len(s) - 1
        /\ Last(s) = s[Len(s)] /\ \A k \in 1 .. Len(s) - 1 : Front(s)[k] = s[k]
    BY SeqEnds
  <1> DEFINE r == Append(Front(s), Last(s))
  <1>2. r = s
    <2>1. /\ r \in Seq(Frames) /\ Len(r) = Len(s) - 1 + 1 /\ r[Len(s) - 1 + 1] = Last(s)
          /\ \A k \in 1 .. Len(s) - 1 : r[k] = Front(s)[k]
      BY <1>1
    <2>2. Len(r) = Len(s) /\ \A k \in 1 .. Len(s) : r[k] = s[k]
      <3>1. Len(s) - 1 + 1 = Len(s)
        BY <1>1
      <3>2. \A k \in 1 .. Len(s) : k \in 1 .. Len(s) - 1 \/ k = Len(s)
        BY <1>1
      <3> QED
        BY <1>1, <2>1, <3>1, <3>2
    <2> HIDE DEF r
    <2> QED
      BY <2>1, <2>2, SeqEqual
  <1> HIDE DEF r
  <1>3. /\ Holds(r) = Holds(Front(s)) \cup Range(Last(s).edges)
        /\ Tidy(r) <=> /\ Tidy(Front(s)) /\ Once(Last(s).edges)
                       /\ Holds(Front(s)) \cap Range(Last(s).edges) = {}
    BY <1>1, PushHolds DEF r
  <1> QED
    BY <1>1, <1>2, <1>3
-----------------------------------------------------------------------------
(* What is under some edges: them and every node whose parent is.  The     *)
(* least set closed that way solves the recursion of Under, and two        *)
(* solutions that differ would differ at a least node, so at its parent.   *)

Closed(C, S) == S \subseteq C /\ \A n \in Node \ {1} : parent[n] \in C => n \in C

LeastBelow(S) == {n \in Node : \A C \in SUBSET Node : Closed(C, S) => n \in C}

LEMMA ParentType ==
  ASSUME parent \in Trees, NEW n \in Node \ {1}
  PROVE  n \in Nat /\ parent[n] \in Node /\ parent[n] < n /\ parent[n] # n
  <1>1. n \in Nat /\ parent[n] \in Node /\ parent[n] < n
    BY SizeAssumption DEF Trees, Node
  <1>2. parent[n] \in Nat
    BY <1>1, SizeAssumption DEF Node
  <1> QED
    BY <1>1, <1>2

LEMMA LeastSolves ==
  ASSUME parent \in Trees, NEW S \in SUBSET Node, NEW n \in Node
  PROVE  n \in LeastBelow(S) <=> n \in S \/ (n # 1 /\ parent[n] \in LeastBelow(S))
  <1>1. ASSUME n \in S PROVE n \in LeastBelow(S)
    BY <1>1 DEF LeastBelow, Closed
  <1>2. ASSUME n # 1, parent[n] \in LeastBelow(S) PROVE n \in LeastBelow(S)
    BY <1>2 DEF LeastBelow, Closed
  <1>3. ASSUME n \in LeastBelow(S), n \notin S, ~(n # 1 /\ parent[n] \in LeastBelow(S)) PROVE FALSE
    <2> DEFINE C == LeastBelow(S) \ {n}
    <2>1. C \in SUBSET Node
      BY DEF LeastBelow
    <2>2. S \subseteq C
      BY <1>3 DEF LeastBelow, Closed
    <2>3. ASSUME NEW m \in Node \ {1}, parent[m] \in C PROVE m \in C
      <3>1. m \in LeastBelow(S)
        BY <2>3 DEF LeastBelow, Closed
      <3>2. m # n
        BY <1>3, <2>3
      <3> QED
        BY <3>1, <3>2
    <2>4. Closed(C, S)
      BY <2>2, <2>3 DEF Closed
    <2> QED
      BY <1>3, <2>1, <2>4 DEF LeastBelow
  <1> QED
    BY <1>1, <1>2, <1>3

Solves(f, S) == f = [n \in Node |-> n \in S \/ (n # 1 /\ f[parent[n]])]

LEMMA SolutionExists ==
  ASSUME parent \in Trees, NEW S \in SUBSET Node
  PROVE  Solves([n \in Node |-> n \in LeastBelow(S)], S)
  <1> DEFINE f == [n \in Node |-> n \in LeastBelow(S)]
  <1>1. ASSUME NEW n \in Node
        PROVE  f[n] = (n \in S \/ (n # 1 /\ f[parent[n]]))
    <2>1. CASE n = 1
      BY <2>1, LeastSolves
    <2>2. CASE n # 1
      <3>1. parent[n] \in Node
        BY <2>2, ParentType
      <3>2. n \in LeastBelow(S) <=> n \in S \/ (n # 1 /\ parent[n] \in LeastBelow(S))
        BY LeastSolves
      <3>3. /\ f[n] = (n \in LeastBelow(S))
            /\ f[parent[n]] = (parent[n] \in LeastBelow(S))
        BY <3>1
      <3>4. (n \in LeastBelow(S)) = (n \in S \/ (n # 1 /\ parent[n] \in LeastBelow(S)))
        BY <3>2
      <3>5. (n \in LeastBelow(S)) = (n \in S \/ (n # 1 /\ f[parent[n]]))
        BY <3>3, <3>4
      <3> HIDE DEF f
      <3> QED
        BY <3>3, <3>5
    <2> QED
      BY <2>1, <2>2
  <1>2. f = [n \in Node |-> f[n]]
    OBVIOUS
  <1> HIDE DEF f
  <1>3. f = [n \in Node |-> n \in S \/ (n # 1 /\ f[parent[n]])]
    BY <1>1, <1>2
  <1> QED
    BY <1>3 DEF Solves, f

LEMMA UnderSolves ==
  ASSUME parent \in Trees, NEW S \in SUBSET Node, NEW n \in Node
  PROVE  n \in Under(S) <=> n \in S \/ (n # 1 /\ parent[n] \in Under(S))
  <1> DEFINE f == CHOOSE up : up = [m \in Node |-> m \in S \/ (m # 1 /\ up[parent[m]])]
  <1>1. Under(S) = {m \in Node : f[m]}
    BY DEF Under
  <1>2. Solves(f, S)
    <2>1. \E up : Solves(up, S)
      BY SolutionExists
    <2>2. \E up : up = [m \in Node |-> m \in S \/ (m # 1 /\ up[parent[m]])]
      BY <2>1 DEF Solves
    <2> QED
      BY <2>2 DEF Solves
  <1> HIDE DEF f
  <1>3. f[n] = (n \in S \/ (n # 1 /\ f[parent[n]]))
    BY <1>2 DEF Solves
  <1>4. n # 1 => parent[n] \in Node
    BY ParentType
  <1> QED
    BY <1>1, <1>3, <1>4

(* Closed under the same rule, two sets of nodes are one.                  *)
LEMMA UnderIsOnly ==
  ASSUME parent \in Trees, NEW S \in SUBSET Node, NEW U \in SUBSET Node,
         \A n \in Node : n \in U <=> n \in S \/ (n # 1 /\ parent[n] \in U)
  PROVE  Under(S) = U
  <1> DEFINE D == {n \in Node : ~(n \in U <=> n \in Under(S))}
  <1>1. Under(S) \in SUBSET Node
    BY DEF Under
  <1>2. ASSUME D # {} PROVE FALSE
    <2>1. IsBitmap(D)
      <3>1. IsFiniteSet(Node) /\ Node \subseteq Nat
        BY SizeAssumption, FS_Interval DEF Node
      <3> QED
        BY <3>1, FS_Subset DEF IsBitmap
    <2>2. PICK n \in D : \A m \in D : n <= m
      BY <1>2, <2>1, LowestMember
    <2>3. n \in Node /\ ~(n \in U <=> n \in Under(S))
      OBVIOUS
    <2>4. n # 1 /\ ~(parent[n] \in U <=> parent[n] \in Under(S))
      BY <2>3, UnderSolves
    <2>5. n \in Nat /\ parent[n] \in Node /\ parent[n] < n
      BY <2>3, <2>4, ParentType
    <2>6. parent[n] \in D /\ parent[n] \in Nat
      BY <2>1, <2>4, <2>5 DEF IsBitmap
    <2>7. n <= parent[n]
      BY <2>2, <2>6
    <2> QED
      BY <2>5, <2>6, <2>7
  <1> QED
    BY <1>1, <1>2
LEMMA UnderRests ==
  ASSUME UNCHANGED parent
  PROVE  /\ \A S : Under(S)' = Under(S)
         /\ \A n : Children(n)' = Children(n)
  BY DEF Under, Children

-----------------------------------------------------------------------------
(* An edge gives way to those of its node's children.  No held edge is     *)
(* under another, so what is under the edges that are left is all that was *)
(* but the node itself.                                                    *)

Antichain(A) == \A n \in A \ {1} : parent[n] \notin Under(A)

Counts(A, d) ==
  /\ d \in [Node -> Nat]
  /\ \A n \in Node : d[n] = (IF n \in Under(A) THEN 0 ELSE 1)

LEMMA Consumed ==
  ASSUME parent \in Trees, NEW A \in SUBSET Node, Antichain(A), NEW d, Counts(A, d),
         NEW e \in A
  PROVE  LET B == (A \ {e}) \cup Children(e)
         IN  /\ Children(e) \in SUBSET Node /\ Children(e) \cap A = {}
             /\ Antichain(B) /\ Counts(B, [d EXCEPT ![e] = @ + 1])
  <1> DEFINE B == (A \ {e}) \cup Children(e)
             U == Under(A) \ {e}
  <1>1. /\ \A n \in Node : n \in Under(A) <=> n \in A \/ (n # 1 /\ parent[n] \in Under(A))
        /\ Under(A) \in SUBSET Node /\ e \in Node /\ e \in Under(A)
    <2>1. \A n \in Node : n \in Under(A) <=> n \in A \/ (n # 1 /\ parent[n] \in Under(A))
      BY UnderSolves
    <2> QED
      BY <2>1 DEF Under
  <1>2. /\ Children(e) \in SUBSET Node
        /\ \A n \in Node : n \in Children(e) <=> n # 1 /\ parent[n] = e
    BY DEF Children
  <1>3. \A n \in Node : n # 1 => parent[n] \in Node /\ parent[n] # n
    BY ParentType
  <1>4. Children(e) \cap A = {} /\ e \notin Children(e)
    BY <1>1, <1>2, <1>3 DEF Antichain
  <1>5. B \in SUBSET Node /\ U \in SUBSET Node
    BY <1>1, <1>2
  <1>6. ASSUME NEW n \in Node
        PROVE  n \in U <=> n \in B \/ (n # 1 /\ parent[n] \in U)
    <2>1. CASE n = e
      BY <1>1, <1>4, <2>1 DEF Antichain
    <2>2. CASE n # e /\ n \in Children(e)
      BY <1>1, <1>2, <2>2
    <2>3. CASE n # e /\ n \notin Children(e)
      <3>1. n \in B <=> n \in A
        BY <2>3
      <3>2. n # 1 => parent[n] # e
        BY <1>2, <2>3
      <3>3. n \in U <=> n \in Under(A)
        BY <2>3
      <3>4. n # 1 => (parent[n] \in U <=> parent[n] \in Under(A))
        BY <3>2
      <3> QED
        BY <1>1, <3>1, <3>3, <3>4
    <2> QED
      BY <2>1, <2>2, <2>3
  <1>7. Under(B) = U
    <2> HIDE DEF B, U
    <2> QED
      BY <1>5, <1>6, UnderIsOnly
  <1>8. Antichain(B)
    BY <1>2, <1>7 DEF Antichain
  <1>9. Counts(B, [d EXCEPT ![e] = @ + 1])
    <2> DEFINE c == [d EXCEPT ![e] = @ + 1]
    <2>1. d \in [Node -> Nat] /\ \A n \in Node : d[n] = (IF n \in Under(A) THEN 0 ELSE 1)
      BY DEF Counts
    <2>2. c \in [Node -> Nat] /\ c[e] = d[e] + 1 /\ \A n \in Node : n # e => c[n] = d[n]
      BY <1>1, <2>1
    <2> HIDE DEF c, B
    <2>3. ASSUME NEW n \in Node PROVE c[n] = (IF n \in Under(B) THEN 0 ELSE 1)
      BY <1>1, <1>7, <2>1, <2>2
    <2> QED
      BY <2>2, <2>3 DEF Counts, c
  <1> HIDE DEF B, U
  <1> QED
    BY <1>2, <1>4, <1>8, <1>9 DEF B

-----------------------------------------------------------------------------
(* The inductive invariant.                                                *)

(* The owner's drop; on top of it, when it has no edge left, a worklist or *)
(* a drop that unwinds; on top of that a worklist that runs as cleanup.    *)
Fits(k, f) ==
  /\ k = 1 => f.kind = "glue" /\ Len(f.edges) <= 1 /\ (f.panicking => f.edges = << >>)
  /\ k = 2 => ~f.cleanup /\ (f.kind = "glue" <=> f.panicking)
  /\ k = 3 => f.cleanup /\ f.kind = "list" /\ ~f.panicking

Nesting(s) ==
  /\ Len(s) <= 3
  /\ \A k \in 1 .. Len(s) : Fits(k, s[k])
  /\ Len(s) > 1 => s[1].edges = << >> /\ ~s[1].panicking
  /\ Len(s) > 2 => s[2].panicking

(* A panic leaves cleanup. *)
Spoilt(s) == \E k \in DOMAIN s : s[k].cleanup /\ s[k].panicking

Owned(s) == s \in Seq(Frames) /\ (s # << >> => ~s[1].cleanup)

Tamed(s, d) ==
  /\ Nesting(s) /\ Tidy(s)
  /\ Antichain(Holds(s)) /\ Counts(Holds(s), d)

IInv ==
  /\ parent \in Trees /\ Owned(stack)
  /\ drops \in [Node -> Nat] /\ aborted \in BOOLEAN
  /\ Doomed \/ Tamed(stack, drops)

LEMMA InvSuffices == IInv => DropsFlat
  <1> SUFFICES ASSUME IInv, ~Doomed PROVE DropsFlat
    BY DEF DropsFlat
  <1>1. Tamed(stack, drops) /\ stack \in Seq(Frames)
    BY DEF IInv, Owned
  <1>2. Len(stack) <= 3
    BY <1>1 DEF Tamed, Nesting
  <1>3. Held = Holds(stack)
    BY DEF Held, Holds
  <1>4. \A n \in Node : drops[n] = (IF n \in Under(Held) THEN 0 ELSE 1)
    BY <1>1, <1>3 DEF Tamed, Counts
  <1>5. \A j, k \in DOMAIN stack : \A a \in DOMAIN stack[j].edges, b \in DOMAIN stack[k].edges :
          <<j, a>> # <<k, b>> => stack[j].edges[a] # stack[k].edges[b]
    BY <1>1, TidyIsDistinct DEF Tamed
  <1> QED
    BY <1>2, <1>4, <1>5 DEF DropsFlat

(* Every step but the last return replaces the top frame and may push one; *)
(* what a panic has spoilt stays spoilt.                                   *)
LEMMA InvStep ==
  ASSUME IInv, UNCHANGED parent, Owned(stack'), drops' \in [Node -> Nat], aborted' \in BOOLEAN,
         Spoilt(stack) => aborted' \/ Spoilt(stack'),
         ~Doomed => aborted' \/ Spoilt(stack') \/ Tamed(stack', drops'),
         ~aborted
  PROVE  IInv'
  <1>1. parent' \in Trees' /\ Trees' = Trees /\ Frames' = Frames
    BY DEF IInv, Trees, Frames
  <1>2. Doomed' <=> aborted' \/ Spoilt(stack')
    BY DEF Doomed, Spoilt
  <1>3. Doomed <=> Spoilt(stack)
    BY DEF Doomed, Spoilt
  <1>4. ASSUME Tamed(stack', drops') PROVE Tamed(stack, drops)'
    <2>1. /\ Nesting(stack') /\ Tidy(stack')
          /\ Antichain(Holds(stack')) /\ Counts(Holds(stack'), drops')
      BY <1>4 DEF Tamed
    <2>2. \A S : Under(S)' = Under(S)
      BY UnderRests
    <2>3. Nesting(stack)' /\ Tidy(stack)'
      BY <2>1
    <2>4. Antichain(Holds(stack))'
      BY <2>1, <2>2 DEF Antichain
    <2>5. Counts(Holds(stack), drops)'
      BY <2>1, <2>2 DEF Counts
    <2> QED
      BY <2>3, <2>4, <2>5 DEF Tamed
  <1> QED
    BY <1>1, <1>2, <1>3, <1>4 DEF IInv, Owned
-----------------------------------------------------------------------------
(* How the stack changes.                                                  *)

LEMMA Retop ==
  ASSUME NEW s, Owned(s), s # << >>,
         NEW x \in Frames, x.cleanup = Last(s).cleanup, Last(s).panicking => x.panicking
  PROVE  LET r == Append(Front(s), x)
         IN  /\ Owned(r) /\ r # << >> /\ Len(r) = Len(s) /\ r[Len(s)] = x
             /\ \A k \in 1 .. Len(s) - 1 : r[k] = s[k]
             /\ Spoilt(s) => Spoilt(r)
             /\ Holds(r) = Holds(Front(s)) \cup Range(x.edges)
             /\ Tidy(r) <=> /\ Tidy(Front(s)) /\ Once(x.edges)
                            /\ Holds(Front(s)) \cap Range(x.edges) = {}
  <1> DEFINE b == Front(s)
             r == Append(b, x)
  <1>1. /\ s \in Seq(Frames) /\ b \in Seq(Frames) /\ Len(s) \in Nat \ {0}
        /\ Len(b) = Len(s) - 1 /\ Last(s) = s[Len(s)]
        /\ \A k \in 1 .. Len(s) - 1 : b[k] = s[k]
    BY TopApart DEF Owned
  <1> HIDE DEF b
  <1>2. /\ r \in Seq(Frames) /\ r # << >> /\ Len(r) = Len(b) + 1 /\ r[Len(r)] = x
        /\ \A k \in 1 .. Len(b) : r[k] = b[k]
        /\ Holds(r) = Holds(b) \cup Range(x.edges)
        /\ Tidy(r) <=> Tidy(b) /\ Once(x.edges) /\ Holds(b) \cap Range(x.edges) = {}
    BY <1>1, PushHolds
  <1> HIDE DEF r
  <1>3. Len(r) = Len(s) /\ r[Len(s)] = x /\ \A k \in 1 .. Len(s) - 1 : r[k] = s[k]
    BY <1>1, <1>2
  <1>4. r[1].cleanup = s[1].cleanup
    <2>1. CASE Len(s) = 1
      BY <1>1, <1>3, <2>1
    <2>2. CASE Len(s) # 1
      <3>1. 1 \in 1 .. Len(s) - 1
        BY <1>1, <2>2
      <3> QED
        BY <1>3, <3>1
    <2> QED
      BY <2>1, <2>2
  <1>5. ASSUME Spoilt(s) PROVE Spoilt(r)
    <2>1. PICK k \in 1 .. Len(s) : s[k].cleanup /\ s[k].panicking
      BY <1>1, <1>5 DEF Spoilt
    <2>2. r[k].cleanup /\ r[k].panicking
      <3>1. CASE k = Len(s)
        BY <1>1, <1>3, <2>1, <3>1
      <3>2. CASE k \in 1 .. Len(s) - 1
        BY <1>3, <2>1, <3>2
      <3> QED
        BY <1>1, <3>1, <3>2
    <2> QED
      BY <1>2, <1>3, <2>2 DEF Spoilt
  <1>6. Owned(r)
    BY <1>2, <1>4 DEF Owned
  <1> QED
    BY <1>2, <1>3, <1>5, <1>6 DEF r, b

LEMMA NestTop ==
  ASSUME NEW s \in Seq(Frames), s # << >>, Nesting(s),
         NEW r \in Seq(Frames), Len(r) = Len(s), \A k \in 1 .. Len(s) - 1 : r[k] = s[k],
         Fits(Len(s), r[Len(s)])
  PROVE  Nesting(r)
  <1>1. Len(s) \in 1 .. 3 /\ Len(s) \in Nat
    BY DEF Nesting
  <1>2. \A k \in 1 .. Len(r) : Fits(k, r[k])
    <2>1. \A k \in 1 .. Len(s) - 1 : Fits(k, r[k])
      BY <1>1 DEF Nesting
    <2>2. \A k \in 1 .. Len(r) : k = Len(s) \/ k \in 1 .. Len(s) - 1
      BY <1>1
    <2> QED
      BY <2>1, <2>2
  <1>3. Len(r) > 1 => r[1].edges = << >> /\ ~r[1].panicking
    BY <1>1 DEF Nesting
  <1>4. Len(r) > 2 => r[2].panicking
    BY <1>1 DEF Nesting
  <1> QED
    BY <1>1, <1>2, <1>3, <1>4 DEF Nesting

LEMMA NestPush ==
  ASSUME NEW s \in Seq(Frames), s # << >>, Nesting(s),
         NEW x \in Frames, Len(s) < 3, Fits(Len(s) + 1, x),
         Len(s) = 1 => s[1].edges = << >> /\ ~s[1].panicking,
         Len(s) = 2 => s[2].panicking
  PROVE  Nesting(Append(s, x))
  <1> DEFINE r == Append(s, x)
  <1>1. /\ Len(s) \in 1 .. 2 /\ Len(s) \in Nat /\ Len(r) = Len(s) + 1 /\ r[Len(s) + 1] = x
        /\ \A k \in 1 .. Len(s) : r[k] = s[k]
    <2>1. Len(s) \in Nat \ {0}
      BY TopApart
    <2>2. /\ Len(r) = Len(s) + 1 /\ r[Len(s) + 1] = x
          /\ \A k \in 1 .. Len(s) : r[k] = s[k]
      OBVIOUS
    <2>3. \A n \in Nat \ {0} : n < 3 => n \in 1 .. 2 /\ n \in Nat
      OBVIOUS
    <2>4. Len(s) \in 1 .. 2 /\ Len(s) \in Nat
      BY <2>1, <2>3
    <2> HIDE DEF r
    <2> QED
      BY <2>2, <2>4
  <1> HIDE DEF r
  <1>2. \A k \in 1 .. Len(r) : Fits(k, r[k])
    <2>1. \A k \in 1 .. Len(s) : Fits(k, r[k])
      BY <1>1 DEF Nesting
    <2>2. \A k \in 1 .. Len(r) : k = Len(s) + 1 \/ k \in 1 .. Len(s)
      BY <1>1
    <2> QED
      BY <1>1, <2>1, <2>2
  <1>3. r[1].edges = << >> /\ ~r[1].panicking
    BY <1>1 DEF Nesting
  <1>4. Len(r) > 2 => r[2].panicking
    BY <1>1 DEF Nesting
  <1> QED
    BY <1>1, <1>2, <1>3, <1>4 DEF Nesting, r

LEMMA NestPop ==
  ASSUME NEW s \in Seq(Frames), s # << >>, Nesting(s)
  PROVE  Nesting(Front(s))
  <1> DEFINE r == Front(s)
  <1>1. /\ Len(s) \in 1 .. 3 /\ Len(s) \in Nat /\ Len(r) = Len(s) - 1
        /\ \A k \in 1 .. Len(s) - 1 : r[k] = s[k]
    <2>1. /\ Len(s) \in Nat \ {0} /\ Len(r) = Len(s) - 1
          /\ \A k \in 1 .. Len(s) - 1 : r[k] = s[k]
      BY TopApart
    <2>2. Len(s) <= 3
      BY DEF Nesting
    <2> HIDE DEF r
    <2> QED
      BY <2>1, <2>2
  <1> HIDE DEF r
  <1> QED
    BY <1>1 DEF Nesting, r

(* The top frame fits its place. *)
LEMMA TopFits ==
  ASSUME NEW s \in Seq(Frames), s # << >>, Nesting(s)
  PROVE  Fits(Len(s), Last(s)) /\ Len(s) \in 1 .. 3
  <1>1. Len(s) \in Nat \ {0} /\ Last(s) = s[Len(s)]
    BY TopApart
  <1>2. Len(s) <= 3 /\ \A k \in 1 .. Len(s) : Fits(k, s[k])
    BY DEF Nesting
  <1>3. \A n \in Nat \ {0} : n <= 3 => n \in 1 .. n /\ n \in 1 .. 3
    OBVIOUS
  <1> QED
    BY <1>1, <1>2, <1>3
(* The frame the steps work on. *)
LEMMA RunningFrame ==
  ASSUME IInv, stack # << >>
  PROVE  /\ stack \in Seq(Frames) /\ Below \in Seq(Frames) /\ Top = Last(stack)
         /\ Top \in Frames /\ Top.edges \in Seq(Node)
         /\ Top.kind \in {"glue", "list"} /\ Top.cleanup \in BOOLEAN /\ Top.panicking \in BOOLEAN
         /\ Top = [kind |-> Top.kind, edges |-> Top.edges, cleanup |-> Top.cleanup,
                   panicking |-> Top.panicking]
  <1>1. stack \in Seq(Frames) /\ Below \in Seq(Frames) /\ Top = Last(stack) /\ Top \in Frames
    BY TopApart DEF IInv, Owned, Top, Below
  <1> QED
    BY <1>1 DEF Frames

(* The top frame with other edges and marks. *)
With(edges, panicking) ==
  [kind |-> Top.kind, edges |-> edges, cleanup |-> Top.cleanup, panicking |-> panicking]

LEMMA WithIsFrame ==
  ASSUME IInv, stack # << >>, NEW q \in Seq(Node), NEW p \in BOOLEAN
  PROVE  /\ With(q, p) \in Frames /\ With(q, p).edges = q /\ With(q, p).kind = Top.kind
         /\ With(q, p).cleanup = Top.cleanup /\ With(q, p).panicking = p
         /\ [Top EXCEPT !.edges = q] = With(q, Top.panicking)
         /\ [[Top EXCEPT !.edges = q] EXCEPT !.panicking = p] = With(q, p)
  <1> DEFINE k == Top.kind
             e == Top.edges
             c == Top.cleanup
             z == Top.panicking
             T == [kind |-> k, edges |-> e, cleanup |-> c, panicking |-> z]
  <1>1. k \in {"glue", "list"} /\ c \in BOOLEAN /\ z \in BOOLEAN /\ Top = T
    BY RunningFrame
  <1> HIDE DEF k, e, c, z
  <1> DEFINE A == [kind |-> k, edges |-> q, cleanup |-> c, panicking |-> z]
  <1>2. /\ [T EXCEPT !.edges = q] = [kind |-> k, edges |-> q, cleanup |-> c, panicking |-> z]
        /\ [[T EXCEPT !.edges = q] EXCEPT !.panicking = p]
             = [kind |-> k, edges |-> q, cleanup |-> c, panicking |-> p]
    <2>1. [T EXCEPT !.edges = q] = A
      OBVIOUS
    <2>2. [A EXCEPT !.panicking = p] = [kind |-> k, edges |-> q, cleanup |-> c, panicking |-> p]
      OBVIOUS
    <2> HIDE DEF T
    <2> QED
      BY <2>1, <2>2
  <1>3. [kind |-> k, edges |-> q, cleanup |-> c, panicking |-> p] \in Frames
    BY <1>1 DEF Frames
  <1>4. /\ With(q, p) = [kind |-> k, edges |-> q, cleanup |-> c, panicking |-> p]
        /\ With(q, z) = [kind |-> k, edges |-> q, cleanup |-> c, panicking |-> z]
    BY DEF With, k, c
  <1>5. [Top EXCEPT !.edges = q] = [T EXCEPT !.edges = q]
    BY <1>1
  <1> HIDE DEF T
  <1> QED
    BY <1>2, <1>3, <1>4, <1>5 DEF k, c, z

(* An edge leaves the top frame from the front. *)
LEMMA HeadGoes ==
  ASSUME NEW s, Owned(s), s # << >>, Tidy(s), Last(s).edges # << >>,
         NEW x \in Frames, x.edges = Tail(Last(s).edges)
  PROVE  LET r == Append(Front(s), x)
             e == Head(Last(s).edges)
         IN  /\ e \in Holds(s) /\ Holds(r) = Holds(s) \ {e} /\ Tidy(r)
             /\ r \in Seq(Frames) /\ e \notin Holds(r)
  <1> DEFINE b == Front(s)
             p == Last(s).edges
             e == Head(p)
             r == Append(b, x)
  <1>1. /\ b \in Seq(Frames) /\ Last(s) \in Frames
        /\ Holds(s) = Holds(b) \cup Range(p)
        /\ Tidy(b) /\ Once(p) /\ Holds(b) \cap Range(p) = {}
    BY TopApart DEF Owned
  <1>2. p \in Seq(Node) /\ p # << >> /\ x.edges = Tail(p)
    BY <1>1, FrameEdges
  <1> HIDE DEF b, p
  <1>3. Range(p) = {e} \cup Range(Tail(p)) /\ Once(Tail(p)) /\ e \notin Range(Tail(p))
    BY <1>1, <1>2, HeadApart
  <1>4. /\ r \in Seq(Frames) /\ Holds(r) = Holds(b) \cup Range(x.edges)
        /\ Tidy(r) <=> Tidy(b) /\ Once(x.edges) /\ Holds(b) \cap Range(x.edges) = {}
    BY <1>1, PushHolds
  <1> HIDE DEF e, r
  <1>5. Holds(r) = Holds(s) \ {e} /\ Tidy(r) /\ e \in Holds(s)
    BY <1>1, <1>2, <1>3, <1>4
  <1> QED
    BY <1>4, <1>5 DEF r, e, b, p

LEMMA LeafStep == IInv /\ DropLeaf => IInv'
  <1> SUFFICES ASSUME IInv, DropLeaf PROVE IInv'
    OBVIOUS
  <1> DEFINE e == Head(Top.edges)
             q == Tail(Top.edges)
             d == [drops EXCEPT ![e] = @ + 1]
  <1>1. /\ ~aborted /\ stack # << >> /\ Top.kind = "glue" /\ Top.edges # << >>
        /\ Children(e) = {} /\ drops' = d /\ UNCHANGED parent
    BY DEF DropLeaf, Running, DropValue
  <1>2. /\ Top = Last(stack) /\ Below = Front(stack) /\ Owned(stack) /\ stack \in Seq(Frames)
        /\ Top \in Frames /\ Top.edges \in Seq(Node) /\ Top.panicking \in BOOLEAN
    BY <1>1, RunningFrame DEF IInv, Below
  <1>3. q \in Seq(Node) /\ e \in Node
    BY <1>1, <1>2, HeadApart
  <1>4. PICK z \in BOOLEAN :
          /\ stack' = Append(Below, With(q, z)) /\ aborted' \in BOOLEAN
          /\ Top.panicking => z
          /\ z = Top.panicking \/ (Top.panicking => aborted')
    <2>1. [Top EXCEPT !.edges = Tail(@)] = [Top EXCEPT !.edges = q]
      OBVIOUS
    <2>2. /\ [Top EXCEPT !.edges = q] = With(q, Top.panicking)
          /\ [[Top EXCEPT !.edges = q] EXCEPT !.panicking = TRUE] = With(q, TRUE)
      BY <1>1, <1>2, <1>3, WithIsFrame
    <2> DEFINE f == [Top EXCEPT !.edges = Tail(@)]
    <2>3. \/ stack' = Append(Below, f) /\ UNCHANGED aborted
          \/ stack' = Append(Below, [f EXCEPT !.panicking = TRUE]) /\ aborted' = Top.panicking
      BY DEF DropLeaf
    <2>4. f = With(q, Top.panicking) /\ [f EXCEPT !.panicking = TRUE] = With(q, TRUE)
      BY <2>1, <2>2
    <2> HIDE DEF f, q
    <2>5. CASE stack' = Append(Below, f) /\ UNCHANGED aborted
      <3>1. aborted' \in BOOLEAN
        BY <2>5 DEF IInv
      <3>2. stack' = Append(Below, With(q, Top.panicking))
        BY <2>4, <2>5
      <3> QED
        BY <1>2, <3>1, <3>2
    <2>6. CASE stack' = Append(Below, [f EXCEPT !.panicking = TRUE]) /\ aborted' = Top.panicking
      <3>1. aborted' \in BOOLEAN /\ (Top.panicking => aborted')
        BY <1>2, <2>6
      <3>2. TRUE \in BOOLEAN /\ stack' = Append(Below, With(q, TRUE))
        BY <2>4, <2>6
      <3> QED
        BY <3>1, <3>2
    <2> QED
      BY <2>3, <2>5, <2>6
  <1> DEFINE x == With(q, z)
  <1>5. /\ x \in Frames /\ x.edges = q /\ x.kind = Top.kind /\ x.cleanup = Top.cleanup
        /\ x.panicking = z
    BY <1>1, <1>3, WithIsFrame
  <1> HIDE DEF q, x
  <1>6. /\ Owned(stack') /\ Len(stack') = Len(stack) /\ stack'[Len(stack)] = x
        /\ \A k \in 1 .. Len(stack) - 1 : stack'[k] = stack[k]
        /\ Spoilt(stack) => Spoilt(stack')
    <2>1. stack' = Append(Front(stack), x)
      BY <1>2, <1>4 DEF x
    <2> QED
      BY <1>1, <1>2, <1>4, <1>5, <2>1, Retop
  <1>7. d \in [Node -> Nat]
    BY <1>3 DEF IInv
  <1>8. ASSUME ~Doomed, ~aborted' PROVE Tamed(stack', drops')
    <2>1. Tamed(stack, drops) /\ parent \in Trees
      BY <1>8 DEF IInv
    <2>2. /\ e \in Holds(stack) /\ Holds(stack') = Holds(stack) \ {e} /\ Tidy(stack')
          /\ stack' \in Seq(Frames)
      <3>1. Tidy(stack) /\ Last(stack).edges # << >> /\ x.edges = Tail(Last(stack).edges)
        BY <1>1, <1>2, <1>5, <2>1 DEF Tamed, q
      <3>2. stack' = Append(Front(stack), x) /\ e = Head(Last(stack).edges)
        BY <1>2, <1>4 DEF x
      <3> QED
        BY <1>1, <1>2, <1>5, <3>1, <3>2, HeadGoes
    <2>3. Nesting(stack')
      <3>1. Fits(Len(stack), Top) /\ Len(stack) \in 1 .. 3
        BY <1>1, <1>2, <2>1, TopFits DEF Tamed
      <3>2. Len(stack) = 1 => Top.edges # << >> /\ ~Top.panicking /\ Len(q) <= 1 /\ q = << >>
        <4> SUFFICES ASSUME Len(stack) = 1
                     PROVE  ~Top.panicking /\ q = << >> /\ Len(q) <= 1
          BY <1>1
        <4>1. Len(Top.edges) <= 1 /\ ~Top.panicking
          BY <1>1, <3>1 DEF Fits
        <4>2. Len(q) = Len(Top.edges) - 1 /\ Len(q) \in Nat
          BY <1>1, <1>2, <1>3 DEF q
        <4>3. Len(q) = 0 /\ Len(q) <= 1
          BY <1>2, <4>1, <4>2
        <4> QED
          BY <1>3, <4>1, <4>3 DEF q
      <3>3. Fits(Len(stack), x)
        <4>1. CASE Len(stack) = 1
          BY <1>1, <1>5, <3>2, <4>1 DEF Fits
        <4>2. CASE Len(stack) = 2
          <5>1. Top.panicking /\ ~Top.cleanup
            BY <1>1, <3>1, <4>2 DEF Fits
          <5> QED
            BY <1>1, <1>4, <1>5, <4>2, <5>1 DEF Fits
        <4>3. CASE Len(stack) = 3
          BY <1>1, <3>1, <4>3 DEF Fits
        <4> QED
          BY <3>1, <4>1, <4>2, <4>3
      <3> QED
        BY <1>1, <1>2, <1>6, <2>1, <2>2, <3>3, NestTop DEF Tamed
    <2>4. Antichain(Holds(stack')) /\ Counts(Holds(stack'), d)
      <3>1. Holds(stack) \in SUBSET Node
        BY DEF Holds
      <3>2. /\ Antichain((Holds(stack) \ {e}) \cup Children(e))
            /\ Counts((Holds(stack) \ {e}) \cup Children(e), d)
        BY <2>1, <2>2, <3>1, Consumed DEF Tamed
      <3>3. (Holds(stack) \ {e}) \cup Children(e) = Holds(stack')
        BY <1>1, <2>2
      <3> QED
        BY <3>2, <3>3
    <2> QED
      BY <1>1, <2>2, <2>3, <2>4 DEF Tamed
  <1> QED
    BY <1>1, <1>4, <1>6, <1>7, <1>8, InvStep
LEMMA Pushed ==
  ASSUME NEW s, Owned(s), s # << >>, NEW f \in Frames
  PROVE  Owned(Append(s, f)) /\ (Spoilt(s) => Spoilt(Append(s, f)))
  <1> DEFINE r == Append(s, f)
  <1>1. /\ s \in Seq(Frames) /\ Len(s) \in Nat \ {0} /\ ~s[1].cleanup
    BY TopApart DEF Owned
  <1>2. /\ r \in Seq(Frames) /\ r # << >> /\ Len(r) = Len(s) + 1
        /\ \A k \in 1 .. Len(s) : r[k] = s[k]
    BY <1>1, PushHolds
  <1> HIDE DEF r
  <1>3. 1 \in 1 .. Len(s) /\ \A k \in DOMAIN s : k \in DOMAIN r /\ r[k] = s[k]
    BY <1>1, <1>2
  <1>4. Owned(r)
    BY <1>1, <1>2, <1>3 DEF Owned
  <1>5. Spoilt(s) => Spoilt(r)
    BY <1>3 DEF Spoilt
  <1> QED
    BY <1>4, <1>5 DEF r

LEMMA InnerStep == IInv /\ DropInner => IInv'
  <1> SUFFICES ASSUME IInv, DropInner PROVE IInv'
    OBVIOUS
  <1> DEFINE e == Head(Top.edges)
             q == Tail(Top.edges)
             x == With(q, Top.panicking)
             m == Append(Front(stack), x)
             f == Frame("list", <<e>>, Top.cleanup \/ Top.panicking)
  <1>1. /\ ~aborted /\ stack # << >> /\ Top.kind = "glue" /\ Top.edges # << >>
        /\ drops' = drops /\ aborted' = aborted /\ UNCHANGED parent
    BY DEF DropInner, Running
  <1>2. /\ Top = Last(stack) /\ Below = Front(stack) /\ Owned(stack) /\ stack \in Seq(Frames)
        /\ Top \in Frames /\ Top.edges \in Seq(Node)
        /\ Top.panicking \in BOOLEAN /\ Top.cleanup \in BOOLEAN
    BY <1>1, RunningFrame DEF IInv, Below
  <1>3. q \in Seq(Node) /\ e \in Node
    BY <1>1, <1>2, HeadApart
  <1>4. /\ x \in Frames /\ x.edges = q /\ x.kind = Top.kind /\ x.cleanup = Top.cleanup
        /\ x.panicking = Top.panicking
        /\ [Top EXCEPT !.edges = q] = x
    BY <1>1, <1>2, <1>3, WithIsFrame
  <1>5. stack' = Append(m, f)
    <2>1. [Top EXCEPT !.edges = Tail(@)] = [Top EXCEPT !.edges = q]
      OBVIOUS
    <2>2. stack' = Append(Append(Below, [Top EXCEPT !.edges = Tail(@)]), f)
      BY DEF DropInner
    <2> QED
      BY <1>2, <1>4, <2>1, <2>2
  <1>6. /\ f \in Frames /\ f.edges = <<e>> /\ f.kind = "list" /\ ~f.panicking
        /\ f.cleanup = (Top.cleanup \/ Top.panicking)
    <2>1. <<e>> \in Seq(Node)
      BY <1>3
    <2> QED
      BY <2>1 DEF Frame, Frames
  <1>7. Range(<<e>>) = {e} /\ Once(<<e>>)
    BY DEF Range, Once
  <1> HIDE DEF e, q, x, f
  <1>8. /\ Owned(m) /\ m # << >> /\ Len(m) = Len(stack) /\ m[Len(stack)] = x
        /\ \A k \in 1 .. Len(stack) - 1 : m[k] = stack[k]
        /\ Spoilt(stack) => Spoilt(m)
    BY <1>1, <1>2, <1>4, Retop
  <1> HIDE DEF m
  <1>9. Owned(stack') /\ (Spoilt(stack) => Spoilt(stack'))
    BY <1>5, <1>6, <1>8, Pushed
  <1>10. ASSUME ~Doomed PROVE Tamed(stack', drops')
    <2>1. Tamed(stack, drops)
      BY <1>10 DEF IInv
    <2>2. /\ e \in Holds(stack) /\ Holds(m) = Holds(stack) \ {e} /\ Tidy(m)
          /\ m \in Seq(Frames) /\ e \notin Holds(m)
      <3>1. Tidy(stack) /\ Last(stack).edges # << >> /\ x.edges = Tail(Last(stack).edges)
        BY <1>1, <1>2, <1>4, <2>1 DEF Tamed, q
      <3> QED
        BY <1>1, <1>2, <1>4, <3>1, HeadGoes DEF m, e
    <2>3. Holds(stack') = Holds(stack) /\ Tidy(stack')
      <3>1. /\ Holds(stack') = Holds(m) \cup {e}
            /\ Tidy(stack') <=> Tidy(m) /\ Once(<<e>>) /\ Holds(m) \cap {e} = {}
        <4>1. f \in Frames /\ m \in Seq(Frames)
          BY <1>6, <2>2
        <4>2. /\ Holds(stack') = Holds(m) \cup Range(f.edges)
              /\ Tidy(stack') <=> /\ Tidy(m) /\ Once(f.edges)
                                  /\ Holds(m) \cap Range(f.edges) = {}
          BY <1>5, <4>1, PushHolds
        <4>3. Range(f.edges) = {e} /\ Once(f.edges) /\ Once(<<e>>)
          BY <1>6, <1>7
        <4> QED
          BY <4>2, <4>3
      <3> QED
        BY <1>7, <2>2, <3>1
    <2>4. Fits(Len(stack), Top) /\ Len(stack) \in 1 .. 3
      BY <1>1, <1>2, <2>1, TopFits DEF Tamed
    <2>5. Len(stack) # 3
      BY <1>1, <2>4 DEF Fits
    <2>6. CASE Len(stack) = 1
      <3>1. Len(Top.edges) <= 1 /\ ~Top.panicking
        BY <1>1, <2>4, <2>6 DEF Fits
      <3>2. q = << >>
        <4>1. Len(q) = Len(Top.edges) - 1 /\ Len(q) \in Nat
          BY <1>1, <1>2, <1>3 DEF q
        <4>2. Len(Top.edges) \in Nat /\ Len(Top.edges) <= 1
          BY <1>2, <3>1
        <4>3. \A i, j \in Nat : i = j - 1 /\ j <= 1 => i = 0
          OBVIOUS
        <4>4. Len(q) = 0
          BY <4>1, <4>2, <4>3
        <4> QED
          BY <1>3, <4>4
      <3>3. ~Top.cleanup
        BY <1>1, <1>2, <2>6 DEF Owned, Last
      <3>4. Fits(1, x) /\ Fits(2, f)
        <4>1. ~f.cleanup /\ f.kind = "list" /\ ~f.panicking
          BY <1>6, <3>1, <3>3
        <4>2. x.kind = "glue" /\ x.edges = << >>
          BY <1>1, <1>4, <3>2
        <4> HIDE DEF x, f
        <4> QED
          BY <4>1, <4>2 DEF Fits
      <3>5. Nesting(m)
        BY <1>1, <1>2, <1>8, <2>1, <2>2, <2>6, <3>4, NestTop DEF Tamed
      <3>6. m[1].edges = << >> /\ ~m[1].panicking /\ Len(m) = 1
        BY <1>4, <1>8, <2>6, <3>1, <3>2
      <3>7. Nesting(stack')
        <4>1. /\ m \in Seq(Frames) /\ m # << >> /\ Nesting(m) /\ f \in Frames
              /\ Len(m) < 3 /\ Fits(Len(m) + 1, f)
              /\ Len(m) = 1 => m[1].edges = << >> /\ ~m[1].panicking
              /\ Len(m) = 2 => m[2].panicking
          BY <1>6, <1>8, <2>2, <3>4, <3>5, <3>6
        <4> QED
          BY <1>5, <4>1, NestPush
      <3> QED
        BY <1>1, <2>1, <2>3, <3>7 DEF Tamed
    <2>7. CASE Len(stack) = 2
      <3>1. Top.panicking /\ ~Top.cleanup
        BY <1>1, <2>4, <2>7 DEF Fits
      <3>2. Fits(2, x) /\ Fits(3, f)
        <4>1. f.cleanup /\ f.kind = "list" /\ ~f.panicking
          BY <1>6, <3>1
        <4>2. x.kind = "glue" /\ ~x.cleanup /\ x.panicking
          BY <1>1, <1>4, <3>1
        <4> QED
          BY <4>1, <4>2 DEF Fits
      <3>3. Nesting(m)
        BY <1>1, <1>2, <1>8, <2>1, <2>2, <2>7, <3>2, NestTop DEF Tamed
      <3>4. m[2].panicking /\ Len(m) = 2
        BY <1>4, <1>8, <2>7, <3>1
      <3>5. Nesting(stack')
        <4>1. /\ m \in Seq(Frames) /\ m # << >> /\ Nesting(m) /\ f \in Frames
              /\ Len(m) < 3 /\ Fits(Len(m) + 1, f)
              /\ Len(m) = 1 => m[1].edges = << >> /\ ~m[1].panicking
              /\ Len(m) = 2 => m[2].panicking
          BY <1>6, <1>8, <2>2, <3>2, <3>3, <3>4
        <4> QED
          BY <1>5, <4>1, NestPush
      <3> QED
        BY <1>1, <2>1, <2>3, <3>5 DEF Tamed
    <2> QED
      BY <2>4, <2>5, <2>6, <2>7
  <1>11. drops' \in [Node -> Nat] /\ aborted' \in BOOLEAN
    BY <1>1 DEF IInv
  <1> QED
    BY <1>1, <1>9, <1>10, <1>11, InvStep

(* The last edge of a worklist gives way to those of its node's children.  *)
LEMMA LastGivesWay ==
  ASSUME parent \in Trees, NEW s, Owned(s), s # << >>, NEW d, Tamed(s, d),
         Last(s).edges # << >>, NEW x \in Frames,
         LET p == Last(s).edges
             c == Edges(Children(Last(p)))
         IN  x.edges \in {Front(p) \o c, c \o Front(p)}
  PROVE  LET r == Append(Front(s), x)
         IN  /\ Tidy(r) /\ Antichain(Holds(r))
             /\ Counts(Holds(r), [d EXCEPT ![Last(Last(s).edges)] = @ + 1])
  <1> DEFINE b == Front(s)
             p == Last(s).edges
             e == Last(p)
             c == Edges(Children(e))
             r == Append(b, x)
             A == Holds(s)
             B == (A \ {e}) \cup Children(e)
  <1>1. /\ b \in Seq(Frames) /\ Last(s) \in Frames
        /\ A = Holds(b) \cup Range(p)
        /\ Tidy(b) /\ Once(p) /\ Holds(b) \cap Range(p) = {}
    BY TopApart DEF Owned, Tamed
  <1>2. p \in Seq(Node) /\ p # << >> /\ x.edges \in {Front(p) \o c, c \o Front(p)}
    BY <1>1, FrameEdges
  <1>3. /\ e \in Node /\ Front(p) \in Seq(Node) /\ Range(p) = {e} \cup Range(Front(p))
        /\ Once(Front(p)) /\ e \notin Range(Front(p))
    BY <1>1, <1>2, LastApart
  <1>4. A \in SUBSET Node /\ e \in A /\ Antichain(A) /\ Counts(A, d)
    BY <1>1, <1>3 DEF Holds, Tamed
  <1>5. /\ Children(e) \in SUBSET Node /\ Children(e) \cap A = {}
        /\ Antichain(B) /\ Counts(B, [d EXCEPT ![e] = @ + 1])
    <2> HIDE DEF A, e
    <2> QED
      BY <1>4, Consumed
  <1>6. c \in Seq(Node) /\ Range(c) = Children(e) /\ Once(c)
    BY <1>5, EdgesOnce
  <1> HIDE DEF b, p, e, c, A
  <1>7. Range(Front(p)) \subseteq A
    BY <1>1, <1>3
  <1>8. Range(x.edges) = Range(Front(p)) \cup Children(e) /\ Once(x.edges)
    <2>1. Range(Front(p)) \cap Range(c) = {} /\ Range(c) \cap Range(Front(p)) = {}
      BY <1>5, <1>6, <1>7
    <2>2. CASE x.edges = Front(p) \o c
      BY <1>3, <1>6, <2>1, <2>2, Joined
    <2>3. CASE x.edges = c \o Front(p)
      BY <1>3, <1>6, <2>1, <2>3, Joined
    <2> QED
      BY <1>2, <2>2, <2>3
  <1>9. /\ Holds(r) = Holds(b) \cup Range(x.edges)
        /\ Tidy(r) <=> Tidy(b) /\ Once(x.edges) /\ Holds(b) \cap Range(x.edges) = {}
    BY <1>1, PushHolds
  <1> HIDE DEF r
  <1>10. Holds(r) = B /\ Tidy(r)
    BY <1>1, <1>3, <1>5, <1>7, <1>8, <1>9
  <1> QED
    BY <1>5, <1>10 DEF r, e, b, p
LEMMA ListStep ==
  ASSUME IInv, Running("list"), UNCHANGED <<parent, aborted>>, DropValue(Last(Top.edges)),
         NEW x \in Frames, x.cleanup = Top.cleanup, stack' = Append(Below, x),
         LET c == Edges(Children(Last(Top.edges)))
         IN  \/ x.kind = "list" /\ x.edges = Front(Top.edges) \o c /\ x.panicking = Top.panicking
             \/ x.kind = "glue" /\ x.edges = c \o Front(Top.edges) /\ x.panicking
  PROVE  IInv'
  <1> DEFINE e == Last(Top.edges)
             c == Edges(Children(e))
             d == [drops EXCEPT ![e] = @ + 1]
  <1>1. /\ ~aborted /\ stack # << >> /\ Top.kind = "list" /\ Top.edges # << >>
        /\ drops' = d /\ aborted' = aborted /\ UNCHANGED parent
    BY DEF Running, DropValue
  <1>2. /\ Top = Last(stack) /\ Below = Front(stack) /\ Owned(stack) /\ stack \in Seq(Frames)
        /\ Top \in Frames /\ Top.edges \in Seq(Node)
    BY <1>1, RunningFrame DEF IInv, Below
  <1>3. e \in Node
    BY <1>1, <1>2, LastApart
  <1>4. /\ x.edges \in {Front(Top.edges) \o c, c \o Front(Top.edges)}
        /\ Top.panicking => x.panicking
        /\ \/ x.kind = "list" /\ x.panicking = Top.panicking
           \/ x.kind = "glue" /\ x.panicking
    OBVIOUS
  <1>5. stack' = Append(Front(stack), x)
    BY <1>2
  <1> HIDE DEF e, c
  <1>6. /\ Owned(stack') /\ Len(stack') = Len(stack) /\ stack'[Len(stack)] = x
        /\ \A k \in 1 .. Len(stack) - 1 : stack'[k] = stack[k]
        /\ Spoilt(stack) => Spoilt(stack')
    BY <1>1, <1>2, <1>4, <1>5, Retop
  <1>7. d \in [Node -> Nat]
    BY <1>3 DEF IInv
  <1>8. ASSUME ~Doomed, ~Spoilt(stack') PROVE Tamed(stack', drops')
    <2>1. Tamed(stack, drops) /\ parent \in Trees /\ Nesting(stack)
      BY <1>8 DEF IInv, Tamed
    <2>2. Tidy(stack') /\ Antichain(Holds(stack')) /\ Counts(Holds(stack'), d)
      <3>1. /\ parent \in Trees /\ Owned(stack) /\ stack # << >> /\ Tamed(stack, drops)
            /\ Last(stack).edges # << >> /\ x \in Frames
            /\ LET p == Last(stack).edges
                   q == Edges(Children(Last(p)))
               IN  x.edges \in {Front(p) \o q, q \o Front(p)}
        BY <1>1, <1>2, <1>4, <2>1 DEF c, e
      <3>2. LET r == Append(Front(stack), x)
            IN  /\ Tidy(r) /\ Antichain(Holds(r))
                /\ Counts(Holds(r), [drops EXCEPT ![Last(Last(stack).edges)] = @ + 1])
        BY <3>1, LastGivesWay
      <3> QED
        BY <1>2, <1>5, <3>2 DEF e
    <2>3. Fits(Len(stack), Top) /\ Len(stack) \in 1 .. 3
      BY <1>1, <1>2, <2>1, TopFits
    <2>4. Fits(Len(stack), x)
      <3>1. CASE Len(stack) = 1
        BY <1>1, <2>3, <3>1 DEF Fits
      <3>2. CASE Len(stack) = 2
        <4>1. ~Top.cleanup /\ ~Top.panicking
          BY <1>1, <2>3, <3>2 DEF Fits
        <4> QED
          BY <1>4, <3>2, <4>1 DEF Fits
      <3>3. CASE Len(stack) = 3
        <4>1. Top.cleanup /\ ~Top.panicking
          BY <2>3, <3>3 DEF Fits
        <4>2. ~x.panicking
          <5>1. Len(stack) \in DOMAIN stack' /\ stack'[Len(stack)].cleanup
            <6>1. DOMAIN stack' = 1 .. Len(stack) /\ Len(stack) \in Nat \ {0}
              <7>1. stack' \in Seq(Frames)
                BY <1>6 DEF Owned
              <7> QED
                BY <1>6, <2>3, <7>1
            <6>2. stack'[Len(stack)].cleanup
              BY <1>6, <4>1
            <6> QED
              BY <6>1, <6>2
          <5> QED
            BY <1>6, <1>8, <5>1 DEF Spoilt
        <4> QED
          BY <1>4, <3>3, <4>1, <4>2 DEF Fits
      <3> QED
        BY <2>3, <3>1, <3>2, <3>3
    <2>5. stack' \in Seq(Frames)
      BY <1>6 DEF Owned
    <2>6. Nesting(stack')
      BY <1>1, <1>2, <1>6, <2>1, <2>4, <2>5, NestTop
    <2> QED
      BY <1>1, <2>2, <2>6 DEF Tamed
  <1>9. aborted' \in BOOLEAN
    BY <1>1 DEF IInv
  <1> QED
    BY <1>1, <1>6, <1>7, <1>8, <1>9, InvStep

LEMMA TakeStep == IInv /\ TakeApart => IInv'
  <1> SUFFICES ASSUME IInv, TakeApart PROVE IInv'
    OBVIOUS
  <1> DEFINE e == Last(Top.edges)
             q == Front(Top.edges) \o Edges(Children(e))
             x == With(q, Top.panicking)
  <1>1. /\ Running("list") /\ stack # << >> /\ Top.edges # << >>
        /\ DropValue(e) /\ UNCHANGED <<parent, aborted>>
        /\ stack' = Below \o <<[Top EXCEPT !.edges = q]>>
    <2>1. [Top EXCEPT !.edges = Front(@) \o Edges(Children(e))] = [Top EXCEPT !.edges = q]
      OBVIOUS
    <2>2. stack' = Below \o <<[Top EXCEPT !.edges = Front(@) \o Edges(Children(e))]>>
      BY DEF TakeApart, TakenApart
    <2> QED
      BY <2>1, <2>2 DEF TakeApart, Running
  <1>2. /\ Below \in Seq(Frames) /\ Top \in Frames /\ Top.edges \in Seq(Node)
        /\ Top.panicking \in BOOLEAN
    BY <1>1, RunningFrame
  <1>3. q \in Seq(Node)
    <2>1. Front(Top.edges) \in Seq(Node)
      BY <1>1, <1>2, LastApart
    <2>2. Edges(Children(e)) \in Seq(Node)
      BY EdgesOnce DEF Children
    <2> QED
      BY <2>1, <2>2
  <1>4. /\ x \in Frames /\ x.edges = q /\ x.kind = Top.kind /\ x.cleanup = Top.cleanup
        /\ x.panicking = Top.panicking
        /\ [Top EXCEPT !.edges = q] = x
    <2> HIDE DEF q
    <2> QED
      BY <1>1, <1>2, <1>3, WithIsFrame
  <1>5. stack' = Append(Below, x)
    <2>1. stack' = Below \o <<x>>
      BY <1>1, <1>4
    <2> HIDE DEF x
    <2> QED
      BY <1>2, <1>4, <2>1, AppendIsConcat
  <1>6. Top.kind = "list"
    BY <1>1 DEF Running
  <1> HIDE DEF x
  <1> QED
    BY <1>1, <1>4, <1>5, <1>6, ListStep

LEMMA PanicStep == IInv /\ TakeApartPanics => IInv'
  <1> SUFFICES ASSUME IInv, TakeApartPanics PROVE IInv'
    OBVIOUS
  <1> DEFINE e == Last(Top.edges)
             q == Edges(Children(e)) \o Front(Top.edges)
             x == [kind |-> "glue", edges |-> q, cleanup |-> Top.cleanup, panicking |-> TRUE]
  <1>1. /\ Running("list") /\ stack # << >> /\ Top.edges # << >>
        /\ DropValue(e) /\ UNCHANGED <<parent, aborted>>
        /\ stack' = Append(Below, x)
    BY DEF TakeApartPanics, Running
  <1>2. /\ Below \in Seq(Frames) /\ Top \in Frames /\ Top.edges \in Seq(Node)
        /\ Top.cleanup \in BOOLEAN
    BY <1>1, RunningFrame
  <1>3. q \in Seq(Node)
    <2>1. Front(Top.edges) \in Seq(Node)
      BY <1>1, <1>2, LastApart
    <2>2. Edges(Children(e)) \in Seq(Node)
      BY EdgesOnce DEF Children
    <2> QED
      BY <2>1, <2>2
  <1>4. /\ x \in Frames /\ x.edges = q /\ x.kind = "glue" /\ x.cleanup = Top.cleanup
        /\ x.panicking
    <2> HIDE DEF q
    <2> QED
      BY <1>2, <1>3 DEF Frames
  <1> HIDE DEF x
  <1> QED
    BY <1>1, <1>4, ListStep
LEMMA PopFrame ==
  ASSUME NEW s, Owned(s), s # << >>, Last(s).edges = << >>
  PROVE  /\ Owned(Front(s)) /\ Holds(Front(s)) = Holds(s) /\ (Tidy(s) => Tidy(Front(s)))
         /\ Spoilt(s) => Spoilt(Front(s)) \/ (Last(s).cleanup /\ Last(s).panicking)
  <1> DEFINE b == Front(s)
  <1>1. /\ s \in Seq(Frames) /\ b \in Seq(Frames) /\ Len(s) \in Nat \ {0}
        /\ Len(b) = Len(s) - 1 /\ Last(s) = s[Len(s)]
        /\ \A k \in 1 .. Len(s) - 1 : b[k] = s[k]
        /\ Holds(s) = Holds(b) \cup Range(Last(s).edges)
        /\ Tidy(s) => Tidy(b)
    BY TopApart DEF Owned
  <1>2. Range(Last(s).edges) = {}
    BY DEF Range
  <1> HIDE DEF b
  <1>3. Owned(b)
    <2>1. ASSUME b # << >> PROVE 1 \in 1 .. Len(s) - 1
      <3>1. Len(b) \in Nat /\ Len(b) # 0
        BY <1>1, <2>1
      <3> QED
        BY <1>1, <3>1
    <2>2. ~s[1].cleanup
      BY DEF Owned
    <2> QED
      BY <1>1, <2>1, <2>2 DEF Owned
  <1>4. ASSUME NEW k \in DOMAIN s, s[k].cleanup, s[k].panicking
        PROVE  Spoilt(b) \/ (Last(s).cleanup /\ Last(s).panicking)
    <2>1. CASE k = Len(s)
      BY <1>1, <1>4, <2>1
    <2>2. CASE k # Len(s)
      <3>1. k \in DOMAIN b /\ b[k] = s[k]
        BY <1>1, <2>2
      <3> QED
        BY <1>4, <3>1 DEF Spoilt
    <2> QED
      BY <2>1, <2>2
  <1> QED
    BY <1>1, <1>2, <1>3, <1>4 DEF Spoilt, b

LEMMA ReturnStep == IInv /\ Return => IInv'
  <1> SUFFICES ASSUME IInv, Return PROVE IInv'
    OBVIOUS
  <1>1. ~aborted /\ stack # << >> /\ Top.edges = << >> /\ UNCHANGED <<parent, drops>>
    BY DEF Return
  <1>2. /\ Top = Last(stack) /\ Below = Front(stack) /\ Owned(stack) /\ stack \in Seq(Frames)
        /\ Top \in Frames /\ Last(stack).edges = << >> /\ Below \in Seq(Frames)
        /\ Len(stack) \in Nat \ {0} /\ Len(Below) = Len(stack) - 1
        /\ Top = stack[Len(stack)]
    <2>1. Top = Last(stack) /\ Below = Front(stack) /\ Owned(stack) /\ stack \in Seq(Frames)
      BY DEF IInv, Owned, Top, Below
    <2> QED
      BY <1>1, <2>1, TopApart
  <1>3. /\ Owned(Below) /\ Holds(Below) = Holds(stack) /\ (Tidy(stack) => Tidy(Below))
        /\ Spoilt(stack) => Spoilt(Below) \/ (Top.cleanup /\ Top.panicking)
    BY <1>1, <1>2, PopFrame
  <1>4. ASSUME ~Doomed
        PROVE  /\ Tamed(stack, drops) /\ Nesting(stack) /\ Nesting(Below) /\ Tidy(Below)
               /\ Fits(Len(stack), Top) /\ Len(stack) \in 1 .. 3
    <2>1. Tamed(stack, drops) /\ Nesting(stack) /\ Tidy(stack)
      BY <1>4 DEF IInv, Tamed
    <2> QED
      BY <1>1, <1>2, <1>3, <2>1, NestPop, TopFits
  <1>5. drops' \in [Node -> Nat]
    BY <1>1 DEF IInv
  <1>6. CASE (~Top.panicking \/ Len(stack) = 1) /\ stack' = Below /\ UNCHANGED aborted
    <2>1. Spoilt(stack) => Spoilt(stack')
      <3>1. Len(stack) = 1 => ~Top.cleanup
        BY <1>1, <1>2 DEF Owned
      <3> QED
        BY <1>3, <1>6, <3>1
    <2>2. ~Doomed => Tamed(stack', drops')
      BY <1>1, <1>3, <1>4, <1>6 DEF Tamed
    <2>3. aborted' \in BOOLEAN
      BY <1>6 DEF IInv
    <2> QED
      BY <1>1, <1>3, <1>5, <1>6, <2>1, <2>2, <2>3, InvStep
  <1>7. CASE aborted' = TRUE /\ UNCHANGED stack
    BY <1>1, <1>2, <1>5, <1>7, InvStep
  <1>8. CASE /\ Top.panicking /\ Len(stack) # 1 /\ ~Top.cleanup /\ UNCHANGED aborted
             /\ stack' = [Below EXCEPT ![Len(Below)].panicking = TRUE]
    <2> DEFINE n == Len(Below)
               g == Below[n]
               x == [g EXCEPT !.panicking = TRUE]
    <2>1. n \in Nat \ {0} /\ Below # << >> /\ n = Len(stack) - 1 /\ g \in Frames
          /\ DOMAIN Below = 1 .. n /\ n \in DOMAIN Below
      BY <1>2, <1>8
    <2>2. /\ x \in Frames /\ x.edges = g.edges /\ x.kind = g.kind /\ x.cleanup = g.cleanup
          /\ x.panicking = TRUE
      <3> HIDE DEF g
      <3> QED
        BY <2>1 DEF Frames
    <2>3. /\ Len(stack') = n /\ stack' \in Seq(Frames) /\ stack'[n] = x
          /\ \A k \in 1 .. n - 1 : stack'[k] = Below[k]
      BY <1>2, <1>8, <2>1, <2>2
    <2> HIDE DEF g, x, n
    <2>4. Last(Below) = g /\ Len(Below) = n
      BY DEF Last, n, g
    <2> DEFINE r == Append(Front(Below), x)
    <2>5. /\ Owned(r) /\ r # << >> /\ Len(r) = n /\ r[n] = x
          /\ \A k \in 1 .. n - 1 : r[k] = Below[k]
          /\ Spoilt(Below) => Spoilt(r)
          /\ Holds(r) = Holds(Front(Below)) \cup Range(x.edges)
          /\ Tidy(r) <=> /\ Tidy(Front(Below)) /\ Once(x.edges)
                         /\ Holds(Front(Below)) \cap Range(x.edges) = {}
      BY <1>3, <2>1, <2>2, <2>4, Retop
    <2>6. /\ Holds(Below) = Holds(Front(Below)) \cup Range(g.edges)
          /\ Tidy(Below) <=> /\ Tidy(Front(Below)) /\ Once(g.edges)
                             /\ Holds(Front(Below)) \cap Range(g.edges) = {}
      BY <1>2, <2>1, <2>4, TopApart
    <2>7. stack' = r
      <3>1. r \in Seq(Frames)
        BY <2>5 DEF Owned
      <3> HIDE DEF r
      <3>2. \A k \in 1 .. n : stack'[k] = r[k]
        BY <2>1, <2>3, <2>5
      <3> QED
        BY <2>3, <2>5, <3>1, <3>2, SeqEqual
    <2> HIDE DEF r
    <2>8. Owned(stack') /\ (Spoilt(stack) => Spoilt(stack'))
      BY <1>3, <1>8, <2>5, <2>7
    <2>9. ASSUME ~Doomed PROVE Tamed(stack', drops')
      <3>1. Len(stack) = 2
        BY <1>2, <1>4, <1>8, <2>9 DEF Fits
      <3>2. n = 1 /\ g = stack[1] /\ g.edges = << >> /\ Fits(1, g)
        <4>1. n = 1
          BY <2>1, <3>1
        <4>2. g = stack[1]
          BY <1>2, <3>1, <4>1, TopApart DEF g
        <4> QED
          BY <1>4, <2>9, <3>1, <4>1, <4>2 DEF Nesting
      <3>3. Fits(n, x)
        BY <2>2, <3>2 DEF Fits
      <3>4. Nesting(stack')
        BY <1>2, <1>4, <2>1, <2>3, <2>9, <3>3, <2>4, NestTop
      <3>5. Holds(stack') = Holds(stack) /\ Tidy(stack')
        BY <1>3, <1>4, <2>2, <2>5, <2>6, <2>7, <2>9
      <3> QED
        BY <1>1, <1>4, <2>9, <3>4, <3>5 DEF Tamed
    <2>10. aborted' \in BOOLEAN
      BY <1>8 DEF IInv
    <2> QED
      BY <1>1, <1>5, <2>8, <2>9, <2>10, InvStep
  <1> QED
    BY <1>6, <1>7, <1>8 DEF Return

-----------------------------------------------------------------------------
LEMMA InvInit == Init => IInv
  <1> SUFFICES ASSUME Init PROVE IInv
    OBVIOUS
  <1> DEFINE f == Frame("glue", <<1>>, FALSE)
  <1>1. parent \in Trees /\ stack = <<f>> /\ drops = [n \in Node |-> 0] /\ aborted = FALSE
    BY DEF Init, Trees
  <1>2. 1 \in Node
    BY SizeAssumption DEF Node
  <1>3. /\ f \in Frames /\ f.edges = <<1>> /\ f.kind = "glue" /\ ~f.cleanup /\ ~f.panicking
    <2>1. <<1>> \in Seq(Node)
      BY <1>2
    <2> QED
      BY <2>1 DEF Frame, Frames
  <1>4. Range(<<1>>) = {1} /\ Once(<<1>>)
    BY DEF Range, Once
  <1> HIDE DEF f
  <1>5. Owned(stack) /\ Len(stack) = 1 /\ stack[1] = f /\ stack = Append(<< >>, f)
    BY <1>1, <1>3 DEF Owned
  <1>6. Holds(stack) = {1} /\ Tidy(stack)
    <2> DEFINE e == << >>
               r == Append(e, f)
    <2>1. e \in Seq(Frames) /\ Holds(e) = {} /\ Tidy(e)
      BY EmptyHolds
    <2>2. f \in Frames
      BY <1>3
    <2> HIDE DEF e
    <2>3. /\ Holds(r) = Holds(e) \cup Range(f.edges)
          /\ Tidy(r) <=> Tidy(e) /\ Once(f.edges) /\ Holds(e) \cap Range(f.edges) = {}
      BY <2>1, <2>2, PushHolds
    <2>4. stack = r
      BY <1>5 DEF e
    <2>5. Range(f.edges) = {1} /\ Once(f.edges)
      BY <1>3, <1>4
    <2> HIDE DEF r
    <2>6. Holds(r) = {1} /\ Tidy(r)
      BY <2>1, <2>3, <2>5
    <2> QED
      BY <2>4, <2>6
  <1>7. Nesting(stack)
    <2>1. Fits(1, f)
      <3>1. Len(<<1>>) <= 1
        OBVIOUS
      <3>2. Len(f.edges) <= 1
        BY <1>3, <3>1
      <3> QED
        BY <1>3, <3>2 DEF Fits
    <2>2. \A k \in 1 .. 1 : k = 1
      OBVIOUS
    <2>3. \A k \in 1 .. Len(stack) : Fits(k, stack[k])
      BY <1>5, <2>1, <2>2
    <2>4. Len(stack) = 1
      BY <1>5
    <2> QED
      BY <2>3, <2>4 DEF Nesting
  <1>8. Under({1}) = Node
    <2>1. ASSUME NEW n \in Node
          PROVE  n \in Node <=> n \in {1} \/ (n # 1 /\ parent[n] \in Node)
      BY <1>1, ParentType
    <2> QED
      BY <1>1, <1>2, <2>1, UnderIsOnly
  <1>9. Counts({1}, drops) /\ Antichain({1})
    BY <1>1, <1>8 DEF Counts, Antichain
  <1>10. Tamed(stack, drops)
    BY <1>6, <1>7, <1>9 DEF Tamed
  <1> QED
    BY <1>1, <1>5, <1>10 DEF IInv

LEMMA InvNext == IInv /\ [Next]_vars => IInv'
  <1>1. IInv /\ UNCHANGED vars => IInv'
    <2> SUFFICES ASSUME IInv, UNCHANGED vars PROVE IInv'
      OBVIOUS
    <2>1. UNCHANGED <<parent, stack, drops, aborted>>
      BY DEF vars
    <2>2. CASE aborted
      BY <2>1, <2>2 DEF IInv, Doomed, Trees, Owned, Frames
    <2>3. CASE ~aborted
      BY <2>1, <2>3, InvStep DEF IInv, Doomed, Spoilt
    <2> QED
      BY <2>2, <2>3
  <1> QED
    BY <1>1, LeafStep, InnerStep, TakeStep, PanicStep, ReturnStep DEF Next

(* "A chain of any depth drops on any stack" (memory.rs): for a subtree of *)
(* any size and shape, at most three drops nest and every value is dropped *)
(* once, whichever destructor panics, until a second panic dooms the       *)
(* process.                                                                *)
THEOREM FlatDrop == Spec => []DropsFlat
  <1>1. Init => IInv
    BY InvInit
  <1>2. IInv /\ [Next]_vars => IInv'
    BY InvNext
  <1>3. IInv => DropsFlat
    BY InvSuffices
  <1> QED
    BY <1>1, <1>2, <1>3, PTL DEF Spec

=============================================================================
