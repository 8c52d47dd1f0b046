----------------------------- MODULE TrieProofs -----------------------------
(***************************************************************************)
(* For every arity, key set and value set, whatever the store fails on: an *)
(* edit reaches only inline nodes (Trie), the trie is a map from keys to   *)
(* values, every edge beneath a sealed edge is sealed, the trie stays      *)
(* settled, and its hashes are those of its contents.                      *)
(***************************************************************************)
EXTENDS Trie, TrieTheorems

MutationFrame == [slot : DOMAIN slot, left : SUBSET Index]
HashFrame == [slot : DOMAIN slot, lead : Nat, siblings : Nat, count : Nat,
              left : SUBSET Index]

(* The trie is a tree, and its root is behind no edge. *)
Hung == IsTree(slot)
RootInline == slot # EmptyTrie => Inline(slot, Root)

(* Between two calls nothing is kept; a call stands on a node unless there *)
(* is none.                                                                *)
Control ==
  /\ req \in Abstract!Requests \cup {None}
  /\ pc \in {"idle", "descend", "collect", "unwind", "hash"}
  /\ req = None => pc = "idle" /\ walk = << >>
  /\ req # None => (pc = "hash") = (req.op = "hash")
  /\ req # None /\ slot # EmptyTrie => frames # << >>
  /\ pc \in {"collect", "unwind", "hash"} => slot # EmptyTrie
  /\ req # None /\ req.op = "materialize" => slot # EmptyTrie

(* The frames of a mutation lead from the root edge by edge, all inline.   *)
Descent ==
  /\ frames \in Seq(DOMAIN slot)
  /\ \A n \in DOMAIN frames :
       /\ Inline(slot, frames[n])
       /\ n = 1 => frames[n] = Root
       /\ n # 1 => /\ frames[n] # Root
                   /\ Full(slot, frames[n - 1]) = Front(frames[n])

OnKeysPath ==
  pc = "descend" /\ req.op \in {"insert", "remove", "remove_prefix"} /\ frames # << >>
    => IsPrefix(Top, Key)

(* A node below the walk's root that is not inline lies below a child that *)
(* is still to be entered.                                                 *)
Collecting ==
  pc = "collect" =>
    /\ walk \in Seq(MutationFrame) /\ walk # << >>
    /\ \A n \in DOMAIN walk : walk[n].left \subseteq Kids(slot, walk[n].slot)
    /\ req.op # "materialize" => walk[1].slot = Top
    /\ \A s \in DOMAIN slot :
         IsPrefix(walk[1].slot, s) /\ ~Inline(slot, s) =>
           \E n \in DOMAIN walk : \E i \in walk[n].left :
             IsPrefix(Child(slot, walk[n].slot, i), s)

(* What leaves the trie was materialized before. *)
Unwinds ==
  pc = "unwind" => \A s \in DOMAIN slot : IsPrefix(Top, s) => Inline(slot, s)

(* A frame of the hash walk and the children it has left are inline, and   *)
(* the frames above it lie below children entered already.                 *)
HashWalk ==
  pc = "hash" =>
    /\ frames = <<Root>>
    /\ walk \in Seq(HashFrame)
    /\ \A n \in DOMAIN walk :
         /\ Inline(slot, walk[n].slot)
         /\ \A i \in walk[n].left : /\ i \in Kids(slot, walk[n].slot)
                                    /\ Inline(slot, Child(slot, walk[n].slot, i))
    /\ \A m, n \in DOMAIN walk : m < n =>
         \E j \in Kids(slot, walk[m].slot) \ walk[m].left :
           IsPrefix(Child(slot, walk[m].slot, j), walk[n].slot)

TrieInv ==
  /\ Hung /\ RootInline /\ Control /\ Descent /\ OnKeysPath
  /\ Collecting /\ Unwinds /\ HashWalk

(* The path buffer holds the way to every frame: a node is hashed under    *)
(* the path it stands at.                                                  *)
BufferHolds ==
  /\ buf \in Seq(Index)
  /\ pc # "hash" \/ walk = << >> => buf = << >>
  /\ pc = "hash" => \A n \in DOMAIN walk : /\ walk[n].lead = Len(walk[n].slot)
                                           /\ IsPrefix(walk[n].slot, buf)

IInv == TrieInv /\ BufferHolds

(* What an action may do to a node that is not inline: nothing but to      *)
(* change its hash.                                                        *)
EditStep ==
  \A s \in DOMAIN slot :
    ~Inline(slot, s) => /\ s \in DOMAIN slot'
                        /\ slot'[s].partial = slot[s].partial
                        /\ slot'[s].value = slot[s].value

-----------------------------------------------------------------------------
(* The frames of a mutation.                                               *)

LEMMA TopIsInline ==
  ASSUME TrieInv, frames # << >>
  PROVE  /\ IsTree(slot) /\ IsTrie(slot) /\ slot # EmptyTrie
         /\ Len(frames) \in Nat \ {0}
         /\ Top \in DOMAIN slot /\ Inline(slot, Top)
         /\ Top \in Seq(Index) /\ Full(slot, Top) \in Seq(Index)
         /\ Len(Top) \in Nat /\ Len(Full(slot, Top)) \in Nat
         /\ Len(Top) <= Len(Full(slot, Top)) /\ IsPrefix(Top, Full(slot, Top))
  <1>1. frames \in Seq(DOMAIN slot) /\ IsTree(slot) /\ IsTrie(slot)
    BY DEF TrieInv, Descent, Hung, IsTree
  <1>2. Len(frames) \in Nat \ {0} /\ Len(frames) \in DOMAIN frames
    BY <1>1
  <1>3. Top \in DOMAIN slot /\ Inline(slot, Top)
    BY <1>1, <1>2 DEF TrieInv, Descent, Top, Last
  <1> QED
    BY <1>1, <1>2, <1>3, HasRoot, FullExtends

LEMMA ParentIsInline ==
  ASSUME TrieInv, Len(frames) > 1
  PROVE  /\ frames # << >>
         /\ Parent \in DOMAIN slot /\ Inline(slot, Parent)
         /\ Top # Root /\ Top = Child(slot, Parent, Last(Top))
         /\ Last(Top) \in Kids(slot, Parent)
  <1>1. frames # << >>
    <2>1. frames = << >> => Len(frames) = 0
      BY EmptySeq
    <2> QED
      BY <2>1
  <1>2. /\ IsTree(slot) /\ Len(frames) \in Nat \ {0} /\ Top \in DOMAIN slot
        /\ Top \in Seq(Index)
    BY <1>1, TopIsInline
  <1>3. DOMAIN frames = 1 .. Len(frames) /\ frames \in Seq(DOMAIN slot)
    BY DEF TrieInv, Descent
  <1>4. Len(frames) - 1 \in DOMAIN frames /\ Len(frames) \in DOMAIN frames
    BY <1>2, <1>3
  <1>5. /\ Parent \in DOMAIN slot /\ Inline(slot, Parent)
        /\ Top # Root /\ Full(slot, Parent) = Front(Top)
    BY <1>3, <1>4 DEF TrieInv, Descent, Parent, Top, Last
  <1>6. Top = Append(Front(Top), Last(Top)) /\ Last(Top) \in Index
    BY <1>2, <1>5, FrontType DEF Root
  <1>7. Top = Child(slot, Parent, Last(Top))
    BY <1>5, <1>6 DEF Child
  <1> QED
    BY <1>1, <1>2, <1>5, <1>6, <1>7 DEF Kids

(* The key of a call is a path. *)
LEMMA KeyIsPath ==
  ASSUME Control, req # None, req.op \in {"insert", "remove", "remove_prefix"}
  PROVE  Key \in Seq(Index)
  <1>1. req \in Abstract!Requests
    BY DEF Control
  <1>2. req.key \in Keys \cup PrefixKeys
    BY <1>1 DEF Abstract!Requests
  <1> QED
    BY <1>2, KeysAssumption DEF Key

-----------------------------------------------------------------------------
(* Steps that end the call.                                                *)

LEMMA ReturnKeeps ==
  ASSUME NEW result, Return(result), IsTree(slot'),
         slot' # EmptyTrie => Inline(slot', Root)
  PROVE  TrieInv'
  <1>1. /\ req' = None /\ pc' = "idle" /\ frames' = << >> /\ walk' = << >>
        /\ frames' \in Seq(DOMAIN slot')
    BY DEF Return
  <1> QED
    BY <1>1 DEF TrieInv, Hung, RootInline, Control, Descent, OnKeysPath, Collecting,
                Unwinds, HashWalk

LEMMA FailKeeps ==
  ASSUME TrieInv, Fail
  PROVE  TrieInv' /\ EditStep
  <1>1. slot' = slot /\ Return(Err)
    BY DEF Fail, Change
  <1> QED
    BY <1>1, ReturnKeeps DEF TrieInv, Hung, RootInline, EditStep

LEMMA SameTrieReturns ==
  ASSUME TrieInv, NEW result, Change(slot, result)
  PROVE  TrieInv' /\ EditStep
  <1>1. slot' = slot /\ Return(result)
    BY DEF Change
  <1> QED
    BY <1>1, ReturnKeeps DEF TrieInv, Hung, RootInline, EditStep

LEMMA NewNode ==
  ASSUME NEW partial \in Seq(Index), NEW d
  PROVE  IsNode(LeafNode(partial, d)) /\ LeafNode(partial, d).hash = None
         /\ LeafNode(partial, d).partial = partial
  BY DEF IsNode, LeafNode

LEMMA InsertIntoEmptyKeeps == TrieInv /\ InsertIntoEmpty => TrieInv' /\ EditStep
  <1> SUFFICES ASSUME TrieInv, InsertIntoEmpty PROVE TrieInv' /\ EditStep
    OBVIOUS
  <1> DEFINE leaf == LeafNode(Key, req.val)
  <1>1. slot' = Holding(EmptyTrie, Root, leaf) /\ Return(None) /\ slot = EmptyTrie
    BY DEF InsertIntoEmpty, Change
  <1>2. Key \in Seq(Index)
    BY KeyIsPath DEF TrieInv, InsertIntoEmpty, Descending
  <1>3. IsNode(leaf) /\ leaf.hash = None
    BY <1>2, NewNode
  <1> HIDE DEF leaf
  <1>4. DOMAIN slot' = {Root} /\ slot'[Root] = leaf
    BY <1>1 DEF Holding, EmptyTrie, Root
  <1>5. IsTree(slot')
    <2>1. Root \in Seq(Index)
      BY EmptySeq DEF Root
    <2> QED
      BY <1>3, <1>4, <2>1 DEF IsTree, IsTrie, Apart, NoOrphans, IsNode
  <1>6. Inline(slot', Root)
    BY <1>3, <1>4 DEF Inline
  <1>7. EditStep
    BY <1>1 DEF EditStep, EmptyTrie
  <1> QED
    BY <1>1, <1>5, <1>6, <1>7, ReturnKeeps

LEMMA ValueChangeReturns ==
  ASSUME TrieInv, frames # << >>, NEW v, NEW result,
         Change([slot EXCEPT ![Top].value = v], result)
  PROVE  TrieInv' /\ EditStep
  <1>1. slot' = [slot EXCEPT ![Top].value = v] /\ Return(result)
    BY DEF Change
  <1>2. /\ IsTree(slot) /\ IsTrie(slot) /\ slot # EmptyTrie /\ Top \in DOMAIN slot
        /\ Inline(slot, Top)
    BY TopIsInline
  <1>3. /\ SameShape(slot, slot')
        /\ \A x \in DOMAIN slot : /\ slot'[x].hash = slot[x].hash
                                  /\ x # Top => slot'[x].value = slot[x].value
    <2> DEFINE s == Top
               u == ValuePut(slot, s, v)
    <2>1. slot' = u
      BY <1>1 DEF ValuePut
    <2>2. IsTrie(slot) /\ s \in DOMAIN slot
      BY <1>2
    <2> HIDE DEF s
    <2>3. /\ SameShape(slot, u)
          /\ \A x \in DOMAIN slot : /\ u[x].hash = slot[x].hash
                                    /\ x # s => u[x].value = slot[x].value
      BY <2>2, ValueSet
    <2> HIDE DEF u
    <2> QED
      BY <2>1, <2>3 DEF s
  <1>4. IsTree(slot')
    BY <1>2, <1>3, ShapeKept
  <1>5. Inline(slot', Root)
    BY <1>2, <1>3, HasRoot DEF TrieInv, RootInline, Inline
  <1>6. EditStep
    BY <1>2, <1>3 DEF EditStep, SameShape, Inline
  <1> QED
    BY <1>1, <1>4, <1>5, <1>6, ReturnKeeps

-----------------------------------------------------------------------------
(* A call begins, and an edge is materialized.                             *)

LEMMA BeginKeeps == \A r \in Abstract!Requests : TrieInv /\ Begin(r) => TrieInv' /\ EditStep
  <1> SUFFICES ASSUME NEW r \in Abstract!Requests, TrieInv, Begin(r)
               PROVE  TrieInv' /\ EditStep
    OBVIOUS
  <1>1. /\ slot' = slot /\ walk' = walk /\ req' = r /\ r # None
        /\ pc' = IF r.op = "hash" THEN "hash" ELSE "descend"
        /\ frames' = IF slot = EmptyTrie THEN << >> ELSE <<Root>>
        /\ r.op \in {"materialize", "hash"} => slot # EmptyTrie
    BY RequestsAssumption DEF Begin
  <1>2. walk' = << >> /\ IsTree(slot) /\ IsTrie(slot)
    BY <1>1 DEF TrieInv, Control, Begin, Hung, IsTree
  <1>3. slot # EmptyTrie => Root \in DOMAIN slot /\ Inline(slot, Root)
    BY <1>2 DEF IsTrie, TrieInv, RootInline
  <1>4. Hung' /\ RootInline' /\ EditStep
    BY <1>1 DEF TrieInv, Hung, RootInline, EditStep
  <1>5. Descent'
    <2>1. CASE slot = EmptyTrie
      BY <1>1, <2>1 DEF Descent
    <2>2. CASE slot # EmptyTrie
      <3>1. frames' = <<Root>> /\ frames' \in Seq(DOMAIN slot') /\ DOMAIN frames' = {1}
        BY <1>1, <1>3, <2>2
      <3> QED
        BY <1>1, <1>3, <2>2, <3>1 DEF Descent
    <2> QED
      BY <2>1, <2>2
  <1>6. Control'
    <2>1. slot # EmptyTrie => frames' # << >>
      BY <1>1
    <2> QED
      BY <1>1, <1>2, <2>1 DEF Control
  <1>7. OnKeysPath'
    <2> SUFFICES ASSUME req'.op \in {"insert", "remove", "remove_prefix"}, frames' # << >>
                 PROVE  IsPrefix(Top', Key')
      BY DEF OnKeysPath
    <2>1. Key' \in Seq(Index)
      <3>1. req'.key \in Keys \cup PrefixKeys
        BY <1>1 DEF Abstract!Requests
      <3> QED
        BY <3>1, KeysAssumption DEF Key
    <2>2. Top' = << >>
      <3>1. frames' = <<Root>>
        BY <1>1
      <3> QED
        BY <3>1 DEF Top, Last, Root
    <2> QED
      BY <2>1, <2>2, PrefixOrder
  <1>8. Collecting' /\ Unwinds' /\ HashWalk'
    <2>1. pc' # "collect" /\ pc' # "unwind"
      BY <1>1
    <2>2. walk' \in Seq(HashFrame') /\ DOMAIN walk' = {}
      BY <1>2
    <2>3. pc' = "hash" => frames' = <<Root>>
      BY <1>1
    <2> QED
      BY <2>1, <2>2, <2>3 DEF Collecting, Unwinds, HashWalk
  <1> QED
    BY <1>4, <1>5, <1>6, <1>7, <1>8 DEF TrieInv

LEMMA EdgeRead ==
  ASSUME TrieInv, NEW c \in DOMAIN slot, slot' = Materialized(slot, c)
  PROVE  /\ Hung' /\ RootInline' /\ EditStep
         /\ slot # EmptyTrie /\ slot' # EmptyTrie
         /\ DOMAIN slot' = DOMAIN slot
         /\ \A s \in DOMAIN slot :
              /\ Full(slot', s) = Full(slot, s)
              /\ Kids(slot', s) = Kids(slot, s)
              /\ \A i : Child(slot', s, i) = Child(slot, s, i)
              /\ Inline(slot, s) => Inline(slot', s)
         /\ Inline(slot', c)
  <1>1. IsTree(slot) /\ IsTrie(slot) /\ slot # EmptyTrie /\ Root \in DOMAIN slot
    BY HasRoot DEF TrieInv, Hung, IsTree
  <1>2. /\ SameShape(slot, slot')
        /\ \A x \in DOMAIN slot : /\ slot'[x].value = slot[x].value
                                  /\ x # c => slot'[x].hash = slot[x].hash
        /\ slot'[c].hash = None
    <2> DEFINE u == HashPut(slot, c, None)
    <2>1. slot' = u
      BY DEF Materialized, HashPut
    <2>2. /\ SameShape(slot, u)
          /\ \A x \in DOMAIN slot : /\ u[x].value = slot[x].value
                                    /\ x # c => u[x].hash = slot[x].hash
          /\ u[c].hash = None
      BY <1>1, HashSet
    <2> HIDE DEF u
    <2> QED
      BY <2>1, <2>2
  <1>3. /\ IsTree(slot')
        /\ \A s \in DOMAIN slot : /\ Full(slot', s) = Full(slot, s)
                                  /\ Kids(slot', s) = Kids(slot, s)
                                  /\ \A i : Child(slot', s, i) = Child(slot, s, i)
    BY <1>1, <1>2, ShapeKept
  <1>4. DOMAIN slot' = DOMAIN slot /\ \A s \in DOMAIN slot : slot'[s].partial = slot[s].partial
    BY <1>2 DEF SameShape
  <1>5. \A s \in DOMAIN slot : Inline(slot, s) => Inline(slot', s)
    BY <1>2 DEF Inline
  <1>6. slot' # EmptyTrie /\ RootInline'
    <2>1. IsTrie(slot') /\ Root \in DOMAIN slot'
      BY <1>1, <1>3, <1>4 DEF IsTree
    <2>2. slot' # EmptyTrie
      BY <2>1, HasRoot
    <2> QED
      BY <1>1, <1>5, <2>2 DEF TrieInv, RootInline
  <1>7. EditStep
    BY <1>2, <1>4 DEF EditStep
  <1> QED
    BY <1>1, <1>2, <1>3, <1>4, <1>5, <1>6, <1>7 DEF Hung, Inline

(* Where the call goes on from the same loop, all its frames stand. *)
LEMMA FramesStand ==
  ASSUME TrieInv, DOMAIN slot' = DOMAIN slot, slot # EmptyTrie, slot' # EmptyTrie,
         \A s \in DOMAIN slot : /\ Full(slot', s) = Full(slot, s)
                                /\ Inline(slot, s) => Inline(slot', s),
         UNCHANGED <<req, frames>>
  PROVE  Descent'
  <1>1. /\ frames' = frames /\ frames \in Seq(DOMAIN slot)
        /\ \A n \in DOMAIN frames : frames[n] \in DOMAIN slot
    BY DEF TrieInv, Descent
  <1>2. ASSUME NEW n \in DOMAIN frames
        PROVE  /\ Inline(slot', frames[n])
               /\ n = 1 => frames[n] = Root
               /\ n # 1 => /\ frames[n] # Root
                           /\ Full(slot', frames[n - 1]) = Front(frames[n])
    <2>1. Inline(slot', frames[n]) /\ (n = 1 => frames[n] = Root)
      <3>1. Inline(slot, frames[n]) /\ (n = 1 => frames[n] = Root)
        BY DEF TrieInv, Descent
      <3> QED
        BY <1>1, <3>1
    <2>2. ASSUME n # 1
          PROVE  frames[n] # Root /\ Full(slot', frames[n - 1]) = Front(frames[n])
      <3>1. n - 1 \in DOMAIN frames
        BY <1>1, <2>2
      <3>2. frames[n] # Root /\ Full(slot, frames[n - 1]) = Front(frames[n])
        BY <2>2 DEF TrieInv, Descent
      <3>3. frames[n - 1] \in DOMAIN slot
        BY <1>1, <3>1
      <3> QED
        BY <3>2, <3>3
    <2> QED
      BY <2>1, <2>2
  <1> QED
    BY <1>1, <1>2 DEF Descent

LEMMA DescendKeeps == TrieInv /\ Descend => TrieInv' /\ EditStep
  <1> SUFFICES ASSUME TrieInv, Descend PROVE TrieInv' /\ EditStep
    OBVIOUS
  <1> DEFINE c == Child(slot, Top, KeyNext)
  <1>1. /\ req # None /\ req.op \in {"insert", "remove", "remove_prefix"}
        /\ pc = "descend" /\ slot # EmptyTrie
        /\ IsStrictPrefix(Full(slot, Top), Key) /\ KeyNext \in Kids(slot, Top)
    BY DEF Descend, OnNode, Descending, HasNext, KeyContinues
  <1>2. frames # << >> /\ Key \in Seq(Index)
    BY <1>1, KeyIsPath DEF TrieInv, Control
  <1>3. /\ IsTrie(slot) /\ Top \in DOMAIN slot /\ Top \in Seq(Index)
        /\ Full(slot, Top) \in Seq(Index) /\ Len(frames) \in Nat \ {0}
    BY <1>2, TopIsInline
  <1>4. c \in DOMAIN slot /\ c # Root /\ Front(c) = Full(slot, Top)
    BY <1>1, <1>3, ChildHangs DEF Root
  <1>5. IsPrefix(c, Key)
    <2> DEFINE f == Full(slot, Top)
    <2>1. IsPrefix(f, Key) /\ f # Key /\ f \in Seq(Index)
      BY <1>1, <1>3 DEF IsStrictPrefix
    <2>2. c = Append(f, Key[Len(f) + 1])
      BY DEF Child, KeyNext
    <2> HIDE DEF f, c
    <2>3. Len(f) < Len(Key)
      BY <1>2, <2>1, PrefixOrder
    <2> QED
      BY <1>2, <2>1, <2>2, <2>3, PrefixContinues
  <1> HIDE DEF c
  <1>6. CASE MaterializeFails(c)
    BY <1>6, FailKeeps DEF MaterializeFails
  <1>7. CASE /\ slot' = Materialized(slot, c)
             /\ frames' = Append(frames, c)
             /\ UNCHANGED <<req, pc, walk, out>>
    <2>1. /\ Hung' /\ RootInline' /\ EditStep /\ slot' # EmptyTrie
          /\ DOMAIN slot' = DOMAIN slot
          /\ \A s \in DOMAIN slot : /\ Full(slot', s) = Full(slot, s)
                                    /\ Inline(slot, s) => Inline(slot', s)
          /\ Inline(slot', c)
      BY <1>4, <1>7, EdgeRead
    <2> DEFINE m == Len(frames)
    <2>2. /\ frames \in Seq(DOMAIN slot) /\ m \in Nat \ {0} /\ DOMAIN frames = 1 .. m
          /\ frames' \in Seq(DOMAIN slot) /\ DOMAIN frames' = 1 .. m + 1
          /\ \A n \in 1 .. m : frames'[n] = frames[n]
          /\ frames'[m + 1] = c /\ Len(frames') = m + 1
      BY <1>3, <1>4, <1>7, AppendProperties DEF TrieInv, Descent
    <2>3. Top = frames[m] /\ Top' = c
      BY <2>2 DEF Top, Last
    <2> HIDE DEF m
    <2>4. ASSUME NEW n \in 1 .. m + 1
          PROVE  /\ Inline(slot', frames'[n])
                 /\ n = 1 => frames'[n] = Root
                 /\ n # 1 => /\ frames'[n] # Root
                             /\ Full(slot', frames'[n - 1]) = Front(frames'[n])
      <3>1. CASE n = m + 1
        <4>1. n # 1 /\ n - 1 \in 1 .. m /\ n - 1 = m
          BY <2>2, <3>1
        <4>2. frames'[n] = c /\ frames'[n - 1] = Top
          BY <2>2, <2>3, <3>1, <4>1
        <4> QED
          BY <1>3, <1>4, <2>1, <4>1, <4>2
      <3>2. CASE n # m + 1
        <4>1. n \in 1 .. m /\ frames'[n] = frames[n] /\ frames[n] \in DOMAIN slot
          BY <2>2, <3>2
        <4>2. Inline(slot', frames'[n]) /\ (n = 1 => frames'[n] = Root)
          BY <2>1, <2>2, <4>1 DEF TrieInv, Descent
        <4>3. ASSUME n # 1
              PROVE  frames'[n] # Root /\ Full(slot', frames'[n - 1]) = Front(frames'[n])
          <5>1. n - 1 \in 1 .. m /\ frames'[n - 1] = frames[n - 1]
                /\ frames[n - 1] \in DOMAIN slot
            BY <2>2, <4>1, <4>3
          <5>2. frames[n] # Root /\ Full(slot, frames[n - 1]) = Front(frames[n])
            BY <2>2, <4>1, <4>3 DEF TrieInv, Descent
          <5> QED
            BY <2>1, <4>1, <5>1, <5>2
        <4> QED
          BY <4>2, <4>3
      <3> QED
        BY <3>1, <3>2
    <2>5. Descent'
      BY <2>1, <2>2, <2>4 DEF Descent
    <2>6. Control' /\ frames' # << >>
      <3>1. frames' # << >>
        BY <2>2, EmptySeq
      <3> QED
        BY <1>1, <1>7, <2>1, <3>1 DEF TrieInv, Control
    <2>7. OnKeysPath'
      BY <1>5, <1>7, <2>3 DEF OnKeysPath, Key
    <2> QED
      BY <1>1, <1>7, <2>1, <2>5, <2>6, <2>7 DEF TrieInv, Collecting, Unwinds, HashWalk
  <1> QED
    BY <1>6, <1>7 DEF Descend, c

(* An edge materialized on the way down or up, the call where it was. *)
LEMMA EdgeReadInPlace ==
  ASSUME TrieInv, NEW c \in DOMAIN slot, slot' = Materialized(slot, c),
         UNCHANGED control, pc \in {"descend", "unwind"}
  PROVE  TrieInv' /\ EditStep
  <1>1. /\ Hung' /\ RootInline' /\ EditStep
        /\ slot # EmptyTrie /\ slot' # EmptyTrie /\ DOMAIN slot' = DOMAIN slot
        /\ \A s \in DOMAIN slot : /\ Full(slot', s) = Full(slot, s)
                                  /\ Inline(slot, s) => Inline(slot', s)
    BY EdgeRead
  <1>2. /\ req' = req /\ pc' = pc /\ frames' = frames /\ walk' = walk /\ Top' = Top
        /\ Key' = Key
    BY DEF control, Top, Key
  <1>3. Descent'
    BY <1>1, <1>2, FramesStand
  <1>4. Unwinds'
    BY <1>1, <1>2 DEF TrieInv, Unwinds
  <1> QED
    BY <1>1, <1>2, <1>3, <1>4 DEF TrieInv, Control, OnKeysPath, Collecting, HashWalk

-----------------------------------------------------------------------------
(* insert                                                                  *)

LEMMA OnPath ==
  ASSUME TrieInv, NEW op \in {"insert", "remove", "remove_prefix"}, OnNode(op)
  PROVE  /\ req # None /\ req.op = op /\ pc = "descend" /\ slot # EmptyTrie
         /\ frames # << >> /\ Key \in Seq(Index) /\ Len(Key) \in Nat
         /\ IsPrefix(Top, Key) /\ Len(Top) <= Len(Key)
  <1>1. req # None /\ req.op = op /\ pc = "descend" /\ slot # EmptyTrie
    BY DEF OnNode, Descending
  <1>2. frames # << >> /\ Key \in Seq(Index)
    BY <1>1, KeyIsPath DEF TrieInv, Control
  <1>3. IsPrefix(Top, Key) /\ Top \in Seq(Index)
    BY <1>1, <1>2, TopIsInline DEF TrieInv, OnKeysPath
  <1> QED
    BY <1>1, <1>2, <1>3, PrefixOrder

LEMMA ReplaceKeeps == TrieInv /\ Replace => TrieInv' /\ EditStep
  <1> SUFFICES ASSUME TrieInv, Replace PROVE TrieInv' /\ EditStep
    OBVIOUS
  <1>1. frames # << >>
    BY OnPath DEF Replace
  <1>2. Change([slot EXCEPT ![Top].value = Unspliced(req.val)],
               IF slot[Top].value = None THEN None ELSE slot[Top].value.data)
    BY DEF Replace
  <1> QED
    BY <1>1, <1>2, ValueChangeReturns

LEMMA BeyondIsPath ==
  ASSUME NEW S, NEW q \in Seq(S), NEW n \in 0 .. Len(q)
  PROVE  Beyond(q, n) \in Seq(S)
  <1> DEFINE p == SubSeq(q, 1, n)
  <1>1. p \in Seq(S) /\ Len(p) = n /\ IsPrefix(p, q)
    BY PrefixIsInitial
  <1>2. Len(q) \in Len(p) .. Len(q)
    BY <1>1
  <1> HIDE DEF p
  <1>3. SubSeq(q, Len(p) + 1, Len(q)) \in Seq(S)
    BY <1>1, <1>2, PathSplit
  <1> QED
    BY <1>1, <1>3 DEF Beyond

(* The top node pushed below a new one, whatever that one's value is. *)
LEMMA TopPushed ==
  ASSUME TrieInv, frames # << >>, NEW n \in Len(Top) .. Len(Full(slot, Top)) - 1, NEW v
  PROVE  LET f == Full(slot, Top)
             m == SubSeq(f, 1, n + 1)
             u == Pushed(n, v)
         IN  /\ IsPushed(slot, Top, n, m, u[Top], u[m], u)
             /\ u[Top].value = v /\ u[m].value = slot[Top].value /\ Inline(u, m)
             /\ IsTree(u) /\ u # EmptyTrie
             /\ Top \in DOMAIN u /\ Inline(u, Top)
             /\ Full(u, Top) = SubSeq(f, 1, n) /\ Kids(u, Top) = {f[n + 1]}
             /\ \A x \in DOMAIN slot \ {Top} : x \in DOMAIN u /\ u[x] = slot[x]
  <1> DEFINE f   == Full(slot, Top)
             m   == SubSeq(f, 1, n + 1)
             new == [partial |-> SubSeq(f, Len(Top) + 1, n),
                     value |-> v, hash |-> slot[Top].hash]
             old == [partial |-> Beyond(f, n + 1),
                     value |-> slot[Top].value, hash |-> None]
  <1>1. /\ IsTree(slot) /\ IsTrie(slot) /\ Top \in DOMAIN slot /\ Inline(slot, Top)
        /\ Top \in Seq(Index) /\ f \in Seq(Index) /\ Len(Top) \in Nat /\ Len(f) \in Nat
        /\ IsPrefix(Top, f)
    BY TopIsInline
  <1>2. Pushed(n, v) = Holding(Holding(slot, Top, new), m, old)
    BY DEF Pushed
  <1>3. IsNode(slot[Top]) /\ slot[Top].hash = None
    BY <1>1, NodeOfTrie DEF Inline
  <1>4. SubSeq(f, Len(Top) + 1, n) \in Seq(Index)
    <2>1. n \in Len(Top) .. Len(f)
      BY <1>1
    <2> HIDE DEF f
    <2> QED
      BY <1>1, <2>1, PathSplit
  <1>5. Beyond(f, n + 1) \in Seq(Index)
    <2>1. n + 1 \in 0 .. Len(f)
      BY <1>1
    <2> HIDE DEF f
    <2> QED
      BY <1>1, <2>1, BeyondIsPath
  <1>6. /\ IsNode(new) /\ new.partial = SubSeq(f, Len(Top) + 1, n) /\ new.hash = None
        /\ IsNode(old) /\ old.partial = Beyond(f, n + 1) /\ old.hash = None
        /\ new.value = v /\ old.value = slot[Top].value
    BY <1>3, <1>4, <1>5 DEF IsNode
  <1> HIDE DEF new, old
  <1> DEFINE u == Holding(Holding(slot, Top, new), m, old)
  <1>7. /\ IsTree(u) /\ u # EmptyTrie
        /\ DOMAIN u = DOMAIN slot \cup {m} /\ u[Top] = new
        /\ Full(u, Top) = SubSeq(f, 1, n) /\ Kids(u, Top) = {f[n + 1]}
        /\ \A x \in DOMAIN slot \ {Top} : u[x] = slot[x]
        /\ u[m] = old /\ IsPushed(slot, Top, n, m, new, old, u)
    <2>1. n \in Len(Top) .. Len(Full(slot, Top)) - 1
      OBVIOUS
    <2>2. /\ new.partial = SubSeq(Full(slot, Top), Len(Top) + 1, n)
          /\ old.partial = Beyond(Full(slot, Top), n + 1)
      BY <1>6
    <2>3. IsPushed(slot, Top, n, m, new, old, u)
      BY <1>1, <1>6, <2>1, <2>2, NodePushed
    <2> HIDE DEF u, m
    <2> QED
      BY <2>3 DEF IsPushed
  <1> HIDE DEF u
  <1> QED
    BY <1>1, <1>2, <1>6, <1>7 DEF Inline, u

(* An edit that leaves all nodes but the top one in place ends the call. *)
LEMMA TopEdited ==
  ASSUME TrieInv, frames # << >>, NEW u, NEW result, Change(u, result),
         IsTree(u), u # EmptyTrie, Top \in DOMAIN u, Inline(u, Top),
         \A x \in DOMAIN slot :
           ~Inline(slot, x) \/ x = Root => x = Top \/ (x \in DOMAIN u /\ u[x] = slot[x])
  PROVE  TrieInv' /\ EditStep
  <1>1. slot' = u /\ Return(result)
    BY DEF Change
  <1>2. /\ Top \in DOMAIN slot /\ Inline(slot, Top) /\ slot # EmptyTrie
        /\ Root \in DOMAIN slot /\ Inline(slot, Root)
    BY TopIsInline, HasRoot DEF TrieInv, RootInline
  <1>3. Inline(u, Root)
    BY <1>2 DEF Inline
  <1>4. EditStep
    BY <1>1, <1>2 DEF EditStep
  <1> QED
    BY <1>1, <1>3, <1>4, ReturnKeeps

LEMMA InsertAboveKeeps == TrieInv /\ InsertAbove => TrieInv' /\ EditStep
  <1> SUFFICES ASSUME TrieInv, InsertAbove PROVE TrieInv' /\ EditStep
    OBVIOUS
  <1> DEFINE f == Full(slot, Top)
             u == Pushed(Len(Key), Unspliced(req.val))
  <1>1. OnNode("insert") /\ IsPrefix(Key, f) /\ Key # f /\ Change(u, None)
    BY DEF InsertAbove, KeyEndsAbove, IsStrictPrefix
  <1>2. /\ frames # << >> /\ Key \in Seq(Index) /\ Len(Key) \in Nat
        /\ Len(Top) <= Len(Key)
    BY <1>1, OnPath
  <1>3. f \in Seq(Index) /\ Len(f) \in Nat /\ Len(Top) \in Nat
    BY <1>2, TopIsInline
  <1> HIDE DEF f
  <1>4. Len(Key) < Len(f)
    BY <1>1, <1>2, <1>3, PrefixOrder
  <1>5. Len(Key) \in Len(Top) .. Len(f) - 1
    BY <1>2, <1>3, <1>4
  <1>6. /\ IsTree(u) /\ u # EmptyTrie /\ Top \in DOMAIN u /\ Inline(u, Top)
        /\ \A x \in DOMAIN slot \ {Top} : x \in DOMAIN u /\ u[x] = slot[x]
    BY <1>2, <1>5, TopPushed DEF f
  <1> HIDE DEF u
  <1> QED
    BY <1>1, <1>2, <1>6, TopEdited

(* The key's next index is free: its leaf hangs below the top node. *)
LEMMA LeafBelow ==
  ASSUME TrieInv, InsertBelow
  PROVE  /\ KeyNext \in Index
         /\ SubSeq(Key, 1, Len(Full(slot, Top)) + 1) = Child(slot, Top, KeyNext)
         /\ Len(Full(slot, Top)) + 1 \in 0 .. Len(Key)
         /\ IsGrown(slot, Top, KeyNext,
                    LeafNode(Beyond(Key, Len(Full(slot, Top)) + 1), req.val),
                    Holding(slot, SubSeq(Key, 1, Len(Full(slot, Top)) + 1),
                            LeafNode(Beyond(Key, Len(Full(slot, Top)) + 1), req.val)))
  <1> DEFINE f    == Full(slot, Top)
             n    == Len(f) + 1
             i    == KeyNext
             leaf == LeafNode(Beyond(Key, n), req.val)
  <1>1. /\ OnNode("insert") /\ IsPrefix(f, Key) /\ f # Key
        /\ i \notin Kids(slot, Top)
    BY DEF InsertBelow, KeyContinues, HasNext, IsStrictPrefix
  <1>2. frames # << >> /\ Key \in Seq(Index) /\ Len(Key) \in Nat
    BY <1>1, OnPath
  <1>3. /\ IsTree(slot) /\ Top \in DOMAIN slot
        /\ f \in Seq(Index) /\ Len(f) \in Nat
    BY <1>2, TopIsInline
  <1>4. /\ i \in Index /\ SubSeq(Key, 1, n) = Child(slot, Top, i)
        /\ n \in 0 .. Len(Key)
    <2>1. i = Key[Len(f) + 1] /\ Child(slot, Top, i) = Append(f, i)
      BY DEF KeyNext, Child
    <2> HIDE DEF f, i
    <2>2. Len(f) < Len(Key)
      BY <1>1, <1>2, <1>3, PrefixOrder
    <2> QED
      BY <1>1, <1>2, <1>3, <2>1, <2>2, PrefixContinues
  <1>5. IsNode(leaf)
    BY <1>2, <1>4, BeyondIsPath, NewNode
  <1> HIDE DEF n, i, leaf
  <1>6. IsGrown(slot, Top, i, leaf, Holding(slot, Child(slot, Top, i), leaf))
    BY <1>1, <1>3, <1>4, <1>5, LeafHangs
  <1>7. IsGrown(slot, Top, i, leaf, Holding(slot, SubSeq(Key, 1, n), leaf))
    BY <1>4, <1>6
  <1> QED
    BY <1>4, <1>7 DEF n, i, leaf

LEMMA InsertBelowKeeps == TrieInv /\ InsertBelow => TrieInv' /\ EditStep
  <1> SUFFICES ASSUME TrieInv, InsertBelow PROVE TrieInv' /\ EditStep
    OBVIOUS
  <1> DEFINE n    == Len(Full(slot, Top)) + 1
             i    == KeyNext
             leaf == LeafNode(Beyond(Key, n), req.val)
             u    == Holding(slot, SubSeq(Key, 1, n), leaf)
  <1>1. OnNode("insert") /\ Change(u, None)
    BY DEF InsertBelow
  <1>2. frames # << >>
    BY <1>1, OnPath
  <1>3. Top \in DOMAIN slot /\ Inline(slot, Top)
    BY <1>2, TopIsInline
  <1>4. IsGrown(slot, Top, i, leaf, u)
    BY LeafBelow
  <1> HIDE DEF u, leaf, i
  <1>5. /\ IsTree(u) /\ u # EmptyTrie
        /\ \A x \in DOMAIN slot : x \in DOMAIN u /\ u[x] = slot[x]
    BY <1>4 DEF IsGrown
  <1>6. Top \in DOMAIN u /\ Inline(u, Top)
    BY <1>3, <1>5 DEF Inline
  <1> QED
    BY <1>1, <1>2, <1>5, <1>6, TopEdited

(* Where key and partial path part, the top node is pushed below a fork    *)
(* and the key's leaf hangs beside it.                                     *)
ForkAt == Len(LongestCommonPrefix({Key, Full(slot, Top)}))

LEMMA LeafForks ==
  ASSUME TrieInv, InsertFork
  PROVE  /\ ForkAt \in Len(Top) .. Len(Full(slot, Top)) - 1
         /\ ForkAt + 1 \in 0 .. Len(Key)
         /\ SubSeq(Key, 1, ForkAt) = SubSeq(Full(slot, Top), 1, ForkAt)
         /\ Key[ForkAt + 1] \in Index
         /\ Key[ForkAt + 1] # Full(slot, Top)[ForkAt + 1]
         /\ SubSeq(Key, 1, ForkAt + 1) = Child(Pushed(ForkAt, None), Top, Key[ForkAt + 1])
         /\ IsGrown(Pushed(ForkAt, None), Top, Key[ForkAt + 1],
                    LeafNode(Beyond(Key, ForkAt + 1), req.val),
                    Holding(Pushed(ForkAt, None), SubSeq(Key, 1, ForkAt + 1),
                            LeafNode(Beyond(Key, ForkAt + 1), req.val)))
  <1> DEFINE f    == Full(slot, Top)
             n    == ForkAt
             t    == Pushed(n, None)
             leaf == LeafNode(Beyond(Key, n + 1), req.val)
  <1>1. OnNode("insert") /\ ~IsPrefix(f, Key) /\ ~IsPrefix(Key, f)
    BY DEF InsertFork, At, KeyContinues, KeyEndsAbove, IsStrictPrefix
  <1>2. frames # << >> /\ Key \in Seq(Index) /\ Len(Key) \in Nat /\ IsPrefix(Top, Key)
    BY <1>1, OnPath
  <1>3. /\ Top \in Seq(Index) /\ Len(Top) \in Nat /\ IsPrefix(Top, f)
        /\ f \in Seq(Index) /\ Len(f) \in Nat
    BY <1>2, TopIsInline
  <1>4. /\ n \in Nat /\ n < Len(Key) /\ n < Len(f)
        /\ SubSeq(Key, 1, n) = SubSeq(f, 1, n)
        /\ Key[n + 1] # f[n + 1] /\ Len(Top) <= n
    <2>1. n = Len(LongestCommonPrefix({Key, f}))
      BY DEF ForkAt
    <2> HIDE DEF f, n
    <2> QED
      BY <1>1, <1>2, <1>3, <2>1, PathsPart
  <1> HIDE DEF f, n
  <1>5. n \in Len(Top) .. Len(f) - 1 /\ n + 1 \in 0 .. Len(Key)
    BY <1>2, <1>3, <1>4
  <1>6. /\ IsTree(t) /\ Top \in DOMAIN t
        /\ Full(t, Top) = SubSeq(f, 1, n) /\ Kids(t, Top) = {f[n + 1]}
    BY <1>2, <1>5, TopPushed DEF f
  <1> HIDE DEF t
  <1> DEFINE i == Key[n + 1]
  <1>7. i \in Index /\ SubSeq(Key, 1, n + 1) = Child(t, Top, i)
    <2> DEFINE p == SubSeq(Key, 1, n)
    <2>1. p \in Seq(Index) /\ Len(p) = n /\ IsPrefix(p, Key)
      BY <1>2, <1>4, PrefixIsInitial
    <2>2. Full(t, Top) = p
      BY <1>4, <1>6
    <2> HIDE DEF p, i
    <2>3. Key[n + 1] \in Index /\ Append(p, Key[n + 1]) = SubSeq(Key, 1, n + 1)
      BY <1>2, <1>4, <2>1, PrefixContinues
    <2> QED
      BY <2>2, <2>3 DEF Child, i
  <1>8. i \in Index \ Kids(t, Top)
    BY <1>4, <1>6, <1>7
  <1>9. IsNode(leaf)
    BY <1>2, <1>5, BeyondIsPath, NewNode
  <1> HIDE DEF i, leaf
  <1>10. IsGrown(t, Top, i, leaf, Holding(t, Child(t, Top, i), leaf))
    BY <1>6, <1>8, <1>9, LeafHangs
  <1>11. IsGrown(t, Top, i, leaf, Holding(t, SubSeq(Key, 1, n + 1), leaf))
    BY <1>7, <1>10
  <1> QED
    BY <1>4, <1>5, <1>7, <1>11 DEF f, n, t, i, leaf

LEMMA InsertForkKeeps == TrieInv /\ InsertFork => TrieInv' /\ EditStep
  <1> SUFFICES ASSUME TrieInv, InsertFork PROVE TrieInv' /\ EditStep
    OBVIOUS
  <1> DEFINE n    == ForkAt
             t    == Pushed(n, None)
             i    == Key[n + 1]
             leaf == LeafNode(Beyond(Key, n + 1), req.val)
             u    == Holding(t, SubSeq(Key, 1, n + 1), leaf)
  <1>1. OnNode("insert") /\ Change(u, None)
    BY DEF InsertFork, ForkAt
  <1>2. frames # << >>
    BY <1>1, OnPath
  <1>3. n \in Len(Top) .. Len(Full(slot, Top)) - 1 /\ IsGrown(t, Top, i, leaf, u)
    BY LeafForks
  <1> HIDE DEF n, i, leaf
  <1>4. /\ Top \in DOMAIN t /\ Inline(t, Top)
        /\ \A x \in DOMAIN slot \ {Top} : x \in DOMAIN t /\ t[x] = slot[x]
    BY <1>2, <1>3, TopPushed
  <1> HIDE DEF t, u
  <1>5. /\ IsTree(u) /\ u # EmptyTrie
        /\ \A x \in DOMAIN t : x \in DOMAIN u /\ u[x] = t[x]
    BY <1>3 DEF IsGrown
  <1>6. Top \in DOMAIN u /\ Inline(u, Top)
    BY <1>4, <1>5 DEF Inline
  <1>7. \A x \in DOMAIN slot : x = Top \/ (x \in DOMAIN u /\ u[x] = slot[x])
    BY <1>4, <1>5
  <1> QED
    BY <1>1, <1>2, <1>5, <1>6, <1>7, TopEdited

-----------------------------------------------------------------------------
(* remove                                                                  *)

LEMMA OneKid ==
  ASSUME NEW K \in SUBSET Index, Cardinality(K) = 1
  PROVE  \E i \in Index : K = {i}
  <1>1. IsFiniteSet(K)
    BY IndexAssumption, FS_Subset
  <1> QED
    BY <1>1, FS_Singleton

LEMMA RemoveFindsNothingKeeps == TrieInv /\ RemoveFindsNothing => TrieInv' /\ EditStep
  <1> SUFFICES ASSUME TrieInv, RemoveFindsNothing PROVE TrieInv' /\ EditStep
    OBVIOUS
  <1>1. Change(slot, None)
    BY DEF RemoveFindsNothing
  <1> QED
    BY <1>1, SameTrieReturns

LEMMA ClearValueKeeps == TrieInv /\ ClearValue => TrieInv' /\ EditStep
  <1> SUFFICES ASSUME TrieInv, ClearValue PROVE TrieInv' /\ EditStep
    OBVIOUS
  <1>1. OnNode("remove") /\ Change([slot EXCEPT ![Top].value = None], slot[Top].value.data)
    BY DEF ClearValue, RemovesAt
  <1>2. frames # << >>
    BY <1>1, OnPath
  <1> QED
    BY <1>1, <1>2, ValueChangeReturns

LEMMA ClearAndMergeKeeps == TrieInv /\ ClearAndMerge => TrieInv' /\ EditStep
  <1> SUFFICES ASSUME TrieInv, ClearAndMerge PROVE TrieInv' /\ EditStep
    OBVIOUS
  <1> DEFINE c == OnlyChild(slot, Top)
             u == MergeOnlyChild(slot, Top)
  <1>1. OnNode("remove") /\ Cardinality(Kids(slot, Top)) = 1
    BY DEF ClearAndMerge, RemovesAt
  <1>2. frames # << >> /\ pc = "descend"
    BY <1>1, OnPath
  <1>3. /\ IsTree(slot) /\ IsTrie(slot) /\ Top \in DOMAIN slot /\ Inline(slot, Top)
    BY <1>2, TopIsInline
  <1>4. PICK i \in Index : Kids(slot, Top) = {i}
    <2>1. Kids(slot, Top) \in SUBSET Index
      BY DEF Kids
    <2> QED
      BY <1>1, <2>1, OneKid
  <1>5. IsMerged(slot, Top, i, u)
    BY <1>3, <1>4, ChildMerged
  <1>6. /\ c \in DOMAIN slot /\ c # Root /\ c # Top
        /\ IsTree(u) /\ u # EmptyTrie /\ DOMAIN u = DOMAIN slot \ {c}
        /\ u[Top].hash = slot[Top].hash
        /\ \A x \in DOMAIN slot \ {Top, c} : u[x] = slot[x]
    <2> HIDE DEF u
    <2> QED
      BY <1>5 DEF IsMerged
  <1>7. CASE MaterializeFails(c)
    BY <1>7, FailKeeps DEF MaterializeFails
  <1>8. CASE slot' = Materialized(slot, c) /\ UNCHANGED control
    BY <1>2, <1>6, <1>8, EdgeReadInPlace
  <1>9. CASE Inline(slot, c) /\ Change(u, slot[Top].value.data)
    <2> HIDE DEF u, c
    <2>1. Top \in DOMAIN u /\ Inline(u, Top)
      BY <1>3, <1>6 DEF Inline
    <2>2. \A x \in DOMAIN slot : ~Inline(slot, x) \/ x = Root =>
            x = Top \/ (x \in DOMAIN u /\ u[x] = slot[x])
      BY <1>6, <1>9
    <2> QED
      BY <1>2, <1>6, <1>9, <2>1, <2>2, TopEdited
  <1> QED
    BY <1>7, <1>8, <1>9 DEF ClearAndMerge

LEMMA RemoveLeafKeeps == TrieInv /\ RemoveLeaf => TrieInv' /\ EditStep
  <1> SUFFICES ASSUME TrieInv, RemoveLeaf PROVE TrieInv' /\ EditStep
    OBVIOUS
  <1>1. /\ OnNode("remove") /\ Kids(slot, Top) = {}
        /\ pc' = "unwind" /\ UNCHANGED <<slot, req, frames, walk, out>>
    BY DEF RemoveLeaf, RemovesAt
  <1>2. /\ req # None /\ req.op = "remove" /\ frames # << >> /\ slot # EmptyTrie
    BY <1>1, OnPath
  <1>3. IsTree(slot) /\ Top \in DOMAIN slot /\ Inline(slot, Top)
    BY <1>2, TopIsInline
  <1>4. \A s \in DOMAIN slot : IsPrefix(Top, s) => Inline(slot, s)
    BY <1>1, <1>3, BelowAChild
  <1>5. Unwinds'
    BY <1>1, <1>4 DEF Unwinds, Top
  <1>6. Hung' /\ RootInline' /\ Descent' /\ EditStep
    BY <1>1 DEF TrieInv, Hung, RootInline, Descent, EditStep
  <1> QED
    BY <1>1, <1>2, <1>5, <1>6 DEF TrieInv, Control, OnKeysPath, Collecting, HashWalk

-----------------------------------------------------------------------------
(* remove_prefix and materialize_subtree                                   *)

LEMMA PrefixFindsNothingKeeps == TrieInv /\ PrefixFindsNothing => TrieInv' /\ EditStep
  <1> SUFFICES ASSUME TrieInv, PrefixFindsNothing PROVE TrieInv' /\ EditStep
    OBVIOUS
  <1>1. Change(slot, Done)
    BY DEF PrefixFindsNothing
  <1> QED
    BY <1>1, SameTrieReturns

(* A whole-subtree walk begins at an inline node. *)
LEMMA CollectStarts ==
  ASSUME TrieInv, NEW d \in DOMAIN slot, Inline(slot, d),
         req # None, req.op # "hash", req.op # "materialize" => d = Top,
         pc' = "collect", walk' = <<[slot |-> d, left |-> Kids(slot, d)]>>,
         UNCHANGED <<slot, req, frames, out>>
  PROVE  TrieInv' /\ EditStep
  <1> DEFINE fr == [slot |-> d, left |-> Kids(slot, d)]
  <1>1. IsTree(slot) /\ IsTrie(slot) /\ slot # EmptyTrie
    BY HasRoot DEF TrieInv, Hung, IsTree
  <1>2. /\ Hung' /\ RootInline' /\ Descent' /\ EditStep
        /\ slot' = slot /\ req' = req /\ frames' = frames /\ Top' = Top
    BY DEF TrieInv, Hung, RootInline, Descent, EditStep, Top
  <1>3. fr \in MutationFrame /\ fr.slot = d /\ fr.left = Kids(slot, d)
    BY DEF MutationFrame, Kids
  <1> HIDE DEF fr
  <1>4. /\ walk' = <<fr>> /\ walk' \in Seq(MutationFrame) /\ walk' # << >>
        /\ DOMAIN walk' = {1} /\ walk'[1] = fr
    BY <1>3 DEF fr
  <1>5. MutationFrame' = MutationFrame
    BY <1>2 DEF MutationFrame
  <1>6. ASSUME NEW s \in DOMAIN slot, IsPrefix(d, s), ~Inline(slot, s)
        PROVE  \E i \in fr.left : IsPrefix(Child(slot, fr.slot, i), s)
    <2>1. s # d
      BY <1>6
    <2> QED
      BY <1>1, <1>3, <1>6, <2>1, BelowAChild
  <1>7. Collecting'
    BY <1>2, <1>3, <1>4, <1>5, <1>6 DEF Collecting
  <1>8. Control'
    BY <1>1, <1>2 DEF TrieInv, Control
  <1> QED
    BY <1>2, <1>7, <1>8 DEF TrieInv, OnKeysPath, Unwinds, HashWalk

LEMMA PrefixFoundKeeps == TrieInv /\ PrefixFound => TrieInv' /\ EditStep
  <1> SUFFICES ASSUME TrieInv, PrefixFound PROVE TrieInv' /\ EditStep
    OBVIOUS
  <1>1. /\ OnNode("remove_prefix") /\ pc' = "collect"
        /\ walk' = <<[slot |-> Top, left |-> Kids(slot, Top)]>>
        /\ UNCHANGED <<slot, req, frames, out>>
    BY DEF PrefixFound
  <1>2. req # None /\ req.op = "remove_prefix" /\ frames # << >>
    BY <1>1, OnPath
  <1>3. Top \in DOMAIN slot /\ Inline(slot, Top)
    BY <1>2, TopIsInline
  <1> QED
    BY <1>1, <1>2, <1>3, CollectStarts

LEMMA StartMaterializeKeeps == TrieInv /\ StartMaterialize => TrieInv' /\ EditStep
  <1> SUFFICES ASSUME TrieInv, StartMaterialize PROVE TrieInv' /\ EditStep
    OBVIOUS
  <1>1. /\ req # None /\ req.op = "materialize" /\ pc' = "collect"
        /\ walk' = <<[slot |-> Root, left |-> Kids(slot, Root)]>>
        /\ UNCHANGED <<slot, req, frames, out>>
    BY DEF StartMaterialize, Descending
  <1>2. Root \in DOMAIN slot /\ Inline(slot, Root)
    BY <1>1 DEF TrieInv, Control, Hung, IsTree, IsTrie, RootInline
  <1> QED
    BY <1>1, <1>2, CollectStarts

LEMMA LowestLeft ==
  ASSUME NEW L \in SUBSET Index, L # {}
  PROVE  Min(L) \in L
  BY LowestKid DEF Min

LEMMA TopSet ==
  ASSUME NEW F, NEW w \in Seq(F), w # << >>, NEW fr \in F,
         NEW g, g = [w EXCEPT ![Len(w)] = fr]
  PROVE  /\ g \in Seq(F) /\ Len(g) = Len(w) /\ g # << >>
         /\ g[Len(w)] = fr
         /\ \A n \in 1 .. Len(w) : n # Len(w) => g[n] = w[n]
  <1>1. Len(w) \in Nat \ {0} /\ Len(w) \in 1 .. Len(w)
    OBVIOUS
  <1>2. /\ g \in Seq(F) /\ Len(g) = Len(w)
        /\ \A n \in 1 .. Len(w) : g[n] = IF n = Len(w) THEN fr ELSE w[n]
    BY <1>1, ExceptSeq
  <1>3. g # << >>
    BY <1>1, <1>2
  <1> QED
    BY <1>1, <1>2, <1>3

LEMMA CollectTop ==
  ASSUME TrieInv, pc = "collect"
  PROVE  /\ IsTree(slot) /\ IsTrie(slot) /\ slot # EmptyTrie
         /\ req # None /\ req.op # "hash" /\ frames # << >>
         /\ walk \in Seq(MutationFrame) /\ walk # << >> /\ Len(walk) \in Nat \ {0}
         /\ Last(walk) = walk[Len(walk)] /\ Last(walk) \in MutationFrame
         /\ Last(walk).slot \in DOMAIN slot /\ Last(walk).left \in SUBSET Index
         /\ Last(walk).left \subseteq Kids(slot, Last(walk).slot)
         /\ DOMAIN walk = 1 .. Len(walk)
  <1>1. /\ IsTree(slot) /\ IsTrie(slot) /\ slot # EmptyTrie
        /\ req # None /\ req.op # "hash" /\ frames # << >>
    BY DEF TrieInv, Hung, IsTree, Control
  <1>2. /\ walk \in Seq(MutationFrame) /\ walk # << >>
        /\ \A n \in DOMAIN walk : walk[n].left \subseteq Kids(slot, walk[n].slot)
    BY DEF TrieInv, Collecting
  <1>3. /\ Len(walk) \in Nat \ {0} /\ DOMAIN walk = 1 .. Len(walk)
        /\ Len(walk) \in 1 .. Len(walk)
    BY <1>2
  <1>4. Last(walk) = walk[Len(walk)] /\ Last(walk) \in MutationFrame
    BY <1>2, <1>3, ElementOfSeq DEF Last
  <1>5. Last(walk).slot \in DOMAIN slot /\ Last(walk).left \in SUBSET Index
    BY <1>4 DEF MutationFrame
  <1> QED
    BY <1>1, <1>2, <1>3, <1>4, <1>5

LEMMA CollectChildKeeps == TrieInv /\ CollectChild => TrieInv' /\ EditStep
  <1> SUFFICES ASSUME TrieInv, CollectChild PROVE TrieInv' /\ EditStep
    OBVIOUS
  <1> DEFINE m   == Len(walk)
             top == Last(walk)
             i   == Min(top.left)
             c   == Child(slot, top.slot, i)
             g   == [walk EXCEPT ![m].left = @ \ {i}]
             new == [slot |-> c, left |-> Kids(slot, c)]
  <1>1. pc = "collect" /\ top.left # {}
    BY DEF CollectChild
  <1>2. /\ IsTree(slot) /\ IsTrie(slot) /\ slot # EmptyTrie
        /\ req # None /\ req.op # "hash" /\ frames # << >>
        /\ walk \in Seq(MutationFrame) /\ walk # << >> /\ m \in Nat \ {0}
        /\ top = walk[m] /\ top \in MutationFrame
        /\ top.slot \in DOMAIN slot /\ top.left \in SUBSET Index
        /\ top.left \subseteq Kids(slot, top.slot) /\ DOMAIN walk = 1 .. m
    BY <1>1, CollectTop
  <1>3. i \in top.left /\ i \in Kids(slot, top.slot)
    <2> HIDE DEF top
    <2> QED
      BY <1>1, <1>2, LowestLeft
  <1>4. c \in DOMAIN slot
    BY <1>3 DEF Kids
  <1>5. CASE MaterializeFails(c)
    BY <1>5, FailKeeps DEF MaterializeFails
  <1>6. CASE /\ slot' = Materialized(slot, c)
             /\ walk' = Append(g, new)
             /\ UNCHANGED <<req, pc, frames, out>>
    <2>1. /\ Hung' /\ RootInline' /\ EditStep
          /\ slot' # EmptyTrie /\ DOMAIN slot' = DOMAIN slot
          /\ \A s \in DOMAIN slot : /\ Full(slot', s) = Full(slot, s)
                                    /\ Kids(slot', s) = Kids(slot, s)
                                    /\ \A j : Child(slot', s, j) = Child(slot, s, j)
                                    /\ Inline(slot, s) => Inline(slot', s)
          /\ Inline(slot', c)
      BY <1>4, <1>6, EdgeRead
    <2>2. Descent'
      BY <1>2, <1>6, <2>1, FramesStand
    <2> DEFINE fr == [top EXCEPT !.left = top.left \ {i}]
    <2>3. fr \in MutationFrame /\ fr.slot = top.slot /\ fr.left = top.left \ {i}
      <3>1. top \in [slot : DOMAIN slot, left : SUBSET Index]
        BY <1>2 DEF MutationFrame
      <3> HIDE DEF top, i
      <3> QED
        BY <3>1 DEF MutationFrame
    <2>4. /\ g \in Seq(MutationFrame) /\ Len(g) = m /\ g[m] = fr
          /\ \A n \in 1 .. m : n # m => g[n] = walk[n]
      <3>1. g = [walk EXCEPT ![m] = fr]
        BY <1>2
      <3> HIDE DEF g, fr, top, i
      <3> QED
        BY <1>2, <2>3, <3>1, TopSet
    <2>5. new \in MutationFrame /\ new.slot = c /\ new.left = Kids(slot, c)
      BY <1>4 DEF MutationFrame, Kids
    <2> HIDE DEF g, fr, new, m, i, c, top
    <2>6. /\ walk' \in Seq(MutationFrame) /\ DOMAIN walk' = 1 .. m + 1
          /\ walk' # << >>
          /\ \A n \in 1 .. m : walk'[n] = g[n]
          /\ walk'[m + 1] = new
      BY <1>2, <1>6, <2>4, <2>5, AppendProperties
    <2>7. \A n \in 1 .. m : walk'[n].slot = walk[n].slot
      BY <1>2, <2>3, <2>4, <2>6
    <2>8. ASSUME NEW n \in 1 .. m + 1
          PROVE  walk'[n].left \subseteq Kids(slot, walk'[n].slot)
      <3>1. CASE n = m + 1
        BY <2>5, <2>6, <3>1
      <3>2. CASE n = m
        BY <1>2, <2>3, <2>4, <2>6, <3>2
      <3>3. CASE n \in 1 .. m /\ n # m
        <4>1. walk[n].left \subseteq Kids(slot, walk[n].slot)
          BY <1>1, <1>2, <3>3 DEF TrieInv, Collecting
        <4> QED
          BY <2>4, <2>6, <3>3, <4>1
      <3> QED
        BY <1>2, <3>1, <3>2, <3>3
    <2>9. ASSUME NEW n \in 1 .. m + 1
          PROVE  /\ walk'[n].slot \in DOMAIN slot
                 /\ walk'[n].left \subseteq Kids(slot', walk'[n].slot)
      <3>1. walk'[n] \in MutationFrame
        BY <1>2, <2>6, ElementOfSeq
      <3>2. walk'[n].slot \in DOMAIN slot
        BY <3>1 DEF MutationFrame
      <3> QED
        BY <2>1, <2>8, <3>2
    <2>10. ASSUME NEW s \in DOMAIN slot, IsPrefix(walk'[1].slot, s), ~Inline(slot', s)
           PROVE  \E n \in 1 .. m + 1 : \E j \in walk'[n].left :
                    IsPrefix(Child(slot, walk'[n].slot, j), s)
      <3>1. s # c /\ ~Inline(slot, s) /\ IsPrefix(walk[1].slot, s)
        BY <1>2, <2>1, <2>7, <2>10
      <3>2. PICK n \in 1 .. m : \E j \in walk[n].left :
                                  IsPrefix(Child(slot, walk[n].slot, j), s)
        BY <1>1, <1>2, <3>1 DEF TrieInv, Collecting
      <3>3. PICK j \in walk[n].left : IsPrefix(Child(slot, walk[n].slot, j), s)
        BY <3>2
      <3>4. CASE n = m /\ j = i
        <4>1. IsPrefix(c, s)
          BY <1>2, <3>3, <3>4 DEF c
        <4>2. PICK k \in Kids(slot, c) : IsPrefix(Child(slot, c, k), s)
          BY <1>2, <1>4, <3>1, <4>1, BelowAChild
        <4> QED
          BY <1>2, <2>5, <2>6, <4>2
      <3>5. CASE n = m /\ j # i
        <4>1. j \in walk'[m].left /\ walk'[m].slot = walk[m].slot
          BY <1>2, <2>3, <2>4, <2>6, <3>3, <3>5
        <4> QED
          BY <1>2, <3>3, <3>5, <4>1
      <3>6. CASE n # m
        <4>1. walk'[n] = walk[n]
          BY <2>4, <2>6, <3>6
        <4> QED
          BY <1>2, <3>3, <4>1
      <3> QED
        BY <3>4, <3>5, <3>6
    <2>11. ASSUME NEW s \in DOMAIN slot, IsPrefix(walk'[1].slot, s), ~Inline(slot', s)
           PROVE  \E n \in 1 .. m + 1 : \E j \in walk'[n].left :
                    IsPrefix(Child(slot', walk'[n].slot, j), s)
      BY <2>1, <2>9, <2>10, <2>11
    <2>12. req.op # "materialize" => walk'[1].slot = Top'
      <3>1. req.op # "materialize" => walk[1].slot = Top
        BY <1>1 DEF TrieInv, Collecting
      <3> QED
        BY <1>2, <1>6, <2>7, <3>1 DEF Top
    <2>13. MutationFrame' = MutationFrame
      BY <2>1 DEF MutationFrame
    <2>14. Collecting'
      BY <1>6, <2>1, <2>6, <2>9, <2>11, <2>12, <2>13 DEF Collecting
    <2>15. Control'
      BY <1>1, <1>2, <1>6, <2>1 DEF TrieInv, Control
    <2> QED
      BY <1>1, <1>6, <2>1, <2>2, <2>14, <2>15 DEF TrieInv, OnKeysPath, Unwinds, HashWalk
  <1> QED
    BY <1>5, <1>6 DEF CollectChild

LEMMA CollectUpKeeps == TrieInv /\ CollectUp => TrieInv' /\ EditStep
  <1> SUFFICES ASSUME TrieInv, CollectUp PROVE TrieInv' /\ EditStep
    OBVIOUS
  <1> DEFINE m == Len(walk)
  <1>1. pc = "collect" /\ Last(walk).left = {} /\ slot' = slot
    BY DEF CollectUp
  <1>2. /\ slot # EmptyTrie /\ req # None /\ req.op # "hash" /\ frames # << >>
        /\ walk \in Seq(MutationFrame) /\ walk # << >> /\ m \in Nat \ {0}
        /\ Last(walk) = walk[m] /\ DOMAIN walk = 1 .. m
    BY <1>1, CollectTop
  <1>3. \A n \in 1 .. m : walk[n].left \subseteq Kids(slot, walk[n].slot)
    BY <1>1, <1>2 DEF TrieInv, Collecting
  <1>4. \A s \in DOMAIN slot :
          IsPrefix(walk[1].slot, s) /\ ~Inline(slot, s) =>
            \E n \in 1 .. m : \E j \in walk[n].left :
              IsPrefix(Child(slot, walk[n].slot, j), s)
    BY <1>1, <1>2 DEF TrieInv, Collecting
  <1>5. req.op # "materialize" => walk[1].slot = Top
    BY <1>1 DEF TrieInv, Collecting
  <1>6. Hung' /\ RootInline' /\ EditStep
    BY <1>1 DEF TrieInv, Hung, RootInline, EditStep
  <1> HIDE DEF m
  <1>7. CASE Len(walk) > 1 /\ walk' = Front(walk) /\ UNCHANGED <<req, pc, frames, out>>
    <2>1. m > 1
      BY <1>7 DEF m
    <2>2. /\ walk' \in Seq(MutationFrame) /\ DOMAIN walk' = 1 .. m - 1 /\ walk' # << >>
          /\ \A n \in 1 .. m - 1 : walk'[n] = walk[n]
      <3>1. /\ walk' \in Seq(MutationFrame) /\ Len(walk') = m - 1
            /\ \A n \in 1 .. m - 1 : walk'[n] = walk[n]
        BY <1>2, <1>7, FrontType DEF m
      <3>2. walk' # << >>
        BY <1>2, <2>1, <3>1, EmptySeq
      <3> QED
        BY <1>2, <3>1, <3>2
    <2>3. MutationFrame' = MutationFrame /\ Top' = Top
      BY <1>1, <1>7 DEF MutationFrame, Top
    <2>4. \A n \in 1 .. m - 1 : walk'[n].left \subseteq Kids(slot, walk'[n].slot)
      <3>1. \A n \in 1 .. m - 1 : n \in 1 .. m
        BY <1>2
      <3> QED
        BY <1>3, <2>2, <3>1
    <2>5. 1 \in 1 .. m - 1 /\ walk'[1] = walk[1]
      BY <1>2, <2>1, <2>2
    <2>6. ASSUME NEW s \in DOMAIN slot, IsPrefix(walk'[1].slot, s), ~Inline(slot, s)
          PROVE  \E n \in 1 .. m - 1 : \E j \in walk'[n].left :
                   IsPrefix(Child(slot, walk'[n].slot, j), s)
      <3>1. PICK n \in 1 .. m : \E j \in walk[n].left :
                                  IsPrefix(Child(slot, walk[n].slot, j), s)
        BY <1>4, <2>5, <2>6
      <3>2. n # m
        BY <1>1, <1>2, <3>1
      <3>3. n \in 1 .. m - 1
        BY <1>2, <3>2
      <3> QED
        BY <2>2, <3>1, <3>3
    <2>7. Collecting'
      BY <1>1, <1>5, <1>7, <2>2, <2>3, <2>4, <2>5, <2>6 DEF Collecting
    <2> QED
      BY <1>1, <1>2, <1>6, <1>7, <2>7
         DEF TrieInv, Control, Descent, OnKeysPath, Unwinds, HashWalk
  <1>8. CASE Return(Done)
    BY <1>1, <1>8, SameTrieReturns DEF Change
  <1>9. CASE /\ ~(Len(walk) > 1) /\ req.op # "materialize"
             /\ pc' = "unwind" /\ walk' = << >> /\ UNCHANGED <<req, frames, out>>
    <2>1. m = 1
      BY <1>2, <1>9 DEF m
    <2>2. ASSUME NEW s \in DOMAIN slot, IsPrefix(Top, s), ~Inline(slot, s) PROVE FALSE
      <3>1. PICK n \in 1 .. 1 : \E j \in walk[n].left :
                                  IsPrefix(Child(slot, walk[n].slot, j), s)
        BY <1>4, <1>5, <1>9, <2>1, <2>2
      <3> QED
        BY <1>1, <1>2, <2>1, <3>1
    <2>3. Unwinds'
      BY <1>1, <1>9, <2>2 DEF Unwinds, Top
    <2> QED
      BY <1>1, <1>2, <1>6, <1>9, <2>3
         DEF TrieInv, Control, Descent, OnKeysPath, Collecting, HashWalk
  <1> QED
    BY <1>7, <1>8, <1>9 DEF CollectUp

-----------------------------------------------------------------------------
(* The unwinding of a removal                                              *)

LEMMA OnUnwind ==
  ASSUME TrieInv, Unwinding
  PROVE  /\ req # None /\ pc = "unwind" /\ slot # EmptyTrie /\ frames # << >>
         /\ IsTree(slot) /\ IsTrie(slot) /\ frames \in Seq(DOMAIN slot)
         /\ Len(frames) \in Nat \ {0} /\ Top \in DOMAIN slot /\ Top \in Seq(Index)
         /\ Root \in DOMAIN slot /\ Inline(slot, Root)
         /\ \A s \in DOMAIN slot : IsPrefix(Top, s) => Inline(slot, s)
  <1>1. req # None /\ pc = "unwind" /\ slot # EmptyTrie /\ frames # << >>
    BY DEF Unwinding, TrieInv, Control
  <1>2. /\ IsTree(slot) /\ IsTrie(slot) /\ Top \in DOMAIN slot /\ Top \in Seq(Index)
        /\ Len(frames) \in Nat \ {0}
    BY <1>1, TopIsInline
  <1>3. Root \in DOMAIN slot /\ Inline(slot, Root)
    BY <1>1, <1>2, HasRoot DEF TrieInv, RootInline
  <1> QED
    BY <1>1, <1>2, <1>3 DEF TrieInv, Unwinds, Descent

LEMMA UnwindRootKeeps == TrieInv /\ UnwindRoot => TrieInv' /\ EditStep
  <1> SUFFICES ASSUME TrieInv, UnwindRoot PROVE TrieInv' /\ EditStep
    OBVIOUS
  <1>1. /\ Unwinding /\ Len(frames) = 1 /\ slot' = EmptyTrie
        /\ Return(Leaving(Root))
    BY DEF UnwindRoot, Change
  <1>2. /\ frames \in Seq(DOMAIN slot) /\ IsTrie(slot)
        /\ \A s \in DOMAIN slot : IsPrefix(Top, s) => Inline(slot, s)
    BY <1>1, OnUnwind
  <1>3. 1 \in DOMAIN frames /\ Top = frames[1]
    BY <1>1, <1>2 DEF Top, Last
  <1>4. Top = << >>
    BY <1>3 DEF TrieInv, Descent, Root
  <1>5. \A s \in DOMAIN slot : Inline(slot, s)
    <2>1. \A s \in DOMAIN slot : s \in Seq(Index)
      BY <1>2 DEF IsTrie
    <2>2. \A s \in DOMAIN slot : IsPrefix(<< >>, s)
      BY <2>1, PrefixOrder
    <2> QED
      BY <1>2, <1>4, <2>2
  <1>6. IsTree(slot')
    BY <1>1 DEF IsTree, IsTrie, Apart, NoOrphans, EmptyTrie
  <1>7. EditStep
    BY <1>5 DEF EditStep
  <1> QED
    BY <1>1, <1>6, <1>7, ReturnKeeps

LEMMA TopDetached ==
  ASSUME TrieInv, Unwinding, Len(frames) > 1
  PROVE  LET u == Detached(slot, Top)
         IN  /\ IsCut(slot, Top, u) /\ IsTree(u) /\ u # EmptyTrie
             /\ Root \in DOMAIN u
             /\ DOMAIN u \subseteq DOMAIN slot
             /\ \A s \in DOMAIN u : u[s] = slot[s]
             /\ \A s \in DOMAIN slot : ~Inline(slot, s) => s \in DOMAIN u
  <1> DEFINE u == Detached(slot, Top)
  <1>1. /\ IsTree(slot) /\ Top \in DOMAIN slot
        /\ \A s \in DOMAIN slot : IsPrefix(Top, s) => Inline(slot, s)
    BY OnUnwind
  <1>2. Top # Root
    BY ParentIsInline
  <1>3. IsCut(slot, Top, u)
    BY <1>1, <1>2, SubtreeDetached
  <1> HIDE DEF u
  <1>4. /\ IsTree(u) /\ u # EmptyTrie
        /\ DOMAIN u = {s \in DOMAIN slot : ~IsPrefix(Top, s)}
        /\ \A s \in DOMAIN u : u[s] = slot[s]
    BY <1>3 DEF IsCut
  <1>5. Root \in DOMAIN u
    BY <1>4 DEF IsTree, IsTrie
  <1> QED
    BY <1>1, <1>3, <1>4, <1>5 DEF u

LEMMA UnwindDetachKeeps == TrieInv /\ UnwindDetach => TrieInv' /\ EditStep
  <1> SUFFICES ASSUME TrieInv, UnwindDetach PROVE TrieInv' /\ EditStep
    OBVIOUS
  <1> DEFINE u == Detached(slot, Top)
  <1>1. Unwinding /\ Len(frames) > 1 /\ slot' = u /\ Return(Leaving(Top))
    BY DEF UnwindDetach, UnwindsInto, Change
  <1>2. Inline(slot, Root)
    BY <1>1, OnUnwind
  <1>3. /\ IsTree(u) /\ u # EmptyTrie /\ Root \in DOMAIN u
        /\ \A s \in DOMAIN u : u[s] = slot[s]
        /\ \A s \in DOMAIN slot : ~Inline(slot, s) => s \in DOMAIN u
    BY <1>1, TopDetached
  <1> HIDE DEF u
  <1>4. Inline(u, Root)
    BY <1>2, <1>3 DEF Inline
  <1>5. EditStep
    BY <1>1, <1>3 DEF EditStep
  <1> QED
    BY <1>1, <1>3, <1>4, <1>5, ReturnKeeps

LEMMA OtherKid ==
  ASSUME NEW K \in SUBSET Index, Cardinality(K) = 2, NEW j \in K
  PROVE  \E k \in K : k # j /\ K = {j, k}
  <1>1. IsFiniteSet(K)
    BY IndexAssumption, FS_Subset
  <1>2. IsFiniteSet(K \ {j}) /\ Cardinality(K \ {j}) = 1
    BY <1>1, FS_RemoveElement
  <1>3. PICK k : K \ {j} = {k}
    BY <1>2, FS_Singleton
  <1> QED
    BY <1>3

(* A parent of two keeps the other child, which takes its place. *)
Survivor == CHOOSE c \in {Child(slot, Parent, i) : i \in Kids(slot, Parent)} : c # Top

LEMMA SurvivorMerges ==
  ASSUME TrieInv, Unwinding, Len(frames) > 1, Cardinality(Kids(slot, Parent)) = 2
  PROVE  \E k \in Kids(slot, Parent) :
           /\ k # Last(Top) /\ Kids(slot, Parent) = {Last(Top), k}
           /\ Survivor = Child(slot, Parent, k) /\ Survivor # Top
           /\ Survivor = Child(Detached(slot, Top), Parent, k)
           /\ Parent \in DOMAIN Detached(slot, Top)
           /\ IsMerged(Detached(slot, Top), Parent, k,
                       MergeOnlyChild(Detached(slot, Top), Parent))
  <1> DEFINE kids == {Child(slot, Parent, i) : i \in Kids(slot, Parent)}
             j    == Last(Top)
             u    == Detached(slot, Top)
  <1>1. IsTree(slot) /\ IsTrie(slot) /\ Top \in DOMAIN slot /\ Top \in Seq(Index)
    BY OnUnwind
  <1>2. /\ Parent \in DOMAIN slot
        /\ Top = Child(slot, Parent, j) /\ j \in Kids(slot, Parent)
    BY ParentIsInline
  <1>3. PICK k \in Kids(slot, Parent) : k # j /\ Kids(slot, Parent) = {j, k}
    <2>1. Kids(slot, Parent) \in SUBSET Index
      BY DEF Kids
    <2> HIDE DEF j
    <2> QED
      BY <1>2, <2>1, OtherKid
  <1>4. j \in Index /\ k \in Index
    BY <1>2, <1>3 DEF Kids
  <1>5. Child(slot, Parent, k) # Top
    <2> HIDE DEF j
    <2> QED
      BY <1>1, <1>2, <1>3, <1>4, ParentIsUnique
  <1>6. Survivor = Child(slot, Parent, k)
    <2>1. kids = {Top, Child(slot, Parent, k)}
      BY <1>2, <1>3
    <2>2. Survivor = CHOOSE c \in kids : c # Top
      BY DEF Survivor
    <2> HIDE DEF kids
    <2> QED
      BY <1>5, <2>1, <2>2
  <1>7. IsCut(slot, Top, u) /\ IsTree(u)
    BY TopDetached
  <1> HIDE DEF u, j
  <1>8. Parent \in DOMAIN u
    <2>1. ~IsPrefix(Top, Parent)
      <3>1. /\ Parent \in Seq(Index) /\ Len(Parent) \in Nat /\ Len(Top) \in Nat
            /\ Len(Full(slot, Parent)) \in Nat
            /\ Len(Parent) <= Len(Full(slot, Parent))
            /\ Len(Top) = Len(Full(slot, Parent)) + 1
        BY <1>1, <1>2, <1>4, FullExtends, ChildType
      <3>2. Len(Parent) < Len(Top)
        BY <3>1
      <3> QED
        BY <1>1, <3>1, <3>2, PrefixOrder
    <2> QED
      BY <1>2, <1>7, <2>1 DEF IsCut
  <1>9. Kids(u, Parent) = {k} /\ Child(u, Parent, k) = Child(slot, Parent, k)
    <2>1. /\ Kids(u, Parent) = {i \in Kids(slot, Parent) : Child(slot, Parent, i) # Top}
          /\ Child(u, Parent, k) = Child(slot, Parent, k)
      BY <1>7, <1>8 DEF IsCut
    <2> QED
      BY <1>2, <1>3, <1>5, <2>1
  <1>10. IsMerged(u, Parent, k, MergeOnlyChild(u, Parent))
    BY <1>4, <1>7, <1>8, <1>9, ChildMerged
  <1> QED
    BY <1>3, <1>5, <1>6, <1>8, <1>9, <1>10 DEF u, j

LEMMA UnwindMergeKeeps == TrieInv /\ UnwindMerge => TrieInv' /\ EditStep
  <1> SUFFICES ASSUME TrieInv, UnwindMerge PROVE TrieInv' /\ EditStep
    OBVIOUS
  <1> DEFINE c == Survivor
             u == Detached(slot, Top)
             v == MergeOnlyChild(u, Parent)
  <1>1. Unwinding /\ Len(frames) > 1 /\ Cardinality(Kids(slot, Parent)) = 2
    BY DEF UnwindMerge, UnwindsInto
  <1>2. Root \in DOMAIN slot /\ Inline(slot, Root) /\ pc = "unwind"
    BY <1>1, OnUnwind
  <1>3. Parent \in DOMAIN slot /\ Inline(slot, Parent)
    BY <1>1, ParentIsInline
  <1>4. PICK k \in Kids(slot, Parent) :
          c = Child(slot, Parent, k) /\ c = Child(u, Parent, k) /\ IsMerged(u, Parent, k, v)
    BY <1>1, SurvivorMerges
  <1>5. c \in DOMAIN slot
    BY <1>4 DEF Kids
  <1>6. CASE MaterializeFails(c)
    BY <1>6, FailKeeps DEF MaterializeFails
  <1>7. CASE slot' = Materialized(slot, c) /\ UNCHANGED control
    BY <1>2, <1>5, <1>7, EdgeReadInPlace
  <1>8. CASE Inline(slot, c) /\ Change(v, Leaving(Top))
    <2>1. /\ Root \in DOMAIN u
          /\ \A s \in DOMAIN u : u[s] = slot[s]
          /\ \A s \in DOMAIN slot : ~Inline(slot, s) => s \in DOMAIN u
      BY <1>1, TopDetached
    <2> HIDE DEF u, v, c
    <2>2. /\ IsTree(v) /\ v # EmptyTrie /\ DOMAIN v = DOMAIN u \ {c}
          /\ c # Root /\ v[Parent].hash = u[Parent].hash
          /\ \A x \in DOMAIN u \ {Parent, c} : v[x] = u[x]
      BY <1>4 DEF IsMerged
    <2>3. ASSUME NEW s \in DOMAIN slot, ~Inline(slot, s)
          PROVE  s \in DOMAIN v /\ v[s] = slot[s]
      <3>1. s \in DOMAIN u /\ s # c /\ s # Parent
        BY <1>3, <1>8, <2>1, <2>3
      <3> QED
        BY <2>1, <2>2, <3>1
    <2>4. Inline(v, Root)
      <3>1. v[Root].hash = slot[Root].hash
        <4>1. CASE Root = Parent
          BY <2>1, <2>2, <4>1
        <4>2. CASE Root # Parent
          BY <2>1, <2>2, <4>2
        <4> QED
          BY <4>1, <4>2
      <3> QED
        BY <1>2, <3>1 DEF Inline
    <2>5. slot' = v /\ Return(Leaving(Top))
      BY <1>8 DEF Change
    <2>6. EditStep
      BY <2>3, <2>5 DEF EditStep
    <2> QED
      BY <2>2, <2>4, <2>5, <2>6, ReturnKeeps
  <1> QED
    BY <1>6, <1>7, <1>8 DEF UnwindMerge, Survivor

LEMMA UnwindPopKeeps == TrieInv /\ UnwindPop => TrieInv' /\ EditStep
  <1> SUFFICES ASSUME TrieInv, UnwindPop PROVE TrieInv' /\ EditStep
    OBVIOUS
  <1> DEFINE m == Len(frames)
  <1>1. /\ Unwinding /\ m > 1 /\ Cardinality(Kids(slot, Parent)) = 1
        /\ frames' = Front(frames) /\ UNCHANGED <<slot, req, pc, walk, out>>
    BY DEF UnwindPop, UnwindsInto
  <1>2. /\ IsTree(slot) /\ frames \in Seq(DOMAIN slot) /\ frames # << >>
        /\ m \in Nat \ {0} /\ pc = "unwind" /\ req # None /\ slot # EmptyTrie
        /\ \A s \in DOMAIN slot : IsPrefix(Top, s) => Inline(slot, s)
    BY <1>1, OnUnwind
  <1>3. /\ Parent \in DOMAIN slot /\ Inline(slot, Parent)
        /\ Top = Child(slot, Parent, Last(Top)) /\ Last(Top) \in Kids(slot, Parent)
    BY <1>1, ParentIsInline
  <1>4. PICK i \in Index : Kids(slot, Parent) = {i}
    <2>1. Kids(slot, Parent) \in SUBSET Index
      BY DEF Kids
    <2> QED
      BY <1>1, <2>1, OneKid
  <1>5. ASSUME NEW s \in DOMAIN slot, IsPrefix(Parent, s) PROVE Inline(slot, s)
    <2>1. CASE s = Parent
      BY <1>3, <2>1
    <2>2. CASE s # Parent
      <3>1. PICK k \in Kids(slot, Parent) : IsPrefix(Child(slot, Parent, k), s)
        BY <1>2, <1>3, <1>5, <2>2, BelowAChild
      <3>2. k = Last(Top)
        BY <1>3, <1>4
      <3> QED
        BY <1>2, <1>3, <3>1, <3>2
    <2> QED
      BY <2>1, <2>2
  <1>6. /\ frames' \in Seq(DOMAIN slot) /\ Len(frames') = m - 1
        /\ DOMAIN frames' = 1 .. m - 1 /\ DOMAIN frames = 1 .. m
        /\ \A n \in 1 .. m - 1 : frames'[n] = frames[n]
    <2>1. /\ frames' \in Seq(DOMAIN slot) /\ Len(frames') = m - 1
          /\ \A n \in 1 .. m - 1 : frames'[n] = frames[n]
      BY <1>1, <1>2, FrontType
    <2> HIDE DEF m
    <2>2. DOMAIN frames = 1 .. m
      BY <1>2 DEF m
    <2> QED
      BY <1>2, <2>1, <2>2
  <1>7. frames' # << >> /\ Top' = Parent
    <2>1. frames' # << >>
      BY <1>1, <1>2, <1>6, EmptySeq
    <2>2. Top' = frames'[m - 1] /\ m - 1 \in 1 .. m - 1
      BY <1>1, <1>2, <1>6 DEF Top, Last
    <2> QED
      BY <1>6, <2>1, <2>2 DEF Parent
  <1>8. ASSUME NEW n \in 1 .. m - 1
        PROVE  /\ Inline(slot, frames[n])
               /\ n = 1 => frames[n] = Root
               /\ n # 1 => frames[n] # Root /\ Full(slot, frames[n - 1]) = Front(frames[n])
    <2>1. n \in DOMAIN frames
      BY <1>2, <1>6
    <2> QED
      BY <2>1 DEF TrieInv, Descent
  <1> HIDE DEF m
  <1>9. Descent'
    <2>1. ASSUME NEW n \in 1 .. m - 1
          PROVE  /\ Inline(slot', frames'[n])
                 /\ n = 1 => frames'[n] = Root
                 /\ n # 1 => /\ frames'[n] # Root
                             /\ Full(slot', frames'[n - 1]) = Front(frames'[n])
      <3>1. slot' = slot /\ frames'[n] = frames[n]
        BY <1>1, <1>6
      <3>2. n # 1 => n - 1 \in 1 .. m - 1
        BY <1>2
      <3>3. n # 1 => frames'[n - 1] = frames[n - 1]
        BY <1>6, <3>2
      <3> QED
        BY <1>8, <3>1, <3>3
    <2> QED
      BY <1>1, <1>6, <2>1 DEF Descent
  <1>10. Unwinds'
    BY <1>1, <1>5, <1>7 DEF Unwinds
  <1>11. Hung' /\ RootInline' /\ EditStep
    BY <1>1 DEF TrieInv, Hung, RootInline, EditStep
  <1> QED
    BY <1>1, <1>2, <1>7, <1>9, <1>10, <1>11
       DEF TrieInv, Control, OnKeysPath, Collecting, HashWalk

-----------------------------------------------------------------------------
(* The hash walk                                                           *)

(* A stack of hash frames over a path s: their slots are inline, so are    *)
(* the children they have left, and s lies below a child entered already.  *)
Stacked(w, s) ==
  /\ w \in Seq(HashFrame)
  /\ \A n \in DOMAIN w :
       /\ Inline(slot, w[n].slot)
       /\ \A i \in w[n].left : /\ i \in Kids(slot, w[n].slot)
                               /\ Inline(slot, Child(slot, w[n].slot, i))
       /\ w[n].lead = Len(w[n].slot)
       /\ \E j \in Kids(slot, w[n].slot) \ w[n].left :
            IsPrefix(Child(slot, w[n].slot, j), s)
  /\ \A k, n \in DOMAIN w : k < n =>
       \E j \in Kids(slot, w[k].slot) \ w[k].left :
         IsPrefix(Child(slot, w[k].slot, j), w[n].slot)

LEMMA OnHash ==
  ASSUME TrieInv, Hashing
  PROVE  /\ req # None /\ req.op = "hash" /\ pc = "hash" /\ slot # EmptyTrie
         /\ IsTree(slot) /\ IsTrie(slot) /\ Root \in DOMAIN slot
         /\ Inline(slot, Root) /\ walk \in Seq(HashFrame) /\ frames # << >>
  <1>1. req # None /\ req.op = "hash" /\ pc = "hash" /\ slot # EmptyTrie /\ frames # << >>
    BY DEF Hashing, TrieInv, Control
  <1>2. IsTree(slot) /\ IsTrie(slot) /\ Root \in DOMAIN slot /\ Inline(slot, Root)
    BY <1>1 DEF TrieInv, Hung, IsTree, IsTrie, RootInline
  <1> QED
    BY <1>1, <1>2 DEF TrieInv, HashWalk

(* A frame is pushed for s, and no edge is sealed that was not: where one  *)
(* became inline, it is a child of s still to be entered.                  *)
LEMMA FramePushed ==
  ASSUME TrieInv, Hashing, NEW s \in DOMAIN slot, Inline(slot, s),
         NEW siblings \in Nat, NEW w, Stacked(w, s),
         SameShape(slot, slot'),
         \A x \in DOMAIN slot : /\ Inline(slot, x) => Inline(slot', x)
                                /\ slot'[x].value = slot[x].value,
         NEW p \in SUBSET Kids(slot, s),
         \A i \in p : Inline(slot', Child(slot, s, i)),
         walk' = Append(w, [slot |-> s, lead |-> Len(s), siblings |-> siblings,
                            count |-> Cardinality(Kids(slot, s)), left |-> p]),
         buf' = s, UNCHANGED <<req, pc, frames, out, digest>>
  PROVE  IInv' /\ EditStep
  <1> DEFINE fr == [slot |-> s, lead |-> Len(s), siblings |-> siblings,
                    count |-> Cardinality(Kids(slot, s)), left |-> p]
             m  == Len(w)
  <1>1. /\ req # None /\ req.op = "hash" /\ pc = "hash" /\ slot # EmptyTrie
        /\ IsTree(slot) /\ IsTrie(slot) /\ Root \in DOMAIN slot /\ Inline(slot, Root)
        /\ frames # << >>
    BY OnHash
  <1>2. /\ IsTree(slot') /\ DOMAIN slot' = DOMAIN slot
        /\ \A x \in DOMAIN slot : /\ Full(slot', x) = Full(slot, x)
                                  /\ Kids(slot', x) = Kids(slot, x)
                                  /\ \A i : Child(slot', x, i) = Child(slot, x, i)
    BY <1>1, ShapeKept DEF SameShape
  <1>3. slot' # EmptyTrie /\ Inline(slot', Root)
    <2>1. IsTrie(slot') /\ Root \in DOMAIN slot'
      BY <1>1, <1>2 DEF IsTree
    <2> QED
      BY <1>1, <2>1, HasRoot
  <1>4. EditStep
    BY DEF EditStep, SameShape
  <1>5. Descent'
    BY <1>1, <1>2, <1>3, FramesStand
  <1>6. /\ s \in Seq(Index) /\ Len(s) \in Nat
    BY <1>1, FullExtends
  <1>7. fr \in HashFrame /\ fr.slot = s /\ fr.lead = Len(s) /\ fr.left = p
    <2>1. Kids(slot, s) \in SUBSET Index
      BY DEF Kids
    <2>2. Cardinality(Kids(slot, s)) \in Nat
      BY <2>1, IndexAssumption, FS_Subset, FS_CardinalityType
    <2> QED
      BY <1>6, <2>1, <2>2 DEF HashFrame
  <1> HIDE DEF fr, m
  <1>8. /\ walk' \in Seq(HashFrame) /\ DOMAIN walk' = 1 .. m + 1 /\ m \in Nat
        /\ DOMAIN w = 1 .. m /\ walk' # << >>
        /\ \A n \in 1 .. m : walk'[n] = w[n]
        /\ walk'[m + 1] = fr
    <2>1. w \in Seq(HashFrame) /\ walk' = Append(w, fr)
      BY DEF Stacked, fr
    <2>2. m \in Nat /\ DOMAIN w = 1 .. m
      BY <2>1 DEF m
    <2> QED
      BY <1>7, <2>1, <2>2, AppendProperties DEF m
  <1>9. \A n \in 1 .. m + 1 : walk'[n] \in HashFrame /\ walk'[n].slot \in DOMAIN slot
    <2>1. \A n \in 1 .. m + 1 : walk'[n] \in HashFrame
      BY <1>8, ElementOfSeq
    <2> QED
      BY <2>1 DEF HashFrame
  <1>10. ASSUME NEW n \in 1 .. m + 1
         PROVE  /\ Inline(slot', walk'[n].slot)
                /\ \A i \in walk'[n].left : /\ i \in Kids(slot, walk'[n].slot)
                                            /\ Inline(slot', Child(slot, walk'[n].slot, i))
                /\ walk'[n].lead = Len(walk'[n].slot)
                /\ IsPrefix(walk'[n].slot, s)
    <2>1. CASE n = m + 1
      BY <1>6, <1>7, <1>8, <2>1, PrefixOrder
    <2>2. CASE n # m + 1
      <3>1. n \in DOMAIN w /\ walk'[n] = w[n]
        BY <1>8, <2>2
      <3>2. /\ Inline(slot, w[n].slot) /\ w[n].lead = Len(w[n].slot)
            /\ \A i \in w[n].left : /\ i \in Kids(slot, w[n].slot)
                                    /\ Inline(slot, Child(slot, w[n].slot, i))
        BY <3>1 DEF Stacked
      <3>3. PICK j \in Kids(slot, w[n].slot) : IsPrefix(Child(slot, w[n].slot, j), s)
        BY <3>1 DEF Stacked
      <3>4. w[n].slot \in DOMAIN slot
        BY <1>9, <3>1
      <3>5. \A i \in w[n].left : Inline(slot', Child(slot, w[n].slot, i))
        BY <3>2 DEF Kids
      <3>6. IsPrefix(w[n].slot, s)
        <4>1. /\ Child(slot, w[n].slot, j) \in Seq(Index) /\ w[n].slot \in Seq(Index)
              /\ IsPrefix(w[n].slot, Child(slot, w[n].slot, j))
          BY <1>1, <3>3, <3>4, ChildType, FullExtends DEF Kids
        <4> QED
          BY <1>6, <3>3, <4>1, PrefixTransitive
      <3> QED
        BY <3>1, <3>2, <3>4, <3>5, <3>6
    <2> QED
      BY <2>1, <2>2
  <1>11. ASSUME NEW k \in 1 .. m + 1, NEW n \in 1 .. m + 1, k < n
         PROVE  \E j \in Kids(slot, walk'[k].slot) \ walk'[k].left :
                  IsPrefix(Child(slot, walk'[k].slot, j), walk'[n].slot)
    <2>1. k \in DOMAIN w /\ walk'[k] = w[k]
      BY <1>8, <1>11
    <2>2. CASE n = m + 1
      BY <1>7, <1>8, <2>1, <2>2 DEF Stacked
    <2>3. CASE n # m + 1
      <3>1. n \in DOMAIN w /\ walk'[n] = w[n]
        BY <1>8, <2>3
      <3> QED
        BY <1>11, <2>1, <3>1 DEF Stacked
    <2> QED
      BY <2>2, <2>3
  <1>12. HashFrame' = HashFrame
    BY <1>2 DEF HashFrame
  <1>13. HashWalk'
    <2>1. \A n \in 1 .. m + 1 :
            \A i \in walk'[n].left : /\ i \in Kids(slot', walk'[n].slot)
                                     /\ Inline(slot', Child(slot', walk'[n].slot, i))
      BY <1>2, <1>9, <1>10
    <2>2. ASSUME NEW k \in 1 .. m + 1, NEW n \in 1 .. m + 1, k < n
          PROVE  \E j \in Kids(slot', walk'[k].slot) \ walk'[k].left :
                   IsPrefix(Child(slot', walk'[k].slot, j), walk'[n].slot)
      <3>1. walk'[k].slot \in DOMAIN slot
        BY <1>9
      <3>2. /\ Kids(slot', walk'[k].slot) = Kids(slot, walk'[k].slot)
            /\ \A j : Child(slot', walk'[k].slot, j) = Child(slot, walk'[k].slot, j)
        BY <1>2, <3>1
      <3> QED
        BY <1>11, <2>2, <3>2
    <2>3. frames' = <<Root>>
      BY <1>1 DEF TrieInv, HashWalk
    <2> QED
      BY <1>8, <1>10, <1>12, <2>1, <2>2, <2>3 DEF HashWalk
  <1>14. BufferHolds'
    BY <1>1, <1>6, <1>8, <1>10 DEF BufferHolds
  <1>15. Control'
    BY <1>1, <1>3 DEF TrieInv, Control
  <1> QED
    BY <1>1, <1>2, <1>3, <1>4, <1>5, <1>13, <1>14, <1>15
       DEF IInv, TrieInv, Hung, RootInline, OnKeysPath, Collecting, Unwinds

LEMMA EnterKeeps ==
  ASSUME TrieInv, Hashing, NEW s \in DOMAIN slot, Inline(slot, s),
         NEW siblings \in Nat, NEW w, Stacked(w, s), Enter(s, s, siblings, w)
  PROVE  IInv' /\ EditStep
  <1> DEFINE pending == Kids(slot, s) \ SealedKids(s)
             i == CHOOSE i \in SealedKids(s) : TRUE
             c == Child(slot, s, i)
             h == HashNode(slot, c, Append(s \o slot[s].partial, i),
                           Cardinality(Kids(slot, s)))
             Push(p) == /\ walk' = Append(w, [slot |-> s, lead |-> Len(s),
                                              siblings |-> siblings,
                                              count |-> Cardinality(Kids(slot, s)),
                                              left |-> p])
                        /\ buf' = s
                        /\ UNCHANGED <<req, pc, frames, out, digest>>
  <1>1. IsTree(slot) /\ IsTrie(slot)
    BY OnHash
  <1>2. /\ pending \in SUBSET Kids(slot, s)
        /\ \A k \in pending : Inline(slot, Child(slot, s, k))
    BY DEF SealedKids
  <1>3. RehashesLone(s, s) =>
          /\ i \in Kids(slot, s) /\ c \in DOMAIN slot /\ ~Inline(slot, c)
    <2> SUFFICES ASSUME RehashesLone(s, s)
                 PROVE  i \in Kids(slot, s) /\ c \in DOMAIN slot /\ ~Inline(slot, c)
      OBVIOUS
    <2>1. SealedKids(s) \in SUBSET Index /\ Cardinality(SealedKids(s)) = 1
      BY DEF SealedKids, Kids, RehashesLone
    <2>2. PICK k \in Index : SealedKids(s) = {k}
      BY <2>1, OneKid
    <2>3. i \in SealedKids(s)
      BY <2>2
    <2> HIDE DEF i
    <2> QED
      BY <2>3 DEF SealedKids, Kids
  <1> HIDE DEF i, c, h, pending
  <1>4. CASE slot' = slot /\ Push(pending)
    <2>1. SameShape(slot, slot')
      BY <1>1, <1>4, NodeOfTrie DEF SameShape
    <2> QED
      BY <1>2, <1>4, <2>1, FramePushed
  <1>5. CASE RehashesLone(s, s) /\ slot' = [slot EXCEPT ![c].hash = h] /\ Push(pending)
    <2>1. /\ SameShape(slot, slot')
          /\ \A x \in DOMAIN slot : /\ slot'[x].value = slot[x].value
                                    /\ x # c => slot'[x].hash = slot[x].hash
      <3> DEFINE u == HashPut(slot, c, h)
      <3>1. /\ SameShape(slot, u)
            /\ \A x \in DOMAIN slot : /\ u[x].value = slot[x].value
                                      /\ x # c => u[x].hash = slot[x].hash
        <4>1. c \in DOMAIN slot
          BY <1>3, <1>5
        <4> QED
          BY <1>1, <4>1, HashSet
      <3>2. slot' = u
        BY <1>5 DEF HashPut
      <3> HIDE DEF u
      <3> QED
        BY <3>1, <3>2
    <2>2. \A x \in DOMAIN slot : Inline(slot, x) => Inline(slot', x)
      BY <1>3, <1>5, <2>1 DEF Inline
    <2>3. \A k \in pending : Inline(slot', Child(slot, s, k))
      BY <1>2, <2>2 DEF Kids
    <2> QED
      BY <1>2, <1>5, <2>1, <2>2, <2>3, FramePushed
  <1>6. CASE /\ RehashesLone(s, s) /\ slot' = Materialized(slot, c)
             /\ Push(pending \cup {i})
    <2>1. /\ SameShape(slot, slot') /\ slot'[c].hash = None
          /\ \A x \in DOMAIN slot : /\ slot'[x].value = slot[x].value
                                    /\ x # c => slot'[x].hash = slot[x].hash
      <3> DEFINE u == HashPut(slot, c, None)
      <3>1. /\ SameShape(slot, u)
            /\ \A x \in DOMAIN slot : /\ u[x].value = slot[x].value
                                      /\ x # c => u[x].hash = slot[x].hash
            /\ u[c].hash = None
        <4>1. c \in DOMAIN slot
          BY <1>3, <1>6
        <4> QED
          BY <1>1, <4>1, HashSet
      <3>2. slot' = u
        BY <1>6 DEF Materialized, HashPut
      <3> HIDE DEF u
      <3> QED
        BY <3>1, <3>2
    <2>2. \A x \in DOMAIN slot : Inline(slot, x) => Inline(slot', x)
      BY <2>1 DEF Inline
    <2> DEFINE p == pending \cup {i}
    <2>3. /\ p \in SUBSET Kids(slot, s)
          /\ \A k \in p : Inline(slot', Child(slot, s, k))
      <3>1. Inline(slot', Child(slot, s, i))
        BY <2>1 DEF Inline, c
      <3> QED
        BY <1>2, <1>3, <1>6, <2>2, <3>1 DEF Kids
    <2>4. Push(p)
      BY <1>6
    <2> HIDE DEF p
    <2> QED
      BY <2>1, <2>2, <2>3, <2>4, FramePushed
  <1>7. CASE Fail /\ buf' = << >>
    <2>1. TrieInv' /\ EditStep
      BY <1>7, FailKeeps
    <2>2. pc' = "idle" /\ walk' = << >>
      BY <1>7 DEF Fail, Change, Return
    <2>3. BufferHolds'
      BY <1>7, <2>2, EmptySeq DEF BufferHolds
    <2> QED
      BY <2>1, <2>3 DEF IInv
  <1> QED
    BY <1>4, <1>5, <1>6, <1>7 DEF Enter, i, c, h, pending

LEMMA HashRootKeeps == IInv /\ HashRoot => IInv' /\ EditStep
  <1> SUFFICES ASSUME IInv, HashRoot PROVE IInv' /\ EditStep
    OBVIOUS
  <1>1. TrieInv /\ Hashing /\ Enter(Root, Root, 0, << >>)
    BY DEF IInv, HashRoot, Root
  <1>2. Root \in DOMAIN slot /\ Inline(slot, Root)
    BY <1>1, OnHash
  <1>3. Stacked(<< >>, Root)
    BY DEF Stacked
  <1> QED
    BY <1>1, <1>2, <1>3, EnterKeeps

(* The top frame of a hash walk. *)
LEMMA HashTop ==
  ASSUME IInv, Hashing, walk # << >>
  PROVE  /\ walk \in Seq(HashFrame) /\ Len(walk) \in Nat \ {0}
         /\ DOMAIN walk = 1 .. Len(walk)
         /\ Last(walk) = walk[Len(walk)] /\ Last(walk) \in HashFrame
         /\ Last(walk).slot \in DOMAIN slot /\ Inline(slot, Last(walk).slot)
         /\ Last(walk).left \in SUBSET Index
         /\ \A i \in Last(walk).left : /\ i \in Kids(slot, Last(walk).slot)
                                       /\ Inline(slot, Child(slot, Last(walk).slot, i))
         /\ Last(walk).siblings \in Nat /\ Last(walk).count \in Nat
         /\ SubSeq(buf, 1, Last(walk).lead) = Last(walk).slot
  <1>1. walk \in Seq(HashFrame) /\ pc = "hash" /\ IsTrie(slot)
    BY OnHash DEF IInv
  <1>2. /\ Len(walk) \in Nat \ {0} /\ DOMAIN walk = 1 .. Len(walk)
        /\ Len(walk) \in DOMAIN walk
    BY <1>1
  <1>3. Last(walk) = walk[Len(walk)] /\ Last(walk) \in HashFrame
    BY <1>1, <1>2, ElementOfSeq DEF Last
  <1>4. /\ Last(walk).slot \in DOMAIN slot /\ Last(walk).left \in SUBSET Index
        /\ Last(walk).siblings \in Nat /\ Last(walk).count \in Nat
    BY <1>3 DEF HashFrame
  <1>5. /\ Inline(slot, Last(walk).slot)
        /\ \A i \in Last(walk).left : /\ i \in Kids(slot, Last(walk).slot)
                                      /\ Inline(slot, Child(slot, Last(walk).slot, i))
    BY <1>1, <1>2, <1>3 DEF IInv, TrieInv, HashWalk
  <1>6. SubSeq(buf, 1, Last(walk).lead) = Last(walk).slot
    <2> DEFINE p == Last(walk).slot
    <2>1. /\ buf \in Seq(Index) /\ Last(walk).lead = Len(p) /\ IsPrefix(p, buf)
      BY <1>1, <1>2, <1>3 DEF IInv, BufferHolds
    <2>2. p \in Seq(Index) /\ Len(p) \in Nat
      BY <1>1, <1>4, FullExtends
    <2> HIDE DEF p
    <2>3. Len(p) \in 0 .. Len(buf)
      BY <2>1, <2>2, PrefixOrder
    <2>4. p = SubSeq(buf, 1, Len(p))
      BY <2>1, <2>2, <2>3, PrefixIsInitial
    <2> QED
      BY <2>1, <2>4 DEF p
  <1> QED
    BY <1>1, <1>2, <1>3, <1>4, <1>5, <1>6

(* The child to enter next, and the frames it is entered from. *)
Entered == Child(slot, Last(walk).slot, Min(Last(walk).left))
Entering == [walk EXCEPT ![Len(walk)].left = @ \ {Min(Last(walk).left)}]

LEMMA ChildEntered ==
  ASSUME IInv, HashChild
  PROVE  /\ TrieInv /\ Hashing /\ walk # << >> /\ Len(walk) \in Nat \ {0}
         /\ Entered \in DOMAIN slot /\ Inline(slot, Entered)
         /\ Last(walk).count \in Nat
         /\ Enter(Entered, Entered, Last(walk).count, Entering)
         /\ Stacked(Entering, Entered)
         /\ Len(Entering) = Len(walk) /\ DOMAIN Entering = 1 .. Len(walk)
         /\ \A n \in 1 .. Len(walk) :
              /\ Entering[n].slot = walk[n].slot
              /\ n # Len(walk) => Entering[n] = walk[n]
         /\ Entering[Len(walk)].left = walk[Len(walk)].left \ {Min(Last(walk).left)}
         /\ Entered = Child(slot, walk[Len(walk)].slot, Min(Last(walk).left))
  <1> DEFINE m   == Len(walk)
             top == Last(walk)
             i   == Min(top.left)
             s   == Child(slot, top.slot, i)
             w   == [walk EXCEPT ![m].left = @ \ {i}]
  <1>1. TrieInv /\ Hashing /\ walk # << >> /\ top.left # {}
    BY DEF IInv, HashChild
  <1>2. /\ walk \in Seq(HashFrame) /\ m \in Nat \ {0} /\ DOMAIN walk = 1 .. m
        /\ top = walk[m] /\ top \in HashFrame
        /\ top.slot \in DOMAIN slot /\ Inline(slot, top.slot)
        /\ top.left \in SUBSET Index
        /\ \A k \in top.left : /\ k \in Kids(slot, top.slot)
                               /\ Inline(slot, Child(slot, top.slot, k))
        /\ top.count \in Nat
        /\ SubSeq(buf, 1, top.lead) = top.slot
    BY <1>1, HashTop
  <1>3. i \in top.left /\ i \in Kids(slot, top.slot) /\ Inline(slot, s) /\ s \in DOMAIN slot
    <2>1. i \in top.left
      <3> HIDE DEF top
      <3> QED
        BY <1>1, <1>2, LowestLeft
    <2> HIDE DEF i, top
    <2> QED
      BY <1>2, <2>1 DEF Kids
  <1>4. Enter(s, s, top.count, w)
    <2>1. Append(SubSeq(buf, 1, top.lead) \o slot[top.slot].partial, i) = s
      BY <1>2 DEF Child, Full
    <2> QED
      BY <2>1 DEF HashChild
  <1> DEFINE fr == [top EXCEPT !.left = top.left \ {i}]
  <1>5. /\ fr \in HashFrame /\ fr.slot = top.slot /\ fr.left = top.left \ {i}
        /\ fr.lead = top.lead
    <2>1. top \in [slot : DOMAIN slot, lead : Nat, siblings : Nat, count : Nat,
                   left : SUBSET Index]
      BY <1>2 DEF HashFrame
    <2> HIDE DEF top, i
    <2> QED
      BY <2>1 DEF HashFrame
  <1>6. /\ w \in Seq(HashFrame) /\ Len(w) = m /\ w[m] = fr
        /\ \A n \in 1 .. m : n # m => w[n] = walk[n]
    <2>1. w = [walk EXCEPT ![m] = fr]
      BY <1>2
    <2> HIDE DEF w, fr, top, i
    <2> QED
      BY <1>1, <1>2, <1>5, <2>1, TopSet
  <1>7. Stacked(w, s)
    <2> HIDE DEF w, fr, m
    <2>1. DOMAIN w = 1 .. m
      BY <1>2, <1>6
    <2>2. \A n \in 1 .. m : /\ w[n].slot = walk[n].slot /\ w[n].lead = walk[n].lead
                            /\ w[n].left \subseteq walk[n].left
      BY <1>2, <1>5, <1>6
    <2>3. pc = "hash" /\ IsTree(slot) /\ IsTrie(slot)
      BY <1>1, OnHash
    <2>4. ASSUME NEW n \in 1 .. m
          PROVE  /\ Inline(slot, w[n].slot)
                 /\ \A k \in w[n].left : /\ k \in Kids(slot, w[n].slot)
                                         /\ Inline(slot, Child(slot, w[n].slot, k))
                 /\ w[n].lead = Len(w[n].slot)
      <3>1. /\ Inline(slot, walk[n].slot) /\ walk[n].lead = Len(walk[n].slot)
            /\ \A k \in walk[n].left : /\ k \in Kids(slot, walk[n].slot)
                                       /\ Inline(slot, Child(slot, walk[n].slot, k))
        BY <1>2, <2>3 DEF IInv, TrieInv, HashWalk, BufferHolds
      <3> QED
        BY <2>2, <3>1
    <2>5. ASSUME NEW k \in 1 .. m, NEW n \in 1 .. m, k < n
          PROVE  \E j \in Kids(slot, w[k].slot) \ w[k].left :
                   IsPrefix(Child(slot, w[k].slot, j), w[n].slot)
      <3>1. PICK j \in Kids(slot, walk[k].slot) \ walk[k].left :
                   IsPrefix(Child(slot, walk[k].slot, j), walk[n].slot)
        BY <1>2, <2>3, <2>5 DEF IInv, TrieInv, HashWalk
      <3> QED
        BY <2>2, <3>1
    <2>6. /\ s \in Seq(Index) /\ top.slot \in Seq(Index) /\ IsPrefix(top.slot, s)
          /\ IsPrefix(s, s)
      <3>1. i \in Index
        BY <1>3 DEF Kids
      <3> HIDE DEF i, top
      <3> QED
        BY <1>2, <2>3, <3>1, ChildType, FullExtends, PrefixOrder
    <2> HIDE DEF s
    <2>7. ASSUME NEW n \in 1 .. m
          PROVE  \E j \in Kids(slot, w[n].slot) \ w[n].left :
                   IsPrefix(Child(slot, w[n].slot, j), s)
      <3>1. CASE n = m
        <4>1. i \in Kids(slot, w[n].slot) \ w[n].left /\ Child(slot, w[n].slot, i) = s
          BY <1>3, <1>5, <1>6, <3>1 DEF s
        <4> QED
          BY <2>6, <4>1
      <3>2. CASE n # m
        <4>1. n < m /\ m \in 1 .. m /\ w[m].slot = top.slot
          BY <1>2, <1>5, <1>6, <3>2
        <4>2. PICK j \in Kids(slot, w[n].slot) \ w[n].left :
                     IsPrefix(Child(slot, w[n].slot, j), top.slot)
          BY <2>5, <4>1
        <4>3. w[n].slot \in DOMAIN slot
          <5>1. w[n] \in HashFrame
            BY <1>6, ElementOfSeq
          <5> QED
            BY <5>1 DEF HashFrame
        <4>4. Child(slot, w[n].slot, j) \in Seq(Index)
          BY <2>3, <4>2, <4>3, ChildType DEF Kids
        <4> QED
          BY <2>6, <4>2, <4>4, PrefixTransitive
      <3> QED
        BY <3>1, <3>2
    <2> QED
      BY <1>6, <2>1, <2>4, <2>5, <2>7 DEF Stacked
  <1>8. /\ DOMAIN w = 1 .. m /\ w[m].left = walk[m].left \ {i}
        /\ \A n \in 1 .. m : w[n].slot = walk[n].slot
    <2> HIDE DEF w, fr, i, m, top
    <2>1. DOMAIN w = 1 .. m
      BY <1>6
    <2>2. m \in 1 .. m
      BY <1>2
    <2> QED
      BY <1>2, <1>5, <1>6, <2>1, <2>2
  <1>9. s = Child(slot, walk[m].slot, i)
    BY <1>2
  <1>10. Entered = s /\ Entering = w
    BY DEF Entered, Entering
  <1> HIDE DEF w, s, fr
  <1> QED
    BY <1>1, <1>2, <1>3, <1>4, <1>6, <1>7, <1>8, <1>9, <1>10

LEMMA HashChildKeeps == IInv /\ HashChild => IInv' /\ EditStep
  BY ChildEntered, EnterKeeps

(* `update_value` rewrites the one value. *)
LEMMA ValueUpdated ==
  ASSUME NEW t, IsTree(t), NEW s \in DOMAIN t
  PROVE  /\ SameShape(t, Updated(t, s))
         /\ \A x \in DOMAIN t :
              /\ Updated(t, s)[x].hash = t[x].hash
              /\ x # s => Updated(t, s)[x].value = t[x].value
  <1>1. IsTrie(t)
    BY DEF IsTree
  <1>2. CASE t[s].value = None
    <2>1. Updated(t, s) = t
      BY <1>2 DEF Updated
    <2>2. SameShape(t, t)
      BY <1>1, NodeOfTrie DEF SameShape
    <2> QED
      BY <2>1, <2>2
  <1>3. CASE t[s].value # None
    <2> DEFINE v == [t[s].value EXCEPT !.splice = ChildHashes(t, s)]
               u == ValuePut(t, s, v)
    <2>1. Updated(t, s) = u
      BY <1>3 DEF Updated, ValuePut
    <2> HIDE DEF v
    <2>2. /\ SameShape(t, u)
          /\ \A x \in DOMAIN t : /\ u[x].hash = t[x].hash
                                 /\ x # s => u[x].value = t[x].value
      BY <1>1, ValueSet
    <2> HIDE DEF u
    <2> QED
      BY <2>1, <2>2
  <1> QED
    BY <1>2, <1>3

LEMMA HashFinishKeeps == IInv /\ HashFinish => IInv' /\ EditStep
  <1> SUFFICES ASSUME IInv, HashFinish PROVE IInv' /\ EditStep
    OBVIOUS
  <1> DEFINE m   == Len(walk)
             top == Last(walk)
             d   == top.slot
             b   == SubSeq(buf, 1, top.lead)
             t   == Updated(slot, d)
             h   == HashNode(t, d, b, top.siblings)
             u   == HashPut(t, d, h)
  <1>1. TrieInv /\ Hashing /\ walk # << >> /\ top.left = {}
    BY DEF IInv, HashFinish
  <1>2. /\ walk \in Seq(HashFrame) /\ m \in Nat \ {0} /\ DOMAIN walk = 1 .. m
        /\ top = walk[m] /\ d \in DOMAIN slot /\ Inline(slot, d) /\ b = d
    BY <1>1, HashTop
  <1>3. /\ IsTree(slot) /\ IsTrie(slot) /\ slot # EmptyTrie /\ pc = "hash"
        /\ Root \in DOMAIN slot /\ Inline(slot, Root) /\ req # None /\ req.op = "hash"
        /\ frames = <<Root>>
    BY <1>1, OnHash DEF TrieInv, HashWalk
  <1>4. /\ SameShape(slot, t)
        /\ \A x \in DOMAIN slot : /\ t[x].hash = slot[x].hash
                                  /\ x # d => t[x].value = slot[x].value
    <2> HIDE DEF d
    <2> QED
      BY <1>2, <1>3, ValueUpdated
  <1> HIDE DEF t, top
  <1>5. IsTree(t) /\ IsTrie(t) /\ DOMAIN t = DOMAIN slot
    BY <1>3, <1>4, ShapeKept DEF SameShape, IsTree
  <1>6. CASE Change(t, Done) /\ buf' = << >>
    <2>1. slot' = t /\ Return(Done) /\ pc' = "idle" /\ walk' = << >>
      BY <1>6 DEF Change, Return
    <2>2. Inline(t, Root)
      BY <1>3, <1>4 DEF Inline
    <2>3. EditStep
      BY <1>2, <1>4, <2>1 DEF EditStep, SameShape
    <2>4. TrieInv'
      BY <1>5, <2>1, <2>2, ReturnKeeps
    <2>5. BufferHolds'
      BY <1>6, <2>1, EmptySeq DEF BufferHolds
    <2> QED
      BY <2>3, <2>4, <2>5 DEF IInv
  <1>7. CASE /\ m # 1 /\ slot' = u /\ walk' = Front(walk) /\ buf' = b
             /\ UNCHANGED <<req, pc, frames, out, digest>>
    <2>1. /\ SameShape(t, u)
          /\ \A x \in DOMAIN t : /\ u[x].value = t[x].value
                                 /\ x # d => u[x].hash = t[x].hash
      <3> HIDE DEF h, d
      <3>1. IsTrie(t) /\ d \in DOMAIN t
        BY <1>2, <1>5
      <3> QED
        BY <3>1, HashSet
    <2> HIDE DEF u, b, m, d, h
    <2>2. SameShape(slot, u)
      BY <1>4, <2>1 DEF SameShape
    <2>3. \A x \in DOMAIN slot : x # d => (Inline(slot, x) => Inline(u, x))
      BY <1>4, <1>5, <2>1 DEF Inline
    <2>4. /\ IsTree(u) /\ DOMAIN u = DOMAIN slot
          /\ \A x \in DOMAIN slot : /\ Full(u, x) = Full(slot, x)
                                    /\ Kids(u, x) = Kids(slot, x)
                                    /\ \A i : Child(u, x, i) = Child(slot, x, i)
      BY <1>3, <2>2, ShapeKept DEF SameShape
    <2>5. EditStep
      BY <1>2, <1>4, <1>5, <1>7, <2>1, <2>2 DEF EditStep, SameShape
    <2>6. /\ walk' \in Seq(HashFrame) /\ DOMAIN walk' = 1 .. m - 1 /\ walk' # << >>
          /\ \A n \in 1 .. m - 1 : walk'[n] = walk[n]
      <3>1. /\ walk' \in Seq(HashFrame) /\ Len(walk') = m - 1
            /\ \A n \in 1 .. m - 1 : walk'[n] = walk[n]
        BY <1>1, <1>2, <1>7, FrontType DEF m
      <3>2. walk' # << >>
        BY <1>2, <1>7, <3>1, EmptySeq
      <3> QED
        BY <1>2, <3>1, <3>2
    <2>7. ASSUME NEW n \in 1 .. m - 1
          PROVE  /\ n \in 1 .. m /\ walk[n].slot \in DOMAIN slot
                 /\ walk[n].lead = Len(walk[n].slot) /\ Inline(slot, walk[n].slot)
                 /\ \A i \in walk[n].left : /\ i \in Kids(slot, walk[n].slot)
                                            /\ Inline(slot, Child(slot, walk[n].slot, i))
                 /\ \E j \in Kids(slot, walk[n].slot) \ walk[n].left :
                      IsPrefix(Child(slot, walk[n].slot, j), d)
      <3>1. n \in 1 .. m /\ m \in 1 .. m /\ n < m /\ walk[m].slot = d
        BY <1>2 DEF d
      <3>2. walk[n] \in HashFrame
        BY <1>2, <3>1, ElementOfSeq DEF m
      <3>3. walk[n].slot \in DOMAIN slot
        BY <3>2 DEF HashFrame
      <3>4. /\ walk[n].lead = Len(walk[n].slot) /\ Inline(slot, walk[n].slot)
            /\ \A i \in walk[n].left : /\ i \in Kids(slot, walk[n].slot)
                                       /\ Inline(slot, Child(slot, walk[n].slot, i))
        BY <1>2, <1>3, <3>1 DEF IInv, TrieInv, HashWalk, BufferHolds
      <3>5. \E j \in Kids(slot, walk[n].slot) \ walk[n].left :
              IsPrefix(Child(slot, walk[n].slot, j), walk[m].slot)
        BY <1>2, <1>3, <3>1 DEF TrieInv, HashWalk, IInv
      <3> QED
        BY <3>1, <3>3, <3>4, <3>5
    (* What the frames above hold lies above the sealed node or beside it. *)
    <2>8. ASSUME NEW n \in 1 .. m - 1
          PROVE  /\ walk[n].slot # d /\ IsPrefix(walk[n].slot, d) /\ d # Root
                 /\ \A i \in walk[n].left : Child(slot, walk[n].slot, i) # d
      <3> DEFINE s == walk[n].slot
      <3>1. PICK j \in Kids(slot, s) \ walk[n].left : IsPrefix(Child(slot, s, j), d)
        BY <2>7
      <3>2. s \in DOMAIN slot /\ \A i \in walk[n].left : i \in Kids(slot, s)
        BY <2>7
      <3> HIDE DEF s
      <3>3. j \in Index /\ \A i \in walk[n].left : i \in Index
        BY <3>1, <3>2 DEF Kids
      <3>4. /\ d \in Seq(Index) /\ s \in Seq(Index) /\ Len(d) \in Nat /\ Len(s) \in Nat
            /\ Len(Full(slot, s)) \in Nat /\ Len(s) <= Len(Full(slot, s))
        BY <1>2, <1>3, <3>2, FullExtends
      <3>5. ASSUME NEW i \in Index
            PROVE  /\ Child(slot, s, i) \in Seq(Index)
                   /\ Len(Child(slot, s, i)) = Len(Full(slot, s)) + 1
                   /\ IsPrefix(s, Child(slot, s, i))
        BY <1>3, <3>2, ChildType
      <3>6. Len(Child(slot, s, j)) <= Len(d) /\ IsPrefix(s, d)
        BY <3>1, <3>3, <3>4, <3>5, PrefixOrder, PrefixTransitive
      <3>7. s # d /\ d # Root
        <4>1. Len(s) < Len(d) /\ Len(d) # 0
          BY <3>3, <3>4, <3>5, <3>6
        <4> QED
          BY <4>1 DEF Root
      <3>8. ASSUME NEW i \in walk[n].left, Child(slot, s, i) = d PROVE FALSE
        <4>1. i \in Index
          BY <3>3
        <4>2. Len(Child(slot, s, j)) >= Len(d)
          BY <3>3, <3>4, <3>5, <3>8, <4>1
        <4>3. Child(slot, s, j) = d
          BY <3>1, <3>3, <3>4, <3>5, <4>2, PrefixOrder
        <4>4. i = j
          BY <1>3, <3>2, <3>3, <3>8, <4>1, <4>3, ParentIsUnique
        <4> QED
          BY <3>1, <4>4
      <3> QED
        BY <3>6, <3>7, <3>8 DEF s
    <2>9. d # Root
      <3>1. 1 \in 1 .. m - 1
        BY <1>2, <1>7
      <3> QED
        BY <2>8, <3>1
    <2>10. Hung' /\ RootInline'
      BY <1>3, <1>7, <2>3, <2>4, <2>9 DEF Hung, RootInline
    <2>11. slot' # EmptyTrie
      BY <1>3, <1>7, <2>4, HasRoot DEF IsTree
    <2>12. Descent'
      <3>1. frames' = <<Root>> /\ frames' \in Seq(DOMAIN slot') /\ DOMAIN frames' = {1}
        BY <1>3, <1>7, <2>4
      <3>2. Inline(slot', Root) /\ frames'[1] = Root
        BY <1>3, <1>7, <2>3, <2>9, <3>1
      <3> QED
        BY <3>1, <3>2 DEF Descent
    <2>13. HashFrame' = HashFrame
      BY <1>7, <2>4 DEF HashFrame
    <2>14. ASSUME NEW n \in 1 .. m - 1
           PROVE  /\ Inline(slot', walk'[n].slot)
                  /\ \A i \in walk'[n].left :
                       /\ i \in Kids(slot', walk'[n].slot)
                       /\ Inline(slot', Child(slot', walk'[n].slot, i))
                  /\ walk'[n].lead = Len(walk'[n].slot)
                  /\ IsPrefix(walk'[n].slot, buf')
      <3>1. Inline(slot', walk[n].slot)
        BY <1>7, <2>3, <2>7, <2>8
      <3>2. ASSUME NEW i \in walk[n].left
            PROVE  /\ i \in Kids(slot', walk[n].slot)
                   /\ Inline(slot', Child(slot', walk[n].slot, i))
        <4>1. /\ i \in Kids(slot, walk[n].slot) /\ Child(slot, walk[n].slot, i) # d
              /\ Inline(slot, Child(slot, walk[n].slot, i))
              /\ walk[n].slot \in DOMAIN slot
          BY <2>7, <2>8
        <4>2. Child(slot, walk[n].slot, i) \in DOMAIN slot
          BY <4>1 DEF Kids
        <4> QED
          BY <1>7, <2>3, <2>4, <4>1, <4>2
      <3> QED
        BY <1>2, <1>7, <2>6, <2>7, <2>8, <3>1, <3>2
    <2>15. ASSUME NEW k \in 1 .. m - 1, NEW n \in 1 .. m - 1, k < n
           PROVE  \E j \in Kids(slot', walk'[k].slot) \ walk'[k].left :
                    IsPrefix(Child(slot', walk'[k].slot, j), walk'[n].slot)
      <3>1. k \in 1 .. m /\ n \in 1 .. m /\ walk[k].slot \in DOMAIN slot
        BY <2>7
      <3>2. \E j \in Kids(slot, walk[k].slot) \ walk[k].left :
              IsPrefix(Child(slot, walk[k].slot, j), walk[n].slot)
        BY <1>2, <1>3, <2>15, <3>1 DEF TrieInv, HashWalk, IInv
      <3> QED
        BY <1>7, <2>4, <2>6, <3>1, <3>2
    <2>16. HashWalk'
      BY <1>3, <1>7, <2>6, <2>13, <2>14, <2>15 DEF HashWalk
    <2>17. BufferHolds'
      <3>1. buf' \in Seq(Index)
        BY <1>2, <1>3, <1>7, FullExtends
      <3> QED
        BY <1>3, <1>7, <2>6, <2>14, <3>1 DEF BufferHolds
    <2>18. Control'
      BY <1>3, <1>7, <2>11 DEF IInv, TrieInv, Control
    <2> QED
      BY <1>3, <1>7, <2>5, <2>10, <2>12, <2>16, <2>17, <2>18
         DEF IInv, TrieInv, OnKeysPath, Collecting, Unwinds
  <1> QED
    BY <1>6, <1>7 DEF HashFinish, HashPut, t, top

-----------------------------------------------------------------------------
(* All steps                                                               *)

LEMMA MutateKeepsTrie == IInv /\ Mutate => TrieInv' /\ EditStep
  <1> SUFFICES ASSUME IInv, Mutate PROVE TrieInv' /\ EditStep
    OBVIOUS
  <1>1. TrieInv
    BY DEF IInv
  <1>2. CASE Descend
    BY <1>1, <1>2, DescendKeeps
  <1>3. CASE InsertStep
    BY <1>1, <1>3, InsertIntoEmptyKeeps, ReplaceKeeps, InsertAboveKeeps,
       InsertBelowKeeps, InsertForkKeeps DEF InsertStep
  <1>4. CASE RemoveStep
    BY <1>1, <1>4, RemoveFindsNothingKeeps, ClearValueKeeps, ClearAndMergeKeeps,
       RemoveLeafKeeps DEF RemoveStep
  <1>5. CASE RemovePrefixStep
    BY <1>1, <1>5, PrefixFindsNothingKeeps, PrefixFoundKeeps DEF RemovePrefixStep
  <1>6. CASE Collect
    BY <1>1, <1>6, StartMaterializeKeeps, CollectChildKeeps, CollectUpKeeps DEF Collect
  <1>7. CASE Unwind
    BY <1>1, <1>7, UnwindRootKeeps, UnwindDetachKeeps, UnwindMergeKeeps, UnwindPopKeeps
       DEF Unwind
  <1> QED
    BY <1>2, <1>3, <1>4, <1>5, <1>6, <1>7 DEF Mutate

(* A mutation never enters the hash walk. *)
LEMMA MutateStaysOut == Mutate => pc # "hash" /\ (pc' = pc \/ pc' \in {"idle", "collect", "unwind"})
  <1> SUFFICES ASSUME Mutate
               PROVE  pc # "hash" /\ (pc' = pc \/ pc' \in {"idle", "collect", "unwind"})
    OBVIOUS
  <1> USE DEF OnNode, Descending, Unwinding, Change, Return, MaterializeFails, Fail, control
  <1>1. CASE Descend
    BY <1>1 DEF Descend
  <1>2. CASE InsertStep
    BY <1>2 DEF InsertStep, InsertIntoEmpty, Replace, InsertAbove, InsertBelow, InsertFork
  <1>3. CASE RemoveStep
    BY <1>3 DEF RemoveStep, RemoveFindsNothing, RemovesAt, ClearValue, ClearAndMerge,
                RemoveLeaf
  <1>4. CASE RemovePrefixStep
    BY <1>4 DEF RemovePrefixStep, PrefixFindsNothing, PrefixFound
  <1>5. CASE Collect
    BY <1>5 DEF Collect, StartMaterialize, CollectChild, CollectUp
  <1>6. CASE Unwind
    BY <1>6 DEF Unwind, UnwindsInto, UnwindRoot, UnwindDetach, UnwindMerge, UnwindPop
  <1> QED
    BY <1>1, <1>2, <1>3, <1>4, <1>5, <1>6 DEF Mutate

LEMMA StepKeeps == IInv /\ Step => IInv' /\ EditStep
  <1> SUFFICES ASSUME IInv, Step PROVE IInv' /\ EditStep
    OBVIOUS
  <1>1. CASE Mutate /\ UNCHANGED <<buf, digest>>
    <2>1. TrieInv' /\ EditStep
      BY <1>1, MutateKeepsTrie
    <2>2. pc # "hash" /\ pc' # "hash"
      BY <1>1, MutateStaysOut
    <2>3. BufferHolds'
      BY <1>1, <2>2 DEF IInv, BufferHolds
    <2> QED
      BY <2>1, <2>3 DEF IInv
  <1>2. CASE HashStep
    BY <1>2, HashRootKeeps, HashChildKeeps, HashFinishKeeps DEF HashStep
  <1> QED
    BY <1>1, <1>2 DEF Step

LEMMA InitHolds == Init => IInv
  <1> SUFFICES ASSUME Init PROVE IInv
    OBVIOUS
  <1>1. /\ slot \in Starts /\ req = None /\ pc = "idle" /\ frames = << >>
        /\ walk = << >> /\ buf = << >>
    BY DEF Init
  <1>2. IsTree(slot) /\ (slot # EmptyTrie => Inline(slot, Root))
    BY <1>1, StartsAssumption DEF IsTree
  <1>3. frames \in Seq(DOMAIN slot) /\ DOMAIN frames = {} /\ buf \in Seq(Index)
    BY <1>1
  <1>4. TrieInv
    BY <1>1, <1>2, <1>3
       DEF TrieInv, Hung, RootInline, Control, Descent, OnKeysPath, Collecting, Unwinds,
           HashWalk
  <1> QED
    BY <1>1, <1>3, <1>4 DEF IInv, BufferHolds

LEMMA NextKeeps == IInv /\ [Next]_vars => IInv' /\ EditStep
  <1> SUFFICES ASSUME IInv, [Next]_vars PROVE IInv' /\ EditStep
    OBVIOUS
  <1>1. ASSUME NEW r \in Abstract!Requests, Begin(r) PROVE IInv' /\ EditStep
    <2>1. TrieInv' /\ EditStep
      BY <1>1, BeginKeeps DEF IInv
    <2>2. buf' = buf /\ buf = << >> /\ walk' = << >>
      BY <1>1 DEF Begin, IInv, TrieInv, Control, BufferHolds
    <2>3. BufferHolds'
      BY <2>2, EmptySeq DEF BufferHolds
    <2> QED
      BY <2>1, <2>3 DEF IInv
  <1>2. CASE Step
    BY <1>2, StepKeeps
  <1>3. CASE UNCHANGED vars
    <2>1. IInv'
      BY <1>3 DEF vars, IInv, BufferHolds, TrieInv, Hung, RootInline, Control, Descent,
                  OnKeysPath, Collecting, Unwinds, HashWalk, MutationFrame, HashFrame,
                  Top, Key
    <2>2. EditStep
      BY <1>3 DEF vars, EditStep
    <2> QED
      BY <2>1, <2>2
  <1> QED
    BY <1>1, <1>2, <1>3 DEF Next

LEMMA AlwaysIInv == Spec => []IInv
  <1>1. Init => IInv
    BY InitHolds
  <1>2. IInv /\ [Next]_vars => IInv'
    BY NextKeeps
  <1> QED
    BY <1>1, <1>2, PTL DEF Spec

(* A sealed node keeps its path and its value until a call has turned its  *)
(* edge inline: whatever the calls and wherever the store fails, no stale  *)
(* copy is left in the store unnoticed (ops.rs, hash.rs).                  *)
THEOREM OnlyInlineIsEdited == Spec => EditsOnlyInline
  <1>1. IInv /\ [Next]_vars => [EditStep]_vars
    BY NextKeeps
  <1>2. Spec => []IInv
    BY AlwaysIInv
  <1>3. Spec => [][EditStep]_vars
    BY <1>1, <1>2, PTL DEF Spec
  <1>4. [][EditStep]_vars => EditsOnlyInline
    BY DEF EditStep, EditsOnlyInline
  <1> QED
    BY <1>3, <1>4

-----------------------------------------------------------------------------
(* The map a caller sees.                                                  *)

(* No stored value is the mark of a node without one. *)
NoneIsNoValue == \A d, splice : [data |-> d, splice |-> splice] # None

Typed == \A s \in DOMAIN slot : slot[s].value # None => IsValue(slot[s].value)

Loops ==
  /\ pc = "collect" => req.op \in {"remove_prefix", "materialize"}
  /\ pc = "unwind" => req.op \in {"remove", "remove_prefix"}

(* The keys a call takes out of the map. *)
Going == IF req.op = "remove" THEN {Key} ELSE {k \in Seq(Index) : IsPrefix(Key, k)}

(* The subtree that leaves holds these keys and no others. *)
Leaves ==
  pc \in {"collect", "unwind"} /\ req.op # "materialize" =>
    \A x \in DOMAIN slot :
      slot[x].value # None => (IsPrefix(Top, x) <=> Full(slot, x) \in Going)

(* The value that remove returns is where recovery looks for it. *)
Recoverable ==
  pc = "unwind" /\ req.op = "remove" =>
    \E z \in DOMAIN slot : Full(slot, z) = Key /\ ThinWay(slot, Top, z)

Held == Typed /\ Loops /\ Leaves /\ Recoverable

-----------------------------------------------------------------------------
(* What a step is, seen through the keys and values of the trie.           *)

(* r is what the map had at k. *)
Was(k, r) == Has(slot, k, r) \/ (r = None /\ \A d : ~Has(slot, k, d))

Outcome ==
  \/ req.op = "insert" /\ Puts(slot, slot', Key, req.val) /\ Was(Key, out')
  \/ req.op = "remove" /\ Loses(slot, slot', {Key}) /\ Was(Key, out')
  \/ /\ req.op = "remove_prefix" /\ out' = Done
     /\ Loses(slot, slot', {k \in Seq(Index) : IsPrefix(Key, k)})
  \/ req.op \in {"materialize", "hash"} /\ Keeps(slot, slot') /\ out' = Done
  \/ Keeps(slot, slot') /\ out' = Err

Quiet == Keeps(slot, slot') /\ req' = req /\ out' = out
Begins == Keeps(slot, slot') /\ req = None /\ req' \in Abstract!Requests /\ out' = None
Finishes == req # None /\ req' = None /\ Outcome

Effect == Quiet \/ Begins \/ Finishes

(* M is the map from the keys of t to their values. *)
IsMapOf(M, t) ==
  /\ M = [k \in DOMAIN M |-> M[k]]
  /\ \A k \in DOMAIN M : Has(t, k, M[k]) /\ k \in Seq(Index)
  /\ \A k, d : Has(t, k, d) => k \in DOMAIN M /\ M[k] = d

LEMMA ContentsAreMap ==
  ASSUME Hung, Typed
  PROVE  IsMapOf(Contents, slot)
  <1> DEFINE C == Keys \cup {Full(slot, s) : s \in DOMAIN slot}
             F == {k \in C : Lookup(slot, k) # None}
             M == [k \in F |-> Lookup(slot, k)]
  <1>1. Contents = M
    BY DEF Contents
  <1>2. IsTree(slot) /\ \A s \in DOMAIN slot : Full(slot, s) \in Seq(Index)
    BY FullExtends DEF Hung, IsTree
  <1>3. C \subseteq Seq(Index)
    BY <1>2, KeysAssumption
  <1>4. ASSUME NEW k \in F PROVE k \in Seq(Index) /\ Has(slot, k, Lookup(slot, k))
    <2>1. k \in Seq(Index) /\ Lookup(slot, k) # None
      BY <1>3
    <2>2. PICK x \in DOMAIN slot : Full(slot, x) = k
      BY <1>2, <2>1, LookupFinds
    <2>3. Lookup(slot, k) = Answer(slot[x])
      BY <1>2, <2>1, <2>2, LookupFinds
    <2> QED
      BY <2>1, <2>2, <2>3 DEF Has, Answer
  <1>5. ASSUME NEW k, NEW d, Has(slot, k, d) PROVE k \in F /\ Lookup(slot, k) = d
    <2>1. PICK x \in DOMAIN slot :
            Full(slot, x) = k /\ slot[x].value # None /\ slot[x].value.data = d
      BY <1>5 DEF Has
    <2>2. k \in C /\ k \in Seq(Index)
      BY <1>2, <2>1
    <2>3. Lookup(slot, k) = Answer(slot[x])
      BY <1>2, <2>1, <2>2, LookupFinds
    <2>4. d \in Data /\ d # None
      BY <2>1, DataAssumption DEF Typed, IsValue
    <2> QED
      BY <2>1, <2>2, <2>3, <2>4 DEF Answer
  <1> HIDE DEF F
  <1> QED
    BY <1>1, <1>4, <1>5 DEF IsMapOf

WithKey(M, k, v) == [j \in DOMAIN M \cup {k} |-> IF j = k THEN v ELSE M[j]]

LEMMA MapStep ==
  ASSUME NEW M, NEW W, IsMapOf(M, slot), IsMapOf(W, slot')
  PROVE  /\ Keeps(slot, slot') => W = M
         /\ \A k, v : Puts(slot, slot', k, v) => W = WithKey(M, k, v)
         /\ \A K : Loses(slot, slot', K) =>
              W = [j \in {j \in DOMAIN M : j \notin K} |-> M[j]]
         /\ \A k, r : Was(k, r) => r = IF k \in DOMAIN M THEN M[k] ELSE None
  <1>1. /\ \A k \in DOMAIN M : Has(slot, k, M[k])
        /\ \A k, d : Has(slot, k, d) => k \in DOMAIN M /\ M[k] = d
        /\ \A k \in DOMAIN W : Has(slot', k, W[k])
        /\ \A k, d : Has(slot', k, d) => k \in DOMAIN W /\ W[k] = d
        /\ M = [k \in DOMAIN M |-> M[k]]
        /\ W = [k \in DOMAIN W |-> W[k]]
    BY DEF IsMapOf
  <1>2. ASSUME Keeps(slot, slot') PROVE W = M
    <2>1. DOMAIN W = DOMAIN M /\ \A k \in DOMAIN M : W[k] = M[k]
      BY <1>1, <1>2 DEF Keeps
    <2> QED
      BY <1>1, <2>1
  <1>3. ASSUME NEW k, NEW v, Puts(slot, slot', k, v)
        PROVE  W = WithKey(M, k, v)
    <2>1. \A j, d : Has(slot', j, d) <=> IF j = k THEN d = v ELSE Has(slot, j, d)
      BY <1>3 DEF Puts
    <2>2. /\ DOMAIN W = DOMAIN M \cup {k}
          /\ \A j \in DOMAIN W : W[j] = IF j = k THEN v ELSE M[j]
      BY <1>1, <2>1
    <2> QED
      BY <1>1, <2>2 DEF WithKey
  <1>4. ASSUME NEW K, Loses(slot, slot', K)
        PROVE  W = [j \in {j \in DOMAIN M : j \notin K} |-> M[j]]
    <2>1. /\ DOMAIN W = {j \in DOMAIN M : j \notin K}
          /\ \A j \in DOMAIN W : W[j] = M[j]
      BY <1>1, <1>4 DEF Loses
    <2> QED
      BY <1>1, <2>1
  <1>5. ASSUME NEW k, NEW r, Was(k, r)
        PROVE  r = IF k \in DOMAIN M THEN M[k] ELSE None
    BY <1>1, <1>5 DEF Was
  <1> QED
    BY <1>2, <1>3, <1>4, <1>5

(* Every step is one of the map's, or none. *)
LEMMA EffectIsStep ==
  ASSUME IsMapOf(Contents, slot), IsMapOf(Contents', slot'), Effect
  PROVE  [Abstract!Next]_(Abstract!vars)
  <1>1. /\ Keeps(slot, slot') => Contents' = Contents
        /\ \A k, v : Puts(slot, slot', k, v) => Contents' = WithKey(Contents, k, v)
        /\ \A K : Loses(slot, slot', K) =>
             Contents' = [j \in {j \in DOMAIN Contents : j \notin K} |-> Contents[j]]
        /\ \A k, r : Was(k, r) => r = Abstract!ValueAt(k)
    BY MapStep DEF Abstract!ValueAt
  <1>2. \A k \in DOMAIN Contents : k \in Seq(Index)
    BY DEF IsMapOf
  <1>3. CASE Quiet
    BY <1>1, <1>3 DEF Quiet, Abstract!vars
  <1>4. CASE Begins
    BY <1>1, <1>4 DEF Begins, Abstract!Next, Abstract!Begin
  <1>5. CASE Finishes
    <2>1. req # None /\ req' = None /\ Outcome
      BY <1>5 DEF Finishes
    <2>2. CASE req.op = "insert" /\ Puts(slot, slot', Key, req.val) /\ Was(Key, out')
      <3>2. Contents' = WithKey(Contents, Key, req.val) /\ out' = Abstract!ValueAt(Key)
        BY <1>1, <2>2
      <3>1. Abstract!InsertKey
        BY <2>2, <3>2 DEF Abstract!InsertKey, WithKey, Key
      <3> QED
        BY <2>1, <3>1 DEF Abstract!Next, Abstract!Finish
    <2>3. CASE req.op = "remove" /\ Loses(slot, slot', {Key}) /\ Was(Key, out')
      <3>1. /\ Contents' = [j \in {j \in DOMAIN Contents : j \notin {Key}} |-> Contents[j]]
            /\ out' = Abstract!ValueAt(Key)
        BY <1>1, <2>3
      <3>3. {j \in DOMAIN Contents : j \notin {Key}} = {j \in DOMAIN Contents : j # Key}
        OBVIOUS
      <3>2. Abstract!RemoveKey
        BY <2>3, <3>1, <3>3 DEF Abstract!RemoveKey, Abstract!Keeping, Abstract!Restrict, Key
      <3> QED
        BY <2>1, <3>2 DEF Abstract!Next, Abstract!Finish
    <2>4. CASE /\ req.op = "remove_prefix" /\ out' = Done
               /\ Loses(slot, slot', {k \in Seq(Index) : IsPrefix(Key, k)})
      <3> DEFINE K == {k \in Seq(Index) : IsPrefix(Key, k)}
      <3>1. Contents' = [j \in {j \in DOMAIN Contents : j \notin K} |-> Contents[j]]
        <4> HIDE DEF K
        <4> QED
          BY <1>1, <2>4 DEF K
      <3>2. {j \in DOMAIN Contents : j \notin K}
              = {j \in DOMAIN Contents : ~Abstract!IsPrefix(Key, j)}
        BY <1>2 DEF IsPrefix, Abstract!IsPrefix
      <3>3. Abstract!RemovePrefix
        BY <2>4, <3>1, <3>2
           DEF Abstract!RemovePrefix, Abstract!Keeping, Abstract!Restrict, Key
      <3> QED
        BY <2>1, <3>3 DEF Abstract!Next, Abstract!Finish
    <2>5. CASE req.op \in {"materialize", "hash"} /\ Keeps(slot, slot') /\ out' = Done
      <3>1. Abstract!Rewrite
        BY <1>1, <2>5 DEF Abstract!Rewrite
      <3> QED
        BY <2>1, <3>1 DEF Abstract!Next, Abstract!Finish
    <2>6. CASE Keeps(slot, slot') /\ out' = Err
      <3>1. Abstract!Fail
        BY <1>1, <2>6 DEF Abstract!Fail
      <3> QED
        BY <2>1, <3>1 DEF Abstract!Next, Abstract!Finish
    <2> QED
      BY <2>1, <2>2, <2>3, <2>4, <2>5, <2>6 DEF Outcome
  <1> QED
    BY <1>3, <1>4, <1>5 DEF Effect

-----------------------------------------------------------------------------
(* Steps that end the call, and steps that only read.                      *)

LEMMA ReturnHolds ==
  ASSUME NEW result, Return(result), Typed'
  PROVE  Held'
  <1>1. pc' = "idle"
    BY DEF Return
  <1> QED
    BY <1>1 DEF Held, Loops, Leaves, Recoverable

LEMMA FailHolds ==
  ASSUME Held, req # None, Fail
  PROVE  Held' /\ Effect
  <1>1. slot' = slot /\ Return(Err)
    BY DEF Fail, Change
  <1>2. Typed'
    BY <1>1 DEF Held, Typed
  <1>3. Keeps(slot, slot') /\ req' = None /\ out' = Err
    BY <1>1 DEF Keeps, Return
  <1> QED
    BY <1>1, <1>2, <1>3, ReturnHolds DEF Effect, Finishes, Outcome

LEMMA HeldStands ==
  ASSUME Held, DOMAIN slot' = DOMAIN slot,
         \A x \in DOMAIN slot : /\ slot'[x].value = slot[x].value
                                /\ Full(slot', x) = Full(slot, x)
                                /\ Kids(slot', x) = Kids(slot, x),
         req' = req, out' = out, frames' = frames, pc' = pc
  PROVE  Held' /\ Effect
  <1>1. Keeps(slot, slot')
    BY SameValuesKeep
  <1>2. Top' = Top /\ Key' = Key /\ Going' = Going
    BY DEF Top, Key, Going
  <1>3. Typed' /\ Loops'
    BY DEF Held, Typed, Loops
  <1>4. Leaves'
    BY <1>2 DEF Held, Leaves
  <1>5. Recoverable'
    <2> SUFFICES ASSUME pc = "unwind", req.op = "remove"
                 PROVE  \E z \in DOMAIN slot' : Full(slot', z) = Key /\ ThinWay(slot', Top, z)
      BY <1>2 DEF Recoverable
    <2>1. PICK z \in DOMAIN slot : Full(slot, z) = Key /\ ThinWay(slot, Top, z)
      BY DEF Held, Recoverable
    <2>2. ThinWay(slot', Top, z)
      BY <2>1 DEF ThinWay
    <2> QED
      BY <2>1, <2>2
  <1> QED
    BY <1>1, <1>3, <1>4, <1>5 DEF Held, Effect, Quiet

LEMMA EdgeReadKeeps ==
  ASSUME IsTree(slot), NEW c \in DOMAIN slot, slot' = Materialized(slot, c)
  PROVE  /\ DOMAIN slot' = DOMAIN slot
         /\ \A x \in DOMAIN slot : /\ slot'[x].value = slot[x].value
                                   /\ Full(slot', x) = Full(slot, x)
                                   /\ Kids(slot', x) = Kids(slot, x)
  <1> DEFINE u == HashPut(slot, c, None)
  <1>1. slot' = u
    BY DEF Materialized, HashPut
  <1>2. IsTrie(slot) /\ slot # EmptyTrie
    BY HasRoot DEF IsTree
  <1>3. SameShape(slot, u) /\ \A x \in DOMAIN slot : u[x].value = slot[x].value
    BY <1>2, HashSet
  <1> HIDE DEF u
  <1>4. \A x \in DOMAIN slot : Full(u, x) = Full(slot, x) /\ Kids(u, x) = Kids(slot, x)
    BY <1>2, <1>3, ShapeKept
  <1> QED
    BY <1>1, <1>3, <1>4 DEF SameShape

LEMMA ReadInPlaceHolds ==
  ASSUME IsTree(slot), Held, NEW c \in DOMAIN slot, slot' = Materialized(slot, c),
         req' = req, out' = out, frames' = frames, pc' = pc
  PROVE  Held' /\ Effect
  BY EdgeReadKeeps, HeldStands

LEMMA BeginHolds ==
  \A r \in Abstract!Requests : IInv /\ Held /\ Begin(r) => Held' /\ Effect
  <1> SUFFICES ASSUME NEW r \in Abstract!Requests, Held, Begin(r)
               PROVE  Held' /\ Effect
    OBVIOUS
  <1>1. slot' = slot /\ req = None /\ req' = r /\ out' = None /\ pc' \in {"hash", "descend"}
    BY DEF Begin
  <1>2. Keeps(slot, slot') /\ Typed'
    BY <1>1 DEF Keeps, Held, Typed
  <1> QED
    BY <1>1, <1>2 DEF Held, Loops, Leaves, Recoverable, Effect, Begins

LEMMA DescendHolds == IInv /\ Held /\ Descend => Held' /\ Effect
  <1> SUFFICES ASSUME IInv, Held, Descend PROVE Held' /\ Effect
    OBVIOUS
  <1> DEFINE c == Child(slot, Top, KeyNext)
  <1>1. /\ HasNext /\ req # None /\ pc = "descend" /\ IsTree(slot)
    BY DEF Descend, OnNode, Descending, IInv, TrieInv, Hung
  <1>2. c \in DOMAIN slot
    BY <1>1 DEF HasNext, Kids
  <1>3. CASE MaterializeFails(c)
    BY <1>1, <1>3, FailHolds DEF MaterializeFails
  <1>4. CASE slot' = Materialized(slot, c) /\ UNCHANGED <<req, pc, walk, out>>
    <2>1. /\ DOMAIN slot' = DOMAIN slot
          /\ \A x \in DOMAIN slot : /\ slot'[x].value = slot[x].value
                                    /\ Full(slot', x) = Full(slot, x)
      BY <1>1, <1>2, <1>4, EdgeReadKeeps
    <2>2. Keeps(slot, slot')
      BY <2>1, SameValuesKeep
    <2>3. Typed'
      BY <2>1 DEF Held, Typed
    <2> QED
      BY <1>1, <1>4, <2>2, <2>3 DEF Held, Loops, Leaves, Recoverable, Effect, Quiet
  <1> QED
    BY <1>3, <1>4 DEF Descend

-----------------------------------------------------------------------------
(* insert                                                                  *)

LEMMA NewValue ==
  ASSUME NoneIsNoValue, Control, req # None, req.op = "insert"
  PROVE  /\ Key \in Keys /\ req.val \in Data
         /\ Unspliced(req.val) # None /\ IsValue(Unspliced(req.val))
         /\ Unspliced(req.val).data = req.val
  <1>1. req \in Abstract!Requests
    BY DEF Control
  <1>2. Key \in Keys /\ req.val \in Data
    BY <1>1 DEF Abstract!Requests, Key
  <1>3. Unspliced(req.val) = [data |-> req.val, splice |-> None]
    BY DEF Unspliced
  <1>4. Unspliced(req.val) # None
    BY <1>3 DEF NoneIsNoValue
  <1> QED
    BY <1>2, <1>3, <1>4 DEF IsValue

LEMMA PathWhole ==
  ASSUME NEW S, NEW q \in Seq(S), NEW n \in 0 .. Len(q)
  PROVE  SubSeq(q, 1, n) \o Beyond(q, n) = q
  <1> DEFINE p == SubSeq(q, 1, n)
  <1>1. p \in Seq(S) /\ Len(p) = n /\ IsPrefix(p, q) /\ Len(q) \in Nat
    BY PrefixIsInitial, PrefixOrder
  <1>2. Len(q) \in Len(p) .. Len(q)
    BY <1>1
  <1> HIDE DEF p
  <1>3. p \o SubSeq(q, Len(p) + 1, Len(q)) = SubSeq(q, 1, Len(q))
    BY <1>1, <1>2, PathSplit
  <1>4. SubSeq(q, 1, Len(q)) = q
    BY <1>1, PrefixOrder, PrefixIsInitial
  <1> QED
    BY <1>1, <1>3, <1>4 DEF p, Beyond

(* A call that stops at a node has no other node with its key.             *)
LEMMA KeyStopsHere ==
  ASSUME TrieInv, NEW op \in {"insert", "remove", "remove_prefix"}, OnNode(op), ~HasNext,
         NEW x \in DOMAIN slot, Full(slot, x) = Key
  PROVE  x = Top
  <1>1. frames # << >> /\ IsPrefix(Top, Key)
    BY OnPath
  <1>2. IsTree(slot) /\ Top \in DOMAIN slot
    BY <1>1, TopIsInline
  <1> SUFFICES ASSUME x # Top PROVE FALSE
    OBVIOUS
  <1>3. IsPrefix(Top, x)
    BY <1>1, <1>2, OnTheWay
  <1>4. Full(slot, Top) # Full(slot, x)
    BY <1>2, FullIsUnique
  <1>5. IsPrefix(Full(slot, Top), Key) /\ Key[Len(Full(slot, Top)) + 1] \in Kids(slot, Top)
    BY <1>2, <1>3, <1>4, KeyLeadsDown
  <1> QED
    BY <1>4, <1>5 DEF HasNext, KeyContinues, KeyNext, IsStrictPrefix

(* A key that is put where none was. *)
LEMMA InsertHolds ==
  ASSUME NoneIsNoValue, Control, Held, req # None, req.op = "insert",
         NEW u, NEW result, Change(u, result), Puts(slot, u, Key, req.val),
         Was(Key, result), \A x \in DOMAIN u : u[x].value # None => IsValue(u[x].value)
  PROVE  Held' /\ Effect
  <1>1. slot' = u /\ req' = None /\ out' = result /\ Return(result)
    BY DEF Change, Return
  <1>2. Typed'
    BY <1>1 DEF Typed
  <1> QED
    BY <1>1, <1>2, ReturnHolds DEF Effect, Finishes, Outcome

LEMMA InsertIntoEmptyHolds ==
  NoneIsNoValue /\ IInv /\ Held /\ InsertIntoEmpty => Held' /\ Effect
  <1> SUFFICES ASSUME NoneIsNoValue, IInv, Held, InsertIntoEmpty PROVE Held' /\ Effect
    OBVIOUS
  <1> DEFINE leaf == LeafNode(Key, req.val)
             u == Holding(EmptyTrie, Root, leaf)
  <1>1. Change(u, None) /\ slot = EmptyTrie /\ req # None /\ req.op = "insert" /\ Control
    BY DEF InsertIntoEmpty, Descending, IInv, TrieInv
  <1>2. Key \in Seq(Index)
    BY <1>1, KeyIsPath
  <1>3. /\ IsValue(leaf.value) /\ leaf.value # None /\ leaf.value.data = req.val
        /\ leaf.partial = Key
    BY <1>1, NewValue DEF LeafNode
  <1> HIDE DEF leaf
  <1>4. DOMAIN u = {Root} /\ u[Root] = leaf
    BY DEF Holding, EmptyTrie, Root
  <1> HIDE DEF u
  <1>5. Full(u, Root) = Key
    BY <1>2, <1>3, <1>4 DEF Full, Root
  <1>6. \A k, d : ~Has(slot, k, d)
    BY <1>1 DEF Has, EmptyTrie
  <1>7. Puts(slot, u, Key, req.val) /\ Was(Key, None)
    BY <1>3, <1>4, <1>5, <1>6 DEF Puts, Was, Has
  <1> QED
    BY <1>1, <1>3, <1>4, <1>7, InsertHolds

(* What the map had at the key is at the top node or nowhere.              *)
LEMMA WasAtTop ==
  ASSUME TrieInv, NEW op \in {"insert", "remove"}, OnNode(op), ~HasNext
  PROVE  /\ At(Key) => Was(Key, Answer(slot[Top]))
         /\ ~At(Key) => Was(Key, None)
  <1>1. \A x \in DOMAIN slot : Full(slot, x) = Key => x = Top
    BY KeyStopsHere
  <1>2. Top \in DOMAIN slot
    BY OnPath, TopIsInline
  <1> QED
    BY <1>1, <1>2 DEF Was, Has, At, Answer

LEMMA ReplaceHolds == NoneIsNoValue /\ IInv /\ Held /\ Replace => Held' /\ Effect
  <1> SUFFICES ASSUME NoneIsNoValue, IInv, Held, Replace PROVE Held' /\ Effect
    OBVIOUS
  <1> DEFINE v == Unspliced(req.val)
             u == ValuePut(slot, Top, v)
  <1>1. TrieInv /\ Control /\ OnNode("insert") /\ At(Key) /\ Change(u, Answer(slot[Top]))
    BY DEF IInv, TrieInv, Replace, ValuePut, Answer
  <1>2. req # None /\ req.op = "insert" /\ frames # << >>
    BY <1>1, OnPath
  <1>3. /\ IsTree(slot) /\ IsTrie(slot) /\ slot # EmptyTrie /\ Top \in DOMAIN slot
    BY <1>1, <1>2, TopIsInline
  <1>4. IsValue(v) /\ v # None /\ v.data = req.val
    BY <1>1, <1>2, NewValue
  <1> DEFINE s == Top
  <1>5. /\ SameShape(slot, u) /\ u[Top].value = v
        /\ \A x \in DOMAIN slot : x # Top => u[x].value = slot[x].value
    <2> HIDE DEF v
    <2>1. s \in DOMAIN slot
      BY <1>3
    <2> HIDE DEF s
    <2> QED
      BY <1>3, <2>1, ValueSet DEF s
  <1> HIDE DEF u, v
  <1>6. DOMAIN u = DOMAIN slot /\ \A x \in DOMAIN slot : Full(u, x) = Full(slot, x)
    BY <1>3, <1>5, ShapeKept DEF SameShape
  <1>7. Puts(slot, u, Key, req.val)
    <2>1. Puts(slot, u, Full(slot, Top), req.val)
      BY <1>3, <1>4, <1>5, <1>6, ValuePutPuts
    <2> QED
      BY <1>1, <2>1 DEF At
  <1>8. Was(Key, Answer(slot[Top]))
    <2>1. ~HasNext
      BY <1>1 DEF HasNext, KeyContinues, IsStrictPrefix, At
    <2> QED
      BY <1>1, <2>1, WasAtTop
  <1>9. \A x \in DOMAIN u : u[x].value # None => IsValue(u[x].value)
    BY <1>4, <1>5, <1>6 DEF Held, Typed
  <1> QED
    BY <1>1, <1>2, <1>7, <1>8, <1>9, InsertHolds

LEMMA InsertAboveHolds == NoneIsNoValue /\ IInv /\ Held /\ InsertAbove => Held' /\ Effect
  <1> SUFFICES ASSUME NoneIsNoValue, IInv, Held, InsertAbove PROVE Held' /\ Effect
    OBVIOUS
  <1> DEFINE f == Full(slot, Top)
             v == Unspliced(req.val)
             n == Len(Key)
             m == SubSeq(f, 1, n + 1)
             u == Pushed(n, v)
  <1>1. /\ TrieInv /\ Control /\ OnNode("insert") /\ Change(u, None)
        /\ IsPrefix(Key, f) /\ Key # f
    BY DEF IInv, TrieInv, InsertAbove, KeyEndsAbove, IsStrictPrefix
  <1>2. /\ req # None /\ req.op = "insert" /\ frames # << >>
        /\ Key \in Seq(Index) /\ n \in Nat /\ Len(Top) <= n
    BY <1>1, OnPath
  <1>3. /\ f \in Seq(Index) /\ Len(f) \in Nat /\ Len(Top) \in Nat /\ Top \in DOMAIN slot
    BY <1>1, <1>2, TopIsInline
  <1>4. IsValue(v) /\ v # None /\ v.data = req.val
    BY <1>1, <1>2, NewValue
  <1> HIDE DEF f, v
  <1>5. n < Len(f)
    BY <1>1, <1>2, <1>3, PrefixOrder
  <1>6. n \in Len(Top) .. Len(f) - 1 /\ n \in 0 .. Len(f)
    BY <1>2, <1>3, <1>5
  <1>7. /\ IsPushed(slot, Top, n, m, u[Top], u[m], u)
        /\ u[Top].value = v /\ u[m].value = slot[Top].value
    BY <1>1, <1>2, <1>6, TopPushed DEF f
  <1>8. Key = SubSeq(f, 1, n)
    BY <1>1, <1>2, <1>3, <1>6, PrefixIsInitial
  <1> HIDE DEF u, m, n
  <1>9. /\ DOMAIN u = DOMAIN slot \cup {m} /\ Full(u, Top) = Key
        /\ \A x \in DOMAIN slot \ {Top} : u[x] = slot[x]
    BY <1>7, <1>8 DEF IsPushed, f
  <1>10. Puts(slot, u, Key, req.val)
    BY <1>3, <1>4, <1>7, <1>9, PushedPuts
  <1>11. Was(Key, None)
    <2>1. Len(Key) < Len(f)
      BY <1>5 DEF n
    <2>2. ~IsPrefix(f, Key)
      BY <1>2, <1>3, <2>1, PrefixOrder
    <2>3. ~HasNext /\ ~At(Key)
      BY <1>1, <2>2 DEF HasNext, KeyContinues, IsStrictPrefix, At, f
    <2> QED
      BY <1>1, <2>3, WasAtTop
  <1>12. \A x \in DOMAIN u : u[x].value # None => IsValue(u[x].value)
    BY <1>3, <1>4, <1>7, <1>9 DEF Held, Typed
  <1> QED
    BY <1>1, <1>2, <1>10, <1>11, <1>12, InsertHolds

LEMMA LeafFull ==
  ASSUME NEW t, NEW s, NEW i, NEW n \in 0 .. Len(Key), NEW d, NEW u, Key \in Seq(Index),
         SubSeq(Key, 1, n) = Child(t, s, i),
         IsGrown(t, s, i, LeafNode(Beyond(Key, n), d), u)
  PROVE  Full(u, Child(t, s, i)) = Key
  <1> DEFINE c    == Child(t, s, i)
             leaf == LeafNode(Beyond(Key, n), d)
  <1>1. u[c] = leaf
    BY DEF IsGrown
  <1>2. leaf.partial = Beyond(Key, n)
    BY DEF LeafNode
  <1>3. SubSeq(Key, 1, n) \o Beyond(Key, n) = Key
    BY PathWhole
  <1> HIDE DEF c, leaf
  <1>4. c = SubSeq(Key, 1, n)
    BY DEF c
  <1>5. Full(u, c) = Key
    BY <1>1, <1>2, <1>3, <1>4 DEF Full
  <1> QED
    BY <1>5 DEF c

LEMMA InsertBelowHolds == NoneIsNoValue /\ IInv /\ Held /\ InsertBelow => Held' /\ Effect
  <1> SUFFICES ASSUME NoneIsNoValue, IInv, Held, InsertBelow PROVE Held' /\ Effect
    OBVIOUS
  <1> DEFINE n    == Len(Full(slot, Top)) + 1
             i    == KeyNext
             c    == Child(slot, Top, i)
             leaf == LeafNode(Beyond(Key, n), req.val)
             u    == Holding(slot, SubSeq(Key, 1, n), leaf)
  <1>1. /\ TrieInv /\ Control /\ OnNode("insert") /\ Change(u, None) /\ KeyContinues
        /\ ~HasNext
    BY DEF IInv, TrieInv, InsertBelow
  <1>2. req # None /\ req.op = "insert" /\ Key \in Seq(Index)
    BY <1>1, OnPath
  <1>3. IsValue(leaf.value) /\ leaf.value # None /\ leaf.value.data = req.val
    BY <1>1, <1>2, NewValue DEF LeafNode
  <1>4. /\ SubSeq(Key, 1, n) = c /\ n \in 0 .. Len(Key)
        /\ IsGrown(slot, Top, i, leaf, u)
    BY <1>1, LeafBelow
  <1> HIDE DEF u, i, n
  <1>5. Full(u, c) = Key
    BY <1>2, <1>4, LeafFull
  <1> HIDE DEF leaf
  <1>6. /\ DOMAIN u = DOMAIN slot \cup {c} /\ u[c] = leaf
        /\ \A x \in DOMAIN slot : u[x] = slot[x]
    BY <1>4 DEF IsGrown
  <1>7. Puts(slot, u, Key, req.val)
    <2>1. Puts(slot, u, Full(u, c), leaf.value.data)
      BY <1>3, <1>4, GrownPuts
    <2> QED
      BY <1>3, <1>5, <2>1
  <1>8. Was(Key, None)
    <2>1. ~At(Key)
      BY <1>1 DEF KeyContinues, IsStrictPrefix, At
    <2> QED
      BY <1>1, <2>1, WasAtTop
  <1>9. \A x \in DOMAIN u : u[x].value # None => IsValue(u[x].value)
    BY <1>3, <1>6 DEF Held, Typed
  <1> QED
    BY <1>1, <1>2, <1>7, <1>8, <1>9, InsertHolds

LEMMA InsertForkHolds == NoneIsNoValue /\ IInv /\ Held /\ InsertFork => Held' /\ Effect
  <1> SUFFICES ASSUME NoneIsNoValue, IInv, Held, InsertFork PROVE Held' /\ Effect
    OBVIOUS
  <1> DEFINE n    == ForkAt
             m    == SubSeq(Full(slot, Top), 1, n + 1)
             t    == Pushed(n, None)
             i    == Key[n + 1]
             c    == Child(t, Top, i)
             leaf == LeafNode(Beyond(Key, n + 1), req.val)
             u    == Holding(t, SubSeq(Key, 1, n + 1), leaf)
  <1>1. /\ TrieInv /\ Control /\ OnNode("insert") /\ Change(u, None)
        /\ ~At(Key) /\ ~KeyContinues
    BY DEF IInv, TrieInv, InsertFork, ForkAt
  <1>2. /\ req # None /\ req.op = "insert" /\ Key \in Seq(Index) /\ frames # << >>
        /\ Top \in DOMAIN slot
    BY <1>1, OnPath, TopIsInline
  <1>3. IsValue(leaf.value) /\ leaf.value # None /\ leaf.value.data = req.val
    BY <1>1, <1>2, NewValue DEF LeafNode
  <1>4. /\ n \in Len(Top) .. Len(Full(slot, Top)) - 1 /\ n + 1 \in 0 .. Len(Key)
        /\ SubSeq(Key, 1, n + 1) = c /\ IsGrown(t, Top, i, leaf, u)
    BY <1>1, LeafForks
  <1> HIDE DEF n
  <1>5. /\ IsPushed(slot, Top, n, m, t[Top], t[m], t)
        /\ t[Top].value = None /\ t[m].value = slot[Top].value
    BY <1>1, <1>2, <1>4, TopPushed
  <1> HIDE DEF u, t, i, m
  <1>6. Full(u, c) = Key
    BY <1>2, <1>4, LeafFull
  <1> HIDE DEF leaf
  <1>7. /\ DOMAIN u = DOMAIN t \cup {c} /\ u[c] = leaf
        /\ \A x \in DOMAIN t : u[x] = t[x]
    BY <1>4 DEF IsGrown
  <1>8. DOMAIN t = DOMAIN slot \cup {m} /\ \A x \in DOMAIN slot \ {Top} : t[x] = slot[x]
    BY <1>5 DEF IsPushed
  <1>9. Keeps(slot, t)
    BY <1>2, <1>5, PushedPuts
  <1>10. Puts(slot, u, Key, req.val)
    <2>1. Puts(t, u, Full(u, c), leaf.value.data)
      BY <1>3, <1>4, GrownPuts
    <2>2. Puts(t, u, Key, req.val)
      BY <1>3, <1>6, <2>1
    <2> QED
      BY <1>9, <2>2 DEF Puts, Keeps
  <1>11. Was(Key, None)
    <2>1. ~HasNext
      BY <1>1 DEF HasNext
    <2> QED
      BY <1>1, <2>1, WasAtTop
  <1>12. \A x \in DOMAIN u : u[x].value # None => IsValue(u[x].value)
    BY <1>2, <1>3, <1>5, <1>7, <1>8 DEF Held, Typed
  <1> QED
    BY <1>1, <1>2, <1>10, <1>11, <1>12, InsertHolds

-----------------------------------------------------------------------------
(* remove                                                                  *)

LEMMA RemoveHolds ==
  ASSUME Held, req # None, req.op = "remove", NEW u, NEW result, Change(u, result),
         Loses(slot, u, {Key}), Was(Key, result),
         \A x \in DOMAIN u : u[x].value # None => IsValue(u[x].value)
  PROVE  Held' /\ Effect
  <1>1. slot' = u /\ req' = None /\ out' = result /\ Return(result)
    BY DEF Change, Return
  <1>2. Typed'
    BY <1>1 DEF Typed
  <1> QED
    BY <1>1, <1>2, ReturnHolds DEF Effect, Finishes, Outcome

LEMMA RemoveFindsNothingHolds == IInv /\ Held /\ RemoveFindsNothing => Held' /\ Effect
  <1> SUFFICES ASSUME IInv, Held, RemoveFindsNothing PROVE Held' /\ Effect
    OBVIOUS
  <1>1. /\ TrieInv /\ Descending("remove") /\ req # None /\ req.op = "remove"
        /\ Change(slot, None)
    BY DEF IInv, RemoveFindsNothing, Descending
  <1>2. Was(Key, None)
    <2>1. CASE slot = EmptyTrie
      BY <2>1 DEF Was, Has, EmptyTrie
    <2>2. CASE slot # EmptyTrie
      <3>1. OnNode("remove") /\ ~HasNext /\ (At(Key) => slot[Top].value = None)
        BY <1>1, <2>2 DEF OnNode, RemoveFindsNothing
      <3>2. /\ At(Key) => Was(Key, Answer(slot[Top]))
            /\ ~At(Key) => Was(Key, None)
        BY <1>1, <3>1, WasAtTop
      <3> QED
        BY <3>1, <3>2 DEF Answer
    <2> QED
      BY <2>1, <2>2
  <1>3. \A d : ~Has(slot, Key, d)
    <2>1. ASSUME NEW d, Has(slot, Key, d) PROVE FALSE
      <3>1. Has(slot, Key, None)
        BY <1>2, <2>1 DEF Was
      <3> QED
        BY <3>1, DataAssumption DEF Has, Held, Typed, IsValue
    <2> QED
      BY <2>1
  <1>4. Loses(slot, slot, {Key})
    BY <1>3 DEF Loses
  <1>5. \A x \in DOMAIN slot : slot[x].value # None => IsValue(slot[x].value)
    BY DEF Held, Typed
  <1> QED
    BY <1>1, <1>2, <1>4, <1>5, RemoveHolds

(* The key is the top node's, which has a value. *)
LEMMA OnValue ==
  ASSUME TrieInv, NEW cond, RemovesAt(cond)
  PROVE  /\ OnNode("remove") /\ req # None /\ req.op = "remove" /\ pc = "descend"
         /\ frames # << >> /\ Top \in DOMAIN slot /\ Top \in Seq(Index)
         /\ IsTree(slot) /\ IsTrie(slot) /\ slot # EmptyTrie
         /\ Full(slot, Top) = Key /\ slot[Top].value # None
         /\ Was(Key, slot[Top].value.data)
  <1>1. OnNode("remove") /\ Full(slot, Top) = Key /\ slot[Top].value # None
    BY DEF RemovesAt, At
  <1>2. /\ req # None /\ req.op = "remove" /\ pc = "descend" /\ frames # << >>
    BY <1>1, OnPath
  <1>3. /\ Top \in DOMAIN slot /\ Top \in Seq(Index) /\ IsTree(slot) /\ IsTrie(slot)
        /\ slot # EmptyTrie
    BY <1>2, TopIsInline
  <1>4. Has(slot, Key, slot[Top].value.data)
    BY <1>1, <1>3 DEF Has
  <1> QED
    BY <1>1, <1>2, <1>3, <1>4 DEF Was

LEMMA ClearValueHolds == IInv /\ Held /\ ClearValue => Held' /\ Effect
  <1> SUFFICES ASSUME IInv, Held, ClearValue PROVE Held' /\ Effect
    OBVIOUS
  <1> DEFINE s == Top
             u == ValuePut(slot, s, None)
             result == slot[Top].value.data
  <1>1. /\ TrieInv /\ RemovesAt(Cardinality(Kids(slot, Top)) >= 2) /\ Change(u, result)
    BY DEF IInv, ClearValue, ValuePut
  <1>2. /\ req # None /\ req.op = "remove" /\ s \in DOMAIN slot
        /\ IsTree(slot) /\ IsTrie(slot) /\ slot # EmptyTrie
        /\ Full(slot, s) = Key /\ Was(Key, result)
    BY <1>1, OnValue
  <1> HIDE DEF s, result
  <1>3. /\ SameShape(slot, u) /\ u[s].value = None
        /\ \A x \in DOMAIN slot : x # s => u[x].value = slot[x].value
    BY <1>2, ValueSet
  <1> HIDE DEF u
  <1>4. DOMAIN u = DOMAIN slot /\ \A x \in DOMAIN slot : Full(u, x) = Full(slot, x)
    BY <1>2, <1>3, ShapeKept DEF SameShape
  <1>5. Loses(slot, u, {Key})
    <2>1. Loses(slot, u, {Full(slot, s)})
      BY <1>2, <1>3, <1>4, ValueClearLoses
    <2> QED
      BY <1>2, <2>1
  <1>6. \A x \in DOMAIN u : u[x].value # None => IsValue(u[x].value)
    BY <1>3, <1>4 DEF Held, Typed
  <1> QED
    BY <1>1, <1>2, <1>5, <1>6, RemoveHolds

LEMMA ClearAndMergeHolds == IInv /\ Held /\ ClearAndMerge => Held' /\ Effect
  <1> SUFFICES ASSUME IInv, Held, ClearAndMerge PROVE Held' /\ Effect
    OBVIOUS
  <1> DEFINE c == OnlyChild(slot, Top)
             u == MergeOnlyChild(slot, Top)
             result == slot[Top].value.data
  <1>1. TrieInv /\ RemovesAt(Cardinality(Kids(slot, Top)) = 1)
    BY DEF IInv, ClearAndMerge
  <1>2. /\ req # None /\ req.op = "remove" /\ Top \in DOMAIN slot
        /\ IsTree(slot) /\ Full(slot, Top) = Key /\ Was(Key, result)
    BY <1>1, OnValue
  <1>3. PICK i \in Index : Kids(slot, Top) = {i}
    <2>1. Kids(slot, Top) \in SUBSET Index /\ Cardinality(Kids(slot, Top)) = 1
      BY <1>1 DEF Kids, RemovesAt
    <2> QED
      BY <2>1, OneKid
  <1>4. IsMerged(slot, Top, i, u)
    BY <1>2, <1>3, ChildMerged
  <1> HIDE DEF u, result
  <1>5. /\ c \in DOMAIN slot /\ DOMAIN u = DOMAIN slot \ {c}
        /\ u[Top].value = slot[c].value
        /\ \A x \in DOMAIN slot \ {Top, c} : u[x] = slot[x]
    BY <1>4 DEF IsMerged
  <1>6. CASE MaterializeFails(c)
    BY <1>2, <1>6, FailHolds DEF MaterializeFails
  <1>7. CASE slot' = Materialized(slot, c) /\ UNCHANGED control
    BY <1>2, <1>5, <1>7, ReadInPlaceHolds DEF control
  <1>8. CASE Change(u, result)
    <2>1. Loses(slot, u, {Key})
      <3>1. Loses(slot, u, {Full(slot, Top)})
        BY <1>2, <1>4, MergedLoses
      <3> QED
        BY <1>2, <3>1
    <2>2. \A x \in DOMAIN u : u[x].value # None => IsValue(u[x].value)
      BY <1>5 DEF Held, Typed
    <2> QED
      BY <1>2, <1>8, <2>1, <2>2, RemoveHolds
  <1> QED
    BY <1>6, <1>7, <1>8 DEF ClearAndMerge, u, result

LEMMA RemoveLeafHolds == IInv /\ Held /\ RemoveLeaf => Held' /\ Effect
  <1> SUFFICES ASSUME IInv, Held, RemoveLeaf PROVE Held' /\ Effect
    OBVIOUS
  <1>1. /\ TrieInv /\ RemovesAt(Kids(slot, Top) = {}) /\ Kids(slot, Top) = {}
        /\ pc' = "unwind" /\ UNCHANGED <<slot, req, frames, walk, out>>
    BY DEF IInv, RemoveLeaf, RemovesAt
  <1>2. /\ req # None /\ req.op = "remove" /\ Top \in DOMAIN slot /\ Top \in Seq(Index)
        /\ IsTree(slot) /\ Full(slot, Top) = Key /\ slot[Top].value # None
    BY <1>1, OnValue
  <1>3. \A x \in DOMAIN slot : IsPrefix(Top, x) <=> x = Top
    BY <1>1, <1>2, BelowAChild, PrefixOrder
  <1>4. \A x \in DOMAIN slot : Full(slot, x) = Key <=> x = Top
    BY <1>2, FullIsUnique
  <1>5. Top' = Top /\ Key' = Key /\ Going' = {Key}
    BY <1>1, <1>2 DEF Top, Key, Going
  <1>6. Leaves'
    BY <1>1, <1>3, <1>4, <1>5 DEF Leaves
  <1>7. ThinWay(slot, Top, Top)
    BY <1>2, <1>3 DEF ThinWay
  <1>8. Recoverable'
    BY <1>1, <1>2, <1>5, <1>7 DEF Recoverable
  <1>9. Typed' /\ Loops' /\ Keeps(slot, slot')
    BY <1>1, <1>2 DEF Held, Typed, Loops, Keeps
  <1> QED
    BY <1>1, <1>6, <1>8, <1>9 DEF Held, Effect, Quiet

-----------------------------------------------------------------------------
(* remove_prefix and materialize_subtree                                   *)

(* A key below the prefix lies below the node where the descent stops, if  *)
(* the prefix ends there; otherwise there is none.                         *)
LEMMA PrefixStopsHere ==
  ASSUME TrieInv, OnNode("remove_prefix"), NEW x \in DOMAIN slot,
         IsPrefix(Key, Full(slot, x))
  PROVE  /\ IsPrefix(Top, x)
         /\ ~HasNext => IsPrefix(Key, Full(slot, Top))
  <1> DEFINE k == Full(slot, x)
             f == Full(slot, Top)
  <1>1. frames # << >> /\ IsPrefix(Top, Key) /\ Key \in Seq(Index)
    BY OnPath
  <1>2. /\ IsTree(slot) /\ Top \in DOMAIN slot /\ Top \in Seq(Index)
        /\ f \in Seq(Index) /\ Len(f) \in Nat
    BY <1>1, TopIsInline
  <1>3. k \in Seq(Index) /\ x \in Seq(Index) /\ IsPrefix(Key, k)
    BY <1>2, FullExtends DEF IsTree
  <1>4. IsPrefix(Top, k)
    <2> HIDE DEF k
    <2> QED
      BY <1>1, <1>2, <1>3, PrefixTransitive
  <1>5. IsPrefix(Top, x)
    BY <1>2, <1>4, OnTheWay, PrefixOrder
  <1>6. ASSUME ~IsPrefix(Key, f) PROVE HasNext
    <2>1. x # Top /\ k # f
      BY <1>6
    <2>2. IsPrefix(f, k) /\ k[Len(f) + 1] \in Kids(slot, Top)
      BY <1>2, <1>5, <2>1, KeyLeadsDown
    <2> HIDE DEF k, f
    <2>3. Len(f) < Len(Key) /\ IsPrefix(f, Key)
      <3>1. Len(Key) \in Nat /\ Len(f) \in Nat
        BY <1>1, <1>2, PrefixOrder
      <3>2. ~(Len(Key) <= Len(f))
        BY <1>1, <1>2, <1>3, <1>6, <2>2, PrefixesAgree
      <3>3. Len(f) < Len(Key)
        BY <3>1, <3>2
      <3> QED
        BY <1>1, <1>2, <1>3, <2>2, <3>1, <3>3, PrefixesAgree
    <2>4. Key[Len(f) + 1] = k[Len(f) + 1]
      <3>1. Len(Key) \in Nat /\ \A n \in 1 .. Len(Key) : Key[n] = k[n]
        BY <1>1, <1>3, PrefixByIndex, PrefixOrder
      <3> QED
        BY <1>2, <2>3, <3>1
    <2>5. f # Key
      BY <2>3, <1>2
    <2> QED
      BY <2>2, <2>3, <2>4, <2>5 DEF HasNext, KeyContinues, KeyNext, IsStrictPrefix, f
  <1> QED
    BY <1>5, <1>6

LEMMA PrefixFindsNothingHolds == IInv /\ Held /\ PrefixFindsNothing => Held' /\ Effect
  <1> SUFFICES ASSUME IInv, Held, PrefixFindsNothing PROVE Held' /\ Effect
    OBVIOUS
  <1>1. /\ TrieInv /\ req # None /\ req.op = "remove_prefix"
        /\ slot' = slot /\ req' = None /\ out' = Done /\ Return(Done)
    BY DEF IInv, PrefixFindsNothing, Descending, Change, Return
  <1>2. \A x \in DOMAIN slot : ~IsPrefix(Key, Full(slot, x))
    <2>1. CASE slot = EmptyTrie
      BY <2>1 DEF EmptyTrie
    <2>2. CASE slot # EmptyTrie
      <3>1. OnNode("remove_prefix") /\ ~HasNext /\ ~IsPrefix(Key, Full(slot, Top))
        BY <2>2 DEF PrefixFindsNothing, OnNode
      <3> QED
        BY <1>1, <3>1, PrefixStopsHere
    <2> QED
      BY <2>1, <2>2
  <1> DEFINE K == {k \in Seq(Index) : IsPrefix(Key, k)}
  <1>3. Loses(slot, slot', K)
    BY <1>1, <1>2 DEF Loses, Has
  <1>4. Typed'
    BY <1>1 DEF Held, Typed
  <1> QED
    BY <1>1, <1>3, <1>4, ReturnHolds DEF Effect, Finishes, Outcome

LEMMA PrefixFoundHolds == IInv /\ Held /\ PrefixFound => Held' /\ Effect
  <1> SUFFICES ASSUME IInv, Held, PrefixFound PROVE Held' /\ Effect
    OBVIOUS
  <1>1. /\ TrieInv /\ OnNode("remove_prefix") /\ IsPrefix(Key, Full(slot, Top))
        /\ pc' = "collect" /\ UNCHANGED <<slot, req, frames, out>>
    BY DEF IInv, PrefixFound
  <1>2. /\ req # None /\ req.op = "remove_prefix" /\ frames # << >> /\ Key \in Seq(Index)
    BY <1>1, OnPath
  <1>3. IsTree(slot) /\ Top \in DOMAIN slot
    BY <1>1, <1>2, TopIsInline
  <1>4. Top' = Top /\ Key' = Key /\ Going' = {k \in Seq(Index) : IsPrefix(Key, k)}
    BY <1>1, <1>2 DEF Top, Key, Going
  <1>5. ASSUME NEW x \in DOMAIN slot
        PROVE  IsPrefix(Top, x) <=> Full(slot, x) \in Going'
    <2>1. /\ x \in Seq(Index) /\ Full(slot, x) \in Seq(Index)
          /\ Full(slot, Top) \in Seq(Index) /\ IsPrefix(x, Full(slot, x))
      BY <1>3, FullExtends DEF IsTree
    <2>2. IsPrefix(Key, Full(slot, x)) => IsPrefix(Top, x)
      BY <1>1, PrefixStopsHere
    <2>3. IsPrefix(Top, x) /\ x # Top => IsPrefix(Full(slot, Top), Full(slot, x))
      BY <1>3, <2>1, Below, PrefixTransitive
    <2>4. IsPrefix(Top, x) => IsPrefix(Key, Full(slot, x))
      BY <1>1, <1>2, <2>1, <2>3, PrefixTransitive
    <2> QED
      BY <1>4, <2>1, <2>2, <2>4
  <1>6. Leaves'
    BY <1>1, <1>4, <1>5 DEF Leaves
  <1>7. Typed' /\ Loops' /\ Recoverable' /\ Keeps(slot, slot')
    BY <1>1, <1>2 DEF Held, Typed, Loops, Recoverable, Keeps
  <1> QED
    BY <1>1, <1>6, <1>7 DEF Held, Effect, Quiet

LEMMA StartMaterializeHolds == IInv /\ Held /\ StartMaterialize => Held' /\ Effect
  <1> SUFFICES ASSUME Held, StartMaterialize PROVE Held' /\ Effect
    OBVIOUS
  <1>1. /\ req.op = "materialize" /\ pc' = "collect"
        /\ UNCHANGED <<slot, req, frames, out>>
    BY DEF StartMaterialize, Descending
  <1>2. Typed' /\ Loops' /\ Leaves' /\ Recoverable' /\ Keeps(slot, slot')
    BY <1>1 DEF Held, Typed, Loops, Leaves, Recoverable, Keeps
  <1> QED
    BY <1>1, <1>2 DEF Held, Effect, Quiet

LEMMA ChildToCollect ==
  ASSUME TrieInv, CollectChild
  PROVE  Child(slot, Last(walk).slot, Min(Last(walk).left)) \in DOMAIN slot
  <1> DEFINE top == Last(walk)
             i   == Min(top.left)
  <1>1. pc = "collect" /\ top.left # {}
    BY DEF CollectChild
  <1>2. top.left \in SUBSET Index /\ top.left \subseteq Kids(slot, top.slot)
    BY <1>1, CollectTop
  <1>3. i \in top.left
    <2> HIDE DEF top
    <2> QED
      BY <1>1, <1>2, LowestLeft
  <1>4. i \in Kids(slot, top.slot)
    BY <1>2, <1>3
  <1> HIDE DEF i, top
  <1>5. Child(slot, top.slot, i) \in DOMAIN slot
    BY <1>4 DEF Kids
  <1> QED
    BY <1>5 DEF i, top

LEMMA CollectChildHolds == IInv /\ Held /\ CollectChild => Held' /\ Effect
  <1> SUFFICES ASSUME IInv, Held, CollectChild PROVE Held' /\ Effect
    OBVIOUS
  <1> DEFINE c == Child(slot, Last(walk).slot, Min(Last(walk).left))
  <1>1. TrieInv /\ pc = "collect" /\ IsTree(slot) /\ req # None
    BY DEF IInv, TrieInv, Hung, Control, CollectChild
  <1>2. c \in DOMAIN slot
    BY <1>1, ChildToCollect
  <1>3. CASE MaterializeFails(c)
    BY <1>1, <1>3, FailHolds DEF MaterializeFails
  <1>4. CASE slot' = Materialized(slot, c) /\ UNCHANGED <<req, pc, frames, out>>
    <2> HIDE DEF c
    <2> QED
      BY <1>1, <1>2, <1>4, ReadInPlaceHolds
  <1> QED
    BY <1>3, <1>4 DEF CollectChild

LEMMA CollectUpHolds == IInv /\ Held /\ CollectUp => Held' /\ Effect
  <1> SUFFICES ASSUME IInv, Held, CollectUp PROVE Held' /\ Effect
    OBVIOUS
  <1>1. pc = "collect" /\ slot' = slot /\ req # None /\ req.op \in {"remove_prefix", "materialize"}
    BY DEF CollectUp, IInv, TrieInv, Control, Held, Loops
  <1>2. Keeps(slot, slot') /\ Typed'
    BY <1>1 DEF Keeps, Held, Typed
  <1>3. CASE UNCHANGED <<req, pc, frames, out>>
    <2>1. Top' = Top /\ Key' = Key /\ Going' = Going
      BY <1>3 DEF Top, Key, Going
    <2>2. Loops' /\ Leaves' /\ Recoverable'
      BY <1>1, <1>3, <2>1 DEF Held, Loops, Leaves, Recoverable
    <2> QED
      BY <1>2, <1>3, <2>2 DEF Held, Effect, Quiet
  <1>4. CASE req.op = "materialize" /\ Return(Done)
    <2>1. req' = None /\ out' = Done
      BY <1>4 DEF Return
    <2> QED
      BY <1>1, <1>2, <1>4, <2>1, ReturnHolds DEF Effect, Finishes, Outcome
  <1>5. CASE req.op # "materialize" /\ pc' = "unwind" /\ UNCHANGED <<req, frames, out>>
    <2>1. Top' = Top /\ Key' = Key /\ Going' = Going
      BY <1>5 DEF Top, Key, Going
    <2>2. Loops' /\ Leaves' /\ Recoverable'
      BY <1>1, <1>5, <2>1 DEF Held, Loops, Leaves, Recoverable
    <2> QED
      BY <1>2, <1>5, <2>2 DEF Held, Effect, Quiet
  <1> QED
    BY <1>3, <1>4, <1>5 DEF CollectUp

-----------------------------------------------------------------------------
(* The unwinding of a removal                                              *)

(* What the call returns is what leaves at its key. *)
LeftAt(result) == IF req.op = "remove" THEN Was(Key, result) ELSE result = Done

LEMMA LeavingIsWhatWas ==
  ASSUME TrieInv, Held, Unwinding
  PROVE  /\ req.op \in {"remove", "remove_prefix"}
         /\ LeftAt(Leaving(Top))
  <1>1. /\ IsTree(slot) /\ Top \in DOMAIN slot /\ pc = "unwind"
        /\ req.op \in {"remove", "remove_prefix"}
    BY OnUnwind DEF Held, Loops
  <1>2. CASE req.op = "remove"
    <2>1. PICK z \in DOMAIN slot : Full(slot, z) = Key /\ ThinWay(slot, Top, z)
      BY <1>1, <1>2 DEF Held, Recoverable
    <2>2. Recover(slot, Top) = slot[z].value.data
      BY <1>1, <2>1, RecoverFinds
    <2>3. slot[z].value # None
      BY <2>1 DEF ThinWay
    <2>4. Has(slot, Key, Leaving(Top))
      BY <1>2, <2>1, <2>2, <2>3 DEF Has, Leaving
    <2> QED
      BY <1>1, <1>2, <2>4 DEF Was, LeftAt
  <1>3. CASE req.op # "remove"
    BY <1>1, <1>3 DEF Leaving, LeftAt
  <1> QED
    BY <1>1, <1>2, <1>3

LEMMA RemovalHolds ==
  ASSUME Unwinding, req.op \in {"remove", "remove_prefix"},
         NEW u, NEW result, LeftAt(result), Change(u, result),
         Loses(slot, u, Going),
         \A x \in DOMAIN u : u[x].value # None => IsValue(u[x].value)
  PROVE  Held' /\ Effect
  <1>1. slot' = u /\ req # None /\ req' = None /\ out' = result /\ Return(result)
    BY DEF Change, Return, Unwinding
  <1>2. Typed'
    BY <1>1 DEF Typed
  <1>3. Outcome
    BY <1>1 DEF Outcome, LeftAt, Going
  <1> QED
    BY <1>1, <1>2, <1>3, ReturnHolds DEF Effect, Finishes

LEMMA UnwindRootHolds == IInv /\ Held /\ UnwindRoot => Held' /\ Effect
  <1> SUFFICES ASSUME IInv, Held, UnwindRoot PROVE Held' /\ Effect
    OBVIOUS
  <1>1. /\ TrieInv /\ Unwinding /\ Len(frames) = 1 /\ Change(EmptyTrie, Leaving(Root))
    BY DEF IInv, UnwindRoot
  <1>2. frames \in Seq(DOMAIN slot) /\ IsTrie(slot) /\ pc = "unwind"
    BY <1>1, OnUnwind
  <1>3. 1 \in DOMAIN frames /\ Top = frames[1]
    BY <1>1, <1>2 DEF Top, Last
  <1>4. Top = Root
    BY <1>1, <1>3 DEF TrieInv, Descent
  <1>5. req.op \in {"remove", "remove_prefix"} /\ LeftAt(Leaving(Root))
    BY <1>1, <1>4, LeavingIsWhatWas
  <1>6. ASSUME NEW x \in DOMAIN slot, slot[x].value # None PROVE Full(slot, x) \in Going
    <2>1. IsPrefix(Top, x)
      BY <1>2, <1>4, PrefixOrder DEF IsTrie, Root
    <2> QED
      BY <1>2, <1>5, <1>6, <2>1 DEF Held, Leaves
  <1>7. Loses(slot, EmptyTrie, Going)
    BY <1>6 DEF Loses, Has, EmptyTrie
  <1>8. \A x \in DOMAIN EmptyTrie : EmptyTrie[x].value # None => IsValue(EmptyTrie[x].value)
    BY DEF EmptyTrie
  <1> QED
    BY <1>1, <1>5, <1>7, <1>8, RemovalHolds

LEMMA CutAtTop ==
  ASSUME TrieInv, Held, Unwinding, Len(frames) > 1
  PROVE  LET u == Detached(slot, Top)
         IN  /\ Loses(slot, u, Going)
             /\ DOMAIN u \subseteq DOMAIN slot
             /\ \A x \in DOMAIN u : u[x] = slot[x]
             /\ \A x \in DOMAIN u : u[x].value # None => IsValue(u[x].value)
  <1> DEFINE u == Detached(slot, Top)
             d == Top
  <1>1. /\ IsCut(slot, d, u) /\ DOMAIN u \subseteq DOMAIN slot
        /\ \A x \in DOMAIN u : u[x] = slot[x]
    BY TopDetached
  <1> HIDE DEF u
  <1>2. \A x \in DOMAIN slot :
          slot[x].value # None => (IsPrefix(d, x) <=> Full(slot, x) \in Going)
    BY LeavingIsWhatWas DEF Held, Leaves, Unwinding
  <1> HIDE DEF d
  <1>3. Loses(slot, u, Going)
    BY <1>1, <1>2, CutLoses
  <1>4. \A x \in DOMAIN u : u[x].value # None => IsValue(u[x].value)
    BY <1>1 DEF Held, Typed
  <1> QED
    BY <1>1, <1>3, <1>4 DEF u

LEMMA UnwindDetachHolds == IInv /\ Held /\ UnwindDetach => Held' /\ Effect
  <1> SUFFICES ASSUME IInv, Held, UnwindDetach PROVE Held' /\ Effect
    OBVIOUS
  <1> DEFINE u == Detached(slot, Top)
             result == Leaving(Top)
  <1>1. TrieInv /\ Unwinding /\ Len(frames) > 1 /\ Change(u, result)
    BY DEF IInv, UnwindDetach, UnwindsInto
  <1>2. req.op \in {"remove", "remove_prefix"} /\ LeftAt(result)
    BY <1>1, LeavingIsWhatWas
  <1>3. /\ Loses(slot, u, Going)
        /\ \A x \in DOMAIN u : u[x].value # None => IsValue(u[x].value)
    BY <1>1, CutAtTop
  <1> HIDE DEF u, result
  <1> QED
    BY <1>1, <1>2, <1>3, RemovalHolds

LEMMA UnwindMergeHolds == IInv /\ Held /\ UnwindMerge => Held' /\ Effect
  <1> SUFFICES ASSUME IInv, Held, UnwindMerge PROVE Held' /\ Effect
    OBVIOUS
  <1> DEFINE c == Survivor
             p == Parent
             u == Detached(slot, Top)
             v == MergeOnlyChild(u, p)
             result == Leaving(Top)
  <1>1. /\ TrieInv /\ Unwinding /\ Len(frames) > 1 /\ Cardinality(Kids(slot, p)) = 2
        /\ slot[p].value = None /\ IsTree(slot) /\ req # None
    BY DEF IInv, TrieInv, Hung, UnwindMerge, UnwindsInto, Thin, Unwinding
  <1>2. PICK k \in Kids(slot, p) :
          /\ c = Child(slot, p, k) /\ c = Child(u, p, k) /\ p \in DOMAIN u
          /\ IsMerged(u, p, k, v)
    BY <1>1, SurvivorMerges
  <1>3. c \in DOMAIN slot
    BY <1>2 DEF Kids
  <1>4. CASE MaterializeFails(c)
    BY <1>1, <1>4, FailHolds DEF MaterializeFails
  <1>5. CASE slot' = Materialized(slot, c) /\ UNCHANGED control
    BY <1>1, <1>3, <1>5, ReadInPlaceHolds DEF control
  <1>6. CASE Change(v, result)
    <2>1. req.op \in {"remove", "remove_prefix"} /\ LeftAt(result)
      BY <1>1, LeavingIsWhatWas
    <2>2. /\ Loses(slot, u, Going) /\ IsTree(u)
          /\ \A x \in DOMAIN u : u[x] = slot[x]
          /\ \A x \in DOMAIN u : u[x].value # None => IsValue(u[x].value)
      BY <1>1, CutAtTop, TopDetached
    <2> HIDE DEF u, v, c, p, result
    <2>3. u[p].value = None
      BY <1>1, <1>2, <2>2
    <2>4. Keeps(u, v)
      BY <1>2, <2>2, <2>3, MergedLoses
    <2>5. Loses(slot, v, Going)
      BY <2>2, <2>4 DEF Loses, Keeps
    <2>6. /\ c \in DOMAIN u /\ DOMAIN v = DOMAIN u \ {c} /\ v[p].value = u[c].value
          /\ \A x \in DOMAIN u \ {p, c} : v[x] = u[x]
      BY <1>2 DEF IsMerged
    <2>7. \A x \in DOMAIN v : v[x].value # None => IsValue(v[x].value)
      BY <2>2, <2>6
    <2> QED
      BY <1>1, <1>6, <2>1, <2>5, <2>7, RemovalHolds
  <1> QED
    BY <1>4, <1>5, <1>6 DEF UnwindMerge, Survivor

(* With the parent leave the same keys, and the way to the key is as thin. *)
LEMMA UnwindPopHolds == IInv /\ Held /\ UnwindPop => Held' /\ Effect
  <1> SUFFICES ASSUME IInv, Held, UnwindPop PROVE Held' /\ Effect
    OBVIOUS
  <1> DEFINE p == Parent
             d == Top
  <1>1. /\ TrieInv /\ Unwinding /\ Len(frames) > 1 /\ Cardinality(Kids(slot, p)) = 1
        /\ slot[p].value = None
        /\ frames' = Front(frames) /\ UNCHANGED <<slot, req, pc, walk, out>>
    BY DEF IInv, UnwindPop, UnwindsInto, Thin
  <1>2. /\ IsTree(slot) /\ frames \in Seq(DOMAIN slot) /\ frames # << >> /\ pc = "unwind"
        /\ Len(frames) \in Nat \ {0}
    BY <1>1, OnUnwind
  <1>3. p \in DOMAIN slot /\ d = Child(slot, p, Last(d)) /\ Last(d) \in Kids(slot, p)
    BY <1>1, ParentIsInline
  <1>4. PICK i \in Index : Kids(slot, p) = {i}
    <2>1. Kids(slot, p) \in SUBSET Index
      BY DEF Kids
    <2> QED
      BY <1>1, <2>1, OneKid
  <1>5. Top' = p
    <2>1. /\ Len(frames') = Len(frames) - 1
          /\ \A n \in 1 .. Len(frames) - 1 : frames'[n] = frames[n]
      BY <1>1, <1>2, FrontType
    <2>2. Top' = frames'[Len(frames) - 1] /\ Len(frames) - 1 \in 1 .. Len(frames) - 1
      BY <1>1, <1>2, <2>1 DEF Top, Last
    <2> QED
      BY <2>1, <2>2 DEF Parent
  <1>6. Key' = Key /\ Going' = Going
    BY <1>1 DEF Key, Going
  <1> HIDE DEF p, d
  <1>7. i = Last(d)
    BY <1>3, <1>4
  <1>8. ASSUME NEW x \in DOMAIN slot, slot[x].value # None
        PROVE  IsPrefix(p, x) <=> IsPrefix(d, x)
    <2>1. x # p
      BY <1>1, <1>8
    <2>2. IsPrefix(p, x) => IsPrefix(d, x)
      BY <1>2, <1>3, <1>4, <1>7, <2>1, BelowAChild
    <2>3. IsPrefix(d, x) => IsPrefix(p, x)
      BY <1>2, <1>3, BelowChild
    <2> QED
      BY <2>2, <2>3
  <1>9. Leaves'
    BY <1>1, <1>2, <1>5, <1>6, <1>8 DEF Held, Leaves, d
  <1>10. Recoverable'
    <2> SUFFICES ASSUME req.op = "remove"
                 PROVE  \E z \in DOMAIN slot : Full(slot, z) = Key /\ ThinWay(slot, p, z)
      BY <1>1, <1>5, <1>6 DEF Recoverable
    <2>1. PICK z \in DOMAIN slot : Full(slot, z) = Key /\ ThinWay(slot, d, z)
      BY <1>2 DEF Held, Recoverable, d
    <2>2. OnlyChild(slot, p) = d
      BY <1>3, <1>4, <1>7 DEF OnlyChild
    <2>3. ThinEnds(slot, p) = ThinEnds(slot, d)
      BY <1>1, <1>2, <1>3, <2>2, OnlyWayDown
    <2>4. z \in ThinEnds(slot, p)
      BY <2>1, <2>3 DEF ThinEnds
    <2> QED
      BY <2>1, <2>4 DEF ThinEnds
  <1>11. Typed' /\ Loops' /\ Keeps(slot, slot')
    BY <1>1 DEF Held, Typed, Loops, Keeps
  <1> QED
    BY <1>1, <1>9, <1>10, <1>11 DEF Held, Effect, Quiet

-----------------------------------------------------------------------------
(* The hash walk                                                           *)

LEMMA WalkHolds ==
  ASSUME Hashing, Held, DOMAIN slot' = DOMAIN slot,
         \A x \in DOMAIN slot :
           /\ Full(slot', x) = Full(slot, x)
           /\ slot'[x].value = None <=> slot[x].value = None
           /\ slot[x].value # None =>
                IsValue(slot'[x].value) /\ slot'[x].value.data = slot[x].value.data
  PROVE  /\ UNCHANGED <<req, pc, out>> => Held' /\ Effect
         /\ TrieInv /\ Return(Done) => Held' /\ Effect
  <1>1. Keeps(slot, slot')
    BY SameValuesKeep
  <1>2. Typed' /\ pc = "hash"
    BY DEF Typed, Hashing
  <1>3. ASSUME UNCHANGED <<req, pc, out>> PROVE Held' /\ Effect
    BY <1>1, <1>2, <1>3 DEF Held, Loops, Leaves, Recoverable, Effect, Quiet
  <1>4. ASSUME TrieInv, Return(Done) PROVE Held' /\ Effect
    <2>1. req # None /\ req.op = "hash" /\ req' = None /\ out' = Done
      BY <1>4, OnHash DEF Return
    <2> QED
      BY <1>1, <1>2, <1>4, <2>1, ReturnHolds DEF Effect, Finishes, Outcome
  <1> QED
    BY <1>3, <1>4

LEMMA HashPutHolds ==
  ASSUME TrieInv, Hashing, Held, NEW c \in DOMAIN slot, NEW h,
         slot' = HashPut(slot, c, h), UNCHANGED <<req, pc, out>>
  PROVE  Held' /\ Effect
  <1> DEFINE u == HashPut(slot, c, h)
  <1>1. IsTree(slot) /\ IsTrie(slot) /\ slot # EmptyTrie
    BY OnHash
  <1>2. SameShape(slot, u) /\ \A x \in DOMAIN slot : u[x].value = slot[x].value
    BY <1>1, HashSet
  <1>3. slot' = u
    OBVIOUS
  <1> HIDE DEF u
  <1>4. DOMAIN u = DOMAIN slot /\ \A x \in DOMAIN slot : Full(u, x) = Full(slot, x)
    BY <1>1, <1>2, ShapeKept DEF SameShape
  <1>5. \A x \in DOMAIN slot : slot[x].value # None => IsValue(slot[x].value)
    BY DEF Held, Typed
  <1> QED
    BY <1>2, <1>3, <1>4, <1>5, WalkHolds

LEMMA LoneSealedKid ==
  ASSUME NEW b, NEW s, RehashesLone(b, s)
  PROVE  Child(slot, s, CHOOSE i \in SealedKids(s) : TRUE) \in DOMAIN slot
  <1> DEFINE i == CHOOSE i \in SealedKids(s) : TRUE
  <1>1. SealedKids(s) \in SUBSET Index /\ Cardinality(SealedKids(s)) = 1
    BY DEF SealedKids, Kids, RehashesLone
  <1>2. PICK k \in Index : SealedKids(s) = {k}
    BY <1>1, OneKid
  <1>3. i \in SealedKids(s)
    BY <1>2
  <1> HIDE DEF i
  <1>4. Child(slot, s, i) \in DOMAIN slot
    BY <1>3 DEF SealedKids, Kids
  <1> QED
    BY <1>4 DEF i

LEMMA EnterHolds ==
  ASSUME TrieInv, Hashing, Held, NEW s \in DOMAIN slot, NEW b, NEW siblings, NEW w,
         Enter(s, b, siblings, w)
  PROVE  Held' /\ Effect
  <1> DEFINE i == CHOOSE i \in SealedKids(s) : TRUE
             c == Child(slot, s, i)
             h == HashNode(slot, c, Append(b \o slot[s].partial, i),
                           Cardinality(Kids(slot, s)))
  <1>1. RehashesLone(b, s) => c \in DOMAIN slot
    BY LoneSealedKid
  <1> HIDE DEF i, c, h
  <1>2. CASE slot' = slot /\ UNCHANGED <<req, pc, out>>
    BY <1>2, WalkHolds DEF Held, Typed
  <1>3. CASE /\ RehashesLone(b, s) /\ slot' = [slot EXCEPT ![c].hash = h]
             /\ UNCHANGED <<req, pc, out>>
    <2>1. slot' = HashPut(slot, c, h)
      BY <1>3 DEF HashPut
    <2> QED
      BY <1>1, <1>3, <2>1, HashPutHolds
  <1>4. CASE RehashesLone(b, s) /\ slot' = Materialized(slot, c) /\ UNCHANGED <<req, pc, out>>
    <2>1. slot' = HashPut(slot, c, None)
      BY <1>4 DEF Materialized, HashPut
    <2> QED
      BY <1>1, <1>4, <2>1, HashPutHolds
  <1>5. CASE Fail
    BY <1>5, FailHolds DEF Hashing
  <1> QED
    BY <1>2, <1>3, <1>4, <1>5 DEF Enter, i, c, h

LEMMA HashRootHolds == IInv /\ Held /\ HashRoot => Held' /\ Effect
  <1> SUFFICES ASSUME IInv, Held, HashRoot PROVE Held' /\ Effect
    OBVIOUS
  <1>1. TrieInv /\ Hashing /\ Enter(Root, << >>, 0, << >>)
    BY DEF IInv, HashRoot
  <1>2. Root \in DOMAIN slot
    BY <1>1, OnHash
  <1> QED
    BY <1>1, <1>2, EnterHolds

LEMMA HashChildHolds == IInv /\ Held /\ HashChild => Held' /\ Effect
  BY ChildEntered, EnterHolds

(* `update_value` leaves a value's data as they are. *)
LEMMA UpdatedValue ==
  ASSUME NoneIsNoValue, IsTree(slot), Typed, NEW s \in DOMAIN slot, NEW x \in DOMAIN slot
  PROVE  LET v == Updated(slot, s)[x].value
         IN  /\ v = None <=> slot[x].value = None
             /\ slot[x].value # None => IsValue(v) /\ v.data = slot[x].value.data
  <1> DEFINE v  == Updated(slot, s)[x].value
             v0 == slot[s].value
             v1 == [v0 EXCEPT !.splice = ChildHashes(slot, s)]
             u  == ValuePut(slot, s, v1)
  <1>0. slot[x].value # None => IsValue(slot[x].value)
    BY DEF Typed
  <1>1. CASE x # s \/ v0 = None
    <2>1. v = slot[x].value
      BY <1>1, ValueUpdated DEF Updated
    <2> QED
      BY <1>0, <2>1
  <1>2. CASE x = s /\ v0 # None
    <2>1. v0 = [data |-> v0.data, splice |-> v0.splice] /\ v0.data \in Data
      BY <1>2 DEF Typed, IsValue
    <2> DEFINE k == ChildHashes(slot, s)
               v2 == [data |-> v0.data, splice |-> k]
    <2> HIDE DEF k
    <2>2. v1 = v2
      <3> HIDE DEF v0
      <3> QED
        BY <2>1 DEF k
    <2>3. Updated(slot, s) = u
      BY <1>2 DEF Updated, ValuePut
    <2> HIDE DEF v1
    <2>4. u[s].value = v1
      BY ValueSet DEF IsTree
    <2>5. v = v2
      <3> HIDE DEF u, v2
      <3> QED
        BY <1>2, <2>2, <2>3, <2>4
    <2>6. v2 # None /\ IsValue(v2) /\ v2.data = v0.data
      BY <2>1 DEF NoneIsNoValue, IsValue
    <2> HIDE DEF v, v0, v2
    <2>7. v0 = slot[x].value
      BY <1>2 DEF v0
    <2> QED
      BY <1>2, <2>5, <2>6, <2>7 DEF v
  <1> QED
    BY <1>1, <1>2

LEMMA HashFinishHolds ==
  NoneIsNoValue /\ IInv /\ Held /\ HashFinish => Held' /\ Effect
  <1> SUFFICES ASSUME NoneIsNoValue, IInv, Held, HashFinish PROVE Held' /\ Effect
    OBVIOUS
  <1> DEFINE d == Last(walk).slot
             b == SubSeq(buf, 1, Last(walk).lead)
             t == Updated(slot, d)
             h == HashNode(t, d, b, Last(walk).siblings)
             u == HashPut(t, d, h)
  <1>1. TrieInv /\ Hashing /\ walk # << >>
    BY DEF IInv, HashFinish
  <1>2. d \in DOMAIN slot
    BY <1>1, HashTop
  <1>3. IsTree(slot) /\ IsTrie(slot) /\ slot # EmptyTrie
    BY <1>1, OnHash
  <1>4. Change(t, Done) \/ (slot' = u /\ UNCHANGED <<req, pc, out>>)
    BY DEF HashFinish, HashPut
  <1> HIDE DEF d, h
  <1>5. SameShape(slot, t)
    BY <1>2, <1>3, ValueUpdated
  <1>6. ASSUME NEW x \in DOMAIN slot
        PROVE  /\ t[x].value = None <=> slot[x].value = None
               /\ slot[x].value # None =>
                    IsValue(t[x].value) /\ t[x].value.data = slot[x].value.data
    BY <1>2, <1>3, UpdatedValue DEF Held
  <1> HIDE DEF t
  <1>7. /\ DOMAIN t = DOMAIN slot /\ IsTree(t) /\ IsTrie(t)
        /\ \A x \in DOMAIN slot : Full(t, x) = Full(slot, x)
    BY <1>3, <1>5, ShapeKept DEF SameShape, IsTree
  <1>8. CASE Change(t, Done)
    <2>1. slot' = t /\ Return(Done)
      BY <1>8 DEF Change
    <2> QED
      BY <1>1, <1>6, <1>7, <2>1, WalkHolds
  <1>9. CASE slot' = u /\ UNCHANGED <<req, pc, out>>
    <2>1. SameShape(t, u) /\ \A x \in DOMAIN t : u[x].value = t[x].value
      BY <1>2, <1>7, HashSet
    <2> HIDE DEF u
    <2>2. SameShape(slot, u)
      BY <1>5, <2>1 DEF SameShape
    <2>3. DOMAIN u = DOMAIN slot /\ \A x \in DOMAIN slot : Full(u, x) = Full(slot, x)
      BY <1>3, <2>2, ShapeKept DEF SameShape
    <2> QED
      BY <1>1, <1>6, <1>7, <1>9, <2>1, <2>3, WalkHolds
  <1> QED
    BY <1>4, <1>8, <1>9

-----------------------------------------------------------------------------
(* All steps                                                               *)

LEMMA StepHolds == NoneIsNoValue /\ IInv /\ Held /\ Step => Held' /\ Effect
  <1> SUFFICES ASSUME NoneIsNoValue, IInv, Held, Step PROVE Held' /\ Effect
    OBVIOUS
  <1>1. CASE Descend
    BY <1>1, DescendHolds
  <1>2. CASE InsertStep
    BY <1>2, InsertIntoEmptyHolds, ReplaceHolds, InsertAboveHolds, InsertBelowHolds,
       InsertForkHolds DEF InsertStep
  <1>3. CASE RemoveStep
    BY <1>3, RemoveFindsNothingHolds, ClearValueHolds, ClearAndMergeHolds, RemoveLeafHolds
       DEF RemoveStep
  <1>4. CASE RemovePrefixStep
    BY <1>4, PrefixFindsNothingHolds, PrefixFoundHolds DEF RemovePrefixStep
  <1>5. CASE Collect
    BY <1>5, StartMaterializeHolds, CollectChildHolds, CollectUpHolds DEF Collect
  <1>6. CASE Unwind
    BY <1>6, UnwindRootHolds, UnwindDetachHolds, UnwindMergeHolds, UnwindPopHolds DEF Unwind
  <1>7. CASE HashStep
    BY <1>7, HashRootHolds, HashChildHolds, HashFinishHolds DEF HashStep
  <1> QED
    BY <1>1, <1>2, <1>3, <1>4, <1>5, <1>6, <1>7 DEF Step, Mutate

LEMMA NextHolds == NoneIsNoValue /\ IInv /\ Held /\ [Next]_vars => Held' /\ Effect
  <1> SUFFICES ASSUME NoneIsNoValue, IInv, Held, [Next]_vars PROVE Held' /\ Effect
    OBVIOUS
  <1>1. CASE \E r \in Abstract!Requests : Begin(r)
    BY <1>1, BeginHolds
  <1>2. CASE Step
    BY <1>2, StepHolds
  <1>3. CASE UNCHANGED vars
    <2>1. UNCHANGED <<slot, req, pc, frames, out>>
      BY <1>3 DEF vars
    <2>2. Held'
      BY <2>1 DEF Held, Typed, Loops, Leaves, Recoverable, Going, Top, Key
    <2>3. Quiet
      BY <2>1 DEF Quiet, Keeps
    <2> QED
      BY <2>2, <2>3 DEF Effect
  <1> QED
    BY <1>1, <1>2, <1>3 DEF Next

LEMMA StartHolds == Init => Held /\ IsMapOf(Contents, slot) /\ Abstract!Init
  <1> SUFFICES ASSUME Init PROVE Held /\ IsMapOf(Contents, slot) /\ Abstract!Init
    OBVIOUS
  <1>1. slot \in Starts /\ req = None /\ pc = "idle" /\ out = None
    BY DEF Init
  <1>2. \A s \in DOMAIN slot :
          slot[s].value # None => Full(slot, s) \in Keys /\ IsValue(slot[s].value)
    BY <1>1, StartsAssumption
  <1>3. Held
    BY <1>1, <1>2 DEF Held, Typed, Loops, Leaves, Recoverable
  <1>4. IInv
    BY InitHolds
  <1>5. IsMapOf(Contents, slot)
    BY <1>3, <1>4, ContentsAreMap DEF Held, IInv, TrieInv
  <1>6. ASSUME NEW k \in DOMAIN Contents PROVE k \in Keys /\ Contents[k] \in Data
    <2>1. Has(slot, k, Contents[k])
      BY <1>5 DEF IsMapOf
    <2>2. PICK x \in DOMAIN slot : /\ Full(slot, x) = k /\ slot[x].value # None
                                   /\ slot[x].value.data = Contents[k]
      BY <2>1 DEF Has
    <2> QED
      BY <1>2, <2>2 DEF IsValue
  <1>7. Contents \in [DOMAIN Contents -> Data] /\ DOMAIN Contents \in SUBSET Keys
    BY <1>5, <1>6 DEF IsMapOf
  <1> QED
    BY <1>1, <1>3, <1>5, <1>7 DEF Abstract!Init

(* Every call of the trie is one step of a key map or none, for every key  *)
(* set, arity and store (node.rs, ops.rs, hash.rs): get finds each key     *)
(* present by its path; insert, remove and remove_prefix change the keys   *)
(* they name and no other, and return the value that was there; a call     *)
(* that fails, hashes or materializes changes none.                        *)
THEOREM Refinement ==
  ASSUME NoneIsNoValue
  PROVE  Spec => RefinesMap
  <1> DEFINE Sound == IsMapOf(Contents, slot)
  <1>1. Init => IInv /\ Held /\ Abstract!Init
    BY InitHolds, StartHolds
  <1>2. IInv /\ Held /\ [Next]_vars => IInv' /\ Held' /\ Effect
    BY NextKeeps, NextHolds
  <1>3. IInv /\ Held => Sound
    BY ContentsAreMap DEF IInv, TrieInv, Held
  <1> HIDE DEF Sound
  <1>4. Spec => [](IInv /\ Held)
    BY <1>1, <1>2, PTL DEF Spec
  <1>5. Sound /\ Sound' /\ Effect => [Abstract!Next]_(Abstract!vars)
    BY EffectIsStep DEF Sound
  <1>6. Spec => [][Abstract!Next]_(Abstract!vars)
    BY <1>2, <1>3, <1>4, <1>5, PTL DEF Spec
  <1> QED
    BY <1>1, <1>6, PTL DEF Spec, RefinesMap, Abstract!Spec

-----------------------------------------------------------------------------
(* Sealed regions.                                                         *)

(* No edge is inline below a sealed one, seen from the child. *)
Closed(t) ==
  \A s \in DOMAIN t : \A i \in Kids(t, s) : Inline(t, Child(t, s, i)) => Inline(t, s)

(* A hash is not the mark of an edge without one. *)
NoneIsNoHash == \A t, s, leading, siblings : HashNode(t, s, leading, siblings) # None

StartsClosed == \A t \in Starts : Closed(t)

(* A whole-subtree walk stands on inline nodes. *)
CollectsInline ==
  pc = "collect" => \A n \in DOMAIN walk : Inline(slot, walk[n].slot)

(* Children entered are sealed, but the one the walk is in. *)
SealedBehind ==
  pc = "hash" =>
    \A m \in DOMAIN walk : \A j \in Kids(slot, walk[m].slot) \ walk[m].left :
      \/ ~Inline(slot, Child(slot, walk[m].slot, j))
      \/ m < Len(walk) /\ walk[m + 1].slot = Child(slot, walk[m].slot, j)

Sealing == Closed(slot) /\ CollectsInline /\ SealedBehind

-----------------------------------------------------------------------------
(* What the edits of a trie do to it.                                      *)

(* No edge is sealed, and only children of an inline node become inline. *)
LEMMA ReadingCloses ==
  ASSUME NEW t, IsTree(t), t # EmptyTrie, Closed(t), NEW u, SameShape(t, u),
         NEW p \in DOMAIN t, Inline(t, p),
         \A x \in DOMAIN t : Inline(t, x) => Inline(u, x),
         \A x \in DOMAIN t : Inline(u, x) =>
           Inline(t, x) \/ \E i \in Kids(t, p) : x = Child(t, p, i)
  PROVE  Closed(u)
  <1>1. /\ DOMAIN u = DOMAIN t
        /\ \A s \in DOMAIN t : /\ Kids(u, s) = Kids(t, s)
                               /\ \A i : Child(u, s, i) = Child(t, s, i)
    BY ShapeKept DEF SameShape
  <1>2. ASSUME NEW s \in DOMAIN t, NEW i \in Kids(t, s), Inline(u, Child(t, s, i))
        PROVE  Inline(u, s)
    <2>1. i \in Index /\ Child(t, s, i) \in DOMAIN t
      BY DEF Kids
    <2>2. CASE Inline(t, Child(t, s, i))
      BY <2>2 DEF Closed
    <2>3. CASE \E k \in Kids(t, p) : Child(t, s, i) = Child(t, p, k)
      <3>1. PICK k \in Kids(t, p) : Child(t, s, i) = Child(t, p, k)
        BY <2>3
      <3>2. k \in Index
        BY DEF Kids
      <3>3. s = p
        BY <2>1, <3>1, <3>2, ParentIsUnique
      <3> QED
        BY <3>3
    <2> QED
      BY <1>2, <2>1, <2>2, <2>3
  <1> QED
    BY <1>1, <1>2 DEF Closed

LEMMA GrowingCloses ==
  ASSUME NEW t, IsTree(t), Closed(t), NEW s \in DOMAIN t, Inline(t, s),
         NEW i \in Index, NEW r, NEW u, IsGrown(t, s, i, r, u)
  PROVE  Closed(u)
  <1> DEFINE k == Child(t, s, i)
  <1>1. /\ IsTree(u) /\ DOMAIN u = DOMAIN t \cup {k} /\ k \notin DOMAIN t
        /\ \A x \in DOMAIN t : /\ u[x] = t[x]
                               /\ \A j : Child(u, x, j) = Child(t, x, j)
                               /\ x # s => Kids(u, x) = Kids(t, x)
        /\ Kids(u, s) = Kids(t, s) \cup {i}
    BY DEF IsGrown
  <1>2. \A x \in DOMAIN t : Inline(u, x) <=> Inline(t, x)
    BY <1>1 DEF Inline
  <1>3. Kids(u, k) = {}
    BY DEF IsGrown
  <1> HIDE DEF k
  <1>4. ASSUME NEW x \in DOMAIN u, NEW j \in Kids(u, x), Inline(u, Child(u, x, j))
        PROVE  Inline(u, x)
    <2>1. x # k
      BY <1>3
    <2>2. x \in DOMAIN t
      BY <1>1, <2>1
    <2>3. CASE x = s
      BY <1>2, <2>3
    <2>4. CASE x # s
      <3>1. j \in Kids(t, x) /\ Child(u, x, j) = Child(t, x, j)
        BY <1>1, <2>2, <2>4
      <3>2. Child(t, x, j) \in DOMAIN t
        BY <3>1 DEF Kids
      <3>3. Inline(t, x)
        BY <1>2, <1>4, <2>2, <3>1, <3>2 DEF Closed
      <3> QED
        BY <1>2, <2>2, <3>3
    <2> QED
      BY <2>3, <2>4
  <1> QED
    BY <1>4 DEF Closed

LEMMA PushingCloses ==
  ASSUME NEW t, IsTree(t), Closed(t), NEW s \in DOMAIN t, Inline(t, s),
         NEW n, NEW m, NEW new, NEW old, NEW u, IsPushed(t, s, n, m, new, old, u),
         new.hash = None, old.hash = None
  PROVE  Closed(u)
  <1>1. /\ DOMAIN u = DOMAIN t \cup {m} /\ u[m] = old /\ u[s] = new
        /\ m \notin DOMAIN t
        /\ \A x \in DOMAIN t \ {s} : /\ u[x] = t[x]
                                     /\ \A j : Child(u, x, j) = Child(t, x, j)
                                     /\ Kids(u, x) = Kids(t, x)
    BY DEF IsPushed
  <1>2. /\ Inline(u, s) /\ Inline(u, m)
        /\ \A x \in DOMAIN t : Inline(u, x) <=> Inline(t, x)
    BY <1>1 DEF Inline
  <1>3. ASSUME NEW x \in DOMAIN u, NEW j \in Kids(u, x), Inline(u, Child(u, x, j))
        PROVE  Inline(u, x)
    <2>1. CASE x = s \/ x = m
      BY <1>2, <2>1
    <2>2. CASE x # s /\ x # m
      <3>1. x \in DOMAIN t \ {s}
        BY <1>1, <2>2
      <3>2. j \in Kids(t, x) /\ Child(u, x, j) = Child(t, x, j)
        BY <1>1, <3>1
      <3>3. Child(t, x, j) \in DOMAIN t
        BY <3>2 DEF Kids
      <3>4. Inline(t, x)
        BY <1>2, <1>3, <3>1, <3>2, <3>3 DEF Closed
      <3> QED
        BY <1>2, <3>1, <3>4
    <2> QED
      BY <2>1, <2>2
  <1> QED
    BY <1>3 DEF Closed

LEMMA MergingCloses ==
  ASSUME NEW t, IsTree(t), Closed(t), NEW s \in DOMAIN t, Inline(t, s),
         NEW i, NEW u, IsMerged(t, s, i, u)
  PROVE  Closed(u)
  <1> DEFINE c == Child(t, s, i)
  <1>1. /\ DOMAIN u = DOMAIN t \ {c} /\ u[s].hash = t[s].hash
        /\ \A x \in DOMAIN t \ {s, c} : /\ u[x] = t[x]
                                        /\ \A j : Child(u, x, j) = Child(t, x, j)
                                        /\ Kids(u, x) = Kids(t, x)
    BY DEF IsMerged
  <1> HIDE DEF c
  <1>2. Inline(u, s) /\ \A x \in DOMAIN u : Inline(u, x) <=> Inline(t, x)
    BY <1>1 DEF Inline
  <1>3. ASSUME NEW x \in DOMAIN u, NEW j \in Kids(u, x), Inline(u, Child(u, x, j))
        PROVE  Inline(u, x)
    <2>1. CASE x = s
      BY <1>2, <2>1
    <2>2. CASE x # s
      <3>1. x \in DOMAIN t \ {s, c}
        BY <1>1, <2>2
      <3>2. j \in Kids(t, x) /\ Child(u, x, j) = Child(t, x, j)
        BY <1>1, <3>1
      <3>3. Child(u, x, j) \in DOMAIN u
        BY DEF Kids
      <3>4. Inline(t, x)
        BY <1>2, <1>3, <3>1, <3>2, <3>3 DEF Closed
      <3> QED
        BY <1>2, <3>4
    <2> QED
      BY <2>1, <2>2
  <1> QED
    BY <1>3 DEF Closed

LEMMA CuttingCloses ==
  ASSUME NEW t, Closed(t), NEW d, NEW u, IsCut(t, d, u)
  PROVE  Closed(u)
  <1>1. /\ DOMAIN u \subseteq DOMAIN t
        /\ \A x \in DOMAIN u : /\ u[x] = t[x]
                               /\ \A j : Child(u, x, j) = Child(t, x, j)
                               /\ Kids(u, x) \subseteq Kids(t, x)
    BY DEF IsCut
  <1>2. ASSUME NEW x \in DOMAIN u, NEW j \in Kids(u, x), Inline(u, Child(u, x, j))
        PROVE  Inline(u, x)
    <2>1. Child(u, x, j) \in DOMAIN u
      BY DEF Kids
    <2> QED
      BY <1>1, <1>2, <2>1 DEF Closed, Inline
  <1> QED
    BY <1>2 DEF Closed

-----------------------------------------------------------------------------
(* Steps of the mutations.                                                 *)

(* A call that ends leaves nothing but its trie. *)
LEMMA EndSeals ==
  ASSUME NEW u, NEW result, Change(u, result), Closed(u)
  PROVE  Sealing'
  <1>1. slot' = u /\ pc' = "idle"
    BY DEF Change, Return
  <1> QED
    BY <1>1 DEF Sealing, CollectsInline, SealedBehind

LEMMA FailSeals == Sealing /\ Fail => Sealing'
  BY EndSeals DEF Fail, Sealing

(* The edge to a child of an inline node is read, and the call is in no    *)
(* hash walk.                                                              *)
LEMMA EdgeReadCloses ==
  ASSUME TrieInv, Sealing, NEW p \in DOMAIN slot, Inline(slot, p),
         NEW i \in Kids(slot, p), slot' = Materialized(slot, Child(slot, p, i))
  PROVE  Closed(slot')
  <1> DEFINE c == Child(slot, p, i)
             u == HashPut(slot, c, None)
  <1>1. IsTree(slot) /\ IsTrie(slot) /\ slot # EmptyTrie /\ Closed(slot)
    BY HasRoot DEF TrieInv, Hung, IsTree, Sealing
  <1>2. c \in DOMAIN slot
    BY DEF Kids
  <1>3. slot' = u
    BY DEF Materialized, HashPut
  <1> HIDE DEF c
  <1>4. /\ SameShape(slot, u)
        /\ \A x \in DOMAIN slot : x # c => u[x].hash = slot[x].hash
        /\ u[c].hash = None
    BY <1>1, <1>2, HashSet
  <1> HIDE DEF u
  <1>5. \A x \in DOMAIN slot : Inline(slot, x) => Inline(u, x)
    BY <1>4 DEF Inline
  <1>6. \A x \in DOMAIN slot : Inline(u, x) =>
          Inline(slot, x) \/ \E k \in Kids(slot, p) : x = Child(slot, p, k)
    BY <1>4 DEF Inline, c
  <1> QED
    BY <1>1, <1>3, <1>4, <1>5, <1>6, ReadingCloses

LEMMA BeginSeals == \A r \in Abstract!Requests : TrieInv /\ Sealing /\ Begin(r) => Sealing'
  <1> SUFFICES ASSUME NEW r \in Abstract!Requests, TrieInv, Sealing, Begin(r)
               PROVE  Sealing'
    OBVIOUS
  <1>1. /\ slot' = slot /\ walk' = << >> /\ pc' # "collect"
    BY DEF Begin, TrieInv, Control
  <1>2. DOMAIN walk' = {}
    BY <1>1
  <1> QED
    BY <1>1, <1>2 DEF Sealing, CollectsInline, SealedBehind

LEMMA DescendSeals == TrieInv /\ Sealing /\ Descend => Sealing'
  <1> SUFFICES ASSUME TrieInv, Sealing, Descend PROVE Sealing'
    OBVIOUS
  <1> DEFINE c == Child(slot, Top, KeyNext)
  <1>1. /\ \E op \in {"insert", "remove", "remove_prefix"} : OnNode(op)
        /\ pc = "descend" /\ KeyNext \in Kids(slot, Top)
    BY DEF Descend, OnNode, Descending, HasNext
  <1>2. Top \in DOMAIN slot /\ Inline(slot, Top)
    BY <1>1, OnPath, TopIsInline
  <1>3. CASE MaterializeFails(c)
    BY <1>3, FailSeals DEF MaterializeFails
  <1>4. CASE slot' = Materialized(slot, c) /\ UNCHANGED <<req, pc, walk, out>>
    <2>1. Closed(slot')
      BY <1>1, <1>2, <1>4, EdgeReadCloses
    <2> QED
      BY <1>1, <1>4, <2>1 DEF Sealing, CollectsInline, SealedBehind
  <1> QED
    BY <1>3, <1>4 DEF Descend

LEMMA InsertSeals == TrieInv /\ Sealing /\ InsertStep => Sealing'
  <1> SUFFICES ASSUME TrieInv, Sealing, InsertStep PROVE Sealing'
    OBVIOUS
  <1>1. Closed(slot)
    BY DEF Sealing
  <1>2. CASE InsertIntoEmpty
    <2> DEFINE leaf == LeafNode(Key, req.val)
               u    == Holding(EmptyTrie, Root, leaf)
    <2>1. Change(u, None)
      BY <1>2 DEF InsertIntoEmpty
    <2>2. DOMAIN u = {Root} /\ u[Root] = leaf /\ leaf.hash = None
      BY DEF Holding, EmptyTrie, Root, LeafNode
    <2> HIDE DEF leaf, u
    <2>3. Closed(u)
      BY <2>2 DEF Closed, Inline
    <2> QED
      BY <2>1, <2>3, EndSeals
  <1>3. CASE Replace
    <2> DEFINE s == Top
               v == Unspliced(req.val)
               u == ValuePut(slot, s, v)
    <2>1. frames # << >>
      BY <1>3, OnPath DEF Replace
    <2>2. IsTree(slot) /\ IsTrie(slot) /\ slot # EmptyTrie /\ s \in DOMAIN slot /\ Inline(slot, s)
      BY <2>1, TopIsInline
    <2>3. \E result : Change(u, result)
      BY <1>3 DEF Replace, ValuePut
    <2> HIDE DEF s, v
    <2>4. SameShape(slot, u) /\ \A x \in DOMAIN slot : u[x].hash = slot[x].hash
      BY <2>2, ValueSet
    <2> HIDE DEF u
    <2>5. \A x \in DOMAIN slot : Inline(u, x) <=> Inline(slot, x)
      BY <2>4 DEF Inline
    <2>6. Closed(u)
      BY <1>1, <2>2, <2>4, <2>5, ReadingCloses
    <2> QED
      BY <2>3, <2>6, EndSeals
  <1>4. CASE InsertAbove
    <2> DEFINE f == Full(slot, Top)
               u == Pushed(Len(Key), Unspliced(req.val))
    <2>1. OnNode("insert") /\ IsPrefix(Key, f) /\ Key # f /\ Change(u, None)
      BY <1>4 DEF InsertAbove, KeyEndsAbove, IsStrictPrefix
    <2>2. /\ frames # << >> /\ Key \in Seq(Index) /\ Len(Key) \in Nat
          /\ Len(Top) <= Len(Key)
      BY <2>1, OnPath
    <2>3. /\ IsTree(slot) /\ Top \in DOMAIN slot /\ Inline(slot, Top)
          /\ f \in Seq(Index) /\ Len(f) \in Nat /\ Len(Top) \in Nat
      BY <2>2, TopIsInline
    <2> HIDE DEF f
    <2>4. Len(Key) \in Len(Top) .. Len(f) - 1
      BY <2>1, <2>2, <2>3, PrefixOrder
    <2> HIDE DEF u
    <2>5. \E m, new, old : /\ IsPushed(slot, Top, Len(Key), m, new, old, u)
                           /\ new.hash = None /\ old.hash = None
      <3> DEFINE m == SubSeq(f, 1, Len(Key) + 1)
      <3>1. /\ IsPushed(slot, Top, Len(Key), m, u[Top], u[m], u)
            /\ Inline(u, Top) /\ Inline(u, m)
        BY <2>2, <2>4, TopPushed DEF f, u
      <3> HIDE DEF m
      <3>2. u[Top].hash = None /\ u[m].hash = None
        BY <3>1 DEF Inline
      <3> QED
        BY <3>1, <3>2
    <2>6. Closed(u)
      BY <1>1, <2>3, <2>5, PushingCloses
    <2> QED
      BY <2>1, <2>6, EndSeals
  <1>5. CASE InsertBelow
    <2> DEFINE f    == Full(slot, Top)
               n    == Len(f) + 1
               i    == KeyNext
               leaf == LeafNode(Beyond(Key, n), req.val)
               u    == Holding(slot, SubSeq(Key, 1, n), leaf)
    <2>1. OnNode("insert") /\ Change(u, None)
      BY <1>5 DEF InsertBelow
    <2>2. frames # << >>
      BY <2>1, OnPath
    <2>3. IsTree(slot) /\ Top \in DOMAIN slot /\ Inline(slot, Top)
      BY <2>2, TopIsInline
    <2>4. i \in Index /\ IsGrown(slot, Top, i, leaf, u)
      BY <1>5, LeafBelow
    <2> HIDE DEF u, leaf, i
    <2>5. Closed(u)
      BY <1>1, <2>3, <2>4, GrowingCloses
    <2> QED
      BY <2>1, <2>5, EndSeals
  <1>6. CASE InsertFork
    <2> DEFINE n    == ForkAt
               t    == Pushed(n, None)
               i    == Key[n + 1]
               leaf == LeafNode(Beyond(Key, n + 1), req.val)
               u    == Holding(t, SubSeq(Key, 1, n + 1), leaf)
    <2>1. OnNode("insert") /\ Change(u, None)
      BY <1>6 DEF InsertFork, ForkAt
    <2>2. frames # << >>
      BY <2>1, OnPath
    <2>3. IsTree(slot) /\ Top \in DOMAIN slot /\ Inline(slot, Top)
      BY <2>2, TopIsInline
    <2>4. /\ n \in Len(Top) .. Len(Full(slot, Top)) - 1
          /\ i \in Index /\ IsGrown(t, Top, i, leaf, u)
      BY <1>6, LeafForks
    <2> HIDE DEF n
    <2>5. /\ \E m, new, old : /\ IsPushed(slot, Top, n, m, new, old, t)
                              /\ new.hash = None /\ old.hash = None
          /\ IsTree(t) /\ Top \in DOMAIN t /\ Inline(t, Top)
      <3> HIDE DEF t
      <3> QED
        BY <2>2, <2>4, TopPushed DEF t, Inline
    <2> HIDE DEF t
    <2>6. Closed(t)
      BY <1>1, <2>3, <2>5, PushingCloses
    <2> HIDE DEF u, leaf, i
    <2>7. Closed(u)
      BY <2>4, <2>5, <2>6, GrowingCloses
    <2> QED
      BY <2>1, <2>7, EndSeals
  <1> QED
    BY <1>2, <1>3, <1>4, <1>5, <1>6 DEF InsertStep
LEMMA RemoveSeals == TrieInv /\ Sealing /\ RemoveStep => Sealing'
  <1> SUFFICES ASSUME TrieInv, Sealing, RemoveStep PROVE Sealing'
    OBVIOUS
  <1>1. Closed(slot)
    BY DEF Sealing
  <1>2. CASE RemoveFindsNothing
    BY <1>1, <1>2, EndSeals DEF RemoveFindsNothing
  <1>3. CASE ClearValue
    <2> DEFINE s == Top
               u == ValuePut(slot, s, None)
    <2>1. frames # << >>
      BY <1>3, OnPath DEF ClearValue, RemovesAt
    <2>2. /\ IsTree(slot) /\ IsTrie(slot) /\ slot # EmptyTrie
          /\ s \in DOMAIN slot /\ Inline(slot, s)
      BY <2>1, TopIsInline
    <2>3. \E result : Change(u, result)
      BY <1>3 DEF ClearValue, ValuePut
    <2> HIDE DEF s
    <2>4. SameShape(slot, u) /\ \A x \in DOMAIN slot : u[x].hash = slot[x].hash
      BY <2>2, ValueSet
    <2> HIDE DEF u
    <2>5. \A x \in DOMAIN slot : Inline(u, x) <=> Inline(slot, x)
      BY <2>4 DEF Inline
    <2>6. Closed(u)
      BY <1>1, <2>2, <2>4, <2>5, ReadingCloses
    <2> QED
      BY <2>3, <2>6, EndSeals
  <1>4. CASE ClearAndMerge
    <2> DEFINE c == OnlyChild(slot, Top)
               u == MergeOnlyChild(slot, Top)
    <2>1. OnNode("remove") /\ Cardinality(Kids(slot, Top)) = 1
      BY <1>4 DEF ClearAndMerge, RemovesAt
    <2>2. frames # << >> /\ pc = "descend"
      BY <2>1, OnPath
    <2>3. /\ IsTree(slot) /\ IsTrie(slot) /\ Top \in DOMAIN slot /\ Inline(slot, Top)
      BY <2>2, TopIsInline
    <2>4. PICK i \in Index : Kids(slot, Top) = {i}
      <3>1. Kids(slot, Top) \in SUBSET Index
        BY DEF Kids
      <3> QED
        BY <2>1, <3>1, OneKid
    <2>5. c = Child(slot, Top, i) /\ i \in Kids(slot, Top)
      BY <2>4 DEF OnlyChild
    <2>6. IsMerged(slot, Top, i, u)
      BY <2>3, <2>4, ChildMerged
    <2> HIDE DEF c, u
    <2>7. CASE MaterializeFails(c)
      BY <2>7, FailSeals DEF MaterializeFails
    <2>8. CASE slot' = Materialized(slot, c) /\ UNCHANGED control
      <3>1. Closed(slot')
        BY <2>3, <2>5, <2>8, EdgeReadCloses
      <3> QED
        BY <2>2, <2>8, <3>1 DEF Sealing, CollectsInline, SealedBehind, control
    <2>9. CASE \E result : Change(u, result)
      <3>1. Closed(u)
        BY <1>1, <2>3, <2>6, MergingCloses
      <3> QED
        BY <2>9, <3>1, EndSeals
    <2> QED
      BY <1>4, <2>7, <2>8, <2>9 DEF ClearAndMerge, c, u
  <1>5. CASE RemoveLeaf
    BY <1>5 DEF Sealing, RemoveLeaf, CollectsInline, SealedBehind
  <1> QED
    BY <1>2, <1>3, <1>4, <1>5 DEF RemoveStep

(* A whole-subtree walk begins at the root or at the top node. *)
LEMMA CollectStartSeals ==
  ASSUME Sealing, NEW d, Inline(slot, d), slot' = slot, pc' = "collect",
         walk' = <<[slot |-> d, left |-> Kids(slot, d)]>>
  PROVE  Sealing'
  <1>1. DOMAIN walk' = {1} /\ walk'[1].slot = d
    OBVIOUS
  <1> QED
    BY <1>1 DEF Sealing, CollectsInline, SealedBehind

LEMMA RemovePrefixSeals == TrieInv /\ Sealing /\ RemovePrefixStep => Sealing'
  <1> SUFFICES ASSUME TrieInv, Sealing, RemovePrefixStep PROVE Sealing'
    OBVIOUS
  <1>1. CASE PrefixFindsNothing
    BY <1>1, EndSeals DEF PrefixFindsNothing, Sealing
  <1>2. CASE PrefixFound
    <2>1. frames # << >>
      BY <1>2, OnPath DEF PrefixFound
    <2>2. Inline(slot, Top)
      BY <2>1, TopIsInline
    <2> QED
      BY <1>2, <2>2, CollectStartSeals DEF PrefixFound
  <1> QED
    BY <1>1, <1>2 DEF RemovePrefixStep

LEMMA CollectSeals == TrieInv /\ Sealing /\ Collect => Sealing'
  <1> SUFFICES ASSUME TrieInv, Sealing, Collect PROVE Sealing'
    OBVIOUS
  <1>1. CASE StartMaterialize
    <2>1. Inline(slot, Root)
      BY <1>1 DEF StartMaterialize, Descending, TrieInv, Control, RootInline
    <2> QED
      BY <1>1, <2>1, CollectStartSeals DEF StartMaterialize
  <1>2. CASE CollectChild
    <2> DEFINE m   == Len(walk)
               top == Last(walk)
               i   == Min(top.left)
               c   == Child(slot, top.slot, i)
               g   == [walk EXCEPT ![m].left = @ \ {i}]
               new == [slot |-> c, left |-> Kids(slot, c)]
    <2>1. pc = "collect" /\ top.left # {}
      BY <1>2 DEF CollectChild
    <2>2. /\ IsTree(slot) /\ walk \in Seq(MutationFrame) /\ walk # << >> /\ m \in Nat \ {0}
          /\ top = walk[m] /\ top.slot \in DOMAIN slot /\ top.left \in SUBSET Index
          /\ top.left \subseteq Kids(slot, top.slot) /\ DOMAIN walk = 1 .. m
      BY <2>1, CollectTop
    <2>3. \A n \in 1 .. m : Inline(slot, walk[n].slot)
      BY <2>1, <2>2 DEF Sealing, CollectsInline
    <2>4. i \in Kids(slot, top.slot) /\ Inline(slot, top.slot)
      <3>1. i \in top.left
        <4> HIDE DEF top
        <4> QED
          BY <2>1, <2>2, LowestLeft
      <3>2. m \in 1 .. m
        BY <2>2
      <3> HIDE DEF i, top, m
      <3> QED
        BY <2>2, <2>3, <3>1, <3>2
    <2>5. CASE MaterializeFails(c)
      BY <2>5, FailSeals DEF MaterializeFails
    <2>6. CASE slot' = Materialized(slot, c) /\ walk' = Append(g, new) /\ pc' = pc
      <3>1. Closed(slot')
        <4> HIDE DEF i, top
        <4> QED
          BY <2>2, <2>4, <2>6, EdgeReadCloses
      <3>2. /\ \A s \in DOMAIN slot : Inline(slot, s) => Inline(slot', s)
            /\ Inline(slot', c)
        <4>1. c \in DOMAIN slot
          BY <2>4 DEF Kids
        <4> HIDE DEF c
        <4> QED
          BY <2>6, <4>1, EdgeRead
      <3>3. /\ DOMAIN walk' = 1 .. m + 1 /\ walk'[m + 1].slot = c
            /\ \A n \in 1 .. m : walk'[n].slot = walk[n].slot
        <4>1. /\ DOMAIN g = 1 .. m /\ Len(g) = m
              /\ \A n \in 1 .. m : g[n].slot = walk[n].slot
          <5> HIDE DEF i
          <5> QED
            BY <2>2
        <4>2. g \in Seq({g[n] : n \in 1 .. m})
          <5>1. g = [n \in 1 .. m |-> g[n]] /\ m \in Nat
            <6> HIDE DEF i, top
            <6> QED
              BY <2>2
          <5> HIDE DEF g, m
          <5>2. [n \in 1 .. m |-> g[n]] \in Seq({g[n] : n \in 1 .. m})
            BY <5>1
          <5> QED
            BY <5>1, <5>2
        <4> HIDE DEF g
        <4>3. /\ DOMAIN walk' = 1 .. m + 1 /\ walk'[m + 1] = new
              /\ \A n \in 1 .. m : walk'[n] = g[n]
          BY <2>2, <2>6, <4>1, <4>2, AppendProperties
        <4> QED
          BY <4>1, <4>3
      <3> HIDE DEF m, c
      <3>4. ASSUME NEW n \in 1 .. m PROVE walk[n].slot \in DOMAIN slot
        <4>1. walk[n] \in MutationFrame
          BY <2>2, ElementOfSeq DEF m
        <4> QED
          BY <4>1 DEF MutationFrame
      <3>5. ASSUME NEW n \in 1 .. m + 1 PROVE Inline(slot', walk'[n].slot)
        <4>1. CASE n = m + 1
          BY <3>2, <3>3, <4>1
        <4>2. CASE n # m + 1
          <5>1. n \in 1 .. m
            BY <2>2, <4>2
          <5> QED
            BY <2>3, <3>2, <3>3, <3>4, <5>1
        <4> QED
          BY <4>1, <4>2
      <3> QED
        BY <2>1, <2>6, <3>1, <3>3, <3>5 DEF Sealing, CollectsInline, SealedBehind
    <2> QED
      BY <1>2, <2>5, <2>6 DEF CollectChild
  <1>3. CASE CollectUp
    <2>1. pc = "collect" /\ slot' = slot /\ walk \in Seq(MutationFrame) /\ walk # << >>
      BY <1>3, CollectTop DEF CollectUp
    <2>2. CASE walk' = Front(walk) /\ pc' = pc
      <3>1. /\ walk' \in Seq(MutationFrame) /\ Len(walk') = Len(walk) - 1
            /\ \A n \in 1 .. Len(walk) - 1 : walk'[n] = walk[n]
        BY <2>1, <2>2, FrontType
      <3>2. \A n \in DOMAIN walk' : n \in DOMAIN walk /\ walk'[n] = walk[n]
        BY <2>1, <3>1
      <3> QED
        BY <2>1, <2>2, <3>2 DEF Sealing, CollectsInline, SealedBehind
    <2>3. CASE pc' = "idle" \/ pc' = "unwind"
      BY <2>1, <2>3 DEF Sealing, CollectsInline, SealedBehind
    <2> QED
      BY <1>3, <2>2, <2>3 DEF CollectUp, Return
  <1> QED
    BY <1>1, <1>2, <1>3 DEF Collect

LEMMA UnwindSeals == TrieInv /\ Sealing /\ Unwind => Sealing'
  <1> SUFFICES ASSUME TrieInv, Sealing, Unwind PROVE Sealing'
    OBVIOUS
  <1>1. Closed(slot)
    BY DEF Sealing
  <1>2. CASE UnwindRoot
    <2>1. Closed(EmptyTrie)
      BY DEF Closed, EmptyTrie
    <2> QED
      BY <1>2, <2>1, EndSeals DEF UnwindRoot
  <1>3. CASE UnwindDetach
    <2>1. Unwinding /\ Len(frames) > 1
      BY <1>3 DEF UnwindDetach, UnwindsInto
    <2>2. IsCut(slot, Top, Detached(slot, Top))
      BY <2>1, TopDetached
    <2>3. Closed(Detached(slot, Top))
      BY <1>1, <2>2, CuttingCloses
    <2> QED
      BY <1>3, <2>3, EndSeals DEF UnwindDetach
  <1>4. CASE UnwindMerge
    <2> DEFINE c == Survivor
               u == Detached(slot, Top)
               v == MergeOnlyChild(u, Parent)
    <2>1. Unwinding /\ Len(frames) > 1 /\ Cardinality(Kids(slot, Parent)) = 2
      BY <1>4 DEF UnwindMerge, UnwindsInto
    <2>2. pc = "unwind" /\ Parent \in DOMAIN slot /\ Inline(slot, Parent)
      BY <2>1, OnUnwind, ParentIsInline
    <2>3. PICK k \in Kids(slot, Parent) :
            /\ c = Child(slot, Parent, k) /\ Parent \in DOMAIN u
            /\ IsMerged(u, Parent, k, v)
      BY <2>1, SurvivorMerges
    <2>4. IsCut(slot, Top, u) /\ IsTree(u)
      BY <2>1, TopDetached
    <2> HIDE DEF u, v, c
    <2>5. CASE MaterializeFails(c)
      BY <2>5, FailSeals DEF MaterializeFails
    <2>6. CASE slot' = Materialized(slot, c) /\ UNCHANGED control
      <3>1. Closed(slot')
        BY <2>2, <2>3, <2>6, EdgeReadCloses
      <3> QED
        BY <2>2, <2>6, <3>1 DEF Sealing, CollectsInline, SealedBehind, control
    <2>7. CASE Change(v, Leaving(Top))
      <3>1. Inline(u, Parent)
        BY <2>2, <2>3, <2>4 DEF IsCut, Inline
      <3>2. Closed(u)
        BY <1>1, <2>4, CuttingCloses
      <3>3. Closed(v)
        BY <2>3, <2>4, <3>1, <3>2, MergingCloses
      <3> QED
        BY <2>7, <3>3, EndSeals
    <2> QED
      BY <1>4, <2>5, <2>6, <2>7 DEF UnwindMerge, Survivor, c, u, v
  <1>5. CASE UnwindPop
    BY <1>5 DEF Sealing, UnwindPop, UnwindsInto, Unwinding, CollectsInline, SealedBehind
  <1> QED
    BY <1>2, <1>3, <1>4, <1>5 DEF Unwind
-----------------------------------------------------------------------------
(* Steps of the hash walk.                                                 *)

(* What the walk of w has entered is sealed, but for s, the child entered  *)
(* last.                                                                   *)
SealedBut(w, s) ==
  \A m \in DOMAIN w : \A j \in Kids(slot, w[m].slot) \ w[m].left :
    \/ ~Inline(slot, Child(slot, w[m].slot, j))
    \/ m < Len(w) /\ w[m + 1].slot = Child(slot, w[m].slot, j)
    \/ m = Len(w) /\ s = Child(slot, w[m].slot, j)

(* A frame is pushed for s, and edges that became inline lead to children  *)
(* of s still to be entered.                                               *)
LEMMA FrameSeals ==
  ASSUME TrieInv, Hashing, NEW s \in DOMAIN slot, NEW w, Stacked(w, s), SealedBut(w, s),
         SameShape(slot, slot'), Closed(slot'), NEW fr,
         walk' = Append(w, fr), fr \in HashFrame, fr.slot = s, pc' = pc,
         \A x \in DOMAIN slot : Inline(slot', x) =>
           Inline(slot, x) \/ \E i \in Kids(slot, s) : x = Child(slot, s, i),
         \A i \in Kids(slot, s) \ fr.left : ~Inline(slot', Child(slot, s, i))
  PROVE  Sealing'
  <1> DEFINE m == Len(w)
  <1>1. pc = "hash" /\ IsTree(slot) /\ IsTrie(slot) /\ slot # EmptyTrie
    BY OnHash
  <1>2. /\ IsTree(slot')
        /\ \A x \in DOMAIN slot : /\ Full(slot', x) = Full(slot, x)
                                  /\ Kids(slot', x) = Kids(slot, x)
                                  /\ \A i : Child(slot', x, i) = Child(slot, x, i)
    BY <1>1, ShapeKept
  <1>3. w \in Seq(HashFrame) /\ m \in Nat /\ DOMAIN w = 1 .. m
    BY DEF Stacked
  <1>4. /\ DOMAIN walk' = 1 .. m + 1 /\ Len(walk') = m + 1 /\ walk'[m + 1] = fr
        /\ \A n \in 1 .. m : walk'[n] = w[n]
    BY <1>3, AppendProperties
  <1>5. ASSUME NEW n \in 1 .. m PROVE w[n].slot \in DOMAIN slot
    <2>1. w[n] \in HashFrame
      BY <1>3, ElementOfSeq
    <2> QED
      BY <2>1 DEF HashFrame
  <1> HIDE DEF m
  <1>6. ASSUME NEW n \in 1 .. m, NEW j \in Kids(slot, w[n].slot) \ w[n].left
        PROVE  \/ ~Inline(slot', Child(slot, w[n].slot, j))
               \/ walk'[n + 1].slot = Child(slot, w[n].slot, j)
    <2> DEFINE x == Child(slot, w[n].slot, j)
    <2>1. n \in DOMAIN w
      BY <1>3
    <2>2. CASE ~Inline(slot, x)
      <3>1. x \in DOMAIN slot /\ j \in Index
        BY DEF Kids
      <3>2. ASSUME NEW i \in Kids(slot, s), x = Child(slot, s, i) PROVE FALSE
        <4>1. i \in Index
          BY DEF Kids
        <4>2. w[n].slot = s
          BY <1>1, <1>5, <3>1, <3>2, <4>1, ParentIsUnique
        <4>3. PICK k \in Kids(slot, s) : IsPrefix(Child(slot, s, k), s)
          BY <2>1, <4>2 DEF Stacked
        <4>4. /\ s \in Seq(Index) /\ Len(s) \in Nat /\ Len(Full(slot, s)) \in Nat
              /\ Len(s) <= Len(Full(slot, s))
          BY <1>1, FullExtends
        <4>5. /\ Child(slot, s, k) \in Seq(Index)
              /\ Len(Child(slot, s, k)) = Len(Full(slot, s)) + 1
          BY <1>1, <4>3, ChildType DEF Kids
        <4>6. Len(Child(slot, s, k)) <= Len(s)
          BY <4>3, <4>4, <4>5, PrefixOrder
        <4> QED
          BY <4>4, <4>5, <4>6
      <3> QED
        BY <2>2, <3>1, <3>2
    <2>3. CASE n < m /\ w[n + 1].slot = x
      <3>1. n + 1 \in 1 .. m
        BY <1>3, <2>3
      <3> QED
        BY <1>4, <2>3, <3>1
    <2>4. CASE n = m /\ s = x
      BY <1>4, <2>4
    <2> QED
      BY <2>1, <2>2, <2>3, <2>4 DEF SealedBut, m
  <1>7. ASSUME NEW n \in 1 .. m + 1, NEW j \in Kids(slot', walk'[n].slot) \ walk'[n].left
        PROVE  \/ ~Inline(slot', Child(slot', walk'[n].slot, j))
               \/ n < m + 1 /\ walk'[n + 1].slot = Child(slot', walk'[n].slot, j)
    <2>1. CASE n = m + 1
      BY <1>2, <1>4, <1>7, <2>1
    <2>2. CASE n # m + 1
      <3>1. n \in 1 .. m /\ n < m + 1
        BY <1>3, <2>2
      <3>2. walk'[n] = w[n] /\ w[n].slot \in DOMAIN slot
        BY <1>4, <1>5, <3>1
      <3>3. /\ j \in Kids(slot, w[n].slot) \ w[n].left
            /\ Child(slot', walk'[n].slot, j) = Child(slot, w[n].slot, j)
        BY <1>2, <1>7, <3>2
      <3> QED
        BY <1>6, <3>1, <3>3
    <2> QED
      BY <2>1, <2>2
  <1>8. SealedBehind'
    BY <1>4, <1>7 DEF SealedBehind
  <1> QED
    BY <1>1, <1>8 DEF Sealing, CollectsInline

LEMMA EnterSeals ==
  ASSUME NoneIsNoHash, TrieInv, Sealing, Hashing, NEW s \in DOMAIN slot, Inline(slot, s),
         NEW siblings \in Nat, NEW w, Stacked(w, s), SealedBut(w, s),
         Enter(s, s, siblings, w)
  PROVE  Sealing'
  <1> DEFINE pending == Kids(slot, s) \ SealedKids(s)
             i == CHOOSE i \in SealedKids(s) : TRUE
             c == Child(slot, s, i)
             h == HashNode(slot, c, Append(s \o slot[s].partial, i),
                           Cardinality(Kids(slot, s)))
             fr(p) == [slot |-> s, lead |-> Len(s), siblings |-> siblings,
                       count |-> Cardinality(Kids(slot, s)), left |-> p]
             Push(p) == walk' = Append(w, fr(p)) /\ pc' = pc
  <1>1. IsTree(slot) /\ IsTrie(slot) /\ Closed(slot) /\ slot # EmptyTrie
    BY OnHash DEF Sealing
  <1>2. ASSUME NEW p \in SUBSET Kids(slot, s)
        PROVE  fr(p) \in HashFrame /\ fr(p).slot = s /\ fr(p).left = p
    <2>1. Kids(slot, s) \in SUBSET Index
      BY DEF Kids
    <2>2. Cardinality(Kids(slot, s)) \in Nat
      BY <2>1, IndexAssumption, FS_Subset, FS_CardinalityType
    <2>3. Len(s) \in Nat
      BY <1>1, FullExtends
    <2> QED
      BY <2>1, <2>2, <2>3 DEF HashFrame
  <1>3. /\ pending \in SUBSET Kids(slot, s)
        /\ \A k \in Kids(slot, s) \ pending : ~Inline(slot, Child(slot, s, k))
    BY DEF SealedKids
  <1>4. RehashesLone(s, s) =>
          /\ i \in Kids(slot, s) /\ c \in DOMAIN slot /\ ~Inline(slot, c)
          /\ SealedKids(s) = {i}
    <2> SUFFICES ASSUME RehashesLone(s, s)
                 PROVE  /\ i \in Kids(slot, s) /\ c \in DOMAIN slot /\ ~Inline(slot, c)
                        /\ SealedKids(s) = {i}
      OBVIOUS
    <2>1. SealedKids(s) \in SUBSET Index /\ Cardinality(SealedKids(s)) = 1
      BY DEF SealedKids, Kids, RehashesLone
    <2>2. PICK k \in Index : SealedKids(s) = {k}
      BY <2>1, OneKid
    <2>3. i \in SealedKids(s) /\ SealedKids(s) = {i}
      BY <2>2
    <2> HIDE DEF i
    <2> QED
      BY <2>3 DEF SealedKids, Kids
  <1> HIDE DEF i, c, h, pending, fr
  <1>5. CASE slot' = slot /\ Push(pending)
    <2>1. SameShape(slot, slot') /\ Closed(slot')
      BY <1>1, <1>5, NodeOfTrie DEF SameShape
    <2> QED
      BY <1>2, <1>3, <1>5, <2>1, FrameSeals
  <1>6. CASE RehashesLone(s, s) /\ slot' = [slot EXCEPT ![c].hash = h] /\ Push(pending)
    <2> DEFINE u == HashPut(slot, c, h)
    <2>1. slot' = u /\ c \in DOMAIN slot /\ ~Inline(slot, c)
      BY <1>4, <1>6 DEF HashPut
    <2>2. /\ SameShape(slot, u) /\ u[c].hash = h
          /\ \A x \in DOMAIN slot : /\ u[x].value = slot[x].value
                                    /\ x # c => u[x].hash = slot[x].hash
      <3> HIDE DEF h
      <3>1. IsTrie(slot) /\ c \in DOMAIN slot
        BY <1>1, <2>1
      <3> QED
        BY <3>1, HashSet
    <2> HIDE DEF u
    <2>3. h # None
      BY DEF NoneIsNoHash, h
    <2>4. \A x \in DOMAIN slot : Inline(u, x) <=> Inline(slot, x)
      BY <2>1, <2>2, <2>3 DEF Inline
    <2>5. Closed(u)
      BY <1>1, <2>2, <2>4, ReadingCloses
    <2>6. \A k \in Kids(slot, s) \ pending : ~Inline(u, Child(slot, s, k))
      BY <1>3, <2>4 DEF Kids
    <2> DEFINE g == fr(pending)
    <2>7. g \in HashFrame /\ g.slot = s /\ g.left = pending
      BY <1>2, <1>3
    <2>8. walk' = Append(w, g) /\ pc' = pc
      BY <1>6
    <2> HIDE DEF g
    <2>9. /\ SameShape(slot, slot') /\ Closed(slot')
          /\ \A x \in DOMAIN slot : Inline(slot', x) => Inline(slot, x)
          /\ \A k \in Kids(slot, s) \ g.left : ~Inline(slot', Child(slot, s, k))
      BY <2>1, <2>2, <2>4, <2>5, <2>6, <2>7
    <2> QED
      BY <2>7, <2>8, <2>9, FrameSeals
  <1>7. CASE /\ RehashesLone(s, s) /\ slot' = Materialized(slot, c)
             /\ Push(pending \cup {i})
    <2> DEFINE u == HashPut(slot, c, None)
               p == pending \cup {i}
    <2>1. slot' = u /\ c \in DOMAIN slot /\ i \in Kids(slot, s) /\ c = Child(slot, s, i)
      BY <1>4, <1>7 DEF Materialized, HashPut, c
    <2>2. /\ SameShape(slot, u)
          /\ \A x \in DOMAIN slot : x # c => u[x].hash = slot[x].hash
      BY <1>1, <2>1, HashSet
    <2>3. Closed(slot')
      BY <1>7, <2>1, EdgeReadCloses
    <2> HIDE DEF u
    <2>4. \A x \in DOMAIN slot : Inline(u, x) =>
            Inline(slot, x) \/ \E k \in Kids(slot, s) : x = Child(slot, s, k)
      BY <2>1, <2>2 DEF Inline
    <2>5. Kids(slot, s) \ p = {}
      BY <1>4, <1>7 DEF pending
    <2>6. p \in SUBSET Kids(slot, s) /\ Push(p)
      BY <1>3, <1>7, <2>1
    <2> HIDE DEF p
    <2> QED
      BY <1>2, <2>1, <2>2, <2>3, <2>4, <2>5, <2>6, FrameSeals
  <1>8. CASE Fail
    BY <1>8, FailSeals
  <1> QED
    BY <1>5, <1>6, <1>7, <1>8 DEF Enter, i, c, h, pending, fr

LEMMA HashRootSeals == NoneIsNoHash /\ IInv /\ Sealing /\ HashRoot => Sealing'
  <1> SUFFICES ASSUME NoneIsNoHash, IInv, Sealing, HashRoot PROVE Sealing'
    OBVIOUS
  <1>1. TrieInv /\ Hashing /\ Enter(Root, Root, 0, << >>)
    BY DEF IInv, HashRoot, Root
  <1>2. Root \in DOMAIN slot /\ Inline(slot, Root)
    BY <1>1, OnHash
  <1>3. Stacked(<< >>, Root) /\ SealedBut(<< >>, Root)
    BY DEF Stacked, SealedBut
  <1> QED
    BY <1>1, <1>2, <1>3, EnterSeals

LEMMA HashChildSeals == NoneIsNoHash /\ IInv /\ Sealing /\ HashChild => Sealing'
  <1> SUFFICES ASSUME NoneIsNoHash, IInv, Sealing, HashChild PROVE Sealing'
    OBVIOUS
  <1> DEFINE m == Len(walk)
             i == Min(Last(walk).left)
             s == Entered
             w == Entering
  <1>1. /\ TrieInv /\ Hashing /\ m \in Nat \ {0} /\ s \in DOMAIN slot /\ Inline(slot, s)
        /\ Last(walk).count \in Nat /\ Enter(s, s, Last(walk).count, w) /\ Stacked(w, s)
        /\ Len(w) = m /\ DOMAIN w = 1 .. m
        /\ \A n \in 1 .. m : /\ w[n].slot = walk[n].slot
                             /\ n # m => w[n] = walk[n]
        /\ w[m].left = walk[m].left \ {i}
        /\ s = Child(slot, walk[m].slot, i)
    BY ChildEntered
  <1>2. pc = "hash" /\ DOMAIN walk = 1 .. m
    <2>1. pc = "hash" /\ walk \in Seq(HashFrame)
      BY <1>1, OnHash
    <2> QED
      BY <2>1
  <1> HIDE DEF s, w, i, m
  <1>3. ASSUME NEW n \in 1 .. m, NEW j \in Kids(slot, w[n].slot) \ w[n].left
        PROVE  \/ ~Inline(slot, Child(slot, w[n].slot, j))
               \/ n < m /\ w[n + 1].slot = Child(slot, w[n].slot, j)
               \/ n = m /\ s = Child(slot, w[n].slot, j)
    <2>1. w[n].slot = walk[n].slot
      BY <1>1
    <2>2. CASE n = m /\ j = i
      BY <1>1, <2>1, <2>2
    <2>3. CASE ~(n = m /\ j = i)
      <3>1. j \in Kids(slot, walk[n].slot) \ walk[n].left
        <4>1. CASE n = m
          BY <1>1, <2>1, <2>3, <4>1
        <4>2. CASE n # m
          BY <1>1, <2>1, <4>2
        <4> QED
          BY <4>1, <4>2
      <3>2. \/ ~Inline(slot, Child(slot, walk[n].slot, j))
            \/ n < m /\ walk[n + 1].slot = Child(slot, walk[n].slot, j)
        BY <1>2, <3>1 DEF Sealing, SealedBehind, m
      <3>3. n < m => n + 1 \in 1 .. m
        BY <1>1
      <3> QED
        BY <1>1, <2>1, <3>2, <3>3
    <2> QED
      BY <2>2, <2>3
  <1>4. SealedBut(w, s)
    BY <1>1, <1>3 DEF SealedBut
  <1> QED
    BY <1>1, <1>4, EnterSeals

LEMMA HashFinishSeals == NoneIsNoHash /\ IInv /\ Sealing /\ HashFinish => Sealing'
  <1> SUFFICES ASSUME NoneIsNoHash, IInv, Sealing, HashFinish PROVE Sealing'
    OBVIOUS
  <1> DEFINE m   == Len(walk)
             top == Last(walk)
             d   == top.slot
             b   == SubSeq(buf, 1, top.lead)
             t   == Updated(slot, d)
             h   == HashNode(t, d, b, top.siblings)
             u   == HashPut(t, d, h)
  <1>1. TrieInv /\ Hashing /\ walk # << >> /\ top.left = {}
    BY DEF IInv, HashFinish
  <1>2. /\ walk \in Seq(HashFrame) /\ m \in Nat \ {0} /\ DOMAIN walk = 1 .. m
        /\ top = walk[m] /\ d \in DOMAIN slot /\ Inline(slot, d)
    BY <1>1, HashTop
  <1>3. /\ IsTree(slot) /\ slot # EmptyTrie /\ pc = "hash" /\ Closed(slot)
    BY <1>1, OnHash DEF Sealing
  <1>4. SameShape(slot, t) /\ \A x \in DOMAIN slot : t[x].hash = slot[x].hash
    <2> HIDE DEF d
    <2> QED
      BY <1>2, <1>3, ValueUpdated
  <1>5. IsTrie(t) /\ DOMAIN t = DOMAIN slot
    BY <1>3, <1>4, ShapeKept DEF SameShape, IsTree
  <1>6. h # None
    BY DEF NoneIsNoHash
  <1> HIDE DEF t, top, h
  <1>7. CASE Change(t, Done)
    <2>1. \A x \in DOMAIN slot : Inline(t, x) <=> Inline(slot, x)
      BY <1>4 DEF Inline
    <2>2. Closed(t)
      BY <1>2, <1>3, <1>4, <2>1, ReadingCloses
    <2> QED
      BY <1>7, <2>2, EndSeals
  <1>8. CASE m # 1 /\ slot' = u /\ walk' = Front(walk) /\ pc' = pc
    <2>1. /\ SameShape(t, u) /\ u[d].hash = h
          /\ \A x \in DOMAIN t : x # d => u[x].hash = t[x].hash
      <3> HIDE DEF d
      <3>1. d \in DOMAIN t
        BY <1>2, <1>5
      <3> QED
        BY <1>5, <3>1, HashSet
    <2> HIDE DEF u, m
    <2>2. SameShape(slot, u)
      BY <1>4, <2>1 DEF SameShape
    <2>3. /\ ~Inline(u, d)
          /\ \A x \in DOMAIN slot : x # d => (Inline(u, x) <=> Inline(slot, x))
      BY <1>4, <1>5, <1>6, <2>1 DEF Inline
    <2>4. /\ DOMAIN u = DOMAIN slot
          /\ \A x \in DOMAIN slot : /\ Kids(u, x) = Kids(slot, x)
                                    /\ \A i : Child(u, x, i) = Child(slot, x, i)
      BY <1>3, <2>2, ShapeKept DEF SameShape
    <2>5. /\ walk' \in Seq(HashFrame) /\ DOMAIN walk' = 1 .. m - 1 /\ Len(walk') = m - 1
          /\ \A n \in 1 .. m - 1 : walk'[n] = walk[n]
      <3>1. /\ walk' \in Seq(HashFrame) /\ Len(walk') = m - 1
            /\ \A n \in 1 .. m - 1 : walk'[n] = walk[n]
        BY <1>1, <1>2, <1>8, FrontType DEF m
      <3> QED
        BY <1>2, <3>1
    (* What the walk entered is sealed, the last one now. *)
    <2>6. ASSUME NEW n \in 1 .. m, NEW j \in Kids(slot, walk[n].slot) \ walk[n].left
          PROVE  \/ ~Inline(slot, Child(slot, walk[n].slot, j))
                 \/ n < m /\ walk[n + 1].slot = Child(slot, walk[n].slot, j)
      BY <1>2, <1>3 DEF Sealing, SealedBehind, m
    <2>7. \A j \in Kids(slot, d) : ~Inline(slot, Child(slot, d, j))
      <3>1. m \in 1 .. m /\ ~(m < m) /\ d = walk[m].slot /\ walk[m].left = {}
        BY <1>1, <1>2
      <3> QED
        BY <2>6, <3>1
    <2>8. ASSUME NEW s \in DOMAIN u, NEW i \in Kids(u, s), Inline(u, Child(u, s, i))
          PROVE  Inline(u, s)
      <3> DEFINE x == Child(slot, s, i)
      <3>1. i \in Kids(slot, s) /\ x \in DOMAIN slot /\ Child(u, s, i) = x
        BY <2>4 DEF Kids
      <3>2. x # d /\ Inline(slot, x)
        BY <2>3, <2>8, <3>1
      <3>3. s # d
        BY <2>7, <3>1, <3>2
      <3>4. Inline(slot, s)
        BY <1>3, <2>4, <3>1, <3>2 DEF Closed
      <3> QED
        BY <2>3, <2>4, <3>3, <3>4
    <2>9. ASSUME NEW n \in 1 .. m - 1, NEW j \in Kids(u, walk[n].slot) \ walk[n].left
          PROVE  \/ ~Inline(u, Child(u, walk[n].slot, j))
                 \/ n < m - 1 /\ walk'[n + 1].slot = Child(u, walk[n].slot, j)
      <3> DEFINE x == Child(slot, walk[n].slot, j)
      <3>1. n \in 1 .. m /\ walk[n] \in HashFrame
        BY <1>2, ElementOfSeq DEF m
      <3>2. walk[n].slot \in DOMAIN slot
        BY <3>1 DEF HashFrame
      <3>3. j \in Kids(slot, walk[n].slot) \ walk[n].left /\ Child(u, walk[n].slot, j) = x
        BY <2>4, <3>2
      <3>4. x \in DOMAIN slot
        BY <3>3 DEF Kids
      <3>5. CASE ~Inline(slot, x)
        BY <1>2, <2>3, <3>3, <3>4, <3>5
      <3>6. CASE n < m /\ walk[n + 1].slot = x
        <4>1. CASE n + 1 = m
          BY <1>2, <2>3, <3>3, <3>6, <4>1
        <4>2. CASE n + 1 # m
          <5>1. n + 1 \in 1 .. m - 1 /\ n < m - 1
            BY <1>2, <3>6, <4>2
          <5> QED
            BY <2>5, <3>3, <3>6, <5>1
        <4> QED
          BY <4>1, <4>2
      <3> QED
        BY <2>6, <3>1, <3>3, <3>5, <3>6
    <2>10. Closed(slot')
      BY <1>8, <2>8 DEF Closed
    <2>11. SealedBehind'
      BY <1>8, <2>5, <2>9 DEF SealedBehind
    <2> QED
      BY <1>3, <1>8, <2>10, <2>11 DEF Sealing, CollectsInline
  <1> QED
    BY <1>7, <1>8 DEF HashFinish, HashPut, t, top, h

-----------------------------------------------------------------------------
(* All steps.                                                              *)

LEMMA NextSeals == NoneIsNoHash /\ IInv /\ Sealing /\ [Next]_vars => Sealing'
  <1> SUFFICES ASSUME NoneIsNoHash, IInv, Sealing, [Next]_vars PROVE Sealing'
    OBVIOUS
  <1>1. TrieInv
    BY DEF IInv
  <1>2. CASE \E r \in Abstract!Requests : Begin(r)
    BY <1>1, <1>2, BeginSeals
  <1>3. CASE Mutate
    BY <1>1, <1>3, DescendSeals, InsertSeals, RemoveSeals, RemovePrefixSeals,
       CollectSeals, UnwindSeals DEF Mutate
  <1>4. CASE HashStep
    BY <1>4, HashRootSeals, HashChildSeals, HashFinishSeals DEF HashStep
  <1>5. CASE UNCHANGED vars
    BY <1>5 DEF vars, Sealing, CollectsInline, SealedBehind
  <1> QED
    BY <1>2, <1>3, <1>4, <1>5 DEF Next, Step

(* Beneath a sealed edge of the trie every edge is sealed, after every     *)
(* step of every call and wherever the store fails: what the hash walk     *)
(* skips holds no change (hash.rs).  A trie that an adopter builds may     *)
(* break this; then so may what the calls make of it.                      *)
THEOREM SealedRegions ==
  ASSUME NoneIsNoHash, StartsClosed
  PROVE  Spec => []SealedClosed
  <1>1. Init => Sealing
    BY DEF Init, StartsClosed, Sealing, CollectsInline, SealedBehind
  <1>2. IInv /\ Sealing /\ [Next]_vars => Sealing'
    BY NextSeals
  <1>3. IInv /\ Sealing => SealedClosed
    <2> SUFFICES ASSUME Closed(slot), NEW s \in DOMAIN slot, ~Inline(slot, s)
                 PROVE  Kids(slot, s) = SealedKids(s)
      BY DEF Sealing, SealedClosed
    <2> QED
      BY DEF Closed, SealedKids
  <1> QED
    BY <1>1, <1>2, <1>3, AlwaysIInv, PTL DEF Spec

-----------------------------------------------------------------------------
(* The structural invariant.                                               *)

(* A valueless node has two children or more, and memory is finite. *)
Settling == Branching(slot) /\ Shallow(slot)
StartsSettled == \A t \in Starts : Branching(t) /\ Shallow(t)

LEMMA ShapeSettles ==
  ASSUME IsTree(slot), slot # EmptyTrie, Settling, NEW u, SameShape(slot, u),
         \A x \in DOMAIN slot :
           u[x].value = None => slot[x].value = None \/ Cardinality(Kids(slot, x)) >= 2
  PROVE  Branching(u) /\ Shallow(u)
  <1>1. /\ DOMAIN u = DOMAIN slot
        /\ \A x \in DOMAIN slot : Kids(u, x) = Kids(slot, x)
    BY ShapeKept DEF SameShape, IsTree
  <1>2. Branching(u)
    BY <1>1 DEF Settling, Branching, Branches
  <1> QED
    BY <1>1, <1>2 DEF Settling, Shallow

LEMMA HashPutSettles ==
  ASSUME IsTree(slot), Settling, NEW c \in DOMAIN slot, NEW h
  PROVE  LET u == HashPut(slot, c, h) IN Branching(u) /\ Shallow(u)
  <1> DEFINE u == HashPut(slot, c, h)
  <1>1. IsTrie(slot) /\ slot # EmptyTrie
    BY HasRoot DEF IsTree
  <1>2. SameShape(slot, u) /\ \A x \in DOMAIN slot : u[x].value = slot[x].value
    BY <1>1, HashSet
  <1> HIDE DEF u
  <1> QED
    BY <1>1, <1>2, ShapeSettles DEF u

LEMMA ReadSettles ==
  ASSUME IsTree(slot), Settling, NEW c \in DOMAIN slot, slot' = Materialized(slot, c)
  PROVE  Settling'
  <1> DEFINE u == HashPut(slot, c, None)
  <1>1. slot' = u
    BY DEF Materialized, HashPut
  <1>2. Branching(u) /\ Shallow(u)
    BY HashPutSettles
  <1> HIDE DEF u
  <1> QED
    BY <1>1, <1>2 DEF Settling

LEMMA SameSettles == Settling /\ slot' = slot => Settling'
  BY DEF Settling

LEMMA FailSettles == Settling /\ Fail => Settling'
  BY SameSettles DEF Fail, Change

LEMMA DescendSettles == TrieInv /\ Settling /\ Descend => Settling'
  <1> SUFFICES ASSUME TrieInv, Settling, Descend PROVE Settling'
    OBVIOUS
  <1> DEFINE c == Child(slot, Top, KeyNext)
  <1>1. c \in DOMAIN slot /\ IsTree(slot)
    BY DEF Descend, HasNext, Kids, TrieInv, Hung
  <1>2. slot' = Materialized(slot, c) \/ Fail
    BY DEF Descend, MaterializeFails
  <1> QED
    BY <1>1, <1>2, ReadSettles, FailSettles

LEMMA CollectSettles == TrieInv /\ Settling /\ Collect => Settling'
  <1> SUFFICES ASSUME TrieInv, Settling, Collect PROVE Settling'
    OBVIOUS
  <1>1. CASE StartMaterialize \/ CollectUp
    BY <1>1, SameSettles DEF StartMaterialize, CollectUp
  <1>2. CASE CollectChild
    <2> DEFINE c == Child(slot, Last(walk).slot, Min(Last(walk).left))
    <2>1. c \in DOMAIN slot /\ IsTree(slot)
      BY <1>2, ChildToCollect DEF TrieInv, Hung
    <2>2. slot' = Materialized(slot, c) \/ Fail
      BY <1>2 DEF CollectChild, MaterializeFails
    <2> HIDE DEF c
    <2> QED
      BY <2>1, <2>2, ReadSettles, FailSettles
  <1> QED
    BY <1>1, <1>2 DEF Collect

LEMMA InsertIntoEmptySettles ==
  NoneIsNoValue /\ TrieInv /\ InsertIntoEmpty => Settling'
  <1> SUFFICES ASSUME NoneIsNoValue, TrieInv, InsertIntoEmpty PROVE Settling'
    OBVIOUS
  <1> DEFINE leaf == LeafNode(Key, req.val)
             u    == Holding(EmptyTrie, Root, leaf)
  <1>1. slot' = u /\ req # None /\ req.op = "insert" /\ Control
    BY DEF InsertIntoEmpty, Change, Descending, TrieInv
  <1>2. leaf.value # None
    BY <1>1, NewValue DEF LeafNode
  <1> HIDE DEF leaf
  <1>3. DOMAIN u = {Root} /\ u[Root] = leaf
    BY DEF Holding, EmptyTrie, Root
  <1> HIDE DEF u
  <1>4. Branching(u)
    BY <1>2, <1>3 DEF Branching, Branches
  <1>5. Shallow(u)
    <2>1. \A s \in DOMAIN u : Len(s) <= 0
      BY <1>3 DEF Root
    <2> QED
      BY <2>1 DEF Shallow
  <1> QED
    BY <1>1, <1>4, <1>5 DEF Settling

LEMMA ReplaceSettles ==
  NoneIsNoValue /\ TrieInv /\ Settling /\ Replace => Settling'
  <1> SUFFICES ASSUME NoneIsNoValue, TrieInv, Settling, Replace PROVE Settling'
    OBVIOUS
  <1> DEFINE s == Top
             v == Unspliced(req.val)
             u == ValuePut(slot, s, v)
  <1>1. OnNode("insert") /\ slot' = u /\ Control
    BY DEF TrieInv, Replace, Change, ValuePut
  <1>2. /\ req # None /\ req.op = "insert"
        /\ IsTree(slot) /\ IsTrie(slot) /\ slot # EmptyTrie /\ s \in DOMAIN slot
    BY <1>1, OnPath, TopIsInline
  <1>3. v # None
    BY <1>1, <1>2, NewValue
  <1> HIDE DEF s, v
  <1>4. /\ SameShape(slot, u) /\ u[s].value = v
        /\ \A x \in DOMAIN slot : x # s => u[x].value = slot[x].value
    BY <1>2, ValueSet
  <1> HIDE DEF u
  <1>5. Branching(u) /\ Shallow(u)
    BY <1>2, <1>3, <1>4, ShapeSettles
  <1> QED
    BY <1>1, <1>5 DEF Settling

LEMMA ClearValueSettles == TrieInv /\ Settling /\ ClearValue => Settling'
  <1> SUFFICES ASSUME TrieInv, Settling, ClearValue PROVE Settling'
    OBVIOUS
  <1> DEFINE s == Top
             u == ValuePut(slot, s, None)
  <1>1. RemovesAt(Cardinality(Kids(slot, s)) >= 2) /\ slot' = u
    BY DEF ClearValue, Change, ValuePut
  <1>2. /\ s \in DOMAIN slot /\ IsTree(slot) /\ IsTrie(slot) /\ slot # EmptyTrie
        /\ Cardinality(Kids(slot, s)) >= 2
    BY <1>1, OnValue DEF RemovesAt
  <1> HIDE DEF s
  <1>3. /\ SameShape(slot, u)
        /\ \A x \in DOMAIN slot : x # s => u[x].value = slot[x].value
    BY <1>2, ValueSet
  <1> HIDE DEF u
  <1>4. Branching(u) /\ Shallow(u)
    BY <1>2, <1>3, ShapeSettles
  <1> QED
    BY <1>1, <1>4 DEF Settling

LEMMA InsertAboveSettles ==
  NoneIsNoValue /\ TrieInv /\ Settling /\ InsertAbove => Settling'
  <1> SUFFICES ASSUME NoneIsNoValue, TrieInv, Settling, InsertAbove PROVE Settling'
    OBVIOUS
  <1> DEFINE s == Top
             f == Full(slot, s)
             v == Unspliced(req.val)
             n == Len(Key)
             m == SubSeq(f, 1, n + 1)
             u == Pushed(n, v)
  <1>1. OnNode("insert") /\ slot' = u /\ Control /\ IsPrefix(Key, f) /\ Key # f
    BY DEF TrieInv, InsertAbove, Change, KeyEndsAbove, IsStrictPrefix
  <1>2. /\ req # None /\ req.op = "insert" /\ frames # << >>
        /\ Key \in Seq(Index) /\ n \in Nat /\ Len(s) <= n
    BY <1>1, OnPath
  <1>3. /\ f \in Seq(Index) /\ Len(f) \in Nat /\ Len(s) \in Nat /\ s \in DOMAIN slot
        /\ IsTrie(slot)
    BY <1>2, TopIsInline
  <1>4. v # None
    BY <1>1, <1>2, NewValue
  <1> HIDE DEF v
  <1>5. n < Len(f)
    <2> HIDE DEF f
    <2> QED
      BY <1>1, <1>2, <1>3, PrefixOrder
  <1>6. n \in Len(Top) .. Len(Full(slot, Top)) - 1
    BY <1>2, <1>3, <1>5
  <1>7. /\ IsPushed(slot, s, n, m, u[s], u[m], u)
        /\ u[s].value = v /\ u[m].value = slot[s].value
    BY <1>2, <1>6, TopPushed
  <1> HIDE DEF s, f, m, n, u
  <1>8. /\ \A x \in DOMAIN u \ {s} : Branches(u, x)
        /\ Shallow(u)
    BY <1>3, <1>7, PushedBranches DEF Settling
  <1>9. Branches(u, s)
    BY <1>4, <1>7 DEF Branches
  <1> QED
    BY <1>1, <1>8, <1>9 DEF Settling, Branching

LEMMA InsertBelowSettles ==
  NoneIsNoValue /\ TrieInv /\ Settling /\ InsertBelow => Settling'
  <1> SUFFICES ASSUME NoneIsNoValue, TrieInv, Settling, InsertBelow PROVE Settling'
    OBVIOUS
  <1> DEFINE s    == Top
             n    == Len(Full(slot, Top)) + 1
             i    == KeyNext
             leaf == LeafNode(Beyond(Key, n), req.val)
             u    == Holding(slot, SubSeq(Key, 1, n), leaf)
  <1>1. OnNode("insert") /\ slot' = u /\ Control
    BY DEF TrieInv, InsertBelow, Change
  <1>2. req # None /\ req.op = "insert" /\ s \in DOMAIN slot /\ IsTrie(slot)
    BY <1>1, OnPath, TopIsInline
  <1>3. leaf.value # None
    BY <1>1, <1>2, NewValue DEF LeafNode
  <1>4. i \in Index /\ IsGrown(slot, s, i, leaf, u)
    BY LeafBelow
  <1> HIDE DEF s, i, leaf, u
  <1>5. /\ \A x \in DOMAIN slot \ {s} : Branches(slot, x)
        /\ slot[s].value = None => Cardinality(Kids(slot, s)) >= 1
    BY <1>2, KidsAreFew DEF Settling, Branching, Branches
  <1>6. Branching(u) /\ Shallow(u)
    BY <1>2, <1>3, <1>4, <1>5, GrownBranches DEF Settling
  <1> QED
    BY <1>1, <1>6 DEF Settling

LEMMA InsertForkSettles ==
  NoneIsNoValue /\ TrieInv /\ Settling /\ InsertFork => Settling'
  <1> SUFFICES ASSUME NoneIsNoValue, TrieInv, Settling, InsertFork PROVE Settling'
    OBVIOUS
  <1> DEFINE s    == Top
             n    == ForkAt
             m    == SubSeq(Full(slot, s), 1, n + 1)
             t    == Pushed(n, None)
             i    == Key[n + 1]
             leaf == LeafNode(Beyond(Key, n + 1), req.val)
             u    == Holding(t, SubSeq(Key, 1, n + 1), leaf)
  <1>1. OnNode("insert") /\ slot' = u /\ Control
    BY DEF TrieInv, InsertFork, Change, ForkAt
  <1>2. /\ req # None /\ req.op = "insert" /\ frames # << >>
        /\ s \in DOMAIN slot /\ IsTrie(slot)
    BY <1>1, OnPath, TopIsInline
  <1>3. leaf.value # None
    BY <1>1, <1>2, NewValue DEF LeafNode
  <1>4. /\ n \in Len(Top) .. Len(Full(slot, Top)) - 1
        /\ i \in Index /\ IsGrown(t, s, i, leaf, u)
    BY LeafForks
  <1>5. /\ IsPushed(slot, s, n, m, t[s], t[m], t)
        /\ t[m].value = slot[s].value /\ IsTree(t) /\ s \in DOMAIN t
    <2> HIDE DEF n
    <2> QED
      BY <1>2, <1>4, TopPushed
  <1> HIDE DEF s, n, m, t, i, leaf, u
  <1>6. /\ \A x \in DOMAIN t \ {s} : Branches(t, x)
        /\ Cardinality(Kids(t, s)) = 1 /\ Shallow(t)
    BY <1>2, <1>5, PushedBranches DEF Settling
  <1>7. Branching(u) /\ Shallow(u)
    <2>1. IsTrie(t) /\ Cardinality(Kids(t, s)) >= 1
      BY <1>5, <1>6 DEF IsTree
    <2> QED
      BY <1>3, <1>4, <1>5, <1>6, <2>1, GrownBranches
  <1> QED
    BY <1>1, <1>7 DEF Settling

LEMMA ClearAndMergeSettles == TrieInv /\ Settling /\ ClearAndMerge => Settling'
  <1> SUFFICES ASSUME TrieInv, Settling, ClearAndMerge PROVE Settling'
    OBVIOUS
  <1> DEFINE s == Top
             c == OnlyChild(slot, s)
             u == MergeOnlyChild(slot, s)
  <1>1. RemovesAt(Cardinality(Kids(slot, s)) = 1)
    BY DEF ClearAndMerge
  <1>2. s \in DOMAIN slot /\ IsTree(slot)
    BY <1>1, OnValue
  <1>3. PICK i \in Index : Kids(slot, s) = {i}
    <2>1. Kids(slot, s) \in SUBSET Index /\ Cardinality(Kids(slot, s)) = 1
      BY <1>1 DEF Kids, RemovesAt
    <2> QED
      BY <2>1, OneKid
  <1>4. Fail \/ slot' = Materialized(slot, c) \/ slot' = u
    BY DEF ClearAndMerge, MaterializeFails, Change
  <1> HIDE DEF s
  <1>5. IsMerged(slot, s, i, u)
    BY <1>2, <1>3, ChildMerged
  <1>6. c \in DOMAIN slot
    BY <1>5 DEF IsMerged
  <1> HIDE DEF c, u
  <1>7. Branching(u) /\ Shallow(u)
    BY <1>2, <1>5, MergedBranches DEF Settling, Branching
  <1>8. CASE slot' = u
    BY <1>7, <1>8 DEF Settling
  <1> QED
    BY <1>2, <1>4, <1>6, <1>8, ReadSettles, FailSettles

LEMMA UnwindSettles == TrieInv /\ Settling /\ Unwind => Settling'
  <1> SUFFICES ASSUME TrieInv, Settling, Unwind PROVE Settling'
    OBVIOUS
  <1>1. CASE UnwindRoot
    <2>1. slot' = EmptyTrie
      BY <1>1 DEF UnwindRoot, Change
    <2>2. Branching(EmptyTrie) /\ Shallow(EmptyTrie)
      BY DEF Branching, Shallow, EmptyTrie
    <2> QED
      BY <2>1, <2>2 DEF Settling
  <1>2. CASE UnwindPop
    BY <1>2, SameSettles DEF UnwindPop
  <1>3. ASSUME Unwinding, Len(frames) > 1
        PROVE  LET u == Detached(slot, Top)
                   p == Parent
               IN  /\ Shallow(u)
                   /\ \A x \in DOMAIN u \ {p} : Branches(u, x)
                   /\ slot[p].value # None \/ Cardinality(Kids(slot, p)) >= 3
                        => Branching(u)
    <2> DEFINE u == Detached(slot, Top)
               p == Parent
               d == Top
               j == Last(d)
    <2>1. /\ IsTree(slot) /\ p \in DOMAIN slot /\ d = Child(slot, p, j)
          /\ j \in Kids(slot, p) /\ IsCut(slot, d, u)
      BY <1>3, OnUnwind, ParentIsInline, TopDetached
    <2> HIDE DEF u, p, d, j
    <2>2. IsCut(slot, Child(slot, p, j), u)
      BY <2>1
    <2>3. /\ Shallow(u)
          /\ \A x \in DOMAIN u \ {p} : Branches(u, x)
          /\ slot[p].value # None \/ Cardinality(Kids(slot, p)) >= 3 => Branching(u)
      BY <2>1, <2>2, CutBranches DEF Settling
    <2> QED
      BY <2>3 DEF u, p
  <1>4. CASE UnwindDetach
    <2> DEFINE u == Detached(slot, Top)
               p == Parent
    <2>1. Unwinding /\ Len(frames) > 1 /\ ~Thin /\ slot' = u
      BY <1>4 DEF UnwindDetach, UnwindsInto, Change
    <2>2. slot[p].value # None \/ Cardinality(Kids(slot, p)) >= 3
      BY <2>1, KidsAreFew DEF Thin
    <2>3. Shallow(u) /\ Branching(u)
      BY <1>3, <2>1, <2>2
    <2> HIDE DEF u
    <2> QED
      BY <2>1, <2>3 DEF Settling
  <1>5. CASE UnwindMerge
    <2> DEFINE c == Survivor
               p == Parent
               u == Detached(slot, Top)
               v == MergeOnlyChild(u, p)
    <2>1. Unwinding /\ Len(frames) > 1 /\ Cardinality(Kids(slot, p)) = 2 /\ IsTree(slot)
      BY <1>5 DEF UnwindMerge, UnwindsInto, TrieInv, Hung
    <2>2. PICK k \in Kids(slot, p) :
            c = Child(slot, p, k) /\ p \in DOMAIN u /\ IsMerged(u, p, k, v)
      BY <2>1, SurvivorMerges
    <2>3. Shallow(u) /\ \A x \in DOMAIN u \ {p} : Branches(u, x)
      BY <1>3, <2>1
    <2>4. Fail \/ slot' = Materialized(slot, c) \/ slot' = v
      BY <1>5 DEF UnwindMerge, MaterializeFails, Change, Survivor
    <2> HIDE DEF c, p, u, v
    <2>5. Branching(v) /\ Shallow(v)
      BY <2>2, <2>3, MergedBranches
    <2>6. c \in DOMAIN slot
      BY <2>2 DEF Kids
    <2>7. CASE slot' = v
      BY <2>5, <2>7 DEF Settling
    <2> QED
      BY <2>1, <2>4, <2>6, <2>7, ReadSettles, FailSettles
  <1> QED
    BY <1>1, <1>2, <1>4, <1>5 DEF Unwind

LEMMA EnterSettles ==
  ASSUME TrieInv, Hashing, Settling, NEW s \in DOMAIN slot, NEW b, NEW siblings, NEW w,
         Enter(s, b, siblings, w)
  PROVE  Settling'
  <1> DEFINE i == CHOOSE i \in SealedKids(s) : TRUE
             c == Child(slot, s, i)
             h == HashNode(slot, c, Append(b \o slot[s].partial, i),
                           Cardinality(Kids(slot, s)))
             u == HashPut(slot, c, h)
  <1>1. RehashesLone(b, s) => c \in DOMAIN slot
    BY LoneSealedKid
  <1>2. \/ slot' = slot
        \/ RehashesLone(b, s) /\ (slot' = u \/ slot' = Materialized(slot, c))
    BY DEF Enter, Fail, Change, HashPut
  <1>3. IsTree(slot)
    BY DEF TrieInv, Hung
  <1> HIDE DEF i, c, h
  <1>4. CASE RehashesLone(b, s) /\ slot' = u
    <2>1. Branching(u) /\ Shallow(u)
      BY <1>1, <1>3, <1>4, HashPutSettles
    <2> HIDE DEF u
    <2> QED
      BY <1>4, <2>1 DEF Settling
  <1> HIDE DEF u
  <1> QED
    BY <1>1, <1>2, <1>3, <1>4, ReadSettles, SameSettles

LEMMA HashSettles == NoneIsNoValue /\ IInv /\ Typed /\ Settling /\ HashStep => Settling'
  <1> SUFFICES ASSUME NoneIsNoValue, IInv, Typed, Settling, HashStep PROVE Settling'
    OBVIOUS
  <1>1. TrieInv /\ Hashing
    BY DEF IInv, HashStep, HashRoot, HashChild, HashFinish
  <1>2. IsTree(slot) /\ IsTrie(slot) /\ slot # EmptyTrie /\ Root \in DOMAIN slot
    BY <1>1, OnHash
  <1>3. CASE HashRoot
    BY <1>1, <1>2, <1>3, EnterSettles DEF HashRoot
  <1>4. CASE HashChild
    BY <1>1, <1>4, ChildEntered, EnterSettles
  <1>5. CASE HashFinish
    <2> DEFINE d == Last(walk).slot
               b == SubSeq(buf, 1, Last(walk).lead)
               t == Updated(slot, d)
               h == HashNode(t, d, b, Last(walk).siblings)
               u == HashPut(t, d, h)
    <2>1. d \in DOMAIN slot
      BY <1>1, <1>5, HashTop DEF HashFinish
    <2>2. slot' = t \/ slot' = u
      BY <1>5 DEF HashFinish, HashPut, Change
    <2> HIDE DEF d, h
    <2>3. SameShape(slot, t)
      BY <1>2, <2>1, ValueUpdated
    <2>4. \A x \in DOMAIN slot : t[x].value = None <=> slot[x].value = None
      BY <1>2, <2>1, UpdatedValue
    <2> HIDE DEF t
    <2>5. DOMAIN t = DOMAIN slot /\ IsTrie(t)
      BY <1>2, <2>3, ShapeKept DEF SameShape, IsTree
    <2>6. SameShape(t, u) /\ \A x \in DOMAIN t : u[x].value = t[x].value
      BY <2>1, <2>5, HashSet
    <2> HIDE DEF u
    <2>7. SameShape(slot, u)
      BY <2>3, <2>6 DEF SameShape
    <2>8. \A x \in DOMAIN slot : u[x].value = None <=> slot[x].value = None
      BY <2>4, <2>5, <2>6
    <2>9. Branching(t) /\ Shallow(t) /\ Branching(u) /\ Shallow(u)
      BY <1>2, <2>3, <2>4, <2>7, <2>8, ShapeSettles
    <2> QED
      BY <2>2, <2>9 DEF Settling
  <1> QED
    BY <1>3, <1>4, <1>5 DEF HashStep

LEMMA NextSettles ==
  NoneIsNoValue /\ IInv /\ Typed /\ Settling /\ [Next]_vars => Settling'
  <1> SUFFICES ASSUME NoneIsNoValue, IInv, Typed, Settling, [Next]_vars PROVE Settling'
    OBVIOUS
  <1>1. TrieInv
    BY DEF IInv
  <1>2. CASE \E r \in Abstract!Requests : Begin(r)
    BY <1>2, SameSettles DEF Begin
  <1>3. CASE UNCHANGED vars
    BY <1>3, SameSettles DEF vars
  <1>4. CASE InsertStep
    BY <1>1, <1>4, InsertIntoEmptySettles, ReplaceSettles, InsertAboveSettles,
       InsertBelowSettles, InsertForkSettles DEF InsertStep
  <1>5. CASE RemoveStep
    <2>1. CASE RemoveFindsNothing \/ RemoveLeaf
      BY <2>1, SameSettles DEF RemoveFindsNothing, RemoveLeaf, Change
    <2> QED
      BY <1>1, <1>5, <2>1, ClearValueSettles, ClearAndMergeSettles DEF RemoveStep
  <1>6. CASE RemovePrefixStep
    BY <1>6, SameSettles DEF RemovePrefixStep, PrefixFindsNothing, PrefixFound, Change
  <1>7. CASE Descend \/ Collect \/ Unwind
    BY <1>1, <1>7, DescendSettles, CollectSettles, UnwindSettles
  <1>8. CASE HashStep
    BY <1>8, HashSettles
  <1> QED
    BY <1>2, <1>3, <1>4, <1>5, <1>6, <1>7, <1>8 DEF Next, Step, Mutate

-----------------------------------------------------------------------------
(* What else lies on a path of a key, and what a call answers.             *)

(* Only callers' keys are held, and answers are values of theirs. *)
KeysHeld == \A k, d : Has(slot, k, d) => k \in Keys
Told == out \in Data \cup {None, Done, Err}

(* No walk outlives its call, and the path buffer leads to a slot. *)
Standing ==
  /\ pc \notin {"collect", "hash"} => walk = << >>
  /\ buf = << >> \/ buf \in DOMAIN slot

(* A call in progress has not answered. *)
Unanswered == req # None => out = None

LEMMA MutateControl ==
  Mutate => /\ UNCHANGED <<req, out>> \/ req' = None
            /\ (pc \notin {"collect", "hash"} => walk = << >>)
                 => (pc' \notin {"collect", "hash"} => walk' = << >>)
  <1> SUFFICES ASSUME Mutate
               PROVE  /\ UNCHANGED <<req, out>> \/ req' = None
                      /\ (pc \notin {"collect", "hash"} => walk = << >>)
                           => (pc' \notin {"collect", "hash"} => walk' = << >>)
    OBVIOUS
  <1> USE DEF OnNode, Descending, Unwinding, Change, Return, MaterializeFails, Fail, control
  <1>1. CASE Descend
    BY <1>1 DEF Descend
  <1>2. CASE InsertStep
    BY <1>2 DEF InsertStep, InsertIntoEmpty, Replace, InsertAbove, InsertBelow, InsertFork
  <1>3. CASE RemoveStep
    BY <1>3 DEF RemoveStep, RemoveFindsNothing, RemovesAt, ClearValue, ClearAndMerge,
                RemoveLeaf
  <1>4. CASE RemovePrefixStep
    BY <1>4 DEF RemovePrefixStep, PrefixFindsNothing, PrefixFound
  <1>5. CASE Collect
    BY <1>5 DEF Collect, StartMaterialize, CollectChild, CollectUp
  <1>6. CASE Unwind
    BY <1>6 DEF Unwind, UnwindsInto, UnwindRoot, UnwindDetach, UnwindMerge, UnwindPop
  <1> QED
    BY <1>1, <1>2, <1>3, <1>4, <1>5, <1>6 DEF Mutate

LEMMA EffectTells ==
  ASSUME NoneIsNoValue, IInv, Held, Held', KeysHeld, Told, Effect
  PROVE  KeysHeld' /\ Told'
  <1>1. CASE Quiet
    BY <1>1 DEF Quiet, Keeps, KeysHeld, Told
  <1>2. CASE Begins
    BY <1>2 DEF Begins, Keeps, KeysHeld, Told
  <1>3. CASE Finishes
    <2>1. req # None /\ Outcome /\ Control
      BY <1>3 DEF Finishes, IInv, TrieInv
    <2>2. ASSUME NEW k, NEW r, Was(k, r) PROVE r \in Data \cup {None}
      BY <2>2 DEF Was, Has, Held, Typed, IsValue
    <2>3. CASE req.op = "insert" /\ Puts(slot, slot', Key, req.val) /\ Was(Key, out')
      <3>1. Key \in Keys
        BY <2>1, <2>3, NewValue
      <3>2. KeysHeld'
        BY <2>3, <3>1 DEF Puts, KeysHeld
      <3> QED
        BY <2>2, <2>3, <3>2 DEF Told
    <2>4. CASE req.op = "remove" /\ Loses(slot, slot', {Key}) /\ Was(Key, out')
      BY <2>2, <2>4 DEF Loses, KeysHeld, Told
    <2>5. CASE /\ req.op = "remove_prefix" /\ out' = Done
               /\ Loses(slot, slot', {k \in Seq(Index) : IsPrefix(Key, k)})
      BY <2>5 DEF Loses, KeysHeld, Told
    <2>6. CASE Keeps(slot, slot') /\ out' \in {Done, Err}
      BY <2>6 DEF Keeps, KeysHeld, Told
    <2> QED
      BY <2>1, <2>3, <2>4, <2>5, <2>6 DEF Outcome
  <1> QED
    BY <1>1, <1>2, <1>3 DEF Effect

LEMMA EnterStands ==
  ASSUME TrieInv, Hashing, NEW s \in DOMAIN slot, NEW siblings, NEW w,
         Enter(s, s, siblings, w)
  PROVE  Standing' /\ (UNCHANGED <<req, out>> \/ req' = None)
  <1> DEFINE c == Child(slot, s, CHOOSE i \in SealedKids(s) : TRUE)
  <1>1. CASE buf' = << >> /\ Fail
    BY <1>1 DEF Fail, Change, Return, Standing
  <1>2. CASE buf' = s /\ UNCHANGED <<req, pc, out>> /\ DOMAIN slot' = DOMAIN slot
    BY <1>2 DEF Hashing, Standing
  <1> QED
    BY <1>1, <1>2 DEF Enter, Materialized

LEMMA HashStands ==
  ASSUME IInv, HashStep
  PROVE  Standing' /\ (UNCHANGED <<req, out>> \/ req' = None)
  <1>1. TrieInv /\ Hashing
    BY DEF IInv, HashStep, HashRoot, HashChild, HashFinish
  <1>2. CASE HashRoot
    <2>1. Root \in DOMAIN slot /\ Enter(Root, Root, 0, << >>)
      BY <1>1, <1>2, OnHash DEF HashRoot, Root
    <2> QED
      BY <1>1, <2>1, EnterStands
  <1>3. CASE HashChild
    BY <1>3, ChildEntered, EnterStands
  <1>4. CASE HashFinish
    <2> DEFINE d == Last(walk).slot
               b == SubSeq(buf, 1, Last(walk).lead)
               t == Updated(slot, d)
    <2>1. d \in DOMAIN slot /\ b = d /\ IsTree(slot)
      BY <1>1, <1>4, HashTop, OnHash DEF HashFinish
    <2>2. \/ Return(Done) /\ buf' = << >>
          \/ /\ DOMAIN slot' = DOMAIN t /\ buf' = b
             /\ UNCHANGED <<req, pc, out>>
      BY <1>4 DEF HashFinish, Change
    <2> HIDE DEF d, b
    <2>3. DOMAIN t = DOMAIN slot
      BY <2>1, ValueUpdated DEF SameShape
    <2> HIDE DEF t
    <2> QED
      BY <1>1, <2>1, <2>2, <2>3 DEF Return, Hashing, Standing
  <1> QED
    BY <1>2, <1>3, <1>4 DEF HashStep

LEMMA NextStands ==
  IInv /\ Standing /\ Unanswered /\ [Next]_vars => Standing' /\ Unanswered'
  <1> SUFFICES ASSUME IInv, Standing, Unanswered, [Next]_vars
               PROVE  Standing' /\ Unanswered'
    OBVIOUS
  <1>1. CASE \E r \in Abstract!Requests : Begin(r)
    <2>1. slot' = slot /\ walk' = walk /\ buf' = buf /\ req = None /\ out' = None
      BY <1>1 DEF Begin
    <2>2. walk = << >>
      BY <2>1 DEF IInv, TrieInv, Control
    <2> QED
      BY <2>1, <2>2 DEF Standing, Unanswered
  <1>2. CASE Mutate /\ UNCHANGED <<buf, digest>>
    <2>1. /\ UNCHANGED <<req, out>> \/ req' = None
          /\ pc' \notin {"collect", "hash"} => walk' = << >>
      BY <1>2, MutateControl DEF Standing
    <2>2. buf' = << >>
      BY <1>2, MutateStaysOut DEF IInv, BufferHolds
    <2> QED
      BY <2>1, <2>2 DEF Standing, Unanswered
  <1>3. CASE HashStep
    BY <1>3, HashStands DEF Unanswered
  <1>4. CASE UNCHANGED vars
    BY <1>4 DEF vars, Standing, Unanswered
  <1> QED
    BY <1>1, <1>2, <1>3, <1>4 DEF Next, Step

(* Every slot lies on the path of a key. *)
LEMMA OnAKey ==
  ASSUME IsTree(slot), Settling, KeysHeld, NEW x \in DOMAIN slot
  PROVE  x \in Paths /\ Full(slot, x) \in Paths
  <1>1. PICK y \in DOMAIN slot : IsPrefix(x, y) /\ slot[y].value # None
    BY LeadsToValue DEF Settling
  <1> DEFINE k == Full(slot, y)
  <1>2. k \in Keys
    <2>1. Has(slot, k, slot[y].value.data)
      BY <1>1 DEF Has
    <2> QED
      BY <2>1 DEF KeysHeld
  <1>3. /\ x \in Seq(Index) /\ y \in Seq(Index) /\ k \in Seq(Index)
        /\ Full(slot, x) \in Seq(Index) /\ IsPrefix(y, k)
    BY FullExtends DEF IsTree
  <1>4. IsPrefix(Full(slot, x), k)
    <2>1. CASE x = y
      BY <1>3, <2>1, PrefixOrder
    <2>2. CASE x # y
      <3>1. IsPrefix(Full(slot, x), y)
        BY <1>1, <2>2 DEF IsTree, Apart, IsStrictPrefix
      <3> QED
        BY <1>3, <3>1, PrefixTransitive
    <2> QED
      BY <2>1, <2>2
  <1>5. IsPrefix(x, k)
    BY <1>1, <1>3, PrefixTransitive
  <1> HIDE DEF k
  <1>6. ASSUME NEW p \in Seq(Index), IsPrefix(p, k) PROVE p \in Paths
    <2>1. Len(p) \in 0 .. Len(k)
      BY <1>3, <1>6, PrefixOrder
    <2>2. p = SubSeq(k, 1, Len(p))
      BY <1>3, <1>6, <2>1, PrefixIsInitial
    <2>3. p \in {SubSeq(k, 1, n) : n \in 0 .. Len(k)}
      BY <2>1, <2>2
    <2> QED
      BY <1>2, <2>3 DEF Paths
  <1> QED
    BY <1>3, <1>4, <1>5, <1>6

LEMMA RootOnAKey == Keys # {} => Root \in Paths
  <1> SUFFICES ASSUME NEW k \in Keys PROVE Root \in Paths
    OBVIOUS
  <1>1. k \in Seq(Index) /\ Len(k) \in Nat
    BY KeysAssumption
  <1>2. SubSeq(k, 1, 0) = Root /\ 0 \in 0 .. Len(k)
    BY <1>1 DEF Root
  <1> QED
    BY <1>2 DEF Paths

LEMMA TypesHold ==
  ASSUME Keys # {}, IInv, Typed, Settling, KeysHeld, Told, Standing
  PROVE  TypeOK
  <1>1. IsTree(slot) /\ IsTrie(slot) /\ Control /\ Descent /\ Collecting /\ HashWalk
    BY DEF IInv, TrieInv, Hung, IsTree
  <1>2. \A s \in DOMAIN slot : s \in Paths /\ Full(slot, s) \in Paths
    BY <1>1, OnAKey
  <1>3. \A s \in DOMAIN slot : DOMAIN slot[s] = {"partial", "value", "hash"}
    <2> SUFFICES ASSUME NEW s \in DOMAIN slot
                 PROVE  DOMAIN slot[s] = {"partial", "value", "hash"}
      OBVIOUS
    <2>1. PICK a, b, c : slot[s] = [partial |-> a, value |-> b, hash |-> c]
      BY <1>1 DEF IsTrie
    <2> QED
      BY <2>1
  <1>4. \A n \in DOMAIN frames : frames[n] \in DOMAIN slot
    BY <1>1, ElementOfSeq DEF Descent
  <1>5. ASSUME NEW n \in DOMAIN walk
        PROVE  walk[n].slot \in DOMAIN slot /\ walk[n].left \subseteq Kids(slot, walk[n].slot)
    <2>1. CASE pc = "collect"
      <3>1. walk[n] \in MutationFrame
        BY <1>1, <1>5, <2>1, ElementOfSeq DEF Collecting
      <3> QED
        BY <1>1, <1>5, <2>1, <3>1 DEF MutationFrame, Collecting
    <2>2. CASE pc = "hash"
      <3>1. walk[n] \in HashFrame
        BY <1>1, <1>5, <2>2, ElementOfSeq DEF HashWalk
      <3>2. \A i \in walk[n].left : i \in Kids(slot, walk[n].slot)
        BY <1>1, <1>5, <2>2 DEF HashWalk
      <3> QED
        BY <3>1, <3>2 DEF HashFrame
    <2>3. CASE pc \notin {"collect", "hash"}
      <3>1. walk = << >>
        BY <2>3 DEF Standing
      <3> QED
        BY <1>5, <3>1
    <2> QED
      BY <2>1, <2>2, <2>3
  <1>6. buf \in Paths
    BY <1>2, RootOnAKey DEF Standing, Root
  <1> QED
    BY <1>1, <1>2, <1>3, <1>4, <1>5, <1>6 DEF TypeOK, Control, Typed, Told

(* For every key set, arity and store, at every step of every call and     *)
(* after every failure (node.rs, ops.rs, hash.rs): all nodes hang          *)
(* together, a valueless node has two children or more, the root is        *)
(* inline, and every slot lies on the path of a key.                       *)
THEOREM AlwaysSettled ==
  ASSUME NoneIsNoValue, StartsSettled, Keys # {}
  PROVE  Spec => []Settled
  <1> DEFINE More == Settling /\ KeysHeld /\ Told /\ Standing /\ Unanswered
  <1>1. Init => IInv /\ Held /\ More
    <2> SUFFICES ASSUME Init PROVE IInv /\ Held /\ More
      OBVIOUS
    <2>1. /\ slot \in Starts /\ req = None /\ out = None /\ walk = << >> /\ buf = << >>
      BY DEF Init
    <2>2. Settling
      BY <2>1 DEF StartsSettled, Settling
    <2>3. KeysHeld
      BY <2>1, StartsAssumption DEF KeysHeld, Has
    <2>4. Told /\ Standing /\ Unanswered
      BY <2>1 DEF Told, Standing, Unanswered
    <2> QED
      BY <2>2, <2>3, <2>4, InitHolds, StartHolds
  <1>2. IInv /\ Held /\ More /\ [Next]_vars => IInv' /\ Held' /\ More'
    <2> SUFFICES ASSUME IInv, Held, More, [Next]_vars PROVE IInv' /\ Held' /\ More'
      OBVIOUS
    <2>1. IInv' /\ Held' /\ Effect
      BY NextKeeps, NextHolds
    <2>2. KeysHeld' /\ Told'
      BY <2>1, EffectTells
    <2>3. Settling'
      BY NextSettles DEF Held
    <2>4. Standing' /\ Unanswered'
      BY NextStands
    <2> QED
      BY <2>1, <2>2, <2>3, <2>4
  <1>3. IInv /\ Held /\ More => Settled
    <2> SUFFICES ASSUME IInv, Held, More PROVE Settled
      OBVIOUS
    <2>1. TypeOK
      BY TypesHold DEF Held
    <2>2. NoOrphans(slot) /\ (slot # EmptyTrie => Root \in DOMAIN slot /\ Inline(slot, Root))
      BY DEF IInv, TrieInv, Hung, RootInline, IsTree, IsTrie
    <2> QED
      BY <2>1, <2>2 DEF Settled, Settling, Branching, Branches
  <1> HIDE DEF More
  <1> QED
    BY <1>1, <1>2, <1>3, PTL DEF Spec

(* A hash without a sensitive node reads no sealed edge, so it cannot fail *)
(* with the store's error (hash.rs).                                       *)
THEOREM HashIsTotal == Spec => HashNeverFails
  <1> DEFINE Kept == Sensitive = {} /\ req # None /\ req.op = "hash" => out' # Err
  <1>1. Init => IInv /\ Standing /\ Unanswered
    BY InitHolds DEF Init, Standing, Unanswered
  <1>2. IInv /\ Standing /\ Unanswered /\ [Next]_vars
          => IInv' /\ Standing' /\ Unanswered'
    BY NextKeeps, NextStands
  <1>3. IInv /\ Standing /\ Unanswered /\ [Next]_vars => [Kept]_vars
    <2> SUFFICES ASSUME IInv, Unanswered, Next,
                        Sensitive = {}, req # None, req.op = "hash"
                 PROVE  out' # Err
      OBVIOUS
    <2>1. pc = "hash" /\ out = None
      BY DEF IInv, TrieInv, Control, Unanswered
    <2>2. HashStep
      BY <2>1, MutateStaysOut DEF Next, Step, Begin
    <2>3. \A b, s : ~RehashesLone(b, s)
      BY DEF RehashesLone, IsSensitive
    <2>4. \A b, s, siblings, w : Enter(b, s, siblings, w) => out' = out
      BY <2>3 DEF Enter
    <2>5. out' = out \/ out' = Done
      BY <2>2, <2>4 DEF HashStep, HashRoot, HashChild, HashFinish, Change, Return
    <2> QED
      BY <2>1, <2>5, ResultsAssumption
  <1> HIDE DEF Kept
  <1>4. Spec => [][Kept]_vars
    BY <1>1, <1>2, <1>3, PTL DEF Spec
  <1>5. [][Kept]_vars => HashNeverFails
    BY DEF Kept, HashNeverFails
  <1> QED
    BY <1>4, <1>5

-----------------------------------------------------------------------------
(* Hashes.                                                                 *)

(* What the hasher is given for the node r at s. *)
Input(s, r, lone, kids) ==
  [leading |-> s, partial |-> r.partial,
   value |-> IF r.value = None THEN None ELSE [data |-> r.value.data, splice |-> kids],
   lone |-> lone, kids |-> kids]

IsLone(t, s) == Lone(s, Cardinality(Siblings(t, s)))

(* The recursion of Fresh: f hashes the nodes below s. *)
KidsBy(t, f, s) == [i \in Kids(t, s) |-> f[Child(t, s, i)]]
FreshAt(t, f, s) == Input(s, t[s], IsLone(t, s), KidsBy(t, f, s))

FreshFrom(t) == CHOOSE f : f = [s \in DOMAIN t |-> FreshAt(t, f, s)]
FreshKids(t, s) == [i \in Kids(t, s) |-> Fresh(t, Child(t, s, i))]

LEMMA FreshIsFrom ==
  ASSUME NEW t, NEW s
  PROVE  Fresh(t, s) = FreshFrom(t)[s]
  BY DEF Fresh, FreshFrom, FreshAt, Input, KidsBy, IsLone

(* f hashes the slots n deep and deeper. *)
Deep(t, n) == {s \in DOMAIN t : Len(s) >= n}
HashesDeep(t, f, n) == f = [s \in Deep(t, n) |-> FreshAt(t, f, s)]

(* Hashes of the slots n deep give those of the slots above. *)
LEMMA HashOneUp ==
  ASSUME NEW t, IsTree(t), NEW n \in Nat, n > 0, NEW f, HashesDeep(t, f, n)
  PROVE  \E g : HashesDeep(t, g, n - 1)
  <1> DEFINE D == Deep(t, n)
             E == Deep(t, n - 1)
             g == [s \in E |-> FreshAt(t, f, s)]
  <1>1. \A s \in D : f[s] = FreshAt(t, f, s)
    BY DEF HashesDeep
  <1>2. ASSUME NEW s \in E PROVE FreshAt(t, g, s) = FreshAt(t, f, s)
    <2>1. s \in DOMAIN t /\ Len(s) >= n - 1
      BY DEF Deep
    <2>2. ASSUME NEW i \in Kids(t, s) PROVE g[Child(t, s, i)] = f[Child(t, s, i)]
      <3> DEFINE c == Child(t, s, i)
      <3>1. c \in DOMAIN t /\ i \in Index
        BY DEF Kids
      <3>2. /\ Len(c) = Len(Full(t, s)) + 1
            /\ Len(s) \in Nat /\ Len(Full(t, s)) \in Nat /\ Len(s) <= Len(Full(t, s))
        BY <2>1, <3>1, ChildType, FullExtends DEF IsTree
      <3> HIDE DEF c
      <3>3. c \in D /\ c \in E
        BY <2>1, <3>1, <3>2 DEF Deep
      <3>4. g[c] = FreshAt(t, f, c)
        BY <3>3
      <3> HIDE DEF g
      <3> QED
        BY <1>1, <3>3, <3>4 DEF c
    <2> HIDE DEF g
    <2>3. KidsBy(t, g, s) = KidsBy(t, f, s)
      BY <2>2 DEF KidsBy
    <2> QED
      BY <2>3 DEF FreshAt
  <1>3. HashesDeep(t, g, n - 1)
    BY <1>2 DEF HashesDeep
  <1> QED
    BY <1>3

(* In a trie of bounded depth the recursion has a solution. *)
LEMMA FreshSolves ==
  ASSUME NEW t, IsTree(t), Shallow(t), NEW s \in DOMAIN t
  PROVE  Fresh(t, s) = Input(s, t[s], IsLone(t, s), FreshKids(t, s))
  <1>1. PICK d \in Nat : \A x \in DOMAIN t : Len(x) <= d
    BY DEF Shallow
  <1>2. \A x \in DOMAIN t : Len(x) \in Nat
    BY FullExtends DEF IsTree
  <1> DEFINE S == {n \in 0 .. d + 1 : \E f : HashesDeep(t, f, n)}
  <1>3. d + 1 \in S
    <2>1. Deep(t, d + 1) = {}
      BY <1>1, <1>2 DEF Deep
    <2>2. HashesDeep(t, [x \in {} |-> x], d + 1)
      BY <2>1 DEF HashesDeep
    <2> QED
      BY <2>2
  <1>4. IsBitmap(S)
    <2>1. IsFiniteSet(0 .. d + 1) /\ S \subseteq 0 .. d + 1
      BY FS_Interval
    <2> QED
      BY <2>1, FS_Subset DEF IsBitmap
  <1>5. Lowest(S) \in S /\ \A n \in S : Lowest(S) <= n
    <2> HIDE DEF S
    <2> QED
      BY <1>3, <1>4, LowestMember
  <1>6. Lowest(S) = 0
    <2> SUFFICES ASSUME NEW k, k = Lowest(S), k # 0 PROVE FALSE
      OBVIOUS
    <2>1. k \in 0 .. d + 1 /\ (\E f : HashesDeep(t, f, k)) /\ \A n \in S : k <= n
      BY <1>5
    <2>2. k \in Nat /\ k > 0 /\ k - 1 \in 0 .. d + 1
      BY <2>1
    <2>3. \E g : HashesDeep(t, g, k - 1)
      BY <2>1, <2>2, HashOneUp
    <2>4. k - 1 \in S
      BY <2>2, <2>3
    <2> QED
      BY <2>1, <2>2, <2>4
  <1>7. PICK f : HashesDeep(t, f, 0)
    BY <1>5, <1>6
  <1>8. Deep(t, 0) = DOMAIN t
    <2>1. \A x \in DOMAIN t : Len(x) >= 0
      BY <1>2
    <2> QED
      BY <2>1, Zenon DEF Deep
  <1> DEFINE Solves(g) == g = [x \in DOMAIN t |-> FreshAt(t, g, x)]
  <1>9. Solves(f)
    BY <1>7, <1>8 DEF HashesDeep
  <1>10. FreshFrom(t) = CHOOSE g : Solves(g)
    BY DEF FreshFrom
  <1>11. Solves(FreshFrom(t))
    <2> HIDE DEF Solves
    <2> QED
      BY <1>9, <1>10
  <1>12. FreshFrom(t)[s] = FreshAt(t, FreshFrom(t), s)
    BY <1>11
  <1>13. KidsBy(t, FreshFrom(t), s) = FreshKids(t, s)
    BY FreshIsFrom DEF KidsBy, FreshKids
  <1> QED
    BY <1>12, <1>13, FreshIsFrom DEF FreshAt

(* A sealed node's hash is of the node as it stands, in one form or the    *)
(* other, and its value is spliced with the same hashes.                   *)
WholeAt(t, s) ==
  /\ t[s].hash = Input(s, t[s], t[s].hash.lone, ChildHashes(t, s))
  /\ t[s].hash.lone \in BOOLEAN
  /\ t[s].value # None => t[s].value.splice = ChildHashes(t, s)

SealedIn(t, p) == {i \in Kids(t, p) : ~Inline(t, Child(t, p, i))}

(* s is the only sealed child of an inline sensitive node. *)
OnlySealedIn(t, s) ==
  \E p \in DOMAIN t :
    /\ Full(t, p) = Front(s) /\ Full(t, p) \in Sensitive
    /\ Inline(t, p) /\ SealedIn(t, p) = {Last(s)}

(* It is in the right form, or no walk will take it as it is. *)
FormAt(t, s) == t[s].hash.lone = IsLone(t, s) \/ OnlySealedIn(t, s)

Hashed(t) == \A s \in DOMAIN t : ~Inline(t, s) => WholeAt(t, s) /\ FormAt(t, s)

LEMMA SiblingsAreKids ==
  ASSUME NEW t, IsTrie(t), NEW p \in DOMAIN t, NEW s, s # Root, s \in Seq(Index),
         Full(t, p) = Front(s)
  PROVE  /\ Siblings(t, s) = Kids(t, p)
         /\ s = Child(t, p, Last(s)) /\ Last(s) \in Index
  <1>1. s = Append(Front(s), Last(s)) /\ Last(s) \in Index
    BY FrontType DEF Root
  <1> QED
    BY <1>1 DEF Siblings, Kids, Child

(* Every slot but the root has a parent. *)
LEMMA HasParent ==
  ASSUME NEW t, IsTree(t), NEW s \in DOMAIN t, s # Root
  PROVE  \E p \in DOMAIN t :
           /\ Full(t, p) = Front(s) /\ Siblings(t, s) = Kids(t, p)
           /\ Last(s) \in Kids(t, p) /\ s = Child(t, p, Last(s))
           /\ \A q \in DOMAIN t : Full(t, q) = Front(s) => q = p
  <1>1. PICK p \in DOMAIN t : Full(t, p) = Front(s)
    BY DEF IsTree, NoOrphans
  <1>2. IsTrie(t) /\ s \in Seq(Index)
    BY FullExtends DEF IsTree
  <1>3. /\ Siblings(t, s) = Kids(t, p)
        /\ s = Child(t, p, Last(s)) /\ Last(s) \in Index
    BY <1>1, <1>2, SiblingsAreKids
  <1>4. Last(s) \in Kids(t, p)
    BY <1>3 DEF Kids
  <1>5. \A q \in DOMAIN t : Full(t, q) = Front(s) => q = p
    BY <1>1, FullIsUnique
  <1> QED
    BY <1>1, <1>3, <1>4, <1>5

(* An edit that seals nothing and leaves every sealed node in place. *)
Unseals(t, u) ==
  /\ \A s \in DOMAIN t : ~Inline(t, s) => s \in DOMAIN u
  /\ \A s \in DOMAIN u : ~Inline(u, s) => s \in DOMAIN t /\ u[s] = t[s]

LEMMA RegionStands ==
  ASSUME NEW t, IsTree(t), Closed(t), NEW u, IsTree(u), Closed(u), Unseals(t, u),
         NEW s \in DOMAIN u, ~Inline(u, s)
  PROVE  /\ s \in DOMAIN t /\ u[s] = t[s] /\ ~Inline(t, s)
         /\ Full(u, s) = Full(t, s) /\ Kids(u, s) = Kids(t, s)
         /\ ChildHashes(u, s) = ChildHashes(t, s)
  <1>1. s \in DOMAIN t /\ u[s] = t[s] /\ ~Inline(t, s)
    BY DEF Unseals, Inline
  <1>2. Full(u, s) = Full(t, s) /\ \A i : Child(u, s, i) = Child(t, s, i)
    BY <1>1 DEF Full, Child
  <1>3. ASSUME NEW i \in Kids(u, s)
        PROVE  i \in Kids(t, s) /\ u[Child(u, s, i)].hash = t[Child(t, s, i)].hash
    <2>1. Child(u, s, i) \in DOMAIN u /\ ~Inline(u, Child(u, s, i))
      BY DEF Closed, Kids
    <2> QED
      BY <1>2, <2>1 DEF Unseals, Kids
  <1>4. ASSUME NEW i \in Kids(t, s) PROVE i \in Kids(u, s)
    <2>1. Child(t, s, i) \in DOMAIN t /\ ~Inline(t, Child(t, s, i))
      BY <1>1 DEF Closed, Kids
    <2> QED
      BY <1>2, <2>1 DEF Unseals, Kids
  <1>5. Kids(u, s) = Kids(t, s)
    BY <1>3, <1>4
  <1>6. ChildHashes(u, s) = ChildHashes(t, s)
    BY <1>3, <1>5 DEF ChildHashes
  <1> QED
    BY <1>1, <1>2, <1>5, <1>6

LEMMA TwoAreNotOne ==
  ASSUME NEW K \in SUBSET Index, NEW i \in K, NEW j \in K, i # j
  PROVE  Cardinality(K) # 1
  <1> SUFFICES ASSUME Cardinality(K) = 1 PROVE FALSE
    OBVIOUS
  <1>1. PICK k \in Index : K = {k}
    BY OneKid
  <1> QED
    BY <1>1

(* Beside another sealed slot a slot is in the form for siblings. *)
LEMMA SealedTwins ==
  ASSUME NEW t, NEW s, Last(s) \in Index, s = Append(Front(s), Last(s)), s \in DOMAIN t,
         FormAt(t, s), NEW j \in Index, j # Last(s),
         Append(Front(s), j) \in DOMAIN t, ~Inline(t, Append(Front(s), j))
  PROVE  t[s].hash.lone = FALSE /\ IsLone(t, s) = FALSE
  <1>1. {Last(s), j} \subseteq Siblings(t, s) /\ Siblings(t, s) \in SUBSET Index
    BY DEF Siblings
  <1>2. Cardinality(Siblings(t, s)) # 1
    BY <1>1, TwoAreNotOne
  <1>3. IsLone(t, s) = FALSE
    BY <1>2 DEF IsLone, Lone
  <1>4. ~OnlySealedIn(t, s)
    <2> SUFFICES ASSUME NEW p \in DOMAIN t, Full(t, p) = Front(s), SealedIn(t, p) = {Last(s)}
                 PROVE  FALSE
      BY DEF OnlySealedIn
    <2>1. j \in SealedIn(t, p)
      BY DEF SealedIn, Kids, Child
    <2> QED
      BY <2>1
  <1> QED
    BY <1>3, <1>4 DEF FormAt

(* An edit that seals nothing makes no hash stale. *)
LEMMA UnsealingKeepsHashes ==
  ASSUME NEW t, IsTree(t), Closed(t), Hashed(t),
         NEW u, IsTree(u), Closed(u), Unseals(t, u), u # EmptyTrie => Inline(u, Root)
  PROVE  Hashed(u)
  <1> SUFFICES ASSUME NEW s \in DOMAIN u, ~Inline(u, s) PROVE WholeAt(u, s) /\ FormAt(u, s)
    BY DEF Hashed
  <1>1. /\ s \in DOMAIN t /\ u[s] = t[s] /\ ~Inline(t, s)
        /\ ChildHashes(u, s) = ChildHashes(t, s)
    BY RegionStands
  <1>2. WholeAt(t, s) /\ FormAt(t, s)
    BY <1>1 DEF Hashed
  <1>3. WholeAt(u, s)
    BY <1>1, <1>2 DEF WholeAt
  <1>4. s # Root
    BY HasRoot DEF IsTree
  <1>5. PICK p \in DOMAIN u :
          /\ Full(u, p) = Front(s) /\ Siblings(u, s) = Kids(u, p)
          /\ Last(s) \in Kids(u, p) /\ s = Child(u, p, Last(s))
    BY <1>4, HasParent
  <1>6. Last(s) \in Index /\ s = Append(Front(s), Last(s))
    BY <1>5 DEF Kids, Child
  <1>7. CASE ~Inline(u, p)
    <2>1. /\ p \in DOMAIN t /\ ~Inline(t, p) /\ Full(t, p) = Front(s)
          /\ Kids(t, p) = Kids(u, p)
      BY <1>5, <1>7, RegionStands
    <2>2. /\ Siblings(t, s) = Kids(t, p)
          /\ \A q \in DOMAIN t : Full(t, q) = Front(s) => q = p
      BY <1>1, <1>4, <2>1, HasParent
    <2>3. IsLone(t, s) = IsLone(u, s)
      BY <1>5, <2>1, <2>2 DEF IsLone
    <2>4. ~OnlySealedIn(t, s)
      BY <2>1, <2>2 DEF OnlySealedIn
    <2> QED
      BY <1>1, <1>2, <1>3, <2>3, <2>4 DEF FormAt
  <1>8. CASE Inline(u, p) /\ SealedIn(u, p) = {Last(s)}
    <2>1. CASE Front(s) \in Sensitive
      BY <1>3, <1>5, <1>8, <2>1 DEF FormAt, OnlySealedIn
    <2>2. CASE Front(s) \notin Sensitive
      <3>1. ~OnlySealedIn(t, s) /\ IsLone(t, s) = FALSE /\ IsLone(u, s) = FALSE
        BY <2>2 DEF OnlySealedIn, IsLone, Lone
      <3> QED
        BY <1>1, <1>2, <1>3, <3>1 DEF FormAt
    <2> QED
      BY <2>1, <2>2
  <1>9. CASE SealedIn(u, p) # {Last(s)}
    <2>1. Last(s) \in SealedIn(u, p)
      BY <1>5 DEF SealedIn
    <2>2. PICK j \in SealedIn(u, p) : j # Last(s)
      BY <1>9, <2>1
    <2>3. /\ j \in Index
          /\ Append(Front(s), j) \in DOMAIN u /\ ~Inline(u, Append(Front(s), j))
      BY <1>5, <2>2 DEF SealedIn, Kids, Child
    <2>4. Append(Front(s), j) \in DOMAIN t /\ ~Inline(t, Append(Front(s), j))
      BY <2>3, RegionStands
    <2>5. t[s].hash.lone = FALSE
      BY <1>1, <1>2, <1>6, <2>2, <2>3, <2>4, SealedTwins
    <2>6. {Last(s), j} \subseteq Siblings(u, s) /\ Siblings(u, s) \in SUBSET Index
      BY <1>6, <2>3 DEF Siblings
    <2>7. IsLone(u, s) = FALSE
      BY <2>2, <2>6, TwoAreNotOne DEF IsLone, Lone
    <2> QED
      BY <1>1, <1>3, <2>5, <2>7 DEF FormAt
  <1> QED
    BY <1>7, <1>8, <1>9

(* Where every child is sealed in the right form, and hashes what lies     *)
(* below it, the children's hashes are fresh.                              *)
LEMMA KidsFresh ==
  ASSUME NEW t, IsTree(t), Shallow(t), Hashed(t), NEW s \in DOMAIN t,
         \A i \in Kids(t, s) : LET c == Child(t, s, i)
                               IN  /\ ~Inline(t, c) /\ t[c].hash.lone = IsLone(t, c)
                                   /\ ChildHashes(t, c) = FreshKids(t, c)
  PROVE  ChildHashes(t, s) = FreshKids(t, s)
  <1>1. ASSUME NEW i \in Kids(t, s)
        PROVE  t[Child(t, s, i)].hash = Fresh(t, Child(t, s, i))
    <2> DEFINE c == Child(t, s, i)
    <2>1. c \in DOMAIN t /\ ~Inline(t, c) /\ t[c].hash.lone = IsLone(t, c)
      BY DEF Kids
    <2>2. ChildHashes(t, c) = FreshKids(t, c)
      OBVIOUS
    <2> HIDE DEF c
    <2>3. t[c].hash = Input(c, t[c], t[c].hash.lone, ChildHashes(t, c))
      BY <2>1 DEF Hashed, WholeAt
    <2>4. Fresh(t, c) = Input(c, t[c], IsLone(t, c), FreshKids(t, c))
      BY <2>1, FreshSolves
    <2>5. t[c].hash = Fresh(t, c)
      BY <2>1, <2>2, <2>3, <2>4
    <2> QED
      BY <2>5 DEF c
  <1> QED
    BY <1>1 DEF ChildHashes, FreshKids

(* Children of a sealed node are sealed in the right form. *)
LEMMA InRightForm ==
  ASSUME NEW t, IsTree(t), Closed(t), Hashed(t), NEW s \in DOMAIN t, ~Inline(t, s),
         NEW i \in Kids(t, s)
  PROVE  LET c == Child(t, s, i)
         IN  ~Inline(t, c) /\ t[c].hash.lone = IsLone(t, c)
  <1> DEFINE c == Child(t, s, i)
  <1>1. c \in DOMAIN t /\ ~Inline(t, c) /\ c # Root /\ Front(c) = Full(t, s)
    BY ChildHangs, HasRoot DEF Closed, IsTree, Root
  <1>2. FormAt(t, c)
    BY <1>1 DEF Hashed
  <1>3. \A p \in DOMAIN t : Full(t, p) = Front(c) => p = s
    BY <1>1, FullIsUnique
  <1>4. ~OnlySealedIn(t, c)
    BY <1>3 DEF OnlySealedIn
  <1> QED
    BY <1>1, <1>2, <1>4 DEF FormAt

(* A sealed node's children are sealed under fresh hashes. *)
LEMMA SealedKidsFresh ==
  ASSUME NEW t, IsTree(t), Closed(t), Shallow(t), Hashed(t),
         NEW s \in DOMAIN t, ~Inline(t, s)
  PROVE  ChildHashes(t, s) = FreshKids(t, s)
  <1> DEFINE B == {x \in DOMAIN t : ~Inline(t, x) /\ ChildHashes(t, x) # FreshKids(t, x)}
  <1> SUFFICES ASSUME B # {} PROVE FALSE
    OBVIOUS
  <1>1. PICK d \in Nat : \A x \in DOMAIN t : Len(x) <= d
    BY DEF Shallow
  <1>2. \A x \in B : Len(x) \in 0 .. d
    BY <1>1, FullExtends DEF IsTree
  <1>3. PICK x \in B : \A y \in B : Len(y) <= Len(x)
    <2> HIDE DEF B
    <2> QED
      BY <1>1, <1>2, Longest
  <1>4. x \in DOMAIN t /\ ~Inline(t, x) /\ ChildHashes(t, x) # FreshKids(t, x)
    BY <1>3
  <1>5. ASSUME NEW i \in Kids(t, x)
        PROVE  LET c == Child(t, x, i)
               IN  /\ ~Inline(t, c) /\ t[c].hash.lone = IsLone(t, c)
                   /\ ChildHashes(t, c) = FreshKids(t, c)
    <2> DEFINE c == Child(t, x, i)
    <2>1. ~Inline(t, c) /\ t[c].hash.lone = IsLone(t, c)
      BY <1>4, InRightForm
    <2>2. c \in DOMAIN t /\ i \in Index
      BY DEF Kids
    <2>3. /\ Len(c) = Len(Full(t, x)) + 1
          /\ Len(x) \in Nat /\ Len(Full(t, x)) \in Nat /\ Len(x) <= Len(Full(t, x))
      BY <1>4, <2>2, ChildType, FullExtends DEF IsTree
    <2> HIDE DEF c
    <2>4. ~(Len(c) <= Len(x))
      BY <2>3
    <2>5. c \notin B
      BY <1>3, <2>4
    <2> QED
      BY <2>1, <2>2, <2>5 DEF c
  <1> QED
    BY <1>4, <1>5, KidsFresh

LEMMA HashesValid ==
  ASSUME IsTree(slot), Closed(slot), Shallow(slot), Hashed(slot)
  PROVE  SealedHashValid
  <1> SUFFICES ASSUME NEW s \in DOMAIN slot, ~Inline(slot, s)
               PROVE  \/ slot[s].hash = Fresh(slot, s)
                      \/ /\ slot[s].hash = [Fresh(slot, s) EXCEPT !.lone = ~@]
                         /\ OnlySealed(s)
    BY DEF SealedHashValid
  <1> DEFINE x == slot[s].hash.lone
             K == FreshKids(slot, s)
             r == slot[s]
  <1>1. /\ slot[s].hash = Input(s, r, x, ChildHashes(slot, s))
        /\ x \in BOOLEAN
        /\ x = IsLone(slot, s) \/ OnlySealedIn(slot, s)
    BY DEF Hashed, WholeAt, FormAt
  <1>2. ChildHashes(slot, s) = K
    BY SealedKidsFresh
  <1>3. Fresh(slot, s) = Input(s, r, IsLone(slot, s), K)
    BY FreshSolves
  <1>4. CASE x = IsLone(slot, s)
    BY <1>1, <1>2, <1>3, <1>4
  <1>5. CASE x # IsLone(slot, s)
    <2>1. IsLone(slot, s) \in BOOLEAN
      BY DEF IsLone, Lone
    <2>2. x = ~IsLone(slot, s)
      BY <1>1, <1>5, <2>1
    <2> HIDE DEF x, K, r
    <2>3. [Fresh(slot, s) EXCEPT !.lone = ~@] = Input(s, r, x, K)
      BY <1>3, <2>2 DEF Input
    <2>4. OnlySealed(s)
      BY <1>1, <1>5 DEF OnlySealedIn, OnlySealed, SealedIn, SealedKids
    <2> QED
      BY <1>1, <1>2, <2>3, <2>4
  <1> QED
    BY <1>4, <1>5

(* An edit that seals no node and changes none that is sealed after it, of *)
(* a trie that stays shallow.                                              *)
PlainEdit(t, u) ==
  /\ \A s \in DOMAIN u : ~Inline(u, s) => s \in DOMAIN t /\ u[s] = t[s]
  /\ Shallow(t) => Shallow(u)

LEMMA PlainInTurn ==
  ASSUME NEW t, NEW u, NEW v, PlainEdit(t, u), PlainEdit(u, v)
  PROVE  PlainEdit(t, v)
  BY DEF PlainEdit, Inline

LEMMA SameIsPlain ==
  ASSUME NEW t
  PROVE  PlainEdit(t, t)
  BY DEF PlainEdit

LEMMA EdgeReadIsPlain ==
  ASSUME NEW t, IsTrie(t), NEW c \in DOMAIN t
  PROVE  PlainEdit(t, Materialized(t, c))
  <1> DEFINE u == HashPut(t, c, None)
  <1>1. u = Materialized(t, c)
    BY DEF Materialized, HashPut
  <1>2. u[c].hash = None /\ DOMAIN u = DOMAIN t
    BY HashSet DEF SameShape
  <1>3. \A x \in DOMAIN t : x # c => u[x] = t[x]
    BY DEF HashPut
  <1> HIDE DEF u
  <1>4. PlainEdit(t, u)
    BY <1>2, <1>3 DEF PlainEdit, Inline, Shallow
  <1> QED
    BY <1>1, <1>4

LEMMA ValuePutIsPlain ==
  ASSUME NEW t, IsTrie(t), NEW s \in DOMAIN t, Inline(t, s), NEW v
  PROVE  PlainEdit(t, ValuePut(t, s, v))
  <1> DEFINE u == ValuePut(t, s, v)
  <1>1. u[s].hash = None /\ DOMAIN u = DOMAIN t
    BY ValueSet DEF Inline, SameShape
  <1>2. \A x \in DOMAIN t : x # s => u[x] = t[x]
    BY DEF ValuePut
  <1> HIDE DEF u
  <1> QED
    BY <1>1, <1>2 DEF PlainEdit, Shallow, Inline, u

LEMMA GrownIsPlain ==
  ASSUME NEW t, IsTrie(t), NEW s, NEW i, NEW r, r.hash = None, NEW u, IsGrown(t, s, i, r, u)
  PROVE  PlainEdit(t, u)
  <1> DEFINE k == Child(t, s, i)
  <1>1. /\ DOMAIN u = DOMAIN t \cup {k} /\ u[k] = r /\ IsTree(u)
        /\ \A x \in DOMAIN t : u[x] = t[x]
    BY DEF IsGrown
  <1> HIDE DEF k
  <1>2. k \in Seq(Index)
    BY <1>1, FullExtends DEF IsTree
  <1>3. Shallow(t) => Shallow(u)
    BY <1>1, <1>2, ShallowGrows
  <1> QED
    BY <1>1, <1>3 DEF PlainEdit, Inline

LEMMA PushedIsPlain ==
  ASSUME NEW t, IsTrie(t), NEW s, NEW n, NEW m, NEW new, NEW old, NEW u,
         IsPushed(t, s, n, m, new, old, u), new.hash = None, old.hash = None
  PROVE  PlainEdit(t, u)
  <1>1. /\ DOMAIN u = DOMAIN t \cup {m} /\ u[m] = old /\ u[s] = new /\ IsTree(u)
        /\ \A x \in DOMAIN t \ {s} : u[x] = t[x]
    BY DEF IsPushed
  <1>2. m \in Seq(Index)
    BY <1>1, FullExtends DEF IsTree
  <1>3. Shallow(t) => Shallow(u)
    BY <1>1, <1>2, ShallowGrows
  <1> QED
    BY <1>1, <1>3 DEF PlainEdit, Inline

LEMMA MergedIsPlain ==
  ASSUME NEW t, NEW s, NEW i, NEW u, IsMerged(t, s, i, u), Inline(t, s)
  PROVE  PlainEdit(t, u)
  <1> DEFINE c == Child(t, s, i)
  <1>1. /\ DOMAIN u = DOMAIN t \ {c} /\ u[s].hash = None
        /\ \A x \in DOMAIN t \ {s, c} : u[x] = t[x]
    BY DEF IsMerged, Inline
  <1> HIDE DEF c
  <1> QED
    BY <1>1 DEF PlainEdit, Inline, Shallow

LEMMA CutIsPlain ==
  ASSUME NEW t, NEW d, NEW u, IsCut(t, d, u)
  PROVE  PlainEdit(t, u)
  <1>1. DOMAIN u \subseteq DOMAIN t /\ \A x \in DOMAIN u : u[x] = t[x]
    BY DEF IsCut
  <1> QED
    BY <1>1 DEF PlainEdit, Shallow

-----------------------------------------------------------------------------
(* The mutations are plain edits.                                          *)

LEMMA InsertIsPlain == TrieInv /\ InsertStep => PlainEdit(slot, slot')
  <1> SUFFICES ASSUME TrieInv, InsertStep PROVE PlainEdit(slot, slot')
    OBVIOUS
  <1>1. CASE InsertIntoEmpty
    <2> DEFINE leaf == LeafNode(Key, req.val)
               u    == Holding(EmptyTrie, Root, leaf)
    <2>1. slot' = u /\ leaf.hash = None
      BY <1>1 DEF InsertIntoEmpty, Change, LeafNode
    <2> HIDE DEF leaf
    <2>2. DOMAIN u = {Root} /\ u[Root] = leaf
      BY DEF Holding, EmptyTrie, Root
    <2> HIDE DEF u
    <2>3. Shallow(u)
      <3>1. \A s \in DOMAIN u : Len(s) <= 0
        BY <2>2 DEF Root
      <3> QED
        BY <3>1 DEF Shallow
    <2> QED
      BY <2>1, <2>2, <2>3 DEF PlainEdit, Inline
  <1>2. CASE Replace
    <2> DEFINE s == Top
               v == Unspliced(req.val)
               u == ValuePut(slot, s, v)
    <2>1. OnNode("insert") /\ slot' = u
      BY <1>2 DEF Replace, Change, ValuePut
    <2>2. IsTrie(slot) /\ s \in DOMAIN slot /\ Inline(slot, s)
      BY <2>1, OnPath, TopIsInline
    <2> HIDE DEF s, v
    <2>3. PlainEdit(slot, u)
      BY <2>2, ValuePutIsPlain
    <2> QED
      BY <2>1, <2>3
  <1>3. ASSUME frames # << >>, NEW n \in Len(Top) .. Len(Full(slot, Top)) - 1, NEW v
        PROVE  PlainEdit(slot, Pushed(n, v))
    <2> DEFINE s == Top
               m == SubSeq(Full(slot, Top), 1, n + 1)
               u == Pushed(n, v)
    <2>1. IsPushed(slot, s, n, m, u[s], u[m], u) /\ Inline(u, m) /\ Inline(u, s)
      BY <1>3, TopPushed
    <2>2. IsTrie(slot)
      BY <1>3, TopIsInline
    <2> HIDE DEF s, m, u
    <2>3. PlainEdit(slot, u)
      BY <2>1, <2>2, PushedIsPlain DEF Inline
    <2> QED
      BY <2>3 DEF u
  <1>4. CASE InsertAbove
    <2> DEFINE f == Full(slot, Top)
               n == Len(Key)
    <2>1. OnNode("insert") /\ IsPrefix(Key, f) /\ Key # f
          /\ slot' = Pushed(n, Unspliced(req.val))
      BY <1>4 DEF InsertAbove, KeyEndsAbove, IsStrictPrefix, Change
    <2>2. /\ frames # << >> /\ Key \in Seq(Index) /\ Len(Key) \in Nat
          /\ Len(Top) <= Len(Key)
      BY <2>1, OnPath
    <2>3. f \in Seq(Index) /\ Len(f) \in Nat /\ Len(Top) \in Nat
      BY <2>2, TopIsInline
    <2> HIDE DEF f
    <2>4. Len(Key) < Len(f)
      BY <2>1, <2>2, <2>3, PrefixOrder
    <2>5. n \in Len(Top) .. Len(Full(slot, Top)) - 1
      BY <2>2, <2>3, <2>4 DEF f
    <2> HIDE DEF n
    <2> QED
      BY <1>3, <2>1, <2>2, <2>5
  <1>5. CASE InsertBelow
    <2> DEFINE n    == Len(Full(slot, Top)) + 1
               leaf == LeafNode(Beyond(Key, n), req.val)
               u    == Holding(slot, SubSeq(Key, 1, n), leaf)
               s    == Top
               i    == KeyNext
    <2>1. slot' = u /\ leaf.hash = None /\ IsTrie(slot)
      BY <1>5 DEF InsertBelow, Change, LeafNode, TrieInv, Hung, IsTree
    <2>2. IsGrown(slot, s, i, leaf, u)
      BY <1>5, LeafBelow
    <2> HIDE DEF leaf, u, s, i
    <2> QED
      BY <2>1, <2>2, GrownIsPlain
  <1>6. CASE InsertFork
    <2> DEFINE n    == ForkAt
               t    == Pushed(n, None)
               i    == Key[n + 1]
               leaf == LeafNode(Beyond(Key, n + 1), req.val)
               u    == Holding(t, SubSeq(Key, 1, n + 1), leaf)
               s    == Top
    <2>1. OnNode("insert") /\ slot' = u /\ leaf.hash = None
      BY <1>6 DEF InsertFork, Change, LeafNode, ForkAt
    <2>2. /\ n \in Len(Top) .. Len(Full(slot, Top)) - 1
          /\ IsGrown(t, s, i, leaf, u)
      BY <1>6, LeafForks
    <2>3. frames # << >>
      BY <2>1, OnPath
    <2> HIDE DEF n
    <2>4. PlainEdit(slot, t) /\ IsTree(t)
      BY <1>3, <2>2, <2>3, TopPushed
    <2> HIDE DEF t, i, leaf, u, s
    <2>5. PlainEdit(t, u)
      BY <2>1, <2>2, <2>4, GrownIsPlain DEF IsTree
    <2> QED
      BY <2>1, <2>4, <2>5, PlainInTurn
  <1> QED
    BY <1>1, <1>2, <1>4, <1>5, <1>6 DEF InsertStep

LEMMA RemoveIsPlain == TrieInv /\ RemoveStep => PlainEdit(slot, slot')
  <1> SUFFICES ASSUME TrieInv, RemoveStep PROVE PlainEdit(slot, slot')
    OBVIOUS
  <1>1. CASE RemoveFindsNothing \/ RemoveLeaf
    BY <1>1, SameIsPlain DEF RemoveFindsNothing, RemoveLeaf, Change
  <1>2. CASE ClearValue
    <2> DEFINE s == Top
               u == ValuePut(slot, s, None)
    <2>1. RemovesAt(Cardinality(Kids(slot, s)) >= 2) /\ slot' = u
      BY <1>2 DEF ClearValue, Change, ValuePut
    <2>2. s \in DOMAIN slot /\ IsTrie(slot) /\ Inline(slot, s)
      BY <2>1, OnValue, TopIsInline
    <2> HIDE DEF s
    <2>3. PlainEdit(slot, u)
      BY <2>2, ValuePutIsPlain
    <2> QED
      BY <2>1, <2>3
  <1>3. CASE ClearAndMerge
    <2> DEFINE s == Top
               c == OnlyChild(slot, s)
               u == MergeOnlyChild(slot, s)
    <2>1. RemovesAt(Cardinality(Kids(slot, s)) = 1)
      BY <1>3 DEF ClearAndMerge
    <2>2. s \in DOMAIN slot /\ IsTree(slot) /\ IsTrie(slot) /\ Inline(slot, s)
      BY <2>1, OnValue, TopIsInline
    <2>3. PICK i \in Index : Kids(slot, s) = {i}
      <3>1. Kids(slot, s) \in SUBSET Index /\ Cardinality(Kids(slot, s)) = 1
        BY <2>1 DEF Kids, RemovesAt
      <3> QED
        BY <3>1, OneKid
    <2>4. slot' = slot \/ slot' = Materialized(slot, c) \/ slot' = u
      BY <1>3 DEF ClearAndMerge, MaterializeFails, Change, Fail
    <2> HIDE DEF s
    <2>5. IsMerged(slot, s, i, u)
      BY <2>2, <2>3, ChildMerged
    <2>6. c \in DOMAIN slot
      BY <2>5 DEF IsMerged
    <2> HIDE DEF c, u
    <2>7. PlainEdit(slot, u)
      BY <2>2, <2>5, MergedIsPlain
    <2> QED
      BY <2>2, <2>4, <2>6, <2>7, SameIsPlain, EdgeReadIsPlain
  <1> QED
    BY <1>1, <1>2, <1>3 DEF RemoveStep

LEMMA ReadingIsPlain ==
  ASSUME TrieInv, Descend \/ RemovePrefixStep \/ Collect
  PROVE  PlainEdit(slot, slot')
  <1>1. CASE Descend
    <2> DEFINE c == Child(slot, Top, KeyNext)
    <2>1. c \in DOMAIN slot /\ IsTrie(slot)
      BY <1>1 DEF Descend, HasNext, Kids, TrieInv, Hung, IsTree
    <2>2. slot' = Materialized(slot, c) \/ slot' = slot
      BY <1>1 DEF Descend, MaterializeFails, Fail, Change
    <2> HIDE DEF c
    <2> QED
      BY <2>1, <2>2, SameIsPlain, EdgeReadIsPlain
  <1>2. CASE CollectChild
    <2> DEFINE c == Child(slot, Last(walk).slot, Min(Last(walk).left))
    <2>1. c \in DOMAIN slot /\ IsTrie(slot)
      BY <1>2, ChildToCollect DEF TrieInv, Hung, IsTree
    <2>2. slot' = Materialized(slot, c) \/ slot' = slot
      BY <1>2 DEF CollectChild, MaterializeFails, Fail, Change
    <2> HIDE DEF c
    <2> QED
      BY <2>1, <2>2, SameIsPlain, EdgeReadIsPlain
  <1>3. CASE RemovePrefixStep \/ StartMaterialize \/ CollectUp
    <2>1. slot' = slot
      BY <1>3 DEF RemovePrefixStep, PrefixFindsNothing, PrefixFound, StartMaterialize,
         CollectUp, Change
    <2> QED
      BY <2>1, SameIsPlain
  <1> QED
    BY <1>1, <1>2, <1>3 DEF Collect

LEMMA UnwindIsPlain == TrieInv /\ Unwind => PlainEdit(slot, slot')
  <1> SUFFICES ASSUME TrieInv, Unwind PROVE PlainEdit(slot, slot')
    OBVIOUS
  <1>1. CASE UnwindRoot
    <2>1. slot' = EmptyTrie
      BY <1>1 DEF UnwindRoot, Change
    <2> QED
      BY <2>1 DEF PlainEdit, Shallow, EmptyTrie
  <1>2. CASE UnwindPop
    BY <1>2, SameIsPlain DEF UnwindPop
  <1>3. ASSUME Unwinding, Len(frames) > 1
        PROVE  PlainEdit(slot, Detached(slot, Top))
    BY <1>3, TopDetached, CutIsPlain
  <1>4. CASE UnwindDetach
    BY <1>3, <1>4 DEF UnwindDetach, UnwindsInto, Change
  <1>5. CASE UnwindMerge
    <2> DEFINE c == Survivor
               p == Parent
               u == Detached(slot, Top)
               v == MergeOnlyChild(u, p)
    <2>1. Unwinding /\ Len(frames) > 1 /\ Cardinality(Kids(slot, p)) = 2 /\ IsTrie(slot)
      BY <1>5 DEF UnwindMerge, UnwindsInto, TrieInv, Hung, IsTree
    <2>2. PICK k \in Kids(slot, p) :
            c = Child(slot, p, k) /\ p \in DOMAIN u /\ IsMerged(u, p, k, v)
      BY <2>1, SurvivorMerges
    <2>3. Inline(u, p)
      <3>1. Inline(slot, p) /\ u[p] = slot[p]
        BY <2>1, <2>2, ParentIsInline, TopDetached
      <3> QED
        BY <3>1 DEF Inline
    <2>4. slot' = slot \/ slot' = Materialized(slot, c) \/ slot' = v
      BY <1>5 DEF UnwindMerge, MaterializeFails, Fail, Change, Survivor
    <2>5. PlainEdit(slot, u)
      BY <1>3, <2>1
    <2> HIDE DEF c, p, u, v
    <2>6. PlainEdit(u, v)
      BY <2>2, <2>3, MergedIsPlain
    <2>7. c \in DOMAIN slot
      BY <2>2 DEF Kids
    <2> QED
      BY <2>1, <2>4, <2>5, <2>6, <2>7, PlainInTurn, SameIsPlain, EdgeReadIsPlain
  <1> QED
    BY <1>1, <1>2, <1>4, <1>5 DEF Unwind

LEMMA MutateIsPlain == TrieInv /\ Mutate => PlainEdit(slot, slot')
  BY InsertIsPlain, RemoveIsPlain, ReadingIsPlain, UnwindIsPlain DEF Mutate

-----------------------------------------------------------------------------
(* Hashes under the hash walk.                                             *)

(* Children sealed in the right form. *)
KidsInForm(t, s) ==
  \A i \in SealedIn(t, s) : LET c == Child(t, s, i) IN t[c].hash.lone = IsLone(t, c)

(* A frame counts its node's siblings and children, and takes the sealed   *)
(* ones as they are.                                                       *)
CountedAt(t, fr) ==
  /\ fr.count = Cardinality(Kids(t, fr.slot))
  /\ Lone(fr.slot, fr.siblings) = IsLone(t, fr.slot)
  /\ KidsInForm(t, fr.slot)

(* The frames lead from the root down edge by edge. *)
Chained(t, w) ==
  \A n \in DOMAIN w :
    /\ n = 1 => w[n].slot = Root
    /\ n # 1 => w[n].slot # Root /\ Full(t, w[n - 1].slot) = Front(w[n].slot)

Counted ==
  pc = "hash" => Chained(slot, walk) /\ \A n \in DOMAIN walk : CountedAt(slot, walk[n])

HashInv ==
  /\ Hashed(slot) /\ Shallow(slot) /\ Counted
  /\ req # None => digest = None
  /\ HashIsCanonical

LEMMA ShapeKeepsSiblings ==
  ASSUME NEW t, NEW u, DOMAIN u = DOMAIN t, NEW s
  PROVE  Siblings(u, s) = Siblings(t, s) /\ IsLone(u, s) = IsLone(t, s)
  BY DEF Siblings, IsLone

LEMMA HashNodeIsInput ==
  ASSUME NEW t, NEW s, NEW siblings,
         t[s].value # None =>
           t[s].value = [data |-> t[s].value.data, splice |-> ChildHashes(t, s)]
  PROVE  HashNode(t, s, s, siblings)
           = Input(s, t[s], Lone(s, siblings), ChildHashes(t, s))
  <1> DEFINE K == ChildHashes(t, s)
             v == t[s].value
  <1>1. v = IF v = None THEN None ELSE [data |-> v.data, splice |-> K]
    OBVIOUS
  <1> HIDE DEF K, v
  <1> QED
    BY <1>1 DEF HashNode, Input, K, v

(* A hash of the node at c as it stands is put on its edge. *)
LEMMA HashPutKeepsHashes ==
  ASSUME NEW t, IsTree(t), Closed(t), Hashed(t), Shallow(t), Inline(t, Root),
         NEW c \in DOMAIN t, c # Root,
         t[c].value # None => t[c].value.splice = ChildHashes(t, c),
         KidsInForm(t, c),
         \A p \in DOMAIN t : Full(t, p) = Front(c) =>
           /\ Inline(t, p)
           /\ \A i \in SealedIn(t, p) : LET x == Child(t, p, i)
                                        IN  x # c => t[x].hash.lone = IsLone(t, x),
         NEW h, h = Input(c, t[c], IsLone(t, c), ChildHashes(t, c))
  PROVE  LET u == HashPut(t, c, h)
         IN  /\ Hashed(u) /\ Shallow(u) /\ u[c].hash.lone = IsLone(u, c)
             /\ \A fr : fr.slot \in DOMAIN t /\ CountedAt(t, fr) => CountedAt(u, fr)
  <1> DEFINE u == HashPut(t, c, h)
  <1>1. IsTrie(t) /\ t # EmptyTrie
    BY HasRoot DEF IsTree
  <1>2. /\ SameShape(t, u) /\ u[c].hash = h
        /\ \A x \in DOMAIN t : /\ u[x].value = t[x].value
                               /\ x # c => u[x].hash = t[x].hash
    BY <1>1, HashSet
  <1>3. \A x \in DOMAIN t : x # c => u[x] = t[x]
    BY DEF HashPut
  <1> HIDE DEF u
  <1>4. /\ DOMAIN u = DOMAIN t /\ \A x \in DOMAIN t : u[x].partial = t[x].partial
        /\ \A x \in DOMAIN t : /\ Full(u, x) = Full(t, x) /\ Kids(u, x) = Kids(t, x)
                               /\ \A i : Child(u, x, i) = Child(t, x, i)
    BY <1>1, <1>2, ShapeKept DEF SameShape
  <1>5. \A x : Siblings(u, x) = Siblings(t, x) /\ IsLone(u, x) = IsLone(t, x)
    BY <1>4, ShapeKeepsSiblings
  <1>6. h.lone = IsLone(t, c) /\ IsLone(t, c) \in BOOLEAN
    BY DEF Input, IsLone, Lone
  (* Where no child is c the hashes of the children stay. *)
  <1>7. ASSUME NEW s \in DOMAIN t, Full(t, s) # Front(c)
        PROVE  /\ ChildHashes(u, s) = ChildHashes(t, s)
               /\ SealedIn(u, s) = SealedIn(t, s)
    <2>1. ASSUME NEW i \in Kids(t, s)
          PROVE  u[Child(u, s, i)].hash = t[Child(t, s, i)].hash
      <3>1. Child(t, s, i) \in DOMAIN t /\ Child(t, s, i) # c
        BY <1>1, <1>7, ChildHangs
      <3> QED
        BY <1>2, <1>4, <3>1
    <2> QED
      BY <1>4, <2>1 DEF ChildHashes, SealedIn, Inline
  <1>8. Full(t, c) # Front(c)
    <2>1. /\ Len(c) \in Nat /\ Len(Full(t, c)) \in Nat /\ Len(c) <= Len(Full(t, c))
          /\ Len(Front(c)) = Len(c) - 1
      BY <1>1, FullExtends, FrontType DEF Root
    <2> QED
      BY <2>1
  <1>9. WholeAt(u, c) /\ FormAt(u, c)
    <2>1. ChildHashes(u, c) = ChildHashes(t, c)
      BY <1>7, <1>8
    <2>2. u[c].partial = t[c].partial /\ u[c].value = t[c].value
      BY <1>2, <1>4
    <2>3. u[c].hash = Input(c, u[c], h.lone, ChildHashes(u, c))
      BY <1>2, <1>6, <2>1, <2>2 DEF Input
    <2> QED
      BY <1>2, <1>5, <1>6, <2>1, <2>2, <2>3 DEF WholeAt, FormAt
  <1>10. ASSUME NEW s \in DOMAIN u, ~Inline(u, s), s # c
         PROVE  WholeAt(u, s) /\ FormAt(u, s)
    <2>1. s \in DOMAIN t /\ ~Inline(t, s) /\ u[s] = t[s]
      BY <1>3, <1>4, <1>10 DEF Inline
    <2>2. WholeAt(t, s) /\ FormAt(t, s)
      BY <2>1 DEF Hashed
    <2>3. Full(t, s) # Front(c)
      BY <2>1
    <2>4. WholeAt(u, s)
      BY <1>7, <2>1, <2>2, <2>3 DEF WholeAt
    <2>5. PICK p \in DOMAIN t :
            /\ Full(t, p) = Front(s) /\ Last(s) \in Kids(t, p) /\ s = Child(t, p, Last(s))
            /\ \A q \in DOMAIN t : Full(t, q) = Front(s) => q = p
      BY <2>1, HasParent
    <2>6. Last(s) \in SealedIn(t, p)
      BY <2>1, <2>5 DEF SealedIn
    <2>7. CASE t[s].hash.lone = IsLone(t, s)
      BY <1>5, <2>1, <2>4, <2>7 DEF FormAt
    <2>8. CASE p = c \/ Full(t, p) = Front(c)
      <3>1. t[s].hash.lone = IsLone(t, s)
        BY <1>10, <2>5, <2>6, <2>8 DEF KidsInForm
      <3> QED
        BY <2>7, <3>1
    <2>9. CASE p # c /\ Full(t, p) # Front(c) /\ OnlySealedIn(t, s)
      <3>1. Full(t, p) \in Sensitive /\ Inline(t, p) /\ SealedIn(t, p) = {Last(s)}
        BY <2>5, <2>9 DEF OnlySealedIn
      <3>2. Inline(u, p) /\ SealedIn(u, p) = {Last(s)} /\ Full(u, p) = Full(t, p)
        BY <1>3, <1>4, <1>7, <2>9, <3>1 DEF Inline
      <3>3. OnlySealedIn(u, s)
        BY <1>4, <2>5, <3>1, <3>2 DEF OnlySealedIn
      <3> QED
        BY <2>4, <3>3 DEF FormAt
    <2> QED
      BY <2>2, <2>7, <2>8, <2>9 DEF FormAt
  <1>11. ASSUME NEW fr, fr.slot \in DOMAIN t, CountedAt(t, fr) PROVE CountedAt(u, fr)
    <2> DEFINE s == fr.slot
    <2>1. ASSUME NEW i \in SealedIn(u, s)
          PROVE  u[Child(u, s, i)].hash.lone = IsLone(u, Child(u, s, i))
      <3> DEFINE x == Child(t, s, i)
      <3>1. Child(u, s, i) = x /\ i \in Kids(t, s) /\ x \in DOMAIN t /\ ~Inline(u, x)
        BY <1>4, <1>11 DEF SealedIn, Kids
      <3>2. CASE x = c
        BY <1>2, <1>5, <1>6, <3>1, <3>2
      <3>3. CASE x # c
        <4>1. u[x] = t[x] /\ i \in SealedIn(t, s)
          BY <1>3, <3>1, <3>3 DEF SealedIn, Inline
        <4>2. t[x].hash.lone = IsLone(t, x)
          BY <1>11, <4>1 DEF CountedAt, KidsInForm
        <4> QED
          BY <1>5, <3>1, <4>1, <4>2
      <3> QED
        BY <3>2, <3>3
    <2>2. KidsInForm(u, s)
      BY <2>1 DEF KidsInForm
    <2> QED
      BY <1>4, <1>5, <1>11, <2>2 DEF CountedAt
  <1>12. Shallow(u)
    BY <1>4 DEF Shallow
  <1>13. u[c].hash.lone = IsLone(u, c)
    BY <1>2, <1>5, <1>6
  <1> QED
    BY <1>9, <1>10, <1>11, <1>12, <1>13 DEF Hashed, u

(* A frame is pushed for s, a child of the last frame's node or the root.  *)
Reaches(w, s) ==
  /\ w = << >> => s = Root
  /\ w # << >> => s # Root /\ Full(slot, w[Len(w)].slot) = Front(s)

LEMMA PushCounts ==
  ASSUME NEW s \in DOMAIN slot, NEW w \in Seq(HashFrame), Reaches(w, s),
         Chained(slot, w), \A n \in DOMAIN w : CountedAt(slot, w[n]),
         Hashed(slot'), Shallow(slot'), \A x \in DOMAIN slot : Full(slot', x) = Full(slot, x),
         \A f : f.slot \in DOMAIN slot /\ CountedAt(slot, f) => CountedAt(slot', f),
         NEW fr \in HashFrame, fr.slot = s, CountedAt(slot', fr),
         walk' = Append(w, fr), digest' = None
  PROVE  HashInv'
  <1> DEFINE m == Len(w)
             g == Append(w, fr)
  <1>1. /\ m \in Nat /\ DOMAIN w = 1 .. m /\ DOMAIN g = 1 .. m + 1
        /\ \A n \in 1 .. m : g[n] = w[n] /\ w[n] \in HashFrame
        /\ g[m + 1] = fr
    BY AppendProperties, LenProperties, ElementOfSeq
  <1>2. \A n \in 1 .. m : w[n].slot \in DOMAIN slot
    BY <1>1 DEF HashFrame
  <1>3. w # << >> <=> m # 0
    BY EmptySeq
  <1> HIDE DEF g, m
  <1>4. ASSUME NEW n \in 1 .. m + 1
        PROVE  /\ n = 1 => g[n].slot = Root
               /\ n # 1 => /\ g[n].slot # Root
                           /\ Full(slot', g[n - 1].slot) = Front(g[n].slot)
               /\ CountedAt(slot', g[n])
    <2>1. CASE n \in 1 .. m
      <3>1. g[n] = w[n] /\ CountedAt(slot', w[n])
        BY <1>1, <1>2, <2>1
      <3>2. /\ n = 1 => w[n].slot = Root
            /\ n # 1 => w[n].slot # Root /\ Full(slot, w[n - 1].slot) = Front(w[n].slot)
        BY <1>1, <2>1 DEF Chained
      <3>3. n # 1 => n - 1 \in 1 .. m
        BY <1>1, <2>1
      <3>4. n # 1 => g[n - 1] = w[n - 1] /\ w[n - 1].slot \in DOMAIN slot
        BY <1>1, <1>2, <3>3
      <3> QED
        BY <3>1, <3>2, <3>4
    <2>2. CASE n = m + 1
      <3>1. g[n] = fr
        BY <1>1, <2>2
      <3>2. n = 1 => w = << >>
        BY <1>1, <1>3, <2>2
      <3>3. n # 1 => w # << >> /\ n - 1 = m /\ m \in 1 .. m
        BY <1>1, <1>3, <2>2
      <3>4. n # 1 => g[n - 1] = w[m] /\ w[m].slot \in DOMAIN slot
        BY <1>1, <1>2, <3>3
      <3> QED
        BY <3>1, <3>2, <3>3, <3>4 DEF Reaches, m
    <2> QED
      BY <1>1, <2>1, <2>2
  <1>5. Chained(slot', g) /\ \A n \in DOMAIN g : CountedAt(slot', g[n])
    BY <1>1, <1>4 DEF Chained
  <1> QED
    BY <1>5 DEF HashInv, Counted, HashIsCanonical, g

(* Under s no walk would leave a sealed child in the wrong form. *)
LEMMA TakenAsTheyAre ==
  ASSUME IsTree(slot), Hashed(slot), Closed(slot), slot # EmptyTrie => Inline(slot, Root),
         NEW s \in DOMAIN slot, ~RehashesLone(s, s)
  PROVE  KidsInForm(slot, s)
  <1> SUFFICES ASSUME NEW i \in SealedIn(slot, s)
               PROVE  LET c == Child(slot, s, i)
                      IN  slot[c].hash.lone = IsLone(slot, c)
    BY DEF KidsInForm
  <1> DEFINE c == Child(slot, s, i)
  <1>1. i \in Kids(slot, s) /\ ~Inline(slot, c) /\ IsTrie(slot)
    BY DEF SealedIn, IsTree
  <1>2. c \in DOMAIN slot /\ Front(c) = Full(slot, s) /\ Last(c) = i /\ i \in Index
    BY <1>1, ChildHangs
  <1> HIDE DEF c
  <1>3. FormAt(slot, c)
    BY <1>1, <1>2 DEF Hashed
  <1>4. ASSUME OnlySealedIn(slot, c) PROVE FALSE
    <2>1. PICK p \in DOMAIN slot :
            /\ Full(slot, p) = Front(c) /\ Full(slot, p) \in Sensitive
            /\ SealedIn(slot, p) = {i}
      BY <1>2, <1>4 DEF OnlySealedIn
    <2>2. p = s
      BY <1>2, <2>1, FullIsUnique
    <2>3. SealedKids(s) = {i} /\ Full(slot, s) \in Sensitive
      BY <2>1, <2>2 DEF SealedIn, SealedKids
    <2>4. Cardinality(SealedKids(s)) = 1
      BY <2>3, FS_Singleton
    <2> QED
      BY <2>3, <2>4 DEF RehashesLone, IsSensitive, Full
  <1> QED
    BY <1>3, <1>4 DEF FormAt, c

LEMMA EnterHashes ==
  ASSUME NoneIsNoHash, TrieInv, Typed, Sealing, HashInv, Hashing,
         NEW s \in DOMAIN slot, Inline(slot, s),
         NEW siblings \in Nat, Lone(s, siblings) = IsLone(slot, s),
         NEW w \in Seq(HashFrame), Reaches(w, s), Chained(slot, w),
         \A n \in DOMAIN w : CountedAt(slot, w[n]), Enter(s, s, siblings, w)
  PROVE  HashInv'
  <1> DEFINE pending == Kids(slot, s) \ SealedKids(s)
             count == Cardinality(Kids(slot, s))
             i == CHOOSE i \in SealedKids(s) : TRUE
             c == Child(slot, s, i)
             h == HashNode(slot, c, Append(s \o slot[s].partial, i), count)
             fr(p) == [slot |-> s, lead |-> Len(s), siblings |-> siblings,
                       count |-> count, left |-> p]
             Push(p) == walk' = Append(w, fr(p))
  <1>1. /\ IsTree(slot) /\ IsTrie(slot) /\ Closed(slot) /\ slot # EmptyTrie
        /\ Root \in DOMAIN slot /\ Inline(slot, Root) /\ Hashed(slot) /\ Shallow(slot)
    BY OnHash DEF Sealing, HashInv
  <1>2. fr(pending) \in HashFrame /\ fr(pending).slot = s
    <2>1. pending \in SUBSET Index
      BY DEF Kids
    <2>2. count \in Nat
      BY KidsAreFew
    <2>3. Len(s) \in Nat
      BY <1>1, FullExtends
    <2> HIDE DEF pending, count
    <2> QED
      BY <2>1, <2>2, <2>3 DEF HashFrame
  <1>3. ASSUME NEW u, Kids(u, s) = Kids(slot, s), IsLone(u, s) = IsLone(slot, s),
               KidsInForm(u, s)
        PROVE  CountedAt(u, fr(pending))
    <2> DEFINE g == fr(pending)
    <2>1. g.slot = s /\ g.count = count /\ g.siblings = siblings
      OBVIOUS
    <2> HIDE DEF g
    <2> QED
      BY <1>3, <2>1 DEF CountedAt, g
  <1>4. RehashesLone(s, s) =>
          /\ i \in Kids(slot, s) /\ c \in DOMAIN slot /\ ~Inline(slot, c)
          /\ SealedKids(s) = {i}
    <2> SUFFICES ASSUME RehashesLone(s, s)
                 PROVE  /\ i \in Kids(slot, s) /\ c \in DOMAIN slot /\ ~Inline(slot, c)
                        /\ SealedKids(s) = {i}
      OBVIOUS
    <2>1. SealedKids(s) \in SUBSET Index /\ Cardinality(SealedKids(s)) = 1
      BY DEF SealedKids, Kids, RehashesLone
    <2>2. PICK k \in Index : SealedKids(s) = {k}
      BY <2>1, OneKid
    <2>3. i \in SealedKids(s) /\ SealedKids(s) = {i}
      BY <2>2
    <2> HIDE DEF i
    <2> QED
      BY <2>3 DEF SealedKids, Kids
  <1>5. digest = None
    BY DEF HashInv, Hashing
  <1>6. /\ h = HashNode(slot, c, c, count)
        /\ \/ /\ ~RehashesLone(s, s) /\ slot' = slot /\ Push(pending) /\ digest' = digest
           \/ /\ RehashesLone(s, s) /\ slot' = HashPut(slot, c, h) /\ Push(pending)
              /\ digest' = digest
           \/ RehashesLone(s, s) /\ Kids(slot, c) # SealedKids(c)
           \/ Fail /\ digest' = None
    BY DEF Enter, Full, Child, HashPut
  <1> DEFINE f == fr(pending)
  <1>7. f \in HashFrame /\ f.slot = s
    BY <1>2
  <1> HIDE DEF f, pending, count, i, c, h
  <1>8. CASE ~RehashesLone(s, s) /\ slot' = slot /\ Push(pending) /\ digest' = digest
    <2>1. KidsInForm(slot, s)
      BY <1>1, <1>8, TakenAsTheyAre
    <2>2. CountedAt(slot, f)
      BY <1>3, <2>1 DEF f
    <2>3. /\ Hashed(slot') /\ Shallow(slot') /\ CountedAt(slot', f)
          /\ \A x \in DOMAIN slot : Full(slot', x) = Full(slot, x)
          /\ \A g : g.slot \in DOMAIN slot /\ CountedAt(slot, g) => CountedAt(slot', g)
      BY <1>1, <1>8, <2>2
    <2>4. walk' = Append(w, f) /\ digest' = None
      BY <1>5, <1>8 DEF f
    <2> QED
      BY <1>7, <2>3, <2>4, PushCounts
  <1>9. CASE /\ RehashesLone(s, s) /\ slot' = HashPut(slot, c, h) /\ Push(pending)
             /\ digest' = digest
    <2> DEFINE u == HashPut(slot, c, h)
    <2>1. /\ i \in Kids(slot, s) /\ c \in DOMAIN slot /\ ~Inline(slot, c)
          /\ SealedKids(s) = {i} /\ c = Child(slot, s, i)
      BY <1>4, <1>9 DEF c
    <2>2. c # Root /\ Front(c) = Full(slot, s) /\ Last(c) = i /\ c \in Seq(Index)
      BY <1>1, <2>1, ChildHangs, FullExtends DEF Root
    <2>3. WholeAt(slot, c)
      BY <1>1, <2>1 DEF Hashed
    <2>4. slot[c].value # None =>
            slot[c].value = [data |-> slot[c].value.data, splice |-> ChildHashes(slot, c)]
      <3>1. slot[c].value # None => IsValue(slot[c].value)
        BY <2>1 DEF Typed
      <3> QED
        BY <2>3, <3>1 DEF IsValue, WholeAt
    <2>5. Siblings(slot, c) = Kids(slot, s)
      BY <1>1, <2>2, SiblingsAreKids
    <2>6. h = Input(c, slot[c], IsLone(slot, c), ChildHashes(slot, c))
      BY <1>6, <2>4, <2>5, HashNodeIsInput DEF IsLone, count
    <2>7. KidsInForm(slot, c)
      BY <1>1, <2>1, InRightForm DEF KidsInForm, SealedIn
    <2>8. ASSUME NEW p \in DOMAIN slot, Full(slot, p) = Front(c)
          PROVE  /\ Inline(slot, p)
                 /\ \A j \in SealedIn(slot, p) :
                      LET x == Child(slot, p, j)
                      IN  x # c => slot[x].hash.lone = IsLone(slot, x)
      <3>1. p = s
        BY <1>1, <2>2, <2>8, FullIsUnique
      <3>2. SealedIn(slot, p) = {i}
        BY <2>1, <3>1 DEF SealedIn, SealedKids
      <3> QED
        BY <2>1, <3>1, <3>2
    <2>9. /\ Hashed(u) /\ Shallow(u) /\ u[c].hash.lone = IsLone(u, c)
          /\ \A g : g.slot \in DOMAIN slot /\ CountedAt(slot, g) => CountedAt(u, g)
      BY <1>1, <2>1, <2>2, <2>3, <2>6, <2>7, <2>8, HashPutKeepsHashes DEF WholeAt
    <2>10. /\ SameShape(slot, u)
           /\ \A x \in DOMAIN slot : x # c => u[x].hash = slot[x].hash
      BY <1>1, <2>1, HashSet
    <2> HIDE DEF u
    <2>11. /\ DOMAIN u = DOMAIN slot
           /\ \A x \in DOMAIN slot : /\ Full(u, x) = Full(slot, x)
                                     /\ Kids(u, x) = Kids(slot, x)
                                     /\ \A j : Child(u, x, j) = Child(slot, x, j)
      BY <1>1, <2>10, ShapeKept DEF SameShape
    <2>12. SealedIn(u, s) \subseteq {i}
      <3>1. ASSUME NEW j \in Kids(slot, s), j # i PROVE Inline(u, Child(slot, s, j))
        <4>1. Child(slot, s, j) \in DOMAIN slot /\ Child(slot, s, j) # c
          BY <1>1, <2>2, <3>1, ChildHangs
        <4>2. Inline(slot, Child(slot, s, j))
          BY <2>1, <3>1 DEF SealedKids
        <4> QED
          BY <2>10, <4>1, <4>2 DEF Inline
      <3> QED
        BY <2>11, <3>1 DEF SealedIn
    <2>13. KidsInForm(u, s)
      BY <2>1, <2>9, <2>11, <2>12 DEF KidsInForm
    <2>14. IsLone(u, s) = IsLone(slot, s)
      BY <2>11, ShapeKeepsSiblings
    <2>15. CountedAt(u, f)
      BY <1>3, <2>11, <2>13, <2>14 DEF f
    <2>16. /\ Hashed(slot') /\ Shallow(slot') /\ CountedAt(slot', f)
           /\ \A x \in DOMAIN slot : Full(slot', x) = Full(slot, x)
           /\ \A g : g.slot \in DOMAIN slot /\ CountedAt(slot, g) => CountedAt(slot', g)
      BY <1>9, <2>9, <2>11, <2>15 DEF u
    <2>17. walk' = Append(w, f) /\ digest' = None
      BY <1>5, <1>9 DEF f
    <2> QED
      BY <1>7, <2>16, <2>17, PushCounts
  (* Beneath the sealed child every edge is sealed. *)
  <1>10. ASSUME RehashesLone(s, s), Kids(slot, c) # SealedKids(c) PROVE FALSE
    <2>1. c \in DOMAIN slot /\ ~Inline(slot, c)
      BY <1>4, <1>10
    <2> QED
      BY <1>1, <1>10, <2>1 DEF Closed, SealedKids
  <1>11. CASE Fail /\ digest' = None
    BY <1>1, <1>11 DEF Fail, Change, Return, HashInv, Counted, HashIsCanonical
  <1> QED
    BY <1>6, <1>8, <1>9, <1>10, <1>11

LEMMA HashRootHashes ==
  NoneIsNoHash /\ IInv /\ Typed /\ Sealing /\ HashInv /\ HashRoot => HashInv'
  <1> SUFFICES ASSUME NoneIsNoHash, IInv, Typed, Sealing, HashInv, HashRoot PROVE HashInv'
    OBVIOUS
  <1>1. TrieInv /\ Hashing /\ Enter(Root, Root, 0, << >>)
    BY DEF IInv, HashRoot, Root
  <1>2. Root \in DOMAIN slot /\ Inline(slot, Root)
    BY <1>1, OnHash
  <1>3. Lone(Root, 0) = IsLone(slot, Root)
    BY DEF Lone, IsLone, Root
  <1>4. << >> \in Seq(HashFrame)
    OBVIOUS
  <1>5. /\ Reaches(<< >>, Root) /\ Chained(slot, << >>)
        /\ \A n \in DOMAIN << >> : CountedAt(slot, << >>[n])
    BY DEF Reaches, Chained
  <1> QED
    BY <1>1, <1>2, <1>3, <1>4, <1>5, EnterHashes

LEMMA HashChildHashes ==
  NoneIsNoHash /\ IInv /\ Typed /\ Sealing /\ HashInv /\ HashChild => HashInv'
  <1> SUFFICES ASSUME NoneIsNoHash, IInv, Typed, Sealing, HashInv, HashChild PROVE HashInv'
    OBVIOUS
  <1> DEFINE m == Len(walk)
             i == Min(Last(walk).left)
             s == Entered
             w == Entering
             top == walk[m]
  <1>1. /\ TrieInv /\ Hashing /\ m \in Nat \ {0} /\ s \in DOMAIN slot /\ Inline(slot, s)
        /\ Last(walk).count \in Nat /\ Enter(s, s, Last(walk).count, w) /\ Stacked(w, s)
        /\ Len(w) = m /\ DOMAIN w = 1 .. m
        /\ \A n \in 1 .. m : /\ w[n].slot = walk[n].slot
                             /\ n # m => w[n] = walk[n]
        /\ s = Child(slot, walk[m].slot, i)
    BY ChildEntered
  <1>2. /\ walk \in Seq(HashFrame) /\ DOMAIN walk = 1 .. m /\ Last(walk) = top
        /\ top \in HashFrame /\ top.slot \in DOMAIN slot
        /\ i \in Kids(slot, top.slot) /\ pc = "hash" /\ IsTree(slot) /\ IsTrie(slot)
    <2>1. IInv /\ Hashing /\ walk # << >>
      BY DEF HashChild
    <2>2. i \in Last(walk).left
      BY <2>1, HashTop, LowestLeft DEF HashChild
    <2> QED
      BY <1>1, <2>1, <2>2, HashTop, OnHash
  <1>3. Chained(slot, walk) /\ \A n \in 1 .. m : CountedAt(slot, walk[n])
    BY <1>2 DEF HashInv, Counted
  <1>4. w \in Seq(HashFrame)
    BY <1>1 DEF Stacked
  <1>5. w[m].count = top.count /\ w[m].siblings = top.siblings
    <2>1. w = [walk EXCEPT ![m] = [top EXCEPT !.left = @ \ {i}]]
      BY DEF Entering
    <2> HIDE DEF w, top, m, i
    <2>2. w[m] = [top EXCEPT !.left = @ \ {i}]
      BY <1>1, <1>2, <2>1
    <2> QED
      BY <1>2, <2>2 DEF HashFrame
  <1> HIDE DEF s, w, i, m, top
  <1>6. s # Root /\ Front(s) = Full(slot, top.slot) /\ Last(s) = i /\ s \in Seq(Index)
    BY <1>1, <1>2, ChildHangs, FullExtends DEF Root, top
  <1>7. Lone(s, top.count) = IsLone(slot, s)
    <2>1. Siblings(slot, s) = Kids(slot, top.slot)
      BY <1>2, <1>6, SiblingsAreKids
    <2>2. top.count = Cardinality(Kids(slot, top.slot))
      BY <1>1, <1>3 DEF CountedAt, top
    <2> QED
      BY <2>1, <2>2 DEF IsLone
  <1>8. \A n \in 1 .. m : w[n].count = walk[n].count /\ w[n].siblings = walk[n].siblings
    BY <1>1, <1>5 DEF top
  <1>9. \A n \in 1 .. m : CountedAt(slot, w[n])
    BY <1>1, <1>3, <1>8 DEF CountedAt
  <1>10. Chained(slot, w)
    <2> SUFFICES ASSUME NEW n \in 1 .. m
                 PROVE  /\ n = 1 => w[n].slot = Root
                        /\ n # 1 => /\ w[n].slot # Root
                                    /\ Full(slot, w[n - 1].slot) = Front(w[n].slot)
      BY <1>1 DEF Chained
    <2>1. /\ n = 1 => walk[n].slot = Root
          /\ n # 1 => /\ walk[n].slot # Root
                      /\ Full(slot, walk[n - 1].slot) = Front(walk[n].slot)
      BY <1>2, <1>3 DEF Chained
    <2>2. n # 1 => n - 1 \in 1 .. m
      BY <1>1
    <2> QED
      BY <1>1, <2>1, <2>2
  <1>11. Reaches(w, s)
    <2>1. w # << >> /\ w[Len(w)].slot = top.slot
      BY <1>1 DEF top
    <2> QED
      BY <1>6, <2>1 DEF Reaches
  <1> QED
    BY <1>1, <1>2, <1>4, <1>7, <1>9, <1>10, <1>11, EnterHashes

LEMMA HashFinishHashes ==
  ASSUME NoneIsNoHash, NoneIsNoValue, IInv, Typed, Sealing, HashInv, HashFinish
  PROVE  HashInv'
  <1> DEFINE m   == Len(walk)
             top == Last(walk)
             d   == top.slot
             b   == SubSeq(buf, 1, top.lead)
             t   == Updated(slot, d)
             h   == HashNode(t, d, d, top.siblings)
             u   == HashPut(t, d, h)
  <1>1. TrieInv /\ Hashing /\ walk # << >> /\ top.left = {} /\ IsTree(slot)
    BY DEF IInv, HashFinish, TrieInv, Hung
  <1>2. /\ walk \in Seq(HashFrame) /\ m \in Nat \ {0} /\ DOMAIN walk = 1 .. m
        /\ top = walk[m] /\ top \in HashFrame
        /\ d \in DOMAIN slot /\ Inline(slot, d) /\ b = d
    BY <1>1, HashTop
  <1>3. /\ IsTrie(slot) /\ slot # EmptyTrie /\ Root \in DOMAIN slot /\ Inline(slot, Root)
        /\ pc = "hash" /\ Closed(slot) /\ Hashed(slot) /\ Shallow(slot) /\ digest = None
    BY <1>1, OnHash DEF Sealing, HashInv, Hashing
  <1>4. /\ SameShape(slot, t)
        /\ \A x \in DOMAIN slot : t[x].hash = slot[x].hash
        /\ slot[d].value # None => IsValue(t[d].value)
        /\ t[d].value # None => slot[d].value # None
    <2> HIDE DEF d
    <2> QED
      BY <1>1, <1>2, ValueUpdated, UpdatedValue
  <1>5. /\ \A x \in DOMAIN slot : x # d => t[x] = slot[x]
        /\ slot[d].value # None => t[d].value.splice = ChildHashes(slot, d)
    <2>1. \A x \in DOMAIN slot : x # d => t[x] = slot[x]
      BY DEF Updated
    <2>2. ASSUME slot[d].value # None PROVE t[d].value.splice = ChildHashes(slot, d)
      <3> DEFINE r == slot[d]
                 v == [r.value EXCEPT !.splice = ChildHashes(slot, d)]
      <3>1. t = ValuePut(slot, d, v)
        BY <2>2 DEF Updated, ValuePut
      <3>2. t[d].value = v
        <4> HIDE DEF d, v
        <4> QED
          BY <1>2, <1>3, <3>1, ValueSet
      <3>3. r.value = [data |-> r.value.data, splice |-> r.value.splice]
        BY <1>2, <2>2 DEF Typed, IsValue
      <3>4. v.splice = ChildHashes(slot, d)
        <4> HIDE DEF r
        <4> QED
          BY <3>3
      <3> QED
        BY <3>2, <3>4
    <2> QED
      BY <2>1, <2>2
  <1>6. h = HashNode(t, d, b, top.siblings)
    BY <1>2
  <1>7. \/ /\ m = 1 /\ Change(t, Done) /\ digest' = h
        \/ /\ m # 1 /\ slot' = u /\ walk' = Front(walk)
           /\ UNCHANGED <<req, pc, frames, out, digest>>
    BY <1>6 DEF HashFinish, HashPut
  <1> HIDE DEF t, h, top
  <1>8. /\ IsTree(t) /\ IsTrie(t) /\ DOMAIN t = DOMAIN slot
        /\ \A x \in DOMAIN slot : /\ Full(t, x) = Full(slot, x)
                                  /\ Kids(t, x) = Kids(slot, x)
                                  /\ \A j : Child(t, x, j) = Child(slot, x, j)
    BY <1>1, <1>3, <1>4, ShapeKept DEF SameShape, IsTree
  <1>9. \A x \in DOMAIN slot : Inline(t, x) <=> Inline(slot, x)
    BY <1>4 DEF Inline
  <1>10. Closed(t) /\ Inline(t, Root)
    BY <1>1, <1>2, <1>3, <1>4, <1>9, ReadingCloses
  <1>11. Unseals(slot, t)
    BY <1>2, <1>5, <1>8, <1>9 DEF Unseals
  <1>12. Hashed(t) /\ Shallow(t)
    <2>1. Hashed(t)
      BY <1>1, <1>3, <1>8, <1>10, <1>11, UnsealingKeepsHashes
    <2> QED
      BY <1>3, <1>8, <2>1 DEF Shallow
  <1>13. \A x : IsLone(t, x) = IsLone(slot, x)
    BY <1>8, ShapeKeepsSiblings
  <1>14. ASSUME NEW x \in DOMAIN slot
         PROVE  /\ SealedIn(t, x) = SealedIn(slot, x)
                /\ ChildHashes(t, x) = ChildHashes(slot, x)
                /\ KidsInForm(slot, x) => KidsInForm(t, x)
    <2>1. ASSUME NEW i \in Kids(slot, x)
          PROVE  t[Child(t, x, i)].hash = slot[Child(slot, x, i)].hash
      <3>1. Child(slot, x, i) \in DOMAIN slot
        BY DEF Kids
      <3> QED
        BY <1>4, <1>8, <3>1
    <2>2. SealedIn(t, x) = SealedIn(slot, x)
      BY <1>8, <2>1 DEF SealedIn, Inline
    <2>3. ChildHashes(t, x) = ChildHashes(slot, x)
      BY <1>8, <2>1 DEF ChildHashes
    <2>4. KidsInForm(slot, x) => KidsInForm(t, x)
      BY <1>8, <1>13, <2>1, <2>2 DEF KidsInForm, SealedIn
    <2> QED
      BY <2>2, <2>3, <2>4
  <1>15. \A fr : fr.slot \in DOMAIN slot /\ CountedAt(slot, fr) => CountedAt(t, fr)
    BY <1>8, <1>13, <1>14 DEF CountedAt
  <1>16. Chained(slot, walk) /\ \A n \in 1 .. m : CountedAt(slot, walk[n])
    BY <1>2, <1>3 DEF HashInv, Counted
  <1>17. CountedAt(t, top)
    BY <1>2, <1>15, <1>16
  <1>18. t[d].value # None =>
           t[d].value = [data |-> t[d].value.data, splice |-> ChildHashes(t, d)]
    BY <1>2, <1>4, <1>5, <1>14 DEF IsValue
  <1>19. h = Input(d, t[d], IsLone(t, d), ChildHashes(t, d))
    <2>1. h = Input(d, t[d], Lone(d, top.siblings), ChildHashes(t, d))
      BY <1>18, HashNodeIsInput DEF h
    <2> QED
      BY <1>17, <2>1 DEF CountedAt
  (* The walk has entered every child of d, and has left it sealed. *)
  <1>20. ASSUME NEW j \in Kids(slot, d) PROVE ~Inline(slot, Child(slot, d, j))
    <2>1. \A n \in 1 .. m : \A k \in Kids(slot, walk[n].slot) \ walk[n].left :
            \/ ~Inline(slot, Child(slot, walk[n].slot, k))
            \/ n < m /\ walk[n + 1].slot = Child(slot, walk[n].slot, k)
      BY <1>2, <1>3 DEF Sealing, SealedBehind, m
    <2>2. m \in 1 .. m /\ ~(m < m) /\ d = walk[m].slot /\ walk[m].left = {}
      BY <1>1, <1>2
    <2> QED
      BY <2>1, <2>2
  <1>21. CASE m = 1 /\ Change(t, Done) /\ digest' = h
    <2>1. d = Root
      BY <1>2, <1>16, <1>21 DEF Chained
    <2>2. ASSUME NEW j \in Kids(t, d)
          PROVE  LET c == Child(t, d, j)
                 IN  /\ ~Inline(t, c) /\ t[c].hash.lone = IsLone(t, c)
                     /\ ChildHashes(t, c) = FreshKids(t, c)
      <3> DEFINE c == Child(t, d, j)
      <3>1. c \in DOMAIN t /\ ~Inline(t, c)
        BY <1>2, <1>8, <1>9, <1>20 DEF Kids
      <3>2. j \in SealedIn(t, d)
        BY <3>1 DEF SealedIn
      <3>3. t[c].hash.lone = IsLone(t, c)
        BY <1>17, <3>2 DEF CountedAt, KidsInForm
      <3> HIDE DEF c
      <3>4. ChildHashes(t, c) = FreshKids(t, c)
        BY <1>8, <1>10, <1>12, <3>1, SealedKidsFresh
      <3> QED
        BY <3>1, <3>3, <3>4 DEF c
    <2>3. ChildHashes(t, d) = FreshKids(t, d)
      <3>1. d \in DOMAIN t
        BY <1>2, <1>8
      <3> HIDE DEF d
      <3> QED
        BY <1>8, <1>12, <2>2, <3>1, KidsFresh
    <2>4. h = Fresh(t, Root)
      BY <1>2, <1>8, <1>12, <1>19, <2>1, <2>3, FreshSolves
    <2> QED
      BY <1>12, <1>21, <2>4 DEF HashInv, HashIsCanonical, Counted, Change, Return
  <1>22. CASE /\ m # 1 /\ slot' = u /\ walk' = Front(walk)
              /\ UNCHANGED <<req, pc, frames, out, digest>>
    <2> DEFINE q == walk[m - 1].slot
    <2>1. /\ m - 1 \in 1 .. m /\ walk[m - 1] \in HashFrame /\ q \in DOMAIN slot
      <3>1. m - 1 \in 1 .. m
        BY <1>2, <1>22
      <3>2. walk[m - 1] \in HashFrame
        BY <1>2, <3>1, ElementOfSeq
      <3> QED
        BY <3>1, <3>2 DEF HashFrame
    <2>2. d # Root /\ Full(t, q) = Front(d)
      <3>1. \A n \in 1 .. m : n # 1 =>
              walk[n].slot # Root /\ Full(slot, walk[n - 1].slot) = Front(walk[n].slot)
        BY <1>2, <1>16 DEF Chained
      <3>2. m \in 1 .. m /\ d = walk[m].slot
        BY <1>2
      <3>3. Full(t, q) = Full(slot, q)
        BY <1>8, <2>1
      <3> HIDE DEF d, m
      <3> QED
        BY <1>22, <3>1, <3>2, <3>3
    <2>3. KidsInForm(t, q) /\ KidsInForm(t, d)
      BY <1>2, <1>14, <1>16, <1>17, <2>1 DEF CountedAt
    <2>4. ASSUME NEW p \in DOMAIN t, Full(t, p) = Front(d)
          PROVE  /\ Inline(t, p)
                 /\ \A i \in SealedIn(t, p) : LET x == Child(t, p, i)
                                              IN  x # d => t[x].hash.lone = IsLone(t, x)
      <3>1. p = q
        BY <1>8, <2>1, <2>2, <2>4, FullIsUnique
      <3>2. Inline(t, q)
        BY <1>3, <1>9, <2>1, <1>1 DEF TrieInv, HashWalk
      <3> QED
        BY <2>3, <3>1, <3>2 DEF KidsInForm
    <2>5. d \in DOMAIN t /\ (t[d].value # None => t[d].value.splice = ChildHashes(t, d))
      BY <1>2, <1>4, <1>5, <1>8, <1>14
    <2> HIDE DEF d, u
    <2>6. /\ Hashed(u) /\ Shallow(u)
          /\ \A fr : fr.slot \in DOMAIN t /\ CountedAt(t, fr) => CountedAt(u, fr)
      BY <1>8, <1>10, <1>12, <1>19, <2>2, <2>3, <2>4, <2>5, HashPutKeepsHashes DEF u
    <2>7. \A x \in DOMAIN slot : Full(u, x) = Full(slot, x)
      <3>1. SameShape(t, u)
        BY <1>8, <2>5, HashSet DEF u
      <3> QED
        BY <1>8, <3>1 DEF SameShape, Full
    <2>8. /\ DOMAIN walk' = 1 .. m - 1
          /\ \A n \in 1 .. m - 1 : walk'[n] = walk[n] /\ walk[n] \in HashFrame /\ n \in 1 .. m
      <3>1. /\ walk' \in Seq(HashFrame) /\ Len(walk') = m - 1
            /\ \A n \in 1 .. m - 1 : walk'[n] = walk[n]
        BY <1>1, <1>2, <1>22, FrontType DEF m
      <3>2. \A n \in 1 .. m - 1 : n \in 1 .. m
        BY <1>2
      <3>3. \A n \in 1 .. m : walk[n] \in HashFrame
        BY <1>2, ElementOfSeq DEF m
      <3> QED
        BY <1>2, <3>1, <3>2, <3>3
    <2>9. ASSUME NEW n \in 1 .. m - 1
          PROVE  /\ CountedAt(u, walk'[n])
                 /\ n = 1 => walk'[n].slot = Root
                 /\ n # 1 => /\ walk'[n].slot # Root
                             /\ Full(u, walk'[n - 1].slot) = Front(walk'[n].slot)
      <3>1. walk'[n] = walk[n] /\ n \in 1 .. m /\ walk[n].slot \in DOMAIN slot
        BY <2>8 DEF HashFrame
      <3>2. CountedAt(u, walk[n])
        BY <1>8, <1>15, <1>16, <2>6, <3>1
      <3>3. /\ n = 1 => walk[n].slot = Root
            /\ n # 1 => /\ walk[n].slot # Root
                        /\ Full(slot, walk[n - 1].slot) = Front(walk[n].slot)
        BY <1>2, <1>16, <3>1 DEF Chained
      <3>4. n # 1 => n - 1 \in 1 .. m - 1
        BY <1>2
      <3>5. n # 1 => walk'[n - 1] = walk[n - 1] /\ walk[n - 1].slot \in DOMAIN slot
        BY <2>8, <3>4 DEF HashFrame
      <3> QED
        BY <2>7, <3>1, <3>2, <3>3, <3>5
    <2>10. Counted'
      BY <1>22, <2>8, <2>9 DEF Counted, Chained
    <2>11. digest' = None
      BY <1>3, <1>22
    <2> QED
      BY <1>22, <2>6, <2>10, <2>11 DEF HashInv, HashIsCanonical
  <1> QED
    BY <1>7, <1>21, <1>22

LEMMA NextHashes ==
  ASSUME NoneIsNoHash, NoneIsNoValue, IInv, IInv', Typed, Sealing, Sealing', HashInv,
         [Next]_vars
  PROVE  HashInv'
  <1>1. TrieInv /\ TrieInv' /\ Control
    BY DEF IInv, TrieInv
  <1>2. ASSUME slot' = slot, pc' # "hash" \/ walk' = << >>, digest' = None PROVE HashInv'
    BY <1>2 DEF HashInv, Counted, Chained, HashIsCanonical
  <1>3. CASE \E r \in Abstract!Requests : Begin(r)
    <2>1. slot' = slot /\ walk' = << >> /\ digest' = None
      BY <1>1, <1>3 DEF Begin, Control
    <2> QED
      BY <1>2, <2>1
  <1>4. CASE Mutate /\ UNCHANGED <<buf, digest>>
    <2>1. req # None /\ pc' # "hash"
      <3>1. pc # "idle" \/ req # None
        BY <1>4 DEF Mutate, Descend, OnNode, Descending, InsertStep, InsertIntoEmpty, Replace,
           InsertAbove, InsertBelow, InsertFork, RemoveStep, RemoveFindsNothing, ClearValue,
           ClearAndMerge, RemoveLeaf, RemovesAt, RemovePrefixStep, PrefixFindsNothing,
           PrefixFound, Collect, StartMaterialize, CollectChild, CollectUp, Unwind,
           UnwindRoot, UnwindDetach, UnwindMerge, UnwindPop, UnwindsInto, Unwinding
      <3>2. pc' # "hash"
        BY <1>4, MutateStaysOut
      <3> QED
        BY <1>1, <3>1, <3>2 DEF Control
    <2>2. digest' = None
      BY <1>4, <2>1 DEF HashInv
    <2>3. PlainEdit(slot, slot')
      BY <1>1, <1>4, MutateIsPlain
    <2>4. Unseals(slot, slot')
      <3>1. EditStep
        BY <1>1, <1>4, MutateKeepsTrie
      <3> QED
        BY <2>3, <3>1 DEF EditStep, PlainEdit, Unseals
    <2>5. /\ IsTree(slot) /\ Closed(slot) /\ Hashed(slot) /\ Shallow(slot)
          /\ IsTree(slot') /\ Closed(slot') /\ (slot' # EmptyTrie => Inline(slot', Root))
      BY <1>1 DEF TrieInv, Hung, RootInline, Sealing, HashInv
    <2>6. Hashed(slot')
      BY <2>4, <2>5, UnsealingKeepsHashes
    <2>7. Shallow(slot')
      BY <2>3, <2>5 DEF PlainEdit
    <2> QED
      BY <2>1, <2>2, <2>6, <2>7 DEF HashInv, Counted, HashIsCanonical
  <1>5. CASE HashStep
    BY <1>5, HashRootHashes, HashChildHashes, HashFinishHashes DEF HashStep
  <1>6. CASE UNCHANGED vars
    BY <1>6 DEF vars, HashInv, Counted, HashIsCanonical
  <1> QED
    BY <1>3, <1>4, <1>5, <1>6 DEF Next, Step

(* What is sealed when a behaviour begins was sealed by a walk.            *)
StartsHashed == \A t \in Starts : Hashed(t) /\ Shallow(t)

LEMMA AlwaysHashed ==
  ASSUME NoneIsNoHash, NoneIsNoValue, StartsClosed, StartsHashed
  PROVE  Spec => [](IInv /\ Sealing /\ HashInv)
  <1>1. Init => Held /\ Sealing /\ HashInv
    BY StartHolds DEF Init, StartsClosed, StartsHashed, Sealing, CollectsInline, SealedBehind,
       HashInv, Counted, HashIsCanonical
  <1>2. IInv /\ Held /\ [Next]_vars => Held'
    BY NextHolds
  <1>3. IInv /\ Sealing /\ [Next]_vars => Sealing'
    BY NextSeals
  <1>4. IInv /\ IInv' /\ Held /\ Sealing /\ Sealing' /\ HashInv /\ [Next]_vars => HashInv'
    BY NextHashes DEF Held
  <1> QED
    BY <1>1, <1>2, <1>3, <1>4, AlwaysIInv, PTL DEF Spec

(* A root hash depends on the keys and values of the trie alone (hash.rs): *)
(* not on the calls that built it, nor on what earlier walks sealed, nor   *)
(* on where a walk failed, for every arity, key set and set of sensitive   *)
(* paths and a hasher without collisions.                                  *)
THEOREM RootHashIsCanonical ==
  ASSUME NoneIsNoHash, NoneIsNoValue, StartsClosed, StartsHashed
  PROVE  Spec => []HashIsCanonical
  <1>1. IInv /\ Sealing /\ HashInv => HashIsCanonical
    BY DEF HashInv
  <1> QED
    BY <1>1, AlwaysHashed, PTL

(* At every step of every call a cached hash is the hash of its node where *)
(* it stands, or the other form of the only sealed child of an inline      *)
(* sensitive node, which the next walk rehashes (node.rs, hash.rs).        *)
THEOREM CachedHashesValid ==
  ASSUME NoneIsNoHash, NoneIsNoValue, StartsClosed, StartsHashed
  PROVE  Spec => []SealedHashValid
  <1>1. IInv /\ Sealing /\ HashInv => SealedHashValid
    BY HashesValid DEF IInv, TrieInv, Hung, Sealing, HashInv
  <1> QED
    BY <1>1, AlwaysHashed, PTL

=============================================================================
