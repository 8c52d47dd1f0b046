------------------------------ MODULE TrieNodes ------------------------------
(***************************************************************************)
(* The shape of a trie (src/node.rs, src/path.rs, src/store.rs) as a       *)
(* constant module.                                                        *)
(*                                                                         *)
(* A trie t is a function from slots to nodes.  A slot is the place that   *)
(* holds a node: the root, or the edge a parent holds under an index.  It  *)
(* is named by the full path that leads to it (`leading_path` in hash.rs), *)
(* so the edge under index i of the node at s is the slot                  *)
(* Append(Full(t, s), i); the empty trie has no slot.  A node is           *)
(*   partial : its own path below the slot,                                *)
(*   value   : None or [data, splice], where splice is what the hasher's   *)
(*             update_value last wrote into the stored value,              *)
(*   hash    : the hash cached on the slot's edge, None while it is inline *)
(*             (the root, behind no edge, is always inline).               *)
(***************************************************************************)
EXTENDS Integers, Sequences, SequencesExt, FiniteSets, FiniteSetsExt,
        Functions, TLC

CONSTANTS
  Index,   \* the indices of the arity, `A::Index`
  None     \* no value, no hash

(* An arity is finite, and its indices are ordered. *)
ASSUME IndexAssumption == IsFiniteSet(Index) /\ Index \subseteq Nat

Root == << >>
EmptyTrie == << >>

Full(t, s) == s \o t[s].partial

Child(t, s, i) == Append(Full(t, s), i)

(* A slot is a path and its node has a path of its own; a trie has a root  *)
(* unless it is empty.                                                     *)
IsTrie(t) ==
  /\ DOMAIN t \subseteq Seq(Index)
  /\ \A s \in DOMAIN t :
       /\ t[s].partial \in Seq(Index)
       /\ t[s] = [partial |-> t[s].partial, value |-> t[s].value, hash |-> t[s].hash]
  /\ t # EmptyTrie => Root \in DOMAIN t

(* The present children of the node at s. *)
Kids(t, s) == {i \in Index : Child(t, s, i) \in DOMAIN t}

Inline(t, s) == t[s].hash = None

OnlyChild(t, s) == Child(t, s, CHOOSE i \in Kids(t, s) : TRUE)

Unspliced(d) == [data |-> d, splice |-> None]

LeafNode(partial, d) ==
  [partial |-> partial, value |-> Unspliced(d), hash |-> None]

(* What is left of path after its first n indices. *)
Beyond(path, n) == SubSeq(path, n + 1, Len(path))

(* `ChildMap::insert`: the edge s, or the root, holds the node r. *)
Holding(t, s, r) == [u \in DOMAIN t \cup {s} |-> IF u = s THEN r ELSE t[u]]

(* `materialize`: the edge becomes inline, its node stays. *)
Materialized(t, s) == [t EXCEPT ![s].hash = None]

(* Removes the edge d with everything under it. *)
Detached(t, d) == Restrict(t, {s \in DOMAIN t : ~IsPrefix(d, s)})

(* `join`: a merged node's partial path. *)
Join(head, index, tail) == head \o <<index>> \o tail

(* The only child of the node at s takes its place. *)
MergeOnlyChild(t, s) ==
  LET c == OnlyChild(t, s)
  IN  [u \in DOMAIN t \ {c} |->
         IF u = s THEN [partial |-> Join(t[s].partial, Last(c), t[c].partial),
                        value |-> t[c].value, hash |-> t[s].hash]
                  ELSE t[u]]

(* A recovery that looks at the detached node alone. *)
Recover_NodeOnly(t, d) == IF t[d].value = None THEN None ELSE t[d].value.data

(* The value inside a detached node, below valueless single-child nodes. *)
Recover(t, d) ==
  LET value[s \in DOMAIN t] ==
        IF t[s].value # None THEN t[s].value.data
        ELSE IF Cardinality(Kids(t, s)) = 1 THEN value[OnlyChild(t, s)]
        ELSE None
  IN  value[d]

(* `get`: the value of the node whose full path is k. *)
Lookup(t, k) ==
  LET value[s \in DOMAIN t] ==
        LET f == Full(t, s)
        IN  IF f = k THEN IF t[s].value = None THEN None ELSE t[s].value.data
            ELSE IF IsPrefix(f, k) /\ k[Len(f) + 1] \in Kids(t, s)
              THEN value[Child(t, s, k[Len(f) + 1])]
            ELSE None
  IN  IF t = EmptyTrie THEN None ELSE value[Root]

(* Every slot but the root is held by a node of the trie. *)
NoOrphans(t) ==
  \A s \in DOMAIN t : s = Root \/ \E p \in DOMAIN t : Full(t, p) = Front(s)

(* No slot lies inside the partial path of a node. *)
Apart(t) ==
  \A s, u \in DOMAIN t :
    IsPrefix(s, u) /\ s # u => IsStrictPrefix(Full(t, s), u)

=============================================================================
