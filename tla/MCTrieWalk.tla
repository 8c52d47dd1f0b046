----------------------------- MODULE MCTrieWalk -----------------------------
EXTENDS TrieWalk

CONSTANTS v1, v2

Indices == 0 .. 2

Valued(partial) == LeafNode(partial, v1)
Valueless(partial) == [partial |-> partial, value |-> None, hash |-> None]

(* Settled: values on inner nodes, a fork inside a path, three branches.   *)
Bushy ==
  (<< >> :> Valueless(<<1>>))
    @@ (<<1, 0>> :> Valued(<<1, 1>>))
    @@ (<<1, 0, 1, 1, 2>> :> LeafNode(<< >>, v2))
    @@ (<<1, 1>> :> Valueless(<< >>))
    @@ (<<1, 1, 0>> :> LeafNode(<<0>>, v2))
    @@ (<<1, 1, 2>> :> Valued(<< >>))
    @@ (<<1, 2>> :> Valued(<<1>>))

(* Settled: a chain, which a lookup descends to its end.                   *)
Deep ==
  (<< >> :> Valued(<< >>)) @@ (<<1>> :> LeafNode(<<1>>, v2))
    @@ (<<1, 1, 1>> :> Valued(<< >>)) @@ (<<1, 1, 1, 1>> :> LeafNode(<< >>, v2))

(* Hand-built: a thin root over a valueless leaf, and the other way round. *)
Thin ==
  (<< >> :> Valueless(<< >>)) @@ (<<1>> :> Valued(<< >>)) @@ (<<1, 1>> :> Valueless(<<2>>))
LateThin ==
  (<< >> :> Valued(<<1>>)) @@ (<<1, 0>> :> Valueless(<<0>>))
    @@ (<<1, 1>> :> Valued(<< >>)) @@ (<<1, 0, 0, 2>> :> Valueless(<< >>))

(* Hand-built: a valued root with a valueless leaf and a valued one.       *)
BareLeaf ==
  (<< >> :> Valued(<<1>>)) @@ (<<1, 1>> :> Valueless(<<1>>)) @@ (<<1, 2>> :> Valued(<< >>))

Tries == {EmptyTrie, Bushy, Deep, Thin, LateThin, BareLeaf}

(* Before, at, inside the path of, between, below and past the nodes.      *)
Paths == {<< >>, <<0>>, <<1>>, <<1, 0, 1>>, <<1, 0, 1, 1>>, <<1, 0, 2>>, <<1, 1>>,
          <<1, 1, 1>>, <<1, 1, 1, 1>>, <<1, 1, 1, 1, 0>>, <<1, 2>>, <<1, 2, 1>>,
          <<1, 2, 2>>, <<2>>}

AllCalls ==
  [op : {"iter", "visit"}, trie : Tries, key : Paths \cup {None}]
    \cup [op : {"get"}, trie : Tries, key : Paths]
    \cup [op : {"validate"}, trie : Tries, key : {None}]

=============================================================================
