------------------------------- MODULE MCTrie -------------------------------
EXTENDS Trie

CONSTANTS v1, v2

(* Three indices; keys that nest, branch three ways and share inner paths. *)
ThreeIndices == 0 .. 2
BranchingKeys == {<<0>>, <<0, 0>>, <<0, 1>>, <<0, 2>>, <<0, 1, 1>>, <<1, 0>>}
BranchingPrefixes == {<<0>>, <<0, 1>>}

TwoIndices == 0 .. 1
NestedKeys == {<< >>, <<0>>, <<0, 0, 1>>, <<0, 0, 0>>, <<0, 1>>}
NestedPrefixes == {<< >>, <<0, 0>>}
SensitiveInner == {<<0>>, <<0, 0>>}

OneValue == {v1}
TwoValues == {v1, v2}

OnlyEmpty == {EmptyTrie}

(* Tries an adopter builds through children_mut: a valueless single-child  *)
(* root, the same below a valued root, and a sealed edge one of whose      *)
(* descendants was turned inline.                                          *)
SensitiveRoot == {<< >>}
ChainKeys == {<< >>, <<1, 0>>, <<0>>, <<0, 0>>}
ChainPrefixes == {<<1>>, <<0, 0>>}

Valueless(partial) == [partial |-> partial, value |-> None, hash |-> None]
Sealed(t, s, siblings) ==
  LET u == Updated(t, s)
  IN  [u EXCEPT ![s].hash = HashNode(u, s, s, siblings)]

ThinRoot == (<< >> :> Valueless(<<1>>)) @@ (<<1, 0>> :> LeafNode(<< >>, v1))
ThinInner ==
  (<< >> :> LeafNode(<< >>, v1)) @@ (<<1>> :> Valueless(<< >>))
    @@ (<<1, 0>> :> LeafNode(<< >>, v2))
SealedOverInline ==
  LET t == (<< >> :> LeafNode(<< >>, v1)) @@ (<<0>> :> LeafNode(<< >>, v1))
             @@ (<<0, 0>> :> LeafNode(<< >>, v2))
  IN  Materialized(Sealed(Sealed(t, <<0, 0>>, 1), <<0>>, 1), <<0, 0>>)

HandBuilt == {EmptyTrie, ThinRoot, ThinInner, SealedOverInline}

=============================================================================
