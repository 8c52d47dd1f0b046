---------------------------- MODULE MCGappedArray ----------------------------
(* Every reachable layout of an Arity8 block, the smallest arity of the    *)
(* crate: index i only ever receives element i, so a state is a layout.    *)
EXTENDS GappedArray, TLC

CONSTANTS e1, e2, e3, e4

MCN == 8
MCRequests == 0 .. 9

(* One element per index. *)
OwnElem == Index
OwnOffered == [i \in Index |-> {i}]

(* A few interchangeable elements that may be inserted anywhere. *)
FewElem == {e1, e2, e3, e4}
FewOffered == [i \in Index |-> FewElem]
FewSymmetry == Permutations(FewElem)

=============================================================================
