---------------------------- MODULE MCPackedArray ----------------------------
(* A packed array over four indices with four interchangeable elements:    *)
(* every membership, every order of elements, an allocation failure at     *)
(* every allocation.                                                       *)
EXTENDS PackedArray, TLC

CONSTANTS e1, e2, e3, e4

MCN == 4
MCElem == {e1, e2, e3, e4}
MCSymmetry == Permutations(MCElem)

=============================================================================
