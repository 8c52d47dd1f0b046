------------------------------- MODULE Bitmaps -------------------------------
(***************************************************************************)
(* The read side of the `Bitmap` trait (crates/arity-bitmap): rank, select *)
(* and the nearest-clear-bit searches, over a bitmap taken as the set of   *)
(* the positions of its set bits.  `test`, `with_bit`, `without_bit` and   *)
(* `count_ones` are \in, \cup, \ and Cardinality.  BitmapWords checks that *)
(* the word-level algorithms of the crate compute exactly these operators. *)
(***************************************************************************)
EXTENDS Integers, FiniteSets

(* `None`, where the code returns an Option of a position. *)
NoBit == -1

(* The number of set bits strictly below position i. *)
Rank(S, i) == Cardinality({j \in S : j < i})

(* The position of the r-th set bit (r = 0 is the lowest), or NoBit. *)
Select(S, r) ==
  IF \E p \in S : Rank(S, p) = r
  THEN CHOOSE p \in S : Rank(S, p) = r
  ELSE NoBit

(* The lowest and the highest member of a set of positions, or NoBit. *)
Lowest(P)  == IF P = {} THEN NoBit ELSE CHOOSE p \in P : \A q \in P : p <= q
Highest(P) == IF P = {} THEN NoBit ELSE CHOOSE p \in P : \A q \in P : q <= p

(* The clear positions of S in lo..hi-1. *)
ClearIn(S, lo, hi) == (lo .. hi - 1) \ S

(* The nearest clear bit at or below `from`, scanning down. *)
NearestClearAtOrBelow(S, from) == Highest(ClearIn(S, 0, from + 1))

(* The least clear bit in lo..hi-1, scanning up. *)
NearestClearIn(S, lo, hi) == Lowest(ClearIn(S, lo, hi))

=============================================================================
