----------------------------- MODULE BitmapWords -----------------------------
(***************************************************************************)
(* The word-level algorithms behind the `Bitmap` trait                     *)
(* (crates/arity-bitmap/src/{native,u256}.rs), against the set operators   *)
(* of Bitmaps that the array modules are written with.  A word is an       *)
(* integer below 2^W; a shift by W or more keeps only the low bits of the  *)
(* shift amount, as a release build does, so a mask that forgets to        *)
(* saturate is wrong here as it is there.                                  *)
(***************************************************************************)
EXTENDS Bitmaps, Sequences, Bitwise, SequencesExt

CONSTANTS W   \* bits in a word, a power of two

ASSUME WidthAssumption == W \in {2, 4, 8, 16}

VARIABLES word

Positions == 0 .. W - 1
AllOnes   == 2 ^ W - 1

Invert(x)    == AllOnes - x
Shl(x, k)    == (x * 2 ^ (k % W)) % 2 ^ W
Shr(x, k)    == x \div 2 ^ (k % W)
WrapDec(x)   == (x + AllOnes) % 2 ^ W
Bit(x, i)    == (x \div 2 ^ i) % 2

(* The set a word stands for. *)
Bits(x) == {i \in Positions : Bit(x, i) = 1}

(* External: count_ones, trailing_zeros and ilog2 of the integer types. *)
CountOnes(x)     == Cardinality(Bits(x))
TrailingZeros(x) == IF x = 0 THEN W ELSE Lowest(Bits(x))
Ilog2(x)         == Highest(Bits(x))

-----------------------------------------------------------------------------
Test(x, i)    == (x & Shl(1, i)) # 0
WithBit(x, i) == x | Shl(1, i)

(* Mutant of WithoutBit: the bit is flipped, so an unset bit is set. *)
WithoutBit_Flips(x, i) == x ^^ Shl(1, i)

WithoutBit(x, i) == x & Invert(Shl(1, i))

(* Mutant of RankBelow: the bit itself is counted. *)
RankBelow_Inclusive(x, i) == CountOnes(x & WrapDec(Shl(1, i + 1)))

(* The popcount of the bits below i. *)
RankBelow(x, i) == CountOnes(x & WrapDec(Shl(1, i)))

(* U256 answers 0 for index 0 without building a mask. *)
RankBelow256(x, i) == IF i = 0 THEN 0 ELSE CountOnes(x & (Shl(1, i) - 1))

ClearLowest(x)  == x & WrapDec(x)
ClearHighest(x) == IF x = 0 THEN 0 ELSE x & Invert(Shl(1, Ilog2(x)))

(* Halving sizes of the binary search: W/2, W/4, ..., 1. *)
Sizes == CASE W = 2 -> <<1>> [] W = 4 -> <<2, 1>>
           [] W = 8 -> <<4, 2, 1>> [] W = 16 -> <<8, 4, 2, 1>>

(* Mutant of SelectStep: a rank equal to the low count stays low. *)
SelectStep_Off(s, size) ==
  LET low == CountOnes(s.x & WrapDec(Shl(1, size)))
  IN  IF s.n > low
      THEN [n |-> s.n - low, x |-> Shr(s.x, size), pos |-> s.pos + size]
      ELSE s

(* One round: skip the low `size` bits when the rank lies above them. *)
SelectStep(s, size) ==
  LET low == CountOnes(s.x & WrapDec(Shl(1, size)))
  IN  IF s.n >= low
      THEN [n |-> s.n - low, x |-> Shr(s.x, size), pos |-> s.pos + size]
      ELSE s

RawSelect(x, n) ==
  IF n >= CountOnes(x) THEN NoBit
  ELSE FoldLeft(SelectStep, [n |-> n, x |-> x, pos |-> 0], Sizes).pos

(* Mutant of LowMask: it does not saturate at the word width. *)
LowMask_Wraps(k) == WrapDec(Shl(1, k))

(* Bits [0, k), saturated at the word width. *)
LowMask(k) == IF k >= W THEN AllOnes ELSE WrapDec(Shl(1, k))

RawNearestClearAtOrBelow(x, from) ==
  LET holes == Invert(x) & LowMask(from + 1)
  IN  IF holes = 0 THEN NoBit ELSE Ilog2(holes)

RawNearestClearIn(x, from, limit) ==
  LET holes == (Invert(x) & LowMask(limit)) & Invert(LowMask(from))
  IN  IF holes = 0 THEN NoBit ELSE TrailingZeros(holes)

-----------------------------------------------------------------------------
(* Every way a word changes. *)
Init == word = 0

Next ==
  \/ \E i \in Positions : word' = WithBit(word, i)
  \/ \E i \in Positions : word' = WithoutBit(word, i)
  \/ word' = ClearLowest(word)
  \/ word' = ClearHighest(word)

Spec == Init /\ [][Next]_word

-----------------------------------------------------------------------------
(* The two rank implementations count the members below the index. *)
RankAgrees ==
  \A i \in Positions : RankBelow(word, i) = Rank(Bits(word), i)
                    /\ RankBelow256(word, i) = Rank(Bits(word), i)

(* test, with_bit and without_bit are membership, union and difference     *)
(* (clearing an unset bit is a no-op), and the cursor steps of BitIter,    *)
(* which pair a position with a word, take out exactly that position: the  *)
(* lowest and the highest one, of a zero word none.                        *)
UpdatesAgree ==
  /\ \A i \in Positions :
       /\ Test(word, i) <=> i \in Bits(word)
       /\ Bits(WithBit(word, i)) = Bits(word) \cup {i}
       /\ Bits(WithoutBit(word, i)) = Bits(word) \ {i}
  /\ word # 0 => TrailingZeros(word) = Lowest(Bits(word))
  /\ Bits(ClearLowest(word)) = Bits(word) \ {Lowest(Bits(word))}
  /\ Bits(ClearHighest(word)) = Bits(word) \ {Highest(Bits(word))}

(* The popcount-guided binary search finds the n-th set bit and nothing    *)
(* beyond the last one.                                                    *)
SelectAgrees == \A n \in 0 .. W : RawSelect(word, n) = Select(Bits(word), n)

(* The masked hole searches find the nearest clear bit for every legal     *)
(* argument, the word width itself included.                               *)
HolesAgree ==
  /\ \A from \in Positions :
       RawNearestClearAtOrBelow(word, from) = NearestClearAtOrBelow(Bits(word), from)
  /\ \A limit \in 0 .. W : \A from \in 0 .. limit :
       RawNearestClearIn(word, from, limit) = NearestClearIn(Bits(word), from, limit)

=============================================================================
