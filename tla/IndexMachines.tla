---------------------------- MODULE IndexMachines ----------------------------
(***************************************************************************)
(* The four small machines over the indices of one arity, side by side:    *)
(* index ranges, the borrowing iterators, the fixed array and the          *)
(* decoders.  Each has its own variables, and what it promises is stated   *)
(* here of them.                                                           *)
(***************************************************************************)
EXTENDS NicheIndices

CONSTANTS
  Elem, Absent,              \* FixedArray
  Value, ByteBits, MaxPairs  \* WireForms

(* `None` is no element. *)
ASSUME AbsentAssumption == Absent \notin Elem \cup Value

(* A bitmap is whole bytes. *)
ASSUME BytesAssumption == ByteBits \in Nat \ {0} /\ N % ByteBits = 0

(* A bound on the inputs read pair by pair. *)
ASSUME PairsAssumption == MaxPairs \in Nat

VARIABLES
  form, start, end, left, right, over, fronts, backs,  \* RangeDraws
  kind, occ, live, marks, liveBits, frontRank,         \* ArrayIterators
  backConsumed, slice, low, high, spent, folding,
  heads, tails,
  slots, outside, mode, elems, built, lo, hi, done,    \* FixedArray
  wireForm, wire, unread, out, last, verdict             \* WireForms

R == INSTANCE RangeDraws WITH lo <- left, hi <- right, done <- over
A == INSTANCE ArrayIterators WITH
       bits <- marks, elems <- slice, lo <- low, hi <- high, done <- spent,
       fronts <- heads, backs <- tails
F == INSTANCE FixedArray
W == INSTANCE WireForms WITH form <- wireForm, rest <- unread

-----------------------------------------------------------------------------
(* Index ranges drawn from both ends (range.rs) yield each index once. *)
RangeExact == R!RangeExact

(* The borrowing iterators of all three arrays pair each index with its    *)
(* own slot, in order, from both ends.                                     *)
PairsInOrder == A!PairsInOrder

(* `len()` of every borrowing iterator is exact, until it is exhausted. *)
ExactSize == A!ExactSize

(* The fixed array (fixed.rs) is a map, also while it is consumed. *)
RefinesMap == F!RefinesMap

(* The decoders (macros.rs, compact.rs) accept exactly the encodings. *)
WireIsCanonical == W!WireIsCanonical

=============================================================================
