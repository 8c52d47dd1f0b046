---------------------------- MODULE ArrayIterators ----------------------------
(***************************************************************************)
(* The double-ended borrowing iterators of the three arrays                *)
(* (crates/arity-arrays/src/{packed,gapped,fixed}.rs), shared and mutable, *)
(* over the cursors they are built from: `BitIter`                         *)
(* (arity-bitmap/src/iter.rs), which drains a snapshot of a bitmap from    *)
(* both ends, the index range of NicheRanges, rank counters, and slice     *)
(* cursors.  No form searches for an element while iterating: each pairs   *)
(* an index with whatever slot its other cursor is at, and reads or lends  *)
(* that slot unchecked.                                                    *)
(***************************************************************************)
EXTENDS NicheRanges

Kinds == {"packed_present", "packed_all", "packed_present_mut", "packed_all_mut",
          "gapped_present", "gapped_all", "gapped_present_mut", "gapped_all_mut",
          "fixed_all"}

VARIABLES
  kind,            \* which iterator
  occ,             \* the array's occupancy, unchanged while it is borrowed
  live,            \* its filled slots; 0 .. count-1 when packed
  bits,            \* BitIter over occ
  liveBits,        \* BitIter over live (gapped)
  frontRank, backConsumed,  \* rank counters (packed, shared)
  elems,           \* slice::IterMut over the dense elements (packed, mutable)
  folding,         \* the end fold or rfold drains from, once it took over
  fronts, backs    \* what came out at either end: <<index, slot or NoBit>>

array  == <<kind, occ, live>>
cursor == <<bits, liveBits, frontRank, backConsumed, elems>>
vars   == <<array, cursor, range, folding, fronts, backs>>

DenseKinds == {"fixed_all", "packed_present", "packed_all", "packed_present_mut", "packed_all_mut"}
PresentKinds == {"packed_present", "packed_present_mut", "gapped_present", "gapped_present_mut"}

Count == Cardinality(occ)

-----------------------------------------------------------------------------
(* The cursors the constructors make: an unallocated array gives the empty *)
(* ones.                                                                   *)
DenseCursors ==
  /\ frontRank = 0 /\ backConsumed = 0
  /\ elems = [from |-> 0, to |-> Count]

LiveCursor == liveBits = live

Init ==
  /\ kind \in Kinds
  /\ occ \in IF kind = "fixed_all" THEN {Index} ELSE SUBSET Index
  /\ live \in {L \in SUBSET Index : Cardinality(L) = Count}
  /\ kind \in DenseKinds => live = 0 .. Count - 1
  /\ bits = occ
  /\ LiveCursor
  /\ DenseCursors
  /\ Full
  /\ folding = "no"
  /\ fronts = <<>> /\ backs = <<>>

(* BitIter: the lowest bit from the front, the highest from the back. *)
BitAt(B, e) == IF e = "front" THEN Lowest(B) ELSE Highest(B)

DrawBit(e) == bits # {} /\ bits' = bits \ {BitAt(bits, e)}

(* The pair <<i, slot>> leaves at end e. *)
Yield(e, i, slot) ==
  IF e = "front" THEN fronts' = Append(fronts, <<i, slot>>) /\ UNCHANGED backs
                 ELSE backs' = Append(backs, <<i, slot>>) /\ UNCHANGED fronts

-----------------------------------------------------------------------------
(* packed.rs.  A back rank one past the last unread one.                   *)
RankAt_OnePast(e) == IF e = "front" THEN frontRank ELSE Count - backConsumed

(* The dense rank of the next present index at end e, from the counters.   *)
RankAt(e) == IF e = "front" THEN frontRank ELSE Count - 1 - backConsumed

CountRank(e) ==
  IF e = "front" THEN frontRank' = frontRank + 1 /\ UNCHANGED backConsumed
                 ELSE backConsumed' = backConsumed + 1 /\ UNCHANGED frontRank

PackedPresentIter(e) ==
  /\ kind = "packed_present"
  /\ DrawBit(e)
  /\ CountRank(e)
  /\ Yield(e, BitAt(bits, e), RankAt(e))
  /\ UNCHANGED <<liveBits, elems, range>>

PackedIter(e) ==
  /\ kind = "packed_all"
  /\ ClosedStep(e)
  /\ IF ClosedAt(e) \in occ
       THEN CountRank(e) /\ Yield(e, ClosedAt(e), RankAt(e))
       ELSE UNCHANGED <<frontRank, backConsumed>> /\ Yield(e, ClosedAt(e), NoBit)
  /\ UNCHANGED <<bits, liveBits, elems>>

(* slice::IterMut, external. *)
ElemAt(e) == IF e = "front" THEN elems.from ELSE elems.to - 1

DrawElem(e) ==
  /\ elems.from < elems.to
  /\ elems' = IF e = "front" THEN [elems EXCEPT !.from = @ + 1]
                             ELSE [elems EXCEPT !.to = @ - 1]

(* A zip of the set bits with the dense elements: both cursors step.       *)
PackedPresentIterMut(e) ==
  /\ kind = "packed_present_mut"
  /\ DrawBit(e)
  /\ DrawElem(e)
  /\ Yield(e, BitAt(bits, e), ElemAt(e))
  /\ UNCHANGED <<liveBits, frontRank, backConsumed, range>>

(* Absent slots yield None and leave the elements alone. *)
PackedIterMut(e) ==
  /\ kind = "packed_all_mut"
  /\ ClosedStep(e)
  /\ IF ClosedAt(e) \in occ
       THEN DrawElem(e) /\ Yield(e, ClosedAt(e), ElemAt(e))
       ELSE UNCHANGED elems /\ Yield(e, ClosedAt(e), NoBit)
  /\ UNCHANGED <<bits, liveBits, frontRank, backConsumed>>

-----------------------------------------------------------------------------
(* gapped.rs.  The occupancy and the live cursor step together, so the     *)
(* r-th of one pairs with the r-th of the other.                           *)
DrawPresent(e) ==
  /\ DrawBit(e)
  /\ liveBits # {}
  /\ liveBits' = liveBits \ {BitAt(liveBits, e)}

GappedPresentIter(e) ==
  /\ kind = "gapped_present"
  /\ DrawPresent(e)
  /\ Yield(e, BitAt(bits, e), BitAt(liveBits, e))
  /\ UNCHANGED <<frontRank, backConsumed, elems, range>>

GappedPresentIterMut(e) ==
  /\ kind = "gapped_present_mut"
  /\ DrawPresent(e)
  /\ Yield(e, BitAt(bits, e), BitAt(liveBits, e))
  /\ UNCHANGED <<frontRank, backConsumed, elems, range>>

(* The range crosses the slots; the present cursors supply the elements,   *)
(* and the index they come with is dropped.                                *)
GappedSlots(e) ==
  /\ ClosedStep(e)
  /\ IF ClosedAt(e) \in occ
       THEN DrawPresent(e) /\ Yield(e, ClosedAt(e), BitAt(liveBits, e))
       ELSE UNCHANGED <<bits, liveBits>> /\ Yield(e, ClosedAt(e), NoBit)
  /\ UNCHANGED <<frontRank, backConsumed, elems>>

GappedIter(e) == kind = "gapped_all" /\ GappedSlots(e)

GappedIterMut(e) == kind = "gapped_all_mut" /\ GappedSlots(e)

-----------------------------------------------------------------------------
(* fixed.rs: every index with every element, by a zip. *)
FixedIter(e) ==
  /\ kind = "fixed_all"
  /\ ClosedStep(e)
  /\ DrawElem(e)
  /\ Yield(e, ClosedAt(e), ElemAt(e))
  /\ UNCHANGED <<bits, liveBits, frontRank, backConsumed>>

-----------------------------------------------------------------------------
(* fold and rfold consume what is left, from one end.  Only the            *)
(* specialised ones are modelled: BitIter's under the gapped PresentIter,  *)
(* and Zip's, which the packed PresentIterMut forwards to.                 *)
Fold(e) ==
  /\ folding = "no"
  /\ kind \in {"gapped_present", "packed_present_mut"}
  /\ folding' = e
  /\ UNCHANGED <<array, cursor, range, fronts, backs>>

Draw(e) ==
  /\ folding \in {"no", e}
  /\ \/ PackedPresentIter(e)
     \/ PackedIter(e)
     \/ PackedPresentIterMut(e)
     \/ PackedIterMut(e)
     \/ GappedPresentIter(e)
     \/ GappedPresentIterMut(e)
     \/ GappedIter(e)
     \/ GappedIterMut(e)
     \/ FixedIter(e)
  /\ UNCHANGED <<array, folding>>

Next == \E e \in EndsOf : Draw(e) \/ Fold(e)

Spec == Init /\ [][Next]_vars

-----------------------------------------------------------------------------
(* len(): the index cursor's, and for a zip the smaller of the two. *)
Remaining ==
  CASE kind = "packed_present_mut" -> Min({Cardinality(bits), elems.to - elems.from})
    [] kind = "fixed_all" -> Min({ClosedLen, elems.to - elems.from})
    [] kind \in PresentKinds \ {"packed_present_mut"} -> Cardinality(bits)
    [] OTHER -> ClosedLen

(* What `get` finds: the slot of index i, or NoBit. *)
Stored(i) == IF i \in occ THEN Select(live, Rank(occ, i)) ELSE NoBit

(* The indices an iteration covers, ascending, with their slots. *)
Expected ==
  LET covered == IF kind \in PresentKinds THEN occ ELSE Index
  IN  [k \in 1 .. Cardinality(covered) |->
         LET i == Select(covered, k - 1) IN <<i, Stored(i)>>]

(* However draws at the two ends interleave, and wherever fold takes over, *)
(* the front yields the indices ascending and the back descending, each    *)
(* once and each with the slot `get` would have read, and together they    *)
(* never overlap: no element is lent mutably twice.                        *)
PairsInOrder ==
  /\ IsPrefix(fronts, Expected)
  /\ IsPrefix(backs, Reverse(Expected))
  /\ Len(fronts) + Len(backs) <= Len(Expected)

(* `len()` is exact at every point, and an iterator is exhausted exactly   *)
(* when everything came out (and stays so: it is fused); in particular the *)
(* cursor an `expect` or an unchecked read relies on is not exhausted      *)
(* before the other.                                                       *)
ExactSize ==
  /\ Len(fronts) + Len(backs) + Remaining = Len(Expected)
  /\ Remaining = 0 <=> ~ENABLED (\E e \in EndsOf : Draw(e))

=============================================================================
