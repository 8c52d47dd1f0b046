----------------------------- MODULE GappedArray -----------------------------
(***************************************************************************)
(* `GappedArray<T, A>` (crates/arity-arrays/src/gapped.rs): one heap block *)
(* of a power-of-two capacity, with two bitmaps in its header.             *)
(*                                                                         *)
(*   occ    which logical indices are present ("occupancy")                *)
(*   live   which physical slots are filled                                *)
(*                                                                         *)
(* The r-th present index owns the r-th live slot.  Physical memory is     *)
(* explicit: a slot holds an element or is uninitialised, and reading an   *)
(* element out or moving it leaves an uninitialised slot behind.  Elements *)
(* are linear: `outside` is the set the caller owns.                       *)
(***************************************************************************)
EXTENDS Bitmaps

CONSTANTS
  N,          \* A::LEN, the number of logical indices
  Elem,       \* the element values, each with its identity
  Uninit,     \* the content of an uninitialised slot
  Offered,    \* Offered[i]: the elements callers insert at index i
  Requests    \* the arguments callers give to with_capacity and reserve

Index  == 0 .. N - 1
Powers == {1, 2, 4, 8, 16, 32, 64, 128, 256}

ASSUME ArityAssumption == N \in Powers
ASSUME UninitAssumption == Uninit \notin Elem
ASSUME OfferedAssumption == Offered \in [Index -> SUBSET Elem]
ASSUME RequestsAssumption == Requests \subseteq Nat

VARIABLES
  cap,        \* slots in the block; 0 is `None`, no block
  occ,        \* header bitmap over logical indices
  live,       \* header bitmap over physical slots
  slots,      \* the element array, as far as it could ever extend
  outside     \* elements owned by the caller

block == <<cap, occ, live, slots>>
vars  == <<cap, occ, live, slots, outside>>

Phys   == 0 .. N - 1
Count  == Cardinality(occ)

-----------------------------------------------------------------------------
(* Capacity and layout arithmetic.                                         *)

(* Mutant of Pow2CapFor: the power of two strictly above n. *)
Pow2CapFor_Strict(n) ==
  IF n = 0 THEN 0
  ELSE IF n >= N THEN N
  ELSE CHOOSE c \in Powers : c > n /\ \A d \in Powers : d > n => c <= d

(* Smallest power of two that holds n, capped at N; 0 for n = 0. *)
Pow2CapFor(n) ==
  IF n = 0 THEN 0
  ELSE IF n >= N THEN N
  ELSE CHOOSE c \in Powers : c >= n /\ \A d \in Powers : d >= n => c <= d

(* Mutant of SpreadPos: spread as if there were one element more. *)
SpreadPos_OneMore(r, n, c) == (r * c) \div (n + 1)

(* Slot of the rank-r element when n elements are spread over c slots. *)
SpreadPos(r, n, c) == (r * c) \div n

(* The live bitmap of a fresh spread of n elements over c slots. *)
Spread(n, c) == {SpreadPos(r, n, c) : r \in 0 .. n - 1}

(* Reading a slot: outside the block there is nothing initialised. *)
Read(p) == IF p \in 0 .. cap - 1 THEN slots[p] ELSE Uninit

(* Mutant of SlotOf: a rank that counts the index itself. *)
SlotOf_InclusiveRank(i) == Select(live, Rank(occ, i + 1))

(* The physical slot of a present logical index. *)
SlotOf(i) == Select(live, Rank(occ, i))

(* What `get(i)` finds. *)
Get(i) == IF i \in occ THEN Read(SlotOf(i)) ELSE Uninit

-----------------------------------------------------------------------------
(* with_capacity(n); new() is with_capacity(0). *)
Init ==
  /\ \E n \in Requests \cup {0} : cap = Pow2CapFor(n)
  /\ occ = {}
  /\ live = {}
  /\ slots = [p \in Phys |-> Uninit]
  /\ outside = Elem

(* rebuild_to: a fresh block of c slots, the r-th live element moved to    *)
(* the r-th spread slot.                                                   *)
RebuildTo(c) ==
  /\ cap' = c
  /\ live' = Spread(Count, c)
  /\ slots' = [p \in Phys |->
                 IF p \in live' THEN Read(Select(live, Rank(live', p)))
                                ELSE Uninit]
  /\ UNCHANGED occ

(* rebuild_with_insert: the same with (i, e) taking its rank's slot.       *)
RebuildWithInsert(i, e, c) ==
  LET rank == Rank(occ \cup {i}, i)
      Old(r) == Read(Select(live, IF r < rank THEN r ELSE r - 1))
  IN  /\ cap' = c
      /\ occ' = occ \cup {i}
      /\ live' = Spread(Count + 1, c)
      /\ slots' = [p \in Phys |->
                     IF p \notin live' THEN Uninit
                     ELSE IF Rank(live', p) = rank THEN e
                     ELSE Old(Rank(live', p))]

-----------------------------------------------------------------------------
(* place_absent: where a new element goes when the block has room.         *)

(* The live slots of the predecessor and of the successor of i, with the   *)
(* sentinels -1 and cap.                                                   *)
PLo(i) == IF Rank(occ, i) = 0 THEN -1 ELSE Select(live, Rank(occ, i) - 1)
PHi(i) == IF Rank(occ, i) = Count THEN cap ELSE Select(live, Rank(occ, i))

(* A clear slot strictly between the neighbours. *)
HoleBetween(i) == NearestClearIn(live, PLo(i) + 1, PHi(i))

(* Mutant of HoleRight: the search is not bounded by the block. *)
HoleRight_Unbounded(i) == NearestClearIn(live, PHi(i), N)

(* The nearest hole on either side when the neighbours are adjacent. *)
HoleLeft(i)  == NearestClearAtOrBelow(live, PLo(i))
HoleRight(i) == NearestClearIn(live, PHi(i), cap)

(* Live elements a shift crosses; no hole costs usize::MAX, which no count *)
(* of at most N elements reaches.                                          *)
Unreachable  == N + 1
LeftCost(i)  == IF HoleLeft(i) = NoBit THEN Unreachable ELSE PLo(i) - HoleLeft(i)
RightCost(i) == IF HoleRight(i) = NoBit THEN Unreachable ELSE HoleRight(i) - PHi(i)

(* Mutants of Strategy: ties go to the respread; the left side is taken    *)
(* whenever it has a hole.                                                 *)
Strategy_TiesRespread(i) ==
  IF HoleBetween(i) # NoBit THEN "hole"
  ELSE IF LeftCost(i) <= RightCost(i) /\ LeftCost(i) < Count THEN "left"
  ELSE IF RightCost(i) < Count THEN "right"
  ELSE "respread"

Strategy_LeftFirst(i) ==
  IF HoleBetween(i) # NoBit THEN "hole"
  ELSE IF LeftCost(i) <= Count THEN "left"
  ELSE IF RightCost(i) <= Count THEN "right"
  ELSE "respread"

Strategy(i) ==
  IF HoleBetween(i) # NoBit THEN "hole"
  ELSE IF LeftCost(i) <= RightCost(i) /\ LeftCost(i) <= Count THEN "left"
  ELSE IF RightCost(i) <= Count THEN "right"
  ELSE "respread"

(* The element array after write_into_hole, shift_left_and_write and       *)
(* shift_right_and_write: the run (hole, pHi) moves down one slot, or the  *)
(* run [pHi, hole) up one, and e takes the slot that opens.                *)
WriteIntoHole(hole, e) == [slots EXCEPT ![hole] = e]

ShiftLeft(hole, pHi, e) ==
  [p \in Phys |-> IF p \in hole .. pHi - 2 THEN slots[p + 1]
                  ELSE IF p = pHi - 1 THEN e
                  ELSE slots[p]]

(* Mutant of ShiftRight: a forward copy, which is not overlap-safe. *)
ShiftRight_ForwardCopy(pHi, hole, e) ==
  [p \in Phys |-> IF p \in pHi + 1 .. hole THEN slots[pHi]
                  ELSE IF p = pHi THEN e
                  ELSE slots[p]]

ShiftRight(pHi, hole, e) ==
  [p \in Phys |-> IF p \in pHi + 1 .. hole THEN slots[p - 1]
                  ELSE IF p = pHi THEN e
                  ELSE slots[p]]

InPlace(i, hole, newSlots) ==
  /\ occ' = occ \cup {i}
  /\ live' = live \cup {hole}
  /\ slots' = newSlots
  /\ UNCHANGED cap

PlaceAbsent(i, e) ==
  CASE Strategy(i) = "hole" ->
         InPlace(i, HoleBetween(i), WriteIntoHole(HoleBetween(i), e))
    [] Strategy(i) = "left" ->
         InPlace(i, HoleLeft(i), ShiftLeft(HoleLeft(i), PHi(i), e))
    [] Strategy(i) = "right" ->
         InPlace(i, HoleRight(i), ShiftRight(PHi(i), HoleRight(i), e))
    [] OTHER -> RebuildWithInsert(i, e, cap)

-----------------------------------------------------------------------------
(* The operations that change state, one action per arm of `insert`.       *)

(* The first insert allocates a one-slot block. *)
InsertFirst(i, e) ==
  /\ cap = 0
  /\ cap' = 1
  /\ occ' = {i}
  /\ live' = {0}
  /\ slots' = [slots EXCEPT ![0] = e]
  /\ outside' = outside \ {e}

(* A present index is overwritten in place and its element handed back. *)
Overwrite(i, e) ==
  /\ i \in occ
  /\ slots' = [slots EXCEPT ![SlotOf(i)] = e]
  /\ outside' = (outside \ {e}) \cup {Read(SlotOf(i))}
  /\ UNCHANGED <<cap, occ, live>>

(* A full block doubles. *)
InsertIntoFull(i, e) ==
  /\ cap > 0
  /\ i \notin occ
  /\ Count = cap
  /\ RebuildWithInsert(i, e, Pow2CapFor(Count + 1))
  /\ outside' = outside \ {e}

InsertWithRoom(i, e) ==
  /\ cap > 0
  /\ i \notin occ
  /\ Count # cap
  /\ PlaceAbsent(i, e)
  /\ outside' = outside \ {e}

Insert(i, e) ==
  /\ e \in outside \cap Offered[i]
  /\ \/ InsertFirst(i, e)
     \/ Overwrite(i, e)
     \/ InsertIntoFull(i, e)
     \/ InsertWithRoom(i, e)

(* Mutants of Remove: the live bit of the logical index is cleared; the    *)
(* block is released with its last element.                                *)
Remove_LogicalBit(i) ==
  LET p == SlotOf(i)
  IN  /\ i \in occ
      /\ occ' = occ \ {i}
      /\ live' = live \ {i}
      /\ slots' = [slots EXCEPT ![p] = Uninit]
      /\ outside' = outside \cup {Read(p)}
      /\ UNCHANGED cap

Remove_Releases(i) ==
  LET p == SlotOf(i)
  IN  /\ i \in occ
      /\ occ' = occ \ {i}
      /\ live' = live \ {p}
      /\ slots' = [slots EXCEPT ![p] = Uninit]
      /\ outside' = outside \cup {Read(p)}
      /\ cap' = IF Count = 1 THEN 0 ELSE cap

(* Clear both bits, then read the element out; nothing else moves. *)
Remove(i) ==
  LET p == SlotOf(i)
  IN  /\ i \in occ
      /\ occ' = occ \ {i}
      /\ live' = live \ {p}
      /\ slots' = [slots EXCEPT ![p] = Uninit]
      /\ outside' = outside \cup {Read(p)}
      /\ UNCHANGED cap

TakeOnlyChild ==
  /\ Count = 1
  /\ Remove(Lowest(occ))

Reserve(n) ==
  LET target == Pow2CapFor(Count + n)
  IN  /\ target > cap
      /\ \/ /\ cap = 0
            /\ cap' = target
            /\ UNCHANGED <<occ, live, slots>>
         \/ /\ cap > 0
            /\ RebuildTo(target)
      /\ UNCHANGED outside

(* `*self = Self::new()` when empty, a smaller block when that is enough. *)
ShrinkToFit ==
  /\ \/ /\ Count = 0
        /\ cap' = 0
        /\ slots' = [p \in Phys |-> Uninit]
        /\ UNCHANGED <<occ, live>>
     \/ /\ Count > 0
        /\ Pow2CapFor(Count) < cap
        /\ RebuildTo(Pow2CapFor(Count))
  /\ UNCHANGED outside

(* Reset the header, then drop what was live; the block stays. *)
Clear ==
  /\ cap > 0
  /\ occ' = {}
  /\ live' = {}
  /\ slots' = [p \in Phys |-> IF p \in live THEN Uninit ELSE slots[p]]
  /\ outside' = outside \cup {Read(p) : p \in live}
  /\ UNCHANGED cap

(* What a conversion into a FixedArray<Option<T>, A> finds for a present   *)
(* index: the r-th occupancy bit pairs with the r-th live bit.             *)
Fixed(i) == Read(Select(live, Rank(occ, i)))

(* Into a FixedArray<Option<T>, A> and back into a block of the exact      *)
(* power-of-two capacity; also the way to and from PackedArray.            *)
ThroughFixed ==
  LET c == Pow2CapFor(Count)
      L == IF Count = 0 THEN {} ELSE Spread(Count, c)
  IN  /\ cap' = c
      /\ live' = L
      /\ slots' = [p \in Phys |-> IF p \in L THEN Fixed(Select(occ, Rank(L, p)))
                                             ELSE Uninit]
      /\ UNCHANGED <<occ, outside>>

Next ==
  \/ \E i \in Index : \E e \in Elem : Insert(i, e)
  \/ \E i \in Index : Remove(i)
  \/ TakeOnlyChild
  \/ \E n \in Requests : Reserve(n)
  \/ ShrinkToFit
  \/ Clear
  \/ ThroughFixed

Spec == Init /\ [][Next]_vars

-----------------------------------------------------------------------------
(* Properties.                                                             *)

(* The header and the element array have their types: the capacity is 0 or *)
(* a power of two up to N, and the live bits lie inside the block.         *)
TypeOK ==
  /\ cap \in {0} \cup {c \in Powers : c <= N}
  /\ occ \subseteq Index
  /\ live \subseteq 0 .. cap - 1
  /\ slots \in [Phys -> Elem \cup {Uninit}]
  /\ outside \subseteq Elem

(* Both bitmaps always have the same popcount, which is what every         *)
(* `live.select(rank).expect(..)` in get, remove, insert and               *)
(* neighbor_bounds relies on.                                              *)
EqualPopcount == Cardinality(occ) = Cardinality(live)

(* The set bits of `live` are exactly the initialised slots: a slot that   *)
(* reads as live can be read and dropped, and no element sits in a slot    *)
(* that will never be dropped.                                             *)
LiveIsInitialised == \A p \in Phys : p \in live <=> slots[p] # Uninit

(* Growing, shifting, respreading, overwriting, removing and clearing only *)
(* ever move elements: each one is in exactly one slot or with the caller, *)
(* so none leaks and none is dropped twice.                                *)
ElementsConserved ==
  /\ outside \cup {slots[p] : p \in {q \in Phys : slots[q] # Uninit}} = Elem
  /\ \A p \in Phys : slots[p] \notin outside
  /\ \A p, q \in Phys : slots[p] = slots[q] /\ slots[p] # Uninit => p = q

(* "Respread never wins with spare capacity": an absent index with room in *)
(* the block is always placed in a hole or by a shift.                     *)
RespreadNeverWins ==
  \A i \in Index \ occ : cap > 0 /\ Count < cap => Strategy(i) # "respread"

(* "Delete never moves": when indices disappear, every remaining element   *)
(* stays in its physical slot and the block keeps its capacity.            *)
DeleteNeverMoves ==
  [][occ' # occ /\ occ' \subseteq occ
       => cap' = cap /\ \A i \in occ' : SlotOf(i)' = SlotOf(i)]_vars

(* An insert into a block with room moves no more elements than any other  *)
(* arrangement of the same block would have to.                            *)
Layouts(n, c) == {L \in SUBSET (0 .. c - 1) : Cardinality(L) = n}
MovesTo(L, newOcc) == {j \in occ : Select(L, Rank(newOcc, j)) # SlotOf(j)}

InsertMovesFewest ==
  [][occ \subseteq occ' /\ occ' # occ /\ Count < cap
       => \A L \in Layouts(Count + 1, cap) :
            Cardinality(MovesTo(L, occ')) >= Cardinality(MovesTo(live', occ'))]_vars

(* Capacity changes only as documented: an insert changes it only when the *)
(* block is full, and then doubles it; otherwise it grows only without     *)
(* touching membership, and shrinks only to the least power of two that    *)
(* holds the elements.                                                     *)
CapacityDiscipline ==
  [][cap' # cap =>
       \/ occ' # occ /\ Count = cap /\ cap' = IF cap = 0 THEN 1 ELSE 2 * cap
       \/ occ' = occ /\ cap' > cap
       \/ occ' = occ /\ cap' < cap /\ Count <= cap' /\ (cap' < 2 * Count \/ cap' = 0)]_vars

(* The block implements an owned sparse map: what `get` finds through the  *)
(* two bitmaps is exactly what the operations put there.                   *)
Map == INSTANCE SparseMap WITH
         Absent <- Uninit,
         map <- [i \in Index |-> Get(i)]

RefinesMap == Map!Spec

=============================================================================
