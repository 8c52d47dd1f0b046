------------------------------ MODULE FixedArray ------------------------------
(***************************************************************************)
(* FixedArray<Option<T>> (crates/arity-arrays/src/fixed.rs), the full-     *)
(* width array, as a trie's children (arity-tries/src/children.rs) and as  *)
(* the form the dense arrays convert through.  The operations that consume *)
(* the array hand out its elements while they run: the owning iterator and *)
(* `map` each pair an index range with the array's own element iterator,   *)
(* which hybrid-array supplies (external).                                 *)
(***************************************************************************)
EXTENDS NicheRanges

CONSTANTS
  Elem,     \* the elements, each with its identity
  Absent    \* `None` in a slot

VARIABLES
  slots,     \* Index -> element or Absent
  outside,   \* the elements the caller owns
  mode,      \* "held", or consumed by "drain" (IntoIter) or "map"
  elems,     \* the element iterator: slots[from .. to - 1] are unread
  built      \* the array `map` is building

vars == <<slots, outside, mode, elems, built, range>>

AllAbsent == [i \in Index |-> Absent]

Owned(S) == S \ {Absent}

(* `from_fn(|_| None)`; no iterator is running. *)
New ==
  /\ slots' = AllAbsent /\ built' = AllAbsent
  /\ mode' = "held" /\ elems' = [from |-> 0, to |-> N]
  /\ lo' = 0 /\ hi' = N - 1 /\ done' = FALSE

Init ==
  /\ slots = AllAbsent /\ built = AllAbsent
  /\ mode = "held" /\ elems = [from |-> 0, to |-> N]
  /\ Full
  /\ outside = Elem

-----------------------------------------------------------------------------
(* The set of present indices, by a scan, and the same as a sequence. *)
Present == {i \in Index : slots[i] # Absent}
IterPresent == [k \in 1 .. Cardinality(Present) |-> Select(Present, k - 1)]

Replace(i, v) ==
  /\ mode = "held"
  /\ slots' = [slots EXCEPT ![i] = v]
  /\ outside' = (outside \ {v}) \cup Owned({slots[i]})
  /\ UNCHANGED <<mode, elems, built, range>>

Insert(i, e) == e \in outside /\ Replace(i, e)

Take(i) == Replace(i, Absent)

(* Two steps of the iterator decide whether the first child is alone. *)
TakeOnlyChild ==
  /\ Len(IterPresent) >= 1
  /\ Len(IterPresent) < 2
  /\ Take(IterPresent[1])

-----------------------------------------------------------------------------
(* The element iterator; drawing from the wrong end. *)
ElemAt_Forward(e) == elems.from

ElemAt(e) == IF e = "front" THEN elems.from ELSE elems.to - 1

DrawElem(e) ==
  /\ elems.from < elems.to
  /\ elems' = IF e = "front" THEN [elems EXCEPT !.from = @ + 1]
                             ELSE [elems EXCEPT !.to = @ - 1]

(* into_iter, into_edges *)
IntoIter ==
  /\ mode = "held"
  /\ mode' = "drain"
  /\ UNCHANGED <<slots, outside, elems, built, range>>

(* A zip: the index comes from the range, what it holds from the elements. *)
DrainNext(e) ==
  /\ mode = "drain"
  /\ ClosedStep(e)
  /\ DrawElem(e)
  /\ outside' = outside \cup Owned({slots[ElemAt(e)]})
  /\ UNCHANGED <<slots, mode, built>>

(* The iterator is dropped, spent or not: what it has not yielded goes.    *)
DrainDrop ==
  /\ mode = "drain"
  /\ outside' = outside \cup Owned({slots[k] : k \in elems.from .. elems.to - 1})
  /\ New

StartMap ==
  /\ mode = "held"
  /\ mode' = "map"
  /\ UNCHANGED <<slots, outside, elems, built, range>>

(* `map` passes on the next element with the next index: the closure keeps *)
(* it or drops it.                                                         *)
MapNext(keeps) ==
  /\ mode = "map"
  /\ ClosedStep("front")
  /\ DrawElem("front")
  /\ LET v == slots[ElemAt("front")]
     IN  IF keeps THEN built' = [built EXCEPT ![elems.from] = v] /\ UNCHANGED outside
                  ELSE outside' = outside \cup Owned({v}) /\ UNCHANGED built
  /\ UNCHANGED <<slots, mode>>

MapDone ==
  /\ mode = "map"
  /\ elems.from = elems.to
  /\ slots' = built /\ built' = AllAbsent
  /\ mode' = "held" /\ elems' = [from |-> 0, to |-> N]
  /\ lo' = 0 /\ hi' = N - 1 /\ done' = FALSE
  /\ UNCHANGED outside

(* The closure panics: both halves are dropped. *)
MapPanics ==
  /\ mode = "map"
  /\ elems.from < elems.to
  /\ outside' = Elem
  /\ New

Next ==
  \/ \E i \in Index, e \in Elem : Insert(i, e)
  \/ \E i \in Index : Take(i)
  \/ TakeOnlyChild
  \/ IntoIter
  \/ \E e \in EndsOf : DrainNext(e)
  \/ DrainDrop
  \/ StartMap
  \/ \E keeps \in BOOLEAN : MapNext(keeps)
  \/ MapDone
  \/ MapPanics

Spec == Init /\ [][Next]_vars

-----------------------------------------------------------------------------
(* What a caller has been told: while an iterator runs, an index is still  *)
(* to come as long as the range has it.                                    *)
Ahead(i) == mode = "held" \/ (~done /\ i \in lo .. hi)

Map == INSTANCE SparseMap WITH
         map <- [i \in Index |-> IF Ahead(i) THEN slots[i] ELSE built[i]]

(* The array is a map from indices to owned elements through every         *)
(* operation, those that consume it included: with draws from both ends,   *)
(* an abandoned iterator or a panicking closure, the caller gets each      *)
(* element with the index it was stored under, once.                       *)
RefinesMap == Map!Spec

=============================================================================
