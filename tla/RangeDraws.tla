------------------------------ MODULE RangeDraws ------------------------------
(***************************************************************************)
(* A range of either form between any two indices, drawn from both ends in *)
(* any order, each cursor turned into the index it yields.                 *)
(***************************************************************************)
EXTENDS NicheRanges

VARIABLES
  form,            \* "closed" (NicheRangeInclusive) or "open" (NicheRange)
  start, end,      \* the bounds it was made from
  fronts, backs    \* what it yielded at either end

given == <<form, start, end>>
vars  == <<given, range, fronts, backs>>

Init ==
  /\ form \in {"closed", "open"}
  /\ start \in Index /\ end \in Index
  /\ IF form = "closed" THEN ClosedNew(start, end) ELSE OpenNew(start, end)
  /\ fronts = <<>> /\ backs = <<>>

(* next and next_back give out the index a cursor names. *)
Yield(e, cursor) ==
  IF e = "front" THEN fronts' = Append(fronts, TryFromUsize(cursor)) /\ UNCHANGED backs
                 ELSE backs' = Append(backs, TryFromUsize(cursor)) /\ UNCHANGED fronts

DrawClosed(e) == form = "closed" /\ ClosedStep(e) /\ Yield(e, ClosedAt(e))

DrawOpen(e) == form = "open" /\ OpenStep(e) /\ Yield(e, OpenAt(e))

Next == \E e \in EndsOf : (DrawClosed(e) \/ DrawOpen(e)) /\ UNCHANGED given

Spec == Init /\ [][Next]_vars

-----------------------------------------------------------------------------
Beyond == IF form = "closed" THEN end + 1 ELSE end
Span   == [k \in 1 .. (IF Beyond < start THEN 0 ELSE Beyond - start) |-> start + k - 1]
Remaining == IF form = "closed" THEN ClosedLen ELSE OpenLen

(* However the draws at the two ends interleave, a range yields the        *)
(* indices between its bounds, ascending from the front and descending     *)
(* from the back, each once: no cursor that is read passes COUNT, the ends *)
(* never cross (the whole domain included, where there is no index past    *)
(* the last one), `len` counts exactly what is left, and an inverted range *)
(* is empty.                                                               *)
RangeExact ==
  /\ IsPrefix(fronts, Span)
  /\ IsPrefix(backs, Reverse(Span))
  /\ Len(fronts) + Len(backs) + Remaining = Len(Span)

=============================================================================
