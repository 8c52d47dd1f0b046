----------------------------- MODULE NicheRanges -----------------------------
(***************************************************************************)
(* The two ranges over the indices of an arity (arity-index/src/range.rs), *)
(* drawn from both ends.  std's ranges cannot step a niche integer, so     *)
(* both keep integer cursors, and turn the one they yield into an index    *)
(* with `unwrap_unchecked`: a cursor that is read must be below COUNT.     *)
(***************************************************************************)
EXTENDS NicheIndices

EndsOf == {"front", "back"}

VARIABLES lo, hi, done

range == <<lo, hi, done>>

(* The whole domain, `Niche::all`. *)
Full == lo = 0 /\ hi = N - 1 /\ done = FALSE

-----------------------------------------------------------------------------
(* NicheRangeInclusive: the cursors never cross, `done` marks the end. *)
ClosedNew(start, end) == lo = start /\ hi = end /\ done = (start > end)

ClosedAt(e) == IF e = "front" THEN lo ELSE hi

(* A step that does not end the range at its last value. *)
ClosedStep_NoEnd(e) ==
  /\ ~done
  /\ LET last == lo = hi /\ lo = 0
     IN  \/ last /\ done' = TRUE /\ UNCHANGED <<lo, hi>>
         \/ ~last /\ e = "front" /\ lo' = lo + 1 /\ UNCHANGED <<hi, done>>
         \/ ~last /\ e # "front" /\ hi' = hi - 1 /\ UNCHANGED <<lo, done>>

ClosedStep(e) ==
  /\ ~done
  /\ \/ lo = hi /\ done' = TRUE /\ UNCHANGED <<lo, hi>>
     \/ lo # hi /\ e = "front" /\ lo' = lo + 1 /\ UNCHANGED <<hi, done>>
     \/ lo # hi /\ e # "front" /\ hi' = hi - 1 /\ UNCHANGED <<lo, done>>

ClosedLen == IF done THEN 0 ELSE hi - lo + 1

(* NicheRange: half-open; `done` plays no part. *)
OpenNew(start, end) == lo = start /\ hi = end /\ done = FALSE

(* A back step that reads its cursor before it moves it. *)
OpenAt_Undecremented(e) == IF e = "front" THEN lo ELSE hi

OpenAt(e) == IF e = "front" THEN lo ELSE hi - 1

OpenStep(e) ==
  /\ lo < hi
  /\ IF e = "front" THEN lo' = lo + 1 /\ UNCHANGED <<hi, done>>
                    ELSE hi' = hi - 1 /\ UNCHANGED <<lo, done>>

(* saturating_sub: an inverted range is empty. *)
OpenLen == IF hi < lo THEN 0 ELSE hi - lo

=============================================================================
