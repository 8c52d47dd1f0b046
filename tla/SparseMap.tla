------------------------------ MODULE SparseMap ------------------------------
(***************************************************************************)
(* What every array form of crates/arity-arrays promises its callers: a    *)
(* map from the indices of one arity to elements.  Elements are owned:     *)
(* each one is either in the map or with the caller, so an operation may   *)
(* neither lose, duplicate nor invent one.  Capacity, layout and           *)
(* allocation are invisible here.                                          *)
(***************************************************************************)
CONSTANTS
  Index,    \* logical indices, `A::Index`
  Elem,     \* the elements (values of `T`), each with its identity
  Absent    \* no element at an index

VARIABLES
  map,      \* Index -> element or Absent
  outside   \* the elements the caller owns

vars == <<map, outside>>

Present == {i \in Index : map[i] # Absent}

Init ==
  /\ map = [i \in Index |-> Absent]
  /\ outside = Elem

(* Give e to the map at i; what was there comes back. *)
Insert(i, e) ==
  /\ e \in outside
  /\ map' = [map EXCEPT ![i] = e]
  /\ outside' = (outside \ {e}) \cup ({map[i]} \ {Absent})

(* Take the element at i out. *)
Remove(i) ==
  /\ i \in Present
  /\ map' = [map EXCEPT ![i] = Absent]
  /\ outside' = outside \cup {map[i]}

(* Drop every element. *)
Clear ==
  /\ map' = [i \in Index |-> Absent]
  /\ outside' = outside \cup {map[i] : i \in Present}

Next ==
  \/ \E i \in Index, e \in Elem : Insert(i, e)
  \/ \E i \in Index : Remove(i)
  \/ Clear

Spec == Init /\ [][Next]_vars

=============================================================================
