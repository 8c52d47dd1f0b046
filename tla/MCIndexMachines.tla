--------------------------- MODULE MCIndexMachines ---------------------------
(***************************************************************************)
(* The machines share no state, so a behaviour runs one of them and leaves *)
(* the others at rest.                                                     *)
(***************************************************************************)
EXTENDS IndexMachines

VARIABLE machine   \* the one that runs

rangeVars    == <<form, start, end, left, right, over, fronts, backs>>
iteratorVars == <<kind, occ, live, marks, liveBits, frontRank, backConsumed, slice,
                  low, high, spent, folding, heads, tails>>
fixedVars    == <<slots, outside, mode, elems, built, lo, hi, done>>
wireVars     == <<wireForm, wire, unread, out, last, verdict>>

Machines == {"ranges", "iterators", "fixed", "wire"}

(* At rest: the range is empty, so is the array that is borrowed, and the  *)
(* empty sequence of pairs was read.                                       *)
RangeAtRest ==
  /\ form = "open" /\ start = 0 /\ end = 0 /\ R!OpenNew(start, end)
  /\ fronts = <<>> /\ backs = <<>>

IteratorAtRest == kind = "packed_present" /\ occ = {} /\ A!Init

WireAtRest ==
  /\ wireForm = "logical" /\ wire = <<>> /\ unread = <<>>
  /\ out = W!Empty /\ last = NoIndex /\ verdict = "accepted"

MCInit ==
  /\ machine \in Machines
  /\ F!Init
  /\ IF machine = "ranges" THEN R!Init ELSE RangeAtRest
  /\ IF machine = "iterators" THEN A!Init ELSE IteratorAtRest
  /\ IF machine = "wire" THEN W!Init ELSE WireAtRest

MCNext ==
  /\ UNCHANGED machine
  /\ \/ machine = "ranges" /\ R!Next /\ UNCHANGED <<iteratorVars, fixedVars, wireVars>>
     \/ machine = "iterators" /\ A!Next /\ UNCHANGED <<rangeVars, fixedVars, wireVars>>
     \/ machine = "fixed" /\ F!Next /\ UNCHANGED <<rangeVars, iteratorVars, wireVars>>
     \/ machine = "wire" /\ W!Next /\ UNCHANGED <<rangeVars, iteratorVars, fixedVars>>

MCSpec == MCInit /\ [][MCNext]_<<machine, rangeVars, iteratorVars, fixedVars, wireVars>>

=============================================================================
