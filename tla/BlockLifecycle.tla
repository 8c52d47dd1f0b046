---------------------------- MODULE BlockLifecycle ----------------------------
(***************************************************************************)
(* Who drops the elements and who frees the block of a PackedArray or a    *)
(* GappedArray when element destructors and `T::clone` may panic           *)
(* (crates/arity-arrays/src/{packed,gapped}.rs).                           *)
(*                                                                         *)
(* `drop`, `clear` and the consuming iterator's `drop` walk the live slots *)
(* with drop_live_elems (gapped) or with the drop glue of a slice          *)
(* (packed).  Both protect the slots not yet visited: a panicking          *)
(* destructor unwinds its frame, whose guard drops the rest in a frame of  *)
(* its own.  Code run by a guard or by a `drop` during unwinding is        *)
(* cleanup; a panic that leaves cleanup aborts the process.  An            *)
(* element is named by the slot it is in, its clone by the same slot of    *)
(* the new block.                                                          *)
(***************************************************************************)
EXTENDS Bitmaps, Sequences

CONSTANTS
  Cap       \* slots of the block

ASSUME CapAssumption == Cap \in Nat \ {0}

Slots == 0 .. Cap - 1

VARIABLES
  dense,      \* a PackedArray, whose live slots are a prefix; else gapped
  owner,      \* "array", "iter" or "gone": what owns the block
  header,     \* the live slots the array's header names
  bits,       \* IntoIter: live slots its cursor has not reached
  remaining,  \* IntoIter, gapped: `remaining_live`
  front, back, \* IntoIter, packed: the ranks not yet taken are front .. back-1
  call,       \* the running call
  stack,      \* its walks over live slots, innermost last
  mem,        \* slots that hold an initialised element
  freed,      \* the block was deallocated
  drops,      \* how often each element's destructor ran
  taken,      \* elements moved out to the caller
  guard,      \* clone: `initialized` of the fill guard
  cmem,       \* clone: initialised slots of the new block
  clone,      \* what became of the clone
  aborted     \* the process is gone

source == <<dense, owner, header, bits, remaining, front, back, mem, freed, drops, taken>>
copy   == <<guard, cmem, clone>>
vars   == <<source, call, stack, copy, aborted>>

Top == stack[Len(stack)]
Below == SubSeq(stack, 1, Len(stack) - 1)
Frame(rest, cleanup) == [rest |-> rest, cleanup |-> cleanup, panicking |-> FALSE]

(* What the iterator's `drop` will drop. *)
Untaken == IF dense THEN front .. back - 1 ELSE remaining

-----------------------------------------------------------------------------
Init ==
  /\ dense \in BOOLEAN
  /\ owner = "array"
  /\ header \in IF dense THEN {0 .. n - 1 : n \in 1 .. Cap} ELSE SUBSET Slots
  /\ bits = {} /\ remaining = {} /\ front = 0 /\ back = 0
  /\ call = "none" /\ stack = <<>>
  /\ mem = header /\ freed = FALSE
  /\ drops = [p \in Slots |-> 0] /\ taken = {}
  /\ guard = {} /\ cmem = {} /\ clone = "none"
  /\ aborted = FALSE

Idle == call = "none" /\ ~aborted

(* Drop for the array, on its own or while something else unwinds. *)
DropArray(cleanup) ==
  /\ Idle /\ owner = "array"
  /\ call' = "drop"
  /\ stack' = <<Frame(header, cleanup)>>
  /\ UNCHANGED <<source, copy, aborted>>

(* clear (gapped only): the header is reset first. *)
Clear ==
  /\ Idle /\ owner = "array" /\ ~dense
  /\ header' = {}
  /\ call' = "clear"
  /\ stack' = <<Frame(header, FALSE)>>
  /\ UNCHANGED <<dense, owner, bits, remaining, front, back, mem, freed, drops, taken,
                 copy, aborted>>

(* into_iter: ManuallyDrop keeps the array's own drop from running. *)
IntoIter ==
  /\ Idle /\ owner = "array"
  /\ owner' = "iter"
  /\ bits' = header
  /\ remaining' = IF dense THEN {} ELSE header
  /\ front' = 0
  /\ back' = IF dense THEN Cardinality(header) ELSE 0
  /\ UNCHANGED <<dense, header, mem, freed, drops, taken, call, stack, copy, aborted>>

(* Slot p is moved out to the caller. *)
Take(p) ==
  /\ bits' = bits \ {p}
  /\ remaining' = remaining \ {p}
  /\ mem' = mem \ {p}
  /\ taken' = taken \cup {p}
  /\ UNCHANGED <<dense, owner, header, freed, drops, call, stack, copy, aborted>>

(* next: the lowest live slot; packed reads the rank `front` instead. *)
TakeFront ==
  /\ Idle /\ owner = "iter" /\ bits # {}
  /\ IF dense
     THEN /\ bits' = bits \ {Lowest(bits)}
          /\ front' = front + 1
          /\ mem' = mem \ {front}
          /\ taken' = taken \cup {front}
          /\ UNCHANGED <<dense, owner, header, remaining, back, freed, drops,
                         call, stack, copy, aborted>>
     ELSE /\ Take(Lowest(bits))
          /\ UNCHANGED <<front, back>>

(* Mutant of TakeBack: a packed `back` stays where it was. *)
TakeBack_KeepsBack ==
  /\ Idle /\ owner = "iter" /\ bits # {}
  /\ bits' = bits \ {Highest(bits)}
  /\ mem' = mem \ {back - 1}
  /\ taken' = taken \cup {back - 1}
  /\ UNCHANGED <<dense, owner, header, remaining, front, back, freed, drops,
                 call, stack, copy, aborted>>

(* next_back: the highest live slot; packed reads the rank below `back`. *)
TakeBack ==
  /\ Idle /\ owner = "iter" /\ bits # {}
  /\ IF dense
     THEN /\ bits' = bits \ {Highest(bits)}
          /\ back' = back - 1
          /\ mem' = mem \ {back - 1}
          /\ taken' = taken \cup {back - 1}
          /\ UNCHANGED <<dense, owner, header, remaining, front, freed, drops,
                         call, stack, copy, aborted>>
     ELSE /\ Take(Highest(bits))
          /\ UNCHANGED <<front, back>>

(* Drop for the iterator: whatever was not taken, then the block. *)
DropIter(cleanup) ==
  /\ Idle /\ owner = "iter"
  /\ call' = "drop"
  /\ stack' = <<Frame(Untaken, cleanup)>>
  /\ UNCHANGED <<source, copy, aborted>>

-----------------------------------------------------------------------------
(* The walk over live slots, one destructor at a time.                     *)

(* The lowest remaining slot leaves `remaining`, then its destructor runs. *)
Destroy(p) ==
  /\ mem' = mem \ {p}
  /\ drops' = [drops EXCEPT ![p] = @ + 1]
  /\ UNCHANGED <<dense, owner, header, bits, remaining, front, back, freed, taken,
                 call, copy, aborted>>

Walking == stack # <<>> /\ ~Top.panicking /\ ~aborted

DestructorReturns ==
  /\ Walking /\ Top.rest # {}
  /\ Destroy(Lowest(Top.rest))
  /\ stack' = Append(Below, [Top EXCEPT !.rest = @ \ {Lowest(Top.rest)}])

(* Mutant of DestructorPanics: no guard over the rest. *)
DestructorPanics_Unguarded ==
  /\ Walking /\ Top.rest # {}
  /\ Destroy(Lowest(Top.rest))
  /\ stack' = Append(Below, [rest |-> {}, cleanup |-> Top.cleanup, panicking |-> TRUE])

(* The frame unwinds: its guard drops the rest in a cleanup frame. *)
DestructorPanics ==
  LET rest == Top.rest \ {Lowest(Top.rest)}
  IN  /\ Walking /\ Top.rest # {}
      /\ Destroy(Lowest(Top.rest))
      /\ stack' = Below \o <<[rest |-> {}, cleanup |-> Top.cleanup, panicking |-> TRUE],
                             Frame(rest, TRUE)>>

WalkReturns ==
  /\ Walking /\ Top.rest = {}
  /\ stack' = Below
  /\ UNCHANGED <<source, copy, call, aborted>>

(* The guard is done; the panic goes on, and out of cleanup it aborts. *)
WalkUnwinds ==
  /\ stack # <<>> /\ Top.panicking /\ ~aborted
  /\ IF Top.cleanup
     THEN aborted' = TRUE /\ UNCHANGED <<call, stack>>
     ELSE /\ stack' = Below
          /\ call' = IF call = "drop" THEN "drop_panicked" ELSE "clear_panicked"
          /\ UNCHANGED aborted
  /\ UNCHANGED <<source, copy>>

(* Mutant of EndDrop: a plain dealloc after the walk, which unwinding      *)
(* skips.                                                                  *)
EndDrop_BareDealloc ==
  /\ stack = <<>> /\ call \in {"drop", "drop_panicked"} /\ ~aborted
  /\ freed' = (freed \/ call = "drop")
  /\ owner' = "gone"
  /\ call' = "none"
  /\ UNCHANGED <<dense, header, bits, remaining, front, back, mem, drops, taken,
                 stack, copy, aborted>>

(* FreeOnDrop frees the block, however the walk ended. *)
EndDrop ==
  /\ stack = <<>> /\ call \in {"drop", "drop_panicked"} /\ ~aborted
  /\ freed' = TRUE
  /\ owner' = "gone"
  /\ call' = "none"
  /\ UNCHANGED <<dense, header, bits, remaining, front, back, mem, drops, taken,
                 stack, copy, aborted>>

(* clear leaves the array to its owner, who may catch a panic and use it,  *)
(* or drop it.                                                             *)
EndClear ==
  /\ stack = <<>> /\ call \in {"clear", "clear_panicked"} /\ ~aborted
  /\ call' = "none"
  /\ UNCHANGED <<source, stack, copy, aborted>>

-----------------------------------------------------------------------------
(* clone and From<&FixedArray>: a new block filled with clones under a     *)
(* guard that knows what it has to undo.                                   *)

StartClone ==
  /\ Idle /\ owner = "array" /\ clone = "none"
  /\ call' = "clone"
  /\ clone' = "filling"
  /\ UNCHANGED <<source, stack, guard, cmem, aborted>>

(* T::clone returns and the guard takes note, or panics.  A packed guard   *)
(* counts, which for a dense block names the same slots.                   *)
FillNext ==
  /\ call = "clone" /\ clone = "filling" /\ header \ cmem # {}
  /\ LET p == Lowest(header \ cmem)
     IN  \/ /\ cmem' = cmem \cup {p}
            /\ guard' = guard \cup {p}
            /\ UNCHANGED clone
         \/ /\ clone' = "unwinding"
            /\ UNCHANGED <<guard, cmem>>
  /\ UNCHANGED <<source, call, stack, aborted>>

(* mem::forget(guard): the clone is an array of its own. *)
FillDone ==
  /\ call = "clone" /\ clone = "filling" /\ header \subseteq cmem
  /\ clone' = "array"
  /\ call' = "none"
  /\ UNCHANGED <<source, stack, guard, cmem, aborted>>

(* The guard drops what it knows of, then frees; it runs as cleanup. *)
GuardDrops ==
  /\ call = "clone" /\ clone = "unwinding" /\ ~aborted
  /\ \/ /\ guard # {}
        /\ guard' = guard \ {Lowest(guard)}
        /\ cmem' = cmem \ {Lowest(guard)}
        /\ aborted' \in BOOLEAN
        /\ UNCHANGED <<call, clone>>
     \/ /\ guard = {}
        /\ clone' = "freed"
        /\ call' = "none"
        /\ UNCHANGED <<guard, cmem, aborted>>
  /\ UNCHANGED <<source, stack>>

Run ==
  \/ DestructorReturns \/ DestructorPanics \/ WalkReturns \/ WalkUnwinds
  \/ EndDrop \/ EndClear \/ FillNext \/ FillDone \/ GuardDrops

Next ==
  \/ \E cleanup \in BOOLEAN : DropArray(cleanup)
  \/ \E cleanup \in BOOLEAN : DropIter(cleanup)
  \/ Clear
  \/ IntoIter
  \/ TakeFront
  \/ TakeBack
  \/ StartClone
  \/ Run

(* Destructors and clones return or panic, so a started call goes on. *)
Spec == Init /\ [][Next]_vars /\ WF_vars(Run)

-----------------------------------------------------------------------------
(* Properties.                                                             *)

(* The slots the owner of the block, or the frames of the running call,    *)
(* still answer for.                                                       *)
Guarded(k) == stack[k].rest
AllGuarded == UNION {Guarded(k) : k \in 1 .. Len(stack)}
Answered ==
  IF call \in {"drop", "drop_panicked"} \/ owner = "gone" THEN AllGuarded
  ELSE AllGuarded \cup (IF owner = "array" THEN header ELSE Untaken)

(* At every step, panics included, each initialised slot is answered for   *)
(* exactly once: by the header or the iterator, or by one frame's guard,   *)
(* so no slot is dropped twice or left behind ("the not-yet-dropped        *)
(* elements are still dropped"), none that is uninitialised is touched,    *)
(* and an owner that is gone leaves nothing.  The same for a clone and its *)
(* fill guard.                                                             *)
EverySlotAnswered ==
  ~aborted =>
    /\ mem = Answered
    /\ \A j, k \in 1 .. Len(stack) : j # k => Guarded(j) \cap Guarded(k) = {}
    /\ call \in {"clear", "clear_panicked"} => header \cap AllGuarded = {}
    /\ clone \in {"filling", "unwinding", "freed"} => guard = cmem

(* Every element's destructor runs at most once, and never for an element  *)
(* that was moved out, even across caught panics and aborts.               *)
DroppedOnce == \A p \in Slots : drops[p] + (IF p \in taken THEN 1 ELSE 0) <= 1

(* Dropping an array or an iterator frees its block, whether or not a      *)
(* destructor panics, unless the process aborts.                           *)
DropFreesBlock == call = "drop" ~> (freed \/ aborted)

=============================================================================
