----------------------------- MODULE ChainStack -----------------------------
(***************************************************************************)
(* The chain of read handles behind lookup, iteration and validation       *)
(* (arity-tries/src/chain.rs).  Each handle borrows the node its           *)
(* predecessor dereferences to, so they must go in reverse order; a        *)
(* handle's destructor (an `Arc` of a persistent store, say) is user code  *)
(* and may panic.                                                          *)
(***************************************************************************)
EXTENDS Integers, Sequences, SequencesExt

VARIABLES
  handles,   \* the slots of the nodes that live handles dereference to
  release    \* how far the chain's destructor is

chain == <<handles, release>>

(* The chain is in use; its drop loops over pop; the guard of a drop that  *)
(* panicked finishes; the buffer is freed; the process is gone.  A drop    *)
(* that itself runs as cleanup of an unwinding must not panic out.         *)
InUse   == [stage |-> "in use", cleanup |-> FALSE]
Freed   == [stage |-> "freed", cleanup |-> FALSE]
Aborted == [stage |-> "aborted", cleanup |-> FALSE]
Releasing == release.stage \in {"loop", "guard"}

ChainInit == handles = << >> /\ release = InUse

(* `push` of a handle read from an edge of the node the last one holds.    *)
Push(s) == handles' = Append(handles, s) /\ UNCHANGED release

(* `pop`: false on an empty chain.  Vec::pop shortens the vector before    *)
(* the handle's destructor runs, so a panic finds the handle gone.         *)
Popped == IF handles = << >> THEN << >> ELSE Front(handles)

DropChain(cleanup) == release' = [stage |-> "loop", cleanup |-> cleanup]

-----------------------------------------------------------------------------
(* `Drop for ChainStack` without the guard: a panic leaves the handles to  *)
(* the drop glue of the vector, front to back.                             *)
ReleaseLast_NoGuard ==
  \/ release.stage = "loop" /\ handles # << >> /\ handles' = Popped
       /\ release' \in {release, [release EXCEPT !.stage = "guard"]}
  \/ release.stage = "guard" /\ handles # << >> /\ handles' = Tail(handles)
       /\ release' \in {release, Aborted}

(* The loop's pop returns, or its destructor panics and the guard takes    *)
(* over; a second panic, out of the guard, aborts.                         *)
ReleaseLast ==
  /\ Releasing
  /\ handles # << >>
  /\ handles' = Popped
  /\ \/ UNCHANGED release
     \/ release.stage = "loop" /\ release' = [release EXCEPT !.stage = "guard"]
     \/ release.stage = "guard" /\ release' = Aborted

(* A guard that frees the buffer without emptying it first. *)
FreeBuffer_TooEarly ==
  /\ \/ release.stage = "guard"
     \/ release.stage = "loop" /\ handles = << >>
  /\ release' = IF release.stage = "guard" /\ release.cleanup THEN Aborted ELSE Freed
  /\ UNCHANGED handles

(* The chain is empty: the guard, reached normally or by unwinding, frees  *)
(* the buffer.  The panic it finished for goes on, and aborts if the drop  *)
(* was cleanup already.                                                    *)
FreeBuffer ==
  /\ Releasing
  /\ handles = << >>
  /\ release' = IF release.stage = "guard" /\ release.cleanup THEN Aborted ELSE Freed
  /\ UNCHANGED handles

DropStep == ReleaseLast \/ FreeBuffer

=============================================================================
