----------------------------- MODULE PackedArray -----------------------------
(***************************************************************************)
(* `PackedArray<T, A>` (crates/arity-arrays/src/packed.rs): `None` when    *)
(* empty, otherwise one heap block of exactly as many elements as its      *)
(* bitmap has bits, in rank order.  Every membership change moves the      *)
(* elements bitwise into a block of the new size, so for a moment two      *)
(* blocks hold the same bits; an allocation that fails unwinds the call    *)
(* (the crate is `no_std`, where `handle_alloc_error` panics; a layout     *)
(* that overflows always does) and drops whatever the call holds.          *)
(*                                                                         *)
(* Elements are linear.  `outside` holds those with the caller; what an    *)
(* operation drops goes back there, as a value the caller may make again.  *)
(***************************************************************************)
EXTENDS Bitmaps

CONSTANTS
  N,        \* A::LEN
  Elem,     \* the element values, each with its identity
  Uninit    \* the content of an uninitialised slot

Index == 0 .. N - 1

ASSUME ArityAssumption == N \in Nat \ {0}
ASSUME UninitAssumption == Uninit \notin Elem

VARIABLES
  self,     \* the block `self.0` points to, or NoBlock
  fresh,    \* the block the running call has allocated, or NoBlock
  staged,   \* the FixedArray<Option<T>, A> a conversion goes through
  pc,       \* where the running call is; "idle" between calls
  at,       \* its index argument
  held,     \* elements in its hands: the value to insert, the one removed
  outside   \* elements the caller owns

vars == <<self, fresh, staged, pc, at, held, outside>>

Vacant  == [r \in Index |-> Uninit]
NoBlock == [size |-> 0, bits |-> {}, data |-> Vacant]

(* alloc_block: the header is written, the element slots are not. *)
AllocBlock(bits, count) == [size |-> count, bits |-> bits, data |-> Vacant]

Contents(f) == {f[i] : i \in Index} \ {Uninit}
Count == Cardinality(self.bits)

(* What get(i) reads; outside the block there is nothing initialised. *)
Get(i) ==
  IF i \in self.bits /\ Rank(self.bits, i) < self.size
  THEN self.data[Rank(self.bits, i)] ELSE Uninit

-----------------------------------------------------------------------------
Init ==
  /\ self = NoBlock /\ fresh = NoBlock
  /\ staged = Vacant
  /\ pc = "idle" /\ at = 0
  /\ held = {} /\ outside = Elem

(* insert at a present index: mem::replace in place. *)
Overwrite(i, e) ==
  /\ pc = "idle" /\ i \in self.bits /\ e \in outside
  /\ self' = [self EXCEPT !.data[Rank(self.bits, i)] = e]
  /\ outside' = (outside \ {e}) \cup {Get(i)}
  /\ UNCHANGED <<fresh, staged, pc, at, held>>

(* insert at an absent index takes the value and asks for one slot more. *)
StartInsert(i, e) ==
  /\ pc = "idle" /\ i \notin self.bits /\ e \in outside
  /\ pc' = "insert" /\ at' = i
  /\ held' = {e}
  /\ outside' = outside \ {e}
  /\ UNCHANGED <<self, fresh, staged>>

(* Mutant of StartRemove: the element is read out before the allocation. *)
StartRemove_ReadsFirst(i) ==
  /\ pc = "idle" /\ i \in self.bits /\ Count > 1
  /\ pc' = "remove" /\ at' = i
  /\ held' = {Get(i)}
  /\ UNCHANGED <<self, fresh, staged, outside>>

(* remove at a present index, with other elements left. *)
StartRemove(i) ==
  /\ pc = "idle" /\ i \in self.bits /\ Count > 1
  /\ pc' = "remove" /\ at' = i
  /\ UNCHANGED <<self, fresh, staged, held, outside>>

Allocate ==
  /\ \/ /\ pc = "insert" /\ pc' = "fill"
        /\ fresh' = AllocBlock(self.bits \cup {at}, Count + 1)
     \/ /\ pc = "remove" /\ pc' = "take"
        /\ fresh' = AllocBlock(self.bits \ {at}, Count - 1)
  /\ UNCHANGED <<self, staged, at, held, outside>>

(* The allocation fails: the call unwinds, dropping what it holds. *)
AllocationFails ==
  /\ pc \in {"insert", "remove"}
  /\ pc' = "idle"
  /\ held' = {}
  /\ outside' = outside \cup held
  /\ UNCHANGED <<self, fresh, staged, at>>

(* Mutant of Fill: the value goes to the end instead of its rank. *)
Fill_Appends ==
  /\ pc = "fill" /\ pc' = "publish"
  /\ \E e \in held :
       fresh' = [fresh EXCEPT !.data =
         [r \in Index |-> IF r < Count THEN self.data[r]
                          ELSE IF r = Count THEN e ELSE Uninit]]
  /\ UNCHANGED <<self, staged, at, held, outside>>

(* Copy [0, rank), write the value at rank, copy the old [rank, count). *)
Fill ==
  LET rank == Rank(self.bits, at)
  IN  /\ pc = "fill" /\ pc' = "publish"
      /\ \E e \in held :
           fresh' = [fresh EXCEPT !.data =
             [r \in Index |-> IF r < rank THEN self.data[r]
                              ELSE IF r = rank THEN e
                              ELSE IF r < fresh.size THEN self.data[r - 1]
                              ELSE Uninit]]
      /\ UNCHANGED <<self, staged, at, held, outside>>

(* Read the element out and copy the survivors around its rank. *)
Take ==
  LET rank == Rank(self.bits, at)
  IN  /\ pc = "take" /\ pc' = "publish"
      /\ held' = {self.data[rank]}
      /\ fresh' = [fresh EXCEPT !.data =
           [r \in Index |-> IF r < rank THEN self.data[r]
                            ELSE IF r < fresh.size THEN self.data[r + 1]
                            ELSE Uninit]]
      /\ UNCHANGED <<self, staged, at, outside>>

(* Free the old block without dropping, point at the new one, return the   *)
(* removed element (an inserted one is now in the block).                  *)
Publish ==
  /\ pc = "publish" /\ pc' = "idle"
  /\ self' = fresh /\ fresh' = NoBlock
  /\ held' = {}
  /\ outside' = outside \cup (held \ Contents(fresh.data))
  /\ UNCHANGED <<staged, at>>

(* Mutant of RemoveLast: the block stays, empty. *)
RemoveLast_KeepsBlock(i) ==
  /\ pc = "idle" /\ i \in self.bits /\ Count = 1
  /\ self' = [self EXCEPT !.bits = {}, !.data = Vacant]
  /\ outside' = outside \cup {Get(i)}
  /\ UNCHANGED <<fresh, staged, pc, at, held>>

(* Removing the last element frees the block. *)
RemoveLast(i) ==
  /\ pc = "idle" /\ i \in self.bits /\ Count = 1
  /\ self' = NoBlock
  /\ outside' = outside \cup {Get(i)}
  /\ UNCHANGED <<fresh, staged, pc, at, held>>

TakeOnlyChild == Count = 1 /\ RemoveLast(Lowest(self.bits))

-----------------------------------------------------------------------------
(* Conversions and from_iter: everything goes through a FixedArray of      *)
(* options.                                                                *)

(* From<PackedArray> for FixedArray: rank r goes to the r-th set bit. *)
Unpack ==
  /\ pc = "idle" /\ pc' = "staged"
  /\ staged' = [i \in Index |-> Get(i)]
  /\ self' = NoBlock
  /\ UNCHANGED <<fresh, at, held, outside>>

(* `staged[index] = Some(value)`: a repeated index drops the earlier one. *)
Stage(i, e) ==
  /\ pc = "staged" /\ e \in outside
  /\ staged' = [staged EXCEPT ![i] = e]
  /\ outside' = (outside \ {e}) \cup ({staged[i]} \ {Uninit})
  /\ UNCHANGED <<self, fresh, pc, at, held>>

(* From<FixedArray> for PackedArray: a bitmap pass, then the i-th Some in  *)
(* the next dense slot.                                                    *)
Pack ==
  LET bits == {i \in Index : staged[i] # Uninit}
      n    == Cardinality(bits)
  IN  /\ pc = "staged" /\ pc' = "idle"
      /\ self' = IF n = 0 THEN NoBlock
                 ELSE [AllocBlock(bits, n) EXCEPT !.data =
                         [r \in Index |-> IF r < n THEN staged[Select(bits, r)]
                                                   ELSE Uninit]]
      /\ staged' = Vacant
      /\ UNCHANGED <<fresh, at, held, outside>>

(* Its allocation fails: the staged array, owned by the call, is dropped. *)
PackFails ==
  /\ pc = "staged" /\ Contents(staged) # {} /\ pc' = "idle"
  /\ outside' = outside \cup Contents(staged)
  /\ staged' = Vacant
  /\ UNCHANGED <<self, fresh, at, held>>

Next ==
  \/ \E i \in Index, e \in Elem : Overwrite(i, e)
  \/ \E i \in Index, e \in Elem : StartInsert(i, e)
  \/ \E i \in Index : StartRemove(i)
  \/ Allocate
  \/ AllocationFails
  \/ Fill
  \/ Take
  \/ Publish
  \/ \E i \in Index : RemoveLast(i)
  \/ TakeOnlyChild
  \/ Unpack
  \/ \E i \in Index, e \in Elem : Stage(i, e)
  \/ Pack
  \/ PackFails

Spec == Init /\ [][Next]_vars

-----------------------------------------------------------------------------
(* Properties.                                                             *)

Steps == {"idle", "insert", "remove", "fill", "take", "publish", "staged"}
Blocks == [size : 0 .. N, bits : SUBSET Index, data : [Index -> Elem \cup {Uninit}]]

(* Blocks, the staged array and the call's locals have their types. *)
TypeOK ==
  /\ self \in Blocks /\ fresh \in Blocks
  /\ staged \in [Index -> Elem \cup {Uninit}]
  /\ pc \in Steps /\ at \in Index
  /\ held \subseteq Elem /\ outside \subseteq Elem

(* The steps at which the array can be seen or dropped: between calls, and *)
(* while an allocation may unwind.                                         *)
Droppable == pc \in {"idle", "insert", "remove", "staged"}

(* Whenever the array can be seen or dropped, its block has exactly one    *)
(* initialised slot per bit, dense from 0, and none when it is `None`:     *)
(* what the `unsafe` reads and `drop` rely on.                             *)
DenseBlock ==
  /\ TypeOK
  /\ Droppable =>
       /\ self.size = Count
       /\ \A r \in Index : self.data[r] # Uninit <=> r < self.size

(* Whenever an unwind may begin, every element has exactly one owner (the  *)
(* block, the running call, the staged array or the caller), so dropping   *)
(* each owner drops each element once.                                     *)
OneOwner ==
  Droppable =>
    /\ \A r, s \in Index : self.data[r] = self.data[s] /\ self.data[r] # Uninit => r = s
    /\ \A i, j \in Index : staged[i] = staged[j] /\ staged[i] # Uninit => i = j
    /\ Contents(self.data) \cap (held \cup outside \cup Contents(staged)) = {}
    /\ Contents(staged) \cap (held \cup outside) = {}
    /\ held \cap outside = {}
    /\ Contents(self.data) \cup held \cup outside \cup Contents(staged) = Elem

(* The array implements an owned sparse map, a failed call included: it    *)
(* either takes effect when the new block is published or not at all, and  *)
(* no element is lost or duplicated on the way.                            *)
Map == INSTANCE SparseMap WITH
         Absent <- Uninit,
         map <- [i \in Index |-> IF pc = "staged" THEN staged[i] ELSE Get(i)],
         outside <- outside \cup (held \ Contents(self.data))

RefinesMap == Map!Spec

=============================================================================
