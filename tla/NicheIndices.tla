----------------------------- MODULE NicheIndices -----------------------------
(***************************************************************************)
(* The index types of the arities (arity-index/src/niche.rs): integers     *)
(* whose every value is below COUNT, made from a byte, a usize or a slice  *)
(* of bytes.  An index is its discriminant, so a slice of indices and the  *)
(* slice of their bytes are the same sequence.                             *)
(***************************************************************************)
EXTENDS Bitmaps, Sequences, SequencesExt

CONSTANTS
  N,          \* A::LEN, `Niche::COUNT`
  ByteCount   \* the values of a u8; N = ByteCount is the index `u8` itself

ASSUME ArityAssumption == N \in Nat \ {0} /\ ByteCount \in Nat /\ N <= ByteCount

Index == 0 .. N - 1

(* `None`, where the code returns an Option of an index, or of a slice. *)
NoIndex == NoBit
NoPath  == <<NoIndex>>

TryNew(v) == IF v < N THEN v ELSE NoIndex

TryFromUsize(i) == IF i < ByteCount THEN TryNew(i) ELSE NoIndex

BytesInRange(bytes) == \A k \in DOMAIN bytes : bytes[k] < N

TryFromSlice(bytes) == IF BytesInRange(bytes) THEN bytes ELSE NoPath

=============================================================================
