------------------------------ MODULE WireForms ------------------------------
(***************************************************************************)
(* The two serialised forms of a dense array (crates/arity-arrays/src/     *)
(* macros.rs, compact.rs) and the decoders that read them back from input  *)
(* nobody vouches for: the logical form, a sequence of (index, value)      *)
(* pairs, is read pair by pair into a full-width array; the compact form   *)
(* is the bitmap's little-endian bytes with the values in index order.     *)
(* An array is a function from indices to values, Absent where it has      *)
(* none; serde itself is external.                                         *)
(***************************************************************************)
EXTENDS NicheIndices

CONSTANTS
  Value,      \* the values (`T`); several indices may hold the same
  Absent,     \* no value at an index
  ByteBits,   \* bits of a bitmap's byte; a bitmap is whole bytes
  MaxPairs    \* bounds the logical inputs

VARIABLES
  form,      \* "logical" or "compact"
  wire,      \* the input
  rest,      \* the pairs still to read (logical)
  out,       \* the full-width array under construction
  last,      \* the last index read
  verdict    \* "reading", "accepted" or "rejected"

given == <<form, wire>>
vars  == <<given, rest, out, last, verdict>>

Bytes  == N \div ByteBits
Arrays == [Index -> Value \cup {Absent}]
Empty  == [i \in Index |-> Absent]

BitmapOf(a) == {i \in Index : a[i] # Absent}

(* iter_present, as <<index, value>> pairs. *)
IterPresent(a) ==
  [k \in 1 .. Cardinality(BitmapOf(a)) |->
     LET i == Select(BitmapOf(a), k - 1) IN <<i, a[i]>>]

Values(a) == [k \in DOMAIN IterPresent(a) |-> IterPresent(a)[k][2]]

(* PartialEq and Hash of the dense arrays: layouts and spare slots play no *)
(* part in either.                                                         *)
Eq(a, b) == BitmapOf(a) = BitmapOf(b) /\ Values(a) = Values(b)
HashInput(a) == <<Cardinality(BitmapOf(a)), IterPresent(a)>>

-----------------------------------------------------------------------------
(* Little-endian: byte k has the bits from ByteBits * (k - 1) up. *)
ToBytes(B) ==
  [k \in 1 .. Bytes |->
     LET inByte == {i \in B : i \div ByteBits = k - 1}
     IN  MapThenSumSet(LAMBDA i : 2 ^ (i % ByteBits), inByte)]

(* try_from_bytes: `None` for any other number of bytes. *)
NoBitmap == {NoIndex}

TryFromBytes(bytes) ==
  IF Len(bytes) # Bytes THEN NoBitmap
  ELSE {i \in Index : (bytes[(i \div ByteBits) + 1] \div 2 ^ (i % ByteBits)) % 2 = 1}

Logical(a) == IterPresent(a)
Compact(a) == [bitmap |-> ToBytes(BitmapOf(a)), values |-> Values(a)]

(* Bytes of a bitmap, and integers where an index is expected. *)
WireByte  == 0 .. 2 ^ ByteBits - 1
WireIndex == 0 .. N

Init ==
  /\ \/ /\ form = "logical"
        /\ wire \in UNION {[1 .. n -> WireIndex \X Value] : n \in 0 .. MaxPairs}
        /\ rest = wire
     \/ /\ form = "compact"
        /\ wire \in [bitmap : UNION {[1 .. n -> WireByte] : n \in 0 .. Bytes + 1},
                     values : UNION {[1 .. n -> Value] : n \in 0 .. N}]
        /\ rest = <<>>
  /\ out = Empty
  /\ last = NoIndex
  /\ verdict = "reading"

Reject == verdict' = "rejected" /\ UNCHANGED <<rest, out, last>>

(* An order check that lets an index come twice. *)
OutOfOrder_AllowsEqual(i) == last # NoIndex /\ i < last

OutOfOrder(i) == last # NoIndex /\ i <= last

(* The index itself fails to deserialise, or is not above the last one. *)
BadPair ==
  /\ form = "logical" /\ rest # <<>>
  /\ LET i == TryNew(Head(rest)[1]) IN i = NoIndex \/ OutOfOrder(i)
  /\ Reject

ReadPair ==
  /\ form = "logical" /\ rest # <<>>
  /\ LET i == TryNew(Head(rest)[1])
     IN  /\ i # NoIndex /\ ~OutOfOrder(i)
         /\ last' = i
         /\ out' = [out EXCEPT ![i] = Head(rest)[2]]
  /\ rest' = Tail(rest)
  /\ UNCHANGED verdict

EndOfPairs ==
  /\ form = "logical" /\ rest = <<>>
  /\ verdict' = "accepted"
  /\ UNCHANGED <<rest, out, last>>

(* A bitmap of the right length, and as many values as it has bits. *)
BadBitmap ==
  /\ form = "compact"
  /\ LET B == TryFromBytes(wire.bitmap) IN B = NoBitmap \/ Cardinality(B) # Len(wire.values)
  /\ Reject

ReadCompact ==
  /\ form = "compact"
  /\ LET B == TryFromBytes(wire.bitmap)
     IN  /\ B # NoBitmap /\ Cardinality(B) = Len(wire.values)
         /\ out' = [i \in Index |-> IF i \in B THEN wire.values[Rank(B, i) + 1] ELSE Absent]
  /\ verdict' = "accepted"
  /\ UNCHANGED <<rest, last>>

Next ==
  /\ verdict = "reading"
  /\ BadPair \/ ReadPair \/ EndOfPairs \/ BadBitmap \/ ReadCompact
  /\ UNCHANGED given

Spec == Init /\ [][Next]_vars

-----------------------------------------------------------------------------
Encoded(a) == IF form = "logical" THEN Logical(a) ELSE Compact(a)

(* The wire forms are canonical: a decoder accepts an input only as the    *)
(* encoding of the array it returns, and rejects it only if no array       *)
(* encodes so: no pair is silently overwritten or reordered, no value      *)
(* dropped or left over, and every array survives the round trip.  The     *)
(* array it returns equals, and hashes like, no other.                     *)
WireIsCanonical ==
  /\ verdict = "accepted" =>
       /\ Encoded(out) = wire
       /\ \A a \in Arrays : (Eq(a, out) <=> a = out) /\ (HashInput(a) = HashInput(out) <=> a = out)
  /\ verdict = "rejected" => \A a \in Arrays : Encoded(a) # wire

=============================================================================
