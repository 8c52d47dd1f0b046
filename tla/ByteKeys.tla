------------------------------ MODULE ByteKeys ------------------------------
(***************************************************************************)
(* Byte keys as paths (arity-tries/src/key.rs, path.rs): one index per     *)
(* byte where every byte is in range, or two, the high half first, for the *)
(* arity whose indices are half a byte.  Two keys are built byte by byte,  *)
(* to relate what a trie does with the paths to what a caller expects of   *)
(* the keys.                                                               *)
(***************************************************************************)
EXTENDS NicheIndices, Bitwise

CONSTANT MaxLen   \* bytes in a key

VARIABLES key, other

(* For this arity: two indices make a byte. *)
Byte == 0 .. N * N - 1

NewMasked(v) == TryNew(v & (N - 1))

(* The low half first. *)
Nibbles_LowFirst(bytes) ==
  FlattenSeq([k \in DOMAIN bytes |-> <<NewMasked(bytes[k] & (N - 1)), NewMasked(bytes[k] \div N)>>])

Nibbles(bytes) ==
  FlattenSeq([k \in DOMAIN bytes |-> <<NewMasked(bytes[k] \div N), NewMasked(bytes[k] & (N - 1))>>])

Unnibble(path) ==
  IF Len(path) % 2 # 0 THEN NoPath
  ELSE [k \in 1 .. Len(path) \div 2 |-> N * path[2 * k - 1] + path[2 * k]]

(* Path's order: lexicographic, a prefix before what it is a prefix of. *)
Before(p, q) ==
  \/ IsStrictPrefix(p, q)
  \/ \E k \in DOMAIN p \cap DOMAIN q :
       p[k] < q[k] /\ SubSeq(p, 1, k - 1) = SubSeq(q, 1, k - 1)

Init == key = <<>> /\ other = <<>>

Next ==
  \/ Len(key) < MaxLen /\ \E b \in Byte : key' = Append(key, b) /\ UNCHANGED other
  \/ Len(other) < MaxLen /\ \E b \in Byte : other' = Append(other, b) /\ UNCHANGED key

Spec == Init /\ [][Next]_<<key, other>>

-----------------------------------------------------------------------------
(* Splitting into halves loses nothing (half a byte left over is refused), *)
(* and keeps what the trie builds on: the order of two keys, so a walk in  *)
(* path order meets the keys in byte order, and which is a prefix of       *)
(* which, so one is found below the other only if it extends it.  Read one *)
(* index per byte instead, a key is a path exactly when each of its bytes  *)
(* is an index by itself.                                                  *)
KeysKeepOrder ==
  /\ Unnibble(Nibbles(key)) = key
  /\ key # <<>> => Unnibble(Tail(Nibbles(key))) = NoPath
  /\ Before(Nibbles(key), Nibbles(other)) <=> Before(key, other)
  /\ IsPrefix(Nibbles(key), Nibbles(other)) <=> IsPrefix(key, other)
  /\ TryFromSlice(key) # NoPath <=> \A k \in DOMAIN key : TryFromUsize(key[k]) # NoIndex

=============================================================================
