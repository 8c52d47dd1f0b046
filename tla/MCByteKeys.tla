------------------------------ MODULE MCByteKeys ------------------------------
(* Bytes of four bits, and all pairs of keys of up to two. *)
EXTENDS ByteKeys

=============================================================================
