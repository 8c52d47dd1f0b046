---------------------------- MODULE MCBitmapWords ----------------------------
(* Every byte: the `u8` bitmap of Arity8. *)
EXTENDS BitmapWords

=============================================================================
