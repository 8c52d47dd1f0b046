--------------------------- MODULE MCBlockLifecycle ---------------------------
(* Blocks of four slots: every set of live slots of a gapped block, every   *)
(* prefix of a packed one; every destructor and every clone may panic.      *)
EXTENDS BlockLifecycle

=============================================================================
