---------------------------- MODULE MCSubtreeDrop ----------------------------
(* Every subtree of six nodes: from a chain, twice as deep as the bound on *)
(* nesting, to a root with five leaves.                                    *)
EXTENDS SubtreeDrop

=============================================================================
