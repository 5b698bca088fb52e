------------------------- MODULE MCPrivateRevisions -------------------------
(* PrivateRevisions for TLC. *)
EXTENDS PrivateRevisions, TLC

Symmetry == Permutations(Writers)
=============================================================================
