------------------------- MODULE MCSessionApproval -------------------------
(* Small instances of SessionApproval for TLC. *)
EXTENDS SessionApproval, TLC

Symmetry == Permutations(Threads)
=============================================================================
