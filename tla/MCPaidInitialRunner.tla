------------------------ MODULE MCPaidInitialRunner ------------------------
(* Small instances of PaidInitialRunner for TLC. *)
EXTENDS PaidInitialRunner, TLC

Symmetry == Permutations(Procs) \cup Permutations(Commits)
=============================================================================
