--------------------------- MODULE MCReadLineage ---------------------------
EXTENDS ReadLineage, TLC

Symmetry == Permutations(Procs)
=============================================================================
