------------------------- MODULE MCDispatchLineage -------------------------
(* A small instance of DispatchLineage for TLC. *)
EXTENDS DispatchLineage, TLC

MCBytes == <<1, 0, 1>>
MCPrices == <<{2, 3}, {1, 2}, {2}>>
MCSaves == {[closed |-> TRUE, articles |-> <<"a1", "a2">>],
            [closed |-> TRUE, articles |-> <<"a1", "a1">>],
            [closed |-> FALSE, articles |-> <<"a1", "a2">>]}
Symmetry == Permutations(Procs) \cup Permutations(Commits)
=============================================================================
