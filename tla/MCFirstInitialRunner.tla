----------------------- MODULE MCFirstInitialRunner -----------------------
(* Two invocations, two calls a council, two of the versions a behaviour.  *)
EXTENDS FirstInitialRunner

CONSTANTS p1, p2, c1, c2
Symmetric == Permutations(Procs) \union Permutations(Commits)
A(defect, usage, charge, written) ==
    [received |-> TRUE, parsed |-> TRUE, defect |-> defect, usage |-> usage, cost |-> charge,
     written |-> written]
MCLive == {{"v1", "v2"}, {"v2", "v3"}, {"v3", "v4"}, {"v4", "v5"}}
MCAnswers == {A("none", "full", 2, 0), A("none", "none", 4, 0), A("none", "partial", 5, 1),
              A("material", "full", 4, 0), A("provenance", "full", 2, 0), A("stage", "full", 2, 0),
              [A("other", "none", 2, 0) EXCEPT !.received = FALSE, !.parsed = FALSE]}
=============================================================================
