------------------------- MODULE MCRecoveryRuntime -------------------------
(* Small instances of RecoveryRuntime for TLC: the source run had three     *)
(* calls; only the first of these can be recovered.                         *)
EXTENDS RecoveryRuntime, TLC

Pass(c) == [received |-> TRUE, pass |-> TRUE, cost |-> c]
Failed(c) == [received |-> TRUE, pass |-> FALSE, cost |-> c]
Lost == [received |-> FALSE, pass |-> FALSE, cost |-> 0]
Left(receipts) == [receipts |-> receipts, known |-> SpentOn(receipts)]
MCSources == {Left(<<Pass(1), Pass(3), Lost>>),
              Left(<<Pass(1), Pass(2), Lost>>),
              Left(<<Pass(4), Lost>>),
              Left(<<Pass(1), Pass(3), Failed(2)>>),
              Left(<<Pass(1), Failed(2), Lost>>)}
Symmetry == Permutations(Procs) \cup Permutations(Approvals)
=============================================================================
