--------------------------- MODULE MCOptionOrder ---------------------------
(* Small instances of OptionOrder for TLC: the caps are those of the frozen *)
(* policy, on accounts where they bind.                                     *)
EXTENDS OptionOrder, TLC

(* Equity 100 allows 3 in an underlying and 4 in all.  The third underlying *)
(* a cap of 6 would need is spared by a lower cap on the aggregate.  Tight  *)
(* leaves 2 above the reserve.                                              *)
Rich  == [equity |-> 200, cash |-> 200, capacity |-> 9]
Tight == [equity |-> 100, cash |-> 52, capacity |-> 9]
Accounts == {Rich, Tight}

Symmetry == Permutations(Underlyings)
=============================================================================
