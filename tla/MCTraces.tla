------------------------------- MODULE MCTraces -------------------------------
(* Instances of Traces for TLC: two addresses; two transfers between them,  *)
(* one on a chain whose rows have a position of their own and one on a chain *)
(* whose rows do not, and one there from an address to itself, which may be *)
(* in a trace from before and may be drawn by hand.                         *)
EXTENDS Traces, TLC

CONSTANTS x, y

MCTransfers == {[tx |-> "p", from |-> x, to |-> y, ledger |-> FALSE],
                [tx |-> "q", from |-> x, to |-> x, ledger |-> FALSE],
                [tx |-> "s", from |-> x, to |-> y, ledger |-> TRUE]}

MCGiven == {r \in MCTransfers : r.from = r.to}

Symmetry == Permutations(Editors) \cup Permutations(Traces)
=============================================================================
