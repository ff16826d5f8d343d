---------------------------- MODULE MCTurnHistory ----------------------------
(* TurnHistory with one file that always fits the budget, and a model that *)
(* compacts. Runs differ by nothing but the order they start in.           *)
EXTENDS TurnHistory

OneFile == "f" :> 1
Symmetry == Permutations(Runs)

\* Nothing is lost, and turns are rich: reads and compactions, two rounds.
Kind == [rounds |-> 2, kinds |-> {"reads", "compacts"}, inTime |-> TRUE,
         failures |-> FALSE, purges |-> FALSE, dispatch |-> {"ok"}]

\* Turns of one round, some swept alive; saves, sweeps and dispatches fail.
Harsh == [rounds |-> 1, kinds |-> {"plain"}, inTime |-> FALSE,
          failures |-> TRUE, purges |-> FALSE, dispatch |-> {"ok", "error"}]

\* A start may fail and leave its task behind.
Ambiguous == [rounds |-> 1, kinds |-> {"plain"}, inTime |-> TRUE,
              failures |-> FALSE, purges |-> FALSE, dispatch |-> {"ok", "unknown"}]

\* The retention purge runs between any two statements.
Purging == [rounds |-> 1, kinds |-> {"plain", "reads"}, inTime |-> TRUE,
            failures |-> FALSE, purges |-> TRUE, dispatch |-> {"ok"}]

\* As Purging, and saves fail and sweeps die.
Failing == [Purging EXCEPT !.failures = TRUE]

MCEnvironments == {Kind, Harsh, Ambiguous, Purging, Failing}
=============================================================================
