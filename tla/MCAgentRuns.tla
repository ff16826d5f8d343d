---------------------------- MODULE MCAgentRuns ----------------------------
(* AgentRuns on small instances: model values for runs, conversations and  *)
(* workers, and the permutations of the ones no property tells apart.      *)
EXTENDS AgentRuns, TLC

Symmetry == Permutations(Runs) \cup Permutations(Workers)
=============================================================================
