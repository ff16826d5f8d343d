------------------------------ MODULE MCDataRoom ------------------------------
(* Instances of DataRoom for TLC: files, folders and members are each       *)
(* quantified over and never ordered.                                       *)
EXTENDS DataRoom, TLC

Symmetry == Permutations(Files) \cup Permutations(Folders) \cup Permutations(Members)
=============================================================================
