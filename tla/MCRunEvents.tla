---------------------------- MODULE MCRunEvents ----------------------------
(* RunEvents on small instances. Subscribers only differ in what they have *)
(* received, so they are interchangeable.                                  *)
EXTENDS RunEvents, TLC

Symmetry == Permutations(Subscribers)
=============================================================================
