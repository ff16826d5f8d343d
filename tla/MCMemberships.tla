---------------------------- MODULE MCMemberships ----------------------------
(* Instances of Memberships for TLC: users and request slots are           *)
(* interchangeable, each quantified over and never ordered.                *)
EXTENDS Memberships, TLC

Symmetry == Permutations(Users) \cup Permutations(Requests)
=============================================================================
