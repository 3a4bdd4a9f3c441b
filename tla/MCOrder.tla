------------------------------ MODULE MCOrder ------------------------------
(* Instances of Order for TLC. *)
EXTENDS Order, TLC

Symmetry == Permutations(Updates) \cup Permutations(Cancels) \cup Permutations(Creates)
=============================================================================
