------------------------------ MODULE MCPickup ------------------------------
(* Instances of Pickup for TLC. *)
EXTENDS Pickup, TLC

Symmetry == Permutations(Assigns) \cup Permutations(Updates)
=============================================================================
