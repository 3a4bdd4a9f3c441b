----------------------------- MODULE MCSessions -----------------------------
(* Instances of Sessions for TLC. *)
EXTENDS Sessions, TLC

Symmetry == Permutations(Logins) \cup Permutations(Logouts) \cup Permutations(Profiles)
=============================================================================
