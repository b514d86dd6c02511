----------------------------- MODULE MCCheckIn -----------------------------
(* Instances of CheckIn for TLC. *)
EXTENDS CheckIn, TLC

Symmetry == Permutations(Handlers) \cup Permutations(Messages)
=============================================================================
