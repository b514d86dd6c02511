------------------------------ MODULE MCChase ------------------------------
(* Instances of Chase for TLC. *)
EXTENDS Chase, TLC

\* The escalation of configs/mentors/inamori.yaml, delays in hours.
Inamori == <<"private_message", "manager_notify", "skip_today">>
InamoriDelay == <<0, 2, 4>>

\* That of configs/mentors/dalio.yaml, without its repeated first step.
Dalio == <<"public_reminder", "manager_notify", "skip_today">>

Symmetry == Permutations(Runs)
=============================================================================
