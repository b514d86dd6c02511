---------------------------- MODULE MCScheduler ----------------------------
(* Instances of Scheduler for TLC. *)
EXTENDS Scheduler, TLC

CONSTANTS remind, chase, roleJob

\* Two daily jobs of a four-hour day and a job of an AI role.
TwoJobs == <<remind, chase>>
OneJob  == <<remind>>
TwoDue  == (remind :> {1, 5}) @@ (chase :> {2, 6}) @@ (roleJob :> {3})
OneDue  == (remind :> {1, 5}) @@ (roleJob :> {3})

\* A job due every hour but the last of the model's day.
OftenDue == (remind :> {1, 4, 6}) @@ (roleJob :> {3})

Symmetry == Permutations(Updaters) \cup Permutations(Adders)
=============================================================================
