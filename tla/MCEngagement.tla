---------------------------- MODULE MCEngagement ----------------------------
(* A model of Engagement for TLC. *)
EXTENDS Engagement, TLC

Types == <<"effect", "note">>
AnyOrder == Permutations(Requests)
=============================================================================
