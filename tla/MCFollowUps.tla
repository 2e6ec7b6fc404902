----------------------------- MODULE MCFollowUps -----------------------------
(* Instances of FollowUps for TLC: hosts and messages are interchangeable.   *)
EXTENDS FollowUps, TLC

Symmetry == Permutations(Hosts) \cup Permutations(Messages)

=============================================================================
