-------------------------- MODULE MCMutationOwner --------------------------
(* Instances of MutationOwner for TLC: every worker is a process of its own. *)
EXTENDS MutationOwner, TLC

OwnProcess == [w \in Workers |-> w]

Symmetry == Permutations(Workers)

=============================================================================
