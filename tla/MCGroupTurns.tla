---------------------------- MODULE MCGroupTurns ----------------------------
(* Instances of GroupTurns for TLC: one member wrote every trigger message,  *)
(* and revisions are only ever compared for equality.                       *)
EXTENDS GroupTurns, TLC

CONSTANT alice

OneAuthor == [t \in Triggers |-> alice]

Symmetry == Permutations(Requests) \cup Permutations(Revisions)

=============================================================================
