----------------------------- MODULE MCLeadTurns -----------------------------
(* Instances of LeadTurns for TLC: identifiers are interchangeable.         *)
EXTENDS LeadTurns, TLC

Symmetry == Permutations(Intents) \cup Permutations(Preparations) \cup Permutations(Requests)

=============================================================================
