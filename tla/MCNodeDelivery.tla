--------------------------- MODULE MCNodeDelivery ---------------------------
(* Instances of NodeDelivery for TLC: identifiers are interchangeable.      *)
EXTENDS NodeDelivery, TLC

Symmetry ==
    Permutations(Submissions) \cup Permutations(SigningKeys) \cup Permutations(EncryptionKeys)
        \cup Permutations(Nonces) \cup Permutations(Requests)

=============================================================================
