--------------------------- MODULE MCRuntimeNodes ---------------------------
(* An instance of RuntimeNodes for TLC: identifiers are interchangeable.    *)
EXTENDS RuntimeNodes, TLC

CONSTANT Presented   \* bound: the name pairings present; renames ask for the others

ASSUME PresentedIsName == Presented \in Names

Symmetry ==
    Permutations(Nodes) \cup Permutations(SigningKeys) \cup Permutations(EncryptionKeys)
        \cup Permutations(Challenges) \cup Permutations(Requests)

\* A challenge or a credential that is refused now is refused for ever, so a request that holds
\* one can only abort: its slot is as good as free.
MaySucceed(r) ==
    /\ req[r].pc \in {"verified", "granted"} => ChallengeAccepted(req[r].chal, "pair", req[r].kind, None)
    /\ req[r].pc = "verified" /\ req[r].kind = "remote_host" =>
          req[r].cred = req[r].chal /\ credential[req[r].cred] \in {"none", "issued"}
    /\ req[r].pc = "checked" => StillUnconsumed(req[r].chal)
    /\ req[r].pc = "proving" => ChallengeAccepted(req[r].chal, "proof", kind[req[r].node], req[r].node)

\* An expired challenge that no transaction has accepted is one of those; only retention and the
\* expiry of its credential still touch it.
MayBeUsed(c) ==
    challenge[c].state = "open" /\ challenge[c].expired =>
        \/ credential[c] = "issued"
        \/ \E r \in Requests : req[r].chal = c /\ req[r].pc \in {"checked", "consuming"}

NameAsBounded(r) == req[r].name = Presented <=> req[r].sig # None

\* Constraint: TLC goes no further from a request or a challenge that can no longer have an effect.
Followed ==
    /\ \A r \in Requests : MaySucceed(r) /\ NameAsBounded(r)
    /\ \A c \in Challenges : MayBeUsed(c)

=============================================================================
