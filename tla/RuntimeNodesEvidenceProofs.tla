---------------------- MODULE RuntimeNodesEvidenceProofs ----------------------
(***************************************************************************)
(* More machine-checked facts about RuntimeNodes, for any number of nodes, *)
(* keys, challenges and concurrent requests: where the proof times and the *)
(* pairings on record come from, what a remote host spent to be            *)
(* registered, that renames keep names apart, and what a revocation stops. *)
(***************************************************************************)
EXTENDS RuntimeNodesProofs

(***************************************************************************)
(* The inductive invariant, on top of RuntimeNodesProofs.                  *)
(***************************************************************************)

\* A pairing that has read its challenge read a pairing challenge of its kind; one that has
\* consumed it finds it open until it commits, and the node it matched is of its kind; a
\* remote host that got this far has spent its exchange credential.
GrantOK(r) ==
    LET c == req[r].chal IN
    /\ req[r].pc \in {"checked", "consuming"} =>
          challenge[c].state # "none" /\ challenge[c].purpose = "pair" /\ challenge[c].kind = req[r].kind
              /\ challenge[c].node = None
    /\ req[r].pc = "consuming" =>
          challenge[c].state = "open" /\ (req[r].node # None => kind[req[r].node] = req[r].kind)
    /\ req[r].pc \in {"granted", "checked", "consuming"} /\ req[r].kind = "remote_host" =>
          credential[c] \in {"spent", "pruned"}

GrantsOK == \A r \in Requests : GrantOK(r)

\* A challenge row is held by one registration at a time.
ConsumersDistinct ==
    \A r, q \in Requests :
        req[r].pc = "consuming" /\ req[q].pc = "consuming" /\ req[r].chal = req[q].chal => r = q

\* The workspace's advisory lock admits one rename, and no renamed node has the name it checked.
RenamesOK ==
    /\ \A n \in Nodes : nameSetBy[n] = "rename" => Registered(n)
    /\ \A r, q \in Requests : req[r].pc = "renaming" /\ req[q].pc = "renaming" => r = q
    /\ \A r \in Requests : req[r].pc = "renaming" =>
          \A m \in Nodes \ {req[r].node} : nameSetBy[m] = "rename" => name[m] # req[r].name

EvidenceInv == GrantsOK /\ ConsumersDistinct /\ ProofProvenance /\ RemoteHostSpentGrant

NamesInv == RenamesOK /\ RenamesStayDistinct

-----------------------------------------------------------------------------
(***************************************************************************)
(* What a step does to a challenge, a credential and a registered node.    *)
(***************************************************************************)

\* What a challenge was opened for.
SamePurpose(c) ==
    challenge'[c].purpose = challenge[c].purpose /\ challenge'[c].kind = challenge[c].kind
        /\ challenge'[c].node = challenge[c].node

\* Consuming a challenge changes its state only.
LEMMA ConsumeEffect ==
    ASSUME TypeOK, NEW c \in Challenges, NEW st \in {"consumed", "pruned"},
           challenge' = [challenge EXCEPT ![c].state = st]
    PROVE  /\ challenge'[c].state = st /\ SamePurpose(c)
           /\ \A d \in Challenges \ {c} : challenge'[d] = challenge[d]
<1>. DEFINE new == [challenge[c] EXCEPT !.state = st]
<1>1. new.state = st /\ new.purpose = challenge[c].purpose /\ new.kind = challenge[c].kind /\ new.node = challenge[c].node
    BY DEF TypeOK, ChallengeRow
<1>2. challenge'[c] = new /\ \A d \in Challenges \ {c} : challenge'[d] = challenge[d]
    BY DEF TypeOK
<1>. HIDE DEF new
<1>. QED BY <1>1, <1>2 DEF SamePurpose

\* The clock changes the expiry mark only.
LEMMA ExpireEffect ==
    ASSUME TypeOK, NEW c \in Challenges,
           challenge' = [challenge EXCEPT ![c].expired = TRUE]
    PROVE  /\ challenge'[c].state = challenge[c].state /\ SamePurpose(c)
           /\ \A d \in Challenges \ {c} : challenge'[d] = challenge[d]
<1>. DEFINE new == [challenge[c] EXCEPT !.expired = TRUE]
<1>1. new.state = challenge[c].state /\ new.purpose = challenge[c].purpose /\ new.kind = challenge[c].kind
      /\ new.node = challenge[c].node
    BY DEF TypeOK, ChallengeRow
<1>2. challenge'[c] = new /\ \A d \in Challenges \ {c} : challenge'[d] = challenge[d]
    BY DEF TypeOK
<1>. HIDE DEF new
<1>. QED BY <1>1, <1>2 DEF SamePurpose

\* What no step undoes: what a challenge was opened for and that it was used, that a credential
\* is spent, and what a node was registered as; and a challenge that a registration holds stays
\* open until that registration ends.
Steady ==
    /\ \A c \in Challenges : challenge[c].state # "none" => challenge'[c].state # "none" /\ SamePurpose(c)
    /\ \A c \in Challenges : challenge[c].state \in {"consumed", "pruned"} =>
          challenge'[c].state \in {"consumed", "pruned"}
    /\ \A c \in Challenges : credential[c] \in {"spent", "pruned"} => credential'[c] \in {"spent", "pruned"}
    /\ \A n \in Nodes : Registered(n) =>
          Registered(n)' /\ kind'[n] = kind[n] /\ pairedWith'[n] = pairedWith[n]
    /\ \A q \in Requests : req[q].pc = "consuming" /\ req'[q] = req[q] =>
          challenge'[req[q].chal].state = "open"

\* Consuming an open challenge is steady when the registration that holds it ends with it.
LEMMA ConsumeSteady ==
    ASSUME TypeInv, GrantsOK, NEW c \in Challenges, Consume(c), challenge[c].state = "open",
           UNCHANGED credential,
           \A n \in Nodes : Registered(n) =>
              Registered(n)' /\ kind'[n] = kind[n] /\ pairedWith'[n] = pairedWith[n],
           \A q \in Requests : req[q].pc = "consuming" /\ req'[q] = req[q] => req[q].chal # c
    PROVE  Steady
<1>1. /\ challenge'[c].state = "consumed" /\ SamePurpose(c)
      /\ \A d \in Challenges \ {c} : challenge'[d] = challenge[d]
    BY ConsumeEffect DEF Consume, TypeInv
<1>2. \A d \in Challenges : challenge[d].state # "none" => challenge'[d].state # "none" /\ SamePurpose(d)
    BY <1>1 DEF SamePurpose
<1>3. \A q \in Requests : req[q].pc = "consuming" => req[q].chal \in Challenges /\ challenge[req[q].chal].state = "open"
    BY DEF GrantsOK, GrantOK, TypeInv, RequestShape
<1>4. \A q \in Requests : req[q].pc = "consuming" /\ req'[q] = req[q] => challenge'[req[q].chal].state = "open"
    BY <1>1, <1>3
<1>. QED BY <1>1, <1>2, <1>4 DEF Steady

\* Every step is steady.
LEMMA SteadyStep ==
    ASSUME TypeInv, GrantsOK, ConsumersDistinct, [Next]_vars
    PROVE  Steady
<1>. USE DEF nodeVars, keyVars
<1>0. \A q \in Requests : req[q].pc = "consuming" =>
          req[q].chal \in Challenges /\ challenge[req[q].chal].state = "open" /\ challenge[req[q].chal].purpose = "pair"
    BY DEF GrantsOK, GrantOK, TypeInv, RequestShape
<1>1. ASSUME UNCHANGED <<challenge, credential, pairingState, kind, pairedWith>> PROVE Steady
    BY <1>0, <1>1 DEF Steady, SamePurpose, Registered
<1>2. ASSUME NEW c \in Challenges, challenge[c].state = "none",
             \A d \in Challenges \ {c} : challenge'[d] = challenge[d],
             UNCHANGED <<credential, pairingState, kind, pairedWith>>
      PROVE  Steady
    BY <1>0, <1>2 DEF Steady, SamePurpose, Registered
<1>3. ASSUME NEW c \in Challenges,
             (\E k \in Kinds : OpenPairing(c, k)) \/ (\E n \in Nodes, p \in {"rotate", "proof"} : OpenNodeChallenge(c, n, p))
      PROVE  Steady
    <2>1. /\ challenge[c].state = "none" /\ \A d \in Challenges \ {c} : challenge'[d] = challenge[d]
          /\ UNCHANGED <<credential, pairingState, kind, pairedWith>>
        BY <1>3 DEF OpenPairing, OpenNodeChallenge, CreateChallenge, TypeInv, TypeOK
    <2>. QED BY <1>2, <2>1
<1>4. ASSUME NEW c \in Challenges, IssueExchangeCredential(c)
      PROVE  Steady
    BY <1>0, <1>4 DEF IssueExchangeCredential, TypeInv, TypeOK, Steady, SamePurpose, Registered
<1>5. ASSUME NEW c \in Challenges, Expire(c)
      PROVE  Steady
    <2>1. CASE UNCHANGED challenge
        BY <1>0, <1>5, <2>1 DEF Expire, TypeInv, TypeOK, Steady, SamePurpose, Registered
    <2>2. CASE challenge' = [challenge EXCEPT ![c].expired = TRUE] /\ UNCHANGED credential
        <3>1. /\ challenge'[c].state = challenge[c].state /\ SamePurpose(c)
              /\ \A d \in Challenges \ {c} : challenge'[d] = challenge[d]
            BY <2>2, ExpireEffect DEF TypeInv
        <3>2. \A d \in Challenges : challenge'[d].state = challenge[d].state /\ SamePurpose(d)
            BY <3>1 DEF SamePurpose
        <3>. QED BY <1>0, <1>5, <2>2, <3>2 DEF Expire, Steady, Registered
    <2>. QED BY <1>5, <2>1, <2>2 DEF Expire
<1>6. ASSUME NEW c \in Challenges, PruneCredentials(c)
      PROVE  Steady
    <2>1. CASE UNCHANGED challenge
        BY <1>0, <1>6, <2>1 DEF PruneCredentials, TypeInv, TypeOK, Steady, SamePurpose, Registered
    <2>2. CASE /\ challenge' = [challenge EXCEPT ![c].state = "pruned"] /\ ~ChallengeLocked(c)
               /\ credential' = [credential EXCEPT ![c] = "pruned"]
        <3>1. /\ challenge'[c].state = "pruned" /\ SamePurpose(c)
              /\ \A d \in Challenges \ {c} : challenge'[d] = challenge[d]
            BY <2>2, ConsumeEffect DEF TypeInv
        <3>2. \A d \in Challenges : challenge[d].state # "none" => challenge'[d].state # "none" /\ SamePurpose(d)
            BY <3>1 DEF SamePurpose
        <3>3. \A q \in Requests : req[q].pc = "consuming" => req[q].chal # c
            BY <2>2 DEF ChallengeLocked
        <3>4. \A d \in Challenges : credential[d] \in {"spent", "pruned"} => credential'[d] \in {"spent", "pruned"}
            BY <2>2 DEF TypeInv, TypeOK
        <3>. QED BY <1>0, <1>6, <3>1, <3>2, <3>3, <3>4 DEF PruneCredentials, Steady, Registered
    <2>. QED BY <1>6, <2>1, <2>2 DEF PruneCredentials
<1>7. ASSUME NEW r \in Requests, SpendExchangeCredential(r)
      PROVE  Steady
    <2>1. \A d \in Challenges : credential[d] \in {"spent", "pruned"} => credential'[d] \in {"spent", "pruned"}
        BY <1>7 DEF SpendExchangeCredential, TypeInv, TypeOK
    <2>. QED BY <1>0, <1>7, <2>1 DEF SpendExchangeCredential, Steady, SamePurpose, Registered
<1>8. ASSUME NEW r \in Requests, RegisterResume(r)
      PROVE  Steady
    <2>1. req[r].pc = "consuming" /\ Consume(req[r].chal) /\ req'[r] = NoRequest
          /\ UNCHANGED <<credential, pairingState, kind, pairedWith>>
        BY <1>8 DEF RegisterResume, TypeInv, TypeOK
    <2>2. \A q \in Requests : req[q].pc = "consuming" /\ req'[q] = req[q] => req[q].chal # req[r].chal
        BY <2>1 DEF ConsumersDistinct, NoRequest
    <2>. QED BY <1>0, <2>1, <2>2, ConsumeSteady DEF Registered
<1>9. ASSUME NEW r \in Requests, NEW n \in Nodes, RegisterInsert(r, n)
      PROVE  Steady
    <2>1. req[r].pc = "consuming" /\ Consume(req[r].chal) /\ req'[r] = NoRequest /\ UNCHANGED credential
        BY <1>9 DEF RegisterInsert, TypeInv, TypeOK
    <2>2. \A q \in Requests : req[q].pc = "consuming" /\ req'[q] = req[q] => req[q].chal # req[r].chal
        BY <2>1 DEF ConsumersDistinct, NoRequest
    <2>3. \A m \in Nodes : Registered(m) => Registered(m)' /\ kind'[m] = kind[m] /\ pairedWith'[m] = pairedWith[m]
        BY <1>9 DEF RegisterInsert, TypeInv, TypeOK, Registered
    <2>. QED BY <1>0, <2>1, <2>2, <2>3, ConsumeSteady
<1>10. ASSUME NEW r \in Requests, RecordProof(r)
       PROVE  Steady
    <2>1. /\ req[r].chal \in Challenges /\ Consume(req[r].chal)
          /\ challenge[req[r].chal].state = "open" /\ challenge[req[r].chal].purpose = "proof"
          /\ UNCHANGED <<credential, pairingState, kind, pairedWith>>
        BY <1>10 DEF RecordProof, ChallengeAccepted, TypeInv, RequestShape
    <2>. QED BY <1>0, <2>1, ConsumeSteady DEF Registered
<1>11. ASSUME NEW n \in Nodes, NEW c \in Challenges, NEW s \in SigningKeys, NEW e \in EncryptionKeys,
              RotateKeys(n, c, s, e)
       PROVE  Steady
    <2>1. /\ Consume(c) /\ challenge[c].state = "open" /\ challenge[c].purpose = "rotate"
          /\ UNCHANGED <<credential, pairingState, kind, pairedWith>>
        BY <1>11 DEF RotateKeys, ChallengeAccepted
    <2>. QED BY <1>0, <2>1, ConsumeSteady DEF Registered
<1>12. ASSUME NEW n \in Nodes, Revoke(n)
       PROVE  Steady
    <2>1. \A m \in Nodes : Registered(m) => Registered(m)'
        BY <1>12 DEF Revoke, TypeInv, TypeOK, Registered
    <2>. QED BY <1>0, <1>12, <2>1 DEF Revoke, Steady, SamePurpose
<1>13. CASE UNCHANGED vars
    BY <1>1, <1>13 DEF vars
<1>14. CASE ChallengeStep
    BY <1>3, <1>4, <1>5, <1>6, <1>14 DEF ChallengeStep
<1>15. ASSUME NEW r \in Requests, PairStep(r) \/ NodeStep(r)
       PROVE  Steady
    BY <1>1, <1>7, <1>8, <1>9, <1>10, <1>15
       DEF PairStep, NodeStep, PairBegin, CheckChallenge, ConsumeAndMatch, Abort, ProofBegin, RenameBegin, RenameCommit
<1>. QED BY <1>11, <1>12, <1>13, <1>14, <1>15 DEF Next, OwnerStep

-----------------------------------------------------------------------------
(***************************************************************************)
(* What a step does to a request.                                          *)
(***************************************************************************)

\* A request moves to a new stage and keeps what it carries.
LEMMA StageEffect ==
    ASSUME TypeOK, NEW r \in Requests,
           NEW st \in {"granted", "checked"}, req' = [req EXCEPT ![r].pc = st]
    PROVE  /\ req'[r].pc = st /\ req'[r].chal = req[r].chal /\ req'[r].kind = req[r].kind
           /\ \A q \in Requests \ {r} : req'[q] = req[q]
<1>. DEFINE new == [req[r] EXCEPT !.pc = st]
<1>1. new.pc = st /\ new.chal = req[r].chal /\ new.kind = req[r].kind
    BY DEF TypeOK, RequestState
<1>2. req'[r] = new /\ \A q \in Requests \ {r} : req'[q] = req[q]
    BY DEF TypeOK
<1>. HIDE DEF new
<1>. QED BY <1>1, <1>2

\* A registration takes its challenge and records the node it matched.
LEMMA MatchEffect ==
    ASSUME TypeOK, NEW r \in Requests, NEW n,
           req' = [req EXCEPT ![r].pc = "consuming", ![r].node = n]
    PROVE  /\ req'[r].pc = "consuming" /\ req'[r].chal = req[r].chal /\ req'[r].kind = req[r].kind
           /\ req'[r].node = n
           /\ \A q \in Requests \ {r} : req'[q] = req[q]
<1>. DEFINE new == [req[r] EXCEPT !.pc = "consuming", !.node = n]
<1>1. new.pc = "consuming" /\ new.chal = req[r].chal /\ new.kind = req[r].kind /\ new.node = n
    BY DEF TypeOK, RequestState
<1>2. req'[r] = new /\ \A q \in Requests \ {r} : req'[q] = req[q]
    BY DEF TypeOK
<1>. HIDE DEF new
<1>. QED BY <1>1, <1>2

\* The moves of a request's local state.
RequestMove(r) ==
    \/ req'[r] = req[r]
    \/ req'[r].pc \in {"idle", "verified", "proving", "renaming"}
    \/ /\ req'[r].pc = "granted" /\ req'[r].chal = req[r].chal /\ req'[r].kind = req[r].kind
       /\ credential'[req[r].chal] = "spent"
    \/ /\ req'[r].pc = "checked" /\ req'[r].chal = req[r].chal /\ req'[r].kind = req[r].kind
       /\ req[r].pc = GrantSettled(r) /\ ChallengeAccepted(req[r].chal, "pair", req[r].kind, None)
    \/ /\ req'[r].pc = "consuming" /\ req'[r].chal = req[r].chal /\ req'[r].kind = req[r].kind
       /\ req[r].pc = "checked" /\ ~ChallengeLocked(req[r].chal) /\ challenge[req[r].chal].state = "open"
       /\ UNCHANGED <<challenge, kind>>
       /\ req'[r].node # None =>
             NotRevoked(req'[r].node) /\ Registered(req'[r].node) /\ kind[req'[r].node] = req[r].kind
       /\ \A q \in Requests \ {r} : req'[q] = req[q]

\* Every change of a request by a step is one of the moves.
LEMMA RequestMoves ==
    ASSUME TypeInv, [Next]_vars
    PROVE  \A r \in Requests : RequestMove(r)
<1>1. ASSUME UNCHANGED req PROVE \A q \in Requests : RequestMove(q)
    BY <1>1 DEF RequestMove
<1>2. ASSUME NEW r \in Requests, RequestMove(r), \A q \in Requests \ {r} : req'[q] = req[q]
      PROVE  \A q \in Requests : RequestMove(q)
    BY <1>2 DEF RequestMove
<1>3. ASSUME NEW r \in Requests,
             \/ \E c \in Challenges, k \in Kinds, s \in SigningKeys, e \in EncryptionKeys,
                    cr \in Challenges \cup {None}, d \in Names : PairBegin(r, c, k, s, e, cr, d)
             \/ RegisterResume(r) \/ (\E n \in Nodes : RegisterInsert(r, n)) \/ Abort(r)
             \/ NodeStep(r)
      PROVE  \A q \in Requests : RequestMove(q)
    <2>1. ASSUME NEW new, req' = [req EXCEPT ![r] = new], new.pc \in {"idle", "verified", "proving", "renaming"}
          PROVE  \A q \in Requests : RequestMove(q)
        <3>1. req'[r] = new /\ \A q \in Requests \ {r} : req'[q] = req[q]
            BY <2>1 DEF TypeInv, TypeOK
        <3>. QED BY <1>2, <2>1, <3>1 DEF RequestMove
    <2>2. ASSUME NEW c, NEW k, NEW s, NEW e, NEW cr, NEW d, PairBegin(r, c, k, s, e, cr, d)
          PROVE  \A q \in Requests : RequestMove(q)
        BY <2>1, <2>2 DEF PairBegin
    <2>3. ASSUME req' = [req EXCEPT ![r] = NoRequest]
          PROVE  \A q \in Requests : RequestMove(q)
        BY <2>1, <2>3 DEF NoRequest
    <2>4. ASSUME NEW n \in Nodes, NEW c \in Challenges, ProofBegin(r, n, c)
          PROVE  \A q \in Requests : RequestMove(q)
        BY <2>1, <2>4 DEF ProofBegin, NoRequest
    <2>5. ASSUME NEW n \in Nodes, NEW d \in Names, RenameBegin(r, n, d)
          PROVE  \A q \in Requests : RequestMove(q)
        BY <2>1, <2>5 DEF RenameBegin, NoRequest
    <2>. QED BY <1>3, <2>2, <2>3, <2>4, <2>5
         DEF RegisterResume, RegisterInsert, Abort, NodeStep, RecordProof, RenameCommit
<1>4. ASSUME NEW r \in Requests, SpendExchangeCredential(r)
      PROVE  \A q \in Requests : RequestMove(q)
    <2>1. /\ req'[r].pc = "granted" /\ req'[r].chal = req[r].chal /\ req'[r].kind = req[r].kind
          /\ \A q \in Requests \ {r} : req'[q] = req[q]
        BY <1>4, StageEffect DEF SpendExchangeCredential, TypeInv
    <2>2. credential'[req[r].chal] = "spent"
        BY <1>4 DEF SpendExchangeCredential, TypeInv, TypeOK, RequestShape
    <2>. QED BY <1>2, <2>1, <2>2 DEF RequestMove
<1>5. ASSUME NEW r \in Requests, CheckChallenge(r)
      PROVE  \A q \in Requests : RequestMove(q)
    <2>1. /\ req'[r].pc = "checked" /\ req'[r].chal = req[r].chal /\ req'[r].kind = req[r].kind
          /\ \A q \in Requests \ {r} : req'[q] = req[q]
        BY <1>5, StageEffect DEF CheckChallenge, TypeInv
    <2>. QED BY <1>2, <1>5, <2>1 DEF RequestMove, CheckChallenge
<1>6. ASSUME NEW r \in Requests, ConsumeAndMatch(r)
      PROVE  \A q \in Requests : RequestMove(q)
    <2>1. PICK n \in Nodes \cup {None} :
             /\ n # None => n \in Matching(r) /\ NotRevoked(n)
             /\ req' = [req EXCEPT ![r].pc = "consuming", ![r].node = n]
        BY <1>6 DEF ConsumeAndMatch, Matching
    <2>2. /\ req'[r].pc = "consuming" /\ req'[r].chal = req[r].chal /\ req'[r].kind = req[r].kind
          /\ req'[r].node = n
          /\ \A q \in Requests \ {r} : req'[q] = req[q]
        BY <2>1, MatchEffect DEF TypeInv
    <2>3. n # None => NotRevoked(n) /\ Registered(n) /\ kind[n] = req[r].kind
        BY <2>1 DEF Matching, Registered
    <2>4. /\ req[r].pc = "checked" /\ ~ChallengeLocked(req[r].chal) /\ challenge[req[r].chal].state = "open"
          /\ UNCHANGED <<challenge, kind>>
        BY <1>6 DEF ConsumeAndMatch, StillUnconsumed, nodeVars
    <2>5. RequestMove(r)
        BY <2>2, <2>3, <2>4 DEF RequestMove
    <2>. QED BY <1>2, <2>2, <2>5
<1>7. CASE UNCHANGED vars
    BY <1>1, <1>7 DEF vars
<1>8. CASE ChallengeStep
    BY <1>1, <1>8 DEF ChallengeStep, OpenPairing, IssueExchangeCredential, OpenNodeChallenge, Expire, PruneCredentials
<1>9. ASSUME NEW n \in Nodes, OwnerStep(n)
      PROVE  \A q \in Requests : RequestMove(q)
    BY <1>1, <1>9 DEF OwnerStep, RotateKeys, Revoke
<1>10. ASSUME NEW r \in Requests, PairStep(r)
       PROVE  \A q \in Requests : RequestMove(q)
    BY <1>3, <1>4, <1>5, <1>6, <1>10 DEF PairStep
<1>. QED BY <1>3, <1>7, <1>8, <1>9, <1>10 DEF Next

\* Every step keeps what pairings rely on.
LEMMA GrantStep ==
    ASSUME TypeInv, GrantsOK, ConsumersDistinct, [Next]_vars
    PROVE  GrantsOK' /\ ConsumersDistinct'
<1>1. Steady /\ \A r \in Requests : RequestMove(r)
    BY SteadyStep, RequestMoves
<1>2. ASSUME NEW r \in Requests
      PROVE  GrantOK(r)'
    <2>0. GrantOK(r) /\ RequestMove(r)
        BY <1>1 DEF GrantsOK
    <2>1. CASE req'[r] = req[r]
        <3>1. req[r].pc \in {"granted", "checked", "consuming"} => req[r].chal \in Challenges
            BY DEF TypeInv, RequestShape
        <3>2. req[r].pc = "consuming" /\ req[r].node # None => req[r].node \in Nodes /\ Registered(req[r].node)
            BY DEF TypeInv, TypeOK, RequestShape, RequestState
        <3>3. req[r].pc \in {"checked", "consuming"} =>
                 challenge'[req[r].chal].state # "none" /\ challenge'[req[r].chal].purpose = "pair"
                     /\ challenge'[req[r].chal].kind = req[r].kind /\ challenge'[req[r].chal].node = None
            BY <1>1, <2>0, <3>1 DEF GrantOK, Steady, SamePurpose
        <3>4. req[r].pc = "consuming" =>
                 challenge'[req[r].chal].state = "open" /\ (req[r].node # None => kind'[req[r].node] = req[r].kind)
            BY <1>1, <2>0, <2>1, <3>2 DEF GrantOK, Steady
        <3>5. req[r].pc \in {"granted", "checked", "consuming"} /\ req[r].kind = "remote_host" =>
                 credential'[req[r].chal] \in {"spent", "pruned"}
            BY <1>1, <2>0, <3>1 DEF GrantOK, Steady
        <3>. QED BY <2>1, <3>3, <3>4, <3>5 DEF GrantOK
    <2>2. CASE req'[r].pc \in {"idle", "verified", "proving", "renaming"}
        BY <2>2 DEF GrantOK
    <2>3. CASE /\ req'[r].pc = "granted" /\ req'[r].chal = req[r].chal
               /\ credential'[req[r].chal] = "spent"
        BY <2>3 DEF GrantOK
    <2>4. CASE /\ req'[r].pc = "checked" /\ req'[r].chal = req[r].chal /\ req'[r].kind = req[r].kind
               /\ req[r].pc = GrantSettled(r) /\ ChallengeAccepted(req[r].chal, "pair", req[r].kind, None)
        <3>1. req[r].chal \in Challenges
            BY <2>4 DEF GrantSettled, TypeInv, RequestShape
        <3>2. challenge'[req[r].chal].state # "none" /\ challenge'[req[r].chal].purpose = "pair"
                  /\ challenge'[req[r].chal].kind = req[r].kind /\ challenge'[req[r].chal].node = None
            BY <1>1, <2>4, <3>1 DEF ChallengeAccepted, Steady, SamePurpose
        <3>3. req[r].kind = "remote_host" => credential'[req[r].chal] \in {"spent", "pruned"}
            BY <1>1, <2>0, <2>4, <3>1 DEF GrantSettled, GrantOK, Steady
        <3>. QED BY <2>4, <3>2, <3>3 DEF GrantOK
    <2>5. CASE /\ req'[r].pc = "consuming" /\ req'[r].chal = req[r].chal /\ req'[r].kind = req[r].kind
               /\ req[r].pc = "checked" /\ challenge[req[r].chal].state = "open"
               /\ UNCHANGED <<challenge, kind>>
               /\ req'[r].node # None => kind[req'[r].node] = req[r].kind
        <3>1. req[r].chal \in Challenges
            BY <2>5 DEF TypeInv, RequestShape
        <3>2. req[r].kind = "remote_host" => credential'[req[r].chal] \in {"spent", "pruned"}
            BY <1>1, <2>0, <2>5, <3>1 DEF GrantOK, Steady
        <3>. QED BY <2>0, <2>5, <3>2 DEF GrantOK
    <2>. QED BY <2>0, <2>1, <2>2, <2>3, <2>4, <2>5 DEF RequestMove
<1>3. ConsumersDistinct'
    <2>. SUFFICES ASSUME NEW r \in Requests, NEW q \in Requests, r # q,
                         req'[r].pc = "consuming", req'[q].pc = "consuming", req'[r].chal = req'[q].chal
                  PROVE  FALSE
        BY DEF ConsumersDistinct
    <2>1. CASE req'[r] = req[r] /\ req'[q] = req[q]
        BY <2>1 DEF ConsumersDistinct
    <2>2. CASE req'[r] # req[r]
        BY <1>1, <2>2 DEF RequestMove, ChallengeLocked
    <2>3. CASE req'[q] # req[q]
        BY <1>1, <2>3 DEF RequestMove, ChallengeLocked
    <2>. QED BY <2>1, <2>2, <2>3
<1>. QED BY <1>2, <1>3 DEF GrantsOK

-----------------------------------------------------------------------------
(***************************************************************************)
(* Proof times and pairings.                                               *)
(***************************************************************************)

\* A step that records evidence for no node.
NoEvidence ==
    \A n \in Nodes : /\ lastProof'[n] = lastProof[n] /\ pairedWith'[n] = pairedWith[n]
                     /\ Registered(n)' = Registered(n)

\* A step that consumes challenge c for node n, which was there or is inserted.
Evidence(n, c) ==
    /\ challenge[c].state = "open" /\ challenge'[c].state = "consumed" /\ SamePurpose(c)
    /\ challenge[c].node \in {n, None} /\ challenge[c].kind = kind'[n]
    /\ Registered(n)' /\ lastProof'[n] = c
    /\ \/ Registered(n) /\ pairedWith'[n] = pairedWith[n]
       \/ /\ ~Registered(n) /\ pairedWith'[n] = c
          /\ kind'[n] = "remote_host" => credential'[c] \in {"spent", "pruned"}
    /\ \A m \in Nodes \ {n} :
          /\ lastProof'[m] = lastProof[m] /\ pairedWith'[m] = pairedWith[m]
          /\ Registered(m)' = Registered(m)

\* Every step records evidence for no node, or for one node from one challenge that was open.
LEMMA EvidenceMoves ==
    ASSUME TypeInv, GrantsOK, [Next]_vars
    PROVE  NoEvidence \/ \E n \in Nodes, c \in Challenges : Evidence(n, c)
<1>. USE DEF nodeVars, keyVars
<1>. DEFINE Goal == NoEvidence \/ \E n \in Nodes, c \in Challenges : Evidence(n, c)
<1>1. ASSUME UNCHANGED <<lastProof, pairedWith, pairingState>> PROVE Goal
    BY <1>1 DEF NoEvidence, Registered
<1>2. ASSUME NEW r \in Requests, RegisterResume(r)
      PROVE  Goal
    <2>1. PICK n \in Nodes, c \in Challenges :
             /\ n = req[r].node /\ c = req[r].chal /\ Registered(n)
             /\ challenge[c].state = "open" /\ challenge[c].node = None
             /\ challenge[c].kind = req[r].kind /\ kind[n] = req[r].kind
        BY <1>2 DEF RegisterResume, TypeInv, TypeOK, RequestShape, RequestState, GrantsOK, GrantOK
    <2>2. challenge'[c].state = "consumed" /\ SamePurpose(c)
        BY <1>2, <2>1, ConsumeEffect DEF RegisterResume, Consume, TypeInv
    <2>3. /\ UNCHANGED <<kind, pairingState, pairedWith>> /\ lastProof'[n] = c
          /\ \A m \in Nodes \ {n} : lastProof'[m] = lastProof[m]
        BY <1>2, <2>1 DEF RegisterResume, TypeInv, TypeOK
    <2>4. Evidence(n, c)
        BY <2>1, <2>2, <2>3 DEF Evidence, Registered
    <2>. QED BY <2>4
<1>3. ASSUME NEW r \in Requests, NEW n \in Nodes, RegisterInsert(r, n)
      PROVE  Goal
    <2>1. PICK c \in Challenges :
             /\ c = req[r].chal /\ ~Registered(n)
             /\ challenge[c].state = "open" /\ challenge[c].node = None
             /\ challenge[c].kind = req[r].kind
             /\ req[r].kind = "remote_host" => credential[c] \in {"spent", "pruned"}
        BY <1>3 DEF RegisterInsert, TypeInv, RequestShape, GrantsOK, GrantOK, Registered
    <2>2. challenge'[c].state = "consumed" /\ SamePurpose(c)
        BY <1>3, <2>1, ConsumeEffect DEF RegisterInsert, Consume, TypeInv
    <2>3. /\ kind'[n] = req[r].kind /\ pairingState'[n] = "paired" /\ lastProof'[n] = c /\ pairedWith'[n] = c
          /\ credential' = credential
          /\ \A m \in Nodes \ {n} : lastProof'[m] = lastProof[m] /\ pairedWith'[m] = pairedWith[m]
                                    /\ pairingState'[m] = pairingState[m]
        BY <1>3, <2>1 DEF RegisterInsert, TypeInv, TypeOK
    <2>4. Evidence(n, c)
        BY <2>1, <2>2, <2>3 DEF Evidence, Registered
    <2>. QED BY <2>4
<1>4. ASSUME NEW n \in Nodes, NEW c \in Challenges, NEW purpose, Registered(n),
             ChallengeAccepted(c, purpose, kind[n], n), Consume(c),
             lastProof' = [lastProof EXCEPT ![n] = c], UNCHANGED <<kind, pairingState, pairedWith>>
      PROVE  Goal
    <2>1. challenge'[c].state = "consumed" /\ SamePurpose(c)
        BY <1>4, ConsumeEffect DEF Consume, TypeInv
    <2>2. lastProof'[n] = c /\ \A m \in Nodes \ {n} : lastProof'[m] = lastProof[m]
        BY <1>4 DEF TypeInv, TypeOK
    <2>3. challenge[c].state = "open" /\ challenge[c].node = n /\ challenge[c].kind = kind'[n]
        BY <1>4 DEF ChallengeAccepted
    <2>4. Evidence(n, c)
        BY <1>4, <2>1, <2>2, <2>3 DEF Evidence, Registered
    <2>. QED BY <2>4
<1>5. ASSUME NEW r \in Requests, RecordProof(r)
      PROVE  Goal
    <2>1. req[r].node \in Nodes /\ req[r].chal \in Challenges /\ Registered(req[r].node)
        BY <1>5, NoneIsNoRow DEF RecordProof, TypeInv, RequestShape
    <2>. QED BY <1>4, <1>5, <2>1 DEF RecordProof
<1>6. ASSUME NEW n \in Nodes, NEW c \in Challenges, NEW s \in SigningKeys, NEW e \in EncryptionKeys,
             RotateKeys(n, c, s, e)
      PROVE  Goal
    BY <1>4, <1>6 DEF RotateKeys, Registered
<1>7. ASSUME NEW n \in Nodes, Revoke(n)
      PROVE  Goal
    <2>1. \A m \in Nodes : Registered(m)' = Registered(m)
        BY <1>7 DEF Revoke, TypeInv, TypeOK, Registered
    <2>. QED BY <1>7, <2>1 DEF Revoke, NoEvidence
<1>. HIDE DEF Goal
<1>8. ASSUME UNCHANGED vars PROVE Goal
    BY <1>1, <1>8 DEF vars
<1>9. ASSUME ChallengeStep PROVE Goal
    BY <1>1, <1>9 DEF ChallengeStep, OpenPairing, IssueExchangeCredential, OpenNodeChallenge, Expire, PruneCredentials
<1>10. ASSUME NEW r \in Requests, PairStep(r) \/ NodeStep(r)
       PROVE  Goal
    BY <1>1, <1>2, <1>3, <1>5, <1>10
       DEF PairStep, NodeStep, PairBegin, SpendExchangeCredential, CheckChallenge, ConsumeAndMatch, Abort, ProofBegin,
           RenameBegin, RenameCommit
<1>11. Goal
    BY <1>6, <1>7, <1>8, <1>9, <1>10 DEF Next, OwnerStep
<1>. QED BY <1>11 DEF Goal

\* The evidence of a registered node is challenges that were used for it.
LEMMA EvidenceUsed ==
    ASSUME TypeOK, ProofProvenance, NEW n \in Nodes, Registered(n)
    PROVE  /\ lastProof[n] \in Challenges /\ pairedWith[n] \in Challenges
           /\ challenge[lastProof[n]].state \in {"consumed", "pruned"}
           /\ challenge[pairedWith[n]].state \in {"consumed", "pruned"}
           /\ challenge[lastProof[n]].kind = kind[n] /\ challenge[pairedWith[n]].kind = kind[n]
           /\ challenge[lastProof[n]].node \in {n, None} /\ challenge[pairedWith[n]].node \in {n, None}
BY DEF TypeOK, ProofProvenance

\* Every step keeps the provenance of proof times and pairings, and what remote hosts spent.
LEMMA EvidenceStep ==
    ASSUME TypeInv, EvidenceInv, [Next]_vars
    PROVE  ProofProvenance' /\ RemoteHostSpentGrant'
<1>1. Steady /\ (NoEvidence \/ \E n \in Nodes, c \in Challenges : Evidence(n, c))
    BY SteadyStep, EvidenceMoves DEF EvidenceInv
<1>. DEFINE Used(n, c) == /\ challenge'[c].state \in {"consumed", "pruned"}
                          /\ challenge'[c].kind = kind'[n] /\ challenge'[c].node \in {n, None}
<1>2. ASSUME NEW n \in Nodes, Registered(n)
      PROVE  /\ lastProof[n] \in Challenges /\ pairedWith[n] \in Challenges
             /\ challenge[lastProof[n]].state # "open" /\ challenge[pairedWith[n]].state # "open"
             /\ Used(n, lastProof[n]) /\ Used(n, pairedWith[n])
    <2>1. /\ lastProof[n] \in Challenges /\ pairedWith[n] \in Challenges
          /\ challenge[lastProof[n]].state \in {"consumed", "pruned"}
          /\ challenge[pairedWith[n]].state \in {"consumed", "pruned"}
          /\ challenge[lastProof[n]].kind = kind[n] /\ challenge[pairedWith[n]].kind = kind[n]
          /\ challenge[lastProof[n]].node \in {n, None} /\ challenge[pairedWith[n]].node \in {n, None}
        BY <1>2, EvidenceUsed DEF TypeInv, EvidenceInv
    <2>. QED BY <1>1, <1>2, <2>1 DEF Steady, SamePurpose
<1>3. \A n, m \in Nodes : n # m /\ Registered(n) /\ Registered(m) =>
          {lastProof[n], pairedWith[n]} \cap {lastProof[m], pairedWith[m]} = {}
    BY DEF EvidenceInv, ProofProvenance
<1>4. \A n \in Nodes : Registered(n) /\ kind[n] = "remote_host" => credential[pairedWith[n]] \in {"spent", "pruned"}
    BY DEF EvidenceInv, RemoteHostSpentGrant
<1>5. None \notin Challenges
    BY NoneIsNoRow
<1>6. CASE NoEvidence
    <2>1. \A n \in Nodes : /\ lastProof'[n] = lastProof[n] /\ pairedWith'[n] = pairedWith[n]
                           /\ Registered(n)' = Registered(n)
        BY <1>6 DEF NoEvidence
    <2>2. ASSUME NEW n \in Nodes, Registered(n)'
          PROVE  /\ lastProof'[n] # None /\ pairedWith'[n] # None
                 /\ \A c \in {lastProof'[n], pairedWith'[n]} : Used(n, c)
        BY <1>2, <1>5, <2>1, <2>2
    <2>3. \A n, m \in Nodes : n # m /\ Registered(n)' /\ Registered(m)' =>
              {lastProof'[n], pairedWith'[n]} \cap {lastProof'[m], pairedWith'[m]} = {}
        BY <1>3, <2>1
    <2>4. \A n \in Nodes : Registered(n)' /\ kind'[n] = "remote_host" =>
              credential'[pairedWith'[n]] \in {"spent", "pruned"}
        BY <1>1, <1>2, <1>4, <2>1 DEF Steady
    <2>. QED BY <2>2, <2>3, <2>4 DEF ProofProvenance, RemoteHostSpentGrant
<1>7. ASSUME NEW n \in Nodes, NEW c \in Challenges, Evidence(n, c)
      PROVE  ProofProvenance' /\ RemoteHostSpentGrant'
    <2>1. Used(n, c) /\ lastProof'[n] = c /\ challenge[c].state = "open"
        BY <1>7 DEF Evidence, SamePurpose
    <2>2. (Registered(n) /\ pairedWith'[n] = pairedWith[n]) \/ pairedWith'[n] = c
        BY <1>7 DEF Evidence
    <2>3. \A m \in Nodes \ {n} : /\ lastProof'[m] = lastProof[m] /\ pairedWith'[m] = pairedWith[m]
                                 /\ Registered(m)' = Registered(m)
        BY <1>7 DEF Evidence
    <2>4. ASSUME NEW m \in Nodes, Registered(m)'
          PROVE  /\ lastProof'[m] # None /\ pairedWith'[m] # None
                 /\ \A d \in {lastProof'[m], pairedWith'[m]} : Used(m, d)
        <3>1. CASE m = n
            BY <1>2, <1>5, <2>1, <2>2, <3>1
        <3>2. CASE m # n
            BY <1>2, <1>5, <2>3, <2>4, <3>2
        <3>. QED BY <3>1, <3>2
    <2>5. ASSUME NEW m \in Nodes \ {n}, Registered(m)'
          PROVE  {lastProof'[n], pairedWith'[n]} \cap {lastProof'[m], pairedWith'[m]} = {}
        <3>1. Registered(m) /\ lastProof'[m] = lastProof[m] /\ pairedWith'[m] = pairedWith[m]
            BY <2>3, <2>5
        <3>2. c # lastProof[m] /\ c # pairedWith[m]
            BY <1>2, <2>1, <3>1
        <3>. QED BY <1>3, <2>1, <2>2, <3>1, <3>2
    <2>6. \A k, m \in Nodes : k # m /\ Registered(k)' /\ Registered(m)' =>
              {lastProof'[k], pairedWith'[k]} \cap {lastProof'[m], pairedWith'[m]} = {}
        <3>1. ASSUME NEW k \in Nodes \ {n}, NEW m \in Nodes \ {n}, k # m, Registered(k)', Registered(m)'
              PROVE  {lastProof'[k], pairedWith'[k]} \cap {lastProof'[m], pairedWith'[m]} = {}
            BY <1>3, <2>3, <3>1
        <3>. QED BY <2>5, <3>1
    <2>7. ASSUME NEW m \in Nodes, Registered(m)', kind'[m] = "remote_host"
          PROVE  credential'[pairedWith'[m]] \in {"spent", "pruned"}
        <3>1. ASSUME Registered(m), pairedWith'[m] = pairedWith[m]
              PROVE  credential'[pairedWith'[m]] \in {"spent", "pruned"}
            BY <1>1, <1>2, <1>4, <2>7, <3>1 DEF Steady
        <3>2. CASE m = n /\ ~Registered(n)
            BY <1>7, <2>7, <3>2 DEF Evidence
        <3>3. CASE m = n /\ Registered(n)
            BY <1>7, <3>1, <3>3 DEF Evidence
        <3>4. CASE m # n
            BY <2>3, <2>7, <3>1, <3>4
        <3>. QED BY <3>2, <3>3, <3>4
    <2>. QED BY <2>4, <2>6, <2>7 DEF ProofProvenance, RemoteHostSpentGrant
<1>. QED BY <1>1, <1>6, <1>7

-----------------------------------------------------------------------------
(***************************************************************************)
(* Names.                                                                  *)
(***************************************************************************)

\* A rename that is in progress was admitted by this step or was in progress before.
LEMMA RenamesStart ==
    ASSUME TypeInv, [Next]_vars, NEW r \in Requests, req'[r].pc = "renaming"
    PROVE  \/ req'[r] = req[r]
           \/ \E n \in Nodes, d \in Names : RenameBegin(r, n, d)
<1>1. ASSUME NEW q \in Requests, PairStep(q)
      PROVE  req'[r] = req[r]
    <2>1. \A p \in Requests \ {q} : req'[p] = req[p]
        BY <1>1 DEF PairStep, PairBegin, SpendExchangeCredential, CheckChallenge, ConsumeAndMatch, RegisterResume,
                    RegisterInsert, Abort, TypeInv, TypeOK
    <2>2. q # r
        <3>1. ASSUME SpendExchangeCredential(q) \/ CheckChallenge(q) PROVE req'[q].pc # "renaming"
            BY <3>1, StageEffect DEF SpendExchangeCredential, CheckChallenge, TypeInv
        <3>2. ASSUME ConsumeAndMatch(q) PROVE req'[q].pc # "renaming"
            BY <3>2, MatchEffect DEF ConsumeAndMatch, TypeInv
        <3>3. ASSUME NEW new, req' = [req EXCEPT ![q] = new], new.pc # "renaming" PROVE req'[q].pc # "renaming"
            BY <3>3 DEF TypeInv, TypeOK
        <3>4. ASSUME RegisterResume(q) \/ (\E n \in Nodes : RegisterInsert(q, n)) \/ Abort(q) PROVE req'[q].pc # "renaming"
            <4>1. req' = [req EXCEPT ![q] = NoRequest]
                BY <3>4 DEF RegisterResume, RegisterInsert, Abort
            <4>2. NoRequest.pc # "renaming"
                BY DEF NoRequest
            <4>. QED BY <3>3, <4>1, <4>2
        <3>5. ASSUME NEW c, NEW k, NEW s, NEW e, NEW cr, NEW d, PairBegin(q, c, k, s, e, cr, d)
              PROVE  req'[q].pc # "renaming"
            BY <3>3, <3>5 DEF PairBegin
        <3>. QED BY <1>1, <3>1, <3>2, <3>4, <3>5 DEF PairStep
    <2>. QED BY <2>1, <2>2
<1>2. ASSUME NEW q \in Requests, NodeStep(q)
      PROVE  req'[r] = req[r] \/ \E n \in Nodes, d \in Names : RenameBegin(r, n, d)
    <2>1. \A p \in Requests \ {q} : req'[p] = req[p]
        BY <1>2 DEF NodeStep, ProofBegin, RecordProof, RenameBegin, RenameCommit, TypeInv, TypeOK
    <2>2. ASSUME NEW new, req' = [req EXCEPT ![q] = new], new.pc # "renaming" PROVE q # r
        BY <2>2 DEF TypeInv, TypeOK
    <2>3. ASSUME RecordProof(q) \/ RenameCommit(q) PROVE q # r
        <3>1. req' = [req EXCEPT ![q] = NoRequest]
            BY <2>3 DEF RecordProof, RenameCommit
        <3>2. NoRequest.pc # "renaming"
            BY DEF NoRequest
        <3>. QED BY <2>2, <3>1, <3>2
    <2>4. ASSUME NEW n \in Nodes, NEW c \in Challenges, ProofBegin(q, n, c) PROVE q # r
        BY <2>2, <2>4 DEF ProofBegin, NoRequest
    <2>. QED BY <1>2, <2>1, <2>3, <2>4 DEF NodeStep
<1>3. ASSUME ChallengeStep \/ UNCHANGED vars \/ \E n \in Nodes : OwnerStep(n)
      PROVE  req'[r] = req[r]
    BY <1>3 DEF ChallengeStep, OpenPairing, IssueExchangeCredential, OpenNodeChallenge, Expire, PruneCredentials, vars,
                OwnerStep, RotateKeys, Revoke
<1>. QED BY <1>1, <1>2, <1>3 DEF Next

\* A registration names its node without the workspace's lock, and says so.
RegistrationNames ==
    \A n \in Nodes : /\ name'[n] = name[n] /\ nameSetBy'[n] = nameSetBy[n]
                     \/ nameSetBy'[n] = "registration"

\* Names change by registrations, and by the commit of a rename.
LEMMA NameMoves ==
    ASSUME TypeInv, [Next]_vars
    PROVE  RegistrationNames \/ \E r \in Requests : RenameCommit(r)
<1>1. ASSUME UNCHANGED <<name, nameSetBy>> PROVE RegistrationNames
    BY <1>1 DEF RegistrationNames
<1>2. ASSUME NEW r \in Requests, RegisterResume(r)
      PROVE  RegistrationNames
    BY <1>2 DEF RegisterResume, TypeInv, TypeOK, RegistrationNames
<1>3. ASSUME NEW r \in Requests, NEW n \in Nodes, RegisterInsert(r, n)
      PROVE  RegistrationNames
    BY <1>3 DEF RegisterInsert, TypeInv, TypeOK, RegistrationNames
<1>4. ASSUME NEW r \in Requests, PairStep(r)
      PROVE  RegistrationNames
    BY <1>1, <1>2, <1>3, <1>4
       DEF PairStep, PairBegin, SpendExchangeCredential, CheckChallenge, ConsumeAndMatch, Abort, nodeVars
<1>5. ASSUME NEW r \in Requests, NodeStep(r)
      PROVE  RegistrationNames \/ RenameCommit(r)
    BY <1>1, <1>5 DEF NodeStep, ProofBegin, RecordProof, RenameBegin, nodeVars
<1>6. ASSUME ChallengeStep \/ UNCHANGED vars \/ \E n \in Nodes : OwnerStep(n)
      PROVE  RegistrationNames
    BY <1>1, <1>6 DEF ChallengeStep, OpenPairing, IssueExchangeCredential, OpenNodeChallenge, Expire, PruneCredentials,
                      vars, OwnerStep, RotateKeys, Revoke, nodeVars
<1>. QED BY <1>4, <1>5, <1>6 DEF Next

\* Every step keeps renamed nodes apart.
LEMMA NamesStep ==
    ASSUME TypeInv, GrantsOK, ConsumersDistinct, NamesInv, [Next]_vars
    PROVE  NamesInv'
<1>1. \A n \in Nodes : Registered(n) => Registered(n)'
    BY SteadyStep DEF Steady
<1>2. \A r, q \in Requests : req'[r].pc = "renaming" /\ req'[q].pc = "renaming" => r = q
    <2>. SUFFICES ASSUME NEW r \in Requests, NEW q \in Requests, req'[r].pc = "renaming", req'[q].pc = "renaming", r # q
                  PROVE  FALSE
        OBVIOUS
    <2>1. CASE req'[r] = req[r] /\ req'[q] = req[q]
        BY <2>1 DEF NamesInv, RenamesOK
    <2>2. ASSUME NEW p \in Requests, NEW s \in Requests, p # s, NEW n \in Nodes, NEW d \in Names, RenameBegin(p, n, d),
                 req'[s].pc = "renaming"
          PROVE  FALSE
        <3>1. req'[s] = req[s] /\ req[s].pc # "renaming"
            BY <2>2 DEF RenameBegin, RenameLockFree, TypeInv, TypeOK
        <3>. QED BY <2>2, <3>1
    <2>3. (req'[r] = req[r] \/ \E n \in Nodes, d \in Names : RenameBegin(r, n, d))
          /\ (req'[q] = req[q] \/ \E n \in Nodes, d \in Names : RenameBegin(q, n, d))
        BY RenamesStart
    <2>. QED BY <2>1, <2>2, <2>3
<1>3. CASE RegistrationNames
    <2>1. \A n \in Nodes : nameSetBy'[n] = "rename" => nameSetBy[n] = "rename" /\ name'[n] = name[n]
        BY <1>3 DEF RegistrationNames
    <2>2. \A n \in Nodes : nameSetBy'[n] = "rename" => Registered(n)'
        BY <1>1, <2>1 DEF NamesInv, RenamesOK
    <2>3. RenamesStayDistinct'
        BY <2>1 DEF NamesInv, RenamesStayDistinct
    <2>4. ASSUME NEW r \in Requests, req'[r].pc = "renaming", NEW m \in Nodes \ {req'[r].node}, nameSetBy'[m] = "rename"
          PROVE  name'[m] # req'[r].name
        <3>1. CASE req'[r] = req[r]
            BY <2>1, <2>4, <3>1 DEF NamesInv, RenamesOK
        <3>2. ASSUME NEW n \in Nodes, NEW d \in Names, RenameBegin(r, n, d)
              PROVE  name'[m] # req'[r].name
            <4>. DEFINE new == [NoRequest EXCEPT !.pc = "renaming", !.node = n, !.name = d]
            <4>1. new.node = n /\ new.name = d
                BY DEF NoRequest
            <4>2. req'[r] = new
                BY <3>2 DEF RenameBegin, TypeInv, TypeOK
            <4>. HIDE DEF new
            <4>3. Registered(m)
                BY <2>1, <2>4 DEF NamesInv, RenamesOK
            <4>4. name[m] # d
                BY <2>4, <3>2, <4>1, <4>2, <4>3 DEF RenameBegin, Registered
            <4>. QED BY <2>1, <2>4, <4>1, <4>2, <4>4
        <3>. QED BY <2>4, <3>1, <3>2, RenamesStart
    <2>. QED BY <1>2, <2>2, <2>3, <2>4 DEF NamesInv, RenamesOK
<1>4. ASSUME NEW r \in Requests, RenameCommit(r)
      PROVE  NamesInv'
    <2>1. PICK n \in Nodes : n = req[r].node /\ Registered(n)
        BY <1>4, NoneIsNoRow DEF RenameCommit, TypeInv, RequestShape
    <2>2. /\ name'[n] = req[r].name /\ nameSetBy'[n] = "rename"
          /\ \A m \in Nodes \ {n} : name'[m] = name[m] /\ nameSetBy'[m] = nameSetBy[m]
        BY <1>4, <2>1 DEF RenameCommit, TypeInv, TypeOK
    <2>3. \A m \in Nodes \ {n} : nameSetBy[m] = "rename" => name[m] # req[r].name
        BY <1>4, <2>1 DEF RenameCommit, NamesInv, RenamesOK
    <2>4. \A m \in Nodes : nameSetBy'[m] = "rename" => Registered(m)'
        BY <1>1, <2>1, <2>2 DEF NamesInv, RenamesOK
    <2>5. RenamesStayDistinct'
        BY <2>2, <2>3 DEF NamesInv, RenamesStayDistinct
    <2>6. \A q \in Requests : req'[q].pc # "renaming"
        <3>1. req'[r].pc = "idle" /\ \A q \in Requests \ {r} : req'[q] = req[q]
            BY <1>4 DEF RenameCommit, NoRequest, TypeInv, TypeOK
        <3>2. \A q \in Requests \ {r} : req[q].pc # "renaming"
            BY <1>4 DEF RenameCommit, NamesInv, RenamesOK
        <3>. QED BY <3>1, <3>2
    <2>. QED BY <2>4, <2>5, <2>6 DEF NamesInv, RenamesOK
<1>. QED BY <1>3, <1>4, NameMoves

-----------------------------------------------------------------------------
(***************************************************************************)
(* The theorems.                                                           *)
(***************************************************************************)
FullInv == Inv /\ EvidenceInv /\ NamesInv

\* The empty tables satisfy the invariant.
LEMMA InitFullInv == Init => FullInv
<1>. SUFFICES ASSUME Init PROVE FullInv
    OBVIOUS
<1>1. Inv
    BY InitInv
<1>2. \A r \in Requests : req[r].pc = "idle"
    BY DEF Init, NoRequest
<1>3. \A n \in Nodes : ~Registered(n) /\ nameSetBy[n] = "registration"
    BY DEF Init, Registered
<1>4. GrantsOK /\ ConsumersDistinct
    BY <1>2 DEF GrantsOK, GrantOK, ConsumersDistinct
<1>5. ProofProvenance /\ RemoteHostSpentGrant
    BY <1>3 DEF ProofProvenance, RemoteHostSpentGrant
<1>6. RenamesOK /\ RenamesStayDistinct
    BY <1>2, <1>3 DEF RenamesOK, RenamesStayDistinct
<1>. QED BY <1>1, <1>4, <1>5, <1>6 DEF FullInv, EvidenceInv, NamesInv

\* Every step keeps the invariant.
LEMMA FullInvStep == FullInv /\ [Next]_vars => FullInv'
BY InvStep, GrantStep, EvidenceStep, NamesStep DEF FullInv, Inv, EvidenceInv

\* The invariant holds in every reachable state.
THEOREM FullInvariant == Spec => []FullInv
BY InitFullInv, FullInvStep, PTL DEF Spec

\* Every proof time and pairing on record comes from a challenge consumed for that very node, and
\* no challenge is behind those of two nodes, for any number of nodes, challenges and requests.
THEOREM ProvenanceOfProofs == Spec => []ProofProvenance
<1>1. FullInv => ProofProvenance
    BY DEF FullInv, EvidenceInv
<1>. QED BY FullInvariant, <1>1, PTL

\* A remote host on record was paired with a challenge whose one-time credential is spent.
THEOREM GrantSpent == Spec => []RemoteHostSpentGrant
<1>1. FullInv => RemoteHostSpentGrant
    BY DEF FullInv, EvidenceInv
<1>. QED BY FullInvariant, <1>1, PTL

\* Two renames never leave two nodes with one name, whatever registrations come between the
\* check of a rename and its commit.
THEOREM RenamesDistinct == Spec => []RenamesStayDistinct
<1>1. FullInv => RenamesStayDistinct
    BY DEF FullInv, NamesInv
<1>. QED BY FullInvariant, <1>1, PTL

\* Revocation is permanent, and a revoked node's proof time and keys change only through a resume
\* that had matched the node before the revocation committed.
THEOREM RevocationFinal == Spec => RevocationStopsNewRequests
<1>. DEFINE Stops == \A n \in Nodes : pairingState[n] = "revoked" =>
         /\ pairingState'[n] = "revoked"
         /\ \/ lastProof'[n] = lastProof[n] /\ keyState'[n] = keyState[n]
            \/ \E r \in Requests : req[r].pc = "consuming" /\ req[r].node = n
         /\ \A r \in Requests : req'[r].pc = "consuming" /\ req'[r].node = n =>
               req[r] = req'[r]
<1>1. ASSUME FullInv, [Next]_vars PROVE Stops
    <2>0. TypeInv
        BY <1>1 DEF FullInv, Inv
    <2>. SUFFICES ASSUME NEW n \in Nodes, pairingState[n] = "revoked"
                  PROVE  /\ pairingState'[n] = "revoked"
                         /\ \/ lastProof'[n] = lastProof[n] /\ keyState'[n] = keyState[n]
                            \/ \E r \in Requests : req[r].pc = "consuming" /\ req[r].node = n
                         /\ \A r \in Requests : req'[r].pc = "consuming" /\ req'[r].node = n => req[r] = req'[r]
        OBVIOUS
    <2>. DEFINE Kept == \/ lastProof'[n] = lastProof[n] /\ keyState'[n] = keyState[n]
                        \/ \E r \in Requests : req[r].pc = "consuming" /\ req[r].node = n
                Left == pairingState'[n] = "revoked" /\ Kept
    <2>1. \A r \in Requests : req'[r].pc = "consuming" /\ req'[r].node = n => req[r] = req'[r]
        BY <1>1, <2>0, RequestMoves, NoneIsNoRow DEF RequestMove, NotRevoked
    <2>2. ASSUME UNCHANGED <<pairingState, lastProof, keyState>> PROVE Left
        BY <2>2
    <2>3. ASSUME NEW r \in Requests, RegisterResume(r) PROVE Left
        <3>1. UNCHANGED pairingState /\ req[r].pc = "consuming"
            BY <2>3 DEF RegisterResume
        <3>2. req[r].node # n => lastProof'[n] = lastProof[n] /\ keyState'[n] = keyState[n]
            BY <2>0, <2>3 DEF RegisterResume, UpsertVerifiedKeys, TypeInv, TypeOK
        <3>. QED BY <3>1, <3>2
    <2>4. ASSUME NEW r \in Requests, NEW m \in Nodes, RegisterInsert(r, m) PROVE Left
        <3>1. m # n
            BY <2>4 DEF RegisterInsert
        <3>. QED BY <2>0, <2>4, <3>1 DEF RegisterInsert, UpsertVerifiedKeys, TypeInv, TypeOK
    <2>5. ASSUME NEW r \in Requests, RecordProof(r) PROVE Left
        <3>1. req[r].node # n
            BY <2>5 DEF RecordProof, NotRevoked
        <3>. QED BY <2>0, <2>5, <3>1 DEF RecordProof, keyVars, TypeInv, TypeOK
    <2>6. ASSUME NEW m \in Nodes, OwnerStep(m) PROVE Left
        <3>1. m # n
            BY <2>6 DEF OwnerStep, RotateKeys, Revoke, NotRevoked
        <3>. QED BY <2>0, <2>6, <3>1 DEF OwnerStep, RotateKeys, Revoke, UpsertVerifiedKeys, keyVars, TypeInv, TypeOK
    <2>. HIDE DEF Left
    <2>7. ASSUME ChallengeStep \/ UNCHANGED vars PROVE Left
        BY <2>2, <2>7 DEF ChallengeStep, OpenPairing, IssueExchangeCredential, OpenNodeChallenge, Expire,
                          PruneCredentials, vars, nodeVars, keyVars
    <2>8. ASSUME NEW r \in Requests, PairStep(r) \/ NodeStep(r) PROVE Left
        BY <2>2, <2>3, <2>4, <2>5, <2>8
           DEF PairStep, NodeStep, PairBegin, SpendExchangeCredential, CheckChallenge, ConsumeAndMatch, Abort,
               ProofBegin, RenameBegin, RenameCommit, nodeVars, keyVars
    <2>9. Left
        BY <1>1, <2>6, <2>7, <2>8 DEF Next
    <2>. QED BY <2>1, <2>9 DEF Left
<1>2. FullInv /\ [Next]_vars => [Stops]_vars
    BY <1>1
<1>. QED BY FullInvariant, <1>2, PTL DEF Spec, RevocationStopsNewRequests

=============================================================================
