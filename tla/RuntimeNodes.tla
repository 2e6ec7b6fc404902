---------------------------- MODULE RuntimeNodes ----------------------------
(***************************************************************************)
(* Identity of the machines that belong to one workspace: pairing,         *)
(* resuming, liveness proofs, key rotation, renaming and revocation        *)
(* (packages/db/src/runtime-nodes.ts and the runtime-nodes routes of the   *)
(* web server).                                                            *)
(*                                                                         *)
(* The state is the four database tables plus the local state of the       *)
(* requests being served.  A request runs READ COMMITTED transactions: a   *)
(* statement sees what has committed, an UPDATE or SELECT FOR UPDATE waits *)
(* for the row's lock, and the locks go when the transaction ends.  A      *)
(* handler whose every statement runs under the node's row lock is one     *)
(* action; the handlers that read first and lock later (pairing, proving,  *)
(* renaming) are split at the points where another transaction can commit. *)
(***************************************************************************)
EXTENDS Naturals, FiniteSets

CONSTANTS
    Nodes,            \* identifiers of runtime_nodes rows
    SigningKeys,      \* fingerprints of Ed25519 public keys
    EncryptionKeys,   \* fingerprints of X25519 public keys
    Challenges,       \* identifiers of runtime_node_challenges rows
    Requests,         \* HTTP requests being served at the same time
    Names,            \* display names, up to letter case
    Kinds,            \* kinds of node the requests ask for
    None              \* SQL NULL / no row

ASSUME KeysDisjoint == SigningKeys \cap EncryptionKeys = {}
ASSUME NoneIsNoRow ==
    None \notin Nodes \cup SigningKeys \cup EncryptionKeys \cup Challenges \cup Names
                 \cup {"local_device", "remote_host"}

ASSUME KindsKnown == Kinds \subseteq {"local_device", "remote_host"}

Purposes == {"pair", "rotate", "proof"}
Roles == {"signing", "command_encryption"}
KeysOf(role) == IF role = "signing" THEN SigningKeys ELSE EncryptionKeys
Keys == SigningKeys \cup EncryptionKeys

VARIABLES
    pairingState,  \* Nodes -> "absent", "paired" or "revoked"
    kind,          \* Nodes -> kind fixed when the row is inserted
    name,          \* Nodes -> display name
    nameSetBy,     \* Nodes -> which operation set the name last
    pairedWith,    \* Nodes -> challenge named by the row's paired event
    lastProof,     \* Nodes -> challenge that last refreshed last_proof_at
    keyState,      \* Nodes -> Keys -> "none", "active" or "retired"
    keyVersion,    \* Nodes -> Keys -> key_version
    challenge,     \* Challenges -> the challenge row
    credential,    \* Challenges -> state of the exchange credential issued with it
    req            \* Requests -> local state of the request

vars == <<pairingState, kind, name, nameSetBy, pairedWith, lastProof,
          keyState, keyVersion, challenge, credential, req>>

nodeVars == <<pairingState, kind, name, nameSetBy, pairedWith, lastProof>>
keyVars == <<keyState, keyVersion>>

(***************************************************************************)
(* Rows and local states.                                                  *)
(***************************************************************************)
ChallengeRow ==
    [state : {"none", "open", "consumed", "pruned"},
     purpose : Purposes, kind : Kinds \cup {None}, node : Nodes \cup {None},
     expired : BOOLEAN]

NoChallenge ==
    [state |-> "none", purpose |-> "pair", kind |-> None,
     node |-> None, expired |-> FALSE]

CredentialStates == {"none", "issued", "expired", "spent", "pruned"}

\* pc: "verified"   signature checked, no state changed yet
\*     "granted"    a remote_host's exchange credential is spent (committed)
\*     "checked"    registration transaction: challenge read and accepted
\*     "consuming"  challenge updated, not committed: its row lock is held
\*     "proving"    liveness proof verified against the key read as active
\*     "renaming"   advisory lock and node lock held, no clash found
RequestState ==
    [pc : {"idle", "verified", "granted", "checked", "consuming", "proving", "renaming"},
     chal : Challenges \cup {None}, cred : Challenges \cup {None},
     kind : Kinds \cup {None}, sig : SigningKeys \cup {None}, enc : EncryptionKeys \cup {None},
     name : Names \cup {None}, node : Nodes \cup {None}]

NoRequest ==
    [pc |-> "idle", chal |-> None, cred |-> None, kind |-> None,
     sig |-> None, enc |-> None, name |-> None, node |-> None]

(***************************************************************************)
(* Locks.  A challenge row is locked from the consuming UPDATE of a        *)
(* registration to the end of its transaction; a rename holds the          *)
(* workspace's advisory lock and its node's row lock while it checks the   *)
(* name.  Every other lock is taken and released within one action.        *)
(***************************************************************************)
ChallengeLocked(c) == \E r \in Requests : req[r].pc = "consuming" /\ req[r].chal = c
NodeLocked(n) == \E r \in Requests : req[r].pc = "renaming" /\ req[r].node = n

\* Mutant: no advisory lock around the renames of a workspace.
RenamesUnlocked == TRUE

RenameLockFree == \A r \in Requests : req[r].pc # "renaming"

\* Mutant: the challenge is not compared with the node it was opened for.
ChallengeAcceptedAnyNode(c, purpose, k, n) ==
    /\ challenge[c].state = "open"
    /\ challenge[c].purpose = purpose
    /\ challenge[c].kind = k
    /\ ~challenge[c].expired

\* The checks consumeRuntimeNodeChallenge makes on the row it has read.
ChallengeAccepted(c, purpose, k, n) ==
    /\ challenge[c].state = "open"
    /\ challenge[c].purpose = purpose
    /\ challenge[c].kind = k
    /\ challenge[c].node = n
    /\ ~challenge[c].expired

\* Mutant: the consuming UPDATE has no consumed_at IS NULL test.
AnyChallengeRow(c) == challenge[c].state \in {"open", "consumed"}

\* The WHERE clause of the consuming UPDATE, evaluated once the lock is held.
StillUnconsumed(c) == challenge[c].state = "open"

\* Mutant: the row is marked with a value of the credential table.
ConsumeAsSpent(c) == challenge' = [challenge EXCEPT ![c].state = "spent"]

Consume(c) == challenge' = [challenge EXCEPT ![c].state = "consumed"]

\* Mutant: the pairing state is not looked at.
RevokedToo(n) == TRUE

\* The refusal of a revoked node by every operation that acts on one.
NotRevoked(n) == pairingState[n] # "revoked"

(***************************************************************************)
(* Keys.  Current is the active row of a role with the greatest version;   *)
(* storing a key refreshes it when it is the current one, and otherwise    *)
(* inserts it one version up and then retires the current one.  The        *)
(* (node, fingerprint) unique index refuses a fingerprint stored before.   *)
(***************************************************************************)
ActiveKeys(n, role) == {k \in KeysOf(role) : keyState[n][k] = "active"}

Current(n, role) ==
    IF ActiveKeys(n, role) = {} THEN None
    ELSE CHOOSE k \in ActiveKeys(n, role) :
             \A j \in ActiveKeys(n, role) : keyVersion[n][j] <= keyVersion[n][k]

\* Mutant: no unique index on (node, fingerprint).
CanStoreAgain(n, role, k) == TRUE

CanStore(n, role, k) == k = Current(n, role) \/ keyState[n][k] = "none"

\* Mutant: the replacement takes the version of the key it replaces.
SameVersion(n, role) ==
    IF Current(n, role) = None THEN 1 ELSE keyVersion[n][Current(n, role)]

NextVersion(n, role) ==
    IF Current(n, role) = None THEN 1 ELSE keyVersion[n][Current(n, role)] + 1

\* Mutant: the previous key is not retired.
StoredNotRetired(n, s, e) ==
    [k \in Keys |-> IF k \in {s, e} THEN "active" ELSE keyState[n][k]]

StoredState(n, s, e) ==
    [k \in Keys |->
        IF k \in {s, e} THEN "active"
        ELSE IF k \in {Current(n, "signing"), Current(n, "command_encryption")} THEN "retired"
        ELSE keyState[n][k]]

StoredVersion(n, s, e) ==
    [k \in Keys |->
        IF k = s /\ s # Current(n, "signing") THEN NextVersion(n, "signing")
        ELSE IF k = e /\ e # Current(n, "command_encryption")
             THEN NextVersion(n, "command_encryption")
        ELSE keyVersion[n][k]]

UpsertVerifiedKeys(n, s, e) ==
    /\ CanStore(n, "signing", s)
    /\ CanStore(n, "command_encryption", e)
    /\ keyState' = [keyState EXCEPT ![n] = StoredState(n, s, e)]
    /\ keyVersion' = [keyVersion EXCEPT ![n] = StoredVersion(n, s, e)]

(***************************************************************************)
(* Opening challenges.                                                     *)
(***************************************************************************)
CreateChallenge(c, purpose, k, n) ==
    /\ challenge[c].state = "none"
    /\ challenge' = [challenge EXCEPT ![c] =
          [state |-> "open", purpose |-> purpose, kind |-> k, node |-> n, expired |-> FALSE]]

\* POST .../runtime-nodes: a pairing challenge for a kind.
OpenPairing(c, k) ==
    /\ CreateChallenge(c, "pair", k, None)
    /\ UNCHANGED <<nodeVars, keyVars, credential, req>>

\* The second insert of the same handler, for a remote_host only.
IssueExchangeCredential(c) ==
    /\ challenge[c].state = "open" /\ challenge[c].purpose = "pair"
    /\ challenge[c].kind = "remote_host"
    /\ credential[c] = "none"
    /\ credential' = [credential EXCEPT ![c] = "issued"]
    /\ UNCHANGED <<nodeVars, keyVars, challenge, req>>

\* POST .../:runtimeNodeId/challenges: refused for a revoked node.
OpenNodeChallenge(c, n, purpose) ==
    /\ pairingState[n] = "paired"
    /\ CreateChallenge(c, purpose, kind[n], n)
    /\ UNCHANGED <<nodeVars, keyVars, credential, req>>

\* The clock passes expires_at.  A credential is inserted after its challenge
\* with the same lifetime, so it expires after it.
Expire(c) ==
    /\ \/ /\ challenge[c].state \in {"open", "consumed"} /\ ~challenge[c].expired
          /\ challenge' = [challenge EXCEPT ![c].expired = TRUE]
          /\ UNCHANGED credential
       \/ /\ challenge[c].expired /\ credential[c] = "issued"
          /\ credential' = [credential EXCEPT ![c] = "expired"]
          /\ UNCHANGED challenge
    /\ UNCHANGED <<nodeVars, keyVars, req>>

\* Retention deletes an expired challenge, which cascades to its credential;
\* the delete waits for a row lock.  Stale credentials, spent or not, go first.
PruneCredentials(c) ==
    /\ \/ /\ credential[c] = "expired" \/ (credential[c] = "spent" /\ challenge[c].expired)
          /\ credential' = [credential EXCEPT ![c] = "pruned"]
          /\ UNCHANGED challenge
       \/ /\ challenge[c].state \in {"open", "consumed"} /\ challenge[c].expired
          /\ ~ChallengeLocked(c)
          /\ challenge' = [challenge EXCEPT ![c].state = "pruned"]
          /\ credential' = [credential EXCEPT ![c] = "pruned"]
    /\ UNCHANGED <<nodeVars, keyVars, req>>

(***************************************************************************)
(* Pairing: verify, spend the exchange credential, register.               *)
(***************************************************************************)

\* The pair route found the challenge row and the signature verifies against
\* the presented signing key.  A remote_host presents a credential.
PairBegin(r, c, k, s, e, cr, d) ==
    /\ req[r].pc = "idle"
    /\ challenge[c].state \in {"open", "consumed"}
    /\ (cr # None) <=> (k = "remote_host")
    /\ req' = [req EXCEPT ![r] =
          [pc |-> "verified", chal |-> c, cred |-> cr, kind |-> k,
           sig |-> s, enc |-> e, name |-> d, node |-> None]]
    /\ UNCHANGED <<nodeVars, keyVars, challenge, credential>>

\* The credential transaction of completeRuntimeNodeRegistration commits.
SpendExchangeCredential(r) ==
    /\ req[r].pc = "verified" /\ req[r].kind = "remote_host"
    /\ credential[req[r].cred] = "issued"
    /\ req[r].cred = req[r].chal
    /\ credential' = [credential EXCEPT ![req[r].cred] = "spent"]
    /\ req' = [req EXCEPT ![r].pc = "granted"]
    /\ UNCHANGED <<nodeVars, keyVars, challenge>>

\* Mutant: a remote_host registers without spending its credential.
GrantSkipped(r) == "verified"

\* Where a pairing stands when its registration transaction may begin.
GrantSettled(r) == IF req[r].kind = "remote_host" THEN "granted" ELSE "verified"

\* Registration transaction: the challenge is read and accepted.
CheckChallenge(r) ==
    /\ req[r].pc = GrantSettled(r)
    /\ ChallengeAccepted(req[r].chal, "pair", req[r].kind, None)
    /\ req' = [req EXCEPT ![r].pc = "checked"]
    /\ UNCHANGED <<nodeVars, keyVars, challenge, credential>>

\* Rows matched by the active signing fingerprint, within workspace and kind.
Matching(r) ==
    {n \in Nodes : /\ pairingState[n] # "absent"
                   /\ kind[n] = req[r].kind
                   /\ keyState[n][req[r].sig] = "active"}

\* UPDATE ... WHERE consumed_at IS NULL takes the challenge row, then the
\* matching node is looked up without a lock; a revoked one is refused.
ConsumeAndMatch(r) ==
    /\ req[r].pc = "checked"
    /\ ~ChallengeLocked(req[r].chal)
    /\ StillUnconsumed(req[r].chal)
    /\ \E n \in IF Matching(r) = {} THEN {None} ELSE Matching(r) :
          /\ n # None => NotRevoked(n)
          /\ req' = [req EXCEPT ![r].pc = "consuming", ![r].node = n]
    /\ UNCHANGED <<nodeVars, keyVars, challenge, credential>>

\* The matched node is updated (waiting for its row lock), its keys stored,
\* and the transaction commits.
RegisterResume(r) ==
    LET n == req[r].node IN
    /\ req[r].pc = "consuming" /\ n # None
    /\ ~NodeLocked(n)
    /\ UpsertVerifiedKeys(n, req[r].sig, req[r].enc)
    /\ name' = [name EXCEPT ![n] = req[r].name]
    /\ nameSetBy' = [nameSetBy EXCEPT ![n] = "registration"]
    /\ lastProof' = [lastProof EXCEPT ![n] = req[r].chal]
    /\ Consume(req[r].chal)
    /\ req' = [req EXCEPT ![r] = NoRequest]
    /\ UNCHANGED <<pairingState, kind, pairedWith, credential>>

\* No match: a new row is inserted with both keys, and the transaction commits.
RegisterInsert(r, n) ==
    /\ req[r].pc = "consuming" /\ req[r].node = None
    /\ pairingState[n] = "absent"
    /\ UpsertVerifiedKeys(n, req[r].sig, req[r].enc)
    /\ pairingState' = [pairingState EXCEPT ![n] = "paired"]
    /\ kind' = [kind EXCEPT ![n] = req[r].kind]
    /\ name' = [name EXCEPT ![n] = req[r].name]
    /\ nameSetBy' = [nameSetBy EXCEPT ![n] = "registration"]
    /\ pairedWith' = [pairedWith EXCEPT ![n] = req[r].chal]
    /\ lastProof' = [lastProof EXCEPT ![n] = req[r].chal]
    /\ Consume(req[r].chal)
    /\ req' = [req EXCEPT ![r] = NoRequest]
    /\ UNCHANGED credential

\* A refusal, a unique violation, a lost connection or a crash: the open
\* transaction rolls back; what committed before stays.
Abort(r) ==
    /\ req[r].pc # "idle"
    /\ req' = [req EXCEPT ![r] = NoRequest]
    /\ UNCHANGED <<nodeVars, keyVars, challenge, credential>>

(***************************************************************************)
(* Proofs, rotation, revocation and renaming of a registered node.         *)
(***************************************************************************)

\* The proof route reads the active signing key of an eligible node and
\* verifies the signature with it, outside any transaction.
ProofBegin(r, n, c) ==
    /\ req[r].pc = "idle"
    /\ pairingState[n] = "paired"
    /\ ActiveKeys(n, "signing") # {}
    /\ challenge[c].state \in {"open", "consumed"}
    /\ req' = [req EXCEPT ![r] =
          [NoRequest EXCEPT !.pc = "proving", !.chal = c, !.node = n]]
    /\ UNCHANGED <<nodeVars, keyVars, challenge, credential>>

RecordProof(r) ==
    LET n == req[r].node IN
    /\ req[r].pc = "proving"
    /\ ~NodeLocked(n)
    /\ NotRevoked(n)
    /\ ChallengeAccepted(req[r].chal, "proof", kind[n], n)
    /\ Consume(req[r].chal)
    /\ lastProof' = [lastProof EXCEPT ![n] = req[r].chal]
    /\ req' = [req EXCEPT ![r] = NoRequest]
    /\ UNCHANGED <<pairingState, kind, name, nameSetBy, pairedWith, keyVars, credential>>

\* Signed by the presented signing key; every statement is under the node's lock.
RotateKeys(n, c, s, e) ==
    /\ pairingState[n] # "absent" /\ NotRevoked(n)
    /\ ~NodeLocked(n)
    /\ ChallengeAccepted(c, "rotate", kind[n], n)
    /\ Consume(c)
    /\ UpsertVerifiedKeys(n, s, e)
    /\ lastProof' = [lastProof EXCEPT ![n] = c]
    /\ UNCHANGED <<pairingState, kind, name, nameSetBy, pairedWith, credential, req>>

Revoke(n) ==
    /\ pairingState[n] = "paired"
    /\ ~NodeLocked(n)
    /\ pairingState' = [pairingState EXCEPT ![n] = "revoked"]
    /\ UNCHANGED <<kind, name, nameSetBy, pairedWith, lastProof, keyVars, challenge,
                   credential, req>>

\* The rename holds the workspace's advisory lock and the node's row lock, and
\* has found no other node with the name, letter case aside; registrations do
\* not take the lock.
RenameBegin(r, n, d) ==
    /\ req[r].pc = "idle"
    /\ RenameLockFree
    /\ pairingState[n] = "paired"
    /\ \A m \in Nodes \ {n} : pairingState[m] # "absent" => name[m] # d
    /\ req' = [req EXCEPT ![r] =
          [NoRequest EXCEPT !.pc = "renaming", !.node = n, !.name = d]]
    /\ UNCHANGED <<nodeVars, keyVars, challenge, credential>>

RenameCommit(r) ==
    /\ req[r].pc = "renaming"
    /\ name' = [name EXCEPT ![req[r].node] = req[r].name]
    /\ nameSetBy' = [nameSetBy EXCEPT ![req[r].node] = "rename"]
    /\ req' = [req EXCEPT ![r] = NoRequest]
    /\ UNCHANGED <<pairingState, kind, pairedWith, lastProof, keyVars, challenge, credential>>

-----------------------------------------------------------------------------
Init ==
    /\ pairingState = [n \in Nodes |-> "absent"]
    /\ kind = [n \in Nodes |-> None]
    /\ name = [n \in Nodes |-> None]
    /\ nameSetBy = [n \in Nodes |-> "registration"]
    /\ pairedWith = [n \in Nodes |-> None]
    /\ lastProof = [n \in Nodes |-> None]
    /\ keyState = [n \in Nodes |-> [k \in Keys |-> "none"]]
    /\ keyVersion = [n \in Nodes |-> [k \in Keys |-> 0]]
    /\ challenge = [c \in Challenges |-> NoChallenge]
    /\ credential = [c \in Challenges |-> "none"]
    /\ req = [r \in Requests |-> NoRequest]

ChallengeStep ==
    \E c \in Challenges :
        \/ \E k \in Kinds : OpenPairing(c, k)
        \/ IssueExchangeCredential(c)
        \/ \E n \in Nodes, p \in {"rotate", "proof"} : OpenNodeChallenge(c, n, p)
        \/ Expire(c)
        \/ PruneCredentials(c)

PairStep(r) ==
    \/ \E c \in Challenges, k \in Kinds, s \in SigningKeys, e \in EncryptionKeys,
          cr \in Challenges \cup {None}, d \in Names : PairBegin(r, c, k, s, e, cr, d)
    \/ SpendExchangeCredential(r)
    \/ CheckChallenge(r)
    \/ ConsumeAndMatch(r)
    \/ RegisterResume(r)
    \/ \E n \in Nodes : RegisterInsert(r, n)
    \/ Abort(r)

NodeStep(r) ==
    \/ \E n \in Nodes, c \in Challenges : ProofBegin(r, n, c)
    \/ RecordProof(r)
    \/ \E n \in Nodes, d \in Names : RenameBegin(r, n, d)
    \/ RenameCommit(r)

OwnerStep(n) ==
    \/ \E c \in Challenges, s \in SigningKeys, e \in EncryptionKeys : RotateKeys(n, c, s, e)
    \/ Revoke(n)

Next ==
    \/ ChallengeStep
    \/ \E r \in Requests : PairStep(r) \/ NodeStep(r)
    \/ \E n \in Nodes : OwnerStep(n)

Spec == Init /\ [][Next]_vars

-----------------------------------------------------------------------------
(***************************************************************************)
(* Properties.                                                             *)
(***************************************************************************)
Registered(n) == pairingState[n] # "absent"

\* Every variable holds rows of its table.
TypeOK ==
    /\ pairingState \in [Nodes -> {"absent", "paired", "revoked"}]
    /\ kind \in [Nodes -> Kinds \cup {None}]
    /\ name \in [Nodes -> Names \cup {None}]
    /\ nameSetBy \in [Nodes -> {"registration", "rename"}]
    /\ pairedWith \in [Nodes -> Challenges \cup {None}]
    /\ lastProof \in [Nodes -> Challenges \cup {None}]
    /\ keyState \in [Nodes -> [Keys -> {"none", "active", "retired"}]]
    /\ keyVersion \in [Nodes -> [Keys -> Nat]]
    /\ challenge \in [Challenges -> ChallengeRow]
    /\ credential \in [Challenges -> CredentialStates]
    /\ req \in [Requests -> RequestState]

\* However pairings, resumes and rotations interleave, a registered node has
\* exactly one active key of each role: a resume that matched a node before a
\* rotation committed cannot leave the rotated-out key active beside the new
\* one (upsertVerifiedKeys; "a node never has two active signing keys").
OneActiveKeyPerRole ==
    \A n \in Nodes, role \in Roles :
        IF Registered(n) THEN \E k \in KeysOf(role) : ActiveKeys(n, role) = {k}
        ELSE ActiveKeys(n, role) = {}

\* Versions tell the history of a role: the active key is newer than every
\* retired one and no two stored keys share a version, so the (node, role,
\* version) unique index never refuses a rotation.
VersionsOrdered ==
    \A n \in Nodes, role \in Roles : \A j, k \in KeysOf(role) :
        /\ keyState[n][j] = "retired" /\ keyState[n][k] = "active"
              => keyVersion[n][j] < keyVersion[n][k]
        /\ j # k /\ keyState[n][j] # "none" /\ keyState[n][k] # "none"
              => keyVersion[n][j] # keyVersion[n][k]

\* Every proof time on record comes from a challenge consumed for this very
\* node: opened for it, or the pairing challenge of its kind; and no challenge
\* is behind the proof times, or the pairings, of two nodes
\* (consumeRuntimeNodeChallenge: "Consume a challenge exactly once").
ProofProvenance ==
    /\ \A n \in Nodes : Registered(n) =>
          /\ lastProof[n] # None /\ pairedWith[n] # None
          /\ \A c \in {lastProof[n], pairedWith[n]} :
                /\ challenge[c].state \in {"consumed", "pruned"}
                /\ challenge[c].kind = kind[n]
                /\ challenge[c].node \in {n, None}
    /\ \A n, m \in Nodes : n # m /\ Registered(n) /\ Registered(m) =>
          {lastProof[n], pairedWith[n]} \cap {lastProof[m], pairedWith[m]} = {}

\* A remote_host on record was paired with a challenge whose one-time exchange
\* credential is spent (or deleted since by retention), so one grant never
\* registers two hosts (completeRuntimeNodeRegistration).
RemoteHostSpentGrant ==
    \A n \in Nodes :
        Registered(n) /\ kind[n] = "remote_host" =>
            credential[pairedWith[n]] \in {"spent", "pruned"}

\* Two renames never leave two nodes of the workspace with one name; only a
\* registration or a resume can take a name in use (renameRuntimeNode).
RenamesStayDistinct ==
    \A n, m \in Nodes :
        n # m /\ nameSetBy[n] = "rename" /\ nameSetBy[m] = "rename" => name[n] # name[m]

\* A retired key is never active again, whatever stale request presents it.
RetiredForever ==
    [][\A n \in Nodes, k \in Keys :
         keyState[n][k] = "retired" => keyState'[n][k] = "retired"]_vars

\* Revocation is permanent, and after it a node's proof time and keys change
\* only through a resume that had matched the node before the revocation
\* committed: every later pairing, proof or rotation is refused.
RevocationStopsNewRequests ==
    [][\A n \in Nodes : pairingState[n] = "revoked" =>
         /\ pairingState'[n] = "revoked"
         /\ \/ lastProof'[n] = lastProof[n] /\ keyState'[n] = keyState[n]
            \/ \E r \in Requests : req[r].pc = "consuming" /\ req[r].node = n
         /\ \A r \in Requests : req'[r].pc = "consuming" /\ req'[r].node = n =>
               req[r] = req'[r]]_vars

=============================================================================
