------------------------- MODULE RuntimeNodesProofs -------------------------
(***************************************************************************)
(* Machine-checked facts about RuntimeNodes, for any number of nodes, keys,*)
(* challenges and concurrent requests: the tables stay well typed, a       *)
(* registered node keeps exactly one active key per role with the newest   *)
(* version, and a retired key is never active again.                       *)
(***************************************************************************)
EXTENDS RuntimeNodes, TLAPS

\* What a request in each stage has recorded; a matched node is registered.
RequestShape ==
    \A r \in Requests :
        /\ req[r].pc \in {"verified", "granted", "checked", "consuming"} =>
              /\ req[r].sig \in SigningKeys /\ req[r].enc \in EncryptionKeys
              /\ req[r].chal \in Challenges /\ req[r].name \in Names
              /\ req[r].kind \in Kinds
        /\ req[r].pc = "verified" /\ req[r].kind = "remote_host" =>
              req[r].cred \in Challenges
        /\ req[r].pc = "proving" => req[r].chal \in Challenges
        /\ req[r].pc = "renaming" => req[r].name \in Names
        /\ req[r].pc \in {"proving", "renaming"} => req[r].node \in Nodes
        /\ req[r].pc \in {"consuming", "proving", "renaming"} /\ req[r].node # None =>
              Registered(req[r].node)

\* A row not yet inserted has no keys.
FreshRowsHaveNoKeys ==
    \A n \in Nodes : pairingState[n] = "absent" => \A k \in Keys : keyState[n][k] = "none"

TypeInv == TypeOK /\ RequestShape

KeyInv == FreshRowsHaveNoKeys /\ OneActiveKeyPerRole /\ VersionsOrdered

-----------------------------------------------------------------------------
(***************************************************************************)
(* The current key of a role.                                              *)
(***************************************************************************)

\* With a single active key, the row upsertVerifiedKeys reads as current is it.
LEMMA CurrentOfOne ==
    ASSUME TypeOK, NEW n \in Nodes, NEW role \in Roles, NEW k \in KeysOf(role),
           ActiveKeys(n, role) = {k}
    PROVE  Current(n, role) = k
<1>1. keyVersion[n][k] \in Nat
    BY DEF TypeOK, KeysOf, Keys
<1>2. \A j \in ActiveKeys(n, role) : keyVersion[n][j] <= keyVersion[n][k]
    BY <1>1
<1>. QED BY <1>2 DEF Current

\* Before a node has keys there is no current row.
LEMMA CurrentOfNone ==
    ASSUME NEW n \in Nodes, NEW role \in Roles, ActiveKeys(n, role) = {}
    PROVE  Current(n, role) = None
BY DEF Current

\* The current row is a key of its role or no row at all.
LEMMA CurrentType ==
    ASSUME TypeOK, OneActiveKeyPerRole, NEW n \in Nodes, NEW role \in Roles
    PROVE  \/ Current(n, role) = None /\ ActiveKeys(n, role) = {}
           \/ Current(n, role) \in KeysOf(role) /\ ActiveKeys(n, role) = {Current(n, role)}
<1>1. CASE Registered(n)
    <2>1. PICK k \in KeysOf(role) : ActiveKeys(n, role) = {k}
        BY <1>1 DEF OneActiveKeyPerRole
    <2>. QED BY <2>1, CurrentOfOne
<1>2. CASE ~Registered(n)
    BY <1>2, CurrentOfNone DEF OneActiveKeyPerRole
<1>. QED BY <1>1, <1>2


(***************************************************************************)
(* What storing a pair of keys does to one node.                           *)
(***************************************************************************)

\* The stored rows keep their types.
LEMMA UpsertType ==
    ASSUME TypeOK, OneActiveKeyPerRole, NEW n \in Nodes,
           NEW s \in SigningKeys, NEW e \in EncryptionKeys
    PROVE  /\ StoredState(n, s, e) \in [Keys -> {"none", "active", "retired"}]
           /\ StoredVersion(n, s, e) \in [Keys -> Nat]
<1>1. keyState[n] \in [Keys -> {"none", "active", "retired"}] /\ keyVersion[n] \in [Keys -> Nat]
    BY DEF TypeOK
<1>2. \A role \in Roles : NextVersion(n, role) \in Nat
    <2>. SUFFICES ASSUME NEW role \in Roles PROVE NextVersion(n, role) \in Nat
        OBVIOUS
    <2>1. Current(n, role) = None \/ Current(n, role) \in Keys
        BY CurrentType DEF KeysOf, Keys
    <2>. QED BY <2>1, <1>1 DEF NextVersion
<1>3. "signing" \in Roles /\ "command_encryption" \in Roles
    BY DEF Roles
<1>4. \A k \in Keys : keyVersion[n][k] \in Nat
    BY <1>1
<1>5. NextVersion(n, "signing") \in Nat /\ NextVersion(n, "command_encryption") \in Nat
    BY <1>2, <1>3
<1>6. StoredState(n, s, e) \in [Keys -> {"none", "active", "retired"}]
    BY <1>1 DEF StoredState
<1>7. StoredVersion(n, s, e) \in [Keys -> Nat]
    BY <1>4, <1>5 DEF StoredVersion
<1>. QED BY <1>6, <1>7

\* One role of one node across an upsert: the presented key k becomes the only
\* active one, the previous current key cur is retired, the rest is untouched,
\* and k's version is one up unless k was current already.
LEMMA UpsertRole ==
    ASSUME TypeOK, OneActiveKeyPerRole, NEW n \in Nodes,
           NEW s \in SigningKeys, NEW e \in EncryptionKeys, NEW role \in Roles,
           CanStore(n, "signing", s), CanStore(n, "command_encryption", e),
           NEW k \in KeysOf(role), k = IF role = "signing" THEN s ELSE e
    PROVE  \A j \in KeysOf(role) :
              /\ StoredState(n, s, e)[j] =
                    IF j = k THEN "active"
                    ELSE IF keyState[n][j] = "active" THEN "retired"
                    ELSE keyState[n][j]
              /\ StoredVersion(n, s, e)[j] =
                    IF j = k /\ k # Current(n, role) THEN NextVersion(n, role)
                    ELSE keyVersion[n][j]
<1>. SUFFICES ASSUME NEW j \in KeysOf(role)
     PROVE  /\ StoredState(n, s, e)[j] =
                  IF j = k THEN "active"
                  ELSE IF keyState[n][j] = "active" THEN "retired"
                  ELSE keyState[n][j]
            /\ StoredVersion(n, s, e)[j] =
                  IF j = k /\ k # Current(n, role) THEN NextVersion(n, role)
                  ELSE keyVersion[n][j]
    OBVIOUS
<1>. DEFINE cs == Current(n, "signing")
            ce == Current(n, "command_encryption")
<1>1. "signing" \in Roles /\ "command_encryption" \in Roles
    BY DEF Roles
<1>2. /\ cs = None \/ cs \in SigningKeys
      /\ ce = None \/ ce \in EncryptionKeys
    BY <1>1, CurrentType DEF KeysOf
<1>3. j \in Keys
    BY DEF KeysOf, Keys
<1>4. /\ \A i \in SigningKeys : keyState[n][i] = "active" <=> i = cs
      /\ \A i \in EncryptionKeys : keyState[n][i] = "active" <=> i = ce
    BY <1>1, CurrentType, NoneIsNoRow DEF KeysOf, ActiveKeys
<1>5. CASE role = "signing"
    <2>1. k = s /\ j \in SigningKeys /\ j # e /\ j # ce
        BY <1>5, <1>2, KeysDisjoint, NoneIsNoRow DEF KeysOf
    <2>. QED BY <1>3, <1>4, <1>5, <2>1 DEF StoredState, StoredVersion
<1>6. CASE role = "command_encryption"
    <2>1. k = e /\ j \in EncryptionKeys /\ j # s /\ j # cs
        BY <1>6, <1>2, KeysDisjoint, NoneIsNoRow DEF KeysOf
    <2>. QED BY <1>3, <1>4, <1>6, <2>1 DEF StoredState, StoredVersion
<1>. QED BY <1>5, <1>6 DEF Roles


\* After an upsert the node has one active key per role, its versions are
\* still ordered, and what was retired is still retired.
LEMMA UpsertKeepsKeys ==
    ASSUME TypeOK, KeyInv, NEW n \in Nodes,
           NEW s \in SigningKeys, NEW e \in EncryptionKeys,
           UpsertVerifiedKeys(n, s, e)
    PROVE  /\ \A role \in Roles : \E k \in KeysOf(role) :
                 \A j \in KeysOf(role) : keyState'[n][j] = "active" <=> j = k
           /\ \A role \in Roles : \A j, k \in KeysOf(role) :
                 /\ keyState'[n][j] = "retired" /\ keyState'[n][k] = "active"
                       => keyVersion'[n][j] < keyVersion'[n][k]
                 /\ j # k /\ keyState'[n][j] # "none" /\ keyState'[n][k] # "none"
                       => keyVersion'[n][j] # keyVersion'[n][k]
           /\ \A k \in Keys : keyState[n][k] = "retired" => keyState'[n][k] = "retired"
<1>1. /\ keyState'[n] = StoredState(n, s, e)
      /\ keyVersion'[n] = StoredVersion(n, s, e)
      /\ CanStore(n, "signing", s) /\ CanStore(n, "command_encryption", e)
    BY DEF UpsertVerifiedKeys, TypeOK
<1>2. ASSUME NEW role \in Roles
      PROVE  \E k \in KeysOf(role) :
                /\ \A j \in KeysOf(role) : keyState'[n][j] = "active" <=> j = k
                /\ \A j, i \in KeysOf(role) :
                     /\ keyState'[n][j] = "retired" /\ keyState'[n][i] = "active"
                           => keyVersion'[n][j] < keyVersion'[n][i]
                     /\ j # i /\ keyState'[n][j] # "none" /\ keyState'[n][i] # "none"
                           => keyVersion'[n][j] # keyVersion'[n][i]
                /\ \A j \in KeysOf(role) :
                     keyState[n][j] = "retired" => keyState'[n][j] = "retired"
    <2>. DEFINE k == IF role = "signing" THEN s ELSE e
                cur == Current(n, role)
    <2>1. k \in KeysOf(role) /\ CanStore(n, role, k)
        BY <1>1 DEF KeysOf, Roles
    <2>2. \A j \in KeysOf(role) :
              /\ keyState'[n][j] =
                    IF j = k THEN "active"
                    ELSE IF keyState[n][j] = "active" THEN "retired"
                    ELSE keyState[n][j]
              /\ keyVersion'[n][j] =
                    IF j = k /\ k # cur THEN NextVersion(n, role) ELSE keyVersion[n][j]
        BY <1>1, <2>1, UpsertRole DEF KeyInv
    <2>3. \A j \in KeysOf(role) : /\ keyState[n][j] \in {"none", "active", "retired"}
                                  /\ keyVersion[n][j] \in Nat
        BY DEF TypeOK, KeysOf, Keys
    <2>4. \A j \in KeysOf(role) : keyState[n][j] = "active" <=> j = cur
        BY CurrentType, NoneIsNoRow DEF KeyInv, ActiveKeys, KeysOf
    <2>5. \A j, i \in KeysOf(role) :
              /\ keyState[n][j] = "retired" /\ keyState[n][i] = "active"
                    => keyVersion[n][j] < keyVersion[n][i]
              /\ j # i /\ keyState[n][j] # "none" /\ keyState[n][i] # "none"
                    => keyVersion[n][j] # keyVersion[n][i]
        BY DEF KeyInv, VersionsOrdered
    <2>6. ASSUME cur \notin KeysOf(role)
          PROVE  \A j \in KeysOf(role) : keyState[n][j] = "none"
        <3>1. ActiveKeys(n, role) = {}
            BY <2>6, CurrentType DEF KeyInv
        <3>2. ~Registered(n)
            BY <3>1 DEF KeyInv, OneActiveKeyPerRole
        <3>. QED BY <3>2 DEF KeyInv, FreshRowsHaveNoKeys, Registered, KeysOf, Keys
    <2>7. CASE k = cur
        <3>1. \A j \in KeysOf(role) : keyState'[n][j] = keyState[n][j]
                                      /\ keyVersion'[n][j] = keyVersion[n][j]
            BY <2>2, <2>4, <2>7
        <3>. QED BY <2>1, <2>4, <2>5, <2>7, <3>1
    <2>8. CASE k # cur
        <3>1. keyState[n][k] = "none"
            BY <2>1, <2>8 DEF CanStore
        <3>2. CASE cur \in KeysOf(role)
            <4>1. cur # None
                BY <3>2, NoneIsNoRow DEF KeysOf
            <4>2. NextVersion(n, role) = keyVersion[n][cur] + 1
                BY <4>1 DEF NextVersion
            <4>3. \A j \in KeysOf(role) :
                     keyState[n][j] # "none" => keyVersion[n][j] <= keyVersion[n][cur]
                BY <2>3, <2>4, <2>5, <3>2
            <4>4. keyVersion'[n][k] = keyVersion[n][cur] + 1
                BY <2>1, <2>2, <2>8, <4>2
            <4>5. \A j \in KeysOf(role) : j # k =>
                     /\ keyState'[n][j] # "active"
                     /\ keyState'[n][j] # "none" => keyState[n][j] # "none"
                     /\ keyVersion'[n][j] = keyVersion[n][j]
                BY <2>2, <2>3
            <4>6. \A j \in KeysOf(role) : j # k /\ keyState'[n][j] # "none" =>
                     keyVersion'[n][j] < keyVersion'[n][k]
                BY <2>3, <3>2, <4>3, <4>4, <4>5
            <4>7. keyState'[n][k] = "active"
                BY <2>1, <2>2
            <4>8. \A j \in KeysOf(role) : keyVersion'[n][j] \in Nat
                BY <2>3, <3>2, <4>4, <4>5
            <4>9. \A j \in KeysOf(role) :
                     keyState[n][j] = "retired" => keyState'[n][j] = "retired"
                BY <2>2, <3>1
            <4>10. \A j, i \in KeysOf(role) :
                     /\ keyState'[n][j] = "retired" /\ keyState'[n][i] = "active"
                           => keyVersion'[n][j] < keyVersion'[n][i]
                     /\ j # i /\ keyState'[n][j] # "none" /\ keyState'[n][i] # "none"
                           => keyVersion'[n][j] # keyVersion'[n][i]
                BY <2>5, <4>5, <4>6, <4>7, <4>8
            <4>. QED BY <2>1, <4>5, <4>7, <4>9, <4>10
        <3>3. CASE cur \notin KeysOf(role)
            <4>1. \A j \in KeysOf(role) :
                     keyState'[n][j] = IF j = k THEN "active" ELSE "none"
                BY <2>2, <2>6, <3>3
            <4>. QED BY <2>1, <2>6, <3>3, <4>1
        <3>. QED BY <3>2, <3>3
    <2>. QED BY <2>7, <2>8
<1>3. Keys = KeysOf("signing") \cup KeysOf("command_encryption")
    BY DEF Keys, KeysOf
<1>4. "signing" \in Roles /\ "command_encryption" \in Roles
    BY DEF Roles
<1>5. \A k \in Keys : keyState[n][k] = "retired" => keyState'[n][k] = "retired"
    <2>1. \A k \in KeysOf("signing") : keyState[n][k] = "retired" => keyState'[n][k] = "retired"
        BY <1>2, <1>4
    <2>2. \A k \in KeysOf("command_encryption") :
             keyState[n][k] = "retired" => keyState'[n][k] = "retired"
        BY <1>2, <1>4
    <2>. QED BY <2>1, <2>2, <1>3
<1>. QED BY <1>2, <1>5


-----------------------------------------------------------------------------
(***************************************************************************)
(* The inductive invariant.                                                *)
(***************************************************************************)
Inv == TypeInv /\ KeyInv

\* The empty tables satisfy the invariant.
LEMMA InitInv == Init => Inv
<1>. SUFFICES ASSUME Init PROVE Inv
    OBVIOUS
<1>1. TypeOK
    BY DEF Init, TypeOK, NoChallenge, NoRequest, ChallengeRow, RequestState,
           CredentialStates, Purposes
<1>2. RequestShape
    BY DEF Init, RequestShape, NoRequest
<1>3. KeyInv
    BY DEF Init, KeyInv, FreshRowsHaveNoKeys, OneActiveKeyPerRole, VersionsOrdered,
           Registered, ActiveKeys, KeysOf, Keys
<1>. QED BY <1>1, <1>2, <1>3 DEF Inv, TypeInv

\* A step that leaves keys and pairing states alone keeps the key invariant.
LEMMA KeysUntouched ==
    ASSUME KeyInv, UNCHANGED <<keyState, keyVersion>>, UNCHANGED pairingState
    PROVE  KeyInv'
BY DEF KeyInv, FreshRowsHaveNoKeys, OneActiveKeyPerRole, VersionsOrdered, Registered,
       ActiveKeys

\* A step that stores keys for node n, which is registered afterwards, keeps it.
LEMMA KeysStored ==
    ASSUME TypeOK, KeyInv, NEW n \in Nodes, NEW s \in SigningKeys, NEW e \in EncryptionKeys,
           UpsertVerifiedKeys(n, s, e),
           pairingState'[n] # "absent",
           \A m \in Nodes \ {n} : pairingState'[m] = pairingState[m]
    PROVE  KeyInv'
<1>1. \A m \in Nodes \ {n} : keyState'[m] = keyState[m] /\ keyVersion'[m] = keyVersion[m]
    BY DEF UpsertVerifiedKeys, TypeOK
<1>2. FreshRowsHaveNoKeys'
    BY <1>1 DEF KeyInv, FreshRowsHaveNoKeys
<1>3. OneActiveKeyPerRole'
    <2>. SUFFICES ASSUME NEW m \in Nodes, NEW role \in Roles
         PROVE  (IF Registered(m) THEN \E k \in KeysOf(role) : ActiveKeys(m, role) = {k}
                 ELSE ActiveKeys(m, role) = {})'
        BY DEF OneActiveKeyPerRole
    <2>1. CASE m = n
        <3>1. PICK k \in KeysOf(role) :
                 \A j \in KeysOf(role) : keyState'[n][j] = "active" <=> j = k
            BY UpsertKeepsKeys
        <3>2. ActiveKeys(n, role)' = {k}
            BY <3>1 DEF ActiveKeys
        <3>. QED BY <2>1, <3>2 DEF Registered
    <2>2. CASE m # n
        BY <1>1, <2>2 DEF KeyInv, OneActiveKeyPerRole, Registered, ActiveKeys
    <2>. QED BY <2>1, <2>2
<1>4. VersionsOrdered'
    <2>. SUFFICES ASSUME NEW m \in Nodes, NEW role \in Roles,
                         NEW j \in KeysOf(role), NEW k \in KeysOf(role)
         PROVE  /\ keyState'[m][j] = "retired" /\ keyState'[m][k] = "active"
                      => keyVersion'[m][j] < keyVersion'[m][k]
                /\ j # k /\ keyState'[m][j] # "none" /\ keyState'[m][k] # "none"
                      => keyVersion'[m][j] # keyVersion'[m][k]
        BY DEF VersionsOrdered
    <2>1. CASE m = n
        BY <2>1, UpsertKeepsKeys
    <2>2. CASE m # n
        BY <1>1, <2>2 DEF KeyInv, VersionsOrdered
    <2>. QED BY <2>1, <2>2
<1>. QED BY <1>2, <1>3, <1>4 DEF KeyInv


\* Rewriting one field of one row keeps the table's type.
LEMMA ChallengeFieldType ==
    ASSUME NEW f \in [Challenges -> ChallengeRow], NEW c \in Challenges
    PROVE  /\ \A st \in {"none", "open", "consumed", "pruned"} :
                 [f EXCEPT ![c].state = st] \in [Challenges -> ChallengeRow]
           /\ [f EXCEPT ![c].expired = TRUE] \in [Challenges -> ChallengeRow]
<1>1. f[c] \in ChallengeRow
    OBVIOUS
<1>2. \A st \in {"none", "open", "consumed", "pruned"} :
         [f[c] EXCEPT !.state = st] \in ChallengeRow
    BY <1>1 DEF ChallengeRow
<1>3. [f[c] EXCEPT !.expired = TRUE] \in ChallengeRow
    BY <1>1 DEF ChallengeRow
<1>. QED BY <1>2, <1>3

\* The same for the local state of one request.
LEMMA RequestFieldType ==
    ASSUME NEW f \in [Requests -> RequestState], NEW r \in Requests,
           NEW st \in {"idle", "verified", "granted", "checked", "consuming", "proving",
                       "renaming"}
    PROVE  /\ [f EXCEPT ![r].pc = st] \in [Requests -> RequestState]
           /\ \A n \in Nodes \cup {None} :
                 [f EXCEPT ![r].pc = st, ![r].node = n] \in [Requests -> RequestState]
<1>1. f[r] \in RequestState
    OBVIOUS
<1>2. [f[r] EXCEPT !.pc = st] \in RequestState
    BY <1>1 DEF RequestState
<1>3. ASSUME NEW n \in Nodes \cup {None}
      PROVE  [f EXCEPT ![r].pc = st, ![r].node = n] \in [Requests -> RequestState]
    <2>1. [f[r] EXCEPT !.pc = st, !.node = n] \in RequestState
        BY <1>1 DEF RequestState
    <2>. QED BY <2>1
<1>4. [f EXCEPT ![r].pc = st] \in [Requests -> RequestState]
    BY <1>2
<1>. QED BY <1>3, <1>4

\* Every step keeps the rows and the requests' local states well formed.
LEMMA TypeStep ==
    ASSUME Inv, [Next]_vars
    PROVE  TypeInv'
<1>. USE DEF Inv
<1>1. ASSUME NEW c \in Challenges, NEW k \in Kinds, OpenPairing(c, k) PROVE TypeInv'
    <2>1. TypeOK'
        BY <1>1 DEF OpenPairing, CreateChallenge, TypeInv, TypeOK, ChallengeRow, RequestState,
               CredentialStates, Purposes, nodeVars, keyVars
    <2>2. RequestShape'
        BY <1>1 DEF OpenPairing, CreateChallenge, TypeInv, TypeOK, RequestShape, RequestState,
               Registered, nodeVars, keyVars
    <2>. QED BY <2>1, <2>2 DEF TypeInv
<1>2. ASSUME NEW c \in Challenges, IssueExchangeCredential(c) PROVE TypeInv'
    <2>1. TypeOK'
        BY <1>2 DEF IssueExchangeCredential, TypeInv, TypeOK, ChallengeRow, RequestState,
               CredentialStates, Purposes, nodeVars, keyVars
    <2>2. RequestShape'
        BY <1>2 DEF IssueExchangeCredential, TypeInv, TypeOK, RequestShape, RequestState,
               Registered, nodeVars, keyVars
    <2>. QED BY <2>1, <2>2 DEF TypeInv
<1>3. ASSUME NEW c \in Challenges, NEW n \in Nodes, NEW p \in {"rotate", "proof"}, OpenNodeChallenge(c, n, p) PROVE TypeInv'
    <2>1. TypeOK'
        BY <1>3 DEF OpenNodeChallenge, CreateChallenge, TypeInv, TypeOK, ChallengeRow, RequestState,
               CredentialStates, Purposes, nodeVars, keyVars
    <2>2. RequestShape'
        BY <1>3 DEF OpenNodeChallenge, CreateChallenge, TypeInv, TypeOK, RequestShape, RequestState,
               Registered, nodeVars, keyVars
    <2>. QED BY <2>1, <2>2 DEF TypeInv
<1>4. ASSUME NEW c \in Challenges, Expire(c) PROVE TypeInv'
    <2>1. challenge' \in [Challenges -> ChallengeRow]
        <3>1. challenge \in [Challenges -> ChallengeRow]
            BY DEF TypeInv, TypeOK
        <3>2. [challenge EXCEPT ![c].expired = TRUE] \in [Challenges -> ChallengeRow]
            BY <3>1, ChallengeFieldType
        <3>. QED BY <1>4, <3>1, <3>2 DEF Expire
    <2>2. TypeOK'
        BY <1>4, <2>1 DEF Expire, TypeInv, TypeOK, CredentialStates, RequestShape, nodeVars, keyVars
    <2>3. RequestShape'
        BY <1>4 DEF Expire, TypeInv, TypeOK, RequestShape, RequestState,
               Registered, nodeVars, keyVars
    <2>. QED BY <2>2, <2>3 DEF TypeInv
<1>5. ASSUME NEW c \in Challenges, PruneCredentials(c) PROVE TypeInv'
    <2>1. challenge' \in [Challenges -> ChallengeRow]
        <3>1. challenge \in [Challenges -> ChallengeRow]
            BY DEF TypeInv, TypeOK
        <3>2. [challenge EXCEPT ![c].state = "pruned"] \in [Challenges -> ChallengeRow]
            BY <3>1, ChallengeFieldType
        <3>. QED BY <1>5, <3>1, <3>2 DEF PruneCredentials
    <2>2. TypeOK'
        BY <1>5, <2>1 DEF PruneCredentials, TypeInv, TypeOK, CredentialStates, RequestShape, nodeVars, keyVars
    <2>3. RequestShape'
        BY <1>5 DEF PruneCredentials, TypeInv, TypeOK, RequestShape, RequestState,
               Registered, nodeVars, keyVars
    <2>. QED BY <2>2, <2>3 DEF TypeInv
<1>6. ASSUME NEW r \in Requests, NEW c \in Challenges, NEW k \in Kinds, NEW s \in SigningKeys, NEW e \in EncryptionKeys, NEW cr \in Challenges \cup {None}, NEW d \in Names, PairBegin(r, c, k, s, e, cr, d) PROVE TypeInv'
    <2>1. TypeOK'
        BY <1>6 DEF PairBegin, TypeInv, TypeOK, ChallengeRow, RequestState,
               CredentialStates, Purposes, nodeVars, keyVars
    <2>2. RequestShape'
        BY <1>6 DEF PairBegin, TypeInv, TypeOK, RequestShape, RequestState,
               Registered, nodeVars, keyVars
    <2>. QED BY <2>1, <2>2 DEF TypeInv
<1>7. ASSUME NEW r \in Requests, SpendExchangeCredential(r) PROVE TypeInv'
    <2>1. req' \in [Requests -> RequestState]
        BY <1>7, RequestFieldType DEF SpendExchangeCredential, TypeInv, TypeOK
    <2>2. TypeOK'
        BY <1>7, <2>1 DEF SpendExchangeCredential, TypeInv, TypeOK, CredentialStates, RequestShape, nodeVars, keyVars
    <2>3. RequestShape'
        BY <1>7 DEF SpendExchangeCredential, TypeInv, TypeOK, RequestShape, RequestState,
               Registered, nodeVars, keyVars
    <2>. QED BY <2>2, <2>3 DEF TypeInv
<1>8. ASSUME NEW r \in Requests, CheckChallenge(r) PROVE TypeInv'
    <2>1. req' \in [Requests -> RequestState]
        BY <1>8, RequestFieldType DEF CheckChallenge, GrantSettled, TypeInv, TypeOK
    <2>2. TypeOK'
        BY <1>8, <2>1 DEF CheckChallenge, GrantSettled, TypeInv, TypeOK, CredentialStates, RequestShape, nodeVars, keyVars
    <2>3. RequestShape'
        BY <1>8 DEF CheckChallenge, GrantSettled, TypeInv, TypeOK, RequestShape, RequestState,
               Registered, nodeVars, keyVars
    <2>. QED BY <2>2, <2>3 DEF TypeInv
<1>9. ASSUME NEW r \in Requests, ConsumeAndMatch(r) PROVE TypeInv'
    <2>1. req' \in [Requests -> RequestState]
        <3>1. PICK n \in Nodes \cup {None} :
                 req' = [req EXCEPT ![r].pc = "consuming", ![r].node = n]
            BY <1>9 DEF ConsumeAndMatch, Matching
        <3>2. req \in [Requests -> RequestState]
            BY DEF TypeInv, TypeOK
        <3>. QED BY <3>1, <3>2, RequestFieldType
    <2>2. TypeOK'
        BY <1>9, <2>1 DEF ConsumeAndMatch, Matching, TypeInv, TypeOK, CredentialStates, RequestShape, nodeVars, keyVars
    <2>3. RequestShape'
        BY <1>9 DEF ConsumeAndMatch, Matching, TypeInv, TypeOK, RequestShape, RequestState,
               Registered, nodeVars, keyVars
    <2>. QED BY <2>2, <2>3 DEF TypeInv
<1>10. ASSUME NEW r \in Requests, RegisterResume(r) PROVE TypeInv'
    <2>. DEFINE m == req[r].node
    <2>1. /\ m \in Nodes /\ req[r].sig \in SigningKeys /\ req[r].enc \in EncryptionKeys
          /\ req[r].chal \in Challenges /\ req[r].name \in Names /\ req[r].kind \in Kinds
        BY <1>10 DEF RegisterResume, TypeInv, TypeOK, RequestShape, RequestState
    <2>2. /\ keyState' = [keyState EXCEPT ![m] = StoredState(m, req[r].sig, req[r].enc)]
          /\ keyVersion' = [keyVersion EXCEPT ![m] = StoredVersion(m, req[r].sig, req[r].enc)]
        BY <1>10 DEF RegisterResume, UpsertVerifiedKeys
    <2>3. /\ StoredState(m, req[r].sig, req[r].enc) \in [Keys -> {"none", "active", "retired"}]
          /\ StoredVersion(m, req[r].sig, req[r].enc) \in [Keys -> Nat]
        BY <2>1, UpsertType DEF TypeInv, KeyInv
    <2>. HIDE DEF m
    <2>4. keyState' \in [Nodes -> [Keys -> {"none", "active", "retired"}]]
          /\ keyVersion' \in [Nodes -> [Keys -> Nat]]
        BY <2>1, <2>2, <2>3 DEF TypeInv, TypeOK
    <2>5. challenge' \in [Challenges -> ChallengeRow]
        BY <1>10, <2>1, ChallengeFieldType DEF RegisterResume, Consume, TypeInv, TypeOK
    <2>6. req' \in [Requests -> RequestState]
        BY <1>10 DEF RegisterResume, NoRequest, RequestState, TypeInv, TypeOK
    <2>7. TypeOK'
        BY <1>10, <2>1, <2>4, <2>5, <2>6 DEF RegisterResume, m, TypeInv, TypeOK
    <2>8. RequestShape'
        BY <1>10, <2>1 DEF RegisterResume, m, NoRequest, TypeInv, TypeOK, RequestShape, RequestState,
               Registered, nodeVars, keyVars
    <2>. QED BY <2>7, <2>8 DEF TypeInv
<1>11. ASSUME NEW r \in Requests, NEW n \in Nodes, RegisterInsert(r, n) PROVE TypeInv'
    <2>. DEFINE m == n
    <2>1. /\ m \in Nodes /\ req[r].sig \in SigningKeys /\ req[r].enc \in EncryptionKeys
          /\ req[r].chal \in Challenges /\ req[r].name \in Names /\ req[r].kind \in Kinds
        BY <1>11 DEF RegisterInsert, TypeInv, TypeOK, RequestShape, RequestState
    <2>2. /\ keyState' = [keyState EXCEPT ![m] = StoredState(m, req[r].sig, req[r].enc)]
          /\ keyVersion' = [keyVersion EXCEPT ![m] = StoredVersion(m, req[r].sig, req[r].enc)]
        BY <1>11 DEF RegisterInsert, UpsertVerifiedKeys
    <2>3. /\ StoredState(m, req[r].sig, req[r].enc) \in [Keys -> {"none", "active", "retired"}]
          /\ StoredVersion(m, req[r].sig, req[r].enc) \in [Keys -> Nat]
        BY <2>1, UpsertType DEF TypeInv, KeyInv
    <2>. HIDE DEF m
    <2>4. keyState' \in [Nodes -> [Keys -> {"none", "active", "retired"}]]
          /\ keyVersion' \in [Nodes -> [Keys -> Nat]]
        BY <2>1, <2>2, <2>3 DEF TypeInv, TypeOK
    <2>5. challenge' \in [Challenges -> ChallengeRow]
        BY <1>11, <2>1, ChallengeFieldType DEF RegisterInsert, Consume, TypeInv, TypeOK
    <2>6. req' \in [Requests -> RequestState]
        BY <1>11 DEF RegisterInsert, NoRequest, RequestState, TypeInv, TypeOK
    <2>7. TypeOK'
        BY <1>11, <2>1, <2>4, <2>5, <2>6 DEF RegisterInsert, m, TypeInv, TypeOK
    <2>8. RequestShape'
        BY <1>11, <2>1 DEF RegisterInsert, m, NoRequest, TypeInv, TypeOK, RequestShape, RequestState,
               Registered, nodeVars, keyVars
    <2>. QED BY <2>7, <2>8 DEF TypeInv
<1>12. ASSUME NEW r \in Requests, Abort(r) PROVE TypeInv'
    <2>1. TypeOK'
        BY <1>12 DEF Abort, NoRequest, TypeInv, TypeOK, ChallengeRow, RequestState,
               CredentialStates, Purposes, nodeVars, keyVars
    <2>2. RequestShape'
        BY <1>12 DEF Abort, NoRequest, TypeInv, TypeOK, RequestShape, RequestState,
               Registered, nodeVars, keyVars
    <2>. QED BY <2>1, <2>2 DEF TypeInv
<1>13. ASSUME NEW r \in Requests, NEW n \in Nodes, NEW c \in Challenges, ProofBegin(r, n, c) PROVE TypeInv'
    <2>1. TypeOK'
        BY <1>13 DEF ProofBegin, NoRequest, TypeInv, TypeOK, ChallengeRow, RequestState,
               CredentialStates, Purposes, nodeVars, keyVars
    <2>2. RequestShape'
        BY <1>13 DEF ProofBegin, NoRequest, TypeInv, TypeOK, RequestShape, RequestState,
               Registered, nodeVars, keyVars
    <2>. QED BY <2>1, <2>2 DEF TypeInv
<1>14. ASSUME NEW r \in Requests, RecordProof(r) PROVE TypeInv'
    <2>1. challenge' \in [Challenges -> ChallengeRow]
        BY <1>14, ChallengeFieldType DEF RecordProof, NoRequest, Consume, TypeInv, TypeOK, RequestShape
    <2>2. TypeOK'
        BY <1>14, <2>1 DEF RecordProof, NoRequest, Consume, TypeInv, TypeOK, CredentialStates, RequestShape, nodeVars, keyVars, RequestState
    <2>3. RequestShape'
        BY <1>14 DEF RecordProof, NoRequest, Consume, TypeInv, TypeOK, RequestShape, RequestState,
               Registered, nodeVars, keyVars
    <2>. QED BY <2>2, <2>3 DEF TypeInv
<1>15. ASSUME NEW r \in Requests, NEW n \in Nodes, NEW d \in Names, RenameBegin(r, n, d) PROVE TypeInv'
    <2>1. TypeOK'
        BY <1>15 DEF RenameBegin, NoRequest, TypeInv, TypeOK, ChallengeRow, RequestState,
               CredentialStates, Purposes, nodeVars, keyVars
    <2>2. RequestShape'
        BY <1>15 DEF RenameBegin, NoRequest, TypeInv, TypeOK, RequestShape, RequestState,
               Registered, nodeVars, keyVars
    <2>. QED BY <2>1, <2>2 DEF TypeInv
<1>16. ASSUME NEW r \in Requests, RenameCommit(r) PROVE TypeInv'
    <2>1. TypeOK'
        BY <1>16 DEF RenameCommit, NoRequest, TypeInv, TypeOK, ChallengeRow, RequestState,
               CredentialStates, Purposes, nodeVars, keyVars
    <2>2. RequestShape'
        BY <1>16 DEF RenameCommit, NoRequest, TypeInv, TypeOK, RequestShape, RequestState,
               Registered, nodeVars, keyVars
    <2>. QED BY <2>1, <2>2 DEF TypeInv
<1>17. ASSUME NEW n \in Nodes, NEW c \in Challenges, NEW s \in SigningKeys,
             NEW e \in EncryptionKeys, RotateKeys(n, c, s, e)
      PROVE  TypeInv'
    <2>1. /\ StoredState(n, s, e) \in [Keys -> {"none", "active", "retired"}]
          /\ StoredVersion(n, s, e) \in [Keys -> Nat]
        BY UpsertType DEF TypeInv, KeyInv
    <2>2. keyState' \in [Nodes -> [Keys -> {"none", "active", "retired"}]]
          /\ keyVersion' \in [Nodes -> [Keys -> Nat]]
        BY <1>17, <2>1 DEF RotateKeys, UpsertVerifiedKeys, TypeInv, TypeOK
    <2>3. challenge' \in [Challenges -> ChallengeRow]
        BY <1>17, ChallengeFieldType DEF RotateKeys, Consume, TypeInv, TypeOK
    <2>4. TypeOK'
        BY <1>17, <2>2, <2>3 DEF RotateKeys, TypeInv, TypeOK
    <2>5. RequestShape'
        BY <1>17 DEF RotateKeys, TypeInv, TypeOK, RequestShape, RequestState,
               Registered, nodeVars, keyVars
    <2>. QED BY <2>4, <2>5 DEF TypeInv
<1>18. ASSUME NEW n \in Nodes, Revoke(n) PROVE TypeInv'
    BY <1>18 DEF Revoke, keyVars, TypeInv, TypeOK, RequestShape, RequestState,
               Registered, nodeVars, keyVars
<1>19. CASE UNCHANGED vars
    BY <1>19 DEF vars, TypeInv, TypeOK, RequestShape, RequestState,
               Registered, nodeVars, keyVars
<1>. QED BY <1>1, <1>2, <1>3, <1>4, <1>5, <1>6, <1>7, <1>8, <1>9, <1>10, <1>11, <1>12, <1>13, <1>14, <1>15, <1>16, <1>17, <1>18, <1>19
     DEF Next, ChallengeStep, PairStep, NodeStep, OwnerStep


\* Every step keeps the key invariant; only the three operations that store
\* keys have something to show.
LEMMA KeyStep ==
    ASSUME Inv, [Next]_vars
    PROVE  KeyInv'
<1>. USE DEF Inv
<1>1. CASE UNCHANGED <<keyVars, pairingState>>
    BY <1>1, KeysUntouched DEF keyVars
<1>2. ASSUME NEW r \in Requests, RegisterResume(r) PROVE KeyInv'
    <2>1. /\ req[r].node \in Nodes /\ Registered(req[r].node)
          /\ req[r].sig \in SigningKeys /\ req[r].enc \in EncryptionKeys
        BY <1>2 DEF RegisterResume, TypeInv, TypeOK, RequestShape, RequestState
    <2>2. UpsertVerifiedKeys(req[r].node, req[r].sig, req[r].enc) /\ UNCHANGED pairingState
        BY <1>2 DEF RegisterResume
    <2>. QED BY <2>1, <2>2, KeysStored DEF TypeInv, Registered
<1>3. ASSUME NEW r \in Requests, NEW n \in Nodes, RegisterInsert(r, n) PROVE KeyInv'
    <2>1. req[r].sig \in SigningKeys /\ req[r].enc \in EncryptionKeys
        BY <1>3 DEF RegisterInsert, TypeInv, RequestShape
    <2>2. /\ UpsertVerifiedKeys(n, req[r].sig, req[r].enc)
          /\ pairingState'[n] # "absent"
          /\ \A m \in Nodes \ {n} : pairingState'[m] = pairingState[m]
        BY <1>3 DEF RegisterInsert, TypeInv, TypeOK
    <2>. QED BY <2>1, <2>2, KeysStored DEF TypeInv
<1>4. ASSUME NEW n \in Nodes, NEW c \in Challenges, NEW s \in SigningKeys,
             NEW e \in EncryptionKeys, RotateKeys(n, c, s, e)
      PROVE  KeyInv'
    BY <1>4, KeysStored DEF RotateKeys, TypeInv
<1>5. ASSUME NEW n \in Nodes, Revoke(n) PROVE KeyInv'
    <2>1. \A m \in Nodes : Registered(m)' = Registered(m)
        BY <1>5 DEF Revoke, TypeInv, TypeOK, Registered
    <2>. QED BY <1>5, <2>1 DEF Revoke, keyVars, KeyInv, FreshRowsHaveNoKeys,
                OneActiveKeyPerRole, VersionsOrdered, Registered, ActiveKeys
<1>6. ASSUME ChallengeStep PROVE UNCHANGED <<keyVars, pairingState>>
    BY <1>6 DEF ChallengeStep, OpenPairing, IssueExchangeCredential, OpenNodeChallenge,
                Expire, PruneCredentials, nodeVars
<1>7. ASSUME NEW r \in Requests,
             PairStep(r) \/ NodeStep(r)
      PROVE  \/ UNCHANGED <<keyVars, pairingState>>
             \/ RegisterResume(r)
             \/ \E n \in Nodes : RegisterInsert(r, n)
    BY <1>7 DEF PairStep, NodeStep, PairBegin, SpendExchangeCredential, CheckChallenge,
                ConsumeAndMatch, Abort, ProofBegin, RecordProof, RenameBegin, RenameCommit,
                nodeVars
<1>8. CASE UNCHANGED vars
    BY <1>8, <1>1 DEF vars, keyVars
<1>. QED BY <1>1, <1>2, <1>3, <1>4, <1>5, <1>6, <1>7, <1>8 DEF Next, OwnerStep

\* Inv is preserved by every step.
LEMMA InvStep == Inv /\ [Next]_vars => Inv'
BY TypeStep, KeyStep DEF Inv

\* The invariant holds in every reachable state.
THEOREM InvAlways == Spec => []Inv
BY InitInv, InvStep, PTL DEF Spec

\* The tables and the requests stay well typed, whatever is served at once.
THEOREM TypeCorrect == Spec => []TypeOK
<1>1. Inv => TypeOK
    BY DEF Inv, TypeInv
<1>. QED BY InvAlways, <1>1, PTL

\* A registered node always has exactly one active key of each role, for any
\* number of concurrent pairings, resumes and rotations.
THEOREM OneActiveKey == Spec => []OneActiveKeyPerRole
<1>1. Inv => OneActiveKeyPerRole
    BY DEF Inv, KeyInv
<1>. QED BY InvAlways, <1>1, PTL

\* The active key carries the newest version and versions are never shared.
THEOREM VersionOrder == Spec => []VersionsOrdered
<1>1. Inv => VersionsOrdered
    BY DEF Inv, KeyInv
<1>. QED BY InvAlways, <1>1, PTL

\* No interleaving brings a retired key back.
THEOREM RetiredKeysStayRetired == Spec => RetiredForever
<1>. DEFINE Kept == \A n \in Nodes, k \in Keys :
                       keyState[n][k] = "retired" => keyState'[n][k] = "retired"
<1>1. ASSUME Inv, [Next]_vars PROVE [Kept]_vars
    <2>. USE <1>1 DEF Inv
    <2>1. ASSUME NEW n \in Nodes, NEW s \in SigningKeys, NEW e \in EncryptionKeys,
                 UpsertVerifiedKeys(n, s, e)
          PROVE  Kept
        <3>1. \A m \in Nodes \ {n} : keyState'[m] = keyState[m]
            BY <2>1 DEF UpsertVerifiedKeys, TypeInv, TypeOK
        <3>2. \A k \in Keys : keyState[n][k] = "retired" => keyState'[n][k] = "retired"
            BY <2>1, UpsertKeepsKeys DEF TypeInv
        <3>. QED BY <3>1, <3>2
    <2>2. ASSUME NEW r \in Requests, RegisterResume(r) PROVE Kept
        BY <2>1, <2>2 DEF RegisterResume, TypeInv, TypeOK, RequestShape, RequestState
    <2>3. ASSUME NEW r \in Requests, NEW n \in Nodes, RegisterInsert(r, n) PROVE Kept
        BY <2>1, <2>3 DEF RegisterInsert, TypeInv, RequestShape
    <2>4. ASSUME NEW n \in Nodes, OwnerStep(n) PROVE Kept
        BY <2>1, <2>4 DEF OwnerStep, RotateKeys, Revoke, keyVars
    <2>5. CASE UNCHANGED keyState
        BY <2>5
    <2>6. ASSUME ChallengeStep PROVE UNCHANGED keyState
        BY <2>6 DEF ChallengeStep, OpenPairing, IssueExchangeCredential, OpenNodeChallenge,
                    Expire, PruneCredentials, keyVars
    <2>7. ASSUME NEW r \in Requests, PairStep(r) \/ NodeStep(r)
          PROVE  \/ UNCHANGED keyState
                 \/ RegisterResume(r)
                 \/ \E n \in Nodes : RegisterInsert(r, n)
        BY <2>7 DEF PairStep, NodeStep, PairBegin, SpendExchangeCredential, CheckChallenge,
                    ConsumeAndMatch, Abort, ProofBegin, RecordProof, RenameBegin,
                    RenameCommit, keyVars
    <2>. QED BY <2>2, <2>3, <2>4, <2>5, <2>6, <2>7 DEF Next
<1>. QED BY InvAlways, <1>1, PTL DEF Spec, RetiredForever

=============================================================================
