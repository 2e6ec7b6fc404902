-------------------------- MODULE NodeDeliveryProofs --------------------------
(***************************************************************************)
(* Machine-checked facts about NodeDelivery, for any number of submissions,*)
(* keys, nonces and concurrent pulls and any window, rate and lifetime: a  *)
(* nonce is accepted once and the rate holds although the ledger is pruned,*)
(* proof events are throttled, expiry cleanup and the grace of a retired   *)
(* key never cost a deliverable command, and a command is released only    *)
(* under the authority of that moment.                                     *)
(***************************************************************************)
EXTENDS NodeDelivery, FiniteSetTheorems, WellFoundedInduction, TLAPS

(***************************************************************************)
(* The inductive invariant.                                                *)
(***************************************************************************)

\* A pull being served carries a signed request.
PullsSigned ==
    \A r \in Requests : pull[r].pc # "idle" => pull[r].nonce \in Nonces /\ proof[pull[r].nonce] # NoProof

\* A queued envelope names a key and lives at most Ttl.
EnvelopesBounded ==
    \A s \in Submissions : Queued(s) =>
        row[s].key \in EncryptionKeys /\ row[s].expiresAt <= row[s].issuedAt + Ttl

\* A retired key has its retirement time.
RetirementsDated == \A k \in EncryptionKeys : encryption[k].state = "retired" => encryption[k].retiredAt \in Time

\* The last published proof is no later than the last proof, which is not in the future.
EventBeforeProof ==
    /\ lastProofAt # None => lastProofAt <= now
    /\ lastEventAt # None => lastProofAt # None /\ lastEventAt <= lastProofAt

\* A ledger row outlives the window of its request.
RowsOutlive ==
    \A e \in ledger : proof[e.nonce] # NoProof /\ proof[e.nonce].issuedAt + Window <= e.expiresAt

\* An accepted nonce is in the ledger until its window is over.
AcceptedRemembered ==
    \A x \in Nonces : Len(acceptedAt[x]) > 0 =>
        /\ proof[x] # NoProof
        /\ (\E e \in ledger : e.nonce = x) \/ proof[x].issuedAt + Window <= now

\* A pull accepted within the rate period is in the ledger.
RecentRemembered ==
    \A x \in Nonces : \A i \in 1 .. Len(acceptedAt[x]) : acceptedAt[x][i] > now - RatePeriod =>
        \E e \in ledger : e.nonce = x /\ e.createdAt = acceptedAt[x][i]

\* The nonces and the ledger rows that count for the current rate period.
RecentNonces ==
    {x \in Nonces : \E i \in 1 .. Len(acceptedAt[x]) : acceptedAt[x][i] > now - RatePeriod}
RecentRows == {e \in ledger : e.createdAt > now - RatePeriod}

LedgerInv ==
    /\ PullsSigned /\ EventBeforeProof
    /\ IsFiniteSet(ledger) /\ RowsOutlive /\ AcceptedRemembered /\ RecentRemembered
    /\ NonceAcceptedOnce /\ RateHeld

EnvelopeInv == EnvelopesBounded /\ RetirementsDated

Inv == TypeOK /\ LedgerInv /\ EnvelopeInv

-----------------------------------------------------------------------------
(***************************************************************************)
(* Operators and elementary updates.                                       *)
(***************************************************************************)

\* A non-empty set of positions has a first one.
LEMMA FirstPosition ==
    ASSUME NEW T \in SUBSET Nat, T # {}
    PROVE  \E i \in T : \A j \in T : i <= j
<1>1. PICK i \in T : \A j \in T : <<j, i>> \notin OpToRel(<, Nat)
    BY NatLessThanWellFounded, WFMin, Zenon
<1>2. \A j \in T : ~(j < i)
    BY <1>1 DEF OpToRel
<1>. QED BY <1>2

\* The candidate query returns a queued submission or nothing.
LEMMA CandidateType ==
    ASSUME TypeOK
    PROVE  Candidate \in Submissions \cup {None}
<1>. DEFINE E == {i \in 1 .. Len(queue) : Selectable(queue[i])}
<1>1. CASE E = {}
    BY <1>1 DEF Candidate
<1>2. CASE E # {}
    <2>. DEFINE c == CHOOSE i \in E : \A j \in E : i <= j
    <2>1. E \in SUBSET Nat
        BY DEF TypeOK
    <2>. HIDE DEF E
    <2>2. c \in E
        BY <1>2, <2>1, FirstPosition
    <2>. USE DEF E
    <2>3. queue[c] \in Submissions
        BY <2>2 DEF TypeOK
    <2>4. Candidate = queue[c]
        BY <1>2 DEF Candidate
    <2>. QED BY <2>3, <2>4
<1>. QED BY <1>1, <1>2

\* Admission puts one submission at the end of the queue.
LEMMA QueuedAfter ==
    ASSUME TypeOK, NEW s \in Submissions, queue' = Append(queue, s)
    PROVE  /\ queue' \in Seq(Submissions)
           /\ \A u \in Submissions : Queued(u)' => u = s \/ Queued(u)
<1>1. queue' \in Seq(Submissions) /\ Len(queue') = Len(queue) + 1 /\ queue'[Len(queue) + 1] = s
      /\ \A i \in 1 .. Len(queue) : queue'[i] = queue[i]
    BY DEF TypeOK
<1>2. Len(queue) \in Nat
    BY DEF TypeOK
<1>3. ASSUME NEW u \in Submissions, NEW i \in 1 .. Len(queue'), queue'[i] = u
      PROVE  u = s \/ Queued(u)
    <2>1. i = Len(queue) + 1 \/ i \in 1 .. Len(queue)
        BY <1>1, <1>2
    <2>. QED BY <1>1, <1>3, <2>1 DEF Queued
<1>. QED BY <1>1, <1>3 DEF Queued

\* The candidate is recorded with the pull.
LEMMA SelectEffect ==
    ASSUME TypeOK, NEW r \in Requests, NEW c \in Submissions \cup {None},
           pull' = [pull EXCEPT ![r].pc = "selected", ![r].candidate = c]
    PROVE  /\ pull' \in [Requests -> PullState]
           /\ pull'[r].pc = "selected" /\ pull'[r].nonce = pull[r].nonce
           /\ \A q \in Requests \ {r} : pull'[q] = pull[q]
<1>. DEFINE new == [pull[r] EXCEPT !.pc = "selected", !.candidate = c]
<1>1. pull[r] \in PullState
    BY DEF TypeOK
<1>2. new \in PullState /\ new.pc = "selected" /\ new.nonce = pull[r].nonce
    BY <1>1 DEF PullState
<1>3. pull' = [pull EXCEPT ![r] = new]
    BY DEF TypeOK
<1>. HIDE DEF new
<1>4. pull'[r] = new /\ pull' \in [Requests -> PullState] /\ \A q \in Requests \ {r} : pull'[q] = pull[q]
    BY <1>2, <1>3 DEF TypeOK
<1>. QED BY <1>2, <1>4

\* A pull ends.
LEMMA EndEffect ==
    ASSUME TypeOK, NEW r \in Requests, pull' = [pull EXCEPT ![r] = NoPull]
    PROVE  /\ pull' \in [Requests -> PullState]
           /\ pull'[r].pc = "idle"
           /\ \A q \in Requests \ {r} : pull'[q] = pull[q]
<1>1. NoPull \in PullState /\ NoPull.pc = "idle"
    BY DEF NoPull, PullState
<1>. QED BY <1>1 DEF TypeOK

\* The record of an accepted pull outlives its window and the rate period.
LEMMA ExpiryCovers ==
    ASSUME TypeOK, NEW x \in Nonces
    PROVE  /\ RecordExpiry(x) \in Nat
           /\ proof[x].issuedAt \in Nat
           /\ proof[x].issuedAt + Window <= RecordExpiry(x)
<1>1. proof[x].issuedAt \in Nat /\ now \in Nat
    BY TimesAreNatural DEF TypeOK, SignedRequest, ClientTimes, Time
<1>. QED BY <1>1, TimesAreNatural DEF RecordExpiry

\* Every clock value that is stored is a number, so None is none of them.
LEMMA TimeFacts ==
    /\ None \notin Time /\ Time \subseteq Nat /\ ClientTimes \subseteq Nat
BY TimesAreNatural, NoneIsNoValue DEF Time, ClientTimes

-----------------------------------------------------------------------------
(***************************************************************************)
(* Types.                                                                  *)
(***************************************************************************)

\* No step leaves the rows of the tables.
LEMMA TypeStep ==
    ASSUME TypeOK, PullsSigned, [Next]_vars
    PROVE  TypeOK'
<1>. USE DEF nodeVars, taskVars, pullVars
<1>1. ASSUME NEW s \in Submissions, NEW k \in EncryptionKeys, NEW i \in ClientTimes, NEW e \in ClientTimes,
             Submit(s, k, i, e)
      PROVE  TypeOK'
    <2>1. [key |-> k, issuedAt |-> i, expiresAt |-> e, purged |-> FALSE] \in SubmissionRow
        BY DEF SubmissionRow
    <2>2. queue' \in Seq(Submissions)
        BY <1>1, QueuedAfter DEF Submit
    <2>. QED BY <1>1, <2>1, <2>2 DEF Submit, TypeOK
<1>2. ASSUME NEW s \in Submissions, EditTask(s) \/ ChangeAccess(s)
      PROVE  TypeOK'
    BY <1>2 DEF EditTask, ChangeAccess, TypeOK
<1>3. ASSUME NEW s \in Submissions, Purge(s)
      PROVE  TypeOK'
    <2>1. [row[s] EXCEPT !.purged = TRUE] \in SubmissionRow
        BY DEF TypeOK, SubmissionRow
    <2>. QED BY <1>3, <2>1 DEF Purge, TypeOK
<1>4. ASSUME NEW k \in SigningKeys, NEW e \in EncryptionKeys, RotateKeys(k, e)
      PROVE  TypeOK'
    <2>1. encryption' \in [EncryptionKeys -> KeyRow]
        <3>1. [state |-> "active", retiredAt |-> None] \in KeyRow /\ [state |-> "retired", retiredAt |-> now] \in KeyRow
            BY DEF KeyRow, TypeOK
        <3>. QED BY <1>4, <3>1 DEF RotateKeys, TypeOK
    <2>2. signing' \in [SigningKeys -> {"none", "active", "retired"}]
        BY <1>4 DEF RotateKeys, TypeOK
    <2>. QED BY <1>4, <2>1, <2>2 DEF RotateKeys, TypeOK
<1>5. CASE RecordProof \/ Revoke
    BY <1>5 DEF RecordProof, Revoke, TypeOK
<1>6. ASSUME NEW x \in Nonces, NEW k \in SigningKeys, NEW i \in {now, now + Future}, SignRequest(x, k, i)
      PROVE  TypeOK'
    <2>1. i \in ClientTimes
        BY TimesAreNatural DEF TypeOK, Time, ClientTimes
    <2>2. [key |-> k, issuedAt |-> i] \in SignedRequest
        BY <2>1 DEF SignedRequest
    <2>. QED BY <1>6, <2>2 DEF SignRequest, TypeOK
<1>7. ASSUME NEW r \in Requests, NEW x \in Nonces, PullBegin(r, x)
      PROVE  TypeOK'
    <2>1. [pc |-> "verified", nonce |-> x, candidate |-> None] \in PullState
        BY DEF PullState
    <2>. QED BY <1>7, <2>1 DEF PullBegin, TypeOK
<1>8. ASSUME NEW r \in Requests, PullSelect(r)
      PROVE  TypeOK'
    <2>1. pull' \in [Requests -> PullState]
        BY <1>8, CandidateType, SelectEffect DEF PullSelect
    <2>. QED BY <1>8, <2>1 DEF PullSelect, TypeOK
<1>9. ASSUME NEW r \in Requests, PullCommit(r)
      PROVE  TypeOK'
    <2>. DEFINE x == pull[r].nonce
                s == pull[r].candidate
    <2>1. x \in Nonces /\ s \in Submissions \cup {None}
        BY <1>9 DEF PullCommit, PullsSigned, TypeOK, PullState
    <2>2. [nonce |-> x, createdAt |-> now, expiresAt |-> RecordExpiry(x)] \in LedgerRow
        BY <2>1, ExpiryCovers DEF LedgerRow, TypeOK
    <2>3. ledger' \subseteq LedgerRow
        BY <1>9, <2>2 DEF PullCommit, TypeOK
    <2>4. acceptedAt' \in [Nonces -> Seq(Time)]
        <3>1. Append(acceptedAt[x], now) \in Seq(Time)
            BY <2>1 DEF TypeOK
        <3>. QED BY <1>9, <3>1 DEF PullCommit, TypeOK
    <2>5. delivered' \subseteq Submissions \X Nonces
        BY <1>9, <2>1 DEF PullCommit, TypeOK
    <2>6. pull' \in [Requests -> PullState]
        BY <1>9, EndEffect DEF PullCommit
    <2>. QED BY <1>9, <2>3, <2>4, <2>5, <2>6 DEF PullCommit, TypeOK
<1>10. ASSUME NEW r \in Requests, PullAbort(r)
       PROVE  TypeOK'
    BY <1>10, EndEffect DEF PullAbort, TypeOK
<1>11. ASSUME NEW e \in ledger, PruneRequests(e)
       PROVE  TypeOK'
    BY <1>11 DEF PruneRequests, TypeOK
<1>12. CASE Tick
    <2>1. now + 1 \in Time
        BY <1>12, TimesAreNatural DEF Tick, TypeOK, Time
    <2>. QED BY <1>12, <2>1 DEF Tick, TypeOK
<1>13. CASE UNCHANGED vars
    BY <1>13 DEF vars, TypeOK
<1>. QED
    BY <1>1, <1>2, <1>3, <1>4, <1>5, <1>6, <1>7, <1>8, <1>9, <1>10, <1>11, <1>12, <1>13
       DEF Next, TaskStep, NodeStep, PullStep

-----------------------------------------------------------------------------
(***************************************************************************)
(* Envelopes.                                                              *)
(***************************************************************************)

\* Every step keeps envelopes within their lifetime and purged ones past it.
LEMMA EnvelopeStep ==
    ASSUME TypeOK, EnvelopeInv, [Next]_vars
    PROVE  EnvelopeInv'
<1>. USE DEF nodeVars, taskVars, pullVars
<1>1. ASSUME NEW s \in Submissions, NEW k \in EncryptionKeys, NEW i \in ClientTimes, NEW e \in ClientTimes,
             Submit(s, k, i, e)
      PROVE  EnvelopeInv'
    <2>1. /\ row'[s] = [key |-> k, issuedAt |-> i, expiresAt |-> e, purged |-> FALSE]
          /\ \A u \in Submissions \ {s} : row'[u] = row[u]
          /\ UNCHANGED <<encryption, now>>
        BY <1>1 DEF Submit, TypeOK
    <2>2. e <= i + Ttl
        BY <1>1, TimesAreNatural, TimeFacts DEF Submit, LifetimeAllowed
    <2>3. \A u \in Submissions : Queued(u)' => u = s \/ Queued(u)
        BY <1>1, QueuedAfter DEF Submit
    <2>4. EnvelopesBounded'
        BY <2>1, <2>2, <2>3 DEF EnvelopeInv, EnvelopesBounded
    <2>. QED BY <2>1, <2>4 DEF EnvelopeInv, RetirementsDated
<1>2. ASSUME NEW s \in Submissions, Purge(s)
      PROVE  EnvelopeInv'
    <2>1. row'[s] = [row[s] EXCEPT !.purged = TRUE] /\ \A u \in Submissions \ {s} : row'[u] = row[u]
        BY <1>2 DEF Purge, TypeOK
    <2>2. /\ row'[s].key = row[s].key /\ row'[s].issuedAt = row[s].issuedAt
          /\ row'[s].expiresAt = row[s].expiresAt
        BY <2>1 DEF TypeOK, SubmissionRow
    <2>3. EnvelopesBounded'
        BY <1>2, <2>1, <2>2 DEF Purge, Queued, EnvelopeInv, EnvelopesBounded
    <2>. QED BY <1>2, <2>3 DEF Purge, EnvelopeInv, RetirementsDated
<1>3. ASSUME NEW k \in SigningKeys, NEW e \in EncryptionKeys, RotateKeys(k, e)
      PROVE  EnvelopeInv'
    <2>1. RetirementsDated'
        BY <1>3 DEF RotateKeys, EnvelopeInv, RetirementsDated, TypeOK
    <2>. QED BY <1>3, <2>1 DEF RotateKeys, EnvelopeInv, EnvelopesBounded, Queued
<1>4. CASE Tick
    BY <1>4, TimeFacts DEF Tick, TypeOK, EnvelopeInv, EnvelopesBounded, RetirementsDated, Queued
<1>5. ASSUME UNCHANGED <<now, encryption, queue, row>> PROVE EnvelopeInv'
    BY <1>5 DEF EnvelopeInv, EnvelopesBounded, RetirementsDated, Queued
<1>6. ASSUME NEW s \in Submissions, EditTask(s) \/ ChangeAccess(s)
      PROVE  EnvelopeInv'
    BY <1>5, <1>6 DEF EditTask, ChangeAccess
<1>7. CASE RecordProof \/ Revoke \/ UNCHANGED vars
    BY <1>5, <1>7 DEF RecordProof, Revoke, vars
<1>8. ASSUME NEW x \in Nonces, NEW k \in SigningKeys, NEW i \in {now, now + Future}, SignRequest(x, k, i)
      PROVE  EnvelopeInv'
    BY <1>5, <1>8 DEF SignRequest
<1>9. CASE PullStep
    BY <1>5, <1>9 DEF PullStep, PullBegin, PullSelect, PullCommit, PullAbort, PruneRequests
<1>. QED
    BY <1>1, <1>2, <1>3, <1>4, <1>6, <1>7, <1>8, <1>9 DEF Next, TaskStep, NodeStep

\* An envelope dies before the grace of the key that was retired after it was issued.
LEMMA GraceCovers ==
    ASSUME TypeOK, EnvelopeInv
    PROVE  GraceNeverBinds
<1>. SUFFICES ASSUME NEW s \in Submissions, Queued(s), now < row[s].expiresAt,
                     encryption[row[s].key].state = "retired",
                     row[s].issuedAt <= encryption[row[s].key].retiredAt
              PROVE  KeyServes(s)
    BY DEF GraceNeverBinds
<1>1. /\ row[s].issuedAt \in Nat /\ row[s].expiresAt \in Nat /\ now \in Nat
      /\ encryption[row[s].key].retiredAt \in Nat
    BY TimeFacts DEF TypeOK, SubmissionRow, EnvelopeInv, EnvelopesBounded, RetirementsDated
<1>2. row[s].expiresAt <= row[s].issuedAt + Ttl
    BY DEF EnvelopeInv, EnvelopesBounded
<1>3. now < encryption[row[s].key].retiredAt + Grace
    BY <1>1, <1>2, TimesAreNatural, GraceCoversLifetime
<1>. QED BY <1>3 DEF KeyServes

-----------------------------------------------------------------------------
(***************************************************************************)
(* The ledger.                                                             *)
(***************************************************************************)

\* The count of recent rows that the rate check makes is no smaller than the
\* number of pulls accepted in the period.
LEMMA RecentBound ==
    ASSUME TypeOK, IsFiniteSet(ledger), RecentRemembered
    PROVE  /\ IsFiniteSet(RecentNonces)
           /\ Cardinality(RecentNonces) \in Nat /\ Recent \in Nat
           /\ Cardinality(RecentNonces) <= Recent
<1>. DEFINE T == {e \in RecentRows : e.nonce \in RecentNonces}
            f == [e \in T |-> e.nonce]
<1>1. IsFiniteSet(RecentRows) /\ Recent = Cardinality(RecentRows)
    <2>1. RecentRows \subseteq ledger
        BY DEF RecentRows
    <2>. QED BY <2>1, FS_Subset DEF Recent, RecentRows
<1>2. IsFiniteSet(T) /\ Cardinality(T) <= Cardinality(RecentRows)
    <2>1. T \subseteq RecentRows
        OBVIOUS
    <2>. QED BY <1>1, <2>1, FS_Subset
<1>3. \A x \in RecentNonces : \E e \in T : f[e] = x
    <2>. SUFFICES ASSUME NEW x \in RecentNonces
                  PROVE  \E e \in T : e.nonce = x
        OBVIOUS
    <2>1. PICK i \in 1 .. Len(acceptedAt[x]) : x \in Nonces /\ acceptedAt[x][i] > now - RatePeriod
        BY DEF RecentNonces
    <2>2. PICK e \in ledger : e.nonce = x /\ e.createdAt = acceptedAt[x][i]
        BY <2>1 DEF RecentRemembered
    <2>. QED BY <2>1, <2>2 DEF RecentRows
<1>4. f \in Surjection(T, RecentNonces)
    <2>1. f \in [T -> RecentNonces]
        OBVIOUS
    <2>. HIDE DEF f, T
    <2>. QED BY <1>3, <2>1 DEF Surjection
<1>. HIDE DEF f, T
<1>5. IsFiniteSet(RecentNonces) /\ Cardinality(RecentNonces) <= Cardinality(T)
    BY <1>2, <1>4, FS_Surjection
<1>6. Cardinality(RecentNonces) \in Nat /\ Cardinality(T) \in Nat /\ Cardinality(RecentRows) \in Nat
    BY <1>1, <1>2, <1>5, FS_CardinalityType
<1>. QED BY <1>1, <1>2, <1>5, <1>6

\* What an accepted pull changes: its nonce was not accepted before, it gets a
\* row, and one time is added for it.
LEMMA CommitEffect ==
    ASSUME TypeOK, LedgerInv, NEW r \in Requests, PullCommit(r)
    PROVE  \E x \in Nonces : \E e \in LedgerRow :
             /\ proof[x] # NoProof
             /\ e.nonce = x /\ e.createdAt = now /\ proof[x].issuedAt + Window <= e.expiresAt
             /\ ledger' = ledger \cup {e}
             /\ acceptedAt'[x] = <<now>>
             /\ \A y \in Nonces \ {x} : acceptedAt'[y] = acceptedAt[y]
             /\ Recent < RateLimit
<1>. DEFINE x == pull[r].nonce
            e == [nonce |-> x, createdAt |-> now, expiresAt |-> RecordExpiry(x)]
<1>1. x \in Nonces /\ proof[x] # NoProof
    BY DEF PullCommit, LedgerInv, PullsSigned
<1>2. e \in LedgerRow /\ e.nonce = x /\ e.createdAt = now /\ proof[x].issuedAt + Window <= e.expiresAt
    BY <1>1, ExpiryCovers DEF LedgerRow, TypeOK
<1>3. ledger' = ledger \cup {e} /\ Recent < RateLimit
    BY DEF PullCommit
<1>4. Len(acceptedAt[x]) = 0
    <2>1. Len(acceptedAt[x]) \in Nat
        BY <1>1 DEF TypeOK
    <2>2. ~\E d \in ledger : d.nonce = x
        BY DEF PullCommit
    <2>3. now < proof[x].issuedAt + Window
        BY DEF PullCommit, WithinWindow
    <2>4. proof[x].issuedAt \in Nat /\ now \in Nat
        BY <1>1, ExpiryCovers, TimeFacts DEF TypeOK
    <2>5. ~(proof[x].issuedAt + Window <= now)
        BY <2>3, <2>4, TimesAreNatural
    <2>. QED BY <1>1, <2>1, <2>2, <2>5 DEF LedgerInv, AcceptedRemembered
<1>5. acceptedAt[x] = <<>>
    BY <1>1, <1>4 DEF TypeOK
<1>6. acceptedAt'[x] = <<now>> /\ \A y \in Nonces \ {x} : acceptedAt'[y] = acceptedAt[y]
    <2>1. acceptedAt' = [acceptedAt EXCEPT ![x] = Append(acceptedAt[x], now)]
        BY DEF PullCommit
    <2>2. Append(acceptedAt[x], now) = <<now>>
        BY <1>5
    <2>. QED BY <1>1, <2>1, <2>2 DEF TypeOK
<1>. HIDE DEF e
<1>. QED BY <1>1, <1>2, <1>3, <1>6

\* Every step keeps the ledger large enough for replay and rate checks.
LEMMA LedgerStep ==
    ASSUME TypeOK, LedgerInv, [Next]_vars
    PROVE  LedgerInv'
<1>. USE DEF nodeVars, taskVars, pullVars
<1>. DEFINE Kept == UNCHANGED <<now, proof, ledger, acceptedAt>>
<1>0. /\ now \in Nat
      /\ \A x \in Nonces : proof[x].issuedAt \in Nat
      /\ \A e \in ledger : e.nonce \in Nonces /\ e.createdAt \in Nat /\ e.expiresAt \in Nat
      /\ \A x \in Nonces : Len(acceptedAt[x]) \in Nat
                           /\ \A i \in 1 .. Len(acceptedAt[x]) : acceptedAt[x][i] \in Nat
    <2>1. now \in Nat /\ \A x \in Nonces : proof[x].issuedAt \in Nat
        BY TimeFacts, ExpiryCovers DEF TypeOK
    <2>2. \A e \in ledger : e.nonce \in Nonces /\ e.createdAt \in Nat /\ e.expiresAt \in Nat
        BY TimeFacts DEF TypeOK, LedgerRow
    <2>3. ASSUME NEW x \in Nonces
          PROVE  Len(acceptedAt[x]) \in Nat /\ \A i \in 1 .. Len(acceptedAt[x]) : acceptedAt[x][i] \in Nat
        <3>1. acceptedAt[x] \in Seq(Time)
            BY DEF TypeOK
        <3>2. Len(acceptedAt[x]) \in Nat /\ \A i \in 1 .. Len(acceptedAt[x]) : acceptedAt[x][i] \in Time
            BY <3>1
        <3>. QED BY <3>2, TimeFacts
    <2>. QED BY <2>1, <2>2, <2>3
<1>1. ASSUME Kept, PullsSigned', EventBeforeProof' PROVE LedgerInv'
    BY <1>1 DEF LedgerInv, RowsOutlive, AcceptedRemembered, RecentRemembered, NonceAcceptedOnce, RateHeld
<1>2. ASSUME Kept, UNCHANGED <<lastProofAt, lastEventAt, pull>> PROVE LedgerInv'
    BY <1>1, <1>2 DEF LedgerInv, PullsSigned, EventBeforeProof
<1>3. CASE TaskStep \/ UNCHANGED vars
    BY <1>2, <1>3 DEF TaskStep, Submit, EditTask, ChangeAccess, Purge, vars
<1>4. CASE Revoke
    BY <1>2, <1>4 DEF Revoke
<1>5. ASSUME RecordProof \/ \E k \in SigningKeys, e \in EncryptionKeys : RotateKeys(k, e)
      PROVE  LedgerInv'
    <2>1. Kept /\ UNCHANGED <<pull, lastEventAt>> /\ lastProofAt' = now
        BY <1>5 DEF RecordProof, RotateKeys
    <2>2. lastProofAt' # None
        BY <2>1, TimeFacts DEF TypeOK
    <2>3. EventBeforeProof'
        <3>1. lastEventAt # None => lastEventAt \in Nat /\ lastProofAt \in Nat /\ lastEventAt <= lastProofAt
                                    /\ lastProofAt <= now
            BY TimeFacts DEF LedgerInv, EventBeforeProof, TypeOK
        <3>2. lastEventAt # None => lastEventAt <= now
            BY <1>0, <3>1
        <3>. QED BY <1>0, <2>1, <2>2, <3>2 DEF EventBeforeProof
    <2>4. PullsSigned'
        BY <2>1 DEF LedgerInv, PullsSigned
    <2>. QED BY <1>1, <2>1, <2>3, <2>4
<1>6. ASSUME NEW x \in Nonces, NEW k \in SigningKeys, NEW i \in {now, now + Future}, SignRequest(x, k, i)
      PROVE  LedgerInv'
    <2>1. /\ UNCHANGED <<now, ledger, acceptedAt, lastProofAt, lastEventAt, pull>>
          /\ proof[x] = NoProof
          /\ \A y \in Nonces \ {x} : proof'[y] = proof[y]
        BY <1>6 DEF SignRequest, TypeOK
    <2>2. \A y \in Nonces : proof[y] # NoProof => proof'[y] = proof[y]
        BY <2>1
    <2>3. PullsSigned'
        BY <2>1, <2>2 DEF LedgerInv, PullsSigned
    <2>4. RowsOutlive'
        BY <1>0, <2>1, <2>2 DEF LedgerInv, RowsOutlive
    <2>5. AcceptedRemembered'
        BY <2>1, <2>2 DEF LedgerInv, AcceptedRemembered
    <2>. QED BY <2>1, <2>3, <2>4, <2>5
         DEF LedgerInv, EventBeforeProof, RecentRemembered, NonceAcceptedOnce, RateHeld
<1>7. ASSUME NEW r \in Requests, NEW x \in Nonces, PullBegin(r, x)
      PROVE  LedgerInv'
    <2>1. Kept /\ EventBeforeProof'
        BY <1>7 DEF PullBegin, LedgerInv, EventBeforeProof
    <2>2. PullsSigned'
        BY <1>7 DEF PullBegin, LedgerInv, PullsSigned, TypeOK
    <2>. QED BY <1>1, <2>1, <2>2
<1>8. ASSUME NEW r \in Requests, PullSelect(r)
      PROVE  LedgerInv'
    <2>1. Kept /\ EventBeforeProof' /\ pull[r].pc # "idle"
        BY <1>8 DEF PullSelect, LedgerInv, EventBeforeProof
    <2>2. pull'[r].nonce = pull[r].nonce /\ \A q \in Requests \ {r} : pull'[q] = pull[q]
        BY <1>8, CandidateType, SelectEffect DEF PullSelect
    <2>3. PullsSigned'
        BY <2>1, <2>2 DEF LedgerInv, PullsSigned
    <2>. QED BY <1>1, <2>1, <2>3
<1>9. ASSUME NEW r \in Requests, PullAbort(r)
      PROVE  LedgerInv'
    <2>1. Kept /\ EventBeforeProof'
        BY <1>9 DEF PullAbort, LedgerInv, EventBeforeProof
    <2>2. PullsSigned'
        BY <1>9, <2>1, EndEffect DEF PullAbort, LedgerInv, PullsSigned
    <2>. QED BY <1>1, <2>1, <2>2
<1>10. ASSUME NEW r \in Requests, PullCommit(r)
       PROVE  LedgerInv'
    <2>1. PICK x \in Nonces, e \in LedgerRow :
             /\ proof[x] # NoProof
             /\ e.nonce = x /\ e.createdAt = now /\ proof[x].issuedAt + Window <= e.expiresAt
             /\ ledger' = ledger \cup {e}
             /\ acceptedAt'[x] = <<now>>
             /\ \A y \in Nonces \ {x} : acceptedAt'[y] = acceptedAt[y]
             /\ Recent < RateLimit
        BY <1>10, CommitEffect
    <2>2. UNCHANGED <<now, proof>>
        BY <1>10 DEF PullCommit
    <2>3. Len(acceptedAt'[x]) = 1 /\ acceptedAt'[x][1] = now
        BY <2>1
    <2>4. PullsSigned'
        BY <1>10, <2>2, EndEffect DEF PullCommit, LedgerInv, PullsSigned
    <2>5. EventBeforeProof'
        <3>1. lastProofAt' = now /\ lastProofAt' # None /\ (lastEventAt' = now \/ lastEventAt' = lastEventAt)
            BY <1>10, TimeFacts DEF PullCommit, TypeOK
        <3>2. lastEventAt # None => lastEventAt \in Nat /\ lastProofAt \in Nat /\ lastEventAt <= lastProofAt
                                    /\ lastProofAt <= now
            BY TimeFacts DEF LedgerInv, EventBeforeProof, TypeOK
        <3>3. lastEventAt # None => lastEventAt <= now
            BY <1>0, <3>2
        <3>. QED BY <1>0, <2>2, <3>1, <3>3 DEF EventBeforeProof
    <2>6. IsFiniteSet(ledger')
        BY <2>1, FS_AddElement DEF LedgerInv
    <2>7. RowsOutlive'
        BY <2>1, <2>2 DEF LedgerInv, RowsOutlive
    <2>8. AcceptedRemembered'
        BY <2>1, <2>2 DEF LedgerInv, AcceptedRemembered
    <2>9. RecentRemembered'
        <3>. SUFFICES ASSUME NEW y \in Nonces, NEW i \in 1 .. Len(acceptedAt'[y]),
                             acceptedAt'[y][i] > now - RatePeriod
                      PROVE  \E d \in ledger' : d.nonce = y /\ d.createdAt = acceptedAt'[y][i]
            BY <2>2 DEF RecentRemembered
        <3>1. CASE y = x
            <4>1. i = 1
                BY <2>3, <3>1
            <4>. QED BY <2>1, <2>3, <3>1, <4>1
        <3>2. CASE y # x
            <4>1. acceptedAt'[y] = acceptedAt[y]
                BY <2>1, <3>2
            <4>2. \E d \in ledger : d.nonce = y /\ d.createdAt = acceptedAt[y][i]
                BY <4>1 DEF LedgerInv, RecentRemembered
            <4>. QED BY <2>1, <4>1, <4>2
        <3>. QED BY <3>1, <3>2
    <2>10. NonceAcceptedOnce'
        <3>1. \A y \in Nonces \ {x} : Len(acceptedAt'[y]) <= 1
            BY <2>1 DEF LedgerInv, NonceAcceptedOnce
        <3>2. Len(acceptedAt'[x]) <= 1
            BY <2>3
        <3>. QED BY <3>1, <3>2 DEF NonceAcceptedOnce
    <2>11. RateHeld'
        <3>1. RecentNonces' \subseteq RecentNonces \cup {x}
            BY <2>1, <2>2 DEF RecentNonces
        <3>2. IsFiniteSet(RecentNonces) /\ Cardinality(RecentNonces) \in Nat /\ Recent \in Nat
              /\ Cardinality(RecentNonces) <= Recent
            BY RecentBound DEF LedgerInv
        <3>3. IsFiniteSet(RecentNonces \cup {x})
              /\ Cardinality(RecentNonces \cup {x}) <= Cardinality(RecentNonces) + 1
              /\ Cardinality(RecentNonces \cup {x}) \in Nat
            <4>1. IsFiniteSet(RecentNonces \cup {x})
                  /\ (Cardinality(RecentNonces \cup {x}) = Cardinality(RecentNonces)
                      \/ Cardinality(RecentNonces \cup {x}) = Cardinality(RecentNonces) + 1)
                BY <3>2, FS_AddElement, Zenon
            <4>. QED BY <3>2, <4>1
        <3>4. Cardinality(RecentNonces') <= Cardinality(RecentNonces \cup {x}) /\ Cardinality(RecentNonces') \in Nat
            BY <3>1, <3>3, FS_Subset, FS_CardinalityType
        <3>5. Cardinality(RecentNonces') <= RateLimit
            BY <2>1, <3>2, <3>3, <3>4, TimesAreNatural
        <3>. QED BY <3>5 DEF RateHeld, RecentNonces
    <2>. QED BY <2>4, <2>5, <2>6, <2>7, <2>8, <2>9, <2>10, <2>11 DEF LedgerInv
<1>11. ASSUME NEW d \in ledger, PruneRequests(d)
       PROVE  LedgerInv'
    <2>1. /\ UNCHANGED <<now, proof, acceptedAt, lastProofAt, lastEventAt, pull>>
          /\ ledger' = ledger \ {d} /\ d.expiresAt <= now /\ d.createdAt <= now - RatePeriod
        BY <1>11 DEF PruneRequests
    <2>2. IsFiniteSet(ledger')
        BY <2>1, FS_RemoveElement DEF LedgerInv
    <2>3. RowsOutlive'
        BY <2>1 DEF LedgerInv, RowsOutlive
    <2>4. AcceptedRemembered'
        <3>1. proof[d.nonce].issuedAt + Window <= now
            <4>1. proof[d.nonce].issuedAt + Window <= d.expiresAt
                BY DEF LedgerInv, RowsOutlive
            <4>. QED BY <1>0, <2>1, <4>1, TimesAreNatural
        <3>. QED BY <2>1, <3>1 DEF LedgerInv, AcceptedRemembered
    <2>5. RecentRemembered'
        <3>. SUFFICES ASSUME NEW y \in Nonces, NEW i \in 1 .. Len(acceptedAt[y]),
                             acceptedAt[y][i] > now - RatePeriod
                      PROVE  \E e \in ledger' : e.nonce = y /\ e.createdAt = acceptedAt[y][i]
            BY <2>1 DEF RecentRemembered
        <3>1. PICK e \in ledger : e.nonce = y /\ e.createdAt = acceptedAt[y][i]
            BY DEF LedgerInv, RecentRemembered
        <3>2. e # d
            BY <1>0, <2>1, <3>1, TimesAreNatural
        <3>. QED BY <2>1, <3>1, <3>2
    <2>. QED BY <2>1, <2>2, <2>3, <2>4, <2>5
         DEF LedgerInv, PullsSigned, EventBeforeProof, NonceAcceptedOnce, RateHeld
<1>12. CASE Tick
    <2>1. now' = now + 1 /\ UNCHANGED <<proof, ledger, acceptedAt, lastProofAt, lastEventAt, pull>>
        BY <1>12 DEF Tick
    <2>2. EventBeforeProof'
        <3>1. lastProofAt # None => lastProofAt \in Nat
            BY TimeFacts DEF TypeOK
        <3>. QED BY <1>0, <2>1, <3>1 DEF LedgerInv, EventBeforeProof
    <2>3. AcceptedRemembered'
        BY <1>0, <2>1, TimesAreNatural DEF LedgerInv, AcceptedRemembered
    <2>4. RecentRemembered'
        <3>1. \A y \in Nonces : \A i \in 1 .. Len(acceptedAt[y]) :
                 acceptedAt[y][i] > now' - RatePeriod => acceptedAt[y][i] > now - RatePeriod
            BY <1>0, <2>1, TimesAreNatural
        <3>. QED BY <2>1, <3>1 DEF LedgerInv, RecentRemembered
    <2>5. RateHeld'
        <3>1. RecentNonces' \subseteq RecentNonces
            BY <1>0, <2>1, TimesAreNatural DEF RecentNonces
        <3>2. IsFiniteSet(RecentNonces) /\ Cardinality(RecentNonces) \in Nat
            BY RecentBound DEF LedgerInv
        <3>3. Cardinality(RecentNonces') <= Cardinality(RecentNonces) /\ Cardinality(RecentNonces') \in Nat
            BY <3>1, <3>2, FS_Subset, FS_CardinalityType
        <3>4. Cardinality(RecentNonces) <= RateLimit
            BY DEF LedgerInv, RateHeld, RecentNonces
        <3>5. Cardinality(RecentNonces') <= RateLimit
            BY <3>2, <3>3, <3>4, TimesAreNatural
        <3>. QED BY <3>5 DEF RateHeld, RecentNonces
    <2>. QED BY <2>1, <2>2, <2>3, <2>4, <2>5
         DEF LedgerInv, PullsSigned, RowsOutlive, NonceAcceptedOnce
<1>. QED
    BY <1>3, <1>4, <1>5, <1>6, <1>7, <1>8, <1>9, <1>10, <1>11, <1>12 DEF Next, NodeStep, PullStep

-----------------------------------------------------------------------------
(***************************************************************************)
(* The theorems.                                                           *)
(***************************************************************************)

\* The initial states satisfy the invariant.
LEMMA InitInv == Init => Inv
<1>. SUFFICES ASSUME Init PROVE Inv
    OBVIOUS
<1>0. 0 \in Time /\ 0 \in ClientTimes /\ 0 \in Nat
    BY TimesAreNatural DEF Time, ClientTimes
<1>1. /\ NoRow \in SubmissionRow /\ NoProof \in SignedRequest /\ NoPull \in PullState
      /\ NoPull.pc = "idle" /\ NoRow.purged = FALSE
    BY <1>0 DEF NoRow, NoProof, NoPull, SubmissionRow, SignedRequest, PullState
<1>2. PICK k \in EncryptionKeys :
        encryption = [j \in EncryptionKeys |-> [state |-> IF j = k THEN "active" ELSE "none", retiredAt |-> None]]
    BY DEF Init
<1>3. encryption \in [EncryptionKeys -> KeyRow] /\ RetirementsDated
    BY <1>2 DEF KeyRow, RetirementsDated
<1>4. queue = <<>> /\ queue \in Seq(Submissions) /\ Len(queue) = 0
    BY DEF Init
<1>5. acceptedAt \in [Nonces -> Seq(Time)] /\ \A x \in Nonces : Len(acceptedAt[x]) = 0
    BY DEF Init
<1>6. TypeOK
    BY <1>0, <1>1, <1>3, <1>4, <1>5 DEF Init, TypeOK
<1>7. EnvelopeInv
    BY <1>1, <1>3, <1>4 DEF Init, EnvelopeInv, EnvelopesBounded, Queued
<1>8. PullsSigned /\ EventBeforeProof /\ RowsOutlive /\ AcceptedRemembered /\ RecentRemembered /\ NonceAcceptedOnce
    BY <1>1, <1>5 DEF Init, PullsSigned, EventBeforeProof, RowsOutlive, AcceptedRemembered, RecentRemembered,
                      NonceAcceptedOnce
<1>9. IsFiniteSet(ledger)
    BY FS_EmptySet DEF Init
<1>10. RateHeld
    <2>1. RecentNonces = {}
        BY <1>5 DEF RecentNonces
    <2>2. Cardinality(RecentNonces) <= RateLimit
        BY <2>1, FS_EmptySet, TimesAreNatural
    <2>. QED BY <2>2 DEF RateHeld, RecentNonces
<1>. QED BY <1>6, <1>7, <1>8, <1>9, <1>10 DEF Inv, LedgerInv

\* Every step keeps the invariant.
LEMMA InvStep == Inv /\ [Next]_vars => Inv'
BY TypeStep, EnvelopeStep, LedgerStep DEF Inv, LedgerInv

\* The inductive invariant holds in every reachable state.
THEOREM Invariant == Spec => []Inv
BY InitInv, InvStep, PTL DEF Spec

\* The rows of every table keep their types, whatever pulls, rotations, revocations
\* and cleanups interleave.
THEOREM TypeCorrect == Spec => []TypeOK
<1>1. Inv => TypeOK
    BY DEF Inv
<1>. QED BY Invariant, <1>1, PTL

\* A signed pull is accepted at most once, however often it is presented and although
\* ledger rows are pruned.
THEOREM ReplayRefused == Spec => []NonceAcceptedOnce
<1>1. Inv => NonceAcceptedOnce
    BY DEF Inv, LedgerInv
<1>. QED BY Invariant, <1>1, PTL

\* No rate period holds more accepted pulls than the limit, across concurrent pulls
\* and pruning.
THEOREM RateLimited == Spec => []RateHeld
<1>1. Inv => RateHeld
    BY DEF Inv, LedgerInv
<1>. QED BY Invariant, <1>1, PTL

\* The grace of a retired encryption key never ends before an envelope issued under it.
THEOREM GraceSuffices == Spec => []GraceNeverBinds
<1>1. Inv => GraceNeverBinds
    BY GraceCovers DEF Inv
<1>. QED BY Invariant, <1>1, PTL

\* Two proof events published by pulls are a rate period apart.
THEOREM ProofEventsThrottled == Spec => EventsThrottled
<1>1. ASSUME Inv, [Next]_vars
      PROVE  [lastEventAt' # lastEventAt /\ lastEventAt # None => lastEventAt' - lastEventAt >= RatePeriod]_vars
    <2>. SUFFICES ASSUME lastEventAt' # lastEventAt, lastEventAt # None
                  PROVE  lastEventAt' - lastEventAt >= RatePeriod
        OBVIOUS
    <2>1. PICK r \in Requests : PullCommit(r)
        BY <1>1 DEF Next, TaskStep, NodeStep, PullStep, Submit, EditTask, ChangeAccess, Purge, RotateKeys, RecordProof,
                    Revoke, SignRequest, PullBegin, PullSelect, PullAbort, PruneRequests, Tick, vars, pullVars
    <2>2. lastEventAt' = now /\ PublishesProof
        BY <2>1 DEF PullCommit
    <2>3. lastProofAt # None /\ lastEventAt <= lastProofAt
        BY <1>1 DEF Inv, LedgerInv, EventBeforeProof
    <2>4. lastProofAt \in Nat /\ lastEventAt \in Nat /\ now \in Nat
        BY <1>1, <2>3, TimeFacts DEF Inv, TypeOK
    <2>5. now - lastProofAt >= RatePeriod
        BY <2>2, <2>3 DEF PublishesProof
    <2>. QED BY <2>2, <2>3, <2>4, <2>5, TimesAreNatural
<1>. QED BY Invariant, <1>1, PTL DEF Spec, EventsThrottled

\* A command is released only while the node is paired, its signing key active, and
\* task, submitter, conversation and ciphertext are still good: all of them as they
\* are in the committing step, not as they were when the pull chose its candidate.
THEOREM CurrentAuthority == Spec => ReleasedUnderCurrentAuthority
<1>. DEFINE Released ==
        \A d \in delivered' \ delivered :
            /\ paired /\ signing[proof[d[2]].key] = "active"
            /\ current[d[1]] /\ authorized[d[1]] /\ open[d[1]]
            /\ now < row[d[1]].expiresAt /\ ~row[d[1]].purged
<1>1. ASSUME Inv, [Next]_vars
      PROVE  [Released]_vars
    <2>. SUFFICES ASSUME NEW d \in delivered' \ delivered
                  PROVE  /\ paired /\ signing[proof[d[2]].key] = "active"
                         /\ current[d[1]] /\ authorized[d[1]] /\ open[d[1]]
                         /\ now < row[d[1]].expiresAt /\ ~row[d[1]].purged
        OBVIOUS
    <2>1. PICK r \in Requests : PullCommit(r)
        BY <1>1 DEF Next, TaskStep, NodeStep, PullStep, Submit, EditTask, ChangeAccess, Purge, RotateKeys, RecordProof,
                    Revoke, SignRequest, PullBegin, PullSelect, PullAbort, PruneRequests, Tick, vars, pullVars
    <2>2. d = <<pull[r].candidate, pull[r].nonce>> /\ Deliverable(pull[r].candidate) /\ Authentic(pull[r].nonce)
        BY <2>1 DEF PullCommit
    <2>. QED BY <2>2 DEF Deliverable, Authentic
<1>. QED BY Invariant, <1>1, PTL DEF Spec, ReleasedUnderCurrentAuthority

=============================================================================
