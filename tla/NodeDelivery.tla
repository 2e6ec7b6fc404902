---------------------------- MODULE NodeDelivery ----------------------------
(***************************************************************************)
(* Outbound delivery of encrypted task commands to one runtime node:       *)
(* admission of a submission, the node's signed pulls, key rotation,       *)
(* revocation, expiry cleanup and the nonce ledger                         *)
(* (packages/db/src/runtime-node-delivery.ts, task-submissions.ts and      *)
(* task-submission-retention.ts).                                          *)
(*                                                                         *)
(* Time is a bounded clock.  A pull is three steps: the checks made before *)
(* the transaction, the choice of a candidate under the node's advisory    *)
(* lock, and the part of the transaction that holds the task, agent, node  *)
(* and key rows and commits.  Tasks, members, keys and the clock may move  *)
(* between the steps.  Admission runs under the same row locks and is one  *)
(* action; its replays and conflicts change nothing here.                  *)
(***************************************************************************)
EXTENDS Integers, Sequences, FiniteSets

CONSTANTS
    Submissions,     \* task submissions that may be made
    SigningKeys,     \* versions of the node's signing key
    EncryptionKeys,  \* versions of the node's command-encryption key
    Nonces,          \* nonces of signed pull requests
    Requests,        \* pull requests being served at the same time
    MaxTime,         \* bound of the clock
    Window,          \* RUNTIME_NODE_PULL_WINDOW_MS
    Future,          \* RUNTIME_NODE_PULL_FUTURE_MS, tolerated clock advance
    RatePeriod,      \* one minute
    RateLimit,       \* RUNTIME_NODE_PULLS_PER_MINUTE
    Ttl,             \* MAX_REMOTE_CONTENT_TTL_MS
    Grace,           \* how long a retired encryption key serves
    None

ASSUME TimesAreNatural ==
    /\ MaxTime \in Nat /\ Window \in Nat /\ Future \in Nat /\ RatePeriod \in Nat
    /\ RateLimit \in Nat /\ Ttl \in Nat /\ Grace \in Nat
ASSUME PeriodPositive == RatePeriod > 0
ASSUME GraceCoversLifetime == Ttl <= Grace
ASSUME NoneIsNoValue == None \notin Submissions \cup SigningKeys \cup EncryptionKeys \cup Int

Time == 0 .. MaxTime

VARIABLES
    now,          \* the clock
    paired,       \* the node's pairing state is "paired"
    signing,      \* SigningKeys -> "none", "active" or "retired"
    encryption,   \* EncryptionKeys -> [state, retiredAt]
    lastProofAt,  \* runtime_nodes.last_proof_at
    lastEventAt,  \* when runtime_node.proof_accepted was last published by a pull
    queue,        \* admitted submissions, oldest first
    row,          \* Submissions -> the stored envelope's key, times and purge mark
    current,      \* Submissions -> task and agent still are what was submitted
    authorized,   \* Submissions -> the submitter may still write to the project
    open,         \* Submissions -> the task's conversation is active
    proof,        \* Nonces -> the signed request carrying the nonce
    ledger,       \* runtime_node_delivery_requests
    acceptedAt,   \* Nonces -> times at which a request with the nonce was accepted
    delivered,    \* <<submission, nonce>> pairs of released commands
    pull          \* Requests -> local state

nodeVars == <<paired, signing, encryption>>
taskVars == <<queue, row, current, authorized, open>>
pullVars == <<lastProofAt, lastEventAt, ledger, acceptedAt, delivered>>
vars == <<now, nodeVars, taskVars, proof, pullVars, pull>>

NoRow == [key |-> None, issuedAt |-> 0, expiresAt |-> 0, purged |-> FALSE]
NoProof == [key |-> None, issuedAt |-> 0]
NoPull == [pc |-> "idle", nonce |-> None, candidate |-> None]

\* How far the clock of a client may run ahead and still be admitted.
ClientTimes == 0 .. (MaxTime + Future)

Queued(s) == \E i \in 1 .. Len(queue) : queue[i] = s
ActiveSigning == {k \in SigningKeys : signing[k] = "active"}

(***************************************************************************)
(* Admission and what can happen to the task afterwards.                   *)
(***************************************************************************)

\* Mutant: the lifetime is not bounded.
AnyLifetime(issued, expires) == issued < expires /\ now < expires /\ issued <= now + Future

\* An envelope lives at most Ttl, has not expired and is not from the future.
LifetimeAllowed(issued, expires) ==
    issued < expires /\ now < expires /\ expires - issued <= Ttl /\ issued <= now + Future

\* enqueueTaskSubmission: the envelope names an active encryption key of a
\* paired node and is inside its lifetime; outbox and submission rows commit.
\* An offline node is no obstacle to a caller that asks to queue.
Submit(s, k, issued, expires) ==
    /\ ~Queued(s)
    /\ paired /\ ActiveSigning # {} /\ encryption[k].state = "active"
    /\ LifetimeAllowed(issued, expires)
    /\ queue' = Append(queue, s)
    /\ row' = [row EXCEPT ![s] =
          [key |-> k, issuedAt |-> issued, expiresAt |-> expires, purged |-> FALSE]]
    /\ UNCHANGED <<now, nodeVars, current, authorized, open, proof, pullVars, pull>>

\* The task gets a new version, leaves created/queued, gains an execution
\* reference, or its agent's profile changes: the submission is out of date.
EditTask(s) ==
    /\ Queued(s) /\ current[s]
    /\ current' = [current EXCEPT ![s] = FALSE]
    /\ UNCHANGED <<now, nodeVars, queue, row, authorized, open, proof, pullVars, pull>>

\* Membership, project or conversation of the task change, in either direction.
ChangeAccess(s) ==
    /\ Queued(s)
    /\ \/ authorized' = [authorized EXCEPT ![s] = ~authorized[s]] /\ UNCHANGED open
       \/ open' = [open EXCEPT ![s] = ~open[s]] /\ UNCHANGED authorized
    /\ UNCHANGED <<now, nodeVars, queue, row, current, proof, pullVars, pull>>

Purgeable(s) == ~row[s].purged /\ row[s].expiresAt <= now

\* purgeExpiredTaskSubmissionCiphertext removes the envelope of an expired row.
Purge(s) ==
    /\ Queued(s) /\ Purgeable(s)
    /\ row' = [row EXCEPT ![s].purged = TRUE]
    /\ UNCHANGED <<now, nodeVars, queue, current, authorized, open, proof, pullVars, pull>>

(***************************************************************************)
(* Keys and revocation: each holds the node's row lock.                    *)
(***************************************************************************)
\* A rotation presents both keys; one that is current already just stays.
RotateKeys(k, e) ==
    /\ paired
    /\ signing[k] \in {"none", "active"} /\ encryption[e].state \in {"none", "active"}
    /\ signing' = [j \in SigningKeys |->
          IF j = k THEN "active" ELSE IF signing[j] = "active" THEN "retired" ELSE signing[j]]
    /\ encryption' = [j \in EncryptionKeys |->
          IF j = e THEN [state |-> "active", retiredAt |-> None]
          ELSE IF encryption[j].state = "active" THEN [state |-> "retired", retiredAt |-> now]
          ELSE encryption[j]]
    /\ lastProofAt' = now
    /\ UNCHANGED <<now, paired, taskVars, proof, lastEventAt, ledger, acceptedAt, delivered,
                   pull>>

\* recordRuntimeNodeProof: a liveness proof outside the pull path.
RecordProof ==
    /\ paired
    /\ lastProofAt' = now
    /\ UNCHANGED <<now, nodeVars, taskVars, proof, lastEventAt, ledger, acceptedAt, delivered,
                   pull>>

Revoke ==
    /\ paired
    /\ paired' = FALSE
    /\ UNCHANGED <<now, signing, encryption, taskVars, proof, pullVars, pull>>

(***************************************************************************)
(* Pulls.                                                                  *)
(***************************************************************************)

\* The node signs a request with a key it holds; its clock may be ahead.  The
\* network may deliver the request late and any number of times.
SignRequest(x, k, issued) ==
    /\ proof[x] = NoProof
    /\ signing[k] # "none"
    /\ proof' = [proof EXCEPT ![x] = [key |-> k, issuedAt |-> issued]]
    /\ UNCHANGED <<now, nodeVars, taskVars, pullVars, pull>>

\* Mutant: a request is still accepted at the instant its record may be pruned.
WithinClosedWindow(x) ==
    now <= proof[x].issuedAt + Window /\ proof[x].issuedAt <= now + Future

WithinWindow(x) == now < proof[x].issuedAt + Window /\ proof[x].issuedAt <= now + Future

\* The signature is made with the node's active signing key, and it is paired.
Authentic(x) == paired /\ signing[proof[x].key] = "active"

PullBegin(r, x) ==
    /\ pull[r].pc = "idle"
    /\ proof[x] # NoProof /\ WithinWindow(x) /\ Authentic(x)
    /\ pull' = [pull EXCEPT ![r] = [pc |-> "verified", nonce |-> x, candidate |-> None]]
    /\ UNCHANGED <<now, nodeVars, taskVars, proof, pullVars>>

\* The candidate query: what it tests of a submission.
Selectable(s) == now < row[s].expiresAt /\ current[s] /\ authorized[s]

\* Mutant: the position in the queue instead of the submission.
CandidatePosition ==
    LET eligible == {i \in 1 .. Len(queue) : Selectable(queue[i])} IN
    IF eligible = {} THEN None ELSE CHOOSE i \in eligible : \A j \in eligible : i <= j

\* The oldest submission the query accepts.
Candidate ==
    LET eligible == {i \in 1 .. Len(queue) : Selectable(queue[i])} IN
    IF eligible = {} THEN None
    ELSE queue[CHOOSE i \in eligible : \A j \in eligible : i <= j]

\* pg_advisory_xact_lock on the node's pulls.
PullLockFree == \A r \in Requests : pull[r].pc # "selected"

PullSelect(r) ==
    /\ pull[r].pc = "verified"
    /\ PullLockFree
    /\ pull' = [pull EXCEPT ![r].pc = "selected", ![r].candidate = Candidate]
    /\ UNCHANGED <<now, nodeVars, taskVars, proof, pullVars>>

\* The envelope's key is active, or retired after the envelope was issued and
\* less than Grace ago.
KeyServes(s) ==
    LET e == encryption[row[s].key] IN
    \/ e.state = "active"
    \/ e.state = "retired" /\ row[s].issuedAt <= e.retiredAt /\ now < e.retiredAt + Grace

\* Mutant: the candidate is trusted as it was selected.
TrustCandidate(s) == ~row[s].purged /\ KeyServes(s) /\ open[s]

\* deliver(): the candidate is checked again now that its rows are locked.
Deliverable(s) ==
    /\ current[s] /\ authorized[s]
    /\ now < row[s].expiresAt
    /\ ~row[s].purged
    /\ KeyServes(s)
    /\ open[s]

\* Mutant: the rate is counted over the requests still in their proof window.
RecentByProof == Cardinality({e \in ledger : e.expiresAt > now + RatePeriod})

Recent == Cardinality({e \in ledger : e.createdAt > now - RatePeriod})

RecordExpiry(x) ==
    LET proofEnd == proof[x].issuedAt + Window
        rateEnd == now + RatePeriod
    IN  IF proofEnd > rateEnd THEN proofEnd ELSE rateEnd

\* Mutant: every pull publishes.
PublishAlways == TRUE

\* "Publish the first proof per minute."
PublishesProof == lastProofAt = None \/ now - lastProofAt >= RatePeriod

\* Node and key rows are locked: authenticate again, check the rate, claim the
\* nonce, refresh the proof time, publish, deliver, commit.
PullCommit(r) ==
    LET x == pull[r].nonce
        s == pull[r].candidate
    IN
    /\ pull[r].pc = "selected"
    /\ Authentic(x) /\ WithinWindow(x)
    /\ Recent < RateLimit
    /\ \A e \in ledger : e.nonce # x
    /\ ledger' = ledger \cup {[nonce |-> x, createdAt |-> now, expiresAt |-> RecordExpiry(x)]}
    /\ acceptedAt' = [acceptedAt EXCEPT ![x] = Append(@, now)]
    /\ lastProofAt' = now
    /\ lastEventAt' = IF PublishesProof THEN now ELSE lastEventAt
    /\ delivered' = IF s # None /\ Deliverable(s) THEN delivered \cup {<<s, x>>} ELSE delivered
    /\ pull' = [pull EXCEPT ![r] = NoPull]
    /\ UNCHANGED <<now, nodeVars, taskVars, proof>>

\* Refused (unavailable, rate_limited, replayed), lost or crashed: rolled back.
PullAbort(r) ==
    /\ pull[r].pc # "idle"
    /\ pull' = [pull EXCEPT ![r] = NoPull]
    /\ UNCHANGED <<now, nodeVars, taskVars, proof, pullVars>>

\* pruneRuntimeNodeDeliveryRequests: past the proof window and the rate period.
PruneRequests(e) ==
    /\ e \in ledger
    /\ e.expiresAt <= now /\ e.createdAt <= now - RatePeriod
    /\ ledger' = ledger \ {e}
    /\ UNCHANGED <<now, nodeVars, taskVars, proof, lastProofAt, lastEventAt, acceptedAt,
                   delivered, pull>>

Tick ==
    /\ now < MaxTime
    /\ now' = now + 1
    /\ UNCHANGED <<nodeVars, taskVars, proof, pullVars, pull>>

-----------------------------------------------------------------------------
Init ==
    /\ now = 0
    /\ paired = TRUE
    /\ \E k \in SigningKeys :
          signing = [j \in SigningKeys |-> IF j = k THEN "active" ELSE "none"]
    /\ \E k \in EncryptionKeys :
          encryption = [j \in EncryptionKeys |->
              [state |-> IF j = k THEN "active" ELSE "none", retiredAt |-> None]]
    /\ lastProofAt = None
    /\ lastEventAt = None
    /\ queue = <<>>
    /\ row = [s \in Submissions |-> NoRow]
    /\ current = [s \in Submissions |-> TRUE]
    /\ authorized = [s \in Submissions |-> TRUE]
    /\ open = [s \in Submissions |-> TRUE]
    /\ proof = [x \in Nonces |-> NoProof]
    /\ ledger = {}
    /\ acceptedAt = [x \in Nonces |-> <<>>]
    /\ delivered = {}
    /\ pull = [r \in Requests |-> NoPull]

TaskStep ==
    \E s \in Submissions :
        \/ \E k \in EncryptionKeys, i, e \in ClientTimes : Submit(s, k, i, e)
        \/ EditTask(s)
        \/ ChangeAccess(s)
        \/ Purge(s)

NodeStep ==
    \/ \E k \in SigningKeys, e \in EncryptionKeys : RotateKeys(k, e)
    \/ RecordProof
    \/ Revoke
    \/ \E x \in Nonces, k \in SigningKeys, i \in {now, now + Future} : SignRequest(x, k, i)

PullStep ==
    \/ \E r \in Requests :
          \/ \E x \in Nonces : PullBegin(r, x)
          \/ PullSelect(r)
          \/ PullCommit(r)
          \/ PullAbort(r)
    \/ \E e \in ledger : PruneRequests(e)

Next == TaskStep \/ NodeStep \/ PullStep \/ Tick

Spec == Init /\ [][Next]_vars

-----------------------------------------------------------------------------
(***************************************************************************)
(* Properties.                                                             *)
(***************************************************************************)

KeyRow == [state : {"none", "active", "retired"}, retiredAt : Time \cup {None}]
SubmissionRow ==
    [key : EncryptionKeys \cup {None}, issuedAt : ClientTimes, expiresAt : ClientTimes, purged : BOOLEAN]
SignedRequest == [key : SigningKeys \cup {None}, issuedAt : ClientTimes]
LedgerRow == [nonce : Nonces, createdAt : Time, expiresAt : Nat]
PullState ==
    [pc : {"idle", "verified", "selected"}, nonce : Nonces \cup {None}, candidate : Submissions \cup {None}]

\* Every variable holds rows of its table.
TypeOK ==
    /\ now \in Time
    /\ paired \in BOOLEAN
    /\ signing \in [SigningKeys -> {"none", "active", "retired"}]
    /\ encryption \in [EncryptionKeys -> KeyRow]
    /\ lastProofAt \in Time \cup {None}
    /\ lastEventAt \in Time \cup {None}
    /\ queue \in Seq(Submissions)
    /\ row \in [Submissions -> SubmissionRow]
    /\ current \in [Submissions -> BOOLEAN]
    /\ authorized \in [Submissions -> BOOLEAN]
    /\ open \in [Submissions -> BOOLEAN]
    /\ proof \in [Nonces -> SignedRequest]
    /\ ledger \subseteq LedgerRow
    /\ acceptedAt \in [Nonces -> Seq(Time)]
    /\ delivered \subseteq Submissions \X Nonces
    /\ pull \in [Requests -> PullState]

\* However often the network replays a signed pull, and although operator
\* cleanup deletes ledger rows, at most one copy is accepted: a row outlives the
\* window in which its nonce could be presented again.
NonceAcceptedOnce == \A x \in Nonces : Len(acceptedAt[x]) <= 1

\* No minute holds more accepted pulls than the limit, across concurrent pulls
\* and pruning ("60 authenticated requests per minute, including empty polls").
RateHeld ==
    Cardinality({x \in Nonces : \E i \in 1 .. Len(acceptedAt[x]) :
                                   acceptedAt[x][i] > now - RatePeriod}) <= RateLimit

\* A command is released only under the authority of that moment: whatever
\* changed since the pull was verified and its candidate chosen, the node is
\* paired, its signing key active, the task, agent, submitter and conversation
\* are still those submitted, and the ciphertext is neither expired nor purged.
ReleasedUnderCurrentAuthority ==
    [][\A d \in delivered' \ delivered :
         /\ paired /\ signing[proof[d[2]].key] = "active"
         /\ current[d[1]] /\ authorized[d[1]] /\ open[d[1]]
         /\ now < row[d[1]].expiresAt /\ ~row[d[1]].purged]_vars

\* The 24-hour key grace never cuts an envelope's life short: an envelope issued
\* before its key's retirement expires before the grace does.
GraceNeverBinds ==
    \A s \in Submissions :
        LET e == encryption[row[s].key] IN
        Queued(s) /\ now < row[s].expiresAt /\ e.state = "retired"
            /\ row[s].issuedAt <= e.retiredAt => KeyServes(s)

\* Pull "emits at most one metadata proof event per minute"
\* (docs/evidence/m11-runtime-node-delivery.md).
EventsThrottled ==
    [][lastEventAt' # lastEventAt /\ lastEventAt # None =>
         lastEventAt' - lastEventAt >= RatePeriod]_vars

=============================================================================
