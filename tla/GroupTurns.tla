------------------------------ MODULE GroupTurns ------------------------------
(***************************************************************************)
(* Addressed turns of one group channel: a participant addresses an        *)
(* enlisted agent on a human message, the claim is made durable, the       *)
(* group's lead agent is admitted for it, and the claim ends responded,    *)
(* superseded by newer human input, or cancelled.                          *)
(*                                                                         *)
(* A claim transaction holds the trigger message and then, through the     *)
(* foreign key of the row it inserts, shares the channel; an admission     *)
(* holds the channel and the claim and then shares the trigger message.    *)
(* These are the transactions that wait while they hold something, so they *)
(* are two actions each, with the locks as state.  Every other transaction *)
(* is one action that waits for the locks it needs.  The roster rows an    *)
(* admission locks only change under the channel lock, or by the clock.    *)
(*                                                                         *)
(* The runtime row of an intent is followed at the grain this code tells   *)
(* apart; LeadTurns has its detail.  The recursion depth of a claim only   *)
(* refuses claims and is left out, as is archival, which refuses all.      *)
(***************************************************************************)
EXTENDS Integers, FiniteSets

CONSTANTS
    Users,        \* human participants
    Managers,     \* users who own or administer the workspace
    Agents,       \* agents that are the lead of their home workspace
    Triggers,     \* human messages of the channel
    Author,       \* Triggers -> Users
    Revisions,    \* dispatch revisions clients use
    MaxTurns,     \* retained budget of a trigger tree (8 in the code)
    MaxVersion,   \* bound: versions of the channel roster
    Requests,     \* API requests being served at the same time
    None

Members == Users \cup Agents
Claims == Triggers \X Agents \X Revisions

ASSUME AuthorsAreUsers == Author \in [Triggers -> Users] /\ Managers \subseteq Users
ASSUME BudgetPositive == MaxTurns \in Nat \ {0} /\ MaxVersion \in Nat \ {0}
ASSUME NoneIsNoMember == None \notin Members \cup Requests \cup Claims

VARIABLES
    roster,       \* members admitted to the group (group_admissions)
    issued,       \* Members -> revision of the stored grant
    lapsed,       \* members whose stored grant is revoked or expired
    version,      \* channels.version
    audience,     \* every user on the roster belongs to the workspace and may invoke the runtime
    deleted,      \* trigger messages deleted
    claim,        \* Claims -> addressed_agent_turns row
    intent,       \* Triggers -> lead_turn_intents row
    run,          \* Triggers -> lead_turn_runtime row
    channelLock,  \* request whose transaction holds the channel row
    triggerLock,  \* Triggers -> request whose transaction holds the message row
    req           \* Requests -> local state of the request

standing == <<roster, issued, lapsed, version, audience>>
locks == <<channelLock, triggerLock>>
vars == <<standing, deleted, claim, intent, run, locks, req>>

Trigger(k) == k[1]
Agent(k) == k[2]

NoClaim == [state |-> "none", by |-> None, auth |-> 0, bound |-> FALSE]
NoIntent == [actor |-> None, agent |-> None, version |-> 0, pinned |-> FALSE]
NoRun == [state |-> "none", cancel |-> FALSE, published |-> FALSE]
Idle == [at |-> "idle", user |-> None, claim |-> None, auth |-> 0, todo |-> {}]

-----------------------------------------------------------------------------
(* Standing.                                                                *)

Effective(m) == m \in roster /\ m \notin lapsed

\* resolveGroupLeadAgentId: the only effective lead on the roster, or nobody.
IsLead(a) == {b \in Agents : Effective(b)} = {a}

\* The author of the trigger, or a workspace manager.
Bound(u, t) == Author[t] = u \/ u \in Managers

Live(k) == claim[k].state \in {"claimed", "dispatching"}

\* setGroupChannelParticipants: members who stay keep their grant, which must still be effective;
\* members who join, or join again, get a new revision.
SetParticipants(S) ==
    /\ channelLock = None
    /\ version < MaxVersion
    /\ S \cap roster \cap lapsed = {}
    /\ roster' = S
    /\ issued' = [m \in Members |-> IF m \in S \ roster THEN issued[m] + 1 ELSE issued[m]]
    /\ lapsed' = lapsed \ (S \ roster)
    /\ version' = version + 1
    /\ UNCHANGED <<audience, deleted, claim, intent, run, locks, req>>

\* revokeGroupGrant, or the instant a grant expires: the channel version stays.
LapseGrant(m) ==
    /\ Effective(m)
    /\ lapsed' = lapsed \cup {m}
    /\ UNCHANGED <<roster, issued, version, audience, deleted, claim, intent, run, locks, req>>

\* addWorkspaceMembership, removeWorkspaceMembership: the roster and the channel version stay.
ChangeMemberships ==
    /\ audience' = ~audience
    /\ UNCHANGED <<roster, issued, lapsed, version, deleted, claim, intent, run, locks, req>>

\* changeAgentProfile: the profile revision rises, past what the agent's intents recorded.
ReviseAgent(a) ==
    /\ intent' = [t \in Triggers |-> [intent[t] EXCEPT !.pinned = @ /\ intent[t].agent # a]]
    /\ UNCHANGED <<standing, deleted, claim, run, locks, req>>

DeleteMessage(t) ==
    /\ t \notin deleted
    /\ triggerLock[t] = None
    /\ deleted' = deleted \cup {t}
    /\ UNCHANGED <<standing, claim, intent, run, locks, req>>

-----------------------------------------------------------------------------
(* Requests.                                                                *)

At(r, at) == req[r].at = at
GoTo(r, at) == req' = [req EXCEPT ![r].at = at]
Done(r) == req' = [req EXCEPT ![r] = Idle]
Begin(r, at, u, k, n) ==
    /\ At(r, "idle")
    /\ req' = [req EXCEPT ![r] = [at |-> at, user |-> u, claim |-> k, auth |-> n, todo |-> {}]]

\* A refused check, a deadlock the database breaks, or the server stopping: the transaction's
\* locks go with it.
Abort(r) ==
    /\ ~At(r, "idle")
    /\ channelLock' = IF channelLock = r THEN None ELSE channelLock
    /\ triggerLock' = [t \in Triggers |-> IF triggerLock[t] = r THEN None ELSE triggerLock[t]]
    /\ Done(r)
    /\ UNCHANGED <<standing, deleted, claim, intent, run>>

-----------------------------------------------------------------------------
(* claimAddressedTurn.                                                      *)

\* Mutant: the count that bounds the tree is not serialized on the trigger.
NoTriggerLock(r, t) == triggerLock' = triggerLock

LocksTrigger(r, t) == triggerLock[t] = None /\ triggerLock' = [triggerLock EXCEPT ![t] = r]

\* A retained claim is returned to whoever may address the trigger now.
ClaimDuplicate(r, u, k) ==
    /\ triggerLock[Trigger(k)] = None
    /\ Bound(u, Trigger(k)) /\ Effective(u)
    /\ claim[k].state # "none"
    /\ Begin(r, "claimed", u, k, 0)
    /\ UNCHANGED <<standing, deleted, claim, intent, run, locks>>

\* The addresser and the agent are proved against one read of the roster, and the tree is counted.
ClaimProve(r, u, k) ==
    /\ LocksTrigger(r, Trigger(k))
    /\ Bound(u, Trigger(k)) /\ Effective(u)
    /\ Effective(Agent(k))
    /\ claim[k].state = "none"
    /\ Cardinality({c \in Claims : Trigger(c) = Trigger(k) /\ claim[c].state # "none"}) < MaxTurns
    /\ Begin(r, "inserting", u, k, issued[Agent(k)])
    /\ UNCHANGED <<standing, deleted, claim, intent, run, channelLock>>

\* The foreign key to the channel waits for whoever holds the channel row for update, and the
\* unique index admits one row for a trigger, agent and revision.
ClaimInsert(r) ==
    LET k == req[r].claim IN
    /\ At(r, "inserting")
    /\ channelLock = None
    /\ claim[k].state = "none"
    /\ claim' = [claim EXCEPT ![k] = [state |-> "claimed", by |-> req[r].user, auth |-> req[r].auth,
                                      bound |-> FALSE]]
    /\ triggerLock' = [t \in Triggers |-> IF triggerLock[t] = r THEN None ELSE triggerLock[t]]
    /\ GoTo(r, "claimed")
    /\ UNCHANGED <<standing, deleted, intent, run, channelLock>>

-----------------------------------------------------------------------------
(* dispatchAddressedTurn.                                                   *)

\* The lead is resolved with no lock held.
ResolveLead(r) ==
    /\ At(r, "claimed")
    /\ IsLead(Agent(req[r].claim))
    /\ GoTo(r, "resolved")
    /\ UNCHANGED <<standing, deleted, claim, intent, run, locks>>

\* Mutant: the claim the request holds is taken to be live still.
ClaimAsRead(r) == TRUE

\* The claim is live and the caller may act for its addresser.
ClaimAdmissible(r) ==
    LET k == req[r].claim IN
    Live(k) /\ (claim[k].by = req[r].user \/ req[r].user \in Managers)

\* admitAddressedLeadTurn takes the channel, then the claim row.
AdmitLock(r) ==
    /\ At(r, "resolved")
    /\ channelLock = None
    /\ ClaimAdmissible(r)
    /\ channelLock' = r
    /\ GoTo(r, "admitting")
    /\ UNCHANGED <<standing, deleted, claim, intent, run, triggerLock>>

Intent(u, a) == [actor |-> u, agent |-> a, version |-> version, pinned |-> TRUE]

\* An intent of the trigger is replayed when actor, agent, profile and channel version still match.
Pinned(t, u, a) == intent[t] \in {NoIntent, Intent(u, a)}

\* The trigger is shared, freshness checked again, the intent minted or replayed, and the claim
\* bound to it.
AdmitCommit(r) ==
    LET k == req[r].claim
        u == req[r].user
        t == Trigger(k)
    IN
    /\ At(r, "admitting")
    /\ triggerLock[t] = None /\ t \notin deleted
    /\ Effective(u) /\ IsLead(Agent(k)) /\ audience
    /\ Pinned(t, u, Agent(k))
    /\ intent' = [intent EXCEPT ![t] = Intent(u, Agent(k))]
    /\ claim' = [claim EXCEPT ![k].state = "dispatching", ![k].bound = TRUE]
    /\ channelLock' = None
    /\ Done(r)
    /\ UNCHANGED <<standing, deleted, run, triggerLock>>

-----------------------------------------------------------------------------
(* The runtime row of an intent.                                            *)

\* The actor of the intent is effective, its audience still belongs to the workspace, the lead is
\* still the agent, and roster and profile are the admitted ones.
KeepsAccess(t) ==
    /\ t \notin deleted
    /\ Effective(intent[t].actor) /\ audience
    /\ IsLead(intent[t].agent)
    /\ intent[t].version = version /\ intent[t].pinned

\* withAuthorizedLeadTurn, and withHistoricalLeadTurn in a group: the actor wrote the trigger.
Authorized(t) ==
    /\ channelLock = None /\ triggerLock[t] = None
    /\ intent[t].actor = Author[t]
    /\ KeepsAccess(t)

RunStates == {"none", "pending", "running", "completed", "ended"}

\* prepare, mark pending and dispatch; the answer binds the dispatch; a later one reports the end.
Advance(t, s) ==
    /\ intent[t] # NoIntent
    /\ Authorized(t)
    /\ <<run[t].state, s>> \in
        {<<"none", "pending">>, <<"pending", "running">>, <<"running", "completed">>, <<"running", "ended">>}
    /\ run' = [run EXCEPT ![t].state = s]
    /\ UNCHANGED <<standing, deleted, claim, intent, locks, req>>

\* dispatchId is set.
Dispatched(t) == run[t].state \in {"running", "completed", "ended"}

Carrying(t) == {k \in Claims : Trigger(k) = t /\ claim[k].bound}

\* Mutant: the pins of the intent stand in for the grant the claim retained.
PinsOnly(t) == TRUE

\* decideGroupPublication for every claim that carries the intent: they agree on the grant
\* revision that admitted them, and it is the agent's current, effective one.
BindingCurrent(t) ==
    \A k \in Carrying(t) : claim[k].auth = issued[Agent(k)] /\ Effective(Agent(k))

\* Mutant: the answer is matched by agent, not by intent.
AnsweredByAgent(t) == {k \in Claims : Live(k) /\ Agent(k) = intent[t].agent}

\* bindAddressedTurnResponse
Answered(t) == {k \in Carrying(t) : Live(k)}

\* publishLeadTurnResult; a replay answers the claims that joined the intent since.
Publish(t) ==
    /\ run[t].state = "completed"
    /\ Authorized(t)
    /\ BindingCurrent(t)
    /\ run' = [run EXCEPT ![t].published = TRUE]
    /\ claim' = [k \in Claims |-> IF k \in Answered(t) THEN [claim[k] EXCEPT !.state = "responded"]
                                  ELSE claim[k]]
    /\ UNCHANGED <<standing, deleted, intent, locks, req>>

-----------------------------------------------------------------------------
(* Cancellation and newer human input.                                      *)

\* tryRequestRuntimeCancel: only the addresser reaches the runtime, and only as the actor of a
\* dispatched intent; anything else reports false.
CancelReaches(k, u) ==
    /\ claim[k].bound /\ claim[k].by = u
    /\ intent[Trigger(k)].actor = u
    /\ Dispatched(Trigger(k))
    /\ Authorized(Trigger(k))

RequestCancel(k, u) ==
    run' = IF CancelReaches(k, u) THEN [run EXCEPT ![Trigger(k)].cancel = TRUE] ELSE run

\* The admission in progress holds the claim row.
ClaimRowFree(k) == \A r \in Requests : At(r, "admitting") => req[r].claim # k

\* cancelAddressedTurn: the claim flips in its own transaction, again when a retry repairs it.
CancelFlip(r, u, k) ==
    /\ ClaimRowFree(k)
    /\ Live(k) \/ claim[k].state = "cancelled"
    /\ claim[k].by = u \/ u \in Managers
    /\ claim' = [claim EXCEPT ![k].state = "cancelled"]
    /\ Begin(r, "cancelling", u, k, 0)
    /\ UNCHANGED <<standing, deleted, intent, run, locks>>

CancelRuntime(r) ==
    /\ At(r, "cancelling")
    /\ channelLock = None
    /\ RequestCancel(req[r].claim, req[r].user)
    /\ Done(r)
    /\ UNCHANGED <<standing, deleted, claim, intent, locks>>

\* Mutant: a state the column does not admit.
RetiredAsReplaced(c) == [c EXCEPT !.state = "replaced"]

\* supersedeAddressedTurns
Retired(c) == [c EXCEPT !.state = "superseded"]

Supersede == claim' = [k \in Claims |-> IF Live(k) THEN Retired(claim[k]) ELSE claim[k]]

\* postGroupChannelMessage: a new message retires the live turns in its transaction; a replayed
\* one leaves them alone.
Post(r, u) ==
    /\ channelLock = None
    /\ Effective(u)
    /\ Supersede \/ claim' = claim
    /\ Begin(r, "posted", u, None, 0)
    /\ UNCHANGED <<standing, deleted, intent, run, locks>>

\* A message that nobody has used yet may as well be posted only now.
Unused(t) ==
    /\ t \notin deleted /\ triggerLock[t] = None /\ intent[t] = NoIntent
    /\ \A k \in Claims : Trigger(k) = t => claim[k].state = "none"
    /\ \A r \in Requests : req[r].claim # None => Trigger(req[r].claim) # t

\* postGroupChannelMessage in lead mode: the message is written with an intent of the lead, which
\* no claim carries yet.
PostLead(r, t, a) ==
    /\ channelLock = None
    /\ Unused(t)
    /\ Effective(Author[t]) /\ IsLead(a) /\ audience
    /\ intent' = [intent EXCEPT ![t] = Intent(Author[t], a)]
    /\ Supersede
    /\ Begin(r, "posted", Author[t], None, 0)
    /\ UNCHANGED <<standing, deleted, run, locks>>

\* Mutant: only what this post superseded is cancelled, never an earlier interruption.
PendingNow(u) == {}

\* requestPendingSupersededTurnCancellations
Pending(u) ==
    {k \in Claims : /\ claim[k].state = "superseded" /\ claim[k].by = u /\ claim[k].bound
                    /\ Dispatched(Trigger(k)) /\ ~run[Trigger(k)].cancel}

SelectPending(r) ==
    /\ At(r, "posted")
    /\ LET S == Pending(req[r].user) IN
        IF S = {} THEN Done(r) ELSE req' = [req EXCEPT ![r].at = "repairing", ![r].todo = S]
    /\ UNCHANGED <<standing, deleted, claim, intent, run, locks>>

CancelPending(r, k) ==
    /\ At(r, "repairing")
    /\ channelLock = None
    /\ k \in req[r].todo
    /\ RequestCancel(k, req[r].user)
    /\ IF req[r].todo = {k} THEN Done(r) ELSE req' = [req EXCEPT ![r].todo = @ \ {k}]
    /\ UNCHANGED <<standing, deleted, claim, intent, locks>>

-----------------------------------------------------------------------------
Init ==
    /\ roster = Members
    /\ issued = [m \in Members |-> 1]
    /\ lapsed = {}
    /\ version = 1
    /\ audience = TRUE
    /\ deleted = {}
    /\ claim = [k \in Claims |-> NoClaim]
    /\ intent = [t \in Triggers |-> NoIntent]
    /\ run = [t \in Triggers |-> NoRun]
    /\ channelLock = None
    /\ triggerLock = [t \in Triggers |-> None]
    /\ req = [r \in Requests |-> Idle]

Surroundings ==
    \/ \E S \in SUBSET Members : SetParticipants(S)
    \/ \E m \in Members : LapseGrant(m)
    \/ ChangeMemberships
    \/ \E a \in Agents : ReviseAgent(a)
    \/ \E t \in Triggers : DeleteMessage(t) \/ Publish(t)
    \/ \E t \in Triggers, s \in RunStates : Advance(t, s)

RequestStep(r) ==
    \/ \E u \in Users, k \in Claims : ClaimDuplicate(r, u, k) \/ ClaimProve(r, u, k) \/ CancelFlip(r, u, k)
    \/ \E u \in Users : Post(r, u)
    \/ \E t \in Triggers, a \in Agents : PostLead(r, t, a)
    \/ \E k \in Claims : CancelPending(r, k)
    \/ ClaimInsert(r)
    \/ ResolveLead(r)
    \/ AdmitLock(r)
    \/ AdmitCommit(r)
    \/ CancelRuntime(r)
    \/ SelectPending(r)
    \/ Abort(r)

Next == Surroundings \/ \E r \in Requests : RequestStep(r)

Spec == Init /\ [][Next]_vars

\* The addresser keeps posting, a request that is served ends, and the cancellation a post carries
\* is not interrupted every time.
Posting ==
    /\ \A u \in Users : SF_vars(\E r \in Requests : Post(r, u))
    /\ \A r \in Requests :
        /\ WF_vars(~At(r, "idle") /\ RequestStep(r))
        /\ \A u \in Users : SF_vars(req[r].user = u /\ SelectPending(r))
        /\ \A k \in Claims : SF_vars(CancelPending(r, k))

FairSpec == Spec /\ Posting

-----------------------------------------------------------------------------
(* Properties.                                                              *)

ClaimRow ==
    [state : {"none", "claimed", "dispatching", "responded", "superseded", "cancelled"}, by : Users \cup {None},
     auth : 0 .. MaxVersion, bound : BOOLEAN]
IntentRow == [actor : Users \cup {None}, agent : Agents \cup {None}, version : 0 .. MaxVersion,
              pinned : BOOLEAN]
RunRow == [state : RunStates, cancel : BOOLEAN, published : BOOLEAN]
RequestState ==
    [at : {"idle", "inserting", "claimed", "resolved", "admitting", "cancelling", "posted", "repairing"},
     user : Users \cup {None}, claim : Claims \cup {None}, auth : 0 .. MaxVersion, todo : SUBSET Claims]

\* Every variable holds rows of its table, with revisions and versions within their bound.
TypeOK ==
    /\ roster \subseteq Members /\ lapsed \subseteq Members /\ deleted \subseteq Triggers
    /\ issued \in [Members -> 1 .. MaxVersion] /\ version \in 1 .. MaxVersion
    /\ audience \in BOOLEAN
    /\ claim \in [Claims -> ClaimRow]
    /\ intent \in [Triggers -> IntentRow]
    /\ run \in [Triggers -> RunRow]
    /\ channelLock \in Requests \cup {None}
    /\ triggerLock \in [Triggers -> Requests \cup {None}]
    /\ req \in [Requests -> RequestState]

\* A claim that a newer message superseded, that was cancelled or answered, stays so and never
\* gets an intent afterwards, however long ago a dispatch in progress read it (lead-turns.ts,
\* admitAddressedLeadTurn).
TerminalClaimsStay ==
    [][\A k \in Claims : claim[k].state \in {"responded", "superseded", "cancelled"} =>
        claim'[k].bound = claim[k].bound
            /\ (claim'[k].state = claim[k].state)]_vars

\* A result is published, and a claim answered by a replay, only while the agent holds the very
\* grant every carrying claim was admitted under: removing the agent and adding it again authorizes nothing old, although the
\* intent was admitted after the change (lead-turn-runtime.ts, loadAddressedTurnPublication).
PublishedUnderRetainedGrant ==
    [][\A t \in Triggers :
        \/ run'[t].published /\ ~run[t].published
        \/ \E k \in Carrying(t) : claim'[k].state = "responded" /\ Live(k)
        => \A k \in Carrying(t) : Effective(Agent(k)) /\ claim[k].auth = issued[Agent(k)]]_vars

\* Concurrent claims never exceed the retained budget of their trigger (group-turn-coordinator.ts,
\* claimAddressedTurn).
BudgetHeld ==
    \A t \in Triggers : Cardinality({k \in Claims : Trigger(k) = t /\ claim[k].state # "none"}) <= MaxTurns

\* A claim is responded only by the published answer of the intent it carries, even when several
\* revisions and triggers await the same agent (addressed-turn-response-binding.ts).
RespondedByOwnIntent ==
    \A k \in Claims : claim[k].state = "responded" => claim[k].bound /\ run[Trigger(k)].published

\* A crash between superseding a dispatched turn and asking the runtime to cancel it is repaired
\* by a later post of its addresser, unless the addresser, the lead or a participant loses
\* standing or the lead's profile is revised (group-turn-coordinator.ts,
\* requestPendingSupersededTurnCancellations).
SupersededIsCancelled ==
    \A k \in Claims :
        claim[k].state = "superseded" /\ claim[k].bound /\ claim[k].by = Author[Trigger(k)]
            /\ run[Trigger(k)].state \in {"running", "completed", "ended"}
        ~> (run[Trigger(k)].cancel \/ ~KeepsAccess(Trigger(k)))

=============================================================================
