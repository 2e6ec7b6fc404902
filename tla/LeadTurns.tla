------------------------------ MODULE LeadTurns ------------------------------
(***************************************************************************)
(* Lead turns: one user message admitted as work for the workspace's lead  *)
(* agent, prepared and dispatched in the control plane's runtime, observed *)
(* until it ends, published back into the conversation, and fenced off     *)
(* when a rollback moves work elsewhere.                                   *)
(*                                                                         *)
(* The admissions share one target context (a session and generation) in   *)
(* one direct channel.  Every database transaction is one action: each of  *)
(* them holds the channel row, then the intent, then the runtime row.      *)
(* Between two transactions of a request, and around each call of the      *)
(* runtime, other requests, the fence, the channel and the runtime move.   *)
(* The runtime itself is external: it executes an intent at most once,     *)
(* because the dispatch key is derived from the intent.                    *)
(***************************************************************************)
EXTENDS Integers, FiniteSets

CONSTANTS
    Intents,       \* admissions that may be made (lead_turn_intents)
    Preparations,  \* prepared selections the runtime may hand out
    Requests,      \* API requests being served at the same time
    None

ASSUME IntentsFinite == IsFiniteSet(Intents)
ASSUME NoneIsNoPreparation == None \notin Preparations \cup Intents

VARIABLES
    channel,   \* "active" or "archived"
    intent,    \* Intents -> attempt (0: not admitted), pins hold, message deleted
    fence,     \* Intents -> "none" or the disposition recorded by the fence
    row,       \* Intents -> lead_turn_runtime row ("none": no row)
    expired,   \* preparations whose expiresAt has passed
    cp,        \* Intents -> the runtime's own record of the execution
    req        \* Requests -> local state of the request

vars == <<channel, intent, fence, row, expired, cp, req>>

Terminal == {"completed", "failed", "cancelled"}   \* "cancelled" also stands for timed_out
Active == {"running", "cancelling"}                \* "running" for starting, running, awaiting_input
Observable == Terminal \cup Active \cup {"unknown"}

Dispositions ==
    {"no_effect_recorded", "reconcile_uncertain_effect", "in_flight_fenced",
     "terminal_retained", "blocked_unclassifiable"}

NoRow == [state |-> "none", prep |-> None, bound |-> FALSE, cancelRequested |-> FALSE,
          published |-> FALSE]
Idle == [at |-> "idle", op |-> "none", intent |-> None, prep |-> None, reply |-> "none"]

-----------------------------------------------------------------------------
(* Who may touch an admission.                                              *)

Admitted == {i \in Intents : intent[i].attempt > 0}

\* The trigger message must still exist for every access.
Live(i) == i \in Admitted /\ ~intent[i].deleted

\* withAuthorizedLeadTurn: an active channel whose pins are unchanged.
Effect(i) == Live(i) /\ channel = "active" /\ intent[i].pinned

\* withHistoricalLeadTurn: an archived channel stays readable.
Historical(i) == Live(i) /\ (channel = "archived" \/ intent[i].pinned)

NotFenced(i) == fence[i] = "none"

\* The access an observation rereads the record with.
RereadAccess(r) == IF req[r].op = "dispatch" THEN Effect(req[r].intent) ELSE Historical(req[r].intent)

-----------------------------------------------------------------------------
(* Admission.                                                               *)

Retained == {i \in Admitted : ~intent[i].deleted}

\* findTargetIntent: the newest admission whose message still exists.
Newest(i) == i \in Retained /\ \A j \in Retained : intent[j].attempt <= intent[i].attempt

RuntimeSettled(i) == row[i].state \in {"completed", "failed"}

\* A context with a retained admission takes a successor only once that one is settled.
MayAdmit == channel = "active" /\ \A i \in Retained : Newest(i) => intent[i].pinned /\ RuntimeSettled(i)

IsNextAttempt(n) ==
    \/ Retained = {} /\ n = 1
    \/ \E i \in Retained : Newest(i) /\ n = intent[i].attempt + 1

\* Mutant: no unique index behind the lookup.
AnyAttempt(n) == TRUE

\* lead_turn_intents_target_unique
AttemptFree(n) == \A j \in Admitted : intent[j].attempt # n

Admit(i) ==
    /\ i \notin Admitted
    /\ MayAdmit
    /\ \E n \in 1 .. Cardinality(Intents) :
        /\ IsNextAttempt(n)
        /\ AttemptFree(n)
        /\ intent' = [intent EXCEPT ![i] = [attempt |-> n, pinned |-> TRUE, deleted |-> FALSE]]
    /\ UNCHANGED <<channel, fence, row, expired, cp, req>>

\* deleteMessage knows nothing of lead turns.
DeleteMessage(i) ==
    /\ Live(i) /\ channel = "active"
    /\ intent' = [intent EXCEPT ![i].deleted = TRUE]
    /\ UNCHANGED <<channel, fence, row, expired, cp, req>>

\* A new profile revision, channel version or audience: no retained pin holds any more.
Unpinned == [i \in Intents |-> [intent[i] EXCEPT !.pinned = FALSE]]

ChangeAuthority ==
    /\ channel = "active"
    /\ intent' = Unpinned
    /\ UNCHANGED <<channel, fence, row, expired, cp, req>>

ArchiveChannel ==
    /\ channel = "active"
    /\ channel' = "archived"
    /\ intent' = Unpinned
    /\ UNCHANGED <<fence, row, expired, cp, req>>

ExpirePreparation(p) ==
    /\ p \notin expired
    /\ expired' = expired \cup {p}
    /\ UNCHANGED <<channel, intent, fence, row, cp, req>>

-----------------------------------------------------------------------------
(* Requests.                                                                *)

Begin(r, op, i, at, p) ==
    /\ req[r].at = "idle"
    /\ req' = [req EXCEPT ![r] = [at |-> at, op |-> op, intent |-> i, prep |-> p, reply |-> "none"]]

At(r, at) == req[r].at = at
GoTo(r, at) == req' = [req EXCEPT ![r].at = at]
Answered(r, s) == req' = [req EXCEPT ![r].at = "reread", ![r].reply = s]
Done(r) == req' = [req EXCEPT ![r] = Idle]

\* A refused check, a failed call, or the server stopping.
Abort(r) ==
    /\ req[r].at # "idle"
    /\ Done(r)
    /\ UNCHANGED <<channel, intent, fence, row, expired, cp>>

\* prepare: the effect is authorized before the runtime is asked for a preparation.
PrepareBegin(r, i) ==
    /\ Effect(i) /\ NotFenced(i)
    /\ Begin(r, "prepare", i, "preparing", None)
    /\ UNCHANGED <<channel, intent, fence, row, expired, cp>>

\* Mutant: a later preparation replaces an earlier one.
Replaces(i, p) == row[i].state \in {"none", "prepared", "dispatch_pending"}

\* insert ... on conflict do nothing: the first preparation of an intent is the one kept, and an
\* attempt identity belongs to one intent.
Inserts(i, p) == row[i].state = "none" /\ \A j \in Intents : row[j].prep # p

PrepareStore(r, p) ==
    LET i == req[r].intent IN
    /\ At(r, "preparing")
    /\ Effect(i) /\ NotFenced(i)
    /\ p \notin expired
    /\ row' = IF Inserts(i, p) THEN [row EXCEPT ![i] = [NoRow EXCEPT !.state = "prepared", !.prep = p]]
              ELSE row
    /\ Done(r)
    /\ UNCHANGED <<channel, intent, fence, expired, cp>>

\* dispatch: the stored preparation is confirmed with the funding service.
DispatchBegin(r, i) ==
    /\ Effect(i) /\ NotFenced(i)
    /\ row[i].state # "none"
    /\ row[i].prep \notin expired
    /\ Begin(r, "dispatch", i, "confirming", row[i].prep)
    /\ UNCHANGED <<channel, intent, fence, row, expired, cp>>

\* Mutant: the fence is only checked when the request is authorized.
CheckedAtAuthorize(r) ==
    LET i == req[r].intent IN
    /\ Effect(i)
    /\ row[i].prep = req[r].prep
    /\ req[r].prep \notin expired

\* What markLeadTurnDispatchPending checks under the channel, intent and row locks.
MayDispatch(r) ==
    LET i == req[r].intent IN
    /\ Effect(i)
    /\ NotFenced(i)
    /\ row[i].prep = req[r].prep
    /\ req[r].prep \notin expired

\* Mutant: a state the column does not admit.
PendingAsDispatching(s) == IF s = "prepared" THEN "dispatching" ELSE s

\* The row is marked before the runtime hears of the turn.
PendingState(s) == IF s = "prepared" THEN "dispatch_pending" ELSE s

MarkPending(r) ==
    LET i == req[r].intent IN
    /\ At(r, "confirming")
    /\ MayDispatch(r)
    /\ row' = [row EXCEPT ![i].state = PendingState(row[i].state)]
    /\ GoTo(r, "sending")
    /\ UNCHANGED <<channel, intent, fence, expired, cp>>

\* The runtime executes an intent once, whatever number of dispatches it receives.  Its answer
\* may be lost, and one that names no session yet is rejected by binding().
RuntimeDispatch(r) ==
    LET i == req[r].intent IN
    /\ At(r, "sending")
    /\ cp' = IF cp[i].state = "none" THEN [cp EXCEPT ![i] = [state |-> "dispatching", prep |-> req[r].prep]]
             ELSE cp
    /\ \/ GoTo(r, "sent")
       \/ Done(r)
    /\ UNCHANGED <<channel, intent, fence, row, expired>>

DispatchAnswer(r) ==
    LET i == req[r].intent IN
    /\ At(r, "sent")
    /\ cp[i].state # "dispatching"
    /\ Answered(r, cp[i].state)
    /\ UNCHANGED <<channel, intent, fence, row, expired, cp>>

\* Mutant: no lookup for a dispatch whose answer was lost.
StatusBoundOnly(r, i) ==
    /\ Historical(i) /\ row[i].bound
    /\ Begin(r, "status", i, "polling", row[i].prep)
    /\ UNCHANGED <<channel, intent, fence, row, expired, cp>>

\* status: an unbound pending dispatch is looked up by intent, a bound one is polled.
StatusBegin(r, i) ==
    /\ Historical(i)
    /\ \/ row[i].bound /\ Begin(r, "status", i, "polling", row[i].prep)
       \/ /\ ~row[i].bound /\ row[i].state = "dispatch_pending"
          /\ Begin(r, "status", i, "lookup", row[i].prep)
    /\ UNCHANGED <<channel, intent, fence, row, expired, cp>>

\* A receipt counts once it names a session and the execution and attempt that were prepared.
LookupAnswer(r) ==
    LET i == req[r].intent IN
    /\ At(r, "lookup")
    /\ cp[i].state \notin {"none", "dispatching"} /\ cp[i].prep = req[r].prep
    /\ GoTo(r, "recovering")
    /\ UNCHANGED <<channel, intent, fence, row, expired, cp>>

Recover(r) ==
    LET i == req[r].intent IN
    /\ At(r, "recovering")
    /\ Historical(i)
    /\ row[i].state = "dispatch_pending" \/ row[i].bound
    /\ row[i].prep = cp[i].prep
    /\ row' = [row EXCEPT ![i].bound = TRUE]
    /\ GoTo(r, "polling")
    /\ UNCHANGED <<channel, intent, fence, expired, cp>>

Poll(r, s) ==
    /\ At(r, "polling")
    /\ s \in {cp[req[r].intent].state, "unknown"}
    /\ Answered(r, s)
    /\ UNCHANGED <<channel, intent, fence, row, expired, cp>>

\* cancel: the request is recorded before the runtime is asked.
CancelBegin(r, i) ==
    /\ Historical(i)
    /\ row[i].bound
    /\ row' = [row EXCEPT ![i].cancelRequested = TRUE]
    /\ Begin(r, "cancel", i, "cancelling", row[i].prep)
    /\ UNCHANGED <<channel, intent, fence, expired, cp>>

RuntimeCancel(r) ==
    LET i == req[r].intent
        s == IF cp[i].state = "running" THEN "cancelling" ELSE cp[i].state
    IN
    /\ At(r, "cancelling")
    /\ cp' = [cp EXCEPT ![i].state = s]
    /\ Answered(r, s) \/ Done(r)
    /\ UNCHANGED <<channel, intent, fence, row, expired>>

\* observation(): the record is reread under the operation's own authority ...
Reread(r) ==
    /\ At(r, "reread")
    /\ RereadAccess(r)
    /\ GoTo(r, "observing")
    /\ UNCHANGED <<channel, intent, fence, row, expired, cp>>

\* Mutants: a late answer replaces an outcome; an unknown state is taken for a failure.
LastAnswerWins(i, s) == [row[i] EXCEPT !.state = s, !.bound = TRUE]
UnknownIsFailed(i, s) ==
    IF row[i].state \in Terminal THEN row[i]
    ELSE [row[i] EXCEPT !.state = IF s = "unknown" THEN "failed" ELSE s, !.bound = TRUE]

\* ... and the answer applied; a terminal state is kept whatever the answer says.
Observed(i, s) == IF row[i].state \in Terminal THEN row[i] ELSE [row[i] EXCEPT !.state = s, !.bound = TRUE]

Observe(r) ==
    LET i == req[r].intent
        s == req[r].reply
    IN
    /\ At(r, "observing")
    /\ Historical(i)
    /\ row[i].state # "none" /\ row[i].prep = cp[i].prep
    /\ ~(row[i].state \in Terminal /\ s \in Terminal /\ s # row[i].state)
    /\ row' = [row EXCEPT ![i] = Observed(i, s)]
    /\ IF req[r].op = "status" /\ s = "completed" THEN GoTo(r, "publishing") ELSE Done(r)
    /\ UNCHANGED <<channel, intent, fence, expired, cp>>

\* Mutant: no fence check before the message is posted.
PublishFenced(i) == Effect(i) /\ row[i].state = "completed"

\* publishLeadTurnResult, up to the grant check the runtime's adapter makes in the transaction.
MayPublish(i) == Effect(i) /\ row[i].state = "completed" /\ NotFenced(i)

Publish(r) ==
    LET i == req[r].intent IN
    /\ At(r, "publishing")
    /\ MayPublish(i)
    /\ row' = [row EXCEPT ![i].published = TRUE]
    /\ Done(r)
    /\ UNCHANGED <<channel, intent, fence, expired, cp>>

-----------------------------------------------------------------------------
(* The rollback fence.                                                      *)

\* classifyLeadTurnRollback for a fenced admission.  observedAt is written with every observed state.
Classify(i) ==
    CASE row[i].state = "none" -> "no_effect_recorded"
      [] row[i].state \in Terminal -> "terminal_retained"
      [] row[i].state = "prepared" ->
            IF row[i].bound THEN "blocked_unclassifiable" ELSE "no_effect_recorded"
      [] row[i].state \in {"dispatch_pending", "unknown"} -> "reconcile_uncertain_effect"
      [] row[i].state \in Active ->
            IF row[i].bound THEN "in_flight_fenced" ELSE "blocked_unclassifiable"

\* Mutant: a repeated fence classifies again.
Refences(i) == TRUE

\* The first fence keeps its disposition; the runtime row is left alone.
FirstFence(i) == NotFenced(i)

FenceForRollback(i) ==
    /\ i \in Admitted
    /\ FirstFence(i)
    /\ fence' = [fence EXCEPT ![i] = Classify(i)]
    /\ UNCHANGED <<channel, intent, row, expired, cp, req>>

-----------------------------------------------------------------------------
(* The runtime (external).                                                  *)

RuntimeStart(i) ==
    /\ cp[i].state = "dispatching"
    /\ cp' = [cp EXCEPT ![i].state = "running"]
    /\ UNCHANGED <<channel, intent, fence, row, expired, req>>

RuntimeFinish(i, s) ==
    /\ cp[i].state \in Active
    /\ s \in Terminal
    /\ cp' = [cp EXCEPT ![i].state = s]
    /\ UNCHANGED <<channel, intent, fence, row, expired, req>>

-----------------------------------------------------------------------------
Init ==
    /\ channel = "active"
    /\ intent = [i \in Intents |-> [attempt |-> 0, pinned |-> FALSE, deleted |-> FALSE]]
    /\ fence = [i \in Intents |-> "none"]
    /\ row = [i \in Intents |-> NoRow]
    /\ expired = {}
    /\ cp = [i \in Intents |-> [state |-> "none", prep |-> None]]
    /\ req = [r \in Requests |-> Idle]

Surroundings ==
    \/ ChangeAuthority
    \/ ArchiveChannel
    \/ \E p \in Preparations : ExpirePreparation(p)
    \/ \E i \in Intents : Admit(i) \/ DeleteMessage(i) \/ FenceForRollback(i) \/ RuntimeStart(i)
    \/ \E i \in Intents, s \in Terminal : RuntimeFinish(i, s)

RequestStep(r) ==
    \/ \E i \in Intents : PrepareBegin(r, i) \/ DispatchBegin(r, i) \/ StatusBegin(r, i) \/ CancelBegin(r, i)
    \/ \E p \in Preparations : PrepareStore(r, p)
    \/ \E s \in Observable : Poll(r, s)
    \/ MarkPending(r)
    \/ RuntimeDispatch(r)
    \/ DispatchAnswer(r)
    \/ LookupAnswer(r)
    \/ Recover(r)
    \/ RuntimeCancel(r)
    \/ Reread(r)
    \/ Observe(r)
    \/ Publish(r)
    \/ Abort(r)

Next == Surroundings \/ \E r \in Requests : RequestStep(r)

Spec == Init /\ [][Next]_vars

-----------------------------------------------------------------------------
(* Properties.                                                              *)

Attempts == 0 .. Cardinality(Intents)
IntentRow == [attempt : Attempts, pinned : BOOLEAN, deleted : BOOLEAN]
RuntimeRow ==
    [state : {"none", "prepared", "dispatch_pending"} \cup Observable, prep : Preparations \cup {None},
     bound : BOOLEAN, cancelRequested : BOOLEAN, published : BOOLEAN]
Execution ==
    [state : {"none", "dispatching"} \cup Active \cup Terminal, prep : Preparations \cup {None}]
Stages ==
    {"idle", "preparing", "confirming", "sending", "sent", "lookup", "recovering", "polling",
     "cancelling", "reread", "observing", "publishing"}
RequestState ==
    [at : Stages, op : {"none", "prepare", "dispatch", "status", "cancel"}, intent : Intents \cup {None},
     prep : Preparations \cup {None}, reply : {"none"} \cup Observable]

\* Every variable holds rows of its table, and attempts stay within the admissions made.
TypeOK ==
    /\ channel \in {"active", "archived"}
    /\ intent \in [Intents -> IntentRow]
    /\ fence \in [Intents -> {"none"} \cup Dispositions]
    /\ row \in [Intents -> RuntimeRow]
    /\ expired \subseteq Preparations
    /\ cp \in [Intents -> Execution]
    /\ req \in [Requests -> RequestState]

\* The disposition a fence recorded stays true of the runtime: an admission recorded as without
\* effect is never executed afterwards, one recorded in flight or terminal really reached the
\* runtime or ended there, and no reachable row is unclassifiable (lead-turn-rollback-policy.ts).
FenceTellsTruth ==
    \A i \in Intents :
        /\ fence[i] = "no_effect_recorded" => cp[i].state = "none"
        /\ fence[i] = "in_flight_fenced" => cp[i].state \notin {"none", "dispatching"}
        /\ fence[i] = "terminal_retained" => cp[i].state \in Terminal
        /\ fence[i] # "blocked_unclassifiable"

\* A fenced admission publishes nothing: a published result was terminal, and published, before
\* the fence (lead-turn-runtime.ts, publishLeadTurnResult).
PublishedBeforeFence ==
    \A i \in Intents : row[i].published =>
        /\ fence[i] \in {"none", "terminal_retained"}
        /\ cp[i].state = "completed"

InFlight(i) == cp[i].state \in {"dispatching"} \cup Active

\* One target context never has two executions in the runtime at the same time, whatever is
\* deleted, fenced, retried or answered late (lead-turns.ts, createLeadTurn).
OneExecutionInFlight == \A i, j \in Intents : InFlight(i) /\ InFlight(j) => i = j

\* The runtime executes the preparation the row holds: retried prepares and late dispatches never
\* leave the row describing another execution than the one that runs.
ExecutedAsPrepared == \A i \in Intents : cp[i].state # "none" => cp[i].prep = row[i].prep

\* Answers applied out of order never undo a recorded outcome (observeLeadTurnRuntime).
OutcomeIsFinal ==
    [][\A i \in Intents : row[i].state \in Terminal => row'[i].state = row[i].state]_vars

\* A recorded outcome is the one the runtime reached, so a settled admission, which lets the
\* context admit a successor, really has nothing left running (runtimeSettled).
OutcomeIsTrue == \A i \in Intents : row[i].state \in Terminal => cp[i].state = row[i].state

\* What a turn looks like to the contract.
PhaseOf(i) == IF cp[i].state = "none" THEN "waiting" ELSE IF InFlight(i) THEN "executing" ELSE cp[i].state
ReportOf(i) == IF row[i].state \in Terminal THEN row[i].state ELSE "open"
FenceOf(i) ==
    CASE fence[i] = "none" -> "none"
      [] fence[i] = "no_effect_recorded" -> "void"
      [] fence[i] = "terminal_retained" -> "ended"
      [] OTHER -> "uncertain"

Contract == INSTANCE LeadTurnContract WITH
    Turns <- Intents,
    Outcomes <- Terminal,
    phase <- [i \in Intents |-> PhaseOf(i)],
    report <- [i \in Intents |-> ReportOf(i)],
    published <- {i \in Intents : row[i].published},
    fence <- [i \in Intents |-> FenceOf(i)]

\* Requests that race, retry and die between their transactions, a runtime whose answers are lost
\* or late, deletions and fences implement the contract of LeadTurnContract (lead-turns.ts and
\* lead-turn-runtime.ts together).
ImplementsContract == Contract!Spec

=============================================================================
