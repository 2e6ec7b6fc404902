-------------------------- MODULE GroupTurnsProofs --------------------------
(***************************************************************************)
(* Machine-checked facts about GroupTurns, for any number of users, agents,*)
(* triggers, revisions and concurrent requests: the rows stay well typed,  *)
(* the retained budget of a trigger holds, a claim is answered only by the *)
(* intent it carries and under the grant it retained, and a claim that has *)
(* ended stays as it is.                                                   *)
(***************************************************************************)
EXTENDS GroupTurns, FiniteSetTheorems, TLAPS

(***************************************************************************)
(* The inductive invariant.                                                *)
(***************************************************************************)

\* The claims retained for a trigger.
Retained(t) == {k \in Claims : Trigger(k) = t /\ claim[k].state # "none"}

\* Grant revisions grow no faster than the version of the roster.
RevisionsBounded == \A m \in Members : issued[m] <= version

\* What a request may rely on between its steps, and what it holds: a claim that proved itself
\* keeps the trigger until it is inserted; an admission keeps the channel, and its claim stays live.
RequestOK(r) ==
    /\ req[r].at # "idle" => req[r].user \in Users
    /\ req[r].at \in {"inserting", "claimed", "resolved", "admitting", "cancelling"} => req[r].claim \in Claims
    /\ req[r].at = "inserting" => triggerLock[Trigger(req[r].claim)] = r
    /\ req[r].at = "admitting" => channelLock = r /\ Live(req[r].claim)

RequestsOK == \A r \in Requests : RequestOK(r)

\* A trigger that is held has room for the claim that is about to be inserted.
BudgetOK(t) ==
    /\ IsFiniteSet(Retained(t))
    /\ Cardinality(Retained(t)) <= MaxTurns
    /\ triggerLock[t] # None => Cardinality(Retained(t)) < MaxTurns

TriggersOK == \A t \in Triggers : BudgetOK(t)

Inv == TypeOK /\ RevisionsBounded /\ RequestsOK /\ TriggersOK /\ RespondedByOwnIntent

-----------------------------------------------------------------------------
(***************************************************************************)
(* What the elementary updates do, field by field.                         *)
(***************************************************************************)

Places == {"idle", "inserting", "claimed", "resolved", "admitting", "cancelling", "posted", "repairing"}

\* A claim names a trigger of the channel and an agent.
LEMMA ClaimParts ==
    ASSUME NEW k \in Claims
    PROVE  Trigger(k) \in Triggers /\ Agent(k) \in Agents /\ Agent(k) \in Members /\ k # None
BY NoneIsNoMember DEF Claims, Trigger, Agent, Members

\* The bounds are positive.
LEMMA Bounds == MaxTurns \in Nat /\ MaxVersion \in Nat /\ 0 \in 0 .. MaxVersion /\ 1 \in 1 .. MaxVersion
BY BudgetPositive

\* A request starts.
LEMMA BeginEffect ==
    ASSUME TypeOK, NEW r \in Requests, NEW at \in Places, NEW u \in Users, NEW k \in Claims \cup {None},
           NEW n \in 0 .. MaxVersion, Begin(r, at, u, k, n)
    PROVE  /\ req' \in [Requests -> RequestState] /\ req[r].at = "idle"
           /\ req'[r].at = at /\ req'[r].user = u /\ req'[r].claim = k
           /\ \A q \in Requests \ {r} : req'[q] = req[q]
<1>. DEFINE new == [at |-> at, user |-> u, claim |-> k, auth |-> n, todo |-> {}]
<1>1. new \in RequestState /\ new.at = at /\ new.user = u /\ new.claim = k
    BY DEF RequestState, Places
<1>2. req' = [req EXCEPT ![r] = new] /\ req[r].at = "idle"
    BY DEF Begin, At
<1>. HIDE DEF new
<1>3. req'[r] = new /\ req' \in [Requests -> RequestState] /\ \A q \in Requests \ {r} : req'[q] = req[q]
    BY <1>1, <1>2 DEF TypeOK
<1>. QED BY <1>1, <1>2, <1>3

\* A request moves on and keeps what it carries.
LEMMA GoToEffect ==
    ASSUME TypeOK, NEW r \in Requests, NEW at \in Places, GoTo(r, at)
    PROVE  /\ req' \in [Requests -> RequestState]
           /\ req'[r].at = at /\ req'[r].user = req[r].user /\ req'[r].claim = req[r].claim
           /\ \A q \in Requests \ {r} : req'[q] = req[q]
<1>. DEFINE new == [req[r] EXCEPT !.at = at]
<1>1. new \in RequestState /\ new.at = at /\ new.user = req[r].user /\ new.claim = req[r].claim
    BY DEF TypeOK, RequestState, Places
<1>2. req' = [req EXCEPT ![r] = new]
    BY DEF GoTo, TypeOK
<1>. HIDE DEF new
<1>3. req'[r] = new /\ req' \in [Requests -> RequestState] /\ \A q \in Requests \ {r} : req'[q] = req[q]
    BY <1>1, <1>2 DEF TypeOK
<1>. QED BY <1>1, <1>3

\* A request ends.
LEMMA DoneEffect ==
    ASSUME TypeOK, NEW r \in Requests, Done(r)
    PROVE  /\ req' \in [Requests -> RequestState] /\ req'[r].at = "idle"
           /\ \A q \in Requests \ {r} : req'[q] = req[q]
<1>1. Idle \in RequestState /\ Idle.at = "idle"
    BY Bounds DEF Idle, RequestState
<1>. QED BY <1>1 DEF Done, TypeOK

\* A post goes through the cancellations it found pending, and ends after the last one.
LEMMA RepairEffect ==
    ASSUME TypeOK, NEW r \in Requests, NEW S \in SUBSET Claims,
           req' = [req EXCEPT ![r].at = "repairing", ![r].todo = S]
    PROVE  /\ req' \in [Requests -> RequestState]
           /\ req'[r].at = "repairing" /\ req'[r].user = req[r].user
           /\ \A q \in Requests \ {r} : req'[q] = req[q]
<1>. DEFINE new == [req[r] EXCEPT !.at = "repairing", !.todo = S]
<1>1. new \in RequestState /\ new.at = "repairing" /\ new.user = req[r].user
    BY DEF TypeOK, RequestState
<1>2. req' = [req EXCEPT ![r] = new]
    BY DEF TypeOK
<1>. HIDE DEF new
<1>3. req'[r] = new /\ req' \in [Requests -> RequestState] /\ \A q \in Requests \ {r} : req'[q] = req[q]
    BY <1>1, <1>2 DEF TypeOK
<1>. QED BY <1>1, <1>3

\* A request that changes only the claims it has still to cancel.
LEMMA TodoEffect ==
    ASSUME TypeOK, NEW r \in Requests, NEW S \in SUBSET Claims,
           req' = [req EXCEPT ![r].todo = S]
    PROVE  /\ req' \in [Requests -> RequestState]
           /\ req'[r].at = req[r].at /\ req'[r].user = req[r].user
           /\ \A q \in Requests \ {r} : req'[q] = req[q]
<1>. DEFINE new == [req[r] EXCEPT !.todo = S]
<1>1. new \in RequestState /\ new.at = req[r].at /\ new.user = req[r].user
    BY DEF TypeOK, RequestState
<1>2. req' = [req EXCEPT ![r] = new]
    BY DEF TypeOK
<1>. HIDE DEF new
<1>3. req'[r] = new /\ req' \in [Requests -> RequestState] /\ \A q \in Requests \ {r} : req'[q] = req[q]
    BY <1>1, <1>2 DEF TypeOK
<1>. QED BY <1>1, <1>3

\* One claim takes a new state.
LEMMA ClaimEffect ==
    ASSUME TypeOK, NEW k \in Claims, NEW s \in {"dispatching", "responded", "superseded", "cancelled"}
    PROVE  LET new == [claim[k] EXCEPT !.state = s] IN
           new \in ClaimRow /\ new.state = s /\ new.bound = claim[k].bound
               /\ new.by = claim[k].by /\ new.auth = claim[k].auth
BY DEF TypeOK, ClaimRow

\* A request of the runtime to cancel changes nothing else of the row.
LEMMA CancelEffect ==
    ASSUME TypeOK, NEW k \in Claims, NEW u \in Users, RequestCancel(k, u)
    PROVE  /\ run' \in [Triggers -> RunRow]
           /\ \A t \in Triggers : run'[t].published = run[t].published
<1>. DEFINE t == Trigger(k)
            new == [run[t] EXCEPT !.cancel = TRUE]
<1>1. t \in Triggers
    BY ClaimParts
<1>2. new \in RunRow /\ new.published = run[t].published
    BY <1>1 DEF TypeOK, RunRow
<1>3. run' = [run EXCEPT ![t] = new] \/ run' = run
    BY <1>1 DEF RequestCancel, TypeOK
<1>. HIDE DEF new, t
<1>. QED BY <1>1, <1>2, <1>3 DEF TypeOK

-----------------------------------------------------------------------------
(***************************************************************************)
(* What a step does to a claim and to a runtime row.                       *)
(***************************************************************************)

\* The moves of a claim.
Move(k) ==
    \/ claim'[k] = claim[k]
    \/ claim[k].state = "none" /\ claim'[k].state = "claimed"
    \/ Live(k) /\ claim'[k].state = "dispatching"
    \/ Live(k) /\ claim'[k].state \in {"superseded", "cancelled"} /\ claim'[k].bound = claim[k].bound
    \/ /\ Live(k) /\ claim'[k].state = "responded" /\ claim'[k].bound
       /\ run'[Trigger(k)].published /\ BindingCurrent(Trigger(k))

\* The step of a request that leaves the claims alone.
LEMMA ClaimUntouched ==
    ASSUME UNCHANGED claim
    PROVE  \A k \in Claims : Move(k)
BY DEF Move

\* Every change of a claim by a step is one of the moves: a claim that ended is left alone, since
\* the one action that acts on what it read earlier, the commit of an admission, holds the locks
\* under which the claim was found live.
LEMMA ClaimStep ==
    ASSUME TypeOK, RequestsOK, [Next]_vars
    PROVE  /\ claim' \in [Claims -> ClaimRow]
           /\ \A k \in Claims : Move(k)
<1>. DEFINE Goal == claim' \in [Claims -> ClaimRow] /\ \A k \in Claims : Move(k)
<1>1. ASSUME UNCHANGED claim PROVE Goal
    BY <1>1, ClaimUntouched DEF TypeOK
<1>2. ASSUME NEW t \in Triggers, Publish(t)
      PROVE  Goal
    <2>1. \A k \in Claims : claim'[k] = IF k \in Answered(t) THEN [claim[k] EXCEPT !.state = "responded"] ELSE claim[k]
        BY <1>2 DEF Publish
    <2>2. run'[t].published
        <3>1. [run[t] EXCEPT !.published = TRUE].published
            BY DEF TypeOK, RunRow
        <3>2. run'[t] = [run[t] EXCEPT !.published = TRUE]
            BY <1>2 DEF Publish, TypeOK
        <3>. QED BY <3>1, <3>2
    <2>3. ASSUME NEW k \in Claims PROVE claim'[k] \in ClaimRow /\ Move(k)
        <3>1. CASE k \in Answered(t)
            <4>. DEFINE new == [claim[k] EXCEPT !.state = "responded"]
            <4>1. new \in ClaimRow /\ new.state = "responded" /\ new.bound = claim[k].bound
                BY ClaimEffect
            <4>2. claim'[k] = new
                BY <2>1, <3>1
            <4>. HIDE DEF new
            <4>3. Live(k) /\ claim[k].bound /\ Trigger(k) = t
                BY <3>1 DEF Answered, Carrying
            <4>4. BindingCurrent(t)
                BY <1>2 DEF Publish
            <4>. QED BY <2>2, <4>1, <4>2, <4>3, <4>4 DEF Move
        <3>2. CASE k \notin Answered(t)
            BY <2>1, <3>2 DEF Move, TypeOK
        <3>. QED BY <3>1, <3>2
    <2>4. claim' = [k \in Claims |-> claim'[k]]
        BY <1>2 DEF Publish
    <2>. QED BY <2>3, <2>4
<1>3. ASSUME NEW r \in Requests, NEW u \in Users, NEW k \in Claims, CancelFlip(r, u, k)
      PROVE  Goal
    <2>. DEFINE new == [claim[k] EXCEPT !.state = "cancelled"]
    <2>1. new \in ClaimRow /\ new.state = "cancelled" /\ new.bound = claim[k].bound
        BY ClaimEffect
    <2>2. claim' = [claim EXCEPT ![k] = new]
        BY <1>3 DEF CancelFlip, TypeOK
    <2>3. claim[k].state = "cancelled" => new = claim[k]
        BY DEF TypeOK, ClaimRow
    <2>4. Live(k) \/ claim[k].state = "cancelled"
        BY <1>3 DEF CancelFlip
    <2>. HIDE DEF new
    <2>5. claim' \in [Claims -> ClaimRow] /\ claim'[k] = new /\ \A j \in Claims \ {k} : claim'[j] = claim[j]
        BY <2>1, <2>2 DEF TypeOK
    <2>. QED BY <2>1, <2>3, <2>4, <2>5 DEF Move
<1>4. ASSUME Supersede
      PROVE  Goal
    <2>1. ASSUME NEW k \in Claims PROVE claim'[k] \in ClaimRow /\ Move(k)
        <3>. DEFINE new == [claim[k] EXCEPT !.state = "superseded"]
        <3>1. new \in ClaimRow /\ new.state = "superseded" /\ new.bound = claim[k].bound
            BY ClaimEffect
        <3>2. claim'[k] = IF Live(k) THEN new ELSE claim[k]
            BY <1>4 DEF Supersede, Retired
        <3>. HIDE DEF new
        <3>3. CASE Live(k)
            BY <3>1, <3>2, <3>3 DEF Move
        <3>4. CASE ~Live(k)
            BY <3>2, <3>4 DEF Move, TypeOK
        <3>. QED BY <3>3, <3>4
    <2>2. claim' = [k \in Claims |-> claim'[k]]
        BY <1>4 DEF Supersede
    <2>. QED BY <2>1, <2>2
<1>5. ASSUME NEW r \in Requests, ClaimInsert(r)
      PROVE  Goal
    <2>1. PICK k \in Claims : k = req[r].claim
        BY <1>5 DEF ClaimInsert, At, RequestsOK, RequestOK
    <2>. DEFINE new == [state |-> "claimed", by |-> req[r].user, auth |-> req[r].auth, bound |-> FALSE]
    <2>2. new \in ClaimRow /\ new.state = "claimed"
        BY DEF TypeOK, RequestState, ClaimRow
    <2>3. claim' = [claim EXCEPT ![k] = new] /\ claim[k].state = "none"
        BY <1>5, <2>1 DEF ClaimInsert
    <2>. HIDE DEF new
    <2>4. claim' \in [Claims -> ClaimRow] /\ claim'[k] = new /\ \A j \in Claims \ {k} : claim'[j] = claim[j]
        BY <2>2, <2>3 DEF TypeOK
    <2>. QED BY <2>2, <2>3, <2>4 DEF Move
<1>6. ASSUME NEW r \in Requests, AdmitCommit(r)
      PROVE  Goal
    <2>1. PICK k \in Claims : k = req[r].claim /\ Live(k)
        BY <1>6 DEF AdmitCommit, At, RequestsOK, RequestOK
    <2>. DEFINE new == [claim[k] EXCEPT !.state = "dispatching", !.bound = TRUE]
    <2>2. new \in ClaimRow /\ new.state = "dispatching"
        BY DEF TypeOK, ClaimRow
    <2>3. claim' = [claim EXCEPT ![k] = new]
        BY <1>6, <2>1 DEF AdmitCommit, TypeOK
    <2>. HIDE DEF new
    <2>4. claim' \in [Claims -> ClaimRow] /\ claim'[k] = new /\ \A j \in Claims \ {k} : claim'[j] = claim[j]
        BY <2>2, <2>3 DEF TypeOK
    <2>. QED BY <2>1, <2>2, <2>4 DEF Move
<1>7. CASE UNCHANGED vars
    BY <1>1, <1>7 DEF vars
<1>8. CASE Surroundings
    BY <1>1, <1>2, <1>8
       DEF Surroundings, SetParticipants, LapseGrant, ChangeMemberships, ReviseAgent, DeleteMessage, Advance
<1>9. ASSUME NEW r \in Requests, RequestStep(r)
      PROVE  Goal
    BY <1>1, <1>3, <1>4, <1>5, <1>6, <1>9
       DEF RequestStep, ClaimDuplicate, ClaimProve, Post, PostLead, CancelPending, ResolveLead, AdmitLock,
           CancelRuntime, SelectPending, Abort
<1>. QED BY <1>7, <1>8, <1>9 DEF Next

\* The runtime rows stay well typed, a published result stays published, and it is published only
\* under the grant its claims retained.
LEMMA RunStep ==
    ASSUME TypeOK, RequestsOK, [Next]_vars
    PROVE  /\ run' \in [Triggers -> RunRow]
           /\ \A t \in Triggers : run[t].published => run'[t].published
           /\ \A t \in Triggers : run'[t].published /\ ~run[t].published => BindingCurrent(t)
<1>. DEFINE Goal == /\ run' \in [Triggers -> RunRow]
                    /\ \A t \in Triggers : run[t].published => run'[t].published
                    /\ \A t \in Triggers : run'[t].published /\ ~run[t].published => BindingCurrent(t)
<1>1. ASSUME UNCHANGED run PROVE Goal
    BY <1>1 DEF TypeOK
<1>2. ASSUME NEW k \in Claims, NEW u \in Users, RequestCancel(k, u) PROVE Goal
    BY <1>2, CancelEffect
<1>3. ASSUME NEW t \in Triggers, Publish(t)
      PROVE  Goal
    <2>. DEFINE new == [run[t] EXCEPT !.published = TRUE]
    <2>1. new \in RunRow /\ new.published
        BY DEF TypeOK, RunRow
    <2>2. run' = [run EXCEPT ![t] = new] /\ BindingCurrent(t)
        BY <1>3 DEF Publish, TypeOK
    <2>. HIDE DEF new
    <2>3. run' \in [Triggers -> RunRow] /\ run'[t] = new /\ \A u \in Triggers \ {t} : run'[u] = run[u]
        BY <2>1, <2>2 DEF TypeOK
    <2>. QED BY <2>1, <2>2, <2>3
<1>4. ASSUME NEW t \in Triggers, NEW s \in RunStates, Advance(t, s)
      PROVE  Goal
    <2>. DEFINE new == [run[t] EXCEPT !.state = s]
    <2>1. new \in RunRow /\ new.published = run[t].published
        BY DEF TypeOK, RunRow
    <2>2. run' = [run EXCEPT ![t] = new]
        BY <1>4 DEF Advance, TypeOK
    <2>. HIDE DEF new
    <2>3. run' \in [Triggers -> RunRow] /\ run'[t] = new /\ \A u \in Triggers \ {t} : run'[u] = run[u]
        BY <2>1, <2>2 DEF TypeOK
    <2>. QED BY <2>1, <2>3
<1>5. ASSUME NEW r \in Requests, CancelRuntime(r)
      PROVE  Goal
    <2>1. req[r].claim \in Claims /\ req[r].user \in Users
        BY <1>5 DEF CancelRuntime, At, RequestsOK, RequestOK
    <2>. QED BY <1>2, <1>5, <2>1 DEF CancelRuntime
<1>6. ASSUME NEW r \in Requests, NEW k \in Claims, CancelPending(r, k)
      PROVE  Goal
    <2>1. req[r].user \in Users
        BY <1>6 DEF CancelPending, At, RequestsOK, RequestOK
    <2>. QED BY <1>2, <1>6, <2>1 DEF CancelPending
<1>7. CASE UNCHANGED vars
    BY <1>1, <1>7 DEF vars
<1>8. CASE Surroundings
    BY <1>1, <1>3, <1>4, <1>8
       DEF Surroundings, SetParticipants, LapseGrant, ChangeMemberships, ReviseAgent, DeleteMessage
<1>9. ASSUME NEW r \in Requests, RequestStep(r)
      PROVE  Goal
    BY <1>1, <1>5, <1>6, <1>9
       DEF RequestStep, ClaimDuplicate, ClaimProve, CancelFlip, Post, PostLead, ClaimInsert, ResolveLead, AdmitLock,
           AdmitCommit, SelectPending, Abort
<1>. QED BY <1>7, <1>8, <1>9 DEF Next

-----------------------------------------------------------------------------
(***************************************************************************)
(* Requests and their locks.                                               *)
(***************************************************************************)

\* A request keeps its footing while its locks and its claim are left alone.
LEMMA Undisturbed ==
    ASSUME TypeOK, RequestsOK, NEW q \in Requests,
           req'[q] = req[q],
           \A t \in Triggers : triggerLock[t] = q => triggerLock'[t] = q,
           channelLock = q => channelLock' = q /\ claim'[req[q].claim] = claim[req[q].claim]
    PROVE  RequestOK(q)'
<1>1. RequestOK(q)
    BY DEF RequestsOK
<1>2. ASSUME req[q].at = "inserting" PROVE triggerLock'[Trigger(req'[q].claim)] = q
    <2>1. Trigger(req[q].claim) \in Triggers /\ triggerLock[Trigger(req[q].claim)] = q
        BY <1>1, <1>2, ClaimParts DEF RequestOK
    <2>. QED BY <2>1
<1>3. ASSUME req[q].at = "admitting" PROVE channelLock' = q /\ claim'[req'[q].claim].state \in {"claimed", "dispatching"}
    BY <1>1, <1>3 DEF RequestOK, Live
<1>. QED BY <1>1, <1>2, <1>3 DEF RequestOK, Live

\* Every step keeps the requests well typed and on their footing.
LEMMA RequestsStep ==
    ASSUME TypeOK, RequestsOK, [Next]_vars
    PROVE  req' \in [Requests -> RequestState] /\ RequestsOK'
<1>. USE DEF locks
<1>. DEFINE Goal == req' \in [Requests -> RequestState] /\ RequestsOK'
<1>0. None \notin Requests
    BY NoneIsNoMember
<1>1. ASSUME UNCHANGED <<req, locks>>, UNCHANGED claim \/ channelLock = None PROVE Goal
    <2>1. \A q \in Requests : RequestOK(q)'
        BY <1>0, <1>1, Undisturbed
    <2>. QED BY <1>1, <2>1 DEF RequestsOK, TypeOK
<1>2. ASSUME NEW r \in Requests, req' \in [Requests -> RequestState], \A q \in Requests \ {r} : req'[q] = req[q],
             UNCHANGED channelLock, \A t \in Triggers : triggerLock[t] # r /\ triggerLock[t] # None => triggerLock'[t] = triggerLock[t],
             UNCHANGED claim \/ channelLock = None, RequestOK(r)'
      PROVE  Goal
    <2>1. \A q \in Requests \ {r} : RequestOK(q)'
        BY <1>0, <1>2, Undisturbed
    <2>. QED BY <1>2, <2>1 DEF RequestsOK
<1>3. ASSUME NEW r \in Requests, NEW u \in Users, NEW k \in Claims, ClaimDuplicate(r, u, k)
      PROVE  Goal
    <2>1. /\ req' \in [Requests -> RequestState] /\ req'[r].at = "claimed" /\ req'[r].user = u /\ req'[r].claim = k
          /\ \A q \in Requests \ {r} : req'[q] = req[q]
        BY <1>3, Bounds, BeginEffect DEF ClaimDuplicate, Places
    <2>2. RequestOK(r)'
        BY <2>1 DEF RequestOK
    <2>. QED BY <1>2, <1>3, <2>1, <2>2 DEF ClaimDuplicate
<1>4. ASSUME NEW r \in Requests, NEW u \in Users, NEW k \in Claims, ClaimProve(r, u, k)
      PROVE  Goal
    <2>1. issued[Agent(k)] \in 0 .. MaxVersion
        BY ClaimParts DEF TypeOK
    <2>2. /\ req' \in [Requests -> RequestState] /\ req'[r].at = "inserting" /\ req'[r].user = u /\ req'[r].claim = k
          /\ \A q \in Requests \ {r} : req'[q] = req[q]
        BY <1>4, <2>1, BeginEffect DEF ClaimProve, Places
    <2>3. /\ triggerLock'[Trigger(k)] = r
          /\ \A t \in Triggers : triggerLock[t] # None => triggerLock'[t] = triggerLock[t]
        BY <1>4, ClaimParts DEF ClaimProve, LocksTrigger, TypeOK
    <2>4. RequestOK(r)'
        BY <2>2, <2>3 DEF RequestOK
    <2>. QED BY <1>2, <1>4, <2>2, <2>3, <2>4 DEF ClaimProve
<1>5. ASSUME NEW r \in Requests, NEW u \in Users, NEW k \in Claims, CancelFlip(r, u, k)
      PROVE  Goal
    <2>1. /\ req' \in [Requests -> RequestState] /\ req'[r].at = "cancelling" /\ req'[r].user = u /\ req'[r].claim = k
          /\ \A q \in Requests \ {r} : req'[q] = req[q]
        BY <1>5, Bounds, BeginEffect DEF CancelFlip, Places
    <2>2. RequestOK(r)'
        BY <2>1 DEF RequestOK
    <2>3. \A j \in Claims \ {k} : claim'[j] = claim[j]
        BY <1>5 DEF CancelFlip, TypeOK
    <2>4. ASSUME NEW q \in Requests \ {r}
          PROVE  RequestOK(q)'
        <3>1. CASE req[q].at = "admitting"
            <4>1. req[q].claim \in Claims \ {k}
                BY <1>5, <3>1 DEF CancelFlip, ClaimRowFree, At, RequestsOK, RequestOK
            <4>2. claim'[req[q].claim] = claim[req[q].claim]
                BY <2>3, <4>1
            <4>. QED BY <1>5, <2>1, <4>2, Undisturbed DEF CancelFlip
        <3>2. CASE req[q].at # "admitting"
            <4>1. RequestOK(q) /\ req'[q] = req[q] /\ triggerLock' = triggerLock
                BY <1>5, <2>1 DEF RequestsOK, CancelFlip
            <4>. QED BY <3>2, <4>1 DEF RequestOK
        <3>. QED BY <3>1, <3>2
    <2>. QED BY <2>1, <2>2, <2>4 DEF RequestsOK
<1>6. ASSUME NEW r \in Requests, NEW u \in Users, Post(r, u)
      PROVE  Goal
    <2>1. /\ req' \in [Requests -> RequestState] /\ req'[r].at = "posted" /\ req'[r].user = u
          /\ \A q \in Requests \ {r} : req'[q] = req[q]
        BY <1>6, Bounds, BeginEffect DEF Post, Places
    <2>2. RequestOK(r)'
        BY <2>1 DEF RequestOK
    <2>. QED BY <1>2, <1>6, <2>1, <2>2 DEF Post
<1>6a. ASSUME NEW r \in Requests, NEW t \in Triggers, NEW a \in Agents, PostLead(r, t, a)
       PROVE  Goal
    <2>0. Author[t] \in Users
        BY AuthorsAreUsers
    <2>1. /\ req' \in [Requests -> RequestState] /\ req'[r].at = "posted" /\ req'[r].user = Author[t]
          /\ \A q \in Requests \ {r} : req'[q] = req[q]
        BY <1>6a, <2>0, Bounds, BeginEffect DEF PostLead, Places
    <2>2. RequestOK(r)'
        BY <2>0, <2>1 DEF RequestOK
    <2>. QED BY <1>2, <1>6a, <2>1, <2>2 DEF PostLead
<1>7. ASSUME NEW r \in Requests, NEW k \in Claims, CancelPending(r, k)
      PROVE  Goal
    <2>1. /\ req' \in [Requests -> RequestState]
          /\ req'[r].at = "idle" \/ (req'[r].at = req[r].at /\ req'[r].user = req[r].user)
          /\ \A q \in Requests \ {r} : req'[q] = req[q]
        <3>1. CASE req[r].todo = {k}
            BY <1>7, <3>1, DoneEffect DEF CancelPending
        <3>2. CASE req[r].todo # {k}
            <4>1. req[r].todo \ {k} \in SUBSET Claims
                BY DEF TypeOK, RequestState
            <4>2. req' = [req EXCEPT ![r].todo = req[r].todo \ {k}]
                BY <1>7, <3>2 DEF CancelPending, TypeOK
            <4>. QED BY <4>1, <4>2, TodoEffect
        <3>. QED BY <3>1, <3>2
    <2>2. RequestOK(r)'
        BY <1>7, <2>1 DEF CancelPending, At, RequestsOK, RequestOK
    <2>. QED BY <1>2, <1>7, <2>1, <2>2 DEF CancelPending
<1>8. ASSUME NEW r \in Requests, ClaimInsert(r)
      PROVE  Goal
    <2>1. /\ req' \in [Requests -> RequestState]
          /\ req'[r].at = "claimed" /\ req'[r].user = req[r].user /\ req'[r].claim = req[r].claim
          /\ \A q \in Requests \ {r} : req'[q] = req[q]
        BY <1>8, GoToEffect DEF ClaimInsert, Places
    <2>2. RequestOK(r)'
        BY <1>8, <2>1 DEF ClaimInsert, At, RequestsOK, RequestOK
    <2>3. \A t \in Triggers : triggerLock[t] # r /\ triggerLock[t] # None => triggerLock'[t] = triggerLock[t]
        BY <1>8 DEF ClaimInsert
    <2>. QED BY <1>2, <1>8, <2>1, <2>2, <2>3 DEF ClaimInsert
<1>9. ASSUME NEW r \in Requests, ResolveLead(r)
      PROVE  Goal
    <2>1. /\ req' \in [Requests -> RequestState]
          /\ req'[r].at = "resolved" /\ req'[r].user = req[r].user /\ req'[r].claim = req[r].claim
          /\ \A q \in Requests \ {r} : req'[q] = req[q]
        BY <1>9, GoToEffect DEF ResolveLead, Places
    <2>2. RequestOK(r)'
        BY <1>9, <2>1 DEF ResolveLead, At, RequestsOK, RequestOK
    <2>. QED BY <1>2, <1>9, <2>1, <2>2 DEF ResolveLead
<1>10. ASSUME NEW r \in Requests, AdmitLock(r)
       PROVE  Goal
    <2>1. /\ req' \in [Requests -> RequestState]
          /\ req'[r].at = "admitting" /\ req'[r].user = req[r].user /\ req'[r].claim = req[r].claim
          /\ \A q \in Requests \ {r} : req'[q] = req[q]
        BY <1>10, GoToEffect DEF AdmitLock, Places
    <2>2. RequestOK(r)'
        BY <1>10, <2>1 DEF AdmitLock, ClaimAdmissible, Live, At, RequestsOK, RequestOK
    <2>3. \A q \in Requests \ {r} : RequestOK(q)'
        BY <1>0, <1>10, <2>1, Undisturbed DEF AdmitLock
    <2>. QED BY <2>1, <2>2, <2>3 DEF RequestsOK
<1>11. ASSUME NEW r \in Requests, AdmitCommit(r)
       PROVE  Goal
    <2>1. /\ req' \in [Requests -> RequestState] /\ req'[r].at = "idle"
          /\ \A q \in Requests \ {r} : req'[q] = req[q]
        BY <1>11, DoneEffect DEF AdmitCommit
    <2>2. RequestOK(r)'
        BY <2>1 DEF RequestOK
    <2>3. channelLock = r /\ triggerLock' = triggerLock
        BY <1>11 DEF AdmitCommit, At, RequestsOK, RequestOK
    <2>4. \A q \in Requests \ {r} : RequestOK(q)'
        BY <2>1, <2>3, Undisturbed
    <2>. QED BY <2>1, <2>2, <2>4 DEF RequestsOK
<1>12. ASSUME NEW r \in Requests, CancelRuntime(r)
       PROVE  Goal
    <2>1. /\ req' \in [Requests -> RequestState] /\ req'[r].at = "idle"
          /\ \A q \in Requests \ {r} : req'[q] = req[q]
        BY <1>12, DoneEffect DEF CancelRuntime
    <2>2. RequestOK(r)'
        BY <2>1 DEF RequestOK
    <2>. QED BY <1>2, <1>12, <2>1, <2>2 DEF CancelRuntime
<1>13. ASSUME NEW r \in Requests, SelectPending(r)
       PROVE  Goal
    <2>1. /\ req' \in [Requests -> RequestState]
          /\ req'[r].at = "idle" \/ (req'[r].at = "repairing" /\ req'[r].user = req[r].user)
          /\ \A q \in Requests \ {r} : req'[q] = req[q]
        <3>. DEFINE S == Pending(req[r].user)
        <3>1. S \in SUBSET Claims
            BY DEF Pending
        <3>. HIDE DEF S
        <3>2. CASE S = {}
            BY <1>13, <3>2, DoneEffect DEF SelectPending, S
        <3>3. CASE S # {}
            <4>1. req' = [req EXCEPT ![r].at = "repairing", ![r].todo = S]
                BY <1>13, <3>3 DEF SelectPending, S
            <4>. QED BY <3>1, <4>1, RepairEffect
        <3>. QED BY <3>2, <3>3
    <2>2. RequestOK(r)'
        BY <1>13, <2>1 DEF SelectPending, At, RequestsOK, RequestOK
    <2>. QED BY <1>2, <1>13, <2>1, <2>2 DEF SelectPending
<1>14. ASSUME NEW r \in Requests, Abort(r)
       PROVE  Goal
    <2>1. /\ req' \in [Requests -> RequestState] /\ req'[r].at = "idle"
          /\ \A q \in Requests \ {r} : req'[q] = req[q]
        BY <1>14, DoneEffect DEF Abort
    <2>2. RequestOK(r)'
        BY <2>1 DEF RequestOK
    <2>3. /\ \A t \in Triggers : triggerLock[t] # r => triggerLock'[t] = triggerLock[t]
          /\ channelLock # r => channelLock' = channelLock
          /\ claim' = claim
        BY <1>14 DEF Abort
    <2>4. \A q \in Requests \ {r} : RequestOK(q)'
        BY <2>1, <2>3, Undisturbed
    <2>. QED BY <2>1, <2>2, <2>4 DEF RequestsOK
<1>15. CASE UNCHANGED vars
    BY <1>1, <1>15 DEF vars
<1>16. CASE Surroundings
    BY <1>1, <1>16
       DEF Surroundings, SetParticipants, LapseGrant, ChangeMemberships, ReviseAgent, DeleteMessage, Publish, Advance,
           Authorized
<1>17. ASSUME NEW r \in Requests, RequestStep(r)
       PROVE  Goal
    BY <1>3, <1>4, <1>5, <1>6, <1>6a, <1>7, <1>8, <1>9, <1>10, <1>11, <1>12, <1>13, <1>14, <1>17 DEF RequestStep
<1>. QED BY <1>15, <1>16, <1>17 DEF Next

-----------------------------------------------------------------------------
(***************************************************************************)
(* Types, budget and answers.                                              *)
(***************************************************************************)

\* Every step keeps the rows well typed and grant revisions behind the roster's version.
LEMMA TypeStep ==
    ASSUME TypeOK, RevisionsBounded, RequestsOK, [Next]_vars
    PROVE  TypeOK' /\ RevisionsBounded'
<1>. USE DEF locks, standing
<1>. DEFINE Rest == /\ roster' \subseteq Members /\ lapsed' \subseteq Members /\ deleted' \subseteq Triggers
                    /\ issued' \in [Members -> 1 .. MaxVersion] /\ version' \in 1 .. MaxVersion
                    /\ audience' \in BOOLEAN
                    /\ intent' \in [Triggers -> IntentRow]
                    /\ channelLock' \in Requests \cup {None}
                    /\ triggerLock' \in [Triggers -> Requests \cup {None}]
                    /\ RevisionsBounded'
<1>1. ASSUME UNCHANGED <<standing, deleted, intent, locks>> PROVE Rest
    BY <1>1 DEF TypeOK, RevisionsBounded
<1>2. ASSUME NEW S \in SUBSET Members, SetParticipants(S)
      PROVE  Rest
    <2>1. version \in 1 .. MaxVersion /\ version < MaxVersion /\ version' = version + 1 /\ version' \in 1 .. MaxVersion
        BY <1>2, Bounds DEF SetParticipants, TypeOK
    <2>2. issued' = [m \in Members |-> IF m \in S \ roster THEN issued[m] + 1 ELSE issued[m]]
        BY <1>2 DEF SetParticipants
    <2>3. ASSUME NEW m \in Members PROVE issued'[m] \in 1 .. MaxVersion /\ issued'[m] <= version'
        <3>1. issued[m] \in 1 .. MaxVersion /\ issued[m] <= version
            BY DEF TypeOK, RevisionsBounded
        <3>2. issued'[m] = issued[m] \/ issued'[m] = issued[m] + 1
            BY <2>2
        <3>. QED BY <2>1, <3>1, <3>2, Bounds
    <2>4. issued' \in [Members -> 1 .. MaxVersion]
        BY <2>2, <2>3
    <2>. QED BY <1>2, <2>1, <2>3, <2>4 DEF SetParticipants, TypeOK, RevisionsBounded
<1>3. ASSUME NEW m \in Members, LapseGrant(m)
      PROVE  Rest
    BY <1>3 DEF LapseGrant, TypeOK, RevisionsBounded
<1>3a. ASSUME ChangeMemberships
       PROVE  Rest
    BY <1>3a DEF ChangeMemberships, TypeOK, RevisionsBounded
<1>3b. ASSUME NEW a \in Agents, ReviseAgent(a)
       PROVE  Rest
    <2>1. ASSUME NEW t \in Triggers PROVE intent'[t] \in IntentRow
        <3>1. intent'[t] = [intent[t] EXCEPT !.pinned = @ /\ intent[t].agent # a]
            BY <1>3b DEF ReviseAgent
        <3>2. intent[t] \in IntentRow
            BY DEF TypeOK
        <3>. QED BY <3>1, <3>2 DEF IntentRow
    <2>2. intent' = [t \in Triggers |-> intent'[t]]
        BY <1>3b DEF ReviseAgent
    <2>3. intent' \in [Triggers -> IntentRow]
        BY <2>1, <2>2
    <2>. QED BY <1>3b, <2>3 DEF ReviseAgent, TypeOK, RevisionsBounded
<1>4. ASSUME NEW t \in Triggers, DeleteMessage(t)
      PROVE  Rest
    BY <1>4 DEF DeleteMessage, TypeOK, RevisionsBounded
<1>4a. ASSUME NEW u \in Users, NEW a \in Agents PROVE Intent(u, a) \in IntentRow
    BY DEF Intent, TypeOK, IntentRow
<1>5. ASSUME NEW r \in Requests, NEW u \in Users, NEW k \in Claims, ClaimProve(r, u, k)
      PROVE  Rest
    BY <1>5, ClaimParts DEF ClaimProve, LocksTrigger, TypeOK, RevisionsBounded
<1>6. ASSUME NEW r \in Requests, ClaimInsert(r)
      PROVE  Rest
    BY <1>6 DEF ClaimInsert, TypeOK, RevisionsBounded
<1>7. ASSUME NEW r \in Requests, AdmitLock(r)
      PROVE  Rest
    BY <1>7 DEF AdmitLock, TypeOK, RevisionsBounded
<1>8. ASSUME NEW r \in Requests, AdmitCommit(r)
      PROVE  Rest
    <2>1. PICK k \in Claims : k = req[r].claim /\ req[r].user \in Users
        BY <1>8 DEF AdmitCommit, At, RequestsOK, RequestOK
    <2>2. Intent(req[r].user, Agent(k)) \in IntentRow
        BY <1>4a, <2>1, ClaimParts
    <2>3. intent' \in [Triggers -> IntentRow]
        BY <1>8, <2>1, <2>2, ClaimParts DEF AdmitCommit, TypeOK
    <2>. QED BY <1>8, <2>3 DEF AdmitCommit, TypeOK, RevisionsBounded
<1>8a. ASSUME NEW r \in Requests, NEW t \in Triggers, NEW a \in Agents, PostLead(r, t, a)
       PROVE  Rest
    <2>1. Intent(Author[t], a) \in IntentRow
        BY <1>4a, AuthorsAreUsers
    <2>2. intent' \in [Triggers -> IntentRow]
        BY <1>8a, <2>1 DEF PostLead, TypeOK
    <2>. QED BY <1>8a, <2>2 DEF PostLead, TypeOK, RevisionsBounded
<1>9. ASSUME NEW r \in Requests, Abort(r)
      PROVE  Rest
    BY <1>9 DEF Abort, TypeOK, RevisionsBounded
<1>. HIDE DEF Rest
<1>10. ASSUME UNCHANGED vars PROVE Rest
    BY <1>1, <1>10 DEF vars
<1>11. ASSUME Surroundings PROVE Rest
    BY <1>1, <1>2, <1>3, <1>3a, <1>3b, <1>4, <1>11 DEF Surroundings, Publish, Advance
<1>12. ASSUME NEW r \in Requests, RequestStep(r)
       PROVE  Rest
    BY <1>1, <1>5, <1>6, <1>7, <1>8, <1>8a, <1>9, <1>12
       DEF RequestStep, ClaimDuplicate, CancelFlip, Post, CancelPending, ResolveLead, CancelRuntime, SelectPending
<1>13. Rest
    BY <1>10, <1>11, <1>12 DEF Next
<1>14. claim' \in [Claims -> ClaimRow] /\ run' \in [Triggers -> RunRow] /\ req' \in [Requests -> RequestState]
    BY ClaimStep, RunStep, RequestsStep
<1>. QED BY <1>13, <1>14 DEF Rest, TypeOK

\* Only an insertion adds to what a trigger retains.
LEMMA RetainedSame ==
    ASSUME \A k \in Claims : Move(k),
           \A k \in Claims : claim[k].state = "none" => claim'[k].state = "none",
           NEW t \in Triggers
    PROVE  Retained(t)' = Retained(t)
<1>1. \A k \in Claims : claim'[k].state = "none" <=> claim[k].state = "none"
    BY DEF Move, Live
<1>. QED BY <1>1 DEF Retained

\* Every step keeps every trigger within its budget: whoever inserts holds the trigger, and a
\* trigger is held only with room left.
LEMMA BudgetStep ==
    ASSUME TypeOK, RequestsOK, TriggersOK, [Next]_vars
    PROVE  TriggersOK'
<1>. USE DEF locks
<1>0. None \notin Requests /\ \A k \in Claims : Move(k)
    BY NoneIsNoMember, ClaimStep
<1>1. ASSUME \A k \in Claims : claim[k].state = "none" => claim'[k].state = "none",
             \A t \in Triggers : triggerLock'[t] = triggerLock[t] \/ triggerLock'[t] = None
                                 \/ Cardinality(Retained(t)) < MaxTurns
      PROVE  TriggersOK'
    <2>. SUFFICES ASSUME NEW t \in Triggers PROVE BudgetOK(t)'
        BY DEF TriggersOK
    <2>1. Retained(t)' = Retained(t)
        BY <1>0, <1>1, RetainedSame
    <2>2. BudgetOK(t)
        BY DEF TriggersOK
    <2>. QED BY <1>1, <2>1, <2>2 DEF BudgetOK
<1>2. ASSUME UNCHANGED <<claim, triggerLock>> PROVE TriggersOK'
    BY <1>1, <1>2
<1>3. ASSUME NEW t \in Triggers, Publish(t)
      PROVE  TriggersOK'
    <2>1. \A k \in Claims : k \in Answered(t) => claim[k].state # "none"
        BY DEF Answered, Live
    <2>2. \A k \in Claims : claim[k].state = "none" => claim'[k] = claim[k]
        BY <1>3, <2>1 DEF Publish
    <2>. QED BY <1>1, <1>3, <2>2 DEF Publish
<1>4. ASSUME NEW r \in Requests, NEW u \in Users, NEW k \in Claims, CancelFlip(r, u, k)
      PROVE  TriggersOK'
    <2>1. claim[k].state # "none" /\ \A j \in Claims \ {k} : claim'[j] = claim[j]
        BY <1>4 DEF CancelFlip, Live, TypeOK
    <2>. QED BY <1>1, <1>4, <2>1 DEF CancelFlip
<1>5. ASSUME Supersede \/ claim' = claim, UNCHANGED triggerLock
      PROVE  TriggersOK'
    <2>1. \A k \in Claims : claim[k].state = "none" => claim'[k] = claim[k]
        BY <1>5 DEF Supersede, Live
    <2>. QED BY <1>1, <1>5, <2>1
<1>6. ASSUME NEW r \in Requests, NEW u \in Users, NEW k \in Claims, ClaimProve(r, u, k)
      PROVE  TriggersOK'
    <2>1. claim' = claim /\ \A t \in Triggers \ {Trigger(k)} : triggerLock'[t] = triggerLock[t]
        BY <1>6 DEF ClaimProve, LocksTrigger, TypeOK
    <2>2. Cardinality(Retained(Trigger(k))) < MaxTurns
        BY <1>6 DEF ClaimProve, Retained
    <2>. QED BY <1>1, <2>1, <2>2
<1>7. ASSUME NEW r \in Requests, ClaimInsert(r)
      PROVE  TriggersOK'
    <2>1. PICK k \in Claims : k = req[r].claim /\ triggerLock[Trigger(k)] = r
        BY <1>7 DEF ClaimInsert, At, RequestsOK, RequestOK
    <2>2. /\ claim'[k].state = "claimed" /\ claim[k].state = "none"
          /\ \A j \in Claims \ {k} : claim'[j] = claim[j]
        BY <1>7, <2>1 DEF ClaimInsert, TypeOK
    <2>3. /\ triggerLock'[Trigger(k)] = None
          /\ \A t \in Triggers : triggerLock'[t] = triggerLock[t] \/ triggerLock'[t] = None
        BY <1>7, <2>1, ClaimParts DEF ClaimInsert
    <2>. SUFFICES ASSUME NEW t \in Triggers PROVE BudgetOK(t)'
        BY DEF TriggersOK
    <2>4. BudgetOK(t)
        BY DEF TriggersOK
    <2>5. CASE t # Trigger(k)
        <3>1. Retained(t)' = Retained(t)
            BY <2>2, <2>5 DEF Retained
        <3>. QED BY <2>3, <2>4, <3>1 DEF BudgetOK
    <2>6. CASE t = Trigger(k)
        <3>1. Retained(t)' = Retained(t) \cup {k} /\ k \notin Retained(t)
            BY <2>2, <2>6 DEF Retained
        <3>2. IsFiniteSet(Retained(t)) /\ Cardinality(Retained(t)) < MaxTurns
            BY <1>0, <2>1, <2>4, <2>6 DEF BudgetOK
        <3>3. IsFiniteSet(Retained(t) \cup {k}) /\ Cardinality(Retained(t) \cup {k}) = Cardinality(Retained(t)) + 1
            BY <3>1, <3>2, FS_AddElement, Zenon
        <3>4. Cardinality(Retained(t)) \in Nat
            BY <3>2, FS_CardinalityType
        <3>5. IsFiniteSet(Retained(t)') /\ Cardinality(Retained(t)') <= MaxTurns
            BY <3>1, <3>2, <3>3, <3>4, Bounds
        <3>. QED BY <2>3, <2>6, <3>5 DEF BudgetOK
    <2>. QED BY <2>5, <2>6
<1>8. ASSUME NEW r \in Requests, AdmitCommit(r)
      PROVE  TriggersOK'
    <2>1. PICK k \in Claims : k = req[r].claim /\ Live(k)
        BY <1>8 DEF AdmitCommit, At, RequestsOK, RequestOK
    <2>2. claim[k].state # "none" /\ \A j \in Claims \ {k} : claim'[j] = claim[j]
        BY <1>8, <2>1 DEF AdmitCommit, Live, TypeOK
    <2>. QED BY <1>1, <1>8, <2>2 DEF AdmitCommit
<1>9. ASSUME NEW r \in Requests, Abort(r)
      PROVE  TriggersOK'
    <2>1. claim' = claim /\ \A t \in Triggers : triggerLock'[t] = triggerLock[t] \/ triggerLock'[t] = None
        BY <1>9 DEF Abort
    <2>. QED BY <1>1, <2>1
<1>10. CASE UNCHANGED vars
    BY <1>2, <1>10 DEF vars
<1>11. CASE Surroundings
    BY <1>2, <1>3, <1>11
       DEF Surroundings, SetParticipants, LapseGrant, ChangeMemberships, ReviseAgent, DeleteMessage, Advance
<1>12. ASSUME NEW r \in Requests, RequestStep(r)
       PROVE  TriggersOK'
    BY <1>2, <1>4, <1>5, <1>6, <1>7, <1>8, <1>9, <1>12
       DEF RequestStep, ClaimDuplicate, Post, PostLead, CancelPending, ResolveLead, AdmitLock, CancelRuntime,
           SelectPending
<1>. QED BY <1>10, <1>11, <1>12 DEF Next

\* Every step keeps the answered claims answered by the intent they carry.
LEMMA AnswerStep ==
    ASSUME TypeOK, RequestsOK, RespondedByOwnIntent, [Next]_vars
    PROVE  RespondedByOwnIntent'
<1>. SUFFICES ASSUME NEW k \in Claims, claim'[k].state = "responded"
              PROVE  claim'[k].bound /\ run'[Trigger(k)].published
    BY DEF RespondedByOwnIntent
<1>1. Move(k)
    BY ClaimStep
<1>2. run[Trigger(k)].published => run'[Trigger(k)].published
    BY RunStep, ClaimParts
<1>3. CASE claim'[k] = claim[k]
    BY <1>2, <1>3 DEF RespondedByOwnIntent
<1>4. CASE claim'[k] # claim[k]
    BY <1>1, <1>4 DEF Move
<1>. QED BY <1>3, <1>4

-----------------------------------------------------------------------------
(***************************************************************************)
(* The theorems.                                                           *)
(***************************************************************************)

\* The initial states satisfy the invariant.
LEMMA InitInv == Init => Inv
<1>. SUFFICES ASSUME Init PROVE Inv
    OBVIOUS
<1>1. /\ NoClaim \in ClaimRow /\ NoIntent \in IntentRow /\ NoRun \in RunRow /\ Idle \in RequestState
      /\ NoClaim.state = "none" /\ Idle.at = "idle"
    BY Bounds DEF NoClaim, NoIntent, NoRun, Idle, ClaimRow, IntentRow, RunRow, RunStates, RequestState
<1>2. TypeOK
    BY <1>1, Bounds DEF Init, TypeOK
<1>3. RevisionsBounded
    BY DEF Init, RevisionsBounded
<1>4. RequestsOK /\ RespondedByOwnIntent
    BY <1>1 DEF Init, RequestsOK, RequestOK, RespondedByOwnIntent
<1>5. ASSUME NEW t \in Triggers PROVE BudgetOK(t)
    <2>1. Retained(t) = {}
        BY <1>1 DEF Init, Retained
    <2>2. triggerLock[t] = None
        BY DEF Init
    <2>. QED BY <2>1, <2>2, FS_EmptySet, Bounds DEF BudgetOK
<1>. QED BY <1>2, <1>3, <1>4, <1>5 DEF Inv, TriggersOK

\* Every step keeps the invariant.
LEMMA InvStep == Inv /\ [Next]_vars => Inv'
BY TypeStep, RequestsStep, BudgetStep, AnswerStep DEF Inv

\* The inductive invariant holds in every reachable state.
THEOREM Invariant == Spec => []Inv
BY InitInv, InvStep, PTL DEF Spec

\* The rows of every table keep their types, and revisions and versions stay within their bound.
THEOREM TypeCorrect == Spec => []TypeOK
<1>1. Inv => TypeOK
    BY DEF Inv
<1>. QED BY Invariant, <1>1, PTL

\* Concurrent claims never exceed the retained budget of their trigger: the count made under the
\* trigger's lock still bounds the tree when the row is inserted, for any number of agents,
\* revisions and requests.
THEOREM BudgetBounded == Spec => []BudgetHeld
<1>1. Inv => BudgetHeld
    BY DEF Inv, TriggersOK, BudgetOK, BudgetHeld, Retained
<1>. QED BY Invariant, <1>1, PTL

\* A claim is responded only by the published answer of the intent it carries.
THEOREM AnsweredByOwnIntent == Spec => []RespondedByOwnIntent
<1>1. Inv => RespondedByOwnIntent
    BY DEF Inv
<1>. QED BY Invariant, <1>1, PTL

\* A claim that was superseded, cancelled or answered stays so and gets no intent afterwards,
\* whatever dispatch still carries it.
THEOREM ClaimsEnd == Spec => TerminalClaimsStay
<1>. DEFINE Stay == \A k \in Claims : claim[k].state \in {"responded", "superseded", "cancelled"} =>
                        claim'[k].bound = claim[k].bound /\ (claim'[k].state = claim[k].state)
<1>1. ASSUME Inv, [Next]_vars PROVE Stay
    BY <1>1, ClaimStep DEF Inv, Move, Live
<1>2. Inv /\ [Next]_vars => [Stay]_vars
    BY <1>1
<1>. QED BY Invariant, <1>2, PTL DEF Spec, TerminalClaimsStay

\* A result is published, or a claim answered by its replay, only while the agent holds the very
\* grant that every claim carrying the intent was admitted under.
THEOREM PublicationGranted == Spec => PublishedUnderRetainedGrant
<1>. DEFINE Granted == \A t \in Triggers :
        \/ run'[t].published /\ ~run[t].published
        \/ \E k \in Carrying(t) : claim'[k].state = "responded" /\ Live(k)
        => \A k \in Carrying(t) : Effective(Agent(k)) /\ claim[k].auth = issued[Agent(k)]
<1>1. ASSUME Inv, [Next]_vars PROVE Granted
    <2>. SUFFICES ASSUME NEW t \in Triggers,
                         \/ run'[t].published /\ ~run[t].published
                         \/ \E k \in Carrying(t) : claim'[k].state = "responded" /\ Live(k)
                  PROVE  BindingCurrent(t)
        BY DEF BindingCurrent
    <2>1. CASE run'[t].published /\ ~run[t].published
        BY <1>1, <2>1, RunStep DEF Inv
    <2>2. CASE \E k \in Carrying(t) : claim'[k].state = "responded" /\ Live(k)
        <3>1. PICK k \in Claims : Trigger(k) = t /\ claim'[k].state = "responded" /\ Live(k)
            BY <2>2 DEF Carrying
        <3>2. Move(k)
            BY <1>1, ClaimStep DEF Inv
        <3>. QED BY <3>1, <3>2 DEF Move, Live
    <2>. QED BY <2>1, <2>2
<1>2. Inv /\ [Next]_vars => [Granted]_vars
    BY <1>1
<1>. QED BY Invariant, <1>2, PTL DEF Spec, PublishedUnderRetainedGrant

=============================================================================
