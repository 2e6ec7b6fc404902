------------------------------ MODULE FollowUps ------------------------------
(***************************************************************************)
(* The follow-up queue of one runtime session: messages a person queues    *)
(* for a running agent, kept in a sealed file that several host processes  *)
(* share, and handed to the agent's transport one at a time.               *)
(*                                                                         *)
(* A host works under the queue lock; the text goes out with that lock     *)
(* released and the delivery claim, a second lock file, held until the     *)
(* transport call has really ended.  Every save of the file is a step, so  *)
(* a host can die between any two of them.  Each host runs one command at  *)
(* a time: two commands of one host are two hosts that die together.       *)
(*                                                                         *)
(* The queue lock is taken to be exclusive; MutationOwner is about that.   *)
(* The event file has no lock at all: every host appends to it by loading  *)
(* it and writing it back, so a peer can put back an older copy.           *)
(* A command whose idempotency key was used returns the snapshot, as a     *)
(* read does.  A run stands for the run with its transport connection,     *)
(* and a refusal by authority, an archived session or a failed write is a  *)
(* command that aborts.                                                    *)
(***************************************************************************)
EXTENDS Integers, Sequences, FiniteSets, Functions

CONSTANTS
    Hosts,          \* host processes
    Messages,       \* message identities
    MaxItems,       \* FOLLOW_UP_QUEUE_MAX_ITEMS
    MaxGeneration,  \* bound: generations of the session
    MaxVersion,     \* bound: queue versions a person's change may start from
    MaxRunVersion,  \* bound: versions of a run
    None

ASSUME CapacityPositive == MaxItems \in Nat \ {0}
ASSUME BoundsPositive == {MaxGeneration, MaxVersion, MaxRunVersion} \subseteq Nat \ {0}
ASSUME NoneIsNoHost == None \notin Hosts \cup Messages
ASSUME HostsAreNoStates == Hosts \cap {"free", "dead", "malformed"} = {}

VARIABLES
    live,      \* the session: generation, selected run (0: none), its version and input boundary
    queue,     \* the stored queue state
    log,       \* history: queue.updated events put into the event file, as <<generation, version>>
    retained,  \* the last of them is in the event file now
    lock,      \* host that holds the queue lock
    claim,     \* delivery lock file: "free", a host, "dead" (its owner died) or "malformed"
    sent,      \* history: texts handed to the transport
    cmd        \* Hosts -> command being executed

vars == <<live, queue, log, retained, lock, claim, sent, cmd>>

Empty(g) == [gen |-> g, ver |-> 0, items |-> <<>>, seen |-> {}, used |-> <<0, 0>>,
             receipt |-> [msg |-> None, status |-> "none"], outbox |-> "none", stopped |-> FALSE]

NoSession == [gen |-> 0, run |-> 0, version |-> 0, awaiting |-> FALSE]
Idle == [at |-> "idle", then |-> "end", live |-> NoSession, msg |-> None, fresh |-> TRUE,
         accepted |-> FALSE, send |-> 0]

At(h, at) == cmd[h].at = at
GoTo(h, at) == cmd' = [cmd EXCEPT ![h].at = at]

Item(m, s) == [msg |-> m, state |-> s]
AllQueued == \A i \in DOMAIN queue.items : queue.items[i].state = "queued"
Dispatching(i) == queue.items[i].state = "dispatching"
Without(s, i) == [j \in 1 .. Len(s) - 1 |-> IF j < i THEN s[j] ELSE s[j + 1]]
Claimable == claim \in {"free", "dead"}

-----------------------------------------------------------------------------
(* The session.                                                             *)

\* A run is launched or resumed, input ownership is transferred: the generation advances.
Launch ==
    /\ live.gen < MaxGeneration
    /\ live' = [gen |-> live.gen + 1, run |-> live.gen + 1, version |-> 1, awaiting |-> FALSE]
    /\ UNCHANGED <<queue, log, retained, lock, claim, sent, cmd>>

TransferInput ==
    /\ live.gen < MaxGeneration
    /\ live' = [live EXCEPT !.gen = @ + 1]
    /\ UNCHANGED <<queue, log, retained, lock, claim, sent, cmd>>

\* The run is observed to wait for input, or to work.
ObserveRun ==
    /\ live.run > 0 /\ live.version < MaxRunVersion
    /\ live' = [live EXCEPT !.version = @ + 1, !.awaiting = ~@]
    /\ UNCHANGED <<queue, log, retained, lock, claim, sent, cmd>>

\* A publication was attempted, and the host that attempted it is gone.
Interrupted == queue.outbox = "attempted" /\ \A h \in Hosts : cmd[h].at \notin {"publishing", "published"}

\* Another append rewrites the event file: retention evicts the event, or the peer writes back a
\* copy it loaded without the event, or with it.  Only an interrupted publication looks for it.
RewriteEvents ==
    /\ Interrupted
    /\ retained' = ~retained
    /\ UNCHANGED <<live, queue, log, lock, claim, sent, cmd>>

-----------------------------------------------------------------------------
(* Leaving a command.                                                       *)

\* Mutant: a timed-out command gives the claim back.
LingersNot(h) == FALSE

\* The transport call has not ended: a deadline only ended the wait for it.
Lingers(h) == cmd[h].send # 0 /\ sent[cmd[h].send].outcome = "sending"

\* The queue lock is released, and the delivery claim unless its send is unsettled.
Leave(h) ==
    /\ lock' = IF lock = h THEN None ELSE lock
    /\ IF Lingers(h)
       THEN GoTo(h, "lingering") /\ UNCHANGED claim
       ELSE /\ cmd' = [cmd EXCEPT ![h] = Idle]
            /\ claim' = IF claim = h THEN "free" ELSE claim

Abort(h) ==
    /\ cmd[h].at \in {"flush", "publishing", "published", "act", "finishing", "final", "stopping", "stop"}
    /\ Leave(h)
    /\ UNCHANGED <<live, queue, log, retained, sent>>

\* The host dies.  Its queue lock is stale and so free; its delivery claim names a dead process,
\* or nobody when the host dies between creating the file and writing it.
Crash(h) ==
    /\ ~At(h, "idle")
    /\ lock' = IF lock = h THEN None ELSE lock
    /\ \/ claim' = IF claim = h THEN "dead" ELSE claim
       \/ At(h, "act") /\ Claimable /\ claim' = "malformed"
    /\ sent' = IF Lingers(h) THEN [sent EXCEPT ![cmd[h].send].outcome = "lost"] ELSE sent
    /\ cmd' = [cmd EXCEPT ![h] = Idle]
    /\ UNCHANGED <<live, queue, log, retained>>

-----------------------------------------------------------------------------
(* The outbox.  A change is saved with its event; flush() publishes it.     *)

\* publish(): the changed state q is saved under a new version, its event prepared.
Save(h, q, then) ==
    /\ queue' = [q EXCEPT !.ver = @ + 1, !.outbox = "prepared"]
    /\ cmd' = [cmd EXCEPT ![h].at = "flush", ![h].then = then]

\* Mutant: an event of the generation stands for each of its versions.
PublishedAnyVersion == log # <<>> /\ log[Len(log)][1] = queue.gen /\ retained

\* isPublished: the event file holds the event of the outbox.
Published == log # <<>> /\ log[Len(log)] = <<queue.gen, queue.ver>> /\ retained

FlushAttempt(h) ==
    /\ At(h, "flush")
    /\ queue.outbox = "prepared" /\ ~Published
    /\ queue' = [queue EXCEPT !.outbox = "attempted"]
    /\ GoTo(h, "publishing")
    /\ UNCHANGED <<live, log, retained, lock, claim, sent>>

\* The save that puts the event into the file; an event that is there is not added again.  Only the
\* holder of the queue lock appends events of the queue, so loading and saving are one step for
\* them, whatever events of others the save drops.
AppendEvent(h) ==
    /\ At(h, "publishing")
    /\ log' = IF Published THEN log ELSE Append(log, <<queue.gen, queue.ver>>)
    /\ retained' = TRUE
    /\ GoTo(h, "published")
    /\ UNCHANGED <<live, queue, lock, claim, sent>>

\* An interrupted publication counts only when the event file holds the event; otherwise the
\* command, and every later one, is refused with recovery_required.
MarkDelivered(h) ==
    /\ \/ At(h, "published")
       \/ At(h, "flush") /\ queue.outbox \in {"prepared", "attempted"} /\ Published
    /\ queue' = [queue EXCEPT !.outbox = "delivered"]
    /\ GoTo(h, "flush")
    /\ UNCHANGED <<live, log, retained, lock, claim, sent>>

Flushed(h) ==
    /\ At(h, "flush")
    /\ queue.outbox \in {"delivered", "none"}
    /\ queue' = [queue EXCEPT !.outbox = "none"]
    /\ CASE cmd[h].then = "end" -> Leave(h)
         [] cmd[h].then = "handoff" -> lock' = None /\ GoTo(h, "handoff") /\ UNCHANGED claim
         [] OTHER -> GoTo(h, cmd[h].then) /\ UNCHANGED <<lock, claim>>
    /\ UNCHANGED <<live, log, retained, sent>>

-----------------------------------------------------------------------------
(* execute(): a command under the queue lock.                               *)

\* The command was made for the version the queue has now.
Enter(h) ==
    /\ At(h, "idle")
    /\ lock = None
    /\ lock' = h
    /\ cmd' = [cmd EXCEPT ![h] = [Idle EXCEPT !.at = "flush", !.then = "act", !.live = live]]
    /\ UNCHANGED <<live, queue, log, retained, claim, sent>>

\* A newer generation starts with an empty queue.
Replace(h) ==
    /\ At(h, "act")
    /\ queue.gen < cmd[h].live.gen
    /\ queue' = Empty(cmd[h].live.gen)
    /\ UNCHANGED <<live, log, retained, lock, claim, sent, cmd>>

Current(h) == At(h, "act") /\ queue.gen = cmd[h].live.gen /\ live.gen = cmd[h].live.gen

Recoverable == Claimable /\ \E i \in DOMAIN queue.items : Dispatching(i)

\* Mutant: a claim nobody holds goes back to the queue.
Requeued == "queued"

\* A claim that nobody holds may have been sent: it is never sent again.
Abandoned == "ambiguous"

Recover(h) ==
    /\ Current(h)
    /\ Claimable
    /\ \E i \in DOMAIN queue.items :
        /\ Dispatching(i)
        /\ queue' = [queue EXCEPT !.items[i].state = Abandoned, !.ver = @ + 1, !.outbox = "prepared",
                                  !.receipt = [msg |-> queue.items[i].msg, status |-> "ambiguous"]]
    /\ claim' = "free"
    /\ cmd' = [cmd EXCEPT ![h].at = "flush", ![h].then = "act", ![h].fresh = FALSE]
    /\ UNCHANGED <<live, log, retained, lock, sent>>

Read(h) ==
    /\ At(h, "act")
    /\ queue.gen = cmd[h].live.gen /\ ~Recoverable
    /\ Leave(h)
    /\ UNCHANGED <<live, queue, log, retained, sent>>

\* A change needs the version it was made for; a recovery in the same command moved it on.
MayChange(h) ==
    Current(h) /\ ~Recoverable /\ ~queue.stopped /\ cmd[h].fresh /\ queue.ver < MaxVersion

\* Mutant: message identities are not remembered.
AnyIdentity(m) == TRUE

\* An identity is used once in a generation, also after its message was removed or delivered.
Unused(m) == m \notin queue.seen

Enqueue(h, m) ==
    /\ MayChange(h)
    /\ cmd[h].live.run > 0
    /\ Unused(m)
    /\ Len(queue.items) < MaxItems
    /\ Save(h, [queue EXCEPT !.items = Append(@, Item(m, "queued")), !.seen = @ \cup {m}], "end")
    /\ UNCHANGED <<live, log, retained, lock, claim, sent>>

Remove(h, m) ==
    /\ MayChange(h)
    /\ \E i \in DOMAIN queue.items :
        /\ queue.items[i].msg = m /\ ~Dispatching(i)
        /\ Save(h, [queue EXCEPT !.items = Without(@, i)], "end")
    /\ UNCHANGED <<live, log, retained, lock, claim, sent>>

Reorder(h) ==
    /\ MayChange(h)
    /\ AllQueued
    /\ \E p \in Bijection(DOMAIN queue.items, DOMAIN queue.items) :
        Save(h, [queue EXCEPT !.items = [i \in DOMAIN queue.items |-> queue.items[p[i]]]], "end")
    /\ UNCHANGED <<live, log, retained, lock, claim, sent>>

-----------------------------------------------------------------------------
(* Delivery.                                                                *)

Boundary(l) == <<l.run, l.version>>

\* Mutant: the claim covers only the save of the queue.
TakeNoClaim(h) == claim' = "free"

TakeClaim(h) == claim' = h

\* The head is claimed, with the input boundary it uses up, before any text leaves.
StartDelivery(h) ==
    /\ MayChange(h)
    /\ AllQueued /\ queue.items # <<>>
    /\ cmd[h].live.run > 0 /\ cmd[h].live.awaiting /\ queue.used # Boundary(cmd[h].live)
    /\ Claimable
    /\ TakeClaim(h)
    /\ queue' = [queue EXCEPT !.items[1].state = "dispatching", !.used = Boundary(cmd[h].live),
                              !.ver = @ + 1, !.outbox = "prepared"]
    /\ cmd' = [cmd EXCEPT ![h].at = "flush", ![h].then = "handoff", ![h].msg = queue.items[1].msg]
    /\ UNCHANGED <<live, log, retained, lock, sent>>

\* performDelivery: the boundary is still the one that was claimed, and the text leaves.
Handoff(h) ==
    /\ At(h, "handoff")
    /\ live = cmd[h].live
    /\ sent' = Append(sent, [gen |-> live.gen, msg |-> cmd[h].msg, at |-> Boundary(live), outcome |-> "sending"])
    /\ cmd' = [cmd EXCEPT ![h].at = "waiting", ![h].send = Len(sent')]
    /\ UNCHANGED <<live, queue, log, retained, lock, claim>>

\* The boundary or the authority changed before the handoff.
HandoffRefused(h) ==
    /\ At(h, "handoff")
    /\ GoTo(h, "finishing")
    /\ UNCHANGED <<live, queue, log, retained, lock, claim, sent>>

\* The transport call ends, whoever still waits for it.
Settle(h, s) ==
    /\ Lingers(h)
    /\ sent' = [sent EXCEPT ![cmd[h].send].outcome = s]
    /\ IF At(h, "lingering")
       THEN cmd' = [cmd EXCEPT ![h] = Idle] /\ claim' = IF claim = h THEN "free" ELSE claim
       ELSE UNCHANGED <<cmd, claim>>
    /\ UNCHANGED <<live, queue, log, retained, lock>>

SameRun(h) == live.gen = cmd[h].live.gen /\ live.run = cmd[h].live.run

\* Mutant: a deadline that passes counts as a success.
AcceptedUnlessFailed(h) == sent[cmd[h].send].outcome # "failed" /\ SameRun(h)

AcceptedBy(h) == sent[cmd[h].send].outcome = "ok" /\ SameRun(h)

\* The wait ends with the transport's answer, or with a deadline, a Stop or a lost authority.
Verdict(h) ==
    /\ At(h, "waiting")
    /\ \E accepted \in {AcceptedBy(h), FALSE} :
        cmd' = [cmd EXCEPT ![h].at = "finishing", ![h].accepted = accepted]
    /\ UNCHANGED <<live, queue, log, retained, lock, claim, sent>>

\* The receipt is finalized under the queue lock, if the queue is still the one of the claim.
FinishEnter(h) ==
    /\ At(h, "finishing")
    /\ lock = None
    /\ IF queue.gen # cmd[h].live.gen \/ queue.stopped
       THEN Leave(h)
       ELSE /\ lock' = h
            /\ cmd' = [cmd EXCEPT ![h].at = "flush", ![h].then = "final", ![h].accepted = @ /\ SameRun(h)]
            /\ UNCHANGED claim
    /\ UNCHANGED <<live, queue, log, retained, sent>>

Final(h) ==
    LET claimed == {i \in DOMAIN queue.items : queue.items[i] = Item(cmd[h].msg, "dispatching")}
        receipt == [msg |-> cmd[h].msg, status |-> IF cmd[h].accepted THEN "accepted" ELSE "ambiguous"]
        settled(i) == IF cmd[h].accepted THEN Without(queue.items, i)
                      ELSE [queue.items EXCEPT ![i].state = "ambiguous"]
    IN
    /\ At(h, "final")
    /\ \/ claimed = {} /\ Leave(h) /\ UNCHANGED queue
       \/ /\ \E i \in claimed : Save(h, [queue EXCEPT !.items = settled(i), !.receipt = receipt], "end")
          /\ UNCHANGED <<lock, claim>>
    /\ UNCHANGED <<live, log, retained, sent>>

-----------------------------------------------------------------------------
(* Stop: the generation advances first, then its queue is discarded.        *)

Stop(h) ==
    /\ At(h, "idle")
    /\ live.run > 0 /\ live.gen < MaxGeneration
    /\ live' = [live EXCEPT !.gen = @ + 1, !.run = 0, !.awaiting = FALSE]
    /\ cmd' = [cmd EXCEPT ![h] = [Idle EXCEPT !.at = "stopping", !.live = live]]
    /\ UNCHANGED <<queue, log, retained, lock, claim, sent>>

StopEnter(h) ==
    /\ At(h, "stopping")
    /\ lock = None
    /\ IF queue.gen # cmd[h].live.gen \/ queue.stopped
       THEN Leave(h)
       ELSE lock' = h /\ cmd' = [cmd EXCEPT ![h].at = "flush", ![h].then = "stop"] /\ UNCHANGED claim
    /\ UNCHANGED <<live, queue, log, retained, sent>>

StopApply(h) ==
    LET claimed == {i \in DOMAIN queue.items : queue.items[i].state # "queued"}
        Discard(receipt) == Save(h, [queue EXCEPT !.items = <<>>, !.stopped = TRUE, !.receipt = receipt], "end")
    IN
    /\ At(h, "stop")
    /\ \/ claimed = {} /\ Discard(queue.receipt)
       \/ \E i \in claimed : /\ \A j \in claimed : i <= j
                             /\ Discard([msg |-> queue.items[i].msg, status |-> "ambiguous"])
    /\ UNCHANGED <<live, log, retained, lock, claim, sent>>

-----------------------------------------------------------------------------
Init ==
    /\ live = [gen |-> 1, run |-> 1, version |-> 1, awaiting |-> TRUE]
    /\ queue = Empty(1)
    /\ log = <<>>
    /\ retained = TRUE
    /\ lock = None
    /\ claim = "free"
    /\ sent = <<>>
    /\ cmd = [h \in Hosts |-> Idle]

HostStep(h) ==
    \/ Abort(h)
    \/ Crash(h)
    \/ FlushAttempt(h)
    \/ AppendEvent(h)
    \/ MarkDelivered(h)
    \/ Flushed(h)
    \/ Enter(h)
    \/ Replace(h)
    \/ Recover(h)
    \/ Read(h)
    \/ \E m \in Messages : Enqueue(h, m) \/ Remove(h, m)
    \/ Reorder(h)
    \/ StartDelivery(h)
    \/ Handoff(h)
    \/ HandoffRefused(h)
    \/ \E s \in {"ok", "failed"} : Settle(h, s)
    \/ Verdict(h)
    \/ FinishEnter(h)
    \/ Final(h)
    \/ Stop(h)
    \/ StopEnter(h)
    \/ StopApply(h)

Next == Launch \/ TransferInput \/ ObserveRun \/ RewriteEvents \/ \E h \in Hosts : HostStep(h)

Spec == Init /\ [][Next]_vars

\* Commands keep arriving and a host goes on with what it does; crashes and failed writes do not
\* cut short every flush.
Serving ==
    \A h \in Hosts :
        /\ WF_vars(HostStep(h))
        /\ SF_vars(Enter(h))
        /\ SF_vars(FlushAttempt(h))
        /\ SF_vars(AppendEvent(h))
        /\ SF_vars(MarkDelivered(h))

FairSpec == Spec /\ Serving

-----------------------------------------------------------------------------
(* Properties.                                                              *)

Session == [gen : 0 .. MaxGeneration, run : 0 .. MaxGeneration, version : 0 .. MaxRunVersion, awaiting : BOOLEAN]

Receipt == [msg : Messages \cup {None}, status : {"none", "accepted", "ambiguous"}]

QueueItem == [msg : Messages, state : {"queued", "dispatching", "ambiguous"}]

QueueState == [gen : 1 .. MaxGeneration, ver : 0 .. MaxVersion + 2, items : Seq(QueueItem), seen : SUBSET Messages,
               used : (0 .. MaxGeneration) \X (0 .. MaxRunVersion), receipt : Receipt,
               outbox : {"none", "prepared", "attempted", "delivered"}, stopped : BOOLEAN]

Send == [gen : 1 .. MaxGeneration, msg : Messages, at : (0 .. MaxGeneration) \X (0 .. MaxRunVersion),
         outcome : {"sending", "ok", "failed", "lost"}]

Command == [at : {"idle", "flush", "publishing", "published", "act", "handoff", "waiting", "finishing", "final",
                  "lingering", "stopping", "stop"},
            then : {"act", "handoff", "final", "stop", "end"},
            live : Session, msg : Messages \cup {None}, fresh : BOOLEAN, accepted : BOOLEAN, send : Nat]

\* The stored state is one the decoder of load() accepts, and every command is at a known step.
TypeOK ==
    /\ live \in Session
    /\ queue \in QueueState
    /\ Len(queue.items) <= MaxItems
    /\ \A i \in DOMAIN queue.items : queue.items[i].msg \in queue.seen
    /\ \A i, j \in DOMAIN queue.items : queue.items[i].msg = queue.items[j].msg => i = j
    /\ log \in Seq((1 .. MaxGeneration) \X (1 .. MaxVersion + 2))
    /\ retained \in BOOLEAN
    /\ lock \in Hosts \cup {None}
    /\ claim \in Hosts \cup {"free", "dead", "malformed"}
    /\ sent \in Seq(Send)
    /\ cmd \in [Hosts -> Command]

\* No message is handed to the transport twice, whatever dies, times out, is recovered by another
\* host or retried between claim and receipt (follow-ups.ts, "never causes a blind retry").
HandedOnce ==
    \A i, j \in DOMAIN sent : sent[i].gen = sent[j].gen /\ sent[i].msg = sent[j].msg => i = j

\* Two transport calls never run at once, even when the first timed out, its generation was
\* stopped and the queue replaced (follow-ups.ts, finishDelivery).
OneSendAtATime ==
    \A i, j \in DOMAIN sent : sent[i].outcome = "sending" /\ sent[j].outcome = "sending" => i = j

\* A receipt says accepted only of a message of this generation that the transport took
\* (follow-ups.ts, performDelivery).
AcceptedTruthfully ==
    queue.receipt.status = "accepted" =>
        \E i \in DOMAIN sent : sent[i].gen = queue.gen /\ sent[i].msg = queue.receipt.msg /\ sent[i].outcome = "ok"

\* The event that may come after event d: the next version, or the first of a later generation.
Follows(e, d) == (e[1] = d[1] /\ e[2] = d[2] + 1) \/ (e[1] > d[1] /\ e[2] = 1)

EventBefore(i) == IF i = 1 THEN <<0, 0>> ELSE log[i - 1]
LastEvent == EventBefore(Len(log) + 1)
Stored == <<queue.gen, queue.ver>>

\* A change is saved only after the event of the change before it was put into the event file: the
\* file was given every version of a generation once and in order, and only the last change of the
\* stored queue may still be unpublished, with its event in the outbox (follow-ups.ts, flush).
\* Whether the file keeps an event is not claimed.
PublishedBeforeNextChange ==
    /\ \A i \in DOMAIN log : Follows(log[i], EventBefore(i))
    /\ \/ LastEvent = Stored
       \/ LastEvent[1] < queue.gen /\ queue.ver = 0
       \/ Follows(Stored, LastEvent) /\ queue.outbox \in {"prepared", "attempted"}

\* "interrupted publication replays the same generation/version source ID through canonical
\* deduplication before another mutation proceeds" (docs/specs/dev-runtime.md): as long as
\* commands arrive, a publication that was cut short is made good.
InterruptedIsReplayed == queue.outbox = "attempted" ~> queue.outbox # "attempted"

\* Text leaves only while the stored queue shows this message as the claim in progress of the
\* session's generation: no peer took it for abandoned, no Stop discarded it (follow-ups.ts,
\* tryDeliveryClaim and performDelivery).
HandoffOfOwnClaim ==
    [][Len(sent') > Len(sent) =>
        /\ queue.gen = live.gen /\ ~queue.stopped
        /\ \E i \in DOMAIN queue.items : queue.items[i] = Item(sent'[Len(sent')].msg, "dispatching")]_vars

\* "Each observed run version admits at most one attempt; another item needs a new observed input
\* boundary" (docs/specs/dev-runtime.md).
OneAttemptPerRunVersion ==
    \A i, j \in DOMAIN sent : sent[i].at = sent[j].at => i = j

=============================================================================
