# TLA+ models of Adea's durable coordination core

Adea is a workspace where people and agents share conversations, tasks and
machines. Its server (TanStack Start routes in `apps/web`, repositories over
PostgreSQL in `packages/db`) decides who may run what on which machine, and its
desktop hosts keep agent sessions and repositories in files that several processes
share. This directory models the parts of it in which a decision made from one read
is acted on later, while other requests, clocks, keys, processes and external
runtimes move.

## Inventory

| part | state it keeps | operations | what makes it hard | what must hold |
|---|---|---|---|---|
| runtime node registry (`packages/db/src/runtime-nodes.ts`, routes under `runtime-nodes/`) | nodes, key versions, challenges, exchange credentials | open challenge, pair/resume, prove, rotate, revoke, rename, prune | lookups without locks, two transactions per pairing, conditional updates under READ COMMITTED | one active key per role, ordered history, challenges used once, revocation is final, one grant one host |
| node delivery (`runtime-node-delivery.ts`) | nonce ledger, proof times, delivered commands | signed pull, prune | candidate chosen before its rows are locked, replays, pruning at a boundary instant, two clocks | nothing released under lapsed authority, nonce accepted once, rate |
| task submissions (`task-submissions.ts`, `task-submission-retention.ts`) | outbox and submission rows | enqueue, purge ciphertext | idempotency under concurrency, expiry | purge only what expired; a duplicate gets a typed answer |
| lead turn admission (`lead-turns.ts`) | immutable intents, attempts per target context | admit, replay, read under pins | authority that changes, deleted messages, archived channels | one execution in flight per context |
| lead turn runtime (`lead-turn-runtime.ts` in `packages/db` and `apps/web/src/server`) | runtime row per intent | prepare, dispatch, status, cancel, publish | calls of an external runtime between transactions, lost and late answers | the row tells the runtime's truth, outcomes are final and get recorded |
| lead turn view (`packages/workspace-ui/src/lead-turn-state.ts`, `lead-turn-controls.tsx`) | the turn and state a page shows, its calls | prepare, start, cancel, refresh, poll | it polls by what it shows, which may be older than the row | an outcome is recorded while a page shows the turn in flight |
| rollback fence (`lead-turn-rollback*.ts`) | fence and disposition on the intent | fence | a fence racing a dispatch or a publication | recorded disposition stays true, fenced turns never publish |
| conversations, read state, event log | messages, sequences, cursors | post, edit, delete, archive | sequence and cursor monotonicity | planned |
| group turns (`group-turn-coordinator.ts`, `group-channels.ts`, `group-participation-*.ts`, `addressed-turn-response-binding.ts`) | claims of addressed turns, roster with grant revisions | claim, dispatch, cancel, post and supersede, post to the lead, change roster, revoke | three lock orders, a claim read before it is superseded, a grant that lapses and returns, a stop between two transactions | budget, terminal claims stay, an answer belongs to its claim, nothing published under a lapsed grant, interrupted cancellations are repaired |
| desktop follow-up queue (`apps/desktop/shell/src/dev-runtime/harness/follow-up*.ts`) | sealed queue state with outbox, delivery lock file | enqueue, remove, reorder, deliver, recover, Stop | several host processes that die between saves, transport calls that outlive their deadline | a message leaves once, one send at a time, receipts and events are true |
| desktop mutation ownership (`dev-runtime/worktrees/mutation-owner.ts`) | lock file per repository, ledger of results | acquire, steal, beat, release, replay | no atomicity beyond single system calls | one owner, one performance of a mutation |
| job outbound results, retention cleanup | frontier, leases | deliver, sweep | leases and fences | planned |
| projects, tasks, agents, invitations, desktop authorization, coordination plans, export/import | versioned records | edit | mostly one transaction each | environment of the models, or later |
| rest of the desktop application, mobile, UI packages | processes, client state | | operating-system I/O and rendering | not modelled |

How they meet: a submission names a node and an encryption key of the registry;
a pull reads registry keys and submissions; a lead turn is admitted from a
message, executes in the control plane's runtime and comes back as a message;
the fence blocks preparation, dispatch and publication of a turn. A group turn is
a claim in front of a lead turn: its admission mints the intent, its publication
answers the claim, newer human input cancels it. These share PostgreSQL
transactions with row and advisory locks, and nothing else. The follow-up queue is
separate, on a desktop host: its two locks are those of mutation ownership.

## Modules

**RuntimeNodes** is the registry. `pairingState`, `kind`, `name`, `keyState`,
`keyVersion`, `challenge` and `credential` are the columns of its tables; `req`
is the local state of each request being served. A pairing is four steps, which
are the places where the code lets go of its locks: the credential transaction
(`SpendExchangeCredential`), the read of the challenge (`CheckChallenge`), the
consuming update with the unlocked lookup (`ConsumeAndMatch`), and the commit
(`RegisterResume`, `RegisterInsert`). A rename holds its advisory lock over two
steps. Rotation, proof and revocation lock the node first and are one action.
Keys are identified with their fingerprints and names with their lower-case form,
by which the code compares them; signatures are assumed sound.

**NodeDelivery** is one node's outbound queue on a bounded clock. A pull is
`PullBegin` (checks outside the transaction), `PullSelect` (candidate under the
advisory lock) and `PullCommit` (row locks held until commit), so tasks, access,
keys and the clock may change in between. Signed requests can be delivered any
number of times. The rows a submission is checked against are reduced to three
flags: the task and agent are `current`, the submitter `authorized`, the
conversation `open`.

**LeadTurns** follows the admissions of one target context (session and
generation) in one direct channel. Each database transaction is one action, since
all of them lock the channel, then the intent, then the runtime row. `cp` is the
control plane's own record of an execution: external, and modelled from what the
adapter relies on. It executes an intent at most once, because the dispatch key is
derived from the intent. Calls and answers are separate steps and either may be
lost. The states starting, running and awaiting_input are one state, and so are
cancelled and timed_out: no code here tells them apart. A request refused by a
check and a server that stops are both `Abort`.

**LeadTurnView** puts a conversation page in front of LeadTurns. The page knows a turn
from the answers to its own calls, each of which may be lost, so `view.state` may be
older than the row. Its buttons are `Prepare`, `Start`, `Cancel` and `Refresh`, and
`Tick` is the timer, which refreshes while the page shows a turn in flight and not
when it shows `unknown`. A refresh asks the runtime only for a turn that is bound or
whose dispatch is pending (`StatusBegin`), and otherwise shows the stored row. Every
other request of LeadTurns is made by one of these buttons or by another page.

**LeadTurnContract** is what those turns promise to whoever reads the conversation:
they execute one at a time and at most once, an outcome is reported once and truly,
only a completed turn without a fence is published, and a fence that says "never
executed" or "ended" stays true. LeadTurns implements it under the mapping
`Contract`: a turn's phase is the runtime's own record (none, in flight, outcome),
its report is the stored row once terminal, and the dispositions
`no_effect_recorded`, `terminal_retained` and the others are `void`, `ended` and
`uncertain`. Requests, answers, retries and locks disappear. `ImplementsContract`
is that specification as a property.

**GroupTurns** is one group channel: its roster, the claims on its messages, the
intents and runtime rows behind them. A grant is a revision per member; leaving and
joining again issues a higher one, and a revocation or an expiry lapses it without
changing the channel's version. A membership of the workspace that goes (`audience`)
and a revised profile (`pinned`) end the access of an intent without touching the
channel at all, and are actions too. Claiming is two steps (proof and count under the
message lock; insert, which shares the channel row through its foreign key) and so
is admission (channel and claim locked; message shared), because these are the
transactions that wait while they hold a lock. Cancelling is two transactions, and a
post is one that supersedes plus, after it, one per turn to cancel. A post in lead
mode also mints the intent of its own message, which claims may join. The runtime row
keeps only what this code tells apart; LeadTurns has its detail.

**FollowUps** is the queue of one runtime session. `queue` is the sealed file, `cmd`
the command each host process executes, `sent` the texts handed to the transport
and `log` the events put into the event file (history variables), `retained` whether
the last of those is in the file now. Hosts append to that file by loading it and
writing it back with no lock between them, so `RewriteEvents` may drop the event or
bring it back; the queue looks for it only after an interrupted publication. Every save of the file is a step:
a change with its event prepared, attempted, delivered and cleared are four. The
queue lock is released over the transport call while the delivery claim is kept,
and a deadline leaves the claim `lingering` until the call really ends. `Crash`
loses a host with everything it held; a claim file that was created and not yet
written is `malformed`, which no one may take over. A launch takes a run identity
never used before.

**MutationOwner** is the lock under those two, at the grain of system calls: create,
write, read, rename, unlink. `file` is what the lock's name points at; workers are
calls of `withMutation` in processes that may die or stall.

The MC modules add symmetry sets and, for GroupTurns, the author of the messages.
MCRuntimeNodes has a constraint as well, explained under Bounds. LeadTurnView is
checked as it is.
Definitions marked as mutants are plausible slips in the code (a dropped guard, a
changed boundary); no specification uses them. Each property has one that breaks it.

## Runs

| run | instance | shows |
|---|---|---|
| `MCRuntimeNodes.cfg` | two nodes of both kinds, three challenges, two requests, two names | key history, provenance of proofs, retirement and revocation under concurrent pairings, proofs and rotations; a remote host on record spent its one-time credential; two renames never collide |
| `MCNodeDelivery.cfg` | one submission, rotation | release only under authority that holds at commit, purges included; the 24-hour grace never cuts an admitted envelope short |
| `MCNodeDeliveryLedger.cfg` | three nonces, rate limit, pruning | no nonce accepted twice, the rate holds in every window, events are throttled |
| `MCLeadTurns.cfg` | one turn, two requests, two preparations | fence, publication, preparation and outcome properties, and the refinement of LeadTurnContract |
| `MCLeadTurnsContext.cfg` | two admissions of one context | one execution in flight |
| `LeadTurnView.cfg` | one turn, one page, one request at a time | while the page shows the turn in flight its outcome is eventually recorded, or the row says unknown |
| `MCGroupTurns.cfg` | one trigger, two revisions, budget one, two requests, two roster changes | the budget holds, terminal claims stay terminal and unbound, a claim is answered by its own intent, nothing is published under a grant that was removed and issued again |
| `MCGroupTurnsLive.cfg` | an author and a manager, one revision, one request | an interrupted cancellation is made good while the intent keeps its access |
| `MCFollowUps.cfg` | two hosts, two messages, two generations | no message sent twice, sends never overlap, receipts are true, each event is put into the event file before the next change, a handoff is of one's own claim |

Three runs record where a document or comment says more than the code does; each is
expected to be violated and its trace is the explanation:

* `MCFollowUpsBoundary.cfg`: the specification says a run version admits one attempt.
  The boundary used is remembered per generation; a transfer of input ownership
  advances the generation and leaves the run alone, so the new queue delivers again
  at the same version.
* `MCFollowUpsRecovery.cfg`: the specification says an interrupted publication is
  replayed before another mutation proceeds. A host dies after it saved the outbox as
  attempted and before it appended the event; every later command finds the event
  missing and is refused with `recovery_required`, in later generations too, since the
  outbox is flushed before anything else. Reads and Stop's cleanup are refused alike.
* `MCMutationOwner.cfg`: the comment on stealing says only one rename succeeds. Two
  processes read the record of a dead owner; one renames it away, claims and
  performs; the other then renames the new owner's file, claims and performs the
  same mutation. Both are alive throughout.

**Observations.** These came from the models and have no run of their own.

* Two pairings of one new signing key, each with its challenge, both pass the
  unlocked lookup and make two nodes; `docs/specs/runtime-nodes.md` says resume, not
  duplicate.
* The exchange credential is spent in its own transaction, so a refused registration
  burns it; the same document says one transaction.
* A resume that matched before a revocation still refreshes the revoked row.
  `RevocationStopsNewRequests` gives the exact extent: only such a resume gets
  through, and the node stays revoked.
* A liveness proof or a rotation refreshes the time the event throttle reads, and so
  hides the first pull of a minute.
* After the trigger message of a turn is deleted, the next admission of its context
  computes a used attempt number and fails on the unique index. The same index is
  what keeps `OneExecutionInFlight` true, and its mutant drops exactly that index.
* The fence may commit after the pending mark and before the runtime is called, so the
  call is made after the fence; the fence then says `reconcile_uncertain_effect`,
  never `no_effect_recorded` (`FenceTellsTruth`).
* An envelope dated ahead of the server's clock, as admission tolerates, is withheld
  if its key is retired within that skew; `GraceNeverBinds` shows that this is the only
  way an admitted envelope is lost to a rotation before it expires.
* A claim holds its trigger message and waits for the channel while an admission holds
  the channel and waits for the message. PostgreSQL aborts one of them; the comment
  that the order is the same everywhere does not count the foreign key.
* A cancellation that arrives while a dispatch is pending finds no binding to cancel
  and reports false; the turn then runs until its addresser cancels again.
* All revisions of one trigger share one intent, so cancelling a revision cancels the
  execution its live sibling waits for.
* A manager may claim on someone else's message, but the intent is then pinned to an
  actor who did not write it, and every later step refuses it. A claim made before its
  agent was removed and added again is admitted and executed, and never published.
* A profile revision, or a participant who leaves the workspace, makes every repair of
  a superseded turn's cancellation fail although its addresser and lead still stand:
  the cancellation is authorized with the pins of the intent. `SupersededIsCancelled`
  holds only up to that.
* The page never polls a turn it shows as `unknown`, so such a row waits until someone
  refreshes it or the conversation is opened again. A page whose start was answered by
  nobody still shows `prepared` and does not poll either.
* The event file has no lock across processes: a host that loaded it before another
  host's append writes it back without that event. The queue only needs the event it
  is publishing; readers of the file may miss others.
* A host that dies between creating and writing the delivery lock leaves every later
  delivery refused.
* In mutation ownership, repositories share one ledger file under different locks, a
  release compares the process and not the claim, a heartbeat may overwrite a
  replacement owner's file, and an unreadable lock file makes `acquire` loop past its
  deadline.

**Bounds.** Two requests are enough for every race between a check and its use,
since each hazard involves one request being overtaken by one other actor. Two
nodes distinguish "this node" from "another". In NodeDelivery the clock runs a few
ticks past the window, rate period, lifetime and grace, which are one to three
ticks, so that each boundary instant is reached on both sides. Two admissions are
needed for a successor and for a deleted predecessor; each needs its own
preparation to execute. In RuntimeNodes the third challenge is the second rotation,
the one that could bring a retired key back. Its constraint `Followed` stops TLC where
nothing more can come of a request or a challenge: one that is refused now is refused
for ever, so the request can only abort, which it may also do at once. Pairings
present one name and renames ask for the other. In GroupTurns the second revision is
the claim past a budget of one, three roster versions are a removal and a return, and
one request suffices for liveness because a stop between its transactions is the
hazard; there the roster is not replaced, which would only end the obligation. That
several claims carrying one intent agree is left to the theorems, since a budget of
one has one such claim. In FollowUps two
hosts are an owner and the peer that finds its claim, two messages a head and a
successor, and four versions let both be queued, delivered, recovered or discarded;
changes the hosts make on their own are not bounded. `MaxTurns`, `MaxVersion`,
`MaxGeneration` and `MaxRunVersion` name these bounds. Deadlock is not
checked: with every message deleted, every challenge consumed, every process dead
or the clock at its bound, there is legitimately nothing to do.

**Fairness.** Three runs assume any. For lead turns, the timer of
`lead-turn-controls.tsx` refreshes every 5 seconds while the page shows an active or
pending turn, so `Tick` is taken again and again as long as that is shown; nothing is
assumed of a person pressing a button, and nothing polls `unknown`. A request being
served ends. The runtime's true answer is not lost or overtaken forever (strong
fairness on the steps that carry it). Loss of read access, a page that shows something
else and a row that says `unknown` excuse the obligation. For group
turns, each participant posts again and again (the repair the code documents
is "a later post by the original addresser"), a request being served ends, and the
server does not stop at the same place in each of an addresser's posts. Loss of the
access the cancellation is authorized with (`KeepsAccess`: addresser, lead, audience,
roster and profile as admitted) excuses the obligation. Nothing is assumed of claims,
dispatches, roster changes or the runtime. The run that is expected to fail,
`MCFollowUpsRecovery.cfg`, assumes that commands keep arriving, hosts go on, and
crashes do not cut short every flush; its counterexample keeps to all of that.

## Proofs

Every safety property that a passing run checks is also a theorem: each invariant,
each action property, and the refinement of LeadTurnContract. The runs show them on
the instances above; the theorems hold for any number of nodes, keys, turns,
requests, hosts and messages, any clock and any bounds. Each proof module has one
inductive invariant, which TLC confirms on the runs' instances, one lemma per action
or group of actions, and its theorems at the end. "Effect" lemmas say once, field by
field, what an elementary update does to a record.

**RuntimeNodesProofs, RuntimeNodesEvidenceProofs.** `TypeCorrect`, `OneActiveKey`,
`VersionOrder`, `RetiredKeysStayRetired`; then `ProvenanceOfProofs`, `GrantSpent`,
`RenamesDistinct`, `RevocationFinal`. `Inv` adds to the types what a request holds at
each step (a request past its lookup names a node or none, and presents one key per
role) and that rows not yet registered have no keys, since `RegisterInsert` stores
into such a row; storing a pair of keys then preserves the key invariant of the node
written. `FullInv` adds `GrantOK`: a pairing past its read has a pairing challenge of
its kind, a remote host that got so far has spent its credential, and a registration
between consumption and commit is the only holder of its challenge
(`ConsumersDistinct`). That uniqueness makes provenance inductive: the challenge a
registration writes is behind no other node. For names it adds that the advisory
lock admits one rename and that the name it checked is still free.

**NodeDeliveryProofs.** `TypeCorrect`, `ReplayRefused`, `RateLimited`,
`GraceSuffices`, `ProofEventsThrottled`, `CurrentAuthority`. A nonce is refused after
its ledger row is pruned only because the row outlives the window of the request:
`RowsOutlive` and `AcceptedRemembered` (an accepted nonce is in the ledger, or its
window is over) say so. The rate counts ledger rows, the property counts acceptances;
`RecentRemembered` matches one with the other, and a cardinality argument over the
two sets closes it.

**LeadTurnsProofs.** `TypeCorrect`, `FenceTruth`, `PublicationFenced`,
`RunsAsPrepared`, `OutcomesTrue`, `OneInFlight`, `OutcomesFinal`, `Refinement`.
`TurnOK` relates the stored row, the runtime's record and the fence of a turn;
`RequestOK` says what a request may rely on between its transactions (a request that
is about to call has marked the row pending, so no fence says `no_effect_recorded`; a
request that observes carries an answer the runtime cannot take back); `AttemptsOK`
numbers the admissions of a context without gaps, each but the last settled. The
refinement uses only `Inv`: the initial states map to initial states of the contract,
each action maps to the contract's action of that turn or leaves its view alone, and
so does every other step.

**GroupTurnsProofs.** `TypeCorrect`, `BudgetBounded`, `AnsweredByOwnIntent`,
`ClaimsEnd`, `PublicationGranted`. The budget is counted in one step and the row is
inserted in another; `BudgetOK` carries the count over: while a trigger is held there
is room for one more, and a request that is about to insert holds it. An admission
keeps the channel, so its claim is still live when it is bound. Two lemmas say what
one step may do to a claim and to a run (`ClaimStep`, `RunStep`); the action
properties follow from them. `RevisionsBounded` keeps grant revisions in their type.

**FollowUpsProofs.** `StoredQueueDecodes`, `NoBlindRetry`, `SendsExclude`,
`ReceiptsTellTruth`, `PublishedInTurn`, `OnlyTheClaimIsSent`. `LocksOK` is the core: a host
that works on a message owns the delivery claim, one that touches the stored queue
owns the queue lock. An unsettled send has a host (`SendsOK`), so two unsettled sends
have the same one. A message that was claimed or sent is `Spent`: remembered, and not
queued. Removing, reordering, recovering and stopping never make a spent message
queued again, and only a queued one is claimed, so none is sent twice. A claim that
awaits its handoff is in the queue as long as the queue is that of its generation and
not stopped (`SpentOK`), because `Recover` needs a claim nobody owns and Stop first
advances the generation. `OutboxOK` says for each state of the outbox which event the
file was not given yet: with an event prepared or about to be appended that is the
next one, so it is not in the file and the append adds it. The versions hosts add on their own are bounded too
(`VersionsOK`): a claim is settled once, and a queue stopped once.

**Assumptions.** Only the named ones of the modules. The keys of the two roles are
disjoint and there are two kinds of node; `None` is no identifier; admissions form a
finite set; every trigger has its author; capacity, budget, rate period and the bounds
are positive; a host's name is none of the words that stand for a claim file without
a living owner. One relates two numbers of the code: an envelope lives no longer than
the grace of a retired key (`GraceCoversLifetime`; both are 24 hours).

Three more are built into the models. FollowUps takes the queue lock to have one
holder, and to be free as soon as its holder dies; in the code a peer steals it, and
MutationOwner shows that two peers stealing at once can both own it. The same goes for
the delivery claim of a dead host. The theorems of FollowUps hold up to that. Its hosts
also share one record `live` of the session, where each process keeps its own. In
LeadTurns the control plane executes a dispatch key at most once.

**Only model-checked.** `OutcomeRecorded` and `SupersededIsCancelled` are liveness
under fairness, which is outside the prover's reach. The three runs expected to be
violated state what does not hold, so there is nothing to prove about
`OneAttemptPerRunVersion`, `InterruptedIsReplayed` and `PerformedOnce`.

## Plan

1. Proofs: in MutationOwner, what does hold of ownership without a steal; lemmas on
   what a crash may leave in FollowUps (which outbox states refuse every command).
2. `TaskSubmissions`: the three idempotency keys, advisory locks and typed
   conflicts of `enqueueTaskSubmission`; no raw unique violation, no deadlock.
3. The outbound result frontier, retention cleanup's leases, fences and node receipts,
   and read state cursors.
4. Checkpoint restore, which takes the delivery claim of FollowUps, and the worktree
   operations that run under MutationOwner.

## Not modelled

Cryptography, formats, rendering, operating-system processes of the desktop
application, and the control plane beyond the answers the server sees. In group
turns: recursion depth, archival, history sharing, the creation of groups, and
`recordAddressedTurnResponse`, which nothing calls. In follow-ups: encryption, byte
and record limits, and a host's stale copy of the session. Of node delivery,
`recordRuntimeNodeRetentionReceipt`, which is part of retention cleanup. Two requests
that pair one new key and make two nodes are in the model, and no property forbids them.
