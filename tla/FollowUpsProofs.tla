--------------------------- MODULE FollowUpsProofs ---------------------------
(***************************************************************************)
(* Proofs about FollowUps, for any number of hosts, messages, generations  *)
(* and versions.  A host that works on a message holds the delivery claim, *)
(* and a host that touches the stored queue holds the queue lock.  From    *)
(* these two facts the rest follows: which sends are unsettled, which      *)
(* items may still be sent, and which event the log waits for.             *)
(***************************************************************************)
EXTENDS FollowUps, TLAPS

-----------------------------------------------------------------------------
(* The inductive invariant.                                                 *)

Flushing(c) == c.at \in {"flush", "publishing", "published"}

\* The command is at step t, or flushes the outbox before it.
Before(c, t) == c.at = t \/ (Flushing(c) /\ c.then = t)

\* A command names a message from the claim to the end of the delivery, and a send from the
\* handoff on.
Shape(c) ==
    /\ c.at \in {"idle", "stopping"} \/ Before(c, "act") \/ Before(c, "stop") => c.msg = None
    /\ c.at \in {"waiting", "finishing", "lingering"} \/ Before(c, "handoff") \/ Before(c, "final") => c.msg # None
    /\ c.msg = None => c.send = 0 /\ ~c.accepted
    /\ Before(c, "handoff") => c.send = 0 /\ ~c.accepted
    /\ c.at \in {"waiting", "lingering"} => c.send # 0

ShapesOK == \A h \in Hosts : Shape(cmd[h])

Locked(c) == Flushing(c) \/ c.at \in {"act", "final", "stop"}

LocksOK ==
    \A h \in Hosts :
        /\ Locked(cmd[h]) => lock = h
        /\ cmd[h].msg # None => claim = h

\* Generations only grow, and Stop advances the session's before it discards the queue.
GenerationsOK ==
    /\ queue.gen <= live.gen
    /\ queue.stopped => queue.gen < live.gen /\ queue.items = <<>>
    /\ \A h \in Hosts :
        LET c == cmd[h] IN
        /\ c.live.gen <= live.gen
        /\ c.msg # None => c.live.gen <= queue.gen
        /\ c.at = "stopping" \/ Before(c, "stop") => c.live.gen < live.gen
        /\ Before(c, "final") \/ Before(c, "stop") => queue.gen = c.live.gen /\ ~queue.stopped

\* Hosts change a version on their own at most twice: a claim is settled, and the queue stopped.
VersionsOK ==
    /\ \A i, j \in DOMAIN queue.items : Dispatching(i) /\ Dispatching(j) => i = j
    /\ ~queue.stopped => queue.ver <= MaxVersion + 1
    /\ (\E i \in DOMAIN queue.items : Dispatching(i)) => queue.ver <= MaxVersion

\* What was sent: once, of a message no longer waiting, and under the claim of a host while it lasts.
SendsOK ==
    /\ HandedOnce
    /\ \A i \in DOMAIN sent :
        /\ sent[i].gen <= queue.gen
        /\ sent[i].outcome = "sending" => \E h \in Hosts : cmd[h].send = i
    /\ \A h \in Hosts :
        LET c == cmd[h] IN
        /\ c.send # 0 => c.send \in DOMAIN sent /\ sent[c.send].gen = c.live.gen /\ sent[c.send].msg = c.msg
        /\ c.accepted => c.send # 0 /\ sent[c.send].outcome = "ok"
        /\ c.msg # None /\ c.send = 0 => \A i \in DOMAIN sent : ~(sent[i].gen = c.live.gen /\ sent[i].msg = c.msg)

\* A message of the stored generation that is claimed or sent: not queued any more, and never again.
Spent(m) ==
    /\ m \in queue.seen
    /\ \A i \in DOMAIN queue.items : queue.items[i].msg = m => queue.items[i].state # "queued"

SpentOK ==
    /\ \A i \in DOMAIN sent : sent[i].gen = queue.gen => Spent(sent[i].msg)
    /\ \A h \in Hosts : cmd[h].msg # None /\ cmd[h].live.gen = queue.gen =>
        /\ Spent(cmd[h].msg)
        /\ Before(cmd[h], "handoff") /\ ~queue.stopped =>
              \E i \in DOMAIN queue.items : queue.items[i] = Item(cmd[h].msg, "dispatching")

\* What the outbox says of the event log.
Shown == LastEvent = Stored \/ (LastEvent[1] < queue.gen /\ queue.ver = 0)

OutboxOK ==
    /\ queue.outbox \in {"none", "delivered"} => Shown
    /\ queue.outbox = "prepared" => Follows(Stored, LastEvent)
    /\ queue.outbox = "attempted" => LastEvent = Stored \/ Follows(Stored, LastEvent)
    /\ \A h \in Hosts :
        /\ cmd[h].at \in {"act", "final", "stop"} => queue.outbox = "none"
        /\ cmd[h].at = "publishing" => queue.outbox = "attempted" /\ Follows(Stored, LastEvent)
        /\ cmd[h].at = "published" => queue.outbox = "attempted" /\ LastEvent = Stored

EventsOK == OutboxOK /\ \A i \in DOMAIN log : Follows(log[i], EventBefore(i))

Inv ==
    /\ TypeOK /\ ShapesOK /\ LocksOK /\ GenerationsOK /\ VersionsOK /\ SendsOK /\ SpentOK
    /\ EventsOK /\ AcceptedTruthfully

-----------------------------------------------------------------------------
(* What the parts of an action do to a command.                             *)

Others(h) == \A k \in Hosts \ {h} : cmd'[k] = cmd[k]

\* The command goes on with the same message, send and session, and accepts only what was taken.
Kept(h) ==
    /\ Others(h)
    /\ cmd'[h].live = cmd[h].live /\ cmd'[h].msg = cmd[h].msg
    /\ cmd'[h].send = cmd[h].send
    /\ cmd'[h].accepted => cmd[h].accepted \/ (cmd[h].send # 0 /\ sent[cmd[h].send].outcome = "ok")

\* The host has no message and no send afterwards.
Reset(h) == Others(h) /\ cmd'[h].msg = None /\ cmd'[h].send = 0 /\ cmd'[h].accepted = FALSE

To(h, at, then) == Kept(h) /\ cmd'[h].at = at /\ cmd'[h].then = then

Ended(h) == Reset(h) /\ cmd'[h] = Idle

Steps == {"idle", "flush", "publishing", "published", "act", "handoff", "waiting", "finishing", "final",
          "lingering", "stopping", "stop"}

\* A command that goes to another step keeps everything else.
LEMMA GoToEffect ==
    ASSUME TypeOK, NEW h \in Hosts, NEW at \in Steps, GoTo(h, at)
    PROVE  cmd' \in [Hosts -> Command] /\ To(h, at, cmd[h].then)
<1>. DEFINE new == [cmd[h] EXCEPT !.at = at]
<1>1. cmd[h] \in Command /\ cmd \in [Hosts -> Command]
    BY DEF TypeOK
<1>2. new \in Command /\ new.at = at /\ new.then = cmd[h].then /\ new.live = cmd[h].live
      /\ new.msg = cmd[h].msg /\ new.send = cmd[h].send /\ new.accepted = cmd[h].accepted
    BY <1>1 DEF Command, Steps
<1>3. cmd' = [cmd EXCEPT ![h] = new]
    BY DEF GoTo
<1>. HIDE DEF new
<1>. QED BY <1>1, <1>2, <1>3 DEF To, Kept, Others

\* A command that saves the queue flushes the event of the change.
LEMMA FlushEffect ==
    ASSUME TypeOK, NEW h \in Hosts, NEW then \in {"act", "handoff", "final", "stop", "end"},
           cmd' = [cmd EXCEPT ![h].at = "flush", ![h].then = then]
    PROVE  cmd' \in [Hosts -> Command] /\ To(h, "flush", then)
<1>. DEFINE new == [cmd[h] EXCEPT !.at = "flush", !.then = then]
<1>1. cmd[h] \in Command /\ cmd \in [Hosts -> Command]
    BY DEF TypeOK
<1>2. new \in Command /\ new.at = "flush" /\ new.then = then /\ new.live = cmd[h].live
      /\ new.msg = cmd[h].msg /\ new.send = cmd[h].send /\ new.accepted = cmd[h].accepted
    BY <1>1 DEF Command
<1>3. cmd' = [cmd EXCEPT ![h] = new]
    OBVIOUS
<1>. HIDE DEF new
<1>. QED BY <1>1, <1>2, <1>3 DEF To, Kept, Others

\* The idle command is one.
LEMMA IdleIsCommand ==
    Idle \in Command /\ Idle.at = "idle" /\ Idle.msg = None /\ Idle.send = 0 /\ Idle.accepted = FALSE /\ Idle.live.gen = 0
    /\ Idle.then = "end"
BY BoundsPositive DEF Idle, NoSession, Command, Session

\* A command that ends leaves an idle host.
LEMMA IdleEffect ==
    ASSUME TypeOK, NEW h \in Hosts, cmd' = [cmd EXCEPT ![h] = Idle]
    PROVE  cmd' \in [Hosts -> Command] /\ Ended(h)
BY IdleIsCommand DEF TypeOK, Ended, Reset, Others

\* A command that leaves ends, or lingers with its claim while its send is unsettled.
LEMMA LeaveEffect ==
    ASSUME TypeOK, NEW h \in Hosts, Leave(h)
    PROVE  /\ cmd' \in [Hosts -> Command]
           /\ lock' \in Hosts \cup {None}
           /\ claim' \in Hosts \cup {"free", "dead", "malformed"}
           /\ \/ Lingers(h) /\ To(h, "lingering", cmd[h].then) /\ claim' = claim
              \/ ~Lingers(h) /\ Ended(h) /\ claim' = (IF claim = h THEN "free" ELSE claim)
<1>1. CASE Lingers(h)
    BY <1>1, GoToEffect DEF Leave, Steps, TypeOK
<1>2. CASE ~Lingers(h)
    BY <1>2, IdleEffect DEF Leave, TypeOK
<1>. QED BY <1>1, <1>2

\* A new command starts without a message, with the session it read.
LEMMA BeginEffect ==
    ASSUME TypeOK, NEW h \in Hosts, NEW at \in Steps, NEW then \in {"act", "handoff", "final", "stop", "end"},
           cmd' = [cmd EXCEPT ![h] = [Idle EXCEPT !.at = at, !.then = then, !.live = live]]
    PROVE  cmd' \in [Hosts -> Command] /\ Reset(h) /\ cmd'[h].at = at /\ cmd'[h].then = then /\ cmd'[h].live = live
<1>. DEFINE new == [Idle EXCEPT !.at = at, !.then = then, !.live = live]
<1>1. new \in Command /\ new.at = at /\ new.then = then /\ new.live = live /\ new.msg = None /\ new.send = 0
      /\ new.accepted = FALSE
    BY IdleIsCommand DEF Idle, Command, TypeOK, Steps
<1>2. cmd' = [cmd EXCEPT ![h] = new]
    OBVIOUS
<1>. HIDE DEF new
<1>. QED BY <1>1, <1>2 DEF Reset, Others, TypeOK

-----------------------------------------------------------------------------
(* Steps that leave the items of the queue and the sends alone.             *)

SameQueue ==
    /\ queue'.gen = queue.gen /\ queue'.ver = queue.ver /\ queue'.items = queue.items
    /\ queue'.seen = queue.seen /\ queue'.receipt = queue.receipt /\ queue'.stopped = queue.stopped

\* Hosts keep the records of their sends.
LEMMA SendsKept ==
    ASSUME TypeOK, SendsOK, NEW h \in Hosts, Kept(h), sent' = sent, queue'.gen >= queue.gen, queue' \in QueueState
    PROVE  SendsOK'
<1>1. \A k \in Hosts : /\ cmd'[k].live = cmd[k].live /\ cmd'[k].msg = cmd[k].msg
                       /\ cmd'[k].send = cmd[k].send
                       /\ cmd'[k].accepted =>
                            cmd[k].accepted \/ (cmd[k].send # 0 /\ sent[cmd[k].send].outcome = "ok")
    BY DEF Kept, Others
<1>2. queue.gen \in Int /\ queue'.gen \in Int /\ \A i \in DOMAIN sent : sent[i].gen \in Int
    <2>1. \A i \in DOMAIN sent : sent[i] \in Send
        BY DEF TypeOK
    <2>. QED BY <2>1 DEF TypeOK, QueueState, Send
<1>3. \A i \in DOMAIN sent : sent[i].gen <= queue.gen => sent[i].gen <= queue'.gen
    BY <1>2
<1>. QED BY <1>1, <1>3 DEF SendsOK, HandedOnce

\* A host without an unsettled send may forget the send.
LEMMA SendsReset ==
    ASSUME TypeOK, SendsOK, NEW h \in Hosts, Reset(h), ~Lingers(h), sent' = sent, queue'.gen = queue.gen
    PROVE  SendsOK'
<1>1. \A k \in Hosts \ {h} : cmd'[k] = cmd[k]
    BY DEF Reset, Others
<1>2. ASSUME NEW i \in DOMAIN sent, sent[i].outcome = "sending"
      PROVE  \E k \in Hosts : cmd'[k].send = i
    <2>1. PICK k \in Hosts : cmd[k].send = i
        BY <1>2 DEF SendsOK
    <2>2. i # 0
        BY DEF TypeOK
    <2>3. k # h
        BY <1>2, <2>1, <2>2 DEF Lingers
    <2>. QED BY <1>1, <2>1, <2>3
<1>. QED BY <1>1, <1>2 DEF SendsOK, HandedOnce, Reset

\* What is sent and claimed stays spent while the items stay.
LEMMA SpentKept ==
    ASSUME TypeOK, SpentOK, NEW h \in Hosts, SameQueue, sent' = sent,
           Kept(h) \/ Reset(h), Before(cmd'[h], "handoff") => Before(cmd[h], "handoff")
    PROVE  SpentOK'
<1>1. \A k \in Hosts : cmd'[k].msg # None => cmd'[k].msg = cmd[k].msg /\ cmd'[k].live = cmd[k].live
                                             /\ (Before(cmd'[k], "handoff") => Before(cmd[k], "handoff"))
    BY DEF Kept, Reset, Others
<1>2. \A m : Spent(m)' <=> Spent(m)
    BY DEF Spent, SameQueue
<1>. QED BY <1>1, <1>2 DEF SpentOK, SameQueue

\* A receipt stays true while the queue and the outcomes stay.
LEMMA AcceptedKept ==
    ASSUME AcceptedTruthfully, queue'.receipt = queue.receipt, queue'.gen = queue.gen, sent' = sent
    PROVE  AcceptedTruthfully'
BY DEF AcceptedTruthfully

\* A change of the outbox alone changes no version.
LEMMA VersionsKept ==
    ASSUME VersionsOK, SameQueue
    PROVE  VersionsOK'
BY DEF VersionsOK, SameQueue, Dispatching

\* The generations of the other hosts and of the queue stay as they are.
LEMMA GenerationsKept ==
    ASSUME TypeOK, GenerationsOK, NEW h \in Hosts, SameQueue, Others(h), live' \in Session, live'.gen >= live.gen,
           cmd'[h] \in Command, cmd'[h].live.gen <= live'.gen,
           cmd'[h].msg # None => cmd[h].msg # None /\ cmd'[h].live = cmd[h].live,
           cmd'[h].at = "stopping" \/ Before(cmd'[h], "stop") => cmd'[h].live.gen < live'.gen,
           Before(cmd'[h], "final") \/ Before(cmd'[h], "stop") => queue.gen = cmd'[h].live.gen /\ ~queue.stopped
    PROVE  GenerationsOK'
<1>1. live.gen \in Int /\ live'.gen \in Int /\ queue.gen \in Int /\ \A k \in Hosts : cmd[k].live.gen \in Int
    <2>1. \A k \in Hosts : cmd[k] \in Command
        BY DEF TypeOK
    <2>2. \A k \in Hosts : cmd[k].live \in Session
        BY <2>1 DEF Command
    <2>. QED BY <2>2 DEF TypeOK, Session, QueueState
<1>2. /\ queue'.gen <= live'.gen
      /\ queue'.stopped => queue'.gen < live'.gen /\ queue'.items = <<>>
    BY <1>1 DEF GenerationsOK, SameQueue
<1>3. ASSUME NEW k \in Hosts \ {h}
      PROVE  /\ cmd'[k].live.gen <= live'.gen
             /\ cmd'[k].msg # None => cmd'[k].live.gen <= queue'.gen
             /\ cmd'[k].at = "stopping" \/ Before(cmd'[k], "stop") => cmd'[k].live.gen < live'.gen
             /\ Before(cmd'[k], "final") \/ Before(cmd'[k], "stop") => queue'.gen = cmd'[k].live.gen /\ ~queue'.stopped
    BY <1>1 DEF GenerationsOK, SameQueue, Others
<1>4. cmd'[h].msg # None => cmd'[h].live.gen <= queue'.gen
    BY DEF GenerationsOK, SameQueue
<1>. QED BY <1>2, <1>3, <1>4 DEF GenerationsOK, SameQueue

\* Host h takes or gives back only what is its own or free.
LocksMove(h) ==
    /\ Locked(cmd'[h]) => lock' = h
    /\ cmd'[h].msg # None => claim' = h
    /\ \A k \in Hosts \ {h} : (lock = k => lock' = k) /\ (claim = k => claim' = k)

\* A step of one host takes no lock from another.
LEMMA LocksKept ==
    ASSUME LocksOK, NEW h \in Hosts, Others(h), LocksMove(h)
    PROVE  LocksOK'
BY DEF LocksOK, LocksMove, Others

\* No event is added, and the host does not enter a step that says something of the outbox.
LEMMA EventsKept ==
    ASSUME EventsOK, NEW h \in Hosts, Others(h),
           queue'.gen = queue.gen, queue'.ver = queue.ver, queue'.outbox = queue.outbox, log' = log,
           cmd'[h].at \in {"act", "final", "stop", "publishing", "published"} => cmd'[h].at = cmd[h].at
    PROVE  EventsOK'
<1>1. \A k \in Hosts : cmd'[k].at \in {"act", "final", "stop", "publishing", "published"} => cmd'[k].at = cmd[k].at
    BY DEF Others
<1>2. Stored' = Stored /\ LastEvent' = LastEvent
    BY DEF Stored, LastEvent, EventBefore
<1>3. OutboxOK'
    BY <1>1, <1>2 DEF EventsOK, OutboxOK, Shown, Follows
<1>4. (\A i \in DOMAIN log : Follows(log[i], EventBefore(i)))'
    BY DEF EventsOK, EventBefore, Follows
<1>. QED BY <1>3, <1>4 DEF EventsOK

\* While a host holds the queue lock, no other host is at a step that needs it.
LEMMA Alone ==
    ASSUME LocksOK, NEW h \in Hosts, Locked(cmd[h])
    PROVE  \A k \in Hosts \ {h} : ~Locked(cmd[k])
BY DEF LocksOK

\* While a host works on a message, no other host does, and its claim cannot be taken.
LEMMA AloneInDelivery ==
    ASSUME LocksOK, NEW h \in Hosts, cmd[h].msg # None
    PROVE  ~Claimable /\ \A k \in Hosts \ {h} : cmd[k].msg = None
BY HostsAreNoStates DEF LocksOK, Claimable

\* What a step keeps that changes neither the items nor the sends.
LEMMA Quiet ==
    ASSUME Inv, NEW h \in Hosts, SameQueue, queue' \in QueueState, retained' \in BOOLEAN, sent' = sent,
           log' \in Seq((1 .. MaxGeneration) \X (1 .. MaxVersion + 2)),
           live' \in Session, live'.gen >= live.gen, cmd' \in [Hosts -> Command],
           lock' \in Hosts \cup {None}, claim' \in Hosts \cup {"free", "dead", "malformed"},
           Kept(h) \/ (Reset(h) /\ ~Lingers(h)), Shape(cmd'[h]), LocksMove(h), EventsOK',
           Before(cmd'[h], "handoff") => Before(cmd[h], "handoff"),
           cmd'[h].live = cmd[h].live \/ (cmd'[h].msg = None /\ cmd'[h].live.gen <= live'.gen),
           cmd'[h].at = "stopping" \/ Before(cmd'[h], "stop") => cmd'[h].live.gen < live'.gen,
           Before(cmd'[h], "final") \/ Before(cmd'[h], "stop") => queue.gen = cmd'[h].live.gen /\ ~queue.stopped
    PROVE  Inv'
<1>1. Others(h)
    BY DEF Kept, Reset
<1>2. TypeOK'
    BY DEF Inv, TypeOK, SameQueue
<1>3. ShapesOK'
    BY <1>1 DEF Inv, ShapesOK, Others
<1>4. LocksOK'
    BY <1>1, LocksKept DEF Inv
<1>5. GenerationsOK'
    <2>1. live.gen \in Int /\ live'.gen \in Int
        BY DEF Inv, TypeOK, Session
    <2>2. cmd'[h] \in Command /\ cmd[h].live.gen \in Int
        BY DEF Inv, TypeOK, Command, Session
    <2>3. cmd'[h].live.gen <= live'.gen
        BY <2>1, <2>2 DEF Inv, GenerationsOK
    <2>4. cmd'[h].msg # None => cmd[h].msg # None /\ cmd'[h].live = cmd[h].live
        BY DEF Kept, Reset
    <2>. QED BY <1>1, <2>2, <2>3, <2>4, GenerationsKept DEF Inv
<1>6. VersionsOK'
    BY VersionsKept DEF Inv
<1>7. SendsOK'
    <2>1. queue'.gen = queue.gen /\ queue'.gen >= queue.gen
        BY DEF SameQueue, Inv, TypeOK, QueueState
    <2>. QED BY <2>1, SendsKept, SendsReset DEF Inv
<1>8. SpentOK'
    BY SpentKept DEF Inv
<1>9. AcceptedTruthfully'
    BY AcceptedKept DEF Inv, SameQueue
<1>. QED BY <1>2, <1>3, <1>4, <1>5, <1>6, <1>7, <1>8, <1>9 DEF Inv

-----------------------------------------------------------------------------
(* Quiet actions, one lemma for each.                                       *)

\* The session and the event log move without the hosts.
LEMMA SessionStep ==
    ASSUME Inv, Launch \/ TransferInput \/ ObserveRun \/ RewriteEvents
    PROVE  Inv'
<1>1. /\ UNCHANGED <<queue, log, lock, claim, sent, cmd>>
      /\ retained' \in BOOLEAN
    <2>1. CASE Launch \/ TransferInput \/ ObserveRun
        BY <2>1 DEF Launch, TransferInput, ObserveRun, Inv, TypeOK
    <2>2. CASE RewriteEvents
        <3>. DEFINE other == ~retained
        <3>1. other \in BOOLEAN
            OBVIOUS
        <3>2. retained' = other
            BY <2>2 DEF RewriteEvents
        <3>. HIDE DEF other
        <3>3. retained' \in BOOLEAN
            BY <3>1, <3>2
        <3>. QED BY <2>2, <3>3 DEF RewriteEvents
    <2>. QED BY <2>1, <2>2
<1>2. live' \in Session /\ live'.gen >= live.gen /\ live.gen \in Int
    <2>1. live \in Session /\ live.gen \in Nat /\ live.version \in Nat /\ MaxGeneration \in Nat /\ MaxRunVersion \in Nat \ {0}
        BY BoundsPositive DEF Inv, TypeOK, Session
    <2>2. CASE Launch
        BY <2>1, <2>2 DEF Launch, Session
    <2>3. CASE TransferInput
        BY <2>1, <2>3 DEF TransferInput, Session
    <2>4. CASE ObserveRun
        <3>. DEFINE other == ~live.awaiting
        <3>1. other \in BOOLEAN
            OBVIOUS
        <3>2. live' = [live EXCEPT !.version = @ + 1, !.awaiting = other] /\ live.version < MaxRunVersion
            BY <2>4 DEF ObserveRun
        <3>. HIDE DEF other
        <3>. DEFINE next == live.version + 1
        <3>3. next \in 0 .. MaxRunVersion
            BY <2>1, <3>2
        <3>4. live' = [live EXCEPT !.version = next, !.awaiting = other]
            BY <3>2
        <3>. HIDE DEF next
        <3>5. live' \in Session
            BY <2>1, <3>1, <3>3, <3>4 DEF Session
        <3>6. live'.gen = live.gen
            BY <2>1, <3>4 DEF Session
        <3>. QED BY <2>1, <3>5, <3>6
    <2>5. CASE RewriteEvents
        BY <2>1, <2>5 DEF RewriteEvents
    <2>. QED BY <2>2, <2>3, <2>4, <2>5
<1>3. TypeOK'
    BY <1>1, <1>2 DEF Inv, TypeOK
<1>4. ShapesOK' /\ LocksOK' /\ VersionsOK' /\ SendsOK' /\ SpentOK' /\ AcceptedTruthfully'
    BY <1>1 DEF Inv, ShapesOK, LocksOK, VersionsOK, Dispatching, SendsOK, HandedOnce, SpentOK, Spent, AcceptedTruthfully
<1>5. EventsOK'
    BY <1>1 DEF Inv, EventsOK, OutboxOK, Shown, Stored, LastEvent, EventBefore
<1>6. GenerationsOK'
    <2>1. queue.gen \in Int /\ \A k \in Hosts : cmd[k].live.gen \in Int
        <3>1. \A k \in Hosts : cmd[k].live \in Session
            BY DEF Inv, TypeOK, Command
        <3>. QED BY <3>1 DEF Inv, TypeOK, QueueState, Session
    <2>2. live'.gen \in Int
        BY <1>2 DEF Session
    <2>3. \A n \in Int : (n <= live.gen => n <= live'.gen) /\ (n < live.gen => n < live'.gen)
        BY <1>2, <2>2
    <2>. QED BY <1>1, <2>1, <2>3 DEF Inv, GenerationsOK
<1>. QED BY <1>3, <1>4, <1>5, <1>6 DEF Inv

\* A command that leaves, with the queue as it is.
LEMMA LeaveStep ==
    ASSUME Inv, NEW h \in Hosts, Leave(h), SameQueue, queue' \in QueueState, EventsOK',
           UNCHANGED <<live, log, retained, sent>>
    PROVE  Inv'
<1>1. lock' = IF lock = h THEN None ELSE lock
    BY DEF Leave
<1>2. TypeOK /\ live'.gen >= live.gen
    BY DEF Inv, TypeOK, Session
<1>3. CASE Lingers(h) /\ To(h, "lingering", cmd[h].then) /\ claim' = claim
    <2>1. cmd[h].send # 0 /\ cmd[h].msg # None
        BY <1>3 DEF Lingers, Inv, ShapesOK, Shape
    <2>2. Shape(cmd'[h])
        BY <1>3, <2>1 DEF To, Kept, Shape, Before, Flushing, Inv, ShapesOK
    <2>3. LocksMove(h)
        BY <1>1, <1>3, <2>1 DEF LocksMove, To, Locked, Flushing, Inv, LocksOK
    <2>. QED BY <1>2, <1>3, <2>2, <2>3, LeaveEffect, Quiet DEF To, Kept, Before, Flushing, Inv, TypeOK
<1>4. CASE ~Lingers(h) /\ Ended(h) /\ claim' = (IF claim = h THEN "free" ELSE claim)
    <2>1. Shape(cmd'[h])
        BY <1>4, IdleIsCommand DEF Ended, Shape, Before, Flushing
    <2>2. LocksMove(h)
        BY <1>1, <1>4, IdleIsCommand DEF LocksMove, Ended, Locked, Flushing
    <2>3. cmd'[h].at = "idle" /\ cmd'[h].msg = None /\ cmd'[h].live.gen <= live'.gen
        BY <1>2, <1>4, IdleIsCommand DEF Ended, Inv, TypeOK, Session
    <2>. QED BY <1>2, <1>4, <2>1, <2>2, <2>3, LeaveEffect, Quiet DEF Ended, Before, Flushing, Inv, TypeOK
<1>. QED BY <1>2, <1>3, <1>4, LeaveEffect

\* The queue lock and the claim are given back, and the queue stays.
LEMMA AbortStep ==
    ASSUME Inv, NEW h \in Hosts, Abort(h) \/ Read(h)
    PROVE  Inv'
<1>1. Leave(h) /\ UNCHANGED <<live, queue, log, retained, sent>>
    BY DEF Abort, Read
<1>2. TypeOK
    BY DEF Inv
<1>3. cmd'[h].at \notin {"act", "final", "stop", "publishing", "published"} /\ Others(h)
    BY <1>1, <1>2, LeaveEffect, IdleIsCommand DEF To, Kept, Ended, Reset
<1>4. EventsOK'
    BY <1>1, <1>3, EventsKept DEF Inv
<1>. QED BY <1>1, <1>4, LeaveStep DEF SameQueue, Inv, TypeOK

\* Marking the outbox changes nothing else of the queue.
LEMMA OutboxEffect ==
    ASSUME TypeOK, NEW x \in {"none", "prepared", "attempted", "delivered"}, queue' = [queue EXCEPT !.outbox = x]
    PROVE  SameQueue /\ queue' \in QueueState /\ queue'.outbox = x /\ Stored' = Stored
BY DEF TypeOK, QueueState, SameQueue, Stored

\* A host that goes on flushing keeps the locks it has.
LEMMA FlushOn ==
    ASSUME Inv, NEW h \in Hosts, Flushing(cmd[h]), NEW at \in {"flush", "publishing", "published"},
           To(h, at, cmd[h].then), cmd' \in [Hosts -> Command], SameQueue, queue' \in QueueState, EventsOK',
           log' \in Seq((1 .. MaxGeneration) \X (1 .. MaxVersion + 2)), retained' \in BOOLEAN,
           UNCHANGED <<live, lock, claim, sent>>
    PROVE  Inv'
<1>1. /\ Flushing(cmd'[h])
      /\ \A t \in {"act", "handoff", "final", "stop"} : Before(cmd'[h], t) <=> Before(cmd[h], t)
      /\ cmd'[h].at \notin {"idle", "stopping", "waiting", "finishing", "lingering"}
    BY DEF To, Flushing, Before
<1>2. Shape(cmd'[h])
    BY <1>1 DEF To, Kept, Shape, Inv, ShapesOK
<1>3. LocksMove(h)
    BY <1>1 DEF LocksMove, Locked, Inv, LocksOK, To, Kept
<1>4. /\ Before(cmd'[h], "stop") => cmd'[h].live.gen < live'.gen
      /\ Before(cmd'[h], "final") \/ Before(cmd'[h], "stop") => queue.gen = cmd'[h].live.gen /\ ~queue.stopped
    BY <1>1 DEF To, Kept, Inv, GenerationsOK
<1>5. live' \in Session /\ live'.gen >= live.gen /\ lock' \in Hosts \cup {None}
      /\ claim' \in Hosts \cup {"free", "dead", "malformed"}
    BY DEF Inv, TypeOK, Session
<1>6. Kept(h)
    BY DEF To
<1>. QED BY <1>1, <1>2, <1>3, <1>4, <1>5, <1>6, Quiet DEF Kept

\* The event in the outbox is marked before it is appended.
LEMMA FlushAttemptStep ==
    ASSUME Inv, NEW h \in Hosts, FlushAttempt(h)
    PROVE  Inv'
<1>1. TypeOK /\ LocksOK
    BY DEF Inv
<1>2. cmd' \in [Hosts -> Command] /\ To(h, "publishing", cmd[h].then)
    BY <1>1, GoToEffect DEF FlushAttempt, Steps
<1>3. SameQueue /\ queue' \in QueueState /\ queue'.outbox = "attempted" /\ Stored' = Stored
    BY <1>1, OutboxEffect DEF FlushAttempt
<1>4. Flushing(cmd[h]) /\ Locked(cmd[h])
    BY DEF FlushAttempt, At, Flushing, Locked
<1>5. LastEvent' = LastEvent /\ Follows(Stored, LastEvent)
    BY DEF FlushAttempt, LastEvent, EventBefore, Inv, EventsOK, OutboxOK
<1>6. \A k \in Hosts \ {h} : cmd'[k].at \notin {"act", "final", "stop", "publishing", "published"}
    BY <1>1, <1>2, <1>4, Alone DEF To, Kept, Others, Locked, Flushing
<1>7. OutboxOK'
    BY <1>2, <1>3, <1>5, <1>6 DEF OutboxOK, To, Follows
<1>8. (\A i \in DOMAIN log : Follows(log[i], EventBefore(i)))'
    BY DEF FlushAttempt, Inv, EventsOK, EventBefore, Follows
<1>9. EventsOK'
    BY <1>7, <1>8 DEF EventsOK
<1>. QED BY <1>1, <1>2, <1>3, <1>4, <1>9, FlushOn DEF FlushAttempt, TypeOK

\* An event that the file holds is the last that was put there.
LEMMA PublishedIsLast ==
    ASSUME TypeOK, Published
    PROVE  LastEvent = Stored
<1>1. Len(log) \in Nat /\ Len(log) # 0
    BY DEF Published, TypeOK
<1>2. Len(log) + 1 # 1 /\ Len(log) + 1 - 1 = Len(log)
    BY <1>1
<1>. QED BY <1>2 DEF Published, LastEvent, EventBefore, Stored

\* An event is known to be published when it is the last of the log.
LEMMA MarkDeliveredStep ==
    ASSUME Inv, NEW h \in Hosts, MarkDelivered(h)
    PROVE  Inv'
<1>1. TypeOK /\ LocksOK
    BY DEF Inv
<1>2. cmd' \in [Hosts -> Command] /\ To(h, "flush", cmd[h].then)
    BY <1>1, GoToEffect DEF MarkDelivered, Steps
<1>3. SameQueue /\ queue' \in QueueState /\ queue'.outbox = "delivered" /\ Stored' = Stored
    BY <1>1, OutboxEffect DEF MarkDelivered
<1>4. Flushing(cmd[h]) /\ Locked(cmd[h])
    BY DEF MarkDelivered, At, Flushing, Locked
<1>5. LastEvent' = LastEvent
    BY DEF MarkDelivered, LastEvent, EventBefore
<1>6. LastEvent = Stored
    <2>1. CASE At(h, "published")
        BY <2>1 DEF At, Inv, EventsOK, OutboxOK
    <2>2. CASE Published
        BY <1>1, <2>2, PublishedIsLast
    <2>. QED BY <2>1, <2>2 DEF MarkDelivered
<1>7. \A k \in Hosts \ {h} : cmd'[k].at \notin {"act", "final", "stop", "publishing", "published"}
    BY <1>1, <1>2, <1>4, Alone DEF To, Kept, Others, Locked, Flushing
<1>8. OutboxOK'
    BY <1>2, <1>3, <1>5, <1>6, <1>7 DEF OutboxOK, To, Shown
<1>9. (\A i \in DOMAIN log : Follows(log[i], EventBefore(i)))'
    BY DEF MarkDelivered, Inv, EventsOK, EventBefore, Follows
<1>10. EventsOK'
    BY <1>8, <1>9 DEF EventsOK
<1>. QED BY <1>1, <1>2, <1>3, <1>4, <1>10, FlushOn DEF MarkDelivered, TypeOK

\* The last event is a pair of numbers, also when there is none.
LEMMA LastEventNumbers ==
    ASSUME TypeOK
    PROVE  LastEvent[1] \in Nat /\ LastEvent[2] \in Nat
<1>1. CASE Len(log) = 0
    BY <1>1 DEF LastEvent, EventBefore
<1>2. CASE Len(log) # 0
    <2>1. Len(log) \in Nat /\ Len(log) + 1 # 1 /\ Len(log) + 1 - 1 = Len(log) /\ Len(log) \in 1 .. Len(log)
        BY <1>2 DEF TypeOK
    <2>2. log[Len(log)] \in (1 .. MaxGeneration) \X (1 .. MaxVersion + 2)
        BY <2>1 DEF TypeOK
    <2>3. log[Len(log)][1] \in 1 .. MaxGeneration /\ log[Len(log)][2] \in 1 .. MaxVersion + 2
        BY <2>2
    <2>. QED BY <2>1, <2>3, BoundsPositive DEF LastEvent, EventBefore
<1>. QED BY <1>1, <1>2

\* The appended event is the one that follows the last of the log.
LEMMA AppendEventStep ==
    ASSUME Inv, NEW h \in Hosts, AppendEvent(h)
    PROVE  Inv'
<1>1. TypeOK /\ LocksOK
    BY DEF Inv
<1>2. cmd' \in [Hosts -> Command] /\ To(h, "published", cmd[h].then)
    BY <1>1, GoToEffect DEF AppendEvent, Steps
<1>3. SameQueue /\ queue' \in QueueState /\ queue' = queue /\ Stored' = Stored
    BY <1>1 DEF AppendEvent, SameQueue, TypeOK, Stored
<1>4. Flushing(cmd[h]) /\ Locked(cmd[h])
    BY DEF AppendEvent, At, Flushing, Locked
<1>5. queue.outbox = "attempted" /\ Follows(Stored, LastEvent)
    BY DEF AppendEvent, At, Inv, EventsOK, OutboxOK
<1>6. Stored \in (1 .. MaxGeneration) \X (1 .. MaxVersion + 2)
    <2>1. queue.gen \in 1 .. MaxGeneration /\ queue.ver \in 0 .. MaxVersion + 2
        BY <1>1 DEF TypeOK, QueueState
    <2>2. queue.ver # 0
        <3>1. LastEvent[2] \in Nat
            BY <1>1, LastEventNumbers
        <3>. QED BY <1>5, <3>1 DEF Follows, Stored
    <2>3. queue.ver \in 1 .. MaxVersion + 2
        BY <2>1, <2>2, BoundsPositive
    <2>. QED BY <2>1, <2>3 DEF Stored
<1>6a. ~Published
    <2>1. LastEvent # Stored
        <3>1. LastEvent[1] \in Nat /\ LastEvent[2] \in Nat
            BY <1>1, LastEventNumbers
        <3>. QED BY <1>5, <3>1 DEF Follows
    <2>. QED BY <1>1, <2>1, PublishedIsLast
<1>7. log' = Append(log, Stored) /\ log \in Seq((1 .. MaxGeneration) \X (1 .. MaxVersion + 2)) /\ retained' = TRUE
    BY <1>1, <1>6a DEF AppendEvent, Stored, TypeOK
<1>8. /\ log' \in Seq((1 .. MaxGeneration) \X (1 .. MaxVersion + 2))
      /\ Len(log) \in Nat /\ Len(log') = Len(log) + 1 /\ DOMAIN log = 1 .. Len(log) /\ DOMAIN log' = 1 .. Len(log) + 1
      /\ log'[Len(log) + 1] = Stored /\ \A i \in 1 .. Len(log) : log'[i] = log[i]
    BY <1>6, <1>7
<1>9. LastEvent' = Stored
    <2>1. Len(log') + 1 # 1 /\ Len(log') + 1 - 1 = Len(log) + 1
        BY <1>8
    <2>. QED BY <1>8, <2>1 DEF LastEvent, EventBefore
<1>10. \A k \in Hosts \ {h} : cmd'[k].at \notin {"act", "final", "stop", "publishing", "published"}
    BY <1>1, <1>2, <1>4, Alone DEF To, Kept, Others, Locked, Flushing
<1>11. OutboxOK'
    BY <1>2, <1>3, <1>5, <1>9, <1>10 DEF OutboxOK, To
<1>12. ASSUME NEW i \in 1 .. Len(log) + 1
       PROVE  Follows(log'[i], EventBefore(i)')
    <2>1. EventBefore(i)' = EventBefore(i)
        <3>1. CASE i = 1
            BY <3>1 DEF EventBefore
        <3>2. CASE i # 1
            <4>1. i - 1 \in 1 .. Len(log)
                BY <1>8, <3>2
            <4>. QED BY <1>8, <3>2, <4>1 DEF EventBefore
        <3>. QED BY <3>1, <3>2
    <2>2. CASE i \in 1 .. Len(log)
        BY <1>8, <2>1, <2>2 DEF Inv, EventsOK
    <2>3. CASE i = Len(log) + 1
        BY <1>5, <1>8, <2>1, <2>3 DEF LastEvent
    <2>. QED BY <1>8, <2>2, <2>3
<1>13. EventsOK'
    BY <1>8, <1>11, <1>12 DEF EventsOK
<1>. QED BY <1>1, <1>2, <1>3, <1>4, <1>7, <1>8, <1>13, FlushOn DEF AppendEvent

\* With the outbox cleared, the command goes on to what it flushed for.
LEMMA FlushedStep ==
    ASSUME Inv, NEW h \in Hosts, Flushed(h)
    PROVE  Inv'
<1>1. TypeOK /\ LocksOK /\ cmd[h] \in Command /\ live \in Session /\ live.gen >= live.gen /\ live.gen \in Int
    BY DEF Inv, TypeOK, Session
<1>2. SameQueue /\ queue' \in QueueState /\ queue'.outbox = "none" /\ Stored' = Stored
    BY <1>1, OutboxEffect DEF Flushed
<1>3. Flushing(cmd[h]) /\ Locked(cmd[h]) /\ cmd[h].at = "flush"
    BY DEF Flushed, At, Flushing, Locked
<1>4. LastEvent' = LastEvent /\ Shown /\ Shown'
    BY <1>2 DEF Flushed, LastEvent, EventBefore, Inv, EventsOK, OutboxOK, Shown, SameQueue
<1>5. ASSUME Others(h), cmd'[h].at \notin {"publishing", "published"}
      PROVE  EventsOK'
    <2>1. \A k \in Hosts \ {h} : cmd'[k].at \notin {"act", "final", "stop", "publishing", "published"}
        BY <1>1, <1>3, <1>5, Alone DEF Others, Locked, Flushing
    <2>2. OutboxOK'
        BY <1>2, <1>4, <1>5, <2>1 DEF OutboxOK
    <2>3. (\A i \in DOMAIN log : Follows(log[i], EventBefore(i)))'
        BY DEF Flushed, Inv, EventsOK, EventBefore, Follows
    <2>. QED BY <2>2, <2>3 DEF EventsOK
<1>6. CASE cmd[h].then = "end"
    <2>1. Leave(h)
        BY <1>6 DEF Flushed
    <2>2. cmd'[h].at \notin {"publishing", "published"} /\ Others(h)
        BY <1>1, <2>1, LeaveEffect, IdleIsCommand DEF To, Kept, Ended, Reset
    <2>. QED BY <1>2, <1>5, <2>1, <2>2, LeaveStep DEF Flushed
<1>7. CASE cmd[h].then = "handoff"
    <2>1. lock' = None /\ GoTo(h, "handoff") /\ claim' = claim
        BY <1>7 DEF Flushed
    <2>2. cmd' \in [Hosts -> Command] /\ To(h, "handoff", cmd[h].then)
        BY <1>1, <2>1, GoToEffect DEF Steps
    <2>3. Before(cmd[h], "handoff")
        BY <1>3, <1>7 DEF Before
    <2>4. Shape(cmd'[h])
        BY <1>7, <2>2, <2>3 DEF To, Kept, Shape, Before, Flushing, Inv, ShapesOK
    <2>5. LocksMove(h)
        BY <1>1, <1>3, <2>1, <2>2 DEF LocksMove, Locked, Flushing, To, Kept, LocksOK
    <2>6. EventsOK' /\ Kept(h)
        BY <1>5, <2>2 DEF To, Kept
    <2>7. ~Before(cmd'[h], "stop") /\ ~Before(cmd'[h], "final") /\ cmd'[h].at # "stopping"
        BY <2>2 DEF To, Before, Flushing
    <2>8. live' = live /\ log' = log /\ retained' = retained /\ sent' = sent
        BY DEF Flushed
    <2>. QED BY <1>1, <1>2, <2>1, <2>2, <2>3, <2>4, <2>5, <2>6, <2>7, <2>8, Quiet DEF Kept, TypeOK
<1>8. CASE cmd[h].then \notin {"end", "handoff"}
    <2>1. GoTo(h, cmd[h].then) /\ UNCHANGED <<lock, claim>>
        BY <1>8 DEF Flushed
    <2>2. cmd[h].then \in {"act", "final", "stop"}
        BY <1>1, <1>8 DEF Command
    <2>3. cmd' \in [Hosts -> Command] /\ To(h, cmd[h].then, cmd[h].then)
        BY <1>1, <2>1, <2>2, GoToEffect DEF Steps
    <2>4. \A t \in {"act", "handoff", "final", "stop"} : Before(cmd'[h], t) <=> Before(cmd[h], t)
        BY <1>3, <2>2, <2>3 DEF Before, To, Flushing
    <2>5. cmd'[h].at \notin {"idle", "stopping", "waiting", "finishing", "lingering", "publishing", "published"}
        BY <2>2, <2>3 DEF To
    <2>6. Shape(cmd'[h])
        BY <2>3, <2>4, <2>5 DEF To, Kept, Shape, Inv, ShapesOK
    <2>7. LocksMove(h)
        BY <1>1, <1>3, <2>1, <2>3 DEF LocksMove, To, Kept, LocksOK
    <2>8. EventsOK' /\ Kept(h)
        BY <1>5, <2>3, <2>5 DEF To, Kept
    <2>9. live' = live /\ log' = log /\ retained' = retained /\ sent' = sent
        BY DEF Flushed
    <2>10. /\ Before(cmd'[h], "stop") => cmd'[h].live.gen < live'.gen
           /\ Before(cmd'[h], "final") \/ Before(cmd'[h], "stop") => queue.gen = cmd'[h].live.gen /\ ~queue.stopped
        BY <2>4, <2>8, <2>9 DEF Kept, Inv, GenerationsOK
    <2>. QED BY <1>1, <1>2, <2>1, <2>3, <2>4, <2>5, <2>6, <2>7, <2>8, <2>9, <2>10, Quiet DEF Kept, TypeOK
<1>. QED BY <1>6, <1>7, <1>8

\* A command starts with the queue lock, or a Stop with the next generation.
LEMMA BeginStep ==
    ASSUME Inv, NEW h \in Hosts, Enter(h) \/ Stop(h)
    PROVE  Inv'
<1>1. TypeOK /\ LocksOK /\ live \in Session /\ live.gen \in Int /\ live.gen >= live.gen
    BY DEF Inv, TypeOK, Session
<1>2. cmd[h].at = "idle" /\ cmd[h].msg = None /\ cmd[h].send = 0
    BY DEF Enter, Stop, At, Inv, ShapesOK, Shape
<1>3. ~Lingers(h)
    BY <1>2 DEF Lingers
<1>4. SameQueue /\ queue' \in QueueState /\ UNCHANGED <<queue, log, retained, sent, claim>>
    BY <1>1 DEF Enter, Stop, SameQueue, TypeOK
<1>5. CASE Enter(h)
    <2>1. cmd' \in [Hosts -> Command] /\ Reset(h) /\ cmd'[h].at = "flush" /\ cmd'[h].then = "act" /\ cmd'[h].live = live
        BY <1>1, <1>5, BeginEffect DEF Enter, Steps
    <2>2. Shape(cmd'[h])
        BY <2>1 DEF Shape, Reset, Before, Flushing
    <2>3. LocksMove(h)
        BY <1>4, <1>5, <2>1, NoneIsNoHost DEF LocksMove, Enter, Reset
    <2>4. EventsOK'
        BY <1>4, <2>1, EventsKept DEF Reset, Inv
    <2>5. live' = live /\ lock' = h
        BY <1>5 DEF Enter
    <2>6. ~Before(cmd'[h], "stop") /\ ~Before(cmd'[h], "final") /\ cmd'[h].at # "stopping" /\ ~Before(cmd'[h], "handoff")
        BY <2>1 DEF Before, Flushing
    <2>7. cmd'[h].msg = None /\ cmd'[h].live.gen <= live'.gen
        BY <1>1, <2>1, <2>5 DEF Reset
    <2>. QED BY <1>1, <1>3, <1>4, <2>1, <2>2, <2>3, <2>4, <2>5, <2>6, <2>7, Quiet DEF TypeOK
<1>6. CASE Stop(h)
    <2>. DEFINE new == [Idle EXCEPT !.at = "stopping", !.live = live]
    <2>1. new \in Command /\ new.at = "stopping" /\ new.live = live /\ new.msg = None /\ new.send = 0
          /\ new.accepted = FALSE
        BY <1>1, IdleIsCommand DEF Idle, Command
    <2>2. cmd' \in [Hosts -> Command] /\ Reset(h) /\ cmd'[h].at = "stopping" /\ cmd'[h].live = live
        <3>1. cmd' = [cmd EXCEPT ![h] = new]
            BY <1>6 DEF Stop
        <3>. HIDE DEF new
        <3>. QED BY <1>1, <2>1, <3>1 DEF Reset, Others, TypeOK
    <2>. HIDE DEF new
    <2>3. Shape(cmd'[h])
        BY <2>2 DEF Shape, Reset, Before, Flushing
    <2>4. LocksMove(h)
        BY <1>4, <1>6, <2>2 DEF LocksMove, Stop, Reset, Locked, Flushing
    <2>5. EventsOK'
        BY <1>4, <2>2, EventsKept DEF Reset, Inv
    <2>6. lock' = lock /\ live' \in Session /\ live'.gen = live.gen + 1
        <3>1. live' = [live EXCEPT !.gen = @ + 1, !.run = 0, !.awaiting = FALSE] /\ live.gen < MaxGeneration
            BY <1>6 DEF Stop
        <3>2. MaxGeneration \in Nat
            BY BoundsPositive
        <3>3. lock' = lock
            BY <1>6 DEF Stop
        <3>. DEFINE next == live.gen + 1
        <3>4. next \in 0 .. MaxGeneration /\ 0 \in 0 .. MaxGeneration
            BY <1>1, <3>1, <3>2 DEF Session
        <3>5. live' = [live EXCEPT !.gen = next, !.run = 0, !.awaiting = FALSE]
            BY <3>1
        <3>. HIDE DEF next
        <3>6. live' \in Session /\ live'.gen = next
            BY <1>1, <3>4, <3>5 DEF Session
        <3>. QED BY <3>3, <3>6 DEF next
    <2>7. ~Before(cmd'[h], "stop") /\ ~Before(cmd'[h], "final") /\ ~Before(cmd'[h], "handoff")
        BY <2>2 DEF Before, Flushing
    <2>8. cmd'[h].msg = None /\ cmd'[h].live.gen <= live'.gen /\ cmd'[h].live.gen < live'.gen /\ live'.gen >= live.gen
        BY <1>1, <2>2, <2>6 DEF Reset
    <2>. QED BY <1>1, <1>3, <1>4, <2>2, <2>3, <2>4, <2>5, <2>6, <2>7, <2>8, Quiet DEF TypeOK
<1>. QED BY <1>5, <1>6

\* The handoff is refused, or the wait for the transport ends; nobody's queue changes.
LEMMA VerdictStep ==
    ASSUME Inv, NEW h \in Hosts, HandoffRefused(h) \/ Verdict(h)
    PROVE  Inv'
<1>1. TypeOK /\ LocksOK /\ live \in Session /\ live.gen \in Int /\ live.gen >= live.gen /\ cmd[h] \in Command
    BY DEF Inv, TypeOK, Session
<1>2. SameQueue /\ queue' \in QueueState /\ UNCHANGED <<live, queue, log, retained, lock, sent, claim>>
    BY <1>1 DEF HandoffRefused, Verdict, SameQueue, TypeOK
<1>3. cmd' \in [Hosts -> Command] /\ To(h, "finishing", cmd[h].then)
    <2>1. CASE HandoffRefused(h)
        BY <1>1, <2>1, GoToEffect DEF HandoffRefused, Steps
    <2>2. CASE Verdict(h)
        <3>1. PICK accepted \in {AcceptedBy(h), FALSE} : cmd' = [cmd EXCEPT ![h].at = "finishing", ![h].accepted = accepted]
            BY <2>2 DEF Verdict
        <3>2. accepted \in BOOLEAN
            BY <3>1 DEF AcceptedBy
        <3>3. accepted => sent[cmd[h].send].outcome = "ok"
            BY <3>1 DEF AcceptedBy
        <3>4. cmd[h].send # 0
            BY <2>2 DEF Verdict, At, Inv, ShapesOK, Shape
        <3>. DEFINE new == [cmd[h] EXCEPT !.at = "finishing", !.accepted = accepted]
        <3>5. new \in Command /\ new.at = "finishing" /\ new.then = cmd[h].then /\ new.live = cmd[h].live
              /\ new.msg = cmd[h].msg /\ new.send = cmd[h].send /\ new.accepted = accepted
            BY <1>1, <3>2 DEF Command
        <3>6. cmd' = [cmd EXCEPT ![h] = new]
            BY <3>1
        <3>. HIDE DEF new
        <3>. QED BY <1>1, <3>3, <3>4, <3>5, <3>6 DEF To, Kept, Others, TypeOK
    <2>. QED BY <2>1, <2>2
<1>4. cmd[h].msg # None
    BY DEF HandoffRefused, Verdict, At, Inv, ShapesOK, Shape, Before
<1>5. Shape(cmd'[h])
    BY <1>3, <1>4 DEF Shape, To, Kept, Before, Flushing
<1>6. LocksMove(h)
    BY <1>1, <1>2, <1>3, <1>4 DEF LocksMove, To, Kept, LocksOK, Locked, Flushing
<1>7. EventsOK' /\ Kept(h)
    BY <1>2, <1>3, EventsKept DEF To, Kept, Inv
<1>8. ~Before(cmd'[h], "stop") /\ ~Before(cmd'[h], "final") /\ ~Before(cmd'[h], "handoff") /\ cmd'[h].at # "stopping"
    BY <1>3 DEF To, Before, Flushing
<1>. QED BY <1>1, <1>2, <1>3, <1>5, <1>6, <1>7, <1>8, Quiet DEF Kept, TypeOK

\* A delivery is finalized, or a Stop applied, only to the queue it was made for.
LEMMA ReenterStep ==
    ASSUME Inv, NEW h \in Hosts, FinishEnter(h) \/ StopEnter(h)
    PROVE  Inv'
<1>1. TypeOK /\ LocksOK /\ live \in Session /\ live.gen \in Int /\ live.gen >= live.gen /\ cmd[h] \in Command
    BY DEF Inv, TypeOK, Session
<1>2. SameQueue /\ queue' \in QueueState /\ UNCHANGED <<live, queue, log, retained, sent>>
    BY <1>1 DEF FinishEnter, StopEnter, SameQueue, TypeOK
<1>3. CASE queue.gen # cmd[h].live.gen \/ queue.stopped
    <2>1. Leave(h)
        BY <1>3 DEF FinishEnter, StopEnter
    <2>2. cmd'[h].at \notin {"act", "final", "stop", "publishing", "published"} /\ Others(h)
        BY <1>1, <2>1, LeaveEffect, IdleIsCommand DEF To, Kept, Ended, Reset
    <2>3. EventsOK'
        BY <1>2, <2>2, EventsKept DEF Inv
    <2>. QED BY <1>2, <2>1, <2>3, LeaveStep
<1>4. CASE queue.gen = cmd[h].live.gen /\ ~queue.stopped
    <2>1. lock = None /\ lock' = h /\ claim' = claim
        BY <1>4 DEF FinishEnter, StopEnter
    <2>2. PICK t \in {"final", "stop"} :
            /\ cmd' \in [Hosts -> Command] /\ To(h, "flush", t)
            /\ t = "final" => cmd[h].msg # None
            /\ t = "stop" => cmd[h].msg = None /\ cmd[h].send = 0 /\ cmd[h].live.gen < live.gen
        <3>1. CASE FinishEnter(h)
            <4>1. cmd' = [cmd EXCEPT ![h].at = "flush", ![h].then = "final", ![h].accepted = @ /\ SameRun(h)]
                BY <1>4, <3>1 DEF FinishEnter
            <4>. DEFINE acc == cmd[h].accepted /\ SameRun(h)
                        new == [cmd[h] EXCEPT !.at = "flush", !.then = "final", !.accepted = acc]
            <4>2. acc \in BOOLEAN /\ (acc => cmd[h].accepted)
                OBVIOUS
            <4>3. cmd' = [cmd EXCEPT ![h] = new]
                BY <4>1
            <4>. HIDE DEF acc
            <4>4. new \in Command /\ new.at = "flush" /\ new.then = "final" /\ new.live = cmd[h].live
                  /\ new.msg = cmd[h].msg /\ new.send = cmd[h].send /\ new.accepted = acc
                BY <1>1, <4>2 DEF Command
            <4>. HIDE DEF new
            <4>5. cmd' \in [Hosts -> Command] /\ To(h, "flush", "final")
                BY <1>1, <4>2, <4>3, <4>4 DEF To, Kept, Others, TypeOK
            <4>6. cmd[h].msg # None
                BY <3>1 DEF FinishEnter, At, Inv, ShapesOK, Shape
            <4>. QED BY <4>5, <4>6
        <3>2. CASE StopEnter(h)
            <4>1. cmd' \in [Hosts -> Command] /\ To(h, "flush", "stop")
                BY <1>1, <1>4, <3>2, FlushEffect DEF StopEnter
            <4>2. cmd[h].msg = None /\ cmd[h].send = 0 /\ cmd[h].live.gen < live.gen
                BY <3>2 DEF StopEnter, At, Inv, ShapesOK, Shape, GenerationsOK
            <4>. QED BY <4>1, <4>2
        <3>. QED BY <3>1, <3>2
    <2>3. /\ ~Before(cmd'[h], "handoff") /\ ~Before(cmd'[h], "act") /\ cmd'[h].at # "stopping"
          /\ Before(cmd'[h], "final") => t = "final"
          /\ Before(cmd'[h], "stop") => t = "stop"
        BY <2>2 DEF To, Before, Flushing
    <2>4. Shape(cmd'[h])
        BY <2>2, <2>3 DEF Shape, To, Kept, Inv, ShapesOK
    <2>5. LocksMove(h)
        BY <1>1, <2>1, <2>2, NoneIsNoHost DEF LocksMove, To, Kept, LocksOK
    <2>6. EventsOK' /\ Kept(h)
        BY <1>2, <2>2, EventsKept DEF To, Kept, Inv
    <2>7. live' = live /\ cmd'[h].live = cmd[h].live
        BY <1>2, <2>6 DEF Kept
    <2>. QED BY <1>1, <1>2, <1>4, <2>1, <2>2, <2>3, <2>4, <2>5, <2>6, <2>7, Quiet DEF TypeOK
<1>. QED BY <1>3, <1>4

-----------------------------------------------------------------------------
(* The transport.                                                           *)

\* An outcome is recorded; everything else of the sends stays.
LEMMA OutcomeEffect ==
    ASSUME TypeOK, NEW n \in DOMAIN sent, NEW s \in {"ok", "failed", "lost"},
           sent' = [sent EXCEPT ![n].outcome = s]
    PROVE  /\ sent' \in Seq(Send) /\ DOMAIN sent' = DOMAIN sent
           /\ \A i \in DOMAIN sent : sent'[i].gen = sent[i].gen /\ sent'[i].msg = sent[i].msg
           /\ sent'[n].outcome = s /\ \A i \in DOMAIN sent \ {n} : sent'[i] = sent[i]
<1>. DEFINE new == [sent[n] EXCEPT !.outcome = s]
<1>1. sent \in Seq(Send) /\ sent[n] \in Send /\ n \in 1 .. Len(sent)
    BY DEF TypeOK
<1>2. new \in Send /\ new.outcome = s /\ new.gen = sent[n].gen /\ new.msg = sent[n].msg
    BY <1>1 DEF Send
<1>3. sent' = [sent EXCEPT ![n] = new]
    OBVIOUS
<1>. HIDE DEF new
<1>4. sent' \in Seq(Send) /\ DOMAIN sent' = DOMAIN sent /\ sent'[n] = new /\ \A i \in DOMAIN sent \ {n} : sent'[i] = sent[i]
    BY <1>1, <1>2, <1>3
<1>. QED BY <1>2, <1>4

\* A transport call ends, with the host that made it or without.
LEMMA SettledStep ==
    ASSUME Inv, NEW h \in Hosts, Lingers(h), NEW s \in {"ok", "failed", "lost"},
           sent' = [sent EXCEPT ![cmd[h].send].outcome = s],
           UNCHANGED <<live, queue, log, retained>>, cmd' \in [Hosts -> Command],
           lock' \in Hosts \cup {None}, claim' \in Hosts \cup {"free", "dead", "malformed"},
           cmd' = cmd \/ Ended(h), LocksMove(h)
    PROVE  Inv'
<1>. DEFINE n == cmd[h].send
<1>1. TypeOK /\ n \in DOMAIN sent /\ sent[n].outcome = "sending"
    BY DEF Lingers, Inv, SendsOK
<1>2. /\ sent' \in Seq(Send) /\ DOMAIN sent' = DOMAIN sent
      /\ \A i \in DOMAIN sent : sent'[i].gen = sent[i].gen /\ sent'[i].msg = sent[i].msg
      /\ sent'[n].outcome = s /\ \A i \in DOMAIN sent \ {n} : sent'[i] = sent[i]
    BY <1>1, OutcomeEffect
<1>3. \A i \in DOMAIN sent : /\ sent[i].outcome = "ok" => sent'[i].outcome = "ok"
                             /\ sent'[i].outcome = "sending" => sent[i].outcome = "sending" /\ i # n
    BY <1>1, <1>2
<1>4. \A k \in Hosts \ {h} : cmd'[k] = cmd[k]
    BY DEF Ended, Reset, Others
<1>5. cmd'[h] = cmd[h] \/ cmd'[h] = Idle
    BY DEF Ended
<1>6. TypeOK'
    BY <1>1, <1>2 DEF TypeOK
<1>7. ShapesOK'
    <2>1. Shape(Idle)
        BY IdleIsCommand DEF Shape, Before, Flushing
    <2>. QED BY <1>4, <1>5, <2>1 DEF Inv, ShapesOK
<1>8. LocksOK'
    BY <1>4, LocksKept DEF Inv, Others
<1>9. GenerationsOK' /\ VersionsOK'
    <2>1. SameQueue /\ live' \in Session /\ live'.gen >= live.gen /\ live.gen \in Int /\ cmd'[h] \in Command /\ live'.gen >= 0
        BY <1>1 DEF TypeOK, SameQueue, Session
    <2>2. CASE cmd'[h] = cmd[h]
        BY <1>4, <2>2 DEF Inv, GenerationsOK, VersionsOK, Dispatching
    <2>3. CASE cmd'[h] = Idle
        <3>1. cmd'[h].live.gen <= live'.gen /\ cmd'[h].msg = None /\ ~Before(cmd'[h], "stop") /\ ~Before(cmd'[h], "final")
              /\ cmd'[h].at # "stopping"
            BY <2>1, <2>3, IdleIsCommand DEF Before, Flushing
        <3>. QED BY <1>1, <1>4, <2>1, <3>1, GenerationsKept, VersionsKept DEF Inv, Others
    <2>. QED BY <1>5, <2>2, <2>3
<1>10. SendsOK'
    <2>1. HandedOnce'
        BY <1>2 DEF Inv, SendsOK, HandedOnce
    <2>2. ASSUME NEW i \in DOMAIN sent'
          PROVE  sent'[i].gen <= queue'.gen /\ (sent'[i].outcome = "sending" => \E k \in Hosts : cmd'[k].send = i)
        <3>1. sent'[i].gen <= queue'.gen
            BY <1>2, <2>2 DEF Inv, SendsOK
        <3>2. ASSUME sent'[i].outcome = "sending" PROVE \E k \in Hosts : cmd'[k].send = i
            <4>1. sent[i].outcome = "sending" /\ i # n
                BY <1>2, <1>3, <2>2, <3>2
            <4>2. PICK k \in Hosts : cmd[k].send = i
                BY <1>2, <2>2, <4>1 DEF Inv, SendsOK
            <4>. QED BY <1>4, <4>1, <4>2
        <3>. QED BY <3>1, <3>2
    <2>3. ASSUME NEW k \in Hosts
          PROVE  /\ cmd'[k].send # 0 => /\ cmd'[k].send \in DOMAIN sent' /\ sent'[cmd'[k].send].gen = cmd'[k].live.gen
                                        /\ sent'[cmd'[k].send].msg = cmd'[k].msg
                 /\ cmd'[k].accepted => cmd'[k].send # 0 /\ sent'[cmd'[k].send].outcome = "ok"
                 /\ cmd'[k].msg # None /\ cmd'[k].send = 0 =>
                        \A i \in DOMAIN sent' : ~(sent'[i].gen = cmd'[k].live.gen /\ sent'[i].msg = cmd'[k].msg)
        <3>1. CASE cmd'[k] = cmd[k]
            BY <1>2, <1>3, <3>1 DEF Inv, SendsOK
        <3>2. CASE cmd'[k] = Idle
            BY <3>2, IdleIsCommand
        <3>. QED BY <1>4, <1>5, <3>1, <3>2
    <2>. QED BY <2>1, <2>2, <2>3 DEF SendsOK
<1>11. SpentOK'
    <2>1. \A m : Spent(m)' <=> Spent(m)
        BY DEF Spent
    <2>2. \A k \in Hosts : cmd'[k] = cmd[k] \/ cmd'[k].msg = None
        BY <1>4, <1>5, IdleIsCommand
    <2>. QED BY <1>2, <2>1, <2>2 DEF Inv, SpentOK
<1>12. EventsOK'
    BY <1>4, <1>5, EventsKept, IdleIsCommand DEF Inv, Others
<1>13. AcceptedTruthfully'
    BY <1>2, <1>3 DEF Inv, AcceptedTruthfully
<1>. QED BY <1>6, <1>7, <1>8, <1>9, <1>10, <1>11, <1>12, <1>13 DEF Inv

\* The transport call of a host ends; a host that only waited for that gives its claim back.
LEMMA SettleStep ==
    ASSUME Inv, NEW h \in Hosts, NEW s \in {"ok", "failed"}, Settle(h, s)
    PROVE  Inv'
<1>1. TypeOK
    BY DEF Inv
<1>2. CASE At(h, "lingering")
    <2>1. cmd' = [cmd EXCEPT ![h] = Idle] /\ claim' = (IF claim = h THEN "free" ELSE claim)
        BY <1>2 DEF Settle
    <2>2. cmd' \in [Hosts -> Command] /\ Ended(h)
        BY <1>1, <2>1, IdleEffect
    <2>3. LocksMove(h)
        BY <2>1, <2>2, IdleIsCommand DEF LocksMove, Ended, Locked, Flushing, Settle
    <2>. QED BY <1>1, <2>1, <2>2, <2>3, SettledStep DEF Settle, TypeOK
<1>3. CASE ~At(h, "lingering")
    <2>1. LocksMove(h)
        BY <1>3 DEF LocksMove, Inv, LocksOK, Settle
    <2>. QED BY <1>1, <1>3, <2>1, SettledStep DEF Settle, TypeOK
<1>. QED BY <1>2, <1>3

\* A host dies with everything it held.
LEMMA CrashStep ==
    ASSUME Inv, NEW h \in Hosts, Crash(h)
    PROVE  Inv'
<1>1. TypeOK /\ live \in Session /\ live.gen >= live.gen /\ live.gen >= 0
    BY DEF Inv, TypeOK, Session
<1>2. cmd' \in [Hosts -> Command] /\ Ended(h)
    BY <1>1, IdleEffect DEF Crash
<1>3. lock' \in Hosts \cup {None} /\ claim' \in Hosts \cup {"free", "dead", "malformed"}
    BY <1>1 DEF Crash, TypeOK
<1>4. LocksMove(h)
    BY <1>2, IdleIsCommand, HostsAreNoStates DEF LocksMove, Ended, Locked, Flushing, Crash, Claimable
<1>5. CASE Lingers(h)
    BY <1>2, <1>3, <1>4, <1>5, SettledStep DEF Crash
<1>6. CASE ~Lingers(h)
    <2>1. SameQueue /\ queue' \in QueueState /\ UNCHANGED <<live, queue, log, retained, sent>>
        BY <1>1, <1>6 DEF Crash, SameQueue, TypeOK
    <2>2. Shape(cmd'[h]) /\ ~Before(cmd'[h], "handoff") /\ ~Before(cmd'[h], "stop") /\ ~Before(cmd'[h], "final")
          /\ cmd'[h].at = "idle"
        BY <1>2, IdleIsCommand DEF Ended, Shape, Before, Flushing
    <2>3. EventsOK'
        BY <1>2, <2>1, <2>2, EventsKept DEF Inv, Ended, Reset
    <2>4. cmd'[h].msg = None /\ cmd'[h].live.gen <= live'.gen
        BY <1>1, <1>2, <2>1, IdleIsCommand DEF Ended
    <2>. QED BY <1>1, <1>2, <1>3, <1>4, <1>6, <2>1, <2>2, <2>3, <2>4, Quiet DEF Ended, TypeOK
<1>. QED BY <1>5, <1>6

\* Text leaves: the first and only send of the message in its generation.
LEMMA HandoffStep ==
    ASSUME Inv, NEW h \in Hosts, Handoff(h)
    PROVE  Inv'
<1>. DEFINE n == Len(sent) + 1
            row == [gen |-> live.gen, msg |-> cmd[h].msg, at |-> Boundary(live), outcome |-> "sending"]
<1>1. TypeOK /\ LocksOK /\ cmd[h] \in Command /\ live \in Session /\ live.gen >= live.gen
    BY DEF Inv, TypeOK, Session
<1>2. At(h, "handoff") /\ live = cmd[h].live /\ sent' = Append(sent, row) /\ UNCHANGED <<live, queue, log, retained, lock, claim>>
    BY DEF Handoff
<1>3. Before(cmd[h], "handoff") /\ cmd[h].msg # None /\ cmd[h].send = 0 /\ cmd[h].accepted = FALSE
    BY <1>1, <1>2 DEF At, Before, Inv, ShapesOK, Shape, Command
<1>4. \A k \in Hosts \ {h} : cmd[k].msg = None
    BY <1>1, <1>3, AloneInDelivery
<1>5. live.gen = queue.gen /\ queue.gen \in 1 .. MaxGeneration
    BY <1>1, <1>2, <1>3 DEF Inv, GenerationsOK, TypeOK, QueueState, Session
<1>6. row \in Send /\ row.gen = live.gen /\ row.msg = cmd[h].msg /\ row.outcome = "sending"
    <2>1. cmd[h].msg \in Messages /\ Boundary(live) \in (0 .. MaxGeneration) \X (0 .. MaxRunVersion)
        BY <1>1, <1>3 DEF Command, Session, Boundary
    <2>. QED BY <1>5, <2>1 DEF Send
<1>7. n \in Nat /\ n # 0 /\ DOMAIN sent = 1 .. Len(sent) /\ Len(sent) \in Nat /\ Len(sent') = n
    BY <1>1, <1>2 DEF TypeOK
<1>8. sent' \in Seq(Send) /\ DOMAIN sent' = 1 .. n /\ sent'[n] = row /\ \A i \in 1 .. Len(sent) : sent'[i] = sent[i]
    <2>. HIDE DEF row
    <2>. QED BY <1>1, <1>2, <1>6, <1>7 DEF TypeOK
<1>. HIDE DEF row
<1>9. /\ cmd' \in [Hosts -> Command] /\ Others(h)
      /\ cmd'[h].at = "waiting" /\ cmd'[h].then = cmd[h].then /\ cmd'[h].live = cmd[h].live /\ cmd'[h].msg = cmd[h].msg
      /\ cmd'[h].accepted = FALSE /\ cmd'[h].send = n
    <2>. DEFINE new == [cmd[h] EXCEPT !.at = "waiting", !.send = n]
    <2>1. cmd' = [cmd EXCEPT ![h] = new]
        BY <1>7 DEF Handoff
    <2>. HIDE DEF n
    <2>2. new \in Command /\ new.at = "waiting" /\ new.then = cmd[h].then /\ new.live = cmd[h].live
          /\ new.msg = cmd[h].msg /\ new.accepted = FALSE /\ new.send = n
        BY <1>1, <1>3, <1>7 DEF Command
    <2>. HIDE DEF new
    <2>. QED BY <1>1, <2>1, <2>2 DEF Others, TypeOK
<1>10. n \in 1 .. n /\ \A i \in 1 .. n : i # n => i \in 1 .. Len(sent)
    BY <1>7
<1>. HIDE DEF n
<1>11. TypeOK'
    BY <1>1, <1>2, <1>8, <1>9 DEF TypeOK
<1>12. ShapesOK'
    <2>1. Shape(cmd'[h])
        BY <1>3, <1>7, <1>9 DEF Shape, Before, Flushing
    <2>. QED BY <1>9, <2>1 DEF Inv, ShapesOK, Others
<1>13. LocksOK'
    <2>1. LocksMove(h)
        BY <1>1, <1>2, <1>3, <1>9 DEF LocksMove, LocksOK, Locked, Flushing
    <2>. QED BY <1>1, <1>9, <2>1, LocksKept
<1>14. GenerationsOK' /\ VersionsOK'
    <2>1. SameQueue /\ live' \in Session /\ live'.gen >= live.gen
        BY <1>1, <1>2 DEF SameQueue
    <2>2. ~Before(cmd'[h], "stop") /\ ~Before(cmd'[h], "final") /\ cmd'[h].at # "stopping"
        BY <1>9 DEF Before, Flushing
    <2>3. cmd'[h].live.gen <= live'.gen /\ cmd'[h] \in Command
        BY <1>2, <1>9 DEF Inv, GenerationsOK
    <2>. QED BY <1>1, <1>3, <1>9, <2>1, <2>2, <2>3, GenerationsKept, VersionsKept DEF Inv
<1>15. SendsOK'
    <2>1. \A i \in 1 .. Len(sent) : ~(sent[i].gen = row.gen /\ sent[i].msg = row.msg)
        BY <1>2, <1>3, <1>6, <1>7 DEF Inv, SendsOK
    <2>2. HandedOnce'
        <3>1. ASSUME NEW i \in 1 .. n, NEW j \in 1 .. n, sent'[i].gen = sent'[j].gen, sent'[i].msg = sent'[j].msg
              PROVE  i = j
            <4>1. CASE i \in 1 .. Len(sent) /\ j \in 1 .. Len(sent)
                BY <1>7, <1>8, <3>1, <4>1 DEF Inv, SendsOK, HandedOnce
            <4>2. CASE i = n \/ j = n
                BY <1>8, <1>10, <2>1, <3>1, <4>2
            <4>. QED BY <1>10, <4>1, <4>2
        <3>. QED BY <1>8, <3>1 DEF HandedOnce
    <2>3. ASSUME NEW i \in 1 .. n
          PROVE  sent'[i].gen <= queue'.gen /\ (sent'[i].outcome = "sending" => \E k \in Hosts : cmd'[k].send = i)
        <3>1. CASE i = n
            <4>1. sent'[i].gen = queue'.gen /\ queue'.gen \in Int
                BY <1>2, <1>5, <1>6, <1>8, <3>1
            <4>. QED BY <1>9, <3>1, <4>1
        <3>2. CASE i # n
            <4>1. i \in 1 .. Len(sent) /\ i # 0 /\ sent'[i] = sent[i]
                BY <1>7, <1>8, <1>10, <3>2
            <4>2. ASSUME sent[i].outcome = "sending" PROVE \E k \in Hosts : cmd'[k].send = i
                <5>1. PICK k \in Hosts : cmd[k].send = i
                    BY <1>7, <4>1, <4>2 DEF Inv, SendsOK
                <5>. QED BY <1>3, <1>9, <4>1, <5>1 DEF Others
            <4>. QED BY <1>2, <1>7, <4>1, <4>2 DEF Inv, SendsOK
        <3>. QED BY <3>1, <3>2
    <2>4. \A k \in Hosts \ {h} : cmd'[k].send = 0 /\ ~cmd'[k].accepted /\ cmd'[k].msg = None
        BY <1>4, <1>9 DEF Others, Inv, ShapesOK, Shape
    <2>5. cmd'[h].send # 0 /\ sent'[n].gen = cmd'[h].live.gen /\ sent'[n].msg = cmd'[h].msg
        BY <1>2, <1>6, <1>7, <1>8, <1>9
    <2>. QED BY <1>8, <1>9, <1>10, <2>2, <2>3, <2>4, <2>5 DEF SendsOK
<1>16. SpentOK'
    <2>1. \A m : Spent(m)' <=> Spent(m)
        BY <1>2 DEF Spent
    <2>2. Spent(cmd[h].msg)
        BY <1>2, <1>3, <1>5 DEF Inv, SpentOK
    <2>3. \A i \in 1 .. n : sent'[i].gen = queue'.gen => Spent(sent'[i].msg)
        BY <1>2, <1>6, <1>7, <1>8, <1>10, <2>2 DEF Inv, SpentOK
    <2>4. \A k \in Hosts \ {h} : cmd'[k].msg = None
        BY <1>4, <1>9 DEF Others
    <2>5. ~Before(cmd'[h], "handoff")
        BY <1>9 DEF Before, Flushing
    <2>. QED BY <1>8, <1>9, <2>1, <2>2, <2>3, <2>4, <2>5 DEF SpentOK
<1>17. EventsOK'
    BY <1>2, <1>9, EventsKept DEF Inv
<1>18. AcceptedTruthfully'
    <2>1. ASSUME NEW i \in DOMAIN sent PROVE i \in DOMAIN sent' /\ sent'[i] = sent[i]
        <3>1. i \in 1 .. Len(sent) /\ i \in 1 .. Len(sent')
            BY <1>7 DEF n
        <3>. QED BY <1>7, <1>8, <3>1
    <2>. QED BY <1>2, <2>1 DEF Inv, AcceptedTruthfully
<1>. QED BY <1>11, <1>12, <1>13, <1>14, <1>15, <1>16, <1>17, <1>18 DEF Inv

-----------------------------------------------------------------------------
(* Changes of the queue.                                                    *)

\* A change saved over a flushed outbox has the version after the last event.
LEMMA SavedEvents ==
    ASSUME TypeOK, LocksOK, EventsOK, NEW h \in Hosts, cmd[h].at \in {"act", "final", "stop"}, Others(h),
           cmd'[h].at = "flush", queue'.gen = queue.gen, queue'.ver = queue.ver + 1, queue'.outbox = "prepared", log' = log
    PROVE  EventsOK'
<1>1. queue.outbox = "none" /\ Shown
    BY DEF EventsOK, OutboxOK
<1>2. LastEvent' = LastEvent
    BY DEF LastEvent, EventBefore
<1>3. Follows(Stored', LastEvent)
    <2>1. queue.gen \in Int /\ queue.ver \in Int
        BY DEF TypeOK, QueueState
    <2>2. CASE LastEvent = Stored
        BY <2>1, <2>2 DEF Follows, Stored
    <2>3. CASE LastEvent[1] < queue.gen /\ queue.ver = 0
        BY <2>1, <2>3 DEF Follows, Stored
    <2>. QED BY <1>1, <2>2, <2>3 DEF Shown
<1>4. \A k \in Hosts \ {h} : cmd'[k].at \notin {"act", "final", "stop", "publishing", "published"}
    BY Alone DEF Others, Locked, Flushing
<1>5. OutboxOK'
    BY <1>2, <1>3, <1>4 DEF OutboxOK, Follows
<1>6. (\A i \in DOMAIN log : Follows(log[i], EventBefore(i)))'
    BY DEF EventsOK, EventBefore, Follows
<1>. QED BY <1>5, <1>6 DEF EventsOK

\* The holder of the queue lock changes the queue within its generation.
LEMMA SavedGenerations ==
    ASSUME TypeOK, LocksOK, GenerationsOK, NEW h \in Hosts, cmd[h].at \in {"act", "final", "stop"}, Others(h),
           cmd'[h].at = "flush", cmd'[h].then \in {"act", "handoff", "end"}, cmd'[h].live = cmd[h].live,
           cmd'[h].msg # None => cmd[h].live.gen <= queue.gen,
           live' = live, queue'.gen = queue.gen, queue'.stopped => queue.gen < live.gen /\ queue'.items = <<>>
    PROVE  GenerationsOK'
<1>1. \A k \in Hosts \ {h} : ~Before(cmd'[k], "final") /\ ~Before(cmd'[k], "stop")
    BY Alone DEF Others, Locked, Flushing, Before
<1>2. ~Before(cmd'[h], "final") /\ ~Before(cmd'[h], "stop") /\ cmd'[h].at # "stopping"
    BY DEF Before, Flushing
<1>3. \A k \in Hosts \ {h} : /\ cmd'[k].live.gen <= live'.gen
                             /\ cmd'[k].msg # None => cmd'[k].live.gen <= queue'.gen
                             /\ cmd'[k].at = "stopping" => cmd'[k].live.gen < live'.gen
    BY DEF GenerationsOK, Others
<1>. QED BY <1>1, <1>2, <1>3 DEF GenerationsOK

\* Whatever was in a state other than ambiguous is so still; nothing becomes queued or claimed.
Drawn == \A i \in DOMAIN queue'.items : queue'.items[i].state # "ambiguous" =>
            \E j \in DOMAIN queue.items : queue.items[j] = queue'.items[i]

\* Claims of other hosts survive the change.
ClaimsSurvive(h) ==
    queue'.stopped \/ \A k \in Hosts \ {h} : cmd[k].msg # None =>
        \A j \in DOMAIN queue.items : queue.items[j] = Item(cmd[k].msg, "dispatching") =>
            \E i \in DOMAIN queue'.items : queue'.items[i] = queue.items[j]

\* What Spent(m) says of the queue after the change.
SpentNext(m) ==
    /\ m \in queue'.seen
    /\ \A i \in DOMAIN queue'.items : queue'.items[i].msg = m => queue'.items[i].state # "queued"

\* A saved change keeps the invariant when what is spent stays spent.
LEMMA SavedStep ==
    ASSUME Inv, NEW h \in Hosts, cmd[h].at \in {"act", "final", "stop"}, cmd' \in [Hosts -> Command],
           NEW then \in {"act", "end"}, To(h, "flush", then), then = "act" => cmd[h].msg = None,
           LocksMove(h), claim' \in Hosts \cup {"free", "dead", "malformed"},
           UNCHANGED <<live, log, retained, lock, sent>>,
           queue' \in QueueState, queue'.gen = queue.gen, queue'.ver = queue.ver + 1, queue'.outbox = "prepared",
           queue'.stopped => queue.gen < live.gen /\ queue'.items = <<>>,
           ~queue'.stopped => ~queue.stopped,
           Len(queue'.items) <= MaxItems,
           \A i \in DOMAIN queue'.items : queue'.items[i].msg \in queue'.seen,
           \A i, j \in DOMAIN queue'.items : queue'.items[i].msg = queue'.items[j].msg => i = j,
           VersionsOK', \A m \in Messages : Spent(m) => SpentNext(m), ClaimsSurvive(h), AcceptedTruthfully'
    PROVE  Inv'
<1>1. TypeOK /\ LocksOK /\ Others(h) /\ Kept(h)
    BY DEF Inv, To, Kept
<1>2. TypeOK'
    BY <1>1 DEF TypeOK
<1>3. ~Before(cmd'[h], "handoff") /\ ~Before(cmd'[h], "final") /\ ~Before(cmd'[h], "stop")
      /\ (Before(cmd'[h], "act") => then = "act")
      /\ cmd'[h].at \notin {"idle", "stopping", "waiting", "finishing", "lingering"}
    BY DEF To, Before, Flushing
<1>4. ShapesOK'
    <2>1. Shape(cmd'[h])
        BY <1>3 DEF To, Kept, Shape, Inv, ShapesOK
    <2>. QED BY <1>1, <2>1 DEF Inv, ShapesOK, Others
<1>5. LocksOK'
    BY <1>1, LocksKept
<1>6. GenerationsOK'
    <2>1. cmd'[h].at = "flush" /\ cmd'[h].then \in {"act", "handoff", "end"} /\ cmd'[h].live = cmd[h].live
          /\ cmd'[h].msg = cmd[h].msg
        BY DEF To, Kept
    <2>2. cmd'[h].msg # None => cmd[h].live.gen <= queue.gen
        BY <2>1 DEF Inv, GenerationsOK
    <2>. QED BY <1>1, <2>1, <2>2, SavedGenerations DEF Inv
<1>7. SendsOK'
    <2>1. queue'.gen >= queue.gen
        BY <1>1 DEF TypeOK, QueueState
    <2>. QED BY <1>1, <2>1, SendsKept DEF Inv
<1>8. SpentOK'
    <2>1. \A i \in DOMAIN sent : sent[i].msg \in Messages
        <3>1. \A i \in DOMAIN sent : sent[i] \in Send
            BY <1>1 DEF TypeOK
        <3>. QED BY <3>1 DEF Send
    <2>2. \A k \in Hosts : cmd[k].msg # None => cmd[k].msg \in Messages
        <3>1. \A k \in Hosts : cmd[k] \in Command
            BY <1>1 DEF TypeOK
        <3>. QED BY <3>1 DEF Command
    <2>3. \A i \in DOMAIN sent' : sent'[i].gen = queue'.gen => SpentNext(sent'[i].msg)
        BY <2>1 DEF Inv, SpentOK
    <2>4. ASSUME NEW k \in Hosts, cmd'[k].msg # None, cmd'[k].live.gen = queue'.gen
          PROVE  /\ SpentNext(cmd'[k].msg)
                 /\ Before(cmd'[k], "handoff") /\ ~queue'.stopped =>
                        \E i \in DOMAIN queue'.items : queue'.items[i] = Item(cmd'[k].msg, "dispatching")
        <3>1. cmd'[k].msg = cmd[k].msg /\ cmd'[k].live = cmd[k].live
            BY <1>1 DEF Kept, Others
        <3>2. Spent(cmd[k].msg)
            BY <2>4, <3>1 DEF Inv, SpentOK
        <3>3. SpentNext(cmd'[k].msg)
            BY <2>2, <2>4, <3>1, <3>2
        <3>4. ASSUME Before(cmd'[k], "handoff"), ~queue'.stopped
              PROVE  \E i \in DOMAIN queue'.items : queue'.items[i] = Item(cmd'[k].msg, "dispatching")
            <4>1. k # h /\ cmd'[k] = cmd[k]
                BY <1>1, <1>3, <3>4 DEF Others
            <4>2. PICK j \in DOMAIN queue.items : queue.items[j] = Item(cmd[k].msg, "dispatching")
                BY <2>4, <3>1, <3>4, <4>1 DEF Inv, SpentOK
            <4>. QED BY <2>4, <3>1, <3>4, <4>1, <4>2 DEF ClaimsSurvive
        <3>. QED BY <3>3, <3>4
    <2>. QED BY <2>3, <2>4 DEF SpentOK, Spent, SpentNext
<1>9. EventsOK'
    BY <1>1, SavedEvents DEF Inv, To
<1>. QED BY <1>2, <1>4, <1>5, <1>6, <1>7, <1>8, <1>9 DEF Inv

\* The item after the removal of item i: which one it was before.
Old(i, j) == IF j < i THEN j ELSE j + 1

\* Removing an item keeps the others, in their order.
LEMMA WithoutEffect ==
    ASSUME NEW s \in Seq(QueueItem), NEW i \in DOMAIN s
    PROVE  /\ Without(s, i) \in Seq(QueueItem) /\ Len(Without(s, i)) = Len(s) - 1
           /\ \A j \in DOMAIN Without(s, i) : Old(i, j) \in DOMAIN s /\ Old(i, j) # i /\ Without(s, i)[j] = s[Old(i, j)]
           /\ \A j, k \in DOMAIN Without(s, i) : Old(i, j) = Old(i, k) => j = k
           /\ \A k \in DOMAIN s \ {i} : \E j \in DOMAIN Without(s, i) : Without(s, i)[j] = s[k]
<1>1. Len(s) \in Nat /\ DOMAIN s = 1 .. Len(s) /\ Len(s) - 1 \in Nat /\ i \in 1 .. Len(s)
    OBVIOUS
<1>. DEFINE w == Without(s, i)
            m == Len(s) - 1
<1>2. \A j \in 1 .. m : Old(i, j) \in 1 .. Len(s) /\ Old(i, j) # i
    BY <1>1 DEF Old
<1>3. \A j, k \in 1 .. m : Old(i, j) = Old(i, k) => j = k
    BY <1>1 DEF Old
<1>4. w = [j \in 1 .. m |-> s[Old(i, j)]]
    BY DEF Without, Old
<1>5. \A k \in (1 .. Len(s)) \ {i} : \E j \in 1 .. m : Old(i, j) = k
    <2>1. TAKE k \in (1 .. Len(s)) \ {i}
    <2>2. CASE k < i
        <3>1. k \in 1 .. m /\ Old(i, k) = k
            BY <1>1, <2>2 DEF Old
        <3>. QED BY <3>1
    <2>3. CASE k > i
        <3>1. k - 1 \in 1 .. m /\ Old(i, k - 1) = k
            BY <1>1, <2>3 DEF Old
        <3>. QED BY <3>1
    <2>. QED BY <1>1, <2>2, <2>3
<1>6. m \in Nat /\ \A j \in 1 .. m : s[Old(i, j)] \in QueueItem
    BY <1>1, <1>2
<1>. HIDE DEF w, m
<1>7. w \in Seq(QueueItem) /\ Len(w) = m /\ DOMAIN w = 1 .. m
    BY <1>4, <1>6
<1>8. /\ w \in Seq(QueueItem) /\ Len(w) = m
      /\ \A j \in DOMAIN w : Old(i, j) \in DOMAIN s /\ Old(i, j) # i /\ w[j] = s[Old(i, j)]
      /\ \A j, k \in DOMAIN w : Old(i, j) = Old(i, k) => j = k
      /\ \A k \in DOMAIN s \ {i} : \E j \in DOMAIN w : w[j] = s[k]
    BY <1>1, <1>2, <1>3, <1>4, <1>5, <1>7
<1>. QED BY <1>8 DEF w, m

\* What is spent stays spent when nothing becomes queued.
LEMMA DrawnSpent ==
    ASSUME Drawn, queue.seen \subseteq queue'.seen
    PROVE  \A m \in Messages : Spent(m) => SpentNext(m)
BY DEF Drawn, Spent, SpentNext

\* There is still at most one claim when nothing becomes claimed.
LEMMA DrawnVersions ==
    ASSUME VersionsOK, Drawn, \A i, j \in DOMAIN queue'.items : queue'.items[i].msg = queue'.items[j].msg => i = j
    PROVE  \A i, j \in DOMAIN queue'.items :
               queue'.items[i].state = "dispatching" /\ queue'.items[j].state = "dispatching" => i = j
<1>1. ASSUME NEW i \in DOMAIN queue'.items, NEW j \in DOMAIN queue'.items,
             queue'.items[i].state = "dispatching", queue'.items[j].state = "dispatching"
      PROVE  i = j
    <2>1. PICK a \in DOMAIN queue.items : queue.items[a] = queue'.items[i]
        BY <1>1 DEF Drawn
    <2>2. PICK b \in DOMAIN queue.items : queue.items[b] = queue'.items[j]
        BY <1>1 DEF Drawn
    <2>3. a = b
        BY <1>1, <2>1, <2>2 DEF VersionsOK, Dispatching
    <2>. QED BY <1>1, <2>1, <2>2, <2>3
<1>. QED BY <1>1

\* What the guard of a person's change says.
LEMMA MayChangeFacts ==
    ASSUME Inv, NEW h \in Hosts, MayChange(h)
    PROVE  /\ cmd[h].at = "act" /\ cmd[h].msg = None /\ ~queue.stopped
           /\ queue.ver \in Nat /\ queue.ver + 1 <= MaxVersion /\ MaxVersion \in Nat
           /\ queue.gen = cmd[h].live.gen
BY BoundsPositive DEF MayChange, Current, At, Inv, ShapesOK, Shape, Before, TypeOK, QueueState

\* A person's change of the items is saved.
LEMMA ChangeStep ==
    ASSUME Inv, NEW h \in Hosts, MayChange(h), queue' \in QueueState,
           queue'.gen = queue.gen, queue'.ver = queue.ver + 1, queue'.outbox = "prepared",
           queue.seen \subseteq queue'.seen, queue'.stopped = queue.stopped, queue'.receipt = queue.receipt,
           cmd' = [cmd EXCEPT ![h].at = "flush", ![h].then = "end"], UNCHANGED <<live, log, retained, lock, claim, sent>>,
           Len(queue'.items) <= MaxItems,
           \A i \in DOMAIN queue'.items : queue'.items[i].msg \in queue'.seen,
           \A i, j \in DOMAIN queue'.items : queue'.items[i].msg = queue'.items[j].msg => i = j,
           \A i, j \in DOMAIN queue'.items :
               queue'.items[i].state = "dispatching" /\ queue'.items[j].state = "dispatching" => i = j,
           \A m \in Messages : Spent(m) => SpentNext(m),
           \A j \in DOMAIN queue.items : Dispatching(j) => \E i \in DOMAIN queue'.items : queue'.items[i] = queue.items[j]
    PROVE  Inv'
<1>1. TypeOK /\ LocksOK
    BY DEF Inv
<1>2. /\ cmd[h].at = "act" /\ cmd[h].msg = None /\ ~queue.stopped
      /\ queue.ver \in Nat /\ queue.ver + 1 <= MaxVersion /\ MaxVersion \in Nat
    BY MayChangeFacts
<1>3. cmd' \in [Hosts -> Command] /\ To(h, "flush", "end")
    BY <1>1, FlushEffect
<1>4. VersionsOK'
    BY <1>2 DEF VersionsOK, Dispatching
<1>6. ClaimsSurvive(h)
    BY DEF ClaimsSurvive, Dispatching, Item
<1>7. LocksMove(h)
    <2>1. lock = h /\ cmd'[h].msg = None
        BY <1>1, <1>2, <1>3 DEF LocksOK, Locked, To, Kept
    <2>. QED BY <2>1 DEF LocksMove
<1>8. AcceptedTruthfully'
    BY AcceptedKept DEF Inv
<1>. QED BY <1>1, <1>2, <1>3, <1>4, <1>6, <1>7, <1>8, SavedStep DEF TypeOK

\* A new message, of an identity never used in this generation, is the last of the queue.
LEMMA EnqueueStep ==
    ASSUME Inv, NEW h \in Hosts, NEW m \in Messages, Enqueue(h, m)
    PROVE  Inv'
<1>. DEFINE items == Append(queue.items, Item(m, "queued"))
            seen == queue.seen \cup {m}
            n == Len(queue.items) + 1
<1>1. /\ TypeOK /\ queue \in QueueState /\ queue.items \in Seq(QueueItem) /\ queue.seen \subseteq Messages
      /\ Len(queue.items) \in Nat /\ DOMAIN queue.items = 1 .. Len(queue.items) /\ MaxItems \in Nat
    BY CapacityPositive DEF Inv, TypeOK, QueueState
<1>2. MayChange(h) /\ m \notin queue.seen /\ Len(queue.items) < MaxItems /\ UNCHANGED <<live, log, retained, lock, claim, sent>>
    BY DEF Enqueue, Unused
<1>3. cmd' = [cmd EXCEPT ![h].at = "flush", ![h].then = "end"]
    BY DEF Enqueue, Save
<1>4. Item(m, "queued") \in QueueItem /\ Item(m, "queued").msg = m /\ Item(m, "queued").state = "queued"
    BY DEF Item, QueueItem
<1>5. /\ items \in Seq(QueueItem) /\ Len(items) = n /\ DOMAIN items = 1 .. n /\ items[n] = Item(m, "queued")
      /\ \A i \in 1 .. Len(queue.items) : items[i] = queue.items[i]
    BY <1>1, <1>4
<1>6. n <= MaxItems /\ \A i \in 1 .. n : i = n \/ i \in 1 .. Len(queue.items)
    BY <1>1, <1>2
<1>7. \A i \in 1 .. Len(queue.items) : i \in 1 .. n
    BY <1>1
<1>. HIDE DEF items, n
<1>8. \A i \in DOMAIN items : items[i].msg \in seen
    BY <1>1, <1>4, <1>5, <1>6 DEF TypeOK
<1>9. ASSUME NEW i \in 1 .. n, NEW j \in 1 .. n, items[i].msg = items[j].msg
      PROVE  i = j
    <2>1. \A k \in 1 .. Len(queue.items) : items[k].msg \in queue.seen
        BY <1>1, <1>5 DEF TypeOK
    <2>2. \A k \in 1 .. Len(queue.items) : items[k].msg # m
        BY <1>2, <2>1
    <2>3. CASE i \in 1 .. Len(queue.items) /\ j \in 1 .. Len(queue.items)
        BY <1>1, <1>5, <1>9, <2>3 DEF TypeOK
    <2>4. CASE i = n \/ j = n
        BY <1>4, <1>5, <1>6, <1>9, <2>2, <2>4
    <2>. QED BY <1>6, <2>3, <2>4
<1>10. \A i, j \in DOMAIN items : items[i].state = "dispatching" /\ items[j].state = "dispatching" => i = j
    BY <1>1, <1>4, <1>5, <1>6 DEF Inv, VersionsOK, Dispatching
<1>11. \A k \in Messages : Spent(k) => \A i \in DOMAIN items : items[i].msg = k => items[i].state # "queued"
    BY <1>1, <1>2, <1>4, <1>5, <1>6 DEF Spent
<1>12. \A j \in DOMAIN queue.items : Dispatching(j) => \E i \in DOMAIN items : items[i] = queue.items[j]
    BY <1>1, <1>5, <1>7
<1>13. seen \in SUBSET Messages /\ queue.seen \subseteq seen /\ Len(items) <= MaxItems
    BY <1>1, <1>5, <1>6
<1>14. /\ queue' \in QueueState /\ queue'.gen = queue.gen /\ queue'.ver = queue.ver + 1 /\ queue'.outbox = "prepared"
       /\ queue'.items = items /\ queue'.seen = seen /\ queue'.stopped = queue.stopped /\ queue'.receipt = queue.receipt
    <2>. DEFINE next == queue.ver + 1
    <2>1. next \in 0 .. MaxVersion + 2
        BY <1>2, MayChangeFacts
    <2>2. queue' = [[queue EXCEPT !.items = items, !.seen = seen] EXCEPT !.ver = next, !.outbox = "prepared"]
        BY <1>1 DEF Enqueue, Save, QueueState, items
    <2>. HIDE DEF next, seen
    <2>3. /\ queue' \in QueueState /\ queue'.gen = queue.gen /\ queue'.ver = next /\ queue'.outbox = "prepared"
          /\ queue'.items = items /\ queue'.seen = seen /\ queue'.stopped = queue.stopped /\ queue'.receipt = queue.receipt
        BY ONLY <1>1, <1>5, <1>13, <2>1, <2>2 DEF QueueState
    <2>. QED BY <2>3 DEF next
<1>. HIDE DEF seen
<1>15. \A k \in Messages : Spent(k) => SpentNext(k)
    BY <1>11, <1>14, <1>13 DEF Spent, SpentNext
<1>. QED BY <1>2, <1>3, <1>5, <1>8, <1>9, <1>10, <1>12, <1>13, <1>14, <1>15, ChangeStep

\* The items without item r are the others.
LEMMA QueueWithout ==
    ASSUME TypeOK, NEW r \in DOMAIN queue.items, NEW items, items = Without(queue.items, r)
    PROVE  /\ items \in Seq(QueueItem) /\ Len(items) <= MaxItems
           /\ \A j \in DOMAIN items : items[j].msg \in queue.seen /\ \E k \in DOMAIN queue.items \ {r} : items[j] = queue.items[k]
           /\ \A j, k \in DOMAIN items : items[j].msg = items[k].msg => j = k
           /\ \A k \in DOMAIN queue.items \ {r} : \E j \in DOMAIN items : items[j] = queue.items[k]
<1>1. PICK s \in Seq(QueueItem) : s = queue.items
    BY DEF TypeOK, QueueState
<1>2. r \in DOMAIN s /\ items = Without(s, r)
    BY <1>1
<1>3. /\ Without(s, r) \in Seq(QueueItem) /\ Len(Without(s, r)) = Len(s) - 1
      /\ \A j \in DOMAIN Without(s, r) : Old(r, j) \in DOMAIN s /\ Old(r, j) # r /\ Without(s, r)[j] = s[Old(r, j)]
      /\ \A j, k \in DOMAIN Without(s, r) : Old(r, j) = Old(r, k) => j = k
      /\ \A k \in DOMAIN s \ {r} : \E j \in DOMAIN Without(s, r) : Without(s, r)[j] = s[k]
    BY <1>2, WithoutEffect, Zenon
<1>4. /\ items \in Seq(QueueItem) /\ Len(items) = Len(s) - 1
      /\ \A j \in DOMAIN items : Old(r, j) \in DOMAIN s \ {r} /\ items[j] = s[Old(r, j)]
      /\ \A j, k \in DOMAIN items : Old(r, j) = Old(r, k) => j = k
      /\ \A k \in DOMAIN s \ {r} : \E j \in DOMAIN items : items[j] = s[k]
    BY <1>2, <1>3
<1>5. Len(items) <= MaxItems
    BY <1>1, <1>4, CapacityPositive DEF TypeOK
<1>6. \A j \in DOMAIN items : items[j].msg \in queue.seen
    BY <1>1, <1>4 DEF TypeOK
<1>7. \A j, k \in DOMAIN items : items[j].msg = items[k].msg => j = k
    BY <1>1, <1>4 DEF TypeOK
<1>. QED BY <1>1, <1>4, <1>5, <1>6, <1>7

\* A message that is not being delivered is removed.
LEMMA RemoveStep ==
    ASSUME Inv, NEW h \in Hosts, NEW m \in Messages, Remove(h, m)
    PROVE  Inv'
<1>1. /\ TypeOK /\ queue \in QueueState /\ queue.items \in Seq(QueueItem) /\ queue.seen \in SUBSET Messages
      /\ Len(queue.items) \in Nat /\ Len(queue.items) <= MaxItems /\ MaxItems \in Nat
    BY CapacityPositive DEF Inv, TypeOK, QueueState
<1>2. PICK r \in DOMAIN queue.items :
        /\ ~Dispatching(r)
        /\ Save(h, [queue EXCEPT !.items = Without(@, r)], "end")
    BY DEF Remove
<1>. DEFINE items == Without(queue.items, r)
<1>3. MayChange(h) /\ UNCHANGED <<live, log, retained, lock, claim, sent>>
    BY DEF Remove
<1>4. cmd' = [cmd EXCEPT ![h].at = "flush", ![h].then = "end"]
    BY <1>2 DEF Save
<1>5. /\ items \in Seq(QueueItem) /\ Len(items) <= MaxItems
      /\ \A j \in DOMAIN items : items[j].msg \in queue.seen /\ \E k \in DOMAIN queue.items \ {r} : items[j] = queue.items[k]
      /\ \A j, k \in DOMAIN items : items[j].msg = items[k].msg => j = k
      /\ \A k \in DOMAIN queue.items \ {r} : \E j \in DOMAIN items : items[j] = queue.items[k]
    BY <1>1, QueueWithout
<1>. HIDE DEF items
<1>6. queue.seen \subseteq queue.seen
    OBVIOUS
<1>9. ASSUME NEW i \in DOMAIN items, NEW j \in DOMAIN items, items[i].state = "dispatching", items[j].state = "dispatching"
      PROVE  i = j
    <2>1. PICK a \in DOMAIN queue.items : items[i] = queue.items[a]
        BY <1>5
    <2>2. PICK b \in DOMAIN queue.items : items[j] = queue.items[b]
        BY <1>5
    <2>3. a = b
        BY <1>9, <2>1, <2>2 DEF Inv, VersionsOK, Dispatching
    <2>. QED BY <1>5, <2>1, <2>2, <2>3
<1>10. \A k \in Messages : Spent(k) => \A i \in DOMAIN items : items[i].msg = k => items[i].state # "queued"
    BY <1>5 DEF Spent
<1>11. \A j \in DOMAIN queue.items : Dispatching(j) => \E i \in DOMAIN items : items[i] = queue.items[j]
    BY <1>2, <1>5
<1>12. /\ queue' \in QueueState /\ queue'.gen = queue.gen /\ queue'.ver = queue.ver + 1 /\ queue'.outbox = "prepared"
       /\ queue'.items = items /\ queue'.seen = queue.seen /\ queue'.stopped = queue.stopped /\ queue'.receipt = queue.receipt
    <2>. DEFINE next == queue.ver + 1
    <2>1. next \in 0 .. MaxVersion + 2
        BY <1>3, MayChangeFacts
    <2>2. queue' = [[queue EXCEPT !.items = items] EXCEPT !.ver = next, !.outbox = "prepared"]
        BY <1>1, <1>2 DEF Save, QueueState, items
    <2>. HIDE DEF next
    <2>3. /\ queue' \in QueueState /\ queue'.gen = queue.gen /\ queue'.ver = next /\ queue'.outbox = "prepared"
          /\ queue'.items = items /\ queue'.seen = queue.seen /\ queue'.stopped = queue.stopped
          /\ queue'.receipt = queue.receipt
        BY ONLY <1>1, <1>5, <2>1, <2>2 DEF QueueState
    <2>. QED BY <2>3 DEF next
<1>13. \A k \in Messages : Spent(k) => SpentNext(k)
    BY <1>10, <1>12 DEF Spent, SpentNext
<1>. QED BY <1>3, <1>4, <1>5, <1>6, <1>9, <1>10, <1>11, <1>12, <1>13, ChangeStep

\* Queued messages are put in another order.
LEMMA ReorderStep ==
    ASSUME Inv, NEW h \in Hosts, Reorder(h)
    PROVE  Inv'
<1>1. /\ TypeOK /\ queue \in QueueState /\ queue.items \in Seq(QueueItem) /\ queue.seen \in SUBSET Messages
      /\ Len(queue.items) \in Nat /\ Len(queue.items) <= MaxItems /\ DOMAIN queue.items = 1 .. Len(queue.items)
    BY DEF Inv, TypeOK, QueueState
<1>2. PICK p \in Bijection(DOMAIN queue.items, DOMAIN queue.items) :
        Save(h, [queue EXCEPT !.items = [i \in DOMAIN queue.items |-> queue.items[p[i]]]], "end")
    BY DEF Reorder
<1>. DEFINE items == [i \in DOMAIN queue.items |-> queue.items[p[i]]]
<1>3. MayChange(h) /\ AllQueued /\ UNCHANGED <<live, log, retained, lock, claim, sent>>
    BY DEF Reorder
<1>4. cmd' = [cmd EXCEPT ![h].at = "flush", ![h].then = "end"]
    BY <1>2 DEF Save
<1>5. p \in [DOMAIN queue.items -> DOMAIN queue.items] /\ \A i, j \in DOMAIN queue.items : p[i] = p[j] => i = j
    BY DEF Bijection, Injection, IsInjective
<1>6. items \in Seq(QueueItem) /\ Len(items) = Len(queue.items) /\ DOMAIN items = DOMAIN queue.items
    BY <1>1, <1>5
<1>7. \A i \in DOMAIN items : items[i] = queue.items[p[i]] /\ p[i] \in DOMAIN queue.items
    BY <1>5
<1>. HIDE DEF items
<1>8. Len(items) <= MaxItems /\ queue.seen \subseteq queue.seen
    BY <1>1, <1>6
<1>9. \A i \in DOMAIN items : items[i].msg \in queue.seen
    BY <1>1, <1>7 DEF TypeOK
<1>10. ASSUME NEW i \in DOMAIN items, NEW j \in DOMAIN items, items[i].msg = items[j].msg
       PROVE  i = j
    <2>1. queue.items[p[i]].msg = queue.items[p[j]].msg /\ p[i] \in DOMAIN queue.items /\ p[j] \in DOMAIN queue.items
        BY <1>7, <1>10
    <2>2. p[i] = p[j]
        BY <1>1, <2>1 DEF TypeOK
    <2>. QED BY <1>5, <1>6, <2>2
<1>11. \A i, j \in DOMAIN items : items[i].state = "dispatching" /\ items[j].state = "dispatching" => i = j
    BY <1>3, <1>7 DEF AllQueued
<1>12. \A k \in Messages : Spent(k) => \A i \in DOMAIN items : items[i].msg = k => items[i].state # "queued"
    BY <1>7 DEF Spent
<1>13. \A j \in DOMAIN queue.items : Dispatching(j) => \E i \in DOMAIN items : items[i] = queue.items[j]
    BY <1>3 DEF AllQueued, Dispatching
<1>14. /\ queue' \in QueueState /\ queue'.gen = queue.gen /\ queue'.ver = queue.ver + 1 /\ queue'.outbox = "prepared"
       /\ queue'.items = items /\ queue'.seen = queue.seen /\ queue'.stopped = queue.stopped /\ queue'.receipt = queue.receipt
    <2>. DEFINE next == queue.ver + 1
    <2>1. next \in 0 .. MaxVersion + 2
        BY <1>3, MayChangeFacts
    <2>2. queue' = [[queue EXCEPT !.items = items] EXCEPT !.ver = next, !.outbox = "prepared"]
        BY <1>1, <1>2 DEF Save, QueueState, items
    <2>. HIDE DEF next
    <2>3. /\ queue' \in QueueState /\ queue'.gen = queue.gen /\ queue'.ver = next /\ queue'.outbox = "prepared"
          /\ queue'.items = items /\ queue'.seen = queue.seen /\ queue'.stopped = queue.stopped
          /\ queue'.receipt = queue.receipt
        BY ONLY <1>1, <1>6, <2>1, <2>2 DEF QueueState
    <2>. QED BY <2>3 DEF next
<1>15. \A k \in Messages : Spent(k) => SpentNext(k)
    BY <1>12, <1>14 DEF Spent, SpentNext
<1>. QED BY <1>3, <1>4, <1>8, <1>9, <1>10, <1>11, <1>12, <1>13, <1>14, <1>15, ChangeStep

\* A newer generation starts with an empty queue; nothing of it was claimed or sent.
LEMMA ReplaceStep ==
    ASSUME Inv, NEW h \in Hosts, Replace(h)
    PROVE  Inv'
<1>1. /\ TypeOK /\ LocksOK /\ cmd[h] \in Command /\ cmd[h].live \in Session /\ queue \in QueueState
      /\ UNCHANGED <<live, log, retained, lock, claim, sent, cmd>>
    BY DEF Inv, TypeOK, Command, Replace
<1>. DEFINE g == cmd[h].live.gen
<1>2. queue.gen \in 1 .. MaxGeneration /\ g \in 0 .. MaxGeneration /\ queue.gen < g /\ g <= live.gen /\ live.gen \in Int
    BY <1>1 DEF Replace, QueueState, Session, Inv, GenerationsOK, TypeOK
<1>3. g \in 1 .. MaxGeneration
    BY <1>2
<1>4. queue' = Empty(g)
    BY DEF Replace
<1>. HIDE DEF g
<1>5. /\ queue' \in QueueState /\ queue'.gen = g /\ queue'.ver = 0 /\ queue'.items = <<>> /\ queue'.seen = {}
      /\ queue'.receipt.status = "none" /\ queue'.outbox = "none" /\ queue'.stopped = FALSE
    BY <1>3, <1>4, BoundsPositive DEF Empty, QueueState, Receipt
<1>6. cmd[h].at = "act" /\ Locked(cmd[h]) /\ cmd[h].msg = None
    BY DEF Replace, At, Locked, Inv, ShapesOK, Shape, Before
<1>7. \A k \in Hosts \ {h} : ~Locked(cmd[k])
    BY <1>1, <1>6, Alone
<1>8. ~Before(cmd[h], "final") /\ ~Before(cmd[h], "stop") /\ \A k \in Hosts \ {h} : ~Before(cmd[k], "final") /\ ~Before(cmd[k], "stop")
    BY <1>6, <1>7 DEF Before, Flushing, Locked
<1>9. TypeOK'
    BY <1>1, <1>5, CapacityPositive DEF TypeOK
<1>10. ShapesOK' /\ LocksOK'
    BY <1>1 DEF Inv, ShapesOK, LocksOK
<1>11. ASSUME NEW k \in Hosts, cmd[k].msg # None PROVE cmd[k].live.gen < g /\ cmd[k].live.gen <= g
    <2>1. cmd[k].live.gen \in Int /\ cmd[k].live.gen <= queue.gen
        <3>1. cmd[k].live \in Session
            BY <1>1 DEF TypeOK, Command
        <3>. QED BY <1>11, <3>1 DEF Session, Inv, GenerationsOK
    <2>. QED BY <1>2, <2>1
<1>12. GenerationsOK'
    <2>1. \A k \in Hosts : /\ cmd[k].live.gen <= live.gen
                           /\ cmd[k].at = "stopping" => cmd[k].live.gen < live.gen
                           /\ cmd[k].msg # None => cmd[k].live.gen <= g
                           /\ ~Before(cmd[k], "final") /\ ~Before(cmd[k], "stop")
        BY <1>8, <1>11 DEF Inv, GenerationsOK
    <2>. QED BY <1>1, <1>2, <1>5, <2>1 DEF GenerationsOK
<1>13. VersionsOK'
    BY <1>5, BoundsPositive DEF VersionsOK
<1>14. ASSUME NEW i \in DOMAIN sent PROVE sent[i].gen < g /\ sent[i].gen <= g
    <2>1. sent[i] \in Send
        BY <1>1 DEF TypeOK
    <2>2. sent[i].gen \in Int /\ sent[i].gen <= queue.gen
        BY <2>1 DEF Send, Inv, SendsOK
    <2>. QED BY <1>2, <2>2
<1>15. SendsOK'
    BY <1>1, <1>5, <1>14 DEF Inv, SendsOK, HandedOnce
<1>16. SpentOK'
    <2>1. \A i \in DOMAIN sent : sent[i].gen # g
        BY <1>2, <1>14
    <2>2. \A k \in Hosts : cmd[k].msg # None => cmd[k].live.gen # g
        BY <1>2, <1>11
    <2>. QED BY <1>1, <1>5, <2>1, <2>2 DEF SpentOK
<1>17. EventsOK'
    <2>1. queue.outbox = "none" /\ Shown
        BY <1>6 DEF Inv, EventsOK, OutboxOK
    <2>2. LastEvent' = LastEvent
        BY <1>1 DEF LastEvent, EventBefore
    <2>3. LastEvent[1] < g
        <3>1. LastEvent[1] \in Int
            BY <1>1, LastEventNumbers
        <3>2. CASE LastEvent = Stored
            BY <1>2, <3>2 DEF Stored
        <3>3. CASE LastEvent[1] < queue.gen
            BY <1>2, <3>1, <3>3
        <3>. QED BY <2>1, <3>2, <3>3 DEF Shown
    <2>4. \A k \in Hosts : cmd[k].at \notin {"publishing", "published"}
        BY <1>6, <1>7 DEF Locked, Flushing
    <2>5. OutboxOK'
        BY <1>1, <1>5, <2>2, <2>3, <2>4 DEF OutboxOK, Shown
    <2>6. (\A i \in DOMAIN log : Follows(log[i], EventBefore(i)))'
        BY <1>1 DEF Inv, EventsOK, EventBefore, Follows
    <2>. QED BY <2>5, <2>6 DEF EventsOK
<1>18. AcceptedTruthfully'
    BY <1>5 DEF AcceptedTruthfully
<1>. QED BY <1>9, <1>10, <1>12, <1>13, <1>15, <1>16, <1>17, <1>18 DEF Inv

\* The items of the queue with item r in another state.
Marked(r, state) == [queue.items EXCEPT ![r].state = state]

\* Changing the state of item r changes nothing else of the items.
LEMMA QueueMarked ==
    ASSUME TypeOK, NEW r \in DOMAIN queue.items, NEW state \in {"queued", "dispatching", "ambiguous"}
    PROVE  /\ Marked(r, state) \in Seq(QueueItem) /\ Len(Marked(r, state)) <= MaxItems
           /\ DOMAIN Marked(r, state) = DOMAIN queue.items
           /\ \A j \in DOMAIN queue.items : Marked(r, state)[j].msg = queue.items[j].msg
           /\ Marked(r, state)[r] = Item(queue.items[r].msg, state)
           /\ \A j \in DOMAIN queue.items \ {r} : Marked(r, state)[j] = queue.items[j]
<1>. DEFINE items == Marked(r, state)
            new == [queue.items[r] EXCEPT !.state = state]
<1>1. queue.items \in Seq(QueueItem) /\ queue.items[r] \in QueueItem
    BY DEF TypeOK, QueueState
<1>2. new \in QueueItem /\ new.msg = queue.items[r].msg /\ new = Item(queue.items[r].msg, state)
    BY <1>1 DEF QueueItem, Item
<1>3. items = [queue.items EXCEPT ![r] = new]
    BY DEF Marked
<1>. HIDE DEF items, new
<1>4. /\ items \in Seq(QueueItem) /\ Len(items) = Len(queue.items) /\ DOMAIN items = DOMAIN queue.items
      /\ items[r] = new /\ \A j \in DOMAIN items \ {r} : items[j] = queue.items[j]
    BY <1>1, <1>2, <1>3
<1>5. \A j \in DOMAIN items : items[j].msg = queue.items[j].msg
    BY <1>2, <1>4
<1>6. /\ items \in Seq(QueueItem) /\ Len(items) <= MaxItems /\ DOMAIN items = DOMAIN queue.items
      /\ \A j \in DOMAIN queue.items : items[j].msg = queue.items[j].msg
      /\ items[r] = Item(queue.items[r].msg, state) /\ \A j \in DOMAIN queue.items \ {r} : items[j] = queue.items[j]
    BY <1>2, <1>4, <1>5 DEF TypeOK
<1>. QED BY <1>6 DEF items

\* Marking the claim ambiguous leaves no claim, and nothing spent becomes queued.
LEMMA MarkedSpent ==
    ASSUME Inv, NEW r \in DOMAIN queue.items, Dispatching(r), queue.seen = queue'.seen,
           DOMAIN queue'.items = DOMAIN queue.items, queue'.items[r] = Item(queue.items[r].msg, "ambiguous"),
           \A j \in DOMAIN queue'.items \ {r} : queue'.items[j] = queue.items[j]
    PROVE  /\ \A m \in Messages : Spent(m) => SpentNext(m)
           /\ \A j \in DOMAIN queue'.items : queue'.items[j].state # "dispatching"
<1>1. queue'.items[r].state = "ambiguous" /\ queue'.items[r].msg = queue.items[r].msg
    BY DEF Item
<1>2. \A j \in DOMAIN queue'.items : queue'.items[j].state # "dispatching"
    BY <1>1 DEF Inv, VersionsOK, Dispatching
<1>3. Drawn
    BY <1>1 DEF Drawn
<1>. QED BY <1>2, <1>3, DrawnSpent

\* A claim that nobody holds is taken for ambiguous: it may have been sent.
LEMMA RecoverStep ==
    ASSUME Inv, NEW h \in Hosts, Recover(h)
    PROVE  Inv'
<1>1. TypeOK /\ LocksOK /\ queue \in QueueState /\ cmd[h] \in Command /\ cmd \in [Hosts -> Command]
    BY DEF Inv, TypeOK
<1>2. PICK r \in DOMAIN queue.items :
        /\ Dispatching(r)
        /\ queue' = [queue EXCEPT !.items[r].state = Abandoned, !.ver = @ + 1, !.outbox = "prepared",
                                  !.receipt = [msg |-> queue.items[r].msg, status |-> "ambiguous"]]
    BY DEF Recover
<1>3. /\ cmd[h].at = "act" /\ Claimable /\ claim' = "free" /\ UNCHANGED <<live, log, retained, lock, sent>>
      /\ cmd' = [cmd EXCEPT ![h].at = "flush", ![h].then = "act", ![h].fresh = FALSE]
    BY DEF Recover, Current, At
<1>4. \A k \in Hosts : cmd[k].msg = None
    BY <1>1, <1>3, AloneInDelivery
<1>5. cmd' \in [Hosts -> Command] /\ To(h, "flush", "act")
    <2>. DEFINE new == [cmd[h] EXCEPT !.at = "flush", !.then = "act", !.fresh = FALSE]
    <2>1. new \in Command /\ new.at = "flush" /\ new.then = "act" /\ new.live = cmd[h].live
          /\ new.msg = cmd[h].msg /\ new.send = cmd[h].send /\ new.accepted = cmd[h].accepted
        BY <1>1 DEF Command
    <2>2. cmd' = [cmd EXCEPT ![h] = new]
        BY <1>3
    <2>. HIDE DEF new
    <2>. QED BY <1>1, <2>1, <2>2 DEF To, Kept, Others
<1>. DEFINE items == Marked(r, "ambiguous")
            next == queue.ver + 1
            receipt == [msg |-> queue.items[r].msg, status |-> "ambiguous"]
<1>6. /\ items \in Seq(QueueItem) /\ Len(items) <= MaxItems /\ DOMAIN items = DOMAIN queue.items
      /\ \A j \in DOMAIN items : items[j].msg = queue.items[j].msg /\ items[j].msg \in queue.seen
      /\ \A j, k \in DOMAIN items : items[j].msg = items[k].msg => j = k
      /\ items[r] = Item(queue.items[r].msg, "ambiguous") /\ \A j \in DOMAIN items \ {r} : items[j] = queue.items[j]
    <2>1. /\ Marked(r, "ambiguous") \in Seq(QueueItem) /\ Len(Marked(r, "ambiguous")) <= MaxItems
          /\ DOMAIN Marked(r, "ambiguous") = DOMAIN queue.items
          /\ \A j \in DOMAIN queue.items : Marked(r, "ambiguous")[j].msg = queue.items[j].msg
          /\ Marked(r, "ambiguous")[r] = Item(queue.items[r].msg, "ambiguous")
          /\ \A j \in DOMAIN queue.items \ {r} : Marked(r, "ambiguous")[j] = queue.items[j]
        <3>1. TypeOK /\ "ambiguous" \in {"queued", "dispatching", "ambiguous"}
            BY <1>1
        <3>. QED BY <3>1, QueueMarked, Zenon
    <2>. QED BY <1>1, <2>1 DEF TypeOK
<1>7. queue.ver \in Nat /\ queue.ver <= MaxVersion /\ MaxVersion \in Nat /\ next \in 0 .. MaxVersion + 2 /\ next <= MaxVersion + 1
    <2>1. queue.ver \in Nat /\ MaxVersion \in Nat
        BY <1>1, BoundsPositive DEF QueueState
    <2>2. queue.ver <= MaxVersion
        BY <1>2 DEF Inv, VersionsOK
    <2>. QED BY <2>1, <2>2
<1>8. receipt \in Receipt /\ receipt.status # "accepted"
    <2>1. queue.items[r] \in QueueItem
        BY <1>1 DEF QueueState
    <2>2. queue.items[r].msg \in Messages
        BY <2>1 DEF QueueItem
    <2>. QED BY <2>2 DEF Receipt
<1>9. queue' = [queue EXCEPT !.items = items, !.ver = next, !.outbox = "prepared", !.receipt = receipt]
    BY <1>1, <1>2 DEF Abandoned, QueueState, Marked
<1>10. ~queue.stopped
    BY <1>2 DEF Inv, GenerationsOK
<1>. HIDE DEF items, next, receipt
<1>11. /\ queue' \in QueueState /\ queue'.gen = queue.gen /\ queue'.ver = next /\ queue'.outbox = "prepared"
       /\ queue'.items = items /\ queue'.seen = queue.seen /\ queue'.stopped = queue.stopped /\ queue'.receipt = receipt
    BY ONLY <1>1, <1>6, <1>7, <1>8, <1>9 DEF QueueState
<1>12. /\ \A m \in Messages : Spent(m) => SpentNext(m)
       /\ \A j \in DOMAIN queue'.items : queue'.items[j].state # "dispatching"
    BY <1>2, <1>6, <1>11, MarkedSpent
<1>13. VersionsOK'
    BY <1>7, <1>11, <1>12 DEF VersionsOK, Dispatching
<1>14. ClaimsSurvive(h) /\ AcceptedTruthfully'
    BY <1>4, <1>8, <1>11 DEF ClaimsSurvive, AcceptedTruthfully
<1>15. LocksMove(h)
    <2>1. lock = h /\ cmd'[h].msg = None /\ claim \notin Hosts
        BY <1>1, <1>3, <1>4, <1>5, HostsAreNoStates DEF LocksOK, Locked, To, Kept, Claimable
    <2>. QED BY <1>3, <2>1 DEF LocksMove
<1>16. queue'.ver = queue.ver + 1
    BY <1>11 DEF next
<1>. QED BY <1>1, <1>3, <1>4, <1>5, <1>6, <1>10, <1>11, <1>12, <1>13, <1>14, <1>15, <1>16, SavedStep

\* The claim of a delivery is settled: no claim remains, and nothing becomes queued.
LEMMA ClosedStep ==
    ASSUME Inv, NEW h \in Hosts, cmd[h].at = "final", NEW r \in DOMAIN queue.items, Dispatching(r),
           queue' \in QueueState, queue'.gen = queue.gen, queue'.ver = queue.ver + 1, queue'.outbox = "prepared",
           queue'.seen = queue.seen, queue'.stopped = queue.stopped,
           Len(queue'.items) <= MaxItems,
           \A i \in DOMAIN queue'.items : queue'.items[i].msg \in queue'.seen,
           \A i, j \in DOMAIN queue'.items : queue'.items[i].msg = queue'.items[j].msg => i = j,
           \A i \in DOMAIN queue'.items : queue'.items[i].state # "dispatching",
           \A m \in Messages : Spent(m) => SpentNext(m), AcceptedTruthfully',
           cmd' = [cmd EXCEPT ![h].at = "flush", ![h].then = "end"], UNCHANGED <<live, log, retained, lock, claim, sent>>
    PROVE  Inv'
<1>1. TypeOK /\ LocksOK
    BY DEF Inv
<1>2. cmd' \in [Hosts -> Command] /\ To(h, "flush", "end")
    BY <1>1, FlushEffect
<1>3. cmd[h].msg # None /\ lock = h /\ claim = h
    BY <1>1 DEF Inv, ShapesOK, Shape, Before, LocksOK, Locked
<1>4. \A k \in Hosts \ {h} : cmd[k].msg = None
    BY <1>1, <1>3, AloneInDelivery
<1>5. queue.ver \in Nat /\ MaxVersion \in Nat /\ queue.ver <= MaxVersion /\ ~queue.stopped
    <2>1. queue.ver \in Nat /\ MaxVersion \in Nat
        BY <1>1, BoundsPositive DEF TypeOK, QueueState
    <2>. QED BY <2>1 DEF Inv, VersionsOK, GenerationsOK, Before
<1>6. VersionsOK'
    BY <1>5 DEF VersionsOK, Dispatching
<1>7. ClaimsSurvive(h) /\ LocksMove(h)
    BY <1>3, <1>4 DEF ClaimsSurvive, LocksMove
<1>. QED BY <1>1, <1>2, <1>5, <1>6, <1>7, SavedStep DEF TypeOK

\* The delivery ends with a receipt: accepted and gone, or ambiguous and kept.
LEMMA FinalStep ==
    ASSUME Inv, NEW h \in Hosts, Final(h)
    PROVE  Inv'
<1>1. TypeOK /\ LocksOK /\ queue \in QueueState /\ cmd[h] \in Command /\ cmd[h].at = "final"
      /\ UNCHANGED <<live, log, retained, sent>>
    BY DEF Inv, TypeOK, Final, At
<1>. DEFINE settled(i) == IF cmd[h].accepted THEN Without(queue.items, i) ELSE Marked(i, "ambiguous")
            receipt == [msg |-> cmd[h].msg, status |-> IF cmd[h].accepted THEN "accepted" ELSE "ambiguous"]
<1>2. CASE Leave(h) /\ UNCHANGED queue
    <2>1. cmd'[h].at \notin {"act", "final", "stop", "publishing", "published"} /\ Others(h)
        BY <1>1, <1>2, LeaveEffect, IdleIsCommand DEF To, Kept, Ended, Reset
    <2>2. EventsOK'
        BY <1>1, <1>2, <2>1, EventsKept DEF Inv
    <2>. QED BY <1>1, <1>2, <2>2, LeaveStep DEF SameQueue
<1>3. ASSUME NEW r \in DOMAIN queue.items, queue.items[r] = Item(cmd[h].msg, "dispatching"),
             Save(h, [queue EXCEPT !.items = settled(r), !.receipt = receipt], "end"), UNCHANGED <<lock, claim>>
      PROVE  Inv'
    <2>. DEFINE items == settled(r)
                next == queue.ver + 1
    <2>1. Dispatching(r) /\ queue.items[r].msg = cmd[h].msg
        BY <1>3 DEF Dispatching, Item
    <2>2. next \in 0 .. MaxVersion + 2 /\ queue.seen \in SUBSET Messages
        <3>1. queue.ver \in Nat /\ MaxVersion \in Nat
            BY <1>1, BoundsPositive DEF QueueState
        <3>2. queue.ver <= MaxVersion
            BY <2>1 DEF Inv, VersionsOK
        <3>. QED BY <1>1, <3>1, <3>2 DEF QueueState
    <2>3. receipt \in Receipt
        BY <1>1 DEF Command, Receipt
    <2>4. queue' = [[queue EXCEPT !.items = items, !.receipt = receipt] EXCEPT !.ver = next, !.outbox = "prepared"]
        BY <1>1, <1>3 DEF Save, QueueState
    <2>5. cmd' = [cmd EXCEPT ![h].at = "flush", ![h].then = "end"]
        BY <1>3 DEF Save
    <2>6. CASE cmd[h].accepted
        <3>1. items = Without(queue.items, r)
            BY <2>6
        <3>2. receipt.status = "accepted" => \E i \in DOMAIN sent : /\ sent[i].gen = queue.gen /\ sent[i].msg = receipt.msg
                                                                   /\ sent[i].outcome = "ok"
            <4>1. cmd[h].send # 0 /\ sent[cmd[h].send].outcome = "ok"
                BY <2>6 DEF Inv, SendsOK
            <4>2. cmd[h].send \in DOMAIN sent /\ sent[cmd[h].send].gen = cmd[h].live.gen /\ sent[cmd[h].send].msg = cmd[h].msg
                BY <4>1 DEF Inv, SendsOK
            <4>3. queue.gen = cmd[h].live.gen
                BY <1>1 DEF Inv, GenerationsOK, Before
            <4>. QED BY <4>1, <4>2, <4>3
        <3>. HIDE DEF items, receipt, next
        <3>3. /\ items \in Seq(QueueItem) /\ Len(items) <= MaxItems
              /\ \A j \in DOMAIN items : items[j].msg \in queue.seen /\ \E k \in DOMAIN queue.items \ {r} : items[j] = queue.items[k]
              /\ \A j, k \in DOMAIN items : items[j].msg = items[k].msg => j = k
            <4>. DEFINE others == Without(queue.items, r)
            <4>1. /\ others \in Seq(QueueItem) /\ Len(others) <= MaxItems
                  /\ \A j \in DOMAIN others : /\ others[j].msg \in queue.seen
                                              /\ \E k \in DOMAIN queue.items \ {r} : others[j] = queue.items[k]
                  /\ \A j, k \in DOMAIN others : others[j].msg = others[k].msg => j = k
                BY <1>1, QueueWithout
            <4>. HIDE DEF others
            <4>2. items = others
                BY <3>1 DEF others
            <4>. QED BY <4>1, <4>2
        <3>4. /\ queue' \in QueueState /\ queue'.gen = queue.gen /\ queue'.ver = next /\ queue'.outbox = "prepared"
              /\ queue'.items = items /\ queue'.seen = queue.seen /\ queue'.stopped = queue.stopped
              /\ queue'.receipt = receipt
            BY ONLY <1>1, <2>2, <2>3, <2>4, <3>3 DEF QueueState
        <3>5. \A j \in DOMAIN items : items[j].state # "dispatching"
            BY <2>1, <3>3 DEF Inv, VersionsOK, Dispatching
        <3>6. Drawn
            BY <3>3, <3>4 DEF Drawn
        <3>7. \A m \in Messages : Spent(m) => SpentNext(m)
            BY <2>2, <3>4, <3>6, DrawnSpent
        <3>8. AcceptedTruthfully'
            BY <1>1, <3>2, <3>4 DEF AcceptedTruthfully
        <3>9. queue'.ver = queue.ver + 1
            BY <3>4 DEF next
        <3>. QED BY <1>1, <1>3, <2>1, <2>5, <3>3, <3>4, <3>5, <3>7, <3>8, <3>9, ClosedStep
    <2>7. CASE ~cmd[h].accepted
        <3>1. items = Marked(r, "ambiguous")
            BY <2>7
        <3>2. receipt.status # "accepted"
            BY <2>7
        <3>3. /\ Marked(r, "ambiguous") \in Seq(QueueItem) /\ Len(Marked(r, "ambiguous")) <= MaxItems
              /\ DOMAIN Marked(r, "ambiguous") = DOMAIN queue.items
              /\ \A j \in DOMAIN queue.items : Marked(r, "ambiguous")[j].msg = queue.items[j].msg
              /\ Marked(r, "ambiguous")[r] = Item(queue.items[r].msg, "ambiguous")
              /\ \A j \in DOMAIN queue.items \ {r} : Marked(r, "ambiguous")[j] = queue.items[j]
            <4>1. TypeOK /\ "ambiguous" \in {"queued", "dispatching", "ambiguous"}
                BY <1>1
            <4>. QED BY <4>1, QueueMarked, Zenon
        <3>. HIDE DEF items, receipt, next
        <3>4. /\ queue' \in QueueState /\ queue'.gen = queue.gen /\ queue'.ver = next /\ queue'.outbox = "prepared"
              /\ queue'.items = items /\ queue'.seen = queue.seen /\ queue'.stopped = queue.stopped
              /\ queue'.receipt = receipt
            BY ONLY <1>1, <2>2, <2>3, <2>4, <3>1, <3>3 DEF QueueState
        <3>5. /\ \A m \in Messages : Spent(m) => SpentNext(m)
              /\ \A j \in DOMAIN queue'.items : queue'.items[j].state # "dispatching"
            BY <2>1, <3>1, <3>3, <3>4, MarkedSpent
        <3>6. /\ \A j \in DOMAIN items : items[j].msg \in queue.seen
              /\ \A j, k \in DOMAIN items : items[j].msg = items[k].msg => j = k
            BY <1>1, <3>1, <3>3 DEF TypeOK
        <3>7. AcceptedTruthfully'
            BY <3>2, <3>4 DEF AcceptedTruthfully
        <3>8. queue'.ver = queue.ver + 1
            BY <3>4 DEF next
        <3>9. UNCHANGED <<lock, claim>> /\ Len(queue'.items) <= MaxItems
            BY <1>3, <3>1, <3>3, <3>4
        <3>. QED BY <1>1, <2>1, <2>5, <3>4, <3>5, <3>6, <3>7, <3>8, <3>9, ClosedStep
    <2>. QED BY <2>6, <2>7
<1>. QED BY <1>2, <1>3 DEF Final, Marked

\* Stop discards the items; a claim among them is told of as ambiguous.
LEMMA StopApplyStep ==
    ASSUME Inv, NEW h \in Hosts, StopApply(h)
    PROVE  Inv'
<1>1. TypeOK /\ LocksOK /\ queue \in QueueState /\ cmd[h] \in Command /\ cmd[h].at = "stop"
      /\ UNCHANGED <<live, log, retained, lock, claim, sent>>
    BY DEF Inv, TypeOK, StopApply, At
<1>2. \E receipt \in Receipt :
        /\ receipt = queue.receipt \/ receipt.status = "ambiguous"
        /\ Save(h, [queue EXCEPT !.items = <<>>, !.stopped = TRUE, !.receipt = receipt], "end")
    <2>1. CASE Save(h, [queue EXCEPT !.items = <<>>, !.stopped = TRUE, !.receipt = queue.receipt], "end")
        <3>1. queue.receipt \in Receipt
            BY <1>1 DEF QueueState
        <3>. QED BY <2>1, <3>1
    <2>2. ASSUME NEW i \in DOMAIN queue.items,
                 Save(h, [queue EXCEPT !.items = <<>>, !.stopped = TRUE,
                                       !.receipt = [msg |-> queue.items[i].msg, status |-> "ambiguous"]], "end")
          PROVE  \E receipt \in Receipt :
                    /\ receipt = queue.receipt \/ receipt.status = "ambiguous"
                    /\ Save(h, [queue EXCEPT !.items = <<>>, !.stopped = TRUE, !.receipt = receipt], "end")
        <3>. DEFINE told == [msg |-> queue.items[i].msg, status |-> "ambiguous"]
        <3>1. queue.items[i] \in QueueItem
            BY <1>1 DEF QueueState
        <3>2. told \in Receipt /\ told.status = "ambiguous"
            BY <3>1 DEF QueueItem, Receipt
        <3>. QED BY <2>2, <3>2
    <2>. QED BY <2>1, <2>2 DEF StopApply
<1>3. PICK receipt \in Receipt :
        /\ receipt = queue.receipt \/ receipt.status = "ambiguous"
        /\ Save(h, [queue EXCEPT !.items = <<>>, !.stopped = TRUE, !.receipt = receipt], "end")
    BY <1>2
<1>. DEFINE next == queue.ver + 1
<1>4. Before(cmd[h], "stop") /\ cmd[h].msg = None /\ Locked(cmd[h])
    BY <1>1 DEF Before, Inv, ShapesOK, Shape, Locked
<1>5. queue.gen < live.gen /\ ~queue.stopped
    BY <1>4 DEF Inv, GenerationsOK
<1>6. next \in 0 .. MaxVersion + 2
    <2>1. queue.ver \in Nat /\ MaxVersion \in Nat
        BY <1>1, BoundsPositive DEF QueueState
    <2>2. queue.ver <= MaxVersion + 1
        BY <1>5 DEF Inv, VersionsOK
    <2>. QED BY <2>1, <2>2
<1>7. queue' = [[queue EXCEPT !.items = <<>>, !.stopped = TRUE, !.receipt = receipt] EXCEPT !.ver = next, !.outbox = "prepared"]
    BY <1>1, <1>3 DEF Save, QueueState
<1>8. cmd' = [cmd EXCEPT ![h].at = "flush", ![h].then = "end"]
    BY <1>3 DEF Save
<1>9. cmd' \in [Hosts -> Command] /\ To(h, "flush", "end")
    BY <1>1, <1>8, FlushEffect
<1>. HIDE DEF next
<1>10. /\ queue' \in QueueState /\ queue'.gen = queue.gen /\ queue'.ver = next /\ queue'.outbox = "prepared"
       /\ queue'.items = <<>> /\ queue'.seen = queue.seen /\ queue'.stopped = TRUE
       /\ queue'.receipt = receipt
    <2>1. receipt \in Receipt /\ <<>> \in Seq(QueueItem) /\ TRUE \in BOOLEAN
        OBVIOUS
    <2>. DEFINE none == <<>>
                yes == TRUE
    <2>. HIDE DEF none, yes
    <2>2. none \in Seq(QueueItem) /\ yes \in BOOLEAN
        BY <2>1 DEF none, yes
    <2>3. queue' = [[queue EXCEPT !.items = none, !.stopped = yes, !.receipt = receipt] EXCEPT !.ver = next, !.outbox = "prepared"]
        BY <1>7 DEF none, yes
    <2>4. /\ queue' \in QueueState /\ queue'.gen = queue.gen /\ queue'.ver = next /\ queue'.outbox = "prepared"
          /\ queue'.items = none /\ queue'.seen = queue.seen /\ queue'.stopped = yes
          /\ queue'.receipt = receipt
        BY ONLY <1>1, <1>6, <2>1, <2>2, <2>3 DEF QueueState
    <2>. QED BY <2>4 DEF none, yes
<1>11. queue'.ver = queue.ver + 1
    BY <1>10 DEF next
<1>12. DOMAIN queue'.items = {} /\ Len(queue'.items) <= MaxItems
    BY <1>10, CapacityPositive
<1>13. VersionsOK'
    BY <1>10, <1>12 DEF VersionsOK
<1>14. \A m \in Messages : Spent(m) => SpentNext(m)
    BY <1>10, <1>12 DEF Spent, SpentNext
<1>15. AcceptedTruthfully'
    BY <1>1, <1>3, <1>10 DEF Inv, AcceptedTruthfully
<1>16. ClaimsSurvive(h) /\ LocksMove(h)
    BY <1>1, <1>4, <1>9, <1>10 DEF ClaimsSurvive, LocksMove, LocksOK, To, Kept
<1>. QED BY <1>1, <1>5, <1>9, <1>10, <1>11, <1>12, <1>13, <1>14, <1>15, <1>16, SavedStep DEF TypeOK

\* The head is claimed.  It was queued, so it was never sent in this generation.
LEMMA StartDeliveryStep ==
    ASSUME Inv, NEW h \in Hosts, StartDelivery(h)
    PROVE  Inv'
<1>. DEFINE m == queue.items[1].msg
            items == Marked(1, "dispatching")
            next == queue.ver + 1
            used == Boundary(cmd[h].live)
<1>1. /\ TypeOK /\ LocksOK /\ queue \in QueueState /\ cmd[h] \in Command /\ cmd \in [Hosts -> Command]
      /\ live \in Session /\ cmd[h].live \in Session /\ queue.items \in Seq(QueueItem) /\ queue.seen \in SUBSET Messages
    BY DEF Inv, TypeOK, QueueState, Command
<1>2. MayChange(h) /\ AllQueued /\ queue.items # <<>> /\ Claimable /\ claim' = h
      /\ UNCHANGED <<live, log, retained, lock, sent>>
      /\ cmd' = [cmd EXCEPT ![h].at = "flush", ![h].then = "handoff", ![h].msg = m]
    BY DEF StartDelivery, TakeClaim
<1>3. /\ cmd[h].at = "act" /\ cmd[h].msg = None /\ ~queue.stopped
      /\ queue.ver \in Nat /\ next <= MaxVersion /\ MaxVersion \in Nat
      /\ queue.gen = cmd[h].live.gen
    BY <1>2, MayChangeFacts
<1>4. 1 \in DOMAIN queue.items /\ queue.items[1].state = "queued" /\ m \in Messages /\ m # None /\ m \in queue.seen
    <2>1. 1 \in DOMAIN queue.items
        BY <1>1, <1>2
    <2>2. queue.items[1] \in QueueItem
        BY <1>1, <2>1
    <2>. QED BY <1>1, <1>2, <2>1, <2>2, NoneIsNoHost DEF AllQueued, QueueItem, TypeOK
<1>5. \A k \in Hosts : cmd[k].msg = None /\ cmd[k].send = 0 /\ ~cmd[k].accepted
    BY <1>1, <1>2, AloneInDelivery DEF Inv, ShapesOK, Shape
<1>. HIDE DEF m
<1>6. /\ cmd' \in [Hosts -> Command] /\ Others(h)
      /\ cmd'[h].at = "flush" /\ cmd'[h].then = "handoff" /\ cmd'[h].live = cmd[h].live /\ cmd'[h].msg = m
      /\ cmd'[h].send = 0 /\ ~cmd'[h].accepted
    <2>. DEFINE new == [cmd[h] EXCEPT !.at = "flush", !.then = "handoff", !.msg = m]
    <2>1. new \in Command /\ new.at = "flush" /\ new.then = "handoff" /\ new.live = cmd[h].live
          /\ new.msg = m /\ new.send = cmd[h].send /\ new.accepted = cmd[h].accepted
        BY <1>1, <1>4 DEF Command
    <2>2. cmd' = [cmd EXCEPT ![h] = new]
        BY <1>2
    <2>. HIDE DEF new
    <2>. QED BY <1>1, <1>5, <2>1, <2>2 DEF Others
<1>7. /\ items \in Seq(QueueItem) /\ Len(items) <= MaxItems /\ DOMAIN items = DOMAIN queue.items
      /\ \A j \in DOMAIN queue.items : items[j].msg = queue.items[j].msg
      /\ items[1] = Item(m, "dispatching")
      /\ \A j \in DOMAIN queue.items \ {1} : items[j] = queue.items[j]
    <2>1. TypeOK /\ 1 \in DOMAIN queue.items /\ "dispatching" \in {"queued", "dispatching", "ambiguous"}
        BY <1>1, <1>4
    <2>2. /\ items \in Seq(QueueItem) /\ Len(items) <= MaxItems /\ DOMAIN items = DOMAIN queue.items
          /\ \A j \in DOMAIN queue.items : items[j].msg = queue.items[j].msg
          /\ items[1] = Item(queue.items[1].msg, "dispatching")
          /\ \A j \in DOMAIN queue.items \ {1} : items[j] = queue.items[j]
        BY <2>1, QueueMarked, Zenon
    <2>. QED BY <2>2 DEF m
<1>8. used \in (0 .. MaxGeneration) \X (0 .. MaxRunVersion) /\ next \in 0 .. MaxVersion + 2
    BY <1>1, <1>3 DEF Boundary, Session
<1>9. queue' = [queue EXCEPT !.items = items, !.used = used, !.ver = next, !.outbox = "prepared"]
    BY <1>1 DEF StartDelivery, QueueState, Marked
<1>. HIDE DEF items, next, used
<1>10. /\ queue' \in QueueState /\ queue'.gen = queue.gen /\ queue'.ver = next /\ queue'.outbox = "prepared"
       /\ queue'.items = items /\ queue'.seen = queue.seen /\ queue'.stopped = queue.stopped
       /\ queue'.receipt = queue.receipt
    BY ONLY <1>1, <1>7, <1>8, <1>9 DEF QueueState
<1>11. /\ \A j \in DOMAIN items : items[j].msg \in queue.seen
       /\ \A j, k \in DOMAIN items : items[j].msg = items[k].msg => j = k
    BY <1>1, <1>7 DEF TypeOK
<1>12. /\ items[1].msg = m /\ items[1].state = "dispatching"
       /\ \A j \in DOMAIN items \ {1} : items[j].state = "queued" /\ items[j].msg # m
    BY <1>2, <1>4, <1>7, <1>11 DEF Item, AllQueued
<1>13. TypeOK'
    BY <1>1, <1>2, <1>6, <1>7, <1>10, <1>11 DEF TypeOK
<1>14. ShapesOK'
    <2>1. Shape(cmd'[h])
        BY <1>4, <1>6 DEF Shape, Before, Flushing
    <2>. QED BY <1>6, <2>1 DEF Inv, ShapesOK, Others
<1>15. LocksOK'
    <2>1. lock = h /\ claim \notin Hosts
        BY <1>1, <1>2, <1>3, HostsAreNoStates DEF LocksOK, Locked, Claimable
    <2>2. LocksMove(h)
        BY <1>2, <2>1 DEF LocksMove
    <2>. QED BY <1>1, <1>6, <2>2, LocksKept
<1>16. GenerationsOK'
    <2>1. cmd[h].live.gen <= queue.gen
        BY <1>1, <1>3 DEF QueueState
    <2>. QED BY <1>1, <1>2, <1>3, <1>6, <1>10, <2>1, SavedGenerations DEF Inv
<1>17. VersionsOK'
    <2>1. next \in Nat
        BY <1>3 DEF next
    <2>. QED BY <1>3, <1>10, <1>12, <2>1 DEF VersionsOK, Dispatching
<1>18. \A i \in DOMAIN sent : ~(sent[i].gen = queue.gen /\ sent[i].msg = m)
    BY <1>4 DEF Inv, SpentOK, Spent, m
<1>19. SendsOK'
    <2>1. \A k \in Hosts : cmd'[k].send = cmd[k].send /\ cmd'[k].live = cmd[k].live /\ ~cmd'[k].accepted
                           /\ (k # h => cmd'[k].msg = None)
        BY <1>5, <1>6 DEF Others
    <2>. QED BY <1>2, <1>3, <1>5, <1>6, <1>10, <1>18, <2>1 DEF Inv, SendsOK, HandedOnce
<1>20. SpentOK'
    <2>1. \A k : Spent(k) => k # m
        BY <1>4 DEF Spent, m
    <2>2. \A k : Spent(k) => SpentNext(k)
        BY <1>7, <1>10, <1>12, <2>1 DEF Spent, SpentNext
    <2>3. SpentNext(m)
        BY <1>4, <1>10, <1>12 DEF SpentNext
    <2>4. \A i \in DOMAIN sent' : sent'[i].gen = queue'.gen => SpentNext(sent'[i].msg)
        BY <1>2, <1>10, <2>2 DEF Inv, SpentOK
    <2>5. \A k \in Hosts \ {h} : cmd'[k].msg = None
        BY <1>5, <1>6 DEF Others
    <2>6. \E i \in DOMAIN queue'.items : queue'.items[i] = Item(cmd'[h].msg, "dispatching")
        BY <1>4, <1>6, <1>7, <1>10
    <2>. QED BY <1>6, <2>3, <2>4, <2>5, <2>6 DEF SpentOK, Spent, SpentNext
<1>21. EventsOK'
    <2>1. queue'.ver = queue.ver + 1
        BY <1>10 DEF next
    <2>. QED BY <1>1, <1>2, <1>3, <1>6, <1>10, <2>1, SavedEvents DEF Inv
<1>22. AcceptedTruthfully'
    BY <1>2, <1>10, AcceptedKept DEF Inv
<1>. QED BY <1>13, <1>14, <1>15, <1>16, <1>17, <1>19, <1>20, <1>21, <1>22 DEF Inv

-----------------------------------------------------------------------------
(* The theorems.                                                            *)

\* An empty queue, no host at work and nothing sent satisfy the invariant.
LEMMA InitInv ==
    ASSUME Init
    PROVE  Inv
<1>1. /\ live \in Session /\ live.gen = 1
    BY BoundsPositive DEF Init, Session
<1>2. /\ queue \in QueueState /\ queue.gen = 1 /\ queue.ver = 0 /\ queue.items = <<>> /\ queue.seen = {}
      /\ queue.receipt.status = "none" /\ queue.outbox = "none" /\ queue.stopped = FALSE
    BY BoundsPositive DEF Init, Empty, QueueState, Receipt
<1>3. /\ log = <<>> /\ retained = TRUE /\ lock = None /\ claim = "free" /\ sent = <<>>
      /\ cmd \in [Hosts -> Command] /\ \A h \in Hosts : cmd[h] = Idle
    BY IdleIsCommand DEF Init
<1>4. TypeOK
    BY <1>1, <1>2, <1>3, CapacityPositive DEF TypeOK
<1>5. ~Before(Idle, "act") /\ ~Before(Idle, "stop") /\ ~Before(Idle, "final") /\ ~Before(Idle, "handoff") /\ ~Locked(Idle)
    BY IdleIsCommand DEF Before, Flushing, Locked
<1>6. ShapesOK /\ LocksOK
    BY <1>3, <1>5, IdleIsCommand DEF ShapesOK, Shape, LocksOK
<1>7. GenerationsOK
    BY <1>1, <1>2, <1>3, <1>5, IdleIsCommand DEF GenerationsOK
<1>8. VersionsOK
    BY <1>2, BoundsPositive DEF VersionsOK
<1>9. SendsOK /\ SpentOK
    BY <1>3, <1>5, IdleIsCommand DEF SendsOK, HandedOnce, SpentOK
<1>10. EventsOK
    <2>1. LastEvent = <<0, 0>>
        BY <1>3 DEF LastEvent, EventBefore
    <2>. QED BY <1>2, <1>3, <2>1, IdleIsCommand DEF EventsOK, OutboxOK, Shown
<1>11. AcceptedTruthfully
    BY <1>2 DEF AcceptedTruthfully
<1>. QED BY <1>4, <1>6, <1>7, <1>8, <1>9, <1>10, <1>11 DEF Inv

\* Every action keeps the invariant.
LEMMA InvStep ==
    ASSUME Inv, [Next]_vars
    PROVE  Inv'
<1>1. CASE UNCHANGED vars
    <2>1. UNCHANGED <<live, queue, log, retained, lock, claim, sent, cmd>>
        BY <1>1 DEF vars
    <2>2. TypeOK' /\ ShapesOK' /\ LocksOK'
        BY <2>1 DEF Inv, TypeOK, ShapesOK, LocksOK
    <2>3. GenerationsOK' /\ VersionsOK'
        BY <2>1 DEF Inv, GenerationsOK, VersionsOK, Dispatching
    <2>4. SendsOK' /\ SpentOK' /\ AcceptedTruthfully'
        BY <2>1 DEF Inv, SendsOK, HandedOnce, SpentOK, Spent, AcceptedTruthfully
    <2>5. EventsOK'
        BY <2>1 DEF Inv, EventsOK, OutboxOK, Shown, Stored, LastEvent, EventBefore
    <2>. QED BY <2>2, <2>3, <2>4, <2>5 DEF Inv
<1>2. CASE Launch \/ TransferInput \/ ObserveRun \/ RewriteEvents
    BY <1>2, SessionStep
<1>3. ASSUME NEW h \in Hosts, HostStep(h)
      PROVE  Inv'
    <2>1. CASE Abort(h) \/ Read(h)
        BY <2>1, AbortStep
    <2>2. CASE Crash(h)
        BY <2>2, CrashStep
    <2>3. CASE FlushAttempt(h)
        BY <2>3, FlushAttemptStep
    <2>4. CASE AppendEvent(h)
        BY <2>4, AppendEventStep
    <2>5. CASE MarkDelivered(h)
        BY <2>5, MarkDeliveredStep
    <2>6. CASE Flushed(h)
        BY <2>6, FlushedStep
    <2>7. CASE Enter(h) \/ Stop(h)
        BY <2>7, BeginStep
    <2>8. CASE Replace(h)
        BY <2>8, ReplaceStep
    <2>9. CASE Recover(h)
        BY <2>9, RecoverStep
    <2>10. ASSUME NEW m \in Messages, Enqueue(h, m) \/ Remove(h, m) PROVE Inv'
        BY <2>10, EnqueueStep, RemoveStep
    <2>11. CASE Reorder(h)
        BY <2>11, ReorderStep
    <2>12. CASE StartDelivery(h)
        BY <2>12, StartDeliveryStep
    <2>13. CASE Handoff(h)
        BY <2>13, HandoffStep
    <2>14. CASE HandoffRefused(h) \/ Verdict(h)
        BY <2>14, VerdictStep
    <2>15. ASSUME NEW s \in {"ok", "failed"}, Settle(h, s) PROVE Inv'
        BY <2>15, SettleStep
    <2>16. CASE FinishEnter(h) \/ StopEnter(h)
        BY <2>16, ReenterStep
    <2>17. CASE Final(h)
        BY <2>17, FinalStep
    <2>18. CASE StopApply(h)
        BY <2>18, StopApplyStep
    <2>. QED BY <1>3, <2>1, <2>2, <2>3, <2>4, <2>5, <2>6, <2>7, <2>8, <2>9, <2>10, <2>11, <2>12, <2>13, <2>14,
                <2>15, <2>16, <2>17, <2>18 DEF HostStep
<1>. QED BY <1>1, <1>2, <1>3 DEF Next

\* The invariant holds in every reachable state.
THEOREM Invariant == Spec => []Inv
<1>1. Init => Inv
    BY InitInv
<1>2. Inv /\ [Next]_vars => Inv'
    BY InvStep
<1>. QED BY <1>1, <1>2, PTL DEF Spec

\* The stored queue is always one the decoder of load() accepts: bounded, with distinct remembered
\* identities; and every command is at a known step.
THEOREM StoredQueueDecodes == Spec => []TypeOK
<1>1. Inv => TypeOK
    BY DEF Inv
<1>. QED BY <1>1, Invariant, PTL

\* No message is handed to the transport twice within a generation, for any number of hosts that
\* die, time out, recover one another's claims and retry (execute, performDelivery).
THEOREM NoBlindRetry == Spec => []HandedOnce
<1>1. Inv => HandedOnce
    BY DEF Inv, SendsOK
<1>. QED BY <1>1, Invariant, PTL

\* At most one transport call is unsettled: its host holds the delivery claim until the call ends,
\* also after its deadline, a Stop or a replaced queue (tryDeliveryClaim, finishDelivery).
THEOREM SendsExclude == Spec => []OneSendAtATime
<1>1. ASSUME Inv, NEW i \in DOMAIN sent, NEW j \in DOMAIN sent, sent[i].outcome = "sending", sent[j].outcome = "sending"
      PROVE  i = j
    <2>1. i # 0 /\ j # 0
        BY <1>1 DEF Inv, TypeOK
    <2>2. PICK a \in Hosts : cmd[a].send = i
        BY <1>1 DEF Inv, SendsOK
    <2>3. PICK b \in Hosts : cmd[b].send = j
        BY <1>1 DEF Inv, SendsOK
    <2>4. cmd[a].msg # None /\ cmd[b].msg # None
        BY <1>1, <2>1, <2>2, <2>3 DEF Inv, ShapesOK, Shape
    <2>5. a = b
        BY <1>1, <2>4 DEF Inv, LocksOK
    <2>. QED BY <2>2, <2>3, <2>5
<1>2. Inv => OneSendAtATime
    BY <1>1 DEF OneSendAtATime
<1>. QED BY <1>2, Invariant, PTL

\* A receipt that says accepted is of a message of its generation that the transport took
\* (performDelivery).
THEOREM ReceiptsTellTruth == Spec => []AcceptedTruthfully
<1>1. Inv => AcceptedTruthfully
    BY DEF Inv
<1>. QED BY <1>1, Invariant, PTL

\* A change is saved only after the event of the change before it was put into the event file, once
\* and in order, and the outbox holds the event the file was not given yet (flush).
THEOREM PublishedInTurn == Spec => []PublishedBeforeNextChange
<1>1. ASSUME Inv PROVE PublishedBeforeNextChange
    <2>1. queue.outbox \in {"none", "prepared", "attempted", "delivered"}
        BY <1>1 DEF Inv, TypeOK, QueueState
    <2>. QED BY <1>1, <2>1 DEF Inv, EventsOK, OutboxOK, Shown, PublishedBeforeNextChange
<1>. QED BY <1>1, Invariant, PTL

\* Only a handoff makes the sends longer.
LEMMA OnlyHandoffSends ==
    ASSUME Inv, [Next]_vars, Len(sent') > Len(sent)
    PROVE  \E h \in Hosts : Handoff(h)
<1>1. sent \in Seq(Send) /\ Len(sent) \in Nat
    BY DEF Inv, TypeOK
<1>2. sent' # sent
    BY <1>1
<1>3. ASSUME NEW h \in Hosts, Lingers(h), NEW s \in {"ok", "failed", "lost"}, sent' = [sent EXCEPT ![cmd[h].send].outcome = s]
      PROVE  FALSE
    <2>1. TypeOK /\ cmd[h].send \in DOMAIN sent
        BY <1>3 DEF Inv, SendsOK, Lingers
    <2>2. sent' \in Seq(Send) /\ DOMAIN sent' = DOMAIN sent
        BY <1>3, <2>1, OutcomeEffect
    <2>3. Len(sent') = Len(sent)
        BY <1>1, <2>2
    <2>. QED BY <1>1, <2>3
<1>4. ASSUME NEW h \in Hosts, HostStep(h)
      PROVE  Handoff(h)
    <2>1. ~Crash(h)
        BY <1>2, <1>3 DEF Crash
    <2>2. \A s \in {"ok", "failed"} : ~Settle(h, s)
        BY <1>3 DEF Settle
    <2>3. ~FlushAttempt(h) /\ ~AppendEvent(h) /\ ~MarkDelivered(h) /\ ~Flushed(h) /\ ~Enter(h) /\ ~Replace(h)
        BY <1>2 DEF FlushAttempt, AppendEvent, MarkDelivered, Flushed, Enter, Replace
    <2>4. ~Recover(h) /\ ~Read(h) /\ ~Abort(h) /\ ~Reorder(h) /\ ~StartDelivery(h) /\ ~HandoffRefused(h) /\ ~Verdict(h)
        BY <1>2 DEF Recover, Read, Abort, Reorder, StartDelivery, HandoffRefused, Verdict
    <2>5. ~FinishEnter(h) /\ ~Final(h) /\ ~Stop(h) /\ ~StopEnter(h) /\ ~StopApply(h)
        BY <1>2 DEF FinishEnter, Final, Stop, StopEnter, StopApply
    <2>6. \A m \in Messages : ~Enqueue(h, m) /\ ~Remove(h, m)
        BY <1>2 DEF Enqueue, Remove
    <2>. QED BY <1>4, <2>1, <2>2, <2>3, <2>4, <2>5, <2>6 DEF HostStep
<1>. QED BY <1>2, <1>4 DEF Next, vars, Launch, TransferInput, ObserveRun, RewriteEvents

\* Text leaves only while the stored queue shows its message as the claim in progress of the
\* session's generation, whatever peers and Stop did since the claim (performDelivery).
THEOREM OnlyTheClaimIsSent == Spec => HandoffOfOwnClaim
<1>1. ASSUME Inv, [Next]_vars, Len(sent') > Len(sent)
      PROVE  /\ queue.gen = live.gen /\ ~queue.stopped
             /\ \E i \in DOMAIN queue.items : queue.items[i] = Item(sent'[Len(sent')].msg, "dispatching")
    <2>1. PICK h \in Hosts : Handoff(h)
        BY <1>1, OnlyHandoffSends
    <2>. DEFINE row == [gen |-> live.gen, msg |-> cmd[h].msg, at |-> Boundary(live), outcome |-> "sending"]
    <2>2. TypeOK /\ live = cmd[h].live /\ cmd[h].at = "handoff" /\ sent' = Append(sent, row) /\ row.msg = cmd[h].msg
        BY <1>1, <2>1 DEF Handoff, At, Inv
    <2>. HIDE DEF row
    <2>3. sent'[Len(sent')].msg = cmd[h].msg
        BY <2>2 DEF TypeOK
    <2>4. cmd[h].msg # None /\ Before(cmd[h], "handoff")
        BY <1>1, <2>2 DEF Inv, ShapesOK, Shape, Before
    <2>5. queue.gen = live.gen /\ ~queue.stopped
        BY <1>1, <2>2, <2>4 DEF Inv, GenerationsOK, TypeOK, QueueState, Session
    <2>6. \E i \in DOMAIN queue.items : queue.items[i] = Item(cmd[h].msg, "dispatching")
        BY <1>1, <2>2, <2>4, <2>5 DEF Inv, SpentOK
    <2>. QED BY <2>3, <2>5, <2>6
<1>2. Inv /\ [Next]_vars => [Len(sent') > Len(sent) =>
        /\ queue.gen = live.gen /\ ~queue.stopped
        /\ \E i \in DOMAIN queue.items : queue.items[i] = Item(sent'[Len(sent')].msg, "dispatching")]_vars
    BY <1>1
<1>. QED BY <1>2, Invariant, PTL DEF Spec, HandoffOfOwnClaim

=============================================================================
