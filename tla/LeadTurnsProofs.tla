-------------------------- MODULE LeadTurnsProofs --------------------------
(***************************************************************************)
(* Machine-checked facts about LeadTurns, for any number of admissions,    *)
(* preparations and concurrent requests: the rows stay well typed, what a  *)
(* row, a fence or a request says of the runtime is true, a context has at *)
(* most one execution in flight, and the specification implements          *)
(* LeadTurnContract.                                                       *)
(***************************************************************************)
EXTENDS LeadTurns, FiniteSetTheorems, TLAPS

(***************************************************************************)
(* The inductive invariant.                                                *)
(***************************************************************************)

Reached == {"running", "cancelling", "completed", "failed", "cancelled"}
Marked(i) == row[i].state \notin {"none", "prepared"}

\* What the stored row and the fence of an admission say of the runtime.
TurnOK(i) ==
    /\ row[i].state = "none" => row[i] = NoRow
    /\ row[i].state = "prepared" => ~row[i].bound /\ ~row[i].published
    /\ row[i].state # "none" => i \in Admitted
    /\ row[i].state \in Observable => row[i].bound
    /\ row[i].bound => cp[i].state \in Reached
    /\ row[i].state \in Terminal => cp[i].state = row[i].state
    /\ row[i].published => row[i].state = "completed" /\ fence[i] \in {"none", "terminal_retained"}
    /\ cp[i].state # "none" => Marked(i) /\ cp[i].prep = row[i].prep
    /\ fence[i] = "no_effect_recorded" => ~Marked(i)
    /\ fence[i] = "in_flight_fenced" => row[i].bound
    /\ fence[i] = "terminal_retained" => row[i].state \in Terminal
    /\ fence[i] # "blocked_unclassifiable"

\* What a request may rely on between its transactions.
RequestOK(r) ==
    LET i == req[r].intent IN
    /\ req[r].at # "idle" => i \in Intents /\ i \in Admitted
    /\ req[r].at = "confirming" => row[i].state # "none"
    /\ req[r].at \in {"sending", "sent"} =>
          Marked(i) /\ row[i].prep = req[r].prep /\ fence[i] # "no_effect_recorded"
    /\ req[r].at = "sent" => cp[i].state # "none"
    /\ req[r].at \in {"recovering", "polling", "cancelling", "reread", "observing", "publishing"} =>
          cp[i].state \in Reached
    /\ req[r].at \in {"reread", "observing"} =>
          /\ req[r].reply \in Observable
          /\ req[r].reply \in Terminal => cp[i].state = req[r].reply

\* The admissions of the context are numbered without gaps or repetition, and every admission but
\* the last is settled.
AttemptsOK ==
    /\ \A i, j \in Admitted : intent[i].attempt = intent[j].attempt => i = j
    /\ \A i \in Admitted : \A n \in 1 .. intent[i].attempt : \E j \in Admitted : intent[j].attempt = n
    /\ \A i, j \in Admitted : intent[i].attempt < intent[j].attempt => RuntimeSettled(i)

TurnInv == TypeOK /\ (\A i \in Intents : TurnOK(i)) /\ (\A r \in Requests : RequestOK(r))

Inv == TurnInv /\ AttemptsOK

-----------------------------------------------------------------------------
(***************************************************************************)
(* What the elementary updates do, field by field.                         *)
(***************************************************************************)

\* A request moves to another stage and keeps what it has read.
LEMMA GoToEffect ==
    ASSUME TypeOK, NEW r \in Requests, NEW at \in Stages, GoTo(r, at)
    PROVE  /\ req' \in [Requests -> RequestState]
           /\ req'[r].at = at
           /\ req'[r].op = req[r].op /\ req'[r].intent = req[r].intent
           /\ req'[r].prep = req[r].prep /\ req'[r].reply = req[r].reply
           /\ \A q \in Requests \ {r} : req'[q] = req[q]
<1>1. req[r] \in RequestState
    BY DEF TypeOK
<1>2. [req[r] EXCEPT !.at = at] \in RequestState
    BY <1>1 DEF RequestState
<1>3. req' = [req EXCEPT ![r] = [req[r] EXCEPT !.at = at]]
    BY DEF GoTo
<1>4. req'[r] = [req[r] EXCEPT !.at = at]
    BY <1>3 DEF TypeOK
<1>. QED BY <1>1, <1>2, <1>3, <1>4 DEF TypeOK, RequestState

\* A request takes an answer of the runtime.
LEMMA AnsweredEffect ==
    ASSUME TypeOK, NEW r \in Requests, NEW s \in Observable, Answered(r, s)
    PROVE  /\ req' \in [Requests -> RequestState]
           /\ req'[r].at = "reread" /\ req'[r].reply = s
           /\ req'[r].op = req[r].op /\ req'[r].intent = req[r].intent /\ req'[r].prep = req[r].prep
           /\ \A q \in Requests \ {r} : req'[q] = req[q]
<1>1. req[r] \in RequestState
    BY DEF TypeOK
<1>. DEFINE new == [req[r] EXCEPT !.at = "reread", !.reply = s]
<1>2. new \in RequestState
    BY <1>1 DEF RequestState, Stages
<1>3. req' = [req EXCEPT ![r] = new]
    BY DEF Answered, TypeOK
<1>4. req'[r] = new
    BY <1>3 DEF TypeOK
<1>. QED BY <1>1, <1>2, <1>3, <1>4 DEF TypeOK, RequestState

\* A request ends, or begins.
LEMMA DoneEffect ==
    ASSUME TypeOK, NEW r \in Requests, Done(r)
    PROVE  /\ req' \in [Requests -> RequestState]
           /\ req'[r].at = "idle"
           /\ \A q \in Requests \ {r} : req'[q] = req[q]
<1>1. Idle \in RequestState
    BY DEF Idle, RequestState, Stages
<1>. QED BY <1>1 DEF Done, TypeOK, Idle

\* A request that begins changes no other.
LEMMA BeginEffect ==
    ASSUME TypeOK, NEW r \in Requests, NEW i \in Intents, NEW at \in Stages,
           NEW op \in {"prepare", "dispatch", "status", "cancel"}, NEW p \in Preparations \cup {None},
           Begin(r, op, i, at, p)
    PROVE  /\ req' \in [Requests -> RequestState]
           /\ req'[r].at = at /\ req'[r].op = op /\ req'[r].intent = i /\ req'[r].prep = p
           /\ req'[r].reply = "none"
           /\ \A q \in Requests \ {r} : req'[q] = req[q]
BY DEF Begin, TypeOK, RequestState

\* The runtime row of i takes this state, binding and publication mark; its preparation stays.
RowBecomes(i, s, bound, published) ==
    /\ row' \in [Intents -> RuntimeRow]
    /\ row'[i].state = s /\ row'[i].prep = row[i].prep
    /\ row'[i].bound = bound /\ row'[i].published = published
    /\ \A j \in Intents \ {i} : row'[j] = row[j]

\* One field of one runtime row is written.
LEMMA RowEffect ==
    ASSUME TypeOK, NEW i \in Intents
    PROVE  /\ \A s \in {"none", "prepared", "dispatch_pending"} \cup Observable :
                row' = [row EXCEPT ![i].state = s] => RowBecomes(i, s, row[i].bound, row[i].published)
           /\ row' = [row EXCEPT ![i].bound = TRUE] =>
                RowBecomes(i, row[i].state, TRUE, row[i].published)
           /\ row' = [row EXCEPT ![i].cancelRequested = TRUE] =>
                RowBecomes(i, row[i].state, row[i].bound, row[i].published)
           /\ row' = [row EXCEPT ![i].published = TRUE] =>
                RowBecomes(i, row[i].state, row[i].bound, TRUE)
<1>1. row \in [Intents -> RuntimeRow] /\ row[i] \in RuntimeRow
    BY DEF TypeOK
<1>2. ASSUME NEW s \in {"none", "prepared", "dispatch_pending"} \cup Observable,
             row' = [row EXCEPT ![i].state = s]
      PROVE  RowBecomes(i, s, row[i].bound, row[i].published)
    <2>1. [row[i] EXCEPT !.state = s] \in RuntimeRow
        BY <1>1 DEF RuntimeRow
    <2>2. row'[i] = [row[i] EXCEPT !.state = s]
        BY <1>1, <1>2
    <2>. QED BY <1>1, <1>2, <2>1, <2>2 DEF RuntimeRow, RowBecomes
<1>3. ASSUME row' = [row EXCEPT ![i].bound = TRUE]
      PROVE  RowBecomes(i, row[i].state, TRUE, row[i].published)
    <2>1. [row[i] EXCEPT !.bound = TRUE] \in RuntimeRow
        BY <1>1 DEF RuntimeRow
    <2>2. row'[i] = [row[i] EXCEPT !.bound = TRUE]
        BY <1>1, <1>3
    <2>. QED BY <1>1, <1>3, <2>1, <2>2 DEF RuntimeRow, RowBecomes
<1>4. ASSUME row' = [row EXCEPT ![i].cancelRequested = TRUE]
      PROVE  RowBecomes(i, row[i].state, row[i].bound, row[i].published)
    <2>1. [row[i] EXCEPT !.cancelRequested = TRUE] \in RuntimeRow
        BY <1>1 DEF RuntimeRow
    <2>2. row'[i] = [row[i] EXCEPT !.cancelRequested = TRUE]
        BY <1>1, <1>4
    <2>. QED BY <1>1, <1>4, <2>1, <2>2 DEF RuntimeRow, RowBecomes
<1>5. ASSUME row' = [row EXCEPT ![i].published = TRUE]
      PROVE  RowBecomes(i, row[i].state, row[i].bound, TRUE)
    <2>1. [row[i] EXCEPT !.published = TRUE] \in RuntimeRow
        BY <1>1 DEF RuntimeRow
    <2>2. row'[i] = [row[i] EXCEPT !.published = TRUE]
        BY <1>1, <1>5
    <2>. QED BY <1>1, <1>5, <2>1, <2>2 DEF RuntimeRow, RowBecomes
<1>. QED BY <1>2, <1>3, <1>4, <1>5

\* An observation writes state and binding together, unless the row is terminal already.
LEMMA ObservedEffect ==
    ASSUME TypeOK, NEW i \in Intents, NEW s \in Observable, row' = [row EXCEPT ![i] = Observed(i, s)]
    PROVE  /\ row[i].state \in Terminal => row' = row
           /\ row[i].state \notin Terminal => RowBecomes(i, s, TRUE, row[i].published)
<1>1. row \in [Intents -> RuntimeRow] /\ row[i] \in RuntimeRow
    BY DEF TypeOK
<1>2. CASE row[i].state \in Terminal
    <2>1. row' = [row EXCEPT ![i] = row[i]]
        BY <1>2 DEF Observed
    <2>2. row' \in [Intents -> RuntimeRow] /\ \A j \in Intents : row'[j] = row[j]
        BY <1>1, <2>1
    <2>3. row' = row
        BY <1>1, <2>2
    <2>. QED BY <1>2, <2>3
<1>3. CASE row[i].state \notin Terminal
    <2>. DEFINE new == [row[i] EXCEPT !.state = s, !.bound = TRUE]
    <2>1. row' = [row EXCEPT ![i] = new]
        BY <1>3 DEF Observed
    <2>2. /\ new \in RuntimeRow
          /\ new.state = s /\ new.bound = TRUE /\ new.prep = row[i].prep /\ new.published = row[i].published
        BY <1>1 DEF RuntimeRow
    <2>. HIDE DEF new
    <2>3. row'[i] = new /\ row' \in [Intents -> RuntimeRow] /\ \A j \in Intents \ {i} : row'[j] = row[j]
        BY <1>1, <2>1, <2>2
    <2>. QED BY <1>3, <2>2, <2>3 DEF RowBecomes
<1>. QED BY <1>2, <1>3

\* A first preparation is stored, or the row is left alone.
LEMMA StoreEffect ==
    ASSUME TypeOK, NEW i \in Intents, NEW p \in Preparations,
           row' = IF Inserts(i, p) THEN [row EXCEPT ![i] = [NoRow EXCEPT !.state = "prepared", !.prep = p]]
                  ELSE row
    PROVE  \/ row' = row
           \/ /\ row[i].state = "none"
              /\ row' \in [Intents -> RuntimeRow]
              /\ row'[i].state = "prepared" /\ row'[i].prep = p /\ ~row'[i].bound /\ ~row'[i].published
              /\ \A j \in Intents \ {i} : row'[j] = row[j]
<1>1. NoRow \in RuntimeRow /\ ~NoRow.bound /\ ~NoRow.published
    BY DEF NoRow, RuntimeRow
<1>. DEFINE new == [NoRow EXCEPT !.state = "prepared", !.prep = p]
<1>2. /\ new \in RuntimeRow
      /\ new.state = "prepared" /\ new.prep = p /\ ~new.bound /\ ~new.published
    BY <1>1 DEF RuntimeRow
<1>3. CASE Inserts(i, p)
    <2>1. row[i].state = "none" /\ row' = [row EXCEPT ![i] = new]
        BY <1>3 DEF Inserts
    <2>2. row'[i] = new /\ row' \in [Intents -> RuntimeRow] /\ \A j \in Intents \ {i} : row'[j] = row[j]
        BY <1>2, <2>1 DEF TypeOK
    <2>. QED BY <1>2, <2>1, <2>2
<1>. QED BY <1>3

\* The runtime's record of i takes this state; its preparation stays.
RecordBecomes(i, s) ==
    /\ cp' \in [Intents -> Execution]
    /\ cp'[i].state = s /\ cp'[i].prep = cp[i].prep
    /\ \A j \in Intents \ {i} : cp'[j] = cp[j]

\* The runtime's record of one execution changes, and of no other.
LEMMA RecordEffect ==
    ASSUME TypeOK, NEW i \in Intents, NEW s \in {"none", "dispatching"} \cup Active \cup Terminal,
           cp' = [cp EXCEPT ![i].state = s]
    PROVE  RecordBecomes(i, s)
<1>1. cp \in [Intents -> Execution] /\ cp[i] \in Execution
    BY DEF TypeOK
<1>2. [cp[i] EXCEPT !.state = s] \in Execution
    BY <1>1 DEF Execution
<1>3. cp'[i] = [cp[i] EXCEPT !.state = s]
    BY <1>1
<1>. QED BY <1>1, <1>2, <1>3 DEF Execution, RecordBecomes

-----------------------------------------------------------------------------
(***************************************************************************)
(* Types.                                                                  *)
(***************************************************************************)

\* No step leaves the rows of the tables; an answer taken from the runtime is an observable state
\* because a request that asks for one knows the turn was reached.
LEMMA TypeStep ==
    ASSUME TurnInv, [Next]_vars
    PROVE  TypeOK'
<1>. USE DEF TurnInv
<1>1. ASSUME NEW r \in Requests, NEW i \in Intents, PrepareBegin(r, i)
      PROVE  TypeOK'
    BY <1>1, BeginEffect DEF PrepareBegin, TypeOK, Stages
<1>2. ASSUME NEW r \in Requests, NEW i \in Intents, DispatchBegin(r, i)
      PROVE  TypeOK'
    <2>1. row[i].prep \in Preparations \cup {None}
        BY DEF TypeOK, RuntimeRow
    <2>. QED BY <1>2, <2>1, BeginEffect DEF DispatchBegin, TypeOK, Stages
<1>3. ASSUME NEW r \in Requests, NEW i \in Intents, StatusBegin(r, i)
      PROVE  TypeOK'
    <2>1. row[i].prep \in Preparations \cup {None}
        BY DEF TypeOK, RuntimeRow
    <2>. QED BY <1>3, <2>1, BeginEffect DEF StatusBegin, TypeOK, Stages
<1>4. ASSUME NEW r \in Requests, NEW i \in Intents, CancelBegin(r, i)
      PROVE  TypeOK'
    <2>1. row[i].prep \in Preparations \cup {None}
        BY DEF TypeOK, RuntimeRow
    <2>2. row' \in [Intents -> RuntimeRow]
        BY <1>4, RowEffect DEF CancelBegin, RowBecomes
    <2>3. req' \in [Requests -> RequestState]
        BY <1>4, <2>1, BeginEffect DEF CancelBegin, Stages
    <2>. QED BY <1>4, <2>2, <2>3 DEF CancelBegin, TypeOK
<1>5. ASSUME NEW r \in Requests, NEW p \in Preparations, PrepareStore(r, p)
      PROVE  TypeOK'
    <2>1. req[r].intent \in Intents
        BY <1>5 DEF PrepareStore, At, RequestOK
    <2>2. row' \in [Intents -> RuntimeRow]
        BY <1>5, <2>1, StoreEffect DEF PrepareStore, TypeOK
    <2>. QED BY <1>5, <2>2, DoneEffect DEF PrepareStore, TypeOK
<1>6. ASSUME NEW r \in Requests, NEW s \in Observable, Poll(r, s)
      PROVE  TypeOK'
    BY <1>6, AnsweredEffect DEF Poll, TypeOK
<1>7. ASSUME NEW r \in Requests, MarkPending(r)
      PROVE  TypeOK'
    <2>1. req[r].intent \in Intents
        BY <1>7 DEF MarkPending, At, RequestOK
    <2>2. PendingState(row[req[r].intent].state) \in {"none", "prepared", "dispatch_pending"} \cup Observable
        BY <2>1 DEF TypeOK, RuntimeRow, PendingState
    <2>3. row' \in [Intents -> RuntimeRow]
        BY <1>7, <2>1, <2>2, RowEffect DEF MarkPending, RowBecomes
    <2>4. req' \in [Requests -> RequestState]
        BY <1>7, GoToEffect DEF MarkPending, Stages
    <2>. QED BY <1>7, <2>3, <2>4 DEF MarkPending, TypeOK
<1>8. ASSUME NEW r \in Requests, RuntimeDispatch(r)
      PROVE  TypeOK'
    <2>1. req[r].prep \in Preparations \cup {None}
        BY DEF TypeOK, RequestState
    <2>2. [state |-> "dispatching", prep |-> req[r].prep] \in Execution
        BY <2>1 DEF Execution
    <2>3. cp' \in [Intents -> Execution]
        BY <1>8, <2>2 DEF RuntimeDispatch, TypeOK
    <2>4. req' \in [Requests -> RequestState]
        BY <1>8, GoToEffect, DoneEffect DEF RuntimeDispatch, Stages
    <2>. QED BY <1>8, <2>3, <2>4 DEF RuntimeDispatch, TypeOK
<1>9. ASSUME NEW r \in Requests, DispatchAnswer(r)
      PROVE  TypeOK'
    <2>1. cp[req[r].intent].state \in Observable
        BY <1>9 DEF DispatchAnswer, At, RequestOK, TypeOK, Execution, Observable
    <2>. QED BY <1>9, <2>1, AnsweredEffect DEF DispatchAnswer, TypeOK
<1>10. ASSUME NEW r \in Requests, LookupAnswer(r)
       PROVE  TypeOK'
    BY <1>10, GoToEffect DEF LookupAnswer, Stages, TypeOK
<1>11. ASSUME NEW r \in Requests, Recover(r)
       PROVE  TypeOK'
    <2>1. req[r].intent \in Intents
        BY <1>11 DEF Recover, At, RequestOK
    <2>2. row' \in [Intents -> RuntimeRow]
        BY <1>11, <2>1, RowEffect DEF Recover, RowBecomes
    <2>. QED BY <1>11, <2>2, GoToEffect DEF Recover, TypeOK, Stages
<1>12. ASSUME NEW r \in Requests, RuntimeCancel(r)
       PROVE  TypeOK'
    <2>. DEFINE i == req[r].intent
                s == IF cp[i].state = "running" THEN "cancelling" ELSE cp[i].state
    <2>1. i \in Intents /\ cp[i].state \in Reached
        BY <1>12 DEF RuntimeCancel, At, RequestOK
    <2>2. s \in Observable /\ s \in {"none", "dispatching"} \cup Active \cup Terminal
        BY <2>1 DEF Observable, Active, Terminal, Reached
    <2>3. cp' = [cp EXCEPT ![i].state = s] /\ (Answered(r, s) \/ Done(r))
        BY <1>12 DEF RuntimeCancel
    <2>. HIDE DEF s, i
    <2>4. cp' \in [Intents -> Execution]
        BY <2>1, <2>2, <2>3, RecordEffect DEF RecordBecomes
    <2>5. req' \in [Requests -> RequestState]
        BY <2>2, <2>3, AnsweredEffect, DoneEffect
    <2>. QED BY <1>12, <2>4, <2>5 DEF RuntimeCancel, TypeOK
<1>13. ASSUME NEW r \in Requests, Reread(r)
       PROVE  TypeOK'
    BY <1>13, GoToEffect DEF Reread, Stages, TypeOK
<1>14. ASSUME NEW r \in Requests, Observe(r)
       PROVE  TypeOK'
    <2>1. req[r].reply \in Observable /\ req[r].intent \in Intents
        BY <1>14 DEF Observe, At, RequestOK
    <2>2. row' \in [Intents -> RuntimeRow]
        BY <1>14, <2>1, ObservedEffect DEF Observe, RowBecomes, TypeOK
    <2>3. req' \in [Requests -> RequestState]
        BY <1>14, GoToEffect, DoneEffect DEF Observe, Stages
    <2>. QED BY <1>14, <2>2, <2>3 DEF Observe, TypeOK
<1>15. ASSUME NEW r \in Requests, Publish(r)
       PROVE  TypeOK'
    <2>1. req[r].intent \in Intents
        BY <1>15 DEF Publish, At, RequestOK
    <2>2. row' \in [Intents -> RuntimeRow]
        BY <1>15, <2>1, RowEffect DEF Publish, RowBecomes
    <2>. QED BY <1>15, <2>2, DoneEffect DEF Publish, TypeOK
<1>16. ASSUME NEW r \in Requests, Abort(r)
       PROVE  TypeOK'
    BY <1>16, DoneEffect DEF Abort, TypeOK
<1>17. CASE ChangeAuthority \/ ArchiveChannel
    <2>1. \A i \in Intents : [intent[i] EXCEPT !.pinned = FALSE] \in IntentRow
        BY DEF TypeOK, IntentRow
    <2>2. intent' \in [Intents -> IntentRow]
        BY <1>17, <2>1 DEF ChangeAuthority, ArchiveChannel, Unpinned
    <2>. QED BY <1>17, <2>2 DEF ChangeAuthority, ArchiveChannel, TypeOK
<1>18. ASSUME NEW p \in Preparations, ExpirePreparation(p)
       PROVE  TypeOK'
    BY <1>18 DEF ExpirePreparation, TypeOK
<1>19. ASSUME NEW i \in Intents, Admit(i)
       PROVE  TypeOK'
    BY <1>19, FS_CardinalityType, IntentsFinite DEF Admit, TypeOK, IntentRow, Attempts
<1>20. ASSUME NEW i \in Intents, DeleteMessage(i)
       PROVE  TypeOK'
    <2>1. [intent[i] EXCEPT !.deleted = TRUE] \in IntentRow
        BY DEF TypeOK, IntentRow
    <2>. QED BY <1>20, <2>1 DEF DeleteMessage, TypeOK
<1>21. ASSUME NEW i \in Intents, FenceForRollback(i)
       PROVE  TypeOK'
    <2>1. Classify(i) \in Dispositions
        BY DEF Classify, Dispositions, Observable, TypeOK, RuntimeRow
    <2>. QED BY <1>21, <2>1 DEF FenceForRollback, TypeOK
<1>22. ASSUME NEW i \in Intents, RuntimeStart(i)
       PROVE  TypeOK'
    BY <1>22, RecordEffect DEF RuntimeStart, Active, RecordBecomes, TypeOK
<1>23. ASSUME NEW i \in Intents, NEW s \in Terminal, RuntimeFinish(i, s)
       PROVE  TypeOK'
    BY <1>23, RecordEffect DEF RuntimeFinish, RecordBecomes, TypeOK
<1>24. CASE UNCHANGED vars
    BY <1>24 DEF vars, TypeOK
<1>. QED
    BY <1>1, <1>2, <1>3, <1>4, <1>5, <1>6, <1>7, <1>8, <1>9, <1>10, <1>11, <1>12, <1>13, <1>14,
       <1>15, <1>16, <1>17, <1>18, <1>19, <1>20, <1>21, <1>22, <1>23, <1>24
       DEF Next, Surroundings, RequestStep

-----------------------------------------------------------------------------
(***************************************************************************)
(* One turn across one step.                                               *)
(***************************************************************************)

\* What a step never takes back from a turn: requests in progress rely on it.
Keeps(i) ==
    /\ i \in Admitted => i \in Admitted'
    /\ row[i].state # "none" => row'[i].state # "none"
    /\ Marked(i) => Marked(i)' /\ row'[i].prep = row[i].prep
    /\ row[i].state \in Terminal => row'[i].state = row[i].state
    /\ cp[i].state # "none" => cp'[i].state # "none"
    /\ cp[i].state \in Reached => cp'[i].state \in Reached
    /\ cp[i].state \in Terminal => cp'[i].state = cp[i].state
    /\ fence'[i] = "no_effect_recorded" => fence[i] = "no_effect_recorded" \/ ~Marked(i)

TurnGood(i) == TurnOK(i)' /\ Keeps(i)

\* A step that leaves the rows of a turn alone.
Untouched(i) ==
    row'[i] = row[i] /\ cp'[i] = cp[i] /\ fence'[i] = fence[i] /\ intent'[i].attempt = intent[i].attempt

\* A turn whose rows stay keeps its part of the invariant.
LEMMA UntouchedTurn ==
    ASSUME TurnInv, NEW i \in Intents, Untouched(i)
    PROVE  TurnGood(i)
BY DEF TurnInv, Untouched, TurnGood, TurnOK, Keeps, Marked, Admitted

\* Steps that only move requests, or the channel, its pins and messages.
LEMMA QuietStep ==
    ASSUME TurnInv, UNCHANGED <<row, cp, fence>>,
           \A i \in Intents : intent'[i].attempt = intent[i].attempt \/ (i \notin Admitted /\ i \in Admitted')
    PROVE  \A i \in Intents : TurnGood(i)
<1>. SUFFICES ASSUME NEW i \in Intents PROVE TurnGood(i)
    OBVIOUS
<1>1. CASE intent'[i].attempt = intent[i].attempt
    BY <1>1, UntouchedTurn DEF Untouched
<1>2. CASE i \notin Admitted /\ i \in Admitted'
    BY <1>2 DEF TurnInv, TurnGood, TurnOK, Keeps, Marked
<1>. QED BY <1>1, <1>2

\* The record of a turn in the runtime moves on.
LEMMA RecordMoves ==
    ASSUME TurnInv, NEW i \in Intents, UNCHANGED <<intent, row, fence>>,
           NEW s \in Reached, RecordBecomes(i, s), cp[i].state # "none",
           cp[i].state \in Terminal => s = cp[i].state
    PROVE  \A j \in Intents : TurnGood(j)
<1>. SUFFICES ASSUME NEW j \in Intents PROVE TurnGood(j)
    OBVIOUS
<1>1. CASE j # i
    BY <1>1, UntouchedTurn DEF Untouched, RecordBecomes
<1>2. CASE j = i
    BY <1>2 DEF TurnInv, TurnGood, TurnOK, Keeps, Marked, Admitted, RecordBecomes, Reached, Terminal
<1>. QED BY <1>1, <1>2

\* A row of a turn that the runtime reached takes a state that is true of the runtime.
LEMMA RowMoves ==
    ASSUME TurnInv, NEW i \in Intents, UNCHANGED <<intent, cp, fence>>,
           NEW s \in {"dispatch_pending"} \cup Observable, RowBecomes(i, s, TRUE, row[i].published),
           cp[i].state \in Reached, row[i].state \in Terminal => s = row[i].state,
           s \in Terminal => cp[i].state = s
    PROVE  \A j \in Intents : TurnGood(j)
<1>. SUFFICES ASSUME NEW j \in Intents PROVE TurnGood(j)
    OBVIOUS
<1>1. CASE j # i
    BY <1>1, UntouchedTurn DEF Untouched, RowBecomes
<1>2. CASE j = i
    BY <1>2 DEF TurnInv, TurnGood, TurnOK, Keeps, Marked, Admitted, RowBecomes, Reached, Terminal,
                Observable, Active
<1>. QED BY <1>1, <1>2

\* Every step keeps what rows and fences say true, and takes nothing back.
LEMMA TurnStep ==
    ASSUME TurnInv, [Next]_vars
    PROVE  \A i \in Intents : TurnGood(i)
<1>1. ASSUME NEW r \in Requests, NEW i \in Intents,
             PrepareBegin(r, i) \/ DispatchBegin(r, i) \/ StatusBegin(r, i)
      PROVE  \A j \in Intents : TurnGood(j)
    BY <1>1, QuietStep DEF PrepareBegin, DispatchBegin, StatusBegin
<1>2. ASSUME NEW r \in Requests,
             DispatchAnswer(r) \/ LookupAnswer(r) \/ Reread(r) \/ Abort(r)
      PROVE  \A j \in Intents : TurnGood(j)
    BY <1>2, QuietStep DEF DispatchAnswer, LookupAnswer, Reread, Abort
<1>3. ASSUME NEW r \in Requests, NEW s \in Observable, Poll(r, s)
      PROVE  \A j \in Intents : TurnGood(j)
    BY <1>3, QuietStep DEF Poll
<1>4. ASSUME NEW r \in Requests, NEW i \in Intents, CancelBegin(r, i)
      PROVE  \A j \in Intents : TurnGood(j)
    <2>1. RowBecomes(i, row[i].state, row[i].bound, row[i].published) /\ UNCHANGED <<intent, cp, fence>>
        BY <1>4, RowEffect DEF CancelBegin, TurnInv
    <2>2. ASSUME NEW j \in Intents PROVE TurnGood(j)
        <3>1. CASE j # i
            BY <2>1, <3>1, UntouchedTurn DEF Untouched, RowBecomes
        <3>2. CASE j = i
            BY <1>4, <2>1, <3>2 DEF CancelBegin, TurnInv, TurnGood, TurnOK, Keeps, Marked, Admitted, RowBecomes, NoRow
        <3>. QED BY <3>1, <3>2
    <2>. QED BY <2>2
<1>5. ASSUME NEW r \in Requests, NEW p \in Preparations, PrepareStore(r, p)
      PROVE  \A j \in Intents : TurnGood(j)
    <2>. DEFINE i == req[r].intent
    <2>1. i \in Intents /\ i \in Admitted /\ NotFenced(i) /\ UNCHANGED <<intent, cp, fence>>
        BY <1>5 DEF PrepareStore, At, RequestOK, TurnInv
    <2>2. \/ row' = row
          \/ /\ row[i].state = "none"
             /\ row' \in [Intents -> RuntimeRow]
             /\ row'[i].state = "prepared" /\ row'[i].prep = p /\ ~row'[i].bound /\ ~row'[i].published
             /\ \A j \in Intents \ {i} : row'[j] = row[j]
        BY <1>5, <2>1, StoreEffect DEF PrepareStore, TurnInv
    <2>. HIDE DEF i
    <2>3. CASE row' = row
        BY <2>1, <2>3, QuietStep
    <2>4. ASSUME row' # row, NEW j \in Intents PROVE TurnGood(j)
        <3>1. CASE j # i
            BY <2>1, <2>2, <2>4, <3>1, UntouchedTurn DEF Untouched
        <3>2. CASE j = i
            BY <2>1, <2>2, <2>4, <3>2 DEF TurnInv, TurnGood, TurnOK, Keeps, Marked, Admitted, NotFenced,
               Observable, Terminal, Active
        <3>. QED BY <3>1, <3>2
    <2>. QED BY <2>3, <2>4
<1>6. ASSUME NEW r \in Requests, MarkPending(r)
      PROVE  \A j \in Intents : TurnGood(j)
    <2>. DEFINE i == req[r].intent
                s == PendingState(row[i].state)
    <2>1. /\ i \in Intents /\ i \in Admitted /\ row[i].state # "none" /\ NotFenced(i)
          /\ row' = [row EXCEPT ![i].state = s]
          /\ UNCHANGED <<intent, cp, fence>>
        BY <1>6 DEF MarkPending, MayDispatch, At, RequestOK, TurnInv
    <2>2. s \in {"none", "prepared", "dispatch_pending"} \cup Observable
        BY <2>1 DEF TurnInv, TypeOK, RuntimeRow, PendingState
    <2>3. RowBecomes(i, s, row[i].bound, row[i].published)
        BY <2>1, <2>2, RowEffect DEF TurnInv
    <2>4. s = IF row[i].state = "prepared" THEN "dispatch_pending" ELSE row[i].state
        BY DEF PendingState
    <2>. HIDE DEF i, s
    <2>5. ASSUME NEW j \in Intents PROVE TurnGood(j)
        <3>1. CASE j # i
            BY <2>1, <2>3, <3>1, UntouchedTurn DEF Untouched, RowBecomes
        <3>2. CASE j = i
            BY <2>1, <2>3, <2>4, <3>2 DEF TurnInv, TurnGood, TurnOK, Keeps, Marked, Admitted, NotFenced,
               RowBecomes, Observable, Terminal, Active
        <3>. QED BY <3>1, <3>2
    <2>. QED BY <2>5
<1>7. ASSUME NEW r \in Requests, RuntimeDispatch(r)
      PROVE  \A j \in Intents : TurnGood(j)
    <2>. DEFINE i == req[r].intent
    <2>1. /\ i \in Intents /\ Marked(i) /\ row[i].prep = req[r].prep /\ fence[i] # "no_effect_recorded"
          /\ UNCHANGED <<intent, row, fence>>
          /\ cp' = IF cp[i].state = "none" THEN [cp EXCEPT ![i] = [state |-> "dispatching", prep |-> req[r].prep]]
                   ELSE cp
        BY <1>7 DEF RuntimeDispatch, At, RequestOK, TurnInv
    <2>2. CASE cp' = cp
        BY <2>1, <2>2, QuietStep
    <2>3. ASSUME cp' # cp, NEW j \in Intents PROVE TurnGood(j)
        <3>1. cp[i].state = "none" /\ cp' = [cp EXCEPT ![i] = [state |-> "dispatching", prep |-> req[r].prep]]
            BY <2>1, <2>3
        <3>2. CASE j # i
            BY <2>1, <3>1, <3>2, UntouchedTurn DEF Untouched, TurnInv, TypeOK
        <3>3. CASE j = i
            <4>1. cp'[j].state = "dispatching" /\ cp'[j].prep = row[j].prep
                BY <2>1, <3>1, <3>3 DEF TurnInv, TypeOK
            <4>2. row[j].state \notin Terminal /\ ~row[j].bound /\ cp[j].state = "none" /\ Marked(j) /\ UNCHANGED <<row, fence, intent>>
                BY <2>1, <3>1, <3>3 DEF TurnInv, TurnOK, Reached, Terminal
            <4>. QED BY <4>1, <4>2 DEF TurnInv, TurnGood, TurnOK, Keeps, Marked, Admitted, Reached, Terminal
        <3>. QED BY <3>2, <3>3
    <2>. QED BY <2>2, <2>3
<1>8. ASSUME NEW r \in Requests, Recover(r)
      PROVE  \A j \in Intents : TurnGood(j)
    <2>. DEFINE i == req[r].intent
    <2>1. /\ i \in Intents /\ cp[i].state \in Reached
          /\ row[i].state = "dispatch_pending" \/ row[i].bound
          /\ row' = [row EXCEPT ![i].bound = TRUE]
          /\ UNCHANGED <<intent, cp, fence>>
        BY <1>8 DEF Recover, At, RequestOK, TurnInv
    <2>2. RowBecomes(i, row[i].state, TRUE, row[i].published)
        BY <2>1, RowEffect DEF TurnInv
    <2>3. row[i].state \in {"dispatch_pending"} \cup Observable
        BY <2>1 DEF TurnInv, TypeOK, RuntimeRow, TurnOK, NoRow
    <2>4. row[i].state \in Terminal => cp[i].state = row[i].state
        BY <2>1 DEF TurnInv, TurnOK
    <2>. HIDE DEF i
    <2>. QED BY <2>1, <2>2, <2>3, <2>4, RowMoves
<1>9. ASSUME NEW r \in Requests, RuntimeCancel(r)
      PROVE  \A j \in Intents : TurnGood(j)
    <2>. DEFINE i == req[r].intent
                s == IF cp[i].state = "running" THEN "cancelling" ELSE cp[i].state
    <2>1. i \in Intents /\ cp[i].state \in Reached
        BY <1>9 DEF RuntimeCancel, At, RequestOK, TurnInv
    <2>2. s \in Reached /\ s \in {"none", "dispatching"} \cup Active \cup Terminal
        BY <2>1 DEF Active, Terminal, Reached
    <2>3. cp' = [cp EXCEPT ![i].state = s] /\ UNCHANGED <<intent, row, fence>>
        BY <1>9 DEF RuntimeCancel
    <2>4. (cp[i].state \in Terminal => s = cp[i].state) /\ cp[i].state # "none"
        BY <2>1 DEF Terminal, Reached
    <2>. HIDE DEF s, i
    <2>5. RecordBecomes(i, s)
        BY <2>1, <2>2, <2>3, RecordEffect DEF TurnInv
    <2>. QED BY <2>1, <2>2, <2>3, <2>4, <2>5, RecordMoves
<1>10. ASSUME NEW r \in Requests, Observe(r)
       PROVE  \A j \in Intents : TurnGood(j)
    <2>. DEFINE i == req[r].intent
                s == req[r].reply
    <2>1. /\ i \in Intents /\ cp[i].state \in Reached /\ s \in Observable
          /\ s \in Terminal => cp[i].state = s
          /\ row' = [row EXCEPT ![i] = Observed(i, s)]
          /\ UNCHANGED <<intent, cp, fence>>
        BY <1>10 DEF Observe, At, RequestOK, TurnInv
    <2>. HIDE DEF i, s
    <2>2. CASE row[i].state \in Terminal
        BY <2>1, <2>2, ObservedEffect, QuietStep DEF TurnInv
    <2>3. CASE row[i].state \notin Terminal
        BY <2>1, <2>3, ObservedEffect, RowMoves DEF TurnInv
    <2>. QED BY <2>2, <2>3
<1>11. ASSUME NEW r \in Requests, Publish(r)
       PROVE  \A j \in Intents : TurnGood(j)
    <2>. DEFINE i == req[r].intent
    <2>1. /\ i \in Intents /\ row[i].state = "completed" /\ NotFenced(i)
          /\ row' = [row EXCEPT ![i].published = TRUE]
          /\ UNCHANGED <<intent, cp, fence>>
        BY <1>11 DEF Publish, MayPublish, At, RequestOK, TurnInv
    <2>2. RowBecomes(i, row[i].state, row[i].bound, TRUE)
        BY <2>1, RowEffect DEF TurnInv
    <2>. HIDE DEF i
    <2>3. ASSUME NEW j \in Intents PROVE TurnGood(j)
        <3>1. CASE j # i
            BY <2>1, <2>2, <3>1, UntouchedTurn DEF Untouched, RowBecomes
        <3>2. CASE j = i
            BY <2>1, <2>2, <3>2 DEF TurnInv, TurnGood, TurnOK, Keeps, Marked, Admitted, NotFenced, RowBecomes
        <3>. QED BY <3>1, <3>2
    <2>. QED BY <2>3
<1>12. CASE ChangeAuthority \/ ArchiveChannel
    <2>1. \A i \in Intents : intent'[i] = [intent[i] EXCEPT !.pinned = FALSE]
        BY <1>12 DEF ChangeAuthority, ArchiveChannel, Unpinned
    <2>2. \A i \in Intents : intent'[i].attempt = intent[i].attempt
        BY <2>1 DEF TurnInv, TypeOK, IntentRow
    <2>. QED BY <1>12, <2>2, QuietStep DEF ChangeAuthority, ArchiveChannel
<1>13. ASSUME NEW p \in Preparations, ExpirePreparation(p)
       PROVE  \A j \in Intents : TurnGood(j)
    BY <1>13, QuietStep DEF ExpirePreparation
<1>14. ASSUME NEW i \in Intents, Admit(i)
       PROVE  \A j \in Intents : TurnGood(j)
    <2>1. PICK n \in 1 .. Cardinality(Intents) :
            intent' = [intent EXCEPT ![i] = [attempt |-> n, pinned |-> TRUE, deleted |-> FALSE]]
        BY <1>14 DEF Admit
    <2>2. \A j \in Intents : intent'[j].attempt = intent[j].attempt \/ (j \notin Admitted /\ j \in Admitted')
        <3>1. i \notin Admitted /\ i \in Admitted'
            BY <1>14, <2>1 DEF Admit, Admitted, TurnInv, TypeOK
        <3>. QED BY <2>1, <3>1 DEF TurnInv, TypeOK
    <2>. QED BY <1>14, <2>2, QuietStep DEF Admit
<1>15. ASSUME NEW i \in Intents, DeleteMessage(i)
       PROVE  \A j \in Intents : TurnGood(j)
    <2>1. intent'[i] = [intent[i] EXCEPT !.deleted = TRUE] /\ \A j \in Intents \ {i} : intent'[j] = intent[j]
        BY <1>15 DEF DeleteMessage, TurnInv, TypeOK
    <2>2. \A j \in Intents : intent'[j].attempt = intent[j].attempt
        BY <2>1 DEF TurnInv, TypeOK, IntentRow
    <2>. QED BY <1>15, <2>2, QuietStep DEF DeleteMessage
<1>16. ASSUME NEW i \in Intents, FenceForRollback(i)
       PROVE  \A j \in Intents : TurnGood(j)
    <2>1. /\ fence'[i] = Classify(i) /\ \A j \in Intents \ {i} : fence'[j] = fence[j]
          /\ UNCHANGED <<intent, row, cp>>
        BY <1>16 DEF FenceForRollback, TurnInv, TypeOK
    <2>2. /\ Classify(i) = "no_effect_recorded" => ~Marked(i)
          /\ Classify(i) = "in_flight_fenced" => row[i].bound
          /\ Classify(i) = "terminal_retained" <=> row[i].state \in Terminal
          /\ Classify(i) # "blocked_unclassifiable"
        <3>1. row[i].state \in {"none", "prepared", "dispatch_pending", "unknown"} \cup Terminal \cup Active
            BY DEF TurnInv, TypeOK, RuntimeRow, Observable
        <3>2. (row[i].state = "prepared" => ~row[i].bound) /\ (row[i].state \in Active => row[i].bound)
            BY DEF TurnInv, TurnOK, Observable
        <3>. QED BY <3>1, <3>2 DEF Classify, Marked, Terminal, Active
    <2>3. ASSUME NEW j \in Intents PROVE TurnGood(j)
        <3>1. CASE j # i
            BY <2>1, <3>1, UntouchedTurn DEF Untouched
        <3>2. CASE j = i
            BY <2>1, <2>2, <3>2 DEF TurnInv, TurnGood, TurnOK, Keeps, Marked, Admitted, Terminal
        <3>. QED BY <3>1, <3>2
    <2>. QED BY <2>3
<1>17. ASSUME NEW i \in Intents, RuntimeStart(i)
       PROVE  \A j \in Intents : TurnGood(j)
    <2>1. RecordBecomes(i, "running")
        BY <1>17, RecordEffect DEF RuntimeStart, Active, TurnInv
    <2>. QED BY <1>17, <2>1, RecordMoves DEF RuntimeStart, Reached, Terminal
<1>18. ASSUME NEW i \in Intents, NEW s \in Terminal, RuntimeFinish(i, s)
       PROVE  \A j \in Intents : TurnGood(j)
    <2>1. RecordBecomes(i, s)
        BY <1>18, RecordEffect DEF RuntimeFinish, TurnInv
    <2>. QED BY <1>18, <2>1, RecordMoves DEF RuntimeFinish, Reached, Terminal, Active
<1>19. CASE UNCHANGED vars
    BY <1>19, QuietStep DEF vars
<1>. QED
    BY <1>1, <1>2, <1>3, <1>4, <1>5, <1>6, <1>7, <1>8, <1>9, <1>10, <1>11, <1>12, <1>13, <1>14,
       <1>15, <1>16, <1>17, <1>18, <1>19
       DEF Next, Surroundings, RequestStep

-----------------------------------------------------------------------------
(***************************************************************************)
(* One request across one step.                                            *)
(***************************************************************************)

\* A request that does not move keeps what it relies on, because no turn takes it back.
LEMMA RestingRequest ==
    ASSUME TurnInv, \A i \in Intents : TurnGood(i), NEW q \in Requests, req'[q] = req[q]
    PROVE  RequestOK(q)'
<1>1. CASE req[q].at = "idle"
    BY <1>1 DEF RequestOK
<1>2. CASE req[q].at # "idle"
    <2>1. req[q].intent \in Intents /\ RequestOK(q) /\ Keeps(req[q].intent)
        BY <1>2 DEF TurnInv, RequestOK, TurnGood
    <2>. QED BY <2>1 DEF RequestOK, Keeps, Marked
<1>. QED BY <1>1, <1>2

\* An idle request relies on nothing.
LEMMA IdleRequest ==
    ASSUME NEW q \in Requests, req'[q].at = "idle"
    PROVE  RequestOK(q)'
BY DEF RequestOK

\* Every step keeps what requests rely on.
LEMMA RequestsStep ==
    ASSUME TurnInv, [Next]_vars, \A i \in Intents : TurnGood(i)
    PROVE  \A q \in Requests : RequestOK(q)'
<1>0. SUFFICES ASSUME NEW q \in Requests, req'[q] # req[q], req'[q].at # "idle"
               PROVE  RequestOK(q)'
    BY RestingRequest, IdleRequest
<1>. USE <1>0
<1>. DEFINE others(r) == \A p \in Requests \ {r} : req'[p] = req[p]
<1>1. ASSUME NEW r \in Requests, NEW i \in Intents, PrepareBegin(r, i)
      PROVE  RequestOK(q)'
    <2>1. /\ req'[r].at = "preparing" /\ req'[r].intent = i /\ others(r)
          /\ i \in Admitted /\ UNCHANGED intent
        BY <1>1, BeginEffect DEF PrepareBegin, TurnInv, Stages, Effect, Live
    <2>. QED BY <2>1 DEF RequestOK, Admitted
<1>2. ASSUME NEW r \in Requests, NEW i \in Intents, DispatchBegin(r, i)
      PROVE  RequestOK(q)'
    <2>1. row[i].prep \in Preparations \cup {None}
        BY DEF TurnInv, TypeOK, RuntimeRow
    <2>2. /\ req'[r].at = "confirming" /\ req'[r].intent = i /\ others(r)
          /\ i \in Admitted /\ row[i].state # "none" /\ UNCHANGED <<intent, row>>
        BY <1>2, <2>1, BeginEffect DEF DispatchBegin, TurnInv, Stages, Effect, Live
    <2>. QED BY <2>2 DEF RequestOK, Admitted
<1>3. ASSUME NEW r \in Requests, NEW i \in Intents, StatusBegin(r, i)
      PROVE  RequestOK(q)'
    <2>1. row[i].prep \in Preparations \cup {None}
        BY DEF TurnInv, TypeOK, RuntimeRow
    <2>2. /\ req'[r].at = "lookup" \/ (req'[r].at = "polling" /\ row[i].bound)
          /\ req'[r].intent = i /\ others(r)
          /\ i \in Admitted /\ UNCHANGED <<intent, row, cp>>
        BY <1>3, <2>1, BeginEffect DEF StatusBegin, TurnInv, Stages, Historical, Live
    <2>3. row[i].bound => cp[i].state \in Reached
        BY DEF TurnInv, TurnOK
    <2>. QED BY <2>2, <2>3 DEF RequestOK, Admitted
<1>4. ASSUME NEW r \in Requests, NEW i \in Intents, CancelBegin(r, i)
      PROVE  RequestOK(q)'
    <2>1. row[i].prep \in Preparations \cup {None}
        BY DEF TurnInv, TypeOK, RuntimeRow
    <2>2. /\ req'[r].at = "cancelling" /\ req'[r].intent = i /\ others(r)
          /\ i \in Admitted /\ row[i].bound /\ UNCHANGED <<intent, cp>>
        BY <1>4, <2>1, BeginEffect DEF CancelBegin, TurnInv, Stages, Historical, Live
    <2>3. row[i].bound => cp[i].state \in Reached
        BY DEF TurnInv, TurnOK
    <2>. QED BY <2>2, <2>3 DEF RequestOK, Admitted
<1>5. ASSUME NEW r \in Requests, NEW s \in Observable, Poll(r, s)
      PROVE  RequestOK(q)'
    <2>. DEFINE i == req[r].intent
    <2>1. /\ i \in Intents /\ i \in Admitted /\ cp[i].state \in Reached
          /\ s = cp[i].state \/ s = "unknown"
        BY <1>5 DEF Poll, At, TurnInv, RequestOK
    <2>2. /\ req'[r].at = "reread" /\ req'[r].intent = i /\ req'[r].reply = s /\ others(r)
          /\ UNCHANGED <<intent, cp>>
        BY <1>5, AnsweredEffect DEF Poll, TurnInv
    <2>. QED BY <2>1, <2>2 DEF RequestOK, Admitted, Terminal
<1>6. ASSUME NEW r \in Requests, MarkPending(r)
      PROVE  RequestOK(q)'
    <2>. DEFINE i == req[r].intent
                s == PendingState(row[i].state)
    <2>1. /\ i \in Intents /\ i \in Admitted /\ row[i].state # "none" /\ NotFenced(i)
          /\ row[i].prep = req[r].prep
          /\ row' = [row EXCEPT ![i].state = s]
          /\ UNCHANGED <<intent, cp, fence>>
        BY <1>6 DEF MarkPending, MayDispatch, At, RequestOK, TurnInv
    <2>2. s \in {"none", "prepared", "dispatch_pending"} \cup Observable /\ s \notin {"none", "prepared"}
        BY <2>1 DEF TurnInv, TypeOK, RuntimeRow, PendingState
    <2>3. RowBecomes(i, s, row[i].bound, row[i].published)
        BY <2>1, <2>2, RowEffect DEF TurnInv
    <2>4. req'[r].at = "sending" /\ req'[r].intent = i /\ req'[r].prep = req[r].prep /\ others(r)
        BY <1>6, GoToEffect DEF MarkPending, Stages, TurnInv
    <2>. HIDE DEF s
    <2>. QED BY <2>1, <2>2, <2>3, <2>4 DEF RequestOK, Admitted, Marked, RowBecomes, NotFenced
<1>7. ASSUME NEW r \in Requests, RuntimeDispatch(r)
      PROVE  RequestOK(q)'
    <2>. DEFINE i == req[r].intent
    <2>1. /\ i \in Intents /\ i \in Admitted /\ Marked(i) /\ row[i].prep = req[r].prep
          /\ fence[i] # "no_effect_recorded" /\ UNCHANGED <<intent, row, fence>>
        BY <1>7 DEF RuntimeDispatch, At, RequestOK, TurnInv
    <2>2. cp'[i].state # "none"
        BY <1>7, <2>1 DEF RuntimeDispatch, TurnInv, TypeOK
    <2>3. \/ req'[r].at = "sent" /\ req'[r].intent = i /\ req'[r].prep = req[r].prep
          \/ req'[r].at = "idle"
        BY <1>7, GoToEffect, DoneEffect DEF RuntimeDispatch, Stages, TurnInv
    <2>4. others(r)
        BY <1>7, GoToEffect, DoneEffect DEF RuntimeDispatch, Stages, TurnInv
    <2>. QED BY <2>1, <2>2, <2>3, <2>4 DEF RequestOK, Admitted, Marked
<1>8. ASSUME NEW r \in Requests, DispatchAnswer(r)
      PROVE  RequestOK(q)'
    <2>. DEFINE i == req[r].intent
    <2>1. i \in Intents /\ i \in Admitted /\ cp[i].state \in Reached
        BY <1>8 DEF DispatchAnswer, At, RequestOK, TurnInv, TypeOK, Execution, Active, Terminal, Reached
    <2>2. cp[i].state \in Observable
        BY <2>1 DEF Reached, Observable, Active, Terminal
    <2>3. /\ req'[r].at = "reread" /\ req'[r].intent = i /\ req'[r].reply = cp[i].state /\ others(r)
          /\ UNCHANGED <<intent, cp>>
        BY <1>8, <2>2, AnsweredEffect DEF DispatchAnswer, TurnInv
    <2>. QED BY <2>1, <2>2, <2>3 DEF RequestOK, Admitted
<1>9. ASSUME NEW r \in Requests, LookupAnswer(r)
      PROVE  RequestOK(q)'
    <2>. DEFINE i == req[r].intent
    <2>1. i \in Intents /\ i \in Admitted /\ cp[i].state \in Reached
        BY <1>9 DEF LookupAnswer, At, RequestOK, TurnInv, TypeOK, Execution, Active, Terminal, Reached
    <2>2. req'[r].at = "recovering" /\ req'[r].intent = i /\ others(r) /\ UNCHANGED <<intent, cp>>
        BY <1>9, GoToEffect DEF LookupAnswer, Stages, TurnInv
    <2>. QED BY <2>1, <2>2 DEF RequestOK, Admitted
<1>10. ASSUME NEW r \in Requests, Recover(r)
       PROVE  RequestOK(q)'
    <2>. DEFINE i == req[r].intent
    <2>1. i \in Intents /\ i \in Admitted /\ cp[i].state \in Reached
        BY <1>10 DEF Recover, At, RequestOK, TurnInv
    <2>2. req'[r].at = "polling" /\ req'[r].intent = i /\ others(r) /\ UNCHANGED <<intent, cp>>
        BY <1>10, GoToEffect DEF Recover, Stages, TurnInv
    <2>. QED BY <2>1, <2>2 DEF RequestOK, Admitted
<1>11. ASSUME NEW r \in Requests, RuntimeCancel(r)
       PROVE  RequestOK(q)'
    <2>. DEFINE i == req[r].intent
                s == IF cp[i].state = "running" THEN "cancelling" ELSE cp[i].state
    <2>1. i \in Intents /\ i \in Admitted /\ cp[i].state \in Reached
        BY <1>11 DEF RuntimeCancel, At, RequestOK, TurnInv
    <2>2. s \in Reached /\ s \in Observable /\ s \in {"none", "dispatching"} \cup Active \cup Terminal
        BY <2>1 DEF Active, Terminal, Reached, Observable
    <2>3. cp' = [cp EXCEPT ![i].state = s] /\ (Answered(r, s) \/ Done(r)) /\ UNCHANGED intent
        BY <1>11 DEF RuntimeCancel
    <2>. HIDE DEF s
    <2>4. RecordBecomes(i, s)
        BY <2>1, <2>2, <2>3, RecordEffect DEF TurnInv
    <2>5. /\ \/ req'[r].at = "reread" /\ req'[r].intent = i /\ req'[r].reply = s
             \/ req'[r].at = "idle"
          /\ others(r)
        BY <2>2, <2>3, AnsweredEffect, DoneEffect DEF TurnInv
    <2>. QED BY <2>1, <2>2, <2>3, <2>4, <2>5 DEF RequestOK, Admitted, RecordBecomes
<1>12. ASSUME NEW r \in Requests, Reread(r)
       PROVE  RequestOK(q)'
    <2>. DEFINE i == req[r].intent
    <2>1. /\ i \in Intents /\ i \in Admitted /\ cp[i].state \in Reached /\ req[r].reply \in Observable
          /\ req[r].reply \in Terminal => cp[i].state = req[r].reply
        BY <1>12 DEF Reread, At, RequestOK, TurnInv
    <2>2. /\ req'[r].at = "observing" /\ req'[r].intent = i /\ req'[r].reply = req[r].reply /\ others(r)
          /\ UNCHANGED <<intent, cp>>
        BY <1>12, GoToEffect DEF Reread, Stages, TurnInv
    <2>. QED BY <2>1, <2>2 DEF RequestOK, Admitted
<1>13. ASSUME NEW r \in Requests, Observe(r)
       PROVE  RequestOK(q)'
    <2>. DEFINE i == req[r].intent
    <2>1. i \in Intents /\ i \in Admitted /\ cp[i].state \in Reached
        BY <1>13 DEF Observe, At, RequestOK, TurnInv
    <2>2. /\ (req'[r].at = "publishing" /\ req'[r].intent = i) \/ req'[r].at = "idle"
          /\ others(r) /\ UNCHANGED <<intent, cp>>
        BY <1>13, GoToEffect, DoneEffect DEF Observe, Stages, TurnInv
    <2>. QED BY <2>1, <2>2 DEF RequestOK, Admitted
<1>14. ASSUME NEW r \in Requests,
              (\E p \in Preparations : PrepareStore(r, p)) \/ Publish(r) \/ Abort(r)
       PROVE  FALSE
    BY <1>14, DoneEffect DEF PrepareStore, Publish, Abort, TurnInv
<1>15. CASE Surroundings \/ UNCHANGED vars
    BY <1>15 DEF Surroundings, vars, ChangeAuthority, ArchiveChannel, ExpirePreparation, Admit,
                 DeleteMessage, FenceForRollback, RuntimeStart, RuntimeFinish
<1>. QED
    BY <1>1, <1>2, <1>3, <1>4, <1>5, <1>6, <1>7, <1>8, <1>9, <1>10, <1>11, <1>12, <1>13, <1>14, <1>15
       DEF Next, RequestStep

-----------------------------------------------------------------------------
(***************************************************************************)
(* The admissions of the context.                                          *)
(***************************************************************************)

\* Only an admission numbers a turn.
LEMMA AttemptsFixed ==
    ASSUME TypeOK, [Next]_vars, \A i \in Intents : ~Admit(i)
    PROVE  \A i \in Intents : intent'[i].attempt = intent[i].attempt
<1>1. CASE ChangeAuthority \/ ArchiveChannel
    <2>1. \A i \in Intents : intent'[i] = [intent[i] EXCEPT !.pinned = FALSE]
        BY <1>1 DEF ChangeAuthority, ArchiveChannel, Unpinned
    <2>. QED BY <2>1 DEF TypeOK, IntentRow
<1>2. ASSUME NEW i \in Intents, DeleteMessage(i)
      PROVE  \A j \in Intents : intent'[j].attempt = intent[j].attempt
    <2>1. intent'[i] = [intent[i] EXCEPT !.deleted = TRUE] /\ \A j \in Intents \ {i} : intent'[j] = intent[j]
        BY <1>2 DEF DeleteMessage, TypeOK
    <2>. QED BY <2>1 DEF TypeOK, IntentRow
<1>3. CASE UNCHANGED intent
    BY <1>3
<1>4. ASSUME NEW r \in Requests, RequestStep(r)
      PROVE  UNCHANGED intent
    BY <1>4 DEF RequestStep, PrepareBegin, DispatchBegin, StatusBegin, CancelBegin, PrepareStore, Poll,
       MarkPending, RuntimeDispatch, DispatchAnswer, LookupAnswer, Recover, RuntimeCancel, Reread,
       Observe, Publish, Abort
<1>5. CASE UNCHANGED vars
    BY <1>5 DEF vars
<1>. QED
    BY <1>1, <1>2, <1>3, <1>4, <1>5 DEF Next, Surroundings, ExpirePreparation, FenceForRollback,
       RuntimeStart, RuntimeFinish

\* A turn takes the number after the newest retained one.  Numbers have no gaps, so when that one
\* is free it is the first free one, and everything before it is settled: deleting the messages of
\* unsettled turns never lets another one start.
LEMMA AdmitIsLast ==
    ASSUME Inv, NEW i \in Intents, Admit(i)
    PROVE  \E n \in Nat \ {0} :
              /\ intent' = [intent EXCEPT ![i] = [attempt |-> n, pinned |-> TRUE, deleted |-> FALSE]]
              /\ \A j \in Admitted : intent[j].attempt < n /\ RuntimeSettled(j)
              /\ \A m \in 1 .. (n - 1) : \E j \in Admitted : intent[j].attempt = m
<1>. DEFINE a(j) == intent[j].attempt
<1>1. PICK n \in 1 .. Cardinality(Intents) :
        /\ IsNextAttempt(n) /\ AttemptFree(n)
        /\ intent' = [intent EXCEPT ![i] = [attempt |-> n, pinned |-> TRUE, deleted |-> FALSE]]
    BY DEF Admit
<1>2. Cardinality(Intents) \in Nat
    BY FS_CardinalityType, IntentsFinite
<1>3. n \in Nat \ {0}
    BY <1>1, <1>2
<1>4. \A j \in Admitted : a(j) \in Nat \ {0}
    BY <1>2 DEF Admitted, Inv, TurnInv, TypeOK, IntentRow, Attempts
<1>5. \A j \in Admitted : a(j) < n
    <2>. SUFFICES ASSUME NEW j \in Admitted, ~(a(j) < n) PROVE FALSE
        OBVIOUS
    <2>1. n \in 1 .. a(j)
        BY <1>3, <1>4
    <2>2. \E k \in Admitted : a(k) = n
        BY <2>1 DEF Inv, AttemptsOK
    <2>. QED BY <1>1, <2>2 DEF AttemptFree
<1>6. CASE Retained = {} /\ n = 1
    <2>1. Admitted = {}
        BY <1>4, <1>5, <1>6
    <2>2. 1 .. (n - 1) = {}
        BY <1>6
    <2>. QED BY <1>1, <1>3, <2>1, <2>2
<1>7. CASE \E l \in Retained : Newest(l) /\ n = a(l) + 1
    <2>1. PICK l \in Retained : Newest(l) /\ n = a(l) + 1
        BY <1>7
    <2>2. l \in Admitted /\ RuntimeSettled(l)
        BY <2>1 DEF Retained, Admit, MayAdmit
    <2>3. \A j \in Admitted : RuntimeSettled(j)
        <3>. SUFFICES ASSUME NEW j \in Admitted PROVE RuntimeSettled(j)
            OBVIOUS
        <3>1. a(j) < a(l) \/ a(j) = a(l)
            BY <1>4, <1>5, <2>1, <2>2
        <3>. QED BY <2>2, <3>1 DEF Inv, AttemptsOK
    <2>4. \A m \in 1 .. (n - 1) : \E j \in Admitted : a(j) = m
        <3>1. n - 1 = a(l)
            BY <1>4, <2>1, <2>2
        <3>. QED BY <2>2, <3>1 DEF Inv, AttemptsOK
    <2>. QED BY <1>1, <1>3, <1>5, <2>3, <2>4
<1>. QED BY <1>1, <1>6, <1>7 DEF IsNextAttempt

\* Every step keeps the numbering, and all turns but the last settled.
LEMMA AttemptsStep ==
    ASSUME Inv, [Next]_vars, \A i \in Intents : TurnGood(i)
    PROVE  AttemptsOK'
<1>1. \A i \in Intents : RuntimeSettled(i) => RuntimeSettled(i)'
    BY DEF TurnGood, Keeps, RuntimeSettled, Terminal
<1>2. CASE \A i \in Intents : ~Admit(i)
    <2>1. \A i \in Intents : intent'[i].attempt = intent[i].attempt
        BY <1>2, AttemptsFixed DEF Inv, TurnInv
    <2>2. Admitted' = Admitted
        BY <2>1 DEF Admitted
    <2>3. \A i \in Admitted : i \in Intents
        BY DEF Admitted
    <2>. QED BY <1>1, <2>1, <2>2, <2>3 DEF Inv, AttemptsOK
<1>3. ASSUME NEW i \in Intents, Admit(i) PROVE AttemptsOK'
    <2>1. PICK n \in Nat \ {0} :
            /\ intent' = [intent EXCEPT ![i] = [attempt |-> n, pinned |-> TRUE, deleted |-> FALSE]]
            /\ \A j \in Admitted : intent[j].attempt < n /\ RuntimeSettled(j)
            /\ \A m \in 1 .. (n - 1) : \E j \in Admitted : intent[j].attempt = m
        BY <1>3, AdmitIsLast
    <2>2. intent'[i].attempt = n /\ \A j \in Intents \ {i} : intent'[j] = intent[j]
        BY <2>1 DEF Inv, TurnInv, TypeOK
    <2>3. i \notin Admitted /\ Admitted' = Admitted \cup {i}
        BY <1>3, <2>2 DEF Admit, Admitted
    <2>4. \A j \in Admitted : /\ j \in Intents \ {i} /\ intent'[j].attempt = intent[j].attempt
                              /\ intent[j].attempt \in Nat
        <3>1. \A j \in Intents : intent[j].attempt \in Nat
            BY FS_CardinalityType, IntentsFinite DEF Inv, TurnInv, TypeOK, IntentRow, Attempts
        <3>. QED BY <2>2, <2>3, <3>1 DEF Admitted
    <2>5. \A j, k \in Admitted' : intent'[j].attempt = intent'[k].attempt => j = k
        BY <2>1, <2>2, <2>3, <2>4 DEF Inv, AttemptsOK
    <2>6. \A j \in Admitted' : \A m \in 1 .. intent'[j].attempt : \E k \in Admitted' : intent'[k].attempt = m
        <3>. SUFFICES ASSUME NEW j \in Admitted', NEW m \in 1 .. intent'[j].attempt
                      PROVE  \E k \in Admitted' : intent'[k].attempt = m
            OBVIOUS
        <3>1. CASE j = i
            <4>1. m = n \/ m \in 1 .. (n - 1)
                BY <2>2, <3>1
            <4>. QED BY <2>1, <2>2, <2>3, <2>4, <4>1
        <3>2. CASE j \in Admitted
            <4>1. PICK k \in Admitted : intent[k].attempt = m
                BY <2>4, <3>2 DEF Inv, AttemptsOK
            <4>. QED BY <2>3, <2>4, <4>1
        <3>. QED BY <2>3, <3>1, <3>2
    <2>7. \A j, k \in Admitted' : intent'[j].attempt < intent'[k].attempt => RuntimeSettled(j)'
        <3>. SUFFICES ASSUME NEW j \in Admitted', NEW k \in Admitted', intent'[j].attempt < intent'[k].attempt
                      PROVE  RuntimeSettled(j)'
            OBVIOUS
        <3>1. j # i
            BY <2>1, <2>2, <2>3, <2>4
        <3>. QED BY <1>1, <2>1, <2>3, <2>4, <3>1
    <2>. QED BY <2>5, <2>6, <2>7 DEF AttemptsOK
<1>. QED BY <1>2, <1>3

-----------------------------------------------------------------------------
(***************************************************************************)
(* The invariant, and what follows from it.                                *)
(***************************************************************************)

\* No turn, no execution and no request satisfy the invariant.
LEMMA InitInv == Init => Inv
<1>. SUFFICES ASSUME Init PROVE Inv
    OBVIOUS
<1>1. TypeOK
    <2>1. NoRow \in RuntimeRow
        BY DEF NoRow, RuntimeRow
    <2>2. Idle \in RequestState
        BY DEF Idle, RequestState, Stages
    <2>3. [state |-> "none", prep |-> None] \in Execution
        BY DEF Execution
    <2>4. [attempt |-> 0, pinned |-> FALSE, deleted |-> FALSE] \in IntentRow
        BY FS_CardinalityType, IntentsFinite DEF IntentRow, Attempts
    <2>. QED BY <2>1, <2>2, <2>3, <2>4 DEF Init, TypeOK
<1>2. \A i \in Intents : TurnOK(i)
    BY DEF Init, TurnOK, NoRow, Marked, Observable, Terminal, Active, Reached
<1>3. \A r \in Requests : RequestOK(r)
    BY DEF Init, RequestOK, Idle
<1>4. Admitted = {}
    BY DEF Init, Admitted
<1>. QED BY <1>1, <1>2, <1>3, <1>4 DEF Inv, TurnInv, AttemptsOK

\* Every action keeps the invariant.
LEMMA InvStep == Inv /\ [Next]_vars => Inv'
<1>. SUFFICES ASSUME Inv, [Next]_vars PROVE Inv'
    OBVIOUS
<1>1. TypeOK'
    BY TypeStep DEF Inv
<1>2. \A i \in Intents : TurnGood(i)
    BY TurnStep DEF Inv
<1>3. \A r \in Requests : RequestOK(r)'
    BY <1>2, RequestsStep DEF Inv
<1>4. AttemptsOK'
    BY <1>2, AttemptsStep
<1>. QED BY <1>1, <1>2, <1>3, <1>4 DEF Inv, TurnInv, TurnGood

\* The invariant holds in every reachable state.
LEMMA Invariant == Spec => []Inv
BY InitInv, InvStep, PTL DEF Spec

\* The tables of LeadTurns hold what their columns admit in every reachable state.
THEOREM TypeCorrect == Spec => []TypeOK
BY Invariant, PTL DEF Inv, TurnInv

\* A fence never lies about the runtime: what it recorded as without effect never executes, what it
\* recorded in flight or terminal was (lead-turn-rollback-policy.ts).
THEOREM FenceTruth == Spec => []FenceTellsTruth
<1>1. Inv => FenceTellsTruth
    BY DEF Inv, TurnInv, TurnOK, FenceTellsTruth, Reached, Terminal, Marked
<1>. QED BY Invariant, <1>1, PTL

\* Nothing is published under a fence (publishLeadTurnResult).
THEOREM PublicationFenced == Spec => []PublishedBeforeFence
<1>1. Inv => PublishedBeforeFence
    BY DEF Inv, TurnInv, TurnOK, PublishedBeforeFence, Terminal
<1>. QED BY Invariant, <1>1, PTL

\* What runs is what the row prepared (prepare and markLeadTurnDispatchPending).
THEOREM RunsAsPrepared == Spec => []ExecutedAsPrepared
<1>1. Inv => ExecutedAsPrepared
    BY DEF Inv, TurnInv, TurnOK, ExecutedAsPrepared
<1>. QED BY Invariant, <1>1, PTL

\* A recorded outcome is the runtime's (observeLeadTurnRuntime).
THEOREM OutcomesTrue == Spec => []OutcomeIsTrue
<1>1. Inv => OutcomeIsTrue
    BY DEF Inv, TurnInv, TurnOK, OutcomeIsTrue
<1>. QED BY Invariant, <1>1, PTL

\* Two turns of the context in flight would be two last admissions.
LEMMA FlightIsLast ==
    ASSUME Inv
    PROVE  \A i, j \in Intents : InFlight(i) /\ cp[j].state \notin Terminal /\ j \in Admitted => i = j
<1>. SUFFICES ASSUME NEW i \in Intents, NEW j \in Intents, InFlight(i), cp[j].state \notin Terminal,
                     j \in Admitted
              PROVE  i = j
    OBVIOUS
<1>1. i \in Admitted /\ cp[i].state \notin Terminal
    BY DEF InFlight, Inv, TurnInv, TurnOK, Marked, Active, Terminal
<1>2. ~RuntimeSettled(i) /\ ~RuntimeSettled(j)
    BY <1>1 DEF Inv, TurnInv, TurnOK, RuntimeSettled, Terminal
<1>3. intent[i].attempt \in Nat /\ intent[j].attempt \in Nat
    BY FS_CardinalityType, IntentsFinite DEF Inv, TurnInv, TypeOK, IntentRow, Attempts
<1>4. ~(intent[i].attempt < intent[j].attempt) /\ ~(intent[j].attempt < intent[i].attempt)
    BY <1>1, <1>2 DEF Inv, AttemptsOK
<1>. QED BY <1>1, <1>3, <1>4 DEF Inv, AttemptsOK

\* One context, one execution (createLeadTurn, with lead_turn_intents_target_unique).
THEOREM OneInFlight == Spec => []OneExecutionInFlight
<1>1. Inv => OneExecutionInFlight
    <2>. SUFFICES ASSUME Inv, NEW i \in Intents, NEW j \in Intents, InFlight(i), InFlight(j)
                  PROVE  i = j
        BY DEF OneExecutionInFlight
    <2>1. j \in Admitted /\ cp[j].state \notin Terminal
        BY DEF InFlight, Inv, TurnInv, TurnOK, Marked, Active, Terminal
    <2>. QED BY <2>1, FlightIsLast
<1>. QED BY Invariant, <1>1, PTL

\* No later answer replaces a recorded outcome (observeLeadTurnRuntime).
THEOREM OutcomesFinal == Spec => OutcomeIsFinal
<1>1. Inv /\ [Next]_vars => [\A i \in Intents : row[i].state \in Terminal => row'[i].state = row[i].state]_vars
    BY TurnStep DEF Inv, TurnGood, Keeps
<1>. QED BY Invariant, <1>1, PTL DEF Spec, OutcomeIsFinal

-----------------------------------------------------------------------------
(***************************************************************************)
(* The contract.                                                           *)
(***************************************************************************)

\* A step that changes nothing the contract sees.
SameView(i) ==
    /\ PhaseOf(i)' = PhaseOf(i) /\ ReportOf(i)' = ReportOf(i) /\ FenceOf(i)' = FenceOf(i)
    /\ row'[i].published = row[i].published

\* A step that changes the view of no turn is a stutter of the contract.
LEMMA StutterStep ==
    ASSUME \A i \in Intents : SameView(i)
    PROVE  UNCHANGED Contract!vars
BY DEF SameView, Contract!vars

\* The view of a turn depends on its three rows alone.
LEMMA QuietView ==
    ASSUME NEW i \in Intents, row'[i] = row[i], cp'[i] = cp[i], fence'[i] = fence[i]
    PROVE  SameView(i)
BY DEF SameView, PhaseOf, ReportOf, FenceOf, InFlight

\* The initial states are initial states of the contract.
LEMMA InitRefines == Init => Contract!Init
BY DEF Init, Contract!Init, PhaseOf, ReportOf, FenceOf, NoRow, Terminal

\* A row that takes a state says no more and no less, unless the state is an outcome.
LEMMA RowView ==
    ASSUME NEW i \in Intents, NEW s, NEW b, RowBecomes(i, s, b, row[i].published), UNCHANGED <<cp, fence>>,
           s = row[i].state \/ (s \notin Terminal /\ row[i].state \notin Terminal)
    PROVE  \A j \in Intents : SameView(j)
<1>. SUFFICES ASSUME NEW j \in Intents PROVE SameView(j)
    OBVIOUS
<1>1. CASE j # i
    BY <1>1, QuietView DEF RowBecomes
<1>2. CASE j = i
    BY <1>2 DEF RowBecomes, SameView, PhaseOf, ReportOf, FenceOf, InFlight
<1>. QED BY <1>1, <1>2

\* A turn that starts or is asked to stop in the runtime still executes.
LEMMA RecordView ==
    ASSUME NEW i \in Intents, NEW s, RecordBecomes(i, s), UNCHANGED <<row, fence>>,
           s = cp[i].state \/ (InFlight(i) /\ s \in Active)
    PROVE  \A j \in Intents : SameView(j)
<1>. SUFFICES ASSUME NEW j \in Intents PROVE SameView(j)
    OBVIOUS
<1>1. CASE j # i
    BY <1>1, QuietView DEF RecordBecomes
<1>2. CASE j = i
    BY <1>2 DEF RecordBecomes, SameView, PhaseOf, ReportOf, FenceOf, InFlight, Active
<1>. QED BY <1>1, <1>2

\* Every step is a step of the contract or leaves its view alone.
LEMMA StepRefines ==
    ASSUME Inv, [Next]_vars
    PROVE  [Contract!Next]_(Contract!vars)
<1>. DEFINE ok == [Contract!Next]_(Contract!vars)
            same == \A i \in Intents : SameView(i)
<1>0. same => ok
    BY StutterStep
<1>q. UNCHANGED <<row, cp, fence>> => same
    BY QuietView
<1>1. ASSUME NEW r \in Requests, NEW i \in Intents,
             PrepareBegin(r, i) \/ DispatchBegin(r, i) \/ StatusBegin(r, i)
      PROVE  same
    BY <1>1, <1>q DEF PrepareBegin, DispatchBegin, StatusBegin
<1>2. ASSUME NEW r \in Requests,
             DispatchAnswer(r) \/ LookupAnswer(r) \/ Reread(r) \/ Abort(r)
      PROVE  same
    BY <1>2, <1>q DEF DispatchAnswer, LookupAnswer, Reread, Abort
<1>3. ASSUME NEW r \in Requests, NEW s \in Observable, Poll(r, s)
      PROVE  same
    BY <1>3, <1>q DEF Poll
<1>4. ASSUME NEW r \in Requests, NEW i \in Intents, CancelBegin(r, i)
      PROVE  same
    <2>1. RowBecomes(i, row[i].state, row[i].bound, row[i].published) /\ UNCHANGED <<cp, fence>>
        BY <1>4, RowEffect DEF CancelBegin, Inv, TurnInv
    <2>. QED BY <2>1, RowView
<1>5. ASSUME NEW r \in Requests, NEW p \in Preparations, PrepareStore(r, p)
      PROVE  same
    <2>. DEFINE i == req[r].intent
    <2>1. i \in Intents /\ UNCHANGED <<cp, fence>>
        BY <1>5 DEF PrepareStore, At, RequestOK, Inv, TurnInv
    <2>2. \/ row' = row
          \/ /\ row[i].state = "none" /\ row'[i].state = "prepared" /\ ~row'[i].published
             /\ \A j \in Intents \ {i} : row'[j] = row[j]
        BY <1>5, <2>1, StoreEffect DEF PrepareStore, Inv, TurnInv
    <2>3. row[i].state = "none" => row[i].published = FALSE
        BY <2>1 DEF Inv, TurnInv, TurnOK, NoRow
    <2>4. row'[i].published \in BOOLEAN
        BY <2>1, TypeStep DEF Inv, TypeOK, RuntimeRow
    <2>5. ASSUME row' # row, NEW j \in Intents PROVE SameView(j)
        <3>1. CASE j # i
            BY <2>1, <2>2, <2>5, <3>1, QuietView
        <3>2. CASE j = i
            BY <2>1, <2>2, <2>3, <2>4, <2>5, <3>2 DEF SameView, PhaseOf, ReportOf, FenceOf, InFlight, Terminal
        <3>. QED BY <3>1, <3>2
    <2>. QED BY <2>1, <2>5, <1>q
<1>6. ASSUME NEW r \in Requests, MarkPending(r)
      PROVE  same
    <2>. DEFINE i == req[r].intent
                s == PendingState(row[i].state)
    <2>1. i \in Intents /\ row' = [row EXCEPT ![i].state = s] /\ UNCHANGED <<cp, fence>>
        BY <1>6 DEF MarkPending, At, RequestOK, Inv, TurnInv
    <2>2. s \in {"none", "prepared", "dispatch_pending"} \cup Observable
        BY <2>1 DEF Inv, TurnInv, TypeOK, RuntimeRow, PendingState
    <2>3. s = row[i].state \/ (s \notin Terminal /\ row[i].state \notin Terminal)
        BY DEF PendingState, Terminal
    <2>. HIDE DEF i, s
    <2>4. RowBecomes(i, s, row[i].bound, row[i].published)
        BY <2>1, <2>2, RowEffect DEF Inv, TurnInv
    <2>. QED BY <2>1, <2>3, <2>4, RowView
<1>7. ASSUME NEW r \in Requests, RuntimeDispatch(r)
      PROVE  ok
    <2>0. PICK i \in Intents : i = req[r].intent
        BY <1>7 DEF RuntimeDispatch, At, RequestOK, Inv, TurnInv
    <2>1. /\ i \in Admitted /\ fence[i] # "no_effect_recorded" /\ UNCHANGED <<row, fence>>
          /\ cp' = IF cp[i].state = "none" THEN [cp EXCEPT ![i] = [state |-> "dispatching", prep |-> req[r].prep]]
                   ELSE cp
        BY <1>7, <2>0 DEF RuntimeDispatch, At, RequestOK, Inv, TurnInv
    <2>2. CASE cp' = cp
        BY <2>1, <2>2, <1>0, <1>q
    <2>3. CASE cp' # cp
        <3>1. cp[i].state = "none" /\ cp' = [cp EXCEPT ![i] = [state |-> "dispatching", prep |-> req[r].prep]]
            BY <2>1, <2>3
        <3>2. cp'[i].state = "dispatching" /\ \A j \in Intents \ {i} : cp'[j] = cp[j]
            BY <2>1, <3>1 DEF Inv, TurnInv, TypeOK
        <3>3. \A j \in Intents : ~InFlight(j)
            <4>1. cp[i].state \notin Terminal /\ ~InFlight(i)
                BY <3>1 DEF Terminal, InFlight, Active
            <4>. QED BY <2>1, <4>1, FlightIsLast
        <3>4. \A j \in Intents : PhaseOf(j) # "executing"
            BY <3>3 DEF PhaseOf, InFlight, Inv, TurnInv, TypeOK, Execution, Active, Terminal
        <3>5. PhaseOf(i) = "waiting" /\ PhaseOf(i)' = "executing"
            BY <2>1, <3>1, <3>2 DEF PhaseOf, InFlight
        <3>6. FenceOf(i) # "void"
            BY <2>1 DEF FenceOf
        <3>7. /\ \A j \in Intents \ {i} : PhaseOf(j)' = PhaseOf(j)
              /\ \A j \in Intents : ReportOf(j)' = ReportOf(j) /\ FenceOf(j)' = FenceOf(j)
            BY <2>1, <3>2 DEF PhaseOf, InFlight, ReportOf, FenceOf
        <3>8. Contract!Execute(i)
            <4>1. [j \in Intents |-> PhaseOf(j)]' = [[j \in Intents |-> PhaseOf(j)] EXCEPT ![i] = "executing"]
                BY <2>1, <3>5, <3>7
            <4>2. [j \in Intents |-> PhaseOf(j)][i] = "waiting" /\ [j \in Intents |-> FenceOf(j)][i] # "void"
                BY <2>1, <3>5, <3>6
            <4>3. \A u \in Intents : [j \in Intents |-> PhaseOf(j)][u] # "executing"
                BY <3>4
            <4>4. [j \in Intents |-> ReportOf(j)]' = [j \in Intents |-> ReportOf(j)]
                BY <3>7
            <4>5. [j \in Intents |-> FenceOf(j)]' = [j \in Intents |-> FenceOf(j)]
                BY <3>7
            <4>6. {j \in Intents : row[j].published}' = {j \in Intents : row[j].published}
                BY <2>1
            <4>. QED BY <4>1, <4>2, <4>3, <4>4, <4>5, <4>6 DEF Contract!Execute
        <3>. QED BY <2>1, <3>8 DEF Contract!Next
    <2>. QED BY <2>2, <2>3
<1>8. ASSUME NEW r \in Requests, Recover(r)
      PROVE  same
    <2>. DEFINE i == req[r].intent
    <2>1. i \in Intents /\ row' = [row EXCEPT ![i].bound = TRUE] /\ UNCHANGED <<cp, fence>>
        BY <1>8 DEF Recover, At, RequestOK, Inv, TurnInv
    <2>2. RowBecomes(i, row[i].state, TRUE, row[i].published)
        BY <2>1, RowEffect DEF Inv, TurnInv
    <2>. QED BY <2>1, <2>2, RowView
<1>9. ASSUME NEW r \in Requests, RuntimeCancel(r)
      PROVE  same
    <2>. DEFINE i == req[r].intent
                s == IF cp[i].state = "running" THEN "cancelling" ELSE cp[i].state
    <2>1. i \in Intents /\ cp[i].state \in Reached
        BY <1>9 DEF RuntimeCancel, At, RequestOK, Inv, TurnInv
    <2>2. s \in {"none", "dispatching"} \cup Active \cup Terminal
        BY <2>1 DEF Active, Terminal, Reached
    <2>3. cp' = [cp EXCEPT ![i].state = s] /\ UNCHANGED <<row, fence>>
        BY <1>9 DEF RuntimeCancel
    <2>4. s = cp[i].state \/ (InFlight(i) /\ s \in Active)
        BY DEF InFlight, Active
    <2>. HIDE DEF s, i
    <2>5. RecordBecomes(i, s)
        BY <2>1, <2>2, <2>3, RecordEffect DEF Inv, TurnInv
    <2>. QED BY <2>1, <2>3, <2>4, <2>5, RecordView
<1>10. ASSUME NEW r \in Requests, Observe(r)
       PROVE  ok
    <2>0. PICK i \in Intents, s \in Observable : i = req[r].intent /\ s = req[r].reply
        BY <1>10 DEF Observe, At, RequestOK, Inv, TurnInv
    <2>1. /\ s \in Terminal => cp[i].state = s
          /\ row' = [row EXCEPT ![i] = Observed(i, s)]
          /\ UNCHANGED <<cp, fence>>
        BY <1>10, <2>0 DEF Observe, At, RequestOK, Inv, TurnInv
    <2>2. CASE row[i].state \in Terminal
        BY <2>1, <2>2, ObservedEffect, <1>0, <1>q DEF Inv, TurnInv
    <2>3. CASE row[i].state \notin Terminal
        <3>1. RowBecomes(i, s, TRUE, row[i].published)
            BY <2>1, <2>3, ObservedEffect DEF Inv, TurnInv
        <3>2. CASE s \notin Terminal
            BY <2>1, <2>3, <3>1, <3>2, RowView, <1>0
        <3>3. CASE s \in Terminal
            <4>1. PhaseOf(i) = s
                BY <2>1, <3>3 DEF PhaseOf, InFlight, Terminal, Active
            <4>2. ReportOf(i) = "open" /\ ReportOf(i)' = s
                BY <2>3, <3>1, <3>3 DEF ReportOf, RowBecomes
            <4>3. /\ \A j \in Intents \ {i} : ReportOf(j)' = ReportOf(j)
                  /\ \A j \in Intents : /\ PhaseOf(j)' = PhaseOf(j) /\ FenceOf(j)' = FenceOf(j)
                                         /\ row'[j].published = row[j].published
                BY <2>1, <3>1 DEF PhaseOf, InFlight, ReportOf, FenceOf, RowBecomes
            <4>4. Contract!Report(i)
                <5>1. [j \in Intents |-> ReportOf(j)]' = [[j \in Intents |-> ReportOf(j)] EXCEPT ![i] = s]
                    BY <2>1, <4>3, <4>2
                <5>2. [j \in Intents |-> PhaseOf(j)][i] = s /\ [j \in Intents |-> ReportOf(j)][i] = "open"
                    BY <2>1, <4>1, <4>2
                <5>3. [j \in Intents |-> PhaseOf(j)]' = [j \in Intents |-> PhaseOf(j)]
                    BY <4>3
                <5>4. [j \in Intents |-> FenceOf(j)]' = [j \in Intents |-> FenceOf(j)]
                    BY <4>3
                <5>5. {j \in Intents : row[j].published}' = {j \in Intents : row[j].published}
                    BY <4>3
                <5>. QED BY <3>3, <5>1, <5>2, <5>3, <5>4, <5>5 DEF Contract!Report
            <4>. QED BY <2>1, <4>4 DEF Contract!Next
        <3>. QED BY <3>2, <3>3
    <2>. QED BY <2>2, <2>3
<1>11. ASSUME NEW r \in Requests, Publish(r)
       PROVE  ok
    <2>0. PICK i \in Intents : i = req[r].intent
        BY <1>11 DEF Publish, At, RequestOK, Inv, TurnInv
    <2>1. /\ row[i].state = "completed" /\ NotFenced(i)
          /\ row' = [row EXCEPT ![i].published = TRUE]
          /\ UNCHANGED <<cp, fence>>
        BY <1>11, <2>0 DEF Publish, MayPublish, At, RequestOK, Inv, TurnInv
    <2>2. RowBecomes(i, row[i].state, row[i].bound, TRUE)
        BY <2>1, RowEffect DEF Inv, TurnInv
    <2>3. CASE row[i].published
        <3>1. row[i].published = TRUE
            BY <2>1, <2>3 DEF Inv, TurnInv, TypeOK, RuntimeRow
        <3>. QED BY <2>1, <2>2, <3>1, RowView, <1>0
    <2>4. CASE ~row[i].published
        <3>1. ReportOf(i) = "completed" /\ FenceOf(i) = "none"
            BY <2>1 DEF ReportOf, FenceOf, NotFenced, Terminal
        <3>2. \A j \in Intents : PhaseOf(j)' = PhaseOf(j) /\ ReportOf(j)' = ReportOf(j) /\ FenceOf(j)' = FenceOf(j)
            BY <2>1, <2>2 DEF PhaseOf, InFlight, ReportOf, FenceOf, RowBecomes
        <3>3. row'[i].published /\ \A j \in Intents \ {i} : row'[j].published = row[j].published
            BY <2>2 DEF RowBecomes
        <3>4. Contract!Publish(i)
            <4>1. {j \in Intents : row[j].published}' = {j \in Intents : row[j].published} \cup {i}
                BY <2>1, <3>3
            <4>2. [j \in Intents |-> ReportOf(j)][i] = "completed" /\ [j \in Intents |-> FenceOf(j)][i] = "none"
                BY <2>1, <3>1
            <4>3. [j \in Intents |-> PhaseOf(j)]' = [j \in Intents |-> PhaseOf(j)]
                BY <3>2
            <4>4. [j \in Intents |-> ReportOf(j)]' = [j \in Intents |-> ReportOf(j)]
                BY <3>2
            <4>5. [j \in Intents |-> FenceOf(j)]' = [j \in Intents |-> FenceOf(j)]
                BY <3>2
            <4>. QED BY <2>4, <4>1, <4>2, <4>3, <4>4, <4>5 DEF Contract!Publish
        <3>. QED BY <2>1, <3>4 DEF Contract!Next
    <2>. QED BY <2>3, <2>4
<1>12. CASE ChangeAuthority \/ ArchiveChannel
    BY <1>0, <1>12, <1>q DEF ChangeAuthority, ArchiveChannel
<1>13. ASSUME NEW p \in Preparations, ExpirePreparation(p)
       PROVE  same
    BY <1>13, <1>q DEF ExpirePreparation
<1>14. ASSUME NEW i \in Intents, Admit(i) \/ DeleteMessage(i)
       PROVE  same
    BY <1>14, <1>q DEF Admit, DeleteMessage
<1>15. ASSUME NEW i \in Intents, FenceForRollback(i)
       PROVE  ok
    <2>1. /\ fence[i] = "none" /\ fence'[i] = Classify(i) /\ \A j \in Intents \ {i} : fence'[j] = fence[j]
          /\ UNCHANGED <<row, cp>>
        BY <1>15 DEF FenceForRollback, FirstFence, NotFenced, Inv, TurnInv, TypeOK
    <2>2. /\ Classify(i) = "no_effect_recorded" => ~Marked(i)
          /\ Classify(i) = "terminal_retained" => row[i].state \in Terminal
          /\ Classify(i) # "none"
        <3>1. row[i].state \in {"none", "prepared", "dispatch_pending", "unknown"} \cup Terminal \cup Active
            BY DEF Inv, TurnInv, TypeOK, RuntimeRow, Observable
        <3>. QED BY <3>1 DEF Classify, Marked, Terminal, Active
    <2>3. /\ FenceOf(i) = "none" /\ FenceOf(i)' \in {"void", "ended", "uncertain"}
          /\ FenceOf(i)' = "void" => PhaseOf(i) = "waiting"
          /\ FenceOf(i)' = "ended" => ReportOf(i) # "open"
        BY <2>1, <2>2 DEF FenceOf, PhaseOf, ReportOf, Inv, TurnInv, TurnOK, Terminal
    <2>4. /\ \A j \in Intents \ {i} : FenceOf(j)' = FenceOf(j)
          /\ \A j \in Intents : PhaseOf(j)' = PhaseOf(j) /\ ReportOf(j)' = ReportOf(j)
        BY <2>1 DEF FenceOf, PhaseOf, InFlight, ReportOf
    <2>5. Contract!Fence(i, FenceOf(i)')
        BY <2>1, <2>3, <2>4 DEF Contract!Fence
    <2>. QED BY <2>3, <2>5 DEF Contract!Next
<1>16. ASSUME NEW i \in Intents, RuntimeStart(i)
       PROVE  same
    <2>1. RecordBecomes(i, "running")
        BY <1>16, RecordEffect DEF RuntimeStart, Active, Inv, TurnInv
    <2>. QED BY <1>16, <2>1, RecordView DEF RuntimeStart, InFlight, Active
<1>17. ASSUME NEW i \in Intents, NEW s \in Terminal, RuntimeFinish(i, s)
       PROVE  ok
    <2>1. RecordBecomes(i, s) /\ cp[i].state \in Active /\ UNCHANGED <<row, fence>>
        BY <1>17, RecordEffect DEF RuntimeFinish, Inv, TurnInv
    <2>2. PhaseOf(i) = "executing" /\ PhaseOf(i)' = s
        BY <2>1 DEF PhaseOf, InFlight, RecordBecomes, Active, Terminal
    <2>3. /\ \A j \in Intents \ {i} : PhaseOf(j)' = PhaseOf(j)
          /\ \A j \in Intents : ReportOf(j)' = ReportOf(j) /\ FenceOf(j)' = FenceOf(j)
        BY <2>1 DEF PhaseOf, InFlight, ReportOf, FenceOf, RecordBecomes
    <2>4. Contract!End(i, s)
        BY <2>1, <2>2, <2>3 DEF Contract!End
    <2>. QED BY <2>4 DEF Contract!Next
<1>18. CASE UNCHANGED vars
    BY <1>0, <1>18, <1>q DEF vars
<1>. QED
    BY <1>0, <1>1, <1>2, <1>3, <1>4, <1>5, <1>6, <1>7, <1>8, <1>9, <1>10, <1>11, <1>12, <1>13, <1>14,
       <1>15, <1>16, <1>17, <1>18
       DEF Next, Surroundings, RequestStep

\* Racing, retried and interrupted requests, lost and late answers, deletions and fences implement
\* the contract of one context (lead-turns.ts, lead-turn-runtime.ts).
THEOREM Refinement == Spec => ImplementsContract
<1>1. Inv /\ [Next]_vars => [Contract!Next]_(Contract!vars)
    BY StepRefines
<1>. QED BY Invariant, InitRefines, <1>1, PTL DEF Spec, ImplementsContract, Contract!Spec

=============================================================================
