----------------------------- MODULE LeadTurnView -----------------------------
(***************************************************************************)
(* A conversation page that shows a lead turn: the view controller behind  *)
(* the turn's badge and buttons, and the timer that asks for the status of *)
(* a turn in flight.  The page knows the turn only from the answers to its *)
(* own calls, so what it shows may be older than the row, and it polls by  *)
(* what it shows.  LeadTurns is the service it calls; requests the page    *)
(* did not make are those of other pages.                                  *)
(*                                                                         *)
(* The funding a start needs, the progress a refresh also reads and the    *)
(* wording of notices are left out: they keep a button from working or     *)
(* text from being shown, and leave the turn alone.                        *)
(***************************************************************************)
EXTENDS LeadTurns

VARIABLE view   \* the turn shown, the state shown for it, and the page's calls being served

viewVars == <<vars, view>>

Nothing == [turn |-> None, state |-> "none", calls |-> {}]

Loading == \E r \in view.calls : req[r].op = "status"
Busy == \E r \in view.calls : req[r].op \in {"prepare", "dispatch", "cancel"}

-----------------------------------------------------------------------------
(* What the page does.                                                      *)

\* reset(): another conversation, or the receipt of a message just saved, which is not prepared
\* yet.  Calls under way are of an older generation: their answers are dropped.
Reset(i) ==
    /\ i \in Admitted \cup {None}
    /\ view' = [Nothing EXCEPT !.turn = i]
    /\ UNCHANGED vars

\* refresh() with no turn: the latest of the channel, as stored.
ShowLatest(i) ==
    /\ ~Loading /\ ~Busy
    /\ view.turn = None
    /\ Newest(i) /\ Historical(i)
    /\ view' = [view EXCEPT !.turn = i, !.state = row[i].state]
    /\ UNCHANGED vars

\* A call of the page for the turn it shows.
Calls(r) == view' = [view EXCEPT !.calls = @ \cup {r}]

\* refresh(): a turn the runtime may know of is asked for there ...
Refresh(r, i) ==
    /\ ~Loading /\ ~Busy
    /\ view.turn = i
    /\ StatusBegin(r, i)
    /\ Calls(r)

\* ... any other is shown as stored.
RefreshStored(i) ==
    /\ ~Loading /\ ~Busy
    /\ view.turn = i
    /\ Historical(i)
    /\ ~row[i].bound /\ row[i].state # "dispatch_pending"
    /\ view' = [view EXCEPT !.state = row[i].state]
    /\ UNCHANGED vars

Prepare(r, i) ==
    /\ ~Loading /\ ~Busy
    /\ view.turn = i /\ view.state \in {"none", "prepared"}
    /\ PrepareBegin(r, i)
    /\ Calls(r)

Start(r, i) ==
    /\ ~Loading /\ ~Busy
    /\ view.turn = i /\ view.state = "prepared"
    /\ DispatchBegin(r, i)
    /\ Calls(r)

\* A cancellation does not wait for a refresh.
Cancel(r, i) ==
    /\ ~Busy
    /\ view.turn = i /\ view.state \in Active
    /\ CancelBegin(r, i)
    /\ Calls(r)

\* A step of a request being served.  When it ends, also by a failed call of the runtime, the
\* service answers with the stored row (guarded); the answer may not arrive.
Serve(r) ==
    /\ RequestStep(r)
    /\ IF r \in view.calls /\ req'[r].at = "idle"
       THEN \E s \in {row'[view.turn].state, view.state} :
                view' = [view EXCEPT !.calls = @ \ {r}, !.state = s]
       ELSE UNCHANGED view

-----------------------------------------------------------------------------
ViewInit == Init /\ view = Nothing

ViewNext ==
    \/ Surroundings /\ UNCHANGED view
    \/ \E i \in Intents : Reset(i) \/ ShowLatest(i) \/ RefreshStored(i)
    \/ Reset(None)
    \/ \E r \in Requests, i \in Intents : Refresh(r, i) \/ Prepare(r, i) \/ Start(r, i) \/ Cancel(r, i)
    \/ \E r \in Requests : Serve(r)

\* The states the timer polls in; unknown is not one of them.
Watched(i) == view.turn = i /\ view.state \in Active \cup {"dispatch_pending"}

\* The timer of the page: every 5 seconds, unless a call is under way.
Tick(r, i) == Watched(i) /\ Refresh(r, i)

\* What a status request does on the way from the runtime's outcome to the row.
FindReceipt(r) == LookupAnswer(r) /\ Serve(r)
BindReceipt(r) == Recover(r) /\ Serve(r)
AnswerTruly(r) == (\E s \in Terminal : Poll(r, s)) /\ Serve(r)
RereadOutcome(r) == req[r].reply \in Terminal /\ Reread(r) /\ Serve(r)
ObserveOutcome(r) == req[r].reply \in Terminal /\ Observe(r) /\ Serve(r)

\* The page ticks again and again while it stays open, a request that is served ends, and what a
\* poll has to do is not interrupted every time.
Polling ==
    /\ \A i \in Intents : SF_viewVars(\E r \in Requests : Tick(r, i))
    /\ \A r \in Requests :
        /\ WF_viewVars(req[r].at # "idle" /\ Serve(r))
        /\ SF_viewVars(FindReceipt(r)) /\ SF_viewVars(BindReceipt(r)) /\ SF_viewVars(AnswerTruly(r))
        /\ SF_viewVars(RereadOutcome(r)) /\ SF_viewVars(ObserveOutcome(r))

ViewSpec == ViewInit /\ [][ViewNext]_viewVars /\ Polling

-----------------------------------------------------------------------------
(* Properties.                                                              *)

\* While a page shows a turn in flight, an outcome the runtime reached does not stay unrecorded,
\* even when the answer to the dispatch was lost: the row takes the outcome, or says unknown,
\* which is for a person to refresh, or the reader loses access (lead-turn-controls.tsx, the timer).
OutcomeRecorded ==
    \A i \in Intents :
        cp[i].state \in Terminal /\ Watched(i)
            ~> (row[i].state \in {cp[i].state, "unknown"} \/ ~Historical(i) \/ ~Watched(i))

=============================================================================
