-------------------------- MODULE LeadTurnContract --------------------------
(***************************************************************************)
(* What the turns of one target context promise to whoever reads the       *)
(* conversation: they execute one at a time and at most once, a reported   *)
(* outcome is the outcome, only a completed turn that is not fenced gets   *)
(* published, and what a rollback fence says of a turn stays true.         *)
(***************************************************************************)
CONSTANTS Turns, Outcomes

VARIABLES
    phase,      \* Turns -> "waiting", "executing" or an outcome
    report,     \* Turns -> "open" or the outcome told to readers
    published,  \* turns whose result is a message
    fence       \* Turns -> "none", "void" (never executes), "ended", or "uncertain"

vars == <<phase, report, published, fence>>

Init ==
    /\ phase = [t \in Turns |-> "waiting"]
    /\ report = [t \in Turns |-> "open"]
    /\ published = {}
    /\ fence = [t \in Turns |-> "none"]

Execute(t) ==
    /\ phase[t] = "waiting" /\ fence[t] # "void"
    /\ \A u \in Turns : phase[u] # "executing"
    /\ phase' = [phase EXCEPT ![t] = "executing"]
    /\ UNCHANGED <<report, published, fence>>

End(t, s) ==
    /\ phase[t] = "executing"
    /\ phase' = [phase EXCEPT ![t] = s]
    /\ UNCHANGED <<report, published, fence>>

Report(t) ==
    /\ phase[t] \in Outcomes /\ report[t] = "open"
    /\ report' = [report EXCEPT ![t] = phase[t]]
    /\ UNCHANGED <<phase, published, fence>>

Publish(t) ==
    /\ report[t] = "completed" /\ fence[t] = "none" /\ t \notin published
    /\ published' = published \cup {t}
    /\ UNCHANGED <<phase, report, fence>>

Fence(t, f) ==
    /\ fence[t] = "none"
    /\ f = "void" => phase[t] = "waiting"
    /\ f = "ended" => report[t] # "open"
    /\ fence' = [fence EXCEPT ![t] = f]
    /\ UNCHANGED <<phase, report, published>>

Next ==
    \E t \in Turns :
        \/ Execute(t)
        \/ Report(t)
        \/ Publish(t)
        \/ \E s \in Outcomes : End(t, s)
        \/ \E f \in {"void", "ended", "uncertain"} : Fence(t, f)

Spec == Init /\ [][Next]_vars

=============================================================================
