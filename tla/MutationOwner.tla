--------------------------- MODULE MutationOwner ---------------------------
(***************************************************************************)
(* Ownership of a repository's mutations on a desktop host: a lock file    *)
(* per repository that several processes claim, refresh, steal when stale  *)
(* and release, and a ledger of completed mutations shared by all          *)
(* repositories, so that a retried mutation replays its result.            *)
(*                                                                         *)
(* Every system call on a shared file is a step of its own: nothing else   *)
(* is atomic between processes.  A worker is one call of withMutation in a *)
(* process.  The nonce of a claim is the worker that made it, and an inode *)
(* is identified with the claim that created it.                           *)
(***************************************************************************)
EXTENDS Sequences, FiniteSets

CONSTANTS
    Processes,
    Workers,   \* mutations being executed
    Process,   \* Workers -> Processes
    Repos,
    Keys,      \* idempotency keys
    Stalling,  \* processes that may miss their heartbeats for the stale window
    None

Jobs == Repos \X Keys

VARIABLES
    alive,    \* processes that run
    file,     \* Repos -> lock file
    ledger,   \* jobs recorded as completed
    effects,  \* history: <<worker, job>> for each mutation performed
    work      \* Workers -> local state

vars == <<alive, file, ledger, effects, work>>

NoFile == [nonce |-> None, written |-> FALSE, old |-> FALSE]
Idle == [at |-> "idle", job |-> None, mine |-> None, beat |-> FALSE, copy |-> {}]

Repo(w) == work[w].job[1]
LockFile(w) == file[Repo(w)]
SetFile(w, f) == file' = [file EXCEPT ![Repo(w)] = f]

\* A worker takes its next step; a heartbeat that has begun comes first.
At(w, at) == work[w].at = at /\ ~work[w].beat /\ Process[w] \in alive
GoTo(w, at) == work' = [work EXCEPT ![w].at = at]

\* readLockRecord: a file that is missing or not written yet reads as nothing.
Readable(f) == f.nonce # None /\ f.written

-----------------------------------------------------------------------------
(* acquire                                                                  *)

\* withMutation looks for a recorded result first.
Begin(w, j) ==
    /\ At(w, "idle")
    /\ j \notin ledger
    /\ work' = [work EXCEPT ![w] = [Idle EXCEPT !.at = "claiming", !.job = j]]
    /\ UNCHANGED <<alive, file, ledger, effects>>

\* Only the exclusive create makes acquisition atomic.
CreateFile(w) ==
    /\ At(w, "claiming")
    /\ IF LockFile(w) = NoFile
       THEN SetFile(w, [nonce |-> w, written |-> FALSE, old |-> FALSE]) /\ GoTo(w, "writing")
       ELSE UNCHANGED file /\ GoTo(w, "reading")
    /\ UNCHANGED <<alive, ledger, effects>>

\* The record goes to the file that was created, wherever its name points now.
WriteFile(w) ==
    /\ At(w, "writing")
    /\ IF LockFile(w).nonce = w THEN SetFile(w, [LockFile(w) EXCEPT !.written = TRUE]) ELSE UNCHANGED file
    /\ GoTo(w, "claimed")
    /\ UNCHANGED <<alive, ledger, effects>>

\* The nonce is read back for the heartbeat; the claim stands whatever it is.
ReadBack(w) ==
    /\ At(w, "claimed")
    /\ work' = [work EXCEPT ![w].at = "owning", ![w].mine = IF Readable(LockFile(w)) THEN LockFile(w).nonce ELSE None]
    /\ UNCHANGED <<alive, file, ledger, effects>>

Stale(f) == Process[f.nonce] \notin alive \/ f.old

\* Unreadable: try again at once.  Stale: steal.  Otherwise wait, or give up at the deadline.
ReadRecord(w) ==
    /\ At(w, "reading")
    /\ \/ ~Readable(LockFile(w)) /\ GoTo(w, "claiming")
       \/ Readable(LockFile(w)) /\ Stale(LockFile(w)) /\ GoTo(w, "stealing")
       \/ /\ Readable(LockFile(w)) /\ ~Stale(LockFile(w))
          /\ GoTo(w, "claiming") \/ work' = [work EXCEPT ![w] = Idle]
    /\ UNCHANGED <<alive, file, ledger, effects>>

\* stealStaleLock renames whatever file is there now.
Steal(w) ==
    /\ At(w, "stealing")
    /\ \/ LockFile(w) # NoFile /\ SetFile(w, NoFile) /\ GoTo(w, "claiming")
       \/ /\ LockFile(w) = NoFile /\ UNCHANGED file
          /\ GoTo(w, "claiming") \/ work' = [work EXCEPT ![w] = Idle]
    /\ UNCHANGED <<alive, ledger, effects>>

-----------------------------------------------------------------------------
(* The heartbeat of an owner.                                               *)

Owning(w) == work[w].at \in {"owning", "working", "worked", "saving"}

BeatRead(w) ==
    /\ Owning(w) /\ ~work[w].beat /\ Process[w] \in alive
    /\ Readable(LockFile(w))
    /\ LockFile(w).nonce = work[w].mine /\ Process[LockFile(w).nonce] = Process[w]
    /\ work' = [work EXCEPT ![w].beat = TRUE]
    /\ UNCHANGED <<alive, file, ledger, effects>>

\* writeLockFile renames a fresh record over whatever file is there now.
BeatWrite(w) ==
    /\ work[w].beat /\ Process[w] \in alive
    /\ SetFile(w, [nonce |-> work[w].mine, written |-> TRUE, old |-> FALSE])
    /\ work' = [work EXCEPT ![w].beat = FALSE]
    /\ UNCHANGED <<alive, ledger, effects>>

-----------------------------------------------------------------------------
(* withMutation under the lock.                                             *)

Recheck(w) ==
    /\ At(w, "owning")
    /\ GoTo(w, IF work[w].job \in ledger THEN "releasing" ELSE "working")
    /\ UNCHANGED <<alive, file, ledger, effects>>

Perform(w) ==
    /\ At(w, "working")
    /\ \/ effects' = Append(effects, <<w, work[w].job>>) /\ GoTo(w, "worked")
       \/ UNCHANGED effects /\ GoTo(w, "releasing")
    /\ UNCHANGED <<alive, file, ledger>>

\* recordCompletion loads the ledger of all repositories and writes it back.
LoadLedger(w) ==
    /\ At(w, "worked")
    /\ work' = [work EXCEPT ![w].at = "saving", ![w].copy = ledger]
    /\ UNCHANGED <<alive, file, ledger, effects>>

SaveLedger(w) ==
    /\ At(w, "saving")
    /\ ledger' = work[w].copy \cup {work[w].job}
    /\ GoTo(w, "releasing")
    /\ UNCHANGED <<alive, file, effects>>

\* release compares the process, then removes whatever file is there now.
ReleaseRead(w) ==
    /\ At(w, "releasing")
    /\ IF Readable(LockFile(w)) /\ Process[LockFile(w).nonce] = Process[w]
       THEN GoTo(w, "unlinking")
       ELSE work' = [work EXCEPT ![w] = Idle]
    /\ UNCHANGED <<alive, file, ledger, effects>>

ReleaseUnlink(w) ==
    /\ At(w, "unlinking")
    /\ SetFile(w, NoFile)
    /\ work' = [work EXCEPT ![w] = Idle]
    /\ UNCHANGED <<alive, ledger, effects>>

-----------------------------------------------------------------------------
(* Failures.                                                                *)

Die(p) ==
    /\ p \in alive
    /\ alive' = alive \ {p}
    /\ UNCHANGED <<file, ledger, effects, work>>

\* The host sleeps, or the event loop is blocked, past the stale window.
Stall(r) ==
    /\ Readable(file[r]) /\ ~file[r].old
    /\ Process[file[r].nonce] \in Stalling
    /\ file' = [file EXCEPT ![r].old = TRUE]
    /\ UNCHANGED <<alive, ledger, effects, work>>

-----------------------------------------------------------------------------
Init ==
    /\ alive = Processes
    /\ file = [r \in Repos |-> NoFile]
    /\ ledger = {}
    /\ effects = <<>>
    /\ work = [w \in Workers |-> Idle]

WorkerStep(w) ==
    \/ \E j \in Jobs : Begin(w, j)
    \/ CreateFile(w)
    \/ WriteFile(w)
    \/ ReadBack(w)
    \/ ReadRecord(w)
    \/ Steal(w)
    \/ BeatRead(w)
    \/ BeatWrite(w)
    \/ Recheck(w)
    \/ Perform(w)
    \/ LoadLedger(w)
    \/ SaveLedger(w)
    \/ ReleaseRead(w)
    \/ ReleaseUnlink(w)

Next ==
    \/ \E w \in Workers : WorkerStep(w)
    \/ \E p \in Processes : Die(p)
    \/ \E r \in Repos : Stall(r)

Spec == Init /\ [][Next]_vars

-----------------------------------------------------------------------------
(* Properties.                                                              *)

\* "a completed mutation replays its recorded result instead of repeating side effects, so a
\* timeout can never produce duplicate worktrees" (mutation-owner.ts): two workers that both
\* survive never both perform one mutation.
PerformedOnce ==
    \A i, j \in DOMAIN effects :
        effects[i][2] = effects[j][2] /\ {Process[effects[i][1]], Process[effects[j][1]]} \subseteq alive => i = j

=============================================================================
