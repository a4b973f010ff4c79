---------------------------- MODULE UpdateJournal ----------------------------
(***************************************************************************)
(* The report of update-image (and, in a file of its own, of update-apps): *)
(* written by the attempt, read by any number of --status calls, and told  *)
(* apart from the report of a dead attempt by a lock beside it, which the  *)
(* attempt holds exclusively until its process ends and a reader shares.   *)
(* Attempts follow one another: each holds the installation's operation    *)
(* lock first.                                                             *)
(*                                                                         *)
(* X_... is a definition X with a seeded fault; no action uses it.         *)
(***************************************************************************)
EXTENDS Naturals

CONSTANTS
    Readers,        \* --status calls
    MaxAttempts,    \* bound: attempts made
    MaxSteps        \* bound: times an attempt rewrites its report

ASSUME JournalAssumption == MaxAttempts \in Nat /\ MaxSteps \in Nat

\* Attempt 0 stands for a report never written.
Attempts == 0 .. MaxAttempts
Final    == {"completed", "partial", "failed"}
Reports  == [n : Attempts,
             state : {"not-started", "running", "interrupted"} \cup Final]
NoReport == [n |-> 0, state |-> "not-started"]

VARIABLES
    file,       \* the report on disk
    held,       \* the attempt's process holds the lock exclusively
    shared,     \* the readers that share it
    n,          \* history: the attempt begun last
    pc,         \* what its process does
    late,       \* its five seconds to take the lock are over
    left,       \* how often it still rewrites its report
    reader      \* the --status calls

vars == <<file, held, shared, n, pc, late, left, reader>>

Reading == [pc : {"idle", "read", "answered"}, busy : BOOLEAN,
            answer : Reports]
NotReading == [pc |-> "idle", busy |-> FALSE, answer |-> NoReport]

Init ==
    /\ file = NoReport /\ held = FALSE /\ shared = {}
    /\ n = 0 /\ pc = "idle" /\ late = FALSE /\ left = 0
    /\ reader = [r \in Readers |-> NotReading]

TypeOK ==
    /\ file \in [n : Attempts, state : {"not-started", "running"} \cup Final]
    /\ held \in BOOLEAN /\ shared \subseteq Readers
    /\ n \in Attempts /\ pc \in {"idle", "lock", "first", "running", "exit"}
    /\ late \in BOOLEAN /\ left \in 0 .. MaxSteps
    /\ reader \in [Readers -> Reading]
    /\ held => shared = {}

Alive == pc # "idle"

(***************************************************************************)
(* The attempt.                                                            *)
(***************************************************************************)
begin ==
    /\ pc = "idle" /\ n < MaxAttempts
    /\ n' = n + 1 /\ pc' = "lock" /\ late' = FALSE
    /\ \E times \in 0 .. MaxSteps : left' = times
    /\ UNCHANGED <<file, held, shared, reader>>

\* beginUpdateReport: the lock is tried until nobody shares it, or until the
\* deadline is over.
takeLock ==
    /\ pc = "lock" /\ shared = {} /\ held' = TRUE /\ pc' = "first"
    /\ UNCHANGED <<file, shared, n, late, left, reader>>
giveUp_never ==
    /\ pc = "lock" /\ late /\ shared # {}
    /\ UNCHANGED vars
giveUp ==
    /\ pc = "lock" /\ late /\ shared # {} /\ pc' = "exit"
    /\ UNCHANGED <<file, held, shared, n, late, left, reader>>
deadlinePasses ==
    /\ pc = "lock" /\ ~late /\ late' = TRUE
    /\ UNCHANGED <<file, held, shared, n, pc, left, reader>>

Written(state) == [n |-> n, state |-> state]
\* journal.persist, for the first time: without a report nothing is begun.
persistFirst ==
    /\ pc = "first"
    /\ \/ file' = Written("running") /\ pc' = "running"
       \/ UNCHANGED file /\ pc' = "exit"
    /\ UNCHANGED <<held, shared, n, late, left, reader>>
\* The attempt goes on, and saves its report with the new step.
persist ==
    /\ pc = "running" /\ left > 0 /\ left' = left - 1
    /\ file' = Written("running")
    /\ UNCHANGED <<held, shared, n, pc, late, reader>>
\* It ends: its last report is saved, or saving it fails.
end ==
    /\ pc = "running" /\ pc' = "exit"
    /\ \/ \E state \in Final : file' = Written(state)
       \/ UNCHANGED file
    /\ UNCHANGED <<held, shared, n, late, left, reader>>
\* The process ends, or is killed or the host restarts: the operating system
\* releases the lock.
exit ==
    /\ Alive /\ pc' = "idle" /\ held' = FALSE
    /\ UNCHANGED <<file, shared, n, late, left, reader>>

attempt == begin \/ takeLock \/ giveUp \/ persistFirst \/ persist \/ end

(***************************************************************************)
(* updateStatus.                                                           *)
(***************************************************************************)
statusLock_released(r) ==
    /\ reader[r].pc = "idle"
    /\ reader' = [reader EXCEPT ![r] =
          [NotReading EXCEPT !.pc = "read", !.busy = held]]
    /\ UNCHANGED <<file, held, shared, n, pc, late, left>>
\* The lock is shared, unless an attempt holds it.
statusLock(r) ==
    /\ reader[r].pc = "idle"
    /\ shared' = IF held THEN shared ELSE shared \cup {r}
    /\ reader' = [reader EXCEPT ![r] =
          [NotReading EXCEPT !.pc = "read", !.busy = held]]
    /\ UNCHANGED <<file, held, n, pc, late, left>>

\* A report still running whose lock could be shared is of a dead attempt.
answered(r) ==
    IF file.state = "running" /\ ~reader[r].busy
    THEN [file EXCEPT !.state = "interrupted"] ELSE file
statusRead_persists(r) ==
    /\ reader[r].pc = "read" /\ file' = answered(r)
    /\ reader' = [reader EXCEPT ![r].pc = "answered", ![r].answer = answered(r)]
    /\ UNCHANGED <<held, shared, n, pc, late, left>>
statusRead(r) ==
    /\ reader[r].pc = "read"
    /\ reader' = [reader EXCEPT ![r].pc = "answered", ![r].answer = answered(r)]
    /\ UNCHANGED <<file, held, shared, n, pc, late, left>>
\* The answer is printed; closing the file releases the lock.
statusEnd(r) ==
    /\ reader[r].pc = "answered"
    /\ shared' = shared \ {r}
    /\ reader' = [reader EXCEPT ![r] = NotReading]
    /\ UNCHANGED <<file, held, n, pc, late, left>>

Next == \/ attempt \/ deadlinePasses \/ exit
        \/ \E r \in Readers : statusLock(r) \/ statusRead(r) \/ statusEnd(r)

\* An attempt's process goes on, time passes, and a status call ends.
Fairness == /\ WF_vars(takeLock \/ giveUp) /\ WF_vars(deadlinePasses)
            /\ WF_vars(persistFirst) /\ WF_vars(end)
            /\ \A r \in Readers : WF_vars(statusRead(r)) /\ WF_vars(statusEnd(r))
Spec == Init /\ [][Next]_vars
FairSpec == Spec /\ Fairness

-----------------------------------------------------------------------------
\* An attempt said to be interrupted has ended: it is not the one that runs
\* (update_report.go 22-45, docs/image-updates.md 50).
InterruptedHasEnded ==
    \A r \in Readers :
        reader[r].pc = "answered" /\ reader[r].answer.state = "interrupted" =>
            ~(Alive /\ n = reader[r].answer.n)

\* Readers that come one after the other cannot keep an attempt waiting: it
\* begins, or gives up (update_report.go 52-65).
AttemptsBegin == pc = "lock" ~> pc # "lock"
=============================================================================
