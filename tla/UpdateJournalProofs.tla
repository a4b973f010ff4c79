------------------------- MODULE UpdateJournalProofs -------------------------
(***************************************************************************)
(* A status call never says of the attempt that runs that it was           *)
(* interrupted, for any number of readers and attempts.                    *)
(***************************************************************************)
EXTENDS UpdateJournal, TLAPS

\* The attempt holds its lock from before its first report on.
LockHeld ==
    /\ held => pc \in {"first", "running", "exit"}
    /\ pc \in {"first", "running"} => held

\* The report on disk is of an earlier attempt until this one wrote its own.
ReportIsOlder ==
    /\ file.n <= n
    /\ pc \in {"lock", "first"} => file.n < n
    /\ pc = "exit" /\ ~held => file.n < n

\* A call that found the lock free shares it until it ended; it alone says
\* "interrupted", of a report that was there.
ReaderShares(r) ==
    /\ reader[r].pc # "idle" /\ ~reader[r].busy => r \in shared
    /\ reader[r].pc = "answered" =>
          /\ reader[r].answer.n <= file.n
          /\ reader[r].answer.state = "interrupted" => ~reader[r].busy

JournalInv == TypeOK /\ LockHeld /\ ReportIsOlder
              /\ \A r \in Readers : ReaderShares(r)

-----------------------------------------------------------------------------
\* The invariant says that an interrupted attempt has ended: the caller shares
\* the lock, so the attempt that runs has not written the report it read.
LEMMA InvariantImplies == JournalInv => InterruptedHasEnded
  <1> SUFFICES ASSUME JournalInv, NEW r \in Readers,
                      reader[r].pc = "answered",
                      reader[r].answer.state = "interrupted", Alive
               PROVE  n # reader[r].answer.n
    BY DEF InterruptedHasEnded
  <1>1. r \in shared BY DEF JournalInv, ReaderShares
  <1>2. ~held BY <1>1 DEF JournalInv, TypeOK
  <1>3. file.n < n
    BY <1>2 DEF JournalInv, TypeOK, LockHeld, ReportIsOlder, Alive
  <1>4. reader[r].answer.n <= file.n BY DEF JournalInv, ReaderShares
  <1>5. file.n \in Nat /\ n \in Nat /\ reader[r].answer.n \in Nat
    BY JournalAssumption
       DEF JournalAssumption, JournalInv, TypeOK, Attempts, Reading, Reports
  <1> QED BY <1>3, <1>4, <1>5

\* No report and no attempt: nothing to be wrong about.
LEMMA Initially == Init => JournalInv
  <1> SUFFICES ASSUME Init PROVE JournalInv
    OBVIOUS
  <1> USE JournalAssumption DEF JournalAssumption
  <1>1. /\ NoReport \in Reports /\ NotReading \in Reading
        /\ NotReading.pc = "idle" /\ NoReport.n = 0
        /\ file \in [n : Attempts, state : {"not-started", "running"} \cup Final]
    BY DEF Init, NoReport, NotReading, Reading, Reports, Attempts
  <1>2. TypeOK
    <2>1. n \in Attempts /\ left \in 0 .. MaxSteps BY DEF Init, Attempts
    <2>2. reader \in [Readers -> Reading] BY <1>1 DEF Init
    <2> QED BY <1>1, <2>1, <2>2 DEF Init, TypeOK
  <1>3. LockHeld /\ ReportIsOlder BY <1>1 DEF Init, LockHeld, ReportIsOlder
  <1>4. \A r \in Readers : ReaderShares(r) BY <1>1 DEF Init, ReaderShares
  <1> QED BY <1>2, <1>3, <1>4 DEF JournalInv

\* While the readers and what they share stay, a report that only becomes
\* newer keeps what they were answered.
LEMMA ReadersStay ==
  ASSUME JournalInv, UNCHANGED <<shared, reader>>,
         file' = file \/ (file'.n \in Nat /\ file.n <= file'.n)
  PROVE  \A r \in Readers : ReaderShares(r)'
  <1>1. /\ file.n \in Nat
        /\ \A r \in Readers : reader[r].answer.n \in Nat
    BY JournalAssumption
       DEF JournalAssumption, JournalInv, TypeOK, Attempts, Reading, Reports
  <1> QED BY <1>1 DEF JournalInv, ReaderShares

\* The attempt's own steps: readers keep what they have and the lock they
\* share, and the report only becomes a newer one.
LEMMA AttemptSteps ==
  ASSUME JournalInv, attempt \/ deadlinePasses \/ exit
  PROVE  JournalInv'
  <1> USE JournalAssumption DEF JournalAssumption
  <1>1. /\ file.n \in Nat /\ n \in Nat /\ n <= MaxAttempts
        /\ \A r \in Readers : reader[r].answer.n \in Nat
    BY DEF JournalInv, TypeOK, Attempts, Reading, Reports
  <1>2. CASE begin
    <2>1. n' \in Attempts /\ file.n < n' /\ left' \in 0 .. MaxSteps
      BY <1>1, <1>2 DEF begin, JournalInv, ReportIsOlder, Attempts
    <2>2. UNCHANGED <<file, held, shared, reader>> /\ pc = "idle"
          /\ pc' = "lock" /\ late' = FALSE
      BY <1>2 DEF begin
    <2>3. TypeOK' BY <2>1, <2>2 DEF JournalInv, TypeOK
    <2>4. LockHeld' BY <2>2 DEF JournalInv, LockHeld
    <2>5. ReportIsOlder' BY <1>1, <2>1, <2>2 DEF ReportIsOlder, Attempts
    <2> QED BY <2>2, <2>3, <2>4, <2>5, ReadersStay DEF JournalInv
  <1>3. CASE takeLock
    <2>1. TypeOK' /\ LockHeld' /\ ReportIsOlder'
      BY <1>3 DEF takeLock, JournalInv, TypeOK, LockHeld, ReportIsOlder
    <2> QED BY <1>3, <2>1, ReadersStay DEF takeLock, JournalInv
  <1>4. CASE giveUp \/ deadlinePasses
    <2>1. /\ pc = "lock" /\ pc' \in {"lock", "exit"} /\ late' \in BOOLEAN
          /\ UNCHANGED <<file, held, shared, n, left, reader>>
      BY <1>4 DEF giveUp, deadlinePasses, JournalInv, TypeOK
    <2>2. TypeOK' BY <2>1 DEF JournalInv, TypeOK
    <2>3. LockHeld' /\ ReportIsOlder'
      BY <2>1 DEF JournalInv, LockHeld, ReportIsOlder
    <2> QED BY <2>1, <2>2, <2>3, ReadersStay DEF JournalInv
  <1>5. CASE exit
    <2>1. TypeOK' /\ LockHeld' /\ ReportIsOlder'
      BY <1>5 DEF exit, JournalInv, TypeOK, LockHeld, ReportIsOlder
    <2> QED BY <1>5, <2>1, ReadersStay DEF exit, JournalInv
  <1>6. CASE persistFirst \/ persist \/ end
    <2>1. /\ file' = file \/ \E state \in {"running"} \cup Final :
                                file' = Written(state)
          /\ UNCHANGED <<held, shared, n, late, reader>>
      BY <1>6 DEF persistFirst, persist, end
    <2>2. file' \in [n : Attempts, state : {"not-started", "running"} \cup Final]
          /\ file'.n \in Nat /\ file.n <= file'.n /\ file'.n <= n
      BY <1>1, <2>1 DEF JournalInv, TypeOK, ReportIsOlder, Written, Attempts
    <2>3. pc' \in {"running", "exit"} /\ held /\ held' /\ left' \in 0 .. MaxSteps
      BY <1>6, <2>1 DEF persistFirst, persist, end, JournalInv, TypeOK, LockHeld
    <2>4. TypeOK' /\ LockHeld' /\ ReportIsOlder'
      BY <2>1, <2>2, <2>3 DEF JournalInv, TypeOK, LockHeld, ReportIsOlder
    <2>5. \A r \in Readers : ReaderShares(r)'
      BY <2>1, <2>2, ReadersStay
    <2> QED BY <2>4, <2>5 DEF JournalInv
  <1> QED BY <1>2, <1>3, <1>4, <1>5, <1>6 DEF attempt

\* A status call's steps: the other calls keep the lock they share.
LEMMA ReaderSteps ==
  ASSUME JournalInv, NEW r \in Readers,
         statusLock(r) \/ statusRead(r) \/ statusEnd(r)
  PROVE  JournalInv'
  <1> USE JournalAssumption DEF JournalAssumption
  <1>1. /\ file.n \in Nat /\ reader \in [Readers -> Reading]
        /\ file \in Reports /\ file.state # "interrupted"
    BY DEF JournalInv, TypeOK, Attempts, Reports, Final
  <1>2. UNCHANGED <<file, held, n, pc, late, left>>
    BY DEF statusLock, statusRead, statusEnd
  <1>3. CASE statusLock(r)
    <2>1. /\ shared' = IF held THEN shared ELSE shared \cup {r}
          /\ reader' = [reader EXCEPT ![r] =
                          [NotReading EXCEPT !.pc = "read", !.busy = held]]
      BY <1>3 DEF statusLock
    <2>2. reader'[r] \in Reading /\ reader'[r].pc = "read"
          /\ reader'[r].busy = held
      <3>1. held \in BOOLEAN /\ NotReading \in Reading
        BY DEF JournalInv, TypeOK, NotReading, NoReport, Reading, Reports,
               Attempts
      <3>2. reader'[r] = [NotReading EXCEPT !.pc = "read", !.busy = held]
        BY <1>1, <2>1
      <3> QED BY <3>1, <3>2 DEF Reading
    <2>3. TypeOK' /\ LockHeld' /\ ReportIsOlder'
      BY <1>1, <1>2, <2>1, <2>2 DEF JournalInv, TypeOK, LockHeld, ReportIsOlder
    <2>4. ReaderShares(r)' BY <2>1, <2>2 DEF ReaderShares
    <2>5. \A s \in Readers \ {r} : ReaderShares(s)'
      BY <1>1, <1>2, <2>1 DEF JournalInv, ReaderShares
    <2> QED BY <2>3, <2>4, <2>5 DEF JournalInv
  <1>4. CASE statusRead(r)
    <2>1. /\ reader[r].pc = "read" /\ shared' = shared
          /\ reader' = [reader EXCEPT ![r] =
                          [[reader[r] EXCEPT !.pc = "answered"]
                              EXCEPT !.answer = answered(r)]]
      BY <1>4, <1>1, Zenon DEF statusRead
    <2>2. /\ answered(r) \in Reports /\ answered(r).n = file.n
          /\ answered(r).state = "interrupted" => ~reader[r].busy
      BY <1>1 DEF answered, Reports
    <2>3. /\ reader'[r] \in Reading /\ reader'[r].pc = "answered"
          /\ reader'[r].busy = reader[r].busy
          /\ reader'[r].answer = answered(r)
      <3>1. reader'[r] = [[reader[r] EXCEPT !.pc = "answered"]
                              EXCEPT !.answer = answered(r)]
        BY <1>1, <2>1
      <3>2. reader[r] \in Reading BY <1>1
      <3>3. [reader[r] EXCEPT !.pc = "answered"] \in Reading
        BY <3>2 DEF Reading
      <3> QED BY <2>2, <3>1, <3>2, <3>3 DEF Reading
    <2>4. TypeOK' /\ LockHeld' /\ ReportIsOlder'
      BY <1>1, <1>2, <2>1, <2>3 DEF JournalInv, TypeOK, LockHeld, ReportIsOlder
    <2>5. ReaderShares(r)'
      BY <1>1, <1>2, <2>1, <2>2, <2>3 DEF JournalInv, ReaderShares
    <2>6. \A s \in Readers \ {r} : ReaderShares(s)'
      BY <1>1, <1>2, <2>1 DEF JournalInv, ReaderShares
    <2> QED BY <2>4, <2>5, <2>6 DEF JournalInv
  <1>5. CASE statusEnd(r)
    <2>1. /\ shared' = shared \ {r}
          /\ reader' = [reader EXCEPT ![r] = NotReading]
      BY <1>5 DEF statusEnd
    <2>2. NotReading \in Reading /\ NotReading.pc = "idle"
      BY DEF NotReading, NoReport, Reading, Reports, Attempts
    <2>3. TypeOK' /\ LockHeld' /\ ReportIsOlder'
      BY <1>1, <1>2, <2>1, <2>2 DEF JournalInv, TypeOK, LockHeld, ReportIsOlder
    <2>4. ReaderShares(r)' BY <1>1, <2>1, <2>2 DEF ReaderShares
    <2>5. \A s \in Readers \ {r} : ReaderShares(s)'
      BY <1>1, <1>2, <2>1 DEF JournalInv, ReaderShares
    <2> QED BY <2>3, <2>4, <2>5 DEF JournalInv
  <1> QED BY <1>3, <1>4, <1>5

\* Every step keeps the invariant.
LEMMA Inductive == JournalInv /\ [Next]_vars => JournalInv'
  <1> SUFFICES ASSUME JournalInv, [Next]_vars PROVE JournalInv'
    OBVIOUS
  <1>1. CASE attempt \/ deadlinePasses \/ exit BY <1>1, AttemptSteps
  <1>2. CASE \E r \in Readers : statusLock(r) \/ statusRead(r) \/ statusEnd(r)
    BY <1>2, ReaderSteps
  <1>3. CASE UNCHANGED vars
    BY <1>3 DEF vars, JournalInv, TypeOK, LockHeld, ReportIsOlder, ReaderShares
  <1> QED BY <1>1, <1>2, <1>3 DEF Next

\* An attempt said to be interrupted has ended, for any number of readers,
\* attempts and rewrites (updateStatus, update_report.go 22-45).
THEOREM InterruptedIsOver == Spec => []InterruptedHasEnded
  BY Initially, Inductive, InvariantImplies, PTL DEF Spec

\* The report, the lock and the answers keep their types; in particular the
\* lock is never exclusive and shared at once.
THEOREM JournalTypeCorrect == Spec => []TypeOK
  <1>1. JournalInv => TypeOK BY DEF JournalInv
  <1> QED BY <1>1, Initially, Inductive, PTL DEF Spec
=============================================================================
