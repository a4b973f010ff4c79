-------------------------- MODULE PreparationProofs --------------------------
(***************************************************************************)
(* What "current" and a completed report say is true, and only an update   *)
(* replaces an application, for any applications, releases, invocations    *)
(* and faults.                                                             *)
(*                                                                         *)
(* An invocation past the lock is its holder, so nothing it relies on      *)
(* changes under it; RunOK says what that is.                              *)
(***************************************************************************)
EXTENDS Preparation, TLAPS

Outside == {"idle", "lock"}
Deciding == {"resolve", "resolving"}
Replacing == {"download", "downloading", "verify", "install", "rename", "link"}

RunRecords == [pc : Labels, update : BOOLEAN, n : DOMAIN AppOrder,
               apps : Receipts, installed : MaybeRelease,
               selected : MaybeRelease, again : BOOLEAN]

\* An invocation past the lock holds it.
Holds(r) == run[r].pc \notin Outside => lock = r

\* What it read is still so: the release installed, which it replaces only
\* in an update; the release selected; its package, then its version.
Observed(r) ==
    /\ run[r].pc \in Deciding \cup Replacing \cup {"ready"} =>
          run[r].installed = current[app(r)]
    /\ run[r].pc \in Deciding \cup Replacing =>
          run[r].update \/ run[r].installed = None
    /\ run[r].pc = "ready" => run[r].installed # None
    /\ run[r].pc \in Replacing => run[r].selected \in Releases
    /\ run[r].pc \in {"install", "rename"} =>
          package[app(r)][run[r].selected] = "whole"
    /\ run[r].pc = "link" => version[app(r)][run[r].selected] = "whole"

\* The receipts in memory name what is installed, for the applications that
\* are done; an invocation that waits begins with the first.
Named(r, a) == current[a] # None /\ run[r].apps[a] = current[a]
Prepared(r) ==
    /\ run[r].pc \in Outside => run[r].n = 1
    /\ run[r].pc \notin Outside =>
          \A m \in DOMAIN AppOrder :
              m < run[r].n => AppOrder[m] = app(r) \/ Named(r, AppOrder[m])
    /\ run[r].pc = "complete" => \A a \in Apps : Named(r, a)

\* Nothing is replaced under a report that says completed.
Announced(r) ==
    run[r].pc \in Replacing \cup {"resolving"} => report.state # "completed"

RunOK(r) == Holds(r) /\ Observed(r) /\ Prepared(r) /\ Announced(r)

PrepInv == /\ TypeOK /\ CurrentIsWhole /\ CompletedIsInstalled
           /\ \A r \in Runs : RunOK(r)

-----------------------------------------------------------------------------
\* The application an invocation works on is one of the configuration.
LEMMA AppIsKnown ==
  ASSUME TypeOK, NEW r \in Runs
  PROVE  /\ run[r] \in RunRecords /\ app(r) \in Apps
         /\ run[r].n \in Nat /\ run[r].n <= Len(AppOrder)
  <1>1. run[r] \in RunRecords BY DEF TypeOK, RunRecords
  <1>2. DOMAIN AppOrder = 1 .. Len(AppOrder) /\ Len(AppOrder) \in Nat
    BY PreparationAssumption DEF PreparationAssumption
  <1>3. run[r].n \in DOMAIN AppOrder BY <1>1 DEF RunRecords
  <1> QED BY <1>1, <1>2, <1>3 DEF app, Apps

\* An invocation that goes on: its record is the new one, the others stay.
LEMMA Goes ==
  ASSUME TypeOK, NEW r \in Runs, NEW o \in RunRecords, Go(r, o)
  PROVE  /\ run' \in [Runs -> RunRecords] /\ run'[r] = o
         /\ \A s \in Runs \ {r} : run'[s] = run[s]
  BY DEF Go, TypeOK, RunRecords

\* It goes on to another label, and carries along what it knows.
LEMMA Moves ==
  ASSUME TypeOK, NEW r \in Runs, NEW l \in Labels, To(r, l)
  PROVE  /\ run' \in [Runs -> RunRecords] /\ run'[r].pc = l
         /\ run'[r].update = run[r].update /\ run'[r].n = run[r].n
         /\ run'[r].apps = run[r].apps /\ run'[r].again = run[r].again
         /\ run'[r].installed = run[r].installed
         /\ run'[r].selected = run[r].selected
         /\ \A s \in Runs \ {r} : run'[s] = run[s]
         /\ app(r)' = app(r)
  <1>1. run[r] \in RunRecords BY AppIsKnown
  <1>2. [run[r] EXCEPT !.pc = l] \in RunRecords BY <1>1 DEF RunRecords
  <1>3. /\ run' \in [Runs -> RunRecords] /\ run'[r] = [run[r] EXCEPT !.pc = l]
        /\ \A s \in Runs \ {r} : run'[s] = run[s]
    BY <1>2, Goes DEF To
  <1> QED BY <1>1, <1>3 DEF RunRecords, app

\* A step of the holder: the other invocations rely on nothing yet.
LEMMA HolderStep ==
  ASSUME PrepInv, NEW r \in Runs, run[r].pc \notin Outside,
         TypeOK', CurrentIsWhole', CompletedIsInstalled', RunOK(r)',
         \A s \in Runs \ {r} : run'[s] = run[s]
  PROVE  PrepInv'
  <1>1. lock = r BY DEF PrepInv, RunOK, Holds
  <1>2. ASSUME NEW s \in Runs \ {r} PROVE RunOK(s)'
    <2>1. run[s].pc \in Outside BY <1>1, <1>2 DEF PrepInv, RunOK, Holds
    <2>2. run'[s].pc \in Outside /\ run'[s].n = 1
      BY <2>1 DEF PrepInv, RunOK, Prepared
    <2> QED BY <2>2 DEF RunOK, Holds, Observed, Prepared, Announced, Outside,
                        Deciding, Replacing
  <1> QED BY <1>2 DEF PrepInv

\* An invocation relies on nothing that this step changes.
LEMMA Undisturbed ==
  ASSUME NEW s \in Runs, RunOK(s), run'[s] = run[s], lock = s => lock' = s,
         UNCHANGED <<current, package, version, report>>
  PROVE  RunOK(s)'
  <1>1. app(s)' = app(s) BY DEF app
  <1>2. Holds(s)' BY DEF RunOK, Holds
  <1>3. Observed(s)' BY <1>1 DEF RunOK, Observed
  <1>4. Prepared(s)' BY <1>1 DEF RunOK, Prepared, Named
  <1>5. Announced(s)' BY DEF RunOK, Announced
  <1> QED BY <1>2, <1>3, <1>4, <1>5 DEF RunOK

\* A step of one invocation beside the others.
LEMMA SideStep ==
  ASSUME PrepInv, NEW r \in Runs, TypeOK', RunOK(r)',
         UNCHANGED <<current, package, version, report>>,
         \A s \in Runs \ {r} : run'[s] = run[s] /\ (lock = s => lock' = s)
  PROVE  PrepInv'
  <1>1. \A s \in Runs \ {r} : RunOK(s)' BY Undisturbed DEF PrepInv
  <1>2. CurrentIsWhole' /\ CompletedIsInstalled'
    BY DEF PrepInv, CurrentIsWhole, CompletedIsInstalled
  <1> QED BY <1>1, <1>2 DEF PrepInv

\* A step of a vendor or of a status call.
LEMMA OutsideStep ==
  ASSUME PrepInv, TypeOK', UNCHANGED <<files, report, run>>,
         \A s \in Runs : lock = s => lock' = s
  PROVE  PrepInv'
  <1>1. UNCHANGED <<current, package, version, report>> BY DEF files
  <1>2. \A s \in Runs : RunOK(s)' BY <1>1, Undisturbed DEF PrepInv
  <1>3. CurrentIsWhole' /\ CompletedIsInstalled'
    BY <1>1 DEF PrepInv, CurrentIsWhole, CompletedIsInstalled
  <1> QED BY <1>2, <1>3 DEF PrepInv

\* An invocation that is over relies on nothing.
LEMMA OverIsOK ==
  ASSUME NEW r \in Runs, run'[r].pc \in Outside, run'[r].n = 1
  PROVE  RunOK(r)'
  BY DEF RunOK, Holds, Observed, Prepared, Announced, Outside, Deciding,
         Replacing

\* NotRunning is an invocation at rest, at the first application.
LEMMA RestIsKnown ==
  NotRunning \in RunRecords /\ NotRunning.pc = "idle" /\ NotRunning.n = 1
  <1>1. DOMAIN AppOrder = 1 .. Len(AppOrder) /\ Len(AppOrder) \in Nat
    BY PreparationAssumption DEF PreparationAssumption
  <1>2. Len(AppOrder) # 0
    BY PreparationAssumption DEF PreparationAssumption
  <1>3. 1 \in DOMAIN AppOrder BY <1>1, <1>2
  <1> QED BY <1>3 DEF NotRunning, RunRecords, Labels, Receipts, MaybeRelease

-----------------------------------------------------------------------------
\* A failure is reported and lets the lock go.
LEMMA FailingStep ==
  ASSUME PrepInv, NEW r \in Runs, run[r].pc \notin Outside, Failing(r),
         UNCHANGED <<vendors, source, package, version, current, reader>>,
         partial' \in [Apps -> [Releases -> Data]], faults' \in 0 .. MaxFaults
  PROVE  PrepInv'
  <1>1. /\ run' \in [Runs -> RunRecords] /\ run'[r] = NotRunning
        /\ \A s \in Runs \ {r} : run'[s] = run[s]
    BY RestIsKnown, Goes DEF Failing, PrepInv
  <1>2. run[r].apps \in Receipts BY AppIsKnown DEF PrepInv, RunRecords
  <1>3. /\ report' \in [state : States, apps : Receipts]
        /\ report'.state = "failed" /\ lock' = None
    BY <1>2 DEF Failing, States
  <1>4. TypeOK'
    BY <1>1, <1>3 DEF PrepInv, TypeOK, RunRecords, vendors
  <1>5. CurrentIsWhole' /\ CompletedIsInstalled'
    BY <1>3 DEF PrepInv, CurrentIsWhole, CompletedIsInstalled
  <1>6. RunOK(r)' BY <1>1, RestIsKnown, OverIsOK DEF Outside
  <1> QED BY <1>1, <1>4, <1>5, <1>6, HolderStep

\* What the holder's steps that touch no file have in common.
LEMMA QuietStep ==
  ASSUME PrepInv, NEW r \in Runs, run[r].pc \notin Outside,
         UNCHANGED <<vendors, partial, package, version, current, reader>>,
         lock' = lock, faults' \in 0 .. MaxFaults, source' \in Receipts,
         run' \in [Runs -> RunRecords],
         \A s \in Runs \ {r} : run'[s] = run[s],
         UNCHANGED report \/ save(r),
         Observed(r)', Prepared(r)', Announced(r)'
  PROVE  PrepInv'
  <1>1. run[r].apps \in Receipts BY AppIsKnown DEF PrepInv, RunRecords
  <1>2. /\ report' \in [state : States, apps : Receipts]
        /\ report' = report \/ report'.state = "running"
    BY <1>1 DEF save, States, PrepInv, TypeOK
  <1>3. TypeOK' BY <1>2 DEF PrepInv, TypeOK, RunRecords, vendors
  <1>4. CurrentIsWhole' /\ CompletedIsInstalled'
    BY <1>2 DEF PrepInv, CurrentIsWhole, CompletedIsInstalled
  <1>5. RunOK(r)' BY DEF PrepInv, RunOK, Holds
  <1> QED BY <1>3, <1>4, <1>5, HolderStep

\* Its receipts and its place in the configuration stay, and so does what is
\* installed: then what was prepared stays so.
LEMMA StillPrepared ==
  ASSUME PrepInv, NEW r \in Runs, run[r].pc \notin Outside,
         current' = current, run'[r].n = run[r].n,
         run'[r].apps = run[r].apps,
         run'[r].pc \notin Outside \cup {"complete"}
  PROVE  Prepared(r)' /\ app(r)' = app(r)
  <1>1. app(r)' = app(r) BY DEF app
  <1>2. Prepared(r) BY DEF PrepInv, RunOK
  <1> QED BY <1>1, <1>2 DEF Prepared, Named

\* begin and acquire: an invocation waits, then reads the receipts.
LEMMA BeginStep ==
  ASSUME PrepInv, NEW r \in Runs, begin(r) \/ acquire(r)
  PROVE  PrepInv'
  <1>1. CASE begin(r)
    <2>1. PICK update \in BOOLEAN :
             Go(r, [NotRunning EXCEPT !.pc = "lock", !.update = update])
      BY <1>1 DEF begin
    <2> DEFINE o == [NotRunning EXCEPT !.pc = "lock", !.update = update]
    <2>2. o \in RunRecords /\ o.pc = "lock" /\ o.n = 1
      BY RestIsKnown DEF RunRecords, Labels
    <2>3. /\ run' \in [Runs -> RunRecords] /\ run'[r].pc = "lock"
          /\ run'[r].n = 1
          /\ \A s \in Runs \ {r} : run'[s] = run[s]
      BY <2>1, <2>2, Goes DEF PrepInv
    <2>4. TypeOK'
      BY <1>1, <2>3 DEF begin, PrepInv, TypeOK, RunRecords, vendors, files
    <2>5. RunOK(r)' BY <2>3, OverIsOK DEF Outside
    <2>6. UNCHANGED <<current, package, version, report, lock>>
      BY <1>1 DEF begin, files
    <2> QED BY <2>3, <2>4, <2>5, <2>6, SideStep
  <1>2. CASE acquire(r)
    <2>1. /\ run[r].pc = "lock" /\ lock = None /\ lock' = r
          /\ UNCHANGED <<vendors, reader, faults, files, report>>
      BY <1>2 DEF acquire, At, Unchanged
    <2> DEFINE o == [run[r] EXCEPT !.pc = "check", !.apps = report.apps]
    <2>2. run[r] \in RunRecords /\ report.apps \in Receipts
      BY AppIsKnown DEF PrepInv, TypeOK
    <2>3. /\ o \in RunRecords /\ o.pc = "check" /\ o.n = run[r].n
          /\ o.apps = report.apps
      BY <2>2 DEF RunRecords, Labels
    <2> HIDE DEF o
    <2>4. /\ run' \in [Runs -> RunRecords] /\ run'[r] = o
          /\ \A s \in Runs \ {r} : run'[s] = run[s]
      BY <1>2, <2>3, Goes DEF PrepInv, acquire, Locked, o
    <2>5. TypeOK'
      BY <2>1, <2>4 DEF PrepInv, TypeOK, RunRecords, vendors, files
    <2>6. RunOK(r)'
      <3>1. o.n = 1
        BY <2>1, <2>3 DEF PrepInv, RunOK, Prepared, Outside
      <3>2. \A m \in DOMAIN AppOrder : ~(m < 1)
        BY PreparationAssumption DEF PreparationAssumption
      <3>3. Prepared(r)' BY <2>3, <2>4, <3>1, <3>2 DEF Prepared
      <3>4. Holds(r)' BY <2>1 DEF Holds
      <3>5. Observed(r)' /\ Announced(r)'
        BY <2>3, <2>4 DEF Observed, Announced, Deciding, Replacing
      <3> QED BY <3>3, <3>4, <3>5 DEF RunOK
    <2>7. UNCHANGED <<current, package, version, report>>
      BY <2>1 DEF files
    <2>8. \A s \in Runs : lock # s
      BY <2>1, PreparationAssumption DEF PreparationAssumption
    <2> QED BY <2>4, <2>5, <2>6, <2>7, <2>8, SideStep
  <1> QED BY <1>1, <1>2

-----------------------------------------------------------------------------
\* check: the release installed and the source cached are read.
LEMMA CheckStep ==
  ASSUME PrepInv, NEW r \in Runs, check(r)
  PROVE  PrepInv'
  <1> DEFINE l == afterCheck(r, current[app(r)])
             o == [run[r] EXCEPT !.installed = current[app(r)],
                     !.selected = source[app(r)], !.again = FALSE, !.pc = l]
  <1>1. run[r] \in RunRecords /\ app(r) \in Apps
    BY AppIsKnown DEF PrepInv
  <1>2. current[app(r)] \in MaybeRelease /\ source[app(r)] \in MaybeRelease
    BY <1>1 DEF PrepInv, TypeOK, Receipts
  <1>3. /\ l \in {"resolve", "ready", "download"}
        /\ l = "ready" => current[app(r)] # None
        /\ l # "ready" => run[r].update \/ current[app(r)] = None
        /\ l = "download" => current[app(r)] = None /\ source[app(r)] # None
    BY DEF afterCheck
  <1> HIDE DEF l
  <1>4. /\ o \in RunRecords /\ o.pc = l /\ o.n = run[r].n
        /\ o.apps = run[r].apps /\ o.update = run[r].update
        /\ o.installed = current[app(r)] /\ o.selected = source[app(r)]
    BY <1>1, <1>2, <1>3 DEF RunRecords, Labels
  <1>5. /\ run[r].pc = "check" /\ Go(r, o)
        /\ UNCHANGED <<vendors, files, report, lock, reader, faults>>
    BY DEF check, At, Unchanged, l
  <1> HIDE DEF o
  <1>6. /\ run' \in [Runs -> RunRecords] /\ run'[r] = o
        /\ \A s \in Runs \ {r} : run'[s] = run[s]
    BY <1>4, <1>5, Goes DEF PrepInv
  <1>7. run[r].pc \notin Outside /\ o.pc \notin Outside \cup {"complete"}
    BY <1>3, <1>4, <1>5 DEF Outside
  <1>8. Prepared(r)' /\ app(r)' = app(r)
    BY <1>4, <1>5, <1>6, <1>7, StillPrepared DEF files
  <1>9. Observed(r)'
    <2>1. l = "download" => source[app(r)] \in Releases
      BY <1>2, <1>3 DEF MaybeRelease
    <2>2. UNCHANGED <<current, package, version>> BY <1>5 DEF files
    <2> QED BY <2>1, <2>2, <1>3, <1>4, <1>6, <1>8
            DEF Observed, Deciding, Replacing
  <1>10. Announced(r)'
    <2>1. l = "download" => report.state # "completed"
      BY <1>1, <1>3 DEF PrepInv, CompletedIsInstalled
    <2>2. o.pc \in Replacing \cup {"resolving"} => o.pc = "download"
      BY <1>3, <1>4 DEF Replacing
    <2> QED BY <2>1, <2>2, <1>4, <1>5, <1>6 DEF Announced
  <1>11. faults' \in 0 .. MaxFaults /\ source' \in Receipts
    BY <1>5 DEF PrepInv, TypeOK, files
  <1> QED BY <1>5, <1>6, <1>7, <1>8, <1>9, <1>10, <1>11, QuietStep
          DEF files

\* resolve and install: the report says what comes next.
LEMMA SayStep ==
  ASSUME PrepInv, NEW r \in Runs, resolve(r) \/ install(r)
  PROVE  PrepInv'
  <1>1. PICK l \in {"resolving", "rename"} :
           /\ To(r, l) /\ save(r)
           /\ run[r].pc = IF l = "resolving" THEN "resolve" ELSE "install"
    BY DEF resolve, install, At
  <1>2. UNCHANGED <<vendors, files, lock, reader, faults>>
    BY DEF resolve, install, Unchanged
  <1>3. /\ run' \in [Runs -> RunRecords] /\ run'[r].pc = l
        /\ run'[r].update = run[r].update /\ run'[r].n = run[r].n
        /\ run'[r].apps = run[r].apps /\ run'[r].installed = run[r].installed
        /\ run'[r].selected = run[r].selected
        /\ \A s \in Runs \ {r} : run'[s] = run[s]
    BY <1>1, Moves DEF Labels, PrepInv
  <1>4. run[r].pc \notin Outside /\ l \notin Outside \cup {"complete"}
    BY <1>1 DEF Outside
  <1>5. Prepared(r)' /\ app(r)' = app(r)
    BY <1>2, <1>3, <1>4, StillPrepared DEF files
  <1>6. Observed(r)'
    <2>1. Observed(r) BY DEF PrepInv, RunOK
    <2>2. UNCHANGED <<current, package, version>> BY <1>2 DEF files
    <2> QED BY <2>1, <2>2, <1>1, <1>3, <1>5 DEF Observed, Deciding, Replacing
  <1>7. Announced(r)' BY <1>1 DEF save, Announced
  <1>8. faults' \in 0 .. MaxFaults /\ source' \in Receipts
    BY <1>2 DEF PrepInv, TypeOK, files
  <1> QED BY <1>1, <1>2, <1>3, <1>4, <1>5, <1>6, <1>7, <1>8, QuietStep
          DEF files

\* resolving: the release of the signed index is selected and cached.
LEMMA ResolvingStep ==
  ASSUME PrepInv, NEW r \in Runs, resolving(r)
  PROVE  PrepInv'
  <1> DEFINE a == app(r)
             l == IF run[r].installed = latest[a] THEN "ready" ELSE "download"
             o == [run[r] EXCEPT !.selected = latest[a], !.pc = l]
  <1>1. run[r] \in RunRecords /\ a \in Apps BY AppIsKnown DEF PrepInv
  <1>2. latest[a] \in Releases /\ latest[a] # None /\ latest[a] \in MaybeRelease
    BY <1>1, PreparationAssumption
       DEF PreparationAssumption, MaybeRelease, PrepInv, TypeOK
  <1>3. l \in {"ready", "download"} /\ (l = "ready" => run[r].installed # None)
    BY <1>2
  <1>4. /\ run[r].pc = "resolving" /\ Go(r, o)
        /\ source' = [source EXCEPT ![a] = latest[a]]
        /\ UNCHANGED <<vendors, reader, faults, partial, package, version,
                       current, report, lock>>
    BY DEF resolving, At, Unchanged
  <1> HIDE DEF l
  <1>5. /\ o \in RunRecords /\ o.pc = l /\ o.n = run[r].n
        /\ o.apps = run[r].apps /\ o.update = run[r].update
        /\ o.installed = run[r].installed /\ o.selected = latest[a]
    BY <1>1, <1>2, <1>3 DEF RunRecords, Labels
  <1> HIDE DEF o
  <1>6. /\ run' \in [Runs -> RunRecords] /\ run'[r] = o
        /\ \A s \in Runs \ {r} : run'[s] = run[s]
    BY <1>4, <1>5, Goes DEF PrepInv
  <1>7. run[r].pc \notin Outside /\ o.pc \notin Outside \cup {"complete"}
    BY <1>3, <1>4, <1>5 DEF Outside
  <1>8. Prepared(r)' /\ app(r)' = app(r)
    BY <1>4, <1>5, <1>6, <1>7, StillPrepared
  <1>9. Observed(r)'
    <2>1. Observed(r) BY DEF PrepInv, RunOK
    <2> QED BY <2>1, <1>2, <1>3, <1>4, <1>5, <1>6, <1>8
            DEF Observed, Deciding, Replacing
  <1>10. Announced(r)'
    BY <1>4 DEF PrepInv, RunOK, Announced
  <1>11. faults' \in 0 .. MaxFaults /\ source' \in Receipts
    BY <1>1, <1>2, <1>4 DEF PrepInv, TypeOK, Receipts
  <1> QED BY <1>4, <1>6, <1>7, <1>8, <1>9, <1>10, <1>11, QuietStep

\* download: a whole package is used as it is, another one is asked for.
LEMMA DownloadStep ==
  ASSUME PrepInv, NEW r \in Runs, download(r)
  PROVE  PrepInv'
  <1>1. PICK l \in {"install", "downloading"} :
           /\ To(r, l)
           /\ l = "install" => package[app(r)][run[r].selected] = "whole"
           /\ UNCHANGED report \/ save(r)
    BY DEF download
  <1>2. /\ run[r].pc = "download"
        /\ UNCHANGED <<vendors, files, lock, reader, faults>>
    BY DEF download, At, Unchanged
  <1>3. /\ run' \in [Runs -> RunRecords] /\ run'[r].pc = l
        /\ run'[r].update = run[r].update /\ run'[r].n = run[r].n
        /\ run'[r].apps = run[r].apps /\ run'[r].installed = run[r].installed
        /\ run'[r].selected = run[r].selected
        /\ \A s \in Runs \ {r} : run'[s] = run[s]
    BY <1>1, Moves DEF Labels, PrepInv
  <1>4. run[r].pc \notin Outside /\ l \notin Outside \cup {"complete"}
    BY <1>2 DEF Outside
  <1>5. Prepared(r)' /\ app(r)' = app(r)
    BY <1>2, <1>3, <1>4, StillPrepared DEF files
  <1>6. Observed(r)'
    <2>1. Observed(r) BY DEF PrepInv, RunOK
    <2>2. UNCHANGED <<current, package, version>> BY <1>2 DEF files
    <2> QED BY <2>1, <2>2, <1>1, <1>2, <1>3, <1>5
            DEF Observed, Deciding, Replacing
  <1>7. Announced(r)'
    <2>1. report.state # "completed"
      BY <1>2 DEF PrepInv, RunOK, Announced, Replacing
    <2> QED BY <1>1, <2>1 DEF save, Announced
  <1>8. faults' \in 0 .. MaxFaults /\ source' \in Receipts
    BY <1>2 DEF PrepInv, TypeOK, files
  <1> QED BY <1>1, <1>2, <1>3, <1>4, <1>5, <1>6, <1>7, <1>8, QuietStep
          DEF files

\* A part or a package of the release in preparation is of a known release.
LEMMA ReplacingKnows ==
  ASSUME PrepInv, NEW r \in Runs, run[r].pc \in Replacing
  PROVE  /\ app(r) \in Apps /\ run[r].selected \in Releases
         /\ run[r] \in RunRecords /\ run[r].pc \notin Outside
         /\ run[r].installed = current[app(r)]
         /\ run[r].update \/ run[r].installed = None
         /\ report.state # "completed"
         /\ partial[app(r)] \in [Releases -> Data]
         /\ package[app(r)] \in [Releases -> {"none", "whole"}]
         /\ version[app(r)] \in [Releases -> {"none", "whole"}]
  <1>1. app(r) \in Apps /\ run[r] \in RunRecords BY AppIsKnown DEF PrepInv
  <1>2. RunOK(r) /\ TypeOK BY DEF PrepInv
  <1>3. /\ partial \in [Apps -> [Releases -> Data]]
        /\ package \in [Apps -> [Releases -> {"none", "whole"}]]
        /\ version \in [Apps -> [Releases -> {"none", "whole"}]]
    BY <1>2 DEF TypeOK
  <1>4. run[r].pc \notin Outside BY DEF Replacing, Outside
  <1> QED BY <1>1, <1>2, <1>3, <1>4 DEF RunOK, Observed, Announced

\* downloading: the package is there, or the vendor does not serve it any
\* more: then its newest release is looked for, once.
LEMMA DownloadingStep ==
  ASSUME PrepInv, NEW r \in Runs, downloading(r)
  PROVE  PrepInv'
  <1> DEFINE a == app(r)
             v == run[r].selected
  <1>1. /\ run[r].pc = "downloading"
        /\ UNCHANGED <<vendors, reader, faults, source, package, version,
                       current>>
    BY DEF downloading, At, Unchanged
  <1>2. run[r].pc \in Replacing BY <1>1 DEF Replacing
  <1>3. RunOK(r) /\ TypeOK BY DEF PrepInv
  <1>4. faults' \in 0 .. MaxFaults /\ source' \in Receipts
    BY <1>1, <1>3 DEF TypeOK
  <1>5. CASE /\ partial' = [partial EXCEPT ![a][v] =
                               IF @ = "bad" THEN "bad" ELSE "whole"]
             /\ To(r, "verify") /\ UNCHANGED <<report, lock>>
    <2>1. /\ run' \in [Runs -> RunRecords] /\ run'[r].pc = "verify"
          /\ run'[r].update = run[r].update /\ run'[r].n = run[r].n
          /\ run'[r].apps = run[r].apps /\ run'[r].installed = run[r].installed
          /\ run'[r].selected = run[r].selected
          /\ \A s \in Runs \ {r} : run'[s] = run[s]
      BY <1>3, <1>5, Moves DEF Labels
    <2>2. partial' \in [Apps -> [Releases -> Data]]
      BY <1>2, <1>3, <1>5, ReplacingKnows DEF TypeOK, Data
    <2>3. TypeOK'
      BY <1>1, <1>3, <1>4, <1>5, <2>1, <2>2 DEF TypeOK, RunRecords, vendors
    <2>4. CurrentIsWhole' /\ CompletedIsInstalled'
      BY <1>1, <1>5 DEF PrepInv, CurrentIsWhole, CompletedIsInstalled
    <2>5. Prepared(r)' /\ app(r)' = app(r)
      BY <1>1, <1>2, <2>1, ReplacingKnows, StillPrepared DEF Outside
    <2>6. Observed(r)' /\ Announced(r)' /\ Holds(r)'
      BY <1>1, <1>2, <1>3, <1>5, <2>1, <2>5, ReplacingKnows
         DEF RunOK, Observed, Announced, Holds, Deciding, Replacing
    <2> QED BY <1>2, <2>1, <2>3, <2>4, <2>5, <2>6, HolderStep, ReplacingKnows
            DEF RunOK
  <1>6. CASE gone(r) /\ UNCHANGED partial
    <2>1. partial' \in [Apps -> [Releases -> Data]]
      BY <1>3, <1>6 DEF TypeOK
    <2>2. CASE Failing(r)
      BY <1>1, <1>2, <1>4, <2>1, <2>2, FailingStep, ReplacingKnows
    <2>3. CASE Go(r, [run[r] EXCEPT !.pc = "resolve", !.again = TRUE])
               /\ UNCHANGED <<report, lock>>
      <3> DEFINE o == [run[r] EXCEPT !.pc = "resolve", !.again = TRUE]
      <3>1. /\ o \in RunRecords /\ o.pc = "resolve" /\ o.n = run[r].n
            /\ o.apps = run[r].apps /\ o.update = run[r].update
            /\ o.installed = run[r].installed
        <4>1. run[r] \in RunRecords BY <1>2, ReplacingKnows
        <4> QED BY <4>1 DEF RunRecords, Labels
      <3> HIDE DEF o
      <3>2. /\ run' \in [Runs -> RunRecords] /\ run'[r] = o
            /\ \A s \in Runs \ {r} : run'[s] = run[s]
        BY <1>3, <2>3, <3>1, Goes DEF o
      <3>3. Prepared(r)' /\ app(r)' = app(r)
        BY <1>1, <1>2, <3>1, <3>2, ReplacingKnows, StillPrepared DEF Outside
      <3>4. Observed(r)'
        BY <1>1, <1>2, <3>1, <3>2, <3>3, ReplacingKnows
           DEF Observed, Deciding, Replacing
      <3>5. Announced(r)'
        BY <1>2, <2>3, ReplacingKnows DEF Announced
      <3> QED BY <1>1, <1>2, <1>4, <1>6, <2>3, <3>2, <3>3, <3>4, <3>5,
                 QuietStep, ReplacingKnows
    <2> QED BY <1>6, <2>2, <2>3 DEF gone
  <1> QED BY <1>5, <1>6 DEF downloading

\* verify: what was received becomes the package, or the run fails.
LEMMA VerifyStep ==
  ASSUME PrepInv, NEW r \in Runs, verify(r)
  PROVE  PrepInv'
  <1> DEFINE a == app(r)
             v == run[r].selected
  <1>1. /\ run[r].pc = "verify"
        /\ partial' = [partial EXCEPT ![a][v] = "none"]
        /\ UNCHANGED <<vendors, reader, faults, source, version, current>>
    BY DEF verify, At, Unchanged
  <1>2. run[r].pc \in Replacing BY <1>1 DEF Replacing
  <1>3. RunOK(r) /\ TypeOK BY DEF PrepInv
  <1>4. partial' \in [Apps -> [Releases -> Data]]
    BY <1>1, <1>2, <1>3, ReplacingKnows DEF TypeOK, Data
  <1>5. CASE Failing(r) /\ UNCHANGED package
    <2>1. faults' \in 0 .. MaxFaults BY <1>1, <1>3 DEF TypeOK
    <2> QED BY <1>1, <1>2, <1>4, <1>5, <2>1, FailingStep, ReplacingKnows
  <1>6. CASE /\ package' = [package EXCEPT ![a][v] = "whole"]
             /\ To(r, "install") /\ UNCHANGED <<report, lock>>
    <2>1. /\ run' \in [Runs -> RunRecords] /\ run'[r].pc = "install"
          /\ run'[r].update = run[r].update /\ run'[r].n = run[r].n
          /\ run'[r].apps = run[r].apps /\ run'[r].installed = run[r].installed
          /\ run'[r].selected = run[r].selected
          /\ \A s \in Runs \ {r} : run'[s] = run[s]
      BY <1>3, <1>6, Moves DEF Labels
    <2>2. /\ package' \in [Apps -> [Releases -> {"none", "whole"}]]
          /\ package'[a][v] = "whole"
      <3>1. package \in [Apps -> [Releases -> {"none", "whole"}]]
        BY <1>3 DEF TypeOK
      <3> QED BY <1>2, <1>6, <3>1, ReplacingKnows
    <2>3. TypeOK'
      BY <1>1, <1>3, <1>4, <1>6, <2>1, <2>2 DEF TypeOK, RunRecords, vendors
    <2>4. CurrentIsWhole' /\ CompletedIsInstalled'
      BY <1>1, <1>6 DEF PrepInv, CurrentIsWhole, CompletedIsInstalled
    <2>5. Prepared(r)' /\ app(r)' = app(r)
      BY <1>1, <1>2, <2>1, ReplacingKnows, StillPrepared DEF Outside
    <2>6. Observed(r)' /\ Announced(r)' /\ Holds(r)'
      BY <1>1, <1>2, <1>3, <1>6, <2>1, <2>2, <2>5, ReplacingKnows
         DEF RunOK, Observed, Announced, Holds, Deciding, Replacing
    <2> QED BY <1>2, <2>1, <2>3, <2>4, <2>5, <2>6, HolderStep, ReplacingKnows
            DEF RunOK
  <1> QED BY <1>5, <1>6 DEF verify

\* promote, first step: the version is unpacked from a whole package, or left
\* there by a run that was killed.
LEMMA RenameStep ==
  ASSUME PrepInv, NEW r \in Runs, promoteRename(r)
  PROVE  PrepInv'
  <1> DEFINE a == app(r)
             v == run[r].selected
  <1>1. /\ run[r].pc = "rename" /\ To(r, "link")
        /\ version' = [version EXCEPT ![a][v] =
                         IF @ = "none" THEN package[a][v] ELSE @]
        /\ UNCHANGED <<vendors, reader, faults, source, partial, package,
                       current, report, lock>>
    BY DEF promoteRename, At, Unchanged, Staged
  <1>2. run[r].pc \in Replacing BY <1>1 DEF Replacing
  <1>3. RunOK(r) /\ TypeOK BY DEF PrepInv
  <1>4. /\ run' \in [Runs -> RunRecords] /\ run'[r].pc = "link"
        /\ run'[r].update = run[r].update /\ run'[r].n = run[r].n
        /\ run'[r].apps = run[r].apps /\ run'[r].installed = run[r].installed
        /\ run'[r].selected = run[r].selected
        /\ \A s \in Runs \ {r} : run'[s] = run[s]
    BY <1>1, <1>3, Moves DEF Labels
  <1>5. version \in [Apps -> [Releases -> {"none", "whole"}]]
    BY <1>3 DEF TypeOK
  <1>6. package[a][v] = "whole" BY <1>1, <1>3 DEF RunOK, Observed
  <1>7. /\ version' \in [Apps -> [Releases -> {"none", "whole"}]]
        /\ version'[a][v] = "whole"
        /\ \A b \in Apps, w \in Releases :
              version[b][w] = "whole" => version'[b][w] = "whole"
    BY <1>1, <1>2, <1>5, <1>6, ReplacingKnows
  <1>8. TypeOK'
    BY <1>1, <1>3, <1>4, <1>7 DEF TypeOK, RunRecords, vendors
  <1>9. CurrentIsWhole'
    <2>1. \A b \in Apps : current[b] # None => current[b] \in Releases
      BY <1>3 DEF TypeOK, Receipts, MaybeRelease
    <2> QED BY <1>1, <1>7, <2>1 DEF PrepInv, CurrentIsWhole
  <1>10. CompletedIsInstalled'
    BY <1>1 DEF PrepInv, CompletedIsInstalled
  <1>11. Prepared(r)' /\ app(r)' = app(r)
    BY <1>1, <1>2, <1>4, ReplacingKnows, StillPrepared DEF Outside
  <1>12. Observed(r)' /\ Announced(r)' /\ Holds(r)'
    BY <1>1, <1>2, <1>3, <1>4, <1>7, <1>11, ReplacingKnows
       DEF RunOK, Observed, Announced, Holds, Deciding, Replacing
  <1> QED BY <1>2, <1>4, <1>8, <1>9, <1>10, <1>11, <1>12, HolderStep,
             ReplacingKnows DEF RunOK

\* promote, second step: the link names the version that is there, and the
\* report does not say completed.
LEMMA LinkStep ==
  ASSUME PrepInv, NEW r \in Runs, promoteLink(r)
  PROVE  PrepInv'
  <1> DEFINE a == app(r)
             v == run[r].selected
             o == [run[r] EXCEPT !.pc = "ready", !.installed = v]
  <1>1. /\ run[r].pc = "link" /\ Go(r, o)
        /\ current' = [current EXCEPT ![a] = v]
        /\ UNCHANGED <<vendors, reader, faults, source, partial, package,
                       version, report, lock>>
    BY DEF promoteLink, At, Unchanged
  <1>2. run[r].pc \in Replacing BY <1>1 DEF Replacing
  <1>3. RunOK(r) /\ TypeOK BY DEF PrepInv
  <1>4. /\ a \in Apps /\ v \in Releases /\ v # None /\ v \in MaybeRelease
        /\ run[r] \in RunRecords
    BY <1>2, ReplacingKnows, PreparationAssumption
       DEF PreparationAssumption, MaybeRelease
  <1> HIDE DEF v
  <1>5. /\ o \in RunRecords /\ o.pc = "ready" /\ o.n = run[r].n
        /\ o.apps = run[r].apps /\ o.installed = v
    BY <1>4 DEF RunRecords, Labels
  <1> HIDE DEF o
  <1>6. /\ run' \in [Runs -> RunRecords] /\ run'[r] = o
        /\ \A s \in Runs \ {r} : run'[s] = run[s]
    BY <1>1, <1>3, <1>5, Goes
  <1>7. /\ current' \in Receipts /\ current'[a] = v
        /\ \A b \in Apps \ {a} : current'[b] = current[b]
    BY <1>1, <1>3, <1>4 DEF TypeOK, Receipts
  <1>8. TypeOK' BY <1>1, <1>3, <1>6, <1>7 DEF TypeOK, RunRecords, vendors
  <1>9. CurrentIsWhole'
    <2>1. version[a][v] = "whole" BY <1>1, <1>3 DEF RunOK, Observed, v
    <2> QED BY <1>1, <1>7, <2>1 DEF PrepInv, CurrentIsWhole
  <1>10. CompletedIsInstalled'
    BY <1>1, <1>2, ReplacingKnows DEF CompletedIsInstalled
  <1>11. app(r)' = a BY <1>5, <1>6 DEF app
  <1>12. Prepared(r)'
    <2>1. \A m \in DOMAIN AppOrder : AppOrder[m] \in Apps BY DEF Apps
    <2>2. run[r].pc \notin Outside BY <1>1 DEF Outside
    <2> QED BY <1>3, <1>5, <1>6, <1>7, <1>11, <2>1, <2>2
            DEF RunOK, Prepared, Named, Outside
  <1>13. Observed(r)' /\ Announced(r)' /\ Holds(r)'
    BY <1>1, <1>3, <1>4, <1>5, <1>6, <1>7, <1>11
       DEF RunOK, Observed, Announced, Holds, Deciding, Replacing, Outside
  <1> QED BY <1>2, <1>6, <1>8, <1>9, <1>10, <1>12, <1>13, HolderStep,
             ReplacingKnows DEF RunOK

\* ready: the receipt of what is installed is written, and the next
\* application follows.
LEMMA ReadyStep ==
  ASSUME PrepInv, NEW r \in Runs, ready(r)
  PROVE  PrepInv'
  <1> DEFINE apps == [run[r].apps EXCEPT ![app(r)] = run[r].installed]
             last == run[r].n = Len(AppOrder)
             n == IF last THEN run[r].n ELSE run[r].n + 1
             l == IF last THEN "complete" ELSE "check"
             o == [run[r] EXCEPT !.apps = apps, !.n = n, !.pc = l]
  <1>1. /\ run[r].pc = "ready" /\ Go(r, o)
        /\ report' = [state |-> "running", apps |-> apps]
        /\ UNCHANGED <<vendors, reader, faults, files, lock>>
    BY DEF ready, At, Unchanged
  <1>2. RunOK(r) /\ TypeOK BY DEF PrepInv
  <1>3. /\ run[r] \in RunRecords /\ app(r) \in Apps
        /\ run[r].n \in Nat /\ run[r].n <= Len(AppOrder)
    BY <1>2, AppIsKnown
  <1>4. DOMAIN AppOrder = 1 .. Len(AppOrder) /\ Len(AppOrder) \in Nat
    BY PreparationAssumption DEF PreparationAssumption
  <1>5. run[r].apps \in Receipts /\ run[r].installed \in MaybeRelease
        /\ run[r].n \in DOMAIN AppOrder
    BY <1>3 DEF RunRecords
  <1>6. /\ apps \in Receipts /\ apps[app(r)] = run[r].installed
        /\ \A b \in Apps \ {app(r)} : apps[b] = run[r].apps[b]
    BY <1>3, <1>5 DEF Receipts
  <1>7. /\ n \in DOMAIN AppOrder /\ l \in Labels
        /\ l \in {"check", "complete"}
        /\ \A m \in DOMAIN AppOrder : m < n => m <= run[r].n
        /\ l = "complete" => \A m \in DOMAIN AppOrder : m <= run[r].n
    BY <1>3, <1>4, <1>5 DEF Labels
  <1> HIDE DEF apps, n, l
  <1>8. o \in RunRecords /\ o.pc = l /\ o.n = n /\ o.apps = apps
    BY <1>3, <1>6, <1>7 DEF RunRecords
  <1> HIDE DEF o
  <1>9. /\ run' \in [Runs -> RunRecords] /\ run'[r] = o
        /\ \A s \in Runs \ {r} : run'[s] = run[s]
    BY <1>1, <1>2, <1>8, Goes
  <1>10. TypeOK'
    <2>1. report' \in [state : States, apps : Receipts]
      BY <1>1, <1>6 DEF States
    <2> QED BY <1>1, <1>2, <1>9, <2>1 DEF TypeOK, RunRecords, vendors, files
  <1>11. CurrentIsWhole' /\ CompletedIsInstalled'
    BY <1>1 DEF PrepInv, CurrentIsWhole, CompletedIsInstalled, files
  <1>12. \A m \in DOMAIN AppOrder : m <= run[r].n =>
            current[AppOrder[m]] # None /\ apps[AppOrder[m]] = current[AppOrder[m]]
    <2>1. /\ run[r].installed = current[app(r)] /\ run[r].installed # None
          /\ \A m \in DOMAIN AppOrder :
                m < run[r].n => AppOrder[m] = app(r) \/ Named(r, AppOrder[m])
      BY <1>1, <1>2 DEF RunOK, Observed, Prepared, Outside
    <2> SUFFICES ASSUME NEW m \in DOMAIN AppOrder, m <= run[r].n
                 PROVE  /\ current[AppOrder[m]] # None
                        /\ apps[AppOrder[m]] = current[AppOrder[m]]
      OBVIOUS
    <2>2. CASE AppOrder[m] = app(r) BY <1>6, <2>1, <2>2
    <2>3. CASE AppOrder[m] # app(r)
      <3>1. m # run[r].n BY <2>3 DEF app
      <3>2. m < run[r].n BY <1>3, <1>4, <3>1
      <3>3. Named(r, AppOrder[m]) BY <2>1, <2>3, <3>2
      <3>4. AppOrder[m] \in Apps BY DEF Apps
      <3> QED BY <1>6, <2>3, <3>3, <3>4 DEF Named
    <2> QED BY <2>2, <2>3
  <1>13. current' = current BY <1>1 DEF files
  <1>14. Prepared(r)'
    <2>1. \A m \in DOMAIN AppOrder : m < n => Named(r, AppOrder[m])'
      BY <1>7, <1>8, <1>9, <1>12, <1>13 DEF Named
    <2>2. l = "complete" => \A b \in Apps : Named(r, b)'
      BY <1>7, <1>8, <1>9, <1>12, <1>13 DEF Named, Apps
    <2>3. run'[r].pc \notin Outside BY <1>7, <1>8, <1>9 DEF Outside
    <2> QED BY <1>8, <1>9, <2>1, <2>2, <2>3 DEF Prepared
  <1>15. Observed(r)' /\ Announced(r)' /\ Holds(r)'
    BY <1>1, <1>2, <1>7, <1>8, <1>9
       DEF RunOK, Observed, Announced, Holds, Deciding, Replacing, Outside
  <1>16. run[r].pc \notin Outside BY <1>1 DEF Outside
  <1> QED BY <1>9, <1>10, <1>11, <1>14, <1>15, <1>16, HolderStep DEF RunOK

\* complete: every receipt is in memory when the report says completed.
LEMMA CompleteStep ==
  ASSUME PrepInv, NEW r \in Runs, complete(r)
  PROVE  PrepInv'
  <1>1. /\ run[r].pc = "complete" /\ Go(r, NotRunning) /\ lock' = None
        /\ report' = [state |-> "completed", apps |-> run[r].apps]
        /\ UNCHANGED <<vendors, reader, faults, files>>
    BY DEF complete, At, Unchanged
  <1>2. RunOK(r) /\ TypeOK BY DEF PrepInv
  <1>3. /\ run' \in [Runs -> RunRecords] /\ run'[r] = NotRunning
        /\ \A s \in Runs \ {r} : run'[s] = run[s]
    BY <1>1, <1>2, RestIsKnown, Goes
  <1>4. TypeOK'
    <2>1. run[r].apps \in Receipts BY <1>2, AppIsKnown DEF RunRecords
    <2>2. report' \in [state : States, apps : Receipts]
      BY <1>1, <2>1 DEF States
    <2> QED BY <1>1, <1>2, <1>3, <2>2 DEF TypeOK, RunRecords, vendors, files
  <1>5. CurrentIsWhole' BY <1>1 DEF PrepInv, CurrentIsWhole, files
  <1>6. CompletedIsInstalled'
    BY <1>1, <1>2 DEF RunOK, Prepared, Named, CompletedIsInstalled, files
  <1>7. RunOK(r)' BY <1>3, RestIsKnown, OverIsOK DEF Outside
  <1>8. run[r].pc \notin Outside BY <1>1 DEF Outside
  <1> QED BY <1>3, <1>4, <1>5, <1>6, <1>7, <1>8, HolderStep

-----------------------------------------------------------------------------
\* Network errors, damaged downloads and kills.
LEMMA FaultStep ==
  ASSUME PrepInv, NEW r \in Runs, disturbances(r)
  PROVE  PrepInv'
  <1>1. faults' \in 0 .. MaxFaults
    BY PreparationAssumption
       DEF PreparationAssumption, disturbances, downloadFails, damaged,
           installFails, resolveFails, kill, Faulty, PrepInv, TypeOK
  <1>2. TypeOK BY DEF PrepInv
  <1>3. CASE downloadFails(r)
    <2>1. PICK left \in {"part", "none"} : partial' =
             [partial EXCEPT ![app(r)][run[r].selected] = left]
      BY <1>3 DEF downloadFails
    <2>2. run[r].pc \in Replacing BY <1>3 DEF downloadFails, At, Replacing
    <2>3. partial' \in [Apps -> [Releases -> Data]]
      BY <1>2, <2>1, <2>2, ReplacingKnows DEF TypeOK, Data
    <2> QED BY <1>1, <1>3, <2>2, <2>3, FailingStep, ReplacingKnows
            DEF downloadFails
  <1>4. CASE installFails(r) \/ resolveFails(r)
    <2>1. /\ run[r].pc \notin Outside /\ Failing(r)
          /\ UNCHANGED <<vendors, files, reader>>
      BY <1>4 DEF installFails, resolveFails, At, Outside
    <2>2. partial' \in [Apps -> [Releases -> Data]]
      BY <1>2, <2>1 DEF TypeOK, files
    <2> QED BY <1>1, <2>1, <2>2, FailingStep DEF files
  <1>5. CASE damaged(r)
    <2>1. /\ run[r].pc = "verify"
          /\ partial' = [partial EXCEPT ![app(r)][run[r].selected] = "bad"]
          /\ UNCHANGED <<vendors, source, package, version, current, report,
                         lock, run, reader>>
      BY <1>5 DEF damaged, At
    <2>2. run[r].pc \in Replacing BY <2>1 DEF Replacing
    <2>3. partial' \in [Apps -> [Releases -> Data]]
      BY <1>2, <2>1, <2>2, ReplacingKnows DEF TypeOK, Data
    <2>4. TypeOK' BY <1>1, <1>2, <2>1, <2>3 DEF TypeOK, vendors
    <2>5. \A s \in Runs : RunOK(s)' BY <2>1, Undisturbed DEF PrepInv
    <2>6. CurrentIsWhole' /\ CompletedIsInstalled'
      BY <2>1 DEF PrepInv, CurrentIsWhole, CompletedIsInstalled
    <2> QED BY <2>4, <2>5, <2>6 DEF PrepInv
  <1>6. CASE kill(r)
    <2>1. /\ Go(r, NotRunning)
          /\ lock' = IF lock = r THEN None ELSE lock
          /\ UNCHANGED <<vendors, files, report, reader>>
      BY <1>6 DEF kill
    <2>2. /\ run' \in [Runs -> RunRecords] /\ run'[r] = NotRunning
          /\ \A s \in Runs \ {r} : run'[s] = run[s]
      BY <1>2, <2>1, RestIsKnown, Goes
    <2>3. TypeOK'
      BY <1>1, <1>2, <2>1, <2>2 DEF TypeOK, RunRecords, vendors, files
    <2>4. RunOK(r)' BY <2>2, RestIsKnown, OverIsOK DEF Outside
    <2>5. \A s \in Runs \ {r} : lock = s => lock' = s BY <2>1
    <2>6. UNCHANGED <<current, package, version, report>> BY <2>1 DEF files
    <2> QED BY <2>2, <2>3, <2>4, <2>5, <2>6, SideStep
  <1> QED BY <1>3, <1>4, <1>5, <1>6 DEF disturbances

\* A status call takes a free lock only, and gives back its own.
LEMMA StatusStep ==
  ASSUME PrepInv, NEW d \in Readers,
         statusRead(d) \/ statusTest(d) \/ statusEnd(d)
  PROVE  PrepInv'
  <1>1. UNCHANGED <<vendors, files, report, run, faults>>
    BY DEF statusRead, statusTest, statusEnd
  <1>2. TypeOK BY DEF PrepInv
  <1>3. /\ reader' \in [Readers -> States \cup {"idle", "test", "interrupted"}]
        /\ lock' \in {lock, d, None}
        /\ lock' # lock => lock \in {None, d}
    BY <1>2 DEF statusRead, statusTest, statusEnd, Reads, TypeOK, States
  <1>4. TypeOK' BY <1>1, <1>2, <1>3 DEF TypeOK, vendors, files
  <1>5. \A s \in Runs : lock = s => lock' = s
    BY <1>3, PreparationAssumption DEF PreparationAssumption
  <1> QED BY <1>1, <1>4, <1>5, OutsideStep

\* A vendor publishes a release, or retires an old one.
LEMMA VendorStep ==
  ASSUME PrepInv, NEW a \in Apps, publish(a) \/ retire(a)
  PROVE  PrepInv'
  <1>1. UNCHANGED <<files, report, lock, run, reader, faults>>
    BY DEF publish, retire
  <1>2. TypeOK BY DEF PrepInv
  <1>3. latest[a] \in Nat /\ 1 <= latest[a] /\ latest[a] <= MaxRelease
        /\ MaxRelease \in Nat
    BY <1>2, PreparationAssumption
       DEF PreparationAssumption, TypeOK, Releases
  <1>4. latest' \in [Apps -> Releases] /\ retired' \in [Apps -> SUBSET Releases]
    <2>1. CASE publish(a)
      <3>1. latest[a] + 1 \in Releases BY <1>3, <2>1 DEF publish, Releases
      <3> QED BY <1>2, <2>1, <3>1 DEF publish, TypeOK
    <2>2. CASE retire(a)
      <3>1. PICK v \in 1 .. latest[a] - 1 :
               retired' = [retired EXCEPT ![a] = @ \cup {v}]
        BY <2>2 DEF retire
      <3>2. v \in Releases BY <1>3 DEF Releases
      <3> QED BY <1>2, <2>2, <3>1, <3>2 DEF retire, TypeOK
    <2> QED BY <2>1, <2>2
  <1>5. TypeOK' BY <1>1, <1>2, <1>4 DEF TypeOK, files
  <1> QED BY <1>1, <1>5, OutsideStep

-----------------------------------------------------------------------------
\* Nothing is installed and nobody prepares.
LEMMA Initially == Init => PrepInv
  <1> SUFFICES ASSUME Init PROVE PrepInv
    OBVIOUS
  <1> USE PreparationAssumption DEF PreparationAssumption
  <1>1. /\ 1 \in Releases /\ None \in MaybeRelease
    BY DEF Releases, MaybeRelease
  <1>2. \A r \in Runs : run[r] = NotRunning BY DEF Init
  <1>3. TypeOK
    <2>1. /\ latest \in [Apps -> Releases]
          /\ retired \in [Apps -> SUBSET Releases]
          /\ source \in Receipts /\ current \in Receipts
      BY <1>1 DEF Init, Receipts
    <2>2. /\ partial \in [Apps -> [Releases -> Data]]
          /\ package \in [Apps -> [Releases -> {"none", "whole"}]]
          /\ version \in [Apps -> [Releases -> {"none", "whole"}]]
      BY DEF Init, Data
    <2>3. report \in [state : States, apps : Receipts]
      BY <1>1 DEF Init, States, Receipts
    <2>4. run \in [Runs -> RunRecords] BY RestIsKnown DEF Init
    <2> QED BY <2>1, <2>2, <2>3, <2>4 DEF Init, TypeOK, RunRecords, States
  <1>4. CurrentIsWhole /\ CompletedIsInstalled
    BY DEF Init, CurrentIsWhole, CompletedIsInstalled
  <1>5. \A r \in Runs : RunOK(r)
    BY <1>2, RestIsKnown
       DEF RunOK, Holds, Observed, Prepared, Announced, Outside, Deciding,
           Replacing
  <1> QED BY <1>3, <1>4, <1>5 DEF PrepInv

\* Every step keeps the invariant.
LEMMA Inductive == PrepInv /\ [Next]_vars => PrepInv'
  <1> SUFFICES ASSUME PrepInv, [Next]_vars PROVE PrepInv'
    OBVIOUS
  <1>1. CASE \E r \in Runs : begin(r) \/ steps(r) \/ disturbances(r)
    BY <1>1, BeginStep, CheckStep, SayStep, ResolvingStep, DownloadStep,
       DownloadingStep, VerifyStep, RenameStep, LinkStep, ReadyStep,
       CompleteStep, FaultStep DEF steps
  <1>2. CASE \E d \in Readers : statusRead(d) \/ statusTest(d) \/ statusEnd(d)
    BY <1>2, StatusStep
  <1>3. CASE \E a \in Apps : publish(a) \/ retire(a)
    BY <1>3, VendorStep
  <1>4. CASE UNCHANGED vars
    <2>1. TypeOK' BY <1>4 DEF PrepInv, TypeOK, vars, vendors, files
    <2> QED BY <1>4, <2>1, OutsideStep DEF vars
  <1> QED BY <1>1, <1>2, <1>3, <1>4 DEF Next

\* The link is changed by promote alone, in an update or for an application
\* that was not there.
LEMMA LinkChanges ==
  ASSUME PrepInv, [Next]_vars, NEW a \in Apps,
         current[a] # None, current'[a] # current[a]
  PROVE  \E r \in Runs : run[r].update /\ app(r) = a /\ lock = r
  <1>1. PICK r \in Runs : promoteLink(r)
    BY DEF Next, vars, files, vendors, begin, steps, acquire, check, resolve,
           resolving, download, downloading, verify, install, promoteRename,
           ready, complete, disturbances, downloadFails, damaged,
           installFails, resolveFails, kill, statusRead, statusTest,
           statusEnd, publish, retire
  <1>2. /\ run[r].pc = "link"
        /\ current' = [current EXCEPT ![app(r)] = run[r].selected]
    BY <1>1 DEF promoteLink, At
  <1>3. run[r].pc \in Replacing BY <1>2 DEF Replacing
  <1>4. a = app(r) BY <1>2 DEF PrepInv, TypeOK, Receipts
  <1>5. lock = r BY <1>2 DEF PrepInv, RunOK, Holds, Outside
  <1>6. run[r].update BY <1>3, <1>4, ReplacingKnows
  <1> QED BY <1>4, <1>5, <1>6

\* The invariant of preparation.
THEOREM PreparationInvariant == Spec => []PrepInv
  BY Initially, Inductive, PTL DEF Spec

\* The files, the report and the invocations keep their types; in particular
\* only a package that verified is ever unpacked.
THEOREM PreparationTypeCorrect == Spec => []TypeOK
  <1>1. PrepInv => TypeOK BY DEF PrepInv
  <1> QED BY <1>1, PreparationInvariant, PTL

\* "current" names a whole version, wherever runs were killed
\* (workstation-apps 189-210).
THEOREM CurrentNeverBroken == Spec => []CurrentIsWhole
  <1>1. PrepInv => CurrentIsWhole BY DEF PrepInv
  <1> QED BY <1>1, PreparationInvariant, PTL

\* A completed report names what is installed, for every application
\* (workstation-apps 524-543).
THEOREM CompletedIsTrue == Spec => []CompletedIsInstalled
  <1>1. PrepInv => CompletedIsInstalled BY DEF PrepInv
  <1> QED BY <1>1, PreparationInvariant, PTL

\* An application that works is replaced by an update alone
\* (workstation-apps 259-266).
THEOREM UpdatesAloneReplace == Spec => OnlyUpdatesReplace
  <1> DEFINE A == \A a \in Apps :
                     current[a] # None /\ current'[a] # current[a] =>
                        \E r \in Runs : run[r].update /\ app(r) = a /\ lock = r
  <1>1. PrepInv /\ [Next]_vars => [A]_vars
    BY LinkChanges
  <1> QED BY <1>1, PreparationInvariant, PTL DEF Spec, OnlyUpdatesReplace
-----------------------------------------------------------------------------
(***************************************************************************)
(* An application never goes back to an older release.  The index may be   *)
(* long out of date when the link is replaced: it is enough that what is   *)
(* installed and what is cached as the source were the newest once, and    *)
(* that the release selected was the newest after the one installed.       *)
(***************************************************************************)
Upstream == \A a \in Apps : /\ current[a] # None => current[a] <= latest[a]
                            /\ source[a] # None => source[a] <= latest[a]
Advances(r) ==
    run[r].pc \in Replacing =>
        /\ run[r].selected <= latest[app(r)]
        /\ run[r].installed # None => run[r].installed <= run[r].selected
Forward == Upstream /\ \A r \in Runs : Advances(r)

\* An invocation that replaces an application after the step did before, with
\* the same releases.
Carries(s) ==
    run'[s].pc \in Replacing =>
        /\ run[s].pc \in Replacing
        /\ run'[s].selected = run[s].selected
        /\ run'[s].installed = run[s].installed
        /\ run'[s].n = run[s].n

\* Steps that neither look for a release nor install one.
LEMMA CarriedForward ==
  ASSUME Forward, UNCHANGED <<latest, source, current>>,
         \A s \in Runs : Carries(s)
  PROVE  Forward'
  <1>1. Upstream' BY DEF Forward, Upstream
  <1>2. ASSUME NEW s \in Runs PROVE Advances(s)'
    BY <1>2 DEF Forward, Advances, Carries, app
  <1> QED BY <1>1, <1>2 DEF Forward

\* The step of one invocation: the others carry on.
LEMMA OneCarries ==
  ASSUME NEW r \in Runs, \A s \in Runs \ {r} : run'[s] = run[s], Carries(r)
  PROVE  \A s \in Runs : Carries(s)
  BY DEF Carries

\* An invocation that goes on to another label carries its releases along.
LEMMA MoveCarries ==
  ASSUME TypeOK, NEW r \in Runs, NEW l \in Labels, To(r, l),
         run[r].pc \in Replacing \/ l \notin Replacing
  PROVE  \A s \in Runs : Carries(s)
  <1>1. Carries(r) BY Moves DEF Carries
  <1> QED BY <1>1, Moves, OneCarries

\* One that goes on to something else than replacing has nothing to carry.
LEMMA LeaveCarries ==
  ASSUME TypeOK, NEW r \in Runs, NEW o \in RunRecords, Go(r, o),
         o.pc \notin Replacing
  PROVE  \A s \in Runs : Carries(s)
  <1>1. Carries(r) BY Goes DEF Carries
  <1> QED BY <1>1, Goes, OneCarries

\* One that fails is over.
LEMMA FailingCarries ==
  ASSUME TypeOK, NEW r \in Runs, Go(r, NotRunning)
  PROVE  \A s \in Runs : Carries(s)
  BY RestIsKnown, LeaveCarries DEF Replacing

\* The steps of an invocation that look for no release and install none.
LEMMA PlainForward ==
  ASSUME PrepInv, Forward, NEW r \in Runs,
         \/ begin(r) \/ acquire(r) \/ resolve(r) \/ install(r) \/ download(r)
         \/ downloading(r) \/ verify(r) \/ promoteRename(r) \/ ready(r)
         \/ complete(r) \/ disturbances(r)
  PROVE  Forward'
  <1>1. TypeOK /\ run[r] \in RunRecords /\ report.apps \in Receipts
    BY AppIsKnown DEF PrepInv, TypeOK
  <1>2. UNCHANGED <<latest, source, current>>
    BY DEF begin, acquire, resolve, install, download, downloading, verify,
           promoteRename, ready, complete, disturbances, downloadFails,
           damaged, installFails, resolveFails, kill, Unchanged, vendors,
           files
  <1>3. CASE begin(r)
    <2>1. PICK update \in BOOLEAN :
             Go(r, [NotRunning EXCEPT !.pc = "lock", !.update = update])
      BY <1>3 DEF begin
    <2> DEFINE o == [NotRunning EXCEPT !.pc = "lock", !.update = update]
    <2>2. o \in RunRecords /\ o.pc = "lock"
      BY RestIsKnown DEF RunRecords, Labels
    <2>3. \A s \in Runs : Carries(s)
      BY <1>1, <2>1, <2>2, LeaveCarries DEF Replacing
    <2> QED BY <1>2, <2>3, CarriedForward
  <1>4. CASE acquire(r)
    <2> DEFINE o == [run[r] EXCEPT !.pc = "check", !.apps = report.apps]
    <2>1. o \in RunRecords /\ o.pc = "check" /\ Go(r, o)
      BY <1>1, <1>4 DEF RunRecords, Labels, acquire, Locked
    <2>2. \A s \in Runs : Carries(s)
      BY <1>1, <2>1, LeaveCarries DEF Replacing
    <2> QED BY <1>2, <2>2, CarriedForward
  <1>5. CASE resolve(r) \/ install(r) \/ download(r) \/ promoteRename(r)
    <2>1. PICK l \in {"resolving", "rename", "install", "downloading", "link"} :
             To(r, l) /\ (run[r].pc \in Replacing \/ l \notin Replacing)
      BY <1>5 DEF resolve, install, download, promoteRename, At, Replacing
    <2>2. \A s \in Runs : Carries(s)
      BY <1>1, <2>1, MoveCarries DEF Labels
    <2> QED BY <1>2, <2>2, CarriedForward
  <1>6. CASE downloading(r) \/ verify(r)
    <2>1. run[r].pc \in Replacing
      BY <1>6 DEF downloading, verify, At, Replacing
    <2>2. \/ To(r, "verify") \/ To(r, "install") \/ Go(r, NotRunning)
          \/ Go(r, [run[r] EXCEPT !.pc = "resolve", !.again = TRUE])
      BY <1>6 DEF downloading, verify, gone, Failing
    <2> DEFINE o == [run[r] EXCEPT !.pc = "resolve", !.again = TRUE]
    <2>3. o \in RunRecords /\ o.pc = "resolve"
      BY <1>1 DEF RunRecords, Labels
    <2>4. \A s \in Runs : Carries(s)
      <3>1. CASE To(r, "verify") \/ To(r, "install")
        BY <1>1, <2>1, <3>1, MoveCarries DEF Labels
      <3>2. CASE Go(r, NotRunning) BY <1>1, <3>2, FailingCarries
      <3>3. CASE Go(r, o) BY <1>1, <2>3, <3>3, LeaveCarries DEF Replacing
      <3> QED BY <2>2, <3>1, <3>2, <3>3
    <2> QED BY <1>2, <2>4, CarriedForward
  <1>7. CASE ready(r)
    <2> DEFINE last == run[r].n = Len(AppOrder)
               apps == [run[r].apps EXCEPT ![app(r)] = run[r].installed]
               l == IF last THEN "complete" ELSE "check"
               o == [run[r] EXCEPT !.apps = apps,
                        !.n = IF last THEN @ ELSE @ + 1, !.pc = l]
    <2>1. Go(r, o) BY <1>7 DEF ready
    <2>2. run' = [run EXCEPT ![r] = o] /\ run \in [Runs -> RunRecords]
      BY <1>1, <2>1 DEF Go, TypeOK, RunRecords
    <2>3. l \notin Replacing BY DEF Replacing
    <2>4. o.pc = l BY <1>1 DEF RunRecords
    <2> HIDE DEF o, l
    <2>5. run'[r] = o /\ \A s \in Runs \ {r} : run'[s] = run[s] BY <2>2
    <2>6. Carries(r) BY <2>3, <2>4, <2>5 DEF Carries
    <2> QED BY <1>2, <2>5, <2>6, OneCarries, CarriedForward
  <1>8. CASE complete(r)
    BY <1>1, <1>2, <1>8, FailingCarries, CarriedForward DEF complete
  <1>9. CASE disturbances(r)
    <2>1. Go(r, NotRunning) \/ run' = run
      BY <1>9 DEF disturbances, downloadFails, damaged, installFails,
                  resolveFails, kill, Failing
    <2>2. \A s \in Runs : Carries(s)
      BY <1>1, <2>1, FailingCarries DEF Carries
    <2> QED BY <1>2, <2>2, CarriedForward
  <1> QED BY <1>3, <1>4, <1>5, <1>6, <1>7, <1>8, <1>9

\* check: only an application that is not installed is downloaded from the
\* source that was cached.
LEMMA CheckForward ==
  ASSUME PrepInv, Forward, NEW r \in Runs, check(r)
  PROVE  Forward'
  <1> DEFINE l == afterCheck(r, current[app(r)])
             o == [run[r] EXCEPT !.installed = current[app(r)],
                     !.selected = source[app(r)], !.again = FALSE, !.pc = l]
  <1>1. run[r] \in RunRecords /\ app(r) \in Apps
    BY AppIsKnown DEF PrepInv
  <1>2. /\ l \in {"resolve", "ready", "download"}
        /\ l = "download" => current[app(r)] = None /\ source[app(r)] # None
    BY DEF afterCheck
  <1>3. Go(r, o) /\ UNCHANGED <<latest, source, current>>
    BY DEF check, Unchanged, vendors, files
  <1> HIDE DEF l
  <1>4. /\ current[app(r)] \in MaybeRelease /\ source[app(r)] \in MaybeRelease
    BY <1>1 DEF PrepInv, TypeOK, Receipts
  <1>5. /\ o \in RunRecords /\ o.pc = l /\ o.n = run[r].n
        /\ o.installed = current[app(r)] /\ o.selected = source[app(r)]
    BY <1>1, <1>2, <1>4 DEF RunRecords, Labels
  <1> HIDE DEF o
  <1>6. run'[r] = o /\ \A s \in Runs \ {r} : run'[s] = run[s]
    BY <1>3, <1>5, Goes DEF PrepInv
  <1>7. Upstream' BY <1>3 DEF Forward, Upstream
  <1>8. Advances(r)'
    <2>1. l \in Replacing => l = "download" BY <1>2 DEF Replacing
    <2>2. app(r)' = app(r) BY <1>5, <1>6 DEF app
    <2> QED BY <1>1, <1>2, <1>3, <1>5, <1>6, <2>1, <2>2
            DEF Forward, Upstream, Advances
  <1>9. \A s \in Runs \ {r} : Advances(s)'
    BY <1>3, <1>6 DEF Forward, Advances, app
  <1> QED BY <1>7, <1>8, <1>9 DEF Forward

\* resolving: the newest release is selected, and no newer one is installed.
LEMMA ResolvingForward ==
  ASSUME PrepInv, Forward, NEW r \in Runs, resolving(r)
  PROVE  Forward'
  <1> DEFINE a == app(r)
             l == IF run[r].installed = latest[a] THEN "ready" ELSE "download"
             o == [run[r] EXCEPT !.selected = latest[a], !.pc = l]
  <1>1. /\ run[r] \in RunRecords /\ a \in Apps
        /\ run[r].installed = current[a]
    <2>1. run[r].pc \in Deciding BY DEF resolving, At, Deciding
    <2>2. Observed(r) BY DEF PrepInv, RunOK
    <2> QED BY <2>1, <2>2, AppIsKnown DEF PrepInv, Observed
  <1>2. /\ latest[a] \in Nat /\ latest[a] \in MaybeRelease
        /\ source \in Receipts
    BY <1>1, PreparationAssumption
       DEF PreparationAssumption, MaybeRelease, PrepInv, TypeOK, Releases
  <1>3. /\ Go(r, o) /\ source' = [source EXCEPT ![a] = latest[a]]
        /\ UNCHANGED <<latest, current>>
    BY DEF resolving, Unchanged, vendors
  <1>4. l \in Labels BY DEF Labels
  <1> HIDE DEF l
  <1>5. /\ o \in RunRecords /\ o.n = run[r].n
        /\ o.installed = run[r].installed /\ o.selected = latest[a]
    BY <1>1, <1>2, <1>4 DEF RunRecords
  <1> HIDE DEF o
  <1>6. run'[r] = o /\ \A s \in Runs \ {r} : run'[s] = run[s]
    BY <1>3, <1>5, Goes DEF PrepInv
  <1>7. Upstream'
    <2>1. /\ source'[a] = latest[a]
          /\ \A b \in Apps \ {a} : source'[b] = source[b]
      BY <1>1, <1>2, <1>3 DEF Receipts
    <2>2. latest[a] <= latest[a] BY <1>2
    <2> QED BY <1>1, <1>3, <2>1, <2>2 DEF Forward, Upstream
  <1>8. Advances(r)'
    <2>1. app(r)' = a BY <1>5, <1>6 DEF app
    <2>2. current[a] # None => current[a] <= latest[a]
      BY <1>1 DEF Forward, Upstream
    <2>3. latest[a] <= latest[a] BY <1>2
    <2> QED BY <1>1, <1>3, <1>5, <1>6, <2>1, <2>2, <2>3 DEF Advances
  <1>9. \A s \in Runs \ {r} : Advances(s)'
    BY <1>3, <1>6 DEF Forward, Advances, app
  <1> QED BY <1>7, <1>8, <1>9 DEF Forward

\* promote: the link goes on to the release selected, which is not older.
LEMMA LinkForward ==
  ASSUME PrepInv, Forward, NEW r \in Runs, promoteLink(r)
  PROVE  /\ Forward' /\ run[r].selected \in Releases
         /\ current' = [current EXCEPT ![app(r)] = run[r].selected]
         /\ current[app(r)] # None => current[app(r)] <= run[r].selected
  <1> DEFINE a == app(r)
             o == [run[r] EXCEPT !.pc = "ready",
                                 !.installed = run[r].selected]
  <1>1. /\ run[r].pc \in Replacing /\ Go(r, o)
        /\ current' = [current EXCEPT ![a] = run[r].selected]
        /\ UNCHANGED <<latest, source>>
    BY DEF promoteLink, At, Replacing, Unchanged, vendors
  <1>2. /\ run[r] \in RunRecords /\ a \in Apps
        /\ run[r].selected \in Releases /\ run[r].installed = current[a]
    BY <1>1, ReplacingKnows
  <1>3. o \in RunRecords /\ o.pc = "ready"
    BY <1>2 DEF RunRecords, Labels, MaybeRelease
  <1> HIDE DEF o
  <1>4. run'[r] = o /\ \A s \in Runs \ {r} : run'[s] = run[s]
    BY <1>1, <1>3, Goes DEF PrepInv
  <1>5. /\ run[r].selected <= latest[a]
        /\ current[a] # None => current[a] <= run[r].selected
    BY <1>1, <1>2 DEF Forward, Advances
  <1>6. Upstream'
    <2>1. /\ current'[a] = run[r].selected
          /\ \A b \in Apps \ {a} : current'[b] = current[b]
      BY <1>1, <1>2 DEF PrepInv, TypeOK, Receipts
    <2> QED BY <1>1, <1>5, <2>1 DEF Forward, Upstream
  <1>7. Advances(r)' BY <1>3, <1>4 DEF Advances, Replacing
  <1>8. \A s \in Runs \ {r} : Advances(s)'
    BY <1>1, <1>4 DEF Forward, Advances, app
  <1> QED BY <1>1, <1>2, <1>5, <1>6, <1>7, <1>8 DEF Forward

\* A vendor publishes a newer release than all there were.
LEMMA VendorForward ==
  ASSUME PrepInv, Forward, NEW b \in Apps, publish(b) \/ retire(b)
  PROVE  Forward'
  <1>1. UNCHANGED <<source, current, run>> BY DEF publish, retire, files
  <1>2. \A a \in Apps : /\ latest[a] \in Nat /\ latest'[a] \in Nat
                        /\ latest[a] <= latest'[a]
                        /\ current[a] # None => current[a] \in Nat
                        /\ source[a] # None => source[a] \in Nat
    <2>1. MaxRelease \in Nat
      BY PreparationAssumption DEF PreparationAssumption
    <2>2. /\ latest \in [Apps -> Nat]
          /\ \A a \in Apps : /\ current[a] # None => current[a] \in Nat
                             /\ source[a] # None => source[a] \in Nat
      BY <2>1 DEF PrepInv, TypeOK, Receipts, MaybeRelease, Releases
    <2>3. latest' = latest \/ latest' = [latest EXCEPT ![b] = @ + 1]
      BY DEF publish, retire
    <2> QED BY <2>2, <2>3
  <1>3. Upstream' BY <1>1, <1>2 DEF Forward, Upstream
  <1>4. ASSUME NEW s \in Runs PROVE Advances(s)'
    <2>1. app(s) \in Apps BY AppIsKnown DEF PrepInv
    <2>2. run[s].pc \in Replacing => run[s].selected \in Nat
      BY ReplacingKnows, PreparationAssumption
         DEF PreparationAssumption, Releases
    <2> QED BY <1>1, <1>2, <2>1, <2>2 DEF Forward, Advances, app
  <1> QED BY <1>3, <1>4 DEF Forward

\* Nothing is installed, and no source is cached.
LEMMA InitiallyForward == Init => Forward
  BY DEF Init, Forward, Upstream, Advances, NotRunning, Replacing

\* Every step keeps it, and puts no older release in place.
LEMMA StepsForward ==
  ASSUME PrepInv, Forward, [Next]_vars
  PROVE  /\ Forward'
         /\ \A a \in Apps : current[a] # None =>
               current'[a] # None /\ current[a] <= current'[a]
  <1>1. \A a \in Apps : current[a] # None => current[a] \in Nat
    BY PreparationAssumption
       DEF PreparationAssumption, PrepInv, TypeOK, Receipts, MaybeRelease,
           Releases
  <1>2. CASE \E r \in Runs : promoteLink(r)
    <2>1. PICK r \in Runs : promoteLink(r) BY <1>2
    <2>2. /\ Forward' /\ run[r].selected \in Releases
          /\ current' = [current EXCEPT ![app(r)] = run[r].selected]
          /\ current[app(r)] # None => current[app(r)] <= run[r].selected
      BY <2>1, LinkForward
    <2>3. /\ app(r) \in Apps /\ current \in [Apps -> MaybeRelease]
          /\ run[r].selected # None
      BY <2>2, AppIsKnown, PreparationAssumption
         DEF PreparationAssumption, PrepInv, TypeOK, Receipts
    <2>4. ASSUME NEW a \in Apps, current[a] # None
          PROVE  current'[a] # None /\ current[a] <= current'[a]
      <3>1. CASE a = app(r) BY <2>2, <2>3, <2>4, <3>1
      <3>2. CASE a # app(r)
        <4>1. current'[a] = current[a] BY <2>2, <2>3, <3>2
        <4> QED BY <1>1, <2>4, <4>1
      <3> QED BY <3>1, <3>2
    <2> QED BY <2>2, <2>4
  <1>3. CASE ~\E r \in Runs : promoteLink(r)
    <2>1. current' = current
      BY <1>3 DEF Next, vars, files, vendors, begin, steps, acquire, check,
           resolve, resolving, download, downloading, verify, install,
           promoteRename, ready, complete, disturbances, downloadFails,
           damaged, installFails, resolveFails, kill, statusRead, statusTest,
           statusEnd, publish, retire
    <2>2. Forward'
      <3>1. CASE \E r \in Runs : begin(r) \/ steps(r) \/ disturbances(r)
        BY <1>3, <3>1, PlainForward, CheckForward, ResolvingForward DEF steps
      <3>2. CASE \E a \in Apps : publish(a) \/ retire(a)
        BY <3>2, VendorForward
      <3>3. CASE \/ UNCHANGED vars
                 \/ \E d \in Readers :
                       statusRead(d) \/ statusTest(d) \/ statusEnd(d)
        <4>1. UNCHANGED <<latest, source, current, run>>
          BY <3>3 DEF vars, vendors, files, statusRead, statusTest, statusEnd
        <4> QED BY <4>1, CarriedForward DEF Carries
      <3> QED BY <3>1, <3>2, <3>3 DEF Next
    <2> QED BY <1>1, <2>1, <2>2
  <1> QED BY <1>2, <1>3

\* No update goes back to an older release, however old the index it read
\* (workstation-apps 259-285).
THEOREM UpdatesGoForward == Spec => NeverOlder
  <1> DEFINE A == \A a \in Apps : current[a] # None =>
                     current'[a] # None /\ current[a] <= current'[a]
  <1>1. Init => PrepInv /\ Forward BY Initially, InitiallyForward
  <1>2. PrepInv /\ Forward /\ [Next]_vars => (PrepInv /\ Forward)' /\ [A]_vars
    BY Inductive, StepsForward
  <1> QED BY <1>1, <1>2, PTL DEF Spec, NeverOlder
=============================================================================
