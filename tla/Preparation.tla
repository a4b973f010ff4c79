----------------------------- MODULE Preparation -----------------------------
(***************************************************************************)
(* workstation-apps: the vendors' packages are put in the personal volume  *)
(* by any number of invocations (the first desktop's window, prepare and   *)
(* update-apps), one at a time under preparation.lock.  A run may fail or  *)
(* be killed at every step, and the next one resumes from the files left.  *)
(* Meanwhile vendors publish releases and retire old ones, and --status    *)
(* reads the report.                                                       *)
(*                                                                         *)
(* X_... is a definition X with a seeded fault; no action uses it.         *)
(***************************************************************************)
EXTENDS Naturals, Sequences, FiniteSetsExt

CONSTANTS
    AppOrder,       \* the applications of the configuration, in its order
    Runs,           \* invocations that prepare
    Readers,        \* invocations with --status
    MaxRelease,     \* bound: releases each vendor publishes
    MaxFaults,      \* bound: network errors, damaged downloads, kills
    None            \* no release, no holder of the lock

Apps     == {AppOrder[n] : n \in DOMAIN AppOrder}
Releases == 1 .. MaxRelease
MaybeRelease == Releases \cup {None}
\* A file is whole, has its beginning only, or its size with other bytes.
Data     == {"none", "part", "bad", "whole"}

ASSUME PreparationAssumption ==
    /\ MaxRelease \in Nat \ {0} /\ MaxFaults \in Nat
    /\ AppOrder \in Seq(Apps) /\ AppOrder # << >>
    /\ None \notin Releases \cup Runs \cup Readers
    /\ Runs \cap Readers = {}

VARIABLES
    latest,     \* the release each vendor's signed index names
    retired,    \* releases a vendor no longer serves
    source,     \* CACHE/<app>-source.json: the release selected
    partial,    \* CACHE/<sha256>.part of every release
    package,    \* CACHE/<sha256>.deb of every release
    version,    \* versions/<sha256> of every release
    current,    \* what the link "current" names
    report,     \* preparation.json
    lock,       \* who holds preparation.lock
    run,        \* the invocations that prepare
    reader,     \* the invocations with --status
    faults      \* how many faults happened

vendors == <<latest, retired>>
files   == <<source, partial, package, version, current>>
vars    == <<vendors, files, report, lock, run, reader, faults>>

States  == {"pending", "running", "failed", "completed"}
Receipts == [Apps -> MaybeRelease]
\* "n" is the application in preparation, "apps" the receipts in memory,
\* "installed" and "selected" the releases of prepare_deb, "again" whether the
\* source was resolved again because the vendor had retired it.
NotRunning == [pc |-> "idle", update |-> FALSE, n |-> 1, apps |-> [a \in Apps |-> None],
               installed |-> None, selected |-> None, again |-> FALSE]
Labels == {"idle", "lock", "check", "resolve", "resolving", "download",
           "downloading", "verify", "install", "rename", "link", "ready",
           "complete"}

Init ==
    /\ latest = [a \in Apps |-> 1] /\ retired = [a \in Apps |-> {}]
    /\ source = [a \in Apps |-> None] /\ current = [a \in Apps |-> None]
    /\ partial = [a \in Apps |-> [v \in Releases |-> "none"]]
    /\ package = partial /\ version = partial
    /\ report = [state |-> "pending", apps |-> [a \in Apps |-> None]]
    /\ lock = None /\ faults = 0
    /\ run = [r \in Runs |-> NotRunning]
    /\ reader = [d \in Readers |-> "idle"]

TypeOK ==
    /\ latest \in [Apps -> Releases] /\ retired \in [Apps -> SUBSET Releases]
    /\ source \in Receipts /\ current \in Receipts
    /\ partial \in [Apps -> [Releases -> Data]]
    /\ {package, version} \subseteq [Apps -> [Releases -> {"none", "whole"}]]
    /\ report \in [state : States, apps : Receipts]
    /\ lock \in Runs \cup Readers \cup {None}
    /\ run \in [Runs -> [pc : Labels, update : BOOLEAN, n : DOMAIN AppOrder,
                         apps : Receipts, installed : MaybeRelease,
                         selected : MaybeRelease, again : BOOLEAN]]
    /\ reader \in [Readers -> States \cup {"idle", "test", "interrupted"}]
    /\ faults \in 0 .. MaxFaults

(***************************************************************************)
(* One run.  save writes the report before the step it announces.          *)
(***************************************************************************)
app(r)  == AppOrder[run[r].n]
At(r, pc) == run[r].pc = pc
Go(r, o)  == run' = [run EXCEPT ![r] = o]
To(r, pc) == Go(r, [run[r] EXCEPT !.pc = pc])
save(r)   == report' = [state |-> "running", apps |-> run[r].apps]
Unchanged == UNCHANGED <<vendors, reader, faults>>

\* An exception: the report says so, and the lock goes with the process.
Failing(r) == /\ report' = [state |-> "failed", apps |-> run[r].apps]
              /\ Go(r, NotRunning) /\ lock' = None
Faulty == faults < MaxFaults /\ faults' = faults + 1

begin(r) ==
    /\ At(r, "idle")
    /\ \E update \in BOOLEAN :
          Go(r, [NotRunning EXCEPT !.pc = "lock", !.update = update])
    /\ UNCHANGED <<vendors, files, report, lock, reader, faults>>

Locked(r) == Go(r, [run[r] EXCEPT !.pc = "check", !.apps = report.apps])
acquire_unguarded(r) ==
    /\ At(r, "lock") /\ lock' = r /\ Locked(r)
    /\ Unchanged /\ UNCHANGED <<files, report>>
acquire(r) ==
    /\ At(r, "lock") /\ lock = None /\ lock' = r /\ Locked(r)
    /\ Unchanged /\ UNCHANGED <<files, report>>

\* What is to be done once the source of the package is known.
afterCheck_always(r, installed) ==
    IF run[r].update THEN "resolve"
    ELSE IF source[app(r)] # None THEN "download" ELSE "resolve"
afterCheck(r, installed) ==
    IF run[r].update THEN "resolve"
    ELSE IF installed # None THEN "ready"
    ELSE IF source[app(r)] # None THEN "download" ELSE "resolve"

\* installed_deb reads what "current" names; the release cached as the source
\* is the one selected, unless this run resolves it.
check(r) ==
    /\ At(r, "check")
    /\ Go(r, [run[r] EXCEPT !.installed = current[app(r)],
                !.selected = source[app(r)], !.again = FALSE,
                !.pc = afterCheck(r, current[app(r)])])
    /\ Unchanged /\ UNCHANGED <<files, report, lock>>

resolve(r) ==
    /\ At(r, "resolve") /\ save(r) /\ To(r, "resolving")
    /\ Unchanged /\ UNCHANGED <<files, lock>>
\* resolve_deb: the signed index is read, and the selection cached.
resolving(r) ==
    /\ At(r, "resolving")
    /\ LET a == app(r) IN
       /\ source' = [source EXCEPT ![a] = latest[a]]
       /\ Go(r, [run[r] EXCEPT !.selected = latest[a],
                    !.pc = IF run[r].installed = latest[a] THEN "ready"
                           ELSE "download"])
    /\ Unchanged
    /\ UNCHANGED <<partial, package, version, current, report, lock>>

\* A whole package in the cache is used as it is.
download(r) ==
    /\ At(r, "download")
    /\ IF package[app(r)][run[r].selected] = "whole"
       THEN To(r, "install") /\ UNCHANGED report
       ELSE To(r, "downloading") /\ save(r)
    /\ Unchanged /\ UNCHANGED <<files, lock>>

gone_isFinal(r) == Failing(r)
\* A release the vendor has retired is replaced once by its newest.
gone(r) ==
    \/ ~run[r].again /\ Go(r, [run[r] EXCEPT !.pc = "resolve", !.again = TRUE])
       /\ UNCHANGED <<report, lock>>
    \/ run[r].again /\ Failing(r)

\* The vendor answers, and the rest of the package is appended to the part
\* there is; or the release is not served any more.
downloading(r) ==
    /\ At(r, "downloading")
    /\ LET a == app(r)  v == run[r].selected IN
       \/ /\ partial[a][v] \in {"bad", "whole"} \/ v \notin retired[a]
          /\ partial' = [partial EXCEPT ![a][v] =
                            IF @ = "bad" THEN "bad" ELSE "whole"]
          /\ To(r, "verify") /\ UNCHANGED <<report, lock>>
       \/ /\ partial[a][v] \in {"none", "part"} /\ v \in retired[a]
          /\ gone(r) /\ UNCHANGED partial
    /\ Unchanged /\ UNCHANGED <<source, package, version, current>>

\* The connection ends early: the part received stays for the next run, or is
\* removed because its size or checksum is wrong.
downloadFails(r) ==
    /\ At(r, "downloading") /\ Faulty
    /\ partial[app(r)][run[r].selected] \in {"none", "part"}
    /\ \E left \in {"part", "none"} :
          partial' = [partial EXCEPT ![app(r)][run[r].selected] = left]
    /\ Failing(r)
    /\ UNCHANGED <<vendors, source, package, version, current, reader>>
\* What was received is not the package the index names.
damaged(r) ==
    /\ At(r, "verify") /\ partial[app(r)][run[r].selected] = "whole" /\ Faulty
    /\ partial' = [partial EXCEPT ![app(r)][run[r].selected] = "bad"]
    /\ UNCHANGED <<vendors, source, package, version, current, report, lock,
                   run, reader>>

verify_omitted(r) ==
    /\ At(r, "verify")
    /\ LET a == app(r)  v == run[r].selected IN
       /\ package' = [package EXCEPT ![a][v] = partial[a][v]]
       /\ partial' = [partial EXCEPT ![a][v] = "none"]
    /\ To(r, "install")
    /\ Unchanged /\ UNCHANGED <<source, version, current, report, lock>>
verify(r) ==
    /\ At(r, "verify")
    /\ LET a == app(r)  v == run[r].selected IN
       /\ partial' = [partial EXCEPT ![a][v] = "none"]
       /\ IF partial[a][v] = "whole"
          THEN /\ package' = [package EXCEPT ![a][v] = "whole"]
               /\ To(r, "install") /\ UNCHANGED <<report, lock>>
          ELSE Failing(r) /\ UNCHANGED package
    /\ Unchanged /\ UNCHANGED <<source, version, current>>

\* The package is unpacked in a staging directory, and its version is asked
\* for; nothing but the report is seen by another run.
install(r) ==
    /\ At(r, "install") /\ save(r) /\ To(r, "rename")
    /\ Unchanged /\ UNCHANGED <<files, lock>>
installFails(r) ==
    /\ At(r, "rename") /\ Faulty /\ Failing(r)
    /\ UNCHANGED <<vendors, files, reader>>

Staged(r) == [version EXCEPT ![app(r)][run[r].selected] =
                 IF @ = "none" THEN package[app(r)][run[r].selected] ELSE @]
promoteRename_afterLink(r) ==
    /\ At(r, "rename")
    /\ IF current[app(r)] = run[r].selected
       THEN version' = Staged(r) /\ UNCHANGED current
            /\ Go(r, [run[r] EXCEPT !.pc = "ready",
                         !.installed = run[r].selected])
       ELSE current' = [current EXCEPT ![app(r)] = run[r].selected]
            /\ UNCHANGED <<version, run>>
    /\ Unchanged /\ UNCHANGED <<source, partial, package, report, lock>>
\* promote: the staging directory takes its final name, unless a run that was
\* interrupted here left the same version there.
promoteRename(r) ==
    /\ At(r, "rename") /\ version' = Staged(r) /\ To(r, "link")
    /\ Unchanged
    /\ UNCHANGED <<source, partial, package, current, report, lock>>
\* promote: the link is replaced.
promoteLink(r) ==
    /\ At(r, "link")
    /\ current' = [current EXCEPT ![app(r)] = run[r].selected]
    /\ Go(r, [run[r] EXCEPT !.pc = "ready", !.installed = run[r].selected])
    /\ Unchanged
    /\ UNCHANGED <<source, partial, package, version, report, lock>>

ready_keepsReceipt(r) ==
    /\ At(r, "ready")
    /\ LET old  == run[r].apps[app(r)]
           apps == [run[r].apps EXCEPT ![app(r)] =
                       IF old = None THEN run[r].installed ELSE old]
           last == run[r].n = Len(AppOrder) IN
       /\ report' = [state |-> "running", apps |-> apps]
       /\ Go(r, [run[r] EXCEPT !.apps = apps,
                    !.n = IF last THEN @ ELSE @ + 1,
                    !.pc = IF last THEN "complete" ELSE "check"])
    /\ Unchanged /\ UNCHANGED <<files, lock>>
\* The receipt is saved, and the next application follows.
ready(r) ==
    /\ At(r, "ready")
    /\ LET apps == [run[r].apps EXCEPT ![app(r)] = run[r].installed]
           last == run[r].n = Len(AppOrder) IN
       /\ report' = [state |-> "running", apps |-> apps]
       /\ Go(r, [run[r] EXCEPT !.apps = apps,
                    !.n = IF last THEN @ ELSE @ + 1,
                    !.pc = IF last THEN "complete" ELSE "check"])
    /\ Unchanged /\ UNCHANGED <<files, lock>>
complete(r) ==
    /\ At(r, "complete")
    /\ report' = [state |-> "completed", apps |-> run[r].apps]
    /\ Go(r, NotRunning) /\ lock' = None
    /\ Unchanged /\ UNCHANGED files

\* The network fails while the index is read.
resolveFails(r) ==
    /\ At(r, "resolving") /\ Faulty /\ Failing(r)
    /\ UNCHANGED <<vendors, files, reader>>
\* The process ends without a word; the system releases its lock.
kill(r) ==
    /\ ~At(r, "idle") /\ Faulty /\ Go(r, NotRunning)
    /\ lock' = IF lock = r THEN None ELSE lock
    /\ UNCHANGED <<vendors, files, report, reader>>

steps(r) == \/ acquire(r) \/ check(r) \/ resolve(r) \/ resolving(r)
            \/ download(r) \/ downloading(r) \/ verify(r) \/ install(r)
            \/ promoteRename(r) \/ promoteLink(r) \/ ready(r) \/ complete(r)
disturbances(r) == \/ downloadFails(r) \/ damaged(r) \/ installFails(r)
                   \/ resolveFails(r) \/ kill(r)

(***************************************************************************)
(* --status: the report is read first, then the lock is tried, and held    *)
(* until the answer is printed.                                            *)
(***************************************************************************)
Reads(d, o) == reader' = [reader EXCEPT ![d] = o]

statusRead(d) ==
    /\ reader[d] = "idle"
    /\ Reads(d, IF report.state = "running" THEN "test" ELSE report.state)
    /\ UNCHANGED <<vendors, files, report, lock, run, faults>>
statusTest(d) ==
    /\ reader[d] = "test"
    /\ IF lock = None THEN Reads(d, "interrupted") /\ lock' = d
       ELSE Reads(d, "running") /\ UNCHANGED lock
    /\ UNCHANGED <<vendors, files, report, run, faults>>
statusEnd(d) ==
    /\ reader[d] \notin {"idle", "test"} /\ Reads(d, "idle")
    /\ lock' = IF lock = d THEN None ELSE lock
    /\ UNCHANGED <<vendors, files, report, run, faults>>

(***************************************************************************)
(* The vendors.                                                            *)
(***************************************************************************)
publish(a) ==
    /\ latest[a] < MaxRelease
    /\ latest' = [latest EXCEPT ![a] = @ + 1]
    /\ UNCHANGED <<retired, files, report, lock, run, reader, faults>>
retire(a) ==
    /\ \E v \in 1 .. latest[a] - 1 :
          v \notin retired[a] /\ retired' = [retired EXCEPT ![a] = @ \cup {v}]
    /\ UNCHANGED <<latest, files, report, lock, run, reader, faults>>

Next == \/ \E r \in Runs : begin(r) \/ steps(r) \/ disturbances(r)
        \/ \E d \in Readers : statusRead(d) \/ statusTest(d) \/ statusEnd(d)
        \/ \E a \in Apps : publish(a) \/ retire(a)

\* A run that has begun goes on, a waiting run gets the lock some time, a
\* status ends, and somebody prepares again.
Fairness == /\ \A r \in Runs : WF_vars(begin(r)) /\ SF_vars(steps(r))
            /\ \A d \in Readers : WF_vars(statusEnd(d))
Spec     == Init /\ [][Next]_vars
FairSpec == Spec /\ Fairness

-----------------------------------------------------------------------------
\* "current" names a whole version, unpacked from the package the vendor's
\* index names, however many runs were killed or failed on the way
\* (workstation-apps 189-210, README.md 82).
CurrentIsWhole ==
    \A a \in Apps : current[a] # None => version[a][current[a]] = "whole"

\* A completed report names, for every application, the release installed,
\* also after runs that waited for one another (workstation-apps 524-543).
CompletedIsInstalled ==
    report.state = "completed" =>
        \A a \in Apps : current[a] # None /\ report.apps[a] = current[a]

\* An application that works is replaced by an explicit update alone
\* (workstation-apps 259-266, docs/application-updates.md 28).
OnlyUpdatesReplace ==
    [][\A a \in Apps :
          current[a] # None /\ current'[a] # current[a] =>
              \E r \in Runs : run[r].update /\ app(r) = a /\ lock = r]_vars

\* No step puts an older release in the place of a newer one, or takes an
\* application away: the index is read long before the link is replaced, while
\* other updates wait and vendors publish (workstation-apps 149-150, 259-285
\* and 565-578).  Vendors leave their newest release in the index.
NeverOlder ==
    [][\A a \in Apps : current[a] # None =>
          current'[a] # None /\ current[a] <= current'[a]]_vars

\* However runs end and releases are retired, preparing again succeeds in the
\* end (workstation-apps 273-283).
SucceedsInTheEnd == []<>(report.state = "completed")

\* --status does not say that a completed preparation was interrupted
\* (README.md 82).
CompletedIsNotInterrupted ==
    \A d \in Readers : reader[d] = "interrupted" => report.state # "completed"
=============================================================================
