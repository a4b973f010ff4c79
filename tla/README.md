# A TLA+ model of the workstation command line

The repository builds a Linux desktop in a Docker container and a Go command,
`workstation`, that installs, starts, backs up, restores and updates it. Scripts
in the image prepare the vendors' applications, apply network settings and keep
the inventory of extra packages. Nearly every operation is a chain of Docker
calls and file writes that can be killed or fail between any two of them, and
what must survive is the user's personal volume. That is what these modules are
about: the TLA+ follows the code call by call, TLC checks small instances, and
TLAPS proves the main safety properties for every value of the constants.

## 1. Inventory

| Part | Source | State it keeps | Operations | Here |
| --- | --- | --- | --- | --- |
| Lifecycle | `cmd/workstation/main.go`, `storage.go`, `network.go` | `profile.json` (selected image, volume name), `network.json`; the container and volumes of the engine | `start`, `stop`, `network`, `status` | partly: `Workstation`, `Start` |
| Backup and restore | `cmd/workstation/backup.go` | container, volumes, profile, network file | `backup`, `restore`, its deferred undo | `Backup` |
| Backup directory | `cmd/workstation/backup.go` | directories with manifest, archive, checksums | naming, publication, verification, retention, `backup --list` | `BackupStore`, `Retention` |
| Updates | `image_updates.go`, `updates.go` | container, profile, image tag | `update-image`, `update-apps`, resumption | `Update` |
| Update report | `update_report.go` | report file, lock file beside it | begin, persist, end, `--status` | `UpdateJournal` |
| Application preparation | `images/base/.../workstation-apps`, `apps.go` | cache, versions, `current` links, `preparation.json`, lock | `prepare`, update, `--status` | partly: `Preparation` |
| Install, operation lock and dispatch | `main.go`, `platform_windows.go` | `profile.json`, the copy of the program, `.operation.lock` | `install`; the order of reading the profile, locking, and reading it again | partly: `Controller` |
| Network in the container | `workstation-network` | trust anchors, bundle, certificate databases, environment, receipt | `apply` | `NetworkTrust` |
| Package inventory | `workstation-packages`, `packages.go` | the record of extras and sources, the restoration's intent, a lock | capture by hooks and at the start, restore, register a source | partly: `PackageInventory` |
| Localhost certificate | `main.go`, `20-workstation-session.sh` | key and certificate in the volume; `localhost.crt`, the archive and the trusted roots at the host | renew, `certificate`, trust, untrust | `Controller` |
| Candidate images | `scripts/candidate.py`, `acceptance.py` | tags, a run directory | build, test, promote | not modelled |
| Windows integration, sandbox, checks | `platform_windows.go`, `sandbox.go`, `workstation-docker-check` | none of its own | shortcuts, seccomp profile, probes | not modelled |

How they interact:

- Every state-changing command of an installation takes `.operation.lock` and
  reads the profile again under it. A killed process loses the lock, so the next
  command meets whatever the killed one left: that is the only recovery there is.
- `restore` and `update-image` call the lifecycle: the network is copied into the
  volume before a container starts, and the image comes from the container, the
  profile or the tag, in that order. `update-image` and `update-apps` call
  `backup`, and go on only after it succeeded.
- Several installations share one backup directory, each under its own lock;
  `backup --list` reads it under none.
- Update commands write a report that `--status` reads from another process. The
  lock beside it tells a running attempt from a dead one.
- Every start of the container renews the certificate if it has to, applies the
  network and captures the package inventory, each in the personal volume that a
  restore may have replaced by an older one. The host takes the certificate from
  the container and keeps it in an archive, from which `untrust` works.
- pacman calls the inventory's hook after a transaction, under its own lock; the
  hook waits for the inventory's.
- Inside the container the first desktop, `prepare` and `update-apps` all run
  `workstation-apps`, which has a lock of its own.

What is hard: a kill or an error between two calls; a call that took effect and is
reported as failed; what was observed early (container running, tag resolved,
report read) and used late; the order of removing a container or a volume and
writing the file that names its successor; undo on one of many returns; names
taken from the clock; lists read while directories disappear; locks with deadlines
and readers; records of what was put somewhere, which must be right before it is
put there; files written in place; a second look under a lock after a first one
without it. `PROJECT.json` lists these hazards one by one, at the line where each
bites, with the properties that would notice.

## 2. Modules

| Module | What it is |
| --- | --- |
| `Workstation` | The shared state of one installation, what a Docker call and a file write may do, taking and losing the operation lock, and what happens around a command |
| `Start` | `start`, `stop`, `network` |
| `Backup` | `stopForSnapshot`, `backup`, `restoreBackup` and its deferred undo |
| `Update` | `update-image`, `update-apps`, resumption after failure |
| `Installation` | composes the three: `Init`, `Next`, fairness, properties; implements `Workplace` |
| `Workplace` | abstract: what an installation promises its user |
| `InstallationInvariant`, `InstallationProofs` | the inductive invariant of `Installation` and its proofs |
| `Retention` | abstract: what a backup directory promises |
| `BackupStore` | the directory, its writers and its lockless readers; implements `Retention` |
| `UpdateJournal` | the update report, its lock, attempts and status calls |
| `Preparation` | `workstation-apps` for the vendors' Debian packages |
| `NetworkTrust` | `workstation-network apply`, over the volumes and containers it meets |
| `PackageInventory` | pacman's transactions and hooks, restoration and registration, around two locks |
| `Controller` | several processes over one installation directory: `install`, the operation lock, the certificate commands, and the renewal in the container |
| `CommandProofs` | what each command knows on top of it, and the proofs about copies, restores, starts and updates |
| `BackupStoreProofs`, `UpdateJournalProofs`, `PreparationProofs`, `NetworkProofs`, `PackageProofs`, `ControllerProofs` | their invariants and proofs |
| `MC...` | model values and instances for TLC |

### State and code

`profile`, `network` are the host's files and `backups` the installation's own
completed copies. `container`, `home`, `local`, `tag` belong to the Docker engine,
`registry` to the vendor; `applied` is the network file inside each volume.
`home[v]` is not bytes but the *version* of the personal files: every save by the
user makes a new number, so a lost, stale, half extracted (`Partial`) or mixed
(`Torn`) volume is a different value. A stale container, image or copy is told
apart by identity in the same way.

`op` is the command in progress: `op.pc` the next call, the other fields the
local variables the code carries across calls (`p` the profile read, `c` the
container observed first, `seen` the one observed by the current routine, `sel`
the image, `src` the copy, `vol` the new volume). Each label in `Labels` is a
Docker call, a file write or a group of calls that only observe. Each step
follows one of three shapes:

- `Docker(possible, effect, next, onError)`: done, refused, failed before the
  engine acted, or failed *after* it acted (the client was cut off).
- `WriteFile(effect, next, onError)`: `atomicFile` renames a synced temporary
  file, so it is done or not done.
- `Observe(next, onError)`: only reads.

`Killed` may happen at every step and runs no deferred calls. `Around` is what
happens meanwhile: the user saves files, the desktop ends, the tag moves in the
registry, an image, the container or an unmounted volume is removed, and a
container of one of the user's projects mounts and writes the personal volume.

In `BackupStore` a copy is its name (the clock value), its owner, its age and
whether it verifies. Listing inside a backup is one step, because only the owner
changes its copies while its lock is held; `backup --list` is one step per copy.
`prune` can leave a copy half removed.

In `UpdateJournal` the lock is a file lock: shared by readers, exclusive for the
attempt, released by the death of the process. Time is one bit, `late`: the
five seconds have passed.

In `Preparation` every file of the cache and of the versions directory has the
state a later run can find: absent, a part, right size and wrong bytes, whole.
The vendor publishes releases and retires old ones. `promote` is its two steps,
the rename of the version and the link.

In `NetworkTrust` `run` is the process of `apply`: its label, the receipt it read
(`old`), the database it chose (`db`) and what the current loop has left (`todo`,
`vars`). A certificate is put in, or taken out of, the anchors and then the database;
between the two it is in `half`. Anchors, bundle and environment are the
container's and are empty in a new one; the configuration, the databases and the
receipt are the volume's, and `copy` is the volume as a backup has it. `twice`
are the certificates that a list names more than once, and `again` those that
`certutil -D` is going to be asked to delete a second time.

In `PackageInventory` `installed` is pacman's database, which a new container
empties; `extras`, `sources` and `pending` are the record in the volume. A
capture is a query under the record's lock (`seen`) and a write. `db` is the
transaction whose hook has not ended: pacman keeps its own lock until then.
`restore` and `register` are the two tasks, with what each read before. Three
variables are history and guard nothing: how the user wants each extra
(`intent`), the extras whose last change no capture could see (`excused`), and
whether one worked since the start (`fresh`).

In `Controller` `proc[u]` is the process of a user: its command, its next call,
the profile it read, the certificate it fetched, and what `untrust` has left.
A certificate is its number, in the order of expiry; `near` and `expired` are the
clock. Archive files are absent, torn or whole. `box` follows the container
through its renewal: the pair is checked, the key moved, the certificate placed, the
marker set. `backup` and `restore` appear by what they do to profile, volume and
archive. `lost` and `overlap` are history: a power failure emptied the key's
file, two installs ran at once. `Controller` states what `Installation` presumes:
a command works alone, and on the profile that is saved (`WorksOnProfile`).

`X_...` beside a definition `X` (`restoreCommit_oldVolume` beside
`restoreCommit`) is the definition with a fault a programmer might make. No
action uses one. `PROJECT.json` says which property each fault violates when
it takes the place of the definition: that is the evidence that the property
depends on that piece of the code.

## 3. Runs

All runs end by exhausting the reachable states.

| Run (`.cfg`) | Instance | What it shows |
| --- | --- | --- |
| `commands` (`InstallationCommands`) | 6 commands, 2 images, 2 volume names, a new or an older installation, 1 save, 1 failing call per command, desktop exits, the tag moves, images are removed | Whatever is cut short: runtime and files are the selected ones, the files are never lost, the image stays known, `start` recovers, a container is replaced only after a copy of it; `Installation` implements `Workplace` |
| `restore` (`InstallationRestore`) | `start`, `backup`, `restore`; own copies and those of other installations, a network, a second image variant; container or volume removed by hand | A failed restore changes nothing; `Installation` implements `Workplace`, also when volumes are lost and copies of another variant are in reach |
| `writers` (`InstallationWriters`) | `backup`, both updates and `network`, a project's container that writes the volume, 2 saves | Copies are never torn; a failed update gives the session back; every command ends |
| `older_profile` (`InstallationOlder`) | `restore` only, from an older profile | **violation**, see section 6 |
| `store` (`BackupStore`) | 2 installations, 4 clock values, 1 reader, 1 damaged copy | The two newest copies stay; a listing misses none; `BackupStore` implements `Retention` |
| `store_clock` (`BackupStoreClock`) | the clock may be set back | **violation** |
| `journal` (`UpdateJournal`) | 3 attempts, 2 readers, 1 rewrite of the report | "interrupted" is never said of an attempt that runs; an attempt is not kept waiting |
| `preparation` (`Preparation`) | 2 invocations, 2 applications, 2 releases, 1 fault, 1 status call | `current` is whole, a completed report is true, only updates replace, and never by an older release; preparing succeeds in the end |
| `preparation_status` (`PreparationStatus`) | 1 application, 2 status calls | **violation** |
| `network` (`NetworkTrust`) | 2 certificates, a configuration that lists one twice, 1 proxy variable, 2 changes, 1 failing call | The receipt always covers what is in place; a successful application is exact; a retry succeeds |
| `packages` (`PackageInventory`) | a foreign extra that needs an official one, 2 transactions of the user, a restoration, a registration | The user's intent is kept, the record misses no installed extra and loses none, whoever holds its lock waits for nobody, every transaction ends |
| `controller` (`Controller`) | 2 users, 3 certificates, 2 installs, 3 commands | One command at a time, on the saved profile; one identity and a whole program; `untrust` is complete; a served desktop has the key of its certificate |

### Bounds, and why they are enough

- *Two images, two or three volume names.* A command distinguishes at most the
  old and the new image and volume; the third image stands for the other
  variant, which `restore` must refuse. Unused volumes left by killed restores
  exhaust the names; `Begin` then no longer starts a restore.
- *`MaxFaults = 1` failing call per command.* The next command may fail again and
  any command may be killed as well, so chains of failures over several commands
  are reached. The undo of a restore that itself fails needs two failures, and is
  not reached in the runs: the proofs allow any number.
- *`MaxStored` copies.* The store keeps two; a third exists while one is pruned.
  Only `CopiesAreConsistent`, `HomeImageKnown` and `ReplacedOnlyAfterCopy` look
  at copies, at the newest or at each one alone.
- *`MaxWrites`.* One save tells a stale from a current volume; the torn copy of
  `writers` needs a second one.
- *`MaxTime = 4` names.* Two copies kept, one to be removed, and one of the other
  installation, or all four of one.
- *Three attempts* give an attempt killed before the one read about, and one
  after.
- *Two releases* are the one cached by an interrupted run, and the one that
  replaces it. Two applications show that the order of the list is kept up
  across a resumption.

- *Two changes of the network* and three configurations: one that lists an
  authority twice, one that names both authorities, none. So one set is replaced
  by another and then cleared, each cut short or failing once.
- *Two extras* are enough for a dependency and for the two ways to reinstall one;
  two transactions of the user install both or install and remove one.
- *Three certificates, three commands.* `untrust` has to forget one that is
  archived, one that is only in `localhost.crt` and one that a command was
  about to archive; two commands, each killed, leave what the third meets. The two
  users exclude one another or wait.
- `Bound` in `MCController`: when commands run, one install has begun, and no
  network was given to it. They read neither the network nor the program, and
  installs race among themselves in the rest of the states. The calendar
  advances only while nothing runs.

Symmetry is used for images, installations and users, in runs that check no liveness
property, and where no constant operator or initial state tells the permuted
values apart. `CHECK_DEADLOCK FALSE` is set where the bounds (writes, stored
copies, clock values, attempts, commands) leave an instance with nothing more to do; the
preparation, network and package runs check deadlock.

### Fairness

- `Installation`: `WF(Step \/ Return)`. Every Docker call of the code has a
  context with a time limit and the start polls up to a deadline, so a command
  that runs takes its next step. `Killed`, faults and the surroundings are not
  fair: `CommandsEnd` needs none of them.
- `UpdateJournal`: weak fairness of taking the lock or giving up, of the passing
  deadline, and of a status call's remaining steps (two reads and a print). Starting
  a status call is not fair, and no attempt is ever obliged to begin.
- `Preparation`: strong fairness of a run's steps, since a process that
  waits in `flock` gets the lock if it is released again and again; weak fairness
  of `begin`, which is the user or the desktop's autostart preparing again: the
  property says that preparing *again and again* succeeds. Faults and kills are
  bounded by `MaxFaults`, as no program completes under endless ones.

- `NetworkTrust`: weak fairness of `apply`, a process of the container that
  waits for nobody. Starting, stopping and saving are the user's.
- `PackageInventory`: strong fairness of the hook, which waits in `flock` while
  captures come and go, and weak fairness of the end of a capture, two queries and a
  write. Nobody is obliged to restore, register or install.
- `Controller` states none and claims no progress.

## 4. What is proved

`InstallationProofs` proves, for any sets of images, volumes, networks, copies of
others, commands, origins and events and for any bounds:

- `Invariant`: `Spec => []IInv`
- `TypeCorrect`: `Spec => []TypeOK`
- `SelectedRuntime`: `Spec => []RuntimeIsSelected`
- `FilesPreserved`: `Spec => []HomePreserved`
- `CommandsAreBounded`: a rank of the labels (`Left`) falls at every step of a
  command and is left alone by all that happens around it, so a command takes at most
  24 steps, whatever fails. Fairness is all that `CommandsEnd` needs besides, and the
  proof system has no rule for that part.

The only assumption is `ConstantsAssumption` of `Workstation`: bounds are
numbers, the first volume is a volume, commands are commands of the program,
every image has a variant, copies of others are copies and not the
installation's own, and the four special values are none of the others.

`RuntimeIsSelected` and `HomePreserved` are not inductive. A restore removes the
old volume at `restore.cleanup`, and whether that loses the files depends on what
it read into `op.vol` and `op.p` many calls before; the container is created from
an image that was read before it was saved. The invariant `IInv` is `WorldOK`
(the types and those two properties) and `Fits`, which says per label what the
command relies on:

- `OnSavedProfile`: until it is over, the command works on the profile that is
  saved.
- `ContainerGone`: at the labels that create a container or save another
  profile there is none, and one that was not seen has not come into being.
- `Adopting`: the image an older profile adopts is that of its container.
- `Gathered`: what a later step uses has been read, and has its type.
- `Filling`: the volume a restore fills is not the profile's, it holds
  the copy's data before the profile names it, and the volume removed
  afterwards is not the profile's any more.

`Fits` takes the command, the profile, the container and the volumes as
parameters, because most steps leave one of two commands behind (`next` or
`onError`, the latter with a fault counted) and the lemmas speak of the command
that is about to be left: `FaultyFits`, `DoneFits`, `FreeFits` and `AtFree` handle
what nearly all have in common, `MoveStep`, `StayStep` and `ObserveStep` the
shapes of a step, and `ContainerCalls`, `SaveProfile`, `SaveFiles`, `SetVolume`
what the engine's calls do to the world. One lemma per action follows, then the
surroundings and the initial states, and the temporal step. The invariant itself
is in `InstallationInvariant`, which has no proofs.

`CommandProofs` proves the other safety properties of `Installation`, in the same
generality:

- `CopiesAreWhole`: `Spec => []CopiesAreConsistent`, assuming that a project's
  container that writes the volume does not stop while a command runs
  (`"hasty" \notin Events`, the hazard at `backup.go` 420 is exactly that it may)
  and that the copies of others are whole.
- `FailedRestoreIsUndone`: `Spec => []FailedRestoreChangesNothing`.
- `StartBringsUp`: `Spec => []StartRecovers`.
- `HomeImageIsKnown`: `Spec => []HomeImageKnown`, assuming that no copies of other
  installations are in reach; the run `older_profile` refutes it with them.
- `UsableUpdate` and `FailedUpdateResumes`: `Spec => []UsableOnlyWhenSelected` and
  `Spec => []FailedImageUpdateResumes`.
- `RemovedAfterCopy`: `Spec => ReplacedOnlyAfterCopy`, an action property, assuming
  that no project's container writes the volume (`"writer" \notin Events`), as in the
  run that checks it.

None of them is inductive, since each depends on what a command read several calls
before. Five invariants say what its labels know, each proved on top of `IInv`:

- `Story`: the volume of the profile holds what was saved last; the network of
  a restore is what it was or is kept for the undo (`Returning`); what is being copied
  is a version, or a writer is there that the second look will find
  (`Reading`).
- `Named`: a label that creates the volume has a selection, and one that removes
  a container has a completed copy.
- `Recovering`: a start that met no failure finds what it saw, saved or created.
- `Upgrading`: until the selection is saved the original container is the one
  seen first, and untouched outside the copy; from then on the command works on
  the image it chose.
- `Secured`: the newest copy has the files and the image of what is removed next.

`InstallationIsWorkplace` (`Spec => ImplementsWorkplace`) is the refinement. The
user of `Workplace` has files, the image known to belong to them, a desktop that
runs or not, and copies; they are `home[profile.home]`, `Known` (the profile's
image or, where it names none, the container's), `Running` and `backups`. Most
calls (removing a container, creating and filling another volume) are then
stutters, and a command is the one call at which it takes effect: a restore
replaces files and image together when the profile is saved, an update the image
when the new one is selected, and a copy appears when its directory takes its
final name. Over an older profile the removal of the container is a `Forget`. On
top of `IInv`, `Story` and `Secured` the proof needs that a container has files
and that all copies have images of the known one's variant (`Belonging`), and, per
label (`Ready`), when a start may select (`Choosing`), that an update has copied
what it replaces and goes to an image of its variant (`Replacing`), and that a
restore brings files and image of a copy of that variant (`Bringing`).
`VariantIsKept` follows from `Workplace` alone: nothing gives the files to an
image of another variant than the one known before. Both assume
`"writer" \notin Events`, because a project's container writes the files of a
stopped desktop, which nothing in `Workplace` does, and
`"older" \notin Origins \/ "home" \notin Events`: when the volume of an older
profile is removed by hand its image is forgotten with it, and the next start may
choose another variant than the copies have.

One lemma per action shows that each is kept, as in `InstallationProofs`. `Moves`,
`MovesAside` and `RoutineEnds` say where a step goes on and with what, and `SameCommand`
that a command stays itself.

`BackupStoreProofs` proves `StoreTypeCorrect`, `ListingIsComplete`, and, assuming
that the clock is not set back (`~ClockSetBack`, without which the run
`store_clock` refutes it), `CompletedStays` and `NewestTwoAreKept`: `Spec =>
KeepsNewestTwo`, that the directory implements `Retention`. The other assumption is
`StoreAssumption` (bounds are numbers). `Retention` orders copies by when they were
completed and the code prunes by name, so the invariant `StoreInv` has names in
the order of completion (`InOrder`, `Forward`, `Latest`), a name that is taken and
not yet published is nobody else's (`Naming`), and what is left to prune has two
newer copies that stay, however long the removal takes (`Pruning`). A listing's
copies that are complete throughout are found or still to be looked at
(`Listing`). `Completes` and `Drops` show that publication and removal are the steps
of `Retention`, and `Implements` that every other one stutters.

`UpdateJournalProofs` proves `InterruptedIsOver` (`Spec => []InterruptedHasEnded`)
and the type invariant, from `JournalAssumption` (two bounds are numbers). The
invariant adds that the attempt holds its lock from its first report on, that the
report on disk is of an earlier attempt until then (`ReportIsOlder`), and that
a call that found the lock free still shares it when it answers
(`ReaderShares`). So while such a call answers, an attempt that runs can only be
waiting or giving up, and the report read was not its own.

`PreparationProofs` proves `CurrentNeverBroken`, `CompletedIsTrue`,
`UpdatesAloneReplace` and `UpdatesGoForward` (action properties) and the type
invariant, from `PreparationAssumption`. All but the first need the lock: an invocation past
it is its holder (`Holds`), so what it read of the receipts and links is still
true (`Observed`, `Prepared`), and it never replaces a link under a
report that says completed (`Announced`). `HolderStep` is where this is used: in a
step of the holder every other invocation is at rest or waiting, and relies on
nothing. `CurrentIsWhole` needs the order of the two steps of `promote` and that
versions and packages only ever become whole. `UpdatesGoForward` (`Spec =>
NeverOlder`) is proved from a second invariant, `Forward`: what is installed and
what is cached as the source were the vendor's newest once (`Upstream`), and the
release an invocation puts in place is not older than the one it found
(`Advances`). The index may be out of date when the link is replaced, but no
other invocation can have replaced the link meanwhile. It also needs that a
vendor's index never goes back, which is how `publish` has it: the code compares
no versions, so an update follows a vendor that withdraws its newest release.

`NetworkProofs` proves `NetworkTypeCorrect`, `ReceiptAlwaysCovers`,
`SuccessIsExact` and `ApplyEnds`, from `NetworkAssumption` (numbers, `None` is no value, choices are
configurations). `ReceiptCovers` is almost inductive: it needs the copy
and the volume to be sound at rest (`VolumesOK`: the legacy database is empty before
it exists, so that choosing the other one later exposes nothing). That success is
exact needs what each loop has done so far (`Progress`): while certificates are
removed, what is in place is what is left to do (`Cleaning`); while they are
added, it is part of the configuration and the rest is left to do (`Filling`);
then both are equal (`Placed`), and the environment follows (`Setting`).
`ApplyEnds` is what can be proved of `RetrySucceeds`: for finite sets of
certificates and variables each step lowers `Ahead`, a measure of what the label and
the loops have left, and without a failed call only a receipt that names a
certificate twice makes an application end badly (`Refused`).

`PackageProofs` proves `PackagesTypeCorrect`, `IntentIsKept`,
`InventoryIsComplete`, `RecordsAreKept` (an action property) and
`NoCircleOfWaiting` (`Spec => []HolderIsFree`, the safety part of
`TransactionsEnd`), from `InventoryAssumption` (a dependency relation, numbers,
`None` is nobody). The invariant has, per extra, what its record, pacman's reason and the restoration's intent
know of one another (`Consistent`). It needs that only the user's transactions
remove (`Transactions`), and that whoever holds the lock has seen all that is
installed except what a waiting hook is about (`Capturing`). That the holder is
free needs that the transaction of a registration is over before the registration
goes on (`Evaluating`).

`ControllerProofs` proves `ControllerTypeCorrect`, `CommandsWorkOnTheProfile`,
`ProgramIsWhole`, `UntrustLeavesNothing`, `PairAlwaysMatches` and `IdentityIsKept`
(an action property), for any number of users, from `ControllerAssumption` (bounds
are numbers, no user is `None`, a profile is neither absent nor empty). The
invariant has what a process relies on at its label (`Role`, `Work`,
`Certified`, `Ready`), that one process at most writes the profile (`Writers`) and
has copied the program before (`Fresh`), that every trusted certificate is archived
or is `localhost.crt` (`Known`), and that a pair that does not match is renewed
by the next start (`Paired`). `HolderKeeps` and `InstallerKeeps` show once what a
step of one process leaves to the others.

Model-checked only: liveness (`CommandsEnd`, `AttemptsBegin`, `SucceedsInTheEnd`,
`RetrySucceeds`, `TransactionsEnd`), which is beyond the proof system.

## 5. What is left out, and why

- *Bytes*: archives, checksums and manifests are values that verify or do not.
- *Read-only commands.* They take no lock and write nothing; those whose answer
  can be wrong, of the update report, of preparation and of the backup directory,
  are modelled. `status`, the display of the network and `workstation-network
  check` are not, nor are the checks of `install`'s options.
- *Probes*: the image variant, the exchange folder (`verifyExchange`), Docker's
  sharing (`checkDockerSharing`) only read. In `Installation` those of a command
  are `Observe` steps that may fail.
- *Packages*: versions, the components of the image with their replacements, recipes
  that build several packages, and two restorations at once.
- *`workstation-apps`*: the Salesforce CLI, its plugins and the extensions of the
  editors, applications that no longer run on a new image, and the 25 minutes the
  host waits for a preparation.
- *A writer that starts after the first and stops before the second look* at the
  containers that mount the volume. The code cannot see it, and the
  documentation asks the user to stop such services. `WriterStops` therefore
  does not happen inside a command, unless `"hasty"` is in `Events`.
- *A disk that damages a copy between its verification and the end of that
  backup*, see `damage`.
- *Leftovers*: staging directories of killed commands and unused volumes, which
  nothing removes and nothing reads. A volume left by a killed restore is
  only a used name.
- *A reader that finds the new attempt's lock* before its first report returns the
  report of the one before. It does so for a moment, and says nothing false of the
  attempt that it names.
- *Windows shortcuts, the browser, the generation of the seccomp profile, the
  checks*: input and output without state of their own. The lock and the
  certificate store of Windows are those of `Controller`.
- *Candidate images*: a sequential pipeline run by hand, which keeps no state
  between its runs and beside which nothing runs.

## 6. Where the code and its documents disagree

1. *Restore over an older profile* (run `older_profile`). In a profile that names
   no image the container is the only record of it. Restoring another
   installation's copy removes the container and then saves the new profile. A
   kill between the two leaves a personal volume that `start` and `backup`
   refuse to use, and `docs/image-updates.md` asks to recover the container that
   the command itself removed.
2. *A clock set back* (run `store_clock`). Copies are named by the clock and
   retained by name. When two copies have later names, the copy just completed is
   the third, and the backup removes it and reports it as completed.
3. *`--status` of a preparation* (run `preparation_status`). The report is read
   before the lock is tried, so a preparation that completes in between is
   answered with "interrupted". The host's `updateStatus` takes the lock first,
   and `InterruptedHasEnded` holds there.

Seen while modelling, and shown by no run of their own. The models have them, and
their properties say what excludes them:

- A certificate that the configuration lists twice is recorded twice by a
  successful application. The next one asks the database's list once and deletes
  twice, so `certutil` fails and with it this application
  (`workstation-network:96`), though the desktop comes up. The intention it wrote
  names every certificate once, and the retry works (`removeAgain`, `RetrySucceeds`).
- When the legacy certificate database appears after certificates were put into the
  other one, those stay there, although `docs/network.md:59` says that the previous
  certificates are removed. `ReceiptCovers` and `AppliedIsExact` speak of the
  database in use.
- An archived certificate is written in place (`main.go:733`). A kill leaves a torn
  file, and `untrust` and `backup` fail until `certificate` archives the same one
  again, which it cannot when neither the container nor `localhost.crt` has it any
  more. `UntrustIsComplete` speaks of
  an `untrust` that succeeds.
- Two installs into one directory at once can leave a torn program: the slower
  truncates what the faster has written. `InstalledIsWhole` excludes it
  (`overlap`).
- A renewal begun because a power failure lost the key, and cut short between its
  two moves, is not repeated: the marker is there, no file is missing, and the pair
  does not match until the certificate expires. `PairMatches` excludes it (`lost`).
- Two restorations of packages at once share one intent, and the first to complete
  drops what the other needs, while `docs/packages.md:39` keeps it through any
  interruption. The model has one.
- A user's `pacman -D` runs no hook, and the next capture takes the new reason as any
  other.

## 7. Done, and what could come next

Done, in the order of importance: the lifecycle with backup, restore and updates
over one installation, with its safety properties proved and its abstract
specification implemented; the backup directory with its
abstract specification; the update report; preparation of packages; the
application of the network; the package inventory; and the controller's install,
lock and certificates, each with its invariant proved.

What could come next:

1. The Salesforce part of `Preparation`, incompatible images and the host's time
   limit.
2. Two restorations of packages at once.
3. Abstract specifications of the preparation and of the controller, as `Workplace` and
   `Retention` are of theirs.

## 8. Running it

    tlc -workers 2 -config InstallationCommands.cfg MCInstallation
    tlc -workers 2 -config NetworkTrust.cfg MCNetworkTrust
    tlapm InstallationProofs.tla
    tlapm CommandProofs.tla
    tlapm ControllerProofs.tla

Each run names its `.cfg` above; its module is the `MC...` one of the component.
The largest runs take about a minute and a half on two cores, each proof module from
seconds to a quarter of an hour (`CommandProofs`).
