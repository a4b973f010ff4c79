---------------------------- MODULE Installation ----------------------------
(***************************************************************************)
(* One installation of the workstation: the commands of Start, Backup and  *)
(* Update over the state of Workstation, one at a time.                    *)
(***************************************************************************)
EXTENDS Start, Backup, Update

\* After install: a profile and nothing in the engine.
Installed ==
    /\ profile = [image |-> None, home |-> FirstVol]
    /\ container = None
    /\ home = [v \in Vols |-> Absent]
    /\ truth = Absent

\* A profile of an older version: it names no image, its container exists.
Older ==
    /\ profile = [image |-> None, home |-> FirstVol]
    /\ \E i \in Images, running \in BOOLEAN :
          container = [image |-> i, home |-> FirstVol, running |-> running]
    /\ home = [v \in Vols |-> IF v = FirstVol THEN 0 ELSE Absent]
    /\ truth = 0

Init ==
    /\ ("installed" \in Origins /\ Installed) \/ ("older" \in Origins /\ Older)
    /\ network = None
    /\ backups = << >>
    /\ applied = [v \in Vols |-> None]
    /\ registry \in Images
    /\ tag \in {registry, None}
    /\ local = Images
    /\ writer = None
    /\ writes = 0
    /\ op = Idle

Step == start \/ stop \/ configureNetwork \/ stopForSnapshot \/ backup
        \/ restore \/ update
Next == \/ \E cmd \in Commands : Begin(cmd)
        \/ Step \/ Return \/ Killed
        \/ Around

Spec == Init /\ [][Next]_vars

\* A command that holds the lock keeps going: every call it waits for has a
\* time limit, so each step ends.
FairSpec == Spec /\ WF_vars(Step \/ Return)

WorldTypeOK ==
    /\ profile \in Profiles
    /\ network \in Nets \cup {None}
    /\ backups \in Seq(Copies)
    /\ container \in Containers \cup {None}
    /\ home \in [Vols -> Content \cup {Absent}]
    /\ applied \in [Vols -> Nets \cup {None}]
    /\ local \subseteq Images /\ tag \in Images \cup {None}
    /\ registry \in Images
    /\ writer \in Vols \cup {None}
    /\ writes \in Version
    /\ truth \in Content \cup {Absent}

TypeOK == WorldTypeOK /\ op \in Operations

-----------------------------------------------------------------------------
\* The container runs the image the profile selects on the volume the profile
\* names, however a command was cut short: main.go start creates it from the
\* saved selection, and restore and update-image remove it before they save
\* another profile.
RuntimeIsSelected ==
    container # None =>
        /\ container.home = profile.home
        /\ profile.image \in {None, container.image}

\* Personal files are never lost: the profile's volume holds what the user
\* saved or restored last, whatever was killed or failed (backup.go removes
\* the previous volume only after the new profile was written; main.go start
\* would create an empty volume for a name that does not exist).
HomePreserved ==
    truth # Absent => home[profile.home] = truth

\* A personal volume is never left with an image nobody knows: the profile,
\* the container or a completed copy of this installation still names it
\* (main.go 562, docs/image-updates.md 5).
HomeImageKnown ==
    home[profile.home] # Absent =>
        profile.image # None \/ container # None \/ backups # << >>

\* Every completed copy holds files as the user saved them, not a half
\* extracted volume or a mix of two versions (docs/backups.md 3).
CopiesAreConsistent ==
    \A i \in DOMAIN backups : backups[i].data \in Version

\* update-image removes a container only when the newest completed copy has its
\* files and its image (image_updates.go 83-95).
ReplacedOnlyAfterCopy ==
    [][ op.cmd = "update-image" /\ container # None
        /\ container' = None /\ op' # op /\ ~op'.disturbed
        => /\ backups # << >>
           /\ Last(backups).data = home[container.home]
           /\ Last(backups).image = container.image ]_vars

\* A restore that ends in failure leaves the profile, the network and the
\* personal files as they were, at whatever call it failed (backup.go 529-561).
FailedRestoreChangesNothing ==
    op.cmd = "restore" /\ op.pc = "done" /\ ~op.ok /\ ~op.disturbed =>
        /\ profile = op.p
        /\ network = op.net0
        /\ home[profile.home] = truth

\* An update that fails while the original container is still there gives the
\* session back: it is running, with the network it had, not the pending one
\* (image_updates.go 45-53, docs/image-updates.md 26).
FailedImageUpdateResumes ==
    op.cmd = "update-image" /\ op.pc = "done" /\ ~op.ok /\ ~op.disturbed
    /\ op.phase = "before" /\ container # None
    /\ op.c # None /\ op.c.running =>
        /\ container = op.c
        /\ applied[op.c.home] = op.applied0

\* An update is reported usable only with the chosen image selected, created
\* and holding the personal files (image_updates.go 107-167).
UsableOnlyWhenSelected ==
    op.cmd = "update-image" /\ op.pc = "done" /\ op.ok =>
        /\ profile.image = op.sel
        /\ container # None => container.image = op.sel
        /\ home[profile.home] = truth

\* After anything that was killed or failed, a start that meets no failure of
\* its own brings the desktop up, unless the selected image is not there or
\* nobody knows it (main.go 509-647).
StartRecovers ==
    op.cmd = "start" /\ op.pc = "done" /\ ~op.ok /\ op.faults = 0
    /\ ~op.disturbed =>
        /\ container = None
        /\ IF profile.image = None THEN home[profile.home] # Absent
                                   ELSE profile.image \notin local

\* A command that holds the operation lock ends and releases it.
CommandsEnd == op # Idle ~> op = Idle

\* The image that is known to belong to the personal files.
Known == IF profile.image = None /\ container # None THEN container.image
                                                    ELSE profile.image
W == INSTANCE Workplace WITH Others <- OtherBackups, files <- home[profile.home],
        image <- Known, desktop <- Running, copies <- backups
\* Whatever calls start, backup, restore and the updates make, in the order of
\* main.go 509-647, backup.go 99-174 and 465-564 and image_updates.go 30-167,
\* and wherever they are cut short, files, their image, the desktop and the
\* copies change only by the whole steps of a Workplace: another image takes
\* the files only after a copy, or together with the files of a copy, and is
\* of the same variant; two copies are always kept.
ImplementsWorkplace == W!Spec
=============================================================================
