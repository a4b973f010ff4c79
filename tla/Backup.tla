------------------------------- MODULE Backup -------------------------------
(***************************************************************************)
(* backup and restore.  backup is also called by both updates.             *)
(***************************************************************************)
EXTENDS Workstation, SequencesExt

backupFails_ignored ==
    CASE op.cmd = "backup"       -> Done(FALSE)
      [] op.cmd = "update-image" -> At("image.remove")
      [] OTHER                   -> At("update.resume")
\* What follows a call of backup that succeeded, or failed.
backupReturns ==
    CASE op.cmd = "backup"       -> Done(TRUE)
      [] op.cmd = "update-image" -> At("image.remove")
      [] OTHER                   -> At("start.observe")
backupFails == IF op.cmd = "backup" THEN Done(FALSE) ELSE At("update.resume")

(***************************************************************************)
(* stopForSnapshot, called by backup and restore.                          *)
(***************************************************************************)
snapshotFails == IF op.cmd = "restore" THEN Done(FALSE) ELSE backupFails

snapshotWriters ==
    /\ op.pc = "snapshot.writers"
    /\ IF otherVolumeWriters(op.p.home, TRUE)
       THEN UNCHANGED world /\ op' = snapshotFails
       ELSE Observe(At("snapshot.stop"), snapshotFails)

\* The decision to stop uses the container seen before the checks.
snapshotStop ==
    /\ op.pc = "snapshot.stop"
    /\ IF op.seen # None /\ op.seen.running
       THEN Docker(container # None, stopContainer, At("snapshot.recheck"),
                   snapshotFails)
       ELSE Observe(At("snapshot.recheck"), snapshotFails)

snapshotRecheck ==
    /\ op.pc = "snapshot.recheck"
    /\ IF otherVolumeWriters(op.p.home, FALSE)
       THEN UNCHANGED world /\ op' = snapshotFails
       ELSE Observe(At(IF op.cmd = "restore" THEN "restore.volume"
                                             ELSE "backup.copy"),
                    snapshotFails)

stopForSnapshot == snapshotWriters \/ snapshotStop \/ snapshotRecheck

(***************************************************************************)
(* backup                                                                  *)
(***************************************************************************)
\* The volume must exist and the image it belongs to be known and present;
\* the disk may lack room.
backupObserve ==
    LET image == selectedImageReference(op.p, container) IN
    /\ op.pc = "backup.observe"
    /\ IF home[op.p.home] # Absent /\ image \in local
       THEN Observe([op EXCEPT !.seen = container, !.pc = "snapshot.writers"],
                    backupFails)
       ELSE UNCHANGED world /\ op' = backupFails

snapshotImage_profile == op.p.image
\* The image recorded in the copy: that of the container seen, or the selected.
snapshotImage == IF op.seen # None THEN op.seen.image ELSE op.p.image

\* tar reads the volume while it is copied: two steps.
backupCopy ==
    /\ op.pc = "backup.copy"
    /\ Observe([op EXCEPT !.copy = home[op.p.home], !.net = network,
                          !.pc = "backup.copying"], backupFails)
backupCopying ==
    /\ op.pc = "backup.copying"
    /\ Observe([op EXCEPT !.copy = IF home[op.p.home] = op.copy THEN op.copy
                                                                ELSE Torn,
                          !.pc = "backup.recheck"], backupFails)
backupRecheck_omitted ==
    op.pc = "backup.recheck" /\ Observe(At("backup.publish"), backupFails)
backupRecheck ==
    /\ op.pc = "backup.recheck"
    /\ IF otherVolumeWriters(op.p.home, FALSE)
       THEN UNCHANGED world /\ op' = backupFails
       ELSE Observe(At("backup.publish"), backupFails)

\* Manifest and checksum are written in the staging directory, which then
\* takes its final name; the copy is complete from here on.
backupPublish ==
    /\ op.pc = "backup.publish"
    /\ WriteFile(/\ backups' = Append(backups,
                        [own |-> TRUE, image |-> snapshotImage,
                         data |-> op.copy, net |-> op.net,
                         applied |-> applied[op.p.home]])
                 /\ UNCHANGED <<profile, network, container, home,
                                applied, store, writer, writes, truth>>,
                 At("backup.prune"), backupFails)

\* The store is listed again and all but the two newest copies are removed;
\* verifying or removing may fail.
newest_one(s) == SubSeq(s, Len(s), Len(s))
newest(s) == SubSeq(s, IF Len(s) > 2 THEN Len(s) - 1 ELSE 1, Len(s))
backupPrune ==
    /\ op.pc = "backup.prune"
    /\ \/ /\ backups' = newest(backups)
          /\ op' = backupReturns
          /\ UNCHANGED <<profile, network, container, home, applied,
                         store, writer, writes, truth>>
       \/ UNCHANGED world /\ Faulty(backupFails)

backup == \/ backupObserve \/ backupCopy \/ backupCopying \/ backupRecheck
          \/ backupPublish \/ backupPrune

(***************************************************************************)
(* restore                                                                 *)
(***************************************************************************)
\* The current variant is compared when it can be known; otherwise only a copy
\* of this installation, with no container left, is accepted.
variantAccepted_any(b) ==
    selectedImageReference(op.p, container) \in local \/ (container = None /\ b.own)
variantAccepted(b) ==
    LET current == selectedImageReference(op.p, container) IN
    IF current \in local
    THEN Variant[b.image] = Variant[current]
    ELSE container = None /\ b.own

restoreRead ==
    /\ op.pc = "restore.read"
    /\ \E b \in ToSet(backups) \cup OtherBackups :
          IF b.image \in local /\ variantAccepted(b)
          THEN Observe([op EXCEPT !.seen = container, !.src = b,
                                  !.pc = "snapshot.writers"], Done(FALSE))
          ELSE UNCHANGED world /\ op' = Done(FALSE)

setVolume(v, data, net) ==
    /\ home' = [home EXCEPT ![v] = data]
    /\ applied' = [applied EXCEPT ![v] = net]
    /\ UNCHANGED <<profile, network, backups, container, store,
                   writer, writes, truth>>

\* The new volume has a random name: one no volume has.  Until it is created
\* nothing is registered to be undone.
restoreVolume ==
    /\ op.pc = "restore.volume"
    /\ \E v \in {u \in Vols : home[u] = Absent} \ {op.p.home} :
          Docker(TRUE, setVolume(v, 0, None),
                 [op EXCEPT !.vol = v, !.pc = "restore.extract"], Done(FALSE))

restoreExtract ==
    /\ op.pc = "restore.extract"
    /\ Docker(TRUE, setVolume(op.vol, Partial, None), At("restore.extracting"),
              At("restore.undoVolume"))

\* The rest is extracted, the hash of what was read is checked, and the
\* current network.json is kept to be put back.
restoreExtracting ==
    /\ op.pc = "restore.extracting"
    /\ Docker(TRUE, setVolume(op.vol, op.src.data, op.src.applied),
              [op EXCEPT !.net = network, !.pc = "restore.files"],
              At("restore.undoVolume"))

restoreFiles_noUndo ==
    /\ op.pc = "restore.files"
    /\ Docker(TRUE, saveNetwork(op.src.net), At("restore.remove"),
              At("restore.undoVolume"))
\* Several files: one may fail after network.json was replaced or removed.
restoreFiles ==
    /\ op.pc = "restore.files"
    /\ Docker(TRUE, saveNetwork(op.src.net), At("restore.remove"),
              At("restore.undoNetwork"))

restoreRemove ==
    /\ op.pc = "restore.remove"
    /\ IF op.seen # None
       THEN Docker(container # None /\ ~Running, removeContainer,
                   At("restore.commit"), At("restore.undoNetwork"))
       ELSE Observe(At("restore.commit"), At("restore.undoNetwork"))

restoreCommit_oldVolume ==
    /\ op.pc = "restore.commit"
    /\ WriteFile(/\ profile' = [op.p EXCEPT !.image = op.src.image]
                 /\ truth' = op.src.data
                 /\ UNCHANGED <<network, backups, container, home, applied,
                                store, writer, writes>>,
                 At("restore.cleanup"), At("restore.undoNetwork"))
restoreCommit ==
    /\ op.pc = "restore.commit"
    /\ WriteFile(/\ profile' = [image |-> op.src.image, home |-> op.vol]
                 /\ truth' = op.src.data
                 /\ UNCHANGED <<network, backups, container, home,
                                applied, store, writer, writes>>,
                 At("restore.cleanup"), At("restore.undoNetwork"))

\* The previous volume is removed unless something still uses it.
restoreCleanup ==
    /\ op.pc = "restore.cleanup"
    /\ Docker(home[op.p.home] # Absent /\ writer # op.p.home,
              setVolume(op.p.home, Absent, None), Done(TRUE), Done(TRUE))

\* The deferred calls, last registered first; their own failure is ignored.
restoreUndoNetwork ==
    /\ op.pc = "restore.undoNetwork"
    /\ WriteFile(saveNetwork(op.net), At("restore.undoVolume"),
                 [At("restore.undoVolume") EXCEPT !.disturbed = TRUE])
restoreUndoVolume ==
    /\ op.pc = "restore.undoVolume"
    /\ Docker(TRUE, setVolume(op.vol, Absent, None), Done(FALSE),
              Done(FALSE))

restore == \/ restoreRead \/ restoreVolume \/ restoreExtract
           \/ restoreExtracting \/ restoreFiles \/ restoreRemove
           \/ restoreCommit \/ restoreCleanup
           \/ restoreUndoNetwork \/ restoreUndoVolume
=============================================================================
