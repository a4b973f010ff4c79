----------------------- MODULE InstallationInvariant -----------------------
(***************************************************************************)
(* The inductive invariant of Installation, and how the command in         *)
(* progress fits the state of the world.                                   *)
(*                                                                         *)
(* RuntimeIsSelected and HomePreserved are not inductive: a later step     *)
(* uses what the command read earlier, so the invariant says what each     *)
(* label knows.  Its parts take the command o, the saved profile pr, the   *)
(* container co and the volumes ho as parameters, so that a lemma can      *)
(* speak of the command a step is about to leave behind.                   *)
(***************************************************************************)
EXTENDS Installation

Snapshot  == {"snapshot.writers", "snapshot.stop", "snapshot.recheck"}
Copied    == {"backup.copying", "backup.recheck", "backup.publish"}
Copy      == Copied \cup {"backup.copy", "backup.prune"}
Extract   == {"restore.extract", "restore.extracting", "restore.undoVolume"}
Switch    == {"restore.files", "restore.remove", "restore.commit"}
Restore   == Extract \cup Switch \cup {"restore.undoNetwork"}

\* The command still works on the profile that is saved.
OnSavedProfile(o, pr) ==
    o.pc \notin {"idle", "done", "restore.cleanup"} => o.p = pr

\* Where a command has found or made the container gone, it is gone.
ContainerGone(o, co) ==
    /\ o.pc \in {"start.resolve", "start.select", "start.volume",
                 "start.create", "image.save", "restore.commit"}
          => co = None
    /\ o.pc \in Snapshot \cup Restore \cup {"restore.volume"}
       /\ o.seen = None
          => co = None
    /\ o.pc \in Snapshot \cup Copy \cup {"backup.observe", "image.resolve",
                                         "image.remove", "update.resume"}
       /\ o.cmd = "update-image" /\ o.c = None
          => co = None

\* An adopted image is that of the container, if it still exists.
Adopting(o, co) ==
    o.pc = "start.adopt" =>
        /\ o.seen \in Containers
        /\ co # None => co.image = o.seen.image

\* What a command has read is there when a later step uses it.
Gathered(o, ho) ==
    /\ o.pc \in {"image.observe", "image.resolve", "image.remove",
                 "image.save"}
          => o.cmd = "update-image"
    /\ o.pc = "apps.observe" => o.cmd = "update-apps"
    /\ o.pc = "backup.observe" => o.cmd # "restore"
    /\ o.pc = "restore.read" => o.cmd = "restore"
    /\ o.pc \in Snapshot \cup Copy \cup {"backup.observe", "image.remove",
                                         "image.save"}
       /\ o.cmd = "update-image" => o.sel \in Images
    /\ o.pc = "start.select" => o.sel \in Images
    /\ o.pc \in Copied => o.copy \in Content
    /\ o.pc \in Copy \/ (o.pc \in Snapshot /\ o.cmd # "restore")
          => /\ ho[o.p.home] # Absent
             /\ o.seen # None \/ o.p.image # None
    /\ o.pc \in Restore \cup {"restore.volume"}
       \/ (o.pc \in Snapshot /\ o.cmd = "restore")
          => o.src \in Copies

\* The volume a restore fills is not the profile's, and is filled before the
\* profile names it; afterwards the previous one is not the profile's.
Filling(o, pr, ho) ==
    /\ o.pc \in Restore => o.vol \in Vols /\ o.vol # pr.home
    /\ o.pc \in Switch => ho[o.vol] = o.src.data
    /\ o.pc = "restore.cleanup" => o.p \in Profiles /\ o.p.home # pr.home

Fits(o, pr, co, ho) ==
    /\ o \in Operations
    /\ OnSavedProfile(o, pr) /\ ContainerGone(o, co) /\ Adopting(o, co)
    /\ Gathered(o, ho) /\ Filling(o, pr, ho)

WorldOK == WorldTypeOK /\ RuntimeIsSelected /\ HomePreserved

IInv == WorldOK /\ Fits(op, profile, container, home)
=============================================================================
