---------------------------- MODULE Workstation ----------------------------
(***************************************************************************)
(* The state the workstation command line works on: the host files of one  *)
(* installation (profile.json, network.json, the backup directory), the    *)
(* Docker engine's objects (container, personal volumes, images), and the  *)
(* command in progress.  The modules Start, Backup and Update add the      *)
(* commands, Installation composes them.                                   *)
(*                                                                         *)
(* Every Docker call and every host file write is one step.  Between two   *)
(* steps the command may be killed, and the desktop, the user, a registry  *)
(* or a project's container may act.                                       *)
(***************************************************************************)
EXTENDS Naturals, Sequences

CONSTANTS
    Images,         \* image identities ("sha256:...")
    Variant,        \* the io.electivus.workstation.variant label of each image
    Vols,           \* names a personal volume can have
    FirstVol,       \* the name given by install: <name>-home
    Nets,           \* contents a network.json can have
    OtherBackups,   \* completed copies of other installations in reach
    Commands,       \* commands the user issues in this instance
    Origins,        \* how the installation came to be: installed or older
    Events,         \* what happens around the command in this instance
    MaxWrites,      \* bound: how many times personal files change
    MaxFaults,      \* bound: calls of one command that fail
    MaxStored,      \* bound: copies kept when the retention step keeps failing
    None,           \* no image, container, volume, network file or copy
    Absent,         \* content of a volume that does not exist
    Partial,        \* content of a volume an extraction has not filled yet
    Torn            \* a copy taken while its source was changing

\* What a volume can hold: the version of the personal files the user last
\* saved there (0: a new, empty home), or something no user ever saved.
Version == 0 .. MaxWrites
Content == Version \cup {Partial, Torn}

Profiles   == [image : Images \cup {None}, home : Vols]
Containers == [image : Images, home : Vols, running : BOOLEAN]
Copies     == [own : BOOLEAN, image : Images, data : Content,
               net : Nets \cup {None}, applied : Nets \cup {None}]

AllCommands == {"start", "stop", "network", "backup", "restore",
                "update-image", "update-apps"}

ASSUME ConstantsAssumption ==
    /\ FirstVol \in Vols
    /\ Commands \subseteq AllCommands
    /\ Variant \in [Images -> {"base", "salesforce"}]
    /\ MaxWrites \in Nat /\ MaxFaults \in Nat /\ MaxStored \in Nat \ {0, 1}
    /\ OtherBackups \in SUBSET {b \in Copies : ~b.own}
    /\ None \notin Images \cup Vols \cup Nets \cup Containers \cup Profiles
                   \cup Copies \cup Content
    /\ Absent \notin Content \cup {None}
    /\ Partial \notin Nat /\ Torn \notin Nat /\ Partial # Torn

VARIABLES
    profile,    \* profile.json: the selected image and the personal volume
    network,    \* network.json of the installation, or None
    backups,    \* this installation's completed copies, oldest first
    container,  \* the installation's container, or None
    home,       \* content of every personal volume, or Absent
    applied,    \* /config/.electivus-network.json in every volume
    local,      \* images in the local engine
    tag,        \* what the chosen tag names locally, or None
    registry,   \* what the chosen tag names in the registry
    writer,     \* volume a running container of a project can write, or None
    writes,     \* history: how many versions of personal files were saved
    truth,      \* history: the version the user saved or restored last
    op          \* the command holding .operation.lock

store   == <<local, tag, registry>>
world   == <<profile, network, backups, container, home, applied,
             local, tag, registry, writer, writes, truth>>
vars    == <<world, op>>

(***************************************************************************)
(* The command in progress.  "p" is the profile it read, "c" the container *)
(* an update observed first, "seen" the container its current routine      *)
(* observed, "phase" whether update-image has saved the new selection or   *)
(* failed to.  "net0", "applied0" and "disturbed" are history: what the     *)
(* network was when the command began, and whether the desktop was taken   *)
(* away or a recovery call failed meanwhile.                               *)
(***************************************************************************)
Labels == {"idle", "done", "stop", "network",
           "start.observe", "start.adopt", "start.resolve", "start.select",
           "start.volume", "start.create", "start.network", "start.run",
           "start.await",
           "snapshot.writers", "snapshot.stop", "snapshot.recheck",
           "backup.observe", "backup.copy", "backup.copying",
           "backup.recheck", "backup.publish", "backup.prune",
           "restore.read", "restore.volume", "restore.extract",
           "restore.extracting", "restore.files", "restore.remove",
           "restore.commit", "restore.cleanup", "restore.undoNetwork",
           "restore.undoVolume",
           "image.observe", "image.resolve", "image.remove", "image.save",
           "image.packages", "image.verify",
           "apps.observe", "apps.update",
           "update.resume", "update.finish", "update.fail"}
Operations ==
    [cmd : AllCommands \cup {"idle"}, pc : Labels,
     p : Profiles \cup {None}, c : Containers \cup {None},
     seen : Containers \cup {None}, sel : Images \cup {None},
     src : Copies \cup {None}, vol : Vols \cup {None},
     copy : Content \cup {None}, net : Nets \cup {None},
     phase : {"before", "after", "rollback"}, ok : BOOLEAN, faults : Nat,
     net0 : Nets \cup {None}, applied0 : Nets \cup {None},
     disturbed : BOOLEAN]

Idle == [cmd |-> "idle", pc |-> "idle", p |-> None, c |-> None,
         seen |-> None, sel |-> None, src |-> None, vol |-> None,
         copy |-> None, net |-> None, phase |-> "before",
         ok |-> FALSE, faults |-> 0, net0 |-> None, applied0 |-> None,
         disturbed |-> FALSE]

Entry(cmd) == CASE cmd = "start"        -> "start.observe"
                [] cmd = "stop"         -> "stop"
                [] cmd = "network"      -> "network"
                [] cmd = "backup"       -> "backup.observe"
                [] cmd = "restore"      -> "restore.read"
                [] cmd = "update-image" -> "image.observe"
                [] cmd = "update-apps"  -> "apps.observe"

\* Commands that store a copy; the bound on copies keeps them from starting,
\* as the bound on volume names keeps restore from starting.
Copying(cmd) == cmd \in {"backup", "update-image", "update-apps"}

\* A command takes the operation lock, then reads profile.json again.
Begin(cmd) ==
    /\ op = Idle
    /\ Copying(cmd) => Len(backups) < MaxStored
    /\ cmd = "restore" => \E v \in Vols \ {profile.home} : home[v] = Absent
    /\ op' = [Idle EXCEPT !.cmd = cmd, !.pc = Entry(cmd), !.p = profile,
                          !.net0 = network, !.applied0 = applied[profile.home]]
    /\ UNCHANGED world

\* The process exits and the operating system drops the lock.
Return == op.pc = "done" /\ op' = Idle /\ UNCHANGED world

\* The process is killed: deferred calls do not run.
Killed == op # Idle /\ op.pc # "done" /\ op' = Idle /\ UNCHANGED world

At(label)  == [op EXCEPT !.pc = label]
Done(ok)   == [op EXCEPT !.pc = "done", !.ok = ok]
CanFail    == op.faults < MaxFaults
Faulty(o)  == CanFail /\ op' = [o EXCEPT !.faults = op.faults + 1]

\* One Docker call: it cannot be done, or is done, or fails before the engine
\* acts, or fails after it (the client gives up waiting, the engine goes on).
Docker(possible, effect, next, onError) ==
    \/ possible /\ effect /\ (op' = next \/ Faulty(onError))
    \/ UNCHANGED world /\ (Faulty(onError) \/ (~possible /\ op' = onError))

\* One atomicFile write, which renames a synced temporary file or does nothing.
WriteFile(effect, next, onError) ==
    \/ effect /\ op' = next
    \/ UNCHANGED world /\ Faulty(onError)

\* A step that only observes, and decides where to go next.
Observe(next, onError) ==
    UNCHANGED world /\ (op' = next \/ Faulty(onError))

(***************************************************************************)
(* The engine's calls.                                                     *)
(***************************************************************************)
Running == container # None /\ container.running

startContainer ==
    /\ container' = [container EXCEPT !.running = TRUE]
    /\ UNCHANGED <<profile, network, backups, home, applied, store,
                   writer, writes, truth>>
stopContainer ==
    /\ container' = [container EXCEPT !.running = FALSE]
    /\ UNCHANGED <<profile, network, backups, home, applied, store,
                   writer, writes, truth>>
removeContainer ==
    /\ container' = None
    /\ UNCHANGED <<profile, network, backups, home, applied, store,
                   writer, writes, truth>>
saveProfile(p) ==
    /\ profile' = p
    /\ UNCHANGED <<network, backups, container, home, applied, store,
                   writer, writes, truth>>
saveNetwork(n) ==
    /\ network' = n
    /\ UNCHANGED <<profile, backups, container, home, applied, store,
                   writer, writes, truth>>

\* The image a routine that saw container c works on; None when unknown.
selectedImageReference(p, c) ==
    CASE c # None                -> c.image
      [] c = None /\ p.image # None -> p.image
      [] c = None /\ p.image = None /\ home[p.home] # Absent -> None
      [] OTHER                   -> tag

\* otherVolumeWriters: a running container that can write the volume, other
\* than the installation's own container when that one is allowed.
otherVolumeWriters(vol, ownAllowed) ==
    \/ writer = vol
    \/ ~ownAllowed /\ Running /\ container.home = vol

(***************************************************************************)
(* Around the command: the user saves files in the desktop, the desktop    *)
(* ends, the tag moves, an unused image, the container or the volume is    *)
(* removed, a project's container writes the personal volume.              *)
(***************************************************************************)
Disturb == op' = IF op = Idle THEN op ELSE [op EXCEPT !.disturbed = TRUE]

Save(vol) ==
    /\ writes < MaxWrites
    /\ writes' = writes + 1
    /\ truth' = writes + 1
    /\ home' = [home EXCEPT ![vol] = writes + 1]
    /\ UNCHANGED <<profile, network, backups, container, applied,
                   store, writer>>
UserSaves  == Running /\ Save(container.home) /\ UNCHANGED op
DesktopExits == "exit" \in Events /\ Running /\ stopContainer /\ Disturb
TagMoves(i) ==
    /\ "tag" \in Events /\ registry' = i
    /\ UNCHANGED <<profile, network, backups, container, home,
                   applied, local, tag, writer, writes, truth, op>>
ImageRemoved(i) ==
    /\ "image" \in Events /\ ~(container # None /\ container.image = i)
    /\ local' = local \ {i}
    /\ tag' = IF tag = i THEN None ELSE tag
    /\ UNCHANGED <<profile, network, backups, container, home,
                   applied, registry, writer, writes, truth>>
    /\ Disturb
ContainerLost ==
    /\ "container" \in Events /\ container # None /\ profile.image # None
    /\ removeContainer /\ Disturb
HomeLost ==
    /\ "home" \in Events /\ op = Idle
    /\ container = None /\ writer # profile.home
    /\ home' = [home EXCEPT ![profile.home] = Absent]
    /\ truth' = Absent
    /\ UNCHANGED <<profile, network, backups, container, applied,
                   store, writer, writes, op>>
WriterStarts ==
    /\ "writer" \in Events /\ writer = None /\ home[profile.home] # Absent
    /\ writer' = profile.home
    /\ UNCHANGED <<profile, network, backups, container, home,
                   applied, store, writes, truth, op>>
WriterSaves == writer = profile.home /\ Save(writer) /\ UNCHANGED op
WriterStops ==
    /\ writer # None
    /\ "hasty" \in Events \/ op = Idle
    /\ writer' = None
    /\ UNCHANGED <<profile, network, backups, container, home,
                   applied, store, writes, truth, op>>

Around ==
    \/ UserSaves \/ DesktopExits \/ ContainerLost \/ HomeLost
    \/ WriterStarts \/ WriterSaves \/ WriterStops
    \/ \E i \in Images : TagMoves(i) \/ ImageRemoved(i)
=============================================================================
