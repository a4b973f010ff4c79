--------------------------- MODULE CommandProofs ---------------------------
(***************************************************************************)
(* The commands of Installation, for any images, volumes, networks,        *)
(* commands, events and bounds: what a copy holds, what a failed restore   *)
(* and a failed update leave, what a start brings up, what an update that  *)
(* reports success has selected, and what is copied before a removal.      *)
(*                                                                         *)
(* None of these is inductive: each is decided by what a command read      *)
(* several calls before.  Story, Named, Recovering, Upgrading and Secured  *)
(* say, on top of IInv, what each label of a command knows.                *)
(*                                                                         *)
(* The last part shows that the installation implements the Workplace;     *)
(* Belonging and Ready say what each label must know for its call to be a  *)
(* whole change of it.                                                     *)
(***************************************************************************)
EXTENDS InstallationProofs

\* The labels a restore goes through.
Course == Snapshot \cup Restore
          \cup {"restore.read", "restore.volume", "restore.cleanup", "done"}

\* The labels at which network.json is still as it was, or is so again.
Untouched == Snapshot \cup Extract
             \cup {"restore.read", "restore.volume", "restore.files"}

\* The labels at which there is, or was, a volume to fill.
Restored == Restore \cup {"restore.volume", "restore.cleanup"}

\* The network of an undisturbed restore is what it was, or is kept for undo.
Returning ==
    /\ op.pc \in Restored => op.cmd = "restore"
    /\ op.cmd = "restore" =>
        /\ op.pc \in Course
        /\ ~op.disturbed =>
               /\ op.pc \in Untouched => network = op.net0
               /\ op.pc \in Switch \cup {"restore.undoNetwork"}
                      => op.net = op.net0
               /\ op.pc = "done" /\ ~op.ok
                      => network = op.net0 /\ profile = op.p

\* Where a copy is taken nothing writes the volume but a project's container,
\* which the second look finds; what a restore reads is a whole copy.
Reading ==
    /\ truth \in Version \cup {Absent}
    /\ CopiesAreConsistent
    /\ op.pc \in Copied \cup {"backup.copy"} => ~Running
    /\ op.pc = "backup.copying" =>
           /\ op.copy \in Version
           /\ home[op.p.home] = op.copy \/ writer = op.p.home
    /\ op.pc = "backup.recheck" => op.copy \in Version \/ writer = op.p.home
    /\ op.pc = "backup.publish" => op.copy \in Version
    /\ op.pc \in Restore \cup {"restore.volume"}
       \/ (op.pc \in Snapshot /\ op.cmd = "restore")
          => op.src.data \in Version

\* A project's container that writes the volume outlives the command, and the
\* copies of others are whole.
Patient == "hasty" \notin Events /\ \A b \in OtherBackups : b.data \in Version

\* The inductive invariant, on top of IInv.
Story == /\ home[profile.home] = truth
         /\ Returning
         /\ Patient => Reading

(***************************************************************************)
(* An image for the personal files.                                        *)
(***************************************************************************)
\* The command removes a container later, or is about to.
NeedsCopy(o) ==
    \/ o.pc \in Restore \cup {"backup.prune", "image.remove", "restore.volume"}
    \/ o.pc \in Snapshot /\ o.cmd = "restore"

\* Where no copies of others are in reach: the label that creates the volume
\* has a selection, and those that remove a container have a copy.
Named ==
    /\ HomeImageKnown
    /\ writer = profile.home => home[profile.home] # Absent
    /\ op.pc = "start.volume" => op.p.image # None
    /\ NeedsCopy(op) => backups # << >>

(***************************************************************************)
(* A start.                                                                *)
(***************************************************************************)
Starts == {"start.observe", "start.adopt", "start.resolve", "start.select",
           "start.volume", "start.create", "start.network", "start.run",
           "start.await"}

\* A start that met no failure finds what it has found or made before.
Recovering ==
    op.cmd = "start" =>
        /\ op.pc \in Starts \cup {"done"} /\ op.phase = "before"
        /\ op.faults = 0 /\ ~op.disturbed =>
               /\ op.pc = "start.adopt" => op.seen = container
               /\ op.pc = "start.select" =>
                      op.sel \in local /\ op.p.image \in {None, op.sel}
               /\ op.pc \in {"start.volume", "start.create"}
                      => op.p.image \in local
               /\ op.pc \in {"start.network", "start.run"} => container # None
               /\ op.pc = "start.await" => Running
               /\ op.pc = "done" /\ ~op.ok =>
                      /\ container = None
                      /\ IF profile.image = None
                         THEN home[profile.home] # Absent
                         ELSE profile.image \notin local

(***************************************************************************)
(* An update of the image.                                                 *)
(***************************************************************************)
Checks == {"image.packages", "image.verify", "update.finish"}
Upgrade == Snapshot \cup Copy \cup Starts \cup Checks
           \cup {"backup.observe", "image.observe", "image.resolve",
                 "image.remove", "image.save", "update.resume",
                 "update.fail", "done"}

\* The labels at which the original container is as it was found.
Session == {"image.resolve", "backup.observe", "snapshot.writers",
            "snapshot.stop", "update.fail", "done"}

\* Until the new selection is saved the original container is the one seen
\* first, and is stopped only after snapshot.stop; from then on the command
\* works on the image it has chosen.
Upgrading ==
    op.cmd = "update-image" =>
        /\ op.pc \in Upgrade
        /\ op.pc \in Starts => op.phase # "before"
        /\ op.pc \in Checks => op.phase = "after"
        /\ op.pc = "image.observe" => op.c = None
        /\ op.pc \in {"image.observe", "image.resolve"} => op.phase = "before"
        /\ op.phase = "after" => /\ op.p.image = op.sel /\ op.sel \in Images
                                 /\ op.pc # "start.adopt"
        /\ op.pc = "done" /\ op.ok => op.phase = "after" /\ profile = op.p
        /\ op.phase = "before" => applied[profile.home] = op.applied0
        /\ op.phase = "before" /\ op.c # None /\ op.c.running /\ ~op.disturbed =>
               /\ op.c.home = profile.home
               /\ container # None => container.image = op.c.image
               /\ op.pc \in Session /\ container # None => container = op.c

\* Where nothing but the desktop writes the volume, the newest copy has what
\* the container that is removed next had.
Secured ==
    /\ writer = None
    /\ op.pc \in Snapshot \cup Copy /\ op.cmd # "restore" /\ container # None
           => op.seen # None /\ op.seen.image = container.image
    /\ op.pc \in Copy \cup {"image.remove"} => ~Running
    /\ op.pc \in Copied => op.copy = home[profile.home]
    /\ op.pc \in {"backup.prune", "image.remove"} =>
           /\ backups # << >>
           /\ Last(backups).data = home[profile.home]
           /\ container # None => Last(backups).image = container.image

(***************************************************************************)
(* What the steps of start, stop, network and both updates have in common. *)
(***************************************************************************)
\* Labels that are no part of copying or of filling a volume.
Calm == Labels \ (Copied \cup {"backup.copy"} \cup Restored)

\* An injected failure leaves all that Story speaks of.
LEMMA Faulted ==
  ASSUME op \in Operations, NEW o \in Operations, op' = o \/ Faulty(o)
  PROVE  /\ op'.pc = o.pc /\ op'.cmd = o.cmd /\ op'.p = o.p
         /\ op'.src = o.src /\ op'.copy = o.copy /\ op'.net = o.net
         /\ op'.net0 = o.net0 /\ op'.disturbed = o.disturbed /\ op'.ok = o.ok
         /\ op'.vol = o.vol
<1>1. op' = o \/ op' = [o EXCEPT !.faults = op.faults + 1]
  BY DEF Faulty
<1> QED
  BY <1>1 DEF Operations

\* The command goes on as the same command, at a label that is calm.
Turn(o) == o \in Operations /\ o.cmd = op.cmd /\ o.pc \in Calm

LEMMA Turns ==
  ASSUME op \in Operations
  PROVE  /\ \A l \in Calm : Turn(At(l))
         /\ \A ok \in BOOLEAN : Turn(Done(ok))
<1>1. ASSUME NEW l \in Calm PROVE Turn(At(l))
  BY <1>1, AtKeeps DEF Turn, Calm
<1>2. ASSUME NEW ok \in BOOLEAN PROVE Turn(Done(ok))
  <2>1. Done(ok) \in Operations
    BY <1>2, Fields DEF Done, Labels
  <2>2. Done(ok).pc = "done" /\ Done(ok).cmd = op.cmd
    BY DEF Done, Operations
  <2> QED
    BY <2>1, <2>2 DEF Turn, Calm, Labels, Copied, Restored, Restore, Extract,
       Switch
<1> QED
  BY <1>1, <1>2

\* The personal volume holds what was saved last, still or as a whole version.
Steady ==
    /\ backups' = backups /\ profile'.home = profile.home
    /\ home'[profile.home] = truth'
    /\ truth' = truth \/ truth' \in Version

\* A step of a command other than restore that keeps the files steady and goes
\* on calmly keeps Story.
LEMMA CalmOther ==
  ASSUME IInv, Story, op.cmd # "restore", Steady, NEW o, Turn(o),
         op' = o \/ Faulty(o)
  PROVE  Story'
<1>1. op \in Operations /\ o \in Operations
  BY DEF IInv, Fits, Turn
<1>2. op'.pc \in Calm /\ op'.cmd # "restore"
  BY <1>1, Faulted DEF Turn
<1>3. Returning'
  BY <1>2 DEF Returning, Calm
<1>4. ASSUME Patient PROVE Reading'
  BY <1>2, <1>4 DEF Story, Reading, Steady, Calm, Copied,
     CopiesAreConsistent, Restored, Restore, Extract, Switch
<1> QED
  BY <1>3, <1>4 DEF Story, Steady, Patient

\* A restore is nowhere but on its course.
LEMMA CalmStep ==
  ASSUME IInv, Story, op.pc \notin Course, Steady, NEW o, Turn(o),
         op' = o \/ Faulty(o)
  PROVE  Story'
<1>1. op.cmd # "restore"
  BY DEF Story, Returning
<1> QED
  BY <1>1, CalmOther

\* Where nothing but the profile's image, the engine or the network changes,
\* the files are steady.
LEMMA Elsewise ==
  ASSUME Story, UNCHANGED <<backups, home, truth>>,
         profile'.home = profile.home
  PROVE  Steady
  BY DEF Story, Steady

(***************************************************************************)
(* start, stop, network and both updates.                                  *)
(***************************************************************************)
\* A start that returns goes on calmly.
LEMMA StartTurns ==
  ASSUME op \in Operations
  PROVE  Turn(startFails) /\ Turn(startReturns)
<1>1. /\ Turn(Done(TRUE)) /\ Turn(Done(FALSE)) /\ Turn(At("update.fail"))
      /\ Turn(At("image.packages")) /\ Turn(At("apps.update"))
  BY Turns DEF Calm, Labels, Copied, Restored, Restore, Extract, Switch
<1> QED
  BY <1>1 DEF startFails, startReturns

\* Labels that start, stop, network and the updates go to.
Plain == {"start.resolve", "start.adopt", "start.network", "start.await",
          "start.select", "start.volume", "start.create", "start.run",
          "image.resolve", "image.save", "image.verify", "backup.observe",
          "start.observe", "update.resume", "update.finish", "update.fail"}

\* A command that replaces what it has read goes on calmly at such a label.
LEMMA PlainTurns ==
  ASSUME op \in Operations, NEW l \in Plain
  PROVE  /\ Turn(At(l))
         /\ \A x \in Containers \cup {None} :
                /\ Turn([op EXCEPT !.seen = x, !.pc = l])
                /\ Turn([op EXCEPT !.c = x, !.pc = l])
         /\ \A x \in Profiles :
                /\ Turn([op EXCEPT !.p = x, !.pc = l])
                /\ Turn([op EXCEPT !.p = x, !.phase = "after", !.pc = l])
         /\ \A x \in Images : Turn([op EXCEPT !.sel = x, !.pc = l])
         /\ Turn([At(l) EXCEPT !.phase = "rollback"])
         /\ Turn([At(l) EXCEPT !.disturbed = TRUE])
<1>1. l \in Calm /\ l \in Labels
  BY DEF Plain, Calm, Labels, Copied, Restored, Restore, Extract, Switch
<1>2. Turn(At(l))
  BY <1>1, Turns
<1>3. ASSUME NEW o \in Operations, o.cmd = op.cmd
      PROVE  Turn([o EXCEPT !.pc = l])
  <2>1. [o EXCEPT !.pc = l] \in Operations
    BY <1>1, <1>3, Fields
  <2>2. [o EXCEPT !.pc = l].pc = l /\ [o EXCEPT !.pc = l].cmd = op.cmd
    BY <1>3 DEF Operations
  <2> QED
    BY <1>1, <2>1, <2>2 DEF Turn
<1>4. ASSUME NEW x \in Containers \cup {None}
      PROVE  /\ Turn([[op EXCEPT !.seen = x] EXCEPT !.pc = l])
             /\ Turn([[op EXCEPT !.c = x] EXCEPT !.pc = l])
  <2>1. [op EXCEPT !.seen = x] \in Operations /\ [op EXCEPT !.c = x] \in Operations
    BY <1>4, Fields
  <2>2. [op EXCEPT !.seen = x].cmd = op.cmd /\ [op EXCEPT !.c = x].cmd = op.cmd
    BY DEF Operations
  <2> QED
    BY <1>3, <2>1, <2>2
<1>5. ASSUME NEW x \in Profiles
      PROVE  /\ Turn([[op EXCEPT !.p = x] EXCEPT !.pc = l])
             /\ Turn([[[op EXCEPT !.p = x] EXCEPT !.phase = "after"]
                          EXCEPT !.pc = l])
  <2> DEFINE o == [op EXCEPT !.p = x]
             n == [o EXCEPT !.phase = "after"]
  <2>1. o \in Operations /\ o.cmd = op.cmd
    BY <1>5, Fields DEF Operations
  <2> HIDE DEF o
  <2>2. n \in Operations /\ n.cmd = op.cmd
    BY <2>1, Fields DEF Operations
  <2> HIDE DEF n
  <2> QED
    BY <1>3, <2>1, <2>2 DEF n, o
<1>6. ASSUME NEW x \in Images
      PROVE  Turn([[op EXCEPT !.sel = x] EXCEPT !.pc = l])
  <2>1. [op EXCEPT !.sel = x] \in Operations /\ [op EXCEPT !.sel = x].cmd = op.cmd
    BY <1>6, Fields DEF Operations
  <2> QED
    BY <1>3, <2>1
<1>7. /\ Turn([At(l) EXCEPT !.phase = "rollback"])
      /\ Turn([At(l) EXCEPT !.disturbed = TRUE])
  <2> DEFINE o == At(l)
  <2>1. o \in Operations /\ o.cmd = op.cmd /\ o.pc = l
    BY <1>1, AtKeeps
  <2> HIDE DEF o
  <2>2. /\ [o EXCEPT !.phase = "rollback"] \in Operations
        /\ [o EXCEPT !.disturbed = TRUE] \in Operations
    BY <2>1, Fields
  <2>3. Turn([o EXCEPT !.phase = "rollback"])
        /\ Turn([o EXCEPT !.disturbed = TRUE])
    BY <1>1, <2>1, <2>2 DEF Turn, Operations
  <2> QED
    BY <2>3 DEF o
<1> QED
  BY <1>2, <1>4, <1>5, <1>6, <1>7

\* A step that leaves the world alone goes on to o, or fails there.
LEMMA CalmlyAlone ==
  ASSUME IInv, Story, op.pc \notin Course, NEW o, Turn(o),
         op' = o \/ Faulty(o), UNCHANGED world
  PROVE  Story'
<1>1. Steady
  BY Elsewise DEF world
<1> QED
  BY <1>1, CalmStep

\* start, call by call: a volume it creates holds nothing yet, and is the
\* profile's (main.go 509-647).
LEMMA StartKeeps ==
  ASSUME IInv, Story, start
  PROVE  Story'
<1>0. /\ op \in Operations /\ op.pc \notin Course
      /\ op.p = profile /\ profile \in Profiles
      /\ container \in Containers \cup {None}
      /\ Turn(startFails) /\ Turn(startReturns)
  <2>1. /\ op \in Operations /\ profile \in Profiles
        /\ container \in Containers \cup {None}
    BY DEF IInv, Fits, WorldOK, WorldTypeOK
  <2>2. op.pc \in {"start.observe", "start.adopt", "start.resolve",
                   "start.select", "start.volume", "start.create",
                   "start.network", "start.run", "start.await"}
    BY DEF start, startObserve, startAdopt, startResolve, startSelect,
       startVolume, startCreate, syncNetwork, startRun, startAwait
  <2>3. op.pc \notin Course /\ op.p = profile
    BY <2>2 DEF Course, Snapshot, Restore, Extract, Switch, IInv, Fits,
       OnSavedProfile
  <2> QED
    BY <2>1, <2>3, StartTurns
<1>1. ASSUME startObserve PROVE Story'
  <2>1. afterObserve(op.p, container) \in Plain
    BY DEF afterObserve, Plain
  <2>2. Turn([op EXCEPT !.seen = container,
                        !.pc = afterObserve(op.p, container)])
    BY <1>0, <2>1, PlainTurns
  <2> QED
    BY <1>0, <1>1, <2>2, CalmlyAlone DEF startObserve, Observe
<1>2. ASSUME startAdopt PROVE Story'
  <2> DEFINE p == [op.p EXCEPT !.image = op.seen.image]
             o == [op EXCEPT !.p = p, !.pc = afterObserve(p, op.seen)]
  <2>1. afterObserve(p, op.seen) \in Plain
    BY DEF afterObserve, Plain
  <2>2. p \in Profiles /\ p.home = profile.home
    BY <1>0, <1>2 DEF startAdopt, IInv, Fits, Adopting, Profiles, Containers
  <2>3. Turn(o)
    BY <1>0, <2>1, <2>2, PlainTurns
  <2>4. CASE saveProfile(p) /\ op' = o
    <3>1. Steady
      BY <2>2, <2>4, Elsewise DEF saveProfile
    <3> QED
      BY <1>0, <2>3, <2>4, <3>1, CalmStep
  <2>5. CASE UNCHANGED world /\ Faulty(startFails)
    BY <1>0, <2>5, CalmlyAlone
  <2> QED
    BY <1>2, <2>4, <2>5 DEF startAdopt, WriteFile
<1>3. ASSUME startResolve PROVE Story'
  <2>1. ASSUME NEW i \in Images
        PROVE  Turn([op EXCEPT !.sel = i, !.pc = "start.select"])
    BY <1>0, <2>1, PlainTurns DEF Plain
  <2>2. /\ local \subseteq Images /\ registry \in Images
    BY DEF IInv, WorldOK, WorldTypeOK
  <2>3. UNCHANGED <<profile, backups, home, truth>>
    BY <1>3 DEF startResolve, Observe, Docker, world
  <2>4. Steady
    BY <2>3, Elsewise
  <2>5. \/ op' = startFails \/ Faulty(startFails)
        \/ \E i \in Images : op' = [op EXCEPT !.sel = i, !.pc = "start.select"]
    BY <1>3, <2>2 DEF startResolve, Observe, Docker
  <2> QED
    BY <1>0, <2>1, <2>4, <2>5, CalmStep
<1>4. ASSUME startSelect PROVE Story'
  <2> DEFINE p == [op.p EXCEPT !.image = op.sel]
             o == [op EXCEPT !.p = p, !.pc = "start.volume"]
  <2>1. p \in Profiles /\ p.home = profile.home
    BY <1>0, <1>4 DEF startSelect, IInv, Fits, Gathered, Profiles
  <2>2. Turn(o) /\ Turn(At("start.volume"))
    BY <1>0, <2>1, PlainTurns DEF Plain
  <2>3. CASE saveProfile(p) /\ op' = o
    <3>1. Steady
      BY <2>1, <2>3, Elsewise DEF saveProfile
    <3> QED
      BY <1>0, <2>2, <2>3, <3>1, CalmStep
  <2>4. CASE UNCHANGED world /\ (op' = At("start.volume") \/ Faulty(startFails))
    BY <1>0, <2>2, <2>4, CalmlyAlone
  <2> QED
    BY <1>4, <2>3, <2>4 DEF startSelect, WriteFile, Observe
<1>5. ASSUME startVolume PROVE Story'
  <2>1. Turn(At("start.create"))
    BY <1>0, PlainTurns DEF Plain
  <2>2. CASE /\ home[op.p.home] = Absent
             /\ home' = [home EXCEPT ![op.p.home] = 0]
             /\ truth' = IF truth = Absent THEN 0 ELSE truth
             /\ UNCHANGED <<profile, backups>>
    <3>1. truth = Absent /\ 0 \in Version /\ profile.home \in Vols
      BY <1>0, <2>2, ConstantsAssumption
         DEF Story, ConstantsAssumption, Version, Profiles
    <3>2. home'[profile.home] = 0
      BY <1>0, <2>2, <3>1 DEF IInv, WorldOK, WorldTypeOK
    <3> QED
      BY <2>2, <3>1, <3>2, <1>0, <1>5, <2>1, CalmStep
         DEF Steady, startVolume, Observe, Docker
  <2>3. CASE UNCHANGED world
    BY <1>0, <1>5, <2>1, <2>3, CalmlyAlone DEF startVolume, Observe, Docker
  <2> QED
    BY <1>5, <2>2, <2>3 DEF startVolume, Observe, Docker
<1>6. ASSUME startCreate \/ syncNetwork \/ startRun \/ startAwait
      PROVE  Story'
  <2>1. /\ Turn(At("start.network")) /\ Turn(At("start.run"))
        /\ Turn(At("start.await"))
    BY <1>0, PlainTurns DEF Plain
  <2>2. UNCHANGED <<profile, backups, home, truth>>
    BY <1>6 DEF startCreate, syncNetwork, startRun, startAwait, Observe,
       Docker, startContainer, world
  <2>3. Steady
    BY <2>2, Elsewise
  <2>4. \/ op' = startReturns \/ op' = startFails \/ Faulty(startFails)
        \/ op' = At("start.network") \/ op' = At("start.run")
        \/ op' = At("start.await")
    BY <1>6 DEF startCreate, syncNetwork, startRun, startAwait, Observe,
       Docker
  <2> QED
    BY <1>0, <2>1, <2>3, <2>4, CalmStep
<1> QED
  BY <1>1, <1>2, <1>3, <1>4, <1>5, <1>6 DEF start

\* stop and network touch no file of the user.
LEMMA StopKeeps ==
  ASSUME IInv, Story, stop \/ configureNetwork
  PROVE  Story'
<1>1. op \in Operations /\ op.pc \notin Course
  BY DEF IInv, Fits, stop, configureNetwork, Course, Snapshot, Restore,
     Extract, Switch
<1>2. Turn(Done(TRUE)) /\ Turn(Done(FALSE))
  BY <1>1, Turns
<1>3. UNCHANGED <<profile, backups, home, truth>>
  BY DEF stop, configureNetwork, Observe, Docker, WriteFile, stopContainer,
     saveNetwork, world
<1>4. Steady
  BY <1>3, Elsewise
<1>5. op' = Done(TRUE) \/ op' = Done(FALSE) \/ Faulty(Done(FALSE))
  BY DEF stop, configureNetwork, Observe, Docker, WriteFile
<1> QED
  BY <1>1, <1>2, <1>4, <1>5, CalmStep

\* Files the user saves in the profile's volume are a version.
LEMMA Saved ==
  ASSUME IInv, Save(profile.home)
  PROVE  /\ home'[profile.home] = truth' /\ truth' \in Version
         /\ backups' = backups /\ profile' = profile /\ network' = network
         /\ container' = container /\ writer' = writer
<1>1. profile.home \in Vols /\ home \in [Vols -> Content \cup {Absent}]
      /\ writes \in Version
  BY DEF IInv, WorldOK, WorldTypeOK, Profiles
<1>2. writes + 1 \in Version
  BY <1>1, ConstantsAssumption DEF ConstantsAssumption, Version, Save
<1> QED
  BY <1>1, <1>2 DEF Save

\* Both updates, call by call: only update-apps changes files, in the
\* container, which is on the profile's volume (updates.go, image_updates.go).
LEMMA UpdateKeeps ==
  ASSUME IInv, Story, update
  PROVE  Story'
<1>0. /\ op \in Operations /\ op.pc \notin Course
      /\ op.p = profile /\ profile \in Profiles
      /\ container \in Containers \cup {None}
      /\ Turn(Done(TRUE)) /\ Turn(Done(FALSE))
      /\ \A l \in Plain : Turn(At(l))
  <2>1. /\ op \in Operations /\ profile \in Profiles
        /\ container \in Containers \cup {None}
    BY DEF IInv, Fits, WorldOK, WorldTypeOK
  <2>2. op.pc \in {"image.observe", "image.resolve", "image.remove",
                   "image.save", "image.packages", "image.verify",
                   "apps.observe", "apps.update", "update.resume",
                   "update.finish", "update.fail"}
    BY DEF update, imageObserve, imageResolve, imageRemove, imageSave,
       imagePackages, imageVerify, imageChecks, appsObserve, appsUpdate,
       updateResume, updateFinish, updateFail
  <2>3. op.pc \notin Course /\ op.p = profile
    BY <2>2 DEF Course, Snapshot, Restore, Extract, Switch, IInv, Fits,
       OnSavedProfile
  <2> QED
    BY <2>1, <2>3, Turns, PlainTurns
<1>1. ASSUME imageObserve \/ appsObserve PROVE Story'
  <2>1. /\ Turn([op EXCEPT !.c = container, !.pc = "image.resolve"])
        /\ Turn([op EXCEPT !.c = container, !.pc = "backup.observe"])
    BY <1>0, PlainTurns DEF Plain
  <2> QED
    BY <1>0, <1>1, <2>1, CalmlyAlone DEF imageObserve, appsObserve, Observe
<1>2. ASSUME imageResolve PROVE Story'
  <2>1. ASSUME NEW i \in Images
        PROVE  Turn([op EXCEPT !.sel = i, !.pc = "backup.observe"])
    BY <1>0, <2>1, PlainTurns DEF Plain
  <2>2. /\ local \subseteq Images /\ registry \in Images
    BY DEF IInv, WorldOK, WorldTypeOK
  <2>3. Steady
    BY <1>2, Elsewise DEF imageResolve
  <2>4. \/ op' = At("update.fail") \/ Faulty(At("update.fail"))
        \/ \E i \in Images : op' = [op EXCEPT !.sel = i, !.pc = "backup.observe"]
    BY <1>2, <2>2 DEF imageResolve
  <2> QED
    BY <1>0, <2>1, <2>3, <2>4, CalmStep DEF Plain
<1>3. ASSUME imageRemove \/ imagePackages \/ imageVerify PROVE Story'
  <2>1. Steady
    BY <1>3, Elsewise DEF imageRemove, imagePackages, imageVerify,
       imageChecks, Observe, Docker, removeContainer, world
  <2>2. \/ \E l \in Plain : op' = At(l) \/ Faulty(At(l))
    BY <1>3 DEF imageRemove, imagePackages, imageVerify, imageChecks,
       Observe, Docker, Plain
  <2> QED
    BY <1>0, <2>1, <2>2, CalmStep
<1>4. ASSUME imageSave PROVE Story'
  <2> DEFINE p == [op.p EXCEPT !.image = op.sel]
             o == [op EXCEPT !.p = p, !.phase = "after",
                             !.pc = "start.observe"]
             r == [At("start.observe") EXCEPT !.phase = "rollback"]
  <2>1. p \in Profiles /\ p.home = profile.home
    BY <1>0, <1>4 DEF imageSave, IInv, Fits, Gathered, Profiles
  <2>2. Turn(o) /\ Turn(r)
    BY <1>0, <2>1, PlainTurns DEF Plain
  <2>3. CASE saveProfile(p) /\ op' = o
    <3>1. Steady
      BY <2>1, <2>3, Elsewise DEF saveProfile
    <3> QED
      BY <1>0, <2>2, <2>3, <3>1, CalmStep
  <2>4. CASE UNCHANGED world /\ (Faulty(r) \/ Faulty(At("update.fail")))
    BY <1>0, <2>2, <2>4, CalmlyAlone DEF Plain
  <2> QED
    BY <1>4, <2>3, <2>4 DEF imageSave, WriteFile
<1>5. ASSUME appsUpdate PROVE Story'
  <2>1. Steady
    <3>1. CASE Running /\ Save(container.home)
      <4>1. container.home = profile.home
        BY <3>1 DEF Running, IInv, WorldOK, RuntimeIsSelected
      <4> QED
        BY <3>1, <4>1, Saved DEF Steady
    <3>2. CASE UNCHANGED world
      BY <3>2, Elsewise DEF world
    <3> QED
      BY <1>5, <3>1, <3>2 DEF appsUpdate, Docker
  <2>2. \/ op' = At("update.finish") \/ op' = At("update.fail")
        \/ Faulty(At("update.fail"))
    BY <1>5 DEF appsUpdate, Docker
  <2> QED
    BY <1>0, <2>1, <2>2, CalmStep DEF Plain
<1>6. ASSUME updateResume PROVE Story'
  <2> DEFINE e == [At("update.fail") EXCEPT !.disturbed = TRUE]
  <2>1. Turn(e)
    BY <1>0, PlainTurns DEF Plain
  <2>2. Steady
    BY <1>6, Elsewise DEF updateResume, Docker, startContainer, world
  <2>3. op' = At("update.fail") \/ op' = e \/ Faulty(e)
    BY <1>6 DEF updateResume, Docker
  <2> QED
    BY <1>0, <2>1, <2>2, <2>3, CalmStep DEF Plain
<1>7. ASSUME updateFinish \/ updateFail PROVE Story'
  BY <1>0, <1>7, CalmlyAlone DEF updateFinish, updateFail, Observe
<1> QED
  BY <1>1, <1>2, <1>3, <1>4, <1>5, <1>6, <1>7 DEF update

(***************************************************************************)
(* Commands that begin and end, and what happens around them.              *)
(***************************************************************************)
\* A command that begins has read the network; nothing was copied yet.
LEMMA BeginKeeps ==
  ASSUME IInv, Story, NEW cmd \in Commands, Begin(cmd)
  PROVE  Story'
<1>1. cmd \in AllCommands
  BY ConstantsAssumption DEF ConstantsAssumption
<1>2. op'.cmd = cmd /\ op'.pc = Entry(cmd) /\ op'.net0 = network
  BY DEF Begin, Idle
<1>3. UNCHANGED world
  BY DEF Begin
<1>4. /\ Entry(cmd) \notin Copied \cup {"backup.copy", "done"} \cup Switch
                         \cup Restored \cup Snapshot
      /\ cmd = "restore" => Entry(cmd) = "restore.read"
  BY <1>1 DEF Entry, AllCommands, Copied, Switch, Restored, Restore, Extract, Snapshot
<1>5. Returning'
  BY <1>2, <1>3, <1>4 DEF Returning, Course, Switch, Restored, Restore, world
<1>6. ASSUME Patient PROVE Reading'
  BY <1>2, <1>3, <1>4, <1>6 DEF Story, Reading, Copied, CopiesAreConsistent,
     Restored, Running, world
<1> QED
  BY <1>3, <1>5, <1>6 DEF Story, Patient, world

\* Between commands there is nothing to know.
LEMMA EndKeeps ==
  ASSUME IInv, Story, Return \/ Killed
  PROVE  Story'
<1>1. op' = Idle /\ UNCHANGED world
  BY DEF Return, Killed
<1>2. op'.cmd = "idle" /\ op'.pc = "idle"
  BY <1>1 DEF Idle
<1>3. Returning'
  BY <1>2 DEF Returning, Restored, Restore, Extract, Switch
<1>4. ASSUME Patient PROVE Reading'
  BY <1>1, <1>2, <1>4 DEF Story, Reading, Copied, CopiesAreConsistent,
     Restore, Extract, Switch, Snapshot, world
<1> QED
  BY <1>1, <1>3, <1>4 DEF Story, Patient, world

\* Files are saved through a container that runs, or by one of a project:
\* neither where a copy is taken unseen.
LEMMA SavingKeeps ==
  ASSUME IInv, Story, UserSaves \/ WriterSaves
  PROVE  Story'
<1>1. /\ Save(profile.home) /\ op' = op
      /\ Running \/ writer = profile.home
  BY DEF UserSaves, WriterSaves, Running, IInv, WorldOK, RuntimeIsSelected
<1>2. /\ home'[profile.home] = truth' /\ truth' \in Version
      /\ backups' = backups /\ profile' = profile /\ network' = network
      /\ container' = container /\ writer' = writer
  BY <1>1, Saved
<1>3. Returning'
  BY <1>1, <1>2 DEF Story, Returning
<1>4. ASSUME Patient PROVE Reading'
  <2>1. op.pc \in Copied => op.p = profile
    BY DEF IInv, Fits, OnSavedProfile, Copied
  <2>2. op.pc \in Copied => writer = op.p.home
    BY <1>1, <1>4, <2>1 DEF Story, Reading
  <2> QED
    BY <1>1, <1>2, <1>4, <2>2 DEF Story, Reading, Copied, CopiesAreConsistent,
       Running
<1> QED
  BY <1>2, <1>3, <1>4 DEF Story, Patient

\* A desktop that ends, a container that is lost, tags and images are no part
\* of a copy, and a command they disturb promises less.
LEMMA AwayKeeps ==
  ASSUME IInv, Story,
         \/ DesktopExits \/ ContainerLost
         \/ \E i \in Images : TagMoves(i) \/ ImageRemoved(i)
  PROVE  Story'
<1>1. /\ op'.pc = op.pc /\ op'.cmd = op.cmd /\ op'.p = op.p
      /\ op'.src = op.src /\ op'.copy = op.copy /\ op'.net = op.net
      /\ op'.net0 = op.net0 /\ op'.ok = op.ok
      /\ ~op'.disturbed => ~op.disturbed
  <2>1. op \in Operations
    BY DEF IInv, Fits
  <2>2. op' = op \/ op' = [op EXCEPT !.disturbed = TRUE]
    BY DEF DesktopExits, ContainerLost, TagMoves, ImageRemoved, Disturb
  <2> QED
    BY <2>1, <2>2 DEF Operations
<1>2. /\ UNCHANGED <<profile, network, backups, home, writer, truth>>
      /\ Running' => Running
  BY DEF DesktopExits, ContainerLost, TagMoves, ImageRemoved, stopContainer,
     removeContainer, Running, IInv, WorldOK, WorldTypeOK, Containers
<1>3. Returning'
  BY <1>1, <1>2 DEF Story, Returning
<1>4. ASSUME Patient PROVE Reading'
  BY <1>1, <1>2, <1>4 DEF Story, Reading, CopiesAreConsistent
<1> QED
  BY <1>2, <1>3, <1>4 DEF Story, Patient

\* A project's container that starts, or one that stops when no command is
\* under way, and a volume that is lost.
LEMMA WriterKeeps ==
  ASSUME IInv, Story, WriterStarts \/ WriterStops \/ HomeLost
  PROVE  Story'
<1>1. UNCHANGED <<profile, network, backups, container, op>>
  BY DEF WriterStarts, WriterStops, HomeLost
<1>2. home'[profile.home] = truth'
  BY DEF Story, WriterStarts, WriterStops, HomeLost, IInv, WorldOK,
     WorldTypeOK, Profiles
<1>3. Returning'
  BY <1>1 DEF Story, Returning
<1>4. ASSUME Patient PROVE Reading'
  <2>1. CASE WriterStarts
    BY <1>1, <1>4, <2>1, ConstantsAssumption
       DEF Story, Reading, CopiesAreConsistent, Running, WriterStarts,
           ConstantsAssumption, IInv, Fits, OnSavedProfile, WorldOK,
           WorldTypeOK, Profiles
  <2>2. CASE WriterStops \/ HomeLost
    <3>1. op.pc = "idle" /\ (truth' = truth \/ truth' = Absent)
      BY <1>4, <2>2 DEF Patient, WriterStops, HomeLost, Idle
    <3> QED
      BY <1>1, <1>4, <3>1 DEF Story, Reading, CopiesAreConsistent, Copied,
         Restore, Extract, Switch, Snapshot
  <2> QED
    BY <2>1, <2>2, <1>4
<1> QED
  BY <1>1, <1>2, <1>3, <1>4 DEF Story, Patient

(***************************************************************************)
(* backup, also when an update calls it, and the stop before it.           *)
(***************************************************************************)
\* A backup that ends goes on calmly.
LEMMA BackupTurns ==
  ASSUME op \in Operations
  PROVE  Turn(backupFails) /\ Turn(backupReturns)
<1>1. /\ Turn(Done(TRUE)) /\ Turn(Done(FALSE)) /\ Turn(At("update.resume"))
      /\ Turn(At("image.remove")) /\ Turn(At("start.observe"))
  BY Turns DEF Calm, Labels, Copied, Restored, Restore, Extract, Switch
<1> QED
  BY <1>1 DEF backupFails, backupReturns

\* What At leaves of the command beyond AtKeeps.
LEMMA AtLeaves ==
  ASSUME op \in Operations, NEW l \in Labels
  PROVE  /\ At(l).net = op.net /\ At(l).net0 = op.net0 /\ At(l).ok = op.ok
         /\ At(l).disturbed = op.disturbed
  BY DEF At, Operations

\* A look at the world that decides what is copied: the world is the same, and
\* the command is at the next label of the copy, or the backup has failed.
LEMMA CopyStep ==
  ASSUME IInv, Story, op.pc \notin Course, UNCHANGED world,
         NEW o \in Operations, op' = o, o.cmd = op.cmd, o.p = op.p,
         o.pc \in Copied \cup {"backup.copy"},
         Patient =>
             /\ ~Running
             /\ o.pc = "backup.copying" =>
                    /\ o.copy \in Version
                    /\ home[o.p.home] = o.copy \/ writer = o.p.home
             /\ o.pc = "backup.recheck" => o.copy \in Version \/ writer = o.p.home
             /\ o.pc = "backup.publish" => o.copy \in Version
  PROVE  Story'
<1>1. op'.cmd # "restore"
  BY DEF Story, Returning
<1>2. Returning'
  BY <1>1 DEF Returning, Copied, Restored, Restore, Extract, Switch
<1>3. op'.pc \notin Restore \cup {"restore.volume"} \cup Snapshot
  BY DEF Copied, Restore, Extract, Switch, Snapshot
<1>4. Running' <=> Running
  BY DEF world, Running
<1>5. ASSUME Patient PROVE Reading'
  BY <1>3, <1>4, <1>5 DEF Story, Reading, CopiesAreConsistent, world
<1> QED
  BY <1>2, <1>5 DEF Story, Patient, world

\* The second look found no container on the volume, the installation's own
\* included.
LEMMA NobodyRuns ==
  ASSUME IInv, op.p = profile, ~otherVolumeWriters(op.p.home, FALSE)
  PROVE  ~Running /\ writer # op.p.home
  BY DEF otherVolumeWriters, Running, IInv, WorldOK, RuntimeIsSelected

\* The stop before a copy (backup.go 181-260).
LEMMA StopForCopy ==
  ASSUME IInv, Story, op.cmd # "restore", stopForSnapshot
  PROVE  Story'
<1>0. /\ op \in Operations /\ op.p = profile
      /\ Turn(backupFails) /\ snapshotFails = backupFails
      /\ Turn(At("snapshot.stop")) /\ Turn(At("snapshot.recheck"))
  <2>1. op \in Operations
    BY DEF IInv, Fits
  <2>2. op.p = profile
    BY DEF IInv, Fits, OnSavedProfile, stopForSnapshot, snapshotWriters,
       snapshotStop, snapshotRecheck
  <2>3. Turn(At("snapshot.stop")) /\ Turn(At("snapshot.recheck"))
    BY <2>1, Turns DEF Calm, Labels, Copied, Restored, Restore, Extract, Switch
  <2> QED
    BY <2>1, <2>2, <2>3, BackupTurns DEF snapshotFails
<1>1. ASSUME snapshotWriters \/ snapshotStop PROVE Story'
  <2>1. Steady
    BY <1>1, Elsewise DEF snapshotWriters, snapshotStop, Observe, Docker,
       stopContainer, world
  <2>2. \/ op' = snapshotFails \/ Faulty(snapshotFails)
        \/ op' = At("snapshot.stop") \/ op' = At("snapshot.recheck")
    BY <1>1 DEF snapshotWriters, snapshotStop, Observe, Docker
  <2> QED
    BY <1>0, <2>1, <2>2, CalmOther
<1>2. ASSUME snapshotRecheck PROVE Story'
  <2>1. UNCHANGED world
    BY <1>2 DEF snapshotRecheck, Observe
  <2>2. Steady
    BY <2>1, Elsewise DEF world
  <2>3. CASE op' = snapshotFails \/ Faulty(snapshotFails)
    BY <1>0, <2>2, <2>3, CalmOther
  <2>4. CASE /\ ~otherVolumeWriters(op.p.home, FALSE)
             /\ op' = At("backup.copy")
    <3> DEFINE o == At("backup.copy")
    <3>1. o \in Operations /\ o.cmd = op.cmd /\ o.p = op.p
          /\ o.pc = "backup.copy"
      BY <1>0, AtKeeps DEF Labels
    <3> HIDE DEF o
    <3>2. ~Running
      BY <1>0, <2>4, NobodyRuns
    <3>3. op'.cmd # "restore" /\ op'.pc = "backup.copy"
      BY <2>4, <3>1 DEF o
    <3>4. Returning'
      BY <3>3 DEF Returning, Restored, Restore, Extract, Switch
    <3>5. ASSUME Patient PROVE Reading'
      <4>1. Running' <=> Running
        BY <2>1 DEF Running, world
      <4> QED
        BY <2>1, <3>2, <3>3, <3>5, <4>1 DEF Story, Reading, Copied,
           CopiesAreConsistent, Restore, Extract, Switch, Snapshot, world
    <3> QED
      BY <2>1, <3>4, <3>5 DEF Story, Patient, world
  <2> QED
    BY <1>2, <2>3, <2>4 DEF snapshotRecheck, Observe
<1> QED
  BY <1>1, <1>2 DEF stopForSnapshot

\* What retention keeps of whole copies are whole copies.
LEMMA NewestAreWhole ==
  ASSUME NEW s \in Seq(Copies), \A i \in DOMAIN s : s[i].data \in Version
  PROVE  \A i \in DOMAIN newest(s) : newest(s)[i].data \in Version
<1> DEFINE S == {b \in Copies : b.data \in Version}
           m == IF Len(s) > 2 THEN Len(s) - 1 ELSE 1
<1>1. Len(s) \in Nat /\ DOMAIN s = 1 .. Len(s)
  BY LenProperties
<1>2. m \in Int /\ Len(s) \in Int /\ \A i \in m .. Len(s) : s[i] \in S
  BY <1>1
<1> HIDE DEF S, m
<1>3. SubSeq(s, m, Len(s)) \in Seq(S)
  BY <1>2, SubSeqProperties
<1>4. newest(s) \in Seq(S)
  BY <1>3 DEF newest, m
<1>5. \A i \in DOMAIN newest(s) : newest(s)[i] \in S
  BY <1>4
<1> QED
  BY <1>5 DEF S

\* backup, call by call: files that change under tar were changed by a
\* project's container, which the look after it finds (backup.go 381-458).
LEMMA BackupKeeps ==
  ASSUME IInv, Story, backup
  PROVE  Story'
<1>0. /\ op \in Operations /\ op.pc \notin Course /\ op.cmd # "restore"
      /\ op.p = profile /\ profile \in Profiles
      /\ container \in Containers \cup {None}
      /\ backups \in Seq(Copies)
      /\ Turn(backupFails) /\ Turn(backupReturns)
  <2>1. /\ op \in Operations /\ profile \in Profiles
        /\ container \in Containers \cup {None} /\ backups \in Seq(Copies)
    BY DEF IInv, Fits, WorldOK, WorldTypeOK
  <2>2. op.pc \in {"backup.observe", "backup.copy", "backup.copying",
                   "backup.recheck", "backup.publish", "backup.prune"}
    BY DEF backup, backupObserve, backupCopy, backupCopying, backupRecheck,
       backupPublish, backupPrune
  <2>3. op.pc \notin Course /\ op.p = profile
    BY <2>2 DEF Course, Snapshot, Restore, Extract, Switch, IInv, Fits,
       OnSavedProfile
  <2>4. op.cmd # "restore"
    BY <2>3 DEF Story, Returning
  <2> QED
    BY <2>1, <2>3, <2>4, BackupTurns
<1>1. ASSUME UNCHANGED world, op' = backupFails \/ Faulty(backupFails)
      PROVE  Story'
  BY <1>0, <1>1, CalmlyAlone
<1>2. ASSUME backupObserve PROVE Story'
  <2> DEFINE o == [[op EXCEPT !.seen = container] EXCEPT !.pc = "snapshot.writers"]
  <2>1. o \in Operations
    BY <1>0, Fields DEF Labels
  <2>2. o.cmd = op.cmd /\ o.pc = "snapshot.writers"
    BY <1>0 DEF Operations
  <2>3. Turn(o)
    BY <2>1, <2>2 DEF Turn, Calm, Labels, Copied, Restored, Restore, Extract, Switch
  <2>4. UNCHANGED world /\ \/ op' = o \/ op' = backupFails
                           \/ Faulty(backupFails)
    BY <1>2 DEF backupObserve, Observe
  <2> QED
    BY <1>0, <1>1, <2>3, <2>4, CalmlyAlone
<1>3. ASSUME backupCopy PROVE Story'
  <2> DEFINE o == [[[op EXCEPT !.copy = home[op.p.home]]
                      EXCEPT !.net = network] EXCEPT !.pc = "backup.copying"]
  <2>1. /\ home[op.p.home] \in Content /\ network \in Nets \cup {None}
        /\ home[op.p.home] = truth
    BY <1>0, <1>3 DEF backupCopy, IInv, Fits, Gathered, Copy, WorldOK,
       WorldTypeOK, Profiles, Story
  <2>2. o \in Operations
    BY <1>0, <2>1, Fields DEF Labels
  <2>3. /\ o.cmd = op.cmd /\ o.p = op.p /\ o.pc = "backup.copying"
        /\ o.copy = home[op.p.home]
    BY <1>0 DEF Operations
  <2>4. UNCHANGED world /\ (op' = o \/ Faulty(backupFails))
    BY <1>3 DEF backupCopy, Observe
  <2> HIDE DEF o
  <2>5. ASSUME Patient PROVE ~Running /\ o.copy \in Version
    BY <1>3, <2>1, <2>3, <2>5, ConstantsAssumption DEF backupCopy, Story,
       Reading, ConstantsAssumption
  <2>6. CASE op' = o
    BY <1>0, <2>2, <2>3, <2>4, <2>5, <2>6, CopyStep DEF Copied
  <2> QED
    BY <1>1, <2>4, <2>6
<1>4. ASSUME backupCopying PROVE Story'
  <2> DEFINE c == IF home[op.p.home] = op.copy THEN op.copy ELSE Torn
             o == [[op EXCEPT !.copy = c] EXCEPT !.pc = "backup.recheck"]
  <2>1. c \in Content
    BY <1>0, <1>4 DEF backupCopying, IInv, Fits, Gathered, Copied, Content
  <2>2. o \in Operations
    BY <1>0, <2>1, Fields DEF Labels
  <2>3. /\ o.cmd = op.cmd /\ o.p = op.p /\ o.pc = "backup.recheck"
        /\ o.copy = c
    BY <1>0 DEF Operations
  <2>4. UNCHANGED world /\ (op' = o \/ Faulty(backupFails))
    BY <1>4 DEF backupCopying, Observe
  <2>5. ASSUME Patient
        PROVE  ~Running /\ (c \in Version \/ writer = op.p.home)
    BY <1>4, <2>5 DEF backupCopying, Story, Reading, Copied
  <2> HIDE DEF o, c
  <2>6. CASE op' = o
    BY <1>0, <2>2, <2>3, <2>4, <2>5, <2>6, CopyStep DEF Copied
  <2> QED
    BY <1>1, <2>4, <2>6
<1>5. ASSUME backupRecheck PROVE Story'
  <2> DEFINE o == At("backup.publish")
  <2>1. /\ o \in Operations /\ o.cmd = op.cmd /\ o.p = op.p
        /\ o.pc = "backup.publish" /\ o.copy = op.copy
    BY <1>0, AtKeeps DEF Labels
  <2>2. UNCHANGED world
    BY <1>5 DEF backupRecheck, Observe
  <2> HIDE DEF o
  <2>3. CASE ~otherVolumeWriters(op.p.home, FALSE) /\ op' = o
    <3>1. ~Running /\ writer # op.p.home
      BY <1>0, <2>3, NobodyRuns
    <3>2. ASSUME Patient PROVE o.copy \in Version
      BY <1>5, <2>1, <3>1, <3>2 DEF backupRecheck, Story, Reading
    <3> QED
      BY <1>0, <2>1, <2>2, <2>3, <3>1, <3>2, CopyStep DEF Copied
  <2> QED
    BY <1>1, <1>5, <2>2, <2>3 DEF backupRecheck, Observe, o
<1>6. ASSUME backupPublish PROVE Story'
  <2> DEFINE o == At("backup.prune")
             b == [own |-> TRUE, image |-> snapshotImage, data |-> op.copy,
                   net |-> op.net, applied |-> applied[op.p.home]]
  <2>1. o.cmd = op.cmd /\ o.pc = "backup.prune"
    BY <1>0, AtKeeps DEF Labels
  <2>2. b.data = op.copy
    OBVIOUS
  <2> HIDE DEF o, b
  <2>3. CASE /\ backups' = Append(backups, b) /\ op' = o
             /\ UNCHANGED <<profile, network, container, home, writer, truth>>
    <3>1. Returning'
      BY <1>0, <2>1, <2>3 DEF Returning, Restored, Restore, Extract, Switch
    <3>2. ASSUME Patient PROVE Reading'
      <4>1. op.copy \in Version
        BY <1>6, <3>2 DEF backupPublish, Story, Reading
      <4>2. \A i \in DOMAIN backups' : backups'[i].data \in Version
        <5>1. ASSUME NEW i \in DOMAIN backups'
              PROVE  \/ i \in DOMAIN backups /\ backups'[i] = backups[i]
                     \/ backups'[i] = b
          BY <1>0, <2>3, <5>1
        <5> QED
          BY <2>2, <3>2, <4>1, <5>1 DEF Story, Reading, CopiesAreConsistent
      <4> QED
        BY <2>1, <2>3, <3>2, <4>2 DEF Story, Reading, CopiesAreConsistent,
           Copied, Restore, Extract, Switch, Snapshot
    <3> QED
      BY <2>3, <3>1, <3>2 DEF Story, Patient
  <2> QED
    BY <1>1, <1>6, <2>3 DEF backupPublish, WriteFile, o, b
<1>7. ASSUME backupPrune PROVE Story'
  <2>1. CASE /\ backups' = newest(backups) /\ op' = backupReturns
             /\ UNCHANGED <<profile, network, container, home, writer, truth>>
    <3>1. op'.cmd # "restore" /\ op'.pc \in Calm
      BY <1>0, <2>1 DEF Turn
    <3>2. Returning'
      BY <3>1 DEF Returning, Calm
    <3>3. ASSUME Patient PROVE Reading'
      <4>1. CopiesAreConsistent'
        BY <1>0, <2>1, <3>3, NewestAreWhole DEF Story, Reading,
           CopiesAreConsistent
      <4> QED
        BY <2>1, <3>1, <3>3, <4>1 DEF Story, Reading, Calm, Copied,
           Restored, Restore, Extract, Switch
    <3> QED
      BY <2>1, <3>2, <3>3 DEF Story, Patient
  <2> QED
    BY <1>1, <1>7, <2>1 DEF backupPrune
<1> QED
  BY <1>2, <1>3, <1>4, <1>5, <1>6, <1>7 DEF backup

(***************************************************************************)
(* restore and its deferred undo.                                          *)
(***************************************************************************)
\* The command a step of a restore goes on with knows what the network was,
\* and where it came from.
Going(o) ==
    /\ o \in Operations /\ o.cmd = "restore" /\ o.pc \in Course
    /\ ~o.disturbed =>
           /\ o.pc \in Untouched => network' = o.net0
           /\ o.pc \in Switch \cup {"restore.undoNetwork"} => o.net = o.net0
           /\ o.pc = "done" /\ ~o.ok => network' = o.net0 /\ profile' = o.p
    /\ Patient /\ o.pc \in Restore \cup {"restore.volume"} \cup Snapshot
           => o.src.data \in Version

\* Such a step keeps Story when it stores no copy, and leaves the profile's
\* volume with what was saved or restored last.
LEMMA RestoreStep ==
  ASSUME IInv, Story, NEW o, Going(o), op' = o \/ Faulty(o),
         backups' = backups, home'[profile'.home] = truth',
         Patient => truth' \in Version \cup {Absent}
  PROVE  Story'
<1>1. op \in Operations /\ o \in Operations
  BY DEF IInv, Fits, Going
<1>2. /\ op'.pc = o.pc /\ op'.cmd = o.cmd /\ op'.p = o.p
      /\ op'.src = o.src /\ op'.net = o.net /\ op'.net0 = o.net0
      /\ op'.disturbed = o.disturbed /\ op'.ok = o.ok
  BY <1>1, Faulted
<1>3. Returning'
  BY <1>2 DEF Returning, Going
<1>4. op'.pc \notin Copied \cup {"backup.copy"}
  BY <1>2 DEF Going, Course, Copied, Snapshot, Restore, Extract, Switch
<1>5. ASSUME Patient PROVE Reading'
  BY <1>2, <1>4, <1>5 DEF Story, Reading, CopiesAreConsistent, Going, Copied
<1> QED
  BY <1>3, <1>5 DEF Story, Patient

\* The same, where the personal files and the profile are left alone.
LEMMA RestoreAlone ==
  ASSUME IInv, Story, NEW o, Going(o), op' = o \/ Faulty(o),
         UNCHANGED <<profile, backups, truth>>,
         home'[profile.home] = home[profile.home]
  PROVE  Story'
<1>1. Patient => truth' \in Version \cup {Absent}
  BY DEF Story, Reading
<1> QED
  BY <1>1, RestoreStep DEF Story

\* What the steps of a restore have in common.
LEMMA OnCourse ==
  ASSUME IInv, Story, op.cmd = "restore"
  PROVE  /\ op \in Operations
         /\ \A l \in Labels :
                /\ At(l) \in Operations /\ At(l).pc = l /\ At(l).p = op.p
                /\ At(l).cmd = "restore" /\ At(l).src = op.src
                /\ At(l).net = op.net /\ At(l).net0 = op.net0
                /\ At(l).disturbed = op.disturbed
         /\ \A ok \in BOOLEAN :
                /\ Done(ok) \in Operations /\ Done(ok).pc = "done"
                /\ Done(ok).cmd = "restore" /\ Done(ok).ok = ok
                /\ Done(ok).p = op.p /\ Done(ok).net0 = op.net0
                /\ Done(ok).disturbed = op.disturbed
<1>1. op \in Operations
  BY DEF IInv, Fits
<1>2. ASSUME NEW l \in Labels
      PROVE  /\ At(l) \in Operations /\ At(l).pc = l /\ At(l).p = op.p
             /\ At(l).cmd = "restore" /\ At(l).src = op.src
             /\ At(l).net = op.net /\ At(l).net0 = op.net0
             /\ At(l).disturbed = op.disturbed
  BY <1>1, AtKeeps, AtLeaves
<1>3. ASSUME NEW ok \in BOOLEAN
      PROVE  /\ Done(ok) \in Operations /\ Done(ok).pc = "done"
             /\ Done(ok).cmd = "restore" /\ Done(ok).ok = ok
             /\ Done(ok).p = op.p /\ Done(ok).net0 = op.net0
             /\ Done(ok).disturbed = op.disturbed
  <2>1. Done(ok) \in Operations
    BY <1>1, <1>3, Fields DEF Done, Labels
  <2> QED
    BY <1>1, <2>1 DEF Done, Operations
<1> QED
  BY <1>1, <1>2, <1>3

\* The labels of a restore, as Story knows them.
Along == {"snapshot.stop", "snapshot.recheck", "restore.volume",
          "restore.extract", "restore.extracting", "restore.undoVolume"}

\* A restore that has not reached the network goes on, or gives up as it was.
LEMMA EarlyGoing ==
  ASSUME IInv, Story, op.cmd = "restore", op.pc \in Untouched,
         op.pc # "restore.read", op.p = profile, UNCHANGED <<profile, network>>
  PROVE  Going(Done(FALSE)) /\ \A l \in Along : Going(At(l))
<1>1. ~op.disturbed => network = op.net0
  BY DEF Story, Returning
<1>2. Patient => op.src.data \in Version
  BY DEF Story, Reading, Untouched, Snapshot, Extract, Restore, Switch
<1>3. Going(Done(FALSE))
  BY <1>1, OnCourse DEF Going, Course, Untouched, Snapshot, Extract, Restore,
     Switch
<1>4. ASSUME NEW l \in Along PROVE Going(At(l))
  <2>1. /\ l \in Labels /\ l \in Course
        /\ l \notin Switch \cup {"restore.undoNetwork", "done"}
    BY <1>4 DEF Along, Labels, Course, Snapshot, Restore, Extract, Switch
  <2> QED
    BY <1>1, <1>2, <2>1, OnCourse DEF Going
<1> QED
  BY <1>3, <1>4

\* The stop before a restore (backup.go 181-260).
LEMMA StopForRestore ==
  ASSUME IInv, Story, op.cmd = "restore", stopForSnapshot
  PROVE  Story'
<1>1. op.pc \in Snapshot /\ op.p = profile
  BY DEF stopForSnapshot, snapshotWriters, snapshotStop, snapshotRecheck,
     Snapshot, IInv, Fits, OnSavedProfile
<1>2. UNCHANGED <<profile, network, backups, home, truth>>
  BY DEF stopForSnapshot, snapshotWriters, snapshotStop, snapshotRecheck,
     Observe, Docker, stopContainer, world
<1>3. Going(Done(FALSE)) /\ \A l \in Along : Going(At(l))
  BY <1>1, <1>2, EarlyGoing DEF Untouched, Snapshot
<1>4. \/ op' = Done(FALSE) \/ Faulty(Done(FALSE))
      \/ \E l \in Along : op' = At(l)
  BY DEF stopForSnapshot, snapshotWriters, snapshotStop, snapshotRecheck,
     Observe, Docker, snapshotFails, Along
<1> QED
  BY <1>2, <1>3, <1>4, RestoreAlone

\* What is read is a copy of this installation or of another.
LEMMA ReadKeeps ==
  ASSUME IInv, Story, restoreRead
  PROVE  Story'
<1>1. /\ op \in Operations /\ op.cmd = "restore" /\ op.p = profile
      /\ container \in Containers \cup {None} /\ backups \in Seq(Copies)
      /\ ~op.disturbed => network = op.net0
  BY DEF IInv, Fits, Gathered, OnSavedProfile, restoreRead, WorldOK,
     WorldTypeOK, Story, Returning, Untouched
<1>2. UNCHANGED world
  BY DEF restoreRead, Observe
<1>3. Going(Done(FALSE))
  BY <1>1, <1>2, OnCourse DEF Going, Course, Untouched, Snapshot, Extract,
     Restore, Switch, world
<1>4. ASSUME NEW b \in ToSet(backups) \cup OtherBackups
      PROVE  Going([op EXCEPT !.seen = container, !.src = b,
                              !.pc = "snapshot.writers"])
  <2> DEFINE o == [[[op EXCEPT !.seen = container] EXCEPT !.src = b]
                      EXCEPT !.pc = "snapshot.writers"]
  <2>1. b \in Copies
    BY <1>1, <1>4, ConstantsAssumption DEF ToSet, ConstantsAssumption
  <2>2. Patient => b.data \in Version
    BY <1>4 DEF Story, Patient, Reading, CopiesAreConsistent, ToSet
  <2>3. o \in Operations
    BY <1>1, <2>1, Fields DEF Labels
  <2>4. /\ o.pc = "snapshot.writers" /\ o.src = b /\ o.cmd = op.cmd
        /\ o.net0 = op.net0 /\ o.disturbed = op.disturbed
    BY <1>1 DEF Operations
  <2> HIDE DEF o
  <2>5. Going(o)
    BY <1>1, <1>2, <2>2, <2>3, <2>4 DEF Going, Course, Snapshot, Switch, world
  <2> QED
    BY <2>5 DEF o
<1>5. \/ op' = Done(FALSE) \/ Faulty(Done(FALSE))
      \/ \E b \in ToSet(backups) \cup OtherBackups :
             op' = [op EXCEPT !.seen = container, !.src = b,
                              !.pc = "snapshot.writers"]
  BY DEF restoreRead, Observe
<1> QED
  BY <1>2, <1>3, <1>4, <1>5, RestoreAlone DEF world

\* The new volume is created, filled, and removed when the restore is undone:
\* it is not the profile's (backup.go 521-547).
LEMMA VolumeKeeps ==
  ASSUME IInv, Story, op.cmd = "restore",
         restoreVolume \/ restoreExtract \/ restoreUndoVolume
  PROVE  Story'
<1>1. /\ op.p = profile /\ op.pc \in Untouched /\ op.pc # "restore.read"
      /\ op \in Operations /\ profile.home \in Vols
      /\ home \in [Vols -> Content \cup {Absent}]
      /\ op.pc \in Restore => op.vol # profile.home
  BY RestoreKnows DEF restoreVolume, restoreExtract, restoreUndoVolume,
     Untouched, Extract, Restore
<1>2. UNCHANGED <<profile, network, backups, truth>>
  BY DEF restoreVolume, restoreExtract, restoreUndoVolume, Docker, setVolume,
     world
<1>3. home'[profile.home] = home[profile.home]
  BY <1>1 DEF restoreVolume, restoreExtract, restoreUndoVolume, Docker,
     setVolume, world, Restore, Extract
<1>4. Going(Done(FALSE)) /\ \A l \in Along : Going(At(l))
  BY <1>1, <1>2, EarlyGoing
<1>5. CASE restoreVolume
  <2>1. ASSUME NEW v \in Vols
        PROVE  Going([op EXCEPT !.vol = v, !.pc = "restore.extract"])
    <3> DEFINE n == [op EXCEPT !.vol = v]
               o == [n EXCEPT !.pc = "restore.extract"]
    <3>1. n \in Operations
      BY <1>1, <2>1, Fields
    <3>2. /\ n.src = op.src /\ n.cmd = op.cmd /\ n.net0 = op.net0
          /\ n.disturbed = op.disturbed
      BY <1>1 DEF Operations
    <3> HIDE DEF n
    <3>3. o \in Operations
      BY <3>1, Fields DEF Labels
    <3>4. /\ o.pc = "restore.extract" /\ o.src = op.src /\ o.cmd = "restore"
          /\ o.net0 = op.net0 /\ o.disturbed = op.disturbed
      BY <3>1, <3>2 DEF Operations
    <3>5. ~op.disturbed => network' = op.net0
      BY <1>1, <1>2 DEF Story, Returning
    <3>6. Patient => op.src.data \in Version
      BY <1>5 DEF restoreVolume, Story, Reading
    <3> HIDE DEF o
    <3>7. Going(o)
      BY <3>3, <3>4, <3>5, <3>6 DEF Going, Course, Restore, Extract, Switch
    <3> QED
      BY <3>7 DEF o, n
  <2>2. \/ Faulty(Done(FALSE))
        \/ \E v \in Vols : op' = [op EXCEPT !.vol = v, !.pc = "restore.extract"]
    BY <1>5 DEF restoreVolume, Docker
  <2> QED
    BY <1>2, <1>3, <1>4, <2>1, <2>2, RestoreAlone
<1>6. CASE restoreExtract
  <2>1. \/ op' = At("restore.extracting") \/ Faulty(At("restore.undoVolume"))
    BY <1>6 DEF restoreExtract, Docker
  <2> QED
    BY <1>2, <1>3, <1>4, <2>1, RestoreAlone DEF Along
<1>7. CASE restoreUndoVolume
  <2>1. op' = Done(FALSE) \/ Faulty(Done(FALSE))
    BY <1>7 DEF restoreUndoVolume, Docker
  <2> QED
    BY <1>2, <1>3, <1>4, <2>1, RestoreAlone
<1> QED
  BY <1>5, <1>6, <1>7

\* Before the copy's network file is put in place the present one is kept
\* (backup.go 548-552).
LEMMA ExtractingKeeps ==
  ASSUME IInv, Story, op.cmd = "restore", restoreExtracting
  PROVE  Story'
<1>1. /\ op.p = profile /\ op.pc = "restore.extracting" /\ op \in Operations
      /\ profile.home \in Vols /\ home \in [Vols -> Content \cup {Absent}]
      /\ op.vol # profile.home /\ network \in Nets \cup {None}
  BY RestoreKnows DEF restoreExtracting, Extract, Restore
<1>2. UNCHANGED <<profile, network, backups, truth>>
      /\ home'[profile.home] = home[profile.home]
  BY <1>1 DEF restoreExtracting, Docker, setVolume, world
<1>3. Going(At("restore.undoVolume"))
  BY <1>1, <1>2, EarlyGoing DEF Untouched, Extract, Along
<1>4. Going([op EXCEPT !.net = network, !.pc = "restore.files"])
  <2> DEFINE n == [op EXCEPT !.net = network]
             o == [n EXCEPT !.pc = "restore.files"]
  <2>1. n \in Operations
    BY <1>1, Fields
  <2>2. /\ n.src = op.src /\ n.cmd = op.cmd /\ n.net0 = op.net0
        /\ n.disturbed = op.disturbed /\ n.net = network
    BY <1>1 DEF Operations
  <2> HIDE DEF n
  <2>3. o \in Operations
    BY <2>1, Fields DEF Labels
  <2>4. /\ o.pc = "restore.files" /\ o.src = op.src /\ o.cmd = "restore"
        /\ o.net0 = op.net0 /\ o.disturbed = op.disturbed /\ o.net = network
    BY <2>1, <2>2 DEF Operations
  <2>5. ~op.disturbed => network = op.net0
    BY <1>1 DEF Story, Returning, Untouched, Extract
  <2>6. Patient => op.src.data \in Version
    BY <1>1 DEF Story, Reading, Extract, Restore
  <2> HIDE DEF o
  <2>7. Going(o)
    BY <1>2, <2>3, <2>4, <2>5, <2>6 DEF Going, Course, Restore, Switch
  <2> QED
    BY <2>7 DEF o, n
<1>5. \/ op' = [op EXCEPT !.net = network, !.pc = "restore.files"]
      \/ Faulty(At("restore.undoVolume"))
  BY DEF restoreExtracting, Docker
<1> QED
  BY <1>2, <1>3, <1>4, <1>5, RestoreAlone

\* From here on the network that was is in op.net.
LEMMA LateGoing ==
  ASSUME IInv, Story, op.cmd = "restore",
         op.pc \in Switch \cup {"restore.undoNetwork"}
  PROVE  /\ Going(At("restore.remove")) /\ Going(At("restore.commit"))
         /\ Going(At("restore.cleanup")) /\ Going(At("restore.undoNetwork"))
<1>1. ~op.disturbed => op.net = op.net0
  BY DEF Story, Returning
<1>2. Patient => op.src.data \in Version
  BY DEF Story, Reading, Restore
<1>3. ASSUME NEW l \in {"restore.remove", "restore.commit",
                        "restore.cleanup", "restore.undoNetwork"}
      PROVE  Going(At(l))
  <2>1. l \in Labels /\ l \in Course /\ l \notin Untouched \cup {"done"}
    BY <1>3 DEF Labels, Course, Untouched, Snapshot, Restore, Extract, Switch
  <2> QED
    BY <1>1, <1>2, <2>1, OnCourse DEF Going
<1> QED
  BY <1>3

\* The copy's network file takes its place, and the container is removed
\* (backup.go 553-566).
LEMMA SwitchKeeps ==
  ASSUME IInv, Story, op.cmd = "restore", restoreFiles \/ restoreRemove
  PROVE  Story'
<1>1. op.pc \in Switch
  BY DEF restoreFiles, restoreRemove, Switch
<1>2. UNCHANGED <<profile, backups, home, truth>>
  BY DEF restoreFiles, restoreRemove, Observe, Docker, saveNetwork,
     removeContainer, world
<1>3. \/ op' = At("restore.remove") \/ op' = At("restore.commit")
      \/ op' = At("restore.undoNetwork") \/ Faulty(At("restore.undoNetwork"))
  BY DEF restoreFiles, restoreRemove, Observe, Docker
<1> QED
  BY <1>1, <1>2, <1>3, LateGoing, RestoreAlone

\* The new profile names the volume that holds the copy's files
\* (backup.go 567-578).
LEMMA CommitKeeps ==
  ASSUME IInv, Story, op.cmd = "restore", restoreCommit
  PROVE  Story'
<1>1. /\ op.pc \in Switch /\ home[op.vol] = op.src.data
      /\ op.p = profile
  BY RestoreKnows DEF restoreCommit, Switch, Restore
<1>2. CASE /\ profile' = [image |-> op.src.image, home |-> op.vol]
           /\ truth' = op.src.data /\ UNCHANGED <<backups, home>>
           /\ op' = At("restore.cleanup")
  <2>1. home'[profile'.home] = truth'
    BY <1>1, <1>2
  <2>2. Patient => truth' \in Version
    BY <1>1, <1>2 DEF Story, Reading, Restore
  <2> QED
    BY <1>1, <1>2, <2>1, <2>2, LateGoing, RestoreStep
<1>3. CASE UNCHANGED world /\ Faulty(At("restore.undoNetwork"))
  BY <1>1, <1>3, LateGoing, RestoreAlone DEF world
<1> QED
  BY <1>2, <1>3 DEF restoreCommit, WriteFile

\* The volume removed last is not the profile's any more (backup.go 579-591).
LEMMA CleanupKeeps ==
  ASSUME IInv, Story, op.cmd = "restore", restoreCleanup
  PROVE  Story'
<1>1. /\ op.p \in Profiles /\ op.p.home # profile.home
      /\ profile.home \in Vols /\ home \in [Vols -> Content \cup {Absent}]
  BY DEF restoreCleanup, IInv, Fits, Filling, WorldOK, WorldTypeOK, Profiles
<1>2. UNCHANGED <<profile, backups, truth>>
      /\ home'[profile.home] = home[profile.home]
  BY <1>1 DEF restoreCleanup, Docker, setVolume, world
<1>3. Going(Done(TRUE))
  BY OnCourse DEF Going, Course, Untouched, Snapshot, Extract, Restore, Switch
<1>4. op' = Done(TRUE) \/ Faulty(Done(TRUE))
  BY DEF restoreCleanup, Docker
<1> QED
  BY <1>2, <1>3, <1>4, RestoreAlone

\* The network that was is put back; when that fails the promise is off
\* (backup.go 529-547).
LEMMA UndoNetworkKeeps ==
  ASSUME IInv, Story, op.cmd = "restore", restoreUndoNetwork
  PROVE  Story'
<1> DEFINE o == At("restore.undoVolume")
           e == [o EXCEPT !.disturbed = TRUE]
<1>1. /\ op.pc = "restore.undoNetwork"
      /\ ~op.disturbed => op.net = op.net0
  BY DEF restoreUndoNetwork, Story, Returning
<1>2. Patient => op.src.data \in Version
  BY <1>1 DEF Story, Reading, Restore
<1>3. /\ o \in Operations /\ o.pc = "restore.undoVolume"
      /\ o.cmd = "restore" /\ o.src = op.src /\ o.net0 = op.net0
      /\ o.disturbed = op.disturbed
  BY OnCourse DEF Labels
<1> HIDE DEF o
<1>4. e \in Operations
  BY <1>3, Fields
<1>5. e.pc = o.pc /\ e.cmd = o.cmd /\ e.src = o.src /\ e.disturbed
  BY <1>3 DEF Operations
<1> HIDE DEF e
<1>6. CASE saveNetwork(op.net) /\ op' = o
  <2>1. Going(o)
    BY <1>1, <1>2, <1>3, <1>6 DEF Going, Course, Restore, Extract, Switch,
       saveNetwork
  <2> QED
    BY <1>6, <2>1, RestoreAlone DEF saveNetwork
<1>7. CASE UNCHANGED world /\ Faulty(e)
  <2>1. Going(e)
    BY <1>2, <1>3, <1>4, <1>5 DEF Going, Course, Restore, Extract
  <2> QED
    BY <1>7, <2>1, RestoreAlone DEF world
<1> QED
  BY <1>6, <1>7 DEF restoreUndoNetwork, WriteFile, e, o

\* Every call of a restore, and of its undo.
LEMMA RestoreKeeps ==
  ASSUME IInv, Story, restore
  PROVE  Story'
<1>1. op.pc \in Restored \cup {"restore.read"}
  BY DEF restore, restoreRead, restoreVolume, restoreExtract,
     restoreExtracting, restoreFiles, restoreRemove, restoreCommit,
     restoreCleanup, restoreUndoNetwork, restoreUndoVolume, Restored,
     Restore, Extract, Switch
<1>2. op.cmd = "restore"
  BY <1>1 DEF Story, Returning, IInv, Fits, Gathered
<1> QED
  BY <1>2, ReadKeeps, VolumeKeeps, ExtractingKeeps, SwitchKeeps, CommitKeeps,
     CleanupKeeps, UndoNetworkKeeps DEF restore

(***************************************************************************)
(* Story holds at the start and every step keeps it.                       *)
(***************************************************************************)
LEMMA StoryBegins ==
  ASSUME Init
  PROVE  Story
<1>1. op.pc = "idle" /\ op.cmd = "idle" /\ backups = << >>
  BY DEF Init, Idle
<1>2. home[profile.home] = truth /\ truth \in {0, Absent}
  BY ConstantsAssumption DEF Init, Installed, Older, ConstantsAssumption
<1>3. 0 \in Version
  BY ConstantsAssumption DEF ConstantsAssumption, Version
<1>4. Returning
  BY <1>1 DEF Returning, Restored, Restore, Extract, Switch
<1>5. CopiesAreConsistent
  BY <1>1 DEF CopiesAreConsistent
<1>6. Reading
  BY <1>1, <1>2, <1>3, <1>5 DEF Reading, Copied, Restore, Extract, Switch,
     Snapshot
<1> QED
  BY <1>2, <1>4, <1>6 DEF Story

LEMMA StoryGoesOn ==
  ASSUME IInv, Story, [Next]_vars
  PROVE  Story'
<1>1. CASE Step
  BY <1>1, StartKeeps, StopKeeps, StopForCopy, StopForRestore, BackupKeeps,
     RestoreKeeps, UpdateKeeps DEF Step
<1>2. CASE Around
  BY <1>2, SavingKeeps, AwayKeeps, WriterKeeps DEF Around
<1>3. CASE UNCHANGED vars
  <2>1. UNCHANGED world /\ op' = op
    BY <1>3 DEF vars
  <2> QED
    BY <2>1 DEF Story, Returning, Reading, CopiesAreConsistent, Running,
       Patient, world
<1> QED
  BY <1>1, <1>2, <1>3, BeginKeeps, EndKeeps DEF Next

LEMMA StoryHolds == Spec => []Story
<1>1. Init => Story
  BY StoryBegins
<1>2. IInv /\ Story /\ [Next]_vars => Story'
  BY StoryGoesOn
<1> QED
  BY <1>1, <1>2, Invariant, PTL DEF Spec

\* docs/backups.md 3, backup.go 381-439.  Every completed copy holds files as
\* the user saved them, never a half filled volume or a mix of two versions,
\* as long as a project's container that writes the volume outlives the
\* command and the copies of other installations are whole.
THEOREM CopiesAreWhole ==
  ASSUME "hasty" \notin Events, \A b \in OtherBackups : b.data \in Version
  PROVE  Spec => []CopiesAreConsistent
<1>1. Patient
  BY DEF Patient
<1>2. Story => CopiesAreConsistent
  BY <1>1 DEF Story, Reading
<1> QED
  BY <1>2, StoryHolds, PTL

\* backup.go 529-561.  A restore that ends in failure leaves the profile, the
\* network and the personal files as they were, at whatever call it failed.
THEOREM FailedRestoreIsUndone == Spec => []FailedRestoreChangesNothing
<1>1. Story => FailedRestoreChangesNothing
  BY DEF Story, Returning, FailedRestoreChangesNothing
<1> QED
  BY <1>1, StoryHolds, PTL

(***************************************************************************)
(* start recovers.                                                         *)
(***************************************************************************)
\* A command that differs from the one in progress in its label and outcome.
Same(o) ==
    /\ o.cmd = op.cmd /\ o.p = op.p /\ o.c = op.c /\ o.seen = op.seen
    /\ o.sel = op.sel /\ o.src = op.src /\ o.vol = op.vol
    /\ o.copy = op.copy /\ o.net = op.net /\ o.phase = op.phase
    /\ o.faults = op.faults /\ o.net0 = op.net0
    /\ o.applied0 = op.applied0 /\ o.disturbed = op.disturbed

\* At and Done change nothing else.
LEMMA Goes ==
  ASSUME op \in Operations
  PROVE  /\ \A l \in Labels :
                At(l) \in Operations /\ At(l).pc = l /\ Same(At(l))
         /\ \A ok \in BOOLEAN :
                /\ Done(ok) \in Operations /\ Done(ok).pc = "done"
                /\ Done(ok).ok = ok /\ Same(Done(ok))
<1>1. ASSUME NEW l \in Labels
      PROVE  At(l) \in Operations /\ At(l).pc = l /\ Same(At(l))
  BY <1>1, AtKeeps DEF At, Operations, Same
<1>2. ASSUME NEW ok \in BOOLEAN
      PROVE  /\ Done(ok) \in Operations /\ Done(ok).pc = "done"
             /\ Done(ok).ok = ok /\ Same(Done(ok))
  <2>1. Done(ok) \in Operations
    BY <1>2, Fields DEF Done, Labels
  <2> QED
    BY <2>1 DEF Done, Operations, Same
<1> QED
  BY <1>1, <1>2

\* An injected failure is counted, and leaves the rest.
LEMMA Counted ==
  ASSUME op \in Operations, NEW o \in Operations, Faulty(o)
  PROVE  /\ op'.faults # 0 /\ op'.pc = o.pc /\ op'.cmd = o.cmd /\ op'.p = o.p
         /\ op'.c = o.c /\ op'.seen = o.seen /\ op'.sel = o.sel
         /\ op'.copy = o.copy /\ op'.phase = o.phase /\ op'.ok = o.ok /\ op'.src = o.src
         /\ op'.applied0 = o.applied0 /\ op'.disturbed = o.disturbed
<1>1. op' = [o EXCEPT !.faults = op.faults + 1] /\ op.faults \in Nat
  BY DEF Faulty, Operations
<1> QED
  BY <1>1 DEF Operations

\* A start that meets a failure promises no more than to end.
LEMMA StartFailing ==
  ASSUME Recovering, op \in Operations, op.cmd = "start", Faulty(Done(FALSE))
  PROVE  Recovering'
<1>1. Done(FALSE) \in Operations /\ Done(FALSE).pc = "done"
      /\ Done(FALSE).cmd = "start" /\ Done(FALSE).phase = "before"
  BY Goes DEF Same, Recovering
<1> QED
  BY <1>1, Counted DEF Recovering

\* start, call by call, with no failure of its own and nothing taken away.
LEMMA StartRecovering ==
  ASSUME IInv, Recovering, op.cmd = "start", start
  PROVE  Recovering'
<1>0. /\ op \in Operations /\ op.p = profile /\ profile \in Profiles
      /\ container \in Containers \cup {None}
      /\ local \subseteq Images /\ registry \in Images
      /\ startFails = Done(FALSE) /\ startReturns = Done(TRUE)
      /\ op.phase = "before" /\ None \notin Images \cup Containers
  <2>1. op.pc \notin {"idle", "done", "restore.cleanup"}
    BY DEF start, startObserve, startAdopt, startResolve, startSelect,
       startVolume, startCreate, syncNetwork, startRun, startAwait
  <2>2. op \in Operations /\ op.p = profile
    BY <2>1 DEF IInv, Fits, OnSavedProfile
  <2>3. /\ profile \in Profiles /\ container \in Containers \cup {None}
        /\ local \subseteq Images /\ registry \in Images
    BY DEF IInv, WorldOK, WorldTypeOK
  <2>4. None \notin Images \cup Containers
    BY ConstantsAssumption DEF ConstantsAssumption
  <2> QED
    BY <2>2, <2>3, <2>4 DEF startFails, startReturns, Recovering
<1>1. ASSUME Faulty(startFails) PROVE Recovering'
  BY <1>0, <1>1, StartFailing
<1>2. /\ \A l \in Starts : At(l) \in Operations /\ At(l).pc = l /\ Same(At(l))
      /\ \A ok \in BOOLEAN : /\ Done(ok) \in Operations /\ Done(ok).pc = "done"
                             /\ Done(ok).ok = ok /\ Same(Done(ok))
  BY <1>0, Goes DEF Starts, Labels
<1>3. ASSUME startObserve PROVE Recovering'
  <2> DEFINE l == afterObserve(op.p, container)
             n == [op EXCEPT !.seen = container]
             o == [n EXCEPT !.pc = l]
  <2>1. l \in Starts /\ l \in Labels
    BY DEF afterObserve, Starts, Labels
  <2>2. n \in Operations /\ n.seen = container /\ n.cmd = "start" /\ n.phase = "before"
        /\ n.faults = op.faults /\ n.disturbed = op.disturbed
    BY <1>0, Fields DEF Operations
  <2> HIDE DEF n, l
  <2>3. /\ o.pc = l /\ o.seen = container /\ o.cmd = "start" /\ o.phase = "before"
        /\ o.faults = op.faults /\ o.disturbed = op.disturbed
    BY <2>1, <2>2 DEF Operations
  <2>4. UNCHANGED world /\ (op' = o \/ Faulty(startFails))
    BY <1>3 DEF startObserve, Observe, o, n, l
  <2> HIDE DEF o
  <2>5. CASE op' = o
    <3>1. /\ l = "start.network" => container # None
          /\ l = "start.await" => Running
          /\ l \in {"start.resolve", "start.adopt", "start.network",
                    "start.await"}
      BY <1>0 DEF l, afterObserve, Running
    <3> QED
      BY <2>1, <2>3, <2>4, <2>5, <3>1 DEF Recovering, Running, world
  <2> QED
    BY <1>1, <2>4, <2>5
<1>4. ASSUME startAdopt PROVE Recovering'
  <2> DEFINE p == [op.p EXCEPT !.image = op.seen.image]
             l == afterObserve(p, op.seen)
             n == [op EXCEPT !.p = p]
             o == [n EXCEPT !.pc = l]
  <2>1. op.seen \in Containers /\ op.seen.image \in Images /\ p \in Profiles
        /\ p.image = op.seen.image
    BY <1>0, <1>4 DEF startAdopt, IInv, Fits, Adopting, Containers, Profiles
  <2>2. /\ l \in {"start.network", "start.await"}
        /\ l = "start.await" => op.seen.running
    BY <1>0, <2>1 DEF afterObserve, Containers
  <2> HIDE DEF p
  <2>3. n \in Operations /\ n.cmd = "start" /\ n.phase = "before"
        /\ n.faults = op.faults /\ n.disturbed = op.disturbed
    BY <1>0, <2>1, Fields DEF Operations
  <2> HIDE DEF n, l
  <2>4. /\ o.pc = l /\ o.cmd = "start" /\ o.phase = "before"
        /\ o.faults = op.faults /\ o.disturbed = op.disturbed
    BY <2>2, <2>3 DEF Operations, Labels
  <2> HIDE DEF o
  <2>5. CASE saveProfile(p) /\ op' = o
    <3>1. container' = container
      BY <2>5 DEF saveProfile
    <3>2. op.faults = 0 /\ ~op.disturbed => op.seen = container
      BY <1>0, <1>4 DEF startAdopt, Recovering
    <3> QED
      BY <1>0, <2>1, <2>2, <2>4, <2>5, <3>1, <3>2
         DEF Recovering, Running, Starts
  <2> QED
    BY <1>1, <1>4, <2>5 DEF startAdopt, WriteFile, o, n, l, p
<1>5. ASSUME startResolve PROVE Recovering'
  <2>1. container = None /\ op.pc = "start.resolve"
    BY <1>5 DEF startResolve, IInv, Fits, ContainerGone
  <2>2. ASSUME NEW i \in Images, i \in local', op.p.image \in {None, i}, container' = container,
               op' = [op EXCEPT !.sel = i, !.pc = "start.select"]
        PROVE  Recovering'
    <3> DEFINE n == [op EXCEPT !.sel = i]
               o == [n EXCEPT !.pc = "start.select"]
    <3>1. n \in Operations /\ n.sel = i /\ n.cmd = "start" /\ n.phase = "before" /\ n.p = op.p
      BY <1>0, <2>2, Fields DEF Operations
    <3> HIDE DEF n
    <3>2. o.pc = "start.select" /\ o.sel = i /\ o.cmd = "start" /\ o.phase = "before" /\ o.p = op.p
      BY <3>1 DEF Operations
    <3>3. op' = o
      BY <2>2 DEF n
    <3> HIDE DEF o
    <3> QED
      BY <2>2, <3>2, <3>3 DEF Recovering, Starts
  <2>3. CASE /\ selectedImageReference(op.p, None) \notin local
             /\ op.p.image # None \/ home[op.p.home] # Absent
             /\ UNCHANGED world /\ op' = startFails
    <3>1. profile.image # None => profile.image \notin local
      BY <1>0, <2>3 DEF selectedImageReference
    <3> QED
      BY <1>0, <1>2, <2>1, <2>3, <3>1 DEF Recovering, world, Same
  <2>4. \/ /\ selectedImageReference(op.p, None) \in local
           /\ Observe([op EXCEPT !.sel = selectedImageReference(op.p, None),
                                 !.pc = "start.select"], startFails)
        \/ /\ local' = local \cup {registry} /\ container' = container
           /\ op.p.image = None
           /\ \/ op' = [op EXCEPT !.sel = registry, !.pc = "start.select"]
              \/ Faulty(startFails)
        \/ Faulty(startFails)
        \/ /\ selectedImageReference(op.p, None) \notin local
           /\ op.p.image # None \/ home[op.p.home] # Absent
           /\ UNCHANGED world /\ op' = startFails
    BY <1>5 DEF startResolve, Docker
  <2>5. op.p.image \in {None, selectedImageReference(op.p, None)}
    BY DEF selectedImageReference
  <2> QED
    BY <1>0, <1>1, <2>2, <2>3, <2>4, <2>5 DEF Observe, world
<1>6. ASSUME startSelect PROVE Recovering'
  <2> DEFINE p == [op.p EXCEPT !.image = op.sel]
             n == [op EXCEPT !.p = p]
             o == [n EXCEPT !.pc = "start.volume"]
  <2>1. /\ op.pc = "start.select" /\ op.sel \in Images
        /\ p \in Profiles /\ p.image = op.sel
        /\ op.faults = 0 /\ ~op.disturbed =>
               op.sel \in local /\ op.p.image \in {None, op.sel}
    BY <1>0, <1>6 DEF startSelect, IInv, Fits, Gathered, Recovering, Profiles
  <2> HIDE DEF p
  <2>2. n \in Operations /\ n.cmd = "start" /\ n.phase = "before" /\ n.p = p
        /\ n.faults = op.faults /\ n.disturbed = op.disturbed
    BY <1>0, <2>1, Fields DEF Operations
  <2> HIDE DEF n
  <2>3. /\ o.pc = "start.volume" /\ o.cmd = "start" /\ o.phase = "before" /\ o.p = p
        /\ o.faults = op.faults /\ o.disturbed = op.disturbed
    BY <2>2 DEF Operations
  <2> HIDE DEF o
  <2>4. CASE saveProfile(p) /\ op' = o
    BY <2>1, <2>3, <2>4 DEF Recovering, Starts, saveProfile, store
  <2>5. CASE op.p.image # None /\ UNCHANGED world /\ op' = At("start.volume")
    BY <1>0, <1>2, <2>1, <2>5 DEF Recovering, Same, Starts, world
  <2> QED
    BY <1>1, <1>6, <2>4, <2>5
       DEF startSelect, WriteFile, Observe, o, n, p
<1>7. ASSUME startVolume PROVE Recovering'
  <2>1. CASE local' = local /\ op' = At("start.create")
    BY <1>0, <1>2, <1>7, <2>1 DEF startVolume, Recovering, Same, Starts
  <2> QED
    BY <1>1, <1>7, <2>1 DEF startVolume, Observe, Docker, world, store
<1>8. ASSUME startCreate PROVE Recovering'
  <2>1. CASE container' # None /\ op' = At("start.network")
    BY <1>0, <1>2, <2>1 DEF Recovering, Same, Starts
  <2>2. CASE op.p.image \notin local /\ op' = startFails
    <3>1. ~(op.faults = 0 /\ ~op.disturbed)
      BY <1>8, <2>2 DEF startCreate, Recovering
    <3> QED
      BY <1>0, <1>2, <2>2, <3>1 DEF Recovering, Same
  <2>3. [image |-> op.p.image, home |-> op.p.home, running |-> FALSE] # None
        \/ op.p.image \notin local
    <3> DEFINE c == [image |-> op.p.image, home |-> op.p.home,
                     running |-> FALSE]
    <3>1. ASSUME op.p.image \in local PROVE c \in Containers
      BY <1>0, <3>1 DEF Containers, Profiles
    <3> HIDE DEF c
    <3>2. op.p.image \in local => c # None
      BY <1>0, <3>1
    <3> QED
      BY <3>2 DEF c
  <2> QED
    BY <1>1, <1>8, <2>1, <2>2, <2>3 DEF startCreate, Docker
<1>9. ASSUME syncNetwork \/ startRun PROVE Recovering'
  <2>1. CASE container = None /\ op' = startFails
    <3>1. ~(op.faults = 0 /\ ~op.disturbed)
      BY <1>9, <2>1 DEF syncNetwork, startRun, Recovering
    <3> QED
      BY <1>0, <1>2, <2>1, <3>1 DEF Recovering, Same
  <2>2. CASE container # None /\ container' = container
             /\ op' = At("start.run")
    BY <1>0, <1>2, <2>2 DEF Recovering, Same, Starts
  <2>3. CASE container # None /\ startContainer /\ op' = At("start.await")
    <3>1. Running'
      BY <1>0, <2>3 DEF startContainer, Running, Containers
    <3> QED
      BY <1>0, <1>2, <2>3, <3>1 DEF Recovering, Same, Starts
  <2> QED
    BY <1>1, <1>9, <2>1, <2>2, <2>3 DEF syncNetwork, startRun, Docker
<1>10. ASSUME startAwait PROVE Recovering'
  <2>1. CASE op' = startReturns
    BY <1>0, <1>2, <2>1 DEF Recovering, Same
  <2>2. CASE ~Running /\ op' = startFails
    <3>1. ~(op.faults = 0 /\ ~op.disturbed)
      BY <1>10, <2>2 DEF startAwait, Recovering
    <3> QED
      BY <1>0, <1>2, <2>2, <3>1 DEF Recovering, Same
  <2> QED
    BY <1>1, <1>10, <2>1, <2>2 DEF startAwait, Observe
<1> QED
  BY <1>3, <1>4, <1>5, <1>6, <1>7, <1>8, <1>9, <1>10 DEF start

\* What a command that failed, or went on to a label, is.
LEMMA StillCommand ==
  ASSUME op \in Operations
  PROVE  /\ \A l \in Labels : op' = At(l) \/ Faulty(At(l)) => op'.cmd = op.cmd
         /\ \A ok \in BOOLEAN :
                op' = Done(ok) \/ Faulty(Done(ok)) => op'.cmd = op.cmd
         /\ \A l \in Labels, x \in BOOLEAN : LET o == [At(l) EXCEPT !.disturbed = x] IN
                op' = o \/ Faulty(o) => op'.cmd = op.cmd
         /\ \A l \in Labels : Faulty([At(l) EXCEPT !.phase = "rollback"])
                => op'.cmd = op.cmd
<1>1. ASSUME NEW o \in Operations, o.cmd = op.cmd, op' = o \/ Faulty(o)
      PROVE  op'.cmd = op.cmd
  BY <1>1, Faulted
<1>2. ASSUME NEW l \in Labels
      PROVE  At(l) \in Operations /\ At(l).cmd = op.cmd
  BY <1>2, Goes DEF Same
<1>3. ASSUME NEW ok \in BOOLEAN
      PROVE  Done(ok) \in Operations /\ Done(ok).cmd = op.cmd
  BY <1>3, Goes DEF Same
<1>4. ASSUME NEW o \in Operations, NEW x \in BOOLEAN
      PROVE  /\ [o EXCEPT !.disturbed = x] \in Operations
             /\ [o EXCEPT !.disturbed = x].cmd = o.cmd
             /\ [o EXCEPT !.phase = "rollback"] \in Operations
             /\ [o EXCEPT !.phase = "rollback"].cmd = o.cmd
  <2>1. /\ [o EXCEPT !.disturbed = x] \in Operations
        /\ [o EXCEPT !.phase = "rollback"] \in Operations
    BY <1>4, Fields
  <2> QED
    BY <2>1 DEF Operations
<1>5. \A l \in Labels : op' = At(l) \/ Faulty(At(l)) => op'.cmd = op.cmd
  BY <1>1, <1>2
<1>6. \A ok \in BOOLEAN : op' = Done(ok) \/ Faulty(Done(ok)) => op'.cmd = op.cmd
  BY <1>1, <1>3
<1>7. ASSUME NEW l \in Labels, NEW x \in BOOLEAN, NEW o,
             o = [At(l) EXCEPT !.disturbed = x]
             \/ o = [At(l) EXCEPT !.phase = "rollback"],
             op' = o \/ Faulty(o)
      PROVE  op'.cmd = op.cmd
  <2> DEFINE n == At(l)
  <2>1. n \in Operations /\ n.cmd = op.cmd
    BY <1>2, <1>7
  <2>2. o = [n EXCEPT !.disturbed = x] \/ o = [n EXCEPT !.phase = "rollback"]
    BY <1>7
  <2> HIDE DEF n
  <2> QED
    BY <1>1, <1>4, <1>7, <2>1, <2>2
<1> QED
  BY <1>5, <1>6, <1>7

\* A command stays the same command while it works.
LEMMA SameCommand ==
  ASSUME op \in Operations, Step
  PROVE  op'.cmd = op.cmd
<1>1. ASSUME op' = startFails \/ op' = startReturns \/ Faulty(startFails)
      PROVE  op'.cmd = op.cmd
  BY <1>1, StillCommand DEF startFails, startReturns, Labels
<1>2. ASSUME \/ op' = snapshotFails \/ Faulty(snapshotFails)
             \/ op' = backupFails \/ op' = backupReturns \/ Faulty(backupFails)
      PROVE  op'.cmd = op.cmd
  BY <1>2, StillCommand DEF snapshotFails, backupFails, backupReturns, Labels
<1>3. CASE start
  <2>1. ASSUME startObserve PROVE op'.cmd = op.cmd
    BY <1>1, <2>1 DEF startObserve, Observe, Operations
  <2>2. ASSUME startAdopt PROVE op'.cmd = op.cmd
    BY <1>1, <2>2 DEF startAdopt, WriteFile, Operations
  <2>3. ASSUME startResolve PROVE op'.cmd = op.cmd
    BY <1>1, <2>3 DEF startResolve, Observe, Docker, Operations
  <2>4. ASSUME startSelect PROVE op'.cmd = op.cmd
    <3>1. \/ op' = [op EXCEPT !.p = [op.p EXCEPT !.image = op.sel],
                              !.pc = "start.volume"]
          \/ op' = At("start.volume") \/ Faulty(startFails)
      BY <2>4 DEF startSelect, WriteFile, Observe
    <3> QED
      BY <1>1, <3>1, StillCommand DEF Operations, Labels
  <2>5. ASSUME startVolume \/ startCreate \/ syncNetwork \/ startRun
               \/ startAwait
        PROVE  op'.cmd = op.cmd
    <3>1. \/ \E l \in Labels : op' = At(l)
          \/ op' = startFails \/ op' = startReturns \/ Faulty(startFails)
      BY <2>5 DEF startVolume, startCreate, syncNetwork, startRun, startAwait,
         Observe, Docker, Labels
    <3> QED
      BY <1>1, <3>1, StillCommand
  <2> QED
    BY <1>3, <2>1, <2>2, <2>3, <2>4, <2>5 DEF start
<1>4. CASE stop \/ configureNetwork
  <2>1. \E ok \in BOOLEAN : op' = Done(ok) \/ Faulty(Done(ok))
    BY <1>4 DEF stop, configureNetwork, Observe, Docker, WriteFile
  <2> QED
    BY <2>1, StillCommand
<1>5. CASE stopForSnapshot
  <2>1. \E l \in Labels : \/ op' = At(l) \/ op' = snapshotFails
                          \/ Faulty(snapshotFails)
    BY <1>5 DEF stopForSnapshot, snapshotWriters, snapshotStop,
       snapshotRecheck, Observe, Docker, Labels
  <2> QED
    BY <1>2, <2>1, StillCommand
<1>6. CASE backup
  <2>1. ASSUME backupObserve PROVE op'.cmd = op.cmd
    BY <1>2, <2>1 DEF backupObserve, Observe, Operations
  <2>2. ASSUME backupCopy PROVE op'.cmd = op.cmd
    BY <1>2, <2>2 DEF backupCopy, Observe, Operations
  <2>3. ASSUME backupCopying PROVE op'.cmd = op.cmd
    BY <1>2, <2>3 DEF backupCopying, Observe, Operations
  <2>4. ASSUME backupRecheck \/ backupPublish \/ backupPrune
        PROVE  op'.cmd = op.cmd
    <3>1. \E l \in Labels : \/ op' = At(l) \/ op' = backupFails
                            \/ op' = backupReturns \/ Faulty(backupFails)
      BY <2>4 DEF backupRecheck, backupPublish, backupPrune, Observe,
         WriteFile, Labels
    <3> QED
      BY <1>2, <3>1, StillCommand
  <2> QED
    BY <1>6, <2>1, <2>2, <2>3, <2>4 DEF backup
<1>7. CASE restore
  <2>1. ASSUME restoreRead PROVE op'.cmd = op.cmd
    <3>1. \/ op' = Done(FALSE) \/ Faulty(Done(FALSE))
          \/ \E b : op' = [op EXCEPT !.seen = container, !.src = b,
                                     !.pc = "snapshot.writers"]
      BY <2>1 DEF restoreRead, Observe
    <3> QED
      BY <3>1, StillCommand DEF Operations
  <2>2. ASSUME restoreVolume PROVE op'.cmd = op.cmd
    <3>1. \/ Faulty(Done(FALSE))
          \/ \E v : op' = [op EXCEPT !.vol = v, !.pc = "restore.extract"]
      BY <2>2 DEF restoreVolume, Docker
    <3> QED
      BY <3>1, StillCommand DEF Operations
  <2>3. ASSUME restoreExtracting PROVE op'.cmd = op.cmd
    <3>1. \/ Faulty(At("restore.undoVolume"))
          \/ op' = [op EXCEPT !.net = network, !.pc = "restore.files"]
      BY <2>3 DEF restoreExtracting, Docker
    <3> QED
      BY <3>1, StillCommand DEF Operations, Labels
  <2>4. ASSUME restoreExtract \/ restoreFiles \/ restoreRemove \/ restoreCommit
               \/ restoreCleanup \/ restoreUndoNetwork \/ restoreUndoVolume
        PROVE  op'.cmd = op.cmd
    <3>1. \E l \in Labels, ok \in BOOLEAN :
             \/ op' = At(l) \/ Faulty(At(l))
             \/ op' = Done(ok) \/ Faulty(Done(ok))
             \/ Faulty([At(l) EXCEPT !.disturbed = TRUE])
      BY <2>4 DEF restoreExtract, restoreFiles, restoreRemove, restoreCommit,
         restoreCleanup, restoreUndoNetwork, restoreUndoVolume, Observe,
         Docker, WriteFile, Labels
    <3> QED
      BY <3>1, StillCommand
  <2> QED
    BY <1>7, <2>1, <2>2, <2>3, <2>4 DEF restore
<1>8. CASE update
  <2>1. ASSUME imageObserve \/ appsObserve PROVE op'.cmd = op.cmd
    <3>1. \/ op' = Done(FALSE) \/ Faulty(Done(FALSE))
          \/ op' = [op EXCEPT !.c = container, !.pc = "image.resolve"]
          \/ op' = [op EXCEPT !.c = container, !.pc = "backup.observe"]
      BY <2>1 DEF imageObserve, appsObserve, Observe
    <3> QED
      BY <3>1, StillCommand DEF Operations
  <2>2. ASSUME imageResolve PROVE op'.cmd = op.cmd
    <3>1. \/ op' = At("update.fail") \/ Faulty(At("update.fail"))
          \/ \E i : op' = [op EXCEPT !.sel = i, !.pc = "backup.observe"]
      BY <2>2 DEF imageResolve
    <3> QED
      BY <3>1, StillCommand DEF Operations, Labels
  <2>3. ASSUME imageSave PROVE op'.cmd = op.cmd
    <3>1. \/ Faulty([At("start.observe") EXCEPT !.phase = "rollback"])
          \/ Faulty(At("update.fail"))
          \/ op' = [op EXCEPT !.p = [op.p EXCEPT !.image = op.sel],
                              !.phase = "after", !.pc = "start.observe"]
      BY <2>3 DEF imageSave, WriteFile
    <3> QED
      BY <3>1, StillCommand DEF Operations, Labels
  <2>4. ASSUME imageRemove \/ imagePackages \/ imageVerify \/ appsUpdate
               \/ updateResume \/ updateFinish \/ updateFail
        PROVE  op'.cmd = op.cmd
    <3>1. \E l \in Labels, ok \in BOOLEAN :
             \/ op' = At(l) \/ Faulty(At(l))
             \/ op' = Done(ok) \/ Faulty(Done(ok))
             \/ op' = [At(l) EXCEPT !.disturbed = TRUE]
             \/ Faulty([At(l) EXCEPT !.disturbed = TRUE])
      BY <2>4 DEF imageRemove, imagePackages, imageVerify, imageChecks,
         appsUpdate, updateResume, updateFinish, updateFail, Observe, Docker,
         Labels
    <3> QED
      BY <3>1, StillCommand
  <2> QED
    BY <1>8, <2>1, <2>2, <2>3, <2>4 DEF update
<1> QED
  BY <1>3, <1>4, <1>5, <1>6, <1>7, <1>8 DEF Step

\* What is noted when something is taken away.
LEMMA Noted ==
  ASSUME op \in Operations, Disturb
  PROVE  /\ op'.pc = op.pc /\ op'.cmd = op.cmd /\ op'.p = op.p
         /\ op'.c = op.c /\ op'.seen = op.seen /\ op'.sel = op.sel
         /\ op'.copy = op.copy /\ op'.phase = op.phase /\ op'.ok = op.ok
         /\ op'.applied0 = op.applied0 /\ op'.src = op.src
         /\ op.cmd # "idle" => op'.disturbed
<1>1. CASE op = Idle
  BY <1>1 DEF Disturb, Idle
<1>2. CASE op # Idle
  BY <1>2 DEF Disturb, Operations
<1> QED
  BY <1>1, <1>2

\* What happens around a start leaves what it relies on, or is noted.
LEMMA AroundRecovering ==
  ASSUME IInv, Story, Recovering, Around
  PROVE  Recovering'
<1>1. op \in Operations
  BY DEF IInv, Fits
<1>2. ASSUME NEW i \in Images, DesktopExits \/ ContainerLost \/ ImageRemoved(i)
      PROVE  Recovering'
  <2>1. Disturb
    BY <1>2 DEF DesktopExits, ContainerLost, ImageRemoved
  <2> QED
    BY <1>1, <2>1, Noted DEF Recovering
<1>3. ASSUME DesktopExits \/ ContainerLost PROVE Recovering'
  <2>1. Disturb
    BY <1>3 DEF DesktopExits, ContainerLost
  <2> QED
    BY <1>1, <2>1, Noted DEF Recovering
<1>4. ASSUME NEW i \in Images, TagMoves(i) PROVE Recovering'
  BY <1>4 DEF TagMoves, Recovering, Running
<1>5. ASSUME WriterStarts \/ WriterStops PROVE Recovering'
  BY <1>5 DEF WriterStarts, WriterStops, Recovering, Running, store
<1>6. ASSUME HomeLost PROVE Recovering'
  BY <1>6 DEF HomeLost, Recovering, Idle
<1>7. ASSUME UserSaves \/ WriterSaves PROVE Recovering'
  <2>1. Save(profile.home) /\ op' = op
    BY <1>7 DEF UserSaves, WriterSaves, Running, IInv, WorldOK,
       RuntimeIsSelected
  <2>2. /\ home'[profile.home] # Absent /\ local' = local
        /\ profile' = profile /\ container' = container
    BY <2>1, Saved, SaveFiles DEF Save, store, IInv
  <2> QED
    BY <2>1, <2>2 DEF Recovering, Running
<1> QED
  BY <1>2, <1>3, <1>4, <1>5, <1>6, <1>7 DEF Around

LEMMA RecoveringGoesOn ==
  ASSUME IInv, Story, Recovering, [Next]_vars
  PROVE  Recovering'
<1>1. op \in Operations
  BY DEF IInv, Fits
<1>2. CASE Step
  <2>1. CASE op.cmd = "start"
    <3>1. op.pc \in Starts \cup {"done"}
      BY <2>1 DEF Recovering
    <3>2. start
      <4>1. ~stop /\ ~configureNetwork /\ ~stopForSnapshot
        BY <3>1 DEF Starts, stop, configureNetwork, stopForSnapshot,
           snapshotWriters, snapshotStop, snapshotRecheck
      <4>2. ~backup
        BY <3>1 DEF Starts, backup, backupObserve, backupCopy, backupCopying,
           backupRecheck, backupPublish, backupPrune
      <4>3. ~restore
        BY <3>1 DEF Starts, restore, restoreRead, restoreVolume,
           restoreExtract, restoreExtracting, restoreFiles, restoreRemove,
           restoreCommit, restoreCleanup, restoreUndoNetwork,
           restoreUndoVolume
      <4>4. ~update
        BY <3>1 DEF Starts, update, imageObserve, imageResolve, imageRemove,
           imageSave, imagePackages, imageVerify, imageChecks, appsObserve,
           appsUpdate, updateResume, updateFinish, updateFail
      <4> QED
        BY <1>2, <4>1, <4>2, <4>3, <4>4 DEF Step
    <3> QED
      BY <2>1, <3>2, StartRecovering
  <2>2. CASE op.cmd # "start"
    BY <1>1, <1>2, <2>2, SameCommand DEF Recovering
  <2> QED
    BY <2>1, <2>2
<1>3. CASE \E cmd \in Commands : Begin(cmd)
  <2>1. PICK cmd \in Commands : Begin(cmd)
    BY <1>3
  <2>2. /\ op'.cmd = cmd /\ op'.pc = Entry(cmd) /\ op'.phase = "before"
    BY <2>1 DEF Begin, Idle
  <2>3. cmd = "start" => Entry(cmd) = "start.observe"
    BY DEF Entry
  <2> QED
    BY <2>2, <2>3 DEF Recovering, Starts
<1>4. CASE Return \/ Killed
  BY <1>4 DEF Return, Killed, Idle, Recovering
<1>5. CASE Around
  BY <1>5, AroundRecovering
<1>6. CASE UNCHANGED vars
  BY <1>6 DEF vars, world, store, Recovering, Running
<1> QED
  BY <1>2, <1>3, <1>4, <1>5, <1>6 DEF Next

\* main.go 509-647.  A start that meets no failure of its own brings the
\* desktop up after anything that was killed or failed before, unless the
\* selected image is not there or nobody knows it.
THEOREM StartBringsUp == Spec => []StartRecovers
<1>1. Init => Recovering
  BY DEF Init, Idle, Recovering
<1>2. IInv /\ Story /\ Recovering /\ [Next]_vars => Recovering'
  BY RecoveringGoesOn
<1>3. Recovering => StartRecovers
  BY DEF Recovering, StartRecovers
<1> QED
  BY <1>1, <1>2, <1>3, Invariant, StoryHolds, PTL DEF Spec

(***************************************************************************)
(* Where a step goes on.                                                   *)
(***************************************************************************)
\* The command goes on at a label with all it knew.
Went(l) ==
    /\ op'.pc = l /\ op'.cmd = op.cmd /\ op'.p = op.p /\ op'.c = op.c
    /\ op'.seen = op.seen /\ op'.sel = op.sel /\ op'.copy = op.copy
    /\ op'.phase = op.phase /\ op'.applied0 = op.applied0
    /\ op'.src = op.src /\ op'.disturbed = op.disturbed

LEMMA Moves ==
  ASSUME op \in Operations
  PROVE  /\ \A l \in Labels : op' = At(l) \/ Faulty(At(l)) => Went(l)
         /\ \A ok \in BOOLEAN : op' = Done(ok) \/ Faulty(Done(ok))
                => Went("done") /\ op'.ok = ok
<1>1. ASSUME NEW l \in Labels, op' = At(l) \/ Faulty(At(l)) PROVE Went(l)
  <2>1. At(l) \in Operations /\ At(l).pc = l /\ Same(At(l))
    BY Goes
  <2> QED
    BY <1>1, <2>1, Counted DEF Same, Went
<1>2. ASSUME NEW ok \in BOOLEAN, op' = Done(ok) \/ Faulty(Done(ok))
      PROVE  Went("done") /\ op'.ok = ok
  <2>1. Done(ok) \in Operations /\ Done(ok).pc = "done" /\ Done(ok).ok = ok
        /\ Same(Done(ok))
    BY Goes
  <2> QED
    BY <1>2, <2>1, Counted DEF Same, Went
<1> QED
  BY <1>1, <1>2

\* Where a routine that both updates share goes on when it ends.
LEMMA RoutineEnds ==
  ASSUME op \in Operations
  PROVE  /\ op' = startFails \/ Faulty(startFails) =>
              IF op.cmd = "start" THEN Went("done") /\ ~op'.ok
                                  ELSE Went("update.fail")
         /\ op' = startReturns =>
              CASE op.cmd = "start" -> Went("done")
                [] op.cmd = "update-image" /\ op.phase = "rollback"
                                    -> Went("update.fail")
                [] op.cmd = "update-image" /\ op.phase # "rollback"
                                    -> Went("image.packages")
                [] OTHER            -> Went("apps.update")
         /\ op' = backupFails \/ Faulty(backupFails) =>
              IF op.cmd = "backup" THEN Went("done") ELSE Went("update.resume")
         /\ op' = backupReturns =>
              CASE op.cmd = "backup"       -> Went("done")
                [] op.cmd = "update-image" -> Went("image.remove")
                [] OTHER                   -> Went("start.observe")
         /\ op' = snapshotFails \/ Faulty(snapshotFails) =>
              IF op.cmd \in {"restore", "backup"} THEN Went("done")
                                              ELSE Went("update.resume")
<1>1. /\ {"update.fail", "image.packages", "apps.update", "update.resume",
          "image.remove", "start.observe"} \subseteq Labels
  BY DEF Labels
<1>2. op' = startFails \/ Faulty(startFails) =>
              IF op.cmd = "start" THEN Went("done") /\ ~op'.ok
                                  ELSE Went("update.fail")
  BY <1>1, Moves DEF startFails
<1>3. op' = backupFails \/ Faulty(backupFails) =>
              IF op.cmd = "backup" THEN Went("done") ELSE Went("update.resume")
  BY <1>1, Moves DEF backupFails
<1>4. op' = snapshotFails \/ Faulty(snapshotFails) =>
              IF op.cmd \in {"restore", "backup"} THEN Went("done")
                                              ELSE Went("update.resume")
  BY <1>1, <1>3, Moves DEF snapshotFails
<1>5. ASSUME op' = startReturns
      PROVE  CASE op.cmd = "start" -> Went("done")
               [] op.cmd = "update-image" /\ op.phase = "rollback"
                                   -> Went("update.fail")
               [] op.cmd = "update-image" /\ op.phase # "rollback"
                                   -> Went("image.packages")
               [] OTHER            -> Went("apps.update")
  <2>1. CASE op.cmd = "start"
    BY <1>5, <2>1, Moves DEF startReturns
  <2>2. CASE op.cmd = "update-image" /\ op.phase = "rollback"
    BY <1>1, <1>5, <2>2, Moves DEF startReturns
  <2>3. CASE op.cmd = "update-image" /\ op.phase # "rollback"
    BY <1>1, <1>5, <2>3, Moves DEF startReturns
  <2>4. CASE op.cmd \notin {"start", "update-image"}
    BY <1>1, <1>5, <2>4, Moves DEF startReturns
  <2> QED
    BY <2>1, <2>2, <2>3, <2>4
<1>6. ASSUME op' = backupReturns
      PROVE  CASE op.cmd = "backup"       -> Went("done")
               [] op.cmd = "update-image" -> Went("image.remove")
               [] OTHER                   -> Went("start.observe")
  BY <1>1, <1>6, Moves DEF backupReturns
<1> QED
  BY <1>2, <1>3, <1>4, <1>5, <1>6

(***************************************************************************)
(* An image for the personal files: no label but these needs a selection   *)
(* or a copy.                                                              *)
(***************************************************************************)
Settled == Labels \ (Snapshot \cup Restore \cup
             {"start.volume", "backup.prune", "image.remove", "restore.volume"})

\* The world still names an image for the files, and has the copies it had.
NamedWorld ==
    /\ HomeImageKnown'
    /\ writer' = profile'.home => home'[profile'.home] # Absent
    /\ backups # << >> => backups' # << >>

LEMMA NamedSettles ==
  ASSUME Named, NamedWorld, op'.pc \in Settled
  PROVE  Named'
  BY DEF Named, NamedWorld, Settled, NeedsCopy

LEMMA NamedGoesOn ==
  ASSUME Named, NamedWorld, NeedsCopy(op) \/ backups' # << >>,
         op'.pc # "start.volume"
  PROVE  Named'
  BY DEF Named, NamedWorld

\* The files are there or not as before, and nothing that names their image
\* is gone.
LEMMA NamedStays ==
  ASSUME Named, UNCHANGED <<backups, writer>>,
         profile'.home = profile.home,
         profile.image # None => profile'.image # None,
         container # None => container' # None,
         home'[profile.home] = home[profile.home]
  PROVE  NamedWorld
  BY DEF Named, NamedWorld, HomeImageKnown

\* start: the selection is saved before the volume is created (main.go 585).
LEMMA StartNames ==
  ASSUME IInv, Named, start
  PROVE  Named'
<1>0. /\ op \in Operations /\ op.p = profile /\ profile \in Profiles
      /\ container \in Containers \cup {None}
      /\ home \in [Vols -> Content \cup {Absent}]
      /\ None \notin Images \cup Containers
  <2>1. op \in Operations /\ op.p = profile
    BY DEF IInv, Fits, OnSavedProfile, start, startObserve, startAdopt,
       startResolve, startSelect, startVolume, startCreate, syncNetwork,
       startRun, startAwait
  <2> QED
    BY <2>1, ConstantsAssumption
       DEF IInv, WorldOK, WorldTypeOK, ConstantsAssumption
<1>1. ASSUME op' = startFails \/ op' = startReturns \/ Faulty(startFails)
      PROVE  op'.pc \in Settled
  BY <1>0, <1>1, RoutineEnds DEF Went, Settled, Labels, Snapshot, Restore,
     Extract, Switch
<1>2. ASSUME startObserve PROVE Named'
  <2>1. UNCHANGED world
    BY <1>2 DEF startObserve, Observe
  <2>2. NamedWorld
    BY <2>1, NamedStays DEF world
  <2>3. afterObserve(op.p, container) \in Settled
    BY DEF afterObserve, Settled, Labels, Snapshot, Restore, Extract, Switch
  <2>4. op'.pc \in Settled
    BY <1>0, <1>1, <1>2, <2>3 DEF startObserve, Observe, Operations
  <2> QED
    BY <2>2, <2>4, NamedSettles
<1>3. ASSUME startAdopt PROVE Named'
  <2> DEFINE p == [op.p EXCEPT !.image = op.seen.image]
             l == afterObserve(p, op.seen)
  <2>1. l \in Settled
    BY DEF afterObserve, Settled, Labels, Snapshot, Restore, Extract, Switch
  <2>2. op.seen.image \in Images
    BY <1>3 DEF startAdopt, IInv, Fits, Adopting, Containers
  <2>3. p.home = profile.home /\ p.image # None
    BY <1>0, <2>2 DEF Profiles
  <2>4. \/ saveProfile(p) /\ op' = [op EXCEPT !.p = p, !.pc = l]
        \/ UNCHANGED world /\ Faulty(startFails)
    BY <1>3 DEF startAdopt, WriteFile
  <2> HIDE DEF p, l
  <2>5. op'.pc \in Settled
    BY <1>0, <1>1, <2>1, <2>4 DEF Operations
  <2>6. NamedWorld
    BY <2>3, <2>4, NamedStays DEF world, saveProfile
  <2> QED
    BY <2>5, <2>6, NamedSettles
<1>4. ASSUME startResolve PROVE Named'
  <2>1. UNCHANGED <<profile, backups, container, home, writer>>
    BY <1>4 DEF startResolve, Observe, Docker, world
  <2>2. NamedWorld
    BY <2>1, NamedStays
  <2>3. \/ op' = startFails \/ Faulty(startFails)
        \/ \E i : op' = [op EXCEPT !.sel = i, !.pc = "start.select"]
    BY <1>4 DEF startResolve, Observe, Docker
  <2>4. "start.select" \in Settled
    BY DEF Settled, Labels, Snapshot, Restore, Extract, Switch
  <2>5. op'.pc \in Settled
    BY <1>0, <1>1, <2>3, <2>4 DEF Operations
  <2> QED
    BY <2>2, <2>5, NamedSettles
<1>5. ASSUME startSelect PROVE Named'
  <2> DEFINE p == [op.p EXCEPT !.image = op.sel]
             o == [op EXCEPT !.p = p]
  <2>1. op.sel \in Images
    BY <1>5 DEF startSelect, IInv, Fits, Gathered
  <2>2. p \in Profiles /\ p.home = profile.home /\ p.image # None
    BY <1>0, <2>1 DEF Profiles
  <2>3. \/ saveProfile(p) /\ op' = [o EXCEPT !.pc = "start.volume"]
        \/ UNCHANGED world /\ (op' = startFails \/ Faulty(startFails))
        \/ UNCHANGED world /\ op.p.image # None /\ op' = At("start.volume")
    BY <1>5 DEF startSelect, WriteFile, Observe
  <2>4. o \in Operations /\ o.p = p
    BY <1>0, <2>2, Fields DEF Operations
  <2> HIDE DEF p, o
  <2>5. NamedWorld
    BY <2>2, <2>3, NamedStays DEF world, saveProfile
  <2>6. CASE op' = [o EXCEPT !.pc = "start.volume"]
    <3>1. op'.pc = "start.volume" /\ op'.p.image # None
      BY <2>2, <2>4, <2>6 DEF Operations
    <3> QED
      BY <2>5, <3>1 DEF Named, NamedWorld, NeedsCopy, Snapshot, Restore,
         Extract, Switch
  <2>7. CASE op' = startFails \/ Faulty(startFails)
    BY <1>1, <2>5, <2>7, NamedSettles
  <2>8. CASE op.p.image # None /\ op' = At("start.volume")
    <3>1. Went("start.volume")
      BY <1>0, <2>8, Moves DEF Labels
    <3> QED
      BY <2>5, <2>8, <3>1 DEF Named, NamedWorld, NeedsCopy, Snapshot,
         Restore, Extract, Switch, Went
  <2> QED
    BY <2>3, <2>6, <2>7, <2>8
<1>6. ASSUME \/ startVolume \/ startCreate \/ syncNetwork \/ startRun
             \/ startAwait
      PROVE  op'.pc \in Settled
  <2>1. \/ op' = startFails \/ op' = startReturns \/ Faulty(startFails)
        \/ \E l \in {"start.create", "start.network", "start.run",
                     "start.await"} : op' = At(l)
    BY <1>6 DEF startVolume, startCreate, syncNetwork, startRun, startAwait,
       Observe, Docker
  <2>2. ASSUME NEW l \in {"start.create", "start.network", "start.run",
                          "start.await"}, op' = At(l)
        PROVE  op'.pc \in Settled
    BY <1>0, <2>2, Moves DEF Labels, Went, Settled, Snapshot, Restore,
       Extract, Switch
  <2> QED
    BY <1>1, <2>1, <2>2
<1>7. ASSUME startVolume PROVE Named'
  <2>1. profile.image # None
    BY <1>0, <1>7 DEF startVolume, Named
  <2>2. \/ UNCHANGED world
        \/ /\ home' = [home EXCEPT ![op.p.home] = 0]
           /\ UNCHANGED <<profile, backups, container, writer>>
    BY <1>7 DEF startVolume, Observe, Docker
  <2>3. /\ UNCHANGED <<profile, backups, container, writer>>
        /\ home'[profile.home] = home[profile.home] \/ home'[profile.home] = 0
    BY <1>0, <2>2 DEF world, Profiles
  <2>4. 0 # Absent
    BY ConstantsAssumption DEF ConstantsAssumption, Content, Version
  <2>5. NamedWorld
    BY <2>1, <2>3, <2>4 DEF Named, NamedWorld, HomeImageKnown
  <2> QED
    BY <1>6, <1>7, <2>5, NamedSettles
<1>8. ASSUME startCreate \/ syncNetwork \/ startRun \/ startAwait
      PROVE  Named'
  <2>1. UNCHANGED <<profile, backups, home, writer>>
    BY <1>8 DEF startCreate, syncNetwork, startRun, startAwait, Observe,
       Docker, startContainer, world
  <2>2. container # None => container' # None
    <3>1. [image |-> op.p.image, home |-> op.p.home, running |-> FALSE]
            \in Containers \/ op.p.image = None
      BY <1>0 DEF Profiles, Containers
    <3>2. container # None =>
             [container EXCEPT !.running = TRUE] \in Containers
      BY <1>0 DEF Containers
    <3>3. startCreate => op.pc = "start.create" /\ container = None
      BY DEF startCreate, IInv, Fits, ContainerGone
    <3>4. startCreate \/ UNCHANGED container
          \/ container' = [container EXCEPT !.running = TRUE]
      BY <1>8 DEF syncNetwork, startRun, startAwait, Observe, Docker,
         startContainer, world
    <3> QED
      BY <1>0, <3>2, <3>3, <3>4
  <2>3. NamedWorld
    BY <2>1, <2>2, NamedStays
  <2> QED
    BY <1>6, <1>8, <2>3, NamedSettles
<1> QED
  BY <1>2, <1>3, <1>4, <1>5, <1>7, <1>8 DEF start

LEMMA StopNames ==
  ASSUME IInv, Named, stop \/ configureNetwork
  PROVE  Named'
<1>1. op \in Operations /\ container \in Containers \cup {None}
      /\ None \notin Containers
  BY ConstantsAssumption
     DEF IInv, Fits, WorldOK, WorldTypeOK, ConstantsAssumption
<1>2. \E ok \in BOOLEAN : op' = Done(ok) \/ Faulty(Done(ok))
  BY DEF stop, configureNetwork, Observe, Docker, WriteFile
<1>3. op'.pc \in Settled
  BY <1>1, <1>2, Moves DEF Went, Settled, Labels, Snapshot, Restore, Extract,
     Switch
<1>4. UNCHANGED <<profile, backups, home, writer>>
  BY DEF stop, configureNetwork, Observe, Docker, WriteFile, stopContainer,
     saveNetwork, world
<1>5. container' = container \/ container' = [container EXCEPT !.running = FALSE]
  BY DEF stop, configureNetwork, Observe, Docker, WriteFile, stopContainer,
     saveNetwork, world
<1>6. container # None => [container EXCEPT !.running = FALSE] \in Containers
  BY <1>1 DEF Containers
<1>7. container # None => container' # None
  BY <1>1, <1>5, <1>6
<1>8. NamedWorld
  BY <1>4, <1>7, NamedStays
<1> QED
  BY <1>3, <1>8, NamedSettles

\* Before a copy, and before a restore that has found a copy to restore.
LEMMA SnapshotNames ==
  ASSUME IInv, Named, stopForSnapshot
  PROVE  Named'
<1>1. op \in Operations /\ container \in Containers \cup {None}
      /\ None \notin Containers /\ op.pc \in Snapshot
  BY ConstantsAssumption
     DEF IInv, Fits, WorldOK, WorldTypeOK, ConstantsAssumption, Snapshot,
         stopForSnapshot, snapshotWriters, snapshotStop, snapshotRecheck
<1>2. \/ op' = snapshotFails \/ Faulty(snapshotFails)
      \/ \E l \in {"snapshot.stop", "snapshot.recheck", "restore.volume",
                   "backup.copy"} :
            op' = At(l) /\ (l = "restore.volume" => op.cmd = "restore")
  BY DEF stopForSnapshot, snapshotWriters, snapshotStop, snapshotRecheck,
     Observe, Docker
<1>3. UNCHANGED <<profile, backups, home, writer>>
  BY DEF stopForSnapshot, snapshotWriters, snapshotStop, snapshotRecheck,
     Observe, Docker, stopContainer, world
<1>4. container' = container \/ container' = [container EXCEPT !.running = FALSE]
  BY DEF stopForSnapshot, snapshotWriters, snapshotStop, snapshotRecheck,
     Observe, Docker, stopContainer, world
<1>5. container # None => [container EXCEPT !.running = FALSE] \in Containers
  BY <1>1 DEF Containers
<1>6. container # None => container' # None
  BY <1>1, <1>4, <1>5
<1>7. NamedWorld
  BY <1>3, <1>6, NamedStays
<1>8. CASE op' = snapshotFails \/ Faulty(snapshotFails)
  <2>1. op'.pc \in Settled
    BY <1>1, <1>8, RoutineEnds DEF Went, Settled, Labels, Snapshot, Restore,
       Extract, Switch
  <2> QED
    BY <1>7, <2>1, NamedSettles
<1>9. ASSUME NEW l \in {"snapshot.stop", "snapshot.recheck", "restore.volume",
                        "backup.copy"},
             op' = At(l), l = "restore.volume" => op.cmd = "restore"
      PROVE  Named'
  <2>1. Went(l)
    BY <1>1, <1>9, Moves DEF Labels
  <2>2. NeedsCopy(op') => NeedsCopy(op)
    BY <1>1, <1>9, <2>1 DEF Went, NeedsCopy, Snapshot, Restore, Extract, Switch
  <2> QED
    BY <1>3, <1>7, <2>1, <2>2 DEF Named, NamedWorld, Went
<1> QED
  BY <1>2, <1>8, <1>9

\* Retention keeps the newest copy.
LEMMA NewestKept ==
  ASSUME NEW s \in Seq(Copies), s # << >>
  PROVE  newest(s) # << >> /\ Last(newest(s)) = Last(s)
<1> DEFINE m == IF Len(s) > 2 THEN Len(s) - 1 ELSE 1
<1>1. Len(s) \in Nat /\ Len(s) # 0
  BY LenProperties, EmptySeq
<1>2. m \in Int /\ Len(s) \in Int /\ m <= Len(s) /\ 1 <= m
      /\ \A i \in m .. Len(s) : s[i] \in Copies
  BY <1>1
<1> HIDE DEF m
<1>3. /\ SubSeq(s, m, Len(s)) \in Seq(Copies)
      /\ Len(SubSeq(s, m, Len(s))) = Len(s) - m + 1
      /\ \A i \in 1 .. Len(s) - m + 1 : SubSeq(s, m, Len(s))[i] = s[m + i - 1]
  BY <1>2, SubSeqProperties
<1> DEFINE k == Len(s) - m + 1
<1>4. k \in 1 .. Len(s) - m + 1 /\ m + k - 1 = Len(s) /\ k \in Nat /\ k >= 1
  BY <1>1, <1>2
<1>5. newest(s) = SubSeq(s, m, Len(s))
  BY DEF newest, m
<1> HIDE DEF k
<1>6. Len(newest(s)) = k
  BY <1>3, <1>5 DEF k
<1>7. newest(s)[k] = s[Len(s)]
  BY <1>3, <1>4, <1>5
<1>8. newest(s) # << >>
  BY <1>4, <1>6
<1> QED
  BY <1>6, <1>7, <1>8 DEF Last

\* backup completes a copy before anything is removed (backup.go 432).
LEMMA BackupNames ==
  ASSUME IInv, Named, backup
  PROVE  Named'
<1>0. op \in Operations /\ backups \in Seq(Copies)
  BY DEF IInv, Fits, WorldOK, WorldTypeOK
<1>1. ASSUME op' = backupFails \/ Faulty(backupFails)
      PROVE  op'.pc \in Settled
  BY <1>0, <1>1, RoutineEnds DEF Went, Settled, Labels, Snapshot, Restore,
     Extract, Switch
<1>2. ASSUME backupObserve PROVE Named'
  <2>1. op.cmd # "restore"
    BY <1>2 DEF backupObserve, IInv, Fits, Gathered
  <2>2. UNCHANGED world
    BY <1>2 DEF backupObserve, Observe
  <2>3. NamedWorld
    BY <2>2, NamedStays DEF world
  <2>4. \/ op' = backupFails \/ Faulty(backupFails)
        \/ op' = [op EXCEPT !.seen = container, !.pc = "snapshot.writers"]
    BY <1>2 DEF backupObserve, Observe
  <2>5. CASE op' = [op EXCEPT !.seen = container, !.pc = "snapshot.writers"]
    <3>1. op'.pc = "snapshot.writers" /\ op'.cmd # "restore"
      BY <1>0, <2>1, <2>5 DEF Operations
    <3>2. ~NeedsCopy(op')
      BY <3>1 DEF NeedsCopy, Restore, Extract, Switch
    <3> QED
      BY <2>3, <3>1, <3>2 DEF Named, NamedWorld
  <2> QED
    BY <1>1, <2>3, <2>4, <2>5, NamedSettles
<1>3. ASSUME backupCopy \/ backupCopying \/ backupRecheck PROVE Named'
  <2>1. UNCHANGED world
    BY <1>3 DEF backupCopy, backupCopying, backupRecheck, Observe
  <2>2. NamedWorld
    BY <2>1, NamedStays DEF world
  <2>3. \/ op' = backupFails \/ Faulty(backupFails)
        \/ \E x, y : op' = [op EXCEPT !.copy = x, !.net = y,
                                      !.pc = "backup.copying"]
        \/ \E x : op' = [op EXCEPT !.copy = x, !.pc = "backup.recheck"]
        \/ op' = At("backup.publish")
    BY <1>3 DEF backupCopy, backupCopying, backupRecheck, Observe
  <2>4. ASSUME op'.pc \in {"backup.copying", "backup.recheck",
                           "backup.publish"}
        PROVE  op'.pc \in Settled
    BY <2>4 DEF Settled, Labels, Snapshot, Restore, Extract, Switch
  <2>5. op'.pc \in Settled
    BY <1>0, <1>1, <2>3, <2>4 DEF Operations, At
  <2> QED
    BY <2>2, <2>5, NamedSettles
<1>4. ASSUME backupPublish PROVE Named'
  <2> DEFINE b == [own |-> TRUE, image |-> snapshotImage, data |-> op.copy,
                   net |-> op.net, applied |-> applied[op.p.home]]
  <2>1. \/ /\ backups' = Append(backups, b) /\ op' = At("backup.prune")
           /\ UNCHANGED <<profile, container, home, writer>>
        \/ UNCHANGED world /\ Faulty(backupFails)
    BY <1>4 DEF backupPublish, WriteFile
  <2> HIDE DEF b
  <2>2. CASE /\ backups' = Append(backups, b) /\ op' = At("backup.prune")
             /\ UNCHANGED <<profile, container, home, writer>>
    <3>1. Len(Append(backups, b)) = Len(backups) + 1 /\ Len(backups) \in Nat
      BY <1>0, LenProperties
    <3>2. backups' # << >>
      BY <2>2, <3>1
    <3>3. Went("backup.prune")
      BY <1>0, <2>2, Moves DEF Labels
    <3> QED
      BY <2>2, <3>2, <3>3 DEF Named, HomeImageKnown, Went
  <2>3. CASE UNCHANGED world /\ Faulty(backupFails)
    <3>1. NamedWorld
      BY <2>3, NamedStays DEF world
    <3> QED
      BY <1>1, <2>3, <3>1, NamedSettles
  <2> QED
    BY <2>1, <2>2, <2>3
<1>5. ASSUME backupPrune PROVE Named'
  <2>1. backups # << >>
    BY <1>5 DEF backupPrune, Named, NeedsCopy
  <2>2. backups' = newest(backups) \/ backups' = backups
    BY <1>5 DEF backupPrune, world
  <2>3. backups' # << >>
    BY <1>0, <2>1, <2>2, NewestKept
  <2>4. UNCHANGED <<profile, container, home, writer>>
    BY <1>5 DEF backupPrune, world
  <2>5. op' = backupReturns \/ Faulty(backupFails)
    BY <1>5 DEF backupPrune
  <2>6. op'.pc # "start.volume"
    BY <1>0, <2>5, RoutineEnds DEF Went
  <2>7. NamedWorld
    BY <2>3, <2>4 DEF Named, NamedWorld, HomeImageKnown
  <2> QED
    BY <2>3, <2>6, <2>7, NamedGoesOn
<1> QED
  BY <1>2, <1>3, <1>4, <1>5 DEF backup

\* restore, call by call: what it restores is a copy that stays, and the volume
\* it selects is filled (backup.go 460-591).
LEMMA RestoreNames ==
  ASSUME IInv, Story, Story', Named, OtherBackups = {}, restore
  PROVE  Named'
<1>1. op \in Operations /\ op.cmd = "restore"
  <2>1. op.pc \in Restored \cup {"restore.read"}
    BY DEF restore, restoreRead, restoreVolume, restoreExtract,
       restoreExtracting, restoreFiles, restoreRemove, restoreCommit,
       restoreCleanup, restoreUndoNetwork, restoreUndoVolume, Restored,
       Restore, Extract, Switch
  <2> QED
    BY <2>1 DEF Story, Returning, IInv, Fits, Gathered
<1>2. op'.cmd = "restore" /\ op'.pc # "start.volume"
  <2>1. op'.cmd = "restore"
    BY <1>1, SameCommand DEF Step
  <2> QED
    BY <2>1 DEF Story, Returning, Course, Snapshot, Restore, Extract, Switch
<1>3. backups' = backups
  BY DEF restore, restoreRead, restoreVolume, restoreExtract,
     restoreExtracting, restoreFiles, restoreRemove, restoreCommit,
     restoreCleanup, restoreUndoNetwork, restoreUndoVolume, Observe, Docker,
     WriteFile, setVolume, saveNetwork, removeContainer, world
<1>4. CASE restoreCleanup
  <2>1. /\ op.p \in Profiles /\ op.p.home # profile.home
        /\ profile.home \in Vols /\ home \in [Vols -> Content \cup {Absent}]
    BY <1>4 DEF restoreCleanup, IInv, Fits, Filling, WorldOK, WorldTypeOK,
       Profiles
  <2>2. /\ UNCHANGED <<profile, backups, container, writer>>
        /\ home'[profile.home] = home[profile.home]
    BY <1>4, <2>1 DEF restoreCleanup, Docker, setVolume, world
  <2>3. NamedWorld
    BY <2>2, NamedStays
  <2>4. op' = Done(TRUE) \/ Faulty(Done(TRUE))
    BY <1>4 DEF restoreCleanup, Docker
  <2>5. op'.pc \in Settled
    BY <1>1, <2>4, Moves DEF Went, Settled, Labels, Snapshot, Restore,
       Extract, Switch
  <2> QED
    BY <2>3, <2>5, NamedSettles
<1>5. CASE ~restoreCleanup
  <2>1. backups # << >>
    <3>1. CASE op.pc = "restore.read"
      <4>1. restoreRead
        BY <3>1 DEF restore, restoreVolume, restoreExtract,
           restoreExtracting, restoreFiles, restoreRemove, restoreCommit,
           restoreCleanup, restoreUndoNetwork, restoreUndoVolume
      <4>2. ToSet(backups) # {}
        BY <4>1 DEF restoreRead
      <4>3. ToSet(<< >>) = {}
        BY DEF ToSet
      <4> QED
        BY <4>2, <4>3
    <3>2. CASE op.pc # "restore.read"
      <4>1. op.pc \in Restore \cup {"restore.volume"}
        BY <1>5, <3>2 DEF restore, restoreRead, restoreVolume, restoreExtract,
           restoreExtracting, restoreFiles, restoreRemove, restoreCommit,
           restoreUndoNetwork, restoreUndoVolume, Restore, Extract, Switch
      <4> QED
        BY <4>1 DEF Named, NeedsCopy
    <3> QED
      BY <3>1, <3>2
  <2>2. writer' = profile'.home => home'[profile'.home] # Absent
    <3>1. CASE restoreCommit
      <4>1. /\ op.pc \in Switch /\ home[op.vol] = op.src.data
            /\ op.src \in Copies
        BY <3>1, RestoreKnows DEF restoreCommit, Switch, Restore
      <4>2. op.src.data # Absent
        BY <4>1, ConstantsAssumption DEF Copies, ConstantsAssumption
      <4>3. \/ /\ profile' = [image |-> op.src.image, home |-> op.vol]
               /\ home' = home
            \/ UNCHANGED world
        BY <3>1 DEF restoreCommit, WriteFile
      <4> QED
        BY <4>1, <4>2, <4>3 DEF Named, world
    <3>2. CASE restoreRead \/ restoreFiles \/ restoreRemove
               \/ restoreUndoNetwork
      <4>1. UNCHANGED <<profile, home, writer>>
        BY <3>2 DEF restoreRead, restoreFiles, restoreRemove,
           restoreUndoNetwork, Observe, Docker, WriteFile, saveNetwork,
           removeContainer, world
      <4> QED
        BY <4>1 DEF Named
    <3>3. CASE restoreVolume
      <4>1. op.p = profile /\ home \in [Vols -> Content \cup {Absent}]
            /\ profile.home \in Vols
        BY <3>3, RestoreKnows DEF restoreVolume
      <4>2. /\ UNCHANGED <<profile, writer>>
            /\ \/ home' = home
               \/ \E v \in Vols \ {op.p.home} : home' = [home EXCEPT ![v] = 0]
        BY <3>3 DEF restoreVolume, Docker, setVolume, world
      <4>3. home'[profile.home] = home[profile.home]
        BY <4>1, <4>2
      <4> QED
        BY <4>2, <4>3 DEF Named
    <3>4. CASE restoreExtract \/ restoreExtracting \/ restoreUndoVolume
      <4>1. home \in [Vols -> Content \cup {Absent}] /\ profile.home \in Vols
            /\ op.vol \in Vols /\ op.vol # profile.home
        BY <3>4, RestoreKnows DEF restoreExtract, restoreExtracting,
           restoreUndoVolume, Restore, Extract
      <4>2. /\ UNCHANGED <<profile, writer>>
            /\ \/ home' = home
               \/ \E x : home' = [home EXCEPT ![op.vol] = x]
        BY <3>4 DEF restoreExtract, restoreExtracting, restoreUndoVolume,
           Docker, setVolume, world
      <4>3. home'[profile.home] = home[profile.home]
        BY <4>1, <4>2
      <4> QED
        BY <4>2, <4>3 DEF Named
    <3> QED
      BY <1>5, <3>1, <3>2, <3>3, <3>4 DEF restore
  <2>3. NamedWorld
    BY <1>3, <2>1, <2>2 DEF NamedWorld, HomeImageKnown
  <2> QED
    BY <1>2, <1>3, <2>1, <2>3, NamedGoesOn
<1> QED
  BY <1>4, <1>5


\* Where a command goes on that notes a failed recovery call, or that has to
\* create the container again.
LEMMA MovesAside ==
  ASSUME op \in Operations, NEW l \in Labels
  PROVE  /\ op' = [At(l) EXCEPT !.disturbed = TRUE]
            \/ Faulty([At(l) EXCEPT !.disturbed = TRUE])
              => /\ op'.pc = l /\ op'.cmd = op.cmd /\ op'.p = op.p
                 /\ op'.phase = op.phase /\ op'.applied0 = op.applied0
                 /\ op'.c = op.c /\ op'.sel = op.sel /\ op'.disturbed
         /\ Faulty([At(l) EXCEPT !.phase = "rollback"])
              => /\ op'.pc = l /\ op'.cmd = op.cmd /\ op'.p = op.p
                 /\ op'.phase = "rollback"
<1> DEFINE n == At(l)
<1>1. n \in Operations /\ n.pc = l /\ Same(n)
  BY Goes
<1> HIDE DEF n
<1>2. ASSUME NEW o, o = [n EXCEPT !.disturbed = TRUE], op' = o \/ Faulty(o)
      PROVE  /\ op'.pc = l /\ op'.cmd = op.cmd /\ op'.p = op.p
             /\ op'.phase = op.phase /\ op'.applied0 = op.applied0
             /\ op'.c = op.c /\ op'.sel = op.sel /\ op'.disturbed
  <2>1. o \in Operations
    BY <1>1, <1>2, Fields
  <2>2. /\ o.pc = l /\ o.cmd = op.cmd /\ o.p = op.p /\ o.phase = op.phase
        /\ o.applied0 = op.applied0 /\ o.c = op.c /\ o.sel = op.sel
        /\ o.disturbed
    BY <1>1, <1>2 DEF Same, Operations
  <2> QED
    BY <1>2, <2>1, <2>2, Counted
<1>3. ASSUME NEW o, o = [n EXCEPT !.phase = "rollback"], Faulty(o)
      PROVE  /\ op'.pc = l /\ op'.cmd = op.cmd /\ op'.p = op.p
             /\ op'.phase = "rollback"
  <2>1. o \in Operations
    BY <1>1, <1>3, Fields
  <2>2. /\ o.pc = l /\ o.cmd = op.cmd /\ o.p = op.p /\ o.phase = "rollback"
    BY <1>1, <1>3 DEF Same, Operations
  <2> QED
    BY <1>3, <2>1, <2>2, Counted
<1> QED
  BY <1>2, <1>3 DEF n

\* Where both updates go on.
Leads == {"image.resolve", "backup.observe", "image.save", "done",
          "update.resume", "start.observe", "update.fail", "image.verify",
          "update.finish"}

LEMMA UpdateLeads ==
  ASSUME op \in Operations, update
  PROVE  op'.pc \in Leads
<1>1. ASSUME NEW l \in {"image.save", "image.verify", "update.finish",
                        "update.resume", "update.fail"},
             \/ op' = At(l) \/ Faulty(At(l))
             \/ op' = [At(l) EXCEPT !.disturbed = TRUE]
             \/ Faulty([At(l) EXCEPT !.disturbed = TRUE])
      PROVE  op'.pc \in Leads
  <2>1. l \in Labels \cap Leads
    BY DEF Labels, Leads
  <2>2. CASE op' = At(l) \/ Faulty(At(l))
    BY <2>1, <2>2, Moves DEF Went
  <2>3. CASE \/ op' = [At(l) EXCEPT !.disturbed = TRUE]
             \/ Faulty([At(l) EXCEPT !.disturbed = TRUE])
    <3>1. op'.pc = l
      BY <2>1, <2>3, MovesAside
    <3> QED
      BY <2>1, <3>1
  <2> QED
    BY <1>1, <2>2, <2>3
<1>2. ASSUME NEW ok \in BOOLEAN, op' = Done(ok) \/ Faulty(Done(ok))
      PROVE  op'.pc \in Leads
  BY <1>2, Moves DEF Went, Leads
<1>3. ASSUME imageObserve \/ appsObserve PROVE op'.pc \in Leads
  <2>1. \/ op' = Done(FALSE) \/ Faulty(Done(FALSE))
        \/ op' = [op EXCEPT !.c = container, !.pc = "image.resolve"]
        \/ op' = [op EXCEPT !.c = container, !.pc = "backup.observe"]
    BY <1>3 DEF imageObserve, appsObserve, Observe
  <2> QED
    BY <1>2, <2>1 DEF Operations, Leads
<1>4. ASSUME imageResolve PROVE op'.pc \in Leads
  <2>1. \/ op' = At("update.fail") \/ Faulty(At("update.fail"))
        \/ \E i : op' = [op EXCEPT !.sel = i, !.pc = "backup.observe"]
    BY <1>4 DEF imageResolve
  <2> QED
    BY <1>1, <2>1 DEF Operations, Leads
<1>5. ASSUME imageSave PROVE op'.pc \in Leads
  <2>1. \/ Faulty([At("start.observe") EXCEPT !.phase = "rollback"])
        \/ Faulty(At("update.fail"))
        \/ \E p : op' = [op EXCEPT !.p = p, !.phase = "after",
                                  !.pc = "start.observe"]
    BY <1>5 DEF imageSave, WriteFile
  <2>2. CASE Faulty([At("start.observe") EXCEPT !.phase = "rollback"])
    BY <2>2, MovesAside DEF Labels, Leads
  <2>3. CASE Faulty(At("update.fail"))
    BY <1>1, <2>3
  <2>4. CASE \E p : op' = [op EXCEPT !.p = p, !.phase = "after",
                                    !.pc = "start.observe"]
    BY <2>4 DEF Operations, Leads
  <2> QED
    BY <2>1, <2>2, <2>3, <2>4
<1>6. ASSUME imageRemove \/ imagePackages \/ imageVerify \/ appsUpdate
             \/ updateResume \/ updateFinish \/ updateFail
      PROVE  op'.pc \in Leads
  <2>1. \E l \in {"image.save", "image.verify", "update.finish",
                  "update.resume", "update.fail"}, ok \in BOOLEAN :
           \/ op' = At(l) \/ Faulty(At(l))
           \/ op' = Done(ok) \/ Faulty(Done(ok))
           \/ op' = [At(l) EXCEPT !.disturbed = TRUE]
           \/ Faulty([At(l) EXCEPT !.disturbed = TRUE])
    BY <1>6 DEF imageRemove, imagePackages, imageVerify, imageChecks,
       appsUpdate, updateResume, updateFinish, updateFail, Observe, Docker
  <2> QED
    BY <1>1, <1>2, <2>1
<1> QED
  BY <1>3, <1>4, <1>5, <1>6 DEF update

\* Both updates: the container is removed after the copy was completed, and the
\* chosen image is saved (image_updates.go 83-107).
LEMMA UpdateNames ==
  ASSUME IInv, Named, update
  PROVE  Named'
<1>0. /\ op \in Operations /\ op.p = profile /\ profile \in Profiles
      /\ container \in Containers \cup {None}
      /\ None \notin Images \cup Containers
  <2>1. op \in Operations /\ op.p = profile
    BY DEF IInv, Fits, OnSavedProfile, update, imageObserve, imageResolve,
       imageRemove, imageSave, imagePackages, imageVerify, imageChecks,
       appsObserve, appsUpdate, updateResume, updateFinish, updateFail
  <2> QED
    BY <2>1, ConstantsAssumption
       DEF IInv, WorldOK, WorldTypeOK, ConstantsAssumption
<1>1. op'.pc \in Leads
  BY <1>0, UpdateLeads
<1>2. op'.pc \in Settled
  BY <1>1 DEF Leads, Labels, Settled, Snapshot, Restore, Extract, Switch
<1>3. CASE imageRemove
  <2>1. backups # << >> /\ UNCHANGED <<profile, backups, home, writer>>
    BY <1>3 DEF imageRemove, Named, NeedsCopy, Observe, Docker,
       removeContainer, world
  <2>2. NamedWorld
    BY <2>1 DEF Named, NamedWorld, HomeImageKnown
  <2> QED
    BY <1>2, <2>2, NamedSettles
<1>4. CASE imageSave
  <2> DEFINE p == [op.p EXCEPT !.image = op.sel]
  <2>1. op.sel \in Images
    BY <1>4 DEF imageSave, IInv, Fits, Gathered
  <2>2. p.home = profile.home /\ p.image # None
    BY <1>0, <2>1 DEF Profiles
  <2>3. saveProfile(p) \/ UNCHANGED world
    BY <1>4 DEF imageSave, WriteFile
  <2> HIDE DEF p
  <2>4. NamedWorld
    BY <2>2, <2>3, NamedStays DEF saveProfile, world
  <2> QED
    BY <1>2, <2>4, NamedSettles
<1>5. CASE appsUpdate
  <2>1. UNCHANGED world \/ (Running /\ Save(container.home))
    BY <1>5 DEF appsUpdate, Docker
  <2>2. ASSUME Running, Save(container.home) PROVE NamedWorld
    <3>1. Save(profile.home) /\ container # None
      BY <2>2 DEF Running, IInv, WorldOK, RuntimeIsSelected
    <3>2. home'[profile.home] # Absent /\ container' = container
          /\ profile' = profile /\ writer' = writer /\ backups' = backups
      BY <3>1, Saved, SaveFiles DEF IInv
    <3> QED
      BY <3>1, <3>2 DEF NamedWorld, HomeImageKnown
  <2>3. UNCHANGED world => NamedWorld
    BY NamedStays DEF world
  <2> QED
    BY <1>2, <2>1, <2>2, <2>3, NamedSettles
<1>6. CASE \/ imageObserve \/ imageResolve \/ imagePackages \/ imageVerify
           \/ appsObserve \/ updateResume \/ updateFinish \/ updateFail
  <2>1. UNCHANGED <<profile, backups, home, writer>>
    BY <1>6 DEF imageObserve, imageResolve, imagePackages, imageVerify,
       imageChecks, appsObserve, updateResume, updateFinish, updateFail,
       Observe, Docker, startContainer, world
  <2>2. \/ container' = container
        \/ container # None /\ container' = [container EXCEPT !.running = TRUE]
    BY <1>6 DEF imageObserve, imageResolve, imagePackages, imageVerify,
       imageChecks, appsObserve, updateResume, updateFinish, updateFail,
       Observe, Docker, startContainer, world
  <2>3. container # None => [container EXCEPT !.running = TRUE] \in Containers
    BY <1>0 DEF Containers
  <2>4. NamedWorld
    BY <1>0, <2>1, <2>2, <2>3, NamedStays
  <2> QED
    BY <1>2, <2>4, NamedSettles
<1> QED
  BY <1>3, <1>4, <1>5, <1>6 DEF update

\* Around a command: only a container that runs or a project's container
\* changes the files, and a container is lost only where a selection is saved.
LEMMA AroundNames ==
  ASSUME IInv, Named, Around
  PROVE  Named'
<1>0. op \in Operations /\ container \in Containers \cup {None}
      /\ None \notin Containers
  BY ConstantsAssumption
     DEF IInv, Fits, WorldOK, WorldTypeOK, ConstantsAssumption
<1>1. op'.pc = op.pc /\ op'.p = op.p /\ op'.cmd = op.cmd
  <2>1. ASSUME Disturb PROVE op'.pc = op.pc /\ op'.p = op.p /\ op'.cmd = op.cmd
    BY <1>0, <2>1, Noted
  <2>2. Disturb \/ op' = op
    BY DEF Around, UserSaves, DesktopExits, ContainerLost, HomeLost,
       WriterStarts, WriterSaves, WriterStops, TagMoves, ImageRemoved
  <2> QED
    BY <2>1, <2>2
<1>2. backups' = backups /\ profile' = profile
  BY DEF Around, UserSaves, DesktopExits, ContainerLost, HomeLost, WriterStarts,
     WriterSaves, WriterStops, TagMoves, ImageRemoved, Save, stopContainer,
     removeContainer
<1>3. /\ HomeImageKnown'
      /\ writer' = profile'.home => home'[profile'.home] # Absent
  <2>1. CASE UserSaves \/ WriterSaves
    <3>1. Save(profile.home)
      BY <2>1 DEF UserSaves, WriterSaves, Running, IInv, WorldOK,
         RuntimeIsSelected
    <3>2. home'[profile.home] # Absent /\ container' = container
      BY <3>1, Saved, SaveFiles DEF IInv
    <3>3. container # None \/ home[profile.home] # Absent
      BY <2>1 DEF UserSaves, WriterSaves, Running, Named
    <3> QED
      BY <1>2, <3>2, <3>3 DEF Named, HomeImageKnown
  <2>2. CASE DesktopExits
    <3>1. container # None => [container EXCEPT !.running = FALSE] \in Containers
      BY <1>0 DEF Containers
    <3> QED
      BY <1>0, <1>2, <2>2, <3>1 DEF DesktopExits, stopContainer, Named,
         HomeImageKnown
  <2>3. CASE ContainerLost
    BY <1>2, <2>3 DEF ContainerLost, removeContainer, Named, HomeImageKnown
  <2>4. CASE HomeLost
    <3>1. profile.home \in Vols /\ home \in [Vols -> Content \cup {Absent}]
      BY DEF IInv, WorldOK, WorldTypeOK, Profiles
    <3> QED
      BY <1>2, <2>4, <3>1 DEF HomeLost, HomeImageKnown
  <2>5. CASE WriterStarts \/ WriterStops
    <3>1. None \notin Vols /\ profile.home \in Vols
      BY ConstantsAssumption
         DEF ConstantsAssumption, IInv, WorldOK, WorldTypeOK, Profiles
    <3> QED
      BY <1>2, <2>5, <3>1 DEF WriterStarts, WriterStops, Named,
         HomeImageKnown
  <2>6. CASE \E i \in Images : TagMoves(i) \/ ImageRemoved(i)
    BY <1>2, <2>6 DEF TagMoves, ImageRemoved, Named, HomeImageKnown
  <2> QED
    BY <2>1, <2>2, <2>3, <2>4, <2>5, <2>6 DEF Around
<1> QED
  BY <1>1, <1>2, <1>3 DEF Named, NeedsCopy

LEMMA NamedHolds ==
  ASSUME OtherBackups = {}, IInv, Story, Named, [Next]_vars
  PROVE  Named'
<1>1. CASE Step
  BY <1>1, StoryGoesOn, StartNames, StopNames, SnapshotNames, BackupNames,
     RestoreNames, UpdateNames DEF Step
<1>2. CASE (\E cmd \in Commands : Begin(cmd)) \/ Return \/ Killed
  <2>1. UNCHANGED world
    BY <1>2 DEF Begin, Return, Killed
  <2>2. NamedWorld
    BY <2>1, NamedStays DEF world
  <2>3. \/ op'.pc = "idle"
        \/ \E cmd \in Commands : op'.pc = Entry(cmd)
    <3>1. ASSUME NEW cmd \in Commands, Begin(cmd) PROVE op'.pc = Entry(cmd)
      BY <3>1 DEF Begin, Idle
    <3>2. Return \/ Killed => op'.pc = "idle"
      BY DEF Return, Killed, Idle
    <3> QED
      BY <1>2, <3>1, <3>2
  <2>4. \A cmd \in AllCommands : Entry(cmd) \in Settled /\ "idle" \in Settled
    BY DEF Entry, AllCommands, Settled, Labels, Snapshot, Restore, Extract,
       Switch
  <2>5. "start" \in AllCommands /\ Commands \subseteq AllCommands
    BY ConstantsAssumption DEF ConstantsAssumption, AllCommands
  <2> QED
    BY <2>2, <2>3, <2>4, <2>5, NamedSettles
<1>3. CASE Around
  BY <1>3, AroundNames
<1>4. CASE UNCHANGED vars
  BY <1>4 DEF vars, world, Named, HomeImageKnown, NeedsCopy
<1> QED
  BY <1>1, <1>2, <1>3, <1>4 DEF Next

\* main.go 562, docs/image-updates.md 5.  Where no copies of other installations
\* are in reach, the personal files are never left with an image nobody knows.
\* With such copies a restore that is killed can leave them so: an older profile
\* names no image, and its container is removed before the new profile is saved.
THEOREM HomeImageIsKnown ==
  ASSUME OtherBackups = {}
  PROVE  Spec => []HomeImageKnown
<1>1. Init => Named
  <2>1. ASSUME Init PROVE HomeImageKnown
    <3>1. [v \in Vols |-> Absent][FirstVol] = Absent
      BY ConstantsAssumption DEF ConstantsAssumption
    <3>2. ASSUME Older PROVE container # None
      BY <3>2, ConstantsAssumption DEF Older, Containers, ConstantsAssumption
    <3> QED
      BY <2>1, <3>1, <3>2 DEF Init, Installed, HomeImageKnown
  <2>2. ASSUME Init PROVE writer # profile.home
    BY <2>2, ConstantsAssumption DEF Init, Installed, Older,
       ConstantsAssumption
  <2> QED
    BY <2>1, <2>2 DEF Init, Idle, Named, NeedsCopy, Restore, Extract, Switch,
       Snapshot
<1>2. IInv /\ Story /\ Named /\ [Next]_vars => Named'
  BY NamedHolds
<1>3. Named => HomeImageKnown
  BY DEF Named
<1> QED
  BY <1>1, <1>2, <1>3, Invariant, StoryHolds, PTL DEF Spec

(***************************************************************************)
(* update-image.                                                           *)
(***************************************************************************)
\* Once the selection is saved, or saving it has failed, an update works on the
\* image it has chosen and takes no other.
LEMMA UpgradeIsLate ==
  ASSUME op'.cmd = "update-image", op'.phase \in {"after", "rollback"},
         op'.pc \in Upgrade \ {"image.observe", "image.resolve", "done"},
         op'.pc \in Checks => op'.phase = "after",
         op'.phase = "after" => /\ op'.p.image = op'.sel /\ op'.sel \in Images
                                /\ op'.pc # "start.adopt"
  PROVE  Upgrading'
  BY DEF Upgrading

\* start, called by update-image.
LEMMA StartUpgrades ==
  ASSUME IInv, Upgrading, op.cmd = "update-image", start
  PROVE  Upgrading'
<1>0. /\ op \in Operations /\ op.p = profile /\ profile \in Profiles
      /\ op.pc \in Starts /\ op'.cmd = "update-image"
      /\ op.phase \in {"after", "rollback"}
      /\ op.phase = "after" => /\ op.p.image = op.sel /\ op.sel \in Images
                               /\ op.pc # "start.adopt"
      /\ None \notin Images \cup Containers
  <2>1. op.pc \in Starts
    BY DEF start, startObserve, startAdopt, startResolve, startSelect,
       startVolume, startCreate, syncNetwork, startRun, startAwait, Starts
  <2>2. op \in Operations /\ op.p = profile /\ profile \in Profiles
    BY <2>1 DEF IInv, Fits, OnSavedProfile, WorldOK, WorldTypeOK, Starts
  <2>3. op'.cmd = "update-image"
    BY <2>2, SameCommand DEF Step
  <2>4. op.phase \in {"before", "after", "rollback"}
    BY <2>2 DEF Operations
  <2> QED
    BY <2>1, <2>2, <2>3, <2>4, ConstantsAssumption
       DEF Upgrading, ConstantsAssumption
<1>1. ASSUME NEW l \in {"start.create", "start.network", "start.run",
                        "start.await", "start.volume"}, op' = At(l)
      PROVE  Upgrading'
  <2>1. Went(l)
    BY <1>0, <1>1, Moves DEF Labels
  <2>2. l \in Upgrade \ Checks
    BY DEF Upgrade, Checks, Starts, Snapshot, Copy, Copied
  <2> QED
    BY <1>0, <2>1, <2>2, UpgradeIsLate DEF Went
<1>2. ASSUME op' = startFails \/ Faulty(startFails) PROVE Upgrading'
  <2>1. Went("update.fail")
    BY <1>0, <1>2, RoutineEnds
  <2>2. "update.fail" \in Upgrade \ Checks
    BY DEF Upgrade, Checks
  <2> QED
    BY <1>0, <2>1, <2>2, UpgradeIsLate DEF Went
<1>3. ASSUME op' = startReturns PROVE Upgrading'
  <2>1. CASE op.phase = "rollback"
    <3>1. Went("update.fail")
      BY <1>0, <1>3, <2>1, RoutineEnds
    <3>2. "update.fail" \in Upgrade \ Checks
      BY DEF Upgrade, Checks
    <3> QED
      BY <1>0, <3>1, <3>2, UpgradeIsLate DEF Went
  <2>2. CASE op.phase = "after"
    <3>1. Went("image.packages")
      BY <1>0, <1>3, <2>2, RoutineEnds
    <3>2. "image.packages" \in Upgrade
      BY DEF Upgrade, Checks
    <3> QED
      BY <1>0, <2>2, <3>1, <3>2, UpgradeIsLate DEF Went
  <2> QED
    BY <1>0, <2>1, <2>2
<1>4. ASSUME startObserve PROVE Upgrading'
  <2> DEFINE l == afterObserve(op.p, container)
  <2>1. /\ l \in {"start.resolve", "start.adopt", "start.network",
                  "start.await"}
        /\ op.p.image # None => l # "start.adopt"
    BY DEF afterObserve
  <2>2. l \in Upgrade \ Checks
    BY <2>1 DEF Upgrade, Starts, Checks
  <2> HIDE DEF l
  <2>3. \/ op' = [op EXCEPT !.seen = container, !.pc = l]
        \/ Faulty(startFails)
    BY <1>4 DEF startObserve, Observe, l
  <2>4. ASSUME op' = [op EXCEPT !.seen = container, !.pc = l]
        PROVE  Upgrading'
    <3>1. op'.pc = l /\ op'.phase = op.phase /\ op'.p = op.p
          /\ op'.sel = op.sel
      BY <1>0, <2>4 DEF Operations
    <3> QED
      BY <1>0, <2>1, <2>2, <3>1, UpgradeIsLate
  <2> QED
    BY <1>2, <2>3, <2>4
<1>5. ASSUME startAdopt PROVE Upgrading'
  <2>1. op.phase = "rollback"
    BY <1>0, <1>5 DEF startAdopt
  <2> DEFINE p == [op.p EXCEPT !.image = op.seen.image]
             l == afterObserve(p, op.seen)
  <2>2. l \in {"start.resolve", "start.adopt", "start.network", "start.await"}
    BY DEF afterObserve
  <2>3. l \in Upgrade \ Checks
    BY <2>2 DEF Upgrade, Starts, Checks
  <2> HIDE DEF l, p
  <2>4. \/ op' = [op EXCEPT !.p = p, !.pc = l]
        \/ Faulty(startFails)
    BY <1>5 DEF startAdopt, WriteFile, l, p
  <2>5. ASSUME op' = [op EXCEPT !.p = p, !.pc = l]
        PROVE  Upgrading'
    <3>1. op'.pc = l /\ op'.phase = op.phase
      BY <1>0, <2>5 DEF Operations
    <3> QED
      BY <1>0, <2>1, <2>2, <2>3, <3>1, UpgradeIsLate
  <2> QED
    BY <1>2, <2>4, <2>5
<1>6. ASSUME startResolve PROVE Upgrading'
  <2>1. \/ op' = startFails \/ Faulty(startFails)
        \/ \E i : /\ op' = [op EXCEPT !.sel = i, !.pc = "start.select"]
                  /\ op.p.image # None => i = op.p.image
    BY <1>6 DEF startResolve, Observe, Docker, selectedImageReference
  <2>2. ASSUME NEW i, op' = [op EXCEPT !.sel = i, !.pc = "start.select"],
               op.p.image # None => i = op.p.image
        PROVE  Upgrading'
    <3>1. op'.pc = "start.select" /\ op'.phase = op.phase /\ op'.p = op.p
          /\ op'.sel = i
      BY <1>0, <2>2 DEF Operations
    <3>2. "start.select" \in Upgrade \ Checks
      BY DEF Upgrade, Starts, Checks
    <3> QED
      BY <1>0, <2>2, <3>1, <3>2, UpgradeIsLate
  <2> QED
    BY <1>2, <2>1, <2>2
<1>7. ASSUME startSelect PROVE Upgrading'
  <2> DEFINE p == [op.p EXCEPT !.image = op.sel]
  <2>1. \/ op' = [op EXCEPT !.p = p, !.pc = "start.volume"] /\ op.p.image = None
        \/ op' = At("start.volume") \/ Faulty(startFails)
    BY <1>7 DEF startSelect, WriteFile, Observe
  <2> HIDE DEF p
  <2>2. ASSUME op' = [op EXCEPT !.p = p, !.pc = "start.volume"],
               op.p.image = None
        PROVE  Upgrading'
    <3>1. op'.pc = "start.volume" /\ op'.phase = op.phase
      BY <1>0, <2>2 DEF Operations
    <3>2. op.phase = "rollback"
      BY <1>0, <2>2
    <3>3. "start.volume" \in Upgrade \ Checks
      BY DEF Upgrade, Starts, Checks
    <3> QED
      BY <1>0, <3>1, <3>2, <3>3, UpgradeIsLate
  <2> QED
    BY <1>1, <1>2, <2>1, <2>2
<1>8. ASSUME startVolume \/ startCreate \/ syncNetwork \/ startRun
             \/ startAwait
      PROVE  Upgrading'
  <2>1. \/ op' = startFails \/ op' = startReturns \/ Faulty(startFails)
        \/ \E l \in {"start.create", "start.network", "start.run",
                     "start.await", "start.volume"} : op' = At(l)
    BY <1>8 DEF startVolume, startCreate, syncNetwork, startRun, startAwait,
       Observe, Docker
  <2> QED
    BY <1>1, <1>2, <1>3, <2>1
<1> QED
  BY <1>4, <1>5, <1>6, <1>7, <1>8 DEF start

\* Until then an update knows what it has read, and the container it has seen
\* is as it was wherever the update may still end well for it.
LEMMA UpgradeStays ==
  ASSUME Upgrading, op.cmd = "update-image", op'.cmd = "update-image",
         op'.p = op.p, op'.c = op.c, op'.sel = op.sel, op'.phase = op.phase,
         op'.applied0 = op.applied0, op'.disturbed = op.disturbed,
         UNCHANGED <<profile, applied>>,
         op'.pc \in Upgrade \ (Starts \cup Checks \cup
                        {"image.observe", "image.resolve", "done"}),
         container' # None =>
             container # None /\ container'.image = container.image,
         op'.pc \in Session => op.pc \in Session /\ container' = container
  PROVE  Upgrading'
<1>1. op'.pc # "start.adopt"
  BY DEF Starts
<1>2. /\ op'.phase = "after" => op'.p.image = op'.sel /\ op'.sel \in Images
      /\ op'.phase = "before" => applied'[profile'.home] = op'.applied0
  BY DEF Upgrading
<1>3. ASSUME op'.phase = "before", op'.c # None, op'.c.running, ~op'.disturbed
      PROVE  /\ op'.c.home = profile'.home
             /\ container' # None => container'.image = op'.c.image
             /\ op'.pc \in Session /\ container' # None => container' = op'.c
  BY <1>3 DEF Upgrading
<1> QED
  BY <1>1, <1>2, <1>3 DEF Upgrading

\* stopForSnapshot and backup, called by update-image.
LEMMA BackupUpgrades ==
  ASSUME IInv, Upgrading, op.cmd = "update-image", stopForSnapshot \/ backup
  PROVE  Upgrading'
<1>0. /\ op \in Operations /\ container \in Containers \cup {None}
      /\ None \notin Containers /\ op'.cmd = "update-image"
  <2>1. op \in Operations
    BY DEF IInv, Fits
  <2> QED
    BY <2>1, SameCommand, ConstantsAssumption
       DEF Step, IInv, WorldOK, WorldTypeOK, ConstantsAssumption
<1> DEFINE Beyond == Upgrade \ (Starts \cup Checks \cup Session
                     \cup {"image.observe"})
<1>1. /\ {"backup.copy", "snapshot.recheck", "backup.copying",
          "backup.recheck", "backup.publish", "backup.prune", "image.remove",
          "update.resume"} \subseteq Beyond
      /\ {"snapshot.writers", "snapshot.stop"} \subseteq
             Upgrade \ (Starts \cup Checks \cup
                        {"image.observe", "image.resolve", "done"})
      /\ {"image.resolve", "done"} \subseteq Session
  BY DEF Upgrade, Starts, Checks, Session, Snapshot, Copy, Copied
<1> HIDE DEF Beyond
<1>2. ASSUME NEW l \in Beyond, Went(l), UNCHANGED <<profile, applied>>,
             container' # None =>
                 container # None /\ container'.image = container.image
      PROVE  Upgrading'
  <2>1. /\ op'.pc \notin Session
        /\ op'.pc \in Upgrade \ (Starts \cup Checks \cup
                        {"image.observe", "image.resolve", "done"})
    BY <1>1, <1>2 DEF Beyond, Went
  <2> QED
    BY <1>0, <1>2, <2>1, UpgradeStays DEF Went
<1>3. ASSUME \/ op' = backupFails \/ Faulty(backupFails) \/ op' = snapshotFails
             \/ Faulty(snapshotFails)
      PROVE  Went("update.resume")
  BY <1>0, <1>3, RoutineEnds
<1>4. UNCHANGED <<profile, applied>>
  BY DEF stopForSnapshot, snapshotWriters, snapshotStop, snapshotRecheck,
     backup, backupObserve, backupCopy, backupCopying, backupRecheck,
     backupPublish, backupPrune, Observe, Docker, WriteFile, stopContainer,
     world
<1>5. \/ container' = container
      \/ container # None /\ container' = [container EXCEPT !.running = FALSE]
  BY DEF stopForSnapshot, snapshotWriters, snapshotStop, snapshotRecheck,
     backup, backupObserve, backupCopy, backupCopying, backupRecheck,
     backupPublish, backupPrune, Observe, Docker, WriteFile, stopContainer,
     world
<1>6. container' # None =>
          container # None /\ container'.image = container.image
  BY <1>0, <1>5 DEF Containers
<1>7. ASSUME snapshotWriters PROVE Upgrading'
  <2>1. container' = container
    BY <1>7 DEF snapshotWriters, Observe, world
  <2>2. CASE op' = At("snapshot.stop")
    <3>1. Went("snapshot.stop")
      BY <1>0, <2>2, Moves DEF Labels
    <3>2. op.pc \in Session
      BY <1>7 DEF snapshotWriters, Session
    <3> QED
      BY <1>0, <1>1, <1>4, <1>6, <2>1, <3>1, <3>2, UpgradeStays DEF Went
  <2>3. CASE op' = snapshotFails \/ Faulty(snapshotFails)
    BY <1>1, <1>2, <1>3, <1>4, <1>6, <2>3
  <2> QED
    BY <1>7, <2>2, <2>3 DEF snapshotWriters, Observe
<1>8. ASSUME snapshotStop \/ snapshotRecheck \/ backupRecheck
             \/ backupPublish \/ backupPrune
      PROVE  Upgrading'
  <2>1. \/ \E l \in {"snapshot.recheck", "backup.copy", "backup.publish",
                     "backup.prune"} : op' = At(l)
        \/ op' = backupReturns \/ op' = backupFails \/ Faulty(backupFails)
        \/ op' = snapshotFails \/ Faulty(snapshotFails)
    BY <1>8 DEF snapshotStop, snapshotRecheck, backupRecheck, backupPublish,
       backupPrune, Observe, Docker, WriteFile
  <2>2. ASSUME NEW l \in {"snapshot.recheck", "backup.copy", "backup.publish",
                          "backup.prune"}, op' = At(l)
        PROVE  Upgrading'
    <3>1. Went(l)
      BY <1>0, <2>2, Moves DEF Labels
    <3> QED
      BY <1>1, <1>2, <1>4, <1>6, <3>1
  <2>3. ASSUME op' = backupReturns PROVE Upgrading'
    <3>1. Went("image.remove")
      BY <1>0, <2>3, RoutineEnds
    <3> QED
      BY <1>1, <1>2, <1>4, <1>6, <3>1
  <2> QED
    BY <1>1, <1>2, <1>3, <1>4, <1>6, <2>1, <2>2, <2>3
<1>9. ASSUME backupObserve \/ backupCopy \/ backupCopying PROVE Upgrading'
  <2>1. container' = container
    BY <1>9 DEF backupObserve, backupCopy, backupCopying, Observe, world
  <2>2. \/ op' = backupFails \/ Faulty(backupFails)
        \/ /\ op.pc = "backup.observe"
           /\ op' = [op EXCEPT !.seen = container, !.pc = "snapshot.writers"]
        \/ \E x, y : op' = [op EXCEPT !.copy = x, !.net = y,
                                      !.pc = "backup.copying"]
        \/ \E x : op' = [op EXCEPT !.copy = x, !.pc = "backup.recheck"]
    BY <1>9 DEF backupObserve, backupCopy, backupCopying, Observe
  <2>3. CASE op' = backupFails \/ Faulty(backupFails)
    BY <1>1, <1>2, <1>3, <1>4, <1>6, <2>3
  <2>4. CASE ~(op' = backupFails \/ Faulty(backupFails))
    <3>1. /\ op'.p = op.p /\ op'.c = op.c /\ op'.sel = op.sel
          /\ op'.phase = op.phase /\ op'.applied0 = op.applied0
          /\ op'.disturbed = op.disturbed
      <4>1. CASE op' = [op EXCEPT !.seen = container, !.pc = "snapshot.writers"]
        BY <1>0, <4>1 DEF Operations
      <4>2. CASE \E x, y : op' = [op EXCEPT !.copy = x, !.net = y,
                                            !.pc = "backup.copying"]
        BY <1>0, <4>2 DEF Operations
      <4>3. CASE \E x : op' = [op EXCEPT !.copy = x, !.pc = "backup.recheck"]
        BY <1>0, <4>3 DEF Operations
      <4> QED
        BY <2>2, <2>4, <4>1, <4>2, <4>3
    <3>2. \/ op.pc = "backup.observe" /\ op'.pc = "snapshot.writers"
          \/ op'.pc \in {"backup.copying", "backup.recheck"}
      BY <1>0, <2>2, <2>4 DEF Operations
    <3>3. op.pc = "backup.observe" => op.pc \in Session
      BY DEF Session
    <3>4. /\ op'.pc \in Upgrade \ (Starts \cup Checks \cup
                        {"image.observe", "image.resolve", "done"})
          /\ op'.pc \in Session => op.pc \in Session
      BY <1>1, <3>2, <3>3 DEF Beyond
    <3> QED
      BY <1>0, <1>4, <1>6, <2>1, <3>1, <3>4, UpgradeStays
  <2> QED
    BY <2>3, <2>4
<1> QED
  BY <1>7, <1>8, <1>9 DEF stopForSnapshot, backup

\* The steps of update-image itself (image_updates.go 38-170).
LEMMA ImageUpgrades ==
  ASSUME IInv, Upgrading, op.cmd = "update-image", update
  PROVE  Upgrading'
<1>0. /\ op \in Operations /\ op.p = profile /\ profile \in Profiles
      /\ container \in Containers \cup {None}
      /\ op.c \in Containers \cup {None}
      /\ None \notin Images \cup Containers /\ op'.cmd = "update-image"
      /\ container # None => container.home = profile.home
  <2>1. op \in Operations /\ op.p = profile
    BY DEF IInv, Fits, OnSavedProfile, update, imageObserve, imageResolve,
       imageRemove, imageSave, imagePackages, imageVerify, imageChecks,
       appsObserve, appsUpdate, updateResume, updateFinish, updateFail
  <2>2. op.c \in Containers \cup {None} /\ op'.cmd = "update-image"
    BY <2>1, SameCommand DEF Step, Operations
  <2> QED
    BY <2>1, <2>2, ConstantsAssumption
       DEF IInv, WorldOK, WorldTypeOK, ConstantsAssumption, RuntimeIsSelected
<1>1. /\ {"image.resolve", "backup.observe", "update.fail", "done"}
             \subseteq Session
      /\ Session \subseteq Upgrade
      /\ Session \cap (Starts \cup Checks \cup {"image.observe"}) = {}
      /\ {"image.save", "update.resume"} \subseteq Upgrade
      /\ {"image.save", "update.resume"} \cap
             (Session \cup Starts \cup Checks \cup {"image.observe"}) = {}
      /\ Checks \subseteq Upgrade /\ Starts \subseteq Upgrade
      /\ Checks \cap (Starts \cup Session) = {}
      /\ "start.observe" \in Starts \ (Checks \cup Session)
      /\ {"image.verify", "update.finish", "image.packages"} \subseteq Checks
      /\ {"image.observe", "image.remove"} \cap (Session \cup Checks) = {}
  BY DEF Session, Upgrade, Starts, Checks, Snapshot
<1>2. CASE imageObserve
  <2>1. UNCHANGED world
    BY <1>2 DEF imageObserve, Observe
  <2>2. op.phase = "before" /\ op.c = None /\ op.applied0 = applied[profile.home]
    BY <1>2 DEF imageObserve, Upgrading
  <2>3. CASE op' = [op EXCEPT !.c = container, !.pc = "image.resolve"]
    <3>1. /\ op'.c = container /\ op'.pc = "image.resolve"
          /\ op'.phase = "before" /\ op'.applied0 = op.applied0
      BY <1>0, <2>2, <2>3 DEF Operations
    <3> QED
      BY <1>0, <1>1, <2>1, <2>2, <3>1 DEF Upgrading, world
  <2>4. CASE op' = Done(FALSE) \/ Faulty(Done(FALSE))
    <3>1. Went("done") /\ ~op'.ok
      BY <1>0, <2>4, Moves
    <3> QED
      BY <1>0, <1>1, <2>1, <2>2, <3>1 DEF Upgrading, world, Went
  <2> QED
    BY <1>2, <2>3, <2>4 DEF imageObserve, Observe
<1>3. CASE imageResolve
  <2>1. UNCHANGED <<profile, container, applied>>
    BY <1>3 DEF imageResolve
  <2>2. /\ op.phase = "before" /\ op.applied0 = applied[profile.home]
        /\ op.pc = "image.resolve"
    BY <1>3 DEF imageResolve, Upgrading
  <2>3. CASE op' = At("update.fail") \/ Faulty(At("update.fail"))
    <3>1. Went("update.fail")
      BY <1>0, <2>3, Moves DEF Labels
    <3> QED
      BY <1>0, <1>1, <2>1, <2>2, <3>1 DEF Upgrading, Went
  <2>4. CASE \E i : op' = [op EXCEPT !.sel = i, !.pc = "backup.observe"]
    <3>1. /\ op'.c = op.c /\ op'.pc = "backup.observe" /\ op'.p = op.p
          /\ op'.phase = "before" /\ op'.applied0 = op.applied0
          /\ op'.disturbed = op.disturbed
      BY <1>0, <2>2, <2>4 DEF Operations
    <3> QED
      BY <1>0, <1>1, <2>1, <2>2, <3>1 DEF Upgrading
  <2> QED
    BY <1>3, <2>3, <2>4 DEF imageResolve
<1>4. CASE imageRemove
  <2>1. UNCHANGED <<profile, applied>>
        /\ (container' = container \/ container' = None)
    BY <1>4 DEF imageRemove, Observe, Docker, removeContainer, world
  <2>2. \E l \in {"image.save", "update.resume"} :
           op' = At(l) \/ Faulty(At(l))
    BY <1>4 DEF imageRemove, Observe, Docker
  <2>3. PICK l \in {"image.save", "update.resume"} : Went(l)
    BY <1>0, <2>2, Moves DEF Labels
  <2> QED
    BY <1>0, <1>1, <2>1, <2>3, UpgradeStays DEF Went
<1>5. CASE imageSave
  <2> DEFINE p == [op.p EXCEPT !.image = op.sel]
  <2>1. op.sel \in Images
    BY <1>5 DEF imageSave, IInv, Fits, Gathered
  <2>2. p \in Profiles /\ p.image = op.sel
    BY <1>0, <2>1 DEF Profiles
  <2>3. \/ op' = [op EXCEPT !.p = p, !.phase = "after", !.pc = "start.observe"]
        \/ UNCHANGED world /\ Faulty(IF op.c # None /\ op.c.running
                 THEN [At("start.observe") EXCEPT !.phase = "rollback"]
                 ELSE At("update.fail"))
    BY <1>5 DEF imageSave, WriteFile
  <2> HIDE DEF p
  <2>4. CASE op' = [op EXCEPT !.p = p, !.phase = "after", !.pc = "start.observe"]
    <3>1. /\ op'.p = p /\ op'.phase = "after" /\ op'.pc = "start.observe"
          /\ op'.sel = op.sel
      BY <1>0, <2>2, <2>4 DEF Operations
    <3> QED
      BY <1>0, <1>1, <2>1, <2>2, <3>1, UpgradeIsLate
  <2>5. CASE /\ op.c # None /\ op.c.running
             /\ Faulty([At("start.observe") EXCEPT !.phase = "rollback"])
    <3>1. op'.phase = "rollback" /\ op'.pc = "start.observe"
      BY <1>0, <2>5, MovesAside DEF Labels
    <3> QED
      BY <1>0, <1>1, <3>1, UpgradeIsLate
  <2>6. CASE /\ ~(op.c # None /\ op.c.running)
             /\ Faulty(At("update.fail")) /\ UNCHANGED world
    <3>1. Went("update.fail")
      BY <1>0, <2>6, Moves DEF Labels
    <3> QED
      BY <1>0, <1>1, <2>6, <3>1 DEF Upgrading, Went, world
  <2> QED
    BY <2>3, <2>4, <2>5, <2>6
<1>6. CASE imagePackages \/ imageVerify
  <2>1. op.phase = "after" /\ op.p.image = op.sel /\ op.sel \in Images
    BY <1>1, <1>6 DEF imagePackages, imageVerify, imageChecks, Upgrading
  <2>2. \E l \in {"image.verify", "update.finish", "update.fail"} :
           op' = At(l) \/ Faulty(At(l))
    BY <1>6 DEF imagePackages, imageVerify, imageChecks, Observe
  <2>3. PICK l \in {"image.verify", "update.finish", "update.fail"} : Went(l)
    BY <1>0, <2>2, Moves DEF Labels
  <2> QED
    BY <1>0, <1>1, <2>1, <2>3, UpgradeIsLate DEF Went
<1>7. CASE updateResume
  <2>1. op.pc = "update.resume" /\ UNCHANGED <<profile, applied>>
    BY <1>7 DEF updateResume, Docker, startContainer, world
  <2>2. CASE UNCHANGED world /\ op' = At("update.fail")
             /\ ~(op.c # None /\ op.c.running)
    <3>1. Went("update.fail")
      BY <1>0, <2>2, Moves DEF Labels
    <3> QED
      BY <1>0, <1>1, <2>1, <2>2, <3>1 DEF Upgrading, Went, world
  <2>3. CASE /\ container # None /\ startContainer /\ op' = At("update.fail")
             /\ op.c # None /\ op.c.running
    <3>1. Went("update.fail")
      BY <1>0, <2>3, Moves DEF Labels
    <3>2. container' = [container EXCEPT !.running = TRUE]
      BY <2>3 DEF startContainer
    <3>3. ASSUME op.phase = "before", ~op.disturbed
          PROVE  container' = op.c /\ op.c.home = profile.home
      <4>1. container.image = op.c.image /\ op.c.home = profile.home
        BY <2>3, <3>3 DEF Upgrading
      <4> QED
        BY <1>0, <2>3, <3>2, <4>1 DEF Containers
    <3>4. Upgrading
      OBVIOUS
    <3> QED
      BY <1>0, <1>1, <2>1, <3>1, <3>3 DEF Upgrading, Went
  <2>4. CASE \/ op' = [At("update.fail") EXCEPT !.disturbed = TRUE]
             \/ Faulty([At("update.fail") EXCEPT !.disturbed = TRUE])
    <3>1. /\ op'.pc = "update.fail" /\ op'.phase = op.phase
          /\ op'.applied0 = op.applied0 /\ op'.disturbed /\ op'.p = op.p
          /\ op'.sel = op.sel
      BY <1>0, <2>4, MovesAside DEF Labels
    <3> QED
      BY <1>0, <1>1, <2>1, <3>1 DEF Upgrading
  <2> QED
    BY <1>7, <2>2, <2>3, <2>4 DEF updateResume, Docker
<1>8. CASE updateFinish
  <2>1. op.phase = "after" /\ op.p.image = op.sel /\ op.sel \in Images
    BY <1>1, <1>8 DEF updateFinish, Upgrading
  <2>2. UNCHANGED world /\ \E ok \in BOOLEAN : op' = Done(ok) \/ Faulty(Done(ok))
    BY <1>8 DEF updateFinish, Observe
  <2>3. Went("done")
    BY <1>0, <2>2, Moves
  <2> QED
    BY <1>0, <1>1, <2>1, <2>2, <2>3 DEF Upgrading, Went, world
<1>9. CASE updateFail
  <2>1. UNCHANGED world /\ op' = Done(FALSE) /\ op.pc = "update.fail"
    BY <1>9 DEF updateFail
  <2>2. Went("done") /\ ~op'.ok
    BY <1>0, <2>1, Moves
  <2> QED
    BY <1>0, <1>1, <2>1, <2>2 DEF Upgrading, Went, world
<1>10. ~appsObserve /\ ~appsUpdate
  BY DEF appsObserve, appsUpdate, Upgrading, Upgrade, Snapshot, Copy, Copied,
     Starts, Checks
<1> QED
  BY <1>2, <1>3, <1>4, <1>5, <1>6, <1>7, <1>8, <1>9, <1>10 DEF update

\* Around an update: what touches the container or an image is noted.
LEMMA AroundUpgrades ==
  ASSUME IInv, Upgrading, op.cmd = "update-image", Around
  PROVE  Upgrading'
<1>0. op \in Operations
  BY DEF IInv, Fits
<1>1. UNCHANGED <<profile, applied>>
  BY DEF Around, UserSaves, DesktopExits, ContainerLost, HomeLost, WriterStarts,
     WriterSaves, WriterStops, TagMoves, ImageRemoved, Save, stopContainer,
     removeContainer
<1>2. CASE Disturb
  <2>1. /\ op'.pc = op.pc /\ op'.cmd = op.cmd /\ op'.p = op.p
        /\ op'.c = op.c /\ op'.sel = op.sel /\ op'.phase = op.phase
        /\ op'.ok = op.ok /\ op'.applied0 = op.applied0 /\ op'.disturbed
    BY <1>0, <1>2, Noted
  <2> QED
    BY <1>1, <2>1 DEF Upgrading
<1>3. CASE op' = op /\ container' = container
  BY <1>1, <1>3 DEF Upgrading
<1>4. Disturb \/ (op' = op /\ container' = container)
  <2>1. ~HomeLost
    BY DEF HomeLost, Idle
  <2> QED
    BY <2>1 DEF Around, UserSaves, DesktopExits, ContainerLost, WriterStarts,
       WriterSaves, WriterStops, TagMoves, ImageRemoved, Save
<1> QED
  BY <1>2, <1>3, <1>4

LEMMA UpgradingGoesOn ==
  ASSUME IInv, Upgrading, [Next]_vars
  PROVE  Upgrading'
<1>1. op \in Operations
  BY DEF IInv, Fits
<1>2. CASE Step
  <2>1. CASE op.cmd = "update-image"
    <3>1. op.pc \in Upgrade
      BY <2>1 DEF Upgrading
    <3>2. ~stop /\ ~configureNetwork /\ ~restore
      BY <3>1 DEF Upgrade, Starts, Checks, Snapshot, Copy, Copied, stop,
         configureNetwork, restore, restoreRead, restoreVolume,
         restoreExtract, restoreExtracting, restoreFiles, restoreRemove,
         restoreCommit, restoreCleanup, restoreUndoNetwork, restoreUndoVolume
    <3> QED
      BY <1>2, <2>1, <3>2, StartUpgrades, BackupUpgrades, ImageUpgrades
         DEF Step
  <2>2. CASE op.cmd # "update-image"
    BY <1>1, <1>2, <2>2, SameCommand DEF Upgrading
  <2> QED
    BY <2>1, <2>2
<1>3. ASSUME NEW cmd \in Commands, Begin(cmd) PROVE Upgrading'
  <2>1. /\ op'.cmd = cmd /\ op'.pc = Entry(cmd) /\ op'.phase = "before"
        /\ op'.c = None /\ op'.applied0 = applied[profile.home]
        /\ UNCHANGED <<profile, applied>>
    BY <1>3 DEF Begin, Idle, world
  <2>2. cmd = "update-image" => Entry(cmd) = "image.observe"
    BY DEF Entry
  <2>3. "image.observe" \in Upgrade \ (Starts \cup Checks \cup Session)
    BY DEF Upgrade, Starts, Checks, Session
  <2> QED
    BY <2>1, <2>2, <2>3 DEF Upgrading
<1>4. CASE Return \/ Killed
  BY <1>4 DEF Return, Killed, Idle, Upgrading
<1>5. CASE Around
  <2>1. CASE op.cmd = "update-image"
    BY <1>5, <2>1, AroundUpgrades
  <2>2. CASE op.cmd # "update-image"
    <3>1. Disturb \/ op' = op
      BY <1>5 DEF Around, UserSaves, DesktopExits, ContainerLost, HomeLost,
         WriterStarts, WriterSaves, WriterStops, TagMoves, ImageRemoved
    <3>2. op'.cmd # "update-image"
      BY <1>1, <2>2, <3>1, Noted
    <3> QED
      BY <3>2 DEF Upgrading
  <2> QED
    BY <2>1, <2>2
<1>6. CASE UNCHANGED vars
  BY <1>6 DEF vars, world, Upgrading
<1> QED
  BY <1>2, <1>3, <1>4, <1>5, <1>6 DEF Next

LEMMA UpgradingHolds == Spec => []Upgrading
<1>1. Init => Upgrading
  BY DEF Init, Idle, Upgrading
<1>2. IInv /\ Upgrading /\ [Next]_vars => Upgrading'
  BY UpgradingGoesOn
<1> QED
  BY <1>1, <1>2, Invariant, PTL DEF Spec

\* image_updates.go 107-167.  An update of the image that reports success has
\* selected and created the image it chose, over the files as they were.
THEOREM UsableUpdate == Spec => []UsableOnlyWhenSelected
<1>1. IInv /\ Story /\ Upgrading => UsableOnlyWhenSelected
  <2> SUFFICES ASSUME IInv, Story, Upgrading, op.cmd = "update-image",
                      op.pc = "done", op.ok
               PROVE  /\ profile.image = op.sel
                      /\ container # None => container.image = op.sel
                      /\ home[profile.home] = truth
    BY DEF UsableOnlyWhenSelected
  <2>1. profile.image = op.sel /\ op.sel \in Images
    BY DEF Upgrading
  <2>2. None \notin Images
    BY ConstantsAssumption DEF ConstantsAssumption
  <2> QED
    BY <2>1, <2>2 DEF Story, IInv, WorldOK, RuntimeIsSelected
<1> QED
  BY <1>1, Invariant, StoryHolds, UpgradingHolds, PTL

\* image_updates.go 45-53, docs/image-updates.md 26.  An update that fails while
\* the original container is there has left it running with its network.
THEOREM FailedUpdateResumes == Spec => []FailedImageUpdateResumes
<1>1. Upgrading => FailedImageUpdateResumes
  <2> SUFFICES ASSUME Upgrading, op.cmd = "update-image", op.pc = "done",
                      ~op.disturbed, op.phase = "before", container # None,
                      op.c # None, op.c.running
               PROVE  container = op.c /\ applied[op.c.home] = op.applied0
    BY DEF FailedImageUpdateResumes
  <2>1. op.pc \in Session
    BY DEF Session
  <2> QED
    BY <2>1 DEF Upgrading
<1> QED
  BY <1>1, UpgradingHolds, PTL

(***************************************************************************)
(* The copy an update of the image takes before it removes the container.  *)
(***************************************************************************)
LEMMA SecuredAway ==
  ASSUME writer' = None, op'.pc \notin Copy \cup {"image.remove"},
         op'.pc \in Snapshot => op'.cmd = "restore"
  PROVE  Secured'
  BY DEF Secured, Copy

LEMMA StartLeads ==
  ASSUME op \in Operations, start
  PROVE  op'.pc \in Starts \cup {"done", "update.fail", "image.packages",
                                 "apps.update"}
<1>1. ASSUME op' = startFails \/ op' = startReturns \/ Faulty(startFails)
      PROVE  op'.pc \in {"done", "update.fail", "image.packages",
                         "apps.update"}
  BY <1>1, RoutineEnds DEF Went
<1>2. ASSUME startObserve PROVE op'.pc \in Starts \/ Faulty(startFails)
  <2>1. afterObserve(op.p, container) \in Starts
    BY DEF afterObserve, Starts
  <2> QED
    BY <1>2, <2>1 DEF startObserve, Observe, Operations
<1>3. ASSUME startAdopt PROVE op'.pc \in Starts \/ Faulty(startFails)
  <2> DEFINE p == [op.p EXCEPT !.image = op.seen.image]
             l == afterObserve(p, op.seen)
  <2>1. l \in Starts
    BY DEF afterObserve, Starts
  <2> HIDE DEF l, p
  <2>2. op' = [op EXCEPT !.p = p, !.pc = l] \/ Faulty(startFails)
    BY <1>3 DEF startAdopt, WriteFile, l, p
  <2> QED
    BY <2>1, <2>2 DEF Operations
<1>4. ASSUME startResolve \/ startSelect
      PROVE  \/ op'.pc \in Starts
             \/ op' = startFails \/ Faulty(startFails)
  <2>1. \/ \E i : op' = [op EXCEPT !.sel = i, !.pc = "start.select"]
        \/ \E p : op' = [op EXCEPT !.p = p, !.pc = "start.volume"]
        \/ op' = At("start.volume") \/ op' = startFails \/ Faulty(startFails)
    BY <1>4 DEF startResolve, startSelect, Observe, Docker, WriteFile
  <2> QED
    BY <2>1 DEF Operations, Starts, At
<1>5. ASSUME startVolume \/ startCreate \/ syncNetwork \/ startRun
             \/ startAwait
      PROVE  \/ op'.pc \in Starts
             \/ op' = startFails \/ op' = startReturns \/ Faulty(startFails)
  <2>1. \/ \E l \in Starts : op' = At(l)
        \/ op' = startFails \/ op' = startReturns \/ Faulty(startFails)
    BY <1>5 DEF startVolume, startCreate, syncNetwork, startRun, startAwait,
       Observe, Docker, Starts
  <2> QED
    BY <2>1 DEF Operations, At
<1> QED
  BY <1>1, <1>2, <1>3, <1>4, <1>5 DEF start

\* No step of a command starts or stops a project's container.
LEMMA WriterAlone ==
  ASSUME Step
  PROVE  writer' = writer
<1>1. start => writer' = writer
  BY DEF start, startObserve, startAdopt, startResolve, startSelect,
     startVolume, startCreate, syncNetwork, startRun, startAwait, Observe,
     Docker, WriteFile, startContainer, saveProfile, world
<1>2. stop \/ configureNetwork \/ stopForSnapshot => writer' = writer
  BY DEF stop, configureNetwork, stopForSnapshot, snapshotWriters,
     snapshotStop, snapshotRecheck, Observe, Docker, WriteFile,
     stopContainer, saveNetwork, world
<1>3. backup => writer' = writer
  BY DEF backup, backupObserve, backupCopy, backupCopying, backupRecheck,
     backupPublish, backupPrune, Observe, WriteFile, world
<1>4. restore => writer' = writer
  BY DEF restore, restoreRead, restoreVolume, restoreExtract,
     restoreExtracting, restoreFiles, restoreRemove, restoreCommit,
     restoreCleanup, restoreUndoNetwork, restoreUndoVolume, Observe, Docker,
     WriteFile, setVolume, saveNetwork, removeContainer, world
<1>5. update => writer' = writer
  BY DEF update, imageObserve, imageResolve, imageRemove, imageSave,
     imagePackages, imageVerify, imageChecks, appsObserve, appsUpdate,
     updateResume, updateFinish, updateFail, Observe, Docker, WriteFile,
     removeContainer, saveProfile, startContainer, Save, world
<1> QED
  BY <1>1, <1>2, <1>3, <1>4, <1>5 DEF Step

\* The copy, call by call: nothing but the desktop writes the volume, and it is
\* stopped (backup.go 381-439).
LEMMA BackupSecures ==
  ASSUME IInv, Secured, op.cmd # "restore", stopForSnapshot \/ backup
  PROVE  Secured'
<1>0. /\ op \in Operations /\ op.p = profile /\ profile \in Profiles
      /\ container \in Containers \cup {None} /\ None \notin Containers
      /\ backups \in Seq(Copies) /\ op'.cmd # "restore"
      /\ writer = None /\ writer' = None
  <2>1. op \in Operations /\ op.p = profile
    BY DEF IInv, Fits, OnSavedProfile, stopForSnapshot, snapshotWriters,
       snapshotStop, snapshotRecheck, backup, backupObserve, backupCopy,
       backupCopying, backupRecheck, backupPublish, backupPrune
  <2> QED
    BY <2>1, SameCommand, WriterAlone, ConstantsAssumption
       DEF Step, Secured, IInv, WorldOK, WorldTypeOK, ConstantsAssumption
<1>1. ASSUME \/ op' = backupFails \/ Faulty(backupFails) \/ op' = backupReturns
             \/ op' = snapshotFails \/ Faulty(snapshotFails),
             op'.pc # "image.remove"
      PROVE  Secured'
  <2>1. op'.pc \in {"done", "update.resume", "image.remove", "start.observe"}
    BY <1>0, <1>1, RoutineEnds DEF Went
  <2> QED
    BY <1>0, <1>1, <2>1, SecuredAway DEF Copy, Copied, Snapshot
<1>2. ASSUME \/ op' = backupFails \/ Faulty(backupFails)
             \/ op' = snapshotFails \/ Faulty(snapshotFails)
      PROVE  Secured'
  <2>1. op'.pc # "image.remove"
    BY <1>0, <1>2, RoutineEnds DEF Went
  <2> QED
    BY <1>1, <1>2, <2>1
<1>3. CASE snapshotWriters \/ snapshotStop
  <2>1. \/ \E l \in {"snapshot.stop", "snapshot.recheck"} : op' = At(l)
        \/ op' = snapshotFails \/ Faulty(snapshotFails)
    BY <1>3 DEF snapshotWriters, snapshotStop, Observe, Docker
  <2>2. ASSUME NEW l \in {"snapshot.stop", "snapshot.recheck"}, op' = At(l)
        PROVE  Secured'
    <3>1. Went(l)
      BY <1>0, <2>2, Moves DEF Labels
    <3>2. op.pc \in Snapshot /\ l \notin Copy \cup {"image.remove"}
      BY <1>3 DEF snapshotWriters, snapshotStop, Snapshot, Copy, Copied
    <3>3. \/ container' = container
          \/ /\ container # None
             /\ container' = [container EXCEPT !.running = FALSE]
      BY <1>3 DEF snapshotWriters, snapshotStop, Observe, Docker,
         stopContainer, world
    <3>4. container' # None =>
              container # None /\ container'.image = container.image
      BY <1>0, <3>3 DEF Containers
    <3> QED
      BY <1>0, <3>1, <3>2, <3>4 DEF Secured, Went, Copy
  <2> QED
    BY <1>2, <2>1, <2>2
<1>4. CASE snapshotRecheck
  <2>1. UNCHANGED world
    BY <1>4 DEF snapshotRecheck, Observe
  <2>2. \/ op' = snapshotFails \/ Faulty(snapshotFails)
        \/ ~otherVolumeWriters(op.p.home, FALSE) /\ op' = At("backup.copy")
    BY <1>0, <1>4 DEF snapshotRecheck, Observe
  <2>3. ASSUME ~otherVolumeWriters(op.p.home, FALSE), op' = At("backup.copy")
        PROVE  Secured'
    <3>1. ~Running
      BY <1>0, <2>3, NobodyRuns
    <3>2. Went("backup.copy")
      BY <1>0, <2>3, Moves DEF Labels
    <3>3. op.pc \in Snapshot /\ "backup.copy" \notin Copied
      BY <1>4 DEF snapshotRecheck, Snapshot, Copied
    <3> QED
      BY <1>0, <2>1, <3>1, <3>2, <3>3 DEF Secured, Went, Running, world
  <2> QED
    BY <1>2, <2>2, <2>3
<1>5. CASE backupObserve
  <2>1. UNCHANGED world
    BY <1>5 DEF backupObserve, Observe
  <2>2. \/ op' = backupFails \/ Faulty(backupFails)
        \/ op' = [op EXCEPT !.seen = container, !.pc = "snapshot.writers"]
    BY <1>5 DEF backupObserve, Observe
  <2>3. ASSUME op' = [op EXCEPT !.seen = container, !.pc = "snapshot.writers"]
        PROVE  Secured'
    <3>1. op'.pc = "snapshot.writers" /\ op'.seen = container
      BY <1>0, <2>3 DEF Operations
    <3>2. "snapshot.writers" \notin Copy \cup {"image.remove"}
      BY DEF Copy, Copied
    <3> QED
      BY <1>0, <2>1, <3>1, <3>2 DEF Secured, world, Copy
  <2> QED
    BY <1>2, <2>2, <2>3
<1>6. CASE backupCopy \/ backupCopying \/ backupRecheck
  <2>1. UNCHANGED world
    BY <1>6 DEF backupCopy, backupCopying, backupRecheck, Observe
  <2>2. op.pc \in Copy
    BY <1>6 DEF backupCopy, backupCopying, backupRecheck, Copy, Copied
  <2>3. \/ op' = backupFails \/ Faulty(backupFails)
        \/ \E y : op' = [op EXCEPT !.copy = home[op.p.home], !.net = y,
                                   !.pc = "backup.copying"]
        \/ /\ op.pc = "backup.copying"
           /\ op' = [op EXCEPT !.copy = IF home[op.p.home] = op.copy
                                        THEN op.copy ELSE Torn,
                               !.pc = "backup.recheck"]
        \/ op.pc = "backup.recheck" /\ op' = At("backup.publish")
    BY <1>6 DEF backupCopy, backupCopying, backupRecheck, Observe
  <2>4. ASSUME op'.pc \in Copied, op'.seen = op.seen,
               op'.copy = home[profile.home]
        PROVE  Secured'
    <3>1. /\ op'.pc \in Copy
          /\ op'.pc \notin {"backup.prune", "image.remove"}
      BY <2>4 DEF Copy, Copied
    <3> QED
      BY <1>0, <2>1, <2>2, <2>4, <3>1 DEF Secured, world, Running
  <2>5. /\ {"backup.copying", "backup.recheck", "backup.publish"} = Copied
        /\ op.pc \in Copied => op.copy = home[profile.home]
    BY DEF Copied, Secured
  <2>6. CASE \E y : op' = [op EXCEPT !.copy = home[op.p.home], !.net = y,
                                     !.pc = "backup.copying"]
    <3>1. op'.pc = "backup.copying" /\ op'.seen = op.seen
          /\ op'.copy = home[profile.home]
      BY <1>0, <2>6 DEF Operations
    <3> QED
      BY <2>4, <2>5, <3>1
  <2>7. CASE /\ op.pc = "backup.copying"
             /\ op' = [op EXCEPT !.copy = IF home[op.p.home] = op.copy
                                          THEN op.copy ELSE Torn,
                                 !.pc = "backup.recheck"]
    <3>1. op'.pc = "backup.recheck" /\ op'.seen = op.seen
          /\ op'.copy = home[profile.home]
      BY <1>0, <2>5, <2>7 DEF Operations
    <3> QED
      BY <2>4, <2>5, <3>1
  <2>8. CASE op.pc = "backup.recheck" /\ op' = At("backup.publish")
    <3>1. Went("backup.publish")
      BY <1>0, <2>8, Moves DEF Labels
    <3> QED
      BY <2>4, <2>5, <2>8, <3>1 DEF Went
  <2> QED
    BY <1>2, <2>3, <2>6, <2>7, <2>8
<1>7. CASE backupPublish
  <2> DEFINE b == [own |-> TRUE, image |-> snapshotImage, data |-> op.copy,
                   net |-> op.net, applied |-> applied[op.p.home]]
  <2>1. \/ Faulty(backupFails)
        \/ /\ backups' = Append(backups, b) /\ op' = At("backup.prune")
           /\ UNCHANGED <<profile, container, home>>
    BY <1>7 DEF backupPublish, WriteFile
  <2>2. /\ b.data = home[profile.home]
        /\ container # None => b.image = container.image
        /\ ~Running /\ op.pc \in Copy
    BY <1>0, <1>7 DEF Secured, backupPublish, Copy, Copied, snapshotImage
  <2> HIDE DEF b
  <2>3. ASSUME /\ backups' = Append(backups, b) /\ op' = At("backup.prune")
               /\ UNCHANGED <<profile, container, home>>
        PROVE  Secured'
    <3>1. Went("backup.prune")
      BY <1>0, <2>3, Moves DEF Labels
    <3>2. backups' # << >> /\ Last(backups') = b
      <4>1. /\ Len(Append(backups, b)) = Len(backups) + 1
            /\ Len(backups) \in Nat
            /\ Append(backups, b)[Len(backups) + 1] = b
        BY <1>0, LenProperties
      <4> QED
        BY <2>3, <4>1 DEF Last
    <3>3. "backup.prune" \in Copy \ Copied
      BY DEF Copy, Copied
    <3> QED
      BY <1>0, <2>2, <2>3, <3>1, <3>2, <3>3 DEF Secured, Went, Running
  <2> QED
    BY <1>2, <2>1, <2>3
<1>8. CASE backupPrune
  <2>1. \/ Faulty(backupFails)
        \/ /\ backups' = newest(backups) /\ op' = backupReturns
           /\ UNCHANGED <<profile, container, home>>
    BY <1>8 DEF backupPrune
  <2>2. ASSUME /\ backups' = newest(backups) /\ op' = backupReturns
               /\ UNCHANGED <<profile, container, home>>,
               op'.pc = "image.remove"
        PROVE  Secured'
    <3>1. op.pc = "backup.prune" /\ op.pc \in Copy
      BY <1>8 DEF backupPrune, Copy
    <3>2. backups' # << >> /\ Last(backups') = Last(backups)
      BY <1>0, <2>2, <3>1, NewestKept DEF Secured
    <3>3. "image.remove" \notin Copy \cup Snapshot
      BY DEF Copy, Copied, Snapshot
    <3> QED
      BY <1>0, <2>2, <3>1, <3>2, <3>3 DEF Secured, Running, Copy
  <2> QED
    BY <1>1, <1>2, <2>1, <2>2
<1> QED
  BY <1>3, <1>4, <1>5, <1>6, <1>7, <1>8 DEF stopForSnapshot, backup

LEMMA AroundSecures ==
  ASSUME "writer" \notin Events, IInv, Secured, Around
  PROVE  Secured'
<1>0. /\ op \in Operations /\ container \in Containers \cup {None}
      /\ None \notin Containers \cup Vols /\ profile.home \in Vols
  BY ConstantsAssumption
     DEF IInv, Fits, WorldOK, WorldTypeOK, ConstantsAssumption, Profiles
<1>1. ~WriterStarts /\ ~WriterSaves /\ ~WriterStops
  BY <1>0 DEF WriterStarts, WriterSaves, WriterStops, Secured
<1>2. CASE UserSaves
  <2>1. Running /\ op' = op /\ UNCHANGED <<backups, container, writer, profile>>
    BY <1>2 DEF UserSaves, Save
  <2>2. op.pc \notin Copy \cup {"image.remove"}
    BY <2>1 DEF Secured
  <2> QED
    BY <2>1, <2>2 DEF Secured, Copy
<1>3. CASE HomeLost
  <2>1. op'.pc = "idle" /\ writer' = writer
    BY <1>3 DEF HomeLost, Idle
  <2> QED
    BY <2>1, SecuredAway DEF Copy, Copied, Snapshot, Secured
<1>4. CASE DesktopExits \/ ContainerLost \/ \E i \in Images : ImageRemoved(i)
  <2>1. Disturb /\ UNCHANGED <<backups, home, writer, profile>>
    BY <1>4 DEF DesktopExits, ContainerLost, ImageRemoved, stopContainer,
       removeContainer
  <2>2. /\ op'.pc = op.pc /\ op'.cmd = op.cmd /\ op'.seen = op.seen
        /\ op'.copy = op.copy
    BY <1>0, <2>1, Noted
  <2>3. \/ container' = container \/ container' = None
        \/ container # None /\ container' = [container EXCEPT !.running = FALSE]
    BY <1>4 DEF DesktopExits, ContainerLost, ImageRemoved, stopContainer,
       removeContainer, Running
  <2>4. /\ container' # None =>
               container # None /\ container'.image = container.image
        /\ ~Running => ~Running'
    BY <1>0, <2>3 DEF Containers, Running
  <2> QED
    BY <2>1, <2>2, <2>4 DEF Secured
<1>5. CASE \E i \in Images : TagMoves(i)
  BY <1>5 DEF TagMoves, Secured, Running
<1> QED
  BY <1>1, <1>2, <1>3, <1>4, <1>5 DEF Around

LEMMA SecuredGoesOn ==
  ASSUME "writer" \notin Events, IInv, Story, Secured, [Next]_vars
  PROVE  Secured'
<1>0. op \in Operations /\ writer = None
  BY DEF IInv, Fits, Secured
<1>1. CASE stopForSnapshot \/ backup
  <2>1. CASE op.cmd # "restore"
    BY <1>1, <2>1, BackupSecures
  <2>2. CASE op.cmd = "restore"
    <3>1. op'.cmd = "restore" /\ writer' = None
      BY <1>0, <1>1, <2>2, SameCommand, WriterAlone DEF Step
    <3>2. Story'
      BY StoryGoesOn
    <3>3. op'.pc \in Course
      BY <3>1, <3>2 DEF Story, Returning
    <3> QED
      BY <3>1, <3>3, SecuredAway DEF Course, Copy, Copied, Snapshot, Restore,
         Extract, Switch
  <2> QED
    BY <2>1, <2>2
<1>2. CASE restore
  <2>1. op.cmd = "restore"
    <3>1. op.pc \in Restored \cup {"restore.read"}
      BY <1>2 DEF restore, restoreRead, restoreVolume, restoreExtract,
         restoreExtracting, restoreFiles, restoreRemove, restoreCommit,
         restoreCleanup, restoreUndoNetwork, restoreUndoVolume, Restored,
         Restore, Extract, Switch
    <3> QED
      BY <3>1 DEF Story, Returning, IInv, Fits, Gathered
  <2>2. op'.cmd = "restore" /\ writer' = None
    BY <1>0, <1>2, <2>1, SameCommand, WriterAlone DEF Step
  <2>3. Story'
    BY StoryGoesOn
  <2>4. op'.pc \in Course
    BY <2>2, <2>3 DEF Story, Returning
  <2> QED
    BY <2>2, <2>4, SecuredAway DEF Course, Copy, Copied, Snapshot, Restore,
       Extract, Switch
<1>3. CASE start \/ update \/ stop \/ configureNetwork
  <2>1. writer' = None
    BY <1>0, <1>3, WriterAlone DEF Step
  <2>2. ASSUME stop \/ configureNetwork PROVE op'.pc = "done"
    <3>1. \E ok \in BOOLEAN : op' = Done(ok) \/ Faulty(Done(ok))
      BY <2>2 DEF stop, configureNetwork, Observe, Docker, WriteFile
    <3> QED
      BY <1>0, <3>1, Moves DEF Went
  <2>3. op'.pc \in Leads \cup Starts \cup {"image.packages", "apps.update"}
    BY <1>0, <1>3, <2>2, StartLeads, UpdateLeads DEF Leads
  <2>4. op'.pc \notin Copy \cup Snapshot \cup {"image.remove"}
    BY <2>3 DEF Leads, Starts, Copy, Copied, Snapshot
  <2> QED
    BY <2>1, <2>4, SecuredAway
<1>4. CASE (\E cmd \in Commands : Begin(cmd)) \/ Return \/ Killed
  <2>1. UNCHANGED world
    BY <1>4 DEF Begin, Return, Killed
  <2>2. ASSUME NEW cmd \in Commands, Begin(cmd) PROVE op'.pc = Entry(cmd)
    BY <2>2 DEF Begin, Idle
  <2>3. Return \/ Killed => op'.pc = "idle"
    BY DEF Return, Killed, Idle
  <2>4. \A cmd \in AllCommands :
           Entry(cmd) \notin Copy \cup Snapshot \cup {"image.remove"}
    BY DEF Entry, AllCommands, Copy, Copied, Snapshot
  <2>5. Commands \subseteq AllCommands
    BY ConstantsAssumption DEF ConstantsAssumption
  <2>6. op'.pc \notin Copy \cup Snapshot \cup {"image.remove"}
    BY <1>4, <2>2, <2>3, <2>4, <2>5 DEF Copy, Copied, Snapshot
  <2> QED
    BY <1>0, <2>1, <2>6, SecuredAway DEF world
<1>5. CASE Around
  BY <1>5, AroundSecures
<1>6. CASE UNCHANGED vars
  BY <1>6 DEF vars, world, Secured, Running
<1> QED
  BY <1>1, <1>2, <1>3, <1>4, <1>5, <1>6 DEF Next, Step

\* No step but image.remove takes the container away unnoticed from an update.
LEMMA Removal ==
  ASSUME IInv, Upgrading, [Next]_vars, op.cmd = "update-image",
         container # None, container' = None, op' # op, ~op'.disturbed
  PROVE  imageRemove
<1>0. op \in Operations /\ container \in Containers /\ None \notin Containers
      /\ op.pc \in Upgrade
  BY ConstantsAssumption
     DEF IInv, Fits, WorldOK, WorldTypeOK, ConstantsAssumption, Upgrading
<1>1. /\ [container EXCEPT !.running = FALSE] \in Containers
      /\ [container EXCEPT !.running = TRUE] \in Containers
  BY <1>0 DEF Containers
<1>2. \A cmd \in Commands : ~Begin(cmd)
  BY DEF Begin, world
<1>3. ~Return /\ ~Killed /\ ~UNCHANGED vars
  BY DEF Return, Killed, vars, world
<1>4. ~Around
  <2>1. ASSUME Disturb PROVE FALSE
    BY <1>0, <2>1, Noted
  <2>2. Around => Disturb \/ op' = op
    BY DEF Around, UserSaves, DesktopExits, ContainerLost, HomeLost,
       WriterStarts, WriterSaves, WriterStops, TagMoves, ImageRemoved
  <2> QED
    BY <2>1, <2>2
<1>5. ~start
  <2>1. ASSUME start PROVE FALSE
    <3>1. ~startCreate
      BY DEF startCreate, IInv, Fits, ContainerGone
    <3>2. \/ container' = container
          \/ container' = [container EXCEPT !.running = TRUE]
      BY <2>1, <3>1 DEF start, startObserve, startAdopt, startResolve,
         startSelect, startVolume, syncNetwork, startRun, startAwait,
         Observe, Docker, WriteFile, startContainer, saveProfile, world
    <3> QED
      BY <1>0, <1>1, <3>2
  <2> QED
    BY <2>1
<1>6. ~stop /\ ~configureNetwork /\ ~restore
  BY <1>0 DEF Upgrade, Starts, Checks, Snapshot, Copy, Copied, stop,
     configureNetwork, restore, restoreRead, restoreVolume, restoreExtract,
     restoreExtracting, restoreFiles, restoreRemove, restoreCommit,
     restoreCleanup, restoreUndoNetwork, restoreUndoVolume
<1>7. ~stopForSnapshot
  BY <1>0, <1>1 DEF stopForSnapshot, snapshotWriters, snapshotStop,
     snapshotRecheck, Observe, Docker, stopContainer, world
<1>8. ~backup
  BY DEF backup, backupObserve, backupCopy, backupCopying, backupRecheck,
     backupPublish, backupPrune, Observe, WriteFile, world
<1>9. update
  BY <1>2, <1>3, <1>4, <1>5, <1>6, <1>7, <1>8 DEF Next, Step
<1>10. ASSUME ~imageRemove PROVE FALSE
  <2>1. \/ container' = container
        \/ container' = [container EXCEPT !.running = TRUE]
    BY <1>9, <1>10 DEF update, imageObserve, imageResolve, imageSave,
       imagePackages, imageVerify, imageChecks, appsObserve, appsUpdate,
       updateResume, updateFinish, updateFail, Observe, Docker, WriteFile,
       saveProfile, startContainer, Save, world
  <2> QED
    BY <1>0, <1>1, <2>1
<1> QED
  BY <1>10

\* image_updates.go 83-95.  Where no project's container writes the personal
\* volume, update-image removes a container only when the newest completed copy
\* has its files and its image.
THEOREM RemovedAfterCopy ==
  ASSUME "writer" \notin Events
  PROVE  Spec => ReplacedOnlyAfterCopy
<1>1. Init => Secured
  BY DEF Init, Idle, Secured, Snapshot, Copy, Copied
<1>2. IInv /\ Story /\ Secured /\ [Next]_vars => Secured'
  BY SecuredGoesOn
<1>3. ASSUME IInv, Upgrading, Secured, [Next]_vars, op.cmd = "update-image",
             container # None, container' = None, op' # op, ~op'.disturbed
      PROVE  /\ backups # << >>
             /\ Last(backups).data = home[container.home]
             /\ Last(backups).image = container.image
  <2>1. imageRemove
    BY <1>3, Removal
  <2>2. op.pc = "image.remove" /\ container.home = profile.home
    BY <1>3, <2>1 DEF imageRemove, IInv, WorldOK, RuntimeIsSelected
  <2> QED
    BY <1>3, <2>2 DEF Secured
<1> DEFINE A == op.cmd = "update-image" /\ container # None
                /\ container' = None /\ op' # op /\ ~op'.disturbed
                => /\ backups # << >>
                   /\ Last(backups).data = home[container.home]
                   /\ Last(backups).image = container.image
<1>4. IInv /\ Upgrading /\ Secured /\ [Next]_vars => [A]_vars
  BY <1>3
<1>5. Spec => [][A]_vars
  <2> HIDE DEF A
  <2> QED
    BY <1>1, <1>2, <1>4, Invariant, StoryHolds, UpgradingHolds, PTL DEF Spec
<1> QED
  BY <1>5 DEF ReplacedOnlyAfterCopy

-----------------------------------------------------------------------------
(***************************************************************************)
(* An installation is a workplace.                                         *)
(***************************************************************************)
\* There is no container without files; the copies and the known image are of
\* one variant; files nobody knows an image for were never copied.  Only an
\* older profile has a container or files and selects no image.
Belonging ==
    /\ container # None => home[profile.home] # Absent
    /\ \A b \in ToSet(backups) :
          /\ Known # None => Variant[b.image] = Variant[Known]
          /\ \A d \in ToSet(backups) : Variant[b.image] = Variant[d.image]
    /\ Known = None /\ home[profile.home] = Absent => backups = << >>
    /\ "older" \notin Origins /\ profile.image = None
           => container = None /\ home[profile.home] = Absent

\* A start adopts only where there is no selection, selects for itself only
\* where there are no files, and creates a container only where there are.
Choosing ==
    /\ op.pc = "start.adopt" => container # None /\ profile.image = None
    /\ op.pc = "start.select" /\ profile.image = None
           => home[profile.home] = Absent
    /\ op.pc = "start.volume" => profile.image # None
    /\ op.pc = "start.create"
           => profile.image # None /\ home[profile.home] # Absent

\* A backup has seen the known image, an update has chosen one of its variant,
\* and both files and image are copied when the new selection is saved.
Replacing ==
    /\ op.pc \in Snapshot \cup Copy /\ op.cmd # "restore" /\ op.seen # None
           => op.seen.image = Known
    /\ op.pc = "image.resolve" /\ op.c # None => op.c.image = Known
    /\ op.pc \in Snapshot \cup Copy \cup {"backup.observe", "image.remove"}
       /\ op.cmd = "update-image" /\ Known # None
           => Variant[op.sel] = Variant[Known]
    /\ op.pc \in {"backup.prune", "image.remove"}
           => backups # << >> /\ Last(backups).image = Known
    /\ op.pc = "image.save" =>
           /\ backups # << >> /\ Last(backups).data = home[profile.home]
           /\ Known \in {None, Last(backups).image}
           /\ Variant[op.sel] = Variant[Last(backups).image]

\* A restore has read a copy that stays, of the variant of all the others.
Sourced(o) == \/ o.pc \in Restore \cup {"restore.volume"}
              \/ o.pc \in Snapshot /\ o.cmd = "restore"
Bringing ==
    Sourced(op) =>
        /\ op.src \in ToSet(backups) \cup OtherBackups
        /\ \A b \in ToSet(backups) : Variant[b.image] = Variant[op.src.image]
        /\ Known # None => Variant[op.src.image] = Variant[Known]

Ready == Choosing /\ Replacing /\ Bringing

\* What the promise is about.
View == <<home[profile.home], Known, Running, backups>>

\* Labels that need no more than Belonging.
Quiet == Labels \ (Snapshot \cup Copy \cup Restore \cup
            {"start.adopt", "start.select", "start.volume", "start.create",
             "image.resolve", "backup.observe", "image.remove", "image.save",
             "restore.volume"})

LEMMA ReadyQuietly ==
  ASSUME op'.pc \in Quiet
  PROVE  Ready'
BY DEF Ready, Choosing, Replacing, Bringing, Sourced, Quiet, Copy

\* The world as the invariant types it; the known image is that of the
\* container, where there is one.
LEMMA WorldFacts ==
  ASSUME IInv
  PROVE  /\ op \in Operations /\ profile \in Profiles /\ profile.home \in Vols
         /\ container \in Containers \cup {None}
         /\ home \in [Vols -> Content \cup {Absent}]
         /\ backups \in Seq(Copies) /\ local \subseteq Images
         /\ None \notin Images \cup Containers \cup Copies \cup Profiles
         /\ Absent \notin Content
         /\ Known = IF container # None THEN container.image ELSE profile.image
         /\ Known \in Images \cup {None}
         /\ container # None => /\ container.home = profile.home
                                /\ profile.image \in {None, container.image}
         /\ op.pc \notin {"idle", "done", "restore.cleanup"} => op.p = profile
<1>1. /\ op \in Operations /\ profile \in Profiles
      /\ container \in Containers \cup {None}
      /\ home \in [Vols -> Content \cup {Absent}]
      /\ backups \in Seq(Copies) /\ local \subseteq Images
      /\ container # None => /\ container.home = profile.home
                             /\ profile.image \in {None, container.image}
      /\ op.pc \notin {"idle", "done", "restore.cleanup"} => op.p = profile
  BY DEF IInv, Fits, OnSavedProfile, WorldOK, WorldTypeOK, RuntimeIsSelected
<1>2. /\ None \notin Images \cup Containers \cup Copies \cup Profiles
      /\ Absent \notin Content
  BY ConstantsAssumption DEF ConstantsAssumption
<1>3. /\ profile.home \in Vols /\ profile.image \in Images \cup {None}
      /\ container # None => container.image \in Images
  BY <1>1 DEF Profiles, Containers
<1>4. Known = IF container # None THEN container.image ELSE profile.image
  BY <1>1, <1>2, <1>3 DEF Known
<1>5. Known \in Images \cup {None}
  BY <1>3, <1>4
<1> QED
  BY <1>1, <1>2, <1>3, <1>4, <1>5

LEMMA StillBelongs ==
  ASSUME Belonging, home'[profile'.home] = home[profile.home],
         Known' = Known, backups' = backups,
         container' # None => container # None,
         profile'.image = None => profile.image = None
  PROVE  Belonging'
BY DEF Belonging

\* What is not seen.
LEMMA Unseen ==
  ASSUME home'[profile'.home] = home[profile.home], Known' = Known,
         backups' = backups, Running' <=> Running
  PROVE  UNCHANGED View
<1>1. Running' = Running
  BY DEF Running
<1> HIDE DEF Running, Known
<1> QED
  BY <1>1 DEF View

\* A call that at most starts or stops the container keeps what belongs to
\* what, and opens or closes the desktop or is not seen.
LEMMA Touched ==
  ASSUME IInv, Belonging, UNCHANGED <<profile, backups>>,
         home'[profile.home] = home[profile.home],
         \/ container' = container
         \/ container # None /\ container' = [container EXCEPT !.running = TRUE]
         \/ container # None /\ container' = [container EXCEPT !.running = FALSE]
  PROVE  /\ Belonging' /\ [W!Next]_View /\ Known' = Known
         /\ container' = None <=> container = None
         /\ container' # None => container'.image = container.image
<1>0. /\ container \in Containers \cup {None}
      /\ None \notin Images \cup Containers
      /\ container # None => Known = container.image
  BY WorldFacts
<1>1. /\ container' = None <=> container = None
      /\ container' # None => container'.image = container.image
  BY <1>0 DEF Containers
<1>2. Known' = Known
  BY <1>1 DEF Known
<1>3. Belonging'
  BY <1>1, <1>2, StillBelongs
<1>4. container # None => Known # None /\ home[profile.home] # Absent
  BY <1>0 DEF Belonging, Containers
<1>5. [W!Next]_View
  <2>1. CASE Running' <=> Running
    BY <1>2, <2>1, Unseen
  <2>2. CASE ~Running /\ Running'
    BY <1>2, <1>4, <2>2 DEF W!Next, W!Open, Running
  <2>3. CASE Running /\ ~Running'
    BY <1>2, <2>3 DEF W!Next, W!Close
  <2> QED
    BY <2>1, <2>2, <2>3
<1> QED
  BY <1>1, <1>2, <1>3, <1>5

\* What a label of start needs.
LEMMA ReadyToStart ==
  ASSUME op'.pc \in {"start.adopt", "start.select", "start.volume",
                     "start.create"}, Choosing'
  PROVE  Ready'
BY DEF Ready, Replacing, Bringing, Sourced, Snapshot, Copy, Copied, Restore,
   Extract, Switch

\* start: the image of a container is adopted, and another is selected only
\* where there are no files (main.go 509-647).
LEMMA StartServes ==
  ASSUME IInv, Belonging, Ready, start
  PROVE  Belonging' /\ Ready' /\ [W!Next]_View
<1>0. /\ op \in Operations /\ op.p = profile /\ profile \in Profiles
      /\ container \in Containers \cup {None}
      /\ home \in [Vols -> Content \cup {Absent}] /\ profile.home \in Vols
      /\ None \notin Images \cup Containers /\ Absent \notin Content
      /\ local \subseteq Images
      /\ Known = IF container # None THEN container.image ELSE profile.image
  <2>1. op.pc \notin {"idle", "done", "restore.cleanup"}
    BY DEF start, startObserve, startAdopt, startResolve, startSelect,
       startVolume, startCreate, syncNetwork, startRun, startAwait
  <2> QED
    BY <2>1, WorldFacts
<1>1. ASSUME op' = startFails \/ op' = startReturns \/ Faulty(startFails)
      PROVE  Ready'
  <2>1. op'.pc \in Quiet
    BY <1>0, <1>1, RoutineEnds DEF Went, Quiet, Labels, Snapshot, Copy, Copied,
       Restore, Extract, Switch
  <2> QED
    BY <2>1, ReadyQuietly
<1>2. ASSUME startObserve
      PROVE  Belonging' /\ Ready' /\ [W!Next]_View
  <2>1. UNCHANGED world
    BY <1>2 DEF startObserve, Observe
  <2>2. Belonging' /\ [W!Next]_View
    BY <2>1, Touched DEF world
  <2>3. \/ op' = startFails \/ Faulty(startFails)
        \/ op' = [op EXCEPT !.seen = container,
                            !.pc = afterObserve(op.p, container)]
    BY <1>2 DEF startObserve, Observe
  <2>4. ASSUME op' = [op EXCEPT !.seen = container,
                                !.pc = afterObserve(op.p, container)]
        PROVE  Ready'
    <3>1. op'.pc = afterObserve(op.p, container)
      BY <1>0, <2>4 DEF Operations
    <3>2. CASE op'.pc = "start.adopt"
      <4>1. container # None /\ profile.image = None
        BY <1>0, <3>1, <3>2 DEF afterObserve
      <4>2. Choosing'
        BY <2>1, <3>2, <4>1 DEF Choosing, world
      <4> QED
        BY <3>2, <4>2, ReadyToStart
    <3>3. CASE op'.pc # "start.adopt"
      <4>1. op'.pc \in {"start.resolve", "start.network", "start.await"}
        BY <3>1, <3>3 DEF afterObserve
      <4>2. op'.pc \in Quiet
        BY <4>1 DEF Quiet, Labels, Snapshot, Copy, Copied, Restore, Extract,
           Switch
      <4> QED
        BY <4>2, ReadyQuietly
    <3> QED
      BY <3>2, <3>3
  <2> QED
    BY <1>1, <2>2, <2>3, <2>4
<1>3. ASSUME startAdopt
      PROVE  Belonging' /\ Ready' /\ [W!Next]_View
  <2> DEFINE p == [op.p EXCEPT !.image = op.seen.image]
             l == afterObserve(p, op.seen)
  <2>1. /\ op.seen.image \in Images /\ container # None
        /\ container.image = op.seen.image
    BY <1>3 DEF startAdopt, IInv, Fits, Adopting, Containers, Ready, Choosing
  <2>2. p.home = profile.home /\ p.image = op.seen.image /\ p.image # None
    BY <1>0, <2>1 DEF Profiles
  <2>3. l \in {"start.resolve", "start.network", "start.await"}
    BY <1>0, <2>2 DEF afterObserve
  <2>4. \/ saveProfile(p) /\ op' = [op EXCEPT !.p = p, !.pc = l]
        \/ UNCHANGED world /\ Faulty(startFails)
    BY <1>3 DEF startAdopt, WriteFile
  <2> HIDE DEF p, l
  <2>5. CASE UNCHANGED world /\ Faulty(startFails)
    BY <1>1, <2>5, Touched DEF world
  <2>6. CASE saveProfile(p) /\ op' = [op EXCEPT !.p = p, !.pc = l]
    <3>1. /\ UNCHANGED <<backups, container, home>>
          /\ profile' = p
      BY <2>6 DEF saveProfile
    <3>2. Known' = Known /\ (Running' <=> Running)
      BY <1>0, <2>1, <2>2, <3>1 DEF Known, Running
    <3>3. op'.pc \in Quiet
      BY <1>0, <2>3, <2>6 DEF Operations, Quiet, Labels, Snapshot, Copy,
         Copied, Restore, Extract, Switch
    <3>4. Belonging'
      BY <2>2, <3>1, <3>2, StillBelongs
    <3>5. UNCHANGED View
      BY <2>2, <3>1, <3>2, Unseen
    <3> QED
      BY <3>3, <3>4, <3>5, ReadyQuietly
  <2> QED
    BY <2>4, <2>5, <2>6
<1>4. ASSUME startResolve
      PROVE  Belonging' /\ Ready' /\ [W!Next]_View
  <2>1. UNCHANGED <<profile, backups, container, home>>
    BY <1>4 DEF startResolve, Observe, Docker, world
  <2>2. Belonging' /\ [W!Next]_View
    BY <2>1, Touched
  <2>3. \/ op' = startFails \/ Faulty(startFails)
        \/ /\ profile.image = None => home[profile.home] = Absent
           /\ \E i : op' = [op EXCEPT !.sel = i, !.pc = "start.select"]
    <3>1. ASSUME profile.image = None, home[profile.home] # Absent
          PROVE  selectedImageReference(op.p, None) \notin local
      BY <1>0, <3>1 DEF selectedImageReference
    <3> QED
      BY <1>0, <1>4, <3>1 DEF startResolve, Observe, Docker
  <2>4. ASSUME NEW i, op' = [op EXCEPT !.sel = i, !.pc = "start.select"],
               profile.image = None => home[profile.home] = Absent
        PROVE  Ready'
    <3>1. op'.pc = "start.select"
      BY <1>0, <2>4 DEF Operations
    <3>2. Choosing'
      BY <2>1, <2>4, <3>1 DEF Choosing
    <3> QED
      BY <3>1, <3>2, ReadyToStart
  <2> QED
    BY <1>1, <2>2, <2>3, <2>4
<1>5. ASSUME startSelect
      PROVE  Belonging' /\ Ready' /\ [W!Next]_View
  <2> DEFINE p == [op.p EXCEPT !.image = op.sel]
  <2>1. op.sel \in Images /\ container = None
    BY <1>5 DEF startSelect, IInv, Fits, Gathered, ContainerGone
  <2>2. p \in Profiles /\ p.home = profile.home /\ p.image = op.sel
    BY <1>0, <2>1 DEF Profiles
  <2>3. \/ /\ profile.image = None /\ saveProfile(p)
           /\ op' = [op EXCEPT !.p = p, !.pc = "start.volume"]
        \/ UNCHANGED world /\ (op' = startFails \/ Faulty(startFails))
        \/ UNCHANGED world /\ op.p.image # None /\ op' = At("start.volume")
    BY <1>0, <1>5 DEF startSelect, WriteFile, Observe
  <2> HIDE DEF p
  <2>4. ASSUME UNCHANGED world PROVE Belonging' /\ [W!Next]_View
    BY <2>4, Touched DEF world
  <2>5. CASE UNCHANGED world /\ op.p.image # None /\ op' = At("start.volume")
    <3>1. op'.pc = "start.volume"
      BY <1>0, <2>5, AtKeeps DEF Labels
    <3>2. Choosing'
      BY <1>0, <2>5, <3>1 DEF Choosing, world
    <3> QED
      BY <2>4, <2>5, <3>1, <3>2, ReadyToStart
  <2>6. CASE /\ profile.image = None /\ saveProfile(p)
             /\ op' = [op EXCEPT !.p = p, !.pc = "start.volume"]
    <3>1. op'.pc = "start.volume"
      BY <1>0, <2>6 DEF Operations
    <3>2. /\ UNCHANGED <<backups, container, home>> /\ profile' = p
      BY <2>6 DEF saveProfile
    <3>3. Known = None /\ Known' = op.sel /\ Running' = FALSE
          /\ Running = FALSE
      BY <1>0, <2>1, <2>2, <2>6, <3>2 DEF Known, Running
    <3>4. home[profile.home] = Absent /\ backups = << >>
      BY <1>5, <2>6, <3>3 DEF Ready, Choosing, startSelect, Belonging
    <3>5. Belonging'
      BY <1>0, <2>1, <2>2, <3>2, <3>4 DEF Belonging, ToSet
    <3>6. Choosing'
      BY <1>0, <2>1, <2>2, <3>1, <3>2 DEF Choosing
    <3>7. W!Choose
      BY <2>1, <2>2, <3>2, <3>3, <3>4 DEF W!Choose
    <3> QED
      BY <3>1, <3>5, <3>6, <3>7, ReadyToStart DEF W!Next
  <2> QED
    BY <1>1, <2>3, <2>4, <2>5, <2>6
<1>6. ASSUME startVolume
      PROVE  Belonging' /\ Ready' /\ [W!Next]_View
  <2>1. profile.image # None /\ container = None
    BY <1>6 DEF startVolume, Ready, Choosing, IInv, Fits, ContainerGone
  <2>2. \/ op' = At("start.create") \/ op' = startFails \/ Faulty(startFails)
    BY <1>6 DEF startVolume, Observe, Docker
  <2>3. \/ UNCHANGED world /\ (op' = At("start.create") =>
                                  home[profile.home] # Absent)
        \/ /\ home' = [home EXCEPT ![profile.home] = 0]
           /\ home[profile.home] = Absent
           /\ UNCHANGED <<profile, backups, container>>
    <3>1. ASSUME Faulty(startFails), op' = At("start.create") PROVE FALSE
      <4>1. op'.pc \in {"done", "update.fail"}
        BY <1>0, <3>1, RoutineEnds DEF Went
      <4> QED
        BY <1>0, <3>1, <4>1, AtKeeps DEF Labels
    <3> QED
      BY <1>0, <1>6, <3>1 DEF startVolume, Observe, Docker
  <2>4. 0 # Absent
    BY ConstantsAssumption DEF ConstantsAssumption, Content, Version
  <2>5. Belonging' /\ [W!Next]_View
    <3>1. CASE UNCHANGED world
      BY <3>1, Touched DEF world
    <3>2. CASE /\ home' = [home EXCEPT ![profile.home] = 0]
               /\ home[profile.home] = Absent
               /\ UNCHANGED <<profile, backups, container>>
      <4>1. home'[profile.home] = 0
        BY <1>0, <3>2
      <4>2. Known' = Known /\ Known # None /\ Running' = Running
        BY <1>0, <2>1, <3>2 DEF Known, Running
      <4>3. Belonging'
        BY <2>1, <2>4, <3>2, <4>1, <4>2 DEF Belonging
      <4>4. W!Create
        BY <3>2, <4>1, <4>2 DEF W!Create
      <4> QED
        BY <4>3, <4>4 DEF W!Next
    <3> QED
      BY <2>3, <3>1, <3>2
  <2>6. ASSUME op' = At("start.create") PROVE Ready'
    <3>1. op'.pc = "start.create"
      BY <1>0, <2>6, AtKeeps DEF Labels
    <3>2. profile' = profile /\ home'[profile.home] # Absent
      BY <1>0, <2>3, <2>4, <2>6 DEF world
    <3>3. Choosing'
      BY <2>1, <3>1, <3>2 DEF Choosing
    <3> QED
      BY <3>1, <3>3, ReadyToStart
  <2> QED
    BY <1>1, <2>2, <2>5, <2>6
<1>7. ASSUME startCreate \/ syncNetwork \/ startRun \/ startAwait
      PROVE  Ready'
  <2>1. \/ op' = startFails \/ op' = startReturns \/ Faulty(startFails)
        \/ \E l \in {"start.network", "start.run", "start.await"} : op' = At(l)
    BY <1>7 DEF startCreate, syncNetwork, startRun, startAwait, Observe, Docker
  <2>2. ASSUME NEW l \in {"start.network", "start.run", "start.await"},
               op' = At(l)
        PROVE  op'.pc \in Quiet
    <3>1. l \in Labels /\ l \in Quiet
      BY DEF Labels, Quiet, Snapshot, Copy, Copied, Restore, Extract, Switch
    <3> QED
      BY <1>0, <2>2, <3>1, AtKeeps
  <2> QED
    BY <1>1, <2>1, <2>2, ReadyQuietly
<1>8. ASSUME startCreate
      PROVE  Belonging' /\ [W!Next]_View
  <2> DEFINE c == [image |-> op.p.image, home |-> op.p.home, running |-> FALSE]
  <2>1. profile.image # None /\ home[profile.home] # Absent /\ container = None
    BY <1>8 DEF startCreate, Ready, Choosing, IInv, Fits, ContainerGone
  <2>2. \/ UNCHANGED world
        \/ UNCHANGED <<profile, backups, home>> /\ container' = c
    BY <1>8 DEF startCreate, Docker
  <2>3. c \in Containers /\ c # None /\ c.image = profile.image
        /\ c.running = FALSE
    <3>1. op.p.image \in Images /\ op.p.home \in Vols
      BY <1>0, <2>1 DEF Profiles
    <3>2. c \in Containers
      BY <3>1 DEF Containers
    <3> QED
      BY <1>0, <3>2
  <2> HIDE DEF c
  <2>4. CASE UNCHANGED world
    BY <2>4, Touched DEF world
  <2>5. CASE UNCHANGED <<profile, backups, home>> /\ container' = c
    <3>1. Known' = Known /\ (Running' <=> Running)
      BY <2>1, <2>3, <2>5 DEF Known, Running
    <3>2. Belonging'
      BY <2>1, <2>5, <3>1 DEF Belonging
    <3> QED
      BY <2>5, <3>1, <3>2, Unseen
  <2> QED
    BY <2>2, <2>4, <2>5
<1>9. ASSUME syncNetwork \/ startRun \/ startAwait
      PROVE  Belonging' /\ [W!Next]_View
  <2>1. UNCHANGED <<profile, backups, home>>
        /\ \/ container' = container
           \/ container # None
              /\ container' = [container EXCEPT !.running = TRUE]
    BY <1>9 DEF syncNetwork, startRun, startAwait, Observe, Docker,
       startContainer, world
  <2> QED
    BY <2>1, Touched
<1> QED
  BY <1>2, <1>3, <1>4, <1>5, <1>6, <1>7, <1>8, <1>9 DEF start

\* The command carries on what the labels of a copy and a restore rely on.
Carried ==
    /\ op'.cmd = op.cmd /\ op'.c = op.c /\ op'.seen = op.seen
    /\ op'.sel = op.sel /\ op'.src = op.src

\* Where the promise is about the same, a command that stays needs no more.
LEMMA ReadyAsBefore ==
  ASSUME Ready, home'[profile'.home] = home[profile.home],
         Known' = Known, backups' = backups,
         profile'.image = profile.image,
         container' = None <=> container = None,
         op'.pc = op.pc, Carried
  PROVE  Ready'
BY DEF Ready, Choosing, Replacing, Bringing, Sourced, Carried

\* A call of stopForSnapshot that goes on carries what was read.
LEMMA ReadyToCopy ==
  ASSUME Ready, Known' = Known, backups' = backups, Carried,
         op.pc \in Snapshot \cup Copied \cup {"backup.copy"},
         IF op.cmd = "restore"
         THEN op.pc \in Snapshot /\ op'.pc \in Snapshot \cup {"restore.volume"}
         ELSE op'.pc \in Snapshot \cup Copied \cup {"backup.copy"}
  PROVE  Ready'
<1>1. op'.pc \notin {"start.adopt", "start.select", "start.volume",
                     "start.create", "image.resolve", "backup.prune",
                     "image.remove", "image.save"}
  BY DEF Snapshot, Copied
<1>2. Choosing'
  BY <1>1 DEF Choosing
<1>3. CASE op.cmd = "restore"
  BY <1>1, <1>2, <1>3 DEF Ready, Replacing, Bringing, Sourced, Carried, Snapshot,
     Copied, Copy
<1>4. CASE op.cmd # "restore"
  <2>1. Replacing'
    BY <1>1, <1>4 DEF Ready, Replacing, Carried, Copy
  <2>2. Bringing'
    BY <1>4 DEF Bringing, Sourced, Carried, Snapshot, Copied, Restore, Extract,
       Switch
  <2> QED
    BY <1>2, <2>1, <2>2 DEF Ready
<1> QED
  BY <1>3, <1>4

\* stop, network and stopForSnapshot at most stop the container.
LEMMA StopServes ==
  ASSUME IInv, Belonging, Ready, stop \/ configureNetwork \/ stopForSnapshot
  PROVE  Belonging' /\ Ready' /\ [W!Next]_View
<1>0. op \in Operations
  BY WorldFacts
<1>1. UNCHANGED <<profile, backups, home>>
      /\ \/ container' = container
         \/ container # None
            /\ container' = [container EXCEPT !.running = FALSE]
  BY DEF stop, configureNetwork, stopForSnapshot, snapshotWriters,
     snapshotStop, snapshotRecheck, Observe, Docker, WriteFile,
     stopContainer, saveNetwork, world, Running
<1>2. Belonging' /\ [W!Next]_View /\ Known' = Known
  BY <1>1, Touched
<1>3. CASE stop \/ configureNetwork
  <2>1. \E ok \in BOOLEAN : op' = Done(ok) \/ Faulty(Done(ok))
    BY <1>3 DEF stop, configureNetwork, Observe, Docker, WriteFile
  <2>2. op'.pc \in Quiet
    BY <1>0, <2>1, Moves DEF Went, Quiet, Labels, Snapshot, Copy, Copied,
       Restore, Extract, Switch
  <2> QED
    BY <1>2, <2>2, ReadyQuietly
<1>4. CASE stopForSnapshot
  <2>1. op.pc \in Snapshot
    BY <1>4 DEF stopForSnapshot, snapshotWriters, snapshotStop,
       snapshotRecheck, Snapshot
  <2>2. \/ op' = snapshotFails \/ Faulty(snapshotFails)
        \/ \E l \in Snapshot : op' = At(l)
        \/ op.cmd = "restore" /\ op' = At("restore.volume")
        \/ op.cmd # "restore" /\ op' = At("backup.copy")
    BY <1>4 DEF stopForSnapshot, snapshotWriters, snapshotStop,
       snapshotRecheck, Observe, Docker, Snapshot
  <2>3. CASE op' = snapshotFails \/ Faulty(snapshotFails)
    <3>1. op'.pc \in Quiet
      BY <1>0, <2>3, RoutineEnds DEF Went, Quiet, Labels, Snapshot, Copy,
         Copied, Restore, Extract, Switch
    <3> QED
      BY <1>2, <3>1, ReadyQuietly
  <2>4. ASSUME NEW l \in Snapshot \cup {"restore.volume", "backup.copy"},
               op' = At(l),
               IF op.cmd = "restore" THEN l \in Snapshot \cup {"restore.volume"}
                                     ELSE l \in Snapshot \cup {"backup.copy"}
        PROVE  Ready'
    <3>1. Carried /\ op'.pc = l
      BY <1>0, <2>4, Moves DEF Went, Carried, Labels, Snapshot
    <3> QED
      BY <1>1, <1>2, <2>1, <2>4, <3>1, ReadyToCopy
  <2> QED
    BY <1>2, <2>2, <2>3, <2>4
<1> QED
  BY <1>3, <1>4

\* Retention keeps a newest part of the copies.
LEMMA NewestPart ==
  ASSUME NEW s \in Seq(Copies), s # << >>
  PROVE  /\ newest(s) \in Seq(Copies) /\ ToSet(newest(s)) \subseteq ToSet(s)
         /\ \/ newest(s) = s
            \/ \E n \in 1 .. Len(s) - 1 : newest(s) = SubSeq(s, n, Len(s))
<1>1. Len(s) \in Nat /\ Len(s) # 0
  BY LenProperties, EmptySeq
<1>2. CASE Len(s) > 2
  <2>1. newest(s) = SubSeq(s, Len(s) - 1, Len(s)) /\ Len(s) - 1 \in 1 .. Len(s)
    BY <1>1, <1>2 DEF newest
  <2>2. /\ newest(s) \in Seq(Copies) /\ Len(newest(s)) = 2
        /\ \A i \in 1 .. 2 : newest(s)[i] = s[Len(s) - 1 + i - 1]
    BY <1>1, <2>1, SubSeqProperties
  <2>3. \A i \in 1 .. 2 : Len(s) - 1 + i - 1 \in 1 .. Len(s)
    BY <1>1, <1>2
  <2>4. ToSet(newest(s)) \subseteq ToSet(s)
    BY <1>1, <2>2, <2>3 DEF ToSet
  <2>5. Len(s) - 1 \in 1 .. Len(s) - 1
    BY <1>1, <1>2
  <2> QED
    BY <2>1, <2>2, <2>4, <2>5
<1>3. CASE ~(Len(s) > 2)
  <2>1. newest(s) = SubSeq(s, 1, Len(s))
    BY <1>3 DEF newest
  <2>2. newest(s) = s
    BY <1>1, <2>1, SubSeqProperties
  <2> QED
    BY <2>2
<1> QED
  BY <1>2, <1>3

\* A copy is of the known image and of the files as they are (backup.go 381-439).
LEMMA BackupServes ==
  ASSUME IInv, Belonging, Ready, Secured, op.cmd # "restore", backup
  PROVE  Belonging' /\ Ready' /\ [W!Next]_View
<1>0. /\ op \in Operations /\ op.p = profile /\ profile \in Profiles
      /\ container \in Containers \cup {None} /\ backups \in Seq(Copies)
      /\ profile.home \in Vols
      /\ None \notin Images \cup Containers \cup Copies
      /\ Known = IF container # None THEN container.image ELSE profile.image
      /\ Known \in Images \cup {None}
  <2>1. op.pc \notin {"idle", "done", "restore.cleanup"}
    BY DEF backup, backupObserve, backupCopy, backupCopying, backupRecheck,
       backupPublish, backupPrune
  <2> QED
    BY <2>1, WorldFacts
<1>1. ASSUME op' = backupFails \/ Faulty(backupFails)
      PROVE  Ready'
  <2>1. op'.pc \in Quiet
    BY <1>0, <1>1, RoutineEnds DEF Went, Quiet, Labels, Snapshot, Copy, Copied,
       Restore, Extract, Switch
  <2> QED
    BY <2>1, ReadyQuietly
<1>2. ASSUME UNCHANGED world
      PROVE  Belonging' /\ [W!Next]_View /\ Known' = Known
  BY <1>2, Touched DEF world
<1>3. CASE backupObserve
  <2>1. UNCHANGED world
    BY <1>3 DEF backupObserve, Observe
  <2>2. \/ op' = backupFails \/ Faulty(backupFails)
        \/ op' = [op EXCEPT !.seen = container, !.pc = "snapshot.writers"]
    BY <1>3 DEF backupObserve, Observe
  <2>3. ASSUME op' = [op EXCEPT !.seen = container, !.pc = "snapshot.writers"]
        PROVE  Ready'
    <3>1. /\ op'.pc = "snapshot.writers" /\ op'.seen = container
          /\ op'.cmd = op.cmd /\ op'.sel = op.sel
      BY <1>0, <2>3 DEF Operations
    <3>2. op.cmd = "update-image" /\ Known # None
             => Variant[op.sel] = Variant[Known]
      BY <1>3 DEF backupObserve, Ready, Replacing
    <3>3. Known' = Known
      BY <1>2, <2>1
    <3>4. Choosing'
      BY <3>1 DEF Choosing
    <3>5. Replacing'
      BY <1>0, <3>1, <3>2, <3>3 DEF Replacing
    <3>6. Bringing'
      BY <3>1 DEF Bringing, Sourced, Restore, Extract, Switch
    <3> QED
      BY <3>4, <3>5, <3>6 DEF Ready
  <2> QED
    BY <1>1, <1>2, <2>1, <2>2, <2>3
<1>4. CASE backupCopy \/ backupCopying \/ backupRecheck
  <2>1. UNCHANGED world
    BY <1>4 DEF backupCopy, backupCopying, backupRecheck, Observe
  <2>2. op.pc \in Copied \cup {"backup.copy"}
    BY <1>4 DEF backupCopy, backupCopying, backupRecheck, Copied
  <2>3. \/ op' = backupFails \/ Faulty(backupFails)
        \/ \E x, y : op' = [op EXCEPT !.copy = x, !.net = y,
                                      !.pc = "backup.copying"]
        \/ \E x : op' = [op EXCEPT !.copy = x, !.pc = "backup.recheck"]
        \/ op' = At("backup.publish")
    BY <1>4 DEF backupCopy, backupCopying, backupRecheck, Observe
  <2>4. ASSUME Carried, op'.pc \in Copied
        PROVE  Ready'
    BY <1>2, <2>1, <2>2, <2>4, ReadyToCopy DEF world
  <2>5. CASE \/ \E x, y : op' = [op EXCEPT !.copy = x, !.net = y,
                                           !.pc = "backup.copying"]
             \/ \E x : op' = [op EXCEPT !.copy = x, !.pc = "backup.recheck"]
             \/ op' = At("backup.publish")
    <3>1. Carried /\ op'.pc \in {"backup.copying", "backup.recheck",
                                 "backup.publish"}
      <4>1. CASE \E x, y : op' = [op EXCEPT !.copy = x, !.net = y,
                                            !.pc = "backup.copying"]
        BY <1>0, <4>1 DEF Operations, Carried
      <4>2. CASE \E x : op' = [op EXCEPT !.copy = x, !.pc = "backup.recheck"]
        BY <1>0, <4>2 DEF Operations, Carried
      <4>3. CASE op' = At("backup.publish")
        BY <1>0, <4>3 DEF Operations, Carried, At
      <4> QED
        BY <2>5, <4>1, <4>2, <4>3
    <3> QED
      BY <1>2, <2>1, <2>4, <3>1 DEF Copied
  <2> QED
    BY <1>1, <1>2, <2>1, <2>3, <2>5
<1>5. CASE backupPublish
  <2> DEFINE b == [own |-> TRUE, image |-> snapshotImage, data |-> op.copy,
                   net |-> op.net, applied |-> applied[op.p.home]]
  <2>1. \/ UNCHANGED world /\ Faulty(backupFails)
        \/ /\ backups' = Append(backups, b) /\ op' = At("backup.prune")
           /\ UNCHANGED <<profile, container, home>>
    BY <1>5 DEF backupPublish, WriteFile
  <2>2. op.pc \in Copied /\ op.pc \in Copy
    BY <1>5 DEF backupPublish, Copied, Copy
  <2>3. /\ op.copy \in Content /\ home[profile.home] # Absent
        /\ op.seen # None \/ profile.image # None
        /\ op.seen \in Containers \cup {None} /\ op.net \in Nets \cup {None}
        /\ applied[op.p.home] \in Nets \cup {None}
    BY <1>0, <2>2
       DEF IInv, Fits, Gathered, WorldOK, WorldTypeOK, Operations
  <2>4. /\ op.seen # None => op.seen.image = Known
        /\ container # None => op.seen # None
        /\ op.copy = home[profile.home] /\ ~Running
        /\ op.cmd = "update-image" /\ Known # None
              => Variant[op.sel] = Variant[Known]
    BY <2>2 DEF Ready, Replacing, Secured
  <2>5. snapshotImage = Known /\ Known \in Images /\ Known # None
    BY <1>0, <2>3, <2>4 DEF snapshotImage, Containers, Profiles
  <2>6. b \in Copies /\ b.image = Known /\ b.data = home[profile.home]
    BY <2>3, <2>4, <2>5 DEF Copies
  <2> HIDE DEF b
  <2>7. CASE UNCHANGED world /\ Faulty(backupFails)
    BY <1>1, <1>2, <2>7
  <2>8. CASE /\ backups' = Append(backups, b) /\ op' = At("backup.prune")
             /\ UNCHANGED <<profile, container, home>>
    <3>1. Known' = Known /\ Running' = Running
      BY <2>8 DEF Known, Running
    <3>2. backups' # << >> /\ Last(backups') = b
          /\ ToSet(backups') = ToSet(backups) \cup {b}
      <4>1. /\ Len(backups') = Len(backups) + 1 /\ Len(backups) \in Nat
            /\ \A i \in 1 .. Len(backups) : backups'[i] = backups[i]
            /\ backups'[Len(backups) + 1] = b /\ backups' # << >>
        BY <1>0, <2>6, <2>8, AppendProperties, LenProperties
      <4>2. 1 .. Len(backups) + 1 = (1 .. Len(backups)) \cup {Len(backups) + 1}
        BY <4>1
      <4> QED
        BY <4>1, <4>2 DEF Last, ToSet
    <3>3. Belonging'
      BY <2>5, <2>6, <2>8, <3>1, <3>2 DEF Belonging
    <3>4. Went("backup.prune")
      BY <1>0, <2>8, Moves DEF Labels
    <3>5. Replacing'
      BY <2>4, <2>6, <3>1, <3>2, <3>4 DEF Replacing, Went
    <3>6. Choosing' /\ Bringing'
      BY <3>4 DEF Choosing, Bringing, Sourced, Went, Snapshot, Restore,
         Extract, Switch
    <3>7. W!Copy
      BY <2>3, <2>4, <2>5, <2>6, <2>8, <3>1, <3>2 DEF W!Copy, W!Last, Last
    <3> QED
      BY <3>3, <3>5, <3>6, <3>7 DEF Ready, W!Next
  <2> QED
    BY <2>1, <2>7, <2>8
<1>6. CASE backupPrune
  <2>1. op.pc = "backup.prune" /\ op.pc \in Copy
    BY <1>6 DEF backupPrune, Copy
  <2>2. /\ backups # << >> /\ Last(backups).image = Known
        /\ op.cmd = "update-image" /\ Known # None
              => Variant[op.sel] = Variant[Known]
    BY <2>1 DEF Ready, Replacing
  <2>3. \/ UNCHANGED world /\ Faulty(backupFails)
        \/ /\ backups' = newest(backups) /\ op' = backupReturns
           /\ UNCHANGED <<profile, container, home>>
    BY <1>6 DEF backupPrune
  <2>4. CASE UNCHANGED world /\ Faulty(backupFails)
    BY <1>1, <1>2, <2>4
  <2>5. CASE /\ backups' = newest(backups) /\ op' = backupReturns
             /\ UNCHANGED <<profile, container, home>>
    <3>1. Known' = Known /\ Running' = Running
      BY <2>5 DEF Known, Running
    <3>2. /\ backups' # << >> /\ Last(backups') = Last(backups)
          /\ ToSet(backups') \subseteq ToSet(backups)
      BY <1>0, <2>2, <2>5, NewestKept, NewestPart
    <3>3. Belonging'
      BY <2>2, <2>5, <3>1, <3>2 DEF Belonging
    <3>4. Ready'
      <4>1. CASE op.cmd = "update-image"
        <5>1. Went("image.remove")
          BY <1>0, <2>5, <4>1, RoutineEnds
        <5>2. Replacing'
          BY <2>2, <3>1, <3>2, <4>1, <5>1 DEF Replacing, Went, Snapshot, Copy,
             Copied
        <5> QED
          BY <5>1, <5>2 DEF Ready, Choosing, Bringing, Sourced, Went, Snapshot,
             Restore, Extract, Switch
      <4>2. CASE op.cmd # "update-image"
        <5>1. op'.pc \in {"done", "start.observe"}
          BY <1>0, <2>5, <4>2, RoutineEnds DEF Went
        <5>2. op'.pc \in Quiet
          BY <5>1 DEF Quiet, Labels, Snapshot, Copy, Copied, Restore, Extract,
             Switch
        <5> QED
          BY <5>2, ReadyQuietly
      <4> QED
        BY <4>1, <4>2
    <3>5. [W!Next]_View
      <4>1. CASE newest(backups) = backups
        BY <2>5, <3>1, <4>1, Unseen
      <4>2. CASE newest(backups) # backups
        <5>1. \E n \in 1 .. Len(backups) - 1 :
                 backups' = SubSeq(backups, n, Len(backups))
          BY <1>0, <2>2, <2>5, <4>2, NewestPart
        <5> QED
          BY <2>5, <3>1, <5>1 DEF W!Next, W!Drop
      <4> QED
        BY <4>1, <4>2
    <3> QED
      BY <3>3, <3>4, <3>5
  <2> QED
    BY <2>3, <2>4, <2>5
<1> QED
  BY <1>3, <1>4, <1>5, <1>6 DEF backup

\* The container is removed while it does not run: the known image is forgotten
\* where no profile names it, and files are left then, and a copy.
LEMMA Removed ==
  ASSUME IInv, Belonging, ~Running, container # None, removeContainer,
         profile.image # None \/ backups # << >> \/ OtherBackups # {}
  PROVE  /\ Belonging' /\ [W!Next]_View /\ container' = None
         /\ Known' \in {None, Known} /\ UNCHANGED <<profile, backups, home>>
<1>0. /\ container # None => Known = container.image /\ Known # None
                             /\ profile.image \in {None, container.image}
      /\ None \notin Images
  BY WorldFacts DEF Containers
<1>1. /\ container' = None /\ UNCHANGED <<profile, backups, home>>
  BY DEF removeContainer
<1>2. Running = FALSE /\ Running' = FALSE
  BY <1>1 DEF Running
<1>3. Known' = profile.image
  BY <1>1 DEF Known
<1>4. Belonging'
  BY <1>0, <1>1, <1>3 DEF Belonging
<1>5. CASE profile.image # None
  <2>1. Known' = Known
    BY <1>0, <1>3, <1>5
  <2> QED
    BY <1>1, <1>2, <1>4, <2>1, Unseen
<1>6. CASE profile.image = None
  <2>1. W!Forget
    BY <1>1, <1>2, <1>3, <1>6 DEF W!Forget, Belonging
  <2> QED
    BY <1>1, <1>3, <1>4, <1>6, <2>1 DEF W!Next
<1> QED
  BY <1>5, <1>6

\* A restore that goes on brings the same copy.
LEMMA ReadyToRestore ==
  ASSUME Ready, op.pc \in Restore \cup {"restore.volume"},
         op'.pc \in Restore, op'.src = op.src, backups' = backups,
         Known' \in {None, Known}
  PROVE  Ready'
<1>1. Bringing'
  BY DEF Ready, Bringing, Sourced
<1> QED
  BY <1>1 DEF Ready, Choosing, Replacing, Snapshot, Copy, Copied, Restore,
     Extract, Switch

\* The copy that is accepted is of the variant of all others (backup.go 467).
LEMMA ReadServes ==
  ASSUME IInv, Belonging, op.cmd = "restore", restoreRead
  PROVE  Ready'
<1>0. /\ op \in Operations /\ op.p = profile /\ backups \in Seq(Copies)
      /\ container \in Containers \cup {None} /\ local \subseteq Images
      /\ None \notin Images
      /\ Known = IF container # None THEN container.image ELSE profile.image
  <2>1. op.pc \notin {"idle", "done", "restore.cleanup"}
    BY DEF restoreRead
  <2> QED
    BY <2>1, WorldFacts
<1>1. UNCHANGED world
  BY DEF restoreRead, Observe
<1>2. Known' = Known /\ backups' = backups
  BY <1>1, Touched DEF world
<1>3. ASSUME op' = Done(FALSE) \/ Faulty(Done(FALSE))
      PROVE  Ready'
  <2>1. op'.pc \in Quiet
    BY <1>0, <1>3, Moves DEF Went, Quiet, Labels, Snapshot, Copy, Copied,
       Restore, Extract, Switch
  <2> QED
    BY <2>1, ReadyQuietly
<1>4. ASSUME NEW b \in ToSet(backups) \cup OtherBackups,
             variantAccepted(b),
             op' = [op EXCEPT !.seen = container, !.src = b,
                              !.pc = "snapshot.writers"]
      PROVE  Ready'
  <2>1. /\ op'.pc = "snapshot.writers" /\ op'.src = b /\ op'.cmd = "restore"
    BY <1>0, <1>4 DEF Operations
  <2> DEFINE current == selectedImageReference(op.p, container)
  <2>2. Known # None => current = Known
    BY <1>0 DEF selectedImageReference
  <2>3. CASE current \in local
    <3>1. Variant[b.image] = Variant[current]
      BY <1>4, <2>3 DEF variantAccepted
    <3>2. CASE Known # None
      BY <2>2, <3>1, <3>2, <1>2, <2>1 DEF Belonging, Ready, Choosing,
         Replacing, Bringing, Copy, Copied
    <3>3. CASE Known = None
      <4>1. home[profile.home] = Absent
        BY <1>0, <2>3, <3>3 DEF selectedImageReference, Containers
      <4>2. ToSet(backups) = {}
        BY <3>3, <4>1 DEF Belonging, ToSet
      <4> QED
        BY <1>2, <1>4, <2>1, <3>3, <4>2 DEF Ready, Choosing, Replacing,
           Bringing, Copy, Copied
    <3> QED
      BY <3>2, <3>3
  <2>4. CASE current \notin local
    <3>1. b.own
      BY <1>4, <2>4 DEF variantAccepted
    <3>2. b \in ToSet(backups)
      BY <1>4, <3>1, ConstantsAssumption DEF ConstantsAssumption
    <3> QED
      BY <1>2, <2>1, <3>2 DEF Belonging, Ready, Choosing, Replacing, Bringing,
         Copy, Copied
  <2> QED
    BY <2>3, <2>4
<1> QED
  BY <1>3, <1>4 DEF restoreRead, Observe

\* restore: a copy and its image replace the files and their image in the one
\* write of the profile (backup.go 460-591).
LEMMA RestoreServes ==
  ASSUME IInv, Belonging, Ready, op.cmd = "restore", restore
  PROVE  Belonging' /\ Ready' /\ [W!Next]_View
<1>0. /\ op \in Operations /\ profile \in Profiles /\ profile.home \in Vols
      /\ container \in Containers \cup {None} /\ backups \in Seq(Copies)
      /\ home \in [Vols -> Content \cup {Absent}] /\ None \notin Images
      /\ op.pc # "restore.cleanup" => op.p = profile
  <2>1. op.pc \notin {"idle", "done"}
    BY DEF restore, restoreRead, restoreVolume, restoreExtract,
       restoreExtracting, restoreFiles, restoreRemove, restoreCommit,
       restoreCleanup, restoreUndoNetwork, restoreUndoVolume
  <2> QED
    BY <2>1, WorldFacts
<1>1. ASSUME NEW ok \in BOOLEAN, op' = Done(ok) \/ Faulty(Done(ok))
      PROVE  Ready'
  <2>1. op'.pc \in Quiet
    BY <1>0, <1>1, Moves DEF Went, Quiet, Labels, Snapshot, Copy, Copied,
       Restore, Extract, Switch
  <2> QED
    BY <2>1, ReadyQuietly
<1>2. ASSUME NEW l \in Restore \cup {"restore.cleanup"},
             op.pc \in Restore \cup {"restore.volume"},
             op' = At(l) \/ Faulty(At(l)),
             backups' = backups, Known' \in {None, Known}
      PROVE  Ready'
  <2>1. Went(l)
    BY <1>0, <1>2, Moves DEF Labels, Restore, Extract, Switch
  <2>2. CASE l \in Restore
    BY <1>2, <2>1, <2>2, ReadyToRestore DEF Went
  <2>3. CASE l = "restore.cleanup"
    <3>1. op'.pc \in Quiet
      BY <2>1, <2>3 DEF Went, Quiet, Labels, Snapshot, Copy, Copied, Restore,
         Extract, Switch
    <3> QED
      BY <3>1, ReadyQuietly
  <2> QED
    BY <2>2, <2>3
<1>3. ASSUME \/ UNCHANGED world
             \/ \E n : saveNetwork(n)
             \/ \E v, d, n : v # profile.home /\ setVolume(v, d, n)
      PROVE  Belonging' /\ [W!Next]_View /\ Known' = Known /\ backups' = backups
  <2>1. UNCHANGED <<profile, backups, container>>
        /\ home'[profile.home] = home[profile.home]
    BY <1>0, <1>3 DEF world, saveNetwork, setVolume
  <2> QED
    BY <2>1, Touched
<1>4. CASE restoreRead
  <2>1. UNCHANGED world
    BY <1>4 DEF restoreRead, Observe
  <2> QED
    BY <1>3, <1>4, <2>1, ReadServes
<1>5. CASE restoreVolume
  <2>1. \E v : \/ /\ v # profile.home /\ setVolume(v, 0, None)
                  /\ \/ op' = [op EXCEPT !.vol = v, !.pc = "restore.extract"]
                     \/ Faulty(Done(FALSE))
               \/ UNCHANGED world /\ Faulty(Done(FALSE))
    BY <1>0, <1>5 DEF restoreVolume, Docker
  <2>2. Belonging' /\ [W!Next]_View /\ Known' = Known /\ backups' = backups
    BY <1>3, <2>1
  <2>3. ASSUME NEW v, op' = [op EXCEPT !.vol = v, !.pc = "restore.extract"]
        PROVE  Ready'
    <3>1. op'.pc = "restore.extract" /\ op'.src = op.src
      BY <1>0, <2>3 DEF Operations
    <3>2. op.pc = "restore.volume" /\ "restore.extract" \in Restore
      BY <1>5 DEF restoreVolume, Restore, Extract
    <3> QED
      BY <2>2, <3>1, <3>2, ReadyToRestore
  <2> QED
    BY <1>1, <2>1, <2>2, <2>3
<1>6. CASE restoreExtract \/ restoreExtracting \/ restoreFiles
           \/ restoreUndoNetwork
  <2>1. op.pc \in Restore /\ op.vol # profile.home
    BY <1>6 DEF restoreExtract, restoreExtracting, restoreFiles,
       restoreUndoNetwork, Restore, Extract, Switch, IInv, Fits, Filling
  <2>2. \/ UNCHANGED world
        \/ \E n : saveNetwork(n)
        \/ \E d, n : setVolume(op.vol, d, n)
    BY <1>6 DEF restoreExtract, restoreExtracting, restoreFiles,
       restoreUndoNetwork, Docker, WriteFile
  <2>3. Belonging' /\ [W!Next]_View /\ Known' = Known /\ backups' = backups
    BY <1>3, <2>1, <2>2
  <2>4. \/ \E l \in Restore : op' = At(l) \/ Faulty(At(l))
        \/ \E n : op' = [op EXCEPT !.net = n, !.pc = "restore.files"]
        \/ Faulty([At("restore.undoVolume") EXCEPT !.disturbed = TRUE])
    BY <1>6 DEF restoreExtract, restoreExtracting, restoreFiles,
       restoreUndoNetwork, Docker, WriteFile, Restore, Extract, Switch
  <2>5. CASE \E l \in Restore : op' = At(l) \/ Faulty(At(l))
    BY <1>2, <2>1, <2>3, <2>5
  <2>6. CASE \E n : op' = [op EXCEPT !.net = n, !.pc = "restore.files"]
    <3>1. op'.pc = "restore.files" /\ op'.src = op.src
      BY <1>0, <2>6 DEF Operations
    <3>2. "restore.files" \in Restore
      BY DEF Restore, Switch
    <3> QED
      BY <2>1, <2>3, <3>1, <3>2, ReadyToRestore
  <2>7. CASE Faulty([At("restore.undoVolume") EXCEPT !.disturbed = TRUE])
    <3> DEFINE n == At("restore.undoVolume")
               o == [n EXCEPT !.disturbed = TRUE]
    <3>1. n \in Operations /\ n.pc = "restore.undoVolume" /\ n.src = op.src
      BY <1>0, AtKeeps DEF Labels
    <3> HIDE DEF n
    <3>2. o \in Operations /\ o.pc = "restore.undoVolume" /\ o.src = op.src
      <4>1. o \in Operations
        BY <3>1, Fields
      <4> QED
        BY <3>1, <4>1 DEF Operations
    <3>3. Faulty(o)
      BY <2>7 DEF n
    <3> HIDE DEF o
    <3>4. op'.pc = "restore.undoVolume" /\ op'.src = op.src
      BY <1>0, <3>2, <3>3, Faulted
    <3>5. "restore.undoVolume" \in Restore
      BY DEF Restore, Extract
    <3> QED
      BY <2>1, <2>3, <3>4, <3>5, ReadyToRestore
  <2> QED
    BY <2>3, <2>4, <2>5, <2>6, <2>7
<1>7. CASE restoreUndoVolume \/ restoreCleanup
  <2>1. \/ UNCHANGED world
        \/ \E v, d, n : v # profile.home /\ setVolume(v, d, n)
    BY <1>7 DEF restoreUndoVolume, restoreCleanup, Docker, IInv, Fits, Filling,
       Restore, Extract
  <2>2. \E ok \in BOOLEAN : op' = Done(ok) \/ Faulty(Done(ok))
    BY <1>7 DEF restoreUndoVolume, restoreCleanup, Docker
  <2> QED
    BY <1>1, <1>3, <2>1, <2>2
<1>8. CASE restoreRemove
  <2>1. op.pc = "restore.remove" /\ op.pc \in Restore
    BY <1>8 DEF restoreRemove, Restore, Switch
  <2>2. \E l \in Restore : op' = At(l) \/ Faulty(At(l))
    BY <1>8 DEF restoreRemove, Docker, Observe, Restore, Switch
  <2>3. \/ UNCHANGED world
        \/ container # None /\ ~Running /\ removeContainer
    BY <1>8 DEF restoreRemove, Docker, Observe
  <2>4. CASE UNCHANGED world
    BY <1>2, <1>3, <2>1, <2>2, <2>4
  <2>5. CASE container # None /\ ~Running /\ removeContainer
    <3>1. backups # << >> \/ OtherBackups # {}
      BY <2>1 DEF Ready, Bringing, Sourced, ToSet
    <3> QED
      BY <1>2, <2>1, <2>2, <2>5, <3>1, Removed
  <2> QED
    BY <2>3, <2>4, <2>5
<1>9. CASE restoreCommit
  <2> DEFINE p == [image |-> op.src.image, home |-> op.vol]
  <2>1. op.pc = "restore.commit" /\ op.pc \in Restore \cap Switch
    BY <1>9 DEF restoreCommit, Restore, Switch
  <2>2. /\ op.src \in Copies /\ home[op.vol] = op.src.data /\ container = None
        /\ op.src.image \in Images /\ op.src.data \in Content
        /\ op.vol \in Vols
    BY <2>1 DEF IInv, Fits, Gathered, Filling, ContainerGone, Copies
  <2>3. /\ op.src \in ToSet(backups) \cup OtherBackups
        /\ \A b \in ToSet(backups) : Variant[b.image] = Variant[op.src.image]
        /\ Known # None => Variant[op.src.image] = Variant[Known]
    BY <2>1 DEF Ready, Bringing, Sourced
  <2>4. \/ UNCHANGED world /\ Faulty(At("restore.undoNetwork"))
        \/ /\ profile' = p /\ op' = At("restore.cleanup")
           /\ UNCHANGED <<backups, container, home>>
    BY <1>9 DEF restoreCommit, WriteFile
  <2>5. p.image = op.src.image /\ p.home = op.vol
    OBVIOUS
  <2> HIDE DEF p
  <2>6. CASE UNCHANGED world /\ Faulty(At("restore.undoNetwork"))
    <3>1. "restore.undoNetwork" \in Restore
      BY DEF Restore
    <3> QED
      BY <1>2, <1>3, <2>1, <2>6, <3>1
  <2>7. CASE /\ profile' = p /\ op' = At("restore.cleanup")
             /\ UNCHANGED <<backups, container, home>>
    <3>1. /\ Known' = op.src.image /\ Running' = FALSE /\ Running = FALSE
          /\ home'[profile'.home] = op.src.data
      BY <1>0, <2>2, <2>5, <2>7 DEF Known, Running
    <3>2. op.src.data # Absent
      BY <2>2, ConstantsAssumption DEF ConstantsAssumption
    <3>3. Belonging'
      BY <1>0, <2>2, <2>3, <2>5, <2>7, <3>1, <3>2 DEF Belonging
    <3>4. W!Restore
      BY <2>3, <2>7, <3>1 DEF W!Restore, W!ToSet, ToSet
    <3>5. op'.pc \in Quiet
      BY <1>0, <2>7, AtKeeps DEF Labels, Quiet, Snapshot, Copy, Copied,
         Restore, Extract, Switch
    <3> QED
      BY <3>3, <3>4, <3>5, ReadyQuietly DEF W!Next
  <2> QED
    BY <2>4, <2>6, <2>7
<1> QED
  BY <1>4, <1>5, <1>6, <1>7, <1>8, <1>9 DEF restore

\* The desktop, or an update of its applications, changes the files.
LEMMA SaveServes ==
  ASSUME IInv, Belonging, Running, Save(container.home)
  PROVE  /\ Belonging' /\ [W!Next]_View
         /\ UNCHANGED <<profile, backups, container>>
<1>0. /\ container # None /\ container.home = profile.home
      /\ profile.home \in Vols
      /\ home \in [Vols -> Content \cup {Absent}]
  BY WorldFacts DEF Running
<1>1. /\ UNCHANGED <<profile, backups, container>>
      /\ home'[profile.home] = writes + 1
  BY <1>0 DEF Save
<1>2. writes + 1 \in Version
  BY ConstantsAssumption DEF ConstantsAssumption, IInv, WorldOK, WorldTypeOK,
     Save, Version
<1>3. writes + 1 # Absent
  BY <1>2, ConstantsAssumption DEF ConstantsAssumption, Content
<1>4. Known' = Known /\ (Running' <=> Running)
  BY <1>1 DEF Known, Running
<1>5. Running' = Running
  BY <1>1 DEF Running
<1>6. Belonging'
  BY <1>0, <1>1, <1>3, <1>4 DEF Belonging
<1>7. W!Save
  BY <1>1, <1>2, <1>4, <1>5 DEF W!Save
<1> QED
  BY <1>1, <1>6, <1>7 DEF W!Next

\* The labels of an update at which its steps leave more to be known.
LEMMA LeadsQuietly ==
  ASSUME op'.pc \in Leads,
         op'.pc \notin {"image.resolve", "backup.observe", "image.save"}
  PROVE  Ready'
<1>1. op'.pc \in Quiet
  BY DEF Leads, Quiet, Labels, Snapshot, Copy, Copied, Restore, Extract, Switch
<1> QED
  BY <1>1, ReadyQuietly

\* Both updates: another image takes over files that are copied, and where a
\* container is removed it is after the copy (image_updates.go 83-107).
LEMMA UpdateServes ==
  ASSUME IInv, Belonging, Ready, Secured, update
  PROVE  Belonging' /\ Ready' /\ [W!Next]_View
<1>0. /\ op \in Operations /\ op.p = profile /\ profile \in Profiles
      /\ container \in Containers \cup {None} /\ backups \in Seq(Copies)
      /\ None \notin Images \cup Containers /\ Absent \notin Content
      /\ Known = IF container # None THEN container.image ELSE profile.image
      /\ Known \in Images \cup {None}
  <2>1. op.pc \notin {"idle", "done", "restore.cleanup"}
    BY DEF update, imageObserve, imageResolve, imageRemove, imageSave,
       imagePackages, imageVerify, imageChecks, appsObserve, appsUpdate,
       updateResume, updateFinish, updateFail
  <2> QED
    BY <2>1, WorldFacts
<1>1. op'.pc \in Leads
  BY <1>0, UpdateLeads
<1>2. ASSUME UNCHANGED <<profile, backups, home, container>>
      PROVE  Belonging' /\ [W!Next]_View /\ Known' = Known
  BY <1>2, Touched
<1>3. CASE imageObserve
  <2>1. UNCHANGED world
    BY <1>3 DEF imageObserve, Observe
  <2>2. \/ op' = Done(FALSE) \/ Faulty(Done(FALSE))
        \/ op' = [op EXCEPT !.c = container, !.pc = "image.resolve"]
    BY <1>3 DEF imageObserve, Observe
  <2>3. CASE op' = Done(FALSE) \/ Faulty(Done(FALSE))
    <3>1. op'.pc = "done"
      BY <1>0, <2>3, Moves DEF Went
    <3> QED
      BY <1>1, <1>2, <2>1, <3>1, LeadsQuietly DEF world
  <2>4. CASE op' = [op EXCEPT !.c = container, !.pc = "image.resolve"]
    <3>1. op'.pc = "image.resolve" /\ op'.c = container
      BY <1>0, <2>4 DEF Operations
    <3>2. Known' = Known
      BY <1>2, <2>1 DEF world
    <3>3. Ready'
      BY <1>0, <3>1, <3>2 DEF Ready, Choosing, Replacing, Bringing, Sourced,
         Snapshot, Copy, Copied, Restore, Extract, Switch
    <3> QED
      BY <1>2, <2>1, <3>3 DEF world
  <2> QED
    BY <2>2, <2>3, <2>4
<1>4. CASE imageResolve
  <2>1. UNCHANGED <<profile, backups, home, container>>
    BY <1>4 DEF imageResolve
  <2>2. /\ op.pc = "image.resolve" /\ op.cmd = "update-image"
        /\ op.c = None => container = None
        /\ op.c # None => op.c.image = Known
    BY <1>4 DEF imageResolve, Ready, Replacing, IInv, Fits, Gathered,
       ContainerGone
  <2>3. ASSUME NEW i, Known # None,
               Variant[i] = Variant[IF op.c = None /\ op.p.image = None
                                       /\ home[op.p.home] = Absent
                                    THEN i
                                    ELSE selectedImageReference(op.p, op.c)]
        PROVE  Variant[i] = Variant[Known]
    <3>1. ~(op.c = None /\ op.p.image = None)
          /\ selectedImageReference(op.p, op.c) = Known
      BY <1>0, <2>2, <2>3 DEF selectedImageReference
    <3> QED
      BY <2>3, <3>1
  <2>4. \/ op' = At("update.fail") \/ Faulty(At("update.fail"))
        \/ \E i : /\ op' = [op EXCEPT !.sel = i, !.pc = "backup.observe"]
                  /\ Known # None => Variant[i] = Variant[Known]
    BY <1>4, <2>3 DEF imageResolve
  <2>5. CASE op' = At("update.fail") \/ Faulty(At("update.fail"))
    <3>1. op'.pc = "update.fail"
      BY <1>0, <2>5, Moves DEF Went, Labels
    <3> QED
      BY <1>1, <1>2, <2>1, <3>1, LeadsQuietly
  <2>6. ASSUME NEW i, op' = [op EXCEPT !.sel = i, !.pc = "backup.observe"],
               Known # None => Variant[i] = Variant[Known]
        PROVE  Ready'
    <3>1. op'.pc = "backup.observe" /\ op'.sel = i
      BY <1>0, <2>6 DEF Operations
    <3>2. Known' = Known
      BY <1>2, <2>1
    <3> QED
      BY <2>6, <3>1, <3>2 DEF Ready, Choosing, Replacing, Bringing, Sourced,
         Snapshot, Copy, Copied, Restore, Extract, Switch
  <2> QED
    BY <1>2, <2>1, <2>4, <2>5, <2>6
<1>5. CASE imageRemove
  <2>1. op.pc = "image.remove" /\ op.cmd = "update-image"
    BY <1>5 DEF imageRemove, IInv, Fits, Gathered
  <2>2. /\ backups # << >> /\ Last(backups).image = Known
        /\ Last(backups).data = home[profile.home]
        /\ Known # None => Variant[op.sel] = Variant[Known]
    BY <2>1 DEF Ready, Replacing, Secured
  <2>3. Known # None
    <3>1. Last(backups) \in Copies
      BY <1>0, <2>2 DEF Last
    <3> QED
      BY <1>0, <2>2, <3>1 DEF Copies
  <2>4. \/ op' = At("image.save") \/ Faulty(At("update.resume"))
        \/ op' = At("update.resume")
    BY <1>5 DEF imageRemove, Docker, Observe
  <2>5. /\ Belonging' /\ [W!Next]_View /\ Known' \in {None, Known}
        /\ UNCHANGED <<profile, backups, home>>
    <3>1. \/ UNCHANGED <<profile, backups, home, container>>
          \/ container # None /\ ~Running /\ removeContainer
      BY <1>5 DEF imageRemove, Docker, Observe, world
    <3> QED
      BY <1>2, <2>2, <3>1, Removed
  <2>6. CASE op' = At("image.save")
    <3>1. op'.pc = "image.save" /\ op'.sel = op.sel
      BY <1>0, <2>6, AtKeeps DEF Labels
    <3>2. Replacing'
      BY <2>2, <2>3, <2>5, <3>1 DEF Replacing, Snapshot, Copy, Copied
    <3> QED
      BY <2>5, <3>1, <3>2 DEF Ready, Choosing, Bringing, Sourced, Snapshot,
         Restore, Extract, Switch
  <2>7. CASE op' = At("update.resume") \/ Faulty(At("update.resume"))
    <3>1. op'.pc = "update.resume"
      BY <1>0, <2>7, Moves DEF Went, Labels
    <3> QED
      BY <1>1, <2>5, <3>1, LeadsQuietly
  <2> QED
    BY <2>4, <2>6, <2>7
<1>6. CASE imageSave
  <2> DEFINE p == [op.p EXCEPT !.image = op.sel]
  <2>1. op.pc = "image.save" /\ op.sel \in Images /\ container = None
    BY <1>6 DEF imageSave, IInv, Fits, Gathered, ContainerGone
  <2>2. /\ backups # << >> /\ Last(backups).data = home[profile.home]
        /\ Known \in {None, Last(backups).image}
        /\ Variant[op.sel] = Variant[Last(backups).image]
    BY <2>1 DEF Ready, Replacing
  <2>3. p.home = profile.home /\ p.image = op.sel
    BY <1>0 DEF Profiles
  <2>4. \/ UNCHANGED world
        \/ UNCHANGED <<backups, container, home>> /\ profile' = p
    BY <1>6 DEF imageSave, WriteFile, saveProfile
  <2>5. op'.pc \notin {"image.resolve", "backup.observe", "image.save"}
    <3>1. \/ Faulty([At("start.observe") EXCEPT !.phase = "rollback"])
          \/ Faulty(At("update.fail"))
          \/ \E q : op' = [op EXCEPT !.p = q, !.phase = "after",
                                    !.pc = "start.observe"]
      BY <1>6 DEF imageSave, WriteFile
    <3>2. CASE Faulty([At("start.observe") EXCEPT !.phase = "rollback"])
      BY <1>0, <3>2, MovesAside DEF Labels
    <3>3. CASE Faulty(At("update.fail"))
      BY <1>0, <3>3, Moves DEF Went, Labels
    <3>4. CASE \E q : op' = [op EXCEPT !.p = q, !.phase = "after",
                                      !.pc = "start.observe"]
      BY <1>0, <3>4 DEF Operations
    <3> QED
      BY <3>1, <3>2, <3>3, <3>4
  <2>6. Ready'
    BY <1>1, <2>5, LeadsQuietly
  <2> HIDE DEF p
  <2>7. CASE UNCHANGED world
    BY <1>2, <2>6, <2>7 DEF world
  <2>8. CASE UNCHANGED <<backups, container, home>> /\ profile' = p
    <3>1. Known' = op.sel /\ Running' = FALSE /\ Running = FALSE
      BY <1>0, <2>1, <2>3, <2>8 DEF Known, Running
    <3>2. Last(backups) \in Copies /\ Last(backups) \in ToSet(backups)
      <4>1. Len(backups) \in 1 .. Len(backups)
        BY <1>0, <2>2, LenProperties, EmptySeq
      <4> QED
        BY <1>0, <4>1 DEF Last, ToSet
    <3>3. home[profile.home] # Absent
      BY <1>0, <2>2, <3>2 DEF Copies
    <3>4. Belonging'
      BY <1>0, <2>1, <2>2, <2>3, <2>8, <3>1, <3>2, <3>3 DEF Belonging
    <3>5. W!Upgrade
      BY <2>1, <2>2, <2>3, <2>8, <3>1, <3>3 DEF W!Upgrade, W!Last, Last
    <3> QED
      BY <2>6, <3>4, <3>5 DEF W!Next
  <2> QED
    BY <2>4, <2>7, <2>8
<1>7. CASE appsObserve
  <2>1. UNCHANGED world
    BY <1>7 DEF appsObserve, Observe
  <2>2. op.cmd = "update-apps"
    BY <1>7 DEF appsObserve, IInv, Fits, Gathered
  <2>3. op'.cmd = op.cmd
    BY <1>0, <1>7, SameCommand DEF Step, update
  <2>4. CASE op'.pc = "backup.observe"
    BY <1>2, <2>1, <2>2, <2>3, <2>4 DEF Ready, Choosing, Replacing, Bringing,
       Sourced, Snapshot, Copy, Copied, Restore, Extract, Switch, world
  <2>5. CASE op'.pc # "backup.observe"
    <3>1. \/ op' = Done(FALSE) \/ Faulty(Done(FALSE))
          \/ op' = [op EXCEPT !.c = container, !.pc = "backup.observe"]
      BY <1>7 DEF appsObserve, Observe
    <3>2. op'.pc = "done"
      <4>1. CASE op' = Done(FALSE) \/ Faulty(Done(FALSE))
        BY <1>0, <4>1, Moves DEF Went
      <4>2. CASE op' = [op EXCEPT !.c = container, !.pc = "backup.observe"]
        <5>1. op'.pc = "backup.observe"
          BY <1>0, <4>2 DEF Operations
        <5> QED
          BY <2>5, <5>1
      <4> QED
        BY <3>1, <4>1, <4>2
    <3> QED
      BY <1>1, <1>2, <2>1, <3>2, LeadsQuietly DEF world
  <2> QED
    BY <2>4, <2>5
<1>8. CASE imagePackages \/ imageVerify \/ appsUpdate \/ updateResume
           \/ updateFinish \/ updateFail
  <2>1. Ready'
    <3>1. \E l \in {"image.verify", "update.finish", "update.fail"},
             ok \in BOOLEAN :
             \/ op' = At(l) \/ Faulty(At(l))
             \/ op' = Done(ok) \/ Faulty(Done(ok))
             \/ op' = [At(l) EXCEPT !.disturbed = TRUE]
             \/ Faulty([At(l) EXCEPT !.disturbed = TRUE])
      BY <1>8 DEF imagePackages, imageVerify, imageChecks, appsUpdate,
         updateResume, updateFinish, updateFail, Observe, Docker
    <3>2. op'.pc \in {"image.verify", "update.finish", "update.fail", "done"}
      BY <1>0, <3>1, Moves, MovesAside DEF Went, Labels
    <3> QED
      BY <1>1, <3>2, LeadsQuietly
  <2>2. \/ UNCHANGED world
        \/ container # None /\ startContainer
        \/ Running /\ Save(container.home)
    BY <1>8 DEF imagePackages, imageVerify, imageChecks, appsUpdate,
       updateResume, updateFinish, updateFail, Observe, Docker
  <2>3. CASE UNCHANGED world
    BY <1>2, <2>1, <2>3 DEF world
  <2>4. CASE container # None /\ startContainer
    BY <2>1, <2>4, Touched DEF startContainer
  <2>5. CASE Running /\ Save(container.home)
    BY <2>1, <2>5, SaveServes
  <2> QED
    BY <2>2, <2>3, <2>4, <2>5
<1> QED
  BY <1>3, <1>4, <1>5, <1>6, <1>7, <1>8 DEF update

\* Around a command: the desktop saves and ends, and where no older profile is
\* involved the volume may be removed by hand.
LEMMA AroundServes ==
  ASSUME "writer" \notin Events, "older" \notin Origins \/ "home" \notin Events,
         IInv, Belonging, Ready, Secured, Around
  PROVE  Belonging' /\ Ready' /\ [W!Next]_View
<1>0. /\ op \in Operations /\ profile \in Profiles /\ profile.home \in Vols
      /\ container \in Containers \cup {None}
      /\ home \in [Vols -> Content \cup {Absent}]
      /\ None \notin Images \cup Containers \cup Vols
      /\ container # None => container.home = profile.home
      /\ Known = IF container # None THEN container.image ELSE profile.image
  BY WorldFacts, ConstantsAssumption DEF ConstantsAssumption
<1>1. ~WriterStarts /\ ~WriterSaves /\ ~WriterStops
  BY <1>0 DEF WriterStarts, WriterSaves, WriterStops, Secured
<1>2. CASE UserSaves
  <2>1. /\ Belonging' /\ [W!Next]_View
        /\ UNCHANGED <<profile, backups, container>>
    BY <1>2, SaveServes DEF UserSaves
  <2>2. op' = op /\ container # None
    BY <1>2 DEF UserSaves, Running
  <2>3. op.pc \notin {"start.select", "start.volume", "start.create",
                      "image.save"}
    BY <2>2 DEF IInv, Fits, ContainerGone
  <2>4. Known' = Known
    BY <2>1 DEF Known
  <2> QED
    BY <2>1, <2>2, <2>3, <2>4 DEF Ready, Choosing, Replacing, Bringing, Sourced
<1>3. CASE HomeLost
  <2>1. op'.pc = "idle" /\ op.pc = "idle" /\ container = None
    BY <1>3 DEF HomeLost, Idle
  <2>2. /\ UNCHANGED <<profile, backups, container>>
        /\ home'[profile.home] = Absent
    BY <1>0, <1>3 DEF HomeLost
  <2>3. Known' = Known /\ Running' = FALSE /\ Running = FALSE
    BY <2>1, <2>2 DEF Known, Running
  <2>4. "older" \notin Origins
    BY <1>3 DEF HomeLost
  <2>5. Known = None => backups = << >>
    BY <1>0, <2>1, <2>4 DEF Belonging
  <2>6. Belonging'
    BY <2>1, <2>2, <2>3, <2>5 DEF Belonging
  <2>7. op'.pc \in Quiet
    BY <2>1 DEF Quiet, Labels, Snapshot, Copy, Copied, Restore, Extract, Switch
  <2>8. W!Lose
    BY <2>2, <2>3 DEF W!Lose
  <2> QED
    BY <2>6, <2>7, <2>8, ReadyQuietly DEF W!Next
<1>4. ASSUME NEW i \in Images, DesktopExits \/ TagMoves(i) \/ ImageRemoved(i)
      PROVE  Belonging' /\ Ready' /\ [W!Next]_View
  <2>1. op'.pc = op.pc /\ Carried
    <3>1. ASSUME Disturb PROVE op'.pc = op.pc /\ Carried
      BY <1>0, <3>1, Noted DEF Carried
    <3> QED
      BY <1>4, <3>1 DEF DesktopExits, TagMoves, ImageRemoved, Carried
  <2>2. /\ UNCHANGED <<profile, backups, home>>
        /\ \/ container' = container
           \/ /\ container # None
              /\ container' = [container EXCEPT !.running = FALSE]
    BY <1>4 DEF DesktopExits, TagMoves, ImageRemoved, stopContainer, Running
  <2>3. /\ Belonging' /\ [W!Next]_View /\ Known' = Known
        /\ container' = None <=> container = None
    BY <2>2, Touched
  <2> QED
    BY <2>1, <2>2, <2>3, ReadyAsBefore
<1>5. ASSUME DesktopExits
      PROVE  Belonging' /\ Ready' /\ [W!Next]_View
  <2>1. op'.pc = op.pc /\ Carried
    BY <1>0, <1>5, Noted DEF DesktopExits, Carried
  <2>2. /\ UNCHANGED <<profile, backups, home>> /\ container # None
        /\ container' = [container EXCEPT !.running = FALSE]
    BY <1>5 DEF DesktopExits, stopContainer, Running
  <2>3. /\ Belonging' /\ [W!Next]_View /\ Known' = Known
        /\ container' = None <=> container = None
    BY <2>2, Touched
  <2> QED
    BY <2>1, <2>2, <2>3, ReadyAsBefore
<1>6. CASE ContainerLost
  <2>1. op'.pc = op.pc /\ Carried
    BY <1>0, <1>6, Noted DEF ContainerLost, Carried
  <2>2. /\ UNCHANGED <<profile, backups, home>> /\ container' = None
        /\ container # None /\ profile.image # None
    BY <1>6 DEF ContainerLost, removeContainer
  <2>3. Known' = Known /\ ~Running'
    BY <1>0, <2>2, WorldFacts DEF Known, Running
  <2>4. Belonging'
    BY <2>2, <2>3, StillBelongs
  <2>5. op.pc # "start.adopt"
    BY <2>2 DEF Ready, Choosing
  <2>6. Ready'
    BY <2>1, <2>2, <2>3, <2>5 DEF Ready, Choosing, Replacing, Bringing,
       Sourced, Carried
  <2>7. [W!Next]_View
    <3>1. CASE Running
      BY <2>2, <2>3, <3>1 DEF W!Next, W!Close
    <3>2. CASE ~Running
      BY <2>2, <2>3, <3>2, Unseen
    <3> QED
      BY <3>1, <3>2
  <2> QED
    BY <2>4, <2>6, <2>7
<1> QED
  BY <1>1, <1>2, <1>3, <1>4, <1>5, <1>6 DEF Around

\* Every step of an installation is one of a workplace, or is not seen.
LEMMA Serves ==
  ASSUME "writer" \notin Events, "older" \notin Origins \/ "home" \notin Events,
         IInv, Story, Secured, Belonging, Ready, [Next]_vars
  PROVE  Belonging' /\ Ready' /\ [W!Next]_View
<1>1. CASE start
  BY <1>1, StartServes
<1>2. CASE stop \/ configureNetwork \/ stopForSnapshot
  BY <1>2, StopServes
<1>3. CASE backup
  <2>1. op.cmd # "restore"
    <3>1. op.pc \in Copy \cup {"backup.observe"}
      BY <1>3 DEF backup, backupObserve, backupCopy, backupCopying,
         backupRecheck, backupPublish, backupPrune, Copy, Copied
    <3> QED
      BY <3>1 DEF Story, Returning, Course, Copy, Copied, Snapshot, Restore,
         Extract, Switch
  <2> QED
    BY <1>3, <2>1, BackupServes
<1>4. CASE restore
  <2>1. op.pc \in Restored \cup {"restore.read"}
    BY <1>4 DEF restore, restoreRead, restoreVolume, restoreExtract,
       restoreExtracting, restoreFiles, restoreRemove, restoreCommit,
       restoreCleanup, restoreUndoNetwork, restoreUndoVolume, Restored,
       Restore, Extract, Switch
  <2>2. op.cmd = "restore"
    BY <2>1 DEF Story, Returning, IInv, Fits, Gathered
  <2> QED
    BY <1>4, <2>2, RestoreServes
<1>5. CASE update
  BY <1>5, UpdateServes
<1>6. CASE (\E cmd \in Commands : Begin(cmd)) \/ Return \/ Killed
  <2>1. UNCHANGED world
    BY <1>6 DEF Begin, Return, Killed
  <2>2. Belonging' /\ [W!Next]_View
    BY <2>1, Touched DEF world
  <2>3. Ready'
    <3>1. ASSUME NEW cmd \in Commands, Begin(cmd)
          PROVE  Ready'
      <4>1. op'.pc = Entry(cmd) /\ op'.cmd = cmd
        BY <3>1 DEF Begin, Idle
      <4>2. cmd \in AllCommands
        BY ConstantsAssumption DEF ConstantsAssumption
      <4>3. /\ cmd = "backup" => Entry(cmd) = "backup.observe"
            /\ cmd # "backup" => Entry(cmd) \in Quiet
        BY <4>2 DEF AllCommands, Entry, Quiet, Labels, Snapshot, Copy, Copied,
           Restore, Extract, Switch
      <4>4. CASE cmd = "backup"
        BY <4>1, <4>3, <4>4 DEF Ready, Choosing, Replacing, Bringing, Sourced,
           Snapshot, Copy, Copied, Restore, Extract, Switch
      <4> QED
        BY <4>1, <4>3, <4>4, ReadyQuietly
    <3>2. ASSUME Return \/ Killed
          PROVE  Ready'
      <4>1. op'.pc = "idle"
        BY <3>2 DEF Return, Killed, Idle
      <4>2. op'.pc \in Quiet
        BY <4>1 DEF Quiet, Labels, Snapshot, Copy, Copied, Restore, Extract,
           Switch
      <4> QED
        BY <4>2, ReadyQuietly
    <3> QED
      BY <1>6, <3>1, <3>2
  <2> QED
    BY <2>2, <2>3
<1>7. CASE Around
  BY <1>7, AroundServes
<1>8. CASE UNCHANGED vars
  <2>1. UNCHANGED world /\ op' = op
    BY <1>8 DEF vars
  <2>2. Belonging' /\ [W!Next]_View /\ Known' = Known
    BY <2>1, Touched DEF world
  <2>3. Ready'
    BY <2>1, <2>2, ReadyAsBefore DEF world, Carried
  <2> QED
    BY <2>2, <2>3
<1> QED
  BY <1>1, <1>2, <1>3, <1>4, <1>5, <1>6, <1>7, <1>8 DEF Next, Step

\* main.go 509-647, backup.go 99-174 and 465-564, image_updates.go 30-167.
\* Whatever calls the commands make, and wherever they are cut short, the user
\* sees only whole changes of the workplace.  A project's container would write
\* the files of a stopped desktop, so there is none here; and when the volume
\* of an older profile is removed by hand its image is forgotten with it, so
\* that the next start may choose another variant than its copies have.
THEOREM InstallationIsWorkplace ==
  ASSUME "writer" \notin Events, "older" \notin Origins \/ "home" \notin Events
  PROVE  Spec => ImplementsWorkplace
<1>1. ASSUME Init
      PROVE  W!Init /\ Belonging /\ Ready /\ Secured
  <2>1. op.pc = "idle" /\ backups = << >> /\ writer = None
    BY <1>1 DEF Init, Idle
  <2>2. Ready /\ Secured
    BY <2>1 DEF Ready, Choosing, Replacing, Bringing, Sourced, Secured,
       Snapshot, Copy, Copied, Restore, Extract, Switch
  <2>3. FirstVol \in Vols /\ None \notin Images \cup Containers
        /\ 0 # Absent /\ 0 \in Content
    BY ConstantsAssumption DEF ConstantsAssumption, Content, Version
  <2>4. CASE "installed" \in Origins /\ Installed
    <3>1. /\ profile.image = None /\ container = None
          /\ home[profile.home] = Absent
      BY <2>3, <2>4 DEF Installed
    <3>2. Known = None /\ Running = FALSE
      BY <3>1 DEF Known, Running
    <3> QED
      BY <2>1, <2>2, <3>1, <3>2 DEF W!Init, Belonging, ToSet
  <2>5. CASE "older" \in Origins /\ Older
    <3>1. PICK i \in Images, running \in BOOLEAN :
             container = [image |-> i, home |-> FirstVol, running |-> running]
      BY <2>5 DEF Older
    <3>2. /\ profile.image = None /\ home[profile.home] = 0
      BY <2>3, <2>5 DEF Older
    <3>3. container \in Containers
      BY <2>3, <3>1 DEF Containers
    <3>4. container # None /\ container.image = i /\ container.running = running
      BY <2>3, <3>1, <3>3
    <3>5. Known = i /\ Running \in BOOLEAN
      BY <3>2, <3>4 DEF Known, Running
    <3> QED
      BY <2>1, <2>2, <2>3, <2>5, <3>2, <3>5 DEF W!Init, Belonging, ToSet
  <2> QED
    BY <1>1, <2>4, <2>5 DEF Init
<1>2. IInv /\ Story /\ Secured /\ [Next]_vars => Secured'
  BY SecuredGoesOn
<1>3. IInv /\ Story /\ Secured /\ (Belonging /\ Ready) /\ [Next]_vars
         => (Belonging /\ Ready)' /\ [W!Next]_View
  BY Serves
<1>4. [W!Next]_View => [W!Next]_<<home[profile.home], Known, Running, backups>>
  BY DEF View
<1> QED
  BY <1>1, <1>2, <1>3, <1>4, Invariant, StoryHolds, PTL
     DEF Spec, ImplementsWorkplace, W!Spec

\* image_updates.go 63-69, backup.go 491-493.  Neither a start, nor an update,
\* nor a restore, nor any sequence of them cut short, gives the personal files
\* to an image of another variant than the one known before.
THEOREM VariantIsKept ==
  ASSUME "writer" \notin Events, "older" \notin Origins \/ "home" \notin Events
  PROVE  Spec => [][Known # None /\ Known' # None
                       => Variant[Known'] = Variant[Known]]_View
<1> DEFINE A == Known # None /\ Known' # None
                => Variant[Known'] = Variant[Known]
<1>1. W!Next => A
  BY DEF W!Next, W!Choose, W!Create, W!Open, W!Close, W!Save, W!Copy, W!Drop,
     W!Upgrade, W!Restore, W!Forget, W!Lose
<1>2. [W!Next]_View => [A]_View
  BY <1>1
<1>3. [W!Next]_<<home[profile.home], Known, Running, backups>> => [W!Next]_View
  BY DEF View
<1> HIDE DEF A
<1>4. Spec => [][W!Next]_View
  <2>1. Spec => ImplementsWorkplace
    BY InstallationIsWorkplace
  <2> QED
    BY <1>3, <2>1, PTL DEF ImplementsWorkplace, W!Spec
<1>5. Spec => [][A]_View
  BY <1>2, <1>4, PTL
<1> QED
  BY <1>5 DEF A
=============================================================================
