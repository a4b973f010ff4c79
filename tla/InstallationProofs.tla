------------------------- MODULE InstallationProofs -------------------------
(***************************************************************************)
(* For any images, volumes, networks, commands, events and bounds: the     *)
(* container always runs what the profile selects, and the profile's       *)
(* volume always holds what the user saved or restored last.               *)
(***************************************************************************)
EXTENDS InstallationInvariant, SequenceTheorems, TLAPS

(***************************************************************************)
(* What nearly all steps have in common.                                   *)
(***************************************************************************)
\* A command with one field replaced is a command.
LEMMA Fields ==
  ASSUME NEW o \in Operations
  PROVE  /\ \A x \in Labels : [o EXCEPT !.pc = x] \in Operations
         /\ \A x \in BOOLEAN : [o EXCEPT !.ok = x] \in Operations
         /\ \A x \in Nat : [o EXCEPT !.faults = x] \in Operations
         /\ \A x \in BOOLEAN : [o EXCEPT !.disturbed = x] \in Operations
         /\ \A x \in {"before", "after", "rollback"} :
                [o EXCEPT !.phase = x] \in Operations
         /\ \A x \in Profiles : [o EXCEPT !.p = x] \in Operations
         /\ \A x \in Containers \cup {None} : [o EXCEPT !.c = x] \in Operations
         /\ \A x \in Containers \cup {None} : [o EXCEPT !.seen = x] \in Operations
         /\ \A x \in Images : [o EXCEPT !.sel = x] \in Operations
         /\ \A x \in Copies : [o EXCEPT !.src = x] \in Operations
         /\ \A x \in Vols : [o EXCEPT !.vol = x] \in Operations
         /\ \A x \in Content : [o EXCEPT !.copy = x] \in Operations
         /\ \A x \in Nets \cup {None} : [o EXCEPT !.net = x] \in Operations
         /\ \A x \in Nets \cup {None} : [o EXCEPT !.net0 = x] \in Operations
         /\ \A x \in Nets \cup {None} : [o EXCEPT !.applied0 = x] \in Operations
         /\ \A x \in AllCommands : [o EXCEPT !.cmd = x] \in Operations
  <1>1. \A x \in Labels : [o EXCEPT !.pc = x] \in Operations
    BY DEF Operations
  <1>2. \A x \in BOOLEAN : [o EXCEPT !.ok = x] \in Operations
    BY DEF Operations
  <1>3. \A x \in Nat : [o EXCEPT !.faults = x] \in Operations
    BY DEF Operations
  <1>4. \A x \in BOOLEAN : [o EXCEPT !.disturbed = x] \in Operations
    BY DEF Operations
  <1>5. \A x \in {"before", "after", "rollback"} :
                [o EXCEPT !.phase = x] \in Operations
    BY DEF Operations
  <1>6. \A x \in Profiles : [o EXCEPT !.p = x] \in Operations
    BY DEF Operations
  <1>7. \A x \in Containers \cup {None} : [o EXCEPT !.c = x] \in Operations
    BY DEF Operations
  <1>8. \A x \in Containers \cup {None} : [o EXCEPT !.seen = x] \in Operations
    BY DEF Operations
  <1>9. \A x \in Images : [o EXCEPT !.sel = x] \in Operations
    BY DEF Operations
  <1>10. \A x \in Copies : [o EXCEPT !.src = x] \in Operations
    BY DEF Operations
  <1>11. \A x \in Vols : [o EXCEPT !.vol = x] \in Operations
    BY DEF Operations
  <1>12. \A x \in Content : [o EXCEPT !.copy = x] \in Operations
    BY DEF Operations
  <1>13. \A x \in Nets \cup {None} : [o EXCEPT !.net = x] \in Operations
    BY DEF Operations
  <1>14. \A x \in Nets \cup {None} : [o EXCEPT !.net0 = x] \in Operations
    BY DEF Operations
  <1>15. \A x \in Nets \cup {None} : [o EXCEPT !.applied0 = x] \in Operations
    BY DEF Operations
  <1>16. \A x \in AllCommands : [o EXCEPT !.cmd = x] \in Operations
    BY DEF Operations
  <1> QED BY <1>1, <1>2, <1>3, <1>4, <1>5, <1>6, <1>7, <1>8,
             <1>9, <1>10, <1>11, <1>12, <1>13, <1>14, <1>15, <1>16

\* An injected failure changes nothing of the command but its count.
LEMMA FaultyFits ==
  ASSUME op \in Operations, NEW o, NEW pr, NEW co, NEW ho,
         Fits(o, pr, co, ho), Faulty(o)
  PROVE  Fits(op', pr, co, ho)
  <1>1. o \in Operations /\ op.faults + 1 \in Nat BY DEF Fits, Operations
  <1>2. op' = [o EXCEPT !.faults = op.faults + 1] BY DEF Faulty
  <1>3. op' \in Operations BY <1>1, <1>2, Fields
  <1>4. /\ op'.pc = o.pc /\ op'.cmd = o.cmd /\ op'.p = o.p /\ op'.c = o.c
        /\ op'.seen = o.seen /\ op'.sel = o.sel /\ op'.src = o.src
        /\ op'.vol = o.vol /\ op'.copy = o.copy
    BY <1>1, <1>2 DEF Operations
  <1> QED BY <1>3, <1>4 DEF Fits, OnSavedProfile, ContainerGone, Adopting,
                            Gathered, Filling

\* What At and Done make of the command in progress.
LEMMA AtKeeps ==
  ASSUME op \in Operations, NEW l \in Labels
  PROVE  /\ At(l) \in Operations /\ At(l).pc = l
         /\ At(l).cmd = op.cmd /\ At(l).p = op.p /\ At(l).c = op.c
         /\ At(l).seen = op.seen /\ At(l).sel = op.sel
         /\ At(l).src = op.src /\ At(l).vol = op.vol
         /\ At(l).copy = op.copy
  <1>1. At(l) \in Operations BY Fields DEF At
  <1>2. At(l).pc = l BY DEF At, Operations
  <1>3. /\ At(l).cmd = op.cmd /\ At(l).p = op.p /\ At(l).c = op.c
        /\ At(l).seen = op.seen /\ At(l).sel = op.sel
        /\ At(l).src = op.src /\ At(l).vol = op.vol
        /\ At(l).copy = op.copy
    BY DEF At, Operations
  <1> QED BY <1>1, <1>2, <1>3

\* A command that is over fits every state.
LEMMA DoneFits ==
  ASSUME op \in Operations, NEW ok \in BOOLEAN, NEW pr, NEW co, NEW ho
  PROVE  Fits(Done(ok), pr, co, ho)
  <1>1. Done(ok) \in Operations BY Fields DEF Done, Labels
  <1>2. Done(ok).pc = "done" BY DEF Done, Operations
  <1> QED BY <1>1, <1>2 DEF Fits, OnSavedProfile, ContainerGone, Adopting,
             Gathered, Filling, Snapshot, Copied, Copy, Extract, Switch,
             Restore

\* A label that presumes nothing fits whenever the profile is the saved one.
Free == {"start.observe", "start.network", "start.run", "start.await",
         "image.packages", "image.verify", "apps.update", "update.fail",
         "update.finish"}

\* The labels in Free presume nothing: any command at one of them fits once
\* it carries the saved profile.
LEMMA FreeFits ==
  ASSUME NEW o \in Operations, o.pc \in Free,
         NEW pr, NEW co, NEW ho, o.p = pr
  PROVE  Fits(o, pr, co, ho)
  BY DEF Free, Fits, OnSavedProfile, ContainerGone, Adopting, Gathered,
     Filling, Snapshot, Copied, Copy, Extract, Switch, Restore

\* The command in progress goes on to a label in Free whatever it changed.
LEMMA AtFree ==
  ASSUME op \in Operations, NEW l \in Free, NEW pr, NEW co, NEW ho, op.p = pr
  PROVE  Fits(At(l), pr, co, ho)
  <1>1. l \in Labels BY DEF Free, Labels
  <1> QED BY <1>1, AtKeeps, FreeFits

\* A step keeps the invariant when it leaves a sound world and goes on with a
\* command that fits it, injected failures included.
LEMMA MoveStep ==
  ASSUME op \in Operations, WorldOK', NEW o,
         Fits(o, profile', container', home'), op' = o \/ Faulty(o)
  PROVE  IInv'
  BY FaultyFits DEF IInv

\* The same for a step that reads only, and leaves the world as it is.
LEMMA StayStep ==
  ASSUME IInv, UNCHANGED world, NEW o, Fits(o, profile, container, home),
         op' = o \/ Faulty(o)
  PROVE  IInv'
  <1>1. WorldOK' BY DEF IInv, WorldOK, WorldTypeOK, RuntimeIsSelected,
                        HomePreserved, world
  <1>2. Fits(o, profile', container', home') BY DEF world
  <1> QED BY <1>1, <1>2, MoveStep DEF IInv, Fits

\* A call that only asks the engine keeps the invariant, answered or not.
LEMMA ObserveStep ==
  ASSUME IInv, NEW next, NEW onError, Fits(next, profile, container, home),
         Fits(onError, profile, container, home), Observe(next, onError)
  PROVE  IInv'
  BY StayStep DEF Observe

\* What the engine's calls and the file writes keep sound.
LEMMA ContainerCalls ==
  ASSUME WorldOK
  PROVE  /\ container # None /\ (startContainer \/ stopContainer) =>
               /\ WorldOK' /\ container' \in Containers
               /\ container'.image = container.image
         /\ removeContainer => WorldOK'
  <1>1. ASSUME container # None, startContainer \/ stopContainer
        PROVE  /\ WorldOK' /\ container' \in Containers
               /\ container'.image = container.image
    <2>1. container \in Containers BY <1>1 DEF WorldOK, WorldTypeOK
    <2>2. /\ container' = [container EXCEPT !.running = TRUE]
             \/ container' = [container EXCEPT !.running = FALSE]
          /\ UNCHANGED <<profile, network, backups, home, applied, local, tag,
                         registry, writer, writes, truth>>
      BY <1>1 DEF startContainer, stopContainer, store
    <2>3. /\ container' \in Containers
          /\ container'.image = container.image
          /\ container'.home = container.home
      BY <2>1, <2>2 DEF Containers
    <2>4. WorldTypeOK' BY <2>2, <2>3 DEF WorldOK, WorldTypeOK
    <2>5. RuntimeIsSelected' /\ HomePreserved'
      BY <1>1, <2>2, <2>3 DEF WorldOK, RuntimeIsSelected, HomePreserved
    <2> QED BY <2>3, <2>4, <2>5 DEF WorldOK
  <1>2. ASSUME removeContainer PROVE WorldOK'
    <2>1. /\ container' = None
          /\ UNCHANGED <<profile, network, backups, home, applied, local, tag,
                         registry, writer, writes, truth>>
      BY <1>2 DEF removeContainer, store
    <2> QED BY <2>1 DEF WorldOK, WorldTypeOK, RuntimeIsSelected, HomePreserved
  <1> QED BY <1>1, <1>2

\* Writing or removing network.json keeps the world sound.
LEMMA SaveNetwork ==
  ASSUME WorldOK, NEW n \in Nets \cup {None}, saveNetwork(n)
  PROVE  WorldOK'
  BY DEF WorldOK, WorldTypeOK, RuntimeIsSelected, HomePreserved,
     saveNetwork, store

\* Writing profile.json keeps it sound, if the volume stays and a container
\* that is left runs the image the new profile selects.
LEMMA SaveProfile ==
  ASSUME WorldOK, NEW p \in Profiles, saveProfile(p), p.home = profile.home,
         container = None \/ p.image = container.image
  PROVE  WorldOK'
  BY DEF WorldOK, WorldTypeOK, RuntimeIsSelected, HomePreserved,
     saveProfile, store

\* Saving files in the profile's volume keeps it sound: the volume then holds
\* what was saved last, and the other volumes what they held.
LEMMA SaveFiles ==
  ASSUME WorldOK, NEW v, v = profile.home, Save(v)
  PROVE  WorldOK' /\ home' \in [Vols -> Content \cup {Absent}]
         /\ home'[v] # Absent /\ \A u \in Vols \ {v} : home'[u] = home[u]
  <1>1. profile \in Profiles /\ v \in Vols
    BY DEF WorldOK, WorldTypeOK, Profiles
  <1>2. writes + 1 \in Version
    BY ConstantsAssumption DEF ConstantsAssumption, WorldOK, WorldTypeOK,
       Save, Version
  <1>3. writes + 1 \in Content /\ writes + 1 # Absent
    BY <1>2, ConstantsAssumption DEF ConstantsAssumption, Content
  <1>4. home' = [home EXCEPT ![v] = writes + 1] BY DEF Save
  <1>5. home' \in [Vols -> Content \cup {Absent}] /\ home'[v] = writes + 1
        /\ \A u \in Vols \ {v} : home'[u] = home[u]
    BY <1>1, <1>3, <1>4 DEF WorldOK, WorldTypeOK
  <1>6. WorldOK'
    BY <1>1, <1>2, <1>3, <1>5 DEF Save, WorldOK, WorldTypeOK,
       RuntimeIsSelected, HomePreserved, store
  <1> QED BY <1>3, <1>5, <1>6

\* Filling, creating or removing a volume that is not the profile's keeps it
\* sound.
LEMMA SetVolume ==
  ASSUME WorldOK, NEW v \in Vols, NEW d \in Content \cup {Absent},
         NEW n \in Nets \cup {None}, v # profile.home, setVolume(v, d, n)
  PROVE  /\ WorldOK' /\ home' \in [Vols -> Content \cup {Absent}]
         /\ home'[v] = d /\ \A u \in Vols \ {v} : home'[u] = home[u]
  BY DEF WorldOK, WorldTypeOK, RuntimeIsSelected, HomePreserved, setVolume,
     store, Profiles

(***************************************************************************)
(* start, stop and network.                                                *)
(***************************************************************************)
\* Without a container, the two labels after the selection presume no more.
LEMMA InVolume ==
  ASSUME NEW o \in Operations, o.pc \in {"start.volume", "start.create"},
         NEW pr, NEW ho, o.p = pr
  PROVE  Fits(o, pr, None, ho)
  BY DEF Fits, OnSavedProfile, ContainerGone, Adopting, Gathered, Filling,
     Snapshot, Copied, Copy, Extract, Switch, Restore

\* A start that returns, to the user or to the update that called it, fits.
LEMMA StartEnds ==
  ASSUME op \in Operations, NEW pr, NEW co, NEW ho, op.p = pr
  PROVE  Fits(startFails, pr, co, ho) /\ Fits(startReturns, pr, co, ho)
  <1>1. Fits(Done(FALSE), pr, co, ho) /\ Fits(Done(TRUE), pr, co, ho)
    BY DoneFits
  <1>2. /\ Fits(At("update.fail"), pr, co, ho)
        /\ Fits(At("image.packages"), pr, co, ho)
        /\ Fits(At("apps.update"), pr, co, ho)
    BY AtFree DEF Free
  <1> QED BY <1>1, <1>2 DEF startFails, startReturns

\* Looking at the container keeps the invariant (main.go 509-532).
LEMMA Observing ==
  ASSUME IInv, startObserve
  PROVE  IInv'
  <1> DEFINE o == [[op EXCEPT !.seen = container]
                      EXCEPT !.pc = afterObserve(op.p, container)]
  <1>1. /\ op \in Operations /\ op.p = profile /\ op.pc = "start.observe"
        /\ container \in Containers \cup {None}
    BY DEF IInv, Fits, OnSavedProfile, startObserve, WorldOK, WorldTypeOK
  <1>2. afterObserve(op.p, container) \in Labels BY DEF afterObserve, Labels
  <1>3. o \in Operations BY <1>1, <1>2, Fields
  <1>4. o.pc = afterObserve(op.p, container) /\ o.seen = container
        /\ o.p = profile /\ o.cmd = op.cmd
    BY <1>1 DEF Operations
  <1>5. Fits(o, profile, container, home)
    BY <1>1, <1>3, <1>4 DEF afterObserve, Fits, OnSavedProfile,
       ContainerGone, Adopting, Gathered, Filling, Snapshot, Copied, Copy,
       Extract, Switch, Restore
  <1>6. Observe(o, startFails) BY DEF startObserve
  <1> QED BY <1>1, <1>5, <1>6, StartEnds, ObserveStep

\* Adopting the container's image into an older profile (main.go 524-531).
LEMMA Adopt ==
  ASSUME IInv, startAdopt
  PROVE  IInv'
  <1> DEFINE p == [op.p EXCEPT !.image = op.seen.image]
             o == [[op EXCEPT !.p = p] EXCEPT !.pc = afterObserve(p, op.seen)]
  <1>1. /\ op \in Operations /\ op.p = profile /\ op.pc = "start.adopt"
        /\ profile \in Profiles /\ WorldOK /\ op.seen \in Containers
        /\ container # None => container.image = op.seen.image
    BY DEF IInv, Fits, OnSavedProfile, Adopting, startAdopt, WorldOK,
       WorldTypeOK
  <1>2. p \in Profiles /\ p.home = profile.home /\ p.image = op.seen.image
    BY <1>1 DEF Profiles, Containers
  <1>3. op.seen # None /\ p.image # None
    BY <1>1, <1>2, ConstantsAssumption DEF ConstantsAssumption, Containers
  <1>4. afterObserve(p, op.seen) \in {"start.network", "start.await"}
    BY <1>3 DEF afterObserve
  <1> HIDE DEF p
  <1>5. o \in Operations BY <1>1, <1>2, <1>4, Fields DEF Labels
  <1>6. o.pc = afterObserve(p, op.seen) /\ o.p = p BY <1>1 DEF Operations
  <1> HIDE DEF o
  <1>7. CASE saveProfile(p) /\ op' = o
    <2>1. WorldOK' BY <1>1, <1>2, <1>7, SaveProfile
    <2>2. Fits(o, profile', container', home')
      BY <1>4, <1>5, <1>6, <1>7, FreeFits DEF Free, saveProfile
    <2> QED BY <1>1, <1>7, <2>1, <2>2, MoveStep
  <1>8. CASE UNCHANGED world /\ Faulty(startFails)
    BY <1>1, <1>8, StartEnds, StayStep
  <1> QED BY <1>7, <1>8 DEF startAdopt, WriteFile, p, o

\* The image found is one of the engine's, whether it was here or downloaded.
LEMMA Resolve ==
  ASSUME IInv, startResolve
  PROVE  IInv'
  <1> DEFINE found(i) == [[op EXCEPT !.sel = i] EXCEPT !.pc = "start.select"]
             reference == selectedImageReference(op.p, None)
  <1>1. /\ op \in Operations /\ op.p = profile /\ container = None
        /\ WorldOK /\ local \subseteq Images /\ registry \in Images
    BY DEF IInv, Fits, OnSavedProfile, ContainerGone, startResolve, WorldOK,
       WorldTypeOK
  <1>2. ASSUME NEW i \in Images, NEW ho
        PROVE  Fits(found(i), profile, None, ho)
    <2>1. found(i) \in Operations BY <1>1, Fields DEF Labels
    <2>2. found(i).pc = "start.select" /\ found(i).p = profile
          /\ found(i).sel = i
      BY <1>1 DEF Operations
    <2> HIDE DEF found
    <2> QED BY <2>1, <2>2 DEF Fits, OnSavedProfile, ContainerGone, Adopting,
               Gathered, Filling, Snapshot, Copied, Copy, Extract, Switch,
               Restore
  <1> HIDE DEF found
  <1>3. CASE reference \in local /\ Observe(found(reference), startFails)
    BY <1>1, <1>2, <1>3, StartEnds, ObserveStep
  <1>4. CASE /\ local' = local \cup {registry}
             /\ tag' = registry
             /\ UNCHANGED <<profile, network, backups, container, home,
                            applied, registry, writer, writes, truth>>
             /\ op' = found(registry) \/ Faulty(startFails)
    <2>1. WorldOK' BY <1>1, <1>4 DEF WorldOK, WorldTypeOK,
                                     RuntimeIsSelected, HomePreserved
    <2>2. /\ Fits(found(registry), profile', container', home')
          /\ Fits(startFails, profile', container', home')
      BY <1>1, <1>2, <1>4, StartEnds
    <2> QED BY <1>1, <1>4, <2>1, <2>2, MoveStep
  <1>5. CASE UNCHANGED world /\ (op' = startFails \/ Faulty(startFails))
    BY <1>1, <1>5, StartEnds, StayStep
  <1> QED BY <1>3, <1>4, <1>5
          DEF startResolve, Docker, found, reference

\* Saving the first selection, with no container left (main.go 562-569).
LEMMA Select ==
  ASSUME IInv, startSelect
  PROVE  IInv'
  <1> DEFINE p == [op.p EXCEPT !.image = op.sel]
             o == [[op EXCEPT !.p = p] EXCEPT !.pc = "start.volume"]
  <1>1. /\ op \in Operations /\ op.p = profile /\ container = None
        /\ profile \in Profiles /\ WorldOK /\ op.sel \in Images
    BY DEF IInv, Fits, OnSavedProfile, ContainerGone, Gathered, startSelect,
       WorldOK, WorldTypeOK
  <1>2. p \in Profiles /\ p.home = profile.home BY <1>1 DEF Profiles
  <1> HIDE DEF p
  <1>3. o \in Operations BY <1>1, <1>2, Fields DEF Labels
  <1>4. o.pc = "start.volume" /\ o.p = p BY <1>1 DEF Operations
  <1> HIDE DEF o
  <1>5. CASE saveProfile(p) /\ op' = o
    <2>1. WorldOK' BY <1>1, <1>2, <1>5, SaveProfile
    <2>2. Fits(o, profile', container', home')
      BY <1>1, <1>3, <1>4, <1>5, InVolume DEF saveProfile
    <2> QED BY <1>1, <1>5, <2>1, <2>2, MoveStep
  <1>6. CASE UNCHANGED world /\ Faulty(startFails)
    BY <1>1, <1>6, StartEnds, StayStep
  <1>7. CASE Observe(At("start.volume"), startFails)
    <2> DEFINE next == At("start.volume")
    <2>1. "start.volume" \in Labels BY DEF Labels
    <2>2. next \in Operations /\ next.pc = "start.volume" /\ next.p = op.p
      BY <1>1, <2>1, AtKeeps
    <2> HIDE DEF next
    <2>3. next.p = profile BY <1>1, <2>2
    <2>4. Fits(next, profile, None, home) BY <2>2, <2>3, InVolume
    <2>5. Fits(next, profile, container, home) BY <1>1, <2>4
    <2>6. Observe(next, startFails) BY <1>7 DEF next
    <2> QED BY <1>1, <2>5, <2>6, StartEnds, ObserveStep
  <1> QED BY <1>5, <1>6, <1>7 DEF startSelect, WriteFile, p, o

\* Creating the personal volume, if it is not there (main.go 570-586).
LEMMA Volume ==
  ASSUME IInv, startVolume
  PROVE  IInv'
  <1> DEFINE o == At("start.create")
  <1>1. /\ op \in Operations /\ op.p = profile /\ container = None
        /\ profile \in Profiles /\ profile.home \in Vols /\ WorldOK
    BY DEF IInv, Fits, OnSavedProfile, ContainerGone, startVolume,
       WorldOK, WorldTypeOK, Profiles
  <1>2. o \in Operations /\ o.pc = "start.create" /\ o.p = profile
    BY <1>1, AtKeeps DEF Labels
  <1> HIDE DEF o
  <1>3. Fits(o, profile, None, home) /\ Fits(o, profile, None, home')
    BY <1>2, InVolume
  <1>4. CASE Observe(o, startFails)
    BY <1>1, <1>3, <1>4, StartEnds, ObserveStep
  <1>5. CASE /\ home[op.p.home] = Absent
             /\ home' = [home EXCEPT ![op.p.home] = 0]
             /\ applied' = [applied EXCEPT ![op.p.home] = None]
             /\ truth' = IF truth = Absent THEN 0 ELSE truth
             /\ UNCHANGED <<profile, network, backups, container, store,
                            writer, writes>>
             /\ op' = o \/ Faulty(startFails)
    <2>1. 0 \in Content /\ 0 # Absent
      BY ConstantsAssumption DEF ConstantsAssumption, Content, Version
    <2>2. WorldOK'
      BY <1>1, <1>5, <2>1 DEF WorldOK, WorldTypeOK, RuntimeIsSelected,
                              HomePreserved, store
    <2>3. /\ Fits(o, profile', container', home')
          /\ Fits(startFails, profile', container', home')
      BY <1>1, <1>3, <1>5, StartEnds
    <2> QED BY <1>1, <1>5, <2>2, <2>3, MoveStep
  <1>6. CASE UNCHANGED world /\ Faulty(startFails)
    BY <1>1, <1>6, StartEnds, StayStep
  <1> QED BY <1>4, <1>5, <1>6 DEF startVolume, Docker, o

\* Creating the container from the selected image (main.go 587-607).
LEMMA Create ==
  ASSUME IInv, startCreate
  PROVE  IInv'
  <1> DEFINE o == At("start.network")
  <1>1. /\ op \in Operations /\ op.p = profile /\ container = None
        /\ profile \in Profiles /\ WorldOK /\ local \subseteq Images
    BY DEF IInv, Fits, OnSavedProfile, ContainerGone, startCreate,
       WorldOK, WorldTypeOK
  <1>2. \A co : Fits(o, profile, co, home)
    BY <1>1, AtFree DEF Free
  <1> HIDE DEF o
  <1>3. CASE /\ op.p.image \in local
             /\ container' = [image |-> op.p.image, home |-> op.p.home,
                              running |-> FALSE]
             /\ UNCHANGED <<profile, network, backups, home, applied,
                            store, writer, writes, truth>>
             /\ op' = o \/ Faulty(startFails)
    <2>1. container' \in Containers /\ container'.image = profile.image
          /\ container'.home = profile.home
      BY <1>1, <1>3 DEF Containers, Profiles
    <2>2. WorldOK'
      BY <1>1, <1>3, <2>1 DEF WorldOK, WorldTypeOK, RuntimeIsSelected,
                              HomePreserved, store
    <2>3. /\ Fits(o, profile', container', home')
          /\ Fits(startFails, profile', container', home')
      BY <1>1, <1>2, <1>3, StartEnds
    <2> QED BY <1>1, <1>3, <2>2, <2>3, MoveStep
  <1>4. CASE UNCHANGED world /\ (op' = startFails \/ Faulty(startFails))
    BY <1>1, <1>4, StartEnds, StayStep
  <1> QED BY <1>3, <1>4 DEF startCreate, Docker, o

\* Applying network.json inside the volume (network.go 109-131).
LEMMA SyncNetwork ==
  ASSUME IInv, syncNetwork
  PROVE  IInv'
  <1> DEFINE o == At("start.run")
  <1>1. /\ op \in Operations /\ op.p = profile /\ WorldOK
    BY DEF IInv, Fits, OnSavedProfile, syncNetwork
  <1>2. \A co : Fits(o, profile, co, home) BY <1>1, AtFree DEF Free
  <1> HIDE DEF o
  <1>3. CASE /\ container # None
             /\ applied' = [applied EXCEPT ![container.home] = network]
             /\ UNCHANGED <<profile, network, backups, container,
                            home, store, writer, writes, truth>>
             /\ op' = o \/ Faulty(startFails)
    <2>1. WorldOK'
      BY <1>1, <1>3 DEF WorldOK, WorldTypeOK, RuntimeIsSelected,
                        HomePreserved, store
    <2> QED BY <1>1, <1>2, <1>3, <2>1, StartEnds, MoveStep
  <1>4. CASE UNCHANGED world /\ (op' = startFails \/ Faulty(startFails))
    BY <1>1, <1>4, StartEnds, StayStep
  <1> QED BY <1>3, <1>4 DEF syncNetwork, Docker, o

\* Starting the container (main.go 608-618).
LEMMA Run ==
  ASSUME IInv, startRun
  PROVE  IInv'
  <1> DEFINE o == At("start.await")
  <1>1. /\ op \in Operations /\ op.p = profile /\ WorldOK
    BY DEF IInv, Fits, OnSavedProfile, startRun
  <1>2. \A co : Fits(o, profile, co, home) BY <1>1, AtFree DEF Free
  <1> HIDE DEF o
  <1>3. CASE /\ container # None /\ startContainer
             /\ op' = o \/ Faulty(startFails)
    <2>1. WorldOK' /\ profile' = profile /\ home' = home
      BY <1>1, <1>3, ContainerCalls DEF startContainer
    <2> QED BY <1>1, <1>2, <1>3, <2>1, StartEnds, MoveStep
  <1>4. CASE UNCHANGED world /\ (op' = startFails \/ Faulty(startFails))
    BY <1>1, <1>4, StartEnds, StayStep
  <1> QED BY <1>3, <1>4 DEF startRun, Docker, o

\* Waiting for the desktop (main.go 619-647).
LEMMA Await ==
  ASSUME IInv, startAwait
  PROVE  IInv'
  <1>1. op \in Operations /\ op.p = profile
    BY DEF IInv, Fits, OnSavedProfile, startAwait
  <1>2. CASE Observe(startReturns, startFails)
    BY <1>1, <1>2, StartEnds, ObserveStep
  <1>3. CASE UNCHANGED world /\ op' = startFails
    BY <1>1, <1>3, StartEnds, StayStep
  <1> QED BY <1>2, <1>3 DEF startAwait

\* Every step of start keeps the invariant.
LEMMA Starting ==
  ASSUME IInv, start
  PROVE  IInv'
  BY Observing, Adopt, Resolve, Select, Volume, Create, SyncNetwork, Run,
     Await DEF start

\* stop keeps it: the container stays, with its image (main.go 202-212).
LEMMA Stopping ==
  ASSUME IInv, stop
  PROVE  IInv'
  <1>1. op \in Operations /\ WorldOK BY DEF IInv, Fits
  <1>2. \A co : /\ Fits(Done(TRUE), profile, co, home)
                /\ Fits(Done(FALSE), profile, co, home)
    BY <1>1, DoneFits
  <1>3. CASE Observe(Done(TRUE), Done(FALSE)) BY <1>2, <1>3, ObserveStep
  <1>4. CASE /\ Running /\ stopContainer
             /\ op' = Done(TRUE) \/ Faulty(Done(FALSE))
    <2>1. WorldOK' /\ profile' = profile /\ home' = home
      BY <1>1, <1>4, ContainerCalls DEF stopContainer, Running
    <2> QED BY <1>1, <1>2, <1>4, <2>1, MoveStep
  <1>5. CASE UNCHANGED world /\ Faulty(Done(FALSE)) BY <1>2, <1>5, StayStep
  <1> QED BY <1>3, <1>4, <1>5 DEF stop, Docker

\* network keeps it: no container or volume changes (network.go 133-150).
LEMMA ConfiguringNetwork ==
  ASSUME IInv, configureNetwork
  PROVE  IInv'
  <1>1. op \in Operations /\ WorldOK BY DEF IInv, Fits
  <1>2. /\ Fits(Done(TRUE), profile, container, home)
        /\ Fits(Done(FALSE), profile, container, home)
    BY <1>1, DoneFits
  <1>3. ASSUME NEW n \in Nets \cup {None}, saveNetwork(n), op' = Done(TRUE)
        PROVE  IInv'
    <2>1. /\ WorldOK' /\ profile' = profile /\ home' = home
          /\ container' = container
      BY <1>1, <1>3, SaveNetwork DEF saveNetwork
    <2> QED BY <1>1, <1>2, <1>3, <2>1, MoveStep
  <1>4. CASE UNCHANGED world /\ Faulty(Done(FALSE)) BY <1>2, <1>4, StayStep
  <1> QED BY <1>3, <1>4 DEF configureNetwork, WriteFile

(***************************************************************************)
(* backup, and the snapshot it shares with the updates.                    *)
(***************************************************************************)
\* What a failing or finished backup leaves behind fits the state.
LEMMA BackupEnds ==
  ASSUME op \in Operations, NEW pr, NEW co, NEW ho, op.p = pr,
         op.cmd = "update-image" /\ op.c = None => co = None
  PROVE  /\ Fits(backupFails, pr, co, ho)
         /\ Fits(snapshotFails, pr, co, ho)
         /\ (op.cmd = "update-image" => op.sel \in Images)
               => Fits(backupReturns, pr, co, ho)
  <1>1. Fits(Done(FALSE), pr, co, ho) /\ Fits(Done(TRUE), pr, co, ho)
    BY DoneFits
  <1>2. Fits(At("start.observe"), pr, co, ho) BY AtFree DEF Free
  <1>3. Fits(At("update.resume"), pr, co, ho)
    <2> DEFINE o == At("update.resume")
    <2>1. /\ o \in Operations /\ o.pc = "update.resume" /\ o.p = pr
          /\ o.cmd = op.cmd /\ o.c = op.c
      BY AtKeeps DEF Labels
    <2> HIDE DEF o
    <2>2. Fits(o, pr, co, ho)
      BY <2>1 DEF Fits, OnSavedProfile, ContainerGone, Adopting, Gathered,
         Filling, Snapshot, Copied, Copy, Extract, Switch, Restore
    <2> QED BY <2>2 DEF o
  <1>4. ASSUME op.cmd = "update-image", op.sel \in Images
        PROVE  Fits(At("image.remove"), pr, co, ho)
    <2> DEFINE o == At("image.remove")
    <2>1. /\ o \in Operations /\ o.pc = "image.remove" /\ o.p = pr
          /\ o.cmd = op.cmd /\ o.c = op.c /\ o.sel = op.sel
      BY AtKeeps DEF Labels
    <2> HIDE DEF o
    <2>2. Fits(o, pr, co, ho)
      BY <1>4, <2>1 DEF Fits, OnSavedProfile, ContainerGone, Adopting,
         Gathered, Filling, Snapshot, Copied, Copy, Extract, Switch, Restore
    <2> QED BY <2>2 DEF o
  <1> QED BY <1>1, <1>2, <1>3, <1>4
          DEF backupFails, snapshotFails, backupReturns

\* Asking for other writers keeps the invariant (backup.go 224-227).
LEMMA SnapshotWriters ==
  ASSUME IInv, snapshotWriters
  PROVE  IInv'
  <1> DEFINE o == At("snapshot.stop")
  <1>1. /\ op \in Operations /\ op.p = profile /\ op.pc = "snapshot.writers"
        /\ op.cmd = "update-image" /\ op.c = None => container = None
    BY DEF IInv, Fits, OnSavedProfile, ContainerGone, Snapshot,
       snapshotWriters
  <1>2. Fits(snapshotFails, profile, container, home) BY <1>1, BackupEnds
  <1>3. CASE Observe(o, snapshotFails)
    <2>1. /\ o \in Operations /\ o.pc = "snapshot.stop" /\ o.p = op.p
          /\ o.cmd = op.cmd /\ o.c = op.c /\ o.seen = op.seen
          /\ o.sel = op.sel /\ o.src = op.src /\ o.vol = op.vol
      BY <1>1, AtKeeps DEF Labels
    <2> HIDE DEF o
    <2>2. Fits(o, profile, container, home)
      BY <1>1, <2>1 DEF IInv, Fits, OnSavedProfile, ContainerGone, Adopting,
         Gathered, Filling, Snapshot, Copied, Copy, Extract, Switch, Restore
    <2> QED BY <1>2, <1>3, <2>2, ObserveStep
  <1>4. CASE UNCHANGED world /\ op' = snapshotFails
    BY <1>2, <1>4, StayStep
  <1> QED BY <1>3, <1>4 DEF snapshotWriters

\* Stopping the container for a copy (backup.go 228-233).
LEMMA SnapshotStop ==
  ASSUME IInv, snapshotStop
  PROVE  IInv'
  <1> DEFINE o == At("snapshot.recheck")
  <1>1. /\ op \in Operations /\ op.p = profile /\ op.pc = "snapshot.stop"
        /\ op.cmd = "update-image" /\ op.c = None => container = None
        /\ WorldOK
    BY DEF IInv, Fits, OnSavedProfile, ContainerGone, Snapshot,
       snapshotStop
  <1>2. /\ o \in Operations /\ o.pc = "snapshot.recheck" /\ o.p = op.p
        /\ o.cmd = op.cmd /\ o.c = op.c /\ o.seen = op.seen
        /\ o.sel = op.sel /\ o.src = op.src /\ o.vol = op.vol
    BY <1>1, AtKeeps DEF Labels
  <1> HIDE DEF o
  <1>3. ASSUME NEW co, container = None => co = None
        PROVE  /\ Fits(o, profile, co, home)
               /\ Fits(snapshotFails, profile, co, home)
    <2>1. Fits(o, profile, co, home)
      BY <1>1, <1>2, <1>3 DEF IInv, Fits, OnSavedProfile, ContainerGone,
         Adopting, Gathered, Filling, Snapshot, Copied, Copy, Extract,
         Switch, Restore
    <2> QED BY <1>1, <1>3, <2>1, BackupEnds
  <1>4. CASE Observe(o, snapshotFails) BY <1>3, <1>4, ObserveStep
  <1>5. CASE /\ container # None /\ stopContainer
             /\ op' = o \/ Faulty(snapshotFails)
    <2>1. WorldOK' /\ profile' = profile /\ home' = home
      BY <1>1, <1>5, ContainerCalls DEF stopContainer
    <2> QED BY <1>1, <1>3, <1>5, <2>1, MoveStep
  <1>6. CASE UNCHANGED world /\ (op' = snapshotFails \/ Faulty(snapshotFails))
    BY <1>3, <1>6, StayStep
  <1> QED BY <1>4, <1>5, <1>6 DEF snapshotStop, Docker, o

\* Asking again once it is stopped (backup.go 234-235).
LEMMA SnapshotRecheck ==
  ASSUME IInv, snapshotRecheck
  PROVE  IInv'
  <1> DEFINE l == IF op.cmd = "restore" THEN "restore.volume"
                                        ELSE "backup.copy"
             o == At(l)
  <1>1. /\ op \in Operations /\ op.p = profile /\ op.pc = "snapshot.recheck"
        /\ op.cmd = "update-image" /\ op.c = None => container = None
    BY DEF IInv, Fits, OnSavedProfile, ContainerGone, Snapshot,
       snapshotRecheck
  <1>2. Fits(snapshotFails, profile, container, home) BY <1>1, BackupEnds
  <1>3. CASE Observe(o, snapshotFails)
    <2>1. l \in Labels BY DEF Labels
    <2>2. /\ o \in Operations /\ o.pc = l /\ o.p = op.p
          /\ o.cmd = op.cmd /\ o.c = op.c /\ o.seen = op.seen
          /\ o.sel = op.sel /\ o.src = op.src
      BY <1>1, <2>1, AtKeeps
    <2> HIDE DEF o
    <2>3. Fits(o, profile, container, home)
      BY <1>1, <2>2 DEF IInv, Fits, OnSavedProfile, ContainerGone, Adopting,
         Gathered, Filling, Snapshot, Copied, Copy, Extract, Switch, Restore
    <2> QED BY <1>2, <1>3, <2>3, ObserveStep
  <1>4. CASE UNCHANGED world /\ op' = snapshotFails
    BY <1>2, <1>4, StayStep
  <1> QED BY <1>3, <1>4 DEF snapshotRecheck

\* The image the copy will record is known: that of the container, or the
\* one selected, because selectedImageReference names none otherwise.
LEMMA BackupObserve ==
  ASSUME IInv, backupObserve
  PROVE  IInv'
  <1> DEFINE image == selectedImageReference(op.p, container)
             o == [[op EXCEPT !.seen = container]
                      EXCEPT !.pc = "snapshot.writers"]
  <1>1. /\ op \in Operations /\ op.p = profile /\ op.pc = "backup.observe"
        /\ op.cmd = "update-image" /\ op.c = None => container = None
        /\ op.cmd = "update-image" => op.sel \in Images
        /\ op.cmd # "restore"
        /\ container \in Containers \cup {None} /\ local \subseteq Images
    BY DEF IInv, Fits, OnSavedProfile, ContainerGone, Gathered,
       backupObserve, WorldOK, WorldTypeOK
  <1>2. Fits(backupFails, profile, container, home) BY <1>1, BackupEnds
  <1>3. CASE /\ home[op.p.home] # Absent /\ image \in local
             /\ Observe(o, backupFails)
    <2>1. o \in Operations BY <1>1, Fields DEF Labels
    <2>2. /\ o.pc = "snapshot.writers" /\ o.p = op.p /\ o.cmd = op.cmd
          /\ o.c = op.c /\ o.seen = container /\ o.sel = op.sel
      BY <1>1 DEF Operations
    <2>3. container # None \/ op.p.image # None
      BY <1>1, <1>3, ConstantsAssumption
         DEF selectedImageReference, ConstantsAssumption
    <2> HIDE DEF o
    <2>4. Fits(o, profile, container, home)
      BY <1>1, <1>3, <2>1, <2>2, <2>3 DEF Fits, OnSavedProfile,
         ContainerGone, Adopting, Gathered, Filling, Snapshot, Copied, Copy,
         Extract, Switch, Restore
    <2> QED BY <1>2, <1>3, <2>4, ObserveStep
  <1>4. CASE UNCHANGED world /\ op' = backupFails BY <1>2, <1>4, StayStep
  <1> QED BY <1>3, <1>4 DEF backupObserve, image, o

\* A step of the copy that only observes leaves what the copy relies on.
LEMMA CopyGoesOn ==
  ASSUME IInv, op.pc \in Copy, NEW o \in Operations, o.pc \in Copy,
         o.p = op.p, o.cmd = op.cmd, o.c = op.c, o.seen = op.seen,
         o.sel = op.sel, o.pc \in Copied => o.copy \in Content
  PROVE  /\ Fits(o, profile, container, home)
         /\ Fits(backupFails, profile, container, home)
         /\ Fits(backupReturns, profile, container, home)
  <1>1. /\ op \in Operations /\ op.p = profile
        /\ op.cmd = "update-image" /\ op.c = None => container = None
        /\ op.cmd = "update-image" => op.sel \in Images
    BY DEF IInv, Fits, OnSavedProfile, ContainerGone, Gathered, Copy, Copied
  <1>2. Fits(o, profile, container, home)
    BY <1>1 DEF IInv, Fits, OnSavedProfile, ContainerGone, Adopting,
       Gathered, Filling, Snapshot, Copied, Copy, Extract, Switch, Restore
  <1> QED BY <1>1, <1>2, BackupEnds

\* Beginning the archive (backup.go 386-404).
LEMMA BackupCopy ==
  ASSUME IInv, backupCopy
  PROVE  IInv'
  <1> DEFINE o == [[[op EXCEPT !.copy = home[op.p.home]]
                       EXCEPT !.net = network] EXCEPT !.pc = "backup.copying"]
  <1>1. /\ op \in Operations /\ op.p = profile /\ op.pc = "backup.copy"
        /\ home[op.p.home] # Absent /\ profile \in Profiles
        /\ home \in [Vols -> Content \cup {Absent}]
        /\ network \in Nets \cup {None}
    BY DEF IInv, Fits, OnSavedProfile, Gathered, Copy, backupCopy, WorldOK,
       WorldTypeOK
  <1>2. home[op.p.home] \in Content BY <1>1 DEF Profiles
  <1>3. o \in Operations BY <1>1, <1>2, Fields DEF Labels
  <1>4. /\ o.pc = "backup.copying" /\ o.copy = home[op.p.home]
        /\ o.p = op.p /\ o.cmd = op.cmd /\ o.c = op.c
        /\ o.seen = op.seen /\ o.sel = op.sel
    BY <1>1 DEF Operations
  <1>5. Observe(o, backupFails) BY DEF backupCopy
  <1> HIDE DEF o
  <1> QED BY <1>1, <1>2, <1>3, <1>4, <1>5, CopyGoesOn, ObserveStep
          DEF Copy, Copied

\* Ending the archive (backup.go 405-419).
LEMMA BackupCopying ==
  ASSUME IInv, backupCopying
  PROVE  IInv'
  <1> DEFINE d == IF home[op.p.home] = op.copy THEN op.copy ELSE Torn
             o == [[op EXCEPT !.copy = d] EXCEPT !.pc = "backup.recheck"]
  <1>1. /\ op \in Operations /\ op.pc = "backup.copying"
        /\ op.copy \in Content
    BY DEF IInv, Fits, Gathered, Copied, backupCopying
  <1>2. d \in Content BY <1>1 DEF Content
  <1> HIDE DEF d
  <1>3. o \in Operations BY <1>1, <1>2, Fields DEF Labels
  <1>4. /\ o.pc = "backup.recheck" /\ o.copy = d
        /\ o.p = op.p /\ o.cmd = op.cmd /\ o.c = op.c
        /\ o.seen = op.seen /\ o.sel = op.sel
    BY <1>1 DEF Operations
  <1>5. Observe(o, backupFails) BY DEF backupCopying, d
  <1> HIDE DEF o
  <1> QED BY <1>1, <1>2, <1>3, <1>4, <1>5, CopyGoesOn, ObserveStep
          DEF Copy, Copied

\* Asking for writers after the copy (backup.go 420-422).
LEMMA BackupRecheck ==
  ASSUME IInv, backupRecheck
  PROVE  IInv'
  <1> DEFINE o == At("backup.publish")
  <1>1. /\ op \in Operations /\ op.pc = "backup.recheck"
        /\ op.copy \in Content
    BY DEF IInv, Fits, Gathered, Copied, backupRecheck
  <1>2. /\ o \in Operations /\ o.pc = "backup.publish" /\ o.p = op.p
        /\ o.cmd = op.cmd /\ o.c = op.c /\ o.seen = op.seen
        /\ o.sel = op.sel /\ o.copy = op.copy
    BY <1>1, AtKeeps DEF Labels
  <1> HIDE DEF o
  <1>3. /\ Fits(o, profile, container, home)
        /\ Fits(backupFails, profile, container, home)
    BY <1>1, <1>2, CopyGoesOn DEF Copy, Copied
  <1>4. Observe(o, backupFails) \/ (UNCHANGED world /\ op' = backupFails)
    BY DEF backupRecheck, o
  <1> QED BY <1>3, <1>4, ObserveStep, StayStep

\* The image a copy records is a known one: the container's, or the profile's.
LEMMA SnapshotImage ==
  ASSUME IInv, op.pc = "backup.publish"
  PROVE  snapshotImage \in Images
  <1>1. /\ op \in Operations /\ op.p = profile /\ profile \in Profiles
        /\ op.seen # None \/ op.p.image # None
    BY DEF IInv, Fits, OnSavedProfile, Gathered, Copy, Copied, WorldOK,
       WorldTypeOK
  <1>2. op.seen \in Containers \cup {None} BY <1>1 DEF Operations
  <1> QED BY <1>1, <1>2 DEF snapshotImage, Profiles, Containers

\* Naming the copy completed (backup.go 423-439).
LEMMA BackupPublish ==
  ASSUME IInv, backupPublish
  PROVE  IInv'
  <1> DEFINE o == At("backup.prune")
             b == [own |-> TRUE, image |-> snapshotImage, data |-> op.copy,
                   net |-> op.net, applied |-> applied[op.p.home]]
  <1>1. /\ op \in Operations /\ op.pc = "backup.publish" /\ op.p = profile
        /\ op.copy \in Content /\ WorldOK /\ profile \in Profiles
        /\ applied \in [Vols -> Nets \cup {None}] /\ backups \in Seq(Copies)
    BY DEF IInv, Fits, OnSavedProfile, Gathered, Copied, backupPublish,
       WorldOK, WorldTypeOK
  <1>2. b \in Copies
    <2>1. op.net \in Nets \cup {None} BY <1>1 DEF Operations
    <2>2. applied[op.p.home] \in Nets \cup {None} BY <1>1 DEF Profiles
    <2> QED BY <1>1, <2>1, <2>2, SnapshotImage DEF Copies
  <1>3. /\ o \in Operations /\ o.pc = "backup.prune" /\ o.p = op.p
        /\ o.cmd = op.cmd /\ o.c = op.c /\ o.seen = op.seen
        /\ o.sel = op.sel
    BY <1>1, AtKeeps DEF Labels
  <1> HIDE DEF o, b
  <1>4. /\ Fits(o, profile, container, home)
        /\ Fits(backupFails, profile, container, home)
    BY <1>1, <1>3, CopyGoesOn DEF Copy, Copied
  <1>5. CASE /\ backups' = Append(backups, b)
             /\ UNCHANGED <<profile, network, container, home, applied,
                            store, writer, writes, truth>>
             /\ op' = o
    <2>1. backups' \in Seq(Copies) BY <1>1, <1>2, <1>5
    <2>2. WorldOK'
      BY <1>1, <1>5, <2>1 DEF WorldOK, WorldTypeOK, RuntimeIsSelected,
                              HomePreserved, store
    <2> QED BY <1>1, <1>4, <1>5, <2>2, MoveStep
  <1>6. CASE UNCHANGED world /\ Faulty(backupFails) BY <1>4, <1>6, StayStep
  <1> QED BY <1>5, <1>6 DEF backupPublish, WriteFile, o, b

\* What retention keeps are copies.
LEMMA NewestCopies ==
  ASSUME NEW s \in Seq(Copies)
  PROVE  newest(s) \in Seq(Copies)
  <1>1. CASE Len(s) > 2 BY <1>1, SubSeqProperties DEF newest
  <1>2. CASE Len(s) <= 2 BY <1>2, SubSeqProperties DEF newest
  <1> QED BY <1>1, <1>2, LenProperties

\* Retention removes copies alone (backup.go 440-458).
LEMMA BackupPrune ==
  ASSUME IInv, backupPrune
  PROVE  IInv'
  <1>1. /\ op \in Operations /\ op.pc = "backup.prune" /\ WorldOK
        /\ backups \in Seq(Copies)
    BY DEF IInv, Fits, backupPrune, WorldOK, WorldTypeOK
  <1>2. /\ Fits(backupReturns, profile, container, home)
        /\ Fits(backupFails, profile, container, home)
    BY <1>1, CopyGoesOn DEF Copy, Copied
  <1>3. CASE /\ backups' = newest(backups)
             /\ op' = backupReturns
             /\ UNCHANGED <<profile, network, container, home, applied,
                            store, writer, writes, truth>>
    <2>1. WorldOK'
      BY <1>1, <1>3, NewestCopies DEF WorldOK, WorldTypeOK,
         RuntimeIsSelected, HomePreserved, store
    <2> QED BY <1>1, <1>2, <1>3, <2>1, MoveStep
  <1>4. CASE UNCHANGED world /\ Faulty(backupFails) BY <1>2, <1>4, StayStep
  <1> QED BY <1>3, <1>4 DEF backupPrune

\* Every step of a backup, and of the stop before a copy or a restore, keeps
\* the invariant.
LEMMA BackingUp ==
  ASSUME IInv, stopForSnapshot \/ backup
  PROVE  IInv'
  BY SnapshotWriters, SnapshotStop, SnapshotRecheck, BackupObserve,
     BackupCopy, BackupCopying, BackupRecheck, BackupPublish, BackupPrune
     DEF stopForSnapshot, backup

(***************************************************************************)
(* restore and its deferred undo.                                          *)
(***************************************************************************)
\* What a label of restore needs beyond what the previous one had.
LEMMA RestoreFits ==
  ASSUME NEW o \in Operations, o.pc \in Restore \cup {"restore.volume"},
         NEW pr, NEW co, NEW ho, o.p = pr, o.src \in Copies,
         o.seen = None => co = None,
         o.pc \in Restore => o.vol \in Vols /\ o.vol # pr.home,
         o.pc \in Switch => ho[o.vol] = o.src.data,
         o.pc = "restore.commit" => co = None
  PROVE  Fits(o, pr, co, ho)
  BY DEF Fits, OnSavedProfile, ContainerGone, Adopting, Gathered, Filling,
     Snapshot, Copied, Copy, Extract, Switch, Restore

\* What every label of restore knows.
LEMMA RestoreKnows ==
  ASSUME IInv, op.pc \in Restore \cup {"restore.volume"}
  PROVE  /\ op \in Operations /\ WorldOK /\ op.p = profile /\ op.src \in Copies
         /\ op.seen = None => container = None
         /\ op.pc \in Restore => op.vol \in Vols /\ op.vol # profile.home
         /\ op.pc \in Switch => home[op.vol] = op.src.data
         /\ op.pc = "restore.commit" => container = None
         /\ profile \in Profiles /\ profile.home \in Vols
         /\ network \in Nets \cup {None}
         /\ home \in [Vols -> Content \cup {Absent}]
  BY DEF IInv, Fits, OnSavedProfile, ContainerGone, Gathered, Filling,
     WorldOK, WorldTypeOK, Profiles, Extract, Switch, Restore

\* A label of restore that keeps the rest of the command.
LEMMA AtRestore ==
  ASSUME op \in Operations, NEW l \in Restore
  PROVE  /\ At(l) \in Operations /\ At(l).pc = l /\ At(l).p = op.p
         /\ At(l).src = op.src /\ At(l).vol = op.vol /\ At(l).seen = op.seen
  <1>1. l \in Labels BY DEF Restore, Extract, Switch, Labels
  <1> QED BY <1>1, AtKeeps

\* Choosing and checking the copy (backup.go 467-517).
LEMMA RestoreRead ==
  ASSUME IInv, restoreRead
  PROVE  IInv'
  <1>1. /\ op \in Operations /\ op.p = profile /\ op.pc = "restore.read"
        /\ container \in Containers \cup {None} /\ backups \in Seq(Copies)
    BY DEF IInv, Fits, OnSavedProfile, restoreRead, WorldOK, WorldTypeOK
  <1>2. Fits(Done(FALSE), profile, container, home) BY <1>1, DoneFits
  <1>3. ToSet(backups) \cup OtherBackups \subseteq Copies
    BY <1>1, ConstantsAssumption DEF ToSet, ConstantsAssumption
  <1>4. ASSUME NEW b \in ToSet(backups) \cup OtherBackups,
               Observe([[[op EXCEPT !.seen = container] EXCEPT !.src = b]
                           EXCEPT !.pc = "snapshot.writers"], Done(FALSE))
        PROVE  IInv'
    <2> DEFINE o == [[[op EXCEPT !.seen = container] EXCEPT !.src = b]
                        EXCEPT !.pc = "snapshot.writers"]
    <2>1. b \in Copies BY <1>3
    <2>2. o \in Operations BY <1>1, <2>1, Fields DEF Labels
    <2>3. /\ o.pc = "snapshot.writers" /\ o.p = op.p /\ o.src = b
          /\ o.seen = container /\ o.cmd = op.cmd /\ o.c = op.c
          /\ o.sel = op.sel
      BY <1>1 DEF Operations
    <2>4. op.cmd = "restore" BY <1>1 DEF IInv, Fits, Gathered
    <2> HIDE DEF o
    <2>5. Fits(o, profile, container, home)
      BY <1>1, <2>1, <2>2, <2>3, <2>4 DEF Fits, OnSavedProfile,
         ContainerGone, Adopting, Gathered, Filling, Snapshot, Copied, Copy,
         Extract, Switch, Restore
    <2> QED BY <1>2, <1>4, <2>5, ObserveStep DEF o
  <1>5. CASE UNCHANGED world /\ op' = Done(FALSE) BY <1>2, <1>5, StayStep
  <1> QED BY <1>4, <1>5 DEF restoreRead

\* Creating the new volume, which is not the profile's (backup.go 521-528).
LEMMA RestoreVolume ==
  ASSUME IInv, restoreVolume
  PROVE  IInv'
  <1>1. op.pc = "restore.volume" BY DEF restoreVolume
  <1>2. op \in Operations /\ WorldOK /\ op.p = profile BY <1>1, RestoreKnows
  <1>3. \A co, ho : Fits(Done(FALSE), profile, co, ho) BY <1>2, DoneFits
  <1>4. ASSUME NEW v \in Vols, v # profile.home, setVolume(v, 0, None),
               \/ op' = [[op EXCEPT !.vol = v] EXCEPT !.pc = "restore.extract"]
               \/ Faulty(Done(FALSE))
        PROVE  IInv'
    <2> DEFINE o == [[op EXCEPT !.vol = v] EXCEPT !.pc = "restore.extract"]
    <2>1. o \in Operations BY <1>2, Fields DEF Labels
    <2>2. /\ o.pc = "restore.extract" /\ o.p = op.p /\ o.vol = v
          /\ o.src = op.src /\ o.seen = op.seen
      BY <1>2 DEF Operations
    <2> HIDE DEF o
    <2>3. \A ho : Fits(o, profile, container, ho)
      BY <1>1, <1>2, <1>4, <2>1, <2>2, RestoreKnows, RestoreFits
         DEF Restore, Extract, Switch
    <2>4. 0 \in Content BY ConstantsAssumption
                           DEF ConstantsAssumption, Content, Version
    <2>5. WorldOK' BY <1>2, <1>4, <2>4, SetVolume
    <2>6. profile' = profile /\ container' = container
      BY <1>4 DEF setVolume
    <2> QED BY <1>2, <1>3, <1>4, <2>3, <2>5, <2>6, MoveStep DEF o
  <1>5. CASE UNCHANGED world /\ Faulty(Done(FALSE))
    BY <1>3, <1>5, StayStep
  <1> QED BY <1>2, <1>4, <1>5 DEF restoreVolume, Docker

\* Beginning the extraction into it (backup.go 535-545).
LEMMA RestoreExtract ==
  ASSUME IInv, restoreExtract
  PROVE  IInv'
  <1> DEFINE o == At("restore.extracting")
             e == At("restore.undoVolume")
  <1>1. op.pc = "restore.extract" BY DEF restoreExtract
  <1>2. op \in Operations /\ WorldOK /\ op.p = profile /\ op.vol \in Vols
        /\ op.vol # profile.home
    BY <1>1, RestoreKnows DEF Restore, Extract
  <1>3. /\ o \in Operations /\ o.pc = "restore.extracting" /\ o.p = op.p
        /\ o.src = op.src /\ o.vol = op.vol /\ o.seen = op.seen
    BY <1>2, AtRestore DEF Restore, Extract
  <1>4. /\ e \in Operations /\ e.pc = "restore.undoVolume" /\ e.p = op.p
        /\ e.src = op.src /\ e.vol = op.vol /\ e.seen = op.seen
    BY <1>2, AtRestore DEF Restore, Extract
  <1> HIDE DEF o, e
  <1>5. \A ho : Fits(o, profile, container, ho)
    BY <1>1, <1>2, <1>3, RestoreKnows, RestoreFits
       DEF Restore, Extract, Switch
  <1>6. \A ho : Fits(e, profile, container, ho)
    BY <1>1, <1>2, <1>4, RestoreKnows, RestoreFits
       DEF Restore, Extract, Switch
  <1>7. CASE setVolume(op.vol, Partial, None) /\ (op' = o \/ Faulty(e))
    <2>1. Partial \in Content BY DEF Content
    <2>2. WorldOK' BY <1>2, <1>7, <2>1, SetVolume
    <2>3. profile' = profile /\ container' = container BY <1>7 DEF setVolume
    <2> QED BY <1>2, <1>5, <1>6, <1>7, <2>2, <2>3, MoveStep
  <1>8. CASE UNCHANGED world /\ Faulty(e) BY <1>6, <1>8, StayStep
  <1> QED BY <1>7, <1>8 DEF restoreExtract, Docker, o, e

\* Ending the extraction: the volume holds the copy, or is undone
\* (backup.go 540-552).
LEMMA RestoreExtracting ==
  ASSUME IInv, restoreExtracting
  PROVE  IInv'
  <1> DEFINE o == [[op EXCEPT !.net = network] EXCEPT !.pc = "restore.files"]
             e == At("restore.undoVolume")
  <1>1. op.pc = "restore.extracting" BY DEF restoreExtracting
  <1>2. op \in Operations /\ WorldOK /\ op.p = profile /\ op.vol \in Vols
        /\ op.vol # profile.home /\ op.src \in Copies
        /\ network \in Nets \cup {None}
    BY <1>1, RestoreKnows DEF Restore, Extract
  <1>3. o \in Operations BY <1>2, Fields DEF Labels
  <1>4. /\ o.pc = "restore.files" /\ o.p = op.p /\ o.src = op.src
        /\ o.vol = op.vol /\ o.seen = op.seen
    BY <1>2 DEF Operations
  <1>5. /\ e \in Operations /\ e.pc = "restore.undoVolume" /\ e.p = op.p
        /\ e.src = op.src /\ e.vol = op.vol /\ e.seen = op.seen
    BY <1>2, AtRestore DEF Restore, Extract
  <1> HIDE DEF o, e
  <1>6. \A ho : Fits(e, profile, container, ho)
    BY <1>1, <1>2, <1>5, RestoreKnows, RestoreFits
       DEF Restore, Extract, Switch
  <1>7. CASE setVolume(op.vol, op.src.data, op.src.applied)
             /\ (op' = o \/ Faulty(e))
    <2>1. op.src.data \in Content /\ op.src.applied \in Nets \cup {None}
      BY <1>2 DEF Copies
    <2>2. WorldOK' /\ home'[op.vol] = op.src.data
      BY <1>2, <1>7, <2>1, SetVolume
    <2>3. profile' = profile /\ container' = container BY <1>7 DEF setVolume
    <2>4. Fits(o, profile, container, home')
      BY <1>1, <1>2, <1>3, <1>4, <2>2, RestoreKnows, RestoreFits
         DEF Restore, Extract, Switch
    <2> QED BY <1>2, <1>6, <1>7, <2>2, <2>3, <2>4, MoveStep
  <1>8. CASE UNCHANGED world /\ Faulty(e) BY <1>6, <1>8, StayStep
  <1> QED BY <1>7, <1>8 DEF restoreExtracting, Docker, o, e

\* A failure before the new profile is saved goes to a deferred call.
LEMMA UndoFits ==
  ASSUME IInv, op.pc \in Restore,
         NEW l \in {"restore.undoNetwork", "restore.undoVolume"},
         NEW co, op.seen = None => co = None
  PROVE  Fits(At(l), profile, co, home)
  <1> DEFINE o == At(l)
  <1>1. op \in Operations /\ l \in Restore /\ l \notin Switch
        /\ l # "restore.commit"
    BY RestoreKnows DEF Restore, Extract, Switch
  <1>2. /\ o \in Operations /\ o.pc = l /\ o.p = op.p
        /\ o.src = op.src /\ o.vol = op.vol /\ o.seen = op.seen
    BY <1>1, AtRestore
  <1> HIDE DEF o
  <1>3. Fits(o, profile, co, home)
    BY <1>1, <1>2, RestoreKnows, RestoreFits
  <1> QED BY <1>3 DEF o

\* Writing network.json from the copy (backup.go 562-574).
LEMMA RestoreFiles ==
  ASSUME IInv, restoreFiles
  PROVE  IInv'
  <1> DEFINE o == At("restore.remove")
             e == At("restore.undoNetwork")
  <1>1. op.pc = "restore.files" BY DEF restoreFiles
  <1>2. op \in Operations /\ WorldOK /\ op.src \in Copies
    BY <1>1, RestoreKnows DEF Restore, Switch
  <1>3. /\ o \in Operations /\ o.pc = "restore.remove" /\ o.p = op.p
        /\ o.src = op.src /\ o.vol = op.vol /\ o.seen = op.seen
    BY <1>2, AtRestore DEF Restore, Switch
  <1>4. Fits(e, profile, container, home)
    BY <1>1, UndoFits, RestoreKnows DEF Restore, Switch
  <1> HIDE DEF o, e
  <1>5. Fits(o, profile, container, home)
    BY <1>1, <1>3, RestoreKnows, RestoreFits DEF Restore, Switch
  <1>6. CASE saveNetwork(op.src.net) /\ (op' = o \/ Faulty(e))
    <2>1. op.src.net \in Nets \cup {None} BY <1>2 DEF Copies
    <2>2. WorldOK' BY <1>2, <1>6, <2>1, SaveNetwork
    <2>3. UNCHANGED <<profile, container, home>> BY <1>6 DEF saveNetwork
    <2> QED BY <1>2, <1>4, <1>5, <1>6, <2>2, <2>3, MoveStep
  <1>7. CASE UNCHANGED world /\ Faulty(e) BY <1>4, <1>7, StayStep
  <1> QED BY <1>6, <1>7 DEF restoreFiles, Docker, o, e

\* Removing the container that runs the old image (backup.go 575-579).
LEMMA RestoreRemove ==
  ASSUME IInv, restoreRemove
  PROVE  IInv'
  <1> DEFINE o == At("restore.commit")
             e == At("restore.undoNetwork")
  <1>1. op.pc = "restore.remove" BY DEF restoreRemove
  <1>2. op \in Operations /\ WorldOK
    BY <1>1, RestoreKnows DEF Restore, Switch
  <1>3. /\ o \in Operations /\ o.pc = "restore.commit" /\ o.p = op.p
        /\ o.src = op.src /\ o.vol = op.vol /\ o.seen = op.seen
    BY <1>2, AtRestore DEF Restore, Switch
  <1>4. Fits(e, profile, container, home) /\ Fits(e, profile, None, home)
    BY <1>1, UndoFits, RestoreKnows DEF Restore, Switch
  <1> HIDE DEF o, e
  <1>5. Fits(o, profile, None, home)
    BY <1>1, <1>3, RestoreKnows, RestoreFits DEF Restore, Switch
  <1>6. CASE removeContainer /\ (op' = o \/ Faulty(e))
    <2>1. WorldOK' BY <1>2, <1>6, ContainerCalls
    <2>2. UNCHANGED <<profile, home>> /\ container' = None
      BY <1>6 DEF removeContainer
    <2> QED BY <1>2, <1>4, <1>5, <1>6, <2>1, <2>2, MoveStep
  <1>7. CASE UNCHANGED world /\ (op' = e \/ Faulty(e))
    BY <1>4, <1>7, StayStep
  <1>8. CASE op.seen = None /\ Observe(o, e)
    <2>1. container = None BY <1>1, <1>8, RestoreKnows DEF Restore, Switch
    <2> QED BY <1>4, <1>5, <1>8, <2>1, ObserveStep
  <1> QED BY <1>6, <1>7, <1>8 DEF restoreRemove, Docker, o, e

\* The profile names the volume that was filled, no container exists, and the
\* files restored are what the user now has.
LEMMA RestoreCommit ==
  ASSUME IInv, restoreCommit
  PROVE  IInv'
  <1> DEFINE o == At("restore.cleanup")
             e == At("restore.undoNetwork")
  <1>1. op.pc = "restore.commit" BY DEF restoreCommit
  <1>2. /\ op \in Operations /\ WorldOK /\ op.p = profile
        /\ op.src \in Copies /\ op.vol \in Vols /\ op.vol # profile.home
        /\ home[op.vol] = op.src.data /\ container = None
        /\ profile \in Profiles
    BY <1>1, RestoreKnows DEF Restore, Switch
  <1>3. /\ o \in Operations /\ o.pc = "restore.cleanup" /\ o.p = op.p
        /\ o.seen = op.seen
    BY <1>2, AtKeeps DEF Labels
  <1>4. Fits(e, profile, container, home)
    BY <1>1, UndoFits, RestoreKnows DEF Restore, Switch
  <1> HIDE DEF o, e
  <1>5. CASE /\ profile' = [image |-> op.src.image, home |-> op.vol]
             /\ truth' = op.src.data
             /\ UNCHANGED <<network, backups, container, home,
                            applied, store, writer, writes>>
             /\ op' = o
    <2>1. profile' \in Profiles /\ profile'.home = op.vol
      BY <1>2, <1>5 DEF Profiles, Copies
    <2>2. truth' \in Content BY <1>2, <1>5 DEF Copies
    <2>3. WorldOK'
      BY <1>2, <1>5, <2>1, <2>2 DEF WorldOK, WorldTypeOK,
         RuntimeIsSelected, HomePreserved, store
    <2>4. Fits(o, profile', container', home')
      BY <1>2, <1>3, <2>1 DEF Fits, OnSavedProfile, ContainerGone, Adopting,
         Gathered, Filling, Snapshot, Copied, Copy, Extract, Switch, Restore
    <2> QED BY <1>2, <1>5, <2>3, <2>4, MoveStep
  <1>6. CASE UNCHANGED world /\ Faulty(e) BY <1>4, <1>6, StayStep
  <1> QED BY <1>5, <1>6 DEF restoreCommit, WriteFile, o, e

\* Removing the old volume, which the profile no longer names
\* (backup.go 592-600).
LEMMA RestoreCleanup ==
  ASSUME IInv, restoreCleanup
  PROVE  IInv'
  <1>1. /\ op \in Operations /\ WorldOK /\ op.p \in Profiles
        /\ op.p.home # profile.home
    BY DEF IInv, Fits, Filling, restoreCleanup
  <1>2. \A co, ho : Fits(Done(TRUE), profile, co, ho) BY <1>1, DoneFits
  <1>3. CASE /\ setVolume(op.p.home, Absent, None)
             /\ op' = Done(TRUE) \/ Faulty(Done(TRUE))
    <2>1. WorldOK' BY <1>1, <1>3, SetVolume DEF Profiles
    <2>2. UNCHANGED <<profile, container>> BY <1>3 DEF setVolume
    <2> QED BY <1>1, <1>2, <1>3, <2>1, <2>2, MoveStep
  <1>4. CASE UNCHANGED world /\ (op' = Done(TRUE) \/ Faulty(Done(TRUE)))
    BY <1>2, <1>4, StayStep
  <1> QED BY <1>3, <1>4 DEF restoreCleanup, Docker

\* Writing the old network.json back (backup.go 553-561).
LEMMA RestoreUndoNetwork ==
  ASSUME IInv, restoreUndoNetwork
  PROVE  IInv'
  <1> DEFINE o == At("restore.undoVolume")
             e == [o EXCEPT !.disturbed = TRUE]
  <1>1. op.pc = "restore.undoNetwork" BY DEF restoreUndoNetwork
  <1>2. op \in Operations /\ WorldOK BY <1>1, RestoreKnows DEF Restore
  <1>3. /\ o \in Operations /\ o.pc = "restore.undoVolume" /\ o.p = op.p
        /\ o.src = op.src /\ o.vol = op.vol /\ o.seen = op.seen
    BY <1>2, AtRestore DEF Restore, Extract
  <1> HIDE DEF o
  <1>4. e \in Operations BY <1>3, Fields
  <1>5. /\ e.pc = "restore.undoVolume" /\ e.p = op.p
        /\ e.src = op.src /\ e.vol = op.vol /\ e.seen = op.seen
    BY <1>3 DEF Operations
  <1> HIDE DEF e
  <1>6. Fits(o, profile, container, home) /\ Fits(e, profile, container, home)
    BY <1>1, <1>3, <1>4, <1>5, RestoreKnows, RestoreFits
       DEF Restore, Extract, Switch
  <1>7. CASE saveNetwork(op.net) /\ op' = o
    <2>1. op.net \in Nets \cup {None} BY <1>2 DEF Operations
    <2>2. WorldOK' BY <1>2, <1>7, <2>1, SaveNetwork
    <2>3. UNCHANGED <<profile, container, home>> BY <1>7 DEF saveNetwork
    <2> QED BY <1>2, <1>6, <1>7, <2>2, <2>3, MoveStep
  <1>8. CASE UNCHANGED world /\ Faulty(e) BY <1>6, <1>8, StayStep
  <1> QED BY <1>7, <1>8 DEF restoreUndoNetwork, WriteFile, o, e

\* Removing the new volume of a restore that failed (backup.go 529-534).
LEMMA RestoreUndoVolume ==
  ASSUME IInv, restoreUndoVolume
  PROVE  IInv'
  <1>1. op.pc = "restore.undoVolume" BY DEF restoreUndoVolume
  <1>2. /\ op \in Operations /\ WorldOK /\ op.vol \in Vols
        /\ op.vol # profile.home
    BY <1>1, RestoreKnows DEF Restore, Extract
  <1>3. \A co, ho : Fits(Done(FALSE), profile, co, ho) BY <1>2, DoneFits
  <1>4. CASE /\ setVolume(op.vol, Absent, None)
             /\ op' = Done(FALSE) \/ Faulty(Done(FALSE))
    <2>1. WorldOK' BY <1>2, <1>4, SetVolume
    <2>2. UNCHANGED <<profile, container>> BY <1>4 DEF setVolume
    <2> QED BY <1>2, <1>3, <1>4, <2>1, <2>2, MoveStep
  <1>5. CASE UNCHANGED world /\ Faulty(Done(FALSE))
    BY <1>3, <1>5, StayStep
  <1> QED BY <1>4, <1>5 DEF restoreUndoVolume, Docker

\* Every step of restore keeps the invariant.
LEMMA Restoring ==
  ASSUME IInv, restore
  PROVE  IInv'
  BY RestoreRead, RestoreVolume, RestoreExtract, RestoreExtracting,
     RestoreFiles, RestoreRemove, RestoreCommit, RestoreCleanup,
     RestoreUndoNetwork, RestoreUndoVolume DEF restore

(***************************************************************************)
(* update-image and update-apps.                                           *)
(***************************************************************************)
\* What update-image knows of the container it observed first.
LEMMA ResumeFits ==
  ASSUME NEW o \in Operations, o.pc = "update.resume", NEW pr, NEW co, NEW ho,
         o.p = pr, o.cmd = "update-image" /\ o.c = None => co = None
  PROVE  Fits(o, pr, co, ho)
  BY DEF Fits, OnSavedProfile, ContainerGone, Adopting, Gathered, Filling,
     Snapshot, Copied, Copy, Extract, Switch, Restore

\* What update-image reads first changes nothing (image_updates.go 21-53).
LEMMA ImageObserve ==
  ASSUME IInv, imageObserve
  PROVE  IInv'
  <1> DEFINE o == [[op EXCEPT !.c = container] EXCEPT !.pc = "image.resolve"]
  <1>1. /\ op \in Operations /\ op.p = profile /\ op.pc = "image.observe"
        /\ op.cmd = "update-image" /\ container \in Containers \cup {None}
    BY DEF IInv, Fits, OnSavedProfile, Gathered, imageObserve, WorldOK,
       WorldTypeOK
  <1>2. o \in Operations BY <1>1, Fields DEF Labels
  <1>3. /\ o.pc = "image.resolve" /\ o.p = op.p /\ o.cmd = op.cmd
        /\ o.c = container
    BY <1>1 DEF Operations
  <1>4. Observe(o, Done(FALSE)) BY DEF imageObserve
  <1> HIDE DEF o
  <1>5. Fits(o, profile, container, home)
    BY <1>1, <1>2, <1>3 DEF Fits, OnSavedProfile, ContainerGone, Adopting,
       Gathered, Filling, Snapshot, Copied, Copy, Extract, Switch, Restore
  <1> QED BY <1>1, <1>4, <1>5, DoneFits, ObserveStep

\* Pulling and identifying the new image (image_updates.go 54-82).
LEMMA ImageResolve ==
  ASSUME IInv, imageResolve
  PROVE  IInv'
  <1>1. /\ op \in Operations /\ op.p = profile /\ op.pc = "image.resolve"
        /\ op.cmd = "update-image" /\ op.c = None => container = None
        /\ op.cmd = "update-image" /\ WorldOK
        /\ local \subseteq Images /\ registry \in Images
        /\ tag \in Images \cup {None}
    BY DEF IInv, Fits, OnSavedProfile, ContainerGone, Gathered,
       imageResolve, WorldOK, WorldTypeOK
  <1>2. Fits(At("update.fail"), profile, container, home)
    BY <1>1, AtFree DEF Free
  <1>3. ASSUME NEW i \in Images
        PROVE  Fits([[op EXCEPT !.sel = i] EXCEPT !.pc = "backup.observe"],
                    profile, container, home)
    <2> DEFINE o == [[op EXCEPT !.sel = i] EXCEPT !.pc = "backup.observe"]
    <2>1. o \in Operations BY <1>1, Fields DEF Labels
    <2>2. /\ o.pc = "backup.observe" /\ o.p = op.p /\ o.cmd = op.cmd
          /\ o.c = op.c /\ o.sel = i
      BY <1>1 DEF Operations
    <2> HIDE DEF o
    <2>3. Fits(o, profile, container, home)
      BY <1>1, <2>1, <2>2 DEF Fits, OnSavedProfile, ContainerGone, Adopting,
         Gathered, Filling, Snapshot, Copied, Copy, Extract, Switch, Restore
    <2> QED BY <2>3 DEF o
  <1> DEFINE candidate(pull) == IF pull THEN registry ELSE tag
             present(pull)   == IF pull THEN local \cup {registry} ELSE local
  <1>4. PICK pull \in BOOLEAN :
          /\ \/ /\ local' = present(pull) /\ tag' = candidate(pull)
                /\ \/ /\ candidate(pull) \in present(pull)
                      /\ op' = [[op EXCEPT !.sel = candidate(pull)]
                                   EXCEPT !.pc = "backup.observe"]
                   \/ op' = At("update.fail")
             \/ /\ \/ local' = present(pull) /\ tag' = candidate(pull)
                   \/ UNCHANGED <<local, tag>>
                /\ Faulty(At("update.fail"))
          /\ UNCHANGED <<profile, network, backups, container, home,
                         applied, registry, writer, writes, truth>>
    BY DEF imageResolve
  <1>5. /\ present(pull) \subseteq Images
        /\ candidate(pull) \in Images \cup {None}
    BY <1>1
  <1> HIDE DEF candidate, present
  <1>6. WorldOK'
    <2>1. local' \subseteq Images /\ tag' \in Images \cup {None}
      BY <1>1, <1>4, <1>5
    <2> QED BY <1>1, <1>4, <2>1 DEF WorldOK, WorldTypeOK, RuntimeIsSelected,
                                    HomePreserved
  <1>7. UNCHANGED <<profile, container, home>> BY <1>4
  <1>8. CASE op' = At("update.fail") \/ Faulty(At("update.fail"))
    BY <1>1, <1>2, <1>6, <1>7, <1>8, MoveStep
  <1>9. CASE /\ candidate(pull) \in present(pull)
             /\ op' = [[op EXCEPT !.sel = candidate(pull)]
                          EXCEPT !.pc = "backup.observe"]
    BY <1>1, <1>3, <1>5, <1>6, <1>7, <1>9, MoveStep
  <1> QED BY <1>4, <1>8, <1>9

\* Removing the container of the old image (image_updates.go 87-95).
LEMMA ImageRemove ==
  ASSUME IInv, imageRemove
  PROVE  IInv'
  <1> DEFINE o == At("image.save")
             e == At("update.resume")
  <1>1. /\ op \in Operations /\ op.p = profile /\ op.pc = "image.remove"
        /\ op.cmd = "update-image" /\ op.sel \in Images /\ WorldOK
        /\ op.c = None => container = None
    BY DEF IInv, Fits, OnSavedProfile, ContainerGone, Gathered, imageRemove
  <1>2. /\ o \in Operations /\ o.pc = "image.save" /\ o.p = op.p
        /\ o.cmd = op.cmd /\ o.c = op.c /\ o.sel = op.sel
    BY <1>1, AtKeeps DEF Labels
  <1>3. /\ e \in Operations /\ e.pc = "update.resume" /\ e.p = op.p
        /\ e.cmd = op.cmd /\ e.c = op.c
    BY <1>1, AtKeeps DEF Labels
  <1> HIDE DEF o, e
  <1>4. /\ Fits(e, profile, container, home) /\ Fits(e, profile, None, home)
    BY <1>1, <1>3, ResumeFits
  <1>5. Fits(o, profile, None, home)
    BY <1>1, <1>2 DEF Fits, OnSavedProfile, ContainerGone, Adopting,
       Gathered, Filling, Snapshot, Copied, Copy, Extract, Switch, Restore
  <1>6. CASE removeContainer /\ (op' = o \/ Faulty(e))
    <2>1. WorldOK' BY <1>1, <1>6, ContainerCalls
    <2>2. UNCHANGED <<profile, home>> /\ container' = None
      BY <1>6 DEF removeContainer
    <2> QED BY <1>1, <1>4, <1>5, <1>6, <2>1, <2>2, MoveStep
  <1>7. CASE UNCHANGED world /\ (op' = e \/ Faulty(e))
    BY <1>4, <1>7, StayStep
  <1>8. CASE op.c = None /\ Observe(o, e)
    BY <1>1, <1>4, <1>5, <1>8, ObserveStep
  <1> QED BY <1>6, <1>7, <1>8 DEF imageRemove, Docker, o, e

\* Saving the new selection, with no container left (image_updates.go 96-106).
LEMMA ImageSave ==
  ASSUME IInv, imageSave
  PROVE  IInv'
  <1> DEFINE p == [op.p EXCEPT !.image = op.sel]
             o == [[[op EXCEPT !.p = p] EXCEPT !.phase = "after"]
                       EXCEPT !.pc = "start.observe"]
             s == At("start.observe")
             r == [s EXCEPT !.phase = "rollback"]
             e == IF op.c # None /\ op.c.running THEN r
                                                ELSE At("update.fail")
  <1>1. /\ op \in Operations /\ op.p = profile /\ op.pc = "image.save"
        /\ op.sel \in Images /\ WorldOK /\ container = None
        /\ profile \in Profiles
    BY DEF IInv, Fits, OnSavedProfile, ContainerGone, Gathered, imageSave,
       WorldOK, WorldTypeOK
  <1>2. p \in Profiles /\ p.home = profile.home BY <1>1 DEF Profiles
  <1> HIDE DEF p
  <1>3. o \in Operations BY <1>1, <1>2, Fields DEF Labels
  <1>4. o.pc = "start.observe" /\ o.p = p BY <1>1 DEF Operations
  <1>5. s \in Operations /\ s.pc = "start.observe" /\ s.p = profile
    BY <1>1, AtKeeps DEF Labels
  <1> HIDE DEF o, s
  <1>6. r \in Operations BY <1>5, Fields
  <1>7. r.pc = "start.observe" /\ r.p = profile BY <1>5 DEF Operations
  <1> HIDE DEF r
  <1>8. Fits(e, profile, container, home)
    BY <1>1, <1>6, <1>7, FreeFits, AtFree DEF Free
  <1> HIDE DEF e
  <1>9. CASE saveProfile(p) /\ op' = o
    <2>1. WorldOK' BY <1>1, <1>2, <1>9, SaveProfile
    <2>2. Fits(o, profile', container', home')
      BY <1>3, <1>4, <1>9, FreeFits DEF Free, saveProfile
    <2> QED BY <1>1, <1>9, <2>1, <2>2, MoveStep
  <1>10. CASE UNCHANGED world /\ Faulty(e) BY <1>8, <1>10, StayStep
  <1> QED BY <1>9, <1>10 DEF imageSave, WriteFile, e, r, s, o, p

\* Checking packages and applications (image_updates.go 112-161).
LEMMA ImageChecks ==
  ASSUME IInv, imagePackages \/ imageVerify
  PROVE  IInv'
  <1>1. op \in Operations /\ op.p = profile
    BY DEF IInv, Fits, OnSavedProfile, imagePackages, imageVerify, imageChecks
  <1>2. /\ Fits(At("image.verify"), profile, container, home)
        /\ Fits(At("update.finish"), profile, container, home)
        /\ Fits(At("update.fail"), profile, container, home)
    BY <1>1, AtFree DEF Free
  <1>3. \/ Observe(At("image.verify"), At("update.fail"))
        \/ Observe(At("update.finish"), At("update.fail"))
        \/ UNCHANGED world /\ op' = At("update.fail")
    BY DEF imagePackages, imageVerify, imageChecks
  <1> QED BY <1>2, <1>3, ObserveStep, StayStep

\* What update-apps reads first (updates.go 10-33).
LEMMA AppsObserve ==
  ASSUME IInv, appsObserve
  PROVE  IInv'
  <1> DEFINE o == [[op EXCEPT !.c = container] EXCEPT !.pc = "backup.observe"]
  <1>1. /\ op \in Operations /\ op.p = profile /\ op.pc = "apps.observe"
        /\ op.cmd = "update-apps" /\ container \in Containers \cup {None}
    BY DEF IInv, Fits, OnSavedProfile, Gathered, appsObserve, WorldOK,
       WorldTypeOK
  <1>2. Fits(Done(FALSE), profile, container, home) BY <1>1, DoneFits
  <1>3. o \in Operations BY <1>1, Fields DEF Labels
  <1>4. o.pc = "backup.observe" /\ o.p = op.p /\ o.cmd = op.cmd
    BY <1>1 DEF Operations
  <1>5. Observe(o, Done(FALSE)) \/ (UNCHANGED world /\ op' = Done(FALSE))
    BY DEF appsObserve
  <1> HIDE DEF o
  <1>6. Fits(o, profile, container, home)
    BY <1>1, <1>3, <1>4 DEF Fits, OnSavedProfile, ContainerGone, Adopting,
       Gathered, Filling, Snapshot, Copied, Copy, Extract, Switch, Restore
  <1> QED BY <1>2, <1>5, <1>6, ObserveStep, StayStep

\* The container writes the profile's volume, the one it was created with.
LEMMA AppsUpdate ==
  ASSUME IInv, appsUpdate
  PROVE  IInv'
  <1>1. op \in Operations /\ op.p = profile /\ WorldOK
    BY DEF IInv, Fits, OnSavedProfile, appsUpdate
  <1>2. \A ho : /\ Fits(At("update.finish"), profile, container, ho)
                /\ Fits(At("update.fail"), profile, container, ho)
    BY <1>1, AtFree DEF Free
  <1>3. CASE /\ Running /\ Save(container.home)
             /\ op' = At("update.finish") \/ Faulty(At("update.fail"))
    <2>1. container.home = profile.home
      BY <1>1, <1>3 DEF WorldOK, RuntimeIsSelected, Running
    <2>2. WorldOK' BY <1>1, <1>3, <2>1, SaveFiles
    <2>3. UNCHANGED <<profile, container>> BY <1>3 DEF Save
    <2> QED BY <1>1, <1>2, <1>3, <2>2, <2>3, MoveStep
  <1>4. CASE /\ UNCHANGED world
             /\ \/ op' = At("update.finish") \/ op' = At("update.fail")
                \/ Faulty(At("update.fail"))
    BY <1>2, <1>4, StayStep
  <1> QED BY <1>3, <1>4 DEF appsUpdate, Docker

\* Starting the original container again (image_updates.go 45-53).
LEMMA UpdateResume ==
  ASSUME IInv, updateResume
  PROVE  IInv'
  <1> DEFINE o == At("update.fail")
             e == [o EXCEPT !.disturbed = TRUE]
  <1>1. op \in Operations /\ op.p = profile /\ WorldOK
    BY DEF IInv, Fits, OnSavedProfile, updateResume
  <1>2. o \in Operations /\ o.pc = "update.fail" /\ o.p = profile
    BY <1>1, AtKeeps DEF Labels
  <1> HIDE DEF o
  <1>3. e \in Operations BY <1>2, Fields
  <1>4. e.pc = "update.fail" /\ e.p = profile BY <1>2 DEF Operations
  <1> HIDE DEF e
  <1>5. \A co : Fits(o, profile, co, home) /\ Fits(e, profile, co, home)
    BY <1>2, <1>3, <1>4, FreeFits DEF Free
  <1>6. CASE container # None /\ startContainer /\ (op' = o \/ Faulty(e))
    <2>1. WorldOK' /\ UNCHANGED <<profile, home>>
      BY <1>1, <1>6, ContainerCalls DEF startContainer
    <2> QED BY <1>1, <1>5, <1>6, <2>1, MoveStep
  <1>7. CASE UNCHANGED world /\ (op' = o \/ op' = e \/ Faulty(e))
    BY <1>5, <1>7, StayStep
  <1> QED BY <1>6, <1>7 DEF updateResume, Docker, o, e

\* Every step of the two updates keeps the invariant.
LEMMA Updating ==
  ASSUME IInv, update
  PROVE  IInv'
  <1>1. ASSUME updateFinish \/ updateFail PROVE IInv'
    <2>1. op \in Operations BY DEF IInv, Fits
    <2>2. /\ Fits(Done(TRUE), profile, container, home)
          /\ Fits(Done(FALSE), profile, container, home)
      BY <2>1, DoneFits
    <2> QED BY <1>1, <2>2, ObserveStep, StayStep
            DEF updateFinish, updateFail
  <1> QED BY <1>1, ImageObserve, ImageResolve, ImageRemove, ImageSave,
             ImageChecks, AppsObserve, AppsUpdate, UpdateResume DEF update

(***************************************************************************)
(* The invariant holds at the start and every step keeps it.               *)
(***************************************************************************)
\* Between two commands nothing is presumed.
LEMMA IdleFits ==
  ASSUME NEW pr, NEW co, NEW ho
  PROVE  Idle \in Operations /\ Fits(Idle, pr, co, ho)
  <1>1. Idle \in Operations
    BY ConstantsAssumption DEF Idle, Operations, Labels
  <1>2. Idle.pc = "idle" BY DEF Idle
  <1> QED BY <1>1, <1>2 DEF Fits, OnSavedProfile, ContainerGone, Adopting,
             Gathered, Filling, Snapshot, Copied, Copy, Extract, Switch,
             Restore

\* A new installation, or one of an older version, satisfies the invariant.
LEMMA Initially ==
  ASSUME Init
  PROVE  IInv
  <1>1. WorldTypeOK
    <2>1. 0 \in Version /\ 0 \in Content
      BY ConstantsAssumption DEF ConstantsAssumption, Version, Content
    <2>2. << >> \in Seq(Copies) OBVIOUS
    <2>3. /\ profile \in Profiles /\ container \in Containers \cup {None}
          /\ home \in [Vols -> Content \cup {Absent}]
          /\ truth \in Content \cup {Absent}
      BY <2>1, ConstantsAssumption DEF ConstantsAssumption, Init, Installed,
         Older, Profiles, Containers
    <2> QED BY <2>1, <2>2, <2>3 DEF WorldTypeOK, Init
  <1>2. RuntimeIsSelected /\ HomePreserved
    BY ConstantsAssumption DEF ConstantsAssumption, RuntimeIsSelected,
       HomePreserved, Init, Installed, Older
  <1> QED BY <1>1, <1>2, IdleFits DEF IInv, WorldOK, Init

\* A command that begins reads the saved profile.
LEMMA Beginning ==
  ASSUME IInv, NEW cmd \in Commands, Begin(cmd)
  PROVE  IInv'
  <1> DEFINE o == [[[[[Idle EXCEPT !.cmd = cmd] EXCEPT !.pc = Entry(cmd)]
                     EXCEPT !.p = profile] EXCEPT !.net0 = network]
                     EXCEPT !.applied0 = applied[profile.home]]
  <1>1. /\ op \in Operations /\ profile \in Profiles
        /\ network \in Nets \cup {None}
        /\ applied[profile.home] \in Nets \cup {None}
    BY DEF IInv, Fits, WorldOK, WorldTypeOK, Profiles
  <1>2. cmd \in AllCommands /\ Entry(cmd) \in Labels
    BY ConstantsAssumption DEF ConstantsAssumption, Entry, AllCommands, Labels
  <1>3. Idle \in Operations BY IdleFits
  <1>4. o \in Operations BY <1>1, <1>2, <1>3, Fields
  <1>5. o.cmd = cmd /\ o.pc = Entry(cmd) /\ o.p = profile
    BY <1>3 DEF Operations
  <1>6. op' = o /\ UNCHANGED world BY DEF Begin
  <1> HIDE DEF o
  <1>7. Fits(o, profile, container, home)
    BY <1>2, <1>4, <1>5 DEF Entry, AllCommands, Fits, OnSavedProfile,
       ContainerGone, Adopting, Gathered, Filling, Snapshot, Copied, Copy,
       Extract, Switch, Restore
  <1> QED BY <1>6, <1>7, StayStep

\* A command that returns, or is killed at any step, leaves the invariant.
LEMMA Ending ==
  ASSUME IInv, Return \/ Killed
  PROVE  IInv'
  BY IdleFits, StayStep DEF Return, Killed

\* What happens around the command disturbs nothing it relies on: no
\* container appears, the profile's volume keeps its files, and no other
\* volume changes.
LEMMA AroundFits ==
  ASSUME IInv, WorldOK', NEW o \in Operations,
         o = op \/ o = [op EXCEPT !.disturbed = TRUE], op' = o, profile' = profile,
         \/ container' = container
         \/ container' = None
         \/ /\ container # None /\ container' \in Containers
            /\ container'.image = container.image,
         \A v \in Vols : \/ home'[v] = home[v]
                         \/ v = profile.home /\ home'[v] # Absent
  PROVE  IInv'
  <1>1. /\ o.pc = op.pc /\ o.cmd = op.cmd /\ o.p = op.p /\ o.c = op.c
        /\ o.seen = op.seen /\ o.sel = op.sel /\ o.src = op.src
        /\ o.vol = op.vol /\ o.copy = op.copy
    BY DEF Operations, IInv, Fits
  <1>2. profile \in Profiles /\ Fits(op, profile, container, home)
    BY DEF IInv, WorldOK, WorldTypeOK
  <1>3. None \notin Containers BY ConstantsAssumption DEF ConstantsAssumption
  <1>4. OnSavedProfile(o, profile') BY <1>1, <1>2 DEF Fits, OnSavedProfile
  <1>5. ContainerGone(o, container')
    BY <1>1, <1>2 DEF Fits, ContainerGone
  <1>6. Adopting(o, container') BY <1>1, <1>2, <1>3 DEF Fits, Adopting
  <1>7. Gathered(o, home')
    <2>1. op.pc \in Copy \/ (op.pc \in Snapshot /\ op.cmd # "restore")
            => op.p = profile
      BY <1>2 DEF Fits, OnSavedProfile, Copy, Copied, Snapshot
    <2> QED BY <1>1, <1>2, <2>1 DEF Fits, Gathered, Profiles
  <1>8. Filling(o, profile', home')
    BY <1>1, <1>2 DEF Fits, Filling, Switch, Restore
  <1> QED BY <1>4, <1>5, <1>6, <1>7, <1>8 DEF IInv, Fits

\* Noting that the desktop was taken away keeps the command in place.
LEMMA Disturbed ==
  ASSUME op \in Operations, Disturb
  PROVE  /\ op' \in Operations
         /\ op' = op \/ op' = [op EXCEPT !.disturbed = TRUE]
  BY Fields DEF Disturb

\* Only the profile's volume is written: by the container, which is on it, or
\* by a project's container that was started on it and still names it.
LEMMA Saving ==
  ASSUME IInv, UserSaves \/ WriterSaves
  PROVE  IInv'
  <1>1. op \in Operations /\ WorldOK BY DEF IInv, Fits
  <1>2. PICK v : v = profile.home /\ Save(v) /\ op' = op
    BY <1>1 DEF UserSaves, WriterSaves, WorldOK, RuntimeIsSelected, Running
  <1>3. /\ WorldOK' /\ home'[v] # Absent
        /\ \A u \in Vols \ {v} : home'[u] = home[u]
    BY <1>1, <1>2, SaveFiles
  <1>4. UNCHANGED <<profile, container>> BY <1>2 DEF Save
  <1> QED BY <1>1, <1>2, <1>3, <1>4, AroundFits

\* The desktop ends, or its container is removed by somebody else.
LEMMA Removing ==
  ASSUME IInv, DesktopExits \/ ContainerLost
  PROVE  IInv'
  <1>1. op \in Operations /\ WorldOK BY DEF IInv, Fits
  <1>2. /\ op' \in Operations
        /\ op' = op \/ op' = [op EXCEPT !.disturbed = TRUE]
    BY <1>1, Disturbed DEF DesktopExits, ContainerLost
  <1>3. CASE DesktopExits
    <2>1. /\ WorldOK' /\ container # None /\ container' \in Containers
          /\ container'.image = container.image
      BY <1>1, <1>3, ContainerCalls DEF DesktopExits, Running
    <2>2. UNCHANGED <<profile, home>> BY <1>3 DEF DesktopExits, stopContainer
    <2> QED BY <1>2, <2>1, <2>2, AroundFits
  <1>4. CASE ContainerLost
    <2>1. WorldOK' BY <1>1, <1>4, ContainerCalls DEF ContainerLost
    <2>2. UNCHANGED <<profile, home>> /\ container' = None
      BY <1>4 DEF ContainerLost, removeContainer
    <2> QED BY <1>2, <2>1, <2>2, AroundFits
  <1> QED BY <1>3, <1>4

\* The personal volume is removed by somebody else.
LEMMA LosingHome ==
  ASSUME IInv, HomeLost
  PROVE  IInv'
  <1>1. WorldOK' BY DEF IInv, WorldOK, WorldTypeOK, RuntimeIsSelected,
                        HomePreserved, HomeLost, store
  <1>2. op' = Idle BY DEF HomeLost
  <1> QED BY <1>1, <1>2, IdleFits DEF IInv

\* Project containers come and go, tags move and images are removed: none of
\* it is the container or the profile.
LEMMA Elsewhere ==
  ASSUME IInv, \/ WriterStarts \/ WriterStops
               \/ \E i \in Images : TagMoves(i) \/ ImageRemoved(i)
  PROVE  IInv'
  <1>1. op \in Operations /\ profile.home \in Vols
    BY DEF IInv, Fits, WorldOK, WorldTypeOK, Profiles
  <1>2. /\ op' \in Operations
        /\ op' = op \/ op' = [op EXCEPT !.disturbed = TRUE]
    BY <1>1, Disturbed DEF WriterStarts, WriterStops, TagMoves, ImageRemoved
  <1>3. UNCHANGED <<profile, container, home>>
    BY DEF WriterStarts, WriterStops, TagMoves, ImageRemoved, store
  <1>4. WorldOK'
    <2>1. CASE WriterStarts \/ WriterStops
      BY <1>1, <2>1 DEF IInv, WorldOK, WorldTypeOK, RuntimeIsSelected,
         HomePreserved, WriterStarts, WriterStops, store
    <2>2. ASSUME NEW i \in Images, TagMoves(i) \/ ImageRemoved(i)
          PROVE  WorldOK'
      BY <2>2 DEF IInv, WorldOK, WorldTypeOK, RuntimeIsSelected,
         HomePreserved, TagMoves, ImageRemoved
    <2> QED BY <2>1, <2>2
  <1> QED BY <1>2, <1>3, <1>4, AroundFits

\* Every step of the installation keeps the invariant.
LEMMA Preserving ==
  ASSUME IInv, [Next]_vars
  PROVE  IInv'
  <1>1. CASE Step
    BY <1>1, Starting, Stopping, ConfiguringNetwork, BackingUp, Restoring,
       Updating DEF Step
  <1>2. CASE Around
    BY <1>2, Saving, Removing, LosingHome, Elsewhere DEF Around
  <1>3. CASE UNCHANGED vars
    <2>1. UNCHANGED world /\ op' = op BY <1>3 DEF vars
    <2> QED BY <2>1, StayStep DEF IInv
  <1> QED BY <1>1, <1>2, <1>3, Beginning, Ending DEF Next

\* The inductive invariant: what each label of a command relies on is there.
THEOREM Invariant == Spec => []IInv
  BY Initially, Preserving, PTL DEF Spec

\* Every variable keeps its type, backups never exceeding a sequence of
\* copies whose image and files are known.
THEOREM TypeCorrect == Spec => []TypeOK
  <1>1. IInv => TypeOK BY DEF IInv, Fits, TypeOK, WorldOK
  <1> QED BY <1>1, Invariant, PTL

\* However a command is cut short, the container runs the image the profile
\* selects on the volume the profile names.
THEOREM SelectedRuntime == Spec => []RuntimeIsSelected
  <1>1. IInv => RuntimeIsSelected BY DEF IInv, WorldOK
  <1> QED BY <1>1, Invariant, PTL

\* Personal files are never lost by a command, whatever is killed or fails.
THEOREM FilesPreserved == Spec => []HomePreserved
  <1>1. IInv => HomePreserved BY DEF IInv, WorldOK
  <1> QED BY <1>1, Invariant, PTL

(***************************************************************************)
(* How long a command can be.                                              *)
(***************************************************************************)
\* At most so many calls, and what follows each of them, are left at a label.
Left == [l \in Labels |->
    CASE l \in {"idle", "done"} -> 0
      [] l \in {"update.fail", "update.finish", "restore.undoVolume",
                "restore.cleanup", "stop", "network"} -> 1
      [] l \in {"image.verify", "update.resume", "restore.undoNetwork"} -> 2
      [] l \in {"image.packages", "apps.update", "restore.commit"} -> 3
      [] l \in {"start.await", "restore.remove"} -> 4
      [] l \in {"start.run", "restore.files"} -> 5
      [] l \in {"start.network", "restore.extracting"} -> 6
      [] l \in {"start.create", "restore.extract"} -> 7
      [] l \in {"start.volume", "restore.volume"} -> 8
      [] l = "start.select" -> 9
      [] l \in {"start.resolve", "start.adopt"} -> 10
      [] l = "start.observe" -> 11
      [] l = "image.save" -> 12
      [] l = "image.remove" -> 13
      [] l = "backup.prune" -> 14
      [] l = "backup.publish" -> 15
      [] l = "backup.recheck" -> 16
      [] l = "backup.copying" -> 17
      [] l = "backup.copy" -> 18
      [] l = "snapshot.recheck" -> 19
      [] l = "snapshot.stop" -> 20
      [] l = "snapshot.writers" -> 21
      [] l \in {"backup.observe", "restore.read"} -> 22
      [] l \in {"image.resolve", "apps.observe"} -> 23
      [] l = "image.observe" -> 24]
Sooner == Left[op'.pc] < Left[op.pc]

\* Where a command goes on, and where its routines do when they fail.
LEMMA GoesTo ==
  ASSUME op \in Operations
  PROVE  /\ \A l : op' = At(l) \/ Faulty(At(l)) => op'.pc = l
         /\ \A ok : op' = Done(ok) \/ Faulty(Done(ok)) => op'.pc = "done"
         /\ op' = startFails \/ Faulty(startFails)
               => op'.pc \in {"done", "update.fail"}
         /\ op' = backupFails \/ Faulty(backupFails)
               => op'.pc \in {"done", "update.resume"}
         /\ op' = snapshotFails \/ Faulty(snapshotFails)
               => op'.pc \in {"done", "update.resume"}
<1>1. ASSUME NEW l, op' = At(l) \/ Faulty(At(l)) PROVE op'.pc = l
  BY <1>1 DEF At, Faulty, Operations
<1>2. ASSUME NEW ok, op' = Done(ok) \/ Faulty(Done(ok)) PROVE op'.pc = "done"
  BY <1>2 DEF Done, Faulty, Operations
<1> QED
  BY <1>1, <1>2 DEF startFails, backupFails, snapshotFails

\* A start goes from what it sees to the container it awaits.
LEMMA StartSooner ==
  ASSUME IInv, start
  PROVE  Sooner
<1>0. op \in Operations
  BY DEF IInv, Fits
<1>1. CASE startObserve
  <2>1. op'.pc \in {"start.resolve", "start.adopt", "start.network",
                    "start.await", "done", "update.fail"}
    BY <1>0, <1>1, GoesTo DEF startObserve, Observe, afterObserve, Operations
  <2> QED
    BY <1>1, <2>1 DEF startObserve, Sooner, Left, Labels
<1>2. CASE startAdopt
  <2> DEFINE p == [op.p EXCEPT !.image = op.seen.image]
  <2>1. op.pc = "start.adopt" /\ op.seen \in Containers /\ op.p = profile
    BY <1>2 DEF startAdopt, IInv, Fits, Adopting, OnSavedProfile
  <2>2. profile \in Profiles /\ None \notin Images \cup Containers
    BY ConstantsAssumption
       DEF ConstantsAssumption, IInv, WorldOK, WorldTypeOK
  <2>3. p.image # None /\ op.seen # None
    BY <2>1, <2>2 DEF Containers, Profiles
  <2>4. afterObserve(p, op.seen) \in {"start.network", "start.await"}
    BY <2>3 DEF afterObserve
  <2>5. \/ op' = [op EXCEPT !.p = p, !.pc = afterObserve(p, op.seen)]
        \/ Faulty(startFails)
    BY <1>2 DEF startAdopt, WriteFile
  <2> HIDE DEF p
  <2>6. op'.pc \in {"start.network", "start.await", "done", "update.fail"}
    BY <1>0, <2>4, <2>5 DEF startFails, Faulty, Done, At, Operations
  <2> QED
    BY <2>1, <2>6 DEF Sooner, Left, Labels
<1>3. CASE startResolve
  <2>1. op'.pc \in {"start.select", "done", "update.fail"}
    BY <1>0, <1>3, GoesTo DEF startResolve, Observe, Docker, Operations
  <2> QED
    BY <1>3, <2>1 DEF startResolve, Sooner, Left, Labels
<1>4. CASE startSelect
  <2>1. op'.pc \in {"start.volume", "done", "update.fail"}
    BY <1>0, <1>4, GoesTo DEF startSelect, Observe, WriteFile, Operations
  <2> QED
    BY <1>4, <2>1 DEF startSelect, Sooner, Left, Labels
<1>5. CASE startVolume
  <2>1. op'.pc \in {"start.create", "done", "update.fail"}
    BY <1>0, <1>5, GoesTo DEF startVolume, Observe, Docker, Operations
  <2> QED
    BY <1>5, <2>1 DEF startVolume, Sooner, Left, Labels
<1>6. CASE startCreate
  <2>1. op'.pc \in {"start.network", "done", "update.fail"}
    BY <1>0, <1>6, GoesTo DEF startCreate, Docker
  <2> QED
    BY <1>6, <2>1 DEF startCreate, Sooner, Left, Labels
<1>7. CASE syncNetwork
  <2>1. op'.pc \in {"start.run", "done", "update.fail"}
    BY <1>0, <1>7, GoesTo DEF syncNetwork, Docker, Operations
  <2> QED
    BY <1>7, <2>1 DEF syncNetwork, Sooner, Left, Labels
<1>8. CASE startRun
  <2>1. op'.pc \in {"start.await", "done", "update.fail"}
    BY <1>0, <1>8, GoesTo DEF startRun, Docker
  <2> QED
    BY <1>8, <2>1 DEF startRun, Sooner, Left, Labels
<1>9. CASE startAwait
  <2>1. \/ op' = startReturns
        \/ op' = startFails \/ Faulty(startFails)
    BY <1>9 DEF startAwait, Observe
  <2>2. op'.pc \in {"done", "update.fail", "image.packages", "apps.update"}
    <3>1. op' = startReturns => op'.pc \in {"done", "update.fail",
                                            "image.packages", "apps.update"}
      BY <1>0 DEF startReturns, Done, At, Operations
    <3>2. op' = startFails \/ Faulty(startFails)
            => op'.pc \in {"done", "update.fail"}
      BY <1>0 DEF startFails, Faulty, Done, At, Operations
    <3> QED
      BY <2>1, <3>1, <3>2
  <2> QED
    BY <1>9, <2>2 DEF startAwait, Sooner, Left, Labels
<1> QED
  BY <1>1, <1>2, <1>3, <1>4, <1>5, <1>6, <1>7, <1>8, <1>9 DEF start

\* stop and network are one call.
LEMMA PlainSooner ==
  ASSUME IInv, stop \/ configureNetwork
  PROVE  Sooner
<1>0. op \in Operations
  BY DEF IInv, Fits
<1>1. CASE stop
  <2>1. op'.pc \in {"done"}
    BY <1>0, <1>1, GoesTo DEF stop, Docker, Observe
  <2> QED
    BY <1>1, <2>1 DEF stop, Sooner, Left, Labels
<1>2. CASE configureNetwork
  <2>1. op'.pc \in {"done"}
    BY <1>0, <1>2, GoesTo DEF configureNetwork, WriteFile
  <2> QED
    BY <1>2, <2>1 DEF configureNetwork, Sooner, Left, Labels
<1> QED
  BY <1>1, <1>2

\* The desktop is stopped before anything is read or put back.
LEMMA StopSooner ==
  ASSUME IInv, stopForSnapshot
  PROVE  Sooner
<1>0. op \in Operations
  BY DEF IInv, Fits
<1>1. CASE snapshotWriters
  <2>1. op'.pc \in {"snapshot.stop", "done", "update.resume"}
    BY <1>0, <1>1, GoesTo DEF snapshotWriters, Observe
  <2> QED
    BY <1>1, <2>1 DEF snapshotWriters, Sooner, Left, Labels
<1>2. CASE snapshotStop
  <2>1. op'.pc \in {"snapshot.recheck", "done", "update.resume"}
    BY <1>0, <1>2, GoesTo DEF snapshotStop, Observe, Docker
  <2> QED
    BY <1>2, <2>1 DEF snapshotStop, Sooner, Left, Labels
<1>3. CASE snapshotRecheck
  <2>1. op'.pc \in {"restore.volume", "backup.copy", "done", "update.resume"}
    BY <1>0, <1>3, GoesTo DEF snapshotRecheck, Observe
  <2> QED
    BY <1>3, <2>1 DEF snapshotRecheck, Sooner, Left, Labels
<1> QED
  BY <1>1, <1>2, <1>3 DEF stopForSnapshot

\* A backup goes on to the update that asked for it.
LEMMA BackupSooner ==
  ASSUME IInv, backup
  PROVE  Sooner
<1>0. op \in Operations
  BY DEF IInv, Fits
<1>1. CASE backupObserve
  <2>1. op'.pc \in {"snapshot.writers", "done", "update.resume"}
    BY <1>0, <1>1, GoesTo DEF backupObserve, Observe, Operations
  <2> QED
    BY <1>1, <2>1 DEF backupObserve, Sooner, Left, Labels
<1>2. CASE backupCopy
  <2>1. op'.pc \in {"backup.copying", "done", "update.resume"}
    BY <1>0, <1>2, GoesTo DEF backupCopy, Observe, Operations
  <2> QED
    BY <1>2, <2>1 DEF backupCopy, Sooner, Left, Labels
<1>3. CASE backupCopying
  <2>1. op'.pc \in {"backup.recheck", "done", "update.resume"}
    BY <1>0, <1>3, GoesTo DEF backupCopying, Observe, Operations
  <2> QED
    BY <1>3, <2>1 DEF backupCopying, Sooner, Left, Labels
<1>4. CASE backupRecheck
  <2>1. op'.pc \in {"backup.publish", "done", "update.resume"}
    BY <1>0, <1>4, GoesTo DEF backupRecheck, Observe
  <2> QED
    BY <1>4, <2>1 DEF backupRecheck, Sooner, Left, Labels
<1>5. CASE backupPublish
  <2>1. op.pc = "backup.publish"
    BY <1>5 DEF backupPublish
  <2>2. op' = At("backup.prune") \/ Faulty(backupFails)
    BY <1>5 DEF backupPublish, WriteFile
  <2>3. op'.pc \in {"backup.prune", "done", "update.resume"}
    BY <1>0, <2>2, GoesTo
  <2> QED
    BY <2>1, <2>3 DEF Sooner, Left, Labels
<1>6. CASE backupPrune
  <2>1. op' = backupReturns \/ Faulty(backupFails)
    BY <1>6 DEF backupPrune
  <2>2. op'.pc \in {"done", "image.remove", "start.observe", "update.resume"}
    <3>1. op' = backupReturns
            => op'.pc \in {"done", "image.remove", "start.observe"}
      BY <1>0 DEF backupReturns, Done, At, Operations
    <3>2. Faulty(backupFails) => op'.pc \in {"done", "update.resume"}
      BY <1>0 DEF backupFails, Faulty, Done, At, Operations
    <3> QED
      BY <2>1, <3>1, <3>2
  <2> QED
    BY <1>6, <2>2 DEF backupPrune, Sooner, Left, Labels
<1> QED
  BY <1>1, <1>2, <1>3, <1>4, <1>5, <1>6 DEF backup

\* A restore goes forward, or back through what it undoes.
LEMMA RestoreSooner ==
  ASSUME IInv, restore
  PROVE  Sooner
<1>0. op \in Operations
  BY DEF IInv, Fits
<1>1. CASE restoreRead
  <2>1. op'.pc \in {"snapshot.writers", "done"}
    BY <1>0, <1>1, GoesTo DEF restoreRead, Observe, Operations
  <2> QED
    BY <1>1, <2>1 DEF restoreRead, Sooner, Left, Labels
<1>2. CASE restoreVolume
  <2>1. op'.pc \in {"restore.extract", "done"}
    BY <1>0, <1>2, GoesTo DEF restoreVolume, Docker, Operations
  <2> QED
    BY <1>2, <2>1 DEF restoreVolume, Sooner, Left, Labels
<1>3. CASE restoreExtract
  <2>1. op'.pc \in {"restore.extracting", "restore.undoVolume"}
    BY <1>0, <1>3, GoesTo DEF restoreExtract, Docker
  <2> QED
    BY <1>3, <2>1 DEF restoreExtract, Sooner, Left, Labels
<1>4. CASE restoreExtracting
  <2>1. op'.pc \in {"restore.files", "restore.undoVolume"}
    BY <1>0, <1>4, GoesTo DEF restoreExtracting, Docker, Operations
  <2> QED
    BY <1>4, <2>1 DEF restoreExtracting, Sooner, Left, Labels
<1>5. CASE restoreFiles
  <2>1. op'.pc \in {"restore.remove", "restore.undoNetwork"}
    BY <1>0, <1>5, GoesTo DEF restoreFiles, Docker
  <2> QED
    BY <1>5, <2>1 DEF restoreFiles, Sooner, Left, Labels
<1>6. CASE restoreRemove
  <2>1. op'.pc \in {"restore.commit", "restore.undoNetwork"}
    BY <1>0, <1>6, GoesTo DEF restoreRemove, Docker, Observe
  <2> QED
    BY <1>6, <2>1 DEF restoreRemove, Sooner, Left, Labels
<1>7. CASE restoreCommit
  <2>1. op'.pc \in {"restore.cleanup", "restore.undoNetwork"}
    BY <1>0, <1>7, GoesTo DEF restoreCommit, WriteFile
  <2> QED
    BY <1>7, <2>1 DEF restoreCommit, Sooner, Left, Labels
<1>8. CASE restoreCleanup
  <2>1. op'.pc \in {"done"}
    BY <1>0, <1>8, GoesTo DEF restoreCleanup, Docker
  <2> QED
    BY <1>8, <2>1 DEF restoreCleanup, Sooner, Left, Labels
<1>9. CASE restoreUndoNetwork
  <2>1. op'.pc \in {"restore.undoVolume"}
    BY <1>0, <1>9, GoesTo DEF restoreUndoNetwork, WriteFile, Faulty, At,
       Operations
  <2> QED
    BY <1>9, <2>1 DEF restoreUndoNetwork, Sooner, Left, Labels
<1>10. CASE restoreUndoVolume
  <2>1. op'.pc \in {"done"}
    BY <1>0, <1>10, GoesTo DEF restoreUndoVolume, Docker
  <2> QED
    BY <1>10, <2>1 DEF restoreUndoVolume, Sooner, Left, Labels
<1> QED
  BY <1>1, <1>2, <1>3, <1>4, <1>5, <1>6, <1>7, <1>8, <1>9, <1>10 DEF restore

\* An update backs up, replaces, starts and checks, or gives the session back.
LEMMA UpdateSooner ==
  ASSUME IInv, update
  PROVE  Sooner
<1>0. op \in Operations
  BY DEF IInv, Fits
<1>1. CASE imageObserve
  <2>1. op'.pc \in {"image.resolve", "done"}
    BY <1>0, <1>1, GoesTo DEF imageObserve, Observe, Operations
  <2> QED
    BY <1>1, <2>1 DEF imageObserve, Sooner, Left, Labels
<1>2. CASE imageResolve
  <2>1. op'.pc \in {"backup.observe", "update.fail"}
    BY <1>0, <1>2, GoesTo DEF imageResolve, Operations
  <2> QED
    BY <1>2, <2>1 DEF imageResolve, Sooner, Left, Labels
<1>3. CASE imageRemove
  <2>1. op'.pc \in {"image.save", "update.resume"}
    BY <1>0, <1>3, GoesTo DEF imageRemove, Docker, Observe
  <2> QED
    BY <1>3, <2>1 DEF imageRemove, Sooner, Left, Labels
<1>4. CASE imageSave
  <2>1. op'.pc \in {"start.observe", "update.fail"}
    BY <1>0, <1>4, GoesTo DEF imageSave, WriteFile, Faulty, At, Operations
  <2> QED
    BY <1>4, <2>1 DEF imageSave, Sooner, Left, Labels
<1>5. CASE imagePackages
  <2>1. op'.pc \in {"image.verify", "update.fail"}
    BY <1>0, <1>5, GoesTo DEF imagePackages, imageChecks, Observe
  <2> QED
    BY <1>5, <2>1 DEF imagePackages, imageChecks, Sooner, Left, Labels
<1>6. CASE imageVerify
  <2>1. op'.pc \in {"update.finish", "update.fail"}
    BY <1>0, <1>6, GoesTo DEF imageVerify, imageChecks, Observe
  <2> QED
    BY <1>6, <2>1 DEF imageVerify, imageChecks, Sooner, Left, Labels
<1>7. CASE appsObserve
  <2>1. op'.pc \in {"backup.observe", "done"}
    BY <1>0, <1>7, GoesTo DEF appsObserve, Observe, Operations
  <2> QED
    BY <1>7, <2>1 DEF appsObserve, Sooner, Left, Labels
<1>8. CASE appsUpdate
  <2>1. op'.pc \in {"update.finish", "update.fail"}
    BY <1>0, <1>8, GoesTo DEF appsUpdate, Docker
  <2> QED
    BY <1>8, <2>1 DEF appsUpdate, Sooner, Left, Labels
<1>9. CASE updateResume
  <2>1. op'.pc \in {"update.fail"}
    BY <1>0, <1>9, GoesTo DEF updateResume, Docker, Faulty, At, Operations
  <2> QED
    BY <1>9, <2>1 DEF updateResume, Sooner, Left, Labels
<1>10. CASE updateFinish
  <2>1. op'.pc \in {"done"}
    BY <1>0, <1>10, GoesTo DEF updateFinish, Observe
  <2> QED
    BY <1>10, <2>1 DEF updateFinish, Sooner, Left, Labels
<1>11. CASE updateFail
  <2>1. op.pc = "update.fail" /\ op'.pc = "done"
    BY <1>0, <1>11 DEF updateFail, Done, Operations
  <2> QED
    BY <2>1 DEF Sooner, Left, Labels
<1> QED
  BY <1>1, <1>2, <1>3, <1>4, <1>5, <1>6, <1>7, <1>8, <1>9, <1>10,
     <1>11 DEF update

\* What happens around a command does not move it.
LEMMA AroundStays ==
  ASSUME op \in Operations, Around
  PROVE  op'.pc = op.pc
<1>1. CASE UserSaves \/ HomeLost \/ WriterStarts \/ WriterSaves
           \/ WriterStops \/ \E i \in Images : TagMoves(i)
  BY <1>1 DEF UserSaves, HomeLost, WriterStarts, WriterSaves, WriterStops,
     TagMoves
<1>2. CASE Disturb
  BY <1>2 DEF Disturb, Operations
<1> QED
  BY <1>1, <1>2 DEF Around, DesktopExits, ContainerLost, ImageRemoved

\* main.go 509-647, backup.go 99-174 and 465-600, image_updates.go 30-167,
\* updates.go 20-63.  No command goes back to a label it has left: it takes at
\* most 24 steps, whatever fails, and what happens around it does not lengthen
\* it.  As the call or the polling of each step has a deadline, the operation
\* lock is let go.
THEOREM CommandsAreBounded ==
  Spec => [][/\ Step => Left[op'.pc] < Left[op.pc]
             /\ Around => op'.pc = op.pc]_vars
<1> DEFINE A == /\ Step => Left[op'.pc] < Left[op.pc]
                /\ Around => op'.pc = op.pc
<1>1. IInv => op \in Operations
  BY DEF IInv, Fits
<1>2. IInv /\ [Next]_vars => [A]_vars
  BY <1>1, StartSooner, PlainSooner, StopSooner, BackupSooner, RestoreSooner,
     UpdateSooner, AroundStays DEF Step, Sooner
<1> HIDE DEF A
<1>3. Spec => [][A]_vars
  BY <1>2, Invariant, PTL DEF Spec
<1> QED
  BY <1>3 DEF A
=============================================================================
