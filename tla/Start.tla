------------------------------- MODULE Start -------------------------------
(***************************************************************************)
(* start, stop and network.  start is also called by both updates, with    *)
(* the profile in op.p.                                                    *)
(*                                                                         *)
(* A definition named X_... is X with a seeded fault; no action uses it.   *)
(* PROJECT.json names the property that must notice each of them.          *)
(***************************************************************************)
EXTENDS Workstation

\* What follows a call of start that succeeded, or failed.
startReturns ==
    CASE op.cmd = "start"                               -> Done(TRUE)
      [] op.cmd = "update-image" /\ op.phase = "rollback" -> At("update.fail")
      [] op.cmd = "update-image" /\ op.phase # "rollback" -> At("image.packages")
      [] OTHER                                          -> At("apps.update")
startFails == IF op.cmd = "start" THEN Done(FALSE) ELSE At("update.fail")

afterObserve_notStarted(p, c) == IF c = None THEN "start.resolve"
                                             ELSE "start.await"
\* Where start goes once it has seen container c with profile p.
afterObserve(p, c) ==
    CASE c = None                     -> "start.resolve"
      [] c # None /\ p.image = None   -> "start.adopt"
      [] c # None /\ p.image # None /\ ~c.running -> "start.network"
      [] OTHER                        -> "start.await"

startObserve ==
    /\ op.pc = "start.observe"
    /\ Observe([op EXCEPT !.seen = container,
                          !.pc = afterObserve(op.p, container)], startFails)

\* An older profile adopts the image of the container that exists.
startAdopt ==
    /\ op.pc = "start.adopt"
    /\ LET p == [op.p EXCEPT !.image = op.seen.image] IN
       WriteFile(saveProfile(p),
                 [op EXCEPT !.p = p, !.pc = afterObserve(p, op.seen)],
                 startFails)

\* Without a container: the selected image must be here; the tag is resolved,
\* and downloaded when it names nothing, only while no image was selected.
startResolve ==
    LET reference == selectedImageReference(op.p, None)
        found(i)  == [op EXCEPT !.sel = i, !.pc = "start.select"]
        unknown   == op.p.image = None /\ home[op.p.home] # Absent
        download  == ~unknown /\ op.p.image = None /\ reference \notin local
    IN  /\ op.pc = "start.resolve"
        /\ \/ /\ reference \in local
              /\ Observe(found(reference), startFails)
           \/ /\ download
              /\ Docker(TRUE,
                        /\ local' = local \cup {registry}
                        /\ tag' = registry
                        /\ UNCHANGED <<profile, network, backups,
                                       container, home, applied, registry,
                                       writer, writes, truth>>,
                        found(registry), startFails)
           \/ /\ reference \notin local /\ ~download
              /\ UNCHANGED world /\ op' = startFails

startSelect_unsaved ==
    /\ op.pc = "start.select"
    /\ Observe([op EXCEPT !.p.image = op.sel, !.pc = "start.volume"],
               startFails)
\* The first selection is saved before personal storage is created.
startSelect ==
    /\ op.pc = "start.select"
    /\ LET p == [op.p EXCEPT !.image = op.sel] IN
       IF op.p.image = None
       THEN WriteFile(saveProfile(p),
                      [op EXCEPT !.p = p, !.pc = "start.volume"], startFails)
       ELSE Observe(At("start.volume"), startFails)

startVolume ==
    /\ op.pc = "start.volume"
    /\ IF home[op.p.home] # Absent
       THEN Observe(At("start.create"), startFails)
       ELSE Docker(TRUE,
                   /\ home' = [home EXCEPT ![op.p.home] = 0]
                   /\ applied' = [applied EXCEPT ![op.p.home] = None]
                   /\ truth' = IF truth = Absent THEN 0 ELSE truth
                   /\ UNCHANGED <<profile, network, backups,
                                  container, store, writer, writes>>,
                   At("start.create"), startFails)

startCreate ==
    /\ op.pc = "start.create"
    /\ Docker(op.p.image \in local,
              /\ container' = [image |-> op.p.image, home |-> op.p.home,
                               running |-> FALSE]
              /\ UNCHANGED <<profile, network, backups, home, applied,
                             store, writer, writes, truth>>,
              At("start.network"), startFails)

\* The host's network.json replaces the copy in the volume (docker cp).
syncNetwork ==
    /\ op.pc = "start.network"
    /\ Docker(container # None,
              /\ applied' = [applied EXCEPT ![container.home] = network]
              /\ UNCHANGED <<profile, network, backups, container,
                             home, store, writer, writes, truth>>,
              At("start.run"), startFails)

startRun ==
    /\ op.pc = "start.run"
    /\ Docker(container # None, startContainer, At("start.await"), startFails)

startAwait_keepsPolling ==
    op.pc = "start.await" /\ Running /\ Observe(startReturns, startFails)
\* Poll until the desktop is healthy; it may stop or never become healthy.
startAwait ==
    /\ op.pc = "start.await"
    /\ IF Running THEN Observe(startReturns, startFails)
                  ELSE UNCHANGED world /\ op' = startFails

start == \/ startObserve \/ startAdopt \/ startResolve \/ startSelect
         \/ startVolume \/ startCreate \/ syncNetwork \/ startRun \/ startAwait

stop ==
    /\ op.pc = "stop"
    /\ IF Running THEN Docker(TRUE, stopContainer, Done(TRUE), Done(FALSE))
                  ELSE Observe(Done(TRUE), Done(FALSE))

\* network --network-config and --clear
configureNetwork ==
    /\ op.pc = "network"
    /\ \E n \in Nets \cup {None} :
          WriteFile(saveNetwork(n), Done(TRUE), Done(FALSE))
=============================================================================
