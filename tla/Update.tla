------------------------------- MODULE Update -------------------------------
(***************************************************************************)
(* update-image and update-apps: a backup, then a change, then checks, with *)
(* a report of the attempt.  A report write that fails just before the     *)
(* next call is modelled as a failure of that call: both end the same way. *)
(***************************************************************************)
EXTENDS Workstation

(***************************************************************************)
(* update-image                                                            *)
(***************************************************************************)
imageObserve ==
    /\ op.pc = "image.observe"
    /\ Observe([op EXCEPT !.c = container, !.pc = "image.resolve"],
               Done(FALSE))

\* The requested tag is pulled, or used as it is here (--pull=false); image and
\* original must both be present and of one variant.
imageResolve ==
    /\ op.pc = "image.resolve"
    /\ \E pull \in BOOLEAN :
       LET candidate == IF pull THEN registry ELSE tag
           present   == IF pull THEN local \cup {registry} ELSE local
           original  == IF op.c = None /\ op.p.image = None
                           /\ home[op.p.home] = Absent
                        THEN candidate
                        ELSE selectedImageReference(op.p, op.c)
           accepted  == /\ {candidate, original} \subseteq present
                        /\ Variant[candidate] = Variant[original]
       IN  /\ \/ /\ local' = present
                 /\ tag' = candidate
                 /\ op' = IF accepted
                          THEN [op EXCEPT !.sel = candidate,
                                          !.pc = "backup.observe"]
                          ELSE At("update.fail")
              \/ /\ \/ local' = present /\ tag' = candidate
                    \/ UNCHANGED <<local, tag>>
                 /\ Faulty(At("update.fail"))
           /\ UNCHANGED <<profile, network, backups, container, home,
                          applied, registry, writer, writes, truth>>

imageRemove_omitted ==
    op.pc = "image.remove" /\ Observe(At("image.save"), At("update.resume"))
imageRemove ==
    /\ op.pc = "image.remove"
    /\ IF op.c # None
       THEN Docker(container # None /\ ~Running, removeContainer,
                   At("image.save"), At("update.resume"))
       ELSE Observe(At("image.save"), At("update.resume"))

imageSave_oldSelection ==
    /\ op.pc = "image.save"
    /\ WriteFile(saveProfile([op.p EXCEPT !.image = op.sel]),
                 [op EXCEPT !.phase = "after", !.pc = "start.observe"],
                 At("update.fail"))
\* Nothing is resumed when the container is gone: if it was running, it is
\* created again for the profile that is still the saved one.
imageSave ==
    /\ op.pc = "image.save"
    /\ LET selected == [op.p EXCEPT !.image = op.sel] IN
       WriteFile(saveProfile(selected),
                 [op EXCEPT !.p = selected, !.phase = "after",
                            !.pc = "start.observe"],
                 IF op.c # None /\ op.c.running
                 THEN [At("start.observe") EXCEPT !.phase = "rollback"]
                 ELSE At("update.fail"))

\* In the new container: extra packages are restored (leaving some out is not
\* a failure), then applications and provided components are executed.
imageChecks(label, next) ==
    /\ op.pc = label
    /\ IF Running
       THEN Observe(At(next), At("update.fail"))
       ELSE UNCHANGED world /\ op' = At("update.fail")
imagePackages == imageChecks("image.packages", "image.verify")
imageVerify   == imageChecks("image.verify", "update.finish")

(***************************************************************************)
(* update-apps                                                             *)
(***************************************************************************)
appsObserve ==
    /\ op.pc = "apps.observe"
    /\ IF Running
       THEN Observe([op EXCEPT !.c = container, !.pc = "backup.observe"],
                    Done(FALSE))
       ELSE UNCHANGED world /\ op' = Done(FALSE)

\* workstation-apps --update changes the personal volume, also when it fails.
appsUpdate ==
    /\ op.pc = "apps.update"
    /\ IF Running
       THEN Docker(TRUE, Save(container.home) \/ UNCHANGED world,
                   At("update.finish"), At("update.fail"))
       ELSE UNCHANGED world /\ op' = At("update.fail")

(***************************************************************************)
(* The end of both: resume the original container after a backup or a      *)
(* removal that failed, and report.                                        *)
(***************************************************************************)
updateResume_restart ==
    /\ op.pc = "update.resume"
    /\ IF op.cmd = "update-apps" \/ (op.c # None /\ op.c.running)
       THEN Docker(container # None,
                   /\ container' = [container EXCEPT !.running = TRUE]
                   /\ applied' = [applied EXCEPT ![container.home] = network]
                   /\ UNCHANGED <<profile, network, backups, home, store,
                                  writer, writes, truth>>,
                   At("update.fail"),
                   [At("update.fail") EXCEPT !.disturbed = TRUE])
       ELSE UNCHANGED world /\ op' = At("update.fail")
updateResume ==
    /\ op.pc = "update.resume"
    /\ IF op.cmd = "update-apps" \/ (op.c # None /\ op.c.running)
       THEN Docker(container # None, startContainer, At("update.fail"),
                   [At("update.fail") EXCEPT !.disturbed = TRUE])
       ELSE UNCHANGED world /\ op' = At("update.fail")

\* The last report write; the report itself is in module UpdateJournal.
updateFinish == op.pc = "update.finish" /\ Observe(Done(TRUE), Done(FALSE))
updateFail   == op.pc = "update.fail" /\ UNCHANGED world /\ op' = Done(FALSE)

update == \/ imageObserve \/ imageResolve \/ imageRemove \/ imageSave
          \/ imagePackages \/ imageVerify \/ appsObserve \/ appsUpdate
          \/ updateResume \/ updateFinish \/ updateFail
=============================================================================
