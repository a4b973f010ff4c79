-------------------------- MODULE PackageInventory --------------------------
(***************************************************************************)
(* workstation-packages: the record of the packages a user added to the    *)
(* image, kept in the personal volume.  A hook captures it after every     *)
(* pacman transaction, while pacman still holds its own lock; so do the    *)
(* container's start, a registration of a build source and the end of a    *)
(* restoration, which reinstalls what is recorded in a container that was  *)
(* made anew.  The container can be stopped at any moment.                 *)
(*                                                                         *)
(* X_... is a definition X with a seeded fault; no action uses it.         *)
(***************************************************************************)
EXTENDS Naturals

CONSTANTS
    Names,          \* extra packages
    Needs,          \* extras that each of them depends on
    Foreign,        \* those that are built from a source
    MaxChanges,     \* bound: transactions of the user
    None            \* not installed, not recorded, no one

Reasons == {"explicit", "dependency"}
Holders == {"hook", "restore", "register", "boot"}
Actors  == {"user", "restore", "register"}
Holdings == [Names -> Reasons \cup {None}]
Nothing  == [n \in Names |-> None]

ASSUME InventoryAssumption ==
    /\ Needs \in [Names -> SUBSET Names] /\ Foreign \subseteq Names
    /\ MaxChanges \in Nat /\ None \notin Reasons \cup Holders \cup Actors

VARIABLES
    installed,  \* pacman's database: how each package was installed
    extras,     \* the record: the reason of each extra
    sources,    \* extras recorded with a build source
    pending,    \* restoringReasons of the record
    lock,       \* who holds packages.lock
    seen,       \* what the holder found installed
    db,         \* the transaction whose hook has not ended, or none
    box,        \* the container: off, starting, ready
    restore,    \* the restoration
    register,   \* the registration
    changes,    \* transactions the user made
    fresh,      \* history: the record was captured since the start
    intent,     \* history: how the user, or pacman for him, wants each extra
    excused     \* history: extras whose last change nobody could record

record  == <<extras, sources, pending>>
history == <<changes, fresh, intent, excused>>
vars    == <<installed, record, lock, seen, db, box, restore, register, history>>

NoTransaction == [by |-> None, targets |-> {}]
Restorations == [pc : {"idle", "save", "upgrade", "next", "explicit",
                       "dependency", "complete"},
                 desired : Holdings, sources : SUBSET Names,
                 left : SUBSET Names]
NoRestoration == [pc |-> "idle", desired |-> Nothing, sources |-> {},
                  left |-> {}]
Registrations == [pc : {"idle", "capture", "evaluate", "evaluated", "write"},
                  name : Names \cup {None}]
NoRegistration == [pc |-> "idle", name |-> None]

Init ==
    /\ installed = Nothing /\ extras = Nothing /\ sources = {}
    /\ pending = Nothing /\ lock = None /\ seen = {} /\ db = NoTransaction
    /\ box = "off" /\ restore = NoRestoration /\ register = NoRegistration
    /\ changes = 0 /\ fresh = FALSE /\ intent = Nothing /\ excused = {}

\* What the record says of n: a restoration's intent that was not completed
\* comes before the reason captured last.
recorded(n) == IF extras[n] # None /\ pending[n] # None THEN pending[n]
                                                        ELSE extras[n]

In(holding) == {n \in Names : holding[n] # None}
tasks == <<box, restore, register>>

(***************************************************************************)
(* A capture asks pacman twice under the lock, then replaces the record.   *)
(***************************************************************************)
Query(holder) ==
    /\ lock = None /\ lock' = holder /\ seen' = In(installed)

reasonOf(n) == IF installed[n] = "explicit" THEN "explicit" ELSE "dependency"
captured_installedOnly(n, gone, reasons) ==
    CASE n \in seen -> IF reasons[n] # None THEN reasons[n] ELSE reasonOf(n)
      [] OTHER      -> None
captured_pacmanReason(n, gone, reasons) ==
    CASE n \in seen        -> reasonOf(n)
      [] n \in gone \ seen -> None
      [] OTHER             -> extras[n]
captured_foreignOnly(n, gone, reasons) ==
    CASE n \in seen \cap Foreign -> reasonOf(n)
      [] n \in gone \ seen       -> None
      [] OTHER                   -> extras[n]
\* What the record says of n after a capture that found "seen" and removes
\* "gone"; "reasons" is the intent of a restoration that has not completed.
captured(n, gone, reasons) ==
    CASE n \in seen -> IF reasons[n] # None THEN reasons[n] ELSE reasonOf(n)
      [] n \in gone \ seen -> None
      [] OTHER             -> extras[n]

Save(holder, transaction, reasons) ==
    /\ lock = holder /\ lock' = None /\ seen' = {}
    /\ extras' = [n \in Names |-> captured(n, transaction, reasons)]
    /\ sources' = sources \ {n \in Names : extras'[n] = None}
    /\ pending' = reasons
    /\ fresh' = TRUE

\* A query or the write fails, and the lock is let go.
CaptureFails(holder) ==
    /\ lock = holder /\ lock' = None /\ seen' = {}
    /\ UNCHANGED record

(***************************************************************************)
(* A pacman transaction, and its hook.                                     *)
(***************************************************************************)
Transact(by, after) ==
    /\ db.by = None /\ installed' = after
    /\ db' = [by |-> by,
              targets |-> {n \in Names : after[n] # installed[n]}]

\* Installing n brings in what it needs.
with(n, reason) ==
    [m \in Names |-> CASE m = n /\ installed[n] = None -> reason
                       [] m \in Needs[n] \ {n} /\ installed[m] = None
                                                       -> "dependency"
                       [] OTHER                        -> installed[m]]

\* What nobody will know of the transaction when its hook does not end.
unrecorded == {n \in db.targets : db.by = "user" \/ pending[n] = None}

hookQuery ==
    /\ db.by # None /\ Query("hook")
    /\ UNCHANGED <<installed, record, db, tasks, history>>
hookSave ==
    /\ Save("hook", db.targets, pending) /\ db' = NoTransaction
    /\ UNCHANGED <<installed, tasks, changes, intent, excused>>
\* pacman does not mind that the hook fails.
hookFails ==
    /\ CaptureFails("hook") /\ db' = NoTransaction
    /\ excused' = excused \cup unrecorded
    /\ fresh' = FALSE
    /\ UNCHANGED <<installed, tasks, changes, intent>>

\* The user's own transaction.  What a restoration still intends for a
\* package outlives the user's change of it.
Change(after) ==
    LET touched == {n \in Names : after[n] # installed[n]}
        kept    == {n \in touched : pending[n] # None}
    IN  /\ box = "ready" /\ changes < MaxChanges
        /\ Transact("user", after)
        /\ changes' = changes + 1
        /\ intent' = [n \in Names |-> IF n \in touched THEN after[n]
                                                       ELSE intent[n]]
        /\ excused' = (excused \ touched) \cup kept
        /\ UNCHANGED <<record, lock, seen, tasks, fresh>>
userInstalls == \E n \in Names, reason \in Reasons :
    installed[n] = None /\ Change(with(n, reason))
userRemoves == \E n \in In(installed) :
    /\ \A m \in In(installed) \ {n} : n \notin Needs[m]
    /\ Change([installed EXCEPT ![n] = None])

(***************************************************************************)
(* Restoration.                                                            *)
(***************************************************************************)
Step(label)  == restore' = [restore EXCEPT !.pc = label]
others       == <<box, register, changes, fresh, excused>>

restoreBegins ==
    /\ box = "ready" /\ restore.pc = "idle" /\ Step("save")
    /\ UNCHANGED <<installed, record, lock, seen, db, intent, others>>

desired == [n \in Names |-> recorded(n)]
restoreSaves ==
    /\ restore.pc = "save" /\ lock = None
    /\ pending' = desired
    /\ restore' = [pc |-> "upgrade", desired |-> desired,
                   sources |-> sources, left |-> In(desired)]
    /\ excused' = excused \cup {n \in db.targets : db.by = "user"}
    /\ UNCHANGED <<installed, extras, sources, lock, seen, db, intent, box,
                   register, changes, fresh>>

\* Any error up to the completed capture ends the restoration.
restoreFails ==
    /\ restore.pc # "idle" /\ db.by # "restore" /\ restore' = NoRestoration
    /\ IF lock = "restore" THEN CaptureFails("restore")
                           ELSE UNCHANGED <<record, lock, seen>>
    /\ UNCHANGED <<installed, db, intent, others>>

\* pacman -Syu: a transaction of its own when there is something to upgrade.
restoreUpgrades ==
    /\ restore.pc = "upgrade" /\ Step("next")
    /\ Transact("restore", installed) \/ UNCHANGED <<installed, db>>
    /\ UNCHANGED <<record, lock, seen, intent, others>>

\* One extra: an official package is installed when it is absent, a foreign
\* one built again when its source is known; a failure is only reported.
Handled(n) == restore' = [restore EXCEPT !.left = @ \ {n}]
restoreInstalls == \E n \in restore.left :
    LET reason == IF n \in Foreign THEN "explicit" ELSE restore.desired[n]
        wanted == IF n \in Foreign THEN n \in restore.sources
                                   ELSE installed[n] = None
    IN  /\ restore.pc = "next" /\ db.by # "restore" /\ Handled(n)
        /\ \/ /\ wanted /\ Transact("restore", with(n, reason))
              /\ intent' = [m \in Names |-> IF intent[m] = None
                                            THEN installed'[m] ELSE intent[m]]
           \/ UNCHANGED <<installed, db, intent>>
        /\ UNCHANGED <<record, lock, seen, others>>
restoreInstalled ==
    /\ restore.pc = "next" /\ restore.left = {} /\ db.by # "restore"
    /\ Step("explicit")
    /\ UNCHANGED <<installed, record, lock, seen, db, intent, others>>

restoreMarks_omitted(reason, next) ==
    /\ restore.pc = reason /\ db.by = None /\ Step(next)
    /\ UNCHANGED <<installed, record, lock, seen, db, intent, others>>
\* pacman -D, which runs no hook.
restoreMarks(reason, next) ==
    /\ restore.pc = reason /\ db.by = None /\ Step(next)
    /\ installed' = [n \in Names |-> IF /\ restore.desired[n] = reason
                                        /\ installed[n] # None
                                     THEN reason ELSE installed[n]]
    /\ UNCHANGED <<record, lock, seen, db, intent, others>>

restoreQuery ==
    /\ restore.pc = "complete" /\ Query("restore")
    /\ UNCHANGED <<installed, record, db, intent, restore, others>>
\* The completed capture drops the intent and records pacman's reasons.
restoreCompletes ==
    /\ restore.pc = "complete" /\ Save("restore", {}, Nothing)
    /\ restore' = NoRestoration
    /\ UNCHANGED <<installed, db, box, register, changes, intent, excused>>

(***************************************************************************)
(* Registration of a build source.                                         *)
(***************************************************************************)
registerFrom(label) == register.pc = label
registerTo(label)   == register' = [register EXCEPT !.pc = label]
foreignExtras       == Foreign \cap In(extras)
registerBegins == \E n \in Names :
    /\ box = "ready" /\ registerFrom("idle")
    /\ register' = [pc |-> "capture", name |-> n]
    /\ UNCHANGED <<installed, record, lock, seen, db, box, restore, history>>
registerQuery ==
    /\ registerFrom("capture") /\ Query("register")
    /\ UNCHANGED <<installed, record, db, tasks, history>>
registerFails ==
    /\ registerFrom("capture") /\ CaptureFails("register")
    /\ register' = NoRegistration
    /\ UNCHANGED <<installed, db, box, restore, history>>
registerSave ==
    /\ registerFrom("capture") /\ Save("register", {}, pending)
    /\ IF register.name \in foreignExtras'
       THEN registerTo("evaluate") ELSE register' = NoRegistration
    /\ UNCHANGED <<installed, db, box, restore, changes, intent, excused>>
registerEvaluates_locked ==
    /\ registerFrom("evaluate") /\ registerTo("evaluated")
    /\ lock = None /\ lock' = "register"
    /\ Transact("register", installed) \/ UNCHANGED <<installed, db>>
    /\ UNCHANGED <<record, seen, box, restore, history>>
\* The recipe is evaluated without the lock: it can run package commands.
registerEvaluates ==
    /\ registerFrom("evaluate") /\ registerTo("evaluated")
    /\ Transact("register", installed) \/ UNCHANGED <<installed, db>>
    /\ UNCHANGED <<record, lock, seen, box, restore, history>>
registerEvaluated ==
    /\ registerFrom("evaluated") /\ db.by # "register" /\ registerTo("write")
    /\ UNCHANGED <<installed, record, lock, seen, db, box, restore, history>>
registerWrites_unchecked ==
    /\ registerFrom("write") /\ lock = None /\ register' = NoRegistration
    /\ sources' = sources \cup {register.name}
    /\ UNCHANGED <<installed, extras, pending, lock, seen, db, box, restore,
                   history>>
\* The record is read again under the lock before the source is added.
registerWrites ==
    /\ registerFrom("write") /\ lock = None /\ register' = NoRegistration
    /\ sources' = sources \cup ({register.name} \cap foreignExtras)
    /\ UNCHANGED <<installed, extras, pending, lock, seen, db, box, restore,
                   history>>

(***************************************************************************)
(* The container.                                                          *)
(***************************************************************************)
boot ==
    /\ box = "off" /\ box' = "starting" /\ Query("boot")
    /\ UNCHANGED <<installed, record, db, restore, register, history>>
bootCapture ==
    /\ Save("boot", {}, pending) \/ (CaptureFails("boot") /\ UNCHANGED fresh)
    /\ box' = "ready"
    /\ UNCHANGED <<installed, db, restore, register, changes, intent, excused>>
halt ==
    /\ box # "off" /\ box' = "off"
    /\ lock' = None /\ seen' = {} /\ db' = NoTransaction
    /\ restore' = NoRestoration /\ register' = NoRegistration
    /\ fresh' = FALSE
    /\ excused' = excused \cup unrecorded
    /\ UNCHANGED <<installed, record, changes, intent>>
recreate ==
    /\ box = "off" /\ installed # Nothing /\ installed' = Nothing
    /\ UNCHANGED <<record, lock, seen, db, tasks, history>>

Restoring == \/ restoreBegins \/ restoreSaves \/ restoreFails
             \/ restoreUpgrades \/ restoreInstalls \/ restoreInstalled
             \/ restoreMarks("explicit", "dependency")
             \/ restoreMarks("dependency", "complete")
             \/ restoreQuery \/ restoreCompletes
Registering == \/ registerBegins \/ registerQuery \/ registerSave
               \/ registerFails \/ registerEvaluates \/ registerEvaluated
               \/ registerWrites
Hook == hookQuery \/ hookSave \/ hookFails
Next == \/ Hook \/ userInstalls \/ userRemoves \/ Restoring \/ Registering
        \/ boot \/ bootCapture \/ halt \/ recreate

\* A capture ends and lets the lock go, and the kernel hands a lock that is
\* let go again and again to the hook that waits for it.
Capture == registerSave \/ registerFails \/ restoreCompletes \/ bootCapture
Spec == Init /\ [][Next]_vars /\ SF_vars(Hook) /\ WF_vars(Capture)

-----------------------------------------------------------------------------
TypeOK ==
    /\ installed \in Holdings /\ extras \in Holdings /\ pending \in Holdings
    /\ intent \in Holdings /\ sources \subseteq In(extras)
    /\ lock \in Holders \cup {None}
    /\ seen \subseteq Names /\ excused \subseteq Names
    /\ db \in [by : Actors \cup {None}, targets : SUBSET Names]
    /\ box \in {"off", "starting", "ready"} /\ fresh \in BOOLEAN
    /\ restore \in Restorations /\ register \in Registrations
    /\ changes \in Nat

\* workstation-packages:129-149, 303-316 and 342-347.  Whatever a restoration
\* installs, marks, fails to or is killed in, and whatever a new container
\* lacks, the record keeps how the user wanted each extra.  The exceptions are
\* the changes no capture could see, and those made to an extra whose
\* restoration is not completed.
IntentKept ==
    \A n \in Names \ (excused \cup db.targets) : recorded(n) = intent[n]

\* workstation-packages:127-152.  Once a capture has worked since the container
\* was started, and no transaction awaits its hook, every installed extra is
\* recorded, however captures and transactions fell between one another.
InventoryComplete ==
    fresh /\ db.by = None => In(installed) \subseteq In(extras)

\* workstation-packages:138-142 and 233-242.  Neither a new container, nor a
\* restoration, nor two tasks writing at once lose a record or its build
\* source: only the hook of a transaction that removed the extra drops them.
RecordsKept ==
    [][\A n \in Names :
          (extras[n] # None /\ extras'[n] = None)
        \/ (n \in sources /\ n \notin sources')
            => n \in db.targets /\ installed[n] = None]_vars

\* workstation-packages:96-101 and 233-235.  There is no circle of waiting:
\* whoever holds the record's lock is capturing, and has no transaction of its
\* own whose hook would wait for that lock; the hook that holds it has one.
HolderIsFree ==
    /\ lock = "hook"     => db.by # None
    /\ lock = "restore"  => restore.pc = "complete" /\ db.by # "restore"
    /\ lock = "register" => register.pc = "capture" /\ db.by # "register"
    /\ lock = "boot"     => box = "starting" /\ db.by = None

\* workstation-packages:96-101 and 233-235.  The hook runs under pacman's lock
\* and waits for the record's: nobody keeps that one while a package command
\* runs, so every transaction ends.
TransactionsEnd == db.by # None ~> db.by = None
=============================================================================
