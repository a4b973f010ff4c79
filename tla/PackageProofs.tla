---------------------------- MODULE PackageProofs ----------------------------
(***************************************************************************)
(* For any packages, dependencies and bounds: the record keeps how the     *)
(* user wants each extra, misses no installed one, and is shortened by the *)
(* hook of a removal only.                                                 *)
(***************************************************************************)
EXTENDS PackageInventory, TLAPS

\* The steps of a restoration once it has saved what it intends.
After == {"upgrade", "next", "explicit", "dependency", "complete"}

\* What is known of one extra.  The first conjunct is history; the others, of
\* an extra that is not excused: a restoration's intent is the user's and is
\* recorded; without one pacman's reason is the user's; the user's transaction
\* leaves what he wants; the record follows; and what a restoration has done.
Consistent(n) ==
    /\ installed[n] # None => intent[n] # None
    /\ n \notin excused =>
        /\ pending[n] # None => extras[n] = pending[n] /\ intent[n] = pending[n]
        /\ pending[n] = None /\ installed[n] # None => installed[n] = intent[n]
        /\ n \in db.targets /\ db.by = "user" =>
               pending[n] = None /\ intent[n] = installed[n]
        /\ n \notin db.targets => extras[n] = intent[n]
        /\ restore.pc \in After /\ pending[n] = None /\ intent[n] # None =>
               installed[n] # None
        /\ restore.pc \in {"dependency", "complete"} /\ pending[n] = "explicit" =>
               installed[n] \in {None, "explicit"}
        /\ restore.pc = "complete" /\ pending[n] = "dependency" =>
               installed[n] \in {None, "dependency"}

\* Only the user removes packages, and the restoration waits for its hooks.
Transactions ==
    /\ db.by \in {None, "register"} => db.targets = {}
    /\ db.by = "restore" => restore.pc = "next" /\ db.targets \subseteq In(installed)
    /\ box # "ready" => db.by = None /\ restore.pc = "idle" /\ register.pc = "idle"
    /\ box = "off" => lock = None

\* Whoever holds the lock found all that is installed, but for a transaction
\* whose hook waits.
Capturing ==
    /\ lock = "hook" => db.by # None /\ seen = In(installed)
    /\ lock # None => /\ In(installed) \ seen \subseteq db.targets
                      /\ seen \ In(installed) \subseteq db.targets

Restoration ==
    restore.pc \in After =>
        pending = restore.desired /\ restore.left \subseteq In(restore.desired)
Complete == fresh => In(installed) \ db.targets \subseteq In(extras)

\* The inductive invariant.
PackagesInv ==
    /\ TypeOK /\ (\A n \in Names : Consistent(n))
    /\ Transactions /\ Capturing /\ Restoration /\ Complete

LEMMA Types ==
  ASSUME TypeOK
  PROVE  /\ \A n \in Names : /\ installed[n] \in Reasons \cup {None}
                             /\ extras[n] \in Reasons \cup {None}
                             /\ pending[n] \in Reasons \cup {None}
                             /\ intent[n] \in Reasons \cup {None}
                             /\ restore.desired[n] \in Reasons \cup {None}
         /\ db.by \in Actors \cup {None} /\ db.targets \subseteq Names
         /\ restore.desired \in Holdings /\ restore.left \subseteq Names
         /\ restore.sources \subseteq Names /\ restore \in Restorations
  BY DEF TypeOK, Holdings, Restorations

LEMMA Initially == Init => PackagesInv
  <1> SUFFICES ASSUME Init PROVE PackagesInv
    OBVIOUS
  <1>1. Nothing \in Holdings /\ \A n \in Names : Nothing[n] = None
    BY DEF Nothing, Holdings
  <1>2. NoRestoration \in Restorations /\ NoRegistration \in Registrations
    BY <1>1 DEF NoRestoration, Restorations, NoRegistration, Registrations
  <1>3. TypeOK
    BY <1>1, <1>2, InventoryAssumption DEF Init, TypeOK, NoTransaction, In
  <1>4. \A n \in Names : Consistent(n)
    BY <1>1 DEF Init, Consistent, NoRestoration, After
  <1> QED
    BY <1>3, <1>4, InventoryAssumption
       DEF Init, PackagesInv, Transactions, Capturing, Restoration, Complete, NoTransaction,
           NoRestoration, NoRegistration, After, Holders

\* What a capture writes.
LEMMA Captured ==
  ASSUME TypeOK, NEW holder, NEW gone \in SUBSET Names, NEW reasons \in Holdings,
         Save(holder, gone, reasons)
  PROVE  /\ lock = holder /\ lock' = None /\ seen' = {} /\ fresh' = TRUE /\ pending' = reasons
         /\ extras' \in Holdings /\ sources' \subseteq In(extras')
         /\ \A n \in seen : /\ extras'[n] # None
                            /\ reasons[n] # None => extras'[n] = reasons[n]
                            /\ reasons[n] = None /\ installed[n] # None =>
                                   extras'[n] = installed[n]
         /\ \A n \in gone \ seen : extras'[n] = None
         /\ \A n \in Names \ (gone \cup seen) : extras'[n] = extras[n]
         /\ \A n \in Names : n \in sources /\ n \notin sources' => extras'[n] = None
  <1>1. /\ lock = holder /\ lock' = None /\ seen' = {} /\ fresh' = TRUE /\ pending' = reasons
        /\ extras' = [n \in Names |-> captured(n, gone, reasons)]
        /\ sources' = sources \ {n \in Names : extras'[n] = None}
    BY DEF Save
  <1>2. seen \subseteq Names /\ sources \subseteq Names
    BY DEF TypeOK, In
  <1>3. \A n \in Names : reasonOf(n) \in Reasons /\ reasons[n] \in Reasons \cup {None}
    BY DEF reasonOf, Reasons, Holdings
  <1>4. \A n \in Names : installed[n] # None => reasonOf(n) = installed[n]
    BY Types DEF reasonOf, Reasons
  <1>5. \A n \in Names : extras'[n] = captured(n, gone, reasons)
    BY <1>1
  <1>6. ASSUME NEW n \in Names
        PROVE  /\ n \in seen => captured(n, gone, reasons) =
                      IF reasons[n] # None THEN reasons[n] ELSE reasonOf(n)
               /\ n \in gone \ seen => captured(n, gone, reasons) = None
               /\ n \notin gone \cup seen => captured(n, gone, reasons) = extras[n]
    BY DEF captured
  <1>7. \A n \in Names : captured(n, gone, reasons) \in Reasons \cup {None}
    BY <1>3, <1>6, Types
  <1>8. extras' \in Holdings
    BY <1>1, <1>7 DEF Holdings
  <1>9. sources' \subseteq In(extras')
    BY <1>1, <1>2 DEF In
  <1>10. \A n \in seen : /\ extras'[n] # None
                         /\ reasons[n] # None => extras'[n] = reasons[n]
                         /\ reasons[n] = None /\ installed[n] # None =>
                                extras'[n] = installed[n]
    BY <1>2, <1>3, <1>4, <1>5, <1>6, InventoryAssumption
  <1> QED
    BY <1>1, <1>2, <1>5, <1>6, <1>8, <1>9, <1>10

\* Whoever begins a capture finds all that is installed.
LEMMA Queried ==
  ASSUME PackagesInv, lock = None, lock' \in Holders, seen' = In(installed),
         lock' = "hook" => db.by # None,
         UNCHANGED <<installed, extras, sources, pending, db, restore, register, changes,
                     fresh, intent, excused>>,
         (box' = box /\ box # "off") \/ (box = "off" /\ box' = "starting")
  PROVE  PackagesInv'
  <1>2. TypeOK'
    BY DEF PackagesInv, TypeOK, In
  <1>3. \A n \in Names : Consistent(n)'
    BY DEF PackagesInv, Consistent
  <1>4. Transactions' /\ Restoration' /\ Complete'
    BY DEF PackagesInv, Transactions, Restoration, Complete, In
  <1>5. Capturing'
    BY InventoryAssumption DEF PackagesInv, Capturing, In
  <1> QED
    BY <1>2, <1>3, <1>4, <1>5 DEF PackagesInv

\* A capture that ends a start or begins a registration.
LEMMA Saved ==
  ASSUME PackagesInv, NEW holder \in Holders, Save(holder, {}, pending), holder # "hook",
         UNCHANGED <<installed, db, restore, intent, excused, changes>>,
         register' \in Registrations, box' = "ready"
  PROVE  PackagesInv'
  <1>1. TypeOK /\ pending \in Holdings
    BY DEF PackagesInv, TypeOK
  <1>2. /\ lock = holder /\ lock' = None /\ seen' = {} /\ fresh' = TRUE /\ pending' = pending
        /\ extras' \in Holdings /\ sources' \subseteq In(extras')
        /\ \A n \in seen : /\ extras'[n] # None
                           /\ pending[n] # None => extras'[n] = pending[n]
                           /\ pending[n] = None /\ installed[n] # None =>
                                  extras'[n] = installed[n]
        /\ \A n \in Names \ seen : extras'[n] = extras[n]
    BY <1>1, Captured
  <1>4. In(installed) \ seen \subseteq db.targets /\ seen \ In(installed) \subseteq db.targets
    BY <1>2, InventoryAssumption DEF PackagesInv, Capturing
  <1>5. TypeOK'
    BY <1>1, <1>2 DEF TypeOK, In
  <1>6. \A n \in Names : Consistent(n)'
    <2> SUFFICES ASSUME NEW n \in Names PROVE Consistent(n)'
      OBVIOUS
    <2>1. n \in seen /\ n \notin db.targets => installed[n] # None
      BY <1>4 DEF In
    <2> QED
      BY <1>2, <2>1 DEF PackagesInv, Consistent
  <1>7. Transactions' /\ Restoration'
    BY <1>2 DEF PackagesInv, Transactions, Restoration, In
  <1>8. Capturing' /\ Complete'
    BY <1>1, <1>2, <1>4, InventoryAssumption DEF TypeOK, Capturing, Complete, In, Holders
  <1> QED
    BY <1>5, <1>6, <1>7, <1>8 DEF PackagesInv

\* The hook of a transaction: what it removed leaves the record, what it
\* installed enters it.
LEMMA HookSteps == PackagesInv /\ Hook => PackagesInv'
  <1> SUFFICES ASSUME PackagesInv, Hook PROVE PackagesInv'
    OBVIOUS
  <1>1. /\ TypeOK /\ pending \in Holdings /\ db.targets \in SUBSET Names
        /\ \A n \in Names : Consistent(n)
        /\ db.by \in Actors \cup {None}
    BY Types DEF PackagesInv, TypeOK
  <1>2. CASE hookQuery
    <2>1. /\ db.by # None /\ lock = None /\ lock' = "hook" /\ lock' \in Holders
          /\ seen' = In(installed)
          /\ UNCHANGED <<installed, extras, sources, pending, db, restore, register, changes,
                         fresh, intent, excused>>
          /\ box' = box
      BY <1>2 DEF hookQuery, Query, record, tasks, history, Holders
    <2>2. box # "off"
      BY <2>1 DEF PackagesInv, Transactions
    <2> QED
      BY <2>1, <2>2, Queried
  <1>3. CASE hookSave \/ hookFails
    <2>1. lock = "hook" /\ db' = NoTransaction /\ lock' = None /\ seen' = {}
          /\ UNCHANGED <<installed, pending, box, restore, register, changes, intent>>
      BY <1>3 DEF hookSave, hookFails, Save, CaptureFails, tasks, record
    <2>2. /\ db.by # None /\ seen = In(installed) /\ box = "ready"
      BY <2>1, <1>1, InventoryAssumption DEF PackagesInv, Capturing, Transactions
    <2>3. Transactions' /\ Capturing' /\ Restoration'
      BY <2>1, <2>2, InventoryAssumption
         DEF PackagesInv, Transactions, Capturing, Restoration, NoTransaction, In, Holders, Actors
    <2>4. CASE hookSave
      <3>1. /\ fresh' = TRUE /\ extras' \in Holdings /\ sources' \subseteq In(extras')
            /\ \A n \in seen : /\ extras'[n] # None
                               /\ pending[n] # None => extras'[n] = pending[n]
                               /\ pending[n] = None /\ installed[n] # None =>
                                      extras'[n] = installed[n]
            /\ \A n \in db.targets \ seen : extras'[n] = None
            /\ \A n \in Names \ (db.targets \cup seen) : extras'[n] = extras[n]
            /\ UNCHANGED excused
        BY <1>1, <2>4, Captured DEF hookSave
      <3>2. TypeOK'
        BY <1>1, <2>1, <3>1, InventoryAssumption DEF TypeOK, NoTransaction
      <3>3. \A n \in Names : Consistent(n)'
        <4> SUFFICES ASSUME NEW n \in Names PROVE Consistent(n)'
          OBVIOUS
        <4>1. n \in seen <=> installed[n] # None
          BY <2>2 DEF In
        <4>2. db'.targets = {} /\ db'.by = None
          BY <2>1 DEF NoTransaction
        <4>3. n \in db.targets /\ n \notin seen /\ n \notin excused =>
                  pending[n] = None /\ intent[n] = None
          BY <1>1, <2>2, <4>1, InventoryAssumption
             DEF PackagesInv, Transactions, Consistent, In, Actors
        <4> QED
          BY <1>1, <2>1, <3>1, <4>1, <4>2, <4>3, InventoryAssumption DEF Consistent, Actors
      <3>4. Complete'
        BY <2>1, <2>2, <3>1 DEF Complete, In
      <3> QED
        BY <2>3, <3>2, <3>3, <3>4 DEF PackagesInv
    <2>5. CASE hookFails
      <3>1. /\ UNCHANGED <<extras, sources>> /\ fresh' = FALSE
            /\ excused' = excused \cup unrecorded
        BY <2>5 DEF hookFails, CaptureFails, record
      <3>2. unrecorded \subseteq Names
        BY <1>1 DEF unrecorded
      <3>3. TypeOK'
        BY <1>1, <2>1, <3>1, <3>2, InventoryAssumption DEF TypeOK, NoTransaction
      <3>4. \A n \in Names : Consistent(n)'
        BY <1>1, <2>1, <3>1, InventoryAssumption
           DEF Consistent, unrecorded, NoTransaction, Actors
      <3> QED
        BY <2>3, <3>1, <3>3, <3>4 DEF PackagesInv, Complete
    <2> QED
      BY <1>3, <2>4, <2>5
  <1> QED
    BY <1>2, <1>3 DEF Hook

\* The user's own transactions.
LEMMA UserSteps == PackagesInv /\ (userInstalls \/ userRemoves) => PackagesInv'
  <1> SUFFICES ASSUME PackagesInv, userInstalls \/ userRemoves PROVE PackagesInv'
    OBVIOUS
  <1>1. TypeOK /\ \A n \in Names : Consistent(n)
    BY DEF PackagesInv
  <1>2. PICK after \in Holdings : Change(after)
    <2>1. ASSUME NEW n \in Names, NEW reason \in Reasons PROVE with(n, reason) \in Holdings
      BY <1>1, Types DEF with, Holdings, Reasons
    <2>2. \A n \in Names : [installed EXCEPT ![n] = None] \in Holdings
      BY <1>1 DEF TypeOK, Holdings
    <2> QED
      BY <2>1, <2>2 DEF userInstalls, userRemoves, In
  <1> DEFINE touched == {n \in Names : after[n] # installed[n]}
  <1>3. /\ box = "ready" /\ db.by = None /\ installed' = after
        /\ db' = [by |-> "user", targets |-> touched] /\ changes' = changes + 1
        /\ intent' = [n \in Names |-> IF n \in touched THEN after[n] ELSE intent[n]]
        /\ excused' = (excused \ touched) \cup {n \in touched : pending[n] # None}
        /\ UNCHANGED <<extras, sources, pending, lock, seen, box, restore, register, fresh>>
    BY <1>2 DEF Change, Transact, record, tasks
  <1>4. db.targets = {} /\ db'.by = "user" /\ db'.targets = touched
    BY <1>3 DEF PackagesInv, Transactions
  <1>5. \A n \in Names : /\ after[n] \in Reasons \cup {None}
                         /\ intent'[n] = IF n \in touched THEN after[n] ELSE intent[n]
    BY <1>2, <1>3 DEF Holdings
  <1>6. TypeOK'
    <2>1. intent' \in Holdings
      BY <1>1, <1>3, <1>5, Types DEF Holdings
    <2>2. db' \in [by : Actors \cup {None}, targets : SUBSET Names]
      BY <1>3 DEF Actors
    <2>3. excused' \subseteq Names
      BY <1>1, <1>3 DEF TypeOK
    <2> QED
      BY <1>1, <1>2, <1>3, <2>1, <2>2, <2>3 DEF TypeOK
  <1>7. \A n \in Names : Consistent(n)'
    <2> SUFFICES ASSUME NEW n \in Names PROVE Consistent(n)'
      OBVIOUS
    <2>1. CASE n \in touched
      <3>1. installed'[n] = after[n] /\ intent'[n] = after[n]
            /\ (n \in excused' <=> pending[n] # None) /\ n \in db'.targets
        BY <1>3, <1>4, <1>5, <2>1
      <3> QED
        BY <1>3, <3>1, InventoryAssumption DEF Consistent, Reasons
    <2>2. CASE n \notin touched
      <3>1. installed'[n] = installed[n] /\ intent'[n] = intent[n]
            /\ (n \in excused' <=> n \in excused)
        BY <1>3, <1>5, <2>2
      <3> QED
        BY <1>1, <1>3, <1>4, <2>2, <3>1 DEF Consistent
    <2> QED
      BY <2>1, <2>2
  <1>8. Transactions' /\ Restoration'
    BY <1>3, <1>4, InventoryAssumption DEF PackagesInv, Transactions, Restoration, Actors, In
  <1>9. Capturing' /\ Complete'
    BY <1>3, <1>4, InventoryAssumption DEF PackagesInv, Capturing, Complete, In
  <1> QED
    BY <1>6, <1>7, <1>8, <1>9 DEF PackagesInv

\* The container starts, stops and is made anew.
LEMMA BoxSteps == PackagesInv /\ (boot \/ bootCapture \/ halt \/ recreate) => PackagesInv'
  <1> SUFFICES ASSUME PackagesInv, boot \/ bootCapture \/ halt \/ recreate PROVE PackagesInv'
    OBVIOUS
  <1>1. /\ TypeOK /\ register \in Registrations /\ \A n \in Names : Consistent(n)
    BY DEF PackagesInv, TypeOK
  <1>2. CASE boot
    <2>1. /\ lock = None /\ lock' = "boot" /\ lock' \in Holders /\ seen' = In(installed)
          /\ UNCHANGED <<installed, extras, sources, pending, db, restore, register, changes,
                         fresh, intent, excused>>
          /\ box = "off" /\ box' = "starting"
      BY <1>2 DEF boot, Query, record, history, Holders
    <2> QED
      BY <2>1, Queried
  <1>3. CASE bootCapture
    <2>1. CASE Save("boot", {}, pending)
      BY <1>1, <1>3, <2>1, Saved DEF bootCapture, Holders
    <2>2. CASE CaptureFails("boot") /\ UNCHANGED fresh
      <3>1. /\ lock = "boot" /\ lock' = None /\ seen' = {} /\ box' = "ready"
            /\ UNCHANGED <<installed, extras, sources, pending, db, restore, register, changes,
                           fresh, intent, excused>>
        BY <1>3, <2>2 DEF bootCapture, CaptureFails, record
      <3>2. TypeOK'
        BY <1>1, <3>1 DEF TypeOK
      <3>3. \A n \in Names : Consistent(n)'
        BY <1>1, <3>1 DEF Consistent
      <3> QED
        BY <3>1, <3>2, <3>3, InventoryAssumption
           DEF PackagesInv, Transactions, Capturing, Restoration, Complete, In, Holders
    <2> QED
      BY <1>3, <2>1, <2>2 DEF bootCapture
  <1>4. CASE halt
    <2>1. /\ box' = "off" /\ lock' = None /\ seen' = {} /\ db' = NoTransaction
          /\ restore' = NoRestoration /\ register' = NoRegistration /\ fresh' = FALSE
          /\ excused' = excused \cup unrecorded
          /\ UNCHANGED <<installed, extras, sources, pending, changes, intent>>
      BY <1>4 DEF halt, record
    <2>2. unrecorded \subseteq Names
      BY <1>1, Types DEF unrecorded
    <2>3. NoRestoration \in Restorations /\ NoRegistration \in Registrations
      BY DEF NoRestoration, Restorations, NoRegistration, Registrations, Nothing, Holdings
    <2>4. TypeOK'
      BY <1>1, <2>1, <2>2, <2>3 DEF TypeOK, NoTransaction
    <2>5. db.by \in Actors \cup {None}
      BY <1>1, Types
    <2>6. \A n \in Names : Consistent(n)'
      BY <1>1, <2>1, <2>5, InventoryAssumption
         DEF PackagesInv, Transactions, Consistent, unrecorded, NoTransaction, NoRestoration,
             After, Actors
    <2> QED
      BY <2>1, <2>4, <2>6, InventoryAssumption
         DEF PackagesInv, Transactions, Capturing, Restoration, Complete, NoTransaction,
             NoRestoration, NoRegistration, After, Holders, Actors
  <1>5. CASE recreate
    <2>1. /\ box = "off" /\ installed' = Nothing
          /\ UNCHANGED <<extras, sources, pending, lock, seen, db, box, restore, register,
                         changes, fresh, intent, excused>>
      BY <1>5 DEF recreate, record, tasks, history
    <2>2. /\ lock = None /\ db.by = None /\ db.targets = {} /\ restore.pc = "idle"
      BY <2>1 DEF PackagesInv, Transactions
    <2>3. \A n \in Names : installed'[n] = None
      BY <2>1 DEF Nothing
    <2>4. In(installed)' = {} /\ installed' \in Holdings
      BY <2>1, <2>3 DEF In, Nothing, Holdings
    <2>5. TypeOK'
      BY <1>1, <2>1, <2>4 DEF TypeOK
    <2>6. \A n \in Names : Consistent(n)'
      BY <1>1, <2>1, <2>2, <2>3, InventoryAssumption DEF Consistent, After, Actors
    <2> QED
      BY <2>1, <2>2, <2>4, <2>5, <2>6, InventoryAssumption
         DEF PackagesInv, Transactions, Capturing, Restoration, Complete, Holders, Actors, In
  <1> QED
    BY <1>2, <1>3, <1>4, <1>5

\* Registrations: a capture, an evaluation that may run package commands, and
\* a source for what is still recorded.
LEMMA RegisterSteps == PackagesInv /\ Registering => PackagesInv'
  <1> SUFFICES ASSUME PackagesInv, Registering PROVE PackagesInv'
    OBVIOUS
  <1>1. /\ TypeOK /\ register \in Registrations /\ \A n \in Names : Consistent(n)
    BY DEF PackagesInv, TypeOK
  <1>2. NoRegistration \in Registrations /\ \A label \in
            {"idle", "capture", "evaluate", "evaluated", "write"} :
                [register EXCEPT !.pc = label] \in Registrations
    BY <1>1 DEF NoRegistration, Registrations
  <1>3. register' \in Registrations
    BY <1>1, <1>2 DEF Registering, registerBegins, registerQuery, registerSave, registerFails,
       registerEvaluates, registerEvaluated, registerWrites, registerTo, tasks, Registrations
  <1>a. box = "ready"
    BY DEF PackagesInv, Transactions, Registering, registerBegins, registerQuery, registerSave,
       registerFails, registerEvaluates, registerEvaluated, registerWrites, registerFrom
  <1>4. CASE registerQuery
    <2>1. /\ lock = None /\ lock' = "register" /\ lock' \in Holders /\ seen' = In(installed)
          /\ UNCHANGED <<installed, extras, sources, pending, db, restore, register, changes,
                         fresh, intent, excused>>
          /\ box' = box
      BY <1>4 DEF registerQuery, Query, record, tasks, history, Holders
    <2> QED
      BY <1>a, <2>1, Queried
  <1>5. CASE registerSave
    BY <1>a, <1>3, <1>5, Saved DEF registerSave, Holders
  <1>6. CASE registerBegins \/ registerFails \/ registerEvaluated
    <2>1. /\ UNCHANGED <<installed, extras, sources, pending, db, box, restore, changes,
                         fresh, intent, excused>>
          /\ (lock' = lock /\ seen' = seen) \/ (lock' = None /\ seen' = {})
      BY <1>6 DEF registerBegins, registerFails, registerEvaluated, CaptureFails, record, history
    <2>2. TypeOK'
      BY <1>1, <1>3, <2>1 DEF TypeOK
    <2>3. \A n \in Names : Consistent(n)'
      BY <1>1, <2>1 DEF Consistent
    <2> QED
      BY <1>a, <2>1, <2>2, <2>3, InventoryAssumption
         DEF PackagesInv, Transactions, Capturing, Restoration, Complete, In, Holders
  <1>7. CASE registerEvaluates
    <2>1. /\ UNCHANGED <<installed, extras, sources, pending, lock, seen, box, restore, changes,
                         fresh, intent, excused>>
          /\ \/ db' = db
             \/ db.by = None /\ db' = [by |-> "register", targets |-> {}]
      BY <1>7 DEF registerEvaluates, Transact, record, history
    <2>2. TypeOK'
      BY <1>1, <1>3, <2>1 DEF TypeOK, Actors
    <2>3. db.by = None => db.targets = {}
      BY DEF PackagesInv, Transactions
    <2>4. \A n \in Names : Consistent(n)'
      BY <1>1, <2>1, <2>3 DEF Consistent
    <2> QED
      BY <1>a, <2>1, <2>2, <2>3, <2>4, InventoryAssumption
         DEF PackagesInv, Transactions, Capturing, Restoration, Complete, In, Actors
  <1>8. CASE registerWrites
    <2>1. /\ sources' = sources \cup ({register.name} \cap foreignExtras)
          /\ UNCHANGED <<installed, extras, pending, lock, seen, db, box, restore, changes,
                         fresh, intent, excused>>
      BY <1>8 DEF registerWrites, history
    <2>2. TypeOK'
      BY <1>1, <1>3, <2>1 DEF TypeOK, foreignExtras, In
    <2>3. \A n \in Names : Consistent(n)'
      BY <1>1, <2>1 DEF Consistent
    <2> QED
      BY <1>a, <2>1, <2>2, <2>3
         DEF PackagesInv, Transactions, Capturing, Restoration, Complete, In
  <1> QED
    BY <1>4, <1>5, <1>6, <1>7, <1>8 DEF Registering

\* A step of a restoration.
LEMMA Stepped ==
  ASSUME TypeOK, NEW label \in {"idle", "save", "upgrade", "next", "explicit", "dependency",
                                "complete"}, Step(label)
  PROVE  /\ restore' \in Restorations /\ restore'.pc = label
         /\ restore'.desired = restore.desired /\ restore'.left = restore.left
         /\ restore'.sources = restore.sources
  BY DEF TypeOK, Step, Restorations

LEMMA RestoreSteps == PackagesInv /\ Restoring => PackagesInv'
  <1> SUFFICES ASSUME PackagesInv, Restoring PROVE PackagesInv'
    OBVIOUS
  <1>1. /\ TypeOK /\ \A n \in Names : Consistent(n)
        /\ Transactions /\ Capturing /\ Restoration /\ Complete
    BY DEF PackagesInv
  <1>2. NoRestoration \in Restorations /\ NoRestoration.pc = "idle"
    BY DEF NoRestoration, Restorations, Nothing, Holdings
  <1>3. ASSUME restore.pc # "idle" PROVE box = "ready"
    BY <1>1, <1>3 DEF Transactions
  <1>4. CASE restoreBegins
    <2>1. /\ box = "ready" /\ restore.pc = "idle" /\ Step("save")
          /\ UNCHANGED <<installed, extras, sources, pending, lock, seen, db, box, register,
                         changes, fresh, intent, excused>>
      BY <1>4 DEF restoreBegins, record, others
    <2>2. restore' \in Restorations /\ restore'.pc = "save"
      BY <1>1, <2>1, Stepped
    <2>3. TypeOK'
      BY <1>1, <2>1, <2>2 DEF TypeOK
    <2>4. \A n \in Names : Consistent(n)'
      BY <1>1, <2>1, <2>2 DEF Consistent, After
    <2> QED
      BY <1>1, <2>1, <2>2, <2>3, <2>4
         DEF PackagesInv, Transactions, Capturing, Restoration, Complete, After, In
  <1>5. CASE restoreSaves
    <2>1. /\ restore.pc = "save" /\ lock = None /\ pending' = desired
          /\ restore' = [pc |-> "upgrade", desired |-> desired, sources |-> sources,
                         left |-> In(desired)]
          /\ excused' = excused \cup {n \in db.targets : db.by = "user"}
          /\ UNCHANGED <<installed, extras, sources, lock, seen, db, intent, box, register,
                         changes, fresh>>
      BY <1>5 DEF restoreSaves
    <2>2. \A n \in Names : desired[n] = IF extras[n] # None /\ pending[n] # None
                                        THEN pending[n] ELSE extras[n]
      BY DEF desired, recorded
    <2>3. desired \in Holdings
      <3>1. \A n \in Names : recorded(n) \in Reasons \cup {None}
        BY <1>1, Types DEF recorded
      <3> QED
        BY <3>1 DEF desired, Holdings
    <2>4. restore' \in Restorations /\ sources \subseteq Names
      BY <1>1, <2>1, <2>3 DEF TypeOK, Restorations, In
    <2>5. TypeOK'
      BY <1>1, <2>1, <2>3, <2>4, Types DEF TypeOK
    <2>6. \A n \in Names : Consistent(n)'
      <3> SUFFICES ASSUME NEW n \in Names PROVE Consistent(n)'
        OBVIOUS
      <3>1. n \notin excused' => n \notin excused /\ n \notin db.targets
        <4>1. db.by \in Actors \cup {None} /\ db.by # "restore"
          BY <1>1, <2>1, Types DEF Transactions
        <4> QED
          BY <1>1, <2>1, <4>1 DEF Transactions, Actors
      <3>2. /\ n \notin excused' => desired[n] = extras[n] /\ extras[n] = intent[n]
            /\ pending'[n] = desired[n] /\ restore'.pc = "upgrade" /\ db' = db
        BY <1>1, <2>1, <2>2, <3>1 DEF Consistent
      <3> QED
        BY <1>1, <2>1, <3>1, <3>2, InventoryAssumption DEF Consistent, After
    <2> QED
      BY <1>1, <1>3, <2>1, <2>5, <2>6, InventoryAssumption
         DEF PackagesInv, Transactions, Capturing, Restoration, Complete, In, Holders
  <1>6. CASE restoreFails
    <2>1. /\ restore.pc # "idle" /\ db.by # "restore" /\ restore' = NoRestoration
          /\ (lock' = lock /\ seen' = seen) \/ (lock' = None /\ seen' = {})
          /\ UNCHANGED <<installed, extras, sources, pending, db, intent, box, register, changes,
                         fresh, excused>>
      BY <1>6 DEF restoreFails, CaptureFails, record, others
    <2>2. TypeOK'
      BY <1>1, <1>2, <2>1 DEF TypeOK
    <2>3. \A n \in Names : Consistent(n)'
      BY <1>1, <1>2, <2>1 DEF Consistent, After
    <2> QED
      BY <1>1, <1>2, <1>3, <2>1, <2>2, <2>3, InventoryAssumption
         DEF PackagesInv, Transactions, Capturing, Restoration, Complete, After, In, Holders
  <1>7. CASE restoreUpgrades
    <2>1. /\ restore.pc = "upgrade" /\ Step("next")
          /\ \/ db' = db
             \/ db.by = None /\ db' = [by |-> "restore", targets |-> {}]
          /\ UNCHANGED <<installed, extras, sources, pending, lock, seen, intent, box, register,
                         changes, fresh, excused>>
      BY <1>7 DEF restoreUpgrades, Transact, record, others
    <2>2. /\ restore' \in Restorations /\ restore'.pc = "next"
          /\ restore'.desired = restore.desired /\ restore'.left = restore.left
      BY <1>1, <2>1, Stepped
    <2>3. TypeOK'
      BY <1>1, <2>1, <2>2 DEF TypeOK, Actors
    <2>4. db.by = None => db.targets = {}
      BY <1>1 DEF Transactions
    <2>5. \A n \in Names : Consistent(n)'
      BY <1>1, <2>1, <2>2, <2>4 DEF Consistent, After
    <2> QED
      BY <1>1, <1>3, <2>1, <2>2, <2>3, <2>4, <2>5, InventoryAssumption
         DEF PackagesInv, Transactions, Capturing, Restoration, Complete, After, In, Actors
  <1>8. CASE restoreInstalls
    <2>1. PICK n \in restore.left :
             /\ restore.pc = "next" /\ db.by # "restore" /\ Handled(n)
             /\ \/ \E reason \in Reasons \cup {None} :
                      /\ Transact("restore", with(n, reason))
                      /\ intent' = [m \in Names |-> IF intent[m] = None
                                                    THEN installed'[m] ELSE intent[m]]
                \/ UNCHANGED <<installed, db, intent>>
             /\ UNCHANGED <<extras, sources, pending, lock, seen, box, register, changes, fresh,
                            excused>>
      BY <1>1, <1>8, Types DEF restoreInstalls, record, others, Reasons
    <2>2. /\ restore' \in Restorations /\ restore'.pc = "next"
          /\ restore'.desired = restore.desired /\ restore'.left = restore.left \ {n}
      BY <1>1, <2>1 DEF Handled, TypeOK, Restorations
    <2>3. pending = restore.desired /\ restore.left \subseteq In(pending) /\ n \in Names
      BY <1>1, <2>1 DEF Restoration, After, In
    <2>4. CASE UNCHANGED <<installed, db, intent>>
      <3>1. TypeOK'
        BY <1>1, <2>1, <2>2, <2>4 DEF TypeOK
      <3>2. \A m \in Names : Consistent(m)'
        BY <1>1, <2>1, <2>2, <2>4 DEF Consistent
      <3> QED
        BY <1>1, <1>3, <2>1, <2>2, <2>3, <2>4, <3>1, <3>2
           DEF PackagesInv, Transactions, Capturing, Restoration, Complete, After, In
    <2>5. CASE ~UNCHANGED <<installed, db, intent>>
      <3>1. PICK reason \in Reasons \cup {None} :
               /\ Transact("restore", with(n, reason))
               /\ intent' = [m \in Names |-> IF intent[m] = None
                                             THEN installed'[m] ELSE intent[m]]
        BY <2>1, <2>5
      <3> DEFINE changed == {m \in Names : installed'[m] # installed[m]}
      <3>2. /\ db.by = None /\ db.targets = {} /\ installed' = with(n, reason)
            /\ db' = [by |-> "restore", targets |-> changed]
        BY <1>1, <3>1 DEF Transact, Transactions
      <3>3. \A m \in Names :
               /\ installed'[m] \in Reasons \cup {None}
               /\ installed[m] # None => installed'[m] = installed[m]
        BY <1>1, <3>2, Types DEF with, Reasons
      <3>4. installed' \in Holdings
        BY <3>2, <3>3 DEF with, Holdings
      <3>5. \A m \in Names : intent'[m] = IF intent[m] = None THEN installed'[m] ELSE intent[m]
        BY <3>1
      <3>6. intent' \in Holdings
        BY <1>1, <3>1, <3>3, Types DEF Holdings
      <3>7. db'.by = "restore" /\ db'.targets = changed /\ db'.targets \subseteq In(installed')
        BY <3>2, <3>3 DEF In
      <3>8. db' \in [by : Actors \cup {None}, targets : SUBSET Names]
        BY <3>2 DEF Actors
      <3>9. TypeOK'
        BY <1>1, <2>1, <2>2, <3>4, <3>6, <3>8 DEF TypeOK
      <3>10. \A m \in Names : Consistent(m)'
        <4> SUFFICES ASSUME NEW m \in Names PROVE Consistent(m)'
          OBVIOUS
        <4>1. CASE m \in changed
          <5>1. installed[m] = None /\ installed'[m] # None
            BY <3>3, <4>1
          <5>2. m \notin excused /\ pending[m] = None => intent[m] = None
            BY <1>1, <2>1, <5>1 DEF Consistent, After
          <5> QED
            BY <1>1, <2>1, <2>2, <3>2, <3>5, <3>7, <4>1, <5>1, <5>2 DEF Consistent, After
        <4>2. CASE m \notin changed
          <5>1. installed'[m] = installed[m] /\ intent'[m] = intent[m]
            BY <1>1, <3>5, <4>2 DEF Consistent
          <5> QED
            BY <1>1, <2>1, <2>2, <3>2, <3>7, <4>2, <5>1 DEF Consistent, After
        <4> QED
          BY <4>1, <4>2
      <3>11. Transactions' /\ Restoration'
        BY <1>1, <1>3, <2>1, <2>2, <2>3, <3>7, InventoryAssumption
           DEF Transactions, Restoration, After, In, Actors
      <3>12. Capturing' /\ Complete'
        BY <1>1, <2>1, <3>2, <3>7 DEF Capturing, Complete, In
      <3> QED
        BY <3>9, <3>10, <3>11, <3>12 DEF PackagesInv
    <2> QED
      BY <2>4, <2>5
  <1>9. CASE restoreInstalled
    <2>1. /\ restore.pc = "next" /\ db.by # "restore" /\ Step("explicit")
          /\ UNCHANGED <<installed, extras, sources, pending, lock, seen, db, intent, box,
                         register, changes, fresh, excused>>
      BY <1>9 DEF restoreInstalled, record, others
    <2>2. /\ restore' \in Restorations /\ restore'.pc = "explicit"
          /\ restore'.desired = restore.desired /\ restore'.left = restore.left
      BY <1>1, <2>1, Stepped
    <2>3. TypeOK'
      BY <1>1, <2>1, <2>2 DEF TypeOK
    <2>4. \A n \in Names : Consistent(n)'
      BY <1>1, <2>1, <2>2 DEF Consistent, After
    <2> QED
      BY <1>1, <1>3, <2>1, <2>2, <2>3, <2>4
         DEF PackagesInv, Transactions, Capturing, Restoration, Complete, After, In
  <1>10. ASSUME NEW reason \in Reasons, NEW next \in {"dependency", "complete"},
                restoreMarks(reason, next),
                \/ reason = "explicit" /\ next = "dependency"
                \/ reason = "dependency" /\ next = "complete"
         PROVE  PackagesInv'
    <2>1. /\ restore.pc = reason /\ db.by = None /\ Step(next)
          /\ installed' = [n \in Names |-> IF /\ restore.desired[n] = reason
                                              /\ installed[n] # None
                                           THEN reason ELSE installed[n]]
          /\ UNCHANGED <<extras, sources, pending, lock, seen, db, intent, box, register,
                         changes, fresh, excused>>
      BY <1>10 DEF restoreMarks, record, others
    <2>2. /\ restore' \in Restorations /\ restore'.pc = next
          /\ restore'.desired = restore.desired /\ restore'.left = restore.left
      BY <1>1, <2>1, Stepped
    <2>3. pending = restore.desired /\ db.targets = {}
      BY <1>1, <2>1 DEF Restoration, Transactions, After, Reasons
    <2>4. \A n \in Names : /\ installed'[n] = IF pending[n] = reason /\ installed[n] # None
                                              THEN reason ELSE installed[n]
                           /\ (installed'[n] = None <=> installed[n] = None)
                           /\ installed'[n] \in Reasons \cup {None}
      BY <1>1, <2>1, <2>3, InventoryAssumption, Types
    <2>5. installed' \in Holdings /\ In(installed)' = In(installed)
      BY <2>1, <2>4 DEF Holdings, In
    <2>6. TypeOK'
      BY <1>1, <2>1, <2>2, <2>5 DEF TypeOK
    <2>7. \A n \in Names : Consistent(n)'
      <3> SUFFICES ASSUME NEW n \in Names PROVE Consistent(n)'
        OBVIOUS
      <3> QED
        BY <1>1, <1>10, <2>1, <2>2, <2>3, <2>4, InventoryAssumption
           DEF Consistent, After, Reasons
    <2> QED
      BY <1>1, <1>3, <2>1, <2>2, <2>3, <2>5, <2>6, <2>7
         DEF PackagesInv, Transactions, Capturing, Restoration, Complete, After, Reasons
  <1>11. CASE restoreQuery
    <2>1. /\ lock = None /\ lock' = "restore" /\ lock' \in Holders /\ seen' = In(installed)
          /\ UNCHANGED <<installed, extras, sources, pending, db, restore, register, changes,
                         fresh, intent, excused>>
          /\ box' = box /\ restore.pc = "complete"
      BY <1>11 DEF restoreQuery, Query, record, others, Holders
    <2> QED
      BY <1>3, <2>1, Queried
  <1>12. CASE restoreCompletes
    <2>1. /\ restore.pc = "complete" /\ Save("restore", {}, Nothing) /\ restore' = NoRestoration
          /\ UNCHANGED <<installed, db, box, register, changes, intent, excused>>
      BY <1>12 DEF restoreCompletes
    <2>2. Nothing \in Holdings /\ \A n \in Names : Nothing[n] = None
      BY DEF Nothing, Holdings
    <2>3. /\ lock = "restore" /\ lock' = None /\ seen' = {} /\ fresh' = TRUE /\ pending' = Nothing
          /\ extras' \in Holdings /\ sources' \subseteq In(extras')
          /\ \A n \in seen : /\ extras'[n] # None
                             /\ installed[n] # None => extras'[n] = installed[n]
          /\ \A n \in Names \ seen : extras'[n] = extras[n]
      <3>1. TypeOK /\ Save("restore", {}, Nothing) /\ Nothing \in Holdings
            /\ {} \in SUBSET Names
        BY <1>1, <2>1, <2>2
      <3>2. /\ lock = "restore" /\ lock' = None /\ seen' = {} /\ fresh' = TRUE
            /\ pending' = Nothing
            /\ extras' \in Holdings /\ sources' \subseteq In(extras')
            /\ \A n \in seen : /\ extras'[n] # None
                               /\ Nothing[n] = None /\ installed[n] # None =>
                                      extras'[n] = installed[n]
            /\ \A n \in Names \ (seen \cup {}) : extras'[n] = extras[n]
        BY <3>1, Captured
      <3>3. seen \subseteq Names
        BY <1>1 DEF TypeOK
      <3> QED
        BY <2>2, <3>2, <3>3
    <2>4. In(installed) \ seen \subseteq db.targets /\ seen \ In(installed) \subseteq db.targets
      BY <1>1, <2>3, InventoryAssumption DEF Capturing, Holders
    <2>5. TypeOK'
      BY <1>1, <1>2, <2>1, <2>2, <2>3 DEF TypeOK
    <2>6. \A n \in Names : Consistent(n)'
      <3> SUFFICES ASSUME NEW n \in Names PROVE Consistent(n)'
        OBVIOUS
      <3>1. n \in seen /\ n \notin db.targets => installed[n] # None
        BY <2>4 DEF In
      <3>2. pending[n] \in Reasons \cup {None} /\ pending'[n] = None
        BY <1>1, <2>2, <2>3, Types
      <3>3. n \notin excused /\ installed[n] # None => installed[n] = intent[n]
        BY <1>1, <2>1, <3>2, InventoryAssumption DEF Consistent, Reasons
      <3> QED
        BY <1>1, <1>2, <2>1, <2>3, <3>1, <3>2, <3>3, InventoryAssumption
           DEF Consistent, After, Reasons
    <2>7. Transactions' /\ Restoration'
      BY <1>1, <1>2, <1>3, <2>1, <2>3 DEF Transactions, Restoration, After, In
    <2>8. Capturing' /\ Complete'
      BY <1>1, <2>1, <2>3, <2>4, InventoryAssumption DEF TypeOK, Capturing, Complete, In, Holders
    <2> QED
      BY <2>5, <2>6, <2>7, <2>8 DEF PackagesInv
  <1>13. CASE restoreMarks("explicit", "dependency")
    BY <1>10, <1>13 DEF Reasons
  <1>14. CASE restoreMarks("dependency", "complete")
    BY <1>10, <1>14 DEF Reasons
  <1> QED
    BY <1>4, <1>5, <1>6, <1>7, <1>8, <1>9, <1>11, <1>12, <1>13, <1>14 DEF Restoring

LEMMA Inductive == PackagesInv /\ [Next]_vars => PackagesInv'
  <1> SUFFICES ASSUME PackagesInv, [Next]_vars PROVE PackagesInv'
    OBVIOUS
  <1>1. CASE UNCHANGED vars
    BY <1>1 DEF vars, record, history, PackagesInv, TypeOK, Consistent, Transactions, Capturing,
       Restoration, Complete, In
  <1> QED
    BY <1>1, HookSteps, UserSteps, BoxSteps, RegisterSteps, RestoreSteps DEF Next

LEMMA PackagesInvariant == Spec => []PackagesInv
  BY Initially, Inductive, PTL DEF Spec

\* Every variable keeps its type.
THEOREM PackagesTypeCorrect == Spec => []TypeOK
  <1>1. PackagesInv => TypeOK
    BY DEF PackagesInv
  <1> QED
    BY <1>1, PackagesInvariant, PTL

\* The record keeps how the user wants each extra.
THEOREM IntentIsKept == Spec => []IntentKept
  <1>1. PackagesInv => IntentKept
    <2> SUFFICES ASSUME PackagesInv, NEW n \in Names \ (excused \cup db.targets)
                 PROVE  recorded(n) = intent[n]
      BY DEF IntentKept
    <2> QED
      BY DEF PackagesInv, Consistent, recorded
  <1> QED
    BY <1>1, PackagesInvariant, PTL

\* Once captured, the record misses no installed extra.
THEOREM InventoryIsComplete == Spec => []InventoryComplete
  <1>1. PackagesInv => InventoryComplete
    BY DEF PackagesInv, Complete, Transactions, InventoryComplete
  <1> QED
    BY <1>1, PackagesInvariant, PTL

\* Only the hook of a removal drops a record or its source.
THEOREM RecordsAreKept == Spec => RecordsKept
  <1> DEFINE Kept ==
        \A n \in Names :
            (extras[n] # None /\ extras'[n] = None) \/ (n \in sources /\ n \notin sources')
                => n \in db.targets /\ installed[n] = None
  <1>1. PackagesInv /\ [Next]_vars => [Kept]_vars
    <2> SUFFICES ASSUME PackagesInv, [Next]_vars, NEW n \in Names,
                        \/ extras[n] # None /\ extras'[n] = None
                        \/ n \in sources /\ n \notin sources'
                 PROVE  n \in db.targets /\ installed[n] = None
      OBVIOUS
    <2>1. /\ TypeOK /\ pending \in Holdings /\ db.targets \in SUBSET Names /\ {} \in SUBSET Names
          /\ Nothing \in Holdings
      BY Types DEF PackagesInv, TypeOK, Nothing, Holdings
    <2>2. CASE hookSave
      <3>1. Save("hook", db.targets, pending)
        BY <2>2 DEF hookSave
      <3>2. /\ lock = "hook" /\ \A m \in seen : extras'[m] # None
            /\ \A m \in Names \ (db.targets \cup seen) : extras'[m] = extras[m]
            /\ n \in sources /\ n \notin sources' => extras'[n] = None
        BY <2>1, <3>1, Captured
      <3>3. seen = In(installed) /\ sources \subseteq In(extras)
        BY <3>2 DEF PackagesInv, Capturing, TypeOK
      <3> QED
        BY <3>2, <3>3 DEF In
    <2>3. CASE \/ Save("register", {}, pending) \/ Save("boot", {}, pending)
               \/ Save("restore", {}, Nothing)
      <3>1. /\ \A m \in seen : extras'[m] # None
            /\ \A m \in Names \ seen : extras'[m] = extras[m]
            /\ n \in sources /\ n \notin sources' => extras'[n] = None
        BY <2>1, <2>3, Captured
      <3>2. sources \subseteq In(extras)
        BY DEF PackagesInv, TypeOK
      <3> QED
        BY <3>1, <3>2 DEF In
    <2>4. CASE extras' = extras /\ sources \subseteq sources'
      BY <2>4
    <2>5. \/ hookSave \/ Save("register", {}, pending) \/ Save("boot", {}, pending)
          \/ Save("restore", {}, Nothing)
          \/ extras' = extras /\ sources \subseteq sources'
      <3>1. UNCHANGED vars => UNCHANGED <<extras, sources>>
        BY DEF vars, record
      <3>2. hookQuery \/ hookFails => UNCHANGED <<extras, sources>>
        BY DEF hookQuery, hookFails, CaptureFails, record
      <3>3. userInstalls \/ userRemoves => UNCHANGED <<extras, sources>>
        BY DEF userInstalls, userRemoves, Change, record
      <3>4. Restoring => Save("restore", {}, Nothing) \/ UNCHANGED <<extras, sources>>
        BY DEF Restoring, restoreBegins, restoreSaves, restoreFails, restoreUpgrades,
           restoreInstalls, restoreInstalled, restoreMarks, restoreQuery, restoreCompletes,
           CaptureFails, record
      <3>5. Registering =>
                Save("register", {}, pending) \/ (extras' = extras /\ sources \subseteq sources')
        <4>1. registerSave => Save("register", {}, pending)
          BY DEF registerSave
        <4>2. registerWrites => extras' = extras /\ sources \subseteq sources'
          BY DEF registerWrites
        <4>3. registerBegins \/ registerQuery \/ registerFails \/ registerEvaluates
                  \/ registerEvaluated => extras' = extras /\ sources \subseteq sources'
          BY DEF registerBegins, registerQuery, registerFails, registerEvaluates,
             registerEvaluated, CaptureFails, record
        <4> QED
          BY <4>1, <4>2, <4>3 DEF Registering
      <3>6. boot \/ bootCapture \/ halt \/ recreate =>
                Save("boot", {}, pending) \/ UNCHANGED <<extras, sources>>
        BY DEF boot, bootCapture, halt, recreate, CaptureFails, record
      <3> QED
        BY <3>1, <3>2, <3>3, <3>4, <3>5, <3>6 DEF Next, Hook
    <2> QED
      BY <2>2, <2>3, <2>4, <2>5
  <1> QED
    BY <1>1, PackagesInvariant, PTL DEF Spec, RecordsKept

-----------------------------------------------------------------------------
\* A registration's transaction ends before it does anything else.
Evaluating == db.by = "register" => register.pc = "evaluated"

\* Nobody who holds the record's lock waits for a transaction of its own, so
\* the hooks and the holder cannot wait for one another.
LEMMA HolderInductive ==
  ASSUME PackagesInv, HolderIsFree, Evaluating, [Next]_vars
  PROVE  HolderIsFree' /\ Evaluating'
  <1>1. /\ lock \in Holders \cup {None} /\ db.by \in Actors \cup {None}
        /\ restore \in Restorations /\ register \in Registrations
        /\ None \notin Holders \cup Actors
    BY InventoryAssumption DEF PackagesInv, TypeOK
  <1>2. /\ db.by = "restore" => restore.pc = "next"
        /\ box # "ready" => db.by = None
    BY DEF PackagesInv, Transactions
  <1> USE DEF HolderIsFree, Evaluating, Holders, Actors
  <1>3. CASE Hook
    <2>1. /\ UNCHANGED <<box, restore, register>>
          /\ \/ lock' = "hook" /\ db' = db /\ db.by # None
             \/ lock' = None /\ db' = NoTransaction
      BY <1>3 DEF Hook, hookQuery, hookSave, hookFails, Query, Save,
                  CaptureFails, tasks
    <2> QED BY <1>1, <2>1 DEF NoTransaction
  <1>4. CASE userInstalls \/ userRemoves
    <2>1. /\ UNCHANGED <<lock, box, restore, register>>
          /\ db'.by = "user" /\ db.by = None /\ box = "ready"
      BY <1>4 DEF userInstalls, userRemoves, Change, Transact, tasks
    <2> QED BY <1>1, <2>1
  <1>5. CASE Restoring
    <2>1. UNCHANGED <<box, register>>
      BY <1>5 DEF Restoring, restoreBegins, restoreSaves, restoreFails,
                  restoreUpgrades, restoreInstalls, restoreInstalled,
                  restoreMarks, restoreQuery, restoreCompletes, others
    <2>2. \/ lock' = None /\ db' = db
          \/ lock' = lock /\ lock # "restore" /\ db' = db
          \/ lock' = lock /\ lock # "restore" /\ db.by = None
             /\ db'.by = "restore" /\ box = "ready"
          \/ lock' = "restore" /\ restore.pc = "complete"
             /\ restore' = restore /\ db' = db
      <3>1. CASE restoreFails \/ restoreQuery \/ restoreCompletes
        BY <3>1 DEF restoreFails, restoreQuery, restoreCompletes,
                    CaptureFails, Query, Save, NoRestoration
      <3>2. CASE restoreUpgrades \/ restoreInstalls
        <4>1. box = "ready" BY <3>2 DEF restoreUpgrades, restoreInstalls,
                                        PackagesInv, Transactions
        <4> QED BY <3>2, <4>1 DEF restoreUpgrades, restoreInstalls, Transact
      <3>3. CASE \/ restoreBegins \/ restoreSaves \/ restoreInstalled
                 \/ restoreMarks("explicit", "dependency")
                 \/ restoreMarks("dependency", "complete")
        BY <3>3 DEF restoreBegins, restoreSaves, restoreInstalled,
                    restoreMarks
      <3> QED BY <1>5, <3>1, <3>2, <3>3 DEF Restoring
    <2> QED BY <1>1, <1>2, <2>1, <2>2
  <1>6. CASE Registering
    <2>1. UNCHANGED <<box, restore>>
      BY <1>6 DEF Registering, registerBegins, registerQuery, registerSave,
                  registerFails, registerEvaluates, registerEvaluated,
                  registerWrites, tasks
    <2>2. CASE registerBegins
      <3>1. /\ register.pc = "idle" /\ register'.pc = "capture"
            /\ UNCHANGED <<lock, db>>
        BY <2>2 DEF registerBegins, registerFrom
      <3> QED BY <1>1, <2>1, <3>1
    <2>3. CASE registerQuery
      <3>1. /\ register.pc = "capture" /\ lock' = "register"
            /\ UNCHANGED <<register, db>>
        BY <2>3 DEF registerQuery, registerFrom, Query, tasks
      <3> QED BY <1>1, <2>1, <3>1
    <2>4. CASE registerSave \/ registerFails
      <3>1. register.pc = "capture" /\ lock' = None /\ db' = db
        BY <2>4 DEF registerSave, registerFails, registerFrom, Save,
                    CaptureFails
      <3> QED BY <1>1, <2>1, <3>1
    <2>5. CASE registerEvaluates
      <3>1. /\ register.pc = "evaluate" /\ register'.pc = "evaluated"
            /\ lock' = lock
            /\ db' = db \/ (db.by = None /\ db'.by = "register")
        <4>1. register' = [register EXCEPT !.pc = "evaluated"]
          BY <2>5 DEF registerEvaluates, registerTo
        <4>2. register'.pc = "evaluated" BY <1>1, <4>1 DEF Registrations
        <4>3. db' = db \/ (db.by = None /\ db'.by = "register")
          BY <2>5 DEF registerEvaluates, Transact
        <4> QED BY <2>5, <4>2, <4>3 DEF registerEvaluates, registerFrom
      <3>2. lock # "boot"
        <4>1. box = "ready" BY <3>1 DEF PackagesInv, Transactions
        <4> QED BY <4>1
      <3> QED BY <1>1, <1>2, <2>1, <3>1, <3>2
    <2>6. CASE registerEvaluated \/ registerWrites
      <3>1. /\ register.pc \in {"evaluated", "write"} /\ UNCHANGED <<lock, db>>
            /\ db.by # "register"
        BY <1>1, <2>6 DEF registerEvaluated, registerWrites, registerFrom
      <3> QED BY <1>1, <2>1, <3>1
    <2> QED BY <1>6, <2>2, <2>3, <2>4, <2>5, <2>6 DEF Registering
  <1>7. CASE boot \/ bootCapture \/ halt \/ recreate
    <2>1. CASE boot
      <3>1. /\ lock' = "boot" /\ box' = "starting" /\ box = "off"
            /\ UNCHANGED <<restore, register, db>>
        BY <2>1 DEF boot, Query
      <3> QED BY <1>1, <1>2, <3>1
    <2>2. CASE bootCapture \/ halt
      <3>1. /\ lock' = None
            /\ (db' = db /\ register' = register) \/ db'.by = None
        BY <2>2 DEF bootCapture, halt, Save, CaptureFails, NoTransaction
      <3> QED BY <1>1, <3>1
    <2>3. CASE recreate BY <2>3 DEF recreate, tasks
    <2> QED BY <1>7, <2>1, <2>2, <2>3
  <1>8. CASE UNCHANGED vars BY <1>8 DEF vars
  <1> QED BY <1>3, <1>4, <1>5, <1>6, <1>7, <1>8 DEF Next

\* Whoever holds the record's lock has no transaction waiting for it
\* (workstation-packages:96-101 and 233-235): the reason why every transaction
\* ends, which is left to model checking.
THEOREM NoCircleOfWaiting == Spec => []HolderIsFree
  <1>1. Init => HolderIsFree /\ Evaluating
    BY InventoryAssumption
       DEF Init, HolderIsFree, Evaluating, NoTransaction, Holders, Actors
  <1>2. /\ PackagesInv /\ HolderIsFree /\ Evaluating /\ [Next]_vars
           => (HolderIsFree /\ Evaluating)'
    BY HolderInductive
  <1> QED BY <1>1, <1>2, PackagesInvariant, PTL DEF Spec
=============================================================================
