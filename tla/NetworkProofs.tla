---------------------------- MODULE NetworkProofs ----------------------------
(***************************************************************************)
(* For any certificates, variables, configurations and bounds: the receipt *)
(* covers what apply put in place, and a successful apply leaves exactly   *)
(* what the configuration says.                                            *)
(***************************************************************************)
EXTENDS NetworkTrust, FiniteSetTheorems, TLAPS

\* The variables an environment has.
Names(e) == {v \in Variables : e[v] # None}

\* A volume at rest, in use or in a copy: its receipt covers the database that
\* would be used, and the older one holds nothing before it appears.
VolumeOK(v) ==
    /\ v.nss[IF v.legacy THEN "legacy" ELSE "shared"] \subseteq v.receipt.list.certs
    /\ ~v.legacy => v.nss["legacy"] = {}
VolumesOK == VolumeOK(vol) /\ (copy # None => VolumeOK(copy))

Writing == {"remove", "add", "bundle", "unset", "set"}
Config  == vol.config.list.certs
Old     == run.old.list.certs
Held    == vol.nss[run.db]

\* What apply relies on at each of its labels.
Chosen   == run.db = database /\ (run.pc = "intend" => run.old = vol.receipt)
Intended == /\ vol.receipt.list.certs = Old \cup Config
            /\ vol.receipt.env = run.old.env \cup values(vol.config)
Cleaning == /\ anchors \subseteq run.todo /\ Held \subseteq run.todo \cup run.half
            /\ run.todo \cup run.half \subseteq Old
Filling  == /\ anchors \subseteq Config /\ Held \subseteq Config
            /\ Config \subseteq anchors \cup run.todo
            /\ Config \subseteq Held \cup run.todo \cup run.half
            /\ run.todo \cup run.half \subseteq Config
Placed   == anchors = Config /\ Held = Config
Setting  == \A v \in Variables :
                env[v] = IF v \in run.vars THEN None ELSE vol.config.env[v]
Progress ==
    /\ run.pc \in Writing \cup {"intend"} => Chosen
    /\ run.pc \notin {"remove", "add"} => run.half = {}
    /\ run.pc \in Writing => Intended
    /\ run.pc \in {"remove", "add", "bundle"} => bundle \subseteq Old
    /\ run.pc \in {"remove", "add", "bundle"} => Names(env) \subseteq run.old.env
    /\ run.pc = "remove" => Cleaning
    /\ run.pc = "add" => Filling
    /\ run.pc \in {"bundle", "unset", "set"} => Placed
    /\ run.pc \in {"unset", "set"} => bundle = Config
    /\ run.pc = "unset" => Names(env) \subseteq run.vars /\ run.vars \subseteq run.old.env
    /\ run.pc = "set" => Setting /\ run.vars \subseteq values(vol.config)
Applying == box = "apply" => Progress

\* The inductive invariant.
NetworkInv ==
    /\ TypeOK /\ VolumesOK /\ ReceiptCovers /\ AppliedIsExact /\ Applying

\* At the start nothing is configured and nothing is in place.
LEMMA Initially == Init => NetworkInv
  BY NetworkAssumption, SMTT(30) DEF Init, NetworkInv, TypeOK, VolumesOK, VolumeOK, ReceiptCovers,
     AppliedIsExact, Applying, NewVolume, NewRun, NoList, NoVariables, Configs, Lists,
     Receipts, Volumes, Databases, Environments, Runs, Labels, database

\* What happens around a container that is stopped, starting or up.
LEMMA AroundSteps == NetworkInv /\ Around => NetworkInv'
  <1> SUFFICES ASSUME NetworkInv, Around PROVE NetworkInv'
    OBVIOUS
  <1> USE DEF NetworkInv
  <1>1. CASE \E c \in Choices : saveNetwork(c)
    BY <1>1, NetworkAssumption DEF saveNetwork, layer, TypeOK, VolumesOK, VolumeOK, ReceiptCovers,
       AppliedIsExact, Applying, Progress, Chosen, Intended, Cleaning, Filling, Placed,
       Setting, Config, Old, Held, Names, database, values
  <1>2. CASE syncNetwork
    <2>1. TypeOK'
      BY <1>2 DEF syncNetwork, host, layer, TypeOK, Volumes
    <2>2. VolumesOK' /\ ReceiptCovers'
      BY <1>2 DEF syncNetwork, host, layer, TypeOK, Volumes, VolumesOK, VolumeOK, ReceiptCovers, database
    <2> QED
      BY <1>2, <2>1, <2>2 DEF syncNetwork, host, layer, AppliedIsExact, Applying
  <1>3. CASE Boot
    <2>1. TypeOK'
      BY <1>3 DEF Boot, host, TypeOK, NewRun, NewVolume, Runs, Labels, Receipts, Lists, NoList,
         Databases, NoVariables, Environments
    <2>2. VolumesOK' /\ ReceiptCovers'
      BY <1>3 DEF Boot, host, VolumesOK, VolumeOK, ReceiptCovers, database, NoVariables
    <2> QED
      BY <1>3, <2>1, <2>2 DEF Boot, NewRun, AppliedIsExact, Applying, Progress, Writing
  <1>4. CASE Halt
    <2>1. TypeOK'
      BY <1>4 DEF Halt, host, layer, TypeOK, NewRun, NewVolume, Runs, Labels, Receipts, Lists, NoList,
         Databases
    <2> QED
      BY <1>4, <2>1 DEF Halt, host, layer, VolumesOK, VolumeOK, ReceiptCovers, database,
         AppliedIsExact, Applying
  <1>5. CASE Recreate
    <2>1. TypeOK'
      BY <1>5 DEF Recreate, host, TypeOK, NoVariables, Environments
    <2> QED
      BY <1>5, <2>1 DEF Recreate, host, VolumesOK, VolumeOK, ReceiptCovers, database, NoVariables,
         AppliedIsExact, Applying
  <1>6. CASE Backup
    BY <1>6 DEF Backup, layer, TypeOK, VolumesOK, VolumeOK, ReceiptCovers, database,
         AppliedIsExact, Applying
  <1>7. CASE Restore
    <2>1. TypeOK'
      BY <1>7 DEF Restore, host, TypeOK, NoVariables, Environments
    <2> QED
      BY <1>7, <2>1 DEF Restore, host, VolumesOK, VolumeOK, ReceiptCovers, database, NoVariables,
         AppliedIsExact, Applying
  <1>8. CASE LegacyAppears
    <2>1. TypeOK'
      BY <1>8 DEF LegacyAppears, host, layer, TypeOK, Volumes
    <2> QED
      BY <1>8, <2>1 DEF LegacyAppears, host, layer, TypeOK, Volumes, VolumesOK, VolumeOK, ReceiptCovers, database,
         AppliedIsExact, Applying
  <1> QED
    BY <1>1, <1>2, <1>3, <1>4, <1>5, <1>6, <1>7, <1>8 DEF Around

\* An application ends before its time: nothing changes but that it ended.
LEMMA FailingSteps == NetworkInv /\ (applyFails \/ removeAgain) => NetworkInv'
  <1> SUFFICES ASSUME NetworkInv, applyFails \/ removeAgain PROVE NetworkInv'
    OBVIOUS
  <1>1. /\ run' = [run EXCEPT !.pc = "failed"] /\ box' = "up"
        /\ UNCHANGED <<network, vol, copy, anchors, bundle, env, changes>>
        /\ faults' = faults \/ faults' = faults + 1
    BY DEF applyFails, removeAgain, End, Go, layer, host
  <1>2. TypeOK'
    BY <1>1 DEF NetworkInv, TypeOK, Runs, Labels
  <1>3. run'.pc = "failed"
    BY <1>1 DEF NetworkInv, TypeOK, Runs
  <1> QED
    BY <1>1, <1>2, <1>3 DEF NetworkInv, VolumesOK, VolumeOK, ReceiptCovers, database,
       AppliedIsExact, Applying

LEMMA ReadStep == NetworkInv /\ applyRead => NetworkInv'
  <1> SUFFICES ASSUME NetworkInv, applyRead PROVE NetworkInv'
    OBVIOUS
  <1>1. TypeOK'
    BY DEF NetworkInv, TypeOK, applyRead, On, host, layer, Runs, Labels, database, Databases,
       Volumes
  <1>2. run'.pc = "intend" /\ run'.old = vol.receipt /\ run'.db = database
    BY DEF NetworkInv, TypeOK, applyRead, Runs
  <1> QED
    BY <1>1, <1>2 DEF NetworkInv, applyRead, On, host, layer, VolumesOK, VolumeOK, ReceiptCovers,
       database, AppliedIsExact, Applying, Progress, Writing, Chosen

\* What the labels of apply say of the types of its variables.
LEMMA Typing ==
  ASSUME NetworkInv, box = "apply"
  PROVE  /\ run \in Runs /\ vol \in Volumes /\ Progress
         /\ Old \subseteq Certs /\ Config \subseteq Certs /\ Held \subseteq Certs
         /\ run.old.list.twice \subseteq Certs /\ values(vol.config) \subseteq Variables
         /\ vol.receipt \in Receipts /\ vol.config \in Configs
  <1>1. /\ run \in Runs /\ vol \in Volumes /\ Progress
    BY DEF NetworkInv, TypeOK, Applying
  <1>2. /\ run.old \in Receipts /\ run.db \in Databases
        /\ vol.receipt \in Receipts /\ vol.config \in Configs
        /\ vol.nss \in [Databases -> SUBSET Certs]
    BY <1>1 DEF Runs, Volumes
  <1>3. run.old.list \in Lists /\ vol.config.list \in Lists
    BY <1>2 DEF Receipts, Configs
  <1> QED
    BY <1>1, <1>2, <1>3 DEF Old, Config, Held, Lists, values

\* A step of apply that leaves the volume and the boot alone need only keep
\* what was put in place within the receipt.
LEMMA Within ==
  ASSUME NetworkInv, TypeOK', Progress', box = "apply", UNCHANGED <<vol, copy, box>>,
         anchors' \cup bundle' \subseteq vol.receipt.list.certs,
         Names(env') \subseteq vol.receipt.env
  PROVE  NetworkInv'
  BY DEF NetworkInv, VolumesOK, VolumeOK, ReceiptCovers, AppliedIsExact, Applying, Names,
     database

LEMMA IntendStep == NetworkInv /\ applyIntend => NetworkInv'
  <1> SUFFICES ASSUME NetworkInv, applyIntend PROVE NetworkInv'
    OBVIOUS
  <1> DEFINE both == Old \cup Config
             names == run.old.env \cup values(vol.config)
  <1>1. /\ box = "apply" /\ run.pc = "intend" /\ run.half = {}
        /\ run \in Runs /\ vol \in Volumes /\ Chosen
        /\ Old \subseteq Certs /\ Config \subseteq Certs
        /\ run.old.list.twice \subseteq Certs /\ values(vol.config) \subseteq Variables
    BY Typing DEF applyIntend, On, Progress
  <1>2. /\ vol'.receipt = [list |-> [certs |-> both, twice |-> {}], env |-> names]
        /\ vol'.config = vol.config /\ vol'.legacy = vol.legacy /\ vol'.nss = vol.nss
        /\ vol' \in Volumes
    BY <1>1 DEF applyIntend, Volumes, Receipts, Lists, Old, Config, values, Runs
  <1>a. run.old.list.twice \cap vol.nss[run.db] \subseteq Certs
    BY <1>1
  <1>3. /\ run'.pc = "remove" /\ run'.old = run.old /\ run'.db = run.db
        /\ run'.todo = Old /\ run'.half = run.half /\ run' \in Runs
    BY <1>1, <1>a DEF applyIntend, Runs, Labels, Old
  <1>4. UNCHANGED <<network, copy, anchors, bundle, env, box, changes, faults>>
    BY DEF applyIntend, host, layer
  <1>5. TypeOK'
    BY <1>2, <1>3, <1>4 DEF NetworkInv, TypeOK
  <1>6. database' = database /\ Old' = Old /\ Config' = Config /\ Held' = Held
    BY <1>2, <1>3 DEF database, Old, Config, Held
  <1>7. /\ anchors \cup bundle \cup Held \subseteq Old
        /\ Names(env) \subseteq run.old.env
    BY <1>1 DEF NetworkInv, ReceiptCovers, Chosen, Old, Held, Names
  <1>8. VolumesOK' /\ ReceiptCovers'
    BY <1>1, <1>2, <1>4, <1>6, <1>7 DEF NetworkInv, VolumesOK, VolumeOK, ReceiptCovers, database,
       Chosen, Held, Names
  <1>9. Chosen'
    BY <1>1, <1>3, <1>6 DEF Chosen
  <1>10. Intended'
    BY <1>2, <1>3, <1>6 DEF Intended
  <1>11. Cleaning'
    BY <1>1, <1>3, <1>4, <1>6, <1>7 DEF Cleaning
  <1> QED
    BY <1>3, <1>4, <1>5, <1>6, <1>7, <1>8, <1>9, <1>10, <1>11
       DEF NetworkInv, AppliedIsExact, Applying, Progress, Writing, Names

\* The files of the trust anchors, before their database entries.
LEMMA FileSteps == NetworkInv /\ (removeAnchor \/ addAnchor) => NetworkInv'
  <1> SUFFICES ASSUME NetworkInv, NEW c \in Certs,
                      File("remove", c, anchors \ {c}) \/ File("add", c, anchors \cup {c})
               PROVE  NetworkInv'
    BY DEF removeAnchor, addAnchor
  <1>1. /\ box = "apply" /\ run.pc \in {"remove", "add"} /\ run.half = {} /\ c \in run.todo
        /\ UNCHANGED <<network, vol, copy, bundle, env, box, changes, faults>>
        /\ run' = [run EXCEPT !.todo = @ \ {c}, !.half = {c}]
        /\ run.pc = "remove" => anchors' = anchors \ {c}
        /\ run.pc = "add" => anchors' = anchors \cup {c}
    BY DEF File, On, host
  <1>2. run \in Runs /\ Progress
    BY <1>1, Typing
  <1>3. /\ run'.todo = run.todo \ {c} /\ run'.half = {c} /\ run' \in Runs
        /\ run'.pc = run.pc /\ run'.old = run.old /\ run'.db = run.db /\ run'.vars = run.vars
    BY <1>1, <1>2 DEF Runs
  <1>4. TypeOK'
    BY <1>1, <1>3 DEF NetworkInv, TypeOK
  <1>5. Old' = Old /\ Config' = Config /\ Held' = Held /\ (Chosen => Chosen')
        /\ (Intended => Intended')
    BY <1>1, <1>3 DEF Old, Config, Held, Chosen, Intended, database
  <1>6. /\ run.pc = "remove" => Cleaning'
        /\ run.pc = "add" => Filling'
    BY <1>1, <1>2, <1>3, <1>5 DEF Progress, Cleaning, Filling
  <1>7. Progress'
    BY <1>1, <1>2, <1>3, <1>5, <1>6 DEF Progress, Writing, Names
  <1>8. /\ anchors' \cup bundle' \subseteq vol.receipt.list.certs
        /\ Names(env') \subseteq vol.receipt.env
    BY <1>1, <1>2 DEF Progress, Writing, Intended, Cleaning, Filling, Names
  <1> QED
    BY <1>1, <1>4, <1>7, <1>8, Within

\* The database entries beside them.
LEMMA EntrySteps == NetworkInv /\ (removeEntry \/ addEntry) => NetworkInv'
  <1> SUFFICES ASSUME NetworkInv, removeEntry \/ addEntry PROVE NetworkInv'
    OBVIOUS
  <1> DEFINE contents == IF run.pc = "remove" THEN Held \ run.half ELSE Held \cup run.half
  <1>1. /\ box = "apply" /\ run.pc \in {"remove", "add"}
        /\ vol' = [vol EXCEPT !.nss[run.db] = contents]
        /\ run' = [run EXCEPT !.half = {}]
        /\ UNCHANGED <<network, copy, anchors, bundle, env, box, changes, faults>>
    BY DEF removeEntry, addEntry, Entry, On, host, layer, Held
  <1>2. run \in Runs /\ vol \in Volumes /\ Progress /\ Held \subseteq Certs
    BY <1>1, Typing
  <1>3. contents \subseteq Certs /\ run.db \in Databases
    BY <1>2 DEF Runs
  <1>4. /\ vol'.receipt = vol.receipt /\ vol'.config = vol.config /\ vol'.legacy = vol.legacy
        /\ vol'.nss = [vol.nss EXCEPT ![run.db] = contents] /\ vol' \in Volumes
    BY <1>1, <1>2, <1>3 DEF Volumes
  <1>5. vol'.nss[run.db] = contents
        /\ \A d \in Databases : d # run.db => vol'.nss[d] = vol.nss[d]
    BY <1>2, <1>3, <1>4 DEF Volumes
  <1>6. /\ run'.todo = run.todo /\ run'.half = {} /\ run' \in Runs
        /\ run'.pc = run.pc /\ run'.old = run.old /\ run'.db = run.db /\ run'.vars = run.vars
    BY <1>1, <1>2 DEF Runs
  <1>7. TypeOK'
    BY <1>1, <1>4, <1>6 DEF NetworkInv, TypeOK
  <1>8. /\ Old' = Old /\ Config' = Config /\ Held' = contents /\ Chosen /\ Chosen'
        /\ Intended /\ Intended' /\ database' = database
    BY <1>1, <1>2, <1>4, <1>5, <1>6
       DEF Old, Config, Held, Chosen, Intended, database, Progress, Writing
  <1>9. /\ run.pc = "remove" => Cleaning'
        /\ run.pc = "add" => Filling'
    BY <1>1, <1>2, <1>6, <1>8 DEF Progress, Cleaning, Filling
  <1>10. Progress'
    BY <1>1, <1>2, <1>6, <1>8, <1>9 DEF Progress, Writing, Names
  <1>11. contents \subseteq vol.receipt.list.certs
    BY <1>1, <1>2, <1>8 DEF Progress, Intended, Cleaning, Filling
  <1>12. VolumesOK' /\ ReceiptCovers'
    BY <1>1, <1>2, <1>3, <1>4, <1>5, <1>8, <1>11 DEF NetworkInv, VolumesOK, VolumeOK, ReceiptCovers,
       Chosen, database, Databases
  <1> QED
    BY <1>1, <1>7, <1>10, <1>12 DEF NetworkInv, AppliedIsExact, Applying

\* The ends of the loops, and the bundle.
LEMMA TurnSteps == NetworkInv /\ (removed \/ added \/ applyBundle) => NetworkInv'
  <1> SUFFICES ASSUME NetworkInv, removed \/ added \/ applyBundle PROVE NetworkInv'
    OBVIOUS
  <1>1. /\ box = "apply" /\ UNCHANGED <<network, vol, copy, anchors, env, box, changes, faults>>
    BY DEF removed, added, applyBundle, Loop, On, host, layer
  <1>2. /\ run \in Runs /\ vol \in Volumes /\ Progress
        /\ Old \subseteq Certs /\ Config \subseteq Certs
    BY <1>1, Typing
  <1>3. ASSUME run' \in Runs, bundle' \subseteq Certs PROVE TypeOK'
    BY <1>1, <1>3 DEF NetworkInv, TypeOK
  <1>4. ASSUME run'.old = run.old, run'.db = run.db, run.pc # "intend", run'.pc # "intend"
        PROVE  /\ Old' = Old /\ Config' = Config /\ Held' = Held /\ (Chosen => Chosen')
               /\ (Intended => Intended')
    BY <1>1, <1>4 DEF Old, Config, Held, Chosen, Intended, database
  <1>5. CASE removed
    <2>1. /\ run.pc = "remove" /\ run.todo = {} /\ run.half = {} /\ bundle' = bundle
          /\ run' = [run EXCEPT !.pc = "add", !.todo = Config]
      BY <1>5 DEF removed, Loop, On, layer, Config
    <2>2. /\ run'.pc = "add" /\ run'.todo = Config /\ run'.half = {} /\ run' \in Runs
          /\ run'.old = run.old /\ run'.db = run.db
      BY <1>2, <2>1 DEF Runs, Labels
    <2>3. TypeOK'
      BY <1>3, <2>1, <2>2 DEF NetworkInv, TypeOK
    <2>4. Filling'
      BY <1>1, <1>2, <1>4, <2>1, <2>2 DEF Progress, Cleaning, Filling
    <2>5. Progress'
      BY <1>1, <1>2, <1>4, <2>1, <2>2, <2>4 DEF Progress, Writing, Names
    <2> QED
      BY <1>1, <1>2, <2>1, <2>3, <2>5, Within DEF Progress, Writing, Intended, Cleaning, Names
  <1>6. CASE added
    <2>1. /\ run.pc = "add" /\ run.todo = {} /\ run.half = {} /\ bundle' = bundle
          /\ run' = [run EXCEPT !.pc = "bundle", !.todo = {}]
      BY <1>6 DEF added, Loop, On, layer
    <2>2. /\ run'.pc = "bundle" /\ run'.half = {} /\ run' \in Runs
          /\ run'.old = run.old /\ run'.db = run.db
      BY <1>2, <2>1 DEF Runs, Labels
    <2>3. TypeOK'
      BY <1>3, <2>1, <2>2 DEF NetworkInv, TypeOK
    <2>4. Placed'
      BY <1>1, <1>2, <1>4, <2>1, <2>2 DEF Progress, Filling, Placed
    <2>5. Progress'
      BY <1>1, <1>2, <1>4, <2>1, <2>2, <2>4 DEF Progress, Writing, Names
    <2> QED
      BY <1>1, <1>2, <2>1, <2>3, <2>5, Within DEF Progress, Writing, Intended, Filling, Names
  <1>7. CASE applyBundle
    <2>1. /\ run.pc = "bundle" /\ run' = [run EXCEPT !.pc = "unset", !.vars = run.old.env]
          /\ bundle' = IF Config \cup Old # {} THEN anchors ELSE bundle
      BY <1>7 DEF applyBundle, On, Config, Old
    <2>2. /\ run'.pc = "unset" /\ run'.vars = run.old.env /\ run' \in Runs
          /\ run'.old = run.old /\ run'.db = run.db /\ run'.half = run.half
      BY <1>2, <2>1 DEF Runs, Labels, Receipts
    <2>3. /\ run.half = {} /\ Placed /\ Chosen /\ Intended /\ bundle \subseteq Old
          /\ Names(env) \subseteq run.old.env
      BY <1>2, <2>1 DEF Progress, Writing
    <2>4. bundle' = Config
      BY <2>1, <2>3 DEF Placed
    <2>5. TypeOK'
      BY <1>2, <1>3, <2>2, <2>4
    <2>6. Placed' /\ Chosen' /\ Intended' /\ Config' = Config
      BY <1>1, <1>4, <2>1, <2>2, <2>3 DEF Placed
    <2>7. Progress'
      BY <1>1, <2>2, <2>3, <2>4, <2>6 DEF Progress, Writing, Names
    <2> QED
      BY <1>1, <2>3, <2>4, <2>5, <2>7, Within DEF Intended, Placed, Names
  <1> QED
    BY <1>5, <1>6, <1>7

\* The environment: emptied of what there was, then filled.
LEMMA VariableSteps == NetworkInv /\ (unsetVariable \/ Cleared \/ setVariable) => NetworkInv'
  <1> SUFFICES ASSUME NetworkInv, unsetVariable \/ Cleared \/ setVariable PROVE NetworkInv'
    OBVIOUS
  <1>1. /\ box = "apply" /\ run.pc \in {"unset", "set"}
        /\ UNCHANGED <<network, vol, copy, anchors, bundle, box, changes, faults>>
    BY DEF unsetVariable, Cleared, setVariable, Variable, On, host, layer
  <1>2. /\ run \in Runs /\ vol \in Volumes /\ Progress /\ vol.config \in Configs
        /\ values(vol.config) \subseteq Variables /\ env \in Environments
    BY <1>1, Typing DEF NetworkInv, TypeOK
  <1>3. /\ Chosen /\ Intended /\ Placed /\ bundle = Config /\ run.half = {}
    BY <1>1, <1>2 DEF Progress, Writing
  <1>4. ASSUME run' \in Runs, env' \in Environments PROVE TypeOK'
    BY <1>1, <1>4 DEF NetworkInv, TypeOK
  <1>5. ASSUME run'.old = run.old, run'.db = run.db, run'.half = run.half,
               run'.pc \in {"unset", "set"}
        PROVE  /\ Chosen' /\ Intended' /\ Placed' /\ Config' = Config
               /\ bundle' = Config' /\ run'.half = {}
    BY <1>1, <1>3, <1>5 DEF Config, Old, Held, Chosen, Intended, Placed, database
  <1>6. anchors' \cup bundle' \subseteq vol.receipt.list.certs
    BY <1>1, <1>3 DEF Placed, Intended
  <1>7. CASE unsetVariable
    <2>1. PICK v \in run.vars :
             /\ run.pc = "unset" /\ env' = [env EXCEPT ![v] = None]
             /\ run' = [run EXCEPT !.vars = @ \ {v}]
      BY <1>2, <1>7 DEF unsetVariable, Variable, On, NoVariables, Runs
    <2>2. /\ run'.pc = "unset" /\ run'.vars = run.vars \ {v} /\ run' \in Runs
          /\ run'.old = run.old /\ run'.db = run.db /\ run'.half = run.half
      BY <1>2, <2>1 DEF Runs
    <2>3. env' \in Environments /\ Names(env') = Names(env) \ {v}
      BY <1>2, <2>1 DEF Environments, Names, Runs
    <2>4. Names(env) \subseteq run.vars /\ run.vars \subseteq run.old.env
      BY <1>2, <2>1 DEF Progress
    <2>5. Names(env') \subseteq run'.vars /\ run'.vars \subseteq run'.old.env
      BY <2>2, <2>3, <2>4
    <2>6. Progress'
      BY <1>5, <2>2, <2>5 DEF Progress, Writing, Names
    <2> QED
      BY <1>1, <1>3, <1>4, <1>6, <2>2, <2>3, <2>4, <2>6, Within DEF Intended
  <1>8. CASE Cleared
    <2>1. /\ run.pc = "unset" /\ run.vars = {} /\ env' = env
          /\ run' = [run EXCEPT !.pc = "set", !.vars = values(vol.config)]
      BY <1>8 DEF Cleared, On, layer
    <2>2. /\ run'.pc = "set" /\ run'.vars = values(vol.config) /\ run' \in Runs
          /\ run'.old = run.old /\ run'.db = run.db /\ run'.half = run.half
      BY <1>2, <2>1 DEF Runs, Labels
    <2>3. Names(env) = {}
      BY <1>2, <2>1 DEF Progress
    <2>4. Setting' /\ values(vol.config)' = values(vol.config)
      BY <1>1, <2>1, <2>2, <2>3 DEF Setting, Names, values
    <2>5. Progress'
      BY <1>1, <1>5, <2>2, <2>4 DEF Progress, Writing
    <2> QED
      BY <1>1, <1>2, <1>4, <1>6, <2>1, <2>2, <2>3, <2>5, Within
  <1>9. CASE setVariable
    <2>1. PICK v \in run.vars :
             /\ run.pc = "set" /\ env' = [env EXCEPT ![v] = vol.config.env[v]]
             /\ run' = [run EXCEPT !.vars = @ \ {v}]
      BY <1>9 DEF setVariable, Variable, On
    <2>2. /\ run'.pc = "set" /\ run'.vars = run.vars \ {v} /\ run' \in Runs
          /\ run'.old = run.old /\ run'.db = run.db /\ run'.half = run.half
      BY <1>2, <2>1 DEF Runs
    <2>3. Setting /\ run.vars \subseteq values(vol.config)
      BY <1>2, <2>1 DEF Progress
    <2>4. env' \in Environments
      BY <1>2, <2>1, <2>3 DEF Environments, Configs
    <2>5. Setting' /\ run'.vars \subseteq values(vol.config)'
      BY <1>1, <1>2, <2>1, <2>2, <2>3 DEF Setting, Environments, values
    <2>6. Names(env') \subseteq values(vol.config)
      BY <1>1, <2>5 DEF Setting, Names, values
    <2>7. Progress'
      BY <1>5, <2>2, <2>5 DEF Progress, Writing
    <2> QED
      BY <1>1, <1>3, <1>4, <1>6, <2>2, <2>4, <2>6, <2>7, Within DEF Intended
  <1> QED
    BY <1>7, <1>8, <1>9

\* The receipt is cut back to the configuration, and apply has succeeded.
LEMMA RecordStep == NetworkInv /\ applyRecord => NetworkInv'
  <1> SUFFICES ASSUME NetworkInv, applyRecord PROVE NetworkInv'
    OBVIOUS
  <1>1. /\ box = "apply" /\ run.pc = "set" /\ run.vars = {} /\ box' = "up"
        /\ vol' = [vol EXCEPT !.receipt = managed(vol.config)]
        /\ run' = [run EXCEPT !.pc = "done"]
        /\ UNCHANGED <<network, copy, anchors, bundle, env, changes, faults>>
    BY DEF applyRecord, On, Go, host, layer
  <1>2. /\ run \in Runs /\ vol \in Volumes /\ Progress /\ vol.config \in Configs
        /\ values(vol.config) \subseteq Variables
    BY <1>1, Typing
  <1>3. managed(vol.config) \in Receipts
    BY <1>2 DEF managed, Receipts, Configs
  <1>4. /\ vol'.receipt = managed(vol.config) /\ vol'.config = vol.config
        /\ vol'.legacy = vol.legacy /\ vol'.nss = vol.nss /\ vol' \in Volumes
    BY <1>1, <1>2, <1>3 DEF Volumes
  <1>5. run'.pc = "done" /\ run'.db = run.db /\ run' \in Runs
    BY <1>1, <1>2 DEF Runs, Labels
  <1>6. TypeOK'
    BY <1>1, <1>4, <1>5 DEF NetworkInv, TypeOK
  <1>7. Chosen /\ Placed /\ bundle = Config /\ Setting
    BY <1>1, <1>2 DEF Progress, Writing
  <1>8. env = vol.config.env
    <2>1. env \in Environments /\ vol.config.env \in Environments
      BY <1>2 DEF NetworkInv, TypeOK, Configs
    <2>2. \A v \in Variables : env[v] = vol.config.env[v]
      BY <1>1, <1>7 DEF Setting
    <2> QED
      BY <2>1, <2>2 DEF Environments
  <1>9. vol'.receipt.list.certs = Config /\ vol'.receipt.env = Names(env)
    BY <1>4, <1>8 DEF managed, values, Config, Names
  <1>10. VolumesOK' /\ ReceiptCovers'
    BY <1>1, <1>4, <1>7, <1>9 DEF NetworkInv, VolumesOK, VolumeOK, ReceiptCovers, database,
       Chosen, Placed, Held, Names
  <1>11. AppliedIsExact'
    BY <1>1, <1>4, <1>5, <1>7, <1>8 DEF AppliedIsExact, Placed, Held, Config
  <1> QED
    BY <1>1, <1>6, <1>10, <1>11 DEF NetworkInv, Applying

LEMMA Inductive == NetworkInv /\ [Next]_vars => NetworkInv'
  <1> SUFFICES ASSUME NetworkInv, [Next]_vars PROVE NetworkInv'
    OBVIOUS
  <1>1. CASE UNCHANGED vars
    BY <1>1 DEF vars, layer, NetworkInv, TypeOK, VolumesOK, VolumeOK, ReceiptCovers, AppliedIsExact,
       Applying, Progress, Chosen, Intended, Cleaning, Filling, Placed, Setting, Config, Old,
       Held, Names, database, values
  <1>2. CASE apply
    BY <1>2, ReadStep, IntendStep, FileSteps, EntrySteps, FailingSteps, TurnSteps, VariableSteps,
       RecordStep DEF apply
  <1> QED
    BY <1>1, <1>2, AroundSteps, FailingSteps DEF Next

LEMMA NetworkInvariant == Spec => []NetworkInv
  BY Initially, Inductive, PTL DEF Spec

\* Every variable keeps its type.
THEOREM NetworkTypeCorrect == Spec => []TypeOK
  <1>1. NetworkInv => TypeOK
    BY DEF NetworkInv
  <1> QED
    BY <1>1, NetworkInvariant, PTL

\* Whatever apply put in the container or in the database is named by the
\* receipt, at every moment of it and after every failure, kill or restore.
THEOREM ReceiptAlwaysCovers == Spec => []ReceiptCovers
  <1>1. NetworkInv => ReceiptCovers
    BY DEF NetworkInv
  <1> QED
    BY <1>1, NetworkInvariant, PTL

\* A successful apply leaves what the configuration says and nothing else.
THEOREM SuccessIsExact == Spec => []AppliedIsExact
  <1>1. NetworkInv => AppliedIsExact
    BY DEF NetworkInv
  <1> QED
    BY <1>1, NetworkInvariant, PTL

-----------------------------------------------------------------------------
(***************************************************************************)
(* How long an application can be.                                         *)
(***************************************************************************)
\* What the loop over certificates has left, and the one over variables.
Entries(o) == 2 * Cardinality(o.todo) + Cardinality(o.half)
C == Cardinality(Certs)
V == Cardinality(Variables)

\* At most so many steps are left of the application o.
Ahead(o) ==
    CASE o.pc = "read"   -> 2 * V + 6 * C + 7
      [] o.pc = "intend" -> 2 * V + 6 * C + 6
      [] o.pc = "remove" -> 2 * V + 3 * C + 5 + Entries(o)
      [] o.pc = "add"    -> 2 * V + 4 + Entries(o)
      [] o.pc = "bundle" -> 2 * V + 3
      [] o.pc = "unset"  -> V + 2 + Cardinality(o.vars)
      [] o.pc = "set"    -> 1 + Cardinality(o.vars)
      [] OTHER           -> 0

\* Sets of certificates and of variables are no larger than all of them.
LEMMA Sizes ==
  ASSUME IsFiniteSet(Certs), IsFiniteSet(Variables), NEW o \in Runs
  PROVE  /\ C \in Nat /\ V \in Nat
         /\ IsFiniteSet(o.todo) /\ IsFiniteSet(o.half) /\ IsFiniteSet(o.vars)
         /\ Cardinality(o.todo) \in Nat /\ Cardinality(o.todo) <= C
         /\ Cardinality(o.half) \in Nat /\ Cardinality(o.half) <= C
         /\ Cardinality(o.vars) \in Nat /\ Cardinality(o.vars) <= V
  <1>1. o.todo \in SUBSET Certs /\ o.half \in SUBSET Certs
        /\ o.vars \in SUBSET Variables
    BY DEF Runs
  <1>2. IsFiniteSet(o.todo) /\ IsFiniteSet(o.half) /\ IsFiniteSet(o.vars)
        /\ Cardinality(o.todo) <= C /\ Cardinality(o.half) <= C
        /\ Cardinality(o.vars) <= V
    BY <1>1, FS_Subset DEF C, V
  <1> QED BY <1>2, FS_CardinalityType DEF C, V

\* The two loops have less left after each of their steps.
LEMMA LoopsShrink ==
  ASSUME IsFiniteSet(Certs), IsFiniteSet(Variables), run \in Runs, run' \in Runs,
         removeAnchor \/ removeEntry \/ addAnchor \/ addEntry
  PROVE  run'.pc = run.pc /\ run.pc \in {"remove", "add"}
         /\ Entries(run') < Entries(run)
  <1>1. CASE removeAnchor \/ addAnchor
    <2>1. PICK c \in run.todo :
             /\ run' = [run EXCEPT !.todo = @ \ {c}, !.half = {c}]
             /\ run.half = {} /\ run.pc \in {"remove", "add"}
      BY <1>1 DEF removeAnchor, addAnchor, File, On
    <2>2. run'.pc = run.pc /\ run'.todo = run.todo \ {c} /\ run'.half = {c}
      BY <2>1 DEF Runs
    <2>3. /\ Cardinality(run'.todo) = Cardinality(run.todo) - 1
          /\ Cardinality(run'.half) = 1 /\ Cardinality(run.half) = 0
      BY <2>1, <2>2, Sizes, FS_RemoveElement, FS_Singleton, FS_EmptySet
    <2> QED BY <2>1, <2>2, <2>3, Sizes DEF Entries
  <1>2. CASE removeEntry \/ addEntry
    <2>1. /\ run' = [run EXCEPT !.half = {}] /\ run.half # {}
          /\ run.pc \in {"remove", "add"}
      BY <1>2 DEF removeEntry, addEntry, Entry, On
    <2>2. run'.pc = run.pc /\ run'.todo = run.todo /\ run'.half = {}
      BY <2>1 DEF Runs
    <2>3. Cardinality(run'.half) = 0 /\ Cardinality(run.half) # 0
      BY <2>1, <2>2, Sizes, FS_EmptySet
    <2> QED BY <2>1, <2>2, <2>3, Sizes DEF Entries
  <1> QED BY <1>1, <1>2

LEMMA VariablesShrink ==
  ASSUME IsFiniteSet(Certs), IsFiniteSet(Variables), run \in Runs, run' \in Runs,
         unsetVariable \/ setVariable
  PROVE  run'.pc = run.pc /\ run.pc \in {"unset", "set"}
         /\ Cardinality(run'.vars) < Cardinality(run.vars)
  <1>1. PICK v \in run.vars : /\ run' = [run EXCEPT !.vars = @ \ {v}]
                              /\ run.pc \in {"unset", "set"}
    BY DEF unsetVariable, setVariable, Variable, On
  <1>2. run'.pc = run.pc /\ run'.vars = run.vars \ {v}
    BY <1>1 DEF Runs
  <1>3. Cardinality(run'.vars) = Cardinality(run.vars) - 1
    BY <1>1, <1>2, Sizes, FS_RemoveElement
  <1> QED BY <1>1, <1>2, <1>3, Sizes

\* A certificate is refused because the receipt names it twice, and for no
\* other reason.
Refused == box = "apply" /\ run.pc = "remove" => run.again \subseteq run.old.list.twice

\* Each step of apply brings it nearer to its end.
LEMMA ApplyShrinks ==
  ASSUME IsFiniteSet(Certs), IsFiniteSet(Variables), NetworkInv, TypeOK', apply
  PROVE  Ahead(run') < Ahead(run)
  <1>1. run \in Runs /\ run' \in Runs BY DEF NetworkInv, TypeOK
  <1>2. /\ C \in Nat /\ V \in Nat
        /\ Cardinality(run.vars) \in Nat /\ Cardinality(run'.vars) \in Nat
        /\ Cardinality(run'.vars) <= V
        /\ Entries(run) \in Nat /\ Entries(run') \in Nat
        /\ Entries(run') <= 3 * C
    BY <1>1, Sizes DEF Entries
  <1>3. CASE removeAnchor \/ removeEntry \/ addAnchor \/ addEntry
    BY <1>1, <1>2, <1>3, LoopsShrink DEF Ahead
  <1>4. CASE unsetVariable \/ setVariable
    BY <1>1, <1>2, <1>4, VariablesShrink DEF Ahead
  <1>5. CASE applyRead \/ applyIntend
    <2>1. \/ run.pc = "read" /\ run'.pc = "intend"
          \/ run.pc = "intend" /\ run'.pc = "remove"
      BY <1>1, <1>5 DEF applyRead, applyIntend, On, Runs
    <2> QED BY <1>2, <2>1 DEF Ahead
  <1>6. CASE removed
    <2>1. run.pc = "remove" /\ run'.pc = "add" /\ run.half = {} /\ run'.half = {}
      BY <1>1, <1>6 DEF removed, Loop, On, Runs
    <2>2. Entries(run') <= 2 * C
      BY <1>1, <2>1, Sizes, FS_EmptySet DEF Entries
    <2> QED BY <1>2, <2>1, <2>2 DEF Ahead
  <1>7. CASE added \/ applyBundle
    <2>1. \/ run.pc = "add" /\ run'.pc = "bundle"
          \/ run.pc = "bundle" /\ run'.pc = "unset"
      BY <1>1, <1>7 DEF added, Loop, applyBundle, On, Runs
    <2> QED BY <1>2, <2>1 DEF Ahead
  <1>8. CASE Cleared \/ applyRecord \/ removeAgain
    <2>1. \/ run.pc = "unset" /\ run'.pc = "set"
          \/ run.pc = "set" /\ run'.pc = "done"
          \/ run.pc = "remove" /\ run'.pc = "failed"
      BY <1>1, <1>8 DEF Cleared, applyRecord, removeAgain, End, Go, On, Runs
    <2> QED BY <1>2, <2>1 DEF Ahead
  <1> QED BY <1>3, <1>4, <1>5, <1>6, <1>7, <1>8 DEF apply

LEMMA RefusedInductive ==
  ASSUME NetworkInv, Refused, [Next]_vars
  PROVE  Refused'
  <1>1. run \in Runs BY DEF NetworkInv, TypeOK
  <1>2. CASE applyIntend
    <2>1. run'.again \subseteq run'.old.list.twice
      BY <1>1, <1>2 DEF applyIntend, Runs
    <2> QED BY <2>1 DEF Refused
  <1>3. CASE \/ removeAnchor \/ removeEntry \/ addAnchor \/ addEntry
             \/ unsetVariable \/ setVariable
    <2>1. /\ run'.pc = run.pc /\ run'.again = run.again /\ run'.old = run.old
          /\ box' = box
      BY <1>1, <1>3 DEF removeAnchor, removeEntry, addAnchor, addEntry, File,
         Entry, unsetVariable, setVariable, Variable, On, Runs
    <2> QED BY <2>1 DEF Refused
  <1>4. CASE \/ applyRead \/ removeAgain \/ removed \/ added \/ applyBundle
             \/ Cleared \/ applyRecord \/ applyFails
    <2>1. run'.pc # "remove"
      BY <1>1, <1>4 DEF applyRead, removeAgain, removed, added, applyBundle,
         Cleared, applyRecord, applyFails, Loop, End, Go, Runs
    <2> QED BY <2>1 DEF Refused
  <1>5. CASE Around \/ UNCHANGED vars
    <2>1. (run' = run /\ box' \in {box, "up"}) \/ run' = NewRun
      BY <1>5 DEF Around, saveNetwork, syncNetwork, Boot, Halt, Recreate,
         Backup, Restore, LegacyAppears, vars
    <2> QED BY <2>1 DEF Refused, NewRun
  <1> QED BY <1>2, <1>3, <1>4, <1>5 DEF Next, apply

\* workstation-network:77-119.  An application takes at most 2 * V + 6 * C + 7
\* steps, and one that ends badly though no call of its own failed found a
\* certificate twice in its receipt: these are the two parts of RetrySucceeds
\* that do not speak of fairness.
THEOREM ApplyEnds ==
  ASSUME IsFiniteSet(Certs), IsFiniteSet(Variables)
  PROVE  Spec => [][apply => /\ Ahead(run') < Ahead(run)
                             /\ run'.pc = "failed" => run.old.list.twice # {}]_vars
<1> DEFINE A == apply => /\ Ahead(run') < Ahead(run)
                         /\ run'.pc = "failed" => run.old.list.twice # {}
<1>1. Init => Refused BY DEF Init, Refused
<1>2. NetworkInv /\ Refused /\ [Next]_vars => Refused'
  BY RefusedInductive
<1>3. NetworkInv /\ NetworkInv' /\ Refused /\ [Next]_vars => [A]_vars
  <2> SUFFICES ASSUME NetworkInv, NetworkInv', Refused, apply
               PROVE  A
    OBVIOUS
  <2>1. Ahead(run') < Ahead(run)
    BY ApplyShrinks DEF NetworkInv
  <2>2. ASSUME run'.pc = "failed" PROVE run.old.list.twice # {}
    <3>1. run \in Runs BY DEF NetworkInv, TypeOK
    <3>2. box = "apply" /\ run.pc # "failed"
      BY DEF apply, applyRead, applyIntend, removeAnchor, removeEntry,
         removeAgain, removed, addAnchor, addEntry, added, applyBundle,
         unsetVariable, Cleared, setVariable, applyRecord, File, Loop, Variable,
         On
    <3>3. removeAgain
      BY <2>2, <3>1, <3>2 DEF apply, applyRead, applyIntend, removeAnchor,
         removeEntry, removed, addAnchor, addEntry, added, applyBundle,
         unsetVariable, Cleared, setVariable, applyRecord, File, Entry, Loop,
         Variable, Go, Runs
    <3> QED BY <3>2, <3>3 DEF removeAgain, On, Refused
  <2> QED BY <2>1, <2>2
<1> HIDE DEF A
<1>4. Spec => [][A]_vars
  BY <1>1, <1>2, <1>3, NetworkInvariant, PTL DEF Spec
<1> QED BY <1>4 DEF A
=============================================================================
