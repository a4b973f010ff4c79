---------------------------- MODULE NetworkTrust ----------------------------
(***************************************************************************)
(* workstation-network apply, run by every start of the container: the     *)
(* certificates and variables of the volume's configuration replace those  *)
(* a receipt says were put there before.  Anchors, bundle and environment  *)
(* belong to the container and vanish with it; configuration, certificate  *)
(* databases and receipt belong to the personal volume, which a restore    *)
(* replaces by an older one.  apply may fail or be killed at any write.    *)
(*                                                                         *)
(* X_... is a definition X with a seeded fault; no action uses it.         *)
(***************************************************************************)
EXTENDS Naturals

CONSTANTS
    Certs,          \* certificate authorities a configuration can name
    Variables,      \* proxy variables
    Values,         \* values they can have
    Choices,        \* configurations the user saves in this instance
    MaxChanges,     \* bound: configurations the user saves
    MaxFaults,      \* bound: calls that fail
    None            \* no value, no copy

Environments == [Variables -> Values \cup {None}]
NoVariables  == [v \in Variables |-> None]
\* "twice": those that a list of certificates names more than once.
Lists        == {l \in [certs : SUBSET Certs, twice : SUBSET Certs] :
                    l.twice \subseteq l.certs}
NoList       == [certs |-> {}, twice |-> {}]
Configs      == [list : Lists, env : Environments]
ASSUME NetworkAssumption ==
    /\ MaxChanges \in Nat /\ MaxFaults \in Nat
    /\ None \notin Values /\ Choices \subseteq Configs
Receipts     == [list : Lists, env : SUBSET Variables]
Databases    == {"legacy", "shared"}
Volumes      == [config : Configs, receipt : Receipts,
                 legacy : BOOLEAN, nss : [Databases -> SUBSET Certs]]

NewVolume == [config |-> [list |-> NoList, env |-> NoVariables],
              receipt |-> [list |-> NoList, env |-> {}],
              legacy |-> FALSE, nss |-> [d \in Databases |-> {}]]

VARIABLES
    network,    \* network.json of the installation
    vol,        \* the personal volume
    copy,       \* the volume as a backup holds it, or None
    anchors,    \* certificates in the container's trust anchors
    bundle,     \* certificates in the bundle made of them
    env,        \* the container's environment
    box,        \* the container: stopped, applying, up
    run,        \* the process of apply, kept while the container is up
    changes,    \* how many configurations were saved
    faults      \* how many calls failed

layer == <<anchors, bundle, env>>
vars  == <<network, vol, copy, layer, box, run, changes, faults>>

Labels == {"read", "intend", "remove", "add", "bundle", "unset", "set",
           "done", "failed"}
\* "todo" and "vars": what the current loop has left; "half": the certificate
\* whose anchor is dealt with and whose database entry is not; "again": those
\* that the list of the database had and that are to be removed a second time.
Runs == [pc : Labels, old : Receipts, db : Databases, todo : SUBSET Certs,
         half : SUBSET Certs, again : SUBSET Certs, vars : SUBSET Variables]
NewRun == [pc |-> "read", old |-> NewVolume.receipt, db |-> "shared",
           todo |-> {}, half |-> {}, again |-> {}, vars |-> {}]

Init ==
    /\ network = NewVolume.config /\ vol = NewVolume /\ copy = None
    /\ anchors = {} /\ bundle = {} /\ env = NoVariables
    /\ box = "stopped" /\ run = NewRun
    /\ changes = 0 /\ faults = 0

\* The environment and the receipt of a configuration.
values(c)  == {v \in Variables : c.env[v] # None}
managed(c) == [list |-> c.list, env |-> values(c)]
database   == IF vol.legacy THEN "legacy" ELSE "shared"

(***************************************************************************)
(* apply.                                                                  *)
(***************************************************************************)
On(label) == box = "apply" /\ run.pc = label
host      == <<network, copy, changes, faults>>
Go(label) == run' = [run EXCEPT !.pc = label]

\* A write fails, is refused, or a command it calls does: the process ends,
\* and the container comes up all the same.
End       == box' = "up" /\ Go("failed")
applyFails ==
    /\ box = "apply" /\ faults < MaxFaults
    /\ faults' = faults + 1 /\ End
    /\ UNCHANGED <<network, vol, copy, layer, changes>>

\* The receipt is read and the database chosen.
applyRead ==
    /\ On("read")
    /\ run' = [run EXCEPT !.pc = "intend", !.old = vol.receipt,
                          !.db = database]
    /\ UNCHANGED <<host, vol, layer, box>>

applyIntend_newOnly ==
    /\ On("intend")
    /\ vol' = [vol EXCEPT !.receipt = managed(vol.config)]
    /\ run' = [run EXCEPT !.pc = "remove", !.todo = run.old.list.certs,
                          !.again = run.old.list.twice \cap vol.nss[run.db]]
    /\ UNCHANGED <<host, layer, box>>
\* Before anything changes the receipt names, once, what was there and what
\* will be.
applyIntend ==
    LET both == run.old.list.certs \cup vol.config.list.certs
    IN  /\ On("intend")
        /\ vol' = [vol EXCEPT !.receipt = [
               list |-> [certs |-> both, twice |-> {}],
               env |-> run.old.env \cup values(vol.config)]]
        /\ run' = [run EXCEPT
               !.pc = "remove", !.todo = run.old.list.certs,
               !.again = run.old.list.twice \cap vol.nss[run.db]]
        /\ UNCHANGED <<host, layer, box>>

\* One file of a loop over certificates, then the database entry beside it.
File(label, c, contents) ==
    /\ On(label) /\ run.half = {} /\ c \in run.todo
    /\ anchors' = contents
    /\ run' = [run EXCEPT !.todo = @ \ {c}, !.half = {c}]
    /\ UNCHANGED <<host, vol, bundle, env, box>>
Entry(contents) ==
    /\ vol' = [vol EXCEPT !.nss[run.db] = contents]
    /\ run' = [run EXCEPT !.half = {}]
    /\ UNCHANGED <<host, layer, box>>
Loop(label, next, todo) ==
    /\ On(label) /\ run.todo \cup run.half = {}
    /\ run' = [run EXCEPT !.pc = next, !.todo = todo]
    /\ UNCHANGED <<host, vol, layer, box>>

removeAnchor == \E c \in Certs : File("remove", c, anchors \ {c})
removeEntry_unlisted ==
    /\ On("remove") /\ run.half # {}
    /\ \/ /\ run.half \subseteq vol.nss[run.db]
          /\ Entry(vol.nss[run.db] \ run.half)
       \/ /\ ~(run.half \subseteq vol.nss[run.db])
          /\ End /\ UNCHANGED <<host, vol, layer>>
\* certutil refuses to delete what is not there, so the list is asked first.
\* It was asked once: a certificate that the receipt names again is refused.
removeEntry == /\ On("remove") /\ run.half # {}
               /\ Entry(vol.nss[run.db] \ run.half)
removeAgain ==
    /\ On("remove") /\ run.half = {} /\ run.again \ run.todo # {} /\ End
    /\ UNCHANGED <<host, vol, layer>>
removed == run.again = {} /\ Loop("remove", "add", vol.config.list.certs)

addAnchor == \E c \in Certs : File("add", c, anchors \cup {c})
addEntry  == /\ On("add") /\ run.half # {}
             /\ Entry(vol.nss[run.db] \cup run.half)
added     == Loop("add", "bundle", {})

applyBundle_whenConfigured ==
    /\ On("bundle")
    /\ bundle' = IF vol.config.list.certs # {} THEN anchors ELSE bundle
    /\ run' = [run EXCEPT !.pc = "unset", !.vars = run.old.env]
    /\ UNCHANGED <<host, vol, anchors, env, box>>
\* update-ca-trust, when there is or was a certificate.
applyBundle ==
    /\ On("bundle")
    /\ bundle' = IF vol.config.list.certs \cup run.old.list.certs # {} THEN anchors
                                                            ELSE bundle
    /\ run' = [run EXCEPT !.pc = "unset", !.vars = run.old.env]
    /\ UNCHANGED <<host, vol, anchors, env, box>>

\* The environment, one variable at a time.
Variable(label, contents) ==
    \E v \in run.vars :
        /\ On(label)
        /\ env' = [env EXCEPT ![v] = contents[v]]
        /\ run' = [run EXCEPT !.vars = @ \ {v}]
        /\ UNCHANGED <<host, vol, anchors, bundle, box>>
unsetVariable == Variable("unset", NoVariables)
setVariable   == Variable("set", vol.config.env)
Cleared ==
    /\ On("unset") /\ run.vars = {}
    /\ run' = [run EXCEPT !.pc = "set", !.vars = values(vol.config)]
    /\ UNCHANGED <<host, vol, layer, box>>

applyRecord ==
    /\ On("set") /\ run.vars = {}
    /\ vol' = [vol EXCEPT !.receipt = managed(vol.config)]
    /\ box' = "up" /\ Go("done")
    /\ UNCHANGED <<host, layer>>

apply == \/ applyRead \/ applyIntend \/ removeAnchor \/ removeEntry
         \/ removeAgain \/ removed \/ addAnchor \/ addEntry \/ added \/ applyBundle
         \/ unsetVariable \/ Cleared \/ setVariable \/ applyRecord

(***************************************************************************)
(* Around it.                                                              *)
(***************************************************************************)
\* network --network-config and --clear
saveNetwork(c) ==
    /\ changes < MaxChanges
    /\ network' = c /\ changes' = changes + 1
    /\ UNCHANGED <<vol, copy, layer, box, run, faults>>
\* start copies network.json into the volume of a container that is stopped.
syncNetwork ==
    /\ box = "stopped" /\ vol.config # network
    /\ vol' = [vol EXCEPT !.config = network]
    /\ UNCHANGED <<host, layer, box, run>>
\* The container starts, by this program or by hand; the service manager may
\* or may not begin with an empty environment.
Boot ==
    /\ box = "stopped" /\ box' = "apply" /\ run' = NewRun
    /\ env' \in {env, NoVariables}
    /\ UNCHANGED <<host, vol, anchors, bundle>>
Halt ==
    /\ box # "stopped" /\ box' = "stopped" /\ run' = NewRun
    /\ UNCHANGED <<host, vol, layer>>
Recreate ==
    /\ box = "stopped" /\ layer # <<{}, {}, NoVariables>>
    /\ anchors' = {} /\ bundle' = {} /\ env' = NoVariables
    /\ UNCHANGED <<host, vol, box, run>>
Backup ==
    /\ box = "stopped" /\ copy # vol /\ copy' = vol
    /\ UNCHANGED <<network, vol, layer, box, run, changes, faults>>
\* A restore removes the container and leaves another volume to the next one.
Restore ==
    /\ box = "stopped" /\ copy # None /\ vol' = copy
    /\ anchors' = {} /\ bundle' = {} /\ env' = NoVariables
    /\ UNCHANGED <<host, box, run>>
\* An application of the desktop makes the database of older releases.
LegacyAppears ==
    /\ box = "up" /\ ~vol.legacy /\ vol' = [vol EXCEPT !.legacy = TRUE]
    /\ UNCHANGED <<host, layer, box, run>>

Around == \/ \E c \in Choices : saveNetwork(c)
          \/ syncNetwork \/ Boot \/ Halt \/ Recreate \/ Backup \/ Restore
          \/ LegacyAppears

Next == apply \/ applyFails \/ Around

\* The process of apply goes on while the container runs; nothing obliges the
\* user to start it, to stop it or to save a configuration.
Spec == Init /\ [][Next]_vars /\ WF_vars(apply)

-----------------------------------------------------------------------------
TypeOK ==
    /\ network \in Configs /\ vol \in Volumes
    /\ copy \in Volumes \cup {None}
    /\ anchors \subseteq Certs /\ bundle \subseteq Certs
    /\ env \in Environments
    /\ box \in {"stopped", "apply", "up"} /\ run \in Runs
    /\ changes \in Nat /\ faults \in Nat

\* workstation-network:90-93 and :119.  At every moment, after any failure or
\* kill, and on a volume brought back by a restore, the receipt names every
\* certificate in the anchors, the bundle and the database in use, and every
\* variable: whatever was put there can still be taken away.
ReceiptCovers ==
    /\ anchors \cup bundle \cup vol.nss[database] \subseteq vol.receipt.list.certs
    /\ {v \in Variables : env[v] # None} \subseteq vol.receipt.env

\* workstation-network:99-119.  When apply has succeeded the anchors, the
\* bundle, its database and the environment hold what the configuration says
\* and nothing a former one said, whatever was cut short before.
AppliedIsExact ==
    box = "up" /\ run.pc = "done" =>
        /\ anchors = vol.config.list.certs /\ bundle = vol.config.list.certs
        /\ vol.nss[run.db] = vol.config.list.certs
        /\ env = vol.config.env

\* workstation-network:88-89, "A failed apply can then be retried or cleared".
\* Once calls no longer fail an application begun succeeds, whatever the
\* former ones left, unless the container is stopped first.  It must not find a
\* certificate twice in the receipt, which only an application that succeeded
\* leaves: the one after that fails, and its retry is of the kind stated here.
RetrySucceeds ==
    On("read") /\ vol.receipt.list.twice = {} /\ faults = MaxFaults
        ~> box = "stopped" \/ (box = "up" /\ run.pc = "done")
=============================================================================
