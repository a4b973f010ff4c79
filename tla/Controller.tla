------------------------------ MODULE Controller ------------------------------
(***************************************************************************)
(* One installation directory: install, the dispatch of commands by their  *)
(* lock, and the localhost certificate.  The certificate is renewed by the *)
(* container's start in the personal volume; the commands copy it to the   *)
(* directory, archive it and add it to the store of trusted roots.         *)
(* Commands are processes, killed or failing at any step.                  *)
(*                                                                         *)
(* backup and restore appear by what they do to the certificates and the   *)
(* profile (Installation has them call by call).                           *)
(* X_... is a definition X with a seeded fault; no action uses it.         *)
(***************************************************************************)
EXTENDS Naturals

CONSTANTS
    Users,          \* command lines and shortcuts that run commands
    MaxCerts,       \* bound: certificates made
    MaxInstalls,    \* bound: installs begun
    MaxCommands,    \* bound: other commands begun
    None,           \* no copy, no profile read, no holder
    Absent, Empty   \* profile.json: no file, a file without contents

Certs    == 1 .. MaxCerts       \* in the order of their expiry
Profiles == [id : 1 .. MaxInstalls, home : Nat]
ASSUME ControllerAssumption ==
    /\ MaxCerts \in Nat \ {0} /\ MaxInstalls \in Nat \ {0} /\ MaxCommands \in Nat
    /\ None \notin Users
    /\ Absent # Empty /\ {Absent, Empty} \cap Profiles = {}
Volumes  == [key : 0 .. MaxCerts, cert : 0 .. MaxCerts, marker : BOOLEAN]
Files    == {"none", "torn", "whole"}
Commands == {"install", "start", "certificate", "trust", "untrust", "backup",
             "restore"}
Labels   == {"idle", "network", "read", "truncate", "fill", "create", "write",
             "lock", "reread", "boot", "await", "fetch", "previous",
             "archive", "export", "trust", "glob", "forget", "copy",
             "files", "profile", "told"}

VARIABLES
    profile,    \* profile.json
    program,    \* the copy of the program in tools
    network,    \* whether there is a network.json
    lock,       \* who holds .operation.lock
    proc,       \* the process of each user
    box,        \* the container, and how far its renewal is
    volume,     \* certificate, key and marker of the personal volume
    copy,       \* what the last backup holds
    cached,     \* localhost.crt of the directory, 0 when absent
    archive,    \* the directory's certificates
    store,      \* this installation's certificates in the trusted roots
    made,       \* certificates made
    near,       \* those up to this one are within 30 days of their expiry
    expired,    \* those up to this one have expired
    installs,   \* installs begun
    commands,   \* other commands begun
    lost,       \* history: the key was lost in a power failure
    overlap     \* history: two installs ran at once

install_    == <<profile, program, network>>
container   == <<box, volume, made>>
trusting    == <<cached, archive, store>>
clock       == <<near, expired>>
history     == <<installs, commands, lost, overlap>>
vars == <<install_, lock, proc, container, copy, trusting, clock, history>>

NewVolume == [key |-> 0, cert |-> 0, marker |-> FALSE]
Idle == [cmd |-> "install", pc |-> "idle", p |-> None, half |-> FALSE,
         got |-> 0, todo |-> {}]

\* An empty directory, or an installation that an older controller, which had
\* no archive, left with its certificate trusted.
Init ==
    /\ \/ /\ profile = Absent /\ program = "none" /\ box = "none"
          /\ volume = NewVolume /\ made = 0 /\ cached = 0 /\ store = {}
          /\ installs = 0
       \/ /\ profile = [id |-> 1, home |-> 0] /\ program = "whole"
          /\ box = "off" /\ volume = [key |-> 1, cert |-> 1, marker |-> TRUE]
          /\ made = 1 /\ cached = 1 /\ store = {1} /\ installs = 1
    /\ network = FALSE /\ lock = None /\ proc = [u \in Users |-> Idle]
    /\ copy = None /\ archive = [c \in Certs |-> "none"]
    /\ near = 0 /\ expired = 0 /\ commands = 0
    /\ lost = FALSE /\ overlap = FALSE

At(u, label) == proc[u].pc = label
Go(u, label) == proc' = [proc EXCEPT ![u].pc = label]

\* What remains to be done is to report the result.
Told(u) == proc' = [proc EXCEPT ![u] = [Idle EXCEPT !.cmd = proc[u].cmd,
                                                    !.pc = "told"]]
\* A command ends: it is done, fails at any call, or is killed.  Whatever its
\* deferred functions remove is invisible here; the lock goes with the process.
Ends(u) ==
    /\ ~At(u, "idle")
    /\ proc' = [proc EXCEPT ![u] = Idle]
    /\ lock' = IF lock = u THEN None ELSE lock
    /\ UNCHANGED <<install_, container, copy, trusting, clock, history>>

(***************************************************************************)
(* install, without the lock.                                              *)
(***************************************************************************)
outside == <<lock, container, copy, trusting, clock>>

Installing(u) == proc[u].cmd = "install" /\ ~At(u, "idle")
installBegins(u) ==
    /\ At(u, "idle") /\ profile = Absent /\ installs < MaxInstalls
    /\ installs' = installs + 1
    /\ proc' = [proc EXCEPT ![u] = [Idle EXCEPT
                   !.pc = "network", !.p = [id |-> installs', home |-> 0]]]
    /\ overlap' = (overlap \/ \E v \in Users : Installing(v))
    /\ UNCHANGED <<install_, outside, commands, lost>>
installNetwork(u) ==
    /\ At(u, "network") /\ Go(u, "read")
    /\ network' \in {network, TRUE}
    /\ UNCHANGED <<profile, program, outside, history>>

copyProgram_exists(u) ==
    /\ At(u, "read")
    /\ IF program = "none" THEN Go(u, "truncate") ELSE Go(u, "create")
    /\ UNCHANGED <<install_, outside, history>>
\* An existing file is only accepted when it is the same.
copyProgram(u) ==
    /\ At(u, "read") /\ program # "torn"
    /\ IF program = "none" THEN Go(u, "truncate") ELSE Go(u, "create")
    /\ UNCHANGED <<install_, outside, history>>
copyTruncates(u) ==
    /\ At(u, "truncate") /\ Go(u, "fill") /\ program' = "torn"
    /\ UNCHANGED <<profile, network, outside, history>>
copyFills(u) ==
    /\ At(u, "fill") /\ Go(u, "create") /\ program' = "whole"
    /\ UNCHANGED <<profile, network, outside, history>>

installCreates_replacing(u) ==
    /\ At(u, "create") /\ Go(u, "write") /\ profile' = Empty
    /\ UNCHANGED <<program, network, outside, history>>
\* The profile is created only where there is none (O_EXCL), then written.
installCreates(u) ==
    /\ At(u, "create") /\ profile = Absent /\ Go(u, "write")
    /\ profile' = Empty
    /\ UNCHANGED <<program, network, outside, history>>
installWrites(u) ==
    /\ At(u, "write") /\ Told(u) /\ profile' = proc[u].p
    /\ UNCHANGED <<program, network, outside, history>>

install(u) ==
    \/ installBegins(u) \/ installNetwork(u) \/ copyProgram(u)
    \/ copyTruncates(u) \/ copyFills(u) \/ installCreates(u)
    \/ installWrites(u)

(***************************************************************************)
(* run: a command reads the profile, takes the lock, by trying once or,    *)
(* for the certificate commands, until ten seconds have passed, and reads  *)
(* the profile again.                                                      *)
(***************************************************************************)
first == [start |-> "boot", certificate |-> "fetch", trust |-> "fetch",
          untrust |-> "glob", backup |-> "copy", restore |-> "files"]

runOpens(u) == \E cmd \in Commands \ {"install"} :
    /\ At(u, "idle") /\ commands < MaxCommands /\ commands' = commands + 1
    /\ profile \notin {Absent, Empty}
    /\ proc' = [proc EXCEPT ![u] = [Idle EXCEPT
                   !.cmd = cmd, !.pc = "lock", !.p = profile]]
    /\ UNCHANGED <<install_, outside, installs, lost, overlap>>
\* The lock is exclusive, and never waited for in the operating system.
lockOperationFile(u) == lock = None /\ lock' = u
runLocks(u) ==
    /\ At(u, "lock") /\ lockOperationFile(u) /\ Go(u, "reread")
    /\ UNCHANGED <<install_, container, copy, trusting, clock, history>>
runRereads_omitted(u) ==
    /\ At(u, "reread") /\ Go(u, first[proc[u].cmd])
    /\ UNCHANGED <<install_, outside, history>>
runRereads(u) ==
    /\ At(u, "reread")
    /\ proc' = [proc EXCEPT ![u].p = profile, ![u].pc = first[proc[u].cmd]]
    /\ UNCHANGED <<install_, outside, history>>

startBoots(u) ==
    /\ At(u, "boot") /\ Go(u, "await")
    /\ box' = IF box \in {"none", "off"} THEN "check" ELSE box
    /\ UNCHANGED <<install_, lock, volume, made, copy, trusting, clock,
                   history>>
startAwaits(u) ==
    /\ At(u, "await") /\ box = "up" /\ Go(u, "fetch")
    /\ UNCHANGED <<install_, outside, history>>

dispatch(u) == \/ runOpens(u) \/ runLocks(u) \/ runRereads(u)
               \/ startBoots(u) \/ startAwaits(u)

(***************************************************************************)
(* certificate, at the end of start too; trust and untrust.                *)
(***************************************************************************)
inside == <<install_, lock, container, copy, clock, history>>

fetch_current(u) ==
    /\ At(u, "fetch") /\ box # "none" /\ volume.cert > expired
    /\ proc' = [proc EXCEPT ![u].got = volume.cert, ![u].pc = "archive"]
    /\ UNCHANGED <<inside, trusting>>
\* docker cp, from a container that runs or not.
fetch(u) ==
    /\ At(u, "fetch") /\ box # "none" /\ volume.cert > expired
    /\ proc' = [proc EXCEPT ![u].got = volume.cert,
                   ![u].pc = IF cached = 0 THEN "archive" ELSE "previous"]
    /\ UNCHANGED <<inside, trusting>>
\* archiveCertificate writes over the file of that certificate.
archiving(u) == IF At(u, "previous") THEN cached ELSE proc[u].got
archiveTruncates(u) ==
    /\ proc[u].pc \in {"previous", "archive"} /\ ~proc[u].half
    /\ archive' = [archive EXCEPT ![archiving(u)] = "torn"]
    /\ proc' = [proc EXCEPT ![u].half = TRUE]
    /\ UNCHANGED <<inside, cached, store>>
archiveWrites(u) ==
    /\ proc[u].half
    /\ archive' = [archive EXCEPT ![archiving(u)] = "whole"]
    /\ proc' = [proc EXCEPT ![u].half = FALSE,
                   ![u].pc = IF @ = "previous" THEN "archive" ELSE "export"]
    /\ UNCHANGED <<inside, cached, store>>
certificateExports(u) ==
    /\ At(u, "export") /\ cached' = proc[u].got
    /\ IF proc[u].cmd = "trust" THEN Go(u, "trust") ELSE Told(u)
    /\ UNCHANGED <<inside, archive, store>>
trust(u) ==
    /\ At(u, "trust") /\ store' = store \cup {proc[u].got} /\ Told(u)
    /\ UNCHANGED <<inside, cached, archive>>

\* The archive is listed once; localhost.crt is the first to be forgotten.
untrustLists(u) ==
    /\ At(u, "glob") /\ store' = store \ {cached}
    /\ proc' = [proc EXCEPT ![u].pc = "forget",
                   ![u].todo = {c \in Certs : archive[c] # "none"}]
    /\ UNCHANGED <<inside, cached, archive>>
\* A file that is not whole ends untrust with an error.
untrustForgets(u) == \E c \in proc[u].todo :
    /\ At(u, "forget") /\ archive[c] = "whole"
    /\ store' = store \ {c}
    /\ proc' = [proc EXCEPT ![u].todo = @ \ {c}]
    /\ UNCHANGED <<inside, cached, archive>>
untrustDone(u) ==
    /\ At(u, "forget") /\ proc[u].todo = {} /\ Told(u)
    /\ UNCHANGED <<inside, trusting>>

certificates(u) ==
    \/ fetch(u) \/ archiveTruncates(u) \/ archiveWrites(u)
    \/ certificateExports(u) \/ trust(u)
    \/ untrustLists(u) \/ untrustForgets(u) \/ untrustDone(u)

(***************************************************************************)
(* backup and restore.                                                     *)
(***************************************************************************)
\* A copy needs every archived certificate whole.
backup(u) ==
    /\ At(u, "copy") /\ \A c \in Certs : archive[c] # "torn"
    /\ copy' = [volume |-> volume,
                files |-> {c \in Certs : archive[c] # "none" \/ c = cached}]
    /\ box' = IF box = "none" THEN "none" ELSE "off"
    /\ Told(u)
    /\ UNCHANGED <<install_, lock, volume, made, trusting, clock, history>>
restoreFiles(u) ==
    /\ At(u, "files") /\ copy # None /\ Go(u, "profile")
    /\ archive' = [c \in Certs |-> IF c \in copy.files THEN "whole"
                                                       ELSE archive[c]]
    /\ box' = "none"
    /\ UNCHANGED <<install_, lock, volume, made, copy, cached, store, clock,
                   history>>
restoreProfile(u) ==
    /\ At(u, "profile") /\ Told(u)
    /\ profile' = [proc[u].p EXCEPT !.home = @ + 1]
    /\ volume' = copy.volume
    /\ UNCHANGED <<program, network, lock, box, made, copy, trusting, clock,
                   history>>
copies(u) == backup(u) \/ restoreFiles(u) \/ restoreProfile(u)

(***************************************************************************)
(* The container.                                                          *)
(***************************************************************************)
host == <<install_, lock, proc, copy, trusting, installs, commands, overlap>>

renewal == \/ ~volume.marker \/ volume.key = 0
           \/ volume.cert = 0 \/ volume.cert <= near
sessionKeeps ==
    /\ box = "check" /\ ~renewal /\ box' = "up"
    /\ UNCHANGED <<host, volume, made, clock, lost>>
moveKey_certificate ==
    /\ box = "check" /\ renewal /\ made < MaxCerts /\ box' = "moved"
    /\ made' = made + 1 /\ volume' = [volume EXCEPT !.cert = made']
    /\ UNCHANGED <<host, clock, lost>>
moveCert_key ==
    /\ box = "moved" /\ box' = "placed"
    /\ volume' = [volume EXCEPT !.key = made]
    /\ UNCHANGED <<host, made, clock, lost>>
\* The new key replaces the old one, then the new certificate.
moveKey ==
    /\ box = "check" /\ renewal /\ made < MaxCerts /\ box' = "moved"
    /\ made' = made + 1 /\ volume' = [volume EXCEPT !.key = made']
    /\ UNCHANGED <<host, clock, lost>>
moveCert ==
    /\ box = "moved" /\ box' = "placed"
    /\ volume' = [volume EXCEPT !.cert = made]
    /\ UNCHANGED <<host, made, clock, lost>>
sessionMarks ==
    /\ box = "placed" /\ box' = "up"
    /\ volume' = [volume EXCEPT !.marker = TRUE]
    /\ UNCHANGED <<host, made, clock, lost>>

boot ==
    /\ box = "off" /\ box' = "check"
    /\ UNCHANGED <<host, volume, made, clock, lost>>
halt ==
    /\ box \notin {"none", "off"} /\ box' = "off"
    /\ UNCHANGED <<host, volume, made, clock, lost>>
\* A power failure leaves the key's file empty.
loseKey ==
    /\ box = "off" /\ ~lost /\ volume.key # 0
    /\ volume' = [volume EXCEPT !.key = 0] /\ lost' = TRUE
    /\ UNCHANGED <<host, box, made, clock>>
\* Months go by while nothing runs.
age ==
    /\ lock = None /\ box \in {"none", "off"}
    /\ \/ near < made /\ near' = near + 1 /\ expired' = expired
       \/ expired < near /\ expired' = expired + 1 /\ near' = near
    /\ UNCHANGED <<host, container, lost>>

session == \/ sessionKeeps \/ moveKey \/ moveCert \/ sessionMarks
           \/ boot \/ halt \/ loseKey \/ age

Command(u) == \/ install(u) \/ dispatch(u) \/ certificates(u) \/ copies(u)
              \/ Ends(u)
Next == session \/ \E u \in Users : Command(u)
Spec == Init /\ [][Next]_vars

-----------------------------------------------------------------------------
Processes == [cmd : Commands, pc : Labels, p : Profiles \cup {None},
              half : BOOLEAN, got : 0 .. MaxCerts, todo : SUBSET Certs]
TypeOK ==
    /\ profile \in Profiles \cup {Absent, Empty}
    /\ program \in Files /\ network \in BOOLEAN
    /\ lock \in Users \cup {None} /\ proc \in [Users -> Processes]
    /\ box \in {"none", "off", "check", "moved", "placed", "up"}
    /\ volume \in Volumes
    /\ copy \in [volume : Volumes, files : SUBSET Certs] \cup {None}
    /\ cached \in 0 .. MaxCerts /\ archive \in [Certs -> Files]
    /\ store \subseteq Certs
    /\ made \in 0 .. MaxCerts /\ near \in 0 .. made /\ expired \in 0 .. near
    /\ installs \in Nat /\ commands \in Nat
    /\ lost \in BOOLEAN /\ overlap \in BOOLEAN

Working(u) == proc[u].cmd # "install"
              /\ proc[u].pc \notin {"idle", "lock", "reread", "told"}

\* main.go:152-182.  A command works alone, and on the profile that is on the
\* disk: a restore that ended between its first look and its lock is not lost.
WorksOnProfile ==
    \A u \in Users : Working(u) => lock = u /\ profile = proc[u].p

\* main.go:361 and :429.  Installs that race, on a directory that another one
\* is installing, never give an installation another identity: its container
\* and volume, labelled with the first, would be refused as someone else's.
IdentityKept ==
    [][profile \notin {Absent, Empty} =>
          profile' \notin {Absent, Empty} /\ profile'.id = profile.id]_vars

\* main.go:449-454.  An installation's copy of the program is whole, however
\* many installs were killed before; it does not hold for two at once, the
\* slower of which truncates what the faster one wrote.
InstalledIsWhole ==
    profile \notin {Absent, Empty} /\ ~overlap => program = "whole"

\* README.md:37 and :117.  When untrust succeeds no certificate of this
\* installation is trusted, after renewals, restores and commands killed at any
\* write, and with one that an older controller trusted.
UntrustIsComplete ==
    \A u \in Users :
        proc[u].cmd = "untrust" /\ At(u, "told") => store = {}

\* 20-workstation-session.sh:43-58.  A desktop that is served has the key of
\* its certificate, whatever renewals were cut short: the next start renews
\* again.  Only a renewal begun because the key was lost is not repeated.
PairMatches == box = "up" /\ ~lost => volume.key = volume.cert
=============================================================================
