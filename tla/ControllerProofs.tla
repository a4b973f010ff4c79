-------------------------- MODULE ControllerProofs --------------------------
(***************************************************************************)
(* For any users and bounds: commands work alone and on the profile of the *)
(* disk, an installation keeps its identity and its program, untrust       *)
(* leaves nothing trusted, and a served desktop has the key of its         *)
(* certificate.                                                            *)
(***************************************************************************)
EXTENDS Controller, TLAPS

InstallLabels == {"network", "read", "truncate", "fill", "create", "write"}
Inside  == {"boot", "await", "fetch", "previous", "archive", "export", "trust",
            "glob", "forget", "copy", "files", "profile"}
Holding == Inside \cup {"reread"}

\* A process by its label: what it runs, whether it has the lock, and that the
\* profile it found is still there.
Role(u) ==
    /\ proc[u].pc \in InstallLabels => proc[u].cmd = "install" /\ proc[u].p \in Profiles
    /\ proc[u].pc \in Holding \cup {"lock"} =>
           proc[u].cmd # "install" /\ profile \in Profiles
    /\ proc[u].pc \in Holding => lock = u
    /\ proc[u].pc = "told" /\ proc[u].cmd # "install" => lock = u
    /\ proc[u].pc = "write" => profile = Empty
Work(u) == proc[u].pc \in Inside => proc[u].p = profile

\* Only one process creates the profile; and, when installs do not overlap,
\* the program is whole before that.
Writers == \A u, v \in Users : At(u, "write") /\ At(v, "write") => u = v
Fresh ==
    ~overlap =>
        /\ \A u, v \in Users : Installing(u) /\ Installing(v) => u = v
        /\ \A u \in Users :
               /\ proc[u].pc \in InstallLabels \ {"write"} => profile = Absent
               /\ proc[u].pc \in {"create", "write"} => program = "whole"
        /\ profile \in Profiles => program = "whole"

\* Every trusted certificate is archived, or is localhost.crt, which is
\* archived before another one replaces it.
Kept(c) == c \in Certs /\ archive[c] # "none"
Known   == \A c \in store : Kept(c) \/ c = cached
Certified(u) ==
    /\ proc[u].half => proc[u].pc \in {"previous", "archive"} /\ Kept(archiving(u))
    /\ proc[u].pc = "previous" => cached # 0
    /\ proc[u].pc \in {"previous", "archive", "export", "trust"} => proc[u].got \in Certs
    /\ proc[u].pc \in {"archive", "export"} /\ cached # 0 => Kept(cached)
    /\ proc[u].pc \in {"export", "trust"} => Kept(proc[u].got)
    /\ proc[u].cmd = "untrust" =>
           proc[u].pc \in {"idle", "lock", "reread", "glob", "forget", "told"}
    /\ proc[u].pc = "forget" => store \subseteq proc[u].todo
    /\ proc[u].pc = "told" /\ proc[u].cmd = "untrust" => store = {}

\* A volume whose next start either keeps a pair that matches or renews it.
Sound(v) == v.key = v.cert \/ ~v.marker \/ v.cert = 0 \/ v.cert <= near
Paired ==
    /\ ~lost => Sound(volume) /\ (copy # None => Sound(copy.volume))
    /\ box = "moved" => volume.key = made
    /\ box = "placed" => volume.key = made /\ volume.cert = made
    /\ PairMatches
Ready(u) == proc[u].pc = "profile" => box = "none" /\ copy # None

Process(u) == Role(u) /\ Work(u) /\ Certified(u) /\ Ready(u)

\* The inductive invariant.
ControllerInv ==
    /\ TypeOK /\ (\A u \in Users : Process(u))
    /\ Writers /\ Fresh /\ Known /\ Paired

\* A process is replaced by another, and the others stay.
Others(u) == /\ proc' \in [Users -> Processes]
             /\ \A v \in Users \ {u} : proc'[v] = proc[v]
LEMMA Put ==
  ASSUME NEW u \in Users, NEW r \in Processes, proc \in [Users -> Processes],
         proc' = [proc EXCEPT ![u] = r]
  PROVE  Others(u) /\ proc'[u] = r
  BY DEF Others

LEMMA Types == TypeOK => proc \in [Users -> Processes] /\ \A u \in Users :
    /\ proc[u] \in Processes /\ proc[u].pc \in Labels /\ proc[u].cmd \in Commands
    /\ proc[u].got \in 0 .. MaxCerts /\ proc[u].half \in BOOLEAN
    /\ proc[u].todo \subseteq Certs /\ proc[u].p \in Profiles \cup {None}
  BY DEF TypeOK, Processes

LEMMA IdleType ==
  /\ Idle \in Processes /\ Idle.pc = "idle" /\ Idle.cmd = "install"
  /\ ~Idle.half /\ Idle.got = 0
  <1>1. Idle \in Processes
    BY ControllerAssumption DEF Idle, Processes, Commands, Labels, Certs
  <1> QED
    BY <1>1 DEF Idle

LEMMA Initially == Init => ControllerInv
  <1> SUFFICES ASSUME Init PROVE ControllerInv
    OBVIOUS
  <1>1. Idle \in Processes
    BY IdleType
  <1>2. TypeOK
    <2>1. /\ [id |-> 1, home |-> 0] \in Profiles /\ NewVolume \in Volumes
          /\ [key |-> 1, cert |-> 1, marker |-> TRUE] \in Volumes
          /\ 1 \in Certs /\ 1 \in 0 .. MaxCerts /\ 0 \in 0 .. MaxCerts
          /\ 0 \in 0 .. 0 /\ 0 \in 0 .. 1
      BY ControllerAssumption DEF Profiles, NewVolume, Volumes, Certs
    <2>2. /\ proc \in [Users -> Processes] /\ archive \in [Certs -> Files]
          /\ made \in 0 .. MaxCerts /\ near \in 0 .. made /\ expired \in 0 .. near
          /\ volume \in Volumes /\ profile \in Profiles \cup {Absent, Empty}
      BY <1>1, <2>1 DEF Init, Files
    <2>3. /\ program \in Files /\ network \in BOOLEAN /\ lost \in BOOLEAN
          /\ overlap \in BOOLEAN /\ box \in {"none", "off", "check", "moved", "placed", "up"}
      BY DEF Init, Files
    <2>4. /\ lock = None /\ copy = None /\ cached \in 0 .. MaxCerts
          /\ store \subseteq Certs /\ installs \in Nat /\ commands \in Nat
      BY <2>1 DEF Init
    <2> QED
      BY <2>2, <2>3, <2>4 DEF TypeOK
  <1>3. \A u \in Users : proc[u] = Idle
    BY DEF Init
  <1>4. \A u \in Users : Process(u)
    <2> QED
      BY <1>3, IdleType DEF Process, Role, Work, Certified, Ready, Holding, Inside, InstallLabels
  <1>5. Writers /\ Fresh
    BY <1>3, ControllerAssumption DEF Init, Writers, Fresh, At, Installing, Idle, InstallLabels
  <1>6. Known /\ Paired
    BY DEF Init, Known, Paired, PairMatches, Sound, NewVolume
  <1> QED
    BY <1>2, <1>4, <1>5, <1>6 DEF ControllerInv

\* Whoever has the lock is the only one at work.
LEMMA Alone ==
  ASSUME ControllerInv, NEW u \in Users, lock = u, NEW v \in Users, v # u
  PROVE  /\ proc[v].pc \notin Holding /\ ~proc[v].half
         /\ ~(proc[v].pc = "told" /\ proc[v].cmd # "install")
  <1>1. Process(v) /\ proc[v].half \in BOOLEAN
    BY Types DEF ControllerInv
  <1> QED
    BY <1>1 DEF Process, Role, Certified, Holding, Inside

\* A step of the process at work changes nothing for the others.
LEMMA HolderKeeps ==
  ASSUME ControllerInv, NEW u \in Users, proc[u].pc \in Holding, Others(u),
         proc'[u].cmd = proc[u].cmd, proc'[u].pc \in Inside \cup {"told"},
         profile' \in Profiles, UNCHANGED <<program, lock, overlap>>,
         TypeOK', Known', Paired', Work(u)', Certified(u)', Ready(u)'
  PROVE  ControllerInv'
  <1>1. lock = u /\ proc[u].cmd # "install" /\ profile \in Profiles
    BY DEF ControllerInv, Process, Role
  <1>2. proc'[u].pc \notin InstallLabels \cup {"write", "lock", "idle"}
    BY DEF Inside, InstallLabels
  <1>3. Role(u)'
    BY <1>1, <1>2, ControllerAssumption DEF Role, Holding, Inside, InstallLabels
  <1>4. \A v \in Users : v # u => Process(v)'
    <2> SUFFICES ASSUME NEW v \in Users, v # u PROVE Process(v)'
      OBVIOUS
    <2>1. proc'[v] = proc[v] /\ Process(v)
      BY DEF Others, ControllerInv
    <2>2. /\ proc[v].pc \notin Holding /\ ~proc[v].half
          /\ ~(proc[v].pc = "told" /\ proc[v].cmd # "install")
      BY <1>1, Alone
    <2>3. proc[v].pc # "write"
      BY <1>1, <2>1, ControllerAssumption DEF Process, Role
    <2>4. Role(v)'
      BY <2>1, <2>2, <2>3 DEF Process, Role
    <2>5. Work(v)' /\ Ready(v)'
      BY <2>1, <2>2 DEF Work, Ready, Holding, Inside
    <2>6. Certified(v)'
      BY <2>1, <2>2 DEF Process, Certified, Holding, Inside
    <2> QED
      BY <2>4, <2>5, <2>6 DEF Process
  <1>5. Writers'
    BY <1>2, <1>4, <1>1, ControllerAssumption DEF Writers, At, Process, Role, InstallLabels
  <1>6. Fresh'
    <2>1. \A v \in Users : v # u => proc'[v] = proc[v]
      BY DEF Others
    <2>2. ~(Installing(u)')
      BY <1>1 DEF Installing
    <2>3. \A v \in Users : Installing(v)' => Installing(v)
      BY <2>1, <2>2 DEF Installing, At
    <2>4. \A v \in Users : proc'[v].pc \in InstallLabels => proc[v].pc = proc'[v].pc
      BY <1>2, <2>1
    <2> QED
      BY <1>1, <2>3, <2>4, ControllerAssumption DEF ControllerInv, Fresh, InstallLabels
  <1> QED
    BY <1>3, <1>4, <1>5, <1>6 DEF ControllerInv, Process

\* install, which has no lock: what it can change is the profile where there
\* is none, the program and the network.
LEMMA InstallerKeeps ==
  ASSUME ControllerInv, NEW u \in Users, Others(u), TypeOK', Fresh',
         UNCHANGED <<lock, box, volume, made, copy, cached, archive, store, near, lost>>,
         proc[u].pc \in InstallLabels \cup {"idle"},
         proc'[u].cmd = "install", proc'[u].pc \in InstallLabels \cup {"told"},
         ~proc'[u].half, proc'[u].pc \in InstallLabels => proc'[u].p \in Profiles,
         proc'[u].pc = "write" => profile = Absent /\ profile' = Empty,
         \/ profile' = profile
         \/ profile = Absent /\ profile' = Empty
         \/ profile = Empty /\ proc[u].pc = "write"
  PROVE  ControllerInv'
  <1>1. \A v \in Users : Process(v)
    BY DEF ControllerInv
  <1>2. profile \in Profiles => profile' = profile
    BY ControllerAssumption
  <1>3. Process(u)'
    BY <1>1 DEF Process, Role, Work, Certified, Ready, Holding, Inside, InstallLabels
  <1>4. \A v \in Users : v # u => Process(v)'
    <2> SUFFICES ASSUME NEW v \in Users, v # u PROVE Process(v)'
      OBVIOUS
    <2>1. proc'[v] = proc[v] /\ Process(v)
      BY <1>1 DEF Others
    <2>2. proc[v].pc = "write" => profile = Empty /\ ~(proc[u].pc = "write")
      BY <2>1 DEF ControllerInv, Process, Role, Writers, At
    <2>3. Role(v)'
      BY <1>2, <2>1, <2>2, ControllerAssumption DEF Process, Role
    <2>4. Work(v)' /\ Ready(v)'
      BY <1>2, <2>1 DEF Process, Role, Work, Ready, Holding, Inside
    <2>5. Certified(v)'
      BY <2>1 DEF Process, Certified, Kept, archiving, At
    <2> QED
      BY <2>3, <2>4, <2>5 DEF Process
  <1>5. Writers'
    <2> SUFFICES ASSUME NEW v \in Users, NEW w \in Users, At(v, "write")', At(w, "write")'
                 PROVE  v = w
      BY DEF Writers
    <2>1. \A x \in Users : x # u => proc'[x] = proc[x]
      BY DEF Others
    <2>2. \A x \in Users : x # u /\ At(x, "write")' => profile = Empty /\ At(x, "write")
      BY <1>1, <2>1 DEF At, Process, Role
    <2>3. At(u, "write")' => profile = Absent
      BY DEF At
    <2> QED
      BY <2>2, <2>3, ControllerAssumption DEF ControllerInv, Writers
  <1>6. Known' /\ Paired'
    BY DEF ControllerInv, Known, Kept, Paired, PairMatches, Sound
  <1> QED
    BY <1>3, <1>4, <1>5, <1>6 DEF ControllerInv

LEMMA InstallSteps ==
  ASSUME ControllerInv, NEW u \in Users, install(u)
  PROVE  ControllerInv'
  <1> DEFINE q == proc[u]
  <1>1. /\ TypeOK /\ q \in Processes /\ proc \in [Users -> Processes] /\ Process(u) /\ Fresh
        /\ \A v \in Users : v # u /\ q.pc \in InstallLabels /\ ~overlap => ~Installing(v)
    BY Types DEF ControllerInv, Process, Role, Fresh, Installing, At, InstallLabels
  <1>2. UNCHANGED <<lock, box, volume, made, copy, cached, archive, store, near, expired,
                    lost, commands>>
    BY DEF install, installBegins, installNetwork, copyProgram, copyTruncates, copyFills,
       installCreates, installWrites, outside, container, trusting, clock, history
  <1>3. ASSUME NEW label \in Labels, Go(u, label), q.pc \in InstallLabels
        PROVE  /\ Others(u) /\ proc'[u].pc = label /\ proc'[u].cmd = "install"
               /\ proc'[u].p \in Profiles /\ ~proc'[u].half
    <2>1. [q EXCEPT !.pc = label] \in Processes
      BY <1>1 DEF Processes
    <2>2. proc' = [proc EXCEPT ![u] = [q EXCEPT !.pc = label]]
      BY <1>3 DEF Go
    <2>3. Others(u) /\ proc'[u] = [q EXCEPT !.pc = label]
      BY <1>1, <2>1, <2>2, Put
    <2>4. q.cmd = "install" /\ q.p \in Profiles /\ ~q.half
      BY <1>1, <1>3 DEF Process, Role, Certified, InstallLabels
    <2> QED
      BY <1>1, <2>3, <2>4 DEF Processes
  <1>4. CASE installBegins(u)
    <2> DEFINE r == [Idle EXCEPT !.pc = "network", !.p = [id |-> installs', home |-> 0]]
    <2>1. /\ q.pc = "idle" /\ profile = Absent /\ installs < MaxInstalls
          /\ installs' = installs + 1 /\ UNCHANGED <<profile, program, network>>
          /\ proc' = [proc EXCEPT ![u] = r]
          /\ overlap' = (overlap \/ \E v \in Users : Installing(v))
      BY <1>4 DEF installBegins, At, install_
    <2>2. [id |-> installs', home |-> 0] \in Profiles
      BY <1>1, <2>1, ControllerAssumption DEF TypeOK, Profiles
    <2>3. /\ r \in Processes /\ r.pc = "network" /\ r.cmd = "install" /\ ~r.half
          /\ r.p \in Profiles
      BY <2>2, IdleType DEF Processes, Labels, Commands
    <2>4. Others(u) /\ proc'[u] = r
      BY <1>1, <2>1, <2>3, Put
    <2>5. overlap' \in BOOLEAN
      BY <1>1, <2>1
    <2>6. TypeOK'
      BY <1>1, <1>2, <2>1, <2>4, <2>5 DEF TypeOK, Others
    <2>7. Fresh'
      <3> SUFFICES ASSUME ~overlap' PROVE Fresh'
        BY DEF Fresh
      <3>1. ~overlap /\ \A v \in Users : ~Installing(v)
        BY <2>1
      <3>2. \A v \in Users : v # u => ~(Installing(v)') /\ proc'[v] = proc[v]
        BY <3>1, <2>4 DEF Others, Installing, At
      <3>3. \A v \in Users : v # u => proc'[v].pc \notin InstallLabels
        BY <1>1, <3>1, <3>2 DEF ControllerInv, Process, Role, Installing, At, InstallLabels
      <3> QED
        BY <2>1, <2>3, <2>4, <3>2, <3>3, ControllerAssumption DEF Fresh, InstallLabels
    <2> QED
      BY <1>2, <2>1, <2>3, <2>4, <2>6, <2>7, InstallerKeeps DEF InstallLabels
  <1>5. CASE installNetwork(u)
    <2>1. /\ q.pc = "network" /\ Go(u, "read") /\ network' \in {network, TRUE}
          /\ UNCHANGED <<profile, program, installs, overlap>>
      BY <1>5 DEF installNetwork, At, history
    <2>2. /\ Others(u) /\ proc'[u].pc = "read" /\ proc'[u].cmd = "install"
          /\ proc'[u].p \in Profiles /\ ~proc'[u].half
      BY <1>3, <2>1 DEF Labels, InstallLabels
    <2>3. TypeOK'
      BY <1>1, <1>2, <2>1, <2>2 DEF TypeOK, Others
    <2>4. Fresh'
      BY <1>1, <2>1, <2>2 DEF Fresh, Others, Installing, At, InstallLabels
    <2> QED
      BY <1>2, <2>1, <2>2, <2>3, <2>4, InstallerKeeps DEF InstallLabels
  <1>6. CASE copyProgram(u)
    <2>1. /\ q.pc = "read" /\ program # "torn"
          /\ IF program = "none" THEN Go(u, "truncate") ELSE Go(u, "create")
          /\ UNCHANGED <<profile, program, network, installs, overlap>>
      BY <1>6 DEF copyProgram, At, install_, history
    <2>2. PICK label \in {"truncate", "create"} :
             Go(u, label) /\ (label = "create" => program = "whole")
      BY <1>1, <2>1 DEF TypeOK, Files
    <2>3. /\ Others(u) /\ proc'[u].pc = label /\ proc'[u].cmd = "install"
          /\ proc'[u].p \in Profiles /\ ~proc'[u].half
      BY <1>3, <2>1, <2>2 DEF Labels, InstallLabels
    <2>4. TypeOK'
      BY <1>1, <1>2, <2>1, <2>3 DEF TypeOK, Others
    <2>5. Fresh'
      BY <1>1, <2>1, <2>2, <2>3 DEF Fresh, Others, Installing, At, InstallLabels
    <2> QED
      BY <1>2, <2>1, <2>3, <2>4, <2>5, InstallerKeeps DEF InstallLabels
  <1>7. CASE copyTruncates(u)
    <2>1. /\ q.pc = "truncate" /\ Go(u, "fill") /\ program' = "torn"
          /\ UNCHANGED <<profile, network, installs, overlap>>
      BY <1>7 DEF copyTruncates, At, history
    <2>2. /\ Others(u) /\ proc'[u].pc = "fill" /\ proc'[u].cmd = "install"
          /\ proc'[u].p \in Profiles /\ ~proc'[u].half
      BY <1>3, <2>1 DEF Labels, InstallLabels
    <2>3. TypeOK'
      BY <1>1, <1>2, <2>1, <2>2 DEF TypeOK, Others, Files
    <2>4. Fresh'
      <3> SUFFICES ASSUME ~overlap PROVE Fresh'
        BY <2>1 DEF Fresh
      <3>1. profile = Absent /\ \A v \in Users : v # u => ~Installing(v)
        BY <1>1, <2>1 DEF Fresh, InstallLabels
      <3>2. \A v \in Users : v # u => proc[v].pc \notin InstallLabels
        BY <3>1 DEF ControllerInv, Process, Role, Installing, At, InstallLabels
      <3> QED
        BY <1>1, <2>1, <2>2, <3>1, <3>2, ControllerAssumption
           DEF Fresh, Others, Installing, At, InstallLabels
    <2> QED
      BY <1>2, <2>1, <2>2, <2>3, <2>4, InstallerKeeps DEF InstallLabels
  <1>8. CASE copyFills(u)
    <2>1. /\ q.pc = "fill" /\ Go(u, "create") /\ program' = "whole"
          /\ UNCHANGED <<profile, network, installs, overlap>>
      BY <1>8 DEF copyFills, At, history
    <2>2. /\ Others(u) /\ proc'[u].pc = "create" /\ proc'[u].cmd = "install"
          /\ proc'[u].p \in Profiles /\ ~proc'[u].half
      BY <1>3, <2>1 DEF Labels, InstallLabels
    <2>3. TypeOK'
      BY <1>1, <1>2, <2>1, <2>2 DEF TypeOK, Others, Files
    <2>4. Fresh'
      BY <1>1, <2>1, <2>2 DEF Fresh, Others, Installing, At, InstallLabels
    <2> QED
      BY <1>2, <2>1, <2>2, <2>3, <2>4, InstallerKeeps DEF InstallLabels
  <1>9. CASE installCreates(u)
    <2>1. /\ q.pc = "create" /\ Go(u, "write") /\ profile = Absent /\ profile' = Empty
          /\ UNCHANGED <<program, network, installs, overlap>>
      BY <1>9 DEF installCreates, At, history
    <2>2. /\ Others(u) /\ proc'[u].pc = "write" /\ proc'[u].cmd = "install"
          /\ proc'[u].p \in Profiles /\ ~proc'[u].half
      BY <1>3, <2>1 DEF Labels, InstallLabels
    <2>3. TypeOK'
      BY <1>1, <1>2, <2>1, <2>2 DEF TypeOK, Others
    <2>4. Fresh'
      <3> SUFFICES ASSUME ~overlap PROVE Fresh'
        BY <2>1 DEF Fresh
      <3>1. \A v \in Users : v # u => ~Installing(v) /\ proc[v].pc \notin InstallLabels
        BY <1>1, <2>1 DEF ControllerInv, Process, Role, Installing, At, InstallLabels
      <3> QED
        BY <1>1, <2>1, <2>2, <3>1, ControllerAssumption
           DEF Fresh, Others, Installing, At, InstallLabels
    <2> QED
      BY <1>2, <2>1, <2>2, <2>3, <2>4, InstallerKeeps DEF InstallLabels
  <1>10. CASE installWrites(u)
    <2> DEFINE r == [Idle EXCEPT !.cmd = q.cmd, !.pc = "told"]
    <2>1. /\ q.pc = "write" /\ proc' = [proc EXCEPT ![u] = r] /\ profile' = q.p
          /\ UNCHANGED <<program, network, installs, overlap>>
      BY <1>10 DEF installWrites, At, Told, history
    <2>2. q.cmd = "install" /\ q.p \in Profiles /\ profile = Empty
      BY <1>1, <2>1 DEF Process, Role, InstallLabels
    <2>3. r \in Processes /\ r.pc = "told" /\ r.cmd = "install" /\ ~r.half
      BY <2>2, IdleType DEF Processes, Labels, Commands
    <2>4. Others(u) /\ proc'[u] = r
      BY <1>1, <2>1, <2>3, Put
    <2>5. TypeOK'
      BY <1>1, <1>2, <2>1, <2>2, <2>4 DEF TypeOK, Others
    <2>6. Fresh'
      <3> SUFFICES ASSUME ~overlap PROVE Fresh'
        BY <2>1 DEF Fresh
      <3>1. \A v \in Users : v # u => ~Installing(v) /\ proc[v].pc \notin InstallLabels
        BY <1>1, <2>1 DEF ControllerInv, Process, Role, Installing, At, InstallLabels
      <3>2. program = "whole"
        BY <1>1, <2>1 DEF Fresh
      <3> QED
        BY <1>1, <2>1, <2>3, <2>4, <3>1, <3>2 DEF Fresh, Others, Installing, At, InstallLabels
    <2> QED
      BY <1>2, <2>1, <2>2, <2>3, <2>4, <2>5, <2>6, InstallerKeeps DEF InstallLabels
  <1> QED
    BY <1>4, <1>5, <1>6, <1>7, <1>8, <1>9, <1>10 DEF install

\* A command begins, takes the lock or ends: nothing else changes.
LEMMA Replaced ==
  ASSUME ControllerInv, NEW u \in Users, Others(u), TypeOK', Process(u)',
         UNCHANGED <<profile, program, box, volume, made, copy, cached, archive, store,
                     near, lost, overlap>>,
         ~(Installing(u)'), proc'[u].pc \notin InstallLabels,
         \A v \in Users : v # u /\ lock = v => lock' = v
  PROVE  ControllerInv'
  <1>1. \A v \in Users : v # u => proc'[v] = proc[v] /\ Process(v)
    BY DEF Others, ControllerInv
  <1>2. \A v \in Users : v # u => Process(v)'
    <2> SUFFICES ASSUME NEW v \in Users, v # u PROVE Process(v)'
      OBVIOUS
    <2>1. Role(v)'
      BY <1>1 DEF Process, Role
    <2>2. Work(v)' /\ Ready(v)'
      BY <1>1 DEF Process, Work, Ready
    <2>3. Certified(v)'
      BY <1>1 DEF Process, Certified, Kept, archiving, At
    <2> QED
      BY <2>1, <2>2, <2>3 DEF Process
  <1>3. Writers'
    BY <1>1 DEF ControllerInv, Writers, At, InstallLabels
  <1>4. Fresh'
    BY <1>1 DEF ControllerInv, Fresh, Installing, At, InstallLabels
  <1>5. Known' /\ Paired'
    BY DEF ControllerInv, Known, Kept, Paired, PairMatches, Sound
  <1> QED
    BY <1>2, <1>3, <1>4, <1>5 DEF ControllerInv

LEMMA CommandSteps ==
  ASSUME ControllerInv, NEW u \in Users, runOpens(u) \/ runLocks(u) \/ Ends(u)
  PROVE  ControllerInv'
  <1> DEFINE q == proc[u]
  <1>1. /\ TypeOK /\ q \in Processes /\ proc \in [Users -> Processes]
        /\ \A v \in Users : Process(v)
    BY Types DEF ControllerInv
  <1>2. /\ UNCHANGED <<profile, program, network, box, volume, made, copy, cached, archive,
                       store, near, expired, lost, overlap, installs>>
        /\ commands' \in Nat
    <2> DEFINE Same == UNCHANGED <<profile, program, network, box, volume, made, copy, cached,
                                   archive, store, near, expired, lost, overlap, installs>>
    <2>1. runOpens(u) => Same /\ commands' = commands + 1
      BY DEF runOpens, install_, outside, container, trusting, clock
    <2>2. runLocks(u) => Same /\ commands' = commands
      BY DEF runLocks, install_, container, trusting, clock, history
    <2>3. Ends(u) => Same /\ commands' = commands
      BY DEF Ends, install_, container, trusting, clock, history
    <2> QED
      BY <1>1, <2>1, <2>2, <2>3 DEF TypeOK
  <1>3. CASE runOpens(u)
    <2>1. PICK cmd \in Commands \ {"install"} :
             /\ q.pc = "idle" /\ profile \notin {Absent, Empty} /\ lock' = lock
             /\ proc' = [proc EXCEPT ![u] = [Idle EXCEPT
                            !.cmd = cmd, !.pc = "lock", !.p = profile]]
      BY <1>3 DEF runOpens, At, outside
    <2> DEFINE r == [Idle EXCEPT !.cmd = cmd, !.pc = "lock", !.p = profile]
    <2>2. profile \in Profiles
      BY <1>1, <2>1 DEF TypeOK
    <2>3. r \in Processes /\ r.pc = "lock" /\ r.cmd = cmd /\ ~r.half
      BY <2>2, IdleType DEF Processes, Labels
    <2>4. Others(u) /\ proc'[u] = r
      BY <1>1, <2>1, <2>3, Put
    <2>5. TypeOK'
      BY <1>1, <1>2, <2>1, <2>4 DEF TypeOK, Others
    <2>6. Process(u)'
      BY <1>2, <2>2, <2>3, <2>4
         DEF Process, Role, Work, Certified, Ready, Holding, Inside, InstallLabels
    <2> QED
      BY <1>2, <2>1, <2>3, <2>4, <2>5, <2>6, Replaced DEF Installing, InstallLabels
  <1>4. CASE runLocks(u)
    <2> DEFINE r == [q EXCEPT !.pc = "reread"]
    <2>1. /\ q.pc = "lock" /\ lock = None /\ lock' = u
          /\ proc' = [proc EXCEPT ![u] = r]
      BY <1>4 DEF runLocks, lockOperationFile, At, Go
    <2>2. /\ r \in Processes /\ r.pc = "reread" /\ r.cmd = q.cmd /\ r.half = q.half
      BY <1>1 DEF Processes, Labels
    <2>3. Others(u) /\ proc'[u] = r
      BY <1>1, <2>1, <2>2, Put
    <2>4. TypeOK'
      BY <1>1, <1>2, <2>1, <2>3 DEF TypeOK, Others
    <2>5. q.cmd # "install" /\ profile \in Profiles /\ ~q.half
      BY <1>1, <2>1 DEF Process, Role, Certified
    <2>6. Process(u)'
      BY <1>2, <2>1, <2>2, <2>3, <2>5
         DEF Process, Role, Work, Certified, Ready, Holding, Inside, InstallLabels
    <2> QED
      BY <1>2, <2>1, <2>2, <2>3, <2>4, <2>5, <2>6, Replaced, ControllerAssumption
         DEF Installing, InstallLabels
  <1>5. CASE Ends(u)
    <2>1. /\ proc' = [proc EXCEPT ![u] = Idle]
          /\ lock' = IF lock = u THEN None ELSE lock
      BY <1>5 DEF Ends
    <2>2. Others(u) /\ proc'[u] = Idle
      BY <1>1, <2>1, IdleType, Put
    <2>3. TypeOK'
      BY <1>1, <1>2, <2>1, <2>2 DEF TypeOK, Others
    <2>4. Process(u)'
      BY <2>2, IdleType
         DEF Process, Role, Work, Certified, Ready, Holding, Inside, InstallLabels
    <2> QED
      BY <1>2, <2>1, <2>2, <2>3, <2>4, IdleType, Replaced DEF Installing, At, InstallLabels
  <1> QED
    BY <1>3, <1>4, <1>5

\* The container's own steps, and the passing of time.
LEMMA SessionSteps == ControllerInv /\ session => ControllerInv'
  <1> SUFFICES ASSUME ControllerInv, session PROVE ControllerInv'
    OBVIOUS
  <1>1. UNCHANGED <<profile, program, network, lock, proc, copy, cached, archive, store,
                    installs, commands, overlap>>
    BY DEF session, sessionKeeps, moveKey, moveCert, sessionMarks, boot, halt, loseKey, age,
       host, install_, trusting
  <1>2. TypeOK /\ volume \in Volumes /\ Paired
    BY DEF ControllerInv, TypeOK
  <1>3. CASE sessionKeeps
    <2>1. box = "check" /\ ~renewal /\ box' = "up" /\ UNCHANGED <<volume, made, clock, lost>>
      BY <1>3 DEF sessionKeeps
    <2>2. TypeOK'
      BY <1>1, <1>2, <2>1 DEF TypeOK, clock
    <2>3. Paired' /\ box # "none"
      BY <1>1, <1>2, <2>1 DEF Paired, PairMatches, Sound, renewal, clock
    <2> QED
      BY <1>1, <2>1, <2>2, <2>3 DEF ControllerInv, Process, Role, Work, Certified, Ready, Kept,
         archiving, At, Writers, Fresh, Installing, Known
  <1>4. CASE moveKey
    <2>1. /\ box = "check" /\ renewal /\ made < MaxCerts /\ box' = "moved" /\ made' = made + 1
          /\ volume' = [volume EXCEPT !.key = made'] /\ UNCHANGED <<clock, lost>>
      BY <1>4 DEF moveKey
    <2>2. volume'.key = made' /\ volume'.cert = volume.cert /\ volume'.marker = volume.marker
      BY <1>2, <2>1 DEF Volumes
    <2>3. made' \in 0 .. MaxCerts /\ made \in 0 .. made'
      BY <1>2, <2>1, ControllerAssumption DEF TypeOK
    <2>4. near \in 0 .. made' /\ volume' \in Volumes
      BY <1>2, <2>1, <2>3, ControllerAssumption DEF TypeOK, Volumes
    <2>5. TypeOK'
      BY <1>1, <1>2, <2>1, <2>3, <2>4 DEF TypeOK, clock
    <2>6. ~lost => Sound(volume)'
      BY <1>2, <2>1, <2>2 DEF Paired, Sound, renewal, clock
    <2>7. Paired' /\ box # "none"
      BY <1>1, <1>2, <2>1, <2>2, <2>6 DEF Paired, PairMatches, Sound, clock
    <2> QED
      BY <1>1, <2>1, <2>5, <2>7 DEF ControllerInv, Process, Role, Work, Certified, Ready, Kept,
         archiving, At, Writers, Fresh, Installing, Known
  <1>5. CASE moveCert
    <2>1. /\ box = "moved" /\ box' = "placed" /\ volume' = [volume EXCEPT !.cert = made]
          /\ UNCHANGED <<made, clock, lost>>
      BY <1>5 DEF moveCert
    <2>2. volume'.key = volume.key /\ volume'.cert = made /\ volume' \in Volumes
      BY <1>2, <2>1 DEF TypeOK, Volumes
    <2>3. TypeOK'
      BY <1>1, <1>2, <2>1, <2>2 DEF TypeOK, clock
    <2>4. Paired' /\ box # "none"
      BY <1>1, <1>2, <2>1, <2>2 DEF Paired, PairMatches, Sound, clock
    <2> QED
      BY <1>1, <2>1, <2>3, <2>4 DEF ControllerInv, Process, Role, Work, Certified, Ready, Kept,
         archiving, At, Writers, Fresh, Installing, Known
  <1>6. CASE sessionMarks
    <2>1. /\ box = "placed" /\ box' = "up" /\ volume' = [volume EXCEPT !.marker = TRUE]
          /\ UNCHANGED <<made, clock, lost>>
      BY <1>6 DEF sessionMarks
    <2>2. volume'.key = volume.key /\ volume'.cert = volume.cert /\ volume' \in Volumes
      BY <1>2, <2>1 DEF TypeOK, Volumes
    <2>3. TypeOK'
      BY <1>1, <1>2, <2>1, <2>2 DEF TypeOK, clock
    <2>4. Paired' /\ box # "none"
      BY <1>1, <1>2, <2>1, <2>2 DEF Paired, PairMatches, Sound, clock
    <2> QED
      BY <1>1, <2>1, <2>3, <2>4 DEF ControllerInv, Process, Role, Work, Certified, Ready, Kept,
         archiving, At, Writers, Fresh, Installing, Known
  <1>7. CASE boot \/ halt
    <2>1. /\ box # "none" /\ box' \in {"check", "off"} /\ UNCHANGED <<volume, made, clock, lost>>
      BY <1>7 DEF boot, halt
    <2>2. TypeOK'
      BY <1>1, <1>2, <2>1 DEF TypeOK, clock
    <2>3. Paired'
      BY <1>1, <1>2, <2>1 DEF Paired, PairMatches, Sound, clock
    <2> QED
      BY <1>1, <2>1, <2>2, <2>3 DEF ControllerInv, Process, Role, Work, Certified, Ready, Kept,
         archiving, At, Writers, Fresh, Installing, Known
  <1>8. CASE loseKey
    <2>1. /\ box = "off" /\ volume' = [volume EXCEPT !.key = 0] /\ lost' = TRUE
          /\ UNCHANGED <<box, made, clock>>
      BY <1>8 DEF loseKey
    <2>2. volume' \in Volumes
      BY <1>2, <2>1, ControllerAssumption DEF Volumes
    <2>3. TypeOK'
      BY <1>1, <1>2, <2>1, <2>2 DEF TypeOK, clock
    <2>4. Paired' /\ box # "none"
      BY <1>1, <1>2, <2>1 DEF Paired, PairMatches, Sound, clock
    <2> QED
      BY <1>1, <2>1, <2>3, <2>4 DEF ControllerInv, Process, Role, Work, Certified, Ready, Kept,
         archiving, At, Writers, Fresh, Installing, Known
  <1>9. CASE age
    <2>1. /\ box \in {"none", "off"} /\ UNCHANGED <<box, volume, made, lost>>
          /\ \/ near < made /\ near' = near + 1 /\ expired' = expired
             \/ expired < near /\ expired' = expired + 1 /\ near' = near
      BY <1>9 DEF age, container
    <2>2. /\ near \in Nat /\ near' \in Nat /\ near <= near' /\ near' \in 0 .. made
          /\ expired' \in 0 .. near'
      BY <1>2, <2>1 DEF TypeOK
    <2>3. TypeOK'
      BY <1>1, <1>2, <2>1, <2>2 DEF TypeOK
    <2>4. \A v \in Volumes : Sound(v) => Sound(v)'
      BY <2>2 DEF Sound, Volumes
    <2>5. copy # None => copy.volume \in Volumes
      BY <1>2 DEF TypeOK
    <2>6. Paired'
      BY <1>1, <1>2, <2>1, <2>4, <2>5 DEF Paired, PairMatches, Sound
    <2> QED
      BY <1>1, <2>1, <2>3, <2>6 DEF ControllerInv, Process, Role, Work, Certified, Ready, Kept,
         archiving, At, Writers, Fresh, Installing, Known
  <1> QED
    BY <1>3, <1>4, <1>5, <1>6, <1>7, <1>8, <1>9 DEF session

LEMMA Turn ==
  ASSUME ControllerInv, NEW u \in Users, NEW label \in Labels, Go(u, label)
  PROVE  /\ Others(u) /\ proc'[u].pc = label /\ proc'[u].cmd = proc[u].cmd
         /\ proc'[u].p = proc[u].p /\ proc'[u].half = proc[u].half
         /\ proc'[u].got = proc[u].got /\ proc'[u].todo = proc[u].todo
  <1> DEFINE r == [proc[u] EXCEPT !.pc = label]
  <1>1. proc \in [Users -> Processes] /\ proc[u] \in Processes
    BY Types DEF ControllerInv
  <1>2. /\ r \in Processes /\ r.pc = label /\ r.cmd = proc[u].cmd /\ r.p = proc[u].p
        /\ r.half = proc[u].half /\ r.got = proc[u].got /\ r.todo = proc[u].todo
    BY <1>1 DEF Processes
  <1> QED
    BY <1>1, <1>2, Put DEF Go

LEMMA Finish ==
  ASSUME ControllerInv, NEW u \in Users, Told(u)
  PROVE  Others(u) /\ proc'[u].pc = "told" /\ proc'[u].cmd = proc[u].cmd /\ ~proc'[u].half
  <1> DEFINE r == [Idle EXCEPT !.cmd = proc[u].cmd, !.pc = "told"]
  <1>1. proc \in [Users -> Processes] /\ proc[u] \in Processes
    BY Types DEF ControllerInv
  <1>2. r \in Processes /\ r.pc = "told" /\ r.cmd = proc[u].cmd /\ ~r.half
    BY <1>1, IdleType DEF Processes, Labels
  <1> QED
    BY <1>1, <1>2, Put DEF Told

\* What the process at work knows.
LEMMA AtWork ==
  ASSUME ControllerInv, NEW u \in Users, proc[u].pc \in Holding
  PROVE  /\ lock = u /\ proc[u].cmd \in Commands \ {"install"} /\ profile \in Profiles
         /\ proc[u].pc \in Inside => proc[u].p = profile
         /\ Certified(u) /\ Ready(u) /\ TypeOK /\ Paired /\ Known
         /\ proc[u] \in Processes /\ proc \in [Users -> Processes]
  BY Types DEF ControllerInv, Process, Role, Work

\* The certificate commands leave the container and the profile alone.
LEMMA TrustingKeeps ==
  ASSUME ControllerInv, NEW u \in Users, proc[u].pc \in Inside, Others(u),
         UNCHANGED inside, proc'[u].cmd = proc[u].cmd,
         proc'[u].pc \in (Inside \cup {"told"}) \ {"profile"},
         proc'[u].pc \in Inside => proc'[u].p = proc[u].p,
         cached' \in 0 .. MaxCerts, archive' \in [Certs -> Files], store' \subseteq Certs,
         Known', Certified(u)'
  PROVE  ControllerInv'
  <1>1. /\ profile \in Profiles /\ proc[u].p = profile /\ TypeOK /\ Paired
        /\ proc[u].pc \in Holding
    BY AtWork DEF Holding
  <1>2. UNCHANGED <<profile, program, network, lock, box, volume, made, copy, near, expired,
                    installs, commands, lost, overlap>>
    BY DEF inside, install_, container, clock, history
  <1>3. TypeOK'
    BY <1>1, <1>2 DEF TypeOK, Others
  <1>4. Paired'
    BY <1>1, <1>2 DEF Paired, PairMatches, Sound
  <1>5. Work(u)' /\ Ready(u)'
    BY <1>1, <1>2 DEF Work, Ready, Inside
  <1> QED
    BY <1>1, <1>2, <1>3, <1>4, <1>5, HolderKeeps

\* certificate, the end of start, trust and untrust.
LEMMA CertificateSteps ==
  ASSUME ControllerInv, NEW u \in Users, certificates(u)
  PROVE  ControllerInv'
  <1> DEFINE q == proc[u]
  <1>1. ASSUME q.pc \in Inside
        PROVE  /\ Certified(u) /\ Known /\ q \in Processes /\ proc \in [Users -> Processes]
               /\ cached \in 0 .. MaxCerts /\ archive \in [Certs -> Files]
               /\ store \subseteq Certs /\ q.cmd # "install"
    BY <1>1, AtWork DEF Holding, TypeOK
  <1>2. CASE fetch(u)
    <2> DEFINE next == IF cached = 0 THEN "archive" ELSE "previous"
               r    == [q EXCEPT !.got = volume.cert, !.pc = next]
    <2>1. /\ q.pc = "fetch" /\ volume.cert > expired /\ UNCHANGED inside
          /\ UNCHANGED <<cached, archive, store>>
          /\ proc' = [proc EXCEPT ![u].got = volume.cert, ![u].pc = next]
      BY <1>2 DEF fetch, At, trusting
    <2>2. q.pc \in Inside
      BY <2>1 DEF Inside
    <2>3. volume.cert \in Certs /\ volume.cert \in 0 .. MaxCerts
      BY <2>1 DEF ControllerInv, TypeOK, Volumes, Certs
    <2>4. next \in Labels
      BY DEF Labels
    <2>5. /\ r \in Processes /\ r.pc = next /\ r.got = volume.cert /\ r.cmd = q.cmd
          /\ r.p = q.p /\ r.half = q.half
      BY <1>1, <2>2, <2>3, <2>4 DEF Processes
    <2>6. proc' = [proc EXCEPT ![u] = r]
      BY <1>1, <2>1, <2>2
    <2>7. Others(u) /\ proc'[u] = r
      BY <1>1, <2>2, <2>5, <2>6, Put
    <2>8. Certified(u)'
      BY <1>1, <2>1, <2>2, <2>3, <2>5, <2>7 DEF Certified, Kept
    <2>9. Known'
      BY <1>1, <2>1, <2>2 DEF Known, Kept
    <2> QED
      BY <1>1, <2>1, <2>2, <2>5, <2>7, <2>8, <2>9, TrustingKeeps DEF Inside
  <1>3. CASE archiveTruncates(u)
    <2> DEFINE r == [q EXCEPT !.half = TRUE]
    <2>1. /\ q.pc \in {"previous", "archive"} /\ UNCHANGED inside /\ UNCHANGED <<cached, store>>
          /\ archive' = [archive EXCEPT ![archiving(u)] = "torn"]
          /\ proc' = [proc EXCEPT ![u] = r]
      BY <1>3 DEF archiveTruncates
    <2>2. q.pc \in Inside
      BY <2>1 DEF Inside
    <2>3. archiving(u) \in Certs
      BY <1>1, <2>1, <2>2 DEF Certified, archiving, At, Certs
    <2>4. /\ r \in Processes /\ r.pc = q.pc /\ r.got = q.got /\ r.cmd = q.cmd
          /\ r.p = q.p /\ r.half
      BY <1>1, <2>2 DEF Processes
    <2>5. Others(u) /\ proc'[u] = r
      BY <1>1, <2>1, <2>2, <2>4, Put
    <2>6. /\ archive' \in [Certs -> Files] /\ archiving(u)' = archiving(u)
          /\ \A c \in Certs : Kept(c) \/ c = archiving(u) => Kept(c)'
      BY <1>1, <2>1, <2>2, <2>3, <2>4, <2>5 DEF Kept, Files, archiving, At
    <2>7. Certified(u)'
      BY <1>1, <2>1, <2>2, <2>3, <2>4, <2>5, <2>6 DEF Certified, Kept
    <2>8. Known'
      BY <1>1, <2>1, <2>2, <2>6 DEF Known
    <2> QED
      BY <1>1, <2>1, <2>2, <2>4, <2>5, <2>6, <2>7, <2>8, TrustingKeeps DEF Inside
  <1>4. CASE archiveWrites(u)
    <2> DEFINE next == IF q.pc = "previous" THEN "archive" ELSE "export"
               r    == [q EXCEPT !.half = FALSE, !.pc = next]
    <2>1. /\ q.half /\ UNCHANGED inside /\ UNCHANGED <<cached, store>>
          /\ archive' = [archive EXCEPT ![archiving(u)] = "whole"]
          /\ proc' = [proc EXCEPT ![u].half = FALSE,
                        ![u].pc = IF @ = "previous" THEN "archive" ELSE "export"]
      BY <1>4 DEF archiveWrites
    <2>2. q.pc \in {"previous", "archive"} /\ q.pc \in Inside /\ Kept(archiving(u))
      BY <2>1 DEF ControllerInv, Process, Certified, Inside
    <2>3. archiving(u) \in Certs
      BY <2>2 DEF Kept
    <2>4. next \in Labels
      BY DEF Labels
    <2>5. /\ r \in Processes /\ r.pc = next /\ r.got = q.got /\ r.cmd = q.cmd
          /\ r.p = q.p /\ ~r.half
      BY <1>1, <2>2, <2>4 DEF Processes
    <2>6. proc' = [proc EXCEPT ![u] = r]
      BY <1>1, <2>1, <2>2
    <2>7. Others(u) /\ proc'[u] = r
      BY <1>1, <2>2, <2>5, <2>6, Put
    <2>8. /\ archive' \in [Certs -> Files]
          /\ \A c \in Certs : Kept(c) \/ c = archiving(u) => Kept(c)'
      BY <1>1, <2>1, <2>2, <2>3 DEF Kept, Files
    <2>9. Certified(u)'
      BY <1>1, <2>1, <2>2, <2>3, <2>5, <2>7, <2>8 DEF Certified, archiving, At, Certs
    <2>10. Known'
      BY <1>1, <2>1, <2>2, <2>8 DEF Known
    <2> QED
      BY <1>1, <2>1, <2>2, <2>5, <2>7, <2>8, <2>9, <2>10, TrustingKeeps DEF Inside
  <1>5. CASE certificateExports(u)
    <2>1. /\ q.pc = "export" /\ cached' = q.got /\ UNCHANGED inside
          /\ UNCHANGED <<archive, store>>
          /\ IF q.cmd = "trust" THEN Go(u, "trust") ELSE Told(u)
      BY <1>5 DEF certificateExports, At
    <2>2. q.pc \in Inside
      BY <2>1 DEF Inside
    <2>3. /\ q.got \in Certs /\ Kept(q.got) /\ q.cmd # "untrust" /\ ~q.half
          /\ cached # 0 => Kept(cached)
      BY <1>1, <2>1, <2>2 DEF Certified
    <2>4. /\ Others(u) /\ proc'[u].cmd = q.cmd /\ ~proc'[u].half
          /\ \/ proc'[u].pc = "told"
             \/ proc'[u].pc = "trust" /\ proc'[u].p = q.p /\ proc'[u].got = q.got
      BY <2>1, <2>3, Turn, Finish DEF Labels
    <2>5. Certified(u)'
      BY <2>1, <2>3, <2>4 DEF Certified, Kept
    <2>6. Known'
      BY <1>1, <2>1, <2>2, <2>3 DEF Known, Kept, Certs
    <2>7. cached' \in 0 .. MaxCerts
      BY <1>1, <2>1, <2>2 DEF Processes
    <2> QED
      BY <1>1, <2>1, <2>2, <2>4, <2>5, <2>6, <2>7, TrustingKeeps DEF Inside
  <1>6. CASE trust(u)
    <2>1. /\ q.pc = "trust" /\ store' = store \cup {q.got} /\ Told(u) /\ UNCHANGED inside
          /\ UNCHANGED <<cached, archive>>
      BY <1>6 DEF trust, At
    <2>2. q.pc \in Inside
      BY <2>1 DEF Inside
    <2>3. q.got \in Certs /\ Kept(q.got) /\ q.cmd # "untrust"
      BY <1>1, <2>1, <2>2 DEF Certified
    <2>4. Others(u) /\ proc'[u].cmd = q.cmd /\ ~proc'[u].half /\ proc'[u].pc = "told"
      BY <2>1, Finish
    <2>5. Certified(u)' /\ Known'
      BY <1>1, <2>1, <2>2, <2>3, <2>4 DEF Certified, Known, Kept
    <2> QED
      BY <1>1, <2>1, <2>2, <2>3, <2>4, <2>5, TrustingKeeps DEF Inside
  <1>7. CASE untrustLists(u)
    <2> DEFINE listed == {c \in Certs : archive[c] # "none"}
               r == [q EXCEPT !.pc = "forget", !.todo = listed]
    <2>1. /\ q.pc = "glob" /\ store' = store \ {cached} /\ UNCHANGED inside
          /\ UNCHANGED <<cached, archive>>
          /\ proc' = [proc EXCEPT ![u].pc = "forget", ![u].todo = listed]
      BY <1>7 DEF untrustLists, At
    <2>2. q.pc \in Inside
      BY <2>1 DEF Inside
    <2>3. /\ r \in Processes /\ r.pc = "forget" /\ r.cmd = q.cmd /\ r.p = q.p
          /\ r.half = q.half /\ r.todo = listed
      BY <1>1, <2>2 DEF Processes, Labels
    <2>4. proc' = [proc EXCEPT ![u] = r]
      BY <1>1, <2>1, <2>2
    <2>5. Others(u) /\ proc'[u] = r
      BY <1>1, <2>2, <2>3, <2>4, Put
    <2>6. store' \subseteq listed
      BY <1>1, <2>1, <2>2 DEF Known, Kept
    <2>7. Certified(u)' /\ Known'
      BY <1>1, <2>1, <2>2, <2>3, <2>5, <2>6 DEF Certified, Known, Kept
    <2> QED
      BY <1>1, <2>1, <2>2, <2>3, <2>5, <2>7, TrustingKeeps DEF Inside
  <1>8. CASE untrustForgets(u)
    <2>1. PICK c \in q.todo :
             /\ q.pc = "forget" /\ store' = store \ {c} /\ UNCHANGED inside
             /\ UNCHANGED <<cached, archive>>
             /\ proc' = [proc EXCEPT ![u].todo = @ \ {c}]
      BY <1>8 DEF untrustForgets, At
    <2> DEFINE r == [q EXCEPT !.todo = q.todo \ {c}]
    <2>2. q.pc \in Inside
      BY <2>1 DEF Inside
    <2>3. /\ r \in Processes /\ r.pc = "forget" /\ r.cmd = q.cmd /\ r.p = q.p
          /\ r.half = q.half /\ r.todo = q.todo \ {c}
      BY <1>1, <2>1, <2>2 DEF Processes
    <2>4. proc' = [proc EXCEPT ![u] = r]
      BY <1>1, <2>1, <2>2
    <2>5. Others(u) /\ proc'[u] = r
      BY <1>1, <2>2, <2>3, <2>4, Put
    <2>6. Certified(u)' /\ Known'
      BY <1>1, <2>1, <2>2, <2>3, <2>5 DEF Certified, Known, Kept
    <2> QED
      BY <1>1, <2>1, <2>2, <2>3, <2>5, <2>6, TrustingKeeps DEF Inside
  <1>9. CASE untrustDone(u)
    <2>1. /\ q.pc = "forget" /\ q.todo = {} /\ Told(u) /\ UNCHANGED inside
          /\ UNCHANGED <<cached, archive, store>>
      BY <1>9 DEF untrustDone, At, trusting
    <2>2. q.pc \in Inside
      BY <2>1 DEF Inside
    <2>3. store = {}
      BY <1>1, <2>1, <2>2 DEF Certified
    <2>4. Others(u) /\ proc'[u].cmd = q.cmd /\ ~proc'[u].half /\ proc'[u].pc = "told"
      BY <2>1, Finish
    <2>5. Certified(u)' /\ Known'
      BY <2>1, <2>3, <2>4 DEF Certified, Known
    <2> QED
      BY <1>1, <2>1, <2>2, <2>4, <2>5, TrustingKeeps DEF Inside
  <1> QED
    BY <1>2, <1>3, <1>4, <1>5, <1>6, <1>7, <1>8, <1>9 DEF certificates

\* The commands' first label.
LEMMA Firsts ==
  \A cmd \in Commands \ {"install"} :
      /\ first[cmd] \in Inside \ {"previous", "archive", "export", "trust", "forget", "profile"}
      /\ cmd = "untrust" => first[cmd] = "glob"
  BY DEF first, Commands, Inside

LEMMA DispatchSteps ==
  ASSUME ControllerInv, NEW u \in Users, runRereads(u) \/ startBoots(u) \/ startAwaits(u)
  PROVE  ControllerInv'
  <1> DEFINE q == proc[u]
  <1>1. ASSUME q.pc \in Holding
        PROVE  /\ lock = u /\ q.cmd \in Commands \ {"install"} /\ profile \in Profiles
               /\ Certified(u) /\ TypeOK /\ Paired /\ Known
               /\ q \in Processes /\ proc \in [Users -> Processes]
    BY <1>1, AtWork
  <1>2. CASE runRereads(u)
    <2> DEFINE next == first[q.cmd]
               r    == [q EXCEPT !.p = profile, !.pc = next]
    <2>1. /\ q.pc = "reread" /\ UNCHANGED <<install_, outside, history>>
          /\ proc' = [proc EXCEPT ![u].p = profile, ![u].pc = next]
      BY <1>2 DEF runRereads, At
    <2>2. q.pc \in Holding
      BY <2>1 DEF Holding
    <2>3. /\ next \in Inside \ {"previous", "archive", "export", "trust", "forget", "profile"}
          /\ q.cmd = "untrust" => next = "glob"
      BY <1>1, <2>2, Firsts
    <2>4. next \in Labels
      BY <2>3 DEF Inside, Labels
    <2>5. /\ r \in Processes /\ r.pc = next /\ r.cmd = q.cmd /\ r.p = profile
          /\ r.half = q.half
      BY <1>1, <2>2, <2>4 DEF Processes
    <2>6. proc' = [proc EXCEPT ![u] = r]
      BY <1>1, <2>1, <2>2
    <2>7. Others(u) /\ proc'[u] = r
      BY <1>1, <2>2, <2>5, <2>6, Put
    <2>8. UNCHANGED <<profile, program, network, lock, box, volume, made, copy, cached, archive,
                      store, near, expired, installs, commands, lost, overlap>>
      BY <2>1 DEF install_, outside, container, trusting, clock, history
    <2>9. TypeOK'
      BY <1>1, <2>2, <2>7, <2>8 DEF TypeOK, Others
    <2>10. Known' /\ Paired'
      BY <1>1, <2>2, <2>8 DEF Known, Kept, Paired, PairMatches, Sound
    <2>11. Work(u)' /\ Ready(u)'
      BY <2>3, <2>5, <2>7, <2>8 DEF Work, Ready
    <2>12. Certified(u)'
      BY <1>1, <2>1, <2>2, <2>3, <2>5, <2>7, <2>8 DEF Certified, Inside
    <2> QED
      BY <1>1, <2>2, <2>3, <2>5, <2>7, <2>8, <2>9, <2>10, <2>11, <2>12, HolderKeeps
  <1>3. CASE startBoots(u)
    <2>1. /\ q.pc = "boot" /\ Go(u, "await")
          /\ box' = IF box \in {"none", "off"} THEN "check" ELSE box
          /\ UNCHANGED <<profile, program, network, lock, volume, made, copy, cached, archive,
                         store, near, expired, installs, commands, lost, overlap>>
      BY <1>3 DEF startBoots, At, install_, trusting, clock, history
    <2>2. q.pc \in Holding /\ q.pc \in Inside
      BY <2>1 DEF Holding, Inside
    <2>3. /\ Others(u) /\ proc'[u].pc = "await" /\ proc'[u].cmd = q.cmd /\ proc'[u].p = q.p
          /\ proc'[u].half = q.half
      BY <2>1, Turn DEF Labels
    <2>4. TypeOK'
      BY <1>1, <2>1, <2>2, <2>3 DEF TypeOK, Others
    <2>5. Known' /\ Paired'
      BY <1>1, <2>1, <2>2 DEF Known, Kept, Paired, PairMatches, Sound
    <2>6. Work(u)' /\ Ready(u)' /\ Certified(u)'
      BY <1>1, <2>1, <2>2, <2>3, AtWork DEF Work, Ready, Certified
    <2> QED
      BY <1>1, <2>1, <2>2, <2>3, <2>4, <2>5, <2>6, HolderKeeps DEF Inside
  <1>4. CASE startAwaits(u)
    <2>1. /\ q.pc = "await" /\ Go(u, "fetch")
          /\ UNCHANGED <<profile, program, network, lock, box, volume, made, copy, cached,
                         archive, store, near, expired, installs, commands, lost, overlap>>
      BY <1>4 DEF startAwaits, At, install_, outside, container, trusting, clock, history
    <2>2. q.pc \in Holding /\ q.pc \in Inside
      BY <2>1 DEF Holding, Inside
    <2>3. /\ Others(u) /\ proc'[u].pc = "fetch" /\ proc'[u].cmd = q.cmd /\ proc'[u].p = q.p
          /\ proc'[u].half = q.half
      BY <2>1, Turn DEF Labels
    <2>4. TypeOK'
      BY <1>1, <2>1, <2>2, <2>3 DEF TypeOK, Others
    <2>5. Known' /\ Paired'
      BY <1>1, <2>1, <2>2 DEF Known, Kept, Paired, PairMatches, Sound
    <2>6. Work(u)' /\ Ready(u)' /\ Certified(u)'
      BY <1>1, <2>1, <2>2, <2>3, AtWork DEF Work, Ready, Certified
    <2> QED
      BY <1>1, <2>1, <2>2, <2>3, <2>4, <2>5, <2>6, HolderKeeps DEF Inside
  <1> QED
    BY <1>2, <1>3, <1>4

LEMMA CopySteps ==
  ASSUME ControllerInv, NEW u \in Users, copies(u)
  PROVE  ControllerInv'
  <1> DEFINE q == proc[u]
  <1>1. ASSUME q.pc \in Inside
        PROVE  /\ lock = u /\ q.cmd # "install" /\ profile \in Profiles /\ q.p = profile
               /\ Certified(u) /\ Ready(u) /\ TypeOK /\ Paired /\ Known /\ q.pc \in Holding
               /\ volume \in Volumes /\ (copy # None =>
                      copy.volume \in Volumes /\ copy.files \subseteq Certs)
    BY <1>1, AtWork DEF Holding, TypeOK
  <1>2. CASE backup(u)
    <2> DEFINE files == {c \in Certs : archive[c] # "none" \/ c = cached}
    <2>1. /\ q.pc = "copy" /\ copy' = [volume |-> volume, files |-> files]
          /\ box' = IF box = "none" THEN "none" ELSE "off"
          /\ Told(u)
          /\ UNCHANGED <<profile, program, network, lock, volume, made, cached, archive, store,
                         near, expired, installs, commands, lost, overlap>>
      BY <1>2 DEF backup, At, install_, trusting, clock, history
    <2>2. q.pc \in Inside
      BY <2>1 DEF Inside
    <2>3. Others(u) /\ proc'[u].pc = "told" /\ proc'[u].cmd = q.cmd /\ ~proc'[u].half
      BY <2>1, Finish
    <2>4. copy' \in [volume : Volumes, files : SUBSET Certs] /\ copy'.volume = volume
      BY <1>1, <2>1, <2>2
    <2>5. TypeOK'
      BY <1>1, <2>1, <2>2, <2>3, <2>4 DEF TypeOK, Others
    <2>6. Known' /\ Paired'
      BY <1>1, <2>1, <2>2, <2>4 DEF Known, Kept, Paired, PairMatches, Sound
    <2>7. q.cmd # "untrust"
      BY <1>1, <2>1, <2>2 DEF Certified
    <2>8. Work(u)' /\ Ready(u)' /\ Certified(u)'
      BY <2>3, <2>7 DEF Work, Ready, Certified, Inside
    <2> QED
      BY <1>1, <2>1, <2>2, <2>3, <2>5, <2>6, <2>8, HolderKeeps
  <1>3. CASE restoreFiles(u)
    <2>1. /\ q.pc = "files" /\ copy # None /\ Go(u, "profile") /\ box' = "none"
          /\ archive' = [c \in Certs |-> IF c \in copy.files THEN "whole" ELSE archive[c]]
          /\ UNCHANGED <<profile, program, network, lock, volume, made, copy, cached, store,
                         near, expired, installs, commands, lost, overlap>>
      BY <1>3 DEF restoreFiles, At, install_, clock, history
    <2>2. q.pc \in Inside
      BY <2>1 DEF Inside
    <2>3. /\ Others(u) /\ proc'[u].pc = "profile" /\ proc'[u].cmd = q.cmd /\ proc'[u].p = q.p
          /\ proc'[u].half = q.half
      BY <2>1, Turn DEF Labels
    <2>4. archive' \in [Certs -> Files] /\ \A c \in Certs : Kept(c) => Kept(c)'
      BY <1>1, <2>1, <2>2 DEF TypeOK, Files, Kept
    <2>5. TypeOK'
      BY <1>1, <2>1, <2>2, <2>3, <2>4 DEF TypeOK, Others
    <2>6. Known'
      BY <1>1, <2>1, <2>2, <2>4 DEF Known, Kept
    <2>7. Paired'
      BY <1>1, <2>1, <2>2 DEF Paired, PairMatches, Sound
    <2>8. q.cmd # "untrust" /\ ~q.half
      BY <1>1, <2>1, <2>2 DEF Certified
    <2>9. Work(u)' /\ Ready(u)' /\ Certified(u)'
      BY <1>1, <2>1, <2>2, <2>3, <2>8 DEF Work, Ready, Certified
    <2> QED
      BY <1>1, <2>1, <2>2, <2>3, <2>5, <2>6, <2>7, <2>9, HolderKeeps DEF Inside
  <1>4. CASE restoreProfile(u)
    <2>1. /\ q.pc = "profile" /\ Told(u) /\ profile' = [q.p EXCEPT !.home = @ + 1]
          /\ volume' = copy.volume
          /\ UNCHANGED <<program, network, lock, box, made, copy, cached, archive, store,
                         near, expired, installs, commands, lost, overlap>>
      BY <1>4 DEF restoreProfile, At, trusting, clock, history
    <2>2. q.pc \in Inside
      BY <2>1 DEF Inside
    <2>3. Others(u) /\ proc'[u].pc = "told" /\ proc'[u].cmd = q.cmd /\ ~proc'[u].half
      BY <2>1, Finish
    <2>4. profile' \in Profiles /\ box = "none" /\ copy # None /\ volume' \in Volumes
      BY <1>1, <2>1, <2>2 DEF Profiles, Ready
    <2>5. TypeOK'
      BY <1>1, <2>1, <2>2, <2>3, <2>4 DEF TypeOK, Others
    <2>6. Known'
      BY <1>1, <2>1, <2>2 DEF Known, Kept
    <2>7. Paired'
      BY <1>1, <2>1, <2>2, <2>4 DEF Paired, PairMatches, Sound
    <2>8. q.cmd # "untrust"
      BY <1>1, <2>1, <2>2 DEF Certified
    <2>9. Work(u)' /\ Ready(u)' /\ Certified(u)'
      BY <2>3, <2>8 DEF Work, Ready, Certified, Inside
    <2> QED
      BY <1>1, <2>1, <2>2, <2>3, <2>4, <2>5, <2>6, <2>7, <2>9, HolderKeeps
  <1> QED
    BY <1>2, <1>3, <1>4 DEF copies

LEMMA Inductive == ControllerInv /\ [Next]_vars => ControllerInv'
  <1> SUFFICES ASSUME ControllerInv, [Next]_vars PROVE ControllerInv'
    OBVIOUS
  <1>1. CASE UNCHANGED vars
    <2>1. UNCHANGED <<profile, program, network, lock, proc, box, volume, made, copy, cached,
                      archive, store, near, expired, installs, commands, lost, overlap>>
      BY <1>1 DEF vars, install_, container, trusting, clock, history
    <2> QED
      BY <2>1 DEF ControllerInv, TypeOK, Process, Role, Work, Certified, Ready, Kept, archiving,
         At, Writers, Fresh, Installing, Known, Paired, PairMatches, Sound
  <1>2. CASE \E u \in Users : Command(u)
    BY <1>2, InstallSteps, CommandSteps, DispatchSteps, CertificateSteps, CopySteps
       DEF Command, dispatch
  <1> QED
    BY <1>1, <1>2, SessionSteps DEF Next

LEMMA ControllerInvariant == Spec => []ControllerInv
  BY Initially, Inductive, PTL DEF Spec

\* Every variable keeps its type.
THEOREM ControllerTypeCorrect == Spec => []TypeOK
  <1>1. ControllerInv => TypeOK
    BY DEF ControllerInv
  <1> QED
    BY <1>1, ControllerInvariant, PTL

\* A command works alone, and on the profile that is on the disk.
THEOREM CommandsWorkOnTheProfile == Spec => []WorksOnProfile
  <1>1. ControllerInv => WorksOnProfile
    <2> SUFFICES ASSUME ControllerInv, NEW u \in Users, Working(u)
                 PROVE  lock = u /\ profile = proc[u].p
      BY DEF WorksOnProfile
    <2>1. proc[u].pc \in Labels /\ Process(u)
      BY Types DEF ControllerInv
    <2>2. proc[u].pc \in Inside
      BY <2>1 DEF Working, Process, Role, Labels, Inside, InstallLabels
    <2> QED
      BY <2>1, <2>2 DEF Process, Role, Work, Holding
  <1> QED
    BY <1>1, ControllerInvariant, PTL

\* The program of an installation is whole when no two installs overlapped.
THEOREM ProgramIsWhole == Spec => []InstalledIsWhole
  <1>1. ControllerInv => InstalledIsWhole
    BY DEF ControllerInv, TypeOK, Fresh, InstalledIsWhole
  <1> QED
    BY <1>1, ControllerInvariant, PTL

\* An untrust that succeeds leaves no certificate trusted.
THEOREM UntrustLeavesNothing == Spec => []UntrustIsComplete
  <1>1. ControllerInv => UntrustIsComplete
    BY DEF ControllerInv, Process, Certified, UntrustIsComplete, At
  <1> QED
    BY <1>1, ControllerInvariant, PTL

\* A served desktop has the key of its certificate.
THEOREM PairAlwaysMatches == Spec => []PairMatches
  <1>1. ControllerInv => PairMatches
    BY DEF ControllerInv, Paired
  <1> QED
    BY <1>1, ControllerInvariant, PTL

\* Only a restore writes over a profile, and it keeps the identity.
THEOREM IdentityIsKept == Spec => IdentityKept
  <1> DEFINE Same == profile \notin {Absent, Empty} =>
                        profile' \notin {Absent, Empty} /\ profile'.id = profile.id
  <1>1. ControllerInv /\ [Next]_vars => Same
    <2> SUFFICES ASSUME ControllerInv, [Next]_vars, profile \in Profiles
                 PROVE  profile' \notin {Absent, Empty} /\ profile'.id = profile.id
      BY DEF ControllerInv, TypeOK
    <2>1. CASE \E u \in Users : installCreates(u) \/ installWrites(u)
      BY <2>1, ControllerAssumption
         DEF installCreates, installWrites, At, ControllerInv, Process, Role
    <2>2. CASE \E u \in Users : restoreProfile(u)
      <3>1. PICK u \in Users :
               proc[u].pc = "profile" /\ profile' = [proc[u].p EXCEPT !.home = @ + 1]
        BY <2>2 DEF restoreProfile, At
      <3>2. proc[u].p = profile
        BY <3>1 DEF ControllerInv, Process, Work, Inside
      <3>3. profile' \in Profiles /\ profile'.id = profile.id
        BY <3>1, <3>2 DEF Profiles
      <3> QED
        BY <3>3, ControllerAssumption
    <2>3. CASE /\ ~\E u \in Users : installCreates(u) \/ installWrites(u) \/ restoreProfile(u)
      <3>1. UNCHANGED vars => profile' = profile
        BY DEF vars, install_
      <3>2. session => profile' = profile
        BY DEF session, sessionKeeps, moveKey, moveCert, sessionMarks, boot, halt, loseKey, age,
           host, install_
      <3>3. ASSUME NEW u \in Users, Command(u) PROVE profile' = profile
        <4>1. install(u) => profile' = profile
          BY <2>3 DEF install, installBegins, installNetwork, copyProgram, copyTruncates,
             copyFills, install_
        <4>2. dispatch(u) => profile' = profile
          BY DEF dispatch, runOpens, runLocks, runRereads, startBoots, startAwaits, install_
        <4>3. certificates(u) => profile' = profile
          BY DEF certificates, fetch, archiveTruncates, archiveWrites, certificateExports,
             trust, untrustLists, untrustForgets, untrustDone, inside, install_
        <4>4. copies(u) \/ Ends(u) => profile' = profile
          BY <2>3 DEF copies, backup, restoreFiles, Ends, install_
        <4> QED
          BY <3>3, <4>1, <4>2, <4>3, <4>4 DEF Command
      <3> QED
        BY <3>1, <3>2, <3>3, ControllerAssumption DEF Next
    <2> QED
      BY <2>1, <2>2, <2>3
  <1>2. ControllerInv /\ [Next]_vars => [Same]_vars
    BY <1>1
  <1> QED
    BY <1>2, ControllerInvariant, PTL DEF Spec, IdentityKept
=============================================================================
