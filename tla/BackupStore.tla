----------------------------- MODULE BackupStore -----------------------------
(***************************************************************************)
(* The directory completed copies are kept in.  Several installations may  *)
(* share it; each runs at most one backup at a time (its own operation     *)
(* lock), while a listing takes no lock at all.  A copy's name is the wall *)
(* clock at which it was begun, and retention sorts by name.  Listing the  *)
(* store within a backup is one step, since only the owner adds or removes *)
(* its copies; backup --list is not, because it runs beside them.          *)
(*                                                                         *)
(* X_... is a definition X with a seeded fault; no action uses it.         *)
(***************************************************************************)
EXTENDS Naturals, FiniteSetsExt, Functions

CONSTANTS
    Installations,  \* installations that share the directory
    Readers,        \* processes that run backup --list
    MaxTime,        \* bound: values of the clock that name copies
    ClockSetBack,   \* may the clock be set to an earlier time?
    MaxDamage,      \* bound: copies damaged outside the program
    None            \* no copy

Ids == 1 .. MaxTime

ASSUME StoreAssumption ==
    /\ MaxTime \in Nat \ {0} /\ MaxDamage \in Nat
    /\ ClockSetBack \in BOOLEAN
    /\ None \notin Ids

VARIABLES
    clock,      \* the wall clock
    used,       \* names given so far, of which a random suffix makes each one
    store,      \* the directories with a final name: owner, whether all files
                \* are there and match their checksums, age
    op,         \* the backup each installation runs
    reader,     \* the listing each reader runs
    age,        \* history: how many copies have been completed
    damaged     \* how many copies were damaged

vars == <<clock, used, store, op, reader, age, damaged>>

Entries  == [owner : Installations, whole : BOOLEAN, age : Nat]
Idle     == [pc |-> "idle", id |-> None, old |-> {}]
NotListing == [pc |-> "idle", of |-> None, left |-> {}, found |-> {},
               stable |-> {}]

Init ==
    /\ clock = 1 /\ used = {} /\ age = 0 /\ damaged = 0
    /\ store = [id \in {} |-> {}]
    /\ op = [i \in Installations |-> Idle]
    /\ reader = [r \in Readers |-> NotListing]

\* readBackup succeeds: every file is there and matches its checksum.
verified(s, id) == id \in DOMAIN s /\ s[id].whole
ownCopies(s, i) == {id \in DOMAIN s : s[id].owner = i /\ verified(s, id)}

completedBackups_anyOwner(i) == {id \in DOMAIN store : verified(store, id)}
\* completedBackups: this installation's verified copies.
completedBackups(i) == ownCopies(store, i)

\* What the listings in progress can still rely on.
Recheck(s) ==
    reader' = [r \in Readers |->
        [reader[r] EXCEPT !.stable = {id \in @ : verified(s, id)}]]

(***************************************************************************)
(* backup, from the moment the container is stopped.                       *)
(***************************************************************************)
Go(i, o)    == op' = [op EXCEPT ![i] = o]
Untouched   == UNCHANGED <<clock, used, store, reader, age, damaged>>

takeName_noSuffix(i) ==
    /\ op[i].pc \in {"idle", "completed", "failed"}
    /\ \E t \in Ids :
          /\ ClockSetBack \/ t >= clock
          /\ clock' = t /\ UNCHANGED used
          /\ Go(i, [Idle EXCEPT !.pc = "publish", !.id = t])
    /\ UNCHANGED <<store, reader, age, damaged>>
\* The name is taken from the clock, and a staging directory is made.
takeName(i) ==
    /\ op[i].pc \in {"idle", "completed", "failed"}
    /\ \E t \in Ids \ used :
          /\ ClockSetBack \/ t >= clock
          /\ clock' = t /\ used' = used \cup {t}
          /\ Go(i, [Idle EXCEPT !.pc = "publish", !.id = t])
    /\ UNCHANGED <<store, reader, age, damaged>>

\* The archive, the manifest and its checksum are written in the staging
\* directory, which no listing reads; then it takes its final name.
publish(i) ==
    /\ op[i].pc = "publish"
    /\ store' = [id \in DOMAIN store \cup {op[i].id} |->
                  IF id = op[i].id
                  THEN [owner |-> i, whole |-> TRUE, age |-> age + 1]
                  ELSE store[id]]
    /\ age' = age + 1
    /\ Go(i, [op[i] EXCEPT !.pc = "verify"])
    /\ UNCHANGED <<clock, used, reader, damaged>>

retained_oldest(copies) ==
    {id \in copies : Cardinality({x \in copies : x < id}) >= 2}
\* All but the first two are to be removed, the greatest name being first.
retained(copies) ==
    {id \in copies : Cardinality({x \in copies : x > id}) >= 2}

\* The store is listed again: the new copy must be among the verified ones.
verify(i) ==
    /\ op[i].pc = "verify"
    /\ LET copies == completedBackups(i) IN
       Go(i, IF op[i].id \in copies
             THEN [op[i] EXCEPT !.old = retained(copies), !.pc = "prune"]
             ELSE [op[i] EXCEPT !.pc = "failed"])
    /\ Untouched

\* One old copy is removed, file by file; removing it may fail half way.
prune(i) ==
    /\ op[i].pc = "prune" /\ op[i].old # {}
    /\ LET id == Max(op[i].old) IN
       \/ /\ store' = Restrict(store, DOMAIN store \ {id})
          /\ Go(i, [op[i] EXCEPT !.old = @ \ {id}])
       \/ /\ store' = [store EXCEPT ![id].whole = FALSE]
          /\ Go(i, [op[i] EXCEPT !.pc = "failed"])
    /\ Recheck(store')
    /\ UNCHANGED <<clock, used, age, damaged>>

finish(i) ==
    /\ op[i].pc = "prune" /\ op[i].old = {}
    /\ Go(i, [op[i] EXCEPT !.pc = "completed"])
    /\ Untouched

\* A step fails, or the process is killed: the staging directory is removed
\* or stays behind under a name no listing reads.
fail(i) ==
    /\ op[i].pc \in {"publish", "verify", "prune"}
    /\ Go(i, [op[i] EXCEPT !.pc = "failed"])
    /\ Untouched

backup(i) == \/ takeName(i) \/ publish(i) \/ verify(i) \/ prune(i)
             \/ finish(i) \/ fail(i)

(***************************************************************************)
(* backup --list, without a lock: the names are read first, then each copy *)
(* is verified, which takes as long as hashing it.                         *)
(***************************************************************************)
list(r) ==
    /\ reader[r].pc # "verify"
    /\ \E i \in Installations :
          reader' = [reader EXCEPT ![r] =
             [pc |-> "verify", of |-> i, left |-> DOMAIN store, found |-> {},
              stable |-> ownCopies(store, i)]]
    /\ UNCHANGED <<clock, used, store, op, age, damaged>>

listed_stopsAtFailure(r, id) ==
    IF ~verified(store, id) THEN [reader[r] EXCEPT !.left = {}]
    ELSE [reader[r] EXCEPT !.left = @ \ {id},
              !.found = IF store[id].owner = reader[r].of
                        THEN @ \cup {id} ELSE @]
\* What one directory adds to the listing: nothing if it cannot be verified.
listed(r, id) ==
    [reader[r] EXCEPT !.left = @ \ {id},
        !.found = IF verified(store, id) /\ store[id].owner = reader[r].of
                  THEN @ \cup {id} ELSE @]
listOne(r) ==
    /\ reader[r].pc = "verify" /\ reader[r].left # {}
    /\ \E id \in reader[r].left :
          reader' = [reader EXCEPT ![r] = listed(r, id)]
    /\ UNCHANGED <<clock, used, store, op, age, damaged>>
listEnd(r) ==
    /\ reader[r].pc = "verify" /\ reader[r].left = {}
    /\ reader' = [reader EXCEPT ![r].pc = "listed"]
    /\ UNCHANGED <<clock, used, store, op, age, damaged>>

\* A copy is damaged by the disk or by hand, though not between the moment
\* its owner verified its copies and the end of that backup.
damage(id) ==
    /\ damaged < MaxDamage /\ verified(store, id)
    /\ LET o == op[store[id].owner] IN
       /\ o.pc # "prune"
       /\ Go(store[id].owner,
             IF o.pc = "completed" /\ o.id = id THEN Idle ELSE o)
    /\ store' = [store EXCEPT ![id].whole = FALSE]
    /\ damaged' = damaged + 1
    /\ Recheck(store')
    /\ UNCHANGED <<clock, used, age>>

Next == \/ \E i \in Installations : backup(i)
        \/ \E r \in Readers : list(r) \/ listOne(r) \/ listEnd(r)
        \/ \E id \in DOMAIN store : damage(id)

Spec == Init /\ [][Next]_vars

TypeOK ==
    /\ clock \in Ids /\ used \subseteq Ids /\ age \in Nat
    /\ damaged \in Nat
    /\ DOMAIN store \subseteq used /\ store \in [DOMAIN store -> Entries]
    /\ op \in [Installations ->
                 [pc : {"idle", "publish", "verify", "prune", "completed",
                        "failed"},
                  id : Ids \cup {None}, old : SUBSET Ids]]
    /\ reader \in [Readers ->
                 [pc : {"idle", "verify", "listed"},
                  of : Installations \cup {None}, left : SUBSET Ids,
                  found : SUBSET Ids, stable : SUBSET Ids]]

-----------------------------------------------------------------------------
\* A copy reported as completed is there: update-image removes the only
\* container that had the files once backup returned (backup.go 440-458,
\* docs/backups.md 12).
CompletedIsKept ==
    \A i \in Installations :
        op[i].pc = "completed" => verified(store, op[i].id)

\* A listing names every copy that was complete from its beginning to its
\* end, whatever is written, removed or damaged meanwhile (backup.go 150-179).
ListingMissesNone ==
    \A r \in Readers :
        reader[r].pc = "listed" => reader[r].stable \subseteq reader[r].found

\* The store implements Retention: an installation's two newest copies are
\* never removed, whoever shares the directory, runs are killed or removals
\* fail half way (backup.go 150-179 and 451-455, docs/backups.md 12).
R == INSTANCE Retention
        WITH kept <- [i \in Installations |->
                        {store[id].age : id \in ownCopies(store, i)}]
KeepsNewestTwo == R!Spec
=============================================================================
