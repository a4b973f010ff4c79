-------------------------- MODULE BackupStoreProofs --------------------------
(***************************************************************************)
(* For any installations, readers and bounds: a listing misses no copy     *)
(* that stays; and, as long as the clock is not set back, a completed copy *)
(* is kept and the directory implements Retention.                         *)
(***************************************************************************)
EXTENDS BackupStore, FiniteSetTheorems, WellFoundedInduction, TLAPS

\* An installation's directories, verified or not.
Own(i) == {id \in DOMAIN store : store[id].owner = i}

\* The name a backup has taken is nobody else's until it is published.
Naming(i) ==
    /\ op[i].pc \in {"publish", "verify", "prune", "completed"} => op[i].id \in used
    /\ op[i].pc = "publish" =>
           /\ op[i].id \notin DOMAIN store
           /\ \A j \in Installations :
                  op[j].pc = "publish" /\ op[j].id = op[i].id => i = j
Ages == /\ \A x \in DOMAIN store : store[x].age <= age
        /\ \A x, y \in DOMAIN store : store[x].age = store[y].age => x = y

\* What is removed has two newer copies that stay.
Pruning(i) ==
    op[i].pc = "prune" =>
        /\ op[i].old \subseteq ownCopies(store, i)
        /\ op[i].old # {} =>
               \E a, b \in ownCopies(store, i) \ op[i].old :
                   a # b /\ \A x \in op[i].old : x < a /\ x < b

\* While the clock goes forward, names are in the order of completion, and the
\* copy just completed has the last of them.
Forward == \A x \in used : x <= clock
Latest(i) ==
    /\ op[i].pc = "publish" => \A x \in Own(i) : x < op[i].id
    /\ op[i].pc \in {"verify", "prune", "completed"} =>
           \A x \in Own(i) : x <= op[i].id
    /\ op[i].pc \in {"prune", "completed"} =>
           op[i].id \in ownCopies(store, i) \ op[i].old
InOrder == \A x, y \in DOMAIN store :
               store[x].owner = store[y].owner /\ x < y => store[x].age < store[y].age
Ordered == Forward /\ InOrder /\ \A i \in Installations : Latest(i)

\* What a listing relies on is verified, and found or still to be looked at.
Listing(r) ==
    /\ reader[r].pc = "verify" =>
           /\ reader[r].stable \subseteq ownCopies(store, reader[r].of)
           /\ reader[r].stable \subseteq reader[r].found \cup reader[r].left
    /\ reader[r].pc = "listed" => reader[r].stable \subseteq reader[r].found

\* The inductive invariant.
StoreInv ==
    /\ TypeOK /\ Ages
    /\ \A i \in Installations : Naming(i) /\ Pruning(i)
    /\ ~ClockSetBack => Ordered
    /\ \A r \in Readers : Listing(r)

\* Max is what its name says of a set of names.
LEMMA Greatest ==
  ASSUME NEW S \in SUBSET Ids, S # {}
  PROVE  Max(S) \in S /\ \A y \in S : y <= Max(S)
<1> DEFINE T == {MaxTime - x : x \in S}
<1>0. \A x \in S : x \in Nat /\ x <= MaxTime
  BY StoreAssumption DEF Ids
<1>1. T \subseteq Nat /\ T # {}
  BY <1>0, StoreAssumption
<1>2. PICK t \in T : \A y \in T : ~(<<y, t>> \in OpToRel(<, Nat))
  BY ONLY <1>1, NatLessThanWellFounded, WFMin
<1>3. PICK m \in S : t = MaxTime - m
  OBVIOUS
<1>4. \A y \in S : m >= y
  <2> SUFFICES ASSUME NEW y \in S PROVE m >= y
    OBVIOUS
  <2>1. MaxTime - y \in T
    OBVIOUS
  <2>2. ~(MaxTime - y < t)
    BY <1>1, <1>2, <2>1 DEF OpToRel
  <2> QED
    BY <1>0, <1>3, <2>2, StoreAssumption
<1> QED
  BY <1>0, <1>4 DEF Max

\* Among an installation's copies, those that retention takes leave two newer
\* ones, and the newest of all is not among them.
LEMMA Retaining ==
  ASSUME NEW S \in SUBSET Ids
  PROVE  /\ retained(S) \subseteq S
         /\ retained(S) # {} =>
                \E a, b \in S \ retained(S) :
                    a # b /\ \A x \in retained(S) : x < a /\ x < b
         /\ \A m \in S : (\A x \in S : x <= m) => m \notin retained(S)
<1> DEFINE After(id) == {x \in S : x > id}
<1>0. S \subseteq Nat /\ \A x \in S : x \in Nat
  BY StoreAssumption DEF Ids
<1>1. \A m \in S : (\A x \in S : x <= m) => m \notin retained(S)
  <2> SUFFICES ASSUME NEW m \in S, \A x \in S : x <= m PROVE m \notin retained(S)
    OBVIOUS
  <2>1. ASSUME NEW x \in After(m) PROVE FALSE
    BY <1>0
  <2>2. {x \in S : x > m} = {}
    BY <2>1
  <2> QED
    BY <2>2, FS_EmptySet DEF retained
<1>2. ASSUME NEW z \in retained(S)
      PROVE  \E a, b \in S \ retained(S) :
                 a # b /\ \A x \in retained(S) : x < a /\ x < b
  <2> DEFINE a == Max(S)
             b == Max(S \ {a})
  <2>1. a \in S /\ \A y \in S : y <= a
    BY <1>2, Greatest DEF retained
  <2>2. a \notin retained(S)
    BY <1>1, <2>1
  <2>3. z \in S \ {a}
    BY <1>2, <2>2 DEF retained
  <2>4. b \in S \ {a} /\ \A y \in S \ {a} : y <= b
    BY <2>3, Greatest
  <2> HIDE DEF a, b
  <2>5. {x \in S : x > b} = {a}
    <3>1. \A x \in S : x > b <=> x = a
      BY <1>0, <2>1, <2>4
    <3> QED
      BY <2>1, <3>1
  <2>6. b \notin retained(S)
    BY <2>5, FS_Singleton DEF retained
  <2>7. \A x \in retained(S) : x < a /\ x < b
    BY <1>0, <2>1, <2>2, <2>4, <2>6 DEF retained
  <2> QED
    BY <2>1, <2>2, <2>4, <2>6, <2>7
<1> QED
  BY <1>1, <1>2 DEF retained

\* What the types say of one backup, one listing and one directory.
Backups  == [pc : {"idle", "publish", "verify", "prune", "completed", "failed"},
             id : Ids \cup {None}, old : SUBSET Ids]
Listings == [pc : {"idle", "verify", "listed"}, of : Installations \cup {None},
             left : SUBSET Ids, found : SUBSET Ids, stable : SUBSET Ids]
LEMMA Types ==
  TypeOK =>
    /\ op \in [Installations -> Backups] /\ reader \in [Readers -> Listings]
    /\ \A i \in Installations : op[i] \in Backups
    /\ \A r \in Readers : reader[r] \in Listings
    /\ \A id \in DOMAIN store : id \in Ids /\ store[id] \in Entries
    /\ \A id \in Ids : id \in Nat /\ id # None
  BY StoreAssumption DEF TypeOK, Backups, Listings, Ids

\* At the start the directory is empty.
LEMMA Initially == Init => StoreInv
<1> SUFFICES ASSUME Init PROVE StoreInv
  OBVIOUS
<1>1. TypeOK
  BY StoreAssumption DEF Init, TypeOK, Idle, NotListing, Ids, Entries
<1>2. DOMAIN store = {} /\ used = {} /\ clock = 1
  BY DEF Init
<1>3. \A i \in Installations : op[i].pc = "idle"
  BY DEF Init, Idle
<1>4. \A r \in Readers : reader[r].pc = "idle"
  BY DEF Init, NotListing
<1> QED
  BY <1>1, <1>2, <1>3, <1>4 DEF StoreInv, Ages, Naming, Pruning, Ordered,
     Forward, InOrder, Latest, Listing

\* A name is taken from the clock.
LEMMA NameSteps ==
  ASSUME StoreInv, NEW i \in Installations, takeName(i)
  PROVE  StoreInv'
<1> USE DEF StoreInv
<1>1. PICK t \in Ids \ used :
          /\ ClockSetBack \/ t >= clock
          /\ clock' = t /\ used' = used \cup {t}
          /\ op' = [op EXCEPT ![i] = [Idle EXCEPT !.pc = "publish", !.id = t]]
  BY DEF takeName, Go
<1>2. UNCHANGED <<store, reader, age, damaged>>
  BY DEF takeName
<1>3. /\ op'[i] = [pc |-> "publish", id |-> t, old |-> {}]
      /\ \A j \in Installations \ {i} : op'[j] = op[j]
  BY <1>1, Types DEF Idle
<1>4. TypeOK'
  <2>1. op'[i] \in Backups
    BY <1>3 DEF Backups
  <2>2. op' \in [Installations -> Backups]
    BY <1>1, <2>1, Types, <1>3
  <2> QED
    BY <1>1, <1>2, <2>2 DEF TypeOK, Backups
<1>5. Ages'
  BY <1>2 DEF Ages
<1>6. ASSUME NEW j \in Installations PROVE Naming(j)' /\ Pruning(j)'
  <2>1. t \notin DOMAIN store
    BY <1>1 DEF TypeOK
  <2>2. CASE j = i
    <3>1. \A k \in Installations : op'[k].pc = "publish" /\ op'[k].id = t => k = i
      BY <1>1, <1>3 DEF Naming
    <3> QED
      BY <1>1, <1>2, <1>3, <2>1, <2>2, <3>1 DEF Naming, Pruning
  <2>3. CASE j # i
    BY <1>1, <1>2, <1>3, <2>3 DEF Naming, Pruning, ownCopies, verified
  <2> QED
    BY <2>2, <2>3
<1>7. ASSUME ~ClockSetBack PROVE Ordered'
  <2>1. \A x \in used : x < t
    <3>1. /\ clock \in Nat /\ t \in Nat /\ \A x \in used : x \in Nat
          /\ t >= clock /\ t \notin used
      BY <1>1, <1>7, Types DEF TypeOK
    <3> QED
      BY <1>7, <3>1 DEF Ordered, Forward
  <2>2. Forward'
    BY <1>1, <2>1, Types DEF Forward, TypeOK
  <2>3. InOrder'
    BY <1>2, <1>7 DEF Ordered, InOrder
  <2>4. ASSUME NEW j \in Installations PROVE Latest(j)'
    <3>1. CASE j = i
      BY <1>2, <1>3, <2>1, <3>1 DEF Latest, Own, TypeOK
    <3>2. CASE j # i
      BY <1>2, <1>3, <1>7, <3>2 DEF Ordered, Latest, Own, ownCopies, verified
    <3> QED
      BY <3>1, <3>2
  <2> QED
    BY <2>2, <2>3, <2>4 DEF Ordered
<1>8. ASSUME NEW r \in Readers PROVE Listing(r)'
  BY <1>2 DEF Listing, ownCopies, verified
<1> QED
  BY <1>4, <1>5, <1>6, <1>7, <1>8

\* The copy gets its name, which no directory has, and the next age.
LEMMA PublishSteps ==
  ASSUME StoreInv, NEW i \in Installations, publish(i)
  PROVE  StoreInv'
<1> USE DEF StoreInv
<1> DEFINE n == op[i].id
<1>1. /\ n \in used /\ n \notin DOMAIN store /\ n \in Ids
      /\ \A j \in Installations : op[j].pc = "publish" /\ op[j].id = n => i = j
  BY Types DEF publish, Naming, TypeOK
<1>2. /\ DOMAIN store' = DOMAIN store \cup {n}
      /\ store'[n] = [owner |-> i, whole |-> TRUE, age |-> age + 1]
      /\ \A id \in DOMAIN store : store'[id] = store[id]
      /\ store' = [id \in DOMAIN store' |-> store'[id]]
  BY <1>1 DEF publish
<1>3. age' = age + 1 /\ UNCHANGED <<clock, used, reader, damaged>> /\ age \in Nat
  BY DEF publish, TypeOK
<1>4. /\ op' = [op EXCEPT ![i] = op'[i]]
      /\ op'[i] = [op[i] EXCEPT !.pc = "verify"]
      /\ op'[i].pc = "verify" /\ op'[i].id = n
      /\ \A j \in Installations \ {i} : op'[j] = op[j]
  BY Types DEF publish, Go, Backups
<1> HIDE DEF n
<1>5. TypeOK'
  <2>1. op'[i] \in Backups
    BY <1>4, Types DEF Backups
  <2>2. op' \in [Installations -> Backups]
    BY <1>4, <2>1, Types
  <2>3. store'[n] \in Entries
    BY <1>2, <1>3 DEF Entries
  <2>4. store' \in [DOMAIN store' -> Entries]
    BY <1>2, <2>3, Types
  <2> QED
    BY <1>1, <1>2, <1>3, <2>2, <2>4 DEF TypeOK, Backups
<1>6. Ages'
  <2>1. \A x \in DOMAIN store : store[x].age \in Nat /\ store[x].age <= age
    BY Types DEF Ages, Entries
  <2> QED
    BY <1>1, <1>2, <1>3, <2>1 DEF Ages
<1>7. \A j \in Installations : ownCopies(store, j) \subseteq ownCopies(store', j)
  BY <1>2 DEF ownCopies, verified
<1>8. \A j \in Installations \ {i} : /\ ownCopies(store', j) = ownCopies(store, j)
                                     /\ Own(j)' = Own(j)
  BY <1>1, <1>2 DEF ownCopies, verified, Own
<1>9. ASSUME NEW j \in Installations PROVE Naming(j)' /\ Pruning(j)'
  <2>1. CASE j = i
    BY <1>1, <1>3, <1>4, <2>1 DEF Naming, Pruning
  <2>2. CASE j # i
    <3>1. op'[j] = op[j] /\ used' = used /\ Naming(j)
      BY <1>3, <1>4, <2>2
    <3>2. ASSUME op[j].pc = "publish" PROVE op[j].id \notin DOMAIN store'
      BY <1>1, <1>2, <2>2, <3>1, <3>2 DEF Naming
    <3>3. \A k \in Installations : op'[k].pc = "publish" => op'[k] = op[k]
      BY <1>4
    <3>4. Naming(j)'
      BY <3>1, <3>2, <3>3 DEF Naming
    <3>5. Pruning(j)'
      BY <1>4, <1>8, <2>2 DEF Pruning
    <3> QED
      BY <3>4, <3>5
  <2> QED
    BY <2>1, <2>2
<1>10. ASSUME ~ClockSetBack PROVE Ordered'
  <2>1. Forward'
    BY <1>3, <1>10 DEF Ordered, Forward
  <2>2. \A x \in Own(i) : x < n
    BY <1>10 DEF Ordered, Latest, publish, n
  <2>3. InOrder'
    <3>1. \A x \in DOMAIN store : store[x].age \in Nat /\ store[x].age < age + 1
      BY <1>3, Types DEF Ages, Entries
    <3>2. \A x \in DOMAIN store : store[x].owner = i => x < n /\ ~(n < x)
      BY <1>1, <2>2, Types DEF Own
    <3> QED
      BY <1>1, <1>2, <1>10, <3>1, <3>2, Types DEF Ordered, InOrder
  <2>4. ASSUME NEW j \in Installations PROVE Latest(j)'
    <3>1. CASE j = i
      <4>1. \A x \in Own(i)' : x = n \/ x \in Own(i)
        BY <1>2 DEF Own
      <4>2. \A x \in Own(i)' : x <= n
        BY <1>1, <2>2, <4>1, Types DEF Own
      <4> QED
        BY <1>4, <3>1, <4>2 DEF Latest
    <3>2. CASE j # i
      <4>1. op'[j] = op[j] /\ Own(j)' = Own(j) /\ Latest(j)
        BY <1>4, <1>8, <1>10, <3>2 DEF Ordered
      <4>2. ownCopies(store, j)' = ownCopies(store, j)
        BY <1>8, <3>2 DEF ownCopies, verified
      <4> QED
        BY <4>1, <4>2 DEF Latest
    <3> QED
      BY <3>1, <3>2
  <2> QED
    BY <2>1, <2>3, <2>4 DEF Ordered
<1>11. ASSUME NEW r \in Readers PROVE Listing(r)'
  <2>1. \A j : ownCopies(store, j) \subseteq ownCopies(store', j)
    BY <1>2 DEF ownCopies, verified
  <2> QED
    BY <1>3, <2>1 DEF Listing
<1> QED
  BY <1>5, <1>6, <1>9, <1>10, <1>11

\* The steps of a backup that leave the directory as it is.
LEMMA TurnSteps ==
  ASSUME StoreInv, NEW i \in Installations, verify(i) \/ finish(i) \/ fail(i)
  PROVE  StoreInv'
<1> USE DEF StoreInv
<1>1. UNCHANGED <<clock, used, store, reader, age, damaged>>
  BY DEF verify, finish, fail, Untouched
<1>2. PICK o \in Backups :
          /\ op' = [op EXCEPT ![i] = o] /\ o.id = op[i].id
          /\ \/ /\ op[i].pc = "verify" /\ o.pc = "prune"
                /\ o.id \in completedBackups(i) /\ o.old = retained(completedBackups(i))
             \/ op[i].pc = "prune" /\ op[i].old = {} /\ o.pc = "completed" /\ o.old = {}
             \/ o.pc = "failed"
  <2>1. retained(completedBackups(i)) \in SUBSET Ids
    BY Types DEF retained, completedBackups, ownCopies
  <2>2. CASE verify(i)
    <3>1. CASE op[i].id \in completedBackups(i)
      <4> DEFINE w == [op[i] EXCEPT !.old = retained(completedBackups(i)), !.pc = "prune"]
      <4>1. op' = [op EXCEPT ![i] = w] /\ op[i].pc = "verify"
        BY <2>2, <3>1 DEF verify, Go
      <4>2. /\ w \in Backups /\ w.id = op[i].id /\ w.pc = "prune"
            /\ w.old = retained(completedBackups(i))
        BY <2>1, Types DEF Backups
      <4> HIDE DEF w
      <4> QED
        BY <3>1, <4>1, <4>2
    <3>2. CASE op[i].id \notin completedBackups(i)
      <4> DEFINE w == [op[i] EXCEPT !.pc = "failed"]
      <4>1. op' = [op EXCEPT ![i] = w]
        BY <2>2, <3>2 DEF verify, Go
      <4>2. w \in Backups /\ w.id = op[i].id /\ w.pc = "failed"
        BY Types DEF Backups
      <4> HIDE DEF w
      <4> QED
        BY <4>1, <4>2
    <3> QED
      BY <3>1, <3>2
  <2>3. CASE finish(i) \/ fail(i)
    BY <2>3, Types DEF finish, fail, Go, Backups
  <2> QED
    BY <2>2, <2>3
<1>3. op'[i] = o /\ \A j \in Installations \ {i} : op'[j] = op[j]
  BY <1>2, Types
<1>4. completedBackups(i) \in SUBSET Ids
  BY Types DEF completedBackups, ownCopies
<1>5. TypeOK'
  <2>1. op' \in [Installations -> Backups]
    BY <1>2, Types
  <2> QED
    BY <1>1, <2>1 DEF TypeOK, Backups
<1>6. Ages' /\ Forward' = Forward /\ InOrder' = InOrder
  BY <1>1 DEF Ages, Forward, InOrder
<1>7. ASSUME NEW j \in Installations PROVE Naming(j)'
  <2>1. \A k \in Installations : op'[k].pc = "publish" => op'[k] = op[k]
    BY <1>2, <1>3
  <2>2. op[j].id = op'[j].id
    BY <1>2, <1>3
  <2>3. op'[j].pc \in {"publish", "verify", "prune", "completed"} =>
            op[j].pc \in {"publish", "verify", "prune", "completed"}
    BY <1>2, <1>3
  <2> QED
    BY <1>1, <2>1, <2>2, <2>3 DEF Naming
<1>8. ASSUME NEW j \in Installations PROVE Pruning(j)'
  <2>1. CASE j = i
    BY <1>1, <1>2, <1>3, <1>4, <2>1, Retaining DEF Pruning, completedBackups
  <2>2. CASE j # i
    BY <1>1, <1>3, <2>2 DEF Pruning
  <2> QED
    BY <2>1, <2>2
<1>9. ASSUME ~ClockSetBack, NEW j \in Installations PROVE Latest(j)'
  <2>1. Latest(j) /\ Own(j)' = Own(j)
    BY <1>1, <1>9 DEF Ordered, Own
  <2>2. CASE j = i
    <3>1. op[i].pc = "verify" /\ o.pc = "prune" =>
              o.id \in completedBackups(i) \ retained(completedBackups(i))
      <4> SUFFICES ASSUME op[i].pc = "verify", o.pc = "prune"
                   PROVE  o.id \in completedBackups(i) \ retained(completedBackups(i))
        OBVIOUS
      <4>1. \A x \in completedBackups(i) : x <= o.id
        BY <1>2, <2>1, <2>2 DEF Latest, completedBackups, ownCopies, verified, Own
      <4> QED
        BY <1>2, <1>4, <4>1, Retaining
    <3> QED
      BY <1>1, <1>2, <1>3, <2>1, <2>2, <3>1 DEF Latest, completedBackups
  <2>3. CASE j # i
    BY <1>1, <1>3, <2>1, <2>3 DEF Latest
  <2> QED
    BY <2>2, <2>3
<1>10. ASSUME NEW r \in Readers PROVE Listing(r)'
  BY <1>1 DEF Listing
<1> QED
  BY <1>5, <1>6, <1>7, <1>8, <1>9, <1>10 DEF Ordered

\* A directory is removed or is no longer whole; the others stay as they are.
Shrunk(id) ==
    /\ id \in DOMAIN store /\ DOMAIN store' \subseteq DOMAIN store
    /\ store' \in [DOMAIN store' -> Entries]
    /\ \A x \in DOMAIN store \ {id} : x \in DOMAIN store' /\ store'[x] = store[x]
    /\ id \in DOMAIN store' =>
           /\ store'[id].owner = store[id].owner /\ store'[id].age = store[id].age
           /\ ~store'[id].whole

LEMMA Halved ==
  ASSUME StoreInv, NEW id \in DOMAIN store,
         store' = [store EXCEPT ![id].whole = FALSE]
  PROVE  Shrunk(id) /\ DOMAIN store' = DOMAIN store
<1>1. store[id] \in Entries /\ store \in [DOMAIN store -> Entries]
  BY DEF StoreInv, TypeOK
<1>2. [store[id] EXCEPT !.whole = FALSE] \in Entries
  BY <1>1 DEF Entries
<1>3. /\ DOMAIN store' = DOMAIN store
      /\ store'[id] = [store[id] EXCEPT !.whole = FALSE]
      /\ \A x \in DOMAIN store \ {id} : store'[x] = store[x]
      /\ store' \in [DOMAIN store -> Entries]
  BY <1>1, <1>2
<1>4. /\ store'[id].owner = store[id].owner /\ store'[id].age = store[id].age
      /\ ~store'[id].whole
  BY <1>1, <1>3 DEF Entries
<1> QED
  BY <1>3, <1>4 DEF Shrunk

LEMMA Removed ==
  ASSUME StoreInv, NEW id \in DOMAIN store,
         store' = Restrict(store, DOMAIN store \ {id})
  PROVE  Shrunk(id)
  BY Types DEF StoreInv, Shrunk, Restrict

LEMMA Shrinking ==
  ASSUME StoreInv, NEW id \in DOMAIN store, Shrunk(id)
  PROVE  /\ \A x \in DOMAIN store' : /\ store'[x].owner = store[x].owner
                                     /\ store'[x].age = store[x].age
         /\ \A i : Own(i)' \subseteq Own(i)
         /\ \A i : ownCopies(store', i) = ownCopies(store, i) \ {id}
         /\ \A i : i # store[id].owner => ownCopies(store', i) = ownCopies(store, i)
  BY DEF Shrunk, ownCopies, verified, Own

\* What is left when a directory shrinks.
LEMMA ShrinkKeeps ==
  ASSUME StoreInv, NEW id \in DOMAIN store, Shrunk(id), Recheck(store'),
         UNCHANGED <<clock, used, age>>
  PROVE  /\ Ages' /\ Forward' = Forward /\ (InOrder => InOrder')
         /\ reader' \in [Readers -> Listings]
         /\ \A r \in Readers : Listing(r)'
<1> USE DEF StoreInv
<1>1. Ages' /\ Forward' = Forward /\ (InOrder => InOrder')
  BY Shrinking DEF Ages, Forward, InOrder, Shrunk
<1>2. /\ reader' \in [Readers -> Listings]
      /\ \A r \in Readers :
             reader'[r] = [reader[r] EXCEPT !.stable = {x \in @ : verified(store', x)}]
  BY Types DEF Recheck, Listings
<1>3. ASSUME NEW r \in Readers PROVE Listing(r)'
  <2>1. /\ reader'[r].pc = reader[r].pc /\ reader'[r].of = reader[r].of
        /\ reader'[r].left = reader[r].left /\ reader'[r].found = reader[r].found
        /\ reader'[r].stable = {x \in reader[r].stable : verified(store', x)}
    BY <1>2, Types DEF Listings
  <2>2. ASSUME NEW x \in ownCopies(store, reader[r].of), verified(store', x)
        PROVE  x \in ownCopies(store', reader[r].of)
    BY <2>2, Shrinking DEF ownCopies, verified
  <2> QED
    BY <2>1, <2>2 DEF Listing
<1> QED
  BY <1>1, <1>2, <1>3

\* An old copy is removed, or half of it is.
LEMMA PruneSteps ==
  ASSUME StoreInv, NEW i \in Installations, prune(i)
  PROVE  StoreInv'
<1> USE DEF StoreInv
<1> DEFINE id == Max(op[i].old)
<1>1. op[i].pc = "prune" /\ op[i].old # {} /\ op[i].old \in SUBSET Ids
  BY Types DEF prune, Backups
<1>2. id \in op[i].old
  BY <1>1, Greatest
<1>3. id \in ownCopies(store, i) /\ id \in DOMAIN store /\ store[id].owner = i
  BY <1>1, <1>2 DEF Pruning, ownCopies
<1>4. Recheck(store') /\ UNCHANGED <<clock, used, age, damaged>>
  BY DEF prune
<1>5. \/ /\ store' = Restrict(store, DOMAIN store \ {id})
         /\ op' = [op EXCEPT ![i] = [op[i] EXCEPT !.old = op[i].old \ {id}]]
      \/ /\ store' = [store EXCEPT ![id].whole = FALSE]
         /\ op' = [op EXCEPT ![i] = [op[i] EXCEPT !.pc = "failed"]]
  BY DEF prune, Go
<1> HIDE DEF id
<1>6. Shrunk(id)
  BY <1>3, <1>5, Halved, Removed
<1>7. /\ op' \in [Installations -> Backups] /\ op'[i].id = op[i].id
      /\ \/ op'[i].pc = "prune" /\ op'[i].old = op[i].old \ {id}
         \/ op'[i].pc = "failed"
      /\ \A j \in Installations \ {i} : op'[j] = op[j]
  <2>1. [op[i] EXCEPT !.old = op[i].old \ {id}] \in Backups
    BY Types DEF Backups
  <2>2. [op[i] EXCEPT !.pc = "failed"] \in Backups
    BY Types DEF Backups
  <2> QED
    BY <1>1, <1>5, <2>1, <2>2, Types DEF Backups
<1>8. /\ Ages' /\ Forward' = Forward /\ (InOrder => InOrder')
      /\ reader' \in [Readers -> Listings] /\ \A r \in Readers : Listing(r)'
  BY <1>3, <1>4, <1>6, ShrinkKeeps
<1>9. TypeOK'
  BY <1>4, <1>6, <1>7, <1>8 DEF TypeOK, Backups, Listings, Shrunk
<1>10. ASSUME NEW j \in Installations PROVE Naming(j)'
  <2>1. \A k \in Installations : op'[k].pc = "publish" => op'[k] = op[k]
    BY <1>7
  <2>2. op[j].id = op'[j].id
    BY <1>7
  <2>3. op'[j].pc \in {"publish", "verify", "prune", "completed"} =>
            op[j].pc \in {"publish", "verify", "prune", "completed"}
    BY <1>1, <1>7
  <2> QED
    BY <1>4, <1>6, <2>1, <2>2, <2>3 DEF Naming, Shrunk
<1>11. /\ ownCopies(store', i) = ownCopies(store, i) \ {id}
       /\ \A j \in Installations \ {i} : ownCopies(store', j) = ownCopies(store, j)
       /\ \A j \in Installations : Own(j)' \subseteq Own(j)
  BY <1>3, <1>6, Shrinking
<1>12. ASSUME NEW j \in Installations PROVE Pruning(j)'
  <2>1. CASE j = i
    <3>1. PICK a, b \in ownCopies(store, i) \ op[i].old :
              a # b /\ \A x \in op[i].old : x < a /\ x < b
      BY <1>1 DEF Pruning
    <3>2. a \in ownCopies(store', i) \ op[i].old /\ b \in ownCopies(store', i) \ op[i].old
      BY <1>2, <1>11
    <3>3. op[i].old \subseteq ownCopies(store, i)
      BY <1>1 DEF Pruning
    <3> QED
      BY <1>2, <1>7, <1>11, <2>1, <3>1, <3>2, <3>3 DEF Pruning
  <2>2. CASE j # i
    BY <1>7, <1>11, <2>2 DEF Pruning
  <2> QED
    BY <2>1, <2>2
<1>13. ASSUME ~ClockSetBack, NEW j \in Installations PROVE Latest(j)'
  <2>1. Latest(j)
    BY <1>13 DEF Ordered
  <2>2. CASE j = i
    BY <1>1, <1>2, <1>7, <1>11, <2>1, <2>2 DEF Latest
  <2>3. CASE j # i
    BY <1>7, <1>11, <2>1, <2>3 DEF Latest
  <2> QED
    BY <2>2, <2>3
<1> QED
  BY <1>8, <1>9, <1>10, <1>12, <1>13 DEF Ordered

\* A copy is damaged; if its owner had just reported it, he learns of it.
LEMMA DamageSteps ==
  ASSUME StoreInv, NEW id \in DOMAIN store, damage(id)
  PROVE  StoreInv'
<1> USE DEF StoreInv
<1> DEFINE i == store[id].owner
<1>1. /\ i \in Installations /\ store[id] \in Entries
      /\ store \in [DOMAIN store -> Entries] /\ op[i].pc # "prune"
  BY DEF damage, TypeOK, Entries
<1>2. /\ store' = [store EXCEPT ![id].whole = FALSE] /\ damaged' = damaged + 1
      /\ op' = [op EXCEPT ![i] = IF op[i].pc = "completed" /\ op[i].id = id
                                 THEN Idle ELSE op[i]]
      /\ Recheck(store') /\ UNCHANGED <<clock, used, age>>
  BY DEF damage, Go
<1>3. Shrunk(id) /\ DOMAIN store' = DOMAIN store
  BY <1>2, Halved
<1>4. /\ Ages' /\ Forward' = Forward /\ (InOrder => InOrder')
      /\ reader' \in [Readers -> Listings] /\ \A r \in Readers : Listing(r)'
  BY <1>2, <1>3, ShrinkKeeps
<1>5. /\ op' \in [Installations -> Backups]
      /\ \A j \in Installations : op'[j] = op[j] \/ op'[j].pc = "idle"
      /\ op[i].pc = "completed" /\ op[i].id = id => op'[i].pc = "idle"
  <2>1. Idle \in Backups /\ Idle.pc = "idle"
    BY DEF Idle, Backups
  <2> QED
    BY <1>1, <1>2, <2>1, Types
<1> HIDE DEF i
<1>6. TypeOK'
  BY <1>2, <1>3, <1>4, <1>5 DEF TypeOK, Backups, Listings, Shrunk
<1>7. ASSUME NEW j \in Installations PROVE Naming(j)'
  <2>1. \A k \in Installations : op'[k].pc = "publish" => op'[k] = op[k]
    BY <1>5
  <2>2. op'[j] = op[j] \/ op'[j].pc = "idle"
    BY <1>5
  <2> QED
    BY <1>2, <1>3, <2>1, <2>2 DEF Naming
<1>8. /\ \A j : ownCopies(store', j) = ownCopies(store, j) \ {id}
      /\ \A j : j # i => ownCopies(store', j) = ownCopies(store, j)
      /\ \A j \in Installations : Own(j)' \subseteq Own(j)
  BY <1>3, Shrinking DEF i
<1>9. ASSUME NEW j \in Installations PROVE Pruning(j)'
  <2>1. op'[j].pc = "prune" => j # i /\ op'[j] = op[j]
    BY <1>1, <1>5
  <2> QED
    BY <1>8, <2>1 DEF Pruning
<1>10. ASSUME ~ClockSetBack, NEW j \in Installations PROVE Latest(j)'
  <2>1. Latest(j)
    BY <1>10 DEF Ordered
  <2>2. op'[j] = op[j] \/ op'[j].pc = "idle"
    BY <1>5
  <2>3. op'[j].pc \in {"prune", "completed"} =>
            op[j].id \in ownCopies(store', j) \ op[j].old
    BY <1>1, <1>5, <1>8, <2>1, <2>2 DEF Latest
  <2> QED
    BY <1>8, <2>1, <2>2, <2>3 DEF Latest
<1> QED
  BY <1>4, <1>6, <1>7, <1>9, <1>10 DEF Ordered

\* Listings change nothing but themselves.
LEMMA ListSteps ==
  ASSUME StoreInv, NEW r \in Readers, list(r) \/ listOne(r) \/ listEnd(r)
  PROVE  StoreInv'
<1> USE DEF StoreInv
<1>1. UNCHANGED <<clock, used, store, op, age, damaged>>
  BY DEF list, listOne, listEnd
<1>2. reader'[r] \in Listings /\ Listing(r)' /\ reader' = [reader EXCEPT ![r] = reader'[r]]
  <2>1. CASE list(r)
    <3>1. PICK i \in Installations :
              reader' = [reader EXCEPT ![r] =
                 [pc |-> "verify", of |-> i, left |-> DOMAIN store, found |-> {},
                  stable |-> ownCopies(store, i)]]
      BY <2>1 DEF list
    <3>2. ownCopies(store, i) \subseteq DOMAIN store /\ DOMAIN store \subseteq Ids
      BY Types DEF ownCopies
    <3> QED
      BY <1>1, <3>1, <3>2, Types DEF Listings, Listing
  <2>2. CASE listOne(r)
    <3>1. PICK id \in reader[r].left : reader' = [reader EXCEPT ![r] = listed(r, id)]
      BY <2>2 DEF listOne
    <3>2. reader'[r] = listed(r, id) /\ reader[r] \in Listings
      BY <3>1, Types
    <3>3. /\ listed(r, id) \in Listings /\ listed(r, id).pc = reader[r].pc
          /\ listed(r, id).of = reader[r].of /\ listed(r, id).stable = reader[r].stable
          /\ listed(r, id).left = reader[r].left \ {id}
          /\ listed(r, id).found =
                 IF verified(store, id) /\ store[id].owner = reader[r].of
                 THEN reader[r].found \cup {id} ELSE reader[r].found
      BY <3>2 DEF listed, Listings
    <3>4. reader[r].pc = "verify" /\ Listing(r)
      BY <2>2 DEF listOne
    <3>5. \A x \in reader[r].stable : verified(store, x) /\ store[x].owner = reader[r].of
      BY <3>4 DEF Listing, ownCopies
    <3> QED
      BY <1>1, <3>1, <3>2, <3>3, <3>4, <3>5 DEF Listing
  <2>3. CASE listEnd(r)
    <3>1. /\ reader' = [reader EXCEPT ![r] = [reader[r] EXCEPT !.pc = "listed"]]
          /\ reader[r].pc = "verify" /\ reader[r].left = {} /\ Listing(r)
      BY <2>3 DEF listEnd
    <3> QED
      BY <1>1, <3>1, Types DEF Listing, Listings
  <2> QED
    BY <2>1, <2>2, <2>3
<1>3. TypeOK'
  <2>1. reader' \in [Readers -> Listings]
    BY <1>2, Types
  <2> QED
    BY <1>1, <2>1 DEF TypeOK, Listings
<1>4. ASSUME NEW q \in Readers PROVE Listing(q)'
  <2>1. CASE q = r
    BY <1>2, <2>1
  <2>2. CASE q # r
    <3>1. reader'[q] = reader[q]
      BY <1>2, <2>2, Types
    <3> QED
      BY <1>1, <3>1 DEF Listing
  <2> QED
    BY <2>1, <2>2
<1>5. /\ Ages' /\ (Ordered => Ordered')
      /\ \A i \in Installations : Naming(i)' /\ Pruning(i)'
  BY <1>1 DEF Ages, Ordered, Forward, InOrder, Latest, Own, Naming, Pruning,
     ownCopies, verified
<1> QED
  BY <1>3, <1>4, <1>5

LEMMA Inductive == StoreInv /\ [Next]_vars => StoreInv'
<1>1. ASSUME StoreInv, Next PROVE StoreInv'
  <2>1. ASSUME NEW i \in Installations, backup(i) PROVE StoreInv'
    BY <1>1, <2>1, NameSteps, PublishSteps, TurnSteps, PruneSteps DEF backup
  <2>2. ASSUME NEW r \in Readers, list(r) \/ listOne(r) \/ listEnd(r) PROVE StoreInv'
    BY <1>1, <2>2, ListSteps
  <2>3. ASSUME NEW id \in DOMAIN store, damage(id) PROVE StoreInv'
    BY <1>1, <2>3, DamageSteps
  <2> QED
    BY <1>1, <2>1, <2>2, <2>3 DEF Next
<1>2. ASSUME StoreInv, UNCHANGED vars PROVE StoreInv'
  BY <1>2 DEF vars, StoreInv, TypeOK, Ages, Naming, Pruning, Ordered, Forward,
     InOrder, Latest, Own, Listing, ownCopies, verified
<1> QED
  BY <1>1, <1>2

LEMMA StoreInvariant == Spec => []StoreInv
  BY Initially, Inductive, PTL DEF Spec

\* Every variable of the directory keeps its type.
THEOREM StoreTypeCorrect == Spec => []TypeOK
<1>1. StoreInv => TypeOK
  BY DEF StoreInv
<1> QED
  BY <1>1, StoreInvariant, PTL

\* backup.go:150-179.  For any number of installations and readers a listing
\* names every copy that was complete from its beginning to its end.
THEOREM ListingIsComplete == Spec => []ListingMissesNone
<1>1. StoreInv => ListingMissesNone
  BY DEF StoreInv, Listing, ListingMissesNone
<1> QED
  BY <1>1, StoreInvariant, PTL

\* backup.go:440-458.  As long as the clock is not set back, a copy reported as
\* completed is there until the installation's next backup.
THEOREM CompletedStays ==
  ASSUME ~ClockSetBack PROVE Spec => []CompletedIsKept
<1>1. StoreInv => CompletedIsKept
  BY DEF StoreInv, Ordered, Latest, CompletedIsKept, ownCopies
<1> QED
  BY <1>1, StoreInvariant, PTL

(***************************************************************************)
(* Refinement.                                                             *)
(***************************************************************************)
\* What Retention sees of the directory.
AgesOf(i) == {store[id].age : id \in ownCopies(store, i)}
Kept     == [i \in Installations |-> AgesOf(i)]

\* The directory keeps the verified copies it had; only i's may differ.
LEMMA OthersKept ==
  ASSUME NEW i \in Installations,
         \A j \in Installations \ {i} : AgesOf(j)' = AgesOf(j)
  PROVE  Kept' = [Kept EXCEPT ![i] = AgesOf(i)']
  BY DEF Kept

\* A copy that stops being verified is one age less.
LEMMA OneLess ==
  ASSUME StoreInv, NEW i \in Installations, NEW id \in ownCopies(store, i),
         Shrunk(id)
  PROVE  /\ store[id].age \in Kept[i]
         /\ Kept' = [Kept EXCEPT ![i] = @ \ {store[id].age}]
<1>0. id \in DOMAIN store /\ store[id].owner = i
  BY DEF ownCopies
<1>1. /\ ownCopies(store', i) = ownCopies(store, i) \ {id}
      /\ \A j : j # i => ownCopies(store', j) = ownCopies(store, j)
      /\ \A x \in DOMAIN store' : store'[x].age = store[x].age
  BY <1>0, Shrinking
<1>3. \A j : ownCopies(store, j) \subseteq DOMAIN store
             /\ ownCopies(store', j) \subseteq DOMAIN store'
  BY DEF ownCopies
<1>4. \A x, y \in DOMAIN store : store[x].age = store[y].age => x = y
  BY DEF StoreInv, Ages
<1>5. AgesOf(i)' = AgesOf(i) \ {store[id].age}
  BY <1>1, <1>3, <1>4 DEF AgesOf
<1>6. \A j \in Installations \ {i} : AgesOf(j)' = AgesOf(j)
  BY <1>1, <1>3 DEF AgesOf
<1>7. store[id].age \in AgesOf(i)
  BY DEF AgesOf
<1>8. Kept' = [Kept EXCEPT ![i] = AgesOf(i)']
  BY <1>6, OthersKept
<1>9. Kept[i] = AgesOf(i)
  BY DEF Kept
<1> QED
  BY <1>5, <1>7, <1>8, <1>9

\* What leaves the verified copies as they are is a stutter.
LEMMA NothingKept ==
  ASSUME store' = store
  PROVE  Kept' = Kept
  BY DEF Kept, AgesOf, ownCopies, verified

\* A publication completes a copy.
LEMMA Completes ==
  ASSUME StoreInv, NEW i \in Installations, publish(i)
  PROVE  \E n \in Kept'[i] :
             /\ \A j \in Installations : \A m \in Kept[j] : m < n
             /\ Kept' = [Kept EXCEPT ![i] = @ \cup {n}]
<1> DEFINE id == op[i].id
           n  == age + 1
<1>1. id \notin DOMAIN store
  BY DEF publish, StoreInv, Naming
<1>2. /\ DOMAIN store' = DOMAIN store \cup {id}
      /\ store'[id] = [owner |-> i, whole |-> TRUE, age |-> n]
      /\ \A x \in DOMAIN store : store'[x] = store[x]
  BY <1>1 DEF publish
<1>3. \A x \in DOMAIN store : store[x].age \in Nat /\ store[x].age < n
  BY Types DEF StoreInv, Ages, Entries, TypeOK
<1> HIDE DEF id, n
<1>4. /\ ownCopies(store', i) = ownCopies(store, i) \cup {id}
      /\ \A j \in Installations \ {i} : ownCopies(store', j) = ownCopies(store, j)
  BY <1>1, <1>2 DEF ownCopies, verified
<1>5. \A j : ownCopies(store, j) \subseteq DOMAIN store
  BY DEF ownCopies
<1>6. AgesOf(i)' = AgesOf(i) \cup {n}
  BY <1>1, <1>2, <1>4, <1>5 DEF AgesOf
<1>7. \A j \in Installations \ {i} : AgesOf(j)' = AgesOf(j)
  BY <1>2, <1>4, <1>5 DEF AgesOf
<1>8. Kept' = [Kept EXCEPT ![i] = AgesOf(i)'] /\ Kept[i] = AgesOf(i)
  BY <1>7, OthersKept DEF Kept
<1>9. \A j \in Installations : \A m \in Kept[j] : m < n
  BY <1>3, <1>5 DEF Kept, AgesOf
<1>10. n \in Kept'[i]
  BY <1>6 DEF Kept
<1> QED
  BY <1>6, <1>8, <1>9, <1>10

\* What retention takes has two newer copies.
LEMMA Drops ==
  ASSUME StoreInv, Ordered, NEW i \in Installations, prune(i)
  PROVE  \E n \in Kept[i] :
             /\ \E x, y \in {m \in Kept[i] : m > n} : x # y
             /\ Kept' = [Kept EXCEPT ![i] = @ \ {n}]
<1> DEFINE id == Max(op[i].old)
           n  == store[id].age
<1>1. op[i].pc = "prune" /\ op[i].old # {} /\ op[i].old \in SUBSET Ids
  BY Types DEF prune, Backups, StoreInv
<1>2. id \in op[i].old
  BY <1>1, Greatest
<1>3. PICK a, b \in ownCopies(store, i) \ op[i].old :
          a # b /\ \A x \in op[i].old : x < a /\ x < b
  BY <1>1 DEF StoreInv, Pruning
<1>4. id \in ownCopies(store, i)
  BY <1>1, <1>2 DEF StoreInv, Pruning
<1>5. Shrunk(id) /\ store[id].owner = i /\ verified(store, id) /\ id \in DOMAIN store
  <2>1. \/ store' = Restrict(store, DOMAIN store \ {id})
        \/ store' = [store EXCEPT ![id].whole = FALSE]
    BY DEF prune
  <2> QED
    BY <1>4, <2>1, Halved, Removed DEF ownCopies
<1> HIDE DEF id
<1>6. Kept[i] = AgesOf(i)
  BY DEF Kept
<1>7. n \in Kept[i] /\ Kept' = [Kept EXCEPT ![i] = @ \ {n}]
  BY <1>4, <1>5, OneLess
<1>8. /\ store[a].age \in {m \in Kept[i] : m > n}
      /\ store[b].age \in {m \in Kept[i] : m > n}
      /\ store[a].age # store[b].age
  <2>1. /\ a \in DOMAIN store /\ b \in DOMAIN store /\ store[a].owner = i
        /\ store[b].owner = i
    BY <1>3 DEF ownCopies
  <2>2. id < a /\ id < b
    BY <1>2, <1>3
  <2>3. n < store[a].age /\ n < store[b].age /\ store[a].age # store[b].age
    BY <1>3, <1>5, <2>1, <2>2 DEF StoreInv, Ages, Ordered, InOrder
  <2>4. /\ store[a].age \in Nat /\ store[b].age \in Nat /\ n \in Nat
        /\ store[a].age \in AgesOf(i) /\ store[b].age \in AgesOf(i)
    BY <1>5, <2>1, Types DEF AgesOf, StoreInv, Entries
  <2> QED
    BY <1>6, <2>3, <2>4
<1> QED
  BY <1>7, <1>8

\* The initial directory is empty, and every step of it is one of Retention's
\* or none.
LEMMA Empty == Init => R!Init
  BY DEF Init, R!Init, ownCopies, verified

LEMMA Implements ==
  ASSUME ~ClockSetBack, StoreInv, [Next]_vars
  PROVE  [R!Next]_<<Kept, damaged>>
<1>1. ASSUME NEW i \in Installations, publish(i) PROVE R!Next
  <2>1. damaged' = damaged
    BY <1>1 DEF publish
  <2>2. R!Complete(i)
    BY <1>1, <2>1, Completes DEF R!Complete, Kept, AgesOf
  <2> QED
    BY <2>2 DEF R!Next
<1>2. ASSUME NEW i \in Installations, prune(i) PROVE R!Next
  <2>1. damaged' = damaged /\ Ordered
    BY <1>2 DEF prune, StoreInv
  <2>2. R!DropOld(i)
    BY <1>2, <2>1, Drops DEF R!DropOld, R!Newer, Kept, AgesOf
  <2> QED
    BY <2>2 DEF R!Next
<1>3. ASSUME NEW id \in DOMAIN store, damage(id) PROVE R!Next
  <2>1. PICK i \in Installations : store[id].owner = i
    BY Types DEF StoreInv, Entries
  <2>2. Shrunk(id) /\ id \in ownCopies(store, i)
    BY <1>3, <2>1, Halved DEF damage, ownCopies
  <2>3. \E n \in Kept[i] : Kept' = [Kept EXCEPT ![i] = @ \ {n}]
    BY <2>2, OneLess
  <2>4. damaged' = damaged + 1
    BY <1>3 DEF damage
  <2>5. R!Damaged(i)
    BY <2>3, <2>4 DEF R!Damaged, Kept, AgesOf
  <2> QED
    BY <2>5 DEF R!Next
<1>4. ASSUME UNCHANGED <<store, damaged>> PROVE UNCHANGED <<Kept, damaged>>
  BY <1>4, NothingKept
<1>5. \A i \in Installations :
          takeName(i) \/ verify(i) \/ finish(i) \/ fail(i) => UNCHANGED <<store, damaged>>
  BY DEF takeName, verify, finish, fail, Untouched
<1>6. \A r \in Readers :
          list(r) \/ listOne(r) \/ listEnd(r) => UNCHANGED <<store, damaged>>
  BY DEF list, listOne, listEnd
<1>7. UNCHANGED vars => UNCHANGED <<store, damaged>>
  BY DEF vars
<1> QED
  BY <1>1, <1>2, <1>3, <1>4, <1>5, <1>6, <1>7 DEF Next, backup

\* As long as the clock is not set back the directory implements Retention, for
\* any number of installations that share it: an installation's two newest
\* copies are never given up, whatever is killed or removed half way.
THEOREM NewestTwoAreKept ==
  ASSUME ~ClockSetBack PROVE Spec => KeepsNewestTwo
<1>1. StoreInv /\ [Next]_vars => [R!Next]_<<Kept, damaged>>
  BY Implements
<1> QED
  BY Empty, <1>1, StoreInvariant, PTL DEF Spec, KeepsNewestTwo, R!Spec, Kept, AgesOf
=============================================================================
