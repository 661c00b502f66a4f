-------------------------- MODULE InstancesProofs --------------------------
(***************************************************************************)
(* Theorems about Instances for every number of instances, migrations,     *)
(* names and blocks.  What concerns the migrations holds whatever the      *)
(* server's synchronous_commit is; what concerns service after them, ids   *)
(* and names is proved for a server with synchronous_commit on: without, a *)
(* crash may take back the block that was given out last.                  *)
(***************************************************************************)
EXTENDS Instances, TLAPS

-----------------------------------------------------------------------------
(* Types. *)

DbRecord ==
  [applied: SUBSET Files, runs: [Files -> Nat], services: SUBSET ServiceRow,
   nextService: Nat, nextBlock: Nat]

DbTypes == db \in DbRecord /\ saved \in DbRecord

BootTypes ==
  /\ lock \in Procs \cup {"free", "orphan"}
  /\ pc \in [Procs -> Stages]
  /\ seen \in [Procs -> SUBSET Files]
  /\ faults \in Nat

NameTypes ==
  /\ cache \in [Procs -> [Names -> Nat]]
  /\ register \in [Procs -> [Names -> {"none", "insert", "select"}]]

IdTypes ==
  /\ next \in [Procs -> Nat] /\ remaining \in [Procs -> 0..BlockSize]
  /\ inFlight \in [Procs -> Nat]

RowTypes == used \subseteq Nat /\ stored \subseteq ServiceRow /\ reissued \in BOOLEAN

TypeInv == DbTypes /\ BootTypes /\ NameTypes /\ IdTypes /\ RowTypes

LEMMA TypeParts == TypeInv <=> TypeOK
BY DEF TypeInv, DbTypes, DbRecord, BootTypes, NameTypes, IdTypes, RowTypes, TypeOK

LEMMA InitTypes == Init => TypeInv
<1> SUFFICES ASSUME Init
             PROVE  TypeInv
  OBVIOUS
<1>1. DbTypes
  BY DEF Init, DbTypes, DbRecord, ServiceRow
<1>2. BootTypes
  BY DEF Init, BootTypes, Stages
<1>3. NameTypes
  BY DEF Init, NameTypes, NoId
<1>4. IdTypes
  BY InstancesAssumption DEF Init, IdTypes, NoId
<1>5. RowTypes
  BY DEF Init, RowTypes
<1> QED BY <1>1, <1>2, <1>3, <1>4, <1>5 DEF TypeInv

\* One field of the database at a time.
LEMMA UpdateApplied ==
  ASSUME NEW d \in DbRecord, NEW v \in SUBSET Files
  PROVE  [d EXCEPT !.applied = v] \in DbRecord
BY DEF DbRecord

LEMMA UpdateRuns ==
  ASSUME NEW d \in DbRecord, NEW v \in [Files -> Nat]
  PROVE  [d EXCEPT !.runs = v] \in DbRecord
BY DEF DbRecord

LEMMA UpdateServices ==
  ASSUME NEW d \in DbRecord, NEW v \in SUBSET ServiceRow
  PROVE  [d EXCEPT !.services = v] \in DbRecord
BY DEF DbRecord

LEMMA UpdateNextService ==
  ASSUME NEW d \in DbRecord
  PROVE  [d EXCEPT !.nextService = @ + 1] \in DbRecord
BY DEF DbRecord

LEMMA CommittedTypes ==
  ASSUME DbTypes, NEW new \in DbRecord, Committed(new)
  PROVE  DbTypes'
BY DEF DbTypes, DbRecord, Committed, ServiceRow, Files

LEMMA DbTypesFrame ==
  ASSUME DbTypes, db' \in {db, saved}, saved' = saved
  PROVE  DbTypes'
BY DEF DbTypes, DbRecord, ServiceRow, Files

LEMMA ForgetTypes ==
  ASSUME BootTypes, NameTypes, IdTypes, NEW ps, Forget(ps),
         lock' \in {lock, "free", "orphan"}, faults' = faults + 1
  PROVE  BootTypes' /\ NameTypes' /\ IdTypes'
<1>1. BootTypes'
  BY DEF BootTypes, Forget, Stages, Files
<1>2. NameTypes'
  BY DEF NameTypes, Forget, NoId
<1>3. IdTypes'
  BY InstancesAssumption DEF IdTypes, Forget, NoId
<1> QED BY <1>1, <1>2, <1>3

\* The steps of main() change neither names in flight nor ids.
LEMMA BootStepTypes ==
  ASSUME TypeInv, NEW p \in Procs, BootStep(p), Commit(p) => Current(p) \in Files
  PROVE  TypeInv'
<1> USE DEF TypeInv
<1>1. CASE Start(p) \/ TakeLock(p) \/ ReadApplied(p) \/ RunFile(p) \/ Unlock(p) \/ Indexes(p)
  <2>1. UNCHANGED <<db, saved, nameVars, idVars, rowVars, faults>>
    BY <1>1 DEF Start, TakeLock, ReadApplied, RunFile, Unlock, Indexes
  <2>2. DbTypes' /\ NameTypes' /\ IdTypes' /\ RowTypes'
    BY <2>1, DbTypesFrame DEF nameVars, idVars, rowVars, NameTypes, IdTypes, RowTypes,
       ServiceRow
  <2>3. pc' \in [Procs -> Stages]
    BY <1>1 DEF Start, TakeLock, ReadApplied, RunFile, Unlock, Indexes, Becomes, NextFile,
       BootTypes, Stages
  <2>4. lock' \in Procs \cup {"free", "orphan"}
    BY <1>1 DEF Start, TakeLock, ReadApplied, RunFile, Unlock, Indexes, BootTypes
  <2>5. seen' \in [Procs -> SUBSET Files]
    BY <1>1 DEF Start, TakeLock, ReadApplied, RunFile, Unlock, Indexes, BootTypes, DbTypes,
       DbRecord, Files
  <2> QED BY <2>1, <2>2, <2>3, <2>4, <2>5 DEF BootTypes, Files
<1>2. CASE Load(p)
  <2>1. UNCHANGED <<db, saved, lock, seen, register, idVars, rowVars, faults>>
    BY <1>2 DEF Load
  <2>2. DbTypes' /\ IdTypes' /\ RowTypes'
    BY <2>1, DbTypesFrame DEF idVars, rowVars, IdTypes, RowTypes, ServiceRow
  <2>3. BootTypes'
    BY <1>2, <2>1 DEF Load, Becomes, BootTypes, Stages, Files
  <2>4. NameTypes'
    <3>1. ASSUME NEW n \in Names, \E row \in db.services : row.name = n
          PROVE  (CHOOSE row \in db.services : row.name = n).id \in Nat
      BY <3>1 DEF DbTypes, DbRecord, ServiceRow
    <3> QED BY <1>2, <3>1 DEF Load, NameTypes, NoId
  <2> QED BY <2>2, <2>3, <2>4
<1>3. CASE Commit(p)
  <2>1. UNCHANGED <<lock, nameVars, idVars, rowVars, faults>>
    BY <1>3 DEF Commit
  <2>2. NameTypes' /\ IdTypes' /\ RowTypes'
    BY <2>1 DEF nameVars, idVars, rowVars, NameTypes, IdTypes, RowTypes, ServiceRow
  <2>3. BootTypes'
    BY <1>3, <2>1 DEF Commit, Becomes, NextFile, BootTypes, Stages, Files
  <2>4. DbTypes'
    <3> DEFINE new == [db EXCEPT !.applied = @ \cup {Current(p)},
                                 !.runs[Current(p)] = @ + 1]
    <3>1. new \in DbRecord
      <4> DEFINE A == db.applied \cup {Current(p)}
                 R == [db.runs EXCEPT ![Current(p)] = @ + 1]
      <4>1. new = [[db EXCEPT !.applied = A] EXCEPT !.runs = R]
        BY DEF DbTypes, DbRecord
      <4>2. db \in DbRecord /\ R \in [Files -> Nat] /\ A \in SUBSET Files
        BY <1>3 DEF DbTypes, DbRecord
      <4> HIDE DEF A, R
      <4> QED BY <4>1, <4>2, UpdateApplied, UpdateRuns
    <3>2. Committed(new)
      BY <1>3 DEF Commit
    <3> HIDE DEF new
    <3> QED BY <3>1, <3>2, CommittedTypes
  <2> QED BY <2>2, <2>3, <2>4
<1> QED BY <1>1, <1>2, <1>3 DEF BootStep

\* The steps of ServiceDictionary.
LEMMA NameStepTypes ==
  ASSUME TypeInv, NEW p \in Procs, NEW n \in Names,
         Register(p, n) \/ RegisterInsert(p, n) \/ RegisterSelect(p, n) \/ RegisterFails(p, n)
  PROVE  TypeInv'
<1> USE DEF TypeInv
<1>1. UNCHANGED <<bootVars, idVars, rowVars>> /\ faults' \in {faults, faults + 1}
  BY DEF Register, RegisterInsert, RegisterSelect, RegisterFails
<1>2. BootTypes' /\ IdTypes' /\ RowTypes'
  <2>1. UNCHANGED <<lock, pc, seen, next, remaining, inFlight, used, stored, reissued>>
    BY <1>1 DEF bootVars, idVars, rowVars
  <2>2. faults' \in Nat
    BY <1>1 DEF BootTypes
  <2> QED BY <2>1, <2>2 DEF BootTypes, IdTypes, RowTypes, ServiceRow, Files
<1>3. CASE Register(p, n) \/ RegisterFails(p, n)
  <2>1. /\ UNCHANGED <<db, saved, cache>>
        /\ \E to \in {"none", "insert"} : register' = [register EXCEPT ![p][n] = to]
    BY <1>3 DEF Register, RegisterFails
  <2>2. DbTypes'
    BY <2>1, DbTypesFrame
  <2>3. NameTypes'
    BY <2>1 DEF NameTypes
  <2> QED BY <1>2, <2>2, <2>3
<1>4. CASE RegisterInsert(p, n)
  <2> DEFINE isNew == \A row \in db.services : row.name # n
             S == IF isNew THEN db.services \cup {[id |-> db.nextService, name |-> n]}
                  ELSE db.services
             new == [[db EXCEPT !.nextService = @ + 1] EXCEPT !.services = S]
  <2>1. db \in DbRecord /\ db.services \in SUBSET ServiceRow /\ db.nextService \in Nat
    BY DEF DbTypes, DbRecord
  <2>2. S \in SUBSET ServiceRow
    BY <2>1 DEF ServiceRow
  <2>3. [db EXCEPT !.nextService = @ + 1,
                   !.services = IF isNew THEN @ \cup {[id |-> db.nextService, name |-> n]}
                                ELSE @] = new
    BY <2>1 DEF DbRecord
  <2>4. Committed(new) /\ register' = [register EXCEPT ![p][n] = "select"] /\ cache' = cache
    BY <1>4, <2>3 DEF RegisterInsert
  <2>5. new \in DbRecord
    <3> HIDE DEF S
    <3> QED BY <2>1, <2>2, UpdateNextService, UpdateServices
  <2> HIDE DEF new
  <2>6. DbTypes'
    BY <2>4, <2>5, CommittedTypes
  <2>7. NameTypes'
    BY <2>4 DEF NameTypes
  <2> QED BY <1>2, <2>6, <2>7
<1>5. CASE RegisterSelect(p, n)
  <2> DEFINE found == CHOOSE row \in db.services : row.name = n
  <2>1. (\E row \in db.services : row.name = n) => found.id \in Nat
    BY DEF DbTypes, DbRecord, ServiceRow
  <2>2. cache' = [cache EXCEPT ![p][n] =
          IF \E row \in db.services : row.name = n THEN found.id ELSE cache[p][n]]
    BY <1>5 DEF RegisterSelect, NameTypes
  <2> HIDE DEF found
  <2>3. NameTypes' /\ DbTypes'
    BY <1>5, <2>1, <2>2, DbTypesFrame DEF RegisterSelect, NameTypes
  <2> QED BY <1>2, <2>3
<1> QED BY <1>3, <1>4, <1>5

\* The steps of IdAllocator.
LEMMA FetchTypes ==
  ASSUME TypeInv, NEW p \in Procs, Fetch(p)
  PROVE  DbTypes' /\ IdTypes'
<1> DEFINE new == [applied |-> db.applied, runs |-> db.runs, services |-> db.services,
                   nextService |-> db.nextService, nextBlock |-> db.nextBlock + BlockSize]
<1>1. /\ db.applied \in SUBSET Files /\ db.runs \in [Files -> Nat]
      /\ db.services \in SUBSET ServiceRow
      /\ db.nextService \in Nat /\ db.nextBlock \in Nat
  BY DEF TypeInv, DbTypes, DbRecord
<1>2. [db EXCEPT !.nextBlock = @ + BlockSize] = new
  BY DEF TypeInv, DbTypes, DbRecord
<1>3. Committed(new)
  BY <1>2 DEF Fetch
<1>4. new \in DbRecord
  BY <1>1, InstancesAssumption DEF DbRecord
<1>5. DbTypes'
  BY <1>3, <1>4, CommittedTypes DEF TypeInv
<1>6. IdTypes'
  BY <1>1 DEF Fetch, TypeInv, IdTypes
<1> QED BY <1>5, <1>6

LEMMA IdStepTypes ==
  ASSUME TypeInv, NEW p \in Procs, Fetch(p) \/ BlockArrives(p) \/ FetchFails(p)
  PROVE  TypeInv'
<1> USE DEF TypeInv
<1>1. UNCHANGED <<bootVars, nameVars, rowVars, faults>>
  BY DEF Fetch, BlockArrives, FetchFails
<1>2. BootTypes' /\ NameTypes' /\ RowTypes'
  BY <1>1 DEF bootVars, nameVars, rowVars, BootTypes, NameTypes, RowTypes, ServiceRow, Files
<1>3. CASE Fetch(p)
  BY <1>2, <1>3, FetchTypes
<1>4. CASE BlockArrives(p) \/ FetchFails(p)
  <2>1. DbTypes'
    BY <1>4, DbTypesFrame DEF BlockArrives, FetchFails
  <2>2. IdTypes'
    BY <1>4, InstancesAssumption DEF BlockArrives, FetchFails, IdTypes, NoId
  <2> QED BY <1>2, <2>1, <2>2
<1> QED BY <1>3, <1>4

LEMMA StoreRowTypes ==
  ASSUME TypeInv, NEW p \in Procs, NEW n \in Names, StoreRow(p, n)
  PROVE  TypeInv'
<1> USE DEF TypeInv
<1>1. BootTypes' /\ NameTypes' /\ DbTypes'
  BY DbTypesFrame DEF StoreRow, bootVars, nameVars, BootTypes, NameTypes, Files
<1>2. IdTypes'
  BY InstancesAssumption DEF StoreRow, IdTypes
<1>3. RowTypes'
  <2>1. next[p] \in Nat /\ cache[p][n] \in Nat
    BY DEF IdTypes, NameTypes
  <2>2. used' \subseteq Nat /\ stored' \subseteq ServiceRow
    <3>1. used' = used \cup {next[p]} /\ stored' = stored \cup {[id |-> cache[p][n], name |-> n]}
      BY DEF StoreRow
    <3>2. [id |-> cache[p][n], name |-> n] \in ServiceRow
      BY <2>1 DEF ServiceRow
    <3>3. used \subseteq Nat /\ stored \subseteq ServiceRow
      BY DEF RowTypes
    <3> QED BY <2>1, <3>1, <3>2, <3>3
  <2>3. reissued' \in BOOLEAN
    <3>1. reissued' = (reissued \/ next[p] \in used)
      BY DEF StoreRow
    <3> QED BY <3>1
  <2> QED BY <2>2, <2>3 DEF RowTypes
<1> QED BY <1>1, <1>2, <1>3

\* Deaths, of processes and of the database.
LEMMA FaultTypes ==
  ASSUME TypeInv, (\E p \in Procs : BootFails(p) \/ Die(p)) \/ OrphanEnds \/ DbCrash
  PROVE  TypeInv'
<1> USE DEF TypeInv
<1>1. ASSUME NEW p \in Procs, BootFails(p) \/ Die(p)
      PROVE  TypeInv'
  <2>1. /\ UNCHANGED <<db, saved, rowVars>> /\ Forget({p}) /\ faults' = faults + 1
        /\ lock' \in {lock, "free", "orphan"}
    BY <1>1 DEF BootFails, Die
  <2>2. BootTypes' /\ NameTypes' /\ IdTypes'
    BY <2>1, ForgetTypes
  <2>3. DbTypes' /\ RowTypes'
    BY <2>1, DbTypesFrame DEF rowVars, RowTypes, ServiceRow
  <2> QED BY <2>2, <2>3
<1>2. CASE OrphanEnds
  <2>1. UNCHANGED <<db, saved, pc, seen, nameVars, idVars, rowVars, faults>> /\ lock' = "free"
    BY <1>2 DEF OrphanEnds
  <2>2. BootTypes' /\ NameTypes'
    BY <2>1 DEF nameVars, BootTypes, NameTypes, Files
  <2>3. IdTypes' /\ RowTypes' /\ DbTypes'
    BY <2>1, DbTypesFrame DEF idVars, rowVars, IdTypes, RowTypes, ServiceRow
  <2> QED BY <2>2, <2>3
<1>3. CASE DbCrash
  <2>1. DbTypes'
    BY <1>3 DEF DbCrash, DbTypes, DbRecord, ServiceRow, Files
  <2>2. BootTypes'
    BY <1>3 DEF DbCrash, BootTypes, Stages, Files
  <2>3. NameTypes'
    BY <1>3 DEF DbCrash, NameTypes, NoId
  <2>4. IdTypes'
    BY <1>3 DEF DbCrash, IdTypes, NoId
  <2>5. RowTypes'
    BY <1>3 DEF DbCrash, rowVars, RowTypes, ServiceRow
  <2> QED BY <2>1, <2>2, <2>3, <2>4, <2>5
<1> QED BY <1>1, <1>2, <1>3

LEMMA NextTypes ==
  ASSUME TypeInv, [Next]_vars, \A p \in Procs : pc[p] = "commit" => Current(p) \in Files
  PROVE  TypeInv'
<1>1. ASSUME NEW p \in Procs, BootStep(p)
      PROVE  TypeInv'
  <2>1. Commit(p) => Current(p) \in Files
    BY DEF Commit
  <2> QED BY <1>1, <2>1, BootStepTypes
<1>2. ASSUME NEW p \in Procs, ServeStep(p)
      PROVE  TypeInv'
  BY <1>2, NameStepTypes, IdStepTypes, StoreRowTypes DEF ServeStep
<1>3. CASE UNCHANGED vars
  <2>1. UNCHANGED <<db, saved, bootVars, nameVars, idVars, rowVars, faults>>
    BY <1>3 DEF vars
  <2>2. DbTypes' /\ NameTypes' /\ IdTypes'
    BY <2>1, DbTypesFrame DEF TypeInv, nameVars, idVars, NameTypes, IdTypes
  <2>3. BootTypes' /\ RowTypes'
    BY <2>1 DEF TypeInv, bootVars, rowVars, BootTypes, RowTypes, ServiceRow, Files
  <2> QED BY <2>2, <2>3 DEF TypeInv
<1> QED BY <1>1, <1>2, <1>3, FaultTypes DEF Next

-----------------------------------------------------------------------------
(* The migrations.  What is applied is always an initial part of the files, in *)
(* the table and in whatever of it would survive a crash; only the holder of   *)
(* the lock is between its SELECT and its unlock, so what it has seen is what  *)
(* is there, and the file it goes on with is the first one missing.            *)

UpTo(d, k) == d.applied = 1..k /\ d.runs = [f \in Files |-> IF f \in 1..k THEN 1 ELSE 0]

Prefix(d) == \E k \in 0..NumFiles : UpTo(d, k)

Holder(p) == pc[p] \in {"read", "migrate", "commit", "unlock"} => lock = p

Informed(p) == Migrating(p) => seen[p] = db.applied /\ ~(Files \subseteq seen[p])

Begun(p) == pc[p] = "unlock" => db.applied = Files

BootInv ==
  /\ Prefix(db) /\ Prefix(saved)
  /\ \A p \in Procs : Holder(p) /\ Informed(p) /\ Begun(p)

\* The first of the files that are missing.
LEMMA NextIsLeast ==
  ASSUME NEW k \in 0..NumFiles, ~(Files \subseteq 1..k)
  PROVE  k + 1 \in Files /\ Min(Files \ (1..k)) = k + 1
<1>1. k + 1 \in Files
  BY InstancesAssumption DEF Files
<1>2. \A y \in Files \ (1..k) : k + 1 <= y
  BY InstancesAssumption DEF Files
<1>3. \A x \in Files \ (1..k) : (\A y \in Files \ (1..k) : x <= y) => x = k + 1
  BY <1>1, <1>2, InstancesAssumption DEF Files
<1> QED BY <1>1, <1>2, <1>3 DEF Min

LEMMA CurrentKnown ==
  ASSUME BootInv, NEW p \in Procs, Migrating(p)
  PROVE  \E k \in 0..NumFiles - 1 : UpTo(db, k) /\ seen[p] = 1..k /\ Current(p) = k + 1
<1>1. PICK k \in 0..NumFiles : UpTo(db, k)
  BY DEF BootInv, Prefix
<1>2. seen[p] = 1..k /\ ~(Files \subseteq 1..k)
  BY <1>1 DEF BootInv, Informed, UpTo
<1>3. k + 1 \in Files /\ Current(p) = k + 1
  BY <1>2, NextIsLeast DEF Current
<1> QED BY <1>1, <1>2, <1>3, InstancesAssumption DEF Files

LEMMA CurrentIsFile ==
  BootInv => \A p \in Procs : pc[p] = "commit" => Current(p) \in Files
BY CurrentKnown, InstancesAssumption DEF Migrating, Files

LEMMA InitBoot == Init => BootInv
<1> SUFFICES ASSUME Init
             PROVE  BootInv
  OBVIOUS
<1>1. UpTo(db, 0)
  BY DEF Init, UpTo, Files
<1>2. 0 \in 0..NumFiles
  BY InstancesAssumption
<1> QED BY <1>1, <1>2 DEF Init, BootInv, Prefix, Holder, Informed, Begun, Migrating

\* Nothing of it is disturbed by a step that leaves the table and main() alone.
LEMMA BootFrame ==
  ASSUME BootInv, UNCHANGED bootVars,
         db'.applied = db.applied, db'.runs = db.runs, saved' \in {saved, db'}
  PROVE  BootInv'
<1>1. \A k : UpTo(db, k) => UpTo(db, k)'
  BY DEF UpTo, Files
<1>2. Prefix(db)'
  BY <1>1 DEF BootInv, Prefix
<1>3. Prefix(saved)'
  BY <1>2 DEF BootInv, Prefix, UpTo, Files
<1>4. \A p \in Procs : Holder(p)' /\ Informed(p)' /\ Begun(p)'
  BY DEF BootInv, bootVars, Holder, Informed, Begun, Migrating, Files
<1> QED BY <1>2, <1>3, <1>4 DEF BootInv

LEMMA CommitBoot ==
  ASSUME TypeInv, BootInv, NEW p \in Procs, Commit(p)
  PROVE  BootInv'
<1>1. PICK k \in 0..NumFiles - 1 : UpTo(db, k) /\ seen[p] = 1..k /\ Current(p) = k + 1
  BY CurrentKnown DEF Commit, Migrating
<1>2. k + 1 \in Files /\ k + 1 \in 0..NumFiles
  BY InstancesAssumption DEF Files
<1>3. /\ db'.applied = db.applied \cup {k + 1}
      /\ db'.runs = [db.runs EXCEPT ![k + 1] = @ + 1]
      /\ saved' \in {saved, db'}
  BY <1>1 DEF Commit, Committed, TypeInv, DbTypes, DbRecord
<1>4. UpTo(db, k + 1)'
  <2>1. db'.applied = 1..k + 1
    BY <1>1, <1>3 DEF UpTo
  <2>2. db'.runs = [f \in Files |-> IF f \in 1..k + 1 THEN 1 ELSE 0]
    <3>1. db.runs = [f \in Files |-> IF f \in 1..k THEN 1 ELSE 0]
      BY <1>1 DEF UpTo
    <3>2. \A f \in Files : f \in 1..k + 1 <=> (f \in 1..k \/ f = k + 1)
      BY DEF Files
    <3>3. k + 1 \notin 1..k
      OBVIOUS
    <3> QED BY <1>2, <1>3, <3>1, <3>2, <3>3
  <2> QED BY <2>1, <2>2 DEF UpTo, Files
<1>5. Prefix(db)' /\ Prefix(saved)'
  <2>1. Prefix(db)'
    BY <1>2, <1>4 DEF Prefix
  <2>2. CASE saved' = db'
    BY <2>1, <2>2 DEF Prefix, UpTo, Files
  <2>3. CASE saved' = saved
    <3>1. PICK j \in 0..NumFiles : UpTo(saved, j)
      BY DEF BootInv, Prefix
    <3>2. UpTo(saved, j)'
      BY <2>3, <3>1 DEF UpTo, Files
    <3> QED BY <2>1, <3>2 DEF Prefix
  <2> QED BY <1>3, <2>1, <2>2, <2>3
<1>6. seen' = [seen EXCEPT ![p] = 1..k + 1] /\ lock' = lock /\ lock = p
  <2>1. seen' = [seen EXCEPT ![p] = @ \cup {k + 1}] /\ lock' = lock
    BY <1>1 DEF Commit
  <2>2. (1..k) \cup {k + 1} = 1..k + 1
    BY SMT
  <2>3. lock = p
    BY DEF Commit, BootInv, Holder
  <2>4. seen[p] \cup {k + 1} = 1..k + 1
    BY <1>1, <2>2
  <2> QED BY <2>1, <2>3, <2>4
<1>7. pc' = [pc EXCEPT ![p] = NextFile(1..k + 1)]
  BY <1>1, <1>6 DEF Commit, Becomes, TypeInv, BootTypes
<1>8. ASSUME NEW q \in Procs
      PROVE  Holder(q)' /\ Informed(q)' /\ Begun(q)'
  <2>1. CASE q # p
    <3>1. pc'[q] = pc[q] /\ pc[q] \notin {"read", "migrate", "commit", "unlock"}
      BY <1>6, <1>7, <2>1 DEF BootInv, Holder, TypeInv, BootTypes
    <3> QED BY <3>1 DEF Holder, Informed, Begun, Migrating
  <2>2. CASE q = p
    <3>1. seen'[p] = 1..k + 1 /\ db'.applied = 1..k + 1
      BY <1>4, <1>6 DEF TypeInv, BootTypes, UpTo
    <3>2. CASE Files \subseteq 1..k + 1
      <4>1. pc'[p] = "unlock" /\ 1..k + 1 = Files
        <5>1. pc'[p] = "unlock"
          BY <1>7, <3>2 DEF NextFile, TypeInv, BootTypes
        <5>2. k + 1 <= NumFiles
          BY <1>2, InstancesAssumption DEF Files
        <5> QED BY <5>1, <5>2, <3>2, InstancesAssumption DEF Files
      <4> QED BY <1>6, <2>2, <3>1, <4>1 DEF Holder, Informed, Begun, Migrating, Files
    <3>3. CASE ~(Files \subseteq 1..k + 1)
      <4>1. pc'[p] = "migrate"
        BY <1>7, <3>3 DEF NextFile, TypeInv, BootTypes
      <4> QED BY <1>6, <2>2, <3>1, <3>3, <4>1 DEF Holder, Informed, Begun, Migrating, Files
    <3> QED BY <3>2, <3>3
  <2> QED BY <2>1, <2>2
<1> QED BY <1>5, <1>8 DEF BootInv

LEMMA BootStepBoot ==
  ASSUME TypeInv, BootInv, NEW p \in Procs, BootStep(p)
  PROVE  BootInv'
<1>1. CASE Commit(p)
  BY <1>1, CommitBoot
<1>2. CASE ~Commit(p)
  <2>1. db' = db /\ saved' = saved
    BY <1>2 DEF BootStep, Start, TakeLock, ReadApplied, RunFile, Unlock, Indexes, Load
  <2>2. Prefix(db)' /\ Prefix(saved)'
    BY <2>1 DEF BootInv, Prefix, UpTo, Files
  <2>3. ASSUME NEW q \in Procs
        PROVE  Holder(q)' /\ Informed(q)' /\ Begun(q)'
    <3>1. CASE q # p
      <4>1. pc'[q] = pc[q] /\ seen'[q] = seen[q]
        BY <1>2, <3>1 DEF BootStep, Start, TakeLock, ReadApplied, RunFile, Unlock, Indexes,
           Load, Becomes, TypeInv, BootTypes
      <4>2. pc[q] \in {"read", "migrate", "commit", "unlock"} => lock' = lock
        BY <1>2, <3>1, InstancesAssumption DEF BootStep, Start, TakeLock, ReadApplied,
           RunFile, Unlock, Indexes, Load, BootInv, Holder
      <4> QED BY <2>1, <4>1, <4>2 DEF BootInv, Holder, Informed, Begun, Migrating, Files
    <3>2. CASE q = p
      <4> USE DEF Becomes, TypeInv, BootTypes, BootInv, Holder, Informed, Begun, Migrating,
                  Files
      <4>1. CASE Start(p) \/ Unlock(p) \/ Indexes(p) \/ Load(p)
        <5>1. pc'[p] \in {"lock", "indexes", "load", "ready"}
          BY <4>1 DEF Start, Unlock, Indexes, Load
        <5> QED BY <3>2, <5>1
      <4>2. CASE TakeLock(p)
        BY <2>1, <3>2, <4>2 DEF TakeLock
      <4>3. CASE ReadApplied(p)
        <5>1. /\ pc'[p] = NextFile(db.applied) /\ seen'[p] = db.applied
              /\ lock' = lock /\ lock = p
          BY <4>3 DEF ReadApplied
        <5>2. db.applied \subseteq Files
          BY DEF DbTypes, DbRecord
        <5> QED BY <2>1, <3>2, <5>1, <5>2 DEF NextFile
      <4>4. CASE RunFile(p)
        BY <2>1, <3>2, <4>4 DEF RunFile
      <4> QED BY <1>2, <4>1, <4>2, <4>3, <4>4 DEF BootStep
    <3> QED BY <3>1, <3>2
  <2> QED BY <2>2, <2>3 DEF BootInv
<1> QED BY <1>1, <1>2

\* Names, ids and rows are registered, taken and stored beside the migrations.
LEMMA ServeStepBoot ==
  ASSUME TypeInv, BootInv, NEW p \in Procs, ServeStep(p)
  PROVE  BootInv'
<1>1. UNCHANGED bootVars
  BY DEF ServeStep, Register, RegisterInsert, RegisterSelect, RegisterFails, StoreRow, Fetch,
     BlockArrives, FetchFails, bootVars
<1>2. /\ db'.applied = db.applied /\ db'.runs = db.runs
      /\ saved' \in {saved, db'}
  BY DEF ServeStep, Register, RegisterInsert, RegisterSelect, RegisterFails, StoreRow, Fetch,
     BlockArrives, FetchFails, Committed, TypeInv, DbTypes, DbRecord
<1> QED BY <1>1, <1>2, BootFrame

LEMMA FaultBoot ==
  ASSUME TypeInv, BootInv, (\E p \in Procs : BootFails(p) \/ Die(p)) \/ OrphanEnds \/ DbCrash
  PROVE  BootInv'
<1>1. ASSUME NEW p \in Procs, BootFails(p) \/ Die(p)
      PROVE  BootInv'
  <2>1. db' = db /\ saved' = saved /\ (lock # p => lock' = lock)
    BY <1>1 DEF BootFails, Die
  <2>2. /\ pc' = [q \in Procs |-> IF q \in {p} THEN "down" ELSE pc[q]]
        /\ seen' = [q \in Procs |-> IF q \in {p} THEN {} ELSE seen[q]]
    BY <1>1 DEF BootFails, Die, Forget
  <2>3. Prefix(db)' /\ Prefix(saved)'
    BY <2>1 DEF BootInv, Prefix, UpTo, Files
  <2>4. ASSUME NEW q \in Procs
        PROVE  Holder(q)' /\ Informed(q)' /\ Begun(q)'
    <3>1. CASE q = p
      BY <2>2, <3>1 DEF Holder, Informed, Begun, Migrating
    <3>2. CASE q # p
      BY <2>1, <2>2, <3>2 DEF BootInv, Holder, Informed, Begun, Migrating, Files
    <3> QED BY <3>1, <3>2
  <2> QED BY <2>3, <2>4 DEF BootInv
<1>2. CASE OrphanEnds
  <2>1. /\ UNCHANGED <<db, saved, pc, seen>> /\ lock = "orphan"
        /\ \A q \in Procs : lock # q
    BY <1>2, InstancesAssumption DEF OrphanEnds
  <2>2. Prefix(db)' /\ Prefix(saved)'
    BY <2>1 DEF BootInv, Prefix, UpTo, Files
  <2> QED BY <2>1, <2>2 DEF BootInv, Holder, Informed, Begun, Migrating, Files
<1>3. CASE DbCrash
  <2>1. /\ db' = saved /\ saved' = saved
        /\ \A q \in Procs : pc'[q] \in {"down", "ready"}
    BY <1>3 DEF DbCrash
  <2>2. Prefix(db)' /\ Prefix(saved)'
    BY <2>1 DEF BootInv, Prefix, UpTo, Files
  <2> QED BY <2>1, <2>2 DEF BootInv, Holder, Informed, Begun, Migrating
<1> QED BY <1>1, <1>2, <1>3

LEMMA NextBoot ==
  ASSUME TypeInv, BootInv, [Next]_vars
  PROVE  BootInv'
<1>1. CASE UNCHANGED vars
  BY <1>1, BootFrame DEF vars
<1> QED BY <1>1, BootStepBoot, ServeStepBoot, FaultBoot DEF Next

LEMMA BootAlways == Spec => [](TypeInv /\ BootInv)
<1>1. Init => TypeInv /\ BootInv
  BY InitTypes, InitBoot
<1>2. TypeInv /\ BootInv /\ [Next]_vars => (TypeInv /\ BootInv)'
  BY NextTypes, NextBoot, CurrentIsFile
<1> QED BY <1>1, <1>2, PTL DEF Spec

\* Every variable keeps its type whatever dies when; in particular no process is left
\* with fewer ids than none, or with more than a block has.
THEOREM TypeCorrect == Spec => []TypeOK
<1>1. TypeInv => TypeOK
  BY TypeParts
<1> QED BY <1>1, BootAlways, PTL

\* migrate.ts: however many instances start together, die with the lock in hand, or are
\* overtaken by a crash of the database, each file's statements have run once, in the
\* order of the files, and an instance that migrates knows exactly what is applied.
THEOREM MigrationsRunOnce == Spec => []MigratesAlone
<1>1. ASSUME BootInv
      PROVE  MigratesAlone
  <2>1. PICK k \in 0..NumFiles : UpTo(db, k)
    BY <1>1 DEF BootInv, Prefix
  <2>2. \A f \in Files : db.runs[f] = IF f \in db.applied THEN 1 ELSE 0
    BY <2>1 DEF UpTo
  <2>3. \A f \in db.applied : 1..f \subseteq db.applied
    BY <2>1 DEF UpTo
  <2> QED BY <1>1, <2>2, <2>3 DEF MigratesAlone, BootInv, Informed
<1> QED BY <1>1, BootAlways, PTL

-----------------------------------------------------------------------------
(* With synchronous_commit on, a crash of the database takes nothing back.     *)

SyncInv ==
  /\ saved = db
  /\ \A p \in Procs : pc[p] \in {"unlock", "indexes", "load", "ready"} => db.applied = Files

\* What a step may do to the database.
LEMMA StepOfDb ==
  ASSUME ServerSync, TypeInv, saved = db, [Next]_vars
  PROVE  /\ saved' = db'
         /\ \/ db' = db
            \/ \E p \in Procs : Commit(p)
            \/ \E p \in Procs, n \in Names : RegisterInsert(p, n)
            \/ \E p \in Procs : Fetch(p)
<1>1. ASSUME NEW new, Committed(new)
      PROVE  saved' = db'
  BY <1>1 DEF Committed
<1>2. ASSUME NEW p \in Procs, BootStep(p)
      PROVE  (db' = db /\ saved' = db') \/ (Commit(p) /\ saved' = db')
  BY <1>1, <1>2 DEF BootStep, Start, TakeLock, ReadApplied, RunFile, Unlock, Indexes, Load,
     Commit
<1>3. ASSUME NEW p \in Procs, ServeStep(p)
      PROVE  /\ saved' = db'
             /\ \/ db' = db
                \/ \E n \in Names : RegisterInsert(p, n)
                \/ Fetch(p)
  <2>1. CASE \E n \in Names : RegisterInsert(p, n)
    BY <1>1, <2>1 DEF RegisterInsert
  <2>2. CASE Fetch(p)
    BY <1>1, <2>2 DEF Fetch
  <2>3. CASE ~(\E n \in Names : RegisterInsert(p, n)) /\ ~Fetch(p)
    <3>1. db' = db /\ saved' = saved
      BY <1>3, <2>3 DEF ServeStep, Register, RegisterSelect, RegisterFails, StoreRow,
         BlockArrives, FetchFails
    <3> QED BY <3>1
  <2> QED BY <2>1, <2>2, <2>3
<1>4. ASSUME (\E p \in Procs : BootFails(p) \/ Die(p)) \/ OrphanEnds \/ DbCrash
             \/ UNCHANGED vars
      PROVE  db' = db /\ saved' = db'
  BY <1>4 DEF BootFails, Die, OrphanEnds, DbCrash, vars
<1> QED BY <1>2, <1>3, <1>4 DEF Next

LEMMA InitSync == Init => SyncInv
BY DEF Init, SyncInv

LEMMA AppliedGrows ==
  ASSUME ServerSync, TypeInv, SyncInv, [Next]_vars, db.applied = Files,
         \A p \in Procs : pc[p] = "commit" => Current(p) \in Files
  PROVE  db'.applied = Files
<1>1. ASSUME NEW p \in Procs, Commit(p)
      PROVE  db'.applied = Files
  <2>1. Current(p) \in Files /\ db'.applied = db.applied \cup {Current(p)}
    BY <1>1 DEF Commit, Committed, TypeInv, DbTypes, DbRecord
  <2> QED BY <2>1
<1>2. ASSUME NEW p \in Procs, NEW n \in Names, RegisterInsert(p, n)
      PROVE  db'.applied = db.applied
  BY <1>2 DEF RegisterInsert, Committed, TypeInv, DbTypes, DbRecord
<1>3. ASSUME NEW p \in Procs, Fetch(p)
      PROVE  db'.applied = db.applied
  BY <1>3 DEF Fetch, Committed, TypeInv, DbTypes, DbRecord
<1> QED BY <1>1, <1>2, <1>3, StepOfDb DEF SyncInv

LEMMA NextSync ==
  ASSUME ServerSync, TypeInv, BootInv, BootInv', SyncInv, [Next]_vars
  PROVE  SyncInv'
<1>1. saved' = db'
  BY StepOfDb DEF SyncInv
<1>2. db.applied = Files => db'.applied = Files
  BY AppliedGrows, CurrentIsFile
<1>3. ASSUME NEW q \in Procs, pc'[q] \in {"unlock", "indexes", "load", "ready"}
      PROVE  db'.applied = Files
  <2>1. CASE pc[q] \in {"unlock", "indexes", "load", "ready"}
    BY <1>2, <2>1 DEF SyncInv
  <2>2. CASE pc'[q] = "unlock"
    BY <2>2, <1>3 DEF BootInv, Begun, Files
  <2>3. CASE pc'[q] # "unlock" /\ pc[q] \notin {"unlock", "indexes", "load", "ready"}
    <3>1. ASSUME NEW p \in Procs, BootStep(p)
          PROVE  FALSE
      <4>1. pc'[q] \in {pc[q], "lock", "read", "commit", "unlock", "migrate"}
            \/ pc[q] \in {"unlock", "indexes", "load"}
        BY <3>1 DEF BootStep, Start, TakeLock, ReadApplied, RunFile, Commit, Unlock, Indexes,
           Load, Becomes, NextFile, TypeInv, BootTypes
      <4> QED BY <4>1, <2>3, <1>3
    <3>2. ASSUME NEW p \in Procs, ServeStep(p)
          PROVE  FALSE
      <4>1. pc' = pc
        BY <3>2 DEF ServeStep, Register, RegisterInsert, RegisterSelect, RegisterFails,
           StoreRow, Fetch, BlockArrives, FetchFails, bootVars
      <4> QED BY <4>1, <2>3, <1>3
    <3>3. ASSUME (\E p \in Procs : BootFails(p) \/ Die(p)) \/ OrphanEnds \/ DbCrash
                 \/ UNCHANGED vars
          PROVE  FALSE
      <4>1. pc'[q] \in {pc[q], "down"}
        BY <3>3 DEF BootFails, Die, Forget, OrphanEnds, DbCrash, vars, bootVars
      <4> QED BY <4>1, <2>3, <1>3
    <3> QED BY <3>1, <3>2, <3>3 DEF Next
  <2> QED BY <2>1, <2>2, <2>3
<1> QED BY <1>1, <1>3 DEF SyncInv

LEMMA SyncAlways ==
  ASSUME ServerSync
  PROVE  Spec => [](TypeInv /\ BootInv /\ SyncInv)
<1>1. Init => TypeInv /\ BootInv /\ SyncInv
  BY InitTypes, InitBoot, InitSync
<1>2. TypeInv /\ BootInv /\ SyncInv /\ [Next]_vars => (TypeInv /\ BootInv /\ SyncInv)'
  BY NextTypes, NextBoot, NextSync, CurrentIsFile
<1> QED BY <1>1, <1>2, PTL DEF Spec

\* index.ts: no process is past its migrations at a schema that is not there, whichever of
\* the instances applied which file.
THEOREM SchemaIsThere ==
  ASSUME ServerSync
  PROVE  Spec => []SchemaBeforeService
<1>1. SyncInv => SchemaBeforeService
  BY DEF SyncInv, SchemaBeforeService
<1> QED BY <1>1, SyncAlways, PTL

-----------------------------------------------------------------------------
(* Ids.  Every id below the sequence's next value is in one place at most: it  *)
(* is used, or one process holds it, or the block it is in is on its way to   *)
(* one process.  The ids above are nowhere.                                    *)

Holds(p, i) == next[p] <= i /\ i < next[p] + remaining[p]
Coming(p, i) ==
  inFlight[p] # NoId /\ inFlight[p] <= i /\ i < inFlight[p] + BlockSize

IdPlaces(i) ==
  /\ \A p \in Procs : Holds(p, i) => i < db.nextBlock /\ i \notin used
  /\ \A p \in Procs : Coming(p, i) => i < db.nextBlock /\ i \notin used
  /\ i \in used => i < db.nextBlock
  /\ \A p, q \in Procs : Holds(p, i) /\ Holds(q, i) => p = q
  /\ \A p, q \in Procs : ~(Holds(p, i) /\ Coming(q, i))
  /\ \A p, q \in Procs : Coming(p, i) /\ Coming(q, i) => p = q

IdInv == ~reissued /\ \A i \in Nat : IdPlaces(i)

LEMMA InitIds == Init => IdInv
BY DEF Init, IdInv, IdPlaces, Holds, Coming

\* Ids that leave memory or the wire without being used go nowhere else.
LEMMA IdsOnlyLost ==
  ASSUME TypeInv, IdInv, used' = used, reissued' = reissued, db'.nextBlock = db.nextBlock,
         \A p \in Procs :
           /\ remaining'[p] = 0 \/ (next'[p] = next[p] /\ remaining'[p] = remaining[p])
           /\ next'[p] \in Nat
           /\ inFlight'[p] \in {inFlight[p], NoId}
  PROVE  IdInv'
<1>1. ASSUME NEW i \in Nat, NEW p \in Procs
      PROVE  /\ Holds(p, i)' => Holds(p, i)
             /\ Coming(p, i)' => Coming(p, i)
  BY DEF Holds, Coming, TypeInv, IdTypes
<1>2. ASSUME NEW i \in Nat
      PROVE  IdPlaces(i)'
  <2>1. IdPlaces(i)
    BY DEF IdInv
  <2> QED BY <1>1, <2>1 DEF IdPlaces
<1> QED BY <1>2 DEF IdInv

LEMMA FetchIds ==
  ASSUME ServerSync, TypeInv, IdInv, NEW p \in Procs, Fetch(p)
  PROVE  IdInv'
<1>1. /\ UNCHANGED <<next, remaining, used, reissued>>
      /\ db'.nextBlock = db.nextBlock + BlockSize
      /\ inFlight' = [inFlight EXCEPT ![p] = db.nextBlock]
  BY DEF Fetch, Committed, rowVars, TypeInv, DbTypes, DbRecord
<1>2. db.nextBlock \in Nat /\ BlockSize \in Nat \ {0}
  BY InstancesAssumption DEF TypeInv, DbTypes, DbRecord
<1>3. ASSUME NEW i \in Nat
      PROVE  IdPlaces(i)'
  <2>1. IdPlaces(i)
    BY DEF IdInv
  <2>2. \A q \in Procs : Holds(q, i)' <=> Holds(q, i)
    BY <1>1 DEF Holds
  <2>3. \A q \in Procs : Coming(q, i)' =>
          Coming(q, i) \/ (q = p /\ db.nextBlock <= i /\ i < db.nextBlock + BlockSize)
    BY <1>1 DEF Coming, TypeInv, IdTypes
  <2>4. i < db.nextBlock => i < db'.nextBlock
    BY <1>1, <1>2
  <2>5. i < db.nextBlock => ~(db.nextBlock <= i)
    BY <1>2
  <2> QED BY <1>1, <2>1, <2>2, <2>3, <2>4, <2>5 DEF IdPlaces
<1> QED BY <1>1, <1>3 DEF IdInv

LEMMA BlockArrivesIds ==
  ASSUME TypeInv, IdInv, NEW p \in Procs, BlockArrives(p)
  PROVE  IdInv'
<1>1. /\ UNCHANGED <<db, used, reissued>> /\ inFlight[p] # NoId
      /\ next' = [next EXCEPT ![p] = inFlight[p]]
      /\ remaining' = [remaining EXCEPT ![p] = BlockSize]
      /\ inFlight' = [inFlight EXCEPT ![p] = NoId]
  BY DEF BlockArrives, rowVars
<1>2. ASSUME NEW i \in Nat
      PROVE  IdPlaces(i)'
  <2>1. IdPlaces(i)
    BY DEF IdInv
  <2>2. \A q \in Procs : Holds(q, i)' => IF q = p THEN Coming(p, i) ELSE Holds(q, i)
    BY <1>1 DEF Holds, Coming, TypeInv, IdTypes
  <2>3. \A q \in Procs : Coming(q, i)' => Coming(q, i) /\ q # p
    BY <1>1 DEF Coming, TypeInv, IdTypes
  <2> QED BY <1>1, <2>1, <2>2, <2>3 DEF IdPlaces
<1> QED BY <1>1, <1>2 DEF IdInv

LEMMA StoreRowIds ==
  ASSUME TypeInv, IdInv, NEW p \in Procs, NEW n \in Names, StoreRow(p, n)
  PROVE  IdInv'
<1> DEFINE id == next[p]
<1>1. /\ db' = db /\ inFlight' = inFlight /\ used' = used \cup {id}
      /\ next' = [next EXCEPT ![p] = @ + 1] /\ remaining' = [remaining EXCEPT ![p] = @ - 1]
      /\ remaining[p] > 0 /\ id \in Nat
  BY DEF StoreRow, TypeInv, IdTypes
<1>2. remaining[p] \in Nat
  BY InstancesAssumption DEF TypeInv, IdTypes
<1>3. Holds(p, id)
  BY <1>1, <1>2 DEF Holds
<1>4. id \notin used
  BY <1>1, <1>3 DEF IdInv, IdPlaces
<1>5. ~reissued'
  <2>1. reissued' = (reissued \/ id \in used)
    BY DEF StoreRow
  <2> QED BY <2>1, <1>4 DEF IdInv
<1>6. ASSUME NEW i \in Nat
      PROVE  IdPlaces(i)'
  <2>1. IdPlaces(i)
    BY DEF IdInv
  <2>2. \A q \in Procs : Holds(q, i)' => Holds(q, i) /\ ~(q = p /\ i = id)
    BY <1>1, <1>2 DEF Holds, TypeInv, IdTypes
  <2>3. \A q \in Procs : Coming(q, i)' <=> Coming(q, i)
    BY <1>1 DEF Coming
  <2>4. i \in used' <=> i \in used \/ i = id
    BY <1>1
  <2> HIDE DEF id
  <2> QED BY <1>1, <1>3, <2>1, <2>2, <2>3, <2>4 DEF IdPlaces
<1> QED BY <1>5, <1>6 DEF IdInv

LEMMA NextIds ==
  ASSUME ServerSync, TypeInv, TypeInv', SyncInv, IdInv, [Next]_vars
  PROVE  IdInv'
<1>1. ASSUME NEW p \in Procs, Fetch(p)
      PROVE  IdInv'
  BY <1>1, FetchIds
<1>2. ASSUME NEW p \in Procs, BlockArrives(p)
      PROVE  IdInv'
  BY <1>2, BlockArrivesIds
<1>3. ASSUME NEW p \in Procs, \E n \in Names : StoreRow(p, n)
      PROVE  IdInv'
  BY <1>3, StoreRowIds
<1>4. ASSUME NEW p \in Procs,
             \/ BootStep(p)
             \/ \E n \in Names : \/ Register(p, n) \/ RegisterInsert(p, n)
                                 \/ RegisterSelect(p, n) \/ RegisterFails(p, n)
      PROVE  IdInv'
  <2>1. UNCHANGED <<next, remaining, inFlight, used, reissued>>
    BY <1>4, ZenonT(60) DEF BootStep, Start, TakeLock, ReadApplied, RunFile, Commit, Unlock, Indexes,
       Load, Register, RegisterInsert, RegisterSelect, RegisterFails, idVars, rowVars
  <2>2. db'.nextBlock = db.nextBlock
    BY <1>4 DEF BootStep, Start, TakeLock, ReadApplied, RunFile, Commit, Unlock, Indexes,
       Load, Register, RegisterInsert, RegisterSelect, RegisterFails, Committed,
       TypeInv, DbTypes, DbRecord
  <2> QED BY <2>1, <2>2, IdsOnlyLost, SMTT(40) DEF TypeInv, IdTypes
<1>5. ASSUME (\E p \in Procs : BootFails(p) \/ Die(p)) \/ OrphanEnds \/ DbCrash
             \/ UNCHANGED vars
      PROVE  IdInv'
  <2>1. UNCHANGED <<used, reissued>> /\ db'.nextBlock = db.nextBlock
    BY <1>5 DEF BootFails, Die, OrphanEnds, DbCrash, vars, rowVars, SyncInv
  <2>2. ASSUME NEW q \in Procs
        PROVE  /\ remaining'[q] = 0 \/ (next'[q] = next[q] /\ remaining'[q] = remaining[q])
               /\ inFlight'[q] \in {inFlight[q], NoId}
    BY <1>5 DEF BootFails, Die, Forget, OrphanEnds, DbCrash, vars, idVars
  <2>3. \A q \in Procs : next'[q] \in Nat
    BY DEF TypeInv, IdTypes
  <2> QED BY <2>1, <2>2, <2>3, IdsOnlyLost
<1>6. ASSUME NEW p \in Procs, FetchFails(p)
      PROVE  IdInv'
  <2>1. UNCHANGED <<db, next, remaining, used, reissued>>
        /\ inFlight' = [inFlight EXCEPT ![p] = NoId]
    BY <1>6 DEF FetchFails, rowVars
  <2> QED BY <2>1, IdsOnlyLost DEF TypeInv, IdTypes
<1> QED BY <1>1, <1>2, <1>3, <1>4, <1>5, <1>6 DEF Next, ServeStep

\* ids.ts: no id is handed out twice, by any of any number of processes, whatever fetches
\* fail or never arrive, whoever dies, and when the database crashes.
THEOREM IdsAreUnique ==
  ASSUME ServerSync
  PROVE  Spec => []IdsNeverReissued
<1>1. Init => TypeInv /\ BootInv /\ SyncInv /\ IdInv
  BY InitTypes, InitBoot, InitSync, InitIds
<1>2. TypeInv /\ BootInv /\ SyncInv /\ IdInv /\ [Next]_vars
        => (TypeInv /\ BootInv /\ SyncInv /\ IdInv)'
  BY NextTypes, NextBoot, NextSync, NextIds, CurrentIsFile
<1>3. IdInv => IdsNeverReissued
  BY DEF IdInv, IdsNeverReissued
<1> QED BY <1>1, <1>2, <1>3, PTL DEF Spec

-----------------------------------------------------------------------------
(* Names.  The ids of the table are below the sequence's next value, which is  *)
(* what keeps an insert from meeting an id that is taken; rows never go, so    *)
(* what a process cached or stored stays true.                                 *)

NameInv ==
  /\ \A r \in db.services : r.id < db.nextService
  /\ DictionariesAgree
  /\ RowsKeepTheirService

LEMMA InitNames == Init => NameInv
BY DEF Init, NameInv, DictionariesAgree, RowsKeepTheirService, NoId

\* Forgetting names harms nothing.
LEMMA NamesOnlyLost ==
  ASSUME NameInv, db'.services = db.services, db'.nextService = db.nextService,
         stored' = stored,
         \A p \in Procs, n \in Names : cache'[p][n] \in {cache[p][n], NoId}
  PROVE  NameInv'
BY DEF NameInv, DictionariesAgree, RowsKeepTheirService, NoId

\* What a row with the name of n looks like.
LEMMA RowOfName ==
  ASSUME TypeInv, NEW n \in Names, NEW row \in db.services, row.name = n
  PROVE  row = [id |-> row.id, name |-> n]
BY DEF TypeInv, DbTypes, DbRecord, ServiceRow

LEMMA RegisterInsertNames ==
  ASSUME ServerSync, TypeInv, NameInv, NEW p \in Procs, NEW n \in Names, RegisterInsert(p, n)
  PROVE  NameInv'
<1> DEFINE row == [id |-> db.nextService, name |-> n]
<1>1. /\ cache' = cache /\ stored' = stored
      /\ db'.nextService = db.nextService + 1
      /\ db'.services = IF \A r \in db.services : r.name # n THEN db.services \cup {row}
                        ELSE db.services
  BY DEF RegisterInsert, Committed, rowVars, TypeInv, DbTypes, DbRecord
<1>2. /\ db.nextService \in Nat
      /\ \A r \in db.services : r.id \in Nat /\ r.id < db.nextService
  BY DEF NameInv, TypeInv, DbTypes, DbRecord, ServiceRow
<1>3. db.services \subseteq db'.services /\ db'.services \subseteq db.services \cup {row}
  BY <1>1
<1>4. \A r \in db'.services : r.id < db'.nextService
  BY <1>1, <1>2, <1>3
<1>5. ASSUME NEW r \in db'.services, NEW s \in db'.services, r.id = s.id \/ r.name = s.name
      PROVE  r = s
  <2>1. CASE r \in db.services /\ s \in db.services
    BY <1>5, <2>1 DEF NameInv, DictionariesAgree
  <2>2. CASE ~(r \in db.services /\ s \in db.services)
    <3>1. \A t \in db.services : t.name # n
      BY <1>1, <2>2
    <3>2. row.id = db.nextService /\ row.name = n
      OBVIOUS
    <3> HIDE DEF row
    <3>3. \A t \in db.services : t.id # row.id /\ t.name # row.name
      BY <1>2, <3>1, <3>2
    <3> QED BY <1>3, <1>5, <2>2, <3>3
  <2> QED BY <2>1, <2>2
<1> QED BY <1>1, <1>3, <1>4, <1>5 DEF NameInv, DictionariesAgree, RowsKeepTheirService

LEMMA RegisterSelectNames ==
  ASSUME TypeInv, NameInv, NEW p \in Procs, NEW n \in Names, RegisterSelect(p, n)
  PROVE  NameInv'
<1>1. db' = db /\ stored' = stored
  BY DEF RegisterSelect, rowVars
<1>2. ASSUME NEW q \in Procs, NEW m \in Names, cache'[q][m] # NoId
      PROVE  [id |-> cache'[q][m], name |-> m] \in db.services
  <2>1. CASE cache'[q][m] = cache[q][m]
    BY <1>2, <2>1 DEF NameInv, DictionariesAgree
  <2>2. CASE cache'[q][m] # cache[q][m]
    <3>1. /\ q = p /\ m = n /\ \E row \in db.services : row.name = n
          /\ cache'[p][n] = (CHOOSE row \in db.services : row.name = n).id
      BY <2>2 DEF RegisterSelect, TypeInv, NameTypes
    <3> QED BY <3>1, RowOfName
  <2> QED BY <2>1, <2>2
<1> QED BY <1>1, <1>2 DEF NameInv, DictionariesAgree, RowsKeepTheirService

LEMMA LoadNames ==
  ASSUME TypeInv, NameInv, NEW p \in Procs, Load(p)
  PROVE  NameInv'
<1>1. db' = db /\ stored' = stored
  BY DEF Load, rowVars
<1>2. ASSUME NEW q \in Procs, NEW m \in Names, cache'[q][m] # NoId
      PROVE  [id |-> cache'[q][m], name |-> m] \in db.services
  <2>1. CASE q # p
    <3>1. cache'[q] = cache[q]
      BY <2>1 DEF Load, TypeInv, NameTypes
    <3> QED BY <1>2, <3>1 DEF NameInv, DictionariesAgree
  <2>2. CASE q = p
    <3>1. /\ \E row \in db.services : row.name = m
          /\ cache'[p][m] = (CHOOSE row \in db.services : row.name = m).id
      BY <1>2, <2>2 DEF Load, TypeInv, NameTypes
    <3> QED BY <2>2, <3>1, RowOfName
  <2> QED BY <2>1, <2>2
<1> QED BY <1>1, <1>2 DEF NameInv, DictionariesAgree, RowsKeepTheirService

LEMMA StoreRowNames ==
  ASSUME NameInv, NEW p \in Procs, NEW n \in Names, StoreRow(p, n)
  PROVE  NameInv'
<1>1. db' = db /\ cache' = cache /\ stored' = stored \cup {[id |-> cache[p][n], name |-> n]}
  BY DEF StoreRow, nameVars
<1>2. [id |-> cache[p][n], name |-> n] \in db.services
  BY DEF StoreRow, NameInv, DictionariesAgree
<1> QED BY <1>1, <1>2 DEF NameInv, DictionariesAgree, RowsKeepTheirService

LEMMA NextNames ==
  ASSUME ServerSync, TypeInv, SyncInv, NameInv, [Next]_vars
  PROVE  NameInv'
<1>1. ASSUME NEW p \in Procs, NEW n \in Names,
             RegisterInsert(p, n) \/ RegisterSelect(p, n) \/ StoreRow(p, n)
      PROVE  NameInv'
  BY <1>1, RegisterInsertNames, RegisterSelectNames, StoreRowNames
<1>2. ASSUME NEW p \in Procs, Load(p)
      PROVE  NameInv'
  BY <1>2, LoadNames
<1>3. ASSUME NEW p \in Procs,
             \/ Start(p) \/ TakeLock(p) \/ ReadApplied(p) \/ RunFile(p) \/ Commit(p)
             \/ Unlock(p) \/ Indexes(p)
             \/ Fetch(p) \/ BlockArrives(p) \/ FetchFails(p)
             \/ \E n \in Names : Register(p, n) \/ RegisterFails(p, n)
      PROVE  NameInv'
  <2>1. cache' = cache /\ stored' = stored
    BY <1>3 DEF Start, TakeLock, ReadApplied, RunFile, Commit, Unlock, Indexes, Fetch,
       BlockArrives, FetchFails, Register, RegisterFails, nameVars, rowVars
  <2>2. db'.services = db.services /\ db'.nextService = db.nextService
    BY <1>3 DEF Start, TakeLock, ReadApplied, RunFile, Commit, Unlock, Indexes, Fetch,
       BlockArrives, FetchFails, Register, RegisterFails, Committed, TypeInv, DbTypes, DbRecord
  <2> QED BY <2>1, <2>2, NamesOnlyLost
<1>4. ASSUME (\E p \in Procs : BootFails(p) \/ Die(p)) \/ OrphanEnds \/ DbCrash
             \/ UNCHANGED vars
      PROVE  NameInv'
  <2>1. stored' = stored /\ db' = db
    BY <1>4 DEF BootFails, Die, OrphanEnds, DbCrash, vars, rowVars, SyncInv
  <2>2. \A p \in Procs, n \in Names : cache'[p][n] \in {cache[p][n], NoId}
    BY <1>4 DEF BootFails, Die, Forget, OrphanEnds, DbCrash, vars, nameVars
  <2> QED BY <2>1, <2>2, NamesOnlyLost
<1> QED BY <1>1, <1>2, <1>3, <1>4 DEF Next, BootStep, ServeStep

LEMMA NamesAlways ==
  ASSUME ServerSync
  PROVE  Spec => []NameInv
<1>1. Init => TypeInv /\ BootInv /\ SyncInv /\ NameInv
  BY InitTypes, InitBoot, InitSync, InitNames
<1>2. TypeInv /\ BootInv /\ SyncInv /\ NameInv /\ [Next]_vars
        => (TypeInv /\ BootInv /\ SyncInv /\ NameInv)'
  BY NextTypes, NextBoot, NextSync, NextNames, CurrentIsFile
<1> QED BY <1>1, <1>2, PTL DEF Spec

\* services.ts: however many processes register a name at once, one row wins, and whoever
\* has the name cached has that row's id.
THEOREM NamesAgree ==
  ASSUME ServerSync
  PROVE  Spec => []DictionariesAgree
<1>1. NameInv => DictionariesAgree
  BY DEF NameInv
<1> QED BY <1>1, NamesAlways, PTL

\* services.ts, copy-encoder.ts: without a foreign key, a row's service id leads back to the
\* name it was sent with all the same.
THEOREM RowsAreAttributed ==
  ASSUME ServerSync
  PROVE  Spec => []RowsKeepTheirService
<1>1. NameInv => RowsKeepTheirService
  BY DEF NameInv
<1> QED BY <1>1, NamesAlways, PTL
=============================================================================
