----------------------------- MODULE Instances -----------------------------
(***************************************************************************)
(* Several processes of the service over one database: the start of main() *)
(* in src/index.ts up to the ingest writer, the migrations of              *)
(* src/db/migrate.ts, the service dictionary of src/db/services.ts and the *)
(* row ids of src/db/ids.ts.                                               *)
(*                                                                         *)
(* The processes share nothing but the database.  A migration runs under   *)
(* an advisory lock that belongs to a session, so a process that dies      *)
(* leaves it locked until PostgreSQL notices.  Names and blocks of ids are *)
(* cached in memory.  "saved" is the state the database recovers when it   *)
(* crashes: without synchronous_commit, commits reach it later.            *)
(*                                                                         *)
(* A step is one statement, from the code that sends it to the code that   *)
(* runs on its answer; where both matter, two steps.                       *)
(***************************************************************************)
EXTENDS Integers, FiniteSets, FiniteSetsExt, Functions

CONSTANTS
  Procs,       \* the instances of the service
  NumFiles,    \* files in src/db/migrations, applied in the order of their names
  Names,       \* service names
  BlockSize,   \* INCREMENT BY of logs_id_seq
  MaxBlocks,   \* bound on the blocks the sequence gives out
  MaxFaults,   \* bound on deaths of processes, failed migrations and registrations,
               \* and crashes of the database
  ServerSync   \* synchronous_commit of the server, which the pool's sessions use

ASSUME InstancesAssumption ==
  /\ NumFiles \in Nat \ {0} /\ BlockSize \in Nat \ {0}
  /\ MaxBlocks \in Nat /\ MaxFaults \in Nat
  /\ ServerSync \in BOOLEAN
  /\ {"free", "orphan"} \cap Procs = {}

Files == 1..NumFiles
Ids == 1..BlockSize * MaxBlocks
NoId == 0

VARIABLES
  db,        \* what is committed: tables, sequences
  saved,     \* what of it survives a crash of the database
  lock,      \* who holds the advisory lock
  pc,        \* how far main() is
  seen,      \* files a process has read as applied, or has applied
  cache,     \* ServiceDictionary: name -> id, NoId where unknown
  register,  \* calls of register() under way, per name
  next,      \* IdAllocator.nextId
  remaining, \* IdAllocator.remaining
  inFlight,  \* the block IdAllocator.inFlight will bring, NoId if null
  used,      \* ids handed out
  stored,    \* service id and true name of the rows copied
  reissued,  \* whether an id was handed out again
  faults

bootVars == <<lock, pc, seen>>
nameVars == <<cache, register>>
idVars   == <<next, remaining, inFlight>>
rowVars  == <<used, stored, reissued>>
vars == <<db, saved, bootVars, nameVars, idVars, rowVars, faults>>

Stages == {"down", "lock", "read", "migrate", "commit", "unlock", "indexes",
           "load", "ready"}

ServiceRow == [id: Nat, name: Names]

TypeOK ==
  /\ db \in [applied: SUBSET Files, runs: [Files -> Nat], services: SUBSET ServiceRow,
             nextService: Nat, nextBlock: Nat]
  /\ saved \in [applied: SUBSET Files, runs: [Files -> Nat], services: SUBSET ServiceRow,
                nextService: Nat, nextBlock: Nat]
  /\ lock \in Procs \cup {"free", "orphan"}
  /\ pc \in [Procs -> Stages]
  /\ seen \in [Procs -> SUBSET Files]
  /\ cache \in [Procs -> [Names -> Nat]]
  /\ register \in [Procs -> [Names -> {"none", "insert", "select"}]]
  /\ next \in [Procs -> Nat] /\ remaining \in [Procs -> 0..BlockSize]
  /\ inFlight \in [Procs -> Nat]
  /\ used \subseteq Nat /\ stored \subseteq ServiceRow
  /\ reissued \in BOOLEAN
  /\ faults \in Nat

Init ==
  /\ db = [applied |-> {}, runs |-> [f \in Files |-> 0], services |-> {},
           nextService |-> 1, nextBlock |-> 1]
  /\ saved = db
  /\ lock = "free"
  /\ pc = [p \in Procs |-> "down"]
  /\ seen = [p \in Procs |-> {}]
  /\ cache = [p \in Procs |-> [n \in Names |-> NoId]]
  /\ register = [p \in Procs |-> [n \in Names |-> "none"]]
  /\ next = [p \in Procs |-> 0] /\ remaining = [p \in Procs |-> 0]
  /\ inFlight = [p \in Procs |-> NoId]
  /\ used = {} /\ stored = {} /\ reissued = FALSE
  /\ faults = 0

\* A commit: visible at once, in the flushed WAL at once or, with the server's
\* synchronous_commit off, some time later together with what precedes it.
Committed(new) ==
  /\ db' = new
  /\ saved' \in IF ServerSync THEN {new} ELSE {saved, new}

-----------------------------------------------------------------------------
(* main() and runMigrations(). *)

Becomes(p, stage) == pc' = [pc EXCEPT ![p] = stage]

\* waitForDatabase() has got through, and the migration client is connected.
Start(p) ==
  /\ pc[p] = "down" /\ Becomes(p, "lock")
  /\ UNCHANGED <<db, saved, lock, seen, nameVars, idVars, rowVars, faults>>

\* Variant: the migrations run without the advisory lock.
TakeLock_NoWait(p) ==
  /\ pc[p] = "lock"
  /\ lock' = p /\ Becomes(p, "read")
  /\ UNCHANGED <<db, saved, seen, nameVars, idVars, rowVars, faults>>

TakeLock(p) ==
  /\ pc[p] = "lock" /\ lock = "free"
  /\ lock' = p /\ Becomes(p, "read")
  /\ UNCHANGED <<db, saved, seen, nameVars, idVars, rowVars, faults>>

\* Where the loop over the files goes: to the next one to apply, or to the end.
NextFile(done) == IF Files \subseteq done THEN "unlock" ELSE "migrate"

\* ensureMigrationsTable() and the SELECT.
ReadApplied(p) ==
  /\ pc[p] = "read"
  /\ seen' = [seen EXCEPT ![p] = db.applied]
  /\ Becomes(p, NextFile(db.applied))
  /\ UNCHANGED <<db, saved, lock, nameVars, idVars, rowVars, faults>>

Current(p) == Min(Files \ seen[p])

\* BEGIN, the file's statements and the INSERT into schema_migrations, which nobody
\* sees before the commit; a key another transaction has inserted and not yet
\* committed makes it wait, a committed one makes it fail.
RunFile(p) ==
  /\ pc[p] = "migrate" /\ Current(p) \notin db.applied
  /\ \A q \in Procs \ {p} : pc[q] = "commit" => Current(q) # Current(p)
  /\ Becomes(p, "commit")
  /\ UNCHANGED <<db, saved, lock, seen, nameVars, idVars, rowVars, faults>>

Commit(p) ==
  LET f == Current(p)
  IN /\ pc[p] = "commit"
     /\ Committed([db EXCEPT !.applied = @ \cup {f}, !.runs[f] = @ + 1])
     /\ seen' = [seen EXCEPT ![p] = @ \cup {f}]
     /\ Becomes(p, NextFile(seen'[p]))
     /\ UNCHANGED <<lock, nameVars, idVars, rowVars, faults>>

\* Variant: the lock is left to a session nobody ends.
Unlock_Kept(p) ==
  /\ pc[p] = "unlock" /\ Becomes(p, "indexes")
  /\ UNCHANGED <<db, saved, lock, seen, nameVars, idVars, rowVars, faults>>

Unlock(p) ==
  /\ pc[p] = "unlock" /\ Becomes(p, "indexes")
  /\ lock' = IF lock = p THEN "free" ELSE lock
  /\ UNCHANGED <<db, saved, seen, nameVars, idVars, rowVars, faults>>

\* ensureOptionalIndexes(), no longer under the lock; the client is then closed.
Indexes(p) ==
  /\ pc[p] = "indexes" /\ Becomes(p, "load")
  /\ UNCHANGED <<db, saved, lock, seen, nameVars, idVars, rowVars, faults>>

\* ServiceDictionary.load(), after which the writer starts, its ids.init() reading
\* the block size off the sequence, and the server listens.
Load(p) ==
  /\ pc[p] = "load" /\ Becomes(p, "ready")
  /\ cache' = [cache EXCEPT ![p] = [n \in Names |->
       IF \E row \in db.services : row.name = n
       THEN (CHOOSE row \in db.services : row.name = n).id ELSE NoId]]
  /\ UNCHANGED <<db, saved, lock, seen, register, idVars, rowVars, faults>>

\* What a process has in memory is gone with it.
Forget(ps) ==
  LET Reset(f, v) == [p \in Procs |-> IF p \in ps THEN v ELSE f[p]]
  IN /\ pc' = Reset(pc, "down") /\ seen' = Reset(seen, {})
     /\ cache' = Reset(cache, [n \in Names |-> NoId])
     /\ register' = Reset(register, [n \in Names |-> "none"])
     /\ next' = Reset(next, 0) /\ remaining' = Reset(remaining, 0)
     /\ inFlight' = Reset(inFlight, NoId)

\* A migration or an index fails: ROLLBACK, the unlock of the finally block, and
\* main() exits.  A row already in schema_migrations is one reason, two instances
\* creating the same index at once another.
BootFails(p) ==
  /\ pc[p] \in {"migrate", "commit", "indexes"}
  /\ faults < MaxFaults /\ faults' = faults + 1
  /\ lock' = IF lock = p THEN "free" ELSE lock
  /\ Forget({p})
  /\ UNCHANGED <<db, saved, rowVars>>

\* The process dies; an open transaction goes, but its session may keep the lock.
Die(p) ==
  /\ pc[p] # "down" /\ faults < MaxFaults /\ faults' = faults + 1
  /\ lock' = IF lock = p THEN "orphan" ELSE lock
  /\ Forget({p})
  /\ UNCHANGED <<db, saved, rowVars>>

\* PostgreSQL notices that the client of a session is gone.
OrphanEnds ==
  /\ lock = "orphan" /\ lock' = "free"
  /\ UNCHANGED <<db, saved, pc, seen, nameVars, idVars, rowVars, faults>>

-----------------------------------------------------------------------------
(* ServiceDictionary.register(), called by requests with unknown names. *)

\* lookup() finds nothing; the name may be being registered already.
Register(p, n) ==
  /\ pc[p] = "ready" /\ cache[p][n] = NoId /\ register[p][n] = "none"
  /\ register' = [register EXCEPT ![p][n] = "insert"]
  /\ UNCHANGED <<db, saved, bootVars, cache, idVars, rowVars, faults>>

\* INSERT ... ON CONFLICT (name) DO NOTHING, which takes a value of the serial
\* sequence either way.
RegisterInsert(p, n) ==
  LET isNew == \A row \in db.services : row.name # n
      row == [id |-> db.nextService, name |-> n]
  IN /\ register[p][n] = "insert"
     /\ Committed([db EXCEPT !.nextService = @ + 1,
                             !.services = IF isNew THEN @ \cup {row} ELSE @])
     /\ register' = [register EXCEPT ![p][n] = "select"]
     /\ UNCHANGED <<bootVars, cache, idVars, rowVars, faults>>

\* Variant: the id the insert took is remembered, whoever's row won.
RegisterSelect_Own(p, n) ==
  /\ register[p][n] = "select"
  /\ cache' = [cache EXCEPT ![p][n] = db.nextService - 1]
  /\ register' = [register EXCEPT ![p][n] = "none"]
  /\ UNCHANGED <<db, saved, bootVars, idVars, rowVars, faults>>

\* The SELECT reads whichever row won, and remember() keeps it.
RegisterSelect(p, n) ==
  /\ register[p][n] = "select"
  /\ cache' = [cache EXCEPT ![p][n] =
       IF \E row \in db.services : row.name = n
       THEN (CHOOSE row \in db.services : row.name = n).id ELSE @]
  /\ register' = [register EXCEPT ![p][n] = "none"]
  /\ UNCHANGED <<db, saved, bootVars, idVars, rowVars, faults>>

\* One of the statements times out, or its connection is lost, whether or not it has
\* been carried out: the callers get the error, and the name may be tried again.
RegisterFails(p, n) ==
  /\ register[p][n] # "none" /\ faults < MaxFaults /\ faults' = faults + 1
  /\ register' = [register EXCEPT ![p][n] = "none"]
  /\ UNCHANGED <<db, saved, bootVars, cache, idVars, rowVars>>

-----------------------------------------------------------------------------
(* IdAllocator.  A process has one fetch under way at most: ensureAvailable() *)
(* joins the one there is, and whoever awaited it looks at "remaining" again  *)
(* before any append() has gone on to take ids.                               *)

\* fetchBlock() up to its await: nextval() gives out the next block.
Fetch(p) ==
  /\ pc[p] = "ready" /\ remaining[p] = 0 /\ inFlight[p] = NoId
  /\ db.nextBlock + BlockSize - 1 \in Ids
  /\ Committed([db EXCEPT !.nextBlock = @ + BlockSize])
  /\ inFlight' = [inFlight EXCEPT ![p] = db.nextBlock]
  /\ UNCHANGED <<bootVars, nameVars, next, remaining, rowVars, faults>>

\* Variant: one id more than the block has.
BlockArrives_OneMore(p) ==
  /\ inFlight[p] # NoId
  /\ next' = [next EXCEPT ![p] = inFlight[p]]
  /\ remaining' = [remaining EXCEPT ![p] = BlockSize + 1]
  /\ inFlight' = [inFlight EXCEPT ![p] = NoId]
  /\ UNCHANGED <<db, saved, bootVars, nameVars, rowVars, faults>>

BlockArrives(p) ==
  /\ inFlight[p] # NoId
  /\ next' = [next EXCEPT ![p] = inFlight[p]]
  /\ remaining' = [remaining EXCEPT ![p] = BlockSize]
  /\ inFlight' = [inFlight EXCEPT ![p] = NoId]
  /\ UNCHANGED <<db, saved, bootVars, nameVars, rowVars, faults>>

\* The statement times out or its connection is lost: nobody gets the block.
FetchFails(p) ==
  /\ inFlight[p] # NoId
  /\ inFlight' = [inFlight EXCEPT ![p] = NoId]
  /\ UNCHANGED <<db, saved, bootVars, nameVars, next, remaining, rowVars, faults>>

\* take(), for a row of service n that a COPY then stores.
StoreRow(p, n) ==
  /\ pc[p] = "ready" /\ cache[p][n] # NoId /\ remaining[p] > 0
  /\ next' = [next EXCEPT ![p] = @ + 1]
  /\ remaining' = [remaining EXCEPT ![p] = @ - 1]
  /\ used' = used \cup {next[p]}
  /\ reissued' = (reissued \/ next[p] \in used)
  /\ stored' = stored \cup {[id |-> cache[p][n], name |-> n]}
  /\ UNCHANGED <<db, saved, bootVars, nameVars, inFlight, faults>>

-----------------------------------------------------------------------------

\* The database crashes and recovers what was flushed.  Statements under way fail:
\* a starting process exits, a serving one answers with errors and reconnects.
DbCrash ==
  LET starting == {p \in Procs : pc[p] \notin {"down", "ready"}}
      Fails(f, v) == [p \in Procs |-> v]
  IN /\ faults < MaxFaults /\ faults' = faults + 1
     /\ db' = saved /\ UNCHANGED saved
     /\ lock' = "free"
     /\ pc' = [p \in Procs |-> IF p \in starting THEN "down" ELSE pc[p]]
     /\ seen' = [p \in Procs |-> IF p \in starting THEN {} ELSE seen[p]]
     /\ cache' = [p \in Procs |->
                    IF p \in starting THEN [n \in Names |-> NoId] ELSE cache[p]]
     /\ register' = Fails(register, [n \in Names |-> "none"])
     /\ inFlight' = Fails(inFlight, NoId)
     /\ UNCHANGED <<next, remaining, rowVars>>

BootStep(p) ==
  \/ Start(p) \/ TakeLock(p) \/ ReadApplied(p) \/ RunFile(p)
  \/ Commit(p) \/ Unlock(p) \/ Indexes(p) \/ Load(p)

ServeStep(p) ==
  \/ \E n \in Names : Register(p, n) \/ RegisterInsert(p, n)
                      \/ RegisterSelect(p, n) \/ RegisterFails(p, n) \/ StoreRow(p, n)
  \/ Fetch(p) \/ BlockArrives(p) \/ FetchFails(p)

Next ==
  \/ \E p \in Procs : BootStep(p) \/ ServeStep(p) \/ BootFails(p) \/ Die(p)
  \/ OrphanEnds \/ DbCrash

Spec == Init /\ [][Next]_vars

\* The container is restarted whenever it exits, and main() goes on whenever a
\* statement is answered; PostgreSQL notices dead clients; the lock is granted in
\* the order it was asked for.
FairSpec ==
  /\ Spec
  /\ \A p \in Procs : WF_vars(BootStep(p)) /\ SF_vars(TakeLock(p))
  /\ WF_vars(OrphanEnds)

-----------------------------------------------------------------------------
(* Properties. *)

Migrating(p) == pc[p] \in {"migrate", "commit"}

\* migrate.ts: the lock is held for the whole run "so two instances starting
\* together cannot both apply the same migration".  Whoever is migrating knows what
\* has been applied, also when a predecessor died halfway, so no INSERT meets a
\* key that is there; each file's statements have run once, in order.
MigratesAlone ==
  /\ \A p \in Procs : Migrating(p) => seen[p] = db.applied
  /\ \A f \in Files : db.runs[f] = IF f \in db.applied THEN 1 ELSE 0
  /\ \A f \in db.applied : 1..f \subseteq db.applied

\* index.ts: nothing is served "at a schema that does not exist yet".
SchemaBeforeService ==
  \A p \in Procs : pc[p] \in {"load", "ready"} => db.applied = Files

\* ids.ts: "Correct across processes and restarts without coordination: no two
\* callers can ever be handed the same block".  No id is handed out twice, by one
\* process or by two, whatever fetches fail and whoever dies.
IdsNeverReissued == ~reissued

\* One row per name and per id, and every process caches what the table says,
\* whichever of several inserts of a name won.
DictionariesAgree ==
  /\ \A r, s \in db.services : (r.id = s.id \/ r.name = s.name) => r = s
  /\ \A p \in Procs, n \in Names :
       cache[p][n] # NoId => [id |-> cache[p][n], name |-> n] \in db.services

\* logs.service_id has no foreign key: that a stored row's id leads back to the
\* name it was sent with rests on register() alone.
RowsKeepTheirService == stored \subseteq db.services

\* Every instance is ready in the end, whoever died with the lock in hand.
BootsComplete == \A p \in Procs : <>[](pc[p] = "ready")
=============================================================================
