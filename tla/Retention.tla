----------------------------- MODULE Retention -----------------------------
(***************************************************************************)
(* The daily partitions of the logs table: PartitionManager of             *)
(* src/db/partitions.ts, the sweeps of src/retention/janitor.ts and the    *)
(* flushes of the ingest writer that ask for partitions before a COPY.     *)
(*                                                                         *)
(* Sweeps and flushes share one dedicated connection, which runs their     *)
(* statements one at a time in the order sent and which nothing replaces   *)
(* when it is lost.  They also share "known", the cache of days that have  *)
(* a partition.  COPYs run on other connections; a row whose day has no    *)
(* partition goes to logs_default.                                         *)
(*                                                                         *)
(* A step is the answer to one statement and all the code that runs on it  *)
(* up to the next statement.                                               *)
(***************************************************************************)
EXTENDS Integers, Sequences, FiniteSets, FiniteSetsExt

CONSTANTS
  Flushes,        \* runCopy() calls that may be under way at once
  BatchDays,      \* the sets of days a batch may have rows of
  RetentionDays,  \* config.retention.days
  FirstToday,     \* the day the service starts
  LastToday,      \* bound on the clock
  CanFail,        \* whether statements may run into the lock timeout
  MaxRestarts,    \* bound on the restarts of the process
  CanDisconnect   \* whether the partition connection may be lost

ASSUME RetentionAssumption ==
  /\ RetentionDays \in Nat \ {0}
  /\ BatchDays \subseteq (SUBSET (0..LastToday + 1)) \ {{}}
  /\ FirstToday \in Nat /\ LastToday \in Nat
  /\ RetentionDays < FirstToday /\ FirstToday <= LastToday
  /\ MaxRestarts \in Nat
  /\ CanFail \in BOOLEAN /\ CanDisconnect \in BOOLEAN
  /\ {"timer", "admin"} \cap Flushes = {}

LOOKAHEAD_DAYS == 2

\* The sweep of main() and of the interval, and POST /admin/retention/run.
Sweeps == {"timer", "admin"}
Tasks == Flushes \cup Sweeps
Days == 0..LastToday + LOOKAHEAD_DAYS

VARIABLES
  today,        \* the current day
  catalog,      \* days that have a partition
  defaultDays,  \* days with rows in logs_default
  known,        \* PartitionManager.known
  refused,      \* days whose CREATE TABLE has failed
  lockTimeout,  \* whether lock_timeout is set on the partition connection
  connected,    \* whether the partition connection is alive
  ddl,          \* tasks with a statement on that connection, in order
  pc,           \* what each task is waiting for
  day,          \* the day its statement is about
  last,         \* the end of its ensureRange()
  rows,         \* the days of a flush's rows
  cutoff,       \* cutoffDay of a sweep
  todo,         \* listed days a sweep has still to look at
  dropped,      \* whether the DROP a sweep is about to close succeeded
  running,      \* RetentionJanitor.running
  swept,        \* whether lastResult is set
  sweptToday,   \* whether a sweep begun since midnight has ensured its range
  ready,        \* context.ready
  restarts      \* restarts so far

taskVars  == <<pc, day, last, rows, cutoff, todo, dropped>>
clockVars == <<today, restarts>>
storeVars == <<catalog, defaultDays>>
cacheVars == <<known, refused>>
connVars  == <<lockTimeout, connected>>
bootVars  == <<running, swept, ready>>
vars == <<clockVars, storeVars, cacheVars, connVars, ddl, taskVars, bootVars,
          sweptToday>>

TypeOK ==
  /\ today \in FirstToday..LastToday
  /\ catalog \subseteq Days /\ defaultDays \subseteq Days
  /\ known \subseteq Days /\ refused \subseteq Days
  /\ lockTimeout \in BOOLEAN /\ connected \in BOOLEAN
  /\ ddl \in Seq(Tasks)
  /\ pc \in [Tasks -> {"idle", "create", "list", "set", "drop", "reset", "copying"}]
  /\ day \in [Tasks -> Days]
  /\ last \in [Tasks -> Days]
  /\ rows \in [Flushes -> SUBSET Days]
  /\ cutoff \in [Sweeps -> Int]
  /\ todo \in [Sweeps -> SUBSET Days]
  /\ dropped \in [Sweeps -> BOOLEAN]
  /\ running \in BOOLEAN /\ swept \in BOOLEAN
  /\ sweptToday \in BOOLEAN /\ ready \in BOOLEAN
  /\ restarts \in 0..MaxRestarts

Idle == [t \in Tasks |-> "idle"]
NoDay == [t \in Tasks |-> 0]

\* main() up to the first sweep: loadExisting() has read the catalog.
Init ==
  /\ today = FirstToday
  /\ catalog \in SUBSET {FirstToday - RetentionDays - 1, FirstToday}
  /\ defaultDays = {}
  /\ known = catalog /\ refused = {}
  /\ lockTimeout = FALSE /\ connected = TRUE
  /\ ddl = <<>>
  /\ pc = Idle /\ day = NoDay /\ last = NoDay
  /\ rows = [f \in Flushes |-> {}]
  /\ cutoff = [s \in Sweeps |-> 0]
  /\ todo = [s \in Sweeps |-> {}]
  /\ dropped = [s \in Sweeps |-> FALSE]
  /\ running = FALSE /\ swept = FALSE /\ ready = FALSE
  /\ sweptToday = FALSE
  /\ restarts = 0

-----------------------------------------------------------------------------
(* What a task does next: each operator sends the task's next statement, after *)
(* those in q.                                                                 *)

Send(t, q, what) ==
  /\ pc' = [pc EXCEPT ![t] = what]
  /\ ddl' = Append(q, t)

\* Variant: ensureRange() goes a day too far.
EnsureFrom_OneMore(t, from, to, k, q) ==
  LET missing == {d \in from..to + 1 : d \notin k}
  IN /\ last' = [last EXCEPT ![t] = IF missing # {} THEN to ELSE 0]
     /\ day' = [day EXCEPT ![t] = IF missing # {} THEN Min(missing) ELSE 0]
     /\ IF missing # {}
        THEN Send(t, q, "create")
        ELSE IF t \in Sweeps
             THEN Send(t, q, "list")
             ELSE pc' = [pc EXCEPT ![t] = "copying"] /\ ddl' = q
     /\ sweptToday' = (sweptToday \/ (t \in Sweeps /\ missing = {}
                                     /\ cutoff'[t] = today - RetentionDays))

\* The rest of ensureRange(from, to) with the cache as k, and what follows it: the
\* COPY of a flush, the catalog query of a sweep.
EnsureFrom(t, from, to, k, q) ==
  LET missing == {d \in from..to : d \notin k}
  IN /\ last' = [last EXCEPT ![t] = IF missing # {} THEN to ELSE 0]
     /\ day' = [day EXCEPT ![t] = IF missing # {} THEN Min(missing) ELSE 0]
     /\ IF missing # {}
        THEN Send(t, q, "create")
        ELSE IF t \in Sweeps
             THEN Send(t, q, "list")
             ELSE pc' = [pc EXCEPT ![t] = "copying"] /\ ddl' = q
     /\ sweptToday' = (sweptToday \/ (t \in Sweeps /\ missing = {}
                                     /\ cutoff'[t] = today - RetentionDays))

\* Variant: running is not reset.
NextDrop_StaysRunning(s, days, q) ==
  \/ \E d \in days :
       /\ todo' = [todo EXCEPT ![s] = days \ {d}]
       /\ day' = [day EXCEPT ![s] = d]
       /\ Send(s, q, "set")
       /\ UNCHANGED bootVars
  \/ /\ days = {}
     /\ todo' = [todo EXCEPT ![s] = {}]
     /\ pc' = [pc EXCEPT ![s] = "idle"] /\ ddl' = q
     /\ swept' = TRUE
     /\ ready' = (ready \/ s = "timer")
     /\ day' = [day EXCEPT ![s] = 0]
     /\ UNCHANGED running

\* The loop of dropOlderThan(), days being those left: the next partition in some
\* order, or the end of the sweep, which lets main() go on to serve.
NextDrop(s, days, q) ==
  \/ \E d \in days :
       /\ todo' = [todo EXCEPT ![s] = days \ {d}]
       /\ day' = [day EXCEPT ![s] = d]
       /\ Send(s, q, "set")
       /\ UNCHANGED bootVars
  \/ /\ days = {}
     /\ todo' = [todo EXCEPT ![s] = {}]
     /\ pc' = [pc EXCEPT ![s] = "idle"] /\ ddl' = q
     /\ running' = FALSE /\ swept' = TRUE
     /\ ready' = (ready \/ s = "timer")
     /\ day' = [day EXCEPT ![s] = 0]

-----------------------------------------------------------------------------
(* Tasks begin. *)

\* Variant: the lookahead is a day short.
Sweep_ShortLookahead(s) ==
  /\ pc[s] = "idle"
  /\ ~(running /\ swept)
  /\ running' = TRUE
  /\ cutoff' = [cutoff EXCEPT ![s] = today - RetentionDays]
  /\ EnsureFrom(s, today, today + LOOKAHEAD_DAYS - 1, known, ddl)
  /\ UNCHANGED <<clockVars, storeVars, cacheVars, connVars, rows, todo, dropped,
                 swept, ready>>

\* sweep(): an overlapping call returns the previous result, if there is one.
Sweep(s) ==
  /\ pc[s] = "idle"
  /\ ~(running /\ swept)
  /\ running' = TRUE
  /\ cutoff' = [cutoff EXCEPT ![s] = today - RetentionDays]
  /\ EnsureFrom(s, today, today + LOOKAHEAD_DAYS, known, ddl)
  /\ UNCHANGED <<clockVars, storeVars, cacheVars, connVars, rows, todo, dropped,
                 swept, ready>>

\* runCopy() of a batch with rows of the days in ds; requests are taken from the
\* moment the server listens, before the first sweep is done.  A timestamp may be
\* as old as it likes and five minutes in the future.
FlushBegins(f) ==
  /\ pc[f] = "idle"
  /\ \E ds \in BatchDays :
       /\ ds \subseteq 0..today + 1
       /\ rows' = [rows EXCEPT ![f] = ds]
       /\ EnsureFrom(f, Min(ds), Max(ds), known, ddl)
  /\ UNCHANGED <<clockVars, storeVars, cacheVars, connVars, cutoff, todo, dropped,
                 bootVars>>

-----------------------------------------------------------------------------
(* Answers to the statement at the head of the connection. *)

Answered(t, what) == ddl # <<>> /\ Head(ddl) = t /\ pc[t] = what

\* A COPY is at work and holds a lock on logs, which CREATE TABLE ... PARTITION OF
\* and DROP TABLE of a partition both wait for.
Copying == \E f \in Flushes : pc[f] = "copying"

\* CREATE TABLE IF NOT EXISTS.
CreateDone(t) ==
  /\ Answered(t, "create") /\ connected
  /\ day[t] \in catalog \/ day[t] \notin defaultDays
  /\ catalog' = catalog \cup {day[t]}
  /\ known' = known \cup {day[t]}
  /\ UNCHANGED <<clockVars, defaultDays, refused, connVars, rows, cutoff, todo,
                 dropped, bootVars>>
  /\ EnsureFrom(t, day[t] + 1, last[t], known', Tail(ddl))

\* Refused because logs_default has rows of the day, because the lock_timeout of a
\* drop under way applies to it as well, or because the connection is gone.  The
\* day is cached as known all the same.
CreateFails(t) ==
  /\ Answered(t, "create")
  /\ \/ ~connected
     \/ day[t] \notin catalog /\ day[t] \in defaultDays
     \/ CanFail /\ lockTimeout /\ Copying
  /\ known' = known \cup {day[t]}
  /\ refused' = refused \cup {day[t]}
  /\ UNCHANGED <<clockVars, storeVars, connVars, rows, cutoff, todo, dropped,
                 bootVars>>
  /\ EnsureFrom(t, day[t] + 1, last[t], known', Tail(ddl))

\* Variant: the cutoff day itself is taken as expired.
ListDone_Inclusive(s) ==
  /\ Answered(s, "list") /\ connected
  /\ NextDrop(s, {d \in catalog : d <= cutoff[s]}, Tail(ddl))
  /\ cutoff' = [cutoff EXCEPT ![s] = 0]
  /\ UNCHANGED <<clockVars, storeVars, cacheVars, connVars, last, rows, dropped,
                 sweptToday>>

\* The partitions entirely older than the cutoff; logs_default has no day.
ListDone(s) ==
  /\ Answered(s, "list") /\ connected
  /\ NextDrop(s, {d \in catalog : d < cutoff[s]}, Tail(ddl))
  /\ cutoff' = [cutoff EXCEPT ![s] = 0]
  /\ UNCHANGED <<clockVars, storeVars, cacheVars, connVars, last, rows, dropped,
                 sweptToday>>

\* The sweep throws; the interval logs it and the next one tries again.
ListFails(s) ==
  /\ Answered(s, "list") /\ ~connected
  /\ pc' = [pc EXCEPT ![s] = "idle"] /\ ddl' = Tail(ddl)
  /\ running' = FALSE
  /\ cutoff' = [cutoff EXCEPT ![s] = 0]
  /\ UNCHANGED <<clockVars, storeVars, cacheVars, connVars, day, last, rows, todo,
                 dropped, swept, ready, sweptToday>>

\* SET lock_timeout = '5s'.
SetDone(s) ==
  /\ Answered(s, "set")
  /\ IF connected
     THEN /\ lockTimeout' = TRUE
          /\ Send(s, Tail(ddl), "drop")
          /\ UNCHANGED <<day, todo, bootVars>>
     ELSE /\ NextDrop(s, todo[s], Tail(ddl))
          /\ UNCHANGED lockTimeout
  /\ UNCHANGED <<clockVars, storeVars, cacheVars, connected, last, rows, cutoff,
                 dropped, sweptToday>>

\* DROP TABLE IF EXISTS.
DropDone(s) ==
  /\ Answered(s, "drop") /\ connected
  /\ catalog' = catalog \ {day[s]}
  /\ dropped' = [dropped EXCEPT ![s] = TRUE]
  /\ Send(s, Tail(ddl), "reset")
  /\ UNCHANGED <<clockVars, defaultDays, cacheVars, connVars, day, last, rows, cutoff,
                 todo, bootVars, sweptToday>>

\* The lock was not had in time, or the connection is gone.
DropFails(s) ==
  /\ Answered(s, "drop")
  /\ ~connected \/ (CanFail /\ lockTimeout /\ Copying)
  /\ dropped' = [dropped EXCEPT ![s] = FALSE]
  /\ Send(s, Tail(ddl), "reset")
  /\ UNCHANGED <<clockVars, storeVars, cacheVars, connVars, day, last, rows, cutoff,
                 todo, bootVars, sweptToday>>

\* Variant: a dropped day stays in the cache.
ResetDone_KeepKnown(s) ==
  /\ Answered(s, "reset")
  /\ lockTimeout' = (lockTimeout /\ ~connected)
  /\ NextDrop(s, todo[s], Tail(ddl))
  /\ dropped' = [dropped EXCEPT ![s] = FALSE]
  /\ UNCHANGED <<clockVars, storeVars, known, refused, connected, last, rows, cutoff,
                 sweptToday>>

\* SET lock_timeout = 0, and the day leaves the cache if its partition is gone.
\* Failing here is failing to drop.
ResetDone(s) ==
  /\ Answered(s, "reset")
  /\ lockTimeout' = (lockTimeout /\ ~connected)
  /\ known' = IF connected /\ dropped[s] THEN known \ {day[s]} ELSE known
  /\ NextDrop(s, todo[s], Tail(ddl))
  /\ dropped' = [dropped EXCEPT ![s] = FALSE]
  /\ UNCHANGED <<clockVars, storeVars, refused, connected, last, rows, cutoff,
                 sweptToday>>

-----------------------------------------------------------------------------
(* COPYs, the clock, the process and the connection. *)

\* A COPY routes its rows and commits, or it fails and stores nothing.
CopyDone(f) ==
  /\ pc[f] = "copying"
  /\ pc' = [pc EXCEPT ![f] = "idle"]
  /\ rows' = [rows EXCEPT ![f] = {}]
  /\ defaultDays' \in {defaultDays, defaultDays \cup (rows[f] \ catalog)}
  /\ UNCHANGED <<clockVars, catalog, cacheVars, connVars, ddl, day, last, cutoff,
                 todo, dropped, bootVars, sweptToday>>

\* A new day.  Sweeps are five minutes apart, so one has been through its range
\* since the last midnight.
Midnight ==
  /\ today < LastToday /\ sweptToday
  /\ today' = today + 1
  /\ sweptToday' = FALSE
  /\ UNCHANGED <<restarts, storeVars, cacheVars, connVars, ddl, taskVars, bootVars>>

\* The process exits and is started again; statements under way are lost.
Restart ==
  /\ restarts < MaxRestarts /\ restarts' = restarts + 1
  /\ known' = catalog /\ refused' = {}
  /\ lockTimeout' = FALSE /\ connected' = TRUE
  /\ ddl' = <<>>
  /\ pc' = Idle /\ day' = NoDay /\ last' = NoDay
  /\ rows' = [f \in Flushes |-> {}]
  /\ cutoff' = [s \in Sweeps |-> 0]
  /\ todo' = [s \in Sweeps |-> {}]
  /\ dropped' = [s \in Sweeps |-> FALSE]
  /\ running' = FALSE /\ swept' = FALSE /\ ready' = FALSE
  /\ UNCHANGED <<today, storeVars, sweptToday>>

\* The connection is lost: every statement on it fails, now and later.  The
\* error is logged.
Disconnect ==
  /\ CanDisconnect /\ connected /\ ready
  /\ connected' = FALSE
  /\ UNCHANGED <<clockVars, storeVars, cacheVars, lockTimeout, ddl, taskVars, bootVars,
                 sweptToday>>

TaskStep(t) == CreateDone(t) \/ CreateFails(t)

SweepStep(s) == \/ ListDone(s) \/ ListFails(s) \/ SetDone(s)
                \/ DropDone(s) \/ DropFails(s) \/ ResetDone(s)

Next ==
  \/ \E s \in Sweeps : Sweep(s) \/ SweepStep(s)
  \/ \E f \in Flushes : FlushBegins(f) \/ CopyDone(f)
  \/ \E t \in Tasks : TaskStep(t)
  \/ Midnight \/ Restart \/ Disconnect

Spec == Init /\ [][Next]_vars

\* The days that expire before the clock stops.
Expirable == 0..LastToday - RetentionDays - 1

\* Statements are answered, COPYs end, the interval fires, and a partition whose
\* drop is tried for ever is not locked at every try.
Fairness ==
  /\ WF_vars(Sweep("timer"))
  /\ \A t \in Tasks : WF_vars(TaskStep(t))
  /\ \A s \in Sweeps : WF_vars(SweepStep(s))
  /\ \A d \in Expirable : SF_vars(\E s \in Sweeps : day[s] = d /\ DropDone(s))
  /\ \A f \in Flushes : WF_vars(CopyDone(f))

FairSpec == Spec /\ Fairness

-----------------------------------------------------------------------------
(* Properties. *)

\* README.md, Retention strategy: a sweep drops a partition only when it is
\* entirely older than the cutoff.  Whenever a sweep started and however long its
\* statements waited, no partition of the last RetentionDays days is dropped.
KeepsRetainedDays ==
  [][\A d \in catalog \ catalog' : d < today - RetentionDays]_vars

\* known is a cache of the catalog: a day in it has a partition, unless creating
\* the partition failed or a sweep is just dropping it; and a day within the
\* retention that has a partition is in it, so that no flush of its rows sends a
\* statement.  (On a dead connection the cache decides nothing any more.)
KnownMatchesCatalog ==
  /\ connected => \A d \in known \ catalog :
       d \in refused \/ \E s \in Sweeps : pc[s] = "reset" /\ day[s] = d
  /\ {d \in catalog : d >= today - RetentionDays} \subseteq known

\* README.md, Retention strategy: partitions are created two days ahead, so
\* midnight never puts DDL in the path of a flush.  Once the service is ready,
\* no flush of rows of today or tomorrow waits for a CREATE TABLE.
LookaheadCoversToday == ready => {today, today + 1} \subseteq known

\* The janitor gets rid of every expired partition in the end, whatever flushes,
\* lock timeouts and restarts come in between.  README.md, bottleneck 4, "Every
\* long-lived client now has a listener and a reconnection path.", would have it
\* hold when the partition connection may be lost, too; nothing reconnects it.
ExpiredAreDropped ==
  \A d \in Expirable :
    (d \in catalog /\ d < today - RetentionDays) ~> (d \notin catalog)

\* The same where the partition connection, after a restart perhaps, is there to stay.
ExpiredGoWhileConnected == <>[]connected => ExpiredAreDropped

=============================================================================
