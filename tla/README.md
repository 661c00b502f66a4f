# Verification of the log service

TLA+ models of the log ingestion and query service in `src/` (Node.js,
TypeScript, PostgreSQL), the TLC runs that check them and the theorems TLAPS
proves about them. Paths below are relative to the repository (`src/ingest/writer.ts`
is the file of the service itself).

## The system

One Node.js process takes log entries over HTTP, groups them into batches, streams
each batch to PostgreSQL with a binary `COPY`, and answers queries. Rows live in
the table `logs`, partitioned by day, with a DEFAULT partition behind it.

| Part | State it keeps | Operations | What makes it correct | Modules |
|---|---|---|---|---|
| Ingest writer (`ingest/writer.ts`) | open batch, queue, writers, `pendingRows`, `flushSoon`, `stopped` | `append`, `flush`, `dispatch`, `runCopy`, watchdog, `stop` | acknowledged rows are stored, once; every request is answered; accounting is exact; batches are neither lost nor changed after their flush | `IngestWriter`, `DurableIngest` |
| COPY encoder and its pool (`db/copy-encoder.ts`) | `buffer`, `offset`, `encoderPool` | `writeLogRow`, `finish`, `reset`, `shrinkIfOversized`, `releaseEncoder` | a batch's own rows are stored, however storage is reused | `CopyBuffers` |
| Writer connections (`ingest/writer.ts`) | `client`, `busy`, `healthy`, `reconnecting` | error listener, `reconnect`, retry timer | recovery never stops, a COPY uses a configured client, a healthy writer is usable | `WriterConnection` |
| Id allocator (`db/ids.ts`) | `nextId`, `remaining`, `inFlight` | `take`, `ensureAvailable` | ids are unique over restarts and instances; waiters share a fetch and its failure | `Instances`, `IngestWriter` |
| Service dictionary (`db/services.ts`) | two maps | `load`, `register`, `lookup`, `hydrateIds` | one id per name over instances; names in answers are true | `Instances`, `Queries` |
| Migrations (`db/migrate.ts`) | `schema_migrations`, advisory lock | `runMigrations` | each migration runs once, in order | `Instances` |
| Daily partitions (`db/partitions.ts`) | `known`, one connection | `loadExisting`, `ensureRange`, `dropOlderThan` | the cache agrees with the catalog; only expired days are dropped | `Retention` |
| Retention janitor (`retention/janitor.ts`) | `running`, `lastResult`, timer | `sweep` | expired days go in the end; the lookahead is always there | `Retention` |
| Timestamps, levels, validation (`domain/`) | none | `parseIsoToMicros`, `validateEntry` | a text is read to the instant it denotes; only what is wrong is rejected | `Timestamps`, `Queries`, `HttpService` |
| Log queries and aggregation (`query/`, `domain/cursor.ts`) | none | keyset pages, filters, cursors, buckets | pages neither skip nor repeat; every row is counted once | `Queries` |
| HTTP server, routes, limits, authentication (`http/`) | connections, tokens, API keys | routing, body, `authorize`, `check`, answers, errors | an answer tells what happened; scopes and rates are honoured; no handler hangs | `HttpService` |
| Lifecycle (`index.ts`) | `ready`, signal state | boot, listen, shutdown | nothing is served before the schema exists; a shutdown ends, and a clean one has answered everybody | `Instances` up to the writer, `HttpService` from `listen()` to the exit |
| Configuration, logger, metrics | values read once, counters | - | - | constants |
| Load tests (`loadtest/`) | - | client side only | - | - |

How they interact: a route hands validated rows to `append()`, which waits for the
dictionary (a query of the pool), for ids (another one) and for the batches its rows
went into. `runCopy()` asks the partition manager for the batch's days, over the
one connection the janitor's sweeps use too, and then copies on a writer's own
connection. The admin route calls the janitor. Everything runs on one JavaScript
thread: the interleavings are those of stretches between two `await`s with timers,
replies, connection errors and the database's own steps.

Hard behaviours: rows of one request spread over batches with different fates; a
COPY whose reply is lost; a database crash after a commit that is not yet
in the flushed WAL; connections lost while idle, while copying, or while being replaced; several runs
of `reconnect()` for one writer; a shared fetch whose waiters find nothing left;
timeouts of queued batches; shutdown with work in flight; DDL of sweeps and
flushes interleaved on one connection; midnight and restarts in the middle of a sweep;
a cache that is read before a drop is known.

## Modules

### `DurableIngest`

What clients are promised, independently of batches and connections: a request is
refused, acknowledged or failed, rows enter the table only for a request that
waits or has failed, and an acknowledgement needs all rows of the request in the table, from
where nothing removes them. It is the abstract specification of `IngestWriter`.

### `IngestWriter`, `MCIngestWriter`

`src/ingest/writer.ts` with the part of `src/db/ids.ts` it calls. State and code:

| Model | Code |
|---|---|
| `pc`, `written`, `touched` | where a call of `append()` is, its locals |
| `micro`, `Quiet` | continuations queued on the thread; external events wait until it is drained |
| `remaining`, `idWaiters` | `IdAllocator.remaining`, the callers inside `ensureAvailable()` |
| `bstate`, `content`, `nrows`, `bytes` | the batch, its promise and its encoder |
| `openBatch`, `queue`, `flushSoon`, `pendingRows`, `stopped` | the fields of the same name |
| `conn`, `stray`, `job`, `phase` | the writers: connection, a second `reconnect()`, batch, progress of `runCopy()` |
| `executing`, `visible`, `durable` | PostgreSQL: running COPYs, commits visible, commits in the flushed WAL |

Each action is one stretch of code up to its next `await`: admission
(`Append_Refuse`, `Append_Shed`, `Append_Admit`), the service registration
(`Registered`, `RegisterFailed`), one round of the row loop (`NeedIds`,
`DepositChunk`), the wait (`AllWritten`, `Finish_Acked`, `Finish_Failed`), the
timers (`FlushTimer`, `FlushSoon`, `Watchdog`), `runCopy()` (`EnsureDone`, `CopyDone`,
`CopyFailed`), connections (`ConnLost`, `StrayEnds`, `Reconnected`) and `Stop`, `StopFinish`.
`flush`, `dispatch` and `scheduleAdaptiveFlush` are operators used wherever the code calls
them, so that their effect is part of the calling step. The database's steps are
`ServerCommit`, `ServerAbort`, `WalFlush` and `DbCrash`.

Abstractions: a row is the pair of its request and its index; time is left out, so
any prefix of the queue may be due for the watchdog, the 10 s of `stop()` may
always be over, and `ensureRange()` is one wait that does not fail; the single-row fast path of `append()` behaves like
one round of the loop and is not told from it; runs of `reconnect()` beyond the second are not counted and a
COPY of a client that has been replaced meanwhile is not tracked (`WriterConnection` does
both); batch identities are used in increasing order and bounded; the throw "service was not registered"
is left out, since it needs the row of a service to vanish between the two statements of `register()`.

### `WriterConnection`

One `Writer` record with every client it ever had and every run of `reconnect()`.
Runs are started by the error listener (which looks at `reconnecting`), by the
catch block of `runCopy()` (which does not) and by the retry timer. A loss of a connection runs
its listener and the rejected COPY's catch block in one step, as nothing comes
between them. `EndClient` is `client.end()`; `Connect`, `Connected`,
`ConnectFailed`, `Adopt` and `Retry` are the stretches of `reconnect()`.
`Outage` and `OutageOver` decide whether connections can be had and lost.

### `Retention`

`PartitionManager`, `RetentionJanitor`, the flushes that use them, and what `main()`
does around the first sweep. Tasks (sweeps of the timer and of the admin route, flushes) send their statements
to one connection, `ddl`, which answers them in order; `pc`, `day`, `last`, `todo`,
`cutoff` and `dropped` are the locals of a task while it waits. A step is the answer to
one statement and the code that runs on it up to the next: `CreateDone`/`CreateFails`
(`ensureDay`), `ListDone`/`ListFails`, `SetDone`, `DropDone`/`DropFails`, `ResetDone`
(`dropOlderThan`, `dropPartition`). `CopyDone` routes rows by the catalog, to
`logs_default` where no partition is. `Midnight`, `Restart` and `Disconnect` are the clock,
the process and the connection.

`ensureDay()`'s throw over an unexpected partition name is left out: the years -1 to 9999 give names of
eight digits, and later years are refused as future. Two assumptions are built in: sweeps are five minutes apart, so one has been through its range
since the last midnight when the next comes; and the connection is lost only after the
first sweep (before, `main()` fails and the process ends).

### `Instances`

Several processes over one database: `main()` up to the ingest writer, with
`runMigrations()`, the dictionary and the id allocator.

| Model | Code |
|---|---|
| `pc` (`lock`, `read`, `migrate`, `commit`, `unlock`, `indexes`, `load`, `ready`) | how far `main()` is |
| `lock`, `seen` | the advisory lock of the session, the files read from `schema_migrations` |
| `cache`, `register` | `ServiceDictionary.byName`, calls of `register()` under way |
| `next`, `remaining`, `inFlight` | `IdAllocator`: the block, and the one the shared fetch will bring |
| `db`, `saved` | what PostgreSQL has committed, and what of it a crash leaves |

A step is one statement or, where something may come between, its effect and its
answer (`RegisterInsert`/`RegisterSelect`, `Fetch`/`BlockArrives`), or a failure of the statement alone
(`RegisterFails`, `FetchFails`). `Die` and `BootFails`
end a process, which leaves its lock to an orphaned session (`OrphanEnds`); `DbCrash`
ends all of them and takes the database back to `saved`. The statements of
one migration are one step, as they run in one transaction. Blocks and
faults are bounded by `MaxBlocks` and `MaxFaults`. A process has one fetch under way at most: whoever
awaited it looks at `remaining` in the microtask after its answer, before any `append()` has gone on to take
ids, so no waiter finds the new block used up (what the waiters of one process do is in `IngestWriter`).

### `Timestamps`, `Queries`, `MCQueries`

`Timestamps` is `src/domain/time.ts`: the fast path digit by digit, the slow path
through `Date.parse`, fractions, offsets and calendar checks, on texts that are records of
their parts; and, beside it, the definition of the instant a text denotes
(`Denoted`), written from the calendar and not from the code. An instant (`Instants`)
is a triple of day, second and microsecond, since TLC's integers have 32 bits. The code's numbers of
microseconds are doubles: `Rounded` is what a product or a sum of two becomes, the multiple of `Grain` next to it
beyond 2^53 (before 1684 and after 2255); `PgTimestamp` is the difference the encoder sends, and
`formatMicrosPgLiteral` the literal of a statement, which PostgreSQL reads for the years 1 to 9999 only (`LiteralIsRead`).

`Queries` is one client that walks the pages of `GET /logs` or asks for
`GET /logs/aggregate` while entries arrive (`Arrive`, `Reject`) and a day is
dropped (`DropDay`). `Ask` validates the parameters, `ReadLogs` and
`ReadAggregate` are the statement, `ReplyLogs` and `ReplyAggregate` what is made of its
answer, after the names of unknown service ids have been fetched (`Hydrated`). `WHERE`, `Past`, `encodeCursor`,
`NextCursor`, `BucketStart`, `Grouped` carry the names of what they translate.
`table`, `known`, `cursor`, `reply` are the state of the code; `got`, `steady`,
`snapshot` record what the properties compare with. Words, attributes and their SQL operators
are membership; the base64 of a cursor is left out. A walk may begin at a cursor of its own (one
kept from an earlier walk): what it means are then the rows after it (`Meant`). A statement is not carried out when
PostgreSQL does not read its range (`RangeIsRead`) and may fail otherwise (`StatementFails`).

### `HttpService`, `MCHttpService`

One process from `listen()` to its exit. A handler's stretch before its first
`await` is a step (`AnswerOpen`, `Deny`, `AnswerAdmin`, `Shed`, `Admit`), and so is each
one after (`RejectBody`, `BodyTooLarge`, `AppendRows`, `RowsAnswered`, `RowsFail`,
`StatementAnswered`). `task` is what a handler waits for, `link` whether the client is still
connected, `status` what it received, `due` the entries it waits for and `stored` those that were committed.
The writer is seen from outside: any set of waiting entries may be a COPY, some of a request or those of
several, and its commit (`RowsCommit`) and its answer are two steps. `Faults` is what may go wrong with the database.
`Rejection` gives each kind of body its status: a body over the limit loses its 413 when it is
uncompressed (`BodyTooLarge`) and has it when it is compressed (`"inflated"`), and a `"corrupt"` compressed body is a 500. `tokens`, `lastRefill`, `clock` and `admissions` are the rate limiter, in ticks of one token.
`stage` and `exit` follow `main()` and `shutdown()`: `FirstSweep`, `DiesStarting`,
`Signal`, `ServerClosed`, `WriterStopped`, `ShutdownComplete`, `ForcedExit` and
`Crash`. An entry is the set of its defects, in the order `validateEntry()` looks for them.

### `CopyBuffers`, `MCCopyBuffers`

The storage of encoders, cell by cell. `AppendChunk` is `currentBatch()`, one round of
the row loop and `flushIfReady()`; `StartCopy` is `finish()` and `copyBuffer()`, which hands the
socket a view of the storage (`wire`: what the view reads is the storage at the time it is sent);
`Send` moves any number of cells to the server process, which commits what
it can parse (`ServerCommit`) or gives up at any point (`ServerAbort`). `EndCopy` is the
`finally` block, after which the encoder may be used again while the view is
still on the wire; `FlushOpen` and `Watchdog` are the other two places that
release one. Storage that is replaced leaves earlier views what they had (`Detached`). A row takes
one or two cells, the header and the trailer one each; the bytes inside a row are left out.

### Proof modules

`IngestWriterProofs`, `InstancesProofs`, `HttpServiceProofs`, `WriterConnectionProofs`,
`RetentionProofs`, `CopyBuffersProofs`, `QueriesProofs` (about `Timestamps` and `Queries`), and
`SetLemmas`, the lemmas on finite sets they share: least and greatest elements, recursion and
sums over a set, ranks, images, and the sequence that lists a set in an order.

## Runs

| Run | Checks | Instance |
|---|---|---|
| `writer_durable` | `TypeOK`, `AckedStored`, `StoredAtMostOnce`, `PendingMatches`, `IdleReleasesOpenBatch`, `BatchesFrozen`, `KeepsContract` | three requests, one connection, synchronous commit, crashes |
| `writer_pool` | `Custody`, `NoStrandedBatch`, `RequestsAnswered` under fairness | two requests of several one-row batches, two connections that come and go, `stop()` |
| `writer_pending` | `PendingCoversHeldRows` fails | one request over two batches |
| `buffers` | `TypeOK`, `StoredIntact`, `EncodersHeldOnce` | three batches of up to three rows, two connections; storage that doubles and is given up |
| `connection_recovery` | `TypeOK`, `RecoveryOwned`, `CopyOnConfiguredClient`, `RecoverySettles` under fairness | four clients, three runs of `reconnect()`, shutdown |
| `connection_usable` | `HealthyIsUsable` fails | as above, no shutdown |
| `retention_sweeps` | `TypeOK`, `KnownMatchesCatalog`, `LookaheadCoversToday`, `KeepsRetainedDays`, `ExpiredGoWhileConnected` under fairness | one flush, two sweeps, a midnight, lock timeouts, a restart, a lost connection |
| `retention_lost` | `ExpiredAreDropped` fails under fairness | the connection may be lost |
| `instances` | `TypeOK`, `MigratesAlone`, `IdsNeverReissued`, `RowsKeepTheirService`, `BootsComplete` under fairness | two instances, two migrations, two names, two blocks, one death, crash or failed registration, failing fetches, synchronous commit |
| `queries` | `TypeOK`, `TimesReadRight`, `PagesDescend`, `NothingMissed`, `NullExactlyAtEnd`, `NamesAreTrue`, `AggregateExact` | five entries around the midnight after 29 February, one of them too far ahead, and one from 1600; nineteen requests |
| `http` | `TypeOK`, `AnswersTellTheTruth`, `RateBounded`, `CleanExitAnswersAll`, `ShutdownEnds`, `HandlersEnd` under fairness | two clients, two of fourteen requests, every fault of the database, every combination of authentication and limiter |
| `poison` | `OneBadEntryNeverFailsBatch` fails | two requests, one with U+0000 in an entry |

`PROJECT.json` names the configuration of each run. Every property of a passing run is
also checked to be violated by a plausible bug in the code it is about: the operators
commented as variants (`CopyFailed_Retry`: retry a COPY of unknown outcome;
`ListDone_Inclusive`: an off-by-one in the cutoff, and so on). Deadlock is checked where the
system cannot stop; the runs with `CHECK_DEADLOCK FALSE` end in a stopped process, or with the bounded
supply of batches, requests or blocks used up.

What the runs show:

* A request is acknowledged only when each batch it touched has committed, so with
  synchronous commit acknowledged rows survive crashes, and the writer refines
  `DurableIngest`. Every admitted request is answered, whether its ids, its COPY or the
  connection fail, unless the service stops with no writer connected.
* `pendingRows` is exact for the requests in flight, but not for the rows held:
  a request with rows in two batches gives all of them back when the first fails.
* A pooled encoder may be overwritten while the socket still sends a failed COPY's view of it.
  The rows of other batches are not affected and nothing wrong is committed, because the server has
  given that COPY up by then and reads past what is left of it. Retrying a COPY with
  the encoder released, or reusing an encoder without `reset()`, would store wrong rows.
* Two runs of `reconnect()` can overlap. Recovery still settles, but in between a writer counted
  healthy may have an ended client, and the batches dispatched to it fail.
* Partitions are created ahead of midnight and never dropped early, also when a
  sweep waits past midnight or overlaps another one; expired ones go in the end, as long as the partition
  connection is there. It is not replaced when lost: sweeps fail and retention ends until a restart.
* Instances may start together and die anywhere: each migration runs once, names and
  ids stay unique, and all of them are ready in the end.
* Timestamps are read alike by both paths, to the microsecond (but see below); pages neither skip nor repeat rows
  that were there all along, ties and rows of one millisecond included; `next_cursor` is null exactly at the end; each row is
  counted in one bucket, and an unaligned range may return one bucket more than the ceiling.
* A 200 means that exactly the acceptable entries are committed, and an answer that
  blames the client that none is. A client that leaves frees its handler, a shutdown ends
  within its timer and reports success only when nobody was cut off. Every handler ends, with a body that
arrives, its client's end, a timer or the process. An entry with U+0000
  passes validation and fails every request of its COPY.

Disagreements met while modelling that have no run of their own:

* With the default, `synchronous_commit = off`, a crash of the database loses acknowledged rows; the
  README of the service says so under its limitations.
* Unique ids rest on the server's `synchronous_commit`, which `postgresql.conf` turns off for the
  sessions that call `nextval()`: after a crash of the database a block can be given out twice
  (`IdsNeverReissued` fails with `ServerSync = FALSE`), whatever a comment in `ids.ts` says of restarts.
* A request that waited for ids beside another one may wait on a batch that has none of
  its rows, and fail with it.
* A flush of backdated rows that consults the cache while a sweep drops their day
  puts them into `logs_default`, where they keep the partition from being
  created again.
* A service another instance has registered is unknown to a filter of this one until an
  entry or another query teaches it (`blind` in `Queries`).
* `Date.UTC` takes the years 0 to 99 for 1900 to 1999 (`DateUTC` in `Timestamps`; no input of the run is from those years).
* 24:00 is an hour at midnight only, but `Date.parse` is given three digits of the fraction, so
  24:00:00.0001 is taken for an instant of the next day (no input of the run has one).
* Microseconds are doubles: of instants before 1684 (and, among bounds of ranges and cursors, after 2255) odd
  microseconds are lost, and the difference to PostgreSQL's epoch loses those of rows from before 1714. `next_cursor` of a page
  that ends before 1684 is no safe integer: the service refuses its own cursor with a 400 (`BadCursor`; one
  request of the run brings such a cursor).
* A range whose bound is in the year 0, before it or after 9999 is accepted, and PostgreSQL refuses the literal: 500.
* An uncompressed body over the limit is meant to be answered 413, but its connection is destroyed first:
  the client sees it closed. A compressed one has its 413, as `pipeline()` gives the socket back before it destroys
  the request. A corrupt compressed body is the client's fault and a 500 all the same.
* A comment in `index.ts` says that the server begins listening early and answers 503 on
  `/health` until migrations and the writer are done; it begins after them, before the first sweep.

### Bounds

`MCIngestWriter`: up to three requests of one to three rows; batches of two rows and id
blocks of two (one-row batches for two connections), so
that requests split over batches by rows, by bytes and by exhausted blocks, share
batches, share a fetch and meet a full queue. Every batch consumes an identity, and
four or five are enough for each request's batches and an empty one. In
`writer_pool` the service stops and then nothing is left to do, so
deadlock is not checked there. `WriterConnection`: a run of
`reconnect()` starts only when one of the `MaxRuns` is free and a client is left for
it; three runs are one more than the two that can disturb each other, and four clients cover the writer's,
the one of a COPY and two being connected. Client identities nothing refers to are
used again, so the model runs for ever. `Retention`: retention of one day, day 2 first and day 3 last, so day 0
expires at once or day 1 with midnight; days are numbered up to the lookahead
after the last; a batch has rows of an expired day, of today, or of a range with a gap; one
restart, one connection loss per life of the process.

`Instances`: two processes are enough for every race over the lock, a name
and the sequence; two migrations let one die between them; two blocks of two ids
are fetched by two processes at once or by one after another, an answer lost or not; one fault may come at any point. A third block adds
states and nothing new: the run passes with it, in minutes.
`Queries`: two rows share a millisecond, two an instant on the hour, one is just
too far ahead, and one is read from 24:00 of a day with an offset, and one from 1600 is beyond the safe integers; page sizes of one and two put every tie at a page boundary. `HttpService`:
two clients share a COPY or compete for one token; two requests see the bucket empty, and refilled after one tick,
and each may have two entries to store, in one COPY or in two with different fates; every route and every
way to be refused is among the fourteen. `CopyBuffers`: buffers of
four cells, so that one row fits and two make the storage grow, in the middle of a batch or
at its trailer; three batches on two connections let an encoder be used again while two
views are on the wire; the pool then has room for all
of them, so an encoder dropped for want of room does not occur (it is only garbage).

### Fairness

`IngestWriter`: weak fairness of what the event loop runs (continuations, armed timers)
and of the answer to each query, by its reply or by an error. Nothing is assumed of a lost
connection: it may stay lost. `WriterConnection`: weak fairness of each run of
`reconnect()`, since `connect()` and the `SET` end one way or the other and the retry timer fires;
nothing on outages, `RecoverySettles` takes the end of the outages as its premise. `Retention`: weak fairness of
the interval timer, of answers and of COPYs; and strong fairness of dropping each day, for a
`DROP` that is tried at every sweep finds the locks free at some try (a COPY lasts a fraction of a
second, `lock_timeout` is 5 s). `Instances`: weak
fairness of each process's start (containers are restarted, statements are answered) and of the end of
orphaned sessions; strong fairness of taking the lock, which PostgreSQL grants in the order of requests.
`HttpService`: weak fairness of the answers to statements and COPYs (`IngestWriter` shows that they end or
time out, until `stop()` drops what is left), of `requestTimeout` and of the timer that forces the exit; nothing is asked of clients:
no body need arrive and no connection be closed. `Queries` and `CopyBuffers` state no liveness.

## Proofs

All theorems hold for every value of the constants that satisfies the module's named assumption
(`ConstantsAssumption`, `HttpAssumption`, `InstancesAssumption`, ...), which every run
evaluates. Two further assumptions appear in theorems, where the code needs
them: `SyncCommit` (the ingest connections commit synchronously) and `ServerSync` (all sessions do).

**`IngestWriter`.** `TypeCorrect`; `AckedAreStored` (with `SyncCommit`); `FlushedBatchesFrozen`;
`BatchesAreHeldOnce` (`Custody`); `NobodyIsStranded` (`NoStrandedBatch`);
`OpenBatchIsReleased` (`IdleReleasesOpenBatch`); `RowsAreStoredOnce` (`StoredAtMostOnce`);
`PendingIsExact` (`PendingMatches`);
`GroupCommitKeepsContract` (with `SyncCommit`): the refinement of `DurableIngest`.

* `AckedStored` is not inductive: nothing in it says that a batch which is
  resolved, or whose reply has arrived, has been committed. `TypeInv /\ SafetyInv` adds
  `JobPhase` (a writer is idle exactly when it has
  no batch), `RowsPlaced` (the rows a request has written are in batches it touched, and
  only a request that has written all of them waits), `OpenNotSealed` (what is queued or
  copied is closed, so rows only enter open batches), `EncoderCount` (a batch counted empty is empty, so that
  `flush()` may resolve it without a COPY), `ResolvedStored` and `NothingVolatile`.
* `HandsInv` says who holds what: the queue and the writers hold flushed batches only,
  each once, and every flushed batch is held. Lemmas on `Dispatch` (`HandsOver`: the
  first batches go to the idle writers, one each) carry it, and `IdleInv`, through every action that
  calls it.
* `CopyInv`: a batch that is executing or visible has left the queue and does not wait for its COPY again, so
  no COPY runs twice; `RowsInv`: rows are numbered by what their request has
  written, so no two batches share one.
* `PendingInv`: only finitely many requests are in flight at a time, and `pendingRows` is the sum of
  their rows. The sum is a fold over a set; that adding or removing one request changes it by that
  request's rows is proved once (`TotalAdd`, `TotalRemove`) from the definition of the fold.
* `PlacedInv`: an acknowledged request has no row outside resolved batches. With
  it each step of the writer is a step of the contract or a stutter: an answer, a
  commit of rows whose requests wait or have failed, or nothing a client sees (`NextMaps`).

**`Instances`.** `TypeCorrect`, `MigrationsRunOnce` (`MigratesAlone`) without further
assumption; `SchemaIsThere`, `IdsAreUnique`, `NamesAgree`, `RowsAreAttributed` with
`ServerSync`. `BootInv`: the applied files are a prefix of all files, in the database and in what a crash leaves of it; whoever
is past the lock holds it; whoever migrates knows what is applied. `SyncInv`: a crash takes nothing back.
`IdPlaces`: an id that has left the sequence is in one place at most, in one process's block, on
its way to one, or used. `NameInv` bounds ids by the sequence of the services table.

**`HttpService`.** `TypeCorrect`, `RateIsBounded`, `AnswersAreTrue`, `ScopesAreHonoured`,
`CleanExitIsComplete` (`CleanExitAnswersAll`).
`RateBounded` speaks of pairs of past admissions; `BucketInv` ties them to the state: the
tokens left and the requests admitted since any one of them are paid for by the burst and the
time since. `Honest` relates what a handler waits for to what it has stored and said.
`ExitInv`: nobody is cut off before the exit, and once `server.close()` has called back there is
no connection left, nor will there be one.

**`WriterConnection`.** `TypeCorrect`, `UnhealthyIsOwned` (`RecoveryOwned`),
`CopiesAreConfigured`. `ClientInv`: a run's client is in the state the run is in, and no two
runs share one; `OwnerInv`: not only an unhealthy writer, one that says it is
reconnecting has a run too, which is why the listener may rely on the flag.

**`Retention`.** `TypeCorrect`, `RetainedDaysAreKept`, `CacheAgrees`, `MidnightIsPrepared`.
`CutoffInv`: a sweep's cutoff and everything on its list are old enough already, and time only helps;
`KnownInv`: what may be known without a partition; `RangeInv`: how much of its range a sweep has put into the cache, midnight passing
meanwhile;
`AheadInv`: once ready, the days up to tomorrow are known.

**`CopyBuffers`.** `BuffersTypeCorrect`, `EncodersHaveOneHolder` (`EncodersHeldOnce`),
`StoredRowsAreIntact` (`StoredIntact`).

* `EncoderInv`: an encoder that has been made is in the pool or with one live batch, never both;
  `HolderInv`: a closed live batch is in the queue or with one writer, once.
* `DataInv` is what `StoredIntact` needs: the encoder of each batch holds the header and its rows
  so far, and the whole payload while its COPY is awaited; and each socket is in one of three
  states, with no COPY (`NoCopy`), with one not yet begun (`CopyWaits`) or with one of which the server
  has exactly what was sent (`CopyFlows`). A view of storage that is used again is then always one
  the server has given up (`Stale`): it is sent to its end and dropped.
* Lemmas on the encoder: doubling reaches any size (`DoublingReaches`), so `ensure()` makes room
  (`EnsureMakesRoom`) and keeps what is written; `RowsAppend` and `FinishedAppends` say what a round of the
  row loop and `finish()` leave in the storage, whatever it held before.

**`Timestamps`.** `ReadsRight`: for every text, the digit-by-digit path and the one through
`Date.parse` give the instant the calendar says (`CivilDay` against `DayNumber`: `DayNumbersAgree`), and none
if it says none. `ReadAsWritten` excepts the three kinds of text for which that is false: those of
the years 0 to 99 on the fast path; 24:00 with a fraction that is below a millisecond and not zero; and those that denote
an instant no double holds (`Held`: odd microseconds from before 1684 or after 2255, coarser ones farther away). That the others
come through a product and a sum of doubles unharmed is proved from `Rounding`.

**`Queries`.** `QueriesTypeCorrect`, `NamesStayTrue` (`NamesAreTrue`) without further
hypothesis; `TimesStayRight` (`TimesReadRight`), `PagesGoBack` (`PagesDescend`), `WalksMissNothing`
(`NothingMissed`), `CursorEndsWalk` (`NullExactlyAtEnd`), `AggregatesAreExact` (`AggregateExact`) under
`AllReadAsWritten`: no text of an entry or a request is of those three kinds, and no entry's loses microseconds to PostgreSQL's epoch
(`KeptAsRead`, from before 1714). It is a hypothesis of the theorems and not an assumption of the module, since the code does not enforce it; the instance of the run satisfies it.

* A row is a function of its entry (`RowOf`, `DataInv`), so what is read at different times can be compared
  by ids; `RequestInv` says what is known of the request in each phase, `KnownInv` that a request that was
  served named a known service.
* `PageInv`: what the statement returned are the first rows of the snapshot after the cursor, at most one
  more than the limit. `WalkInv`: the rows so far descend, and the cursor names the last one. `SteadyInv`: a row
  that was there all along has been seen or follows the last one; this is what makes `NothingMissed`
  inductive. `EndInv` keeps what an answer said of its snapshot.
* `GroupsInv`: the rows of an aggregate list the keys of the snapshot's rows in order, each with
  the number of its ids. `BucketHolds`: `date_bin` puts an instant into the bucket that contains it;
  `BucketIndex` and `FewBuckets`: the starts that a range touches are at most one more than `bucketCount`.
* ORDER BY is a choice of a sequence that lists a set in an order (`IsListing`); `PlacesList` shows that there is
  one.

`SchemaIsThere` (`SchemaBeforeService`), `NamesAgree` (`DictionariesAgree`) and
`ScopesAreHonoured` (`ScopesHonoured`) state properties no run lists: the proofs are their check, and
`RowsKeepTheirService` rests on the second.

Only model-checked: the liveness properties (`RequestsAnswered`, `RecoverySettles`,
`ExpiredGoWhileConnected`, `BootsComplete`, `ShutdownEnds`, `HandlersEnd`), which are out of the
prover's reach. Every other property of a passing run is a theorem.

## Not modelled

Configuration parsing (its values are constants), the logger, metrics and the
bodies of status replies; the binary layout of a COPY row and its 64-bit words; the
queue of the query pool; two throws no run of the program reaches (under `IngestWriter` and `Retention`); the base64 text of cursors; SQL operators on words and JSON beyond
membership. `loadtest/` is a client of the service.

## Plan

Done: the ingest writer with its contract, its connections, partitions and retention, instances
over one database, queries, the HTTP side and the lifecycle, the buffers, and the proofs above.

Left:

1. As theorems: what does hold of `pendingRows` against the rows held (the sound part of
   `PendingCoversHeldRows`), and an abstract specification of the walk, a listing of a set that
   grows and shrinks, which `Queries` implements.
2. The query pool with its queue and timeouts, shared by ingestion, queries and readiness.
3. Two instances in `Queries`, each with its own dictionary and entries.
