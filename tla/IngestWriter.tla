---------------------------- MODULE IngestWriter ----------------------------
(***************************************************************************)
(* The group-commit writer of src/ingest/writer.ts.                        *)
(*                                                                         *)
(* A POST /logs request hands its validated rows to append().  append()    *)
(* admits or sheds the request, copies its rows into the one open batch    *)
(* (spilling into further batches when a batch fills or the id block runs  *)
(* out) and then waits for every batch it touched.  A batch leaves the     *)
(* open state when it is full, when its timer fires or when the pipeline   *)
(* is idle; dispatch() gives queued batches to idle connections, runCopy() *)
(* streams one to PostgreSQL, and the watchdog fails batches no connection *)
(* takes.                                                                  *)
(*                                                                         *)
(* The program runs on one JavaScript thread.  A step of the model is a    *)
(* stretch of code between two awaits, or one round of append()'s loop.    *)
(* "micro" holds the requests whose continuations are queued on the thread *)
(* (FIFO, the head is running), and an event of the outside world -- a     *)
(* timer, a reply, a new request -- is taken only once that queue and the  *)
(* settled requests are drained (Quiet).  The database commits, aborts,    *)
(* flushes its log and crashes by itself; those steps touch nothing the    *)
(* thread reads within a turn, so they too are taken between turns.        *)
(***************************************************************************)
EXTENDS Integers, Sequences, FiniteSets, FiniteSetsExt

CONSTANTS
  Requests,       \* the POST /logs calls that reach append()
  Count,          \* rows in each request
  RowBytes,       \* encoded size of a row of each request
  NewService,     \* requests that name a service not yet in the dictionary
  NumWriters,     \* config.ingest.writerConnections
  Batches,        \* identities for batches, used in increasing order
  MaxBatchRows,   \* config.ingest.maxBatchRows
  MaxBatchBytes,  \* MAX_BATCH_BYTES
  MaxPendingRows, \* config.ingest.maxPendingRows
  BlockSize,      \* ids per nextval of logs_id_seq
  SyncCommit,     \* whether config.synchronousCommit waits for the WAL flush
  CanCrash,       \* whether the database may crash and restart
  CanStop         \* whether the service may be told to stop

NoBatch == 0

ASSUME ConstantsAssumption ==
  /\ Count \in [Requests -> Nat \ {0}]
  /\ RowBytes \in [Requests -> Nat \ {0}]
  /\ NewService \subseteq Requests
  /\ NumWriters \in Nat \ {0}
  /\ Batches \subseteq Nat \ {NoBatch}
  /\ MaxBatchRows \in Nat \ {0}
  /\ MaxBatchBytes \in Nat \ {0}
  /\ MaxPendingRows \in Nat
  /\ BlockSize \in Nat \ {0}
  /\ SyncCommit \in BOOLEAN
  /\ CanCrash \in BOOLEAN
  /\ CanStop \in BOOLEAN

Writers == 1..NumWriters

VARIABLES
  pc,           \* where each request is in append()
  written,      \* rows of each request placed in a batch so far
  touched,      \* batches each request will wait on
  micro,        \* requests with a continuation queued on the thread
  remaining,    \* IdAllocator.remaining
  idWaiters,    \* requests inside ensureAvailable(); the first one fetches
  bstate,       \* none, open, flushed, resolved or rejected
  content,      \* rows in each batch's encoder
  nrows,        \* encoder.rows
  bytes,        \* encoder.byteLength
  openBatch,    \* this.openBatch
  queue,        \* this.queue
  flushSoon,    \* whether the setImmediate of scheduleAdaptiveFlush is armed
  pendingRows,  \* this.pendingRows
  stopped,      \* this.stopped
  conn,         \* up, down (healthy = false) or ended by our own side
  stray,        \* whether a second reconnect() runs for the writer
  job,          \* the batch a busy writer is copying
  phase,        \* idle, ensure, copy, ack, error or broken
  executing,    \* batches whose COPY the database is running
  visible,      \* committed copies of each batch a query would see
  durable       \* committed copies that have reached the flushed WAL

requestVars == <<pc, written, touched>>
idVars      == <<remaining, idWaiters>>
batchVars   == <<bstate, content, nrows, bytes, openBatch>>
writerVars  == <<queue, job, phase>>
connVars    == <<conn, stray>>
serverVars  == <<executing, visible, durable>>
controlVars == <<flushSoon, pendingRows, stopped>>
vars == <<requestVars, micro, idVars, batchVars, writerVars, connVars,
          serverVars, controlVars>>

Row == Requests \X Nat

PcValues == {"new", "registering", "loop", "fetching", "granted", "awaiting",
             "aborting", "acked", "failed", "shed", "refused"}

TypeOK ==
  /\ pc \in [Requests -> PcValues]
  /\ written \in [Requests -> Nat]
  /\ touched \in [Requests -> SUBSET Batches]
  /\ micro \in Seq(Requests)
  /\ remaining \in 0..BlockSize
  /\ idWaiters \in Seq(Requests)
  /\ bstate \in [Batches -> {"none", "open", "flushed", "resolved", "rejected"}]
  /\ content \in [Batches -> SUBSET Row]
  /\ nrows \in [Batches -> 0..MaxBatchRows]
  /\ bytes \in [Batches -> Nat]
  /\ openBatch \in Batches \cup {NoBatch}
  /\ queue \in Seq(Batches)
  /\ flushSoon \in BOOLEAN
  /\ pendingRows \in Int
  /\ stopped \in BOOLEAN
  /\ conn \in [Writers -> {"up", "down", "ended"}]
  /\ stray \in [Writers -> BOOLEAN]
  /\ job \in [Writers -> Batches \cup {NoBatch}]
  /\ phase \in [Writers -> {"idle", "ensure", "copy", "ack", "error", "broken"}]
  /\ executing \in SUBSET Batches
  /\ visible \in [Batches -> Nat]
  /\ durable \in [Batches -> Nat]

Init ==
  /\ pc = [r \in Requests |-> "new"]
  /\ written = [r \in Requests |-> 0]
  /\ touched = [r \in Requests |-> {}]
  /\ micro = <<>>
  /\ remaining = 0
  /\ idWaiters = <<>>
  /\ bstate = [b \in Batches |-> "none"]
  /\ content = [b \in Batches |-> {}]
  /\ nrows = [b \in Batches |-> 0]
  /\ bytes = [b \in Batches |-> 0]
  /\ openBatch = NoBatch
  /\ queue = <<>>
  /\ flushSoon = FALSE
  /\ pendingRows = 0
  /\ stopped = FALSE
  /\ conn = [w \in Writers |-> "up"]
  /\ stray = [w \in Writers |-> FALSE]
  /\ job = [w \in Writers |-> NoBatch]
  /\ phase = [w \in Writers |-> "idle"]
  /\ executing = {}
  /\ visible = [b \in Batches |-> 0]
  /\ durable = [b \in Batches |-> 0]

-----------------------------------------------------------------------------
(* The event loop. *)

Running(r) == micro # <<>> /\ Head(micro) = r

SomeRejected(r) == \E b \in touched[r] : bstate[b] = "rejected"
\* Variant: Promise.any in place of Promise.all.
AllResolved_Any(r) == \E b \in touched[r] : bstate[b] = "resolved"

AllResolved(r) == \A b \in touched[r] : bstate[b] = "resolved"

\* The promise append() is waiting on has settled: its continuation runs before
\* the next event.
Settled(r) == \/ pc[r] = "aborting"
              \/ pc[r] = "awaiting" /\ (SomeRejected(r) \/ AllResolved(r))

Quiet == micro = <<>> /\ \A r \in Requests : ~Settled(r)

-----------------------------------------------------------------------------
(* Batches, the queue and the connections. *)

\* The writer.healthy flag; ending a client does not clear it.
Healthy(w) == conn[w] # "down"

\* The batch currentBatch() returns: the open one, else a new one.
IsCurrentBatch(b) ==
  IF openBatch # NoBatch
  THEN b = openBatch
  ELSE bstate[b] = "none" /\ \A c \in Batches : bstate[c] = "none" => b <= c

\* dispatch(): the k-th idle healthy writer, in index order, takes the k-th
\* queued batch.  q is the queue and j the jobs when dispatch is called, and up
\* the healthy writers.
Dispatch(q, j, up) ==
  LET idle    == {w \in up : j[w] = NoBatch}
      rank(w) == Cardinality({v \in idle : v <= w})
      takes(w) == w \in idle /\ rank(w) <= Len(q)
  IN /\ job' = [w \in Writers |-> IF takes(w) THEN q[rank(w)] ELSE j[w]]
     /\ phase' = [w \in Writers |-> IF takes(w) THEN "ensure"
                                    ELSE IF j[w] = NoBatch THEN "idle"
                                    ELSE phase[w]]
     /\ queue' = SubSeq(q, Cardinality(idle) + 1, Len(q))

HealthyWriters == {w \in Writers : Healthy(w)}

SystemIdle == /\ queue = <<>>
              /\ \A w \in Writers : job[w] = NoBatch
              /\ \E w \in Writers : Healthy(w)

OpenHasRows == openBatch # NoBatch /\ nrows[openBatch] > 0

\* scheduleAdaptiveFlush(), called at the end of a step: it looks at the queue,
\* the writers and the open batch as the step leaves them.
ScheduleAdaptiveFlush ==
  flushSoon' = (flushSoon \/ (~stopped /\ SystemIdle' /\ OpenHasRows'))

\* Variant: flush() leaves this.openBatch in place.
Flush_KeepOpen(b, n) ==
  /\ n > 0
  /\ openBatch' = openBatch
  /\ bstate' = [bstate EXCEPT ![b] = "flushed"]
  /\ Dispatch(Append(queue, b), job, HealthyWriters)

\* flush(b) for the open batch b holding n rows.  The dispatch it ends in leaves
\* flushSoon alone: there is no open batch any more.
Flush(b, n) ==
  /\ openBatch' = NoBatch
  /\ IF n = 0
     THEN /\ bstate' = [bstate EXCEPT ![b] = "resolved"]
          /\ UNCHANGED writerVars
     ELSE /\ bstate' = [bstate EXCEPT ![b] = "flushed"]
          /\ Dispatch(Append(queue, b), job, HealthyWriters)
-----------------------------------------------------------------------------
(* append(). *)

\* Admission: refused after stop(), shed when the pending rows would pass the
\* cap, else counted and started.
Append_Refuse(r) ==
  /\ Quiet /\ pc[r] = "new" /\ stopped
  /\ pc' = [pc EXCEPT ![r] = "refused"]
  /\ UNCHANGED <<written, touched, micro, idVars, batchVars, writerVars,
                 connVars, serverVars, controlVars>>

Append_Shed(r) ==
  /\ Quiet /\ pc[r] = "new" /\ ~stopped
  /\ pendingRows + Count[r] > MaxPendingRows
  /\ pc' = [pc EXCEPT ![r] = "shed"]
  /\ UNCHANGED <<written, touched, micro, idVars, batchVars, writerVars,
                 connVars, serverVars, controlVars>>

Append_Admit(r) ==
  /\ Quiet /\ pc[r] = "new" /\ ~stopped
  /\ pendingRows + Count[r] <= MaxPendingRows
  /\ pendingRows' = pendingRows + Count[r]
  /\ IF r \in NewService
     THEN /\ pc' = [pc EXCEPT ![r] = "registering"]
          /\ UNCHANGED micro
     ELSE /\ pc' = [pc EXCEPT ![r] = "loop"]
          /\ micro' = <<r>>
  /\ UNCHANGED <<written, touched, idVars, batchVars, writerVars, connVars,
                 serverVars, flushSoon, stopped>>

\* The reply to services.register(): the names are known now, or the query
\* failed and append() throws.
Registered(r) ==
  /\ Quiet /\ pc[r] = "registering"
  /\ pc' = [pc EXCEPT ![r] = "loop"]
  /\ micro' = <<r>>
  /\ UNCHANGED <<written, touched, idVars, batchVars, writerVars, connVars,
                 serverVars, controlVars>>

RegisterFailed(r) ==
  /\ Quiet /\ pc[r] = "registering"
  /\ pc' = [pc EXCEPT ![r] = "aborting"]
  /\ UNCHANGED <<written, touched, micro, idVars, batchVars, writerVars,
                 connVars, serverVars, controlVars>>

\* No ids left: await ids.ensureAvailable().  The first caller starts the fetch,
\* later ones await the same promise.
NeedIds(r) ==
  /\ Running(r) /\ pc[r] = "loop"
  /\ written[r] < Count[r] /\ remaining = 0
  /\ pc' = [pc EXCEPT ![r] = "fetching"]
  /\ idWaiters' = Append(idWaiters, r)
  /\ micro' = Tail(micro)
  /\ UNCHANGED <<written, touched, remaining, batchVars, writerVars, connVars,
                 serverVars, controlVars>>

\* Variant: the room left in the batch is not looked at.
ChunkSize_NoRowCap(r, b) == Min({Count[r] - written[r], remaining})

\* Rows of r that go into batch b in one round of the loop.
ChunkSize(r, b) ==
  Min({Count[r] - written[r], remaining, MaxBatchRows - nrows[b]})

\* One round of the loop: a chunk of rows goes into the current batch.  A caller
\* back from ensureAvailable() does not look at the ids again, and an earlier
\* waiter may have used the block up: its chunk is then empty.
DepositChunk(r) ==
  /\ Running(r)
  /\ written[r] < Count[r]
  /\ pc[r] = "granted" \/ (pc[r] = "loop" /\ remaining > 0)
  /\ pc' = [pc EXCEPT ![r] = "loop"]
  /\ \E b \in Batches :
       /\ IsCurrentBatch(b)
       /\ \E take \in {ChunkSize(r, b)} :
            /\ written' = [written EXCEPT ![r] = @ + take]
            /\ remaining' = remaining - take
            /\ content' = [content EXCEPT ![b] =
                 @ \cup {<<r, i>> : i \in written[r] + 1 .. written[r] + take}]
            /\ nrows' = [nrows EXCEPT ![b] = @ + take]
            /\ bytes' = [bytes EXCEPT ![b] = @ + take * RowBytes[r]]
            /\ touched' = [touched EXCEPT ![r] = @ \cup {b}]
            /\ \/ /\ nrows'[b] >= MaxBatchRows \/ bytes'[b] >= MaxBatchBytes
                  /\ Flush(b, nrows'[b])
                  /\ UNCHANGED flushSoon
               \/ /\ nrows'[b] < MaxBatchRows /\ bytes'[b] < MaxBatchBytes
                  /\ bstate' = [bstate EXCEPT ![b] = "open"]
                  /\ openBatch' = b
                  /\ UNCHANGED <<writerVars, connVars>>
                  /\ ScheduleAdaptiveFlush
  /\ UNCHANGED <<micro, idWaiters, connVars, serverVars, pendingRows, stopped>>

\* Every row is placed: await the promises of the touched batches.
AllWritten(r) ==
  /\ Running(r) /\ pc[r] = "loop"
  /\ written[r] = Count[r]
  /\ pc' = [pc EXCEPT ![r] = "awaiting"]
  /\ micro' = Tail(micro)
  /\ UNCHANGED <<written, touched, idVars, batchVars, writerVars, connVars,
                 serverVars, controlVars>>

\* append() returns or throws; its finally block gives the rows back.
Finish_Acked(r) ==
  /\ pc[r] = "awaiting" /\ AllResolved(r)
  /\ pc' = [pc EXCEPT ![r] = "acked"]
  /\ pendingRows' = pendingRows - Count[r]
  /\ UNCHANGED <<written, touched, micro, idVars, batchVars, writerVars,
                 connVars, serverVars, flushSoon, stopped>>

\* Variant: the rows are given back on success only.
Finish_Failed_Leak(r) ==
  /\ pc[r] = "aborting" \/ (pc[r] = "awaiting" /\ SomeRejected(r))
  /\ pc' = [pc EXCEPT ![r] = "failed"]
  /\ UNCHANGED <<written, touched, micro, idVars, batchVars, writerVars,
                 connVars, serverVars, controlVars>>

Finish_Failed(r) ==
  /\ pc[r] = "aborting" \/ (pc[r] = "awaiting" /\ SomeRejected(r))
  /\ pc' = [pc EXCEPT ![r] = "failed"]
  /\ pendingRows' = pendingRows - Count[r]
  /\ UNCHANGED <<written, touched, micro, idVars, batchVars, writerVars,
                 connVars, serverVars, flushSoon, stopped>>

-----------------------------------------------------------------------------
(* IdAllocator.fetchBlock(). *)

\* The block arrives and every waiter's continuation is queued, in the order
\* they started to wait.
BlockArrived ==
  /\ Quiet /\ idWaiters # <<>>
  /\ remaining' = BlockSize
  /\ pc' = [r \in Requests |-> IF pc[r] = "fetching" THEN "granted" ELSE pc[r]]
  /\ micro' = idWaiters
  /\ idWaiters' = <<>>
  /\ UNCHANGED <<written, touched, batchVars, writerVars, connVars, serverVars,
                 controlVars>>

\* Variant: only the caller that started the fetch sees it fail.
BlockFailed_InitiatorOnly ==
  /\ Quiet /\ idWaiters # <<>>
  /\ pc' = [pc EXCEPT ![Head(idWaiters)] = "aborting"]
  /\ idWaiters' = <<>>
  /\ UNCHANGED <<written, touched, micro, remaining, batchVars, writerVars,
                 connVars, serverVars, controlVars>>

\* The query fails: every waiter's append() throws.
BlockFailed ==
  /\ Quiet /\ idWaiters # <<>>
  /\ pc' = [r \in Requests |-> IF pc[r] = "fetching" THEN "aborting" ELSE pc[r]]
  /\ idWaiters' = <<>>
  /\ UNCHANGED <<written, touched, micro, remaining, batchVars, writerVars,
                 connVars, serverVars, controlVars>>

-----------------------------------------------------------------------------
(* Timers. *)

\* The open batch's own timer, its upper bound on waiting.
FlushTimer ==
  /\ Quiet /\ openBatch # NoBatch
  /\ Flush(openBatch, nrows[openBatch])
  /\ UNCHANGED <<requestVars, micro, idVars, content, nrows, bytes, connVars,
                 serverVars, controlVars>>

\* The setImmediate: flush what is open by now, if it holds rows.
FlushSoon ==
  /\ Quiet /\ flushSoon
  /\ flushSoon' = FALSE
  /\ IF OpenHasRows
     THEN Flush(openBatch, nrows[openBatch])
     ELSE UNCHANGED <<bstate, openBatch, writerVars>>
  /\ UNCHANGED <<requestVars, micro, idVars, content, nrows, bytes, connVars,
                 serverVars, pendingRows, stopped>>

\* Variant: a batch that has timed out stays in the queue.
Watchdog_NoSplice ==
  /\ Quiet /\ ~stopped
  /\ queue # <<>> /\ bstate[Head(queue)] = "flushed"
  /\ bstate' = [bstate EXCEPT ![Head(queue)] = "rejected"]
  /\ UNCHANGED <<requestVars, micro, idVars, content, nrows, bytes, openBatch,
                 writerVars, connVars, serverVars, controlVars>>

\* failStalledBatches(): the entries queued long enough, oldest first, are
\* rejected.  How long is not modelled: any prefix may be due.
Watchdog ==
  /\ Quiet /\ ~stopped
  /\ \E n \in 1..Len(queue) :
       /\ queue' = SubSeq(queue, n + 1, Len(queue))
       /\ bstate' = [b \in Batches |->
            IF \E i \in 1..n : queue[i] = b THEN "rejected" ELSE bstate[b]]
  /\ UNCHANGED <<requestVars, micro, idVars, content, nrows, bytes, openBatch,
                 job, phase, connVars, serverVars, controlVars>>

-----------------------------------------------------------------------------
(* runCopy() and the connections. *)

\* The partitions exist: the payload goes to the writer's client.  A client that
\* is not connected refuses the COPY and the database never sees it.
EnsureDone(w) ==
  /\ Quiet /\ phase[w] = "ensure"
  /\ IF conn[w] = "up"
     THEN /\ phase' = [phase EXCEPT ![w] = "copy"]
          /\ executing' = executing \cup {job[w]}
     ELSE /\ phase' = [phase EXCEPT ![w] = "broken"]
          /\ UNCHANGED executing
  /\ UNCHANGED <<requestVars, micro, idVars, batchVars, queue, job, connVars,
                 visible, durable, controlVars>>

\* Variant: the dispatch after a COPY does not consider the open batch.
EndCopy_NoSchedule(w, outcome) ==
  /\ bstate' = [bstate EXCEPT ![job[w]] = outcome]
  /\ Dispatch(queue, [job EXCEPT ![w] = NoBatch], HealthyWriters)
  /\ UNCHANGED <<requestVars, micro, idVars, content, nrows, bytes, openBatch,
                 conn, serverVars, controlVars>>

\* The end of runCopy(): settle the batch, free the writer, dispatch.
EndCopy(w, outcome) ==
  /\ bstate' = [bstate EXCEPT ![job[w]] = outcome]
  /\ Dispatch(queue, [job EXCEPT ![w] = NoBatch], HealthyWriters)
  /\ UNCHANGED <<requestVars, micro, idVars, content, nrows, bytes, openBatch,
                 conn, serverVars, pendingRows, stopped>>
  /\ ScheduleAdaptiveFlush

\* The stream's 'finish': the server has reported the commit.
CopyDone(w) ==
  /\ Quiet /\ phase[w] = "ack"
  /\ EndCopy(w, "resolved")
  /\ UNCHANGED stray

\* Variants: a failed COPY is queued again, or its error is swallowed.
CopyFailed_Retry(w) ==
  /\ Quiet /\ phase[w] \in {"error", "broken"}
  /\ Dispatch(Append(queue, job[w]), [job EXCEPT ![w] = NoBatch],
              HealthyWriters)
  /\ UNCHANGED <<requestVars, micro, idVars, batchVars, connVars, serverVars,
                 controlVars>>

CopyFailed_Swallow(w) ==
  /\ Quiet /\ phase[w] \in {"error", "broken"}
  /\ EndCopy(w, "resolved")
  /\ UNCHANGED stray

\* The stream's 'error': refused by the server, or the connection is gone and
\* what the server did is unknown.  There is no retry.  On an unhealthy writer it
\* starts reconnect() beside the one the client's 'error' event started.
CopyFailed(w) ==
  /\ Quiet /\ phase[w] \in {"error", "broken"}
  /\ EndCopy(w, "rejected")
  /\ stray' = [stray EXCEPT ![w] = @ \/ (~Healthy(w) /\ ~stopped)]

\* The client's 'error' event.  The reply to a COPY in flight is lost with it.
ConnLost(w) ==
  /\ Quiet /\ conn[w] = "up"
  /\ conn' = [conn EXCEPT ![w] = "down"]
  /\ phase' = [phase EXCEPT ![w] = IF @ \in {"copy", "ack", "error"}
                                   THEN "broken" ELSE @]
  /\ UNCHANGED <<requestVars, micro, idVars, batchVars, queue, job, stray,
                 serverVars, controlVars>>

\* The second reconnect(): it starts by ending the writer's client, which may be
\* the new one and busy.  More than one such run is not told from one.
StrayEnds(w) ==
  /\ Quiet /\ ~stopped /\ stray[w] /\ conn[w] = "up"
  /\ conn' = [conn EXCEPT ![w] = "ended"]
  /\ phase' = [phase EXCEPT ![w] = IF @ \in {"copy", "ack", "error"}
                                   THEN "broken" ELSE @]
  /\ UNCHANGED <<requestVars, micro, idVars, batchVars, queue, job, stray,
                 serverVars, controlVars>>

\* Variant: the recovered writer waits for the next flush.
Reconnected_NoDispatch(w) ==
  /\ Quiet
  /\ conn[w] = "down" \/ (conn[w] = "ended" /\ stray[w])
  /\ conn' = [conn EXCEPT ![w] = "up"]
  /\ stray' = [stray EXCEPT ![w] = @ /\ conn[w] = "down"]
  /\ UNCHANGED <<requestVars, micro, idVars, batchVars, writerVars, serverVars,
                 controlVars>>

\* reconnect() succeeds: a new client, and a dispatch.
Reconnected(w) ==
  /\ Quiet
  /\ conn[w] = "down" \/ (conn[w] = "ended" /\ stray[w])
  /\ conn' = [conn EXCEPT ![w] = "up"]
  /\ stray' = [stray EXCEPT ![w] = @ /\ conn[w] = "down"]
  /\ Dispatch(queue, job, HealthyWriters \cup {w})
  /\ UNCHANGED <<requestVars, micro, idVars, batchVars, serverVars, pendingRows,
                 stopped>>
  /\ ScheduleAdaptiveFlush

-----------------------------------------------------------------------------
(* PostgreSQL, as far as a COPY is concerned. *)

\* The reply to the COPY of b, if its connection still waits for one.
Reply(b, r) ==
  phase' = [w \in Writers |->
              IF job[w] = b /\ phase[w] = "copy" THEN r ELSE phase[w]]

\* The COPY commits, all rows or none, even when its client has gone away.
ServerCommit(b) ==
  /\ Quiet /\ b \in executing
  /\ executing' = executing \ {b}
  /\ visible' = [visible EXCEPT ![b] = @ + 1]
  /\ durable' = IF SyncCommit THEN [durable EXCEPT ![b] = @ + 1] ELSE durable
  /\ Reply(b, "ack")
  /\ UNCHANGED <<requestVars, micro, idVars, batchVars, queue, job, connVars,
                 controlVars>>

ServerAbort(b) ==
  /\ Quiet /\ b \in executing
  /\ executing' = executing \ {b}
  /\ Reply(b, "error")
  /\ UNCHANGED <<requestVars, micro, idVars, batchVars, queue, job, connVars,
                 visible, durable, controlVars>>

\* The WAL writer catches up with what has been committed.
WalFlush ==
  /\ Quiet /\ durable # visible
  /\ durable' = visible
  /\ UNCHANGED <<requestVars, micro, idVars, batchVars, writerVars, connVars,
                 executing, visible, controlVars>>

\* The database crashes and recovers from its WAL.  Every connection is gone; a
\* reply already sent may still be read first.
DbCrash ==
  /\ CanCrash /\ Quiet
  /\ visible' = durable
  /\ executing' = {}
  /\ conn' = [w \in Writers |-> IF conn[w] = "up" THEN "down" ELSE conn[w]]
  /\ phase' = [w \in Writers |-> IF phase[w] = "copy" THEN "broken" ELSE phase[w]]
  /\ UNCHANGED <<requestVars, micro, idVars, batchVars, queue, job, stray,
                 durable, controlVars>>

-----------------------------------------------------------------------------
(* stop(). *)

\* Refuse new requests, drop the watchdog and the setImmediate, flush what is
\* open.
Stop ==
  /\ CanStop /\ Quiet /\ ~stopped
  /\ stopped' = TRUE
  /\ flushSoon' = FALSE
  /\ IF openBatch # NoBatch
     THEN Flush(openBatch, nrows[openBatch])
     ELSE UNCHANGED <<bstate, openBatch, writerVars>>
  /\ UNCHANGED <<requestVars, micro, idVars, content, nrows, bytes, connVars,
                 serverVars, pendingRows>>

\* The queue is empty and no writer is busy, or ten seconds have passed: the
\* clients are ended, with whatever they were doing.
StopFinish ==
  /\ Quiet /\ stopped
  /\ \E w \in Writers : conn[w] = "up"
  /\ conn' = [w \in Writers |-> IF conn[w] = "up" THEN "ended" ELSE conn[w]]
  /\ phase' = [w \in Writers |-> IF phase[w] \in {"copy", "ack", "error"}
                                 THEN "broken" ELSE phase[w]]
  /\ UNCHANGED <<requestVars, micro, idVars, batchVars, queue, job, stray,
                 serverVars, controlVars>>

-----------------------------------------------------------------------------
RequestStep(r) ==
  \/ Append_Refuse(r) \/ Append_Shed(r) \/ Append_Admit(r)
  \/ Registered(r) \/ RegisterFailed(r)
  \/ NeedIds(r) \/ DepositChunk(r) \/ AllWritten(r)
  \/ Finish_Acked(r) \/ Finish_Failed(r)

WriterStep(w) ==
  \/ EnsureDone(w) \/ CopyDone(w) \/ CopyFailed(w)
  \/ ConnLost(w) \/ StrayEnds(w) \/ Reconnected(w)

Next ==
  \/ \E r \in Requests : RequestStep(r)
  \/ \E w \in Writers : WriterStep(w)
  \/ \E b \in Batches : ServerCommit(b) \/ ServerAbort(b)
  \/ BlockArrived \/ BlockFailed
  \/ FlushTimer \/ FlushSoon \/ Watchdog
  \/ WalFlush \/ DbCrash
  \/ Stop \/ StopFinish

Spec == Init /\ [][Next]_vars

\* The event loop runs what is queued, armed timers fire, and every query is
\* answered in the end, by its reply or by the loss of its connection.  Nothing
\* is assumed of a lost connection: it may never come back.
Fairness ==
  /\ \A r \in Requests :
       /\ WF_vars(NeedIds(r)) /\ WF_vars(DepositChunk(r)) /\ WF_vars(AllWritten(r))
       /\ WF_vars(Finish_Acked(r)) /\ WF_vars(Finish_Failed(r))
       /\ WF_vars(Registered(r) \/ RegisterFailed(r))
  /\ \A w \in Writers :
       WF_vars(EnsureDone(w)) /\ WF_vars(CopyDone(w)) /\ WF_vars(CopyFailed(w))
  /\ \A b \in Batches : WF_vars(ServerCommit(b) \/ ServerAbort(b))
  /\ WF_vars(BlockArrived \/ BlockFailed)
  /\ WF_vars(FlushTimer)
  /\ WF_vars(Watchdog)

FairSpec == Spec /\ Fairness

-----------------------------------------------------------------------------
(* Properties. *)

RowsOf(r) == {<<r, i>> : i \in 1..Count[r]}

\* An answered request: append() returned or threw.
Answered(r) == pc[r] \in {"acked", "failed", "shed", "refused"}

\* A request that append() has counted and not yet answered.
InFlight(r) == pc[r] # "new" /\ ~Answered(r)

\* README.md, POST /logs: a 200 is returned only after the rows have committed,
\* and the service never acknowledges what it has not durably stored.  Every row
\* of an acknowledged request is in the table, whatever connections and the
\* database go through before or after the answer.
AckedStored ==
  \A r \in Requests : pc[r] = "acked" =>
    \A row \in RowsOf(r) : \E b \in Batches : row \in content[b] /\ visible[b] > 0

\* A row is never stored twice: a batch commits at most once (runCopy does not
\* retry a COPY of unknown outcome), its encoder does not hold a row twice, and
\* two batches do not share a row.
StoredAtMostOnce ==
  /\ \A b \in Batches : visible[b] <= 1 /\ Cardinality(content[b]) = nrows[b]
  /\ \A b, c \in Batches : b # c => content[b] \cap content[c] = {}

\* append() takes a request's rows off pendingRows on every way out, so the
\* counter neither leaks, which would shed requests for ever, nor runs below the
\* work in progress; and admission keeps it within the cap.
PendingMatches ==
  /\ pendingRows = MapThenSumSet(LAMBDA r : Count[r], {r \in Requests : InFlight(r)})
  /\ pendingRows <= MaxPendingRows

\* flush, dispatch, runCopy and the watchdog pass a batch from hand to hand: a
\* flushed batch that is not settled is in the queue or with one writer, once,
\* and any other batch is with nobody.  A lost batch would leave its requests
\* without an answer; a doubled one would be copied twice.
Custody ==
  \A b \in Batches :
    Cardinality({i \in 1..Len(queue) : queue[i] = b})
      + Cardinality({w \in Writers : job[w] = b})
    = IF bstate[b] = "flushed" THEN 1 ELSE 0

\* dispatch() is called wherever a batch or a writer becomes available: no batch
\* waits in the queue while a healthy writer has nothing to do.
NoStrandedBatch ==
  queue # <<>> => \A w \in Writers : Healthy(w) => job[w] # NoBatch

\* scheduleAdaptiveFlush() is called wherever the pipeline may become idle: an
\* idle pipeline never leaves rows to wait for the batch timer.
IdleReleasesOpenBatch ==
  SystemIdle /\ OpenHasRows /\ ~stopped => flushSoon

\* From flush() on, a batch is what its requests believe it is: its rows no
\* longer change, and once its promise is settled the outcome stands.
BatchesFrozen ==
  [][\A b \in Batches :
       /\ bstate[b] \notin {"none", "open"} =>
            content'[b] = content[b] /\ bstate'[b] \notin {"none", "open"}
       /\ bstate[b] \in {"resolved", "rejected"} => bstate'[b] = bstate[b]]_vars

\* failStalledBatches' comment: without the watchdog queued batches would be
\* stranded and the requests awaiting them never answered.  Every admitted
\* request is answered, unless the service stops while no writer is connected:
\* the watchdog is off by then and nothing reconnects.
RequestsAnswered ==
  \A r \in Requests :
    InFlight(r) ~> (Answered(r) \/ (stopped /\ \A w \in Writers : ~Healthy(w)))

-----------------------------------------------------------------------------
(* What DurableIngest promises to clients, kept under synchronous commit. *)

AnswerOf(p) == CASE p = "new" -> "none"
                 [] p \in {"acked", "failed"} -> p
                 [] p \in {"shed", "refused"} -> "refused"
                 [] OTHER -> "waiting"

ClientAnswer == [r \in Requests |-> AnswerOf(pc[r])]

\* The rows that no crash of the database undoes.
DurableRows == UNION {content[b] : b \in {c \in Batches : durable[c] > 0}}

Contract == INSTANCE DurableIngest WITH answer <- ClientAnswer, table <- DurableRows

\* Group commit keeps the contract of storing each request by itself: see
\* DurableIngest.
KeepsContract == Contract!Spec

-----------------------------------------------------------------------------
(* What the source says and the code does not do. *)

\* writer.ts, pendingRows: "Rows accepted but not yet committed; the backpressure
\* signal."  It covers every row held in an open or flushed batch.  The code gives
\* all rows of a request back at its first failed batch.
PendingCoversHeldRows ==
  pendingRows >= MapThenSumSet(LAMBDA b : nrows[b],
                               {b \in Batches : bstate[b] \in {"open", "flushed"}})

=============================================================================
