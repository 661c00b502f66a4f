----------------------------- MODULE CopyBuffers -----------------------------
(***************************************************************************)
(* The buffers of src/db/copy-encoder.ts and the pool in which IngestWriter *)
(* keeps them.  A batch is encoded in place; finish() returns a view of    *)
(* the encoder's own storage, and the socket reads that view as the        *)
(* network takes it.  The encoder goes back to the pool when runCopy() is  *)
(* over, which after a failed COPY may be while the view is still being    *)
(* sent.                                                                   *)
(*                                                                         *)
(* A buffer is a sequence of cells.  The COPY header and trailer take one  *)
(* cell each, row i of any batch takes RowCells[i].  A view of a buffer    *)
(* that its encoder replaces keeps what the buffer held.                   *)
(***************************************************************************)
EXTENDS Integers, Sequences, FiniteSets, SequencesExt

CONSTANTS
  NumBatches,     \* batches until the end of the run
  NumWriters,     \* config.ingest.writerConnections
  MaxBatchRows,   \* config.ingest.maxBatchRows
  MaxBatchCells,  \* MAX_BATCH_BYTES
  RowCells,       \* the size of the i-th row of a batch
  RowReserve,     \* what writeLogRow reserves for a row
  InitialCells,   \* initialCapacity
  RetainedCells   \* MAX_RETAINED_ENCODER_BYTES

ASSUME BuffersAssumption ==
  /\ NumBatches \in Nat /\ NumWriters \in Nat \ {0} /\ MaxBatchRows \in Nat \ {0}
  /\ MaxBatchCells \in Nat \ {0} /\ RowReserve \in Nat \ {0}
  /\ RowCells \in [1..MaxBatchRows -> 1..RowReserve]
  /\ InitialCells \in Nat \ {0} /\ RetainedCells \in Nat

None == 0
Batches == 1..NumBatches
Writers == 1..NumWriters
Encoders == 1..NumBatches  \* never more than there are batches

VARIABLES
  opened,   \* batches created so far
  open,     \* this.openBatch
  rows,     \* encoder.rows of each batch
  outcome,  \* none, resolved or rejected: the promise of each batch
  encoder,  \* the encoder of each batch, while it has one
  made,     \* encoders constructed so far
  buffer,   \* the storage of each encoder
  offset,   \* how much of it is written
  pool,     \* this.encoderPool
  queue,    \* this.queue
  job,      \* the batch a busy writer is copying
  phase,    \* idle, ensure, copy, ack, error or broken
  up,       \* whether the writer's connection works
  wire,     \* the views each socket still has to send
  copying,  \* the batch whose COPY each connection's server process is reading
  got,      \* what it has read of it
  table     \* what each batch's COPY has committed

batchVars == <<opened, open, rows, outcome>>
heapVars == <<encoder, made, buffer, offset, pool>>
writerVars == <<queue, job, phase>>
serverVars == <<copying, got, table>>
vars == <<batchVars, heapVars, writerVars, up, wire, serverVars>>

Header == <<0, 0>>
Trailer == <<0, 1>>
Unset == <<0, 2>>
RowsOf(b) == {<<b, i>> : i \in 1..MaxBatchRows}
Cell == {Header, Trailer, Unset} \cup UNION {RowsOf(b) : b \in Batches}

\* Row i of batch b as writeLogRow lays it out.
RowText(b, i) == [k \in 1..RowCells[i] |-> <<b, i>>]

\* What the COPY of a batch of n rows should say.
Payload(b, n) ==
  <<Header>> \o FlattenSeq([i \in 1..n |-> RowText(b, i)]) \o <<Trailer>>

TypeOK ==
  /\ opened \in 0..NumBatches /\ open \in Batches \cup {None}
  /\ rows \in [Batches -> 0..MaxBatchRows]
  /\ outcome \in [Batches -> {"none", "resolved", "rejected"}]
  /\ encoder \in [Batches -> Encoders \cup {None}]
  /\ made \in 0..NumBatches
  /\ \A e \in Encoders : buffer[e] \in Seq(Cell) /\ offset[e] \in 0..Len(buffer[e])
  /\ pool \in Seq(Encoders) /\ queue \in Seq(Batches)
  /\ job \in [Writers -> Batches \cup {None}]
  /\ phase \in [Writers -> {"idle", "ensure", "copy", "ack", "error", "broken"}]
  /\ up \in [Writers -> BOOLEAN]
  /\ copying \in [Writers -> Batches \cup {None}]
  /\ \A w \in Writers : got[w] \in Seq(Cell)
  /\ \A b \in Batches : table[b] \in Seq(Cell)

Init ==
  /\ opened = 0 /\ open = None
  /\ rows = [b \in Batches |-> 0]
  /\ outcome = [b \in Batches |-> "none"]
  /\ encoder = [b \in Batches |-> None]
  /\ made = 0
  /\ buffer = [e \in Encoders |-> <<>>]
  /\ offset = [e \in Encoders |-> 0]
  /\ pool = <<>> /\ queue = <<>>
  /\ job = [w \in Writers |-> None]
  /\ phase = [w \in Writers |-> "idle"]
  /\ up = [w \in Writers |-> TRUE]
  /\ wire = [w \in Writers |-> <<>>]
  /\ copying = [w \in Writers |-> None]
  /\ got = [w \in Writers |-> <<>>]
  /\ table = [b \in Batches |-> <<>>]

-----------------------------------------------------------------------------
(* CopyBinaryEncoder. *)

Allocated(size) == [i \in 1..size |-> Unset]

\* text is written after the first at cells; what does not fit is dropped.
Overwritten(cells, at, text) ==
  [i \in DOMAIN cells |-> IF i > at /\ i <= at + Len(text) THEN text[i - at] ELSE cells[i]]

\* reset() of storage that is there.
Reset(cells) == Overwritten(cells, 0, <<Header>>)

\* Variant: nobody looks whether there is room.
EnsureCapacity_Unchecked(cells, at, additional) == cells

\* ensureCapacity(): doubled until the addition fits, and what is written copied over.
EnsureCapacity(cells, at, additional) ==
  IF at + additional <= Len(cells)
  THEN cells
  ELSE LET grown[k \in 0..at + additional] == IF k = 0 THEN Len(cells) ELSE 2 * grown[k - 1]
           fits == {k \in 1..at + additional : grown[k] >= at + additional}
       IN Overwritten(Allocated(grown[Min(fits)]), 0, SubSeq(cells, 1, at))

\* writeLogRow(): the worst case is reserved, then the row is written.
WriteLogRow(state, row) ==
  LET text == RowText(row[1], row[2])
  IN [cells |-> Overwritten(EnsureCapacity(state.cells, state.at, RowReserve), state.at, text),
      at    |-> state.at + Len(text)]

\* finish(): the trailer is appended; the payload is the written part.
Finished(cells, at) ==
  Overwritten(EnsureCapacity(cells, at, 1), at, <<Trailer>>)

\* The views that read the storage of an encoder in "changed" keep what it held.
Detached(changed) ==
  [w \in Writers |-> [i \in DOMAIN wire[w] |->
     IF wire[w][i].source \in changed
     THEN [wire[w][i] EXCEPT !.source = None, !.kept = buffer[wire[w][i].source]]
     ELSE wire[w][i]]]

-----------------------------------------------------------------------------
(* The pool, the queue and the writers. *)

PoolSize == NumWriters + 2

\* releaseEncoder() for each encoder of the sequence es: oversized storage is given up, and
\* the encoder is kept if the pool has room.
ReleaseEncoders(es) ==
  LET oversized == {e \in ToSet(es) : Len(buffer[e]) > RetainedCells}
      kept == Min({Len(es), PoolSize - Len(pool)})
  IN /\ buffer' = [e \in Encoders |-> IF e \in oversized THEN Reset(Allocated(InitialCells))
                                      ELSE buffer[e]]
     /\ offset' = [e \in Encoders |-> IF e \in oversized THEN 1 ELSE offset[e]]
     /\ wire' = Detached(oversized)
     /\ pool' = pool \o SubSeq(es, 1, kept)

Idle(jobs, healthy) == {w \in Writers : healthy[w] /\ jobs[w] = None}

\* dispatch(): the idle writers, in index order, take the first batches of q.
Dispatch(q, jobs, healthy) ==
  LET idle == Idle(jobs, healthy)
      rank(w) == Cardinality({v \in idle : v <= w})
      takes(w) == w \in idle /\ rank(w) <= Len(q)
  IN /\ job' = [w \in Writers |-> IF takes(w) THEN q[rank(w)] ELSE jobs[w]]
     /\ phase' = [w \in Writers |-> IF takes(w) THEN "ensure"
                                    ELSE IF jobs[w] = None THEN "idle" ELSE phase[w]]
     /\ queue' = SubSeq(q, Cardinality(idle) + 1, Len(q))

-----------------------------------------------------------------------------
(* append() and flush(). *)

\* Variant: the encoder of a new batch is not reset.
CurrentEncoder_NoReset(e) ==
  IF e \in ToSet(pool) THEN [cells |-> buffer[e], at |-> offset[e]]
  ELSE [cells |-> Reset(Allocated(InitialCells)), at |-> 1]

\* A pooled encoder after reset(), or a new one.
CurrentEncoder(e) ==
  [cells |-> Reset(IF e \in ToSet(pool) THEN buffer[e] ELSE Allocated(InitialCells)),
   at    |-> 1]

\* One chunk of append()'s loop: n rows go into the current batch, which is flushed when it
\* is full.  n may be 0: a waiter for ids can find the block used up.
AppendChunk(n) ==
  /\ open # None \/ opened < NumBatches
  /\ LET b == IF open # None THEN open ELSE opened + 1
         e == CASE open # None -> encoder[open]
                [] open = None /\ pool # <<>> -> Last(pool)
                [] OTHER -> made + 1
         start == IF open # None THEN [cells |-> buffer[e], at |-> offset[e]]
                                 ELSE CurrentEncoder(e)
         done == FoldLeft(WriteLogRow, start, [i \in 1..n |-> <<b, rows[b] + i>>])
     IN /\ rows[b] + n <= MaxBatchRows
        /\ rows' = [rows EXCEPT ![b] = @ + n]
        /\ opened' = IF open = None THEN opened + 1 ELSE opened
        /\ encoder' = [encoder EXCEPT ![b] = e]
        /\ made' = IF open = None /\ pool = <<>> THEN made + 1 ELSE made
        /\ pool' = IF open = None /\ pool # <<>> THEN Front(pool) ELSE pool
        /\ buffer' = [buffer EXCEPT ![e] = done.cells]
        /\ offset' = [offset EXCEPT ![e] = done.at]
        /\ wire' = Detached(IF Len(done.cells) # Len(buffer[e]) THEN {e} ELSE {})
        /\ IF rows'[b] >= MaxBatchRows \/ done.at >= MaxBatchCells
           THEN open' = None /\ Dispatch(Append(queue, b), job, up)
           ELSE open' = b /\ UNCHANGED writerVars
  /\ UNCHANGED <<outcome, up, serverVars>>

\* The batch's timer or the setImmediate; a batch without rows is resolved at once.
FlushOpen ==
  /\ open # None
  /\ open' = None
  /\ IF rows[open] = 0
     THEN /\ ReleaseEncoders(<<encoder[open]>>)
          /\ encoder' = [encoder EXCEPT ![open] = None]
          /\ outcome' = [outcome EXCEPT ![open] = "resolved"]
          /\ UNCHANGED writerVars
     ELSE /\ Dispatch(Append(queue, open), job, up)
          /\ UNCHANGED <<heapVars, wire, outcome>>
  /\ UNCHANGED <<opened, rows, made, up, serverVars>>

\* Variant: a batch that has timed out stays in the queue.
Watchdog_NoSplice ==
  /\ queue # <<>>
  /\ outcome' = [outcome EXCEPT ![Head(queue)] = "rejected"]
  /\ ReleaseEncoders(<<encoder[Head(queue)]>>)
  /\ UNCHANGED <<opened, open, rows, encoder, made, writerVars, up, serverVars>>

\* failStalledBatches(): the oldest n entries have waited too long.
Watchdog ==
  /\ \E n \in 1..Len(queue) :
       LET due == SubSeq(queue, 1, n)
       IN /\ queue' = SubSeq(queue, n + 1, Len(queue))
          /\ outcome' = [b \in Batches |-> IF b \in ToSet(due) THEN "rejected" ELSE outcome[b]]
          /\ encoder' = [b \in Batches |-> IF b \in ToSet(due) THEN None ELSE encoder[b]]
          /\ ReleaseEncoders([i \in 1..n |-> encoder[due[i]]])
  /\ UNCHANGED <<opened, open, rows, made, job, phase, up, serverVars>>

-----------------------------------------------------------------------------
(* runCopy(). *)

\* The partitions are there: finish() and copyBuffer().  The socket holds the view.
StartCopy(w) ==
  /\ phase[w] = "ensure"
  /\ LET e == encoder[job[w]]
         cells == Finished(buffer[e], offset[e])
         detached == Detached(IF Len(cells) # Len(buffer[e]) THEN {e} ELSE {})
     IN /\ buffer' = [buffer EXCEPT ![e] = cells]
        /\ offset' = [offset EXCEPT ![e] = @ + 1]
        /\ wire' = IF up[w]
                   THEN [detached EXCEPT ![w] = Append(@,
                           [batch |-> job[w], source |-> e, kept |-> <<>>,
                            sent |-> 0, size |-> offset[e] + 1])]
                   ELSE detached
        /\ phase' = [phase EXCEPT ![w] = IF up[w] THEN "copy" ELSE "broken"]
  /\ UNCHANGED <<batchVars, encoder, made, pool, queue, job, up, serverVars>>

\* The end of runCopy(): the batch is settled, its encoder released, the writer free.
EndCopy(w, result) ==
  /\ outcome' = [outcome EXCEPT ![job[w]] = result]
  /\ encoder' = [encoder EXCEPT ![job[w]] = None]
  /\ ReleaseEncoders(<<encoder[job[w]]>>)
  /\ Dispatch(queue, [job EXCEPT ![w] = None], up)
  /\ UNCHANGED <<opened, open, rows, made, up, serverVars>>

CopyDone(w) == phase[w] = "ack" /\ EndCopy(w, "resolved")

\* Variant: the batch is queued again, and its encoder released all the same.
CopyFailed_Retry(w) ==
  /\ phase[w] \in {"error", "broken"}
  /\ ReleaseEncoders(<<encoder[job[w]]>>)
  /\ Dispatch(Append(queue, job[w]), [job EXCEPT ![w] = None], up)
  /\ UNCHANGED <<batchVars, encoder, made, up, serverVars>>

CopyFailed(w) == phase[w] \in {"error", "broken"} /\ EndCopy(w, "rejected")

\* The client's 'error' event: what the socket held is not sent any more.  A commit the
\* server still makes is one it might have made before.
ConnLost(w) ==
  /\ up[w]
  /\ up' = [up EXCEPT ![w] = FALSE]
  /\ phase' = [phase EXCEPT ![w] = IF @ \in {"copy", "ack", "error"} THEN "broken" ELSE @]
  /\ wire' = [wire EXCEPT ![w] = <<>>]
  /\ copying' = [copying EXCEPT ![w] = None]
  /\ got' = [got EXCEPT ![w] = <<>>]
  /\ UNCHANGED <<batchVars, heapVars, queue, job, table>>

Reconnected(w) ==
  /\ ~up[w]
  /\ up' = [up EXCEPT ![w] = TRUE]
  /\ Dispatch(queue, job, up')
  /\ UNCHANGED <<batchVars, heapVars, wire, serverVars>>

-----------------------------------------------------------------------------
(* The socket and the server process at its other end. *)

\* What a view reads: its encoder's storage as it is now, or as it was left.
ViewCells(v) == IF v.source = None THEN v.kept ELSE buffer[v.source]

\* The network takes the next k cells of a view.  The first come after the COPY command;
\* a server process that has given that COPY up drops the rest.
Send(w) ==
  /\ wire[w] # <<>>
  /\ LET v == Head(wire[w])
     IN \E k \in 1..v.size - v.sent :
          /\ v.sent = 0 => copying[w] = None
          /\ copying' = [copying EXCEPT ![w] = IF v.sent = 0 THEN v.batch ELSE @]
          /\ got' = IF copying'[w] # v.batch THEN got
                    ELSE [got EXCEPT ![w] = @ \o SubSeq(ViewCells(v), v.sent + 1, v.sent + k)]
          /\ wire' = [wire EXCEPT ![w] =
               IF v.sent + k = v.size THEN Tail(@) ELSE <<[v EXCEPT !.sent = @ + k]>> \o Tail(@)]
  /\ UNCHANGED <<batchVars, heapVars, writerVars, up, table>>

\* The server accepts what it can parse: a header, rows and a trailer.
WellFormed(text) ==
  /\ text # <<>>
  /\ \A i \in DOMAIN text : /\ (text[i] = Header) <=> (i = 1)
                            /\ (text[i] = Trailer) <=> (i = Len(text))
                            /\ text[i] # Unset

Reply(w, b, answer) ==
  phase' = [phase EXCEPT ![w] = IF job[w] = b /\ @ = "copy" THEN answer ELSE @]

\* The whole payload has come: the rows are committed.
ServerCommit(w) ==
  /\ copying[w] # None
  /\ \A i \in DOMAIN wire[w] : wire[w][i].batch # copying[w]
  /\ WellFormed(got[w])
  /\ table' = [table EXCEPT ![copying[w]] = got[w]]
  /\ copying' = [copying EXCEPT ![w] = None]
  /\ got' = [got EXCEPT ![w] = <<>>]
  /\ Reply(w, copying[w], "ack")
  /\ UNCHANGED <<batchVars, heapVars, queue, job, up, wire>>

\* The server reports an error, at any point of the payload.
ServerAbort(w) ==
  /\ copying[w] # None
  /\ copying' = [copying EXCEPT ![w] = None]
  /\ got' = [got EXCEPT ![w] = <<>>]
  /\ Reply(w, copying[w], "error")
  /\ UNCHANGED <<batchVars, heapVars, queue, job, up, wire, table>>

-----------------------------------------------------------------------------
WriterStep(w) == \/ StartCopy(w) \/ CopyDone(w) \/ CopyFailed(w)
                 \/ ConnLost(w) \/ Reconnected(w)
                 \/ Send(w) \/ ServerCommit(w) \/ ServerAbort(w)

Next == \/ \E n \in 0..MaxBatchRows : AppendChunk(n)
        \/ FlushOpen \/ Watchdog
        \/ \E w \in Writers : WriterStep(w)

Spec == Init /\ [][Next]_vars

-----------------------------------------------------------------------------
(* Properties. *)

\* finish()'s comment: the payload is a view over internal storage, so it has to be written
\* out before the encoder is reset or reused.  What the table gets of a batch is its own
\* rows, each once and in order, however buffers grow, shrink and are used again; and a
\* batch whose requests are told 200 is there.
StoredIntact ==
  \A b \in Batches :
    /\ table[b] # <<>> => table[b] = Payload(b, rows[b])
    /\ outcome[b] = "resolved" /\ rows[b] > 0 => table[b] # <<>>

\* An encoder is in the pool once or belongs to one batch, whoever releases it -- runCopy,
\* the watchdog or an empty flush: two batches never write over each other's rows.
EncodersHeldOnce ==
  /\ IsInjective(pool)
  /\ \A b, c \in Batches : b # c /\ encoder[b] # None => encoder[b] # encoder[c]
  /\ \A b \in Batches : encoder[b] \notin ToSet(pool)

=============================================================================
