------------------------- MODULE IngestWriterProofs -------------------------
(***************************************************************************)
(* Theorems about IngestWriter for every value of its constants: types and *)
(* what acknowledged requests have in the table; the batches, who holds    *)
(* them, when they move, what they hold and how often they are stored; and *)
(* the contract of DurableIngest.                                          *)
(***************************************************************************)
EXTENDS IngestWriter, SetLemmas, FiniteSetTheorems, TLAPS

-----------------------------------------------------------------------------
(* A writer is idle exactly when it has no batch: what a step does to job[w] in *)
(* a phase then stays within the batches.                                       *)
JobPhase == \A w \in Writers : phase[w] = "idle" <=> job[w] = NoBatch

TypeInv == TypeOK /\ JobPhase

-----------------------------------------------------------------------------
(* Lemmas about the operators. *)

LEMMA ChunkSizeBounds ==
  ASSUME TypeOK, NEW r \in Requests, NEW b \in Batches, written[r] < Count[r]
  PROVE  /\ ChunkSize(r, b) \in Nat
         /\ ChunkSize(r, b) <= Count[r] - written[r]
         /\ ChunkSize(r, b) <= remaining
         /\ ChunkSize(r, b) <= MaxBatchRows - nrows[b]
<1> DEFINE x == Count[r] - written[r]
           y == remaining
           z == MaxBatchRows - nrows[b]
<1>1. x \in Nat /\ y \in Nat /\ z \in Nat
  <2>1. Count[r] \in Nat /\ written[r] \in Nat /\ remaining \in Nat
    BY ConstantsAssumption DEF TypeOK
  <2>2. nrows[b] \in 0..MaxBatchRows /\ MaxBatchRows \in Nat
    BY ConstantsAssumption DEF TypeOK
  <2> QED BY <2>1, <2>2
<1>2. \E m \in {x, y, z} : \A n \in {x, y, z} : m <= n
  <2> HIDE DEF x, y, z
  <2>1. CASE x <= y /\ x <= z BY <1>1, <2>1
  <2>2. CASE y <= x /\ y <= z BY <1>1, <2>2
  <2>3. CASE z <= x /\ z <= y BY <1>1, <2>3
  <2> QED BY <1>1, <2>1, <2>2, <2>3
<1>3. ChunkSize(r, b) \in {x, y, z} /\ \A n \in {x, y, z} : ChunkSize(r, b) <= n
  <2> DEFINE P(m) == m \in {x, y, z} /\ \A n \in {x, y, z} : m <= n
  <2>1. ChunkSize(r, b) = CHOOSE m \in {x, y, z} : \A n \in {x, y, z} : m <= n
    BY DEF ChunkSize, Min
  <2> HIDE DEF x, y, z
  <2> QED BY <1>2, <2>1
<1> QED BY <1>1, <1>3

LEMMA WritersFinite == IsFiniteSet(Writers)
BY FS_Interval, ConstantsAssumption DEF Writers

\* Every set of writers is a finite set of integers: an idle writer has a rank in it.
LEMMA WriterSet ==
  ASSUME NEW idle \in SUBSET Writers
  PROVE  idle \in SUBSET Int /\ IsFiniteSet(idle)
<1>1. \A w \in idle : w \in Int
  BY ConstantsAssumption DEF Writers
<1>2. IsFiniteSet(idle)
  BY WritersFinite, FS_Subset
<1> QED BY <1>1, <1>2

\* dispatch() leaves a queue of batches; every writer has a batch and a phase for it
\* or has neither; what is queued or copied then was queued or copied before; and a
\* writer that awaits a reply goes on awaiting it for the same batch.
LEMMA DispatchType ==
  ASSUME TypeOK,
         NEW q \in Seq(Batches),
         NEW j \in [Writers -> Batches \cup {NoBatch}],
         NEW up, up \subseteq Writers,
         \A w \in Writers : j[w] # NoBatch => phase[w] # "idle",
         Dispatch(q, j, up)
  PROVE  /\ queue' \in Seq(Batches)
         /\ job' \in [Writers -> Batches \cup {NoBatch}]
         /\ phase' \in [Writers -> {"idle", "ensure", "copy", "ack", "error", "broken"}]
         /\ \A w \in Writers : phase'[w] = "idle" <=> job'[w] = NoBatch
         /\ \A w \in Writers : phase'[w] = "ack" => phase[w] = "ack" /\ job'[w] = j[w]
                                                  /\ j[w] # NoBatch
         /\ \A i \in 1..Len(queue') : \E k \in 1..Len(q) : queue'[i] = q[k]
         /\ \A w \in Writers : job'[w] = j[w] \/ \E k \in 1..Len(q) : job'[w] = q[k]
<1> DEFINE idle == {w \in up : j[w] = NoBatch}
           rank(w) == Rank(idle, w)
           takes(w) == w \in idle /\ rank(w) <= Len(q)
<1>1. /\ job' = [w \in Writers |-> IF takes(w) THEN q[rank(w)] ELSE j[w]]
      /\ phase' = [w \in Writers |-> IF takes(w) THEN "ensure"
                                     ELSE IF j[w] = NoBatch THEN "idle"
                                     ELSE phase[w]]
      /\ queue' = SubSeq(q, Cardinality(idle) + 1, Len(q))
  BY DEF Dispatch, Rank
<1>2. idle \subseteq Writers
  OBVIOUS
<1>3. \A w \in Writers : takes(w) => rank(w) \in 1..Len(q) /\ q[rank(w)] \in Batches
  <2> SUFFICES ASSUME NEW w \in Writers, takes(w)
               PROVE  rank(w) \in 1..Len(q) /\ q[rank(w)] \in Batches
    OBVIOUS
  <2>1. rank(w) \in Nat \ {0}
    <3>1. Rank(idle, w) \in 1..Cardinality(idle)
      BY <1>2, WriterSet, RankInRange
    <3> QED BY <3>1
  <2> HIDE DEF rank
  <2> QED BY <2>1
<1>4. Cardinality(idle) \in Nat
  BY <1>2, WritersFinite, FS_Subset, FS_CardinalityType
<1>5. NoBatch \notin Batches
  BY ConstantsAssumption
<1>6. phase \in [Writers -> {"idle", "ensure", "copy", "ack", "error", "broken"}]
  BY DEF TypeOK
<1> HIDE DEF takes, rank, idle
<1>7. queue' \in Seq(Batches)
  BY <1>1, <1>4
<1>8. job' \in [Writers -> Batches \cup {NoBatch}]
  BY <1>1, <1>3
<1>9. phase' \in [Writers -> {"idle", "ensure", "copy", "ack", "error", "broken"}]
  BY <1>1, <1>6
<1>10. \A w \in Writers : phase'[w] = "idle" <=> job'[w] = NoBatch
  BY <1>1, <1>3, <1>5
<1>11. \A w \in Writers : phase'[w] = "ack" => phase[w] = "ack" /\ job'[w] = j[w]
                                              /\ j[w] # NoBatch
  BY <1>1
<1>12. \A i \in 1..Len(queue') : \E k \in 1..Len(q) : queue'[i] = q[k]
  <2> SUFFICES ASSUME NEW i \in 1..Len(queue')
               PROVE  \E k \in 1..Len(q) : queue'[i] = q[k]
    OBVIOUS
  <2> DEFINE c == Cardinality(idle)
  <2>1. c \in Nat /\ queue' = SubSeq(q, c + 1, Len(q))
    BY <1>1, <1>4
  <2> HIDE DEF c
  <2>2. i \in Nat \ {0} /\ c + i <= Len(q) /\ queue'[i] = q[c + i]
    BY <2>1
  <2> QED BY <2>1, <2>2
<1>13. \A w \in Writers : job'[w] = j[w] \/ \E k \in 1..Len(q) : job'[w] = q[k]
  BY <1>1, <1>3
<1> QED BY <1>7, <1>8, <1>9, <1>10, <1>11, <1>12, <1>13

\* What flush() leaves behind.
LEMMA FlushType ==
  ASSUME TypeOK, JobPhase, NEW b \in Batches, NEW n, Flush(b, n)
  PROVE  /\ openBatch' = NoBatch
         /\ bstate' \in [Batches -> {"none", "open", "flushed", "resolved", "rejected"}]
         /\ queue' \in Seq(Batches)
         /\ job' \in [Writers -> Batches \cup {NoBatch}]
         /\ phase' \in [Writers -> {"idle", "ensure", "copy", "ack", "error", "broken"}]
         /\ \A w \in Writers : phase'[w] = "idle" <=> job'[w] = NoBatch
<1>1. openBatch' = NoBatch
  BY DEF Flush
<1>2. CASE n = 0
  BY <1>1, <1>2 DEF Flush, TypeOK, JobPhase, writerVars
<1>3. CASE n # 0
  <2>1. /\ bstate' = [bstate EXCEPT ![b] = "flushed"]
        /\ Dispatch(Append(queue, b), job, HealthyWriters)
    BY <1>3 DEF Flush
  <2>2. /\ Append(queue, b) \in Seq(Batches)
        /\ job \in [Writers -> Batches \cup {NoBatch}]
        /\ bstate \in [Batches -> {"none", "open", "flushed", "resolved", "rejected"}]
    BY DEF TypeOK
  <2>3. HealthyWriters \subseteq Writers
    BY DEF HealthyWriters
  <2>4. \A w \in Writers : job[w] # NoBatch => phase[w] # "idle"
    BY DEF JobPhase
  <2>5. bstate' \in [Batches -> {"none", "open", "flushed", "resolved", "rejected"}]
    BY <2>1, <2>2
  <2>6. /\ queue' \in Seq(Batches)
        /\ job' \in [Writers -> Batches \cup {NoBatch}]
        /\ phase' \in [Writers -> {"idle", "ensure", "copy", "ack", "error", "broken"}]
        /\ \A w \in Writers : phase'[w] = "idle" <=> job'[w] = NoBatch
    <3> HIDE DEF TypeOK
    <3> QED BY <2>1, <2>2, <2>3, <2>4, DispatchType
  <2> QED BY <1>1, <2>5, <2>6
<1> QED BY <1>2, <1>3

-----------------------------------------------------------------------------
(* Type correctness. *)

LEMMA InitTypeInv == Init => TypeInv
<1> SUFFICES ASSUME Init PROVE TypeInv
  OBVIOUS
<1>1. BlockSize \in Nat /\ MaxBatchRows \in Nat
  BY ConstantsAssumption
<1>2. /\ pc \in [Requests -> PcValues]
      /\ touched \in [Requests -> SUBSET Batches]
      /\ bstate \in [Batches -> {"none", "open", "flushed", "resolved", "rejected"}]
      /\ content \in [Batches -> SUBSET Row]
  BY DEF Init, PcValues
<1>3. /\ micro \in Seq(Requests) /\ idWaiters \in Seq(Requests)
      /\ queue \in Seq(Batches)
  BY DEF Init
<1>4. /\ written \in [Requests -> Nat]
      /\ nrows \in [Batches -> 0..MaxBatchRows]
      /\ bytes \in [Batches -> Nat]
      /\ visible \in [Batches -> Nat]
      /\ durable \in [Batches -> Nat]
      /\ remaining \in 0..BlockSize
      /\ pendingRows \in Int
  BY <1>1 DEF Init
<1>5. /\ openBatch \in Batches \cup {NoBatch}
      /\ flushSoon \in BOOLEAN /\ stopped \in BOOLEAN
      /\ conn \in [Writers -> {"up", "down", "ended"}]
      /\ stray \in [Writers -> BOOLEAN]
      /\ job \in [Writers -> Batches \cup {NoBatch}]
      /\ phase \in [Writers -> {"idle", "ensure", "copy", "ack", "error", "broken"}]
      /\ executing \in SUBSET Batches
      /\ JobPhase
  BY DEF Init, JobPhase
<1> QED BY <1>2, <1>3, <1>4, <1>5 DEF TypeInv, TypeOK

\* A chunk of r goes into the current batch.
LEMMA DepositChunkTypeInv ==
  ASSUME TypeInv, NEW r \in Requests, DepositChunk(r)
  PROVE  TypeInv'
<1>1. PICK b \in Batches : \E take \in {ChunkSize(r, b)} :
        /\ IsCurrentBatch(b)
        /\ written' = [written EXCEPT ![r] = @ + take]
        /\ remaining' = remaining - take
        /\ content' = [content EXCEPT ![b] =
             @ \cup {<<r, i>> : i \in written[r] + 1 .. written[r] + take}]
        /\ nrows' = [nrows EXCEPT ![b] = @ + take]
        /\ bytes' = [bytes EXCEPT ![b] = @ + take * RowBytes[r]]
        /\ touched' = [touched EXCEPT ![r] = @ \cup {b}]
        /\ \/ /\ Flush(b, nrows'[b])
              /\ UNCHANGED flushSoon
           \/ /\ bstate' = [bstate EXCEPT ![b] = "open"]
              /\ openBatch' = b
              /\ UNCHANGED <<writerVars, connVars>>
              /\ ScheduleAdaptiveFlush
  BY DEF DepositChunk
<1> DEFINE take == ChunkSize(r, b)
<1>2. /\ written[r] < Count[r]
      /\ pc' = [pc EXCEPT ![r] = "loop"]
      /\ UNCHANGED <<micro, idWaiters, connVars, serverVars, pendingRows, stopped>>
  BY DEF DepositChunk
<1>3. /\ take \in Nat /\ take <= remaining /\ take <= MaxBatchRows - nrows[b]
  BY <1>2, ChunkSizeBounds DEF TypeInv
<1> HIDE DEF take
<1>4. /\ written' \in [Requests -> Nat]
      /\ remaining' \in 0..BlockSize
      /\ nrows' \in [Batches -> 0..MaxBatchRows]
  <2>1. nrows[b] \in 0..MaxBatchRows /\ MaxBatchRows \in Nat /\ BlockSize \in Nat
    BY ConstantsAssumption DEF TypeInv, TypeOK
  <2>2. nrows[b] + take \in 0..MaxBatchRows
    BY <1>3, <2>1
  <2>3. nrows' = [nrows EXCEPT ![b] = @ + take]
    BY <1>1 DEF take
  <2>4. written' = [written EXCEPT ![r] = @ + take] /\ remaining' = remaining - take
    BY <1>1 DEF take
  <2>5. nrows' \in [Batches -> 0..MaxBatchRows]
    BY <2>2, <2>3 DEF TypeInv, TypeOK
  <2>6. written' \in [Requests -> Nat]
    BY <1>3, <2>4 DEF TypeInv, TypeOK
  <2>7. remaining' \in 0..BlockSize
    BY <1>3, <2>1, <2>4 DEF TypeInv, TypeOK
  <2> QED BY <2>5, <2>6, <2>7
<1>5. bytes' \in [Batches -> Nat]
  <2>1. RowBytes[r] \in Nat /\ bytes[b] \in Nat
    BY ConstantsAssumption DEF TypeInv, TypeOK
  <2>2. bytes[b] + take * RowBytes[r] \in Nat
    BY <1>3, <2>1
  <2>3. bytes' = [bytes EXCEPT ![b] = @ + take * RowBytes[r]]
    BY <1>1 DEF take
  <2> QED BY <2>2, <2>3 DEF TypeInv, TypeOK
<1>6. content' \in [Batches -> SUBSET Row]
  <2>1. written[r] \in Nat
    BY DEF TypeInv, TypeOK
  <2>2. {<<r, i>> : i \in written[r] + 1 .. written[r] + take} \subseteq Row
    BY <1>3, <2>1 DEF Row
  <2>3. content' = [content EXCEPT ![b] =
             @ \cup {<<r, i>> : i \in written[r] + 1 .. written[r] + take}]
    BY <1>1 DEF take
  <2> QED BY <2>2, <2>3 DEF TypeInv, TypeOK
<1>7. /\ touched' \in [Requests -> SUBSET Batches]
      /\ pc' \in [Requests -> PcValues]
  BY <1>1, <1>2 DEF TypeInv, TypeOK, PcValues
<1>8. /\ bstate' \in [Batches -> {"none", "open", "flushed", "resolved", "rejected"}]
      /\ openBatch' \in Batches \cup {NoBatch}
      /\ queue' \in Seq(Batches)
      /\ job' \in [Writers -> Batches \cup {NoBatch}]
      /\ phase' \in [Writers -> {"idle", "ensure", "copy", "ack", "error", "broken"}]
      /\ flushSoon' \in BOOLEAN
      /\ JobPhase'
  <2>1. CASE Flush(b, nrows'[b]) /\ UNCHANGED flushSoon
    <3>1. flushSoon' \in BOOLEAN
      BY <2>1 DEF TypeInv, TypeOK
    <3> QED BY <2>1, <3>1, FlushType DEF TypeInv, JobPhase
  <2>2. CASE /\ bstate' = [bstate EXCEPT ![b] = "open"]
             /\ openBatch' = b
             /\ UNCHANGED <<writerVars, connVars>>
             /\ ScheduleAdaptiveFlush
    BY <2>2 DEF TypeInv, TypeOK, JobPhase, writerVars, ScheduleAdaptiveFlush
  <2> QED BY <1>1, <2>1, <2>2
<1> QED
  BY <1>2, <1>4, <1>5, <1>6, <1>7, <1>8 DEF TypeInv, TypeOK, serverVars, connVars

\* Every step keeps the types.
LEMMA NextTypeInv ==
  ASSUME TypeInv, [Next]_vars
  PROVE  TypeInv'
<1> USE DEF requestVars, idVars, batchVars, writerVars, connVars, serverVars, controlVars
<1>0. pc \in [Requests -> PcValues]
  BY DEF TypeInv, TypeOK
<1>1. ASSUME NEW r \in Requests, RequestStep(r) PROVE TypeInv'
  <2>1. CASE Append_Refuse(r)
    BY <2>1 DEF Append_Refuse, TypeInv, TypeOK, JobPhase, PcValues
  <2>2. CASE Append_Shed(r)
    BY <2>2 DEF Append_Shed, TypeInv, TypeOK, JobPhase, PcValues
  <2>3. CASE Append_Admit(r)
    <3>1. pendingRows' \in Int
      BY <2>3, ConstantsAssumption DEF Append_Admit, TypeInv, TypeOK
    <3>2. pc' \in [Requests -> PcValues] /\ micro' \in Seq(Requests)
      <4>1. <<r>> \in Seq(Requests) /\ micro \in Seq(Requests)
        BY DEF TypeInv, TypeOK
      <4>2. micro' = <<r>> \/ micro' = micro
        BY <2>3 DEF Append_Admit
      <4>3. pc' \in [Requests -> PcValues]
        BY <1>0, <2>3 DEF Append_Admit, PcValues
      <4> QED BY <4>1, <4>2, <4>3
    <3> QED
      BY <2>3, <3>1, <3>2 DEF Append_Admit, TypeInv, TypeOK, JobPhase
  <2>4. CASE Registered(r)
    BY <2>4 DEF Registered, TypeInv, TypeOK, JobPhase, PcValues
  <2>5. CASE RegisterFailed(r)
    <3>1. pc' \in [Requests -> PcValues]
      BY <1>0, <2>5 DEF RegisterFailed, PcValues
    <3> QED
      BY <2>5, <3>1 DEF RegisterFailed, TypeInv, TypeOK, JobPhase
  <2>6. CASE NeedIds(r)
    <3>1. pc' \in [Requests -> PcValues]
      BY <1>0, <2>6 DEF NeedIds, PcValues
    <3>2. micro' \in Seq(Requests) /\ idWaiters' \in Seq(Requests)
      BY <2>6 DEF NeedIds, Running, TypeInv, TypeOK
    <3> QED
      BY <2>6, <3>1, <3>2 DEF NeedIds, TypeInv, TypeOK, JobPhase
  <2>7. CASE DepositChunk(r)
    BY <2>7, DepositChunkTypeInv
  <2>8. CASE AllWritten(r)
    <3>1. pc' \in [Requests -> PcValues] /\ micro' \in Seq(Requests)
      BY <2>8 DEF AllWritten, Running, TypeInv, TypeOK, PcValues
    <3> QED
      BY <2>8, <3>1 DEF AllWritten, TypeInv, TypeOK, JobPhase
  <2>9. CASE Finish_Acked(r)
    <3>1. pendingRows' \in Int
      BY <2>9, ConstantsAssumption DEF Finish_Acked, TypeInv, TypeOK
    <3>2. pc' \in [Requests -> PcValues]
      BY <2>9 DEF Finish_Acked, TypeInv, TypeOK, PcValues
    <3> QED
      BY <2>9, <3>1, <3>2 DEF Finish_Acked, TypeInv, TypeOK, JobPhase
  <2>10. CASE Finish_Failed(r)
    <3>1. pendingRows' \in Int
      BY <2>10, ConstantsAssumption DEF Finish_Failed, TypeInv, TypeOK
    <3>2. pc' \in [Requests -> PcValues]
      BY <2>10 DEF Finish_Failed, TypeInv, TypeOK, PcValues
    <3> QED
      BY <2>10, <3>1, <3>2 DEF Finish_Failed, TypeInv, TypeOK, JobPhase
  <2> QED BY <1>1, <2>1, <2>2, <2>3, <2>4, <2>5, <2>6, <2>7, <2>8, <2>9, <2>10 DEF RequestStep
<1>2. ASSUME NEW w \in Writers, WriterStep(w) PROVE TypeInv'
  <2>1. CASE EnsureDone(w)
    <3>1. job[w] \in Batches
      BY <2>1 DEF EnsureDone, TypeInv, TypeOK, JobPhase
    <3>2. executing' \in SUBSET Batches
      BY <2>1, <3>1 DEF EnsureDone, TypeInv, TypeOK
    <3>3. /\ phase' \in [Writers -> {"idle", "ensure", "copy", "ack", "error", "broken"}]
          /\ JobPhase'
      BY <2>1 DEF EnsureDone, TypeInv, TypeOK, JobPhase
    <3> QED
      BY <2>1, <3>2, <3>3 DEF EnsureDone, TypeInv, TypeOK
  <2>2. CASE CopyDone(w) \/ CopyFailed(w)
    <3>1. PICK outcome \in {"resolved", "rejected"} : EndCopy(w, outcome)
      BY <2>2 DEF CopyDone, CopyFailed
    <3>2. [job EXCEPT ![w] = NoBatch] \in [Writers -> Batches \cup {NoBatch}]
      BY DEF TypeInv, TypeOK
    <3>3. \A v \in Writers : [job EXCEPT ![w] = NoBatch][v] # NoBatch => phase[v] # "idle"
      BY DEF TypeInv, TypeOK, JobPhase
    <3>4. /\ queue' \in Seq(Batches)
          /\ job' \in [Writers -> Batches \cup {NoBatch}]
          /\ phase' \in [Writers -> {"idle", "ensure", "copy", "ack", "error", "broken"}]
          /\ JobPhase'
      <4>1. Dispatch(queue, [job EXCEPT ![w] = NoBatch], HealthyWriters)
        BY <3>1 DEF EndCopy
      <4>2. HealthyWriters \subseteq Writers /\ queue \in Seq(Batches) /\ TypeOK
        BY DEF HealthyWriters, TypeInv, TypeOK
      <4> QED
        BY <3>2, <3>3, <4>1, <4>2, DispatchType DEF JobPhase
    <3>5. stray' \in [Writers -> BOOLEAN]
      BY <2>2 DEF CopyDone, CopyFailed, TypeInv, TypeOK
    <3> QED
      BY <3>1, <3>4, <3>5 DEF EndCopy, ScheduleAdaptiveFlush, TypeInv, TypeOK
  <2>3. CASE ConnLost(w) \/ StrayEnds(w)
    BY <2>3 DEF ConnLost, StrayEnds, TypeInv, TypeOK, JobPhase
  <2>4. CASE Reconnected(w)
    <3>1. Dispatch(queue, job, HealthyWriters \cup {w})
      BY <2>4 DEF Reconnected
    <3>2. /\ queue' \in Seq(Batches)
          /\ job' \in [Writers -> Batches \cup {NoBatch}]
          /\ phase' \in [Writers -> {"idle", "ensure", "copy", "ack", "error", "broken"}]
          /\ JobPhase'
      <4>1. /\ HealthyWriters \cup {w} \subseteq Writers
            /\ queue \in Seq(Batches)
            /\ job \in [Writers -> Batches \cup {NoBatch}]
            /\ TypeOK
        BY DEF HealthyWriters, TypeInv, TypeOK
      <4>2. \A v \in Writers : job[v] # NoBatch => phase[v] # "idle"
        BY DEF TypeInv, JobPhase
      <4> QED
        BY <3>1, <4>1, <4>2, DispatchType DEF JobPhase
    <3>3. stray' \in [Writers -> BOOLEAN]
      BY <2>4 DEF Reconnected, TypeInv, TypeOK
    <3>4. conn' \in [Writers -> {"up", "down", "ended"}] /\ flushSoon' \in BOOLEAN
      BY <2>4 DEF Reconnected, ScheduleAdaptiveFlush, TypeInv, TypeOK
    <3> QED
      BY <2>4, <3>2, <3>3, <3>4 DEF Reconnected, ScheduleAdaptiveFlush, TypeInv, TypeOK
  <2> QED BY <1>2, <2>1, <2>2, <2>3, <2>4 DEF WriterStep
<1>3. ASSUME NEW b \in Batches, ServerCommit(b) \/ ServerAbort(b) PROVE TypeInv'
  <2>1. CASE ServerCommit(b)
    <3>1. visible' \in [Batches -> Nat] /\ durable' \in [Batches -> Nat]
      <4>1. visible \in [Batches -> Nat] /\ durable \in [Batches -> Nat]
        BY DEF TypeInv, TypeOK
      <4> QED BY <2>1, <4>1 DEF ServerCommit
    <3>2. /\ phase' \in [Writers -> {"idle", "ensure", "copy", "ack", "error", "broken"}]
          /\ JobPhase'
      BY <2>1 DEF ServerCommit, Reply, TypeInv, TypeOK, JobPhase
    <3> QED
      BY <2>1, <3>1, <3>2 DEF ServerCommit, TypeInv, TypeOK
  <2>2. CASE ServerAbort(b)
    BY <2>2 DEF ServerAbort, Reply, TypeInv, TypeOK, JobPhase
  <2> QED BY <1>3, <2>1, <2>2
<1>4. CASE BlockArrived
  <2>1. remaining' \in 0..BlockSize
    BY <1>4, ConstantsAssumption DEF BlockArrived
  <2>2. /\ pc' \in [Requests -> PcValues]
        /\ micro' \in Seq(Requests) /\ idWaiters' \in Seq(Requests)
    BY <1>4 DEF BlockArrived, TypeInv, TypeOK, PcValues
  <2> QED
    BY <1>4, <2>1, <2>2 DEF BlockArrived, TypeInv, TypeOK, JobPhase
<1>5. CASE BlockFailed
  BY <1>5 DEF BlockFailed, TypeInv, TypeOK, JobPhase, PcValues
<1>6. CASE FlushTimer
  <2>1. openBatch \in Batches
    BY <1>6 DEF FlushTimer, TypeInv, TypeOK
  <2> QED
    BY <1>6, <2>1, FlushType DEF FlushTimer, TypeInv, TypeOK, JobPhase
<1>7. CASE FlushSoon
  <2>1. CASE OpenHasRows
    <3>1. openBatch \in Batches
      BY <2>1 DEF OpenHasRows, TypeInv, TypeOK
    <3> QED
      BY <1>7, <2>1, <3>1, FlushType DEF FlushSoon, TypeInv, TypeOK, JobPhase
  <2>2. CASE ~OpenHasRows
    BY <1>7, <2>2 DEF FlushSoon, TypeInv, TypeOK, JobPhase
  <2> QED BY <2>1, <2>2
<1>8. CASE Watchdog
  <2>1. queue' \in Seq(Batches)
    BY <1>8 DEF Watchdog, TypeInv, TypeOK
  <2>2. bstate' \in [Batches -> {"none", "open", "flushed", "resolved", "rejected"}]
    BY <1>8 DEF Watchdog, TypeInv, TypeOK
  <2> QED
    BY <1>8, <2>1, <2>2 DEF Watchdog, TypeInv, TypeOK, JobPhase
<1>9. CASE WalFlush
  BY <1>9 DEF WalFlush, TypeInv, TypeOK, JobPhase
<1>10. CASE DbCrash
  BY <1>10 DEF DbCrash, TypeInv, TypeOK, JobPhase
<1>11. CASE Stop
  <2>1. CASE openBatch # NoBatch
    <3>1. openBatch \in Batches
      BY <2>1 DEF TypeInv, TypeOK
    <3> QED
      BY <1>11, <2>1, <3>1, FlushType DEF Stop, TypeInv, TypeOK, JobPhase
  <2>2. CASE openBatch = NoBatch
    BY <1>11, <2>2 DEF Stop, TypeInv, TypeOK, JobPhase
  <2> QED BY <2>1, <2>2
<1>12. CASE StopFinish
  BY <1>12 DEF StopFinish, TypeInv, TypeOK, JobPhase
<1>13. CASE UNCHANGED vars
  BY <1>13 DEF vars, TypeInv, TypeOK, JobPhase
<1> QED
  BY <1>1, <1>2, <1>3, <1>4, <1>5, <1>6, <1>7, <1>8, <1>9, <1>10, <1>11, <1>12,
     <1>13 DEF Next

\* Every variable keeps its type; in particular no batch ever holds more rows
\* than maxBatchRows (config.ts: "Hard cap on rows per COPY").
THEOREM TypeCorrect == Spec => []TypeOK
<1>1. Init => TypeInv
  BY InitTypeInv
<1>2. TypeInv /\ [Next]_vars => TypeInv'
  BY NextTypeInv
<1>3. TypeInv => TypeOK
  BY DEF TypeInv
<1> QED BY <1>1, <1>2, <1>3, PTL DEF Spec

-----------------------------------------------------------------------------
(* Why an acknowledged request is stored.  AckedStored is not inductive: it    *)
(* follows from what append() has placed where, and from what is known of a    *)
(* batch whose promise is resolved.                                            *)

\* The batches flush() has closed: their rows do not change any more.
Sealed == {b \in Batches : bstate[b] \notin {"none", "open"}}

\* Rows up to written[r] are in batches r will wait on; only a request with all
\* its rows placed waits.
RowsPlaced ==
  \A r \in Requests :
    /\ \A i \in 1..written[r] : \E b \in touched[r] : <<r, i>> \in content[b]
    /\ pc[r] \in {"awaiting", "acked"} => written[r] = Count[r]

\* The open batch is open, and what is queued or being copied is not.
OpenNotSealed ==
  /\ openBatch # NoBatch => bstate[openBatch] = "open"
  /\ \A i \in 1..Len(queue) : queue[i] \in Sealed
  /\ \A w \in Writers : job[w] # NoBatch => job[w] \in Sealed

\* flush() resolves a batch without a COPY only when it holds no row.
EncoderCount == \A b \in Batches : nrows[b] = 0 => content[b] = {}

\* A resolved batch has been committed, and so has one whose reply says so.
ResolvedStored ==
  /\ \A b \in Batches : bstate[b] = "resolved" /\ content[b] # {} => visible[b] > 0
  /\ \A w \in Writers : phase[w] = "ack" => visible[job[w]] > 0

\* Under synchronous commit nothing is visible that a crash would undo.
NothingVolatile == visible = durable

SafetyInv == /\ RowsPlaced
             /\ OpenNotSealed
             /\ EncoderCount
             /\ ResolvedStored
             /\ NothingVolatile
             /\ AckedStored

LEMMA InitSafetyInv == Init => SafetyInv
<1> SUFFICES ASSUME Init PROVE SafetyInv
  OBVIOUS
<1>1. RowsPlaced
  BY DEF Init, RowsPlaced
<1>2. OpenNotSealed
  BY DEF Init, OpenNotSealed
<1>3. EncoderCount
  BY DEF Init, EncoderCount
<1>4. ResolvedStored
  BY DEF Init, ResolvedStored
<1>5. NothingVolatile
  BY DEF Init, NothingVolatile
<1>6. AckedStored
  BY DEF Init, AckedStored
<1> QED BY <1>1, <1>2, <1>3, <1>4, <1>5, <1>6 DEF SafetyInv

\* A step in the life of a request that leaves batches, writers and the database
\* alone: it may start to wait once its rows are placed, and be acknowledged once
\* every batch it waits on is resolved.
LEMMA RequestOnlySafe ==
  ASSUME TypeInv, SafetyInv,
         UNCHANGED <<written, touched, batchVars, writerVars, visible, durable>>,
         \A r \in Requests :
           pc'[r] = "awaiting" => pc[r] = "awaiting" \/ written[r] = Count[r],
         \A r \in Requests :
           pc'[r] = "acked" => pc[r] = "acked" \/ (pc[r] = "awaiting" /\ AllResolved(r))
  PROVE  SafetyInv'
<1> USE DEF batchVars, writerVars
<1>1. RowsPlaced'
  BY DEF SafetyInv, RowsPlaced
<1>2. OpenNotSealed' /\ EncoderCount' /\ ResolvedStored' /\ NothingVolatile'
  BY DEF SafetyInv, OpenNotSealed, EncoderCount, ResolvedStored, NothingVolatile, Sealed
<1>3. AckedStored'
  <2> SUFFICES ASSUME NEW r \in Requests, pc'[r] = "acked", NEW row \in RowsOf(r)
               PROVE  \E b \in Batches : row \in content[b] /\ visible[b] > 0
    BY DEF AckedStored
  <2>1. CASE pc[r] = "acked"
    BY <2>1 DEF SafetyInv, AckedStored
  <2>2. CASE pc[r] = "awaiting" /\ AllResolved(r)
    <3>1. PICK i \in 1..Count[r] : row = <<r, i>>
      BY DEF RowsOf
    <3>2. PICK b \in touched[r] : row \in content[b]
      BY <2>2, <3>1 DEF SafetyInv, RowsPlaced
    <3>3. b \in Batches /\ bstate[b] = "resolved"
      BY <2>2 DEF AllResolved, TypeInv, TypeOK
    <3> QED BY <3>2, <3>3 DEF SafetyInv, ResolvedStored
  <2> QED BY <2>1, <2>2
<1> QED BY <1>1, <1>2, <1>3 DEF SafetyInv

\* A step that leaves the requests and the batches' rows alone and undoes no
\* commit cannot disturb what is said of requests.
LEMMA RequestPartsSafe ==
  ASSUME TypeInv, SafetyInv,
         UNCHANGED <<requestVars, content, nrows>>,
         visible' \in [Batches -> Nat],
         \A b \in Batches : visible[b] > 0 => visible'[b] > 0
  PROVE  RowsPlaced' /\ EncoderCount' /\ AckedStored'
BY DEF SafetyInv, RowsPlaced, EncoderCount, AckedStored, requestVars

\* flush() closes the open batch b: nothing but a sealed batch is queued or copied
\* afterwards, and a batch it resolves is empty.  n is the number of rows the step
\* leaves in b.
LEMMA FlushSafe ==
  ASSUME TypeInv, NEW b \in Batches, NEW n, Flush(b, n),
         \A i \in 1..Len(queue) : queue[i] \in Sealed,
         \A w \in Writers : job[w] # NoBatch => job[w] \in Sealed
  PROVE  /\ OpenNotSealed'
         /\ \A c \in Batches : bstate'[c] = "resolved" =>
              bstate[c] = "resolved" \/ (c = b /\ n = 0)
         /\ \A w \in Writers : phase'[w] = "ack" => phase[w] = "ack" /\ job'[w] = job[w]
<1>1. openBatch' = NoBatch
  BY DEF Flush
<1>2. bstate \in [Batches -> {"none", "open", "flushed", "resolved", "rejected"}]
  BY DEF TypeInv, TypeOK
<1>3. \E s \in {"resolved", "flushed"} : bstate' = [bstate EXCEPT ![b] = s]
  BY DEF Flush
<1>4. Sealed' = Sealed \cup {b}
  BY <1>2, <1>3 DEF Sealed
<1>5. \A c \in Batches : bstate'[c] = "resolved" =>
        bstate[c] = "resolved" \/ (c = b /\ n = 0)
  BY <1>2 DEF Flush
<1>6. CASE n = 0
  <2>1. queue' = queue /\ job' = job /\ phase' = phase
    BY <1>6 DEF Flush, writerVars
  <2> QED BY <1>1, <1>4, <1>5, <2>1 DEF OpenNotSealed
<1>7. CASE n # 0
  <2> DEFINE q == Append(queue, b)
  <2>1. Dispatch(q, job, HealthyWriters)
    BY <1>7 DEF Flush
  <2>2. /\ TypeOK
        /\ HealthyWriters \subseteq Writers
        /\ q \in Seq(Batches)
        /\ job \in [Writers -> Batches \cup {NoBatch}]
    <3>1. queue \in Seq(Batches)
      BY DEF TypeInv, TypeOK
    <3>2. q \in Seq(Batches)
      BY <3>1
    <3> QED BY <3>2 DEF TypeInv, TypeOK, HealthyWriters
  <2>3. \A w \in Writers : job[w] # NoBatch => phase[w] # "idle"
    BY DEF TypeInv, JobPhase
  <2>4. \A k \in 1..Len(q) : q[k] \in Sealed'
    <3>1. queue \in Seq(Batches)
      BY DEF TypeInv, TypeOK
    <3>2. \A k \in 1..Len(q) : q[k] = b \/ (k \in 1..Len(queue) /\ q[k] = queue[k])
      BY <3>1
    <3> HIDE DEF q
    <3> QED BY <1>4, <3>2
  <2> HIDE DEF q
  <2>5. /\ \A w \in Writers : phase'[w] = "ack" => phase[w] = "ack" /\ job'[w] = job[w]
        /\ \A i \in 1..Len(queue') : \E k \in 1..Len(q) : queue'[i] = q[k]
        /\ \A w \in Writers : job'[w] = job[w] \/ \E k \in 1..Len(q) : job'[w] = q[k]
    BY <2>1, <2>2, <2>3, DispatchType, ZenonT(60)
  <2>6. OpenNotSealed'
    BY <1>1, <1>4, <2>4, <2>5 DEF OpenNotSealed
  <2> QED BY <1>5, <2>5, <2>6
<1> QED BY <1>6, <1>7

\* The timer, the setImmediate and stop() flush the open batch and do no more
\* that matters here.
LEMMA FlushStepSafe ==
  ASSUME TypeInv, SafetyInv, openBatch # NoBatch,
         Flush(openBatch, nrows[openBatch]),
         UNCHANGED <<requestVars, content, nrows, serverVars>>
  PROVE  SafetyInv'
<1>1. openBatch \in Batches
  BY DEF TypeInv, TypeOK
<1>2. RowsPlaced' /\ EncoderCount' /\ AckedStored'
  BY RequestPartsSafe DEF serverVars, TypeInv, TypeOK
<1>3. /\ \A i \in 1..Len(queue) : queue[i] \in Sealed
      /\ \A w \in Writers : job[w] # NoBatch => job[w] \in Sealed
  BY DEF SafetyInv, OpenNotSealed
<1>4. /\ OpenNotSealed'
      /\ \A c \in Batches : bstate'[c] = "resolved" =>
           bstate[c] = "resolved" \/ (c = openBatch /\ nrows[openBatch] = 0)
      /\ \A w \in Writers : phase'[w] = "ack" => phase[w] = "ack" /\ job'[w] = job[w]
  BY <1>1, <1>3, FlushSafe
<1>5. ResolvedStored'
  BY <1>1, <1>4 DEF SafetyInv, ResolvedStored, EncoderCount, serverVars
<1>6. NothingVolatile'
  BY DEF SafetyInv, NothingVolatile, serverVars
<1> QED BY <1>2, <1>4, <1>5, <1>6 DEF SafetyInv

\* A chunk of rows: they are new to the batch that takes them, and that batch is
\* not sealed.
LEMMA DepositChunkSafe ==
  ASSUME TypeInv, SafetyInv, NEW r \in Requests, DepositChunk(r)
  PROVE  SafetyInv'
<1>1. PICK b \in Batches : \E take \in {ChunkSize(r, b)} :
        /\ IsCurrentBatch(b)
        /\ written' = [written EXCEPT ![r] = @ + take]
        /\ content' = [content EXCEPT ![b] =
             @ \cup {<<r, i>> : i \in written[r] + 1 .. written[r] + take}]
        /\ nrows' = [nrows EXCEPT ![b] = @ + take]
        /\ touched' = [touched EXCEPT ![r] = @ \cup {b}]
        /\ \/ Flush(b, nrows'[b])
           \/ /\ bstate' = [bstate EXCEPT ![b] = "open"]
              /\ openBatch' = b
              /\ UNCHANGED writerVars
  BY DEF DepositChunk
<1> DEFINE take == ChunkSize(r, b)
<1>2. /\ written[r] < Count[r]
      /\ pc[r] \in {"granted", "loop"}
      /\ pc' = [pc EXCEPT ![r] = "loop"]
      /\ visible' = visible /\ durable' = durable
  BY DEF DepositChunk, serverVars
<1>3. take \in Nat /\ take <= Count[r] - written[r]
  BY <1>2, ChunkSizeBounds DEF TypeInv
<1>4. bstate[b] \in {"none", "open"} /\ (openBatch # NoBatch => openBatch = b)
  BY <1>1 DEF IsCurrentBatch, SafetyInv, OpenNotSealed
<1> HIDE DEF take
<1>5. /\ written' = [written EXCEPT ![r] = @ + take]
      /\ content' = [content EXCEPT ![b] =
           @ \cup {<<r, i>> : i \in written[r] + 1 .. written[r] + take}]
      /\ nrows' = [nrows EXCEPT ![b] = @ + take]
      /\ touched' = [touched EXCEPT ![r] = @ \cup {b}]
  BY <1>1 DEF take
<1>6. /\ written \in [Requests -> Nat] /\ content \in [Batches -> SUBSET Row]
      /\ nrows \in [Batches -> Nat] /\ touched \in [Requests -> SUBSET Batches]
      /\ pc \in [Requests -> PcValues]
      /\ bstate \in [Batches -> {"none", "open", "flushed", "resolved", "rejected"}]
  <2>1. 0..MaxBatchRows \subseteq Nat
    BY ConstantsAssumption
  <2>2. nrows \in [Batches -> Nat]
    BY <2>1 DEF TypeInv, TypeOK
  <2> QED BY <2>2 DEF TypeInv, TypeOK
<1>7. \A c \in Batches : content[c] \subseteq content'[c] /\ (c # b => content'[c] = content[c])
  BY <1>5, <1>6
<1>8. RowsPlaced'
  <2> SUFFICES ASSUME NEW q \in Requests
               PROVE  /\ \A i \in 1..written'[q] : \E c \in touched'[q] : <<q, i>> \in content'[c]
                      /\ pc'[q] \in {"awaiting", "acked"} => written'[q] = Count[q]
    BY DEF RowsPlaced
  <2>1. CASE q # r
    <3>1. written'[q] = written[q] /\ touched'[q] = touched[q] /\ pc'[q] = pc[q]
      BY <1>2, <1>5, <1>6, <2>1
    <3>2. \A i \in 1..written[q] : \E c \in touched[q] : <<q, i>> \in content[c]
      BY DEF SafetyInv, RowsPlaced
    <3>3. pc[q] \in {"awaiting", "acked"} => written[q] = Count[q]
      BY DEF SafetyInv, RowsPlaced
    <3>4. touched[q] \subseteq Batches
      BY <1>6
    <3> QED BY <1>7, <3>1, <3>2, <3>3, <3>4
  <2>2. CASE q = r
    <3>1. pc'[r] = "loop" /\ touched'[r] = touched[r] \cup {b}
      BY <1>2, <1>5, <1>6
    <3>2. written'[r] = written[r] + take /\ written[r] \in Nat
      BY <1>5, <1>6
    <3>3. content'[b] = content[b] \cup {<<r, i>> : i \in written[r] + 1 .. written[r] + take}
      BY <1>5, <1>6
    <3>4. ASSUME NEW i \in 1..written'[r]
          PROVE  \E c \in touched'[r] : <<r, i>> \in content'[c]
      <4>1. CASE i <= written[r]
        <5>1. PICK c \in touched[r] : <<r, i>> \in content[c]
          BY <3>2, <4>1 DEF SafetyInv, RowsPlaced
        <5>2. c \in Batches
          BY <1>6
        <5> QED BY <1>7, <3>1, <5>1, <5>2
      <4>2. CASE i > written[r]
        <5>1. i \in written[r] + 1 .. written[r] + take
          BY <1>3, <3>2, <4>2
        <5> QED BY <3>1, <3>3, <5>1
      <4> QED BY <3>2, <4>1, <4>2
    <3> QED BY <2>2, <3>1, <3>4
  <2> QED BY <2>1, <2>2
<1>9. EncoderCount'
  <2> SUFFICES ASSUME NEW c \in Batches, nrows'[c] = 0 PROVE content'[c] = {}
    BY DEF EncoderCount
  <2>1. CASE c # b
    BY <1>5, <1>6, <1>7, <2>1 DEF SafetyInv, EncoderCount
  <2>2. CASE c = b
    <3>1. nrows[b] + take = 0 /\ nrows[b] \in Nat
      BY <1>5, <1>6, <2>2
    <3>2. nrows[b] = 0 /\ take = 0
      BY <1>3, <3>1
    <3>3. content[b] = {}
      BY <3>2 DEF SafetyInv, EncoderCount
    <3>4. written[r] + 1 .. written[r] + take = {}
      BY <1>6, <3>2
    <3> QED BY <1>5, <1>6, <2>2, <3>3, <3>4
  <2> QED BY <2>1, <2>2
<1>10. AckedStored'
  <2> SUFFICES ASSUME NEW q \in Requests, pc'[q] = "acked", NEW row \in RowsOf(q)
               PROVE  \E c \in Batches : row \in content'[c] /\ visible'[c] > 0
    BY DEF AckedStored
  <2>1. pc[q] = "acked"
    BY <1>2, <1>6
  <2>2. PICK c \in Batches : row \in content[c] /\ visible[c] > 0
    BY <2>1 DEF SafetyInv, AckedStored
  <2> QED BY <1>2, <1>7, <2>2
<1>11. NothingVolatile'
  BY <1>2 DEF SafetyInv, NothingVolatile
<1>12. OpenNotSealed' /\ ResolvedStored'
  <2>1. /\ \A i \in 1..Len(queue) : queue[i] \in Sealed
        /\ \A w \in Writers : job[w] # NoBatch => job[w] \in Sealed
    BY DEF SafetyInv, OpenNotSealed
  <2>2. CASE Flush(b, nrows'[b])
    <3>1. /\ OpenNotSealed'
          /\ \A c \in Batches : bstate'[c] = "resolved" =>
               bstate[c] = "resolved" \/ (c = b /\ nrows'[b] = 0)
          /\ \A w \in Writers : phase'[w] = "ack" => phase[w] = "ack" /\ job'[w] = job[w]
      BY <1>4, <2>1, <2>2, FlushSafe
    <3>2. ResolvedStored'
      BY <1>2, <1>4, <1>7, <1>9, <3>1 DEF SafetyInv, ResolvedStored, EncoderCount
    <3> QED BY <3>1, <3>2
  <2>3. CASE /\ bstate' = [bstate EXCEPT ![b] = "open"]
             /\ openBatch' = b
             /\ UNCHANGED writerVars
    <3>1. Sealed' = Sealed
      BY <1>4, <1>6, <2>3 DEF Sealed
    <3>2. OpenNotSealed'
      BY <1>6, <2>1, <2>3, <3>1 DEF OpenNotSealed, writerVars
    <3>3. ResolvedStored'
      BY <1>2, <1>4, <1>6, <1>7, <2>3 DEF SafetyInv, ResolvedStored, writerVars
    <3> QED BY <3>2, <3>3
  <2> QED BY <1>1, <2>2, <2>3
<1> QED BY <1>8, <1>9, <1>10, <1>11, <1>12 DEF SafetyInv

\* The end of a COPY: a batch is resolved only on a reply that says it committed.
LEMMA EndCopySafe ==
  ASSUME TypeInv, SafetyInv, NEW w \in Writers,
         NEW outcome \in {"resolved", "rejected"}, EndCopy(w, outcome),
         phase[w] # "idle",
         outcome = "resolved" => phase[w] = "ack"
  PROVE  SafetyInv'
<1> DEFINE j == [job EXCEPT ![w] = NoBatch]
<1>1. /\ bstate' = [bstate EXCEPT ![job[w]] = outcome]
      /\ Dispatch(queue, j, HealthyWriters)
      /\ UNCHANGED <<requestVars, content, nrows, openBatch, serverVars>>
  BY DEF EndCopy
<1>2. /\ TypeOK
      /\ HealthyWriters \subseteq Writers
      /\ queue \in Seq(Batches)
      /\ j \in [Writers -> Batches \cup {NoBatch}]
  BY DEF TypeInv, TypeOK, HealthyWriters
<1>3. job[w] \in Sealed /\ job[w] \in Batches
  BY DEF TypeInv, JobPhase, SafetyInv, OpenNotSealed, Sealed
<1>4. \A v \in Writers : (j[v] # NoBatch => j[v] = job[v]) /\ (v # w => j[v] = job[v])
  BY DEF TypeInv, TypeOK
<1>5. \A v \in Writers : j[v] # NoBatch => phase[v] # "idle"
  BY <1>4 DEF TypeInv, JobPhase
<1> HIDE DEF j
<1>6. /\ \A v \in Writers : phase'[v] = "ack" => phase[v] = "ack" /\ job'[v] = j[v]
                                              /\ j[v] # NoBatch
      /\ \A i \in 1..Len(queue') : \E k \in 1..Len(queue) : queue'[i] = queue[k]
      /\ \A v \in Writers : job'[v] = j[v] \/ \E k \in 1..Len(queue) : job'[v] = queue[k]
  BY <1>1, <1>2, <1>5, DispatchType
<1>7. bstate \in [Batches -> {"none", "open", "flushed", "resolved", "rejected"}]
  BY DEF TypeInv, TypeOK
<1>8. Sealed' = Sealed
  BY <1>1, <1>3, <1>7 DEF Sealed
<1>9. RowsPlaced' /\ EncoderCount' /\ AckedStored'
  BY <1>1, RequestPartsSafe DEF serverVars, TypeInv, TypeOK
<1>10. OpenNotSealed'
  <2>1. openBatch' # NoBatch => bstate'[openBatch'] = "open"
    BY <1>1, <1>3, <1>7 DEF SafetyInv, OpenNotSealed, Sealed
  <2>2. \A i \in 1..Len(queue') : queue'[i] \in Sealed'
    BY <1>6, <1>8 DEF SafetyInv, OpenNotSealed
  <2>3. \A v \in Writers : job'[v] # NoBatch => job'[v] \in Sealed'
    BY <1>4, <1>6, <1>8 DEF SafetyInv, OpenNotSealed
  <2> QED BY <2>1, <2>2, <2>3 DEF OpenNotSealed
<1>11. ResolvedStored'
  <2>1. ASSUME NEW b \in Batches, bstate'[b] = "resolved", content'[b] # {}
        PROVE  visible'[b] > 0
    <3>1. CASE bstate[b] = "resolved"
      BY <1>1, <2>1, <3>1 DEF SafetyInv, ResolvedStored, serverVars
    <3>2. CASE bstate[b] # "resolved"
      <4>1. b = job[w] /\ outcome = "resolved"
        BY <1>1, <1>7, <2>1, <3>2
      <4> QED BY <1>1, <4>1 DEF SafetyInv, ResolvedStored, serverVars
    <3> QED BY <3>1, <3>2
  <2>2. ASSUME NEW v \in Writers, phase'[v] = "ack" PROVE visible'[job'[v]] > 0
    BY <1>1, <1>4, <1>6, <2>2 DEF SafetyInv, ResolvedStored, serverVars
  <2> QED BY <2>1, <2>2 DEF ResolvedStored
<1>12. NothingVolatile'
  BY <1>1 DEF SafetyInv, NothingVolatile, serverVars
<1> QED BY <1>9, <1>10, <1>11, <1>12 DEF SafetyInv

\* A step that only moves writers between phases, toward no new reply.
LEMMA PhaseOnlySafe ==
  ASSUME TypeInv, SafetyInv,
         UNCHANGED <<requestVars, batchVars, queue, job, visible, durable>>,
         \A w \in Writers : phase'[w] = "ack" => phase[w] = "ack"
  PROVE  SafetyInv'
<1>1. RowsPlaced' /\ EncoderCount' /\ AckedStored'
  BY RequestPartsSafe DEF batchVars, TypeInv, TypeOK
<1>2. OpenNotSealed' /\ ResolvedStored' /\ NothingVolatile'
  BY DEF batchVars, SafetyInv, OpenNotSealed, ResolvedStored, NothingVolatile, Sealed
<1> QED BY <1>1, <1>2 DEF SafetyInv

LEMMA ReconnectedSafe ==
  ASSUME TypeInv, SafetyInv, NEW w \in Writers, Reconnected(w)
  PROVE  SafetyInv'
<1>1. /\ Dispatch(queue, job, HealthyWriters \cup {w})
      /\ UNCHANGED <<requestVars, batchVars, serverVars>>
  BY DEF Reconnected
<1>2. /\ TypeOK
      /\ HealthyWriters \cup {w} \subseteq Writers
      /\ queue \in Seq(Batches)
      /\ job \in [Writers -> Batches \cup {NoBatch}]
  BY DEF TypeInv, TypeOK, HealthyWriters
<1>3. \A v \in Writers : job[v] # NoBatch => phase[v] # "idle"
  BY DEF TypeInv, JobPhase
<1>4. /\ \A v \in Writers : phase'[v] = "ack" => phase[v] = "ack" /\ job'[v] = job[v]
                                              /\ job[v] # NoBatch
      /\ \A i \in 1..Len(queue') : \E k \in 1..Len(queue) : queue'[i] = queue[k]
      /\ \A v \in Writers : job'[v] = job[v] \/ \E k \in 1..Len(queue) : job'[v] = queue[k]
  BY <1>1, <1>2, <1>3, DispatchType
<1>5. RowsPlaced' /\ EncoderCount' /\ AckedStored'
  BY <1>1, RequestPartsSafe DEF batchVars, serverVars, TypeInv, TypeOK
<1>6. OpenNotSealed'
  BY <1>1, <1>4 DEF batchVars, SafetyInv, OpenNotSealed, Sealed
<1>7. ResolvedStored' /\ NothingVolatile'
  BY <1>1, <1>4 DEF batchVars, serverVars, SafetyInv, ResolvedStored, NothingVolatile
<1> QED BY <1>5, <1>6, <1>7 DEF SafetyInv

\* The database commits: what the step adds to the table is durable at once.
LEMMA ServerCommitSafe ==
  ASSUME TypeInv, SafetyInv, SyncCommit = TRUE, NEW b \in Batches, ServerCommit(b)
  PROVE  SafetyInv'
<1>1. /\ visible' = [visible EXCEPT ![b] = @ + 1]
      /\ durable' = [durable EXCEPT ![b] = @ + 1]
      /\ Reply(b, "ack")
      /\ UNCHANGED <<requestVars, batchVars, queue, job>>
  BY DEF ServerCommit
<1>2. visible \in [Batches -> Nat] /\ durable = visible
  BY DEF TypeInv, TypeOK, SafetyInv, NothingVolatile
<1>3. /\ visible' \in [Batches -> Nat]
      /\ visible'[b] > 0
      /\ \A c \in Batches : visible[c] > 0 => visible'[c] > 0
  BY <1>1, <1>2
<1>4. RowsPlaced' /\ EncoderCount' /\ AckedStored'
  BY <1>1, <1>3, RequestPartsSafe DEF batchVars
<1>5. OpenNotSealed'
  BY <1>1 DEF batchVars, SafetyInv, OpenNotSealed, Sealed
<1>6. ResolvedStored'
  <2>1. ASSUME NEW c \in Batches, bstate'[c] = "resolved", content'[c] # {}
        PROVE  visible'[c] > 0
    BY <1>1, <1>3, <2>1 DEF batchVars, SafetyInv, ResolvedStored
  <2>2. ASSUME NEW v \in Writers, phase'[v] = "ack" PROVE visible'[job'[v]] > 0
    <3>1. CASE job[v] = b
      BY <1>1, <1>3, <3>1
    <3>2. CASE job[v] # b
      <4>1. phase[v] = "ack"
        BY <1>1, <2>2, <3>2 DEF Reply
      <4>2. job[v] \in Batches
        BY <4>1 DEF TypeInv, TypeOK, JobPhase
      <4>3. visible[job[v]] > 0
        BY <4>1 DEF SafetyInv, ResolvedStored
      <4> QED BY <1>1, <1>3, <4>2, <4>3
    <3> QED BY <3>1, <3>2
  <2> QED BY <2>1, <2>2 DEF ResolvedStored
<1>7. NothingVolatile'
  BY <1>1, <1>2 DEF NothingVolatile
<1> QED BY <1>4, <1>5, <1>6, <1>7 DEF SafetyInv

LEMMA WatchdogSafe ==
  ASSUME TypeInv, SafetyInv, Watchdog
  PROVE  SafetyInv'
<1>1. PICK n \in 1..Len(queue) :
        /\ queue' = SubSeq(queue, n + 1, Len(queue))
        /\ bstate' = [b \in Batches |->
             IF \E i \in 1..n : queue[i] = b THEN "rejected" ELSE bstate[b]]
  BY DEF Watchdog
<1>2. UNCHANGED <<requestVars, content, nrows, openBatch, job, phase, serverVars>>
  BY DEF Watchdog
<1>3. \A i \in 1..Len(queue) : queue[i] \in Sealed
  BY DEF SafetyInv, OpenNotSealed
<1>4. Sealed \subseteq Sealed'
  BY <1>1 DEF Sealed
<1>5. \A i \in 1..Len(queue') : \E k \in 1..Len(queue) : queue'[i] = queue[k]
  <2>1. queue \in Seq(Batches)
    BY DEF TypeInv, TypeOK
  <2> SUFFICES ASSUME NEW i \in 1..Len(queue')
               PROVE  \E k \in 1..Len(queue) : queue'[i] = queue[k]
    OBVIOUS
  <2>2. i \in Nat \ {0} /\ n + i <= Len(queue) /\ queue'[i] = queue[n + i]
    BY <1>1, <2>1
  <2> QED BY <1>1, <2>1, <2>2
<1>6. RowsPlaced' /\ EncoderCount' /\ AckedStored'
  BY <1>2, RequestPartsSafe DEF serverVars, TypeInv, TypeOK
<1>7. OpenNotSealed'
  <2>1. openBatch' # NoBatch => bstate'[openBatch'] = "open"
    <3> SUFFICES ASSUME openBatch # NoBatch PROVE bstate'[openBatch] = "open"
      BY <1>2
    <3>1. openBatch \in Batches /\ bstate[openBatch] = "open"
      BY DEF TypeInv, TypeOK, SafetyInv, OpenNotSealed
    <3>2. \A i \in 1..n : queue[i] # openBatch
      BY <1>1, <1>3, <3>1 DEF Sealed
    <3> QED BY <1>1, <3>1, <3>2
  <2> QED BY <1>2, <1>3, <1>4, <1>5, <2>1 DEF SafetyInv, OpenNotSealed
<1>8. ResolvedStored' /\ NothingVolatile'
  BY <1>1, <1>2 DEF serverVars, SafetyInv, ResolvedStored, NothingVolatile
<1> QED BY <1>6, <1>7, <1>8 DEF SafetyInv

\* Every step keeps SafetyInv when commits are synchronous.
LEMMA NextSafetyInv ==
  ASSUME SyncCommit = TRUE, TypeInv, SafetyInv, [Next]_vars
  PROVE  SafetyInv'
<1> USE DEF requestVars, idVars, writerVars, connVars, serverVars, controlVars
<1>1. ASSUME NEW r \in Requests, RequestStep(r) PROVE SafetyInv'
  <2>1. CASE Append_Refuse(r)
    BY <2>1, RequestOnlySafe DEF Append_Refuse, TypeInv, TypeOK
  <2>2. CASE Append_Shed(r)
    BY <2>2, RequestOnlySafe DEF Append_Shed, TypeInv, TypeOK
  <2>3. CASE Append_Admit(r)
    BY <2>3, RequestOnlySafe DEF Append_Admit, TypeInv, TypeOK
  <2>4. CASE Registered(r)
    BY <2>4, RequestOnlySafe DEF Registered, TypeInv, TypeOK
  <2>5. CASE RegisterFailed(r)
    BY <2>5, RequestOnlySafe DEF RegisterFailed, TypeInv, TypeOK
  <2>6. CASE NeedIds(r)
    BY <2>6, RequestOnlySafe DEF NeedIds, TypeInv, TypeOK
  <2>7. CASE AllWritten(r)
    BY <2>7, RequestOnlySafe DEF AllWritten, TypeInv, TypeOK
  <2>8. CASE Finish_Acked(r)
    BY <2>8, RequestOnlySafe DEF Finish_Acked, TypeInv, TypeOK
  <2>9. CASE Finish_Failed(r)
    BY <2>9, RequestOnlySafe DEF Finish_Failed, TypeInv, TypeOK
  <2>10. CASE DepositChunk(r)
    BY <2>10, DepositChunkSafe
  <2> QED
    BY <1>1, <2>1, <2>2, <2>3, <2>4, <2>5, <2>6, <2>7, <2>8, <2>9, <2>10 DEF RequestStep
<1>2. ASSUME NEW w \in Writers, WriterStep(w) PROVE SafetyInv'
  <2>1. CASE EnsureDone(w)
    BY <2>1, PhaseOnlySafe DEF EnsureDone, TypeInv, TypeOK
  <2>2. CASE CopyDone(w)
    BY <2>2, EndCopySafe DEF CopyDone
  <2>3. CASE CopyFailed(w)
    BY <2>3, EndCopySafe DEF CopyFailed
  <2>4. CASE ConnLost(w) \/ StrayEnds(w)
    BY <2>4, PhaseOnlySafe DEF ConnLost, StrayEnds, TypeInv, TypeOK
  <2>5. CASE Reconnected(w)
    BY <2>5, ReconnectedSafe
  <2> QED BY <1>2, <2>1, <2>2, <2>3, <2>4, <2>5 DEF WriterStep
<1>3. ASSUME NEW b \in Batches, ServerCommit(b) \/ ServerAbort(b) PROVE SafetyInv'
  <2>1. CASE ServerCommit(b)
    BY <2>1, ServerCommitSafe
  <2>2. CASE ServerAbort(b)
    BY <2>2, PhaseOnlySafe DEF ServerAbort, Reply, TypeInv, TypeOK
  <2> QED BY <1>3, <2>1, <2>2
<1>4. CASE BlockArrived
  BY <1>4, RequestOnlySafe DEF BlockArrived, TypeInv, TypeOK
<1>5. CASE BlockFailed
  BY <1>5, RequestOnlySafe DEF BlockFailed, TypeInv, TypeOK
<1>6. CASE FlushTimer
  BY <1>6, FlushStepSafe DEF FlushTimer
<1>7. CASE FlushSoon
  <2>1. CASE OpenHasRows
    BY <1>7, <2>1, FlushStepSafe DEF FlushSoon, OpenHasRows
  <2>2. CASE ~OpenHasRows
    BY <1>7, <2>2, PhaseOnlySafe DEF FlushSoon, batchVars
  <2> QED BY <2>1, <2>2
<1>8. CASE Watchdog
  BY <1>8, WatchdogSafe
<1>9. CASE WalFlush
  BY <1>9 DEF WalFlush, SafetyInv, NothingVolatile
<1>10. CASE DbCrash
  <2>1. visible' = visible /\ durable' = durable
    BY <1>10 DEF DbCrash, SafetyInv, NothingVolatile
  <2> QED
    BY <1>10, <2>1, PhaseOnlySafe DEF DbCrash, TypeInv, TypeOK
<1>11. CASE Stop
  <2>1. CASE openBatch # NoBatch
    BY <1>11, <2>1, FlushStepSafe DEF Stop
  <2>2. CASE openBatch = NoBatch
    BY <1>11, <2>2, PhaseOnlySafe DEF Stop, batchVars
  <2> QED BY <2>1, <2>2
<1>12. CASE StopFinish
  BY <1>12, PhaseOnlySafe DEF StopFinish, TypeInv, TypeOK
<1>13. CASE UNCHANGED vars
  BY <1>13, PhaseOnlySafe DEF vars
<1> QED
  BY <1>1, <1>2, <1>3, <1>4, <1>5, <1>6, <1>7, <1>8, <1>9, <1>10, <1>11, <1>12,
     <1>13 DEF Next

\* README.md, POST /logs: a 200 is returned only after the rows have committed.
\* With synchronous commit every row of an acknowledged request is in the table,
\* then and ever after.
THEOREM AckedAreStored ==
  ASSUME SyncCommit = TRUE
  PROVE  Spec => []AckedStored
<1>1. Init => TypeInv /\ SafetyInv
  BY InitTypeInv, InitSafetyInv
<1>2. TypeInv /\ SafetyInv /\ [Next]_vars => (TypeInv /\ SafetyInv)'
  BY NextTypeInv, NextSafetyInv
<1>3. TypeInv /\ SafetyInv => AckedStored
  BY DEF SafetyInv
<1> QED BY <1>1, <1>2, <1>3, PTL DEF Spec

-----------------------------------------------------------------------------
(* Backpressure.  The counter is the sum of the requests in flight, of which   *)
(* there are finitely many at any time, however many there may be in all.      *)

Flying == {r \in Requests : InFlight(r)}

PendingInv ==
  /\ IsFiniteSet(Flying)
  /\ pendingRows = Total(Count, Flying)
  /\ pendingRows <= MaxPendingRows

LEMMA PendingIsTotal ==
  ASSUME PendingInv
  PROVE  PendingMatches
BY DEF PendingInv, PendingMatches, Flying, Total

LEMMA PendingFrame ==
  ASSUME PendingInv, Flying' = Flying, pendingRows' = pendingRows
  PROVE  PendingInv'
BY DEF PendingInv

\* Requests that are in flight before and after a step, or neither.
LEMMA SameFlying ==
  ASSUME \A r \in Requests : InFlight(r)' <=> InFlight(r)
  PROVE  Flying' = Flying
BY DEF Flying

LEMMA InitPending == Init => PendingInv
<1> SUFFICES ASSUME Init
             PROVE  PendingInv
  OBVIOUS
<1>1. Flying = {} /\ pendingRows = 0
  BY DEF Init, Flying, InFlight
<1>2. Total(Count, {}) = 0
  BY ConstantsAssumption, TotalEmpty
<1> QED BY <1>1, <1>2, FS_EmptySet, ConstantsAssumption DEF PendingInv

LEMMA AdmitPending ==
  ASSUME TypeInv, PendingInv, NEW r \in Requests, Append_Admit(r)
  PROVE  PendingInv'
<1>1. /\ pc[r] = "new" /\ pendingRows' = pendingRows + Count[r]
      /\ pendingRows + Count[r] <= MaxPendingRows
      /\ pc' = [pc EXCEPT ![r] = "registering"] \/ pc' = [pc EXCEPT ![r] = "loop"]
  BY DEF Append_Admit
<1>2. pc \in [Requests -> PcValues]
  BY DEF TypeInv, TypeOK
<1>3. r \notin Flying /\ Flying' = Flying \cup {r}
  BY <1>1, <1>2 DEF Flying, InFlight, Answered
<1>4. Flying \in SUBSET Requests /\ Count \in [Requests -> Nat]
  BY ConstantsAssumption DEF Flying
<1>5. Total(Count, Flying \cup {r}) = Count[r] + Total(Count, Flying)
  BY <1>3, <1>4, TotalAdd DEF PendingInv
<1>6. Total(Count, Flying) \in Nat /\ Count[r] \in Nat
  BY <1>4, TotalType DEF PendingInv
<1>7. pendingRows = Total(Count, Flying)
  BY DEF PendingInv
<1>8. pendingRows' = Total(Count, Flying')
  BY <1>1, <1>3, <1>5, <1>6, <1>7
<1>9. IsFiniteSet(Flying')
  BY <1>3, FS_AddElement DEF PendingInv
<1>10. pendingRows' <= MaxPendingRows
  BY <1>1
<1> QED BY <1>8, <1>9, <1>10 DEF PendingInv

LEMMA FinishPending ==
  ASSUME TypeInv, PendingInv, NEW r \in Requests, Finish_Acked(r) \/ Finish_Failed(r)
  PROVE  PendingInv'
<1>1. /\ pc[r] \in {"awaiting", "aborting"} /\ pendingRows' = pendingRows - Count[r]
      /\ pc' = [pc EXCEPT ![r] = "acked"] \/ pc' = [pc EXCEPT ![r] = "failed"]
  BY DEF Finish_Acked, Finish_Failed
<1>2. pc \in [Requests -> PcValues]
  BY DEF TypeInv, TypeOK
<1>3. r \in Flying /\ Flying' = Flying \ {r}
  BY <1>1, <1>2 DEF Flying, InFlight, Answered
<1>4. Flying \in SUBSET Requests /\ Count \in [Requests -> Nat]
  BY ConstantsAssumption DEF Flying
<1>5. Total(Count, Flying \ {r}) = Total(Count, Flying) - Count[r]
  BY <1>3, <1>4, TotalRemove DEF PendingInv
<1>6. Total(Count, Flying) \in Nat /\ Count[r] \in Nat /\ MaxPendingRows \in Nat
  BY <1>4, TotalType, ConstantsAssumption DEF PendingInv
<1>7. pendingRows = Total(Count, Flying) /\ pendingRows <= MaxPendingRows
  BY DEF PendingInv
<1>8. pendingRows' = Total(Count, Flying') /\ pendingRows' <= MaxPendingRows
  BY <1>1, <1>3, <1>5, <1>6, <1>7
<1>9. IsFiniteSet(Flying')
  BY <1>3, FS_RemoveElement DEF PendingInv
<1> QED BY <1>8, <1>9 DEF PendingInv

LEMMA NextPending ==
  ASSUME TypeInv, PendingInv, [Next]_vars
  PROVE  PendingInv'
<1>0. pc \in [Requests -> PcValues]
  BY DEF TypeInv, TypeOK
<1>1. ASSUME NEW r \in Requests, RequestStep(r)
      PROVE  PendingInv'
  <2>1. CASE Append_Admit(r)
    BY <2>1, AdmitPending
  <2>2. CASE Finish_Acked(r) \/ Finish_Failed(r)
    BY <2>2, FinishPending
  <2>3. CASE Append_Refuse(r) \/ Append_Shed(r) \/ Registered(r) \/ RegisterFailed(r)
               \/ NeedIds(r) \/ DepositChunk(r) \/ AllWritten(r)
    <3>1. /\ pendingRows' = pendingRows
          /\ \/ pc[r] = "new" /\ pc' = [pc EXCEPT ![r] = "refused"]
             \/ pc[r] = "new" /\ pc' = [pc EXCEPT ![r] = "shed"]
             \/ /\ pc[r] \in {"registering", "loop", "granted"}
                /\ \/ pc' = [pc EXCEPT ![r] = "loop"]
                   \/ pc' = [pc EXCEPT ![r] = "aborting"]
                   \/ pc' = [pc EXCEPT ![r] = "fetching"]
                   \/ pc' = [pc EXCEPT ![r] = "awaiting"]
      BY <2>3 DEF Append_Refuse, Append_Shed, Registered, RegisterFailed, NeedIds,
           DepositChunk, AllWritten, controlVars
    <3>2. Flying' = Flying
      BY <1>0, <3>1, SameFlying DEF InFlight, Answered
    <3> QED BY <3>1, <3>2, PendingFrame
  <2> QED BY <1>1, <2>1, <2>2, <2>3 DEF RequestStep
<1>2. CASE BlockArrived \/ BlockFailed
  <2>1. /\ pendingRows' = pendingRows
        /\ \/ pc' = [r \in Requests |-> IF pc[r] = "fetching" THEN "granted" ELSE pc[r]]
           \/ pc' = [r \in Requests |-> IF pc[r] = "fetching" THEN "aborting" ELSE pc[r]]
    BY <1>2 DEF BlockArrived, BlockFailed, controlVars
  <2>2. Flying' = Flying
    BY <2>1, SameFlying DEF InFlight, Answered
  <2> QED BY <2>1, <2>2, PendingFrame
<1>3. ASSUME pc' = pc, pendingRows' = pendingRows
      PROVE  PendingInv'
  BY <1>3, SameFlying, PendingFrame DEF InFlight, Answered
<1>4. ASSUME NEW w \in Writers, WriterStep(w)
      PROVE  PendingInv'
  BY <1>3, <1>4 DEF WriterStep, EnsureDone, CopyDone, CopyFailed, EndCopy, ConnLost, StrayEnds,
       Reconnected, requestVars, controlVars
<1>5. ASSUME NEW b \in Batches, ServerCommit(b) \/ ServerAbort(b)
      PROVE  PendingInv'
  BY <1>3, <1>5 DEF ServerCommit, ServerAbort, requestVars, controlVars
<1>6. CASE FlushTimer \/ FlushSoon \/ Watchdog \/ WalFlush \/ DbCrash \/ Stop \/ StopFinish
  BY <1>3, <1>6 DEF FlushTimer, FlushSoon, Watchdog, WalFlush, DbCrash, Stop, StopFinish,
       requestVars, controlVars
<1>7. CASE UNCHANGED vars
  BY <1>3, <1>7 DEF vars, requestVars, controlVars
<1> QED BY <1>1, <1>2, <1>4, <1>5, <1>6, <1>7 DEF Next

\* writer.ts: pendingRows is exactly the rows of the requests in flight, whatever becomes of
\* their ids, batches and connections, and never more than maxPendingRows.
THEOREM PendingIsExact == Spec => []PendingMatches
<1>1. Init => TypeInv /\ PendingInv
  BY InitTypeInv, InitPending
<1>2. TypeInv /\ PendingInv /\ [Next]_vars => (TypeInv /\ PendingInv)'
  BY NextTypeInv, NextPending
<1>3. PendingInv => PendingMatches
  BY PendingIsTotal
<1> QED BY <1>1, <1>2, <1>3, PTL DEF Spec

-----------------------------------------------------------------------------
(* The batches: who holds them, when they move, what they hold and how often   *)
(* they are stored.                                                            *)

-----------------------------------------------------------------------------
(* dispatch() hands the first batches of the queue to the idle writers, one each. *)

\* What dispatch() does, seen from the batches: the idle writers take the first c.
HandsOver(q, j, up, c) ==
  /\ queue' = SubSeq(q, c + 1, Len(q))
  /\ \A w \in Writers : job'[w] = j[w] \/ \E k \in 1..Len(q) : k <= c /\ job'[w] = q[k]
  /\ \A w \in Writers : j[w] # NoBatch => job'[w] = j[w]
  /\ \A k \in 1..Len(q) : k <= c => \E w \in Writers : job'[w] = q[k]
  /\ \A v, w \in Writers :
       (j[v] = NoBatch /\ j[w] = NoBatch /\ job'[v] # NoBatch /\ job'[w] # NoBatch
        /\ v # w) =>
         \E k, l \in 1..Len(q) : k # l /\ job'[v] = q[k] /\ job'[w] = q[l]
  /\ queue' # <<>> => \A w \in up : job'[w] # NoBatch
  /\ \A w \in Writers : phase'[w] = "ensure" =>
       \/ j[w] = job'[w] /\ phase[w] = "ensure"
       \/ \E k \in 1..Len(q) : k <= c /\ job'[w] = q[k]

LEMMA DispatchHands ==
  ASSUME NEW q \in Seq(Batches), NEW j \in [Writers -> Batches \cup {NoBatch}],
         NEW up \in SUBSET Writers, Dispatch(q, j, up)
  PROVE  \E c \in Nat : HandsOver(q, j, up, c)
<1> DEFINE idle == {w \in up : j[w] = NoBatch}
           c == Cardinality(idle)
           takes(w) == w \in idle /\ Rank(idle, w) <= Len(q)
<1>1. /\ job' = [w \in Writers |-> IF takes(w) THEN q[Rank(idle, w)] ELSE j[w]]
      /\ queue' = SubSeq(q, c + 1, Len(q))
      /\ phase' = [w \in Writers |-> IF takes(w) THEN "ensure"
                                     ELSE IF j[w] = NoBatch THEN "idle"
                                     ELSE phase[w]]
  BY DEF Dispatch, Rank
<1>2. idle \in SUBSET Writers /\ \A w \in idle : w \in Writers /\ j[w] = NoBatch
  OBVIOUS
<1>3. c \in Nat
  BY <1>2, WritersFinite, FS_Subset, FS_CardinalityType
<1>4. \A w \in idle : Rank(idle, w) \in Nat /\ 1 <= Rank(idle, w) /\ Rank(idle, w) <= c
  <2>1. \A w \in idle : Rank(idle, w) \in 1..c
    BY <1>2, WriterSet, RankInRange
  <2> HIDE DEF c, idle
  <2> QED BY <1>3, <2>1
<1>5. \A v, w \in idle : Rank(idle, v) = Rank(idle, w) => v = w
  BY <1>2, WriterSet, RankInjective
<1>6. \A k \in 1..c : \E w \in idle : Rank(idle, w) = k
  BY <1>2, WriterSet, RankSurjective
<1>7. Len(q) \in Nat
  OBVIOUS
<1>8. \A w \in Writers : w \notin idle /\ w \in up => j[w] # NoBatch
  OBVIOUS
<1>9. NoBatch \notin Batches
  BY ConstantsAssumption
<1> HIDE DEF idle, c
<1>10. \A w \in Writers : takes(w) => /\ Rank(idle, w) \in 1..Len(q)
                                      /\ Rank(idle, w) <= c
                                      /\ q[Rank(idle, w)] \in Batches
  BY <1>4, <1>7
<1>11. \A w \in Writers :
         job'[w] = j[w] \/ \E k \in 1..Len(q) : k <= c /\ job'[w] = q[k]
  BY <1>1, <1>10
<1>12. \A w \in Writers : j[w] # NoBatch => job'[w] = j[w]
  BY <1>1, <1>2
<1>13. ASSUME NEW k \in 1..Len(q), k <= c
       PROVE  \E w \in Writers : job'[w] = q[k]
  <2>1. k \in 1..c
    BY <1>3, <1>13
  <2>2. PICK w \in idle : Rank(idle, w) = k
    BY <1>6, <2>1
  <2>3. w \in Writers /\ takes(w)
    BY <1>2, <1>7, <2>2
  <2> QED BY <1>1, <2>2, <2>3
<1>14. ASSUME NEW v \in Writers, NEW w \in Writers, j[v] = NoBatch, j[w] = NoBatch,
              job'[v] # NoBatch, job'[w] # NoBatch, v # w
       PROVE  \E k, l \in 1..Len(q) : k # l /\ job'[v] = q[k] /\ job'[w] = q[l]
  <2>1. takes(v) /\ takes(w)
    BY <1>1, <1>14
  <2>2. Rank(idle, v) # Rank(idle, w)
    BY <1>5, <1>14, <2>1
  <2>3. job'[v] = q[Rank(idle, v)] /\ job'[w] = q[Rank(idle, w)]
    BY <1>1, <2>1
  <2> QED BY <1>10, <2>1, <2>2, <2>3
<1>15. ASSUME queue' # <<>>, NEW w \in up
       PROVE  job'[w] # NoBatch
  <2>1. CASE w \in idle
    <3>1. c + 1 <= Len(q)
      BY <1>1, <1>3, <1>7, <1>15
    <3>2. takes(w)
      BY <1>3, <1>4, <1>7, <2>1, <3>1
    <3> QED BY <1>1, <1>9, <1>10, <3>2
  <2>2. CASE w \notin idle
    BY <1>1, <1>8, <2>2
  <2> QED BY <2>1, <2>2
<1>16. ASSUME NEW w \in Writers, phase'[w] = "ensure"
       PROVE  \/ j[w] = job'[w] /\ phase[w] = "ensure"
              \/ \E k \in 1..Len(q) : k <= c /\ job'[w] = q[k]
  BY <1>1, <1>10, <1>16
<1> QED BY <1>1, <1>3, <1>11, <1>12, <1>13, <1>14, <1>15, <1>16, Zenon DEF HandsOver

-----------------------------------------------------------------------------
(* Who holds a batch, given the queue, the jobs and the batches' states.   *)

\* A batch that flush() has closed and nothing has settled is in the queue or with one
\* writer, once; and no other batch is.
Held(q, j, bs) ==
  /\ \A i \in 1..Len(q) : bs[q[i]] = "flushed"
  /\ \A i, k \in 1..Len(q) : q[i] = q[k] => i = k
  /\ \A w \in Writers : j[w] # NoBatch => bs[j[w]] = "flushed"
  /\ \A v, w \in Writers : j[v] = j[w] /\ j[v] # NoBatch => v = w
  /\ \A i \in 1..Len(q), w \in Writers : q[i] # j[w]
  /\ \A b \in Batches : bs[b] = "flushed" =>
       (\E i \in 1..Len(q) : q[i] = b) \/ \E w \in Writers : j[w] = b

LEMMA DispatchHeld ==
  ASSUME NEW q \in Seq(Batches), NEW j \in [Writers -> Batches \cup {NoBatch}],
         NEW up \in SUBSET Writers, NEW bs, Held(q, j, bs), Dispatch(q, j, up)
  PROVE  Held(queue', job', bs)
<1>1. PICK c \in Nat : HandsOver(q, j, up, c)
  BY DispatchHands
<1>2. /\ queue' = SubSeq(q, c + 1, Len(q)) /\ Len(q) \in Nat
      /\ \A k \in 1..Len(q) : q[k] \in Batches
  BY <1>1 DEF HandsOver
<1>3. \A i \in 1..Len(queue') : c + i \in 1..Len(q) /\ queue'[i] = q[c + i] /\ i \in Nat
  BY <1>2
<1>4. \A k \in 1..Len(q) : k > c => k - c \in 1..Len(queue') /\ queue'[k - c] = q[k]
  BY <1>2
<1>5. NoBatch \notin Batches
  BY ConstantsAssumption
<1>6. \A i \in 1..Len(queue') : bs[queue'[i]] = "flushed"
  BY <1>3 DEF Held
<1>7. ASSUME NEW i \in 1..Len(queue'), NEW k \in 1..Len(queue'), queue'[i] = queue'[k]
      PROVE  i = k
  <2>1. c + i = c + k
    BY <1>3, <1>7 DEF Held
  <2>2. i \in Nat /\ k \in Nat
    BY <1>3
  <2> QED BY <2>1, <2>2
<1>8. ASSUME NEW w \in Writers, job'[w] # NoBatch
      PROVE  bs[job'[w]] = "flushed"
  BY <1>1, <1>8 DEF HandsOver, Held
<1>9. ASSUME NEW v \in Writers, NEW w \in Writers, job'[v] = job'[w], job'[v] # NoBatch,
             v # w
      PROVE  FALSE
  <2>1. CASE j[v] # NoBatch /\ j[w] # NoBatch
    BY <1>1, <1>9, <2>1 DEF HandsOver, Held
  <2>2. CASE j[v] = NoBatch /\ j[w] = NoBatch
    BY <1>1, <1>9, <2>2 DEF HandsOver, Held
  <2>3. CASE j[v] # NoBatch /\ j[w] = NoBatch
    <3>1. job'[v] = j[v] /\ \E k \in 1..Len(q) : job'[w] = q[k]
      BY <1>1, <1>9, <2>3 DEF HandsOver
    <3> QED BY <1>9, <3>1 DEF Held
  <2>4. CASE j[v] = NoBatch /\ j[w] # NoBatch
    <3>1. job'[w] = j[w] /\ \E k \in 1..Len(q) : job'[v] = q[k]
      BY <1>1, <1>9, <2>4 DEF HandsOver
    <3> QED BY <1>9, <3>1 DEF Held
  <2> QED BY <2>1, <2>2, <2>3, <2>4
<1>10. ASSUME NEW i \in 1..Len(queue'), NEW w \in Writers
       PROVE  queue'[i] # job'[w]
  <2>1. c + i \in 1..Len(q) /\ queue'[i] = q[c + i] /\ i \in Nat /\ ~(c + i <= c)
    BY <1>3
  <2>2. CASE job'[w] = j[w]
    BY <2>1, <2>2 DEF Held
  <2>3. CASE \E k \in 1..Len(q) : k <= c /\ job'[w] = q[k]
    BY <2>1, <2>3 DEF Held
  <2> QED BY <1>1, <2>2, <2>3 DEF HandsOver
<1>11. ASSUME NEW b \in Batches, bs[b] = "flushed"
       PROVE  (\E i \in 1..Len(queue') : queue'[i] = b) \/ \E w \in Writers : job'[w] = b
  <2>1. CASE \E i \in 1..Len(q) : q[i] = b
    <3>1. PICK i \in 1..Len(q) : q[i] = b
      BY <2>1
    <3>2. CASE i <= c
      BY <1>1, <3>1, <3>2 DEF HandsOver
    <3>3. CASE i > c
      BY <1>4, <3>1, <3>3
    <3> QED BY <3>2, <3>3
  <2>2. CASE \E w \in Writers : j[w] = b
    <3>1. PICK w \in Writers : j[w] = b
      BY <2>2
    <3>2. job'[w] = b
      BY <1>1, <1>5, <3>1 DEF HandsOver
    <3> QED BY <3>2
  <2> QED BY <1>11, <2>1, <2>2 DEF Held
<1> QED BY <1>6, <1>7, <1>8, <1>9, <1>10, <1>11 DEF Held

\* flush() puts into the queue a batch that nobody holds.
LEMMA HeldJoins ==
  ASSUME NEW q \in Seq(Batches), NEW j \in [Writers -> Batches \cup {NoBatch}],
         NEW bs, DOMAIN bs = Batches, Held(q, j, bs), NEW b \in Batches, bs[b] # "flushed"
  PROVE  Held(Append(q, b), j, [bs EXCEPT ![b] = "flushed"])
<1> DEFINE q2 == Append(q, b)
           bs2 == [bs EXCEPT ![b] = "flushed"]
<1>1. Len(q) \in Nat /\ \A i \in 1..Len(q) : q[i] \in Batches
  OBVIOUS
<1>2. /\ \A i \in 1..Len(q2) : \/ i \in 1..Len(q) /\ q2[i] = q[i]
                               \/ i = Len(q) + 1 /\ q2[i] = b
      /\ \A i \in 1..Len(q) : i \in 1..Len(q2) /\ q2[i] = q[i]
      /\ Len(q) + 1 \in 1..Len(q2) /\ q2[Len(q) + 1] = b
  <2>1. Len(q2) = Len(q) + 1 /\ q2[Len(q) + 1] = b /\ \A i \in 1..Len(q) : q2[i] = q[i]
    OBVIOUS
  <2>2. \A i \in 1..Len(q) + 1 : i \in 1..Len(q) \/ i = Len(q) + 1
    BY <1>1
  <2>3. \A i \in 1..Len(q) : i \in 1..Len(q) + 1
    BY <1>1
  <2>4. Len(q) + 1 \in 1..Len(q) + 1
    BY <1>1
  <2> HIDE DEF q2
  <2>5. ASSUME NEW i \in 1..Len(q2)
        PROVE  \/ i \in 1..Len(q) /\ q2[i] = q[i]
               \/ i = Len(q) + 1 /\ q2[i] = b
    <3>1. i \in 1..Len(q) + 1
      BY <2>1
    <3> QED BY <3>1, <2>1, <2>2
  <2>6. \A i \in 1..Len(q) : i \in 1..Len(q2) /\ q2[i] = q[i]
    BY <2>1, <2>3
  <2>7. Len(q) + 1 \in 1..Len(q2)
    BY <2>1, <2>4
  <2> QED BY <2>1, <2>5, <2>6, <2>7
<1>3. bs2[b] = "flushed" /\ \A c \in Batches : c # b => bs2[c] = bs[c]
  OBVIOUS
<1>4. \A i \in 1..Len(q) : q[i] # b
  BY DEF Held
<1>5. \A w \in Writers : j[w] # b
  BY ConstantsAssumption DEF Held
<1> HIDE DEF q2, bs2
<1>6. \A i \in 1..Len(q2) : bs2[q2[i]] = "flushed"
  BY <1>1, <1>2, <1>3 DEF Held
<1>7. \A i, k \in 1..Len(q2) : q2[i] = q2[k] => i = k
  BY <1>2, <1>4 DEF Held
<1>8. \A w \in Writers : j[w] # NoBatch => bs2[j[w]] = "flushed"
  BY <1>3, <1>5 DEF Held
<1>9. \A v, w \in Writers : j[v] = j[w] /\ j[v] # NoBatch => v = w
  BY DEF Held
<1>10. \A i \in 1..Len(q2), w \in Writers : q2[i] # j[w]
  BY <1>2, <1>5 DEF Held
<1>11. \A c \in Batches : bs2[c] = "flushed" =>
         (\E i \in 1..Len(q2) : q2[i] = c) \/ \E w \in Writers : j[w] = c
  BY <1>2, <1>3 DEF Held
<1>12. Held(q2, j, bs2)
  BY <1>6, <1>7, <1>8, <1>9, <1>10, <1>11 DEF Held
<1> QED BY <1>12 DEF q2, bs2

\* runCopy() settles the batch of its writer.
LEMMA HeldSettles ==
  ASSUME NEW q \in Seq(Batches), NEW j \in [Writers -> Batches \cup {NoBatch}],
         NEW bs, DOMAIN bs = Batches, Held(q, j, bs), NEW w \in Writers, j[w] # NoBatch,
         NEW outcome, outcome # "flushed"
  PROVE  Held(q, [j EXCEPT ![w] = NoBatch], [bs EXCEPT ![j[w]] = outcome])
<1> DEFINE b == j[w]
           j2 == [j EXCEPT ![w] = NoBatch]
           bs2 == [bs EXCEPT ![b] = outcome]
<1>1. b \in Batches /\ \A i \in 1..Len(q) : q[i] \in Batches
  OBVIOUS
<1>2. j2[w] = NoBatch /\ \A v \in Writers : v # w => j2[v] = j[v] /\ j[v] # b
  BY DEF Held
<1>3. bs2[b] = outcome /\ \A c \in Batches : c # b => bs2[c] = bs[c]
  OBVIOUS
<1>4. \A i \in 1..Len(q) : q[i] # b
  BY DEF Held
<1>5. \A v \in Writers : j2[v] # NoBatch => v # w /\ j2[v] = j[v] /\ j[v] # b /\ j[v] \in Batches
  BY <1>2
<1>6. \A i \in 1..Len(q), v \in Writers : q[i] # j2[v]
  <2>1. NoBatch \notin Batches
    BY ConstantsAssumption
  <2> QED BY <1>1, <1>2, <2>1 DEF Held
<1>7. \A v \in Writers : j[v] # b => j2[v] = j[v]
  BY <1>2
<1> HIDE DEF j2, bs2, b
<1>8. \A i \in 1..Len(q) : bs2[q[i]] = "flushed"
  BY <1>1, <1>3, <1>4 DEF Held
<1>9. \A v \in Writers : j2[v] # NoBatch => bs2[j2[v]] = "flushed"
  BY <1>3, <1>5 DEF Held
<1>10. \A u, v \in Writers : j2[u] = j2[v] /\ j2[u] # NoBatch => u = v
  BY <1>5 DEF Held
<1>11. \A i, k \in 1..Len(q) : q[i] = q[k] => i = k
  BY DEF Held
<1>12. \A c \in Batches : bs2[c] = "flushed" =>
         (\E i \in 1..Len(q) : q[i] = c) \/ \E v \in Writers : j2[v] = c
  BY <1>3, <1>7 DEF Held
<1>13. Held(q, j2, bs2)
  BY <1>6, <1>8, <1>9, <1>10, <1>11, <1>12 DEF Held
<1> QED BY <1>13 DEF j2, bs2, b

\* A batch that is not in anybody's hands changes to a state in which it is not either.
LEMMA HeldElsewhere ==
  ASSUME NEW q \in Seq(Batches), NEW j \in [Writers -> Batches \cup {NoBatch}],
         NEW bs, NEW bs2, Held(q, j, bs),
         \A b \in Batches : bs2[b] = "flushed" <=> bs[b] = "flushed"
  PROVE  Held(q, j, bs2)
<1>1. \A i \in 1..Len(q) : q[i] \in Batches
  OBVIOUS
<1> QED BY <1>1 DEF Held

-----------------------------------------------------------------------------
(* Batches pass from hand to hand, and flush() closes them.                *)

HandsInv ==
  /\ Held(queue, job, bstate)
  /\ openBatch # NoBatch => bstate[openBatch] = "open"

\* A step leaves alone the rows of the batches flush() has closed, and their outcome once
\* they have one.
Frozen ==
  \A b \in Batches :
    /\ bstate[b] \notin {"none", "open"} =>
         content'[b] = content[b] /\ bstate'[b] \notin {"none", "open"}
    /\ bstate[b] \in {"resolved", "rejected"} => bstate'[b] = bstate[b]

LEMMA HandsTypes ==
  ASSUME TypeInv
  PROVE  /\ queue \in Seq(Batches) /\ job \in [Writers -> Batches \cup {NoBatch}]
         /\ bstate \in [Batches -> {"none", "open", "flushed", "resolved", "rejected"}]
         /\ DOMAIN bstate = Batches
         /\ openBatch \in Batches \cup {NoBatch}
         /\ HealthyWriters \in SUBSET Writers /\ NoBatch \notin Batches
<1>1. bstate \in [Batches -> {"none", "open", "flushed", "resolved", "rejected"}]
  BY DEF TypeInv, TypeOK
<1>2. DOMAIN bstate = Batches
  BY <1>1
<1> QED BY <1>1, <1>2, ConstantsAssumption DEF TypeInv, TypeOK, HealthyWriters

LEMMA HandsUnchanged ==
  ASSUME HandsInv, UNCHANGED <<queue, job, bstate, openBatch>>
  PROVE  HandsInv'
BY DEF HandsInv

LEMMA FlushHands ==
  ASSUME TypeInv, HandsInv, NEW b \in Batches, bstate[b] \in {"none", "open"}, NEW n,
         Flush(b, n)
  PROVE  /\ HandsInv'
         /\ \A c \in Batches : c # b => bstate'[c] = bstate[c]
<1>1. openBatch' = NoBatch
  BY DEF Flush
<1>2. CASE n = 0
  <2>1. bstate' = [bstate EXCEPT ![b] = "resolved"] /\ queue' = queue /\ job' = job
    BY <1>2 DEF Flush, writerVars
  <2>2. \A c \in Batches : bstate'[c] = "flushed" <=> bstate[c] = "flushed"
    BY <2>1, HandsTypes
  <2>3. Held(queue, job, bstate')
    BY <2>2, HandsTypes, HeldElsewhere DEF HandsInv
  <2>4. \A c \in Batches : c # b => bstate'[c] = bstate[c]
    BY <2>1, HandsTypes
  <2> QED BY <1>1, <2>1, <2>3, <2>4 DEF HandsInv
<1>3. CASE n # 0
  <2>1. /\ bstate' = [bstate EXCEPT ![b] = "flushed"]
        /\ Dispatch(Append(queue, b), job, HealthyWriters)
    BY <1>3 DEF Flush
  <2>2. Held(Append(queue, b), job, bstate')
    BY <2>1, HandsTypes, HeldJoins DEF HandsInv
  <2>3. Append(queue, b) \in Seq(Batches)
    BY HandsTypes
  <2>4. Held(queue', job', bstate')
    BY <2>1, <2>2, <2>3, HandsTypes, DispatchHeld
  <2>5. \A c \in Batches : c # b => bstate'[c] = bstate[c]
    BY <2>1, HandsTypes
  <2> QED BY <1>1, <2>4, <2>5 DEF HandsInv
<1> QED BY <1>2, <1>3

\* The timer, the setImmediate and stop().
LEMMA FlushOpenHands ==
  ASSUME TypeInv, HandsInv, openBatch # NoBatch, Flush(openBatch, nrows[openBatch]),
         content' = content
  PROVE  HandsInv' /\ Frozen
<1>1. openBatch \in Batches /\ bstate[openBatch] = "open"
  BY HandsTypes DEF HandsInv
<1>2. HandsInv' /\ \A c \in Batches : c # openBatch => bstate'[c] = bstate[c]
  BY <1>1, FlushHands
<1> QED BY <1>1, <1>2 DEF Frozen

LEMMA DepositHands ==
  ASSUME TypeInv, HandsInv, NEW r \in Requests, DepositChunk(r)
  PROVE  HandsInv' /\ Frozen
<1>1. PICK b \in Batches : \E take \in {ChunkSize(r, b)} :
        /\ IsCurrentBatch(b)
        /\ content' = [content EXCEPT ![b] =
             @ \cup {<<r, i>> : i \in written[r] + 1 .. written[r] + take}]
        /\ \/ Flush(b, nrows'[b])
           \/ /\ bstate' = [bstate EXCEPT ![b] = "open"]
              /\ openBatch' = b
              /\ UNCHANGED writerVars
  BY DEF DepositChunk
<1>2. bstate[b] \in {"none", "open"}
  <2>1. CASE openBatch # NoBatch
    BY <1>1, <2>1 DEF IsCurrentBatch, HandsInv
  <2>2. CASE openBatch = NoBatch
    BY <1>1, <2>2 DEF IsCurrentBatch
  <2> QED BY <2>1, <2>2
<1>3. \A c \in Batches : c # b => content'[c] = content[c]
  BY <1>1 DEF TypeInv, TypeOK
<1>4. CASE Flush(b, nrows'[b])
  <2>1. HandsInv' /\ \A c \in Batches : c # b => bstate'[c] = bstate[c]
    BY <1>2, <1>4, FlushHands
  <2> QED BY <1>2, <1>3, <2>1 DEF Frozen
<1>5. CASE bstate' = [bstate EXCEPT ![b] = "open"] /\ openBatch' = b /\ UNCHANGED writerVars
  <2>1. \A c \in Batches : c # b => bstate'[c] = bstate[c]
    BY <1>5, HandsTypes
  <2>2. bstate'[b] = "open"
    BY <1>5, HandsTypes
  <2>3. \A c \in Batches : bstate'[c] = "flushed" <=> bstate[c] = "flushed"
    BY <1>2, <2>1, <2>2
  <2>4. Held(queue, job, bstate')
    BY <2>3, HandsTypes, HeldElsewhere DEF HandsInv
  <2> QED BY <1>2, <1>3, <1>5, <2>1, <2>2, <2>4 DEF Frozen, HandsInv, writerVars
<1> QED BY <1>1, <1>4, <1>5

LEMMA EndCopyHands ==
  ASSUME TypeInv, HandsInv, NEW w \in Writers, phase[w] # "idle",
         NEW outcome \in {"resolved", "rejected"}, EndCopy(w, outcome)
  PROVE  HandsInv' /\ Frozen
<1> DEFINE j == [job EXCEPT ![w] = NoBatch]
<1>1. /\ bstate' = [bstate EXCEPT ![job[w]] = outcome]
      /\ Dispatch(queue, j, HealthyWriters)
      /\ content' = content /\ openBatch' = openBatch
  BY DEF EndCopy
<1>2. job[w] # NoBatch /\ job[w] \in Batches
  BY HandsTypes DEF TypeInv, JobPhase
<1>3. bstate[job[w]] = "flushed"
  BY <1>2 DEF HandsInv, Held
<1>4. j \in [Writers -> Batches \cup {NoBatch}]
  BY HandsTypes
<1>5. Held(queue, j, bstate')
  BY <1>1, <1>2, HandsTypes, HeldSettles DEF HandsInv
<1> HIDE DEF j
<1>6. Held(queue', job', bstate')
  BY <1>1, <1>4, <1>5, HandsTypes, DispatchHeld
<1>7. \A c \in Batches : c # job[w] => bstate'[c] = bstate[c]
  BY <1>1, HandsTypes
<1>8. bstate'[job[w]] = outcome
  BY <1>1, <1>2, HandsTypes
<1>9. openBatch' # NoBatch => bstate'[openBatch'] = "open"
  BY <1>1, <1>3, <1>7, HandsTypes DEF HandsInv
<1> QED BY <1>1, <1>3, <1>6, <1>7, <1>8, <1>9 DEF HandsInv, Frozen

LEMMA WatchdogHands ==
  ASSUME TypeInv, HandsInv, Watchdog
  PROVE  HandsInv' /\ Frozen
<1>1. PICK n \in 1..Len(queue) :
        /\ queue' = SubSeq(queue, n + 1, Len(queue))
        /\ bstate' = [b \in Batches |->
             IF \E i \in 1..n : queue[i] = b THEN "rejected" ELSE bstate[b]]
  BY DEF Watchdog
<1>2. job' = job /\ openBatch' = openBatch /\ content' = content
  BY DEF Watchdog
<1>3. Len(queue) \in Nat /\ n \in Nat /\ \A k \in 1..Len(queue) : queue[k] \in Batches
  BY HandsTypes
<1>4. \A i \in 1..Len(queue') : n + i \in 1..Len(queue) /\ queue'[i] = queue[n + i] /\ i \in Nat
  BY <1>1, <1>3, HandsTypes
<1>5. \A k \in 1..Len(queue) : k > n => k - n \in 1..Len(queue') /\ queue'[k - n] = queue[k]
  BY <1>1, <1>3, HandsTypes
<1>6. \A i \in 1..n : i \in 1..Len(queue) /\ i \in Nat /\ i <= n
  BY <1>3
<1>7. \A b \in Batches : (\A i \in 1..n : queue[i] # b) => bstate'[b] = bstate[b]
  BY <1>1
<1>8. \A b \in Batches : (\E i \in 1..n : queue[i] = b) =>
        bstate'[b] = "rejected" /\ bstate[b] = "flushed"
  BY <1>1, <1>6 DEF HandsInv, Held
<1>9. \A i \in 1..Len(queue') : bstate'[queue'[i]] = "flushed"
  <2>1. ASSUME NEW i \in 1..Len(queue')
        PROVE  bstate'[queue'[i]] = "flushed"
    <3>1. \A k \in 1..n : queue[k] # queue[n + i]
      <4>1. \A k \in 1..n : k # n + i
        BY <1>4, <1>6
      <4> QED BY <1>4, <1>6, <4>1 DEF HandsInv, Held
    <3>2. bstate'[queue[n + i]] = bstate[queue[n + i]]
      BY <1>3, <1>4, <1>7, <3>1
    <3> QED BY <1>4, <3>2 DEF HandsInv, Held
  <2> QED BY <2>1
<1>10. ASSUME NEW i \in 1..Len(queue'), NEW k \in 1..Len(queue'), queue'[i] = queue'[k]
       PROVE  i = k
  <2>1. \A l, m \in 1..Len(queue) : queue[l] = queue[m] => l = m
    BY DEF HandsInv, Held
  <2>2. /\ n + i \in 1..Len(queue) /\ queue'[i] = queue[n + i] /\ i \in Nat
        /\ n + k \in 1..Len(queue) /\ queue'[k] = queue[n + k] /\ k \in Nat
    BY <1>4
  <2>3. queue[n + i] = queue[n + k]
    BY <1>10, <2>2
  <2>4. n + i = n + k
    BY <2>1, <2>2, <2>3
  <2> QED BY <1>3, <2>2, <2>4
<1>11. \A w \in Writers : job'[w] # NoBatch => bstate'[job'[w]] = "flushed"
  <2>1. \A w \in Writers, i \in 1..n : queue[i] # job[w]
    BY <1>6 DEF HandsInv, Held
  <2> QED BY <1>2, <1>7, <2>1, HandsTypes DEF HandsInv, Held
<1>12. \A v, w \in Writers : job'[v] = job'[w] /\ job'[v] # NoBatch => v = w
  BY <1>2 DEF HandsInv, Held
<1>13. \A i \in 1..Len(queue'), w \in Writers : queue'[i] # job'[w]
  BY <1>2, <1>4 DEF HandsInv, Held
<1>14. ASSUME NEW b \in Batches, bstate'[b] = "flushed"
       PROVE  (\E i \in 1..Len(queue') : queue'[i] = b) \/ \E w \in Writers : job'[w] = b
  <2>1. bstate[b] = "flushed" /\ \A i \in 1..n : queue[i] # b
    BY <1>7, <1>8, <1>14
  <2>2. CASE \E i \in 1..Len(queue) : queue[i] = b
    <3>1. PICK i \in 1..Len(queue) : queue[i] = b
      BY <2>2
    <3>2. i > n
      BY <1>3, <2>1, <3>1
    <3> QED BY <1>5, <3>1, <3>2
  <2>3. CASE \E w \in Writers : job[w] = b
    BY <1>2, <2>3
  <2> QED BY <2>1, <2>2, <2>3 DEF HandsInv, Held
<1>15. Held(queue', job', bstate')
  BY <1>9, <1>10, <1>11, <1>12, <1>13, <1>14 DEF Held
<1>16. openBatch' # NoBatch => bstate'[openBatch'] = "open"
  BY <1>2, <1>7, <1>8, HandsTypes DEF HandsInv
<1> QED BY <1>2, <1>7, <1>8, <1>15, <1>16 DEF HandsInv, Frozen

LEMMA HandsNext ==
  ASSUME TypeInv, HandsInv, [Next]_vars
  PROVE  HandsInv' /\ Frozen
<1> USE DEF requestVars, idVars, batchVars, writerVars, connVars, serverVars, controlVars
<1>1. ASSUME UNCHANGED <<queue, job, bstate, openBatch, content>>
      PROVE  HandsInv' /\ Frozen
  BY <1>1, HandsUnchanged DEF Frozen
<1>2. ASSUME NEW r \in Requests, RequestStep(r) PROVE HandsInv' /\ Frozen
  <2>1. CASE DepositChunk(r)
    BY <2>1, DepositHands
  <2>2. CASE \/ Append_Refuse(r) \/ Append_Shed(r) \/ Append_Admit(r)
             \/ Registered(r) \/ RegisterFailed(r) \/ NeedIds(r)
             \/ AllWritten(r) \/ Finish_Acked(r) \/ Finish_Failed(r)
    BY <1>1, <2>2 DEF Append_Refuse, Append_Shed, Append_Admit, Registered, RegisterFailed,
                      NeedIds, AllWritten, Finish_Acked, Finish_Failed
  <2> QED BY <1>2, <2>1, <2>2 DEF RequestStep
<1>3. ASSUME NEW w \in Writers, WriterStep(w) PROVE HandsInv' /\ Frozen
  <2>1. CASE CopyDone(w)
    <3>1. phase[w] # "idle" /\ EndCopy(w, "resolved")
      BY <2>1 DEF CopyDone
    <3> QED BY <3>1, EndCopyHands
  <2>2. CASE CopyFailed(w)
    <3>1. phase[w] # "idle" /\ EndCopy(w, "rejected")
      BY <2>2 DEF CopyFailed
    <3> QED BY <3>1, EndCopyHands
  <2>3. CASE EnsureDone(w) \/ ConnLost(w) \/ StrayEnds(w)
    BY <1>1, <2>3 DEF EnsureDone, ConnLost, StrayEnds
  <2>4. CASE Reconnected(w)
    <3>1. /\ Dispatch(queue, job, HealthyWriters \cup {w})
          /\ bstate' = bstate /\ openBatch' = openBatch /\ content' = content
      BY <2>4 DEF Reconnected
    <3>2. HealthyWriters \cup {w} \in SUBSET Writers
      BY HandsTypes
    <3>3. Held(queue', job', bstate)
      BY <3>1, <3>2, HandsTypes, DispatchHeld DEF HandsInv
    <3> QED BY <3>1, <3>3 DEF HandsInv, Frozen
  <2> QED BY <1>3, <2>1, <2>2, <2>3, <2>4 DEF WriterStep
<1>4. ASSUME NEW b \in Batches, ServerCommit(b) \/ ServerAbort(b) PROVE HandsInv' /\ Frozen
  BY <1>1, <1>4 DEF ServerCommit, ServerAbort
<1>5. CASE BlockArrived \/ BlockFailed \/ WalFlush \/ DbCrash \/ StopFinish
  BY <1>1, <1>5 DEF BlockArrived, BlockFailed, WalFlush, DbCrash, StopFinish
<1>6. CASE FlushTimer
  BY <1>6, FlushOpenHands DEF FlushTimer
<1>7. CASE FlushSoon
  <2>1. CASE OpenHasRows
    BY <1>7, <2>1, FlushOpenHands DEF FlushSoon, OpenHasRows
  <2>2. CASE ~OpenHasRows
    BY <1>1, <1>7, <2>2 DEF FlushSoon
  <2> QED BY <2>1, <2>2
<1>8. CASE Watchdog
  BY <1>8, WatchdogHands
<1>9. CASE Stop
  <2>1. CASE openBatch # NoBatch
    BY <1>9, <2>1, FlushOpenHands DEF Stop
  <2>2. CASE openBatch = NoBatch
    BY <1>1, <1>9, <2>2 DEF Stop
  <2> QED BY <2>1, <2>2
<1>10. CASE UNCHANGED vars
  BY <1>1, <1>10 DEF vars
<1> QED BY <1>2, <1>3, <1>4, <1>5, <1>6, <1>7, <1>8, <1>9, <1>10 DEF Next

LEMMA InitHands == Init => HandsInv
<1> SUFFICES ASSUME Init PROVE HandsInv
  OBVIOUS
<1>1. queue = <<>> /\ Len(queue) = 0 /\ ~ \E i \in 1..Len(queue) : TRUE
  BY DEF Init
<1>2. \A w \in Writers : job[w] = NoBatch
  BY DEF Init
<1>3. \A b \in Batches : bstate[b] # "flushed"
  BY DEF Init
<1>4. Held(queue, job, bstate)
  BY <1>1, <1>2, <1>3 DEF Held
<1> QED BY <1>4 DEF Init, HandsInv

\* From flush() on the rows of a batch no longer change, and once its promise is settled
\* the outcome stands.
THEOREM FlushedBatchesFrozen == Spec => BatchesFrozen
<1>1. Init => TypeInv /\ HandsInv
  BY InitTypeInv, InitHands
<1>2. TypeInv /\ HandsInv /\ [Next]_vars => (TypeInv /\ HandsInv)'
  BY NextTypeInv, HandsNext
<1>3. TypeInv /\ HandsInv /\ [Next]_vars =>
        [\A b \in Batches :
           /\ bstate[b] \notin {"none", "open"} =>
                content'[b] = content[b] /\ bstate'[b] \notin {"none", "open"}
           /\ bstate[b] \in {"resolved", "rejected"} => bstate'[b] = bstate[b]]_vars
  BY HandsNext DEF Frozen
<1> QED BY <1>1, <1>2, <1>3, PTL DEF Spec, BatchesFrozen

LEMMA EmptyHasNone == Cardinality({}) = 0
BY FS_EmptySet

LEMMA HeldOnce ==
  ASSUME TypeInv, HandsInv
  PROVE  Custody
<1> SUFFICES ASSUME NEW b \in Batches
             PROVE  Cardinality({i \in 1..Len(queue) : queue[i] = b})
                      + Cardinality({w \in Writers : job[w] = b})
                    = IF bstate[b] = "flushed" THEN 1 ELSE 0
  BY DEF Custody
<1> DEFINE Q == {i \in 1..Len(queue) : queue[i] = b}
           J == {w \in Writers : job[w] = b}
<1>1. b # NoBatch
  BY HandsTypes
<1>2. Held(queue, job, bstate)
  BY DEF HandsInv
<1>3. CASE bstate[b] # "flushed"
  <2>1. Q = {} /\ J = {}
    BY <1>1, <1>2, <1>3 DEF Held
  <2> HIDE DEF Q, J
  <2>2. Cardinality(Q) = 0 /\ Cardinality(J) = 0
    BY <2>1, EmptyHasNone
  <2>3. Cardinality(Q) + Cardinality(J) = 0
    BY <2>2
  <2> QED BY <1>3, <2>3 DEF Q, J
<1>4. CASE bstate[b] = "flushed"
  <2>1. CASE \E i \in 1..Len(queue) : queue[i] = b
    <3>1. PICK i \in 1..Len(queue) : queue[i] = b
      BY <2>1
    <3>2. Q = {i} /\ J = {}
      BY <1>2, <3>1 DEF Held
    <3> HIDE DEF Q, J
    <3>3. Cardinality(Q) = 1 /\ Cardinality(J) = 0
      BY <3>2, EmptyHasNone, FS_Singleton
    <3>4. Cardinality(Q) + Cardinality(J) = 1
      BY <3>3
    <3> QED BY <1>4, <3>4 DEF Q, J
  <2>2. CASE \E w \in Writers : job[w] = b
    <3>1. PICK w \in Writers : job[w] = b
      BY <2>2
    <3>2. Q = {} /\ J = {w}
      BY <1>1, <1>2, <3>1 DEF Held
    <3> HIDE DEF Q, J
    <3>3. Cardinality(Q) = 0 /\ Cardinality(J) = 1
      BY <3>2, EmptyHasNone, FS_Singleton
    <3>4. Cardinality(Q) + Cardinality(J) = 1
      BY <3>3
    <3> QED BY <1>4, <3>4 DEF Q, J
  <2> QED BY <1>2, <1>4, <2>1, <2>2 DEF Held
<1> QED BY <1>3, <1>4

\* No batch is lost or doubled: a flushed batch that is not settled is in the queue or
\* with one writer, once, and any other batch is with nobody.
THEOREM BatchesAreHeldOnce == Spec => []Custody
<1>1. Init => TypeInv /\ HandsInv
  BY InitTypeInv, InitHands
<1>2. TypeInv /\ HandsInv /\ [Next]_vars => (TypeInv /\ HandsInv)'
  BY NextTypeInv, HandsNext
<1>3. TypeInv /\ HandsInv => Custody
  BY HeldOnce
<1> QED BY <1>1, <1>2, <1>3, PTL DEF Spec

-----------------------------------------------------------------------------
(* Nothing waits while somebody is free to serve it.                       *)

IdleInv == NoStrandedBatch /\ IdleReleasesOpenBatch

\* dispatch() with every healthy writer in view.
LEMMA DispatchBusy ==
  ASSUME NEW q \in Seq(Batches), NEW j \in [Writers -> Batches \cup {NoBatch}],
         NEW up \in SUBSET Writers, Dispatch(q, j, up),
         \A w \in Writers : Healthy(w)' => w \in up
  PROVE  NoStrandedBatch'
<1>1. PICK c \in Nat : HandsOver(q, j, up, c)
  BY DispatchHands
<1>2. queue' # <<>> => \A w \in up : job'[w] # NoBatch
  BY <1>1 DEF HandsOver
<1> QED BY <1>2 DEF NoStrandedBatch

\* A step that makes nobody idle or healthy and opens no batch.
LEMMA IdleKept ==
  ASSUME IdleInv, queue' = queue, job' = job, stopped' = stopped,
         \A w \in Writers : Healthy(w)' => Healthy(w),
         OpenHasRows' => OpenHasRows,
         flushSoon => flushSoon'
  PROVE  IdleInv'
<1>1. SystemIdle' => SystemIdle
  BY DEF SystemIdle
<1> QED BY <1>1 DEF IdleInv, NoStrandedBatch, IdleReleasesOpenBatch

\* After flush() there is no open batch.
LEMMA FlushIdle ==
  ASSUME TypeInv, IdleInv, NEW b \in Batches, NEW n, Flush(b, n), conn' = conn
  PROVE  IdleInv'
<1>1. openBatch' = NoBatch
  BY DEF Flush
<1>2. IdleReleasesOpenBatch'
  BY <1>1 DEF IdleReleasesOpenBatch, OpenHasRows
<1>3. \A w \in Writers : Healthy(w)' => Healthy(w) /\ w \in HealthyWriters
  BY DEF Healthy, HealthyWriters
<1>4. CASE n = 0
  <2>1. queue' = queue /\ job' = job
    BY <1>4 DEF Flush, writerVars
  <2>2. NoStrandedBatch'
    BY <1>3, <2>1 DEF IdleInv, NoStrandedBatch
  <2> QED BY <1>2, <2>2 DEF IdleInv
<1>5. CASE n # 0
  <2>1. Dispatch(Append(queue, b), job, HealthyWriters)
    BY <1>5 DEF Flush
  <2>2. Append(queue, b) \in Seq(Batches)
    BY HandsTypes
  <2>3. NoStrandedBatch'
    BY <1>3, <2>1, <2>2, HandsTypes, DispatchBusy
  <2> QED BY <1>2, <2>3 DEF IdleInv
<1> QED BY <1>4, <1>5

LEMMA FlushOpenIdle ==
  ASSUME TypeInv, IdleInv, openBatch # NoBatch, Flush(openBatch, nrows[openBatch]),
         conn' = conn
  PROVE  IdleInv'
<1>1. openBatch \in Batches
  BY HandsTypes
<1> QED BY <1>1, FlushIdle

LEMMA ScheduleIdle ==
  ASSUME NoStrandedBatch', ScheduleAdaptiveFlush, stopped' = stopped
  PROVE  IdleInv'
BY DEF IdleInv, IdleReleasesOpenBatch, ScheduleAdaptiveFlush

LEMMA DepositIdle ==
  ASSUME TypeInv, IdleInv, NEW r \in Requests, DepositChunk(r)
  PROVE  IdleInv'
<1>1. PICK b \in Batches :
        \/ Flush(b, nrows'[b])
        \/ UNCHANGED writerVars /\ ScheduleAdaptiveFlush
  BY DEF DepositChunk
<1>2. conn' = conn /\ stopped' = stopped
  BY DEF DepositChunk, connVars
<1>3. CASE Flush(b, nrows'[b])
  BY <1>2, <1>3, FlushIdle
<1>4. CASE UNCHANGED writerVars /\ ScheduleAdaptiveFlush
  <2>1. NoStrandedBatch'
    BY <1>2, <1>4 DEF IdleInv, NoStrandedBatch, Healthy, writerVars
  <2> QED BY <1>2, <1>4, <2>1, ScheduleIdle
<1> QED BY <1>1, <1>3, <1>4

LEMMA EndCopyIdle ==
  ASSUME TypeInv, NEW w \in Writers, NEW outcome, EndCopy(w, outcome)
  PROVE  IdleInv'
<1> DEFINE j == [job EXCEPT ![w] = NoBatch]
<1>1. /\ Dispatch(queue, j, HealthyWriters)
      /\ ScheduleAdaptiveFlush /\ conn' = conn /\ stopped' = stopped
  BY DEF EndCopy
<1>2. \A v \in Writers : Healthy(v)' => v \in HealthyWriters
  BY <1>1 DEF Healthy, HealthyWriters
<1>3. j \in [Writers -> Batches \cup {NoBatch}]
  BY HandsTypes
<1> HIDE DEF j
<1>4. NoStrandedBatch'
  BY <1>1, <1>2, <1>3, HandsTypes, DispatchBusy
<1> QED BY <1>1, <1>4, ScheduleIdle

LEMMA ReconnectedIdle ==
  ASSUME TypeInv, NEW w \in Writers, Reconnected(w)
  PROVE  IdleInv'
<1>1. /\ Dispatch(queue, job, HealthyWriters \cup {w})
      /\ ScheduleAdaptiveFlush /\ stopped' = stopped
      /\ conn' = [conn EXCEPT ![w] = "up"]
  BY DEF Reconnected
<1>2. \A v \in Writers : v # w => conn'[v] = conn[v]
  BY <1>1 DEF TypeInv, TypeOK
<1>3. \A v \in Writers : Healthy(v)' => v \in HealthyWriters \cup {w}
  BY <1>2 DEF Healthy, HealthyWriters
<1>4. HealthyWriters \cup {w} \in SUBSET Writers
  BY HandsTypes
<1>5. NoStrandedBatch'
  BY <1>1, <1>3, <1>4, HandsTypes, DispatchBusy
<1> QED BY <1>1, <1>5, ScheduleIdle

\* The watchdog takes from a queue that is not empty, so the healthy writers are busy.
LEMMA WatchdogIdle ==
  ASSUME TypeInv, IdleInv, Watchdog
  PROVE  IdleInv'
<1>1. \E n \in 1..Len(queue) : TRUE
  BY DEF Watchdog
<1>2. queue # <<>>
  BY <1>1, HandsTypes
<1>3. job' = job /\ conn' = conn
  BY DEF Watchdog, connVars
<1>4. \A w \in Writers : Healthy(w)' => job'[w] # NoBatch
  BY <1>2, <1>3 DEF IdleInv, NoStrandedBatch, Healthy
<1>5. ~SystemIdle'
  BY <1>4 DEF SystemIdle
<1> QED BY <1>4, <1>5 DEF IdleInv, NoStrandedBatch, IdleReleasesOpenBatch

LEMMA IdleNext ==
  ASSUME TypeInv, IdleInv, [Next]_vars
  PROVE  IdleInv'
<1> USE DEF requestVars, idVars, writerVars, connVars, serverVars, controlVars
<1>1. ASSUME UNCHANGED <<queue, job, conn, openBatch, nrows, stopped, flushSoon>>
      PROVE  IdleInv'
  BY <1>1, IdleKept DEF Healthy, OpenHasRows
<1>2. ASSUME NEW r \in Requests, RequestStep(r) PROVE IdleInv'
  <2>1. CASE DepositChunk(r)
    BY <2>1, DepositIdle
  <2>2. CASE \/ Append_Refuse(r) \/ Append_Shed(r) \/ Append_Admit(r)
             \/ Registered(r) \/ RegisterFailed(r) \/ NeedIds(r)
             \/ AllWritten(r) \/ Finish_Acked(r) \/ Finish_Failed(r)
    BY <1>1, <2>2 DEF Append_Refuse, Append_Shed, Append_Admit, Registered, RegisterFailed,
                      NeedIds, AllWritten, Finish_Acked, Finish_Failed, batchVars
  <2> QED BY <1>2, <2>1, <2>2 DEF RequestStep
<1>3. ASSUME NEW w \in Writers, WriterStep(w) PROVE IdleInv'
  <2>1. CASE CopyDone(w)
    BY <2>1, EndCopyIdle DEF CopyDone
  <2>2. CASE CopyFailed(w)
    BY <2>2, EndCopyIdle DEF CopyFailed
  <2>3. CASE EnsureDone(w)
    BY <1>1, <2>3 DEF EnsureDone, batchVars
  <2>4. CASE ConnLost(w) \/ StrayEnds(w)
    <3>1. /\ UNCHANGED <<queue, job, openBatch, nrows, stopped, flushSoon>>
          /\ conn[w] = "up"
          /\ conn' = [conn EXCEPT ![w] = "down"] \/ conn' = [conn EXCEPT ![w] = "ended"]
      BY <2>4 DEF ConnLost, StrayEnds, batchVars
    <3>2. \A v \in Writers : Healthy(v)' => Healthy(v)
      BY <3>1 DEF Healthy, TypeInv, TypeOK
    <3> QED BY <3>1, <3>2, IdleKept DEF OpenHasRows
  <2>5. CASE Reconnected(w)
    BY <2>5, ReconnectedIdle
  <2> QED BY <1>3, <2>1, <2>2, <2>3, <2>4, <2>5 DEF WriterStep
<1>4. ASSUME NEW b \in Batches, ServerCommit(b) \/ ServerAbort(b) PROVE IdleInv'
  BY <1>1, <1>4 DEF ServerCommit, ServerAbort, batchVars
<1>5. CASE BlockArrived \/ BlockFailed \/ WalFlush
  BY <1>1, <1>5 DEF BlockArrived, BlockFailed, WalFlush, batchVars
<1>6. CASE DbCrash \/ StopFinish
  <2>1. /\ UNCHANGED <<queue, job, openBatch, nrows, stopped, flushSoon>>
        /\ \/ conn' = [w \in Writers |-> IF conn[w] = "up" THEN "down" ELSE conn[w]]
           \/ conn' = [w \in Writers |-> IF conn[w] = "up" THEN "ended" ELSE conn[w]]
    BY <1>6 DEF DbCrash, StopFinish, batchVars
  <2>2. \A v \in Writers : Healthy(v)' => Healthy(v)
    BY <2>1 DEF Healthy
  <2> QED BY <2>1, <2>2, IdleKept DEF OpenHasRows
<1>7. CASE FlushTimer
  BY <1>7, FlushOpenIdle DEF FlushTimer
<1>8. CASE FlushSoon
  <2>1. CASE OpenHasRows
    BY <1>8, <2>1, FlushOpenIdle DEF FlushSoon, OpenHasRows
  <2>2. CASE ~OpenHasRows
    <3>1. UNCHANGED <<queue, job, conn, openBatch, nrows>>
      BY <1>8, <2>2 DEF FlushSoon
    <3>2. ~OpenHasRows'
      BY <2>2, <3>1 DEF OpenHasRows
    <3>3. NoStrandedBatch'
      BY <3>1 DEF IdleInv, NoStrandedBatch, Healthy
    <3> QED BY <3>2, <3>3 DEF IdleInv, IdleReleasesOpenBatch
  <2> QED BY <2>1, <2>2
<1>9. CASE Watchdog
  BY <1>9, WatchdogIdle
<1>10. CASE Stop
  <2>1. stopped' = TRUE /\ conn' = conn
    BY <1>10 DEF Stop
  <2>2. CASE openBatch # NoBatch
    BY <1>10, <2>1, <2>2, FlushOpenIdle DEF Stop
  <2>3. CASE openBatch = NoBatch
    <3>1. UNCHANGED <<queue, job>>
      BY <1>10, <2>3 DEF Stop
    <3>2. NoStrandedBatch'
      BY <2>1, <3>1 DEF IdleInv, NoStrandedBatch, Healthy
    <3> QED BY <2>1, <3>2 DEF IdleInv, IdleReleasesOpenBatch
  <2> QED BY <2>2, <2>3
<1>11. CASE UNCHANGED vars
  BY <1>1, <1>11 DEF vars, batchVars
<1> QED BY <1>2, <1>3, <1>4, <1>5, <1>6, <1>7, <1>8, <1>9, <1>10, <1>11 DEF Next

LEMMA IdleInvariant == Spec => []IdleInv
<1>1. Init => TypeInv /\ IdleInv
  BY InitTypeInv DEF Init, IdleInv, NoStrandedBatch, IdleReleasesOpenBatch, OpenHasRows
<1>2. TypeInv /\ IdleInv /\ [Next]_vars => (TypeInv /\ IdleInv)'
  BY NextTypeInv, IdleNext
<1> QED BY <1>1, <1>2, PTL DEF Spec

\* No batch waits in the queue while a healthy writer has nothing to do.
THEOREM NobodyIsStranded == Spec => []NoStrandedBatch
<1>1. IdleInv => NoStrandedBatch
  BY DEF IdleInv
<1> QED BY <1>1, IdleInvariant, PTL

\* An idle pipeline never leaves rows to wait for the batch timer.
THEOREM OpenBatchIsReleased == Spec => []IdleReleasesOpenBatch
<1>1. IdleInv => IdleReleasesOpenBatch
  BY DEF IdleInv
<1> QED BY <1>1, IdleInvariant, PTL

-----------------------------------------------------------------------------
(* A batch is given to the database once, and holds its own rows.          *)

\* The batches the database has been given.
Started == {b \in Batches : b \in executing \/ visible[b] > 0}

\* No batch of S is on its way to the database.
NotWaiting(S, q, j, ph) ==
  /\ \A i \in 1..Len(q) : q[i] \notin S
  /\ \A w \in Writers : j[w] \in S => ph[w] # "ensure"

CopyInv ==
  /\ \A b \in Batches : visible[b] <= 1 /\ durable[b] <= visible[b]
  /\ \A b \in executing : visible[b] = 0
  /\ Started \subseteq Sealed
  /\ NotWaiting(Started, queue, job, phase)

LEMMA DispatchNotWaiting ==
  ASSUME NEW q \in Seq(Batches), NEW j \in [Writers -> Batches \cup {NoBatch}],
         NEW up \in SUBSET Writers, Dispatch(q, j, up),
         NEW S \in SUBSET Batches, NotWaiting(S, q, j, phase)
  PROVE  NotWaiting(S, queue', job', phase')
<1>1. PICK c \in Nat : HandsOver(q, j, up, c)
  BY DispatchHands
<1>2. queue' = SubSeq(q, c + 1, Len(q)) /\ Len(q) \in Nat
  BY <1>1 DEF HandsOver
<1>3. \A i \in 1..Len(queue') : c + i \in 1..Len(q) /\ queue'[i] = q[c + i]
  BY <1>2
<1>4. \A i \in 1..Len(queue') : queue'[i] \notin S
  BY <1>3 DEF NotWaiting
<1>5. ASSUME NEW w \in Writers, job'[w] \in S
      PROVE  phase'[w] # "ensure"
  BY <1>1, <1>5 DEF HandsOver, NotWaiting
<1> QED BY <1>4, <1>5 DEF NotWaiting

LEMMA CopyTypes ==
  ASSUME TypeInv
  PROVE  /\ executing \in SUBSET Batches
         /\ visible \in [Batches -> Nat] /\ durable \in [Batches -> Nat]
         /\ phase \in [Writers -> {"idle", "ensure", "copy", "ack", "error", "broken"}]
         /\ Started \in SUBSET Batches
         /\ \A w \in Writers : phase[w] # "idle" => job[w] \in Batches /\ job[w] # NoBatch
BY DEF TypeInv, TypeOK, JobPhase, Started

LEMMA SealedStays ==
  ASSUME TypeInv, HandsInv, [Next]_vars
  PROVE  Sealed \subseteq Sealed'
BY HandsNext DEF Frozen, Sealed

\* A step of ours that gives the database nothing.
LEMMA CopyKept ==
  ASSUME TypeInv, CopyInv, UNCHANGED serverVars, Sealed \subseteq Sealed',
         NotWaiting(Started, queue', job', phase')
  PROVE  CopyInv'
<1>1. visible' = visible /\ durable' = durable /\ executing' = executing
  BY DEF serverVars
<1>2. Started' = Started
  BY <1>1 DEF Started
<1>3. NotWaiting(Started, queue, job, phase)'
  BY <1>2
<1> QED BY <1>1, <1>2, <1>3 DEF CopyInv

LEMMA FlushNotWaiting ==
  ASSUME TypeInv, CopyInv, NEW b \in Batches, bstate[b] \in {"none", "open"}, NEW n,
         Flush(b, n)
  PROVE  NotWaiting(Started, queue', job', phase')
<1>1. CASE n = 0
  BY <1>1 DEF Flush, writerVars, CopyInv
<1>2. CASE n # 0
  <2> DEFINE q == Append(queue, b)
  <2>1. Dispatch(q, job, HealthyWriters)
    BY <1>2 DEF Flush
  <2>2. b \notin Started
    BY DEF CopyInv, Sealed
  <2>3. \A i \in 1..Len(q) : q[i] = b \/ \E k \in 1..Len(queue) : q[i] = queue[k]
    <3>1. Len(q) = Len(queue) + 1 /\ Len(queue) \in Nat
      BY HandsTypes
    <3>2. q[Len(queue) + 1] = b /\ \A i \in 1..Len(queue) : q[i] = queue[i]
      BY HandsTypes
    <3>3. \A i \in 1..Len(queue) + 1 : i \in 1..Len(queue) \/ i = Len(queue) + 1
      BY <3>1
    <3> HIDE DEF q
    <3> QED BY <3>1, <3>2, <3>3
  <2>4. q \in Seq(Batches)
    BY HandsTypes
  <2> HIDE DEF q
  <2>5. NotWaiting(Started, q, job, phase)
    BY <2>2, <2>3 DEF CopyInv, NotWaiting
  <2> QED BY <2>1, <2>4, <2>5, HandsTypes, CopyTypes, DispatchNotWaiting
<1> QED BY <1>1, <1>2

LEMMA FlushOpenNotWaiting ==
  ASSUME TypeInv, HandsInv, CopyInv, openBatch # NoBatch,
         Flush(openBatch, nrows[openBatch])
  PROVE  NotWaiting(Started, queue', job', phase')
<1>1. openBatch \in Batches /\ bstate[openBatch] = "open"
  BY HandsTypes DEF HandsInv
<1> QED BY <1>1, FlushNotWaiting

LEMMA DepositCopy ==
  ASSUME TypeInv, HandsInv, CopyInv, NEW r \in Requests, DepositChunk(r)
  PROVE  NotWaiting(Started, queue', job', phase')
<1>1. PICK b \in Batches :
        /\ IsCurrentBatch(b)
        /\ Flush(b, nrows'[b]) \/ UNCHANGED writerVars
  BY DEF DepositChunk
<1>2. bstate[b] \in {"none", "open"}
  BY <1>1 DEF IsCurrentBatch, HandsInv
<1>3. CASE Flush(b, nrows'[b])
  BY <1>2, <1>3, FlushNotWaiting
<1>4. CASE UNCHANGED writerVars
  BY <1>4 DEF writerVars, CopyInv
<1> QED BY <1>1, <1>3, <1>4

LEMMA EndCopyNotWaiting ==
  ASSUME TypeInv, CopyInv, NEW w \in Writers, NEW outcome, EndCopy(w, outcome)
  PROVE  NotWaiting(Started, queue', job', phase')
<1> DEFINE j == [job EXCEPT ![w] = NoBatch]
<1>1. Dispatch(queue, j, HealthyWriters)
  BY DEF EndCopy
<1>2. j \in [Writers -> Batches \cup {NoBatch}]
  BY HandsTypes
<1>3. \A v \in Writers : j[v] = job[v] \/ j[v] = NoBatch
  BY HandsTypes
<1>4. NoBatch \notin Started
  BY HandsTypes, CopyTypes
<1> HIDE DEF j
<1>5. NotWaiting(Started, queue, j, phase)
  BY <1>3, <1>4 DEF CopyInv, NotWaiting
<1> QED BY <1>1, <1>2, <1>5, HandsTypes, CopyTypes, DispatchNotWaiting

LEMMA WatchdogNotWaiting ==
  ASSUME TypeInv, CopyInv, Watchdog
  PROVE  NotWaiting(Started, queue', job', phase')
<1>1. PICK n \in 1..Len(queue) : queue' = SubSeq(queue, n + 1, Len(queue))
  BY DEF Watchdog
<1>2. job' = job /\ phase' = phase
  BY DEF Watchdog
<1>3. Len(queue) \in Nat /\ n \in Nat
  BY HandsTypes
<1>4. \A i \in 1..Len(queue') : n + i \in 1..Len(queue) /\ queue'[i] = queue[n + i]
  BY <1>1, <1>3, HandsTypes
<1> QED BY <1>2, <1>4 DEF CopyInv, NotWaiting

\* The COPY of a batch starts when its writer leaves ensurePartitionsForRange().
LEMMA EnsureDoneCopy ==
  ASSUME TypeInv, HandsInv, CopyInv, NEW w \in Writers, EnsureDone(w)
  PROVE  CopyInv'
<1> DEFINE b == job[w]
<1>1. /\ phase[w] = "ensure" /\ b \in Batches /\ b # NoBatch
      /\ UNCHANGED <<bstate, queue, job, visible, durable>>
  BY CopyTypes DEF EnsureDone, batchVars
<1>2. /\ phase' = [phase EXCEPT ![w] = "copy"] \/ phase' = [phase EXCEPT ![w] = "broken"]
      /\ executing' = executing \cup {b} \/ executing' = executing
  BY DEF EnsureDone
<1>3. phase'[w] # "ensure" /\ \A v \in Writers : v # w => phase'[v] = phase[v]
  BY <1>2, CopyTypes
<1>4. Held(queue, job, bstate)
  BY DEF HandsInv
<1>5. bstate[b] = "flushed" /\ \A v \in Writers : job[v] = b => v = w
  BY <1>1, <1>4 DEF Held
<1>6. \A i \in 1..Len(queue) : queue[i] # b
  BY <1>4 DEF Held
<1>7. b \notin Started
  BY <1>1 DEF CopyInv, NotWaiting
<1>8. visible[b] = 0
  BY <1>1, <1>7, CopyTypes DEF Started
<1> HIDE DEF b
<1>9. Started' \subseteq Started \cup {b}
  BY <1>1, <1>2 DEF Started
<1>10. Started' \subseteq Sealed'
  BY <1>1, <1>5, <1>9 DEF CopyInv, Sealed
<1>11. NotWaiting(Started', queue', job', phase')
  BY <1>1, <1>3, <1>5, <1>6, <1>9 DEF CopyInv, NotWaiting
<1>12. \A c \in executing' : visible'[c] = 0
  BY <1>1, <1>2, <1>8 DEF CopyInv
<1> QED BY <1>1, <1>10, <1>11, <1>12 DEF CopyInv

\* A step of the database or of a connection: it starts nothing and ends the wait of nobody.
LEMMA ServerCopy ==
  ASSUME TypeInv, CopyInv, UNCHANGED <<bstate, queue, job>>,
         \A w \in Writers : phase'[w] = "ensure" => phase[w] = "ensure",
         Started' \subseteq Started,
         \A b \in Batches : visible'[b] <= 1 /\ durable'[b] <= visible'[b],
         \A b \in executing' : visible'[b] = 0
  PROVE  CopyInv'
<1>1. Sealed' = Sealed
  BY DEF Sealed
<1>2. NotWaiting(Started', queue', job', phase')
  BY DEF CopyInv, NotWaiting
<1> QED BY <1>1, <1>2 DEF CopyInv

LEMMA CommitCopy ==
  ASSUME TypeInv, CopyInv, NEW b \in Batches, ServerCommit(b)
  PROVE  CopyInv'
<1>1. /\ b \in executing /\ executing' = executing \ {b}
      /\ visible' = [visible EXCEPT ![b] = @ + 1]
      /\ durable' = [durable EXCEPT ![b] = @ + 1] \/ durable' = durable
      /\ UNCHANGED <<bstate, queue, job>>
  BY DEF ServerCommit, batchVars
<1>2. \A w \in Writers : phase'[w] = "ensure" => phase[w] = "ensure"
  BY DEF ServerCommit, Reply
<1>3. visible[b] = 0 /\ durable[b] = 0
  BY <1>1, CopyTypes DEF CopyInv
<1>4. /\ visible'[b] = 1 /\ durable'[b] \in {0, 1}
      /\ \A c \in Batches : c # b => visible'[c] = visible[c] /\ durable'[c] = durable[c]
  BY <1>1, <1>3, CopyTypes
<1>5. Started' \subseteq Started
  BY <1>1, <1>4 DEF Started
<1>6. \A c \in Batches : visible'[c] <= 1 /\ durable'[c] <= visible'[c]
  BY <1>4 DEF CopyInv
<1>7. \A c \in executing' : visible'[c] = 0
  BY <1>1, <1>4, CopyTypes DEF CopyInv
<1> QED BY <1>1, <1>2, <1>5, <1>6, <1>7, ServerCopy

LEMMA CrashCopy ==
  ASSUME TypeInv, CopyInv, DbCrash
  PROVE  CopyInv'
<1>1. /\ visible' = durable /\ durable' = durable /\ executing' = {}
      /\ UNCHANGED <<bstate, queue, job>>
  BY DEF DbCrash, batchVars
<1>2. \A w \in Writers : phase'[w] = "ensure" => phase[w] = "ensure"
  BY DEF DbCrash
<1>3. \A c \in Batches : visible'[c] <= 1 /\ durable'[c] <= visible'[c] /\ visible'[c] <= visible[c]
  BY <1>1, CopyTypes DEF CopyInv
<1>4. Started' \subseteq Started
  BY <1>1, <1>3, CopyTypes DEF Started
<1> QED BY <1>1, <1>2, <1>3, <1>4, ServerCopy

LEMMA CopyNext ==
  ASSUME TypeInv, HandsInv, CopyInv, [Next]_vars
  PROVE  CopyInv'
<1> USE DEF requestVars, idVars, batchVars, connVars, controlVars
<1>1. Sealed \subseteq Sealed'
  BY SealedStays
<1>2. ASSUME UNCHANGED <<queue, job, phase, serverVars>>
      PROVE  CopyInv'
  BY <1>1, <1>2, CopyKept DEF CopyInv
<1>3. ASSUME NEW r \in Requests, RequestStep(r) PROVE CopyInv'
  <2>1. CASE DepositChunk(r)
    <3>1. UNCHANGED serverVars
      BY <2>1 DEF DepositChunk
    <3> QED BY <1>1, <2>1, <3>1, DepositCopy, CopyKept
  <2>2. CASE \/ Append_Refuse(r) \/ Append_Shed(r) \/ Append_Admit(r)
             \/ Registered(r) \/ RegisterFailed(r) \/ NeedIds(r)
             \/ AllWritten(r) \/ Finish_Acked(r) \/ Finish_Failed(r)
    BY <1>2, <2>2 DEF Append_Refuse, Append_Shed, Append_Admit, Registered, RegisterFailed,
                      NeedIds, AllWritten, Finish_Acked, Finish_Failed, writerVars
  <2> QED BY <1>3, <2>1, <2>2 DEF RequestStep
<1>4. ASSUME NEW w \in Writers, WriterStep(w) PROVE CopyInv'
  <2>1. CASE CopyDone(w)
    <3>1. EndCopy(w, "resolved")
      BY <2>1 DEF CopyDone
    <3>2. UNCHANGED serverVars
      BY <3>1 DEF EndCopy
    <3> QED BY <1>1, <3>1, <3>2, EndCopyNotWaiting, CopyKept
  <2>2. CASE CopyFailed(w)
    <3>1. EndCopy(w, "rejected")
      BY <2>2 DEF CopyFailed
    <3>2. UNCHANGED serverVars
      BY <3>1 DEF EndCopy
    <3> QED BY <1>1, <3>1, <3>2, EndCopyNotWaiting, CopyKept
  <2>3. CASE EnsureDone(w)
    BY <2>3, EnsureDoneCopy
  <2>4. CASE ConnLost(w) \/ StrayEnds(w)
    <3>1. /\ UNCHANGED <<bstate, queue, job>> /\ UNCHANGED serverVars
          /\ phase' = [phase EXCEPT ![w] = IF @ \in {"copy", "ack", "error"}
                                           THEN "broken" ELSE @]
      BY <2>4 DEF ConnLost, StrayEnds
    <3>2. \A v \in Writers : phase'[v] = "ensure" => phase[v] = "ensure"
      BY <3>1, CopyTypes
    <3>3. NotWaiting(Started, queue', job', phase')
      BY <3>1, <3>2 DEF CopyInv, NotWaiting
    <3> QED BY <1>1, <3>1, <3>3, CopyKept
  <2>5. CASE Reconnected(w)
    <3>1. Dispatch(queue, job, HealthyWriters \cup {w}) /\ UNCHANGED serverVars
      BY <2>5 DEF Reconnected
    <3>2. HealthyWriters \cup {w} \in SUBSET Writers
      BY HandsTypes
    <3>3. NotWaiting(Started, queue', job', phase')
      BY <3>1, <3>2, HandsTypes, CopyTypes, DispatchNotWaiting DEF CopyInv
    <3> QED BY <1>1, <3>1, <3>3, CopyKept
  <2> QED BY <1>4, <2>1, <2>2, <2>3, <2>4, <2>5 DEF WriterStep
<1>5. ASSUME NEW b \in Batches, ServerCommit(b) \/ ServerAbort(b) PROVE CopyInv'
  <2>1. CASE ServerCommit(b)
    BY <2>1, CommitCopy
  <2>2. CASE ServerAbort(b)
    <3>1. /\ UNCHANGED <<bstate, queue, job, visible, durable>>
          /\ executing' \subseteq executing
      BY <2>2 DEF ServerAbort
    <3>2. \A w \in Writers : phase'[w] = "ensure" => phase[w] = "ensure"
      BY <2>2 DEF ServerAbort, Reply
    <3>3. Started' \subseteq Started
      BY <3>1 DEF Started
    <3> QED BY <3>1, <3>2, <3>3, ServerCopy DEF CopyInv
  <2> QED BY <1>5, <2>1, <2>2
<1>6. CASE BlockArrived \/ BlockFailed
  BY <1>2, <1>6 DEF BlockArrived, BlockFailed, writerVars
<1>7. CASE WalFlush
  <2>1. /\ UNCHANGED <<bstate, queue, job, phase, executing, visible>> /\ durable' = visible
    BY <1>7 DEF WalFlush, writerVars
  <2>2. \A b \in Batches : visible'[b] <= 1 /\ durable'[b] <= visible'[b]
    BY <2>1, CopyTypes DEF CopyInv
  <2>3. Started' = Started
    BY <2>1 DEF Started
  <2> QED BY <2>1, <2>2, <2>3, ServerCopy DEF CopyInv
<1>8. CASE DbCrash
  BY <1>8, CrashCopy
<1>9. CASE FlushTimer
  <2>1. openBatch # NoBatch /\ Flush(openBatch, nrows[openBatch]) /\ UNCHANGED serverVars
    BY <1>9 DEF FlushTimer
  <2> QED BY <1>1, <2>1, FlushOpenNotWaiting, CopyKept
<1>10. CASE FlushSoon
  <2>1. CASE OpenHasRows
    <3>1. openBatch # NoBatch /\ Flush(openBatch, nrows[openBatch]) /\ UNCHANGED serverVars
      BY <1>10, <2>1 DEF FlushSoon, OpenHasRows
    <3> QED BY <1>1, <3>1, FlushOpenNotWaiting, CopyKept
  <2>2. CASE ~OpenHasRows
    BY <1>2, <1>10, <2>2 DEF FlushSoon, writerVars
  <2> QED BY <2>1, <2>2
<1>11. CASE Watchdog
  <2>1. UNCHANGED serverVars
    BY <1>11 DEF Watchdog
  <2> QED BY <1>1, <1>11, <2>1, WatchdogNotWaiting, CopyKept
<1>12. CASE Stop
  <2>1. CASE openBatch # NoBatch
    <3>1. Flush(openBatch, nrows[openBatch]) /\ UNCHANGED serverVars
      BY <1>12, <2>1 DEF Stop
    <3> QED BY <1>1, <2>1, <3>1, FlushOpenNotWaiting, CopyKept
  <2>2. CASE openBatch = NoBatch
    BY <1>2, <1>12, <2>2 DEF Stop, writerVars
  <2> QED BY <2>1, <2>2
<1>13. CASE StopFinish
  <2>1. /\ UNCHANGED <<queue, job, serverVars>>
        /\ phase' = [w \in Writers |-> IF phase[w] \in {"copy", "ack", "error"}
                                       THEN "broken" ELSE phase[w]]
    BY <1>13 DEF StopFinish
  <2>2. NotWaiting(Started, queue', job', phase')
    BY <2>1 DEF CopyInv, NotWaiting
  <2> QED BY <1>1, <2>1, <2>2, CopyKept
<1>14. CASE UNCHANGED vars
  BY <1>2, <1>14 DEF vars, writerVars
<1> QED BY <1>3, <1>4, <1>5, <1>6, <1>7, <1>8, <1>9, <1>10, <1>11, <1>12, <1>13, <1>14
        DEF Next

\* The encoder of a batch holds a row once, rows are taken from a request in order, and no
\* two batches share one.
RowsInv ==
  /\ \A b \in Batches : IsFiniteSet(content[b]) /\ Cardinality(content[b]) = nrows[b]
  /\ \A b, c \in Batches : b # c => content[b] \cap content[c] = {}
  /\ \A b \in Batches, r \in Requests, i \in Nat : <<r, i>> \in content[b] => i <= written[r]

\* The rows one round of append()'s loop writes.
RowsFrom(r, m, n) == {<<r, i>> : i \in m + 1 .. m + n}

LEMMA ChunkCount ==
  ASSUME NEW r, NEW m \in Nat, NEW n \in Nat
  PROVE  /\ IsFiniteSet(RowsFrom(r, m, n))
         /\ Cardinality(RowsFrom(r, m, n)) = n
<1> DEFINE I == m + 1 .. m + n
           T == {<<r, i>> : i \in I}
           f == [i \in I |-> <<r, i>>]
<1>1. IsFiniteSet(I) /\ Cardinality(I) = n
  <2>1. IsFiniteSet(I) /\ Cardinality(I) = IF m + 1 > m + n THEN 0 ELSE m + n - (m + 1) + 1
    BY FS_Interval
  <2> QED BY <2>1
<1> HIDE DEF I
<1>2. /\ f \in [I -> T]
      /\ \A i, k \in I : f[i] = f[k] => i = k
      /\ \A t \in T : \E i \in I : f[i] = t
  OBVIOUS
<1>3. ExistsBijection(I, T)
  <2>1. f \in Injection(I, T)
    BY <1>2 DEF Injection, IsInjective
  <2>2. f \in Surjection(I, T)
    BY <1>2 DEF Surjection
  <2> QED BY <2>1, <2>2 DEF ExistsBijection, Bijection
<1>4. IsFiniteSet(T) /\ Cardinality(T) = n
  BY <1>1, <1>3, FS_Bijection
<1> QED BY <1>4 DEF I, RowsFrom

LEMMA DepositRows ==
  ASSUME TypeInv, RowsInv, NEW r \in Requests, DepositChunk(r)
  PROVE  RowsInv'
<1>1. PICK b \in Batches : \E take \in {ChunkSize(r, b)} :
        /\ written' = [written EXCEPT ![r] = @ + take]
        /\ content' = [content EXCEPT ![b] =
             @ \cup {<<r, i>> : i \in written[r] + 1 .. written[r] + take}]
        /\ nrows' = [nrows EXCEPT ![b] = @ + take]
  BY DEF DepositChunk
<1> DEFINE take == ChunkSize(r, b)
           new == RowsFrom(r, written[r], take)
<1>2. take \in Nat
  BY ChunkSizeBounds DEF DepositChunk, TypeInv
<1>3. /\ written' = [written EXCEPT ![r] = @ + take]
      /\ content' = [content EXCEPT ![b] = @ \cup new]
      /\ nrows' = [nrows EXCEPT ![b] = @ + take]
  BY <1>1 DEF RowsFrom
<1> HIDE DEF take
<1>4. /\ written \in [Requests -> Nat] /\ content \in [Batches -> SUBSET Row]
      /\ nrows \in [Batches -> Nat]
  <2>1. 0..MaxBatchRows \subseteq Nat
    BY ConstantsAssumption
  <2> QED BY <2>1 DEF TypeInv, TypeOK
<1>5. IsFiniteSet(new) /\ Cardinality(new) = take
  BY <1>2, <1>4, ChunkCount
<1>6. \A row \in new : \E i \in Nat : row = <<r, i>> /\ i > written[r] /\ i <= written[r] + take
  BY <1>2, <1>4 DEF RowsFrom
<1>7. \A c \in Batches : content[c] \cap new = {}
  <2> SUFFICES ASSUME NEW c \in Batches, NEW row \in content[c], row \in new
               PROVE  FALSE
    OBVIOUS
  <2>1. PICK i \in Nat : row = <<r, i>> /\ i > written[r]
    BY <1>6
  <2>2. i <= written[r]
    BY <2>1 DEF RowsInv
  <2> QED BY <1>4, <2>1, <2>2
<1> HIDE DEF new
<1>8. /\ content'[b] = content[b] \cup new /\ nrows'[b] = nrows[b] + take
      /\ \A c \in Batches : c # b => content'[c] = content[c] /\ nrows'[c] = nrows[c]
  BY <1>3, <1>4
<1>9. /\ written'[r] = written[r] + take
      /\ \A q \in Requests : q # r => written'[q] = written[q]
  BY <1>3, <1>4
<1>10. IsFiniteSet(content'[b]) /\ Cardinality(content'[b]) = nrows'[b]
  <2>1. IsFiniteSet(content[b]) /\ Cardinality(content[b]) = nrows[b]
    BY DEF RowsInv
  <2>2. Cardinality(content[b] \cap new) = 0
    BY <1>7, EmptyHasNone
  <2>3. /\ IsFiniteSet(content[b] \cup new)
        /\ Cardinality(content[b] \cup new) =
             Cardinality(content[b]) + Cardinality(new) - Cardinality(content[b] \cap new)
    BY <1>5, <2>1, FS_Union
  <2>4. Cardinality(content[b] \cup new) = nrows[b] + take
    BY <1>2, <1>4, <1>5, <2>1, <2>2, <2>3
  <2> QED BY <1>8, <2>3, <2>4
<1>11. \A c \in Batches : IsFiniteSet(content'[c]) /\ Cardinality(content'[c]) = nrows'[c]
  BY <1>8, <1>10 DEF RowsInv
<1>12. \A c, d \in Batches : c # d => content'[c] \cap content'[d] = {}
  BY <1>7, <1>8 DEF RowsInv
<1>13. ASSUME NEW c \in Batches, NEW q \in Requests, NEW i \in Nat, <<q, i>> \in content'[c]
       PROVE  i <= written'[q]
  <2>1. CASE <<q, i>> \in content[c]
    <3>1. i <= written[q]
      BY <2>1 DEF RowsInv
    <3> QED BY <1>2, <1>4, <1>9, <3>1
  <2>2. CASE <<q, i>> \notin content[c]
    <3>1. <<q, i>> \in new
      BY <1>8, <1>13, <2>2
    <3>2. q = r /\ i <= written[r] + take
      BY <1>6, <3>1
    <3> QED BY <1>9, <3>2
  <2> QED BY <2>1, <2>2
<1> QED BY <1>11, <1>12, <1>13 DEF RowsInv

LEMMA RowsNext ==
  ASSUME TypeInv, RowsInv, [Next]_vars
  PROVE  RowsInv'
<1> USE DEF requestVars, batchVars
<1>1. ASSUME UNCHANGED <<written, content, nrows>>
      PROVE  RowsInv'
  BY <1>1 DEF RowsInv
<1>2. ASSUME NEW r \in Requests, RequestStep(r) PROVE RowsInv'
  <2>1. CASE DepositChunk(r)
    BY <2>1, DepositRows
  <2>2. CASE \/ Append_Refuse(r) \/ Append_Shed(r) \/ Append_Admit(r)
             \/ Registered(r) \/ RegisterFailed(r) \/ NeedIds(r)
             \/ AllWritten(r) \/ Finish_Acked(r) \/ Finish_Failed(r)
    BY <1>1, <2>2 DEF Append_Refuse, Append_Shed, Append_Admit, Registered, RegisterFailed,
                      NeedIds, AllWritten, Finish_Acked, Finish_Failed
  <2> QED BY <1>2, <2>1, <2>2 DEF RequestStep
<1>3. ASSUME NEW w \in Writers, WriterStep(w) PROVE RowsInv'
  BY <1>1, <1>3 DEF WriterStep, EnsureDone, CopyDone, CopyFailed, EndCopy, ConnLost,
                    StrayEnds, Reconnected
<1>4. ASSUME NEW b \in Batches, ServerCommit(b) \/ ServerAbort(b) PROVE RowsInv'
  BY <1>1, <1>4 DEF ServerCommit, ServerAbort
<1>5. CASE \/ BlockArrived \/ BlockFailed \/ FlushTimer \/ FlushSoon \/ Watchdog
           \/ WalFlush \/ DbCrash \/ Stop \/ StopFinish
  BY <1>1, <1>5 DEF BlockArrived, BlockFailed, FlushTimer, FlushSoon, Watchdog,
                    WalFlush, DbCrash, Stop, StopFinish
<1>6. CASE UNCHANGED vars
  BY <1>1, <1>6 DEF vars
<1> QED BY <1>2, <1>3, <1>4, <1>5, <1>6 DEF Next

LEMMA InitCopy == Init => CopyInv /\ RowsInv
<1> SUFFICES ASSUME Init PROVE CopyInv /\ RowsInv
  OBVIOUS
<1>1. Started = {} /\ executing = {}
  BY DEF Init, Started
<1>2. CopyInv
  BY <1>1 DEF Init, CopyInv, NotWaiting
<1>3. RowsInv
  BY FS_EmptySet DEF Init, RowsInv
<1> QED BY <1>2, <1>3

\* A row is never stored twice: a batch commits at most once, does not hold a row twice, and
\* shares none with another.
THEOREM RowsAreStoredOnce == Spec => []StoredAtMostOnce
<1>1. Init => TypeInv /\ HandsInv /\ CopyInv /\ RowsInv
  BY InitTypeInv, InitHands, InitCopy
<1>2. TypeInv /\ HandsInv /\ CopyInv /\ RowsInv /\ [Next]_vars =>
        (TypeInv /\ HandsInv /\ CopyInv /\ RowsInv)'
  BY NextTypeInv, HandsNext, CopyNext, RowsNext
<1>3. CopyInv /\ RowsInv => StoredAtMostOnce
  BY DEF CopyInv, RowsInv, StoredAtMostOnce
<1> QED BY <1>1, <1>2, <1>3, PTL DEF Spec

-----------------------------------------------------------------------------
(* Group commit keeps the contract of DurableIngest: under synchronous commit  *)
(* every step of IngestWriter is, to the clients and to the table, a step of   *)
(* storing requests by themselves, or no step at all.                          *)

\* Before the loop of append() nothing of a request is written.
Early == {"new", "refused", "shed", "registering"}

\* append() waits for every batch that holds a row of its request, so an acknowledged
\* request has no row in a batch that may still be stored.
PlacedInv ==
  /\ \A r \in Requests : written[r] <= Count[r]
  /\ \A r \in Requests : pc[r] \in Early => written[r] = 0
  /\ \A b \in Batches, r \in Requests, i \in Nat :
       <<r, i>> \in content[b] => b \in touched[r] /\ i >= 1
  /\ \A r \in Requests : pc[r] = "acked" => AllResolved(r)

LEMMA PlacedTypes ==
  ASSUME TypeInv
  PROVE  /\ pc \in [Requests -> PcValues] /\ written \in [Requests -> Nat]
         /\ touched \in [Requests -> SUBSET Batches]
         /\ content \in [Batches -> SUBSET Row]
         /\ Count \in [Requests -> Nat]
BY ConstantsAssumption DEF TypeInv, TypeOK

\* A step that places no row and answers 200 to no request with a batch outstanding.
LEMMA PlacedKept ==
  ASSUME TypeInv, PlacedInv, Frozen, UNCHANGED <<written, touched, content>>,
         \A r \in Requests : pc'[r] \in Early => pc[r] \in Early,
         \A r \in Requests : pc'[r] = "acked" =>
           pc[r] = "acked" \/ (AllResolved(r) /\ bstate' = bstate)
  PROVE  PlacedInv'
<1>1. \A r \in Requests : pc'[r] = "acked" => AllResolved(r)'
  <2> SUFFICES ASSUME NEW r \in Requests, pc'[r] = "acked", NEW b \in touched[r]
               PROVE  bstate'[b] = "resolved"
    BY DEF AllResolved
  <2>1. AllResolved(r)
    BY DEF PlacedInv
  <2>2. b \in Batches /\ bstate[b] = "resolved"
    BY <2>1, PlacedTypes DEF AllResolved
  <2> QED BY <2>2 DEF Frozen
<1> QED BY <1>1 DEF PlacedInv

LEMMA DepositPlaced ==
  ASSUME TypeInv, PlacedInv, Frozen, NEW r \in Requests, DepositChunk(r)
  PROVE  PlacedInv'
<1>1. PICK b \in Batches : \E take \in {ChunkSize(r, b)} :
        /\ written' = [written EXCEPT ![r] = @ + take]
        /\ content' = [content EXCEPT ![b] =
             @ \cup {<<r, i>> : i \in written[r] + 1 .. written[r] + take}]
        /\ touched' = [touched EXCEPT ![r] = @ \cup {b}]
  BY DEF DepositChunk
<1> DEFINE take == ChunkSize(r, b)
<1>2. take \in Nat /\ take <= Count[r] - written[r]
  BY ChunkSizeBounds DEF DepositChunk, TypeInv
<1>3. /\ written' = [written EXCEPT ![r] = @ + take]
      /\ content' = [content EXCEPT ![b] = @ \cup RowsFrom(r, written[r], take)]
      /\ touched' = [touched EXCEPT ![r] = @ \cup {b}]
  BY <1>1 DEF RowsFrom
<1> HIDE DEF take
<1>4. pc[r] \in {"granted", "loop"} /\ pc' = [pc EXCEPT ![r] = "loop"]
  BY DEF DepositChunk
<1>5. pc'[r] = "loop" /\ \A q \in Requests : q # r => pc'[q] = pc[q]
  BY <1>4, PlacedTypes
<1>6. /\ written'[r] = written[r] + take
      /\ \A q \in Requests : q # r => written'[q] = written[q]
  BY <1>3, PlacedTypes
<1>7. /\ touched'[r] = touched[r] \cup {b}
      /\ \A q \in Requests : q # r => touched'[q] = touched[q]
  BY <1>3, PlacedTypes
<1>8. /\ content'[b] = content[b] \cup RowsFrom(r, written[r], take)
      /\ \A c \in Batches : c # b => content'[c] = content[c]
  BY <1>3, PlacedTypes
<1>9. \A q \in Requests : written'[q] <= Count[q]
  BY <1>2, <1>6, PlacedTypes DEF PlacedInv
<1>10. \A q \in Requests : pc'[q] \in Early => written'[q] = 0
  BY <1>5, <1>6 DEF PlacedInv, Early
<1>11. ASSUME NEW c \in Batches, NEW q \in Requests, NEW i \in Nat, <<q, i>> \in content'[c]
       PROVE  c \in touched'[q] /\ i >= 1
  <2>1. CASE <<q, i>> \in content[c]
    BY <1>7, <2>1 DEF PlacedInv
  <2>2. CASE <<q, i>> \notin content[c]
    <3>1. c = b /\ <<q, i>> \in RowsFrom(r, written[r], take)
      BY <1>8, <1>11, <2>2
    <3>2. q = r /\ i \in written[r] + 1 .. written[r] + take
      BY <3>1 DEF RowsFrom
    <3>3. i >= 1
      BY <1>2, <3>2, PlacedTypes
    <3> QED BY <1>7, <3>1, <3>2, <3>3
  <2> QED BY <2>1, <2>2
<1>12. \A q \in Requests : pc'[q] = "acked" => AllResolved(q)'
  <2> SUFFICES ASSUME NEW q \in Requests, pc'[q] = "acked", NEW c \in touched'[q]
               PROVE  bstate'[c] = "resolved"
    BY DEF AllResolved
  <2>1. q # r /\ pc[q] = "acked" /\ c \in touched[q]
    BY <1>5, <1>7
  <2>2. c \in Batches /\ bstate[c] = "resolved"
    BY <2>1, PlacedTypes DEF PlacedInv, AllResolved
  <2> QED BY <2>2 DEF Frozen
<1> QED BY <1>9, <1>10, <1>11, <1>12 DEF PlacedInv

LEMMA PlacedNext ==
  ASSUME TypeInv, HandsInv, PlacedInv, [Next]_vars
  PROVE  PlacedInv'
<1> USE DEF requestVars, batchVars
<1>0. Frozen
  BY HandsNext
<1>1. ASSUME UNCHANGED <<requestVars, content>>
      PROVE  PlacedInv'
  BY <1>0, <1>1, PlacedKept
<1>2. ASSUME NEW r \in Requests, RequestStep(r) PROVE PlacedInv'
  <2>1. CASE DepositChunk(r)
    BY <1>0, <2>1, DepositPlaced
  <2>2. ASSUME NEW p \in PcValues, UNCHANGED <<written, touched, content>>,
               pc' = [pc EXCEPT ![r] = p], p \in Early => pc[r] \in Early,
               p = "acked" => AllResolved(r) /\ bstate' = bstate
        PROVE  PlacedInv'
    <3>1. pc'[r] = p /\ \A q \in Requests : q # r => pc'[q] = pc[q]
      BY <2>2, PlacedTypes
    <3> QED BY <1>0, <2>2, <3>1, PlacedKept
  <2>3. CASE Append_Refuse(r)
    BY <2>2, <2>3 DEF Append_Refuse, PcValues, Early
  <2>4. CASE Append_Shed(r)
    BY <2>2, <2>4 DEF Append_Shed, PcValues, Early
  <2>5. CASE Append_Admit(r)
    <3>1. pc[r] = "new" /\ UNCHANGED <<written, touched, content>>
          /\ (pc' = [pc EXCEPT ![r] = "registering"] \/ pc' = [pc EXCEPT ![r] = "loop"])
      BY <2>5 DEF Append_Admit
    <3> QED BY <2>2, <3>1 DEF PcValues, Early
  <2>6. CASE Registered(r)
    BY <2>2, <2>6 DEF Registered, PcValues, Early
  <2>7. CASE RegisterFailed(r)
    BY <2>2, <2>7 DEF RegisterFailed, PcValues, Early
  <2>8. CASE NeedIds(r)
    BY <2>2, <2>8 DEF NeedIds, PcValues, Early
  <2>9. CASE AllWritten(r)
    BY <2>2, <2>9 DEF AllWritten, PcValues, Early
  <2>10. CASE Finish_Acked(r)
    BY <2>2, <2>10 DEF Finish_Acked, PcValues, Early
  <2>11. CASE Finish_Failed(r)
    BY <2>2, <2>11 DEF Finish_Failed, PcValues, Early
  <2> QED BY <1>2, <2>1, <2>3, <2>4, <2>5, <2>6, <2>7, <2>8, <2>9, <2>10, <2>11
          DEF RequestStep
<1>3. ASSUME NEW w \in Writers, WriterStep(w) PROVE PlacedInv'
  BY <1>1, <1>3 DEF WriterStep, EnsureDone, CopyDone, CopyFailed, EndCopy, ConnLost,
                    StrayEnds, Reconnected
<1>4. ASSUME NEW b \in Batches, ServerCommit(b) \/ ServerAbort(b) PROVE PlacedInv'
  BY <1>1, <1>4 DEF ServerCommit, ServerAbort
<1>5. CASE BlockArrived \/ BlockFailed
  <2>1. /\ UNCHANGED <<written, touched, content>>
        /\ \/ pc' = [r \in Requests |-> IF pc[r] = "fetching" THEN "granted" ELSE pc[r]]
           \/ pc' = [r \in Requests |-> IF pc[r] = "fetching" THEN "aborting" ELSE pc[r]]
    BY <1>5 DEF BlockArrived, BlockFailed
  <2>2. \A r \in Requests : pc'[r] = pc[r] \/ pc'[r] \in {"granted", "aborting"}
    BY <2>1
  <2> QED BY <1>0, <2>1, <2>2, PlacedKept DEF Early
<1>6. CASE \/ FlushTimer \/ FlushSoon \/ Watchdog \/ WalFlush \/ DbCrash \/ Stop \/ StopFinish
  BY <1>1, <1>6 DEF FlushTimer, FlushSoon, Watchdog, WalFlush, DbCrash, Stop, StopFinish
<1>7. CASE UNCHANGED vars
  BY <1>1, <1>7 DEF vars
<1> QED BY <1>2, <1>3, <1>4, <1>5, <1>6, <1>7 DEF Next

LEMMA InitPlaced == Init => PlacedInv
<1> SUFFICES ASSUME Init PROVE PlacedInv
  OBVIOUS
<1>1. \A r \in Requests : Count[r] \in Nat /\ written[r] = 0 /\ pc[r] = "new"
  BY ConstantsAssumption DEF Init
<1>2. \A b \in Batches : content[b] = {}
  BY DEF Init
<1> QED BY <1>1, <1>2 DEF PlacedInv

-----------------------------------------------------------------------------
(* Every step maps to a step of DurableIngest or to a stutter.             *)

\* The conjunction that holds in every reachable state.
StepInv == TypeInv /\ SafetyInv /\ HandsInv /\ CopyInv /\ RowsInv /\ PlacedInv

\* One request moves on: the contract sees its answer change, or nothing.
LEMMA AnswerMoves ==
  ASSUME TypeInv, NEW r \in Requests, NEW p \in PcValues, pc' = [pc EXCEPT ![r] = p]
  PROVE  /\ ClientAnswer[r] = AnswerOf(pc[r])
         /\ ClientAnswer' = [ClientAnswer EXCEPT ![r] = AnswerOf(p)]
         /\ AnswerOf(p) = AnswerOf(pc[r]) => ClientAnswer' = ClientAnswer
<1>1. pc'[r] = p /\ \A q \in Requests : q # r => pc'[q] = pc[q]
  BY PlacedTypes
<1>2. \A q \in Requests : ClientAnswer[q] = AnswerOf(pc[q])
  BY DEF ClientAnswer
<1>3. ClientAnswer' = [q \in Requests |-> AnswerOf(pc'[q])]
  BY DEF ClientAnswer, AnswerOf
<1>4. ClientAnswer = [q \in Requests |-> AnswerOf(pc[q])]
  BY DEF ClientAnswer
<1>5. ClientAnswer' = [ClientAnswer EXCEPT ![r] = AnswerOf(p)]
  BY <1>1, <1>3, <1>4
<1>6. AnswerOf(p) = AnswerOf(pc[r]) => ClientAnswer' = ClientAnswer
  BY <1>1, <1>3, <1>4
<1> QED BY <1>2, <1>5, <1>6

LEMMA AnswerValues ==
  /\ AnswerOf("new") = "none" /\ AnswerOf("acked") = "acked" /\ AnswerOf("failed") = "failed"
  /\ AnswerOf("shed") = "refused" /\ AnswerOf("refused") = "refused"
  /\ \A p \in {"registering", "loop", "fetching", "granted", "awaiting", "aborting"} :
       AnswerOf(p) = "waiting"
BY DEF AnswerOf

\* The rows stored for good are those of batches whose COPY has committed, and those
\* batches are closed.
LEMMA DurableRowsKept ==
  ASSUME StepInv, Frozen, durable' = durable
  PROVE  DurableRows' = DurableRows
<1>1. \A b \in Batches : durable[b] > 0 => content'[b] = content[b]
  <2> SUFFICES ASSUME NEW b \in Batches, durable[b] > 0
               PROVE  content'[b] = content[b]
    OBVIOUS
  <2>1. visible[b] > 0
    BY CopyTypes DEF StepInv, CopyInv
  <2>2. bstate[b] \notin {"none", "open"}
    BY <2>1 DEF StepInv, CopyInv, Started, Sealed
  <2> QED BY <2>2 DEF Frozen
<1>2. {c \in Batches : durable'[c] > 0} = {c \in Batches : durable[c] > 0}
  OBVIOUS
<1> QED BY <1>1, <1>2 DEF DurableRows

\* A step that only moves one request on.
LEMMA RequestMaps ==
  ASSUME StepInv, NEW r \in Requests, NEW p \in PcValues, pc' = [pc EXCEPT ![r] = p],
         DurableRows' = DurableRows,
         \/ AnswerOf(p) = AnswerOf(pc[r])
         \/ AnswerOf(pc[r]) = "none" /\ AnswerOf(p) \in {"waiting", "refused"}
         \/ AnswerOf(pc[r]) = "waiting" /\ AnswerOf(p) = "failed"
         \/ /\ AnswerOf(pc[r]) = "waiting" /\ AnswerOf(p) = "acked"
            /\ Contract!RowsOf(r) \subseteq DurableRows
  PROVE  [Contract!Next]_(Contract!vars)
<1>1. /\ ClientAnswer[r] = AnswerOf(pc[r])
      /\ ClientAnswer' = [ClientAnswer EXCEPT ![r] = AnswerOf(p)]
      /\ AnswerOf(p) = AnswerOf(pc[r]) => ClientAnswer' = ClientAnswer
  BY AnswerMoves DEF StepInv
<1>2. CASE AnswerOf(p) = AnswerOf(pc[r])
  BY <1>1, <1>2 DEF Contract!vars
<1>3. CASE AnswerOf(pc[r]) = "none" /\ AnswerOf(p) = "waiting"
  <2>1. Contract!Admit(r)
    BY <1>1, <1>3 DEF Contract!Admit
  <2> QED BY <2>1 DEF Contract!Next
<1>4. CASE AnswerOf(pc[r]) = "none" /\ AnswerOf(p) = "refused"
  <2>1. Contract!Refuse(r)
    BY <1>1, <1>4 DEF Contract!Refuse
  <2> QED BY <2>1 DEF Contract!Next
<1>5. CASE AnswerOf(pc[r]) = "waiting" /\ AnswerOf(p) = "failed"
  <2>1. Contract!Fail(r)
    BY <1>1, <1>5 DEF Contract!Fail
  <2> QED BY <2>1 DEF Contract!Next
<1>6. CASE /\ AnswerOf(pc[r]) = "waiting" /\ AnswerOf(p) = "acked"
           /\ Contract!RowsOf(r) \subseteq DurableRows
  <2>1. Contract!Ack(r)
    BY <1>1, <1>6 DEF Contract!Ack
  <2> QED BY <2>1 DEF Contract!Next
<1> QED BY <1>2, <1>3, <1>4, <1>5, <1>6

\* append() returns when every batch of the request is resolved: its rows are durable.
LEMMA ResolvedRowsDurable ==
  ASSUME StepInv, NEW r \in Requests, pc[r] = "awaiting", AllResolved(r)
  PROVE  Contract!RowsOf(r) \subseteq DurableRows
<1> SUFFICES ASSUME NEW i \in 1..Count[r]
             PROVE  <<r, i>> \in DurableRows
  BY DEF Contract!RowsOf
<1>1. i \in 1..written[r]
  BY DEF StepInv, SafetyInv, RowsPlaced
<1>2. PICK b \in touched[r] : <<r, i>> \in content[b]
  BY <1>1 DEF StepInv, SafetyInv, RowsPlaced
<1>3. b \in Batches /\ bstate[b] = "resolved"
  BY PlacedTypes DEF StepInv, AllResolved
<1>4. visible[b] > 0
  BY <1>2, <1>3 DEF StepInv, SafetyInv, ResolvedStored
<1>5. durable[b] > 0
  BY <1>4 DEF StepInv, SafetyInv, NothingVolatile
<1> QED BY <1>2, <1>3, <1>5 DEF DurableRows

\* The rows of a batch the database is running belong to requests that are not answered
\* 200, and are none of them stored yet.
LEMMA ExecutingRowsNew ==
  ASSUME StepInv, NEW b \in executing
  PROVE  /\ b \in Batches /\ durable[b] = 0
         /\ content[b] \subseteq UNION {Contract!RowsOf(r) :
              r \in {q \in Requests : ClientAnswer[q] \in {"waiting", "failed"}}}
         /\ content[b] \cap DurableRows = {}
<1>1. b \in Batches /\ visible[b] = 0
  BY CopyTypes DEF StepInv, CopyInv
<1>2. durable[b] = 0
  BY <1>1 DEF StepInv, SafetyInv, NothingVolatile
<1>3. content[b] \cap DurableRows = {}
  <2>1. \A c \in Batches : durable[c] > 0 => content[b] \cap content[c] = {}
    BY <1>1, <1>2 DEF StepInv, RowsInv
  <2> QED BY <2>1 DEF DurableRows
<1>4. ASSUME NEW row \in content[b]
      PROVE  \E r \in Requests : /\ ClientAnswer[r] \in {"waiting", "failed"}
                                 /\ row \in Contract!RowsOf(r)
  <2>1. PICK r \in Requests, i \in Nat : row = <<r, i>>
    BY <1>1, PlacedTypes DEF StepInv, Row
  <2>2. b \in touched[r] /\ i >= 1 /\ i <= written[r] /\ written[r] <= Count[r]
    BY <1>1, <2>1 DEF StepInv, PlacedInv, RowsInv
  <2>3. i \in 1..Count[r]
    BY <2>2, PlacedTypes DEF StepInv
  <2>4. pc[r] \notin Early
    BY <2>2 DEF StepInv, PlacedInv
  <2>5. pc[r] # "acked"
    <3>1. bstate[b] # "resolved"
      BY <1>1 DEF StepInv, SafetyInv, ResolvedStored
    <3> QED BY <2>2, <3>1 DEF StepInv, PlacedInv, AllResolved
  <2>6. pc[r] \in PcValues
    BY PlacedTypes DEF StepInv
  <2>7. AnswerOf(pc[r]) \in {"waiting", "failed"}
    BY <2>4, <2>5, <2>6, AnswerValues DEF PcValues, Early
  <2>8. ClientAnswer[r] \in {"waiting", "failed"}
    BY <2>7 DEF ClientAnswer
  <2>9. row \in Contract!RowsOf(r)
    BY <2>1, <2>3 DEF Contract!RowsOf
  <2> QED BY <2>8, <2>9
<1>5. content[b] \subseteq UNION {Contract!RowsOf(r) :
        r \in {q \in Requests : ClientAnswer[q] \in {"waiting", "failed"}}}
  BY <1>4
<1> QED BY <1>1, <1>2, <1>3, <1>5

LEMMA CommitMaps ==
  ASSUME SyncCommit = TRUE, StepInv, NEW b \in Batches, ServerCommit(b)
  PROVE  [Contract!Next]_(Contract!vars)
<1>1. /\ b \in executing /\ pc' = pc /\ content' = content
      /\ durable' = [durable EXCEPT ![b] = @ + 1]
  BY DEF ServerCommit, requestVars, batchVars
<1>2. /\ durable[b] = 0
      /\ content[b] \subseteq UNION {Contract!RowsOf(r) :
           r \in {q \in Requests : ClientAnswer[q] \in {"waiting", "failed"}}}
      /\ content[b] \cap DurableRows = {}
  BY <1>1, ExecutingRowsNew
<1>3. ClientAnswer' = ClientAnswer
  BY <1>1 DEF ClientAnswer
<1>4. durable'[b] = 1 /\ \A c \in Batches : c # b => durable'[c] = durable[c]
  BY <1>1, <1>2, CopyTypes DEF StepInv
<1>5. {c \in Batches : durable'[c] > 0} = {c \in Batches : durable[c] > 0} \cup {b}
  BY <1>4
<1>6. DurableRows' = DurableRows \cup content[b]
  BY <1>1, <1>5 DEF DurableRows
<1>7. CASE content[b] = {}
  BY <1>3, <1>6, <1>7 DEF Contract!vars
<1>8. CASE content[b] # {}
  <2>1. Contract!Store
    BY <1>2, <1>3, <1>6, <1>8 DEF Contract!Store
  <2> QED BY <2>1 DEF Contract!Next
<1> QED BY <1>7, <1>8

LEMMA NextMaps ==
  ASSUME SyncCommit = TRUE, StepInv, [Next]_vars
  PROVE  [Contract!Next]_(Contract!vars)
<1> USE DEF requestVars, serverVars
<1>0. Frozen
  BY HandsNext DEF StepInv
<1>1. ASSUME pc' = pc, durable' = durable
      PROVE  [Contract!Next]_(Contract!vars)
  <2>1. ClientAnswer' = ClientAnswer
    BY <1>1 DEF ClientAnswer
  <2> QED BY <1>0, <1>1, <2>1, DurableRowsKept DEF Contract!vars
<1>2. ASSUME NEW r \in Requests, RequestStep(r)
      PROVE  [Contract!Next]_(Contract!vars)
  <2>1. durable' = durable
    BY <1>2 DEF RequestStep, Append_Refuse, Append_Shed, Append_Admit, Registered,
                RegisterFailed, NeedIds, DepositChunk, AllWritten, Finish_Acked, Finish_Failed
  <2>2. DurableRows' = DurableRows
    BY <1>0, <2>1, DurableRowsKept
  <2>3. CASE Append_Refuse(r)
    <3>1. pc[r] = "new" /\ pc' = [pc EXCEPT ![r] = "refused"]
      BY <2>3 DEF Append_Refuse
    <3> QED BY <2>2, <3>1, RequestMaps, AnswerValues DEF PcValues
  <2>4. CASE Append_Shed(r)
    <3>1. pc[r] = "new" /\ pc' = [pc EXCEPT ![r] = "shed"]
      BY <2>4 DEF Append_Shed
    <3> QED BY <2>2, <3>1, RequestMaps, AnswerValues DEF PcValues
  <2>5. CASE Append_Admit(r)
    <3>1. pc[r] = "new" /\ (\/ pc' = [pc EXCEPT ![r] = "registering"]
                            \/ pc' = [pc EXCEPT ![r] = "loop"])
      BY <2>5 DEF Append_Admit
    <3> QED BY <2>2, <3>1, RequestMaps, AnswerValues DEF PcValues
  <2>6. ASSUME NEW p \in {"loop", "aborting", "fetching", "awaiting"},
               pc' = [pc EXCEPT ![r] = p],
               pc[r] \in {"registering", "loop", "granted"}
        PROVE  [Contract!Next]_(Contract!vars)
    BY <2>2, <2>6, RequestMaps, AnswerValues DEF PcValues
  <2>7. CASE Registered(r) \/ RegisterFailed(r) \/ NeedIds(r) \/ AllWritten(r)
    BY <2>6, <2>7 DEF Registered, RegisterFailed, NeedIds, AllWritten
  <2>8. CASE DepositChunk(r)
    BY <2>6, <2>8 DEF DepositChunk
  <2>9. CASE Finish_Acked(r)
    <3>1. pc[r] = "awaiting" /\ AllResolved(r) /\ pc' = [pc EXCEPT ![r] = "acked"]
      BY <2>9 DEF Finish_Acked
    <3>2. Contract!RowsOf(r) \subseteq DurableRows
      BY <3>1, ResolvedRowsDurable
    <3> QED BY <2>2, <3>1, <3>2, RequestMaps, AnswerValues DEF PcValues
  <2>10. CASE Finish_Failed(r)
    <3>1. pc[r] \in {"aborting", "awaiting"} /\ pc' = [pc EXCEPT ![r] = "failed"]
      BY <2>10 DEF Finish_Failed
    <3> QED BY <2>2, <3>1, RequestMaps, AnswerValues DEF PcValues
  <2> QED BY <1>2, <2>3, <2>4, <2>5, <2>7, <2>8, <2>9, <2>10 DEF RequestStep
<1>3. ASSUME NEW w \in Writers, WriterStep(w)
      PROVE  [Contract!Next]_(Contract!vars)
  BY <1>1, <1>3 DEF WriterStep, EnsureDone, CopyDone, CopyFailed, EndCopy, ConnLost,
                    StrayEnds, Reconnected
<1>4. ASSUME NEW b \in Batches, ServerCommit(b) \/ ServerAbort(b)
      PROVE  [Contract!Next]_(Contract!vars)
  BY <1>1, <1>4, CommitMaps DEF ServerAbort
<1>5. CASE BlockArrived \/ BlockFailed
  <2>1. durable' = durable
    BY <1>5 DEF BlockArrived, BlockFailed
  <2>2. \A r \in Requests : pc'[r] = pc[r] \/
          (pc[r] = "fetching" /\ pc'[r] \in {"granted", "aborting"})
    BY <1>5 DEF BlockArrived, BlockFailed
  <2>3. \A r \in Requests : AnswerOf(pc'[r]) = AnswerOf(pc[r])
    BY <2>2, AnswerValues
  <2>4. ClientAnswer' = ClientAnswer
    BY <2>3 DEF ClientAnswer, AnswerOf
  <2> QED BY <1>0, <2>1, <2>4, DurableRowsKept DEF Contract!vars
<1>6. CASE FlushTimer \/ FlushSoon \/ Watchdog \/ DbCrash \/ Stop \/ StopFinish
  BY <1>1, <1>6 DEF FlushTimer, FlushSoon, Watchdog, DbCrash, Stop, StopFinish
<1>7. CASE WalFlush
  <2>1. pc' = pc /\ durable' = visible
    BY <1>7 DEF WalFlush
  <2>2. durable' = durable
    BY <2>1 DEF StepInv, SafetyInv, NothingVolatile
  <2> QED BY <1>1, <2>1, <2>2
<1>8. CASE UNCHANGED vars
  BY <1>1, <1>8 DEF vars
<1> QED BY <1>2, <1>3, <1>4, <1>5, <1>6, <1>7, <1>8 DEF Next

LEMMA InitMaps == Init => Contract!Init
<1> SUFFICES ASSUME Init PROVE Contract!Init
  OBVIOUS
<1>1. \A b \in Batches : content[b] = {}
  BY DEF Init
<1>2. DurableRows = {}
  BY <1>1 DEF DurableRows
<1>3. \A r \in Requests : pc[r] = "new"
  BY DEF Init
<1>4. ClientAnswer = [r \in Requests |-> "none"]
  BY <1>3, AnswerValues DEF ClientAnswer
<1> QED BY <1>2, <1>4 DEF Contract!Init

\* README.md, POST /logs: with synchronous commit, batching, queueing, lost connections and
\* database crashes show clients nothing but requests that are refused, failed, or stored
\* before they are acknowledged.
THEOREM GroupCommitKeepsContract ==
  ASSUME SyncCommit = TRUE
  PROVE  Spec => KeepsContract
<1>1. Init => StepInv /\ Contract!Init
  BY InitTypeInv, InitSafetyInv, InitHands, InitCopy, InitPlaced, InitMaps DEF StepInv
<1>2. StepInv /\ [Next]_vars => StepInv'
  BY NextTypeInv, NextSafetyInv, HandsNext, CopyNext, RowsNext, PlacedNext DEF StepInv
<1>3. StepInv /\ [Next]_vars => [Contract!Next]_(Contract!vars)
  BY NextMaps
<1> QED BY <1>1, <1>2, <1>3, PTL DEF Spec, KeepsContract, Contract!Spec
=============================================================================
