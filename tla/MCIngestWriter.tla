--------------------------- MODULE MCIngestWriter ---------------------------
(***************************************************************************)
(* Small instances of IngestWriter for TLC: r1 does not fit one batch, and *)
(* r3 names a service never seen before and its row fills a batch by size. *)
(***************************************************************************)
EXTENDS IngestWriter, TLC

CONSTANTS r1, r2, r3

MCCount == [r \in Requests |-> IF r = r1 THEN 3 ELSE 1]

\* For the run with two connections, where a row fills a batch.
MCPoolCount == [r \in Requests |-> IF r = r1 THEN 2 ELSE 1]

MCRowBytes == [r \in Requests |-> IF r = r3 THEN 100 ELSE 10]
=============================================================================
