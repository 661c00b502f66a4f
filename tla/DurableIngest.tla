---------------------------- MODULE DurableIngest ----------------------------
(***************************************************************************)
(* What the ingest path promises to the clients of POST /logs, without     *)
(* batches, queues or connections: a request is refused outright, or it    *)
(* waits until the table has every one of its rows (200) or it is told     *)
(* that something failed.  A failure says nothing about the rows: they may *)
(* be stored in part, in full or not at all, before or after the answer.   *)
(***************************************************************************)
EXTENDS Naturals

CONSTANTS Requests, Count

VARIABLES
  answer,   \* none, waiting, acked, failed or refused
  table     \* the rows stored for good

vars == <<answer, table>>

RowsOf(r) == {<<r, i>> : i \in 1..Count[r]}

Init == /\ answer = [r \in Requests |-> "none"]
        /\ table = {}

Admit(r) == /\ answer[r] = "none"
            /\ answer' = [answer EXCEPT ![r] = "waiting"]
            /\ UNCHANGED table

Refuse(r) == /\ answer[r] = "none"
             /\ answer' = [answer EXCEPT ![r] = "refused"]
             /\ UNCHANGED table

\* Rows of any number of requests are stored together, each of them once, and
\* only rows of requests that were let in.
Store == /\ \E rows \in SUBSET (UNION {RowsOf(r) :
                 r \in {q \in Requests : answer[q] \in {"waiting", "failed"}}}) :
              /\ rows # {} /\ rows \cap table = {}
              /\ table' = table \cup rows
         /\ UNCHANGED answer

Ack(r) == /\ answer[r] = "waiting" /\ RowsOf(r) \subseteq table
          /\ answer' = [answer EXCEPT ![r] = "acked"]
          /\ UNCHANGED table

Fail(r) == /\ answer[r] = "waiting"
           /\ answer' = [answer EXCEPT ![r] = "failed"]
           /\ UNCHANGED table

Next == \/ \E r \in Requests : Admit(r) \/ Refuse(r) \/ Ack(r) \/ Fail(r)
        \/ Store

Spec == Init /\ [][Next]_vars
=============================================================================
