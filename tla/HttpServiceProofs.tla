------------------------- MODULE HttpServiceProofs -------------------------
(***************************************************************************)
(* Theorems about HttpService for every set of clients and requests, rate  *)
(* and bound.                                                              *)
(***************************************************************************)
EXTENDS HttpService, TLAPS

-----------------------------------------------------------------------------
(* The token bucket.  RateBounded looks at pairs of admissions of the past; *)
(* what ties them to the state is that the tokens left and the requests     *)
(* admitted since any one of them are paid for by the burst and the time.   *)

BucketInv ==
  /\ clock \in Nat /\ lastRefill \in Nat /\ lastRefill <= clock
  /\ tokens \in 0..Rps
  /\ admissions \in Seq(Nat)
  /\ \A i \in 1..Len(admissions) :
       /\ admissions[i] <= lastRefill
       /\ tokens + Len(admissions) - i + 1 <= Rps + lastRefill - admissions[i]
  /\ RateBounded

LEMMA BucketTypes ==
  ASSUME BucketInv
  PROVE  /\ Rps \in Nat \ {0} /\ tokens \in Nat /\ clock \in Nat /\ lastRefill \in Nat
         /\ lastRefill <= clock /\ Len(admissions) \in Nat
BY HttpAssumption DEF BucketInv

\* A refill gives no more than the time is worth.
LEMMA RefilledBounds ==
  ASSUME BucketInv
  PROVE  Refilled \in Nat /\ Refilled <= Rps /\ Refilled <= tokens + clock - lastRefill
BY HttpAssumption DEF BucketInv, Refilled

LEMMA BucketUnchanged ==
  ASSUME BucketInv, UNCHANGED limitVars
  PROVE  BucketInv'
BY DEF BucketInv, RateBounded, limitVars

\* What is left after a refill and what was admitted before it are paid for up to now.
LEMMA RefillPays ==
  ASSUME NEW a \in Int, NEW m \in Int, NEW old \in Int, NEW full \in Int, NEW last \in Int,
         NEW now \in Int, NEW rate \in Int, NEW at \in Int,
         old + m - at + 1 <= rate + last - a, full <= old + now - last
  PROVE  full + m - at + 1 <= rate + now - a
OBVIOUS

\* An admission takes one token of what the bucket has been refilled with.
LEMMA OneTokenLess ==
  ASSUME NEW a \in Int, NEW m \in Int, NEW old \in Int, NEW full \in Int, NEW last \in Int,
         NEW now \in Int, NEW rate \in Int, NEW at \in Int,
         old + m - at + 1 <= rate + last - a, full <= old + now - last
  PROVE  (full - 1) + (m + 1) - at + 1 <= rate + now - a
OBVIOUS

LEMMA SpentIsPaid ==
  ASSUME NEW a \in Int, NEW m \in Int, NEW left \in Nat, NEW now \in Int, NEW rate \in Int,
         NEW at \in Int, left + m - at + 1 <= rate + now - a
  PROVE  m - at + 1 <= rate + (now - a)
OBVIOUS

LEMMA ShedBucket ==
  ASSUME BucketInv, NEW c \in Clients, NEW r \in Requests, Shed(c, r)
  PROVE  BucketInv'
<1>1. /\ tokens' = Refilled /\ lastRefill' = clock
      /\ clock' = clock /\ admissions' = admissions
  BY DEF Shed
<1>2. RateBounded'
  BY <1>1 DEF BucketInv, RateBounded
<1>3. ASSUME NEW i \in 1..Len(admissions)
      PROVE  /\ admissions[i] <= clock
             /\ Refilled + Len(admissions) - i + 1 <= Rps + clock - admissions[i]
  <2>1. /\ admissions[i] \in Nat /\ admissions[i] <= lastRefill
        /\ tokens + Len(admissions) - i + 1 <= Rps + lastRefill - admissions[i]
        /\ Len(admissions) \in Nat
    BY DEF BucketInv
  <2>2. Refilled \in Nat /\ Refilled <= tokens + clock - lastRefill
    BY RefilledBounds
  <2> DEFINE n == Len(admissions)
  <2>3. /\ admissions[i] \in Int /\ n \in Int /\ i \in Int /\ tokens \in Int
        /\ Refilled \in Int /\ lastRefill \in Int /\ clock \in Int /\ Rps \in Int
    BY <2>1, <2>2, BucketTypes
  <2>4. tokens + n - i + 1 <= Rps + lastRefill - admissions[i]
    BY <2>1
  <2>5. admissions[i] <= clock
    BY <2>1, <2>3, BucketTypes
  <2> HIDE DEF n
  <2>6. Refilled + n - i + 1 <= Rps + clock - admissions[i]
    BY <2>2, <2>3, <2>4, RefillPays
  <2> QED BY <2>5, <2>6 DEF n
<1> QED
  BY <1>1, <1>2, <1>3, RefilledBounds, HttpAssumption DEF BucketInv

LEMMA AdmitBucket ==
  ASSUME BucketInv, NEW c \in Clients, NEW r \in Requests, Admit(c, r)
  PROVE  BucketInv'
<1>1. CASE ~limiterOn
  BY <1>1, BucketUnchanged DEF Admit, limitVars
<1>2. CASE limiterOn
  <2> DEFINE n == Len(admissions)
  <2>0. /\ ~Exhausted /\ tokens' = Refilled - 1 /\ lastRefill' = clock
        /\ clock' = clock /\ admissions' = Append(admissions, clock)
    BY <1>2 DEF Admit
  <2>1. /\ Refilled >= 1 /\ tokens' = Refilled - 1 /\ lastRefill' = clock
        /\ clock' = clock /\ admissions' = Append(admissions, clock)
    BY <2>0, RefilledBounds DEF Exhausted
  <2>2. /\ n \in Nat /\ admissions' \in Seq(Nat) /\ Len(admissions') = n + 1
        /\ admissions'[n + 1] = clock
        /\ \A i \in 1..n : admissions'[i] = admissions[i] /\ admissions[i] \in Nat
    BY <2>1, SMTT(40) DEF BucketInv
  <2>3. tokens' \in 0..Rps
    BY <2>1, RefilledBounds, HttpAssumption
  <2>4. ASSUME NEW i \in 1..n + 1
        PROVE  /\ admissions'[i] <= clock
               /\ tokens' + (n + 1) - i + 1 <= Rps + clock - admissions'[i]
    <3>1. CASE i = n + 1
      BY <3>1, <2>1, <2>2, RefilledBounds, HttpAssumption DEF BucketInv
    <3>2. CASE i \in 1..n
      <4>1. /\ admissions[i] \in Nat /\ admissions[i] <= lastRefill
            /\ tokens + n - i + 1 <= Rps + lastRefill - admissions[i]
        BY <3>2, <2>2 DEF BucketInv
      <4>2. Refilled \in Nat /\ Refilled <= tokens + clock - lastRefill
        BY RefilledBounds
      <4>3. admissions'[i] = admissions[i] /\ i \in Nat /\ n \in Nat
        BY <3>2, <2>2
      <4>4. tokens' = Refilled - 1
        BY <2>1
      <4> HIDE DEF n
      <4>5. admissions'[i] <= clock
        BY <4>1, <4>3, BucketTypes
      <4>6. tokens' + (n + 1) - i + 1 <= Rps + clock - admissions'[i]
        <5>1. /\ admissions[i] \in Int /\ n \in Int /\ i \in Int /\ tokens \in Int
              /\ Refilled \in Int /\ lastRefill \in Int /\ clock \in Int /\ Rps \in Int
          BY <4>1, <4>2, <4>3, BucketTypes
        <5>2. (Refilled - 1) + (n + 1) - i + 1 <= Rps + clock - admissions[i]
          BY <5>1, <4>1, <4>2, OneTokenLess
        <5> QED BY <5>2, <4>3, <4>4
      <4> QED BY <4>5, <4>6
    <3> QED BY <3>1, <3>2, <2>2
  <2>5. ASSUME NEW i \in 1..n + 1, NEW j \in 1..n + 1, i <= j
        PROVE  j - i + 1 <= Rps + (admissions'[j] - admissions'[i])
    <3>1. CASE j = n + 1
      <4>1. /\ tokens' + (n + 1) - i + 1 <= Rps + clock - admissions'[i]
            /\ admissions'[j] = clock
        BY <2>4, <3>1, <2>2
      <4>2. /\ admissions'[i] \in Int /\ tokens' \in Nat /\ i \in Int /\ n \in Int
            /\ clock \in Int /\ Rps \in Int
        BY <2>2, <2>3, BucketTypes
      <4> HIDE DEF n
      <4>3. (n + 1) - i + 1 <= Rps + (clock - admissions'[i])
        BY <4>1, <4>2, SpentIsPaid
      <4> QED BY <3>1, <4>1, <4>3
    <3>2. CASE j \in 1..n
      <4>1. i \in 1..n
        BY <3>2, <2>5, <2>2
      <4>2. DOMAIN admissions = 1..n
        BY DEF BucketInv
      <4> QED BY <3>2, <4>1, <4>2, <2>2, <2>5 DEF BucketInv, RateBounded
    <3> QED BY <3>1, <3>2, <2>2
  <2>6. RateBounded'
    <3>1. DOMAIN admissions' = 1..n + 1
      BY <2>2
    <3> QED BY <3>1, <2>5 DEF RateBounded
  <2> QED
    BY <2>1, <2>2, <2>3, <2>4, <2>6 DEF BucketInv
<1> QED BY <1>1, <1>2

LEMMA NextBucket ==
  ASSUME BucketInv, [Next]_vars
  PROVE  BucketInv'
<1>1. CASE Tick
  <2>1. /\ clock' = clock + 1
        /\ lastRefill' = lastRefill /\ tokens' = tokens /\ admissions' = admissions
    BY <1>1 DEF Tick
  <2> QED BY <2>1 DEF BucketInv, RateBounded
<1>2. ASSUME NEW c \in Clients, NEW r \in Requests,
             AnswerOpen(c, r) \/ Deny(c, r) \/ AnswerAdmin(c, r) \/ Shed(c, r) \/ Admit(c, r)
      PROVE  BucketInv'
  BY <1>2, BucketUnchanged, ShedBucket, AdmitBucket DEF AnswerOpen, Deny, AnswerAdmin
<1>3. ASSUME NEW c \in Clients, Connect(c) \/ Disconnect(c) \/ BodyTimesOut(c)
      PROVE  BucketInv'
  BY <1>3, BucketUnchanged DEF Connect, Disconnect, BodyTimesOut
<1>4. ASSUME NEW c \in Clients, Handle(c)
      PROVE  BucketInv'
  BY <1>4, BucketUnchanged DEF Handle, BodyTooLarge, RejectBody, AppendRows,
       StatementAnswered
<1>5. ASSUME NEW rows \in Rows, RowsCommit(rows) \/ RowsAnswered(rows) \/ Failed(rows)
      PROVE  BucketInv'
  BY <1>5, BucketUnchanged DEF RowsCommit, RowsAnswered, Failed, RowsFail, Ended
<1>6. CASE FirstSweep \/ DiesStarting \/ Crash \/ Signal \/ Shutdown
  BY <1>6, BucketUnchanged DEF FirstSweep, DiesStarting, Crash, Signal, Shutdown,
       ServerClosed, WriterStopped, ShutdownComplete, ForcedExit, StageBecomes, Exits
<1>7. CASE UNCHANGED vars
  BY <1>7, BucketUnchanged DEF vars
<1> QED BY <1>1, <1>2, <1>3, <1>4, <1>5, <1>6, <1>7 DEF Next

LEMMA InitBucket == Init => BucketInv
BY HttpAssumption DEF Init, BucketInv, RateBounded

\* rate-limit.ts: whatever the rate, however long the service was idle and however many
\* requests were shed, no interval sees more requests admitted than the burst and what
\* its length refills.
THEOREM RateIsBounded == Spec => []RateBounded
<1>1. BucketInv => RateBounded
  BY DEF BucketInv
<1> QED BY InitBucket, NextBucket, <1>1, PTL DEF Spec

-----------------------------------------------------------------------------
(* Types. *)

LifeTypes ==
  /\ authOn \in BOOLEAN /\ limiterOn \in BOOLEAN
  /\ stage \in {"listening", "ready", "closing", "flushing", "ending", "exited"}
  /\ exit \in {"none", "0", "1"} /\ (exit # "none" <=> stage = "exited")
  /\ clock \in 0..MaxTicks

LinkTypes ==
  link \in [Clients -> BOOLEAN] /\ cut \in [Clients -> BOOLEAN] /\ sent \in 0..MaxRequests

HandlerTypes ==
  /\ task \in [Clients -> {"none", "body", "commit", "query", "sweep"}]
  /\ status \in [Clients -> {0, 200, 400, 401, 403, 404, 405, 408, 413, 429, 500, 503}]

RequestTypes ==
  /\ req \in [Clients -> Requests \cup {NoRequest}]
  /\ stored = [c \in Clients |-> stored[c]] /\ due = [c \in Clients |-> due[c]]
  /\ \A c \in Clients : due[c] \cup stored[c] \subseteq Valid(req[c])
  /\ \A c \in Clients : due[c] # {} => task[c] = "commit"

TypeInv == LifeTypes /\ LinkTypes /\ HandlerTypes /\ RequestTypes

LEMMA Statuses ==
  /\ \A r : authorize(r) \in {0, 401, 403}
  /\ \A error : ErrorStatus(error) \in {500, 503}
BY DEF authorize, ErrorStatus

LEMMA InitTypeInv == Init => TypeInv
BY HttpAssumption DEF Init, TypeInv, LifeTypes, LinkTypes, HandlerTypes, RequestTypes

\* The four parts of the invariant, when nothing they speak of has changed, or one client's
\* handler or connection has.
LEMMA LifeFrame ==
  ASSUME LifeTypes, UNCHANGED <<configVars, lifeVars>>, clock' = clock
  PROVE  LifeTypes'
BY DEF LifeTypes, configVars, lifeVars

LEMMA LinkFrame ==
  ASSUME LinkTypes, NEW c \in Clients, cut' = cut, sent' \in 0..MaxRequests,
         link' = link \/ \E open \in BOOLEAN : link' = [link EXCEPT ![c] = open]
  PROVE  LinkTypes'
BY DEF LinkTypes

LEMMA HandlerFrame ==
  ASSUME HandlerTypes, NEW c \in Clients,
         \/ task' = task
         \/ \E what \in {"none", "body", "commit", "query", "sweep"} :
              task' = [task EXCEPT ![c] = what],
         \/ status' = status
         \/ \E code \in {0, 200, 400, 401, 403, 404, 405, 408, 413, 429, 500, 503} :
              status' = [status EXCEPT ![c] = code]
  PROVE  HandlerTypes'
BY DEF HandlerTypes

LEMMA RequestFrame ==
  ASSUME RequestTypes, req' = req, stored' = stored, due' = due,
         \A c \in Clients : task[c] = "commit" => task'[c] = "commit"
  PROVE  RequestTypes'
BY DEF RequestTypes, Valid

LEMMA RequestReset ==
  ASSUME RequestTypes, NEW c \in Clients, NEW r \in Requests \cup {NoRequest},
         req' = [req EXCEPT ![c] = r], stored' = [stored EXCEPT ![c] = {}], due' = due,
         task[c] = "none", \A d \in Clients : d # c => task'[d] = task[d]
  PROVE  RequestTypes'
<1>1. due[c] = {}
  BY DEF RequestTypes
<1>2. req' \in [Clients -> Requests \cup {NoRequest}]
  BY DEF RequestTypes
<1>3. /\ stored' = [d \in Clients |-> stored'[d]] /\ due' = [d \in Clients |-> due'[d]]
      /\ stored'[c] = {} /\ due'[c] = {}
      /\ \A d \in Clients : d # c => stored'[d] = stored[d] /\ due'[d] = due[d]
      /\ \A d \in Clients : d # c => req'[d] = req[d]
  BY <1>1 DEF RequestTypes
<1>4. ASSUME NEW d \in Clients
      PROVE  /\ due'[d] \cup stored'[d] \subseteq Valid(req'[d])
             /\ due'[d] # {} => task'[d] = "commit"
  BY <1>3 DEF RequestTypes
<1>5. \A d \in Clients : Valid(req[d])' = Valid(req'[d])
  BY DEF Valid
<1> QED BY <1>2, <1>3, <1>4, <1>5 DEF RequestTypes

\* How a handler may end or go on, as HandlerFrame wants it.
LEMMA Endings ==
  ASSUME HandlerTypes, NEW c \in Clients,
         NEW code \in {200, 400, 401, 403, 404, 405, 408, 413, 429, 500, 503}, EndsWith(c, code)
  PROVE  HandlerTypes'
<1>1. task' = [task EXCEPT ![c] = "none"]
  BY DEF EndsWith
<1>2. \E after \in {code, status[c]} : status' = [status EXCEPT ![c] = after]
  BY ZenonT(60) DEF EndsWith
<1>3. status[c] \in {0, 200, 400, 401, 403, 404, 405, 408, 413, 429, 500, 503}
  BY DEF HandlerTypes
<1> QED BY <1>1, <1>2, <1>3 DEF HandlerTypes

LEMMA Waitings ==
  ASSUME HandlerTypes, NEW c \in Clients, NEW what \in {"body", "commit", "query", "sweep"},
         WaitsFor(c, what)
  PROVE  HandlerTypes'
BY DEF WaitsFor, HandlerTypes

\* Rows are sets of entries a handler waits for.
LEMMA RowsAreDue ==
  ASSUME RequestTypes, NEW rows \in Rows, NEW c \in Clients
  PROVE  /\ rows[c] \subseteq due[c]
         /\ rows[c] # {} => task[c] = "commit"
BY DEF Rows, RequestTypes

LEMMA CommitTypes ==
  ASSUME TypeInv, NEW rows \in Rows, RowsCommit(rows)
  PROVE  TypeInv'
<1>1. LifeTypes' /\ LinkTypes' /\ HandlerTypes'
  BY LifeFrame DEF TypeInv, RowsCommit, LinkTypes, HandlerTypes, limitVars
<1>2. /\ req' = req /\ due' = due /\ task' = task
      /\ stored' = [c \in Clients |-> stored[c] \cup rows[c]]
  BY DEF RowsCommit
<1>3. \A c \in Clients : rows[c] \subseteq due[c] /\ Valid(req[c])' = Valid(req[c])
  BY <1>2, RowsAreDue DEF TypeInv, Valid
<1>4. \A c \in Clients : due'[c] \cup stored'[c] \subseteq Valid(req[c])
  BY <1>2, <1>3 DEF TypeInv, RequestTypes
<1>5. stored' = [c \in Clients |-> stored'[c]]
  BY <1>2
<1> QED BY <1>1, <1>2, <1>3, <1>4, <1>5 DEF TypeInv, RequestTypes

\* Some handlers end and wait for nothing more, the others may wait for less.
LEMMA EndedTypes ==
  ASSUME TypeInv, NEW batch, NEW code \in {200, 500, 503}, Ended(batch, code),
         due' = [c \in Clients |-> due'[c]],
         \A c \in Clients : due'[c] \subseteq due[c] /\ (c \in batch => due'[c] = {})
  PROVE  TypeInv'
<1>1. LifeTypes' /\ LinkTypes'
  BY LifeFrame DEF TypeInv, Ended, LinkTypes, limitVars
<1>2. HandlerTypes'
  <2>1. task' \in [Clients -> {"none", "body", "commit", "query", "sweep"}]
    BY DEF TypeInv, Ended, HandlerTypes
  <2>2. status' = [d \in Clients |-> IF d \in batch /\ link[d] THEN code ELSE status[d]]
    BY DEF Ended
  <2>3. \A d \in Clients : status'[d] \in {code, status[d]}
    BY <2>2
  <2> QED BY <2>1, <2>2, <2>3 DEF TypeInv, HandlerTypes
<1>3. RequestTypes'
  <2>1. req' = req /\ stored' = stored /\ \A c \in Clients : Valid(req[c])' = Valid(req[c])
    BY DEF Ended, Valid
  <2>2. ASSUME NEW c \in Clients, due'[c] # {}
        PROVE  task'[c] = "commit"
    <3>1. c \notin batch /\ task[c] = "commit"
      BY <2>2 DEF TypeInv, RequestTypes
    <3> QED BY <3>1 DEF Ended
  <2>3. \A c \in Clients : due'[c] \cup stored[c] \subseteq Valid(req[c])
    BY DEF TypeInv, RequestTypes
  <2> QED BY <2>1, <2>2, <2>3 DEF TypeInv, RequestTypes
<1> QED BY <1>1, <1>2, <1>3 DEF TypeInv

LEMMA NextTypeInv ==
  ASSUME TypeInv, [Next]_vars
  PROVE  TypeInv'
<1> USE DEF TypeInv
<1>1. CASE Tick
  <2>1. LifeTypes'
    BY <1>1, HttpAssumption DEF Tick, LifeTypes, configVars, lifeVars
  <2> QED BY <1>1, <2>1, RequestFrame DEF Tick, LinkTypes, HandlerTypes
<1>2. ASSUME NEW c \in Clients, NEW r \in Requests,
             AnswerOpen(c, r) \/ Deny(c, r) \/ AnswerAdmin(c, r) \/ Shed(c, r) \/ Admit(c, r)
      PROVE  TypeInv'
  <2>1. Receives(c, r) /\ clock' = clock
    BY <1>2 DEF AnswerOpen, Deny, AnswerAdmin, Shed, Admit, limitVars
  <2>2. LifeTypes'
    BY <2>1, LifeFrame DEF Receives
  <2>3. sent' \in 0..MaxRequests
    BY <2>1, HttpAssumption DEF Receives, LinkTypes
  <2>4. LinkTypes'
    BY <2>1, <2>3, LinkFrame DEF Receives
  <2>5. \/ \E code \in {200, 400, 401, 403, 404, 405, 408, 413, 429, 500, 503} : EndsWith(c, code)
        \/ \E what \in {"body", "commit", "query", "sweep"} : WaitsFor(c, what)
    <3>1. CASE AnswerOpen(c, r)
      BY <3>1 DEF AnswerOpen, Open
    <3>2. CASE Deny(c, r)
      BY <3>2, Statuses DEF Deny
    <3>3. CASE AnswerAdmin(c, r)
      BY <3>3 DEF AnswerAdmin
    <3>4. CASE Shed(c, r)
      BY <3>4 DEF Shed
    <3>5. CASE Admit(c, r)
      BY <3>5 DEF Admit
    <3> QED BY <1>2, <3>1, <3>2, <3>3, <3>4, <3>5
  <2>6. HandlerTypes'
    BY <2>5, Endings, Waitings
  <2>7. RequestTypes'
    <3>1. \A d \in Clients : d # c => task'[d] = task[d]
      BY <2>5 DEF EndsWith, WaitsFor, HandlerTypes
    <3> QED BY <2>1, <3>1, RequestReset DEF Receives
  <2> QED BY <2>2, <2>4, <2>6, <2>7
<1>3. ASSUME NEW c \in Clients, Connect(c)
      PROVE  TypeInv'
  <2>1. LifeTypes' /\ RequestTypes'
    BY <1>3, LifeFrame, RequestReset DEF Connect, limitVars
  <2>2. LinkTypes' /\ HandlerTypes'
    BY <1>3 DEF Connect, LinkTypes, HandlerTypes
  <2> QED BY <2>1, <2>2
<1>4. ASSUME NEW c \in Clients, Disconnect(c) \/ BodyTimesOut(c) \/ Handle(c)
      PROVE  TypeInv'
  <2>1. /\ UNCHANGED <<configVars, lifeVars, req, stored, cut, sent, limitVars>>
        /\ link' = link \/ link' = [link EXCEPT ![c] = FALSE]
    BY <1>4 DEF Disconnect, BodyTimesOut, Handle, BodyTooLarge, RejectBody, AppendRows,
         StatementAnswered
  <2>2. LifeTypes'
    BY <2>1, LifeFrame DEF limitVars
  <2>3. LinkTypes'
    BY <2>1, LinkFrame DEF LinkTypes
  <2>4. CASE Disconnect(c) \/ BodyTooLarge(c)
    <3>1. status' = status
      BY <2>4 DEF Disconnect, BodyTooLarge
    <3>2. \E what \in {"none", "body", "commit", "query", "sweep"} :
            task' = [task EXCEPT ![c] = what]
      <4>1. task[c] \in {"none", "body", "commit", "query", "sweep"}
        BY DEF HandlerTypes
      <4> QED BY <2>4, <4>1 DEF Disconnect, BodyTooLarge
    <3>3. HandlerTypes'
      BY <3>1, <3>2, HandlerFrame, ZenonT(60)
    <3>4. due' = due /\ \A d \in Clients : task[d] = "commit" => task'[d] = "commit"
      BY <2>4 DEF Disconnect, BodyTooLarge, HandlerTypes
    <3>5. RequestTypes'
      BY <2>1, <3>4, RequestFrame
    <3> QED BY <2>2, <2>3, <3>3, <3>5
  <2>5. CASE AppendRows(c) /\ WaitsFor(c, "commit") /\ due' = [due EXCEPT ![c] = Valid(req[c])]
    <3>1. HandlerTypes'
      BY <2>5, Waitings
    <3>2. task'[c] = "commit" /\ \A d \in Clients : d # c => task'[d] = task[d]
      BY <2>5 DEF WaitsFor, HandlerTypes
    <3>3. /\ due' = [d \in Clients |-> due'[d]] /\ due'[c] = Valid(req[c])
          /\ \A d \in Clients : d # c => due'[d] = due[d]
      BY <2>5 DEF RequestTypes
    <3>4. ASSUME NEW d \in Clients
          PROVE  /\ due'[d] \cup stored[d] \subseteq Valid(req[d])
                 /\ due'[d] # {} => task'[d] = "commit"
      BY <3>2, <3>3 DEF RequestTypes
    <3>5. req' = req /\ stored' = stored /\ \A d \in Clients : Valid(req[d])' = Valid(req[d])
      BY <2>1 DEF Valid
    <3>6. RequestTypes'
      BY <3>3, <3>4, <3>5 DEF RequestTypes
    <3> QED BY <2>2, <2>3, <3>1, <3>6
  <2>6. CASE \/ BodyTimesOut(c) \/ RejectBody(c)
             \/ \E code \in {503} \cup {ErrorStatus(error) : error \in Faults} :
                  AppendRows(c) /\ EndsWith(c, code) /\ due' = due
             \/ \E code \in {200, 500, 503} : StatementAnswered(c, code)
    <3>1. PICK code \in {200, 400, 401, 403, 404, 405, 408, 413, 429, 500, 503} :
             EndsWith(c, code)
      <4>1. Rejection(req[c]) \in {0, 400, 413, 500, 503}
        BY Statuses DEF Rejection
      <4>2. CASE RejectBody(c)
        BY <4>1, <4>2 DEF RejectBody
      <4>3. CASE BodyTimesOut(c)
        BY <4>3 DEF BodyTimesOut
      <4>4. ASSUME NEW code \in {200, 500, 503}, StatementAnswered(c, code)
            PROVE  EndsWith(c, code)
        BY <4>4 DEF StatementAnswered
      <4>5. \A error : ErrorStatus(error) \in {500, 503}
        BY Statuses
      <4> QED BY <2>6, <4>2, <4>3, <4>4, <4>5
    <3>2. HandlerTypes'
      BY <3>1, Endings
    <3>3. due' = due /\ task[c] # "commit"
      BY <2>6 DEF BodyTimesOut, RejectBody, AppendRows, StatementAnswered
    <3>4. \A d \in Clients : task[d] = "commit" => task'[d] = "commit"
      BY <3>1, <3>3 DEF EndsWith, HandlerTypes
    <3>5. RequestTypes'
      BY <2>1, <3>3, <3>4, RequestFrame
    <3> QED BY <2>2, <2>3, <3>2, <3>5
  <2>7. AppendRows(c) =>
          \/ WaitsFor(c, "commit") /\ due' = [due EXCEPT ![c] = Valid(req[c])]
          \/ \E code \in {503} \cup {ErrorStatus(error) : error \in Faults} :
               EndsWith(c, code) /\ due' = due
    BY DEF AppendRows
  <2> QED BY <1>4, <2>4, <2>5, <2>6, <2>7, ZenonT(60) DEF Handle
<1>5. ASSUME NEW rows \in Rows, RowsCommit(rows) \/ RowsAnswered(rows) \/ Failed(rows)
      PROVE  TypeInv'
  <2>1. CASE RowsCommit(rows)
    BY <2>1, CommitTypes
  <2>2. CASE RowsAnswered(rows)
    <3> DEFINE ended == {c \in Clients : rows[c] # {} /\ due[c] = rows[c]}
    <3>1. /\ Ended(ended, 200)
          /\ due' = [c \in Clients |-> due[c] \ rows[c]]
      BY <2>2 DEF RowsAnswered
    <3>2. \A c \in Clients : due'[c] \subseteq due[c] /\ (c \in ended => due'[c] = {})
      BY <3>1
    <3>3. due' = [c \in Clients |-> due'[c]]
      BY <3>1
    <3> HIDE DEF ended
    <3> QED BY <3>1, <3>2, <3>3, EndedTypes
  <2>3. CASE Failed(rows)
    <3> DEFINE ended == {c \in Clients : rows[c] # {}}
    <3>1. PICK code \in {500, 503} :
            /\ Ended(ended, code)
            /\ due' = [c \in Clients |-> IF rows[c] = {} THEN due[c] ELSE {}]
      BY <2>3, Statuses DEF Failed, RowsFail
    <3>2. \A c \in Clients : due'[c] \subseteq due[c] /\ (c \in ended => due'[c] = {})
      BY <3>1
    <3>3. due' = [c \in Clients |-> due'[c]]
      BY <3>1
    <3> HIDE DEF ended
    <3> QED BY <3>1, <3>2, <3>3, EndedTypes
  <2> QED BY <1>5, <2>1, <2>2, <2>3
<1>6. CASE DiesStarting \/ Crash \/ ShutdownComplete \/ ForcedExit
  <2>1. PICK code \in {"0", "1"} : Exits(code)
    BY <1>6 DEF DiesStarting, Crash, ShutdownComplete, ForcedExit
  <2>2. LifeTypes'
    BY <2>1 DEF Exits, LifeTypes, configVars, limitVars
  <2>3. RequestTypes'
    BY <2>1 DEF Exits, RequestTypes, Valid
  <2>4. HandlerTypes'
    BY <2>1 DEF Exits, HandlerTypes
  <2>5. LinkTypes'
    <3>1. cut' = [c \in Clients |-> cut[c] \/ Unanswered(c)] /\ sent' = sent
          /\ link' = [c \in Clients |-> FALSE]
      BY <2>1 DEF Exits
    <3> QED BY <3>1, Zenon DEF LinkTypes
  <2> QED BY <2>2, <2>3, <2>4, <2>5
<1>7. CASE FirstSweep \/ Signal \/ ServerClosed \/ WriterStopped
  <2>1. PICK next \in {"ready", "closing", "flushing", "ending"} : StageBecomes(next)
    BY <1>7 DEF FirstSweep, Signal, ServerClosed, WriterStopped
  <2>2. LifeTypes'
    <3>1. exit = "none"
      BY <1>7 DEF FirstSweep, Signal, ServerClosed, WriterStopped, LifeTypes
    <3> QED BY <2>1, <3>1 DEF StageBecomes, LifeTypes, configVars, limitVars
  <2>3. RequestTypes'
    BY <2>1, RequestFrame DEF StageBecomes
  <2>4. HandlerTypes'
    BY <2>1 DEF StageBecomes, HandlerTypes
  <2>5. LinkTypes'
    <3>1. link' = link \/ link' = [c \in Clients |-> link[c] /\ task[c] # "none"]
      BY <1>7 DEF FirstSweep, Signal, ServerClosed, WriterStopped
    <3> QED BY <2>1, <3>1, Zenon DEF StageBecomes, LinkTypes
  <2> QED BY <2>2, <2>3, <2>4, <2>5
<1>8. CASE UNCHANGED vars
  BY <1>8, LifeFrame, RequestFrame DEF vars, limitVars, LinkTypes, HandlerTypes
<1> QED BY <1>1, <1>2, <1>3, <1>4, <1>5, <1>6, <1>7, <1>8 DEF Next, Shutdown

\* Every variable keeps its type, in particular no entry is stored that its request did
\* not have, and the bucket never holds more than a second's tokens or lends one.
THEOREM TypeCorrect == Spec => []TypeOK
<1>1. Init => TypeInv /\ BucketInv
  BY InitTypeInv, InitBucket
<1>2. TypeInv /\ BucketInv /\ [Next]_vars => (TypeInv /\ BucketInv)'
  BY NextTypeInv, NextBucket
<1>3. TypeInv /\ BucketInv => TypeOK
  BY DEF TypeInv, LifeTypes, LinkTypes, HandlerTypes, RequestTypes, BucketInv, TypeOK
<1> QED BY <1>1, <1>2, <1>3, PTL DEF Spec

-----------------------------------------------------------------------------
(* What handlers may have done, and what their answers say.  The two properties *)
(* look at finished requests; the invariant says where unfinished ones are: a   *)
(* handler that still waits has answered nothing, only the one of POST /logs      *)
(* waits for a body or a commit, and what it no longer waits for is stored.     *)

Honest(c) ==
  /\ task[c] # "none" => status[c] = 0
  /\ task[c] \notin {"none", "commit"} => stored[c] = {}
  /\ task[c] = "commit" => Valid(req[c]) \ due[c] \subseteq stored[c]
  /\ task[c] \in {"body", "commit"} => req[c].route = "POST/logs"
  /\ task[c] \in {"query", "sweep"} => req[c].route # "POST/logs"
  /\ req[c].route = "POST/logs" =>
       /\ status[c] = 200 => stored[c] = Valid(req[c])
       /\ status[c] \in {400, 401, 403, 408, 413, 429} => stored[c] = {}
  /\ ~authOn => status[c] \notin {401, 403}
  /\ authOn /\ (task[c] # "none" \/ stored[c] # {}) =>
       Scope(req[c].route) \in ScopesOf(req[c].credential)

HonestInv == \A c \in Clients : Honest(c)

LEMMA HonestFrame ==
  ASSUME NEW c \in Clients, Honest(c), authOn' = authOn,
         task'[c] = task[c], status'[c] = status[c], stored'[c] = stored[c],
         req'[c] = req[c], due'[c] = due[c]
  PROVE  Honest(c)'
<1>1. Valid(req[c])' = Valid(req[c])
  BY DEF Valid
<1> QED BY <1>1 DEF Honest

\* A handler ends without a commit to tell of.
LEMMA HonestEnd ==
  ASSUME NEW c \in Clients, Honest(c), authOn' = authOn,
         task'[c] = "none", stored'[c] = stored[c], req'[c] = req[c],
         \/ status'[c] = status[c]
         \/ /\ task[c] # "none" /\ status'[c] \notin {401, 403}
            /\ req[c].route = "POST/logs" => status'[c] # 200
            /\ task[c] = "commit" => status'[c] \in {500, 503}
  PROVE  Honest(c)'
<1>1. Valid(req[c])' = Valid(req[c])
  BY DEF Valid
<1> QED BY <1>1 DEF Honest

\* authorize() lets a request pass only with authentication off or the scope.
LEMMA AuthorizePasses ==
  ASSUME NEW r, authorize(r) = 0, authOn
  PROVE  Scope(r.route) \in ScopesOf(r.credential)
BY DEF authorize

LEMMA ValidIsAcceptable ==
  ASSUME NEW r
  PROVE  Valid(r) = {i \in DOMAIN r.entries : Acceptable(r.entries[i])}
BY DEF Valid, validateEntry, isRejection, Acceptable

\* A request is answered before it waits for anything, or waits with the right to.
LEMMA RequestHonest ==
  ASSUME TypeInv, NEW c \in Clients, NEW r \in Requests, NEW d \in Clients, Honest(d),
         AnswerOpen(c, r) \/ Deny(c, r) \/ AnswerAdmin(c, r) \/ Shed(c, r) \/ Admit(c, r)
  PROVE  Honest(d)'
<1>1. /\ Receives(c, r) /\ authOn' = authOn
      /\ status'[d] = status'[d]
  BY DEF AnswerOpen, Deny, AnswerAdmin, Shed, Admit, Receives, configVars
<1>2. /\ req' = [req EXCEPT ![c] = r] /\ stored' = [stored EXCEPT ![c] = {}]
      /\ req'[c] = r /\ stored'[c] = {}
  BY <1>1 DEF Receives, TypeInv, HandlerTypes, RequestTypes
<1>3. CASE d # c
  <2>1. task'[d] = task[d] /\ status'[d] = status[d]
    BY <1>3 DEF AnswerOpen, Deny, AnswerAdmin, Shed, Admit, EndsWith, WaitsFor, TypeInv,
         HandlerTypes
  <2>2. req'[d] = req[d] /\ stored'[d] = stored[d] /\ due'[d] = due[d]
    BY <1>1, <1>2, <1>3 DEF Receives, TypeInv, HandlerTypes, RequestTypes
  <2> QED BY <1>1, <2>1, <2>2, HonestFrame
<1>4. CASE d = c
  <2>1. link[c] /\ c \in DOMAIN task /\ c \in DOMAIN status
    BY <1>1 DEF Receives, TypeInv, HandlerTypes, RequestTypes
  <2>2. CASE AnswerOpen(c, r)
    <3>1. task'[c] = "none" /\ status'[c] \in {200, 404, 405, 503} /\ r.route # "POST/logs"
      BY <2>1, <2>2 DEF AnswerOpen, EndsWith, Open
    <3> QED BY <1>1, <1>2, <1>4, <3>1 DEF Honest
  <2>3. CASE Deny(c, r)
    <3>1. task'[c] = "none" /\ status'[c] \in {401, 403} /\ authOn
      BY <2>1, <2>3 DEF Deny, EndsWith, authorize
    <3> QED BY <1>1, <1>2, <1>4, <3>1 DEF Honest
  <2>4. CASE AnswerAdmin(c, r)
    <3>1. /\ authOn => Scope(r.route) \in ScopesOf(r.credential)
          /\ r.route # "POST/logs"
      BY <2>4, AuthorizePasses DEF AnswerAdmin, Admin
    <3>2. \/ task'[c] = "sweep" /\ status'[c] = 0
          \/ task'[c] = "none" /\ status'[c] = 200
      BY <2>1, <2>4 DEF AnswerAdmin, EndsWith, WaitsFor
    <3> QED BY <1>1, <1>2, <1>4, <3>1, <3>2 DEF Honest
  <2>5. CASE Shed(c, r)
    <3>1. task'[c] = "none" /\ status'[c] = 429
      BY <2>1, <2>5 DEF Shed, EndsWith
    <3> QED BY <1>1, <1>2, <1>4, <3>1 DEF Honest
  <2>6. CASE Admit(c, r)
    <3>1. authOn => Scope(r.route) \in ScopesOf(r.credential)
      BY <2>6, AuthorizePasses DEF Admit
    <3>2. \/ task'[c] = "body" /\ status'[c] = 0 /\ r.route = "POST/logs"
          \/ task'[c] = "query" /\ status'[c] = 0 /\ r.route # "POST/logs"
          \/ task'[c] = "none" /\ status'[c] = 400
      BY <2>1, <2>6 DEF Admit, EndsWith, WaitsFor
    <3> QED BY <1>1, <1>2, <1>4, <3>1, <3>2 DEF Honest
  <2> QED BY <2>2, <2>3, <2>4, <2>5, <2>6
<1> QED BY <1>3, <1>4

LEMMA CommitHonest ==
  ASSUME TypeInv, NEW rows \in Rows, RowsCommit(rows), NEW d \in Clients, Honest(d)
  PROVE  Honest(d)'
<1>1. /\ authOn' = authOn /\ req' = req /\ task' = task /\ status' = status /\ due' = due
      /\ stored'[d] = stored[d] \cup rows[d]
  BY DEF RowsCommit, configVars
<1>2. CASE rows[d] = {}
  <2>1. stored'[d] = stored[d]
    BY <1>1, <1>2
  <2> QED BY <1>1, <2>1, HonestFrame
<1>3. CASE rows[d] # {}
  <2>1. task[d] = "commit"
    BY <1>3, RowsAreDue DEF TypeInv
  <2>2. status[d] = 0 /\ Valid(req[d])' = Valid(req[d])
    BY <1>1, <2>1 DEF Honest, Valid
  <2> QED BY <1>1, <2>1, <2>2 DEF Honest
<1> QED BY <1>2, <1>3

\* A request is told 200 with the answer to the last of its rows.
LEMMA AnsweredHonest ==
  ASSUME TypeInv, NEW rows \in Rows, RowsAnswered(rows), NEW d \in Clients, Honest(d)
  PROVE  Honest(d)'
<1> DEFINE ended == {c \in Clients : rows[c] # {} /\ due[c] = rows[c]}
<1>1. /\ authOn' = authOn /\ req'[d] = req[d] /\ stored'[d] = stored[d]
      /\ task'[d] = IF d \in ended THEN "none" ELSE task[d]
      /\ status'[d] = IF d \in ended /\ link[d] THEN 200 ELSE status[d]
      /\ due'[d] = due[d] \ rows[d] /\ rows[d] \subseteq stored[d]
      /\ Valid(req[d])' = Valid(req[d])
  BY DEF RowsAnswered, Ended, configVars, Valid
<1>2. CASE rows[d] = {}
  <2>1. d \notin ended /\ due'[d] = due[d]
    BY <1>1, <1>2
  <2> QED BY <1>1, <2>1, HonestFrame
<1>3. CASE rows[d] # {}
  <2>1. /\ task[d] = "commit" /\ status[d] = 0 /\ req[d].route = "POST/logs"
        /\ Valid(req[d]) \ due[d] \subseteq stored[d] /\ stored[d] \subseteq Valid(req[d])
        /\ authOn => Scope(req[d].route) \in ScopesOf(req[d].credential)
    BY <1>3, RowsAreDue DEF TypeInv, RequestTypes, Honest
  <2>2. CASE d \in ended
    <3>1. stored[d] = Valid(req[d])
      BY <1>1, <2>1, <2>2
    <3>2. task'[d] = "none" /\ status'[d] \in {0, 200}
      BY <1>1, <2>1, <2>2
    <3> QED BY <1>1, <2>1, <3>1, <3>2 DEF Honest
  <2>3. CASE d \notin ended
    <3>1. Valid(req[d]) \ due'[d] \subseteq stored[d]
      BY <1>1, <2>1
    <3>2. task'[d] = "commit" /\ status'[d] = 0
      BY <1>1, <2>1, <2>3
    <3> QED BY <1>1, <2>1, <3>1, <3>2 DEF Honest
  <2> QED BY <2>2, <2>3
<1> QED BY <1>2, <1>3

LEMMA FailedHonest ==
  ASSUME TypeInv, NEW rows \in Rows, Failed(rows), NEW d \in Clients, Honest(d)
  PROVE  Honest(d)'
<1>1. PICK code \in {500, 503} :
        /\ Ended({c \in Clients : rows[c] # {}}, code)
        /\ due' = [c \in Clients |-> IF rows[c] = {} THEN due[c] ELSE {}]
  BY Statuses DEF Failed, RowsFail
<1>2. /\ authOn' = authOn /\ req'[d] = req[d] /\ stored'[d] = stored[d]
      /\ task'[d] = IF rows[d] # {} THEN "none" ELSE task[d]
      /\ status'[d] = IF rows[d] # {} /\ link[d] THEN code ELSE status[d]
  BY <1>1 DEF Ended, configVars
<1>3. CASE rows[d] = {}
  BY <1>1, <1>2, <1>3, HonestFrame
<1>4. CASE rows[d] # {}
  <2>1. task[d] = "commit"
    BY <1>4, RowsAreDue DEF TypeInv
  <2> QED BY <1>2, <1>4, <2>1, HonestEnd
<1> QED BY <1>3, <1>4

LEMMA InitHonest == Init => HonestInv
BY DEF Init, HonestInv, Honest, NoRequest

LEMMA NextHonest ==
  ASSUME TypeInv, HonestInv, [Next]_vars
  PROVE  HonestInv'
<1> SUFFICES ASSUME NEW d \in Clients
             PROVE  Honest(d)'
  BY DEF HonestInv
<1>h. Honest(d)
  BY DEF HonestInv
<1>1. CASE Tick
  BY <1>h, <1>1, HonestFrame DEF Tick, configVars
<1>2. ASSUME NEW c \in Clients, NEW r \in Requests,
             AnswerOpen(c, r) \/ Deny(c, r) \/ AnswerAdmin(c, r) \/ Shed(c, r) \/ Admit(c, r)
      PROVE  Honest(d)'
  BY <1>h, <1>2, RequestHonest
<1>3. ASSUME NEW c \in Clients, Connect(c)
      PROVE  Honest(d)'
  <2>1. authOn' = authOn /\ task' = task /\ task[c] = "none"
    BY <1>3 DEF Connect, configVars
  <2>2. CASE d # c
    <3>1. /\ req'[d] = req[d] /\ status'[d] = status[d] /\ stored'[d] = stored[d]
          /\ due'[d] = due[d]
      BY <1>3, <2>2 DEF Connect, TypeInv, RequestTypes, HandlerTypes
    <3> QED BY <1>h, <2>1, <3>1, HonestFrame
  <2>3. CASE d = c
    <3>1. status'[d] = 0 /\ stored'[d] = {}
      BY <1>3, <2>3 DEF Connect, TypeInv, RequestTypes, HandlerTypes
    <3> QED BY <2>1, <2>3, <3>1 DEF Honest
  <2> QED BY <2>2, <2>3
<1>4. ASSUME NEW c \in Clients, Disconnect(c) \/ BodyTimesOut(c) \/ Handle(c)
      PROVE  Honest(d)'
  <2>1. authOn' = authOn /\ req' = req /\ stored' = stored
    BY <1>4 DEF Disconnect, BodyTimesOut, Handle, BodyTooLarge, RejectBody, AppendRows,
         StatementAnswered, configVars
  <2>2. CASE d # c
    <3>1. task'[d] = task[d] /\ status'[d] = status[d] /\ due'[d] = due[d]
      BY <1>4, <2>2 DEF Disconnect, BodyTimesOut, Handle, BodyTooLarge, RejectBody,
           AppendRows, StatementAnswered, EndsWith, WaitsFor, TypeInv, HandlerTypes, RequestTypes
    <3> QED BY <1>h, <2>1, <3>1, HonestFrame
  <2>3. CASE /\ d = c /\ AppendRows(c) /\ WaitsFor(c, "commit")
             /\ due' = [due EXCEPT ![c] = Valid(req[c])]
    <3>1. task[d] = "body" /\ task'[d] = "commit" /\ status'[d] = 0
      BY <2>3 DEF AppendRows, WaitsFor, TypeInv, HandlerTypes, RequestTypes
    <3>2. due'[d] = Valid(req[d]) /\ Valid(req[d])' = Valid(req[d])
      BY <2>1, <2>3 DEF TypeInv, RequestTypes, Valid
    <3> QED BY <1>h, <2>1, <3>1, <3>2 DEF Honest
  <2>4. CASE d = c /\ due' = due /\ ~(AppendRows(c) /\ WaitsFor(c, "commit"))
    <3>1. CASE task'[d] = task[d] /\ status'[d] = status[d]
      BY <1>h, <2>1, <2>4, <3>1, HonestFrame
    <3>2. CASE BodyTooLarge(c) \/ RejectBody(c) \/ AppendRows(c) \/ BodyTimesOut(c)
      <4>1. /\ task[d] = "body" /\ task'[d] = "none"
            /\ status'[d] \in {status[d], 400, 408, 413, 500, 503}
        <5>1. status'[d] = status[d] \/ status'[d] \in {400, 408, 413, 500, 503}
          BY <2>4, <3>2, Statuses DEF BodyTooLarge, RejectBody, Rejection, AppendRows,
             BodyTimesOut, EndsWith, TypeInv, HandlerTypes, RequestTypes
        <5> QED BY <2>4, <3>2, <5>1 DEF BodyTooLarge, RejectBody, AppendRows, BodyTimesOut,
             EndsWith, TypeInv, HandlerTypes
      <4> QED BY <1>h, <2>1, <4>1, HonestEnd
    <3>3. CASE \E code \in {200, 500, 503} : StatementAnswered(c, code)
      <4>1. /\ task[d] \in {"query", "sweep"} /\ task'[d] = "none"
            /\ status'[d] \in {status[d], 200, 500, 503}
        BY <2>4, <3>3 DEF StatementAnswered, EndsWith, TypeInv, HandlerTypes, RequestTypes
      <4>2. task[d] # "none" /\ req[d].route # "POST/logs"
        BY <1>h, <4>1 DEF Honest
      <4> QED BY <1>h, <2>1, <4>1, <4>2, HonestEnd
    <3>4. CASE Disconnect(c)
      <4>1. status'[d] = status[d] /\ task'[d] \in {task[d], "none"}
        BY <2>4, <3>4 DEF Disconnect, TypeInv, HandlerTypes, RequestTypes
      <4> QED BY <1>h, <2>1, <3>1, <4>1, HonestEnd
    <3> QED BY <1>4, <3>2, <3>3, <3>4 DEF Handle
  <2>5. \/ due' = due /\ ~(AppendRows(c) /\ WaitsFor(c, "commit"))
        \/ /\ AppendRows(c) /\ WaitsFor(c, "commit")
           /\ due' = [due EXCEPT ![c] = Valid(req[c])]
    <3>1. AppendRows(c) =>
            \/ WaitsFor(c, "commit") /\ due' = [due EXCEPT ![c] = Valid(req[c])]
            \/ task'[c] = "none" /\ due' = due
      BY DEF AppendRows, EndsWith, TypeInv, HandlerTypes
    <3>2. WaitsFor(c, "commit") => task'[c] = "commit"
      BY DEF WaitsFor, TypeInv, HandlerTypes
    <3>3. AppendRows(c) \/ due' = due
      BY <1>4 DEF Disconnect, BodyTimesOut, Handle, BodyTooLarge, RejectBody, StatementAnswered
    <3>4. WaitsFor(c, "commit") /\ ~AppendRows(c) => due' = due
      BY <3>3
    <3> QED BY <3>1, <3>2, <3>3
  <2> QED BY <2>2, <2>3, <2>4, <2>5
<1>5. ASSUME NEW rows \in Rows, RowsCommit(rows) \/ RowsAnswered(rows) \/ Failed(rows)
      PROVE  Honest(d)'
  BY <1>h, <1>5, CommitHonest, AnsweredHonest, FailedHonest
<1>6. CASE DiesStarting \/ Crash \/ ShutdownComplete \/ ForcedExit
  <2>1. /\ task'[d] = "none" /\ status' = status /\ stored' = stored /\ req' = req
        /\ authOn' = authOn
    BY <1>6 DEF DiesStarting, Crash, ShutdownComplete, ForcedExit, Exits, configVars
  <2> QED BY <1>h, <2>1, HonestEnd
<1>7. CASE FirstSweep \/ Signal \/ ServerClosed \/ WriterStopped \/ UNCHANGED vars
  BY <1>h, <1>7, HonestFrame DEF FirstSweep, Signal, ServerClosed, WriterStopped,
       StageBecomes, vars, configVars
<1> QED BY <1>1, <1>2, <1>3, <1>4, <1>5, <1>6, <1>7 DEF Next, Shutdown

LEMMA HonestAlways == Spec => [](TypeInv /\ HonestInv)
<1>1. Init => TypeInv /\ HonestInv
  BY InitTypeInv, InitHonest
<1>2. TypeInv /\ HonestInv /\ [Next]_vars => (TypeInv /\ HonestInv)'
  BY NextTypeInv, NextHonest
<1> QED BY <1>1, <1>2, PTL DEF Spec

\* ingest.ts, README: a client that is told 200 has every acceptable entry of its request
\* committed and no other, one that is told it is to blame has none.
THEOREM AnswersAreTrue == Spec => []AnswersTellTheTruth
<1>1. HonestInv => AnswersTellTheTruth
  BY ValidIsAcceptable DEF HonestInv, Honest, AnswersTellTheTruth
<1> QED BY <1>1, HonestAlways, PTL

\* auth.ts: nobody is turned away while authentication is off, and while it is on nothing
\* waits for the database or has been stored for a key without the scope of its route.
THEOREM ScopesAreHonoured == Spec => []ScopesHonoured
<1>1. HonestInv => ScopesHonoured
  BY DEF HonestInv, Honest, ScopesHonoured
<1> QED BY <1>1, HonestAlways, PTL
-----------------------------------------------------------------------------
(* What an exit leaves behind.  CleanExitAnswersAll looks at the end of the     *)
(* process; the invariant says that nobody has been cut off before it, and that *)
(* once server.close() has called back no connection is left to be cut off.     *)

ExitInv ==
  /\ exit = "none" => \A c \in Clients : ~cut[c]
  /\ stage \in {"flushing", "ending"} => \A c \in Clients : ~link[c]
  /\ CleanExitAnswersAll

LEMMA InitExit == Init => ExitInv
BY DEF Init, ExitInv, CleanExitAnswersAll

\* No step but an exit cuts anybody off, and connections are opened before the shutdown.
LEMMA ExitFrame ==
  ASSUME ExitInv, UNCHANGED lifeVars, cut' = cut,
         \A c \in Clients : link'[c] => link[c] \/ stage \in {"listening", "ready"}
  PROVE  ExitInv'
BY DEF ExitInv, CleanExitAnswersAll, lifeVars

LEMMA NextExit ==
  ASSUME TypeInv, ExitInv, [Next]_vars
  PROVE  ExitInv'
<1>0. /\ link \in [Clients -> BOOLEAN] /\ cut \in [Clients -> BOOLEAN]
      /\ exit # "none" <=> stage = "exited"
  BY DEF TypeInv, LinkTypes, LifeTypes
<1>1. CASE Tick \/ UNCHANGED vars
  BY <1>1, ExitFrame DEF Tick, vars
<1>2. ASSUME NEW c \in Clients, NEW r \in Requests,
             AnswerOpen(c, r) \/ Deny(c, r) \/ AnswerAdmin(c, r) \/ Shed(c, r) \/ Admit(c, r)
      PROVE  ExitInv'
  BY <1>2, ExitFrame DEF AnswerOpen, Deny, AnswerAdmin, Shed, Admit, Receives
<1>3. ASSUME NEW c \in Clients, Connect(c)
      PROVE  ExitInv'
  BY <1>3, ExitFrame DEF Connect
<1>4. ASSUME NEW c \in Clients, Disconnect(c) \/ BodyTimesOut(c) \/ Handle(c)
      PROVE  ExitInv'
  <2>1. /\ UNCHANGED <<lifeVars, cut>>
        /\ link' = link \/ link' = [link EXCEPT ![c] = FALSE]
    BY <1>4 DEF Disconnect, BodyTimesOut, Handle, BodyTooLarge, RejectBody, AppendRows,
         StatementAnswered
  <2>2. \A d \in Clients : link'[d] => link[d]
    BY <1>0, <2>1
  <2> QED BY <2>1, <2>2, ExitFrame
<1>5. ASSUME NEW rows \in Rows, RowsCommit(rows) \/ RowsAnswered(rows) \/ Failed(rows)
      PROVE  ExitInv'
  BY <1>5, ExitFrame DEF RowsCommit, RowsAnswered, Failed, RowsFail, Ended
<1>6. CASE DiesStarting \/ Crash \/ ForcedExit
  BY <1>6 DEF DiesStarting, Crash, ForcedExit, Exits, ExitInv, CleanExitAnswersAll
<1>7. CASE ShutdownComplete
  <2>1. /\ stage = "ending" /\ exit = "none" /\ stage' = "exited" /\ exit' = "0"
        /\ \A c \in Clients : cut'[c] = (cut[c] \/ Unanswered(c))
    BY <1>0, <1>7 DEF ShutdownComplete, Exits
  <2>2. \A c \in Clients : ~cut[c] /\ ~link[c]
    BY <2>1 DEF ExitInv
  <2>3. \A c \in Clients : ~cut'[c]
    BY <2>1, <2>2 DEF Unanswered
  <2> QED BY <2>1, <2>3 DEF ExitInv, CleanExitAnswersAll
<1>8. CASE FirstSweep \/ Signal \/ ServerClosed \/ WriterStopped
  <2>1. /\ exit' = exit /\ cut' = cut
        /\ stage' \in {"flushing", "ending"} => \A c \in Clients : ~link'[c]
    BY <1>8 DEF FirstSweep, Signal, ServerClosed, WriterStopped, StageBecomes, ExitInv
  <2> QED BY <2>1 DEF ExitInv, CleanExitAnswersAll
<1> QED BY <1>1, <1>2, <1>3, <1>4, <1>5, <1>6, <1>7, <1>8 DEF Next, Shutdown

\* index.ts: when the process exits with 0, every request whose client was still there had
\* been answered, however the shutdown met the handlers, the writer and the timers.
THEOREM CleanExitIsComplete == Spec => []CleanExitAnswersAll
<1>1. Init => TypeInv /\ ExitInv
  BY InitTypeInv, InitExit
<1>2. TypeInv /\ ExitInv /\ [Next]_vars => (TypeInv /\ ExitInv)'
  BY NextTypeInv, NextExit
<1>3. ExitInv => CleanExitAnswersAll
  BY DEF ExitInv
<1> QED BY <1>1, <1>2, <1>3, PTL DEF Spec
=============================================================================
