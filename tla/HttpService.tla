---------------------------- MODULE HttpService ----------------------------
(***************************************************************************)
(* The HTTP side of one process, from listen() in src/index.ts to its      *)
(* exit: dispatch() of src/http/server.ts with the handlers of             *)
(* src/http/routes, the body reader, the authenticator and the rate        *)
(* limiter, the mapping of errors to statuses, and the shutdown handlers.  *)
(*                                                                         *)
(* Each client has at most one connection and one request at a time.  The  *)
(* part of a handler before its first await is one step, the part after    *)
(* each await another; a handler goes on when its client has gone.  The    *)
(* writer (see IngestWriter) takes any set of waiting entries into a COPY,  *)
(* some of a request or those of several.  An entry is the set of its      *)
(* defects.                                                                *)
(***************************************************************************)
EXTENDS Integers, Sequences, FiniteSets

CONSTANTS
  Clients,
  Requests,    \* the requests clients may send
  Rps,         \* config.rateLimit.requestsPerSecond; a tick is 1 / Rps seconds
  Faults,      \* what may go wrong with the database
  MaxRequests, \* bound on the requests sent
  MaxTicks     \* bound on the clock

ASSUME HttpAssumption ==
  /\ Rps \in Nat \ {0} /\ MaxRequests \in Nat /\ MaxTicks \in Nat
  /\ Faults \subseteq {"connection_lost", "no_writer_in_time", "statement_timeout"}

VARIABLES
  authOn, limiterOn, \* config.auth.enabled, config.rateLimit.enabled
  stage,     \* of main() and of shutdown()
  exit,      \* the exit code, "none" while the process runs
  link,      \* whether a client's connection is open
  task,      \* what the handler of a client's request is waiting for
  req,       \* the request
  status,    \* the status the client has received, 0 if none
  due,       \* indexes of the entries it waits for, whose COPY has not been answered
  stored,    \* indexes of its entries that were committed
  cut,       \* the process went away with the request unanswered
  sent,      \* requests sent, for the bound
  clock, tokens, lastRefill,
  admissions \* the times the limiter let a request pass

configVars == <<authOn, limiterOn>>
lifeVars   == <<stage, exit>>
limitVars  == <<clock, tokens, lastRefill, admissions>>
vars ==
  <<configVars, lifeVars, link, task, req, status, due, stored, cut, sent, limitVars>>

Data == {"POST/logs", "GET/logs", "GET/logs/aggregate"}
Open == {"GET/health", "wrong_method", "no_route"}
Admin == {"GET/metrics", "GET/admin/retention", "POST/admin/retention/run"}

NoRequest == [route |-> "none", credential |-> "none", body |-> "none", entries |-> <<>>,
              valid |-> TRUE]

Init ==
  /\ authOn \in BOOLEAN /\ limiterOn \in BOOLEAN
  /\ stage = "listening" /\ exit = "none"
  /\ link = [c \in Clients |-> FALSE]
  /\ task = [c \in Clients |-> "none"]
  /\ req = [c \in Clients |-> NoRequest]
  /\ status = [c \in Clients |-> 0]
  /\ due = [c \in Clients |-> {}] /\ stored = [c \in Clients |-> {}]
  /\ cut = [c \in Clients |-> FALSE]
  /\ sent = 0
  /\ clock = 0 /\ tokens = Rps /\ lastRefill = 0 /\ admissions = <<>>

-----------------------------------------------------------------------------
(* Errors and answers: src/http/respond.ts, src/db/errors.ts. *)

isDatabaseUnavailable(error) == error \in {"connection_lost", "no_writer_in_time"}

\* The status of a thrown error that is not an HttpError.
ErrorStatus(error) == IF isDatabaseUnavailable(error) THEN 503 ELSE 500

\* A handler ends with an answer, which nobody gets when the client has gone.
EndsWith(c, code) ==
  /\ task' = [task EXCEPT ![c] = "none"]
  /\ status' = [status EXCEPT ![c] = IF link[c] THEN code ELSE @]

WaitsFor(c, what) ==
  /\ task' = [task EXCEPT ![c] = what]
  /\ status' = [status EXCEPT ![c] = 0]

-----------------------------------------------------------------------------
(* src/http/auth.ts and src/http/rate-limit.ts *)

Scope(route) ==
  IF route \in {"POST/logs", "POST/admin/retention/run"} THEN "ingest" ELSE "query"

ScopesOf(credential) ==
  CASE credential = "ingest_key" -> {"ingest"}
    [] credential = "query_key" -> {"query"}
    [] OTHER -> {}

\* 0, or the status of the error thrown.
authorize(r) ==
  IF ~authOn THEN 0
  ELSE IF r.credential \in {"none", "malformed", "unknown_key"} THEN 401
  ELSE IF Scope(r.route) \notin ScopesOf(r.credential) THEN 403 ELSE 0

\* Variant: tokens of an idle time are all kept.
Refilled_Uncapped == tokens + (clock - lastRefill)

Refilled ==
  LET filled == tokens + (clock - lastRefill)
  IN IF filled < Rps THEN filled ELSE Rps

\* Variant: the last token is lent.
Exhausted_Late == Refilled < 0

Exhausted == Refilled < 1

Tick ==
  /\ limiterOn /\ exit = "none" /\ clock < MaxTicks /\ clock' = clock + 1
  /\ UNCHANGED <<configVars, lifeVars, link, task, req, status, due, stored, cut, sent,
                 tokens, lastRefill, admissions>>

-----------------------------------------------------------------------------
(* dispatch() and the handlers up to their first await. *)

\* Keep-alive connections stay open between requests; after server.close() there are
\* no new ones.
Connect(c) ==
  /\ stage \in {"listening", "ready"} /\ ~link[c] /\ task[c] = "none"
  /\ link' = [link EXCEPT ![c] = TRUE]
  /\ req' = [req EXCEPT ![c] = NoRequest] /\ status' = [status EXCEPT ![c] = 0]
  /\ stored' = [stored EXCEPT ![c] = {}]
  /\ UNCHANGED <<configVars, lifeVars, task, due, cut, sent, limitVars>>

\* A request comes in on the connection of c.
Receives(c, r) ==
  /\ link[c] /\ task[c] = "none" /\ exit = "none"
  /\ sent < MaxRequests /\ sent' = sent + 1
  /\ req' = [req EXCEPT ![c] = r]
  /\ stored' = [stored EXCEPT ![c] = {}]
  /\ UNCHANGED <<configVars, lifeVars, link, due, cut>>

AnswerOpen(c, r) ==
  /\ r.route \in Open
  /\ Receives(c, r)
  /\ EndsWith(c, CASE r.route = "no_route" -> 404
                   [] r.route = "wrong_method" -> 405
                   [] r.route = "GET/health" -> IF stage = "ready" THEN 200 ELSE 503)
  /\ UNCHANGED limitVars

Deny(c, r) ==
  /\ r.route \notin Open /\ authorize(r) # 0
  /\ Receives(c, r)
  /\ EndsWith(c, authorize(r))
  /\ UNCHANGED limitVars

\* Admin routes are not limited.
AnswerAdmin(c, r) ==
  /\ r.route \in Admin /\ authorize(r) = 0
  /\ Receives(c, r)
  /\ IF r.route = "POST/admin/retention/run" THEN WaitsFor(c, "sweep") ELSE EndsWith(c, 200)
  /\ UNCHANGED limitVars

Shed(c, r) ==
  /\ r.route \in Data /\ authorize(r) = 0
  /\ limiterOn /\ Exhausted
  /\ Receives(c, r)
  /\ EndsWith(c, 429)
  /\ tokens' = Refilled /\ lastRefill' = clock
  /\ UNCHANGED <<clock, admissions>>

\* Ingestion waits for the body, a valid query for the database.
Admit(c, r) ==
  /\ r.route \in Data /\ authorize(r) = 0
  /\ limiterOn => ~Exhausted
  /\ Receives(c, r)
  /\ IF r.route = "POST/logs" THEN WaitsFor(c, "body")
     ELSE IF r.valid THEN WaitsFor(c, "query") ELSE EndsWith(c, 400)
  /\ IF limiterOn
     THEN /\ tokens' = Refilled - 1 /\ lastRefill' = clock
          /\ admissions' = Append(admissions, clock)
     ELSE UNCHANGED <<tokens, lastRefill, admissions>>
  /\ UNCHANGED clock

-----------------------------------------------------------------------------
(* POST /logs: src/http/body.ts, src/domain/validate.ts, the rest of           *)
(* handleIngest() in src/http/routes/ingest.ts.                                *)

Checks == <<"object", "timestamp", "future", "level", "service", "message", "attributes">>

\* Variant: the last check is missing.
validateEntry_NoAttributes(entry) == {i \in 1..6 : Checks[i] \in entry}

\* The checks that fail; the reason given is the first.
validateEntry(entry) == {i \in 1..7 : Checks[i] \in entry}

isRejection(result) == result # {}

Valid(r) == {i \in DOMAIN r.entries : ~isRejection(validateEntry(r.entries[i]))}

\* An uncompressed body over the limit is met by destroying the stream, and with it the
\* connection: nobody gets the 413.
BodyTooLarge(c) ==
  /\ task[c] = "body" /\ link[c] /\ req[c].body = "large"
  /\ task' = [task EXCEPT ![c] = "none"] /\ link' = [link EXCEPT ![c] = FALSE]
  /\ UNCHANGED <<configVars, lifeVars, req, status, due, stored, cut, sent, limitVars>>

\* The status of the error thrown for a body: pipeline() gives the request's socket back
\* before it destroys the request, so a compressed body over the limit ("inflated") has
\* its 413; what the decompressor throws over a "corrupt" one is no HttpError.
\* "malformed": an encoding that is not supported, no bytes, no JSON, no array "logs",
\* or too many entries.
Rejection(r) ==
  CASE r.body = "inflated" -> 413
    [] r.body = "corrupt" -> ErrorStatus("zlib")
    [] r.body = "malformed" \/ (r.body = "logs" /\ Valid(r) = {}) -> 400
    [] OTHER -> 0

RejectBody(c) ==
  /\ task[c] = "body" /\ link[c] /\ Rejection(req[c]) # 0
  /\ EndsWith(c, Rejection(req[c]))
  /\ UNCHANGED <<configVars, lifeVars, link, req, due, stored, cut, sent, limitVars>>

\* append(): shed with a 503, failed by the database that is to register a service or to
\* give ids, or in line for COPYs.  stop() comes after the last connection, so no body
\* meets a stopped writer.
AppendRows(c) ==
  /\ task[c] = "body" /\ link[c] /\ req[c].body = "logs" /\ Rejection(req[c]) = 0
  /\ \/ WaitsFor(c, "commit") /\ due' = [due EXCEPT ![c] = Valid(req[c])]
     \/ EndsWith(c, 503) /\ UNCHANGED due
     \/ \E error \in Faults : EndsWith(c, ErrorStatus(error)) /\ UNCHANGED due
  /\ UNCHANGED <<configVars, lifeVars, link, req, stored, cut, sent, limitVars>>

\* Sets of rows: for each client, indexes of entries of its request.
Rows ==
  LET indexes == UNION {due[c] : c \in Clients}
  IN {rows \in [Clients -> SUBSET indexes] :
        (\A c \in Clients : rows[c] \subseteq due[c]) /\ \E c \in Clients : rows[c] # {}}

\* What validateEntry() lets pass and PostgreSQL does not take: a message or an
\* attribute with U+0000.
Storable(rows) ==
  \A c \in Clients : \A i \in rows[c] : "nul" \notin req[c].entries[i]

\* The server commits a COPY.
RowsCommit(rows) ==
  /\ exit = "none" /\ Storable(rows)
  /\ \A c \in Clients : rows[c] \cap stored[c] = {}
  /\ stored' = [c \in Clients |-> stored[c] \cup rows[c]]
  /\ UNCHANGED <<configVars, lifeVars, link, task, req, status, due, cut, sent, limitVars>>

\* The handlers of batch end.
Ended(batch, code) ==
  /\ task' = [c \in Clients |-> IF c \in batch THEN "none" ELSE task[c]]
  /\ status' = [c \in Clients |-> IF c \in batch /\ link[c] THEN code ELSE status[c]]
  /\ UNCHANGED <<configVars, lifeVars, link, req, stored, cut, sent, limitVars>>

\* Variant: the answer to the client does not wait for that to the COPY.
RowsAnswered_Early(rows) ==
  /\ exit = "none"
  /\ due' = [c \in Clients |-> due[c] \ rows[c]]
  /\ Ended({c \in Clients : rows[c] # {} /\ due[c] = rows[c]}, 200)

\* The answer to a COPY arrives; a request ends with the last of its COPYs.
RowsAnswered(rows) ==
  /\ exit = "none"
  /\ \A c \in Clients : rows[c] \subseteq stored[c]
  /\ due' = [c \in Clients |-> due[c] \ rows[c]]
  /\ Ended({c \in Clients : rows[c] # {} /\ due[c] = rows[c]}, 200)

\* The COPY of these rows fails, no writer takes them in time, or no ids are left for them;
\* after an answer that got lost they are committed all the same.  A request ends with
\* its first failure; its rows in other COPYs are not followed any more.
RowsFail(rows, error) ==
  /\ exit = "none"
  /\ error = "refused" => ~Storable(rows)
  /\ error # "connection_lost" => \A c \in Clients : rows[c] \cap stored[c] = {}
  /\ due' = [c \in Clients |-> IF rows[c] = {} THEN due[c] ELSE {}]
  /\ Ended({c \in Clients : rows[c] # {}}, ErrorStatus(error))

-----------------------------------------------------------------------------
(* Queries and the sweep of POST /admin/retention/run. *)

StatementAnswered(c, code) ==
  /\ task[c] \in {"query", "sweep"} /\ exit = "none"
  /\ code \in {200} \cup {ErrorStatus(error) : error \in Faults}
  /\ EndsWith(c, code)
  /\ UNCHANGED <<configVars, lifeVars, link, req, due, stored, cut, sent, limitVars>>

\* Variant: nothing listens for the error of an aborted body.
Disconnect_Unheard(c) ==
  /\ link[c]
  /\ link' = [link EXCEPT ![c] = FALSE]
  /\ UNCHANGED <<configVars, lifeVars, task, req, status, due, stored, cut, sent, limitVars>>

\* The client goes, or its keep-alive time is over.  Only a handler that reads the body
\* notices: collect() rejects, and sendError() finds nobody to answer.
Disconnect(c) ==
  /\ link[c]
  /\ link' = [link EXCEPT ![c] = FALSE]
  /\ task' = [task EXCEPT ![c] = IF @ = "body" THEN "none" ELSE @]
  /\ UNCHANGED <<configVars, lifeVars, req, status, due, stored, cut, sent, limitVars>>

\* requestTimeout, which nothing checks after server.close().
BodyTimesOut(c) ==
  /\ task[c] = "body" /\ link[c] /\ stage \in {"listening", "ready"}
  /\ link' = [link EXCEPT ![c] = FALSE]
  /\ EndsWith(c, 408)
  /\ UNCHANGED <<configVars, lifeVars, req, due, stored, cut, sent, limitVars>>

-----------------------------------------------------------------------------
(* main() after listen(), and shutdown(). *)

Unanswered(c) == link[c] /\ task[c] # "none"

Exits(code) ==
  /\ exit' = code /\ stage' = "exited"
  /\ cut' = [c \in Clients |-> cut[c] \/ Unanswered(c)]
  /\ link' = [c \in Clients |-> FALSE] /\ task' = [c \in Clients |-> "none"]
  /\ due' = [c \in Clients |-> {}]
  /\ UNCHANGED <<configVars, req, status, stored, sent, limitVars>>

StageBecomes(next) ==
  /\ stage' = next
  /\ UNCHANGED <<configVars, exit, task, req, status, due, stored, cut, sent, limitVars>>

\* The first sweep; then ready is set and the handlers of signals are installed.
FirstSweep ==
  /\ stage = "listening"
  /\ StageBecomes("ready") /\ UNCHANGED link

\* The sweep throws and main() exits, or a signal finds no handler yet.
DiesStarting == stage = "listening" /\ Exits("1")

\* uncaughtException
Crash == stage \in {"ready", "closing"} /\ Exits("1")

\* SIGTERM: ready is cleared, the timer started, and server.close() closes the idle
\* connections.  A second signal changes nothing.
Signal ==
  /\ stage = "ready"
  /\ StageBecomes("closing")
  /\ link' = [c \in Clients |-> link[c] /\ task[c] # "none"]

\* Variant: the writer is stopped without waiting for the connections.
ServerClosed_Early ==
  /\ stage = "closing"
  /\ StageBecomes("flushing") /\ UNCHANGED link

\* The last connection is gone: writer.stop().
ServerClosed ==
  /\ stage = "closing" /\ \A c \in Clients : ~link[c]
  /\ StageBecomes("flushing") /\ UNCHANGED link

\* Nothing is left in the writer, or its ten seconds are over; then the janitor, the
\* partition client and the pool are ended.
WriterStopped ==
  /\ stage = "flushing"
  /\ StageBecomes("ending") /\ UNCHANGED link

ShutdownComplete == stage = "ending" /\ Exits("0")

\* Variant: no timer.
ForcedExit_Never == FALSE /\ Exits("1")

\* The timer of 15 seconds.
ForcedExit == stage \in {"closing", "flushing", "ending"} /\ Exits("1")

Handle(c) ==
  \/ BodyTooLarge(c) \/ RejectBody(c) \/ AppendRows(c)
  \/ \E code \in {200, 500, 503} : StatementAnswered(c, code)

Failed(rows) == \E error \in Faults \cup {"refused"} : RowsFail(rows, error)

\* A COPY that c waits for is answered or fails.
Copied(c) == \E rows \in Rows : rows[c] # {} /\ (RowsAnswered(rows) \/ Failed(rows))

Shutdown == ServerClosed \/ WriterStopped \/ ShutdownComplete \/ ForcedExit

Next ==
  \/ Tick
  \/ \E c \in Clients :
       \/ Connect(c) \/ Disconnect(c) \/ BodyTimesOut(c) \/ Handle(c)
       \/ \E r \in Requests :
            AnswerOpen(c, r) \/ Deny(c, r) \/ AnswerAdmin(c, r) \/ Shed(c, r) \/ Admit(c, r)
  \/ \E rows \in Rows : RowsCommit(rows) \/ RowsAnswered(rows) \/ Failed(rows)
  \/ FirstSweep \/ DiesStarting \/ Crash \/ Signal \/ Shutdown

Spec == Init /\ [][Next]_vars

\* Statements are answered or time out, and so are COPYs until stop() drops what is left
\* of them (IngestWriter shows that); the timers of requestTimeout and of shutdown() fire.
\* Nothing is asked of clients: no body need arrive, no connection be closed.
FairSpec ==
  /\ Spec
  /\ \A c \in Clients :
       /\ WF_vars(\E code \in {200, 500, 503} : StatementAnswered(c, code))
       /\ WF_vars(stage \notin {"flushing", "ending"} /\ Copied(c))
       /\ WF_vars(BodyTimesOut(c))
  /\ WF_vars(ForcedExit)

-----------------------------------------------------------------------------
(* Properties. *)

TypeOK ==
  /\ authOn \in BOOLEAN /\ limiterOn \in BOOLEAN
  /\ stage \in {"listening", "ready", "closing", "flushing", "ending", "exited"}
  /\ exit \in {"none", "0", "1"} /\ (exit # "none" <=> stage = "exited")
  /\ link \in [Clients -> BOOLEAN]
  /\ task \in [Clients -> {"none", "body", "commit", "query", "sweep"}]
  /\ req \in [Clients -> Requests \cup {NoRequest}]
  /\ status \in [Clients -> {0, 200, 400, 401, 403, 404, 405, 408, 413, 429, 500, 503}]
  /\ \A c \in Clients : due[c] \cup stored[c] \subseteq Valid(req[c])
  /\ cut \in [Clients -> BOOLEAN] /\ sent \in 0..MaxRequests
  /\ clock \in 0..MaxTicks /\ tokens \in 0..Rps /\ lastRefill \in 0..clock

Acceptable(entry) == \A i \in 1..7 : Checks[i] \notin entry

\* ingest.ts, README: a 200 means that every acceptable entry of the request, and no
\* other, has been committed; an answer that blames the client means that none has.
AnswersTellTheTruth ==
  \A c \in Clients : req[c].route = "POST/logs" =>
    /\ status[c] = 200 =>
         stored[c] = {i \in DOMAIN req[c].entries : Acceptable(req[c].entries[i])}
    /\ status[c] \in {400, 401, 403, 408, 413, 429} => stored[c] = {}

\* auth.ts: with authentication off "an unrecognised Authorization header must be
\* ignored"; with it on, nothing is read, written or swept for a key without the scope.
ScopesHonoured ==
  \A c \in Clients :
    /\ ~authOn => status[c] \notin {401, 403}
    /\ authOn /\ (task[c] # "none" \/ stored[c] # {}) =>
         Scope(req[c].route) \in ScopesOf(req[c].credential)

\* rate-limit.ts: between any two admitted requests no more are admitted than the burst
\* of one second and what the time between them refills, however long it was idle.
RateBounded ==
  \A i, j \in DOMAIN admissions :
    i <= j => j - i + 1 <= Rps + (admissions[j] - admissions[i])

\* index.ts: a shutdown that reports success has answered every request whose client
\* was still there.
CleanExitAnswersAll == exit = "0" => \A c \in Clients : ~cut[c]

\* ingest.ts: "A single invalid entry never fails the batch".  A request with an
\* acceptable entry that could be stored is not answered as a bug of the server, when
\* nothing is wrong with the database (Faults = {}).
OneBadEntryNeverFailsBatch ==
  \A c \in Clients :
    status[c] = 500 /\ req[c].route = "POST/logs" =>
      \A i \in DOMAIN req[c].entries : req[c].entries[i] # {}

\* The process ends after a signal, whatever clients keep their connections open.
ShutdownEnds == stage = "closing" ~> exit # "none"

\* server.ts, body.ts: no handler hangs.  One that reads a body ends with the body, with
\* its client, with requestTimeout or, during a shutdown, with the process; one that waits
\* for the database ends with an answer or a time-out, its client there or not.
HandlersEnd == \A c \in Clients : task[c] # "none" ~> task[c] = "none"
=============================================================================
