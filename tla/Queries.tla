------------------------------ MODULE Queries ------------------------------
(***************************************************************************)
(* Reading: GET /logs with its cursor (src/query/logs.ts,                  *)
(* src/http/routes/query.ts, src/domain/cursor.ts), GET /logs/aggregate    *)
(* (src/query/aggregate.ts, src/http/routes/aggregate.ts) and the filters  *)
(* they share (src/query/filters.ts).                                      *)
(*                                                                         *)
(* One client walks pages, or asks for an aggregate, while entries arrive  *)
(* through this instance or another and sweeps drop days.  The statement a *)
(* request sends is one step, what it does with the answer another: in     *)
(* between, hydrateIds() may wait for the services table.                  *)
(*                                                                         *)
(* A parameter of a request is a sequence: empty when it is not given.     *)
(***************************************************************************)
EXTENDS Timestamps, FiniteSets

CONSTANTS
  Entries,      \* row id -> the entry sent; ids do not follow the timestamps
  Requests,     \* the requests the client may send
  ServiceIds,   \* service name -> its id in the table of services
  Now,          \* the instant entries arrive at
  OldDays,      \* days a sweep may drop
  DEFAULT_LIMIT, MAX_LIMIT,  \* config.query.defaultLimit and maxLimit
  MAX_BUCKETS

\* A token as the client sends it back, its time and id read from it.
\* What is not a whole number is Null, what is not an id -1.
CursorTokens == [v: Int, t: Instants \cup {Null}, i: Nat \cup {-1}]

RequestParts ==
  [path: {"logs", "aggregate"}, service: Seq(STRING), level: Seq(STRING), since: Seq(TextParts),
   until: Seq(TextParts), attributes: SUBSET STRING, q: Seq(STRING), limit: Seq(Int),
   cursor: Seq(CursorTokens), bucket: Seq(STRING), group_by: Seq(STRING), oversized: BOOLEAN]

\* A stored entry has one of the four levels: validateEntry() takes no other.
ASSUME QueriesAssumption ==
  /\ DOMAIN Entries \subseteq Nat \ {0}
  /\ \A id \in DOMAIN Entries :
       /\ Entries[id].timestamp \in TextParts
       /\ Entries[id].level \in {"debug", "info", "warn", "error"}
       /\ Entries[id].service \in DOMAIN ServiceIds
  /\ \A n \in DOMAIN ServiceIds : ServiceIds[n] \in Int
  /\ \A n, m \in DOMAIN ServiceIds : ServiceIds[n] = ServiceIds[m] => n = m
  /\ Requests \subseteq RequestParts
  /\ Now \in Instants
  /\ DEFAULT_LIMIT \in 1..MAX_LIMIT /\ MAX_LIMIT \in Nat /\ MAX_BUCKETS \in Nat \ {0}

RangeTexts(r) == {r.since[i] : i \in DOMAIN r.since} \cup {r.until[i] : i \in DOMAIN r.until}

\* Every text that is to be read, what the code makes of it and what it denotes.
Texts ==
  {Entries[id].timestamp : id \in DOMAIN Entries} \cup UNION {RangeTexts(r) : r \in Requests}
Parsed == [text \in Texts |-> parseIsoToMicros(text)]
Denotation == [text \in Texts |-> Denoted(text)]

RowIds == DOMAIN Entries
Services == DOMAIN ServiceIds

VARIABLES
  table,      \* the rows of logs
  gone,       \* ids of rows dropped with their partition
  refused,    \* ids of entries that were rejected
  registered, \* names in the table of services
  known,      \* names in this instance's dictionary
  phase,      \* of the client's request
  req,        \* its parameters
  cursor,     \* its cursor parameter
  rows,       \* what the statement returned
  reply,      \* the answer
  got,        \* ids of the rows of all pages so far
  steady,     \* ids of rows in the table since the first page was read
  snapshot,   \* ids of the rows in the table when the statement ran
  blind       \* the service filter was found to match nothing

dataVars == <<table, gone, refused, registered>>
walkVars == <<req, cursor, got, steady, blind>>
vars == <<dataVars, known, phase, walkVars, rows, reply, snapshot>>

Given(parameter) == parameter # <<>>

NoReply == [status |-> 0, logs |-> <<>>, next_cursor |-> <<>>, buckets |-> <<>>]

Init ==
  /\ table = {} /\ gone = {} /\ refused = {} /\ registered = {} /\ known = {}
  /\ phase = "idle" /\ req = <<>> /\ cursor = <<>> /\ rows = <<>>
  /\ reply = NoReply /\ got = <<>> /\ steady = {} /\ snapshot = {} /\ blind = FALSE

-----------------------------------------------------------------------------
(* src/domain/levels.ts *)

LEVELS == <<"debug", "info", "warn", "error">>
INVALID_LEVEL == -1
levelToCode(name) ==
  IF \E c \in 1..4 : LEVELS[c] = name THEN (CHOOSE c \in 1..4 : LEVELS[c] = name) - 1
  ELSE INVALID_LEVEL
codeToLevel(code) == LEVELS[code + 1]

(* Rows arrive and go. *)

Skew == 300

\* validateEntry(), of which only the timestamp matters here.
Acceptable(entry) ==
  LET t == Parsed[entry.timestamp]
  IN t # Null /\ ~Before(At(Now[1], Now[2] + Skew, Now[3]), t)

Fresh(id) == id \notin gone \cup refused \cup {row.id : row \in table}

\* A row is committed; its service has been registered, by this instance or another.
Arrive(id) ==
  LET e == Entries[id]
  IN /\ Fresh(id) /\ Acceptable(e)
     /\ table' = table \cup {[id |-> id, ts |-> PgTimestamp(Parsed[e.timestamp]),
                              service_id |-> ServiceIds[e.service],
                              level |-> levelToCode(e.level)]}
     /\ registered' = registered \cup {e.service}
     /\ known' \in {known, known \cup {e.service}}
     /\ UNCHANGED <<gone, refused, phase, walkVars, rows, reply, snapshot>>

Reject(id) ==
  /\ Fresh(id) /\ ~Acceptable(Entries[id])
  /\ refused' = refused \cup {id}
  /\ UNCHANGED <<table, gone, registered, known, phase, walkVars, rows, reply, snapshot>>

DropDay(day) ==
  LET ids == {row.id : row \in {r \in table : r.ts[1] = day}}
  IN /\ ids # {}
     /\ table' = {row \in table : row.id \notin ids}
     /\ gone' = gone \cup ids /\ steady' = steady \ ids
     /\ UNCHANGED <<refused, registered, known, phase, req, cursor, got, blind, rows, reply,
                    snapshot>>

-----------------------------------------------------------------------------
(* src/query/filters.ts *)

Instant(parameter) == Parsed[parameter[1]]

HasRange(r) ==
  /\ Given(r.since) /\ Instant(r.since) # Null
  /\ Given(r.until) /\ Instant(r.until) # Null

\* parseFilters() throws a 400.  "oversized" stands for a q that is too long, too many
\* attribute filters, or one without a key.
BadFilters(r) ==
  \/ r.service = <<"">>
  \/ Given(r.level) /\ levelToCode(r.level[1]) = INVALID_LEVEL
  \/ Given(r.since) /\ Instant(r.since) = Null
  \/ Given(r.until) /\ Instant(r.until) = Null
  \/ HasRange(r) /\ Before(Instant(r.until), Instant(r.since))
  \/ r.oversized

\* lookupForFilter() knows no id: the query is not sent.
impossible(r) == Given(r.service) /\ r.service[1] \notin known

\* PostgreSQL takes the literals of the range for timestamps.
RangeIsRead(r) ==
  /\ Given(r.since) => LiteralIsRead(formatMicrosPgLiteral(Instant(r.since)))
  /\ Given(r.until) => LiteralIsRead(formatMicrosPgLiteral(Instant(r.until)))

\* message ILIKE the term, its metacharacters escaped; "%" is such a term.
MatchesTerm(term, words) == term \in words

\* buildWhereClause(), as PostgreSQL evaluates it.
WHERE(row, r) ==
  /\ Given(r.since) => ~Before(row.ts, formatMicrosPgLiteral(Instant(r.since)))
  /\ Given(r.until) => Before(row.ts, formatMicrosPgLiteral(Instant(r.until)))
  /\ Given(r.service) => row.service_id = ServiceIds[r.service[1]]
  /\ Given(r.level) => row.level = levelToCode(r.level[1])
  /\ r.attributes \subseteq Entries[row.id].attributes
  /\ Given(r.q) => MatchesTerm(r.q[1], Entries[row.id].words)

-----------------------------------------------------------------------------
(* src/domain/cursor.ts: a token is a version, a time and an id. *)

CURSOR_VERSION == 1

\* Variant: the cursor carries the time the reply shows.
encodeCursor_Millis(row) ==
  [v |-> CURSOR_VERSION, t |-> <<row.ts[1], row.ts[2], 1000 * formatMicrosIso(row.ts)[3]>>,
   i |-> row.id]

encodeCursor(row) == [v |-> CURSOR_VERSION, t |-> row.ts, i |-> row.id]

BadCursor(token) ==
  token.v # CURSOR_VERSION \/ ~isSafeInteger(token.t) \/ token.i \notin Nat

(* src/http/routes/query.ts *)

\* Variant: no upper limit.
BadLimit_NoMax(r) == Given(r.limit) /\ r.limit[1] < 1

BadLimit(r) == Given(r.limit) /\ r.limit[1] \notin 1..MAX_LIMIT

Limit(r) == IF Given(r.limit) THEN r.limit[1] ELSE DEFAULT_LIMIT

(* src/query/aggregate.ts *)

BUCKET_SECONDS == [m1 |-> 60, m5 |-> 300, h1 |-> 3600, d1 |-> 86400]

BucketSize(r) == BUCKET_SECONDS[r.bucket[1]]

\* The seconds from s to t, rounded up.
SecondsUp(s, t) ==
  86400 * (t[1] - s[1]) + t[2] - s[2] + (IF t[3] > s[3] THEN 1 ELSE 0)

bucketCount(r) ==
  (SecondsUp(Instant(r.since), Instant(r.until)) + BucketSize(r) - 1) \div BucketSize(r)

BadAggregate(r) ==
  \/ r.bucket \notin {<<b>> : b \in DOMAIN BUCKET_SECONDS}
  \/ r.group_by \notin {<<>>, <<"service">>, <<"level">>}
  \/ ~HasRange(r)
  \/ r.bucket # <<>> /\ HasRange(r) /\ bucketCount(r) > MAX_BUCKETS

BadRequest(r) ==
  \/ BadFilters(r)
  \/ r.path = "logs" /\ (BadLimit(r) \/ (Given(cursor) /\ BadCursor(cursor[1])))
  \/ r.path = "aggregate" /\ BadAggregate(r)

-----------------------------------------------------------------------------

Ask(r) ==
  /\ phase = "idle" /\ phase' = "asked"
  /\ req' = r /\ cursor' = r.cursor
  /\ UNCHANGED <<dataVars, known, got, steady, blind, rows, reply, snapshot>>

Answer(status, logs, next, buckets) ==
  /\ phase' = "answered"
  /\ reply' = [status |-> status, logs |-> logs, next_cursor |-> next, buckets |-> buckets]

AnswerBadRequest ==
  /\ phase = "asked" /\ BadRequest(req)
  /\ Answer(400, <<>>, <<>>, <<>>)
  /\ UNCHANGED <<dataVars, known, walkVars, rows, snapshot>>

AnswerImpossible ==
  /\ phase = "asked" /\ ~BadRequest(req) /\ impossible(req)
  /\ Answer(200, <<>>, <<>>, <<>>)
  /\ blind' = TRUE
  /\ snapshot' = {row.id : row \in table} /\ steady' = snapshot'
  /\ UNCHANGED <<dataVars, known, req, cursor, got, rows>>

\* ORDER BY: the elements of S as a sequence, for a total order First.
InOrder(S, First(_, _)) ==
  [i \in 1..Cardinality(S) |-> CHOOSE x \in S : Cardinality({y \in S : First(y, x)}) = i - 1]

Newer(r, s) == Before(s.ts, r.ts) \/ (r.ts = s.ts /\ r.id > s.id)

\* Variant: a page starts with the row the one before it ended with.
Past_Inclusive(row, token) ==
  LET t == formatMicrosPgLiteral(token.t)
  IN Before(row.ts, t) \/ (row.ts = t /\ row.id <= token.i)

Past(row, token) ==
  LET t == formatMicrosPgLiteral(token.t)
  IN Before(row.ts, t) \/ (row.ts = t /\ row.id < token.i)

\* The statement of queryLogs(): ORDER BY ts DESC, id DESC and LIMIT limit + 1.
Selected(r) ==
  LET matching == {row \in table : /\ WHERE(row, r)
                                   /\ Given(cursor) => Past(row, cursor[1])}
      ordered == InOrder(matching, Newer)
  IN SubSeq(ordered, 1, IF Len(ordered) <= Limit(r) THEN Len(ordered) ELSE Limit(r) + 1)

ReadLogs ==
  /\ phase = "asked" /\ req.path = "logs" /\ ~BadRequest(req) /\ ~impossible(req)
  /\ RangeIsRead(req)
  /\ phase' = "read"
  /\ rows' = Selected(req)
  /\ snapshot' = {row.id : row \in table}
  /\ steady' = IF got = <<>> THEN snapshot' ELSE steady
  /\ UNCHANGED <<dataVars, known, req, cursor, got, blind, reply>>

\* Variant: ids that are not cached are not looked up.
Hydrated_Not(ids) == known

\* hydrateIds(): the names it reads, added to those known.
Hydrated(ids) == known \cup {n \in registered : ServiceIds[n] \in ids}

\* nameOf(), with what stands for an id that has no name.
NameIn(names, id) ==
  IF \E n \in names : ServiceIds[n] = id THEN CHOOSE n \in names : ServiceIds[n] = id
  ELSE "unknown"

\* Variant: the row read beyond the page is the one the next page starts after.
NextCursor_Extra(found, limit) ==
  IF Len(found) > limit THEN <<encodeCursor(found[limit + 1])>> ELSE <<>>

NextCursor(found, limit) ==
  IF Len(found) > limit THEN <<encodeCursor(found[limit])>> ELSE <<>>

ReplyLogs ==
  LET n == IF Len(rows) > Limit(req) THEN Limit(req) ELSE Len(rows)
      page == SubSeq(rows, 1, n)
  IN /\ phase = "read" /\ req.path = "logs"
     /\ known' = Hydrated({page[i].service_id : i \in 1..n})
     /\ Answer(200,
               [i \in 1..n |-> [id |-> page[i].id, timestamp |-> formatMicrosIso(page[i].ts),
                                level |-> codeToLevel(page[i].level),
                                service |-> NameIn(known', page[i].service_id)]],
               NextCursor(rows, Limit(req)), <<>>)
     /\ got' = got \o [i \in 1..n |-> page[i].id]
     /\ rows' = <<>>
     /\ UNCHANGED <<dataVars, req, cursor, steady, blind, snapshot>>

\* Variant: buckets start at the beginning of the range.
BucketStart_Range(t, r) ==
  LET since == Instant(r.since)
      gap == 86400 * (t[1] - since[1]) + t[2] - since[2]
  IN At(since[1], since[2] + BucketSize(r) * (gap \div BucketSize(r)), 0)

\* date_bin() from the epoch.
BucketStart(t, r) == <<t[1], t[2] - (t[2] % BucketSize(r)), 0>>

GroupKey(row, r) ==
  IF r.group_by = <<"service">> THEN row.service_id
  ELSE IF r.group_by = <<"level">> THEN row.level ELSE -1

\* GROUP BY 1, 2 and ORDER BY 1, 2.
Grouped(r) ==
  LET matching == {row \in table : WHERE(row, r)}
      Key(row) == [bucket |-> BucketStart(row.ts, r), group_key |-> GroupKey(row, r)]
      First(g, h) == Before(g.bucket, h.bucket)
                     \/ (g.bucket = h.bucket /\ g.group_key < h.group_key)
      keys == InOrder({Key(row) : row \in matching}, First)
  IN [i \in DOMAIN keys |-> [bucket |-> keys[i].bucket, group_key |-> keys[i].group_key,
                             count |-> Cardinality({row \in matching : Key(row) = keys[i]})]]

ReadAggregate ==
  /\ phase = "asked" /\ req.path = "aggregate" /\ ~BadRequest(req) /\ ~impossible(req)
  /\ RangeIsRead(req)
  /\ phase' = "read"
  /\ rows' = Grouped(req)
  /\ snapshot' = {row.id : row \in table}
  /\ UNCHANGED <<dataVars, known, walkVars, reply>>

resolveGroup(key, r, names) ==
  IF r.group_by = <<>> THEN "null"
  ELSE IF r.group_by = <<"level">> THEN codeToLevel(key) ELSE NameIn(names, key)

ReplyAggregate ==
  /\ phase = "read" /\ req.path = "aggregate"
  /\ known' = IF req.group_by = <<"service">>
              THEN Hydrated({rows[i].group_key : i \in DOMAIN rows}) ELSE known
  /\ Answer(200, <<>>, <<>>,
            [i \in DOMAIN rows |-> [start |-> rows[i].bucket, count |-> rows[i].count,
                                    group |-> resolveGroup(rows[i].group_key, req, known')]])
  /\ rows' = <<>>
  /\ UNCHANGED <<dataVars, walkVars, snapshot>>

\* A statement times out, finds no database, or has a literal PostgreSQL does not read:
\* an error, and nothing of the page.
StatementFails ==
  /\ phase = "read" \/ (phase = "asked" /\ ~BadRequest(req) /\ ~impossible(req))
  /\ \E status \in {500, 503} : Answer(status, <<>>, <<>>, <<>>)
  /\ rows' = <<>>
  /\ UNCHANGED <<dataVars, known, walkVars, snapshot>>

\* The client goes on to the next page, the other parameters as they were.
NextPage ==
  /\ phase = "answered" /\ Given(reply.next_cursor)
  /\ phase' = "asked" /\ cursor' = reply.next_cursor /\ reply' = NoReply
  /\ snapshot' = {}
  /\ UNCHANGED <<dataVars, known, req, got, steady, blind, rows>>

Finish ==
  /\ phase = "answered" /\ ~Given(reply.next_cursor)
  /\ phase' = "idle" /\ req' = <<>> /\ cursor' = <<>> /\ got' = <<>> /\ reply' = NoReply
  /\ steady' = {} /\ snapshot' = {} /\ blind' = FALSE
  /\ UNCHANGED <<dataVars, known, rows>>

Serve ==
  \/ AnswerBadRequest \/ AnswerImpossible \/ ReadLogs \/ ReplyLogs
  \/ ReadAggregate \/ ReplyAggregate \/ StatementFails

Next ==
  \/ \E id \in RowIds : Arrive(id) \/ Reject(id)
  \/ \E day \in OldDays : DropDay(day)
  \/ \E r \in Requests : Ask(r)
  \/ Serve \/ NextPage \/ Finish

Spec == Init /\ [][Next]_vars

-----------------------------------------------------------------------------
(* Properties, stated over the entries as they were sent. *)

TypeOK ==
  /\ table \subseteq [id: RowIds, ts: Instants,
                     service_id: {ServiceIds[n] : n \in Services}, level: 0..3]
  /\ \A row, other \in table : row.id = other.id => row = other
  /\ gone \subseteq RowIds /\ refused \subseteq RowIds
  /\ registered \subseteq Services /\ known \subseteq registered
  /\ phase \in {"idle", "asked", "read", "answered"}
  /\ req \in Requests \cup {<<>>} /\ (req = <<>> <=> phase = "idle")
  /\ reply.status \in {0, 200, 400, 500, 503} /\ (reply.status # 0 <=> phase = "answered")
  /\ Len(reply.logs) <= MAX_LIMIT
  /\ steady \subseteq RowIds /\ snapshot \subseteq RowIds /\ blind \in BOOLEAN

Truth(id) == Denotation[Entries[id].timestamp]

\* The row id comes after the instant t and the id i, on the way back in time.
After(id, t, i) == Before(Truth(id), t) \/ (Truth(id) = t /\ id < i)

\* The request r means the row id: since is in the range, until is not; and a walk that
\* starts with a cursor starts after what the cursor names.
Meant(r, id) ==
  LET e == Entries[id]
  IN /\ Given(r.since) => ~Before(Truth(id), Denotation[r.since[1]])
     /\ Given(r.until) => Before(Truth(id), Denotation[r.until[1]])
     /\ Given(r.service) => e.service = r.service[1]
     /\ Given(r.level) => e.level = r.level[1]
     /\ r.attributes \subseteq e.attributes
     /\ Given(r.q) => r.q[1] \in e.words
     /\ r.path = "logs" /\ Given(r.cursor) => After(id, r.cursor[1].t, r.cursor[1].i)

RangeMakesSense(r) ==
  /\ Given(r.since) => Denotation[r.since[1]] # Null
  /\ Given(r.until) => Denotation[r.until[1]] # Null
  /\ Given(r.since) /\ Given(r.until) => ~Before(Denotation[r.until[1]], Denotation[r.since[1]])

\* time.ts: a row is stored at the instant its text denotes, to the microsecond, by
\* whichever of the two ways the text is read; an entry is only refused if its text
\* denotes none, or one more than five minutes ahead; and a range is only served if
\* both its ends are instants, in order.
TimesReadRight ==
  /\ \A row \in table : row.ts = Truth(row.id)
  /\ \A id \in refused :
       Truth(id) = Null \/ Before(At(Now[1], Now[2] + Skew, Now[3]), Truth(id))
  /\ phase # "idle" /\ reply.status = 200 => RangeMakesSense(req)

\* logs.ts: pages go back in time, from one page to the next as within a page, by id
\* where rows share an instant; so no row comes twice, whatever arrives in between.
\* Every row is one the request means.
PagesDescend ==
  /\ \A i \in 1..Len(got) - 1 : After(got[i + 1], Truth(got[i]), got[i])
  /\ \A i \in DOMAIN got : Meant(req, got[i])

\* logs.ts: "a tie at a page boundary would drop or repeat rows".  A walk that comes to
\* its last page has had every row that it means and that was there all along.  (A
\* service this instance has never heard of is another matter, see blind.)
NothingMissed ==
  phase = "answered" /\ reply.status = 200 /\ req.path = "logs" /\ ~blind
    /\ ~Given(reply.next_cursor)
    => \A id \in steady : Meant(req, id) => \E i \in DOMAIN got : got[i] = id

\* logs.ts: next_cursor is "null exactly when there is nothing more to return", as of
\* the statement that read the page.
NullExactlyAtEnd ==
  phase = "answered" /\ reply.status = 200 /\ req.path = "logs" /\ ~blind =>
    LET left == {id \in snapshot : /\ Meant(req, id)
                                   /\ \A i \in DOMAIN got : got[i] # id
                                   /\ got # <<>> => LET last == got[Len(got)]
                                                    IN After(id, Truth(last), last)}
    IN Given(reply.next_cursor) <=> left # {}

\* services.ts: rows another instance wrote carry their service's name, not an unknown
\* id, in pages and in aggregates; and every row its own level.
NamesAreTrue ==
  /\ \A i \in DOMAIN reply.logs :
       LET e == Entries[reply.logs[i].id]
       IN reply.logs[i].service = e.service /\ reply.logs[i].level = e.level
  /\ \A i \in DOMAIN reply.buckets :
       req.group_by = <<"service">> => reply.buckets[i].group \in registered

\* aggregate.ts: every row the request means is counted once, in the bucket and group
\* it belongs to; buckets are aligned to the clock and come in order, at most one more
\* of them than the limit.
AggregateExact ==
  phase = "answered" /\ reply.status = 200 /\ req.path = "aggregate" /\ ~blind =>
    LET size == BucketSize(req)
        meant == {id \in snapshot : Meant(req, id)}
        In(id, b) ==
          /\ ~Before(Truth(id), b.start)
          /\ Before(Truth(id), At(b.start[1], b.start[2] + size, 0))
          /\ b.group = IF req.group_by = <<"service">> THEN Entries[id].service
                       ELSE IF req.group_by = <<"level">> THEN Entries[id].level
                       ELSE "null"
        buckets == reply.buckets
    IN /\ \A i \in DOMAIN buckets :
            /\ buckets[i].start[2] % size = 0 /\ buckets[i].start[3] = 0
            /\ buckets[i].count = Cardinality({id \in meant : In(id, buckets[i])})
            /\ buckets[i].count > 0
       /\ \A id \in meant : \E i \in DOMAIN buckets : In(id, buckets[i])
       /\ \A i \in 1..Len(buckets) - 1 : ~Before(buckets[i + 1].start, buckets[i].start)
       /\ Cardinality({buckets[i].start : i \in DOMAIN buckets}) <= MAX_BUCKETS + 1

=============================================================================
