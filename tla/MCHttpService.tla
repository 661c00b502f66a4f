--------------------------- MODULE MCHttpService ---------------------------
(* Requests for HttpService: every route, every way to be refused. *)
EXTENDS HttpService

To(route, credential) ==
  [route |-> route, credential |-> credential, body |-> "none", entries |-> <<>>,
   valid |-> TRUE]

Post(body, entries) ==
  [To("POST/logs", "ingest_key") EXCEPT !.body = body, !.entries = entries]

MCRequests ==
  { Post("logs", <<{}, {"attributes"}, {}>>),
    Post("logs", <<{"future"}>>), Post("logs", <<{"nul"}, {}>>),
    Post("large", <<>>), Post("inflated", <<>>), Post("corrupt", <<>>),
    Post("malformed", <<>>),
    To("GET/logs", "unknown_key"), To("GET/logs", "query_key"),
    [To("GET/logs/aggregate", "query_key") EXCEPT !.valid = FALSE],
    To("GET/health", "none"), To("no_route", "malformed"),
    To("POST/admin/retention/run", "ingest_key"), To("GET/metrics", "ingest_key") }
=============================================================================
