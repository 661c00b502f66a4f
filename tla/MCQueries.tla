----------------------------- MODULE MCQueries -----------------------------
(* Values for Queries: six entries, one of them not acceptable, one from     *)
(* 1600 and the others around the midnight after 29 February 2024 (day       *)
(* 19782).                                                                   *)
EXTENDS Queries

Text(month, day, hour, minute, second, fraction) ==
  [iso |-> TRUE, year |-> 2024, month |-> month, day |-> day, hour |-> hour,
   minute |-> minute, second |-> second, fraction |-> fraction, zone |-> "Z", offset |-> 0]

East(text, minutes) == [text EXCEPT !.zone = "offset", !.offset = minutes]

Entry(text, level, service, words, attributes) ==
  [timestamp |-> text, level |-> level, service |-> service, words |-> words,
   attributes |-> attributes]

\* 1 and 2 share a millisecond, 3 and 4 an instant; 5 is one millisecond too far
\* ahead; 6 is beyond the safe integers.
MCEntries ==
  <<Entry(East(Text(3, 1, 0, 0, 0, <<1, 2, 3, 5>>), 0), "info", "web", {"%"}, {}),
    Entry(Text(3, 1, 0, 0, 0, <<1, 2, 3, 4, 5, 6>>), "error", "db", {}, {"retries=3"}),
    Entry(East(Text(2, 29, 24, 0, NoSeconds, <<>>), 120), "error", "web", {}, {}),
    Entry(Text(2, 29, 22, 0, 0, <<0, 0, 0>>), "error", "db", {}, {"retries=3"}),
    Entry(Text(3, 1, 0, 7, 0, <<0, 0, 1>>), "info", "web", {}, {}),
    Entry([Text(2, 29, 0, 0, 0, <<5>>) EXCEPT !.year = 1600, !.zone = "none"], "info",
          "web", {"%"}, {})>>

MCNow == <<19783, 120, 0>>
MCOldDays == {19782}
MCServiceIds == [web |-> 1, db |-> 2]

All ==
  [path |-> "logs", service |-> <<>>, level |-> <<>>, since |-> <<>>, until |-> <<>>,
   attributes |-> {}, q |-> <<>>, limit |-> <<>>, cursor |-> <<>>, bucket |-> <<>>,
   group_by |-> <<>>, oversized |-> FALSE]

\* From the tie of 3 and 4 up to, and without, 2.
Between ==
  [All EXCEPT !.since = <<Text(2, 29, 22, 0, 0, <<>>)>>,
              !.until = <<East(Text(3, 1, 5, 30, 0, <<1, 2, 3, 4, 5, 6>>), 330)>>]

Buckets == [Between EXCEPT !.path = "aggregate", !.bucket = <<"h1">>]

MCRequests ==
  { [All EXCEPT !.limit = <<1>>], All,
    [Between EXCEPT !.limit = <<1>>],
    \* goes on after entry 1, with a cursor of an earlier walk
    [All EXCEPT !.cursor = <<[v |-> 1, t |-> <<19783, 0, 123500>>, i |-> 1]>>],
    [All EXCEPT !.service = <<"db">>], [All EXCEPT !.q = <<"%">>],
    [All EXCEPT !.attributes = {"retries=3"}, !.level = <<"error">>],
    Buckets, [Buckets EXCEPT !.group_by = <<"service">>],
    \* up to 24:00 without seconds
    [Buckets EXCEPT !.bucket = <<"d1">>, !.group_by = <<"level">>,
                    !.until = <<[Text(3, 1, 24, 0, NoSeconds, <<>>) EXCEPT !.zone = "none"]>>],
    \* refused
    [Buckets EXCEPT !.bucket = <<"m1">>], [All EXCEPT !.level = <<"fatal">>],
    [All EXCEPT !.limit = <<3>>], [All EXCEPT !.oversized = TRUE],
    [All EXCEPT !.cursor = <<[v |-> 0, t |-> MCNow, i |-> 1]>>],
    [All EXCEPT !.cursor = <<[v |-> 1, t |-> MCNow, i |-> -1]>>],
    \* what the service issues after entry 6
    [All EXCEPT !.cursor = <<[v |-> 1, t |-> <<-135081, 0, 500000>>, i |-> 6]>>],
    [Between EXCEPT !.since = Between.until, !.until = Between.since],
    [Between EXCEPT !.since = <<[Text(2, 29, 0, 0, 0, <<5>>) EXCEPT !.year = 2023]>>] }
=============================================================================
