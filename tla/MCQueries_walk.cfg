SPECIFICATION Spec
CONSTANTS
  Entries <- MCEntries
  Requests <- MCRequests
  ServiceIds <- MCServiceIds
  Now <- MCNow
  OldDays <- MCOldDays
  DEFAULT_LIMIT = 2
  MAX_LIMIT = 2
  MAX_BUCKETS = 3
INVARIANTS
  TypeOK
  TimesReadRight
  PagesDescend
  NothingMissed
  NullExactlyAtEnd
  NamesAreTrue
  AggregateExact
