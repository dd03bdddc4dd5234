SPECIFICATION Spec
CONSTANTS
  t1 = t1
  t2 = t2
  Hits <- MCFewHits
  NumQueries = 1
  MaxHits = 1
  MaxCandidates = 1
  MaxTotalQueries = 1
  MaxUncertaintyNotes = 20
  MaxRetries = 3
  MaxUrlLength = 1
  CriticalDate = 2
  NoDate = NoDate
  NoTitle = NoTitle
  NoPort = NoPort
  TrackingParams = {"utm_source"}
  NoUrl = NoUrl
  InventedUrl = InventedUrl
  FetchFailedNote = FetchFailedNote
  ClaudesNote = ClaudesNote
INVARIANTS FailedFetchIsNoted
CHECK_DEADLOCK FALSE
