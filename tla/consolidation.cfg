SPECIFICATION ConsolidationSpec
CONSTANTS
  t1 = t1
  t2 = t2
  Hits <- MCHits
  NumQueries = 2
  MaxHits = 2
  MaxCandidates = 2
  MaxTotalQueries = 2
  MaxUncertaintyNotes = 1
  MaxRetries = 1
  MaxUrlLength = 1
  CriticalDate = 2
  NoDate = NoDate
  NoTitle = NoTitle
  NoPort = NoPort
  TrackingParams = {"utm_source"}
  NoUrl = NoUrl
INVARIANTS ConsolidationTypeOK CandidatesAreFirstFound HitsAreMerged EachDocumentOnce
PROPERTIES CandidatesOnlyGrow
CHECK_DEADLOCK FALSE
