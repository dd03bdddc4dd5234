SPECIFICATION FairSpec
CONSTANTS
  t1 = t1
  t2 = t2
  Hits <- MCFewHits
  NumQueries = 2
  MaxHits = 2
  MaxCandidates = 2
  MaxTotalQueries = 2
  MaxUncertaintyNotes = 1
  MaxRetries = 2
  MaxUrlLength = 1
  CriticalDate = 2
  NoDate = NoDate
  NoTitle = NoTitle
  NoPort = NoPort
  TrackingParams = {"utm_source"}
  NoUrl = NoUrl
  InventedUrl = InventedUrl
  FetchFailedNote = FetchFailedNote
  ClaudesNote = ClaudesNote
INVARIANTS TypeOK BatchIsValid ReportIsSound NoteIsLostOnlyWhenFull EvidenceHasASource
PROPERTIES RankingEnds
CHECK_DEADLOCK FALSE
