SPECIFICATION FairSpec
CONSTANTS
  Jobs = {j1, j2}
  Reports = {r1}
  NoReport = NoReport
  ErrorCodes = {"failed"}
  NoError = "none"
  Pages = {p1, p2}
  NoJob = NoJob
  MaxSubmits = 2
INVARIANTS TypeOK OneChainAtATime CompletedShowsItsReport
PROPERTIES FormComesBack
CHECK_DEADLOCK FALSE
