SPECIFICATION FairSpec
CONSTANTS
  Jobs = {j1, j2}
  Reports = {r1}
  NoReport = NoReport
  Searchers = {b1}
  Reporters = {c1}
  NoJob = NoJob
  BatchOutcomes = {"none", "search_failed"}
  RaisingJobs = {j2}
  IntakeOverlaps = TRUE
  MaxFaults = 2
INVARIANTS NoReportLeftRanking
PROPERTIES ReportersLeaveReportedJobs AcceptedJobSettles
