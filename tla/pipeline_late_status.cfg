SPECIFICATION FairSpec
CONSTANTS
  Jobs = {j1}
  Reports = {r1}
  NoReport = NoReport
  Searchers = {b1}
  Reporters = {c1}
  NoJob = NoJob
  BatchOutcomes = {"none", "search_failed"}
  RaisingJobs = {}
  IntakeOverlaps = TRUE
  MaxFaults = 0
PROPERTIES NoJobRunsForever
