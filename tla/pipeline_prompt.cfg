SPECIFICATION FairSpec
CONSTANTS
  Jobs = {j1, j2}
  Reports = {r1}
  NoReport = NoReport
  Searchers = {b1}
  Reporters = {c1}
  NoJob = NoJob
  BatchOutcomes = {"none", "search_failed"}
  RaisingJobs = {}
  IntakeOverlaps = FALSE
  MaxFaults = 1
INVARIANTS RecordsAgree
PROPERTIES FollowsLifecycle BegunJobFinishes
