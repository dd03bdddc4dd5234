SPECIFICATION Spec
CONSTANTS
  Jobs = {j1}
  Reports = {r1, r2}
  NoReport = NoReport
  Searchers = {b1}
  Reporters = {c1, c2}
  NoJob = NoJob
  BatchOutcomes = {"none", "search_failed"}
  RaisingJobs = {}
  IntakeOverlaps = TRUE
  MaxFaults = 3
SYMMETRY Symmetry
INVARIANTS TypeOK NoLostJob DoneKeyMeansPublished
PROPERTIES ReportIsFinal FollowsAnyOrder
