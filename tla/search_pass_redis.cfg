SPECIFICATION Spec
CONSTANTS
  Workers = {b1}
  t1 = t1
  t2 = t2
  Texts = {t1, t2}
  Queries <- MCQueries
  QueryLists <- MCQueryLists
  TextOf <- MCTextOf
  HitLists <- MCHitLists
  NoAnswer = NoAnswer
  MaxConcurrency = 2
  MaxRetries = 2
  MaxFaults = 1
INVARIANTS RaisesOnlyWhenSearchFails
