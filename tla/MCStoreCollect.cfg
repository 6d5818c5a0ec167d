CONSTANTS
  k1 = k1  k2 = k2  o1 = o1  o2 = o2
  w1 = w1  w2 = w2  r1 = r1  r2 = r2
  Keys = {k1, k2}
  Hashes = {o1, o2}
  Workers = {w1, w2}
  Runs = {r1, r2}
  RunOf <- MCTwoRunsOf
  Yields <- MCYields
  Retain <- MCRetain
  Lacking = {}
  Mismatched = {}
  MaxJobs = 1
  MaxCrashes = 0
  Levels = {0, 2, 4}
  MaxSweeps = 1
  MaxKills = 0
  Aging = {r1, k1}
SPECIFICATION Spec
INVARIANTS TypeOK LinkedIsPublished PublishProtected OneOutputPerKey StagingSurvives
PROPERTIES Memoizes SteadySurvives
