CONSTANTS
  k1 = k1  k2 = k2  o1 = o1  o2 = o2
  w1 = w1  w2 = w2  r1 = r1  r2 = r2
  Keys = {k1}
  Hashes = {o1, o2}
  Workers = {w1, w2}
  Runs = {r1, r2}
  RunOf <- MCTwoRunsOf
  Yields <- MCEitherYields
  Retain <- MCOneEvict
  Lacking = {o2}
  Mismatched = {}
  MaxJobs = 1
  MaxCrashes = 1
  Levels = {2}
  MaxSweeps = 1
  MaxKills = 1
  Aging = {}
SPECIFICATION Spec
INVARIANTS NoHalfEntry CrashSafe
PROPERTY EverybodyEnds
