CONSTANTS
  w1 = w1  w2 = w2  j1 = j1  k = k
  Workers = {w1, w2}
  Jobs = {j1}
  ReadsStdin = {j1}
  MaxJobs = 1
  MaxTemplates = 2
  MaxDeaths = 1
  Keys = {k}
  KeyOf <- MCKeyOf
  Settings <- MCSettings
  MaxShutdowns = 1
  MaxCrashes = 1
SPECIFICATION FairSpec
INVARIANTS TypeOK NoTemplateLost StageIsKept NoAnswerLost
PROPERTIES DispatchEnds NoneOutlives
CHECK_DEADLOCK FALSE
