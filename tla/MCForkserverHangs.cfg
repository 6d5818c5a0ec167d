CONSTANTS
  w1 = w1  w2 = w2  j1 = j1  k = k
  Workers = {w1, w2}
  Jobs = {j1}
  ReadsStdin = {}
  MaxJobs = 1
  MaxTemplates = 2
  MaxDeaths = 1
  Keys = {k}
  KeyOf <- MCKeyOf
  Settings <- MCDefault
  MaxShutdowns = 0
  MaxCrashes = 0
SPECIFICATION FairSpec
PROPERTIES NoWaitForever
CHECK_DEADLOCK FALSE
