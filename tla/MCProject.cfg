CONSTANTS
  Values = {0, 1, 2}
  Does <- MCDoes
  Scripts <- MCScripts
  Files = {"f"}
  Urls = {"u"}
  Stores <- MCStores
  ReadOnly = {"theirs"}
  Published <- MCPublished
  MaxRuns = 3
  MaxEdits = 2
  MaxWhyDepth = 8
SPECIFICATION Spec
INVARIANTS TypeOK SameAsClean ExplainSees
PROPERTIES OnlyNewIsBuilt
CHECK_DEADLOCK FALSE
