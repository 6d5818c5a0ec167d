CONSTANTS
  a = a  b = b  c = c  d = d  e = e
  n1 = n1  n2 = n2
  cores = cores
  Leaf = Leaf
  None = None
  Ids = {a, b, c, d, e}
  Names = {n1, n2}
  Pools = {cores}
  Capacity <- MCCapacity
  Requests <- MCRequests
  Workers = {w1, w2, w3}
  Submissions <- MCSubmissions
  Expansions <- MCExpansions
SPECIFICATION Spec
INVARIANTS TypeOK BooksAgree ParentsFirst FailureReaches NoStall NoLostWakeup
PROPERTIES OutcomesFinal FailsForCause RunEnds Implements
