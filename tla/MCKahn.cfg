CONSTANTS
  a = a
  b = b
  c = c
  outside = outside
  Leaf = Leaf
  Ids <- MCIds
  Names = {n1, n2}
  Pools = {}
  Capacity <- MCCapacity
  Requests <- MCRequests
  Graphs <- MCGraphs
SPECIFICATION Spec
INVARIANTS TypeOK Verdict
