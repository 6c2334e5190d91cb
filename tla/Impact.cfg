CONSTANTS
  a = a
  b = b
  c = c
  d = d
  Nodes = {a, b, c, d}
  TestNodes = {c}
  TestEdge = "TESTED_BY"
  Graphs <- MCGraphs
  MaxDepth = 2
SPECIFICATION FairSpec
INVARIANT TypeOK
INVARIANT DepthIsReal
INVARIANT NothingMissed
INVARIANT DirectExplained
PROPERTY Terminates
CHECK_DEADLOCK FALSE
