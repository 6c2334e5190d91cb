CONSTANTS
  a = a
  b = b
  c = c
  d = d
  Nodes = {a, b, c, d}
  Graphs <- MCGraphs
  MaxDepths = {0, 1, 2, 3}
SPECIFICATION Spec
INVARIANT PathIsReal
INVARIANT PathIsShortest
CHECK_DEADLOCK FALSE
