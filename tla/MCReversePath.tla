--------------------------- MODULE MCReversePath ---------------------------
(* ReversePath over every subgraph of a small graph with a diamond, a chain *)
(* longer than max_depth, a cycle and a self loop.                          *)
EXTENDS ReversePath

CONSTANTS a, b, c, d

MCGraphs ==
  SUBSET {<<b, a>>, <<c, a>>, <<c, b>>, <<d, b>>, <<d, c>>, <<a, c>>, <<b, d>>, <<b, b>>}
=============================================================================
