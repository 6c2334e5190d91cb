-------------------------- MODULE MCImpactAnalysis --------------------------
(* ImpactAnalysis over all graphs on three nodes, and over the subgraphs of *)
(* a chain longer than MaxDepth with a shortcut past its middle, edges back *)
(* and a loop.  The edges of a test are TESTED_BY, any other one is a call. *)
EXTENDS ImpactAnalysis

CONSTANTS a, b, c, d,
          TestNodes    \* the nodes that are tests

MCPairs ==
  SUBSET {p \in {a, b, c} \X {a, b, c} : p[1] # p[2]}
    \cup SUBSET {<<b, a>>, <<c, b>>, <<d, c>>, <<d, b>>, <<a, c>>, <<a, d>>, <<b, b>>}

MCGraphs ==
  {{<<IF p[1] \in TestNodes THEN TestEdge ELSE "CALLS", p[1], p[2]>> : p \in G} :
     G \in MCPairs}
=============================================================================
