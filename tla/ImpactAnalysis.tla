--------------------------- MODULE ImpactAnalysis ---------------------------
(***************************************************************************)
(* What run_impact and run_explain compute of the current snapshot's graph *)
(* for a set of changed files: the bounded reverse traversal of            *)
(* GraphTraversalService.reverse_impact from every changed node, the       *)
(* smallest depth at which ImpactAnalyzer reports each affected node, its  *)
(* category, and for the DIRECT ones the graph paths and tests that        *)
(* ContextRetriever puts before the model.                                 *)
(*                                                                         *)
(* An edge <<t, s, d>> says that node s depends on node d.  Any graph of   *)
(* Graphs and any set of changed nodes is a possible input: cycles, self   *)
(* loops and parallel edges included.  The rows of the recursive query are *)
(* a bag in SQL; only their minimum per node is used, so a set will do.    *)
(***************************************************************************)
EXTENDS Naturals, FiniteSets

CONSTANTS Nodes,       \* the nodes of the snapshot
          Graphs,      \* the edge sets to consider
          TestEdge,    \* the edge type TESTED_BY
          MaxDepth     \* DEFAULT_MAX_DEPTH

ASSUME ImpactConstants ==
  /\ MaxDepth \in Nat
  /\ IsFiniteSet(Nodes)
  /\ \A G \in Graphs : \A e \in G : e[2] \in Nodes /\ e[3] \in Nodes

VARIABLES
  edges,      \* the snapshot's rows of table edges
  changed,    \* changed_node_ids: the nodes of the changed files
  phase,      \* "seeds", "query" (in reverse_impact), "context", "done"
  seeds,      \* changed nodes not yet traversed
  seed,       \* the changed nodes whose traversal is under way (at most one)
  rows,       \* the rows <<node, depth>> of the recursive table impact
  delta,      \* the rows its last iteration added
  minDepth,   \* min_depth_by_affected_id, 0 for a node that is not in it
  todo,       \* DIRECT nodes whose graph path is not yet looked up
  paths,      \* graph_paths
  tests       \* relevant_tests

input == <<edges, changed>>
query == <<seed, rows, delta>>
vars  == <<input, phase, seeds, query, minDepth, todo, paths, tests>>

DependsOn(s, d) == \E e \in edges : e[2] = s /\ e[3] = d

DirectDependents(n) == {s \in Nodes : DependsOn(s, n)}

TypeOK ==
  /\ edges \in Graphs /\ changed \subseteq Nodes
  /\ phase \in {"seeds", "query", "context", "done"}
  /\ seeds \subseteq changed /\ seed \subseteq changed
  /\ rows \subseteq Nodes \X (0..MaxDepth) /\ delta \subseteq rows
  /\ minDepth \in [Nodes -> 0..MaxDepth]
  /\ todo \subseteq Nodes \ changed
  /\ paths \subseteq changed \X (Nodes \ changed)
  /\ tests \subseteq Nodes

Init ==
  /\ edges \in Graphs
  /\ changed \in SUBSET Nodes
  /\ phase = "seeds"
  /\ seeds = changed
  /\ seed = {} /\ rows = {} /\ delta = {}
  /\ minDepth = [n \in Nodes |-> 0]
  /\ todo = {} /\ paths = {} /\ tests = {}

(* reverse_impact for the next changed node: a set, so in any order.       *)
NextSeed(n) ==
  /\ phase = "seeds"
  /\ n \in seeds
  /\ seeds' = seeds \ {n}
  /\ seed' = {n}
  /\ rows' = {<<n, 0>>}
  /\ delta' = {<<n, 0>>}
  /\ phase' = "query"
  /\ UNCHANGED <<input, minDepth, todo, paths, tests>>

NextRows_StuckDepthBug ==
  {r \in Nodes \X (0..MaxDepth) :
     \E q \in delta : q[2] < MaxDepth /\ DependsOn(r[1], q[1]) /\ r[2] = q[2]}
NextRows_ExtraHopBug ==
  {r \in Nodes \X (0..MaxDepth) :
     \E q \in delta : DependsOn(r[1], q[1]) /\ r[2] = q[2] + 1 /\ r[2] < MaxDepth}
NextRows_ForwardBug ==
  {r \in Nodes \X (0..MaxDepth) :
     \E q \in delta : q[2] < MaxDepth /\ DependsOn(q[1], r[1]) /\ r[2] = q[2] + 1}
(* The recursive member of the query, joined with the last rows. *)
NextRows ==
  {r \in Nodes \X (0..MaxDepth) :
     \E q \in delta : q[2] < MaxDepth /\ DependsOn(r[1], q[1]) /\ r[2] = q[2] + 1}

Recurse ==
  /\ phase = "query"
  /\ delta # {}
  /\ rows' = rows \cup NextRows
  /\ delta' = NextRows
  /\ UNCHANGED <<input, phase, seeds, seed, minDepth, todo, paths, tests>>

Least(S) == CHOOSE d \in S : \A e \in S : d <= e

(* The depths the query groups by node: 0, the seed's own row, is left out. *)
DepthsOf(n) == {r[2] : r \in {q \in rows : q[1] = n /\ q[2] > 0}}

Smaller_LastSeedBug(old, new) == new
Smaller(old, new) == IF old = 0 \/ new < old THEN new ELSE old

MergedDepth_KeepChangedBug(n) ==
  IF DepthsOf(n) = {} THEN minDepth[n] ELSE Smaller(minDepth[n], Least(DepthsOf(n)))
MergedDepth(n) ==
  IF n \in changed \/ DepthsOf(n) = {} THEN minDepth[n]
  ELSE Smaller(minDepth[n], Least(DepthsOf(n)))

(* _min_depths folds the query's result into the map. *)
Merge ==
  /\ phase = "query"
  /\ delta = {}
  /\ minDepth' = [n \in Nodes |-> MergedDepth(n)]
  /\ seed' = {} /\ rows' = {}
  /\ phase' = "seeds"
  /\ UNCHANGED <<input, seeds, delta, todo, paths, tests>>

Category(d) ==
  CASE d = 1 -> "DIRECT" [] d = 2 -> "INDIRECT" [] d = 3 -> "RELATED" [] OTHER -> "POSSIBLE"

InCategory(c) == {n \in Nodes : minDepth[n] > 0 /\ Category(minDepth[n]) = c}

(* analyze returns; build_context goes through the DIRECT nodes. *)
Categorize ==
  /\ phase = "seeds"
  /\ seeds = {}
  /\ todo' = InCategory("DIRECT")
  /\ phase' = "context"
  /\ UNCHANGED <<input, seeds, query, minDepth, paths, tests>>

OneHop_ReversedBug(c, n) == DependsOn(c, n)
(* shortest_reverse_path with max_depth = 1. *)
OneHop(c, n) == n \in DirectDependents(c)

(* _graph_paths: the first changed node (in the order of its ids) that a   *)
(* path of one hop leads to, if there is one.                              *)
GraphPath(n) ==
  /\ phase = "context"
  /\ n \in todo
  /\ todo' = todo \ {n}
  /\ \/ \E c \in changed : OneHop(c, n) /\ paths' = paths \cup {<<c, n>>}
     \/ (\A c \in changed : ~OneHop(c, n)) /\ UNCHANGED paths
  /\ UNCHANGED <<input, phase, seeds, query, minDepth, tests>>

TestsOf(n) == {e[2] : e \in {f \in edges : f[1] = TestEdge /\ f[3] = n}}

RelevantTests ==
  /\ phase = "context"
  /\ todo = {}
  /\ tests' = UNION {TestsOf(n) : n \in changed \cup InCategory("DIRECT")}
  /\ phase' = "done"
  /\ UNCHANGED <<input, seeds, query, minDepth, todo, paths>>

Next ==
  \/ Recurse \/ Merge \/ Categorize \/ RelevantTests
  \/ \E n \in Nodes : NextSeed(n) \/ GraphPath(n)

Spec == Init /\ [][Next]_vars

(* It is one thread of straight-line code. *)
FairSpec == Spec /\ WF_vars(Next)
-----------------------------------------------------------------------------
(* Properties.  Definitions named ...Bug above are what they must tell the *)
(* code's from.                                                            *)

(* A chain of d dependencies leads from node n to the changed node c. *)
Chain(c, n, d) ==
  \E w \in [0..d -> Nodes] :
    /\ w[0] = c /\ w[d] = n
    /\ \A i \in 0..(d - 1) : DependsOn(w[i + 1], w[i])

Analyzed == phase \in {"context", "done"}

(* Every reported depth is that of a real chain of dependencies from the   *)
(* node to something that changed: an impact is never made up.             *)
DepthIsReal ==
  Analyzed => \A n \in Nodes : minDepth[n] > 0 => \E c \in changed : Chain(c, n, minDepth[n])

(* No affected node is missed or reported as farther than it is: whatever  *)
(* the order of the changed nodes, also when the only chains lead through  *)
(* other changed nodes or round a cycle.                                   *)
NothingMissed ==
  Analyzed =>
    \A n \in Nodes \ changed : \A c \in changed : \A d \in 1..MaxDepth :
      Chain(c, n, d) => minDepth[n] \in 1..d

(* The context explains each DIRECT node by exactly one real edge to a     *)
(* changed node: analyzer and retriever, which traverse the graph in       *)
(* different ways, agree on what one hop is.                               *)
DirectExplained ==
  phase = "done" =>
    /\ {p[2] : p \in paths} = InCategory("DIRECT")
    /\ Cardinality(paths) = Cardinality(InCategory("DIRECT"))
    /\ \A p \in paths : DependsOn(p[2], p[1])

(* The traversal of a cyclic graph comes to an end. *)
Terminates == <>(phase = "done")
=============================================================================
