---------------------------- MODULE ReversePath ----------------------------
(***************************************************************************)
(* GraphTraversalService.shortest_reverse_path: a breadth-first search     *)
(* along the reversed edges of a snapshot from one node to another that is *)
(* given up after max_depth layers, and the reconstruction of the path     *)
(* from the predecessors the search recorded.                              *)
(*                                                                         *)
(* The rows of a SELECT DISTINCT come in no particular order, so the nodes *)
(* of a layer may be expanded in any.                                      *)
(***************************************************************************)
EXTENDS Naturals, Sequences

CONSTANTS Nodes,       \* the nodes of the snapshot
          Graphs,      \* the sets of pairs <<s, d>>, s depends on d, to consider
          MaxDepths    \* the values of max_depth to consider

ASSUME ReverseConstants ==
  /\ MaxDepths \subseteq Nat
  /\ \A G \in Graphs : G \subseteq Nodes \X Nodes

VARIABLES
  edges, from, to, maxDepth,   \* the arguments
  phase,        \* "search", "back" (in _reconstruct_path), "found", "none"
  depth,        \* layers finished
  frontier,     \* nodes of the present layer still to be expanded
  nextFrontier, \* the layer after it
  visited,
  predecessor,  \* a function whose domain grows
  path          \* the path, from its end backwards until it is reversed

args   == <<edges, from, to, maxDepth>>
search == <<depth, frontier, nextFrontier, visited, predecessor>>
vars   == <<args, phase, search, path>>

DirectDependents(n) == {s \in Nodes : <<s, n>> \in edges}

TypeOK ==
  /\ edges \in Graphs /\ from \in Nodes /\ to \in Nodes /\ maxDepth \in MaxDepths
  /\ phase \in {"search", "back", "found", "none"}
  /\ depth \in 0..maxDepth
  /\ frontier \subseteq visited /\ nextFrontier \subseteq visited /\ visited \subseteq Nodes
  /\ DOMAIN predecessor \subseteq Nodes
  /\ \A n \in DOMAIN predecessor : predecessor[n] \in visited
  /\ path \in Seq(Nodes)

Init ==
  /\ edges \in Graphs /\ from \in Nodes /\ to \in Nodes /\ maxDepth \in MaxDepths
  /\ phase = IF from = to THEN "found" ELSE IF maxDepth = 0 THEN "none" ELSE "search"
  /\ path = IF from = to THEN <<from>> ELSE <<>>
  /\ depth = 0
  /\ frontier = {from}
  /\ nextFrontier = {}
  /\ visited = {from}
  /\ predecessor = [n \in {} |-> from]

Unvisited(n) == DirectDependents(n) \ visited

Recorded_RootBug(n) ==
  [m \in DOMAIN predecessor \cup Unvisited(n) |->
     IF m \in Unvisited(n) THEN from ELSE predecessor[m]]
(* A node that is already visited keeps its predecessor. *)
Recorded(n) ==
  [m \in DOMAIN predecessor \cup Unvisited(n) |->
     IF m \in Unvisited(n) THEN n ELSE predecessor[m]]

Expand(n) ==
  /\ phase = "search"
  /\ n \in frontier
  /\ predecessor' = Recorded(n)
  /\ frontier' = frontier \ {n}
  /\ visited' = visited \cup Unvisited(n)
  /\ IF to \in Unvisited(n)
     THEN phase' = "back" /\ path' = <<to>> /\ UNCHANGED nextFrontier
     ELSE nextFrontier' = nextFrontier \cup Unvisited(n) /\ UNCHANGED <<phase, path>>
  /\ UNCHANGED <<args, depth>>

LastLayer_OneShortBug == depth + 2 >= maxDepth
LastLayer == depth + 1 = maxDepth

NextLayer ==
  /\ phase = "search"
  /\ frontier = {}
  /\ depth' = depth + 1
  /\ frontier' = nextFrontier
  /\ nextFrontier' = {}
  /\ phase' = IF nextFrontier = {} \/ LastLayer THEN "none" ELSE "search"
  /\ UNCHANGED <<args, visited, predecessor, path>>

Reverse(s) == [i \in DOMAIN s |-> s[Len(s) + 1 - i]]

Back ==
  /\ phase = "back"
  /\ IF path[Len(path)] = from
     THEN phase' = "found" /\ path' = Reverse(path)
     ELSE path' = Append(path, predecessor[path[Len(path)]]) /\ UNCHANGED phase
  /\ UNCHANGED <<args, search>>

Next == NextLayer \/ Back \/ \E n \in Nodes : Expand(n)

Spec == Init /\ [][Next]_vars
-----------------------------------------------------------------------------
(* Properties.  Definitions named ...Bug above are what they must tell the *)
(* code's from.                                                            *)

(* What is returned leads from the one node to the other, and every step   *)
(* of it is an edge of the graph: the predecessors of nodes that several   *)
(* others found are never mixed up.                                        *)
PathIsReal ==
  phase = "found" =>
    /\ path[1] = from /\ path[Len(path)] = to
    /\ \A i \in 1..(Len(path) - 1) : <<path[i + 1], path[i]>> \in edges

(* A chain of d dependencies leads from node n to node m. *)
Chain(m, n, d) ==
  \E w \in [0..d -> Nodes] :
    w[0] = m /\ w[d] = n /\ \A i \in 0..(d - 1) : <<w[i + 1], w[i]>> \in edges

(* No shorter path exists, and it respects max_depth; and None is only     *)
(* returned when no path of at most max_depth edges exists: the search     *)
(* gives up neither too early nor for want of fresh nodes.                 *)
PathIsShortest ==
  /\ phase = "found" =>
       /\ Len(path) - 1 <= maxDepth
       /\ \A d \in 0..maxDepth : Chain(from, to, d) => Len(path) - 1 <= d
  /\ phase = "none" => \A d \in 0..maxDepth : ~Chain(from, to, d)
=============================================================================
