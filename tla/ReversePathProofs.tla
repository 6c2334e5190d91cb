------------------------- MODULE ReversePathProofs -------------------------
(***************************************************************************)
(* TypeOK, PathIsReal and PathIsShortest for every graph, finite or not,   *)
(* every two nodes and every max_depth.                                    *)
(*                                                                         *)
(* That no shorter path is missed rests on Explored: a node that some      *)
(* chain of at most `depth` dependencies leads to has been visited in an   *)
(* earlier layer, and the dependents of every node that is expanded have   *)
(* been visited.  That the path is no longer than its layer rests on       *)
(* Layered: the nodes can be numbered so that a predecessor's number is    *)
(* one less, and the two frontiers have the numbers depth and depth + 1.   *)
(***************************************************************************)
EXTENDS ReversePath, WellFoundedInduction, TLAPS

-----------------------------------------------------------------------------
(* Chains of dependencies.                                                 *)

(* A set of natural numbers that is not empty has a least one. *)
LEMMA LeastNatural ==
  ASSUME NEW T \in SUBSET Nat, T # {}
  PROVE  \E x \in T : \A y \in T : x <= y
<1> DEFINE R == OpToRel(<, Nat)
<1>1. R = {p \in Nat \X Nat : p[1] < p[2]}
  BY DEF OpToRel
<1>2. IsWellFoundedOn(R, Nat)
  BY NatLessThanWellFounded
<1> HIDE DEF R
<1>3. \E x \in T : \A y \in T : ~ (<<y, x>> \in R)
  BY <1>2, WFMin
<1>4. \A x, y \in Nat : ~ (<<y, x>> \in R) => x <= y
  BY <1>1
<1> QED
  BY <1>3, <1>4

(* Only the node itself is no dependency away. *)
LEMMA ChainOfNone ==
  ASSUME NEW m, NEW n, Chain(m, n, 0)
  PROVE  m = n
BY DEF Chain

(* A chain of one more is a chain and one dependency. *)
LEMMA ChainEnds ==
  ASSUME NEW d \in Nat, NEW m, NEW n, Chain(m, n, d + 1)
  PROVE  \E u \in Nodes : Chain(m, u, d) /\ <<n, u>> \in edges
<1>1. PICK w \in [0 .. (d + 1) -> Nodes] :
        /\ w[0] = m /\ w[d + 1] = n
        /\ \A i \in 0 .. d : <<w[i + 1], w[i]>> \in edges
  BY DEF Chain
<1> DEFINE v == [i \in 0 .. d |-> w[i]]
<1>2. v \in [0 .. d -> Nodes] /\ v[0] = m /\ v[d] = w[d] /\ w[d] \in Nodes
  BY <1>1
<1>3. \A i \in 0 .. (d - 1) : <<v[i + 1], v[i]>> \in edges
  BY <1>1
<1>4. Chain(m, w[d], d)
  BY <1>2, <1>3 DEF Chain
<1> QED
  BY <1>1, <1>2, <1>4

(* Chains do not lead out of a set that holds the dependents of its nodes. *)
LEMMA ClosedSet ==
  ASSUME NEW V, NEW d \in Nat, NEW m \in V, NEW n, Chain(m, n, d),
         \A u \in V : DirectDependents(u) \subseteq V
  PROVE  n \in V
<1>1. PICK w \in [0 .. d -> Nodes] :
        /\ w[0] = m /\ w[d] = n
        /\ \A i \in 0 .. (d - 1) : <<w[i + 1], w[i]>> \in edges
  BY DEF Chain
<1> DEFINE T == {i \in 0 .. d : w[i] \notin V}
<1>2. SUFFICES ASSUME T # {} PROVE FALSE
  BY <1>1
<1>3. PICK i \in T : \A j \in T : i <= j
  <2>1. T \in SUBSET Nat
    OBVIOUS
  <2> HIDE DEF T
  <2> QED
    BY <1>2, <2>1, LeastNatural
<1>4. i # 0 /\ i \in 1 .. d
  BY <1>1, <1>3
<1>5. i - 1 \in 0 .. (d - 1) /\ i - 1 \notin T
  BY <1>3, <1>4
<1>6. w[i - 1] \in V
  BY <1>5
<1>7. <<w[i], w[i - 1]>> \in edges /\ w[i] \in Nodes
  BY <1>1, <1>4, <1>5
<1> QED
  BY <1>3, <1>6, <1>7 DEF DirectDependents

-----------------------------------------------------------------------------
(* The inductive invariant.                                                *)

Predecessors ==
  /\ from \in visited
  /\ DOMAIN predecessor = visited \ {from}
  /\ \A m \in DOMAIN predecessor :
       predecessor[m] \in visited /\ <<m, predecessor[m]>> \in edges

Explored ==
  /\ \A d \in 0 .. depth : \A m \in Nodes :
       Chain(from, m, d) => m \in visited \ nextFrontier
  /\ \A m \in visited \ (frontier \cup nextFrontier) : DirectDependents(m) \subseteq visited

Numbers(level) ==
  /\ level[from] = 0
  /\ \A m \in DOMAIN predecessor : level[m] = level[predecessor[m]] + 1

Layered ==
  \E level \in [Nodes -> Nat] :
    /\ Numbers(level)
    /\ \A m \in frontier : level[m] = depth
    /\ \A m \in nextFrontier : level[m] = depth + 1

Searching == to \notin visited /\ depth < maxDepth /\ Explored /\ Layered

GoingBack ==
  /\ depth < maxDepth
  /\ \A d \in 0 .. depth : ~ Chain(from, to, d)
  /\ path # <<>> /\ path[1] = to
  /\ \A i \in 1 .. Len(path) : path[i] \in visited
  /\ \A i \in 1 .. (Len(path) - 1) : <<path[i], path[i + 1]>> \in edges
  /\ \E level \in [Nodes -> Nat] :
       Numbers(level) /\ level[path[Len(path)]] + Len(path) = depth + 2

Inv ==
  /\ TypeOK
  /\ Predecessors
  /\ phase = "search" => Searching
  /\ phase = "back" => GoingBack
  /\ phase = "found" => path # <<>>
  /\ PathIsReal
  /\ PathIsShortest

-----------------------------------------------------------------------------
(* What the types say of the arguments. *)
LEMMA Graph ==
  ASSUME TypeOK
  PROVE  edges \subseteq Nodes \X Nodes /\ maxDepth \in Nat /\ depth \in Nat
BY ReverseConstants DEF TypeOK

(* What is asked of the arguments stays, as they do. *)
LEMMA SameChains ==
  ASSUME UNCHANGED args
  PROVE  /\ \A m, n, d : Chain(m, n, d)' <=> Chain(m, n, d)
         /\ \A n : DirectDependents(n)' = DirectDependents(n)
BY DEF Chain, DirectDependents, args

LEMMA InitHolds ==
  ASSUME Init
  PROVE  Inv
<1>1. maxDepth \in Nat
  BY ReverseConstants DEF Init
<1>2. TypeOK
  BY <1>1 DEF Init, TypeOK
<1>3. Predecessors
  BY DEF Init, Predecessors
<1>4. ASSUME NEW m, NEW d \in 0 .. depth, Chain(from, m, d)
      PROVE  m = from
  BY <1>4, ChainOfNone DEF Init
<1>5. ASSUME phase = "search" PROVE Searching
  <2>1. from # to /\ depth < maxDepth
    BY <1>1, <1>5 DEF Init
  <2>2. Explored
    BY <1>4 DEF Init, Explored
  <2>3. Layered
    <3> DEFINE level == [n \in Nodes |-> 0]
    <3>1. level \in [Nodes -> Nat] /\ level[from] = 0
      BY DEF Init
    <3> QED
      BY <3>1 DEF Init, Layered, Numbers
  <2> QED
    BY <2>1, <2>2, <2>3 DEF Init, Searching
<1>6. phase = "found" => path = <<from>> /\ from = to
  BY DEF Init
<1>7. PathIsReal
  <2>1. ASSUME phase = "found"
        PROVE  /\ path[1] = from /\ path[Len(path)] = to
               /\ 1 .. (Len(path) - 1) = {}
    <3>1. Len(path) = 1 /\ path[1] = from /\ path[1] = to
      BY <1>6, <2>1
    <3> QED
      BY <3>1
  <2> QED
    BY <2>1, Zenon DEF PathIsReal
<1>8. PathIsShortest
  <2>1. ASSUME phase = "none", NEW d \in 0 .. maxDepth, Chain(from, to, d)
        PROVE  FALSE
    BY <1>4, <2>1 DEF Init
  <2>2. phase = "found" => Len(path) - 1 = 0
    BY <1>6
  <2> QED
    BY <1>1, <2>1, <2>2 DEF PathIsShortest
<1> QED
  BY <1>2, <1>3, <1>5, <1>6, <1>7, <1>8 DEF Init, Inv

-----------------------------------------------------------------------------
(* Expanding a node.                                                       *)

(* The newly visited nodes come one layer after the expanded one. *)
LEMMA ExpandLayers ==
  ASSUME TypeOK, Predecessors, depth \in Nat, NEW n \in frontier,
         predecessor' = Recorded(n), from' = from,
         NEW level \in [Nodes -> Nat], Numbers(level), \A m \in frontier : level[m] = depth
  PROVE  \E new \in [Nodes -> Nat] :
           /\ Numbers(new)'
           /\ \A m \in visited : new[m] = level[m]
           /\ \A m \in Unvisited(n) : new[m] = depth + 1
<1> DEFINE new == [m \in Nodes |-> IF m \in Unvisited(n) THEN depth + 1 ELSE level[m]]
<1>1. PICK num : num = new
  OBVIOUS
<1>2. new \in [Nodes -> Nat]
  OBVIOUS
<1>3. visited \subseteq Nodes /\ n \in visited /\ Unvisited(n) \subseteq Nodes
  BY DEF TypeOK, Unvisited, DirectDependents
<1>4. \A m \in visited : new[m] = level[m]
  BY <1>3 DEF Unvisited
<1>5. \A m \in Unvisited(n) : new[m] = depth + 1
  BY <1>3
<1>6. new[from] = 0
  BY <1>4 DEF Predecessors, Numbers
<1>7. ASSUME NEW m \in DOMAIN Recorded(n)
      PROVE  new[m] = new[Recorded(n)[m]] + 1
  <2>1. CASE m \in Unvisited(n)
    <3>1. Recorded(n)[m] = n
      BY <2>1 DEF Recorded
    <3> QED
      BY <1>3, <1>4, <1>5, <2>1, <3>1
  <2>2. CASE m \notin Unvisited(n)
    <3>1. m \in DOMAIN predecessor /\ Recorded(n)[m] = predecessor[m]
      BY <1>7, <2>2 DEF Recorded
    <3>2. m \in visited /\ predecessor[m] \in visited
      BY <3>1 DEF Predecessors
    <3>3. level[m] = level[predecessor[m]] + 1
      BY <3>1 DEF Numbers
    <3> QED
      BY <1>4, <3>1, <3>2, <3>3
  <2> QED
    BY <2>1, <2>2
<1> HIDE DEF new
<1>8. num[from] = 0 /\ \A m \in DOMAIN Recorded(n) : num[m] = num[Recorded(n)[m]] + 1
  BY <1>1, <1>6, <1>7
<1>9. Numbers(num)'
  BY <1>8 DEF Numbers
<1> QED
  BY <1>1, <1>2, <1>4, <1>5, <1>9

LEMMA ExpandKeeps ==
  ASSUME Inv, NEW n \in Nodes, Expand(n)
  PROVE  Inv'
<1>1. /\ phase = "search" /\ n \in frontier /\ UNCHANGED <<args, depth>>
      /\ predecessor' = Recorded(n)
      /\ frontier' = frontier \ {n}
      /\ visited' = visited \cup Unvisited(n)
  BY DEF Expand
<1>2. /\ TypeOK /\ Predecessors /\ Searching
      /\ edges \subseteq Nodes \X Nodes /\ maxDepth \in Nat /\ depth \in Nat
  BY <1>1, Graph DEF Inv
<1>3. from' = from /\ to' = to /\ edges' = edges /\ maxDepth' = maxDepth /\ depth' = depth
  BY <1>1 DEF args
<1>4. n \in visited /\ visited \subseteq Nodes /\ Unvisited(n) \subseteq Nodes
  BY <1>1, <1>2 DEF TypeOK, Unvisited, DirectDependents
<1>5. DOMAIN predecessor' = DOMAIN predecessor \cup Unvisited(n)
  BY <1>1 DEF Recorded
<1>6. ASSUME NEW m \in DOMAIN predecessor'
      PROVE  predecessor'[m] \in visited /\ <<m, predecessor'[m]>> \in edges
  <2>1. CASE m \in Unvisited(n)
    <3>1. predecessor'[m] = n
      BY <1>1, <2>1 DEF Recorded
    <3> QED
      BY <1>4, <2>1, <3>1 DEF Unvisited, DirectDependents
  <2>2. CASE m \notin Unvisited(n)
    <3>1. m \in DOMAIN predecessor /\ predecessor'[m] = predecessor[m]
      BY <1>1, <1>5, <1>6, <2>2 DEF Recorded
    <3> QED
      BY <1>2, <3>1 DEF Predecessors
  <2> QED
    BY <2>1, <2>2
<1>7. Predecessors'
  <2>1. from \in visited' /\ DOMAIN predecessor' = visited' \ {from}
    BY <1>1, <1>2, <1>5 DEF Predecessors, Unvisited
  <2>2. \A m \in DOMAIN predecessor' :
          predecessor'[m] \in visited' /\ <<m, predecessor'[m]>> \in edges
    BY <1>1, <1>6
  <2> QED
    BY <1>3, <2>1, <2>2 DEF Predecessors
<1>8. TypeOK'
  <2>1. edges' \in Graphs /\ from' \in Nodes /\ to' \in Nodes /\ maxDepth' \in MaxDepths
        /\ depth' \in 0 .. maxDepth'
    BY <1>2, <1>3 DEF TypeOK
  <2>2. visited' \subseteq Nodes /\ frontier' \subseteq visited'
    BY <1>1, <1>2, <1>4 DEF TypeOK
  <2>3. nextFrontier' \subseteq visited'
    BY <1>1, <1>2 DEF TypeOK, Expand
  <2>4. DOMAIN predecessor' \subseteq Nodes
        /\ \A m \in DOMAIN predecessor' : predecessor'[m] \in visited'
    BY <1>1, <1>2, <1>4, <1>5, <1>6 DEF TypeOK
  <2>5. phase' \in {"search", "back"}
    BY <1>1 DEF Expand
  <2>6. path' \in Seq(Nodes)
    <3>1. path \in Seq(Nodes) /\ to \in Nodes
      BY <1>2 DEF TypeOK
    <3>2. path' = <<to>> \/ <<phase', path'>> = <<phase, path>>
      BY Zenon DEF Expand
    <3>3. path' = <<to>> \/ path' = path
      BY <3>2
    <3>4. <<to>> \in Seq(Nodes)
      BY <3>1
    <3> QED
      BY <3>1, <3>3, <3>4
  <2> QED
    BY <2>1, <2>2, <2>3, <2>4, <2>5, <2>6 DEF TypeOK
<1>9. PICK level \in [Nodes -> Nat] :
        /\ Numbers(level)
        /\ \A m \in frontier : level[m] = depth
        /\ \A m \in nextFrontier : level[m] = depth + 1
  BY <1>2 DEF Searching, Layered
<1>10. PICK new \in [Nodes -> Nat] :
         /\ Numbers(new)'
         /\ \A m \in visited : new[m] = level[m]
         /\ \A m \in Unvisited(n) : new[m] = depth + 1
  BY <1>1, <1>2, <1>3, <1>9, ExpandLayers
<1>11. ASSUME phase' = "search" PROVE Searching'
  <2>1. to \notin Unvisited(n) /\ nextFrontier' = nextFrontier \cup Unvisited(n)
    BY <1>1, <1>11 DEF Expand
  <2>2. to' \notin visited' /\ depth' < maxDepth'
    BY <1>1, <1>2, <1>3, <2>1 DEF Searching
  <2>3. Explored'
    <3>1. ASSUME NEW d \in 0 .. depth, NEW m \in Nodes, Chain(from, m, d)
          PROVE  m \in visited' \ nextFrontier'
      BY <1>1, <1>2, <2>1, <3>1 DEF Searching, Explored, Unvisited
    <3>2. ASSUME NEW m \in visited' \ (frontier' \cup nextFrontier')
          PROVE  DirectDependents(m) \subseteq visited'
      <4>1. m = n \/ m \in visited \ (frontier \cup nextFrontier)
        BY <1>1, <2>1, <3>2
      <4>2. DirectDependents(n) \subseteq visited'
        BY <1>1 DEF Unvisited
      <4> QED
        BY <1>1, <1>2, <4>1, <4>2 DEF Searching, Explored
    <3> QED
      BY <1>1, <1>3, <3>1, <3>2, SameChains DEF Explored
  <2>4. Layered'
    <3>1. (\A m \in frontier' : new[m] = depth') /\ \A m \in nextFrontier' : new[m] = depth' + 1
      BY <1>1, <1>2, <1>3, <1>9, <1>10, <2>1 DEF TypeOK
    <3> QED
      BY <1>10, <3>1 DEF Layered
  <2> QED
    BY <2>2, <2>3, <2>4 DEF Searching
<1>12. ASSUME phase' = "back" PROVE GoingBack'
  <2>1. to \in Unvisited(n) /\ path' = <<to>>
    BY <1>1, <1>12 DEF Expand
  <2>2. depth' < maxDepth'
    BY <1>2, <1>3 DEF Searching
  <2>3. \A d \in 0 .. depth' : ~ Chain(from, to, d)
    BY <1>2, <1>3, <1>4, <2>1 DEF Searching, Explored
  <2>4. /\ path' # <<>> /\ path'[1] = to' /\ Len(path') = 1
        /\ \A i \in 1 .. Len(path') : path'[i] \in visited'
        /\ \A i \in 1 .. (Len(path') - 1) : <<path'[i], path'[i + 1]>> \in edges'
    BY <1>1, <1>3, <2>1
  <2>5. new[path'[Len(path')]] + Len(path') = depth' + 2
    BY <1>2, <1>3, <1>10, <2>1, <2>4
  <2> QED
    BY <1>1, <1>3, <1>10, <2>2, <2>3, <2>4, <2>5, SameChains DEF GoingBack
<1>13. phase' \in {"search", "back"}
  BY <1>1 DEF Expand
<1>14. PathIsReal' /\ PathIsShortest'
  BY <1>13 DEF PathIsReal, PathIsShortest
<1> QED
  BY <1>7, <1>8, <1>11, <1>12, <1>13, <1>14 DEF Inv

-----------------------------------------------------------------------------
(* The next layer, and the end of the search without a path.               *)

(* After a whole layer everything a chain of one more leads to is visited. *)
LEMMA LayerExplored ==
  ASSUME TypeOK, Explored, frontier = {}, depth \in Nat, edges \subseteq Nodes \X Nodes,
         NEW d \in 0 .. (depth + 1), NEW m \in Nodes, Chain(from, m, d)
  PROVE  m \in visited
<1>1. CASE d \in 0 .. depth
  BY <1>1 DEF Explored
<1>2. CASE d = depth + 1
  <2>1. PICK u \in Nodes : Chain(from, u, depth) /\ <<m, u>> \in edges
    BY <1>2, ChainEnds
  <2>2. u \in visited \ nextFrontier
    BY <2>1 DEF Explored
  <2> QED
    BY <2>1, <2>2 DEF Explored, DirectDependents
<1> QED
  BY <1>1, <1>2

LEMMA NextLayerKeeps ==
  ASSUME Inv, NextLayer
  PROVE  Inv'
<1>1. /\ phase = "search" /\ frontier = {} /\ UNCHANGED <<args, visited, predecessor, path>>
      /\ depth' = depth + 1 /\ frontier' = nextFrontier /\ nextFrontier' = {}
  BY DEF NextLayer
<1>2. /\ TypeOK /\ Predecessors /\ to \notin visited /\ depth < maxDepth /\ Explored
      /\ Layered /\ edges \subseteq Nodes \X Nodes /\ maxDepth \in Nat /\ depth \in Nat
  BY <1>1, Graph DEF Inv, Searching
<1>3. from' = from /\ to' = to /\ edges' = edges /\ maxDepth' = maxDepth
  BY <1>1 DEF args
<1>4. phase' \in {"search", "none"}
  BY <1>1 DEF NextLayer
<1>5. TypeOK'
  <2>1. depth' \in 0 .. maxDepth'
    BY <1>1, <1>2, <1>3
  <2> QED
    BY <1>1, <1>2, <1>3, <1>4, <2>1 DEF TypeOK
<1>6. Predecessors'
  BY <1>1, <1>2, <1>3 DEF Predecessors
<1>7. ASSUME NEW d \in 0 .. (depth + 1), NEW m \in Nodes, Chain(from, m, d)
      PROVE  m \in visited
  BY <1>1, <1>2, <1>7, LayerExplored
<1>8. ASSUME phase' = "search" PROVE Searching'
  <2>1. depth + 1 # maxDepth
    BY <1>1, <1>8 DEF NextLayer, LastLayer
  <2>2. depth' < maxDepth' /\ to' \notin visited'
    BY <1>1, <1>2, <1>3, <2>1
  <2>3. Explored'
    <3>1. \A m \in visited' \ (frontier' \cup nextFrontier') : DirectDependents(m) \subseteq visited'
      BY <1>1, <1>2 DEF Explored
    <3> QED
      BY <1>1, <1>3, <1>7, <3>1, SameChains DEF Explored
  <2>4. Layered'
    <3>1. PICK level \in [Nodes -> Nat] :
            Numbers(level) /\ \A m \in nextFrontier : level[m] = depth + 1
      BY <1>2 DEF Layered
    <3>2. Numbers(level)'
      BY <1>1, <1>3, <3>1 DEF Numbers
    <3> QED
      BY <1>1, <3>1, <3>2 DEF Layered
  <2> QED
    BY <2>2, <2>3, <2>4 DEF Searching
<1>9. ASSUME phase' = "none", NEW d \in 0 .. maxDepth, Chain(from, to, d)
      PROVE  FALSE
  <2>1. CASE nextFrontier = {}
    <3>1. \A u \in visited : DirectDependents(u) \subseteq visited
      BY <1>1, <1>2, <2>1 DEF Explored
    <3>2. to \in visited
      BY <1>2, <1>9, <3>1, ClosedSet DEF Predecessors
    <3> QED
      BY <1>2, <3>2
  <2>2. CASE LastLayer
    BY <1>2, <1>7, <1>9, <2>2 DEF LastLayer, TypeOK
  <2> QED
    BY <1>1, <1>9, <2>1, <2>2 DEF NextLayer
<1>10. PathIsReal' /\ PathIsShortest'
  BY <1>1, <1>3, <1>4, <1>9, SameChains DEF PathIsReal, PathIsShortest
<1> QED
  BY <1>4, <1>5, <1>6, <1>8, <1>10 DEF Inv

-----------------------------------------------------------------------------
(* The reconstruction of the path.                                         *)

(* A reversed sequence has the same elements, the other way round. *)
LEMMA ReverseOf ==
  ASSUME NEW S, NEW s \in Seq(S), s # <<>>
  PROVE  /\ Reverse(s) \in Seq(S) /\ Len(Reverse(s)) = Len(s) /\ Reverse(s) # <<>>
         /\ \A i \in 1 .. Len(s) : Reverse(s)[i] = s[Len(s) + 1 - i]
<1>1. Len(s) \in Nat \ {0} /\ DOMAIN s = 1 .. Len(s) /\ \A i \in 1 .. Len(s) : s[i] \in S
  OBVIOUS
<1>2. Reverse(s) = [i \in 1 .. Len(s) |-> s[Len(s) + 1 - i]]
  BY <1>1 DEF Reverse
<1>3. \A i \in 1 .. Len(s) : Len(s) + 1 - i \in 1 .. Len(s)
  BY <1>1
<1>4. Reverse(s) \in [1 .. Len(s) -> S]
  BY <1>1, <1>2, <1>3
<1>5. Reverse(s) \in Seq(S) /\ Len(Reverse(s)) = Len(s)
  BY <1>1, <1>4
<1> QED
  BY <1>1, <1>2, <1>5

LEMMA BackKeeps ==
  ASSUME Inv, Back
  PROVE  Inv'
<1>1. phase = "back" /\ UNCHANGED <<args, search>>
  BY DEF Back
<1>2. /\ TypeOK /\ Predecessors /\ GoingBack /\ path \in Seq(Nodes) /\ path # <<>>
      /\ edges \subseteq Nodes \X Nodes /\ maxDepth \in Nat /\ depth \in Nat
  BY <1>1, Graph DEF Inv, GoingBack, TypeOK
<1>3. /\ from' = from /\ to' = to /\ edges' = edges /\ maxDepth' = maxDepth
      /\ depth' = depth /\ visited' = visited /\ predecessor' = predecessor
      /\ frontier' = frontier /\ nextFrontier' = nextFrontier
  BY <1>1 DEF args, search
<1>4. Predecessors'
  BY <1>2, <1>3 DEF Predecessors
<1>5. PICK end : end = path[Len(path)]
  OBVIOUS
<1>l. PICK l : l = Len(path)
  OBVIOUS
<1>6. l = Len(path) /\ l \in Nat \ {0} /\ end \in visited
  <2>1. Len(path) \in Nat \ {0}
    BY <1>2
  <2> QED
    BY <1>2, <1>5, <1>l, <2>1 DEF GoingBack
<1>7. PICK level \in [Nodes -> Nat] :
        Numbers(level) /\ level[end] + Len(path) = depth + 2
  BY <1>2, <1>5 DEF GoingBack
<1>8. CASE end = from
  <2>1. phase' = "found" /\ path' = Reverse(path)
    BY <1>5, <1>8 DEF Back
  <2>2. /\ path' \in Seq(Nodes) /\ Len(path') = Len(path) /\ path' # <<>>
        /\ \A i \in 1 .. Len(path) : path'[i] = path[Len(path) + 1 - i]
    BY <1>2, <2>1, ReverseOf
  <2>3. TypeOK'
    BY <1>2, <1>3, <2>1, <2>2 DEF TypeOK
  <2>4. path'[1] = from' /\ path'[Len(path')] = to'
    <3>1. path'[1] = path[Len(path)] /\ path'[Len(path)] = path[1]
      BY <1>6, <2>2
    <3> QED
      BY <1>2, <1>3, <1>5, <1>8, <2>2, <3>1 DEF GoingBack
  <2>5. ASSUME NEW i \in 1 .. (Len(path') - 1)
        PROVE  <<path'[i + 1], path'[i]>> \in edges'
    <3>0. i \in 1 .. (l - 1) /\ l - i \in 1 .. (l - 1)
      <4>1. Len(path') = l
        BY <1>6, <2>2
      <4>2. i \in 1 .. (l - 1)
        BY <4>1
      <4> QED
        BY <1>6, <4>2
    <3>1. PICK j \in 1 .. (l - 1) : j = l - i
      BY <3>0
    <3>2. path'[i + 1] = path[j] /\ path'[i] = path[j + 1]
      BY <1>6, <2>2, <3>0, <3>1
    <3>3. <<path[j], path[j + 1]>> \in edges
      BY <1>2, <1>6, <3>1 DEF GoingBack
    <3> QED
      BY <1>3, <3>2, <3>3
  <2>6. PathIsReal'
    BY <2>4, <2>5 DEF PathIsReal
  <2>7. Len(path') - 1 = depth + 1
    BY <1>2, <1>6, <1>7, <1>8, <2>2 DEF Numbers
  <2>8. \A d \in 0 .. maxDepth' : Chain(from, to, d)' => Len(path') - 1 <= d
    <3>1. ASSUME NEW d \in 0 .. maxDepth, Chain(from, to, d)
          PROVE  depth + 1 <= d
      BY <1>2, <3>1 DEF GoingBack
    <3> QED
      BY <1>1, <1>3, <2>7, <3>1, SameChains
  <2>9. PathIsShortest'
    BY <1>2, <1>3, <2>1, <2>7, <2>8 DEF PathIsShortest, GoingBack
  <2> QED
    BY <1>4, <2>1, <2>2, <2>3, <2>6, <2>9 DEF Inv
<1>9. CASE end # from
  <2>1. PICK next : next = predecessor[end]
    OBVIOUS
  <2>2. phase' = "back" /\ path' = Append(path, next)
    BY <1>1, <1>5, <1>9, <2>1 DEF Back
  <2>3. end \in DOMAIN predecessor /\ next \in visited /\ <<end, next>> \in edges
    BY <1>2, <1>6, <1>9, <2>1 DEF Predecessors
  <2>4. next \in Nodes
    BY <1>2, <2>3 DEF TypeOK
  <2>5. /\ path' \in Seq(Nodes) /\ Len(path') = Len(path) + 1 /\ path' # <<>>
        /\ \A i \in 1 .. Len(path) : path'[i] = path[i]
        /\ path'[Len(path) + 1] = next
    BY <1>2, <2>2, <2>4
  <2>6. TypeOK'
    BY <1>2, <1>3, <2>2, <2>5 DEF TypeOK
  <2>7. path'[1] = to' /\ \A i \in 1 .. Len(path') : path'[i] \in visited'
    <3>1. Len(path') = l + 1
      BY <1>6, <2>5
    <3>2. path'[1] = to'
      BY <1>2, <1>3, <1>6, <2>5 DEF GoingBack
    <3>3. ASSUME NEW i \in 1 .. (l + 1) PROVE path'[i] \in visited
      <4>1. i \in 1 .. l \/ i = l + 1
        BY <1>6
      <4>2. \A j \in 1 .. l : path[j] \in visited
        BY <1>2, <1>6 DEF GoingBack
      <4> QED
        BY <1>6, <2>3, <2>5, <4>1, <4>2
    <3> QED
      BY <1>3, <3>1, <3>2, <3>3
  <2>8. \A i \in 1 .. (Len(path') - 1) : <<path'[i], path'[i + 1]>> \in edges'
    <3>1. Len(path') - 1 = l
      BY <1>6, <2>5
    <3>2. ASSUME NEW i \in 1 .. l PROVE <<path'[i], path'[i + 1]>> \in edges
      <4>1. CASE i \in 1 .. (l - 1)
        <5>1. i \in 1 .. l /\ i + 1 \in 1 .. l
          BY <1>6, <4>1
        <5>2. path'[i] = path[i] /\ path'[i + 1] = path[i + 1]
          BY <1>6, <2>5, <5>1
        <5>3. <<path[i], path[i + 1]>> \in edges
          BY <1>2, <1>6, <4>1 DEF GoingBack
        <5> QED
          BY <5>2, <5>3
      <4>2. CASE i = l
        <5>1. path'[i] = end /\ path'[i + 1] = next
          BY <1>5, <1>6, <2>5, <4>2
        <5> QED
          BY <2>3, <5>1
      <4> QED
        BY <1>6, <4>1, <4>2
    <3> QED
      BY <1>3, <3>1, <3>2
  <2>9. level[path'[Len(path')]] + Len(path') = depth' + 2
    <3>1. level[end] = level[next] + 1 /\ level[next] \in Nat
      BY <1>7, <2>1, <2>3, <2>4 DEF Numbers
    <3>2. Len(path') = l + 1 /\ path'[l + 1] = next
      BY <1>6, <2>5
    <3>3. level[end] + l = depth + 2
      BY <1>6, <1>7
    <3>4. level[next] + (l + 1) = depth + 2
      BY <1>2, <1>6, <3>1, <3>3
    <3> QED
      BY <1>3, <3>2, <3>4
  <2>10. Numbers(level)'
    BY <1>3, <1>7 DEF Numbers
  <2>11. depth' < maxDepth' /\ \A d \in 0 .. depth' : ~ Chain(from, to, d)'
    BY <1>1, <1>2, <1>3, SameChains DEF GoingBack
  <2>12. GoingBack'
    BY <2>5, <2>7, <2>8, <2>9, <2>10, <2>11 DEF GoingBack
  <2> QED
    BY <1>4, <2>2, <2>6, <2>12 DEF Inv, PathIsReal, PathIsShortest
<1> QED
  BY <1>8, <1>9

-----------------------------------------------------------------------------
(* The search is always where its layers say it is: the inductive          *)
(* invariant.                                                              *)
THEOREM Invariant == Spec => []Inv
<1>1. Inv /\ [Next]_vars => Inv'
  <2> SUFFICES ASSUME Inv, [Next]_vars PROVE Inv'
    OBVIOUS
  <2>1. CASE UNCHANGED vars
    <3>1. /\ UNCHANGED args /\ phase' = phase /\ path' = path /\ depth' = depth
          /\ frontier' = frontier /\ nextFrontier' = nextFrontier
          /\ visited' = visited /\ predecessor' = predecessor
          /\ edges' = edges /\ from' = from /\ to' = to /\ maxDepth' = maxDepth
      BY <2>1 DEF vars, search, args
    <3>2. TypeOK' /\ Predecessors'
      BY <3>1 DEF Inv, TypeOK, Predecessors
    <3>3. ASSUME phase = "search" PROVE Searching'
      <4>1. Explored'
        BY <3>1, <3>3, SameChains DEF Inv, Searching, Explored
      <4>2. Layered'
        BY <3>1, <3>3 DEF Inv, Searching, Layered, Numbers
      <4> QED
        BY <3>1, <3>3, <4>1, <4>2 DEF Inv, Searching
    <3>4. ASSUME phase = "back" PROVE GoingBack'
      BY <3>1, <3>4, SameChains DEF Inv, GoingBack, Numbers
    <3>5. PathIsReal'
      BY <3>1, Zenon DEF Inv, PathIsReal
    <3>6. PathIsShortest'
      BY <3>1, SameChains DEF Inv, PathIsShortest
    <3> QED
      BY <3>1, <3>2, <3>3, <3>4, <3>5, <3>6 DEF Inv
  <2> QED
    BY <2>1, ExpandKeeps, NextLayerKeeps, BackKeeps DEF Next
<1> QED
  BY <1>1, InitHolds, PTL DEF Spec

(* Every variable keeps its type: no layer goes past max_depth, and every  *)
(* predecessor has been visited (shortest_reverse_path).                   *)
THEOREM TypeCorrect == Spec => []TypeOK
<1>1. Inv => TypeOK
  BY DEF Inv
<1> QED
  BY <1>1, Invariant, PTL

(* The path _reconstruct_path returns is one of the graph, from the one    *)
(* node to the other, for every graph.                                     *)
THEOREM PathsAreReal == Spec => []PathIsReal
<1>1. Inv => PathIsReal
  BY DEF Inv
<1> QED
  BY <1>1, Invariant, PTL

(* No path is shorter and none has been missed, for every graph and every  *)
(* max_depth.                                                              *)
THEOREM PathsAreShortest == Spec => []PathIsShortest
<1>1. Inv => PathIsShortest
  BY DEF Inv
<1> QED
  BY <1>1, Invariant, PTL
=============================================================================
