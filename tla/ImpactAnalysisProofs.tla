------------------------ MODULE ImpactAnalysisProofs ------------------------
(***************************************************************************)
(* TypeOK, DepthIsReal, NothingMissed and DirectExplained for every graph, *)
(* every set of changed nodes and every depth limit.                       *)
(*                                                                         *)
(* Of the recursive query: after k iterations it has a row for a node and  *)
(* a depth up to k exactly if there is a chain of so many dependencies     *)
(* from the node to the seed, and the last rows are those of depth k       *)
(* (QueryOk).  A longer chain has a part of every smaller length, so when  *)
(* an iteration adds nothing, nothing is left.  Of the map: it is right    *)
(* about the changed nodes handled so far (MapOk).                         *)
(***************************************************************************)
EXTENDS ImpactAnalysis, FiniteSetTheorems, WellFoundedInduction, TLAPS

-----------------------------------------------------------------------------
(* Chains of dependencies.                                                 *)

(* Only the node itself is no dependency away. *)
LEMMA ChainOfNone ==
  ASSUME NEW c \in Nodes, NEW n
  PROVE  Chain(c, n, 0) <=> n = c
<1>1. ASSUME n = c PROVE Chain(c, n, 0)
  <2> DEFINE w == [i \in 0 .. 0 |-> c]
  <2>1. w \in [0 .. 0 -> Nodes] /\ w[0] = c /\ w[0] = n
    BY <1>1
  <2>2. \A i \in 0 .. (0 - 1) : DependsOn(w[i + 1], w[i])
    OBVIOUS
  <2> QED
    BY <2>1, <2>2 DEF Chain
<1> QED
  BY <1>1 DEF Chain

(* Every part of a chain from its changed end is a chain. *)
LEMMA ChainPart ==
  ASSUME NEW d \in Nat, NEW k \in 0 .. d, NEW c, NEW n, Chain(c, n, d)
  PROVE  \E u \in Nodes : Chain(c, u, k) /\ (k = d => u = n)
                          /\ (k + 1 = d => DependsOn(n, u))
<1>1. PICK w \in [0 .. d -> Nodes] :
        /\ w[0] = c /\ w[d] = n
        /\ \A i \in 0 .. (d - 1) : DependsOn(w[i + 1], w[i])
  BY DEF Chain
<1> DEFINE v == [i \in 0 .. k |-> w[i]]
<1>2. k \in Nat /\ k <= d /\ w[k] \in Nodes
  BY <1>1
<1>3. v \in [0 .. k -> Nodes] /\ v[0] = c /\ v[k] = w[k]
  BY <1>1, <1>2
<1>4. ASSUME NEW i \in 0 .. (k - 1) PROVE DependsOn(v[i + 1], v[i])
  <2>1. i \in 0 .. (d - 1) /\ v[i] = w[i] /\ v[i + 1] = w[i + 1]
    BY <1>2
  <2> QED
    BY <1>1, <2>1
<1>5. Chain(c, w[k], k)
  <2> HIDE DEF v
  <2> QED
    BY <1>3, <1>4 DEF Chain
<1>6. k + 1 = d => DependsOn(n, w[k])
  BY <1>1, <1>2
<1> QED
  BY <1>1, <1>2, <1>5, <1>6

(* A dependency makes a chain one longer. *)
LEMMA ChainGrows ==
  ASSUME NEW d \in Nat, NEW c, NEW u, Chain(c, u, d), NEW n \in Nodes, DependsOn(n, u)
  PROVE  Chain(c, n, d + 1)
<1>1. PICK w \in [0 .. d -> Nodes] :
        /\ w[0] = c /\ w[d] = u
        /\ \A i \in 0 .. (d - 1) : DependsOn(w[i + 1], w[i])
  BY DEF Chain
<1> DEFINE v == [i \in 0 .. (d + 1) |-> IF i = d + 1 THEN n ELSE w[i]]
<1>2. v \in [0 .. (d + 1) -> Nodes] /\ v[0] = c /\ v[d + 1] = n
  BY <1>1
<1>3. ASSUME NEW i \in 0 .. (d + 1 - 1) PROVE DependsOn(v[i + 1], v[i])
  <2>1. CASE i = d
    BY <1>1, <2>1
  <2>2. CASE i \in 0 .. (d - 1)
    <3>1. v[i] = w[i] /\ v[i + 1] = w[i + 1]
      BY <2>2
    <3> QED
      BY <1>1, <2>2, <3>1
  <2> QED
    BY <2>1, <2>2
<1> HIDE DEF v
<1> QED
  BY <1>2, <1>3 DEF Chain

(* What is asked of the graph stays, as it does. *)
LEMMA SameGraph ==
  ASSUME UNCHANGED input
  PROVE  /\ edges' = edges /\ changed' = changed
         /\ \A c, n, d : Chain(c, n, d)' <=> Chain(c, n, d)
         /\ \A s, d : DependsOn(s, d)' <=> DependsOn(s, d)
BY DEF Chain, DependsOn, input

-----------------------------------------------------------------------------
(* The smallest depth.                                                     *)

(* Least picks the smallest of some numbers. *)
LEMMA LeastOk ==
  ASSUME NEW T \in SUBSET Nat, T # {}
  PROVE  Least(T) \in T /\ \A y \in T : Least(T) <= y
<1> DEFINE R == OpToRel(<, Nat)
<1>1. R = {p \in Nat \X Nat : p[1] < p[2]}
  BY DEF OpToRel
<1>2. IsWellFoundedOn(R, Nat)
  BY NatLessThanWellFounded
<1> HIDE DEF R
<1>3. \E x \in T : \A y \in T : ~ (<<y, x>> \in R)
  BY <1>2, WFMin
<1>4. \A x, y \in Nat : ~ (<<y, x>> \in R) => x <= y
  BY <1>1
<1>5. \E x \in T : \A y \in T : x <= y
  BY <1>3, <1>4
<1> QED
  BY <1>5 DEF Least

(* DIRECT is what is one dependency away. *)
LEMMA DirectIsOne ==
  ASSUME TypeOK
  PROVE  InCategory("DIRECT") = {n \in Nodes : minDepth[n] = 1}
<1>1. ASSUME NEW n \in Nodes
      PROVE  minDepth[n] > 0 /\ Category(minDepth[n]) = "DIRECT" <=> minDepth[n] = 1
  <2>1. PICK d \in Nat : d = minDepth[n]
    BY ImpactConstants DEF TypeOK
  <2>2. d = 1 => Category(d) = "DIRECT"
    BY DEF Category
  <2>3. d # 1 => Category(d) # "DIRECT"
    BY <2>1 DEF Category
  <2> QED
    BY <2>1, <2>2, <2>3
<1> QED
  BY <1>1 DEF InCategory

-----------------------------------------------------------------------------
(* The inductive invariant.                                                *)

(* What the query has found after k iterations. *)
RowsUpTo(c, k) ==
  \A n \in Nodes : \A e \in 0 .. MaxDepth :
    /\ <<n, e>> \in rows <=> e <= k /\ Chain(c, n, e)
    /\ <<n, e>> \in delta <=> e = k /\ Chain(c, n, e)

QueryOk == \E c \in changed : \E k \in Nat : seed = {c} /\ RowsUpTo(c, k)

Handled == changed \ (seeds \cup seed)

MapOk ==
  /\ \A n \in Nodes : minDepth[n] > 0 =>
       n \notin changed /\ \E c \in Handled : Chain(c, n, minDepth[n])
  /\ \A n \in Nodes \ changed : \A c \in Handled : \A d \in 1 .. MaxDepth :
       Chain(c, n, d) => minDepth[n] \in 1 .. d

Explained ==
  /\ todo \subseteq InCategory("DIRECT")
  /\ {p[2] : p \in paths} = InCategory("DIRECT") \ todo
  /\ \A p \in paths : DependsOn(p[2], p[1])
  /\ \A p, q \in paths : p[2] = q[2] => p = q

Inv ==
  /\ TypeOK
  /\ seed \cap seeds = {}
  /\ phase = "query" => QueryOk
  /\ phase # "query" => seed = {}
  /\ MapOk
  /\ phase \in {"seeds", "query"} => paths = {}
  /\ phase \in {"context", "done"} => seeds = {} /\ Explained
  /\ phase = "done" => todo = {}

LEMMA InitHolds ==
  ASSUME Init
  PROVE  Inv
<1>1. MaxDepth \in Nat
  BY ImpactConstants
<1>2. TypeOK
  BY <1>1 DEF Init, TypeOK
<1>3. MapOk
  BY DEF Init, MapOk, Handled
<1> QED
  BY <1>2, <1>3 DEF Init, Inv

-----------------------------------------------------------------------------
(* One step of the analysis after the other.                               *)

LEMMA NextSeedKeeps ==
  ASSUME Inv, NEW n \in Nodes, NextSeed(n)
  PROVE  Inv'
<1>1. /\ phase = "seeds" /\ n \in seeds /\ seeds' = seeds \ {n} /\ seed' = {n}
      /\ rows' = {<<n, 0>>} /\ delta' = {<<n, 0>>} /\ phase' = "query"
      /\ UNCHANGED input
      /\ minDepth' = minDepth /\ todo' = todo /\ paths' = paths /\ tests' = tests
  BY DEF NextSeed
<1>2. TypeOK /\ seed = {} /\ MapOk /\ paths = {} /\ MaxDepth \in Nat /\ n \in changed
  BY <1>1, ImpactConstants DEF Inv, TypeOK
<1>3. edges' = edges /\ changed' = changed
  BY <1>1, SameGraph
<1>4. TypeOK'
  <2>1. {<<n, 0>>} \subseteq Nodes \X (0 .. MaxDepth)
    BY <1>2
  <2> QED
    BY <1>1, <1>2, <1>3, <2>1 DEF TypeOK
<1>5. QueryOk'
  <2>1. \A m \in Nodes : \A e \in 0 .. MaxDepth :
          /\ <<m, e>> \in rows' <=> e <= 0 /\ Chain(n, m, e)'
          /\ <<m, e>> \in delta' <=> e = 0 /\ Chain(n, m, e)'
    <3>1. \A m : Chain(n, m, 0)' <=> m = n
      BY <1>1, ChainOfNone, SameGraph
    <3> QED
      BY <1>1, <1>2, <3>1
  <2> QED
    BY <1>1, <1>2, <1>3, <2>1 DEF QueryOk, RowsUpTo
<1>6. MapOk'
  <2>1. Handled' = Handled
    BY <1>1, <1>2, <1>3 DEF Handled
  <2> QED
    BY <1>1, <1>2, <1>3, <2>1, SameGraph DEF MapOk
<1> QED
  BY <1>1, <1>2, <1>4, <1>5, <1>6 DEF Inv

LEMMA RecurseKeeps ==
  ASSUME Inv, Recurse
  PROVE  Inv'
<1>1. /\ phase = "query" /\ rows' = rows \cup NextRows /\ delta' = NextRows
      /\ UNCHANGED input /\ phase' = phase /\ seeds' = seeds /\ seed' = seed
      /\ minDepth' = minDepth /\ todo' = todo /\ paths' = paths /\ tests' = tests
  BY DEF Recurse
<1>2. TypeOK /\ MapOk /\ MaxDepth \in Nat
  BY ImpactConstants DEF Inv
<1>3. edges' = edges /\ changed' = changed
  BY <1>1, SameGraph
<1>4. TypeOK'
  BY <1>1, <1>2, <1>3 DEF TypeOK, NextRows
<1>5. PICK c \in changed, k \in Nat : seed = {c} /\ RowsUpTo(c, k)
  BY <1>1 DEF Inv, QueryOk
<1>6. ASSUME NEW m \in Nodes, NEW e \in 0 .. MaxDepth
      PROVE  <<m, e>> \in NextRows <=> e = k + 1 /\ Chain(c, m, e)
  <2>1. ASSUME <<m, e>> \in NextRows PROVE e = k + 1 /\ Chain(c, m, e)
    <3>1. PICK q \in delta : q[2] < MaxDepth /\ DependsOn(m, q[1]) /\ e = q[2] + 1
      BY <2>1 DEF NextRows
    <3>2. PICK u \in Nodes, j \in 0 .. MaxDepth : q = <<u, j>>
      BY <1>2 DEF TypeOK
    <3>3. j = k /\ Chain(c, u, k)
      BY <1>5, <3>1, <3>2 DEF RowsUpTo
    <3> QED
      BY <3>1, <3>2, <3>3, ChainGrows
  <2>2. ASSUME e = k + 1, Chain(c, m, e) PROVE <<m, e>> \in NextRows
    <3>1. PICK u \in Nodes : Chain(c, u, k) /\ DependsOn(m, u)
      <4>1. e \in Nat /\ k \in 0 .. e
        BY <1>2, <2>2
      <4> QED
        BY <2>2, <4>1, ChainPart
    <3>2. k \in 0 .. MaxDepth /\ k < MaxDepth
      BY <1>2, <2>2
    <3>3. <<u, k>> \in delta
      BY <1>5, <3>1, <3>2 DEF RowsUpTo
    <3>4. <<u, k>>[1] = u /\ <<u, k>>[2] = k /\ <<m, e>>[1] = m /\ <<m, e>>[2] = e
      OBVIOUS
    <3> QED
      BY <2>2, <3>1, <3>2, <3>3, <3>4 DEF NextRows
  <2> QED
    BY <2>1, <2>2
<1>7. QueryOk'
  <2>1. ASSUME NEW m \in Nodes, NEW e \in 0 .. MaxDepth
        PROVE  /\ <<m, e>> \in rows' <=> e <= k + 1 /\ Chain(c, m, e)
               /\ <<m, e>> \in delta' <=> e = k + 1 /\ Chain(c, m, e)
    <3>1. <<m, e>> \in rows <=> e <= k /\ Chain(c, m, e)
      BY <1>5 DEF RowsUpTo
    <3>2. e <= k + 1 <=> e <= k \/ e = k + 1
      BY <1>2
    <3> QED
      BY <1>1, <1>6, <3>1, <3>2
  <2>2. RowsUpTo(c, k + 1)'
    BY <1>1, <2>1, SameGraph DEF RowsUpTo
  <2> QED
    BY <1>1, <1>3, <1>5, <2>2 DEF QueryOk
<1>8. MapOk'
  BY <1>1, <1>2, <1>3, SameGraph DEF MapOk, Handled
<1> QED
  BY <1>1, <1>4, <1>7, <1>8 DEF Inv

(* When an iteration has added nothing, the rows are all the chains there  *)
(* are up to MaxDepth.                                                     *)
LEMMA QueryComplete ==
  ASSUME TypeOK, NEW c, NEW k \in Nat, RowsUpTo(c, k), delta = {}
  PROVE  \A n \in Nodes : \A e \in 0 .. MaxDepth : <<n, e>> \in rows <=> Chain(c, n, e)
<1>1. MaxDepth \in Nat
  BY ImpactConstants
<1>2. SUFFICES ASSUME NEW n \in Nodes, NEW e \in 0 .. MaxDepth, Chain(c, n, e) PROVE e <= k
  BY DEF RowsUpTo
<1>3. SUFFICES ASSUME k < e PROVE FALSE
  BY <1>1
<1>4. e \in Nat /\ k \in 0 .. e /\ k \in 0 .. MaxDepth
  BY <1>1, <1>3
<1>5. PICK u \in Nodes : Chain(c, u, k)
  BY <1>2, <1>4, ChainPart
<1>6. <<u, k>> \in delta
  BY <1>4, <1>5 DEF RowsUpTo
<1> QED
  BY <1>6

(* The depth merged for a node is that of a real chain, from this changed  *)
(* node or from an earlier one, and no larger than that of any.            *)
LEMMA MergedIsLeast ==
  ASSUME TypeOK, NEW c, NEW n \in Nodes,
         \A e \in 0 .. MaxDepth : <<n, e>> \in rows <=> Chain(c, n, e)
  PROVE  /\ MergedDepth(n) \in 0 .. MaxDepth
         /\ MergedDepth(n) > 0 =>
              \/ MergedDepth(n) = minDepth[n]
              \/ n \notin changed /\ Chain(c, n, MergedDepth(n))
         /\ minDepth[n] > 0 => MergedDepth(n) \in 1 .. minDepth[n]
         /\ n \notin changed =>
              \A d \in 1 .. MaxDepth : Chain(c, n, d) => MergedDepth(n) \in 1 .. d
<1>1. MaxDepth \in Nat /\ minDepth[n] \in 0 .. MaxDepth
  BY ImpactConstants DEF TypeOK
<1>2. DepthsOf(n) = {e \in 1 .. MaxDepth : Chain(c, n, e)}
  <2>1. ASSUME NEW e \in DepthsOf(n) PROVE e \in 1 .. MaxDepth /\ Chain(c, n, e)
    <3>1. PICK q \in rows : q[1] = n /\ q[2] > 0 /\ e = q[2]
      BY <2>1 DEF DepthsOf
    <3>2. q = <<n, e>> /\ e \in 0 .. MaxDepth
      BY <3>1 DEF TypeOK
    <3> QED
      BY <1>1, <3>1, <3>2
  <2>2. ASSUME NEW e \in 1 .. MaxDepth, Chain(c, n, e) PROVE e \in DepthsOf(n)
    <3>1. e \in 0 .. MaxDepth /\ <<n, e>> \in rows
      BY <1>1, <2>2
    <3>2. <<n, e>>[1] = n /\ <<n, e>>[2] = e /\ e > 0
      BY <2>2
    <3> QED
      BY <3>1, <3>2 DEF DepthsOf
  <2> QED
    BY <2>1, <2>2
<1>3. CASE n \in changed \/ DepthsOf(n) = {}
  <2>1. MergedDepth(n) = minDepth[n]
    BY <1>3 DEF MergedDepth
  <2> QED
    BY <1>1, <1>2, <1>3, <2>1
<1>4. CASE n \notin changed /\ DepthsOf(n) # {}
  <2>1. PICK l : l = Least(DepthsOf(n))
    OBVIOUS
  <2>2. l \in DepthsOf(n) /\ \A e \in DepthsOf(n) : l <= e
    <3>1. DepthsOf(n) \in SUBSET Nat
      BY <1>2
    <3> QED
      BY <1>4, <2>1, <3>1, LeastOk
  <2>3. l \in 1 .. MaxDepth /\ Chain(c, n, l)
    BY <1>2, <2>2
  <2>4. PICK old \in 0 .. MaxDepth : old = minDepth[n]
    BY <1>1
  <2>5. PICK new : new = MergedDepth(n)
    OBVIOUS
  <2>6. new = IF old = 0 \/ l < old THEN l ELSE old
    BY <1>4, <2>1, <2>4, <2>5 DEF MergedDepth, Smaller
  <2>7. new \in 1 .. MaxDepth /\ new <= l /\ (old > 0 => new <= old)
    BY <1>1, <2>3, <2>4, <2>6
  <2>8. \A d \in 1 .. MaxDepth : Chain(c, n, d) => new \in 1 .. d
    BY <1>1, <1>2, <2>2, <2>3, <2>7
  <2>9. new = old \/ (n \notin changed /\ Chain(c, n, new))
    BY <1>4, <2>3, <2>6
  <2>10. old > 0 => new \in 1 .. old
    BY <2>4, <2>7
  <2> QED
    BY <1>1, <2>4, <2>5, <2>7, <2>8, <2>9, <2>10
<1> QED
  BY <1>3, <1>4

LEMMA MergeKeeps ==
  ASSUME Inv, Merge
  PROVE  Inv'
<1>1. /\ phase = "query" /\ delta = {} /\ seed' = {} /\ rows' = {} /\ phase' = "seeds"
      /\ minDepth' = [n \in Nodes |-> MergedDepth(n)]
      /\ UNCHANGED input /\ seeds' = seeds /\ delta' = delta
      /\ todo' = todo /\ paths' = paths /\ tests' = tests
  BY DEF Merge
<1>2. TypeOK /\ MapOk /\ MaxDepth \in Nat /\ seed \cap seeds = {} /\ paths = {}
  BY <1>1, ImpactConstants DEF Inv
<1>3. edges' = edges /\ changed' = changed
  BY <1>1, SameGraph
<1>4. PICK c \in changed, k \in Nat : seed = {c} /\ RowsUpTo(c, k)
  BY <1>1 DEF Inv, QueryOk
<1>5. \A n \in Nodes : \A e \in 0 .. MaxDepth : <<n, e>> \in rows <=> Chain(c, n, e)
  BY <1>1, <1>2, <1>4, QueryComplete
<1>6. \A n \in Nodes :
        /\ minDepth'[n] \in 0 .. MaxDepth
        /\ minDepth'[n] > 0 =>
             \/ minDepth'[n] = minDepth[n]
             \/ n \notin changed /\ Chain(c, n, minDepth'[n])
        /\ minDepth[n] > 0 => minDepth'[n] \in 1 .. minDepth[n]
        /\ n \notin changed =>
             \A d \in 1 .. MaxDepth : Chain(c, n, d) => minDepth'[n] \in 1 .. d
  <2>1. \A n \in Nodes : minDepth'[n] = MergedDepth(n)
    BY <1>1
  <2> QED
    BY <1>2, <1>5, <2>1, MergedIsLeast
<1>7. TypeOK'
  <2>1. minDepth' \in [Nodes -> 0 .. MaxDepth]
    BY <1>1, <1>6
  <2> QED
    BY <1>1, <1>2, <1>3, <2>1 DEF TypeOK
<1>8. Handled' = Handled \cup {c} /\ c \in Handled' /\ Handled \subseteq Handled'
  BY <1>1, <1>2, <1>3, <1>4 DEF Handled
<1>9. MapOk'
  <2>1. ASSUME NEW n \in Nodes, minDepth'[n] > 0
        PROVE  n \notin changed /\ \E b \in Handled' : Chain(b, n, minDepth'[n])
    <3>1. CASE minDepth'[n] = minDepth[n]
      BY <1>2, <1>8, <2>1, <3>1 DEF MapOk
    <3>2. CASE n \notin changed /\ Chain(c, n, minDepth'[n])
      BY <1>8, <3>2
    <3> QED
      BY <1>6, <2>1, <3>1, <3>2
  <2>2. ASSUME NEW n \in Nodes \ changed, NEW b \in Handled', NEW d \in 1 .. MaxDepth,
               Chain(b, n, d)
        PROVE  minDepth'[n] \in 1 .. d
    <3>1. CASE b = c
      BY <1>6, <2>2, <3>1
    <3>2. CASE b \in Handled
      <4>1. PICK new, old : new = minDepth'[n] /\ old = minDepth[n]
        OBVIOUS
      <4>2. old \in 1 .. d
        BY <1>2, <2>2, <3>2, <4>1 DEF MapOk
      <4>3. new \in 1 .. old
        BY <1>6, <4>1, <4>2
      <4>4. new \in 1 .. d
        BY <4>2, <4>3
      <4> QED
        BY <4>1, <4>4
    <3> QED
      BY <1>8, <2>2, <3>1, <3>2
  <2> QED
    BY <1>1, <1>3, <2>1, <2>2, SameGraph DEF MapOk
<1> QED
  BY <1>1, <1>2, <1>7, <1>9 DEF Inv

(* The rest only reads the map. *)
LEMMA SameMap ==
  ASSUME Inv, UNCHANGED <<input, seeds, query, minDepth>>
  PROVE  /\ edges' = edges /\ changed' = changed /\ seeds' = seeds
         /\ seed' = seed /\ rows' = rows /\ delta' = delta /\ minDepth' = minDepth
         /\ MapOk' /\ InCategory("DIRECT")' = InCategory("DIRECT")
         /\ \A s, d : DependsOn(s, d)' <=> DependsOn(s, d)
<1>1. /\ edges' = edges /\ changed' = changed /\ seeds' = seeds /\ UNCHANGED input
      /\ seed' = seed /\ rows' = rows /\ delta' = delta /\ minDepth' = minDepth
  BY DEF input, query
<1>2. MapOk'
  BY <1>1, SameGraph DEF Inv, MapOk, Handled
<1>3. InCategory("DIRECT")' = InCategory("DIRECT")
  BY <1>1 DEF InCategory
<1> QED
  BY <1>1, <1>2, <1>3, SameGraph

LEMMA CategorizeKeeps ==
  ASSUME Inv, Categorize
  PROVE  Inv'
<1>1. /\ phase = "seeds" /\ seeds = {} /\ todo' = InCategory("DIRECT") /\ phase' = "context"
      /\ UNCHANGED <<input, seeds, query, minDepth>> /\ paths' = paths /\ tests' = tests
      /\ TypeOK /\ seed = {} /\ paths = {}
  BY DEF Categorize, Inv
<1>2. InCategory("DIRECT") \subseteq Nodes \ changed
  BY <1>1 DEF InCategory, Inv, MapOk
<1>3. TypeOK'
  BY <1>1, <1>2, SameMap DEF TypeOK
<1>4. Explained'
  BY <1>1, SameMap DEF Explained
<1> QED
  BY <1>1, <1>3, <1>4, SameMap DEF Inv

LEMMA GraphPathKeeps ==
  ASSUME Inv, NEW n \in Nodes, GraphPath(n)
  PROVE  Inv'
<1>1. /\ phase = "context" /\ n \in todo /\ todo' = todo \ {n} /\ phase' = phase
      /\ UNCHANGED <<input, seeds, query, minDepth>> /\ tests' = tests
      /\ TypeOK /\ Explained /\ seeds = {} /\ seed = {}
  BY DEF GraphPath, Inv
<1>2. minDepth[n] = 1 /\ n \in InCategory("DIRECT")
  BY <1>1, DirectIsOne DEF Explained
<1>3. PICK c \in changed : DependsOn(n, c)
  <2>1. PICK b \in changed : Chain(b, n, 1)
    BY <1>2 DEF Inv, MapOk, Handled
  <2>2. DependsOn(n, b)
    BY <2>1 DEF Chain
  <2> QED
    BY <2>2
<1>4. PICK b \in changed : DependsOn(n, b) /\ paths' = paths \cup {<<b, n>>}
  <2>1. OneHop(c, n)
    BY <1>3 DEF OneHop, DirectDependents
  <2>2. PICK b \in changed : OneHop(b, n) /\ paths' = paths \cup {<<b, n>>}
    BY <1>3, <2>1 DEF GraphPath
  <2> QED
    BY <2>2 DEF OneHop, DirectDependents
<1>5. TypeOK'
  <2>1. n \in Nodes \ changed
    BY <1>1 DEF TypeOK
  <2> QED
    BY <1>1, <1>4, <2>1, SameMap DEF TypeOK
<1>6. Explained'
  <2>1. <<b, n>>[1] = b /\ <<b, n>>[2] = n
    OBVIOUS
  <2>2. {p[2] : p \in paths'} = {p[2] : p \in paths} \cup {n}
    BY <1>4, <2>1
  <2>3. {p[2] : p \in paths'} = InCategory("DIRECT") \ todo'
    BY <1>1, <1>2, <2>2 DEF Explained
  <2>4. \A p \in paths' : DependsOn(p[2], p[1])
    BY <1>1, <1>4, <2>1 DEF Explained
  <2>5. \A p \in paths : p[2] # n
    BY <1>1 DEF Explained
  <2>6. \A p, q \in paths' : p[2] = q[2] => p = q
    BY <1>1, <1>4, <2>1, <2>5 DEF Explained
  <2> QED
    BY <1>1, <2>3, <2>4, <2>6, SameMap DEF Explained
<1> QED
  BY <1>1, <1>5, <1>6, SameMap DEF Inv

LEMMA RelevantTestsKeeps ==
  ASSUME Inv, RelevantTests
  PROVE  Inv'
<1>1. /\ phase = "context" /\ todo = {} /\ phase' = "done"
      /\ tests' = UNION {TestsOf(n) : n \in changed \cup InCategory("DIRECT")}
      /\ UNCHANGED <<input, seeds, query, minDepth>> /\ todo' = todo /\ paths' = paths
      /\ TypeOK /\ Explained /\ seeds = {} /\ seed = {}
  BY DEF RelevantTests, Inv
<1>2. TypeOK'
  <2>1. \A n : TestsOf(n) \subseteq Nodes
    BY <1>1, ImpactConstants DEF TestsOf, TypeOK
  <2>2. tests' \subseteq Nodes
    BY <1>1, <2>1
  <2> QED
    BY <1>1, <2>2, SameMap DEF TypeOK
<1>3. Explained'
  BY <1>1, SameMap DEF Explained
<1> QED
  BY <1>1, <1>2, <1>3, SameMap DEF Inv

-----------------------------------------------------------------------------
(* The query, the map and the context agree with the chains of the graph:  *)
(* the inductive invariant.                                                *)
THEOREM Invariant == Spec => []Inv
<1>1. Inv /\ [Next]_vars => Inv'
  <2> SUFFICES ASSUME Inv, [Next]_vars PROVE Inv'
    OBVIOUS
  <2>1. CASE UNCHANGED vars
    <3>1. /\ UNCHANGED <<input, seeds, query, minDepth>> /\ phase' = phase
          /\ todo' = todo /\ paths' = paths /\ tests' = tests /\ UNCHANGED input
      BY <2>1 DEF vars
    <3>2. TypeOK'
      BY <3>1, SameMap DEF Inv, TypeOK
    <3>3. ASSUME phase = "query" PROVE QueryOk'
      BY <3>1, <3>3, SameMap, SameGraph DEF Inv, QueryOk, RowsUpTo
    <3>4. ASSUME phase \in {"context", "done"} PROVE Explained'
      BY <3>1, <3>4, SameMap DEF Inv, Explained
    <3> QED
      BY <3>1, <3>2, <3>3, <3>4, SameMap DEF Inv
  <2> QED
    BY <2>1, NextSeedKeeps, RecurseKeeps, MergeKeeps, CategorizeKeeps, GraphPathKeeps,
       RelevantTestsKeeps DEF Next
<1> QED
  BY <1>1, InitHolds, PTL DEF Spec

(* Every variable keeps its type: no depth is above MaxDepth, and nothing  *)
(* that changed is reported as affected (ImpactAnalyzer).                  *)
THEOREM TypeCorrect == Spec => []TypeOK
<1>1. Inv => TypeOK
  BY DEF Inv
<1> QED
  BY <1>1, Invariant, PTL

(* Every reported depth is that of a real chain of dependencies, for every *)
(* graph and every set of changed nodes.                                   *)
THEOREM DepthsAreReal == Spec => []DepthIsReal
<1>1. Inv => DepthIsReal
  BY DEF Inv, MapOk, Handled, DepthIsReal
<1> QED
  BY <1>1, Invariant, PTL

(* No affected node is missed, or reported as farther than it is, for      *)
(* every graph, every set of changed nodes and every MaxDepth.             *)
THEOREM NothingIsMissed == Spec => []NothingMissed
<1>1. Inv => NothingMissed
  BY DEF Inv, MapOk, Handled, Analyzed, NothingMissed
<1> QED
  BY <1>1, Invariant, PTL

(* The context explains each DIRECT node by exactly one real edge.         *)
THEOREM DirectIsExplained == Spec => []DirectExplained
<1>1. ASSUME Inv, phase = "done"
      PROVE  /\ {p[2] : p \in paths} = InCategory("DIRECT")
             /\ Cardinality(paths) = Cardinality(InCategory("DIRECT"))
             /\ \A p \in paths : DependsOn(p[2], p[1])
  <2>1. Explained /\ todo = {}
    BY <1>1 DEF Inv
  <2>2. {p[2] : p \in paths} = InCategory("DIRECT")
    BY <2>1 DEF Explained
  <2>3. IsFiniteSet(InCategory("DIRECT"))
    BY ImpactConstants, FS_Subset DEF InCategory
  <2>4. ExistsBijection(InCategory("DIRECT"), paths)
    <3> DEFINE F == [n \in InCategory("DIRECT") |-> CHOOSE p \in paths : p[2] = n]
    <3>1. \A n \in InCategory("DIRECT") : F[n] \in paths /\ F[n][2] = n
      BY <2>2
    <3>2. \A p \in paths : p[2] \in InCategory("DIRECT") /\ F[p[2]] = p
      BY <2>1, <2>2, <3>1 DEF Explained
    <3>3. F \in [InCategory("DIRECT") -> paths]
      BY <3>1
    <3> HIDE DEF F
    <3>4. F \in Bijection(InCategory("DIRECT"), paths)
      BY <3>1, <3>2, <3>3 DEF Bijection, Injection, Surjection, IsInjective
    <3> QED
      BY <3>4 DEF ExistsBijection
  <2>5. Cardinality(paths) = Cardinality(InCategory("DIRECT"))
    BY <2>3, <2>4, FS_Bijection
  <2> QED
    BY <2>1, <2>2, <2>5 DEF Explained
<1>2. Inv => DirectExplained
  BY <1>1 DEF DirectExplained
<1> QED
  BY <1>2, Invariant, PTL
=============================================================================
