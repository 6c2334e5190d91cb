------------------------- MODULE AnalysisStoreProofs -------------------------
(***************************************************************************)
(* The safety of AnalysisStore for every set of processes and files, every *)
(* number of analyses and every number of deaths.                          *)
(*                                                                         *)
(* None of the properties is inductive alone: that the rows of a finished  *)
(* snapshot are whole depends on how far its analyze had got when it left  *)
(* each pass, that nobody else wrote meanwhile depends on the lock, and    *)
(* that two analyses never write the same rows depends on the ids; and     *)
(* that of several definitions with one id the first file's is stored, on  *)
(* the order in which the files are taken.  IInv says all of that.  It     *)
(* also carries the refinement of SnapshotRegister, at the end.            *)
(***************************************************************************)
EXTENDS AnalysisStore, FiniteSetTheorems, WellFoundedInduction, TLAPS

(* Who has the database open. *)
LockInv == \A p \in Procs : pc[p] \in Holding <=> lock = p

(* An id is handed out once; its row is inserted by the analyze that got it. *)
Unstored  == {"scan", "connect", "retire", "insert"}
Analyzing == Unstored \cup Building

IdInv ==
  /\ \A s \in snapshots : s <= clock
  /\ \A p \in Procs :
       /\ pc[p] \in Analyzing => snap[p] \in 1..clock
       /\ pc[p] \in Unstored  => snap[p] \notin snapshots
       /\ pc[p] \in Building  => snap[p] \in snapshots
       /\ pc[p] = "rows"      => snap[p] \in snapshots
  /\ \A p, q \in Procs :
       p # q /\ pc[p] \in Analyzing /\ pc[q] \in Analyzing => snap[p] # snap[q]

(* What is current: at most one, none while it is replaced, then the new one. *)
CurrentInv ==
  /\ OneCurrent
  /\ \A p \in Procs :
       /\ pc[p] = "insert"   => current = {}
       /\ pc[p] \in Building \cup {"rows"} => snap[p] \in current
  /\ snapshots # {} /\ failures = 0 => current # {} \/ \E p \in Procs : pc[p] = "insert"

(* How far an analyze has got with its rows. *)
ContainsIn(s, F) == UNION {ContainsEdges(s, f) : f \in F}

ResolvedIn(s, F) == UNION {ResolvedEdges(s, f) : f \in F}

(* What is left of a pass comes after what is done. *)
Behind(s, T) == \A f \in Scanned(s) \ T, g \in T : Place[f] < Place[g]

ProgressOf(p, s) ==
  /\ pc[p] \in {"nodes", "resolve"} => todo[p] \subseteq Scanned(s)
  /\ pc[p] = "nodes" =>
       /\ Behind(s, todo[p])
       /\ nodes[s] = RowsFrom(s, Scanned(s) \ todo[p])
       /\ edges[s] = ContainsIn(s, Scanned(s) \ todo[p])
  /\ pc[p] = "resolve" =>
       /\ nodes[s] = RowsFrom(s, Scanned(s))
       /\ edges[s] = ContainsIn(s, Scanned(s)) \cup ResolvedIn(s, Scanned(s) \ todo[p])
  /\ pc[p] = "tests" =>
       /\ nodes[s] = RowsFrom(s, Scanned(s))
       /\ edges[s] = ContainsIn(s, Scanned(s)) \cup ResolvedIn(s, Scanned(s))

ProgressInv == \A p \in Procs, s \in Snaps : snap[p] = s => ProgressOf(p, s)

(* Every row of a snapshot, finished or not, is one its analyze planned,   *)
(* and there is no edge before its ends are there.                         *)
RowsOf(s) ==
  /\ s \notin snapshots => nodes[s] = NoRows /\ edges[s] = {}
  /\ \A i \in Nodes : nodes[s][i] \in {None, RowsFrom(s, Scanned(s))[i]}
  /\ edges[s] \subseteq PlannedEdges(s)
  /\ Referenced(s, edges[s])

RowsInv == \A s \in Snaps : RowsOf(s)

(* What a reader holds is what is stored. *)
ReplyInv ==
  \A p \in Procs :
    reply[p] # None =>
      /\ pc[p] = "close"
      /\ reply[p].snap \in snapshots
      /\ reply[p].graph = Stored(reply[p].snap)

(* A database file without its repository row. *)
InitInv ==
  /\ lock # None => dbExists
  /\ (\E p \in Procs : pc[p] \in {"scan", "connect"}) => dbExists
  /\ dbExists /\ ~repoRow => failures > 0 \/ \E p \in Procs : pc[p] = "upsert"
  /\ ~repoRow => snapshots = {}

IInv ==
  /\ TypeOK /\ LockInv /\ IdInv /\ CurrentInv /\ ProgressInv /\ RowsInv
  /\ CompleteUnlessFailed /\ ReplyInv /\ InitInv

-----------------------------------------------------------------------------
(* The first of some files, in path order.                                 *)

LEMMA Places ==
  /\ \A f \in Files : Place[f] \in Nat
  /\ \A f, g \in Files : Place[f] = Place[g] => f = g
<1>1. Place \in [Files -> Nat] /\ \A f, g \in Files : Place[f] = Place[g] => f = g
  BY ConstantsOK
<1> QED
  BY <1>1

LEMMA LeastNatural ==
  ASSUME NEW B \in SUBSET Nat, B # {}
  PROVE  \E m \in B : \A k \in B : m <= k
<1> DEFINE R == OpToRel(<, Nat)
<1>1. R = {p \in Nat \X Nat : p[1] < p[2]}
  BY DEF OpToRel
<1>2. IsWellFoundedOn(R, Nat)
  BY NatLessThanWellFounded
<1> HIDE DEF R
<1>3. PICK m \in B : \A k \in B : ~(<<k, m>> \in R)
  BY <1>2, WFMin
<1>4. \A x, y \in Nat : ~(<<y, x>> \in R) => x <= y
  BY <1>1
<1> QED
  BY <1>3, <1>4

LEMMA FirstOf ==
  ASSUME NEW F \in SUBSET Files, F # {}
  PROVE  First(F) \in F /\ \A g \in F : Place[First(F)] <= Place[g]
<1> DEFINE places == {Place[f] : f \in F}
<1>2. places \in SUBSET Nat /\ places # {}
  BY Places
<1>3. PICK n \in places : \A m \in places : n <= m
  BY <1>2, LeastNatural
<1>4. PICK f \in F : Place[f] = n
  BY <1>3
<1>5. \A g \in F : Place[f] <= Place[g]
  BY <1>3, <1>4
<1> QED
  BY <1>5 DEF First

LEMMA FirstIs ==
  ASSUME NEW F \in SUBSET Files, NEW f \in F, \A g \in F : Place[f] <= Place[g]
  PROVE  First(F) = f
<1>1. First(F) \in F /\ Place[First(F)] <= Place[f] /\ Place[f] <= Place[First(F)]
  BY FirstOf
<1>2. First(F) \in Files /\ f \in Files
  BY <1>1
<1>3. Place[First(F)] = Place[f]
  BY <1>1, <1>2, Places
<1> QED
  BY <1>2, <1>3, Places

(* The bounds, and finitely many files. *)
LEMMA Sizes == FileCap \in Nat /\ MaxSnapshots \in Nat /\ IsFiniteSet(Files)
BY ConstantsOK

-----------------------------------------------------------------------------
(* What insert_nodes leaves behind.                                        *)

LEMMA NodesOfFile ==
  ASSUME TypeOK, NEW s \in Snaps, NEW f \in Files
  PROVE  /\ NodesOf(s, f) \subseteq Nodes
         /\ \A e \in Found(s, f).contains :
              e \in Nodes \X Symbols /\ e[1] \in NodesOf(s, f) /\ e[2] \in NodesOf(s, f)
<1>1. scan[s][f] \in Versions
  BY DEF TypeOK
<1>2. /\ Found(s, f).contains \subseteq Nodes \X Symbols
      /\ \A e \in Found(s, f).contains :
           e[1] = f \/ \E d \in Found(s, f).contains : d[2] = e[1]
  BY <1>1, ConstantsOK DEF Found
<1>3. \A e \in Found(s, f).contains : e[2] \in Nodes /\ e[2] \in NodesOf(s, f)
  BY <1>2 DEF NodesOf, Nodes
<1>4. \A e \in Found(s, f).contains : e[1] \in NodesOf(s, f)
  BY <1>2 DEF NodesOf
<1> QED
  BY <1>2, <1>3, <1>4 DEF NodesOf, Nodes

(* An id has a row when one of the files defines it. *)
LEMMA RowsHave ==
  ASSUME TypeOK, NEW s \in Snaps, NEW F \in SUBSET Files
  PROVE  /\ RowsFrom(s, F) \in [Nodes -> Rows \cup {None}]
         /\ \A i \in Nodes : RowsFrom(s, F)[i] # None <=> Definers(s, F, i) # {}
<1> SUFFICES ASSUME NEW i \in Nodes
             PROVE  /\ RowsFrom(s, F)[i] \in Rows \cup {None}
                    /\ RowsFrom(s, F)[i] # None <=> Definers(s, F, i) # {}
  BY DEF RowsFrom
<1>1. CASE Definers(s, F, i) = {}
  BY <1>1 DEF RowsFrom
<1>2. CASE Definers(s, F, i) # {}
  <2>1. First(Definers(s, F, i)) \in Files
    BY <1>2, FirstOf DEF Definers
  <2>2. RowsFrom(s, F)[i] = RowOf(s, First(Definers(s, F, i)))
    BY <1>2 DEF RowsFrom
  <2>3. RowsFrom(s, F)[i] \in Rows
    BY <2>1, <2>2 DEF RowOf, Rows, TypeOK
  <2>4. None \notin Rows
    BY ConstantsOK
  <2> QED
    BY <1>2, <2>3, <2>4
<1> QED
  BY <1>1, <1>2

(* Inserting the nodes of a file that comes after those already inserted.  *)
LEMMA RowsGrow ==
  ASSUME TypeOK, NEW s \in Snaps, NEW F \in SUBSET Files, NEW f \in Files,
         \A g \in F : Place[g] < Place[f]
  PROVE  RowsFrom(s, F \cup {f}) =
           [i \in Nodes |-> IF i \in NodesOf(s, f) /\ RowsFrom(s, F)[i] = None
                            THEN RowOf(s, f) ELSE RowsFrom(s, F)[i]]
<1> SUFFICES ASSUME NEW i \in Nodes
             PROVE  RowsFrom(s, F \cup {f})[i] =
                      IF i \in NodesOf(s, f) /\ RowsFrom(s, F)[i] = None
                      THEN RowOf(s, f) ELSE RowsFrom(s, F)[i]
  BY DEF RowsFrom
<1> DEFINE D == Definers(s, F, i)
           E == Definers(s, F \cup {f}, i)
<1>1. D \in SUBSET Files /\ E \in SUBSET Files /\ \A g \in D : Place[g] < Place[f]
  BY DEF Definers
<1>2. RowsFrom(s, F)[i] # None <=> D # {}
  BY RowsHave
<1>3. CASE i \notin NodesOf(s, f)
  <2>1. E = D
    BY <1>3 DEF Definers
  <2> QED
    BY <1>3, <2>1 DEF RowsFrom
<1>4. CASE i \in NodesOf(s, f) /\ D = {}
  <2>1. E = {f}
    BY <1>4 DEF Definers
  <2>2. First(E) = f
    <3>1. E \in SUBSET Files /\ f \in E /\ \A g \in E : Place[f] <= Place[g]
      BY <2>1, Places
    <3> HIDE DEF E
    <3> QED
      BY <3>1, FirstIs
  <2>3. RowsFrom(s, F \cup {f})[i] = RowOf(s, f)
    BY <2>1, <2>2 DEF RowsFrom
  <2> QED
    BY <1>2, <1>4, <2>3
<1>5. CASE i \in NodesOf(s, f) /\ D # {}
  <2>1. E = D \cup {f}
    BY <1>5 DEF Definers
  <2>2. First(D) \in D /\ \A g \in D : Place[First(D)] <= Place[g]
    BY <1>1, <1>5, FirstOf
  <2>3. First(D) \in E /\ \A g \in E : Place[First(D)] <= Place[g]
    <3>1. Place[First(D)] \in Nat /\ Place[f] \in Nat /\ Place[First(D)] < Place[f]
      BY <1>1, <2>2, Places
    <3> QED
      BY <2>1, <2>2, <3>1
  <2>4. First(E) = First(D)
    BY <1>1, <2>3, FirstIs
  <2>5. /\ RowsFrom(s, F \cup {f})[i] = RowOf(s, First(E))
        /\ RowsFrom(s, F)[i] = RowOf(s, First(D))
    BY <1>5, <2>1 DEF RowsFrom
  <2> QED
    BY <1>2, <1>5, <2>4, <2>5
<1> QED
  BY <1>3, <1>4, <1>5

(* A row that is there when a pass is cut short is the one that stays.     *)
LEMMA RowsPrefix ==
  ASSUME TypeOK, NEW s \in Snaps, NEW G \in SUBSET Files, NEW F \in SUBSET G,
         \A f \in F, g \in G \ F : Place[f] < Place[g]
  PROVE  \A i \in Nodes : RowsFrom(s, F)[i] \in {None, RowsFrom(s, G)[i]}
<1> SUFFICES ASSUME NEW i \in Nodes, Definers(s, F, i) # {}
             PROVE  RowsFrom(s, F)[i] = RowsFrom(s, G)[i]
  BY DEF RowsFrom
<1> DEFINE D == Definers(s, F, i)
           E == Definers(s, G, i)
<1>1. D \in SUBSET F /\ E \in SUBSET G /\ \A g \in E \ D : g \in G \ F
  BY DEF Definers
<1>2. First(D) \in D /\ \A g \in D : Place[First(D)] <= Place[g]
  BY <1>1, FirstOf
<1>3. First(D) \in E
  BY <1>2 DEF Definers
<1>4. ASSUME NEW g \in E PROVE Place[First(D)] <= Place[g]
  <2>1. CASE g \in D
    BY <1>2, <2>1
  <2>2. CASE g \notin D
    <3>1. Place[First(D)] < Place[g]
      BY <1>1, <1>2, <2>2
    <3>2. Place[First(D)] \in Nat /\ Place[g] \in Nat
      BY <1>1, <1>2, Places
    <3> QED
      BY <3>1, <3>2
  <2> QED
    BY <2>1, <2>2
<1>5. First(E) = First(D)
  BY <1>1, <1>3, <1>4, FirstIs
<1> QED
  BY <1>3, <1>5 DEF RowsFrom

-----------------------------------------------------------------------------
(* Facts about the planned graph.                                          *)

(* Both ends of a planned edge are nodes of files that were scanned. *)
LEMMA PlannedEnds ==
  ASSUME TypeOK, NEW s \in Snaps
  PROVE  /\ Known(s) \subseteq Nodes
         /\ \A f \in Scanned(s) :
              /\ ContainsEdges(s, f) \subseteq Kinds \X NodesOf(s, f) \X NodesOf(s, f)
              /\ ContainsEdges(s, f) \subseteq Kinds \X Known(s) \X Known(s)
              /\ ResolvedEdges(s, f) \subseteq Kinds \X Known(s) \X Known(s)
         /\ TestEdges(s) \subseteq Kinds \X Known(s) \X Known(s)
         /\ PlannedEdges(s) \subseteq Kinds \X Known(s) \X Known(s)
<1>1. /\ Scanned(s) \subseteq Files
      /\ \A f \in Scanned(s) : NodesOf(s, f) \subseteq Known(s) /\ f \in Known(s)
  BY DEF Scanned, Known, NodesOf
<1>2. Known(s) \subseteq Nodes
  BY <1>1, NodesOfFile DEF Known
<1>3. ASSUME NEW f \in Scanned(s)
      PROVE  /\ ContainsEdges(s, f) \subseteq Kinds \X NodesOf(s, f) \X NodesOf(s, f)
             /\ ContainsEdges(s, f) \subseteq Kinds \X Known(s) \X Known(s)
  <2>1. ContainsEdges(s, f) \subseteq Kinds \X NodesOf(s, f) \X NodesOf(s, f)
    BY <1>1, <1>3, NodesOfFile DEF ContainsEdges, Kinds
  <2> QED
    BY <1>1, <1>3, <2>1
<1>4. ASSUME NEW f \in Scanned(s)
      PROVE  ResolvedEdges(s, f) \subseteq Kinds \X Known(s) \X Known(s)
  <2>1. CallEdges(s, f) \subseteq Kinds \X Known(s) \X Known(s)
    BY DEF CallEdges, Kinds
  <2>2. ImportEdges(s, f) \subseteq Kinds \X Scanned(s) \X Scanned(s)
    BY DEF ImportEdges, NamedFiles, Kinds
  <2> QED
    BY <1>1, <2>1, <2>2 DEF ResolvedEdges
<1>5. TestEdges(s) \subseteq Kinds \X Known(s) \X Known(s)
  BY DEF TestEdges, Kinds
<1>6. PlannedEdges(s) \subseteq Kinds \X Known(s) \X Known(s)
  BY <1>3, <1>4, <1>5 DEF PlannedEdges
<1> QED
  BY <1>2, <1>3, <1>4, <1>5, <1>6

LEMMA PlannedType ==
  ASSUME TypeOK, NEW s \in Snaps
  PROVE  Planned(s) \in Graph /\ Stored(s) \in Graph
<1>1. PlannedEdges(s) \subseteq Edge
  BY PlannedEnds DEF Edge
<1>2. RowsFrom(s, Scanned(s)) \in [Nodes -> Rows \cup {None}]
  BY RowsHave DEF Scanned
<1>3. QED
  BY <1>1, <1>2 DEF Planned, Stored, Graph, TypeOK

(* An edge between nodes of files that are all there is not refused. *)
LEMMA RowsReferenced ==
  ASSUME TypeOK, NEW s \in Snaps, NEW F \in SUBSET Files, nodes[s] = RowsFrom(s, F),
         NEW E, E \subseteq Kinds \X (UNION {NodesOf(s, f) : f \in F})
                                  \X (UNION {NodesOf(s, f) : f \in F})
  PROVE  Referenced(s, E)
<1>1. \A f \in F : \A i \in NodesOf(s, f) : i \in Nodes /\ nodes[s][i] # None
  BY RowsHave, NodesOfFile DEF Definers
<1> QED
  BY <1>1 DEF Referenced

LEMMA PlannedReferenced ==
  ASSUME TypeOK, NEW s \in Snaps, nodes[s] = RowsFrom(s, Scanned(s))
  PROVE  /\ \A f \in Scanned(s) : Referenced(s, ResolvedEdges(s, f))
         /\ Referenced(s, TestEdges(s))
         /\ Referenced(s, PlannedEdges(s))
<1>1. Scanned(s) \in SUBSET Files
  BY DEF Scanned
<1> QED
  BY <1>1, PlannedEnds, RowsReferenced DEF Known

(* The planned graph depends on nothing but what was scanned. *)
LEMMA PlannedFrame ==
  ASSUME NEW s \in Snaps, scan'[s] = scan[s]
  PROVE  /\ Scanned(s)' = Scanned(s)
         /\ TestEdges(s)' = TestEdges(s)
         /\ PlannedEdges(s)' = PlannedEdges(s)
         /\ Planned(s)' = Planned(s)
         /\ \A F \in SUBSET Files :
              /\ RowsFrom(s, F)' = RowsFrom(s, F)
              /\ ContainsIn(s, F)' = ContainsIn(s, F)
              /\ ResolvedIn(s, F)' = ResolvedIn(s, F)
<1>1. Scanned(s)' = Scanned(s) /\ Scanned(s) \in SUBSET Files
  BY DEF Scanned
<1>2. \A f \in Files :
        /\ Found(s, f)' = Found(s, f) /\ NodesOf(s, f)' = NodesOf(s, f)
        /\ RowOf(s, f)' = RowOf(s, f)
        /\ ContainsEdges(s, f)' = ContainsEdges(s, f)
  BY DEF Found, NodesOf, RowOf, ContainsEdges
<1>3. Known(s)' = Known(s)
  BY <1>1, <1>2 DEF Known
<1>4. \A f \in Files : ResolvedEdges(s, f)' = ResolvedEdges(s, f)
  <2> SUFFICES ASSUME NEW f \in Files PROVE ResolvedEdges(s, f)' = ResolvedEdges(s, f)
    OBVIOUS
  <2>1. CallEdges(s, f)' = CallEdges(s, f)
    BY <1>2, <1>3 DEF CallEdges
  <2>2. NamedFiles(s)' = NamedFiles(s)
    BY <1>1 DEF NamedFiles
  <2>3. ImportEdges(s, f)' = ImportEdges(s, f)
    BY <1>2, <2>2 DEF ImportEdges
  <2> QED
    BY <2>1, <2>3 DEF ResolvedEdges
<1>5. TestEdges(s)' = TestEdges(s)
  BY <1>3 DEF TestEdges
<1>6. ASSUME NEW F \in SUBSET Files
      PROVE  /\ RowsFrom(s, F)' = RowsFrom(s, F)
             /\ ContainsIn(s, F)' = ContainsIn(s, F)
             /\ ResolvedIn(s, F)' = ResolvedIn(s, F)
  <2>1. \A i \in Nodes : Definers(s, F, i)' = Definers(s, F, i)
    BY <1>2 DEF Definers
  <2>2. \A i \in Nodes : Definers(s, F, i) # {} => First(Definers(s, F, i)) \in Files
    BY FirstOf DEF Definers
  <2>3. RowsFrom(s, F)' = RowsFrom(s, F)
    BY <1>2, <2>1, <2>2 DEF RowsFrom, First
  <2> QED
    BY <1>2, <1>4, <2>3 DEF ContainsIn, ResolvedIn
<1>7. PlannedEdges(s)' = PlannedEdges(s)
  BY <1>1, <1>2, <1>4, <1>5 DEF PlannedEdges
<1>8. RowsFrom(s, Scanned(s))' = RowsFrom(s, Scanned(s))
  BY <1>1, <1>6 DEF RowsFrom, Definers
<1> QED
  BY <1>1, <1>5, <1>6, <1>7, <1>8 DEF Planned

-----------------------------------------------------------------------------
LEMMA Bounds ==
  /\ Absent \in Versions
  /\ MaxSnapshots \in Nat /\ MaxFailures \in Nat
  /\ None \notin Procs /\ None \notin Nat /\ None \notin Graph /\ None \notin Reply
  /\ None \notin Rows
BY ConstantsOK

(* The initial states.                                                     *)

LEMMA InitIInv == Init => IInv
<1> SUFFICES ASSUME Init PROVE IInv
  OBVIOUS
<1> USE DEF Init
<1>1. TypeOK
  <2>1. 0 \in 0..MaxSnapshots
    BY Bounds
  <2>2. NoFiles \in [Files -> Versions] /\ NoRows \in [Nodes -> Rows \cup {None}]
    BY Bounds DEF NoFiles, NoRows
  <2> QED
    BY <2>1, <2>2 DEF TypeOK, PCs, Outcomes
<1>2. LockInv /\ IdInv /\ CurrentInv /\ ProgressInv /\ InitInv
  BY Bounds DEF LockInv, IdInv, CurrentInv, OneCurrent, ProgressInv, ProgressOf, InitInv,
    Holding, Building,
         Unstored, Analyzing
<1>3. RowsInv /\ CompleteUnlessFailed /\ ReplyInv
  BY Bounds DEF RowsInv, RowsOf, CompleteUnlessFailed, ReplyInv, NoRows, Referenced
<1>4. QED
  BY <1>1, <1>2, <1>3 DEF IInv

-----------------------------------------------------------------------------
LEMMA NextId ==
  ASSUME NEW n \in 0..MaxSnapshots, n < MaxSnapshots
  PROVE  n + 1 \in 0..MaxSnapshots
BY Bounds

LEMMA NextPassType ==
  ASSUME TypeOK, NEW p \in Procs, NEW F \in SUBSET Files, NEW l \in PCs, NEW m \in PCs,
         NextPass(p, F, l, m)
  PROVE  todo' \in [Procs -> SUBSET Files] /\ pc' \in [Procs -> PCs]
BY DEF NextPass, TypeOK, Goto

LEMMA TypeStep == IInv /\ [Next]_vars => TypeOK'
<1> SUFFICES ASSUME IInv, [Next]_vars PROVE TypeOK'
  OBVIOUS
<1> USE Bounds DEF IInv, TypeOK, vars, disk, local, Goto, EndsWith, Quit, Connect, PCs, Holding,
      Building, Outcomes
<1>1. ASSUME NEW p \in Procs, InitConnect(p) PROVE TypeOK'
  BY <1>1 DEF InitConnect
<1>2. ASSUME NEW p \in Procs, InitUpsert(p) PROVE TypeOK'
  BY <1>2 DEF InitUpsert
<1>3. ASSUME NEW p \in Procs, AnalyzeStart(p) PROVE TypeOK'
  <2>1. clock + 1 \in 0..MaxSnapshots
    BY <1>3, NextId DEF AnalyzeStart
  <2>2. {f \in Files : tree[f] # Absent} \in SUBSET Files
    OBVIOUS
  <2> QED
    BY <1>3, <2>1, <2>2 DEF AnalyzeStart
<1>4. ASSUME NEW p \in Procs, AnalyzeWithoutGit(p) PROVE TypeOK'
  BY <1>4 DEF AnalyzeWithoutGit
<1>5. ASSUME NEW p \in Procs, NEW f \in Files, ScanFile(p, f) PROVE TypeOK'
  BY <1>5 DEF ScanFile
<1>6. ASSUME NEW p \in Procs, NEW f \in Files, ScanTooLarge(p, f) PROVE TypeOK'
  BY <1>6 DEF ScanTooLarge
<1>7. ASSUME NEW p \in Procs, AnalyzeConnect(p) PROVE TypeOK'
  BY <1>7 DEF AnalyzeConnect
<1>8. ASSUME NEW p \in Procs, AnalyzeRefused(p) PROVE TypeOK'
  BY <1>8 DEF AnalyzeRefused
<1>9. ASSUME NEW p \in Procs, RetireSnapshots(p) PROVE TypeOK'
  BY <1>9 DEF RetireSnapshots, RetiredFlags
<1>10. ASSUME NEW p \in Procs, InsertSnapshot(p) PROVE TypeOK'
  <2>1. snap[p] \in Snaps /\ Scanned(snap[p]) \in SUBSET Files
    BY <1>10 DEF InsertSnapshot, IdInv, Analyzing, Unstored, Snaps, Scanned
  <2> QED
    BY <1>10, <2>1 DEF InsertSnapshot, InsertedFlags, NextPass
<1>11. ASSUME NEW p \in Procs, NEW f \in Files, InsertNodes(p, f) PROVE TypeOK'
  <2>1. snap[p] \in Snaps /\ Scanned(snap[p]) \in SUBSET Files
    BY <1>11 DEF InsertNodes, IdInv, Analyzing, Snaps, Scanned
  <2>2. nodes' \in [Snaps -> [Nodes -> Rows \cup {None}]]
    <3>1. RowOf(snap[p], f) \in Rows
      BY <2>1 DEF RowOf, Rows
    <3>2. [i \in Nodes |-> IF i \in NodesOf(snap[p], f) /\ nodes[snap[p]][i] = None
                            THEN RowOf(snap[p], f) ELSE nodes[snap[p]][i]]
            \in [Nodes -> Rows \cup {None}]
      BY <2>1, <3>1
    <3> QED
      BY <1>11, <2>1, <3>2 DEF InsertNodes, InsertedNodes
  <2>3. todo' \in [Procs -> SUBSET Files] /\ pc' \in [Procs -> PCs]
    <3>1. CASE todo[p] \ {f} = {}
      BY <1>11, <2>1, <3>1, NextPassType DEF InsertNodes
    <3>2. CASE todo[p] \ {f} # {}
      BY <1>11, <3>2 DEF InsertNodes, NextPass
    <3> QED
      BY <3>1, <3>2
  <2>4. edges' \in [Snaps -> SUBSET Edge]
    <3>1. f \in Scanned(snap[p])
      BY <1>11, <2>1 DEF InsertNodes, IsNext, ProgressInv, ProgressOf
    <3>2. ContainsEdges(snap[p], f) \subseteq Edge
      BY <2>1, <3>1, PlannedEnds DEF Edge
    <3> QED
      BY <1>11, <2>1, <3>2 DEF InsertNodes, InsertedEdges
  <2> QED
    BY <1>11, <2>2, <2>3, <2>4 DEF InsertNodes
<1>12. ASSUME NEW p \in Procs, NEW f \in Files, ResolveFile(p, f) PROVE TypeOK'
  <2>1. snap[p] \in Snaps
    BY <1>12 DEF ResolveFile, IdInv, Analyzing, Snaps
  <2>2. ResolvedEdges(snap[p], f) \subseteq Edge
    <3>1. f \in Scanned(snap[p])
      BY <1>12, <2>1 DEF ResolveFile, IsNext, ProgressInv, ProgressOf
    <3> QED
      BY <2>1, <3>1, PlannedEnds DEF Edge
  <2>3. edges' \in [Snaps -> SUBSET Edge]
    BY <1>12, <2>1, <2>2 DEF ResolveFile, InsertedEdges
  <2>4. todo' \in [Procs -> SUBSET Files] /\ pc' \in [Procs -> PCs]
    BY <1>12 DEF ResolveFile, NextPass
  <2> QED
    BY <1>12, <2>3, <2>4 DEF ResolveFile
<1>13. ASSUME NEW p \in Procs, LinkTests(p) PROVE TypeOK'
  <2>1. snap[p] \in Snaps
    BY <1>13 DEF LinkTests, IdInv, Analyzing, Snaps
  <2>2. TestEdges(snap[p]) \subseteq Edge
    BY <2>1, PlannedEnds DEF Edge
  <2>3. edges' \in [Snaps -> SUBSET Edge]
    BY <1>13, <2>1, <2>2 DEF LinkTests, InsertedEdges
  <2> QED
    BY <1>13, <2>3 DEF LinkTests
<1>14. ASSUME NEW p \in Procs, RefusedByKey(p) PROVE TypeOK'
  BY <1>14 DEF RefusedByKey, IdInv
<1>15. ASSUME NEW p \in Procs, ReadConnect(p) PROVE TypeOK'
  BY <1>15 DEF ReadConnect
<1>16. ASSUME NEW p \in Procs, Lookup(p) PROVE TypeOK'
  <2>1. PICK s \in current : snap' = [snap EXCEPT ![p] = s] /\ Goto(p, "rows")
    BY <1>16 DEF Lookup, CurrentSnapshotIds
  <2>2. s \in 0..MaxSnapshots
    BY <2>1 DEF Snaps
  <2> QED
    BY <1>16, <2>1, <2>2 DEF Lookup
<1>17. ASSUME NEW p \in Procs, LookupNothing(p) PROVE TypeOK'
  BY <1>17 DEF LookupNothing
<1>18. ASSUME NEW p \in Procs, ReadRows(p) PROVE TypeOK'
  BY <1>18, PlannedType DEF ReadRows, IdInv, Reply
<1>19. ASSUME NEW p \in Procs, GitFails(p) PROVE TypeOK'
  BY <1>19 DEF GitFails
<1>20. ASSUME NEW p \in Procs, Close(p) PROVE TypeOK'
  BY <1>20 DEF Close
<1>21. ASSUME NEW p \in Procs, NotInitialized(p) PROVE TypeOK'
  BY <1>21 DEF NotInitialized
<1>22. ASSUME NEW p \in Procs, StartRefused(p) PROVE TypeOK'
  BY <1>22 DEF StartRefused
<1>23. ASSUME NEW p \in Procs, Die(p) PROVE TypeOK'
  BY <1>23 DEF Die, IdInv
<1>24. ASSUME NEW f \in Files, NEW v \in Versions, Edit(f, v) PROVE TypeOK'
  BY <1>24 DEF Edit
<1>25. CASE UNCHANGED vars
  BY <1>25
<1>26. QED
  BY <1>1, <1>2, <1>3, <1>4, <1>5, <1>6, <1>7, <1>8, <1>9, <1>10, <1>11, <1>12, <1>13, <1>14,
    <1>15, <1>16, <1>17, <1>18, <1>19, <1>20, <1>21, <1>22, <1>23, <1>24, <1>25 DEF Next, Step,
    Start

LEMMA LockStep == IInv /\ [Next]_vars => LockInv'
<1> SUFFICES ASSUME IInv, [Next]_vars PROVE LockInv'
  OBVIOUS
<1> USE Bounds DEF IInv, TypeOK, LockInv, Holding, Building, vars, disk, local, Goto, EndsWith,
      Quit, Connect
<1>1. ASSUME NEW p \in Procs, InitConnect(p) PROVE LockInv'
  BY <1>1 DEF InitConnect
<1>2. ASSUME NEW p \in Procs, InitUpsert(p) PROVE LockInv'
  BY <1>2 DEF InitUpsert
<1>3. ASSUME NEW p \in Procs, AnalyzeStart(p) PROVE LockInv'
  BY <1>3 DEF AnalyzeStart
<1>4. ASSUME NEW p \in Procs, AnalyzeWithoutGit(p) PROVE LockInv'
  BY <1>4 DEF AnalyzeWithoutGit
<1>5. ASSUME NEW p \in Procs, NEW f \in Files, ScanFile(p, f) PROVE LockInv'
  BY <1>5 DEF ScanFile
<1>6. ASSUME NEW p \in Procs, NEW f \in Files, ScanTooLarge(p, f) PROVE LockInv'
  BY <1>6 DEF ScanTooLarge
<1>7. ASSUME NEW p \in Procs, AnalyzeConnect(p) PROVE LockInv'
  BY <1>7 DEF AnalyzeConnect
<1>8. ASSUME NEW p \in Procs, AnalyzeRefused(p) PROVE LockInv'
  BY <1>8 DEF AnalyzeRefused
<1>9. ASSUME NEW p \in Procs, RetireSnapshots(p) PROVE LockInv'
  BY <1>9 DEF RetireSnapshots
<1>10. ASSUME NEW p \in Procs, InsertSnapshot(p) PROVE LockInv'
  BY <1>10 DEF InsertSnapshot, NextPass
<1>11. ASSUME NEW p \in Procs, NEW f \in Files, InsertNodes(p, f) PROVE LockInv'
  BY <1>11 DEF InsertNodes, NextPass
<1>12. ASSUME NEW p \in Procs, NEW f \in Files, ResolveFile(p, f) PROVE LockInv'
  BY <1>12 DEF ResolveFile, NextPass
<1>13. ASSUME NEW p \in Procs, LinkTests(p) PROVE LockInv'
  BY <1>13 DEF LinkTests
<1>14. ASSUME NEW p \in Procs, RefusedByKey(p) PROVE LockInv'
  BY <1>14 DEF RefusedByKey, KeyViolation
<1>15. ASSUME NEW p \in Procs, ReadConnect(p) PROVE LockInv'
  BY <1>15 DEF ReadConnect
<1>16. ASSUME NEW p \in Procs, Lookup(p) PROVE LockInv'
  BY <1>16 DEF Lookup
<1>17. ASSUME NEW p \in Procs, LookupNothing(p) PROVE LockInv'
  BY <1>17 DEF LookupNothing
<1>18. ASSUME NEW p \in Procs, ReadRows(p) PROVE LockInv'
  BY <1>18 DEF ReadRows
<1>19. ASSUME NEW p \in Procs, GitFails(p) PROVE LockInv'
  BY <1>19 DEF GitFails
<1>20. ASSUME NEW p \in Procs, Close(p) PROVE LockInv'
  BY <1>20 DEF Close
<1>21. ASSUME NEW p \in Procs, NotInitialized(p) PROVE LockInv'
  BY <1>21 DEF NotInitialized
<1>22. ASSUME NEW p \in Procs, StartRefused(p) PROVE LockInv'
  BY <1>22 DEF StartRefused
<1>23. ASSUME NEW p \in Procs, Die(p) PROVE LockInv'
  BY <1>23 DEF Die
<1>24. ASSUME NEW f \in Files, NEW v \in Versions, Edit(f, v) PROVE LockInv'
  BY <1>24 DEF Edit
<1>25. CASE UNCHANGED vars
  BY <1>25
<1>26. QED
  BY <1>1, <1>2, <1>3, <1>4, <1>5, <1>6, <1>7, <1>8, <1>9, <1>10, <1>11, <1>12, <1>13, <1>14,
    <1>15, <1>16, <1>17, <1>18, <1>19, <1>20, <1>21, <1>22, <1>23, <1>24, <1>25 DEF Next, Step,
    Start

LEMMA IdStep == IInv /\ [Next]_vars => IdInv'
<1> SUFFICES ASSUME IInv, [Next]_vars PROVE IdInv'
  OBVIOUS
<1> USE Bounds DEF IInv, TypeOK, LockInv, IdInv, Holding, Analyzing, Unstored, Building, vars,
      disk, local, Goto, EndsWith, Quit, Connect
<1>1. ASSUME NEW p \in Procs, InitConnect(p) PROVE IdInv'
  BY <1>1 DEF InitConnect
<1>2. ASSUME NEW p \in Procs, InitUpsert(p) PROVE IdInv'
  BY <1>2 DEF InitUpsert
<1>3. ASSUME NEW p \in Procs, AnalyzeStart(p) PROVE IdInv'
  <2>1. /\ clock \in Nat /\ clock' = clock + 1 /\ snap'[p] = clock + 1
        /\ pc'[p] \in {"scan", "connect"} /\ snapshots' = snapshots
        /\ \A q \in Procs \ {p} : pc'[q] = pc[q] /\ snap'[q] = snap[q]
    <3>1. clock \in Nat
      BY NextId
    <3>2. pc'[p] \in {"scan", "connect"}
      BY <1>3 DEF AnalyzeStart
    <3> QED
      BY <1>3, <3>1, <3>2 DEF AnalyzeStart
  <2>2. \A s \in snapshots : s \in Nat /\ s <= clock /\ s # clock + 1
    BY <2>1 DEF Snaps
  <2>3. \A q \in Procs : pc[q] \in Analyzing => snap[q] \in 1..clock
    OBVIOUS
  <2>4. \A q \in Procs : pc'[q] \in Analyzing => snap'[q] \in 1..(clock + 1)
    BY <2>1, <2>3
  <2>5. \A q, r \in Procs :
          q # r /\ pc'[q] \in Analyzing /\ pc'[r] \in Analyzing => snap'[q] # snap'[r]
    BY <2>1, <2>3
  <2> QED
    BY <2>1, <2>2, <2>4, <2>5
<1>4. ASSUME NEW p \in Procs, AnalyzeWithoutGit(p) PROVE IdInv'
  BY <1>4 DEF AnalyzeWithoutGit
<1>5. ASSUME NEW p \in Procs, NEW f \in Files, ScanFile(p, f) PROVE IdInv'
  BY <1>5 DEF ScanFile
<1>6. ASSUME NEW p \in Procs, NEW f \in Files, ScanTooLarge(p, f) PROVE IdInv'
  BY <1>6 DEF ScanTooLarge
<1>7. ASSUME NEW p \in Procs, AnalyzeConnect(p) PROVE IdInv'
  BY <1>7 DEF AnalyzeConnect
<1>8. ASSUME NEW p \in Procs, AnalyzeRefused(p) PROVE IdInv'
  BY <1>8 DEF AnalyzeRefused
<1>9. ASSUME NEW p \in Procs, RetireSnapshots(p) PROVE IdInv'
  BY <1>9 DEF RetireSnapshots
<1>10. ASSUME NEW p \in Procs, InsertSnapshot(p) PROVE IdInv'
  BY <1>10 DEF InsertSnapshot, NextPass
<1>11. ASSUME NEW p \in Procs, NEW f \in Files, InsertNodes(p, f) PROVE IdInv'
  <2>1. /\ pc[p] = "nodes" /\ pc'[p] \in Building
        /\ \A q \in Procs \ {p} : pc'[q] = pc[q]
        /\ snap' = snap /\ snapshots' = snapshots /\ clock' = clock
    BY <1>11 DEF InsertNodes, NextPass
  <2> QED
    BY <2>1
<1>12. ASSUME NEW p \in Procs, NEW f \in Files, ResolveFile(p, f) PROVE IdInv'
  BY <1>12 DEF ResolveFile, NextPass
<1>13. ASSUME NEW p \in Procs, LinkTests(p) PROVE IdInv'
  BY <1>13 DEF LinkTests
<1>14. ASSUME NEW p \in Procs, RefusedByKey(p) PROVE IdInv'
  BY <1>14 DEF RefusedByKey, KeyViolation
<1>15. ASSUME NEW p \in Procs, ReadConnect(p) PROVE IdInv'
  BY <1>15 DEF ReadConnect
<1>16. ASSUME NEW p \in Procs, Lookup(p) PROVE IdInv'
  BY <1>16 DEF Lookup, CurrentSnapshotIds
<1>17. ASSUME NEW p \in Procs, LookupNothing(p) PROVE IdInv'
  BY <1>17 DEF LookupNothing
<1>18. ASSUME NEW p \in Procs, ReadRows(p) PROVE IdInv'
  BY <1>18 DEF ReadRows
<1>19. ASSUME NEW p \in Procs, GitFails(p) PROVE IdInv'
  BY <1>19 DEF GitFails
<1>20. ASSUME NEW p \in Procs, Close(p) PROVE IdInv'
  BY <1>20 DEF Close
<1>21. ASSUME NEW p \in Procs, NotInitialized(p) PROVE IdInv'
  BY <1>21 DEF NotInitialized
<1>22. ASSUME NEW p \in Procs, StartRefused(p) PROVE IdInv'
  BY <1>22 DEF StartRefused
<1>23. ASSUME NEW p \in Procs, Die(p) PROVE IdInv'
  BY <1>23 DEF Die
<1>24. ASSUME NEW f \in Files, NEW v \in Versions, Edit(f, v) PROVE IdInv'
  BY <1>24 DEF Edit
<1>25. CASE UNCHANGED vars
  BY <1>25
<1>26. QED
  BY <1>1, <1>2, <1>3, <1>4, <1>5, <1>6, <1>7, <1>8, <1>9, <1>10, <1>11, <1>12, <1>13, <1>14,
    <1>15, <1>16, <1>17, <1>18, <1>19, <1>20, <1>21, <1>22, <1>23, <1>24, <1>25 DEF Next, Step,
    Start

LEMMA CurrentStep == IInv /\ [Next]_vars => CurrentInv'
<1> SUFFICES ASSUME IInv, [Next]_vars PROVE CurrentInv'
  OBVIOUS
<1> USE Bounds DEF IInv, TypeOK, LockInv, IdInv, CurrentInv, OneCurrent, InitInv, Holding,
      Analyzing, Unstored, Building, vars, disk, local, Goto, EndsWith, Quit, Connect
<1>1. ASSUME NEW p \in Procs, InitConnect(p) PROVE CurrentInv'
  BY <1>1 DEF InitConnect
<1>2. ASSUME NEW p \in Procs, InitUpsert(p) PROVE CurrentInv'
  BY <1>2 DEF InitUpsert
<1>3. ASSUME NEW p \in Procs, AnalyzeStart(p) PROVE CurrentInv'
  BY <1>3 DEF AnalyzeStart
<1>4. ASSUME NEW p \in Procs, AnalyzeWithoutGit(p) PROVE CurrentInv'
  BY <1>4 DEF AnalyzeWithoutGit
<1>5. ASSUME NEW p \in Procs, NEW f \in Files, ScanFile(p, f) PROVE CurrentInv'
  BY <1>5 DEF ScanFile
<1>6. ASSUME NEW p \in Procs, NEW f \in Files, ScanTooLarge(p, f) PROVE CurrentInv'
  BY <1>6 DEF ScanTooLarge
<1>7. ASSUME NEW p \in Procs, AnalyzeConnect(p) PROVE CurrentInv'
  BY <1>7 DEF AnalyzeConnect
<1>8. ASSUME NEW p \in Procs, AnalyzeRefused(p) PROVE CurrentInv'
  BY <1>8 DEF AnalyzeRefused
<1>9. ASSUME NEW p \in Procs, RetireSnapshots(p) PROVE CurrentInv'
  BY <1>9 DEF RetireSnapshots, RetiredFlags
<1>10. ASSUME NEW p \in Procs, InsertSnapshot(p) PROVE CurrentInv'
  BY <1>10 DEF InsertSnapshot, NextPass, InsertedFlags
<1>11. ASSUME NEW p \in Procs, NEW f \in Files, InsertNodes(p, f) PROVE CurrentInv'
  BY <1>11 DEF InsertNodes, NextPass
<1>12. ASSUME NEW p \in Procs, NEW f \in Files, ResolveFile(p, f) PROVE CurrentInv'
  BY <1>12 DEF ResolveFile, NextPass
<1>13. ASSUME NEW p \in Procs, LinkTests(p) PROVE CurrentInv'
  BY <1>13 DEF LinkTests
<1>14. ASSUME NEW p \in Procs, RefusedByKey(p) PROVE CurrentInv'
  BY <1>14 DEF RefusedByKey, KeyViolation
<1>15. ASSUME NEW p \in Procs, ReadConnect(p) PROVE CurrentInv'
  BY <1>15 DEF ReadConnect
<1>16. ASSUME NEW p \in Procs, Lookup(p) PROVE CurrentInv'
  BY <1>16 DEF Lookup, CurrentSnapshotIds
<1>17. ASSUME NEW p \in Procs, LookupNothing(p) PROVE CurrentInv'
  BY <1>17 DEF LookupNothing
<1>18. ASSUME NEW p \in Procs, ReadRows(p) PROVE CurrentInv'
  BY <1>18 DEF ReadRows
<1>19. ASSUME NEW p \in Procs, GitFails(p) PROVE CurrentInv'
  BY <1>19 DEF GitFails
<1>20. ASSUME NEW p \in Procs, Close(p) PROVE CurrentInv'
  BY <1>20 DEF Close
<1>21. ASSUME NEW p \in Procs, NotInitialized(p) PROVE CurrentInv'
  BY <1>21 DEF NotInitialized
<1>22. ASSUME NEW p \in Procs, StartRefused(p) PROVE CurrentInv'
  BY <1>22 DEF StartRefused
<1>23. ASSUME NEW p \in Procs, Die(p) PROVE CurrentInv'
  BY <1>23 DEF Die
<1>24. ASSUME NEW f \in Files, NEW v \in Versions, Edit(f, v) PROVE CurrentInv'
  BY <1>24 DEF Edit
<1>25. CASE UNCHANGED vars
  BY <1>25
<1>26. QED
  BY <1>1, <1>2, <1>3, <1>4, <1>5, <1>6, <1>7, <1>8, <1>9, <1>10, <1>11, <1>12, <1>13, <1>14,
    <1>15, <1>16, <1>17, <1>18, <1>19, <1>20, <1>21, <1>22, <1>23, <1>24, <1>25 DEF Next, Step,
    Start

LEMMA InitStep == IInv /\ [Next]_vars => InitInv'
<1> SUFFICES ASSUME IInv, [Next]_vars PROVE InitInv'
  OBVIOUS
<1> USE Bounds DEF IInv, TypeOK, LockInv, IdInv, InitInv, Holding, Analyzing, Unstored,
      Building, vars, disk, local, Goto, EndsWith, Quit, Connect
<1>1. ASSUME NEW p \in Procs, InitConnect(p) PROVE InitInv'
  BY <1>1 DEF InitConnect
<1>2. ASSUME NEW p \in Procs, InitUpsert(p) PROVE InitInv'
  BY <1>2 DEF InitUpsert
<1>3. ASSUME NEW p \in Procs, AnalyzeStart(p) PROVE InitInv'
  BY <1>3 DEF AnalyzeStart
<1>4. ASSUME NEW p \in Procs, AnalyzeWithoutGit(p) PROVE InitInv'
  BY <1>4 DEF AnalyzeWithoutGit
<1>5. ASSUME NEW p \in Procs, NEW f \in Files, ScanFile(p, f) PROVE InitInv'
  BY <1>5 DEF ScanFile
<1>6. ASSUME NEW p \in Procs, NEW f \in Files, ScanTooLarge(p, f) PROVE InitInv'
  BY <1>6 DEF ScanTooLarge
<1>7. ASSUME NEW p \in Procs, AnalyzeConnect(p) PROVE InitInv'
  BY <1>7 DEF AnalyzeConnect
<1>8. ASSUME NEW p \in Procs, AnalyzeRefused(p) PROVE InitInv'
  BY <1>8 DEF AnalyzeRefused
<1>9. ASSUME NEW p \in Procs, RetireSnapshots(p) PROVE InitInv'
  BY <1>9 DEF RetireSnapshots, RetiredFlags
<1>10. ASSUME NEW p \in Procs, InsertSnapshot(p) PROVE InitInv'
  BY <1>10 DEF InsertSnapshot, NextPass, InsertedFlags
<1>11. ASSUME NEW p \in Procs, NEW f \in Files, InsertNodes(p, f) PROVE InitInv'
  BY <1>11 DEF InsertNodes, NextPass
<1>12. ASSUME NEW p \in Procs, NEW f \in Files, ResolveFile(p, f) PROVE InitInv'
  BY <1>12 DEF ResolveFile, NextPass
<1>13. ASSUME NEW p \in Procs, LinkTests(p) PROVE InitInv'
  BY <1>13 DEF LinkTests
<1>14. ASSUME NEW p \in Procs, RefusedByKey(p) PROVE InitInv'
  BY <1>14 DEF RefusedByKey, KeyViolation
<1>15. ASSUME NEW p \in Procs, ReadConnect(p) PROVE InitInv'
  BY <1>15 DEF ReadConnect
<1>16. ASSUME NEW p \in Procs, Lookup(p) PROVE InitInv'
  BY <1>16 DEF Lookup, CurrentSnapshotIds
<1>17. ASSUME NEW p \in Procs, LookupNothing(p) PROVE InitInv'
  BY <1>17 DEF LookupNothing
<1>18. ASSUME NEW p \in Procs, ReadRows(p) PROVE InitInv'
  BY <1>18 DEF ReadRows
<1>19. ASSUME NEW p \in Procs, GitFails(p) PROVE InitInv'
  BY <1>19 DEF GitFails
<1>20. ASSUME NEW p \in Procs, Close(p) PROVE InitInv'
  BY <1>20 DEF Close
<1>21. ASSUME NEW p \in Procs, NotInitialized(p) PROVE InitInv'
  BY <1>21 DEF NotInitialized
<1>22. ASSUME NEW p \in Procs, StartRefused(p) PROVE InitInv'
  BY <1>22 DEF StartRefused
<1>23. ASSUME NEW p \in Procs, Die(p) PROVE InitInv'
  BY <1>23 DEF Die
<1>24. ASSUME NEW f \in Files, NEW v \in Versions, Edit(f, v) PROVE InitInv'
  BY <1>24 DEF Edit
<1>25. CASE UNCHANGED vars
  BY <1>25
<1>26. QED
  BY <1>1, <1>2, <1>3, <1>4, <1>5, <1>6, <1>7, <1>8, <1>9, <1>10, <1>11, <1>12, <1>13, <1>14,
    <1>15, <1>16, <1>17, <1>18, <1>19, <1>20, <1>21, <1>22, <1>23, <1>24, <1>25 DEF Next, Step,
    Start

-----------------------------------------------------------------------------
(* The rows.  Most steps leave what a lemma is about alone.                *)

LEMMA BuilderFacts ==
  ASSUME IInv, NEW p \in Procs, pc[p] \in Building
  PROVE  /\ snap[p] \in Snaps /\ snap[p] \in snapshots /\ lock = p
         /\ \A q \in Procs \ {p} : pc[q] \notin Holding
BY Bounds DEF IInv, TypeOK, LockInv, IdInv, Analyzing, Holding, Building, Snaps

(* The steps that write rows, and what all the others leave alone. *)
Writes(p) ==
  \/ InsertSnapshot(p) \/ LinkTests(p)
  \/ \E f \in Files : InsertNodes(p, f) \/ ResolveFile(p, f)

Quiet ==
  /\ nodes' = nodes /\ edges' = edges /\ snapshots' = snapshots
  /\ failed \subseteq failed'
  /\ \A s \in Snaps : scan'[s] = scan[s] \/ s \notin snapshots
  /\ \A q \in Procs :
       /\ pc'[q] \in Building =>
            pc'[q] = pc[q] /\ snap'[q] = snap[q] /\ todo'[q] = todo[q]
       /\ pc[q] \in Building /\ pc'[q] \notin Building => snap[q] \in failed'
       /\ reply'[q] # None =>
            \/ reply'[q] = reply[q] /\ pc'[q] = pc[q]
            \/ /\ pc'[q] = "close" /\ snap[q] \in snapshots
               /\ reply'[q] = [snap |-> snap[q], graph |-> Stored(snap[q])]

LEMMA QuietStep ==
  ASSUME IInv, [Next]_vars
  PROVE  Quiet \/ \E p \in Procs : Writes(p)
<1> USE DEF IInv, TypeOK, LockInv, IdInv, ReplyInv, Holding, Analyzing, Unstored, Building,
            vars, disk, local, Goto, EndsWith, Quit, Connect, Quiet
<1>1. ASSUME NEW p \in Procs, InitConnect(p) PROVE Quiet
  BY <1>1 DEF InitConnect
<1>2. ASSUME NEW p \in Procs, InitUpsert(p) PROVE Quiet
  BY <1>2 DEF InitUpsert
<1>3. ASSUME NEW p \in Procs, AnalyzeStart(p) PROVE Quiet
  BY <1>3 DEF AnalyzeStart
<1>4. ASSUME NEW p \in Procs, AnalyzeWithoutGit(p) PROVE Quiet
  BY <1>4 DEF AnalyzeWithoutGit
<1>5. ASSUME NEW p \in Procs, NEW f \in Files, ScanFile(p, f) PROVE Quiet
  BY <1>5 DEF ScanFile
<1>6. ASSUME NEW p \in Procs, NEW f \in Files, ScanTooLarge(p, f) PROVE Quiet
  BY <1>6 DEF ScanTooLarge
<1>7. ASSUME NEW p \in Procs, AnalyzeConnect(p) PROVE Quiet
  BY <1>7 DEF AnalyzeConnect
<1>8. ASSUME NEW p \in Procs, AnalyzeRefused(p) PROVE Quiet
  BY <1>8 DEF AnalyzeRefused
<1>9. ASSUME NEW p \in Procs, RetireSnapshots(p) PROVE Quiet
  BY <1>9 DEF RetireSnapshots
<1>10. ASSUME NEW p \in Procs, RefusedByKey(p) PROVE Quiet
  <2>1. pc[p] # "close"
    BY <1>10 DEF RefusedByKey, KeyViolation
  <2> QED
    BY <1>10, <2>1 DEF RefusedByKey
<1>11. ASSUME NEW p \in Procs, ReadConnect(p) PROVE Quiet
  BY <1>11 DEF ReadConnect
<1>12. ASSUME NEW p \in Procs, Lookup(p) PROVE Quiet
  BY <1>12 DEF Lookup
<1>13. ASSUME NEW p \in Procs, LookupNothing(p) PROVE Quiet
  BY <1>13 DEF LookupNothing
<1>14. ASSUME NEW p \in Procs, ReadRows(p) PROVE Quiet
  BY <1>14 DEF ReadRows
<1>15. ASSUME NEW p \in Procs, GitFails(p) PROVE Quiet
  BY <1>15 DEF GitFails
<1>16. ASSUME NEW p \in Procs, Close(p) PROVE Quiet
  BY <1>16 DEF Close
<1>17. ASSUME NEW p \in Procs, NotInitialized(p) PROVE Quiet
  BY <1>17 DEF NotInitialized
<1>18. ASSUME NEW p \in Procs, StartRefused(p) PROVE Quiet
  BY <1>18 DEF StartRefused
<1>19. ASSUME NEW p \in Procs, Die(p) PROVE Quiet
  BY <1>19 DEF Die
<1>20. ASSUME NEW f \in Files, NEW v \in Versions, Edit(f, v) PROVE Quiet
  BY <1>20 DEF Edit
<1>21. CASE UNCHANGED vars
  BY <1>21
<1>22. QED
  BY <1>1, <1>2, <1>3, <1>4, <1>5, <1>6, <1>7, <1>8, <1>9, <1>10, <1>11, <1>12, <1>13, <1>14,
     <1>15, <1>16, <1>17, <1>18, <1>19, <1>20, <1>21 DEF Next, Step, Start, Writes

(* A writer has the database to itself, and nobody holds an answer then. *)
LEMMA WriterFacts ==
  ASSUME IInv, NEW p \in Procs, Writes(p)
  PROVE  /\ pc[p] \in {"insert"} \cup Building
         /\ snap[p] \in Snaps /\ lock = p
         /\ scan' = scan /\ snap' = snap /\ failed' = failed /\ reply' = reply
         /\ \A q \in Procs : reply[q] = None
         /\ \A q \in Procs \ {p} : pc'[q] = pc[q] /\ pc'[q] \notin Holding
<1> USE DEF IInv, TypeOK, LockInv, IdInv, ReplyInv, Holding, Analyzing, Unstored, Building
<1>1. pc[p] \in {"insert"} \cup Building
  BY DEF Writes, InsertSnapshot, LinkTests, InsertNodes, ResolveFile
<1>2. snap[p] \in Snaps /\ lock = p
  BY <1>1, Bounds DEF Snaps
<1>3. \A q \in Procs \ {p} : pc[q] \notin Holding
  BY <1>2
<1>4. \A q \in Procs : reply[q] = None
  BY <1>1, <1>3
<1>5. /\ scan' = scan /\ snap' = snap /\ failed' = failed /\ reply' = reply
      /\ \A q \in Procs \ {p} : pc'[q] = pc[q]
  <2>1. CASE InsertSnapshot(p)
    BY <2>1 DEF InsertSnapshot, NextPass, Goto
  <2>2. CASE LinkTests(p)
    BY <2>2 DEF LinkTests, Goto
  <2>3. ASSUME NEW f \in Files, InsertNodes(p, f) PROVE <1>5!:
    BY <2>3 DEF InsertNodes, NextPass, Goto
  <2>4. ASSUME NEW f \in Files, ResolveFile(p, f) PROVE <1>5!:
    BY <2>4 DEF ResolveFile, NextPass, Goto
  <2> QED
    BY <2>1, <2>2, <2>3, <2>4 DEF Writes
<1> QED
  BY <1>1, <1>2, <1>3, <1>4, <1>5

(* What an analyze has planned does not change while it writes. *)
LEMMA PlanStays ==
  ASSUME IInv, [Next]_vars, NEW s \in Snaps, s \in snapshots
  PROVE  /\ scan'[s] = scan[s]
         /\ Scanned(s)' = Scanned(s)
         /\ PlannedEdges(s)' = PlannedEdges(s)
         /\ Planned(s)' = Planned(s)
         /\ \A F \in SUBSET Files :
              /\ RowsFrom(s, F)' = RowsFrom(s, F)
              /\ ContainsIn(s, F)' = ContainsIn(s, F)
              /\ ResolvedIn(s, F)' = ResolvedIn(s, F)
<1>1. scan'[s] = scan[s]
  BY QuietStep, WriterFacts DEF Quiet
<1> QED
  BY <1>1, PlannedFrame

(* The same with an argument that moves as well. *)
LEMMA PlannedParts ==
  ASSUME NEW s \in Snaps, scan'[s] = scan[s], NEW p \in Procs, NEW T \in SUBSET Files,
         todo'[p] = T
  PROVE  /\ Scanned(s)' = Scanned(s)
         /\ RowsFrom(s, Scanned(s))' = RowsFrom(s, Scanned(s))
         /\ RowsFrom(s, Scanned(s) \ todo[p])' = RowsFrom(s, Scanned(s) \ T)
         /\ ContainsIn(s, Scanned(s))' = ContainsIn(s, Scanned(s))
         /\ ContainsIn(s, Scanned(s) \ todo[p])' = ContainsIn(s, Scanned(s) \ T)
         /\ ResolvedIn(s, Scanned(s))' = ResolvedIn(s, Scanned(s))
         /\ ResolvedIn(s, Scanned(s) \ todo[p])' = ResolvedIn(s, Scanned(s) \ T)
         /\ Behind(s, todo[p])' <=> Behind(s, T)
<1> DEFINE S == Scanned(s)
<1>1. Scanned(s)' = S /\ S \in SUBSET Files /\ S \ T \in SUBSET Files
  BY PlannedFrame DEF Scanned
<1>2. Behind(s, todo[p])' <=> Behind(s, T)
  BY <1>1 DEF Behind
<1>3. \A F \in SUBSET Files :
        /\ RowsFrom(s, F)' = RowsFrom(s, F)
        /\ ContainsIn(s, F)' = ContainsIn(s, F)
        /\ ResolvedIn(s, F)' = ResolvedIn(s, F)
  BY PlannedFrame
<1>4. ASSUME NEW F \in SUBSET Files, NEW G, G = F
      PROVE  /\ RowsFrom(s, F) = RowsFrom(s, G)
             /\ ContainsIn(s, F) = ContainsIn(s, G)
             /\ ResolvedIn(s, F) = ResolvedIn(s, G)
  BY <1>4
<1> QED
  BY <1>1, <1>2, <1>3

LEMMA ProgressQuiet ==
  ASSUME IInv, [Next]_vars, Quiet, NEW q \in Procs, NEW s \in Snaps, snap'[q] = s
  PROVE  ProgressOf(q, s)'
<1>1. CASE pc'[q] \notin Building
  BY <1>1 DEF ProgressOf, Building
<1>2. CASE pc'[q] \in Building
  <2>1. /\ pc'[q] = pc[q] /\ snap[q] = s /\ todo'[q] = todo[q]
        /\ nodes' = nodes /\ edges' = edges
    BY <1>2 DEF Quiet
  <2>2. s \in snapshots /\ ProgressOf(q, s)
    BY <1>2, <2>1, BuilderFacts DEF IInv, ProgressInv
  <2> DEFINE S == Scanned(s)
             T == todo[q]
  <2>3. scan'[s] = scan[s] /\ T \in SUBSET Files /\ todo'[q] = T
    BY <2>1, <2>2, PlanStays DEF IInv, TypeOK
  <2> HIDE DEF T
  <2>5. /\ RowsFrom(s, Scanned(s))' = RowsFrom(s, S)
        /\ RowsFrom(s, Scanned(s) \ todo[q])' = RowsFrom(s, S \ T)
        /\ ContainsIn(s, Scanned(s))' = ContainsIn(s, S)
        /\ ContainsIn(s, Scanned(s) \ todo[q])' = ContainsIn(s, S \ T)
        /\ ResolvedIn(s, Scanned(s))' = ResolvedIn(s, S)
        /\ ResolvedIn(s, Scanned(s) \ todo[q])' = ResolvedIn(s, S \ T)
        /\ Behind(s, todo[q])' <=> Behind(s, T)
        /\ Scanned(s)' = S
    BY <2>3, PlannedParts
  <2>6. ProgressOf(q, s)
    BY <2>2
  <2> QED
    BY <2>1, <2>3, <2>5, <2>6 DEF ProgressOf, T
<1> QED
  BY <1>1, <1>2

LEMMA ProgressStep == IInv /\ [Next]_vars => ProgressInv'
<1> SUFFICES ASSUME IInv, [Next]_vars PROVE ProgressInv'
  OBVIOUS
<1>1. CASE Quiet
  BY <1>1, ProgressQuiet DEF ProgressInv
<1>2. ASSUME NEW p \in Procs, Writes(p) PROVE ProgressInv'
  <2>1. \A q \in Procs \ {p}, s \in Snaps : ProgressOf(q, s)'
    BY <1>2, WriterFacts DEF ProgressOf, Building, Holding
  <2> SUFFICES ASSUME NEW s \in Snaps, snap[p] = s PROVE ProgressOf(p, s)'
    BY <1>2, <2>1, WriterFacts DEF ProgressInv
  <2>3. scan' = scan /\ scan'[s] = scan[s]
    BY <1>2, WriterFacts
  <2> DEFINE S == Scanned(s)
  <2>4. Scanned(s)' = S /\ S \in SUBSET Files
    BY <2>3, PlannedFrame DEF Scanned
  <2>5. /\ TypeOK /\ ProgressOf(p, s)
        /\ s \notin snapshots => nodes[s] = NoRows /\ edges[s] = {}
        /\ pc \in [Procs -> PCs] /\ todo \in [Procs -> SUBSET Files]
        /\ nodes \in [Snaps -> [Nodes -> Rows \cup {None}]] /\ edges \in [Snaps -> SUBSET Edge]
    BY DEF IInv, TypeOK, ProgressInv, RowsInv, RowsOf
  <2> DEFINE Done(l, T) ==
        /\ l \in {"nodes", "resolve"} => T \subseteq S
        /\ l = "nodes" =>
             /\ Behind(s, T)
             /\ nodes'[s] = RowsFrom(s, S \ T)
             /\ edges'[s] = ContainsIn(s, S \ T)
        /\ l = "resolve" =>
             /\ nodes'[s] = RowsFrom(s, S)
             /\ edges'[s] = ContainsIn(s, S) \cup ResolvedIn(s, S \ T)
        /\ l = "tests" =>
             /\ nodes'[s] = RowsFrom(s, S)
             /\ edges'[s] = ContainsIn(s, S) \cup ResolvedIn(s, S)
  <2>6. todo'[p] \in SUBSET Files
    BY TypeStep DEF TypeOK
  <2>7. ASSUME Done(pc'[p], todo'[p]) PROVE ProgressOf(p, s)'
    <3>1. PICK T \in SUBSET Files : todo'[p] = T
      BY <2>6
    <3> HIDE DEF Done
    <3>2. Done(pc'[p], T)
      BY <2>7, <3>1
    <3> USE DEF Done
    <3>3. /\ RowsFrom(s, Scanned(s))' = RowsFrom(s, S)
          /\ RowsFrom(s, Scanned(s) \ todo[p])' = RowsFrom(s, S \ T)
          /\ ContainsIn(s, Scanned(s))' = ContainsIn(s, S)
          /\ ContainsIn(s, Scanned(s) \ todo[p])' = ContainsIn(s, S \ T)
          /\ ResolvedIn(s, Scanned(s))' = ResolvedIn(s, S)
          /\ ResolvedIn(s, Scanned(s) \ todo[p])' = ResolvedIn(s, S \ T)
          /\ Behind(s, todo[p])' <=> Behind(s, T)
      BY <2>3, <3>1, PlannedParts
    <3> QED
      BY <2>4, <3>1, <3>2, <3>3 DEF ProgressOf
  <2>8. ASSUME InsertSnapshot(p) PROVE Done(pc'[p], todo'[p])
    <3>1. /\ nodes' = nodes /\ edges' = edges /\ s \notin snapshots
          /\ todo'[p] = S /\ pc'[p] = (IF S = {} THEN "tests" ELSE "nodes")
      BY <2>5, <2>8 DEF InsertSnapshot, NextPass, Goto
    <3>2. nodes[s] = NoRows /\ edges[s] = {}
      BY <2>5, <3>1
    <3>3. RowsFrom(s, {}) = NoRows
      BY DEF RowsFrom, Definers, NoRows
    <3>4. ContainsIn(s, {}) = {} /\ ResolvedIn(s, {}) = {}
      BY DEF ContainsIn, ResolvedIn
    <3>5. S \ S = {} /\ Behind(s, S)
      BY DEF Behind
    <3>6. CASE S = {}
      <4>1. pc'[p] = "tests" /\ RowsFrom(s, S) = NoRows
            /\ ContainsIn(s, S) = {} /\ ResolvedIn(s, S) = {}
        BY <3>1, <3>3, <3>4, <3>6
      <4> HIDE DEF S
      <4> QED
        BY <3>1, <3>2, <4>1
    <3>7. CASE S # {}
      <4>1. pc'[p] = "nodes" /\ RowsFrom(s, S \ S) = NoRows /\ ContainsIn(s, S \ S) = {}
        BY <3>1, <3>3, <3>4, <3>5, <3>7
      <4> HIDE DEF S
      <4> QED
        BY <3>1, <3>2, <3>5, <4>1
    <3> QED
      BY <3>6, <3>7
  <2>9. ASSUME NEW f \in Files, InsertNodes(p, f) PROVE Done(pc'[p], todo'[p])
    <3> DEFINE T == todo[p]
               F == S \ T
    <3>1. /\ nodes' = InsertedNodes(s, f) /\ edges' = InsertedEdges(s, ContainsEdges(s, f))
          /\ nodes[s] = RowsFrom(s, F) /\ edges[s] = ContainsIn(s, F) /\ Behind(s, T)
          /\ f \in T /\ T \subseteq S /\ F \in SUBSET Files
          /\ \A g \in T : Place[f] <= Place[g]
      BY <2>4, <2>5, <2>9 DEF InsertNodes, IsNext, ProgressOf
    <3>2. S \ (T \ {f}) = F \cup {f}
      BY <3>1
    <3>3. \A g \in F : Place[g] < Place[f]
      BY <3>1 DEF Behind
    <3>4. nodes'[s] = RowsFrom(s, F \cup {f})
      <4>1. nodes'[s] = [i \in Nodes |-> IF i \in NodesOf(s, f) /\ nodes[s][i] = None
                                        THEN RowOf(s, f) ELSE nodes[s][i]]
        BY <2>5, <3>1 DEF InsertedNodes
      <4> HIDE DEF F
      <4>2. RowsFrom(s, F \cup {f}) =
              [i \in Nodes |-> IF i \in NodesOf(s, f) /\ RowsFrom(s, F)[i] = None
                               THEN RowOf(s, f) ELSE RowsFrom(s, F)[i]]
        BY <2>5, <3>1, <3>3, RowsGrow
      <4> QED
        BY <3>1, <4>1, <4>2
    <3>5. edges'[s] = ContainsIn(s, F \cup {f})
      <4>1. edges'[s] = ContainsIn(s, F) \cup ContainsEdges(s, f)
        BY <2>5, <3>1 DEF InsertedEdges
      <4> QED
        BY <4>1 DEF ContainsIn
    <3>6. Behind(s, T \ {f})
      <4> SUFFICES ASSUME NEW g \in S \ (T \ {f}), NEW h \in T \ {f} PROVE Place[g] < Place[h]
        BY DEF Behind
      <4>1. g \in F \/ g = f
        BY <3>2
      <4>2. CASE g \in F
        BY <3>1, <4>2 DEF Behind
      <4>3. CASE g = f
        <5>1. Place[f] <= Place[h] /\ Place[f] # Place[h]
          BY <2>4, <3>1, Places
        <5> QED
          BY <2>4, <3>1, <4>3, <5>1, Places
      <4> QED
        BY <4>1, <4>2, <4>3
    <3>7. CASE T \ {f} # {}
      <4>1. pc'[p] = "nodes" /\ todo'[p] = T \ {f}
        BY <2>5, <2>9, <3>7 DEF InsertNodes
      <4>2. T \ {f} \subseteq S
        BY <3>1
      <4> HIDE DEF S, T, F
      <4> QED
        BY <3>2, <3>4, <3>5, <3>6, <4>1, <4>2
    <3>8. CASE T \ {f} = {}
      <4>1. /\ todo'[p] = S /\ pc'[p] = (IF S = {} THEN "tests" ELSE "resolve")
        BY <2>5, <2>9, <3>8 DEF InsertNodes, NextPass, Goto
      <4>2. F \cup {f} = S /\ S # {} /\ S \ S = {}
        BY <3>1, <3>8
      <4>3. ResolvedIn(s, S \ S) = {}
        BY <4>2 DEF ResolvedIn
      <4> HIDE DEF S, T, F
      <4> QED
        BY <3>4, <3>5, <4>1, <4>2, <4>3
    <3> QED
      BY <3>7, <3>8
  <2>10. ASSUME NEW f \in Files, ResolveFile(p, f) PROVE Done(pc'[p], todo'[p])
    <3> DEFINE T == todo[p]
    <3>1. /\ nodes' = nodes /\ edges' = InsertedEdges(s, ResolvedEdges(s, f))
          /\ nodes[s] = RowsFrom(s, S)
          /\ edges[s] = ContainsIn(s, S) \cup ResolvedIn(s, S \ T)
          /\ todo'[p] = T \ {f} /\ f \in T /\ T \subseteq S
          /\ pc'[p] = (IF T \ {f} = {} THEN "tests" ELSE "resolve")
      BY <2>5, <2>10 DEF ResolveFile, IsNext, NextPass, Goto, ProgressOf
    <3>2. S \ (T \ {f}) = (S \ T) \cup {f}
      BY <3>1
    <3>3. ResolvedIn(s, S \ (T \ {f})) = ResolvedIn(s, S \ T) \cup ResolvedEdges(s, f)
      BY <3>2 DEF ResolvedIn
    <3>4. edges'[s] = ContainsIn(s, S) \cup ResolvedIn(s, S \ (T \ {f}))
      BY <2>5, <3>1, <3>3 DEF InsertedEdges
    <3>5. T \ {f} = {} => S \ (T \ {f}) = S
      OBVIOUS
    <3>6. T \ {f} \subseteq S
      BY <3>1
    <3> HIDE DEF S, T
    <3> QED
      BY <3>1, <3>4, <3>5, <3>6
  <2>11. ASSUME LinkTests(p) PROVE Done(pc'[p], todo'[p])
    <3>1. pc'[p] = "close"
      BY <2>5, <2>11 DEF LinkTests, Goto
    <3> QED
      BY <3>1
  <2> QED
    BY <1>2, <2>7, <2>8, <2>9, <2>10, <2>11 DEF Writes
<1> QED
  BY <1>1, <1>2, QuietStep

(* A writer touches the rows of its own snapshot, and no others. *)
OwnRowsOnly(p, s) ==
  /\ s # snap[p] => /\ nodes'[s] = nodes[s] /\ edges'[s] = edges[s]
                    /\ s \in snapshots' <=> s \in snapshots
  /\ s = snap[p] => s \in snapshots'
  /\ pc'[p] \in Building \/ LinkTests(p)

LEMMA WriterRows ==
  ASSUME IInv, NEW p \in Procs, Writes(p), NEW s \in Snaps
  PROVE  OwnRowsOnly(p, s)
<1> USE DEF IInv, TypeOK, IdInv, Building, Analyzing, OwnRowsOnly
<1>1. CASE InsertSnapshot(p)
  BY <1>1 DEF InsertSnapshot, NextPass, Goto
<1>2. CASE LinkTests(p)
  BY <1>2 DEF LinkTests, InsertedEdges
<1>3. ASSUME NEW f \in Files, InsertNodes(p, f) PROVE OwnRowsOnly(p, s)
  <2>1. pc'[p] \in Building
    BY <1>3 DEF InsertNodes, NextPass, Goto
  <2>2. s # snap[p] => nodes'[s] = nodes[s] /\ edges'[s] = edges[s]
    BY <1>3 DEF InsertNodes, InsertedNodes, InsertedEdges
  <2> QED
    BY <1>3, <2>1, <2>2 DEF InsertNodes
<1>4. ASSUME NEW f \in Files, ResolveFile(p, f) PROVE OwnRowsOnly(p, s)
  <2>1. pc'[p] \in Building
    BY <1>4 DEF ResolveFile, NextPass, Goto
  <2>2. s # snap[p] => edges'[s] = edges[s]
    BY <1>4 DEF ResolveFile, InsertedEdges
  <2> QED
    BY <1>4, <2>1, <2>2 DEF ResolveFile
<1> QED
  BY <1>1, <1>2, <1>3, <1>4 DEF Writes

(* The last statement of an analyze completes the planned graph. *)
LEMMA LinkTestsCompletes ==
  ASSUME IInv, NEW p \in Procs, LinkTests(p), NEW s \in Snaps, snap[p] = s
  PROVE  nodes'[s] = RowsFrom(s, Scanned(s)) /\ edges'[s] = PlannedEdges(s)
<1>1. /\ nodes[s] = RowsFrom(s, Scanned(s))
      /\ edges[s] = ContainsIn(s, Scanned(s)) \cup ResolvedIn(s, Scanned(s))
      /\ nodes' = nodes /\ edges' = [edges EXCEPT ![s] = @ \cup TestEdges(s)]
      /\ edges \in [Snaps -> SUBSET Edge]
  BY DEF LinkTests, InsertedEdges, IInv, TypeOK, ProgressInv, ProgressOf
<1> QED
  BY <1>1 DEF ContainsIn, ResolvedIn, PlannedEdges

LEMMA RowsFrame ==
  ASSUME NEW s \in Snaps, scan'[s] = scan[s], nodes'[s] = nodes[s], edges'[s] = edges[s],
         s \in snapshots' <=> s \in snapshots, RowsOf(s)
  PROVE  RowsOf(s)'
<1>1. /\ RowsFrom(s, Scanned(s))' = RowsFrom(s, Scanned(s))
      /\ PlannedEdges(s)' = PlannedEdges(s)
  BY PlannedFrame DEF Planned
<1>2. Referenced(s, edges[s])' <=> Referenced(s, edges[s])
  BY DEF Referenced
<1> QED
  BY <1>1, <1>2 DEF RowsOf

(* While an analyze writes, what is there is a part of what it planned. *)
LEMMA ProgressRows ==
  ASSUME TypeOK, NEW p \in Procs, NEW s \in Snaps, s \in snapshots,
         pc[p] \in Building, ProgressOf(p, s)
  PROVE  RowsOf(s)
<1> DEFINE S == Scanned(s)
<1>1. S \in SUBSET Files
  BY DEF Scanned
<1>2. ASSUME NEW F \in SUBSET S
      PROVE  ContainsIn(s, F) \subseteq PlannedEdges(s) /\ ResolvedIn(s, F) \subseteq PlannedEdges(s)
  BY <1>2 DEF ContainsIn, ResolvedIn, PlannedEdges
<1>3. CASE pc[p] = "nodes"
  <2> DEFINE F == S \ todo[p]
             K == UNION {NodesOf(s, f) : f \in F}
  <2>1. /\ nodes[s] = RowsFrom(s, F) /\ edges[s] = ContainsIn(s, F)
        /\ \A f \in F, g \in S \ F : Place[f] < Place[g]
    BY <1>3 DEF ProgressOf, Behind
  <2>2. F \in SUBSET S /\ F \in SUBSET Files
    BY <1>1
  <2>3. \A f \in F : ContainsEdges(s, f) \subseteq Kinds \X K \X K
    BY <2>2, PlannedEnds
  <2>4. edges[s] \subseteq Kinds \X K \X K
    BY <2>1, <2>3 DEF ContainsIn
  <2> HIDE DEF F, S
  <2>5. \A i \in Nodes : nodes[s][i] \in {None, RowsFrom(s, S)[i]}
    BY <1>1, <2>1, <2>2, RowsPrefix
  <2>6. Referenced(s, edges[s])
    BY <2>1, <2>2, <2>4, RowsReferenced
  <2> QED
    BY <1>2, <2>1, <2>2, <2>5, <2>6 DEF RowsOf, S
<1>4. CASE pc[p] \in {"resolve", "tests"}
  <2>1. nodes[s] = RowsFrom(s, S) /\ edges[s] \subseteq PlannedEdges(s)
    <3>1. S \ todo[p] \in SUBSET S
      OBVIOUS
    <3>2. CASE pc[p] = "resolve"
      BY <1>2, <3>1, <3>2 DEF ProgressOf
    <3>3. CASE pc[p] = "tests"
      BY <1>2, <3>3 DEF ProgressOf
    <3> QED
      BY <1>4, <3>2, <3>3
  <2>2. Referenced(s, edges[s])
    BY <2>1, PlannedReferenced DEF Referenced
  <2> QED
    BY <2>1, <2>2 DEF RowsOf
<1> QED
  BY <1>3, <1>4 DEF Building

LEMMA ProgressIsPart ==
  TypeOK => \A q \in Procs, r \in Snaps :
              r \in snapshots /\ pc[q] \in Building /\ ProgressOf(q, r) => RowsOf(r)
BY ProgressRows

LEMMA WholeReferenced ==
  TypeOK => \A r \in Snaps :
              nodes[r] = RowsFrom(r, Scanned(r)) => Referenced(r, PlannedEdges(r))
BY PlannedReferenced

LEMMA RowsStep == IInv /\ [Next]_vars => RowsInv'
<1> SUFFICES ASSUME IInv, [Next]_vars, NEW s \in Snaps PROVE RowsOf(s)'
  BY DEF RowsInv
<1>1. RowsOf(s)
  BY DEF IInv, RowsInv
<1>2. CASE s \in snapshots /\ s \in snapshots' /\ nodes'[s] = nodes[s] /\ edges'[s] = edges[s]
  BY <1>1, <1>2, PlanStays, RowsFrame
<1>3. CASE s \notin snapshots /\ s \notin snapshots' /\ nodes'[s] = nodes[s] /\ edges'[s] = edges[s]
  BY <1>1, <1>3 DEF RowsOf, NoRows, Referenced
<1>4. ASSUME NEW p \in Procs, Writes(p), snap[p] = s PROVE RowsOf(s)'
  <2>1. /\ s \in snapshots' /\ scan'[s] = scan[s] /\ snap'[p] = s
        /\ pc'[p] \in Building \/ LinkTests(p)
    BY <1>4, WriterFacts, WriterRows DEF OwnRowsOnly
  <2>2. CASE LinkTests(p)
    <3>1. nodes'[s] = RowsFrom(s, Scanned(s)) /\ edges'[s] = PlannedEdges(s)
      BY <1>4, <2>2, LinkTestsCompletes
    <3>2. /\ RowsFrom(s, Scanned(s))' = RowsFrom(s, Scanned(s))
          /\ PlannedEdges(s)' = PlannedEdges(s)
      BY <2>1, PlannedFrame DEF Planned
    <3>3. Referenced(s, PlannedEdges(s))'
      <4>1. TypeOK'
        BY TypeStep
      <4>2. TypeOK' => (\A r \in Snaps :
              nodes[r] = RowsFrom(r, Scanned(r)) => Referenced(r, PlannedEdges(r)))'
        BY WholeReferenced, PTL
      <4> QED
        BY <3>1, <3>2, <4>1, <4>2
    <3> QED
      BY <2>1, <3>1, <3>2, <3>3 DEF RowsOf
  <2>3. CASE pc'[p] \in Building
    <3>1. ProgressOf(p, s)' /\ TypeOK'
      BY <2>1, ProgressStep, TypeStep DEF ProgressInv
    <3>2. TypeOK' => (\A q \in Procs, r \in Snaps :
                        r \in snapshots /\ pc[q] \in Building /\ ProgressOf(q, r) => RowsOf(r))'
      BY ProgressIsPart, PTL
    <3> QED
      BY <2>1, <2>3, <3>1, <3>2
  <2> QED
    BY <2>1, <2>2, <2>3
<1> QED
  BY <1>2, <1>3, <1>4, QuietStep, WriterRows DEF Quiet, OwnRowsOnly

LEMMA CompleteStep == IInv /\ [Next]_vars => CompleteUnlessFailed'
<1> SUFFICES ASSUME IInv, [Next]_vars, NEW s \in snapshots',
                    ~BeingBuilt(s)', s \notin failed'
             PROVE  Stored(s)' = Planned(s)'
  BY DEF CompleteUnlessFailed
<1>0. s \in Snaps
  BY TypeStep DEF TypeOK
<1>1. CASE Quiet
  <2>1. s \in snapshots /\ s \notin failed /\ Stored(s)' = Stored(s)
    BY <1>1 DEF Quiet, Stored
  <2>2. ~BeingBuilt(s)
    BY <1>1 DEF Quiet, BeingBuilt, BuiltBy
  <2> QED
    BY <1>0, <2>1, <2>2, PlanStays DEF IInv, CompleteUnlessFailed
<1>2. ASSUME NEW p \in Procs, Writes(p) PROVE Stored(s)' = Planned(s)'
  <2>1. /\ scan'[s] = scan[s] /\ snap' = snap /\ failed' = failed
        /\ Planned(s)' = Planned(s)
        /\ OwnRowsOnly(p, s)
        /\ \A q \in Procs \ {p} : pc'[q] = pc[q] /\ pc[q] \notin Building
    BY <1>0, <1>2, WriterFacts, WriterRows, PlannedFrame DEF Holding
  <2>2. CASE s = snap[p]
    <3>1. LinkTests(p)
      BY <1>2, <2>1, <2>2 DEF OwnRowsOnly, BeingBuilt, BuiltBy
    <3> QED
      BY <1>0, <2>1, <2>2, <3>1, LinkTestsCompletes DEF Stored, Planned
  <2>3. CASE s # snap[p]
    <3>1. s \in snapshots /\ ~BeingBuilt(s) /\ Stored(s)' = Stored(s)
      BY <1>2, <2>1, <2>3 DEF OwnRowsOnly, BeingBuilt, BuiltBy, Stored
    <3> QED
      BY <2>1, <3>1 DEF IInv, CompleteUnlessFailed
  <2> QED
    BY <2>2, <2>3
<1> QED
  BY <1>1, <1>2, QuietStep

LEMMA ReplyStep == IInv /\ [Next]_vars => ReplyInv'
<1> SUFFICES ASSUME IInv, [Next]_vars, NEW q \in Procs, reply'[q] # None
             PROVE  /\ pc'[q] = "close" /\ reply'[q].snap \in snapshots'
                    /\ reply'[q].graph = Stored(reply[q].snap)'
  BY DEF ReplyInv
<1>1. Quiet
  <2>1. ASSUME NEW p \in Procs, Writes(p) PROVE FALSE
    BY <2>1, WriterFacts
  <2> QED
    BY <2>1, QuietStep
<1>2. nodes' = nodes /\ edges' = edges /\ snapshots' = snapshots
  BY <1>1 DEF Quiet
<1>3. CASE reply'[q] = reply[q] /\ pc'[q] = pc[q]
  BY <1>2, <1>3 DEF IInv, ReplyInv, Stored
<1>4. CASE /\ pc'[q] = "close" /\ snap[q] \in snapshots
           /\ reply'[q] = [snap |-> snap[q], graph |-> Stored(snap[q])]
  BY <1>2, <1>4 DEF Stored
<1> QED
  BY <1>1, <1>3, <1>4 DEF Quiet

-----------------------------------------------------------------------------
(* Every reachable state satisfies the inductive invariant, for any number  *)
(* of processes, files, analyses and deaths, whatever the files contain,   *)
(* whichever ids their definitions share, and for any cap.                 *)
THEOREM Invariant == Spec => []IInv
<1>1. IInv /\ [Next]_vars => IInv'
  BY TypeStep, LockStep, IdStep, CurrentStep, ProgressStep, RowsStep, CompleteStep,
     ReplyStep, InitStep DEF IInv
<1> QED
  BY InitIInv, <1>1, PTL DEF Spec

(* The types, and the tables' own constraint that a current snapshot is a   *)
(* stored one.                                                             *)
THEOREM TypeCorrect == Spec => []TypeOK
<1>1. IInv => TypeOK
  BY DEF IInv
<1> QED
  BY Invariant, <1>1, PTL

(* create_snapshot leaves at most one current snapshot, whatever analyses   *)
(* overlap and wherever they die.                                          *)
THEOREM AtMostOneCurrent == Spec => []OneCurrent
<1>1. IInv => OneCurrent
  BY DEF IInv, CurrentInv
<1> QED
  BY Invariant, <1>1, PTL

(* What run_analyze has stored when it is over is what it read and derived  *)
(* from it, of definitions with one id the first file's, unless it died     *)
(* writing.                                                                 *)
THEOREM FinishedIsComplete == Spec => []CompleteUnlessFailed
<1>1. IInv => CompleteUnlessFailed
  BY DEF IInv
<1> QED
  BY Invariant, <1>1, PTL

(* run_status, run_graph_overview and run_impact answer from one whole      *)
(* snapshot, although they read it in several queries, unless its analyze   *)
(* died writing it: such a snapshot is served as far as it got.             *)
THEOREM ReadersSeeWholeSnapshots == Spec => []ReadsWholeSnapshot
<1>1. ASSUME IInv PROVE ReadsWholeSnapshot
  <2> SUFFICES ASSUME NEW p \in Procs, reply[p] # None, reply[p].snap \notin failed
               PROVE  reply[p].graph = Planned(reply[p].snap)
    BY DEF ReadsWholeSnapshot
  <2>1. pc[p] = "close" /\ reply[p].snap \in snapshots
        /\ reply[p].graph = Stored(reply[p].snap)
    BY <1>1 DEF IInv, ReplyInv
  <2>2. \A q \in Procs : pc[q] \notin Building
    BY <1>1, <2>1 DEF IInv, LockInv, Holding, Building
  <2>3. ~BeingBuilt(reply[p].snap)
    BY <2>2 DEF BeingBuilt, BuiltBy
  <2> QED
    BY <1>1, <2>1, <2>3 DEF IInv, CompleteUnlessFailed
<1> QED
  BY Invariant, <1>1, PTL

(* Without a death, a repository that has been analysed has a current       *)
(* snapshot whenever its database can be opened.                           *)
THEOREM CurrentSurvives == Spec => []OnlyFailureLeavesNoCurrent
<1>1. IInv => OnlyFailureLeavesNoCurrent
  BY Bounds DEF IInv, LockInv, CurrentInv, OnlyFailureLeavesNoCurrent, Holding
<1> QED
  BY Invariant, <1>1, PTL

LEMMA KeysRespected == IInv => OnlyLostInitTripsKeys
<1> SUFFICES ASSUME IInv, NEW p \in Procs, KeyViolation(p) PROVE ~repoRow /\ failures > 0
  BY DEF OnlyLostInitTripsKeys
<1> USE DEF IInv, LockInv, IdInv, InitInv, Holding, Building, Analyzing, Unstored
<1>1. CASE pc[p] = "insert"
  <2>1. lock = p /\ ~repoRow
    BY <1>1 DEF KeyViolation
  <2>2. \A q \in Procs : pc[q] # "upsert"
    BY <1>1, <2>1
  <2> QED
    BY <2>1, <2>2, Bounds DEF TypeOK
<1>2. CASE pc[p] \in {"resolve", "tests"}
  <2>1. PICK s \in Snaps : s = snap[p]
    BY <1>2, BuilderFacts
  <2>2. ProgressOf(p, s)
    BY <2>1 DEF ProgressInv
  <2>3. /\ nodes[s] = RowsFrom(s, Scanned(s))
        /\ pc[p] = "resolve" => todo[p] \subseteq Scanned(s)
    BY <1>2, <2>2 DEF ProgressOf
  <2>4. /\ \A f \in Scanned(s) : Referenced(s, ResolvedEdges(s, f))
        /\ Referenced(s, TestEdges(s))
    BY <2>3, PlannedReferenced
  <2> QED
    BY <1>2, <2>1, <2>3, <2>4 DEF KeyViolation
<1> QED
  BY <1>1, <1>2 DEF KeyViolation

(* No insert of run_analyze is refused by a key of the schema, except for   *)
(* want of the repository's own row.                                       *)
THEOREM InsertsRespectKeys == Spec => []OnlyLostInitTripsKeys
BY Invariant, KeysRespected, PTL

(* Once its analyze is over, the rows of a snapshot never change.           *)
THEOREM SettledStaysPut == Spec => SettledNeverChanges
<1>1. ASSUME IInv, [Next]_vars, NEW s \in snapshots, ~BeingBuilt(s)
      PROVE  s \in snapshots' /\ Stored(s)' = Stored(s)
  <2>1. CASE Quiet
    BY <2>1 DEF Quiet, Stored
  <2>2. ASSUME NEW p \in Procs, Writes(p) PROVE s \in snapshots' /\ Stored(s)' = Stored(s)
    <3>1. s \in Snaps
      BY <1>1 DEF IInv, TypeOK
    <3>2. s # snap[p]
      BY <1>1, <2>2, WriterFacts DEF IInv, IdInv, Unstored, BeingBuilt, BuiltBy
    <3> QED
      BY <1>1, <2>2, <3>1, <3>2, WriterRows DEF OwnRowsOnly, Stored
  <2> QED
    BY <1>1, <2>1, <2>2, QuietStep
<1>2. IInv /\ [Next]_vars =>
        [\A s \in snapshots : ~BeingBuilt(s) => s \in snapshots' /\ Stored(s)' = Stored(s)]_vars
  BY <1>1
<1> QED
  BY Invariant, <1>2, PTL DEF Spec, SettledNeverChanges

(* What the cap's boundary rests on besides: a snapshot whose analyze has   *)
(* not started has no files, a scan under way is within the cap, and the   *)
(* one that exceeded it is nobody else's.                                  *)
CapInv ==
  /\ NoTruncatedScan
  /\ \A s \in Snaps : s > clock => scan[s] = NoFiles
  /\ \A p \in Procs :
       /\ pc[p] \in Unstored => Cardinality(Scanned(snap[p])) <= FileCap
       /\ outcome[p] = "RepositoryTooLargeError" =>
            /\ pc[p] = "idle" /\ snap[p] \in 1..clock
            /\ \A q \in Procs : pc[q] = "scan" => snap[q] # snap[p]

(* A step that neither starts an analyze nor scans a file keeps all of it. *)
Past == {"connect", "retire", "insert"}

KeepsScan(q) ==
  /\ pc'[q] \in Unstored => pc[q] \in Unstored /\ snap'[q] = snap[q]
  /\ pc'[q] = "scan" => pc[q] = "scan"
  /\ pc'[q] \in Past => pc[q] \in Past /\ todo'[q] = todo[q]
  /\ outcome'[q] = "RepositoryTooLargeError" =>
       /\ outcome[q] = "RepositoryTooLargeError"
       /\ pc'[q] = pc[q] /\ snap'[q] = snap[q] /\ todo'[q] = todo[q]

Scans(p) ==
  AnalyzeStart(p) \/ \E f \in Files : ScanFile(p, f) \/ ScanTooLarge(p, f)

LEMMA OthersKeepScan ==
  ASSUME IInv, CapInv, [Next]_vars, \A p \in Procs : ~Scans(p)
  PROVE  scan' = scan /\ clock' = clock /\ \A q \in Procs : KeepsScan(q)
<1>1. /\ pc \in [Procs -> PCs] /\ todo \in [Procs -> SUBSET Files]
      /\ outcome \in [Procs -> Outcomes] /\ snap \in [Procs -> 0..MaxSnapshots]
      /\ \A p \in Procs : outcome[p] = "RepositoryTooLargeError" => pc[p] = "idle"
  BY DEF IInv, TypeOK, CapInv
<1> DEFINE Kept == scan' = scan /\ clock' = clock /\ \A q \in Procs : KeepsScan(q)
<1> USE DEF KeepsScan, Unstored, Past, Goto, EndsWith, Quit, disk
<1>2. ASSUME NEW p \in Procs, Step(p) PROVE Kept
  <2>1. CASE InitUpsert(p) \/ AnalyzeConnect(p) \/ AnalyzeRefused(p) \/ RetireSnapshots(p)
    BY <1>1, <2>1 DEF InitUpsert, AnalyzeConnect, AnalyzeRefused, RetireSnapshots
  <2>2. CASE InsertSnapshot(p) \/ LinkTests(p) \/ RefusedByKey(p)
    BY <1>1, <2>2 DEF InsertSnapshot, LinkTests, RefusedByKey, NextPass
  <2>3. CASE \E f \in Files : InsertNodes(p, f) \/ ResolveFile(p, f)
    BY <1>1, <2>3 DEF InsertNodes, ResolveFile, NextPass
  <2>4. CASE Lookup(p) \/ LookupNothing(p) \/ ReadRows(p) \/ GitFails(p) \/ Close(p)
    BY <1>1, <2>4 DEF Lookup, LookupNothing, ReadRows, GitFails, Close
  <2> QED
    BY <1>2, <2>1, <2>2, <2>3, <2>4 DEF Step, Scans
<1>3. ASSUME NEW p \in Procs, Start(p) PROVE Kept
  BY <1>1, <1>3 DEF Start, Scans, InitConnect, AnalyzeWithoutGit, ReadConnect,
     NotInitialized, StartRefused
<1>4. ASSUME NEW p \in Procs, Die(p) PROVE Kept
  BY <1>1, <1>4 DEF Die
<1>5. ASSUME NEW f \in Files, NEW v \in Versions, Edit(f, v) PROVE Kept
  BY <1>5 DEF Edit, local
<1>6. ASSUME UNCHANGED vars PROVE Kept
  BY <1>6 DEF vars, local
<1> QED
  BY <1>2, <1>3, <1>4, <1>5, <1>6 DEF Next

LEMMA CapKept ==
  ASSUME IInv, CapInv, scan' = scan, clock' = clock, \A q \in Procs : KeepsScan(q)
  PROVE  CapInv'
<1>1. \A q \in Procs : snap'[q] = snap[q] => Scanned(snap[q])' = Scanned(snap[q])
  BY DEF Scanned
<1> USE DEF KeepsScan, Unstored, Past
<1>2. ASSUME NEW q \in Procs, pc'[q] \in Unstored
      PROVE  Cardinality(Scanned(snap[q]))' <= FileCap
  BY <1>1, <1>2 DEF CapInv
<1>3. ASSUME NEW q \in Procs, pc'[q] \in Past PROVE todo'[q] = {}
  BY <1>3 DEF CapInv, NoTruncatedScan
<1>4. ASSUME NEW p \in Procs, outcome'[p] = "RepositoryTooLargeError"
      PROVE  /\ pc'[p] = "idle" /\ snap'[p] \in 1..clock /\ todo'[p] # {}
             /\ Cardinality(Scanned(snap[p]))' = FileCap
             /\ \A q \in Procs : pc'[q] = "scan" => snap'[q] # snap'[p]
  BY <1>1, <1>4 DEF CapInv, NoTruncatedScan
<1> QED
  BY <1>2, <1>3, <1>4 DEF CapInv, NoTruncatedScan

LEMMA CapStart ==
  ASSUME IInv, CapInv, NEW p \in Procs, AnalyzeStart(p)
  PROVE  CapInv'
<1> USE DEF Unstored
<1>1. /\ pc \in [Procs -> PCs] /\ todo \in [Procs -> SUBSET Files]
      /\ outcome \in [Procs -> Outcomes] /\ snap \in [Procs -> 0..MaxSnapshots]
      /\ clock \in Nat /\ clock < MaxSnapshots /\ MaxSnapshots \in Nat /\ FileCap \in Nat
  <2>1. TypeOK
    BY DEF IInv
  <2>2. MaxSnapshots \in Nat /\ FileCap \in Nat
    BY Sizes
  <2>3. clock \in 0..MaxSnapshots /\ clock < MaxSnapshots
    BY <2>1 DEF TypeOK, AnalyzeStart
  <2>4. clock \in Nat
    BY <2>2, <2>3
  <2> QED
    BY <2>1, <2>2, <2>3, <2>4 DEF TypeOK
<1>2. /\ scan' = scan /\ clock' = clock + 1 /\ snap'[p] = clock + 1
      /\ outcome'[p] = "running" /\ pc'[p] \in {"scan", "connect"}
      /\ pc'[p] = "connect" => todo'[p] = {}
      /\ \A q \in Procs \ {p} : /\ pc'[q] = pc[q] /\ snap'[q] = snap[q]
                                /\ todo'[q] = todo[q] /\ outcome'[q] = outcome[q]
  BY <1>1 DEF AnalyzeStart, Goto, EndsWith
<1>3. scan[clock + 1] = NoFiles
  BY <1>1 DEF CapInv, Snaps
<1>4. Scanned(snap[p])' = {}
  BY <1>2, <1>3 DEF Scanned, NoFiles
<1>5. Cardinality(Scanned(snap[p]))' <= FileCap
  BY <1>1, <1>4, FS_EmptySet
<1>6. \A q \in Procs \ {p} : Scanned(snap[q])' = Scanned(snap[q])
  BY <1>2 DEF Scanned
<1>7. \A s \in Snaps : s > clock' => scan'[s] = NoFiles
  BY <1>1, <1>2 DEF CapInv, Snaps
<1>8. ASSUME NEW q \in Procs
      PROVE  /\ pc'[q] \in Unstored => Cardinality(Scanned(snap[q]))' <= FileCap
             /\ pc'[q] \in {"connect", "retire", "insert"} => todo'[q] = {}
             /\ outcome'[q] = "RepositoryTooLargeError" =>
                  /\ pc'[q] = "idle" /\ snap'[q] \in 1..clock /\ todo'[q] # {}
                  /\ Cardinality(Scanned(snap[q]))' = FileCap
                  /\ \A r \in Procs : pc'[r] = "scan" => snap'[r] # snap'[q]
  <2>1. CASE q = p
    BY <1>2, <1>5, <2>1
  <2>2. CASE q # p
    BY <1>1, <1>2, <1>6, <2>2 DEF CapInv, NoTruncatedScan
  <2> QED
    BY <2>1, <2>2
<1>9. \A q \in Procs : snap'[q] \in 1..clock => snap'[q] \in 1..clock'
  BY <1>1, <1>2
<1> QED
  BY <1>7, <1>8, <1>9 DEF CapInv, NoTruncatedScan

LEMMA CapScan ==
  ASSUME IInv, CapInv, NEW p \in Procs, NEW f \in Files, ScanFile(p, f)
  PROVE  CapInv'
<1> USE DEF Unstored
<1>1. /\ pc \in [Procs -> PCs] /\ todo \in [Procs -> SUBSET Files] /\ clock \in Nat
      /\ scan \in [Snaps -> [Files -> Versions]] /\ snap[p] \in Snaps
      /\ snap[p] \in 1..clock /\ pc[p] = "scan" /\ FileCap \in Nat /\ IsFiniteSet(Files)
  BY Bounds, Sizes DEF IInv, TypeOK, IdInv, Analyzing, ScanFile, Snaps
<1> DEFINE s == snap[p]
<1>2. /\ clock' = clock /\ snap' = snap /\ outcome' = outcome
      /\ scan'[s] = [scan[s] EXCEPT ![f] = tree[f]]
      /\ \A t \in Snaps \ {s} : scan'[t] = scan[t]
      /\ pc'[p] \in {"scan", "connect"}
      /\ pc'[p] = "connect" => todo'[p] = {}
      /\ \A q \in Procs \ {p} : pc'[q] = pc[q] /\ todo'[q] = todo[q]
  BY <1>1 DEF ScanFile, Goto
<1>3. \A q \in Procs \ {p} :
        pc[q] \in Unstored \/ outcome[q] = "RepositoryTooLargeError" => snap[q] \in Snaps \ {s}
  BY <1>1 DEF IInv, IdInv, TypeOK, CapInv, Analyzing, Snaps
<1>4. \A q \in Procs \ {p} :
        snap[q] \in Snaps \ {s} => Scanned(snap[q])' = Scanned(snap[q])
  BY <1>2 DEF Scanned
<1>5. Cardinality(Scanned(snap[p]))' <= FileCap
  <2>1. Scanned(s) \subseteq Files /\ IsFiniteSet(Scanned(s)) /\ Cardinality(Scanned(s)) \in Nat
    BY <1>1, FS_Subset, FS_CardinalityType DEF Scanned
  <2>2. Cardinality(Scanned(s)) <= FileCap
    BY <1>1 DEF CapInv
  <2>3. Scanned(snap[p])' = {g \in Files : scan'[s][g] # Absent}
    BY <1>2 DEF Scanned
  <2>4. CASE tree[f] = Absent
    <3>1. Scanned(snap[p])' \subseteq Scanned(s)
      BY <1>1, <1>2, <2>3, <2>4 DEF Scanned
    <3>2. Cardinality(Scanned(snap[p])') <= Cardinality(Scanned(s))
                /\ Cardinality(Scanned(snap[p])') \in Nat
      BY <2>1, <3>1, FS_Subset, FS_CardinalityType
    <3> QED
      BY <1>1, <2>1, <2>2, <3>2
  <2>5. CASE tree[f] # Absent
    <3>1. Scanned(snap[p])' = Scanned(s) \cup {f}
      BY <1>1, <1>2, <2>3, <2>5 DEF Scanned
    <3>2. Cardinality(Scanned(s)) < FileCap
      BY <2>5 DEF ScanFile, UnderCap
    <3>3. Cardinality(Scanned(s) \cup {f}) \in {Cardinality(Scanned(s)), Cardinality(Scanned(s)) + 1}
      BY <2>1, FS_AddElement
    <3> QED
      BY <1>1, <2>1, <3>1, <3>2, <3>3
  <2> QED
    BY <2>4, <2>5
<1>6. \A t \in Snaps : t > clock' => scan'[t] = NoFiles
  BY <1>1, <1>2 DEF CapInv
<1>7. ASSUME NEW q \in Procs
      PROVE  /\ pc'[q] \in Unstored => Cardinality(Scanned(snap[q]))' <= FileCap
             /\ pc'[q] \in {"connect", "retire", "insert"} => todo'[q] = {}
             /\ outcome'[q] = "RepositoryTooLargeError" =>
                  /\ pc'[q] = "idle" /\ snap'[q] \in 1..clock' /\ todo'[q] # {}
                  /\ Cardinality(Scanned(snap[q]))' = FileCap
                  /\ \A r \in Procs : pc'[r] = "scan" => snap'[r] # snap'[q]
  <2>1. CASE q = p
    <3>1. outcome[p] # "RepositoryTooLargeError"
      BY <1>1 DEF CapInv
    <3> QED
      BY <1>2, <1>5, <2>1, <3>1
  <2>2. CASE q # p
    BY <1>1, <1>2, <1>3, <1>4, <2>2 DEF CapInv, NoTruncatedScan
  <2> QED
    BY <2>1, <2>2
<1> QED
  BY <1>6, <1>7 DEF CapInv, NoTruncatedScan

LEMMA CapExceeded ==
  ASSUME IInv, CapInv, NEW p \in Procs, NEW f \in Files, ScanTooLarge(p, f)
  PROVE  CapInv'
<1> USE DEF Unstored
<1>1. /\ pc \in [Procs -> PCs] /\ outcome \in [Procs -> Outcomes] /\ pc[p] = "scan"
      /\ snap[p] \in 1..clock /\ FileCap \in Nat /\ IsFiniteSet(Files)
  BY Sizes DEF IInv, TypeOK, IdInv, Analyzing, ScanTooLarge
<1>2. /\ clock' = clock /\ snap' = snap /\ todo' = todo /\ scan' = scan
      /\ pc'[p] = "idle" /\ f \in todo[p] /\ ~UnderCap(snap[p])
      /\ \A q \in Procs \ {p} : pc'[q] = pc[q] /\ outcome'[q] = outcome[q]
  BY <1>1 DEF ScanTooLarge, IsNext, Quit, Goto, EndsWith
<1>3. \A q \in Procs : Scanned(snap[q])' = Scanned(snap[q])
  BY <1>2 DEF Scanned
<1>4. Cardinality(Scanned(snap[p])) = FileCap
  <2>1. Cardinality(Scanned(snap[p])) \in Nat
    BY <1>1, FS_Subset, FS_CardinalityType DEF Scanned
  <2>2. Cardinality(Scanned(snap[p])) <= FileCap
    BY <1>1 DEF CapInv
  <2> QED
    BY <1>1, <1>2, <2>1, <2>2 DEF UnderCap
<1>5. \A q \in Procs : pc'[q] = "scan" => snap[q] # snap[p]
  BY <1>1, <1>2 DEF IInv, IdInv, Analyzing
<1>6. ASSUME NEW q \in Procs
      PROVE  /\ pc'[q] \in Unstored => Cardinality(Scanned(snap[q]))' <= FileCap
             /\ pc'[q] \in {"connect", "retire", "insert"} => todo'[q] = {}
             /\ outcome'[q] = "RepositoryTooLargeError" =>
                  /\ pc'[q] = "idle" /\ snap'[q] \in 1..clock' /\ todo'[q] # {}
                  /\ Cardinality(Scanned(snap[q]))' = FileCap
                  /\ \A r \in Procs : pc'[r] = "scan" => snap'[r] # snap'[q]
  <2>1. CASE q = p
    BY <1>1, <1>2, <1>3, <1>4, <1>5, <2>1
  <2>2. CASE q # p
    BY <1>1, <1>2, <1>3, <2>2 DEF CapInv, NoTruncatedScan
  <2> QED
    BY <2>1, <2>2
<1> QED
  BY <1>2, <1>6 DEF CapInv, NoTruncatedScan

(* An analyze that goes on to the database has read every file it listed,   *)
(* and no more than the cap; one that gives up has read as many as the cap  *)
(* allows and had another (RepositoryScanner.scan).                         *)
THEOREM ScansAreWhole == Spec => []NoTruncatedScan
<1>1. Init => CapInv
  BY DEF Init, CapInv, NoTruncatedScan, Unstored
<1>2. IInv /\ CapInv /\ [Next]_vars => CapInv'
  <2> SUFFICES ASSUME IInv, CapInv, [Next]_vars PROVE CapInv'
    OBVIOUS
  <2>1. CASE \A p \in Procs : ~Scans(p)
    BY <2>1, OthersKeepScan, CapKept
  <2>2. ASSUME NEW p \in Procs, Scans(p) PROVE CapInv'
    BY <2>2, CapStart, CapScan, CapExceeded DEF Scans
  <2> QED
    BY <2>1, <2>2
<1>3. CapInv => NoTruncatedScan
  BY DEF CapInv
<1> QED
  BY Invariant, <1>1, <1>2, <1>3, PTL DEF Spec

-----------------------------------------------------------------------------
(* AnalysisStore implements SnapshotRegister.  The step that publishes a   *)
(* snapshot is the statement that retires its predecessors, the step that  *)
(* settles it is the insertion of the test edges, and a death in between   *)
(* damages it.  That the register's content does not move while the rows   *)
(* are written one file at a time is what the refinement mapping and the   *)
(* invariant IInv are for.                                                 *)

(* The refinement mapping without its CHOOSEs. *)
View ==
  /\ \A p \in Procs : Publishing(p) => snap[p] \in Snaps /\ SettlingSnap = snap[p]
  /\ (\A p \in Procs : ~Publishing(p)) => SettlingSnap = None
  /\ SettlingSnap # None => HeadSnap = SettlingSnap
  /\ SettlingSnap = None /\ current = {} => HeadSnap = None
  /\ SettlingSnap = None => \A s \in current : HeadSnap = s
  /\ \A s \in Snaps :
       /\ s = SettlingSnap => ContentOf(s) = Planned(s)
       /\ s # SettlingSnap => ContentOf(s) = IF s \in snapshots THEN Stored(s) ELSE None

LEMMA ViewHolds == IInv => View
<1> SUFFICES ASSUME IInv PROVE View
  OBVIOUS
<1>1. ASSUME NEW p \in Procs, Publishing(p)
      PROVE  snap[p] \in Snaps /\ SettlingSnap = snap[p]
  <2>1. pc[p] \in Holding /\ pc[p] \in Analyzing
    BY <1>1 DEF Publishing, Building, Holding, Analyzing, Unstored
  <2>2. Publisher = {p}
    BY <1>1, <2>1 DEF IInv, LockInv, Publisher, Publishing, Building, Holding
  <2> QED
    BY <2>1, <2>2, Bounds DEF SettlingSnap, IInv, TypeOK, IdInv, Snaps
<1>2. ASSUME \A p \in Procs : ~Publishing(p) PROVE SettlingSnap = None
  BY <1>2 DEF Publisher, SettlingSnap
<1>3. \A s \in current : current = {s}
  BY DEF IInv, CurrentInv, OneCurrent
<1>4. SettlingSnap = None => \A s \in current : HeadSnap = s
  BY <1>3 DEF HeadSnap
<1> QED
  BY <1>1, <1>2, <1>4 DEF View, HeadSnap, ContentOf

LEMMA InitRefines == Init => Register!Init
<1> SUFFICES ASSUME Init PROVE Register!Init
  OBVIOUS
<1>1. View
  BY InitIInv, ViewHolds
<1>2. SettlingSnap = None
  BY <1>1 DEF View, Publishing, Building, Init
<1>3. HeadSnap = None /\ \A s \in Snaps : ContentOf(s) = None
  BY <1>1, <1>2, Bounds DEF View, Init, Snaps
<1> QED
  BY <1>2, <1>3 DEF Register!Init, Init

(* Neither the published content nor what is current moves. *)
Unmoved ==
  /\ \A s \in Snaps : ContentOf(s)' = ContentOf(s)
  /\ HeadSnap' = HeadSnap
  /\ SettlingSnap' = SettlingSnap

(* A step that neither publishes, settles nor damages leaves the content   *)
(* where it is, also when the snapshot's rows are being written.           *)
LEMMA SamePublishers ==
  ASSUME View, View',
         \A q \in Procs :
           /\ Publishing(q)' <=> Publishing(q)
           /\ Publishing(q) => snap'[q] = snap[q],
         \A s \in Snaps :
           \/ /\ Stored(s)' = Stored(s) /\ (s \in snapshots' <=> s \in snapshots)
              /\ Planned(s)' = Planned(s) \/ \A q \in Procs : Publishing(q) => snap[q] # s
           \/ /\ \E q \in Procs : Publishing(q) /\ snap[q] = s
              /\ Planned(s)' = Planned(s),
         current' = current \/ \E q \in Procs : Publishing(q)
  PROVE  Unmoved
<1>1. CASE \E q \in Procs : Publishing(q)
  <2>1. PICK q \in Procs : Publishing(q)
    BY <1>1
  <2>2. PICK t \in Snaps : t = snap[q]
    BY <2>1 DEF View
  <2>3. SettlingSnap = t /\ SettlingSnap' = t
    BY <2>1, <2>2 DEF View
  <2>4. t # None
    BY Bounds DEF Snaps
  <2>5. HeadSnap = t /\ HeadSnap' = t
    BY <2>3, <2>4 DEF View
  <2>6. ASSUME NEW s \in Snaps PROVE ContentOf(s)' = ContentOf(s)
    <3>1. CASE s = t
      BY <2>1, <2>2, <2>3, <3>1 DEF View
    <3>2. CASE s # t
      BY <2>3, <3>2 DEF View
    <3> QED
      BY <3>1, <3>2
  <2> QED
    BY <2>3, <2>5, <2>6 DEF Unmoved
<1>2. CASE \A q \in Procs : ~Publishing(q)
  <2>1. SettlingSnap = None /\ SettlingSnap' = None /\ current' = current
    BY <1>2 DEF View
  <2>2. HeadSnap' = HeadSnap
    BY <2>1 DEF View
  <2>3. ASSUME NEW s \in Snaps PROVE ContentOf(s)' = ContentOf(s)
    <3>1. s # None
      BY Bounds DEF Snaps
    <3> QED
      BY <1>2, <2>1, <3>1 DEF View
  <2> QED
    BY <2>1, <2>2, <2>3 DEF Unmoved
<1> QED
  BY <1>1, <1>2

(* Nothing of what the mapping is made of changes. *)
Calm ==
  /\ nodes' = nodes /\ edges' = edges /\ snapshots' = snapshots /\ current' = current
  /\ \A q \in Procs :
       /\ Publishing(q)' <=> Publishing(q)
       /\ Publishing(q) => snap'[q] = snap[q]
  /\ \A s \in Snaps : scan'[s] = scan[s] \/ \A q \in Procs : Publishing(q) => snap[q] # s

LEMMA CalmIsUnmoved ==
  ASSUME View, View', Calm
  PROVE  Unmoved
<1>1. \A s \in Snaps : Stored(s)' = Stored(s)
  BY DEF Calm, Stored
<1>2. \A s \in Snaps : scan'[s] = scan[s] => Planned(s)' = Planned(s)
  BY PlannedFrame
<1> QED
  BY <1>1, <1>2, SamePublishers DEF Calm

(* The steps that neither write rows nor retire a snapshot. *)
Still(p) ==
  \/ InitConnect(p) \/ InitUpsert(p) \/ AnalyzeStart(p) \/ AnalyzeWithoutGit(p)
  \/ \E f \in Files : ScanFile(p, f) \/ ScanTooLarge(p, f)
  \/ AnalyzeConnect(p) \/ AnalyzeRefused(p) \/ RefusedByKey(p)
  \/ ReadConnect(p) \/ Lookup(p) \/ LookupNothing(p) \/ GitFails(p)
  \/ NotInitialized(p) \/ StartRefused(p)

LEMMA StillIsCalm ==
  ASSUME IInv, OnlyLostInitTripsKeys, NEW p \in Procs, Still(p)
  PROVE  Calm /\ reply' = reply
<1> USE DEF IInv, TypeOK, LockInv, IdInv, Holding, Analyzing, Unstored, Building, Publishing,
            disk, local, Goto, EndsWith, Quit, Connect, Calm
<1>1. CASE InitConnect(p)
  BY <1>1 DEF InitConnect
<1>2. CASE InitUpsert(p)
  BY <1>2 DEF InitUpsert
<1>3. CASE AnalyzeStart(p)
  BY <1>3 DEF AnalyzeStart
<1>4. CASE AnalyzeWithoutGit(p)
  BY <1>4 DEF AnalyzeWithoutGit
<1>5. ASSUME NEW f \in Files, ScanFile(p, f) PROVE Calm /\ reply' = reply
  BY <1>5 DEF ScanFile
<1>6. ASSUME NEW f \in Files, ScanTooLarge(p, f) PROVE Calm /\ reply' = reply
  BY <1>6 DEF ScanTooLarge
<1>7. CASE AnalyzeConnect(p)
  BY <1>7 DEF AnalyzeConnect
<1>8. CASE AnalyzeRefused(p)
  BY <1>8 DEF AnalyzeRefused
<1>9. CASE RefusedByKey(p)
  BY <1>9 DEF RefusedByKey, OnlyLostInitTripsKeys, InitInv
<1>10. CASE ReadConnect(p)
  BY <1>10 DEF ReadConnect
<1>11. CASE Lookup(p)
  BY <1>11 DEF Lookup
<1>12. CASE LookupNothing(p)
  BY <1>12 DEF LookupNothing
<1>13. CASE GitFails(p)
  BY <1>13 DEF GitFails
<1>14. CASE NotInitialized(p)
  BY <1>14 DEF NotInitialized
<1>15. CASE StartRefused(p)
  BY <1>15 DEF StartRefused
<1>16. QED
  BY <1>1, <1>2, <1>3, <1>4, <1>5, <1>6, <1>7, <1>8, <1>9, <1>10, <1>11, <1>12, <1>13, <1>14,
     <1>15 DEF Still

(* While the rows are written the content stays. *)
LEMMA WritingIsUnmoved ==
  ASSUME IInv, [Next]_vars, View, View', NEW p \in Procs, Writes(p), ~LinkTests(p)
  PROVE  Unmoved /\ reply' = reply
<1>1. /\ pc[p] \in {"insert"} \cup Building /\ snap[p] \in Snaps
      /\ scan' = scan /\ snap' = snap /\ reply' = reply
      /\ \A q \in Procs \ {p} : pc'[q] = pc[q] /\ pc'[q] \notin Holding
  BY WriterFacts
<1>2. pc'[p] \in Building
  BY <1>1, WriterRows DEF OwnRowsOnly
<1>3. Publishing(p) /\ Publishing(p)'
  BY <1>1, <1>2 DEF Publishing, Writes, InsertSnapshot, InsertNodes, ResolveFile, Building
<1>4. \A q \in Procs \ {p} : ~Publishing(q) /\ ~Publishing(q)'
  BY <1>1 DEF Publishing, Holding, Building
<1>5. \A s \in Snaps : Planned(s)' = Planned(s)
  BY <1>1, PlannedFrame
<1>6. \A s \in Snaps :
        s # snap[p] => Stored(s)' = Stored(s) /\ (s \in snapshots' <=> s \in snapshots)
  BY WriterRows DEF OwnRowsOnly, Stored
<1> QED
  BY <1>1, <1>3, <1>4, <1>5, <1>6, SamePublishers

(* A planned edge does not dangle. *)
LEMMA PlannedClosed ==
  ASSUME TypeOK, NEW s \in Snaps
  PROVE  Planned(s) \in Graph /\ Register!Closed(Planned(s))
<1>1. PlannedEdges(s) \subseteq Kinds \X Known(s) \X Known(s) /\ Known(s) \subseteq Nodes
  BY PlannedEnds
<1>2. Scanned(s) \in SUBSET Files
  BY DEF Scanned
<1>3. \A i \in Known(s) : RowsFrom(s, Scanned(s))[i] # None
  BY <1>1, <1>2, RowsHave DEF Known, Definers
<1> QED
  BY <1>1, <1>3, PlannedType DEF Register!Closed, Register!HasNode, Planned

(* What is stored of a snapshot at any time is a part of what was planned. *)
LEMMA StoredIsPart ==
  ASSUME TypeOK, NEW s \in Snaps, RowsOf(s)
  PROVE  /\ Stored(s) \in Graph /\ Register!Closed(Stored(s))
         /\ Register!SubGraph(Stored(s), Planned(s))
<1>1. Register!Closed(Stored(s))
  BY DEF RowsOf, Referenced, Register!Closed, Register!HasNode, Stored
<1>2. Register!SubGraph(Stored(s), Planned(s))
  BY DEF RowsOf, Register!SubGraph, Register!HasNode, Stored, Planned
<1> QED
  BY <1>1, <1>2, PlannedType

LEMMA RetireRefines ==
  ASSUME IInv, View, View', NEW p \in Procs, RetireSnapshots(p)
  PROVE  [Register!Next]_(Register!vars)
<1>1. PICK s \in Snaps : s = snap[p]
  BY DEF RetireSnapshots, IInv, TypeOK, IdInv, Analyzing, Unstored, Snaps
<1>2. /\ s \notin snapshots /\ snapshots' = snapshots /\ scan' = scan /\ reply' = reply
      /\ snap' = snap /\ nodes' = nodes /\ edges' = edges /\ repoRow' = repoRow
      /\ current' = {} /\ pc'[p] = "insert"
      /\ \A q \in Procs : ~Publishing(q)
      /\ \A q \in Procs \ {p} : ~Publishing(q)'
  BY <1>1 DEF RetireSnapshots, RetiredFlags, Goto, IInv, TypeOK, LockInv, IdInv, Analyzing,
     Unstored, Holding, Building, Publishing
<1>3. Publishing(p)' <=> repoRow
  BY <1>2 DEF Publishing, Building
<1>4. \A t \in Snaps : Stored(t)' = Stored(t) /\ Planned(t)' = Planned(t) /\ t # None
  BY <1>2, PlannedFrame, Bounds DEF Stored, Snaps
<1>5. CASE repoRow
  <2>1. SettlingSnap = None /\ SettlingSnap' = s /\ HeadSnap' = s
    BY <1>1, <1>2, <1>3, <1>4, <1>5 DEF View
  <2>2. ContentOf(s) = None /\ ContentOf(s)' = Planned(s)
    BY <1>2, <1>4, <2>1 DEF View
  <2>3. \A t \in Snaps \ {s} : ContentOf(t)' = ContentOf(t)
    BY <1>2, <1>4, <2>1 DEF View
  <2>4. Planned(s) \in Graph /\ Register!Closed(Planned(s))
    BY PlannedClosed DEF IInv
  <2>5. Register!Publish(s)
    BY <1>2, <2>1, <2>2, <2>3, <2>4 DEF Register!Publish, Register!OthersKeep, Register!Graph,
       Graph, Edge
  <2> QED
    BY <2>5 DEF Register!Next
<1>6. CASE ~repoRow
  <2>1. current = {}
    BY <1>6 DEF IInv, TypeOK, InitInv
  <2>2. Calm
    BY <1>2, <1>3, <1>6, <2>1 DEF Calm
  <2> QED
    BY <1>2, <2>2, CalmIsUnmoved DEF Unmoved, Register!vars
<1> QED
  BY <1>5, <1>6

LEMMA LinkTestsRefines ==
  ASSUME IInv, IInv', [Next]_vars, View, View', NEW p \in Procs, LinkTests(p)
  PROVE  Register!Settle
<1>1. PICK s \in Snaps : s = snap[p]
  BY BuilderFacts DEF LinkTests, Building
<1>2. Writes(p)
  BY DEF Writes
<1>3. /\ scan' = scan /\ reply' = reply /\ pc'[p] = "close" /\ s \in snapshots'
      /\ s \in current' /\ Publishing(p)
      /\ \A q \in Procs : ~Publishing(q)'
  <2>1. pc[p] = "tests" /\ pc'[p] = "close" /\ current' = current /\ snapshots' = snapshots
    BY DEF LinkTests, Goto, IInv, TypeOK
  <2> QED
    BY <1>1, <1>2, <2>1, WriterFacts, BuilderFacts DEF IInv, CurrentInv, Publishing, Building,
      Holding
<1>4. SettlingSnap = s /\ SettlingSnap' = None /\ HeadSnap = s /\ HeadSnap' = s /\ s # None
  BY <1>1, <1>3, Bounds DEF View, Snaps
<1>5. ASSUME NEW t \in Snaps PROVE ContentOf(t)' = ContentOf(t)
  <2>1. Planned(t)' = Planned(t)
    BY <1>3, PlannedFrame
  <2>2. CASE t = s
    <3>1. Stored(t)' = Planned(t)
      BY <1>1, <2>2, LinkTestsCompletes DEF Stored, Planned
    <3> QED
      BY <1>3, <1>4, <2>2, <3>1 DEF View
  <2>3. CASE t # s
    <3>1. Stored(t)' = Stored(t) /\ (t \in snapshots' <=> t \in snapshots)
      BY <1>1, <1>2, <2>3, WriterRows DEF OwnRowsOnly, Stored
    <3>2. t # SettlingSnap /\ t # SettlingSnap'
      BY <1>4, <2>3, Bounds DEF Snaps
    <3> QED
      BY <3>1, <3>2 DEF View
  <2> QED
    BY <2>2, <2>3
<1> QED
  BY <1>3, <1>4, <1>5 DEF Register!Settle

LEMMA DieRefines ==
  ASSUME IInv, View, View', NEW p \in Procs, Die(p)
  PROVE  [Register!Next]_(Register!vars)
<1>1. /\ scan' = scan /\ nodes' = nodes /\ edges' = edges /\ snapshots' = snapshots
      /\ current' = current /\ snap' = snap /\ repoRow' = repoRow
      /\ reply' = [reply EXCEPT ![p] = None]
      /\ \A q \in Procs : Publishing(q)' <=> q # p /\ Publishing(q)
  BY DEF Die, Quit, Goto, EndsWith, disk, IInv, TypeOK, Publishing, Building
<1>2. CASE ~Publishing(p)
  <2>1. Unmoved
    BY <1>1, <1>2, CalmIsUnmoved DEF Calm
  <2>2. Register!Return(p)
    BY <1>1, <2>1 DEF Unmoved, Register!Return
  <2> QED
    BY <2>2 DEF Register!Next
<1>3. CASE Publishing(p)
  <2>1. PICK s \in Snaps : s = snap[p]
    BY <1>3 DEF View
  <2>2. /\ pc[p] \in {"insert"} \cup Building /\ \A q \in Procs \ {p} : ~Publishing(q)
        /\ reply[p] = None /\ reply \in [Procs -> Reply \cup {None}]
    BY <1>3 DEF Publishing, IInv, TypeOK, LockInv, ReplyInv, Holding, Building
  <2>3. reply' = reply
    BY <1>1, <2>2
  <2>4. SettlingSnap = s /\ SettlingSnap' = None /\ HeadSnap = s /\ ContentOf(s) = Planned(s)
    BY <1>1, <1>3, <2>1, <2>2, Bounds DEF View, Snaps
  <2>5. ASSUME NEW t \in Snaps \ {s} PROVE ContentOf(t)' = ContentOf(t)
    <3>1. Stored(t)' = Stored(t) /\ t # SettlingSnap /\ t # SettlingSnap'
      BY <1>1, <2>4, Bounds DEF Stored, Snaps
    <3> QED
      BY <1>1, <3>1 DEF View
  <2>6. CASE pc[p] = "insert"
    <3>1. s \notin snapshots /\ current = {}
      BY <2>1, <2>6 DEF IInv, IdInv, CurrentInv, Unstored
    <3>2. ContentOf(s)' = None /\ HeadSnap' = None
      BY <1>1, <2>4, <3>1, Bounds DEF View, Snaps
    <3> QED
      BY <2>3, <2>4, <2>5, <3>2 DEF Register!Next, Register!Damage, Register!OthersKeep
  <2>7. CASE pc[p] \in Building
    <3>1. s \in snapshots /\ s \in current /\ RowsOf(s) /\ TypeOK
      BY <2>1, <2>7 DEF IInv, IdInv, CurrentInv, RowsInv
    <3>2. ContentOf(s)' = Stored(s) /\ HeadSnap' = s
      BY <1>1, <2>4, <3>1, Bounds DEF View, Snaps, Stored
    <3>3. /\ Stored(s) \in Graph /\ Register!Closed(Stored(s))
          /\ Register!SubGraph(Stored(s), ContentOf(s))
      BY <2>4, <3>1, StoredIsPart
    <3>4. Register!Damage(s)
      BY <2>3, <2>4, <2>5, <3>2, <3>3 DEF Register!Damage, Register!OthersKeep, Register!Graph,
         Graph, Edge
    <3> QED
      BY <3>4 DEF Register!Next
  <2> QED
    BY <2>2, <2>6, <2>7
<1> QED
  BY <1>2, <1>3

LEMMA ReadRowsRefines ==
  ASSUME IInv, View, View', NEW p \in Procs, ReadRows(p)
  PROVE  Register!Answer(p)
<1>1. /\ pc[p] = "rows" /\ scan' = scan /\ nodes' = nodes /\ edges' = edges
      /\ snapshots' = snapshots /\ current' = current /\ snap' = snap
      /\ reply' = [reply EXCEPT ![p] = [snap |-> snap[p], graph |-> Stored(snap[p])]]
      /\ snap[p] \in snapshots /\ snap[p] \in current /\ snap[p] \in Snaps
      /\ \A q \in Procs : ~Publishing(q) /\ ~Publishing(q)'
  BY DEF ReadRows, disk, Goto, EndsWith, IInv, TypeOK, IdInv, CurrentInv, LockInv, Holding,
     Building, Publishing
<1>2. SettlingSnap = None /\ HeadSnap = snap[p]
  BY <1>1 DEF View
<1>3. ContentOf(snap[p]) = Stored(snap[p]) /\ snap[p] # None
  BY <1>1, <1>2, Bounds DEF View, Snaps
<1>4. Unmoved
  BY <1>1, CalmIsUnmoved DEF Calm
<1> QED
  BY <1>1, <1>2, <1>3, <1>4 DEF Register!Answer, Unmoved

LEMMA CloseRefines ==
  ASSUME IInv, View, View', NEW p \in Procs, Close(p)
  PROVE  Register!Return(p)
<1>1. /\ reply' = [reply EXCEPT ![p] = None]
      /\ Calm
  BY DEF Close, disk, Goto, IInv, TypeOK, LockInv, Holding, Building, Publishing, Calm
<1> QED
  BY <1>1, CalmIsUnmoved DEF Unmoved, Register!Return

(* Every step of the store is a step of the register, or none. *)
LEMMA StepRefines ==
  ASSUME IInv, IInv', OnlyLostInitTripsKeys, [Next]_vars, View, View'
  PROVE  [Register!Next]_(Register!vars)
<1>1. ASSUME Unmoved, reply' = reply PROVE UNCHANGED Register!vars
  BY <1>1 DEF Unmoved, Register!vars
<1>2. ASSUME NEW p \in Procs, Still(p) PROVE UNCHANGED Register!vars
  BY <1>1, <1>2, StillIsCalm, CalmIsUnmoved
<1>3. ASSUME NEW p \in Procs, Writes(p), ~LinkTests(p) PROVE UNCHANGED Register!vars
  BY <1>1, <1>3, WritingIsUnmoved
<1>4. ASSUME NEW p \in Procs, RetireSnapshots(p) PROVE [Register!Next]_(Register!vars)
  BY <1>4, RetireRefines
<1>5. ASSUME NEW p \in Procs, LinkTests(p) PROVE Register!Next
  BY <1>5, LinkTestsRefines DEF Register!Next
<1>6. ASSUME NEW p \in Procs, Die(p) PROVE [Register!Next]_(Register!vars)
  BY <1>6, DieRefines
<1>7. ASSUME NEW p \in Procs, ReadRows(p) PROVE Register!Next
  BY <1>7, ReadRowsRefines DEF Register!Next
<1>8. ASSUME NEW p \in Procs, Close(p) PROVE Register!Next
  BY <1>8, CloseRefines DEF Register!Next
<1>9. ASSUME NEW f \in Files, NEW v \in Versions, Edit(f, v) PROVE UNCHANGED Register!vars
  <2>1. Calm /\ reply' = reply
    BY <1>9 DEF Edit, disk, local, Calm, Publishing
  <2> QED
    BY <1>1, <2>1, CalmIsUnmoved
<1>10. CASE UNCHANGED vars
  <2>1. Calm /\ reply' = reply
    BY <1>10 DEF vars, disk, local, Calm, Publishing
  <2> QED
    BY <1>1, <2>1, CalmIsUnmoved
<1> QED
  BY <1>2, <1>3, <1>4, <1>5, <1>6, <1>7, <1>8, <1>9, <1>10
     DEF Next, Step, Start, Still, Writes

(* The graph store implements the register of snapshots: to its readers an  *)
(* analyze publishes a whole snapshot in one step, which then never        *)
(* changes, unless the analyze dies while it is settling.                  *)
THEOREM Refinement == Spec => ImplementsRegister
<1>1. IInv => OnlyLostInitTripsKeys
  BY KeysRespected
<1>2. IInv /\ IInv' /\ [Next]_vars => [Register!Next]_(Register!vars)
  <2>1. IInv' => View'
    BY ViewHolds, PTL
  <2> QED
    BY <1>1, <2>1, ViewHolds, StepRefines
<1> QED
  BY Invariant, InitRefines, <1>2, PTL DEF Spec, ImplementsRegister, Register!Spec
=============================================================================
