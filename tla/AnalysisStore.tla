---------------------------- MODULE AnalysisStore ----------------------------
(***************************************************************************)
(* The graph database of one repository and the processes that use it: CLI *)
(* invocations and RPC servers, each running one operation of service.py   *)
(* at a time (run_init, run_analyze, and the readers run_status,           *)
(* run_graph_overview and run_impact), against the same DuckDB file.       *)
(*                                                                         *)
(* What the code relies on and does not implement is external: DuckDB lets *)
(* one process at a time open the file (connect fails, it does not wait),  *)
(* the operating system drops that lock when the process dies, and every   *)
(* execute is a transaction of its own, so a process that stops between    *)
(* two statements leaves the first one behind.                             *)
(*                                                                         *)
(* A node id hashes the snapshot, the kind and, for a file, its path, but  *)
(* for a symbol or a test its qualified name, which starts with the path   *)
(* without its extension and with dots for slashes.  So the FILE node of f *)
(* is f's alone, and two files, app.py and app.ts or a.py and a/b.py, can  *)
(* have symbols with one id.  An id stands for the qualified name as well  *)
(* (one of kind FILE for the path); a row <<f, v>> of table nodes says     *)
(* whose definition is stored under an id: the one in version v of f.      *)
(* Files are scanned, inserted and resolved in sorted path order, which    *)
(* decides that.                                                           *)
(***************************************************************************)
EXTENDS Naturals, FiniteSets

CONSTANTS Procs,         \* processes that may open the database
          Files,         \* paths that may hold a source file
          Versions,      \* contents a file may have
          Absent,        \* the version of a path that holds no file
          Contents,      \* bound: Contents[f] is the set of versions that f may have
          Symbols,       \* ids of symbols and tests, the same in every snapshot but for its hash
          Place,         \* Place[f]: where f comes in sorted path order
          Module,        \* Module[f]: the module name made of f's path, perhaps not f's alone
          Source,        \* Source[f][v]: what parsing version v of f finds, see ConstantsOK
          Tested,        \* <<t, i>>: test t is called test_ and then what symbol i is called
          FileCap,       \* max_files: the most files one analyze may scan
          GitStates,     \* what `git rev-parse HEAD` may find: "repo", "no repo", "no git"
          MaxSnapshots,  \* bound: analyses that may start
          MaxFailures,   \* bound: processes that may be killed or die of an exception
          None           \* no process, no reply

Snaps == 1..MaxSnapshots
Kinds == {"CONTAINS", "CALLS", "IMPORTS", "TESTED_BY"}
Nodes == Files \cup Symbols
Rows  == Files \X Versions
Edge  == Kinds \X Nodes \X Nodes
Graph == [nodes : [Nodes -> Rows \cup {None}], edges : SUBSET Edge]
Reply == [snap : Snaps, graph : Graph]

ASSUME ConstantsOK ==
  /\ Absent \in Versions
  /\ Contents \in [Files -> SUBSET Versions]
  /\ Files \cap Symbols = {} /\ IsFiniteSet(Files)
  /\ Place \in [Files -> Nat]
  /\ \A f, g \in Files : Place[f] = Place[g] => f = g
  /\ \A f \in Files, v \in Versions :
       LET found == Source[f][v] IN
       /\ found.contains \subseteq Nodes \X Symbols
       /\ \A e \in found.contains : e[1] = f \/ \E d \in found.contains : d[2] = e[1]
       /\ found.calls \subseteq Symbols \X Symbols
       /\ found.imports \subseteq {Module[g] : g \in Files}
  /\ Tested \subseteq Symbols \X Symbols
  /\ FileCap \in Nat
  /\ MaxSnapshots \in Nat
  /\ MaxFailures \in Nat
  /\ GitStates \subseteq {"repo", "no repo", "no git"}
  /\ None \notin Procs \cup Nat \cup Rows \cup Graph \cup Reply

VARIABLES
  tree,       \* the working tree: the version of every path
  dbExists,   \* .repoflare/graph.duckdb is there
  lock,       \* the process that has the database open
  repoRow,    \* the repository's row in table repositories
  snapshots,  \* ids of the rows of table snapshots
  current,    \* ids of those rows that are is_current
  nodes,      \* nodes[s][i]: the row with id i in snapshot s, None for none
  edges,      \* edges[s]: edge rows of snapshot s
  clock,      \* snapshot ids handed out so far: an id hashes the time of its analyze
  scan,       \* scan[s][f]: what the analyze of s read at f, kept after it ends
  failed,     \* ids whose analyze died with the database open (history)
  failures,   \* processes that died so far
  pc,         \* where process p is in its operation
  snap,       \* snap[p]: the snapshot p is about
  todo,       \* todo[p]: files p has not yet handled in its present pass
  reply,      \* reply[p]: what p read and is about to return
  outcome     \* outcome[p]: how the last operation of p ended

disk  == <<dbExists, repoRow, snapshots, current, nodes, edges>>
local == <<pc, snap, todo, reply, outcome>>
vars  == <<tree, disk, lock, clock, scan, failed, failures, local>>

Building == {"nodes", "resolve", "tests"}
Holding  == Building \cup {"upsert", "retire", "insert", "lookup", "rows", "close"}
PCs      == Holding \cup {"idle", "scan", "connect"}
Outcomes == {"running", "ok", "NotInitializedError", "NotAnalyzedError", "GitCommandError",
             "FileNotFoundError", "RepositoryTooLargeError", "IOException",
             "ConstraintException", "died"}

NoFiles == [f \in Files |-> Absent]
NoRows  == [i \in Nodes |-> None]

(* The files an analyze read, and what it found in one of them. *)
Scanned(s) == {f \in Files : scan[s][f] # Absent}

Found(s, f) == Source[f][scan[s][f]]

(* The ids of the nodes parsed from f, and of all of them. *)
NodesOf(s, f) == {f} \cup {e[2] : e \in Found(s, f).contains}

Known(s) == UNION {NodesOf(s, f) : f \in Scanned(s)}

(* The rows of the files F: where several of them define one id, the first *)
(* in path order has the row, and the others' definitions are nowhere.     *)
RowOf(s, f) == <<f, scan[s][f]>>

First(F) == CHOOSE f \in F : \A g \in F : Place[f] <= Place[g]

Definers(s, F, i) == {f \in F : i \in NodesOf(s, f)}

RowsFrom(s, F) ==
  [i \in Nodes |->
    IF Definers(s, F, i) = {} THEN None
    ELSE RowOf(s, First(Definers(s, F, i)))]

ContainsEdges(s, f) == {<<"CONTAINS", e[1], e[2]>> : e \in Found(s, f).contains}

(* A call is resolved by the names of caller and callee, in whichever files *)
(* of that module name they are defined.                                   *)
CallEdges(s, f) ==
  {<<"CALLS", c[1], c[2]>> : c \in {d \in Found(s, f).calls :
                                      {d[1], d[2]} \subseteq Known(s) /\ d[1] # d[2]}}

(* The table from module names to files has the last file of each name. *)
NamedFiles(s) ==
  {f \in Scanned(s) : \A g \in Scanned(s) : Module[g] = Module[f] => Place[g] <= Place[f]}

ImportEdges_UnfilteredBug(s, f) ==
  {<<"IMPORTS", f, g>> : g \in {h \in Files : Module[h] \in Found(s, f).imports}}

(* Importer and imported file are both looked up by module name.  A file   *)
(* does not import itself.                                                 *)
ImportEdges(s, f) ==
  LET importers == {g \in NamedFiles(s) : Module[g] = Module[f]}
      imported  == {g \in NamedFiles(s) : Module[g] \in Found(s, f).imports}
  IN {e \in {"IMPORTS"} \X importers \X imported : e[2] # e[3]}

ResolvedEdges(s, f) == CallEdges(s, f) \cup ImportEdges(s, f)

TestEdges(s) ==
  {<<"TESTED_BY", t[1], t[2]>> : t \in {u \in Tested : {u[1], u[2]} \subseteq Known(s)}}

(* The graph an analyze is going to store. *)
PlannedEdges(s) ==
  (UNION {ContainsEdges(s, f) \cup ResolvedEdges(s, f) : f \in Scanned(s)}) \cup TestEdges(s)

Planned(s) == [nodes |-> RowsFrom(s, Scanned(s)), edges |-> PlannedEdges(s)]

Stored(s) == [nodes |-> nodes[s], edges |-> edges[s]]

(* The foreign keys of table edges: both ends are rows of table nodes. *)
Referenced(s, E) ==
  \A e \in E : nodes[s][e[2]] # None /\ nodes[s][e[3]] # None

TypeOK ==
  /\ tree \in [Files -> Versions]
  /\ dbExists \in BOOLEAN /\ repoRow \in BOOLEAN
  /\ lock \in Procs \cup {None}
  /\ snapshots \subseteq Snaps /\ current \subseteq snapshots /\ failed \subseteq Snaps
  /\ nodes \in [Snaps -> [Nodes -> Rows \cup {None}]]
  /\ edges \in [Snaps -> SUBSET Edge]
  /\ clock \in 0..MaxSnapshots
  /\ scan \in [Snaps -> [Files -> Versions]]
  /\ failures \in Nat
  /\ pc \in [Procs -> PCs]
  /\ snap \in [Procs -> 0..MaxSnapshots]
  /\ todo \in [Procs -> SUBSET Files]
  /\ reply \in [Procs -> Reply \cup {None}]
  /\ outcome \in [Procs -> Outcomes]

Init ==
  /\ tree \in {t \in [Files -> Versions] : \A f \in Files : t[f] \in Contents[f]}
  /\ dbExists = FALSE /\ repoRow = FALSE
  /\ lock = None
  /\ snapshots = {} /\ current = {} /\ failed = {}
  /\ nodes = [s \in Snaps |-> NoRows]
  /\ edges = [s \in Snaps |-> {}]
  /\ clock = 0
  /\ scan = [s \in Snaps |-> NoFiles]
  /\ failures = 0
  /\ pc = [p \in Procs |-> "idle"]
  /\ snap = [p \in Procs |-> 0]
  /\ todo = [p \in Procs |-> {}]
  /\ reply = [p \in Procs |-> None]
  /\ outcome = [p \in Procs |-> "ok"]

-----------------------------------------------------------------------------
(* Building blocks.                                                        *)

Goto(p, l) == pc' = [pc EXCEPT ![p] = l]

EndsWith(p, o) == outcome' = [outcome EXCEPT ![p] = o]

(* The operation of p ends here without having the database open. *)
Quit(p, o) == Goto(p, "idle") /\ EndsWith(p, o)

(* The statements of graph/store.py: what each leaves in its table.  Those  *)
(* named ...Bug in this module are what the checks must tell them from.    *)

CurrentSnapshotIds_NoFilterBug == snapshots
CurrentSnapshotIds == current

RetiredFlags_ForgottenBug == current
RetiredFlags_MarkFirstBug == {clock}
RetiredFlags == {}

InsertedFlags_DefaultBug(s) == current
InsertedFlags(s) == current \cup {s}

InsertedNodes_UnscopedBug(s, f) ==
  [t \in Snaps |->
    IF t \in snapshots
    THEN [i \in Nodes |-> IF i \in NodesOf(s, f) THEN RowOf(s, f) ELSE nodes[t][i]]
    ELSE nodes[t]]
InsertedNodes_UpdateBug(s, f) ==
  [nodes EXCEPT ![s] =
    [i \in Nodes |-> IF i \in NodesOf(s, f) THEN RowOf(s, f) ELSE nodes[s][i]]]

(* ON CONFLICT (node_id) DO NOTHING: an id that has a row keeps it. *)
InsertedNodes(s, f) ==
  [nodes EXCEPT ![s] =
    [i \in Nodes |-> IF i \in NodesOf(s, f) /\ nodes[s][i] = None
                     THEN RowOf(s, f) ELSE nodes[s][i]]]

InsertedEdges(s, E) == [edges EXCEPT ![s] = @ \cup E]

Connect_SharedBug(p) == lock' = p /\ dbExists' = TRUE

(* duckdb.connect: creates the file when it is missing, fails when another *)
(* process has it open.  The schema is CREATE ... IF NOT EXISTS.           *)
Connect(p) ==
  /\ lock = None
  /\ lock' = p
  /\ dbExists' = TRUE

(* A pass takes its files in sorted path order. *)
IsNext(p, f) == f \in todo[p] /\ \A g \in todo[p] : Place[f] <= Place[g]

-----------------------------------------------------------------------------
(* run_init.                                                               *)

InitConnect(p) ==
  /\ pc[p] = "idle"
  /\ Connect(p)
  /\ Goto(p, "upsert")
  /\ EndsWith(p, "running")
  /\ UNCHANGED <<tree, repoRow, snapshots, current, nodes, edges, clock, scan, failed,
                 failures, snap, todo, reply>>

InitUpsert(p) ==
  /\ pc[p] = "upsert"
  /\ repoRow' = TRUE
  /\ Goto(p, "close")
  /\ EndsWith(p, "ok")
  /\ UNCHANGED <<tree, dbExists, lock, snapshots, current, nodes, edges, clock, scan, failed,
                 failures, snap, todo, reply>>

-----------------------------------------------------------------------------
(* run_analyze.                                                            *)

(* The id is taken and git asked before anything is read; the paths are    *)
(* listed first and read one by one afterwards.                            *)
AnalyzeStart(p) ==
  LET listed == {f \in Files : tree[f] # Absent} IN
  /\ pc[p] = "idle"
  /\ dbExists
  /\ GitStates \cap {"repo", "no repo"} # {}
  /\ clock < MaxSnapshots
  /\ clock' = clock + 1
  /\ snap' = [snap EXCEPT ![p] = clock + 1]
  /\ todo' = [todo EXCEPT ![p] = listed]
  /\ Goto(p, IF listed = {} THEN "connect" ELSE "scan")
  /\ EndsWith(p, "running")
  /\ UNCHANGED <<tree, disk, lock, scan, failed, failures, reply>>

(* subprocess.run raises FileNotFoundError, which the helper does not catch. *)
AnalyzeWithoutGit(p) ==
  /\ pc[p] = "idle"
  /\ dbExists
  /\ "no git" \in GitStates
  /\ EndsWith(p, "FileNotFoundError")
  /\ UNCHANGED <<tree, disk, lock, clock, scan, failed, failures, pc, snap, todo, reply>>

UnderCap_OffByOneBug(s) == Cardinality(Scanned(s)) <= FileCap
UnderCap(s) == Cardinality(Scanned(s)) < FileCap

ScanFile(p, f) ==
  LET s == snap[p] IN
  /\ pc[p] = "scan"
  /\ IsNext(p, f)
  /\ tree[f] # Absent => UnderCap(s)
  /\ scan' = [scan EXCEPT ![s][f] = tree[f]]
  /\ todo' = [todo EXCEPT ![p] = @ \ {f}]
  /\ Goto(p, IF todo[p] = {f} THEN "connect" ELSE "scan")
  /\ UNCHANGED <<tree, disk, lock, clock, failed, failures, snap, reply, outcome>>

(* The file that exceeds the cap is an error, not the end of the scan. *)
ScanTooLarge(p, f) ==
  /\ pc[p] = "scan"
  /\ IsNext(p, f)
  /\ tree[f] # Absent
  /\ ~UnderCap(snap[p])
  /\ Quit(p, "RepositoryTooLargeError")
  /\ UNCHANGED <<tree, disk, lock, clock, scan, failed, failures, snap, todo, reply>>

AnalyzeConnect(p) ==
  /\ pc[p] = "connect"
  /\ Connect(p)
  /\ Goto(p, "retire")
  /\ UNCHANGED <<tree, repoRow, snapshots, current, nodes, edges, clock, scan, failed,
                 failures, snap, todo, reply, outcome>>

(* create_snapshot is two statements: every snapshot of the repository is  *)
(* retired, then the new one is inserted as the current one.               *)
RetireSnapshots(p) ==
  /\ pc[p] = "retire"
  /\ current' = RetiredFlags
  /\ Goto(p, "insert")
  /\ UNCHANGED <<tree, dbExists, repoRow, snapshots, nodes, edges, lock, clock, scan, failed,
                 failures, snap, todo, reply, outcome>>

(* The pass over the parsed files starts, or is over at once. *)
NextPass(p, todoNow, pass, after) ==
  /\ todo' = [todo EXCEPT ![p] = todoNow]
  /\ Goto(p, IF todoNow = {} THEN after ELSE pass)

InsertSnapshot(p) ==
  LET s == snap[p] IN
  /\ pc[p] = "insert"
  /\ repoRow /\ s \notin snapshots
  /\ snapshots' = snapshots \cup {s}
  /\ current' = InsertedFlags(s)
  /\ NextPass(p, Scanned(s), "nodes", "tests")
  /\ UNCHANGED <<tree, dbExists, repoRow, nodes, edges, lock, clock, scan, failed, failures,
                 snap, reply, outcome>>

(* insert_nodes, then insert_edges with what contains what. *)
InsertNodes(p, f) ==
  LET s == snap[p]
      left == todo[p] \ {f} IN
  /\ pc[p] = "nodes"
  /\ IsNext(p, f)
  /\ nodes' = InsertedNodes(s, f)
  /\ edges' = InsertedEdges(s, ContainsEdges(s, f))
  /\ IF left = {} THEN NextPass(p, Scanned(s), "resolve", "tests")
                  ELSE todo' = [todo EXCEPT ![p] = left] /\ UNCHANGED pc
  /\ UNCHANGED <<tree, dbExists, repoRow, snapshots, current, lock, clock, scan, failed,
                 failures, snap, reply, outcome>>

ResolveFile(p, f) ==
  LET s == snap[p] IN
  /\ pc[p] = "resolve"
  /\ IsNext(p, f)
  /\ Referenced(s, ResolvedEdges(s, f))
  /\ edges' = InsertedEdges(s, ResolvedEdges(s, f))
  /\ NextPass(p, todo[p] \ {f}, "resolve", "tests")
  /\ UNCHANGED <<tree, dbExists, repoRow, snapshots, current, nodes, lock, clock, scan, failed,
                 failures, snap, reply, outcome>>

LinkTests(p) ==
  LET s == snap[p] IN
  /\ pc[p] = "tests"
  /\ Referenced(s, TestEdges(s))
  /\ edges' = InsertedEdges(s, TestEdges(s))
  /\ Goto(p, "close")
  /\ EndsWith(p, "ok")
  /\ UNCHANGED <<tree, dbExists, repoRow, snapshots, current, nodes, lock, clock, scan, failed,
                 failures, snap, todo, reply>>

(* What the statement p is about to execute would do to the schema's keys. *)
KeyViolation(p) ==
  CASE pc[p] = "insert"  -> ~repoRow \/ snap[p] \in snapshots
    [] pc[p] = "resolve" -> \E f \in todo[p] : IsNext(p, f) /\ ~Referenced(snap[p], ResolvedEdges(snap[p], f))
    [] pc[p] = "tests"   -> ~Referenced(snap[p], TestEdges(snap[p]))
    [] OTHER             -> FALSE

(* DuckDB refuses the statement; the exception leaves the with block,      *)
(* which closes the database.                                              *)
RefusedByKey(p) ==
  /\ KeyViolation(p)
  /\ failed' = IF pc[p] \in Building THEN failed \cup {snap[p]} ELSE failed
  /\ lock' = None
  /\ Quit(p, "ConstraintException")
  /\ UNCHANGED <<tree, disk, clock, scan, failures, snap, todo, reply>>

-----------------------------------------------------------------------------
(* run_status, run_graph_overview, run_impact: open, find the current      *)
(* snapshot, read its rows, close.                                         *)

ReadConnect(p) ==
  /\ pc[p] = "idle"
  /\ dbExists
  /\ Connect(p)
  /\ Goto(p, "lookup")
  /\ EndsWith(p, "running")
  /\ UNCHANGED <<tree, repoRow, snapshots, current, nodes, edges, clock, scan, failed,
                 failures, snap, todo, reply>>

Lookup(p) ==
  /\ pc[p] = "lookup"
  /\ \E s \in CurrentSnapshotIds :
       /\ snap' = [snap EXCEPT ![p] = s]
       /\ Goto(p, "rows")
  /\ UNCHANGED <<tree, disk, lock, clock, scan, failed, failures, todo, reply, outcome>>

LookupNothing_LeakBug(p) ==
  /\ pc[p] = "lookup"
  /\ CurrentSnapshotIds = {}
  /\ Quit(p, "NotAnalyzedError")
  /\ UNCHANGED <<tree, disk, lock, clock, scan, failed, failures, snap, todo, reply>>

(* run_status answers "no snapshot" instead of raising; it reads no rows either. *)
LookupNothing(p) ==
  /\ pc[p] = "lookup"
  /\ CurrentSnapshotIds = {}
  /\ Goto(p, "close")
  /\ \E o \in {"ok", "NotAnalyzedError"} : EndsWith(p, o)
  /\ UNCHANGED <<tree, disk, lock, clock, scan, failed, failures, snap, todo, reply>>

ReadRows(p) ==
  /\ pc[p] = "rows"
  /\ reply' = [reply EXCEPT ![p] = [snap |-> snap[p], graph |-> Stored(snap[p])]]
  /\ Goto(p, "close")
  /\ EndsWith(p, "ok")
  /\ UNCHANGED <<tree, disk, lock, clock, scan, failed, failures, snap, todo>>

(* run_impact asks git for the changed files with the database open; that  *)
(* it fails, or that there is no git, leaves the with block just the same. *)
GitFails(p) ==
  /\ pc[p] = "rows"
  /\ Goto(p, "close")
  /\ EndsWith(p, "GitCommandError")
  /\ UNCHANGED <<tree, disk, lock, clock, scan, failed, failures, snap, todo, reply>>

-----------------------------------------------------------------------------
(* Every operation.                                                        *)

(* Leaving the with block closes the connection, whatever happened in it. *)
Close(p) ==
  /\ pc[p] = "close"
  /\ lock' = None
  /\ Goto(p, "idle")
  /\ reply' = [reply EXCEPT ![p] = None]
  /\ UNCHANGED <<tree, disk, clock, scan, failed, failures, snap, todo, outcome>>

NotInitialized(p) ==
  /\ pc[p] = "idle"
  /\ ~dbExists
  /\ EndsWith(p, "NotInitializedError")
  /\ UNCHANGED <<tree, disk, lock, clock, scan, failed, failures, pc, snap, todo, reply>>

(* connect raises: another process has the file open. *)
StartRefused(p) ==
  /\ pc[p] = "idle"
  /\ lock # None
  /\ EndsWith(p, "IOException")
  /\ UNCHANGED <<tree, disk, lock, clock, scan, failed, failures, pc, snap, todo, reply>>

(* An analyze that is refused has by then scanned everything, for nothing. *)
AnalyzeRefused(p) ==
  /\ pc[p] = "connect"
  /\ lock # None
  /\ Quit(p, "IOException")
  /\ UNCHANGED <<tree, disk, lock, clock, scan, failed, failures, snap, todo, reply>>

(* The process is killed, interrupted, or an exception (a RecursionError   *)
(* of the resolver, say) ends its operation.  Either way the file is closed*)
(* and what was executed before stays.                                     *)
Die(p) ==
  /\ pc[p] # "idle"
  /\ failures < MaxFailures
  /\ failures' = failures + 1
  /\ failed' = IF pc[p] \in Building THEN failed \cup {snap[p]} ELSE failed
  /\ lock' = IF lock = p THEN None ELSE lock
  /\ reply' = [reply EXCEPT ![p] = None]
  /\ Quit(p, "died")
  /\ UNCHANGED <<tree, disk, clock, scan, snap, todo>>

(* Somebody edits, adds or deletes a file, or checks out another commit. *)
Edit(f, v) ==
  /\ v \in Contents[f] \ {tree[f]}
  /\ tree' = [tree EXCEPT ![f] = v]
  /\ UNCHANGED <<disk, lock, clock, scan, failed, failures, local>>

(* What the code of p does once an operation has started. *)
Step(p) ==
  \/ InitUpsert(p)
  \/ \E f \in Files : ScanFile(p, f) \/ ScanTooLarge(p, f) \/ InsertNodes(p, f)
                        \/ ResolveFile(p, f)
  \/ AnalyzeConnect(p) \/ AnalyzeRefused(p) \/ RetireSnapshots(p) \/ InsertSnapshot(p)
  \/ LinkTests(p)
  \/ RefusedByKey(p)
  \/ Lookup(p) \/ LookupNothing(p) \/ ReadRows(p) \/ GitFails(p)
  \/ Close(p)

Start(p) ==
  \/ InitConnect(p) \/ AnalyzeStart(p) \/ AnalyzeWithoutGit(p) \/ ReadConnect(p)
  \/ NotInitialized(p) \/ StartRefused(p)

Next ==
  \/ \E p \in Procs : Step(p) \/ Start(p) \/ Die(p)
  \/ \E f \in Files, v \in Versions : Edit(f, v)

Spec == Init /\ [][Next]_vars

(* An operation that has started runs on: it is straight-line code that    *)
(* waits for nobody (a refused connect is an error, not a wait).           *)
Fairness == \A p \in Procs : WF_vars(Step(p))

FairSpec == Spec /\ Fairness
-----------------------------------------------------------------------------
(* Properties.                                                             *)

(* The snapshot p is writing: from its row's insertion to its last edge.   *)
BuiltBy(p, s) == pc[p] \in Building /\ snap[p] = s

BeingBuilt(s) == \E p \in Procs : BuiltBy(p, s)

(* No two snapshots are current at once, whatever the interleaving of the  *)
(* analyses and wherever they die: current_snapshot_id fetches one row and *)
(* never says that there were two.                                         *)
OneCurrent == \A s, t \in current : s = t

(* A stored snapshot holds exactly the graph planned for what its analyze  *)
(* read, unless that analyze died while it was writing: over the per-file  *)
(* inserts and the two passes of run_analyze every id gets its row, of the *)
(* definitions that share an id the first file's is the one stored, no     *)
(* edge is lost or added, and no other process has touched the rows.  The  *)
(* exempt snapshots are what CurrentSnapshotComplete is about.             *)
CompleteUnlessFailed ==
  \A s \in snapshots :
    ~BeingBuilt(s) /\ s \notin failed => Stored(s) = Planned(s)

(* What a reader returns is the whole planned graph of one snapshot, whose *)
(* id and rows are read in several queries with other processes analysing  *)
(* the same repository meanwhile; unless the analyze of that snapshot died *)
(* writing: such a snapshot is served as far as it got.                    *)
ReadsWholeSnapshot ==
  \A p \in Procs :
    reply[p] # None /\ reply[p].snap \notin failed
      => reply[p].graph = Planned(reply[p].snap)

(* Nothing but the death of a process leaves a repository that has been    *)
(* analysed without a current snapshot (create_snapshot's two statements). *)
OnlyFailureLeavesNoCurrent ==
  lock = None /\ snapshots # {} /\ failures = 0 => current # {}

(* run_analyze never trips a key of the schema (every row is there before  *)
(* an edge refers to it, no id is used twice), except when the row of the  *)
(* repository itself is missing: an init that died before its upsert.      *)
OnlyLostInitTripsKeys == \A p \in Procs : KeyViolation(p) => ~repoRow /\ failures > 0

(* The cap at its boundary: an analyze that goes on to the database has    *)
(* read every file it listed, and no more of them than the cap; one that   *)
(* gives up has read exactly as many as the cap allows and had another.    *)
NoTruncatedScan ==
  \A p \in Procs :
    /\ pc[p] \in {"connect", "retire", "insert"} =>
         todo[p] = {} /\ Cardinality(Scanned(snap[p])) <= FileCap
    /\ outcome[p] = "RepositoryTooLargeError" =>
         todo[p] # {} /\ Cardinality(Scanned(snap[p])) = FileCap

(* Once the analyze of a snapshot is over, its rows never change: "a new   *)
(* snapshot's rows never mutate a prior snapshot's rows".                  *)
SettledNeverChanges ==
  [][\A s \in snapshots : ~BeingBuilt(s) => s \in snapshots' /\ Stored(s)' = Stored(s)]_vars

(* Whoever opens the database closes it again, on every path through every *)
(* operation: the early returns, a refused statement, a failing git.       *)
LockIsReleased == \A p \in Procs : lock = p ~> lock # p

-----------------------------------------------------------------------------
(* What the repository says and the code does not do.                      *)

(* "a graph built from an arbitrary subset of a repository would still     *)
(* answer `impact` questions, just wrongly and confidently": the current   *)
(* snapshot, when anyone can read it, is whole.                            *)
CurrentSnapshotComplete ==
  lock = None => \A s \in current : Stored(s) = Planned(s)

(* "Raised when an operation needs .repoflare/ but `init` hasn't run yet": *)
(* analyze does not fail in any other way for want of an init.             *)
MissingInitIsReported == \A p \in Procs : outcome[p] # "ConstraintException"

-----------------------------------------------------------------------------
(* The register of snapshots this implements.  A snapshot is published     *)
(* when the statement that retires its predecessors has been executed, and *)
(* settles when its last edges are inserted.                               *)

Publishing(p) == pc[p] \in Building \/ (pc[p] = "insert" /\ repoRow)

Publisher == {p \in Procs : Publishing(p)}

SettlingSnap == IF Publisher = {} THEN None ELSE snap[CHOOSE p \in Publisher : TRUE]

ContentOf(s) ==
  IF s = SettlingSnap THEN Planned(s)
  ELSE IF s \in snapshots THEN Stored(s)
  ELSE None

HeadSnap ==
  IF SettlingSnap # None THEN SettlingSnap
  ELSE IF current = {} THEN None
  ELSE CHOOSE s \in current : TRUE

Register == INSTANCE SnapshotRegister WITH
  content  <- [s \in Snaps |-> ContentOf(s)],
  head     <- HeadSnap,
  settling <- SettlingSnap,
  answer   <- reply

(* Every behaviour of the store is one of the register. *)
ImplementsRegister == Register!Spec
=============================================================================
