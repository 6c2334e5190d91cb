-------------------------- MODULE SnapshotRegister --------------------------
(***************************************************************************)
(* What the graph store promises to everyone who asks it about a           *)
(* repository: a register of snapshots.  A snapshot is published whole, in *)
(* one step, and becomes the head; then it settles, and from that moment   *)
(* on it never changes.  Questions are answered with the whole graph of a  *)
(* settled head.  The one thing that can go wrong is that the analysis     *)
(* dies while its snapshot is settling: the snapshot then settles with     *)
(* part of its graph, or vanishes and leaves no head at all.               *)
(* AnalysisStore, the detailed model of the store's code, implements this. *)
(***************************************************************************)
EXTENDS Naturals

CONSTANTS Procs,        \* the processes that use the store
          Snaps,        \* snapshot ids
          Nodes,        \* node ids
          Rows,         \* what can be stored under an id
          Kinds,        \* edge types
          None          \* no snapshot, no row, no answer

VARIABLES content,      \* content[s]: the graph of snapshot s, None before it is published
          head,         \* the current snapshot
          settling,     \* the published snapshot that is not yet safely stored
          answer        \* answer[p]: the reply process p is about to return

vars == <<content, head, settling, answer>>

Graph == [nodes : [Nodes -> Rows \cup {None}], edges : SUBSET (Kinds \X Nodes \X Nodes)]

HasNode(g, i) == g.nodes[i] # None

(* No edge dangles: both its ends are nodes of the same graph. *)
Closed(g) == \A e \in g.edges : HasNode(g, e[2]) /\ HasNode(g, e[3])

SubGraph(g, h) ==
  /\ \A i \in Nodes : HasNode(g, i) => g.nodes[i] = h.nodes[i]
  /\ g.edges \subseteq h.edges

Init ==
  /\ content = [s \in Snaps |-> None]
  /\ head = None
  /\ settling = None
  /\ answer = [p \in Procs |-> None]

OthersKeep(s) == \A t \in Snaps \ {s} : content'[t] = content[t]

Publish(s) ==
  /\ settling = None
  /\ content[s] = None
  /\ content'[s] \in Graph
  /\ Closed(content'[s])
  /\ OthersKeep(s)
  /\ head' = s
  /\ settling' = s
  /\ UNCHANGED answer

Settle ==
  /\ settling # None
  /\ settling' = None
  /\ UNCHANGED <<content, head, answer>>

(* The analysis dies before all of its snapshot is stored. *)
Damage(s) ==
  /\ settling = s
  /\ settling' = None
  /\ \/ /\ content'[s] = None
        /\ head' = None
     \/ /\ content'[s] \in Graph
        /\ Closed(content'[s])
        /\ SubGraph(content'[s], content[s])
        /\ head' = head
  /\ OthersKeep(s)
  /\ UNCHANGED answer

Answer(p) ==
  /\ settling = None
  /\ head # None
  /\ answer' = [answer EXCEPT ![p] = [snap |-> head, graph |-> content[head]]]
  /\ UNCHANGED <<content, head, settling>>

Return(p) ==
  /\ answer' = [answer EXCEPT ![p] = None]
  /\ UNCHANGED <<content, head, settling>>

Next ==
  \/ \E s \in Snaps : Publish(s) \/ Damage(s)
  \/ Settle
  \/ \E p \in Procs : Answer(p) \/ Return(p)

Spec == Init /\ [][Next]_vars
=============================================================================
