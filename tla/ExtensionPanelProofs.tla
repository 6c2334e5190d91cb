------------------------ MODULE ExtensionPanelProofs ------------------------
(***************************************************************************)
(* The types of ExtensionPanel and what its page shows once it is quiet,   *)
(* OwnAnalyzeShown and StatusLagsOnlyByImpact, for every number of         *)
(* clients, commands, clicks and analyses made elsewhere.                  *)
(*                                                                         *)
(* Both properties speak of a panel whose tasks are done, and nothing of   *)
(* that can be seen in the step that makes it quiet.  The argument is      *)
(* about the queue of calls of the panel's client.  Its replies never      *)
(* decrease (Ordered), because answers come in the order of the calls and  *)
(* the database only grows.  So when an analyze is answered with snapshot  *)
(* v, each call still waiting will be answered with v or later             *)
(* (NoneBefore), and a load that brings something older has been settled   *)
(* by then: it is resumed before another event, and the analyze's own load *)
(* is still to come (Pending).  LoadCalls says why a load that has its     *)
(* status and not its graph waits for the very next answer.                *)
(***************************************************************************)
EXTENDS ExtensionPanel, SequenceTheorems, WellFoundedInduction, TLAPS

Replies == Nat \cup {None, Failed, NotInitialized}
Steps == PanelSteps \cup {"command", "init", "asked", "boxes", "done"}
Pages == {"none", "loading", "ready", "error"}

CallType(n) == [op : Operations, by : 1..n, reply : Replies]
ClientType(n) == [closed : BOOLEAN, calls : Seq(CallType(n))]
TaskType(m) == [step : Steps, client : 0..m, status : Nat \cup {None, Failed}, reply : Replies]
PanelType(m) ==
  [client : 0..m, page : Pages, status : Nat \cup {None}, graph : Nat \cup {None},
   buttons : SUBSET Buttons, inbox : Seq(Buttons)]
StoreType == [initialised : BOOLEAN, version : Nat]

(* Types, with the number of tasks and of clients. *)
Types ==
  /\ clients \in Seq(ClientType(Len(tasks)))
  /\ store \in StoreType
  /\ panel \in PanelType(Len(clients))
  /\ tasks \in Seq(TaskType(Len(clients)))
  /\ own \in Nat /\ spanned \in BOOLEAN
  /\ lastLoad \in {"none", "full", "nograph", "failed"}
  /\ panel.page = "ready" => panel.status # None

(* Where the panel and the tasks are. *)
TaskShape(t) ==
  LET k == tasks[t] IN
  /\ k.step # "done" => k.client \in DOMAIN clients
  /\ k.step \in PanelSteps => Open /\ k.client = panel.client
  /\ k.step = "impact" => k.status \in Nat
  /\ k.step = "load" => k.reply # NotInitialized

Shape ==
  /\ ~store.initialised => store.version = 0
  /\ ~Open => panel = NoPanel
  /\ Open => panel.client \in DOMAIN clients
  /\ panel.buttons # {} \/ panel.inbox # <<>> => panel.status # None
  /\ \A t \in Tasks : TaskShape(t)

(* What a client's queue of calls is like. *)
Ordered(q) ==
  \A i, j \in DOMAIN q : i < j =>
    /\ q[i].reply = None => q[j].reply = None
    /\ q[j].reply < 0 \/ q[j].reply >= q[i].reply

Recent(q, v) == \A i \in DOMAIN q : q[i].reply <= v

Callers(q, c) ==
  \A i \in DOMAIN q :
    LET k == tasks[q[i].by] IN k.step = "done" \/ (k.step # "boxes" /\ k.client = c)

QueuesOf(cs) ==
  \A c \in DOMAIN cs :
    /\ cs[c].closed => cs[c].calls = <<>>
    /\ Ordered(cs[c].calls)
    /\ Recent(cs[c].calls, store.version)
    /\ Callers(cs[c].calls, c)

Queues == QueuesOf(clients)

(* What a reply, a queue or a task tells of the snapshots since v. *)
NotBefore(r, v) == r < 0 \/ r >= v
NoneBefore(q, v) == \A i \in DOMAIN q : NotBefore(q[i].reply, v)
Beyond(k, v) == NotBefore(k.status, v) /\ NotBefore(k.reply, v)

NoCall(q, t) == \A i \in DOMAIN q : q[i].by # t
OneCall(q, t) == \A i, j \in DOMAIN q : q[i].by = t /\ q[j].by = t => i = j

(* A load's calls: its status call is directly followed by its graph call. *)
LoadCalls(q, w, status) ==
  \A i \in DOMAIN q : q[i].by = w =>
    \/ /\ q[i].op = "status" /\ i + 1 \in DOMAIN q
       /\ q[i + 1].by = w /\ q[i + 1].op = "graph"
    \/ /\ q[i].op = "graph"
       /\ \/ i = 1 /\ status # None
          \/ i > 1 /\ q[i - 1].by = w /\ q[i - 1].op = "status"

GraphNext(q, w) == Len(q) > 0 /\ q[1].by = w /\ q[1].op = "graph"

Pending == \E u \in Tasks : tasks[u].step = "load" /\ ~Settled(u)

AnalyzeOk(t) ==
  LET q == clients[panel.client].calls
      r == tasks[t].reply
  IN /\ OneCall(q, t)
     /\ r # None => NoCall(q, t)
     /\ r >= 0 =>
          /\ ~clients[panel.client].closed
          /\ r <= store.version
          /\ NoneBefore(q, r)
          /\ \A w \in Tasks : tasks[w].step = "load" => Settled(w) \/ Beyond(tasks[w], r)

LoadOk(w) ==
  LET q == clients[panel.client].calls
      k == tasks[w]
  IN /\ LoadCalls(q, w, k.status)
     /\ k.status = None => k.reply = None
     /\ k.status >= 0 /\ k.reply = None => GraphNext(q, w)
     /\ Beyond(k, own) \/ (Settled(w) /\ Pending)

Shown ==
  (\A w \in Tasks : tasks[w].step # "load") =>
    /\ panel.graph = None \/ panel.graph >= own \/ lastLoad # "full"
    /\ panel.status >= own \/ spanned \/ lastLoad = "failed"
    /\ \A t \in Tasks : tasks[t].step = "impact" =>
         tasks[t].status >= own \/ spanned \/ lastLoad = "failed"

PanelOk ==
  Open =>
    /\ \A t \in Tasks : tasks[t].step = "analyze" => AnalyzeOk(t)
    /\ \A w \in Tasks : tasks[w].step = "load" => LoadOk(w)
    /\ own <= store.version
    /\ NoneBefore(clients[panel.client].calls, own)
    /\ Shown

PanelInv == Types /\ Shape /\ Queues /\ PanelOk

(* Types is TypeOK, written with the operators the proofs name. *)
LEMMA TypesIsTypeOK == Types => TypeOK
<1> SUFFICES ASSUME Types PROVE TypeOK
  OBVIOUS
<1>1. tasks \in Seq(TaskType(Len(clients)))
  BY DEF Types
<1>2. Tasks = 1..Len(tasks)
  BY <1>1 DEF Tasks
<1>3. ClientType(Len(tasks)) = [closed : BOOLEAN,
        calls : Seq([op : Operations, by : Tasks, reply : Nat \cup {None, Failed, NotInitialized}])]
  BY <1>2 DEF ClientType, CallType, Replies
<1>4. tasks \in Seq([step : PanelSteps \cup {"command", "init", "asked", "boxes", "done"},
                     client : 0..Len(clients), status : Nat \cup {None, Failed},
                     reply : Nat \cup {None, Failed, NotInitialized}])
  BY <1>1 DEF TaskType, Steps, Replies
<1>5. clients \in Seq([closed : BOOLEAN,
        calls : Seq([op : Operations, by : Tasks,
                     reply : Nat \cup {None, Failed, NotInitialized}])])
  BY <1>3 DEF Types
<1>6. panel \in [client : 0..Len(clients), page : {"none", "loading", "ready", "error"},
                 status : Nat \cup {None}, graph : Nat \cup {None},
                 buttons : SUBSET Buttons, inbox : Seq(Buttons)]
  BY DEF Types, PanelType, Pages
<1> QED
  BY <1>4, <1>5, <1>6 DEF Types, TypeOK, StoreType

-----------------------------------------------------------------------------
(* Sequences. *)

(* What is in a sequence. *)
LEMMA SeqAt ==
  ASSUME NEW S, NEW s \in Seq(S)
  PROVE  /\ DOMAIN s = 1..Len(s) /\ Len(s) \in Nat
         /\ \A i \in DOMAIN s : s[i] \in S
OBVIOUS

(* More tasks or clients make no type smaller. *)
LEMMA Widen ==
  ASSUME NEW m \in Nat, NEW n \in Nat, m <= n
  PROVE  /\ \A s \in Seq(ClientType(m)) : s \in Seq(ClientType(n))
         /\ \A s \in Seq(TaskType(m)) : s \in Seq(TaskType(n))
         /\ \A p \in PanelType(m) : p \in PanelType(n)
<1>1. CallType(m) \subseteq CallType(n)
  BY DEF CallType
<1>2. Seq(CallType(m)) \subseteq Seq(CallType(n))
  BY <1>1, SeqMonotonic
<1>3. ClientType(m) \subseteq ClientType(n)
  BY <1>2 DEF ClientType
<1>4. TaskType(m) \subseteq TaskType(n)
  BY DEF TaskType
<1>5. \A p \in PanelType(m) : p \in PanelType(n)
  BY DEF PanelType
<1> QED
  BY <1>3, <1>4, <1>5, SeqMonotonic

(* What a call by t does to the clients. *)
Asked(ds, cs, c, ops, t) ==
  /\ Len(ds) = Len(cs) /\ DOMAIN ds = DOMAIN cs
  /\ \A d \in DOMAIN cs : d # c => ds[d] = cs[d]
  /\ ds[c].closed = cs[c].closed
  /\ cs[c].closed => ds[c] = cs[c]
  /\ ~cs[c].closed =>
       /\ Len(ds[c].calls) = Len(cs[c].calls) + Len(ops)
       /\ \A i \in 1..Len(cs[c].calls) : ds[c].calls[i] = cs[c].calls[i]
       /\ \A i \in 1..Len(ops) :
            ds[c].calls[Len(cs[c].calls) + i] = [op |-> ops[i], by |-> t, reply |-> None]

(* Ask does to the clients what Asked says. *)
LEMMA AskIs ==
  ASSUME NEW n \in Nat, NEW cs \in Seq(ClientType(n)), NEW c \in DOMAIN cs,
         NEW ops \in Seq(Operations), NEW t \in 1..n, NEW ds, ds = Ask(cs, c, ops, t)
  PROVE  ds \in Seq(ClientType(n)) /\ Asked(ds, cs, c, ops, t)
<1>0. cs[c] \in ClientType(n) /\ DOMAIN cs = 1..Len(cs) /\ Len(cs) \in Nat
  OBVIOUS
<1>1. CASE cs[c].closed
  BY <1>0, <1>1 DEF Ask, Asked
<1>2. CASE ~cs[c].closed
  <2> DEFINE new == [i \in DOMAIN ops |-> [op |-> ops[i], by |-> t, reply |-> None]]
  <2>1. PICK q : q = cs[c].calls
    OBVIOUS
  <2>2. q \in Seq(CallType(n)) /\ Len(q) \in Nat /\ Len(ops) \in Nat /\ DOMAIN ops = 1..Len(ops)
    BY <1>0, <2>1 DEF ClientType
  <2>3. \A i \in 1..Len(ops) : new[i] \in CallType(n)
    BY <2>2 DEF CallType, Replies
  <2>15. new = [i \in 1..Len(ops) |-> new[i]]
    BY <2>2
  <2>5. \A i \in 1..Len(ops) : new[i] = [op |-> ops[i], by |-> t, reply |-> None]
    BY <2>2
  <2> HIDE DEF new
  <2>4. new \in Seq(CallType(n)) /\ Len(new) = Len(ops) /\ DOMAIN new = 1..Len(ops)
    BY <2>2, <2>3, <2>15
  <2>6. PICK r : r = q \o new
    OBVIOUS
  <2>7. /\ r \in Seq(CallType(n)) /\ Len(r) = Len(q) + Len(ops)
        /\ \A i \in 1..Len(q) : r[i] = q[i]
        /\ \A i \in 1..Len(ops) : r[Len(q) + i] = new[i]
    <3>1. /\ q \o new \in Seq(CallType(n)) /\ Len(q \o new) = Len(q) + Len(new)
          /\ \A i \in 1..Len(q) + Len(new) :
               (q \o new)[i] = IF i <= Len(q) THEN q[i] ELSE new[i - Len(q)]
      BY <2>2, <2>4, ConcatProperties, Zenon
    <3>2. /\ r \in Seq(CallType(n)) /\ Len(r) = Len(q) + Len(ops)
          /\ \A i \in 1..Len(q) + Len(ops) :
               r[i] = IF i <= Len(q) THEN q[i] ELSE new[i - Len(q)]
      BY <3>1, <2>4, <2>6, Zenon
    <3>3. \A i \in 1..Len(q) : r[i] = q[i]
      BY <2>2, <3>2
    <3>4. \A i \in 1..Len(ops) : r[Len(q) + i] = new[i]
      <4> SUFFICES ASSUME NEW i \in 1..Len(ops) PROVE r[Len(q) + i] = new[i]
        OBVIOUS
      <4>1. /\ Len(q) + i \in 1..Len(q) + Len(ops) /\ ~(Len(q) + i <= Len(q))
            /\ Len(q) + i - Len(q) = i
        BY <2>2
      <4> QED
        BY <3>2, <4>1
    <3> QED
      BY <3>2, <3>3, <3>4
  <2>8. PICK x : x = [cs[c] EXCEPT !.calls = r]
    OBVIOUS
  <2>9. x \in ClientType(n) /\ x.closed = cs[c].closed /\ x.calls = r
    BY <1>0, <2>7, <2>8 DEF ClientType
  <2>10. ds = [cs EXCEPT ![c] = x]
    BY <1>2, <2>1, <2>6, <2>8 DEF Ask, new
  <2>11. /\ ds \in Seq(ClientType(n)) /\ Len(ds) = Len(cs) /\ DOMAIN ds = DOMAIN cs
         /\ \A d \in DOMAIN cs : ds[d] = IF d = c THEN x ELSE cs[d]
    BY <1>0, <2>9, <2>10
  <2> QED
    BY <1>2, <2>1, <2>5, <2>7, <2>9, <2>11 DEF Asked
<1> QED
  BY <1>1, <1>2

(* The folder's client is the last one and open. *)
LEMMA ClientIs ==
  ASSUME Types, NEW cs, cs = GetOrCreateClient
  PROVE  /\ cs \in Seq(ClientType(Len(tasks)))
         /\ Len(cs) \in Nat /\ Len(cs) \in DOMAIN cs /\ DOMAIN cs = 1..Len(cs)
         /\ Len(clients) <= Len(cs)
         /\ \A d \in DOMAIN clients : cs[d] = clients[d]
         /\ \A d \in DOMAIN cs : d \in DOMAIN clients \/ cs[d] = NewClient
<1>1. /\ clients \in Seq(ClientType(Len(tasks))) /\ Len(clients) \in Nat
      /\ DOMAIN clients = 1..Len(clients)
  BY DEF Types
<1>2. NewClient \in ClientType(Len(tasks))
  BY DEF NewClient, ClientType
<1>3. CASE cs = clients /\ clients # <<>>
  BY <1>1, <1>3
<1>4. CASE cs = Append(clients, NewClient)
  BY <1>1, <1>2, <1>4
<1> QED
  BY <1>3, <1>4 DEF GetOrCreateClient

-----------------------------------------------------------------------------
(* Queues to which only waiting calls by t are added. *)
Extends(r, q, t) ==
  /\ DOMAIN q = 1..Len(q) /\ DOMAIN r = 1..Len(r) /\ Len(q) \in Nat /\ Len(r) \in Nat
  /\ Len(q) <= Len(r)
  /\ \A i \in DOMAIN q : r[i] = q[i]
  /\ \A i \in DOMAIN r : i \in DOMAIN q \/ (i > Len(q) /\ r[i].by = t /\ r[i].reply = None)

Replying(q) == \A i \in DOMAIN q : q[i].reply \in Replies

(* The replies of a typed queue. *)
LEMMA TypedReplies ==
  ASSUME NEW n \in Nat, NEW q \in Seq(CallType(n))
  PROVE  Replying(q) /\ DOMAIN q = 1..Len(q) /\ Len(q) \in Nat
<1>1. DOMAIN q = 1..Len(q) /\ Len(q) \in Nat /\ \A i \in DOMAIN q : q[i] \in CallType(n)
  OBVIOUS
<1> QED
  BY <1>1 DEF Replying, CallType

(* A queue extends itself. *)
LEMMA ExtendsSelf ==
  ASSUME NEW n \in Nat, NEW q \in Seq(CallType(n)), NEW t
  PROVE  Extends(q, q, t)
BY DEF Extends

(* A call by t extends the queues. *)
LEMMA AskedExtends ==
  ASSUME NEW n \in Nat, NEW cs \in Seq(ClientType(n)), NEW ds \in Seq(ClientType(n)),
         NEW c \in DOMAIN cs, NEW ops \in Seq(Operations), NEW t, Asked(ds, cs, c, ops, t),
         NEW d \in DOMAIN cs
  PROVE  Extends(ds[d].calls, cs[d].calls, t)
<1>1. /\ cs[d] \in ClientType(n) /\ ds[d] \in ClientType(n)
      /\ Len(ops) \in Nat
  BY DEF Asked
<1>2. /\ cs[d].calls \in Seq(CallType(n)) /\ ds[d].calls \in Seq(CallType(n))
  BY <1>1 DEF ClientType
<1>3. CASE ds[d] = cs[d]
  BY <1>2, <1>3, ExtendsSelf
<1>4. CASE d = c /\ ~cs[c].closed
  <2>1. PICK q, r : q = cs[c].calls /\ r = ds[c].calls
    OBVIOUS
  <2>2. /\ DOMAIN q = 1..Len(q) /\ DOMAIN r = 1..Len(r) /\ Len(q) \in Nat /\ Len(r) \in Nat
    BY <1>2, <1>4, <2>1
  <2>3. /\ Len(r) = Len(q) + Len(ops)
        /\ \A i \in 1..Len(q) : r[i] = q[i]
        /\ \A i \in 1..Len(ops) : r[Len(q) + i] = [op |-> ops[i], by |-> t, reply |-> None]
    BY <1>4, <2>1 DEF Asked
  <2>4. ASSUME NEW i \in DOMAIN r, i \notin DOMAIN q
        PROVE  i > Len(q) /\ r[i].by = t /\ r[i].reply = None
    <3>1. i > Len(q) /\ i - Len(q) \in 1..Len(ops) /\ i = Len(q) + (i - Len(q))
      BY <1>1, <2>2, <2>3, <2>4
    <3>2. r[i] = [op |-> ops[i - Len(q)], by |-> t, reply |-> None]
      BY <2>3, <3>1
    <3> QED
      BY <3>1, <3>2
  <2>5. Extends(r, q, t)
    BY <1>1, <2>2, <2>3, <2>4 DEF Extends
  <2> QED
    BY <1>4, <2>1, <2>5
<1> QED
  BY <1>3, <1>4 DEF Asked

(* What is true of a queue stays true of a longer one. *)
LEMMA Longer ==
  ASSUME NEW q, NEW r, NEW t, Extends(r, q, t), Replying(q)
  PROVE  /\ Ordered(q) => Ordered(r)
         /\ \A v \in Nat : Recent(q, v) => Recent(r, v)
         /\ \A v \in Nat : NoneBefore(q, v) => NoneBefore(r, v)
         /\ \A u : u # t /\ NoCall(q, u) => NoCall(r, u)
         /\ \A u : u # t /\ OneCall(q, u) => OneCall(r, u)
         /\ \A u, x : u # t /\ LoadCalls(q, u, x) => LoadCalls(r, u, x)
         /\ \A u : GraphNext(q, u) => GraphNext(r, u)
<1>1. Ordered(q) => Ordered(r)
  BY DEF Ordered, Extends, Replying, Replies, None, Failed, NotInitialized
<1>2. \A v \in Nat : Recent(q, v) => Recent(r, v)
  BY DEF Recent, Extends, None
<1>3. \A v \in Nat : NoneBefore(q, v) => NoneBefore(r, v)
  BY DEF NoneBefore, NotBefore, Extends, None
<1>4. \A u : u # t /\ NoCall(q, u) => NoCall(r, u)
  BY DEF NoCall, Extends
<1>5. \A u : u # t /\ OneCall(q, u) => OneCall(r, u)
  BY DEF OneCall, Extends
<1>6. \A u, x : u # t /\ LoadCalls(q, u, x) => LoadCalls(r, u, x)
  <2>0. SUFFICES ASSUME NEW u, NEW x, u # t, LoadCalls(q, u, x) PROVE LoadCalls(r, u, x)
    OBVIOUS
  <2> SUFFICES ASSUME NEW i \in DOMAIN r, r[i].by = u
               PROVE \/ /\ r[i].op = "status" /\ i + 1 \in DOMAIN r
                        /\ r[i + 1].by = u /\ r[i + 1].op = "graph"
                     \/ /\ r[i].op = "graph"
                        /\ \/ i = 1 /\ x # None
                           \/ i > 1 /\ r[i - 1].by = u /\ r[i - 1].op = "status"
    BY DEF LoadCalls
  <2>1. i \in DOMAIN q /\ r[i] = q[i]
    BY <2>0 DEF Extends
  <2>2. CASE q[i].op = "status" /\ i + 1 \in DOMAIN q /\ q[i + 1].by = u /\ q[i + 1].op = "graph"
    BY <2>1, <2>2 DEF Extends
  <2>3. CASE q[i].op = "graph" /\ i = 1 /\ x # None
    BY <2>1, <2>3
  <2>4. CASE q[i].op = "graph" /\ i > 1 /\ q[i - 1].by = u /\ q[i - 1].op = "status"
    <3>1. i - 1 \in DOMAIN q
      BY <2>1, <2>4 DEF Extends
    <3> QED
      BY <2>1, <2>4, <3>1 DEF Extends
  <2> QED
    BY <2>0, <2>1, <2>2, <2>3, <2>4 DEF LoadCalls
<1>7. \A u : GraphNext(q, u) => GraphNext(r, u)
  BY DEF GraphNext, Extends
<1> QED
  BY <1>1, <1>2, <1>3, <1>4, <1>5, <1>6, <1>7

(* A task that had no call on a queue has at most the one it adds. *)
LEMMA OneMore ==
  ASSUME NEW q, NEW r, NEW t, Extends(r, q, t), NoCall(q, t)
  PROVE  /\ Len(r) = Len(q) => NoCall(r, t) /\ OneCall(r, t)
         /\ Len(r) = Len(q) + 1 => OneCall(r, t)
<1>1. /\ Len(q) \in Nat /\ Len(r) \in Nat /\ DOMAIN r = 1..Len(r) /\ DOMAIN q = 1..Len(q)
  BY DEF Extends
<1>2. \A i \in DOMAIN r : r[i].by = t => i > Len(q) /\ i <= Len(r)
  BY <1>1 DEF Extends, NoCall
<1>3. Len(r) = Len(q) => NoCall(r, t) /\ OneCall(r, t)
  BY <1>1, <1>2 DEF NoCall, OneCall
<1>4. ASSUME Len(r) = Len(q) + 1 PROVE OneCall(r, t)
  <2> SUFFICES ASSUME NEW i \in DOMAIN r, NEW j \in DOMAIN r, r[i].by = t, r[j].by = t
               PROVE  i = j
    BY DEF OneCall
  <2>1. i > Len(q) /\ i <= Len(r) /\ j > Len(q) /\ j <= Len(r) /\ i \in Int /\ j \in Int
    BY <1>1, <1>2
  <2> QED
    BY <1>1, <1>4, <2>1
<1> QED
  BY <1>3, <1>4

(* Of a task without calls on a queue everything said of its calls holds. *)
LEMMA NoCallNoLoad ==
  ASSUME NEW q, NEW t, NoCall(q, t)
  PROVE  OneCall(q, t) /\ \A x : LoadCalls(q, t, x)
BY DEF NoCall, OneCall, LoadCalls

(* The two calls of a load, just made. *)
LEMMA LoadAsked ==
  ASSUME NEW q, NEW r, NEW t, Extends(r, q, t), NoCall(q, t), NEW x,
         Len(r) = Len(q) + 2, r[Len(q) + 1].op = "status", r[Len(q) + 2].op = "graph"
  PROVE  LoadCalls(r, t, x)
<1>1. ASSUME NEW i \in DOMAIN r, r[i].by = t PROVE i = Len(q) + 1 \/ i = Len(q) + 2
  BY <1>1 DEF Extends, NoCall
<1>2. r[Len(q) + 1].by = t /\ r[Len(q) + 2].by = t
  BY DEF Extends
<1>3. Len(q) \in Nat /\ DOMAIN r = 1..Len(q) + 2
  BY DEF Extends
<1> SUFFICES ASSUME NEW i \in DOMAIN r, r[i].by = t
             PROVE \/ /\ r[i].op = "status" /\ i + 1 \in DOMAIN r
                      /\ r[i + 1].by = t /\ r[i + 1].op = "graph"
                   \/ /\ r[i].op = "graph"
                      /\ \/ i = 1 /\ x # None
                         \/ i > 1 /\ r[i - 1].by = t /\ r[i - 1].op = "status"
  BY DEF LoadCalls
<1>4. CASE i = Len(q) + 1
  BY <1>2, <1>3, <1>4
<1>5. CASE i = Len(q) + 2
  <2>1. i > 1 /\ i - 1 = Len(q) + 1
    BY <1>3, <1>5
  <2> QED
    BY <1>2, <1>5, <2>1
<1> QED
  BY <1>1, <1>4, <1>5

-----------------------------------------------------------------------------
(* Tasks. *)
LEMMA TaskSet ==
  ASSUME NEW m, NEW ts \in Seq(TaskType(m)), NEW t \in DOMAIN ts, NEW k \in TaskType(m),
         NEW us, us = [ts EXCEPT ![t] = k]
  PROVE  /\ us \in Seq(TaskType(m)) /\ Len(us) = Len(ts) /\ DOMAIN us = DOMAIN ts
         /\ us[t] = k
         /\ \A u \in DOMAIN ts : u # t => us[u] = ts[u]
OBVIOUS

(* A task is started. *)
LEMMA TaskAdded ==
  ASSUME NEW m, NEW ts \in Seq(TaskType(m)), NEW k \in TaskType(m), NEW us, us = Append(ts, k)
  PROVE  /\ us \in Seq(TaskType(m)) /\ Len(us) = Len(ts) + 1 /\ DOMAIN us = 1..Len(us)
         /\ us[Len(us)] = k /\ Len(us) \in DOMAIN us /\ Len(us) \notin DOMAIN ts
         /\ \A u \in DOMAIN ts : u \in DOMAIN us /\ us[u] = ts[u]
         /\ \A u \in DOMAIN us : u \in DOMAIN ts \/ u = Len(us)
<1>1. DOMAIN ts = 1..Len(ts) /\ Len(ts) \in Nat
  OBVIOUS
<1>2. us \in Seq(TaskType(m)) /\ Len(us) = Len(ts) + 1
  OBVIOUS
<1>3. us[Len(ts) + 1] = k /\ \A u \in 1..Len(ts) : us[u] = ts[u]
  BY <1>1
<1> QED
  BY <1>1, <1>2, <1>3

(* The tasks the steps make. *)
LEMMA TaskTypes ==
  ASSUME NEW m \in Nat, NEW c \in 0..m, NEW cs
  PROVE  /\ Done \in TaskType(m)
         /\ \A x \in Steps, v \in Nat \cup {None, Failed} : Awaiting(x, cs, c, v) \in TaskType(m)
         /\ Loading(cs, c, None) \in TaskType(m)
         /\ \A x \in Steps : [Done EXCEPT !.step = x, !.client = c] \in TaskType(m)
<1>1. Done \in TaskType(m)
  BY DEF Done, TaskType, Steps, Replies
<1>2. \A x \in Steps, v \in Nat \cup {None, Failed} : Awaiting(x, cs, c, v) \in TaskType(m)
  BY DEF Awaiting, TaskType, Replies
<1>3. Loading(cs, c, None) \in TaskType(m)
  BY DEF Loading, TaskType, Steps, PanelSteps, Replies
<1>4. \A x \in Steps : [Done EXCEPT !.step = x, !.client = c] \in TaskType(m)
  BY DEF Done, TaskType, Replies
<1> QED
  BY <1>1, <1>2, <1>3, <1>4

(* When a load and when another task is settled. *)
LEMMA SettledIs ==
  ASSUME NEW w
  PROVE  /\ tasks[w].step = "load" =>
              (Settled(w) <=> tasks[w].status = Failed
                              \/ (tasks[w].status # None /\ tasks[w].reply # None))
         /\ tasks[w].step \in {"analyze", "impact", "command", "init"} =>
              (Settled(w) <=> tasks[w].reply # None)
BY DEF Settled

(* A task that does not change stays settled, or unsettled. *)
LEMMA SettledSame ==
  ASSUME NEW w, tasks'[w] = tasks[w]
  PROVE  Settled(w)' <=> Settled(w)
BY DEF Settled

(* What is no snapshot is below 0. *)
LEMMA Kinds == None = -1 /\ Failed = -2 /\ NotInitialized = -3
BY DEF None, Failed, NotInitialized

(* A reply is a number, of a snapshot or below 0. *)
LEMMA ReplyKinds ==
  \A x \in Replies : x \in Int /\ (x \in Nat \/ x \in {None, Failed, NotInitialized})
BY Kinds DEF Replies

-----------------------------------------------------------------------------
(* Queues of the clients, kept and with calls added. *)
LEMMA ClientQueue ==
  ASSUME NEW n \in Nat, NEW cs \in Seq(ClientType(n)), NEW d \in DOMAIN cs
  PROVE  /\ cs[d] \in ClientType(n) /\ cs[d].calls \in Seq(CallType(n))
         /\ Replying(cs[d].calls) /\ DOMAIN cs[d].calls = 1..Len(cs[d].calls)
         /\ Len(cs[d].calls) \in Nat
         /\ \A i \in DOMAIN cs[d].calls :
              /\ cs[d].calls[i] \in CallType(n)
              /\ cs[d].calls[i].by \in 1..n /\ cs[d].calls[i].op \in Operations
              /\ cs[d].calls[i].reply \in Replies
<1>1. cs[d] \in ClientType(n)
  OBVIOUS
<1>2. cs[d].calls \in Seq(CallType(n))
  BY <1>1 DEF ClientType
<1>3. \A i \in DOMAIN cs[d].calls : cs[d].calls[i] \in CallType(n)
  BY <1>2
<1> QED
  BY <1>1, <1>2, <1>3, TypedReplies DEF CallType

(* A task that is only now started has made no call. *)
LEMMA FreshNoCall ==
  ASSUME NEW n \in Nat, NEW cs \in Seq(ClientType(n)), NEW d \in DOMAIN cs, NEW t, t \notin 1..n
  PROVE  NoCall(cs[d].calls, t)
BY ClientQueue DEF NoCall

(* A new client has an empty queue. *)
LEMMA NewClientQueues ==
  ASSUME Types, Queues
  PROVE  QueuesOf(GetOrCreateClient)
<1>1. PICK cs : cs = GetOrCreateClient
  OBVIOUS
<1>2. QueuesOf(cs)
  <2> SUFFICES ASSUME NEW c \in DOMAIN cs
               PROVE /\ cs[c].closed => cs[c].calls = <<>>
                     /\ Ordered(cs[c].calls)
                     /\ Recent(cs[c].calls, store.version)
                     /\ Callers(cs[c].calls, c)
    BY DEF QueuesOf
  <2>1. CASE c \in DOMAIN clients
    BY <1>1, <2>1, ClientIs DEF Queues, QueuesOf
  <2>2. CASE cs[c] = NewClient
    BY <2>2 DEF NewClient, Ordered, Recent, Callers
  <2> QED
    BY <1>1, <2>1, <2>2, ClientIs
<1> QED
  BY <1>1, <1>2

(* The queues keep their order when a task asks. *)
LEMMA QueuesAsked ==
  ASSUME NEW n \in Nat, NEW cs \in Seq(ClientType(n)), QueuesOf(cs), NEW c \in DOMAIN cs,
         NEW ops \in Seq(Operations), NEW t,
         clients' \in Seq(ClientType(n)), Asked(clients', cs, c, ops, t),
         store.version \in Nat, store'.version = store.version,
         tasks'[t].step # "boxes", tasks'[t].client = c,
         \A u \in 1..n : u # t => tasks'[u] = tasks[u],
         \/ tasks[t].client = c /\ tasks[t].step # "done"
         \/ \A d \in DOMAIN cs : NoCall(cs[d].calls, t)
  PROVE  Queues'
<1> SUFFICES ASSUME NEW d \in DOMAIN cs
             PROVE /\ clients'[d].closed => clients'[d].calls = <<>>
                   /\ Ordered(clients'[d].calls)
                   /\ Recent(clients'[d].calls, store'.version)
                   /\ Callers(clients[d].calls, d)'
  BY DEF Asked, Queues, QueuesOf
<1>1. PICK q, r : q = cs[d].calls /\ r = clients'[d].calls
  OBVIOUS
<1>2. /\ (cs[d].closed => q = <<>>) /\ Ordered(q) /\ Recent(q, store.version) /\ Callers(q, d)
  BY <1>1 DEF QueuesOf
<1>3. Extends(r, q, t)
  BY <1>1, AskedExtends
<1>4. Replying(q)
  BY <1>1, ClientQueue
<1>5. Ordered(r) /\ Recent(r, store'.version)
  BY <1>2, <1>3, <1>4, Longer
<1>6. clients'[d].closed => r = <<>>
  BY <1>1, <1>2 DEF Asked
<1>7. ASSUME NEW i \in DOMAIN r
      PROVE  tasks'[r[i].by].step = "done"
             \/ (tasks'[r[i].by].step # "boxes" /\ tasks'[r[i].by].client = d)
  <2>1. CASE i \in DOMAIN q /\ r[i].by # t
    <3>1. r[i] = q[i] /\ q[i].by \in 1..n
      BY <1>1, <1>3, <2>1, ClientQueue DEF Extends
    <3> QED
      BY <1>2, <2>1, <3>1 DEF Callers
  <2>2. CASE i \in DOMAIN q /\ r[i].by = t
    <3>1. r[i] = q[i] /\ ~NoCall(q, t)
      BY <1>3, <2>2 DEF Extends, NoCall
    <3>2. tasks[t].client = c /\ tasks[t].step # "done"
      BY <1>1, <3>1
    <3>3. d = c
      BY <1>2, <2>2, <3>1, <3>2 DEF Callers
    <3> QED
      BY <2>2, <3>3
  <2>3. CASE i \notin DOMAIN q
    <3>1. r[i].by = t /\ r # q
      BY <1>3, <2>3 DEF Extends
    <3>2. d = c
      BY <1>1, <3>1 DEF Asked
    <3> QED
      BY <3>1, <3>2
  <2> QED
    BY <2>1, <2>2, <2>3
<1>8. Callers(r, d)'
  BY <1>7 DEF Callers
<1> QED
  BY <1>1, <1>5, <1>6, <1>8

(* And when tasks go on, or the database grows. *)
LEMMA QueuesKept ==
  ASSUME NEW n \in Nat, NEW cs \in Seq(ClientType(n)), QueuesOf(cs), clients' = cs,
         store'.version \in Nat, store.version \in Nat, store'.version >= store.version,
         \A u \in 1..n : \/ tasks'[u] = tasks[u]
                         \/ tasks'[u].step = "done"
                         \/ /\ tasks[u].step # "done" /\ tasks'[u].step # "boxes"
                            /\ tasks'[u].client = tasks[u].client
  PROVE  Queues'
<1> SUFFICES ASSUME NEW d \in DOMAIN cs
             PROVE  Recent(cs[d].calls, store'.version) /\ Callers(cs[d].calls, d)'
  BY DEF Queues, QueuesOf
<1>1. Recent(cs[d].calls, store.version) /\ Callers(cs[d].calls, d)
  BY DEF QueuesOf
<1>2. Recent(cs[d].calls, store'.version)
  <2>1. \A i \in DOMAIN cs[d].calls : cs[d].calls[i].reply \in Int
    <3>1. \A i \in DOMAIN cs[d].calls : cs[d].calls[i].reply \in Replies
      BY ClientQueue
    <3> QED
      BY <3>1, ReplyKinds
  <2> QED
    BY <1>1, <2>1 DEF Recent
<1>3. Callers(cs[d].calls, d)'
  BY <1>1, ClientQueue DEF Callers
<1> QED
  BY <1>2, <1>3

-----------------------------------------------------------------------------
(* What the panel's client and its tasks keep while only a task t asks. *)
PanelQueue == clients[panel.client].calls

Asking(t) ==
  /\ panel'.client = panel.client
  /\ clients'[panel.client].closed = clients[panel.client].closed
  /\ Extends(PanelQueue', PanelQueue, t)
  /\ Replying(PanelQueue)
  /\ store.version \in Nat /\ store'.version \in Nat /\ store'.version >= store.version

(* An analysis that does not change, while only t asks. *)
LEMMA AnalyzeKept ==
  ASSUME NEW t, Asking(t), NEW u, u # t, AnalyzeOk(u), tasks'[u] = tasks[u],
         tasks[u].reply \in Replies,
         \A w \in DOMAIN tasks' : tasks'[w].step = "load" =>
           \/ w \in Tasks /\ tasks'[w] = tasks[w]
           \/ tasks'[w].status < 0 /\ tasks'[w].reply < 0
  PROVE  AnalyzeOk(u)'
<1>1. PICK q, r : q = PanelQueue /\ r = PanelQueue'
  OBVIOUS
<1>2. Extends(r, q, t) /\ Replying(q)
  BY <1>1 DEF Asking
<1>3. PICK x : x = tasks[u].reply
  OBVIOUS
<1>4. OneCall(r, u) /\ (x # None => NoCall(r, u))
  BY <1>1, <1>2, <1>3, Longer DEF AnalyzeOk, PanelQueue
<1>5. ASSUME x >= 0
      PROVE  /\ ~clients'[panel.client].closed
             /\ x <= store'.version
             /\ NoneBefore(r, x)
             /\ \A w \in DOMAIN tasks' : tasks'[w].step = "load" =>
                  Settled(w)' \/ Beyond(tasks[w], x)'
  <2>1. x \in Nat
    BY <1>3, <1>5, ReplyKinds, Kinds
  <2>2. ~clients[panel.client].closed /\ x <= store.version /\ NoneBefore(q, x)
    BY <1>1, <1>3, <1>5 DEF AnalyzeOk, PanelQueue
  <2>3. NoneBefore(r, x)
    BY <1>2, <2>1, <2>2, Longer
  <2>4. ASSUME NEW w \in DOMAIN tasks', tasks'[w].step = "load"
        PROVE  Settled(w)' \/ Beyond(tasks[w], x)'
    <3>1. CASE w \in Tasks /\ tasks'[w] = tasks[w]
      <4>1. Settled(w) \/ Beyond(tasks[w], x)
        BY <1>3, <1>5, <2>4, <3>1 DEF AnalyzeOk
      <4> QED
        BY <3>1, <4>1, SettledSame DEF Beyond
    <3>2. CASE tasks'[w].status < 0 /\ tasks'[w].reply < 0
      BY <3>2 DEF Beyond, NotBefore
    <3> QED
      BY <2>4, <3>1, <3>2
  <2> QED
    BY <2>1, <2>2, <2>3, <2>4 DEF Asking
<1> QED
  BY <1>1, <1>3, <1>4, <1>5 DEF AnalyzeOk, PanelQueue, Asking, Tasks

(* A load that does not change, while only t asks. *)
LEMMA LoadKept ==
  ASSUME NEW t, Asking(t), NEW w, w # t, LoadOk(w), tasks'[w] = tasks[w],
         \/ own' = own /\ (Pending => Pending')
         \/ Beyond(tasks[w], own')
         \/ Settled(w) /\ Pending'
  PROVE  LoadOk(w)'
<1>1. PICK q, r : q = PanelQueue /\ r = PanelQueue'
  OBVIOUS
<1>2. Extends(r, q, t) /\ Replying(q)
  BY <1>1 DEF Asking
<1>3. PICK k : k = tasks[w]
  OBVIOUS
<1>4. LoadCalls(r, w, k.status)
  BY <1>1, <1>2, <1>3, Longer DEF LoadOk, PanelQueue
<1>5. k.status >= 0 /\ k.reply = None => GraphNext(r, w)
  BY <1>1, <1>2, <1>3, Longer DEF LoadOk, PanelQueue
<1>6. Beyond(k, own') \/ (Settled(w)' /\ Pending')
  BY <1>3, SettledSame DEF LoadOk
<1> QED
  BY <1>1, <1>3, <1>4, <1>5, <1>6 DEF LoadOk, PanelQueue, Asking

(* An unsettled load that does not change stays one. *)
LEMMA PendingKept ==
  ASSUME Pending,
         \A w \in Tasks : tasks[w].step = "load" /\ ~Settled(w) =>
           w \in DOMAIN tasks' /\ tasks'[w] = tasks[w]
  PROVE  Pending'
BY SettledSame DEF Pending, Tasks

(* A step that leaves alone what the panel shows and what its tasks hold. *)
Steady(t) ==
  /\ Asking(t)
  /\ panel'.status = panel.status /\ panel'.graph = panel.graph
  /\ own' = own /\ lastLoad' = lastLoad /\ spanned' = spanned
  /\ \A u \in Tasks : tasks[u].step \in PanelSteps =>
       u # t /\ u \in DOMAIN tasks' /\ tasks'[u] = tasks[u]
  /\ \A u \in DOMAIN tasks' : tasks'[u].step \in PanelSteps =>
       u \in Tasks /\ tasks'[u] = tasks[u]

(* A steady step keeps what is said of the panel. *)
LEMMA PanelSteady ==
  ASSUME PanelOk, Open, NEW t, Steady(t), own \in Nat,
         \A u \in Tasks : tasks[u].reply \in Replies
  PROVE  PanelOk'
<1>1. /\ Asking(t) /\ store.version \in Nat /\ store'.version \in Nat
      /\ store'.version >= store.version /\ own' = own
  BY DEF Steady, Asking
<1>2. Pending => Pending'
  BY PendingKept DEF Steady, PanelSteps
<1>3. ASSUME NEW u \in DOMAIN tasks', tasks'[u].step = "analyze" PROVE AnalyzeOk(u)'
  <2>1. u \in Tasks /\ tasks'[u] = tasks[u] /\ u # t /\ AnalyzeOk(u)
    BY <1>3 DEF Steady, PanelSteps, PanelOk
  <2>2. \A w \in DOMAIN tasks' : tasks'[w].step = "load" => w \in Tasks /\ tasks'[w] = tasks[w]
    BY DEF Steady, PanelSteps
  <2> QED
    BY <1>1, <2>1, <2>2, AnalyzeKept
<1>4. ASSUME NEW w \in DOMAIN tasks', tasks'[w].step = "load" PROVE LoadOk(w)'
  <2>1. w \in Tasks /\ tasks'[w] = tasks[w] /\ w # t /\ LoadOk(w)
    BY <1>4 DEF Steady, PanelSteps, PanelOk
  <2> QED
    BY <1>1, <1>2, <2>1, LoadKept
<1>5. own <= store'.version
  BY <1>1 DEF PanelOk
<1>6. NoneBefore(PanelQueue', own)
  <2>1. NoneBefore(PanelQueue, own)
    BY DEF PanelOk, PanelQueue
  <2> QED
    BY <1>1, <2>1, Longer DEF Asking
<1>7. Shown'
  <2>1. (\A w \in DOMAIN tasks' : tasks'[w].step # "load") =>
          \A w \in Tasks : tasks[w].step # "load"
    BY DEF Steady, PanelSteps
  <2>2. \A u \in DOMAIN tasks' : tasks'[u].step = "impact" => u \in Tasks /\ tasks'[u] = tasks[u]
    BY DEF Steady, PanelSteps
  <2>3. Shown
    BY DEF PanelOk
  <2> QED
    BY <2>1, <2>2, <2>3 DEF Shown, Steady, Tasks
<1> QED
  BY <1>1, <1>3, <1>4, <1>5, <1>6, <1>7 DEF PanelOk, PanelQueue, Tasks

-----------------------------------------------------------------------------
(* The steps. *)
LEMMA Basics ==
  ASSUME Types
  PROVE  /\ Len(tasks) \in Nat /\ Tasks = 1..Len(tasks) /\ DOMAIN tasks = 1..Len(tasks)
         /\ Len(clients) \in Nat /\ DOMAIN clients = 1..Len(clients)
         /\ \A u \in Tasks : /\ tasks[u] \in TaskType(Len(clients))
                             /\ tasks[u].step \in Steps /\ tasks[u].client \in 0..Len(clients)
                             /\ tasks[u].status \in Nat \cup {None, Failed}
                             /\ tasks[u].reply \in Replies
         /\ store.initialised \in BOOLEAN /\ store.version \in Nat /\ own \in Nat
         /\ panel.client \in 0..Len(clients) /\ panel.page \in Pages
         /\ panel.status \in Nat \cup {None} /\ panel.graph \in Nat \cup {None}
         /\ panel.buttons \subseteq Buttons /\ panel.inbox \in Seq(Buttons)
<1>1. /\ tasks \in Seq(TaskType(Len(clients))) /\ clients \in Seq(ClientType(Len(tasks)))
      /\ panel \in PanelType(Len(clients)) /\ store \in StoreType /\ own \in Nat
  BY DEF Types
<1>2. /\ Len(tasks) \in Nat /\ DOMAIN tasks = 1..Len(tasks)
      /\ \A u \in DOMAIN tasks : tasks[u] \in TaskType(Len(clients))
  BY <1>1
<1>3. Len(clients) \in Nat /\ DOMAIN clients = 1..Len(clients)
  BY <1>1
<1>4. \A u \in Tasks : /\ tasks[u].step \in Steps /\ tasks[u].client \in 0..Len(clients)
                       /\ tasks[u].status \in Nat \cup {None, Failed}
                       /\ tasks[u].reply \in Replies
  BY <1>2 DEF TaskType, Tasks
<1>5. store.initialised \in BOOLEAN /\ store.version \in Nat
  BY <1>1 DEF StoreType
<1>6. /\ panel.client \in 0..Len(clients) /\ panel.page \in Pages
      /\ panel.status \in Nat \cup {None} /\ panel.graph \in Nat \cup {None}
      /\ panel.buttons \subseteq Buttons /\ panel.inbox \in Seq(Buttons)
  BY <1>1 DEF PanelType
<1> QED
  BY <1>1, <1>2, <1>3, <1>4, <1>5, <1>6 DEF Tasks

(* The shape of a task that does not change. *)
LEMMA TaskShapeKept ==
  ASSUME NEW u, TaskShape(u), tasks'[u] = tasks[u], DOMAIN clients \subseteq DOMAIN clients',
         tasks[u].step \notin PanelSteps \/ (panel'.page # "none" /\ panel'.client = panel.client)
  PROVE  TaskShape(u)'
BY DEF TaskShape, Open

(* PanelInv holds at the start. *)
LEMMA InitStep == Init => PanelInv
<1> SUFFICES ASSUME Init PROVE PanelInv
  OBVIOUS
<1>1. clients = <<>> /\ tasks = <<>> /\ panel = NoPanel
  BY DEF Init
<1>2. Types
  <2>1. panel \in PanelType(Len(clients))
    BY <1>1 DEF PanelType, NoPanel, Pages
  <2>2. store \in StoreType
    BY DEF Init, StoreType
  <2>3. clients \in Seq(ClientType(Len(tasks))) /\ tasks \in Seq(TaskType(Len(clients)))
    BY <1>1
  <2>4. panel.page # "ready"
    BY <1>1 DEF NoPanel
  <2> QED
    BY <2>1, <2>2, <2>3, <2>4 DEF Init, Types
<1>3. Shape
  BY <1>1 DEF Init, Shape, NoPanel, Open, Tasks
<1>4. Queues /\ PanelOk
  BY <1>1 DEF Queues, QueuesOf, PanelOk, Open, NoPanel
<1> QED
  BY <1>2, <1>3, <1>4 DEF PanelInv

(* The calls of a load on an open client. *)
LEMMA TwoAsked ==
  ASSUME NEW ds, NEW cs, NEW c, NEW t, ~cs[c].closed,
         NEW ops, Len(ops) = 2, ops[1] = "status", ops[2] = "graph", Asked(ds, cs, c, ops, t)
  PROVE  /\ Len(ds[c].calls) = Len(cs[c].calls) + 2
         /\ ds[c].calls[Len(cs[c].calls) + 1].op = "status"
         /\ ds[c].calls[Len(cs[c].calls) + 2].op = "graph"
<1>3. \A i \in 1..2 : ds[c].calls[Len(cs[c].calls) + i] = [op |-> ops[i], by |-> t, reply |-> None]
  BY DEF Asked
<1>4. Len(ds[c].calls) = Len(cs[c].calls) + 2
  BY DEF Asked
<1>5. /\ ds[c].calls[Len(cs[c].calls) + 1] = [op |-> "status", by |-> t, reply |-> None]
      /\ ds[c].calls[Len(cs[c].calls) + 2] = [op |-> "graph", by |-> t, reply |-> None]
  BY <1>3
<1> QED
  BY <1>4, <1>5

(* A panel is opened by task t, with client c. *)
LEMMA NewPanelStep ==
  ASSUME PanelInv, ~Open, NEW n \in Nat, n = Len(tasks'),
         NEW cs \in Seq(ClientType(n)), QueuesOf(cs), NEW c \in DOMAIN cs, NEW t \in 1..n,
         Len(clients) <= Len(cs), tasks' \in Seq(TaskType(Len(cs))),
         tasks'[t] = Loading(cs, c, None),
         \A u \in DOMAIN tasks' : u # t => u \in Tasks /\ tasks'[u] = tasks[u],
         \A d \in DOMAIN cs : NoCall(cs[d].calls, t),
         NewPanel(cs, c, t)
  PROVE  PanelInv'
<1>1. /\ DOMAIN tasks' = 1..n /\ DOMAIN cs = 1..Len(cs) /\ Len(cs) \in Nat
  OBVIOUS
<1>2. LoadOps(None) = << "status", "graph" >> /\ LoadOps(None) \in Seq(Operations)
  BY DEF LoadOps, Operations
<1>3. clients' \in Seq(ClientType(n)) /\ Asked(clients', cs, c, LoadOps(None), t)
  BY <1>2, AskIs DEF NewPanel
<1>4. /\ panel' = [NoPanel EXCEPT !.client = c, !.page = "loading"]
      /\ own' = 0 /\ lastLoad' = "none" /\ spanned' = FALSE /\ store' = store
  BY DEF NewPanel
<1>5. /\ panel'.client = c /\ panel'.page = "loading" /\ panel'.buttons = {}
      /\ panel'.inbox = <<>>
  BY <1>4 DEF NoPanel
<1>6. /\ tasks'[t].step = "load" /\ tasks'[t].client = c /\ tasks'[t].reply = None
      /\ tasks'[t].status = IF cs[c].closed THEN Failed ELSE None
  BY DEF Loading
<1>7. Len(clients') = Len(cs) /\ DOMAIN clients' = DOMAIN cs
  BY <1>3 DEF Asked
<1>8. Types /\ Shape /\ Queues
  BY DEF PanelInv
<1>9. /\ DOMAIN clients = 1..Len(clients) /\ Len(clients) \in Nat /\ store.version \in Nat
      /\ store \in StoreType
  BY <1>8, Basics DEF Types
<1>10. Types'
  <2>1. panel' \in PanelType(Len(clients'))
    <3>1. c \in 0..Len(clients')
      BY <1>1, <1>7
    <3>2. panel' = [client |-> c, page |-> "loading", status |-> None, graph |-> None,
                    buttons |-> {}, inbox |-> <<>>]
      BY <1>4 DEF NoPanel
    <3>3. <<>> \in Seq(Buttons) /\ {} \in SUBSET Buttons /\ "loading" \in Pages
      BY DEF Pages
    <3> QED
      BY <3>1, <3>2, <3>3 DEF PanelType
  <2> QED
    BY <1>3, <1>4, <1>5, <1>7, <1>9, <2>1 DEF Types
<1>11. \A u \in DOMAIN tasks' : u # t => tasks'[u].step \notin PanelSteps
  BY <1>8 DEF Shape, TaskShape
<1>12. Shape'
  <2>1. TaskShape(t)'
    BY <1>5, <1>6, <1>7, Kinds DEF TaskShape, Open
  <2>2. ASSUME NEW u \in DOMAIN tasks', u # t PROVE TaskShape(u)'
    <3>1. TaskShape(u) /\ tasks'[u] = tasks[u] /\ tasks[u].step \notin PanelSteps
      BY <1>8, <1>11, <2>2 DEF Shape
    <3> QED
      BY <1>1, <1>7, <1>9, <3>1, TaskShapeKept
  <2> QED
    BY <1>4, <1>5, <1>7, <1>8, <2>1, <2>2 DEF Shape, Open, Tasks
<1>13. Queues'
  <2>1. tasks'[t].step # "boxes" /\ tasks'[t].client = c
    BY <1>6
  <2>2. \A u \in 1..n : u # t => tasks'[u] = tasks[u]
    BY <1>1
  <2>3. store.version \in Nat /\ store'.version = store.version
    BY <1>4, <1>9
  <2> QED
    BY <1>2, <1>3, <2>1, <2>2, <2>3, QueuesAsked
<1>14. PanelOk'
  <2>1. PICK q, r : q = cs[c].calls /\ r = clients'[c].calls
    OBVIOUS
  <2>2. NoCall(q, t) /\ Extends(r, q, t) /\ Replying(r)
    BY <1>2, <1>3, <1>7, <2>1, AskedExtends, ClientQueue
  <2>3. LoadCalls(r, t, tasks'[t].status)
    <3>1. CASE cs[c].closed
      <4>1. r = q
        BY <1>3, <2>1, <3>1 DEF Asked
      <4> QED
        BY <2>2, <4>1, NoCallNoLoad
    <3>2. CASE ~cs[c].closed
      <4>1. /\ Len(r) = Len(q) + 2
            /\ r[Len(q) + 1].op = "status" /\ r[Len(q) + 2].op = "graph"
        <5>1. PICK ds, ops : ds = clients' /\ ops = LoadOps(None)
          OBVIOUS
        <5>2. Asked(ds, cs, c, ops, t) /\ Len(ops) = 2 /\ ops[1] = "status" /\ ops[2] = "graph"
          BY <1>2, <1>3, <5>1
        <5>3. /\ Len(ds[c].calls) = Len(cs[c].calls) + 2
              /\ ds[c].calls[Len(cs[c].calls) + 1].op = "status"
              /\ ds[c].calls[Len(cs[c].calls) + 2].op = "graph"
          BY <5>2, <3>2, TwoAsked
        <5> QED
          BY <5>1, <5>3, <2>1
      <4> QED
        BY <2>2, <4>1, LoadAsked
    <3> QED
      BY <3>1, <3>2
  <2>4. LoadOk(t)'
    BY <1>5, <1>6, <2>1, <2>3, Kinds DEF LoadOk, Beyond, NotBefore
  <2>5. NoneBefore(r, 0)
    BY <2>2, ReplyKinds, Kinds DEF NoneBefore, NotBefore, Replying
  <2>6. \A u \in DOMAIN tasks' : u # t => tasks'[u].step # "load" /\ tasks'[u].step # "analyze"
    BY <1>11 DEF PanelSteps
  <2>7. Shown'
    BY <1>1, <1>6 DEF Shown, Tasks
  <2> QED
    BY <1>4, <1>5, <1>6, <1>9, <2>1, <2>4, <2>5, <2>6, <2>7 DEF PanelOk, Tasks
<1> QED
  BY <1>10, <1>12, <1>13, <1>14 DEF PanelInv

(* Steps of other tasks: what they leave alone. *)
OtherTasks(n) ==
  /\ n \in Nat /\ n = Len(tasks') /\ Len(tasks) <= n
  /\ DOMAIN tasks' = 1..n
  /\ \A u \in Tasks :
       \/ tasks'[u] = tasks[u]
       \/ tasks[u].step \notin PanelSteps /\ tasks'[u].step = "done"
       \/ /\ tasks[u].step \notin PanelSteps \cup {"done"}
          /\ tasks'[u].step \notin PanelSteps \cup {"boxes"}
          /\ tasks'[u].client = tasks[u].client
  /\ \A u \in DOMAIN tasks' \ Tasks :
       tasks'[u].step \notin PanelSteps /\ tasks'[u].client \in DOMAIN clients'

SamePanel ==
  /\ panel' \in PanelType(Len(clients'))
  /\ panel'.page = panel.page /\ panel'.client = panel.client
  /\ panel'.status = panel.status /\ panel'.graph = panel.graph
  /\ panel'.buttons # {} \/ panel'.inbox # <<>> => panel.status # None
  /\ ~Open => panel' = panel
  /\ own' = own /\ lastLoad' = lastLoad /\ spanned' = spanned

SameStore ==
  /\ store' \in StoreType /\ store'.version >= store.version
  /\ ~store'.initialised => store'.version = 0

(* The panel as it was is SamePanel. *)
LEMMA PanelSame ==
  ASSUME Types, Shape, panel' = panel, own' = own, lastLoad' = lastLoad, spanned' = spanned,
         Len(clients) <= Len(clients'), Len(clients') \in Nat
  PROVE  SamePanel
<1>1. panel \in PanelType(Len(clients)) /\ Len(clients) \in Nat
  BY Basics DEF Types
<1>2. panel \in PanelType(Len(clients'))
  BY <1>1, Widen
<1> QED
  BY <1>2 DEF SamePanel, Shape

(* The database as it was is SameStore. *)
LEMMA StoreSame ==
  ASSUME Types, Shape, store' = store
  PROVE  SameStore
<1>1. store \in StoreType /\ store.version \in Nat
  BY Basics DEF Types
<1> QED
  BY <1>1 DEF SameStore, Shape

(* Steps of other tasks keep the shape of everything. *)
LEMMA OthersShape ==
  ASSUME Types, Shape, NEW n, OtherTasks(n), SamePanel, SameStore,
         Len(clients) <= Len(clients'), Len(clients') \in Nat, DOMAIN clients' = 1..Len(clients')
  PROVE  Shape'
<1>1. /\ Len(clients) \in Nat /\ DOMAIN clients = 1..Len(clients)
      /\ DOMAIN clients \subseteq DOMAIN clients'
  BY Basics
<1>2. Open' <=> Open
  BY DEF Open, SamePanel
<1>3. ASSUME NEW u \in DOMAIN tasks' PROVE TaskShape(u)'
  <2>1. CASE u \in Tasks /\ tasks'[u] = tasks[u]
    BY <1>1, <1>2, <2>1, TaskShapeKept DEF Shape, SamePanel, TaskShape, Open
  <2>2. CASE u \in Tasks /\ tasks'[u].step = "done"
    BY <2>2 DEF TaskShape, PanelSteps
  <2>3. CASE /\ u \in Tasks /\ tasks[u].step # "done" /\ tasks'[u].step \notin PanelSteps
             /\ tasks'[u].client = tasks[u].client
    BY <1>1, <2>3 DEF Shape, TaskShape, PanelSteps
  <2>4. CASE u \notin Tasks
    BY <2>4 DEF OtherTasks, TaskShape, PanelSteps
  <2> QED
    BY <2>1, <2>2, <2>3, <2>4 DEF OtherTasks
<1>4. \A u \in DOMAIN tasks' : TaskShape(u)'
  BY <1>3
<1>5. Open' => panel'.client \in DOMAIN clients'
  BY <1>1, <1>2 DEF Shape, SamePanel
<1>6. ~Open' => panel' = NoPanel
  BY <1>2 DEF Shape, SamePanel
<1> QED
  BY <1>4, <1>5, <1>6 DEF Shape, SamePanel, SameStore, Tasks

(* And the types. *)
LEMMA OthersTypes ==
  ASSUME Types, SamePanel, SameStore, clients' \in Seq(ClientType(Len(tasks'))),
         tasks' \in Seq(TaskType(Len(clients')))
  PROVE  Types'
BY DEF Types, SamePanel, SameStore

(* And they are steady. *)
LEMMA OthersSteady ==
  ASSUME Types, Open, NEW n, OtherTasks(n), SamePanel, SameStore,
         clients'[panel.client].closed = clients[panel.client].closed,
         NEW t, t \notin Tasks \/ tasks[t].step \notin PanelSteps,
         Extends(clients'[panel.client].calls, clients[panel.client].calls, t),
         Replying(clients[panel.client].calls)
  PROVE  Steady(t)
<1>1. store.version \in Nat /\ store'.version \in Nat /\ store'.version >= store.version
  BY Basics DEF SameStore, StoreType
<1>2. Asking(t)
  BY <1>1 DEF Asking, PanelQueue, SamePanel
<1>3. \A u \in Tasks : tasks[u].step \in PanelSteps =>
        u # t /\ u \in DOMAIN tasks' /\ tasks'[u] = tasks[u]
  <2>1. Tasks \subseteq DOMAIN tasks'
    BY Basics DEF OtherTasks
  <2> QED
    BY <2>1 DEF OtherTasks
<1>4. \A u \in DOMAIN tasks' : tasks'[u].step \in PanelSteps => u \in Tasks /\ tasks'[u] = tasks[u]
  BY DEF OtherTasks, PanelSteps
<1> QED
  BY <1>2, <1>3, <1>4 DEF Steady, SamePanel

(* A step of other tasks that asks nothing keeps PanelInv. *)
LEMMA CalmStep ==
  ASSUME PanelInv, NEW n, OtherTasks(n), SamePanel, SameStore,
         NEW cs, clients' = cs, cs \in Seq(ClientType(Len(tasks))), QueuesOf(cs),
         Len(clients) <= Len(cs), \A d \in DOMAIN clients : cs[d] = clients[d],
         tasks' \in Seq(TaskType(Len(clients')))
  PROVE  PanelInv'
<1>1. Types /\ Shape /\ Queues /\ PanelOk
  BY DEF PanelInv
<1>2. n \in Nat /\ n = Len(tasks') /\ Len(cs) \in Nat /\ DOMAIN cs = 1..Len(cs)
  BY DEF OtherTasks
<1>3. Types' /\ Shape'
  <2>1. cs \in Seq(ClientType(n))
    BY <1>1, <1>2, Basics, Widen DEF OtherTasks
  <2> QED
    BY <1>1, <1>2, <2>1, OthersTypes, OthersShape
<1>4. Queues'
  <2>1. store'.version \in Nat /\ store.version \in Nat /\ store'.version >= store.version
    BY <1>1, Basics DEF SameStore, StoreType
  <2>2. Len(tasks) \in Nat /\ Tasks = 1..Len(tasks)
    BY <1>1, Basics
  <2>3. \A u \in 1..Len(tasks) :
          \/ tasks'[u] = tasks[u]
          \/ tasks'[u].step = "done"
          \/ /\ tasks[u].step # "done" /\ tasks'[u].step # "boxes"
             /\ tasks'[u].client = tasks[u].client
    BY <2>2 DEF OtherTasks
  <2> QED
    BY <2>1, <2>2, <2>3, QueuesKept
<1>5. PanelOk'
  <2>1. CASE ~Open
    BY <2>1 DEF PanelOk, Open, SamePanel
  <2>2. CASE Open
    <3>1. panel.client \in DOMAIN clients /\ clients'[panel.client] = clients[panel.client]
      BY <1>1, <2>2 DEF Shape
    <3>2. /\ clients \in Seq(ClientType(Len(tasks))) /\ Len(tasks) \in Nat
          /\ Len(tasks) + 1 \notin Tasks /\ own \in Nat
          /\ \A u \in Tasks : tasks[u].reply \in Replies
      BY <1>1, Basics DEF Types
    <3>3. /\ Extends(clients[panel.client].calls, clients[panel.client].calls, Len(tasks) + 1)
          /\ Replying(clients[panel.client].calls)
      BY <3>1, <3>2, ClientQueue, ExtendsSelf
    <3>4. Steady(Len(tasks) + 1)
      BY <1>1, <2>2, <3>1, <3>2, <3>3, OthersSteady
    <3> QED
      BY <1>1, <2>2, <3>2, <3>4, PanelSteady
  <2> QED
    BY <2>1, <2>2
<1> QED
  BY <1>3, <1>4, <1>5 DEF PanelInv

(* A step of other tasks in which t asks keeps PanelInv. *)
LEMMA AskStep ==
  ASSUME PanelInv, NEW n, OtherTasks(n), SamePanel, SameStore, store' = store,
         NEW cs, cs \in Seq(ClientType(Len(tasks))), QueuesOf(cs),
         Len(clients) <= Len(cs), \A d \in DOMAIN clients : cs[d] = clients[d],
         NEW c, c \in 1..Len(cs), NEW ops, ops \in Seq(Operations), NEW t, t \in 1..n,
         clients' = Ask(cs, c, ops, t),
         tasks' \in Seq(TaskType(Len(cs))),
         \A u \in 1..n : u # t => u \in Tasks /\ tasks'[u] = tasks[u],
         tasks'[t].step # "boxes", tasks'[t].client = c,
         \/ t \notin Tasks
         \/ tasks[t].client = c /\ tasks[t].step \notin PanelSteps \cup {"done"}
  PROVE  PanelInv'
<1>1. Types /\ Shape /\ Queues /\ PanelOk
  BY DEF PanelInv
<1>2. n \in Nat /\ n = Len(tasks') /\ Len(cs) \in Nat /\ DOMAIN cs = 1..Len(cs)
  BY DEF OtherTasks
<1>3. /\ clients \in Seq(ClientType(Len(tasks))) /\ Len(tasks) \in Nat /\ Tasks = 1..Len(tasks)
      /\ store.version \in Nat /\ own \in Nat /\ \A u \in Tasks : tasks[u].reply \in Replies
  BY <1>1, Basics DEF Types
<1>4. cs \in Seq(ClientType(n))
  BY <1>2, <1>3, Widen DEF OtherTasks
<1>5. clients' \in Seq(ClientType(n)) /\ Asked(clients', cs, c, ops, t)
  BY <1>2, <1>4, AskIs
<1>6. Len(clients') = Len(cs) /\ DOMAIN clients' = 1..Len(cs)
  BY <1>2, <1>5 DEF Asked
<1>7. Types' /\ Shape'
  BY <1>1, <1>2, <1>5, <1>6, OthersTypes, OthersShape
<1>8. ASSUME NEW d \in DOMAIN cs, t \notin Tasks PROVE NoCall(cs[d].calls, t)
  BY <1>3, <1>8, FreshNoCall
<1>9. Queues'
  <2>1. \/ tasks[t].client = c /\ tasks[t].step # "done"
        \/ \A d \in DOMAIN cs : NoCall(cs[d].calls, t)
    BY <1>8
  <2>2. \A u \in 1..n : u # t => tasks'[u] = tasks[u]
    OBVIOUS
  <2> QED
    BY <1>2, <1>3, <1>4, <1>5, <2>1, <2>2, QueuesAsked
<1>10. PanelOk'
  <2>1. CASE ~Open
    BY <2>1 DEF PanelOk, Open, SamePanel
  <2>2. CASE Open
    <3>1. /\ panel.client \in DOMAIN clients /\ panel.client \in DOMAIN cs
          /\ cs[panel.client] = clients[panel.client]
      BY <1>1, <1>2, <2>2, Basics DEF Shape
    <3>2. Extends(clients'[panel.client].calls, clients[panel.client].calls, t)
      BY <1>2, <1>4, <1>5, <3>1, AskedExtends
    <3>3. /\ Replying(clients[panel.client].calls)
          /\ clients'[panel.client].closed = clients[panel.client].closed
      BY <1>3, <1>5, <3>1, ClientQueue DEF Asked
    <3>4. Steady(t)
      BY <1>1, <2>2, <3>2, <3>3, OthersSteady
    <3> QED
      BY <1>1, <1>3, <2>2, <3>4, PanelSteady
  <2> QED
    BY <2>1, <2>2
<1> QED
  BY <1>7, <1>9, <1>10 DEF PanelInv

-----------------------------------------------------------------------------
(* Commands. *)
LEMMA FolderClient ==
  ASSUME PanelInv
  PROVE  /\ GetOrCreateClient \in Seq(ClientType(Len(tasks))) /\ QueuesOf(GetOrCreateClient)
         /\ Len(GetOrCreateClient) \in Nat /\ Len(GetOrCreateClient) \in 1..Len(GetOrCreateClient)
         /\ DOMAIN GetOrCreateClient = 1..Len(GetOrCreateClient)
         /\ Len(clients) <= Len(GetOrCreateClient)
         /\ \A d \in DOMAIN clients : GetOrCreateClient[d] = clients[d]
         /\ tasks \in Seq(TaskType(Len(GetOrCreateClient)))
<1>1. Types /\ Queues
  BY DEF PanelInv
<1>2. PICK cs : cs = GetOrCreateClient
  OBVIOUS
<1>3. /\ cs \in Seq(ClientType(Len(tasks))) /\ Len(cs) \in Nat /\ Len(cs) \in 1..Len(cs)
      /\ DOMAIN cs = 1..Len(cs) /\ Len(clients) <= Len(cs)
      /\ \A d \in DOMAIN clients : cs[d] = clients[d]
  BY <1>1, <1>2, ClientIs
<1>4. tasks \in Seq(TaskType(Len(cs)))
  BY <1>1, <1>3, Basics, Widen DEF Types
<1> QED
  BY <1>1, <1>2, <1>3, <1>4, NewClientQueues

(* The graph command. *)
LEMMA ShowStep ==
  ASSUME PanelInv, Show
  PROVE  PanelInv'
<1>1. PICK cs : cs = GetOrCreateClient
  OBVIOUS
<1>2. /\ cs \in Seq(ClientType(Len(tasks))) /\ QueuesOf(cs)
      /\ Len(cs) \in Nat /\ Len(cs) \in 1..Len(cs) /\ DOMAIN cs = 1..Len(cs)
      /\ Len(clients) <= Len(cs) /\ \A d \in DOMAIN clients : cs[d] = clients[d]
      /\ tasks \in Seq(TaskType(Len(cs)))
  BY <1>1, FolderClient
<1>3. Types /\ Shape /\ Len(tasks) \in Nat /\ Tasks = 1..Len(tasks) /\ DOMAIN tasks = 1..Len(tasks)
  BY Basics DEF PanelInv
<1>4. CASE Open
  <2>1. clients' = cs /\ UNCHANGED <<store, panel, tasks, own, lastLoad, spanned>>
    BY <1>1, <1>4 DEF Show
  <2>2. OtherTasks(Len(tasks)) /\ SamePanel /\ SameStore
    BY <1>2, <1>3, <2>1, PanelSame, StoreSame DEF OtherTasks
  <2> QED
    BY <1>2, <2>1, <2>2, CalmStep
<1>5. CASE ~Open
  <2>1. /\ tasks' = Append(tasks, Loading(cs, Len(cs), None))
        /\ NewPanel(cs, Len(cs), Len(tasks'))
    BY <1>1, <1>5 DEF Show
  <2>2. Loading(cs, Len(cs), None) \in TaskType(Len(cs))
    <3>1. Len(cs) \in 0..Len(cs)
      BY <1>2
    <3> QED
      BY <1>2, <3>1, TaskTypes
  <2>3. /\ tasks' \in Seq(TaskType(Len(cs))) /\ Len(tasks') = Len(tasks) + 1
        /\ tasks'[Len(tasks')] = Loading(cs, Len(cs), None) /\ DOMAIN tasks' = 1..Len(tasks')
        /\ \A u \in DOMAIN tasks' : u # Len(tasks') => u \in Tasks /\ tasks'[u] = tasks[u]
    BY <1>2, <1>3, <2>1, <2>2, TaskAdded DEF Tasks
  <2>4. PICK n : n = Len(tasks')
    OBVIOUS
  <2>5. n \in Nat /\ n \in 1..n /\ n \notin Tasks /\ cs \in Seq(ClientType(n))
    BY <1>2, <1>3, <2>3, <2>4, Widen
  <2>6. \A d \in DOMAIN cs : NoCall(cs[d].calls, n)
    BY <1>2, <1>3, <2>5, FreshNoCall
  <2> QED
    <3>1. \A u \in DOMAIN tasks' : u # n => u \in Tasks /\ tasks'[u] = tasks[u]
      BY <2>3, <2>4
    <3>2. tasks'[n] = Loading(cs, Len(cs), None) /\ NewPanel(cs, Len(cs), n)
      BY <2>1, <2>3, <2>4
    <3> QED
      BY <1>2, <1>5, <2>3, <2>4, <2>5, <2>6, <3>1, <3>2, NewPanelStep
<1> QED
  BY <1>4, <1>5

(* The analyze command. *)
LEMMA AnalyzeCommandStep ==
  ASSUME PanelInv, AnalyzeCommand
  PROVE  PanelInv'
<1>1. PICK cs : cs = GetOrCreateClient
  OBVIOUS
<1>2. /\ cs \in Seq(ClientType(Len(tasks))) /\ QueuesOf(cs)
      /\ Len(cs) \in Nat /\ Len(cs) \in 1..Len(cs) /\ DOMAIN cs = 1..Len(cs)
      /\ Len(clients) <= Len(cs) /\ \A d \in DOMAIN clients : cs[d] = clients[d]
      /\ tasks \in Seq(TaskType(Len(cs)))
  BY <1>1, FolderClient
<1>3. Types /\ Shape /\ Len(tasks) \in Nat /\ Tasks = 1..Len(tasks)
  BY Basics DEF PanelInv
<1>4. PICK k, ops : k = Awaiting("command", cs, Len(cs), None) /\ ops = << "analyze" >>
  OBVIOUS
<1>5. /\ tasks' = Append(tasks, k) /\ clients' = Ask(cs, Len(cs), ops, Len(tasks'))
      /\ UNCHANGED <<store, panel, own, lastLoad, spanned>>
  BY <1>1, <1>4 DEF AnalyzeCommand
<1>6. k \in TaskType(Len(cs)) /\ ops \in Seq(Operations)
  <2>1. k \in TaskType(Len(cs))
    BY <1>2, <1>4 DEF Awaiting, TaskType, Steps, Replies
  <2>2. ops \in Seq(Operations)
    BY <1>4 DEF Operations
  <2> QED
    BY <2>1, <2>2
<1>7. k.step = "command" /\ k.client = Len(cs)
  BY <1>4 DEF Awaiting
<1>8. /\ tasks' \in Seq(TaskType(Len(cs))) /\ Len(tasks') = Len(tasks) + 1
      /\ tasks'[Len(tasks')] = k /\ DOMAIN tasks' = 1..Len(tasks')
      /\ \A u \in Tasks : tasks'[u] = tasks[u]
      /\ \A u \in DOMAIN tasks' : u \in Tasks \/ u = Len(tasks')
  BY <1>2, <1>5, <1>6, TaskAdded DEF Tasks
<1>9. PICK n : n = Len(tasks')
  OBVIOUS
<1>10. n \in Nat /\ n \in 1..n /\ n \notin Tasks /\ Len(tasks) <= n
  BY <1>3, <1>8, <1>9
<1>11. Len(clients') = Len(cs) /\ DOMAIN clients' = 1..Len(cs)
  <2>1. cs \in Seq(ClientType(n))
    BY <1>2, <1>3, <1>10, Widen
  <2>2. Asked(clients', cs, Len(cs), ops, n)
    BY <1>2, <1>5, <1>6, <1>9, <1>10, <2>1, AskIs
  <2> QED
    BY <1>2, <2>2 DEF Asked
<1>12. OtherTasks(n)
  BY <1>2, <1>7, <1>8, <1>9, <1>10, <1>11 DEF OtherTasks, PanelSteps
<1>13. SamePanel /\ SameStore
  BY <1>2, <1>3, <1>5, <1>11, PanelSame, StoreSame
<1>14. tasks'[n].step # "boxes" /\ tasks'[n].client = Len(cs)
  BY <1>7, <1>8, <1>9
<1>15. \A u \in 1..n : u # n => u \in Tasks /\ tasks'[u] = tasks[u]
  BY <1>8, <1>9
<1> QED
  BY <1>2, <1>5, <1>6, <1>8, <1>9, <1>10, <1>12, <1>13, <1>14, <1>15, AskStep

(* The impact command. *)
LEMMA ImpactCommandStep ==
  ASSUME PanelInv, ImpactCommand
  PROVE  PanelInv'
<1>1. PICK cs : cs = GetOrCreateClient
  OBVIOUS
<1>2. /\ cs \in Seq(ClientType(Len(tasks))) /\ QueuesOf(cs)
      /\ Len(cs) \in Nat /\ Len(cs) \in 1..Len(cs) /\ DOMAIN cs = 1..Len(cs)
      /\ Len(clients) <= Len(cs) /\ \A d \in DOMAIN clients : cs[d] = clients[d]
      /\ tasks \in Seq(TaskType(Len(cs)))
  BY <1>1, FolderClient
<1>3. Types /\ Shape /\ Len(tasks) \in Nat /\ Tasks = 1..Len(tasks)
  BY Basics DEF PanelInv
<1>4. PICK k : k = [Done EXCEPT !.step = "boxes", !.client = Len(cs)]
  OBVIOUS
<1>5. /\ clients' = cs /\ tasks' = Append(tasks, k)
      /\ UNCHANGED <<store, panel, own, lastLoad, spanned>>
  BY <1>1, <1>4 DEF ImpactCommand
<1>6. k = [step |-> "boxes", client |-> Len(cs), status |-> None, reply |-> None]
  BY <1>4 DEF Done
<1>7. k \in TaskType(Len(cs)) /\ k.step = "boxes" /\ k.client = Len(cs)
  BY <1>2, <1>6 DEF TaskType, Steps, Replies
<1>8. /\ tasks' \in Seq(TaskType(Len(cs))) /\ Len(tasks') = Len(tasks) + 1
      /\ tasks'[Len(tasks')] = k /\ DOMAIN tasks' = 1..Len(tasks')
      /\ \A u \in Tasks : tasks'[u] = tasks[u]
      /\ \A u \in DOMAIN tasks' : u \in Tasks \/ u = Len(tasks')
  BY <1>2, <1>5, <1>7, TaskAdded DEF Tasks
<1>9. OtherTasks(Len(tasks'))
  BY <1>2, <1>3, <1>5, <1>7, <1>8 DEF OtherTasks, PanelSteps
<1>10. SamePanel /\ SameStore
  BY <1>2, <1>3, <1>5, PanelSame, StoreSame
<1> QED
  BY <1>2, <1>5, <1>8, <1>9, <1>10, CalmStep

(* One task that is not the panel's goes on. *)
LEMMA OneTaskStep ==
  ASSUME PanelInv, NEW t \in Tasks, NEW k \in TaskType(Len(clients)),
         tasks' = [tasks EXCEPT ![t] = k],
         UNCHANGED <<clients, store, panel, own, lastLoad, spanned>>,
         tasks[t].step \notin PanelSteps \cup {"done"},
         k.step = "done" \/ (k.step \notin PanelSteps \cup {"boxes"} /\ k.client = tasks[t].client)
  PROVE  PanelInv'
<1>1. /\ Types /\ Shape /\ Queues /\ Len(tasks) \in Nat /\ Tasks = 1..Len(tasks)
      /\ Len(clients) \in Nat /\ DOMAIN tasks = 1..Len(tasks)
      /\ tasks \in Seq(TaskType(Len(clients))) /\ clients \in Seq(ClientType(Len(tasks)))
  BY Basics DEF PanelInv, Types
<1>2. /\ tasks' \in Seq(TaskType(Len(clients))) /\ Len(tasks') = Len(tasks)
      /\ DOMAIN tasks' = DOMAIN tasks /\ tasks'[t] = k
      /\ \A u \in DOMAIN tasks : u # t => tasks'[u] = tasks[u]
  BY <1>1, TaskSet
<1>3. OtherTasks(Len(tasks))
  BY <1>1, <1>2 DEF OtherTasks
<1>4. SamePanel /\ SameStore
  BY <1>1, PanelSame, StoreSame
<1>5. clients' = clients /\ QueuesOf(clients)
  BY <1>1 DEF Queues
<1> QED
  BY <1>1, <1>2, <1>3, <1>4, <1>5, CalmStep

(* A prompt is dismissed. *)
LEMMA DismissStep ==
  ASSUME PanelInv, NEW t \in Tasks, Dismiss(t)
  PROVE  PanelInv'
<1>1. Len(clients) \in Nat
  BY Basics DEF PanelInv
<1>2. Done \in TaskType(Len(clients)) /\ Done.step = "done"
  BY <1>1 DEF Done, TaskType, Steps, Replies
<1> QED
  BY <1>2, OneTaskStep DEF Dismiss, PanelSteps

(* A command goes on. *)
LEMMA ResumeCommandStep ==
  ASSUME PanelInv, NEW t \in Tasks, ResumeCommand(t)
  PROVE  PanelInv'
<1>1. Len(clients) \in Nat /\ tasks[t].client \in 0..Len(clients)
  BY Basics DEF PanelInv
<1>2. Done \in TaskType(Len(clients)) /\ Done.step = "done"
  BY <1>1 DEF Done, TaskType, Steps, Replies
<1>3. PICK x : x = [Done EXCEPT !.step = "asked", !.client = tasks[t].client]
  OBVIOUS
<1>4. x = [step |-> "asked", client |-> tasks[t].client, status |-> None, reply |-> None]
  BY <1>3 DEF Done
<1>5. x \in TaskType(Len(clients)) /\ x.step = "asked" /\ x.client = tasks[t].client
  BY <1>1, <1>4 DEF TaskType, Steps, Replies
<1>6. PICK k \in {Done, x} : tasks' = [tasks EXCEPT ![t] = k]
  BY <1>3 DEF ResumeCommand
<1>7. /\ k \in TaskType(Len(clients))
      /\ k.step = "done" \/ (k.step \notin PanelSteps \cup {"boxes"} /\ k.client = tasks[t].client)
  BY <1>2, <1>5, <1>6 DEF PanelSteps
<1> QED
  BY <1>6, <1>7, OneTaskStep DEF ResumeCommand, PanelSteps

(* The two refs are entered. *)
LEMMA RefsEnteredStep ==
  ASSUME PanelInv, NEW t \in Tasks, RefsEntered(t)
  PROVE  PanelInv'
<1>1. /\ Types /\ Shape /\ Queues /\ Len(tasks) \in Nat /\ Tasks = 1..Len(tasks)
      /\ Len(clients) \in Nat /\ DOMAIN clients = 1..Len(clients) /\ DOMAIN tasks = 1..Len(tasks)
      /\ tasks \in Seq(TaskType(Len(clients))) /\ clients \in Seq(ClientType(Len(tasks)))
  BY Basics DEF PanelInv, Types
<1>2. tasks[t].step = "boxes" /\ tasks[t].client \in DOMAIN clients
  BY <1>1 DEF RefsEntered, Shape, TaskShape
<1>3. CASE Open
  <2>1. Done \in TaskType(Len(clients)) /\ Done.step = "done"
    BY <1>1 DEF Done, TaskType, Steps, Replies
  <2> QED
    BY <1>2, <1>3, <2>1, OneTaskStep DEF RefsEntered, PanelSteps
<1>4. CASE ~Open
  <2>1. PICK c, k : c = tasks[t].client /\ k = Loading(clients, c, None)
    OBVIOUS
  <2>2. tasks' = [tasks EXCEPT ![t] = k] /\ NewPanel(clients, c, t)
    BY <1>4, <2>1 DEF RefsEntered
  <2>3. k \in TaskType(Len(clients))
    BY <1>1, <1>2, <2>1 DEF Loading, TaskType, Steps, PanelSteps, Replies
  <2>4. /\ tasks' \in Seq(TaskType(Len(clients))) /\ Len(tasks') = Len(tasks)
        /\ DOMAIN tasks' = DOMAIN tasks /\ tasks'[t] = k
        /\ \A u \in DOMAIN tasks : u # t => tasks'[u] = tasks[u]
    BY <1>1, <2>2, <2>3, TaskSet
  <2>5. ASSUME NEW d \in DOMAIN clients PROVE NoCall(clients[d].calls, t)
    <3>1. Callers(clients[d].calls, d)
      BY <1>1 DEF Queues, QueuesOf
    <3> QED
      BY <1>2, <3>1 DEF Callers, NoCall
  <2>6. QueuesOf(clients) /\ t \in 1..Len(tasks) /\ c \in DOMAIN clients
    BY <1>1, <1>2, <2>1 DEF Queues
  <2>7. tasks'[t] = Loading(clients, c, None)
    BY <2>1, <2>4
  <2>8. \A u \in DOMAIN tasks' : u # t => u \in Tasks /\ tasks'[u] = tasks[u]
    BY <1>1, <2>4
  <2>9. Len(clients) <= Len(clients) /\ Len(tasks) = Len(tasks')
    BY <1>1, <2>4
  <2> QED
    BY <1>1, <1>4, <2>2, <2>4, <2>5, <2>6, <2>7, <2>8, <2>9, NewPanelStep
<1> QED
  BY <1>3, <1>4

(* The offer to initialise is accepted. *)
LEMMA AcceptInitStep ==
  ASSUME PanelInv, NEW t \in Tasks, AcceptInit(t)
  PROVE  PanelInv'
<1>1. /\ Types /\ Shape /\ Queues /\ Len(tasks) \in Nat /\ Tasks = 1..Len(tasks)
      /\ Len(clients) \in Nat /\ DOMAIN clients = 1..Len(clients) /\ DOMAIN tasks = 1..Len(tasks)
      /\ tasks \in Seq(TaskType(Len(clients))) /\ clients \in Seq(ClientType(Len(tasks)))
  BY Basics DEF PanelInv, Types
<1>2. tasks[t].step = "asked" /\ tasks[t].client \in DOMAIN clients
  BY <1>1 DEF AcceptInit, Shape, TaskShape
<1>3. PICK c, k, ops : /\ c = tasks[t].client /\ k = Awaiting("init", clients, c, None)
                       /\ ops = << "init" >>
  OBVIOUS
<1>4. /\ tasks' = [tasks EXCEPT ![t] = k] /\ clients' = Ask(clients, c, ops, t)
      /\ UNCHANGED <<store, panel, own, lastLoad, spanned>>
  BY <1>3 DEF AcceptInit
<1>5. k \in TaskType(Len(clients)) /\ k.step = "init" /\ k.client = c
  BY <1>1, <1>2, <1>3 DEF Awaiting, TaskType, Steps, Replies
<1>6. ops \in Seq(Operations)
  BY <1>3 DEF Operations
<1>7. /\ tasks' \in Seq(TaskType(Len(clients))) /\ Len(tasks') = Len(tasks)
      /\ DOMAIN tasks' = DOMAIN tasks /\ tasks'[t] = k
      /\ \A u \in DOMAIN tasks : u # t => tasks'[u] = tasks[u]
  BY <1>1, <1>4, <1>5, TaskSet
<1>8. c \in 1..Len(clients) /\ t \in 1..Len(tasks) /\ c \in DOMAIN clients
  BY <1>1, <1>2, <1>3
<1>9. Len(clients') = Len(clients)
  <2>1. Asked(clients', clients, c, ops, t)
    BY <1>1, <1>4, <1>6, <1>8, AskIs
  <2> QED
    BY <2>1 DEF Asked
<1>10. OtherTasks(Len(tasks))
  <2>1. /\ tasks[t].step \notin PanelSteps \cup {"done"}
        /\ tasks'[t].step \notin PanelSteps \cup {"boxes"}
        /\ tasks'[t].client = tasks[t].client
    BY <1>2, <1>3, <1>5, <1>7 DEF PanelSteps
  <2>2. Len(tasks) \in Nat /\ Len(tasks) = Len(tasks') /\ Len(tasks) <= Len(tasks)
        /\ DOMAIN tasks' = 1..Len(tasks) /\ DOMAIN tasks' \ Tasks = {}
    BY <1>1, <1>7
  <2>3. \A u \in Tasks : u # t => tasks'[u] = tasks[u]
    BY <1>1, <1>7
  <2> QED
    BY <2>1, <2>2, <2>3 DEF OtherTasks
<1>11. SamePanel /\ SameStore
  BY <1>1, <1>4, <1>9, PanelSame, StoreSame
<1>12. QueuesOf(clients) /\ Len(clients) <= Len(clients)
  BY <1>1 DEF Queues
<1>13. tasks'[t].step # "boxes" /\ tasks'[t].client = c
  BY <1>5, <1>7
<1>14. tasks[t].client = c /\ tasks[t].step \notin PanelSteps \cup {"done"}
  BY <1>2, <1>3 DEF PanelSteps
<1>15. \A u \in 1..Len(tasks) : u # t => u \in Tasks /\ tasks'[u] = tasks[u]
  BY <1>1, <1>7
<1> QED
  BY <1>1, <1>4, <1>6, <1>7, <1>8, <1>10, <1>11, <1>12, <1>13, <1>14, <1>15, AskStep

(* Tasks that are as they were. *)
LEMMA SameTasks ==
  ASSUME Types, tasks' = tasks
  PROVE  OtherTasks(Len(tasks))
BY Basics DEF OtherTasks

(* A button is clicked. *)
LEMMA ClickStep ==
  ASSUME PanelInv, NEW b \in Buttons, Click(b)
  PROVE  PanelInv'
<1>1. /\ Types /\ Shape /\ Queues /\ Len(tasks) \in Nat /\ Tasks = 1..Len(tasks)
      /\ Len(clients) \in Nat /\ DOMAIN clients = 1..Len(clients)
      /\ tasks \in Seq(TaskType(Len(clients))) /\ clients \in Seq(ClientType(Len(tasks)))
      /\ panel \in PanelType(Len(clients)) /\ panel.inbox \in Seq(Buttons)
  BY Basics DEF PanelInv, Types
<1>2. /\ panel' = [panel EXCEPT !.buttons = @ \ {b}, !.inbox = Append(@, b)] /\ b \in panel.buttons
      /\ UNCHANGED <<clients, store, tasks, own, lastLoad, spanned>>
  BY DEF Click
<1>3. PICK x : x = Append(panel.inbox, b)
  OBVIOUS
<1>4. x \in Seq(Buttons)
  BY <1>1, <1>3
<1>5. /\ panel' \in PanelType(Len(clients)) /\ panel'.page = panel.page
      /\ panel'.client = panel.client /\ panel'.status = panel.status /\ panel'.graph = panel.graph
  <2>1. PICK y : y = panel.buttons \ {b}
    OBVIOUS
  <2>2. panel' = [panel EXCEPT !.buttons = y, !.inbox = x] /\ y \in SUBSET Buttons
    BY <1>1, <1>2, <1>3, <2>1 DEF PanelType
  <2> QED
    BY <1>1, <1>4, <2>2 DEF PanelType
<1>6. panel.status # None
  BY <1>1, <1>2 DEF Shape
<1>7. Open
  BY <1>1, <1>2 DEF Shape, NoPanel
<1>8. SamePanel /\ SameStore
  BY <1>1, <1>2, <1>5, <1>6, <1>7, StoreSame DEF SamePanel
<1>9. QueuesOf(clients) /\ Len(clients) <= Len(clients)
  BY <1>1 DEF Queues
<1> QED
  BY <1>1, <1>2, <1>8, <1>9, SameTasks, CalmStep

(* Another program initialises or analyses. *)
LEMMA ElsewhereStep ==
  ASSUME PanelInv, Elsewhere
  PROVE  PanelInv'
<1>1. /\ Types /\ Shape /\ Queues /\ Len(tasks) \in Nat /\ Tasks = 1..Len(tasks)
      /\ Len(clients) \in Nat /\ DOMAIN clients = 1..Len(clients)
      /\ tasks \in Seq(TaskType(Len(clients))) /\ clients \in Seq(ClientType(Len(tasks)))
      /\ store.version \in Nat
  BY Basics DEF PanelInv, Types
<1>2. /\ store' = [initialised |-> TRUE,
                  version |-> IF store.initialised THEN store.version + 1 ELSE 0]
      /\ UNCHANGED <<clients, panel, tasks, own, lastLoad, spanned>>
  BY DEF Elsewhere
<1>3. SameStore
  BY <1>1, <1>2 DEF SameStore, StoreType, Shape
<1>4. SamePanel
  BY <1>1, <1>2, PanelSame
<1>5. QueuesOf(clients) /\ Len(clients) <= Len(clients)
  BY <1>1 DEF Queues
<1> QED
  BY <1>1, <1>2, <1>3, <1>4, <1>5, SameTasks, CalmStep

(* The panel is closed. *)
LEMMA ClosePanelStep ==
  ASSUME PanelInv, ClosePanel
  PROVE  PanelInv'
<1>1. /\ Types /\ Shape /\ Queues /\ Len(tasks) \in Nat /\ Tasks = 1..Len(tasks)
      /\ Len(clients) \in Nat /\ DOMAIN clients = 1..Len(clients)
      /\ tasks \in Seq(TaskType(Len(clients))) /\ clients \in Seq(ClientType(Len(tasks)))
      /\ store \in StoreType /\ store.version \in Nat
      /\ \A u \in Tasks : tasks[u] \in TaskType(Len(clients))
  BY Basics DEF PanelInv, Types
<1>2. /\ panel' = NoPanel
      /\ tasks' = [t \in Tasks |-> IF tasks[t].step \in PanelSteps THEN Done ELSE tasks[t]]
      /\ own' = 0 /\ lastLoad' = "none" /\ spanned' = FALSE
      /\ clients' = clients /\ store' = store
  BY DEF ClosePanel
<1>3. Done \in TaskType(Len(clients)) /\ Done.step = "done"
  BY <1>1 DEF Done, TaskType, Steps, Replies
<1>4. /\ DOMAIN tasks' = 1..Len(tasks) /\ tasks' \in Seq(TaskType(Len(clients)))
      /\ Len(tasks') = Len(tasks)
  BY <1>1, <1>2, <1>3
<1>5. \A u \in Tasks : tasks'[u] = Done \/ (tasks'[u] = tasks[u] /\ tasks[u].step \notin PanelSteps)
  BY <1>2
<1>6. panel' \in PanelType(Len(clients)) /\ panel'.page = "none"
  <2>1. panel' = [client |-> 0, page |-> "none", status |-> None, graph |-> None,
                  buttons |-> {}, inbox |-> <<>>]
    BY <1>2 DEF NoPanel
  <2>2. <<>> \in Seq(Buttons) /\ {} \in SUBSET Buttons /\ "none" \in Pages /\ 0 \in 0..Len(clients)
    BY <1>1 DEF Pages
  <2> QED
    BY <2>1, <2>2 DEF PanelType
<1>7. Types'
  BY <1>1, <1>2, <1>4, <1>6 DEF Types
<1>8. Shape'
  <2>1. ASSUME NEW u \in Tasks PROVE TaskShape(u)'
    <3>1. CASE tasks'[u] = Done
      BY <1>3, <3>1 DEF TaskShape, PanelSteps
    <3>2. CASE tasks'[u] = tasks[u] /\ tasks[u].step \notin PanelSteps
      BY <1>1, <1>2, <3>2, TaskShapeKept DEF Shape
    <3> QED
      BY <1>5, <3>1, <3>2
  <2>2. panel'.buttons = {} /\ panel'.inbox = <<>>
    BY <1>2 DEF NoPanel
  <2> QED
    BY <1>1, <1>2, <1>4, <1>6, <2>1, <2>2 DEF Shape, Open, Tasks
<1>9. Queues'
  <2>1. \A u \in 1..Len(tasks) : tasks'[u] = tasks[u] \/ tasks'[u].step = "done"
    BY <1>1, <1>3, <1>5
  <2>2. QueuesOf(clients) /\ store'.version = store.version /\ store.version >= store.version
    BY <1>1, <1>2 DEF Queues
  <2> QED
    BY <1>1, <1>2, <2>1, <2>2, QueuesKept
<1>10. PanelOk'
  BY <1>6 DEF PanelOk, Open
<1> QED
  BY <1>7, <1>8, <1>9, <1>10 DEF PanelInv

-----------------------------------------------------------------------------
(* The panel's own steps. *)
LEMMA PanelKeepsPlace ==
  ASSUME Types, Shape, NEW n, n = Len(tasks'), DOMAIN tasks' = 1..n,
         panel'.page # "none", panel'.client = panel.client, Open,
         panel'.buttons # {} \/ panel'.inbox # <<>> => panel'.status # None,
         store' = store, Len(clients') = Len(clients), DOMAIN clients' = DOMAIN clients,
         \A u \in DOMAIN tasks' : (u \in Tasks /\ tasks'[u] = tasks[u]) \/ TaskShape(u)'
  PROVE  Shape'
<1>1. panel.client \in DOMAIN clients'
  BY DEF Shape
<1>2. \A u \in DOMAIN tasks' : TaskShape(u)'
  BY TaskShapeKept DEF Shape
<1> QED
  BY <1>1, <1>2 DEF Shape, Open, Tasks

(* A step in which no task asks. *)
LEMMA NobodyAsking ==
  ASSUME Types, Shape, Open, panel'.client = panel.client, clients' = clients,
         store'.version \in Nat, store'.version >= store.version
  PROVE  Asking(0)
<1>1. /\ clients \in Seq(ClientType(Len(tasks))) /\ Len(tasks) \in Nat
      /\ panel.client \in DOMAIN clients /\ store.version \in Nat
  BY Basics DEF Types, Shape
<1>2. /\ Replying(clients[panel.client].calls)
      /\ Extends(clients[panel.client].calls, clients[panel.client].calls, 0)
  BY <1>1, ClientQueue, ExtendsSelf
<1> QED
  BY <1>1, <1>2 DEF Asking, PanelQueue

(* A task of the panel is done: what the others and the queue keep. *)
LEMMA Finished ==
  ASSUME PanelInv, NEW t \in Tasks, tasks' = [tasks EXCEPT ![t] = Done], tasks[t].step # "done",
         clients' = clients, store' = store,
         Open, panel'.page # "none", panel'.client = panel.client,
         panel'.buttons # {} \/ panel'.inbox # <<>> => panel'.status # None
  PROVE  /\ tasks' \in Seq(TaskType(Len(clients))) /\ Len(tasks') = Len(tasks)
         /\ DOMAIN tasks' = Tasks /\ tasks'[t].step = "done"
         /\ \A u \in Tasks : u # t => tasks'[u] = tasks[u]
         /\ Shape' /\ Queues' /\ Asking(0)
<1>1. /\ Types /\ Shape /\ Queues /\ Len(tasks) \in Nat /\ Tasks = 1..Len(tasks)
      /\ Len(clients) \in Nat /\ DOMAIN clients = 1..Len(clients) /\ DOMAIN tasks = 1..Len(tasks)
      /\ tasks \in Seq(TaskType(Len(clients))) /\ clients \in Seq(ClientType(Len(tasks)))
      /\ store.version \in Nat
  BY Basics DEF PanelInv, Types
<1>2. Done \in TaskType(Len(clients)) /\ Done.step = "done"
  BY <1>1 DEF Done, TaskType, Steps, Replies
<1>3. /\ tasks' \in Seq(TaskType(Len(clients))) /\ Len(tasks') = Len(tasks)
      /\ DOMAIN tasks' = DOMAIN tasks /\ tasks'[t] = Done
      /\ \A u \in DOMAIN tasks : u # t => tasks'[u] = tasks[u]
  BY <1>1, <1>2, TaskSet
<1>4. TaskShape(t)'
  BY <1>2, <1>3 DEF TaskShape, PanelSteps
<1>5. Shape'
  BY <1>1, <1>3, <1>4, PanelKeepsPlace
<1>6. Queues'
  <2>1. \A u \in 1..Len(tasks) : tasks'[u] = tasks[u] \/ tasks'[u].step = "done"
    BY <1>1, <1>2, <1>3
  <2>2. QueuesOf(clients) /\ store'.version = store.version /\ store.version >= store.version
    BY <1>1 DEF Queues
  <2> QED
    BY <1>1, <2>1, <2>2, QueuesKept
<1>7. Asking(0)
  BY <1>1, NobodyAsking
<1> QED
  BY <1>1, <1>2, <1>3, <1>5, <1>6, <1>7

(* An impact query's end: what the page shows is what the invariant says. *)
LEMMA ResumeImpactStep ==
  ASSUME PanelInv, NEW t \in Tasks, ResumeImpact(t)
  PROVE  PanelInv'
<1>1. /\ Types /\ Shape /\ Queues /\ PanelOk /\ Len(clients) \in Nat /\ Len(tasks) \in Nat
      /\ Tasks = 1..Len(tasks) /\ panel \in PanelType(Len(clients)) /\ store.version \in Nat
      /\ clients \in Seq(ClientType(Len(tasks))) /\ own \in Nat
      /\ \A u \in Tasks : tasks[u].reply \in Replies
  BY Basics DEF PanelInv, Types
<1>2. /\ tasks[t].step = "impact" /\ tasks[t].status \in Nat /\ Open
  BY <1>1 DEF ResumeImpact, Shape, TaskShape, PanelSteps
<1>3. /\ tasks' = [tasks EXCEPT ![t] = Done]
      /\ UNCHANGED <<clients, store, own, lastLoad, spanned>>
      /\ panel' = IF tasks[t].reply < 0 THEN MessageFailed(panel)
                  ELSE ShowReady([panel EXCEPT !.status = tasks[t].status])
  BY DEF ResumeImpact
<1>4. /\ panel' \in PanelType(Len(clients)) /\ panel'.page \in {"error", "ready"}
      /\ panel'.client = panel.client /\ panel'.graph = panel.graph
      /\ panel'.status = panel.status \/ panel'.status = tasks[t].status
      /\ panel'.page = "ready" => panel'.status = tasks[t].status
      /\ panel'.buttons # {} \/ panel'.inbox # <<>> => panel'.status # None
  <2>1. CASE panel' = MessageFailed(panel)
    BY <1>1, <2>1 DEF MessageFailed, ShowError, PanelType, Pages, Shape
  <2>2. CASE panel' = ShowReady([panel EXCEPT !.status = tasks[t].status])
    <3>1. PICK p : p = [panel EXCEPT !.status = tasks[t].status]
      OBVIOUS
    <3>2. /\ p \in PanelType(Len(clients)) /\ p.client = panel.client /\ p.graph = panel.graph
          /\ p.status = tasks[t].status
      BY <1>1, <1>2, <3>1 DEF PanelType
    <3>3. panel' = [p EXCEPT !.page = "ready", !.buttons = Buttons]
      BY <2>2, <3>1 DEF ShowReady
    <3>4. /\ panel' \in PanelType(Len(clients)) /\ panel'.page = "ready"
          /\ panel'.client = p.client /\ panel'.graph = p.graph /\ panel'.status = p.status
      BY <3>2, <3>3 DEF PanelType, Pages
    <3> QED
      BY <1>2, <3>2, <3>4, Kinds
  <2> QED
    BY <1>3, <2>1, <2>2
<1>5. /\ tasks' \in Seq(TaskType(Len(clients))) /\ Len(tasks') = Len(tasks)
      /\ DOMAIN tasks' = Tasks /\ tasks'[t].step = "done"
      /\ \A u \in Tasks : u # t => tasks'[u] = tasks[u]
      /\ Shape' /\ Queues' /\ Asking(0)
  BY <1>2, <1>3, <1>4, Finished
<1>6. Types'
  BY <1>1, <1>2, <1>3, <1>4, <1>5, Kinds DEF Types
<1>7. PanelOk'
  <2>1. ASSUME NEW u \in DOMAIN tasks', tasks'[u].step = "analyze" PROVE AnalyzeOk(u)'
    <3>1. u \in Tasks /\ tasks'[u] = tasks[u] /\ AnalyzeOk(u) /\ u # 0
      BY <1>1, <1>2, <1>5, <2>1 DEF PanelOk
    <3>2. \A w \in DOMAIN tasks' : tasks'[w].step = "load" => w \in Tasks /\ tasks'[w] = tasks[w]
      BY <1>5
    <3> QED
      BY <1>1, <1>5, <3>1, <3>2, AnalyzeKept
  <2>2. Pending => Pending'
    BY <1>2, <1>5, PendingKept
  <2>3. ASSUME NEW w \in DOMAIN tasks', tasks'[w].step = "load" PROVE LoadOk(w)'
    <3>1. w \in Tasks /\ tasks'[w] = tasks[w] /\ LoadOk(w) /\ w # 0
      BY <1>1, <1>2, <1>5, <2>3 DEF PanelOk
    <3> QED
      BY <1>3, <1>5, <2>2, <3>1, LoadKept
  <2>4. Shown'
    <3>1. ASSUME \A w \in DOMAIN tasks' : tasks'[w].step # "load"
          PROVE  \A w \in Tasks : tasks[w].step # "load"
      BY <1>2, <1>5, <3>1
    <3>2. ASSUME NEW u \in DOMAIN tasks', tasks'[u].step = "impact"
          PROVE  u \in Tasks /\ tasks'[u] = tasks[u]
      BY <1>5, <3>2
    <3>3. Shown
      BY <1>1, <1>2 DEF PanelOk
    <3> QED
      BY <1>2, <1>3, <1>4, <3>1, <3>2, <3>3 DEF Shown, Tasks
  <2>5. own' <= store'.version /\ NoneBefore(clients'[panel'.client].calls, own')
    BY <1>1, <1>2, <1>3, <1>4 DEF PanelOk
  <2> QED
    BY <2>1, <2>3, <2>4, <2>5 DEF PanelOk, Tasks
<1> QED
  BY <1>5, <1>6, <1>7 DEF PanelInv

(* The end of a load.  When it was the last one, no load is pending, so    *)
(* what it was told is about the panel's own analyze or a later snapshot.  *)
LEMMA ResumeLoadStep ==
  ASSUME PanelInv, NEW t \in Tasks, ResumeLoad(t)
  PROVE  PanelInv'
<1>1. /\ Types /\ Shape /\ Queues /\ PanelOk /\ Len(clients) \in Nat /\ Len(tasks) \in Nat
      /\ Tasks = 1..Len(tasks) /\ panel \in PanelType(Len(clients)) /\ store.version \in Nat
      /\ clients \in Seq(ClientType(Len(tasks))) /\ own \in Nat
      /\ \A u \in Tasks : tasks[u].reply \in Replies
      /\ \A u \in Tasks : tasks[u].status \in Nat \cup {None, Failed}
  BY Basics DEF PanelInv, Types
<1>2. /\ tasks[t].step = "load" /\ Open /\ tasks[t].reply # NotInitialized
      /\ LoadOk(t) /\ Settled(t)
  BY <1>1 DEF ResumeLoad, First, Shape, TaskShape, PanelSteps, PanelOk
<1>3. PICK k : k = tasks[t]
  OBVIOUS
<1>4. /\ k.status = Failed \/ k.status \in Nat
      /\ k.status \in Nat => k.reply = Failed \/ k.reply \in Nat
  BY <1>1, <1>2, <1>3, SettledIs, ReplyKinds, Kinds
<1>5. /\ tasks' = [tasks EXCEPT ![t] = Done]
      /\ UNCHANGED <<clients, store, own>>
      /\ panel' = IF k.status = Failed THEN ShowError(panel) ELSE LoadShown(panel, k)
      /\ lastLoad' = IF k.status = Failed THEN "failed"
                     ELSE IF k.reply = Failed THEN "nograph" ELSE "full"
      /\ spanned' = \E u \in Tasks : tasks[u].step = "impact"
  BY <1>3 DEF ResumeLoad
<1>6. /\ panel' \in PanelType(Len(clients)) /\ panel'.page \in {"error", "ready"}
      /\ panel'.client = panel.client
      /\ k.status # Failed => panel'.status = k.status
      /\ k.status # Failed /\ k.reply # Failed => panel'.graph = k.reply
      /\ panel'.page = "ready" => panel'.status # None
      /\ panel'.buttons # {} \/ panel'.inbox # <<>> => panel'.status # None
  <2>1. CASE k.status = Failed
    <3>1. panel' = [panel EXCEPT !.page = "error", !.buttons = {}]
      BY <1>5, <2>1 DEF ShowError
    <3> QED
      BY <1>1, <2>1, <3>1 DEF PanelType, Pages, Shape
  <2>2. CASE k.status \in Nat
    <3>1. PICK g : g = IF k.reply = Failed THEN panel.graph ELSE k.reply
      OBVIOUS
    <3>2. g \in Nat \cup {None}
      BY <1>1, <1>4, <2>2, <3>1 DEF PanelType
    <3>3. PICK p : p = [panel EXCEPT !.status = k.status, !.graph = g]
      OBVIOUS
    <3>4. /\ p \in PanelType(Len(clients)) /\ p.client = panel.client
          /\ p.status = k.status /\ p.graph = g
      BY <1>1, <2>2, <3>2, <3>3 DEF PanelType
    <3>5. panel' = [p EXCEPT !.page = "ready", !.buttons = Buttons]
      <4>1. LoadShown(panel, k) = ShowReady(p)
        BY <3>1, <3>3 DEF LoadShown
      <4> QED
        BY <1>5, <2>2, <4>1, Kinds DEF ShowReady
    <3>6. /\ panel' \in PanelType(Len(clients)) /\ panel'.page = "ready"
          /\ panel'.client = p.client /\ panel'.graph = p.graph /\ panel'.status = p.status
      BY <3>4, <3>5 DEF PanelType, Pages
    <3> QED
      BY <2>2, <3>1, <3>4, <3>6, Kinds
  <2> QED
    BY <1>4, <2>1, <2>2
<1>7. /\ tasks' \in Seq(TaskType(Len(clients))) /\ Len(tasks') = Len(tasks)
      /\ DOMAIN tasks' = Tasks /\ tasks'[t].step = "done"
      /\ \A u \in Tasks : u # t => tasks'[u] = tasks[u]
      /\ Shape' /\ Queues' /\ Asking(0)
  BY <1>2, <1>5, <1>6, Finished
<1>8. lastLoad' \in {"none", "full", "nograph", "failed"} /\ spanned' \in BOOLEAN
  BY <1>5
<1>9. Types'
  BY <1>1, <1>5, <1>6, <1>7, <1>8 DEF Types
<1>10. PanelOk'
  <2>1. ASSUME NEW u \in DOMAIN tasks', tasks'[u].step = "analyze" PROVE AnalyzeOk(u)'
    <3>1. u \in Tasks /\ tasks'[u] = tasks[u] /\ AnalyzeOk(u) /\ u # 0
      BY <1>1, <1>2, <1>7, <2>1 DEF PanelOk
    <3>2. \A w \in DOMAIN tasks' : tasks'[w].step = "load" => w \in Tasks /\ tasks'[w] = tasks[w]
      BY <1>7
    <3> QED
      BY <1>1, <1>7, <3>1, <3>2, AnalyzeKept
  <2>2. Pending => Pending'
    BY <1>2, <1>7, PendingKept
  <2>3. ASSUME NEW w \in DOMAIN tasks', tasks'[w].step = "load" PROVE LoadOk(w)'
    <3>1. w \in Tasks /\ tasks'[w] = tasks[w] /\ LoadOk(w) /\ w # 0
      BY <1>1, <1>2, <1>7, <2>3 DEF PanelOk
    <3> QED
      BY <1>5, <1>7, <2>2, <3>1, LoadKept
  <2>4. ASSUME \A w \in DOMAIN tasks' : tasks'[w].step # "load"
        PROVE  Beyond(k, own)
    <3>1. ~Pending
      BY <1>2, <1>7, <2>4 DEF Pending
    <3> QED
      BY <1>2, <1>3, <3>1 DEF LoadOk
  <2>5. Shown'
    <3>1. SUFFICES ASSUME \A w \in DOMAIN tasks' : tasks'[w].step # "load"
                   PROVE  /\ panel'.graph = None \/ panel'.graph >= own \/ lastLoad' # "full"
                          /\ panel'.status >= own \/ spanned' \/ lastLoad' = "failed"
                          /\ \A u \in DOMAIN tasks' : tasks'[u].step = "impact" => spanned'
      BY <1>5 DEF Shown, Tasks
    <3>2. Beyond(k, own)
      BY <2>4, <3>1
    <3>3. panel'.graph = None \/ panel'.graph >= own \/ lastLoad' # "full"
      <4>1. CASE k.status # Failed /\ k.reply # Failed
        BY <1>4, <1>6, <3>2, <4>1 DEF Beyond, NotBefore
      <4>2. CASE k.status = Failed \/ k.reply = Failed
        BY <1>5, <4>2
      <4> QED
        BY <4>1, <4>2
    <3>4. panel'.status >= own \/ spanned' \/ lastLoad' = "failed"
      <4>1. CASE k.status # Failed
        BY <1>4, <1>6, <3>2, <4>1 DEF Beyond, NotBefore
      <4>2. CASE k.status = Failed
        BY <1>5, <4>2
      <4> QED
        BY <4>1, <4>2
    <3>5. ASSUME NEW u \in DOMAIN tasks', tasks'[u].step = "impact" PROVE spanned'
      BY <1>5, <1>7, <3>5
    <3> QED
      BY <3>3, <3>4, <3>5
  <2>6. own' <= store'.version /\ NoneBefore(clients'[panel'.client].calls, own')
    BY <1>1, <1>2, <1>5, <1>6 DEF PanelOk
  <2> QED
    BY <2>1, <2>3, <2>5, <2>6 DEF PanelOk, Tasks
<1> QED
  BY <1>7, <1>9, <1>10 DEF PanelInv

(* A message from the page. *)
LEMMA HandleMessageStep ==
  ASSUME PanelInv, HandleMessage
  PROVE  PanelInv'
<1>1. /\ Types /\ Shape /\ Queues /\ PanelOk /\ Len(clients) \in Nat /\ Len(tasks) \in Nat
      /\ Tasks = 1..Len(tasks) /\ panel \in PanelType(Len(clients)) /\ store.version \in Nat
      /\ clients \in Seq(ClientType(Len(tasks))) /\ tasks \in Seq(TaskType(Len(clients)))
      /\ own \in Nat /\ panel.inbox \in Seq(Buttons)
      /\ \A u \in Tasks : tasks[u].reply \in Replies
      /\ panel.status \in Nat \cup {None} /\ DOMAIN clients = 1..Len(clients)
  BY Basics DEF PanelInv, Types
<1>2. panel.inbox # <<>> /\ Open /\ panel.status \in Nat /\ panel.client \in DOMAIN clients
  BY <1>1 DEF HandleMessage, Shape, NoPanel
<1>3. PICK b, c, x, y : /\ b = Head(panel.inbox) /\ c = panel.client /\ y = Tail(panel.inbox)
                        /\ x = IF b = "impact" THEN panel.status ELSE None
  OBVIOUS
<1>4. /\ b \in Buttons /\ y \in Seq(Buttons) /\ x \in Nat \cup {None}
      /\ b = "impact" => x = panel.status
  BY <1>1, <1>2, <1>3
<1>5. PICK k, ops : k = Awaiting(b, clients, c, x) /\ ops = << b >>
  OBVIOUS
<1>6. /\ tasks' = Append(tasks, k) /\ clients' = Ask(clients, c, ops, Len(tasks'))
      /\ panel' = [ShowLoading(panel) EXCEPT !.inbox = y]
      /\ UNCHANGED <<store, own, lastLoad, spanned>>
  <2>1. /\ tasks' = Append(tasks, Awaiting(Head(panel.inbox), clients, panel.client,
                              IF Head(panel.inbox) = "impact" THEN panel.status ELSE None))
        /\ clients' = Ask(clients, panel.client, << Head(panel.inbox) >>, Len(tasks'))
        /\ panel' = [ShowLoading(panel) EXCEPT !.inbox = Tail(@)]
        /\ UNCHANGED <<store, own, lastLoad, spanned>>
    BY DEF HandleMessage
  <2>2. tasks' = Append(tasks, k)
    BY <1>3, <1>5, <2>1
  <2>3. clients' = Ask(clients, c, ops, Len(tasks'))
    BY <1>3, <1>5, <2>1
  <2>4. panel' = [ShowLoading(panel) EXCEPT !.inbox = y]
    <3>1. PICK p : p = ShowLoading(panel)
      OBVIOUS
    <3>2. p.inbox = panel.inbox
      BY <1>1, <3>1 DEF ShowLoading, PanelType
    <3>3. panel' = [p EXCEPT !.inbox = Tail(@)]
      BY <2>1, <3>1
    <3> QED
      BY <1>3, <3>1, <3>2, <3>3
  <2> QED
    BY <2>1, <2>2, <2>3, <2>4
<1>7. /\ k.step = b /\ k.client = c /\ k.status = x
      /\ k.reply = IF clients[c].closed THEN Failed ELSE None
      /\ k \in TaskType(Len(clients))
  BY <1>1, <1>2, <1>3, <1>4, <1>5 DEF Awaiting, TaskType, Steps, PanelSteps, Buttons, Replies
<1>8. ops \in Seq(Operations) /\ Len(ops) = 1
  BY <1>4, <1>5 DEF Operations, Buttons
<1>9. /\ tasks' \in Seq(TaskType(Len(clients))) /\ Len(tasks') = Len(tasks) + 1
      /\ tasks'[Len(tasks')] = k /\ DOMAIN tasks' = 1..Len(tasks')
      /\ \A u \in Tasks : tasks'[u] = tasks[u]
      /\ \A u \in DOMAIN tasks' : u \in Tasks \/ u = Len(tasks')
  BY <1>1, <1>6, <1>7, TaskAdded DEF Tasks
<1>10. PICK n : n = Len(tasks')
  OBVIOUS
<1>11. /\ n \in Nat /\ n \in 1..n /\ n \notin Tasks /\ Len(tasks) <= n /\ tasks'[n] = k
       /\ Tasks \subseteq DOMAIN tasks'
       /\ clients \in Seq(ClientType(n)) /\ c \in 1..Len(clients)
  <2>1. /\ n \in Nat /\ n \in 1..n /\ n \notin Tasks /\ Len(tasks) <= n /\ tasks'[n] = k
        /\ Tasks \subseteq DOMAIN tasks'
    BY <1>1, <1>9, <1>10
  <2>2. clients \in Seq(ClientType(n))
    BY <1>1, <2>1, Widen
  <2>3. c \in 1..Len(clients)
    BY <1>1, <1>2, <1>3
  <2> QED
    BY <2>1, <2>2, <2>3, Zenon
<1>12. clients' \in Seq(ClientType(n)) /\ Asked(clients', clients, c, ops, n)
  BY <1>1, <1>6, <1>8, <1>10, <1>11, AskIs
<1>13. Len(clients') = Len(clients) /\ DOMAIN clients' = DOMAIN clients
  BY <1>12 DEF Asked
<1>14. /\ panel' \in PanelType(Len(clients)) /\ panel'.page = "loading" /\ panel'.buttons = {}
       /\ panel'.client = c /\ panel'.status = panel.status /\ panel'.graph = panel.graph
  <2>1. PICK p : p = [panel EXCEPT !.page = "loading", !.buttons = {}]
    OBVIOUS
  <2>2. /\ p \in PanelType(Len(clients)) /\ p.page = "loading" /\ p.buttons = {}
        /\ p.client = c /\ p.status = panel.status /\ p.graph = panel.graph
    BY <1>1, <1>3, <2>1 DEF PanelType, Pages
  <2>3. panel' = [p EXCEPT !.inbox = y]
    BY <1>6, <2>1 DEF ShowLoading
  <2> QED
    BY <1>4, <2>2, <2>3 DEF PanelType
<1>15. Types'
  BY <1>1, <1>6, <1>9, <1>10, <1>12, <1>13, <1>14 DEF Types
<1>16. Shape'
  <2>1. TaskShape(n)'
    <3>1. k.step = "impact" => k.status \in Nat
      BY <1>2, <1>4, <1>7
    <3>2. k.step # "load"
      BY <1>4, <1>7 DEF Buttons
    <3> QED
      BY <1>2, <1>3, <1>7, <1>11, <1>13, <1>14, <3>1, <3>2 DEF TaskShape, Open
  <2>2. ASSUME NEW u \in DOMAIN tasks'
        PROVE  (u \in Tasks /\ tasks'[u] = tasks[u]) \/ TaskShape(u)'
    BY <1>9, <1>10, <2>1
  <2>3. panel'.status # None
    BY <1>2, <1>14, Kinds
  <2> QED
    BY <1>1, <1>2, <1>3, <1>6, <1>9, <1>10, <1>13, <1>14, <2>2, <2>3, PanelKeepsPlace
<1>17. ASSUME NEW d \in DOMAIN clients PROVE NoCall(clients[d].calls, n)
  BY <1>1, <1>11, FreshNoCall
<1>18. Queues'
  <2>1. tasks'[n].step # "boxes" /\ tasks'[n].client = c
    BY <1>4, <1>7, <1>11 DEF Buttons
  <2>2. \A u \in 1..n : u # n => tasks'[u] = tasks[u]
    BY <1>9, <1>10
  <2>3. QueuesOf(clients) /\ store'.version = store.version /\ c \in DOMAIN clients
    BY <1>1, <1>6, <1>11 DEF Queues
  <2> QED
    BY <1>1, <1>8, <1>11, <1>12, <1>17, <2>1, <2>2, <2>3, QueuesAsked
<1>19. PanelOk'
  <2>1. PICK q, r : q = clients[c].calls /\ r = clients'[c].calls
    OBVIOUS
  <2>2. Extends(r, q, n) /\ Replying(q) /\ NoCall(q, n)
    BY <1>8, <1>11, <1>12, <1>17, <2>1, AskedExtends, ClientQueue
  <2>3. Asking(n)
    BY <1>1, <1>3, <1>6, <1>12, <1>14, <2>1, <2>2 DEF Asking, PanelQueue, Asked
  <2>4. \A w \in DOMAIN tasks' : tasks'[w].step = "load" => w \in Tasks /\ tasks'[w] = tasks[w]
    BY <1>4, <1>7, <1>9, <1>10, <1>11 DEF Buttons
  <2>5. ASSUME NEW u \in Tasks, tasks'[u].step = "analyze" PROVE AnalyzeOk(u)'
    <3>1. AnalyzeOk(u) /\ u # n /\ tasks'[u] = tasks[u] /\ tasks[u].reply \in Replies
      BY <1>1, <1>2, <1>9, <1>11, <2>5 DEF PanelOk
    <3> QED
      BY <2>3, <2>4, <3>1, AnalyzeKept
  <2>6. AnalyzeOk(n)'
    <3>1. CASE clients[c].closed
      <4>1. r = q
        BY <1>12, <2>1, <3>1 DEF Asked
      <4>2. NoCall(r, n) /\ OneCall(r, n) /\ k.reply = Failed
        BY <1>7, <2>2, <3>1, <4>1, NoCallNoLoad
      <4> QED
        BY <1>11, <1>14, <2>1, <4>2, Kinds DEF AnalyzeOk
    <3>2. CASE ~clients[c].closed
      <4>1. Len(r) = Len(q) + 1
        BY <1>8, <1>12, <2>1, <3>2 DEF Asked
      <4>2. OneCall(r, n) /\ k.reply = None
        BY <1>7, <2>2, <3>2, <4>1, OneMore
      <4> QED
        BY <1>11, <1>14, <2>1, <4>2, Kinds DEF AnalyzeOk
    <3> QED
      BY <3>1, <3>2
  <2>7. Pending => Pending'
    BY <1>9, <1>11, PendingKept
  <2>8. ASSUME NEW w \in DOMAIN tasks', tasks'[w].step = "load" PROVE LoadOk(w)'
    <3>1. LoadOk(w) /\ w # n /\ tasks'[w] = tasks[w]
      BY <1>1, <1>2, <1>11, <2>4, <2>8 DEF PanelOk
    <3> QED
      BY <1>6, <2>3, <2>7, <3>1, LoadKept
  <2>9. Shown'
    <3>1. SUFFICES ASSUME \A w \in DOMAIN tasks' : tasks'[w].step # "load"
                   PROVE  /\ panel'.graph = None \/ panel'.graph >= own' \/ lastLoad' # "full"
                          /\ panel'.status >= own' \/ spanned' \/ lastLoad' = "failed"
                          /\ \A u \in DOMAIN tasks' : tasks'[u].step = "impact" =>
                               tasks'[u].status >= own' \/ spanned' \/ lastLoad' = "failed"
      BY DEF Shown, Tasks
    <3>2. \A w \in Tasks : tasks[w].step # "load"
      BY <1>9, <1>11, <3>1
    <3>3. Shown
      BY <1>1, <1>2 DEF PanelOk
    <3>4. ASSUME NEW u \in DOMAIN tasks', tasks'[u].step = "impact"
          PROVE  tasks'[u].status >= own' \/ spanned' \/ lastLoad' = "failed"
      <4>1. CASE u \in Tasks
        BY <1>6, <1>9, <3>2, <3>3, <3>4, <4>1 DEF Shown
      <4>2. CASE u = n
        BY <1>4, <1>6, <1>7, <1>11, <3>2, <3>3, <3>4, <4>2 DEF Shown
      <4> QED
        BY <1>9, <1>10, <4>1, <4>2
    <3> QED
      BY <1>6, <1>14, <3>2, <3>3, <3>4 DEF Shown
  <2>10. own' <= store'.version /\ NoneBefore(clients'[panel'.client].calls, own')
    <3>1. own <= store.version /\ NoneBefore(q, own)
      BY <1>1, <1>2, <1>3, <2>1 DEF PanelOk
    <3> QED
      BY <1>1, <1>6, <1>14, <2>1, <2>2, <3>1, Longer
  <2> QED
    BY <1>9, <1>10, <2>5, <2>6, <2>8, <2>9, <2>10 DEF PanelOk, Tasks
<1> QED
  BY <1>15, <1>16, <1>18, <1>19 DEF PanelInv

(* An analyze of the panel that failed shows its error. *)
LEMMA AnalyzeFailed ==
  ASSUME PanelInv, NEW t \in Tasks, ResumeAnalyze(t), tasks[t].reply < 0
  PROVE  PanelInv'
<1>1. /\ Types /\ Shape /\ Queues /\ PanelOk /\ Len(clients) \in Nat /\ Len(tasks) \in Nat
      /\ Tasks = 1..Len(tasks) /\ panel \in PanelType(Len(clients)) /\ store.version \in Nat
      /\ clients \in Seq(ClientType(Len(tasks))) /\ own \in Nat
      /\ \A u \in Tasks : tasks[u].reply \in Replies
  BY Basics DEF PanelInv, Types
<1>2. tasks[t].step = "analyze" /\ Open
  BY <1>1 DEF ResumeAnalyze, Shape, TaskShape, PanelSteps
<1>3. /\ tasks' = [tasks EXCEPT ![t] = Done]
      /\ UNCHANGED <<clients, store, own, lastLoad, spanned>>
      /\ panel' = ShowError(panel)
  BY DEF ResumeAnalyze, MessageFailed
<1>4. /\ panel' \in PanelType(Len(clients)) /\ panel'.page = "error"
      /\ panel'.client = panel.client /\ panel'.graph = panel.graph
      /\ panel'.status = panel.status
      /\ panel'.buttons # {} \/ panel'.inbox # <<>> => panel'.status # None
  BY <1>1, <1>3 DEF ShowError, PanelType, Pages, Shape
<1>5. /\ tasks' \in Seq(TaskType(Len(clients))) /\ Len(tasks') = Len(tasks)
      /\ DOMAIN tasks' = Tasks /\ tasks'[t].step = "done"
      /\ \A u \in Tasks : u # t => tasks'[u] = tasks[u]
      /\ Shape' /\ Queues' /\ Asking(0)
  BY <1>2, <1>3, <1>4, Finished
<1>6. Types'
  BY <1>1, <1>3, <1>4, <1>5 DEF Types
<1>7. PanelOk'
  <2>1. ASSUME NEW u \in DOMAIN tasks', tasks'[u].step = "analyze" PROVE AnalyzeOk(u)'
    <3>1. u \in Tasks /\ tasks'[u] = tasks[u] /\ AnalyzeOk(u) /\ u # 0
      BY <1>1, <1>2, <1>5, <2>1 DEF PanelOk
    <3>2. \A w \in DOMAIN tasks' : tasks'[w].step = "load" => w \in Tasks /\ tasks'[w] = tasks[w]
      BY <1>5
    <3> QED
      BY <1>1, <1>5, <3>1, <3>2, AnalyzeKept
  <2>2. Pending => Pending'
    BY <1>2, <1>5, PendingKept
  <2>3. ASSUME NEW w \in DOMAIN tasks', tasks'[w].step = "load" PROVE LoadOk(w)'
    <3>1. w \in Tasks /\ tasks'[w] = tasks[w] /\ LoadOk(w) /\ w # 0
      BY <1>1, <1>2, <1>5, <2>3 DEF PanelOk
    <3> QED
      BY <1>3, <1>5, <2>2, <3>1, LoadKept
  <2>4. Shown'
    <3>1. ASSUME \A w \in DOMAIN tasks' : tasks'[w].step # "load"
          PROVE  \A w \in Tasks : tasks[w].step # "load"
      BY <1>2, <1>5, <3>1
    <3>2. ASSUME NEW u \in DOMAIN tasks', tasks'[u].step = "impact"
          PROVE  u \in Tasks /\ tasks'[u] = tasks[u]
      BY <1>5, <3>2
    <3>3. Shown
      BY <1>1, <1>2 DEF PanelOk
    <3> QED
      BY <1>3, <1>4, <3>1, <3>2, <3>3 DEF Shown, Tasks
  <2>5. own' <= store'.version /\ NoneBefore(clients'[panel'.client].calls, own')
    BY <1>1, <1>2, <1>3, <1>4 DEF PanelOk
  <2> QED
    BY <2>1, <2>3, <2>4, <2>5 DEF PanelOk, Tasks
<1> QED
  BY <1>5, <1>6, <1>7 DEF PanelInv

(* One that stored snapshot v starts a load of its own, which is pending:  *)
(* every other pending load has been told nothing older than v.            *)
LEMMA AnalyzeSucceeded ==
  ASSUME PanelInv, NEW t \in Tasks, ResumeAnalyze(t), tasks[t].reply >= 0
  PROVE  PanelInv'
<1>1. /\ Types /\ Shape /\ Queues /\ PanelOk /\ Len(clients) \in Nat /\ Len(tasks) \in Nat
      /\ Tasks = 1..Len(tasks) /\ DOMAIN tasks = 1..Len(tasks)
      /\ panel \in PanelType(Len(clients)) /\ store.version \in Nat
      /\ clients \in Seq(ClientType(Len(tasks))) /\ tasks \in Seq(TaskType(Len(clients)))
      /\ own \in Nat /\ DOMAIN clients = 1..Len(clients)
      /\ \A u \in Tasks : tasks[u].reply \in Replies
  BY Basics DEF PanelInv, Types
<1>2. /\ tasks[t].step = "analyze" /\ Open /\ AnalyzeOk(t) /\ panel.client \in DOMAIN clients
      /\ tasks[t].client = panel.client
  BY <1>1 DEF ResumeAnalyze, Shape, TaskShape, PanelSteps, PanelOk
<1>3. PICK c, v : c = panel.client /\ v = tasks[t].reply
  OBVIOUS
<1>4. v \in Nat /\ v # None /\ c \in DOMAIN clients /\ c \in 1..Len(clients)
  BY <1>1, <1>2, <1>3, ReplyKinds, Kinds
<1>5. /\ ~clients[c].closed /\ v <= store.version
      /\ NoCall(clients[c].calls, t) /\ NoneBefore(clients[c].calls, v)
      /\ \A w \in Tasks : tasks[w].step = "load" => Settled(w) \/ Beyond(tasks[w], v)
  BY <1>2, <1>3, <1>4 DEF AnalyzeOk
<1>6. PICK k, ops : k = Loading(clients, c, None) /\ ops = LoadOps(None)
  OBVIOUS
<1>7. /\ panel' \in PanelType(Len(clients)) /\ panel'.page = "loading"
      /\ panel'.client = c /\ panel'.graph = None /\ panel'.status = panel.status
      /\ panel'.buttons # {} \/ panel'.inbox # <<>> => panel'.status # None
  <2>1. PICK p : p = [panel EXCEPT !.graph = None]
    OBVIOUS
  <2>2. panel' = [p EXCEPT !.page = "loading", !.buttons = {}]
    BY <1>3, <1>4, <2>1 DEF ResumeAnalyze, AfterAnalyze, ShowLoading
  <2>3. /\ p \in PanelType(Len(clients)) /\ p.client = c /\ p.graph = None
        /\ p.status = panel.status /\ p.inbox = panel.inbox
    BY <1>1, <1>3, <2>1 DEF PanelType
  <2>4. /\ panel' \in PanelType(Len(clients)) /\ panel'.page = "loading" /\ panel'.buttons = {}
        /\ panel'.client = p.client /\ panel'.graph = p.graph /\ panel'.status = p.status
        /\ panel'.inbox = p.inbox
    BY <2>2, <2>3 DEF PanelType, Pages
  <2> QED
    BY <1>1, <2>3, <2>4 DEF Shape
<1>8. /\ tasks' = [tasks EXCEPT ![t] = k] /\ clients' = Ask(clients, c, ops, t) /\ own' = v
      /\ UNCHANGED <<store, lastLoad, spanned>>
  <2>1. /\ tasks' = [tasks EXCEPT ![t] = Loading(clients, panel.client, panel'.graph)]
        /\ clients' = Ask(clients, panel.client, LoadOps(panel'.graph), t)
        /\ own' = tasks[t].reply
        /\ UNCHANGED <<store, lastLoad, spanned>>
    BY <1>3, <1>4 DEF ResumeAnalyze
  <2> QED
    BY <1>3, <1>6, <1>7, <2>1
<1>9. ops \in Seq(Operations) /\ Len(ops) = 2 /\ ops[1] = "status" /\ ops[2] = "graph"
  BY <1>6 DEF LoadOps, Operations
<1>10. /\ k.step = "load" /\ k.client = c /\ k.status = None /\ k.reply = None
       /\ k \in TaskType(Len(clients))
  BY <1>1, <1>4, <1>5, <1>6 DEF Loading, TaskType, Steps, PanelSteps, Replies
<1>11. /\ tasks' \in Seq(TaskType(Len(clients))) /\ Len(tasks') = Len(tasks)
       /\ DOMAIN tasks' = DOMAIN tasks /\ tasks'[t] = k
       /\ \A u \in DOMAIN tasks : u # t => tasks'[u] = tasks[u]
  BY <1>1, <1>8, <1>10, TaskSet
<1>12. t \in 1..Len(tasks)
  BY <1>1
<1>13. clients' \in Seq(ClientType(Len(tasks))) /\ Asked(clients', clients, c, ops, t)
  BY <1>1, <1>4, <1>8, <1>9, <1>12, AskIs
<1>14. Len(clients') = Len(clients) /\ DOMAIN clients' = DOMAIN clients
  BY <1>13 DEF Asked
<1>15. Types'
  BY <1>1, <1>4, <1>7, <1>8, <1>11, <1>13, <1>14 DEF Types
<1>16. Shape'
  <2>1. TaskShape(t)'
    BY <1>4, <1>7, <1>10, <1>11, <1>14, Kinds DEF TaskShape, Open
  <2>2. ASSUME NEW u \in DOMAIN tasks'
        PROVE  (u \in Tasks /\ tasks'[u] = tasks[u]) \/ TaskShape(u)'
    BY <1>1, <1>11, <2>1
  <2> QED
    BY <1>1, <1>2, <1>3, <1>7, <1>8, <1>11, <1>14, <2>2, PanelKeepsPlace
<1>17. Queues'
  <2>1. tasks'[t].step # "boxes" /\ tasks'[t].client = c
    BY <1>10, <1>11
  <2>2. \A u \in 1..Len(tasks) : u # t => tasks'[u] = tasks[u]
    BY <1>1, <1>11
  <2>3. QueuesOf(clients) /\ store'.version = store.version
    BY <1>1, <1>8 DEF Queues
  <2>4. tasks[t].client = c /\ tasks[t].step # "done"
    BY <1>2, <1>3
  <2> QED
    BY <1>1, <1>4, <1>9, <1>13, <2>1, <2>2, <2>3, <2>4, QueuesAsked
<1>18. PanelOk'
  <2>1. PICK q, r : q = clients[c].calls /\ r = clients'[c].calls
    OBVIOUS
  <2>2. Extends(r, q, t) /\ Replying(q) /\ NoCall(q, t)
    BY <1>1, <1>4, <1>5, <1>9, <1>13, <2>1, AskedExtends, ClientQueue
  <2>3. Asking(t)
    BY <1>1, <1>3, <1>7, <1>8, <1>13, <2>1, <2>2 DEF Asking, PanelQueue, Asked
  <2>4. ASSUME NEW u \in DOMAIN tasks', tasks'[u].step = "analyze" PROVE AnalyzeOk(u)'
    <3>1. u \in Tasks /\ tasks'[u] = tasks[u] /\ AnalyzeOk(u) /\ u # t /\ tasks[u].reply \in Replies
      BY <1>1, <1>2, <1>10, <1>11, <2>4 DEF PanelOk
    <3>2. ASSUME NEW w \in DOMAIN tasks', tasks'[w].step = "load"
          PROVE  \/ w \in Tasks /\ tasks'[w] = tasks[w]
                 \/ tasks'[w].status < 0 /\ tasks'[w].reply < 0
      BY <1>1, <1>10, <1>11, Kinds
    <3> QED
      BY <2>3, <3>1, <3>2, AnalyzeKept
  <2>5. Pending'
    <3>1. ~Settled(t)'
      BY <1>10, <1>11, Kinds DEF Settled
    <3> QED
      BY <1>1, <1>10, <1>11, <3>1 DEF Pending, Tasks
  <2>6. ASSUME NEW w \in DOMAIN tasks', tasks'[w].step = "load", w # t PROVE LoadOk(w)'
    <3>1. /\ LoadOk(w) /\ tasks'[w] = tasks[w] /\ tasks[w].step = "load" /\ w \in Tasks
      BY <1>1, <1>2, <1>11, <2>6 DEF PanelOk
    <3>2. Settled(w) \/ Beyond(tasks[w], own')
      BY <1>5, <1>8, <3>1
    <3>3. Beyond(tasks[w], own') \/ (Settled(w) /\ Pending')
      BY <2>5, <3>2
    <3> QED
      BY <2>3, <2>6, <3>1, <3>3, LoadKept
  <2>7. LoadOk(t)'
    <3>1. /\ Len(r) = Len(q) + 2
          /\ r[Len(q) + 1].op = "status" /\ r[Len(q) + 2].op = "graph"
      BY <1>5, <1>9, <1>13, <2>1, TwoAsked
    <3>2. LoadCalls(r, t, k.status)
      BY <2>2, <3>1, LoadAsked
    <3> QED
      BY <1>7, <1>10, <1>11, <2>1, <3>2, Kinds DEF LoadOk, Beyond, NotBefore
  <2>8. Shown'
    BY <1>1, <1>10, <1>11 DEF Shown, Tasks
  <2>9. own' <= store'.version
    BY <1>5, <1>8
  <2>10. NoneBefore(r, v)
    BY <1>4, <1>5, <2>1, <2>2, Longer
  <2> QED
    BY <1>7, <1>8, <2>1, <2>4, <2>6, <2>7, <2>8, <2>9, <2>10 DEF PanelOk, Tasks
<1> QED
  BY <1>15, <1>16, <1>17, <1>18 DEF PanelInv

(* An analysis of the panel goes on. *)
LEMMA ResumeAnalyzeStep ==
  ASSUME PanelInv, NEW t \in Tasks, ResumeAnalyze(t)
  PROVE  PanelInv'
<1>1. tasks[t].reply \in Int
  BY Basics, ReplyKinds DEF PanelInv
<1>2. tasks[t].reply < 0 \/ tasks[t].reply >= 0
  BY <1>1
<1> QED
  BY <1>2, AnalyzeFailed, AnalyzeSucceeded

-----------------------------------------------------------------------------
(* The server. *)
LEMMA LeastCall ==
  ASSUME NEW B \in SUBSET Nat, B # {}
  PROVE  Min(B) \in B /\ \A k \in B : Min(B) <= k
<1> DEFINE R == OpToRel(<, Nat)
<1>1. R = {p \in Nat \X Nat : p[1] < p[2]}
  BY DEF OpToRel
<1>2. IsWellFoundedOn(R, Nat)
  BY NatLessThanWellFounded
<1> HIDE DEF R
<1>3. PICK m \in B : \A k \in B : ~(<<k, m>> \in R)
  BY <1>2, WFMin
<1>4. \A x, y \in Nat : ~(<<y, x>> \in R) => x <= y
  BY <1>1
<1>5. \E x \in B : \A k \in B : x <= k
  BY <1>3, <1>4
<1> QED
  BY <1>5 DEF Min

(* A queue whose i-th call is given the reply x. *)
Replied(r, q, i, x) ==
  /\ DOMAIN r = DOMAIN q /\ Len(r) = Len(q)
  /\ \A j \in DOMAIN q : /\ r[j].by = q[j].by /\ r[j].op = q[j].op
                         /\ r[j].reply = IF j = i THEN x ELSE q[j].reply

(* One client is changed. *)
LEMMA ClientSet ==
  ASSUME NEW n, NEW cs \in Seq(ClientType(n)), NEW c \in DOMAIN cs, NEW z \in ClientType(n),
         NEW ds, ds = [cs EXCEPT ![c] = z]
  PROVE  /\ ds \in Seq(ClientType(n)) /\ Len(ds) = Len(cs) /\ DOMAIN ds = DOMAIN cs
         /\ \A d \in DOMAIN cs : ds[d] = IF d = c THEN z ELSE cs[d]
OBVIOUS

Answered(cs, c, i, x) ==
  [cs EXCEPT ![c] = [cs[c] EXCEPT !.calls =
    [cs[c].calls EXCEPT ![i] = [cs[c].calls[i] EXCEPT !.reply = x]]]]

Serves(ds, cs, c, i, x, n) ==
  /\ ds \in Seq(ClientType(n)) /\ Len(ds) = Len(cs) /\ DOMAIN ds = DOMAIN cs
  /\ \A d \in DOMAIN cs : d # c => ds[d] = cs[d]
  /\ ds[c].closed = cs[c].closed
  /\ Replied(ds[c].calls, cs[c].calls, i, x)

(* Answered does to the clients what Serves says. *)
LEMMA ReplyIs ==
  ASSUME NEW n \in Nat, NEW cs, cs \in Seq(ClientType(n)), NEW c, c \in 1..Len(cs),
         NEW i, i \in 1..Len(cs[c].calls), NEW x, x \in Replies, NEW ds, ds = Answered(cs, c, i, x)
  PROVE  Serves(ds, cs, c, i, x, n)
<1>0. PICK q, y : q = cs[c].calls /\ y = [q[i] EXCEPT !.reply = x]
  OBVIOUS
<1>10. PICK r, z : r = [q EXCEPT ![i] = y] /\ z = [cs[c] EXCEPT !.calls = r]
  OBVIOUS
<1>11. ds = [cs EXCEPT ![c] = z]
  BY <1>0, <1>10, Zenon DEF Answered
<1>1. /\ cs[c] \in ClientType(n) /\ q \in Seq(CallType(n)) /\ DOMAIN q = 1..Len(q) /\ Len(q) \in Nat
      /\ \A j \in DOMAIN q : q[j] \in CallType(n)
  BY <1>0, ClientQueue
<1>2. y \in CallType(n) /\ y.by = q[i].by /\ y.op = q[i].op /\ y.reply = x
  BY <1>0, <1>1 DEF CallType
<1>3. /\ r \in Seq(CallType(n)) /\ Len(r) = Len(q) /\ DOMAIN r = DOMAIN q
      /\ \A j \in DOMAIN q : r[j] = IF j = i THEN y ELSE q[j]
  BY <1>0, <1>10, <1>1, <1>2
<1>4. z \in ClientType(n) /\ z.closed = cs[c].closed /\ z.calls = r
  BY <1>10, <1>1, <1>3 DEF ClientType
<1>5. /\ ds \in Seq(ClientType(n)) /\ Len(ds) = Len(cs) /\ DOMAIN ds = DOMAIN cs
      /\ \A d \in DOMAIN cs : ds[d] = IF d = c THEN z ELSE cs[d]
  BY <1>11, <1>4, ClientSet
<1>6. Replied(r, q, i, x)
  BY <1>2, <1>3 DEF Replied
<1> QED
  BY <1>0, <1>4, <1>5, <1>6 DEF Serves

Fits(r, q, i, x, v, w) ==
  /\ Replied(r, q, i, x) /\ Replying(q) /\ x \in Replies
  /\ DOMAIN q = 1..Len(q) /\ Len(q) \in Nat /\ i \in DOMAIN q
  /\ q[i].reply = None /\ (\A j \in DOMAIN q : j < i => q[j].reply # None) /\ x # None
  /\ v \in Nat /\ w \in Nat /\ v <= w /\ (x < 0 \/ x >= v) /\ x <= w /\ Recent(q, v)

(* An answer to the first call that waits keeps the queue in order. *)
LEMMA RepliedKeeps ==
  ASSUME NEW q, NEW r, NEW i, NEW x, NEW v, NEW w, Fits(r, q, i, x, v, w)
  PROVE  /\ Ordered(q) => Ordered(r)
         /\ Recent(r, w)
         /\ \A u : NoCall(q, u) => NoCall(r, u)
         /\ \A u : OneCall(q, u) => OneCall(r, u)
         /\ \A u, y : LoadCalls(q, u, y) => LoadCalls(r, u, y)
         /\ \A u : GraphNext(q, u) => GraphNext(r, u)
         /\ \A y \in Nat : y <= v /\ NoneBefore(q, y) => NoneBefore(r, y)
<1>0. /\ Replied(r, q, i, x) /\ Replying(q) /\ x \in Replies
      /\ DOMAIN q = 1..Len(q) /\ Len(q) \in Nat /\ i \in DOMAIN q
      /\ q[i].reply = None /\ (\A j \in DOMAIN q : j < i => q[j].reply # None) /\ x # None
      /\ v \in Nat /\ w \in Nat /\ v <= w /\ (x < 0 \/ x >= v) /\ x <= w /\ Recent(q, v)
  BY DEF Fits
<1>1. \A j \in DOMAIN q : q[j].reply \in Int /\ q[j].reply <= v
  BY <1>0, ReplyKinds DEF Replying, Recent
<1>2. x \in Int
  BY <1>0, ReplyKinds
<1>3. DOMAIN r = DOMAIN q /\ Len(r) = Len(q)
  BY <1>0 DEF Replied
<1>4. \A j \in DOMAIN q : /\ r[j].by = q[j].by /\ r[j].op = q[j].op
                          /\ r[j].reply = IF j = i THEN x ELSE q[j].reply
  BY <1>0 DEF Replied
<1>5. ASSUME Ordered(q) PROVE Ordered(r)
  <2> SUFFICES ASSUME NEW j \in DOMAIN q, NEW k \in DOMAIN q, j < k
               PROVE  /\ r[j].reply = None => r[k].reply = None
                      /\ r[k].reply < 0 \/ r[k].reply >= r[j].reply
    BY <1>0, <1>3 DEF Ordered
  <2>1. /\ q[j].reply = None => q[k].reply = None
        /\ q[k].reply < 0 \/ q[k].reply >= q[j].reply
    BY <1>0, <1>5 DEF Ordered
  <2>2. CASE j = i
    <3>1. k # i /\ q[k].reply = None /\ r[j].reply = x /\ r[k].reply = None
      BY <1>0, <1>4, <2>1, <2>2
    <3> QED
      BY <3>1, Kinds
  <2>3. CASE k = i
    <3>1. j # i /\ r[j].reply = q[j].reply /\ r[k].reply = x /\ q[j].reply # None /\ q[j].reply <= v
      BY <1>0, <1>1, <1>4, <2>3
    <3> QED
      BY <1>0, <1>1, <1>2, <3>1
  <2>4. CASE j # i /\ k # i
    BY <1>0, <1>4, <2>1, <2>4
  <2> QED
    BY <2>2, <2>3, <2>4
<1>6. Recent(r, w)
  BY <1>0, <1>1, <1>2, <1>3, <1>4 DEF Recent
<1>7. \A u : NoCall(q, u) => NoCall(r, u)
  BY <1>0, <1>3, <1>4 DEF NoCall
<1>8. \A u : OneCall(q, u) => OneCall(r, u)
  BY <1>0, <1>3, <1>4 DEF OneCall
<1>9. \A u, y : LoadCalls(q, u, y) => LoadCalls(r, u, y)
  <2>0. SUFFICES ASSUME NEW u, NEW y, LoadCalls(q, u, y) PROVE LoadCalls(r, u, y)
    OBVIOUS
  <2> SUFFICES ASSUME NEW j \in DOMAIN q, r[j].by = u
               PROVE \/ /\ r[j].op = "status" /\ j + 1 \in DOMAIN q
                        /\ r[j + 1].by = u /\ r[j + 1].op = "graph"
                     \/ /\ r[j].op = "graph"
                        /\ \/ j = 1 /\ y # None
                           \/ j > 1 /\ r[j - 1].by = u /\ r[j - 1].op = "status"
    BY <1>0, <1>3 DEF LoadCalls
  <2>1. q[j].by = u /\ r[j].op = q[j].op /\ (j > 1 => j - 1 \in DOMAIN q)
    BY <1>0, <1>4
  <2>2. \/ /\ q[j].op = "status" /\ j + 1 \in DOMAIN q
           /\ q[j + 1].by = u /\ q[j + 1].op = "graph"
        \/ q[j].op = "graph" /\ j = 1 /\ y # None
        \/ q[j].op = "graph" /\ j > 1 /\ q[j - 1].by = u /\ q[j - 1].op = "status"
    BY <2>0, <2>1 DEF LoadCalls
  <2>3. CASE q[j].op = "status" /\ j + 1 \in DOMAIN q /\ q[j + 1].by = u /\ q[j + 1].op = "graph"
    <3>1. r[j + 1].by = q[j + 1].by /\ r[j + 1].op = q[j + 1].op
      BY <1>0, <1>4, <2>3
    <3> QED
      BY <2>1, <2>3, <3>1
  <2>4. CASE q[j].op = "graph" /\ j = 1 /\ y # None
    BY <2>1, <2>4
  <2>5. CASE q[j].op = "graph" /\ j > 1 /\ q[j - 1].by = u /\ q[j - 1].op = "status"
    <3>1. r[j - 1].by = q[j - 1].by /\ r[j - 1].op = q[j - 1].op
      BY <1>0, <1>4, <2>1, <2>5
    <3> QED
      BY <2>1, <2>5, <3>1
  <2> QED
    BY <2>2, <2>3, <2>4, <2>5
<1>10. \A u : GraphNext(q, u) => GraphNext(r, u)
  BY <1>0, <1>3, <1>4 DEF GraphNext
<1>11. \A y \in Nat : y <= v /\ NoneBefore(q, y) => NoneBefore(r, y)
  BY <1>0, <1>1, <1>2, <1>3, <1>4 DEF NoneBefore, NotBefore
<1> QED
  BY <1>0, <1>5, <1>6, <1>7, <1>8, <1>9, <1>10, <1>11

(* What a reply tells of the database before and after it. *)
LEMMA ReplyOfServer ==
  ASSUME Types, Shape, NEW op, NEW x \in Answers(op),
         store' = CASE op = "init" /\ x >= 0 -> [store EXCEPT !.initialised = TRUE]
                    [] op = "analyze" /\ x >= 0 -> [store EXCEPT !.version = x]
                    [] OTHER -> store
  PROVE  /\ SameStore /\ store'.version \in Nat
         /\ x \in Replies /\ x # None /\ (x < 0 \/ x >= store.version) /\ x <= store'.version
<1>1. store \in StoreType /\ store.version \in Nat /\ store.initialised \in BOOLEAN
  BY Basics DEF Types
<1>2. ~store.initialised => store.version = 0
  BY DEF Shape
<1>3. CASE x = Failed \/ x = NotInitialized
  <2>1. x < 0 /\ ~(x >= 0)
    BY <1>3, Kinds
  <2>2. store' = store
    BY <2>1
  <2> QED
    BY <1>1, <1>2, <1>3, <2>2, Kinds DEF SameStore, Replies
<1>4. CASE x = store.version /\ op # "analyze"
  <2>1. x \in Nat
    BY <1>1, <1>4
  <2>2. \/ store' = store
        \/ op = "init" /\ store' = [store EXCEPT !.initialised = TRUE]
    BY <1>4
  <2>3. store' \in StoreType /\ store'.version = store.version
        /\ (store'.initialised = store.initialised \/ store'.initialised)
    BY <1>1, <2>2 DEF StoreType
  <2> QED
    BY <1>1, <1>2, <1>4, <2>1, <2>3, Kinds DEF SameStore, Replies
<1>5. CASE x = store.version + 1 /\ op = "analyze" /\ store.initialised
  <2>1. x \in Nat /\ x >= 0
    BY <1>1, <1>5
  <2>2. store' = [store EXCEPT !.version = x]
    BY <1>5, <2>1
  <2>3. store' \in StoreType /\ store'.version = x /\ store'.initialised
    BY <1>1, <1>5, <2>1, <2>2 DEF StoreType
  <2> QED
    BY <1>1, <1>5, <2>1, <2>3, Kinds DEF SameStore, Replies
<1> QED
  BY <1>3, <1>4, <1>5 DEF Answers

(* The server answers. *)
LEMMA ServeStep ==
  ASSUME PanelInv, NEW c \in DOMAIN clients, Serve(c)
  PROVE  PanelInv'
<1>1. /\ Types /\ Shape /\ Queues /\ PanelOk /\ Len(clients) \in Nat /\ Len(tasks) \in Nat
      /\ Tasks = 1..Len(tasks) /\ store.version \in Nat
      /\ clients \in Seq(ClientType(Len(tasks))) /\ tasks \in Seq(TaskType(Len(clients)))
      /\ own \in Nat /\ DOMAIN clients = 1..Len(clients)
      /\ \A u \in Tasks : tasks[u].reply \in Replies
  BY Basics DEF PanelInv, Types
<1>2. PICK q, i : q = clients[c].calls /\ i = Min(Unanswered(c))
  OBVIOUS
<1>3. PICK x \in Answers(q[i].op) :
        /\ clients' = [clients EXCEPT ![c].calls[i].reply = x]
        /\ store' = CASE q[i].op = "init" /\ x >= 0 -> [store EXCEPT !.initialised = TRUE]
                      [] q[i].op = "analyze" /\ x >= 0 -> [store EXCEPT !.version = x]
                      [] OTHER -> store
  BY <1>2, Zenon DEF Serve
<1>4. ~clients[c].closed /\ UNCHANGED <<panel, tasks, own, lastLoad, spanned>> /\ Unanswered(c) # {}
  BY DEF Serve
<1>5. /\ Replying(q) /\ DOMAIN q = 1..Len(q) /\ Len(q) \in Nat
  BY <1>1, <1>2, ClientQueue
<1>6. /\ i \in DOMAIN q /\ q[i].reply = None
      /\ \A j \in DOMAIN q : j < i => q[j].reply # None
  <2>1. Unanswered(c) = {j \in DOMAIN q : q[j].reply = None}
    BY <1>2 DEF Unanswered
  <2>2. Unanswered(c) \in SUBSET Nat
    BY <1>5, <2>1
  <2>3. i \in Unanswered(c) /\ \A j \in Unanswered(c) : i <= j
    BY <1>2, <1>4, <2>2, LeastCall
  <2>4. i \in Nat
    BY <2>2, <2>3
  <2>5. ASSUME NEW j \in DOMAIN q, j < i PROVE q[j].reply # None
    BY <1>5, <2>1, <2>3, <2>4, <2>5
  <2> QED
    BY <2>1, <2>3, <2>5
<1>7. /\ SameStore /\ store'.version \in Nat /\ store'.version >= store.version
      /\ x \in Replies /\ x # None /\ (x < 0 \/ x >= store.version) /\ x <= store'.version
  BY <1>1, <1>3, ReplyOfServer DEF SameStore
<1>8. PICK ds, r : ds = Answered(clients, c, i, x) /\ r = ds[c].calls
  OBVIOUS
<1>11. clients' = ds
  BY <1>2, <1>3, <1>8, Zenon DEF Answered
<1>12. /\ ds \in Seq(ClientType(Len(tasks))) /\ Len(ds) = Len(clients) /\ DOMAIN ds = DOMAIN clients
       /\ \A d \in DOMAIN clients : d # c => ds[d] = clients[d]
       /\ ds[c].closed = clients[c].closed /\ ds[c].calls = r
       /\ Replied(r, q, i, x)
  <2>1. c \in 1..Len(clients) /\ i \in 1..Len(clients[c].calls)
    BY <1>1, <1>2, <1>5, <1>6
  <2>2. /\ ds \in Seq(ClientType(Len(tasks))) /\ Len(ds) = Len(clients)
        /\ DOMAIN ds = DOMAIN clients
        /\ \A d \in DOMAIN clients : d # c => ds[d] = clients[d]
        /\ ds[c].closed = clients[c].closed
        /\ Replied(ds[c].calls, clients[c].calls, i, x)
    <3>1. Serves(ds, clients, c, i, x, Len(tasks))
      BY <1>1, <1>2, <1>7, <1>8, <2>1, ReplyIs, Zenon
    <3> QED
      BY <3>1 DEF Serves
  <2> QED
    BY <1>2, <1>8, <2>2
<1>13. SamePanel
  BY <1>1, <1>4, <1>11, <1>12, PanelSame
<1>14. OtherTasks(Len(tasks)) /\ tasks' = tasks
  BY <1>1, <1>4, SameTasks
<1>15. Types' /\ Shape'
  <2>1. /\ clients' \in Seq(ClientType(Len(tasks'))) /\ tasks' \in Seq(TaskType(Len(clients')))
        /\ Len(clients) <= Len(clients') /\ Len(clients') \in Nat
        /\ DOMAIN clients' = 1..Len(clients')
    BY <1>1, <1>11, <1>12, <1>14
  <2> QED
    BY <1>1, <1>7, <1>13, <1>14, <2>1, OthersTypes, OthersShape
<1>16. /\ (clients[c].closed => q = <<>>) /\ Ordered(q) /\ Recent(q, store.version) /\ Callers(q, c)
  BY <1>1, <1>2 DEF Queues, QueuesOf
<1>17. /\ Ordered(r) /\ Recent(r, store'.version)
       /\ \A u : NoCall(q, u) => NoCall(r, u)
       /\ \A u : OneCall(q, u) => OneCall(r, u)
       /\ \A u, s : LoadCalls(q, u, s) => LoadCalls(r, u, s)
       /\ \A u : GraphNext(q, u) => GraphNext(r, u)
       /\ \A v \in Nat : v <= store.version /\ NoneBefore(q, v) => NoneBefore(r, v)
  <2>1. Fits(r, q, i, x, store.version, store'.version)
    BY <1>1, <1>5, <1>6, <1>7, <1>12, <1>16 DEF Fits
  <2> QED
    BY <1>16, <2>1, RepliedKeeps
<1>18. Queues'
  <2> SUFFICES ASSUME NEW d \in DOMAIN ds
               PROVE  /\ ds[d].closed => ds[d].calls = <<>>
                      /\ Ordered(ds[d].calls)
                      /\ Recent(ds[d].calls, store'.version)
                      /\ Callers(ds[d].calls, d)'
    BY <1>11 DEF Queues, QueuesOf
  <2>1. CASE d = c
    <3>1. Callers(r, c)'
      BY <1>12, <1>14, <1>16 DEF Callers, Replied
    <3> QED
      BY <1>4, <1>12, <1>17, <2>1, <3>1
  <2>2. CASE d # c
    <3>1. /\ ds[d] = clients[d] /\ d \in DOMAIN clients
          /\ (clients[d].closed => clients[d].calls = <<>>) /\ Ordered(clients[d].calls)
          /\ Recent(clients[d].calls, store.version) /\ Callers(clients[d].calls, d)
      BY <1>1, <1>12, <2>2 DEF Queues, QueuesOf
    <3>2. \A j \in DOMAIN clients[d].calls : clients[d].calls[j].reply \in Int
      BY <1>1, <3>1, ClientQueue, ReplyKinds DEF Replying
    <3>3. Recent(clients[d].calls, store'.version)
      BY <1>1, <1>7, <3>1, <3>2 DEF Recent
    <3>4. Callers(clients[d].calls, d) => Callers(ds[d].calls, d)'
      BY <1>14, <3>1 DEF Callers
    <3> QED
      BY <3>1, <3>3, <3>4
  <2> QED
    BY <2>1, <2>2
<1>19. CASE ~Open
  <2>1. PanelOk'
    BY <1>4, <1>19 DEF PanelOk, Open
  <2> QED
    BY <1>15, <1>18, <2>1 DEF PanelInv
<1>20. CASE Open /\ panel.client # c
  <2>1. /\ panel.client \in DOMAIN clients /\ clients'[panel.client] = clients[panel.client]
    BY <1>1, <1>11, <1>12, <1>20 DEF Shape
  <2>2. /\ Extends(clients[panel.client].calls, clients[panel.client].calls, 0)
        /\ Replying(clients[panel.client].calls)
    BY <1>1, <2>1, ClientQueue, ExtendsSelf
  <2>3. Steady(0)
    BY <1>1, <1>7, <1>13, <1>14, <1>20, <2>1, <2>2, OthersSteady
  <2>4. PanelOk'
    BY <1>1, <1>20, <2>3, PanelSteady
  <2> QED
    BY <1>15, <1>18, <2>4 DEF PanelInv
<1>21. CASE Open /\ panel.client = c
  <2>1. /\ clients'[panel'.client].calls = r /\ clients[panel.client].calls = q
        /\ clients'[panel'.client].closed = clients[panel.client].closed
    BY <1>2, <1>4, <1>11, <1>12, <1>21
  <2>2. \A w : Settled(w)' <=> Settled(w)
    BY <1>14, SettledSame
  <2>3. Pending => Pending'
    BY <1>14, <2>2 DEF Pending, Tasks
  <2>4. ASSUME NEW u \in Tasks, tasks[u].step = "analyze" PROVE AnalyzeOk(u)'
    <3>1. AnalyzeOk(u) /\ tasks[u].reply \in Replies
      BY <1>1, <1>21, <2>4 DEF PanelOk
    <3>2. PICK v : v = tasks[u].reply
      OBVIOUS
    <3>3. v >= 0 => v \in Nat
      BY <3>1, <3>2, ReplyKinds, Kinds
    <3>4. OneCall(r, u) /\ (v # None => NoCall(r, u))
      BY <1>17, <2>1, <3>1, <3>2 DEF AnalyzeOk
    <3>5. ASSUME v >= 0
          PROVE  /\ ~clients[panel.client].closed /\ v <= store'.version /\ NoneBefore(r, v)
                 /\ \A w \in Tasks : tasks[w].step = "load" => Settled(w) \/ Beyond(tasks[w], v)
      <4>1. /\ ~clients[panel.client].closed /\ v <= store.version /\ NoneBefore(q, v)
            /\ \A w \in Tasks : tasks[w].step = "load" => Settled(w) \/ Beyond(tasks[w], v)
        BY <2>1, <3>1, <3>2, <3>5 DEF AnalyzeOk
      <4>2. v \in Nat
        BY <3>3, <3>5
      <4>3. v <= store'.version
        BY <1>1, <1>7, <4>1, <4>2
      <4>4. NoneBefore(r, v)
        BY <1>17, <4>1, <4>2
      <4> QED
        BY <4>1, <4>3, <4>4
    <3> QED
      BY <1>14, <2>1, <2>2, <3>2, <3>4, <3>5 DEF AnalyzeOk, Tasks
  <2>5. ASSUME NEW w \in Tasks, tasks[w].step = "load" PROVE LoadOk(w)'
    <3>1. LoadOk(w)
      BY <1>1, <1>21, <2>5 DEF PanelOk
    <3>2. PICK k : k = tasks[w]
      OBVIOUS
    <3>3. /\ LoadCalls(q, w, k.status)
          /\ k.status >= 0 /\ k.reply = None => GraphNext(q, w)
      BY <2>1, <3>1, <3>2 DEF LoadOk
    <3>4. /\ LoadCalls(r, w, k.status)
          /\ k.status >= 0 /\ k.reply = None => GraphNext(r, w)
      BY <1>17, <3>3
    <3> QED
      BY <1>4, <1>14, <2>1, <2>2, <2>3, <3>1, <3>2, <3>4 DEF LoadOk
  <2>6. own <= store'.version /\ NoneBefore(r, own)
    <3>1. own <= store.version /\ NoneBefore(q, own)
      BY <1>1, <1>21, <2>1 DEF PanelOk
    <3> QED
      BY <1>1, <1>7, <1>17, <3>1
  <2>7. Shown'
    BY <1>1, <1>4, <1>14, <1>21 DEF PanelOk, Shown, Tasks
  <2>8. PanelOk'
    BY <1>4, <1>14, <2>1, <2>4, <2>5, <2>6, <2>7 DEF PanelOk, Tasks
  <2> QED
    BY <1>15, <1>18, <2>8 DEF PanelInv
<1> QED
  BY <1>19, <1>20, <1>21

-----------------------------------------------------------------------------
(* Data: what a task makes of the answers s, and what it was before, k. *)
Heard(x) == IF x < 0 THEN Failed ELSE x

IsStatus(s, t, i) == i \in DOMAIN s /\ s[i].by = t /\ s[i].op = "status"
IsOther(s, t, i) == i \in DOMAIN s /\ s[i].by = t /\ s[i].op # "status"

Hears(m, k, s, t) ==
  /\ m.step = k.step /\ m.client = k.client
  /\ NoCall(s, t) => m = k
  /\ k.step = "load" =>
       /\ \/ m.status = k.status /\ \A i : ~IsStatus(s, t, i)
          \/ \E i : IsStatus(s, t, i) /\ m.status = Heard(s[i].reply)
       /\ \/ m.reply = k.reply /\ \A i : ~IsOther(s, t, i)
          \/ \E i : IsOther(s, t, i) /\ m.reply = Heard(s[i].reply)
  /\ k.step # "load" =>
       /\ m.status = k.status
       /\ \/ m.reply = k.reply
          \/ \E i : IsOther(s, t, i) /\ m.reply = s[i].reply

(* What a load hears: a snapshot, or that it failed. *)
LEMMA HeardIs ==
  ASSUME NEW x \in Replies
  PROVE  /\ Heard(x) \in Nat \cup {Failed} /\ Heard(x) # None
         /\ Heard(x) \in Replies /\ Heard(x) # NotInitialized
         /\ Heard(x) >= 0 => Heard(x) = x
BY ReplyKinds, Kinds DEF Heard, Replies

(* Told does to a task what Hears says. *)
LEMMA ToldIs ==
  ASSUME NEW n \in Nat, NEW mm \in Nat, NEW s, s \in Seq(CallType(n)), NEW t,
         tasks[t] \in TaskType(mm), NEW m, m = Told(t, s)
  PROVE  m \in TaskType(mm) /\ Hears(m, tasks[t], s, t)
<1> DEFINE to(op) == {s[i].reply : i \in {j \in DOMAIN s : s[j].by = t /\ s[j].op = op}}
           status == to("status")
           other == UNION {to(op) : op \in Operations \ {"status"}}
<1>1. PICK k : k = tasks[t]
  OBVIOUS
<1>2. \A i \in DOMAIN s : s[i] \in CallType(n) /\ s[i].op \in Operations /\ s[i].reply \in Replies
  <2>1. \A i \in DOMAIN s : s[i] \in CallType(n)
    OBVIOUS
  <2> QED
    BY <2>1 DEF CallType
<1>3. \A r \in status : \E i : IsStatus(s, t, i) /\ r = s[i].reply
  BY DEF IsStatus
<1>4. \A i : IsStatus(s, t, i) => s[i].reply \in status
  BY DEF IsStatus
<1>5. \A r \in other : \E i : IsOther(s, t, i) /\ r = s[i].reply
  BY DEF IsOther
<1>6. ASSUME NEW i, IsOther(s, t, i) PROVE s[i].reply \in other
  <2>1. s[i].op \in Operations \ {"status"} /\ s[i].reply \in to(s[i].op)
    BY <1>2, <1>6 DEF IsOther
  <2> QED
    BY <2>1
<1>7. m = CASE k.step = "load" ->
                 [k EXCEPT !.status = IF status = {} THEN @
                                      ELSE LET r == CHOOSE r \in status : TRUE
                                           IN IF r < 0 THEN Failed ELSE r,
                           !.reply = IF other = {} THEN @
                                     ELSE LET r == CHOOSE r \in other : TRUE
                                          IN IF r < 0 THEN Failed ELSE r]
            [] k.step = "done" -> k
            [] OTHER -> [k EXCEPT !.reply = IF other = {} THEN @ ELSE CHOOSE r \in other : TRUE]
  BY <1>1 DEF Told
<1>8. PICK x, y : x = (CHOOSE r \in status : TRUE) /\ y = (CHOOSE r \in other : TRUE)
  OBVIOUS
<1>9. (status # {} => x \in status) /\ (other # {} => y \in other)
  BY <1>8
<1> HIDE DEF status, other
<1>10. PICK a, b, e : /\ a = IF status = {} THEN k.status ELSE Heard(x)
                      /\ b = IF other = {} THEN k.reply ELSE Heard(y)
                      /\ e = IF other = {} THEN k.reply ELSE y
  OBVIOUS
<1>11. /\ \/ a = k.status /\ \A i : ~IsStatus(s, t, i)
          \/ \E i : IsStatus(s, t, i) /\ a = Heard(s[i].reply)
       /\ \/ b = k.reply /\ \A i : ~IsOther(s, t, i)
          \/ \E i : IsOther(s, t, i) /\ b = Heard(s[i].reply)
       /\ \/ e = k.reply /\ \A i : ~IsOther(s, t, i)
          \/ \E i : IsOther(s, t, i) /\ e = s[i].reply
  BY <1>3, <1>4, <1>5, <1>6, <1>9, <1>10
<1>12. /\ k \in TaskType(mm)
       /\ k = [step |-> k.step, client |-> k.client, status |-> k.status, reply |-> k.reply]
  BY <1>1 DEF TaskType
<1>13. /\ k.step = "load" => m = [k EXCEPT !.status = a, !.reply = b]
       /\ k.step = "done" => m = k
       /\ k.step \notin {"load", "done"} => m = [k EXCEPT !.reply = e]
  BY <1>7, <1>8, <1>10, <1>12 DEF Heard
<1>14. a \in Nat \cup {None, Failed} /\ b \in Replies /\ e \in Replies
  <2>1. k.status \in Nat \cup {None, Failed} /\ k.reply \in Replies
    BY <1>12 DEF TaskType
  <2>2. \A i : IsStatus(s, t, i) \/ IsOther(s, t, i) => s[i].reply \in Replies
    BY <1>2 DEF IsStatus, IsOther
  <2> QED
    BY <1>11, <2>1, <2>2, HeardIs
<1>15. NoCall(s, t) => /\ \A i : ~IsStatus(s, t, i) /\ ~IsOther(s, t, i)
                       /\ a = k.status /\ b = k.reply /\ e = k.reply
  BY <1>11 DEF NoCall, IsStatus, IsOther
<1>16. CASE k.step = "load"
  <2>1. m = [step |-> k.step, client |-> k.client, status |-> a, reply |-> b]
    BY <1>12, <1>13, <1>16
  <2>2. m \in TaskType(mm)
    BY <1>12, <1>14, <2>1 DEF TaskType
  <2>3. NoCall(s, t) => m = k
    BY <1>12, <1>15, <2>1
  <2> QED
    BY <1>1, <1>11, <1>16, <2>1, <2>2, <2>3 DEF Hears
<1>17. CASE k.step = "done"
  BY <1>1, <1>12, <1>13, <1>17 DEF Hears
<1>18. CASE k.step \notin {"load", "done"}
  <2>1. m = [step |-> k.step, client |-> k.client, status |-> k.status, reply |-> e]
    BY <1>12, <1>13, <1>18
  <2>2. m \in TaskType(mm)
    BY <1>12, <1>14, <2>1 DEF TaskType
  <2>3. NoCall(s, t) => m = k
    BY <1>12, <1>15, <2>1
  <2> QED
    BY <1>1, <1>11, <1>18, <2>1, <2>2, <2>3 DEF Hears
<1> QED
  BY <1>16, <1>17, <1>18

-----------------------------------------------------------------------------
(* A chunk s of the first n calls of the queue q, and the rest r of it.  *)
(* Each answer is the call's own, or an error.                           *)
Chunk(s, r, q, n) ==
  /\ n \in Nat /\ n <= Len(q) /\ DOMAIN s = 1..n
  /\ DOMAIN q = 1..Len(q) /\ Len(q) \in Nat
  /\ DOMAIN r = 1..Len(q) - n /\ Len(r) = Len(q) - n
  /\ \A i \in 1..Len(q) - n : r[i] = q[i + n]
  /\ \A i \in 1..n : /\ s[i].by = q[i].by /\ s[i].op = q[i].op
                     /\ s[i].reply \in Replies /\ s[i].reply # None
                     /\ s[i].reply < 0 \/ s[i].reply = q[i].reply

(* What is true of a queue is true of its rest. *)
LEMMA RestKeeps ==
  ASSUME NEW s, NEW r, NEW q, NEW n, Chunk(s, r, q, n)
  PROVE  /\ Ordered(q) => Ordered(r)
         /\ \A v : Recent(q, v) => Recent(r, v)
         /\ \A v : NoneBefore(q, v) => NoneBefore(r, v)
         /\ \A u : NoCall(q, u) => NoCall(r, u) /\ NoCall(s, u)
         /\ \A u : OneCall(q, u) => OneCall(r, u)
<1>1. /\ n \in Nat /\ n <= Len(q) /\ DOMAIN s = 1..n
      /\ DOMAIN q = 1..Len(q) /\ Len(q) \in Nat
      /\ DOMAIN r = 1..Len(q) - n
      /\ \A i \in DOMAIN r : i \in Nat /\ r[i] = q[i + n] /\ i + n \in DOMAIN q
      /\ \A i \in 1..n : s[i].by = q[i].by /\ i \in DOMAIN q
  BY DEF Chunk
<1>2. Ordered(q) => Ordered(r)
  <2>0. SUFFICES ASSUME Ordered(q) PROVE Ordered(r)
    OBVIOUS
  <2> SUFFICES ASSUME NEW i \in DOMAIN r, NEW j \in DOMAIN r, i < j
               PROVE  /\ r[i].reply = None => r[j].reply = None
                      /\ r[j].reply < 0 \/ r[j].reply >= r[i].reply
    BY DEF Ordered
  <2>1. /\ i + n < j + n /\ i + n \in DOMAIN q /\ j + n \in DOMAIN q
        /\ r[i] = q[i + n] /\ r[j] = q[j + n]
    BY <1>1
  <2> QED
    BY <2>0, <2>1 DEF Ordered
<1>3. \A v : Recent(q, v) => Recent(r, v)
  BY <1>1 DEF Recent
<1>4. \A v : NoneBefore(q, v) => NoneBefore(r, v)
  BY <1>1 DEF NoneBefore
<1>5. \A u : NoCall(q, u) => NoCall(r, u) /\ NoCall(s, u)
  BY <1>1 DEF NoCall
<1>6. \A u : OneCall(q, u) => OneCall(r, u)
  <2> SUFFICES ASSUME NEW u, OneCall(q, u), NEW i \in DOMAIN r, NEW j \in DOMAIN r,
                      r[i].by = u, r[j].by = u
               PROVE  i = j
    BY DEF OneCall
  <2>1. i + n = j + n
    BY <1>1 DEF OneCall
  <2> QED
    BY <1>1, <2>1
<1> QED
  BY <1>2, <1>3, <1>4, <1>5, <1>6

(* What a load makes of a chunk: its calls go on being a status call with  *)
(* its graph call directly behind it.                                      *)
LEMMA LoadTold ==
  ASSUME NEW s, NEW r, NEW q, NEW n, Chunk(s, r, q, n), NEW w, NEW k, NEW m,
         k.step = "load", Hears(m, k, s, w), k.status \in Nat \cup {None, Failed},
         LoadCalls(q, w, k.status), k.reply = None,
         k.status >= 0 /\ k.reply = None => GraphNext(q, w)
  PROVE  /\ LoadCalls(r, w, m.status)
         /\ m.status = None => m.reply = None
         /\ m.status >= 0 /\ m.reply = None =>
              /\ GraphNext(r, w)
              /\ n > 0 => q[n].by = w /\ q[n].op = "status" /\ m.status = Heard(s[n].reply)
<1>1. /\ n \in Nat /\ n <= Len(q) /\ DOMAIN s = 1..n
      /\ DOMAIN q = 1..Len(q) /\ Len(q) \in Nat
      /\ DOMAIN r = 1..Len(q) - n /\ Len(r) = Len(q) - n
      /\ \A i \in DOMAIN r : i \in Nat /\ r[i] = q[i + n] /\ i + n \in DOMAIN q
      /\ \A i \in 1..n : /\ s[i].by = q[i].by /\ s[i].op = q[i].op /\ i \in DOMAIN q
                         /\ s[i].reply \in Replies
  BY DEF Chunk
<1>2. \A i \in DOMAIN q : q[i].by = w =>
        \/ /\ q[i].op = "status" /\ i + 1 \in DOMAIN q
           /\ q[i + 1].by = w /\ q[i + 1].op = "graph"
        \/ /\ q[i].op = "graph"
           /\ \/ i = 1 /\ k.status # None
              \/ i > 1 /\ q[i - 1].by = w /\ q[i - 1].op = "status"
  BY DEF LoadCalls
<1>3. /\ \/ m.status = k.status /\ \A i : ~IsStatus(s, w, i)
         \/ \E i : IsStatus(s, w, i) /\ m.status = Heard(s[i].reply)
      /\ \/ m.reply = k.reply /\ \A i : ~IsOther(s, w, i)
         \/ \E i : IsOther(s, w, i) /\ m.reply = Heard(s[i].reply)
  BY DEF Hears
<1>4. \A i : IsStatus(s, w, i) => i \in 1..n /\ q[i].by = w /\ q[i].op = "status"
  BY <1>1 DEF IsStatus
<1>5. \A i : IsOther(s, w, i) => i \in 1..n /\ q[i].by = w /\ q[i].op # "status"
  BY <1>1 DEF IsOther
<1>6. \A i : IsStatus(s, w, i) \/ IsOther(s, w, i) => Heard(s[i].reply) # None
  BY <1>1, HeardIs DEF IsStatus, IsOther
<1>7. (k.status # None \/ \E i : IsStatus(s, w, i)) => m.status # None
  BY <1>3, <1>6
<1>8. (\E i : IsOther(s, w, i)) => m.reply # None
  BY <1>3, <1>6
<1>9. ASSUME NEW j \in DOMAIN r, r[j].by = w
      PROVE  \/ /\ r[j].op = "status" /\ j + 1 \in DOMAIN r
                /\ r[j + 1].by = w /\ r[j + 1].op = "graph"
             \/ /\ r[j].op = "graph"
                /\ \/ j = 1 /\ m.status # None
                   \/ j > 1 /\ r[j - 1].by = w /\ r[j - 1].op = "status"
  <2>1. j \in Nat /\ j >= 1 /\ j + n \in DOMAIN q /\ q[j + n].by = w /\ r[j] = q[j + n]
    BY <1>1, <1>9
  <2>2. CASE q[j + n].op = "status" /\ (j + n) + 1 \in DOMAIN q
             /\ q[(j + n) + 1].by = w /\ q[(j + n) + 1].op = "graph"
    <3>1. j + 1 \in DOMAIN r /\ j + 1 + n = (j + n) + 1
      BY <1>1, <2>1, <2>2
    <3>2. r[j + 1] = q[(j + n) + 1]
      BY <1>1, <3>1
    <3> QED
      BY <2>1, <2>2, <3>1, <3>2
  <2>3. CASE q[j + n].op = "graph" /\ j + n = 1 /\ k.status # None
    <3>1. j = 1
      BY <1>1, <2>1, <2>3
    <3> QED
      BY <1>7, <2>1, <2>3, <3>1
  <2>4. CASE /\ q[j + n].op = "graph" /\ j + n > 1
             /\ q[(j + n) - 1].by = w /\ q[(j + n) - 1].op = "status"
    <3>1. CASE j > 1
      <4>1. j - 1 \in DOMAIN r /\ j - 1 + n = (j + n) - 1
        BY <1>1, <2>1, <3>1
      <4>2. r[j - 1] = q[(j + n) - 1]
        BY <1>1, <4>1
      <4> QED
        BY <2>1, <2>4, <3>1, <4>2
    <3>2. CASE j = 1
      <4>1. n \in 1..n /\ (j + n) - 1 = n
        BY <1>1, <2>4, <3>2
      <4>2. IsStatus(s, w, n)
        BY <1>1, <2>4, <4>1 DEF IsStatus
      <4> QED
        BY <1>7, <2>1, <2>4, <3>2, <4>2
    <3> QED
      BY <2>1, <3>1, <3>2
  <2>5. \/ /\ q[j + n].op = "status" /\ (j + n) + 1 \in DOMAIN q
           /\ q[(j + n) + 1].by = w /\ q[(j + n) + 1].op = "graph"
        \/ /\ q[j + n].op = "graph"
           /\ \/ j + n = 1 /\ k.status # None
              \/ j + n > 1 /\ q[(j + n) - 1].by = w /\ q[(j + n) - 1].op = "status"
    BY <1>2, <2>1, Zenon
  <2> QED
    BY <2>2, <2>3, <2>4, <2>5
<1>10. LoadCalls(r, w, m.status)
  BY <1>9 DEF LoadCalls
<1>11. ASSUME m.status = None PROVE m.reply = None
  <2> SUFFICES ASSUME NEW i, IsOther(s, w, i) PROVE FALSE
    BY <1>3
  <2>1. i \in 1..n /\ i \in DOMAIN q /\ q[i].by = w /\ q[i].op # "status"
    BY <1>1, <1>5
  <2>2. k.status = None
    BY <1>7, <1>11
  <2>3. i > 1 /\ q[i - 1].by = w /\ q[i - 1].op = "status"
    BY <1>2, <2>1, <2>2
  <2>4. i - 1 \in 1..n
    BY <1>1, <2>1, <2>3
  <2>5. IsStatus(s, w, i - 1)
    BY <1>1, <2>3, <2>4 DEF IsStatus
  <2> QED
    BY <1>7, <1>11, <2>5
<1>12. ASSUME m.status >= 0, m.reply = None
       PROVE  /\ GraphNext(r, w)
              /\ n > 0 => q[n].by = w /\ q[n].op = "status" /\ m.status = Heard(s[n].reply)
  <2>1. \A i : ~IsOther(s, w, i)
    BY <1>8, <1>12
  <2>2. \A i : IsStatus(s, w, i) => i = n
    <3> SUFFICES ASSUME NEW i, IsStatus(s, w, i), i # n PROVE FALSE
      OBVIOUS
    <3>1. i \in 1..n /\ i \in DOMAIN q /\ q[i].by = w /\ q[i].op = "status"
      BY <1>1, <1>4
    <3>2. q[i + 1].by = w /\ q[i + 1].op = "graph"
      BY <1>2, <3>1
    <3>3. i + 1 \in 1..n
      BY <1>1, <3>1
    <3>4. IsOther(s, w, i + 1)
      BY <1>1, <3>2, <3>3 DEF IsOther
    <3> QED
      BY <2>1, <3>4
  <2>3. CASE IsStatus(s, w, n)
    <3>1. n \in 1..n /\ n \in DOMAIN q /\ q[n].by = w /\ q[n].op = "status"
      BY <1>1, <1>4, <2>3
    <3>2. n + 1 \in DOMAIN q /\ q[n + 1].by = w /\ q[n + 1].op = "graph"
      BY <1>2, <3>1
    <3>3. 1 \in DOMAIN r /\ Len(r) > 0 /\ 1 + n = n + 1
      BY <1>1, <3>2
    <3>4. r[1] = q[n + 1]
      BY <1>1, <3>3
    <3>5. GraphNext(r, w)
      BY <3>2, <3>3, <3>4 DEF GraphNext
    <3>6. m.status = Heard(s[n].reply)
      BY <1>3, <2>2, <2>3
    <3> QED
      BY <3>1, <3>5, <3>6
  <2>4. CASE ~IsStatus(s, w, n)
    <3>1. m.status = k.status
      BY <1>3, <2>2, <2>4
    <3>2. GraphNext(q, w)
      BY <1>12, <3>1
    <3>3. Len(q) > 0 /\ q[1].by = w /\ q[1].op = "graph"
      BY <3>2 DEF GraphNext
    <3>4. n = 0
      <4> SUFFICES ASSUME n > 0 PROVE FALSE
        BY <1>1
      <4>1. IsOther(s, w, 1)
        BY <1>1, <3>3 DEF IsOther
      <4> QED
        BY <2>1, <4>1
    <3>5. 1 \in DOMAIN r /\ 1 + n = 1 /\ Len(r) > 0
      BY <1>1, <3>3, <3>4
    <3>6. r[1] = q[1]
      BY <1>1, <3>5
    <3>7. GraphNext(r, w)
      BY <3>3, <3>5, <3>6 DEF GraphNext
    <3> QED
      BY <3>4, <3>7
  <2> QED
    BY <2>3, <2>4
<1> QED
  BY <1>10, <1>11, <1>12

(* What an analysis makes of a chunk. *)
LEMMA AnalyzeTold ==
  ASSUME NEW s, NEW r, NEW q, NEW n, Chunk(s, r, q, n), NEW u, NEW k, NEW m,
         k.step # "load", Hears(m, k, s, u), k.reply = None, OneCall(q, u)
  PROVE  /\ OneCall(r, u)
         /\ m.reply # None =>
              /\ NoCall(r, u)
              /\ \E i \in 1..n : m.reply = s[i].reply /\ q[i].by = u /\ q[i].op # "status"
<1>1. /\ n \in Nat /\ n <= Len(q) /\ DOMAIN s = 1..n
      /\ DOMAIN q = 1..Len(q) /\ Len(q) \in Nat
      /\ DOMAIN r = 1..Len(q) - n /\ Len(r) = Len(q) - n
      /\ \A i \in DOMAIN r : i \in Nat /\ i > 0 /\ r[i] = q[i + n] /\ i + n \in DOMAIN q
      /\ \A i \in 1..n : s[i].by = q[i].by /\ s[i].op = q[i].op /\ i \in DOMAIN q
  BY DEF Chunk
<1>2. OneCall(r, u)
  BY RestKeeps
<1>3. ASSUME m.reply # None
      PROVE  /\ NoCall(r, u)
             /\ \E i \in 1..n : m.reply = s[i].reply /\ q[i].by = u /\ q[i].op # "status"
  <2>1. PICK i : IsOther(s, u, i) /\ m.reply = s[i].reply
    BY <1>3 DEF Hears
  <2>2. i \in 1..n /\ i \in DOMAIN q /\ q[i].by = u /\ q[i].op # "status"
    BY <1>1, <2>1 DEF IsOther
  <2>3. ASSUME NEW j \in DOMAIN r PROVE r[j].by # u
    <3>1. j + n # i /\ j + n \in DOMAIN q /\ r[j] = q[j + n]
      BY <1>1, <2>2
    <3> QED
      BY <2>2, <3>1 DEF OneCall
  <2> QED
    BY <2>1, <2>2, <2>3 DEF NoCall
<1> QED
  BY <1>2, <1>3

(* Client c's first n answers s reach the tasks; z is the client after that. *)
Delivers(c, s, r, n, z) ==
  /\ Chunk(s, r, clients[c].calls, n) /\ s \in Seq(CallType(Len(tasks)))
  /\ z \in ClientType(Len(tasks)) /\ z.calls = r /\ (z.closed => r = <<>>)
  /\ z.closed = clients[c].closed \/ \A i \in 1..n : s[i].reply < 0
  /\ clients' = [clients EXCEPT ![c] = z]
  /\ tasks' = [t \in Tasks |-> Told(t, s)]
  /\ UNCHANGED <<store, panel, own, lastLoad, spanned>>

(* What every task hears. *)
AllHear(s) ==
  /\ tasks' \in Seq(TaskType(Len(clients'))) /\ Len(tasks') = Len(tasks)
  /\ DOMAIN tasks' = Tasks
  /\ \A t \in Tasks : tasks'[t] \in TaskType(Len(clients)) /\ Hears(tasks'[t], tasks[t], s, t)

(* Each task hears its part of the chunk. *)
LEMMA TasksHear ==
  ASSUME Types, NEW c \in DOMAIN clients, NEW s, NEW r, NEW n, NEW z, Delivers(c, s, r, n, z)
  PROVE  /\ AllHear(s)
         /\ clients' \in Seq(ClientType(Len(tasks))) /\ Len(clients') = Len(clients)
         /\ DOMAIN clients' = DOMAIN clients
         /\ \A d \in DOMAIN clients : clients'[d] = IF d = c THEN z ELSE clients[d]
<1>1. /\ clients \in Seq(ClientType(Len(tasks))) /\ Len(tasks) \in Nat /\ Len(clients) \in Nat
      /\ Tasks = 1..Len(tasks) /\ \A t \in Tasks : tasks[t] \in TaskType(Len(clients))
  BY Basics DEF Types
<1>2. /\ clients' \in Seq(ClientType(Len(tasks))) /\ Len(clients') = Len(clients)
      /\ DOMAIN clients' = DOMAIN clients
      /\ \A d \in DOMAIN clients : clients'[d] = IF d = c THEN z ELSE clients[d]
  <2>1. z \in ClientType(Len(tasks)) /\ clients' = [clients EXCEPT ![c] = z]
    BY DEF Delivers
  <2> QED
    BY <1>1, <2>1, ClientSet
<1>3. s \in Seq(CallType(Len(tasks))) /\ tasks' = [t \in Tasks |-> Told(t, s)]
  BY Zenon DEF Delivers
<1>4. ASSUME NEW t \in Tasks
      PROVE  tasks'[t] \in TaskType(Len(clients)) /\ Hears(tasks'[t], tasks[t], s, t)
  <2>1. PICK m : m = Told(t, s)
    OBVIOUS
  <2>2. tasks'[t] = m
    BY <1>3, <2>1, Zenon
  <2>3. m \in TaskType(Len(clients)) /\ Hears(m, tasks[t], s, t)
    BY <1>1, <1>3, <2>1, ToldIs, Zenon
  <2> QED
    BY <2>2, <2>3
<1>5. tasks' \in Seq(TaskType(Len(clients))) /\ Len(tasks') = Len(tasks) /\ DOMAIN tasks' = Tasks
  <2>1. PICK f : f = [t \in Tasks |-> Told(t, s)]
    OBVIOUS
  <2>2. DOMAIN f = 1..Len(tasks) /\ f = [t \in 1..Len(tasks) |-> f[t]]
    BY <1>1, <2>1
  <2>3. \A t \in 1..Len(tasks) : f[t] \in TaskType(Len(clients))
    BY <1>1, <1>3, <1>4, <2>1
  <2>4. f \in Seq(TaskType(Len(clients))) /\ Len(f) = Len(tasks)
    BY <1>1, <2>2, <2>3
  <2> QED
    BY <1>1, <1>3, <2>1, <2>2, <2>4, Zenon
<1> QED
  BY <1>2, <1>4, <1>5 DEF AllHear

(* Delivering a chunk keeps types, shape and queues. *)
LEMMA DeliveredShape ==
  ASSUME PanelInv, NEW c \in DOMAIN clients, NEW s, NEW r, NEW n, NEW z, Delivers(c, s, r, n, z)
  PROVE  Types' /\ Shape' /\ Queues'
<1>1. /\ Types /\ Shape /\ Queues /\ Len(clients) \in Nat /\ Len(tasks) \in Nat
      /\ Tasks = 1..Len(tasks) /\ DOMAIN clients = 1..Len(clients)
      /\ clients \in Seq(ClientType(Len(tasks)))
  BY Basics DEF PanelInv, Types
<1>2. /\ AllHear(s)
      /\ clients' \in Seq(ClientType(Len(tasks))) /\ Len(clients') = Len(clients)
      /\ DOMAIN clients' = DOMAIN clients
      /\ \A d \in DOMAIN clients : clients'[d] = IF d = c THEN z ELSE clients[d]
  BY <1>1, TasksHear
<1>3. /\ tasks' \in Seq(TaskType(Len(clients'))) /\ Len(tasks') = Len(tasks)
      /\ DOMAIN tasks' = Tasks
      /\ \A t \in Tasks : tasks'[t] \in TaskType(Len(clients)) /\ Hears(tasks'[t], tasks[t], s, t)
  BY <1>2 DEF AllHear
<1>4. UNCHANGED <<store, panel, own, lastLoad, spanned>> /\ z.calls = r /\ (z.closed => r = <<>>)
      /\ Chunk(s, r, clients[c].calls, n)
  BY DEF Delivers
<1>5. Types'
  BY <1>1, <1>2, <1>3, <1>4 DEF Types
<1>6. ASSUME NEW t \in Tasks PROVE TaskShape(t)'
  <2>1. TaskShape(t) /\ Hears(tasks'[t], tasks[t], s, t) /\ tasks'[t] \in TaskType(Len(clients))
    BY <1>1, <1>3 DEF Shape
  <2>2. tasks'[t].step = tasks[t].step /\ tasks'[t].client = tasks[t].client
    BY <2>1 DEF Hears
  <2>3. tasks[t].step = "impact" => tasks'[t].status = tasks[t].status
    BY <2>1 DEF Hears
  <2>4. ASSUME tasks[t].step = "load" PROVE tasks'[t].reply # NotInitialized
    <3>1. CASE tasks'[t].reply = tasks[t].reply
      BY <2>1, <2>4, <3>1 DEF TaskShape
    <3>2. CASE \E i : IsOther(s, t, i) /\ tasks'[t].reply = Heard(s[i].reply)
      BY <1>4, <3>2, HeardIs DEF IsOther, Chunk
    <3> QED
      BY <2>1, <2>4, <3>1, <3>2 DEF Hears
  <2> QED
    BY <1>2, <1>4, <2>1, <2>2, <2>3, <2>4 DEF TaskShape, Open
<1>7. Shape'
  BY <1>1, <1>2, <1>3, <1>4, <1>6 DEF Shape, Open, Tasks
<1>8. ASSUME NEW d \in DOMAIN clients
      PROVE  /\ clients'[d].closed => clients'[d].calls = <<>>
             /\ Ordered(clients'[d].calls)
             /\ Recent(clients'[d].calls, store.version)
             /\ Callers(clients[d].calls, d)'
  <2>1. /\ clients[d].closed => clients[d].calls = <<>>
        /\ Ordered(clients[d].calls) /\ Recent(clients[d].calls, store.version)
        /\ Callers(clients[d].calls, d)
    BY <1>1 DEF Queues, QueuesOf
  <2>2. \A i \in DOMAIN clients[d].calls : clients[d].calls[i].by \in Tasks
    BY <1>1, ClientQueue
  <2>3. \A t \in Tasks : tasks'[t].step = tasks[t].step /\ tasks'[t].client = tasks[t].client
    BY <1>3 DEF Hears
  <2>4. CASE d = c
    <3>1. clients'[d].calls = r /\ clients'[d].closed = z.closed
      BY <1>2, <1>4, <2>4
    <3>2. Ordered(r) /\ Recent(r, store.version)
      BY <1>4, <2>1, <2>4, RestKeeps
    <3>3. \A i \in DOMAIN r : \E j \in DOMAIN clients[c].calls : r[i] = clients[c].calls[j]
      <4> SUFFICES ASSUME NEW i \in DOMAIN r
                   PROVE  \E j \in DOMAIN clients[c].calls : r[i] = clients[c].calls[j]
        OBVIOUS
      <4>1. i + n \in DOMAIN clients[c].calls /\ r[i] = clients[c].calls[i + n]
        BY <1>4 DEF Chunk
      <4> QED
        BY <4>1
    <3>4. Callers(r, c)'
      BY <2>1, <2>2, <2>3, <2>4, <3>3 DEF Callers
    <3> QED
      BY <1>4, <2>4, <3>1, <3>2, <3>4
  <2>5. CASE d # c
    <3>1. clients'[d] = clients[d]
      BY <1>2, <2>5
    <3>2. Callers(clients[d].calls, d)'
      BY <2>1, <2>2, <2>3, <3>1 DEF Callers
    <3> QED
      BY <2>1, <3>1, <3>2
  <2> QED
    BY <2>4, <2>5
<1>9. Queues'
  BY <1>2, <1>4, <1>8 DEF Queues, QueuesOf
<1> QED
  BY <1>5, <1>7, <1>9

(* Tasks of a panel with another client hear nothing. *)
LEMMA DeliveredElsewhere ==
  ASSUME PanelInv, NEW c \in DOMAIN clients, NEW s, NEW r, NEW n, NEW z, Delivers(c, s, r, n, z),
         Open, panel.client # c
  PROVE  PanelOk'
<1>1. /\ Types /\ Shape /\ Queues /\ PanelOk /\ Len(clients) \in Nat /\ Len(tasks) \in Nat
      /\ Tasks = 1..Len(tasks) /\ DOMAIN clients = 1..Len(clients)
      /\ clients \in Seq(ClientType(Len(tasks))) /\ store.version \in Nat /\ own \in Nat
      /\ \A u \in Tasks : tasks[u].reply \in Replies
      /\ panel.client \in DOMAIN clients
  BY Basics DEF PanelInv, Types, Shape
<1>2. /\ AllHear(s)
      /\ \A d \in DOMAIN clients : clients'[d] = IF d = c THEN z ELSE clients[d]
  BY <1>1, TasksHear
<1>3. /\ DOMAIN tasks' = Tasks
      /\ \A t \in Tasks : Hears(tasks'[t], tasks[t], s, t)
  BY <1>2 DEF AllHear
<1>4. UNCHANGED <<store, panel, own, lastLoad, spanned>> /\ Chunk(s, r, clients[c].calls, n)
  BY DEF Delivers
<1>5. clients'[panel.client] = clients[panel.client]
  BY <1>1, <1>2
<1>6. ASSUME NEW u \in Tasks, tasks[u].step \in PanelSteps PROVE tasks'[u] = tasks[u]
  <2>1. tasks[u].client = panel.client
    BY <1>1, <1>6 DEF Shape, TaskShape
  <2>2. Callers(clients[c].calls, c)
    BY <1>1 DEF Queues, QueuesOf
  <2>3. NoCall(clients[c].calls, u)
    BY <1>6, <2>1, <2>2 DEF NoCall, Callers, PanelSteps
  <2>4. NoCall(s, u)
    BY <1>4, <2>3, RestKeeps
  <2> QED
    BY <1>3, <2>4 DEF Hears
<1>7. \A u \in Tasks : tasks'[u].step = tasks[u].step
  BY <1>3 DEF Hears
<1>8. /\ Extends(clients[panel.client].calls, clients[panel.client].calls, 0)
      /\ Replying(clients[panel.client].calls)
  BY <1>1, ClientQueue, ExtendsSelf
<1>9. Asking(0)
  BY <1>1, <1>4, <1>5, <1>8 DEF Asking, PanelQueue
<1>10. Steady(0)
  BY <1>1, <1>3, <1>4, <1>6, <1>7, <1>9 DEF Steady
<1> QED
  BY <1>1, <1>10, PanelSteady

(* A chunk of the panel's own client: the tasks hear it in order. *)
LEMMA DeliveredHere ==
  ASSUME PanelInv, Idle, NEW c \in DOMAIN clients, NEW s, NEW r, NEW n, NEW z,
         Delivers(c, s, r, n, z), Open, panel.client = c
  PROVE  PanelOk'
<1>1. /\ Types /\ Shape /\ Queues /\ PanelOk /\ Len(clients) \in Nat /\ Len(tasks) \in Nat
      /\ Tasks = 1..Len(tasks) /\ DOMAIN clients = 1..Len(clients)
      /\ clients \in Seq(ClientType(Len(tasks))) /\ store.version \in Nat /\ own \in Nat
      /\ \A u \in Tasks : /\ tasks[u].reply \in Replies
                         /\ tasks[u].status \in Nat \cup {None, Failed}
  BY Basics DEF PanelInv, Types
<1>2. /\ AllHear(s)
      /\ \A d \in DOMAIN clients : clients'[d] = IF d = c THEN z ELSE clients[d]
  BY <1>1, TasksHear
<1>3. /\ DOMAIN tasks' = Tasks
      /\ \A t \in Tasks : /\ tasks'[t] \in TaskType(Len(clients))
                         /\ Hears(tasks'[t], tasks[t], s, t)
  BY <1>2 DEF AllHear
<1>4. UNCHANGED <<store, panel, own, lastLoad, spanned>>
  BY DEF Delivers
<1>5. PICK q : q = clients[c].calls
  OBVIOUS
<1>6. /\ Chunk(s, r, q, n) /\ z.calls = r
      /\ z.closed = clients[c].closed \/ \A i \in 1..n : s[i].reply < 0
  BY <1>5 DEF Delivers
<1>7. /\ n \in Nat /\ n <= Len(q) /\ DOMAIN s = 1..n /\ DOMAIN q = 1..Len(q) /\ Len(q) \in Nat
      /\ DOMAIN r = 1..Len(q) - n
      /\ \A i \in DOMAIN r : i + n \in DOMAIN q /\ r[i] = q[i + n] /\ i \in Nat /\ i > 0
      /\ \A i \in 1..n : /\ s[i].by = q[i].by /\ s[i].op = q[i].op /\ i \in DOMAIN q
                         /\ s[i].reply \in Replies /\ s[i].reply # None
                         /\ s[i].reply < 0 \/ s[i].reply = q[i].reply
  BY <1>6 DEF Chunk
<1>8. /\ clients'[panel'.client].calls = r /\ clients'[panel'.client].closed = z.closed
      /\ clients[panel.client].calls = q
  BY <1>1, <1>2, <1>4, <1>5, <1>6
<1>9. /\ (clients[c].closed => q = <<>>) /\ Ordered(q) /\ Recent(q, store.version)
      /\ Replying(q)
  BY <1>1, <1>5, ClientQueue DEF Queues, QueuesOf
<1>10. own <= store.version /\ NoneBefore(q, own) /\ Shown
  BY <1>1, <1>8 DEF PanelOk
<1>11. NoneBefore(r, own)
  BY <1>6, <1>10, RestKeeps
<1>12. \A u \in Tasks : /\ tasks'[u].step = tasks[u].step
                        /\ tasks[u].step = "impact" => tasks'[u].status = tasks[u].status
  BY <1>3 DEF Hears
<1>13. Shown'
  BY <1>3, <1>4, <1>10, <1>12 DEF Shown, Tasks
<1>14. ASSUME NEW w \in Tasks, tasks[w].step = "load"
       PROVE  /\ tasks[w].reply = None /\ tasks[w].status # Failed /\ Beyond(tasks[w], own)
              /\ LoadOk(w) /\ LoadCalls(q, w, tasks[w].status)
              /\ tasks[w].status >= 0 /\ tasks[w].reply = None => GraphNext(q, w)
  <2>1. ~Settled(w) /\ LoadOk(w)
    BY <1>1, <1>14 DEF Idle, PanelOk
  <2>2. tasks[w].status # Failed /\ (tasks[w].status = None \/ tasks[w].reply = None)
    BY <1>14, <2>1, SettledIs
  <2> QED
    BY <1>8, <2>1, <2>2 DEF LoadOk
<1>15. ASSUME NEW w \in Tasks, tasks[w].step = "load"
       PROVE  /\ LoadCalls(r, w, tasks'[w].status)
              /\ tasks'[w].status = None => tasks'[w].reply = None
              /\ tasks'[w].status >= 0 /\ tasks'[w].reply = None =>
                   /\ GraphNext(r, w)
                   /\ n > 0 => /\ q[n].by = w /\ q[n].op = "status"
                               /\ tasks'[w].status = Heard(s[n].reply)
  <2>1. PICK k, m : k = tasks[w] /\ m = tasks'[w]
    OBVIOUS
  <2>2. /\ k.step = "load" /\ Hears(m, k, s, w) /\ k.status \in Nat \cup {None, Failed}
        /\ LoadCalls(q, w, k.status) /\ k.reply = None
        /\ k.status >= 0 /\ k.reply = None => GraphNext(q, w)
    BY <1>1, <1>3, <1>14, <1>15, <2>1
  <2> QED
    BY <1>6, <2>1, <2>2, LoadTold
<1>16. ASSUME NEW w \in Tasks, tasks[w].step = "load" PROVE LoadOk(w)'
  <2>1. \A i \in 1..n : NotBefore(Heard(s[i].reply), own)
    <3> SUFFICES ASSUME NEW i \in 1..n PROVE NotBefore(Heard(s[i].reply), own)
      OBVIOUS
    <3>1. i \in DOMAIN q /\ s[i].reply \in Int /\ (s[i].reply < 0 \/ s[i].reply = q[i].reply)
      BY <1>7, ReplyKinds
    <3>2. s[i].reply < 0 \/ s[i].reply >= own
      BY <1>10, <3>1 DEF NoneBefore, NotBefore
    <3> QED
      BY <3>1, <3>2, Kinds DEF Heard, NotBefore
  <2>2. tasks'[w].status = tasks[w].status \/ \E i \in 1..n : tasks'[w].status = Heard(s[i].reply)
    BY <1>3, <1>7, <1>16 DEF Hears, IsStatus
  <2>3. tasks'[w].reply = tasks[w].reply \/ \E i \in 1..n : tasks'[w].reply = Heard(s[i].reply)
    BY <1>3, <1>7, <1>16 DEF Hears, IsOther
  <2>4. NotBefore(tasks[w].status, own) /\ NotBefore(tasks[w].reply, own)
    BY <1>14, <1>16 DEF Beyond
  <2>5. Beyond(tasks'[w], own)
    BY <2>1, <2>2, <2>3, <2>4 DEF Beyond
  <2> QED
    BY <1>4, <1>8, <1>15, <1>16, <2>5 DEF LoadOk
<1>17. ASSUME NEW u \in Tasks, tasks[u].step = "analyze" PROVE AnalyzeOk(u)'
  <2>1. PICK k, m : k = tasks[u] /\ m = tasks'[u]
    OBVIOUS
  <2>2. OneCall(q, u) /\ k.reply = None /\ k.step # "load" /\ Hears(m, k, s, u)
    <3>1. AnalyzeOk(u) /\ ~Settled(u)
      BY <1>1, <1>17 DEF PanelOk, Idle
    <3>2. tasks[u].reply = None
      BY <1>17, <3>1, SettledIs
    <3> QED
      BY <1>3, <1>8, <1>17, <2>1, <3>1, <3>2 DEF AnalyzeOk
  <2>3. /\ OneCall(r, u)
        /\ m.reply # None =>
             /\ NoCall(r, u)
             /\ \E i \in 1..n : m.reply = s[i].reply /\ q[i].by = u /\ q[i].op # "status"
    BY <1>6, <2>2, AnalyzeTold
  <2>4. ASSUME m.reply >= 0
        PROVE  /\ ~z.closed /\ m.reply <= store.version /\ NoneBefore(r, m.reply)
               /\ \A w \in Tasks : tasks[w].step = "load" =>
                    Settled(w)' \/ Beyond(tasks'[w], m.reply)
    <3>1. m.reply # None
      BY <2>4, Kinds
    <3>2. PICK i \in 1..n : m.reply = s[i].reply /\ q[i].by = u /\ q[i].op # "status"
      BY <2>3, <3>1
    <3>3. /\ m.reply = q[i].reply /\ m.reply \in Nat /\ i \in DOMAIN q /\ i \in Nat /\ i <= n
      BY <1>7, <2>4, <3>2, ReplyKinds, Kinds
    <3>4. ~z.closed
      <4>1. ~clients[c].closed
        BY <1>9, <3>3
      <4>2. ~(\A j \in 1..n : s[j].reply < 0)
        <5>1. ~(s[i].reply < 0)
          BY <3>2, <3>3
        <5> QED
          BY <5>1
      <4> QED
        BY <1>6, <4>1, <4>2
    <3>5. m.reply <= store.version
      BY <1>9, <3>3 DEF Recent
    <3>6. \A j \in DOMAIN q : i < j => q[j].reply < 0 \/ q[j].reply >= m.reply
      BY <1>9, <3>3 DEF Ordered
    <3>7. NoneBefore(r, m.reply)
      <4> SUFFICES ASSUME NEW j \in DOMAIN r PROVE r[j].reply < 0 \/ r[j].reply >= m.reply
        BY DEF NoneBefore, NotBefore
      <4>1. i < j + n /\ j + n \in DOMAIN q /\ r[j] = q[j + n]
        BY <1>7, <3>3
      <4> QED
        BY <3>6, <4>1
    <3>8. ASSUME NEW w \in Tasks, tasks[w].step = "load", ~(Settled(w)')
          PROVE  Beyond(tasks'[w], m.reply)
      <4>1. /\ tasks'[w].status # Failed
            /\ tasks'[w].status = None \/ tasks'[w].reply = None
        BY <1>12, <3>8 DEF Settled
      <4>2. tasks'[w].status \in Nat \cup {None, Failed}
        BY <1>3 DEF TaskType
      <4>3. CASE tasks'[w].status = None
        <5>1. tasks'[w].reply = None
          BY <1>15, <3>8, <4>3
        <5> QED
          BY <4>3, <5>1, Kinds DEF Beyond, NotBefore
      <4>4. CASE tasks'[w].status >= 0
        <5>1. tasks'[w].reply = None
          BY <4>1, <4>4, Kinds
        <5>2. q[n].by = w /\ q[n].op = "status" /\ tasks'[w].status = Heard(s[n].reply)
          BY <1>7, <1>15, <3>3, <3>8, <4>4, <5>1
        <5>3. i # n
          BY <3>2, <5>2
        <5>4. n \in DOMAIN q /\ n \in 1..n /\ i < n
          BY <1>7, <3>3, <5>3
        <5>5. s[n].reply >= 0 /\ tasks'[w].status = s[n].reply
          BY <1>7, <4>4, <5>2, <5>4, ReplyKinds, Kinds DEF Heard
        <5>6. s[n].reply = q[n].reply /\ s[n].reply \in Int
          BY <1>7, <5>4, <5>5, ReplyKinds
        <5>7. tasks'[w].status >= m.reply
          BY <3>3, <3>6, <5>4, <5>5, <5>6
        <5> QED
          BY <5>1, <5>7, Kinds DEF Beyond, NotBefore
      <4> QED
        BY <4>1, <4>2, <4>3, <4>4
    <3> QED
      BY <3>4, <3>5, <3>7, <3>8
  <2> QED
    BY <1>3, <1>4, <1>8, <1>12, <2>1, <2>3, <2>4 DEF AnalyzeOk, Tasks
<1> QED
  BY <1>3, <1>4, <1>8, <1>10, <1>11, <1>12, <1>13, <1>16, <1>17 DEF PanelOk, Tasks

(* Delivering a chunk keeps PanelInv. *)
LEMMA DeliveredStep ==
  ASSUME PanelInv, Idle, NEW c \in DOMAIN clients, NEW s, NEW r, NEW n, NEW z,
         Delivers(c, s, r, n, z)
  PROVE  PanelInv'
<1>1. Types' /\ Shape' /\ Queues'
  BY DeliveredShape
<1>2. ~Open => PanelOk'
  BY DEF Delivers, PanelOk, Open
<1>3. Open => PanelOk'
  BY DeliveredHere, DeliveredElsewhere
<1> QED
  BY <1>1, <1>2, <1>3 DEF PanelInv

Parts(s, r, q, n, S) ==
  /\ s \in Seq(S) /\ r \in Seq(S) /\ DOMAIN s = 1..n
  /\ Len(r) = Len(q) - n /\ DOMAIN r = 1..Len(q) - n
  /\ \A i \in 1..n : s[i] = q[i]
  /\ \A i \in 1..Len(q) - n : r[i] = q[i + n]

(* SubSeq cuts a queue in a chunk and its rest. *)
LEMMA PartsOfQueue ==
  ASSUME NEW S, NEW q, q \in Seq(S), NEW n, n \in 1..Len(q),
         NEW s, s = SubSeq(q, 1, n), NEW r, r = SubSeq(q, n + 1, Len(q))
  PROVE  Parts(s, r, q, n, S)
<1>1. /\ Len(q) \in Nat /\ n \in Nat /\ n <= Len(q) /\ 1 \in Int /\ n \in Int /\ n + 1 \in Int
      /\ Len(q) \in Int /\ n >= 1
  OBVIOUS
<1>2. (\A i \in 1..n : q[i] \in S) /\ (\A i \in n + 1..Len(q) : q[i] \in S)
  BY <1>1
<1>3. /\ s \in Seq(S) /\ Len(s) = (IF 1 <= n THEN n - 1 + 1 ELSE 0)
      /\ \A i \in 1..n - 1 + 1 : s[i] = q[1 + i - 1]
  <2>1. /\ SubSeq(q, 1, n) \in Seq(S) /\ Len(SubSeq(q, 1, n)) = (IF 1 <= n THEN n - 1 + 1 ELSE 0)
        /\ \A i \in 1..n - 1 + 1 : SubSeq(q, 1, n)[i] = q[1 + i - 1]
    BY <1>1, <1>2, SubSeqProperties
  <2> QED
    BY <2>1, Zenon
<1>4. /\ r \in Seq(S) /\ Len(r) = (IF n + 1 <= Len(q) THEN Len(q) - (n + 1) + 1 ELSE 0)
      /\ \A i \in 1..Len(q) - (n + 1) + 1 : r[i] = q[n + 1 + i - 1]
  <2>1. /\ SubSeq(q, n + 1, Len(q)) \in Seq(S)
        /\ Len(SubSeq(q, n + 1, Len(q))) = (IF n + 1 <= Len(q) THEN Len(q) - (n + 1) + 1 ELSE 0)
        /\ \A i \in 1..Len(q) - (n + 1) + 1 : SubSeq(q, n + 1, Len(q))[i] = q[n + 1 + i - 1]
    BY <1>1, <1>2, SubSeqProperties
  <2> QED
    BY <2>1, Zenon
<1>5. Len(s) = n /\ DOMAIN s = 1..n /\ \A i \in 1..n : s[i] = q[i]
  BY <1>1, <1>3
<1>6. Len(r) = Len(q) - n /\ DOMAIN r = 1..Len(q) - n
  BY <1>1, <1>4
<1>7. ASSUME NEW i \in 1..Len(q) - n PROVE r[i] = q[i + n]
  <2>1. i \in 1..Len(q) - (n + 1) + 1 /\ n + 1 + i - 1 = i + n
    BY <1>1
  <2> QED
    BY <1>4, <2>1
<1> QED
  BY <1>3, <1>4, <1>5, <1>6, <1>7 DEF Parts

(* Data arrives. *)
LEMMA DataStep ==
  ASSUME PanelInv, NEW c \in DOMAIN clients, Data(c)
  PROVE  PanelInv'
<1>1. /\ Types /\ Queues /\ Len(tasks) \in Nat
      /\ clients \in Seq(ClientType(Len(tasks)))
  BY Basics DEF PanelInv, Types
<1>2. PICK q : q = clients[c].calls
  OBVIOUS
<1>3. PICK n \in DOMAIN q :
        /\ 1..n \cap Unanswered(c) = {}
        /\ tasks' = [t \in Tasks |-> Told(t, SubSeq(q, 1, n))]
        /\ clients' = [clients EXCEPT ![c].calls = SubSeq(@, n + 1, Len(@))]
  BY <1>2, Zenon DEF Data
<1>4. Idle /\ UNCHANGED <<store, panel, own, lastLoad, spanned>>
  BY DEF Data
<1>5. /\ q \in Seq(CallType(Len(tasks))) /\ clients[c] \in ClientType(Len(tasks))
      /\ DOMAIN q = 1..Len(q) /\ Len(q) \in Nat
      /\ \A i \in DOMAIN q : q[i].reply \in Replies
  BY <1>1, <1>2, ClientQueue
<1>6. PICK s, r : s = SubSeq(q, 1, n) /\ r = SubSeq(q, n + 1, Len(q))
  OBVIOUS
<1>7. n \in 1..Len(q) /\ n \in Nat /\ n <= Len(q)
  BY <1>5
<1>8. Parts(s, r, q, n, CallType(Len(tasks)))
  BY <1>5, <1>6, <1>7, PartsOfQueue, Zenon
<1>9. \A i \in 1..n : i \in DOMAIN q /\ q[i].reply # None
  BY <1>2, <1>3, <1>5, <1>7 DEF Unanswered
<1>10. Chunk(s, r, q, n)
  BY <1>5, <1>7, <1>8, <1>9 DEF Chunk, Parts
<1>11. PICK z : z = [clients[c] EXCEPT !.calls = r]
  OBVIOUS
<1>12. z \in ClientType(Len(tasks)) /\ z.calls = r /\ z.closed = clients[c].closed
  BY <1>5, <1>8, <1>11 DEF ClientType, Parts
<1>13. clients' = [clients EXCEPT ![c] = z]
  BY <1>2, <1>3, <1>6, <1>11, Zenon
<1>14. ~clients[c].closed
  <2>1. clients[c].closed => q = <<>>
    BY <1>1, <1>2 DEF Queues, QueuesOf
  <2> QED
    BY <1>5, <1>7, <2>1
<1>15. Delivers(c, s, r, n, z)
  <2>1. tasks' = [t \in Tasks |-> Told(t, s)]
    BY <1>3, <1>6, Zenon
  <2>2. s \in Seq(CallType(Len(tasks)))
    BY <1>8, Zenon DEF Parts
  <2>3. z.closed => r = <<>>
    BY <1>12, <1>14
  <2> QED
    BY <1>2, <1>4, <1>10, <1>12, <1>13, <2>1, <2>2, <2>3, Zenon DEF Delivers
<1> QED
  BY <1>4, <1>15, DeliveredStep

(* A dead process answers its whole queue, with an error. *)
LEMMA RejectedIs ==
  ASSUME NEW m, NEW q, q \in Seq(CallType(m)), NEW s, s = RejectAll(q)
  PROVE  s \in Seq(CallType(m)) /\ Chunk(s, <<>>, q, Len(q)) /\ \A i \in 1..Len(q) : s[i].reply < 0
<1>1. Len(q) \in Nat /\ DOMAIN q = 1..Len(q) /\ \A i \in 1..Len(q) : q[i] \in CallType(m)
  OBVIOUS
<1>2. DOMAIN s = 1..Len(q) /\ \A i \in 1..Len(q) : s[i] = [q[i] EXCEPT !.reply = Failed]
  BY <1>1 DEF RejectAll
<1>3. \A i \in 1..Len(q) : /\ s[i] \in CallType(m) /\ s[i].by = q[i].by /\ s[i].op = q[i].op
                           /\ s[i].reply = Failed
  BY <1>1, <1>2 DEF CallType, Replies
<1>4. s = [i \in 1..Len(q) |-> s[i]]
  BY <1>1 DEF RejectAll
<1>5. s \in Seq(CallType(m))
  BY <1>1, <1>3, <1>4
<1>6. Len(<<>>) = 0 /\ DOMAIN <<>> = 1..0
  OBVIOUS
<1>7. Len(q) - Len(q) = 0 /\ Len(q) <= Len(q)
  BY <1>1
<1>8. Failed \in Replies /\ Failed # None /\ Failed < 0
  BY Kinds DEF Replies
<1>9. Chunk(s, <<>>, q, Len(q))
  BY <1>1, <1>2, <1>3, <1>6, <1>7, <1>8 DEF Chunk
<1> QED
  BY <1>3, <1>5, <1>8, <1>9

(* A process is gone. *)
LEMMA ProcessCloseStep ==
  ASSUME PanelInv, NEW c \in DOMAIN clients, ProcessClose(c)
  PROVE  PanelInv'
<1>1. clients \in Seq(ClientType(Len(tasks))) /\ Len(tasks) \in Nat
  BY Basics DEF PanelInv, Types
<1>2. PICK q, s, z : /\ q = clients[c].calls /\ s = RejectAll(q)
                     /\ z = [closed |-> TRUE, calls |-> <<>>]
  OBVIOUS
<1>3. q \in Seq(CallType(Len(tasks)))
  BY <1>1, <1>2, ClientQueue
<1>4. /\ s \in Seq(CallType(Len(tasks))) /\ Chunk(s, <<>>, q, Len(q))
      /\ \A i \in 1..Len(q) : s[i].reply < 0
  BY <1>2, <1>3, RejectedIs, Zenon
<1>5. z \in ClientType(Len(tasks)) /\ z.calls = <<>>
  BY <1>2 DEF ClientType
<1>6. /\ Idle /\ tasks' = [t \in Tasks |-> Told(t, s)]
      /\ clients' = [clients EXCEPT ![c] = z]
      /\ UNCHANGED <<store, panel, own, lastLoad, spanned>>
  BY <1>2, Zenon DEF ProcessClose
<1>7. Delivers(c, s, <<>>, Len(q), z)
  BY <1>2, <1>4, <1>5, <1>6, Zenon DEF Delivers
<1> QED
  BY <1>6, <1>7, DeliveredStep

(* Nothing happens. *)
LEMMA StutterStep ==
  ASSUME PanelInv, UNCHANGED vars
  PROVE  PanelInv'
<1>1. /\ clients' = clients /\ store' = store /\ panel' = panel /\ tasks' = tasks
      /\ own' = own /\ lastLoad' = lastLoad /\ spanned' = spanned
  BY DEF vars
<1>2. Types'
  BY <1>1 DEF PanelInv, Types
<1>3. Shape'
  BY <1>1 DEF PanelInv, Shape, TaskShape, Open, Tasks
<1>4. Queues'
  BY <1>1 DEF PanelInv, Queues, QueuesOf, Callers
<1>5. PanelOk'
  BY <1>1 DEF PanelInv, PanelOk, Open, Tasks, Shown, AnalyzeOk, LoadOk, Pending, Settled, Beyond
<1> QED
  BY <1>2, <1>3, <1>4, <1>5 DEF PanelInv

(* Every step keeps PanelInv. *)
LEMMA NextStep == PanelInv /\ [Next]_vars => PanelInv'
<1> SUFFICES ASSUME PanelInv, [Next]_vars PROVE PanelInv'
  OBVIOUS
<1>1. CASE System
  <2>1. ASSUME NEW t \in Tasks, Resume(t) PROVE PanelInv'
    BY <2>1, ResumeLoadStep, ResumeAnalyzeStep, ResumeImpactStep, ResumeCommandStep DEF Resume
  <2>2. ASSUME NEW c \in DOMAIN clients, Serve(c) \/ Data(c) PROVE PanelInv'
    BY <2>2, ServeStep, DataStep
  <2> QED
    BY <1>1, <2>1, <2>2 DEF System
<1>2. CASE Show \/ AnalyzeCommand \/ ImpactCommand
  BY <1>2, ShowStep, AnalyzeCommandStep, ImpactCommandStep
<1>3. CASE HandleMessage \/ ClosePanel \/ Elsewhere
  BY <1>3, HandleMessageStep, ClosePanelStep, ElsewhereStep
<1>4. CASE \E b \in Buttons : Click(b)
  BY <1>4, ClickStep
<1>5. CASE \E t \in Tasks : RefsEntered(t) \/ Dismiss(t) \/ AcceptInit(t)
  BY <1>5, RefsEnteredStep, DismissStep, AcceptInitStep
<1>6. CASE \E c \in DOMAIN clients : ProcessClose(c)
  BY <1>6, ProcessCloseStep
<1>7. CASE UNCHANGED vars
  BY <1>7, StutterStep
<1> QED
  BY <1>1, <1>2, <1>3, <1>4, <1>5, <1>6, <1>7 DEF Next

(* The invariant of the panel: whatever tasks overlap and whichever answers *)
(* arrive together, the queue of its client is in the order of the snapshots *)
(* and each load and analysis is in step with it (panel.ts, rpc.ts:254-303). *)
THEOREM PanelInvariant == Spec => []PanelInv
<1>1. Init => PanelInv
  BY InitStep
<1>2. PanelInv /\ [Next]_vars => PanelInv'
  BY NextStep
<1> QED
  BY <1>1, <1>2, PTL DEF Spec

(* The type invariant, with a status under every ready page: _handleMessage *)
(* never finds its cached status missing (panel.ts:150-176).               *)
THEOREM PanelTypes == Spec => []TypeOK
<1>1. PanelInv => TypeOK
  BY TypesIsTypeOK DEF PanelInv
<1> QED
  BY <1>1, PanelInvariant, PTL

(* A quiet panel has no load under way, and shows what it should. *)
LEMMA QuietShown ==
  PanelInv /\ panel.page = "ready" /\ Quiet =>
    Shown /\ \A t \in Tasks : tasks[t].step # "load"
BY DEF PanelInv, PanelOk, Open, Quiet, PanelSteps

(* A quiet panel shows a graph at least as new as its own last analyze, or *)
(* was told that fetching it failed (panel.ts:157), for any number of loads, *)
(* analyses and impact queries that overlap.                               *)
THEOREM OwnAnalyzeIsShown == Spec => []OwnAnalyzeShown
<1>1. PanelInv => OwnAnalyzeShown
  BY QuietShown DEF OwnAnalyzeShown, Shown
<1> QED
  BY <1>1, PanelInvariant, PTL

(* The status a quiet panel shows is at least as new as its own last analyze *)
(* but where an impact query overlapped the load and wrote the old one back *)
(* (panel.ts:170-172), or where the load failed.                           *)
THEOREM StatusLags == Spec => []StatusLagsOnlyByImpact
<1>1. PanelInv => StatusLagsOnlyByImpact
  BY QuietShown DEF StatusLagsOnlyByImpact, Shown
<1> QED
  BY <1>1, PanelInvariant, PTL
=============================================================================
