--------------------------- MODULE ExtensionPanel ---------------------------
(***************************************************************************)
(* The VS Code extension above its RPC client: the commands, the client of *)
(* the workspace folder, and the one panel with its cached status and      *)
(* graph (extension/src/extension.ts, panel.ts and the buttons of          *)
(* webview.ts).  Of the client it uses what RpcCalls promises: answers in  *)
(* the order of the calls, each its own; all that wait rejected when the   *)
(* process is gone; calls on a closed client rejected at once.             *)
(*                                                                         *)
(* JavaScript runs one async function at a time, up to its next await.  A  *)
(* task is such a function; a chunk of data may settle several calls, and  *)
(* then every task that can go on does so before the next event (Resume).  *)
(***************************************************************************)
EXTENDS Integers, SequencesExt

CONSTANTS MaxClients,    \* bound: client processes started
          MaxTasks,      \* bound: commands given and buttons clicked
          MaxCommands,   \* bound: a command is one of the first so many of them
          MaxElsewhere   \* bound: analyses made by other programs

ASSUME PanelBounds == {MaxClients, MaxTasks, MaxCommands, MaxElsewhere} \subseteq Nat

VARIABLES clients,    \* the clients in the order they were made; the map holds the last one
          store,      \* the database: initialised?, and the newest snapshot's number or 0
          panel,      \* RepoFlarePanel._current, its page and its caches
          tasks,      \* the async functions started, in that order
          own,        \* history: the newest snapshot an analyze of this panel has stored
          lastLoad,   \* history: what the panel's last finished load brought
          spanned     \* history: an impact query was under way when that load finished

vars == <<clients, store, panel, tasks, own, lastLoad, spanned>>

(* A reply is the number of the snapshot it is about, or one of these. *)
None == -1
Failed == -2
NotInitialized == -3

NewClient == [closed |-> FALSE, calls |-> <<>>]
NoPanel == [client |-> 0, page |-> "none", status |-> None, graph |-> None,
            buttons |-> {}, inbox |-> <<>>]
Done == [step |-> "done", client |-> 0, status |-> None, reply |-> None]

Buttons == {"analyze", "impact"}
PanelSteps == {"load", "analyze", "impact"}
Operations == {"status", "graph", "analyze", "impact", "init"}

Open == panel.page # "none"
Tasks == DOMAIN tasks

Init ==
  /\ clients = <<>>
  /\ store \in [initialised : BOOLEAN, version : {0}]
  /\ panel = NoPanel
  /\ tasks = <<>>
  /\ own = 0
  /\ lastLoad = "none"
  /\ spanned = FALSE

-----------------------------------------------------------------------------
(* Which tasks can go on, and which of them does so first.  A promise that *)
(* is awaited itself (rank 1) continues before one that went through       *)
(* Promise.all after a rejection (2) or through catch and Promise.all (3). *)

Settled(t) ==
  LET k == tasks[t]
  IN CASE k.step = "load" -> k.status = Failed \/ (k.status # None /\ k.reply # None)
       [] k.step \in {"analyze", "impact", "command", "init"} -> k.reply # None
       [] OTHER -> FALSE

Rank(t) == IF tasks[t].step # "load" THEN 1 ELSE IF tasks[t].status = Failed THEN 2 ELSE 3

Idle == \A t \in Tasks : ~Settled(t)

First(t) ==
  /\ Settled(t)
  /\ \A u \in Tasks : Settled(u) => Rank(t) < Rank(u) \/ (Rank(t) = Rank(u) /\ t <= u)

(* A call by task t on client c of cs; a closed client refuses it. *)
Ask(cs, c, ops, t) ==
  IF cs[c].closed THEN cs
  ELSE [cs EXCEPT ![c].calls =
         @ \o [i \in DOMAIN ops |-> [op |-> ops[i], by |-> t, reply |-> None]]]

(* A task that awaits one call on c. *)
Awaiting(step, cs, c, keep) ==
  [step |-> step, client |-> c, status |-> keep,
   reply |-> IF cs[c].closed THEN Failed ELSE None]

(* _load: the status always, the graph unless one is cached. *)
LoadOps(graph) == IF graph = None THEN <<"status", "graph">> ELSE <<"status">>

Loading(cs, c, graph) ==
  [step |-> "load", client |-> c, reply |-> graph,
   status |-> IF cs[c].closed THEN Failed ELSE None]

-----------------------------------------------------------------------------
(* Commands. *)

(* The folder's client, replaced if its process is known to be gone. *)
GetOrCreateClient ==
  IF clients # <<>> /\ ~Last(clients).closed THEN clients ELSE Append(clients, NewClient)

MayStart ==
  /\ Idle
  /\ Len(tasks) + Len(panel.inbox) < MaxCommands
  /\ Len(GetOrCreateClient) <= MaxClients

(* RepoFlarePanel.show and showGraph, by a task t that holds client c. *)
NewPanel(cs, c, t) ==
  /\ panel' = [NoPanel EXCEPT !.client = c, !.page = "loading"]
  /\ clients' = Ask(cs, c, LoadOps(None), t)
  /\ own' = 0
  /\ lastLoad' = "none"
  /\ spanned' = FALSE
  /\ UNCHANGED store

Show ==
  /\ MayStart
  /\ IF Open
     THEN /\ clients' = GetOrCreateClient
          /\ UNCHANGED <<store, panel, tasks, own, lastLoad, spanned>>
     ELSE LET cs == GetOrCreateClient IN
          /\ tasks' = Append(tasks, Loading(cs, Len(cs), None))
          /\ NewPanel(cs, Len(cs), Len(tasks'))

(* The analyze command: it stores a snapshot and leaves the panel alone. *)
AnalyzeCommand ==
  /\ MayStart
  /\ LET cs == GetOrCreateClient IN
     /\ tasks' = Append(tasks, Awaiting("command", cs, Len(cs), None))
     /\ clients' = Ask(cs, Len(cs), <<"analyze">>, Len(tasks'))
  /\ UNCHANGED <<store, panel, own, lastLoad, spanned>>

(* The impact command takes its client first and then asks for two refs. *)
ImpactCommand ==
  /\ MayStart
  /\ clients' = GetOrCreateClient
  /\ tasks' = Append(tasks, [Done EXCEPT !.step = "boxes", !.client = Len(clients')])
  /\ UNCHANGED <<store, panel, own, lastLoad, spanned>>

RefsEntered(t) ==
  /\ Idle
  /\ tasks[t].step = "boxes"
  /\ IF Open
     THEN /\ tasks' = [tasks EXCEPT ![t] = Done]
          /\ UNCHANGED <<clients, store, panel, own, lastLoad, spanned>>
     ELSE /\ tasks' = [tasks EXCEPT ![t] = Loading(clients, tasks[t].client, None)]
          /\ NewPanel(clients, tasks[t].client, t)

(* A prompt is dismissed: the input boxes, or the offer to run init. *)
Dismiss(t) ==
  /\ Idle
  /\ tasks[t].step \in {"boxes", "asked"}
  /\ tasks' = [tasks EXCEPT ![t] = Done]
  /\ UNCHANGED <<clients, store, panel, own, lastLoad, spanned>>

(* runInit, with the client the command has held all along. *)
AcceptInit(t) ==
  /\ Idle
  /\ tasks[t].step = "asked"
  /\ LET c == tasks[t].client IN
     /\ tasks' = [tasks EXCEPT ![t] = Awaiting("init", clients, c, None)]
     /\ clients' = Ask(clients, c, <<"init">>, t)
  /\ UNCHANGED <<store, panel, own, lastLoad, spanned>>

-----------------------------------------------------------------------------
(* The page.  Only a ready page has buttons, each good for one click; the  *)
(* message it posts may arrive when the page has been replaced.            *)

Click(b) ==
  /\ Idle
  /\ Len(tasks) + Len(panel.inbox) < MaxTasks
  /\ b \in panel.buttons
  /\ panel' = [panel EXCEPT !.buttons = @ \ {b}, !.inbox = Append(@, b)]
  /\ UNCHANGED <<clients, store, tasks, own, lastLoad, spanned>>

ShowLoading(p) == [p EXCEPT !.page = "loading", !.buttons = {}]

ShowError(p) == [p EXCEPT !.page = "error", !.buttons = {}]

ShowReady(p) == [p EXCEPT !.page = "ready", !.buttons = Buttons]

(* _handleMessage up to its first await.  There has been a ready page, so  *)
(* the impact query always finds a cached status to start from.            *)
HandleMessage ==
  /\ Idle
  /\ panel.inbox # <<>>
  /\ LET b == Head(panel.inbox)
         keep == IF b = "impact" THEN panel.status ELSE None
     IN /\ tasks' = Append(tasks, Awaiting(b, clients, panel.client, keep))
        /\ clients' = Ask(clients, panel.client, <<b>>, Len(tasks'))
  /\ panel' = [ShowLoading(panel) EXCEPT !.inbox = Tail(@)]
  /\ UNCHANGED <<store, own, lastLoad, spanned>>

(* The user closes the panel.  What its tasks still do touches only the    *)
(* object that is gone: setting the page of a disposed webview throws.     *)
ClosePanel ==
  /\ Idle
  /\ Open
  /\ panel' = NoPanel
  /\ tasks' = [t \in Tasks |-> IF tasks[t].step \in PanelSteps THEN Done ELSE tasks[t]]
  /\ own' = 0
  /\ lastLoad' = "none"
  /\ spanned' = FALSE
  /\ UNCHANGED <<clients, store>>

-----------------------------------------------------------------------------
(* The continuations. *)

LoadShown_ErrorCachedBug(p, k) == ShowReady([p EXCEPT !.status = k.status, !.graph = k.reply])

LoadShown_StatusKeptBug(p, k) ==
  ShowReady([p EXCEPT !.status = IF @ = None THEN k.status ELSE @,
                      !.graph = IF k.reply = Failed THEN @ ELSE k.reply])

(* The end of _load: the caches and the page; a graph that could not be    *)
(* fetched leaves the cached one.                                          *)
LoadShown(p, k) ==
  ShowReady([p EXCEPT !.status = k.status,
                      !.graph = IF k.reply = Failed THEN @ ELSE k.reply])

ResumeLoad(t) ==
  /\ First(t)
  /\ tasks[t].step = "load"
  /\ panel' = IF tasks[t].status = Failed THEN ShowError(panel) ELSE LoadShown(panel, tasks[t])
  /\ lastLoad' = IF tasks[t].status = Failed THEN "failed"
                 ELSE IF tasks[t].reply = Failed THEN "nograph" ELSE "full"
  /\ spanned' = \E u \in Tasks : tasks[u].step = "impact"
  /\ tasks' = [tasks EXCEPT ![t] = Done]
  /\ UNCHANGED <<clients, store, own>>

AfterAnalyze_KeptBug(p) == ShowLoading(p)

(* The graph cache is emptied, and _load replaces the page. *)
AfterAnalyze(p) == ShowLoading([p EXCEPT !.graph = None])

MessageFailed_StillLoadingBug(p) == p

MessageFailed(p) == ShowError(p)

ResumeAnalyze(t) ==
  /\ First(t)
  /\ tasks[t].step = "analyze"
  /\ IF tasks[t].reply < 0
     THEN /\ panel' = MessageFailed(panel)
          /\ tasks' = [tasks EXCEPT ![t] = Done]
          /\ UNCHANGED <<clients, own>>
     ELSE /\ panel' = AfterAnalyze(panel)
          /\ tasks' = [tasks EXCEPT ![t] = Loading(clients, panel.client, panel'.graph)]
          /\ clients' = Ask(clients, panel.client, LoadOps(panel'.graph), t)
          /\ own' = tasks[t].reply
  /\ UNCHANGED <<store, lastLoad, spanned>>

(* The status from before the query is written back and shown. *)
ResumeImpact(t) ==
  /\ First(t)
  /\ tasks[t].step = "impact"
  /\ panel' = IF tasks[t].reply < 0 THEN MessageFailed(panel)
              ELSE ShowReady([panel EXCEPT !.status = tasks[t].status])
  /\ tasks' = [tasks EXCEPT ![t] = Done]
  /\ UNCHANGED <<clients, store, own, lastLoad, spanned>>

(* withClient: where the repository is not initialised, init is offered.   *)
(* (Its offer to analyse is for an error no command's own call can get.)   *)
ResumeCommand(t) ==
  /\ First(t)
  /\ tasks[t].step \in {"command", "init"}
  /\ tasks' = [tasks EXCEPT ![t] =
                 IF @.step = "command" /\ @.reply = NotInitialized
                 THEN [Done EXCEPT !.step = "asked", !.client = tasks[t].client]
                 ELSE Done]
  /\ UNCHANGED <<clients, store, panel, own, lastLoad, spanned>>

Resume(t) == ResumeLoad(t) \/ ResumeAnalyze(t) \/ ResumeImpact(t) \/ ResumeCommand(t)

-----------------------------------------------------------------------------
(* The server and the client's events, as RpcCalls promises them. *)

Unanswered(c) == {i \in DOMAIN clients[c].calls : clients[c].calls[i].reply = None}

(* What the server answers, given the database; any operation may also     *)
(* fail: the database in use elsewhere, git, a repository that is gone.    *)
Answers(op) ==
  {Failed} \cup
  IF op = "init" THEN {store.version}
  ELSE IF ~store.initialised THEN {NotInitialized}
  ELSE IF op = "analyze" THEN {store.version + 1}
  ELSE IF op \in {"graph", "impact"} /\ store.version = 0 THEN {}
  ELSE {store.version}

Serve(c) ==
  /\ Idle
  /\ ~clients[c].closed
  /\ Unanswered(c) # {}
  /\ LET i == Min(Unanswered(c))
         op == clients[c].calls[i].op
     IN \E r \in Answers(op) :
          /\ clients' = [clients EXCEPT ![c].calls[i].reply = r]
          /\ store' = CASE op = "init" /\ r >= 0 -> [store EXCEPT !.initialised = TRUE]
                        [] op = "analyze" /\ r >= 0 -> [store EXCEPT !.version = r]
                        [] OTHER -> store
  /\ UNCHANGED <<panel, tasks, own, lastLoad, spanned>>

(* A task is given the replies to its own calls in `answered`. *)
Told(t, answered) ==
  LET k == tasks[t]
      to(op) == {answered[i].reply : i \in {j \in DOMAIN answered :
                   answered[j].by = t /\ answered[j].op = op}}
      status == to("status")
      other == UNION {to(op) : op \in Operations \ {"status"}}
  IN CASE k.step = "load" ->
            [k EXCEPT !.status = IF status = {} THEN @
                                 ELSE LET r == CHOOSE r \in status : TRUE
                                      IN IF r < 0 THEN Failed ELSE r,
                      !.reply = IF other = {} THEN @
                                ELSE LET r == CHOOSE r \in other : TRUE
                                     IN IF r < 0 THEN Failed ELSE r]
       [] k.step = "done" -> k
       [] OTHER -> [k EXCEPT !.reply = IF other = {} THEN @ ELSE CHOOSE r \in other : TRUE]

(* One chunk of data with the next n answers. *)
Data(c) ==
  /\ Idle
  /\ \E n \in DOMAIN clients[c].calls :
       /\ 1..n \cap Unanswered(c) = {}
       /\ tasks' = [t \in Tasks |-> Told(t, SubSeq(clients[c].calls, 1, n))]
       /\ clients' = [clients EXCEPT ![c].calls = SubSeq(@, n + 1, Len(@))]
  /\ UNCHANGED <<store, panel, own, lastLoad, spanned>>

(* Every call that waits is answered with the error. *)
RejectAll(calls) == [i \in DOMAIN calls |-> [calls[i] EXCEPT !.reply = Failed]]

(* The process failed to start or is gone, and its output has been read. *)
ProcessClose(c) ==
  /\ Idle
  /\ ~clients[c].closed
  /\ DOMAIN clients[c].calls \subseteq Unanswered(c)
  /\ tasks' = [t \in Tasks |-> Told(t, RejectAll(clients[c].calls))]
  /\ clients' = [clients EXCEPT ![c] = [closed |-> TRUE, calls |-> <<>>]]
  /\ UNCHANGED <<store, panel, own, lastLoad, spanned>>

(* The command line initialises or analyses the same repository. *)
Elsewhere ==
  /\ Idle
  /\ store.version < MaxElsewhere
  /\ store' = [initialised |-> TRUE, version |-> IF store.initialised THEN store.version + 1 ELSE 0]
  /\ UNCHANGED <<clients, panel, tasks, own, lastLoad, spanned>>

(* What happens without a user: the event loop and the servers. *)
System ==
  \/ \E t \in Tasks : Resume(t)
  \/ \E c \in DOMAIN clients : Serve(c) \/ Data(c)

Next ==
  \/ System
  \/ Show \/ AnalyzeCommand \/ ImpactCommand \/ HandleMessage \/ ClosePanel \/ Elsewhere
  \/ \E b \in Buttons : Click(b)
  \/ \E t \in Tasks : RefsEntered(t) \/ Dismiss(t) \/ AcceptInit(t)
  \/ \E c \in DOMAIN clients : ProcessClose(c)

(* The event loop runs what is runnable and reads what has arrived, and    *)
(* the server's handlers return.  Users and deaths owe nothing.            *)
Spec == Init /\ [][Next]_vars /\ WF_vars(System)

-----------------------------------------------------------------------------
(* Type invariant; a page that is ready has a status. *)
TypeOK ==
  /\ clients \in Seq([closed : BOOLEAN,
       calls : Seq([op : Operations, by : Tasks, reply : Nat \cup {None, Failed, NotInitialized}])])
  /\ store \in [initialised : BOOLEAN, version : Nat]
  /\ panel \in [client : 0..Len(clients), page : {"none", "loading", "ready", "error"},
                status : Nat \cup {None}, graph : Nat \cup {None},
                buttons : SUBSET Buttons, inbox : Seq(Buttons)]
  /\ tasks \in Seq([step : PanelSteps \cup {"command", "init", "asked", "boxes", "done"},
                    client : 0..Len(clients), status : Nat \cup {None, Failed},
                    reply : Nat \cup {None, Failed, NotInitialized}])
  /\ own \in Nat /\ spanned \in BOOLEAN
  /\ lastLoad \in {"none", "full", "nograph", "failed"}
  /\ panel.page = "ready" => panel.status # None

Quiet == \A t \in Tasks : tasks[t].step \notin PanelSteps

(* Once everything the panel asked for has come back, the graph it shows   *)
(* is at least as new as its own last analyze, unless it was told that     *)
(* fetching it failed: "Bust the graph cache so the freshly-analyzed graph *)
(* is fetched" (panel.ts:157) works although loads, analyses and impact    *)
(* queries overlap and an older load may put its graph back.               *)
OwnAnalyzeShown ==
  panel.page = "ready" /\ Quiet =>
    panel.graph = None \/ panel.graph >= own \/ lastLoad # "full"

(* The status shown lags behind the panel's own analyze only where an      *)
(* impact query that began before the load ended after it and wrote the    *)
(* old status back (panel.ts:170-172), or where the load failed.           *)
StatusLagsOnlyByImpact ==
  panel.page = "ready" /\ Quiet =>
    panel.status >= own \/ spanned \/ lastLoad = "failed"

(* The panel never stays at its loading page: whatever fails while tasks   *)
(* overlap, an answer or an error replaces it.                             *)
NeverStuckLoading == panel.page = "loading" ~> panel.page # "loading"
=============================================================================
