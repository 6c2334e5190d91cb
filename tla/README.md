# Verification of RepoFlare

RepoFlare indexes a repository into a graph of files, symbols and tests, keeps
every index as a snapshot in a DuckDB file, and answers what a change affects,
on the command line, to a VS Code extension, and as a hosted HTTP API. This
directory holds TLA+ models of it, the TLC configurations that check them, and
proofs checked by TLAPS. Paths below are relative to the repository; `core/`
stands for `core/src/repoflare_core/`.

## The system

| component | source | state it keeps | operations | interacts with |
|---|---|---|---|---|
| GraphStore | `core/graph/store.py`, `schema.py` | tables repositories, snapshots, nodes, edges; the file lock | upsert, create_snapshot, insert_nodes/edges, queries | opened by every service operation |
| service | `core/service.py` | none between calls | run_init, run_analyze, run_status, run_impact, run_graph_overview, run_explain, run_audit, run_remote_* | called by CLI, RPC server, HTTP API |
| scanner, parser, resolvers | `core/scanning`, `core/parsing` | one analyze's files and name tables | scan, parse, resolve | run_analyze |
| change detection | `core/change` | none | git diff, rev-parse | git |
| traversal and impact | `core/graph/traversal.py`, `core/impact` | one query's rows, the depth map | reverse_impact, shortest_reverse_path, analyze | current snapshot |
| context, prompt, explanation cache | `core/retrieval`, `core/cache`, `core/ai` | table analysis_cache | build_context, get/set, complete with fallback | working tree, model providers |
| JSON-RPC server | `core/rpc` | its place in the message loop | serve_forever, handle_request | stdin/stdout of the extension's child process |
| RPC client | `extension/src/rpc.ts` | pending calls, next id, input buffer, closed | the calls, dispose, data/error/close events | JSON-RPC server |
| commands and panel | `extension/src/extension.ts`, `panel.ts` | client per folder, the one panel, its cached status and graph | four commands, two panel messages | RPC client |
| hosted API, workspaces | `core/api`, `core/remote` | concurrency slots, a checkout per request | analyze, impact, explain, report | service, git clone |
| governance | `core/governance` | findings of one audit | run_org, the checks | GitHub, model provider |
| CLI, export, webview | `core/cli`, `core/export`, `webview.ts` | none | parse arguments, render | service, panel |

What is hard to test in it:

- **Several processes, one database file.** Only one may have it open; each
  statement commits by itself; an analyze scans before it opens the database.
  So analyses overlap, readers read in several queries, and a death between two
  statements leaves what was executed.
- **Order of inserts.** Edges refer to nodes by foreign key across files.
- **Traversal of arbitrary graphs**, with cycles, a depth bound, several
  changed nodes, and two independent ways to find the same dependents.
- **A pipe between two processes**: chunk boundaries, calls in flight when the
  process dies or the client is disposed, and a child nobody kills.
- **Await points in the extension's panel**, request threads and slots in the
  API, one failing check or page among many in an audit.

`PROJECT.json` lists every such hazard at its line with the properties that
would catch it, or why none does. Some of what can go wrong does go wrong in the
code as it is; a property that holds then exempts it by name, and shows that
nothing else goes wrong. Such a property confines the hazard and does not catch
it:

| what the code does | confined by | shown to happen by |
|---|---|---|
| a snapshot whose analyze died is partial, and served | `CompleteUnlessFailed`, `ReadsWholeSnapshot` exempt `failed` snapshots | `CurrentSnapshotComplete` |
| of definitions that share an id all but the first are dropped | `CompleteUnlessFailed` says which one stays | |
| a lost init trips a foreign key | `OnlyLostInitTripsKeys` | `MissingInitIsReported` |
| an impact query writes an old status back | `StatusLagsOnlyByImpact` (`spanned`) | |
| an answer is lost to the lock; ids change with every analyze | `PaidAgainOnlyIf` (answers not stored; one snapshot) | |
| a clone cut off at its time-out may stay, one of an ordinary account does | `LeftBehindOnlyIf` (`cause`, `account`) | `CheckoutsRemoved` for the second |
| a failing list of pull requests ends an audit | `AbortOnlyByListing` allows it | |
| 403 and 404 become a PASS of Dependabot | `NothingMadeUp` names it | |
| pages that shift lose or repeat a repository | `EveryRepositoryOnce` and `NothingMadeUp` (`shifted`) | |
| a check that raises, or cannot name an author, says nothing | `FailureStaysLocal` (`Explains`, `AuthorMissing`) | |

What makes each of them correct: the store and the service publish whole
snapshots; traversal agrees with the graph's chains; an explanation belongs to
the prompt that asked for it; a call on the RPC client is settled once, by its
own answer; the panel shows what its own analyses stored; a hosted request
gives its slot back, removes its checkout and is answered once; and a failing
request of an audit neither hides nor invents anything elsewhere.

## The modules

| module | models | role |
|---|---|---|
| `SnapshotRegister` | what the store promises: snapshots published whole in one step, answers from a settled head | abstract specification |
| `AnalysisStore` | the database and the processes that initialise, analyse and read it | detailed; implements the register |
| `AnalysisStoreProofs` | its inductive invariant, what follows from it, and that it implements `SnapshotRegister` | proofs |
| `RpcCalls` | what the extension's RPC client promises to its callers | abstract specification |
| `RpcChannel` | client, server loop and the two pipes | detailed; implements RpcCalls |
| `RpcChannelProofs` | its safety and that it implements `RpcCalls` | proofs |
| `ExtensionPanel` | commands, the folder's client, the panel and its caches | detailed, above what `RpcCalls` promises |
| `ExtensionPanelProofs` | its inductive invariant and all its safety | proofs |
| `ImpactAnalysis` | reverse_impact, ImpactAnalyzer, and the context's paths and tests | algorithm against its definition |
| `ImpactAnalysisProofs` | its correctness on every finite graph | proofs |
| `ReversePath` | shortest_reverse_path | algorithm against its definition |
| `ReversePathProofs` | its correctness on every graph | proofs |
| `ExplainCache` | run_explain, the snippets, the cache, the models, analyses and edits meanwhile | detailed |
| `ExplainCacheProofs` | that an answer belongs to its prompt, and when a model is paid twice | proofs |
| `HostedApi` | request threads, slots, checkouts, clones, answers, the end of the process | detailed |
| `HostedApiProofs` | its inductive invariant and all its safety | proofs |
| `GovernanceChecks` | each governance check as a function of a repository and of how its requests are answered | operators |
| `GovernanceAudit` | one audit: listing, checks, the model's checks, fingerprints | detailed; uses GovernanceChecks |
| `GovernanceAuditProofs` | its inductive invariant and all its safety | proofs |
| `MC...` | the link structures, graphs, requests and repositories TLC runs on | model checking |

### AnalysisStore

A process of `Procs` is a CLI invocation or an RPC server and runs one
operation at a time; `pc[p]` says before which step of `core/service.py` it is.

- `AnalyzeStart`, `ScanFile`, `ScanTooLarge`: everything run_analyze does before
  the database is opened. The id is taken first, paths are listed, files read
  one by one from a `tree` that `Edit` may change in between; `scan[s]` is what
  the analyze of `s` read. `AnalyzeWithoutGit` is the uncaught
  FileNotFoundError where there is no git program.
- `RetireSnapshots` and `InsertSnapshot` are the two statements of
  create_snapshot; `InsertNodes`, `ResolveFile` and `LinkTests` the three
  passes. Their guards are the schema's keys; a step that would break one is
  `RefusedByKey` instead.
- `ReadConnect`, `Lookup`/`LookupNothing`, `ReadRows`/`GitFails` are run_status,
  run_graph_overview and run_impact; `Close` is the end of every with block.
- `StartRefused`/`AnalyzeRefused` are duckdb.connect raising because another
  process has the file; `Die` is a killed process or an exception outside the
  code's handlers, at any step.

Nodes are known by their ids. The id of a FILE node is hashed from its path, that
of a symbol or a test from its qualified name, which begins with the path without
its extension and with dots for slashes (parsing/adapter.py:48-52). So two files
may define one id: `app.py` and `app.ts` with a function of the same name, or
`a.b.py` and `a/b.py`. `InsertedNodes` is ON CONFLICT DO NOTHING: the row that is
there stays. `RowsFrom` therefore has the definition of the first file in sorted
path order (`Place`, `First`, and `IsNext`, which makes every pass go in that
order), and the others' are nowhere, while the edges of all of them are stored
under the shared id. `NamedFiles` is the table from module names to files, in
which the last file of a name wins, so imports into and out of such a pair go to
and from that one. What parsing finds in a text is the constant `Source`; the
instances have two files with one module name and one function in common.

Abstracted: a row of table nodes is the file and the version its definition
stands in; an edge is its type and its two ends, so that several call sites of
one pair are one edge. Ids are the same in every snapshot but for its hash, hence
`Symbols` without the snapshot. executemany commits row by row, so a death inside
`InsertNodes` leaves a part of one file's rows; the model leaves none or all of
them, which is partial at the granularity of files. A process does not read while
it analyses. `Contents` bounds the versions a file may have. A history variable (`scan`,
`failed`, `outcome`) is never read by a guard, except that `scan` holds what
the analyze itself read.

`SnapshotRegister` is implemented by publishing a snapshot when its
predecessors have been retired and settling it at its last edges. Its `Damage`
step is the exact list of what a death can do: nothing, a part of the graph, or
no head.

### RpcChannel

A pipe is a sequence of half messages (header block, body). `Call`,
`CallRefused`, `Data`, `Dispatch`, `SpawnError`, `ProcessClose`, `Dispose` are
the client's, `ReadHead`, `ReadBody`, `EofExit`, `Truncated`, `Handle`,
`WriteHead`, `WriteBody` the server's; `Killed` and `HostDies` end either
process at any point. `Data` takes any part of what is in the pipe; `Dispatch`
is one turn of _drainBuffer's loop, and nothing else happens in the
single-threaded host before that loop is through. node delivers 'close' after
the output has been read, which `ProcessGone` states.

### ImpactAnalysis and ReversePath

The input is any graph of `Graphs` and any set of changed nodes. One `Recurse`
is one iteration of the recursive query, `Merge` the loop of _min_depths over
its result, `NextSeed` picks the changed nodes in any order. `GraphPath` and
`RelevantTests` are build_context. The reference definition is `Chain(c, n, d)`:
a function from 0..d to nodes whose neighbours are joined by edges. ReversePath
expands the nodes of a layer in any order and reconstructs the path step by
step.

### ExtensionPanel

`clients` is the sequence of clients made, the map's entry being the last;
each has its calls in the order in which they were written, and `Serve`,
`Data` and `ProcessClose` are what `RpcCalls` allows: answers in order, several
of them in one chunk, all that wait rejected when the process has gone. `tasks`
are the async functions under way (loads, analyses, impact queries and
commands), each with the call it awaits. `HandleMessage` runs a message up to
its first await and `Resume...` from the await on; a task that can go on does
so before the next event, in the order in which JavaScript's microtasks run
(`Settled`, `Rank`, `First`), which is why the order of two continuations is
not free. A reply is the number of the snapshot it is about, so that "older"
and "newer" are numbers. `Click` is possible for the buttons of the page that
is shown; an error page and the loading page have none. `own`, `lastLoad` and
`spanned` are history.

### ExplainCache

A process is in `run_explain` (`Open`, `Read` once per snippet, `Lookup`,
`Ask`, `Keep`, `Close`) or in `run_analyze` (`StartAnalyze`, `StoreSnapshot`,
`CloseAnalyze`), whose statements are merged because `AnalysisStore` looks at
them one by one. A text stands for a file's content together with the place
of its symbol in it, so a snippet is a tag from the text that was analysed and
the source that is there when it is read. Ids are hashed from the snapshot's
id and so order the nodes anew in every snapshot (`Orders`). `Ask` is the
chain of providers: answer, let the next one try, or raise. `calls` is the
history of what was asked and what became of it. `Open` merges looking up the
snapshot, git and the impact query, which the lock makes one step for others.

### HostedApi

A connection's thread is at one `step`: `Route` is do_GET and do_POST up to the
semaphore, `Acquire` to `Release` the `with self._slots` block around
cloned_workspace, `Build`, `SendHead`, `SendBody` and `Retry` the answer, whose
head may fail when the caller has gone and is then tried a second time as a
failure response. `disk` is every directory ever made; `cause` remembers what
disturbed its removal. `Exit` ends the process with its daemon threads, and
`Restart` finds the old disk. `account` says whether the process is privileged,
which decides what a directory without its execute bit means to it.

### GovernanceChecks and GovernanceAudit

`Get` is GitHubAdapter._get with its one retry; `Outcomes` is what a check gets
of a request in the end. Each check has `Requests` (those it may make), `Made`
(those it does make, given the answers) and `CheckFindings`, and `Expected` is
what it finds when all are answered. The audit takes a check, a pull request or
a fingerprint in one step: it is a single thread and nothing else changes what
it reads but the organisation's listing, which `OrgChanges` may shift once
between two pages. `NotArchived` says which place of the filtered listing holds
what (the n-th repository that is not archived) instead of building it, so that
proofs can follow it. `trouble` remembers the requests that failed. Dependabot's
alerts are asked for once, a page of `AlertPage`. The first Python files of the
tree are taken before those of the fixed list are dropped (`Scanned`, `Dropped`).
A pull request whose author's account is gone has a null `user`: a check that has
to name the author raises (`Nameless`, `Raises`), and the model's checks skip the
pull request. Severities,
patterns and similarities are members of small sets; the score is the code's
sum of weights over contents that are equal or have nothing in common.

## What is checked

| run | instance | shows |
|---|---|---|
| `store_safety` | 2 processes, 3 files of which 2 share a module name and a function, 1 that comes and goes, 2 analyses, 1 death | type invariant; one current snapshot; stored snapshots equal what was planned, and readers see whole snapshots, unless the analyze died; only a death leaves no current one; keys only fail for a lost init; settled rows never change; the store implements the register |
| `store_live` | the same with every file coming and going, 1 analysis, cap of 1 file, git absent or present | an analyze that meets the cap stores nothing rather than a part, and meets it at the first file above it; the lock is always released |
| `store_crash_partial` | 1 process | finding: a partial snapshot becomes and stays current |
| `store_lost_init` | 1 process | finding: a foreign-key error where NotInitializedError is promised |
| `rpc` | 3 calls | answers reach their own call and in order; only failure rejects; the server exits; the client implements RpcCalls, its liveness included |
| `impact` | 192 graphs on 4 nodes, depth bound 2, every changed set | reported depths are the true distances; DIRECT nodes are explained; the query ends |
| `reverse_path` | 256 graphs on 4 nodes, bounds 0 to 3 | the path is real and shortest, and None means there is none |
| `panel` | 2 clients, 5 tasks of which 2 commands, 1 analyze by another program | the panel shows at least its own last analyze; its status lags only where an impact query wrote an old one back; it never stays at its loading page |
| `explain` | 2 processes, 2 files, 2 texts, 3 operations, 1 edit, 1 death, 2 providers | an answer belongs to its prompt; when a model is asked twice; nobody keeps the database |
| `api` | 2 connections, 1 slot, 2 requests out of 7, 1 exit, either account | slots add up; what may stay on the disk; one answer per request; every request is served |
| `api_leak` | the same, ordinary account | finding: every successful clone stays on the disk |
| `audit` | 2 repositories that may become 1 or 3, pages of 1, 2 failing requests, 1 alert and 2 Python files looked at | failures stay local; nothing is made up; when an audit is given up; every repository once |

Why the bounds are enough: two processes are needed for any overlap and every
lock conflict is between two; three files give edges across files, a first, a
middle and a last file of each pass, and an id with two definers one of which may
be missing; two analyses give a predecessor to retire, an
overlap and a reader between them; one death already reaches each step, and
the proofs below do not depend on any of these bounds. Three calls give an
answered, a waiting and a later call at once, and pipes that hold several
messages. The graphs have chains longer than the depth bound, diamonds,
cycles and loops. For the panel five tasks allow a load, an analyze and an
impact query at once and a command beside them, and two clients a
replacement. Two explains of one prompt and an analyze or an edit between them
need three operations; one death reaches every step of either. One slot and
two connections give a holder and a waiter, in both orders, and a request after
a leak. Two failing requests cover a retry that fails and failures in two
places; a page per repository makes the last page an empty one. All caps on
counters are constants whose comment begins with "bound:" or, in `AnalysisStore`
and `RpcChannel`, `MaxSnapshots`, `MaxFailures` and `MaxCalls`; they appear in
the guards.

Fairness. `AnalysisStore`: weak fairness of each process's own steps; an
operation that started is straight-line code, a refused connect is an error and
not a wait, git has a time-out. `RpcChannel`: weak fairness of the server's
loop and of the host's event loop; that a handler returns rests on the
time-outs of git and HTTP calls. `ImpactAnalysis`: one thread that runs.
`ExtensionPanel`: the event loop and the server processes go on, on which
`RpcChannel` has its say. `ExplainCache`: a process's own steps, but not `Ask`,
since a model need never answer as far as `LockComesBack` is concerned.
`HostedApi`: the steps of a thread from the request to the released slot; git
is cut off after 180 seconds, and parsing and the HTTP calls end. Sending an
answer is not fair, as a caller need never read it, and holds no slot. A
waiting thread competes for the semaphore with later ones (Python's is not a
queue), and it is the bound on requests that keeps it from being overtaken for
ever: `EveryRequestServed` shows that no slot is lost, not that the semaphore
is fair. Nothing is assumed about users, editors, deaths or the start of operations.
Deadlock is not checked where a run may really end: all calls made and the
client closed, an audit or an algorithm that has its result, or operations that
have reached their bound.

Each passing property has a mutant: a definition named `...Bug` beside the one
it replaces, with which TLC finds the property violated.

## What is proved

For every number of processes, files, versions, analyses and deaths and every
link structure (assumption `ConstantsOK`),
`AnalysisStoreProofs` shows `TypeCorrect`, `AtMostOneCurrent`,
`FinishedIsComplete`, `ReadersSeeWholeSnapshots`, `CurrentSurvives`,
`InsertsRespectKeys`, `SettledStaysPut`, `ScansAreWhole`, and `Refinement`, that
`Spec` implies the register's.

None of these invariants is inductive alone. `IInv` adds: the lock is held by
exactly the process between connect and close (`LockInv`), from which at most
one process is past connect; ids in use are distinct and below the clock
(`IdInv`); the current set is empty, or one snapshot, depending on where the
holder is (`CurrentInv`); how far the holder has come in each pass, that is,
which rows are there and which files are still to do (`ProgressInv`); rows are
always a part of what is planned (`RowsInv`); and a reader's reply was the
stored graph while it held the lock (`ReplyInv`). What is still to do comes after
what is done (`Behind`), so at every moment an id has the row of the first of its
definers handled so far, and at the end of the pass the planned one.
`NoTruncatedScan` needs `CapInv` beside `IInv`: a scan has read at most the cap, and
nobody scans on for a snapshot whose analyze was refused. Preservation is one lemma
per part with one step per action; `Quiet` and `Writes` factor the actions that
leave the rows alone from the few that write.

The refinement shows that each action is a Publish, Settle, Damage, Answer,
Return or a stutter, from `IInv` and `View`, which says what `SettlingSnap` and
`HeadSnap` are in terms of the holder.

For every number of calls (`RpcChannelProofs`): `TypeCorrect`,
`AnsweredByItsOwn`, `AnsweredInOrder`, `RejectedOnFailure`, `SettledForGood`
and `ImplementsCallsSafely`, the safety part of the refinement. Halves of
messages are numbered; `FlowInv` says that each pipe holds consecutive numbers
that start where the reader of it has stopped, and `CallsInv` which calls are
waiting under which ids. That is why an answer finds its own call and why no
call is left when the process ends after a clean shutdown.

For every finite graph, set of changed nodes and depth bound
(`ImpactAnalysisProofs`): `TypeCorrect`, `DepthsAreReal`, `NothingIsMissed`,
`DirectIsExplained`. After k iterations the rows are exactly the chains of at
most k edges (`QueryOk`), and the map is right about the changed nodes handled
so far (`MapOk`); a part of a chain is a chain (`ChainPart`), so an iteration
that adds nothing leaves nothing out. For every graph (`ReversePathProofs`):
`PathsAreReal` and `PathsAreShortest`, from the layers: chains as long as the
layers searched so far lead to visited nodes (`Explored`), a visited node's
level is one above its predecessor's (`Layered`), so the path has the length of
the least chain. A least length exists because < is well founded on the natural
numbers, which is a fact of the library and needs no induction of ours.

For every number of processes, files and providers (`ExplainCacheProofs`):
`AnswersItsPrompt` and `PaysOnce`. For the first, `Inv` ties rows of the cache and
processes to calls with their prompt, and a step never changes the prompt of a
call. `PaysOnce` compares two calls by their change, the number of their snapshot
and the set of their snippets, and needs `PaidInvariant` on top: a number stands
for one snapshot; the candidates for snippets are in one order in which no file
comes twice, so that equal sets of snippets are equal sequences and the prompts
are the same; a process that asks looked for its prompt and found no row; and a
row that was stored is there from then on.

For every number of clients, commands, clicks and analyses made elsewhere
(`ExtensionPanelProofs`): `PanelTypes`, `OwnAnalyzeIsShown`, `StatusLags`. Both
properties speak of a panel whose tasks are done, and the step that makes it so
sees nothing of the reason. `PanelInvariant` is about the queue of calls of each
client: replies never decrease along it (`Ordered`), so when an analyze has been
answered with snapshot v every call that waits will be answered with v or later
(`NoneBefore`). A load that brings something older was settled before that and is
resumed before another event; a load that has its status and not its graph waits
for the very next answer (`LoadCalls`); and the analyze's own load is still to
come (`Pending`). The proof never uses the order in which continuations run (`Rank`), only
that what is settled runs before the next event.

For every organisation, page size, content of its repositories and pattern of
failures (`GovernanceAuditProofs`, assumptions `AuditBounds` and `WorldsOK`, the
latter that what GitHub answers are lists): `AuditTypes`, `FailuresHideLittle`,
`FailuresInventLittle`, `AuditsEachOnce`, `AbortsOnlyByListing`.
`FailureStaysLocal`, which leaves out REPO_SPRAWL, holds at the end of an audit;
inductive is `Progress`, which
says it of the checks and samples the audit is `Through` with. `NothingMadeUp` is
inductive with the types and with fingerprints being in order (`PrintsInOrder`).
`ListedSoFar` says what the listing has of the pages fetched and, unless a
repository was created meanwhile, that it has nothing of those to come; with the
last page it becomes `ListedAll`, from which `EveryRepositoryOnce` follows. What
the checks compute enters through three lemmas: a check is a function of the
answers it gets (`AllAnswered`), what it does not find was about a request that
failed or is for want of an author (`MissingForWantOf`), what it finds wrongly comes
of an answer it misreads (`MadeUpFrom`).

The proofs caught what no run could: TLA+ leaves open which of two true
arms of a CASE is taken, and the coverage check and the end of a load each had
two such arms. TLC takes the first, as the code does; the models now say so.

Every invariant of a passing run is therefore a theorem for all values of the
constants, and so are `SettledNeverChanges` and `ImplementsRegister`. Only
model-checked are the liveness properties, which are beyond the prover:
`LockIsReleased`, `ServerExits`, the liveness in `ImplementsCalls` (its safety is
`ImplementsCallsSafely`), `Terminates`, `NeverStuckLoading`, `LockComesBack` and
`EveryRequestServed`.

## What the checks found

- run_analyze makes a snapshot current before its rows exist, so an analyze
  that dies leaves a partial graph as the one everybody is answered from
  (`store_crash_partial`). A death between the two statements of
  create_snapshot leaves none at all.
- An init that died before its upsert counts as finished; every later analyze
  fails on a foreign key (`store_lost_init`).
- _remove_workspace sets directories to owner read and write before it
  deletes. A directory without its execute bit cannot be entered, so a server
  that is not privileged leaves every successful clone on its disk, and
  `ignore_errors=True` hides it (`api_leak`).

Met while modelling; the models do what the code does, and no run is about it:

- Overlapping analyses: the scan happens before the database is opened, so the
  older scan can become current.
- Ids of definitions in files that differ in their extension, or in dots and
  slashes, coincide; the graph has one node with the edges of both
  (store.py:110,119; the docstring says "silently ignoring").
- Of the failures of git only GitCommandError is caught: a missing program
  (FileNotFoundError) and a slow one (TimeoutExpired) escape (service.py:59).
- A failing JSON-RPC notification is answered, with a null id (rpc/server.py:163);
  the extension sends none and drops such answers.
- domain/ids.py:3-7 says that analysing the same state again gives the same ids;
  a snapshot's id contains the time, and every node's id contains it, so each
  analyze empties the explanation cache in effect.
- ContextRetriever: file nodes take places of the snippet budget without giving
  a snippet; relevant tests and graph paths never reach the prompt; a file that
  is not UTF-8 ends an explain (UnicodeDecodeError is no OSError). A
  provider's answer that is not JSON is no BobProviderError, so the next
  provider is not asked.
- The panel: an impact query writes back the status it read before its await;
  an open panel keeps the client it was made with, also when a command has
  replaced it (extension.ts:55-57 explains why a command does so), and its error
  page has no buttons, so only closing it helps; withClient's offer to analyse
  is never made, because the one call whose error reaches it is analyze's own.
- The API answers 400 for a git that is missing or a clone that times out, and
  500 when git cannot be started for another reason (any other OSError).
- conflicts.py:17 says that a merge state "unknown" is "treated as UNKNOWN"; the
  code reports nothing about such a pull request.
- One pull request without an author, whose account was deleted, raises in
  conflicts.py:80 and stale_prs.py:76 (`None.get`) and takes all findings of the
  check with it.
- Dependabot's second page of 100 alerts is never asked for (github.py:96-99), so a
  critical alert there does not make the check fail.
- settings.py and config.py, when they are among the first five Python files of the
  tree, use up places of the sample although they are scanned anyway (pii.py:140-141).
- The audit: a second rate-limited 403 becomes "no alerts", PASS; a test
  workflow counts as run whatever its conclusion; a model that fails is
  reported as a review of unknown substance (WARN); a repository listed twice
  by shifting pages is a duplicate of itself; a failing listing of pull
  requests gives up the audit with everything found.

## Not modelled

- Rendering: CLI output, HTML export, the webview's and the API's pages. Each is
  a function of finished results, without state.
- The command line, which parses arguments and calls one operation.
- The walks over syntax trees, the binding of imported names and the
  naming heuristic for tests: pure functions from texts to rows, of which the
  models use that they depend on the text alone and refer to scanned files.
- Reviews and comments whose author is null: building the context of the model's
  checks then fails like a request of it (`ContextFails`).
- Parsing of references and URLs, the HTTP exchange with GitHub and the model
  providers, third-party checks of an audit (extra_checks).
- Hash collisions, qualified names that nodes of different kinds have in common (a
  file `a.b` and a symbol `a.b`) in the resolver's lookup by name, and DuckDB
  itself: that it locks the file, checks the keys and commits each statement is taken as given. run_status's counts and the
  150-node selection of the graph view are not told apart from reading the
  whole graph.

## What could come next

A model of name resolution against a reference definition; `AnalysisStore` and `ExplainCache`
composed into one specification instead of each abstracting the other.
