----------------------------- MODULE HostedApi -----------------------------
(***************************************************************************)
(* The hosted HTTP API (core api/server.py, api/__main__.py), the checkout *)
(* each of its analyses works in (remote/workspace.py) and the operations  *)
(* that clone first (service.py, run_remote_analysis, run_remote_explain). *)
(*                                                                         *)
(* Every connection has a thread, which answers its requests one after the *)
(* other; the threads share a semaphore of slots and the disk.  Callers    *)
(* may hang up, or never read what they are sent; a clone may fail or run  *)
(* out of time; the server process may end at any moment, its threads with *)
(* it, and be started again on the same disk.                              *)
(***************************************************************************)
EXTENDS Integers, Sequences, FiniteSets

CONSTANTS Conns,            \* the connections a server may have at a time
          MaxConcurrency,   \* ApiConfig.max_concurrency
          Accounts,         \* "privileged", "ordinary": what the server may run as
          Asked,            \* the requests among Requests that callers make
          MaxRequests,      \* bound: requests of one history
          MaxExits          \* bound: exits of the server process

ASSUME SlotsAssumption == MaxConcurrency \in Nat \ {0}
ASSUME ConnsAssumption == IsFiniteSet(Conns)
ASSUME AccountsAssumption == Accounts \subseteq {"privileged", "ordinary"}
ASSUME ApiBounds == MaxRequests \in Nat /\ MaxExits \in Nat

VARIABLES account,   \* whom the server runs as; only "privileged" enters any directory
          up,        \* the server process runs
          free,      \* the value of ApiOperations._slots
          conns,     \* per connection its thread's step and its request
          disk,      \* the directories mkdtemp has made, in that order
          requests,  \* bound: requests received
          exits      \* bound: exits so far

vars == <<account, up, free, conns, disk, requests, exits>>

-----------------------------------------------------------------------------
(* What a caller may ask for.  A repository is named by nothing, by        *)
(* something parse_public_github_ref refuses, or by a proper reference.    *)

WorkRoutes == {"report", "analyze", "impact", "explain"}
OtherStatus == [health |-> 200, demo |-> 200, unknown |-> 404, post |-> 405]
OtherRoutes == DOMAIN OtherStatus

Request == [route : WorkRoutes \cup OtherRoutes,
            repo : {"missing", "refused", "proper"},
            range : BOOLEAN]

(* Only /report has a range that may be absent, and only the routes that   *)
(* work on a repository read its name.                                     *)
Requests ==
  {r \in Request : /\ r.route \in OtherRoutes => r.repo = "missing" /\ ~r.range
                   /\ r.route = "analyze" => ~r.range
                   /\ r.route \in {"impact", "explain"} => r.range}

ASSUME AskedAssumption == Asked \subseteq Requests

(* What the work of a request has to go through before it is answered. *)
Work(r) ==
  {"cloned", "stored"} \cup (IF r.range THEN {"compared"} ELSE {})
                       \cup (IF r.route = "explain" THEN {"explained"} ELSE {})

StatusFor ==
  [none |-> 200, RemoteRepoError |-> 400, GitCommandError |-> 400,
   RepositoryTooLargeError |-> 413, BobProviderConfigError |-> 503,
   BobProviderError |-> 502, Unexpected |-> 500]

Errors == DOMAIN StatusFor \ {"none"}

(* A request that needs no repository has its status at once, and so has   *)
(* /report without one, which shows the demo page.                         *)
Status(k) ==
  IF k.error # "none" THEN StatusFor[k.error]
  ELSE IF k.request.route \in OtherRoutes THEN OtherStatus[k.request.route]
  ELSE IF k.request.repo = "missing" THEN 400
  ELSE 200

-----------------------------------------------------------------------------
NoRequest == [route |-> "health", repo |-> "missing", range |-> FALSE]

Closed == [step |-> "closed", request |-> NoRequest, workspace |-> 0, done |-> {},
           error |-> "none", sent |-> <<>>, gone |-> FALSE]

Steps == {"closed", "idle", "route", "waiting", "slot", "clone", "store", "compare", "explain",
          "clean", "release", "build", "head", "retry", "body"}

(* The steps inside `with self._slots`, and those inside cloned_workspace. *)
SlotSteps == {"slot", "clone", "store", "compare", "explain", "clean", "release"}
WorkspaceSteps == {"clone", "store", "compare", "explain", "clean"}

Holders == {c \in Conns : conns[c].step \in SlotSteps}
InUse == {conns[c].workspace : c \in {d \in Conns : conns[d].step \in WorkspaceSteps}}

Init ==
  /\ account \in Accounts
  /\ up = TRUE
  /\ free = MaxConcurrency
  /\ conns = [c \in Conns |-> Closed]
  /\ disk = <<>>
  /\ requests = 0
  /\ exits = 0

(* Thread c is at `step` and goes on with the fields of k. *)
At(c, step) == up /\ conns[c].step = step
Continue(c, k) == conns' = [conns EXCEPT ![c] = k]
Goto(c, step) == Continue(c, [conns[c] EXCEPT !.step = step])
Fail(c, error, step) == Continue(c, [conns[c] EXCEPT !.step = step, !.error = error])
Finish(c, part, step) ==
  Continue(c, [conns[c] EXCEPT !.step = step, !.done = @ \cup {part}])

Frame == UNCHANGED <<account, up, requests, exits>>

-----------------------------------------------------------------------------
(* The callers. *)

Connect(c) ==
  /\ At(c, "closed")
  /\ Continue(c, [Closed EXCEPT !.step = "idle"])
  /\ UNCHANGED <<free, disk>> /\ Frame

NextRequest(c) ==
  /\ At(c, "idle")
  /\ ~conns[c].gone
  /\ requests < MaxRequests
  /\ requests' = requests + 1
  /\ \E r \in Asked : Continue(c, [Closed EXCEPT !.step = "route", !.request = r])
  /\ UNCHANGED <<account, up, free, disk, exits>>

HangUp(c) ==
  /\ up
  /\ conns[c].step # "closed"
  /\ ~conns[c].gone
  /\ Continue(c, [conns[c] EXCEPT !.gone = TRUE])
  /\ UNCHANGED <<free, disk>> /\ Frame

(* The thread reads the end of its input. *)
EndOfInput(c) ==
  /\ At(c, "idle")
  /\ conns[c].gone
  /\ Continue(c, Closed)
  /\ UNCHANGED <<free, disk>> /\ Frame

-----------------------------------------------------------------------------
(* do_GET and do_POST up to the semaphore.  The JSON routes refuse a       *)
(* missing repository themselves; every route refuses an improper one      *)
(* before it asks for a slot.                                              *)

Route(c) ==
  LET r == conns[c].request
  IN  /\ At(c, "route")
      /\ IF r.route \in OtherRoutes \/ (r.route = "report" /\ r.repo = "missing")
           THEN Goto(c, "build")
           ELSE IF r.repo # "proper" THEN Fail(c, "RemoteRepoError", "build")
           ELSE Goto(c, "waiting")
      /\ UNCHANGED <<free, disk>> /\ Frame

Acquire(c) ==
  /\ At(c, "waiting")
  /\ free > 0
  /\ free' = free - 1
  /\ Goto(c, "slot")
  /\ UNCHANGED disk /\ Frame

-----------------------------------------------------------------------------
(* cloned_workspace and the work inside it.  `content` is what is on the   *)
(* disk; `cause` says, for the history, what has disturbed its removal.    *)

Contents == {"nothing", "empty", "partial", "whole"}

MakeWorkspace(c) ==
  /\ At(c, "slot")
  /\ \/ /\ disk' = Append(disk, [content |-> "empty", cause |-> "none"])
        /\ Continue(c, [conns[c] EXCEPT !.step = "clone", !.workspace = Len(disk) + 1])
     \/ Fail(c, "Unexpected", "release") /\ UNCHANGED disk   \* mkdtemp raises OSError
  /\ UNCHANGED free /\ Frame

(* Bug: a refused clone leaves the `with` of the slots by an early return. *)
Clone_EarlyReturnBug(c) ==
  LET w == conns[c].workspace
  IN  /\ At(c, "clone")
      /\ \/ /\ disk' = [disk EXCEPT ![w].content = "whole"]
            /\ Finish(c, "cloned", "store")
         \/ Fail(c, "RemoteRepoError", "build") /\ UNCHANGED disk
      /\ UNCHANGED free /\ Frame

(* git removes what it has made when it fails by itself, but not when it   *)
(* is killed at the time-out.  A missing git is a RemoteRepoError too; any *)
(* other OSError of starting git (PermissionError, no memory) is not caught*)
(* here.                                                                   *)
Clone(c) ==
  LET w == conns[c].workspace
  IN  /\ At(c, "clone")
      /\ \/ /\ disk' = [disk EXCEPT ![w].content = "whole"]
            /\ Finish(c, "cloned", "store")
         \/ \E e \in {"RemoteRepoError", "Unexpected"} : Fail(c, e, "clean") /\ UNCHANGED disk
         \/ /\ \E left \in {"empty", "partial"} :
                 disk' = [disk EXCEPT ![w] = [content |-> left, cause |-> "timeout"]]
            /\ Fail(c, "RemoteRepoError", "clean")
      /\ UNCHANGED free /\ Frame

(* Bug: a tree that is too large is refused outside the `finally`. *)
Store_NoFinallyBug(c) ==
  LET r == conns[c].request
  IN  /\ At(c, "store")
      /\ \/ Finish(c, "stored", IF r.range THEN "compare" ELSE "clean")
         \/ \E e \in {"RepositoryTooLargeError", "Unexpected"} : Fail(c, e, "release")
      /\ UNCHANGED <<free, disk>> /\ Frame

(* _materialize_graph and run_status. *)
Store(c) ==
  LET r == conns[c].request
  IN  /\ At(c, "store")
      /\ \/ Finish(c, "stored", IF r.range THEN "compare" ELSE "clean")
         \/ \E e \in {"RepositoryTooLargeError", "Unexpected"} : Fail(c, e, "clean")
      /\ UNCHANGED <<free, disk>> /\ Frame

(* The two refs are compared: run_impact, or the first half of run_explain,*)
(* which is done when nothing has changed between them.                    *)
Compare(c) ==
  LET explain == conns[c].request.route = "explain"
  IN  /\ At(c, "compare")
      /\ \/ Finish(c, "compared", IF explain THEN "explain" ELSE "clean")
         \/ /\ explain
            /\ Continue(c, [conns[c] EXCEPT !.step = "clean",
                                            !.done = @ \cup {"compared", "explained"}])
         \/ \E e \in {"GitCommandError", "Unexpected"} : Fail(c, e, "clean")
      /\ UNCHANGED <<free, disk>> /\ Frame

(* The model is asked; the database is in the checkout, so no answer has   *)
(* ever been cached.                                                       *)
Explain(c) ==
  /\ At(c, "explain")
  /\ \/ Finish(c, "explained", "clean")
     \/ \E e \in {"BobProviderConfigError", "BobProviderError", "Unexpected"} :
          Fail(c, e, "clean")
  /\ UNCHANGED <<free, disk>> /\ Frame

(* _remove_workspace never raises.  It sets every entry to owner read and  *)
(* write, which takes from a directory the right to be entered: then only  *)
(* a privileged process can delete what is inside.  After a time-out the   *)
(* helpers of the killed git may still be writing.                         *)
Remains(d) ==
  CASE d.content = "empty" -> {"nothing"}
    [] d.content = "whole" -> {IF account = "privileged" THEN "nothing" ELSE "whole"}
    [] OTHER -> {"partial"} \cup (IF account = "privileged" THEN {"nothing"} ELSE {})

Clean(c) ==
  LET w == conns[c].workspace
  IN  /\ At(c, "clean")
      /\ \E left \in Remains(disk[w]) : disk' = [disk EXCEPT ![w].content = left]
      /\ Goto(c, "release")
      /\ UNCHANGED free /\ Frame

(* Bug: the finally clause releases what the `with` releases as well. *)
Release_TwiceBug(c) ==
  /\ At(c, "release")
  /\ free' = free + 2
  /\ Goto(c, "build")
  /\ UNCHANGED disk /\ Frame

(* Bug: the slot is given back by hand, and only when the work went well. *)
Release_OnSuccessBug(c) ==
  /\ At(c, "release")
  /\ free' = IF conns[c].error = "none" THEN free + 1 ELSE free
  /\ Goto(c, "build")
  /\ UNCHANGED disk /\ Frame

Release(c) ==
  /\ At(c, "release")
  /\ free' = free + 1
  /\ Goto(c, "build")
  /\ UNCHANGED disk /\ Frame

-----------------------------------------------------------------------------
(* Bug: the head goes out before the body has been rendered. *)
Build_HeadFirstBug(c) ==
  /\ At(c, "build")
  /\ LET sent == Append(conns[c].sent, Status(conns[c]))
     IN  \/ Continue(c, [conns[c] EXCEPT !.step = "body", !.sent = sent])
         \/ /\ conns[c].error = "none" /\ conns[c].request.route # "post"
            /\ Continue(c, [conns[c] EXCEPT !.step = "head", !.sent = sent, !.error = "Unexpected"])
  /\ UNCHANGED <<free, disk>> /\ Frame

(* The answer.  A page that cannot be rendered is a failure like any other.*)

Build(c) ==
  /\ At(c, "build")
  /\ \/ Goto(c, "head")
     \/ /\ conns[c].error = "none" /\ conns[c].request.route # "post"
        /\ Fail(c, "Unexpected", "head")
  /\ UNCHANGED <<free, disk>> /\ Frame

(* Writing the head to a caller who has gone may raise.  do_GET takes that *)
(* for a failure of the request and answers again, which raises again and  *)
(* ends the connection; do_POST lets it through at once.                   *)
SendHead(c) ==
  LET k == conns[c]
  IN  /\ At(c, "head")
      /\ \/ Continue(c, [k EXCEPT !.step = "body", !.sent = Append(@, Status(k))])
         \/ /\ k.gone
            /\ IF k.error # "none" \/ k.request.route = "post"
                 THEN Continue(c, Closed)
                 ELSE Fail(c, "Unexpected", "retry")
      /\ UNCHANGED <<free, disk>> /\ Frame

Retry(c) ==
  /\ At(c, "retry")
  /\ Continue(c, Closed)
  /\ UNCHANGED <<free, disk>> /\ Frame

(* A body that cannot be written closes the connection, and nothing more.  *)
(* One that could be leaves it open unless the caller asked otherwise.     *)
SendBody(c) ==
  /\ At(c, "body")
  /\ \/ Continue(c, [Closed EXCEPT !.step = "idle", !.gone = conns[c].gone])
     \/ Continue(c, Closed)
  /\ UNCHANGED <<free, disk>> /\ Frame

-----------------------------------------------------------------------------
(* The threads are daemons: the process ends without waiting for them, and *)
(* nothing runs their finally clauses.  A new process finds the old disk.  *)

Exit ==
  /\ up
  /\ exits < MaxExits
  /\ exits' = exits + 1
  /\ up' = FALSE
  /\ disk' = [w \in DOMAIN disk |->
                IF w \in InUse THEN [disk[w] EXCEPT !.cause = "exit"] ELSE disk[w]]
  /\ conns' = [c \in Conns |-> Closed]
  /\ UNCHANGED <<account, free, requests>>

Restart ==
  /\ ~up
  /\ up' = TRUE
  /\ free' = MaxConcurrency
  /\ UNCHANGED <<account, conns, disk, requests, exits>>

(* What a thread does on its own, from the request to the released slot.   *)
Serve(c) == Route(c) \/ Acquire(c) \/ MakeWorkspace(c) \/ Clone(c) \/ Store(c) \/ Compare(c)
              \/ Explain(c) \/ Clean(c) \/ Release(c)

Answer(c) == Build(c) \/ SendHead(c) \/ Retry(c) \/ SendBody(c)

Caller(c) == Connect(c) \/ NextRequest(c) \/ HangUp(c) \/ EndOfInput(c)

Next == (\E c \in Conns : Caller(c) \/ Serve(c) \/ Answer(c)) \/ Exit \/ Restart

(* A clone is cut off after its time-out, and parsing and the model's HTTP *)
(* calls end; a caller need never read its answer, so Answer is not fair.  *)
Spec == Init /\ [][Next]_vars /\ \A c \in Conns : WF_vars(Serve(c))

-----------------------------------------------------------------------------
(* Every variable keeps its type (ApiOperations, RepoFlareRequestHandler). *)
TypeOK ==
  /\ account \in Accounts
  /\ up \in BOOLEAN
  /\ free \in 0..MaxConcurrency
  /\ disk \in Seq([content : Contents, cause : {"none", "timeout", "exit"}])
  /\ conns \in [Conns -> [step : Steps, request : Requests, workspace : Nat,
                          done : SUBSET {"cloned", "stored", "compared", "explained"},
                          error : Errors \cup {"none"}, sent : Seq(Nat), gone : BOOLEAN]]
  /\ requests \in 0..MaxRequests
  /\ exits \in 0..MaxExits

(* No path through a request loses a slot or frees one twice, so that never*)
(* more than max_concurrency repositories are in memory and never fewer    *)
(* than that can be (server.py, `with self._slots`); and no two requests   *)
(* that hold slots work in the same checkout.                              *)
SlotsAccounted ==
  /\ up => free + Cardinality(Holders) = MaxConcurrency
  /\ \A c, d \in Holders :
       conns[c].workspace # 0 /\ conns[c].workspace = conns[d].workspace => c = d

(* Once its request is over a checkout is gone from the disk, whatever has *)
(* failed, unless the process ended while it was in use, git was killed in *)
(* the middle of the clone, or the server is not privileged and the clone  *)
(* was whole (cloned_workspace, _remove_workspace).                        *)
LeftBehind == {w \in DOMAIN disk \ InUse : disk[w].content # "nothing"}

LeftBehindOnlyIf ==
  \A w \in LeftBehind :
    \/ disk[w].cause = "exit"
    \/ disk[w].cause = "timeout" /\ disk[w].content = "partial"
    \/ account = "ordinary" /\ disk[w].content = "whole"

(* A request is answered once, also when building, sending or reporting    *)
(* fails half-way, and a kept connection has had its answer; "200" for a   *)
(* repository means that all the work it asks for was done (do_GET,        *)
(* _report_failure, _send_bytes).                                          *)
OneAnswer ==
  \A c \in Conns : LET k == conns[c] IN
    /\ Len(k.sent) <= 1
    /\ k.step \in {"route", "waiting", "build", "head", "retry"} \cup SlotSteps => k.sent = <<>>
    /\ k.sent = <<200>> /\ k.request.route \in WorkRoutes => Work(k.request) \subseteq k.done
    /\ Work(k.request) \subseteq k.done /\ k.error = "none" /\ k.sent # <<>> => k.sent = <<200>>

(* Every request comes past the semaphore and gives its slot back, whoever *)
(* hangs up and whoever never reads an answer: answers are sent without a  *)
(* slot (ApiOperations.analyze, impact, explain, report_html).             *)
EveryRequestServed ==
  \A c \in Conns : conns[c].step \in {"route", "waiting"} \cup SlotSteps
                     ~> conns[c].step \notin {"route", "waiting"} \cup SlotSteps

(* "Removed even on Windows": a checkout whose request is over, in a       *)
(* server that has not ended meanwhile and whose git was not killed, is not*)
(* on the disk any more.                                                   *)
CheckoutsRemoved == \A w \in LeftBehind : disk[w].cause # "none"

=============================================================================
