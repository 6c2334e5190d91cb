----------------------------- MODULE RpcChannel -----------------------------
(***************************************************************************)
(* One RepoFlareRpcClient of the VS Code extension (extension/src/rpc.ts), *)
(* the Python process it spawns, which runs RpcServer.serve_forever        *)
(* (rpc/server.py, rpc/protocol.py), and the two pipes between them.       *)
(*                                                                         *)
(* A pipe is a sequence of half messages: the header block and the body.   *)
(* Each side writes them one after the other and the other side may find   *)
(* them together with others or apart, which is all that chunk boundaries  *)
(* can do to the readers.  A request stands for its method and parameters  *)
(* (call c); an answer says whose request it answers and whether it is a   *)
(* result or an error.                                                     *)
(*                                                                         *)
(* The host is single threaded: the 'data' handler dispatches every whole  *)
(* message before anything else runs there, so the other steps of the host *)
(* wait for the dispatching to end.                                        *)
(***************************************************************************)
EXTENDS Naturals, Sequences

CONSTANT MaxCalls      \* bound: calls made through this client

ASSUME MaxCallsOK == MaxCalls \in Nat

Calls == 1..MaxCalls
Ids   == 1..MaxCalls
Null  == 0             \* JSON null as a message id, and "none" for calls

VARIABLES
  made,        \* calls made so far
  fate,        \* fate[c]: what became of the promise of call c
  answerTo,    \* answerTo[c]: the call whose request c's answer belongs to (history)
  nextId,      \* _nextId
  pending,     \* _pending: the call that waits for the answer with this id, or Null
  closed,      \* _closed
  buffer,      \* _readBuffer
  host,        \* "up", or "gone" when the extension host has died
  closeSeen,   \* the process's 'close' event has been handled
  stdin,       \* half messages on their way to the server
  ended,       \* no more will be written to stdin
  stdout,      \* half messages on their way to the client
  phase,       \* where serve_forever is
  request,     \* the request being handled
  response,    \* the response being written
  failure      \* the server failed to start, or was killed (history)

client == <<made, fate, answerTo, nextId, pending, closed, buffer, host, closeSeen>>
server == <<phase, request, response>>
vars   == <<client, server, stdin, ended, stdout, failure>>

Answers == {"result", "error"}
Request == [part : {"head", "body"}, id : Ids, re : Calls]
Message == [part : {"head", "body"}, id : Ids \cup {Null}, re : Calls \cup {Null}, as : Answers]
Phases  == {"starting", "head", "body", "handling", "write head", "write body", "gone"}

NoRequest  == [part |-> "body", id |-> Null, re |-> Null]
NoResponse == [part |-> "body", id |-> Null, re |-> Null, as |-> "error"]

TypeOK ==
  /\ made \in 0..MaxCalls
  /\ fate \in [Calls -> {"unmade", "waiting", "rejected", "refused"} \cup Answers]
  /\ answerTo \in [Calls -> Calls \cup {Null}]
  /\ nextId \in 1..(MaxCalls + 1)
  /\ pending \in [Ids -> Calls \cup {Null}]
  /\ closed \in BOOLEAN /\ ended \in BOOLEAN /\ closeSeen \in BOOLEAN /\ failure \in BOOLEAN
  /\ host \in {"up", "gone"}
  /\ buffer \in Seq(Message) /\ stdout \in Seq(Message)
  /\ stdin \in Seq(Request)
  /\ phase \in Phases
  /\ request \in Request \cup {NoRequest}
  /\ response \in Message

Init ==
  /\ made = 0
  /\ fate = [c \in Calls |-> "unmade"]
  /\ answerTo = [c \in Calls |-> Null]
  /\ nextId = 1
  /\ pending = [i \in Ids |-> Null]
  /\ closed = FALSE /\ ended = FALSE /\ closeSeen = FALSE /\ failure = FALSE
  /\ host = "up"
  /\ buffer = <<>> /\ stdin = <<>> /\ stdout = <<>>
  /\ phase = "starting"
  /\ request = NoRequest
  /\ response = NoResponse

-----------------------------------------------------------------------------
(* The client.  Definitions named ...Bug are what the checks must tell the *)
(* code's from.                                                            *)

Bodies(b) == {i \in DOMAIN b : b[i].part = "body"}

(* _drainBuffer's loop has nothing left to parse. *)
HostIdle == host = "up" /\ Bodies(buffer) = {}

FreshId_StuckBug     == 1
FreshId_ZeroBasedBug == nextId - 1
FreshId == nextId

(* _call on an open client: the header and the body are written at once.   *)
Call ==
  LET c == made + 1 IN
  /\ HostIdle
  /\ made < MaxCalls
  /\ ~closed
  /\ made' = c
  /\ fate' = [fate EXCEPT ![c] = "waiting"]
  /\ pending' = [pending EXCEPT ![FreshId] = c]
  /\ nextId' = nextId + 1
  /\ stdin' = stdin \o <<[part |-> "head", id |-> FreshId, re |-> c],
                         [part |-> "body", id |-> FreshId, re |-> c]>>
  /\ UNCHANGED <<answerTo, closed, buffer, host, closeSeen, server, ended, stdout, failure>>

CallRefused ==
  /\ HostIdle
  /\ made < MaxCalls
  /\ closed
  /\ made' = made + 1
  /\ fate' = [fate EXCEPT ![made + 1] = "refused"]
  /\ UNCHANGED <<answerTo, nextId, pending, closed, buffer, host, closeSeen, server, stdin,
                 ended, stdout, failure>>

(* A chunk of any size arrives; _onData appends it. *)
Data(n) ==
  /\ HostIdle
  /\ buffer' = buffer \o SubSeq(stdout, 1, n)
  /\ stdout' = SubSeq(stdout, n + 1, Len(stdout))
  /\ UNCHANGED <<made, fate, answerTo, nextId, pending, closed, host, closeSeen, server, stdin,
                 ended, failure>>

Consumed_LastWinsBug == SubSeq(buffer, 1 + 2 * (Len(buffer) \div 2), Len(buffer))
Consumed == SubSeq(buffer, 3, Len(buffer))

AfterDispatch_KeptBug(i) == pending
AfterDispatch(i) == [pending EXCEPT ![i] = Null]

(* The next whole message is cut off the buffer and dispatched.  An answer *)
(* without an id, or that no call waits for, is dropped.                   *)
Dispatch ==
  LET m    == buffer[2]
      call == IF m.id = Null THEN Null ELSE pending[m.id] IN
  /\ host = "up"
  /\ Bodies(buffer) # {}
  /\ buffer' = Consumed
  /\ IF call = Null THEN UNCHANGED <<fate, answerTo, pending>>
     ELSE /\ pending' = AfterDispatch(m.id)
          /\ fate' = [fate EXCEPT ![call] = m.as]
          /\ answerTo' = [answerTo EXCEPT ![call] = m.re]
  /\ UNCHANGED <<made, nextId, closed, host, closeSeen, server, stdin, ended, stdout, failure>>

RejectAll ==
  /\ fate' = [c \in Calls |-> IF \E i \in Ids : pending[i] = c THEN "rejected" ELSE fate[c]]
  /\ pending' = [i \in Ids |-> Null]

(* The process could not be spawned: its 'error' event. *)
SpawnError ==
  /\ HostIdle
  /\ phase = "starting"
  /\ closed' = TRUE
  /\ RejectAll
  /\ phase' = "gone"
  /\ failure' = TRUE
  /\ UNCHANGED <<made, answerTo, nextId, buffer, host, closeSeen, request, response, stdin,
                 ended, stdout>>

ProcessGone_AtExitBug == phase = "gone"
(* 'close' comes when the process has exited and its output has been read. *)
ProcessGone == phase = "gone" /\ stdout = <<>>

ProcessClose ==
  /\ HostIdle
  /\ ProcessGone
  /\ ~closeSeen
  /\ closeSeen' = TRUE
  /\ closed' = TRUE
  /\ RejectAll
  /\ UNCHANGED <<made, answerTo, nextId, buffer, host, server, stdin, ended, stdout, failure>>

(* deactivate, or the replacement of a closed client (which does nothing). *)
Dispose ==
  /\ HostIdle
  /\ ~closed
  /\ closed' = TRUE
  /\ ended' = TRUE
  /\ UNCHANGED <<made, fate, answerTo, nextId, pending, buffer, host, closeSeen, server, stdin,
                 stdout, failure>>

(* The host dies; of what it wrote some prefix has reached the pipe.       *)
HostDies ==
  /\ host = "up"
  /\ host' = "gone"
  /\ ended' = TRUE
  /\ \E n \in 0..Len(stdin) : stdin' = SubSeq(stdin, 1, n)
  /\ UNCHANGED <<made, fate, answerTo, nextId, pending, closed, buffer, closeSeen, server,
                 stdout, failure>>

-----------------------------------------------------------------------------
(* The server.                                                             *)

ServerStart ==
  /\ phase = "starting"
  /\ phase' = "head"
  /\ UNCHANGED <<client, request, response, stdin, ended, stdout, failure>>

(* read_message up to the blank line. *)
ReadHead ==
  /\ phase = "head"
  /\ stdin # <<>>
  /\ stdin' = Tail(stdin)
  /\ phase' = "body"
  /\ UNCHANGED <<client, request, response, ended, stdout, failure>>

ReadBody ==
  /\ phase = "body"
  /\ stdin # <<>>
  /\ request' = Head(stdin)
  /\ stdin' = Tail(stdin)
  /\ phase' = "handling"
  /\ UNCHANGED <<client, response, ended, stdout, failure>>

AtEof == stdin = <<>> /\ ended

EofExit_KeepsWaitingBug ==
  /\ phase = "head"
  /\ AtEof
  /\ UNCHANGED vars

(* A clean end of file between messages ends serve_forever. *)
EofExit ==
  /\ phase = "head"
  /\ AtEof
  /\ phase' = "gone"
  /\ UNCHANGED <<client, request, response, stdin, ended, stdout, failure>>

(* MalformedMessageError: the stream ended before the body was read. *)
Truncated ==
  /\ phase = "body"
  /\ AtEof
  /\ response' = NoResponse
  /\ phase' = "write head"
  /\ UNCHANGED <<client, request, stdin, ended, stdout, failure>>

(* handle_request: whatever the handler raises, and a result that cannot   *)
(* be encoded, becomes an error response with the request's id.            *)
Handle ==
  /\ phase = "handling"
  /\ \E a \in Answers :
       response' = [part |-> "body", id |-> request.id, re |-> request.re, as |-> a]
  /\ phase' = "write head"
  /\ UNCHANGED <<client, request, stdin, ended, stdout, failure>>

(* write_message.  A pipe nobody reads any more raises BrokenPipeError,    *)
(* which leaves serve_forever and ends the process.                        *)
WriteHead ==
  /\ phase = "write head"
  /\ IF host = "gone" THEN phase' = "gone" /\ UNCHANGED stdout
     ELSE /\ phase' = "write body"
          /\ stdout' = Append(stdout, [response EXCEPT !.part = "head"])
  /\ UNCHANGED <<client, request, response, stdin, ended, failure>>

WriteBody ==
  /\ phase = "write body"
  /\ IF host = "gone" THEN phase' = "gone" /\ UNCHANGED stdout
     ELSE phase' = "head" /\ stdout' = Append(stdout, response)
  /\ UNCHANGED <<client, request, response, stdin, ended, failure>>

(* The process is killed, at any point of the loop. *)
Killed ==
  /\ phase \notin {"starting", "gone"}
  /\ phase' = "gone"
  /\ failure' = TRUE
  /\ UNCHANGED <<client, request, response, stdin, ended, stdout>>

ServerStep ==
  \/ ServerStart \/ ReadHead \/ ReadBody \/ EofExit \/ Truncated \/ Handle
  \/ WriteHead \/ WriteBody

Receive == Dispatch \/ ProcessClose \/ \E n \in 1..Len(stdout) : Data(n)

Next ==
  \/ ServerStep \/ Receive
  \/ Call \/ CallRefused \/ SpawnError \/ Dispose \/ HostDies \/ Killed

Spec == Init /\ [][Next]_vars

(* The server's loop and the host's event loop run.  That every handler    *)
(* returns rests on the timeouts of git, the model and the GitHub calls.   *)
Fairness == WF_vars(ServerStep) /\ WF_vars(Receive)

FairSpec == Spec /\ Fairness
-----------------------------------------------------------------------------
(* Properties.                                                             *)

Settled(c) == fate[c] \in Answers \cup {"rejected", "refused"}

(* A call is given the answer to its own request, whatever the chunks, the *)
(* number of calls in flight and the moment the process dies.              *)
AnswersMatch == \A c \in Calls : fate[c] \in Answers => answerTo[c] = c

(* Calls are answered in the order they were made: one that is answered    *)
(* has no earlier one still waiting.  (The panel's cache relies on it.)    *)
AnswersInOrder ==
  \A c, d \in Calls : c < d /\ fate[d] \in Answers => fate[c] # "waiting"

(* A call that was accepted is only rejected when the process failed: one  *)
(* that is in flight when the client is disposed still gets its answer.    *)
OnlyFailureRejects == \A c \in Calls : fate[c] = "rejected" => failure

(* A promise that is settled is never settled again. *)
SettleOnce == [][\A c \in Calls : Settled(c) => fate'[c] = fate[c]]_vars

(* The server does not outlive its client: once its stdin is at an end,    *)
(* by dispose or because the host died, the process exits.                 *)
ServerExits == ended ~> phase = "gone"

(* The client implements RpcCalls.  With the host its promises are gone.   *)
CallsView == INSTANCE RpcCalls WITH
  fate   <- [c \in Calls |-> IF host = "gone" /\ fate[c] = "waiting" THEN "rejected"
                             ELSE fate[c]],
  closed <- closed \/ host = "gone"

ImplementsCalls == CallsView!LiveSpec
=============================================================================
