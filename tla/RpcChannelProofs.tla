-------------------------- MODULE RpcChannelProofs --------------------------
(***************************************************************************)
(* The safety of RpcChannel, and that it implements RpcCalls, for every    *)
(* number of calls.                                                        *)
(*                                                                         *)
(* Half messages are numbered 1, 2, 3, ... in the order in which the calls *)
(* write their requests and the server its answers.  While the host lives, *)
(* every pipe holds consecutive numbers: what is in the buffer and behind  *)
(* it in stdout starts where the dispatching has stopped, what is in stdin *)
(* where the server's reading has; and the server's phase says how far its *)
(* writing is behind its reading.  That nothing is lost or overtaken       *)
(* between the two is why an answer meets its own call, in its turn, and   *)
(* why a client that sees its process end after a clean shutdown has no    *)
(* call left to reject.                                                    *)
(***************************************************************************)
EXTENDS RpcChannel, SequenceTheorems, TLAPS

(* Halves that name the call whose id they carry. *)
OwnRequest == {r \in Request : r.re = r.id}
OwnMessage == {m \in Message : m.re = m.id}

ClientTypes ==
  /\ made \in 0..MaxCalls
  /\ fate \in [Calls -> {"unmade", "waiting", "rejected", "refused"} \cup Answers]
  /\ answerTo \in [Calls -> Calls \cup {Null}]
  /\ nextId \in 1..(MaxCalls + 1)
  /\ pending \in [Ids -> Calls \cup {Null}]
  /\ closed \in BOOLEAN /\ ended \in BOOLEAN /\ closeSeen \in BOOLEAN
  /\ host \in {"up", "gone"}

MessagesInv ==
  /\ buffer \in Seq(OwnMessage) /\ stdout \in Seq(OwnMessage)
  /\ stdin \in Seq(OwnRequest)
  /\ request \in OwnRequest \cup {NoRequest}
  /\ response \in OwnMessage
  /\ phase \in Phases
  /\ failure \in BOOLEAN

(* Which calls are made, waiting and pending, and under which ids. *)
CallsInv ==
  /\ nextId <= made + 1
  /\ ~closed => nextId = made + 1
  /\ \A c \in Calls : c > made <=> fate[c] = "unmade"
  /\ \A c \in Calls : c >= nextId => fate[c] \in {"unmade", "refused"}
  /\ \A c \in Calls : pending[c] = IF fate[c] = "waiting" THEN c ELSE Null
  /\ ended /\ host = "up" => closed

Number(half) == IF half.part = "head" THEN 2 * half.id - 1 ELSE 2 * half.id

Runs(s, n) == \A i \in 1..Len(s) : Number(s[i]) = n + i

Read == 2 * (nextId - 1) - Len(stdin)

Written(dispatched) == 2 * dispatched + Len(buffer) + Len(stdout)

(* The halves in flight, when so many answers have been dispatched. *)
Pipes(dispatched) ==
  /\ Runs(buffer, 2 * dispatched)
  /\ Runs(stdout, 2 * dispatched + Len(buffer))
  /\ Runs(stdin, Read)
  /\ Written(dispatched) <= 2 * (nextId - 1)

(* How far the server is, when so many requests are read to their end. *)
Server(dispatched, done) ==
  /\ phase \in {"starting", "head"} => Read = 2 * done /\ Written(dispatched) = 2 * done
  /\ phase = "body" => Read = 2 * done + 1 /\ Written(dispatched) = 2 * done
  /\ phase \in {"handling", "write head"}
       => Read = 2 * done /\ Written(dispatched) = 2 * done - 2
  /\ phase = "write body" => Read = 2 * done /\ Written(dispatched) = 2 * done - 1
  /\ phase = "handling" => request.id = done
  /\ phase \in {"write head", "write body"} => response.id = done /\ response.part = "body"
  /\ phase = "gone" /\ ~failure => closed /\ Written(dispatched) = 2 * (nextId - 1)

Fates(dispatched) ==
  \A c \in Calls : IF c <= dispatched THEN fate[c] # "waiting" ELSE fate[c] \notin Answers

FlowInv == \E dispatched, done \in Nat :
  Pipes(dispatched) /\ Server(dispatched, done) /\ Fates(dispatched)

IInv ==
  /\ ClientTypes
  /\ MessagesInv
  /\ CallsInv
  /\ host = "up" => FlowInv
  /\ AnswersInOrder
  /\ AnswersMatch
  /\ OnlyFailureRejects

-----------------------------------------------------------------------------
(* Runs of halves under the operations the model applies to its pipes. *)

(* What is added at the end of a sequence in order keeps it in order. *)
LEMMA RunsAppend ==
  ASSUME NEW S, NEW s \in Seq(S), NEW x \in S, NEW n \in Int,
         Runs(s, n), Number(x) = n + Len(s) + 1
  PROVE  /\ Append(s, x) \in Seq(S) /\ Len(Append(s, x)) = Len(s) + 1
         /\ Runs(Append(s, x), n)
<1>1. /\ Append(s, x) \in Seq(S) /\ Len(Append(s, x)) = Len(s) + 1
      /\ \A i \in 1..Len(s) : Append(s, x)[i] = s[i]
      /\ Append(s, x)[Len(s) + 1] = x /\ Len(s) \in Nat
  BY AppendProperties, LenProperties
<1>2. ASSUME NEW i \in 1..(Len(s) + 1) PROVE Number(Append(s, x)[i]) = n + i
  <2>1. CASE i \in 1..Len(s)
    BY <1>1, <2>1 DEF Runs
  <2>2. CASE i = Len(s) + 1
    BY <1>1, <2>2
  <2> QED
    BY <1>1, <2>1, <2>2
<1> QED
  BY <1>1, <1>2 DEF Runs

(* What is left of a sequence in order is in order. *)
LEMMA RunsTail ==
  ASSUME NEW S, NEW s \in Seq(S), s # <<>>, NEW n \in Int, Runs(s, n)
  PROVE  /\ Head(s) \in S /\ Number(Head(s)) = n + 1
         /\ Tail(s) \in Seq(S) /\ Len(Tail(s)) = Len(s) - 1
         /\ Runs(Tail(s), n + 1)
<1>1. /\ Head(s) \in S /\ Tail(s) \in Seq(S) /\ Len(Tail(s)) = Len(s) - 1
      /\ \A i \in 1..Len(Tail(s)) : Tail(s)[i] = s[i + 1]
  BY HeadTailProperties
<1>2. Len(s) \in Nat \ {0} /\ Head(s) = s[1]
  BY EmptySeq
<1>3. ASSUME NEW i \in 1..Len(Tail(s)) PROVE Number(Tail(s)[i]) = (n + 1) + i
  <2>1. i + 1 \in 1..Len(s) /\ Tail(s)[i] = s[i + 1]
    BY <1>1, <1>2
  <2>2. Number(s[i + 1]) = n + (i + 1)
    BY <2>1 DEF Runs
  <2> QED
    BY <2>1, <2>2
<1> QED
  BY <1>1, <1>2, <1>3 DEF Runs

(* Two sequences in order, the second after the first, are one in order. *)
LEMMA RunsConcat ==
  ASSUME NEW S, NEW s \in Seq(S), NEW t \in Seq(S), NEW n \in Int,
         Runs(s, n), Runs(t, n + Len(s))
  PROVE  /\ s \o t \in Seq(S) /\ Len(s \o t) = Len(s) + Len(t)
         /\ Runs(s \o t, n)
<1>1. /\ s \o t \in Seq(S) /\ Len(s \o t) = Len(s) + Len(t)
      /\ \A i \in 1..Len(s) + Len(t) :
           (s \o t)[i] = IF i <= Len(s) THEN s[i] ELSE t[i - Len(s)]
      /\ Len(s) \in Nat /\ Len(t) \in Nat
  BY ConcatProperties, LenProperties
<1>2. ASSUME NEW i \in 1..Len(s) + Len(t) PROVE Number((s \o t)[i]) = n + i
  <2>1. CASE i <= Len(s)
    BY <1>1, <2>1 DEF Runs
  <2>2. CASE i > Len(s)
    <3>1. i - Len(s) \in 1..Len(t) /\ (s \o t)[i] = t[i - Len(s)]
      BY <1>1, <2>2
    <3>2. Number(t[i - Len(s)]) = (n + Len(s)) + (i - Len(s))
      BY <3>1 DEF Runs
    <3> QED
      BY <1>1, <3>1, <3>2
  <2> QED
    BY <1>1, <2>1, <2>2
<1> QED
  BY <1>1, <1>2 DEF Runs

(* A part of a sequence in order is in order. *)
LEMMA RunsSubSeq ==
  ASSUME NEW S, NEW s \in Seq(S), NEW n \in Int, Runs(s, n),
         NEW l \in 1..(Len(s) + 1), NEW k \in (l - 1)..Len(s)
  PROVE  /\ SubSeq(s, l, k) \in Seq(S) /\ Len(SubSeq(s, l, k)) = k - l + 1
         /\ Runs(SubSeq(s, l, k), n + l - 1)
<1>1. Len(s) \in Nat /\ \A i \in l..k : s[i] \in S
  BY LenProperties, ElementOfSeq
<1>2. /\ SubSeq(s, l, k) \in Seq(S)
      /\ Len(SubSeq(s, l, k)) = IF l <= k THEN k - l + 1 ELSE 0
      /\ \A i \in 1..k - l + 1 : SubSeq(s, l, k)[i] = s[l + i - 1]
  BY <1>1, SubSeqProperties
<1>3. Len(SubSeq(s, l, k)) = k - l + 1
  BY <1>1, <1>2
<1>4. ASSUME NEW i \in 1..(k - l + 1) PROVE Number(SubSeq(s, l, k)[i]) = (n + l - 1) + i
  <2>1. l + i - 1 \in 1..Len(s) /\ SubSeq(s, l, k)[i] = s[l + i - 1]
    BY <1>1, <1>2
  <2>2. Number(s[l + i - 1]) = n + (l + i - 1)
    BY <2>1 DEF Runs
  <2> QED
    BY <1>1, <2>1, <2>2
<1> QED
  BY <1>2, <1>3, <1>4 DEF Runs


LEMMA OwnFields ==
  /\ \A r \in OwnRequest : r.part \in {"head", "body"} /\ r.id \in Calls /\ r.re = r.id
  /\ \A m \in OwnMessage : /\ m.part \in {"head", "body"} /\ m.id \in Calls \cup {Null}
                           /\ m.id \in Nat /\ m.re = m.id /\ m.as \in Answers
  /\ Calls \subseteq Nat \ {0} /\ Ids = Calls /\ Null = 0
  BY MaxCallsOK DEF OwnRequest, OwnMessage, Request, Message, Calls, Ids, Null

-----------------------------------------------------------------------------
LEMMA InitInv == Init => IInv
<1> SUFFICES ASSUME Init PROVE IInv OBVIOUS
<1>1. ClientTypes
  <2>1. made \in 0..MaxCalls /\ nextId \in 1..(MaxCalls + 1)
    BY MaxCallsOK DEF Init
  <2>2. /\ fate \in [Calls -> {"unmade", "waiting", "rejected", "refused"} \cup Answers]
        /\ answerTo \in [Calls -> Calls \cup {Null}]
        /\ pending \in [Ids -> Calls \cup {Null}]
    BY DEF Init
  <2> QED
    BY <2>1, <2>2 DEF Init, ClientTypes
<1>2. NoResponse \in OwnMessage
  BY DEF NoResponse, OwnMessage, Message, Answers
<1>3. MessagesInv
  BY <1>2, EmptySeq DEF Init, MessagesInv, Phases
<1>4. CallsInv
  BY MaxCallsOK DEF Init, CallsInv, Calls, Ids, Null
<1>5. Len(buffer) = 0 /\ Len(stdout) = 0 /\ Len(stdin) = 0
  BY EmptySeq DEF Init
<1>6. Pipes(0) /\ Server(0, 0) /\ Fates(0)
  <2>0. nextId = 1 /\ phase = "starting"
    BY DEF Init
  <2>1. Read = 0 /\ Written(0) = 0
    BY <1>5, <2>0 DEF Read, Written
  <2>2. Pipes(0)
    BY <1>5, <2>0, <2>1 DEF Pipes, Runs
  <2>3. Server(0, 0)
    BY <2>0, <2>1 DEF Server
  <2>4. Fates(0)
    BY MaxCallsOK DEF Init, Fates, Calls, Answers
  <2> QED
    BY <2>2, <2>3, <2>4
<1>7. FlowInv
  BY <1>6 DEF FlowInv
<1> QED
  BY <1>1, <1>3, <1>4, <1>7 DEF Init, IInv, AnswersInOrder, AnswersMatch, OnlyFailureRejects,
                               Answers, Calls

LEMMA IInvTypes == IInv => TypeOK
<1> SUFFICES ASSUME IInv PROVE TypeOK OBVIOUS
<1>1. OwnMessage \subseteq Message /\ OwnRequest \subseteq Request
  BY DEF OwnMessage, OwnRequest
<1>2. buffer \in Seq(Message) /\ stdout \in Seq(Message) /\ stdin \in Seq(Request)
  BY <1>1, SeqMonotonic DEF IInv, MessagesInv
<1> QED
  BY <1>1, <1>2 DEF IInv, ClientTypes, MessagesInv, TypeOK

(* The numbers in play. *)
LEMMA Lengths ==
  ASSUME IInv
  PROVE  /\ Len(buffer) \in Nat /\ Len(stdout) \in Nat /\ Len(stdin) \in Nat
         /\ nextId \in Nat \ {0} /\ Read \in Int /\ made \in Nat
         /\ \A n \in Nat : Written(n) \in Int
         /\ stdin = <<>> <=> Len(stdin) = 0
         /\ stdout = <<>> <=> Len(stdout) = 0
<1>1. Len(buffer) \in Nat /\ Len(stdout) \in Nat /\ Len(stdin) \in Nat
  BY LenProperties DEF IInv, MessagesInv
<1>2. nextId \in Nat \ {0} /\ made \in Nat
  BY MaxCallsOK DEF IInv, ClientTypes
<1>3. /\ stdin = <<>> <=> Len(stdin) = 0
      /\ stdout = <<>> <=> Len(stdout) = 0
  BY EmptySeq DEF IInv, MessagesInv
<1> QED
  BY <1>1, <1>2, <1>3 DEF Read, Written

-----------------------------------------------------------------------------
(* What no step of the server touches. *)
LEMMA ServerFrame ==
  ASSUME IInv, UNCHANGED <<client, ended>>, failure => failure',
         MessagesInv', host = "up" => FlowInv'
  PROVE  IInv'
<1>1. ClientTypes' /\ CallsInv'
  BY DEF client, IInv, ClientTypes, CallsInv
<1>2. AnswersInOrder' /\ AnswersMatch' /\ OnlyFailureRejects'
  BY DEF client, IInv, AnswersInOrder, AnswersMatch, OnlyFailureRejects
<1>3. host' = "up" => FlowInv'
  BY DEF client
<1> QED
  BY <1>1, <1>2, <1>3 DEF IInv

LEMMA ServerStartKeeps == IInv /\ ServerStart => IInv'
<1> SUFFICES ASSUME IInv, ServerStart PROVE IInv' OBVIOUS
<1>1. MessagesInv'
  BY DEF ServerStart, IInv, MessagesInv, client, Phases
<1>2. ASSUME host = "up" PROVE FlowInv'
  <2>1. PICK dispatched, done \in Nat :
          Pipes(dispatched) /\ Server(dispatched, done) /\ Fates(dispatched)
    BY <1>2 DEF IInv, FlowInv
  <2>2. Pipes(dispatched)' /\ Server(dispatched, done)' /\ Fates(dispatched)'
    BY <2>1 DEF ServerStart, client, Pipes, Runs, Read, Written, Server, Fates
  <2> QED
    BY <2>2 DEF FlowInv
<1> QED
  BY <1>1, <1>2, ServerFrame DEF ServerStart

LEMMA ReadHeadKeeps == IInv /\ ReadHead => IInv'
<1> SUFFICES ASSUME IInv, ReadHead PROVE IInv' OBVIOUS
<1>0. /\ phase = "head" /\ phase' = "body" /\ stdin # <<>> /\ stdin' = Tail(stdin)
      /\ UNCHANGED <<client, request, response, ended, stdout, failure>>
      /\ stdin \in Seq(OwnRequest)
  BY DEF ReadHead, IInv, MessagesInv
<1>1. MessagesInv'
  BY <1>0, HeadTailProperties DEF IInv, MessagesInv, client, Phases
<1>2. ASSUME host = "up" PROVE FlowInv'
  <2>1. PICK dispatched, done \in Nat :
          Pipes(dispatched) /\ Server(dispatched, done) /\ Fates(dispatched)
    BY <1>2 DEF IInv, FlowInv
  <2>2. Len(stdin') = Len(stdin) - 1 /\ Runs(stdin', Read + 1)
    BY <1>0, <2>1, RunsTail, Lengths DEF Pipes
  <2>3. Read' = Read + 1 /\ Written(dispatched)' = Written(dispatched)
    BY <1>0, <2>2, Lengths DEF Read, Written, client
  <2>4. Pipes(dispatched)'
    BY <1>0, <2>1, <2>2, <2>3 DEF Pipes, client, Runs
  <2>5. Server(dispatched, done)'
    BY <1>0, <2>1, <2>3 DEF Server
  <2>6. Fates(dispatched)'
    BY <1>0, <2>1 DEF Fates, client
  <2> QED
    BY <2>4, <2>5, <2>6 DEF FlowInv
<1> QED
  BY <1>0, <1>1, <1>2, ServerFrame

LEMMA ReadBodyKeeps == IInv /\ ReadBody => IInv'
<1> SUFFICES ASSUME IInv, ReadBody PROVE IInv' OBVIOUS
<1>0. /\ phase = "body" /\ phase' = "handling" /\ stdin # <<>> /\ stdin' = Tail(stdin)
      /\ request' = Head(stdin)
      /\ UNCHANGED <<client, response, ended, stdout, failure>>
      /\ stdin \in Seq(OwnRequest)
  BY DEF ReadBody, IInv, MessagesInv
<1>1. MessagesInv'
  BY <1>0, HeadTailProperties DEF IInv, MessagesInv, client, Phases
<1>2. ASSUME host = "up" PROVE FlowInv'
  <2>1. PICK dispatched, done \in Nat :
          Pipes(dispatched) /\ Server(dispatched, done) /\ Fates(dispatched)
    BY <1>2 DEF IInv, FlowInv
  <2>2. /\ Len(stdin') = Len(stdin) - 1 /\ Runs(stdin', Read + 1)
        /\ request' \in OwnRequest /\ Number(request') = Read + 1
    BY <1>0, <2>1, RunsTail, Lengths DEF Pipes
  <2>3. Read' = Read + 1 /\ Written(dispatched)' = Written(dispatched)
    BY <1>0, <2>2, Lengths DEF Read, Written, client
  <2>4. Read = 2 * done + 1 /\ Written(dispatched) = 2 * done
    BY <1>0, <2>1 DEF Server
  <2>5. request'.part \in {"head", "body"} /\ request'.id \in Nat
    BY <2>2, OwnFields
  <2>6. request'.id = done + 1
    BY <2>2, <2>4, <2>5 DEF Number
  <2>7. Pipes(dispatched)'
    BY <1>0, <2>1, <2>2, <2>3 DEF Pipes, client, Runs
  <2>8. Server(dispatched, done + 1)'
    BY <1>0, <2>3, <2>4, <2>6 DEF Server
  <2>9. Fates(dispatched)'
    BY <1>0, <2>1 DEF Fates, client
  <2> QED
    BY <2>7, <2>8, <2>9 DEF FlowInv
<1> QED
  BY <1>0, <1>1, <1>2, ServerFrame

LEMMA EofExitKeeps == IInv /\ EofExit => IInv'
<1> SUFFICES ASSUME IInv, EofExit PROVE IInv' OBVIOUS
<1>0. /\ phase = "head" /\ phase' = "gone" /\ stdin = <<>> /\ ended
      /\ UNCHANGED <<client, request, response, stdin, ended, stdout, failure>>
  BY DEF EofExit, AtEof
<1>1. MessagesInv'
  BY <1>0 DEF IInv, MessagesInv, client, Phases
<1>2. ASSUME host = "up" PROVE FlowInv'
  <2>1. PICK dispatched, done \in Nat :
          Pipes(dispatched) /\ Server(dispatched, done) /\ Fates(dispatched)
    BY <1>2 DEF IInv, FlowInv
  <2>2. closed /\ Written(dispatched) = 2 * (nextId - 1)
    BY <1>0, <1>2, <2>1, Lengths DEF Server, Read, IInv, CallsInv
  <2>3. Pipes(dispatched)' /\ Fates(dispatched)'
    BY <1>0, <2>1 DEF client, Pipes, Runs, Read, Written, Fates
  <2>4. Server(dispatched, done)'
    BY <1>0, <2>2 DEF client, Server, Written
  <2> QED
    BY <2>3, <2>4 DEF FlowInv
<1> QED
  BY <1>0, <1>1, <1>2, ServerFrame

(* Only a host that died can have left half a request behind. *)
LEMMA TruncatedKeeps == IInv /\ Truncated => IInv'
<1> SUFFICES ASSUME IInv, Truncated PROVE IInv' OBVIOUS
<1>0. /\ phase = "body" /\ phase' = "write head" /\ stdin = <<>>
      /\ response' = NoResponse
      /\ UNCHANGED <<client, request, stdin, ended, stdout, failure>>
  BY DEF Truncated, AtEof
<1>1. MessagesInv'
  BY <1>0 DEF IInv, MessagesInv, client, Phases, NoResponse, OwnMessage, Message, Answers
<1>2. ASSUME host = "up" PROVE FALSE
  <2>1. PICK dispatched, done \in Nat :
          Pipes(dispatched) /\ Server(dispatched, done) /\ Fates(dispatched)
    BY <1>2 DEF IInv, FlowInv
  <2>2. Read = 2 * done + 1
    BY <1>0, <2>1 DEF Server
  <2>3. Len(stdin) = 0 /\ nextId \in Nat
    BY <1>0, Lengths
  <2>4. 2 * (nextId - 1) = 2 * done + 1
    BY <2>2, <2>3 DEF Read
  <2> QED
    BY <2>3, <2>4
<1> QED
  BY <1>0, <1>1, <1>2, ServerFrame

LEMMA HandleKeeps == IInv /\ Handle => IInv'
<1> SUFFICES ASSUME IInv, Handle PROVE IInv' OBVIOUS
<1>0. /\ phase = "handling" /\ phase' = "write head"
      /\ UNCHANGED <<client, request, stdin, ended, stdout, failure>>
  BY DEF Handle
<1>3. PICK a \in Answers :
        response' = [part |-> "body", id |-> request.id, re |-> request.re, as |-> a]
  BY DEF Handle
<1>4. response' \in OwnMessage /\ response'.id = request.id /\ response'.part = "body"
  BY <1>3 DEF IInv, MessagesInv, OwnMessage, OwnRequest, Message, Request, NoRequest
<1>1. MessagesInv'
  BY <1>0, <1>4 DEF IInv, MessagesInv, client, Phases
<1>2. ASSUME host = "up" PROVE FlowInv'
  <2>1. PICK dispatched, done \in Nat :
          Pipes(dispatched) /\ Server(dispatched, done) /\ Fates(dispatched)
    BY <1>2 DEF IInv, FlowInv
  <2>2. Pipes(dispatched)' /\ Fates(dispatched)'
    BY <1>0, <2>1 DEF client, Pipes, Runs, Read, Written, Fates
  <2>3. Server(dispatched, done)'
    BY <1>0, <1>4, <2>1 DEF client, Server, Read, Written
  <2> QED
    BY <2>2, <2>3 DEF FlowInv
<1> QED
  BY <1>0, <1>1, <1>2, ServerFrame

LEMMA WriteHeadKeeps == IInv /\ WriteHead => IInv'
<1> SUFFICES ASSUME IInv, WriteHead PROVE IInv' OBVIOUS
<1> DEFINE half == [response EXCEPT !.part = "head"]
<1>0. /\ phase = "write head"
      /\ UNCHANGED <<client, request, response, stdin, ended, failure>>
      /\ stdout \in Seq(OwnMessage) /\ response \in OwnMessage
  BY DEF WriteHead, IInv, MessagesInv
<1>1. half \in OwnMessage /\ half.part = "head" /\ half.id = response.id
  BY <1>0 DEF OwnMessage, Message
<1>2. CASE host = "gone"
  <2>1. phase' = "gone" /\ stdout' = stdout
    BY <1>2 DEF WriteHead
  <2>2. MessagesInv'
    BY <1>0, <2>1 DEF IInv, MessagesInv, client, Phases
  <2> QED
    BY <1>0, <1>2, <2>2, ServerFrame
<1>3. CASE host = "up"
  <2>0. phase' = "write body" /\ stdout' = Append(stdout, half)
    BY <1>3 DEF WriteHead
  <2>1. PICK dispatched, done \in Nat :
          Pipes(dispatched) /\ Server(dispatched, done) /\ Fates(dispatched)
    BY <1>3 DEF IInv, FlowInv
  <2>2. /\ Read = 2 * done /\ Written(dispatched) = 2 * done - 2
        /\ response.id = done /\ response.part = "body"
    BY <1>0, <2>1 DEF Server
  <2>11. /\ Len(buffer) \in Nat /\ Len(stdout) \in Nat /\ Len(stdin) \in Nat
         /\ nextId \in Nat
    BY Lengths
  <2>12. Number(half) = 2 * done - 1
    BY <1>1, <2>2 DEF Number
  <2>3. Number(half) = 2 * dispatched + Len(buffer) + Len(stdout) + 1
    BY <2>2, <2>11, <2>12 DEF Written
  <2> HIDE DEF half
  <2>4. /\ stdout' \in Seq(OwnMessage) /\ Len(stdout') = Len(stdout) + 1
        /\ Runs(stdout', 2 * dispatched + Len(buffer))
    <3> DEFINE n == 2 * dispatched + Len(buffer)
    <3>1. n \in Int /\ Runs(stdout, n) /\ Number(half) = n + Len(stdout) + 1
      BY <2>1, <2>3, Lengths DEF Pipes
    <3> HIDE DEF n
    <3>2. /\ stdout' \in Seq(OwnMessage) /\ Len(stdout') = Len(stdout) + 1
          /\ Runs(stdout', n)
      BY <1>0, <1>1, <2>0, <3>1, RunsAppend
    <3> QED
      BY <3>2 DEF n
  <2>5. MessagesInv'
    BY <1>0, <2>0, <2>4 DEF IInv, MessagesInv, client, Phases
  <2>6. Read' = Read /\ Written(dispatched)' = Written(dispatched) + 1
    <3>1. Read' = Read
      BY <1>0 DEF Read, client
    <3>2. buffer' = buffer
      BY <1>0 DEF client
    <3>3. Written(dispatched)' = Written(dispatched) + 1
      BY <2>4, <2>11, <3>2 DEF Written
    <3> QED
      BY <3>1, <3>3
  <2>7. Read <= 2 * (nextId - 1)
    BY <2>11 DEF Read
  <2>8. Pipes(dispatched)'
    <3>2. nextId' = nextId /\ Written(dispatched)' = Written(dispatched) + 1
      BY <1>0, <2>6 DEF client
    <3>3. Written(dispatched) + 1 <= Read
      BY <2>2
    <3>1. Written(dispatched)' <= 2 * (nextId' - 1)
      BY <2>2, <2>7, <2>11, <3>2, <3>3
    <3> QED
      BY <1>0, <2>1, <2>4, <2>6, <3>1 DEF client, Pipes, Runs
  <2>14. Read' = 2 * done /\ Written(dispatched)' = 2 * done - 1
    BY <2>2, <2>6
  <2>9. Server(dispatched, done)'
    BY <1>0, <2>0, <2>2, <2>14 DEF Server
  <2>10. Fates(dispatched)'
    BY <1>0, <2>1 DEF client, Fates
  <2>13. FlowInv'
    BY <2>8, <2>9, <2>10 DEF FlowInv
  <2> QED
    BY <1>0, <2>5, <2>13, ServerFrame
<1> QED
  BY <1>2, <1>3 DEF IInv, ClientTypes

LEMMA WriteBodyKeeps == IInv /\ WriteBody => IInv'
<1> SUFFICES ASSUME IInv, WriteBody PROVE IInv' OBVIOUS
<1>0. /\ phase = "write body"
      /\ UNCHANGED <<client, request, response, stdin, ended, failure>>
      /\ stdout \in Seq(OwnMessage) /\ response \in OwnMessage
  BY DEF WriteBody, IInv, MessagesInv
<1>2. CASE host = "gone"
  <2>1. phase' = "gone" /\ stdout' = stdout
    BY <1>2 DEF WriteBody
  <2>2. MessagesInv'
    BY <1>0, <2>1 DEF IInv, MessagesInv, client, Phases
  <2> QED
    BY <1>0, <1>2, <2>2, ServerFrame
<1>3. CASE host = "up"
  <2>0. phase' = "head" /\ stdout' = Append(stdout, response)
    BY <1>3 DEF WriteBody
  <2>1. PICK dispatched, done \in Nat :
          Pipes(dispatched) /\ Server(dispatched, done) /\ Fates(dispatched)
    BY <1>3 DEF IInv, FlowInv
  <2>2. /\ Read = 2 * done /\ Written(dispatched) = 2 * done - 1
        /\ response.id = done /\ response.part = "body"
    BY <1>0, <2>1 DEF Server
  <2>11. /\ Len(buffer) \in Nat /\ Len(stdout) \in Nat /\ Len(stdin) \in Nat
         /\ nextId \in Nat
    BY Lengths
  <2>12. Number(response) = 2 * done
    BY <2>2 DEF Number
  <2>3. Number(response) = 2 * dispatched + Len(buffer) + Len(stdout) + 1
    BY <2>2, <2>11, <2>12 DEF Written
  <2>4. /\ stdout' \in Seq(OwnMessage) /\ Len(stdout') = Len(stdout) + 1
        /\ Runs(stdout', 2 * dispatched + Len(buffer))
    <3> DEFINE n == 2 * dispatched + Len(buffer)
    <3>1. n \in Int /\ Runs(stdout, n) /\ Number(response) = n + Len(stdout) + 1
      BY <2>1, <2>3, Lengths DEF Pipes
    <3> HIDE DEF n
    <3>2. /\ stdout' \in Seq(OwnMessage) /\ Len(stdout') = Len(stdout) + 1
          /\ Runs(stdout', n)
      BY <1>0, <2>0, <3>1, RunsAppend
    <3> QED
      BY <3>2 DEF n
  <2>5. MessagesInv'
    BY <1>0, <2>0, <2>4 DEF IInv, MessagesInv, client, Phases
  <2>6. Read' = Read /\ Written(dispatched)' = Written(dispatched) + 1
    <3>1. Read' = Read
      BY <1>0 DEF Read, client
    <3>2. buffer' = buffer
      BY <1>0 DEF client
    <3>3. Written(dispatched)' = Written(dispatched) + 1
      BY <2>4, <2>11, <3>2 DEF Written
    <3> QED
      BY <3>1, <3>3
  <2>7. Read <= 2 * (nextId - 1)
    BY <2>11 DEF Read
  <2>8. Pipes(dispatched)'
    <3>2. nextId' = nextId /\ Written(dispatched)' = Written(dispatched) + 1
      BY <1>0, <2>6 DEF client
    <3>3. Written(dispatched) + 1 <= Read
      BY <2>2
    <3>1. Written(dispatched)' <= 2 * (nextId' - 1)
      BY <2>2, <2>7, <2>11, <3>2, <3>3
    <3> QED
      BY <1>0, <2>1, <2>4, <2>6, <3>1 DEF client, Pipes, Runs
  <2>14. Read' = 2 * done /\ Written(dispatched)' = 2 * done
    BY <2>2, <2>6
  <2>9. Server(dispatched, done)'
    BY <1>0, <2>0, <2>2, <2>14 DEF Server
  <2>10. Fates(dispatched)'
    BY <1>0, <2>1 DEF client, Fates
  <2>13. FlowInv'
    BY <2>8, <2>9, <2>10 DEF FlowInv
  <2> QED
    BY <1>0, <2>5, <2>13, ServerFrame
<1> QED
  BY <1>2, <1>3 DEF IInv, ClientTypes

LEMMA KilledKeeps == IInv /\ Killed => IInv'
<1> SUFFICES ASSUME IInv, Killed PROVE IInv' OBVIOUS
<1>0. /\ phase' = "gone" /\ failure'
      /\ UNCHANGED <<client, request, response, stdin, ended, stdout>>
  BY DEF Killed
<1>1. MessagesInv'
  BY DEF Killed, IInv, MessagesInv, client, Phases
<1>2. ASSUME host = "up" PROVE FlowInv'
  <2>1. PICK dispatched, done \in Nat :
          Pipes(dispatched) /\ Server(dispatched, done) /\ Fates(dispatched)
    BY <1>2 DEF IInv, FlowInv
  <2>2. Pipes(dispatched)' /\ Fates(dispatched)'
    BY <1>0, <2>1 DEF client, Pipes, Runs, Read, Written, Fates
  <2>3. Server(dispatched, done)'
    BY <1>0 DEF Server
  <2> QED
    BY <2>2, <2>3 DEF FlowInv
<1> QED
  BY <1>0, <1>1, <1>2, ServerFrame

-----------------------------------------------------------------------------
(* The client. *)

(* The order of what flows is the order of the answers. *)
LEMMA FlowMeansOrder == FlowInv => AnswersInOrder
<1> SUFFICES ASSUME FlowInv PROVE AnswersInOrder OBVIOUS
<1>1. PICK dispatched \in Nat : Fates(dispatched)
  BY DEF FlowInv
<1> QED
  BY <1>1, OwnFields DEF Fates, AnswersInOrder

LEMMA CallKeeps == IInv /\ Call => IInv'
<1> SUFFICES ASSUME IInv, Call PROVE IInv' OBVIOUS
<1> DEFINE c == made + 1
           head == [part |-> "head", id |-> c, re |-> c]
           body == [part |-> "body", id |-> c, re |-> c]
<1>0. /\ host = "up" /\ made < MaxCalls /\ ~closed
      /\ UNCHANGED <<answerTo, closed, buffer, host, closeSeen, server, ended, stdout, failure>>
      /\ ClientTypes /\ MessagesInv /\ CallsInv
  BY DEF Call, HostIdle, IInv
<1>1. nextId = c /\ c \in Calls /\ c \in Nat \ {0}
  BY <1>0, MaxCallsOK DEF CallsInv, ClientTypes, Calls
<1>2. /\ made' = c /\ nextId' = c + 1
      /\ fate' = [fate EXCEPT ![c] = "waiting"]
      /\ pending' = [pending EXCEPT ![c] = c]
      /\ stdin' = stdin \o <<head, body>>
  BY <1>1 DEF Call, FreshId
<1>3. head \in OwnRequest /\ body \in OwnRequest /\ Number(head) = 2 * c - 1 /\ Number(body) = 2 * c
  BY <1>1, OwnFields DEF OwnRequest, Request, Number
<1> HIDE DEF head, body
<1>4. /\ <<head, body>> \in Seq(OwnRequest) /\ Len(<<head, body>>) = 2
      /\ <<head, body>>[1] = head /\ <<head, body>>[2] = body
  BY <1>3
<1>5. Len(stdin) \in Nat /\ stdin \in Seq(OwnRequest) /\ Read \in Int
      /\ Read + Len(stdin) = 2 * c - 2
  <2>1. Len(stdin) \in Nat /\ stdin \in Seq(OwnRequest) /\ Read \in Int
    BY <1>0, Lengths DEF MessagesInv
  <2> QED
    BY <1>1, <2>1 DEF Read
<1>6. Runs(<<head, body>>, Read + Len(stdin))
  BY <1>1, <1>3, <1>4, <1>5 DEF Runs
<1>7. stdin' \in Seq(OwnRequest) /\ Len(stdin') = Len(stdin) + 2
  BY <1>2, <1>4, <1>5, ConcatProperties
<1>8. ClientTypes'
  <2>1. made' \in 0..MaxCalls /\ nextId' \in 1..(MaxCalls + 1)
    BY <1>0, <1>1, <1>2, MaxCallsOK DEF ClientTypes
  <2>2. /\ fate' \in [Calls -> {"unmade", "waiting", "rejected", "refused"} \cup Answers]
        /\ pending' \in [Ids -> Calls \cup {Null}]
    BY <1>0, <1>1, <1>2, OwnFields DEF ClientTypes
  <2> QED
    BY <1>0, <2>1, <2>2 DEF ClientTypes
<1>9. MessagesInv'
  BY <1>0, <1>7 DEF MessagesInv, server
<1>10. CallsInv'
  <2>1. fate \in [Calls -> {"unmade", "waiting", "rejected", "refused"} \cup Answers]
        /\ pending \in [Calls -> Calls \cup {Null}] /\ made \in Nat
    BY <1>0, OwnFields, Lengths DEF ClientTypes
  <2>2. \A d \in Calls : /\ fate'[d] = IF d = c THEN "waiting" ELSE fate[d]
                         /\ pending'[d] = IF d = c THEN c ELSE pending[d]
    BY <1>1, <1>2, <2>1
  <2>3. \A d \in Calls : d \in Nat /\ (d > made' <=> d > made /\ d # c)
    BY <1>2, <2>1, OwnFields
  <2>4. \A d \in Calls : d > made' <=> fate'[d] = "unmade"
    BY <1>0, <2>2, <2>3 DEF CallsInv
  <2>5. \A d \in Calls : d >= nextId' => fate'[d] \in {"unmade", "refused"}
    BY <1>0, <1>1, <1>2, <2>2, <2>3 DEF CallsInv
  <2>6. \A d \in Calls : pending'[d] = IF fate'[d] = "waiting" THEN d ELSE Null
    BY <1>0, <2>2 DEF CallsInv
  <2>7. nextId' = made' + 1
    BY <1>2
  <2> QED
    BY <1>0, <1>1, <2>1, <1>2, <2>4, <2>5, <2>6, <2>7 DEF CallsInv
<1>11. FlowInv'
  <2>1. PICK dispatched, done \in Nat :
          Pipes(dispatched) /\ Server(dispatched, done) /\ Fates(dispatched)
    BY <1>0 DEF IInv, FlowInv
  <2>2. Runs(stdin', Read)
    BY <1>2, <1>4, <1>5, <1>6, <2>1, RunsConcat DEF Pipes
  <2>3. Read' = Read
    BY <1>1, <1>2, <1>5, <1>7 DEF Read
  <2>4. Written(dispatched)' = Written(dispatched) /\ Written(dispatched) \in Int
    BY <1>0, Lengths DEF Written
  <2>5. Pipes(dispatched)'
    <3>1. Written(dispatched)' <= 2 * (nextId' - 1)
      <4>1. Written(dispatched) <= 2 * (c - 1)
        BY <1>1, <2>1 DEF Pipes
      <4>2. nextId' - 1 = c
        BY <1>1, <1>2
      <4> QED
        BY <1>1, <2>4, <4>1, <4>2
    <3> QED
      BY <1>0, <2>1, <2>2, <2>3, <3>1 DEF Pipes, Runs
  <2>6. Server(dispatched, done)'
    BY <1>0, <2>1, <2>3, <2>4 DEF Server, server
  <2>7. Fates(dispatched)'
    <3>1. dispatched < c
      <4>1. Len(buffer) \in Nat /\ Len(stdout) \in Nat
        BY Lengths
      <4>2. Written(dispatched) <= 2 * (c - 1)
        BY <1>1, <2>1 DEF Pipes
      <4>3. 2 * dispatched + Len(buffer) + Len(stdout) <= 2 * (c - 1)
        BY <4>2 DEF Written
      <4> QED
        BY <1>1, <4>1, <4>3
    <3>2. \A d \in Calls : fate'[d] = IF d = c THEN "waiting" ELSE fate[d]
      BY <1>0, <1>1, <1>2 DEF ClientTypes
    <3> QED
      BY <1>1, <2>1, <3>1, <3>2, OwnFields DEF Fates, Answers
  <2> QED
    BY <2>5, <2>6, <2>7 DEF FlowInv
<1>12. AnswersInOrder'
  BY <1>11, FlowMeansOrder, PTL
<1>13. AnswersMatch' /\ OnlyFailureRejects'
  BY <1>0, <1>1, <1>2 DEF IInv, AnswersMatch, OnlyFailureRejects, Answers, ClientTypes
<1> QED
  BY <1>8, <1>9, <1>10, <1>11, <1>12, <1>13 DEF IInv

LEMMA CallRefusedKeeps == IInv /\ CallRefused => IInv'
<1> SUFFICES ASSUME IInv, CallRefused PROVE IInv' OBVIOUS
<1> DEFINE c == made + 1
<1>0. /\ host = "up" /\ made < MaxCalls /\ closed /\ made' = c
      /\ fate' = [fate EXCEPT ![c] = "refused"]
      /\ UNCHANGED <<answerTo, nextId, pending, closed, buffer, host, closeSeen, server, stdin,
                     ended, stdout, failure>>
      /\ ClientTypes /\ MessagesInv /\ CallsInv
  BY DEF CallRefused, HostIdle, IInv
<1>1. c \in Calls /\ c \in Nat \ {0} /\ nextId \in Nat /\ nextId <= c /\ fate[c] = "unmade"
  BY <1>0, MaxCallsOK DEF ClientTypes, CallsInv, Calls
<1>2. \A d \in Calls : fate'[d] = IF d = c THEN "refused" ELSE fate[d]
  BY <1>0, <1>1 DEF ClientTypes
<1>3. ClientTypes'
  BY <1>0, <1>1 DEF ClientTypes, Calls
<1>4. MessagesInv'
  BY <1>0 DEF MessagesInv, server
<1>5. CallsInv'
  <2>1. \A d \in Calls : d \in Nat /\ (d > made' <=> d > made /\ d # c)
    BY <1>0, Lengths, OwnFields
  <2>2. \A d \in Calls : d > made' <=> fate'[d] = "unmade"
    BY <1>0, <1>2, <2>1 DEF CallsInv
  <2>3. \A d \in Calls : d >= nextId' => fate'[d] \in {"unmade", "refused"}
    BY <1>0, <1>2 DEF CallsInv
  <2>4. \A d \in Calls : pending'[d] = IF fate'[d] = "waiting" THEN d ELSE Null
    BY <1>0, <1>1, <1>2 DEF CallsInv
  <2>5. nextId' <= made' + 1
    BY <1>0, <1>1
  <2> QED
    BY <1>0, <2>2, <2>3, <2>4, <2>5 DEF CallsInv
<1>6. FlowInv'
  <2>1. PICK dispatched, done \in Nat :
          Pipes(dispatched) /\ Server(dispatched, done) /\ Fates(dispatched)
    BY <1>0 DEF IInv, FlowInv
  <2>2. Pipes(dispatched)' /\ Server(dispatched, done)'
    BY <1>0, <2>1 DEF Pipes, Runs, Read, Written, Server, server
  <2>3. Fates(dispatched)'
    BY <1>2, <2>1 DEF Fates, Answers
  <2> QED
    BY <2>2, <2>3 DEF FlowInv
<1>7. AnswersInOrder'
  BY <1>6, FlowMeansOrder, PTL
<1>8. AnswersMatch' /\ OnlyFailureRejects'
  BY <1>0, <1>2 DEF IInv, AnswersMatch, OnlyFailureRejects, Answers
<1> QED
  BY <1>3, <1>4, <1>5, <1>6, <1>7, <1>8 DEF IInv

LEMMA DataKeeps == ASSUME IInv, NEW n \in 1..Len(stdout), Data(n) PROVE IInv'
<1>0. /\ host = "up"
      /\ buffer' = buffer \o SubSeq(stdout, 1, n)
      /\ stdout' = SubSeq(stdout, n + 1, Len(stdout))
      /\ UNCHANGED <<made, fate, answerTo, nextId, pending, closed, host, closeSeen, server, stdin,
                     ended, failure>>
      /\ ClientTypes /\ MessagesInv /\ CallsInv
  BY DEF Data, HostIdle, IInv
<1>1. /\ buffer \in Seq(OwnMessage) /\ stdout \in Seq(OwnMessage)
      /\ Len(buffer) \in Nat /\ Len(stdout) \in Nat
  BY <1>0, Lengths DEF MessagesInv
<1>2. PICK dispatched, done \in Nat :
        Pipes(dispatched) /\ Server(dispatched, done) /\ Fates(dispatched)
  BY <1>0 DEF IInv, FlowInv
<1> DEFINE first == 2 * dispatched + Len(buffer)
<1>3. first \in Int /\ Runs(buffer, 2 * dispatched) /\ Runs(stdout, first)
  BY <1>1, <1>2 DEF Pipes
<1>4. /\ SubSeq(stdout, 1, n) \in Seq(OwnMessage) /\ Len(SubSeq(stdout, 1, n)) = n
      /\ Runs(SubSeq(stdout, 1, n), first)
  <2> HIDE DEF first
  <2>1. /\ SubSeq(stdout, 1, n) \in Seq(OwnMessage) /\ Len(SubSeq(stdout, 1, n)) = n - 1 + 1
        /\ Runs(SubSeq(stdout, 1, n), first + 1 - 1)
    <3>1. 1 \in 1..(Len(stdout) + 1) /\ n \in (1 - 1)..Len(stdout)
      BY <1>1
    <3> QED
      BY <1>1, <1>3, <3>1, RunsSubSeq
  <2>2. n - 1 + 1 = n /\ first + 1 - 1 = first
    BY <1>3
  <2> QED
    BY <2>1, <2>2
<1>5. /\ stdout' \in Seq(OwnMessage) /\ Len(stdout') = Len(stdout) - n
      /\ Runs(stdout', first + n)
  <2> HIDE DEF first
  <2>1. /\ SubSeq(stdout, n + 1, Len(stdout)) \in Seq(OwnMessage)
        /\ Len(SubSeq(stdout, n + 1, Len(stdout))) = Len(stdout) - (n + 1) + 1
        /\ Runs(SubSeq(stdout, n + 1, Len(stdout)), first + (n + 1) - 1)
    <3>1. n + 1 \in 1..(Len(stdout) + 1) /\ Len(stdout) \in ((n + 1) - 1)..Len(stdout)
      BY <1>1
    <3> QED
      BY <1>1, <1>3, <3>1, RunsSubSeq
  <2>2. Len(stdout) - (n + 1) + 1 = Len(stdout) - n /\ first + (n + 1) - 1 = first + n
    BY <1>1, <1>3
  <2> QED
    BY <1>0, <2>1, <2>2
<1>6. /\ buffer' \in Seq(OwnMessage) /\ Len(buffer') = Len(buffer) + n
      /\ Runs(buffer', 2 * dispatched)
  <2> DEFINE t == SubSeq(stdout, 1, n)
  <2>1. t \in Seq(OwnMessage) /\ Len(t) = n /\ Runs(t, 2 * dispatched + Len(buffer))
    BY <1>4
  <2>2. buffer' = buffer \o t /\ 2 * dispatched \in Int
    BY <1>0
  <2> HIDE DEF t
  <2> QED
    BY <1>1, <1>3, <2>1, <2>2, RunsConcat
<1>7. ClientTypes' /\ CallsInv'
  BY <1>0 DEF ClientTypes, CallsInv
<1>8. MessagesInv'
  BY <1>0, <1>5, <1>6 DEF MessagesInv, server
<1>9. FlowInv'
  <2>1. Read' = Read /\ nextId' = nextId
    BY <1>0 DEF Read
  <2>2. Written(dispatched)' = Written(dispatched)
    BY <1>1, <1>5, <1>6 DEF Written
  <2>3. Runs(stdout', 2 * dispatched + Len(buffer'))
    <3>1. 2 * dispatched + Len(buffer') = first + n
      BY <1>1, <1>6
    <3> QED
      BY <1>5, <3>1
  <2>4. Pipes(dispatched)'
    BY <1>0, <1>2, <1>6, <2>1, <2>2, <2>3 DEF Pipes, Runs
  <2>5. Server(dispatched, done)'
    BY <1>0, <1>2, <2>1, <2>2 DEF Server, server
  <2>6. Fates(dispatched)'
    BY <1>0, <1>2 DEF Fates
  <2> QED
    BY <2>4, <2>5, <2>6 DEF FlowInv
<1>10. AnswersInOrder' /\ AnswersMatch' /\ OnlyFailureRejects'
  BY <1>0 DEF IInv, AnswersInOrder, AnswersMatch, OnlyFailureRejects
<1> QED
  BY <1>7, <1>8, <1>9, <1>10 DEF IInv

(* Where a whole message is in the buffer it is the next one in the order. *)
LEMMA NextMessage ==
  ASSUME IInv, NEW dispatched \in Nat, Pipes(dispatched), Bodies(buffer) # {}
  PROVE  /\ Len(buffer) >= 2 /\ buffer[2] \in OwnMessage
         /\ buffer[2].id = dispatched + 1 /\ dispatched + 1 \in Calls
         /\ buffer[2].re = dispatched + 1 /\ buffer[2].as \in Answers
<1>1. buffer \in Seq(OwnMessage) /\ Len(buffer) \in Nat /\ DOMAIN buffer = 1..Len(buffer)
  BY LenProperties DEF IInv, MessagesInv
<1>2. \A i \in 1..Len(buffer) : /\ buffer[i] \in OwnMessage
                               /\ Number(buffer[i]) = 2 * dispatched + i
  BY <1>1, ElementOfSeq DEF Pipes, Runs
<1>3. PICK i \in 1..Len(buffer) : buffer[i].part = "body"
  BY <1>1 DEF Bodies
<1>4. i # 1
  <2>1. buffer[i].id \in Nat /\ 2 * buffer[i].id = 2 * dispatched + i
    BY <1>2, <1>3, OwnFields DEF Number
  <2> QED
    BY <2>1
<1>5. 2 \in 1..Len(buffer) /\ Len(buffer) >= 2
  BY <1>1, <1>4
<1>6. buffer[2] \in OwnMessage /\ Number(buffer[2]) = 2 * dispatched + 2
  BY <1>2, <1>5
<1>7. buffer[2].part \in {"head", "body"} /\ buffer[2].id \in Nat
  BY <1>6, OwnFields
<1>8. buffer[2].id = dispatched + 1
  BY <1>6, <1>7 DEF Number
<1>9. /\ buffer[2].id \in Calls \cup {Null} /\ Null = 0
      /\ buffer[2].re = buffer[2].id /\ buffer[2].as \in Answers
  BY <1>6, OwnFields
<1> QED
  BY <1>5, <1>6, <1>8, <1>9

LEMMA DispatchKeeps == IInv /\ Dispatch => IInv'
<1> SUFFICES ASSUME IInv, Dispatch PROVE IInv' OBVIOUS
<1>0. /\ host = "up" /\ Bodies(buffer) # {}
      /\ buffer' = SubSeq(buffer, 3, Len(buffer))
      /\ UNCHANGED <<made, nextId, closed, host, closeSeen, server, stdin, ended, stdout, failure>>
      /\ ClientTypes /\ MessagesInv /\ CallsInv /\ AnswersMatch /\ OnlyFailureRejects
  BY DEF Dispatch, Consumed, IInv
<1>1. PICK dispatched, done \in Nat :
        Pipes(dispatched) /\ Server(dispatched, done) /\ Fates(dispatched)
  BY <1>0 DEF IInv, FlowInv
<1> DEFINE c == dispatched + 1
           as == buffer[2].as
<1>2. /\ Len(buffer) >= 2 /\ buffer[2].id = c /\ c \in Calls /\ c \in Nat \ {0}
      /\ buffer[2].re = c /\ as \in Answers /\ Null = 0
  BY <1>0, <1>1, NextMessage, OwnFields
<1> HIDE DEF c, as
<1>3. /\ fate \in [Calls -> {"unmade", "waiting", "rejected", "refused"} \cup Answers]
      /\ answerTo \in [Calls -> Calls \cup {Null}]
      /\ pending \in [Calls -> Calls \cup {Null}]
      /\ pending[c] = IF fate[c] = "waiting" THEN c ELSE Null
  BY <1>0, <1>2, OwnFields DEF ClientTypes, CallsInv
<1>4. IF fate[c] = "waiting"
      THEN /\ fate' = [fate EXCEPT ![c] = as]
           /\ answerTo' = [answerTo EXCEPT ![c] = c]
           /\ pending' = [pending EXCEPT ![c] = Null]
      ELSE UNCHANGED <<fate, answerTo, pending>>
  BY <1>2, <1>3 DEF Dispatch, AfterDispatch, as
<1>5. \A d \in Calls :
        /\ fate'[d] = IF d = c /\ fate[c] = "waiting" THEN as ELSE fate[d]
        /\ answerTo'[d] = IF d = c /\ fate[c] = "waiting" THEN c ELSE answerTo[d]
        /\ pending'[d] = IF d = c THEN Null ELSE pending[d]
  BY <1>2, <1>3, <1>4
<1>6. /\ fate' \in [Calls -> {"unmade", "waiting", "rejected", "refused"} \cup Answers]
      /\ answerTo' \in [Calls -> Calls \cup {Null}]
      /\ pending' \in [Calls -> Calls \cup {Null}]
  BY <1>2, <1>3, <1>4
<1>7. ClientTypes'
  BY <1>0, <1>6, OwnFields DEF ClientTypes
<1>8. /\ buffer' \in Seq(OwnMessage) /\ Len(buffer') = Len(buffer) - 2
      /\ Runs(buffer', 2 * c) /\ Len(buffer) \in Nat /\ Len(stdout) \in Nat
  <2>1. /\ buffer \in Seq(OwnMessage) /\ Len(buffer) \in Nat /\ Len(stdout) \in Nat
        /\ Runs(buffer, 2 * dispatched) /\ 2 * dispatched \in Int
    BY <1>0, <1>1, Lengths DEF MessagesInv, Pipes
  <2>2. 3 \in 1..(Len(buffer) + 1) /\ Len(buffer) \in (3 - 1)..Len(buffer)
    BY <1>2, <2>1
  <2>3. /\ buffer' \in Seq(OwnMessage) /\ Len(buffer') = Len(buffer) - 3 + 1
        /\ Runs(buffer', 2 * dispatched + 3 - 1)
    BY <1>0, <2>1, <2>2, RunsSubSeq
  <2>4. Len(buffer) - 3 + 1 = Len(buffer) - 2 /\ 2 * dispatched + 3 - 1 = 2 * c
    BY <2>1 DEF c
  <2> QED
    BY <2>1, <2>3, <2>4
<1>9. MessagesInv'
  BY <1>0, <1>8 DEF MessagesInv, server
<1>10. CallsInv'
  <2>1. \A d \in Calls : fate'[d] = "unmade" <=> fate[d] = "unmade"
    BY <1>2, <1>5 DEF Answers
  <2>2. \A d \in Calls : fate[d] \in {"unmade", "refused"} => fate'[d] = fate[d]
    BY <1>5
  <2>3. \A d \in Calls : pending'[d] = IF fate'[d] = "waiting" THEN d ELSE Null
    BY <1>0, <1>2, <1>3, <1>5 DEF CallsInv, Answers
  <2> QED
    BY <1>0, <2>1, <2>2, <2>3 DEF CallsInv
<1>11. FlowInv'
  <2>1. Read' = Read /\ nextId' = nextId
    BY <1>0 DEF Read
  <2>2. Written(c)' = Written(dispatched)
    <3>1. stdout' = stdout /\ Len(buffer') = Len(buffer) - 2
      BY <1>0, <1>8
    <3> QED
      BY <1>8, <3>1 DEF Written, c
  <2>3. Runs(stdout', 2 * c + Len(buffer'))
    <3>1. 2 * c + Len(buffer') = 2 * dispatched + Len(buffer)
      BY <1>8 DEF c
    <3> QED
      BY <1>0, <1>1, <3>1 DEF Pipes
  <2>4. Pipes(c)'
    BY <1>0, <1>1, <1>8, <2>1, <2>2, <2>3 DEF Pipes, Runs
  <2>5. Server(c, done)'
    BY <1>0, <1>1, <2>1, <2>2 DEF Server, server
  <2>6. Fates(c)'
    <3>1. \A d \in Calls : d \in Nat /\ (d <= c <=> d <= dispatched \/ d = c)
      BY OwnFields DEF c
    <3> QED
      BY <1>1, <1>2, <1>5, <3>1 DEF Fates, Answers
  <2> QED
    BY <1>2, <2>4, <2>5, <2>6 DEF FlowInv
<1>12. AnswersInOrder'
  BY <1>11, FlowMeansOrder, PTL
<1>13. AnswersMatch' /\ OnlyFailureRejects'
  BY <1>0, <1>2, <1>5 DEF AnswersMatch, OnlyFailureRejects, Answers
<1> QED
  BY <1>0, <1>7, <1>9, <1>10, <1>11, <1>12, <1>13 DEF IInv

(* What waits is what is pending. *)
LEMMA RejectsTheWaiting ==
  ASSUME IInv, RejectAll
  PROVE  /\ fate' = [c \in Calls |-> IF fate[c] = "waiting" THEN "rejected" ELSE fate[c]]
         /\ pending' = [i \in Ids |-> Null]
         /\ fate' \in [Calls -> {"unmade", "waiting", "rejected", "refused"} \cup Answers]
         /\ pending' \in [Ids -> Calls \cup {Null}]
<1>1. \A c \in Calls : (\E i \in Ids : pending[i] = c) <=> fate[c] = "waiting"
  BY OwnFields DEF IInv, CallsInv
<1>2. fate' = [c \in Calls |-> IF fate[c] = "waiting" THEN "rejected" ELSE fate[c]]
  BY <1>1 DEF RejectAll
<1> QED
  BY <1>2 DEF RejectAll, IInv, ClientTypes

(* A client that closes and rejects all its calls, when they are none or   *)
(* the process has failed.                                                 *)
LEMMA RejectKeeps ==
  ASSUME IInv, RejectAll, closed',
         UNCHANGED <<made, answerTo, nextId, buffer, host, request, response, stdin, ended, stdout>>,
         closeSeen' \in BOOLEAN, phase' = "gone", failure' \in BOOLEAN, failure => failure',
         host = "up",
         failure' \/ (phase = "gone" /\ \A c \in Calls : fate[c] # "waiting")
  PROVE  IInv'
<1>0. ClientTypes /\ MessagesInv /\ CallsInv /\ AnswersMatch /\ OnlyFailureRejects
  BY DEF IInv
<1>1. /\ \A c \in Calls : fate'[c] = IF fate[c] = "waiting" THEN "rejected" ELSE fate[c]
      /\ \A c \in Calls : pending'[c] = Null
      /\ fate' \in [Calls -> {"unmade", "waiting", "rejected", "refused"} \cup Answers]
      /\ pending' \in [Ids -> Calls \cup {Null}]
  BY RejectsTheWaiting, OwnFields
<1>2. ClientTypes'
  BY <1>0, <1>1 DEF ClientTypes
<1>3. MessagesInv'
  BY <1>0 DEF MessagesInv, Phases
<1>4. CallsInv'
  BY <1>0, <1>1 DEF CallsInv
<1>5. FlowInv'
  <2>1. PICK dispatched, done \in Nat :
          Pipes(dispatched) /\ Server(dispatched, done) /\ Fates(dispatched)
    BY DEF IInv, FlowInv
  <2>2. Pipes(dispatched)'
    BY <2>1 DEF Pipes, Runs, Read, Written
  <2>3. Server(dispatched, done)'
    BY <2>1 DEF Server, Written
  <2>4. Fates(dispatched)'
    BY <1>1, <2>1 DEF Fates, Answers
  <2> QED
    BY <2>2, <2>3, <2>4 DEF FlowInv
<1>6. AnswersInOrder'
  BY <1>5, FlowMeansOrder, PTL
<1>7. AnswersMatch' /\ OnlyFailureRejects'
  BY <1>0, <1>1 DEF AnswersMatch, OnlyFailureRejects, Answers
<1> QED
  BY <1>2, <1>3, <1>4, <1>5, <1>6, <1>7 DEF IInv

LEMMA SpawnErrorKeeps == IInv /\ SpawnError => IInv'
<1> SUFFICES ASSUME IInv, SpawnError PROVE IInv' OBVIOUS
<1>1. closeSeen \in BOOLEAN
  BY DEF IInv, ClientTypes
<1> QED
  BY <1>1, RejectKeeps DEF SpawnError, HostIdle

(* A process that ended by itself has answered all it was asked, and what  *)
(* it has written is dispatched by the time its 'close' event comes.       *)
LEMMA NothingLeft ==
  ASSUME IInv, HostIdle, ProcessGone, ~failure
  PROVE  \A c \in Calls : fate[c] # "waiting"
<1>1. PICK dispatched, done \in Nat :
        Pipes(dispatched) /\ Server(dispatched, done) /\ Fates(dispatched)
  BY DEF HostIdle, IInv, FlowInv
<1>2. /\ Written(dispatched) = 2 * (nextId - 1) /\ Len(stdout) = 0
      /\ buffer \in Seq(OwnMessage) /\ Len(buffer) \in Nat /\ nextId \in Nat
      /\ DOMAIN buffer = 1..Len(buffer)
  BY <1>1, Lengths, LenProperties DEF Server, ProcessGone, IInv, MessagesInv
<1>3. Len(buffer) < 2
  <2> SUFFICES ASSUME Len(buffer) >= 2 PROVE FALSE
    BY <1>2
  <2>1. 2 \in 1..Len(buffer) /\ buffer[2] \in OwnMessage
    BY <1>2, ElementOfSeq
  <2>2. /\ Number(buffer[2]) = 2 * dispatched + 2
        /\ buffer[2].part \in {"head", "body"} /\ buffer[2].id \in Nat
    BY <1>1, <2>1, OwnFields DEF Pipes, Runs
  <2>3. buffer[2].part = "body"
    BY <2>2 DEF Number
  <2> QED
    BY <1>2, <2>1, <2>3 DEF HostIdle, Bodies
<1>4. 2 * dispatched + Len(buffer) = 2 * (nextId - 1)
  BY <1>2 DEF Written
<1>5. dispatched = nextId - 1
  BY <1>2, <1>3, <1>4
<1> QED
  BY <1>1, <1>2, <1>5, OwnFields DEF Fates, IInv, CallsInv

LEMMA ProcessCloseKeeps == IInv /\ ProcessClose => IInv'
<1> SUFFICES ASSUME IInv, ProcessClose PROVE IInv' OBVIOUS
<1>1. failure' \in BOOLEAN /\ failure' = failure
  BY DEF ProcessClose, IInv, MessagesInv
<1>2. failure' \/ (phase = "gone" /\ \A c \in Calls : fate[c] # "waiting")
  BY <1>1, NothingLeft DEF ProcessClose, ProcessGone
<1> QED
  BY <1>1, <1>2, RejectKeeps DEF ProcessClose, ProcessGone, HostIdle, server

LEMMA DisposeKeeps == IInv /\ Dispose => IInv'
<1> SUFFICES ASSUME IInv, Dispose PROVE IInv' OBVIOUS
<1>0. /\ host = "up" /\ closed' /\ ended' = TRUE /\ closed' = TRUE
      /\ UNCHANGED <<made, fate, answerTo, nextId, pending, buffer, host, closeSeen, server, stdin,
                     stdout, failure>>
      /\ ClientTypes /\ MessagesInv /\ CallsInv
  BY DEF Dispose, HostIdle, IInv
<1>1. ClientTypes' /\ MessagesInv' /\ CallsInv'
  BY <1>0 DEF ClientTypes, MessagesInv, CallsInv, server
<1>2. FlowInv'
  <2>1. PICK dispatched, done \in Nat :
          Pipes(dispatched) /\ Server(dispatched, done) /\ Fates(dispatched)
    BY <1>0 DEF IInv, FlowInv
  <2>2. Pipes(dispatched)' /\ Server(dispatched, done)' /\ Fates(dispatched)'
    BY <1>0, <2>1 DEF Pipes, Runs, Read, Written, Server, Fates, server
  <2> QED
    BY <2>2 DEF FlowInv
<1>3. AnswersInOrder' /\ AnswersMatch' /\ OnlyFailureRejects'
  BY <1>0 DEF IInv, AnswersInOrder, AnswersMatch, OnlyFailureRejects
<1> QED
  BY <1>1, <1>2, <1>3 DEF IInv

LEMMA HostDiesKeeps == IInv /\ HostDies => IInv'
<1> SUFFICES ASSUME IInv, HostDies PROVE IInv' OBVIOUS
<1>0. /\ host' = "gone" /\ ended' = TRUE
      /\ UNCHANGED <<made, fate, answerTo, nextId, pending, closed, buffer, closeSeen, server,
                     stdout, failure>>
      /\ ClientTypes /\ MessagesInv /\ CallsInv
  BY DEF HostDies, IInv
<1>1. stdin' \in Seq(OwnRequest)
  <2>1. PICK n \in 0..Len(stdin) : stdin' = SubSeq(stdin, 1, n)
    BY DEF HostDies
  <2>2. stdin \in Seq(OwnRequest) /\ Len(stdin) \in Nat
    BY <1>0, Lengths DEF MessagesInv
  <2>3. \A i \in 1..n : stdin[i] \in OwnRequest
    BY <2>1, <2>2, ElementOfSeq
  <2> QED
    BY <2>1, <2>2, <2>3, SubSeqProperties
<1>2. ClientTypes' /\ MessagesInv' /\ CallsInv'
  BY <1>0, <1>1 DEF ClientTypes, MessagesInv, CallsInv, server
<1>3. AnswersInOrder' /\ AnswersMatch' /\ OnlyFailureRejects'
  BY <1>0 DEF IInv, AnswersInOrder, AnswersMatch, OnlyFailureRejects
<1> QED
  BY <1>0, <1>2, <1>3 DEF IInv

LEMMA StutterKeeps == IInv /\ UNCHANGED vars => IInv'
<1> SUFFICES ASSUME IInv, UNCHANGED vars PROVE IInv' OBVIOUS
<1>1. MessagesInv'
  BY DEF IInv, MessagesInv, vars, client, server
<1>2. FlowInv => FlowInv'
  <2>1. ASSUME NEW dispatched \in Nat, NEW done \in Nat,
               Pipes(dispatched), Server(dispatched, done), Fates(dispatched)
        PROVE  Pipes(dispatched)' /\ Server(dispatched, done)' /\ Fates(dispatched)'
    BY <2>1 DEF vars, client, server, Pipes, Runs, Read, Written, Server, Fates
  <2> QED
    BY <2>1 DEF FlowInv
<1>3. UNCHANGED <<client, ended, failure>>
  BY DEF vars
<1> QED
  BY <1>1, <1>2, <1>3, ServerFrame DEF IInv

LEMMA NextInv == IInv /\ [Next]_vars => IInv'
  BY ServerStartKeeps, ReadHeadKeeps, ReadBodyKeeps, EofExitKeeps, TruncatedKeeps, HandleKeeps,
     WriteHeadKeeps, WriteBodyKeeps, KilledKeeps, CallKeeps, CallRefusedKeeps, DataKeeps,
     DispatchKeeps, SpawnErrorKeeps, ProcessCloseKeeps, DisposeKeeps, HostDiesKeeps, StutterKeeps
     DEF Next, ServerStep, Receive

(* Client, pipes and server agree on every call, wherever its two messages *)
(* are: the inductive invariant.                                           *)
THEOREM Invariant == Spec => []IInv
  BY InitInv, NextInv, PTL DEF Spec

-----------------------------------------------------------------------------
(* The client, the pipes and the server keep their types. *)
THEOREM TypeCorrect == Spec => []TypeOK
  BY Invariant, IInvTypes, PTL

(* A call is given the answer to its own request (rpc.ts, _dispatch). *)
THEOREM AnsweredByItsOwn == Spec => []AnswersMatch
<1>1. IInv => AnswersMatch
  BY DEF IInv
<1> QED
  BY <1>1, Invariant, PTL

(* No answer overtakes another (RpcServer.serve_forever, _drainBuffer). *)
THEOREM AnsweredInOrder == Spec => []AnswersInOrder
<1>1. IInv => AnswersInOrder
  BY DEF IInv
<1> QED
  BY <1>1, Invariant, PTL

(* An accepted call is rejected only when the process has failed (rpc.ts,  *)
(* dispose and _rejectAll).                                                *)
THEOREM RejectedOnFailure == Spec => []OnlyFailureRejects
<1>1. IInv => OnlyFailureRejects
  BY DEF IInv
<1> QED
  BY <1>1, Invariant, PTL

-----------------------------------------------------------------------------
(* The refinement: what the callers see of the client. *)

View == [c \in Calls |-> IF host = "gone" /\ fate[c] = "waiting" THEN "rejected" ELSE fate[c]]

LEMMA ViewStaysUp == IInv /\ IInv' /\ host = "up" /\ host' = "up" => View = fate /\ View' = fate'
  BY DEF IInv, ClientTypes, View

(* The number of the next call. *)
LEMMA NextCall ==
  ASSUME IInv, made < MaxCalls
  PROVE  /\ made + 1 \in Calls /\ fate[made + 1] = "unmade"
         /\ \A d \in Calls : d < made + 1 => fate[d] # "unmade"
<1>1. made \in Nat /\ made + 1 \in Nat /\ made + 1 > made
  BY Lengths
<1>2. made + 1 \in Calls
  BY <1>1, MaxCallsOK DEF Calls
<1>3. \A d \in Calls : d \in Nat /\ (d > made <=> fate[d] = "unmade")
  BY OwnFields DEF IInv, CallsInv
<1>4. \A d \in Calls : d < made + 1 => ~(d > made)
  BY <1>1, <1>3
<1> QED
  BY <1>1, <1>2, <1>3, <1>4

LEMMA ViewInit == Init => CallsView!Init
  BY DEF Init, CallsView!Init, CallsView!Calls, Calls, Null

(* Server steps and chunks of data are not seen. *)
LEMMA Unseen ==
  UNCHANGED <<fate, answerTo, closed, host>> => UNCHANGED CallsView!vars
  BY DEF CallsView!vars

LEMMA SeenStep ==
  ASSUME IInv, IInv', Next
  PROVE  CallsView!Next \/ UNCHANGED CallsView!vars
<1>1. CASE ServerStep \/ Killed \/ \E n \in 1..Len(stdout) : Data(n)
  BY <1>1, Unseen DEF ServerStep, ServerStart, ReadHead, ReadBody, EofExit, Truncated, Handle,
     WriteHead, WriteBody, Killed, Data, client
<1>2. CASE Call
  <2>0. PICK c \in Nat : c = made + 1
    BY Lengths
  <2>1. /\ host = "up" /\ host' = "up" /\ ~closed /\ closed' = closed /\ answerTo' = answerTo
        /\ fate' = [fate EXCEPT ![c] = "waiting"] /\ made < MaxCalls
    BY <1>2, <2>0 DEF Call, HostIdle
  <2>4. /\ c \in Calls /\ fate[c] = "unmade"
        /\ \A d \in Calls : d < c => fate[d] # "unmade"
    BY <2>0, <2>1, NextCall
  <2>2. View = fate /\ View' = fate'
    BY <2>1, ViewStaysUp
  <2>3. CallsView!Make(c)
    BY <2>1, <2>2, <2>4 DEF CallsView!Make, CallsView!Calls, Calls, View
  <2>5. c \in CallsView!Calls
    BY <2>4 DEF CallsView!Calls, Calls
  <2>6. \E d \in CallsView!Calls : CallsView!Make(d)
    BY <2>3, <2>5
  <2> QED
    BY <2>6 DEF CallsView!Next
<1>3. CASE CallRefused
  <2>0. PICK c \in Nat : c = made + 1
    BY Lengths
  <2>1. /\ host = "up" /\ host' = "up" /\ closed /\ closed' = closed /\ answerTo' = answerTo
        /\ fate' = [fate EXCEPT ![c] = "refused"] /\ made < MaxCalls
    BY <1>3, <2>0 DEF CallRefused, HostIdle
  <2>4. /\ c \in Calls /\ fate[c] = "unmade"
        /\ \A d \in Calls : d < c => fate[d] # "unmade"
    BY <2>0, <2>1, NextCall
  <2>2. View = fate /\ View' = fate'
    BY <2>1, ViewStaysUp
  <2>3. CallsView!Make(c)
    BY <2>1, <2>2, <2>4 DEF CallsView!Make, CallsView!Calls, Calls, View
  <2>5. c \in CallsView!Calls
    BY <2>4 DEF CallsView!Calls, Calls
  <2>6. \E d \in CallsView!Calls : CallsView!Make(d)
    BY <2>3, <2>5
  <2> QED
    BY <2>6 DEF CallsView!Next
<1>4. CASE SpawnError \/ ProcessClose
  <2>1. /\ host = "up" /\ host' = "up" /\ closed' /\ closed' = TRUE /\ answerTo' = answerTo
        /\ RejectAll
    BY <1>4 DEF SpawnError, ProcessClose, HostIdle
  <2>2. fate' = [c \in Calls |-> IF fate[c] = "waiting" THEN "rejected" ELSE fate[c]]
    BY <2>1, RejectsTheWaiting
  <2>3. View = fate /\ View' = fate'
    BY <2>1, ViewStaysUp
  <2>4. CallsView!Abort
    BY <2>1, <2>2, <2>3 DEF CallsView!Abort, CallsView!Waiting, CallsView!Calls, Calls, View
  <2> QED
    BY <2>4 DEF CallsView!Next
<1>5. CASE Dispose
  <2>1. UNCHANGED <<fate, answerTo, host>> /\ closed' = TRUE
    BY <1>5 DEF Dispose
  <2>2. CallsView!Close
    BY <2>1 DEF CallsView!Close
  <2> QED
    BY <2>2 DEF CallsView!Next
<1>6. CASE HostDies
  <2>1. UNCHANGED <<fate, answerTo, closed>> /\ host = "up" /\ host' = "gone"
    BY <1>6 DEF HostDies
  <2>2. CallsView!Abort
    BY <2>1 DEF CallsView!Abort, CallsView!Waiting, CallsView!Calls, Calls
  <2> QED
    BY <2>2 DEF CallsView!Next
<1>7. CASE Dispatch
  <2>1. /\ host = "up" /\ host' = "up" /\ closed' = closed /\ Bodies(buffer) # {}
    BY <1>7 DEF Dispatch
  <2>2. PICK dispatched, done \in Nat :
          Pipes(dispatched) /\ Server(dispatched, done) /\ Fates(dispatched)
    BY <2>1 DEF IInv, FlowInv
  <2> DEFINE c == dispatched + 1
  <2>3. /\ buffer[2].id = c /\ c \in Calls /\ c # Null
        /\ buffer[2].re = c /\ buffer[2].as \in Answers
    BY <2>1, <2>2, NextMessage, OwnFields
  <2>4. CASE fate[c] # "waiting"
    <3>1. pending[c] = Null
      BY <2>3, <2>4 DEF IInv, CallsInv
    <3>2. UNCHANGED <<fate, answerTo>>
      BY <1>7, <2>3, <3>1 DEF Dispatch
    <3> QED
      BY <2>1, <3>2, Unseen
  <2>5. CASE fate[c] = "waiting"
    <3>1. pending[c] = c
      BY <2>3, <2>5 DEF IInv, CallsInv
    <3>2. /\ fate' = [fate EXCEPT ![c] = buffer[2].as]
          /\ answerTo' = [answerTo EXCEPT ![c] = c]
      BY <1>7, <2>3, <3>1 DEF Dispatch
    <3>3. \A d \in Calls : d < c => fate[d] # "waiting"
      BY <2>2, OwnFields DEF Fates
    <3>4. View = fate /\ View' = fate'
      BY <2>1, ViewStaysUp
    <3>5. c \in CallsView!Waiting /\ \A d \in CallsView!Waiting : c <= d
      BY <2>1, <2>3, <2>5, <3>3, OwnFields DEF CallsView!Waiting, CallsView!Calls, Calls
    <3>6. CallsView!Answer(c)
      BY <2>1, <2>3, <3>2, <3>4, <3>5 DEF CallsView!Answer, CallsView!Answers, Answers, View
    <3> QED
      BY <2>3, <3>6 DEF CallsView!Next, CallsView!Calls, Calls
  <2> QED
    BY <2>4, <2>5
<1> QED
  BY <1>1, <1>2, <1>3, <1>4, <1>5, <1>6, <1>7 DEF Next, Receive

(* The client with its pipes and its server does, step by step, only what  *)
(* RpcCalls promises to those who await its calls; that no call waits for  *)
(* ever is left to the runs.                                               *)
THEOREM ImplementsCallsSafely == Spec => CallsView!Spec
<1>1. IInv /\ IInv' /\ [Next]_vars => [CallsView!Next]_(CallsView!vars)
  <2>1. UNCHANGED vars => UNCHANGED CallsView!vars
    BY Unseen DEF vars, client
  <2> QED
    BY <2>1, SeenStep
<1> QED
  BY <1>1, ViewInit, Invariant, PTL DEF Spec, CallsView!Spec

(* A promise that is settled is never settled again (rpc.ts, _dispatch     *)
(* deletes what it settles, _rejectAll clears the map).                    *)
THEOREM SettledForGood == Spec => SettleOnce
<1>1. ASSUME IInv, Next PROVE \A c \in Calls : Settled(c) => fate'[c] = fate[c]
  <2>1. CASE UNCHANGED fate
    BY <2>1
  <2>2. CASE Call \/ CallRefused
    <3>1. made + 1 \in Calls /\ fate[made + 1] = "unmade"
      BY <1>1, <2>2, NextCall DEF Call, CallRefused
    <3>2. \A c \in Calls : c # made + 1 => fate'[c] = fate[c]
      BY <1>1, <2>2, <3>1 DEF Call, CallRefused, IInv, ClientTypes
    <3> QED
      BY <3>1, <3>2 DEF Settled, Answers
  <2>3. CASE SpawnError \/ ProcessClose
    BY <1>1, <2>3, RejectsTheWaiting DEF SpawnError, ProcessClose, Settled, Answers
  <2>4. CASE Dispatch
    <3> DEFINE m == buffer[2]
               call == IF m.id = Null THEN Null ELSE pending[m.id]
    <3>1. PICK dispatched, done \in Nat :
            Pipes(dispatched) /\ Server(dispatched, done) /\ Fates(dispatched)
      BY <1>1, <2>4 DEF Dispatch, IInv, FlowInv
    <3>2. m.id \in Calls /\ m.id # Null
      BY <1>1, <2>4, <3>1, NextMessage, OwnFields DEF Dispatch
    <3>3. pending[m.id] = IF fate[m.id] = "waiting" THEN m.id ELSE Null
      BY <1>1, <3>2 DEF IInv, CallsInv
    <3>4. CASE fate[m.id] # "waiting"
      BY <2>4, <3>2, <3>3, <3>4 DEF Dispatch
    <3>5. CASE fate[m.id] = "waiting"
      <4>1. fate' = [fate EXCEPT ![m.id] = m.as]
        BY <2>4, <3>2, <3>3, <3>5 DEF Dispatch
      <4> QED
        BY <1>1, <3>2, <3>5, <4>1 DEF Settled, Answers, IInv, ClientTypes
    <3> QED
      BY <3>4, <3>5
  <2>5. UNCHANGED fate \/ Call \/ CallRefused \/ SpawnError \/ ProcessClose \/ Dispatch
    BY <1>1 DEF Next, Receive, ServerStep, ServerStart, ReadHead, ReadBody, EofExit, Truncated,
       Handle, WriteHead, WriteBody, Killed, Data, Dispose, HostDies, client
  <2> QED
    BY <2>1, <2>2, <2>3, <2>4, <2>5
<1>2. IInv /\ [Next]_vars => [\A c \in Calls : Settled(c) => fate'[c] = fate[c]]_vars
  BY <1>1
<1> QED
  BY <1>2, Invariant, PTL DEF Spec, SettleOnce

=============================================================================
