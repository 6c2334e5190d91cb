------------------------------ MODULE RpcCalls ------------------------------
(***************************************************************************)
(* What the extension's RPC client promises to the code that awaits its    *)
(* calls.  Calls are numbered in the order they are made.  A call made     *)
(* after the client has closed fails at once; any other one waits, is      *)
(* answered in its turn with the answer to its own request, or fails       *)
(* together with all that wait when the client learns that its server is   *)
(* gone.  Nothing is settled twice, and nothing waits for ever.            *)
(* RpcChannel, the model of the client, the pipes and the server, is shown *)
(* to implement this.                                                      *)
(***************************************************************************)
EXTENDS Naturals

CONSTANT MaxCalls

Calls == 1..MaxCalls

VARIABLES fate,       \* fate[c]: what became of call c
          answerTo,   \* answerTo[c]: the call whose request c was given the answer to, or 0
          closed      \* the client takes no more calls

vars == <<fate, answerTo, closed>>

Answers == {"result", "error"}

Waiting == {c \in Calls : fate[c] = "waiting"}

Init ==
  /\ fate = [c \in Calls |-> "unmade"]
  /\ answerTo = [c \in Calls |-> 0]
  /\ closed = FALSE

Make(c) ==
  /\ fate[c] = "unmade"
  /\ \A d \in Calls : d < c => fate[d] # "unmade"
  /\ fate' = [fate EXCEPT ![c] = IF closed THEN "refused" ELSE "waiting"]
  /\ UNCHANGED <<answerTo, closed>>

Answer(c) ==
  /\ c \in Waiting
  /\ \A d \in Waiting : c <= d
  /\ \E a \in Answers : fate' = [fate EXCEPT ![c] = a]
  /\ answerTo' = [answerTo EXCEPT ![c] = c]
  /\ UNCHANGED closed

Abort ==
  /\ closed' = TRUE
  /\ fate' = [c \in Calls |-> IF c \in Waiting THEN "rejected" ELSE fate[c]]
  /\ UNCHANGED answerTo

Close ==
  /\ closed' = TRUE
  /\ UNCHANGED <<fate, answerTo>>

Next == Abort \/ Close \/ \E c \in Calls : Make(c) \/ Answer(c)

Spec == Init /\ [][Next]_vars

(* No call waits for ever. *)
Settles == \A c \in Calls : fate[c] = "waiting" ~> fate[c] # "waiting"

LiveSpec == Spec /\ Settles
=============================================================================
