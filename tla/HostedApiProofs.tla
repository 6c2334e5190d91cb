--------------------------- MODULE HostedApiProofs ---------------------------
(***************************************************************************)
(* The safety of HostedApi for every number of connections, slots,         *)
(* requests and exits, and every set of requests asked.                    *)
(*                                                                         *)
(* The slots are a count over all connections, the disk is shared by all,  *)
(* and an answer depends on one request only; so the invariant has three   *)
(* parts.  Most actions touch one connection and neither slots nor disk:   *)
(* LocalStep shows once that those keep it.                                *)
(***************************************************************************)
EXTENDS HostedApi, FiniteSetTheorems, TLAPS

Parts == {"cloned", "stored", "compared", "explained"}

Conn == [step : Steps, request : Requests, workspace : Nat, done : SUBSET Parts,
         error : Errors \cup {"none"}, sent : Seq(Nat), gone : BOOLEAN]

Worked == {"clean", "release", "build", "head", "body"}

(* One request: what it has gone through when it stands at a step, and     *)
(* what has been sent of it.                                               *)
RequestInv(k) ==
  /\ k.step \in {"store", "compare", "explain"} => "cloned" \in k.done
  /\ k.step \in {"compare", "explain"} => "stored" \in k.done /\ k.request.range
  /\ k.step = "explain" => "compared" \in k.done /\ k.request.route = "explain"
  /\ k.step \in {"route", "waiting", "slot", "clone"} \cup {"store", "compare", "explain"}
       => k.error = "none"
  /\ k.done # {} \/ k.step \in {"waiting"} \cup SlotSteps
       => k.request.route \in WorkRoutes /\ k.request.repo = "proper"
  /\ k.step \in Worked /\ k.error = "none" /\ k.request.route \in WorkRoutes
       /\ k.request.repo # "missing" => Work(k.request) \subseteq k.done
  /\ k.step # "body" => k.sent = <<>>
  /\ k.step = "body" => k.sent = <<Status(k)>>

(* The checkout of one request, as its step has left it. *)
CheckoutOn(dirs, k) ==
  k.step \in WorkspaceSteps =>
    /\ k.workspace \in DOMAIN dirs
    /\ k.step = "clone" => dirs[k.workspace] = [content |-> "empty", cause |-> "none"]
    /\ k.step \in {"store", "compare", "explain"} =>
         dirs[k.workspace] = [content |-> "whole", cause |-> "none"]
    /\ k.step = "clean" =>
         dirs[k.workspace] \in {[content |-> "empty", cause |-> "none"],
                                [content |-> "whole", cause |-> "none"],
                                [content |-> "empty", cause |-> "timeout"],
                                [content |-> "partial", cause |-> "timeout"]}

CheckoutInv(k) == CheckoutOn(disk, k)

ConnsInv == \A c \in Conns : RequestInv(conns[c])

DiskInv ==
  /\ \A c \in Conns : CheckoutInv(conns[c])
  /\ \A c \in Conns : conns[c].workspace <= Len(disk)
  /\ \A c, d \in Conns : c # d /\ conns[c].workspace = conns[d].workspace
                           => conns[c].workspace = 0
  /\ LeftBehindOnlyIf

SlotsInv ==
  /\ up => free + Cardinality(Holders) = MaxConcurrency
  /\ ~up => \A c \in Conns : conns[c] = Closed

IInv == TypeOK /\ ConnsInv /\ DiskInv /\ SlotsInv

-----------------------------------------------------------------------------
LEMMA ClosedFine == Closed \in Conn /\ RequestInv(Closed)
  BY DEF Closed, Conn, NoRequest, Requests, Request, WorkRoutes, OtherRoutes, OtherStatus,
         Steps, Parts, Errors, StatusFor, RequestInv, SlotSteps, Worked

(* The errors a request may end with. *)
LEMMA ErrorNames ==
  Errors = {"RemoteRepoError", "GitCommandError", "RepositoryTooLargeError",
            "BobProviderConfigError", "BobProviderError", "Unexpected"}
  BY DEF Errors, StatusFor

LEMMA StatusIsNumber == ASSUME NEW k \in Conn PROVE Status(k) \in Nat
<1>1. CASE k.error # "none"
  <2>1. k.error \in Errors /\ Status(k) = StatusFor[k.error]
    BY <1>1 DEF Conn, Status
  <2> QED
    BY <2>1, ErrorNames DEF StatusFor
<1>2. CASE k.error = "none"
  <2>1. CASE k.request.route \in OtherRoutes
    <3>1. Status(k) = OtherStatus[k.request.route]
      BY <1>2, <2>1 DEF Status
    <3> QED
      BY <2>1, <3>1 DEF OtherRoutes, OtherStatus
  <2>2. CASE k.request.route \notin OtherRoutes
    BY <1>2, <2>2 DEF Status
  <2> QED
    BY <2>1, <2>2
<1> QED
  BY <1>1, <1>2

LEMMA InitInv == Init => IInv
<1> SUFFICES ASSUME Init PROVE IInv OBVIOUS
<1>1. \A c \in Conns : conns[c] = Closed
  BY DEF Init
<1>2. TypeOK
  BY ClosedFine, SlotsAssumption, ApiBounds DEF Init, TypeOK, Conn, Parts
<1>3. Holders = {}
  BY <1>1 DEF Holders, Closed, SlotSteps
<1>4. ConnsInv
  BY <1>1, ClosedFine DEF ConnsInv
<1>5. DiskInv
  BY <1>1 DEF Init, DiskInv, CheckoutInv, CheckoutOn, Closed, WorkspaceSteps, LeftBehindOnlyIf, LeftBehind
<1>6. SlotsInv
  BY <1>1, <1>3, FS_EmptySet, SlotsAssumption DEF Init, SlotsInv
<1> QED
  BY <1>2, <1>4, <1>5, <1>6 DEF IInv

(* No more requests hold a slot than there are connections. *)
LEMMA HoldersFinite == IsFiniteSet(Holders) /\ Cardinality(Holders) \in Nat
  BY ConnsAssumption, FS_Subset, FS_CardinalityType DEF Holders

(* A step of one connection that neither takes nor frees a slot and that   *)
(* leaves the disk alone, whether it stays with its checkout or gives its  *)
(* number up once the work is over.                                        *)
LocalAction(c, k) ==
  /\ up
  /\ conns' = [conns EXCEPT ![c] = k]
  /\ UNCHANGED <<account, up, free, disk, exits>>
  /\ requests' \in 0..MaxRequests
  /\ RequestInv(k)
  /\ CheckoutInv(k)
  /\ k.step \in SlotSteps <=> conns[c].step \in SlotSteps
  /\ k.step \in WorkspaceSteps <=> conns[c].step \in WorkspaceSteps
  /\ \/ k.workspace = conns[c].workspace
     \/ k.workspace = 0 /\ k.step \notin WorkspaceSteps

(* A step of one request that touches neither slots nor disk. *)
LEMMA LocalStep ==
  ASSUME IInv, NEW c \in Conns, NEW k \in Conn, LocalAction(c, k)
  PROVE  IInv'
<1> USE DEF IInv, LocalAction
<1>0. /\ conns \in [Conns -> Conn]
      /\ conns'[c] = k
      /\ \A d \in Conns : d # c => conns'[d] = conns[d]
  BY DEF TypeOK, Conn, Parts
<1>1. TypeOK'
  BY <1>0 DEF TypeOK, Conn, Parts
<1>2. ConnsInv'
  BY <1>0 DEF ConnsInv, RequestInv, Status, Work
<1>3. Holders' = Holders
  BY <1>0 DEF Holders
<1>4. InUse' = InUse
  BY <1>0 DEF InUse
<1>5. LeftBehindOnlyIf'
  BY <1>4 DEF DiskInv, LeftBehindOnlyIf, LeftBehind
<1>6. \A d \in Conns : CheckoutInv(conns[d])'
  BY <1>0 DEF DiskInv, CheckoutInv, CheckoutOn
<1>7. \A d \in Conns : conns'[d].workspace <= Len(disk')
  BY <1>0 DEF DiskInv, TypeOK, Conn
<1>8. \A d, e \in Conns : d # e /\ conns'[d].workspace = conns'[e].workspace
                            => conns'[d].workspace = 0
  BY <1>0 DEF DiskInv, TypeOK, Conn
<1>9. DiskInv'
  BY <1>5, <1>6, <1>7, <1>8 DEF DiskInv
<1>10. SlotsInv'
  BY <1>3 DEF SlotsInv
<1> QED
  BY <1>1, <1>2, <1>9, <1>10


(* What every action of a connection starts from. *)
LEMMA Before ==
  ASSUME IInv, NEW c \in Conns
  PROVE  /\ conns \in [Conns -> Conn]
         /\ conns[c] \in Conn
         /\ RequestInv(conns[c])
         /\ CheckoutInv(conns[c])
         /\ Closed \in Conn /\ RequestInv(Closed)
         /\ requests \in 0..MaxRequests
  BY ClosedFine DEF IInv, TypeOK, Conn, Parts, ConnsInv, DiskInv

LEMMA CallerKeeps == ASSUME IInv, NEW c \in Conns, Caller(c) PROVE IInv'
<1>0. /\ conns[c] \in Conn /\ RequestInv(conns[c]) /\ CheckoutInv(conns[c])
      /\ Closed \in Conn /\ RequestInv(Closed) /\ requests \in 0..MaxRequests
  BY Before
<1>1. CASE Connect(c)
  <2> DEFINE k == [Closed EXCEPT !.step = "idle"]
  <2>1. k \in Conn /\ RequestInv(k)
    BY <1>0 DEF Closed, Conn, Steps, RequestInv, SlotSteps, Worked
  <2>2. k.step = "idle" /\ k.workspace = 0
    BY DEF Closed
  <2>3. CheckoutInv(k)
    BY <2>2 DEF CheckoutInv, CheckoutOn, WorkspaceSteps
  <2>4. /\ up /\ conns[c].step = "closed" /\ conns' = [conns EXCEPT ![c] = k]
        /\ requests' = requests /\ UNCHANGED <<account, up, free, disk, exits>>
    BY <1>1 DEF Connect, Continue, At, Frame
  <2> HIDE DEF k
  <2> QED
    BY <1>0, <2>1, <2>2, <2>3, <2>4, LocalStep DEF LocalAction, SlotSteps, WorkspaceSteps
<1>2. CASE NextRequest(c)
  <2>1. PICK r \in Asked : Continue(c, [Closed EXCEPT !.step = "route", !.request = r])
    BY <1>2 DEF NextRequest
  <2> DEFINE k == [Closed EXCEPT !.step = "route", !.request = r]
  <2>2. k \in Conn /\ RequestInv(k)
    BY <1>0, AskedAssumption DEF Closed, Conn, Steps, RequestInv, SlotSteps, Worked
  <2>3. k.step = "route" /\ k.workspace = 0
    BY DEF Closed
  <2>4. CheckoutInv(k)
    BY <2>3 DEF CheckoutInv, CheckoutOn, WorkspaceSteps
  <2>5. /\ up /\ conns[c].step = "idle" /\ conns' = [conns EXCEPT ![c] = k]
        /\ UNCHANGED <<account, up, free, disk, exits>>
    BY <1>2, <2>1 DEF NextRequest, Continue, At
  <2>6. requests' \in 0..MaxRequests
    BY <1>0, <1>2, ApiBounds DEF NextRequest
  <2> HIDE DEF k
  <2> QED
    BY <2>2, <2>3, <2>4, <2>5, <2>6, LocalStep DEF LocalAction, SlotSteps, WorkspaceSteps
<1>3. CASE HangUp(c)
  <2> DEFINE k == [conns[c] EXCEPT !.gone = TRUE]
  <2>1. k \in Conn /\ k.step = conns[c].step /\ k.workspace = conns[c].workspace
    BY <1>0 DEF Conn
  <2>2. RequestInv(k)
    BY <1>0 DEF Conn, RequestInv, Status, Work
  <2>3. CheckoutInv(k)
    BY <1>0, <2>1 DEF CheckoutInv, CheckoutOn
  <2>4. /\ up /\ conns' = [conns EXCEPT ![c] = k]
        /\ requests' = requests /\ UNCHANGED <<account, up, free, disk, exits>>
    BY <1>3 DEF HangUp, Continue, Frame
  <2>5. /\ k.step \in SlotSteps <=> conns[c].step \in SlotSteps
        /\ k.step \in WorkspaceSteps <=> conns[c].step \in WorkspaceSteps
        /\ requests' \in 0..MaxRequests
    BY <1>0, <2>1, <2>4
  <2> HIDE DEF k
  <2> QED
    BY <2>1, <2>2, <2>3, <2>4, <2>5, LocalStep DEF LocalAction
<1>4. CASE EndOfInput(c)
  <2>1. Closed.step = "closed" /\ Closed.workspace = 0
    BY DEF Closed
  <2>2. CheckoutInv(Closed)
    BY <2>1 DEF CheckoutInv, CheckoutOn, WorkspaceSteps
  <2>3. /\ up /\ conns[c].step = "idle" /\ conns' = [conns EXCEPT ![c] = Closed]
        /\ requests' = requests /\ UNCHANGED <<account, up, free, disk, exits>>
    BY <1>4 DEF EndOfInput, Continue, At, Frame
  <2> QED
    BY <1>0, <2>1, <2>2, <2>3, LocalStep DEF LocalAction, SlotSteps, WorkspaceSteps
<1> QED
  BY <1>1, <1>2, <1>3, <1>4 DEF Caller

(* A step outside the work and outside the slots. *)
LEMMA OutsideKeeps ==
  ASSUME IInv, NEW c \in Conns, NEW k \in Conn, Continue(c, k), up,
         UNCHANGED <<account, up, free, disk, requests, exits>>,
         conns[c].step \notin SlotSteps, k.step \notin SlotSteps, RequestInv(k),
         k.workspace = conns[c].workspace \/ k.workspace = 0
  PROVE  IInv'
<1>1. conns[c].step \notin WorkspaceSteps /\ k.step \notin WorkspaceSteps
  BY DEF SlotSteps, WorkspaceSteps
<1>2. CheckoutInv(k)
  BY <1>1 DEF CheckoutInv, CheckoutOn
<1>3. requests' \in 0..MaxRequests
  BY Before
<1> QED
  BY <1>1, <1>2, <1>3, LocalStep DEF LocalAction, Continue

(* A step inside the checkout, which it leaves as it is. *)
LEMMA WorkKeeps ==
  ASSUME IInv, NEW c \in Conns, NEW k \in Conn, Continue(c, k), up,
         UNCHANGED <<account, up, free, disk, requests, exits>>,
         conns[c].step \in {"store", "compare", "explain"},
         k.step \in {"compare", "explain", "clean"}, RequestInv(k),
         k.workspace = conns[c].workspace
  PROVE  IInv'
<1>1. CheckoutInv(conns[c]) /\ requests' \in 0..MaxRequests
  BY Before
<1>2. CheckoutInv(k)
  BY <1>1 DEF CheckoutInv, CheckoutOn, WorkspaceSteps
<1>3. /\ conns[c].step \in SlotSteps /\ k.step \in SlotSteps
      /\ conns[c].step \in WorkspaceSteps /\ k.step \in WorkspaceSteps
  BY DEF SlotSteps, WorkspaceSteps
<1>4. conns' = [conns EXCEPT ![c] = k] /\ UNCHANGED <<account, up, free, disk, exits>>
  BY DEF Continue
<1>5. \/ k.workspace = conns[c].workspace
      \/ k.workspace = 0 /\ k.step \notin WorkspaceSteps
  OBVIOUS
<1>6. /\ k.step \in SlotSteps <=> conns[c].step \in SlotSteps
      /\ k.step \in WorkspaceSteps <=> conns[c].step \in WorkspaceSteps
  BY <1>3
<1> QED
  BY <1>1, <1>2, <1>4, <1>5, <1>6, LocalStep DEF LocalAction

LEMMA RouteKeeps == ASSUME IInv, NEW c \in Conns, Route(c) PROVE IInv'
<1> DEFINE r == conns[c].request
           waiting == [conns[c] EXCEPT !.step = "waiting"]
           built == [conns[c] EXCEPT !.step = "build"]
           refused == [conns[c] EXCEPT !.step = "build", !.error = "RemoteRepoError"]
<1>0. conns[c] \in Conn /\ RequestInv(conns[c])
  BY Before
<1>1. /\ conns[c].step = "route" /\ up
      /\ UNCHANGED <<account, up, free, disk, requests, exits>>
  BY DEF Route, At, Frame
<1>2. /\ conns[c].error = "none" /\ conns[c].sent = <<>> /\ conns[c].step \notin SlotSteps
      /\ r \in Requests
  BY <1>0, <1>1 DEF Conn, RequestInv, SlotSteps
<1>3. waiting \in Conn /\ built \in Conn /\ refused \in Conn
  BY <1>0, ErrorNames DEF Conn, Steps
<1>4. /\ waiting.workspace = conns[c].workspace /\ waiting.step \notin SlotSteps
      /\ built.workspace = conns[c].workspace /\ built.step \notin SlotSteps
      /\ refused.workspace = conns[c].workspace /\ refused.step \notin SlotSteps
  BY <1>0 DEF Conn, SlotSteps
<1>5. CASE r.route \in OtherRoutes \/ (r.route = "report" /\ r.repo = "missing")
  <2>1. Continue(c, built)
    BY <1>5 DEF Route, Goto
  <2>2. RequestInv(built)
    BY <1>0, <1>1, <1>2, <1>5
       DEF Conn, RequestInv, SlotSteps, Requests, OtherRoutes, OtherStatus, WorkRoutes, Worked
  <2> QED
    BY <1>1, <1>2, <1>3, <1>4, <2>1, <2>2, OutsideKeeps
<1>6. CASE /\ ~(r.route \in OtherRoutes \/ (r.route = "report" /\ r.repo = "missing"))
           /\ r.repo # "proper"
  <2>1. Continue(c, refused)
    BY <1>6 DEF Route, Fail
  <2>2. RequestInv(refused)
    BY <1>0, <1>1, <1>2 DEF Conn, RequestInv, SlotSteps, Worked
  <2> QED
    BY <1>1, <1>2, <1>3, <1>4, <2>1, <2>2, OutsideKeeps
<1>7. CASE /\ ~(r.route \in OtherRoutes \/ (r.route = "report" /\ r.repo = "missing"))
           /\ r.repo = "proper"
  <2>1. Continue(c, waiting)
    BY <1>7 DEF Route, Goto
  <2>2. RequestInv(waiting)
    BY <1>0, <1>1, <1>2, <1>7 DEF Conn, RequestInv, SlotSteps, Worked, Requests, Request
  <2> QED
    BY <1>1, <1>2, <1>3, <1>4, <2>1, <2>2, OutsideKeeps
<1> QED
  BY <1>5, <1>6, <1>7

(* A failure inside the checkout. *)
LEMMA FailInWork ==
  ASSUME IInv, NEW c \in Conns, NEW e \in Errors, Fail(c, e, "clean"), up,
         UNCHANGED <<account, up, free, disk, requests, exits>>,
         conns[c].step \in {"store", "compare", "explain"}
  PROVE  IInv'
<1> DEFINE k == [conns[c] EXCEPT !.step = "clean", !.error = e]
<1>0. conns[c] \in Conn /\ RequestInv(conns[c])
  BY Before
<1>1. k \in Conn /\ k.workspace = conns[c].workspace /\ k.step = "clean"
  BY <1>0 DEF Conn, Steps
<1>2. RequestInv(k)
  BY <1>0 DEF Conn, Errors, RequestInv, SlotSteps, Worked
<1>3. Continue(c, k)
  BY DEF Fail
<1> QED
  BY <1>1, <1>2, <1>3, WorkKeeps

LEMMA StoreKeeps == ASSUME IInv, NEW c \in Conns, Store(c) PROVE IInv'
<1> DEFINE next == IF conns[c].request.range THEN "compare" ELSE "clean"
           k == [conns[c] EXCEPT !.step = next, !.done = @ \cup {"stored"}]
<1>0. conns[c] \in Conn /\ RequestInv(conns[c])
  BY Before
<1>1. /\ conns[c].step = "store" /\ up
      /\ UNCHANGED <<account, up, free, disk, requests, exits>>
  BY DEF Store, At, Frame
<1>2. /\ conns[c].error = "none" /\ conns[c].sent = <<>> /\ "cloned" \in conns[c].done
      /\ conns[c].request.route \in WorkRoutes /\ conns[c].request.repo = "proper"
      /\ conns[c].request \in Requests
  BY <1>0, <1>1 DEF Conn, RequestInv, SlotSteps
<1>3. CASE Continue(c, k)
  <2>1. k \in Conn /\ k.workspace = conns[c].workspace /\ k.step \in {"compare", "clean"}
    BY <1>0 DEF Conn, Steps, Parts
  <2>2. RequestInv(k)
    BY <1>0, <1>1, <1>2 DEF Conn, RequestInv, SlotSteps, Worked, Work, Requests
  <2> QED
    BY <1>1, <1>3, <2>1, <2>2, WorkKeeps
<1>4. ASSUME NEW e \in {"RepositoryTooLargeError", "Unexpected"}, Fail(c, e, "clean")
      PROVE  IInv'
  BY <1>1, <1>4, FailInWork, ErrorNames
<1> QED
  BY <1>3, <1>4 DEF Store, Finish


LEMMA CompareKeeps == ASSUME IInv, NEW c \in Conns, Compare(c) PROVE IInv'
<1> DEFINE next == IF conns[c].request.route = "explain" THEN "explain" ELSE "clean"
           k == [conns[c] EXCEPT !.step = next, !.done = @ \cup {"compared"}]
           same == [conns[c] EXCEPT !.step = "clean",
                                    !.done = @ \cup {"compared", "explained"}]
<1>0. conns[c] \in Conn /\ RequestInv(conns[c])
  BY Before
<1>1. /\ conns[c].step = "compare" /\ up
      /\ UNCHANGED <<account, up, free, disk, requests, exits>>
  BY DEF Compare, At, Frame
<1>2. /\ conns[c].error = "none" /\ conns[c].sent = <<>> /\ conns[c].request.range
      /\ "cloned" \in conns[c].done /\ "stored" \in conns[c].done
      /\ conns[c].request.route \in WorkRoutes /\ conns[c].request.repo = "proper"
      /\ conns[c].request \in Requests
  BY <1>0, <1>1 DEF Conn, RequestInv, SlotSteps
<1>3. CASE Continue(c, k)
  <2>1. k \in Conn /\ k.workspace = conns[c].workspace /\ k.step \in {"explain", "clean"}
    BY <1>0 DEF Conn, Steps, Parts
  <2>2. RequestInv(k)
    BY <1>0, <1>1, <1>2 DEF Conn, RequestInv, SlotSteps, Worked, Work
  <2> QED
    BY <1>1, <1>3, <2>1, <2>2, WorkKeeps
<1>4. CASE Continue(c, same)
  <2>1. same \in Conn /\ same.workspace = conns[c].workspace /\ same.step = "clean"
    BY <1>0 DEF Conn, Steps, Parts
  <2>2. RequestInv(same)
    BY <1>0, <1>1, <1>2 DEF Conn, RequestInv, SlotSteps, Worked, Work
  <2> QED
    BY <1>1, <1>4, <2>1, <2>2, WorkKeeps
<1>5. ASSUME NEW e \in {"GitCommandError", "Unexpected"}, Fail(c, e, "clean")
      PROVE  IInv'
  BY <1>1, <1>5, FailInWork, ErrorNames
<1> QED
  BY <1>3, <1>4, <1>5 DEF Compare, Finish

LEMMA ExplainKeeps == ASSUME IInv, NEW c \in Conns, Explain(c) PROVE IInv'
<1> DEFINE k == [conns[c] EXCEPT !.step = "clean", !.done = @ \cup {"explained"}]
<1>0. conns[c] \in Conn /\ RequestInv(conns[c])
  BY Before
<1>1. /\ conns[c].step = "explain" /\ up
      /\ UNCHANGED <<account, up, free, disk, requests, exits>>
  BY DEF Explain, At, Frame
<1>2. /\ conns[c].error = "none" /\ conns[c].sent = <<>>
      /\ {"cloned", "stored", "compared"} \subseteq conns[c].done
      /\ conns[c].request.route \in WorkRoutes /\ conns[c].request.repo = "proper"
  BY <1>0, <1>1 DEF Conn, RequestInv, SlotSteps
<1>3. CASE Continue(c, k)
  <2>1. k \in Conn /\ k.workspace = conns[c].workspace /\ k.step = "clean"
    BY <1>0 DEF Conn, Steps, Parts
  <2>2. RequestInv(k)
    BY <1>0, <1>1, <1>2 DEF Conn, RequestInv, SlotSteps, Worked, Work
  <2> QED
    BY <1>1, <1>3, <2>1, <2>2, WorkKeeps
<1>4. ASSUME NEW e \in {"BobProviderConfigError", "BobProviderError", "Unexpected"},
             Fail(c, e, "clean")
      PROVE  IInv'
  BY <1>1, <1>4, FailInWork, ErrorNames
<1> QED
  BY <1>3, <1>4 DEF Explain, Finish

LEMMA AnswerKeeps == ASSUME IInv, NEW c \in Conns, Answer(c) PROVE IInv'
<1>0. /\ conns[c] \in Conn /\ RequestInv(conns[c])
      /\ Closed \in Conn /\ RequestInv(Closed)
  BY Before
<1>1. /\ conns[c].step \in {"build", "head", "retry", "body"} /\ up
      /\ UNCHANGED <<account, up, free, disk, requests, exits>>
  BY DEF Answer, Build, SendHead, Retry, SendBody, At, Frame
<1>2. conns[c].step \notin SlotSteps
  BY <1>1 DEF SlotSteps
<1>3. CASE Continue(c, Closed)
  <2>1. Closed.step \notin SlotSteps /\ Closed.workspace = 0
    BY DEF Closed, SlotSteps
  <2> QED
    BY <1>0, <1>1, <1>2, <1>3, <2>1, OutsideKeeps
<1>4. CASE Build(c)
  <2>0. conns[c].step = "build" /\ conns[c].sent = <<>>
    BY <1>0, <1>4 DEF Build, At, RequestInv
  <2>1. CASE Goto(c, "head")
    <3> DEFINE k == [conns[c] EXCEPT !.step = "head"]
    <3>1. k \in Conn /\ k.workspace = conns[c].workspace /\ k.step \notin SlotSteps
      BY <1>0 DEF Conn, Steps, SlotSteps
    <3>2. RequestInv(k)
      BY <1>0, <2>0 DEF Conn, RequestInv, SlotSteps, Worked
    <3> QED
      BY <1>1, <1>2, <2>1, <3>1, <3>2, OutsideKeeps DEF Goto
  <2>2. CASE Fail(c, "Unexpected", "head")
    <3> DEFINE k == [conns[c] EXCEPT !.step = "head", !.error = "Unexpected"]
    <3>1. k \in Conn /\ k.workspace = conns[c].workspace /\ k.step \notin SlotSteps
      BY <1>0, ErrorNames DEF Conn, Steps, SlotSteps
    <3>2. RequestInv(k)
      BY <1>0, <2>0 DEF Conn, RequestInv, SlotSteps, Worked
    <3> QED
      BY <1>1, <1>2, <2>2, <3>1, <3>2, OutsideKeeps DEF Fail
  <2> QED
    BY <1>4, <2>1, <2>2 DEF Build
<1>5. CASE SendHead(c)
  <2>0. conns[c].step = "head" /\ conns[c].sent = <<>>
    BY <1>0, <1>5 DEF SendHead, At, RequestInv
  <2>1. CASE Continue(c, [conns[c] EXCEPT !.step = "body",
                                          !.sent = Append(@, Status(conns[c]))])
    <3> DEFINE k == [conns[c] EXCEPT !.step = "body", !.sent = Append(@, Status(conns[c]))]
    <3>1. Status(conns[c]) \in Nat
      BY <1>0, StatusIsNumber
    <3>5. Append(conns[c].sent, Status(conns[c])) \in Seq(Nat)
      BY <1>0, <3>1 DEF Conn
    <3>2. k \in Conn /\ k.workspace = conns[c].workspace /\ k.step \notin SlotSteps
      BY <1>0, <3>5 DEF Conn, Steps, SlotSteps
    <3>3. k.sent = <<Status(conns[c])>> /\ Status(k) = Status(conns[c])
      BY <1>0, <2>0, <3>1 DEF Conn, Status
    <3>4. RequestInv(k)
      BY <1>0, <2>0, <3>3 DEF Conn, RequestInv, SlotSteps, Worked
    <3> QED
      BY <1>1, <1>2, <2>1, <3>2, <3>4, OutsideKeeps
  <2>2. CASE Fail(c, "Unexpected", "retry")
    <3> DEFINE k == [conns[c] EXCEPT !.step = "retry", !.error = "Unexpected"]
    <3>1. k \in Conn /\ k.workspace = conns[c].workspace /\ k.step \notin SlotSteps
      BY <1>0, ErrorNames DEF Conn, Steps, SlotSteps
    <3>2. RequestInv(k)
      BY <1>0, <2>0 DEF Conn, RequestInv, SlotSteps, Worked
    <3> QED
      BY <1>1, <1>2, <2>2, <3>1, <3>2, OutsideKeeps DEF Fail
  <2> QED
    BY <1>3, <1>5, <2>1, <2>2 DEF SendHead
<1>6. CASE Retry(c)
  BY <1>3, <1>6 DEF Retry
<1>7. CASE SendBody(c)
  <2> DEFINE k == [Closed EXCEPT !.step = "idle", !.gone = conns[c].gone]
  <2>1. k \in Conn /\ RequestInv(k)
    BY <1>0 DEF Closed, Conn, Steps, RequestInv, SlotSteps, Worked
  <2>2. k.step \notin SlotSteps /\ k.workspace = 0
    BY DEF Closed, SlotSteps
  <2>3. CASE Continue(c, k)
    BY <1>1, <1>2, <2>1, <2>2, <2>3, OutsideKeeps
  <2> QED
    BY <1>3, <1>7, <2>3 DEF SendBody
<1> QED
  BY <1>4, <1>5, <1>6, <1>7 DEF Answer

(* A slot is taken or given back, outside the checkout. *)
LEMMA SlotKeeps ==
  ASSUME IInv, NEW c \in Conns, NEW k \in Conn, Continue(c, k), up,
         UNCHANGED <<account, up, disk, requests, exits>>,
         conns[c].step \notin WorkspaceSteps, k.step \notin WorkspaceSteps,
         k.workspace = conns[c].workspace, RequestInv(k),
         \/ conns[c].step \notin SlotSteps /\ k.step \in SlotSteps /\ free > 0 /\ free' = free - 1
         \/ conns[c].step \in SlotSteps /\ k.step \notin SlotSteps /\ free' = free + 1
  PROVE  IInv'
<1>0. /\ conns \in [Conns -> Conn] /\ conns'[c] = k
      /\ \A d \in Conns : d # c => conns'[d] = conns[d]
      /\ TypeOK /\ ConnsInv /\ DiskInv /\ SlotsInv
  BY Before DEF IInv, Continue
<1>1. free \in 0..MaxConcurrency /\ free + Cardinality(Holders) = MaxConcurrency
  BY <1>0 DEF TypeOK, SlotsInv
<1>2. free' \in 0..MaxConcurrency /\ free' + Cardinality(Holders') = MaxConcurrency
  <2>1. CASE conns[c].step \notin SlotSteps
    <3>1. Holders' = Holders \cup {c} /\ c \notin Holders
      BY <1>0, <2>1 DEF Holders
    <3>2. Cardinality(Holders') = Cardinality(Holders) + 1
      BY <3>1, HoldersFinite, FS_AddElement
    <3> QED
      BY <1>1, <2>1, <3>2, HoldersFinite, SlotsAssumption
  <2>2. CASE conns[c].step \in SlotSteps
    <3>1. Holders' = Holders \ {c} /\ c \in Holders
      BY <1>0, <2>2 DEF Holders
    <3>2. IsFiniteSet(Holders') /\ Cardinality(Holders') = Cardinality(Holders) - 1
      BY <3>1, HoldersFinite, FS_RemoveElement
    <3>3. Cardinality(Holders') \in Nat
      BY <3>2, FS_CardinalityType
    <3> QED
      BY <1>1, <2>2, <3>2, <3>3, HoldersFinite, SlotsAssumption
  <2> QED
    BY <2>1, <2>2
<1>3. TypeOK'
  BY <1>0, <1>2 DEF TypeOK, Continue, Conn, Parts
<1>4. ConnsInv'
  BY <1>0 DEF ConnsInv, RequestInv, Status, Work
<1>5. InUse' = InUse
  BY <1>0 DEF InUse
<1>6. LeftBehindOnlyIf'
  BY <1>0, <1>5 DEF DiskInv, LeftBehindOnlyIf, LeftBehind
<1>7. \A d \in Conns : CheckoutInv(conns[d])'
  BY <1>0 DEF DiskInv, CheckoutInv, CheckoutOn
<1>8. DiskInv'
  BY <1>0, <1>6, <1>7 DEF DiskInv
<1>9. SlotsInv'
  BY <1>2 DEF SlotsInv
<1> QED
  BY <1>3, <1>4, <1>8, <1>9 DEF IInv

LEMMA AcquireKeeps == ASSUME IInv, NEW c \in Conns, Acquire(c) PROVE IInv'
<1> DEFINE k == [conns[c] EXCEPT !.step = "slot"]
<1>0. conns[c] \in Conn /\ RequestInv(conns[c])
  BY Before
<1>1. /\ conns[c].step = "waiting" /\ up /\ Continue(c, k) /\ free > 0 /\ free' = free - 1
      /\ UNCHANGED <<account, up, disk, requests, exits>>
  BY DEF Acquire, At, Goto, Frame
<1>2. k \in Conn /\ k.workspace = conns[c].workspace /\ k.step = "slot"
  BY <1>0 DEF Conn, Steps
<1>3. RequestInv(k)
  BY <1>0, <1>1 DEF Conn, RequestInv, SlotSteps, Worked
<1>4. /\ conns[c].step \notin WorkspaceSteps /\ k.step \notin WorkspaceSteps
      /\ conns[c].step \notin SlotSteps /\ k.step \in SlotSteps
  BY <1>1, <1>2 DEF WorkspaceSteps, SlotSteps
<1> HIDE DEF k
<1> QED
  BY <1>1, <1>2, <1>3, <1>4, SlotKeeps

LEMMA ReleaseKeeps == ASSUME IInv, NEW c \in Conns, Release(c) PROVE IInv'
<1> DEFINE k == [conns[c] EXCEPT !.step = "build"]
<1>0. conns[c] \in Conn /\ RequestInv(conns[c])
  BY Before
<1>1. /\ conns[c].step = "release" /\ up /\ Continue(c, k) /\ free' = free + 1
      /\ UNCHANGED <<account, up, disk, requests, exits>>
  BY DEF Release, At, Goto, Frame
<1>2. k \in Conn /\ k.workspace = conns[c].workspace /\ k.step = "build"
  BY <1>0 DEF Conn, Steps
<1>3. RequestInv(k)
  BY <1>0, <1>1 DEF Conn, RequestInv, SlotSteps, Worked
<1>4. /\ conns[c].step \notin WorkspaceSteps /\ k.step \notin WorkspaceSteps
      /\ conns[c].step \in SlotSteps /\ k.step \notin SlotSteps
  BY <1>1, <1>2 DEF WorkspaceSteps, SlotSteps
<1> HIDE DEF k
<1> QED
  BY <1>1, <1>2, <1>3, <1>4, SlotKeeps

-----------------------------------------------------------------------------
(* The steps that change the disk. *)

Directory == [content : Contents, cause : {"none", "timeout", "exit"}]

(* What may be left of a checkout that nobody uses. *)
Explained(d) ==
  d.content # "nothing" =>
    \/ d.cause = "exit"
    \/ d.cause = "timeout" /\ d.content = "partial"
    \/ account = "ordinary" /\ d.content = "whole"

(* Connection c changes the one checkout it works in, and keeps its slot. *)
LEMMA CheckoutKeeps ==
  ASSUME IInv, NEW c \in Conns, NEW k \in Conn, NEW d \in Directory, Continue(c, k), up,
         UNCHANGED <<account, up, free, requests, exits>>,
         conns[c].step \in WorkspaceSteps, k.step \in SlotSteps,
         k.workspace = conns[c].workspace, RequestInv(k),
         disk' = [disk EXCEPT ![conns[c].workspace] = d],
         CheckoutOn(disk', k),
         k.step \in WorkspaceSteps \/ Explained(d)
  PROVE  IInv'
<1> DEFINE w == conns[c].workspace
<1>0. /\ conns \in [Conns -> Conn] /\ conns'[c] = k
      /\ \A e \in Conns : e # c => conns'[e] = conns[e]
      /\ TypeOK /\ ConnsInv /\ DiskInv /\ SlotsInv
  BY Before DEF IInv, Continue
<1>1. w \in DOMAIN disk /\ disk \in Seq(Directory) /\ w # 0
  BY <1>0 DEF DiskInv, CheckoutInv, CheckoutOn, TypeOK, Directory
<1>2. /\ disk' \in Seq(Directory) /\ DOMAIN disk' = DOMAIN disk /\ Len(disk') = Len(disk)
      /\ disk'[w] = d
      /\ \A u \in DOMAIN disk : u # w => disk'[u] = disk[u]
  BY <1>1
<1>3. TypeOK'
  BY <1>0, <1>2 DEF TypeOK, Continue, Conn, Parts, Directory
<1>4. ConnsInv'
  BY <1>0 DEF ConnsInv, RequestInv, Status, Work
<1>5. Holders' = Holders
  <2>1. conns[c].step \in SlotSteps
    BY DEF SlotSteps, WorkspaceSteps
  <2> QED
    BY <1>0, <2>1 DEF Holders
<1>6. \A e \in Conns : CheckoutInv(conns[e])'
  <2>1. ASSUME NEW e \in Conns, e # c PROVE CheckoutInv(conns[e])'
    <3>1. conns'[e] = conns[e] /\ CheckoutInv(conns[e])
      BY <1>0, <2>1 DEF DiskInv
    <3>2. conns[e].workspace # w
      BY <1>0, <1>1, <2>1 DEF DiskInv
    <3> QED
      BY <1>2, <3>1, <3>2 DEF CheckoutInv, CheckoutOn
  <2>2. CheckoutInv(conns[c])'
    BY <1>0 DEF CheckoutInv, CheckoutOn
  <2> QED
    BY <2>1, <2>2
<1>7. LeftBehindOnlyIf'
  <2> SUFFICES ASSUME NEW u \in DOMAIN disk', u \notin InUse' PROVE Explained(disk[u])'
    BY DEF LeftBehindOnlyIf, LeftBehind, Explained
  <2>1. CASE u = w
    <3>1. k.step \notin WorkspaceSteps
      BY <1>0, <2>1 DEF InUse
    <3> QED
      BY <1>2, <2>1, <3>1 DEF Explained
  <2>2. CASE u # w
    <3>1. u \notin InUse
      BY <1>0, <2>2 DEF InUse
    <3>2. u \in DOMAIN disk /\ disk'[u] = disk[u]
      BY <1>2, <2>2
    <3>3. Explained(disk[u])
      BY <1>0, <3>1, <3>2 DEF DiskInv, LeftBehindOnlyIf, LeftBehind, Explained
    <3> QED
      BY <3>2, <3>3 DEF Explained
  <2> QED
    BY <2>1, <2>2
<1>8. DiskInv'
  BY <1>0, <1>2, <1>6, <1>7 DEF DiskInv
<1>9. SlotsInv'
  BY <1>0, <1>5 DEF SlotsInv
<1> QED
  BY <1>3, <1>4, <1>8, <1>9 DEF IInv

LEMMA CloneKeeps == ASSUME IInv, NEW c \in Conns, Clone(c) PROVE IInv'
<1> DEFINE w == conns[c].workspace
           whole == [content |-> "whole", cause |-> "none"]
           cloned == [conns[c] EXCEPT !.step = "store", !.done = @ \cup {"cloned"}]
           failed(e) == [conns[c] EXCEPT !.step = "clean", !.error = e]
           Refusals == {"RemoteRepoError", "Unexpected"}
<1>0. conns[c] \in Conn /\ RequestInv(conns[c]) /\ CheckoutInv(conns[c])
  BY Before
<1>1. /\ conns[c].step = "clone" /\ up
      /\ UNCHANGED <<account, up, free, requests, exits>>
  BY DEF Clone, At, Frame
<1>2. /\ conns[c].error = "none" /\ conns[c].sent = <<>>
      /\ conns[c].request.route \in WorkRoutes /\ conns[c].request.repo = "proper"
  BY <1>0, <1>1 DEF Conn, RequestInv, SlotSteps
<1>3. /\ w \in DOMAIN disk /\ disk[w] = [content |-> "empty", cause |-> "none"]
      /\ disk \in Seq(Directory) /\ conns[c].step \in WorkspaceSteps
  BY <1>0, <1>1 DEF CheckoutInv, CheckoutOn, WorkspaceSteps, IInv, TypeOK, Directory
<1>4. /\ cloned \in Conn /\ cloned.workspace = w /\ cloned.step = "store"
      /\ \A e \in Refusals :
           failed(e) \in Conn /\ failed(e).workspace = w /\ failed(e).step = "clean"
  BY <1>0, ErrorNames DEF Conn, Steps, Parts
<1>5. RequestInv(cloned) /\ \A e \in Refusals : RequestInv(failed(e))
  BY <1>0, <1>1, <1>2 DEF Conn, RequestInv, SlotSteps, Worked
<1>6. "store" \in SlotSteps /\ "clean" \in SlotSteps
      /\ "store" \in WorkspaceSteps /\ "clean" \in WorkspaceSteps
  BY DEF SlotSteps, WorkspaceSteps
<1>7. CASE disk' = [disk EXCEPT ![w].content = "whole"] /\ Continue(c, cloned)
  <2>1. disk' = [disk EXCEPT ![w] = whole] /\ whole \in Directory
    <3>1. [disk[w] EXCEPT !.content = "whole"] = whole
      BY <1>3
    <3>2. disk' = [disk EXCEPT ![w] = [disk[w] EXCEPT !.content = "whole"]]
      BY <1>7
    <3> QED
      BY <3>1, <3>2 DEF Directory, Contents
  <2>2. w \in DOMAIN disk' /\ disk'[w] = whole
    BY <1>3, <2>1
  <2>3. CheckoutOn(disk', cloned)
    BY <1>4, <2>2 DEF CheckoutOn
  <2> HIDE DEF whole, cloned
  <2> QED
    BY <1>1, <1>3, <1>4, <1>5, <1>6, <1>7, <2>1, <2>3, CheckoutKeeps
<1>8. ASSUME NEW e \in Refusals,
             NEW d \in {[content |-> "empty", cause |-> "none"],
                        [content |-> "empty", cause |-> "timeout"],
                        [content |-> "partial", cause |-> "timeout"]},
             disk' = [disk EXCEPT ![w] = d], Continue(c, failed(e))
      PROVE  IInv'
  <2>1. d \in Directory
    BY DEF Directory, Contents
  <2>2. w \in DOMAIN disk' /\ disk'[w] = d
    BY <1>3, <1>8
  <2>3. CheckoutOn(disk', failed(e))
    BY <1>4, <2>2 DEF CheckoutOn
  <2> HIDE DEF failed
  <2> QED
    BY <1>1, <1>3, <1>4, <1>5, <1>6, <1>8, <2>1, <2>3, CheckoutKeeps
<1>9. disk = [disk EXCEPT ![w] = [content |-> "empty", cause |-> "none"]]
  BY <1>3
<1> QED
  BY <1>7, <1>8, <1>9 DEF Clone, Finish, Fail

LEMMA CleanKeeps == ASSUME IInv, NEW c \in Conns, Clean(c) PROVE IInv'
<1> DEFINE w == conns[c].workspace
           k == [conns[c] EXCEPT !.step = "release"]
<1>0. conns[c] \in Conn /\ RequestInv(conns[c]) /\ CheckoutInv(conns[c])
  BY Before
<1>1. /\ conns[c].step = "clean" /\ up /\ Continue(c, k)
      /\ UNCHANGED <<account, up, free, requests, exits>>
  BY DEF Clean, At, Goto, Frame
<1>2. /\ w \in DOMAIN disk /\ disk \in Seq(Directory) /\ conns[c].step \in WorkspaceSteps
      /\ disk[w] \in {[content |-> "empty", cause |-> "none"],
                      [content |-> "whole", cause |-> "none"],
                      [content |-> "empty", cause |-> "timeout"],
                      [content |-> "partial", cause |-> "timeout"]}
      /\ account \in {"privileged", "ordinary"}
  BY <1>0, <1>1, AccountsAssumption DEF CheckoutInv, CheckoutOn, WorkspaceSteps, IInv, TypeOK, Directory
<1>3. k \in Conn /\ k.workspace = w /\ k.step = "release"
  BY <1>0 DEF Conn, Steps
<1>4. RequestInv(k)
  BY <1>0, <1>1 DEF Conn, RequestInv, SlotSteps, Worked
<1>5. "release" \in SlotSteps /\ "release" \notin WorkspaceSteps
  BY DEF SlotSteps, WorkspaceSteps
<1>6. CheckoutOn(disk', k)
  BY <1>3, <1>5 DEF CheckoutOn
<1>7. PICK left \in Remains(disk[w]) : disk' = [disk EXCEPT ![w].content = left]
  BY DEF Clean
<1> DEFINE d == [content |-> left, cause |-> disk[w].cause]
<1>8. disk' = [disk EXCEPT ![w] = d]
  <2>1. [disk[w] EXCEPT !.content = left] = d
    BY <1>2
  <2>2. disk' = [disk EXCEPT ![w] = [disk[w] EXCEPT !.content = left]]
    BY <1>7
  <2> QED
    BY <2>1, <2>2
<1>9. d \in Directory /\ Explained(d)
  BY <1>2, <1>7 DEF Directory, Contents, Remains, Explained
<1> HIDE DEF d, k
<1> QED
  BY <1>1, <1>2, <1>3, <1>4, <1>5, <1>6, <1>8, <1>9, CheckoutKeeps

LEMMA MakeWorkspaceKeeps == ASSUME IInv, NEW c \in Conns, MakeWorkspace(c) PROVE IInv'
<1>0. /\ conns \in [Conns -> Conn] /\ conns[c] \in Conn /\ RequestInv(conns[c])
      /\ TypeOK /\ ConnsInv /\ DiskInv /\ SlotsInv /\ requests \in 0..MaxRequests
  BY Before DEF IInv
<1>1. /\ conns[c].step = "slot" /\ up
      /\ UNCHANGED <<account, up, free, requests, exits>>
  BY DEF MakeWorkspace, At, Frame
<1>2. conns[c].step \in SlotSteps /\ conns[c].step \notin WorkspaceSteps
  BY <1>1 DEF SlotSteps, WorkspaceSteps
<1>3. CASE Fail(c, "Unexpected", "release") /\ UNCHANGED disk
  <2> DEFINE k == [conns[c] EXCEPT !.step = "release", !.error = "Unexpected"]
  <2>1. k \in Conn /\ k.workspace = conns[c].workspace /\ k.step = "release"
    BY <1>0, ErrorNames DEF Conn, Steps
  <2>2. RequestInv(k)
    BY <1>0, <1>1 DEF Conn, RequestInv, SlotSteps, Worked
  <2>3. k.step \in SlotSteps /\ k.step \notin WorkspaceSteps
    BY <2>1 DEF SlotSteps, WorkspaceSteps
  <2>4. CheckoutInv(k)
    BY <2>3 DEF CheckoutInv, CheckoutOn
  <2>5. conns' = [conns EXCEPT ![c] = k] /\ requests' \in 0..MaxRequests
    BY <1>0, <1>1, <1>3 DEF Fail, Continue
  <2> HIDE DEF k
  <2> QED
    BY <1>1, <1>2, <1>3, <2>1, <2>2, <2>3, <2>4, <2>5, LocalStep DEF LocalAction
<1>4. CASE /\ disk' = Append(disk, [content |-> "empty", cause |-> "none"])
           /\ Continue(c, [conns[c] EXCEPT !.step = "clone", !.workspace = Len(disk) + 1])
  <2> DEFINE n == Len(disk) + 1
             k == [conns[c] EXCEPT !.step = "clone", !.workspace = n]
             made == [content |-> "empty", cause |-> "none"]
  <2>0. disk \in Seq(Directory) /\ Len(disk) \in Nat /\ made \in Directory
    BY <1>0 DEF TypeOK, Directory, Contents
  <2>1. k \in Conn /\ k.workspace = Len(disk) + 1 /\ k.step = "clone"
    <3>1. n \in Nat
      BY <2>0
    <3> HIDE DEF n
    <3>2. k \in Conn /\ k.workspace = n /\ k.step = "clone"
      BY <1>0, <3>1 DEF Conn, Steps
    <3> QED
      BY <3>2 DEF n
  <2>2. RequestInv(k)
    BY <1>0, <1>1 DEF Conn, RequestInv, SlotSteps, Worked
  <2>3. k.step \in SlotSteps /\ k.step \in WorkspaceSteps
    BY <2>1 DEF SlotSteps, WorkspaceSteps
  <2> HIDE DEF k, made
  <2>4. /\ conns'[c] = k
        /\ \A d \in Conns : d # c => conns'[d] = conns[d]
        /\ conns' \in [Conns -> Conn]
    BY <1>0, <1>4, <2>1 DEF Continue, k
  <2>5. /\ disk' \in Seq(Directory) /\ Len(disk') = Len(disk) + 1
        /\ DOMAIN disk = 1..Len(disk) /\ DOMAIN disk' = 1..(Len(disk) + 1)
        /\ disk'[Len(disk) + 1] = made
        /\ \A u \in DOMAIN disk : disk'[u] = disk[u]
    BY <1>4, <2>0 DEF made
  <2>6. TypeOK'
    BY <1>0, <1>1, <2>4, <2>5 DEF TypeOK, Conn, Parts, Directory
  <2>7. ConnsInv'
    BY <1>0, <2>2, <2>4 DEF ConnsInv, RequestInv, Status, Work
  <2>8. Holders' = Holders
    BY <1>2, <2>3, <2>4 DEF Holders
  <2>9. \A d \in Conns : conns[d].workspace \in Nat /\ conns[d].workspace <= Len(disk)
    BY <1>0 DEF DiskInv, Conn
  <2>10. \A d \in Conns : CheckoutInv(conns[d])'
    <3>1. ASSUME NEW d \in Conns, d # c PROVE CheckoutInv(conns[d])'
      <4>1. conns'[d] = conns[d] /\ CheckoutInv(conns[d])
        BY <1>0, <2>4, <3>1 DEF DiskInv
      <4> QED
        BY <2>0, <2>5, <4>1 DEF CheckoutInv, CheckoutOn
    <3>2. CheckoutInv(conns[c])'
      BY <2>0, <2>1, <2>4, <2>5 DEF CheckoutInv, CheckoutOn, made
    <3> QED
      BY <3>1, <3>2
  <2>11. \A d, e \in Conns : d # e /\ conns'[d].workspace = conns'[e].workspace
                              => conns'[d].workspace = 0
    BY <1>0, <2>0, <2>1, <2>4, <2>9 DEF DiskInv
  <2>12. \A d \in Conns : conns'[d].workspace <= Len(disk')
    BY <2>0, <2>1, <2>4, <2>5, <2>9
  <2>13. LeftBehindOnlyIf'
    <3> SUFFICES ASSUME NEW u \in DOMAIN disk', u \notin InUse' PROVE Explained(disk[u])'
      BY DEF LeftBehindOnlyIf, LeftBehind, Explained
    <3>1. u # Len(disk) + 1
      BY <2>1, <2>3, <2>4 DEF InUse
    <3>2. u \in DOMAIN disk /\ disk'[u] = disk[u]
      BY <2>0, <2>5, <3>1
    <3>3. u \notin InUse
      BY <1>2, <2>4 DEF InUse
    <3>4. Explained(disk[u])
      BY <1>0, <3>2, <3>3 DEF DiskInv, LeftBehindOnlyIf, LeftBehind, Explained
    <3> QED
      BY <1>1, <3>2, <3>4 DEF Explained
  <2>14. DiskInv'
    BY <2>10, <2>11, <2>12, <2>13 DEF DiskInv
  <2>15. SlotsInv'
    BY <1>0, <1>1, <2>8 DEF SlotsInv
  <2> QED
    BY <2>6, <2>7, <2>14, <2>15 DEF IInv
<1> QED
  BY <1>3, <1>4 DEF MakeWorkspace

-----------------------------------------------------------------------------
LEMMA ExitKeeps == ASSUME IInv, Exit PROVE IInv'
<1>0. TypeOK /\ ConnsInv /\ DiskInv /\ SlotsInv
  BY DEF IInv
<1>1. \A c \in Conns : conns'[c] = Closed
  BY DEF Exit
<1>2. conns' \in [Conns -> Conn]
  BY ClosedFine DEF Exit
<1>3. disk \in Seq(Directory) /\ Len(disk) \in Nat /\ DOMAIN disk = 1..Len(disk)
  BY <1>0 DEF TypeOK, Directory
<1>4. \A u \in DOMAIN disk : disk[u] \in Directory
                             /\ [disk[u] EXCEPT !.cause = "exit"] \in Directory
  <2>1. ASSUME NEW d \in Directory PROVE [d EXCEPT !.cause = "exit"] \in Directory
    BY DEF Directory
  <2>2. \A u \in DOMAIN disk : disk[u] \in Directory
    BY <1>3
  <2> QED
    BY <2>1, <2>2
<1>5. /\ DOMAIN disk' = DOMAIN disk
      /\ \A u \in DOMAIN disk : disk'[u] = IF u \in InUse THEN [disk[u] EXCEPT !.cause = "exit"]
                                           ELSE disk[u]
  BY DEF Exit
<1>6. disk' \in Seq(Directory) /\ Len(disk') \in Nat
  <2>1. disk' = [u \in 1..Len(disk) |-> disk'[u]]
    BY <1>3 DEF Exit
  <2>2. \A u \in 1..Len(disk) : disk'[u] \in Directory
    BY <1>3, <1>4, <1>5
  <2>3. disk' \in [1..Len(disk) -> Directory]
    BY <2>1, <2>2
  <2> QED
    BY <1>3, <2>3
<1>7. TypeOK'
  <2>1. exits' \in 0..MaxExits
    BY <1>0, ApiBounds DEF Exit, TypeOK
  <2>2. /\ account' \in Accounts /\ up' \in BOOLEAN /\ free' \in 0..MaxConcurrency
        /\ requests' \in 0..MaxRequests
    BY <1>0 DEF Exit, TypeOK
  <2> QED
    BY <1>2, <1>6, <2>1, <2>2 DEF TypeOK, Conn, Parts, Directory
<1>8. ConnsInv'
  BY <1>1, ClosedFine DEF ConnsInv, RequestInv, Status, Work
<1>9. LeftBehindOnlyIf'
  <2> SUFFICES ASSUME NEW u \in DOMAIN disk' PROVE Explained(disk[u])'
    BY DEF LeftBehindOnlyIf, LeftBehind, Explained
  <2>1. CASE u \in InUse
    <3>1. disk'[u].cause = "exit"
      BY <1>4, <1>5, <2>1 DEF Directory
    <3> QED
      BY <3>1 DEF Explained
  <2>2. CASE u \notin InUse
    BY <1>0, <1>5, <2>2 DEF Exit, DiskInv, LeftBehindOnlyIf, LeftBehind, Explained
  <2> QED
    BY <2>1, <2>2
<1>10. DiskInv'
  BY <1>1, <1>6, <1>9 DEF DiskInv, CheckoutInv, CheckoutOn, Closed, WorkspaceSteps
<1>11. SlotsInv'
  BY <1>1 DEF Exit, SlotsInv, Closed, NoRequest
<1> QED
  BY <1>7, <1>8, <1>10, <1>11 DEF IInv

LEMMA RestartKeeps == ASSUME IInv, Restart PROVE IInv'
<1>0. TypeOK /\ ConnsInv /\ DiskInv /\ SlotsInv /\ ~up /\ up' /\ free' = MaxConcurrency
      /\ UNCHANGED <<account, conns, disk, requests, exits>>
  BY DEF IInv, Restart
<1>1. TypeOK'
  BY <1>0, SlotsAssumption DEF Restart, TypeOK
<1>2. ConnsInv'
  BY <1>0 DEF ConnsInv, RequestInv, Status, Work
<1>3. InUse' = InUse
  BY <1>0 DEF InUse
<1>4. LeftBehindOnlyIf'
  BY <1>0, <1>3 DEF DiskInv, LeftBehindOnlyIf, LeftBehind
<1>5. DiskInv'
  BY <1>0, <1>4 DEF DiskInv, CheckoutInv, CheckoutOn
<1>6. Holders' = {}
  BY <1>0 DEF SlotsInv, Holders, Closed, SlotSteps
<1>7. SlotsInv'
  BY <1>0, <1>6, FS_EmptySet, SlotsAssumption DEF SlotsInv
<1> QED
  BY <1>1, <1>2, <1>5, <1>7 DEF IInv

LEMMA StutterKeeps == ASSUME IInv, UNCHANGED vars PROVE IInv'
  BY DEF vars, IInv, TypeOK, ConnsInv, RequestInv, Status, Work, DiskInv, CheckoutInv, CheckoutOn,
         LeftBehindOnlyIf, LeftBehind, InUse, SlotsInv, Holders

LEMMA NextInv == IInv /\ [Next]_vars => IInv'
<1> SUFFICES ASSUME IInv, [Next]_vars PROVE IInv' OBVIOUS
<1>1. ASSUME NEW c \in Conns, Serve(c) PROVE IInv'
  BY <1>1, RouteKeeps, AcquireKeeps, MakeWorkspaceKeeps, CloneKeeps, StoreKeeps, CompareKeeps,
     ExplainKeeps, CleanKeeps, ReleaseKeeps DEF Serve
<1> QED
  BY <1>1, CallerKeeps, AnswerKeeps, ExitKeeps, RestartKeeps, StutterKeeps DEF Next

(* The three parts of the invariant hold in every reachable state. *)
THEOREM Invariant == Spec => []IInv
<1>1. Init => IInv
  BY InitInv
<1>2. IInv /\ [Next]_vars => IInv'
  BY NextInv
<1> QED
  BY <1>1, <1>2, PTL DEF Spec

(* Every variable of the hosted API keeps its type. *)
THEOREM TypeCorrect == Spec => []TypeOK
<1>1. IInv => TypeOK
  BY DEF IInv
<1> QED
  BY <1>1, Invariant, PTL

(* Whatever fails, no slot of the semaphore is lost or freed twice, and no *)
(* two analyses share a checkout (server.py, `with self._slots`).          *)
THEOREM SlotsAreAccounted == Spec => []SlotsAccounted
<1>1. IInv => SlotsAccounted
  BY DEF IInv, SlotsInv, DiskInv, SlotsAccounted, Holders
<1> QED
  BY <1>1, Invariant, PTL

(* A checkout outlives its request only after an exit, after a killed git, *)
(* or under an account that may not enter what it has locked               *)
(* (cloned_workspace, _remove_workspace).                                  *)
THEOREM LeftBehindIsExplained == Spec => []LeftBehindOnlyIf
<1>1. IInv => LeftBehindOnlyIf
  BY DEF IInv, DiskInv
<1> QED
  BY <1>1, Invariant, PTL

(* A request gets one answer, and "200" for a repository only once all the *)
(* work was done (do_GET, do_POST, _report_failure).                       *)
THEOREM AnsweredOnce == Spec => []OneAnswer
<1>1. ASSUME IInv PROVE OneAnswer
  <2> SUFFICES ASSUME NEW c \in Conns
               PROVE  LET k == conns[c] IN
                 /\ Len(k.sent) <= 1
                 /\ k.step \in {"route", "waiting", "build", "head", "retry"} \cup SlotSteps
                      => k.sent = <<>>
                 /\ k.sent = <<200>> /\ k.request.route \in WorkRoutes
                      => Work(k.request) \subseteq k.done
                 /\ Work(k.request) \subseteq k.done /\ k.error = "none" /\ k.sent # <<>>
                      => k.sent = <<200>>
    BY DEF OneAnswer
  <2> DEFINE k == conns[c]
  <2>1. k \in Conn /\ RequestInv(k)
    BY <1>1, Before
  <2>2. CASE k.step # "body"
    BY <2>1, <2>2 DEF RequestInv
  <2>3. CASE k.step = "body"
    <3>1. k.sent = <<Status(k)>> /\ Len(k.sent) = 1 /\ k.sent # <<>>
      <4>1. k.sent = <<Status(k)>>
        BY <2>1, <2>3 DEF RequestInv
      <4>2. Len(<<Status(k)>>) = 1 /\ <<Status(k)>> # <<>>
        OBVIOUS
      <4> QED
        BY <4>1, <4>2
    <3>2. k.step \notin {"route", "waiting", "build", "head", "retry"} \cup SlotSteps
      BY <2>3 DEF SlotSteps
    <3>3. ASSUME k.sent = << 200 >>, k.request.route \in WorkRoutes
          PROVE  Work(k.request) \subseteq k.done
      <4>1. Status(k) = 200
        BY <3>1, <3>3
      <4>2. k.error = "none"
        BY <2>1, <4>1, ErrorNames DEF Status, StatusFor, Conn
      <4>3. k.request.repo # "missing"
        BY <3>3, <4>1, <4>2 DEF Status, OtherRoutes, OtherStatus, WorkRoutes
      <4> QED
        BY <2>1, <2>3, <3>3, <4>2, <4>3 DEF RequestInv, Worked
    <3>4. ASSUME Work(k.request) \subseteq k.done, k.error = "none" PROVE k.sent = <<200>>
      <4>1. k.done # {}
        BY <3>4 DEF Work
      <4>2. k.request.route \in WorkRoutes /\ k.request.repo = "proper"
        BY <2>1, <4>1 DEF RequestInv
      <4>3. Status(k) = 200
        BY <3>4, <4>2 DEF Status, OtherRoutes, OtherStatus, WorkRoutes
      <4> QED
        BY <3>1, <4>3
    <3> QED
      BY <3>1, <3>2, <3>3, <3>4
  <2> QED
    BY <2>2, <2>3
<1> QED
  BY <1>1, Invariant, PTL

=============================================================================
