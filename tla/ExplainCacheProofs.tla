------------------------- MODULE ExplainCacheProofs -------------------------
(***************************************************************************)
(* AnswerIsForThisPrompt and PaidAgainOnlyIf, for any number of processes, *)
(* files, providers, operations, edits and deaths.                         *)
(*                                                                         *)
(* The first speaks of finished explains only.  What carries it there is   *)
(* that every row of the cache was answered by a call for the prompt that  *)
(* is its key, and that a process keeps its prompt from the moment it      *)
(* makes its own call; calls are only ever added, and keep their prompts.  *)
(*                                                                         *)
(* The second compares two calls by the snippets in them, as sets, and by  *)
(* the number of their snapshot.  The number stands for one snapshot, its  *)
(* candidates for snippets are in one order and no file is twice in it, so *)
(* the sets determine the prompts; and who has asked for a prompt has not  *)
(* found a row for it, while what is stored stays to be found.             *)
(***************************************************************************)
EXTENDS ExplainCache, SequenceTheorems, FiniteSetTheorems, FunctionTheorems,
        WellFoundedInduction, TLAPS

IsProcess(k) ==
  k = [step |-> k.step, changed |-> k.changed, snap |-> k.snap, todo |-> k.todo,
       prompt |-> k.prompt, provider |-> k.provider, call |-> k.call, answer |-> k.answer]

IsCall(c) ==
  c = [prompt |-> c.prompt, changed |-> c.changed, snap |-> c.snap, known |-> c.known,
       state |-> c.state]

(* Call i was made for this prompt. *)
For(i, prompt, cs) == i \in DOMAIN cs /\ cs[i].prompt = prompt

Asking == {"ask", "keep", "close"}

ProcessOk(k, cs) ==
  /\ IsProcess(k)
  /\ k.step \in Asking => For(k.call, k.prompt, cs)
  /\ k.answer # 0 => For(k.answer, k.prompt, cs) /\ k.step = "idle"

CallsOk(cs) == (\E S : cs \in Seq(S)) /\ \A i \in DOMAIN cs : IsCall(cs[i])

Inv ==
  /\ CallsOk(calls)
  /\ procs = [p \in Procs |-> procs[p]]
  /\ \A p \in Procs : ProcessOk(procs[p], calls)
  /\ \A row \in cache : For(row.call, row.key, calls)

-----------------------------------------------------------------------------
(* What was said before is still said after. *)
Extends(ds, cs) ==
  \A i \in DOMAIN cs : i \in DOMAIN ds /\ ds[i].prompt = cs[i].prompt

(* What holds of a process, or of a row, is not lost when calls are added. *)
LEMMA OkLasts ==
  ASSUME NEW cs, NEW ds, Extends(ds, cs)
  PROVE  /\ \A k : ProcessOk(k, cs) => ProcessOk(k, ds)
         /\ \A i, prompt : For(i, prompt, cs) => For(i, prompt, ds)
BY DEF Extends, ProcessOk, For

(* Marking a call changes no prompt. *)
LEMMA MarkExtends ==
  ASSUME NEW cs, CallsOk(cs), NEW i \in DOMAIN cs, NEW state
  PROVE  LET ds == [cs EXCEPT ![i].state = state]
         IN  CallsOk(ds) /\ Extends(ds, cs)
<1> DEFINE c == [cs[i] EXCEPT !.state = state]
           ds == [cs EXCEPT ![i] = c]
<1>1. PICK S : cs \in Seq(S)
  BY DEF CallsOk
<1>2. IsCall(cs[i])
  BY DEF CallsOk
<1>3. IsCall(c) /\ c.prompt = cs[i].prompt
  BY <1>2 DEF IsCall
<1> HIDE DEF c
<1>4. cs \in Seq(S \cup {c}) /\ DOMAIN cs = 1 .. Len(cs) /\ Len(cs) \in Nat
  BY <1>1
<1>5. ds \in Seq(S \cup {c}) /\ DOMAIN ds = DOMAIN cs
  BY <1>4
<1>6. \A j \in DOMAIN cs : ds[j] = IF j = i THEN c ELSE cs[j]
  BY <1>4
<1>7. CallsOk(ds) /\ Extends(ds, cs)
  BY <1>3, <1>5, <1>6 DEF CallsOk, Extends
<1>8. ds = [cs EXCEPT ![i].state = state]
  BY DEF c
<1> QED
  BY <1>7, <1>8

(* A new call is the last one; those before it stay. *)
LEMMA AppendExtends ==
  ASSUME NEW cs, CallsOk(cs), NEW c, IsCall(c)
  PROVE  LET ds == Append(cs, c)
         IN  CallsOk(ds) /\ Extends(ds, cs) /\ For(Len(cs) + 1, c.prompt, ds)
<1> DEFINE ds == Append(cs, c)
<1>1. PICK S : cs \in Seq(S)
  BY DEF CallsOk
<1>2. cs \in Seq(S \cup {c}) /\ DOMAIN cs = 1 .. Len(cs) /\ Len(cs) \in Nat
  BY <1>1
<1>3. /\ ds \in Seq(S \cup {c})
      /\ DOMAIN ds = 1 .. (Len(cs) + 1)
      /\ \A j \in DOMAIN cs : ds[j] = cs[j]
      /\ ds[Len(cs) + 1] = c
  BY <1>2
<1> HIDE DEF ds
<1>4. \A j \in DOMAIN ds : j \in DOMAIN cs \/ j = Len(cs) + 1
  BY <1>2, <1>3
<1>5. CallsOk(ds)
  BY <1>3, <1>4 DEF CallsOk
<1>6. Extends(ds, cs)
  BY <1>2, <1>3 DEF Extends
<1>7. For(Len(cs) + 1, c.prompt, ds)
  BY <1>2, <1>3 DEF For
<1> QED
  BY <1>5, <1>6, <1>7 DEF ds

-----------------------------------------------------------------------------
(* One process moves on, and calls are at most added or marked. *)
LEMMA OneProcess ==
  ASSUME Inv, NEW p \in Procs, NEW k, Become(p, k), ProcessOk(k, calls'),
         CallsOk(calls'), Extends(calls', calls),
         \A row \in cache' : row \in cache \/ For(row.call, row.key, calls')
  PROVE  Inv'
<1>1. procs' = [procs EXCEPT ![p] = k]
  BY DEF Become
<1>2. procs' = [q \in Procs |-> procs'[q]]
  BY <1>1 DEF Inv
<1>3. \A q \in Procs : procs'[q] = IF q = p THEN k ELSE procs[q]
  BY <1>1 DEF Inv
<1>4. \A q \in Procs : ProcessOk(procs'[q], calls')
  BY <1>3, OkLasts DEF Inv
<1>5. \A row \in cache' : For(row.call, row.key, calls')
  BY OkLasts DEF Inv
<1> QED
  BY <1>2, <1>4, <1>5 DEF Inv

(* The same for the steps that leave calls and cache alone. *)
LEMMA OnlyProcess ==
  ASSUME Inv, NEW p \in Procs, NEW k, Become(p, k), ProcessOk(k, calls),
         UNCHANGED <<calls, cache>>
  PROVE  Inv'
<1>1. CallsOk(calls') /\ Extends(calls', calls)
  BY DEF Inv, Extends
<1> QED
  BY <1>1, OneProcess

(* A process without an answer owes nothing. *)
LEMMA IdleIsOk == ASSUME NEW cs PROVE ProcessOk(Idle, cs)
BY DEF ProcessOk, IsProcess, Idle, Asking

(* Steps that only change where a process is, before it has a call. *)
LEMMA EarlyIsOk ==
  ASSUME NEW k, NEW cs, IsProcess(k), k.step \notin Asking, k.answer = 0
  PROVE  ProcessOk(k, cs)
BY DEF ProcessOk

(* A process that is not idle has no answer yet. *)
LEMMA BusyHasNone ==
  ASSUME Inv, NEW p \in Procs, procs[p].step # "idle"
  PROVE  IsProcess(procs[p]) /\ procs[p].answer = 0
BY DEF Inv, ProcessOk

-----------------------------------------------------------------------------
(* The steps of an analyze, and of an explain until it looks into the      *)
(* cache.                                                                  *)

LEMMA FailKeeps ==
  ASSUME Inv, NEW p \in Procs, Fail(p), UNCHANGED <<calls, cache>>
  PROVE  Inv'
<1>1. PICK k : k = Idle
  OBVIOUS
<1> QED
  BY <1>1, IdleIsOk, OnlyProcess DEF Fail

LEMMA StartKeeps ==
  ASSUME Inv, NEW p \in Procs, Start(p)
  PROVE  Inv'
<1>1. CASE StartAnalyze(p)
  <2> DEFINE seen == [f \in Files |-> IF tree[f] = Garbled THEN Absent ELSE tree[f]]
  <2>1. PICK order \in Orders :
          Become(p, [Idle EXCEPT !.step = "scanned",
                                 !.snap = [number |-> 0, seen |-> seen, order |-> order]])
    BY <1>1 DEF StartAnalyze
  <2>2. PICK s : s = [number |-> 0, seen |-> seen, order |-> order]
    OBVIOUS
  <2> HIDE DEF seen
  <2>3. PICK i : i = [Idle EXCEPT !.step = "scanned"]
    OBVIOUS
  <2>k. PICK k : k = [i EXCEPT !.snap = s]
    OBVIOUS
  <2>4. Become(p, k)
    BY <2>1, <2>2, <2>3, <2>k
  <2>i. IsProcess(i) /\ i.answer = 0 /\ i.step = "scanned"
    BY <2>3 DEF Idle, IsProcess
  <2>5. ProcessOk(k, calls)
    BY <2>i, <2>k, EarlyIsOk DEF IsProcess, Asking
  <2> QED
    BY <1>1, <2>4, <2>5, OnlyProcess DEF StartAnalyze
<1>2. CASE StartExplain(p)
  <2>1. PICK c \in SUBSET Files : Become(p, [Idle EXCEPT !.step = "open", !.changed = c])
    BY <1>2 DEF StartExplain
  <2>2. PICK i : i = [Idle EXCEPT !.step = "open"]
    OBVIOUS
  <2>k. PICK k : k = [i EXCEPT !.changed = c]
    OBVIOUS
  <2>i. IsProcess(i) /\ i.answer = 0 /\ i.step = "open"
    BY <2>2 DEF Idle, IsProcess
  <2>3. ProcessOk(k, calls)
    BY <2>i, <2>k, EarlyIsOk DEF IsProcess, Asking
  <2> QED
    BY <1>2, <2>1, <2>2, <2>3, <2>k, OnlyProcess DEF StartExplain
<1> QED
  BY <1>1, <1>2 DEF Start

LEMMA AnalyzeKeeps ==
  ASSUME Inv, NEW p \in Procs, StoreSnapshot(p) \/ CloseAnalyze(p)
  PROVE  Inv'
<1>1. CASE StoreSnapshot(p) /\ Goto(p, "stored")
  <2>1. PICK k : k = [procs[p] EXCEPT !.step = "stored"]
    OBVIOUS
  <2>2. IsProcess(procs[p]) /\ procs[p].answer = 0
    BY <1>1, BusyHasNone DEF StoreSnapshot, At
  <2>3. ProcessOk(k, calls)
    BY <2>1, <2>2, EarlyIsOk DEF IsProcess, Asking
  <2> QED
    BY <1>1, <2>1, <2>3, OnlyProcess DEF StoreSnapshot, Goto
<1>2. CASE StoreSnapshot(p) /\ Fail(p)
  BY <1>2, FailKeeps DEF StoreSnapshot
<1>3. CASE CloseAnalyze(p)
  BY <1>3, FailKeeps DEF CloseAnalyze, Fail
<1> QED
  BY <1>1, <1>2, <1>3 DEF StoreSnapshot

LEMMA OpenKeeps ==
  ASSUME Inv, NEW p \in Procs, Open(p)
  PROVE  Inv'
<1>1. CASE Fail(p)
  BY <1>1, FailKeeps DEF Open
<1>2. CASE ~Fail(p)
  <2> DEFINE d == Direct(snap, procs[p].changed)
  <2>0. PICK s, t, m : /\ s = snap
                       /\ t = Candidates(snap, procs[p].changed)
                       /\ m = [dependents |-> [i \in DOMAIN d |-> <<snap.number, d[i]>>],
                               snippets |-> <<>>]
    OBVIOUS
  <2>1. PICK a, b, c : /\ a = [procs[p] EXCEPT !.step = "read"]
                       /\ b = [a EXCEPT !.snap = s]
                       /\ c = [b EXCEPT !.todo = t]
    OBVIOUS
  <2>k. PICK k : k = [c EXCEPT !.prompt = m]
    OBVIOUS
  <2>4. Become(p, k)
    BY <1>2, <2>0, <2>1, <2>k DEF Open
  <2>2. IsProcess(procs[p]) /\ procs[p].answer = 0
    BY BusyHasNone DEF Open, At
  <2>a. IsProcess(a) /\ a.step = "read" /\ a.answer = 0
    BY <2>1, <2>2 DEF IsProcess
  <2>b. IsProcess(b) /\ b.step = "read" /\ b.answer = 0
    BY <2>1, <2>a DEF IsProcess
  <2>c. IsProcess(c) /\ c.step = "read" /\ c.answer = 0
    BY <2>1, <2>b DEF IsProcess
  <2>3. ProcessOk(k, calls)
    BY <2>c, <2>k, EarlyIsOk DEF IsProcess, Asking
  <2> QED
    BY <2>3, <2>4, OnlyProcess DEF Open
<1> QED
  BY <1>1, <1>2

LEMMA ReadKeeps ==
  ASSUME Inv, NEW p \in Procs, Read(p)
  PROVE  Inv'
<1>1. CASE Fail(p)
  BY <1>1, FailKeeps DEF Read
<1>2. CASE ~Fail(p)
  <2>1. PICK t, m :
          /\ t = Tail(procs[p].todo)
          /\ m = [procs[p].prompt EXCEPT !.snippets =
                   IF tree[Head(procs[p].todo)] = Absent THEN @
                   ELSE Append(@, [file |-> Head(procs[p].todo),
                                   tag |-> procs[p].snap.seen[Head(procs[p].todo)],
                                   text |-> tree[Head(procs[p].todo)]])]
    OBVIOUS
  <2>2. PICK a : a = [procs[p] EXCEPT !.todo = t]
    OBVIOUS
  <2>k. PICK k : k = [a EXCEPT !.prompt = m]
    OBVIOUS
  <2>4. IsProcess(procs[p]) /\ procs[p].answer = 0 /\ procs[p].step = "read"
    BY BusyHasNone DEF Read, At
  <2>a. IsProcess(a) /\ a.step = "read" /\ a.answer = 0 /\ a.prompt = procs[p].prompt
    BY <2>2, <2>4 DEF IsProcess
  <2>3. Become(p, k)
    BY <1>2, <2>1, <2>2, <2>a, <2>k DEF Read
  <2>5. ProcessOk(k, calls)
    BY <2>a, <2>k, EarlyIsOk DEF IsProcess, Asking
  <2> QED
    BY <2>3, <2>5, OnlyProcess DEF Read
<1> QED
  BY <1>1, <1>2

-----------------------------------------------------------------------------
(* The cache is looked into, a model is asked, and its answer is kept.     *)

(* An explain that ends with a call made for its prompt. *)
LEMMA StopIsOk ==
  ASSUME NEW cs, NEW k, IsProcess(k), NEW i, For(i, k.prompt, cs)
  PROVE  ProcessOk([[Idle EXCEPT !.answer = i] EXCEPT !.prompt = k.prompt], cs)
<1>1. PICK a : a = [Idle EXCEPT !.answer = i]
  OBVIOUS
<1>2. PICK b : b = [a EXCEPT !.prompt = k.prompt]
  OBVIOUS
<1>3. IsProcess(a) /\ a.answer = i /\ a.step = "idle"
  BY <1>1 DEF Idle, IsProcess
<1>4. IsProcess(b) /\ b.answer = i /\ b.step = "idle" /\ b.prompt = k.prompt
  BY <1>2, <1>3 DEF IsProcess
<1> QED
  BY <1>1, <1>2, <1>4 DEF ProcessOk, Asking

LEMMA LookupKeeps ==
  ASSUME Inv, NEW p \in Procs, Lookup(p)
  PROVE  Inv'
<1>1. IsProcess(procs[p]) /\ procs[p].answer = 0
  BY BusyHasNone DEF Lookup, At
<1>2. ASSUME NEW row \in cache, row.key = procs[p].prompt, Stop(p, row.call),
             UNCHANGED <<calls, cache>>
      PROVE  Inv'
  <2>1. For(row.call, procs[p].prompt, calls)
    BY <1>2 DEF Inv
  <2>2. PICK k : k = [[Idle EXCEPT !.answer = row.call] EXCEPT !.prompt = procs[p].prompt]
    OBVIOUS
  <2>3. ProcessOk(k, calls)
    BY <1>1, <2>1, <2>2, StopIsOk
  <2> QED
    BY <1>2, <2>2, <2>3, OnlyProcess DEF Stop
<1>3. ASSUME calls' = Append(calls, [prompt |-> procs[p].prompt, changed |-> procs[p].changed,
                                     snap |-> procs[p].snap.number, known |-> Stored,
                                     state |-> "asking"]),
             Become(p, [procs[p] EXCEPT !.step = "ask", !.provider = 1,
                                        !.call = Len(calls) + 1]),
             UNCHANGED cache
      PROVE  Inv'
  <2>1. PICK c : c = [prompt |-> procs[p].prompt, changed |-> procs[p].changed,
                      snap |-> procs[p].snap.number, known |-> Stored, state |-> "asking"]
    OBVIOUS
  <2>2. PICK n : n = Len(calls) + 1
    OBVIOUS
  <2>3. IsCall(c) /\ c.prompt = procs[p].prompt
    BY <2>1 DEF IsCall
  <2>4. CallsOk(calls') /\ Extends(calls', calls) /\ For(n, procs[p].prompt, calls')
    BY <1>3, <2>1, <2>2, <2>3, AppendExtends DEF Inv
  <2>5. PICK a, b : a = [procs[p] EXCEPT !.step = "ask"] /\ b = [a EXCEPT !.provider = 1]
    OBVIOUS
  <2>6. PICK k : k = [b EXCEPT !.call = n]
    OBVIOUS
  <2>7. /\ IsProcess(a) /\ a.step = "ask" /\ a.answer = 0
        /\ a.prompt = procs[p].prompt
    BY <1>1, <2>5 DEF IsProcess
  <2>8. /\ IsProcess(b) /\ b.step = "ask" /\ b.answer = 0
        /\ b.prompt = procs[p].prompt
    BY <2>5, <2>7 DEF IsProcess
  <2>9. /\ IsProcess(k) /\ k.step = "ask" /\ k.answer = 0
        /\ k.prompt = procs[p].prompt /\ k.call = n
    BY <2>6, <2>8 DEF IsProcess
  <2>10. ProcessOk(k, calls')
    BY <2>4, <2>9 DEF ProcessOk
  <2>11. Become(p, k)
    BY <1>3, <2>2, <2>5, <2>6
  <2> QED
    BY <1>3, <2>4, <2>10, <2>11, OneProcess
<1> QED
  BY <1>2, <1>3 DEF Lookup, Key

(* A call that is marked leaves every other process and row as it was. *)
LEMMA MarkKeeps ==
  ASSUME Inv, NEW p \in Procs, procs[p].step \in Asking, NEW state,
         Mark(procs[p].call, state)
  PROVE  /\ CallsOk(calls') /\ Extends(calls', calls)
         /\ For(procs[p].call, procs[p].prompt, calls')
<1>1. PICK i : i = procs[p].call
  OBVIOUS
<1>2. For(i, procs[p].prompt, calls)
  BY <1>1 DEF Inv, ProcessOk
<1>3. CallsOk(calls') /\ Extends(calls', calls)
  BY <1>1, <1>2, MarkExtends DEF Inv, For, Mark
<1> QED
  BY <1>1, <1>2, <1>3, OkLasts

LEMMA AskKeeps ==
  ASSUME Inv, NEW p \in Procs, Ask(p)
  PROVE  Inv'
<1>1. procs[p].step = "ask" /\ procs[p].step \in Asking
  BY DEF Ask, At, Asking
<1>2. IsProcess(procs[p]) /\ procs[p].answer = 0
  BY <1>1, BusyHasNone
<1>3. CASE ModelAnswers(p)
  <2>1. PICK k : k = [procs[p] EXCEPT !.step = "keep"]
    OBVIOUS
  <2>2. /\ IsProcess(k) /\ k.answer = 0 /\ k.call = procs[p].call
        /\ k.prompt = procs[p].prompt
    BY <1>2, <2>1 DEF IsProcess
  <2>3. /\ CallsOk(calls') /\ Extends(calls', calls)
        /\ For(procs[p].call, procs[p].prompt, calls')
    BY <1>1, <1>3, MarkKeeps DEF ModelAnswers
  <2>4. ProcessOk(k, calls')
    BY <2>2, <2>3 DEF ProcessOk
  <2> QED
    BY <1>3, <2>1, <2>3, <2>4, OneProcess DEF ModelAnswers, Goto, Ask
<1>4. CASE TryNext(p)
  <2>1. PICK k : k = [procs[p] EXCEPT !.provider = procs[p].provider + 1]
    OBVIOUS
  <2>2. /\ IsProcess(k) /\ k.answer = 0 /\ k.call = procs[p].call
        /\ k.prompt = procs[p].prompt
    BY <1>2, <2>1 DEF IsProcess
  <2>3. ProcessOk(k, calls)
    BY <1>1, <2>2 DEF Inv, ProcessOk
  <2> QED
    BY <1>4, <2>1, <2>3, OnlyProcess DEF TryNext, Ask
<1>5. CASE AskFails(p)
  <2>1. PICK k : k = Idle
    OBVIOUS
  <2>2. CallsOk(calls') /\ Extends(calls', calls)
    BY <1>1, <1>5, MarkKeeps DEF AskFails
  <2> QED
    BY <1>5, <2>1, <2>2, IdleIsOk, OneProcess DEF AskFails, Fail, Ask
<1> QED
  BY <1>3, <1>4, <1>5 DEF Ask

LEMMA KeepKeeps ==
  ASSUME Inv, NEW p \in Procs, Keep(p)
  PROVE  Inv'
<1>1. procs[p].step = "keep" /\ procs[p].step \in Asking
  BY DEF Keep, At, Asking
<1>2. IsProcess(procs[p]) /\ procs[p].answer = 0
  BY <1>1, BusyHasNone
<1>3. /\ CallsOk(calls') /\ Extends(calls', calls)
      /\ For(procs[p].call, procs[p].prompt, calls')
  BY <1>1, MarkKeeps DEF Keep
<1>4. CASE lock = Nobody
  <2>1. PICK k : k = [procs[p] EXCEPT !.step = "close"]
    OBVIOUS
  <2>2. /\ IsProcess(k) /\ k.answer = 0 /\ k.call = procs[p].call
        /\ k.prompt = procs[p].prompt
    BY <1>2, <2>1 DEF IsProcess
  <2>3. ProcessOk(k, calls')
    BY <1>3, <2>2 DEF ProcessOk
  <2>4. ASSUME NEW row \in cache'
        PROVE  row \in cache \/ For(row.call, row.key, calls')
    <3>1. row \in cache \/ row = [key |-> procs[p].prompt, call |-> procs[p].call]
      BY <1>4, <2>4 DEF Keep, Key
    <3> QED
      BY <1>3, <3>1
  <2> QED
    BY <1>3, <1>4, <2>1, <2>3, <2>4, OneProcess DEF Keep, Goto
<1>5. CASE lock # Nobody
  <2>1. PICK k : k = Idle
    OBVIOUS
  <2> QED
    BY <1>3, <1>5, <2>1, IdleIsOk, OneProcess DEF Keep, Fail
<1> QED
  BY <1>4, <1>5

LEMMA CloseKeeps ==
  ASSUME Inv, NEW p \in Procs, Close(p)
  PROVE  Inv'
<1>1. procs[p].step = "close" /\ procs[p].step \in Asking
  BY DEF Close, At, Asking
<1>2. IsProcess(procs[p])
  BY <1>1, BusyHasNone
<1>3. PICK i : i = procs[p].call
  OBVIOUS
<1>4. For(i, procs[p].prompt, calls)
  BY <1>1, <1>3 DEF Inv, ProcessOk
<1>5. PICK k : k = [[Idle EXCEPT !.answer = i] EXCEPT !.prompt = procs[p].prompt]
  OBVIOUS
<1>6. ProcessOk(k, calls)
  BY <1>2, <1>4, <1>5, StopIsOk
<1> QED
  BY <1>3, <1>5, <1>6, OnlyProcess DEF Close, Stop

LEMMA DieKeeps ==
  ASSUME Inv, NEW p \in Procs, Die(p)
  PROVE  Inv'
<1>1. PICK k : k = Idle
  OBVIOUS
<1>2. CASE procs[p].step \in {"ask", "keep"}
  <2>1. Mark(procs[p].call, "lost") /\ procs[p].step \in Asking
    BY <1>2 DEF Die, Asking
  <2>2. CallsOk(calls') /\ Extends(calls', calls)
    BY <2>1, MarkKeeps
  <2> QED
    BY <1>1, <2>2, IdleIsOk, OneProcess DEF Die, Fail
<1>3. CASE procs[p].step \notin {"ask", "keep"}
  BY <1>3, FailKeeps DEF Die
<1> QED
  BY <1>2, <1>3

-----------------------------------------------------------------------------
(* The calls, the cache and the prompts of the processes always agree: the *)
(* inductive invariant.                                                    *)
THEOREM Invariant == Spec => []Inv
<1>1. Init => Inv
  <2> SUFFICES ASSUME Init PROVE Inv
    OBVIOUS
  <2>1. CallsOk(calls)
    BY DEF Init, CallsOk
  <2>2. procs = [p \in Procs |-> procs[p]] /\ \A p \in Procs : ProcessOk(procs[p], calls)
    BY IdleIsOk DEF Init
  <2> QED
    BY <2>1, <2>2 DEF Init, Inv
<1>2. Inv /\ [Next]_vars => Inv'
  <2> SUFFICES ASSUME Inv, [Next]_vars PROVE Inv'
    OBVIOUS
  <2>1. CASE \E p \in Procs : Start(p)
    BY <2>1, StartKeeps
  <2>2. ASSUME NEW p \in Procs, Go(p) PROVE Inv'
    BY <2>2, AnalyzeKeeps, OpenKeeps, ReadKeeps, LookupKeeps, KeepKeeps, CloseKeeps DEF Go
  <2>3. CASE \E p \in Procs : Ask(p)
    BY <2>3, AskKeeps
  <2>4. CASE \E p \in Procs : Die(p)
    BY <2>4, DieKeeps
  <2>5. CASE Edit \/ UNCHANGED vars
    BY <2>5 DEF Edit, vars, Inv
  <2> QED
    BY <2>1, <2>2, <2>3, <2>4, <2>5 DEF Next
<1> QED
  BY <1>1, <1>2, PTL DEF Spec

(* An explain returns what a model answered to the prompt it has built     *)
(* (run_explain of core service.py, CacheProvider), for every number of    *)
(* processes, files and providers, and however often the files change.     *)
THEOREM AnswersItsPrompt == Spec => []AnswerIsForThisPrompt
<1>1. Inv => AnswerIsForThisPrompt
  BY DEF Inv, ProcessOk, For, AnswerIsForThisPrompt
<1> QED
  BY <1>1, Invariant, PTL

-----------------------------------------------------------------------------
(* A set of naturals that has a member has a least one. *)
LEMMA LeastNatural ==
  ASSUME NEW B \in SUBSET Nat, B # {}
  PROVE  \E m \in B : \A k \in B : m <= k
<1> DEFINE R == OpToRel(<, Nat)
<1>1. R = {p \in Nat \X Nat : p[1] < p[2]}
  BY DEF OpToRel
<1>2. IsWellFoundedOn(R, Nat)
  BY NatLessThanWellFounded
<1> HIDE DEF R
<1>3. PICK m \in B : \A k \in B : ~(<<k, m>> \in R)
  BY <1>2, WFMin
<1>4. \A x, y \in Nat : ~(<<y, x>> \in R) => x <= y
  BY <1>1
<1> QED
  BY <1>3, <1>4

Upto(S, place, f) == {g \in S : place[g] <= place[f]}

(* The places of a finite set, from 1 on, can be counted off one by one. *)
LEMMA NthExists ==
  ASSUME NEW S, IsFiniteSet(S), NEW top \in Nat, NEW place, \A f \in S : place[f] \in 1..top,
         \A f, g \in S : place[f] = place[g] => f = g,
         NEW n \in 1..Cardinality(S)
  PROVE  \E f \in S : Cardinality(Upto(S, place, f)) = n
<1> DEFINE Below(i) == {g \in S : place[g] <= i}
           B == {i \in Nat : Cardinality(Below(i)) >= n}
<1>1. \A i : IsFiniteSet(Below(i)) /\ Cardinality(Below(i)) \in Nat
  BY FS_Subset, FS_CardinalityType
<1>2. Below(top) = S
  OBVIOUS
<1>3. n \in Nat /\ n >= 1 /\ n <= Cardinality(S)
  BY FS_CardinalityType
<1>4. top \in B
  BY <1>2, <1>3
<1>5. PICK i \in B : \A k \in B : i <= k
  <2> HIDE DEF B
  <2>1. B \in SUBSET Nat
    BY DEF B
  <2> QED
    BY <1>4, <2>1, LeastNatural
<1>6. Below(0) = {}
  OBVIOUS
<1>7. i \in Nat /\ i # 0
  BY <1>3, <1>6, FS_EmptySet
<1>8. Cardinality(Below(i - 1)) < n /\ Cardinality(Below(i)) >= n
  <2> HIDE DEF Below
  <2>1. i - 1 \in Nat /\ i - 1 \notin B
    BY <1>5, <1>7
  <2> QED
    BY <1>1, <1>3, <1>5, <2>1
<1>9. ASSUME \A g \in S : place[g] # i PROVE FALSE
  <2>1. Below(i) = Below(i - 1)
    BY <1>7, <1>9
  <2> QED
    BY <1>1, <1>3, <1>5, <1>8, <2>1
<1>10. PICK f \in S : place[f] = i
  BY <1>9
<1>11. Below(i) = Below(i - 1) \cup {f} /\ f \notin Below(i - 1)
  BY <1>7, <1>10
<1>12. Cardinality(Below(i)) = Cardinality(Below(i - 1)) + 1
  <2> HIDE DEF Below
  <2> QED
    BY <1>1, <1>11, FS_AddElement
<1>13. Cardinality(Below(i)) = n
  <2> HIDE DEF Below, B
  <2> QED
    BY <1>1, <1>3, <1>8, <1>12
<1> QED
  BY <1>10, <1>13 DEF Upto

-----------------------------------------------------------------------------
(* What Candidates makes of a snapshot: no file twice. *)

IsSnapshot(s) ==
  /\ s = [number |-> s.number, seen |-> s.seen, order |-> s.order]
  /\ s.order \in Orders

(* Each file of S once, and nothing else. *)
LEMMA SortedOnce ==
  ASSUME NEW s, s.order \in Orders, NEW S \in SUBSET Files
  PROVE  /\ Sorted(s, S) \in Seq(S)
         /\ Len(Sorted(s, S)) = Cardinality(S)
         /\ \A i, j \in 1..Cardinality(S) : Sorted(s, S)[i] = Sorted(s, S)[j] => i = j
<1> DEFINE nth(n) == CHOOSE f \in S : Cardinality({g \in S : s.order[g] <= s.order[f]}) = n
<1>1. IsFiniteSet(S) /\ Cardinality(S) \in Nat
  BY ExplainAssumption, FS_Subset, FS_CardinalityType
<1>2. /\ \A f \in S : s.order[f] \in 1..Cardinality(Files)
      /\ \A f, g \in S : s.order[f] = s.order[g] => f = g
      /\ Cardinality(Files) \in Nat
  BY ExplainAssumption, FS_CardinalityType DEF Orders, IsInjective
<1>3. ASSUME NEW n \in 1..Cardinality(S)
      PROVE  nth(n) \in S /\ Cardinality({g \in S : s.order[g] <= s.order[nth(n)]}) = n
  <2>1. \E f \in S : Cardinality(Upto(S, s.order, f)) = n
    BY <1>1, <1>2, NthExists
  <2> QED
    BY <2>1 DEF Upto
<1>4. PICK size : size = Cardinality(S)
  OBVIOUS
<1>5. \A n \in 1..size : nth(n) \in S
  BY <1>3, <1>4
<1>6. \A i, j \in 1..size : nth(i) = nth(j) => i = j
  BY <1>3, <1>4
<1>7. Sorted(s, S) = [n \in 1..size |-> nth(n)]
  BY <1>4 DEF Sorted
<1> HIDE DEF nth
<1>8. Sorted(s, S) \in Seq(S) /\ Len(Sorted(s, S)) = size
  BY <1>1, <1>4, <1>5, <1>7
<1>9. \A i, j \in 1..size : Sorted(s, S)[i] = Sorted(s, S)[j] => i = j
  BY <1>6, <1>7
<1> QED
  BY <1>4, <1>8, <1>9

Once(C) == C \in Seq(Files) /\ \A i, j \in 1..Len(C) : C[i] = C[j] => i = j

LEMMA CandidatesOnce ==
  ASSUME NEW s, s.order \in Orders, NEW changed
  PROVE  Once(Candidates(s, changed))
<1> DEFINE A == changed \cap Nodes(s)
           B == {f \in Nodes(s) \ changed :
                   \E g \in changed \cap Nodes(s) : <<f, g>> \in DependsOn}
           a == Sorted(s, A)
           b == Sorted(s, B)
           all == a \o b
           n == IF Len(all) < MaxSnippets THEN Len(all) ELSE MaxSnippets
<1>1. A \in SUBSET Files /\ B \in SUBSET Files /\ A \cap B = {}
  BY DEF Nodes
<1>2. a \in Seq(A) /\ \A i, j \in 1..Len(a) : a[i] = a[j] => i = j
  BY <1>1, SortedOnce
<1>3. b \in Seq(B) /\ \A i, j \in 1..Len(b) : b[i] = b[j] => i = j
  BY <1>1, SortedOnce
<1>4. Candidates(s, changed) = SubSeq(all, 1, n)
  BY DEF Candidates, Changed, Direct
<1>5. /\ a \in Seq(Files) /\ b \in Seq(Files)
      /\ \A i \in 1..Len(a) : a[i] \in A
      /\ \A i \in 1..Len(b) : b[i] \in B
      /\ Len(a) \in Nat /\ Len(b) \in Nat
  <2> HIDE DEF A, B, a, b
  <2>1. a \in Seq(A) /\ Len(a) \in Nat /\ \A i \in 1..Len(a) : a[i] \in A
    BY <1>2
  <2>2. b \in Seq(B) /\ Len(b) \in Nat /\ \A i \in 1..Len(b) : b[i] \in B
    BY <1>3
  <2> QED
    BY <1>1, <2>1, <2>2, SeqMonotonic
<1> HIDE DEF A, B, a, b
<1>6. /\ all \in Seq(Files) /\ Len(all) = Len(a) + Len(b)
      /\ \A i \in 1..Len(all) : all[i] = IF i <= Len(a) THEN a[i] ELSE b[i - Len(a)]
  BY <1>5
<1>7. \A i, j \in 1..Len(all) : all[i] = all[j] => i = j
  BY <1>1, <1>2, <1>3, <1>5, <1>6
<1> HIDE DEF all
<1>8. n \in 0..Len(all)
  BY <1>6, ExplainAssumption
<1> HIDE DEF n
<1>9. /\ SubSeq(all, 1, n) \in Seq(Files) /\ Len(SubSeq(all, 1, n)) = n
      /\ \A i \in 1..n : SubSeq(all, 1, n)[i] = all[i]
  BY <1>6, <1>8
<1> QED
  BY <1>4, <1>6, <1>7, <1>8, <1>9 DEF Once

-----------------------------------------------------------------------------
(* Snippets read in the order of a list without repetitions are determined *)
(* by which snippets they are.                                             *)

Place(C, f) == CHOOSE n \in 1..Len(C) : C[n] = f

InOrder(snippets, C) ==
  /\ \E S : snippets \in Seq(S)
  /\ \A i \in DOMAIN snippets : \E n \in 1..Len(C) : snippets[i].file = C[n]
  /\ \A i, j \in DOMAIN snippets :
       i < j => Place(C, snippets[i].file) < Place(C, snippets[j].file)

Ahead(s, C, f) == {x \in {s[j] : j \in DOMAIN s} : Place(C, x.file) <= Place(C, f)}

(* The place of a snippet among the others can be counted. *)
LEMMA Counted ==
  ASSUME NEW C, NEW s, InOrder(s, C), NEW i \in DOMAIN s, Len(C) \in Nat
  PROVE  Cardinality(Ahead(s, C, s[i].file)) = i
<1> DEFINE before == Ahead(s, C, s[i].file)
<1>1. DOMAIN s = 1..Len(s) /\ Len(s) \in Nat
  BY DEF InOrder
<1>2. ASSUME NEW j \in DOMAIN s PROVE Place(C, s[j].file) \in Nat
  <2>1. PICK f : f = s[j].file
    OBVIOUS
  <2>2. \E n \in 1..Len(C) : C[n] = f
    BY <2>1 DEF InOrder
  <2>3. Place(C, f) \in 1..Len(C)
    BY <2>2 DEF Place
  <2> QED
    BY <2>1, <2>3
<1>3. \A j, k \in DOMAIN s : j < k => Place(C, s[j].file) < Place(C, s[k].file)
  BY DEF InOrder
<1>4. \A j \in DOMAIN s : Place(C, s[j].file) <= Place(C, s[i].file) <=> j <= i
  BY <1>1, <1>2, <1>3
<1>5. \A j, k \in DOMAIN s : s[j] = s[k] => j = k
  BY <1>1, <1>2, <1>3
<1> DEFINE f == [j \in 1..i |-> s[j]]
<1>6. before = {s[j] : j \in 1..i}
  BY <1>1, <1>4 DEF Ahead
<1>7. f \in Bijection(1..i, before)
  <2>1. f \in Injection(1..i, before)
    BY <1>1, <1>5, <1>6 DEF Injection, IsInjective
  <2>2. f \in Surjection(1..i, before)
    BY <1>6 DEF Surjection
  <2> QED
    BY <2>1, <2>2 DEF Bijection
<1>8. ExistsBijection(1..i, before)
  BY <1>7 DEF ExistsBijection
<1>9. IsFiniteSet(1..i) /\ Cardinality(1..i) = i /\ i \in Nat
  BY <1>1, FS_Interval
<1> HIDE DEF before
<1>10. Cardinality(before) = i
  BY <1>8, <1>9, FS_Bijection
<1> QED
  BY <1>9, <1>10 DEF before

LEMMA SameInOrder ==
  ASSUME NEW C, Len(C) \in Nat, NEW s, NEW t, InOrder(s, C), InOrder(t, C),
         {s[j] : j \in DOMAIN s} = {t[j] : j \in DOMAIN t}
  PROVE  s = t
<1>a. \A i \in DOMAIN s : i = Cardinality(Ahead(s, C, s[i].file))
  BY Counted
<1>b. \A i \in DOMAIN t : i = Cardinality(Ahead(s, C, t[i].file))
  <2>1. \A i \in DOMAIN t : i = Cardinality(Ahead(t, C, t[i].file))
    BY Counted
  <2>2. \A f : Ahead(t, C, f) = Ahead(s, C, f)
    BY DEF Ahead
  <2> QED
    BY <2>1, <2>2
<1>1. /\ DOMAIN s = 1..Len(s) /\ Len(s) \in Nat /\ s = [i \in 1..Len(s) |-> s[i]]
      /\ DOMAIN t = 1..Len(t) /\ Len(t) \in Nat /\ t = [i \in 1..Len(t) |-> t[i]]
  BY DEF InOrder
<1>2. \A i \in DOMAIN s : i \in DOMAIN t /\ t[i] = s[i]
  <2> SUFFICES ASSUME NEW i \in DOMAIN s PROVE i \in DOMAIN t /\ t[i] = s[i]
    OBVIOUS
  <2>1. PICK j \in DOMAIN t : t[j] = s[i]
    OBVIOUS
  <2>2. i = j
    BY <1>a, <1>b, <2>1
  <2> QED
    BY <2>1, <2>2
<1>3. \A i \in DOMAIN t : i \in DOMAIN s
  <2> SUFFICES ASSUME NEW i \in DOMAIN t PROVE i \in DOMAIN s
    OBVIOUS
  <2>1. PICK j \in DOMAIN s : s[j] = t[i]
    OBVIOUS
  <2>2. i = j
    BY <1>a, <1>b, <2>1
  <2> QED
    BY <2>1, <2>2
<1>4. Len(s) = Len(t)
  BY <1>1, <1>2, <1>3
<1> QED
  BY <1>1, <1>2, <1>4

-----------------------------------------------------------------------------
(* Why a second call for the same prompt was made.  H is the list of all   *)
(* snapshots there have been: a number stands for one of them only.        *)

Dependents(s, changed) ==
  [i \in DOMAIN Direct(s, changed) |-> <<s.number, Direct(s, changed)[i]>>]

Built(prompt, s, changed) ==
  /\ prompt = [dependents |-> Dependents(s, changed), snippets |-> prompt.snippets]
  /\ InOrder(prompt.snippets, Candidates(s, changed))

FromFirst(snippets, C, n) ==
  \A i \in DOMAIN snippets : \E m \in 1..n : snippets[i].file = C[m]

(* The first n candidates have been looked at. *)
HasRead(k, C, n) ==
  /\ k.todo = SubSeq(C, n + 1, Len(C))
  /\ FromFirst(k.prompt.snippets, C, n)

TellsOf(k, H) ==
  /\ k.step = "scanned" => IsSnapshot(k.snap)
  /\ k.step = "read" =>
       /\ k.snap.number \in DOMAIN H /\ k.snap = H[k.snap.number]
       /\ Built(k.prompt, k.snap, k.changed)
       /\ \E n \in 0..Len(Candidates(k.snap, k.changed)) :
            HasRead(k, Candidates(k.snap, k.changed), n)

AskedOf(c, H) ==
  /\ c.snap \in DOMAIN H
  /\ Built(c.prompt, H[c.snap], c.changed)

Numbered(H) ==
  /\ \E S : H \in Seq(S)
  /\ \A n \in DOMAIN H : IsSnapshot(H[n]) /\ H[n].number = n
  /\ snap.number = Len(H)
  /\ Len(H) # 0 => snap = H[Len(H)]
  /\ \A p \in Procs : TellsOf(procs[p], H)
  /\ \A i \in DOMAIN calls : AskedOf(calls[i], H)

(* What has been stored can be found; what was known was another prompt.   *)
Kept ==
  /\ \A i \in DOMAIN calls :
       calls[i].state = "stored" => \E row \in cache : row.key = calls[i].prompt
  /\ \A j \in DOMAIN calls : \A i \in calls[j].known :
       i \in DOMAIN calls /\ calls[i].prompt # calls[j].prompt

PaidInv == Kept /\ \E H : Numbered(H)

(* A call that is marked is otherwise what it was. *)
LEMMA MarkOnly ==
  ASSUME CallsOk(calls), NEW i \in DOMAIN calls, NEW state, Mark(i, state)
  PROVE  /\ DOMAIN calls' = DOMAIN calls
         /\ \A j \in DOMAIN calls :
              /\ calls'[j].prompt = calls[j].prompt /\ calls'[j].changed = calls[j].changed
              /\ calls'[j].snap = calls[j].snap /\ calls'[j].known = calls[j].known
              /\ calls'[j].state = IF j = i THEN state ELSE calls[j].state
<1>1. PICK S : calls \in Seq(S)
  BY DEF CallsOk
<1>2. PICK c : c = [calls[i] EXCEPT !.state = state]
  OBVIOUS
<1>3. IsCall(calls[i])
  BY DEF CallsOk
<1>4. /\ c.prompt = calls[i].prompt /\ c.changed = calls[i].changed /\ c.snap = calls[i].snap
      /\ c.known = calls[i].known /\ c.state = state
  BY <1>2, <1>3 DEF IsCall
<1>5. calls' = [calls EXCEPT ![i] = c]
  BY <1>2 DEF Mark
<1>6. /\ DOMAIN calls' = DOMAIN calls
      /\ \A j \in DOMAIN calls : calls'[j] = IF j = i THEN c ELSE calls[j]
  BY <1>1, <1>5
<1> QED
  BY <1>4, <1>6

(* A new call comes last. *)
LEMMA AppendOnly ==
  ASSUME CallsOk(calls), NEW c, calls' = Append(calls, c)
  PROVE  /\ DOMAIN calls' = DOMAIN calls \cup {Len(calls) + 1}
         /\ Len(calls) + 1 \notin DOMAIN calls
         /\ \A j \in DOMAIN calls : calls'[j] = calls[j]
         /\ calls'[Len(calls) + 1] = c
<1>1. PICK S : calls \in Seq(S)
  BY DEF CallsOk
<1>2. calls \in Seq(S \cup {c}) /\ DOMAIN calls = 1..Len(calls) /\ Len(calls) \in Nat
  BY <1>1
<1>3. /\ DOMAIN calls' = 1..(Len(calls) + 1)
      /\ \A j \in DOMAIN calls : calls'[j] = calls[j]
      /\ calls'[Len(calls) + 1] = c
  BY <1>2
<1> QED
  BY <1>2, <1>3

(* One process moves on, the calls are at most marked or one is added. *)
LEMMA NumberedOne ==
  ASSUME Inv, NEW H, Numbered(H), NEW p \in Procs, NEW k, Become(p, k), TellsOf(k, H),
         UNCHANGED snap, \A i \in DOMAIN calls' : AskedOf(calls'[i], H)
  PROVE  Numbered(H)'
<1>1. procs' = [procs EXCEPT ![p] = k]
  BY DEF Become
<1>2. \A q \in Procs : procs'[q] = IF q = p THEN k ELSE procs[q]
  BY <1>1 DEF Inv
<1>3. \A q \in Procs : TellsOf(procs'[q], H)
  BY <1>2 DEF Numbered
<1> QED
  BY <1>3 DEF Numbered

LEMMA NumberedOnly ==
  ASSUME Inv, NEW H, Numbered(H), NEW p \in Procs, NEW k, Become(p, k), TellsOf(k, H),
         UNCHANGED <<snap, calls>>
  PROVE  Numbered(H)'
BY NumberedOne DEF Numbered

(* A process that neither holds a scan nor reads says nothing. *)
LEMMA FailNumbered ==
  ASSUME Inv, NEW H, Numbered(H), NEW p \in Procs, Fail(p), UNCHANGED snap,
         \A i \in DOMAIN calls' : AskedOf(calls'[i], H)
  PROVE  Numbered(H)'
<1>1. PICK k : k = Idle
  OBVIOUS
<1>2. TellsOf(k, H)
  BY <1>1 DEF Idle, TellsOf
<1> QED
  BY <1>1, <1>2, NumberedOne DEF Fail

LEMMA StopNumbered ==
  ASSUME Inv, NEW H, Numbered(H), NEW p \in Procs, NEW i, Stop(p, i), UNCHANGED <<snap, calls>>
  PROVE  Numbered(H)'
<1>1. PICK a : a = [Idle EXCEPT !.answer = i]
  OBVIOUS
<1>2. PICK k : k = [a EXCEPT !.prompt = procs[p].prompt]
  OBVIOUS
<1>3. IsProcess(a) /\ a.step = "idle"
  BY <1>1 DEF Idle, IsProcess
<1>4. k.step = "idle"
  BY <1>2, <1>3 DEF IsProcess
<1>5. TellsOf(k, H)
  BY <1>4 DEF TellsOf
<1> QED
  BY <1>1, <1>2, <1>5, NumberedOnly DEF Stop

LEMMA StartNumbered ==
  ASSUME Inv, NEW H, Numbered(H), NEW p \in Procs, Start(p)
  PROVE  Numbered(H)'
<1>1. CASE StartAnalyze(p)
  <2> DEFINE seen == [f \in Files |-> IF tree[f] = Garbled THEN Absent ELSE tree[f]]
  <2>1. PICK order \in Orders :
          Become(p, [Idle EXCEPT !.step = "scanned",
                                 !.snap = [number |-> 0, seen |-> seen, order |-> order]])
    BY <1>1 DEF StartAnalyze
  <2>2. PICK s : s = [number |-> 0, seen |-> seen, order |-> order]
    OBVIOUS
  <2>3. IsSnapshot(s)
    BY <2>2 DEF IsSnapshot
  <2> HIDE DEF seen
  <2>4. PICK i : i = [Idle EXCEPT !.step = "scanned"]
    OBVIOUS
  <2>5. PICK k : k = [i EXCEPT !.snap = s]
    OBVIOUS
  <2>6. Become(p, k)
    BY <2>1, <2>2, <2>4, <2>5
  <2>7. IsProcess(i) /\ i.step = "scanned"
    BY <2>4 DEF Idle, IsProcess
  <2>8. TellsOf(k, H)
    BY <2>3, <2>5, <2>7 DEF IsProcess, TellsOf
  <2> QED
    BY <1>1, <2>6, <2>8, NumberedOnly DEF StartAnalyze
<1>2. CASE StartExplain(p)
  <2>1. PICK c \in SUBSET Files : Become(p, [Idle EXCEPT !.step = "open", !.changed = c])
    BY <1>2 DEF StartExplain
  <2>2. PICK i : i = [Idle EXCEPT !.step = "open"]
    OBVIOUS
  <2>3. PICK k : k = [i EXCEPT !.changed = c]
    OBVIOUS
  <2>4. IsProcess(i) /\ i.step = "open"
    BY <2>2 DEF Idle, IsProcess
  <2>5. TellsOf(k, H)
    BY <2>3, <2>4 DEF IsProcess, TellsOf
  <2> QED
    BY <1>2, <2>1, <2>2, <2>3, <2>5, NumberedOnly DEF StartExplain
<1> QED
  BY <1>1, <1>2 DEF Start

(* A new snapshot takes the next number. *)
LEMMA StoreNumbered ==
  ASSUME Inv, NEW H, Numbered(H), NEW p \in Procs, StoreSnapshot(p)
  PROVE  (\E G : Numbered(G))'
<1>1. CASE lock = Nobody
  <2>1. PICK t : t = procs[p].snap
    OBVIOUS
  <2>2. PICK n : n = snap.number + 1
    OBVIOUS
  <2>3. PICK s : s = [t EXCEPT !.number = n]
    OBVIOUS
  <2>4. IsSnapshot(t)
    BY <2>1 DEF Numbered, TellsOf, StoreSnapshot, At
  <2>5. IsSnapshot(s) /\ s.number = n
    BY <2>3, <2>4 DEF IsSnapshot
  <2>6. snap' = s
    BY <1>1, <2>1, <2>2, <2>3 DEF StoreSnapshot
  <2>7. PICK S : H \in Seq(S)
    BY DEF Numbered
  <2>8. PICK G : G = Append(H, s)
    OBVIOUS
  <2>9. H \in Seq(S \cup {s}) /\ Len(H) \in Nat /\ DOMAIN H = 1..Len(H) /\ n = Len(H) + 1
    BY <2>2, <2>7 DEF Numbered
  <2>10. /\ G \in Seq(S \cup {s}) /\ Len(G) = n /\ DOMAIN G = DOMAIN H \cup {n}
         /\ G[n] = s /\ \A m \in DOMAIN H : G[m] = H[m]
    BY <2>8, <2>9
  <2>11. PICK k : k = [procs[p] EXCEPT !.step = "stored"]
    OBVIOUS
  <2>12. k.step = "stored"
    BY <2>11 DEF Inv, ProcessOk, IsProcess
  <2>13. \A q \in Procs : procs'[q] = IF q = p THEN k ELSE procs[q]
    BY <1>1, <2>11 DEF StoreSnapshot, Goto, Become, Inv
  <2>14. \A q \in Procs : TellsOf(procs[q], G)
    BY <2>10 DEF Numbered, TellsOf
  <2>15. \A q \in Procs : TellsOf(procs'[q], G)
    BY <2>12, <2>13, <2>14 DEF TellsOf
  <2>16. \A i \in DOMAIN calls' : AskedOf(calls'[i], G)
    BY <2>10 DEF Numbered, AskedOf, StoreSnapshot
  <2>17. \A m \in DOMAIN G : IsSnapshot(G[m]) /\ G[m].number = m
    BY <2>5, <2>10 DEF Numbered
  <2> QED
    BY <2>5, <2>6, <2>10, <2>15, <2>16, <2>17 DEF Numbered
<1>2. CASE lock # Nobody
  BY <1>2, FailNumbered DEF StoreSnapshot, Numbered
<1> QED
  BY <1>1, <1>2

(* Reading begins with the first candidate and nothing read. *)
LEMMA OpenNumbered ==
  ASSUME Inv, NEW H, Numbered(H), NEW p \in Procs, Open(p)
  PROVE  Numbered(H)'
<1>1. CASE Fail(p)
  BY <1>1, FailNumbered DEF Open, Numbered
<1>2. CASE ~Fail(p)
  <2> DEFINE x == procs[p].changed
  <2>0. PICK s, t, m : /\ s = snap
                       /\ t = Candidates(snap, x)
                       /\ m = [dependents |-> Dependents(snap, x), snippets |-> <<>>]
    OBVIOUS
  <2>1. PICK a, b, c : /\ a = [procs[p] EXCEPT !.step = "read"]
                       /\ b = [a EXCEPT !.snap = s]
                       /\ c = [b EXCEPT !.todo = t]
    OBVIOUS
  <2>2. PICK k : k = [c EXCEPT !.prompt = m]
    OBVIOUS
  <2>3. Become(p, k) /\ snap.number # 0
    BY <1>2, <2>0, <2>1, <2>2 DEF Open, Dependents
  <2>4. IsProcess(procs[p])
    BY DEF Inv, ProcessOk
  <2>a. IsProcess(a) /\ a.step = "read" /\ a.changed = x
    BY <2>1, <2>4 DEF IsProcess
  <2>b. IsProcess(b) /\ b.step = "read" /\ b.changed = x /\ b.snap = s
    BY <2>1, <2>a DEF IsProcess
  <2>c. IsProcess(c) /\ c.step = "read" /\ c.changed = x /\ c.snap = s /\ c.todo = t
    BY <2>1, <2>b DEF IsProcess
  <2>k. /\ k.step = "read" /\ k.changed = x /\ k.snap = s /\ k.todo = t
        /\ k.prompt = m
    BY <2>2, <2>c DEF IsProcess
  <2>5. s.number \in DOMAIN H /\ s = H[s.number]
    BY <2>0, <2>3 DEF Numbered
  <2>6. IsSnapshot(s)
    BY <2>5 DEF Numbered
  <2>7. t \in Seq(Files)
    BY <2>0, <2>6, CandidatesOnce DEF IsSnapshot, Once
  <2>8. t = SubSeq(t, 0 + 1, Len(t)) /\ 0 \in 0..Len(t)
    BY <2>7, SubSeqFull
  <2>9. m = [dependents |-> Dependents(s, x), snippets |-> m.snippets] /\ m.snippets = <<>>
    BY <2>0
  <2>10. InOrder(m.snippets, t) /\ DOMAIN m.snippets = {}
    BY <2>9 DEF InOrder
  <2>11. Built(m, s, x)
    BY <2>0, <2>9, <2>10 DEF Built
  <2>12. HasRead(k, t, 0)
    BY <2>k, <2>8, <2>10 DEF HasRead, FromFirst
  <2>13. TellsOf(k, H)
    BY <2>k, <2>0, <2>5, <2>8, <2>11, <2>12 DEF TellsOf
  <2> QED
    BY <2>3, <2>13, NumberedOnly DEF Open
<1> QED
  BY <1>1, <1>2

(* A snippet of the next candidate comes after those read before. *)
LEMMA AppendInOrder ==
  ASSUME NEW C, Once(C), NEW n \in Nat, n + 1 <= Len(C),
         NEW s, InOrder(s, C), FromFirst(s, C, n),
         NEW x, x.file = C[n + 1], NEW t, t = Append(s, x)
  PROVE  InOrder(t, C) /\ FromFirst(t, C, n + 1)
<1>1. PICK S : s \in Seq(S)
  BY DEF InOrder
<1>2. s \in Seq(S \cup {x}) /\ Len(s) \in Nat /\ DOMAIN s = 1..Len(s)
  BY <1>1
<1>3. /\ t \in Seq(S \cup {x})
      /\ DOMAIN t = DOMAIN s \cup {Len(s) + 1}
      /\ \A i \in DOMAIN s : t[i] = s[i]
      /\ t[Len(s) + 1] = x
  BY <1>2
<1>4. \A m \in 1..Len(C) : Place(C, C[m]) = m
  BY DEF Place, Once
<1>5. \A i \in DOMAIN s : Place(C, s[i].file) \in 1..n
  <2> SUFFICES ASSUME NEW i \in DOMAIN s PROVE Place(C, s[i].file) \in 1..n
    OBVIOUS
  <2>1. PICK m \in 1..n : s[i].file = C[m]
    BY DEF FromFirst
  <2>2. m \in 1..Len(C)
    BY DEF Once
  <2> QED
    BY <1>4, <2>1, <2>2
<1>6. Place(C, x.file) = n + 1 /\ n + 1 \in 1..Len(C)
  BY <1>4 DEF Once
<1>7. \A i \in DOMAIN t : \E m \in 1..(n + 1) : t[i].file = C[m]
  <2> SUFFICES ASSUME NEW i \in DOMAIN t PROVE \E m \in 1..(n + 1) : t[i].file = C[m]
    OBVIOUS
  <2>1. CASE i \in DOMAIN s
    <3>1. PICK m \in 1..n : s[i].file = C[m]
      BY <2>1 DEF FromFirst
    <3> QED
      BY <1>3, <2>1, <3>1
  <2>2. CASE i = Len(s) + 1
    BY <1>3, <2>2
  <2> QED
    BY <1>3, <2>1, <2>2
<1>8. \A i \in DOMAIN t : \E m \in 1..Len(C) : t[i].file = C[m]
  <2> SUFFICES ASSUME NEW i \in DOMAIN t PROVE \E m \in 1..Len(C) : t[i].file = C[m]
    OBVIOUS
  <2>1. PICK m \in 1..(n + 1) : t[i].file = C[m]
    BY <1>7
  <2>2. m \in 1..Len(C)
    BY <1>6
  <2> QED
    BY <2>1, <2>2
<1>9. \A i, j \in DOMAIN t : i < j => Place(C, t[i].file) < Place(C, t[j].file)
  <2> SUFFICES ASSUME NEW i \in DOMAIN t, NEW j \in DOMAIN t, i < j
               PROVE  Place(C, t[i].file) < Place(C, t[j].file)
    OBVIOUS
  <2>1. i \in DOMAIN s
    BY <1>2, <1>3
  <2>2. CASE j \in DOMAIN s
    BY <1>3, <2>1, <2>2 DEF InOrder
  <2>3. CASE j = Len(s) + 1
    BY <1>3, <1>5, <1>6, <2>1, <2>3
  <2> QED
    BY <1>3, <2>2, <2>3
<1> QED
  BY <1>3, <1>7, <1>8, <1>9 DEF InOrder, FromFirst

LEMMA ReadNumbered ==
  ASSUME Inv, NEW H, Numbered(H), NEW p \in Procs, Read(p)
  PROVE  Numbered(H)'
<1>1. CASE Fail(p)
  BY <1>1, FailNumbered DEF Read, Numbered
<1>2. CASE ~Fail(p)
  <2> DEFINE k == procs[p]
             C == Candidates(k.snap, k.changed)
  <2>1. PICK f : f = Head(k.todo)
    OBVIOUS
  <2>2. PICK x : x = [file |-> f, tag |-> k.snap.seen[f], text |-> tree[f]]
    OBVIOUS
  <2>3. PICK t, m : /\ t = Tail(k.todo)
                    /\ m = [k.prompt EXCEPT !.snippets =
                             IF tree[f] = Absent THEN @ ELSE Append(@, x)]
    OBVIOUS
  <2>4. PICK a : a = [k EXCEPT !.todo = t]
    OBVIOUS
  <2>5. PICK l : l = [a EXCEPT !.prompt = m]
    OBVIOUS
  <2>6. IsProcess(k) /\ k.step = "read" /\ k.todo # <<>>
    BY DEF Inv, ProcessOk, Read, At
  <2>7. IsProcess(a) /\ a.prompt = k.prompt /\ a.todo = t
    BY <2>4, <2>6 DEF IsProcess
  <2>8. Become(p, l)
    BY <1>2, <2>1, <2>2, <2>3, <2>4, <2>5, <2>7 DEF Read
  <2>9. /\ l.step = "read" /\ l.changed = k.changed /\ l.snap = k.snap
        /\ l.todo = t /\ l.prompt = m
    BY <2>4, <2>5, <2>6, <2>7 DEF IsProcess
  <2>10. /\ k.snap.number \in DOMAIN H /\ k.snap = H[k.snap.number]
         /\ Built(k.prompt, k.snap, k.changed)
    BY <2>6 DEF Numbered, TellsOf
  <2>11. PICK n \in 0..Len(C) : HasRead(k, C, n)
    BY <2>6 DEF Numbered, TellsOf
  <2>12. Once(C)
    BY <2>10, CandidatesOnce DEF Numbered, IsSnapshot
  <2>13. PICK d : d = C
    OBVIOUS
  <2>14. k.todo = SubSeq(d, n + 1, Len(d)) /\ d \in Seq(Files) /\ n \in 0..Len(d)
    BY <2>11, <2>12, <2>13 DEF HasRead, Once
  <2>15. n + 1 <= Len(d) /\ Len(d) \in Nat /\ n \in Nat
    BY <2>6, <2>14, SubSeqEmpty
  <2>16. f = d[n + 1] /\ t = SubSeq(d, (n + 1) + 1, Len(d))
    <3>1. n + 1 \in 1..Len(d) /\ Len(d) \in (n + 1)..Len(d)
      BY <2>14, <2>15
    <3>2. /\ Head(SubSeq(d, n + 1, Len(d))) = d[n + 1]
          /\ Tail(SubSeq(d, n + 1, Len(d))) = SubSeq(d, (n + 1) + 1, Len(d))
      BY <2>14, <3>1, HeadTailOfSubSeq
    <3> QED
      BY <2>1, <2>3, <2>14, <3>2
  <2>17. /\ m.dependents = k.prompt.dependents
         /\ m = [dependents |-> m.dependents, snippets |-> m.snippets]
         /\ m.snippets = IF tree[f] = Absent THEN k.prompt.snippets
                         ELSE Append(k.prompt.snippets, x)
    BY <2>3, <2>10 DEF Built
  <2>18. PICK s, q : s = k.prompt.snippets /\ q = m.snippets
    OBVIOUS
  <2>19. InOrder(s, d) /\ FromFirst(s, d, n) /\ Once(d)
    BY <2>10, <2>11, <2>12, <2>13, <2>18 DEF Built, HasRead
  <2>20. InOrder(q, d) /\ FromFirst(q, d, n + 1)
    <3>1. CASE tree[f] = Absent
      <4>1. 1..n \subseteq 1..(n + 1)
        BY <2>15
      <4> QED
        BY <2>17, <2>18, <2>19, <3>1, <4>1 DEF FromFirst
    <3>2. CASE tree[f] # Absent
      <4>1. x.file = d[n + 1] /\ q = Append(s, x)
        BY <2>2, <2>16, <2>17, <2>18, <3>2
      <4> QED
        BY <2>15, <2>19, <4>1, AppendInOrder
    <3> QED
      BY <3>1, <3>2
  <2>22. n + 1 \in 0..Len(d)
    BY <2>14, <2>15
  <2>23. HasRead(l, d, n + 1)
    BY <2>9, <2>16, <2>18, <2>20 DEF HasRead
  <2>24. Built(m, k.snap, k.changed)
    BY <2>10, <2>13, <2>17, <2>18, <2>20 DEF Built
  <2>25. TellsOf(l, H)
    BY <2>9, <2>10, <2>13, <2>22, <2>23, <2>24 DEF TellsOf
  <2> QED
    BY <1>2, <2>8, <2>25, NumberedOnly DEF Read
<1> QED
  BY <1>1, <1>2

-----------------------------------------------------------------------------
(* From the lookup on: what is said of the calls.                          *)

LEMMA LookupNumbered ==
  ASSUME Inv, NEW H, Numbered(H), NEW p \in Procs, Lookup(p)
  PROVE  Numbered(H)'
<1>1. ASSUME NEW i, Stop(p, i), UNCHANGED calls PROVE Numbered(H)'
  BY <1>1, StopNumbered DEF Lookup
<1>2. ASSUME calls' = Append(calls, [prompt |-> procs[p].prompt, changed |-> procs[p].changed,
                                     snap |-> procs[p].snap.number, known |-> Stored,
                                     state |-> "asking"]),
             Become(p, [procs[p] EXCEPT !.step = "ask", !.provider = 1,
                                        !.call = Len(calls) + 1])
      PROVE  Numbered(H)'
  <2>1. PICK c : c = [prompt |-> procs[p].prompt, changed |-> procs[p].changed,
                      snap |-> procs[p].snap.number, known |-> Stored, state |-> "asking"]
    OBVIOUS
  <2>2. PICK n : n = Len(calls) + 1
    OBVIOUS
  <2>3. PICK a, b : a = [procs[p] EXCEPT !.step = "ask"] /\ b = [a EXCEPT !.provider = 1]
    OBVIOUS
  <2>4. PICK k : k = [b EXCEPT !.call = n]
    OBVIOUS
  <2>5. Become(p, k)
    BY <1>2, <2>2, <2>3, <2>4
  <2>6. IsProcess(procs[p]) /\ procs[p].step = "read"
    BY DEF Inv, ProcessOk, Lookup, At
  <2>7. IsProcess(a) /\ a.step = "ask"
    BY <2>3, <2>6 DEF IsProcess
  <2>8. IsProcess(b) /\ b.step = "ask"
    BY <2>3, <2>7 DEF IsProcess
  <2>9. k.step = "ask"
    BY <2>4, <2>8 DEF IsProcess
  <2>10. TellsOf(k, H)
    BY <2>9 DEF TellsOf
  <2>11. /\ c.prompt = procs[p].prompt /\ c.changed = procs[p].changed
         /\ c.snap = procs[p].snap.number
    BY <2>1
  <2>12. AskedOf(c, H)
    BY <2>6, <2>11 DEF Numbered, TellsOf, AskedOf
  <2>13. calls' = Append(calls, c)
    BY <1>2, <2>1
  <2>14. \A i \in DOMAIN calls' : AskedOf(calls'[i], H)
    BY <2>12, <2>13, AppendOnly DEF Inv, Numbered
  <2> QED
    BY <2>5, <2>10, <2>14, NumberedOne DEF Lookup
<1> QED
  BY <1>1, <1>2 DEF Lookup

(* Marking a call tells nothing new of it. *)
LEMMA MarkNumbered ==
  ASSUME Inv, NEW H, Numbered(H), NEW p \in Procs, procs[p].step \in Asking, NEW state,
         Mark(procs[p].call, state)
  PROVE  \A i \in DOMAIN calls' : AskedOf(calls'[i], H)
<1>1. PICK n : n = procs[p].call
  OBVIOUS
<1>2. n \in DOMAIN calls
  BY <1>1 DEF Inv, ProcessOk, For
<1> QED
  BY <1>1, <1>2, MarkOnly DEF Inv, Numbered, AskedOf

(* The steps that ask, keep, close or die. *)
LEMMA LateNumbered ==
  ASSUME Inv, NEW H, Numbered(H), NEW p \in Procs, Ask(p) \/ Keep(p) \/ Close(p) \/ Die(p)
  PROVE  Numbered(H)'
<1>0. IsProcess(procs[p])
  BY DEF Inv, ProcessOk
<1>a. ASSUME NEW step \in {"keep", "close"}, Goto(p, step), UNCHANGED snap,
             \A i \in DOMAIN calls' : AskedOf(calls'[i], H)
      PROVE  Numbered(H)'
  <2>1. PICK k : k = [procs[p] EXCEPT !.step = step]
    OBVIOUS
  <2>2. k.step = step
    BY <1>0, <2>1 DEF IsProcess
  <2>3. TellsOf(k, H)
    BY <1>a, <2>2 DEF TellsOf
  <2> QED
    BY <1>a, <2>1, <2>3, NumberedOne DEF Goto
<1>1. CASE Ask(p)
  <2>0. procs[p].step = "ask" /\ procs[p].step \in Asking
    BY <1>1 DEF Ask, At, Asking
  <2>1. CASE ModelAnswers(p)
    BY <1>1, <1>a, <2>0, <2>1, MarkNumbered DEF ModelAnswers, Ask
  <2>2. CASE TryNext(p)
    <3>1. PICK k : k = [procs[p] EXCEPT !.provider = procs[p].provider + 1]
      OBVIOUS
    <3>2. k.step = "ask"
      BY <1>0, <2>0, <3>1 DEF IsProcess
    <3>3. TellsOf(k, H)
      BY <3>2 DEF TellsOf
    <3> QED
      BY <1>1, <2>2, <3>1, <3>3, NumberedOnly DEF TryNext, Ask
  <2>3. CASE AskFails(p)
    BY <1>1, <2>0, <2>3, MarkNumbered, FailNumbered DEF AskFails, Ask
  <2> QED
    BY <1>1, <2>1, <2>2, <2>3 DEF Ask
<1>2. CASE Keep(p)
  <2>0. procs[p].step \in Asking
    BY <1>2 DEF Keep, At, Asking
  <2>1. CASE lock = Nobody
    BY <1>2, <1>a, <2>0, <2>1, MarkNumbered DEF Keep
  <2>2. CASE lock # Nobody
    BY <1>2, <2>0, <2>2, MarkNumbered, FailNumbered DEF Keep
  <2> QED
    BY <2>1, <2>2
<1>3. CASE Close(p)
  <2>1. PICK i : i = procs[p].call
    OBVIOUS
  <2> QED
    BY <1>3, <2>1, StopNumbered DEF Close
<1>4. CASE Die(p)
  <2>1. CASE procs[p].step \in {"ask", "keep"}
    BY <1>4, <2>1, MarkNumbered, FailNumbered DEF Die, Asking
  <2>2. CASE procs[p].step \notin {"ask", "keep"}
    BY <1>4, <2>2, FailNumbered DEF Die, Numbered
  <2> QED
    BY <2>1, <2>2
<1> QED
  BY <1>1, <1>2, <1>3, <1>4

-----------------------------------------------------------------------------
(* What is stored can be found. *)

LEMMA MarkKept ==
  ASSUME Inv, Kept, NEW p \in Procs, procs[p].step \in Asking, NEW state, state # "stored",
         Mark(procs[p].call, state), UNCHANGED cache
  PROVE  Kept'
<1>1. PICK n : n = procs[p].call
  OBVIOUS
<1>2. n \in DOMAIN calls
  BY <1>1 DEF Inv, ProcessOk, For
<1>3. CallsOk(calls)
  BY DEF Inv
<1>4. /\ DOMAIN calls' = DOMAIN calls
      /\ \A j \in DOMAIN calls :
           /\ calls'[j].prompt = calls[j].prompt /\ calls'[j].known = calls[j].known
           /\ calls'[j].state = "stored" => calls[j].state = "stored"
  BY <1>1, <1>2, <1>3, MarkOnly
<1> QED
  BY <1>4 DEF Kept

LEMMA LookupKept ==
  ASSUME Inv, Kept, NEW p \in Procs, Lookup(p)
  PROVE  Kept'
<1>1. CASE UNCHANGED calls
  BY <1>1 DEF Lookup, Kept
<1>2. CASE /\ {row \in cache : row.key = Key(procs[p])} = {}
           /\ calls' = Append(calls, [prompt |-> procs[p].prompt, changed |-> procs[p].changed,
                                      snap |-> procs[p].snap.number, known |-> Stored,
                                      state |-> "asking"])
  <2>1. PICK c : c = [prompt |-> procs[p].prompt, changed |-> procs[p].changed,
                      snap |-> procs[p].snap.number, known |-> Stored, state |-> "asking"]
    OBVIOUS
  <2>2. c.prompt = procs[p].prompt /\ c.known = Stored /\ c.state = "asking"
    BY <2>1
  <2>3. calls' = Append(calls, c)
    BY <1>2, <2>1
  <2>4. \A row \in cache : row.key # c.prompt
    BY <1>2, <2>2 DEF Key
  <2>5. \A i \in Stored : i \in DOMAIN calls /\ calls[i].prompt # c.prompt
    BY <2>4 DEF Stored, Kept
  <2>6. PICK n : n = Len(calls) + 1
    OBVIOUS
  <2>7. /\ DOMAIN calls' = DOMAIN calls \cup {n} /\ n \notin DOMAIN calls
        /\ \A j \in DOMAIN calls : calls'[j] = calls[j]
        /\ calls'[n] = c
    BY <2>3, <2>6, AppendOnly DEF Inv
  <2>8. UNCHANGED cache
    BY DEF Lookup
  <2>9. \A i \in DOMAIN calls' :
          calls'[i].state = "stored" => \E row \in cache' : row.key = calls'[i].prompt
    BY <2>2, <2>7, <2>8 DEF Kept
  <2>10. \A j \in DOMAIN calls' : \A i \in calls'[j].known :
           i \in DOMAIN calls' /\ calls'[i].prompt # calls'[j].prompt
    BY <2>2, <2>5, <2>7 DEF Kept
  <2> QED
    BY <2>9, <2>10 DEF Kept
<1> QED
  BY <1>1, <1>2 DEF Lookup

LEMMA KeepKept ==
  ASSUME Inv, Kept, NEW p \in Procs, Keep(p)
  PROVE  Kept'
<1>1. procs[p].step \in Asking
  BY DEF Keep, At, Asking
<1>2. CASE lock = Nobody
  <2>1. PICK n, new : n = procs[p].call /\ new = [key |-> procs[p].prompt, call |-> procs[p].call]
    OBVIOUS
  <2>2. n \in DOMAIN calls /\ calls[n].prompt = procs[p].prompt /\ CallsOk(calls)
    BY <1>1, <2>1 DEF Inv, ProcessOk, For
  <2>3. new \in cache' /\ new.key = procs[p].prompt
    BY <1>2, <2>1 DEF Keep, Key
  <2>4. \A row \in cache : row.key = procs[p].prompt \/ row \in cache'
    BY <1>2 DEF Keep, Key
  <2>5. /\ DOMAIN calls' = DOMAIN calls
        /\ \A j \in DOMAIN calls :
             /\ calls'[j].prompt = calls[j].prompt /\ calls'[j].known = calls[j].known
             /\ calls'[j].state = "stored" => j = n \/ calls[j].state = "stored"
    BY <1>2, <2>1, <2>2, MarkOnly DEF Keep
  <2>6. ASSUME NEW i \in DOMAIN calls', calls'[i].state = "stored"
        PROVE  \E row \in cache' : row.key = calls'[i].prompt
    <3>1. CASE calls[i].prompt = procs[p].prompt
      BY <2>3, <2>5, <2>6, <3>1
    <3>2. CASE calls[i].prompt # procs[p].prompt
      <4>1. PICK row \in cache : row.key = calls[i].prompt
        BY <2>2, <2>5, <2>6, <3>2 DEF Kept
      <4> QED
        BY <2>4, <2>5, <2>6, <3>2, <4>1
    <3> QED
      BY <3>1, <3>2
  <2> QED
    BY <2>5, <2>6 DEF Kept
<1>3. CASE lock # Nobody
  <2>1. Mark(procs[p].call, "lost") /\ UNCHANGED cache
    BY <1>3 DEF Keep
  <2> QED
    BY <1>1, <2>1, MarkKept
<1> QED
  BY <1>2, <1>3

LEMMA LateKept ==
  ASSUME Inv, Kept, NEW p \in Procs, Ask(p) \/ Die(p)
  PROVE  Kept'
<1>1. CASE UNCHANGED <<calls, cache>>
  BY <1>1 DEF Kept
<1>2. ASSUME procs[p].step \in {"ask", "keep"}, NEW state \in {"answered", "failed", "lost"},
             Mark(procs[p].call, state), UNCHANGED cache
      PROVE  Kept'
  BY <1>2, MarkKept DEF Asking
<1>3. CASE Ask(p)
  BY <1>1, <1>2, <1>3 DEF Ask, At, ModelAnswers, TryNext, AskFails
<1>4. CASE Die(p)
  BY <1>1, <1>2, <1>4 DEF Die
<1> QED
  BY <1>3, <1>4

(* Snapshots keep their numbers, prompts are what they are made of, and    *)
(* what is stored can be found: the invariant behind PaidAgainOnlyIf.      *)
THEOREM PaidInvariant == Spec => []PaidInv
<1>1. Init => PaidInv
  <2> SUFFICES ASSUME Init PROVE PaidInv
    OBVIOUS
  <2>1. Kept
    BY DEF Init, Kept
  <2>2. PICK H : H = <<>>
    OBVIOUS
  <2>3. H \in Seq({}) /\ DOMAIN H = {} /\ Len(H) = 0
    BY <2>2
  <2>4. \A p \in Procs : TellsOf(procs[p], H)
    BY DEF Init, Idle, TellsOf
  <2>5. Numbered(H)
    BY <2>3, <2>4 DEF Init, Numbered, NoSnapshot
  <2> QED
    BY <2>1, <2>5 DEF PaidInv
<1>2. Inv /\ PaidInv /\ [Next]_vars => PaidInv'
  <2> SUFFICES ASSUME Inv, PaidInv, [Next]_vars PROVE PaidInv'
    OBVIOUS
  <2>1. PICK H : Numbered(H)
    BY DEF PaidInv
  <2>k. Kept
    BY DEF PaidInv
  <2>2. ASSUME NEW p \in Procs, UNCHANGED <<calls, cache>> PROVE Kept'
    BY <2>k, <2>2 DEF Kept
  <2>3. ASSUME NEW p \in Procs, Start(p) PROVE PaidInv'
    <3>1. UNCHANGED <<calls, cache>>
      BY <2>3 DEF Start, StartAnalyze, StartExplain
    <3>2. Numbered(H)'
      BY <2>1, <2>3, StartNumbered
    <3> QED
      BY <2>2, <3>1, <3>2 DEF PaidInv
  <2>4. ASSUME NEW p \in Procs, StoreSnapshot(p) PROVE PaidInv'
    <3>1. UNCHANGED <<calls, cache>>
      BY <2>4 DEF StoreSnapshot
    <3>2. (\E G : Numbered(G))'
      BY <2>1, <2>4, StoreNumbered
    <3> QED
      BY <2>2, <3>1, <3>2 DEF PaidInv
  <2>5. ASSUME NEW p \in Procs, CloseAnalyze(p) \/ Open(p) \/ Read(p) PROVE PaidInv'
    <3>1. UNCHANGED <<calls, cache>>
      BY <2>5 DEF CloseAnalyze, Open, Read
    <3>2. CASE CloseAnalyze(p)
      <4>1. Numbered(H)'
        BY <2>1, <3>2, FailNumbered DEF CloseAnalyze, Fail, Numbered
      <4> QED
        BY <2>2, <3>1, <4>1 DEF PaidInv
    <3>3. CASE Open(p) \/ Read(p)
      <4>1. Numbered(H)'
        BY <2>1, <3>3, OpenNumbered, ReadNumbered
      <4> QED
        BY <2>2, <3>1, <4>1 DEF PaidInv
    <3> QED
      BY <2>5, <3>2, <3>3
  <2>6. ASSUME NEW p \in Procs, Lookup(p) PROVE PaidInv'
    BY <2>1, <2>k, <2>6, LookupNumbered, LookupKept DEF PaidInv
  <2>7. ASSUME NEW p \in Procs, Keep(p) \/ Close(p) \/ Ask(p) \/ Die(p) PROVE PaidInv'
    <3>1. Numbered(H)'
      BY <2>1, <2>7, LateNumbered
    <3>2. Kept'
      <4>1. CASE Close(p)
        BY <2>2, <4>1 DEF Close
      <4> QED
        BY <2>k, <2>7, <4>1, KeepKept, LateKept
    <3> QED
      BY <3>1, <3>2 DEF PaidInv
  <2>8. CASE Edit \/ UNCHANGED vars
    <3>1. UNCHANGED <<snap, cache, procs, calls>>
      BY <2>8 DEF Edit, vars
    <3>2. Numbered(H)' /\ Kept'
      BY <2>1, <2>k, <3>1 DEF Numbered, Kept
    <3> QED
      BY <3>2 DEF PaidInv
  <2> QED
    BY <2>3, <2>4, <2>5, <2>6, <2>7, <2>8 DEF Next, Go
<1> QED
  BY <1>1, <1>2, Invariant, PTL DEF Spec

(* A model is asked again about the same change of the same snapshot, with *)
(* the same snippets, only if the first answer could not be found in the   *)
(* cache then (run_explain, ContextRetriever), for every number of         *)
(* processes and files, whatever is analysed and edited meanwhile.         *)
THEOREM PaysOnce == Spec => []PaidAgainOnlyIf
<1>1. PaidInv => PaidAgainOnlyIf
  <2> SUFFICES ASSUME PaidInv, NEW i \in DOMAIN calls, NEW j \in DOMAIN calls,
                      calls[i].changed = calls[j].changed, calls[i].snap = calls[j].snap,
                      SnippetsOf(i) = SnippetsOf(j)
               PROVE  i \notin calls[j].known
    BY DEF PaidAgainOnlyIf
  <2>1. PICK H : Numbered(H)
    BY DEF PaidInv
  <2>2. PICK s, x, C : /\ s = H[calls[i].snap] /\ x = calls[i].changed
                       /\ C = Candidates(s, x)
    OBVIOUS
  <2>3. s.order \in Orders
    BY <2>1, <2>2 DEF Numbered, AskedOf, IsSnapshot
  <2>4. Len(C) \in Nat
    BY <2>2, <2>3, CandidatesOnce DEF Once
  <2>5. Built(calls[i].prompt, s, x) /\ Built(calls[j].prompt, s, x)
    BY <2>1, <2>2 DEF Numbered, AskedOf
  <2>6. InOrder(calls[i].prompt.snippets, C) /\ InOrder(calls[j].prompt.snippets, C)
    BY <2>2, <2>5 DEF Built
  <2>7. calls[i].prompt.snippets = calls[j].prompt.snippets
    BY <2>4, <2>6, SameInOrder DEF SnippetsOf
  <2>8. calls[i].prompt = calls[j].prompt
    BY <2>5, <2>7 DEF Built
  <2> QED
    BY <2>8 DEF PaidInv, Kept
<1> QED
  BY <1>1, PaidInvariant, PTL
=============================================================================
