---------------------------- MODULE ExplainCache ----------------------------
(***************************************************************************)
(* run_explain of core service.py with what it reads and writes: the       *)
(* current snapshot, the working tree from which ContextRetriever takes    *)
(* its snippets, the table analysis_cache (cache/provider.py) keyed by the *)
(* prompt, and the models (ai/), asked without the database being open.    *)
(* Other processes explain and analyse the same repository meanwhile, and  *)
(* somebody edits its files.                                               *)
(*                                                                         *)
(* A file has one symbol; its FILE node, which has no lines and so gives no*)
(* snippet, is left out.  A text stands for a file's content and for where *)
(* the symbol is in it: the citation tag of a snippet is made from the text*)
(* that was analysed, its source from the text that is there now.  A node  *)
(* is <<number of the snapshot, file>>, as its id is hashed from both;     *)
(* ids are sorted, which puts the files of each snapshot in an order of    *)
(* its own.  A prompt is its list of nodes and its list of snippets.       *)
(***************************************************************************)
EXTENDS Integers, FiniteSets, SequencesExt

CONSTANTS Procs,         \* the processes
          Files,         \* the files
          Texts,         \* what a readable file may contain
          DependsOn,     \* the pairs <<f, g>> with an edge from f to g
          MaxSnippets,   \* _MAX_SNIPPET_NODES
          Chains,        \* how many providers may be configured
          MaxOps,        \* bound: operations started
          MaxEdits,      \* bound: edits of the working tree
          MaxDeaths      \* bound: processes that die

ASSUME ExplainAssumption ==
  /\ IsFiniteSet(Files)
  /\ DependsOn \subseteq Files \X Files
  /\ Chains \subseteq Nat
  /\ {MaxSnippets, MaxOps, MaxEdits, MaxDeaths} \subseteq Nat

VARIABLES tree,     \* the working tree
          chain,    \* the length of the provider chain default_bob_provider builds
          snap,     \* the current snapshot
          cache,    \* the rows of analysis_cache: keys with the call that answered
          lock,     \* which process has the database open
          procs,    \* what each process does
          calls,    \* history: the prompts that missed the cache, in that order
          bounds    \* bound: the operations, edits and deaths so far

vars == <<tree, chain, snap, cache, lock, procs, calls, bounds>>

Nobody == "nobody"
Absent == "absent"     \* no such file: OSError
Garbled == "garbled"   \* not UTF-8: UnicodeDecodeError, which is no OSError
Contents == Texts \cup {Absent, Garbled}

(* The places at which the hashes of a snapshot may put its files. *)
Orders == {o \in [Files -> 1..Cardinality(Files)] : IsInjective(o)}

NoSnapshot == [number |-> 0, seen |-> [f \in Files |-> Absent], order |-> <<>>]
NoPrompt == [dependents |-> <<>>, snippets |-> <<>>]
Idle == [step |-> "idle", changed |-> {}, snap |-> NoSnapshot, todo |-> <<>>,
         prompt |-> NoPrompt, provider |-> 0, call |-> 0, answer |-> 0]

Init ==
  /\ tree \in [Files -> Texts]
  /\ chain \in Chains
  /\ snap = NoSnapshot
  /\ cache = {}
  /\ lock = Nobody
  /\ procs = [p \in Procs |-> Idle]
  /\ calls = <<>>
  /\ bounds = [ops |-> 0, edits |-> 0, deaths |-> 0]

At(p, step) == procs[p].step = step
Become(p, k) == procs' = [procs EXCEPT ![p] = k]
Goto(p, step) == Become(p, [procs[p] EXCEPT !.step = step])
Stop(p, answer) == Become(p, [Idle EXCEPT !.answer = answer, !.prompt = procs[p].prompt])
Fail(p) == Become(p, Idle)

Count(what, bound) == bounds[what] < bound /\ bounds' = [bounds EXCEPT ![what] = @ + 1]

-----------------------------------------------------------------------------
(* Analyze: the scan of the tree, then the new snapshot under the lock.  A *)
(* file that is not UTF-8 is left out as binary.                           *)

StartAnalyze(p) ==
  /\ At(p, "idle")
  /\ Count("ops", MaxOps)
  /\ LET seen == [f \in Files |-> IF tree[f] = Garbled THEN Absent ELSE tree[f]]
     IN  \E order \in Orders :
           Become(p, [Idle EXCEPT !.step = "scanned",
                                  !.snap = [number |-> 0, seen |-> seen, order |-> order]])
  /\ UNCHANGED <<tree, chain, snap, cache, lock, calls>>

StoreSnapshot(p) ==
  /\ At(p, "scanned")
  /\ IF lock = Nobody
       THEN /\ lock' = p
            /\ snap' = [procs[p].snap EXCEPT !.number = snap.number + 1]
            /\ Goto(p, "stored")
       ELSE Fail(p) /\ UNCHANGED <<lock, snap>>
  /\ UNCHANGED <<tree, chain, cache, calls, bounds>>

CloseAnalyze(p) ==
  /\ At(p, "stored")
  /\ lock' = Nobody
  /\ Become(p, Idle)
  /\ UNCHANGED <<tree, chain, snap, cache, calls, bounds>>

-----------------------------------------------------------------------------
(* Explain: the first `with` block. *)

StartExplain(p) ==
  /\ At(p, "idle")
  /\ Count("ops", MaxOps)
  /\ \E changed \in SUBSET Files :
       Become(p, [Idle EXCEPT !.step = "open", !.changed = changed])
  /\ UNCHANGED <<tree, chain, snap, cache, lock, calls>>

(* NotInitializedError, NotAnalyzedError, a git that fails, and the answer *)
(* None when nothing has changed all leave the block at once.              *)
Nodes(s) == {f \in Files : s.seen[f] # Absent}
Sorted(s, S) ==
  [n \in 1..Cardinality(S) |->
     CHOOSE f \in S : Cardinality({g \in S : s.order[g] <= s.order[f]}) = n]
Changed(s, changed) == Sorted(s, changed \cap Nodes(s))
Direct(s, changed) ==
  Sorted(s, {f \in Nodes(s) \ changed :
               \E g \in changed \cap Nodes(s) : <<f, g>> \in DependsOn})

(* The changed nodes come first in the budget for snippets. *)
Candidates(s, changed) ==
  LET all == Changed(s, changed) \o Direct(s, changed)
  IN  SubSeq(all, 1, IF Len(all) < MaxSnippets THEN Len(all) ELSE MaxSnippets)

Open(p) ==
  LET k == procs[p]
  IN  /\ At(p, "open")
      /\ IF lock # Nobody \/ snap.number = 0 \/ k.changed = {}
           THEN Fail(p) /\ UNCHANGED lock
           ELSE \/ Fail(p) /\ UNCHANGED lock
                \/ /\ lock' = p
                   /\ Become(p, [k EXCEPT
                        !.step = "read", !.snap = snap, !.todo = Candidates(snap, k.changed),
                        !.prompt = [dependents |-> [i \in DOMAIN Direct(snap, k.changed) |->
                                      <<snap.number, Direct(snap, k.changed)[i]>>],
                                    snippets |-> <<>>]])
      /\ UNCHANGED <<tree, chain, snap, cache, calls, bounds>>

(* Bug: the changed nodes are taken from a set as it comes, unsorted. *)
Read_UnsortedBug(p) ==
  LET k == procs[p]
  IN  /\ At(p, "read")
      /\ k.todo # <<>>
      /\ \E i \in DOMAIN k.todo :
           LET f == k.todo[i]
               snippet == [file |-> f, tag |-> k.snap.seen[f], text |-> tree[f]]
           IN  IF tree[f] = Garbled
                 THEN Fail(p) /\ lock' = Nobody
                 ELSE /\ Become(p, [k EXCEPT !.todo = RemoveAt(@, i),
                           !.prompt.snippets = IF tree[f] = Absent THEN @
                                               ELSE Append(@, snippet)])
                      /\ UNCHANGED lock
      /\ UNCHANGED <<tree, chain, snap, cache, calls, bounds>>

(* One snippet is read.  A file that has gone is passed over; one that is  *)
(* not text ends the explain.                                              *)
Read(p) ==
  LET k == procs[p]
      f == Head(k.todo)
      snippet == [file |-> f, tag |-> k.snap.seen[f], text |-> tree[f]]
  IN  /\ At(p, "read")
      /\ k.todo # <<>>
      /\ IF tree[f] = Garbled
           THEN Fail(p) /\ lock' = Nobody
           ELSE /\ Become(p, [k EXCEPT !.todo = Tail(@),
                     !.prompt.snippets = IF tree[f] = Absent THEN @ ELSE Append(@, snippet)])
                /\ UNCHANGED lock
      /\ UNCHANGED <<tree, chain, snap, cache, calls, bounds>>

(* Bug: keyed by what is compared, as the cache's own docstring suggests. *)
Key_ChangeSetBug(k) == k.changed

(* cache_key: the hash of the whole prompt. *)
Key(k) == k.prompt

Stored == {i \in DOMAIN calls : calls[i].state = "stored"}

(* Bug: the model is asked inside the first `with` block. *)
Lookup_KeepsOpenBug(p) ==
  LET k == procs[p]
      hits == {row \in cache : row.key = Key(k)}
  IN  /\ At(p, "read")
      /\ k.todo = <<>>
      /\ IF hits # {}
           THEN (\E row \in hits : Stop(p, row.call)) /\ lock' = Nobody /\ UNCHANGED calls
           ELSE /\ calls' = Append(calls, [prompt |-> k.prompt, changed |-> k.changed,
                                           snap |-> k.snap.number, known |-> Stored,
                                           state |-> "asking"])
                /\ Become(p, [k EXCEPT !.step = "ask", !.provider = 1,
                                       !.call = Len(calls) + 1])
                /\ UNCHANGED lock
      /\ UNCHANGED <<tree, chain, snap, cache, bounds>>

(* CacheProvider.get; no entry that run_explain makes ever expires. *)
Lookup(p) ==
  LET k == procs[p]
      hits == {row \in cache : row.key = Key(k)}
  IN  /\ At(p, "read")
      /\ k.todo = <<>>
      /\ lock' = Nobody
      /\ IF hits # {}
           THEN (\E row \in hits : Stop(p, row.call)) /\ UNCHANGED calls
           ELSE /\ calls' = Append(calls, [prompt |-> k.prompt, changed |-> k.changed,
                                           snap |-> k.snap.number, known |-> Stored,
                                           state |-> "asking"])
                /\ Become(p, [k EXCEPT !.step = "ask", !.provider = 1,
                                       !.call = Len(calls) + 1])
      /\ UNCHANGED <<tree, chain, snap, cache, bounds>>

-----------------------------------------------------------------------------
(* The models, tried in order.  Only a BobProviderError lets the next one  *)
(* answer: an answer that is not JSON, or not shaped as expected, may      *)
(* raise something else.  Without a provider there is a configuration      *)
(* error.                                                                  *)

Mark(i, state) == calls' = [calls EXCEPT ![i].state = state]

ModelAnswers(p) ==
  /\ procs[p].provider <= chain
  /\ Mark(procs[p].call, "answered")
  /\ Goto(p, "keep")

TryNext(p) ==
  /\ procs[p].provider < chain
  /\ Become(p, [procs[p] EXCEPT !.provider = @ + 1])
  /\ UNCHANGED calls

AskFails(p) == Mark(procs[p].call, "failed") /\ Fail(p)

Ask(p) ==
  /\ At(p, "ask")
  /\ ModelAnswers(p) \/ TryNext(p) \/ AskFails(p)
  /\ UNCHANGED <<tree, chain, snap, cache, lock, bounds>>

(* The second `with` block, CacheProvider.set: it replaces a row that has  *)
(* the same key.  When another process has the database open, the answer   *)
(* is lost.                                                                *)
Keep(p) ==
  LET k == procs[p]
  IN  /\ At(p, "keep")
      /\ IF lock = Nobody
           THEN /\ lock' = p
                /\ cache' = {row \in cache : row.key # Key(k)}
                              \cup {[key |-> Key(k), call |-> k.call]}
                /\ Mark(k.call, "stored")
                /\ Goto(p, "close")
           ELSE /\ Mark(k.call, "lost")
                /\ Fail(p)
                /\ UNCHANGED <<lock, cache>>
      /\ UNCHANGED <<tree, chain, snap, bounds>>

Close(p) ==
  /\ At(p, "close")
  /\ lock' = Nobody
  /\ Stop(p, procs[p].call)
  /\ UNCHANGED <<tree, chain, snap, cache, calls, bounds>>

-----------------------------------------------------------------------------
Edit ==
  /\ Count("edits", MaxEdits)
  /\ \E f \in Files, c \in Contents : tree' = [tree EXCEPT ![f] = c]
  /\ UNCHANGED <<chain, snap, cache, lock, procs, calls>>

(* The operating system closes the database of a process that dies. *)
Die(p) ==
  LET k == procs[p]
  IN  /\ k.step # "idle"
      /\ Count("deaths", MaxDeaths)
      /\ lock' = IF lock = p THEN Nobody ELSE lock
      /\ IF k.step \in {"ask", "keep"} THEN Mark(k.call, "lost") ELSE UNCHANGED calls
      /\ Fail(p)
      /\ UNCHANGED <<tree, chain, snap, cache>>

(* What a process does on its own; the models may take their time. *)
Go(p) == StoreSnapshot(p) \/ CloseAnalyze(p) \/ Open(p) \/ Read(p) \/ Lookup(p) \/ Keep(p)
           \/ Close(p)

Start(p) == StartAnalyze(p) \/ StartExplain(p)

Next == (\E p \in Procs : Start(p) \/ Go(p) \/ Ask(p) \/ Die(p)) \/ Edit

Spec == Init /\ [][Next]_vars /\ \A p \in Procs : WF_vars(Go(p))

-----------------------------------------------------------------------------
(* An explain only ever returns what a model answered to the very prompt it*)
(* has built, out of the snippets it has read itself, whoever stored that  *)
(* answer and whatever has been analysed, edited or stored since           *)
(* (run_explain: "Keying on the fully-formatted prompt text").             *)
AnswerIsForThisPrompt ==
  \A p \in Procs : procs[p].answer # 0 =>
    calls[procs[p].answer].prompt = procs[p].prompt

(* A model is asked twice about the same change of the same snapshot, with *)
(* the same text in every file that is cited, only if the first answer had *)
(* not been stored when the second was looked for: it never came, was lost *)
(* to the lock or a death, or was still on its way (run_explain, the two   *)
(* `with` blocks; ContextRetriever sorts what it takes from sets).         *)
SnippetsOf(i) == {calls[i].prompt.snippets[j] : j \in DOMAIN calls[i].prompt.snippets}

PaidAgainOnlyIf ==
  \A i, j \in DOMAIN calls :
    /\ i < j
    /\ calls[i].changed = calls[j].changed
    /\ calls[i].snap = calls[j].snap
    /\ SnippetsOf(i) = SnippetsOf(j)
    => i \notin calls[j].known

(* Whoever opens the database closes it again: time and again nobody has   *)
(* it, although a model may never answer.  So nobody keeps the others out  *)
(* for as long as a model thinks (run_explain leaves its first `with`      *)
(* block before it asks).                                                  *)
LockComesBack == []<>(lock = Nobody)

=============================================================================
