-------------------------- MODULE GovernanceChecks --------------------------
(***************************************************************************)
(* The governance checks on one repository as functions of what the        *)
(* repository is like and of how GitHub (or the model) answers each        *)
(* request (core/governance/checks, core/governance/ai, and what github.py *)
(* makes of a failing request).  Requests of a check are numbered: 0 is    *)
(* its first, n the one about its n-th pull request or file.  A check that *)
(* raises has no findings: the engine logs the exception and goes on.      *)
(*                                                                         *)
(* A repository is a record:                                               *)
(*   alerts    severities of its open alerts, "high" (or critical), "low", *)
(*             in GitHub's order                                           *)
(*   prs       open pull requests [stale, merge, authored, large, verdict],*)
(*             where authored says that the author's account is still      *)
(*             there and verdict[check] what the model says when asked     *)
(*   ci, runs  has it CI files, and kinds of recent workflow runs          *)
(*   fixed     matches in each file of the scan's fixed list, none in one  *)
(*             that it does not have                                       *)
(*   python    matches in each Python file of the tree, in its order       *)
(*   listed    places in python of files that are on the fixed list too    *)
(*   readme, deps, dirs   what the fingerprint is made of, or Bare         *)
(***************************************************************************)
EXTENDS Integers, SequencesExt

CONSTANTS AlertPage,     \* alerts that are asked for
          ConflictCap,   \* _PR_CAP: pull requests fetched one by one
          MaxPyFiles,    \* _MAX_PY_FILES
          MaxHits,       \* _MAX_FINDINGS
          Bare           \* no README, no dependencies, no directories

ASSUME CapsOK == {AlertPage, ConflictCap, MaxPyFiles, MaxHits} \subseteq Nat \ {0}

Least(a, b) == IF a < b THEN a ELSE b

Responses == {"ok", "429", "limited 403", "forbidden", "missing", "error", "broken"}

(* _get: a response that says the rate limit is reached is waited for and  *)
(* asked for again, once; a second one counts as what its status is.       *)
(* "broken" is no response, or one that is not JSON: not a GitHubAPIError. *)
Get(first, second) ==
  LET last == IF first \in {"429", "limited 403"} THEN second ELSE first
  IN CASE last = "429" -> "error"
       [] last = "limited 403" -> "forbidden"
       [] OTHER -> last

Outcomes == {Get(first, second) : first \in Responses, second \in Responses}

(* An open pull request, with what the model thinks of it.  GitHub says    *)
(* "unknown" of the merge while it has not worked it out.                  *)
PullRequest ==
  [stale : BOOLEAN, merge : {"clean", "dirty", "behind", "unknown"},
   authored : BOOLEAN, large : BOOLEAN,
   verdict : [{"PLAN_BEFORE_SHIP", "INFLATED_DIFF", "HITL"} -> {"good", "unsure", "bad"}]]

Finding(about, status) == [about |-> about, status |-> status]

-----------------------------------------------------------------------------
(* Dependabot: 403 and 404 are taken for "not enabled", which is no alert, *)
(* and of the alerts one page is looked at.                                *)
UnavailableCodes_AnyBug == {"forbidden", "missing", "error"}

UnavailableCodes == {"forbidden", "missing"}

VulnerabilityFindings(r, a) ==
  LET page == SubSeq(r.alerts, 1, Least(AlertPage, Len(r.alerts)))
      alerts == IF a[0] = "ok" THEN ToSet(page) ELSE {}
  IN IF a[0] # "ok" /\ a[0] \notin UnavailableCodes THEN {}
     ELSE {Finding(<<>>, CASE alerts = {} -> "PASS"
                           [] "high" \in alerts -> "FAIL"
                           [] OTHER -> "WARN")}

(* One finding per stale pull request, and <<0>> for all of them. *)
StaleFindings(r, a) ==
  LET stale == {n \in DOMAIN r.prs : r.prs[n].stale}
  IN IF a[0] # "ok" \/ stale = {} THEN {}
     ELSE {Finding(<<n>>, "WARN") : n \in stale \cup {0}}

ConflictFindings_OneEndsAllBug(r, a) ==
  LET state(n) == r.prs[n].merge
      found == {n \in 1..Least(ConflictCap, Len(r.prs)) : state(n) \in {"dirty", "behind"}}
  IN IF a[0] # "ok" \/ \E n \in 1..Least(ConflictCap, Len(r.prs)) : a[n] # "ok" THEN {}
     ELSE {Finding(<<n>>, IF state(n) = "dirty" THEN "FAIL" ELSE "WARN") : n \in found}

(* Only GitHubAPIError skips a pull request; anything else ends the check, *)
(* with what it has found so far.  Of a merge state that is unknown nothing*)
(* is said.                                                                *)
Inspected(r) == 1..Least(ConflictCap, Len(r.prs))

ConflictFindings(r, a) ==
  LET state(n) == r.prs[n].merge
      found == {n \in Inspected(r) : a[n] = "ok" /\ state(n) \in {"dirty", "behind"}}
  IN IF a[0] # "ok" \/ \E n \in Inspected(r) : a[n] = "broken" THEN {}
     ELSE {Finding(<<n>>, IF state(n) = "dirty" THEN "FAIL" ELSE "WARN") : n \in found}

(* Request 0 is the tree, 1 the workflow runs.  A tree that is missing has *)
(* no CI files, and runs that cannot be listed are no runs.                *)
CoverageFindings(r, a) ==
  LET ci == a[0] = "ok" /\ r.ci
      runs == IF a[1] = "ok" THEN r.runs ELSE {}
  IN IF a[0] \notin {"ok", "missing"} \/ (ci /\ a[1] = "broken") THEN {}
     ELSE {Finding(<<>>, CASE ~ci -> "FAIL"
                           [] "deploy" \in runs /\ "test" \notin runs -> "FAIL"
                           [] ci /\ runs = {} -> "WARN"
                           [] OTHER -> "PASS")}

(* Request 0 is the tree, n the n-th file scanned.  The first Python files *)
(* of the tree are taken and those on the fixed list dropped afterwards:   *)
(* they take up places.  A missing file is an empty one; the scan ends when*)
(* it has MaxHits.                                                         *)
Scanned(r, a) ==
  r.fixed \o IF a[0] = "ok" THEN SubSeq(r.python, 1, Least(MaxPyFiles, Len(r.python))) ELSE <<>>

Dropped(r) == {Len(r.fixed) + k : k \in r.listed}

HitsBefore(r, a, n) ==
  LET files == Scanned(r, a)
  IN Cardinality(UNION {{m} \X (1..files[m]) :
                          m \in {l \in 1..(n - 1) \ Dropped(r) : a[l] = "ok"}})

Fetched(r, a) ==
  {n \in DOMAIN Scanned(r, a) \ Dropped(r) :
     /\ HitsBefore(r, a, n) < MaxHits
     /\ \A m \in 1..(n - 1) : a[m] \in {"ok", "missing"}}

PiiFindings(r, a) ==
  LET fetched == Fetched(r, a)
  IN IF a[0] \notin {"ok", "missing"} \/ \E n \in fetched : a[n] \notin {"ok", "missing"}
     THEN {}
     ELSE UNION {{Finding(<<n, k>>, "WARN") :
                    k \in 1..Least(Scanned(r, a)[n], MaxHits - HitsBefore(r, a, n))} :
                 n \in {m \in fetched : a[m] = "ok"}}

-----------------------------------------------------------------------------
(* The checks that ask the model about one pull request.  A call that      *)
(* fails, or whose answer holds no JSON object, counts as the check's      *)
(* default verdict, "unsure"; a verdict that is no text makes it raise.    *)
ModelChecks == <<"PLAN_BEFORE_SHIP", "INFLATED_DIFF", "HITL">>

ModelOutcomes == {"said", "failed", "unlisted", "not text"}

ModelStatus(check, verdict) ==
  CASE verdict = "good" -> "PASS"
    [] verdict = "unsure" -> IF check = "HITL" THEN "WARN" ELSE "UNKNOWN"
    [] verdict = "bad" -> IF check = "HITL" THEN "FAIL" ELSE "WARN"
    [] OTHER -> "UNKNOWN"

Verdict(outcome, said) ==
  CASE outcome = "said" -> said [] outcome = "failed" -> "unsure" [] OTHER -> "unlisted"

(* Small pull requests are not asked about inflated diffs. *)
Asked(check, pr) == check # "INFLATED_DIFF" \/ pr.large

ModelFindings(check, pr, outcome) ==
  IF ~Asked(check, pr) \/ outcome = "not text" THEN {}
  ELSE {ModelStatus(check, Verdict(outcome, pr.verdict[check]))}

-----------------------------------------------------------------------------
(* The fingerprint of a repository: README, manifests, tree (requests 0 to *)
(* 2), where what is missing is empty.  Contents are the same or have      *)
(* nothing in common, so the weighted score is a sum of weights.           *)
Signals == <<"readme", "deps", "dirs">>

Fingerprint_ErrorTextBug(r, a) ==
  [s \in ToSet(Signals) |->
     IF \E n \in 1..3 : Signals[n] = s /\ a[n - 1] = "missing" THEN "Not Found" ELSE r[s]]

Fingerprint(r, a) ==
  [s \in ToSet(Signals) |->
     IF \E n \in 1..3 : Signals[n] = s /\ a[n - 1] = "missing" THEN Bare ELSE r[s]]

Alike(p, q, s) == p[s] = q[s] /\ p[s] # Bare

Similarity(p, q) ==
  (IF Alike(p, q, "readme") THEN 50 ELSE 0)
  + (IF Alike(p, q, "deps") THEN 30 ELSE 0)
  + (IF Alike(p, q, "dirs") THEN 20 ELSE 0)

HighThreshold == 80
MedThreshold == 60

-----------------------------------------------------------------------------
Checks == <<"DEPENDABOT", "STALE_PR", "CONFLICT", "DEPLOY_WITHOUT_TEST", "PII">>

(* The pull requests whose author a check has to name and cannot: `user` is*)
(* null when the account has been deleted, and the check raises.           *)
Nameless(check, r) ==
  {n \in DOMAIN r.prs :
     /\ ~r.prs[n].authored
     /\ \/ check = "STALE_PR" /\ r.prs[n].stale
        \/ check = "CONFLICT" /\ n \in Inspected(r) /\ r.prs[n].merge = "dirty"}

Raises(check, r, a) ==
  a[0] = "ok" /\ \E n \in Nameless(check, r) : check = "CONFLICT" => a[n] = "ok"

(* The numbers of the requests a check may make, and, given the answers,   *)
(* those it does make.                                                     *)
Requests(check, r) ==
  CASE check = "CONFLICT" -> {0} \cup Inspected(r)
    [] check = "DEPLOY_WITHOUT_TEST" -> {0, 1}
    [] check = "PII" -> 0..(Len(r.fixed) + Least(MaxPyFiles, Len(r.python)))
    [] OTHER -> {0}

Made(check, r, a) ==
  {0} \cup
  CASE check = "CONFLICT" /\ a[0] = "ok" ->
         {n \in Inspected(r) : \A m \in 1..(n - 1) :
            a[m] # "broken" /\ (a[m] = "ok" => m \notin Nameless(check, r))}
    [] check = "DEPLOY_WITHOUT_TEST" /\ a[0] = "ok" /\ r.ci -> {1}
    [] check = "PII" /\ a[0] \in {"ok", "missing"} -> Fetched(r, a)
    [] OTHER -> {}

Found(check, r, a) ==
  CASE check = "DEPENDABOT" -> VulnerabilityFindings(r, a)
    [] check = "STALE_PR" -> StaleFindings(r, a)
    [] check = "CONFLICT" -> ConflictFindings(r, a)
    [] check = "DEPLOY_WITHOUT_TEST" -> CoverageFindings(r, a)
    [] check = "PII" -> PiiFindings(r, a)

CheckFindings(check, r, a) == IF Raises(check, r, a) THEN {} ELSE Found(check, r, a)

(* What there is for the check to find: what it finds when every request is*)
(* answered and every author known.                                        *)
Expected(check, r) == Found(check, r, [n \in Requests(check, r) |-> "ok"])
=============================================================================
