----------------------- MODULE GovernanceAuditProofs -----------------------
(***************************************************************************)
(* The properties of an audit for every organisation, every content of its *)
(* repositories, every configuration and every pattern of failures.  The   *)
(* inductive invariant Inv says, beyond the types, where the audit is      *)
(* (Control), that what it is through with is accounted for (Progress,     *)
(* which FailureStaysLocal is at the end), and what the listing holds      *)
(* while pages are fetched from an organisation that changes (ListedSoFar, *)
(* which becomes EveryRepositoryOnce with the last page).                  *)
(*                                                                         *)
(* What each check finds enters only through three facts: a check is a     *)
(* function of the answers it gets (AllAnswered), what it does not find    *)
(* was about a request that failed or wanted for an author                 *)
(* (MissingForWantOf), and what it finds                                   *)
(* wrongly comes of an answer it misreads (MadeUpFrom).                    *)
(***************************************************************************)
EXTENDS GovernanceAudit, SequenceTheorems, FiniteSetTheorems, WellFoundedInduction, TLAPS

(* What TypeOK is made of. *)
Basic ==
  /\ world \in Worlds /\ stage \in Stages /\ page \in Nat
  /\ shifted \in {"no", "created", "deleted"}
  /\ org \in Seq(Repos) /\ listing \in Seq(Repos)
  /\ at \in Nat \ {0} /\ step \in Nat \ {0}

Marks == {Bare} \cup UNION {{world[r][s] : s \in ToSet(Signals)} : r \in Repos}

PrintSet == [at : DOMAIN listing, of : [ToSet(Signals) -> Marks]]

PrintsTyped == prints \in Seq(PrintSet)

FindingsSet ==
  [at : DOMAIN listing, check : AllChecks, about : Seq(Nat),
   status : {"PASS", "WARN", "FAIL", "UNKNOWN"}]

FindingsTyped == findings \subseteq FindingsSet

TroubleCounted == IsFiniteSet(trouble) /\ Failures <= MaxFailures

(* What holds of an audit wherever it is. *)
Control ==
  /\ org # <<>>
  /\ stage \in {"start", "list"} => findings = {} /\ prints = <<>> /\ at = 1 /\ step = 1
  /\ stage = "start" => listing = <<>> /\ page = 0 /\ shifted = "no" /\ IsInjective(org)
  /\ stage \in {"checks", "ai list", "ai"} => at \in DOMAIN listing /\ prints = <<>>
  /\ stage = "ai list" => step = 1
  /\ stage \in {"ai list", "ai"} => config.ai
  /\ stage \in {"list", "sprawl"} => ~config.single

Auditing == {"checks", "ai list", "ai", "sprawl", "done"}

(* The audit is through with the check c of the repository at i as far as  *)
(* the finding f is concerned.                                             *)
Through(i, c, f) ==
  \/ stage \in {"sprawl", "done"}
  \/ i < at
  \/ i = at /\ c \in ToSet(Checks) /\ stage # "checks"
  \/ i = at /\ stage = "checks" /\ \E k \in DOMAIN Checks : c = Checks[k] /\ k < step
  \/ i = at /\ stage = "ai" /\ c \in ToSet(ModelChecks) /\ f.about[1] < step

Accounted(f) == f \in findings \/ AuthorMissing(f) \/ \E t \in trouble : Explains(t, f)

(* FailureStaysLocal, of what the audit is through with. *)
Progress ==
  stage \in Auditing =>
    \A i \in DOMAIN listing, c \in ChecksToRun : \A f \in ExpectedOf(i, c) :
      Through(i, c, f) => Accounted(f)

Justified(f) ==
  IF f.check = "REPO_SPRAWL"
  THEN listing[f.at] # listing[f.about[1]] \/ shifted = "created"
  ELSE f \in ExpectedOf(f.at, f.check) \/ \E t \in trouble : ReadAsAnswer(f, t)

(* Fingerprints are of different places, and of an organisation. *)
PrintsInOrder ==
  /\ stage = "sprawl" => \A k \in DOMAIN prints : prints[k].at < at
  /\ \A j, k \in DOMAIN prints : j < k => prints[j].at < prints[k].at

Covered == page * PerPage

(* While the organisation is listed: what it has beyond the pages fetched  *)
(* is not in the listing, and what it has on them is.                      *)
ListedSoFar ==
  stage = "list" =>
    /\ shifted # "created" =>
         /\ IsInjective(org) /\ IsInjective(listing)
         /\ \A k \in DOMAIN org : k > Covered => org[k] \notin ToSet(listing)
    /\ shifted = "no" => \A k \in DOMAIN org : k <= Covered => org[k] \in ToSet(listing)
    /\ shifted = "created" =>
         \A k \in DOMAIN org : k > 1 /\ k <= Covered => org[k] \in ToSet(listing)

Old == IF shifted = "created" THEN ToSet(Tail(org)) ELSE ToSet(org)

(* EveryRepositoryOnce, from the last page on. *)
ListedAll ==
  stage \in Auditing /\ ~config.single =>
    /\ shifted # "deleted" => {r \in Old : ~world[r].archived} \subseteq ToSet(listing)
    /\ shifted # "created" => IsInjective(listing)
    /\ \A r \in ToSet(listing) : ~world[r].archived

Inv ==
  /\ Basic /\ PrintsTyped /\ FindingsTyped /\ TroubleCounted
  /\ Control /\ Progress /\ NothingMadeUp /\ PrintsInOrder /\ ListedSoFar /\ ListedAll

-----------------------------------------------------------------------------
(* The checks. *)

CheckNames == {"DEPENDABOT", "STALE_PR", "CONFLICT", "DEPLOY_WITHOUT_TEST", "PII"}
ModelNames == {"PLAN_BEFORE_SHIP", "INFLATED_DIFF", "HITL"}
Statuses == {"PASS", "WARN", "FAIL", "UNKNOWN"}

LEMMA Names ==
  /\ ToSet(Checks) = CheckNames /\ ToSet(ModelChecks) = ModelNames
  /\ DOMAIN Checks = 1..5 /\ Len(Checks) = 5
  /\ \A n \in 1..5 : Checks[n] \in CheckNames
  /\ AllChecks = CheckNames \cup ModelNames \cup {"REPO_SPRAWL"}
<1>1. DOMAIN Checks = 1..5 /\ Len(Checks) = 5 /\ DOMAIN ModelChecks = 1..3
  BY DEF Checks, ModelChecks
<1>2. /\ Checks[1] = "DEPENDABOT" /\ Checks[2] = "STALE_PR" /\ Checks[3] = "CONFLICT"
      /\ Checks[4] = "DEPLOY_WITHOUT_TEST" /\ Checks[5] = "PII"
      /\ ModelChecks[1] = "PLAN_BEFORE_SHIP" /\ ModelChecks[2] = "INFLATED_DIFF"
      /\ ModelChecks[3] = "HITL"
  BY DEF Checks, ModelChecks
<1>3. \A n \in 1..5 : n = 1 \/ n = 2 \/ n = 3 \/ n = 4 \/ n = 5
  OBVIOUS
<1>4. \A n \in 1..3 : n = 1 \/ n = 2 \/ n = 3
  OBVIOUS
<1>5. ToSet(Checks) = CheckNames
  BY <1>1, <1>2, <1>3 DEF ToSet, CheckNames
<1>6. ToSet(ModelChecks) = ModelNames
  BY <1>1, <1>2, <1>4 DEF ToSet, ModelNames
<1> QED
  BY <1>1, <1>2, <1>3, <1>5, <1>6 DEF AllChecks, CheckNames

(* What WorldsOK says of a repository. *)
RepoOK(r) == r.prs \in Seq(PullRequest) /\ r.fixed \in Seq(Nat) /\ r.python \in Seq(Nat)

LEMMA LeastNat ==
  ASSUME NEW a \in Nat, NEW b \in Nat
  PROVE  Least(a, b) \in Nat /\ Least(a, b) <= a /\ Least(a, b) <= b
BY DEF Least

LEMMA InspectedOk ==
  ASSUME NEW r, RepoOK(r)
  PROVE  /\ Least(ConflictCap, Len(r.prs)) \in Nat /\ Len(r.prs) \in Nat
         /\ Inspected(r) = 1..Least(ConflictCap, Len(r.prs))
         /\ Inspected(r) \subseteq Nat \ {0}
<1>1. Len(r.prs) \in Nat
  BY DEF RepoOK
<1>2. Least(ConflictCap, Len(r.prs)) \in Nat
  BY <1>1, CapsOK, LeastNat
<1> QED
  BY <1>1, <1>2 DEF Inspected

LEMMA FromZero ==
  ASSUME NEW top \in Nat
  PROVE  0..top \in SUBSET Nat /\ IsFiniteSet(0..top)
<1>1. IsFiniteSet(0..top)
  BY FS_Interval
<1> QED
  BY <1>1

(* The requests of a check are numbered from 0 on. *)
LEMMA RequestsFinite ==
  ASSUME NEW check \in CheckNames, NEW r, RepoOK(r)
  PROVE  Requests(check, r) \in SUBSET Nat /\ IsFiniteSet(Requests(check, r))
<1>1. CASE check = "CONFLICT"
  <2>1. PICK top \in Nat : Inspected(r) = 1..top
    BY InspectedOk
  <2>2. Requests(check, r) = 0..top
    BY <1>1, <2>1 DEF Requests
  <2> QED
    BY <2>2, FromZero
<1>2. CASE check = "DEPLOY_WITHOUT_TEST"
  <2>1. Requests(check, r) = 0..1
    BY <1>2 DEF Requests
  <2> QED
    BY <2>1, FromZero
<1>3. CASE check = "PII"
  <2>a. Len(r.fixed) \in Nat /\ Len(r.python) \in Nat /\ MaxPyFiles \in Nat
    BY CapsOK DEF RepoOK
  <2>1. Least(MaxPyFiles, Len(r.python)) \in Nat
    BY <2>a, LeastNat
  <2>2. PICK top \in Nat : top = Len(r.fixed) + Least(MaxPyFiles, Len(r.python))
    BY <2>a, <2>1
  <2>3. Requests(check, r) = 0..top
    BY <1>3, <2>2 DEF Requests
  <2> QED
    BY <2>3, FS_Interval
<1>4. CASE check \in {"DEPENDABOT", "STALE_PR"}
  <2>1. Requests(check, r) = 0..0
    BY <1>4 DEF Requests
  <2> QED
    BY <2>1, FromZero
<1> QED
  BY <1>1, <1>2, <1>3, <1>4 DEF CheckNames

(* A check that does not raise finds what there is to find. *)
LEMMA FindsOrRaises ==
  ASSUME NEW check, NEW r, NEW a
  PROVE  /\ CheckFindings(check, r, a) \subseteq Found(check, r, a)
         /\ \A f : f \in Found(check, r, a) /\ f \notin CheckFindings(check, r, a)
                   => Nameless(check, r) # {}
BY DEF CheckFindings, Raises

(* It is the answers that decide what a check finds. *)
LEMMA AllAnswered ==
  ASSUME NEW check, NEW r, NEW a \in [Requests(check, r) -> Outcomes],
         \A n \in Requests(check, r) : a[n] = "ok"
  PROVE  Found(check, r, a) = Expected(check, r)
<1>1. a = [n \in Requests(check, r) |-> "ok"]
  OBVIOUS
<1> QED
  BY <1>1, Zenon DEF Expected

LEMMA DependabotFinds ==
  ASSUME NEW r, NEW a, NEW f \in VulnerabilityFindings(r, a)
  PROVE  /\ f = Finding(<<>>, f.status) /\ f.about = <<>> /\ f.status \in Statuses
         /\ a[0] # "ok" => a[0] \in {"forbidden", "missing"} /\ f.status = "PASS"
BY DEF VulnerabilityFindings, UnavailableCodes, Finding, Statuses

LEMMA StaleFinds ==
  ASSUME NEW r, RepoOK(r), NEW a, NEW f \in StaleFindings(r, a)
  PROVE  /\ f = Finding(f.about, f.status) /\ f.about \in Seq(Nat) /\ f.status \in Statuses
         /\ a[0] = "ok"
<1>1. DOMAIN r.prs \subseteq Nat
  BY DEF RepoOK
<1>2. PICK n \in Nat : f = Finding(<<n>>, "WARN")
  BY <1>1 DEF StaleFindings
<1> QED
  BY <1>2 DEF StaleFindings, Finding, Statuses

LEMMA ConflictFinds ==
  ASSUME NEW r, RepoOK(r), NEW a, NEW f \in ConflictFindings(r, a)
  PROVE  /\ f = Finding(f.about, f.status) /\ f.about \in Seq(Nat) /\ f.status \in Statuses
         /\ a[0] = "ok"
         /\ \E n \in Inspected(r) :
              /\ a[n] = "ok" /\ r.prs[n].merge \in {"dirty", "behind"}
              /\ f = Finding(<<n>>, IF r.prs[n].merge = "dirty" THEN "FAIL" ELSE "WARN")
<1>1. Inspected(r) \subseteq Nat
  BY InspectedOk
<1>2. PICK n \in Inspected(r) :
        /\ a[n] = "ok" /\ r.prs[n].merge \in {"dirty", "behind"}
        /\ f = Finding(<<n>>, IF r.prs[n].merge = "dirty" THEN "FAIL" ELSE "WARN")
  BY DEF ConflictFindings
<1>3. n \in Nat
  BY <1>1
<1>4. a[0] = "ok"
  BY DEF ConflictFindings
<1>5. f.about = <<n>> /\ f.status \in Statuses /\ f = Finding(f.about, f.status)
  BY <1>2 DEF Finding, Statuses
<1>6. f.about \in Seq(Nat)
  BY <1>3, <1>5
<1> QED
  BY <1>2, <1>4, <1>5, <1>6, Zenon

LEMMA CoverageFinds ==
  ASSUME NEW r, NEW a, NEW f \in CoverageFindings(r, a)
  PROVE  f = Finding(<<>>, f.status) /\ f.about = <<>> /\ f.status \in Statuses
BY DEF CoverageFindings, Finding, Statuses

LEMMA PiiFinds ==
  ASSUME NEW r, RepoOK(r), NEW a, NEW f \in PiiFindings(r, a)
  PROVE  /\ f = Finding(f.about, f.status) /\ f.about \in Seq(Nat) /\ f.status \in Statuses
         /\ a[0] \in {"ok", "missing"} /\ \A n \in Fetched(r, a) : a[n] \in {"ok", "missing"}
<1>1. DOMAIN Scanned(r, a) \subseteq Nat
  <2> DEFINE more == SubSeq(r.python, 1, Least(MaxPyFiles, Len(r.python)))
  <2>a. /\ r.fixed \in Seq(Nat) /\ r.python \in Seq(Nat)
        /\ MaxPyFiles \in Nat /\ Len(r.python) \in Nat
    BY CapsOK DEF RepoOK
  <2>1. Least(MaxPyFiles, Len(r.python)) \in 0..Len(r.python)
    BY <2>a DEF Least
  <2>b. PICK top \in 0..Len(r.python) : top = Least(MaxPyFiles, Len(r.python))
    BY <2>1
  <2>c. \A i \in 1..top : r.python[i] \in Nat
    BY <2>a, <2>b
  <2>d. SubSeq(r.python, 1, top) \in Seq(Nat)
    BY <2>a, <2>b, <2>c, SubSeqProperties
  <2>2. more \in Seq(Nat) /\ << >> \in Seq(Nat)
    BY <2>b, <2>d
  <2> HIDE DEF more
  <2>3. Scanned(r, a) = r.fixed \o IF a[0] = "ok" THEN more ELSE <<>>
    BY DEF Scanned, more
  <2>4. Scanned(r, a) \in Seq(Nat)
    BY <2>a, <2>2, <2>3
  <2> QED
    BY <2>4
<1>2. Fetched(r, a) \subseteq Nat
  BY <1>1 DEF Fetched
<1>3. /\ a[0] \in {"ok", "missing"} /\ \A n \in Fetched(r, a) : a[n] \in {"ok", "missing"}
      /\ f \in UNION {{Finding(<<n, k>>, "WARN") :
                         k \in 1..Least(Scanned(r, a)[n], MaxHits - HitsBefore(r, a, n))} :
                      n \in {m \in Fetched(r, a) : a[m] = "ok"}}
  BY DEF PiiFindings
<1>4. PICK n \in Fetched(r, a) :
        f \in {Finding(<<n, k>>, "WARN") :
                 k \in 1..Least(Scanned(r, a)[n], MaxHits - HitsBefore(r, a, n))}
  BY <1>3
<1>b. \A x : 1..x \subseteq Nat
  OBVIOUS
<1>5. PICK k \in Nat : f = Finding(<<n, k>>, "WARN")
  BY <1>4, <1>b
<1>6. n \in Nat
  BY <1>2
<1>7. <<n, k>> \in Seq(Nat)
  BY <1>6
<1> QED
  BY <1>3, <1>5, <1>7 DEF Finding, Statuses

(* What there is for a check to find is a finding, and so is what it finds. *)
LEMMA FoundTyped ==
  ASSUME NEW check \in CheckNames, NEW r, RepoOK(r), NEW a,
         NEW f \in Found(check, r, a)
  PROVE  f = Finding(f.about, f.status) /\ f.about \in Seq(Nat) /\ f.status \in Statuses
<1>1. CASE check = "DEPENDABOT"
  <2>1. f \in VulnerabilityFindings(r, a)
    BY <1>1 DEF Found
  <2>2. << >> \in Seq(Nat)
    OBVIOUS
  <2> QED
    BY <2>1, <2>2, DependabotFinds
<1>2. CASE check = "STALE_PR"
  BY <1>2, StaleFinds DEF Found
<1>3. CASE check = "CONFLICT"
  BY <1>3, ConflictFinds DEF Found
<1>4. CASE check = "DEPLOY_WITHOUT_TEST"
  <2>1. f \in CoverageFindings(r, a)
    BY <1>4 DEF Found
  <2>2. << >> \in Seq(Nat)
    OBVIOUS
  <2> QED
    BY <2>1, <2>2, CoverageFinds
<1>5. CASE check = "PII"
  BY <1>5, PiiFinds DEF Found
<1> QED
  BY <1>1, <1>2, <1>3, <1>4, <1>5 DEF CheckNames

LEMMA CheckFindingsTyped ==
  ASSUME NEW check \in CheckNames, NEW r, RepoOK(r), NEW a,
         NEW f \in CheckFindings(check, r, a)
  PROVE  f = Finding(f.about, f.status) /\ f.about \in Seq(Nat) /\ f.status \in Statuses
BY FindsOrRaises, FoundTyped

(* A finding that a check would have made is missing only for want of an   *)
(* answer to a request that was about all of it or about that finding, or  *)
(* that raised what the check does not catch; or for want of an author.    *)
LEMMA MissingForWantOf ==
  ASSUME NEW check \in CheckNames, NEW r, RepoOK(r),
         NEW a \in [Requests(check, r) -> Outcomes],
         NEW f \in Expected(check, r), f \notin CheckFindings(check, r, a)
  PROVE  \/ Nameless(check, r) # {}
         \/ \E n \in Requests(check, r) :
              /\ a[n] # "ok"
              /\ n = 0 \/ check # "CONFLICT" \/ f.about = <<n>> \/ a[n] = "broken"
<1> SUFFICES ASSUME f \notin Found(check, r, a)
             PROVE  \E n \in Requests(check, r) :
                      /\ a[n] # "ok"
                      /\ n = 0 \/ check # "CONFLICT" \/ f.about = <<n>> \/ a[n] = "broken"
  BY FindsOrRaises
<1>1. CASE check # "CONFLICT"
  <2>1. \E n \in Requests(check, r) : a[n] # "ok"
    BY AllAnswered
  <2> QED
    BY <1>1, <2>1
<1>2. CASE check = "CONFLICT"
  <2>1. Requests(check, r) = {0} \cup Inspected(r)
    BY <1>2 DEF Requests
  <2>2. f \notin ConflictFindings(r, a)
    BY <1>2 DEF Found
  <2>3. f \in ConflictFindings(r, [n \in Requests(check, r) |-> "ok"])
    BY <1>2 DEF Found, Expected
  <2>4. PICK n \in Inspected(r) :
          /\ r.prs[n].merge \in {"dirty", "behind"}
          /\ f = Finding(<<n>>, IF r.prs[n].merge = "dirty" THEN "FAIL" ELSE "WARN")
    BY <2>3 DEF ConflictFindings
  <2>5. f.about = <<n>>
    BY <2>4 DEF Finding
  <2>6. a[0] # "ok" \/ (\E m \in Inspected(r) : a[m] = "broken") \/ a[n] # "ok"
    BY <2>2, <2>4 DEF ConflictFindings
  <2>7. CASE a[0] # "ok"
    BY <2>1, <2>7
  <2>8. CASE \E m \in Inspected(r) : a[m] = "broken"
    BY <2>1, <2>8
  <2>9. CASE a[n] # "ok"
    BY <2>1, <2>5, <2>9
  <2> QED
    BY <2>6, <2>7, <2>8, <2>9
<1> QED
  BY <1>1, <1>2

(* What GitHub's failing to answer may be read as. *)
Misread(check, f, outcome) ==
  \/ check = "DEPENDABOT" /\ f.status = "PASS" /\ outcome \in {"forbidden", "missing"}
  \/ check = "DEPLOY_WITHOUT_TEST" /\ f.status = "FAIL" /\ outcome = "missing"
  \/ check = "DEPLOY_WITHOUT_TEST" /\ f.status = "WARN" /\ outcome # "broken"
  \/ check = "PII" /\ outcome = "missing"

LEMMA CoverageMadeUp ==
  ASSUME NEW r, NEW a \in [{0, 1} -> Outcomes],
         NEW f \in CoverageFindings(r, a),
         f \notin CoverageFindings(r, [n \in {0, 1} |-> "ok"])
  PROVE  \E n \in {0, 1} : a[n] # "ok" /\ Misread("DEPLOY_WITHOUT_TEST", f, a[n])
<1> DEFINE b == [n \in {0, 1} |-> "ok"]
<1>1. b[0] = "ok" /\ b[1] = "ok"
  OBVIOUS
<1>2. CASE a[0] # "ok"
  <2>1. a[0] = "missing" /\ f.status = "FAIL"
    BY <1>2 DEF CoverageFindings, Finding
  <2> QED
    BY <2>1 DEF Misread
<1>3. CASE a[0] = "ok" /\ ~r.ci
  <2>1. f = Finding(<<>>, "FAIL")
    BY <1>3 DEF CoverageFindings
  <2>2. Finding(<<>>, "FAIL") \in CoverageFindings(r, b)
    BY <1>1, <1>3 DEF CoverageFindings
  <2> QED
    BY <2>1, <2>2
<1>4. CASE a[0] = "ok" /\ r.ci /\ a[1] = "ok"
  <2>1. a = b
    BY <1>4
  <2> QED
    BY <2>1
<1>5. CASE a[0] = "ok" /\ r.ci /\ a[1] # "ok"
  <2>1. a[1] # "broken" /\ f.status = "WARN"
    BY <1>5 DEF CoverageFindings, Finding
  <2> QED
    BY <1>5, <2>1 DEF Misread
<1> QED
  BY <1>2, <1>3, <1>4, <1>5

(* A check makes up a finding only from an answer it misreads, provided    *)
(* that only requests it makes are not answered.                           *)
LEMMA MadeUpFrom ==
  ASSUME NEW check \in CheckNames, NEW r, RepoOK(r),
         NEW a \in [Requests(check, r) -> Outcomes],
         {n \in Requests(check, r) : a[n] # "ok"} \subseteq Made(check, r, a),
         NEW f \in CheckFindings(check, r, a), f \notin Expected(check, r)
  PROVE  \E n \in Requests(check, r) : a[n] # "ok" /\ Misread(check, f, a[n])
<1>a. f \in Found(check, r, a)
  BY FindsOrRaises
<1>1. PICK n \in Requests(check, r) : a[n] # "ok"
  BY <1>a, AllAnswered
<1>2. CASE check = "DEPENDABOT"
  <2>1. f \in VulnerabilityFindings(r, a) /\ n = 0
    BY <1>a, <1>1, <1>2 DEF Found, Requests
  <2>2. a[0] \in {"forbidden", "missing"} /\ f.status = "PASS"
    BY <1>1, <2>1, DependabotFinds
  <2> QED
    BY <1>1, <1>2, <2>1, <2>2 DEF Misread
<1>3. CASE check = "STALE_PR"
  <2>1. f \in StaleFindings(r, a) /\ n = 0
    BY <1>a, <1>1, <1>3 DEF Found, Requests
  <2> QED
    BY <1>1, <2>1, StaleFinds
<1>4. CASE check = "CONFLICT"
  <2>1. f \in ConflictFindings(r, a) /\ Requests(check, r) = {0} \cup Inspected(r)
    BY <1>a, <1>4 DEF Found, Requests
  <2>2. PICK m \in Inspected(r) :
          /\ r.prs[m].merge \in {"dirty", "behind"}
          /\ f = Finding(<<m>>, IF r.prs[m].merge = "dirty" THEN "FAIL" ELSE "WARN")
    BY <2>1 DEF ConflictFindings
  <2> DEFINE b == [i \in {0} \cup Inspected(r) |-> "ok"]
  <2>3. \A i \in {0} \cup Inspected(r) : b[i] = "ok"
    OBVIOUS
  <2> HIDE DEF b
  <2>4. f \in ConflictFindings(r, b)
    BY <2>2, <2>3 DEF ConflictFindings
  <2>5. Expected(check, r) = ConflictFindings(r, b)
    BY <1>4, <2>1 DEF Found, Expected, b
  <2> QED
    BY <2>4, <2>5
<1>5. CASE check = "DEPLOY_WITHOUT_TEST"
  <2>1. Requests(check, r) = {0, 1} /\ f \in CoverageFindings(r, a)
    BY <1>a, <1>5 DEF Found, Requests
  <2>2. Expected(check, r) = CoverageFindings(r, [i \in {0, 1} |-> "ok"])
    BY <1>5, <2>1 DEF Found, Expected
  <2> QED
    BY <1>5, <2>1, <2>2, CoverageMadeUp
<1>6. CASE check = "PII"
  <2>1. f \in PiiFindings(r, a)
    BY <1>a, <1>6 DEF Found
  <2>2. a[0] \in {"ok", "missing"} /\ \A m \in Fetched(r, a) : a[m] \in {"ok", "missing"}
    BY <2>1, PiiFinds
  <2>3. n = 0 \/ n \in Fetched(r, a)
    BY <1>1, <1>6 DEF Made
  <2>4. a[n] = "missing"
    BY <1>1, <2>2, <2>3
  <2> QED
    BY <1>1, <1>6, <2>4 DEF Misread
<1> QED
  BY <1>2, <1>3, <1>4, <1>5, <1>6 DEF CheckNames

-----------------------------------------------------------------------------
(* The checks that ask the model. *)

LEMMA ModelFinds ==
  ASSUME NEW check, NEW pr, NEW o \in ModelOutcomes, NEW s \in ModelFindings(check, pr, o)
  PROVE  /\ s \in Statuses /\ Asked(check, pr)
         /\ o = "said" => s = ModelStatus(check, pr.verdict[check])
         /\ o # "said" => s = "UNKNOWN" \/ (check = "HITL" /\ s = "WARN")
<1>1. \A v : ModelStatus(check, v) \in Statuses
  BY DEF ModelStatus, Statuses
<1>2. Asked(check, pr) /\ s = ModelStatus(check, Verdict(o, pr.verdict[check]))
  BY DEF ModelFindings
<1>3. o = "said" => Verdict(o, pr.verdict[check]) = pr.verdict[check]
  BY DEF Verdict
<1>4. o # "said" => Verdict(o, pr.verdict[check]) \in {"unsure", "unlisted"}
  BY DEF Verdict, ModelOutcomes
<1>5. \A v \in {"unsure", "unlisted"} :
        ModelStatus(check, v) = "UNKNOWN" \/ (check = "HITL" /\ ModelStatus(check, v) = "WARN")
  BY DEF ModelStatus
<1> QED
  BY <1>1, <1>2, <1>3, <1>4, <1>5

(* A model that answers has the check find what it should. *)
LEMMA ModelSaid ==
  ASSUME NEW check, NEW pr, Asked(check, pr)
  PROVE  ModelStatus(check, pr.verdict[check]) \in ModelFindings(check, pr, "said")
BY DEF ModelFindings, Verdict

-----------------------------------------------------------------------------
(* A set of naturals that has a member has a least one. *)
LEMMA LeastNatural ==
  ASSUME NEW B \in SUBSET Nat, B # {}
  PROVE  \E m \in B : \A k \in B : m <= k
<1> DEFINE R == OpToRel(<, Nat)
<1>1. R = {p \in Nat \X Nat : p[1] < p[2]}
  BY DEF OpToRel
<1>2. IsWellFoundedOn(R, Nat)
  BY NatLessThanWellFounded
<1> HIDE DEF R
<1>3. PICK m \in B : \A k \in B : ~(<<k, m>> \in R)
  BY <1>2, WFMin
<1>4. \A x, y \in Nat : ~(<<y, x>> \in R) => x <= y
  BY <1>1
<1> QED
  BY <1>3, <1>4

Upto(S, place, f) == {g \in S : place[g] <= place[f]}

(* The places of a finite set, from 1 on, can be counted off one by one. *)
LEMMA NthExists ==
  ASSUME NEW S, IsFiniteSet(S), NEW top \in Nat, NEW place, \A f \in S : place[f] \in 1..top,
         \A f, g \in S : place[f] = place[g] => f = g,
         NEW n \in 1..Cardinality(S)
  PROVE  \E f \in S : Cardinality(Upto(S, place, f)) = n
<1> DEFINE Below(i) == {g \in S : place[g] <= i}
           B == {i \in Nat : Cardinality(Below(i)) >= n}
<1>1. \A i : IsFiniteSet(Below(i)) /\ Cardinality(Below(i)) \in Nat
  BY FS_Subset, FS_CardinalityType
<1>2. Below(top) = S
  OBVIOUS
<1>3. n \in Nat /\ n >= 1 /\ n <= Cardinality(S)
  BY FS_CardinalityType
<1>4. top \in B
  BY <1>2, <1>3
<1>5. PICK i \in B : \A k \in B : i <= k
  <2> HIDE DEF B
  <2>1. B \in SUBSET Nat
    BY DEF B
  <2> QED
    BY <1>4, <2>1, LeastNatural
<1>6. Below(0) = {}
  OBVIOUS
<1>7. i \in Nat /\ i # 0
  BY <1>3, <1>6, FS_EmptySet
<1>8. Cardinality(Below(i - 1)) < n /\ Cardinality(Below(i)) >= n
  <2> HIDE DEF Below
  <2>1. i - 1 \in Nat /\ i - 1 \notin B
    BY <1>5, <1>7
  <2> QED
    BY <1>1, <1>3, <1>5, <2>1
<1>9. ASSUME \A g \in S : place[g] # i PROVE FALSE
  <2>1. Below(i) = Below(i - 1)
    BY <1>7, <1>9
  <2> QED
    BY <1>1, <1>3, <1>5, <1>8, <2>1
<1>10. PICK f \in S : place[f] = i
  BY <1>9
<1>11. Below(i) = Below(i - 1) \cup {f} /\ f \notin Below(i - 1)
  BY <1>7, <1>10
<1>12. Cardinality(Below(i)) = Cardinality(Below(i - 1)) + 1
  <2> HIDE DEF Below
  <2> QED
    BY <1>1, <1>11, FS_AddElement
<1>13. Cardinality(Below(i)) = n
  <2> HIDE DEF Below, B
  <2> QED
    BY <1>1, <1>3, <1>8, <1>12
<1> QED
  BY <1>10, <1>13 DEF Upto

(* The listing without what is archived: the same repositories but those,  *)
(* and none twice that was not there twice.                                *)
LEMMA NotArchivedIs ==
  ASSUME NEW all \in Seq(Repos)
  PROVE  /\ NotArchived(all) \in Seq(Repos)
         /\ ToSet(NotArchived(all)) = {r \in ToSet(all) : ~world[r].archived}
         /\ IsInjective(all) => IsInjective(NotArchived(all))
<1> DEFINE kept == {i \in DOMAIN all : ~world[all[i]].archived}
           count(i) == Cardinality({j \in kept : j <= i})
           nth(n) == CHOOSE i \in kept : Cardinality({j \in kept : j <= i}) = n
<1>1. PICK top \in Nat : DOMAIN all = 1..top
  OBVIOUS
<1>2. kept \in SUBSET (1..top)
  BY <1>1
<1>3. IsFiniteSet(kept) /\ Cardinality(kept) \in Nat
  <2> HIDE DEF kept
  <2>1. IsFiniteSet(1..top)
    BY FS_Interval
  <2> QED
    BY <1>2, <2>1, FS_Subset, FS_CardinalityType
<1> HIDE DEF kept
<1>4. \A n \in 1..Cardinality(kept) : nth(n) \in kept /\ count(nth(n)) = n
  <2> SUFFICES ASSUME NEW n \in 1..Cardinality(kept)
               PROVE  \E i \in kept : count(i) = n
    OBVIOUS
  <2> DEFINE place == [i \in kept |-> i]
  <2>1. \A f \in kept : place[f] = f
    OBVIOUS
  <2>2. /\ \A f \in kept : place[f] \in 1..top
        /\ \A f, g \in kept : place[f] = place[g] => f = g
    BY <1>2, <2>1
  <2> HIDE DEF place
  <2>3. PICK i \in kept : Cardinality(Upto(kept, place, i)) = n
    BY <1>3, <2>2, NthExists
  <2>4. Upto(kept, place, i) = {j \in kept : j <= i}
    BY <2>1 DEF Upto
  <2> QED
    BY <2>3, <2>4
<1>5. \A i, k \in kept : count(i) = count(k) => i = k
  <2> SUFFICES ASSUME NEW i \in kept, NEW k \in kept, i < k, count(i) = count(k)
               PROVE  FALSE
    BY <1>2
  <2> DEFINE A == {j \in kept : j <= i}
             B == {j \in kept : j <= k}
  <2>a. \A j \in kept : j \in Int
    BY <1>2
  <2>b. k <= k /\ ~(k <= i) /\ \A j \in kept : j <= i => j <= k
    BY <2>a
  <2>1. A \in SUBSET B /\ k \in B /\ k \notin A /\ B \in SUBSET kept
    BY <2>b
  <2>2. Cardinality(A) = Cardinality(B)
    OBVIOUS
  <2> HIDE DEF A, B
  <2>3. IsFiniteSet(B)
    BY <1>3, <2>1, FS_Subset
  <2> QED
    BY <2>1, <2>2, <2>3, FS_Subset
<1>6. \A i \in kept : count(i) \in 1..Cardinality(kept)
  <2> SUFFICES ASSUME NEW i \in kept PROVE count(i) \in 1..Cardinality(kept)
    OBVIOUS
  <2> DEFINE A == {j \in kept : j <= i}
  <2>1. A \in SUBSET kept /\ i \in A
    BY <1>2
  <2> HIDE DEF A
  <2>2. IsFiniteSet(A) /\ Cardinality(A) \in Nat /\ Cardinality(A) <= Cardinality(kept)
    BY <1>3, <2>1, FS_Subset, FS_CardinalityType
  <2>3. Cardinality(A) # 0
    BY <2>1, <2>2, FS_EmptySet
  <2> QED
    BY <1>3, <2>2, <2>3 DEF A
<1>7. \A i \in kept : nth(count(i)) = i
  <2> SUFFICES ASSUME NEW i \in kept PROVE nth(count(i)) = i
    OBVIOUS
  <2>1. nth(count(i)) \in kept /\ count(nth(count(i))) = count(i)
    BY <1>4, <1>6
  <2> HIDE DEF nth, count
  <2> QED
    BY <1>5, <2>1
<1> DEFINE size == Cardinality(kept)
           made == [n \in 1..size |-> all[nth(n)]]
<1>8. NotArchived(all) = made
  BY DEF NotArchived, kept
<1> HIDE DEF nth, count
<1>9. size \in Nat
  BY <1>3
<1> HIDE DEF size
<1>10. \A n \in 1..size : nth(n) \in kept /\ count(nth(n)) = n
  BY <1>4 DEF size
<1>11. \A i \in kept : count(i) \in 1..size
  BY <1>6 DEF size
<1>12. \A i \in kept : i \in 1..top /\ all[i] \in Repos
  BY <1>1, <1>2
<1>13. made \in Seq(Repos) /\ DOMAIN made = 1..size
  BY <1>9, <1>10, <1>12
<1>14. \A n \in 1..size : made[n] = all[nth(n)]
  OBVIOUS
<1> HIDE DEF made
<1>15. ToSet(made) = {r \in ToSet(all) : ~world[r].archived}
  <2>1. ASSUME NEW n \in 1..size
        PROVE  made[n] \in ToSet(all) /\ ~world[made[n]].archived
    BY <1>10, <1>14 DEF kept, ToSet
  <2>2. ASSUME NEW r \in ToSet(all), ~world[r].archived
        PROVE  r \in ToSet(made)
    <3>1. PICK i \in kept : r = all[i]
      BY <2>2 DEF kept, ToSet
    <3>2. count(i) \in 1..size /\ made[count(i)] = r
      BY <1>7, <1>11, <1>14, <3>1
    <3> QED
      BY <1>13, <3>2 DEF ToSet
  <2> QED
    BY <1>13, <2>1, <2>2 DEF ToSet
<1>16. ASSUME IsInjective(all) PROVE IsInjective(made)
  <2> SUFFICES ASSUME NEW m \in 1..size, NEW n \in 1..size, made[m] = made[n]
               PROVE  m = n
    BY <1>13 DEF IsInjective
  <2>1. nth(m) = nth(n)
    BY <1>1, <1>10, <1>12, <1>14, <1>16 DEF IsInjective
  <2> QED
    BY <1>10, <2>1
<1> QED
  BY <1>8, <1>13, <1>15, <1>16

-----------------------------------------------------------------------------
(* The pages of the listing. *)

NextCovered == (page + 1) * PerPage

LEMMA Pages ==
  ASSUME page \in Nat
  PROVE  Covered \in Nat /\ PerPage \in Nat \ {0} /\ NextCovered = Covered + PerPage
<1>1. PerPage \in Nat \ {0}
  BY AuditBounds
<1> QED
  BY <1>1 DEF Covered, NextCovered

(* A page is what the organisation has at its places. *)
LEMMA PageIs ==
  ASSUME org \in Seq(Repos), page \in Nat
  PROVE  /\ PageItems \in Seq(Repos) /\ DOMAIN PageItems = 1..Len(PageItems)
         /\ \A i \in DOMAIN PageItems :
              Covered + i \in DOMAIN org /\ PageItems[i] = org[Covered + i]
         /\ \A k \in DOMAIN org :
              Covered < k /\ k <= Covered + PerPage => org[k] \in ToSet(PageItems)
         /\ \A i \in DOMAIN PageItems : i <= PerPage
         /\ LastPage => \A k \in DOMAIN org : k <= Covered + PerPage
<1>1. PICK c \in Nat : c = Covered
  BY Pages
<1>2. PICK p \in Nat \ {0} : p = PerPage
  BY Pages
<1>3. NextCovered = c + p
  BY <1>1, <1>2, Pages
<1>4. PICK n \in Nat : n = Len(org) /\ DOMAIN org = 1..n
  OBVIOUS
<1> DEFINE m == Least(n, c + p)
<1>5. PageItems = SubSeq(org, c + 1, m)
  BY <1>1, <1>3, <1>4 DEF PageItems, Covered, NextCovered
<1>6. m \in Nat /\ m <= n /\ m <= c + p /\ (m = n \/ m = c + p)
  BY <1>1, <1>2, <1>4 DEF Least
<1> HIDE DEF m
<1>7. c + 1 \in Int /\ \A i \in (c + 1)..m : org[i] \in Repos
  BY <1>1, <1>4, <1>6
<1>8. /\ SubSeq(org, c + 1, m) \in Seq(Repos)
      /\ Len(SubSeq(org, c + 1, m)) = IF c + 1 <= m THEN (m - (c + 1)) + 1 ELSE 0
      /\ \A i \in 1..((m - (c + 1)) + 1) :
           SubSeq(org, c + 1, m)[i] = org[((c + 1) + i) - 1]
  BY <1>6, <1>7, SubSeqProperties
<1>a. PageItems \in Seq(Repos)
  BY <1>5, <1>8
<1>9. PICK len \in Nat : len = Len(PageItems) /\ DOMAIN PageItems = 1..len
  BY <1>a
<1>10. len = IF c + 1 <= m THEN m - c ELSE 0
  BY <1>1, <1>5, <1>6, <1>8, <1>9
<1>11. \A i \in 1..len : PageItems[i] = org[c + i]
  <2> SUFFICES ASSUME NEW i \in 1..len PROVE PageItems[i] = org[c + i]
    OBVIOUS
  <2>1. i \in 1..((m - (c + 1)) + 1) /\ ((c + 1) + i) - 1 = c + i
    BY <1>1, <1>6, <1>10
  <2> QED
    BY <1>5, <1>8, <2>1
<1>12. \A i \in 1..len : c + i \in 1..n /\ i <= p
  <2>1. len = 0 \/ len = m - c
    BY <1>10
  <2> QED
    BY <1>1, <1>2, <1>4, <1>6, <1>9, <2>1
<1>13. ASSUME NEW k \in 1..n, c < k, k <= c + p
       PROVE  org[k] \in ToSet(PageItems)
  <2>1. k - c \in 1..len /\ c + (k - c) = k
    BY <1>1, <1>2, <1>4, <1>6, <1>10, <1>13
  <2>2. PageItems[k - c] = org[k]
    BY <1>11, <2>1
  <2> QED
    BY <1>9, <2>1, <2>2 DEF ToSet
<1>14. ASSUME len < p, NEW k \in 1..n PROVE k <= c + p
  BY <1>1, <1>2, <1>4, <1>6, <1>10, <1>14
<1> QED
  BY <1>1, <1>2, <1>4, <1>5, <1>8, <1>9, <1>11, <1>12, <1>13, <1>14 DEF LastPage

(* Concatenation, of sequences that have nothing twice and nothing in      *)
(* common.                                                                 *)
LEMMA ConcatSet ==
  ASSUME NEW s \in Seq(Repos), NEW t \in Seq(Repos)
  PROVE  /\ s \o t \in Seq(Repos)
         /\ ToSet(s \o t) = ToSet(s) \cup ToSet(t)
         /\ IsInjective(s) /\ IsInjective(t) /\ ToSet(s) \cap ToSet(t) = {}
              => IsInjective(s \o t)
<1>1. PICK m \in Nat : m = Len(s) /\ DOMAIN s = 1..m
  OBVIOUS
<1>2. PICK n \in Nat : n = Len(t) /\ DOMAIN t = 1..n
  OBVIOUS
<1>3. /\ s \o t \in Seq(Repos) /\ DOMAIN (s \o t) = 1..(m + n)
      /\ \A i \in 1..(m + n) : (s \o t)[i] = IF i <= m THEN s[i] ELSE t[i - m]
  BY <1>1, <1>2
<1> DEFINE u == s \o t
<1> HIDE DEF u
<1>4. /\ DOMAIN u = 1..(m + n)
      /\ \A i \in 1..(m + n) : u[i] = IF i <= m THEN s[i] ELSE t[i - m]
  BY <1>3 DEF u
<1>5. \A i \in 1..m : i \in 1..(m + n) /\ u[i] = s[i]
  BY <1>4
<1>6. \A i \in 1..n : m + i \in 1..(m + n) /\ u[m + i] = t[i]
  BY <1>4
<1>7. \A i \in 1..(m + n) :
        (i \in 1..m /\ u[i] = s[i]) \/ (i - m \in 1..n /\ ~(i <= m) /\ u[i] = t[i - m])
  BY <1>4
<1>8. ToSet(u) = ToSet(s) \cup ToSet(t)
  <2>1. \A x \in ToSet(s) : x \in ToSet(u)
    BY <1>1, <1>4, <1>5 DEF ToSet
  <2>2. \A x \in ToSet(t) : x \in ToSet(u)
    BY <1>2, <1>4, <1>6 DEF ToSet
  <2>3. \A x \in ToSet(u) : x \in ToSet(s) \/ x \in ToSet(t)
    BY <1>1, <1>2, <1>4, <1>7 DEF ToSet
  <2> QED
    BY <2>1, <2>2, <2>3
<1>a. \A i, j \in Int : i - m = j - m => i = j
  OBVIOUS
<1>9. ASSUME IsInjective(s), IsInjective(t), ToSet(s) \cap ToSet(t) = {}
      PROVE  IsInjective(u)
  <2> SUFFICES ASSUME NEW i \in 1..(m + n), NEW j \in 1..(m + n), u[i] = u[j]
               PROVE  i = j
    BY <1>4 DEF IsInjective
  <2>1. CASE i \in 1..m /\ u[i] = s[i] /\ j \in 1..m /\ u[j] = s[j]
    BY <1>1, <1>9, <2>1 DEF IsInjective
  <2>2. CASE i - m \in 1..n /\ u[i] = t[i - m] /\ j - m \in 1..n /\ u[j] = t[j - m]
    <3>1. i - m = j - m
      BY <1>2, <1>9, <2>2 DEF IsInjective
    <3> QED
      BY <3>1
  <2>3. CASE i \in 1..m /\ u[i] = s[i] /\ j - m \in 1..n /\ u[j] = t[j - m]
    BY <1>1, <1>2, <1>9, <2>3 DEF ToSet
  <2>4. CASE j \in 1..m /\ u[j] = s[j] /\ i - m \in 1..n /\ u[i] = t[i - m]
    BY <1>1, <1>2, <1>9, <2>4 DEF ToSet
  <2> QED
    BY <1>7, <2>1, <2>2, <2>3, <2>4
<1> QED
  BY <1>3, <1>8, <1>9 DEF u

(* What ListedSoFar says, of a listing up to the c-th place. *)
UpToPlace(l, c) ==
  /\ shifted # "created" =>
       /\ IsInjective(org) /\ IsInjective(l)
       /\ \A k \in DOMAIN org : k > c => org[k] \notin ToSet(l)
  /\ shifted = "no" => \A k \in DOMAIN org : k <= c => org[k] \in ToSet(l)
  /\ shifted = "created" => \A k \in DOMAIN org : k > 1 /\ k <= c => org[k] \in ToSet(l)

(* One page more. *)
LEMMA OnePageMore ==
  ASSUME org \in Seq(Repos), listing \in Seq(Repos), page \in Nat, UpToPlace(listing, Covered)
  PROVE  listing \o PageItems \in Seq(Repos) /\ UpToPlace(listing \o PageItems, NextCovered)
<1>1. PICK l : l = listing \o PageItems
  OBVIOUS
<1>2. /\ PageItems \in Seq(Repos)
      /\ \A i \in DOMAIN PageItems :
           Covered + i \in DOMAIN org /\ PageItems[i] = org[Covered + i]
      /\ \A k \in DOMAIN org :
           Covered < k /\ k <= Covered + PerPage => org[k] \in ToSet(PageItems)
      /\ \A i \in DOMAIN PageItems : i <= PerPage
  BY PageIs
<1>3. l \in Seq(Repos) /\ ToSet(l) = ToSet(listing) \cup ToSet(PageItems)
  BY <1>1, <1>2, ConcatSet
<1>4. PICK c \in Nat, p \in Nat : c = Covered /\ p = PerPage /\ NextCovered = c + p
  BY Pages
<1>5. DOMAIN org \subseteq Nat /\ DOMAIN PageItems \subseteq Nat \ {0}
  BY <1>2
<1>6. ASSUME shifted # "created"
      PROVE  IsInjective(l) /\ \A k \in DOMAIN org : k > c + p => org[k] \notin ToSet(l)
  <2>1. /\ IsInjective(org) /\ IsInjective(listing)
        /\ \A k \in DOMAIN org : k > c => org[k] \notin ToSet(listing)
    BY <1>4, <1>6 DEF UpToPlace
  <2>2. IsInjective(PageItems)
    <3> SUFFICES ASSUME NEW i \in DOMAIN PageItems, NEW j \in DOMAIN PageItems,
                        PageItems[i] = PageItems[j]
                 PROVE  i = j
      BY DEF IsInjective
    <3>1. c + i = c + j
      BY <1>2, <1>4, <2>1 DEF IsInjective
    <3> QED
      BY <1>4, <1>5, <3>1
  <2>3. \A i \in DOMAIN PageItems : PageItems[i] \notin ToSet(listing)
    <3> SUFFICES ASSUME NEW i \in DOMAIN PageItems PROVE PageItems[i] \notin ToSet(listing)
      OBVIOUS
    <3>1. c + i \in DOMAIN org /\ c + i > c /\ PageItems[i] = org[c + i]
      BY <1>2, <1>4, <1>5
    <3> QED
      BY <2>1, <3>1
  <2>4. ToSet(listing) \cap ToSet(PageItems) = {}
    BY <2>3 DEF ToSet
  <2>5. IsInjective(l)
    BY <1>1, <1>2, <2>1, <2>2, <2>4, ConcatSet
  <2>6. ASSUME NEW k \in DOMAIN org, k > c + p PROVE org[k] \notin ToSet(l)
    <3>1. k > c
      BY <1>4, <1>5, <2>6
    <3>2. \A i \in DOMAIN PageItems : PageItems[i] # org[k]
      <4> SUFFICES ASSUME NEW i \in DOMAIN PageItems, PageItems[i] = org[k] PROVE FALSE
        OBVIOUS
      <4>1. c + i \in DOMAIN org /\ PageItems[i] = org[c + i] /\ i <= p
        BY <1>2, <1>4
      <4>2. c + i = k
        BY <2>1, <4>1 DEF IsInjective
      <4> QED
        BY <1>4, <1>5, <2>6, <4>1, <4>2
    <3>3. org[k] \notin ToSet(PageItems)
      BY <3>2 DEF ToSet
    <3> QED
      BY <1>3, <2>1, <3>1, <3>3
  <2> QED
    BY <2>5, <2>6
<1>7. ASSUME NEW k \in DOMAIN org, k <= c + p, k <= c => org[k] \in ToSet(listing)
      PROVE  org[k] \in ToSet(l)
  BY <1>2, <1>3, <1>4, <1>5, <1>7
<1>8. ASSUME shifted = "no", NEW k \in DOMAIN org, k <= c + p PROVE org[k] \in ToSet(l)
  BY <1>4, <1>7, <1>8 DEF UpToPlace
<1>9. ASSUME shifted = "created", NEW k \in DOMAIN org, k > 1, k <= c + p
      PROVE  org[k] \in ToSet(l)
  BY <1>4, <1>7, <1>9 DEF UpToPlace
<1>10. shifted # "created" => IsInjective(org)
  BY DEF UpToPlace
<1>11. UpToPlace(l, c + p)
  BY <1>6, <1>8, <1>9, <1>10 DEF UpToPlace
<1> QED
  BY <1>1, <1>3, <1>4, <1>11

-----------------------------------------------------------------------------
(* Types, and the bound on failures. *)

LEMMA TypeParts ==
  TypeOK <=> Basic /\ PrintsTyped /\ FindingsTyped /\ Failures <= MaxFailures
BY DEF TypeOK, Basic, PrintsTyped, PrintSet, Marks, FindingsTyped, FindingsSet

(* The failing requests of a step are counted. *)
LEMMA MoreTrouble ==
  ASSUME IsFiniteSet(trouble), NEW failed, IsFiniteSet(failed), NEW g, DOMAIN g = failed,
         Failures + Cardinality(failed) <= MaxFailures,
         trouble' = trouble \cup {g[n] : n \in failed}
  PROVE  IsFiniteSet(trouble') /\ Failures' <= MaxFailures
<1> DEFINE T == {g[n] : n \in failed}
           h == [n \in failed |-> g[n]]
<1>1. h \in Surjection(failed, T)
  BY DEF Surjection
<1> HIDE DEF T, h
<1>2. IsFiniteSet(T) /\ Cardinality(T) <= Cardinality(failed)
  BY <1>1, FS_Surjection
<1>3. /\ Cardinality(trouble) \in Nat /\ Cardinality(failed) \in Nat /\ Cardinality(T) \in Nat
      /\ MaxFailures \in Nat
  BY <1>2, FS_CardinalityType, AuditBounds
<1>4. trouble \cap T \in SUBSET T
  OBVIOUS
<1>5. IsFiniteSet(trouble \cap T) /\ Cardinality(trouble \cap T) \in Nat
  BY <1>2, <1>4, FS_Subset, FS_CardinalityType
<1>6. /\ IsFiniteSet(trouble \cup T)
      /\ Cardinality(trouble \cup T) =
           Cardinality(trouble) + Cardinality(T) - Cardinality(trouble \cap T)
  BY <1>2, FS_Union
<1>7. trouble' = trouble \cup T
  BY DEF T
<1>8. Cardinality(trouble \cup T) <= MaxFailures
  BY <1>2, <1>3, <1>5, <1>6 DEF Failures
<1> QED
  BY <1>6, <1>7, <1>8 DEF Failures

(* A single one. *)
LEMMA OneMore ==
  ASSUME IsFiniteSet(trouble), Failures < MaxFailures, NEW t, trouble' = trouble \cup {t}
  PROVE  IsFiniteSet(trouble') /\ Failures' <= MaxFailures
<1>1. Cardinality(trouble) \in Nat /\ MaxFailures \in Nat
  BY FS_CardinalityType, AuditBounds
<1>2. /\ IsFiniteSet(trouble \cup {t})
      /\ Cardinality(trouble \cup {t}) =
           IF t \in trouble THEN Cardinality(trouble) ELSE Cardinality(trouble) + 1
  BY FS_AddElement
<1>3. Cardinality(trouble \cup {t}) <= MaxFailures
  BY <1>1, <1>2 DEF Failures
<1> QED
  BY <1>2, <1>3 DEF Failures

(* The repository the audit is at is one the world knows. *)
LEMMA RepoIsOk ==
  ASSUME Basic, at \in DOMAIN listing
  PROVE  listing[at] \in Repos /\ RepoOK(Repo)
<1>1. listing[at] \in Repos
  BY DEF Basic
<1> QED
  BY <1>1, WorldsOK DEF Basic, RepoOK, Repo

LEMMA StageFromIs ==
  ASSUME NEW i
  PROVE  StageFrom(i) \in {"checks", "sprawl", "done"}
BY DEF StageFrom

(* The number of the check is in the range of the checks. *)
LEMMA CheckAt ==
  ASSUME Basic, step <= Len(Checks)
  PROVE  Checks[step] \in CheckNames /\ step \in 1..5
<1>1. step \in 1..5
  BY Names DEF Basic
<1> QED
  BY <1>1, Names

LEMMA CountedStep ==
  ASSUME Basic, Control, TroubleCounted, Next
  PROVE  TroubleCounted'
<1>1. CASE UNCHANGED trouble
  BY <1>1 DEF TroubleCounted, Failures
<1>2. CASE ListPage
  <2>1. CASE Failures < MaxFailures /\ \E o : trouble' = trouble \cup {Failed("LIST", <<>>, o)}
    BY <2>1, OneMore DEF TroubleCounted
  <2> QED
    BY <1>1, <1>2, <2>1 DEF ListPage
<1>3. CASE RunCheck
  <2>1. stage = "checks" /\ step <= Len(Checks)
    BY <1>3 DEF RunCheck
  <2>2. at \in DOMAIN listing /\ Checks[step] \in CheckNames
    BY <2>1, CheckAt DEF Control
  <2>3. IsFiniteSet(Requests(Checks[step], Repo))
    BY <2>2, RepoIsOk, RequestsFinite
  <2>4. PICK a \in [Requests(Checks[step], Repo) -> Outcomes] :
          LET failed == {n \in DOMAIN a : a[n] # "ok"}
          IN /\ Failures + Cardinality(failed) <= MaxFailures
             /\ trouble' = trouble \cup
                  {Failed(Checks[step],
                          IF n = 0 \/ Checks[step] # "CONFLICT" THEN <<>> ELSE <<n>>, a[n])
                     : n \in failed}
    BY <1>3, Zenon DEF RunCheck
  <2> DEFINE failed == {n \in DOMAIN a : a[n] # "ok"}
             g == [n \in failed |->
                     Failed(Checks[step],
                            IF n = 0 \/ Checks[step] # "CONFLICT" THEN <<>> ELSE <<n>>, a[n])]
  <2>5. failed \in SUBSET Requests(Checks[step], Repo)
    OBVIOUS
  <2>6. IsFiniteSet(failed)
    BY <2>3, <2>5, FS_Subset
  <2>7. trouble' = trouble \cup {g[n] : n \in failed} /\ DOMAIN g = failed
    BY <2>4
  <2>8. Failures + Cardinality(failed) <= MaxFailures
    BY <2>4
  <2> HIDE DEF failed, g
  <2> QED
    BY <2>6, <2>7, <2>8, MoreTrouble DEF TroubleCounted
<1>4. CASE ListPrsForAi
  <2>1. CASE Failures < MaxFailures /\ \E o : trouble' = trouble \cup {Failed("AI LIST", <<>>, o)}
    BY <2>1, OneMore DEF TroubleCounted
  <2> QED
    BY <1>1, <1>4, <2>1 DEF ListPrsForAi
<1>5. CASE ContextFails
  <2>1. CASE /\ Failures < MaxFailures
             /\ trouble' = trouble \cup {Failed("AI CONTEXT", <<step>>, "error")}
    BY <2>1, OneMore DEF TroubleCounted
  <2> QED
    BY <1>1, <1>5, <2>1 DEF ContextFails
<1>6. CASE AskModel
  <2>1. PICK o \in [ToSet(ModelChecks) -> ModelOutcomes] :
          LET failed == {c \in DOMAIN o : o[c] # "said"}
          IN /\ Failures + Cardinality(failed) <= MaxFailures
             /\ trouble' = trouble \cup {Failed(c, <<step>>, o[c]) : c \in failed}
    BY <1>6, Zenon DEF AskModel
  <2> DEFINE failed == {c \in DOMAIN o : o[c] # "said"}
             g == [c \in failed |-> Failed(c, <<step>>, o[c])]
  <2>2. ToSet(ModelChecks) = ({"PLAN_BEFORE_SHIP"} \cup {"INFLATED_DIFF"}) \cup {"HITL"}
    BY Names DEF ModelNames
  <2>a. IsFiniteSet({"PLAN_BEFORE_SHIP"})
    BY FS_Singleton
  <2>b. IsFiniteSet({"PLAN_BEFORE_SHIP"} \cup {"INFLATED_DIFF"})
    BY <2>a, FS_AddElement
  <2>3. IsFiniteSet(ToSet(ModelChecks))
    BY <2>2, <2>b, FS_AddElement
  <2>4. failed \in SUBSET ToSet(ModelChecks)
    OBVIOUS
  <2>5. IsFiniteSet(failed)
    BY <2>3, <2>4, FS_Subset
  <2>6. trouble' = trouble \cup {g[n] : n \in failed} /\ DOMAIN g = failed
    BY <2>1
  <2>7. Failures + Cardinality(failed) <= MaxFailures
    BY <2>1
  <2> HIDE DEF failed, g
  <2> QED
    BY <2>5, <2>6, <2>7, MoreTrouble DEF TroubleCounted
<1>7. CASE TakeFingerprint
  <2>1. PICK a \in [0..2 -> Outcomes] :
          LET failed == {n \in 0..2 : a[n] # "ok"}
          IN /\ Failures + Cardinality(failed) <= MaxFailures
             /\ trouble' = trouble \cup {Failed("REPO_SPRAWL", <<n>>, a[n]) : n \in failed}
    BY <1>7, Zenon DEF TakeFingerprint
  <2> DEFINE failed == {n \in 0..2 : a[n] # "ok"}
             g == [n \in failed |-> Failed("REPO_SPRAWL", <<n>>, a[n])]
  <2>2. IsFiniteSet(0..2)
    BY FromZero
  <2>3. failed \in SUBSET (0..2)
    OBVIOUS
  <2>4. IsFiniteSet(failed)
    BY <2>2, <2>3, FS_Subset
  <2>5. trouble' = trouble \cup {g[n] : n \in failed} /\ DOMAIN g = failed
    BY <2>1
  <2>6. Failures + Cardinality(failed) <= MaxFailures
    BY <2>1
  <2> HIDE DEF failed, g
  <2> QED
    BY <2>4, <2>5, <2>6, MoreTrouble DEF TroubleCounted
<1>8. CASE Start \/ OrgChanges \/ ChecksDone \/ AiDone \/ ComparePairs
  BY <1>1, <1>8 DEF Start, OrgChanges, ChecksDone, AiDone, ComparePairs
<1> QED
  BY <1>2, <1>3, <1>4, <1>5, <1>6, <1>7, <1>8 DEF Next

-----------------------------------------------------------------------------
(* Where the audit is. *)

(* The organisation with one repository more, or one less. *)
LEMMA OneMoreRepository ==
  ASSUME org \in Seq(Repos), NEW r \in Repos
  PROVE  /\ <<r>> \o org \in Seq(Repos) /\ <<r>> \o org # <<>>
         /\ Tail(<<r>> \o org) = org
         /\ \A k \in DOMAIN (<<r>> \o org) :
              k > 1 => k - 1 \in DOMAIN org /\ (<<r>> \o org)[k] = org[k - 1]
<1>1. PICK n \in Nat : n = Len(org) /\ DOMAIN org = 1..n
  OBVIOUS
<1>2. << r >> \in Seq(Repos) /\ Len(<< r >>) = 1
  OBVIOUS
<1> DEFINE u == << r >> \o org
<1>3. /\ u \in Seq(Repos) /\ Len(u) = 1 + n
      /\ \A i \in 1..(1 + n) : u[i] = IF i <= 1 THEN << r >>[i] ELSE org[i - 1]
  BY <1>1, <1>2, ConcatProperties
<1> HIDE DEF u
<1>4. u # << >> /\ DOMAIN u = 1..(1 + n)
  BY <1>1, <1>3
<1>5. Tail(u) \in Seq(Repos) /\ Len(Tail(u)) = n /\ \A i \in 1..n : Tail(u)[i] = u[i + 1]
  BY <1>1, <1>3, <1>4, HeadTailProperties
<1>6. \A i \in 1..n : Tail(u)[i] = org[i]
  BY <1>1, <1>3, <1>5
<1>7. Tail(u) = org
  BY <1>1, <1>5, <1>6, SeqEqual
<1>8. \A k \in 1..(1 + n) : k > 1 => k - 1 \in 1..n /\ u[k] = org[k - 1]
  BY <1>1, <1>3
<1> QED
  BY <1>1, <1>3, <1>4, <1>7, <1>8 DEF u

LEMMA OneRepositoryLess ==
  ASSUME org \in Seq(Repos), Len(org) > 1
  PROVE  /\ Tail(org) \in Seq(Repos) /\ Tail(org) # <<>>
         /\ \A k \in DOMAIN Tail(org) :
              k \in Nat /\ k + 1 \in DOMAIN org /\ Tail(org)[k] = org[k + 1]
<1>1. PICK n \in Nat : n = Len(org) /\ DOMAIN org = 1..n /\ n > 1
  OBVIOUS
<1>2. org # << >>
  BY <1>1
<1>3. /\ Tail(org) \in Seq(Repos) /\ Len(Tail(org)) = n - 1
      /\ \A i \in 1..Len(Tail(org)) : Tail(org)[i] = org[i + 1]
  BY <1>1, <1>2, HeadTailProperties
<1>a. Tail(org) \in Seq(Repos) /\ Len(Tail(org)) = n - 1 /\ n - 1 # 0
  BY <1>1, <1>3
<1>4. DOMAIN Tail(org) = 1..(n - 1) /\ Tail(org) # << >>
  BY <1>a
<1>5. \A k \in 1..(n - 1) : k \in Nat /\ k + 1 \in 1..n
  BY <1>1
<1>6. \A k \in 1..(n - 1) : Tail(org)[k] = org[k + 1]
  BY <1>1, <1>3
<1> QED
  BY <1>1, <1>3, <1>4, <1>5, <1>6

(* The listing after a page. *)
LEMMA ListedIsSeq ==
  ASSUME Basic
  PROVE  /\ listing \o PageItems \in Seq(Repos)
         /\ NotArchived(listing \o PageItems) \in Seq(Repos)
<1>1. listing \o PageItems \in Seq(Repos)
  BY PageIs, ConcatSet DEF Basic
<1> QED
  BY <1>1, NotArchivedIs

LEMMA ListingIs ==
  ASSUME Basic
  PROVE  DOMAIN listing = 1..Len(listing) /\ Len(listing) \in Nat
BY DEF Basic

(* The next repository, or back to the first. *)
LEMMA OnToNext ==
  ASSUME Basic, at \in DOMAIN listing, UNCHANGED listing, NextRepository
  PROVE  /\ at' \in Nat \ {0} /\ step' = 1 /\ stage' \in {"checks", "sprawl", "done"}
         /\ stage' = "checks" => at' = at + 1 /\ at' \in DOMAIN listing'
         /\ stage' = "sprawl" => ~config.single
         /\ stage' # "checks" => at = Len(listing)
<1>1. DOMAIN listing = 1..Len(listing) /\ Len(listing) \in Nat
  BY ListingIs
<1>2. at + 1 <= Len(listing) => stage' = "checks" /\ at' = at + 1
  BY <1>1 DEF NextRepository, StageFrom
<1>3. ~(at + 1 <= Len(listing)) =>
        /\ stage' \in {"sprawl", "done"} /\ at' \in {1, at + 1} /\ at = Len(listing)
        /\ stage' = "sprawl" => ~config.single
  BY <1>1 DEF NextRepository, StageFrom, Sprawl
<1>4. step' = 1
  BY DEF NextRepository
<1>5. at + 1 \in Nat \ {0} /\ 1 \in Nat \ {0}
  BY DEF Basic
<1>6. DOMAIN listing' = 1..Len(listing)
  BY <1>1
<1>7. at + 1 <= Len(listing) => at + 1 \in 1..Len(listing)
  BY <1>1, <1>5
<1> QED
  BY <1>2, <1>3, <1>4, <1>5, <1>6, <1>7

LEMMA BasicKept ==
  ASSUME Basic, UNCHANGED << world, org, shifted >>, listing' \in Seq(Repos),
         stage' \in {"checks", "ai list", "ai", "sprawl", "done", "aborted"}, page' \in Nat,
         at' \in Nat \ {0}, step' \in Nat \ {0}
  PROVE  Basic'
BY DEF Basic, Stages

LEMMA ControlStep ==
  ASSUME Basic, Control, [Next]_vars
  PROVE  Basic' /\ Control'
<1>1. Basic
  OBVIOUS
<1>2. CASE UNCHANGED vars
  <2>1. Basic'
    BY <1>1, <1>2 DEF vars, Basic
  <2>2. Control'
    BY <1>2 DEF vars, Control
  <2> QED
    BY <2>1, <2>2
<1>3. CASE Start
  <2>a. org \in Seq(Repos) /\ org # << >>
    BY DEF Control, Basic
  <2>b. Len(org) \in Nat \ {0} /\ DOMAIN org = 1..Len(org)
    BY <2>a, EmptySeq, LenProperties
  <2>1. 1 \in DOMAIN org /\ org[1] \in Repos
    BY <2>a, <2>b
  <2>2. PICK x : x = org[1]
    OBVIOUS
  <2>3. << x >> \in Seq(Repos) /\ 1 \in DOMAIN << x >>
    BY <2>1, <2>2
  <2>4. \/ stage' = "aborted" /\ UNCHANGED listing
        \/ stage' = "checks" /\ listing' = << x >>
        \/ stage' = "list" /\ UNCHANGED listing /\ ~config.single
    BY <1>3, <2>2 DEF Start
  <2>5. /\ stage = "start"
        /\ UNCHANGED << world, org, config, page, at, step, prints, findings, shifted >>
    BY <1>3 DEF Start
  <2> QED
    BY <1>1, <2>3, <2>4, <2>5 DEF Control, Basic, Stages
<1>4. CASE ListPage
  <2>1. /\ stage = "list"
        /\ UNCHANGED << world, org, config, at, step, prints, findings, shifted >>
    BY <1>4 DEF ListPage
  <2>2. at = 1 /\ step = 1 /\ prints = << >> /\ findings = {} /\ ~config.single
    BY <2>1 DEF Control
  <2>3. listing \o PageItems \in Seq(Repos) /\ NotArchived(listing \o PageItems) \in Seq(Repos)
    BY <1>1, ListedIsSeq
  <2>4. CASE /\ stage' = StageFrom(1) /\ page' = page + 1
             /\ listing' = NotArchived(listing \o PageItems)
    <3>1. listing' \in Seq(Repos)
      BY <2>3, <2>4
    <3>2. stage' \in {"checks", "sprawl", "done"} /\ (stage' = "checks" => 1 \in DOMAIN listing')
      BY <2>4, <3>1 DEF StageFrom
    <3>a. Basic'
      <4>1. page' \in Nat /\ at' \in Nat \ {0} /\ step' \in Nat \ {0}
        BY <1>1, <2>1, <2>4 DEF Basic
      <4> QED
        BY <1>1, <2>1, <3>1, <3>2, <4>1, BasicKept
    <3>b. Control'
      BY <1>1, <2>1, <2>2, <2>4, <3>1, <3>2 DEF Control
    <3> QED
      BY <3>a, <3>b
  <2>5. CASE stage' = stage /\ page' = page + 1 /\ listing' = listing \o PageItems
    BY <1>1, <2>1, <2>2, <2>3, <2>5 DEF Control, Basic, Stages
  <2>6. CASE stage' = "aborted" /\ UNCHANGED << page, listing >>
    BY <1>1, <2>1, <2>2, <2>6 DEF Control, Basic, Stages
  <2> QED
    BY <1>4, <2>4, <2>5, <2>6 DEF ListPage
<1>5. CASE OrgChanges
  <2>1. /\ stage = "list"
        /\ UNCHANGED << world, config, stage, page, listing, at, step, prints, findings >>
        /\ shifted' \in {"created", "deleted"}
    BY <1>5 DEF OrgChanges
  <2>2. org' \in Seq(Repos) /\ org' # << >>
    BY <1>1, <1>5, OneMoreRepository, OneRepositoryLess DEF OrgChanges, Basic
  <2> QED
    BY <1>1, <2>1, <2>2 DEF Control, Basic
<1>6. CASE RunCheck
  <2>1. /\ stage = "checks" /\ step' = step + 1
        /\ UNCHANGED << world, org, config, stage, page, listing, at, prints, shifted >>
    BY <1>6 DEF RunCheck
  <2> QED
    BY <1>1, <2>1 DEF Control, Basic
<1>7. CASE ChecksDone
  <2>1. /\ stage = "checks"
        /\ UNCHANGED << world, org, config, page, listing, prints, findings, shifted >>
        /\ \/ config.ai /\ stage' = "ai list" /\ step' = 1 /\ UNCHANGED at
           \/ NextRepository
    BY <1>7 DEF ChecksDone
  <2>2. at \in DOMAIN listing /\ prints = << >>
    BY <2>1 DEF Control
  <2>3. CASE NextRepository
    <3>1. /\ at' \in Nat \ {0} /\ step' = 1 /\ stage' \in {"checks", "sprawl", "done"}
          /\ stage' = "checks" => at' \in DOMAIN listing'
          /\ stage' = "sprawl" => ~config.single
      BY <1>1, <2>1, <2>2, <2>3, OnToNext
    <3>a. Basic'
      <4>1. listing' \in Seq(Repos) /\ page' \in Nat
        BY <1>1, <2>1 DEF Basic
      <4>a. step' = 1
        BY <3>1
      <4>b. stage' \in {"checks", "ai list", "sprawl", "done"}
        BY <3>1
      <4>c. step' \in Nat \ {0}
        BY <4>a
      <4>2. stage' \in {"checks", "ai list", "ai", "sprawl", "done", "aborted"}
        BY <4>b
      <4> QED
        BY <1>1, <2>1, <3>1, <4>1, <4>2, <4>c, BasicKept
    <3>b. Control'
      BY <1>1, <2>1, <2>2, <3>1 DEF Control
    <3> QED
      BY <3>a, <3>b
  <2>4. CASE config.ai /\ stage' = "ai list" /\ step' = 1 /\ UNCHANGED at
    <3>a. Basic'
      <4>1. listing' \in Seq(Repos) /\ page' \in Nat /\ at' \in Nat \ {0}
        BY <1>1, <2>1, <2>4 DEF Basic
      <4>a. step' = 1
        BY <2>4
      <4>b. stage' \in {"checks", "ai list", "sprawl", "done"}
        BY <2>4
      <4>c. step' \in Nat \ {0}
        BY <4>a
      <4>2. stage' \in {"checks", "ai list", "ai", "sprawl", "done", "aborted"}
        BY <4>b
      <4> QED
        BY <1>1, <2>1, <4>1, <4>2, <4>c, BasicKept
    <3>b. Control'
      BY <2>1, <2>2, <2>4 DEF Control
    <3> QED
      BY <3>a, <3>b
  <2> QED
    BY <2>1, <2>3, <2>4
<1>8. CASE ListPrsForAi
  <2>1. /\ stage = "ai list" /\ stage' \in {"ai", "aborted"}
        /\ UNCHANGED << world, org, config, page, listing, at, step, prints, findings, shifted >>
    BY <1>8 DEF ListPrsForAi
  <2> QED
    BY <1>1, <2>1 DEF Control, Basic, Stages
<1>9. CASE ContextFails \/ AskModel
  <2>1. /\ stage = "ai" /\ step' = step + 1
        /\ UNCHANGED << world, org, config, stage, page, listing, at, prints, shifted >>
    BY <1>9 DEF ContextFails, AskModel
  <2> QED
    BY <1>1, <2>1 DEF Control, Basic
<1>10. CASE AiDone
  <2>1. /\ stage = "ai" /\ NextRepository
        /\ UNCHANGED << world, org, config, page, listing, prints, findings, shifted >>
    BY <1>10 DEF AiDone
  <2>2. at \in DOMAIN listing /\ prints = << >>
    BY <2>1 DEF Control
  <2>3. /\ at' \in Nat \ {0} /\ step' = 1 /\ stage' \in {"checks", "sprawl", "done"}
        /\ stage' = "checks" => at' \in DOMAIN listing'
        /\ stage' = "sprawl" => ~config.single
    BY <1>1, <2>1, <2>2, OnToNext
  <2>a. Basic'
    <3>1. listing' \in Seq(Repos) /\ page' \in Nat
      BY <1>1, <2>1 DEF Basic
    <3>a. step' = 1
      BY <2>3
    <3>b. stage' \in {"checks", "ai list", "sprawl", "done"}
      BY <2>3
    <3>c. step' \in Nat \ {0}
      BY <3>a
    <3>2. stage' \in {"checks", "ai list", "ai", "sprawl", "done", "aborted"}
      BY <3>b
    <3> QED
      BY <1>1, <2>1, <2>3, <3>1, <3>2, <3>c, BasicKept
  <2>b. Control'
    BY <1>1, <2>1, <2>2, <2>3 DEF Control
  <2> QED
    BY <2>a, <2>b
<1>11. CASE TakeFingerprint
  <2>1. /\ stage = "sprawl" /\ at' = at + 1
        /\ UNCHANGED << world, org, config, stage, page, listing, step, findings, shifted >>
    BY <1>11 DEF TakeFingerprint
  <2> QED
    BY <1>1, <2>1 DEF Control, Basic
<1>12. CASE ComparePairs
  <2>1. /\ stage = "sprawl" /\ stage' = "done"
        /\ UNCHANGED << world, org, config, page, listing, at, step, prints, shifted >>
    BY <1>12 DEF ComparePairs
  <2> QED
    BY <1>1, <2>1 DEF Control, Basic, Stages
<1> QED
  BY <1>2, <1>3, <1>4, <1>5, <1>6, <1>7, <1>8, <1>9, <1>10, <1>11, <1>12 DEF Next

-----------------------------------------------------------------------------
(* The listing. *)

(* Once the organisation is listed nothing changes it or the listing. *)
LEMMA ListedKept ==
  ASSUME ListedAll, UNCHANGED << world, org, config, listing, shifted >>,
         stage \in Auditing, stage' # "list"
  PROVE  ListedSoFar' /\ ListedAll'
<1>1. ListedSoFar'
  BY DEF ListedSoFar
<1>2. ListedAll'
  BY DEF ListedAll, Old
<1> QED
  BY <1>1, <1>2

LEMMA ListedSoFarIs == ListedSoFar <=> (stage = "list" => UpToPlace(listing, Covered))
BY DEF ListedSoFar, UpToPlace

(* The last page: all places of the organisation are covered. *)
LEMMA LastPageStep ==
  ASSUME Basic, Control, stage = "list", UpToPlace(listing, Covered), LastPage,
         listing' = NotArchived(listing \o PageItems),
         UNCHANGED << world, org, shifted >>
  PROVE  ListedAll'
<1>1. PICK l : l = listing \o PageItems
  OBVIOUS
<1>2. l \in Seq(Repos) /\ UpToPlace(l, NextCovered)
  BY <1>1, OnePageMore DEF Basic
<1>3. \A k \in DOMAIN org : k <= NextCovered
  BY PageIs, Pages DEF Basic
<1>4. /\ ToSet(listing') = {r \in ToSet(l) : ~world[r].archived}
      /\ IsInjective(l) => IsInjective(listing')
  BY <1>1, <1>2, NotArchivedIs
<1>5. ASSUME shifted # "deleted"
      PROVE  {r \in Old : ~world[r].archived} \subseteq ToSet(listing')
  <2> SUFFICES ASSUME NEW r \in Old, ~world[r].archived PROVE r \in ToSet(l)
    BY <1>4
  <2>1. CASE shifted = "created"
    <3>1. r \in ToSet(Tail(org))
      BY <2>1 DEF Old
    <3>2. PICK j \in DOMAIN Tail(org) : r = Tail(org)[j]
      BY <3>1 DEF ToSet
    <3>3. org \in Seq(Repos) /\ org # << >>
      BY DEF Basic, Control
    <3>4. /\ Tail(org) \in Seq(Repos) /\ Len(Tail(org)) = Len(org) - 1
          /\ \A i \in 1..Len(Tail(org)) : Tail(org)[i] = org[i + 1]
      BY <3>3, HeadTailProperties
    <3>5. PICK n \in Nat : n = Len(org) /\ DOMAIN org = 1..n
      BY <3>3
    <3>6. DOMAIN Tail(org) = 1..(n - 1)
      BY <3>4, <3>5
    <3>7. j + 1 \in DOMAIN org /\ r = org[j + 1] /\ j + 1 > 1
      BY <3>2, <3>4, <3>5, <3>6
    <3> QED
      BY <1>2, <1>3, <2>1, <3>7 DEF UpToPlace
  <2>2. CASE shifted = "no"
    <3>1. PICK k \in DOMAIN org : r = org[k]
      BY <2>2 DEF Old, ToSet
    <3> QED
      BY <1>2, <1>3, <2>2, <3>1 DEF UpToPlace
  <2> QED
    BY <1>5, <2>1, <2>2 DEF Basic
<1>6. shifted # "created" => IsInjective(l)
  BY <1>2 DEF UpToPlace
<1>7. Old' = Old
  BY DEF Old
<1> QED
  BY <1>4, <1>5, <1>6, <1>7 DEF ListedAll

LEMMA ListedStep ==
  ASSUME Basic, Control, ListedSoFar, ListedAll, [Next]_vars
  PROVE  ListedSoFar' /\ ListedAll'
<1>1. CASE UNCHANGED vars
  BY <1>1 DEF vars, ListedSoFar, ListedAll, Old, Covered
<1>2. CASE stage' = "aborted"
  BY <1>2 DEF ListedSoFar, ListedAll, Auditing
<1>3. CASE Start
  <2>1. CASE stage' = "checks"
    <3>1. config.single /\ UNCHANGED config
      BY <1>3, <2>1 DEF Start
    <3> QED
      BY <2>1, <3>1 DEF ListedSoFar, ListedAll
  <2>2. CASE stage' = "list"
    <3>1. /\ listing' = << >> /\ page' = 0 /\ shifted' = "no" /\ IsInjective(org) /\ org' = org
          /\ UNCHANGED << page, shifted >>
      BY <1>3, <2>2 DEF Start, Control
    <3>2. Covered' = 0
      BY <3>1, Pages DEF Covered, Basic
    <3>3. \A k \in DOMAIN org : k \in Nat /\ ~(k <= 0)
      BY DEF Basic
    <3>4. ToSet(<< >>) = {} /\ IsInjective(<< >>)
      BY DEF ToSet, IsInjective
    <3>5. ListedSoFar'
      BY <3>1, <3>2, <3>3, <3>4 DEF ListedSoFar
    <3> QED
      BY <2>2, <3>5 DEF ListedAll, Auditing
  <2> QED
    BY <1>2, <1>3, <2>1, <2>2 DEF Start
<1>4. CASE ListPage
  <2>1. stage = "list" /\ UNCHANGED << world, org, config, shifted >>
    BY <1>4 DEF ListPage
  <2>2. UpToPlace(listing, Covered)
    BY <2>1, ListedSoFarIs
  <2>3. CASE LastPage /\ listing' = NotArchived(listing \o PageItems) /\ stage' = StageFrom(1)
    <3>1. ListedAll'
      BY <2>1, <2>2, <2>3, LastPageStep
    <3>2. stage' # "list"
      BY <2>3, StageFromIs
    <3> QED
      BY <3>1, <3>2 DEF ListedSoFar
  <2>4. CASE listing' = listing \o PageItems /\ page' = page + 1 /\ UNCHANGED stage
    <3>1. UpToPlace(listing \o PageItems, NextCovered)
      BY <2>2, OnePageMore DEF Basic
    <3>2. Covered' = NextCovered
      BY <2>4 DEF Covered, NextCovered
    <3>3. ListedSoFar'
      BY <2>1, <2>4, <3>1, <3>2 DEF ListedSoFar, UpToPlace
    <3> QED
      BY <2>1, <2>4, <3>3 DEF ListedAll, Auditing
  <2> QED
    BY <1>2, <1>4, <2>3, <2>4 DEF ListPage
<1>5. CASE OrgChanges
  <2>1. /\ stage = "list" /\ stage' = "list" /\ shifted = "no"
        /\ UNCHANGED << listing, page >>
    BY <1>5 DEF OrgChanges
  <2>2. UpToPlace(listing, Covered)
    BY <2>1, ListedSoFarIs
  <2>3. PICK c \in Nat : c = Covered /\ Covered' = c
    BY <2>1, Pages DEF Covered, Basic
  <2>4. /\ IsInjective(org) /\ IsInjective(listing)
        /\ \A k \in DOMAIN org : k > c => org[k] \notin ToSet(listing)
        /\ \A k \in DOMAIN org : k <= c => org[k] \in ToSet(listing)
    BY <2>1, <2>2, <2>3 DEF UpToPlace
  <2>5. org \in Seq(Repos)
    BY DEF Basic
  <2>6. CASE (\E r \in Repos : org' = << r >> \o org) /\ shifted' = "created"
    <3>1. \A k \in DOMAIN org' : k > 1 => k - 1 \in DOMAIN org /\ org'[k] = org[k - 1]
      BY <2>5, <2>6, OneMoreRepository
    <3>2. DOMAIN org' \subseteq Nat
      BY <2>5, <2>6, OneMoreRepository
    <3>3. \A k \in DOMAIN org' : k > 1 /\ k <= c => org'[k] \in ToSet(listing)
      BY <2>3, <2>4, <3>1, <3>2
    <3>4. ListedSoFar'
      BY <2>1, <2>3, <2>6, <3>3 DEF ListedSoFar
    <3> QED
      BY <2>1, <3>4 DEF ListedAll, Auditing
  <2>7. CASE Len(org) > 1 /\ org' = Tail(org) /\ shifted' = "deleted"
    <3>1. \A k \in DOMAIN org' : k \in Nat /\ k + 1 \in DOMAIN org /\ org'[k] = org[k + 1]
      BY <2>5, <2>7, OneRepositoryLess
    <3>2. \A k \in DOMAIN org' : k > c => org'[k] \notin ToSet(listing)
      BY <2>3, <2>4, <3>1
    <3>3. IsInjective(org')
      <4> SUFFICES ASSUME NEW i \in DOMAIN org', NEW j \in DOMAIN org', org'[i] = org'[j]
                   PROVE  i = j
        BY DEF IsInjective
      <4>1. i + 1 = j + 1
        BY <2>4, <3>1 DEF IsInjective
      <4> QED
        BY <3>1, <4>1
    <3>4. ListedSoFar'
      BY <2>1, <2>3, <2>4, <2>7, <3>2, <3>3 DEF ListedSoFar
    <3> QED
      BY <2>1, <3>4 DEF ListedAll, Auditing
  <2> QED
    BY <1>5, <2>6, <2>7 DEF OrgChanges
<1>6. CASE RunCheck \/ ContextFails \/ AskModel \/ TakeFingerprint \/ ComparePairs
  <2>1. /\ UNCHANGED << world, org, config, listing, shifted >>
        /\ stage \in Auditing /\ stage' # "list"
    BY <1>6 DEF RunCheck, ContextFails, AskModel, TakeFingerprint, ComparePairs, Auditing
  <2> QED
    BY <2>1, ListedKept
<1>7. CASE ChecksDone \/ ListPrsForAi \/ AiDone
  <2>1. \A i : StageFrom(i) # "list"
    BY StageFromIs
  <2>2. /\ UNCHANGED << world, org, config, listing, shifted >>
        /\ stage \in Auditing /\ stage' # "list"
    BY <1>7, <2>1 DEF ChecksDone, ListPrsForAi, AiDone, NextRepository, Auditing
  <2> QED
    BY <2>2, ListedKept
<1> QED
  BY <1>1, <1>3, <1>4, <1>5, <1>6, <1>7 DEF Next

-----------------------------------------------------------------------------
(* The fingerprints. *)

LEMMA FingerprintTyped ==
  ASSUME Basic, at \in DOMAIN listing, NEW a
  PROVE  Fingerprint(Repo, a) \in [ToSet(Signals) -> Marks]
<1>1. listing[at] \in Repos
  BY RepoIsOk
<1>2. \A s \in ToSet(Signals) : Repo[s] \in Marks /\ Bare \in Marks
  BY <1>1 DEF Repo, Marks
<1> QED
  BY <1>2 DEF Fingerprint

LEMMA PrintsStep ==
  ASSUME Basic, Control, PrintsTyped, PrintsInOrder, [Next]_vars
  PROVE  PrintsTyped' /\ PrintsInOrder'
<1>1. CASE UNCHANGED vars
  BY <1>1 DEF vars, PrintsTyped, PrintSet, Marks, PrintsInOrder
<1>2. CASE prints' = << >>
  <2>1. prints' \in Seq(PrintSet')
    BY <1>2, EmptySeq
  <2>2. DOMAIN prints' = {}
    BY <1>2
  <2> QED
    BY <2>1, <2>2 DEF PrintsTyped, PrintsInOrder
<1>3. CASE TakeFingerprint
  <2>1. /\ stage = "sprawl" /\ at' = at + 1 /\ at <= Least(SprawlSample, Len(listing))
        /\ UNCHANGED << world, listing, stage >>
    BY <1>3 DEF TakeFingerprint
  <2>2. DOMAIN listing = 1..Len(listing) /\ Len(listing) \in Nat /\ at \in Nat \ {0}
    BY ListingIs DEF Basic
  <2>3. SprawlSample \in Nat
    BY AuditBounds
  <2>4. at \in DOMAIN listing
    BY <2>1, <2>2, <2>3 DEF Least
  <2>5. PICK p : /\ p \in PrintSet /\ p.at = at
                 /\ prints' = prints \/ prints' = Append(prints, p)
    <3>1. PICK a : \/ prints' = prints
                   \/ prints' = Append(prints, [at |-> at, of |-> Fingerprint(Repo, a)])
      BY <1>3 DEF TakeFingerprint
    <3>2. [at |-> at, of |-> Fingerprint(Repo, a)] \in PrintSet
      BY <2>4, FingerprintTyped DEF PrintSet
    <3> QED
      BY <3>1, <3>2
  <2>6. prints \in Seq(PrintSet) /\ PrintSet' = PrintSet
    BY <2>1 DEF PrintsTyped, PrintSet, Marks
  <2>7. PICK n \in Nat : DOMAIN prints = 1..n /\ n = Len(prints)
    BY <2>6
  <2>8. /\ \A k \in 1..n : prints[k].at \in Nat /\ prints[k].at < at
        /\ \A j, k \in 1..n : j < k => prints[j].at < prints[k].at
    <3>1. \A k \in 1..n : prints[k] \in PrintSet
      BY <2>6, <2>7
    <3>2. \A q \in PrintSet : q.at \in Nat
      BY <2>2 DEF PrintSet
    <3> QED
      BY <2>1, <2>7, <3>1, <3>2 DEF PrintsInOrder
  <2>9. CASE prints' = prints
    <3>1. \A k \in 1..n : prints[k].at < at + 1
      BY <2>2, <2>8
    <3> QED
      BY <2>1, <2>6, <2>7, <2>8, <2>9, <3>1 DEF PrintsTyped, PrintsInOrder
  <2>10. CASE prints' = Append(prints, p)
    <3>1. /\ prints' \in Seq(PrintSet) /\ DOMAIN prints' = 1..(n + 1)
          /\ \A k \in 1..n : prints'[k] = prints[k]
          /\ prints'[n + 1] = p
      BY <2>5, <2>6, <2>7, <2>10, AppendProperties
    <3>2. \A k \in 1..(n + 1) : prints'[k].at < at + 1
      BY <2>2, <2>5, <2>8, <3>1
    <3>3. \A j, k \in 1..(n + 1) : j < k => prints'[j].at < prints'[k].at
      <4> SUFFICES ASSUME NEW j \in 1..(n + 1), NEW k \in 1..(n + 1), j < k
                   PROVE  prints'[j].at < prints'[k].at
        OBVIOUS
      <4>1. j \in 1..n
        OBVIOUS
      <4>2. CASE k \in 1..n
        BY <2>8, <3>1, <4>1, <4>2
      <4>3. CASE k = n + 1
        BY <2>5, <2>8, <3>1, <4>1, <4>3
      <4> QED
        BY <4>2, <4>3
    <3> QED
      BY <2>1, <2>6, <3>1, <3>2, <3>3 DEF PrintsTyped, PrintsInOrder
  <2> QED
    BY <2>5, <2>9, <2>10
<1>4. CASE ComparePairs
  <2>1. stage' = "done" /\ UNCHANGED << world, listing, prints >>
    BY <1>4 DEF ComparePairs
  <2> QED
    BY <2>1 DEF PrintsTyped, PrintSet, Marks, PrintsInOrder
<1>5. CASE Start \/ ListPage \/ OrgChanges \/ RunCheck \/ ChecksDone \/ ListPrsForAi
            \/ ContextFails \/ AskModel \/ AiDone
  <2>1. prints' = prints /\ stage \in {"start", "list", "checks", "ai list", "ai"}
    BY <1>5 DEF Start, ListPage, OrgChanges, RunCheck, ChecksDone, ListPrsForAi, ContextFails,
                AskModel, AiDone
  <2> QED
    BY <1>2, <2>1 DEF Control
<1> QED
  BY <1>1, <1>3, <1>4, <1>5 DEF Next

-----------------------------------------------------------------------------
(* What the steps that report do. *)

Check == Checks[step]
Skipped == Check = "PII" /\ ~config.pii
AboutRequest(n) == IF n = 0 \/ Check # "CONFLICT" THEN <<>> ELSE <<n>>

LEMMA RunCheckIs ==
  ASSUME Basic, Control, RunCheck
  PROVE  /\ stage = "checks" /\ at \in DOMAIN listing /\ Check \in CheckNames /\ RepoOK(Repo)
         /\ UNCHANGED << world, org, config, stage, page, listing, at, prints, shifted >>
         /\ step' = step + 1
         /\ \E a \in [Requests(Check, Repo) -> Outcomes] :
              /\ ~Skipped => {n \in Requests(Check, Repo) : a[n] # "ok"} \subseteq
                               Made(Check, Repo, a)
              /\ trouble \subseteq trouble'
              /\ \A n \in Requests(Check, Repo) :
                   a[n] # "ok" => Failed(Check, AboutRequest(n), a[n]) \in trouble'
              /\ findings' = findings \cup
                   Report(Check, IF Skipped THEN {} ELSE CheckFindings(Check, Repo, a))
<1>1. /\ stage = "checks" /\ step <= Len(Checks) /\ step' = step + 1
      /\ UNCHANGED << world, org, config, stage, page, listing, at, prints, shifted >>
  BY DEF RunCheck
<1>2. at \in DOMAIN listing /\ Check \in CheckNames /\ RepoOK(Repo)
  BY <1>1, CheckAt, RepoIsOk DEF Control, Check
<1>3. PICK a \in [Requests(Checks[step], Repo) -> Outcomes] :
        LET check == Checks[step]
            skipped == check = "PII" /\ ~config.pii
            made == IF skipped THEN {} ELSE Made(check, Repo, a)
            failed == {n \in DOMAIN a : a[n] # "ok"}
            found == IF skipped THEN {} ELSE CheckFindings(check, Repo, a)
        IN /\ failed \subseteq made
           /\ trouble' = trouble \cup
                {Failed(check, IF n = 0 \/ check # "CONFLICT" THEN <<>> ELSE <<n>>, a[n])
                   : n \in failed}
           /\ findings' = findings \cup Report(check, found)
  BY Zenon DEF RunCheck
<1>4. a \in [Requests(Check, Repo) -> Outcomes] /\ DOMAIN a = Requests(Check, Repo)
  BY <1>3 DEF Check
<1>5. ~Skipped => {n \in DOMAIN a : a[n] # "ok"} \subseteq Made(Check, Repo, a)
  BY <1>3 DEF Check, Skipped
<1>6. trouble' = trouble \cup {Failed(Check, AboutRequest(n), a[n]) :
                                 n \in {m \in DOMAIN a : a[m] # "ok"}}
  BY <1>3 DEF Check, AboutRequest
<1>7. findings' = findings \cup
        Report(Check, IF Skipped THEN {} ELSE CheckFindings(Check, Repo, a))
  BY <1>3, Zenon DEF Check, Skipped
<1> QED
  BY <1>1, <1>2, <1>4, <1>5, <1>6, <1>7

LEMMA SampledIs ==
  ASSUME Basic, at \in DOMAIN listing
  PROVE  /\ Least(AiPrSample, Len(Repo.prs)) \in Nat
         /\ Sampled = 1..Least(AiPrSample, Len(Repo.prs))
<1>1. Len(Repo.prs) \in Nat
  BY RepoIsOk DEF RepoOK
<1>2. AiPrSample \in Nat
  BY AuditBounds
<1> QED
  BY <1>1, <1>2 DEF Sampled, Least

LEMMA AskModelIs ==
  ASSUME Basic, Control, AskModel
  PROVE  /\ stage = "ai" /\ at \in DOMAIN listing /\ step \in Sampled /\ step' = step + 1
         /\ UNCHANGED << world, org, config, stage, page, listing, at, prints, shifted >>
         /\ \E o \in [ModelNames -> ModelOutcomes] :
              /\ trouble \subseteq trouble'
              /\ \A c \in ModelNames :
                   o[c] # "said" => Failed(c, << step >>, o[c]) \in trouble'
              /\ findings \subseteq findings'
              /\ \A f : f \in findings' <=> f \in findings \/ \E c \in ModelNames :
                   \E s \in ModelFindings(c, Repo.prs[step], o[c]) :
                     f = [at |-> at, check |-> c, about |-> << step >>, status |-> s]
<1>1. /\ stage = "ai" /\ step \in Sampled /\ step' = step + 1
      /\ UNCHANGED << world, org, config, stage, page, listing, at, prints, shifted >>
  BY DEF AskModel
<1>2. PICK o \in [ToSet(ModelChecks) -> ModelOutcomes] :
        LET pr == Repo.prs[step]
            failed == {c \in DOMAIN o : o[c] # "said"}
        IN /\ trouble' = trouble \cup {Failed(c, <<step>>, o[c]) : c \in failed}
           /\ findings' = findings \cup
                UNION {Report(c, {Finding(<<step>>, s) : s \in ModelFindings(c, pr, o[c])})
                         : c \in DOMAIN o}
  BY Zenon DEF AskModel
<1>3. o \in [ModelNames -> ModelOutcomes] /\ DOMAIN o = ModelNames
  BY <1>2, Names
<1>4. ASSUME NEW c, NEW S, NEW f
      PROVE  f \in Report(c, {Finding(<<step>>, s) : s \in S}) <=>
               \E s \in S : f = [at |-> at, check |-> c, about |-> << step >>, status |-> s]
  <2>1. \A s : Finding(<<step>>, s).about = << step >> /\ Finding(<<step>>, s).status = s
    BY DEF Finding
  <2> DEFINE G == {Finding(<<step>>, s) : s \in S}
  <2>2. \A g \in G : \E s \in S : g = Finding(<<step>>, s)
    OBVIOUS
  <2>3. \A s \in S : Finding(<<step>>, s) \in G
    OBVIOUS
  <2> HIDE DEF G
  <2>4. f \in Report(c, G) <=>
          \E g \in G : f = [at |-> at, check |-> c, about |-> g.about, status |-> g.status]
    BY DEF Report
  <2>5. f \in Report(c, G) <=>
          \E s \in S : f = [at |-> at, check |-> c, about |-> << step >>, status |-> s]
    BY <2>1, <2>2, <2>3, <2>4
  <2> QED
    BY <2>5 DEF G
<1>5. trouble' = trouble \cup {Failed(c, <<step>>, o[c]) : c \in {d \in ModelNames : o[d] # "said"}}
  BY <1>2, <1>3
<1>6. \A f : f \in findings' <=> f \in findings \/ \E c \in ModelNames :
        f \in Report(c, {Finding(<<step>>, s) : s \in ModelFindings(c, Repo.prs[step], o[c])})
  BY <1>2, <1>3
<1>7. \A f : f \in findings' <=> f \in findings \/ \E c \in ModelNames :
        \E s \in ModelFindings(c, Repo.prs[step], o[c]) :
          f = [at |-> at, check |-> c, about |-> << step >>, status |-> s]
  <2> SUFFICES ASSUME NEW f
               PROVE  f \in findings' <=> f \in findings \/ \E c \in ModelNames :
                        \E s \in ModelFindings(c, Repo.prs[step], o[c]) :
                          f = [at |-> at, check |-> c, about |-> << step >>, status |-> s]
    OBVIOUS
  <2> DEFINE In(c) ==
        f \in Report(c, {Finding(<<step>>, s) : s \in ModelFindings(c, Repo.prs[step], o[c])})
  <2>1. \A c : In(c) <=> \E s \in ModelFindings(c, Repo.prs[step], o[c]) :
                          f = [at |-> at, check |-> c, about |-> << step >>, status |-> s]
    BY <1>4, Zenon
  <2>2. f \in findings' <=> f \in findings \/ \E c \in ModelNames : In(c)
    BY <1>6, Zenon
  <2> HIDE DEF In
  <2> QED
    BY <2>1, <2>2
<1>9. findings \subseteq findings'
  BY <1>6
<1>8. at \in DOMAIN listing
  BY <1>1 DEF Control
<1> QED
  BY <1>1, <1>3, <1>5, <1>7, <1>8, <1>9

(* Only these three report anything. *)
LEMMA OthersReportNothing ==
  ASSUME Next, findings' # findings
  PROVE  RunCheck \/ AskModel \/ ComparePairs
<1>1. CASE Start \/ ListPage \/ OrgChanges \/ ChecksDone \/ ListPrsForAi \/ ContextFails
            \/ AiDone \/ TakeFingerprint
  BY <1>1 DEF Start, ListPage, OrgChanges, ChecksDone, ListPrsForAi, ContextFails, AiDone,
              TakeFingerprint
<1> QED
  BY <1>1 DEF Next

LEMMA TroubleGrows ==
  ASSUME Next
  PROVE  trouble \subseteq trouble'
<1>1. CASE Start \/ ListPage \/ OrgChanges \/ ChecksDone \/ ListPrsForAi \/ ContextFails
            \/ AiDone \/ ComparePairs
  BY <1>1 DEF Start, ListPage, OrgChanges, ChecksDone, ListPrsForAi, ContextFails, AiDone,
              ComparePairs
<1>2. CASE RunCheck
  <2>1. \E T : trouble' = trouble \cup T
    BY <1>2 DEF RunCheck
  <2> QED
    BY <2>1
<1>3. CASE AskModel
  <2>1. \E T : trouble' = trouble \cup T
    BY <1>3 DEF AskModel
  <2> QED
    BY <2>1
<1>4. CASE TakeFingerprint
  <2>1. \E T : trouble' = trouble \cup T
    BY <1>4 DEF TakeFingerprint
  <2> QED
    BY <2>1
<1> QED
  BY <1>1, <1>2, <1>3, <1>4 DEF Next

-----------------------------------------------------------------------------
(* What the checks report are findings. *)

LEMMA ReportIs ==
  ASSUME NEW check, NEW found, NEW f
  PROVE  f \in Report(check, found) <=>
           \E g \in found : f = [at |-> at, check |-> check, about |-> g.about, status |-> g.status]
BY DEF Report

LEMMA FindingIn ==
  ASSUME NEW i \in DOMAIN listing, NEW c \in AllChecks, NEW q \in Seq(Nat), NEW s \in Statuses
  PROVE  [at |-> i, check |-> c, about |-> q, status |-> s] \in FindingsSet
BY DEF FindingsSet, Statuses

(* The two fingerprints of a pair are of different places. *)
LEMMA PairIs ==
  ASSUME Basic, PrintsTyped, PrintsInOrder, NEW p \in Compared
  PROVE  /\ prints[p[1]].at \in DOMAIN listing /\ prints[p[2]].at \in DOMAIN listing
         /\ prints[p[1]].at # prints[p[2]].at
<1>1. p \in (DOMAIN prints) \X (DOMAIN prints) /\ p[1] < p[2]
  BY DEF Compared, Pairs
<1>2. PICK j \in DOMAIN prints, k \in DOMAIN prints : j = p[1] /\ k = p[2] /\ j < k
  BY <1>1
<1>3. prints[j] \in PrintSet /\ prints[k] \in PrintSet
  BY <1>2 DEF PrintsTyped
<1>4. prints[j].at < prints[k].at
  BY <1>2 DEF PrintsInOrder
<1>5. prints[j].at \in DOMAIN listing /\ prints[k].at \in DOMAIN listing
  BY <1>3 DEF PrintSet
<1>6. DOMAIN listing \subseteq Nat
  BY ListingIs
<1>7. prints[j].at # prints[k].at
  BY <1>4, <1>5, <1>6
<1> QED
  BY <1>2, <1>5, <1>7

LEMMA ComparePairsIs ==
  ASSUME Basic, PrintsTyped, PrintsInOrder, ComparePairs, NEW f \in findings', f \notin findings
  PROVE  \E i, k \in DOMAIN listing, s \in Statuses :
           i # k /\ f = [at |-> i, check |-> "REPO_SPRAWL", about |-> << k >>, status |-> s]
<1>1. PICK p \in Compared :
        \E s \in Statuses :
          f = [at |-> prints[p[1]].at, check |-> "REPO_SPRAWL",
               about |-> << prints[p[2]].at >>, status |-> s]
  BY DEF ComparePairs, Statuses
<1> QED
  BY <1>1, PairIs

LEMMA FindingsStep ==
  ASSUME Basic, Control, PrintsTyped, PrintsInOrder, FindingsTyped, [Next]_vars
  PROVE  FindingsTyped'
<1>1. CASE findings' = {}
  BY <1>1 DEF FindingsTyped
<1>2. CASE findings' = findings /\ listing' = listing
  BY <1>2 DEF FindingsTyped, FindingsSet
<1>3. CASE RunCheck
  <2>1. at \in DOMAIN listing /\ listing' = listing /\ Check \in CheckNames /\ RepoOK(Repo)
    BY <1>3, RunCheckIs
  <2>2. PICK found :
          /\ \E a : found = {} \/ found = CheckFindings(Check, Repo, a)
          /\ findings' = findings \cup Report(Check, found)
    <3>1. \E a : findings' = findings \cup
            Report(Check, IF Skipped THEN {} ELSE CheckFindings(Check, Repo, a))
      BY <1>3, RunCheckIs
    <3> QED
      BY <3>1
  <2>3. \A g \in found : g.about \in Seq(Nat) /\ g.status \in Statuses
    BY <2>1, <2>2, CheckFindingsTyped
  <2>4. ASSUME NEW f \in Report(Check, found) PROVE f \in FindingsSet
    <3>1. PICK g \in found :
            f = [at |-> at, check |-> Check, about |-> g.about, status |-> g.status]
      BY <2>4, ReportIs
    <3>2. Check \in AllChecks
      BY <2>1, Names
    <3> QED
      BY <2>1, <2>3, <3>1, <3>2, FindingIn
  <2>5. FindingsSet' = FindingsSet
    BY <2>1 DEF FindingsSet
  <2> QED
    BY <2>2, <2>4, <2>5 DEF FindingsTyped
<1>4. CASE AskModel
  <2>1. at \in DOMAIN listing /\ listing' = listing /\ step \in Sampled
    BY <1>4, AskModelIs
  <2>2. step \in Nat
    BY DEF Basic
  <2>3. ASSUME NEW f \in findings', f \notin findings PROVE f \in FindingsSet
    <3>1. PICK o \in [ModelNames -> ModelOutcomes], c \in ModelNames :
            \E s \in ModelFindings(c, Repo.prs[step], o[c]) :
              f = [at |-> at, check |-> c, about |-> << step >>, status |-> s]
      BY <1>4, <2>3, AskModelIs
    <3>2. o[c] \in ModelOutcomes
      OBVIOUS
    <3>3. PICK s \in Statuses : f = [at |-> at, check |-> c, about |-> << step >>, status |-> s]
      BY <3>1, <3>2, ModelFinds
    <3>4. << step >> \in Seq(Nat) /\ c \in AllChecks
      BY <2>2, Names
    <3> QED
      BY <2>1, <3>3, <3>4, FindingIn
  <2>4. FindingsSet' = FindingsSet
    BY <2>1 DEF FindingsSet
  <2> QED
    BY <2>3, <2>4 DEF FindingsTyped
<1>5. CASE ComparePairs
  <2>1. listing' = listing
    BY <1>5 DEF ComparePairs
  <2>2. ASSUME NEW f \in findings', f \notin findings PROVE f \in FindingsSet
    <3>1. PICK i \in DOMAIN listing, k \in DOMAIN listing, s \in Statuses :
            f = [at |-> i, check |-> "REPO_SPRAWL", about |-> << k >>, status |-> s]
      BY <1>5, <2>2, ComparePairsIs
    <3>2. k \in Nat
      BY ListingIs
    <3>3. << k >> \in Seq(Nat) /\ "REPO_SPRAWL" \in AllChecks
      BY <3>2, Names
    <3> QED
      BY <3>1, <3>3, FindingIn
  <2>3. FindingsSet' = FindingsSet
    BY <2>1 DEF FindingsSet
  <2> QED
    BY <2>2, <2>3 DEF FindingsTyped
<1>6. CASE Start \/ ListPage \/ OrgChanges
  <2>1. stage \in {"start", "list"} /\ findings' = findings
    BY <1>6 DEF Start, ListPage, OrgChanges
  <2> QED
    BY <1>1, <2>1 DEF Control
<1>7. CASE ChecksDone \/ ListPrsForAi \/ ContextFails \/ AiDone \/ TakeFingerprint
  BY <1>2, <1>7 DEF ChecksDone, ListPrsForAi, ContextFails, AiDone, TakeFingerprint
<1>8. CASE UNCHANGED vars
  BY <1>2, <1>8 DEF vars
<1> QED
  BY <1>3, <1>4, <1>5, <1>6, <1>7, <1>8 DEF Next

-----------------------------------------------------------------------------
(* What is expected, of the checks and of the model's checks. *)

LEMMA ExpectedIs ==
  ASSUME NEW i, NEW c \in CheckNames, NEW f
  PROVE  f \in ExpectedOf(i, c) <=>
           \E g \in Expected(c, world[listing[i]]) :
             f = [at |-> i, check |-> c, about |-> g.about, status |-> g.status]
<1>1. c \in ToSet(Checks)
  BY Names
<1> QED
  BY <1>1 DEF ExpectedOf

LEMMA ModelExpectedIs ==
  ASSUME NEW i, NEW c \in ModelNames, NEW f
  PROVE  f \in ExpectedOf(i, c) <=>
           \E n \in 1..Least(AiPrSample, Len(world[listing[i]].prs)) :
             /\ Asked(c, world[listing[i]].prs[n])
             /\ f = [at |-> i, check |-> c, about |-> << n >>,
                     status |-> ModelStatus(c, world[listing[i]].prs[n].verdict[c])]
<1>1. c \notin ToSet(Checks)
  BY Names DEF ModelNames, CheckNames
<1> DEFINE r == world[listing[i]]
           model(n) == IF Asked(c, r.prs[n]) THEN {ModelStatus(c, r.prs[n].verdict[c])} ELSE {}
           N == 1..Least(AiPrSample, Len(r.prs))
           found == UNION {{Finding(<<n>>, s) : s \in model(n)} : n \in N}
<1>2. ExpectedOf(i, c) =
        {[at |-> i, check |-> c, about |-> g.about, status |-> g.status] : g \in found}
  BY <1>1 DEF ExpectedOf
<1>3. \A n : \A s : s \in model(n) <=>
        Asked(c, r.prs[n]) /\ s = ModelStatus(c, r.prs[n].verdict[c])
  OBVIOUS
<1> HIDE DEF r, model, N
<1>4. \A g : g \in found <=> \E n \in N : \E s \in model(n) : g = Finding(<<n>>, s)
  OBVIOUS
<1> HIDE DEF found
<1>5. f \in ExpectedOf(i, c) <=> \E g \in found :
        f = [at |-> i, check |-> c, about |-> g.about, status |-> g.status]
  BY <1>2
<1>6. \A n, s : Finding(<<n>>, s).about = <<n>> /\ Finding(<<n>>, s).status = s
  BY DEF Finding
<1>7. f \in ExpectedOf(i, c) <=> \E n \in N : \E s \in model(n) :
        f = [at |-> i, check |-> c, about |-> << n >>, status |-> s]
  <2>1. ASSUME NEW g \in found,
               f = [at |-> i, check |-> c, about |-> g.about, status |-> g.status]
        PROVE  \E n \in N : \E s \in model(n) :
                 f = [at |-> i, check |-> c, about |-> << n >>, status |-> s]
    <3>1. PICK n \in N : \E s \in model(n) : g = Finding(<<n>>, s)
      BY <1>4, <2>1
    <3>2. PICK s \in model(n) : g = Finding(<<n>>, s)
      BY <3>1
    <3>3. g.about = <<n>> /\ g.status = s
      BY <1>6, <3>2
    <3> QED
      BY <2>1, <3>3
  <2>2. ASSUME NEW n \in N, NEW s \in model(n),
               f = [at |-> i, check |-> c, about |-> << n >>, status |-> s]
        PROVE  \E g \in found :
                 f = [at |-> i, check |-> c, about |-> g.about, status |-> g.status]
    <3>1. PICK g : g = Finding(<<n>>, s)
      OBVIOUS
    <3>2. g \in found /\ g.about = <<n>> /\ g.status = s
      BY <1>4, <1>6, <3>1
    <3> QED
      BY <2>2, <3>2
  <2> QED
    BY <1>5, <2>1, <2>2
<1>8. f \in ExpectedOf(i, c) <=> \E n \in N :
        /\ Asked(c, r.prs[n])
        /\ f = [at |-> i, check |-> c, about |-> << n >>,
                status |-> ModelStatus(c, r.prs[n].verdict[c])]
  BY <1>3, <1>7
<1> QED
  BY <1>8 DEF r, N

-----------------------------------------------------------------------------
(* Nothing is made up. *)

(* A misread answer is one that ReadAsAnswer allows. *)
LEMMA MisreadIs ==
  ASSUME NEW f, f.check \in CheckNames, NEW t, t.at = f.at, t.check = f.check,
         Misread(f.check, f, t.outcome)
  PROVE  ReadAsAnswer(f, t)
<1>1. f.check \notin ToSet(ModelChecks)
  BY Names DEF ModelNames, CheckNames
<1>2. CASE f.check = "DEPENDABOT"
  BY <1>1, <1>2 DEF Misread, ReadAsAnswer
<1>3. CASE f.check = "DEPLOY_WITHOUT_TEST"
  BY <1>1, <1>3 DEF Misread, ReadAsAnswer
<1>4. CASE f.check = "PII"
  BY <1>1, <1>4 DEF Misread, ReadAsAnswer
<1>5. CASE f.check \in {"STALE_PR", "CONFLICT"}
  BY <1>5 DEF Misread
<1> QED
  BY <1>2, <1>3, <1>4, <1>5 DEF CheckNames

LEMMA ModelMisreadIs ==
  ASSUME NEW f, f.check \in ModelNames, NEW t, t.at = f.at, t.check = f.check,
         t.about = f.about, f.status = "UNKNOWN" \/ (f.check = "HITL" /\ f.status = "WARN")
  PROVE  ReadAsAnswer(f, t)
<1>1. f.check \in ToSet(ModelChecks) /\ f.check \notin CheckNames
  BY Names DEF ModelNames, CheckNames
<1>2. f.check # "DEPENDABOT" /\ f.check # "DEPLOY_WITHOUT_TEST" /\ f.check # "PII"
  BY <1>1 DEF CheckNames
<1> QED
  BY <1>1, <1>2 DEF ReadAsAnswer

(* What justifies a finding justifies it ever after. *)
LEMMA JustifiedKept ==
  ASSUME UNCHANGED << world, listing, shifted >>, trouble \subseteq trouble', NEW f, Justified(f)
  PROVE  Justified(f)'
<1>1. ExpectedOf(f.at, f.check)' = ExpectedOf(f.at, f.check)
  BY DEF ExpectedOf
<1>2. ASSUME NEW t \in trouble, ReadAsAnswer(f, t)
      PROVE  t \in trouble' /\ ReadAsAnswer(f, t)'
  BY <1>2 DEF ReadAsAnswer
<1> QED
  BY <1>1, <1>2 DEF Justified

LEMMA RunCheckJustified ==
  ASSUME Basic, Control, RunCheck, NEW f \in findings', f \notin findings
  PROVE  Justified(f)'
<1>1. /\ at \in DOMAIN listing /\ Check \in CheckNames /\ RepoOK(Repo)
      /\ UNCHANGED << world, listing, at >>
  BY RunCheckIs
<1>2. PICK a \in [Requests(Check, Repo) -> Outcomes] :
        /\ ~Skipped => {n \in Requests(Check, Repo) : a[n] # "ok"} \subseteq Made(Check, Repo, a)
        /\ \A n \in Requests(Check, Repo) :
             a[n] # "ok" => Failed(Check, AboutRequest(n), a[n]) \in trouble'
        /\ findings' = findings \cup
             Report(Check, IF Skipped THEN {} ELSE CheckFindings(Check, Repo, a))
  BY RunCheckIs
<1>3. ~Skipped /\ f \in Report(Check, CheckFindings(Check, Repo, a))
  <2>1. f \in Report(Check, IF Skipped THEN {} ELSE CheckFindings(Check, Repo, a))
    BY <1>2
  <2>2. Report(Check, {}) = {}
    BY DEF Report
  <2> QED
    BY <2>1, <2>2
<1>4. PICK g \in CheckFindings(Check, Repo, a) :
        f = [at |-> at, check |-> Check, about |-> g.about, status |-> g.status]
  BY <1>3, ReportIs
<1>5. f.at = at /\ f.check = Check /\ f.status = g.status
  BY <1>4
<1>6. CASE g \in Expected(Check, Repo)
  <2>1. f \in ExpectedOf(at, Check)
    BY <1>1, <1>4, <1>6, ExpectedIs DEF Repo
  <2>2. ExpectedOf(f.at, f.check)' = ExpectedOf(at, Check)
    BY <1>1, <1>5 DEF ExpectedOf
  <2>3. f.check # "REPO_SPRAWL"
    BY <1>1, <1>5 DEF CheckNames
  <2> QED
    BY <2>1, <2>2, <2>3 DEF Justified
<1>7. CASE g \notin Expected(Check, Repo)
  <2>1. PICK n \in Requests(Check, Repo) : a[n] # "ok" /\ Misread(Check, g, a[n])
    BY <1>1, <1>2, <1>3, <1>7, MadeUpFrom
  <2>2. PICK t \in trouble' : t = Failed(Check, AboutRequest(n), a[n])
    BY <1>2, <2>1
  <2>3. t.at = at /\ t.check = Check /\ t.outcome = a[n]
    BY <2>2 DEF Failed
  <2>4. Misread(f.check, f, t.outcome)
    BY <1>5, <2>1, <2>3 DEF Misread
  <2>5. ReadAsAnswer(f, t)
    BY <1>1, <1>5, <2>3, <2>4, MisreadIs
  <2>6. ReadAsAnswer(f, t)'
    BY <2>5 DEF ReadAsAnswer
  <2>7. f.check # "REPO_SPRAWL"
    BY <1>1, <1>5 DEF CheckNames
  <2> QED
    BY <2>2, <2>6, <2>7 DEF Justified
<1> QED
  BY <1>6, <1>7

LEMMA AskModelJustified ==
  ASSUME Basic, Control, AskModel, NEW f \in findings', f \notin findings
  PROVE  Justified(f)'
<1>1. at \in DOMAIN listing /\ step \in Sampled /\ UNCHANGED << world, listing, at >>
  BY AskModelIs
<1>2. PICK o \in [ModelNames -> ModelOutcomes] :
        /\ \A c \in ModelNames : o[c] # "said" => Failed(c, << step >>, o[c]) \in trouble'
        /\ \E c \in ModelNames : \E s \in ModelFindings(c, Repo.prs[step], o[c]) :
             f = [at |-> at, check |-> c, about |-> << step >>, status |-> s]
  BY AskModelIs
<1>3. PICK c \in ModelNames : \E s \in ModelFindings(c, Repo.prs[step], o[c]) :
        f = [at |-> at, check |-> c, about |-> << step >>, status |-> s]
  BY <1>2
<1>4. PICK s \in ModelFindings(c, Repo.prs[step], o[c]) :
        f = [at |-> at, check |-> c, about |-> << step >>, status |-> s]
  BY <1>3
<1>5. f.at = at /\ f.check = c /\ f.about = << step >> /\ f.status = s
  BY <1>4
<1>6. o[c] \in ModelOutcomes
  OBVIOUS
<1>7. f.check # "REPO_SPRAWL"
  BY <1>5 DEF ModelNames
<1>8. CASE o[c] = "said"
  <2>1. Asked(c, Repo.prs[step]) /\ s = ModelStatus(c, Repo.prs[step].verdict[c])
    BY <1>6, <1>8, ModelFinds
  <2>2. step \in 1..Least(AiPrSample, Len(Repo.prs))
    BY <1>1, SampledIs
  <2>3. f \in ExpectedOf(at, c)
    BY <1>4, <2>1, <2>2, ModelExpectedIs DEF Repo
  <2>4. ExpectedOf(f.at, f.check)' = ExpectedOf(at, c)
    BY <1>1, <1>5 DEF ExpectedOf
  <2> QED
    BY <1>7, <2>3, <2>4 DEF Justified
<1>9. CASE o[c] # "said"
  <2>1. s = "UNKNOWN" \/ (c = "HITL" /\ s = "WARN")
    BY <1>6, <1>9, ModelFinds
  <2>2. PICK t \in trouble' : t = Failed(c, << step >>, o[c])
    BY <1>2, <1>9
  <2>3. t.at = at /\ t.check = c /\ t.about = << step >>
    BY <2>2 DEF Failed
  <2>4. ReadAsAnswer(f, t)
    BY <1>5, <2>1, <2>3, ModelMisreadIs
  <2>5. ReadAsAnswer(f, t)'
    BY <2>4 DEF ReadAsAnswer
  <2> QED
    BY <1>7, <2>2, <2>5 DEF Justified
<1> QED
  BY <1>8, <1>9

(* Places of one repository are fingerprinted twice only if a shifted      *)
(* listing has it twice.                                                   *)
LEMMA CompareJustified ==
  ASSUME Basic, Control, PrintsTyped, PrintsInOrder, ListedAll, ComparePairs,
         NEW f \in findings', f \notin findings
  PROVE  Justified(f)'
<1>1. PICK i \in DOMAIN listing, k \in DOMAIN listing :
        i # k /\ \E s : f = [at |-> i, check |-> "REPO_SPRAWL", about |-> << k >>, status |-> s]
  BY ComparePairsIs
<1>2. f.at = i /\ f.about[1] = k /\ f.check = "REPO_SPRAWL"
  BY <1>1
<1>3. stage = "sprawl" /\ UNCHANGED << listing, shifted >>
  BY DEF ComparePairs
<1>4. ~config.single /\ stage \in Auditing
  BY <1>3 DEF Control, Auditing
<1>5. shifted # "created" => IsInjective(listing)
  BY <1>4 DEF ListedAll
<1>6. listing[i] # listing[k] \/ shifted = "created"
  BY <1>1, <1>5 DEF IsInjective
<1> QED
  BY <1>2, <1>3, <1>6 DEF Justified

LEMMA MadeUpIs == NothingMadeUp <=> \A f \in findings : Justified(f)
BY DEF NothingMadeUp, Justified

LEMMA NothingMadeUpStep ==
  ASSUME Basic, Control, PrintsTyped, PrintsInOrder, ListedAll, NothingMadeUp, [Next]_vars
  PROVE  NothingMadeUp'
<1>1. \A f \in findings : Justified(f)
  BY MadeUpIs
<1> SUFFICES \A f \in findings' : Justified(f)'
  BY DEF NothingMadeUp, Justified
<1>2. CASE UNCHANGED vars
  BY <1>1, <1>2, JustifiedKept DEF vars
<1>3. CASE Start \/ ListPage \/ OrgChanges
  <2>1. stage \in {"start", "list"} /\ findings' = findings
    BY <1>3 DEF Start, ListPage, OrgChanges
  <2> QED
    BY <2>1 DEF Control
<1>4. CASE Next /\ ~(Start \/ ListPage \/ OrgChanges)
  <2>1. UNCHANGED << world, listing, shifted >>
    BY <1>4 DEF Next, RunCheck, ChecksDone, ListPrsForAi, ContextFails, AskModel, AiDone,
                TakeFingerprint, ComparePairs
  <2>2. trouble \subseteq trouble'
    BY <1>4, TroubleGrows
  <2>3. ASSUME NEW f \in findings', f \in findings PROVE Justified(f)'
    BY <1>1, <2>1, <2>2, <2>3, JustifiedKept
  <2>4. ASSUME NEW f \in findings', f \notin findings PROVE Justified(f)'
    <3>1. RunCheck \/ AskModel \/ ComparePairs
      BY <1>4, <2>4, OthersReportNothing
    <3>2. CASE RunCheck
      BY <2>4, <3>2, RunCheckJustified
    <3>3. CASE AskModel
      BY <2>4, <3>3, AskModelJustified
    <3>4. CASE ComparePairs
      BY <2>4, <3>4, CompareJustified
    <3> QED
      BY <3>1, <3>2, <3>3, <3>4
  <2> QED
    BY <2>3, <2>4
<1> QED
  BY <1>2, <1>3, <1>4

-----------------------------------------------------------------------------
(* Failures stay local. *)

LEMMA FindingsGrow ==
  ASSUME Next
  PROVE  findings \subseteq findings'
<1>1. CASE findings' = findings
  BY <1>1
<1>2. CASE RunCheck
  <2>1. \E F : findings' = findings \cup F
    BY <1>2 DEF RunCheck
  <2> QED
    BY <2>1
<1>3. CASE AskModel
  <2>1. \E F : findings' = findings \cup F
    BY <1>3 DEF AskModel
  <2> QED
    BY <2>1
<1>4. CASE ComparePairs
  <2>1. \E F : findings' = findings \cup F
    BY <1>4 DEF ComparePairs
  <2> QED
    BY <2>1
<1> QED
  BY <1>1, <1>2, <1>3, <1>4, OthersReportNothing

LEMMA AccountedKept ==
  ASSUME findings \subseteq findings', trouble \subseteq trouble', UNCHANGED << world, listing >>,
         NEW f, Accounted(f)
  PROVE  Accounted(f)'
BY DEF Accounted, Explains, AuthorMissing

LEMMA AccountedBy ==
  ASSUME NEW f, f \in findings' \/ \E t \in trouble' : Explains(t, f)
  PROVE  Accounted(f)'
BY DEF Accounted, Explains

LEMMA AccountedNameless ==
  ASSUME UNCHANGED << world, listing >>, NEW f, AuthorMissing(f)
  PROVE  Accounted(f)'
BY DEF Accounted, AuthorMissing

LEMMA ProgressFrom ==
  ASSUME UNCHANGED << world, listing, config >>, stage \in Auditing, Progress, Next,
         \A i \in DOMAIN listing, c \in ChecksToRun : \A f \in ExpectedOf(i, c) :
           Through(i, c, f)' => Through(i, c, f) \/ Accounted(f)'
  PROVE  Progress'
<1>1. findings \subseteq findings' /\ trouble \subseteq trouble'
  BY FindingsGrow, TroubleGrows
<1>2. ChecksToRun' = ChecksToRun
  BY DEF ChecksToRun
<1>3. \A i, c : ExpectedOf(i, c)' = ExpectedOf(i, c)
  BY DEF ExpectedOf
<1> SUFFICES ASSUME NEW i \in DOMAIN listing, NEW c \in ChecksToRun, NEW f \in ExpectedOf(i, c),
                    Through(i, c, f)'
             PROVE  Accounted(f)'
  BY <1>2, <1>3 DEF Progress
<1>4. CASE Through(i, c, f)
  BY <1>1, <1>4, AccountedKept DEF Progress
<1> QED
  BY <1>4

LEMMA ToRun ==
  ASSUME NEW c \in ChecksToRun
  PROVE  (c \in CheckNames /\ (c = "PII" => config.pii)) \/ (c \in ModelNames /\ config.ai)
BY Names DEF ChecksToRun, CheckNames, ModelNames

LEMMA CheckNumber ==
  ASSUME NEW c \in CheckNames
  PROVE  \E k \in 1..5 : c = Checks[k]
<1>1. c \in ToSet(Checks) /\ DOMAIN Checks = 1..5
  BY Names
<1> QED
  BY <1>1, Zenon DEF ToSet

(* When the audit goes on to the next repository it is through with no     *)
(* other one than before but for the one it leaves.                        *)
LEMMA NextThrough ==
  ASSUME Basic, at \in DOMAIN listing, UNCHANGED listing, NextRepository,
         NEW i \in DOMAIN listing, NEW c, NEW f, Through(i, c, f)'
  PROVE  i < at \/ i = at
<1>1. /\ step' = 1 /\ stage' \in {"checks", "sprawl", "done"}
      /\ stage' = "checks" => at' = at + 1
      /\ stage' # "checks" => at = Len(listing)
  BY OnToNext
<1>2. DOMAIN listing = 1..Len(listing) /\ Len(listing) \in Nat
  BY ListingIs
<1>3. CASE stage' # "checks"
  BY <1>1, <1>2, <1>3
<1>4. CASE stage' = "checks"
  <2>1. DOMAIN Checks = 1..5
    BY Names
  <2>2. \A k \in 1..5 : ~(k < 1)
    OBVIOUS
  <2>3. i < at'
    BY <1>1, <1>4, <2>1, <2>2 DEF Through
  <2> QED
    BY <1>1, <1>2, <1>4, <2>3
<1> QED
  BY <1>3, <1>4

LEMMA RunCheckAccounts ==
  ASSUME Basic, Control, RunCheck, Check \in ChecksToRun, NEW f \in ExpectedOf(at, Check)
  PROVE  Accounted(f)'
<1>1. Check \in CheckNames /\ RepoOK(Repo) /\ UNCHANGED << world, listing, at >>
  BY RunCheckIs
<1>2. ~Skipped
  BY DEF Skipped, ChecksToRun
<1>3. PICK a \in [Requests(Check, Repo) -> Outcomes] :
        /\ \A n \in Requests(Check, Repo) :
             a[n] # "ok" => Failed(Check, AboutRequest(n), a[n]) \in trouble'
        /\ findings' = findings \cup
             Report(Check, IF Skipped THEN {} ELSE CheckFindings(Check, Repo, a))
  BY RunCheckIs
<1>4. findings' = findings \cup Report(Check, CheckFindings(Check, Repo, a))
  BY <1>2, <1>3
<1>5. PICK g \in Expected(Check, Repo) :
        f = [at |-> at, check |-> Check, about |-> g.about, status |-> g.status]
  BY <1>1, ExpectedIs DEF Repo
<1>6. CASE g \in CheckFindings(Check, Repo, a)
  <2>1. f \in Report(Check, CheckFindings(Check, Repo, a))
    BY <1>5, <1>6, ReportIs
  <2> QED
    BY <1>4, <2>1, AccountedBy
<1>7. CASE g \notin CheckFindings(Check, Repo, a)
  <2> SUFFICES ASSUME Nameless(Check, Repo) = {} PROVE Accounted(f)'
    <3>1. f.check = Check /\ f.at = at
      BY <1>5
    <3>2. Nameless(Check, Repo) # {} => AuthorMissing(f)
      BY <3>1 DEF AuthorMissing, Repo
    <3> QED
      BY <1>1, <3>2, AccountedNameless
  <2>1. PICK n \in Requests(Check, Repo) :
          a[n] # "ok" /\ (n = 0 \/ Check # "CONFLICT" \/ g.about = <<n>> \/ a[n] = "broken")
    BY <1>1, <1>7, MissingForWantOf
  <2>2. PICK t \in trouble' : t = Failed(Check, AboutRequest(n), a[n])
    BY <1>3, <2>1
  <2>3. t.at = at /\ t.check = Check /\ t.outcome = a[n] /\ t.about = AboutRequest(n)
    BY <2>2 DEF Failed
  <2>4. f.at = at /\ f.check = Check /\ f.about = g.about
    BY <1>5
  <2>5. t.about = << >> \/ t.about = f.about \/ t.outcome = "broken"
    BY <2>1, <2>3, <2>4 DEF AboutRequest
  <2>6. Explains(t, f)
    BY <2>3, <2>4, <2>5 DEF Explains
  <2> QED
    BY <2>2, <2>6, AccountedBy
<1> QED
  BY <1>6, <1>7

(* A model's finding is about one of the sampled pull requests. *)
LEMMA ModelAbout ==
  ASSUME Basic, at \in DOMAIN listing, NEW c \in ModelNames, NEW f \in ExpectedOf(at, c)
  PROVE  \E n \in Sampled :
           /\ n \in Nat \ {0} /\ f.about = <<n>> /\ f.about[1] = n /\ f.at = at /\ f.check = c
           /\ Asked(c, Repo.prs[n]) /\ f.status = ModelStatus(c, Repo.prs[n].verdict[c])
           /\ f = [at |-> at, check |-> c, about |-> <<n>>,
                   status |-> ModelStatus(c, Repo.prs[n].verdict[c])]
<1>1. PICK n \in 1..Least(AiPrSample, Len(Repo.prs)) :
        /\ Asked(c, Repo.prs[n])
        /\ f = [at |-> at, check |-> c, about |-> << n >>,
                status |-> ModelStatus(c, Repo.prs[n].verdict[c])]
  BY ModelExpectedIs DEF Repo
<1>2. n \in Sampled /\ n \in Nat \ {0}
  BY SampledIs
<1> QED
  BY <1>1, <1>2

LEMMA AskModelAccounts ==
  ASSUME Basic, Control, AskModel, NEW c \in ModelNames, NEW f \in ExpectedOf(at, c),
         f.about[1] = step
  PROVE  Accounted(f)'
<1>1. at \in DOMAIN listing
  BY AskModelIs
<1>2. PICK o \in [ModelNames -> ModelOutcomes] :
        /\ \A d \in ModelNames : o[d] # "said" => Failed(d, << step >>, o[d]) \in trouble'
        /\ \A g : g \in findings' <=> g \in findings \/ \E d \in ModelNames :
             \E s \in ModelFindings(d, Repo.prs[step], o[d]) :
               g = [at |-> at, check |-> d, about |-> << step >>, status |-> s]
  BY AskModelIs
<1>3. /\ f.about = << step >> /\ f.at = at /\ f.check = c
      /\ Asked(c, Repo.prs[step])
      /\ f = [at |-> at, check |-> c, about |-> << step >>,
              status |-> ModelStatus(c, Repo.prs[step].verdict[c])]
  <2>1. PICK n \in Sampled :
          /\ f.about = <<n>> /\ f.about[1] = n /\ f.at = at /\ f.check = c
          /\ Asked(c, Repo.prs[n])
          /\ f = [at |-> at, check |-> c, about |-> <<n>>,
                  status |-> ModelStatus(c, Repo.prs[n].verdict[c])]
    BY <1>1, ModelAbout
  <2>2. n = step
    BY <2>1
  <2> QED
    BY <2>1, <2>2
<1>4. CASE o[c] = "said"
  <2>1. ModelStatus(c, Repo.prs[step].verdict[c]) \in ModelFindings(c, Repo.prs[step], o[c])
    BY <1>3, <1>4, ModelSaid
  <2>2. f \in findings'
    BY <1>2, <1>3, <2>1
  <2> QED
    BY <2>2, AccountedBy
<1>5. CASE o[c] # "said"
  <2>1. PICK t \in trouble' : t = Failed(c, << step >>, o[c])
    BY <1>2, <1>5
  <2>2. t.at = at /\ t.check = c /\ t.about = << step >>
    BY <2>1 DEF Failed
  <2>3. Explains(t, f)
    BY <1>3, <2>2 DEF Explains
  <2> QED
    BY <2>1, <2>3, AccountedBy
<1> QED
  BY <1>4, <1>5

LEMMA ContextFailsAccounts ==
  ASSUME Basic, Control, ContextFails, NEW c \in ModelNames, NEW f \in ExpectedOf(at, c),
         f.about[1] = step
  PROVE  Accounted(f)'
<1>1. at \in DOMAIN listing
  BY DEF ContextFails, Control
<1>2. f.about = << step >> /\ f.at = at /\ f.check = c
  BY <1>1, ModelAbout
<1>5. f.check \in ToSet(ModelChecks)
  BY <1>2, Names
<1> SUFFICES ASSUME Repo.prs[step].authored PROVE Accounted(f)'
  <2>1. ~Repo.prs[step].authored => AuthorMissing(f)
    BY <1>2, <1>5 DEF AuthorMissing, Repo
  <2> QED
    BY <2>1, AccountedNameless DEF ContextFails
<1>3. PICK t \in trouble' : t = Failed("AI CONTEXT", <<step>>, "error")
  BY DEF ContextFails
<1>4. t.at = at /\ t.check = "AI CONTEXT" /\ t.about = << step >>
  BY <1>3 DEF Failed
<1>6. Explains(t, f)
  BY <1>2, <1>4, <1>5 DEF Explains
<1> QED
  BY <1>3, <1>6, AccountedBy

-----------------------------------------------------------------------------
LEMMA ProgressStep ==
  ASSUME Basic, Control, Progress, [Next]_vars
  PROVE  Progress'
<1>a. DOMAIN listing = 1..Len(listing) /\ Len(listing) \in Nat /\ at \in Nat /\ step \in Nat
  BY ListingIs DEF Basic
<1>b. /\ ToSet(Checks) = CheckNames /\ ToSet(ModelChecks) = ModelNames /\ DOMAIN Checks = 1..5
      /\ CheckNames \cap ModelNames = {} /\ Len(Checks) = 5
  BY Names DEF CheckNames, ModelNames
<1>1. CASE UNCHANGED vars
  <2>1. ChecksToRun' = ChecksToRun /\ stage' = stage /\ listing' = listing
    BY <1>1 DEF vars, ChecksToRun
  <2>2. \A i, c : ExpectedOf(i, c)' = ExpectedOf(i, c)
    BY <1>1 DEF vars, ExpectedOf
  <2>3. \A i, c, f : Through(i, c, f)' <=> Through(i, c, f)
    BY <1>1 DEF vars, Through
  <2>4. \A f : Accounted(f)' <=> Accounted(f)
    BY <1>1 DEF vars, Accounted, Explains, AuthorMissing
  <2> QED
    BY <2>1, <2>2, <2>3, <2>4 DEF Progress
<1>2. CASE Start \/ ListPage \/ OrgChanges
  <2>1. stage \in {"start", "list"} /\ at' = at /\ step' = step
    BY <1>2 DEF Start, ListPage, OrgChanges
  <2>2. at' = 1 /\ step' = 1
    BY <2>1 DEF Control
  <2>3. \/ stage' \notin Auditing
        \/ stage' = "checks"
        \/ stage' = StageFrom(1)
    BY <1>2 DEF Start, ListPage, OrgChanges, Auditing
  <2>4. Basic'
    BY ControlStep
  <2>5. DOMAIN listing' = 1..Len(listing') /\ Len(listing') \in Nat
    BY <2>4 DEF Basic
  <2>6. CASE stage' = "checks"
    <3>1. \A i \in DOMAIN listing' : ~(i < 1)
      BY <2>5
    <3>2. \A k \in 1..5 : ~(k < 1)
      OBVIOUS
    <3>3. \A i \in DOMAIN listing' : \A c, f : ~(Through(i, c, f)')
      BY <1>b, <2>2, <2>6, <3>1, <3>2 DEF Through
    <3> QED
      BY <3>3 DEF Progress
  <2>7. CASE stage' = StageFrom(1) /\ stage' # "checks"
    <3>1. ~(1 <= Len(listing'))
      BY <2>7 DEF StageFrom
    <3>2. DOMAIN listing' = {}
      BY <2>5, <3>1
    <3> QED
      BY <3>2 DEF Progress
  <2> QED
    BY <2>3, <2>6, <2>7 DEF Progress
<1>3. CASE RunCheck
  <2>1. /\ stage = "checks" /\ stage' = stage /\ at' = at /\ step' = step + 1
        /\ UNCHANGED << world, listing, config >>
    BY <1>3, RunCheckIs
  <2> SUFFICES ASSUME NEW i \in DOMAIN listing, NEW c \in ChecksToRun, NEW f \in ExpectedOf(i, c),
                      Through(i, c, f)', ~Through(i, c, f)
               PROVE  Accounted(f)'
    BY <1>3, <2>1, ProgressFrom DEF Next, Auditing
  <2>2. i = at /\ \E k \in 1..5 : c = Checks[k] /\ k < step + 1 /\ ~(k < step)
    BY <1>b, <2>1 DEF Through
  <2>3. PICK k \in 1..5 : c = Checks[k] /\ k < step + 1 /\ ~(k < step)
    BY <2>2
  <2>4. k = step
    BY <1>a, <2>3
  <2>5. i = at /\ c = Check
    BY <2>2, <2>3, <2>4 DEF Check
  <2> QED
    BY <1>3, <2>5, RunCheckAccounts
<1>4. CASE ChecksDone
  <2>1. /\ stage = "checks" /\ UNCHANGED << world, listing, config >> /\ step > 5
        /\ \/ stage' = "ai list" /\ UNCHANGED at
           \/ ~config.ai /\ NextRepository
    BY <1>4, <1>b DEF ChecksDone
  <2>2. at \in DOMAIN listing
    BY <2>1 DEF Control
  <2> SUFFICES ASSUME NEW i \in DOMAIN listing, NEW c \in ChecksToRun, NEW f \in ExpectedOf(i, c),
                      Through(i, c, f)'
               PROVE  Through(i, c, f)
    BY <1>4, <2>1, ProgressFrom DEF Next, Auditing
  <2>3. ASSUME i = at, c \in CheckNames PROVE Through(i, c, f)
    <3>1. PICK k \in 1..5 : c = Checks[k]
      BY <2>3, CheckNumber
    <3>a. step > 5 /\ step \in Nat
      BY <1>a, <2>1
    <3>2. k < step
      BY <3>a
    <3> QED
      BY <1>b, <2>1, <2>3, <3>1, <3>2 DEF Through
  <2>4. CASE stage' = "ai list" /\ UNCHANGED at
    <3>1. i < at \/ (i = at /\ c \in CheckNames)
      BY <1>b, <2>4 DEF Through
    <3> QED
      BY <2>3, <3>1 DEF Through
  <2>5. CASE ~config.ai /\ NextRepository
    <3>1. c \in CheckNames
      BY <2>5, ToRun
    <3>2. i < at \/ i = at
      BY <2>1, <2>2, <2>5, NextThrough
    <3> QED
      BY <2>3, <3>1, <3>2 DEF Through
  <2> QED
    BY <2>1, <2>4, <2>5
<1>5. CASE ListPrsForAi
  <2>1. /\ stage = "ai list" /\ UNCHANGED << world, listing, config, at, step >>
        /\ stage' \in {"ai", "aborted"}
    BY <1>5 DEF ListPrsForAi
  <2>2. step = 1 /\ at \in DOMAIN listing
    BY <2>1 DEF Control
  <2>3. CASE stage' = "aborted"
    BY <2>3 DEF Progress, Auditing
  <2>4. CASE stage' = "ai"
    <3> SUFFICES ASSUME NEW i \in DOMAIN listing, NEW c \in ChecksToRun, NEW f \in ExpectedOf(i, c),
                        Through(i, c, f)'
                 PROVE  Through(i, c, f)
      BY <1>5, <2>1, ProgressFrom DEF Next, Auditing
    <3>1. i < at \/ (i = at /\ c \in CheckNames) \/ (i = at /\ c \in ModelNames /\ f.about[1] < 1)
      BY <1>b, <2>1, <2>2, <2>4 DEF Through
    <3>2. CASE i = at /\ c \in ModelNames /\ f.about[1] < 1
      <4>1. PICK n \in Nat \ {0} : f.about[1] = n
        BY <2>2, <3>2, ModelAbout
      <4> QED
        BY <3>2, <4>1
    <3> QED
      BY <1>b, <2>1, <3>1, <3>2 DEF Through
  <2> QED
    BY <2>1, <2>3, <2>4
<1>6. CASE ContextFails \/ AskModel
  <2>1. /\ stage = "ai" /\ stage' = "ai" /\ at' = at /\ step' = step + 1
        /\ UNCHANGED << world, listing, config >>
    BY <1>6 DEF ContextFails, AskModel
  <2>2. at \in DOMAIN listing
    BY <2>1 DEF Control
  <2> SUFFICES ASSUME NEW i \in DOMAIN listing, NEW c \in ChecksToRun, NEW f \in ExpectedOf(i, c),
                      Through(i, c, f)', ~Through(i, c, f)
               PROVE  Accounted(f)'
    BY <1>6, <2>1, ProgressFrom DEF Next, Auditing
  <2>3. i = at /\ c \in ModelNames /\ f.about[1] < step + 1 /\ ~(f.about[1] < step)
    BY <1>b, <2>1 DEF Through
  <2>4. PICK n \in Nat : f.about[1] = n
    BY <2>2, <2>3, ModelAbout
  <2>5. f.about[1] = step
    BY <1>a, <2>3, <2>4
  <2> QED
    BY <1>6, <2>3, <2>5, AskModelAccounts, ContextFailsAccounts
<1>7. CASE AiDone
  <2>1. /\ stage = "ai" /\ step \notin Sampled /\ NextRepository
        /\ UNCHANGED << world, listing, config >>
    BY <1>7 DEF AiDone
  <2>2. at \in DOMAIN listing
    BY <2>1 DEF Control
  <2> SUFFICES ASSUME NEW i \in DOMAIN listing, NEW c \in ChecksToRun, NEW f \in ExpectedOf(i, c),
                      Through(i, c, f)'
               PROVE  Through(i, c, f)
    BY <1>7, <2>1, ProgressFrom DEF Next, Auditing
  <2>3. i < at \/ i = at
    BY <2>1, <2>2, NextThrough
  <2>4. CASE i = at /\ c \in ModelNames
    <3>1. PICK n \in Sampled : f.about[1] = n
      BY <2>2, <2>4, ModelAbout
    <3>2. n < step
      <4>1. PICK top \in Nat : Sampled = 1..top
        BY <2>2, SampledIs
      <4> QED
        BY <2>1, <4>1 DEF Basic
    <3> QED
      BY <1>b, <2>1, <2>4, <3>1, <3>2 DEF Through
  <2>5. CASE i = at /\ c \in CheckNames
    BY <1>b, <2>1, <2>5 DEF Through
  <2> QED
    BY <2>3, <2>4, <2>5, ToRun DEF Through
<1>8. CASE TakeFingerprint \/ ComparePairs
  <2>1. stage = "sprawl" /\ UNCHANGED << world, listing, config >>
    BY <1>8 DEF TakeFingerprint, ComparePairs
  <2>2. \A i, c, f : Through(i, c, f)
    BY <2>1 DEF Through
  <2> QED
    BY <1>8, <2>1, <2>2, ProgressFrom DEF Next, Auditing
<1> QED
  BY <1>1, <1>2, <1>3, <1>4, <1>5, <1>6, <1>7, <1>8 DEF Next

-----------------------------------------------------------------------------
(* The invariant. *)

LEMMA InitInv == Init => Inv
<1> SUFFICES ASSUME Init PROVE Inv
  OBVIOUS
<1>1. org \in Seq(Repos) /\ org # << >> /\ IsInjective(org)
  BY AuditBounds DEF Init
<1>2. /\ stage = "start" /\ listing = << >> /\ prints = << >> /\ findings = {} /\ trouble = {}
      /\ at = 1 /\ step = 1 /\ page = 0 /\ shifted = "no" /\ world \in Worlds
  BY DEF Init
<1>3. Basic
  BY <1>1, <1>2 DEF Basic, Stages
<1>4. PrintsTyped /\ PrintsInOrder
  <2>1. << >> \in Seq(PrintSet) /\ DOMAIN << >> = {}
    BY EmptySeq
  <2> QED
    BY <1>2, <2>1 DEF PrintsTyped, PrintsInOrder
<1>5. FindingsTyped /\ NothingMadeUp
  BY <1>2 DEF FindingsTyped, NothingMadeUp
<1>6. TroubleCounted
  BY <1>2, FS_EmptySet, AuditBounds DEF TroubleCounted, Failures
<1>7. Control
  BY <1>1, <1>2 DEF Control
<1>8. Progress /\ ListedSoFar /\ ListedAll
  BY <1>2 DEF Progress, ListedSoFar, ListedAll, Auditing
<1> QED
  BY <1>3, <1>4, <1>5, <1>6, <1>7, <1>8 DEF Inv

LEMMA NextInv == Inv /\ [Next]_vars => Inv'
<1> SUFFICES ASSUME Inv, [Next]_vars PROVE Inv'
  OBVIOUS
<1>1. /\ Basic /\ PrintsTyped /\ FindingsTyped /\ TroubleCounted /\ Control /\ Progress
      /\ NothingMadeUp /\ PrintsInOrder /\ ListedSoFar /\ ListedAll
  BY DEF Inv
<1>2. Basic' /\ Control'
  BY <1>1, ControlStep
<1>3. PrintsTyped' /\ PrintsInOrder'
  BY <1>1, PrintsStep
<1>4. FindingsTyped'
  BY <1>1, FindingsStep
<1>5. TroubleCounted'
  <2>1. CASE UNCHANGED vars
    BY <1>1, <2>1 DEF vars, TroubleCounted, Failures
  <2> QED
    BY <1>1, <2>1, CountedStep
<1>6. Progress'
  BY <1>1, ProgressStep
<1>7. NothingMadeUp'
  BY <1>1, NothingMadeUpStep
<1>8. ListedSoFar' /\ ListedAll'
  BY <1>1, ListedStep
<1> QED
  BY <1>2, <1>3, <1>4, <1>5, <1>6, <1>7, <1>8 DEF Inv

(* The inductive invariant: where an audit is, what it is through with,    *)
(* and what it has listed (engine.py, run_org).                            *)
THEOREM AuditInvariant == Spec => []Inv
BY InitInv, NextInv, PTL DEF Spec

(* The types of an audit's state, with the bound on failing requests, for  *)
(* every organisation and every pattern of failures.                       *)
THEOREM AuditTypes == Spec => []TypeOK
<1>1. Inv => TypeOK
  BY TypeParts DEF Inv, TroubleCounted
<1> QED
  BY <1>1, AuditInvariant, PTL

(* What fails hides nothing but what it was about, and a missing author    *)
(* only the findings of the checks that have to name him (engine.py:163-218,*)
(* conflicts.py): FailureStaysLocal for every organisation, every content  *)
(* of its repositories and every pattern of failing requests.              *)
THEOREM FailuresHideLittle == Spec => []FailureStaysLocal
<1>1. Inv => FailureStaysLocal
  BY DEF Inv, Progress, Through, Accounted, FailureStaysLocal, Auditing
<1> QED
  BY <1>1, AuditInvariant, PTL

(* What fails invents nothing but what ReadAsAnswer lists (github.py:100,  *)
(* the except clauses of the checks).                                      *)
THEOREM FailuresInventLittle == Spec => []NothingMadeUp
<1>1. Inv => NothingMadeUp
  BY DEF Inv
<1> QED
  BY <1>1, AuditInvariant, PTL

(* Every repository that stays is audited, and once, for every number of   *)
(* repositories and every size of page (list_org_repos).                   *)
THEOREM AuditsEachOnce == Spec => []EveryRepositoryOnce
<1>1. Inv => EveryRepositoryOnce
  BY DEF Inv, ListedAll, EveryRepositoryOnce, Auditing, Old
<1> QED
  BY <1>1, AuditInvariant, PTL

-----------------------------------------------------------------------------
(* What ends an audit. *)

(* A failure, whatever it was, is recorded under its check. *)
LEMMA FailedIsRecorded ==
  ASSUME NEW check, NEW about, NEW outcome
  PROVE  Failed(check, about, outcome).check = check
BY DEF Failed

(* A listing that fails is on record afterwards. *)
LEMMA ListingRecorded ==
  ASSUME NEW check \in {"LIST", "AI LIST"}, NEW o,
         trouble' = trouble \cup {Failed(check, <<>>, o)}
  PROVE  \E t \in trouble' : t.check \in {"LIST", "AI LIST"}
<1>1. Failed(check, <<>>, o) \in trouble'
  OBVIOUS
<1> QED
  BY <1>1, FailedIsRecorded

(* The audit is given up only by one of these three steps. *)
LEMMA GivenUpBy ==
  ASSUME Next, stage' = "aborted"
  PROVE  Start \/ ListPage \/ ListPrsForAi
<1>1. \A i : StageFrom(i) # "aborted"
  BY DEF StageFrom
<1>2. CASE OrgChanges
  BY <1>2 DEF OrgChanges
<1>3. CASE RunCheck
  BY <1>3 DEF RunCheck
<1>4. CASE ChecksDone
  BY <1>1, <1>4 DEF ChecksDone, NextRepository
<1>5. CASE ContextFails \/ AskModel
  BY <1>5 DEF ContextFails, AskModel
<1>6. CASE AiDone
  BY <1>1, <1>6 DEF AiDone, NextRepository
<1>7. CASE TakeFingerprint \/ ComparePairs
  BY <1>7 DEF TakeFingerprint, ComparePairs
<1> QED
  BY <1>2, <1>3, <1>4, <1>5, <1>6, <1>7 DEF Next

(* An audit is given up only for want of a model or of a listing           *)
(* (engine.py, run_governance_audit and _run_ai_checks).                   *)
THEOREM AbortsOnlyByListing == Spec => []AbortOnlyByListing
<1>1. Init => AbortOnlyByListing
  BY DEF Init, AbortOnlyByListing
<1>2. AbortOnlyByListing /\ [Next]_vars => AbortOnlyByListing'
  <2> SUFFICES ASSUME AbortOnlyByListing, [Next]_vars, stage' = "aborted"
               PROVE  \/ config'.ai /\ ~config'.provider
                      \/ \E t \in trouble' : t.check \in {"LIST", "AI LIST"}
    BY DEF AbortOnlyByListing
  <2>1. CASE UNCHANGED vars
    BY <2>1 DEF vars, AbortOnlyByListing
  <2>2. CASE Start
    BY <2>2 DEF Start
  <2>3. CASE ListPage
    <3>1. \A i : StageFrom(i) # "aborted"
      BY DEF StageFrom
    <3>2. stage = "list"
      BY <2>3 DEF ListPage
    <3>3. PICK o : trouble' = trouble \cup {Failed("LIST", <<>>, o)}
      BY <2>3, <3>1, <3>2 DEF ListPage
    <3> QED
      BY <3>3, ListingRecorded
  <2>4. CASE ListPrsForAi
    <3>1. PICK o : trouble' = trouble \cup {Failed("AI LIST", <<>>, o)}
      BY <2>4 DEF ListPrsForAi
    <3> QED
      BY <3>1, ListingRecorded
  <2> QED
    BY <2>1, <2>2, <2>3, <2>4, GivenUpBy
<1> QED
  BY <1>1, <1>2, PTL DEF Spec
========================================================================
