-------------------------- MODULE GovernanceAudit --------------------------
(***************************************************************************)
(* One governance audit of an organisation or of a single repository       *)
(* (run_audit in core/service.py, core/governance/engine.py and the paging *)
(* of github.py), against a GitHub that may fail any request and an        *)
(* organisation that changes while its repositories are being listed.      *)
(***************************************************************************)
EXTENDS GovernanceChecks, FiniteSets

CONSTANTS Repos,
          Worlds,         \* functions from Repos to what each one is like
          Orgs,           \* what the organisation may consist of at first
          Configs,        \* what callers ask for
          PerPage,        \* repositories on a page of the listing
          AiPrSample,     \* ai_pr_sample
          SprawlSample,   \* repositories that are fingerprinted
          MaxFailures     \* bound: failing requests in one audit

ASSUME AuditBounds == /\ Orgs \subseteq {s \in Seq(Repos) : s # <<>> /\ IsInjective(s)}
                      /\ Configs \subseteq [ai : BOOLEAN, provider : BOOLEAN, pii : BOOLEAN,
                                     sprawl : BOOLEAN, single : BOOLEAN]
                      /\ {PerPage, AiPrSample, SprawlSample} \subseteq Nat \ {0}
                      /\ MaxFailures \in Nat

(* What GitHub says of a repository's pull requests and files. *)
ASSUME WorldsOK == \A w \in Worlds, r \in Repos : /\ w[r].alerts \in Seq({"high", "low"})
                                                 /\ w[r].prs \in Seq(PullRequest)
                                                 /\ w[r].fixed \in Seq(Nat)
                                                 /\ w[r].python \in Seq(Nat)
                                                 /\ w[r].listed \subseteq DOMAIN w[r].python

VARIABLES world,      \* the repositories
          org,        \* the organisation's repositories now, in GitHub's order
          config,     \* what the caller asked for, and whether a model is configured
          stage,      \* where the audit is
          page,       \* pages of the listing fetched so far
          listing,    \* the repositories to audit
          at,         \* the one it is at, by its place in the listing
          step,       \* the check, or the pull request, it is at
          prints,     \* places and fingerprints made so far
          findings,   \* the report
          trouble,    \* history: the requests that failed, and what they were for
          shifted     \* history: what has happened to the organisation between two pages

vars == <<world, org, config, stage, page, listing, at, step, prints, findings, trouble, shifted>>

Stages == {"start", "list", "checks", "ai list", "ai", "sprawl", "done", "aborted"}

Failures == Cardinality(trouble)

Init ==
  /\ world \in Worlds
  /\ org \in Orgs
  /\ config \in Configs
  /\ stage = "start"
  /\ page = 0
  /\ listing = <<>>
  /\ at = 1
  /\ step = 1
  /\ prints = <<>>
  /\ findings = {}
  /\ trouble = {}
  /\ shifted = "no"

Report(check, found) ==
  {[at |-> at, check |-> check, about |-> f.about, status |-> f.status] : f \in found}

Failed(check, about, outcome) == [at |-> at, check |-> check, about |-> about, outcome |-> outcome]

-----------------------------------------------------------------------------
(* run_audit: a model must be configured if it is asked for.  A slash in   *)
(* the name means a single repository.                                     *)
Start ==
  /\ stage = "start"
  /\ IF config.ai /\ ~config.provider THEN stage' = "aborted" /\ UNCHANGED listing
     ELSE IF config.single THEN stage' = "checks" /\ listing' = <<org[1]>>
     ELSE stage' = "list" /\ UNCHANGED listing
  /\ UNCHANGED <<world, org, config, page, at, step, prints, findings, trouble, shifted>>

(* Where the audit goes when it is through with the repository at i. *)
Sprawl == config.sprawl /\ ~config.single /\ Len(listing') >= 2

StageFrom(i) ==
  IF i <= Len(listing') THEN "checks" ELSE IF Sprawl THEN "sprawl" ELSE "done"

(* Of all that was listed, in its order, what is not archived: the n-th is *)
(* the one with which there are n.                                         *)
NotArchived(all) ==
  LET kept == {i \in DOMAIN all : ~world[all[i]].archived}
      nth(n) == CHOOSE i \in kept : Cardinality({j \in kept : j <= i}) = n
  IN [n \in 1..Cardinality(kept) |-> all[nth(n)]]

PageItems == SubSeq(org, page * PerPage + 1, Least(Len(org), (page + 1) * PerPage))

LastPage_FullOneBug == Len(PageItems) <= PerPage

LastPage == Len(PageItems) < PerPage

(* One page of list_org_repos; a page that is not full is the last.  A     *)
(* page that cannot be fetched ends the audit.                             *)
ListPage ==
  /\ stage = "list"
  /\ \/ /\ page' = page + 1
        /\ IF LastPage
           THEN /\ listing' = NotArchived(listing \o PageItems)
                /\ stage' = StageFrom(1)
           ELSE /\ listing' = listing \o PageItems
                /\ UNCHANGED stage
        /\ UNCHANGED trouble
     \/ /\ Failures < MaxFailures
        /\ \E o \in Outcomes \ {"ok"} : trouble' = trouble \cup {Failed("LIST", <<>>, o)}
        /\ stage' = "aborted"
        /\ UNCHANGED <<page, listing>>
  /\ UNCHANGED <<world, org, config, at, step, prints, findings, shifted>>

(* A repository is created, and comes first; or the first one is deleted.  *)
OrgChanges ==
  /\ stage = "list"
  /\ shifted = "no"
  /\ \/ /\ \E r \in Repos : r \notin ToSet(org) /\ org' = <<r>> \o org
        /\ shifted' = "created"
     \/ /\ Len(org) > 1
        /\ org' = Tail(org)
        /\ shifted' = "deleted"
  /\ UNCHANGED <<world, config, stage, page, listing, at, step, prints, findings, trouble>>

NextRepository ==
  /\ stage' = StageFrom(at + 1)
  /\ at' = IF at < Len(listing) THEN at + 1 ELSE 1
  /\ step' = 1

Repo == world[listing[at]]

(* One check of _run_repo_checks, whatever it raises being caught there.   *)
(* Answers to requests that are not made are of no account ("ok"); the     *)
(* bound is on those that fail.                                            *)
RunCheck ==
  /\ stage = "checks"
  /\ step <= Len(Checks)
  /\ LET check == Checks[step]
         skipped == check = "PII" /\ ~config.pii
     IN \E a \in [Requests(check, Repo) -> Outcomes] :
          LET made == IF skipped THEN {} ELSE Made(check, Repo, a)
              failed == {n \in DOMAIN a : a[n] # "ok"}
              found == IF skipped THEN {} ELSE CheckFindings(check, Repo, a)
          IN /\ Failures + Cardinality(failed) <= MaxFailures
             /\ failed \subseteq made
             /\ trouble' = trouble \cup
                  {Failed(check, IF n = 0 \/ check # "CONFLICT" THEN <<>> ELSE <<n>>, a[n])
                     : n \in failed}
             /\ findings' = findings \cup Report(check, found)
  /\ step' = step + 1
  /\ UNCHANGED <<world, org, config, stage, page, listing, at, prints, shifted>>

ChecksDone ==
  /\ stage = "checks"
  /\ step > Len(Checks)
  /\ IF config.ai
     THEN stage' = "ai list" /\ step' = 1 /\ UNCHANGED <<at, listing>>
     ELSE UNCHANGED listing /\ NextRepository
  /\ UNCHANGED <<world, org, config, page, prints, findings, trouble, shifted>>

-----------------------------------------------------------------------------
(* _run_ai_checks lists the pull requests outside any try block. *)
ListPrsForAi ==
  /\ stage = "ai list"
  /\ \/ /\ stage' = "ai"
        /\ UNCHANGED trouble
     \/ /\ Failures < MaxFailures
        /\ \E o \in Outcomes \ {"ok"} : trouble' = trouble \cup {Failed("AI LIST", <<>>, o)}
        /\ stage' = "aborted"
  /\ UNCHANGED <<world, org, config, page, listing, at, step, prints, findings, shifted>>

Sampled == 1..Least(AiPrSample, Len(Repo.prs))

ContextFails_AbortsBug ==
  /\ stage = "ai"
  /\ step \in Sampled
  /\ Failures < MaxFailures
  /\ trouble' = trouble \cup {Failed("AI CONTEXT", <<step>>, "error")}
  /\ stage' = "aborted"
  /\ UNCHANGED <<world, org, config, page, listing, at, step, prints, findings, shifted>>

(* build_governance_context makes five requests; one failing, or a pull    *)
(* request without an author, skips the pull request, so that all its      *)
(* checks are missing.                                                     *)
ContextFails ==
  /\ stage = "ai"
  /\ step \in Sampled
  /\ \/ ~Repo.prs[step].authored /\ UNCHANGED trouble
     \/ /\ Failures < MaxFailures
        /\ trouble' = trouble \cup {Failed("AI CONTEXT", <<step>>, "error")}
  /\ step' = step + 1
  /\ UNCHANGED <<world, org, config, stage, page, listing, at, prints, findings, shifted>>

(* The three checks of one pull request. *)
AskModel ==
  /\ stage = "ai"
  /\ step \in Sampled
  /\ Repo.prs[step].authored
  /\ \E o \in [ToSet(ModelChecks) -> ModelOutcomes] :
       LET pr == Repo.prs[step]
           failed == {c \in DOMAIN o : o[c] # "said"}
       IN /\ Failures + Cardinality(failed) <= MaxFailures
          /\ \A c \in failed : Asked(c, pr)
          /\ trouble' = trouble \cup {Failed(c, <<step>>, o[c]) : c \in failed}
          /\ findings' = findings \cup
               UNION {Report(c, {Finding(<<step>>, s) : s \in ModelFindings(c, pr, o[c])})
                        : c \in DOMAIN o}
  /\ step' = step + 1
  /\ UNCHANGED <<world, org, config, stage, page, listing, at, prints, shifted>>

AiDone ==
  /\ stage = "ai"
  /\ step \notin Sampled
  /\ UNCHANGED listing
  /\ NextRepository
  /\ UNCHANGED <<world, org, config, page, prints, findings, trouble, shifted>>

-----------------------------------------------------------------------------
(* repo_sprawl.run: fingerprints of the first repositories, one by one.  A *)
(* request that fails other than by 404 leaves the repository out.         *)
TakeFingerprint ==
  /\ stage = "sprawl"
  /\ at <= Least(SprawlSample, Len(listing))
  /\ \E a \in [0..2 -> Outcomes] :
       LET failed == {n \in 0..2 : a[n] # "ok"}
           lost == \E n \in failed : a[n] # "missing"
       IN /\ Failures + Cardinality(failed) <= MaxFailures
          /\ \A n \in failed : \A m \in 0..(n - 1) : a[m] \in {"ok", "missing"}
          /\ trouble' = trouble \cup {Failed("REPO_SPRAWL", <<n>>, a[n]) : n \in failed}
          /\ prints' = IF lost THEN prints
                       ELSE Append(prints, [at |-> at, of |-> Fingerprint(Repo, a)])
  /\ at' = at + 1
  /\ UNCHANGED <<world, org, config, stage, page, listing, step, findings, shifted>>

Name(i) == listing[prints[i].at]

Pairs == {p \in (DOMAIN prints) \X (DOMAIN prints) : p[1] < p[2]}

Before(p, q) == p[1] < q[1] \/ (p[1] = q[1] /\ p[2] < q[2])

(* Each pair of names is compared once, where it is first met. *)
Compared ==
  {p \in Pairs : ~\E q \in Pairs :
     Before(q, p) /\ {Name(q[1]), Name(q[2])} = {Name(p[1]), Name(p[2])}}

ComparePairs ==
  /\ stage = "sprawl"
  /\ at > Least(SprawlSample, Len(listing))
  /\ LET score(p) == Similarity(prints[p[1]].of, prints[p[2]].of)
     IN findings' = findings \cup
          {[at |-> prints[p[1]].at, check |-> "REPO_SPRAWL", about |-> <<prints[p[2]].at>>,
            status |-> IF score(p) >= HighThreshold THEN "FAIL" ELSE "WARN"]
             : p \in {q \in Compared : score(q) >= MedThreshold}}
  /\ stage' = "done"
  /\ UNCHANGED <<world, org, config, page, listing, at, step, prints, trouble, shifted>>

Next ==
  \/ Start \/ ListPage \/ OrgChanges \/ RunCheck \/ ChecksDone
  \/ ListPrsForAi \/ ContextFails \/ AskModel \/ AiDone
  \/ TakeFingerprint \/ ComparePairs

Spec == Init /\ [][Next]_vars

-----------------------------------------------------------------------------
AllChecks == ToSet(Checks) \cup ToSet(ModelChecks) \cup {"REPO_SPRAWL"}

TypeOK ==
  /\ world \in Worlds /\ stage \in Stages /\ page \in Nat /\ shifted \in {"no", "created", "deleted"}
  /\ org \in Seq(Repos) /\ listing \in Seq(Repos)
  /\ at \in Nat \ {0} /\ step \in Nat \ {0}
  /\ prints \in Seq([at : DOMAIN listing, of : [ToSet(Signals) -> {Bare} \cup
                       UNION {{world[r][s] : s \in ToSet(Signals)} : r \in Repos}]])
  /\ findings \subseteq [at : DOMAIN listing, check : AllChecks, about : Seq(Nat),
                         status : {"PASS", "WARN", "FAIL", "UNKNOWN"}]
  /\ Failures <= MaxFailures

(* What the checks of the repository at i find when nothing fails. *)
ExpectedOf(i, check) ==
  LET r == world[listing[i]]
      model(n) == IF Asked(check, r.prs[n])
                  THEN {ModelStatus(check, r.prs[n].verdict[check])} ELSE {}
      found == IF check \in ToSet(Checks) THEN Expected(check, r)
               ELSE UNION {{Finding(<<n>>, s) : s \in model(n)} :
                             n \in 1..Least(AiPrSample, Len(r.prs))}
  IN {[at |-> i, check |-> check, about |-> f.about, status |-> f.status] : f \in found}

ChecksToRun ==
  {c \in AllChecks : /\ c = "PII" => config.pii
                     /\ c \in ToSet(ModelChecks) => config.ai
                     /\ c # "REPO_SPRAWL"}

(* A failing request that explains why f is not in the report: one of its  *)
(* check on its repository that was about all of it or about f's pull      *)
(* request, or that raised what the check does not catch.                  *)
Explains(t, f) ==
  /\ t.at = f.at
  /\ \/ t.check = f.check /\ (t.about \in {<<>>, f.about} \/ t.outcome = "broken")
     \/ t.check = "AI CONTEXT" /\ f.check \in ToSet(ModelChecks) /\ t.about = f.about

(* Another reason why f is not in the report: its check could not name the *)
(* author of a pull request (for a check of the model, of f's own).        *)
AuthorMissing(f) ==
  LET r == world[listing[f.at]] IN
  \/ Nameless(f.check, r) # {}
  \/ f.check \in ToSet(ModelChecks) /\ ~r.prs[f.about[1]].authored

(* A report is complete but for what a failing request of the same check   *)
(* on the same repository explains, or an author of its pull requests who  *)
(* is gone: nothing that fails in one check, pull request or repository    *)
(* hides what another has found (engine.py:163-218).  REPO_SPRAWL, which   *)
(* compares repositories with each other, is not among these checks.       *)
FailureStaysLocal ==
  stage = "done" =>
    \A i \in DOMAIN listing, c \in ChecksToRun : \A f \in ExpectedOf(i, c) :
      f \in findings \/ AuthorMissing(f) \/ \E t \in trouble : Explains(t, f)

(* Every finding is one a complete check would make, or a way in which the *)
(* code reads a failing request as an answer: no alerts from 403 and 404,  *)
(* no CI files from a missing tree, no runs from a refused request, no     *)
(* plan, diff or review verdict from a model that fails, and, for two      *)
(* places that are alike, one repository listed twice by a listing that    *)
(* shifted between its pages.  In particular PASS never comes of an error  *)
(* except for Dependabot's 403 and 404 (github.py:100-105).                *)
ReadAsAnswer(f, t) ==
  /\ t.at = f.at /\ t.check = f.check
  /\ CASE f.check = "DEPENDABOT" -> f.status = "PASS" /\ t.outcome \in {"forbidden", "missing"}
       [] f.check = "DEPLOY_WITHOUT_TEST" ->
            \/ f.status = "FAIL" /\ t.outcome = "missing"
            \/ f.status = "WARN" /\ t.outcome # "broken"
       [] f.check = "PII" -> t.outcome = "missing"
       [] f.check \in ToSet(ModelChecks) ->
            /\ t.about = f.about
            /\ f.status = "UNKNOWN" \/ (f.check = "HITL" /\ f.status = "WARN")
       [] OTHER -> FALSE

NothingMadeUp ==
  \A f \in findings :
    IF f.check = "REPO_SPRAWL"
    THEN listing[f.at] # listing[f.about[1]] \/ shifted = "created"
    ELSE f \in ExpectedOf(f.at, f.check) \/ \E t \in trouble : ReadAsAnswer(f, t)

(* An audit is given up, with everything it has found, only for want of a  *)
(* model or because a list of repositories or, for the model's checks, of  *)
(* pull requests could not be had (engine.py:117, engine.py:230).          *)
AbortOnlyByListing ==
  stage = "aborted" =>
    \/ config.ai /\ ~config.provider
    \/ \E t \in trouble : t.check \in {"LIST", "AI LIST"}

(* Every repository that was there all along is audited, unless one that  *)
(* was listed before it disappeared between two pages; and once, unless    *)
(* one appeared; and none that is archived (list_org_repos).               *)
EveryRepositoryOnce ==
  stage \in {"checks", "done"} /\ ~config.single =>
    LET old == IF shifted = "created" THEN ToSet(Tail(org)) ELSE ToSet(org)
    IN /\ shifted # "deleted" => {r \in old : ~world[r].archived} \subseteq ToSet(listing)
       /\ shifted # "created" => IsInjective(listing)
       /\ \A r \in ToSet(listing) : ~world[r].archived
=============================================================================
