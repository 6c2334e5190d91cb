------------------------- MODULE MCGovernanceAudit -------------------------
(* GovernanceAudit for TLC: three repositories in two small worlds that    *)
(* between them have every kind of finding.  In the second world r2 has a  *)
(* pull request without an author and alerts on a second page.             *)
EXTENDS GovernanceAudit

CONSTANTS r1, r2, r3

NoPrs == <<>>
Verdicts(plan, diff, review) ==
  [c \in {"PLAN_BEFORE_SHIP", "INFLATED_DIFF", "HITL"} |->
     CASE c = "PLAN_BEFORE_SHIP" -> plan [] c = "INFLATED_DIFF" -> diff [] c = "HITL" -> review]

Troubled ==
  [archived |-> FALSE, alerts |-> <<"high">>, ci |-> TRUE, runs |-> {"deploy"},
   prs |-> << [stale |-> TRUE, merge |-> "dirty", authored |-> TRUE, large |-> TRUE,
               verdict |-> Verdicts("bad", "good", "bad")],
              [stale |-> FALSE, merge |-> "behind", authored |-> TRUE, large |-> FALSE,
               verdict |-> Verdicts("good", "good", "unsure")] >>,
   fixed |-> <<1, 0>>, python |-> <<0, 2, 1>>, listed |-> {1}, readme |-> "x", deps |-> "x", dirs |-> "x"]

Tidy ==
  [archived |-> FALSE, alerts |-> <<>>, ci |-> TRUE, runs |-> {"test", "deploy"}, prs |-> NoPrs,
   fixed |-> <<>>, python |-> <<0>>, listed |-> {}, readme |-> "x", deps |-> "y", dirs |-> "x"]

Young ==
  [archived |-> FALSE, alerts |-> <<"low">>, ci |-> FALSE, runs |-> {}, prs |-> NoPrs,
   fixed |-> <<>>, python |-> <<>>, listed |-> {}, readme |-> Bare, deps |-> "y", dirs |-> "x"]

Deserted ==
  [Tidy EXCEPT !.alerts = <<"low", "high">>,
     !.prs = << [stale |-> TRUE, merge |-> "unknown", authored |-> TRUE, large |-> FALSE,
                 verdict |-> Verdicts("good", "good", "good")],
                [stale |-> TRUE, merge |-> "dirty", authored |-> FALSE, large |-> FALSE,
                 verdict |-> Verdicts("bad", "good", "bad")] >>]

Archived == [Tidy EXCEPT !.archived = TRUE]

MCRepos == {r1, r2, r3}
MCOrgs == {<<r1, r2>>}

Everything == [ai |-> TRUE, provider |-> TRUE, pii |-> TRUE, sprawl |-> TRUE, single |-> FALSE]
MCConfigs ==
  {Everything, [Everything EXCEPT !.single = TRUE], [Everything EXCEPT !.provider = FALSE],
   [ai |-> FALSE, provider |-> FALSE, pii |-> FALSE, sprawl |-> FALSE, single |-> FALSE]}

MCWorlds ==
  {[r \in MCRepos |-> CASE r = r1 -> Troubled [] r = r2 -> Tidy [] r = r3 -> Young],
   [r \in MCRepos |-> CASE r = r1 -> Archived [] r = r2 -> Deserted [] r = r3 -> Tidy]}
=============================================================================
