---------------------------- MODULE MCHostedApi ----------------------------
(* The requests asked in the runs of HostedApi.  One without a repository, *)
(* one that may not be posted, the report's three cases, and an explain    *)
(* that is refused or goes the whole way; the other routes differ from     *)
(* these in what they render only.                                         *)
EXTENDS HostedApi

Ask(route, repo, range) == [route |-> route, repo |-> repo, range |-> range]

MCAsked ==
  {Ask("health", "missing", FALSE), Ask("post", "missing", FALSE),
   Ask("report", "missing", FALSE), Ask("report", "proper", FALSE),
   Ask("report", "proper", TRUE), Ask("explain", "refused", TRUE),
   Ask("explain", "proper", TRUE)}

=============================================================================
