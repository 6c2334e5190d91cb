SPECIFICATION Spec
CONSTANTS
  r1 = r1
  r2 = r2
  r3 = r3
  Repos <- MCRepos
  Worlds <- MCWorlds
  Orgs <- MCOrgs
  Configs <- MCConfigs
  Bare = "bare"
  AlertPage = 1
  ConflictCap = 2
  MaxPyFiles = 2
  MaxHits = 2
  PerPage = 1
  AiPrSample = 2
  SprawlSample = 3
  MaxFailures = 2
CHECK_DEADLOCK FALSE
INVARIANT TypeOK
INVARIANT FailureStaysLocal
INVARIANT NothingMadeUp
INVARIANT AbortOnlyByListing
INVARIANT EveryRepositoryOnce
