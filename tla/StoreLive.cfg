CONSTANTS
  py = py
  ts = ts
  test = test
  run = run
  helper = helper
  testRun = testRun
  None = None
  Procs = {"cli", "rpc"}
  Files = {py, ts, test}
  Symbols = {run, helper, testRun}
  Versions = {0, 1}
  Absent = 0
  Contents <- MCFreeContents
  Place <- MCPlace
  Module <- MCModule
  Source <- MCSource
  Tested <- MCTested
  FileCap = 1
  GitStates = {"repo", "no git"}
  MaxSnapshots = 1
  MaxFailures = 1
SPECIFICATION FairSpec
INVARIANT NoTruncatedScan
PROPERTY LockIsReleased
