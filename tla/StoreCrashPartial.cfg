CONSTANTS
  py = py
  ts = ts
  test = test
  run = run
  helper = helper
  testRun = testRun
  None = None
  Procs = {"cli"}
  Files = {py, ts, test}
  Symbols = {run, helper, testRun}
  Versions = {0, 1}
  Absent = 0
  Contents <- MCFreeContents
  Place <- MCPlace
  Module <- MCModule
  Source <- MCSource
  Tested <- MCTested
  FileCap = 3
  GitStates = {"repo"}
  MaxSnapshots = 2
  MaxFailures = 1
SPECIFICATION Spec
INVARIANT CurrentSnapshotComplete
