SPECIFICATION Spec
CONSTANTS
  file1 = file1
  file2 = file2
  Procs = {"cli", "rpc"}
  Files = {file1, file2}
  Texts = {"t1", "t2"}
  DependsOn <- MCDependsOn
  MaxSnippets = 2
  Chains = {2}
  MaxOps = 3
  MaxEdits = 1
  MaxDeaths = 1
CHECK_DEADLOCK FALSE
INVARIANT AnswerIsForThisPrompt
INVARIANT PaidAgainOnlyIf
PROPERTY LockComesBack
