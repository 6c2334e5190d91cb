SPECIFICATION Spec
CONSTANTS
  MaxClients = 2
  MaxTasks = 5
  MaxCommands = 2
  MaxElsewhere = 1
CHECK_DEADLOCK FALSE
INVARIANT TypeOK
INVARIANT OwnAnalyzeShown
INVARIANT StatusLagsOnlyByImpact
PROPERTY NeverStuckLoading
