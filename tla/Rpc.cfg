CONSTANTS
  MaxCalls = 3
SPECIFICATION FairSpec
INVARIANT TypeOK
INVARIANT AnswersMatch
INVARIANT AnswersInOrder
INVARIANT OnlyFailureRejects
PROPERTY ServerExits
PROPERTY ImplementsCalls
CHECK_DEADLOCK FALSE
