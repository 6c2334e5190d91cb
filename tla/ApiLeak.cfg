SPECIFICATION Spec
CONSTANTS
  Conns = {"c1", "c2"}
  MaxConcurrency = 1
  Accounts = {"ordinary"}
  Asked <- MCAsked
  MaxRequests = 2
  MaxExits = 1
CHECK_DEADLOCK FALSE
INVARIANT CheckoutsRemoved
