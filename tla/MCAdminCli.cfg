SPECIFICATION AdminSpec
CONSTANTS
  Files <- MCFiles
  MaxBridge = 2
  MaxFaults = 2
  Calls <- MCCalls
  Large = {3}
  Tries = 3
INVARIANTS
  FundedOnce
  DoneIsDeployed
  ReturnedIsComplete
PROPERTY RerunCompletes
CHECK_DEADLOCK FALSE
