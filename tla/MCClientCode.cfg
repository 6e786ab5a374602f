SPECIFICATION ClientSpec
CONSTANTS
  Calls = {"multiple", "remote", "bulk"}
  N = 3
  BatchSize = 2
  Tries = 2
  Validity = 1
  MaxAge = 1
  m1 = "m1"
  m2 = "m2"
  Mints = {"m1", "m2"}
  Existing = {"m1"}
  Owners <- MCOwners
  Wallet = "wallet"
  Callers = {c1, c2}
  Requests <- MCRequests
  MaxTries = 2
  MaxFaults = 2
  Instructions <- MCInstructions
  Batches <- MCBatches
  Client = "render_credits"
  IdlErrors <- MCIdlErrors
  Codes <- MCCodes
  Assets = {0, 1}
  Trees <- MCTrees
  Buffer = 2
  MaxAccounts = 2
  Lag = 2
  MaxChanges = 4
  Mantissa = 10
  Scale = 16
  Decimals = {0, 1, 2}
  ShownDigits = 1
  MaxAmount = 1030
  Runs = {r1, r2, r3}
  Transfers = {t1, t2, t3}
  Inputs = {2, 3, 8}
  IsWhole <- MCIsWhole
  Balance = 6
INVARIANTS
  LandsInOrder
  ReturnsWhatLanded
  NoTwoAlive
  EffectsAreCounted
  ResolvedAsMeant
  CodesAreTold
  ReadsAreConsistent
  UnitsAreKept
  HandedOverComplete
  MarksAreTrue
PROPERTIES
  BulkEnds
CHECK_DEADLOCK FALSE
