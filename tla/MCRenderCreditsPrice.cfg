SPECIFICATION Spec
CONSTANTS
  alice = alice
  bob = bob
  U64Max = 5
  Keys = {admin}
  Credits = credits
  Pda = pda
  None = none
  Owners = {alice}
  Oracles = {pyth}
  Prices <- MCPrices
  Factor = 3
  MaxAge = 1
  Configs <- WiderConfigs
  Amounts = {1, 2}
  Starts <- MCStarts
  Rndr = 3
  MaxPurchases = 2
  MaxOutside = 0
  MaxTime = 2
INVARIANTS
  DollarEquivalent
  NothingForFree
