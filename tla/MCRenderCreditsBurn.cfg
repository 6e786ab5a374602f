SPECIFICATION Spec
CONSTANTS
  alice = alice
  bob = bob
  U64Max = 3
  Keys = {admin}
  Credits = credits
  Pda = pda
  None = none
  Owners = {alice, bob}
  Oracles = {pyth}
  Prices <- OnePrice
  Factor = 3
  MaxAge = 1
  Configs <- MCConfigs
  Amounts = {1, 2}
  Starts <- MCStarts
  Rndr = 2
  MaxPurchases = 2
  MaxOutside = 1
  MaxTime = 2
SYMMETRY Interchangeable
PROPERTIES
  BurnIsRecorded
