SPECIFICATION Spec
CONSTANTS
  U64Max = 6
  Principals = {alice, bob}
  Pda = pda
  None = none
  Configs <- MCConfigs
  Amounts = {0, 1, 2, 3, 4, 5, 6}
  MaxTime = 6
INVARIANTS
  SpanBound
  WindowReopens
PROPERTIES
  NoMintAroundBreaker
  DeletionIsFinal
  EmptyPercentMintStaysEmpty
