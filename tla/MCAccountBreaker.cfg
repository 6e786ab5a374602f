SPECIFICATION Spec
CONSTANTS
  U64Max = 5
  Principals = {alice, bob}
  Pda = pda
  None = none
  Configs <- MCConfigs
  MaxTime = 5
INVARIANTS
  SpanBound
PROPERTIES
  NoTransferAroundBreaker
