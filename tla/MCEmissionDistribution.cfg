SPECIFICATION Spec
CONSTANTS
  artist = artist
  node = node
  U64Max = 470
  Keys = {admin}
  Distributor = distributor
  Pda = pda
  None = none
  Owners = {artist, node}
  RewardsArgs <- MCRewardsArgs
  Schedules <- MCSchedules
  Thresholds = {5}
  EpochLength = 3
  CronTimes = {1, 3}
  MaxFailures = 0
  Horizon = 3
  MaxTime = 8
CHECK_DEADLOCK FALSE
INVARIANTS
  FairShares
  PassWithinEpoch
  EmissionsFollowTheCron
PROPERTIES
  MintIsGuarded
  PassCompletes
