SPECIFICATION FairSpec
CONSTANTS
  Writers = {1, 2}
  Kinds <- MCKinds
  DaemonLevel = 1
  RingSize = 2
  MaxSent = 4
  MaxDay = 2
  MaxTroubles = 1
  MaxFileSize = 3
  MaxBackupIndex = 1
INVARIANTS
  NothingSkipped
  RepeatsOnlyAfterKills
  RollingKeeps
  DailyKeeps
PROPERTIES
  Drained
