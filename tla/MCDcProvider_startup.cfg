SPECIFICATION FairSpec
CONSTANTS
  boot = boot
  home = home
  away = away
  NoFile = NoFile
  Boot = boot
  Ids = {1, 2, 3}
  Addresses = {boot, home, away}
  Arrangements <- MovesAway
  AllDcs = 3
  MaxRuns = 3
  MaxLost = 2
CHECK_DEADLOCK FALSE
INVARIANTS TypeOK ReadyMeansKeys TransferReachesAll
PROPERTIES HandshakeSavedByTransferOnly LoginSurvives FirstStartReady TransferEnds
