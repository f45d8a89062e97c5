SPECIFICATION FairSpec
CONSTANTS
  boot = boot
  home = home
  away = away
  NoFile = NoFile
  Boot = boot
  Ids = {1, 2, 3}
  Addresses = {boot, home, away}
  Arrangements <- MovesAway
  AllDcs = 3
  MaxRuns = 2
  MaxLost = 0
CHECK_DEADLOCK FALSE
PROPERTIES Announced
