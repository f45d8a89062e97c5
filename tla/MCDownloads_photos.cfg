SPECIFICATION FairSpec
CONSTANTS
  d1 = d1
  p1 = p1
  p2 = p2
  Dcs = {d1}
  Photos = {p1, p2}
  Own = {p1, p2}
  DcOf <- OneDc
  SizeOf <- Sizes
  Block = 2
  MaxFiles = 2
  Stray = Stray
  None = None
  PartTypes = {TRUE, FALSE}
  MaxRuns = 2
  MaxLost = 2
  MaxRecomposed = 2
CHECK_DEADLOCK FALSE
INVARIANTS TypeOK FilesGenuine PlacedOnce
PROPERTIES PhotoArrives
