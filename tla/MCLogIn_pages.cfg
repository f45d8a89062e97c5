SPECIFICATION FairSpec
CONSTANTS
  near = near
  far = far
  NoHash = NoHash
  Ids = {1, 2}
  Phones = {near, far}
  Home <- HomeOf
  MaxPages = 2
  MaxAsks = 3
  MaxLost = 1
CHECK_DEADLOCK FALSE
INVARIANTS TypeOK MainAtWorking OldSessionsClosed MainAlive MarkedTruly
PROPERTIES OutcomeTold
