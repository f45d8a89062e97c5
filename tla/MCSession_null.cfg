SPECIFICATION Spec
CONSTANTS
  d1 = d1
  NoSession = NoSession
  DCs = {d1}
  DcOf <- OneDc
  Sessions = {s1}
  Queries = {q1}
  Oversized = {}
  Unresendable = {}
  SendStates = {"connected"}
  ResendQueries = FALSE
  IdsPerSecond = 10
  Ahead = 1
  Behind = 3
  Start = 2
  MaxTime = 2
  Skews <- NoSkew
  KeyRestored = FALSE
  MaxAdjust = 0
  MaxSalt = 3
  MaxLost = 0
  MaxDrops = 0
  MaxRejects = 0
  MaxPush = 0
  MaxBatch = 2
  AckAfterResult = FALSE
CHECK_DEADLOCK FALSE
INVARIANTS NeverNull
