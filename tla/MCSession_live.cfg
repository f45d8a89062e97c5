SPECIFICATION FairSpec
CONSTANTS
  d1 = d1
  NoSession = NoSession
  DCs = {d1}
  DcOf <- OneDc
  Sessions = {s1}
  Queries = {q1, q2, q3}
  Oversized = {q2, q3}
  Unresendable = {q2, q3}
  SendStates = {"connected"}
  ResendQueries = FALSE
  IdsPerSecond = 10
  Ahead = 1
  Behind = 3
  Start = 2
  MaxTime = 3
  Skews <- NoSkew
  KeyRestored = FALSE
  MaxAdjust = 0
  MaxSalt = 2
  MaxLost = 0
  MaxDrops = 0
  MaxRejects = 0
  MaxPush = 1
  MaxBatch = 2
  AckAfterResult = FALSE
CHECK_DEADLOCK FALSE
INVARIANTS EntriesWereSent
PROPERTIES EventuallyAnswered
