SPECIFICATION Spec
CONSTANTS
  d1 = d1
  NoSession = NoSession
  DCs = {d1}
  DcOf <- OneDc
  Sessions = {s1, s2}
  Queries = {q1, q2}
  Oversized = {}
  Unresendable = {q2}
  SendStates = {"connected"}
  ResendQueries = FALSE
  IdsPerSecond = 10
  Ahead = 1
  Behind = 3
  Start = 2
  MaxTime = 2
  Skews <- NoSkew
  KeyRestored = FALSE
  MaxAdjust = 0
  MaxSalt = 2
  MaxLost = 0
  MaxDrops = 0
  MaxRejects = 0
  MaxPush = 0
  MaxBatch = 2
  AckAfterResult = FALSE
CHECK_DEADLOCK FALSE
INVARIANTS TypeOK PendingConsistent NoQueryForgotten MsgIdsUnique ResendKeepsIdentity SeqFollowsId
