SPECIFICATION Spec
CONSTANTS
  d1 = d1
  NoSession = NoSession
  DCs = {d1}
  DcOf <- OneDc
  Sessions = {s1}
  Queries = {q1}
  Oversized = {}
  Unresendable = {}
  SendStates <- AnyState
  ResendQueries = TRUE
  IdsPerSecond = 10
  Ahead = 1
  Behind = 2
  Start = 2
  MaxTime = 2
  Skews <- ClockMoves
  KeyRestored = TRUE
  MaxAdjust = 1
  MaxSalt = 2
  MaxLost = 1
  MaxDrops = 1
  MaxRejects = 2
  MaxPush = 1
  MaxBatch = 2
  AckAfterResult = TRUE
CHECK_DEADLOCK FALSE
INVARIANTS IInv
PROPERTIES KeepsPromise AnswerIsFinal
