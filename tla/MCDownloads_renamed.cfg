SPECIFICATION Spec
CONSTANTS
  d1 = d1
  p1 = p1
  p2 = p2
  Dcs = {d1}
  Photos = {p1, p2}
  Own = {p2}
  DcOf <- OneDc
  SizeOf <- Sizes
  Block = 2
  MaxFiles = 1
  Stray = Stray
  None = None
  PartTypes = {TRUE, FALSE}
  MaxRuns = 1
  MaxLost = 0
  MaxRecomposed = 1
CHECK_DEADLOCK FALSE
INVARIANTS AnswerKnown
