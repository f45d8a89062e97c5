SPECIFICATION Spec
CONSTANTS
  Base = 4
  Escape = 2
  WordSize = 2
  Payloads <- SmallPayloads
  PieceSizes = {1, 2}
  MaxFrames = 1
  MaxConnects = 1
  WholeHeaders = FALSE
CHECK_DEADLOCK FALSE
INVARIANTS LengthsGenuine
