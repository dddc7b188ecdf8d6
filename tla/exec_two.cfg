SPECIFICATION FairSpec
CONSTANTS
  c1 = c1
  c2 = c2
  Calls <- TwoCalls
  Captures <- OneStream
  PipeCap = 1
  MaxOut = 2
  Codes = {0, 1}
  MayFail <- NoRead
PROPERTIES EveryCallReturns
CHECK_DEADLOCK FALSE
