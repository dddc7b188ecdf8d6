SPECIFICATION FairSpec
CONSTANTS
  c1 = c1
  c2 = c2
  Calls <- OneCall
  Captures <- BothStreams
  PipeCap = 2
  MaxOut = 3
  Codes = {0, 1}
  MayFail = {}
PROPERTIES EveryCallReturns
CHECK_DEADLOCK FALSE
