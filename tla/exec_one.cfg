SPECIFICATION FairSpec
CONSTANTS
  c1 = c1
  c2 = c2
  Calls <- OneCall
  Captures <- AllCaptures
  PipeCap = 2
  MaxOut = 3
  Codes = {0, 1}
  MayFail <- AnyFailure
INVARIANTS AllOrNothing ChildReaped NoEndLeaked
PROPERTIES ReturnsUnlessStuck
CHECK_DEADLOCK FALSE
