SPECIFICATION SystemSpec
CONSTANTS
  Threads = {t1, t2}
  PATH <- TwoDirs
  Elsewhere = {"tmp"}
  Unset = "unset"
  NoDir = "empty"
  Fits = {"bin", "sbin", "tmp"}
  MaxInstalled = 2
  MaxChanges = 1
  TableSize = 8
  Pids = {1, 2, 3}
  Names = {"self", "sh", "other"}
  Own = "self"
  Sought = "sh"
  MaxEvents = 3
INVARIANTS SearchTruthful ElevatesEachCommand StreamsWired PidsTruthful
SYMMETRY ThreadsAlike
CHECK_DEADLOCK FALSE
