SPECIFICATION WFairSpec
CONSTANTS
  k1 = k1
  k2 = k2
  Clients <- TwoClients
  NoClient = NoClient
  Oneshot = FALSE
  FileSizes <- TwoSizes
  SockBuf = 1
  Segments = 2
  ReqCap = 2
  MaxSigs = 1
  MayHangUp = TRUE
  MayChange = TRUE
  IntWrap = 3
  MayFail <- LoopFailures
INVARIANTS IterationReleases AtMostOneMore NoConnectionLeft CompleteResponse ReturnReleases
PROPERTIES Served
