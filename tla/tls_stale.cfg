SPECIFICATION WSpec
CONSTANTS
  k1 = k1
  k2 = k2
  Clients <- TwoClients
  NoClient = NoClient
  Oneshot = FALSE
  FileSizes <- TwoSizes
  SockBuf = 1
  Segments = 2
  ReqCap = 2
  MaxSigs = 0
  MayHangUp = FALSE
  MayChange = FALSE
  IntWrap = 3
  MayFail = {}
INVARIANTS ReadsToTerminator
