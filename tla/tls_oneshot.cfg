SPECIFICATION WSpec
CONSTANTS
  k1 = k1
  k2 = k2
  Clients <- TwoClients
  NoClient = NoClient
  Oneshot = TRUE
  FileSizes <- Sizes
  SockBuf = 1
  Segments = 2
  ReqCap = 2
  MaxSigs = 2
  MayHangUp = TRUE
  MayChange = TRUE
  IntWrap = 3
  MayFail <- AllFailures
INVARIANTS OneshotVerdict ReturnReleases WindowsReleases
