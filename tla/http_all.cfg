SPECIFICATION WFairSpec
CONSTANTS
  k1 = k1
  k2 = k2
  Clients <- TwoClients
  NoClient = NoClient
  FileSizes <- Sizes
  SockBuf = 1
  Segments = 1
  MaxCalls = 2
  MaxSigs = 1
  MayHangUp = TRUE
  MayChange = TRUE
  MayFail = {"socket", "listen", "accept", "fopen", "ftell", "malloc"}
INVARIANTS AtMostOneMore NoConnectionLeft ResponseShape CompleteUnlessCut ReturnReleases
PROPERTIES Served
