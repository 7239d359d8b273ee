\* One client: that everybody is released and keys arrive, under fairness.
CONSTANTS
  c1 = c1
  Clients = {c1}
  MaxChunks = 2
  MaxInputs = 2
  Pieces = 2
  SocketCap = 1
  PtyCap = 2
SPECIFICATION FairSpec
CHECK_DEADLOCK FALSE
INVARIANT TypeOK
PROPERTIES PtyEndReleasesUsers KeysReachShell EndReleasesClients IsAWorker
