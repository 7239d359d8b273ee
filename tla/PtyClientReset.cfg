\* One client: what the tests expect of the end of a session.
CONSTANTS
  c1 = c1
  Clients = {c1}
  MaxChunks = 2
  MaxInputs = 2
  Pieces = 2
  SocketCap = 1
  PtyCap = 2
SPECIFICATION Spec
CHECK_DEADLOCK FALSE
INVARIANT SessionEndsCleanly
