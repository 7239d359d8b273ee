\* Two clients that type nothing: the output side under fairness.
CONSTANTS
  c1 = c1
  c2 = c2
  Clients = {c1, c2}
  MaxChunks = 2
  MaxInputs = 0
  Pieces = 1
  SocketCap = 1
  PtyCap = 1
SPECIFICATION FairSpec
CHECK_DEADLOCK FALSE
PROPERTIES OutputKeepsFlowing AnswersSupervisor
