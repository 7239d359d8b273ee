\* Two clients that share one PTY: its output and its keyboard.
CONSTANTS
  c1 = c1
  c2 = c2
  Clients = {c1, c2}
  MaxChunks = 2
  MaxInputs = 1
  Pieces = 2
  SocketCap = 1
  PtyCap = 2
SPECIFICATION Spec
SYMMETRY ClientSymmetry
CHECK_DEADLOCK FALSE
INVARIANTS StreamOrder EndMeansAll ConservedOutput KeysInOrder
PROPERTIES IsARelay
