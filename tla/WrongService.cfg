\* What the error a peer of another protocol gets says.
CONSTANTS
  Walk <- MCWalk
  Hashes <- MCHashes
  Targets <- MCTargets
  Protocols = {"pty", "sessions"}
SPECIFICATION Spec
CHECK_DEADLOCK FALSE
INVARIANT WrongVersionIsAboutVersions
