\* Every mix of two protocols and of builds from trees of two paths.
CONSTANTS
  Walk <- MCWalk
  Hashes <- MCHashes
  Targets <- MCTargets
  Protocols = {"pty", "sessions"}
SPECIFICATION FairSpec
CHECK_DEADLOCK FALSE
INVARIANTS TypeOK Agreement OkMeansSameSources CompatiblePeersMeet NobodyWaitsInVain
PROPERTIES NobodyWaits
