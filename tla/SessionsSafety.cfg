\* Two policy processes with two requests each, up to two workers, one crash.
CONSTANTS
  p1 = p1
  p2 = p2
  i1 = i1
  i2 = i2
  i3 = i3
  Conns = {p1, p2}
  MaxRequests = 2
  Ids = {i1, i2, i3}
  MaxWorkers = 2
  MaxCrashes = 1
SPECIFICATION Spec
SYMMETRY SessionsSymmetry
CHECK_DEADLOCK FALSE
INVARIANTS TypeOK NobodyStealsSessionId InitComesFirst AttachedIsRemembered ReadyIsWhole EveryHolderLives
PROPERTIES SupervisesWorkers
