\* Two threads of one process, with a table that fills up.
CONSTANTS
  t1 = t1
  t2 = t2
  Threads = {t1, t2}
  Kinds <- ProtocolKinds
  MaxFiles = 3
  MaxMessages = 2
  MaxNumber = 4
SPECIFICATION Spec
SYMMETRY ThreadSymmetry
CHECK_DEADLOCK FALSE
INVARIANTS TypeOK NobodyClosesAnothers ReturnedIsComplete OnlyRejectedLeak
