\* One policy process with three requests, two workers at a time, a crash, under fairness.
\* There is an id for every request: the loop that looks for a vacant one ends.
CONSTANTS
  p1 = p1
  i1 = i1
  i2 = i2
  i3 = i3
  Conns = {p1}
  MaxRequests = 3
  Ids = {i1, i2, i3}
  MaxWorkers = 2
  MaxCrashes = 1
SPECIFICATION FairSpec
CHECK_DEADLOCK FALSE
PROPERTIES ClientsAreAnswered NoForgottenShell
