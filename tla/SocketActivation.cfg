CONSTANTS
  Bytes = {"s", "o"}
  MaxBytes = 4
  MaxFds = 4
  SessionsName <- MCSessionsName
SPECIFICATION Spec
CHECK_DEADLOCK FALSE
INVARIANTS TypeOK YieldsTheirNames ListensOnItsOwn PanicsOnlyWithoutNames
