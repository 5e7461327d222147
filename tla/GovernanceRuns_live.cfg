CONSTANTS
  Runs = {r1, r2}
  Callers = {c1, c2}
  NoRun = NoRun
  FinalWritesFail = FALSE
SPECIFICATION RunsFairSpec
INVARIANTS
  NoneAbandoned
PROPERTIES
  RunsEnd
  CancelledInTime
