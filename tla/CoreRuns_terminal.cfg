CONSTANTS
  Runs = {r1, r2}
SPECIFICATION CoreRunsSpec
CHECK_DEADLOCK FALSE
PROPERTIES
  TerminalIsPreserved
