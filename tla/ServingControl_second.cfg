CONSTANTS
  Candidates = {c1, c2}
  Processes = {api}
  Operator = Operator
  Origin = Origin
  NoControl = NoControl
  Generations = 2
SPECIFICATION ServingSpec
CHECK_DEADLOCK FALSE
INVARIANTS
  AcceptedIsPromotedOver
