CONSTANTS
  MaxStep = 3
  Minimum = 2
  Patience = 1
  Losses = {1, 2, 3}
  NoStep = NoStep
SPECIFICATION TrainSpec
CHECK_DEADLOCK FALSE
INVARIANTS
  BestIsSelected
