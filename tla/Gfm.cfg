CONSTANTS
  Pids = {p1, p2}
  MaxBorn = 4
  Nobody = Nobody
  Runs = {r1, r2}
  Candidates = {c1, c2}
  Processes = {api}
  Operator = Operator
  Origin = Origin
  NoControl = NoControl
  Generations = 2
  Graphs = {g1, g2}
  Questions = {q}
  NoJob = NoJob
  MaxStep = 3
  Minimum = 2
  Patience = 1
  Losses = {1, 2, 3}
  NoStep = NoStep
  Strata = 2
  Quota = 3
  PerPage = 2
  Budget = 4
  NoResume = NoResume
SPECIFICATION GfmSpec
CHECK_DEADLOCK FALSE
INVARIANTS
  GfmTypesOK
  SuccessIsKept
  PromotedHolds
  PromotionsGoOn
  ProgressIsKept
  FetchedOnce
  ServicesAreRecorded
PROPERTIES
  JobsKeepOutcomes
  CoreRunsEnd
  JobsEnd
