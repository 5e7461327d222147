CONSTANTS
  Ids = {a1}
  Graphs = {g}
  Tokens = {t1}
  NoId = NoId
  NoToken = NoToken
SPECIFICATION StoreSpec
CHECK_DEADLOCK FALSE
INVARIANTS
  OnlyOrphansAreLeft
