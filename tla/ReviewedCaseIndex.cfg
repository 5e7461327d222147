CONSTANTS
  Procs = {p1, p2}
  Cases = {c1, c2}
  Evidence = {e1, e2}
  Absent = Absent
  NoFile = NoFile
  NoTransition = NoTransition
  NoProc = NoProc
  Query = Query
SPECIFICATION FairSpec
INVARIANTS
  AlwaysRecoverable
  IndexedIsDurable
PROPERTIES
  ImplementsBook
  RepairedIfUsed
