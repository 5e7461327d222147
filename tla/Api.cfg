CONSTANTS
  Owners = {c1, c2}
  Hashes = {1, 2}
  NoClaim = NoClaim
  Absent = Absent
  Ids = {a1, a2}
  Graphs = {g}
  Tokens = {t1}
  NoId = NoId
  NoToken = NoToken
  Jobs = {j}
  Requests = {r1, r2}
  NoJob = NoJob
  Datasets = 2
  Inspections = {i1, i2, i3, i4}
  Projects = {p1, p2}
  Sizes = {1, 2, 3}
  MaxStored = 3
  MaxBytes = 5
  MaxProjectBytes = 4
  MaxEntryBytes = 3
  NoProject = NoProject
  NoMethod = NoMethod
SPECIFICATION ApiSpec
CHECK_DEADLOCK FALSE
INVARIANTS
  ApiTypesOK
  LedgerIsValid
  SucceededIsIndexed
  TrueIsIndexed
  ShownIsCoherent
  BoundFilesStay
  RegisteredIsKept
  RegisteredOnShelf
  StartedOnce
  SuccessIsFinal
  CacheFits
PROPERTIES
  StaysVisible
  CallsReturn
  ConversionsEnd
