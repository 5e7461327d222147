CONSTANTS
  RunGrants = {run1, run2}
  ReportGrants = {report1, report2}
  ReviewGrants = {review1, review2}
  Calls = {c1, c2}
  Texts = {t}
  NoGrant = NoGrant
  Free = Free
  MaxVersion = 3
  Runs = {report1, report2}
  Callers = {c1, c2}
  NoRun = NoRun
  FinalWritesFail = TRUE
SPECIFICATION GovernanceSpec
SYMMETRY Symmetry
CHECK_DEADLOCK FALSE
INVARIANTS
  GovernanceTypesOK
  OncePerGrant
  CompletedIsDone
  PreparedIsAudited
  ReviewFitsCase
  OneReviewPerVersion
  ResultsMatchStatus
  RetriesEndedRuns
PROPERTIES
  RunsKeepOutcomes
