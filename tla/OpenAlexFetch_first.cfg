CONSTANTS
  Strata = 2
  Quota = 3
  PerPage = 2
  Budget = 5
  NoResume = NoResume
SPECIFICATION FetchSpec
CHECK_DEADLOCK FALSE
PROPERTIES
  PagesAreResumable
