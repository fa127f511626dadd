SPECIFICATION FairSpec
CONSTANTS
  wiki = wiki
  Source = {wiki}
  Local = Local
  None = None
  MaxJobs = 2
  MaxFiles = 2
  LocalJobs = {1, 2}
INVARIANT TypeOK
INVARIANT ReportsAreTrue
PROPERTY EndedLogsStay
PROPERTY SeenLogEnds
CHECK_DEADLOCK FALSE
