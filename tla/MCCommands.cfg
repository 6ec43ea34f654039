SPECIFICATION FairSpec
CONSTANTS
  c1 = c1
  c2 = c2
  c3 = c3
  d1 = d1
  d2 = d2
  Collections = {c1, c2, c3}
  Databases = {d1, d2}
  DatabaseOf <- MCDatabaseOf
  Home = d1
  Only = c1
  ServerStates <- MCServerStates
  LoadThreshold = 50
  MaxClock = 1
  Files <- MCFiles
INVARIANTS
  HealthyReportIsComplete
  EveryListedCollectionIsReported
  ExitCodeTellsTheTruth
  TestExitMeansShown
  ClientIsReleasedOnce
  AcceptedConfigNeverPanics
PROPERTIES
  CommandEnds
  IsTheAlertChannel
CHECK_DEADLOCK FALSE
