SPECIFICATION Spec
CONSTANTS
  c1 = c1
  d1 = d1
  Collections = {c1}
  Databases = {d1}
  DatabaseOf <- MCDatabaseOf
  Home = d1
  Only = c1
  ServerStates <- MCServerStates
  ReportedStates <- MCReportedStates
  LoadThreshold = 100
  LoadingTimeout = 1
  RepeatInterval = 1
  MaxClock = 2
PROPERTIES
  OutageKeepsTheTimers
