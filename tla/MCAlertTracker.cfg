SPECIFICATION FairSpec
CONSTANTS
  c1 = c1
  c2 = c2
  Collections = {c1, c2}
  Watched = c1
  ReportedStates <- MCReportedStates
  LoadingTimeout = 1
  RepeatInterval = 2
  MaxClock = 4
INVARIANTS
  TypeOK
  AlertsAreForUnbrokenLoading
  AlertSpacing
  RemindersFollowAnAcknowledgement
PROPERTIES
  UnacknowledgedIsSentAgain
  CollectionIsTimedAlone
  LoadingIsEventuallyAnnounced
