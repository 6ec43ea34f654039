SPECIFICATION FairSpec
CONSTANTS
  Definitions <- MCDefinitions
  KnownNames <- MCKnownNames
  Variants <- MCVariants
  Thresholds <- MCThresholds
  Values = {0, 1, 95}
  SeriesNames = {1, 2}
  MaxSeries = 1
  MaxQueries = 2
INVARIANTS
  BoundedQueries
  ResponseIsComplete
  NeverSilentlyZero
PROPERTIES
  RequestIsAnswered
