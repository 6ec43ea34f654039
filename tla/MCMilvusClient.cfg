SPECIFICATION FairSpec
CONSTANTS
  d1 = d1
  d2 = d2
  n1 = n1
  i1 = i1
  Databases = {d1, d2}
  Names = {n1}
  Indexes = {i1}
  Codes <- MCCodes
  Collections <- MCCollections
INVARIANTS
  HealthyIndexesWereBuilt
  AnswersAreAboutTheTarget
  ItemsAreWhatTheCheckerExpects
PROPERTIES
  EveryCallReturns
