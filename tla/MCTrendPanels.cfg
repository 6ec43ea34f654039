SPECIFICATION FairSpec
CONSTANTS
  m1 = m1
  m2 = m2
  m3 = m3
  Metrics = {m1, m2, m3}
  CategoryOf <- MCCategoryOf
  FirstCategory = "overview"
  Ranges = {"5m", "1h", "6h"}
  FirstRange = "1h"
  Keywords <- MCKeywords
  MaxLoads = 5
INVARIANTS
  PanelsMatchTheSelection
  ChartsAreThoseOfTheGrid
PROPERTIES
  EveryPanelSettles
CHECK_DEADLOCK FALSE
