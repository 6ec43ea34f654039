SPECIFICATION Spec
CONSTANTS
  c1 = c1
  s1 = s1
  s2 = s2
  Collections = {c1}
  Scrapers = {s1, s2}
  MaxRefreshes = 2
SYMMETRY ScraperAndCollectionSymmetry
INVARIANTS
  ObservedErrorsAreCounted
