SPECIFICATION Spec
CONSTANTS
  c1 = c1
  s1 = s1
  s2 = s2
  Collections = {c1}
  Scrapers = {s1, s2}
  MaxRefreshes = 3
SYMMETRY ScraperAndCollectionSymmetry
INVARIANTS
  NoErrorIsCountedTwice
  StoreShowsTheLatestRefresh
PROPERTIES
  ScrapesNeverGoBack
