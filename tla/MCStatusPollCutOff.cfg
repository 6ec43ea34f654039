SPECIFICATION FairPollSpec
CONSTANTS
  Collections = {}
  Interval = 1
  FirstInterval = 2
  MaxFlights = 2
  MaxClock = 4
  MaxBoots = 2
PROPERTIES
  StaleDataIsMarked
