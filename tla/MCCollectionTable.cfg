SPECIFICATION TableSpec
CONSTANTS
  Ids = {1, 2, 3, 4}
  ListedStates = {"loading", "not_load"}
  Filters = {"loading", "not_load"}
  PageSizes = {1, 2}
  Neighbours = 1
INVARIANTS
  RowsAndButtonsAgree
PROPERTIES
  RefreshKeepsThePage

