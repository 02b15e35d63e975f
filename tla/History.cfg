SPECIFICATION Spec
CONSTANTS
  PageSize = 2
  MaxRecords = 5
  MaxTears = 2
  MaxRequests = 3
INVARIANTS
  TearsCostOne
  PageIsTrue
CHECK_DEADLOCK FALSE
