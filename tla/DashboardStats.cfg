SPECIFICATION Spec
CONSTANTS
  none = none
  some = some
  NoFilter <- MCNoFilter
  Filters <- MCFilters
  Scenarios <- MCStats
  MAX_VERSION = 3
  MAX_PAGE = 2
INVARIANT
  StatsPresent
CHECK_DEADLOCK FALSE
