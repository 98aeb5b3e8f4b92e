SPECIFICATION Spec
CONSTANTS
  none = none
  some = some
  NoFilter <- MCNoFilter
  Filters <- MCFilters
  Scenarios <- MCScenarios
  MAX_VERSION = 3
  MAX_PAGE = 2
INVARIANTS
  TypeOK
  FreshAfterConfirm
  AtMostOnce
PROPERTIES
  NeverBackwards
  PolledCatchesUp
  NothingStaysPaused
  PanelsSettle
CHECK_DEADLOCK FALSE
