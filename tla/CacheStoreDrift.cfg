CONSTANTS
  a = a
  b = b
  c = c
  d = d
  t1 = t1
  t2 = t2
  loader = loader
  Key <- MCKey
  SHARDS = 2
  ShardOf <- MCShardOf
  Capacity = 2
  Sizes <- MCSizes
  MAX_BYTES = 3
  WORD = 16
  Task <- OneTask
  Loader = loader
  File <- NoFile
  MAY_CLEAR = TRUE
SPECIFICATION Spec
INVARIANT ClearResetsInStep
CHECK_DEADLOCK FALSE
