CONSTANTS
  s1 = s1
  s2 = s2
  l1 = l1
  l2 = l2
  Server <- TwoServers
  Lookup <- TwoLookups
  FAIL_THRESHOLD = 2
  COOLDOWN = 2
  PROBE_INTERVAL = 1
  QUERY_TIMEOUT = 1
  DEADLINE = 1
  CONCURRENCY = 1
  RETRIES = 1
  MAX_TASKS = 2
SPECIFICATION FairSpec
PROPERTIES
  TaskProgress
  NoBlackout
  LookupEnds
  Recovers
