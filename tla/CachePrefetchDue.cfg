CONSTANTS
  a = a
  b = b
  client = client
  slot = slot
  slot2 = slot2
  Key <- OneKey
  IpKey <- OneKey
  TTL <- ShortTTL
  Client <- OneClient
  Slot <- OneSlot
  CHANNEL = 1
  BATCH = 2
  MIN_INTERVAL = 1
  AHEAD = 1
  EXPIRED_TTL = 0
  ON_HIT = 1
  MAX_TTL = 3
  MAX_WAITING = 1
  SERVE_EXPIRED = TRUE
  File <- NoKey
  MAY_CLEAR = FALSE
  MAY_FAIL = TRUE
SPECIFICATION FairSpec
PROPERTY DueIsPrefetched
