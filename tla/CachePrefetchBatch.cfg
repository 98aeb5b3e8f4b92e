CONSTANTS
  a = a
  b = b
  client = client
  slot = slot
  slot2 = slot2
  Key <- TwoKeys
  IpKey <- TwoKeys
  TTL <- LongTTL
  Client <- OneClient
  Slot <- OneSlot
  CHANNEL = 1
  BATCH = 1
  MIN_INTERVAL = 1
  AHEAD = 1
  EXPIRED_TTL = 0
  ON_HIT = 0
  MAX_TTL = 3
  MAX_WAITING = 1
  SERVE_EXPIRED = FALSE
  File <- NoKey
  MAY_CLEAR = FALSE
  MAY_FAIL = TRUE
SPECIFICATION Spec
INVARIANT CutIsTakenNext
