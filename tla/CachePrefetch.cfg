CONSTANTS
  a = a
  b = b
  client = client
  slot = slot
  slot2 = slot2
  Key <- OneKey
  IpKey <- OneKey
  TTL <- ShortTTL
  Client <- NoClient
  Slot <- TwoSlots
  CHANNEL = 1
  BATCH = 1
  MIN_INTERVAL = 1
  AHEAD = 1
  EXPIRED_TTL = 0
  ON_HIT = 1
  MAX_TTL = 2
  MAX_WAITING = 1
  SERVE_EXPIRED = TRUE
  File <- OneKey
  MAY_CLEAR = TRUE
  MAY_FAIL = TRUE
SPECIFICATION Spec
SYMMETRY SlotsAlike
INVARIANTS
  HeapCovers
  NeverOversleeps
  TypeOK
