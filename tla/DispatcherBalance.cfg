CONSTANTS
  f1 = f1 f2 = f2 f3 = f3 b1 = b1 b2 = b2
  Req <- ClientReq
  Background <- NoReq
  Panicking <- NoReq
  Limits <- Unlimited
  BATCH_SIZE = 2
  BG_PERMITS = 1
  FG_PERMITS = 1
SPECIFICATION FairSpec
INVARIANT StrictlyBalanced
CHECK_DEADLOCK FALSE
