CONSTANTS
  a = a
  b = b
  Shards <- TwoShards
  Size <- TwoSizes
  TTL = 1
  MAX_JOBS = 2
  MAX_CHANGES = 2
  Absent = Absent
  Torn = Torn
SPECIFICATION FairSpec
INVARIANTS
  TypeOK
  WhatWasWritten
PROPERTY CheckpointsGoOn
