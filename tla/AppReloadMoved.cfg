SPECIFICATION Spec
CHECK_DEADLOCK FALSE
CONSTANTS
  r1 = r1
  r2 = r2
  r3 = r3
  Requests <- MCRequests
  Domains <- MCDomains
  Addrs <- MCAddrs
  HttpAddrs <- MCHttpAddrs
  Confs <- MCConfs
  Partial <- MCPartial
  Cut <- MCCut
  BootBinds <- MCBootBinds
  BootCaching = TRUE
  Ops <- MCOps
  After <- MCAfter
  MAX_EDITS = 1
  Absent = Absent
  Nobody = Nobody
INVARIANTS
  HotReloadServes
