CONSTANTS
  s1 = s1
  s2 = s2
  s3 = s3
  a = a
  b = b
  c = c
  Server <- ThreeServers
  Ip <- ThreeIps
  Reply <- SomeReplies
  Filter <- MCFilter
  Mode <- AllModes
  MAX_ELAPSED = 2
SPECIFICATION Spec
INVARIANTS
  AddressesServed
  NoHastyEnd
  FastestServed
PROPERTIES
  LoopEnds
  ImplementsLookup
