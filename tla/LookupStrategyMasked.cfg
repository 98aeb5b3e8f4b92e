CONSTANTS
  s1 = s1
  s2 = s2
  s3 = s3
  a = a
  b = b
  c = c
  Server <- TwoServers
  Ip <- TwoIps
  Reply <- AllErrors
  Filter <- Unfiltered
  Mode <- OnlyFastestResponse
  MAX_ELAPSED = 2
SPECIFICATION Spec
INVARIANT NegativeNotMasked
