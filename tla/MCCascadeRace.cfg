CONSTANTS
  r = r
  a = a
  b = b
  c = c
  credential = credential
  issue = issue
  limit = limit
  region = region
  eu = eu
  us = us
  t1 = t1
  t2 = t2
  NoRecord = NoRecord
  DID = {r, a, b, c}
  Key = {limit, region}
  Number = {5, 10, 11}
  NaN = NaN
  Word = {eu, us}
  Capability <- MCCapability
  Use <- MCUse
  Covers <- MCCovers
  DepthRange = 256
  Task = {t1, t2}
  Request <- RaceRequest

SPECIFICATION AuditSpec

INVARIANT CascadeReachesAllChildren

CHECK_DEADLOCK FALSE
