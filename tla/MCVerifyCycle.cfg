CONSTANTS
  r = r
  a = a
  b = b
  c = c
  issue = issue
  t1 = t1
  NoRecord = NoRecord
  DID = {a, b, c}
  Capability = {issue}
  Covers <- MCCovers
  DepthRange = 256
  Task = {t1}
  Request <- CycleRequest

SPECIFICATION FairSpec

PROPERTY CallsReturn
