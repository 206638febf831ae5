CONSTANTS
  r = r
  a = a
  b = b
  c = c
  issue = issue
  t1 = t1
  t2 = t2
  NoRecord = NoRecord
  DID = {r, a, b, c}
  Capability = {issue}
  Covers <- MCCovers
  DepthRange = 256
  Task = {t1, t2}
  Request <- DownRequest

SPECIFICATION FairSpec

PROPERTY ImplementsStore
PROPERTY VerifiedChainIsLive
PROPERTY CallsReturn
